------------------------------ MODULE MC_Miner ------------------------------
(***************************************************************************)
(* Instantiates Miner for TLC.  Epoch 1 is in the growth step of 0 (same  *)
(* size, different seed); 16 has a DAG of 2^34 bytes, the largest whose   *)
(* word indices fit a uint; 20 is the first whose indices wrap; 44 is     *)
(* past the 10-doubling cap (2^40 bytes, 2^34 items, so dag_items reaches *)
(* the kernel as 0).  Two jobs; batches of 2 nonces and a cursor bound of *)
(* 6: three batches, enough for a second find to land on a pending one.   *)
(***************************************************************************)
EXTENDS Miner

CONSTANTS j1, j2

MCEpochs == {0, 1, 20, 44}
\* Epochs whose DAG the kernel can write (below epoch 20).
MCEpochsFit == {0, 1, 16}
MCJobs == {j1, j2}

(***************************************************************************)
(* A stand-in for "hash_high <= target": a fixed pseudo-random pattern     *)
(* over job, dataset and nonce, so that some batches have no winner, some *)
(* one and some two, and the winners differ between datasets.              *)
(***************************************************************************)
MCWins(j, ds, n) ==
    LET s == IF ds \in Datasets THEN ds.seed + ds.log2 ELSE 5
        k == IF j = j1 THEN 0 ELSE 1
    IN  (n + s + k) % 3 # 0 /\ (n * 2 + s + k) % 4 # 1
=============================================================================
