---------------------------- MODULE SearchBatch ----------------------------
(***************************************************************************)
(* What one adaptivepow_opencl_search call promises its caller, with the  *)
(* batch as a single step: the BATCH_SIZE nonces from the cursor are       *)
(* hashed, the cursor moves past them, and the call reports one of the     *)
(* winning nonces of the batch if there is any, and nothing otherwise.     *)
(* Module SearchKernel, where the work-items interleave, implements it.    *)
(***************************************************************************)
EXTENDS Naturals

CONSTANTS
    BatchSize,   \* BATCH_SIZE
    MaxNonce,    \* bound on the cursor
    Wins(_),     \* Wins(nonce): hash_high <= target for this job and DAG
    NoNonce      \* "nothing found" (return value 0)

VARIABLES
    cursor,      \* the startNonce of the next batch
    reported     \* the nonce the last call returned in foundNonce, if any

Batch(s) == s .. (s + BatchSize - 1)
Winners(s) == {n \in Batch(s) : Wins(n)}

\* The answers a call may give for the batch starting at s.
Answers(s) == IF Winners(s) = {} THEN {NoNonce} ELSE Winners(s)

Init == cursor = 0 /\ reported = NoNonce

Search ==
    /\ cursor + BatchSize <= MaxNonce
    /\ cursor' = cursor + BatchSize
    /\ reported' \in Answers(cursor)

\* miner_shutdown and miner_init: a new context starts from nonce 0.
Restart ==
    /\ cursor' = 0
    /\ reported' = NoNonce

Next == Search \/ Restart

Spec == Init /\ [][Next]_<<cursor, reported>>
=============================================================================
