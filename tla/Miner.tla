------------------------------- MODULE Miner -------------------------------
(***************************************************************************)
(* The host control path of one device context: the MinerContext of      *)
(* miner.cpp together with the OpenCLContext of the OpenCL backend that    *)
(* it drives (opencl_miner.cpp).  One action per exported call:           *)
(* miner_init, miner_generate_dag, miner_submit_job, miner_get_result,     *)
(* miner_update_epoch and miner_shutdown; each action includes the        *)
(* backend function it calls.                                              *)
(*                                                                         *)
(* Data is abstracted: the DAG buffer holds the identity of the dataset    *)
(* the kernels wrote into it (the GPU seed and the size it was generated   *)
(* for), or Uninit (never written) or Junk (written from garbage).  A      *)
(* search batch is atomic here: the host blocks in clFinish until every    *)
(* work-item is done; the interleaving of the work-items is the subject    *)
(* of module SearchKernel.                                                 *)
(***************************************************************************)
EXTENDS Naturals, FiniteSets

CONSTANTS
    Epochs,       \* epochs the caller may pass to miner_init/update_epoch
    Jobs,         \* mining jobs (header + target), as model values
    BatchSize,    \* BATCH_SIZE: work-items per search dispatch
    MaxNonce,     \* bound on the nonce cursor, to keep the model finite
    Faults,       \* the failures of OpenCL calls this model lets happen
    Wins(_, _, _),\* Wins(job, dataset, nonce): the nonce's hash meets target
    Uninit,       \* contents of a buffer nothing has written
    Junk,         \* contents written from an unwritten cache or cut short
    NoJob         \* job id of the zeroed pendingResult (calloc)

\* CacheAlloc: clCreateBuffer of the cache fails (checked, returns -2).
\* KernelCreate: clCreateKernel of generate_dag/generate_cache fails
\*   (unchecked: the handle stays NULL and init still returns 0).
\* Launch: clEnqueueNDRangeKernel fails (its error code is never read).
AllFaults == {"CacheAlloc", "KernelCreate", "Launch"}

ASSUME EpochsAssumption == Epochs \subseteq Nat /\ Epochs # {}
ASSUME BatchAssumption == BatchSize \in Nat \ {0}
ASSUME NonceAssumption == MaxNonce \in Nat /\ BatchSize <= MaxNonce
ASSUME FaultsAssumption == Faults \subseteq AllFaults
ASSUME SentinelAssumption == Uninit # Junk /\ NoJob \notin Jobs

(***************************************************************************)
(* getDagSize / adaptivepow_get_dag_size, kept as log2 of the byte size:  *)
(* DAG_BASE_SIZE << min(epoch / GROWTH_RATE, 10), DAG_BASE_SIZE = 2^30.    *)
(***************************************************************************)
GROWTH_RATE == 4
\* Bug variant, for testing the properties: the cap at 10 doublings dropped.
DoublingsUncapped(e) == e \div GROWTH_RATE
Doublings(e) == IF e \div GROWTH_RATE > 10 THEN 10 ELSE e \div GROWTH_RATE
DagLog2(e) == 30 + Doublings(e)

(***************************************************************************)
(* The seed adaptivepow_opencl_generate_dag builds: bytes 0 and 1 are the  *)
(* low 16 bits of the epoch, the rest zero.  A dataset is determined by    *)
(* that seed and by the DAG size it is generated for.                      *)
(***************************************************************************)
GpuSeed(e) == e % 65536
DatasetOf(seed, log2) == [seed |-> seed, log2 |-> log2]
Datasets == {DatasetOf(GpuSeed(e), DagLog2(e)) : e \in Epochs}
Contents == Datasets \cup {Uninit, Junk}

NonceSpace == 0 .. (MaxNonce - 1)
Batch(start) == start .. (start + BatchSize - 1)

\* An OpenCL call fails only when its fault is enabled.
MayFail(f) == IF f \in Faults THEN BOOLEAN ELSE {FALSE}

NoResult == [job |-> NoJob, nonce |-> 0, ds |-> Uninit]
Results == [job : Jobs \cup {NoJob}, nonce : NonceSpace, ds : Contents]

DeadEpoch == CHOOSE e \in Epochs : TRUE  \* fields of a freed context: immaterial

VARIABLES
    alive,          \* the MinerContext* is non-NULL
    epoch,          \* ctx->epoch
    dagLog,         \* ctx->dagSize (log2)
    dagReady,       \* ctx->dagReady
    gEpoch,         \* oclCtx->epoch
    gDagLog,        \* oclCtx->dagSize (log2)
    gDagReady,      \* oclCtx->dagReady
    cacheKernelOk,  \* oclCtx->cacheKernel != NULL
    dagKernelOk,    \* oclCtx->dagKernel != NULL
    dag,            \* contents of oclCtx->dagBuffer
    currentNonce,   \* ctx->currentNonce
    totalHashes,    \* ctx->totalHashes
    hasResult,      \* ctx->hasResult
    pending,        \* ctx->pendingResult
    probes,         \* history: how often each nonce was hashed by a work-item
    found,          \* history: every result a search stored into pending
    reported        \* history: every result miner_get_result handed out

vars == <<alive, epoch, dagLog, dagReady, gEpoch, gDagLog, gDagReady,
          cacheKernelOk, dagKernelOk, dag, currentNonce, totalHashes,
          hasResult, pending, probes, found, reported>>


(***************************************************************************)
(* The context miner_init(e) returns: calloc'd MinerContext and memset     *)
(* OpenCLContext with epoch and dagSize filled in.  ck and dk say whether  *)
(* clCreateKernel returned the cache and DAG kernels (lines 191-192 do not *)
(* check).  A freed context is kept at Fresh(DeadEpoch, FALSE, FALSE),    *)
(* which is also the state Init starts from.                               *)
(***************************************************************************)
Fresh(e, ck, dk) ==
    /\ epoch' = e /\ dagLog' = DagLog2(e) /\ dagReady' = FALSE
    /\ gEpoch' = e /\ gDagLog' = DagLog2(e) /\ gDagReady' = FALSE
    /\ cacheKernelOk' = ck /\ dagKernelOk' = dk
    /\ dag' = Uninit /\ currentNonce' = 0 /\ totalHashes' = 0
    /\ hasResult' = FALSE /\ pending' = NoResult
    /\ probes' = [n \in NonceSpace |-> 0]
    /\ found' = {} /\ reported' = {}

Init ==
    /\ alive = FALSE
    /\ epoch = DeadEpoch /\ dagLog = DagLog2(DeadEpoch) /\ dagReady = FALSE
    /\ gEpoch = DeadEpoch /\ gDagLog = DagLog2(DeadEpoch)
    /\ gDagReady = FALSE /\ cacheKernelOk = FALSE /\ dagKernelOk = FALSE
    /\ dag = Uninit /\ currentNonce = 0 /\ totalHashes = 0
    /\ hasResult = FALSE /\ pending = NoResult
    /\ probes = [n \in NonceSpace |-> 0]
    /\ found = {} /\ reported = {}

KernelMade == IF "KernelCreate" \in Faults THEN BOOLEAN ELSE {TRUE}

(***************************************************************************)
(* miner_init + adaptivepow_opencl_init.  The failing paths (no device,    *)
(* context, queue, kernel source, build, search kernel or DAG buffer)     *)
(* free everything and return NULL: a step that changes nothing.           *)
(***************************************************************************)
MinerInit(e) ==
    /\ ~alive
    /\ alive' = TRUE
    /\ \E ck, dk \in KernelMade : Fresh(e, ck, dk)

(***************************************************************************)
(* What the buffer holds after a DAG pass that wrote new contents over     *)
(* only part of it: the old contents if they were the same, else Junk.     *)
(***************************************************************************)
Overwrite(old, new) == IF old = new THEN old ELSE Junk

(***************************************************************************)
(* What one DAG pass leaves in a buffer holding old, when the dataset the *)
(* cache leads to is written, for a DAG of 2^log2 bytes.  dagItems =      *)
(* dagSize / 64 (line 225) is passed with sizeof(uint32_t) (line 262):    *)
(* the kernel sees its low word, which is 0 from 2^32 items (log2 >= 38,  *)
(* epochs >= 32), and every work-item returns at kernel line 220.  Below  *)
(* that, the word index idx * 16 + i of kernel line 241 is a uint: past   *)
(* 2^28 items (log2 35 to 37, epochs 20 to 31) it wraps, upper items      *)
(* overwrite lower ones and the top of the buffer keeps what it held      *)
(* (module DagKernel shows how).                                          *)
(***************************************************************************)
DagItemsTruncated(log2) == log2 - 6 >= 32
DagIndexWraps(log2) == (log2 - 6) + 4 > 32
DagPass(old, written, log2) ==
    CASE DagItemsTruncated(log2) -> old
      [] DagIndexWraps(log2)     -> Junk
      [] OTHER                   -> written

(***************************************************************************)
(* adaptivepow_opencl_generate_dag and the result test of                  *)
(* miner_generate_dag.  The cache is generated from the seed of oclCtx's   *)
(* epoch, then the DAG of oclCtx's size from the cache (DagPass); enqueue  *)
(* errors are ignored and a NULL kernel is skipped, yet 0 is returned and  *)
(* both ready flags are set.  Only the failed cache allocation returns an  *)
(* error.                                                                  *)
(***************************************************************************)
Generate ==
    \/ /\ "CacheAlloc" \in Faults
       /\ dagReady' = FALSE
       /\ UNCHANGED <<gDagReady, dag>>
    \/ /\ \E cacheFail, dagFail \in MayFail("Launch") :
            LET written == IF ~cacheKernelOk \/ cacheFail THEN Junk
                           ELSE DatasetOf(GpuSeed(gEpoch), gDagLog)
                pass == DagPass(dag, written, gDagLog)
            IN  dag' \in IF ~dagKernelOk THEN {dag}
                         ELSE IF dagFail THEN {dag, Overwrite(dag, pass)}
                         ELSE {pass}
       /\ gDagReady' = TRUE
       /\ dagReady' = TRUE

\* miner_generate_dag: refused while the DAG is ready.
GenerateDag ==
    /\ alive
    /\ ~dagReady
    /\ Generate
    /\ UNCHANGED <<alive, epoch, dagLog, gEpoch, gDagLog, cacheKernelOk,
                   dagKernelOk, currentNonce, totalHashes, hasResult, pending,
                   probes, found, reported>>

(***************************************************************************)
(* miner_submit_job + adaptivepow_opencl_search.  The header is built from *)
(* the job, BATCH_SIZE work-items hash the nonces currentNonce + tid, and  *)
(* the host reads back the result counter and, when it is positive, slot 0 *)
(* of the results buffer: the nonce of whichever winning work-item took    *)
(* index 0 of atomic_inc.  hashCount is BATCH_SIZE whatever the launch     *)
(* returned, and both counters advance by it.                             *)
(***************************************************************************)
\* Bug variant: a global size of BATCH_SIZE + 1 work-items.
ProbedInclusive(launchFail) ==
    IF launchFail THEN {} ELSE currentNonce .. (currentNonce + BatchSize)

\* Bug variant: the target comparison inverted.
HitsInverted(j, batch) == {n \in batch : ~Wins(j, dag, n)}

\* The nonces the work-items of one dispatch hash: none if the launch failed.
Probed(launchFail) == IF launchFail THEN {} ELSE Batch(currentNonce)

\* The winning work-items: hash_high <= target (kernel lines 201-203).
Hits(j, batch) == {n \in batch : Wins(j, dag, n)}

\* Lines 331-335 and 620-626: resultCount > 0 fills the pending slot.
StoreResult(j, hits) ==
    \/ /\ hits = {}
       /\ UNCHANGED <<hasResult, pending, found>>
    \/ \E n \in hits :
          /\ hasResult' = TRUE
          /\ pending' = [job |-> j, nonce |-> n, ds |-> dag]
          /\ found' = found \cup {pending'}

SubmitJob(j) ==
    /\ alive
    /\ dagReady
    /\ gDagReady
    /\ currentNonce + BatchSize <= MaxNonce
    /\ \E launchFail \in MayFail("Launch") :
        /\ probes' = [n \in NonceSpace |->
                          IF n \in Probed(launchFail) THEN probes[n] + 1
                                                      ELSE probes[n]]
        /\ totalHashes' = totalHashes + BatchSize
        /\ currentNonce' = currentNonce + BatchSize
        /\ StoreResult(j, Hits(j, Probed(launchFail)))
    /\ UNCHANGED <<alive, epoch, dagLog, dagReady, gEpoch, gDagLog, gDagReady,
                   cacheKernelOk, dagKernelOk, dag, reported>>

\* Bug variant: miner_get_result hands out the result and leaves hasResult set.
GetResultKeepingFlag ==
    /\ alive
    /\ hasResult
    /\ reported' = reported \cup {pending}
    /\ UNCHANGED <<alive, epoch, dagLog, dagReady, gEpoch, gDagLog, gDagReady,
                   cacheKernelOk, dagKernelOk, dag, currentNonce, totalHashes,
                   hasResult, pending, probes, found>>

\* miner_get_result: hands out the pending result and clears the flag.
GetResult ==
    /\ alive
    /\ hasResult
    /\ hasResult' = FALSE
    /\ reported' = reported \cup {pending}
    /\ UNCHANGED <<alive, epoch, dagLog, dagReady, gEpoch, gDagLog, gDagReady,
                   cacheKernelOk, dagKernelOk, dag, currentNonce, totalHashes,
                   pending, probes, found>>

(***************************************************************************)
(* miner_update_epoch: sets the MinerContext's epoch and size, clears      *)
(* dagReady and calls miner_generate_dag.  The OpenCLContext it reaches    *)
(* through gpuContext keeps its own epoch and dagSize.                     *)
(***************************************************************************)
UpdateEpoch(e) ==
    /\ alive
    /\ epoch' = e
    /\ dagLog' = DagLog2(e)
    /\ Generate
    /\ UNCHANGED <<alive, gEpoch, gDagLog, cacheKernelOk, dagKernelOk,
                   currentNonce, totalHashes, hasResult, pending, probes,
                   found, reported>>

\* miner_shutdown + adaptivepow_opencl_cleanup: releases and frees.
Shutdown ==
    /\ alive
    /\ alive' = FALSE
    /\ Fresh(DeadEpoch, FALSE, FALSE)

Next ==
    \/ \E e \in Epochs : MinerInit(e)
    \/ GenerateDag
    \/ \E j \in Jobs : SubmitJob(j)
    \/ GetResult
    \/ \E e \in Epochs : UpdateEpoch(e)
    \/ Shutdown

Spec == Init /\ [][Next]_vars

-----------------------------------------------------------------------------
TypeOK ==
    /\ alive \in BOOLEAN
    /\ epoch \in Epochs /\ gEpoch \in Epochs
    /\ dagLog \in 30 .. 40 /\ gDagLog \in 30 .. 40
    /\ dagReady \in BOOLEAN /\ gDagReady \in BOOLEAN
    /\ cacheKernelOk \in BOOLEAN /\ dagKernelOk \in BOOLEAN
    /\ dag \in Contents
    /\ currentNonce \in 0 .. MaxNonce /\ totalHashes \in 0 .. MaxNonce
    /\ hasResult \in BOOLEAN
    /\ pending \in Results
    /\ probes \in [NonceSpace -> Nat]
    /\ found \subseteq Results /\ reported \subseteq Results

(***************************************************************************)
(* Spec section 5: within a context every nonce of [0, total_hashes) has   *)
(* been hashed by exactly one work-item, and no nonce beyond it.  It is    *)
(* about the counter updates of miner_submit_job (lines 617-618) and       *)
(* hashCount = BATCH_SIZE in adaptivepow_opencl_search (line 325).         *)
(***************************************************************************)
ProbedExactlyOnce ==
    \A n \in NonceSpace : probes[n] = IF n < totalHashes THEN 1 ELSE 0

(***************************************************************************)
(* Spec section 4.8: a search only ever runs on a DAG that generation      *)
(* finished writing.  About the ready flags set by miner_generate_dag and  *)
(* adaptivepow_opencl_generate_dag whatever the kernel creation, the      *)
(* launches and the dag_items argument did, and cleared by               *)
(* miner_update_epoch.                                                     *)
(***************************************************************************)
ReadyImpliesGenerated ==
    dagReady => gDagReady /\ dag \in Datasets

(***************************************************************************)
(* Spec sections 3 and 4.6: the DAG searched is the dataset of the         *)
(* context's current epoch, seed and size both; after miner_update_epoch   *)
(* the regenerated DAG is the new epoch's.                                 *)
(***************************************************************************)
DatasetMatchesEpoch ==
    dagReady => dag = DatasetOf(GpuSeed(epoch), DagLog2(epoch))

(***************************************************************************)
(* A pending result of miner_submit_job names a nonce that meets its job's *)
(* target on the DAG it was searched on, and that nonce lies below the     *)
(* cursor: it was probed by an earlier batch of this context.              *)
(***************************************************************************)
PendingResultValid ==
    hasResult => /\ Wins(pending.job, pending.ds, pending.nonce)
                 /\ pending.nonce < currentNonce
                 /\ probes[pending.nonce] > 0

(***************************************************************************)
(* Spec section 1: found nonces are reported safely.  Every result a       *)
(* search stored in the single pendingResult slot is either still pending *)
(* or was handed out by miner_get_result before the next one replaced it.  *)
(***************************************************************************)
NoShareLost ==
    found \subseteq reported \cup (IF hasResult THEN {pending} ELSE {})


(***************************************************************************)
(* Spec section 3: the batch driver never re-issues a nonce.  The result  *)
(* waiting for miner_get_result carries a nonce that no result it handed  *)
(* out before in this context carried.  About the flag miner_get_result  *)
(* clears (line 637), and the cursor miner_submit_job advances by         *)
(* hashCount (line 618) before it stores the next find (lines 620-626),  *)
(* across jobs and miner_update_epoch.                                     *)
(***************************************************************************)
NoShareReissued ==
    hasResult => \A r \in reported : r.nonce # pending.nonce

=============================================================================
