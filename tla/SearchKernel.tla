---------------------------- MODULE SearchKernel ----------------------------
(***************************************************************************)
(* One search dispatch at the level of work-items: the host side of       *)
(* adaptivepow_opencl_search, the in-order command queue it enqueues on,   *)
(* and the result collection of the adaptivepow_search kernel, where the   *)
(* work-items of a batch run concurrently and winners race on atomic_inc   *)
(* of result_count and then store their nonce into the slot it gave them. *)
(*                                                                         *)
(* The hash a work-item computes is abstracted to Wins(nonce); the header *)
(* and DAG are fixed for the run.  The results buffer and counter persist *)
(* between calls (they are created once, in adaptivepow_opencl_init, and   *)
(* never cleared); their first contents are whatever the allocation held. *)
(***************************************************************************)
EXTENDS Naturals, Sequences, FiniteSets

CONSTANTS
    BatchSize,   \* BATCH_SIZE: work-items per dispatch
    Cap,         \* result slots the kernel fills ("idx < 16")
    MaxNonce,    \* bound on the cursor
    Wins(_),     \* Wins(nonce): the work-item's hash_high <= target
    NoNonce,     \* foundNonce untouched: the call returned 0
    Garbage      \* a result slot no work-item has written yet

ASSUME BatchAssumption == BatchSize \in Nat \ {0}
ASSUME CapAssumption == Cap \in Nat \ {0}
ASSUME NonceAssumption == MaxNonce \in Nat /\ BatchSize <= MaxNonce
ASSUME SentinelAssumption ==
    NoNonce \notin Nat /\ Garbage \notin Nat /\ NoNonce # Garbage

Threads == 0 .. (BatchSize - 1)     \* get_global_id(0)
Slots == 0 .. (Cap - 1)
Nonces == 0 .. (MaxNonce - 1)

\* Commands of the queue: the two clEnqueueWriteBuffer and the NDRange.
Commands == {"WriteHeader", "ResetCount", "Search"}

VARIABLES
    cursor,      \* ctx->currentNonce: startNonce of the next dispatch
    hpc,         \* host: "Idle" or "Finishing" (blocked in clFinish)
    queue,       \* the in-order command queue, head executes first
    running,     \* the Search command at the head has started
    wpc,         \* program counter of each work-item
    slot,        \* the value atomic_inc returned to each work-item
    count,       \* contents of resultCountBuffer
    results,     \* contents of resultsBuffer, one nonce per slot
    reported     \* foundNonce of the last completed call, or NoNonce

vars == <<cursor, hpc, queue, running, wpc, slot, count, results, reported>>

Batch(s) == s .. (s + BatchSize - 1)
Winners(s) == {n \in Batch(s) : Wins(n)}

\* Uninitialised device memory: a small counter value, unwritten slots.
Init ==
    /\ cursor = 0
    /\ hpc = "Idle"
    /\ queue = <<>>
    /\ running = FALSE
    /\ wpc = [t \in Threads |-> "Idle"]
    /\ slot = [t \in Threads |-> 0]
    /\ count \in 0 .. BatchSize
    /\ results = [s \in Slots |-> Garbage]
    /\ reported = NoNonce

-----------------------------------------------------------------------------
\* Bug variant: the counter reset is not enqueued.
DispatchNoReset ==
    /\ hpc = "Idle"
    /\ cursor + BatchSize <= MaxNonce
    /\ queue' = queue \o <<"WriteHeader", "Search">>
    /\ hpc' = "Finishing"
    /\ UNCHANGED <<cursor, running, wpc, slot, count, results, reported>>

(***************************************************************************)
(* Host: adaptivepow_opencl_search up to clFinish.  The header upload and *)
(* the counter reset are non-blocking writes, enqueued before the kernel. *)
(***************************************************************************)
Dispatch ==
    /\ hpc = "Idle"
    /\ cursor + BatchSize <= MaxNonce
    /\ queue' = queue \o <<"WriteHeader", "ResetCount", "Search">>
    /\ hpc' = "Finishing"
    /\ UNCHANGED <<cursor, running, wpc, slot, count, results, reported>>

\* Bug variant: foundNonce keeps the previous call's value when none is found.
CollectStaleFound ==
    /\ hpc = "Finishing"
    /\ queue = <<>>
    /\ reported' = IF count > 0 THEN results[0] ELSE reported
    /\ cursor' = cursor + BatchSize
    /\ hpc' = "Idle"
    /\ UNCHANGED <<queue, running, wpc, slot, count, results>>

(***************************************************************************)
(* Host: clFinish returns once the queue is drained; then the blocking     *)
(* reads of the counter and, when it is positive, of the results, and      *)
(* foundNonce = results[1] << 32 | results[0], i.e. slot 0.  On return    *)
(* miner_submit_job advances the cursor by hashCount = BATCH_SIZE.         *)
(***************************************************************************)
Collect ==
    /\ hpc = "Finishing"
    /\ queue = <<>>
    /\ reported' = IF count > 0 THEN results[0] ELSE NoNonce
    /\ cursor' = cursor + BatchSize
    /\ hpc' = "Idle"
    /\ UNCHANGED <<queue, running, wpc, slot, count, results>>

(***************************************************************************)
(* miner_shutdown then miner_init: a new context with new, uninitialised  *)
(* buffers and its cursor at 0.                                            *)
(***************************************************************************)
Restart ==
    /\ hpc = "Idle"
    /\ cursor' = 0
    /\ count' \in 0 .. BatchSize
    /\ results' = [s \in Slots |-> Garbage]
    /\ reported' = NoNonce
    /\ UNCHANGED <<hpc, queue, running, wpc, slot>>

-----------------------------------------------------------------------------
\* Device: the buffer writes at the head of the queue.
WriteHeader ==
    /\ queue # <<>> /\ Head(queue) = "WriteHeader"
    /\ queue' = Tail(queue)
    /\ UNCHANGED <<cursor, hpc, running, wpc, slot, count, results, reported>>

ResetCount ==
    /\ queue # <<>> /\ Head(queue) = "ResetCount"
    /\ queue' = Tail(queue)
    /\ count' = 0
    /\ UNCHANGED <<cursor, hpc, running, wpc, slot, results, reported>>

\* Device: the NDRange starts; every work-item begins at the hash.
Launch ==
    /\ queue # <<>> /\ Head(queue) = "Search"
    /\ ~running
    /\ running' = TRUE
    /\ wpc' = [t \in Threads |-> "Hash"]
    /\ UNCHANGED <<cursor, hpc, queue, slot, count, results, reported>>

\* Kernel lines 130-203: nonce = start_nonce + thread_id, hash, compare.
Hash(t) ==
    /\ wpc[t] = "Hash"
    /\ wpc' = [wpc EXCEPT ![t] = IF Wins(cursor + t) THEN "Inc" ELSE "Done"]
    /\ UNCHANGED <<cursor, hpc, queue, running, slot, count, results, reported>>

\* Kernel line 204: idx = atomic_inc(result_count).
Inc(t) ==
    /\ wpc[t] = "Inc"
    /\ slot' = [slot EXCEPT ![t] = count]
    /\ count' = count + 1
    /\ wpc' = [wpc EXCEPT ![t] = "Store"]
    /\ UNCHANGED <<cursor, hpc, queue, running, results, reported>>

\* Bug variant: the "idx < 16" guard dropped; the store runs past the buffer.
StoreUnguarded(t) ==
    /\ wpc[t] = "Store"
    /\ results' = [s \in Slots \cup {slot[t]} |->
                      IF s = slot[t] THEN cursor + t ELSE results[s]]
    /\ wpc' = [wpc EXCEPT ![t] = "Done"]
    /\ UNCHANGED <<cursor, hpc, queue, running, slot, count, reported>>

\* Kernel lines 205-208: the two words of the nonce go to slot idx if idx < 16.
Store(t) ==
    /\ wpc[t] = "Store"
    /\ results' = IF slot[t] < Cap
                  THEN [results EXCEPT ![slot[t]] = cursor + t]
                  ELSE results
    /\ wpc' = [wpc EXCEPT ![t] = "Done"]
    /\ UNCHANGED <<cursor, hpc, queue, running, slot, count, reported>>

\* Device: the NDRange completes when every work-item has returned.
Complete ==
    /\ running
    /\ \A t \in Threads : wpc[t] = "Done"
    /\ running' = FALSE
    /\ queue' = Tail(queue)
    /\ wpc' = [t \in Threads |-> "Idle"]
    /\ UNCHANGED <<cursor, hpc, slot, count, results, reported>>

Next ==
    \/ Dispatch \/ Collect \/ Restart
    \/ WriteHeader \/ ResetCount \/ Launch \/ Complete
    \/ \E t \in Threads : Hash(t) \/ Inc(t) \/ Store(t)

Spec == Init /\ [][Next]_vars

-----------------------------------------------------------------------------
TypeOK ==
    /\ cursor \in 0 .. MaxNonce
    /\ hpc \in {"Idle", "Finishing"}
    /\ queue \in Seq(Commands)
    /\ running \in BOOLEAN
    /\ wpc \in [Threads -> {"Idle", "Hash", "Inc", "Store", "Done"}]
    /\ slot \in [Threads -> Nat]
    /\ count \in Nat
    /\ results \in [Slots -> Nonces \cup {Garbage}]
    /\ reported \in Nonces \cup {NoNonce}

(***************************************************************************)
(* Once a dispatch has drained, result_count is exactly the number of     *)
(* winners of the batch, even past the 16-slot cap, and the first          *)
(* min(count, 16) slots hold distinct winners of this batch: no slot is   *)
(* left with a nonce of an earlier call or with garbage.  About the reset  *)
(* enqueued before the kernel (line 306), the in-order queue, and the      *)
(* atomic_inc/store pair of kernel lines 204-208.                          *)
(***************************************************************************)
Filled == IF count < Cap THEN count ELSE Cap

DrainedResultsExact ==
    (hpc = "Finishing" /\ queue = <<>>) =>
        /\ count = Cardinality(Winners(cursor))
        /\ \A s \in 0 .. (Filled - 1) : results[s] \in Winners(cursor)
        /\ \A s1, s2 \in 0 .. (Filled - 1) :
              s1 # s2 => results[s1] # results[s2]

(***************************************************************************)
(* adaptivepow_opencl_search implements its batch-level contract: with    *)
(* the cursor and foundNonce as the abstract state, every call hashes one *)
(* batch and reports a winner of that batch exactly when it has one.       *)
(***************************************************************************)
Abstract == INSTANCE SearchBatch

Implements == Abstract!Spec
=============================================================================
