------------------------- MODULE SearchKernelProofs -------------------------
(***************************************************************************)
(* Proofs about one search dispatch (module SearchKernel), for every value *)
(* of the constants that satisfies SearchKernel's assumptions: the result *)
(* buffers hold exactly this batch's winners once the queue drains, and a *)
(* search call implements the batch-level contract SearchBatch.            *)
(***************************************************************************)
EXTENDS SearchKernel, FiniteSetTheorems, TLAPS

\* The commands a dispatch may still have queued, head first.
QHeader == <<"WriteHeader", "ResetCount", "Search">>
QReset == <<"ResetCount", "Search">>
QSearch == <<"Search">>

AllIdle == \A t \in Threads : wpc[t] = "Idle"

\* Work-items past their atomic_inc: they own the slot it returned.
Counted == {t \in Threads : wpc[t] \in {"Store", "Done"} /\ Wins(cursor + t)}
CountedNonces == {cursor + t : t \in Counted}

(***************************************************************************)
(* While the NDRange runs: result_count counts the work-items past their  *)
(* atomic_inc, the slots they got are 0 .. count - 1, one each, and a      *)
(* work-item that has stored its nonce left it in its slot.                *)
(***************************************************************************)
RunInv ==
    /\ \A t \in Threads : wpc[t] \in {"Inc", "Store"} => Wins(cursor + t)
    /\ count = Cardinality(CountedNonces)
    /\ {slot[t] : t \in Counted} = 0 .. (count - 1)
    /\ \A t1, t2 \in Counted : t1 # t2 => slot[t1] # slot[t2]
    /\ \A t \in Counted :
          wpc[t] = "Done" /\ slot[t] < Cap => results[slot[t]] = cursor + t

(***************************************************************************)
(* DrainedResultsExact is not inductive: it speaks only once the queue has *)
(* drained, and what it says then is built up by the work-items while the  *)
(* Search command runs, after the queued reset has zeroed the counter.     *)
(* IInv follows a dispatch through its phases.                             *)
(***************************************************************************)
IInv ==
    /\ TypeOK
    /\ running => hpc = "Finishing" /\ queue = QSearch
    /\ ~running => AllIdle
    /\ hpc = "Idle" => queue = <<>>
    /\ hpc = "Finishing" =>
          /\ cursor + BatchSize <= MaxNonce
          /\ queue \in {QHeader, QReset, QSearch, <<>>}
    /\ (hpc = "Finishing" /\ queue = QSearch /\ ~running) => count = 0
    /\ running => RunInv
    /\ DrainedResultsExact

-----------------------------------------------------------------------------
LEMMA ThreadSetsFinite ==
    ASSUME NEW S \in SUBSET Threads
    PROVE  IsFiniteSet(S)
<1>1. IsFiniteSet(Threads)
  BY FS_Interval, BatchAssumption DEF Threads
<1>2. QED
  BY <1>1, FS_Subset

THEOREM InitIInv == Init => IInv
<1> SUFFICES ASSUME Init PROVE IInv
  OBVIOUS
<1>1. TypeOK
  <2>1. cursor \in 0 .. MaxNonce /\ count \in Nat
    BY NonceAssumption DEF Init
  <2>2. queue \in Seq(Commands)
    BY DEF Init
  <2>3. wpc \in [Threads -> {"Idle", "Hash", "Inc", "Store", "Done"}]
        /\ slot \in [Threads -> Nat]
    BY DEF Init
  <2>4. results \in [Slots -> Nonces \cup {Garbage}]
        /\ reported \in Nonces \cup {NoNonce}
    BY DEF Init
  <2>5. QED
    BY <2>1, <2>2, <2>3, <2>4 DEF Init, TypeOK
<1>2. ~running /\ AllIdle /\ hpc = "Idle" /\ queue = <<>>
  BY DEF Init, AllIdle
<1>3. QED
  BY <1>1, <1>2 DEF IInv, DrainedResultsExact

LEMMA DispatchStep == IInv /\ Dispatch => IInv'
<1> SUFFICES ASSUME IInv, Dispatch PROVE IInv'
  OBVIOUS
<1>1. hpc = "Idle" /\ queue = <<>> /\ ~running /\ AllIdle
  BY DEF IInv, Dispatch
<1>2. queue' = QHeader /\ hpc' = "Finishing"
  BY <1>1 DEF Dispatch, QHeader
<1>3. UNCHANGED <<cursor, running, wpc, slot, count, results, reported>>
  BY DEF Dispatch
<1>4. QHeader \in Seq(Commands) /\ QHeader # <<>> /\ QHeader # QSearch
  BY DEF QHeader, QSearch, Commands
<1>5. TypeOK'
  BY <1>2, <1>3, <1>4 DEF IInv, TypeOK
<1>6. cursor' + BatchSize <= MaxNonce
  BY <1>3 DEF Dispatch
<1>7. QED
  BY <1>1, <1>2, <1>3, <1>4, <1>5, <1>6
  DEF IInv, AllIdle, DrainedResultsExact

LEMMA WriteHeaderStep == IInv /\ WriteHeader => IInv'
<1> SUFFICES ASSUME IInv, WriteHeader PROVE IInv'
  OBVIOUS
<1>1. hpc = "Finishing" /\ queue = QHeader /\ ~running
  <2>1. queue # <<>> /\ Head(queue) = "WriteHeader"
    BY DEF WriteHeader
  <2>2. hpc = "Finishing"
    BY <2>1 DEF IInv, TypeOK
  <2>3. queue \notin {QReset, QSearch, <<>>}
    BY <2>1 DEF QReset, QSearch
  <2>4. QED
    BY <2>1, <2>2, <2>3 DEF IInv, QSearch
<1>2. queue' = QReset
  BY <1>1 DEF WriteHeader, QHeader, QReset
<1>3. UNCHANGED <<cursor, hpc, running, wpc, slot, count, results, reported>>
  BY DEF WriteHeader
<1>4. QReset \in Seq(Commands) /\ QReset # <<>> /\ QReset # QSearch
  BY DEF QReset, QSearch, Commands
<1>5. TypeOK'
  BY <1>2, <1>3, <1>4 DEF IInv, TypeOK
<1>6. QED
  BY <1>1, <1>2, <1>3, <1>4, <1>5 DEF IInv, AllIdle, DrainedResultsExact

LEMMA ResetCountStep == IInv /\ ResetCount => IInv'
<1> SUFFICES ASSUME IInv, ResetCount PROVE IInv'
  OBVIOUS
<1>1. hpc = "Finishing" /\ queue = QReset /\ ~running
  <2>1. queue # <<>> /\ Head(queue) = "ResetCount"
    BY DEF ResetCount
  <2>2. hpc = "Finishing"
    BY <2>1 DEF IInv, TypeOK
  <2>3. queue \notin {QHeader, QSearch, <<>>}
    BY <2>1 DEF QHeader, QSearch
  <2>4. QED
    BY <2>1, <2>2, <2>3 DEF IInv, QSearch
<1>2. queue' = QSearch /\ count' = 0
  BY <1>1 DEF ResetCount, QReset, QSearch
<1>3. UNCHANGED <<cursor, hpc, running, wpc, slot, results, reported>>
  BY DEF ResetCount
<1>4. QSearch \in Seq(Commands) /\ QSearch # <<>>
  BY DEF QSearch, Commands
<1>5. TypeOK'
  BY <1>2, <1>3, <1>4 DEF IInv, TypeOK
<1>6. QED
  BY <1>1, <1>2, <1>3, <1>4, <1>5 DEF IInv, AllIdle, DrainedResultsExact

LEMMA RestartStep == IInv /\ Restart => IInv'
<1> SUFFICES ASSUME IInv, Restart PROVE IInv'
  OBVIOUS
<1>1. hpc = "Idle" /\ queue = <<>> /\ ~running
  BY DEF IInv, Restart
<1>2. UNCHANGED <<hpc, queue, running, wpc, slot>>
  BY DEF Restart
<1>3. cursor' \in 0 .. MaxNonce /\ count' \in Nat
  BY NonceAssumption DEF Restart
<1>4. results' \in [Slots -> Nonces \cup {Garbage}]
      /\ reported' \in Nonces \cup {NoNonce}
  BY DEF Restart
<1>5. TypeOK'
  BY <1>2, <1>3, <1>4 DEF IInv, TypeOK
<1>6. QED
  BY <1>1, <1>2, <1>5 DEF IInv, AllIdle, DrainedResultsExact

LEMMA CollectStep == IInv /\ Collect => IInv'
<1> SUFFICES ASSUME IInv, Collect PROVE IInv'
  OBVIOUS
<1>1. hpc = "Finishing" /\ queue = <<>> /\ ~running
  BY DEF IInv, Collect, QSearch
<1>2. cursor + BatchSize <= MaxNonce /\ cursor \in Nat
  BY <1>1 DEF IInv, TypeOK
<1>3. count > 0 => results[0] \in Nonces
  <2> SUFFICES ASSUME count > 0 PROVE results[0] \in Nonces
    OBVIOUS
  <2>1. 0 \in 0 .. (Filled - 1)
    BY CapAssumption DEF IInv, TypeOK, Filled
  <2>2. results[0] \in Winners(cursor)
    BY <1>1, <2>1 DEF IInv, DrainedResultsExact
  <2>3. results[0] \in cursor .. (cursor + BatchSize - 1)
    BY <2>2, Zenon DEF Winners, Batch
  <2>4. QED
    BY <1>2, <2>3, BatchAssumption, NonceAssumption DEF Nonces
<1>4. reported' \in Nonces \cup {NoNonce}
  BY <1>3 DEF Collect
<1>5. cursor' \in 0 .. MaxNonce
  BY <1>2, BatchAssumption DEF Collect
<1>6. hpc' = "Idle" /\ UNCHANGED <<queue, running, wpc, slot, count, results>>
  BY DEF Collect
<1>7. TypeOK'
  BY <1>4, <1>5, <1>6 DEF IInv, TypeOK
<1>8. QED
  BY <1>1, <1>6, <1>7 DEF IInv, AllIdle, DrainedResultsExact

LEMMA LaunchStep == IInv /\ Launch => IInv'
<1> SUFFICES ASSUME IInv, Launch PROVE IInv'
  OBVIOUS
<1>1. hpc = "Finishing" /\ queue = QSearch /\ ~running /\ count = 0
  <2>1. queue # <<>> /\ Head(queue) = "Search" /\ ~running
    BY DEF Launch
  <2>2. hpc = "Finishing"
    BY <2>1 DEF IInv, TypeOK
  <2>3. queue \notin {QHeader, QReset, <<>>}
    BY <2>1 DEF QHeader, QReset
  <2>4. QED
    BY <2>1, <2>2, <2>3 DEF IInv
<1>2. running' = TRUE /\ wpc' = [t \in Threads |-> "Hash"]
      /\ UNCHANGED <<cursor, hpc, queue, slot, count, results, reported>>
  BY DEF Launch
<1>3. TypeOK'
  BY <1>2 DEF IInv, TypeOK
<1>4. Counted' = {} /\ CountedNonces' = {}
  BY <1>2 DEF Counted, CountedNonces
<1>5. RunInv'
  <2>1. Cardinality(CountedNonces') = 0
    BY <1>4, FS_EmptySet
  <2>2. QED
    BY <1>1, <1>2, <1>4, <2>1 DEF RunInv
<1>6. QED
  BY <1>1, <1>2, <1>3, <1>5 DEF IInv, DrainedResultsExact, QSearch

\* A work-item that has left "Idle" runs in the one launched NDRange.
LEMMA Running ==
    ASSUME IInv, NEW t \in Threads, wpc[t] # "Idle"
    PROVE  running /\ hpc = "Finishing" /\ queue = QSearch /\ RunInv
BY DEF IInv, AllIdle

LEMMA HashStep ==
    ASSUME IInv, NEW t \in Threads, Hash(t)
    PROVE  IInv'
<1>1. running /\ hpc = "Finishing" /\ queue = QSearch /\ RunInv
  BY Running DEF Hash
<1>2. UNCHANGED <<cursor, hpc, queue, running, slot, count, results, reported>>
  BY DEF Hash
<1>3. wpc' = [wpc EXCEPT ![t] = IF Wins(cursor + t) THEN "Inc" ELSE "Done"]
  BY DEF Hash
<1>4. TypeOK'
  BY <1>2, <1>3 DEF IInv, TypeOK
<1>5. Counted' = Counted
  <2>1. t \notin Counted
    BY DEF Hash, Counted
  <2>2. t \notin Counted'
    BY <1>2, <1>3 DEF Counted, IInv, TypeOK
  <2>3. \A u \in Threads \ {t} : wpc'[u] = wpc[u]
    BY <1>3 DEF IInv, TypeOK
  <2>4. QED
    BY <1>2, <2>1, <2>2, <2>3 DEF Counted
<1>6. CountedNonces' = CountedNonces
  BY <1>2, <1>5 DEF CountedNonces
<1>7. RunInv'
  <2>1. \A u \in Threads : wpc'[u] \in {"Inc", "Store"} => Wins(cursor' + u)
    BY <1>1, <1>2, <1>3 DEF RunInv, IInv, TypeOK
  <2>2. \A u \in Counted : wpc'[u] = wpc[u]
    BY <1>3, <1>5 DEF Hash, Counted, IInv, TypeOK
  <2>3. QED
    BY <1>1, <1>2, <1>5, <1>6, <2>1, <2>2 DEF RunInv
<1>8. QED
  BY <1>1, <1>2, <1>4, <1>7 DEF IInv, DrainedResultsExact, QSearch

\* The nonces of counted work-items are nonces of the batch: a finite set.
LEMMA CountedNoncesFinite ==
    ASSUME IInv
    PROVE  IsFiniteSet(CountedNonces)
<1>0. cursor \in Nat
  BY DEF IInv, TypeOK
<1>1. CountedNonces \subseteq cursor .. (cursor + BatchSize - 1)
  <2> SUFFICES ASSUME NEW x \in CountedNonces
               PROVE  x \in cursor .. (cursor + BatchSize - 1)
    BY DEF CountedNonces
  <2>1. PICK u \in Counted : x = cursor + u
    BY DEF CountedNonces
  <2>2. u \in Threads
    BY DEF Counted
  <2>3. QED
    BY <1>0, <2>1, <2>2, BatchAssumption DEF Threads
<1>2. IsFiniteSet(cursor .. (cursor + BatchSize - 1))
  BY <1>0, FS_Interval, BatchAssumption
<1>3. QED
  BY <1>1, <1>2, FS_Subset

LEMMA IncStep ==
    ASSUME IInv, NEW t \in Threads, Inc(t)
    PROVE  IInv'
<1>1. running /\ hpc = "Finishing" /\ queue = QSearch /\ RunInv
  BY Running DEF Inc
<1>2. UNCHANGED <<cursor, hpc, queue, running, results, reported>>
  BY DEF Inc
<1>3. /\ wpc' = [wpc EXCEPT ![t] = "Store"]
      /\ slot' = [slot EXCEPT ![t] = count]
      /\ count' = count + 1
      /\ wpc[t] = "Inc"
  BY DEF Inc
<1>4. Wins(cursor + t)
  BY <1>1, <1>3 DEF RunInv
<1>5. TypeOK'
  BY <1>2, <1>3 DEF IInv, TypeOK
<1>6. t \notin Counted /\ Counted' = Counted \cup {t}
  <2>1. t \notin Counted
    BY <1>3 DEF Counted
  <2>2. \A u \in Threads \ {t} : wpc'[u] = wpc[u]
    BY <1>3 DEF IInv, TypeOK
  <2>3. t \in Counted'
    BY <1>2, <1>3, <1>4 DEF Counted, IInv, TypeOK
  <2>4. QED
    BY <1>2, <2>1, <2>2, <2>3 DEF Counted
<1>7. \A u \in Counted : wpc'[u] = wpc[u] /\ slot'[u] = slot[u]
  BY <1>3, <1>6 DEF IInv, TypeOK, Counted
<1>8. count' = Cardinality(CountedNonces')
  <2>1. CountedNonces' = CountedNonces \cup {cursor + t}
    BY <1>2, <1>6 DEF CountedNonces
  <2>2. cursor + t \notin CountedNonces
    BY <1>6 DEF CountedNonces, Counted, IInv, TypeOK, Threads
  <2>3. IsFiniteSet(CountedNonces)
    BY CountedNoncesFinite
  <2>4. QED
    BY <1>1, <1>3, <2>1, <2>2, <2>3, FS_AddElement DEF RunInv
<1>9. {slot'[u] : u \in Counted'} = 0 .. (count' - 1)
  <2>1. {slot'[u] : u \in Counted'} = {slot[u] : u \in Counted} \cup {count}
    BY <1>3, <1>6, <1>7 DEF IInv, TypeOK
  <2>2. (0 .. (count - 1)) \cup {count} = 0 .. (count' - 1)
    BY <1>3 DEF IInv, TypeOK
  <2>3. QED
    BY <1>1, <2>1, <2>2 DEF RunInv
<1>10. \A u1, u2 \in Counted' : u1 # u2 => slot'[u1] # slot'[u2]
  <2>1. \A u \in Counted : slot[u] \in 0 .. (count - 1)
    BY <1>1 DEF RunInv
  <2>2. slot'[t] = count
    BY <1>3 DEF IInv, TypeOK
  <2>3. QED
    BY <1>1, <1>6, <1>7, <2>1, <2>2 DEF RunInv, IInv, TypeOK
<1>11. \A u \in Counted' :
          wpc'[u] = "Done" /\ slot'[u] < Cap => results'[slot'[u]] = cursor' + u
  <2>1. wpc'[t] = "Store"
    BY <1>3 DEF IInv, TypeOK
  <2>2. QED
    BY <1>1, <1>2, <1>6, <1>7, <2>1 DEF RunInv
<1>12. \A u \in Threads : wpc'[u] \in {"Inc", "Store"} => Wins(cursor' + u)
  BY <1>1, <1>2, <1>3, <1>4 DEF RunInv, IInv, TypeOK
<1>13. RunInv'
  BY <1>8, <1>9, <1>10, <1>11, <1>12 DEF RunInv
<1>14. QED
  BY <1>1, <1>2, <1>5, <1>13 DEF IInv, DrainedResultsExact, QSearch

LEMMA StoreStep ==
    ASSUME IInv, NEW t \in Threads, Store(t)
    PROVE  IInv'
<1>1. running /\ hpc = "Finishing" /\ queue = QSearch /\ RunInv
  BY Running DEF Store
<1>2. UNCHANGED <<cursor, hpc, queue, running, slot, count, reported>>
  BY DEF Store
<1>3. /\ wpc' = [wpc EXCEPT ![t] = "Done"]
      /\ results' = IF slot[t] < Cap
                    THEN [results EXCEPT ![slot[t]] = cursor + t]
                    ELSE results
      /\ wpc[t] = "Store"
  BY DEF Store
<1>4. Wins(cursor + t) /\ t \in Counted
  BY <1>1, <1>3 DEF RunInv, Counted
<1>5. cursor + t \in Nonces /\ slot[t] \in Nat
  <2>1. cursor \in Nat /\ cursor + BatchSize <= MaxNonce /\ slot[t] \in Nat
    BY <1>1 DEF IInv, TypeOK
  <2>2. QED
    BY <2>1, BatchAssumption, NonceAssumption DEF Threads, Nonces
<1>6. TypeOK'
  <2>1. results' \in [Slots -> Nonces \cup {Garbage}]
    BY <1>3, <1>5 DEF IInv, TypeOK, Slots
  <2>2. QED
    BY <1>2, <1>3, <2>1 DEF IInv, TypeOK
<1>7. Counted' = Counted
  <2>1. \A u \in Threads \ {t} : wpc'[u] = wpc[u]
    BY <1>3 DEF IInv, TypeOK
  <2>2. t \in Counted'
    BY <1>2, <1>3, <1>4 DEF Counted, IInv, TypeOK
  <2>3. QED
    BY <1>2, <1>4, <2>1, <2>2 DEF Counted
<1>8. CountedNonces' = CountedNonces
  BY <1>2, <1>7 DEF CountedNonces
<1>9. \A u \in Counted' :
          wpc'[u] = "Done" /\ slot'[u] < Cap => results'[slot'[u]] = cursor' + u
  <2> SUFFICES ASSUME NEW u \in Counted', wpc'[u] = "Done", slot'[u] < Cap
               PROVE  results'[slot'[u]] = cursor' + u
    OBVIOUS
  <2>1. u \in Counted /\ u \in Threads /\ slot[u] \in Nat
    BY <1>7 DEF Counted, IInv, TypeOK
  <2>2. CASE u = t
    <3>0. slot' = slot /\ cursor' = cursor
      BY <1>2
    <3>1. slot[t] \in Slots /\ results \in [Slots -> Nonces \cup {Garbage}]
      BY <3>0, <1>5, <2>2, CapAssumption DEF IInv, TypeOK, Slots
    <3>2. results' = [results EXCEPT ![slot[t]] = cursor + t]
      BY <1>2, <1>3, <2>2
    <3>3. QED
      BY <3>0, <2>2, <3>1, <3>2
  <2>3. CASE u # t
    <3>1. wpc[u] = "Done" /\ slot[u] # slot[t]
      BY <1>3, <1>4, <2>1, <2>3, <1>1 DEF IInv, TypeOK, RunInv
    <3>2. results[slot[u]] = cursor + u
      BY <1>1, <1>2, <2>1, <3>1 DEF RunInv
    <3>3. QED
      BY <1>2, <1>3, <2>1, <3>1, <3>2 DEF IInv, TypeOK, Slots
  <2>4. QED
    BY <2>2, <2>3
<1>10. \A u \in Threads : wpc'[u] \in {"Inc", "Store"} => Wins(cursor' + u)
  BY <1>1, <1>2, <1>3 DEF RunInv, IInv, TypeOK
<1>11. RunInv'
  BY <1>1, <1>2, <1>7, <1>8, <1>9, <1>10 DEF RunInv
<1>12. QED
  BY <1>1, <1>2, <1>6, <1>11 DEF IInv, DrainedResultsExact, QSearch

LEMMA CompleteStep == IInv /\ Complete => IInv'
<1> SUFFICES ASSUME IInv, Complete PROVE IInv'
  OBVIOUS
<1>1. running /\ hpc = "Finishing" /\ queue = QSearch /\ RunInv
  BY DEF IInv, Complete
<1>2. /\ \A t \in Threads : wpc[t] = "Done"
      /\ running' = FALSE /\ queue' = <<>>
      /\ wpc' = [t \in Threads |-> "Idle"]
  BY <1>1 DEF Complete, QSearch
<1>3. cursor' = cursor /\ hpc' = hpc /\ slot' = slot /\ count' = count
      /\ results' = results /\ reported' = reported
  BY DEF Complete
<1>4. TypeOK'
  <2>1. <<>> \in Seq(Commands)
    OBVIOUS
  <2>2. wpc' \in [Threads -> {"Idle", "Hash", "Inc", "Store", "Done"}]
    BY <1>2
  <2>3. QED
    BY <1>2, <1>3, <2>1, <2>2 DEF IInv, TypeOK
<1>5. cursor \in Nat /\ count \in Nat /\ cursor + BatchSize <= MaxNonce
  BY <1>1 DEF IInv, TypeOK
<1>6. Counted = {t \in Threads : Wins(cursor + t)}
  BY <1>2 DEF Counted
<1>7. CountedNonces = Winners(cursor)
  <2>1. ASSUME NEW x \in CountedNonces PROVE x \in Winners(cursor)
    <3>1. PICK u \in Counted : x = cursor + u
      BY <2>1 DEF CountedNonces
    <3>2. u \in Threads /\ Wins(cursor + u)
      BY <3>1 DEF Counted
    <3>3. x \in Batch(cursor)
      BY <1>5, <3>1, <3>2, BatchAssumption DEF Threads, Batch
    <3>4. QED
      BY <3>1, <3>2, <3>3 DEF Winners
  <2>2. ASSUME NEW x \in Winners(cursor) PROVE x \in CountedNonces
    <3>1. x \in Batch(cursor) /\ Wins(x)
      BY <2>2 DEF Winners
    <3>2. x - cursor \in Threads /\ x = cursor + (x - cursor)
      BY <1>5, <3>1, BatchAssumption DEF Threads, Batch
    <3>3. x - cursor \in Counted
      BY <1>6, <3>1, <3>2
    <3>4. QED
      BY <3>2, <3>3 DEF CountedNonces
  <2>3. QED
    BY <2>1, <2>2
<1>8. count = Cardinality(Winners(cursor))
  BY <1>1, <1>7 DEF RunInv
<1>9. ASSUME NEW s \in 0 .. (Filled - 1)
      PROVE  \E t \in Counted : slot[t] = s /\ results[s] = cursor + t
  <2>1. s \in 0 .. (count - 1) /\ s < Cap
    BY <1>5, <1>9, CapAssumption DEF Filled
  <2>2. PICK t \in Counted : slot[t] = s
    BY <1>1, <2>1 DEF RunInv
  <2>3. wpc[t] = "Done" /\ t \in Threads
    BY <1>2, <2>2 DEF Counted
  <2>4. results[s] = cursor + t
    BY <1>1, <2>1, <2>2, <2>3 DEF RunInv
  <2>5. QED
    BY <2>2, <2>4
<1>10. \A s \in 0 .. (Filled - 1) : results[s] \in Winners(cursor)
  <2> SUFFICES ASSUME NEW s \in 0 .. (Filled - 1)
               PROVE  results[s] \in Winners(cursor)
    OBVIOUS
  <2>1. PICK t \in Counted : slot[t] = s /\ results[s] = cursor + t
    BY <1>9
  <2>2. results[s] \in CountedNonces
    BY <2>1 DEF CountedNonces
  <2>3. QED
    BY <1>7, <2>2
<1>11. \A s1, s2 \in 0 .. (Filled - 1) : s1 # s2 => results[s1] # results[s2]
  <2> SUFFICES ASSUME NEW s1 \in 0 .. (Filled - 1), NEW s2 \in 0 .. (Filled - 1),
                      s1 # s2
               PROVE  results[s1] # results[s2]
    OBVIOUS
  <2>1. PICK t1 \in Counted : slot[t1] = s1 /\ results[s1] = cursor + t1
    BY <1>9
  <2>2. PICK t2 \in Counted : slot[t2] = s2 /\ results[s2] = cursor + t2
    BY <1>9
  <2>3. t1 # t2 /\ t1 \in Threads /\ t2 \in Threads
    BY <2>1, <2>2 DEF Counted
  <2>4. QED
    BY <1>5, <2>1, <2>2, <2>3 DEF Threads
<1>12. DrainedResultsExact'
  BY <1>3, <1>8, <1>10, <1>11 DEF DrainedResultsExact, Filled
<1>13. AllIdle'
  BY <1>2 DEF AllIdle
<1>14. hpc' = "Finishing" /\ cursor' + BatchSize <= MaxNonce
  BY <1>1, <1>3, <1>5
<1>15. (running => hpc = "Finishing" /\ queue = QSearch)'
      /\ (~running => AllIdle)' /\ (running => RunInv)'
  BY <1>2, <1>13
<1>16. (hpc = "Idle" => queue = <<>>)'
       /\ (hpc = "Finishing" /\ queue = QSearch /\ ~running => count = 0)'
  BY <1>2, <1>14 DEF QSearch
<1>17. (hpc = "Finishing" =>
          /\ cursor + BatchSize <= MaxNonce
          /\ queue \in {QHeader, QReset, QSearch, <<>>})'
  BY <1>2, <1>14
<1>18. QED
  BY <1>4, <1>12, <1>15, <1>16, <1>17 DEF IInv

LEMMA StutterStep == IInv /\ UNCHANGED vars => IInv'
<1> SUFFICES ASSUME IInv, UNCHANGED vars PROVE IInv'
  OBVIOUS
<1>1. /\ cursor' = cursor /\ hpc' = hpc /\ queue' = queue
      /\ running' = running /\ wpc' = wpc /\ slot' = slot
      /\ count' = count /\ results' = results /\ reported' = reported
  BY DEF vars
<1>2. QED
  BY <1>1 DEF IInv, TypeOK, AllIdle, RunInv, Counted, CountedNonces,
              DrainedResultsExact, Filled

LEMMA StepIInv == IInv /\ [Next]_vars => IInv'
<1> SUFFICES ASSUME IInv, [Next]_vars PROVE IInv'
  OBVIOUS
<1>1. CASE \E t \in Threads : Hash(t) \/ Inc(t) \/ Store(t)
  BY <1>1, HashStep, IncStep, StoreStep
<1>2. QED
  BY <1>1, DispatchStep, CollectStep, RestartStep, WriteHeaderStep,
     ResetCountStep, LaunchStep, CompleteStep, StutterStep DEF Next

\* IInv holds in every reachable state of a search dispatch.
THEOREM SearchInvariant == Spec => []IInv
BY InitIInv, StepIInv, PTL DEF Spec

(***************************************************************************)
(* Every reachable state of a search dispatch is well typed: in particular *)
(* the nonce adaptivepow_opencl_search returns is a nonce or "none", never *)
(* the garbage of an unwritten slot.                                       *)
(***************************************************************************)
THEOREM SearchTypeCorrect == Spec => []TypeOK
<1>1. IInv => TypeOK
  BY DEF IInv
<1>2. QED
  BY <1>1, SearchInvariant, PTL

(***************************************************************************)
(* For every batch size, slot count and winner set: once a dispatch has    *)
(* drained, result_count is the number of winners of the batch and the     *)
(* filled slots hold distinct winners of this batch (the queued reset of   *)
(* line 306 and the atomic_inc/store pair of kernel lines 204-208).        *)
(***************************************************************************)
THEOREM ResultsExact == Spec => []DrainedResultsExact
<1>1. IInv => DrainedResultsExact
  BY DEF IInv
<1>2. QED
  BY <1>1, SearchInvariant, PTL

\* The winners of a batch form a finite set: no winners means count 0.
LEMMA NoWinners ==
    ASSUME NEW c \in Nat, Cardinality(Winners(c)) = 0
    PROVE  Winners(c) = {}
<1>1. IsFiniteSet(Batch(c))
  BY FS_Interval, BatchAssumption DEF Batch
<1>2. Winners(c) \subseteq Batch(c)
  BY DEF Winners
<1>3. IsFiniteSet(Winners(c))
  BY <1>1, <1>2, FS_Subset
<1>4. QED
  BY <1>3, FS_EmptySet

\* The call's answer is one the batch-level contract allows.
LEMMA CollectRefines == IInv /\ Collect => Abstract!Search
<1> SUFFICES ASSUME IInv, Collect PROVE Abstract!Search
  OBVIOUS
<1>1. hpc = "Finishing" /\ queue = <<>>
  BY DEF Collect
<1>2. cursor + BatchSize <= MaxNonce /\ cursor \in Nat /\ count \in Nat
  BY <1>1 DEF IInv, TypeOK
<1>3. count = Cardinality(Winners(cursor))
  BY <1>1 DEF IInv, DrainedResultsExact
<1>4. CASE count > 0
  <2>1. 0 \in 0 .. (Filled - 1)
    BY <1>2, <1>4, CapAssumption DEF Filled
  <2>2. results[0] \in Winners(cursor)
    BY <1>1, <2>1 DEF IInv, DrainedResultsExact
  <2>3. reported' = results[0]
    BY <1>4 DEF Collect
  <2>4. reported' \in Abstract!Answers(cursor)
    BY <2>2, <2>3 DEF Abstract!Answers, Abstract!Winners, Abstract!Batch,
                      Winners, Batch
  <2>5. QED
    BY <1>2, <2>4 DEF Collect, Abstract!Search
<1>5. CASE count = 0
  <2>1. Winners(cursor) = {}
    BY <1>2, <1>3, <1>5, NoWinners
  <2>2. reported' = NoNonce
    BY <1>5 DEF Collect
  <2>3. reported' \in Abstract!Answers(cursor)
    BY <2>1, <2>2 DEF Abstract!Answers, Abstract!Winners, Abstract!Batch,
                      Winners, Batch
  <2>4. QED
    BY <1>2, <2>3 DEF Collect, Abstract!Search
<1>6. QED
  BY <1>2, <1>4, <1>5

(***************************************************************************)
(* adaptivepow_opencl_search implements SearchBatch for every value of the *)
(* constants: a completed call is one batch step of the contract, a        *)
(* restart is its Restart, and every other step (the enqueues, the device *)
(* commands, the work-items) leaves the cursor and foundNonce alone.       *)
(***************************************************************************)
THEOREM Refinement == Spec => Implements
<1>1. Init => Abstract!Init
  BY DEF Init, Abstract!Init
<1>2. IInv /\ [Next]_vars => [Abstract!Next]_<<cursor, reported>>
  <2> SUFFICES ASSUME IInv, [Next]_vars
               PROVE  [Abstract!Next]_<<cursor, reported>>
    OBVIOUS
  <2>1. CASE Collect
    BY <2>1, CollectRefines DEF Abstract!Next
  <2>2. CASE Restart
    BY <2>2 DEF Restart, Abstract!Restart, Abstract!Next
  <2>3. CASE \/ Dispatch \/ WriteHeader \/ ResetCount \/ Launch \/ Complete
             \/ UNCHANGED vars
    \* Host and queue steps leave the cursor and the report alone.
    BY <2>3 DEF Dispatch, WriteHeader, ResetCount, Launch, Complete, vars
  <2>4. CASE \E t \in Threads : Hash(t) \/ Inc(t) \/ Store(t)
    BY <2>4 DEF Hash, Inc, Store
  <2>5. QED
    BY <2>1, <2>2, <2>3, <2>4 DEF Next
<1>3. QED
  BY <1>1, <1>2, SearchInvariant, PTL DEF Spec, Implements, Abstract!Spec
=============================================================================
