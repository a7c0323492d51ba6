---------------------------- MODULE MinerProofs ----------------------------
(***************************************************************************)
(* Proofs about the host control path of module Miner, for every value of *)
(* the constants that satisfies Miner's assumptions.                       *)
(***************************************************************************)
EXTENDS Miner, TLAPS

(***************************************************************************)
(* TypeOK is not inductive by itself: a DAG pass writes the dataset of     *)
(* oclCtx's epoch and size, which lies in Datasets only because the two    *)
(* fields of the OpenCLContext still agree (both are set together, by      *)
(* adaptivepow_opencl_init only).  Likewise the bound on totalHashes      *)
(* holds because it moves in step with currentNonce (lines 617-618).      *)
(***************************************************************************)
GpuSizeAgrees == gDagLog = DagLog2(gEpoch)
HashesAgree == totalHashes = currentNonce
TypeInv == TypeOK /\ GpuSizeAgrees /\ HashesAgree

LEMMA DagLog2Range ==
    ASSUME NEW e \in Nat
    PROVE  DagLog2(e) \in 30 .. 40
BY DEF DagLog2, Doublings, GROWTH_RATE

LEMMA DeadEpochIn == DeadEpoch \in Epochs
BY EpochsAssumption DEF DeadEpoch

LEMMA BatchInNonceSpace ==
    ASSUME NEW c \in Nat, c + BatchSize <= MaxNonce
    PROVE  Batch(c) \subseteq NonceSpace
BY BatchAssumption, NonceAssumption DEF Batch, NonceSpace

\* The contents a DAG pass leaves behind are contents again.
LEMMA GenerateContents ==
    ASSUME TypeInv, Generate
    PROVE  /\ dag' \in Contents
           /\ gDagReady' \in BOOLEAN
           /\ dagReady' \in BOOLEAN
<1>1. DatasetOf(GpuSeed(gEpoch), gDagLog) \in Contents
  BY DEF TypeInv, TypeOK, GpuSizeAgrees, Datasets, Contents
<1>2. Junk \in Contents /\ dag \in Contents
  BY DEF TypeInv, TypeOK, Contents
<1>3. CASE /\ "CacheAlloc" \in Faults
           /\ dagReady' = FALSE
           /\ UNCHANGED <<gDagReady, dag>>
  BY <1>2, <1>3 DEF TypeInv, TypeOK
<1>4. CASE /\ \E cacheFail, dagFail \in MayFail("Launch") :
                LET written == IF ~cacheKernelOk \/ cacheFail THEN Junk
                               ELSE DatasetOf(GpuSeed(gEpoch), gDagLog)
                    pass == DagPass(dag, written, gDagLog)
                IN  dag' \in IF ~dagKernelOk THEN {dag}
                             ELSE IF dagFail THEN {dag, Overwrite(dag, pass)}
                             ELSE {pass}
           /\ gDagReady' = TRUE
           /\ dagReady' = TRUE
  <2>1. PICK cacheFail, dagFail \in MayFail("Launch") :
                LET written == IF ~cacheKernelOk \/ cacheFail THEN Junk
                               ELSE DatasetOf(GpuSeed(gEpoch), gDagLog)
                    pass == DagPass(dag, written, gDagLog)
                IN  dag' \in IF ~dagKernelOk THEN {dag}
                             ELSE IF dagFail THEN {dag, Overwrite(dag, pass)}
                             ELSE {pass}
    BY <1>4
  <2> DEFINE written == IF ~cacheKernelOk \/ cacheFail THEN Junk
                        ELSE DatasetOf(GpuSeed(gEpoch), gDagLog)
             pass == DagPass(dag, written, gDagLog)
  <2>2. written \in Contents
    BY <1>1, <1>2
  <2>3. pass \in Contents
    BY <1>2, <2>2 DEF DagPass
  <2>4. Overwrite(dag, pass) \in Contents
    BY <1>2, <2>3 DEF Overwrite
  <2>5. QED
    BY <1>4, <2>1, <2>3, <2>4, <1>2
<1>5. QED
  BY <1>3, <1>4 DEF Generate

\* The state of a freshly returned (or freed) context is well typed.
LEMMA FreshType ==
    ASSUME NEW e \in Epochs, NEW ck \in BOOLEAN, NEW dk \in BOOLEAN,
           Fresh(e, ck, dk), alive' \in BOOLEAN
    PROVE  TypeInv'
<1>1. DagLog2(e) \in 30 .. 40
  BY DagLog2Range, EpochsAssumption
<1>2. NoResult \in Results
  BY NonceAssumption, BatchAssumption DEF NoResult, Results, NonceSpace, Contents
<1>3. /\ epoch' \in Epochs /\ gEpoch' \in Epochs
      /\ dagLog' \in 30 .. 40 /\ gDagLog' \in 30 .. 40
      /\ gDagLog' = DagLog2(gEpoch')
  BY <1>1 DEF Fresh
<1>4. /\ dag' \in Contents
      /\ currentNonce' \in 0 .. MaxNonce /\ totalHashes' \in 0 .. MaxNonce
      /\ pending' \in Results
      /\ probes' \in [NonceSpace -> Nat]
  BY <1>2, NonceAssumption DEF Fresh, Contents
<1>5. QED
  BY <1>3, <1>4 DEF Fresh, TypeInv, TypeOK, GpuSizeAgrees, HashesAgree

LEMMA TypeInit == Init => TypeInv
<1> SUFFICES ASSUME Init PROVE TypeInv
  OBVIOUS
<1>1. DagLog2(DeadEpoch) \in 30 .. 40
  BY DagLog2Range, DeadEpochIn, EpochsAssumption
<1>2. NoResult \in Results
  BY NonceAssumption, BatchAssumption DEF NoResult, Results, NonceSpace, Contents
<1>3. /\ epoch \in Epochs /\ gEpoch \in Epochs
      /\ dagLog \in 30 .. 40 /\ gDagLog \in 30 .. 40
      /\ gDagLog = DagLog2(gEpoch)
  BY <1>1, DeadEpochIn DEF Init
<1>4. /\ dag \in Contents
      /\ currentNonce \in 0 .. MaxNonce /\ totalHashes \in 0 .. MaxNonce
      /\ pending \in Results
      /\ probes \in [NonceSpace -> Nat]
  BY <1>2, NonceAssumption DEF Init, Contents
<1>5. QED
  BY <1>3, <1>4 DEF Init, TypeInv, TypeOK, GpuSizeAgrees, HashesAgree

LEMMA TypeStep == TypeInv /\ [Next]_vars => TypeInv'
<1> SUFFICES ASSUME TypeInv, [Next]_vars PROVE TypeInv'
  OBVIOUS
<1>1. ASSUME NEW e \in Epochs, MinerInit(e) PROVE TypeInv'
  BY <1>1, FreshType DEF MinerInit, KernelMade
<1>2. CASE GenerateDag
  BY <1>2, GenerateContents DEF GenerateDag, TypeInv, TypeOK, GpuSizeAgrees, HashesAgree
<1>3. ASSUME NEW j \in Jobs, SubmitJob(j) PROVE TypeInv'
  <2> USE DEF TypeInv, TypeOK, HashesAgree
  <2>1. PICK launchFail \in MayFail("Launch") :
          /\ probes' = [n \in NonceSpace |->
                            IF n \in Probed(launchFail) THEN probes[n] + 1
                                                        ELSE probes[n]]
          /\ totalHashes' = totalHashes + BatchSize
          /\ currentNonce' = currentNonce + BatchSize
          /\ StoreResult(j, Hits(j, Probed(launchFail)))
    BY <1>3 DEF SubmitJob
  <2>2. Hits(j, Probed(launchFail)) \subseteq NonceSpace
    BY <1>3, BatchInNonceSpace DEF SubmitJob, Hits, Probed
  <2>3. probes' \in [NonceSpace -> Nat]
    BY <2>1
  <2>4. currentNonce' \in 0 .. MaxNonce /\ totalHashes' \in 0 .. MaxNonce
    BY <1>3, <2>1, BatchAssumption, NonceAssumption DEF SubmitJob
  <2>5. ASSUME UNCHANGED <<hasResult, pending, found>>
        PROVE  hasResult' \in BOOLEAN /\ pending' \in Results
               /\ found' \subseteq Results
    BY <2>5
  <2>6. ASSUME NEW n \in Hits(j, Probed(launchFail)),
               hasResult' = TRUE,
               pending' = [job |-> j, nonce |-> n, ds |-> dag],
               found' = found \cup {pending'}
        PROVE  pending' \in Results /\ found' \subseteq Results
    BY <2>2, <2>6 DEF Results
  <2>7. hasResult' \in BOOLEAN /\ pending' \in Results /\ found' \subseteq Results
    BY <2>1, <2>5, <2>6 DEF StoreResult
  <2>8. QED
    BY <1>3, <2>3, <2>4, <2>7 DEF SubmitJob, GpuSizeAgrees, HashesAgree
<1>4. CASE GetResult
  BY <1>4 DEF GetResult, TypeInv, TypeOK, GpuSizeAgrees, HashesAgree
<1>5. ASSUME NEW e \in Epochs, UpdateEpoch(e) PROVE TypeInv'
  <2>1. DagLog2(e) \in 30 .. 40
    BY DagLog2Range, EpochsAssumption
  <2>2. QED
    BY <1>5, <2>1, GenerateContents DEF UpdateEpoch, TypeInv, TypeOK, GpuSizeAgrees, HashesAgree
<1>6. CASE Shutdown
  BY <1>6, FreshType, DeadEpochIn DEF Shutdown
<1>7. CASE UNCHANGED vars
  BY <1>7 DEF vars, TypeInv, TypeOK, GpuSizeAgrees, HashesAgree
<1>8. QED
  BY <1>1, <1>2, <1>3, <1>4, <1>5, <1>6, <1>7 DEF Next

(***************************************************************************)
(* Every state the host control path reaches is well typed.               *)
(***************************************************************************)
THEOREM TypeCorrect == Spec => []TypeOK
<1>1. Spec => []TypeInv
  BY TypeInit, TypeStep, PTL DEF Spec
<1>2. QED
  BY <1>1, PTL DEF TypeInv

-----------------------------------------------------------------------------
(***************************************************************************)
(* A search runs on a finished DAG, provided the failures the backend      *)
(* ignores do not happen: clCreateKernel of the cache and DAG kernels and  *)
(* clEnqueueNDRangeKernel succeed (run miner_kernel_create shows what      *)
(* happens when they do not), and provided the DAG is small enough for    *)
(* generate_dag to write it: below 2^28 items, epochs below 20 (DagPass).  *)
(* The invariant needs to know that a live context has both kernels.      *)
(***************************************************************************)
NoIgnoredFaults == "KernelCreate" \notin Faults /\ "Launch" \notin Faults
EpochsFit == \A e \in Epochs : DagLog2(e) <= 34
KernelsMade == alive => cacheKernelOk /\ dagKernelOk
ReadyInv == TypeInv /\ KernelsMade /\ ReadyImpliesGenerated

LEMMA GenerateFinished ==
    ASSUME NoIgnoredFaults, EpochsFit, TypeInv, KernelsMade, alive, Generate
    PROVE  dagReady' => gDagReady' /\ dag' \in Datasets
<1>1. MayFail("Launch") = {FALSE}
  BY DEF NoIgnoredFaults, MayFail
<1>2. DatasetOf(GpuSeed(gEpoch), gDagLog) \in Datasets
  BY DEF TypeInv, TypeOK, GpuSizeAgrees, Datasets
<1>3. cacheKernelOk /\ dagKernelOk
  BY DEF KernelsMade
<1>4. ASSUME NEW old, NEW written
      PROVE  DagPass(old, written, gDagLog) = written
  <2>1. gDagLog <= 34 /\ gDagLog \in Nat
    BY DEF EpochsFit, TypeInv, TypeOK, GpuSizeAgrees
  <2>2. QED
    BY <2>1 DEF DagPass, DagItemsTruncated, DagIndexWraps
<1>5. QED
  BY <1>1, <1>2, <1>3, <1>4 DEF Generate

LEMMA ReadyStep ==
    ASSUME NoIgnoredFaults, EpochsFit
    PROVE  ReadyInv /\ [Next]_vars => ReadyInv'
<1> SUFFICES ASSUME ReadyInv, [Next]_vars PROVE ReadyInv'
  OBVIOUS
<1>1. TypeInv'
  BY TypeStep DEF ReadyInv
<1>2. KernelsMade'
  <2>1. KernelMade = {TRUE}
    BY DEF NoIgnoredFaults, KernelMade
  <2>2. ASSUME NEW e \in Epochs, MinerInit(e) PROVE KernelsMade'
    BY <2>1, <2>2 DEF MinerInit, Fresh, KernelsMade
  <2>3. CASE Shutdown
    BY <2>3 DEF Shutdown, KernelsMade
  <2>4. CASE ~(\E e \in Epochs : MinerInit(e)) /\ ~Shutdown
    <3>1. UNCHANGED <<alive, cacheKernelOk, dagKernelOk>>
      <4>1. CASE UNCHANGED vars
        BY <4>1 DEF vars
      <4>2. CASE GenerateDag \/ GetResult
        BY <4>2 DEF GenerateDag, GetResult
      <4>3. CASE \E j \in Jobs : SubmitJob(j)
        BY <4>3 DEF SubmitJob
      <4>4. CASE \E e \in Epochs : UpdateEpoch(e)
        BY <4>4 DEF UpdateEpoch
      <4>5. QED
        BY <2>4, <4>1, <4>2, <4>3, <4>4 DEF Next
    <3>2. QED
      BY <3>1 DEF ReadyInv, KernelsMade
  <2>5. QED
    BY <2>2, <2>3, <2>4
<1>3. ReadyImpliesGenerated'
  <2> USE DEF ReadyInv
  <2>1. ASSUME NEW e \in Epochs, MinerInit(e) PROVE ReadyImpliesGenerated'
    BY <2>1 DEF MinerInit, Fresh, ReadyImpliesGenerated
  <2>2. CASE GenerateDag
    BY <2>2, GenerateFinished DEF GenerateDag, ReadyImpliesGenerated
  <2>3. ASSUME NEW j \in Jobs, SubmitJob(j) PROVE ReadyImpliesGenerated'
    BY <2>3 DEF SubmitJob, ReadyImpliesGenerated
  <2>4. CASE GetResult
    BY <2>4 DEF GetResult, ReadyImpliesGenerated
  <2>5. ASSUME NEW e \in Epochs, UpdateEpoch(e) PROVE ReadyImpliesGenerated'
    BY <2>5, GenerateFinished DEF UpdateEpoch, ReadyImpliesGenerated
  <2>6. CASE Shutdown
    BY <2>6 DEF Shutdown, Fresh, ReadyImpliesGenerated
  <2>7. CASE UNCHANGED vars
    BY <2>7 DEF vars, ReadyImpliesGenerated
  <2>8. QED
    BY <2>1, <2>2, <2>3, <2>4, <2>5, <2>6, <2>7 DEF Next
<1>4. QED
  BY <1>1, <1>2, <1>3 DEF ReadyInv

(***************************************************************************)
(* When kernel creation and launches succeed and every epoch's DAG has   *)
(* fewer than 2^28 items, miner_submit_job only ever searches a DAG that  *)
(* a complete generation pass wrote: the ready flag of the MinerContext   *)
(* is set only by a pass that ran both kernels over the whole DAG, and is *)
(* cleared by miner_update_epoch before the next pass.                     *)
(***************************************************************************)
THEOREM SearchOnGeneratedDag ==
    ASSUME NoIgnoredFaults, EpochsFit
    PROVE  Spec => []ReadyImpliesGenerated
<1>1. Init => ReadyInv
  BY TypeInit DEF Init, ReadyInv, KernelsMade, ReadyImpliesGenerated
<1>2. Spec => []ReadyInv
  BY <1>1, ReadyStep, PTL DEF Spec
<1>3. QED
  BY <1>2, PTL DEF ReadyInv

-----------------------------------------------------------------------------
(***************************************************************************)
(* The nonce cursor.  With launches succeeding, every nonce below          *)
(* totalHashes was hashed once and none above; the inductive invariant is  *)
(* the type invariant, which carries totalHashes = currentNonce.           *)
(***************************************************************************)
NonceInv == TypeInv /\ ProbedExactlyOnce

LEMMA NonceStep ==
    ASSUME "Launch" \notin Faults
    PROVE  NonceInv /\ [Next]_vars => NonceInv'
<1> SUFFICES ASSUME NonceInv, [Next]_vars PROVE NonceInv'
  OBVIOUS
<1>1. TypeInv'
  BY TypeStep DEF NonceInv
<1>2. ProbedExactlyOnce'
  <2> USE DEF NonceInv, TypeInv, TypeOK, HashesAgree
  <2>1. ASSUME NEW e \in Epochs, MinerInit(e) PROVE ProbedExactlyOnce'
    BY <2>1 DEF MinerInit, Fresh, ProbedExactlyOnce, NonceSpace
  <2>2. CASE GenerateDag
    BY <2>2 DEF GenerateDag, ProbedExactlyOnce
  <2>3. ASSUME NEW j \in Jobs, SubmitJob(j) PROVE ProbedExactlyOnce'
    <3>1. MayFail("Launch") = {FALSE}
      BY DEF MayFail
    <3>2. probes' = [n \in NonceSpace |->
                       IF n \in Batch(currentNonce) THEN probes[n] + 1
                                                    ELSE probes[n]]
      BY <2>3, <3>1 DEF SubmitJob, Probed
    <3>3. totalHashes' = totalHashes + BatchSize
      BY <2>3 DEF SubmitJob
    <3>4. QED
      BY <3>2, <3>3, BatchAssumption DEF ProbedExactlyOnce, Batch, NonceSpace
  <2>4. CASE GetResult
    BY <2>4 DEF GetResult, ProbedExactlyOnce
  <2>5. ASSUME NEW e \in Epochs, UpdateEpoch(e) PROVE ProbedExactlyOnce'
    BY <2>5 DEF UpdateEpoch, ProbedExactlyOnce
  <2>6. CASE Shutdown
    BY <2>6 DEF Shutdown, Fresh, ProbedExactlyOnce, NonceSpace
  <2>7. CASE UNCHANGED vars
    BY <2>7 DEF vars, ProbedExactlyOnce
  <2>8. QED
    BY <2>1, <2>2, <2>3, <2>4, <2>5, <2>6, <2>7 DEF Next
<1>3. QED
  BY <1>1, <1>2 DEF NonceInv

(***************************************************************************)
(* Spec section 5 for miner_submit_job: when kernel launches succeed, the  *)
(* nonces [0, totalHashes) of a context were each hashed exactly once and  *)
(* no other nonce was hashed.                                              *)
(***************************************************************************)
THEOREM NonceCoverage ==
    ASSUME "Launch" \notin Faults
    PROVE  Spec => []ProbedExactlyOnce
<1>1. Init => NonceInv
  BY TypeInit DEF Init, NonceInv, ProbedExactlyOnce, NonceSpace
<1>2. Spec => []NonceInv
  BY <1>1, NonceStep, PTL DEF Spec
<1>3. QED
  BY <1>2, PTL DEF NonceInv

-----------------------------------------------------------------------------
(***************************************************************************)
(* A pending result needs no assumption on the faults: a failed launch     *)
(* probes no nonce and so finds none.  Its invariant adds the type        *)
(* invariant, which says that pending.nonce is a nonce of NonceSpace and   *)
(* that probes only ever grow there.                                       *)
(***************************************************************************)
PendingInv == TypeInv /\ PendingResultValid

LEMMA PendingStep == PendingInv /\ [Next]_vars => PendingInv'
<1> SUFFICES ASSUME PendingInv, [Next]_vars PROVE PendingInv'
  OBVIOUS
<1>1. TypeInv'
  BY TypeStep DEF PendingInv
<1>2. PendingResultValid'
  <2> USE DEF PendingInv, TypeInv, TypeOK
  <2>1. ASSUME NEW e \in Epochs, MinerInit(e) PROVE PendingResultValid'
    BY <2>1 DEF MinerInit, Fresh, PendingResultValid
  <2>2. CASE GenerateDag
    BY <2>2 DEF GenerateDag, PendingResultValid
  <2>3. ASSUME NEW j \in Jobs, SubmitJob(j) PROVE PendingResultValid'
    <3>1. PICK launchFail \in MayFail("Launch") :
            /\ probes' = [n \in NonceSpace |->
                              IF n \in Probed(launchFail) THEN probes[n] + 1
                                                          ELSE probes[n]]
            /\ currentNonce' = currentNonce + BatchSize
            /\ StoreResult(j, Hits(j, Probed(launchFail)))
      BY <2>3 DEF SubmitJob
    <3>2. Probed(launchFail) \subseteq NonceSpace
      BY <2>3, BatchInNonceSpace DEF SubmitJob, Probed
    <3>3. \A n \in NonceSpace : probes'[n] \in Nat /\ probes'[n] >= probes[n]
      BY <3>1
    <3>4. ASSUME UNCHANGED <<hasResult, pending, found>>
          PROVE  PendingResultValid'
      <4>1. hasResult => pending.nonce \in NonceSpace
        BY DEF Results
      <4>8. hasResult' = hasResult /\ pending' = pending
        BY <3>4
      <4>0. currentNonce \in Nat /\ currentNonce' \in Nat
            /\ currentNonce' >= currentNonce
        BY <3>1, BatchAssumption
      <4>2. hasResult' => pending'.nonce < currentNonce'
        <5>1. hasResult => pending.nonce < currentNonce
          BY DEF PendingResultValid
        <5>2. ASSUME hasResult' PROVE pending'.nonce < currentNonce'
          <6>1. hasResult /\ pending'.nonce = pending.nonce
            BY <4>8, <5>2, Zenon
          <6>2. QED
            BY <6>1, <4>0, <4>1, <5>1 DEF NonceSpace
        <5>3. QED
          BY <5>2
      <4>3. hasResult' => probes'[pending'.nonce] > 0
        <5>1. hasResult => probes[pending.nonce] > 0
          BY DEF PendingResultValid
        <5>2. ASSUME hasResult' PROVE probes'[pending'.nonce] > 0
          <6>1. hasResult /\ pending'.nonce = pending.nonce
            BY <4>8, <5>2, Zenon
          <6>2. QED
            BY <6>1, <3>3, <4>1, <5>1
        <5>3. QED
          BY <5>2
      <4>4. hasResult' => Wins(pending'.job, pending'.ds, pending'.nonce)
        BY <4>8 DEF PendingResultValid
      <4>5. QED
        BY <4>2, <4>3, <4>4 DEF PendingResultValid
    <3>5. ASSUME NEW n \in Hits(j, Probed(launchFail)),
                 hasResult' = TRUE,
                 pending' = [job |-> j, nonce |-> n, ds |-> dag]
          PROVE  PendingResultValid'
      <4>1. n \in Probed(launchFail) /\ Wins(j, dag, n)
        BY <3>5 DEF Hits
      <4>2. n \in Batch(currentNonce) /\ n \in NonceSpace
        BY <3>2, <4>1 DEF Probed
      <4>3. n < currentNonce'
        BY <3>1, <4>2, BatchAssumption DEF Batch
      <4>6. probes'[n] = probes[n] + 1
        BY <3>1, <4>1, <4>2
      <4>7. probes'[n] > 0
        BY <4>2, <4>6
      <4>4. QED
        BY <3>5, <4>1, <4>3, <4>7 DEF PendingResultValid
    <3>6. QED
      BY <3>1, <3>4, <3>5 DEF StoreResult
  <2>4. CASE GetResult
    BY <2>4 DEF GetResult, PendingResultValid
  <2>5. ASSUME NEW e \in Epochs, UpdateEpoch(e) PROVE PendingResultValid'
    BY <2>5 DEF UpdateEpoch, PendingResultValid
  <2>6. CASE Shutdown
    BY <2>6 DEF Shutdown, Fresh, PendingResultValid
  <2>7. CASE UNCHANGED vars
    BY <2>7 DEF vars, PendingResultValid
  <2>8. QED
    BY <2>1, <2>2, <2>3, <2>4, <2>5, <2>6, <2>7 DEF Next
<1>3. QED
  BY <1>1, <1>2 DEF PendingInv

(***************************************************************************)
(* miner_get_result only ever hands out a nonce that meets its job's       *)
(* target on the DAG it was searched on and that a work-item of this       *)
(* context hashed, below the nonce cursor, whatever OpenCL calls fail.     *)
(***************************************************************************)
THEOREM PendingResultSound == Spec => []PendingResultValid
<1>1. Init => PendingInv
  BY TypeInit DEF Init, PendingInv, PendingResultValid
<1>2. Spec => []PendingInv
  BY <1>1, PendingStep, PTL DEF Spec
<1>3. QED
  BY <1>2, PTL DEF PendingInv

-----------------------------------------------------------------------------
(***************************************************************************)
(* NoShareReissued is not inductive: that the next find differs from the  *)
(* results handed out rests on the cursor.  Every handed-out nonce lies   *)
(* below currentNonce, and a pending find above all of them, because a    *)
(* find comes from the batch at currentNonce, which the same              *)
(* miner_submit_job then moves past.                                       *)
(***************************************************************************)
ReportedBelow == \A r \in reported : r.nonce < currentNonce
PendingAbove == hasResult => \A r \in reported : r.nonce < pending.nonce
ShareInv == PendingInv /\ ReportedBelow /\ PendingAbove

LEMMA ShareStep == ShareInv /\ [Next]_vars => ShareInv'
<1> SUFFICES ASSUME ShareInv, [Next]_vars PROVE ShareInv'
  OBVIOUS
<1>1. PendingInv'
  BY PendingStep DEF ShareInv
<1>2. ReportedBelow' /\ PendingAbove'
  <2> USE DEF ShareInv, PendingInv, TypeInv, TypeOK
  <2>1. ASSUME NEW e \in Epochs, MinerInit(e) PROVE ReportedBelow' /\ PendingAbove'
    BY <2>1 DEF MinerInit, Fresh, ReportedBelow, PendingAbove
  <2>2. CASE GenerateDag
    BY <2>2 DEF GenerateDag, ReportedBelow, PendingAbove
  <2>3. ASSUME NEW j \in Jobs, SubmitJob(j) PROVE ReportedBelow' /\ PendingAbove'
    <3>1. PICK launchFail \in MayFail("Launch") :
            /\ currentNonce' = currentNonce + BatchSize
            /\ StoreResult(j, Hits(j, Probed(launchFail)))
      BY <2>3 DEF SubmitJob
    <3>2. reported' = reported
      BY <2>3 DEF SubmitJob
    <3>3. \A r \in reported : r.nonce \in Nat /\ r.nonce < currentNonce
      BY DEF Results, NonceSpace, ReportedBelow
    <3>4. currentNonce \in Nat /\ currentNonce' \in Nat
          /\ currentNonce' >= currentNonce
      BY <3>1, BatchAssumption
    <3>5. ReportedBelow'
      <4> SUFFICES ASSUME NEW r \in reported' PROVE r.nonce < currentNonce'
        BY DEF ReportedBelow
      <4>1. r \in reported
        BY <3>2
      <4>2. r.nonce \in Nat /\ r.nonce < currentNonce
        BY <4>1, <3>3, Zenon
      <4>3. QED
        BY <4>2, <3>4
    <3>6. ASSUME UNCHANGED <<hasResult, pending, found>> PROVE PendingAbove'
      BY <3>2, <3>6 DEF PendingAbove
    <3>7. ASSUME NEW n \in Hits(j, Probed(launchFail)),
                 pending' = [job |-> j, nonce |-> n, ds |-> dag]
          PROVE  PendingAbove'
      <4>1. n \in Batch(currentNonce)
        BY <3>7 DEF Hits, Probed
      <4>2. n \in Nat /\ currentNonce <= n
        BY <4>1, <3>4, BatchAssumption DEF Batch
      <4> SUFFICES ASSUME NEW r \in reported' PROVE r.nonce < pending'.nonce
        BY DEF PendingAbove
      <4>3. r \in reported /\ pending'.nonce = n
        BY <3>2, <3>7
      <4>4. r.nonce \in Nat /\ r.nonce < currentNonce
        BY <4>3, <3>3, Zenon
      <4>5. QED
        BY <4>2, <4>3, <4>4
    <3>8. QED
      BY <3>1, <3>5, <3>6, <3>7 DEF StoreResult
  <2>4. CASE GetResult
    <3>1. /\ hasResult /\ hasResult' = FALSE
          /\ reported' = reported \cup {pending}
          /\ currentNonce' = currentNonce
      BY <2>4 DEF GetResult
    <3>2. pending.nonce < currentNonce
      BY <3>1 DEF PendingResultValid
    <3>3. QED
      BY <3>1, <3>2 DEF ReportedBelow, PendingAbove
  <2>5. ASSUME NEW e \in Epochs, UpdateEpoch(e) PROVE ReportedBelow' /\ PendingAbove'
    BY <2>5 DEF UpdateEpoch, ReportedBelow, PendingAbove
  <2>6. CASE Shutdown
    BY <2>6 DEF Shutdown, Fresh, ReportedBelow, PendingAbove
  <2>7. CASE UNCHANGED vars
    BY <2>7 DEF vars, ReportedBelow, PendingAbove
  <2>8. QED
    BY <2>1, <2>2, <2>3, <2>4, <2>5, <2>6, <2>7 DEF Next
<1>3. QED
  BY <1>1, <1>2 DEF ShareInv

(***************************************************************************)
(* The result waiting for miner_get_result never carries a nonce that it  *)
(* handed out before in the same context, whatever OpenCL calls fail and  *)
(* across jobs and epoch changes: miner_get_result clears hasResult and   *)
(* miner_submit_job moves the cursor past every batch it searched.        *)
(***************************************************************************)
THEOREM NoShareReissuedHolds == Spec => []NoShareReissued
<1>1. Init => ShareInv
  BY TypeInit DEF Init, ShareInv, PendingInv, PendingResultValid,
                  ReportedBelow, PendingAbove
<1>2. Spec => []ShareInv
  BY <1>1, ShareStep, PTL DEF Spec
<1>3. ShareInv => NoShareReissued
  <2> SUFFICES ASSUME ShareInv, hasResult, NEW r \in reported
               PROVE  r.nonce # pending.nonce
    BY DEF NoShareReissued
  <2>1. r.nonce \in Nat /\ r.nonce < pending.nonce
    BY DEF ShareInv, PendingAbove, PendingInv, TypeInv, TypeOK, Results, NonceSpace
  <2>2. QED
    BY <2>1
<1>4. QED
  BY <1>2, <1>3, PTL
=============================================================================
