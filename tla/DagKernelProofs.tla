--------------------------- MODULE DagKernelProofs ---------------------------
(***************************************************************************)
(* Proofs about the DAG pass (module DagKernel) for every width, item      *)
(* size, local size and chunk size, for DAGs whose word indices fit the    *)
(* kernel's uint: when adaptivepow_opencl_generate_dag returns every item *)
(* holds its own mix, and every search load returns the item it names.    *)
(***************************************************************************)
EXTENDS DagKernel, SequenceTheorems, TLAPS

\* The DAGs of the epochs whose word indices idx * 16 + i fit a uint.
Fits == \A d \in DagSizes : d * WordsPerItem <= 2 ^ Width /\ d < 2 ^ Width

Items == 0 .. (dagItems - 1)
Words == 0 .. (WordsPerItem - 1)

\* All words of item x hold what x's work-item wrote.
Written(x) == \A i \in Words : dag[x * WordsPerItem + i] = x

InChunk(x, c) == c.off <= x /\ x < c.off + c.size

(***************************************************************************)
(* An item below offset has been written, or lies in a chunk still queued *)
(* (in the running head chunk: its work-item has not returned yet).        *)
(***************************************************************************)
Covered(x) ==
    \/ Written(x)
    \/ \E k \in 1 .. Len(queue) :
          InChunk(x, queue[k]) /\ (k = 1 /\ running => x \in pending)

\* The type of the state.
DType ==
    /\ dagItems \in DagSizes
    /\ offset \in Nat
    /\ hpc \in {"Loop", "Done"}
    /\ queue \in Seq([off : Nat, size : Nat])
    /\ pending \subseteq Nat
    /\ running \in BOOLEAN
    /\ DOMAIN dag = 0 .. (dagItems * WordsPerItem - 1)

\* A word of an item holds the fresh buffer's garbage or that item's mix.
DagWords ==
    \A x \in Items, i \in Words : dag[x * WordsPerItem + i] \in {Garbage, x}

\* Only the head of a non-empty queue runs, and only while it runs do ids
\* remain pending.
ChunkFlags == (running => queue # <<>>) /\ (~running => pending = {})

AllCovered == \A x \in Items : x < offset => Covered(x)

\* clFinish has returned only on an empty queue after the last chunk.
DoneInv == hpc = "Done" => queue = <<>> /\ offset >= dagItems

\* A load happens after generation and returns the item it names.
LoadInv ==
    loaded # NoLoad =>
        hpc = "Done" /\ \A i \in Words : loaded.words[i] = loaded.want

(***************************************************************************)
(* The inductive invariant behind DagComplete and SearchLoadsItem.  Items *)
(* below offset are covered: either written, or in a queued chunk whose   *)
(* work-item for them is still to run.  DagWords is needed because a word *)
(* once written must stay written: no work-item writes another item's     *)
(* words, which holds only while idx * 16 + i fits a uint.                *)
(***************************************************************************)
DInv == DType /\ DagWords /\ ChunkFlags /\ AllCovered /\ DoneInv /\ LoadInv

-----------------------------------------------------------------------------
\* An index below 2^Width is its own uint.
LEMMA UIdentity ==
    ASSUME NEW y \in Nat, y < 2 ^ Width
    PROVE  U(y) = y
<1>1. 2 ^ Width \in Nat \ {0}
  BY WidthAssumption
<1>2. QED
  BY <1>1 DEF U

(***************************************************************************)
(* The kernel's uint has a positive number of values.  The provers know   *)
(* nothing of 2^Width for a symbolic Width; a DAG that fits is a positive *)
(* count below it.                                                         *)
(***************************************************************************)
LEMMA PowPositive ==
    ASSUME Fits, DInv
    PROVE  2 ^ Width \in Nat \ {0}
<1>1. dagItems \in Nat \ {0} /\ dagItems < 2 ^ Width
  BY SizesAssumption DEF Fits, DInv, DType
<1>2. QED
  BY <1>1, WidthAssumption

\* Words of distinct items are distinct (idx * 16 + i, i < 16).
LEMMA WordsDisjoint ==
    ASSUME NEW x \in Nat, NEW y \in Nat, NEW i \in Words, NEW j \in Words,
           x * WordsPerItem + i = y * WordsPerItem + j
    PROVE  x = y /\ i = j
<1> DEFINE W == WordsPerItem
<1>1. W \in Nat \ {0}
  BY GeometryAssumption
<1>2. ~(x < y)
  <2> SUFFICES ASSUME x < y PROVE FALSE
    OBVIOUS
  <2>1. (x + 1) * W <= y * W
    BY <1>1
  <2>2. x * W + i < (x + 1) * W
    BY <1>1 DEF Words
  <2>3. QED
    BY <1>1, <2>1, <2>2 DEF Words
<1>3. ~(y < x)
  <2> SUFFICES ASSUME y < x PROVE FALSE
    OBVIOUS
  <2>1. (y + 1) * W <= x * W
    BY <1>1
  <2>2. y * W + j < (y + 1) * W
    BY <1>1 DEF Words
  <2>3. QED
    BY <1>1, <2>1, <2>2 DEF Words
<1>4. x = y
  BY <1>2, <1>3
<1>5. QED
  BY <1>1, <1>4 DEF Words

\* Line 273 rounds the global size up: never below the chunk's items.
LEMMA RoundUpBound ==
    ASSUME NEW n \in Nat
    PROVE  RoundUp(n) \in Nat /\ RoundUp(n) >= n
<1>1. LocalSize \in Nat \ {0}
  BY GeometryAssumption
<1> DEFINE q == (n + LocalSize - 1) \div LocalSize
           r == (n + LocalSize - 1) % LocalSize
<1>2. n + LocalSize - 1 = q * LocalSize + r /\ r \in 0 .. (LocalSize - 1)
      /\ q \in Nat
  BY <1>1
<1>3. q * LocalSize >= n
  BY <1>1, <1>2
<1>4. QED
  BY <1>1, <1>2, <1>3 DEF RoundUp

\* The facts about the item count a DAG that fits gives.
LEMMA FitItems ==
    ASSUME Fits, DInv
    PROVE  /\ dagItems \in Nat \ {0}
           /\ dagItems * WordsPerItem <= 2 ^ Width
           /\ dagItems < 2 ^ Width
           /\ KernelItems = dagItems
<1>1. dagItems \in Nat \ {0} /\ dagItems * WordsPerItem <= 2 ^ Width
      /\ dagItems < 2 ^ Width
  BY SizesAssumption DEF Fits, DInv, DType
<1>2. QED
  BY <1>1, UIdentity DEF KernelItems

\* Once generate_dag has returned, every item is written.
LEMMA AllWritten ==
    ASSUME DInv, hpc = "Done"
    PROVE  \A x \in Items : Written(x)
<1> SUFFICES ASSUME NEW x \in Items PROVE Written(x)
  OBVIOUS
<1>1. queue = <<>> /\ x < offset
  BY SizesAssumption DEF DInv, DType, DoneInv, Items
<1>2. Covered(x)
  BY <1>1 DEF DInv, AllCovered
<1>3. QED
  BY <1>1, <1>2 DEF Covered

THEOREM InitDInv == Init => DInv
<1> SUFFICES ASSUME Init PROVE DInv
  OBVIOUS
<1>1. \A x \in Items, i \in Words : x * WordsPerItem + i \in DOMAIN dag
  BY SizesAssumption, GeometryAssumption DEF Init, Items, Words
<1>2. DType
  <2>1. <<>> \in Seq([off : Nat, size : Nat])
    OBVIOUS
  <2>2. QED
    BY <2>1 DEF Init, DType
<1>3. DagWords
  BY <1>1 DEF Init, DagWords
<1>4. AllCovered
  BY SizesAssumption DEF Init, Items, AllCovered
<1>5. ChunkFlags /\ DoneInv /\ LoadInv
  BY DEF Init, ChunkFlags, DoneInv, LoadInv
<1>6. QED
  BY <1>2, <1>3, <1>4, <1>5 DEF DInv

\* One iteration of the chunk loop (lines 266-280) keeps DInv.
LEMMA EnqueueStep ==
    ASSUME DInv, Enqueue
    PROVE  DInv'
<1> DEFINE thisSize == IF dagItems - offset < ChunkSize
                       THEN dagItems - offset ELSE ChunkSize
           c == [off |-> offset, size |-> RoundUp(thisSize)]
<1>1. /\ hpc = "Loop" /\ offset < dagItems
      /\ queue' = Append(queue, c) /\ offset' = offset + ChunkSize
      /\ dagItems' = dagItems /\ hpc' = hpc /\ pending' = pending
      /\ running' = running /\ dag' = dag /\ loaded' = loaded
  BY DEF Enqueue
<1>2. dagItems \in Nat /\ offset \in Nat /\ ChunkSize \in Nat \ {0}
  BY SizesAssumption, GeometryAssumption DEF DInv, DType
<1>3. thisSize \in Nat /\ thisSize >= 1
      /\ (offset + thisSize >= dagItems \/ thisSize = ChunkSize)
  BY <1>1, <1>2
<1>4. RoundUp(thisSize) \in Nat /\ RoundUp(thisSize) >= thisSize
  BY <1>3, RoundUpBound
<1>5. c \in [off : Nat, size : Nat]
  BY <1>2, <1>4
<1>6. queue \in Seq([off : Nat, size : Nat])
  BY DEF DInv, DType
<1>7. /\ queue' \in Seq([off : Nat, size : Nat])
      /\ Len(queue') = Len(queue) + 1
      /\ queue'[Len(queue) + 1] = c
      /\ \A k \in 1 .. Len(queue) : queue'[k] = queue[k]
  BY <1>1, <1>5, <1>6
<1>8. DType'
  BY <1>1, <1>2, <1>7 DEF DInv, DType
<1>9. AllCovered'
  <2> SUFFICES ASSUME NEW x \in Items', x < offset' PROVE Covered(x)'
    BY DEF AllCovered
  <2>0. x \in Nat /\ x < dagItems
    BY <1>1, <1>2 DEF Items
  <2>1. CASE x < offset
    <3>1. Covered(x)
      BY <2>0, <2>1, <1>1 DEF DInv, AllCovered, Items
    <3>2. CASE Written(x)
      BY <3>2, <1>1 DEF Covered, Written
    <3>3. CASE \E k \in 1 .. Len(queue) :
                 InChunk(x, queue[k]) /\ (k = 1 /\ running => x \in pending)
      <4>1. PICK k \in 1 .. Len(queue) :
                 InChunk(x, queue[k]) /\ (k = 1 /\ running => x \in pending)
        BY <3>3
      <4>2. k \in 1 .. Len(queue') /\ queue'[k] = queue[k]
        BY <1>7
      <4>3. QED
        BY <4>1, <4>2, <1>1 DEF Covered
    <3>4. QED
      BY <3>1, <3>2, <3>3 DEF Covered
  <2>2. CASE ~(x < offset)
    <3> DEFINE k == Len(queue) + 1
    <3>1. InChunk(x, c)
      <4>1. x < offset + thisSize
        BY <2>0, <2>2, <1>1, <1>2, <1>3
      <4>2. QED
        BY <4>1, <2>0, <2>2, <1>2, <1>4 DEF InChunk
    <3>2. k = 1 /\ running' => x \in pending'
      <4>1. k = 1 => queue = <<>>
        BY <1>6
      <4>2. QED
        BY <4>1, <1>1 DEF DInv, ChunkFlags
    <3>3. k \in 1 .. Len(queue') /\ queue'[k] = c
      BY <1>7, <1>6
    <3>4. QED
      BY <3>1, <3>2, <3>3 DEF Covered
  <2>3. QED
    BY <2>1, <2>2
<1>10. DagWords' /\ ChunkFlags' /\ DoneInv' /\ LoadInv'
  <2>1. queue' # <<>>
    BY <1>7, <1>6
  <2>2. QED
    BY <1>1, <2>1 DEF DInv, DagWords, ChunkFlags, DoneInv, LoadInv, Items, Words
<1>11. QED
  BY <1>8, <1>9, <1>10 DEF DInv

\* The loop exit and clFinish (line 281) keep DInv.
LEMMA FinishStep ==
    ASSUME DInv, Finish
    PROVE  DInv'
<1>1. /\ offset >= dagItems /\ queue = <<>> /\ hpc' = "Done"
      /\ dagItems' = dagItems /\ offset' = offset /\ queue' = queue
      /\ pending' = pending /\ running' = running /\ dag' = dag
      /\ loaded' = loaded
  BY DEF Finish
<1>2. DType'
  BY <1>1 DEF DInv, DType
<1>3. DagWords' /\ ChunkFlags' /\ DoneInv'
  BY <1>1 DEF DInv, DagWords, ChunkFlags, DoneInv, Items, Words
<1>4. AllCovered'
  BY <1>1 DEF DInv, AllCovered, Covered, Written, InChunk, Items, Words
<1>5. LoadInv'
  BY <1>1 DEF DInv, LoadInv, Words
<1>6. QED
  BY <1>2, <1>3, <1>4, <1>5 DEF DInv

\* The device starting the head chunk keeps DInv.
LEMMA LaunchStep ==
    ASSUME DInv, Launch
    PROVE  DInv'
<1>1. /\ queue # <<>> /\ ~running /\ running' = TRUE
      /\ pending' = Head(queue).off .. (Head(queue).off + Head(queue).size - 1)
      /\ dagItems' = dagItems /\ offset' = offset /\ hpc' = hpc
      /\ queue' = queue /\ dag' = dag /\ loaded' = loaded
  BY DEF Launch
<1>2. queue \in Seq([off : Nat, size : Nat])
  BY DEF DInv, DType
<1>3. Len(queue) >= 1
  BY <1>1, <1>2, EmptySeq
<1>4. Head(queue) = queue[1] /\ queue[1] \in [off : Nat, size : Nat]
  <2>1. Head(queue) = queue[1]
    OBVIOUS
  <2>2. queue[1] \in [off : Nat, size : Nat]
    <3>1. 1 \in 1 .. Len(queue)
      BY <1>2, <1>3
    <3>2. QED
      BY <1>2, <3>1, ElementOfSeq
  <2>3. QED
    BY <2>1, <2>2
<1>5. DType'
  BY <1>1, <1>4 DEF DInv, DType
<1>6. AllCovered'
  <2> SUFFICES ASSUME NEW x \in Items', x < offset' PROVE Covered(x)'
    BY DEF AllCovered
  <2>0. x \in Nat
    BY <1>1, SizesAssumption DEF DInv, DType, Items
  <2>1. Covered(x)
    BY <1>1 DEF DInv, AllCovered, Items
  <2>2. CASE Written(x)
    BY <2>2, <1>1 DEF Covered, Written
  <2>3. CASE \E k \in 1 .. Len(queue) :
               InChunk(x, queue[k]) /\ (k = 1 /\ running => x \in pending)
    <3>1. PICK k \in 1 .. Len(queue) :
               InChunk(x, queue[k]) /\ (k = 1 /\ running => x \in pending)
      BY <2>3
    <3>2. k = 1 => x \in pending'
      BY <3>1, <2>0, <1>1, <1>4 DEF InChunk
    <3>3. QED
      BY <3>1, <3>2, <1>1 DEF Covered
  <2>4. QED
    BY <2>1, <2>2, <2>3 DEF Covered
<1>7. DagWords' /\ ChunkFlags' /\ DoneInv' /\ LoadInv'
  BY <1>1 DEF DInv, DagWords, ChunkFlags, DoneInv, LoadInv, Items, Words
<1>8. QED
  BY <1>5, <1>6, <1>7 DEF DInv

\* The head chunk completing keeps DInv.
LEMMA CompleteStep ==
    ASSUME DInv, Complete
    PROVE  DInv'
<1>1. /\ running /\ pending = {} /\ running' = FALSE /\ queue' = Tail(queue)
      /\ dagItems' = dagItems /\ offset' = offset /\ hpc' = hpc
      /\ pending' = pending /\ dag' = dag /\ loaded' = loaded
  BY DEF Complete
<1>2. queue \in Seq([off : Nat, size : Nat]) /\ queue # <<>>
  BY <1>1 DEF DInv, DType, ChunkFlags
<1>2a. Len(queue) >= 1
  BY <1>2, EmptySeq
<1>3. /\ queue' \in Seq([off : Nat, size : Nat])
      /\ Len(queue') = Len(queue) - 1
      /\ \A k \in 1 .. Len(queue') : queue'[k] = queue[k + 1]
  BY <1>1, <1>2, <1>2a
<1>4. hpc # "Done"
  BY <1>2 DEF DInv, DoneInv
<1>5. DType'
  BY <1>1, <1>3 DEF DInv, DType
<1>6. AllCovered'
  <2> SUFFICES ASSUME NEW x \in Items', x < offset' PROVE Covered(x)'
    BY DEF AllCovered
  <2>1. Covered(x)
    BY <1>1 DEF DInv, AllCovered, Items
  <2>2. CASE Written(x)
    BY <2>2, <1>1 DEF Covered, Written
  <2>3. CASE \E k \in 1 .. Len(queue) :
               InChunk(x, queue[k]) /\ (k = 1 /\ running => x \in pending)
    <3>1. PICK k \in 1 .. Len(queue) :
               InChunk(x, queue[k]) /\ (k = 1 /\ running => x \in pending)
      BY <2>3
    <3>2. k # 1
      BY <3>1, <1>1
    <3>3. k - 1 \in 1 .. Len(queue') /\ queue'[k - 1] = queue[k]
      BY <3>2, <1>2, <1>3
    <3>4. QED
      BY <3>1, <3>3, <1>1 DEF Covered
  <2>4. QED
    BY <2>1, <2>2, <2>3 DEF Covered
<1>7. DagWords' /\ ChunkFlags' /\ DoneInv' /\ LoadInv'
  BY <1>1, <1>4 DEF DInv, DagWords, ChunkFlags, DoneInv, LoadInv, Items, Words
<1>8. QED
  BY <1>5, <1>6, <1>7 DEF DInv

\* Transitivity of < and <=, for terms the provers see only as numbers.
LEMMA LessTrans ==
    ASSUME NEW a \in Nat, NEW b \in Nat, NEW c \in Nat, a < b, b <= c
    PROVE  a < c
OBVIOUS

(***************************************************************************)
(* A word of idx's range is its own uint and lies in dagBuffer when idx is *)
(* an item of a DAG that fits (kernel line 241).                           *)
(***************************************************************************)
LEMMA ItemWords ==
    ASSUME Fits, DInv, NEW x \in Items, NEW i \in Words
    PROVE  /\ x * WordsPerItem + i \in DOMAIN dag
           /\ U(x * WordsPerItem + i) = x * WordsPerItem + i
<1>1. dagItems \in Nat \ {0} /\ dagItems * WordsPerItem <= 2 ^ Width
  BY FitItems
<1>2. WordsPerItem \in Nat \ {0}
  BY GeometryAssumption
<1>3. x * WordsPerItem + i \in Nat
      /\ x * WordsPerItem + i < dagItems * WordsPerItem
  <2>1. x \in Nat /\ x <= dagItems - 1 /\ i \in Nat /\ i <= WordsPerItem - 1
    BY <1>1, <1>2 DEF Items, Words
  <2>2. x * WordsPerItem <= (dagItems - 1) * WordsPerItem
    BY <1>1, <1>2, <2>1
  <2>3. QED
    BY <1>1, <1>2, <2>1, <2>2
<1>4. x * WordsPerItem + i \in DOMAIN dag
  <2>1. DOMAIN dag = 0 .. (dagItems * WordsPerItem - 1)
    BY DEF DInv, DType
  <2>2. QED
    BY <1>1, <1>2, <1>3, <2>1
<1>5. x * WordsPerItem + i < 2 ^ Width
  <2>1. 2 ^ Width \in Nat
    BY PowPositive
  <2>2. dagItems * WordsPerItem \in Nat
    BY <1>1, <1>2
  <2>3. QED
    BY <1>1, <1>3, <2>1, <2>2, LessTrans, Zenon
<1>6. QED
  BY <1>3, <1>4, <1>5, UIdentity

(***************************************************************************)
(* One work-item of generate_dag (kernel lines 219-242) leaves every word *)
(* of every item with its old value or that item's own mix: the write of  *)
(* idx * 16 + i never lands in another item's words while they fit.        *)
(***************************************************************************)
LEMMA RunKeeps ==
    ASSUME Fits, DInv, NEW g \in pending, Run(g)
    PROVE  \A x \in Items, i \in Words :
               dag'[x * WordsPerItem + i] \in {dag[x * WordsPerItem + i], x}
<1> DEFINE idx == U(g)
<1> SUFFICES ASSUME NEW x \in Items, NEW i \in Words
             PROVE  dag'[x * WordsPerItem + i] \in {dag[x * WordsPerItem + i], x}
  OBVIOUS
<1> DEFINE w == x * WordsPerItem + i
<1>1. dag' = IF idx >= KernelItems THEN dag
             ELSE [v \in DOMAIN dag |-> IF v \in Locs(idx) THEN idx ELSE dag[v]]
  BY DEF Run
<1>2. KernelItems = dagItems
  BY FitItems
<1>3. w \in DOMAIN dag
  BY ItemWords
<1>4. CASE idx >= KernelItems
  BY <1>1, <1>4
<1>5. CASE ~(idx >= KernelItems) /\ w \notin Locs(idx)
  BY <1>1, <1>3, <1>5
<1>6. CASE ~(idx >= KernelItems) /\ w \in Locs(idx)
  <2>1. dag'[w] = idx
    BY <1>1, <1>3, <1>6
  <2>2. idx \in Items
    <3>1. g \in Nat
      BY DEF DInv, DType
    <3>2. idx \in Nat
      <4>1. 2 ^ Width \in Nat \ {0}
        BY PowPositive
      <4>2. QED
        BY <3>1, <4>1 DEF U
    <3>3. QED
      BY <1>2, <1>6, <3>2, FitItems DEF Items
  <2>3. PICK j \in Words : w = U(idx * WordsPerItem + j)
    BY <1>6 DEF Locs, Words
  <2>4. w = idx * WordsPerItem + j
    BY <2>2, <2>3, ItemWords
  <2>5. x = idx
    <3>1. x \in Nat /\ idx \in Nat
      BY <2>2, FitItems DEF Items
    <3>2. QED
      BY <2>4, <3>1, WordsDisjoint
  <2>6. QED
    BY <2>1, <2>5
<1>7. QED
  BY <1>4, <1>5, <1>6

(***************************************************************************)
(* The work-item of an item of the DAG writes all that item's words: its  *)
(* global id is its idx, below dag_items, so it passes the guard of       *)
(* kernel line 220.                                                        *)
(***************************************************************************)
LEMMA RunWrites ==
    ASSUME Fits, DInv, NEW g \in pending, Run(g), g \in Items
    PROVE  Written(g)'
<1>1. U(g) = g
  <2>1. g \in Nat /\ g < 2 ^ Width
    <3>1. dagItems \in Nat \ {0} /\ dagItems < 2 ^ Width
      BY FitItems
    <3>2. 2 ^ Width \in Nat
      BY PowPositive
    <3>3. QED
      BY <3>1, <3>2 DEF Items
  <2>2. QED
    BY <2>1, UIdentity
<1>2. ~(U(g) >= KernelItems)
  BY <1>1, FitItems DEF Items
<1>3. dag' = [v \in DOMAIN dag |-> IF v \in Locs(g) THEN g ELSE dag[v]]
  BY <1>1, <1>2 DEF Run
<1> SUFFICES ASSUME NEW i \in Words PROVE dag'[g * WordsPerItem + i] = g
  BY DEF Written
<1>4. g * WordsPerItem + i \in DOMAIN dag
      /\ g * WordsPerItem + i = U(g * WordsPerItem + i)
  BY ItemWords
<1>5. g * WordsPerItem + i \in Locs(g)
  BY <1>4 DEF Locs, Words
<1>6. QED
  BY <1>3, <1>4, <1>5

\* One work-item of generate_dag (kernel lines 219-242) keeps DInv.
LEMMA RunStep ==
    ASSUME Fits, DInv, NEW g \in pending, Run(g)
    PROVE  DInv'
<1>1. /\ pending' = pending \ {g}
      /\ dagItems' = dagItems /\ offset' = offset /\ hpc' = hpc
      /\ queue' = queue /\ running' = running /\ loaded' = loaded
  BY DEF Run
<1>2. DOMAIN dag' = DOMAIN dag
  BY DEF Run
<1>3. running
  BY DEF DInv, ChunkFlags
<1>4. DType'
  BY <1>1, <1>2 DEF DInv, DType
<1>5. DagWords'
  BY <1>1, RunKeeps DEF DInv, DagWords, Items
<1>6. \A x \in Items : Written(x) => Written(x)'
  BY <1>1, RunKeeps DEF Written, Items
<1>7. AllCovered'
  <2> SUFFICES ASSUME NEW x \in Items', x < offset' PROVE Covered(x)'
    BY DEF AllCovered
  <2>0. x \in Items
    BY <1>1 DEF Items
  <2>1. Covered(x)
    BY <1>1, <2>0 DEF DInv, AllCovered
  <2>2. CASE Written(x)
    BY <2>0, <2>2, <1>6 DEF Covered
  <2>3. CASE \E k \in 1 .. Len(queue) :
               InChunk(x, queue[k]) /\ (k = 1 /\ running => x \in pending)
    <3>1. PICK k \in 1 .. Len(queue) :
               InChunk(x, queue[k]) /\ (k = 1 /\ running => x \in pending)
      BY <2>3
    <3>2. CASE x = g /\ k = 1
      BY <3>1, <3>2, <1>3, <2>0, RunWrites DEF Covered
    <3>3. CASE ~(x = g /\ k = 1)
      BY <3>1, <3>3, <1>1 DEF Covered
    <3>4. QED
      BY <3>2, <3>3
  <2>4. QED
    BY <2>1, <2>2, <2>3 DEF Covered
<1>8. ChunkFlags' /\ DoneInv' /\ LoadInv'
  BY <1>1, <1>3 DEF DInv, ChunkFlags, DoneInv, LoadInv, Words
<1>9. QED
  BY <1>4, <1>5, <1>7, <1>8 DEF DInv

(***************************************************************************)
(* A DAG load of adaptivepow_search (kernel lines 162-170) after          *)
(* generate_dag returned keeps DInv: dag_size is dagItems, not 0, so      *)
(* dag_idx = h % dag_size names an item, and its 16 words are written.    *)
(***************************************************************************)
LEMMA LoadStep ==
    ASSUME Fits, DInv, NEW h \in 0 .. (2 ^ Width - 1), Load(h)
    PROVE  DInv'
<1> DEFINE di == h % dagItems
<1>1. /\ hpc = "Done"
      /\ dagItems' = dagItems /\ offset' = offset /\ hpc' = hpc
      /\ queue' = queue /\ pending' = pending /\ running' = running
      /\ dag' = dag
  BY DEF Load
<1>2. dagItems \in Nat \ {0} /\ KernelItems = dagItems
  BY FitItems
<1>3. LoadFrom(h, di)
  BY <1>2 DEF Load
<1>4. di \in Items
  <2>1. h \in Nat
    BY PowPositive
  <2>2. QED
    BY <1>2, <2>1 DEF Items
<1>5. \A i \in Words : loaded'.words[i] = di
  <2> SUFFICES ASSUME NEW i \in Words PROVE loaded'.words[i] = di
    OBVIOUS
  <2>1. di * WordsPerItem + i \in DOMAIN dag
        /\ U(di * WordsPerItem + i) = di * WordsPerItem + i
    BY <1>4, ItemWords
  <2>2. dag[di * WordsPerItem + i] = di
    BY <1>1, <1>4, AllWritten DEF Written
  <2>3. loaded'.words[i] = dag[di * WordsPerItem + i]
    BY <1>3, <2>1 DEF LoadFrom, Words
  <2>4. QED
    BY <2>2, <2>3
<1>6. loaded'.want = di
  BY <1>3 DEF LoadFrom
<1>7. LoadInv'
  BY <1>1, <1>5, <1>6 DEF LoadInv, Words
<1>8. DType' /\ DagWords' /\ ChunkFlags' /\ DoneInv'
  BY <1>1 DEF DInv, DType, DagWords, ChunkFlags, DoneInv, Items, Words
<1>9. AllCovered'
  BY <1>1 DEF DInv, AllCovered, Covered, Written, InChunk, Items, Words
<1>10. QED
  BY <1>7, <1>8, <1>9 DEF DInv

\* A step that changes no variable keeps DInv.
LEMMA StutterStep ==
    ASSUME DInv, UNCHANGED vars
    PROVE  DInv'
<1>1. /\ dagItems' = dagItems /\ offset' = offset /\ hpc' = hpc
      /\ queue' = queue /\ pending' = pending /\ running' = running
      /\ dag' = dag /\ loaded' = loaded
  BY DEF vars
<1>2. DType' /\ DagWords' /\ ChunkFlags' /\ DoneInv' /\ LoadInv'
  BY <1>1 DEF DInv, DType, DagWords, ChunkFlags, DoneInv, LoadInv, Items, Words
<1>3. AllCovered'
  BY <1>1 DEF DInv, AllCovered, Covered, Written, InChunk, Items, Words
<1>4. QED
  BY <1>2, <1>3 DEF DInv

\* Every step of the host loop, the device and the search keeps DInv.
LEMMA StepDInv ==
    ASSUME Fits, DInv, [Next]_vars
    PROVE  DInv'
<1>1. CASE Enqueue
  BY <1>1, EnqueueStep
<1>2. CASE Finish
  BY <1>2, FinishStep
<1>3. CASE Launch
  BY <1>3, LaunchStep
<1>4. CASE Complete
  BY <1>4, CompleteStep
<1>5. CASE \E g \in pending : Run(g)
  BY <1>5, RunStep
<1>6. CASE \E h \in 0 .. (2 ^ Width - 1) : Load(h)
  BY <1>6, LoadStep
<1>7. CASE UNCHANGED vars
  BY <1>7, StutterStep
<1>8. QED
  BY <1>1, <1>2, <1>3, <1>4, <1>5, <1>6, <1>7 DEF Next

(***************************************************************************)
(* For DAGs whose word indices idx * 16 + i fit the kernel's uint, DInv   *)
(* holds in every state of the DAG pass: the chunk loop with its rounded- *)
(* up global size (lines 266-281), the device running the chunks in order *)
(* and the work-items of generate_dag (kernel lines 219-242).              *)
(***************************************************************************)
THEOREM DagInvariant ==
    ASSUME Fits
    PROVE  Spec => []DInv
<1>1. Init => DInv
  BY InitDInv
<1>2. DInv /\ [Next]_vars => DInv'
  BY StepDInv
<1>3. QED
  BY <1>1, <1>2, PTL DEF Spec

(***************************************************************************)
(* Spec section 4.4 for every width, item size, local size and chunk      *)
(* size: when adaptivepow_opencl_generate_dag returns (line 281) every    *)
(* item of a DAG that fits holds its own mix.  The chunk loop and its    *)
(* rounding (lines 266-275), the dag_items argument (line 262), the guard *)
(* of kernel line 220 and the index of kernel line 241 together write all *)
(* of it.  Fits is needed: run dag_index_wrap shows the words wrap        *)
(* otherwise.                                                              *)
(***************************************************************************)
THEOREM DagCompleteFits ==
    ASSUME Fits
    PROVE  Spec => []DagComplete
<1>1. DInv => DagComplete
  <2> SUFFICES ASSUME DInv, hpc = "Done"
               PROVE  \A x \in Items, i \in Words : dag[x * WordsPerItem + i] = x
    BY DEF DagComplete, Items, Words
  <2>1. QED
    BY AllWritten DEF Written
<1>2. QED
  BY <1>1, DagInvariant, PTL

(***************************************************************************)
(* Spec sections 4.4, 4.5 and 9 for every such DAG: the 16 words a search *)
(* work-item loads (kernel lines 162-170, dag_size from host line 309)    *)
(* are the item h mod n_dag it names.                                      *)
(***************************************************************************)
THEOREM SearchLoadsItemFits ==
    ASSUME Fits
    PROVE  Spec => []SearchLoadsItem
<1>1. DInv => SearchLoadsItem
  BY DEF DInv, LoadInv, SearchLoadsItem, Words
<1>2. QED
  BY <1>1, DagInvariant, PTL

\* The step of MixesStay: a word holding its item's mix keeps it.
MixKept ==
    \A x \in Items, i \in Words :
        dag[x * WordsPerItem + i] = x => dag'[x * WordsPerItem + i] = x

\* Every step of the DAG pass keeps the mixes already written.
LEMMA MixStep ==
    ASSUME Fits, DInv, [Next]_vars
    PROVE  [MixKept]_vars
<1>1. CASE \E g \in pending : Run(g)
  <2>1. PICK g \in pending : Run(g)
    BY <1>1
  <2>2. QED
    BY <2>1, RunKeeps DEF MixKept
<1>2. CASE \/ Enqueue \/ Finish \/ Launch \/ Complete
           \/ \E h \in 0 .. (2 ^ Width - 1) : Load(h)
           \/ UNCHANGED vars
  <2>1. dag' = dag
    BY <1>2 DEF Enqueue, Finish, Launch, Complete, Load, vars
  <2>2. QED
    BY <2>1 DEF MixKept
<1>3. QED
  BY <1>1, <1>2 DEF Next

(***************************************************************************)
(* MixesStay for every DAG that fits: no work-item of generate_dag, in    *)
(* whatever order the chunks' work-items run, overwrites a word another   *)
(* item's work-item already wrote (kernel lines 220 and 240-242).         *)
(***************************************************************************)
THEOREM MixesStayFits ==
    ASSUME Fits
    PROVE  Spec => MixesStay
<1>1. DInv /\ [Next]_vars => [MixKept]_vars
  BY MixStep
<1>2. Spec => [][MixKept]_vars
  BY <1>1, DagInvariant, PTL DEF Spec
<1>3. QED
  BY <1>2 DEF MixesStay, MixKept, Items, Words
=============================================================================
