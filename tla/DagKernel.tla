----------------------------- MODULE DagKernel -----------------------------
(***************************************************************************)
(* The DAG pass of adaptivepow_opencl_generate_dag (lines 257-282) and the *)
(* generate_dag kernel it launches.  The host enqueues one NDRange per     *)
(* chunk of ChunkSize items, each rounded up to a multiple of LocalSize and *)
(* started at globalOffset = offset, then blocks in clFinish.  The device  *)
(* runs the chunks in order; inside one chunk the work-items run in any    *)
(* order.                                                                   *)
(*                                                                         *)
(* The kernel's uint is Width bits wide (32 in the code).  dag_items is   *)
(* the 64-bit item count passed with sizeof(uint32_t) (line 262), so the   *)
(* kernel sees it modulo 2^Width; the work-item id and the word index      *)
(* idx * 16 + i (kernel line 241) are uint too.  The mix an item computes  *)
(* is a function of its idx (spec section 4.4), so the word a work-item    *)
(* writes is modelled by the idx it wrote it for.  Runs use a small Width  *)
(* and scale the item counts with it: the code's counts relate to 2^32    *)
(* as the runs' counts relate to 2^Width.                                  *)
(***************************************************************************)
EXTENDS Naturals, Sequences

CONSTANTS
    Width,          \* bits of the kernel's uint
    WordsPerItem,   \* 16 uints per 64-byte item
    LocalSize,      \* localSize = 256
    ChunkSize,      \* batchSize = 1M items per sub-dispatch
    DagSizes,       \* 64-bit item counts dagSize / HASH_BYTES of the epochs
    MaxQueue,       \* bound on the commands in flight, to keep runs finite
    Garbage,        \* a word of the freshly allocated dagBuffer
    NoLoad          \* no search has loaded an item yet

ASSUME WidthAssumption == Width \in Nat \ {0}
ASSUME GeometryAssumption ==
    /\ WordsPerItem \in Nat \ {0}
    /\ LocalSize \in Nat \ {0}
    /\ ChunkSize \in Nat \ {0}
    /\ MaxQueue \in Nat \ {0}
ASSUME SizesAssumption ==
    DagSizes \subseteq Nat \ {0} /\ Garbage \notin Nat /\ NoLoad \notin Nat

\* An unsigned value of the kernel's width.
U(x) == x % (2 ^ Width)

\* Line 273: the global size rounded up to the local size.
RoundUp(n) == ((n + LocalSize - 1) \div LocalSize) * LocalSize

\* Bug variant: the word loop runs to i <= 16, one word into the next item.
LocsInclusive(idx) == {U(idx * WordsPerItem + i) : i \in 0 .. WordsPerItem}

\* The words of dagBuffer work-item idx writes (kernel lines 240-242).
Locs(idx) == {U(idx * WordsPerItem + i) : i \in 0 .. (WordsPerItem - 1)}

VARIABLES
    dagItems,   \* uint64_t dagItems of the host
    offset,     \* the loop variable of lines 266-280
    hpc,        \* host: "Loop" (enqueueing, then clFinish) or "Done"
    queue,      \* enqueued chunks [off, size] not yet completed
    pending,    \* global ids of the head chunk that have not returned
    running,    \* the head chunk has been started
    dag,        \* contents of dagBuffer, one entry per uint
    loaded      \* the last item a search work-item loaded, or NoLoad

vars == <<dagItems, offset, hpc, queue, pending, running, dag, loaded>>

\* The kernel argument dag_items: the low Width bits of dagItems.
KernelItems == U(dagItems)

Init ==
    /\ dagItems \in DagSizes
    /\ offset = 0
    /\ hpc = "Loop"
    /\ queue = <<>>
    /\ pending = {}
    /\ running = FALSE
    /\ dag = [w \in 0 .. (dagItems * WordsPerItem - 1) |-> Garbage]
    /\ loaded = NoLoad

-----------------------------------------------------------------------------
(***************************************************************************)
(* One iteration of the loop of lines 266-280: the chunk [offset, offset +  *)
(* thisSize) is enqueued with its global size rounded up, and offset moves *)
(* on by batchSize.  The enqueue is non-blocking; its error is ignored.    *)
(***************************************************************************)
Enqueue ==
    LET thisSize == IF dagItems - offset < ChunkSize
                    THEN dagItems - offset ELSE ChunkSize
    IN  /\ hpc = "Loop"
        /\ offset < dagItems
        /\ Len(queue) < MaxQueue
        /\ queue' = Append(queue, [off |-> offset, size |-> RoundUp(thisSize)])
        /\ offset' = offset + ChunkSize
        /\ UNCHANGED <<dagItems, hpc, pending, running, dag, loaded>>

\* Bug variant: the loop exits without clFinish, with chunks still queued.
FinishWithoutWait ==
    /\ hpc = "Loop"
    /\ offset >= dagItems
    /\ hpc' = "Done"
    /\ UNCHANGED <<dagItems, offset, queue, pending, running, dag, loaded>>

\* Loop exit and clFinish (line 281): returns once every chunk has run.
Finish ==
    /\ hpc = "Loop"
    /\ offset >= dagItems
    /\ queue = <<>>
    /\ hpc' = "Done"
    /\ UNCHANGED <<dagItems, offset, queue, pending, running, dag, loaded>>

\* Device: the chunk at the head of the queue starts all its work-items.
Launch ==
    /\ queue # <<>>
    /\ ~running
    /\ running' = TRUE
    /\ pending' = Head(queue).off .. (Head(queue).off + Head(queue).size - 1)
    /\ UNCHANGED <<dagItems, offset, hpc, queue, dag, loaded>>

(***************************************************************************)
(* Kernel lines 219-242 for the work-item with global id g: idx is the id  *)
(* as a uint; past dag_items it returns, else it writes its 16 words.  No *)
(* other work-item of the chunk writes those words, so the loop of lines   *)
(* 240-242 is one step.                                                    *)
(***************************************************************************)
Run(g) ==
    /\ g \in pending
    /\ pending' = pending \ {g}
    /\ LET idx == U(g)
       IN  dag' = IF idx >= KernelItems THEN dag
                  ELSE [w \in DOMAIN dag |-> IF w \in Locs(idx) THEN idx
                                                                ELSE dag[w]]
    /\ UNCHANGED <<dagItems, offset, hpc, queue, running, loaded>>

\* Device: the chunk completes when all its work-items have returned.
Complete ==
    /\ running
    /\ pending = {}
    /\ running' = FALSE
    /\ queue' = Tail(queue)
    /\ UNCHANGED <<dagItems, offset, hpc, pending, dag, loaded>>

(***************************************************************************)
(* The DAG loads of adaptivepow_search once the DAG is generated (kernel  *)
(* lines 162-170), with dag_size the uint32_t dagItems of host line 309:  *)
(* for an fnv1a value h the work-item takes dag_idx = h % dag_size and     *)
(* reads the words dag_idx * 16 + i as uint.  With dag_size = 0 the        *)
(* remainder is undefined and may be any uint.  want is the item spec      *)
(* section 4.5 names, h mod n_dag.                                         *)
(***************************************************************************)
\* Bug variant: the load loop reads one word past the item.
LoadFromShifted(h, di) ==
    loaded' = [want |-> h % dagItems,
               words |-> [i \in 0 .. (WordsPerItem - 1) |->
                            LET w == U(di * WordsPerItem + i + 1)
                            IN  IF w \in DOMAIN dag THEN dag[w] ELSE Garbage]]

LoadFrom(h, di) ==
    loaded' = [want |-> h % dagItems,
               words |-> [i \in 0 .. (WordsPerItem - 1) |->
                            LET w == U(di * WordsPerItem + i)
                            IN  IF w \in DOMAIN dag THEN dag[w] ELSE Garbage]]

Load(h) ==
    /\ hpc = "Done"
    /\ IF KernelItems = 0
       THEN \E di \in 0 .. (2 ^ Width - 1) : LoadFrom(h, di)
       ELSE LoadFrom(h, h % KernelItems)
    /\ UNCHANGED <<dagItems, offset, hpc, queue, pending, running, dag>>

Next ==
    \/ Enqueue \/ Finish \/ Launch \/ Complete
    \/ \E g \in pending : Run(g)
    \/ \E h \in 0 .. (2 ^ Width - 1) : Load(h)

Spec == Init /\ [][Next]_vars

-----------------------------------------------------------------------------
(***************************************************************************)
(* Spec section 4.4: for every DAG index i < n_dag, dag[i] is the mix of   *)
(* item i.  When generate_dag returns, each item's 16 words hold what the  *)
(* work-item of that item wrote.  About the chunk loop and its rounding    *)
(* (lines 266-275), the clFinish that waits for the non-blocking chunk    *)
(* launches (line 281), the dag_items argument (line 262), the early      *)
(* return (kernel line 220) and the index arithmetic of kernel line 241.  *)
(***************************************************************************)
DagComplete ==
    hpc = "Done" =>
        \A x \in 0 .. (dagItems - 1), i \in 0 .. (WordsPerItem - 1) :
            dag[x * WordsPerItem + i] = x

(***************************************************************************)
(* A word that holds its item's mix keeps it: no work-item of any chunk,  *)
(* in whatever order the device runs them, writes into another item's     *)
(* words.  About the uint word index idx * 16 + i of kernel line 241 and  *)
(* the guard idx >= dag_items of line 220, with dag_items passed as a     *)
(* uint (host line 262).                                                   *)
(***************************************************************************)
MixesStay ==
    [][\A x \in 0 .. (dagItems - 1), i \in 0 .. (WordsPerItem - 1) :
          dag[x * WordsPerItem + i] = x => dag'[x * WordsPerItem + i] = x]_vars

(***************************************************************************)
(* Spec sections 4.4, 4.5 and 9: the 16 words a search loads for an fnv1a  *)
(* value h are item h mod n_dag of the dataset, the item a CPU verifier    *)
(* reads.  Relates generation to search: the chunked generate_dag pass,   *)
(* the uint32_t dagItems of host line 309, the remainder of kernel line    *)
(* 164 and the load index of kernel line 169.                              *)
(***************************************************************************)
SearchLoadsItem ==
    loaded # NoLoad => \A i \in 0 .. (WordsPerItem - 1) :
                           loaded.words[i] = loaded.want
=============================================================================
