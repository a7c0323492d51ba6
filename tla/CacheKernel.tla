---------------------------- MODULE CacheKernel ----------------------------
(***************************************************************************)
(* The generate_cache kernel as adaptivepow_opencl_generate_dag launches  *)
(* it: one NDRange of cache_items work-items, rounded up to a multiple of  *)
(* the local size, with no barrier or ordering between them.  Work-item    *)
(* idx > 0 reads the 16 words of cache[idx - 1], which work-item idx - 1   *)
(* writes, word by word, in the same launch.                               *)
(*                                                                         *)
(* Words are abstracted to terms.  <<d, k>> is word k of the block         *)
(* keccak_f800 applied d times to the seed block (d = 0: the seed block    *)
(* itself).  Keccak-f[800] is a permutation, so a block that is not one of *)
(* these chain blocks never hashes into one: its image is Junk.            *)
(***************************************************************************)
EXTENDS Naturals

CONSTANTS
    CacheItems,  \* cache_items
    LocalSize,   \* localSize of the launch (256 in the code)
    ItemWords,   \* words per cache item (16 in the code)
    Garbage,     \* a word of the freshly allocated cacheBuffer
    Junk         \* a word of a keccak image of a non-chain block

\* CacheItems, LocalSize and ItemWords are positive; Garbage # Junk.

\* globalSize = ((cache_items + 255) / 256) * 256 (lines 249-251).
GlobalSize == ((CacheItems + LocalSize - 1) \div LocalSize) * LocalSize

Threads == 0 .. (GlobalSize - 1)
Items == 0 .. (CacheItems - 1)
Words == 0 .. (ItemWords - 1)
Values == (0 .. CacheItems) \X Words \cup {Garbage, Junk}

\* The block keccak_f800 applied d times to the seed block.
Chain(d) == [k \in Words |-> <<d, k>>]
ChainBlocks == {Chain(d) : d \in 0 .. CacheItems}

(***************************************************************************)
(* Lines 269-273: the first 16 state words are the block, the rest zero,   *)
(* then keccak_f800; the first 16 words are the result.                    *)
(***************************************************************************)
Keccak(block) ==
    IF \E d \in 0 .. (CacheItems - 1) : block = Chain(d)
    THEN Chain((CHOOSE d \in 0 .. (CacheItems - 1) : block = Chain(d)) + 1)
    ELSE [k \in Words |-> Junk]

VARIABLES
    cache,   \* contents of cacheBuffer
    pc,      \* program counter of each work-item
    item,    \* the private item[16] of each work-item
    k        \* the word each work-item is copying

vars == <<cache, pc, item, k>>

Init ==
    /\ cache = [i \in Items |-> [w \in Words |-> Garbage]]
    /\ pc = [t \in Threads |-> "Start"]
    /\ item = [t \in Threads |-> [w \in Words |-> Garbage]]
    /\ k = [t \in Threads |-> 0]

(***************************************************************************)
(* Lines 251-267.  A work-item past cache_items returns.  Item 0 builds     *)
(* its block from the seed (words 0..7 the seed, 8..15 its complement:     *)
(* the seed block, chain depth 0).  Any other item goes on to read its     *)
(* predecessor.                                                            *)
(***************************************************************************)
Start(t) ==
    /\ pc[t] = "Start"
    /\ \/ /\ t >= CacheItems
          /\ pc' = [pc EXCEPT ![t] = "Done"]
          /\ UNCHANGED item
       \/ /\ t = 0
          /\ item' = [item EXCEPT ![t] = Chain(0)]
          /\ pc' = [pc EXCEPT ![t] = "Hash"]
       \/ /\ 0 < t /\ t < CacheItems
          /\ pc' = [pc EXCEPT ![t] = "Read"]
          /\ UNCHANGED item
    /\ UNCHANGED <<cache, k>>

\* Line 265: item[i] = cache[(idx - 1) * 16 + i], one word per step.
Read(t) ==
    /\ pc[t] = "Read"
    /\ item' = [item EXCEPT ![t][k[t]] = cache[t - 1][k[t]]]
    /\ IF k[t] + 1 = ItemWords
       THEN pc' = [pc EXCEPT ![t] = "Hash"] /\ k' = [k EXCEPT ![t] = 0]
       ELSE k' = [k EXCEPT ![t] = k[t] + 1] /\ UNCHANGED pc
    /\ UNCHANGED cache

\* Lines 270-273: the permutation on the private state.
Hash(t) ==
    /\ pc[t] = "Hash"
    /\ item' = [item EXCEPT ![t] = Keccak(item[t])]
    /\ pc' = [pc EXCEPT ![t] = "Write"]
    /\ UNCHANGED <<cache, k>>

\* Line 277: cache[idx * 16 + i] = state[i], one word per step.
Write(t) ==
    /\ pc[t] = "Write"
    /\ cache' = [cache EXCEPT ![t][k[t]] = item[t][k[t]]]
    /\ IF k[t] + 1 = ItemWords
       THEN pc' = [pc EXCEPT ![t] = "Done"] /\ k' = [k EXCEPT ![t] = 0]
       ELSE k' = [k EXCEPT ![t] = k[t] + 1] /\ UNCHANGED pc
    /\ UNCHANGED item

Done == \A t \in Threads : pc[t] = "Done"

\* clFinish returns when every work-item is done; nothing follows here.
Finished == Done /\ UNCHANGED vars

Next == Finished \/ \E t \in Threads : Start(t) \/ Read(t) \/ Hash(t) \/ Write(t)

Spec == Init /\ [][Next]_vars

TypeOK ==
    /\ cache \in [Items -> [Words -> Values]]
    /\ pc \in [Threads -> {"Start", "Read", "Hash", "Write", "Done"}]
    /\ item \in [Threads -> [Words -> Values]]
    /\ k \in [Threads -> Words]

(***************************************************************************)
(* Spec sections 3, 4.3 and 8: the cache is produced strictly in order,    *)
(* item i = keccak^(i+1)(seed block), so it is bitwise determined by the  *)
(* epoch.  About generate_cache reading cache[idx - 1] (line 265) that a  *)
(* concurrent work-item of the same launch writes (line 277).             *)
(***************************************************************************)
CacheIsChain ==
    Done => \A i \in Items : cache[i] = Chain(i + 1)
=============================================================================
