---------------------------- MODULE MC_DagKernel ----------------------------
(***************************************************************************)
(* DagKernel at a 6-bit word width with 4 words per item, chunks of 4      *)
(* items and work-groups of 2: 2^6 words hold 16 items, as 2^32 words hold *)
(* 2^28 items of 16 words in the code.                                     *)
(***************************************************************************)
EXTENDS DagKernel

\* Powers of two and whole chunks, as dagSize / 64 always is (2^24 and up
\* items, chunks of 2^20): 8 items, and 16, the largest DAG whose word
\* indices fit the width.
MCSizesFit == {8, 16}

\* 32 items: word indices wrap, as for epochs 20 to 31 (2^29 .. 2^31 items).
MCSizesWrap == {32}
=============================================================================
