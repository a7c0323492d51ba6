-------------------------- MODULE MC_SearchKernel --------------------------
(***************************************************************************)
(* Three work-items per dispatch, two result slots and three batches:     *)
(* the first batch has one winner, the second three (more than the slots, *)
(* so one winner's nonce is counted but dropped), the third none, so a     *)
(* call that finds nothing follows calls that left nonces in the slots.    *)
(***************************************************************************)
EXTENDS SearchKernel

MCWins(n) == n \in {1, 3, 4, 5}
=============================================================================
