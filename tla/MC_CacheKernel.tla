-------------------------- MODULE MC_CacheKernel --------------------------
(***************************************************************************)
(* Three cache items of two words each, local size 2: four work-items,    *)
(* the last of which is past cache_items.  Two words per item are enough  *)
(* for a read to see one new and one old word.                             *)
(***************************************************************************)
EXTENDS CacheKernel
=============================================================================
