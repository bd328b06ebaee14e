--------------------------- MODULE MCListAllocator ---------------------------
(* Instances of ListAllocator for TLC. *)
EXTENDS ListAllocator
=============================================================================
