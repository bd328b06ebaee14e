--------------------------- MODULE MCMapAllocator ---------------------------
(* Instances of MapAllocator for TLC. *)
EXTENDS MapAllocator
=============================================================================
