----------------------- MODULE MCBoundaryTagAllocator -----------------------
(* Instances of BoundaryTagAllocator for TLC. *)
EXTENDS BoundaryTagAllocator
=============================================================================
