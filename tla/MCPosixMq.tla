----------------------------- MODULE MCPosixMq -----------------------------
(* Instances of PosixMq for TLC. *)
EXTENDS PosixMq
=============================================================================
