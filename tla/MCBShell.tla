------------------------------ MODULE MCBShell ------------------------------
(* Instances of BShell for TLC. *)
EXTENDS BShell
=============================================================================
