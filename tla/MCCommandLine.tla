--------------------------- MODULE MCCommandLine ---------------------------
(* CommandLine for TLC: every line up to MaxLine characters. *)
EXTENDS CommandLine
=============================================================================
