---------------------------- MODULE MCSockPair2 ----------------------------
(* Instances of SockPair2 for TLC. *)
EXTENDS SockPair2
=============================================================================
