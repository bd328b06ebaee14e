----------------------------- MODULE MCPthreads -----------------------------
(* Pthreads for TLC: the three programs of the repository. *)
EXTENDS Pthreads

AllPrograms == {MutexProgram, CondProgram, CreateProgram}
=============================================================================
