---------------------------- MODULE MCSupervisor ----------------------------
(* A leader, a helper it may fork, and waits of one tick.  A member ignores all *)
(* it can ignore, or nothing.                                                  *)
EXTENDS Supervisor

MCDispositions == {{"SIGKILL"}, Signals}
=============================================================================
