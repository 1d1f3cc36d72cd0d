---------------------------- MODULE MCIdleServer ----------------------------
(* Small instance of IdleServer for TLC: two descriptors, two timers.  No  *)
(* symmetry: the instance also checks liveness.                            *)
EXTENDS IdleServer

CONSTANTS f1, f2, t1, t2
=============================================================================
