---------------------------- MODULE MCThreadPool ----------------------------
(* Small instances of ThreadPool for TLC: two producers, two workers, a    *)
(* queue of one request and one task besides NULL.  No symmetry: the       *)
(* instances also check liveness.                                          *)
EXTENDS ThreadPool

CONSTANTS p1, p2, w1, w2, a
=============================================================================
