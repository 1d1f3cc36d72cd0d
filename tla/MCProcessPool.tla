--------------------------- MODULE MCProcessPool ---------------------------
(* Small instance of ProcessPool for TLC: two children, two clients.  No   *)
(* symmetry: the instance also checks liveness.                            *)
EXTENDS ProcessPool

CONSTANTS c1, c2

MCPieces == (c1 :> 2) @@ (c2 :> 1)
=============================================================================
