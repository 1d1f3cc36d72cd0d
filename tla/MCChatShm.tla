----------------------------- MODULE MCChatShm -----------------------------
(* Small instance of ChatShm for TLC.  No symmetry: the instance also      *)
(* checks liveness.                                                        *)
EXTENDS ChatShm

CONSTANTS c1, c2, c3

OneSpeaks == [c \in Clients |-> IF c = c1 THEN 1 ELSE 0]
=============================================================================
