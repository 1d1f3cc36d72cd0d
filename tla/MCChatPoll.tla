----------------------------- MODULE MCChatPoll -----------------------------
(* Small instance of ChatPoll for TLC.  No symmetry: the instance also     *)
(* checks liveness.                                                        *)
EXTENDS ChatPoll

CONSTANTS c1, c2, c3

TwoSpeak == [c \in Clients |-> IF c \in {c1, c2} THEN 1 ELSE 0]
=============================================================================
