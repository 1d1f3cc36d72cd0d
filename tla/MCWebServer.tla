----------------------------- MODULE MCWebServer -----------------------------
(* Small instances of WebServer for TLC.                                   *)
EXTENDS WebServer, TLC

CONSTANTS c1, c2, c3, w1, w2

\* Clients are interchangeable, and so are the workers.
Symmetry == Permutations(Clients) \cup Permutations(Workers)
=============================================================================
