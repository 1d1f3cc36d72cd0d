------------------------------ MODULE MCTimers ------------------------------
(* Small instances of the two timer containers for TLC: a sorted list of   *)
(* four timers and three times; a wheel of three slots with timeouts below *)
(* one tick and up to three rotations.  A program has one or the other:    *)
(* the states are those of the list and those of the wheel, not the pairs. *)
(* The timers of each are interchangeable.                                 *)
EXTENDS TimerList, TimerWheel

CONSTANTS t1, t2, t3, t4, tw1, tw2, tw3

MCTimeouts == 0..19
Symmetry == Permutations(Timers) \cup Permutations(TwTimers)

UsesList == WheelInit /\ Next /\ UNCHANGED wheelVars
UsesWheel == Init /\ WheelNext /\ UNCHANGED vars
MCInit == Init /\ WheelInit
MCSpec == MCInit /\ [][UsesList \/ UsesWheel]_<<vars, wheelVars>>
=============================================================================
