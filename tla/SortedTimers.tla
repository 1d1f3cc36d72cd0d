---------------------------- MODULE SortedTimers ----------------------------
(***************************************************************************)
(* What sort_timer_lst (11_2.cpp) promises: a sequence of timers in        *)
(* ascending order of expiry, those that expire together in the order in   *)
(* which they got that expiry.  No links.  The operations count on the     *)
(* order: without it there is no step that they could take.  TimerList.tla *)
(* implements this specification, IdleServer.tla uses it as its list.      *)
(***************************************************************************)
EXTENDS Naturals, SequencesExt

CONSTANTS
    Timers,     \* util_timer objects
    Times       \* the values of expire and of the clock

VARIABLES
    timers,     \* the timers of the list, the one that expires first in front
    expire,     \* [the timers of the list -> Times]
    fired       \* the timers whose callback the last tick ran, in order

vars == <<timers, expire, fired>>

\* The first k timers of s, and only they, expire at cur or before.
Due(s, at, cur, k) ==
    \A i \in 1..Len(s) : at[s[i]] <= cur <=> i <= k

Init ==
    /\ timers = <<>>
    /\ expire = <<>>
    /\ fired = <<>>

\* t goes behind the timers of s that expire no later than it.
Place(s, t) ==
    \E k \in 0..Len(s) :
        /\ Due(s, expire', expire'[t], k)
        /\ timers' = InsertAt(s, k + 1, t)

Add(t, e) ==
    /\ t \notin ToSet(timers)
    /\ expire' = [u \in ToSet(timers) \cup {t} |-> IF u = t THEN e ELSE expire[u]]
    /\ Place(timers, t)
    /\ UNCHANGED fired

\* The expiry of a timer in the list is put off.
Adjust(t, e) ==
    /\ t \in ToSet(timers)
    /\ e >= expire[t]
    /\ expire' = [expire EXCEPT ![t] = e]
    /\ \E i \in 1..Len(timers) : timers[i] = t /\ Place(RemoveAt(timers, i), t)
    /\ UNCHANGED fired

Delete(t) ==
    /\ \E i \in 1..Len(timers) : timers[i] = t /\ timers' = RemoveAt(timers, i)
    /\ expire' = Restrict(expire, ToSet(timers'))
    /\ UNCHANGED fired

\* Every timer that has expired fires, none that has not.
Tick(cur) ==
    /\ \E k \in 0..Len(timers) :
        /\ Due(timers, expire, cur, k)
        /\ fired' = SubSeq(timers, 1, k)
        /\ timers' = SubSeq(timers, k + 1, Len(timers))
    /\ expire' = Restrict(expire, ToSet(timers'))

Clear ==
    /\ timers' = <<>> /\ expire' = <<>>
    /\ UNCHANGED fired

Next ==
    \/ \E t \in Timers : \E e \in Times : Add(t, e) \/ Adjust(t, e)
    \/ \E t \in Timers : Delete(t)
    \/ \E cur \in Times : Tick(cur)
    \/ Clear

Spec == Init /\ [][Next]_vars
=============================================================================
