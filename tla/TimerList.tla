----------------------------- MODULE TimerList -----------------------------
(***************************************************************************)
(* sort_timer_lst of 11_2.cpp: the doubly linked list of timers behind     *)
(* the idle-connection server.  prev and next are the members of the       *)
(* util_timer objects that exist: new extends their domain and delete      *)
(* shrinks it.  A step is a call of a public member function, with one     *)
(* action for each of the cases in which it relinks.  One thread uses it.  *)
(***************************************************************************)
EXTENDS Naturals, SequencesExt

CONSTANTS
    Timers,     \* util_timer objects
    NULL,
    Times       \* the values of expire and of time(NULL)

ASSUME TimerListAssumption ==
    /\ IsFiniteSet(Timers)
    /\ NULL \notin Timers
    /\ Times \subseteq Nat /\ Times # {}

VARIABLES
    head, tail,         \* a timer or NULL
    prev, next, expire, \* the members of the timers between new and delete
    fired,              \* the timers whose cb_func the last tick has called
    destroyed           \* ~sort_timer_lst has run

links == <<head, tail, prev, next>>
vars == <<links, expire, fired, destroyed>>

Allocated == DOMAIN next

\* The member of t is v; t may just have been made.
With(member, t, v) ==
    [u \in DOMAIN member \cup {t} |-> IF u = t THEN v ELSE member[u]]

Init ==
    /\ head = NULL /\ tail = NULL
    /\ prev = <<>> /\ next = <<>> /\ expire = <<>>
    /\ fired = <<>>
    /\ destroyed = FALSE

\* The nodes from n on along `link`.  A walk that does not end is cut where it
\* has visited more nodes than there are.
Walk(link, n) ==
    LET size == Cardinality(Timers)
        node[i \in 0..size] ==
            IF i = 0 THEN n
            ELSE IF node[i - 1] = NULL THEN NULL ELSE link[node[i - 1]]
        length == Cardinality({i \in 0..size : node[i] # NULL})
    IN  [i \in 1..length |-> node[i - 1]]

-----------------------------------------------------------------------------
(* add_timer(timer, lst_head): the timer goes in front of the first node   *)
(* after lst_head that expires later.                                      *)

\* Where the loop stops: the last node before that one.
Place(t, at, lst_head) ==
    LET nodes == Walk(next, lst_head)
        passed == {k \in 1..Len(nodes) :
                    \A j \in 2..k : ~(at[t] < at[nodes[j]])}
    IN  nodes[CHOOSE k \in passed : \A j \in passed : j <= k]

\* Link t behind p, in lists whose members are pv and nx.
LinkAfter(t, p, pv, nx) ==
    IF nx[p] = NULL
    THEN /\ next' = [nx EXCEPT ![p] = t, ![t] = NULL]
         /\ prev' = [pv EXCEPT ![t] = p]
         /\ tail' = t
    ELSE /\ next' = [nx EXCEPT ![p] = t, ![t] = nx[p]]
         /\ prev' = [pv EXCEPT ![nx[p]] = t, ![t] = p]
         /\ UNCHANGED tail

-----------------------------------------------------------------------------
(* add_timer(timer), of a timer that its user has just made.               *)

\* new util_timer, and expire set.
New(t, e) ==
    /\ ~destroyed
    /\ t \notin Allocated
    /\ expire' = With(expire, t, e)
    /\ UNCHANGED <<fired, destroyed>>
Null(link, t) == With(link, t, NULL)

AddFirst(t, e) ==
    /\ New(t, e)
    /\ head = NULL
    /\ head' = t /\ tail' = t
    /\ prev' = Null(prev, t) /\ next' = Null(next, t)

\* Seeded fault: the old head does not learn of its predecessor.
AddFrontOneWay(t, e) ==
    /\ New(t, e)
    /\ head # NULL /\ e < expire[head]
    /\ next' = With(next, t, head)
    /\ prev' = Null(prev, t)
    /\ head' = t
    /\ UNCHANGED tail

AddFront(t, e) ==
    /\ New(t, e)
    /\ head # NULL /\ e < expire[head]
    /\ next' = With(next, t, head)
    /\ prev' = Null(With(prev, head, t), t)
    /\ head' = t
    /\ UNCHANGED tail

AddAfter(t, e) ==
    /\ New(t, e)
    /\ head # NULL /\ ~(e < expire[head])
    /\ LinkAfter(t, Place(t, expire', head), Null(prev, t), Null(next, t))
    /\ UNCHANGED head

-----------------------------------------------------------------------------
(* adjust_timer(timer), of a timer whose expiry has been put off.          *)

PutOff(t, e) ==
    /\ ~destroyed
    /\ t \in Allocated
    /\ e >= expire[t]
    /\ expire' = [expire EXCEPT ![t] = e]
    /\ UNCHANGED <<fired, destroyed>>

InOrder(t, e) == next[t] # NULL => e < expire[next[t]]

\* Seeded fault: a timer whose new expiry is behind its successor's stays.
AdjustStayAlways(t, e) == PutOff(t, e) /\ UNCHANGED links

AdjustStay(t, e) ==
    /\ PutOff(t, e)
    /\ InOrder(t, e)
    /\ UNCHANGED links

AdjustHead(t, e) ==
    /\ PutOff(t, e)
    /\ ~InOrder(t, e) /\ t = head
    /\ head' = next[t]
    /\ LinkAfter(t, Place(t, expire', next[t]), Null(prev, next[t]), Null(next, t))

\* The timer is taken out, and still holds its old successor.
AdjustMiddle(t, e) ==
    /\ PutOff(t, e)
    /\ ~InOrder(t, e) /\ t # head
    /\ LinkAfter(t, Place(t, expire', next[t]),
                 [prev EXCEPT ![next[t]] = prev[t]],
                 [next EXCEPT ![prev[t]] = next[t]])
    /\ UNCHANGED head

-----------------------------------------------------------------------------
(* del_timer(timer).                                                       *)

\* delete: the timers in gone, with their members, no longer exist.
Deleted(link, gone) == Restrict(link, DOMAIN link \ gone)
Free(t) ==
    /\ ~destroyed
    /\ t \in Allocated
    /\ expire' = Deleted(expire, {t})
    /\ UNCHANGED <<fired, destroyed>>

DeleteOnly(t) ==
    /\ Free(t)
    /\ t = head /\ t = tail
    /\ head' = NULL /\ tail' = NULL
    /\ prev' = Deleted(prev, {t}) /\ next' = Deleted(next, {t})

\* Seeded fault: head is not advanced.
DeleteHeadKept(t) ==
    /\ Free(t)
    /\ t = head /\ t # tail
    /\ prev' = Deleted(Null(prev, next[t]), {t})
    /\ next' = Deleted(next, {t})
    /\ UNCHANGED <<head, tail>>

DeleteHead(t) ==
    /\ Free(t)
    /\ t = head /\ t # tail
    /\ head' = next[t]
    /\ prev' = Deleted(Null(prev, next[t]), {t})
    /\ next' = Deleted(next, {t})
    /\ UNCHANGED tail

DeleteTail(t) ==
    /\ Free(t)
    /\ t = tail /\ t # head
    /\ tail' = prev[t]
    /\ next' = Deleted(Null(next, prev[t]), {t})
    /\ prev' = Deleted(prev, {t})
    /\ UNCHANGED head

DeleteMiddle(t) ==
    /\ Free(t)
    /\ t # head /\ t # tail
    /\ next' = Deleted([next EXCEPT ![prev[t]] = next[t]], {t})
    /\ prev' = Deleted([prev EXCEPT ![next[t]] = prev[t]], {t})
    /\ UNCHANGED <<head, tail>>

-----------------------------------------------------------------------------
\* tick(), at the time cur: fire, unlink and delete from the head up to the
\* first timer that has not expired.  tail is left as it is.
Tick(cur) ==
    LET nodes == Walk(next, head)
        due == {k \in 0..Len(nodes) :
                    \A j \in 1..k : ~(cur < expire[nodes[j]])}
        count == CHOOSE k \in due : \A j \in due : j <= k
        gone == ToSet(SubSeq(nodes, 1, count))
    IN  /\ ~destroyed
        /\ head # NULL
        /\ fired' = SubSeq(nodes, 1, count)
        /\ head' = IF count = Len(nodes) THEN NULL ELSE nodes[count + 1]
        /\ prev' = Deleted(IF count \in 1..(Len(nodes) - 1)
                           THEN Null(prev, head') ELSE prev, gone)
        /\ next' = Deleted(next, gone)
        /\ expire' = Deleted(expire, gone)
        /\ UNCHANGED <<tail, destroyed>>

\* tick() on an empty list returns at once.
TickEmpty ==
    /\ ~destroyed
    /\ head = NULL
    /\ fired' = <<>>
    /\ UNCHANGED <<links, expire, destroyed>>

\* ~sort_timer_lst()
Destroy ==
    LET gone == ToSet(Walk(next, head))
    IN  /\ ~destroyed
        /\ destroyed' = TRUE
        /\ head' = NULL
        /\ prev' = Deleted(prev, gone)
        /\ next' = Deleted(next, gone)
        /\ expire' = Deleted(expire, gone)
        /\ UNCHANGED <<tail, fired>>

AddTimer(t, e) == AddFirst(t, e) \/ AddFront(t, e) \/ AddAfter(t, e)
AdjustTimer(t, e) == AdjustStay(t, e) \/ AdjustHead(t, e) \/ AdjustMiddle(t, e)
DelTimer(t) == DeleteOnly(t) \/ DeleteHead(t) \/ DeleteTail(t) \/ DeleteMiddle(t)

Next ==
    \/ \E t \in Timers : \E e \in Times : AddTimer(t, e) \/ AdjustTimer(t, e)
    \/ \E t \in Timers : DelTimer(t)
    \/ \E cur \in Times : Tick(cur)
    \/ TickEmpty
    \/ Destroy

Spec == Init /\ [][Next]_vars

-----------------------------------------------------------------------------
(* Properties.                                                             *)

\* Types; head never points at a deleted timer.
TypeOK ==
    /\ Allocated \subseteq Timers
    /\ head \in Allocated \cup {NULL}
    /\ tail \in Timers \cup {NULL}
    /\ prev \in [Allocated -> Allocated \cup {NULL}]
    /\ next \in [Allocated -> Allocated \cup {NULL}]
    /\ expire \in [Allocated -> Times]
    /\ fired \in Seq(Timers)
    /\ destroyed \in BOOLEAN

\* The links are those of one list: forwards from head they visit every timer
\* that has not been deleted and no other, each once, and backwards from tail
\* the same ones.  tail counts only while there is a head: tick() that fires
\* all timers leaves it on a deleted one (11_2.cpp:168).  The cases of
\* adjust_timer and del_timer (93-106, 117-143) repair different links each.
WellLinked ==
    LET forward == Walk(next, head)
    IN  /\ IsInjective(forward)
        /\ ToSet(forward) = Allocated
        /\ head # NULL => Walk(prev, tail) = Reverse(forward)

\* The list is the sorted sequence of its timers: each operation changes it as
\* the sequence promises, and tick() fires all expired timers, in the order of
\* their expiry, and no other (11_2.cpp:161 stops at the first that has not
\* expired, which is right only in a sorted list).
Abstract == INSTANCE SortedTimers WITH timers <- Walk(next, head)
ImplementsSortedTimers == Abstract!Spec
=============================================================================
