----------------------------- MODULE TimerWheel -----------------------------
(***************************************************************************)
(* time_wheel of 11_5.cpp: N slots, each with the list of its timers, of   *)
(* which tick() serves one and turns the wheel.  A list is a sequence, its *)
(* head in front; the links are those of TimerList.  One thread uses a     *)
(* wheel, and no callback of a timer uses it.                              *)
(***************************************************************************)
EXTENDS Integers, Sequences

CONSTANTS
    N, SI,          \* the slots, and the time between two ticks
    TwTimers,       \* tw_timer objects
    Timeouts        \* the arguments of add_timer that are not negative

ASSUME TimerWheelAssumption ==
    /\ N \in Nat \ {0} /\ SI \in Nat \ {0}
    /\ Timeouts \subseteq Nat

VARIABLES
    slots,          \* [0..N-1 -> the timers of the slot]
    cur_slot,
    rotation,       \* [TwTimers -> turns of the wheel that it waits]
    time_slot,      \* [TwTimers -> its slot, or -1 before new and after delete]
    tmp,            \* in tick(): the place of tmp in the list; 0 outside
    left            \* history: turns until the timer is to go off

wheelVars == <<slots, cur_slot, rotation, time_slot, tmp, left>>

Slots == 0..(N - 1)
Exists(t) == time_slot[t] # -1

WheelInit ==
    /\ slots = [s \in Slots |-> <<>>]
    /\ cur_slot = 0
    /\ rotation = [t \in TwTimers |-> 0]
    /\ time_slot = [t \in TwTimers |-> -1]
    /\ tmp = 0
    /\ left = [t \in TwTimers |-> 0]

\* How many ticks a timer is to wait: at least one.
Ticks(timeout) == IF timeout < SI THEN 1 ELSE timeout \div SI

AddTo(t, timeout, ts, turns) ==
    /\ tmp = 0 /\ ~Exists(t)
    /\ rotation' = [rotation EXCEPT ![t] = turns]
    /\ time_slot' = [time_slot EXCEPT ![t] = ts]
    /\ slots' = [slots EXCEPT ![ts] = <<t>> \o @]
    /\ left' = [left EXCEPT ![t] = Ticks(timeout)]
    /\ UNCHANGED <<cur_slot, tmp>>

\* Seeded fault: the ticks up to the end of the wheel count as a rotation.
WheelAddTimerRoundUp(t, timeout) ==
    LET ticks == Ticks(timeout)
    IN  AddTo(t, timeout, (cur_slot + (ticks % N)) % N, (cur_slot + ticks) \div N)

WheelAddTimer(t, timeout) ==
    LET ticks == Ticks(timeout)
    IN  AddTo(t, timeout, (cur_slot + (ticks % N)) % N, ticks \div N)

Unlinked(s, i) == [j \in 1..(Len(s) - 1) |-> IF j < i THEN s[j] ELSE s[j + 1]]

\* The timer at place i of slot s is unlinked and deleted.
Delete(s, i) ==
    /\ slots' = [slots EXCEPT ![s] = Unlinked(@, i)]
    /\ time_slot' = [time_slot EXCEPT ![slots[s][i]] = -1]
    /\ rotation' = [rotation EXCEPT ![slots[s][i]] = 0]
    /\ left' = [left EXCEPT ![slots[s][i]] = 0]

\* Seeded fault: a timer at the head is deleted and not unlinked.
WheelDelTimerLinked(t) ==
    /\ tmp = 0 /\ Exists(t)
    /\ \E i \in 1..Len(slots[time_slot[t]]) :
        /\ slots[time_slot[t]][i] = t
        /\ IF i > 1 THEN Delete(time_slot[t], i)
           ELSE /\ time_slot' = [time_slot EXCEPT ![t] = -1]
                /\ UNCHANGED <<slots, rotation, left>>
    /\ UNCHANGED <<cur_slot, tmp>>

WheelDelTimer(t) ==
    /\ tmp = 0 /\ Exists(t)
    /\ \E i \in 1..Len(slots[time_slot[t]]) :
        slots[time_slot[t]][i] = t /\ Delete(time_slot[t], i)
    /\ UNCHANGED <<cur_slot, tmp>>

-----------------------------------------------------------------------------
(* tick().                                                                 *)

Current == slots[cur_slot]

WheelTick ==
    /\ tmp = 0 /\ tmp' = 1
    /\ UNCHANGED <<slots, cur_slot, rotation, time_slot, left>>

\* A timer that waits for another rotation.
TickPass ==
    /\ tmp \in 1..Len(Current) /\ rotation[Current[tmp]] > 0
    /\ rotation' = [rotation EXCEPT ![Current[tmp]] = @ - 1]
    /\ tmp' = tmp + 1
    /\ UNCHANGED <<slots, cur_slot, time_slot, left>>

\* One that goes off.  The next one in the list takes its place.
TickGoOff ==
    /\ tmp \in 1..Len(Current) /\ rotation[Current[tmp]] = 0
    /\ Delete(cur_slot, tmp)
    /\ UNCHANGED <<cur_slot, tmp>>

TickTurn ==
    /\ tmp > Len(Current)
    /\ cur_slot' = (cur_slot + 1) % N
    /\ tmp' = 0
    /\ left' = [t \in TwTimers |-> IF Exists(t) THEN left[t] - 1 ELSE 0]
    /\ UNCHANGED <<slots, rotation, time_slot>>

\* The destructor deletes every timer; another wheel may be made.
WheelDestroy ==
    /\ tmp = 0 /\ tmp' = 0 /\ cur_slot' = 0
    /\ slots' = [s \in Slots |-> <<>>]
    /\ rotation' = [t \in TwTimers |-> 0]
    /\ time_slot' = [t \in TwTimers |-> -1]
    /\ left' = [t \in TwTimers |-> 0]

WheelNext ==
    \/ \E t \in TwTimers :
        WheelDelTimer(t) \/ \E timeout \in Timeouts : WheelAddTimer(t, timeout)
    \/ WheelTick \/ TickPass \/ TickGoOff \/ TickTurn
    \/ WheelDestroy

WheelSpec == WheelInit /\ [][WheelNext]_wheelVars

-----------------------------------------------------------------------------
(* Properties.                                                             *)

WheelTypeOK ==
    /\ slots \in [Slots -> Seq(TwTimers)]
    /\ cur_slot \in Slots
    /\ rotation \in [TwTimers -> Nat]
    /\ time_slot \in [TwTimers -> Slots \cup {-1}]
    /\ tmp \in Nat
    /\ left \in [TwTimers -> Int]

Filed == \A s \in Slots : \A i \in 1..Len(slots[s]) : time_slot[slots[s][i]] = s
OnceEach ==
    \A s \in Slots : \A i, j \in 1..Len(slots[s]) : slots[s][i] = slots[s][j] => i = j
Found ==
    \A t \in TwTimers : Exists(t) =>
        \E i \in 1..Len(slots[time_slot[t]]) : slots[time_slot[t]][i] = t

\* A timer that exists is in the list of its slot and in no other, at one place;
\* no deleted timer is in a list (del_timer relies on timer->time_slot,
\* 11_5.cpp:93; tick on every list being its own).
WellFiled == Filed /\ OnceEach /\ Found

\* Stated by 11_5.cpp:61: a timer goes off after its ticks.  tick() serves the
\* slot before it turns the wheel, so it runs the callback of a timer that was
\* added for k ticks when the wheel has turned k times, and never turns past one
\* that is due, whatever was added and deleted meanwhile (11_5.cpp:68-70, 118).
OnTime ==
    [][\A t \in TwTimers : Exists(t) =>
        /\ (tmp > 0 /\ time_slot'[t] = -1) => left[t] = 0
        /\ (tmp > 0 /\ tmp' = 0) => left[t] > 0]_wheelVars
=============================================================================
