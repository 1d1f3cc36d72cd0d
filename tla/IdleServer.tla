----------------------------- MODULE IdleServer -----------------------------
(***************************************************************************)
(* The server of 11_3.cpp, which closes connections that have been silent  *)
(* for three TIMESLOTs.  One thread handles batches of epoll events; the   *)
(* handler of SIGALRM only writes to a pipe that epoll watches, and the    *)
(* timers are looked at behind the batch in which the signal was read.     *)
(* All sockets are edge-triggered.  The list of timers is SortedTimers,    *)
(* which TimerList.tla shows sort_timer_lst to implement.                  *)
(*                                                                         *)
(* Times are relative to now, in TIMESLOTs: Elapse lowers the expiry of    *)
(* every timer, down to 0, where it has expired and only a new expiry      *)
(* changes how it compares.                                                *)
(***************************************************************************)
EXTENDS Naturals, SequencesExt

CONSTANTS
    Fds,            \* descriptors for connections
    Timers,         \* util_timer objects
    NULL,
    MaxUnread       \* bound: pieces of data that wait in a socket

ASSUME IdleServerAssumption ==
    /\ IsFiniteSet(Fds) /\ IsFiniteSet(Timers)
    /\ Fds \cap {"listen", "pipe"} = {}
    /\ NULL \notin Timers
    /\ MaxUnread \in Nat

VARIABLES
    backlog,        \* connections that wait for accept
    open,           \* the descriptors of open connections
    unread, fin,    \* what waits in each connection's socket: data, its end
    edges,          \* what epoll has to report: descriptors, "listen", "pipe"
    batch,          \* the events of the last epoll_wait not handled yet
    pipe,           \* the signals in the pipe
    alarm,          \* SIGALRM is to come when this TIMESLOT is over
    pc, timeout, stop_server,   \* of main
    timer,          \* users[fd].timer
    user_data,      \* of the timers in the list: the descriptor each is for
    timers, expire, fired,      \* timer_lst; what the round's tick has fired
    silent          \* TIMESLOTs since a connection's accept or last data, up to 3

sockets == <<backlog, open, unread, fin>>
events == <<edges, batch>>
main == <<pc, timeout, stop_server>>
clock == <<alarm, pipe>>
list == <<timers, expire, fired>>
pointers == <<timer, user_data>>
vars == <<sockets, events, main, clock, list, pointers, silent>>

Limit == 3      \* 3 * TIMESLOT
List == INSTANCE SortedTimers WITH Times <- 0..Limit

Init ==
    /\ backlog = 0 /\ open = {}
    /\ unread = [fd \in Fds |-> 0]
    /\ fin = [fd \in Fds |-> FALSE]
    /\ edges = {} /\ batch = {}
    /\ pipe = {} /\ alarm = TRUE
    /\ pc = "wait" /\ timeout = FALSE /\ stop_server = FALSE
    /\ timer = [fd \in Fds |-> NULL]
    /\ user_data = <<>>
    /\ List!Init
    /\ silent = [fd \in Fds |-> 0]

-----------------------------------------------------------------------------
(* Clients, signals and time.                                              *)

\* As many connections as there are descriptors.
Connect ==
    /\ pc # "ended"
    /\ backlog + Cardinality(open) < Cardinality(Fds)
    /\ backlog' = backlog + 1
    /\ edges' = edges \cup {"listen"}
    /\ UNCHANGED <<open, unread, fin, batch, main, clock, list, pointers, silent>>

Arrives(fd) ==
    /\ fd \in open /\ ~fin[fd]
    /\ edges' = edges \cup {fd}
    /\ UNCHANGED <<backlog, open, batch, main, clock, list, pointers, silent>>

Send(fd) ==
    /\ Arrives(fd)
    /\ unread[fd] < MaxUnread
    /\ unread' = [unread EXCEPT ![fd] = @ + 1]
    /\ UNCHANGED fin

\* The client closes its side, or resets the connection, which drops the data.
Leave(fd) ==
    /\ Arrives(fd)
    /\ fin' = [fin EXCEPT ![fd] = TRUE]
    /\ \/ UNCHANGED unread
       \/ unread' = [unread EXCEPT ![fd] = 0]

\* sig_handler
Signal(sig) ==
    /\ pipe' = pipe \cup {sig}
    /\ edges' = edges \cup {"pipe"}

Terminate ==
    /\ pc # "ended" /\ ~stop_server
    /\ Signal("SIGTERM")
    /\ UNCHANGED <<sockets, batch, main, alarm, list, pointers, silent>>

\* One TIMESLOT passes.
Elapse ==
    /\ pc # "ended"
    /\ IF alarm THEN alarm' = FALSE /\ Signal("SIGALRM")
                ELSE UNCHANGED <<clock, edges>>
    /\ expire' = [t \in DOMAIN expire |-> IF expire[t] = 0 THEN 0 ELSE expire[t] - 1]
    /\ silent' = [fd \in Fds |-> IF fd \in open /\ silent[fd] < Limit
                                 THEN silent[fd] + 1 ELSE silent[fd]]
    /\ UNCHANGED <<sockets, batch, main, timers, fired, pointers>>

-----------------------------------------------------------------------------
(* main: epoll_wait, and one event of the batch after the other.           *)

Ready ==
    {e \in edges : \/ e = "listen" /\ backlog > 0
                   \/ e = "pipe" /\ pipe # {}
                   \/ e \in open /\ (unread[e] > 0 \/ fin[e])}

EpollWait ==
    /\ pc = "wait"
    /\ Ready # {}
    /\ batch' = Ready
    /\ edges' = {}
    /\ pc' = "events"
    /\ fired' = <<>>
    /\ UNCHANGED <<sockets, timeout, stop_server, clock, timers, expire, pointers,
                   silent>>

Handle(e) ==
    /\ pc = "events"
    /\ e \in batch
    /\ batch' = batch \ {e}
    /\ UNCHANGED pc

\* A connection on fd, with a new timer t for it.
NewConnection(fd, t) ==
    /\ fd \notin open
    /\ backlog' = backlog - 1
    /\ open' = open \cup {fd}
    /\ timer' = [timer EXCEPT ![fd] = t]
    /\ user_data' = [u \in DOMAIN user_data \cup {t} |-> IF u = t THEN fd ELSE user_data[u]]
    /\ List!Add(t, Limit)
    /\ UNCHANGED <<unread, fin, edges, timeout, stop_server, clock, silent>>

\* Seeded fault: accept is repeated, as an edge-triggered socket asks for, and
\* its failure is not looked at.
AcceptOnAndOn(fd, t) ==
    /\ pc = "events" /\ "listen" \in batch
    /\ NewConnection(fd, t)
    /\ UNCHANGED <<pc, batch>>

\* Seeded fault: add_timer is forgotten.
AcceptUntimed(fd, t) ==
    /\ Handle("listen")
    /\ fd \notin open /\ t \notin ToSet(timers)
    /\ backlog' = backlog - 1
    /\ open' = open \cup {fd}
    /\ UNCHANGED <<unread, fin, edges, timeout, stop_server, clock, list, pointers,
                   silent>>

Accept(fd, t) == Handle("listen") /\ NewConnection(fd, t)

\* cb_func of the users entries of these descriptors: close, which also takes
\* them out of epoll.
Close(fds) ==
    /\ open' = open \ fds
    /\ edges' = edges \ fds
    /\ unread' = [fd \in Fds |-> IF fd \in fds THEN 0 ELSE unread[fd]]
    /\ fin' = [fd \in Fds |-> fin[fd] /\ fd \notin fds]
    /\ silent' = [fd \in Fds |-> IF fd \in fds THEN 0 ELSE silent[fd]]
    /\ UNCHANGED backlog

\* tick(), with cb_func of every timer that has expired.
TimerTick ==
    /\ List!Tick(0)
    /\ Close({user_data[t] : t \in ToSet(fired')})
    /\ user_data' = Restrict(user_data, ToSet(timers'))

\* Seeded fault: the timers are handled as soon as the signal is read.
SignalsTickAtOnce ==
    /\ Handle("pipe")
    /\ pipe' = {}
    /\ IF "SIGALRM" \in pipe
       THEN TimerTick /\ alarm' = TRUE
       ELSE UNCHANGED <<sockets, edges, alarm, list, user_data, silent>>
    /\ stop_server' = (stop_server \/ "SIGTERM" \in pipe)
    /\ UNCHANGED <<timeout, timer>>

\* recv from the pipe, and the switch on what it holds.
Signals ==
    /\ Handle("pipe")
    /\ pipe' = {}
    /\ timeout' = (timeout \/ "SIGALRM" \in pipe)
    /\ stop_server' = (stop_server \/ "SIGTERM" \in pipe)
    /\ UNCHANGED <<sockets, edges, alarm, list, pointers, silent>>

\* Seeded fault: data does not put the timer off.
RecvAdjustForgotten(fd, k) ==
    /\ fd \in Fds /\ Handle(fd)
    /\ k \in 1..unread[fd]
    /\ unread' = [unread EXCEPT ![fd] = @ - k]
    /\ silent' = [silent EXCEPT ![fd] = 0]
    /\ UNCHANGED <<backlog, open, fin, edges, timeout, stop_server, clock, list,
                   pointers>>

\* recv gives data: what fits in the buffer, once for each event.
Recv(fd, k) ==
    /\ fd \in Fds /\ Handle(fd)
    /\ k \in 1..unread[fd]
    /\ unread' = [unread EXCEPT ![fd] = @ - k]
    /\ silent' = [silent EXCEPT ![fd] = 0]
    /\ IF timer[fd] # NULL THEN List!Adjust(timer[fd], Limit)
                           ELSE UNCHANGED list
    /\ UNCHANGED <<backlog, open, fin, edges, timeout, stop_server, clock, pointers>>

\* Seeded fault: the connection is closed and its timer stays in the list.
RecvEndKeepsTimer(fd) ==
    /\ fd \in Fds /\ Handle(fd)
    /\ unread[fd] = 0
    /\ Close({fd})
    /\ UNCHANGED <<timeout, stop_server, clock, list, pointers>>

\* recv gives 0 or an error: the connection is closed, its timer deleted.
RecvEnd(fd) ==
    /\ fd \in Fds /\ Handle(fd)
    /\ unread[fd] = 0
    /\ Close({fd})
    /\ IF timer[fd] # NULL THEN List!Delete(timer[fd]) ELSE UNCHANGED list
    /\ user_data' = Restrict(user_data, ToSet(timers'))
    /\ UNCHANGED <<timeout, stop_server, clock, timer>>

\* The batch is done: the timers, if SIGALRM was in it, and the next round.
Round ==
    /\ pc = "events" /\ batch = {}
    /\ pc' = IF stop_server THEN "ended" ELSE "wait"
    /\ UNCHANGED <<batch, pipe, stop_server, timer>>

TimerHandler ==
    /\ Round
    /\ timeout /\ timeout' = FALSE
    /\ TimerTick
    /\ alarm' = TRUE

NoTimeout ==
    /\ Round
    /\ ~timeout
    /\ UNCHANGED <<sockets, edges, timeout, alarm, list, user_data, silent>>

Main ==
    \/ EpollWait \/ Signals \/ TimerHandler \/ NoTimeout
    \/ \E fd \in Fds :
        \/ \E t \in Timers : Accept(fd, t)
        \/ \E k \in 1..MaxUnread : Recv(fd, k)
        \/ RecvEnd(fd)

Next ==
    \/ Connect \/ Terminate \/ Elapse
    \/ \E fd \in Fds : Send(fd) \/ Leave(fd)
    \/ Main

Spec == Init /\ [][Next]_vars

\* main is scheduled and time goes by; no client is obliged to do anything.
FairSpec == Spec /\ WF_vars(Main) /\ WF_vars(Elapse)

-----------------------------------------------------------------------------
(* Properties.                                                             *)

TypeOK ==
    /\ backlog \in 0..Cardinality(Fds)
    /\ open \subseteq Fds
    /\ unread \in [Fds -> 0..MaxUnread]
    /\ fin \in [Fds -> BOOLEAN]
    /\ edges \subseteq Fds \cup {"listen", "pipe"}
    /\ batch \subseteq Fds \cup {"listen", "pipe"}
    /\ pipe \subseteq {"SIGALRM", "SIGTERM"}
    /\ alarm \in BOOLEAN
    /\ pc \in {"wait", "events", "ended"}
    /\ timeout \in BOOLEAN /\ stop_server \in BOOLEAN
    /\ timer \in [Fds -> Timers \cup {NULL}]
    /\ user_data \in [ToSet(timers) -> Fds]
    /\ timers \in Seq(Timers) /\ fired \in Seq(Timers)
    /\ expire \in [ToSet(timers) -> 0..Limit]
    /\ silent \in [Fds -> 0..Limit]

\* Every open connection has one timer in the list, which knows it, and there
\* is no other timer: users[fd].timer, which tick() and del_timer() leave
\* pointing at a deleted object (11_3.cpp:180), is used for open connections
\* only, also when descriptor and object have been used before.
TimerOfConnection ==
    /\ ToSet(timers) = {timer[fd] : fd \in open}
    /\ \A fd \in open : user_data[timer[fd]] = fd

\* An event that has been fetched is for a connection that is still open:
\* nothing closes another connection before the batch is done, because timeout
\* only marks the timers as due (11_3.cpp:163-165, 210).
EventsAreOpen == batch \cap Fds \subseteq open

\* A connection that its client has not ended is closed only when nothing has
\* been received from it for three TIMESLOTs (11_3.cpp:143, 195-200).
OnlyIdleClosed ==
    [][\A fd \in open \ open' : fin[fd] \/ silent[fd] = Limit]_vars

\* A connection whose client has gone is closed, also when that event comes
\* together with data and is lost (one recv for an edge, 11_3.cpp:177): then
\* the timer closes it, and the alarm that drives the timers never stops.
GoneIsClosed ==
    \A fd \in Fds : fd \in open /\ fin[fd] ~> fd \notin open \/ pc = "ended"
=============================================================================
