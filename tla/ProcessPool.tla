---------------------------- MODULE ProcessPool ----------------------------
(***************************************************************************)
(* processpool<T> of processpool.h with T = cgi_conn of 15_2.cpp: a parent *)
(* that announces connections to its children over pipes, children that    *)
(* accept them and fork a CGI program for each request, and the signals    *)
(* between them.  Every process has an epoll table of edge-triggered       *)
(* descriptors; a step is the handling of one event of a batch, or what    *)
(* the process does between two batches.                                   *)
(***************************************************************************)
EXTENDS Naturals, SequencesExt

CONSTANTS
    m_process_number,
    Clients,        \* each connects once and sends one request
    Pieces,         \* bound: the segments in which each request arrives
    MaxCrashes      \* bound: children that die of themselves

ASSUME ProcessPoolAssumption ==
    /\ m_process_number \in Nat \ {0}
    /\ IsFiniteSet(Clients)
    /\ Clients \cap {"listen", "signal", "pipe"} = {}
    /\ Pieces \in [Clients -> Nat \ {0}]
    /\ MaxCrashes \in Nat

Children == 0..(m_process_number - 1)

VARIABLES
    parent,         \* where run_parent is
    child,          \* [Children -> where run_child is]
    m_pid,          \* [Children -> "pid", or "-1" before it is forked, once reaped]
    m_stop,         \* [processes -> BOOLEAN]
    edges, batch,   \* what epoll has to report to a process; its events
    signals,        \* the signals in a process's signal pipe
    sub_process_counter,
    messages,       \* announcements in the pipe to each child
    backlog,        \* connections that wait for accept, oldest first
    conn,           \* [Clients -> where its connection is]
    server,         \* the child that has accepted it, while it is open
    unread, got,    \* segments of a request that wait in the socket, were read
    fin,            \* the client has closed its side
    cgi,            \* CGI programs that run, of each child that lives
    crashes

Parent == m_process_number
Processes == Children \cup {Parent}

family == <<parent, child, m_pid, m_stop, cgi, crashes>>
epoll == <<edges, batch, signals>>
network == <<backlog, conn, server, unread, got, fin>>
vars == <<family, epoll, sub_process_counter, messages, network>>

Init ==
    /\ parent = "fork"
    /\ child = [i \in Children |-> "unborn"]
    /\ m_pid = [i \in Children |-> "-1"]
    /\ m_stop = [p \in Processes |-> FALSE]
    /\ edges = [p \in Processes |-> {}]
    /\ batch = [p \in Processes |-> {}]
    /\ signals = [p \in Processes |-> {}]
    /\ sub_process_counter = 0
    /\ messages = [i \in Children |-> 0]
    /\ backlog = <<>>
    /\ conn = [c \in Clients |-> "none"]
    /\ server = [c \in Clients |-> 0]
    /\ unread = [c \in Clients |-> 0]
    /\ got = [c \in Clients |-> 0]
    /\ fin = [c \in Clients |-> FALSE]
    /\ cgi = [i \in Children |-> 0]
    /\ crashes = 0

Running == {"wait", "events"}       \* the signal handlers are installed
Served(i) == {c \in Clients : conn[c] = "open" /\ server[c] = i}
Dead == {i \in Children : child[i] = "dead"}

-----------------------------------------------------------------------------
(* Signals and the death of children.                                      *)

\* sig_handler of the processes ps: write to the signal pipe.
Signalled(ps, sig) ==
    [p \in Processes |-> IF p \in ps THEN signals[p] \cup {sig} ELSE signals[p]]

\* These connections are closed, by the server.
Closed(clients) ==
    /\ conn' = [c \in Clients |-> IF c \in clients THEN "closed" ELSE conn[c]]
    /\ unread' = [c \in Clients |-> IF c \in clients THEN 0 ELSE unread[c]]
    /\ got' = [c \in Clients |-> IF c \in clients THEN 0 ELSE got[c]]
    /\ fin' = [c \in Clients |-> fin[c] /\ c \notin clients]
    /\ server' = [c \in Clients |-> IF c \in clients THEN 0 ELSE server[c]]
    /\ UNCHANGED backlog

\* Child i ends: its sockets are closed, and the parent gets SIGCHLD, which is
\* ignored before setup_sig_pipe.  Its CGI programs have no parent any more.
Die(i) ==
    LET told == IF parent \in Running THEN {Parent} ELSE {}
    IN  /\ child' = [child EXCEPT ![i] = "dead"]
        /\ batch' = [batch EXCEPT ![i] = {}]
        /\ signals' = [Signalled(told, "SIGCHLD") EXCEPT ![i] = {}]
        /\ edges' = [edges EXCEPT ![i] = {},
                        ![Parent] = IF told = {} THEN @ ELSE @ \cup {"signal"}]
        /\ messages' = [messages EXCEPT ![i] = 0]
        /\ cgi' = [cgi EXCEPT ![i] = 0]
        /\ Closed(Served(i))

\* A child dies of itself or is killed.
Crash(i) ==
    /\ child[i] \in Running \cup {"start"}
    /\ crashes < MaxCrashes
    /\ crashes' = crashes + 1
    /\ Die(i)
    /\ UNCHANGED <<parent, m_pid, m_stop, sub_process_counter>>

\* A CGI program ends: SIGCHLD for the child that forked it.
CgiEnds(i) ==
    /\ cgi[i] > 0
    /\ cgi' = [cgi EXCEPT ![i] = @ - 1]
    /\ signals' = Signalled({i}, "SIGCHLD")
    /\ edges' = [edges EXCEPT ![i] = @ \cup {"signal"}]
    /\ UNCHANGED <<parent, child, m_pid, m_stop, crashes, batch,
                   sub_process_counter, messages, network>>

\* The user sends SIGTERM to the parent of a pool that has started.
Terminate ==
    /\ parent \in Running
    /\ signals' = Signalled({Parent}, "SIGTERM")
    /\ edges' = [edges EXCEPT ![Parent] = @ \cup {"signal"}]
    /\ UNCHANGED <<family, batch, sub_process_counter, messages, network>>

-----------------------------------------------------------------------------
(* Clients.                                                                *)

Connect(c) ==
    /\ conn[c] = "none"
    /\ conn' = [conn EXCEPT ![c] = "queued"]
    /\ backlog' = Append(backlog, c)
    /\ edges' = IF parent \in Running
                THEN [edges EXCEPT ![Parent] = @ \cup {"listen"}] ELSE edges
    /\ UNCHANGED <<family, batch, signals, sub_process_counter, messages, server,
                   unread, got, fin>>

\* Something arrives on a connection that has been accepted.
Arrives(c) ==
    /\ conn[c] = "open" /\ ~fin[c]
    /\ edges' = [edges EXCEPT ![server[c]] = @ \cup {c}]
    /\ UNCHANGED <<family, batch, signals, sub_process_counter, messages, backlog,
                   conn, server, got>>

Send(c) ==
    /\ Arrives(c)
    /\ unread[c] + got[c] < Pieces[c]
    /\ unread' = [unread EXCEPT ![c] = @ + 1]
    /\ UNCHANGED fin

\* Closing after the whole request makes no difference: no more is read.
Leave(c) ==
    /\ Arrives(c)
    /\ unread[c] + got[c] < Pieces[c]
    /\ fin' = [fin EXCEPT ![c] = TRUE]
    /\ UNCHANGED unread

-----------------------------------------------------------------------------
(* The constructor and setup_sig_pipe.                                     *)

Fork(i) ==
    /\ parent = "fork"
    /\ child[i] = "unborn" /\ \A j \in Children : j < i => child[j] # "unborn"
    /\ child' = [child EXCEPT ![i] = "start"]
    /\ m_pid' = [m_pid EXCEPT ![i] = "pid"]
    /\ parent' = IF i = m_process_number - 1 THEN "start" ELSE "fork"
    /\ UNCHANGED <<m_stop, cgi, crashes, epoll, sub_process_counter, messages,
                   network>>

ParentStart ==
    /\ parent = "start"
    /\ parent' = "wait"
    /\ edges' = [edges EXCEPT ![Parent] = IF backlog = <<>> THEN {} ELSE {"listen"}]
    /\ UNCHANGED <<child, m_pid, m_stop, cgi, crashes, batch, signals,
                   sub_process_counter, messages, network>>

ChildStart(i) ==
    /\ child[i] = "start"
    /\ child' = [child EXCEPT ![i] = "wait"]
    /\ edges' = [edges EXCEPT ![i] = IF messages[i] = 0 THEN {} ELSE {"pipe"}]
    /\ UNCHANGED <<parent, m_pid, m_stop, cgi, crashes, batch, signals,
                   sub_process_counter, messages, network>>

-----------------------------------------------------------------------------
(* The event loop, of parent and children.                                 *)

Ready(p) ==
    {e \in edges[p] : \/ e = "signal" /\ signals[p] # {}
                      \/ e = "listen" /\ backlog # <<>>
                      \/ e = "pipe" /\ messages[p] > 0
                      \/ e \in Clients /\ (unread[e] > 0 \/ fin[e])}

Fetch(p) ==
    /\ Ready(p) # {}
    /\ batch' = [batch EXCEPT ![p] = Ready(p)]
    /\ UNCHANGED <<m_pid, m_stop, cgi, crashes, signals, sub_process_counter,
                   messages, network>>

Handle(p, e) ==
    /\ e \in batch[p]
    /\ batch' = [batch EXCEPT ![p] = @ \ {e}]

\* Seeded fault: the listening socket is not edge-triggered.
ParentEpollWaitLevel ==
    /\ parent = "wait" /\ parent' = "events"
    /\ Fetch(Parent)
    /\ edges' = [edges EXCEPT ![Parent] = @ \cap {"listen"}]
    /\ UNCHANGED child

ParentEpollWait ==
    /\ parent = "wait" /\ parent' = "events"
    /\ Fetch(Parent)
    /\ edges' = [edges EXCEPT ![Parent] = {}]
    /\ UNCHANGED child

\* The child that is next in turn, from sub_process_counter on.
Alive(i) == m_pid[i] # "-1"
After(k) == (sub_process_counter + k) % m_process_number
NextChild(i) ==
    \E k \in Children : /\ i = After(k) /\ Alive(i)
                        /\ \A j \in 0..(k - 1) : ~Alive(After(j))

\* send to a child that has ended fails.
Announce(i) ==
    IF child[i] = "dead" THEN UNCHANGED <<messages, edges>>
    ELSE /\ messages' = [messages EXCEPT ![i] = @ + 1]
         /\ edges' = IF child[i] \in Running
                     THEN [edges EXCEPT ![i] = @ \cup {"pipe"}] ELSE edges

\* Seeded fault: the counter is not taken modulo the number of children.
DispatchUnbounded(i) ==
    /\ parent = "events" /\ Handle(Parent, "listen")
    /\ NextChild(i)
    /\ sub_process_counter' = i + 1
    /\ Announce(i)
    /\ UNCHANGED <<family, signals, network>>

Dispatch(i) ==
    /\ parent = "events" /\ Handle(Parent, "listen")
    /\ NextChild(i)
    /\ sub_process_counter' = (i + 1) % m_process_number
    /\ Announce(i)
    /\ UNCHANGED <<family, signals, network>>

\* No child is left: stop, and leave the rest of the batch.
DispatchNone ==
    /\ parent = "events" /\ "listen" \in batch[Parent]
    /\ \A i \in Children : ~Alive(i)
    /\ m_stop' = [m_stop EXCEPT ![Parent] = TRUE]
    /\ batch' = [batch EXCEPT ![Parent] = {}]
    /\ UNCHANGED <<parent, child, m_pid, cgi, crashes, edges, signals,
                   sub_process_counter, messages, network>>

\* waitpid until no ended child is left.
Zombies == {i \in Dead : m_pid[i] = "pid"}
Reap(reaped) ==
    m_pid' = [i \in Children |-> IF i \in reaped THEN "-1" ELSE m_pid[i]]

\* kill(m_pid, SIGTERM) for each child that is not reaped: the default action
\* before its setup_sig_pipe, the handler after it.  The signals that were read
\* are gone from the parent's pipe.
KillChildren ==
    LET killed == {i \in Children : m_pid'[i] = "pid" /\ child[i] = "start"}
        told == {i \in Children : m_pid'[i] = "pid" /\ child[i] \in Running}
    IN  /\ child' = [i \in Children |-> IF i \in killed THEN "dead" ELSE child[i]]
        /\ messages' = [i \in Children |-> IF i \in killed THEN 0 ELSE messages[i]]
        /\ signals' = [p \in Processes |->
                IF p \in told THEN signals[p] \cup {"SIGTERM"}
                ELSE IF p # Parent THEN signals[p]
                ELSE IF killed # {} THEN {"SIGCHLD"} ELSE {}]
        /\ edges' = [p \in Processes |->
                IF p \in told \/ (p = Parent /\ killed # {})
                THEN edges[p] \cup {"signal"} ELSE edges[p]]

ParentSignals(reaped) ==
    /\ parent = "events" /\ Handle(Parent, "signal")
    /\ IF "SIGCHLD" \in signals[Parent]
       THEN /\ Reap(reaped)
            /\ m_stop' = [m_stop EXCEPT ![Parent] =
                            \A i \in Children : m_pid'[i] = "-1"]
       ELSE UNCHANGED <<m_pid, m_stop>>
    /\ IF "SIGTERM" \in signals[Parent]
       THEN KillChildren
       ELSE /\ signals' = [signals EXCEPT ![Parent] = {}]
            /\ UNCHANGED <<child, messages, edges>>
    /\ UNCHANGED <<parent, cgi, crashes, sub_process_counter, network>>

\* Seeded fault: one waitpid for a SIGCHLD.
ParentReapsOne ==
    \E reaped \in SUBSET Zombies :
        /\ Cardinality(reaped) = IF Zombies = {} THEN 0 ELSE 1
        /\ ParentSignals(reaped)

\* Seeded fault: the parent stops when a child has ended.
ParentStopsAtFirst ==
    /\ parent = "events" /\ Handle(Parent, "signal")
    /\ Reap(IF "SIGCHLD" \in signals[Parent] THEN Zombies ELSE {})
    /\ m_stop' = [m_stop EXCEPT ![Parent] = @ \/ "SIGCHLD" \in signals[Parent]]
    /\ signals' = [signals EXCEPT ![Parent] = {}]
    /\ UNCHANGED <<parent, child, cgi, crashes, edges, messages,
                   sub_process_counter, network>>

ParentReaps == ParentSignals(Zombies)

ParentRound ==
    /\ parent = "events" /\ batch[Parent] = {}
    /\ parent' = IF m_stop[Parent] THEN "ended" ELSE "wait"
    /\ UNCHANGED <<child, m_pid, m_stop, cgi, crashes, epoll,
                   sub_process_counter, messages, network>>

-----------------------------------------------------------------------------
(* run_child and cgi_conn.                                                 *)

\* Seeded fault: the loop has no branch for the events of connections.
ChildEpollWaitBlind(i) ==
    /\ child[i] = "wait" /\ child' = [child EXCEPT ![i] = "events"]
    /\ Ready(i) # {}
    /\ batch' = [batch EXCEPT ![i] = Ready(i) \ Clients]
    /\ edges' = [edges EXCEPT ![i] = {}]
    /\ UNCHANGED <<parent, m_pid, m_stop, cgi, crashes, signals, sub_process_counter,
                   messages, network>>

ChildEpollWait(i) ==
    /\ child[i] = "wait" /\ child' = [child EXCEPT ![i] = "events"]
    /\ Fetch(i)
    /\ edges' = [edges EXCEPT ![i] = {}]
    /\ UNCHANGED parent

\* One message is read and one connection accepted; accept on an empty backlog
\* fails and nothing happens.
ChildAccept(i) ==
    /\ child[i] = "events" /\ Handle(i, "pipe")
    /\ messages' = [messages EXCEPT ![i] = @ - 1]
    /\ IF backlog = <<>> THEN UNCHANGED <<backlog, conn, server>>
       ELSE /\ conn' = [conn EXCEPT ![Head(backlog)] = "open"]
            /\ server' = [server EXCEPT ![Head(backlog)] = i]
            /\ backlog' = Tail(backlog)
    /\ UNCHANGED <<family, edges, signals, sub_process_counter, unread, got, fin>>

\* SIGCHLD falls through to SIGTERM: any signal stops the child.
ChildSignals(i) ==
    /\ child[i] = "events" /\ Handle(i, "signal")
    /\ signals' = [signals EXCEPT ![i] = {}]
    /\ m_stop' = [m_stop EXCEPT ![i] = TRUE]
    /\ UNCHANGED <<parent, child, m_pid, cgi, crashes, edges, sub_process_counter,
                   messages, network>>

\* removefd of the connection of c, or what recv has given stays in m_buf.
Removefd(i, c) == Closed({c}) /\ edges' = [edges EXCEPT ![i] = @ \ {c}]
GoOn(c, k) ==
    /\ got' = [got EXCEPT ![c] = @ + k]
    /\ unread' = [unread EXCEPT ![c] = @ - k]
    /\ UNCHANGED <<edges, backlog, conn, server, fin>>

\* cgi_conn::process reads until EAGAIN.  A whole request is answered by a CGI
\* program, or by nothing if it does not exist or fork fails; in both cases, and
\* when the client has closed, the connection is removed.
Process(i, c) ==
    LET complete == got[c] + unread[c] = Pieces[c]
    IN  /\ child[i] = "events" /\ Handle(i, c)
        /\ IF complete \/ fin[c] THEN Removefd(i, c) ELSE GoOn(c, unread[c])
        /\ \/ complete /\ cgi' = [cgi EXCEPT ![i] = @ + 1]
           \/ UNCHANGED cgi
        /\ UNCHANGED <<parent, child, m_pid, m_stop, crashes, signals,
                       sub_process_counter, messages>>

ChildNext(i) ==
    /\ child[i] = "events" /\ batch[i] = {} /\ ~m_stop[i]
    /\ child' = [child EXCEPT ![i] = "wait"]
    /\ UNCHANGED <<parent, m_pid, m_stop, cgi, crashes, epoll,
                   sub_process_counter, messages, network>>

\* run_child returns and the process exits.
ChildEnds(i) ==
    /\ child[i] = "events" /\ batch[i] = {} /\ m_stop[i]
    /\ Die(i)
    /\ UNCHANGED <<parent, m_pid, m_stop, crashes, sub_process_counter>>

ParentStep ==
    \/ (\E i \in Children : Fork(i)) \/ ParentStart \/ ParentEpollWait
    \/ (\E i \in Children : Dispatch(i)) \/ DispatchNone
    \/ ParentReaps \/ ParentRound
ChildStep(i) ==
    \/ ChildStart(i) \/ ChildEpollWait(i) \/ ChildAccept(i) \/ ChildSignals(i)
    \/ (\E c \in Clients : Process(i, c)) \/ ChildNext(i) \/ ChildEnds(i)

Next ==
    \/ ParentStep
    \/ \E i \in Children : ChildStep(i) \/ Crash(i) \/ CgiEnds(i)
    \/ \E c \in Clients : Connect(c) \/ Send(c) \/ Leave(c)
    \/ Terminate

Spec == Init /\ [][Next]_vars

\* Every process is scheduled.  No client, CGI program or user is obliged to act.
FairSpec ==
    /\ Spec
    /\ WF_vars(ParentStep)
    /\ \A i \in Children : WF_vars(ChildStep(i))

-----------------------------------------------------------------------------
(* Properties.                                                             *)

TypeOK ==
    /\ parent \in Running \cup {"fork", "start", "ended"}
    /\ child \in [Children -> Running \cup {"unborn", "start", "dead"}]
    /\ m_pid \in [Children -> {"pid", "-1"}]
    /\ m_stop \in [Processes -> BOOLEAN]
    /\ edges \in [Processes -> SUBSET ({"listen", "signal", "pipe"} \cup Clients)]
    /\ batch \in [Processes -> SUBSET ({"listen", "signal", "pipe"} \cup Clients)]
    /\ signals \in [Processes -> SUBSET {"SIGCHLD", "SIGTERM"}]
    /\ sub_process_counter \in Children
    /\ messages \in [Children -> Nat]
    /\ backlog \in Seq(Clients)
    /\ conn \in [Clients -> {"none", "queued", "open", "closed"}]
    /\ server \in [Clients -> Children]
    /\ \A c \in Clients : unread[c] \in 0..Pieces[c] /\ got[c] \in 0..Pieces[c]
    /\ fin \in [Clients -> BOOLEAN]
    /\ cgi \in [Children -> Nat]
    /\ crashes \in 0..MaxCrashes

\* The parent ends only when every child has ended and has been waited for: no
\* child is left to itself and none stays a zombie (processpool.h:422-430, where
\* m_stop is set and taken back, and 373, where dispatch stops the parent).
ParentOutlivesChildren ==
    parent = "ended" => \A i \in Children : child[i] = "dead" /\ m_pid[i] = "-1"

\* SIGTERM to the parent ends the pool: each child is told or killed, at whatever
\* point of its life it is, and all their ends are noticed although SIGCHLD comes
\* once for several (processpool.h:408, 440-447).  It is not all that the comments
\* at processpool.h:422 and 436-437 promise: when every child has ended before the
\* parent has installed its handlers (processpool.h:335), no SIGCHLD is left to
\* come, the signals sent to zombies bring none, and no SIGTERM ends the parent.
\* Those behaviours, and no others, are taken out.
SomeChildIsHeardOf ==
    [](parent = "start" => \E i \in Children : child[i] # "dead")
TerminationCompletes ==
    SomeChildIsHeardOf => ("SIGTERM" \in signals[Parent] ~> parent = "ended")

\* There are never more announcements than connections that wait: accept finds
\* one, whichever child gets to it first (processpool.h:257, 385).
Announcements == UNION {{i} \X (1..messages[i]) : i \in Children}
AnnouncementsAreTrue == Cardinality(Announcements) <= Len(backlog)

\* A child that has the whole request of a client, or the end of its connection,
\* is done with it in the end, however the request was cut (15_2.cpp:39-87 has to
\* read until EAGAIN, because there is one event for an edge).
EveryRequestHandled ==
    \A c \in Clients :
        conn[c] = "open" /\ (unread[c] + got[c] = Pieces[c] \/ fin[c])
            ~> conn[c] = "closed"
=============================================================================
