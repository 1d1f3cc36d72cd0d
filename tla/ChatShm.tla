------------------------------ MODULE ChatShm ------------------------------
(***************************************************************************)
(* The chat server on shared memory, 13_4.cpp.  The parent accepts a       *)
(* client and forks a child for it.  The child reads what the client says  *)
(* into its segment of the shared memory and announces it to the parent,   *)
(* which passes the announcement on to the other children; these send the  *)
(* segment to their clients.  The parent learns from SIGCHLD that a client *)
(* has left and from SIGTERM that it has to end.  A child is named by its  *)
(* client; a step is one event of a batch or what lies between two.        *)
(***************************************************************************)
EXTENDS Integers, SequencesExt

CONSTANTS
    USER_LIMIT,
    Clients,        \* each connects once
    MaxTexts        \* bound: how often each client says something

ASSUME ChatShmAssumption ==
    /\ USER_LIMIT \in Nat \ {0}
    /\ IsFiniteSet(Clients)
    /\ Clients \cap {"listen", "signal", "conn", "pipe", "parent"} = {}
    /\ MaxTexts \in [Clients -> Nat]

VARIABLES
    parent,         \* where main is
    terminate, stop_server,
    users,          \* the first user_count entries of users[], by client
    sub_process,    \* [Clients -> the position recorded for the child, or -1]
    signals, read,  \* the signal pipe; what main has read of it
    child,          \* [Clients -> where the child is]
    stop_child,
    idx,            \* [Clients -> the number run_child was called with]
    edges, batch,   \* what epoll has to report to a process; its events
    announced,      \* [Clients -> announcements in the pipe to the parent]
    pipe,           \* [Clients -> numbers in the pipe from the parent]
    share_mem,      \* [segments -> whose words it holds, or "blank"]
    conn, unread, fin, said     \* the clients

server == <<parent, terminate, stop_server, users, sub_process>>
sig == <<signals, read>>
kids == <<child, stop_child, idx>>
poll == <<edges, batch>>
pipes == <<announced, pipe>>
clients == <<conn, unread, fin, said>>
vars == <<server, sig, kids, poll, pipes, share_mem, clients>>

user_count == Len(users)
Segments == 0..(USER_LIMIT - 1)
Processes == Clients \cup {"parent"}

Init ==
    /\ parent = "events"
    /\ terminate = FALSE /\ stop_server = FALSE
    /\ users = <<>>
    /\ sub_process = [c \in Clients |-> -1]
    /\ signals = {} /\ read = {}
    /\ child = [c \in Clients |-> "none"]
    /\ stop_child = [c \in Clients |-> FALSE]
    /\ idx = [c \in Clients |-> 0]
    /\ edges = [p \in Processes |-> {}]
    /\ batch = [p \in Processes |-> {}]
    /\ announced = [c \in Clients |-> 0]
    /\ pipe = [c \in Clients |-> <<>>]
    /\ share_mem = [i \in Segments |-> "blank"]
    /\ conn = [c \in Clients |-> "none"]
    /\ unread = [c \in Clients |-> FALSE]
    /\ fin = [c \in Clients |-> FALSE]
    /\ said = [c \in Clients |-> 0]

Listening == {"wait", "events"}     \* has registered its sockets
Alive == {c \in Clients : child[c] \notin {"none", "dead"}}
InUsers(c) == \E i \in 1..user_count : users[i] = c
Edge(p, e) == [edges EXCEPT ![p] = @ \cup {e}]

-----------------------------------------------------------------------------
(* Clients, and the user who ends the server.                              *)

Connect(c) ==
    /\ conn[c] = "none" /\ parent # "ended"
    /\ conn' = [conn EXCEPT ![c] = "queued"]
    /\ edges' = Edge("parent", "listen")
    /\ UNCHANGED <<server, sig, kids, batch, pipes, share_mem, unread, fin, said>>

\* Something arrives on the connection of c.
Arrives(c) ==
    /\ conn[c] = "open" /\ ~fin[c]
    /\ edges' = IF child[c] \in Listening THEN Edge(c, "conn") ELSE edges
    /\ UNCHANGED <<server, sig, kids, batch, pipes, share_mem, conn>>

Say(c) ==
    /\ Arrives(c)
    /\ said[c] < MaxTexts[c] /\ said' = [said EXCEPT ![c] = @ + 1]
    /\ unread' = [unread EXCEPT ![c] = TRUE]
    /\ UNCHANGED fin

Leave(c) ==
    /\ Arrives(c)
    /\ fin' = [fin EXCEPT ![c] = TRUE]
    /\ UNCHANGED <<unread, said>>

\* Bound: once.  The parent can still see it several times, see Kill.
Terminate ==
    /\ parent # "ended" /\ ~terminate /\ ~stop_server
    /\ "SIGTERM" \notin signals \cup read
    /\ signals' = signals \cup {"SIGTERM"}
    /\ edges' = Edge("parent", "signal")
    /\ UNCHANGED <<server, read, kids, batch, pipes, share_mem, clients>>

-----------------------------------------------------------------------------
(* epoll.                                                                  *)

Ready(p) ==
    {e \in edges[p] : \/ e = "listen" /\ \E c \in Clients : conn[c] = "queued"
                      \/ e = "signal" /\ signals # {}
                      \/ e = "conn" /\ (unread[p] \/ fin[p])
                      \/ e = "pipe" /\ (pipe[p] # <<>> \/ parent = "ended")
                      \/ e \in Clients /\ announced[e] > 0}

Fetch(p) ==
    /\ Ready(p) # {}
    /\ batch' = [batch EXCEPT ![p] = Ready(p)]
    /\ edges' = [edges EXCEPT ![p] = {}]
    /\ UNCHANGED <<terminate, stop_server, users, sub_process, sig, stop_child, idx,
                   pipes, share_mem, clients>>

Handle(p, e) ==
    /\ e \in batch[p]
    /\ batch' = [batch EXCEPT ![p] = @ \ {e}]

-----------------------------------------------------------------------------
(* The parent: connections and announcements.                              *)

\* The end of a batch and the next epoll_wait.
EpollWait ==
    /\ parent = "events" /\ batch["parent"] = {} /\ ~stop_server
    /\ Fetch("parent")
    /\ UNCHANGED <<parent, child>>

Listen(c) ==
    /\ parent = "events" /\ Handle("parent", "listen")
    /\ conn[c] = "queued"

\* Seeded fault: the number of users is not tested.
AcceptUnlimited(c) ==
    /\ Listen(c)
    /\ users' = Append(users, c)
    /\ sub_process' = [sub_process EXCEPT ![c] = user_count]
    /\ idx' = [idx EXCEPT ![c] = user_count]
    /\ child' = [child EXCEPT ![c] = "born"]
    /\ conn' = [conn EXCEPT ![c] = "open"]
    /\ UNCHANGED <<parent, terminate, stop_server, sig, stop_child, edges, pipes,
                   share_mem, unread, fin, said>>

Accept(c) ==
    /\ Listen(c)
    /\ user_count < USER_LIMIT
    /\ users' = Append(users, c)
    /\ sub_process' = [sub_process EXCEPT ![c] = user_count]
    /\ idx' = [idx EXCEPT ![c] = user_count]
    /\ child' = [child EXCEPT ![c] = "born"]
    /\ conn' = [conn EXCEPT ![c] = "open"]
    /\ UNCHANGED <<parent, terminate, stop_server, sig, stop_child, edges, pipes,
                   share_mem, unread, fin, said>>

\* Too many users, or fork fails.
Refuse(c) ==
    /\ Listen(c)
    /\ conn' = [conn EXCEPT ![c] = "closed"]
    /\ UNCHANGED <<server, sig, kids, edges, pipes, share_mem, unread, fin, said>>

\* The announcement of c goes to the other children; the pipe of one that has
\* ended takes nothing.  The pipe of c may be closed since the event was fetched.
Relay(c) ==
    LET told == {d \in Clients \ {c} : InUsers(d) /\ child[d] # "dead"}
    IN  /\ parent = "events" /\ Handle("parent", c)
        /\ IF ~InUsers(c) THEN UNCHANGED <<pipes, edges>>
           ELSE /\ announced' = [announced EXCEPT ![c] = @ - 1]
                /\ pipe' = [d \in Clients |->
                       IF d \in told THEN Append(pipe[d], idx[c]) ELSE pipe[d]]
                /\ edges' = [p \in Processes |->
                       IF p \in told /\ child[p] \in Listening
                       THEN edges[p] \cup {"pipe"} ELSE edges[p]]
        /\ UNCHANGED <<server, sig, kids, share_mem, clients>>

-----------------------------------------------------------------------------
(* The parent: signals.                                                    *)

ReadSignals ==
    /\ parent = "events" /\ Handle("parent", "signal")
    /\ parent' = "signals"
    /\ read' = signals /\ signals' = {}
    /\ UNCHANGED <<terminate, stop_server, users, sub_process, kids, edges, pipes,
                   share_mem, clients>>

\* waitpid gives c, whose number is then gone.  The last user takes its place in users[].
Zombie(c) == child[c] = "dead" /\ InUsers(c)
Reaped(c) ==
    /\ parent = "signals" /\ "SIGCHLD" \in read /\ Zombie(c)
    /\ users' = [i \in 1..(user_count - 1) |->
                    IF i = sub_process[c] + 1 THEN Last(users) ELSE users[i]]
    /\ edges' = [edges EXCEPT !["parent"] = @ \ {c}]
    /\ announced' = [announced EXCEPT ![c] = 0]
    /\ idx' = [idx EXCEPT ![c] = 0]
    /\ UNCHANGED <<parent, terminate, stop_server, sig, child, stop_child, batch,
                   pipe, share_mem, clients>>

\* Seeded fault: the position of the user that moves is not recorded.
ReapUnrecorded(c) ==
    /\ Reaped(c)
    /\ sub_process' = [sub_process EXCEPT ![c] = -1]

Reap(c) ==
    /\ Reaped(c)
    /\ sub_process' = [sub_process EXCEPT ![c] = -1, ![Last(users)] = sub_process[c]]

ReapDone ==
    /\ parent = "signals" /\ "SIGCHLD" \in read
    /\ \A c \in Clients : ~Zombie(c)
    /\ stop_server' = (stop_server \/ (terminate /\ user_count = 0))
    /\ read' = read \ {"SIGCHLD"}
    /\ UNCHANGED <<parent, terminate, users, sub_process, signals, kids, poll, pipes,
                   share_mem, clients>>

\* kill of the children.  A child that has not installed its handler has the
\* parent's: the signal comes back to the parent, or is lost when the pipe is
\* closed already.  One that has tested stop_child and is not in epoll_wait yet is
\* not interrupted.
Kill(killed) ==
    LET told == {c \in killed : child[c] \in Listening}
    IN  \E woken \in SUBSET {c \in told : child[c] = "wait"},
           back \in SUBSET {c \in killed : child[c] = "born"} :
            /\ stop_child' = [c \in Clients |-> stop_child[c] \/ c \in told]
            /\ child' = [c \in Clients |-> IF c \in woken THEN "events" ELSE child[c]]
            /\ signals' = IF back = {} THEN signals ELSE signals \cup {"SIGTERM"}
            /\ edges' = IF back = {} THEN edges ELSE Edge("parent", "signal")

Term ==
    /\ parent = "signals" /\ "SIGTERM" \in read
    /\ read' = read \ {"SIGTERM"}
    /\ Kill(ToSet(users))
    /\ stop_server' = (stop_server \/ user_count = 0)
    /\ terminate' = (terminate \/ user_count > 0)
    /\ UNCHANGED <<parent, users, sub_process, idx, batch, pipes, share_mem, clients>>

SignalsDone ==
    /\ parent = "signals" /\ read = {}
    /\ parent' = "events"
    /\ UNCHANGED <<terminate, stop_server, users, sub_process, sig, kids, poll, pipes,
                   share_mem, clients>>

\* The server ends: its ends of the pipes are closed.
Ends ==
    /\ parent = "events" /\ batch["parent"] = {} /\ stop_server
    /\ parent' = "ended"
    /\ edges' = [p \in Processes |->
            IF p = "parent" THEN {}
            ELSE edges[p] \cup IF child[p] \in Listening THEN {"pipe"} ELSE {}]
    /\ announced' = [c \in Clients |-> 0]
    /\ signals' = {}
    /\ UNCHANGED <<terminate, stop_server, users, sub_process, read, kids, batch, pipe,
                   share_mem, clients>>

-----------------------------------------------------------------------------
(* run_child.                                                              *)

ChildAt(c, from, to) ==
    /\ child[c] = from
    /\ child' = [child EXCEPT ![c] = to]

\* Seeded fault: the pipe from the parent is not registered.
ChildStartDeaf(c) ==
    /\ ChildAt(c, "born", "events")
    /\ edges' = [edges EXCEPT ![c] = {"conn"}]
    /\ UNCHANGED <<server, sig, stop_child, idx, batch, pipes, share_mem, clients>>

\* The parent's pipes are closed, the handler is set, the sockets are registered.
ChildStart(c) ==
    /\ ChildAt(c, "born", "events")
    /\ edges' = [edges EXCEPT ![c] = {"conn", "pipe"}]
    /\ UNCHANGED <<server, sig, stop_child, idx, batch, pipes, share_mem, clients>>

\* The end of a batch, or of an epoll_wait that was interrupted.
ChildWhile(c) ==
    /\ batch[c] = {} /\ ~stop_child[c]
    /\ ChildAt(c, "events", "wait")
    /\ UNCHANGED <<server, sig, stop_child, idx, poll, pipes, share_mem, clients>>

ChildEpollWait(c) ==
    /\ ChildAt(c, "wait", "events")
    /\ Fetch(c)
    /\ UNCHANGED parent

\* The client has said something, or has left.
ChildRecv(c) ==
    /\ child[c] = "events" /\ Handle(c, "conn")
    /\ share_mem' = [share_mem EXCEPT ![idx[c]] = IF unread[c] THEN c ELSE "blank"]
    /\ unread' = [unread EXCEPT ![c] = FALSE]
    /\ IF unread[c] /\ parent # "ended"
       THEN /\ announced' = [announced EXCEPT ![c] = @ + 1]
            /\ edges' = Edge("parent", c)
       ELSE UNCHANGED <<announced, edges>>
    /\ stop_child' = [stop_child EXCEPT ![c] = @ \/ ~unread[c]]
    /\ UNCHANGED <<server, sig, child, idx, pipe, conn, fin, said>>

\* The words of another client go to this one; a client that has left resets
\* the connection.
ChildSend(c) ==
    /\ child[c] = "events" /\ Handle(c, "pipe") /\ pipe[c] # <<>>
    /\ pipe' = [pipe EXCEPT ![c] = Tail(@)]
    /\ \E reset \in BOOLEAN : /\ reset => fin[c]
                              /\ edges' = IF reset THEN Edge(c, "conn") ELSE edges
    /\ UNCHANGED <<server, sig, kids, announced, share_mem, clients>>

\* The parent has ended.
ChildPipeEnds(c) ==
    /\ child[c] = "events" /\ Handle(c, "pipe") /\ pipe[c] = <<>>
    /\ stop_child' = [stop_child EXCEPT ![c] = TRUE]
    /\ UNCHANGED <<server, sig, child, idx, edges, pipes, share_mem, clients>>

\* Seeded fault: the parent does not handle SIGCHLD.
ChildEndsUnheard(c) ==
    /\ stop_child[c]
    /\ batch[c] = {}
    /\ ChildAt(c, "events", "dead")
    /\ stop_child' = [stop_child EXCEPT ![c] = FALSE]
    /\ conn' = [conn EXCEPT ![c] = "closed"]
    /\ unread' = [unread EXCEPT ![c] = FALSE]
    /\ fin' = [fin EXCEPT ![c] = FALSE]
    /\ said' = [said EXCEPT ![c] = 0]
    /\ pipe' = [pipe EXCEPT ![c] = <<>>]
    /\ edges' = [edges EXCEPT ![c] = {}]
    /\ UNCHANGED <<server, sig, idx, batch, announced, share_mem>>

\* The process ends: what belonged to it is gone, and the parent gets SIGCHLD.
ChildEnds(c) ==
    LET told == IF parent = "ended" THEN {} ELSE {"SIGCHLD"}
    IN  /\ stop_child[c]
        /\ batch[c] = {}
        /\ ChildAt(c, "events", "dead")
        /\ stop_child' = [stop_child EXCEPT ![c] = FALSE]
        /\ conn' = [conn EXCEPT ![c] = "closed"]
        /\ unread' = [unread EXCEPT ![c] = FALSE]
        /\ fin' = [fin EXCEPT ![c] = FALSE]
        /\ said' = [said EXCEPT ![c] = 0]
        /\ pipe' = [pipe EXCEPT ![c] = <<>>]
        /\ signals' = signals \cup told
        /\ edges' = [edges EXCEPT ![c] = {},
                        !["parent"] = IF told = {} THEN @ ELSE @ \cup {"signal"}]
        /\ UNCHANGED <<server, read, idx, batch, announced, share_mem>>

ParentStep ==
    \/ EpollWait \/ ReadSignals \/ ReapDone \/ Term \/ SignalsDone \/ Ends
    \/ \E c \in Clients : Accept(c) \/ Refuse(c) \/ Relay(c) \/ Reap(c)

ChildStep(c) ==
    \/ ChildStart(c) \/ ChildWhile(c) \/ ChildEpollWait(c) \/ ChildRecv(c)
    \/ ChildSend(c) \/ ChildPipeEnds(c) \/ ChildEnds(c)

Next ==
    \/ ParentStep
    \/ \E c \in Clients : ChildStep(c) \/ Connect(c) \/ Say(c) \/ Leave(c)
    \/ Terminate

Spec == Init /\ [][Next]_vars

\* The server and its children are scheduled; clients and the user need not act.
FairSpec ==
    Spec /\ WF_vars(ParentStep) /\ \A c \in Clients : WF_vars(ChildStep(c))

-----------------------------------------------------------------------------
(* Properties.                                                             *)

TypeOK ==
    /\ parent \in {"events", "signals", "ended"}
    /\ terminate \in BOOLEAN /\ stop_server \in BOOLEAN
    /\ users \in Seq(Clients) /\ user_count <= USER_LIMIT
    /\ sub_process \in [Clients -> Segments \cup {-1}]
    /\ signals \subseteq {"SIGCHLD", "SIGTERM"} /\ read \subseteq {"SIGCHLD", "SIGTERM"}
    /\ child \in [Clients -> Listening \cup {"none", "born", "dead"}]
    /\ stop_child \in [Clients -> BOOLEAN]
    /\ idx \in [Clients -> Segments]
    /\ edges \in [Processes -> SUBSET (Clients \cup {"listen", "signal", "conn", "pipe"})]
    /\ batch \in [Processes -> SUBSET (Clients \cup {"listen", "signal", "conn", "pipe"})]
    /\ \A c \in Clients : announced[c] \in 0..MaxTexts[c] /\ said[c] \in 0..MaxTexts[c]
    /\ pipe \in [Clients -> Seq(Segments)]
    /\ share_mem \in [Segments -> Clients \cup {"blank"}]
    /\ conn \in [Clients -> {"none", "queued", "open", "closed"}]
    /\ unread \in [Clients -> BOOLEAN] /\ fin \in [Clients -> BOOLEAN]

\* users[] and sub_process[] agree although users move when others leave: each
\* child that is not reaped has one place, and the place recorded for it is that
\* one (13_4.cpp:286, 309-317).
TablesAgree ==
    /\ \A c \in Alive : InUsers(c)
    /\ \A i \in 1..user_count : sub_process[users[i]] = i - 1

\* A child that has ended is taken from the tables in the end, although SIGCHLD
\* comes once for several (13_4.cpp:307), unless the server ends.
EndedAreReaped ==
    \A c \in Clients : child[c] = "dead" ~> (~InUsers(c) \/ parent = "ended")

\* No child outlives the server for ever: it sees the end of the pipe although
\* it gets one event for it (13_4.cpp:155).
ChildrenFollow == parent = "ended" ~> Alive = {}
=============================================================================
