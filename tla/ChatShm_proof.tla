--------------------------- MODULE ChatShm_proof ----------------------------
(***************************************************************************)
(* The tables of 13_4.cpp agree and nothing is written outside the shared  *)
(* memory, for any number of clients and places.                           *)
(***************************************************************************)
EXTENDS ChatShm, TLAPS

ChildStates == Listening \cup {"none", "born", "dead"}
ConnStates == {"none", "queued", "open", "closed"}

TablesTyped ==
    /\ users \in Seq(Clients)
    /\ sub_process \in [Clients -> Int]
    /\ child \in [Clients -> ChildStates]
    /\ conn \in [Clients -> ConnStates]

\* Who has not been accepted has no child, and who has no child has no place.
AcceptedFirst ==
    \A c \in Clients : /\ conn[c] \in {"none", "queued"} => child[c] = "none"
                       /\ child[c] = "none" => ~InUsers(c)

IInv == TablesTyped /\ AcceptedFirst /\ TablesAgree

\* What the tables do not tell: the flags, the pipes and the memory.
Events == Clients \cup {"listen", "signal", "conn", "pipe"}
RestTyped ==
    /\ parent \in {"events", "signals", "ended"}
    /\ terminate \in BOOLEAN /\ stop_server \in BOOLEAN
    /\ signals \subseteq {"SIGCHLD", "SIGTERM"} /\ read \subseteq {"SIGCHLD", "SIGTERM"}
    /\ stop_child \in [Clients -> BOOLEAN]
    /\ idx \in [Clients -> Segments]
    /\ edges \in [Processes -> SUBSET Events]
    /\ batch \in [Processes -> SUBSET Events]
    /\ announced \in [Clients -> Nat] /\ said \in [Clients -> Nat]
    /\ pipe \in [Clients -> Seq(Segments)]
    /\ share_mem \in [Segments -> Clients \cup {"blank"}]
    /\ unread \in [Clients -> BOOLEAN] /\ fin \in [Clients -> BOOLEAN]

\* A place in users[] is a segment.
PlacesFit ==
    /\ user_count <= USER_LIMIT
    /\ sub_process \in [Clients -> Segments \cup {-1}]

\* What a client has said is announced once at most, the words still in its socket
\* not yet; only a client with a child has said anything.
WordsOf(c) ==
    /\ announced[c] <= MaxTexts[c] /\ said[c] <= MaxTexts[c]
    /\ child[c] # "dead" => announced[c] + (IF unread[c] THEN 1 ELSE 0) <= said[c]
    /\ child[c] = "none" => said[c] = 0
    /\ conn[c] = "open" => child[c] \notin {"none", "dead"}
WordsCounted == \A c \in Clients : WordsOf(c)

\* Behind an event of a pipe there is an announcement until the event is handled,
\* unless the user is reaped in between.
EventsAnnounce ==
    \A c \in Clients : c \in batch["parent"] =>
        child[c] # "none" /\ (InUsers(c) => announced[c] > 0)

TInv == IInv /\ RestTyped /\ PlacesFit /\ WordsCounted /\ EventsAnnounce

-----------------------------------------------------------------------------

LEMMA Initially == Init => IInv
  <1> SUFFICES ASSUME Init PROVE IInv
    OBVIOUS
  <1>1. users = <<>> /\ Len(users) = 0 /\ users \in Seq(Clients)
    BY DEF Init
  <1>2. TablesTyped
    BY <1>1 DEF Init, TablesTyped, ChildStates, ConnStates
  <1>3. AcceptedFirst /\ TablesAgree
    BY <1>1 DEF Init, AcceptedFirst, TablesAgree, InUsers, Alive, user_count
  <1>4. QED
    BY <1>2, <1>3 DEF IInv

\* A step that leaves the tables alone does no harm as long as no child comes to
\* life and nobody goes back to the queue.
LEMMA TablesUnchanged ==
    ASSUME IInv, users' = users, sub_process' = sub_process,
           child' \in [Clients -> ChildStates], conn' \in [Clients -> ConnStates],
           \A c \in Clients :
               /\ child'[c] = "none" <=> child[c] = "none"
               /\ child[c] = "dead" => child'[c] = "dead"
               /\ conn'[c] \in {"none", "queued"} => conn[c] \in {"none", "queued"}
    PROVE  IInv'
  <1>1. TablesTyped'
    BY DEF IInv, TablesTyped
  <1>2. AcceptedFirst'
    BY DEF IInv, AcceptedFirst, InUsers, user_count
  <1>3. TablesAgree'
    BY DEF IInv, TablesAgree, InUsers, Alive, user_count
  <1>4. QED
    BY <1>1, <1>2, <1>3 DEF IInv

\* Nobody's child and nobody's connection changes.
LEMMA NothingChanged ==
    ASSUME IInv, UNCHANGED <<users, sub_process, child, conn>>
    PROVE  IInv'
  BY TablesUnchanged DEF IInv, TablesTyped

\* The child of c goes on, or its connection.
LEMMA OneChanged ==
    ASSUME IInv, NEW c \in Clients, users' = users, sub_process' = sub_process,
           NEW to \in Listening \cup {"dead"}, NEW at \in {"queued", "closed"},
           \/ UNCHANGED child
           \/ child' = [child EXCEPT ![c] = to] /\ child[c] \notin {"none", "dead"},
           \/ UNCHANGED conn
           \/ conn' = [conn EXCEPT ![c] = at]
              /\ (at = "queued" => conn[c] = "none")
    PROVE  IInv'
  <1>1. child' \in [Clients -> ChildStates] /\ conn' \in [Clients -> ConnStates]
    BY DEF IInv, TablesTyped, ChildStates, ConnStates
  <1>2. ASSUME NEW d \in Clients
        PROVE  /\ child'[d] = "none" <=> child[d] = "none"
               /\ child[d] = "dead" => child'[d] = "dead"
               /\ conn'[d] \in {"none", "queued"} => conn[d] \in {"none", "queued"}
    BY DEF IInv, TablesTyped, Listening
  <1>3. QED
    BY <1>1, <1>2, TablesUnchanged

-----------------------------------------------------------------------------
(* The two steps that change the tables.                                   *)

LEMMA AcceptPreserves ==
    ASSUME IInv, NEW c \in Clients, Accept(c)
    PROVE  IInv'
  <1> DEFINE n == Len(users)
  <1>1. TablesTyped /\ AcceptedFirst /\ TablesAgree /\ conn[c] = "queued"
    BY DEF IInv, Accept, Listen
  <1>2. child[c] = "none" /\ ~InUsers(c)
    BY <1>1 DEF AcceptedFirst
  <1>3. /\ users' = Append(users, c)
        /\ sub_process' = [sub_process EXCEPT ![c] = n]
        /\ child' = [child EXCEPT ![c] = "born"]
        /\ conn' = [conn EXCEPT ![c] = "open"]
    BY DEF Accept, user_count
  <1>4. n \in Nat /\ users' \in Seq(Clients) /\ Len(users') = n + 1
        /\ users'[n + 1] = c /\ \A i \in 1..n : users'[i] = users[i]
    BY <1>1, <1>3 DEF TablesTyped
  <1> HIDE DEF n
  <1>5. TablesTyped'
    BY <1>1, <1>3, <1>4 DEF TablesTyped, ChildStates, ConnStates
  <1>6. \A d \in Clients : InUsers(d)' <=> InUsers(d) \/ d = c
    BY <1>4 DEF InUsers, n, user_count
  <1>7. AcceptedFirst'
    BY <1>1, <1>3, <1>6 DEF AcceptedFirst, TablesTyped
  <1>8. \A d \in Alive' : InUsers(d)'
    BY <1>1, <1>3, <1>6 DEF TablesAgree, TablesTyped, Alive, user_count
  <1>9. ASSUME NEW i \in 1..(n + 1)
        PROVE  sub_process'[users'[i]] = i - 1
    <2>1. CASE i = n + 1
      BY <1>1, <1>3, <1>4, <2>1 DEF TablesTyped
    <2>2. CASE i \in 1..n
      <3>1. users'[i] = users[i] /\ users[i] # c /\ users[i] \in Clients
        BY <1>1, <1>2, <1>4, <2>2 DEF InUsers, TablesTyped, n, user_count
      <3>2. sub_process[users[i]] = i - 1
        BY <1>1, <2>2 DEF TablesAgree, n, user_count
      <3>3. QED
        BY <1>1, <1>3, <3>1, <3>2 DEF TablesTyped
    <2>3. QED
      BY <1>4, <2>1, <2>2
  <1>10. QED
    BY <1>4, <1>5, <1>7, <1>8, <1>9 DEF IInv, TablesAgree, user_count

\* The last user takes the place of the one that is reaped.
LEMMA ReapPreserves ==
    ASSUME IInv, NEW c \in Clients, Reap(c)
    PROVE  IInv'
  <1> DEFINE n == Len(users)
             last == users[n]
  <1>1. TablesTyped /\ AcceptedFirst /\ TablesAgree
    BY DEF IInv
  <1>2. child[c] = "dead" /\ InUsers(c)
    BY DEF Reap, Reaped, Zombie
  <1>3. PICK p \in 1..n : users[p] = c
    BY <1>2 DEF InUsers, user_count
  <1>4. n \in Nat \ {0} /\ last \in Clients /\ Last(users) = last
        /\ \A i \in 1..n : users[i] \in Clients
    BY <1>1, <1>3 DEF TablesTyped, Last
  <1>5. \A i \in 1..n : sub_process[users[i]] = i - 1
    BY <1>1 DEF TablesAgree, user_count
  <1>6. sub_process[c] + 1 = p
    BY <1>3, <1>4, <1>5
  <1>7. /\ users' = [i \in 1..(n - 1) |-> IF i = p THEN last ELSE users[i]]
        /\ sub_process' = [sub_process EXCEPT ![c] = -1, ![last] = p - 1]
        /\ child' = child /\ conn' = conn
    BY <1>3, <1>4, <1>5, <1>6 DEF Reap, Reaped, clients, user_count
  <1>8. users' \in Seq(Clients) /\ Len(users') = n - 1
        /\ \A i \in 1..(n - 1) : users'[i] = IF i = p THEN last ELSE users[i]
    BY <1>4, <1>7
  <1> HIDE DEF n, last
  <1>9. TablesTyped'
    BY <1>1, <1>4, <1>7, <1>8 DEF TablesTyped
  <1>10. ASSUME NEW d \in Clients, InUsers(d)'
         PROVE  InUsers(d)
    <2>1. PICK i \in 1..(n - 1) : users'[i] = d
      BY <1>8, <1>10 DEF InUsers, user_count
    <2>2. d = users[i] \/ d = last
      BY <1>8, <2>1
    <2>3. QED
      BY <1>4, <2>2 DEF InUsers, n, last, user_count
  <1>11. AcceptedFirst'
    BY <1>1, <1>7, <1>10 DEF AcceptedFirst
  <1>12. ASSUME NEW d \in Alive'
         PROVE  InUsers(d)'
    <2>1. d \in Clients /\ d # c /\ InUsers(d)
      BY <1>1, <1>2, <1>7, <1>12 DEF Alive, TablesAgree, user_count
    <2>2. PICK j \in 1..n : users[j] = d
      BY <2>1 DEF InUsers, n, user_count
    <2>3. j # p
      BY <1>3, <2>1, <2>2
    <2>4. CASE j \in 1..(n - 1)
      BY <1>8, <2>2, <2>3, <2>4 DEF InUsers, user_count
    <2>5. CASE j = n
      <3>1. p \in 1..(n - 1) /\ users'[p] = d
        BY <1>4, <1>8, <2>2, <2>3, <2>5 DEF last
      <3>2. QED
        BY <1>8, <3>1 DEF InUsers, user_count
    <2>6. QED
      BY <1>4, <2>4, <2>5
  <1>13. ASSUME NEW i \in 1..(n - 1)
         PROVE  sub_process'[users'[i]] = i - 1
    <2>1. CASE i = p
      BY <1>1, <1>4, <1>7, <1>8, <2>1 DEF TablesTyped
    <2>2. CASE i # p
      <3>1. users'[i] = users[i] /\ i \in 1..n /\ i # n /\ users[i] \in Clients
        BY <1>4, <1>8, <2>2
      <3>2. users[i] # c /\ users[i] # last
        BY <1>3, <1>4, <1>5, <2>2, <3>1 DEF last
      <3>3. QED
        BY <1>1, <1>4, <1>5, <1>7, <3>1, <3>2 DEF TablesTyped
    <2>3. QED
      BY <2>1, <2>2
  <1>14. QED
    BY <1>8, <1>9, <1>11, <1>12, <1>13 DEF IInv, TablesAgree, user_count

-----------------------------------------------------------------------------
(* The other steps.                                                        *)

LEMMA TermPreserves ==
    ASSUME IInv, Term
    PROVE  IInv'
  <1> DEFINE told == {c \in ToSet(users) : child[c] \in Listening}
  <1>1. PICK woken \in SUBSET {c \in told : child[c] = "wait"} :
            child' = [c \in Clients |-> IF c \in woken THEN "events" ELSE child[c]]
    BY DEF Term, Kill
  <1>2. child' \in [Clients -> ChildStates]
        /\ \A c \in Clients : /\ child'[c] = "none" <=> child[c] = "none"
                              /\ child[c] = "dead" => child'[c] = "dead"
    BY <1>1 DEF IInv, TablesTyped, ChildStates, Listening
  <1>3. users' = users /\ sub_process' = sub_process /\ conn' = conn
    BY DEF Term, clients
  <1>4. QED
    BY <1>2, <1>3, TablesUnchanged DEF IInv, TablesTyped

LEMMA ParentStepPreserves ==
    ASSUME IInv, ParentStep
    PROVE  IInv'
  <1>1. CASE EpollWait \/ ReadSignals \/ ReapDone \/ SignalsDone \/ Ends
    BY <1>1, NothingChanged
    DEF EpollWait, Fetch, ReadSignals, ReapDone, SignalsDone, Ends,
        kids, clients
  <1>2. ASSUME NEW c \in Clients, Relay(c) PROVE IInv'
    BY <1>2, NothingChanged DEF Relay, server, kids, clients
  <1>3. ASSUME NEW c \in Clients, Refuse(c) PROVE IInv'
    <2>1. UNCHANGED <<users, sub_process, child>>
          /\ conn' = [conn EXCEPT ![c] = "closed"]
      BY <1>3 DEF Refuse, server, kids
    <2>2. "dead" \in Listening \cup {"dead"} /\ "closed" \in {"queued", "closed"}
      OBVIOUS
    <2>3. QED
      BY <2>1, <2>2, OneChanged
  <1>4. QED
    BY <1>1, <1>2, <1>3, AcceptPreserves, ReapPreserves, TermPreserves DEF ParentStep

LEMMA ChildStepPreserves ==
    ASSUME IInv, NEW c \in Clients, ChildStep(c)
    PROVE  IInv'
  <1>1. CASE ChildRecv(c) \/ ChildSend(c) \/ ChildPipeEnds(c)
    BY <1>1, NothingChanged
    DEF ChildRecv, ChildSend, ChildPipeEnds, server, kids, clients
  <1>2. CASE ChildStart(c) \/ ChildWhile(c) \/ ChildEpollWait(c) \/ ChildEnds(c)
    <2>1. PICK to \in Listening \cup {"dead"} :
              child' = [child EXCEPT ![c] = to] /\ child[c] \notin {"none", "dead"}
      BY <1>2
      DEF ChildStart, ChildWhile, ChildEpollWait, ChildEnds, ChildAt, Listening
    <2>2. UNCHANGED <<users, sub_process>>
          /\ (UNCHANGED conn \/ conn' = [conn EXCEPT ![c] = "closed"])
      BY <1>2
      DEF ChildStart, ChildWhile, ChildEpollWait, ChildEnds, Fetch, server, clients
    <2>3. "closed" \in {"queued", "closed"} /\ "closed" # "queued"
      OBVIOUS
    <2>4. QED
      BY <2>1, <2>2, <2>3, OneChanged
  <1>3. QED
    BY <1>1, <1>2 DEF ChildStep

LEMMA ClientStepPreserves ==
    ASSUME IInv, NEW c \in Clients, Connect(c) \/ Say(c) \/ Leave(c)
    PROVE  IInv'
  <1>1. CASE Connect(c)
    <2>1. UNCHANGED <<users, sub_process, child>> /\ conn[c] = "none"
          /\ conn' = [conn EXCEPT ![c] = "queued"]
      BY <1>1 DEF Connect, server, kids
    <2>2. "dead" \in Listening \cup {"dead"} /\ "queued" \in {"queued", "closed"}
      OBVIOUS
    <2>3. QED
      BY <2>1, <2>2, OneChanged
  <1>2. CASE Say(c) \/ Leave(c)
    BY <1>2, NothingChanged DEF Say, Leave, Arrives, server, kids
  <1>3. QED
    BY <1>1, <1>2

LEMMA Inductive == IInv /\ [Next]_vars => IInv'
  <1> SUFFICES ASSUME IInv, [Next]_vars PROVE IInv'
    OBVIOUS
  <1>1. CASE Terminate
    BY <1>1, NothingChanged DEF Terminate, server, kids, clients
  <1>2. CASE UNCHANGED vars
    BY <1>2, NothingChanged DEF vars, server, kids, clients
  <1>3. QED
    BY <1>1, <1>2, ParentStepPreserves, ChildStepPreserves, ClientStepPreserves DEF Next

LEMMA Invariance == Spec => []IInv
  BY Initially, Inductive, PTL DEF Spec

-----------------------------------------------------------------------------
(* The theorem.                                                            *)

\* users[] and sub_process[] agree whoever comes and leaves, in whatever order
\* children end and are waited for (13_4.cpp:286, 309-317).
THEOREM TablesInvariance == Spec => []TablesAgree
  <1>1. IInv => TablesAgree
    BY DEF IInv
  <1>2. QED
    BY Invariance, <1>1, PTL

-----------------------------------------------------------------------------
(* The types and the counts.                                               *)

LEMMA ProcessesDistinct ==
    /\ "parent" \in Processes /\ "parent" \notin Clients /\ Clients \subseteq Processes
    /\ "listen" \in Events /\ "signal" \in Events /\ "conn" \in Events
    /\ "pipe" \in Events /\ Clients \subseteq Events
    /\ 0 \in Segments /\ USER_LIMIT \in Nat \ {0} /\ MaxTexts \in [Clients -> Nat]
  BY ChatShmAssumption DEF Processes, Events, Segments

LEMMA RestInitially == Init => TInv
  <1> SUFFICES ASSUME Init PROVE TInv
    OBVIOUS
  <1>1. users = <<>> /\ Len(users) = 0
    BY DEF Init
  <1>2. RestTyped
    <2>1. <<>> \in Seq(Segments)
      OBVIOUS
    <2>2. pipe \in [Clients -> Seq(Segments)]
      BY <2>1 DEF Init
    <2>3. QED
      BY <2>2, ProcessesDistinct DEF Init, RestTyped
  <1>3. PlacesFit /\ WordsCounted /\ EventsAnnounce
    BY <1>1, ProcessesDistinct
    DEF Init, PlacesFit, WordsCounted, WordsOf, EventsAnnounce, user_count
  <1>4. QED
    BY <1>2, <1>3, Initially DEF TInv

\* What epoll reports are events.
LEMMA FetchTyped ==
    ASSUME RestTyped, NEW p \in Processes, Fetch(p)
    PROVE  /\ edges' \in [Processes -> SUBSET Events]
           /\ batch' \in [Processes -> SUBSET Events]
  BY DEF RestTyped, Fetch, Ready

LEMMA ParentTyped ==
    ASSUME TInv, ParentStep
    PROVE  RestTyped'
  <1> USE DEF TInv, RestTyped
  <1>1. CASE EpollWait
    BY <1>1, FetchTyped, ProcessesDistinct
    DEF EpollWait, Fetch, sig, pipes, clients
  <1>2. CASE ReadSignals
    BY <1>2, ProcessesDistinct DEF ReadSignals, Handle, kids, pipes, clients
  <1>3. CASE ReapDone
    BY <1>3 DEF ReapDone, kids, poll, pipes, clients
  <1>4. CASE SignalsDone
    BY <1>4 DEF SignalsDone, sig, kids, poll, pipes, clients
  <1>5. CASE Term
    <2> DEFINE told == {c \in ToSet(users) : child[c] \in Listening}
    <2>1. PICK back \in SUBSET {c \in ToSet(users) : child[c] = "born"} :
              /\ stop_child' = [c \in Clients |-> stop_child[c] \/ c \in told]
              /\ signals' = IF back = {} THEN signals ELSE signals \cup {"SIGTERM"}
              /\ edges' = IF back = {} THEN edges ELSE Edge("parent", "signal")
      BY <1>5 DEF Term, Kill
    <2>2. /\ UNCHANGED <<parent, users, sub_process, idx, batch, pipes, share_mem, clients>>
          /\ read' = read \ {"SIGTERM"}
          /\ stop_server' = (stop_server \/ user_count = 0)
          /\ terminate' = (terminate \/ user_count > 0)
      BY <1>5 DEF Term
    <2>3. edges' \in [Processes -> SUBSET Events]
      BY <2>1, ProcessesDistinct DEF Edge
    <2>4. stop_child' \in [Clients -> BOOLEAN]
      BY <2>1
    <2>5. QED
      BY <2>1, <2>2, <2>3, <2>4 DEF pipes, clients
  <1>6. CASE Ends
    BY <1>6, ProcessesDistinct DEF Ends, kids, clients
  <1>7. ASSUME NEW c \in Clients, Accept(c) PROVE RestTyped'
    <2>1. user_count \in Segments
      BY <1>7, ProcessesDistinct DEF Accept, Segments, user_count, IInv, TablesTyped
    <2>2. QED
      BY <1>7, <2>1, ProcessesDistinct DEF Accept, Listen, Handle, sig, pipes
  <1>8. ASSUME NEW c \in Clients, Refuse(c) PROVE RestTyped'
    BY <1>8, ProcessesDistinct DEF Refuse, Listen, Handle, server, sig, kids, pipes
  <1>9. ASSUME NEW c \in Clients, Relay(c) PROVE RestTyped'
    <2>1. UNCHANGED <<server, sig, kids, share_mem, clients>> /\ Handle("parent", c)
      BY <1>9 DEF Relay
    <2>2. batch' \in [Processes -> SUBSET Events]
      BY <2>1, ProcessesDistinct DEF Handle
    <2>3. CASE ~InUsers(c)
      BY <1>9, <2>1, <2>2, <2>3 DEF Relay, server, sig, kids, pipes, clients
    <2>4. CASE InUsers(c)
      <3> DEFINE told == {d \in Clients \ {c} : InUsers(d) /\ child[d] # "dead"}
      <3>1. announced' = [announced EXCEPT ![c] = @ - 1] /\ announced[c] > 0
        BY <1>9, <2>1, <2>4 DEF Relay, Handle, EventsAnnounce
      <3>2. pipe' = [d \in Clients |->
                IF d \in told THEN Append(pipe[d], idx[c]) ELSE pipe[d]]
        BY <1>9, <2>4 DEF Relay
      <3>3. edges' = [p \in Processes |->
                IF p \in told /\ child[p] \in Listening
                THEN edges[p] \cup {"pipe"} ELSE edges[p]]
        BY <1>9, <2>4 DEF Relay
      <3> HIDE DEF told
      <3>4. announced' \in [Clients -> Nat]
        BY <3>1
      <3>5. pipe' \in [Clients -> Seq(Segments)]
        <4>1. \A d \in Clients : Append(pipe[d], idx[c]) \in Seq(Segments)
          OBVIOUS
        <4>2. QED
          BY <3>2, <4>1
      <3>6. edges' \in [Processes -> SUBSET Events]
        BY <3>3, ProcessesDistinct
      <3>7. QED
        BY <2>1, <2>2, <3>4, <3>5, <3>6 DEF server, sig, kids, clients
    <2>5. QED
      BY <2>3, <2>4
  <1>10. ASSUME NEW c \in Clients, Reap(c) PROVE RestTyped'
    BY <1>10, ProcessesDistinct DEF Reap, Reaped, sig, clients
  <1>11. QED
    BY <1>1, <1>2, <1>5, <1>6, <1>7, <1>8, <1>9, <1>10, <1>3, <1>4 DEF ParentStep

LEMMA ChildTyped ==
    ASSUME TInv, NEW c \in Clients, ChildStep(c)
    PROVE  RestTyped'
  <1> USE DEF TInv, RestTyped
  <1>1. CASE ChildStart(c)
    BY <1>1, ProcessesDistinct DEF ChildStart, server, sig, pipes, clients
  <1>2. CASE ChildWhile(c)
    BY <1>2 DEF ChildWhile, server, sig, poll, pipes, clients
  <1>3. CASE ChildEpollWait(c)
    BY <1>3, FetchTyped, ProcessesDistinct
    DEF ChildEpollWait, Fetch, sig, pipes, clients
  <1>4. CASE ChildRecv(c)
    <2>1. batch' \in [Processes -> SUBSET Events]
      BY <1>4, ProcessesDistinct DEF ChildRecv, Handle
    <2>2. share_mem' \in [Segments -> Clients \cup {"blank"}]
          /\ unread' \in [Clients -> BOOLEAN] /\ stop_child' \in [Clients -> BOOLEAN]
      BY <1>4 DEF ChildRecv
    <2>3. announced' \in [Clients -> Nat] /\ edges' \in [Processes -> SUBSET Events]
      <3>1. CASE unread[c] /\ parent # "ended"
        <4>1. announced' = [announced EXCEPT ![c] = announced[c] + 1]
              /\ edges' = Edge("parent", c)
          BY <1>4, <3>1 DEF ChildRecv
        <4>2. QED
          BY <4>1, ProcessesDistinct DEF Edge
      <3>2. CASE ~(unread[c] /\ parent # "ended")
        BY <1>4, <3>2 DEF ChildRecv
      <3>3. QED
        BY <3>1, <3>2
    <2>4. QED
      BY <1>4, <2>1, <2>2, <2>3 DEF ChildRecv, server, sig
  <1>5. CASE ChildSend(c)
    <2>1. batch' \in [Processes -> SUBSET Events]
          /\ edges' \in [Processes -> SUBSET Events]
      BY <1>5, ProcessesDistinct DEF ChildSend, Handle, Edge
    <2>2. pipe[c] \in Seq(Segments) /\ pipe[c] # <<>>
          /\ pipe' = [pipe EXCEPT ![c] = Tail(pipe[c])]
      BY <1>5 DEF ChildSend
    <2>3. Tail(pipe[c]) \in Seq(Segments)
      BY <2>2
    <2>4. pipe' \in [Clients -> Seq(Segments)]
      BY <2>2, <2>3
    <2>5. QED
      BY <1>5, <2>1, <2>4 DEF ChildSend, server, sig, kids, clients
  <1>6. CASE ChildPipeEnds(c)
    BY <1>6, ProcessesDistinct
    DEF ChildPipeEnds, Handle, server, sig, pipes, clients
  <1>7. CASE ChildEnds(c)
    <2>1. <<>> \in Seq(Segments)
      OBVIOUS
    <2>2. pipe' \in [Clients -> Seq(Segments)] /\ said' \in [Clients -> Nat]
          /\ stop_child' \in [Clients -> BOOLEAN] /\ unread' \in [Clients -> BOOLEAN]
          /\ fin' \in [Clients -> BOOLEAN]
      BY <1>7, <2>1 DEF ChildEnds
    <2>3. edges' \in [Processes -> SUBSET Events]
          /\ signals' \subseteq {"SIGCHLD", "SIGTERM"}
      BY <1>7, ProcessesDistinct DEF ChildEnds
    <2>4. QED
      BY <1>7, <2>2, <2>3 DEF ChildEnds, server
  <1>8. QED
    BY <1>1, <1>3, <1>4, <1>5, <1>6, <1>7, <1>2 DEF ChildStep

LEMMA RestTypedStep ==
    ASSUME TInv, [Next]_vars
    PROVE  RestTyped'
  <1> USE DEF TInv, RestTyped
  <1>1. ASSUME NEW c \in Clients, Connect(c) PROVE RestTyped'
    BY <1>1, ProcessesDistinct DEF Connect, Edge, server, sig, kids, pipes
  <1>2. ASSUME NEW c \in Clients, Arrives(c)
        PROVE  /\ edges' \in [Processes -> SUBSET Events]
               /\ UNCHANGED <<server, sig, kids, batch, pipes, share_mem>>
    BY <1>2, ProcessesDistinct DEF Arrives, Edge
  <1>3. ASSUME NEW c \in Clients, Say(c) PROVE RestTyped'
    <2>1. Arrives(c) /\ said' \in [Clients -> Nat] /\ unread' \in [Clients -> BOOLEAN]
          /\ fin' = fin
      BY <1>3 DEF Say
    <2>2. QED
      BY <1>2, <2>1 DEF server, sig, kids, pipes
  <1>4. ASSUME NEW c \in Clients, Leave(c) PROVE RestTyped'
    <2>1. Arrives(c) /\ said' = said /\ unread' = unread /\ fin' \in [Clients -> BOOLEAN]
      BY <1>4 DEF Leave
    <2>2. QED
      BY <1>2, <2>1 DEF server, sig, kids, pipes
  <1>5. CASE Terminate
    BY <1>5, ProcessesDistinct DEF Terminate, Edge, server, kids, pipes, clients
  <1>6. CASE UNCHANGED vars
    BY <1>6 DEF vars, server, sig, kids, poll, pipes, clients
  <1>7. QED
    BY <1>1, <1>5, <1>6, <1>3, <1>4, ParentTyped, ChildTyped DEF Next

LEMMA PlacesStep ==
    ASSUME TInv, [Next]_vars
    PROVE  PlacesFit'
  <1> USE DEF TInv, PlacesFit, user_count
  <1>1. ASSUME UNCHANGED <<users, sub_process>> PROVE PlacesFit'
    BY <1>1
  <1>2. ASSUME NEW c \in Clients, Accept(c) PROVE PlacesFit'
    <2>1. Len(users) \in Nat /\ Len(users) < USER_LIMIT /\ users' = Append(users, c)
          /\ sub_process' = [sub_process EXCEPT ![c] = Len(users)]
      BY <1>2 DEF Accept, IInv, TablesTyped
    <2>2. Len(users') = Len(users) + 1
      BY <2>1 DEF IInv, TablesTyped
    <2>3. QED
      BY <2>1, <2>2, ProcessesDistinct DEF Segments
  <1>3. ASSUME NEW c \in Clients, Reap(c) PROVE PlacesFit'
    <2>1. PICK i \in 1..Len(users) : users[i] = c
      BY <1>3 DEF Reap, Reaped, Zombie, InUsers
    <2>2. sub_process[c] = i - 1 /\ Len(users) \in Nat \ {0}
      BY <2>1 DEF IInv, TablesTyped, TablesAgree
    <2>3. sub_process[c] \in Segments
      BY <2>1, <2>2, ProcessesDistinct DEF Segments
    <2>4. sub_process' = [sub_process EXCEPT ![c] = -1, ![Last(users)] = sub_process[c]]
      BY <1>3 DEF Reap
    <2>5. users' = [j \in 1..(Len(users) - 1) |->
                        IF j = sub_process[c] + 1 THEN Last(users) ELSE users[j]]
      BY <1>3 DEF Reap, Reaped
    <2>6. Len(users') = Len(users) - 1
      BY <2>2, <2>5
    <2>7. sub_process' \in [Clients -> Segments \cup {-1}]
      BY <2>3, <2>4
    <2>8. QED
      BY <2>2, <2>6, <2>7, ProcessesDistinct
  <1>4. CASE EpollWait \/ ReadSignals \/ ReapDone \/ Term \/ SignalsDone \/ Ends
    BY <1>1, <1>4
    DEF EpollWait, Fetch, ReadSignals, ReapDone, Term, SignalsDone, Ends
  <1>5. ASSUME NEW c \in Clients, Refuse(c) \/ Relay(c) PROVE PlacesFit'
    BY <1>1, <1>5 DEF Refuse, Relay, server
  <1>6. ASSUME NEW c \in Clients, ChildStep(c) PROVE PlacesFit'
    BY <1>1, <1>6
    DEF ChildStep, ChildStart, ChildWhile, ChildEpollWait, ChildRecv, ChildSend,
        ChildPipeEnds, ChildEnds, Fetch, server
  <1>7. CASE Terminate \/ UNCHANGED vars
             \/ \E c \in Clients : Connect(c) \/ Say(c) \/ Leave(c)
    BY <1>1, <1>7 DEF Terminate, vars, Connect, Say, Leave, Arrives, server
  <1>8. QED
    BY <1>2, <1>3, <1>4, <1>5, <1>6, <1>7 DEF Next, ParentStep

\* Nobody says anything, and nothing that was said is read or announced.
LEMMA WordsUnchanged ==
    ASSUME WordsCounted, UNCHANGED <<announced, unread, said>>,
           \A c \in Clients :
               /\ child[c] = "dead" => child'[c] = "dead"
               /\ child'[c] = "none" => child[c] = "none"
               /\ conn'[c] = "open" => child'[c] \notin {"none", "dead"}
    PROVE  WordsCounted'
  BY DEF WordsCounted, WordsOf

\* Only c says something, is read or announced, comes or leaves.
LEMMA WordsOfOne ==
    ASSUME WordsCounted, NEW c \in Clients, WordsOf(c)',
           \A d \in Clients \ {c} :
               /\ announced'[d] = announced[d] /\ said'[d] = said[d]
               /\ unread'[d] = unread[d] /\ child'[d] = child[d] /\ conn'[d] = conn[d]
    PROVE  WordsCounted'
  <1> SUFFICES ASSUME NEW d \in Clients PROVE WordsOf(d)'
    BY DEF WordsCounted
  <1>1. CASE d = c
    BY <1>1
  <1>2. CASE d # c
    BY <1>2 DEF WordsCounted, WordsOf
  <1>3. QED
    BY <1>1, <1>2

LEMMA WordsStep ==
    ASSUME TInv, [Next]_vars
    PROVE  WordsCounted'
  <1> USE DEF TInv
  <1>1. ASSUME UNCHANGED <<announced, unread, said, child, conn>> PROVE WordsCounted'
    BY <1>1, WordsUnchanged DEF WordsCounted, WordsOf
  <1>2. CASE EpollWait \/ ReadSignals \/ ReapDone \/ SignalsDone
    BY <1>1, <1>2
    DEF EpollWait, Fetch, ReadSignals, ReapDone, SignalsDone,
        kids, pipes, clients
  <1>3. CASE Term
    <2> DEFINE told == {c \in ToSet(users) : child[c] \in Listening}
    <2>1. PICK woken \in SUBSET {c \in told : child[c] = "wait"} :
              child' = [c \in Clients |-> IF c \in woken THEN "events" ELSE child[c]]
      BY <1>3 DEF Term, Kill
    <2>2. UNCHANGED <<announced, unread, said, conn>>
      BY <1>3 DEF Term, pipes, clients
    <2>3. QED
      BY <2>1, <2>2, WordsUnchanged DEF WordsCounted, WordsOf
  <1>4. CASE Ends
    <2>1. UNCHANGED <<unread, said, child, conn>>
          /\ announced' = [c \in Clients |-> 0]
      BY <1>4 DEF Ends, kids, clients
    <2>2. QED
      BY <2>1, ProcessesDistinct DEF WordsCounted, WordsOf, RestTyped
  <1>5. ASSUME NEW c \in Clients, Accept(c) PROVE WordsCounted'
    <2>1. /\ UNCHANGED <<announced, unread, said>>
          /\ child' = [child EXCEPT ![c] = "born"] /\ conn' = [conn EXCEPT ![c] = "open"]
          /\ conn[c] = "queued"
      BY <1>5 DEF Accept, Listen, pipes
    <2>2. child[c] = "none"
      BY <2>1 DEF IInv, AcceptedFirst
    <2>3. QED
      BY <2>1, <2>2, WordsUnchanged DEF WordsCounted, WordsOf, IInv, TablesTyped
  <1>6. ASSUME NEW c \in Clients, Refuse(c) PROVE WordsCounted'
    <2>1. UNCHANGED <<announced, unread, said, child>>
          /\ conn' = [conn EXCEPT ![c] = "closed"]
      BY <1>6 DEF Refuse, kids, pipes
    <2>2. QED
      BY <2>1, WordsUnchanged DEF WordsCounted, WordsOf, IInv, TablesTyped
  <1>7. ASSUME NEW c \in Clients, NEW n \in Nat, n <= announced[c],
               announced' = [announced EXCEPT ![c] = n],
               UNCHANGED <<unread, said, child, conn>>
        PROVE  WordsCounted'
    <2>1. WordsOf(c)'
      <3>1. announced'[c] = n /\ announced[c] \in Nat /\ said[c] \in Nat
            /\ MaxTexts[c] \in Nat
        BY <1>7, ProcessesDistinct DEF RestTyped
      <3>2. WordsOf(c)
        BY DEF WordsCounted
      <3>3. QED
        BY <1>7, <3>1, <3>2 DEF WordsOf
    <2>2. \A d \in Clients \ {c} : announced'[d] = announced[d]
      BY <1>7 DEF RestTyped
    <2>3. QED
      BY <1>7, <2>1, <2>2, WordsOfOne
  <1>8. ASSUME NEW c \in Clients, Relay(c) PROVE WordsCounted'
    <2>1. UNCHANGED <<unread, said, child, conn>>
      BY <1>8 DEF Relay, kids, clients
    <2>2. CASE ~InUsers(c)
      BY <1>1, <1>8, <2>1, <2>2 DEF Relay, pipes
    <2>3. CASE InUsers(c)
      <3>1. announced' = [announced EXCEPT ![c] = announced[c] - 1] /\ announced[c] > 0
        BY <1>8, <2>3 DEF Relay, Handle, EventsAnnounce
      <3>2. announced[c] - 1 \in Nat /\ announced[c] - 1 <= announced[c]
        BY <3>1 DEF RestTyped
      <3>3. QED
        BY <1>7, <2>1, <3>1, <3>2
    <2>4. QED
      BY <2>2, <2>3
  <1>9. ASSUME NEW c \in Clients, Reap(c) PROVE WordsCounted'
    <2>1. UNCHANGED <<unread, said, child, conn>>
          /\ announced' = [announced EXCEPT ![c] = 0] /\ 0 <= announced[c]
      BY <1>9 DEF Reap, Reaped, clients, RestTyped
    <2>2. QED
      BY <1>7, <2>1
  <1>10. ASSUME NEW c \in Clients, ChildStart(c) \/ ChildWhile(c) \/ ChildEpollWait(c)
         PROVE  WordsCounted'
    <2>1. PICK to \in Listening :
              child' = [child EXCEPT ![c] = to] /\ child[c] \notin {"none", "dead"}
      BY <1>10 DEF ChildStart, ChildWhile, ChildEpollWait, ChildAt, Listening
    <2>2. UNCHANGED <<announced, unread, said, conn>>
      BY <1>10 DEF ChildStart, ChildWhile, ChildEpollWait, Fetch, pipes, clients
    <2>3. QED
      BY <2>1, <2>2, WordsUnchanged DEF WordsCounted, WordsOf, IInv, TablesTyped, Listening
  <1>11. ASSUME NEW c \in Clients, ChildRecv(c) PROVE WordsCounted'
    <2>1. /\ UNCHANGED <<said, child, conn>> /\ child[c] = "events"
          /\ unread' = [unread EXCEPT ![c] = FALSE]
      BY <1>11 DEF ChildRecv
    <2>2. \/ unread[c] /\ announced' = [announced EXCEPT ![c] = announced[c] + 1]
          \/ announced' = announced
      BY <1>11 DEF ChildRecv
    <2>3. announced[c] \in Nat /\ said[c] \in Nat /\ MaxTexts[c] \in Nat
      BY ProcessesDistinct DEF RestTyped
    <2>4. announced'[c] = announced[c] \/ (unread[c] /\ announced'[c] = announced[c] + 1)
      <3>1. CASE unread[c] /\ announced' = [announced EXCEPT ![c] = announced[c] + 1]
        BY <3>1 DEF RestTyped
      <3>2. CASE announced' = announced
        BY <3>2
      <3>3. QED
        BY <2>2, <3>1, <3>2
    <2>5. unread'[c] = FALSE
      BY <2>1 DEF RestTyped
    <2>6. WordsOf(c)'
      BY <2>1, <2>3, <2>5, <2>4 DEF WordsCounted, WordsOf
    <2>7. \A d \in Clients \ {c} : announced'[d] = announced[d] /\ unread'[d] = unread[d]
      BY <2>1, <2>2 DEF RestTyped
    <2>8. QED
      BY <2>1, <2>6, <2>7, WordsOfOne
  <1>12. ASSUME NEW c \in Clients, ChildSend(c) \/ ChildPipeEnds(c) PROVE WordsCounted'
    BY <1>1, <1>12 DEF ChildSend, ChildPipeEnds, kids, pipes, clients
  <1>13. ASSUME NEW c \in Clients, ChildEnds(c) PROVE WordsCounted'
    <2>1. /\ announced' = announced
          /\ child' = [child EXCEPT ![c] = "dead"] /\ conn' = [conn EXCEPT ![c] = "closed"]
          /\ unread' = [unread EXCEPT ![c] = FALSE] /\ said' = [said EXCEPT ![c] = 0]
      BY <1>13 DEF ChildEnds, ChildAt
    <2>2. /\ announced'[c] = announced[c] /\ said'[c] = 0 /\ child'[c] = "dead"
          /\ conn'[c] = "closed" /\ MaxTexts[c] \in Nat
      BY <2>1, ProcessesDistinct DEF RestTyped, IInv, TablesTyped
    <2>3. WordsOf(c)'
      BY <2>2 DEF WordsCounted, WordsOf
    <2>4. \A d \in Clients \ {c} : /\ said'[d] = said[d] /\ unread'[d] = unread[d]
                                  /\ child'[d] = child[d] /\ conn'[d] = conn[d]
      BY <2>1 DEF RestTyped, IInv, TablesTyped
    <2>5. QED
      BY <2>1, <2>3, <2>4, WordsOfOne
  <1>14. ASSUME NEW c \in Clients, Connect(c) PROVE WordsCounted'
    <2>1. UNCHANGED <<announced, unread, said, child>>
          /\ conn' = [conn EXCEPT ![c] = "queued"]
      BY <1>14 DEF Connect, kids, pipes
    <2>2. QED
      BY <2>1, WordsUnchanged DEF WordsCounted, WordsOf, IInv, TablesTyped
  <1>15. ASSUME NEW c \in Clients, Say(c) PROVE WordsCounted'
    <2>1. /\ UNCHANGED <<announced, child, conn>> /\ conn[c] = "open"
          /\ said[c] < MaxTexts[c] /\ said' = [said EXCEPT ![c] = said[c] + 1]
          /\ unread' = [unread EXCEPT ![c] = TRUE]
      BY <1>15 DEF Say, Arrives, kids, pipes
    <2>2. /\ announced[c] \in Nat /\ said[c] \in Nat /\ MaxTexts[c] \in Nat
          /\ said'[c] = said[c] + 1 /\ unread'[c]
      BY <2>1, ProcessesDistinct DEF RestTyped
    <2>3. child[c] \notin {"none", "dead"}
      BY <2>1 DEF WordsCounted, WordsOf
    <2>4. announced[c] <= said[c]
      BY <2>2, <2>3 DEF WordsCounted, WordsOf
    <2>5. WordsOf(c)'
      BY <2>1, <2>2, <2>3, <2>4 DEF WordsOf
    <2>6. \A d \in Clients \ {c} : said'[d] = said[d] /\ unread'[d] = unread[d]
      BY <2>1 DEF RestTyped
    <2>7. QED
      BY <2>1, <2>5, <2>6, WordsOfOne
  <1>16. CASE Terminate \/ UNCHANGED vars \/ \E c \in Clients : Leave(c)
    BY <1>1, <1>16 DEF Terminate, vars, Leave, Arrives, kids, pipes, clients
  <1>17. QED
    BY <1>2, <1>3, <1>4, <1>5, <1>6, <1>8, <1>9, <1>10, <1>11, <1>12, <1>13, <1>14,
       <1>15, <1>16
    DEF Next, ParentStep, ChildStep

LEMMA EventsUnchanged ==
    ASSUME EventsAnnounce, batch'["parent"] \subseteq batch["parent"],
           \A c \in Clients :
               /\ child'[c] = "none" => child[c] = "none"
               /\ InUsers(c)' /\ child[c] # "none" => InUsers(c)
               /\ announced'[c] > 0 \/ announced'[c] = announced[c]
    PROVE  EventsAnnounce'
  BY DEF EventsAnnounce

LEMMA EventsStep ==
    ASSUME TInv, [Next]_vars
    PROVE  EventsAnnounce'
  <1> USE DEF TInv
  <1>1. ASSUME UNCHANGED <<batch, users, child, announced>> PROVE EventsAnnounce'
    BY <1>1, EventsUnchanged DEF InUsers, user_count
  <1>2. CASE EpollWait
    <2>1. /\ UNCHANGED <<users, child, announced>>
          /\ batch' = [batch EXCEPT !["parent"] = Ready("parent")]
      BY <1>2 DEF EpollWait, Fetch, pipes
    <2>2. batch'["parent"] = Ready("parent")
      BY <2>1, ProcessesDistinct DEF RestTyped
    <2>3. \A c \in Clients : c \in batch'["parent"] => announced[c] > 0
      BY <2>2, ChatShmAssumption DEF Ready
    <2>4. \A c \in Clients : announced[c] > 0 => child[c] # "none"
      <3> SUFFICES ASSUME NEW c \in Clients, child[c] = "none" PROVE announced[c] <= 0
        BY DEF RestTyped
      <3>1. announced[c] + (IF unread[c] THEN 1 ELSE 0) <= said[c] /\ said[c] = 0
        BY DEF WordsCounted, WordsOf
      <3>2. QED
        BY <3>1 DEF RestTyped
    <2>5. QED
      BY <2>1, <2>3, <2>4 DEF EventsAnnounce
  <1>3. CASE ReadSignals
    <2>1. UNCHANGED <<users, child, announced>> /\ batch'["parent"] \subseteq batch["parent"]
      BY <1>3, ProcessesDistinct DEF ReadSignals, Handle, kids, pipes, RestTyped
    <2>2. QED
      BY <2>1, EventsUnchanged DEF InUsers, user_count
  <1>4. CASE ReapDone \/ SignalsDone
    BY <1>1, <1>4 DEF ReapDone, SignalsDone, kids, poll, pipes
  <1>5. CASE Term
    <2> DEFINE told == {c \in ToSet(users) : child[c] \in Listening}
    <2>1. PICK woken \in SUBSET {c \in told : child[c] = "wait"} :
              child' = [c \in Clients |-> IF c \in woken THEN "events" ELSE child[c]]
      BY <1>5 DEF Term, Kill
    <2>2. UNCHANGED <<batch, users, announced>>
      BY <1>5 DEF Term, pipes
    <2>3. \A c \in Clients : child'[c] = "none" => child[c] = "none"
      BY <2>1
    <2>4. QED
      BY <2>2, <2>3, EventsUnchanged DEF InUsers, user_count
  <1>6. CASE Ends
    <2>1. batch'["parent"] = {}
      BY <1>6 DEF Ends
    <2>2. QED
      BY <2>1 DEF EventsAnnounce
  <1>7. ASSUME NEW c \in Clients, Accept(c) PROVE EventsAnnounce'
    <2>1. /\ users' = Append(users, c) /\ announced' = announced
          /\ child' = [child EXCEPT ![c] = "born"] /\ conn[c] = "queued"
          /\ batch' = [batch EXCEPT !["parent"] = @ \ {"listen"}]
      BY <1>7 DEF Accept, Listen, Handle, pipes
    <2>2. child[c] = "none"
      BY <2>1 DEF IInv, AcceptedFirst
    <2>3. \A d \in Clients : InUsers(d)' => InUsers(d) \/ d = c
      <3>1. Len(users) \in Nat /\ Len(users') = Len(users) + 1
            /\ \A i \in 1..Len(users') : \/ users'[i] = users[i] /\ i \in 1..Len(users)
                                         \/ users'[i] = c
        BY <2>1 DEF IInv, TablesTyped
      <3>2. QED
        BY <3>1 DEF InUsers, user_count
    <2>4. batch'["parent"] \subseteq batch["parent"]
      BY <2>1, ProcessesDistinct DEF RestTyped
    <2>5. \A d \in Clients : child'[d] = "none" => child[d] = "none"
      BY <2>1 DEF IInv, TablesTyped
    <2>6. QED
      BY <2>1, <2>2, <2>3, <2>4, <2>5, EventsUnchanged
  <1>8. ASSUME NEW c \in Clients, Refuse(c) PROVE EventsAnnounce'
    <2>1. UNCHANGED <<users, child, announced>> /\ batch'["parent"] \subseteq batch["parent"]
      BY <1>8, ProcessesDistinct DEF Refuse, Listen, Handle, server, kids, pipes, RestTyped
    <2>2. QED
      BY <2>1, EventsUnchanged DEF InUsers, user_count
  <1>9. ASSUME NEW c \in Clients, Relay(c) PROVE EventsAnnounce'
    <2>1. /\ UNCHANGED <<users, child>>
          /\ batch' = [batch EXCEPT !["parent"] = @ \ {c}]
      BY <1>9 DEF Relay, Handle, server, kids
    <2>2. batch'["parent"] = batch["parent"] \ {c}
      BY <2>1, ProcessesDistinct DEF RestTyped
    <2>3. announced' = announced \/ announced' = [announced EXCEPT ![c] = announced[c] - 1]
      BY <1>9 DEF Relay, pipes
    <2>4. \A d \in Clients \ {c} : announced'[d] = announced[d]
      BY <2>3 DEF RestTyped
    <2>5. QED
      BY <2>1, <2>2, <2>4 DEF EventsAnnounce, InUsers, user_count
  <1>10. ASSUME NEW c \in Clients, Reap(c) PROVE EventsAnnounce'
    <2>1. /\ UNCHANGED <<batch, child>>
          /\ announced' = [announced EXCEPT ![c] = 0]
          /\ users' = [i \in 1..(user_count - 1) |->
                          IF i = sub_process[c] + 1 THEN Last(users) ELSE users[i]]
      BY <1>10 DEF Reap, Reaped
    <2>2. PICK p \in 1..user_count : users[p] = c
      BY <1>10 DEF Reap, Reaped, Zombie, InUsers
    <2>3. sub_process[c] + 1 = p /\ user_count \in Nat \ {0}
      BY <2>2 DEF IInv, TablesTyped, TablesAgree, user_count
    <2>4. \A i, j \in 1..user_count : users[i] = users[j] => i = j
      BY <2>3 DEF IInv, TablesTyped, TablesAgree, user_count
    <2>5. ASSUME NEW d \in Clients, InUsers(d)'
          PROVE  InUsers(d) /\ d # c
      <3>1. Len(users') = user_count - 1
            /\ \A i \in 1..(user_count - 1) :
                   users'[i] = IF i = p THEN users[user_count] ELSE users[i]
        BY <2>1, <2>3 DEF Last, user_count
      <3>2. PICK i \in 1..(user_count - 1) : users'[i] = d
        BY <2>5, <3>1 DEF InUsers, user_count
      <3>3. CASE i = p
        BY <2>2, <2>3, <2>4, <3>1, <3>2, <3>3 DEF InUsers
      <3>4. CASE i # p
        BY <2>2, <2>3, <2>4, <3>1, <3>2, <3>4 DEF InUsers
      <3>5. QED
        BY <3>3, <3>4
    <2>6. \A d \in Clients \ {c} : announced'[d] = announced[d]
      BY <2>1 DEF RestTyped
    <2>7. QED
      BY <2>1, <2>5, <2>6 DEF EventsAnnounce
  <1>11. ASSUME NEW c \in Clients, ChildStep(c) PROVE EventsAnnounce'
    <2>1. users' = users /\ batch'["parent"] = batch["parent"]
      BY <1>11, ProcessesDistinct
      DEF ChildStep, ChildStart, ChildWhile, ChildEpollWait, ChildRecv, ChildSend,
          ChildPipeEnds, ChildEnds, Fetch, Handle, server, poll, RestTyped
    <2>2. child' = child \/ \E to \in Listening \cup {"dead"} :
                                child' = [child EXCEPT ![c] = to]
      BY <1>11
      DEF ChildStep, ChildStart, ChildWhile, ChildEpollWait, ChildRecv, ChildSend,
          ChildPipeEnds, ChildEnds, ChildAt, kids, Listening
    <2>3. announced' = announced \/ announced' = [announced EXCEPT ![c] = announced[c] + 1]
      BY <1>11
      DEF ChildStep, ChildStart, ChildWhile, ChildEpollWait, ChildRecv, ChildSend,
          ChildPipeEnds, ChildEnds, Fetch, pipes
    <2>4. \A d \in Clients : child'[d] = "none" => child[d] = "none"
      BY <2>2 DEF IInv, TablesTyped, Listening
    <2>5. \A d \in Clients : announced'[d] > 0 \/ announced'[d] = announced[d]
      BY <2>3 DEF RestTyped
    <2>6. QED
      BY <2>1, <2>4, <2>5, EventsUnchanged DEF InUsers, user_count
  <1>12. CASE Terminate \/ UNCHANGED vars
              \/ \E c \in Clients : Connect(c) \/ Say(c) \/ Leave(c)
    BY <1>1, <1>12
    DEF Terminate, vars, Connect, Say, Leave, Arrives, server, kids, poll, pipes
  <1>13. QED
    BY <1>2, <1>3, <1>4, <1>5, <1>6, <1>7, <1>8, <1>9, <1>10, <1>11, <1>12
    DEF Next, ParentStep

LEMMA TypesInductive == TInv /\ [Next]_vars => TInv'
  BY Inductive, RestTypedStep, PlacesStep, WordsStep, EventsStep DEF TInv

\* There are never more users than places, each position recorded is a segment,
\* no child writes outside the shared memory, and no announcement is counted below
\* zero or twice, for any number of clients and places (13_4.cpp:128, 156, 240, 270).
THEOREM TypeInvariance == Spec => []TypeOK
  <1>1. TInv => TypeOK
    <2> SUFFICES ASSUME TInv PROVE TypeOK
      OBVIOUS
    <2>1. \A c \in Clients : announced[c] \in 0..MaxTexts[c] /\ said[c] \in 0..MaxTexts[c]
      BY ProcessesDistinct DEF TInv, RestTyped, WordsCounted, WordsOf
    <2>2. QED
      BY <2>1
      DEF TInv, IInv, TablesTyped, RestTyped, PlacesFit, TypeOK, ChildStates, ConnStates,
          Events
  <1>2. QED
    BY RestInitially, TypesInductive, <1>1, PTL DEF Spec
==============================================================================
