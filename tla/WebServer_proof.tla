--------------------------- MODULE WebServer_proof ---------------------------
(***************************************************************************)
(* The web server for any number of clients, workers and descriptors, and  *)
(* whatever is asked for.  OneThreadPerObject fails when a worker runs     *)
(* close_conn(): the run WebServer_one_thread has the counterexample.  The *)
(* damage stays on the descriptors that workers have closed: every other   *)
(* one is Sound, by an invariant that is stated for one descriptor and     *)
(* kept by steps that are about another.                                   *)
(***************************************************************************)
EXTENDS WebServer, FiniteSetTheorems, TLAPS

-----------------------------------------------------------------------------
(* The inductive invariant.                                                *)

\* A worker serves an object unless it is idle, and holds an answer only from
\* process_read to process_write.
WorkersServe ==
    \A w \in Workers : /\ pc[w] = "idle" <=> serving[w] = NoFd
                       /\ pc[w] = "respond" <=> ret[w] # NoAnswer

Initing == {"init", "addfd", "inc_read", "inc_write", "reset"}
Closing == {"close", "remove", "clear", "dec_read", "dec_write"}
Gone == {"clear", "dec_read", "dec_write"}
Calling == {"read", "append", "write", "spinning"}

\* Who runs what; the descriptor that a worker has closed is recorded.
Labels ==
    /\ \A w \in Workers :
        /\ pc[w] \in WorkerLabels \cup Closing
        /\ pc[w] \in Gone => serving[w] \in worker_closed
    /\ pc[Main] \in {"event"} \cup Calling \cup Initing \cup Closing

\* An object holds its own descriptor or none, so that what a thread does on one
\* object reaches no other one.
OwnNumber == \A fd \in Fds : m_sockfd[fd] \in {fd, NoFd}

\* A descriptor is reported once.
ReportedOnce == \A e, f \in batch : e.fd = f.fd => e = f

\* A client has one connection, waiting or open.
OneConnection ==
    /\ \A i, j \in 1..Len(backlog) : backlog[i] = backlog[j] => i = j
    /\ \A i \in 1..Len(backlog) : cstate[backlog[i]] = "backlog"
    /\ \A fd \in Fds : sock[fd] # Free => cstate[sock[fd]] = "open"
    /\ \A fd, other \in Fds :
        sock[fd] = sock[other] /\ sock[fd] # Free => fd = other

\* Nothing is read of a request before its connection is accepted.
Unread ==
    \A c \in Clients : cstate[c] \in {"new", "backlog"} => inbox[c] = asked[c]

\* The counter is behind, or ahead of, the open connections by what main has
\* not counted yet.
Open == Fds \ FreeFds
Uncounted ==
    CASE pc[Main] \in {"init", "addfd", "inc_read", "inc_write"} -> -1
      [] pc[Main] \in Gone -> 1
      [] OTHER -> 0
Tally ==
    /\ m_user_count = Cardinality(Open) + Uncounted
    /\ pc[Main] \in {"inc_write", "dec_write"} => tmp[Main] = m_user_count
Counted == worker_closed = {} => Tally

Working(fd) == pc[Main] # "event" /\ current = fd
Reported(fd) == \E e \in batch : e.fd = fd
Queued(fd) == \E i \in 1..Len(pending) : pending[i] = fd
Served(fd) == \E w \in Workers : serving[w] = fd

\* What is reported, queued or served is disarmed, and is one of the three; it is
\* queued once and served by one worker.
QueuedOnce(fd) ==
    \A i, j \in 1..Len(pending) : pending[i] = fd /\ pending[j] = fd => i = j
Held(fd) ==
    /\ Reported(fd) \/ Queued(fd) \/ Served(fd) => armed[fd] = "off"
    /\ Reported(fd) => ~Working(fd) /\ ~Queued(fd) /\ ~Served(fd)
    /\ Queued(fd) => ~Working(fd) /\ ~Served(fd)
    /\ Served(fd) => ~Working(fd)
    /\ QueuedOnce(fd)
    /\ \A v, w \in Workers : serving[v] = fd /\ serving[w] = fd => v = w

\* An open descriptor is in the epoll table and in its object, but for what
\* main has not done yet of init().
Unregistered(fd) == Working(fd) /\ pc[Main] \in {"init", "addfd"}
Registered(fd) ==
    /\ armed[fd] = "none" <=> (sock[fd] = Free \/ Unregistered(fd))
    /\ sock[fd] # Free => m_sockfd[fd] = fd \/ (Working(fd) /\ pc[Main] = "init")
    /\ Working(fd) => (sock[fd] = Free <=> pc[Main] \in Gone)
    /\ Working(fd) /\ pc[Main] \in Calling => armed[fd] = "off"
    /\ Working(fd) /\ pc[Main] \in {"inc_read", "inc_write", "reset"} =>
        armed[fd] = "in"

\* Nobody loses an open connection but append.
Kept(fd) ==
    armed[fd] = "off" =>
        \/ Working(fd) \/ Reported(fd) \/ Queued(fd) \/ Served(fd)
        \/ sock[fd] \in refused

\* What a client has sent of its request is in the socket or in the buffer of
\* its object, which holds nothing else.
Beginning(fd) == Working(fd) /\ pc[Main] \in Initing
Settled(fd) == Working(fd) => pc[Main] \notin Initing \cup Closing
Buffered(fd) ==
    sock[fd] # Free =>
        /\ Beginning(fd) => inbox[sock[fd]] = asked[sock[fd]]
        /\ Settled(fd) =>
            /\ Len(read_buf[fd]) + inbox[sock[fd]] = asked[sock[fd]]
            /\ \A i \in 1..Len(read_buf[fd]) : read_buf[fd][i] = sock[fd]
            /\ reply[fd] # NoReply => /\ reply[fd].to = sock[fd]
                                      /\ Len(read_buf[fd]) >= Segments

\* process_write answers the client whose request process_read has found, and
\* whoever waits for room to write has something to write.
HasReply(fd) == reply[fd] # NoReply
Replied(fd) ==
    /\ \A w \in Workers :
        serving[w] = fd /\ pc[w] = "respond" =>
            ret[w].to = sock[fd] /\ Len(read_buf[fd]) >= Segments
    /\ armed[fd] = "out" => HasReply(fd)
    /\ \A e \in batch : e.fd = fd /\ e.ev = "out" => HasReply(fd)
    /\ \A w \in Workers : serving[w] = fd /\ pc[w] = "modout" => HasReply(fd)
    /\ Working(fd) /\ pc[Main] = "write" => HasReply(fd)

\* What holds of every descriptor that no worker has closed.
Sound(fd) ==
    Held(fd) /\ Registered(fd) /\ Kept(fd) /\ Buffered(fd) /\ Replied(fd)

Common ==
    /\ TypeOK /\ WorkersServe /\ Labels /\ OwnNumber
    /\ ReportedOnce /\ OneConnection /\ Unread
IInv == Common /\ Counted /\ \A fd \in Intact : Sound(fd)

-----------------------------------------------------------------------------
(* Lemmas about the constants and the operators of the model.              *)

AllLabels == MainLabels \cup CloseLabels \cup WorkerLabels

LEMMA ConstantFacts ==
    /\ NoFd \notin Fds /\ Fds \subseteq Nat /\ BaseFd \in Fds
    /\ Main \in Threads /\ Main \notin Workers
    /\ \A w \in Workers : w \in Threads /\ w # Main
    /\ Free \notin Clients
    /\ Segments \in Nat
    /\ MaxRounds \in Nat /\ MaxBlocks \in Nat
  BY WebServerAssumption DEF Fds, NoFd, Threads, Segments

\* A step of a thread to one of the labels changes its own label only.
LEMMA GotoTyped ==
    ASSUME TypeOK, NEW t \in Threads, NEW label \in AllLabels, Goto(t, label)
    PROVE  /\ pc' \in [Threads -> AllLabels]
           /\ pc'[t] = label
           /\ \A u \in Threads : u # t => pc'[u] = pc[u]
  BY DEF TypeOK, Goto, AllLabels

LEMMA ModfdTyped ==
    ASSUME TypeOK, NEW fd, NEW ev \in {"in", "out"}, Modfd(fd, ev)
    PROVE  armed' \in [Fds -> {"none", "off", "in", "out"}]
  BY DEF TypeOK, Modfd

LEMMA EmptiedTyped ==
    ASSUME TypeOK, NEW fd, Emptied(fd)
    PROVE  read_buf' \in [Fds -> Seq(Clients)] /\ reply' \in [Fds -> Replies]
  <1>1. <<>> \in Seq(Clients) /\ NoReply \in Replies
    BY DEF Replies
  <1>2. read_buf \in [Fds -> Seq(Clients)] /\ reply \in [Fds -> Replies]
    BY DEF TypeOK
  <1>3. QED
    BY <1>1, <1>2 DEF Emptied

LEMMA DeliveredTyped ==
    ASSUME TypeOK, Delivered, Connected
    PROVE  asked' \in [Clients -> 0..Segments] /\ unserved' \subseteq Clients
  <1>1. asked \in [Clients -> 0..Segments] /\ 0 \in 0..Segments
    BY DEF TypeOK, Segments
  <1>2. Peer \in Clients /\ unserved \subseteq Clients
    BY ConstantFacts DEF TypeOK, Connected, Fd, Peer
  <1>3. QED
    BY <1>1, <1>2 DEF Delivered

LEMMA EventsTyped ==
    ASSUME TypeOK
    PROVE  Events \subseteq
               [fd : Fds, ev : {"hup", "in", "out"}] \cup {ListenEvent}
  <1>1. ASSUME NEW fd \in Ready PROVE Event(fd) \in {"hup", "in", "out"}
    BY <1>1 DEF Ready, Event
  <1>2. Ready \subseteq Fds
    BY DEF Ready
  <1>3. QED
    BY <1>1, <1>2 DEF Events

\* What the pool holds are descriptors.
LEMMA PoolTyped ==
    ASSUME TypeOK
    PROVE  /\ pending \in Seq(Fds)
           /\ serving \in [Workers -> Fds \cup {NoFd}]
  BY DEF TypeOK, Pool!TypeOK

-----------------------------------------------------------------------------
(* The types, whatever requests ask for.                                   *)

LEMMA InitTyped == Init => TypeOK /\ WorkersServe
  <1> SUFFICES ASSUME Init PROVE TypeOK /\ WorkersServe
    OBVIOUS
  <1> USE ConstantFacts
  <1>1. pc \in [Threads -> AllLabels] /\ \A w \in Workers : pc[w] = "idle"
    BY DEF Init, AllLabels, MainLabels, WorkerLabels
  <1>2. Pool!TypeOK /\ \A w \in Workers : serving[w] = NoFd
    BY DEF Init, Pool!Init, Pool!TypeOK
  <1>3. backlog \in Seq(Clients) /\ read_buf \in [Fds -> Seq(Clients)]
    BY DEF Init
  <1>4. reply \in [Fds -> Replies]
    BY DEF Init, Replies
  <1>5. /\ cstate \in [Clients -> {"new", "backlog", "open", "closed"}]
        /\ asked \in [Clients -> 0..Segments]
        /\ rounds \in [Clients -> 0..MaxRounds]
        /\ left \in [Clients -> BOOLEAN]
        /\ unserved \subseteq Clients
        /\ inbox \in [Clients -> Nat]
    BY DEF Init, Segments
  <1>6. /\ sock \in [Fds -> Clients \cup {Free}]
        /\ armed \in [Fds -> {"none", "off", "in", "out"}]
        /\ m_sockfd \in [Fds -> Fds \cup {NoFd}]
        /\ iov \in [Fds -> BOOLEAN]
        /\ tmp \in [Threads -> Int]
    BY DEF Init
  <1>7. m_user_count \in Int /\ current \in Fds /\ blocks \in 0..MaxBlocks
    BY DEF Init
  <1>8. /\ batch \subseteq [fd : Fds, ev : {"hup", "in", "out"}] \cup {ListenEvent}
        /\ refused \subseteq Clients \cup {Free}
        /\ edge \in BOOLEAN /\ worker_closed \subseteq Fds
    <2>1. batch = {} /\ refused = {} /\ edge = FALSE /\ worker_closed = {}
      BY DEF Init
    <2>2. QED
      BY <2>1
  <1>9. ret \in [Workers -> Answers] /\ \A w \in Workers : ret[w] = NoAnswer
    BY DEF Init, Answers
  <1>10. WorkersServe
    BY <1>1, <1>2, <1>9 DEF WorkersServe
  <1>11. QED
    BY <1>1, <1>2, <1>3, <1>4, <1>5, <1>6, <1>7, <1>8, <1>9, <1>10
    DEF TypeOK, AllLabels

LEMMA ClientTyped ==
    ASSUME TypeOK, WorkersServe, NEW c \in Clients, ClientStep(c)
    PROVE  TypeOK' /\ WorkersServe'
  <1> USE ConstantFacts DEF TypeOK, WorkersServe, Pool!TypeOK,
              kernel, object, threads, pool, reactor
  <1>1. CASE Connect(c)
    <2>1. backlog' \in Seq(Clients)
      BY <1>1 DEF Connect
    <2>2. QED
      BY <1>1, <2>1 DEF Connect
  <1>2. CASE Send(c)
    <2>1. asked' \in [Clients -> 0..Segments] /\ inbox' \in [Clients -> Nat]
      <3>1. asked[c] + 1 \in 0..Segments /\ inbox[c] + 1 \in Nat
        <4>1. asked[c] \in 0..Segments /\ inbox[c] \in Nat /\ asked[c] < Segments
          BY <1>2 DEF Send
        <4>2. QED
          BY <4>1 DEF Segments
      <3>2. QED
        BY <1>2, <3>1 DEF Send
    <2>2. rounds' \in [Clients -> 0..MaxRounds]
      <3>1. rounds[c] \in 0..MaxRounds /\ asked[c] \in 0..Segments
        OBVIOUS
      <3>2. (IF asked[c] = 0 THEN rounds[c] + 1 ELSE rounds[c]) \in 0..MaxRounds
        BY <1>2, <3>1 DEF Send
      <3>3. QED
        BY <1>2, <3>2 DEF Send
    <2>3. QED
      BY <1>2, <2>1, <2>2 DEF Send
  <1>3. CASE Leave(c)
    BY <1>3 DEF Leave
  <1>4. QED
    BY <1>1, <1>2, <1>3 DEF ClientStep

\* A step of main that leaves the pool alone leaves the workers alone.
LEMMA MainServes ==
    ASSUME TypeOK, WorkersServe, UNCHANGED <<pool, ret>>,
           \A w \in Workers : pc'[w] = pc[w]
    PROVE  WorkersServe' /\ Pool!TypeOK'
  BY DEF TypeOK, WorkersServe, Pool!TypeOK, pool

LEMMA ReactorTyped ==
    ASSUME TypeOK, WorkersServe,
           \/ EpollWait
           \/ \E e \in batch :
               Dispatch(e) \/ Accept(e) \/ AcceptBusy(e) \/ AcceptFails(e)
    PROVE  TypeOK' /\ WorkersServe'
  <1> USE ConstantFacts DEF client, kernel, object, threads, reactor
  <1>1. CASE EpollWait
    <2>1. WorkersServe' /\ Pool!TypeOK'
      BY <1>1, MainServes DEF EpollWait
    <2>2. QED
      BY <1>1, <2>1, EventsTyped DEF EpollWait, TypeOK
  <1>2. ASSUME NEW e \in batch, Dispatch(e) PROVE TypeOK' /\ WorkersServe'
    <2>1. e \in [fd : Fds, ev : {"hup", "in", "out"}]
      BY <1>2 DEF Dispatch, TypeOK, ListenEvent
    <2>2. PICK label \in {"close", "read", "write"} : Goto(Main, label)
      BY <1>2, <2>1 DEF Dispatch
    <2>3. /\ pc' \in [Threads -> AllLabels]
          /\ \A u \in Threads : u # Main => pc'[u] = pc[u]
      BY <2>2, GotoTyped DEF AllLabels, MainLabels, CloseLabels
    <2>4. WorkersServe' /\ Pool!TypeOK'
      BY <1>2, <2>3, MainServes DEF Dispatch
    <2>5. QED
      BY <1>2, <2>1, <2>3, <2>4 DEF Dispatch, TypeOK, AllLabels
  <1>3. ASSUME NEW e \in batch, Accept(e) PROVE TypeOK' /\ WorkersServe'
    <2>1. /\ pc' \in [Threads -> AllLabels]
          /\ \A u \in Threads : u # Main => pc'[u] = pc[u]
      BY <1>3, GotoTyped DEF Accept, AllLabels, MainLabels
    <2>2. WorkersServe' /\ Pool!TypeOK'
      BY <1>3, <2>1, MainServes DEF Accept
    <2>3. Head(backlog) \in Clients /\ backlog' \in Seq(Clients)
      BY <1>3 DEF Accept, TypeOK
    <2>4. sock' \in [Fds -> Clients \cup {Free}] /\ current' \in Fds
      BY <1>3, <2>3 DEF Accept, TypeOK, FreeFds
    <2>5. QED
      BY <1>3, <2>1, <2>2, <2>3, <2>4 DEF Accept, TypeOK, AllLabels
  <1>4. ASSUME NEW e \in batch, AcceptBusy(e) PROVE TypeOK' /\ WorkersServe'
    <2>1. WorkersServe' /\ Pool!TypeOK'
      BY <1>4, MainServes DEF AcceptBusy
    <2>2. Head(backlog) \in Clients /\ backlog' \in Seq(Clients)
      BY <1>4 DEF AcceptBusy, TypeOK
    <2>3. QED
      BY <1>4, <2>1, <2>2 DEF AcceptBusy, TypeOK
  <1>5. ASSUME NEW e \in batch, AcceptFails(e) PROVE TypeOK' /\ WorkersServe'
    <2>1. WorkersServe' /\ Pool!TypeOK'
      BY <1>5, MainServes DEF AcceptFails
    <2>2. QED
      BY <1>5, <2>1 DEF AcceptFails, TypeOK
  <1>6. QED
    BY <1>1, <1>2, <1>3, <1>4, <1>5

LEMMA ConnectionTyped ==
    ASSUME TypeOK, WorkersServe,
           InitSockfd \/ InitAddfd \/ IncRead \/ IncWrite \/ InitReset
    PROVE  TypeOK' /\ WorkersServe'
  <1> USE ConstantFacts DEF Step, client, kernel, object, threads, reactor
  <1>1. PICK label \in AllLabels : Goto(Main, label)
    BY DEF InitSockfd, InitAddfd, IncRead, IncWrite, InitReset, AllLabels, MainLabels
  <1>2. /\ pc' \in [Threads -> AllLabels]
        /\ \A u \in Threads : u # Main => pc'[u] = pc[u]
    BY <1>1, GotoTyped
  <1>3. UNCHANGED <<pool, ret>>
    BY DEF InitSockfd, InitAddfd, IncRead, IncWrite, InitReset
  <1>4. WorkersServe' /\ Pool!TypeOK'
    BY <1>2, <1>3, MainServes
  <1> USE <1>2, <1>4
  <1>5. CASE InitSockfd
    BY <1>5 DEF InitSockfd, TypeOK, AllLabels
  <1>6. CASE InitAddfd
    BY <1>6 DEF InitAddfd, TypeOK, AllLabels
  <1>7. CASE IncRead
    BY <1>7 DEF IncRead, TypeOK, AllLabels
  <1>8. CASE IncWrite
    <2>1. m_user_count' \in Int
      BY <1>8 DEF IncWrite, TypeOK
    <2>2. UNCHANGED <<client, kernel, object, tmp, ret, worker_closed, reactor>>
      BY <1>8 DEF IncWrite
    <2>3. QED
      BY <2>1, <2>2 DEF TypeOK, AllLabels
  <1>9. CASE InitReset
    <2>1. read_buf' \in [Fds -> Seq(Clients)] /\ reply' \in [Fds -> Replies]
      BY <1>9, EmptiedTyped DEF InitReset
    <2>2. QED
      BY <1>9, <2>1 DEF InitReset, TypeOK, AllLabels
  <1>10. QED
    BY <1>5, <1>6, <1>7, <1>8, <1>9

LEMMA ReadTyped ==
    ASSUME TypeOK, WorkersServe, Read \/ PoolAppend \/ PoolRefuses
    PROVE  TypeOK' /\ WorkersServe'
  <1> USE ConstantFacts DEF Step, client, kernel, object, threads, reactor
  <1>1. PICK label \in AllLabels : Goto(Main, label)
    BY DEF Read, PoolAppend, PoolRefuses, AllLabels, MainLabels, CloseLabels
  <1>2. /\ pc' \in [Threads -> AllLabels]
        /\ \A u \in Threads : u # Main => pc'[u] = pc[u]
    BY <1>1, GotoTyped
  <1>3. CASE Read
    <2>1. WorkersServe' /\ Pool!TypeOK'
      BY <1>2, <1>3, MainServes DEF Read
    <2>2. CASE Connected
      <3>1. Fd \in Fds /\ Peer \in Clients /\ current \in Fds
        BY <2>2 DEF Connected, Peer, Fd, TypeOK
      <3>2. inbox[Peer] \in Nat /\ read_buf[current] \in Seq(Clients)
        BY <3>1 DEF TypeOK
      <3>3. [i \in 1..inbox[Peer] |-> Peer] \in Seq(Clients)
        BY <3>1, <3>2
      <3>4. read_buf[current] \o [i \in 1..inbox[Peer] |-> Peer] \in Seq(Clients)
        BY <3>2, <3>3
      <3>5. /\ read_buf' = [read_buf EXCEPT ![current] =
                        read_buf[current] \o [i \in 1..inbox[Peer] |-> Peer]]
            /\ inbox' = [inbox EXCEPT ![Peer] = 0]
        BY <1>3, <2>2 DEF Read, TypeOK
      <3>6. read_buf' \in [Fds -> Seq(Clients)] /\ inbox' \in [Clients -> Nat]
        BY <3>4, <3>5 DEF TypeOK
      <3>7. QED
        BY <1>2, <1>3, <2>1, <3>6 DEF Read, TypeOK, AllLabels
    <2>3. CASE ~Connected
      BY <1>2, <1>3, <2>1, <2>3 DEF Read, TypeOK, AllLabels
    <2>4. QED
      BY <2>2, <2>3
  <1>4. CASE PoolAppend
    <2>1. Pool!TypeOK' /\ UNCHANGED <<serving, ret>>
      <3>1. Append(pending, current) \in Seq(Fds)
        <4>1. pending \in Seq(Fds) /\ current \in Fds
          BY PoolTyped DEF TypeOK
        <4>2. QED
          BY <4>1
      <3>2. QED
        BY <1>4, <3>1, PoolTyped DEF PoolAppend, Pool!Submit, Pool!TypeOK
    <2>2. WorkersServe'
      BY <1>2, <2>1 DEF WorkersServe
    <2>3. QED
      BY <1>2, <1>4, <2>1, <2>2 DEF PoolAppend, TypeOK, AllLabels
  <1>5. CASE PoolRefuses
    <2>1. WorkersServe' /\ Pool!TypeOK'
      BY <1>2, <1>5, MainServes DEF PoolRefuses
    <2>2. sock[current] \in Clients \cup {Free}
      BY DEF TypeOK
    <2>3. QED
      BY <1>2, <1>5, <2>1, <2>2 DEF PoolRefuses, TypeOK, AllLabels
  <1>6. QED
    BY <1>3, <1>4, <1>5

WriteStep ==
    WriteNothing \/ WriteSpins \/ WriteBlocks \/ WriteFails \/ WriteKeepAlive
        \/ WriteLast

LEMMA WriteTyped ==
    ASSUME TypeOK, WorkersServe, WriteStep
    PROVE  TypeOK' /\ WorkersServe'
  <1> USE ConstantFacts DEF client, kernel, object, threads, reactor
  <1>1. PICK label \in AllLabels : Goto(Main, label)
    BY DEF WriteStep, WriteNothing, WriteSpins, WriteBlocks, WriteFails,
           WriteKeepAlive, WriteLast, AllLabels, MainLabels, CloseLabels
  <1>2. /\ pc' \in [Threads -> AllLabels]
        /\ \A u \in Threads : u # Main => pc'[u] = pc[u]
    BY <1>1, GotoTyped
  <1>3. UNCHANGED <<pool, ret>>
    BY DEF WriteStep, WriteNothing, WriteSpins, WriteBlocks, WriteFails,
           WriteKeepAlive, WriteLast
  <1>4. WorkersServe' /\ Pool!TypeOK'
    BY <1>2, <1>3, MainServes
  <1> USE <1>2, <1>4
  <1>5. CASE WriteNothing
    <2>1. /\ read_buf' \in [Fds -> Seq(Clients)] /\ reply' \in [Fds -> Replies]
          /\ armed' \in [Fds -> {"none", "off", "in", "out"}]
      BY <1>5, EmptiedTyped, ModfdTyped DEF WriteNothing
    <2>2. QED
      BY <1>5, <2>1 DEF WriteNothing, TypeOK, AllLabels
  <1>6. CASE WriteSpins
    BY <1>6 DEF WriteSpins, TypeOK, AllLabels
  <1>7. CASE WriteBlocks
    <2>1. armed' \in [Fds -> {"none", "off", "in", "out"}]
      BY <1>7, ModfdTyped DEF WriteBlocks
    <2>2. blocks' \in 0..MaxBlocks
      BY <1>7 DEF WriteBlocks, TypeOK
    <2>3. QED
      BY <1>7, <2>1, <2>2 DEF WriteBlocks, TypeOK, AllLabels
  <1>8. CASE WriteFails
    BY <1>8 DEF WriteFails, TypeOK, AllLabels
  <1>9. CASE WriteKeepAlive
    <2>1. /\ read_buf' \in [Fds -> Seq(Clients)] /\ reply' \in [Fds -> Replies]
          /\ armed' \in [Fds -> {"none", "off", "in", "out"}]
      BY <1>9, EmptiedTyped, ModfdTyped DEF WriteKeepAlive
    <2>2. asked' \in [Clients -> 0..Segments] /\ unserved' \subseteq Clients
      BY <1>9, DeliveredTyped DEF WriteKeepAlive
    <2>3. QED
      BY <1>9, <2>1, <2>2 DEF WriteKeepAlive, TypeOK, AllLabels
  <1>10. CASE WriteLast
    <2>1. armed' \in [Fds -> {"none", "off", "in", "out"}]
      BY <1>10, ModfdTyped DEF WriteLast
    <2>2. asked' \in [Clients -> 0..Segments] /\ unserved' \subseteq Clients
      BY <1>10, DeliveredTyped DEF WriteLast
    <2>3. QED
      BY <1>10, <2>1, <2>2 DEF WriteLast, TypeOK, AllLabels
  <1>11. QED
    BY <1>5, <1>6, <1>7, <1>8, <1>9, <1>10 DEF WriteStep

LEMMA CloseTyped ==
    ASSUME TypeOK, WorkersServe, NEW t \in Threads, CloseStep(t)
    PROVE  TypeOK' /\ WorkersServe'
  <1> USE ConstantFacts DEF Step, client, kernel, object, threads, reactor
  <1>1. PICK label \in AllLabels \ {"idle", "respond"} :
            pc[t] \notin {"idle", "respond"} /\ Goto(t, label)
    BY DEF CloseStep, CloseTest, Removefd, CloseClear, DecRead, DecWrite,
           AfterClose, AllLabels, MainLabels, CloseLabels, WorkerLabels
  <1>2. /\ pc' \in [Threads -> AllLabels]
        /\ pc'[t] \notin {"idle", "respond"}
        /\ \A u \in Threads : u # t => pc'[u] = pc[u]
    BY <1>1, GotoTyped
  <1>3. UNCHANGED <<pool, ret>>
    BY DEF CloseStep, CloseTest, Removefd, CloseClear, DecRead, DecWrite
  <1>4. WorkersServe'
    BY <1>1, <1>2, <1>3 DEF WorkersServe, pool
  <1>5. Pool!TypeOK'
    BY <1>3 DEF pool, TypeOK, Pool!TypeOK
  <1> USE <1>2, <1>4, <1>5
  <1>6. CASE CloseTest(t)
    BY <1>6 DEF CloseTest, TypeOK, AllLabels
  <1>7. CASE Removefd(t)
    <2>1. /\ cstate' \in [Clients -> {"new", "backlog", "open", "closed"}]
          /\ inbox' \in [Clients -> Nat]
          /\ armed' \in [Fds -> {"none", "off", "in", "out"}]
          /\ sock' \in [Fds -> Clients \cup {Free}]
      <3> DEFINE fd == m_sockfd[Obj(t)]
      <3>1. CASE fd # NoFd /\ sock[fd] # Free
        <4>1. /\ cstate' = [cstate EXCEPT ![sock[fd]] = "closed"]
              /\ inbox' = [inbox EXCEPT ![sock[fd]] = 0]
              /\ armed' = [armed EXCEPT ![fd] = "none"]
              /\ sock' = [sock EXCEPT ![fd] = Free]
          BY <1>7, <3>1 DEF Removefd
        <4>2. QED
          BY <4>1 DEF TypeOK
      <3>2. CASE ~(fd # NoFd /\ sock[fd] # Free)
        BY <1>7, <3>2 DEF Removefd, TypeOK
      <3>3. QED
        BY <3>1, <3>2
    <2>2. worker_closed' \subseteq Fds
      <3>1. CASE t = Main
        BY <1>7, <3>1 DEF Removefd, TypeOK
      <3>2. CASE t # Main
        <4>1. t \in Workers /\ pc[t] # "idle"
          BY <1>1, <3>2 DEF Threads
        <4>2. serving[t] \in Fds
          BY <4>1, PoolTyped DEF WorkersServe
        <4>3. QED
          BY <1>7, <3>2, <4>2 DEF Removefd, Obj, TypeOK
      <3>3. QED
        BY <3>1, <3>2
    <2>3. QED
      BY <1>7, <2>1, <2>2 DEF Removefd, TypeOK, AllLabels
  <1>8. CASE CloseClear(t)
    BY <1>8 DEF CloseClear, TypeOK, AllLabels
  <1>9. CASE DecRead(t)
    BY <1>9 DEF DecRead, TypeOK, AllLabels
  <1>10. CASE DecWrite(t)
    <2>1. m_user_count' \in Int
      BY <1>10 DEF DecWrite, TypeOK
    <2>2. QED
      BY <1>10, <2>1 DEF DecWrite, TypeOK, AllLabels
  <1>11. QED
    BY <1>6, <1>7, <1>8, <1>9, <1>10 DEF CloseStep

\* What process_read returns of a whole request is an answer to a client.
LEMMA AnswerTyped ==
    ASSUME TypeOK, WorkersServe, NEW w \in Workers, Parse(w)
    PROVE  /\ Obj(w) = serving[w] /\ serving[w] \in Fds
           /\ pc[w] = "parse" /\ Goto(w, "respond")
           /\ Len(read_buf[serving[w]]) >= Segments
           /\ \E kind \in Kinds :
               LET answer == [to |-> Head(read_buf[serving[w]]), kind |-> kind] IN
                   /\ ret' = [ret EXCEPT ![w] = answer]
                   /\ answer \in Answers /\ answer # NoAnswer
  <1> USE ConstantFacts
  <1>1. pc[w] = "parse" /\ Goto(w, "respond") /\ Obj(w) = serving[w]
    BY DEF Parse, Step, Obj
  <1>2. serving[w] \in Fds
    BY <1>1, PoolTyped DEF WorkersServe
  <1>3. Len(read_buf[serving[w]]) >= Segments
    BY <1>1 DEF Parse
  <1>4. Head(read_buf[serving[w]]) \in Clients
    <2>1. read_buf[serving[w]] \in Seq(Clients) /\ Len(read_buf[serving[w]]) >= 2
      BY <1>2, <1>3 DEF TypeOK, Segments
    <2>2. QED
      BY <2>1
  <1>5. PICK kind \in Kinds :
            ret' = [ret EXCEPT ![w] = [to |-> Head(read_buf[serving[w]]),
                                       kind |-> kind]]
    BY <1>1 DEF Parse
  <1> DEFINE answer == [to |-> Head(read_buf[serving[w]]), kind |-> kind]
  <1>6. answer \in Answers /\ answer # NoAnswer
    BY <1>4 DEF Answers, NoAnswer
  <1>7. QED
    BY <1>1, <1>2, <1>3, <1>5, <1>6

\* process_write puts an answer to a client into the object.
LEMMA ReplyTyped ==
    ASSUME TypeOK, WorkersServe, NEW w \in Workers, Respond(w)
    PROVE  /\ Obj(w) = serving[w] /\ serving[w] \in Fds
           /\ pc[w] = "respond"
           /\ ret' = [ret EXCEPT ![w] = NoAnswer]
           /\ \E linger, returns \in BOOLEAN :
               LET answer == [to |-> ret[w].to, kind |-> ret[w].kind,
                              linger |-> linger]
               IN  /\ reply' = [reply EXCEPT ![serving[w]] = answer]
                   /\ answer \in Replies /\ answer # NoReply
                   /\ answer.to = ret[w].to
                   /\ ret[w].kind = "file" => returns
                   /\ iov' = [iov EXCEPT ![serving[w]] =
                                @ \/ ret[w].kind = "file"]
                   /\ Goto(w, IF returns THEN "modout" ELSE "close")
  <1> USE ConstantFacts
  <1>1. /\ pc[w] = "respond" /\ Obj(w) = serving[w]
        /\ ret' = [ret EXCEPT ![w] = NoAnswer]
    BY DEF Respond, Obj
  <1>2. serving[w] \in Fds
    BY <1>1, PoolTyped DEF WorkersServe
  <1>3. ret[w] \in [to : Clients, kind : Kinds]
    BY <1>1 DEF WorkersServe, TypeOK, Answers
  <1>4. ASSUME NEW linger \in BOOLEAN
        PROVE  LET answer == [to |-> ret[w].to, kind |-> ret[w].kind,
                              linger |-> linger]
               IN  /\ answer \in Replies /\ answer # NoReply
                   /\ answer.to = ret[w].to
    BY <1>3 DEF Replies, NoReply
  <1>5. PICK linger \in BOOLEAN, returns \in BOOLEAN :
            /\ ret[w].kind = "file" => returns
            /\ reply' = [reply EXCEPT ![serving[w]] =
                            [to |-> ret[w].to, kind |-> ret[w].kind,
                             linger |-> linger]]
            /\ iov' = [iov EXCEPT ![serving[w]] = @ \/ ret[w].kind = "file"]
            /\ Goto(w, IF returns THEN "modout" ELSE "close")
    BY <1>1 DEF Respond
  <1>6. QED
    BY <1>1, <1>2, <1>4, <1>5

LEMMA ProcessTyped ==
    ASSUME TypeOK, WorkersServe, NEW w \in Workers,
           \/ WorkerTake(w) \/ ParseIncomplete(w) \/ Parse(w) \/ Respond(w)
           \/ ModIn(w) \/ ModOut(w)
    PROVE  TypeOK' /\ WorkersServe'
  <1> USE ConstantFacts DEF Step, client, kernel, object, threads, reactor
  <1>1. PICK label \in AllLabels : Goto(w, label)
    BY DEF WorkerTake, ParseIncomplete, Parse, Respond, ModIn, ModOut, AllLabels,
           CloseLabels, WorkerLabels
  <1>2. /\ pc' \in [Threads -> AllLabels]
        /\ pc'[w] = label /\ \A u \in Threads : u # w => pc'[u] = pc[u]
    BY <1>1, GotoTyped
  <1>3. CASE WorkerTake(w)
    <2>1. Head(pending) \in Fds /\ Tail(pending) \in Seq(Fds)
      BY <1>3, PoolTyped DEF WorkerTake, Pool!Take
    <2>2. Pool!TypeOK' /\ serving' = [serving EXCEPT ![w] = Head(pending)]
      BY <1>3, <2>1, PoolTyped DEF WorkerTake, Pool!Take, Pool!TypeOK
    <2>3. pc'[w] = "parse" /\ pc[w] = "idle" /\ UNCHANGED ret
      BY <1>2, <1>3 DEF WorkerTake, Goto, TypeOK
    <2>4. WorkersServe'
      BY <1>2, <2>1, <2>2, <2>3, PoolTyped DEF WorkersServe
    <2>5. QED
      BY <1>2, <1>3, <2>2, <2>4 DEF WorkerTake, TypeOK, AllLabels
  <1>4. CASE ParseIncomplete(w)
    <2>1. pc'[w] = "modin" /\ pc[w] = "parse" /\ UNCHANGED ret
      BY <1>2, <1>4 DEF ParseIncomplete, Goto, TypeOK
    <2>2. WorkersServe' /\ Pool!TypeOK'
      BY <1>2, <1>4, <2>1
      DEF ParseIncomplete, WorkersServe, pool, TypeOK, Pool!TypeOK
    <2>3. unserved' \subseteq Clients
      <3>1. read_buf[Obj(w)] \in Seq(Clients)
        <4>1. serving[w] \in Fds /\ Obj(w) = serving[w]
          BY <2>1, PoolTyped DEF WorkersServe, Obj
        <4>2. read_buf \in [Fds -> Seq(Clients)]
          BY DEF TypeOK
        <4>3. QED
          BY <4>1, <4>2
      <3>2. CASE Len(read_buf[Obj(w)]) < Segments
        BY <1>4, <3>2 DEF ParseIncomplete, TypeOK
      <3>3. CASE ~(Len(read_buf[Obj(w)]) < Segments)
        <4>1. Head(read_buf[Obj(w)]) \in Clients
          BY <3>1, <3>3 DEF Segments
        <4>2. QED
          BY <1>4, <3>3, <4>1 DEF ParseIncomplete, TypeOK
      <3>4. QED
        BY <3>2, <3>3
    <2>4. QED
      BY <1>2, <1>4, <2>2, <2>3 DEF ParseIncomplete, TypeOK, AllLabels
  <1>5. CASE Parse(w)
    <2>1. PICK answer \in Answers \ {NoAnswer} : ret' = [ret EXCEPT ![w] = answer]
      BY <1>5, AnswerTyped
    <2>2. pc'[w] = "respond" /\ pc[w] = "parse" /\ UNCHANGED pool
      BY <1>2, <1>5 DEF Parse, Goto, TypeOK
    <2>3. /\ ret' \in [Workers -> Answers]
          /\ \A v \in Workers : ret'[v] = IF v = w THEN answer ELSE ret[v]
      BY <2>1 DEF TypeOK
    <2>4. WorkersServe' /\ Pool!TypeOK'
      BY <1>2, <2>1, <2>2, <2>3 DEF WorkersServe, pool, TypeOK, Pool!TypeOK
    <2>5. QED
      BY <1>2, <1>5, <2>3, <2>4 DEF Parse, TypeOK, AllLabels
  <1>6. CASE Respond(w)
    <2>1. PICK linger \in BOOLEAN, returns \in BOOLEAN, answer \in Replies :
            /\ reply' = [reply EXCEPT ![serving[w]] = answer]
            /\ iov' = [iov EXCEPT ![serving[w]] = @ \/ ret[w].kind = "file"]
            /\ Goto(w, IF returns THEN "modout" ELSE "close")
      BY <1>6, ReplyTyped
    <2>2. pc'[w] \in {"modout", "close"} /\ pc[w] = "respond" /\ UNCHANGED pool
      BY <1>2, <1>6, <2>1 DEF Respond, Goto, TypeOK
    <2>3. /\ ret' \in [Workers -> Answers]
          /\ \A v \in Workers : ret'[v] = IF v = w THEN NoAnswer ELSE ret[v]
      <3>1. ret' = [ret EXCEPT ![w] = NoAnswer] /\ NoAnswer \in Answers
        BY <1>6, ReplyTyped DEF Answers
      <3>2. QED
        BY <3>1 DEF TypeOK
    <2>4. WorkersServe' /\ Pool!TypeOK'
      BY <1>2, <2>2, <2>3 DEF WorkersServe, pool, TypeOK, Pool!TypeOK
    <2>5. reply' \in [Fds -> Replies] /\ iov' \in [Fds -> BOOLEAN]
      BY <2>1 DEF TypeOK
    <2>6. QED
      BY <1>2, <1>6, <2>3, <2>4, <2>5 DEF Respond, TypeOK, AllLabels
  <1>7. CASE ModIn(w) \/ ModOut(w)
    <2>1. pc'[w] = "idle" /\ pc[w] \in {"modin", "modout"} /\ UNCHANGED ret
      BY <1>2, <1>7 DEF ModIn, ModOut, Goto, TypeOK
    <2>2. Pool!TypeOK' /\ serving' = [serving EXCEPT ![w] = NoFd]
      BY <1>7, PoolTyped DEF ModIn, ModOut, Pool!Finish, Pool!TypeOK
    <2>3. WorkersServe'
      BY <1>2, <2>1, <2>2, PoolTyped DEF WorkersServe
    <2>4. armed' \in [Fds -> {"none", "off", "in", "out"}]
      BY <1>7, ModfdTyped DEF ModIn, ModOut
    <2>5. QED
      BY <1>2, <1>7, <2>2, <2>3, <2>4 DEF ModIn, ModOut, TypeOK, AllLabels
  <1>8. QED
    BY <1>3, <1>4, <1>5, <1>6, <1>7

LEMMA TypeStep == TypeOK /\ WorkersServe /\ [Next]_vars => TypeOK' /\ WorkersServe'
  <1> SUFFICES ASSUME TypeOK, WorkersServe, [Next]_vars
               PROVE  TypeOK' /\ WorkersServe'
    OBVIOUS
  <1>1. ASSUME NEW c \in Clients, ClientStep(c) PROVE TypeOK' /\ WorkersServe'
    BY <1>1, ClientTyped
  <1>2. CASE MainStep
    <2>1. CASE CloseStep(Main)
      BY <2>1, CloseTyped, ConstantFacts
    <2>2. QED
      BY <1>2, <2>1, ReactorTyped, ConnectionTyped, ReadTyped, WriteTyped
      DEF MainStep, WriteStep
  <1>3. ASSUME NEW w \in Workers, WorkerStep(w) PROVE TypeOK' /\ WorkersServe'
    BY <1>3, ProcessTyped, CloseTyped, ConstantFacts DEF WorkerStep
  <1>4. CASE UNCHANGED vars
    BY <1>4 DEF vars, client, kernel, object, threads, pool, reactor,
                TypeOK, WorkersServe, Pool!TypeOK
  <1>5. QED
    BY <1>1, <1>2, <1>3, <1>4 DEF Next

\* Whatever requests ask for and whoever closes connections, the variables of
\* 15_6.cpp and of its http_conn objects keep their types: descriptors stay
\* below the limit, and what is left in an object is a client's.
THEOREM TypeInvariance == Spec => []TypeOK
  <1>1. Init => TypeOK /\ WorkersServe
    BY InitTyped
  <1>2. TypeOK /\ WorkersServe /\ [Next]_vars => TypeOK' /\ WorkersServe'
    BY TypeStep
  <1>3. QED
    BY <1>1, <1>2, PTL DEF Spec

-----------------------------------------------------------------------------
(* What no step changes, and what every thread respects.                   *)

MainPlaces == {"event"} \cup Calling \cup Initing \cup Closing

LEMMA MainGoes ==
    ASSUME TypeOK, NEW label \in AllLabels, Goto(Main, label)
    PROVE  pc'[Main] = label /\ \A w \in Workers : pc'[w] = pc[w]
  BY GotoTyped, ConstantFacts

LEMMA WorkerGoes ==
    ASSUME TypeOK, NEW w \in Workers, NEW label \in AllLabels, Goto(w, label)
    PROVE  /\ pc'[w] = label /\ pc'[Main] = pc[Main]
           /\ \A v \in Workers : v # w => pc'[v] = pc[v]
  BY GotoTyped, ConstantFacts

\* The steps of main on the object it works on.
MainWork ==
    \/ InitSockfd \/ InitAddfd \/ IncRead \/ IncWrite \/ InitReset
    \/ Read \/ PoolAppend \/ PoolRefuses \/ WriteStep \/ CloseStep(Main)

\* The steps of a worker on the object it serves.
WorkerWork(w) ==
    \/ ParseIncomplete(w) \/ Parse(w) \/ Respond(w) \/ ModIn(w) \/ ModOut(w)
    \/ CloseStep(w)

LEMMA DispatchGoes ==
    ASSUME TypeOK, NEW e \in batch, Dispatch(e)
    PROVE  /\ e \in [fd : Fds, ev : {"hup", "in", "out"}]
           /\ pc[Main] = "event" /\ \A w \in Workers : pc'[w] = pc[w]
           /\ pc'[Main] \in {"close", "read", "write"}
           /\ pc'[Main] = "write" => e.ev = "out"
  <1>1. e \in [fd : Fds, ev : {"hup", "in", "out"}]
    BY DEF Dispatch, TypeOK, ListenEvent
  <1>2. PICK label \in {"close", "read", "write"} :
          Goto(Main, label) /\ (label = "write" => e.ev = "out")
    BY <1>1 DEF Dispatch
  <1>3. QED
    BY <1>1, <1>2, MainGoes DEF Dispatch, AllLabels, MainLabels, CloseLabels

LEMMA MainWorkGoes ==
    ASSUME TypeOK, MainWork
    PROVE  /\ pc[Main] # "event" /\ pc'[Main] \in MainPlaces
           /\ \A w \in Workers : pc'[w] = pc[w]
           /\ pc'[Main] # "write"
           /\ pc'[Main] \in Initing => pc[Main] \in Initing
           /\ UNCHANGED <<serving, ret, worker_closed, current, batch, backlog>>
           /\ refused \subseteq refused'
  <1> USE DEF client, kernel, object, threads, pool, reactor, Step
  <1>1. PICK label \in MainPlaces \ {"write"} :
          /\ Goto(Main, label)
          /\ label \in Initing => pc[Main] \in Initing
          /\ pc[Main] # "event"
    <2>1. CASE InitSockfd \/ InitAddfd \/ IncRead \/ IncWrite \/ InitReset
      BY <2>1 DEF InitSockfd, InitAddfd, IncRead, IncWrite, InitReset, MainPlaces,
                  Initing
    <2>2. CASE Read \/ PoolAppend \/ PoolRefuses
      BY <2>2 DEF Read, PoolAppend, PoolRefuses, MainPlaces, Calling, Closing, Initing
    <2>3. CASE WriteStep
      BY <2>3 DEF WriteStep, WriteNothing, WriteSpins, WriteBlocks, WriteFails,
                  WriteKeepAlive, WriteLast, Writing, MainPlaces, Calling, Closing,
                  Initing
    <2>4. CASE CloseStep(Main)
      BY <2>4 DEF CloseStep, CloseTest, Removefd, CloseClear, DecRead, DecWrite,
                  AfterClose, MainPlaces, Closing, Initing
    <2>5. QED
      BY <2>1, <2>2, <2>3, <2>4 DEF MainWork
  <1>2. label \in AllLabels
    BY DEF MainPlaces, Calling, Initing, Closing, AllLabels, MainLabels, CloseLabels
  <1>3. pc'[Main] = label /\ \A w \in Workers : pc'[w] = pc[w]
    BY <1>1, <1>2, MainGoes
  <1>4. /\ UNCHANGED <<serving, ret, worker_closed, current, batch, backlog>>
        /\ refused \subseteq refused'
    <2>1. CASE InitSockfd \/ InitAddfd \/ IncRead \/ IncWrite \/ InitReset
      BY <2>1 DEF InitSockfd, InitAddfd, IncRead, IncWrite, InitReset
    <2>2. CASE Read \/ PoolAppend \/ PoolRefuses
      BY <2>2 DEF Read, PoolAppend, PoolRefuses, Pool!Submit
    <2>3. CASE WriteStep
      BY <2>3 DEF WriteStep, WriteNothing, WriteSpins, WriteBlocks, WriteFails,
                  WriteKeepAlive, WriteLast
    <2>4. CASE CloseStep(Main)
      BY <2>4 DEF CloseStep, CloseTest, Removefd, CloseClear, DecRead, DecWrite
    <2>5. QED
      BY <2>1, <2>2, <2>3, <2>4 DEF MainWork
  <1>5. QED
    BY <1>1, <1>3, <1>4

LEMMA TakeGoes ==
    ASSUME TypeOK, NEW w \in Workers, WorkerTake(w)
    PROVE  /\ pc[w] = "idle" /\ pc'[w] = "parse" /\ pc'[Main] = pc[Main]
           /\ \A v \in Workers \ {w} :
               pc'[v] = pc[v] /\ serving'[v] = serving[v]
           /\ serving[w] = NoFd /\ serving'[w] = Head(pending)
           /\ pending # <<>> /\ pending' = Tail(pending)
           /\ UNCHANGED <<client, kernel, object, threads, reactor>>
  <1>1. pc[w] = "idle" /\ Goto(w, "parse") /\ Pool!Take(w)
    BY DEF WorkerTake, Step
  <1>2. QED
    BY <1>1, WorkerGoes, PoolTyped
    DEF WorkerTake, Pool!Take, AllLabels, WorkerLabels

LEMMA WorkerWorkGoes ==
    ASSUME Common, NEW w \in Workers, WorkerWork(w)
    PROVE  /\ serving[w] \in Fds /\ Obj(w) = serving[w]
           /\ pc[w] # "idle" /\ pc'[w] \in WorkerLabels \cup Closing
           /\ pc'[w] \in Gone => serving[w] \in worker_closed'
           /\ pc'[Main] = pc[Main]
           /\ \A v \in Workers \ {w} :
               pc'[v] = pc[v] /\ serving'[v] = serving[v] /\ ret'[v] = ret[v]
           /\ serving'[w] = IF pc'[w] = "idle" THEN NoFd ELSE serving[w]
           /\ worker_closed \subseteq worker_closed'
           /\ UNCHANGED <<current, batch, refused, pending, backlog, asked>>
  <1> USE ConstantFacts DEF client, kernel, object, threads, pool, reactor, Step
  <1>1. PICK label \in WorkerLabels \cup Closing : pc[w] # "idle" /\ Goto(w, label)
    BY DEF WorkerWork, ParseIncomplete, Parse, Respond, ModIn, ModOut, CloseStep,
           CloseTest, Removefd, CloseClear, DecRead, DecWrite, AfterClose,
           WorkerLabels, Closing
  <1>2. label \in AllLabels
    BY DEF WorkerLabels, Closing, AllLabels, CloseLabels
  <1>3. /\ pc'[w] = label /\ pc'[Main] = pc[Main]
        /\ \A v \in Workers \ {w} : pc'[v] = pc[v]
    BY <1>1, <1>2, WorkerGoes DEF Common
  <1>4. serving[w] \in Fds /\ Obj(w) = serving[w]
    BY <1>1, PoolTyped DEF Common, WorkersServe, Obj
  <1>5. UNCHANGED <<current, batch, refused, pending, backlog, asked>>
    BY DEF WorkerWork, ParseIncomplete, Parse, Respond, ModIn, ModOut, CloseStep,
           CloseTest, Removefd, CloseClear, DecRead, DecWrite, Pool!Finish
  <1>6. CASE ModIn(w) \/ ModOut(w)
    <2>1. /\ Goto(w, "idle") /\ serving' = [serving EXCEPT ![w] = NoFd]
          /\ UNCHANGED <<ret, worker_closed>>
      BY <1>6 DEF ModIn, ModOut, Pool!Finish
    <2>2. pc'[w] = "idle"
      BY <2>1, WorkerGoes DEF Common, AllLabels, WorkerLabels
    <2>3. QED
      BY <1>1, <1>3, <1>4, <1>5, <2>1, <2>2, PoolTyped DEF Common, Gone, WorkerLabels
  <1>7. CASE ParseIncomplete(w) \/ Parse(w) \/ Respond(w)
    <2>1. /\ UNCHANGED <<serving, worker_closed>>
          /\ \A v \in Workers \ {w} : ret'[v] = ret[v]
      BY <1>7 DEF ParseIncomplete, Parse, Respond, Common, TypeOK
    <2>2. PICK place \in {"modin", "respond", "modout", "close"} : Goto(w, place)
      BY <1>7 DEF ParseIncomplete, Parse, Respond
    <2>3. pc'[w] = place
      BY <2>2, WorkerGoes DEF Common, AllLabels, WorkerLabels, CloseLabels
    <2>4. QED
      BY <1>1, <1>3, <1>4, <1>5, <2>1, <2>3 DEF Gone
  <1>8. CASE CloseStep(w)
    <2>1. UNCHANGED <<serving, ret>> /\ worker_closed \subseteq worker_closed'
      BY <1>8 DEF CloseStep, CloseTest, Removefd, CloseClear, DecRead, DecWrite
    <2>2. /\ pc'[w] # "idle"
          /\ pc'[w] \in Gone => pc[w] \in Gone \/ Removefd(w)
      <3>1. CASE Removefd(w)
        <4>1. Goto(w, "clear")
          BY <3>1 DEF Removefd
        <4>2. QED
          BY <3>1, <4>1, WorkerGoes DEF Common, AllLabels, CloseLabels
      <3>2. CASE ~Removefd(w)
        <4>1. PICK place \in {"remove", "dec_read", "dec_write", "modout"} :
                Goto(w, place) /\ (place \in Gone => pc[w] \in Gone)
          BY <1>8, <3>2 DEF CloseStep, CloseTest, CloseClear, DecRead, DecWrite,
                            AfterClose, Gone
        <4>2. pc'[w] = place
          BY <4>1, WorkerGoes DEF Common, AllLabels, CloseLabels, WorkerLabels
        <4>3. QED
          BY <4>1, <4>2
      <3>3. QED
        BY <3>1, <3>2
    <2>3. pc'[w] \in Gone => serving[w] \in worker_closed'
      BY <1>4, <2>1, <2>2 DEF Removefd, Common, Labels
    <2>4. QED
      BY <1>1, <1>3, <1>4, <1>5, <2>1, <2>2, <2>3
  <1>9. QED
    BY <1>6, <1>7, <1>8 DEF WorkerWork

-----------------------------------------------------------------------------
(* A step on one object is none on another.                                *)

\* A step that what holds of a descriptor does not see.
Unseen(fd) ==
    /\ UNCHANGED <<armed[fd], sock[fd], m_sockfd[fd], read_buf[fd], reply[fd]>>
    /\ sock[fd] # Free => UNCHANGED <<inbox[sock[fd]], asked[sock[fd]]>>
    /\ Working(fd)' <=> Working(fd)
    /\ Working(fd) => pc'[Main] = pc[Main]
    /\ \A e \in batch \cup batch' : e.fd = fd => (e \in batch <=> e \in batch')
    /\ (Queued(fd)' <=> Queued(fd)) /\ (QueuedOnce(fd) => QueuedOnce(fd)')
    /\ \A w \in Workers :
        serving[w] = fd \/ serving'[w] = fd =>
            /\ serving'[w] = serving[w] /\ pc'[w] = pc[w]
            /\ pc[w] = "respond" => ret'[w] = ret[w]
    /\ refused \subseteq refused'

LEMMA Frame ==
    ASSUME NEW fd \in Fds, Sound(fd), Unseen(fd)
    PROVE  Sound(fd)'
  <1>1. /\ Reported(fd)' <=> Reported(fd)
        /\ Served(fd)' <=> Served(fd)
        /\ Queued(fd)' <=> Queued(fd)
        /\ Working(fd)' <=> Working(fd)
    BY DEF Unseen, Reported, Served
  <1>2. Held(fd)'
    BY <1>1 DEF Sound, Unseen, Held
  <1>3. Registered(fd)'
    BY <1>1 DEF Sound, Unseen, Registered, Unregistered, Working
  <1>4. Kept(fd)'
    BY <1>1 DEF Sound, Unseen, Kept
  <1>5. Buffered(fd)'
    <2>1. (Beginning(fd)' <=> Beginning(fd)) /\ (Settled(fd)' <=> Settled(fd))
      BY <1>1 DEF Beginning, Settled, Unseen
    <2>2. QED
      BY <2>1 DEF Sound, Unseen, Buffered
  <1>6. Replied(fd)'
    BY <1>1 DEF Sound, Unseen, Replied, HasReply
  <1>7. QED
    BY <1>2, <1>3, <1>4, <1>5, <1>6 DEF Sound

\* A client's buffers are all there is of it, and of nobody else.
LEMMA OthersBuffers ==
    ASSUME Common, NEW fd \in Fds, sock[fd] # Free
    PROVE  /\ sock[fd] \in Clients /\ cstate[sock[fd]] = "open"
           /\ \A other \in Fds : other # fd => sock[other] # sock[fd]
           /\ inbox[sock[fd]] \in Nat /\ asked[sock[fd]] \in 0..Segments
           /\ read_buf[fd] \in Seq(Clients) /\ Len(read_buf[fd]) \in Nat
  BY DEF Common, TypeOK, OneConnection

\* What a thread's step on an object changes of the descriptors and their clients.
OnlyOf(obj) ==
    /\ \A fd \in Fds \ {obj} :
        UNCHANGED <<armed[fd], sock[fd], m_sockfd[fd], read_buf[fd], reply[fd]>>
    /\ \A c \in Clients :
        c # sock[obj] => UNCHANGED <<inbox[c], asked[c], cstate[c]>>

LEMMA ModfdOnly ==
    ASSUME Common, NEW obj \in Fds, NEW ev, Modfd(m_sockfd[obj], ev)
    PROVE  \A fd \in Fds \ {obj} : armed'[fd] = armed[fd]
  BY ConstantFacts DEF Modfd, Common, OwnNumber, TypeOK

LEMMA CloseOnly ==
    ASSUME Common, NEW t \in Threads, CloseStep(t), NEW obj \in Fds, Obj(t) = obj
    PROVE  OnlyOf(obj)
  <1> USE ConstantFacts DEF Step, client, kernel, object, threads, OnlyOf
  <1>1. CASE CloseTest(t)
    BY <1>1 DEF CloseTest
  <1>2. CASE Removefd(t)
    <2>1. m_sockfd[obj] \in {obj, NoFd}
      BY DEF Common, OwnNumber
    <2>2. CASE m_sockfd[obj] # NoFd /\ sock[obj] # Free
      <3>1. /\ cstate' = [cstate EXCEPT ![sock[obj]] = "closed"]
            /\ inbox' = [inbox EXCEPT ![sock[obj]] = 0]
            /\ armed' = [armed EXCEPT ![obj] = "none"]
            /\ sock' = [sock EXCEPT ![obj] = Free]
            /\ UNCHANGED <<object, asked>>
        BY <1>2, <2>1, <2>2 DEF Removefd
      <3>2. QED
        BY <3>1 DEF Common, TypeOK
    <2>3. CASE ~(m_sockfd[obj] # NoFd /\ sock[obj] # Free)
      <3>1. UNCHANGED <<cstate, inbox, armed, sock, object, asked>>
        BY <1>2, <2>1, <2>3 DEF Removefd
      <3>2. QED
        BY <3>1
    <2>4. QED
      BY <2>2, <2>3
  <1>3. CASE CloseClear(t)
    BY <1>3 DEF CloseClear, Common, TypeOK
  <1>4. CASE DecRead(t) \/ DecWrite(t)
    BY <1>4 DEF DecRead, DecWrite
  <1>5. QED
    BY <1>1, <1>2, <1>3, <1>4 DEF CloseStep

LEMMA ReadOnly ==
    ASSUME Common, Read
    PROVE  OnlyOf(current)
  <1>1. UNCHANGED <<sock, armed, m_sockfd, reply, asked, cstate>>
    BY DEF Read, client
  <1>2. CASE Connected
    <2>1. Fd = current /\ Peer = sock[current] /\ current \in Fds
      BY <1>2, ConstantFacts DEF Connected, Fd, Peer, Common, OwnNumber, TypeOK
    <2>2. PICK new : read_buf' = [read_buf EXCEPT ![current] = new]
      BY <1>2 DEF Read
    <2>3. inbox' = [inbox EXCEPT ![sock[current]] = 0]
      BY <1>2, <2>1 DEF Read
    <2>4. QED
      BY <1>1, <2>2, <2>3 DEF OnlyOf, Common, TypeOK
  <1>3. CASE ~Connected
    BY <1>1, <1>3 DEF Read, OnlyOf
  <1>4. QED
    BY <1>2, <1>3

LEMMA WriteOnly ==
    ASSUME Common, WriteStep
    PROVE  OnlyOf(current)
  <1> USE DEF client, kernel, object, threads
  <1>1. current \in Fds /\ (Connected => Peer = sock[current])
    BY ConstantFacts DEF Connected, Fd, Peer, Common, OwnNumber, TypeOK
  <1>2. UNCHANGED <<sock, m_sockfd, inbox, cstate>>
    BY DEF WriteStep, WriteNothing, WriteSpins, WriteBlocks, WriteFails,
           WriteKeepAlive, WriteLast
  <1>3. \A fd \in Fds \ {current} : UNCHANGED <<read_buf[fd], reply[fd]>>
    BY DEF WriteStep, WriteNothing, WriteSpins, WriteBlocks, WriteFails,
           WriteKeepAlive, WriteLast, Emptied, Common, TypeOK
  <1>4. \A c \in Clients : c # sock[current] => asked'[c] = asked[c]
    <2>1. asked' = asked \/ asked' = [asked EXCEPT ![sock[current]] = 0]
      BY <1>1 DEF WriteStep, WriteNothing, WriteSpins, WriteBlocks, WriteFails,
                  WriteKeepAlive, WriteLast, Delivered
    <2>2. QED
      BY <2>1 DEF Common, TypeOK
  <1>5. \A fd \in Fds \ {current} : armed'[fd] = armed[fd]
    <2>1. armed' = armed \/ \E ev \in {"in", "out"} : Modfd(m_sockfd[current], ev)
      BY DEF WriteStep, WriteNothing, WriteSpins, WriteBlocks, WriteFails,
             WriteKeepAlive, WriteLast, Fd
    <2>2. QED
      BY <1>1, <2>1, ModfdOnly
  <1>6. QED
    BY <1>2, <1>3, <1>4, <1>5 DEF OnlyOf

LEMMA MainOnly ==
    ASSUME Common, MainWork
    PROVE  OnlyOf(current)
  <1> USE DEF client, kernel, object, threads, Step
  <1>1. current \in Fds
    BY DEF Common, TypeOK
  <1>2. CASE InitSockfd \/ InitAddfd \/ IncRead \/ IncWrite \/ InitReset
    BY <1>2 DEF InitSockfd, InitAddfd, IncRead, IncWrite, InitReset, Emptied, OnlyOf,
                Common, TypeOK
  <1>3. CASE PoolAppend \/ PoolRefuses
    BY <1>3 DEF PoolAppend, PoolRefuses, OnlyOf
  <1>4. CASE CloseStep(Main)
    BY <1>1, <1>4, CloseOnly, ConstantFacts DEF Obj
  <1>5. QED
    BY <1>2, <1>3, <1>4, ReadOnly, WriteOnly DEF MainWork

LEMMA WorkerOnly ==
    ASSUME Common, NEW w \in Workers, WorkerWork(w)
    PROVE  OnlyOf(serving[w])
  <1> USE DEF client, kernel, object, threads, Step
  <1>1. serving[w] \in Fds /\ Obj(w) = serving[w]
    BY WorkerWorkGoes
  <1>2. CASE ParseIncomplete(w) \/ Parse(w)
    BY <1>2 DEF ParseIncomplete, Parse, OnlyOf
  <1>3. CASE Respond(w)
    <2>1. \E new : reply' = [reply EXCEPT ![serving[w]] = new]
      BY <1>1, <1>3 DEF Respond
    <2>2. UNCHANGED <<client, kernel, m_sockfd, read_buf>>
      BY <1>3 DEF Respond
    <2>3. QED
      BY <2>1, <2>2 DEF OnlyOf, Common, TypeOK
  <1>4. CASE ModIn(w) \/ ModOut(w)
    <2>1. \E ev \in {"in", "out"} : Modfd(m_sockfd[serving[w]], ev)
      BY <1>1, <1>4 DEF ModIn, ModOut
    <2>2. UNCHANGED <<client, inbox, sock, object>>
      BY <1>4 DEF ModIn, ModOut
    <2>3. QED
      BY <1>1, <2>1, <2>2, ModfdOnly DEF OnlyOf
  <1>5. CASE CloseStep(w)
    BY <1>1, <1>5, CloseOnly, ConstantFacts
  <1>6. QED
    BY <1>2, <1>3, <1>4, <1>5 DEF WorkerWork

\* The queue holds one more, or the same.
LEMMA AppendQueued ==
    ASSUME TypeOK, NEW fd \in Fds, pending' = Append(pending, fd)
    PROVE  /\ \A other \in Fds \ {fd} : /\ Queued(other)' <=> Queued(other)
                                        /\ QueuedOnce(other) => QueuedOnce(other)'
           /\ Queued(fd)' /\ (~Queued(fd) => QueuedOnce(fd)')
  <1>1. pending \in Seq(Fds)
    BY PoolTyped
  <1>2. /\ Len(pending') = Len(pending) + 1 /\ Len(pending) \in Nat
        /\ \A i \in 1..Len(pending) : pending'[i] = pending[i]
        /\ pending'[Len(pending) + 1] = fd
    BY <1>1
  <1>3. QED
    BY <1>2 DEF Queued, QueuedOnce

LEMMA MainFrame ==
    ASSUME Common, MainWork, NEW fd \in Fds \ {current}
    PROVE  Unseen(fd)
  <1>1. /\ UNCHANGED <<serving, ret, current, batch>>
        /\ \A w \in Workers : pc'[w] = pc[w]
        /\ refused \subseteq refused' /\ ~Working(fd) /\ ~Working(fd)'
    BY MainWorkGoes DEF Common, Working
  <1>2. (Queued(fd)' <=> Queued(fd)) /\ (QueuedOnce(fd) => QueuedOnce(fd)')
    <2>1. CASE PoolAppend
      <3>1. pending' = Append(pending, current) /\ current \in Fds
        BY <2>1 DEF PoolAppend, Pool!Submit, Common, TypeOK
      <3>2. QED
        BY <3>1, AppendQueued DEF Common
    <2>2. CASE ~PoolAppend
      <3>1. UNCHANGED pending
        BY <2>2
        DEF MainWork, InitSockfd, InitAddfd, IncRead, IncWrite, InitReset, Read,
            PoolRefuses, WriteStep, WriteNothing, WriteSpins, WriteBlocks,
            WriteFails, WriteKeepAlive, WriteLast, CloseStep, CloseTest, Removefd,
            CloseClear, DecRead, DecWrite, pool
      <3>2. QED
        BY <3>1 DEF Queued, QueuedOnce
    <2>3. QED
      BY <2>1, <2>2
  <1>3. sock[fd] # Free => sock[fd] \in Clients /\ sock[fd] # sock[current]
    BY OthersBuffers DEF Common, TypeOK
  <1>4. OnlyOf(current)
    BY MainOnly
  <1>5. QED
    BY <1>1, <1>2, <1>3, <1>4 DEF Unseen, OnlyOf

LEMMA WorkerFrame ==
    ASSUME Common, NEW w \in Workers, WorkerWork(w), NEW fd \in Fds \ {serving[w]}
    PROVE  Unseen(fd)
  <1>1. /\ UNCHANGED <<current, batch, refused, pending>> /\ pc'[Main] = pc[Main]
        /\ serving[w] # fd /\ serving'[w] # fd
        /\ \A v \in Workers \ {w} :
            pc'[v] = pc[v] /\ serving'[v] = serving[v] /\ ret'[v] = ret[v]
    BY WorkerWorkGoes, ConstantFacts
  <1>2. /\ Queued(fd)' <=> Queued(fd)
        /\ QueuedOnce(fd) => QueuedOnce(fd)'
        /\ Working(fd)' <=> Working(fd)
    BY <1>1 DEF Queued, QueuedOnce, Working
  <1>3. sock[fd] # Free => sock[fd] \in Clients /\ sock[fd] # sock[serving[w]]
    BY OthersBuffers, WorkerWorkGoes
  <1>4. OnlyOf(serving[w])
    BY WorkerOnly
  <1>5. QED
    BY <1>1, <1>2, <1>3, <1>4 DEF Unseen, OnlyOf

-----------------------------------------------------------------------------
(* What holds of all threads and clients, workers' closing or not.         *)

LEMMA ListenIsNoFd ==
    ASSUME TypeOK, NEW e \in batch, e.ev = "listen"
    PROVE  e.fd = NoFd
  <1>1. e \in [fd : Fds, ev : {"hup", "in", "out"}] \/ e = ListenEvent
    BY DEF TypeOK
  <1>2. e \notin [fd : Fds, ev : {"hup", "in", "out"}]
    OBVIOUS
  <1>3. QED
    BY <1>1, <1>2 DEF ListenEvent

\* accept: the oldest connection gets a descriptor that was free.
LEMMA AcceptGoes ==
    ASSUME TypeOK, NEW e \in batch, Accept(e)
    PROVE  /\ pc[Main] = "event" /\ pc'[Main] = "init" /\ e.fd = NoFd
           /\ \A w \in Workers : pc'[w] = pc[w]
           /\ batch' = batch \ {e} /\ backlog' = Tail(backlog)
           /\ backlog \in Seq(Clients) /\ backlog # <<>>
           /\ cstate' = [cstate EXCEPT ![Head(backlog)] = "open"]
           /\ current' \in Fds /\ sock[current'] = Free
           /\ sock' = [sock EXCEPT ![current'] = Head(backlog)]
           /\ UNCHANGED <<asked, inbox, armed, refused, object, threads, pool>>
  <1>1. /\ pc[Main] = "event" /\ Goto(Main, "init") /\ e.ev = "listen"
        /\ batch' = batch \ {e} /\ backlog' = Tail(backlog) /\ backlog # <<>>
        /\ cstate' = [cstate EXCEPT ![Head(backlog)] = "open"]
        /\ UNCHANGED <<asked, inbox, armed, refused, object, threads, pool>>
    BY DEF Accept, Listening
  <1>2. backlog \in Seq(Clients)
    BY DEF TypeOK
  <1>3. /\ current' \in Fds /\ sock[current'] = Free
        /\ sock' = [sock EXCEPT ![current'] = Head(backlog)]
    BY DEF Accept, FreeFds
  <1>4. pc'[Main] = "init" /\ \A w \in Workers : pc'[w] = pc[w]
    BY <1>1, MainGoes DEF AllLabels, MainLabels
  <1>5. QED
    BY <1>1, <1>2, <1>3, <1>4, ListenIsNoFd

LEMMA LabelsStep == Common /\ [Next]_vars => Labels'
  <1> SUFFICES ASSUME Common, [Next]_vars PROVE Labels'
    OBVIOUS
  <1> USE DEF client, kernel, object, threads, pool, reactor
  <1>1. ASSUME pc' = pc, UNCHANGED <<serving, worker_closed>> PROVE Labels'
    BY <1>1 DEF Common, Labels
  <1>2. ASSUME \A w \in Workers : pc'[w] = pc[w], pc'[Main] \in MainPlaces,
               UNCHANGED <<serving, worker_closed>>
        PROVE  Labels'
    BY <1>2 DEF Common, Labels, MainPlaces
  <1>3. ASSUME NEW c \in Clients, ClientStep(c) PROVE Labels'
    BY <1>1, <1>3 DEF ClientStep, Connect, Send, Leave
  <1>4. CASE EpollWait
    BY <1>1, <1>4 DEF EpollWait
  <1>5. ASSUME NEW e \in batch,
               Dispatch(e) \/ Accept(e) \/ AcceptBusy(e) \/ AcceptFails(e)
        PROVE  Labels'
    <2>1. CASE Dispatch(e)
      BY <1>2, <2>1, DispatchGoes DEF Dispatch, Common, MainPlaces, Calling, Closing
    <2>2. CASE Accept(e)
      BY <1>2, <2>2, AcceptGoes DEF Common, MainPlaces, Initing
    <2>3. CASE AcceptBusy(e) \/ AcceptFails(e)
      BY <1>1, <2>3 DEF AcceptBusy, AcceptFails
    <2>4. QED
      BY <1>5, <2>1, <2>2, <2>3
  <1>6. CASE MainWork
    BY <1>2, <1>6, MainWorkGoes DEF Common
  <1>7. ASSUME NEW w \in Workers, WorkerTake(w) PROVE Labels'
    <2>1. /\ pc'[w] = "parse" /\ pc'[Main] = pc[Main] /\ UNCHANGED worker_closed
          /\ \A v \in Workers \ {w} :
               pc'[v] = pc[v] /\ serving'[v] = serving[v]
      BY <1>7, TakeGoes DEF Common
    <2>2. QED
      BY <2>1 DEF Common, Labels, Gone, WorkerLabels
  <1>8. ASSUME NEW w \in Workers, WorkerWork(w) PROVE Labels'
    <2>1. /\ pc'[w] \in WorkerLabels \cup Closing /\ pc'[Main] = pc[Main]
          /\ pc'[w] \in Gone => serving'[w] \in worker_closed'
          /\ \A v \in Workers \ {w} :
               pc'[v] = pc[v] /\ serving'[v] = serving[v]
          /\ worker_closed \subseteq worker_closed'
      BY <1>8, WorkerWorkGoes DEF Gone
    <2>2. QED
      BY <2>1 DEF Common, Labels
  <1>9. CASE UNCHANGED vars
    BY <1>1, <1>9 DEF vars
  <1>10. QED
    BY <1>3, <1>4, <1>5, <1>6, <1>7, <1>8, <1>9
    DEF Next, MainStep, MainWork, WriteStep, WorkerStep, WorkerWork

LEMMA OwnNumberStep == Common /\ [Next]_vars => OwnNumber'
  <1> SUFFICES ASSUME Common, [Next]_vars PROVE OwnNumber'
    OBVIOUS
  <1> USE DEF client, kernel, object, threads, pool, reactor
  <1>1. CASE UNCHANGED m_sockfd
    BY <1>1 DEF Common, OwnNumber
  <1>2. CASE InitSockfd
    BY <1>2 DEF InitSockfd, Common, OwnNumber, TypeOK
  <1>3. ASSUME NEW t \in Threads, CloseClear(t) PROVE OwnNumber'
    BY <1>3 DEF CloseClear, Common, OwnNumber, TypeOK
  <1>4. ASSUME NEW t \in Threads, CloseStep(t), ~CloseClear(t)
        PROVE  UNCHANGED m_sockfd
    BY <1>4 DEF CloseStep, CloseTest, Removefd, DecRead, DecWrite
  <1>5. ASSUME MainStep, ~InitSockfd, ~CloseStep(Main) PROVE UNCHANGED m_sockfd
    BY <1>5 DEF MainStep, EpollWait, Dispatch, Accept, AcceptBusy, AcceptFails,
       InitAddfd, IncRead, IncWrite, InitReset, Read, PoolAppend, PoolRefuses,
       WriteNothing, WriteSpins, WriteBlocks, WriteFails, WriteKeepAlive, WriteLast
  <1>6. ASSUME NEW w \in Workers, WorkerStep(w), ~CloseStep(w)
        PROVE  UNCHANGED m_sockfd
    BY <1>6
    DEF WorkerStep, WorkerTake, ParseIncomplete, Parse, Respond, ModIn, ModOut
  <1>7. ASSUME NEW c \in Clients, ClientStep(c) PROVE UNCHANGED m_sockfd
    BY <1>7 DEF ClientStep, Connect, Send, Leave
  <1>8. QED
    BY <1>1, <1>2, <1>3, <1>4, <1>5, <1>6, <1>7, ConstantFacts DEF Next, vars

LEMMA ReportedOnceStep == Common /\ [Next]_vars => ReportedOnce'
  <1> SUFFICES ASSUME Common, [Next]_vars PROVE ReportedOnce'
    OBVIOUS
  <1> USE DEF client, kernel, object, threads, pool, reactor
  <1>1. ASSUME batch' \subseteq batch PROVE ReportedOnce'
    BY <1>1 DEF Common, ReportedOnce
  <1>2. CASE EpollWait
    <2>1. \A e, f \in Events : e.fd = f.fd => e = f
      BY ConstantFacts DEF Events, ListenEvent, Ready
    <2>2. QED
      BY <1>2, <2>1 DEF EpollWait, ReportedOnce
  <1>3. CASE MainStep
    BY <1>1, <1>2, <1>3, MainWorkGoes
    DEF Common, MainStep, MainWork, WriteStep, Dispatch, Accept, AcceptBusy,
        AcceptFails
  <1>4. ASSUME NEW w \in Workers, WorkerStep(w) PROVE ReportedOnce'
    BY <1>1, <1>4, WorkerWorkGoes DEF WorkerStep, WorkerWork, WorkerTake
  <1>5. ASSUME NEW c \in Clients, ClientStep(c) PROVE ReportedOnce'
    BY <1>1, <1>5 DEF ClientStep, Connect, Send, Leave
  <1>6. QED
    BY <1>1, <1>3, <1>4, <1>5 DEF Next, vars

\* close(), by whatever thread, ends the connection of the descriptor.
LEMMA RemoveCloses ==
    ASSUME Common, NEW t \in Threads, Removefd(t), NEW obj \in Fds, Obj(t) = obj
    PROVE  \/ UNCHANGED <<sock, cstate, inbox, armed>>
           \/ /\ sock[obj] # Free
              /\ sock' = [sock EXCEPT ![obj] = Free]
              /\ cstate' = [cstate EXCEPT ![sock[obj]] = "closed"]
              /\ inbox' = [inbox EXCEPT ![sock[obj]] = 0]
              /\ armed' = [armed EXCEPT ![obj] = "none"]
  <1>1. m_sockfd[obj] \in {obj, NoFd}
    BY DEF Common, OwnNumber
  <1>2. QED
    BY <1>1 DEF Removefd

LEMMA RemoveOneConnection ==
    ASSUME Common, NEW t \in Threads, Removefd(t), NEW obj \in Fds, Obj(t) = obj
    PROVE  OneConnection'
  <1>1. backlog' = backlog
    BY DEF Removefd
  <1>2. CASE UNCHANGED <<sock, cstate>>
    BY <1>1, <1>2 DEF Common, OneConnection
  <1>3. CASE /\ sock[obj] # Free
             /\ sock' = [sock EXCEPT ![obj] = Free]
             /\ cstate' = [cstate EXCEPT ![sock[obj]] = "closed"]
    <2>1. /\ \A fd \in Fds : sock'[fd] = IF fd = obj THEN Free ELSE sock[fd]
          /\ \A d \in Clients :
                cstate'[d] = IF d = sock[obj] THEN "closed" ELSE cstate[d]
      BY <1>3 DEF Common, TypeOK
    <2>2. /\ cstate[sock[obj]] = "open"
          /\ \A i \in 1..Len(backlog) : backlog[i] \in Clients
      BY <1>3, OthersBuffers DEF Common, TypeOK
    <2>3. \A fd \in Fds : sock'[fd] # Free => cstate'[sock'[fd]] = "open"
      BY <1>3, <2>1, OthersBuffers DEF Common, OneConnection
    <2>4. QED
      BY <1>1, <2>1, <2>2, <2>3 DEF Common, OneConnection
  <1>4. QED
    BY <1>2, <1>3, RemoveCloses

LEMMA OneConnectionStep == Common /\ [Next]_vars => OneConnection'
  <1> SUFFICES ASSUME Common, [Next]_vars PROVE OneConnection'
    OBVIOUS
  <1> USE DEF client, kernel, object, threads, pool, reactor
  <1>1. ASSUME UNCHANGED <<backlog, cstate, sock>> PROVE OneConnection'
    BY <1>1 DEF Common, OneConnection
  <1>2. ASSUME NEW c \in Clients, Connect(c) PROVE OneConnection'
    <2>1. /\ backlog \in Seq(Clients) /\ backlog' = Append(backlog, c)
          /\ cstate[c] = "new" /\ UNCHANGED sock
      BY <1>2 DEF Connect, Common, TypeOK
    <2>2. /\ Len(backlog') = Len(backlog) + 1 /\ Len(backlog) \in Nat
          /\ \A i \in 1..Len(backlog) : backlog'[i] = backlog[i]
          /\ backlog'[Len(backlog) + 1] = c
      BY <2>1
    <2>3. \A d \in Clients :
            cstate'[d] = IF d = c THEN "backlog" ELSE cstate[d]
      BY <1>2 DEF Connect, Common, TypeOK
    <2>4. \A i \in 1..Len(backlog) : backlog[i] # c /\ backlog[i] \in Clients
      BY <2>1 DEF Common, OneConnection
    <2>5. \A fd \in Fds : sock[fd] # Free => sock[fd] # c /\ sock[fd] \in Clients
      BY <2>1, OthersBuffers
    <2>6. /\ \A i, j \in 1..Len(backlog') : backlog'[i] = backlog'[j] => i = j
          /\ \A i \in 1..Len(backlog') : cstate'[backlog'[i]] = "backlog"
      BY <2>2, <2>3, <2>4 DEF Common, OneConnection
    <2>7. QED
      BY <2>1, <2>3, <2>5, <2>6 DEF Common, OneConnection
  <1>3. ASSUME NEW e \in batch, Accept(e) \/ AcceptBusy(e) PROVE OneConnection'
    <2> DEFINE c == Head(backlog)
    <2>1. /\ c \in Clients /\ c = backlog[1] /\ backlog' = Tail(backlog)
          /\ Len(backlog) \in Nat \ {0} /\ Len(backlog') = Len(backlog) - 1
          /\ \A i \in 1..Len(backlog') :
              backlog'[i] = backlog[i + 1] /\ backlog[i + 1] \in Clients
      <3>1. backlog \in Seq(Clients) /\ backlog # <<>> /\ backlog' = Tail(backlog)
        BY <1>3 DEF Accept, AcceptBusy, Common, TypeOK
      <3>2. QED
        BY <3>1
    <2>2. cstate[c] = "backlog" /\ \A i \in 1..Len(backlog') : backlog'[i] # c
      BY <2>1 DEF Common, OneConnection
    <2>3. \A i, j \in 1..Len(backlog') : backlog'[i] = backlog'[j] => i = j
      BY <2>1 DEF Common, OneConnection
    <2>4. \A fd \in Fds : sock[fd] # Free => sock[fd] # c /\ sock[fd] \in Clients
      BY <2>2, OthersBuffers
    <2>5. CASE Accept(e)
      <3>1. current' \in Fds /\ sock' = [sock EXCEPT ![current'] = c]
        BY <2>5, AcceptGoes DEF Common
      <3>2. \A d \in Clients : cstate'[d] = IF d = c THEN "open" ELSE cstate[d]
        BY <2>5 DEF Accept, Common, TypeOK
      <3>3. \A fd \in Fds : sock'[fd] = IF fd = current' THEN c ELSE sock[fd]
        BY <3>1 DEF Common, TypeOK
      <3>4. \A i \in 1..Len(backlog') : cstate'[backlog'[i]] = "backlog"
        BY <2>1, <2>2, <3>2 DEF Common, OneConnection
      <3>5. QED
        BY <2>1, <2>3, <2>4, <3>2, <3>3, <3>4 DEF Common, OneConnection
    <2>6. CASE AcceptBusy(e)
      <3>1. /\ sock' = sock
            /\ \A d \in Clients :
                cstate'[d] = IF d = c THEN "closed" ELSE cstate[d]
        BY <2>6 DEF AcceptBusy, Common, TypeOK
      <3>2. \A i \in 1..Len(backlog') : cstate'[backlog'[i]] = "backlog"
        BY <2>1, <2>2, <3>1 DEF Common, OneConnection
      <3>3. QED
        BY <2>3, <2>4, <3>1, <3>2 DEF Common, OneConnection
    <2>7. QED
      BY <1>3, <2>5, <2>6
  <1>4. ASSUME NEW t \in Threads, CloseStep(t), NEW obj \in Fds, Obj(t) = obj
        PROVE  OneConnection'
    <2>1. ASSUME ~Removefd(t) PROVE UNCHANGED <<backlog, cstate, sock>>
      BY <1>4, <2>1 DEF CloseStep, CloseTest, CloseClear, DecRead, DecWrite
    <2>2. QED
      BY <1>1, <1>4, <2>1, RemoveOneConnection
  <1>5. CASE MainStep
    <2>1. ASSUME EpollWait \/ InitSockfd \/ InitAddfd \/ IncRead \/ IncWrite
                 \/ InitReset \/ Read \/ PoolAppend \/ PoolRefuses \/ WriteStep
          PROVE  UNCHANGED <<backlog, cstate, sock>>
      BY <2>1 DEF EpollWait, InitSockfd, InitAddfd, IncRead, IncWrite, InitReset,
         Read, PoolAppend, PoolRefuses, WriteStep, WriteNothing, WriteSpins,
         WriteBlocks, WriteFails, WriteKeepAlive, WriteLast
    <2>2. ASSUME NEW e \in batch, Dispatch(e) \/ AcceptFails(e)
          PROVE  UNCHANGED <<backlog, cstate, sock>>
      BY <2>2 DEF Dispatch, AcceptFails
    <2>3. ASSUME CloseStep(Main) PROVE OneConnection'
      BY <1>4, <2>3, ConstantFacts DEF Obj, Common, TypeOK
    <2>4. QED
      BY <1>1, <1>3, <1>5, <2>1, <2>2, <2>3 DEF MainStep, WriteStep
  <1>6. ASSUME NEW w \in Workers, WorkerStep(w) PROVE OneConnection'
    <2>1. CASE CloseStep(w)
      BY <1>4, <2>1, WorkerWorkGoes, ConstantFacts DEF WorkerWork
    <2>2. CASE ~CloseStep(w)
      <3>1. UNCHANGED <<backlog, cstate, sock>>
        BY <1>6, <2>2
        DEF WorkerStep, WorkerTake, ParseIncomplete, Parse, Respond, ModIn, ModOut
      <3>2. QED
        BY <1>1, <3>1
    <2>3. QED
      BY <2>1, <2>2
  <1>7. ASSUME NEW c \in Clients, Send(c) \/ Leave(c)
        PROVE  UNCHANGED <<backlog, cstate, sock>>
    BY <1>7 DEF Send, Leave
  <1>8. CASE UNCHANGED vars
    BY <1>1, <1>8 DEF vars
  <1>9. QED
    BY <1>1, <1>2, <1>5, <1>6, <1>7, <1>8 DEF Next, ClientStep

LEMMA UnreadStep == Common /\ [Next]_vars => Unread'
  <1> SUFFICES ASSUME Common, [Next]_vars PROVE Unread'
    OBVIOUS
  <1> USE DEF client, kernel, object, threads, pool, reactor
  <1>1. ASSUME UNCHANGED <<cstate, inbox, asked>> PROVE Unread'
    BY <1>1 DEF Common, Unread
  <1>2. ASSUME NEW c \in Clients, ClientStep(c) PROVE Unread'
    <2>1. CASE Connect(c)
      BY <2>1 DEF Connect, Common, Unread, TypeOK
    <2>2. CASE Send(c)
      BY <2>2 DEF Send, Common, Unread, TypeOK
    <2>3. CASE Leave(c)
      BY <1>1, <2>3 DEF Leave
    <2>4. QED
      BY <1>2, <2>1, <2>2, <2>3 DEF ClientStep
  <1>3. ASSUME NEW e \in batch, Accept(e) \/ AcceptBusy(e) PROVE Unread'
    <2>1. UNCHANGED <<inbox, asked>>
      BY <1>3 DEF Accept, AcceptBusy
    <2>2. \A c \in Clients : cstate'[c] = cstate[c] \/ cstate'[c] \in {"open", "closed"}
      BY <1>3 DEF Accept, AcceptBusy, Common, TypeOK
    <2>3. QED
      BY <2>1, <2>2 DEF Common, Unread
  <1>4. ASSUME NEW obj \in Fds, OnlyOf(obj),
               sock[obj] = Free \/ cstate'[sock[obj]] \in {"open", "closed"}
        PROVE  Unread'
    BY <1>4, ConstantFacts DEF OnlyOf, Common, Unread
  <1>5. ASSUME NEW t \in Threads, CloseStep(t), NEW obj \in Fds, Obj(t) = obj,
               sock[obj] # Free
        PROVE  cstate'[sock[obj]] \in {"open", "closed"}
    <2>1. sock[obj] \in Clients /\ cstate[sock[obj]] = "open"
      BY <1>5, OthersBuffers
    <2>2. CASE Removefd(t)
      BY <1>5, <2>1, <2>2, RemoveCloses DEF Common, TypeOK
    <2>3. CASE ~Removefd(t)
      BY <1>5, <2>1, <2>3 DEF CloseStep, CloseTest, CloseClear, DecRead, DecWrite
    <2>4. QED
      BY <2>2, <2>3
  <1>6. CASE MainWork
    <2>1. current \in Fds /\ OnlyOf(current) /\ Obj(Main) = current
      BY <1>6, MainOnly DEF Common, TypeOK, Obj
    <2>2. CASE CloseStep(Main)
      BY <1>4, <1>5, <2>1, <2>2, ConstantFacts
    <2>3. CASE ~CloseStep(Main)
      <3>1. UNCHANGED cstate
        BY <1>6, <2>3
        DEF MainWork, InitSockfd, InitAddfd, IncRead, IncWrite, InitReset, Read,
            PoolAppend, PoolRefuses, WriteStep, WriteNothing, WriteSpins,
            WriteBlocks, WriteFails, WriteKeepAlive, WriteLast
      <3>2. QED
        BY <1>4, <2>1, <3>1, OthersBuffers
    <2>4. QED
      BY <2>2, <2>3
  <1>7. CASE MainStep
    <2>1. ASSUME \/ EpollWait
                 \/ \E e \in batch : Dispatch(e) \/ AcceptFails(e)
          PROVE  UNCHANGED <<cstate, inbox, asked>>
      BY <2>1 DEF EpollWait, Dispatch, AcceptFails
    <2>2. QED
      BY <1>1, <1>3, <1>6, <1>7, <2>1 DEF MainStep, MainWork, WriteStep
  <1>8. ASSUME NEW w \in Workers, WorkerStep(w) PROVE Unread'
    <2>1. CASE CloseStep(w)
      <3>1. serving[w] \in Fds /\ Obj(w) = serving[w] /\ OnlyOf(serving[w])
        BY <2>1, WorkerWorkGoes, WorkerOnly DEF WorkerWork
      <3>2. QED
        BY <1>4, <1>5, <2>1, <3>1, ConstantFacts
    <2>2. CASE ~CloseStep(w)
      <3>1. UNCHANGED <<cstate, inbox, asked>>
        BY <1>8, <2>2
        DEF WorkerStep, WorkerTake, ParseIncomplete, Parse, Respond, ModIn, ModOut
      <3>2. QED
        BY <1>1, <3>1
    <2>3. QED
      BY <2>1, <2>2
  <1>9. CASE UNCHANGED vars
    BY <1>1, <1>9 DEF vars
  <1>10. QED
    BY <1>2, <1>7, <1>8, <1>9 DEF Next

LEMMA CommonStep == Common /\ [Next]_vars => Common'
  <1> SUFFICES ASSUME Common, [Next]_vars PROVE Common'
    OBVIOUS
  <1>1. TypeOK' /\ WorkersServe'
    BY TypeStep DEF Common
  <1>2. QED
    BY <1>1, LabelsStep, OwnNumberStep, ReportedOnceStep, OneConnectionStep,
       UnreadStep
    DEF Common

-----------------------------------------------------------------------------
(* What holds of a descriptor, step by step: the steps of everybody.       *)

LEMMA SendSound ==
    ASSUME IInv, NEW c \in Clients, Send(c), NEW fd \in Intact
    PROVE  Sound(fd)'
  <1> USE DEF client, kernel, object, threads, pool, reactor
  <1>1. fd \in Fds /\ Sound(fd) /\ Common
    BY DEF IInv, Intact
  <1>2. /\ UNCHANGED <<pc, current, sock, read_buf, reply, armed, m_sockfd, batch,
                       pending, serving, ret, refused>>
        /\ \A d \in Clients :
            /\ inbox'[d] = IF d = c THEN inbox[d] + 1 ELSE inbox[d]
            /\ asked'[d] = IF d = c THEN asked[d] + 1 ELSE asked[d]
            /\ inbox[d] \in Nat /\ asked[d] \in Nat
    BY <1>1 DEF Send, Common, TypeOK
  <1>3. Held(fd)' /\ Registered(fd)' /\ Kept(fd)' /\ Replied(fd)'
    BY <1>1, <1>2
    DEF Sound, Held, QueuedOnce, Registered, Unregistered, Kept, Replied, HasReply,
        Working, Reported, Queued, Served
  <1>4. Buffered(fd)'
    <2> SUFFICES ASSUME sock[fd] # Free
                 PROVE  /\ Beginning(fd)' => inbox'[sock[fd]] = asked'[sock[fd]]
                        /\ Settled(fd)' => Len(read_buf[fd]) + inbox'[sock[fd]]
                                               = asked'[sock[fd]]
      BY <1>1, <1>2 DEF Sound, Buffered, Settled, Working
    <2>1. (Beginning(fd)' <=> Beginning(fd)) /\ (Settled(fd)' <=> Settled(fd))
      BY <1>2 DEF Beginning, Settled, Working
    <2>2. /\ Beginning(fd) => inbox[sock[fd]] = asked[sock[fd]]
          /\ Settled(fd) => Len(read_buf[fd]) + inbox[sock[fd]] = asked[sock[fd]]
      BY <1>1 DEF Sound, Buffered
    <2>3. sock[fd] \in Clients /\ Len(read_buf[fd]) \in Nat
      BY <1>1, OthersBuffers
    <2>4. /\ inbox[sock[fd]] \in Nat /\ asked[sock[fd]] \in Nat
          /\ \/ /\ inbox'[sock[fd]] = inbox[sock[fd]] + 1
                /\ asked'[sock[fd]] = asked[sock[fd]] + 1
             \/ /\ inbox'[sock[fd]] = inbox[sock[fd]]
                /\ asked'[sock[fd]] = asked[sock[fd]]
      BY <1>2, <2>3
    <2>5. QED
      BY <2>1, <2>2, <2>3, <2>4
  <1>5. QED
    BY <1>3, <1>4 DEF Sound

LEMMA ClientSound ==
    ASSUME IInv, NEW c \in Clients, ClientStep(c), NEW fd \in Intact
    PROVE  Sound(fd)'
  <1>1. fd \in Fds /\ Sound(fd)
    BY DEF IInv, Intact
  <1>2. CASE Connect(c) \/ Leave(c)
    <2>1. Unseen(fd)
      BY <1>2 DEF Connect, Leave, kernel, object, threads, pool, reactor, Unseen,
                  Working, Queued, QueuedOnce
    <2>2. QED
      BY <1>1, <2>1, Frame
  <1>3. QED
    BY <1>2, SendSound DEF ClientStep

LEMMA EpollWaitSound ==
    ASSUME IInv, EpollWait, NEW fd \in Intact
    PROVE  Sound(fd)'
  <1> USE ConstantFacts
  <1>1. fd \in Fds /\ Sound(fd) /\ Common
    BY DEF IInv, Intact
  <1>2. /\ pc' = pc /\ pc[Main] = "event" /\ batch = {} /\ batch' = Events
        /\ armed' = [other \in Fds |-> IF other \in Ready THEN "off"
                                                          ELSE armed[other]]
        /\ UNCHANGED <<pending, serving, sock, m_sockfd, current, refused, inbox,
                       asked, read_buf, reply, ret>>
    BY DEF EpollWait, object, pool, client, threads
  <1>3. ~Working(fd) /\ ~Working(fd)' /\ ~Reported(fd)
    BY <1>2 DEF Working, Reported
  <1>4. \A e \in Events : e.fd = fd => fd \in Ready /\ (e.ev = "out" => armed[fd] = "out")
    BY <1>1 DEF Events, ListenEvent, Event
  <1>5. CASE fd \notin Ready
    <2>1. Unseen(fd)
      BY <1>1, <1>2, <1>3, <1>4, <1>5 DEF Unseen, Queued, QueuedOnce
    <2>2. QED
      BY <1>1, <2>1, Frame
  <1>6. CASE fd \in Ready
    <2>1. armed[fd] \in {"in", "out"} /\ armed'[fd] = "off"
      BY <1>1, <1>2, <1>6 DEF Ready
    <2>2. Reported(fd)'
      <3>1. [fd |-> fd, ev |-> Event(fd)] \in Events
        BY <1>6 DEF Events
      <3>2. QED
        BY <1>2, <3>1 DEF Reported
    <2>3. ~Queued(fd) /\ ~Served(fd) /\ QueuedOnce(fd)
      BY <1>1, <2>1 DEF Sound, Held
    <2>4. ~Queued(fd)' /\ ~Served(fd)' /\ QueuedOnce(fd)'
      BY <1>2, <2>3 DEF Queued, Served, QueuedOnce
    <2>5. Held(fd)' /\ Kept(fd)'
      BY <1>2, <1>3, <2>1, <2>2, <2>4 DEF Held, Kept, Served
    <2>6. Registered(fd)'
      BY <1>1, <1>2, <1>3, <2>1 DEF Sound, Registered, Unregistered
    <2>7. Buffered(fd)'
      BY <1>1, <1>2, <1>3 DEF Sound, Buffered, Beginning, Settled
    <2>8. Replied(fd)'
      BY <1>1, <1>2, <1>3, <1>4, <2>1, <2>4 DEF Sound, Replied, HasReply, Served
    <2>9. QED
      BY <2>5, <2>6, <2>7, <2>8 DEF Sound
  <1>7. QED
    BY <1>5, <1>6

LEMMA DispatchSound ==
    ASSUME IInv, NEW e \in batch, Dispatch(e), NEW fd \in Intact
    PROVE  Sound(fd)'
  <1>1. fd \in Fds /\ Sound(fd) /\ Common
    BY DEF IInv, Intact
  <1>2. /\ pc[Main] = "event" /\ \A w \in Workers : pc'[w] = pc[w]
        /\ pc'[Main] \in {"close", "read", "write"}
        /\ pc'[Main] = "write" => e.ev = "out"
        /\ batch' = batch \ {e} /\ current' = e.fd
        /\ UNCHANGED <<pending, serving, armed, sock, m_sockfd, refused, inbox,
                       asked, read_buf, reply, ret>>
    BY <1>1, DispatchGoes
    DEF Dispatch, Common, client, kernel, object, pool, threads
  <1>3. /\ ~Working(fd) /\ (Working(fd)' <=> fd = e.fd)
        /\ Queued(fd)' <=> Queued(fd)
        /\ Served(fd)' <=> Served(fd)
        /\ QueuedOnce(fd)' <=> QueuedOnce(fd)
    BY <1>2 DEF Working, Queued, Served, QueuedOnce
  <1>4. CASE fd # e.fd
    <2>1. Unseen(fd)
      BY <1>1, <1>2, <1>3, <1>4 DEF Unseen
    <2>2. QED
      BY <1>1, <2>1, Frame
  <1>5. CASE fd = e.fd
    <2>1. /\ Reported(fd) /\ ~Reported(fd)'
          /\ \A f \in batch' : f.fd # fd
      BY <1>1, <1>2, <1>5 DEF Reported, Common, ReportedOnce
    <2>2. /\ armed[fd] = "off" /\ ~Queued(fd) /\ ~Served(fd)
          /\ sock[fd] # Free /\ m_sockfd[fd] = fd
      BY <1>1, <1>3, <2>1 DEF Sound, Held, Registered, Unregistered
    <2>3. Held(fd)' /\ Kept(fd)'
      BY <1>1, <1>2, <1>3, <1>5, <2>1, <2>2 DEF Sound, Held, Kept
    <2>4. Registered(fd)'
      BY <1>2, <2>2 DEF Registered, Unregistered, Gone
    <2>5. Buffered(fd)'
      BY <1>1, <1>2, <1>3 DEF Sound, Buffered, Beginning, Settled, Initing
    <2>6. Replied(fd)'
      BY <1>1, <1>2, <1>5, <2>1, <2>2 DEF Sound, Replied, HasReply, Served
    <2>7. QED
      BY <2>3, <2>4, <2>5, <2>6 DEF Sound
  <1>6. QED
    BY <1>4, <1>5

LEMMA AcceptSound ==
    ASSUME IInv, NEW e \in batch, Accept(e), NEW fd \in Intact
    PROVE  Sound(fd)'
  <1> USE ConstantFacts
  <1> DEFINE c == Head(backlog)
  <1>1. fd \in Fds /\ Sound(fd) /\ Common
    BY DEF IInv, Intact
  <1>2. /\ pc[Main] = "event" /\ pc'[Main] = "init" /\ e.fd = NoFd
        /\ \A w \in Workers : pc'[w] = pc[w]
        /\ batch' = batch \ {e}
        /\ current' \in Fds /\ sock[current'] = Free
        /\ sock' = [sock EXCEPT ![current'] = c]
        /\ UNCHANGED <<asked, inbox, armed, refused, m_sockfd, read_buf, reply, ret,
                       pending, serving>>
    BY <1>1, AcceptGoes DEF Common, object, threads, pool
  <1>3. c \in Clients /\ inbox[c] = asked[c]
    <2>1. backlog \in Seq(Clients) /\ backlog # <<>>
      BY <1>1, AcceptGoes DEF Common
    <2>2. c = backlog[1] /\ 1 \in 1..Len(backlog) /\ c \in Clients
      BY <2>1
    <2>3. QED
      BY <1>1, <2>2 DEF Common, OneConnection, Unread
  <1>4. /\ sock'[fd] = IF fd = current' THEN c ELSE sock[fd]
        /\ ~Working(fd) /\ (Working(fd)' <=> fd = current')
        /\ Queued(fd)' <=> Queued(fd)
        /\ Served(fd)' <=> Served(fd)
        /\ Reported(fd)' <=> Reported(fd)
        /\ QueuedOnce(fd)' <=> QueuedOnce(fd)
    BY <1>1, <1>2 DEF Working, Queued, Served, Reported, QueuedOnce, Common, TypeOK
  <1>5. CASE fd # current'
    <2>1. Unseen(fd)
      BY <1>1, <1>2, <1>4, <1>5 DEF Unseen
    <2>2. QED
      BY <1>1, <2>1, Frame
  <1>6. CASE fd = current'
    <2>1. /\ armed[fd] = "none" /\ ~Queued(fd) /\ ~Served(fd) /\ ~Reported(fd)
          /\ QueuedOnce(fd) /\ sock'[fd] # Free
      BY <1>1, <1>2, <1>3, <1>4, <1>6 DEF Sound, Held, Registered
    <2>2. Held(fd)' /\ Kept(fd)'
      BY <1>2, <1>4, <2>1 DEF Held, Kept, Served
    <2>3. Registered(fd)'
      BY <1>2, <1>4, <1>6, <2>1 DEF Registered, Unregistered, Gone, Calling
    <2>4. Buffered(fd)'
      BY <1>2, <1>3, <1>4, <1>6 DEF Buffered, Settled, Initing
    <2>5. Replied(fd)'
      BY <1>2, <1>4, <2>1 DEF Replied, Served, Reported
    <2>6. QED
      BY <2>2, <2>3, <2>4, <2>5 DEF Sound
  <1>7. QED
    BY <1>5, <1>6

LEMMA NoAcceptSound ==
    ASSUME IInv, NEW e \in batch, AcceptBusy(e) \/ AcceptFails(e), NEW fd \in Intact
    PROVE  Sound(fd)'
  <1>1. fd \in Fds /\ Sound(fd) /\ Common
    BY DEF IInv, Intact
  <1>2. e.fd = NoFd /\ batch' = batch \ {e}
    BY <1>1, ListenIsNoFd DEF AcceptBusy, AcceptFails, Listening, Common
  <1>3. Unseen(fd)
    BY <1>1, <1>2, ConstantFacts
    DEF AcceptBusy, AcceptFails, client, kernel, object, threads, pool, Unseen,
        Working, Queued, QueuedOnce
  <1>4. QED
    BY <1>1, <1>3, Frame

\* The first of the queue leaves it.
LEMMA TailQueued ==
    ASSUME TypeOK, pending # <<>>, pending' = Tail(pending), NEW fd \in Fds
    PROVE  /\ Head(pending) \in Fds /\ Queued(Head(pending))
           /\ fd # Head(pending) => (Queued(fd)' <=> Queued(fd))
           /\ QueuedOnce(fd) => QueuedOnce(fd)' /\ (fd = Head(pending) => ~Queued(fd)')
  <1>1. pending \in Seq(Fds)
    BY PoolTyped
  <1>2. /\ Head(pending) = pending[1] /\ Len(pending) \in Nat \ {0}
        /\ Head(pending) \in Fds /\ Len(pending') = Len(pending) - 1
        /\ \A i \in 1..Len(pending') : pending'[i] = pending[i + 1]
    BY <1>1
  <1>3. ASSUME Queued(fd), fd # Head(pending) PROVE Queued(fd)'
    <2>1. PICK i \in 1..Len(pending) : pending[i] = fd
      BY <1>3 DEF Queued
    <2>2. i - 1 \in 1..Len(pending') /\ pending'[i - 1] = fd
      BY <1>2, <1>3, <2>1
    <2>3. QED
      BY <2>2 DEF Queued
  <1>4. QueuedOnce(fd) => QueuedOnce(fd)' /\ (fd = Head(pending) => ~Queued(fd)')
    BY <1>2 DEF QueuedOnce, Queued
  <1>5. QED
    BY <1>2, <1>3, <1>4 DEF Queued

LEMMA TakeSound ==
    ASSUME IInv, NEW w \in Workers, WorkerTake(w), NEW fd \in Intact
    PROVE  Sound(fd)'
  <1> USE ConstantFacts
  <1> DEFINE taken == Head(pending)
  <1>1. fd \in Fds /\ Sound(fd) /\ Common
    BY DEF IInv, Intact
  <1>2. /\ pc[w] = "idle" /\ pc'[w] = "parse" /\ pc'[Main] = pc[Main]
        /\ \A v \in Workers \ {w} : pc'[v] = pc[v] /\ serving'[v] = serving[v]
        /\ serving[w] = NoFd /\ serving'[w] = taken
        /\ pending # <<>> /\ pending' = Tail(pending)
        /\ UNCHANGED <<batch, armed, sock, m_sockfd, current, refused, inbox, asked,
                       read_buf, reply, ret>>
    BY <1>1, TakeGoes DEF Common, client, kernel, object, threads, reactor
  <1>3. /\ taken \in Fds /\ Queued(taken)
        /\ fd # taken => (Queued(fd)' <=> Queued(fd))
        /\ QueuedOnce(fd)' /\ (fd = taken => ~Queued(fd)')
    BY <1>1, <1>2, TailQueued DEF Common, Sound, Held
  <1>4. (Working(fd)' <=> Working(fd)) /\ (Reported(fd)' <=> Reported(fd))
    BY <1>2 DEF Working, Reported
  <1>5. CASE fd # taken
    <2>1. Unseen(fd)
      BY <1>1, <1>2, <1>3, <1>4, <1>5 DEF Unseen
    <2>2. QED
      BY <1>1, <2>1, Frame
  <1>6. CASE fd = taken
    <2>1. /\ armed[fd] = "off" /\ ~Working(fd) /\ ~Reported(fd) /\ ~Served(fd)
      BY <1>1, <1>3, <1>6 DEF Sound, Held
    <2>2. \A v \in Workers : serving'[v] = fd <=> v = w
      BY <1>2, <1>6, <2>1 DEF Served
    <2>3. Held(fd)' /\ Kept(fd)'
      BY <1>2, <1>3, <1>4, <1>6, <2>1, <2>2 DEF Held, Kept, Served
    <2>4. Registered(fd)' /\ Buffered(fd)'
      BY <1>1, <1>2, <1>4, <2>1
      DEF Sound, Registered, Unregistered, Buffered, Beginning, Settled
    <2>5. Replied(fd)'
      BY <1>2, <1>4, <2>1, <2>2 DEF Replied, Reported
    <2>6. QED
      BY <2>3, <2>4, <2>5 DEF Sound
  <1>7. QED
    BY <1>5, <1>6

-----------------------------------------------------------------------------
(* What holds of the descriptor main works on, while no worker has closed  *)
(* it.                                                                     *)

LEMMA MainAlone ==
    ASSUME IInv, pc[Main] # "event", NEW obj \in Intact, current = obj
    PROVE  /\ obj \in Fds /\ Working(obj) /\ Sound(obj)
           /\ ~Reported(obj) /\ ~Queued(obj) /\ ~Served(obj)
           /\ Common /\ QueuedOnce(obj)
           /\ sock[obj] = Free <=> pc[Main] \in Gone
           /\ pc[Main] \notin Gone \cup {"init"} => m_sockfd[obj] = obj
           /\ pc[Main] \in Calling => armed[obj] = "off"
  <1>1. obj \in Fds /\ Working(obj) /\ Sound(obj) /\ Common
    BY DEF IInv, Intact, Working
  <1>2. QED
    BY <1>1 DEF Sound, Held, Registered

\* Nobody gets the object from main but by append, so it is enough to see what
\* becomes of the descriptor and of the buffers.
LEMMA MainHolds ==
    ASSUME IInv, MainWork, ~PoolAppend, NEW obj \in Intact, current = obj,
           Registered(obj)', Buffered(obj)',
           armed'[obj] = "off" =>
               pc'[Main] # "event" \/ sock'[obj] \in refused',
           armed'[obj] = "out" => HasReply(obj)'
    PROVE  Sound(obj)'
  <1>1. /\ ~Reported(obj) /\ ~Queued(obj) /\ ~Served(obj)
        /\ QueuedOnce(obj) /\ obj \in Fds /\ Common /\ current' = current
        /\ UNCHANGED <<batch, serving>> /\ pc'[Main] # "write"
    BY MainAlone, MainWorkGoes DEF IInv, Common
  <1>2. UNCHANGED pending
    BY DEF MainWork, InitSockfd, InitAddfd, IncRead, IncWrite, InitReset, Read,
           PoolRefuses, WriteStep, WriteNothing, WriteSpins, WriteBlocks,
           WriteFails, WriteKeepAlive, WriteLast, CloseStep, CloseTest, Removefd,
           CloseClear, DecRead, DecWrite, pool
  <1>3. /\ ~Reported(obj)' /\ ~Queued(obj)' /\ ~Served(obj)'
        /\ QueuedOnce(obj)'
    BY <1>1, <1>2 DEF Reported, Queued, Served, QueuedOnce
  <1>4. Held(obj)'
    BY <1>1, <1>3 DEF Held, Served
  <1>5. Kept(obj)'
    BY <1>1 DEF Kept, Working
  <1>6. Replied(obj)'
    BY <1>1, <1>3 DEF Replied, Served, Reported
  <1>7. QED
    BY <1>4, <1>5, <1>6 DEF Sound

LEMMA InitSound ==
    ASSUME IInv, InitSockfd \/ InitAddfd \/ IncRead \/ IncWrite \/ InitReset,
           NEW obj \in Intact, current = obj
    PROVE  Sound(obj)'
  <1> USE MainGoes DEF Step, client, kernel, object, threads, pool, reactor, AllLabels,
                       MainLabels
  <1>1. pc[Main] \in Initing /\ MainWork
    BY DEF InitSockfd, InitAddfd, IncRead, IncWrite, InitReset, Initing, MainWork
  <1>2. /\ obj \in Fds /\ Sound(obj) /\ Common /\ sock[obj] # Free
        /\ Working(obj) /\ Beginning(obj) /\ TypeOK
    BY <1>1, MainAlone DEF Initing, Gone, Beginning, Common
  <1>3. /\ UNCHANGED <<sock, inbox, asked, current>> /\ ~PoolAppend
        /\ inbox[sock[obj]] = asked[sock[obj]]
    BY <1>2 DEF InitSockfd, InitAddfd, IncRead, IncWrite, InitReset, Sound, Buffered,
                PoolAppend
  <1>4. CASE ~InitReset
    <2>1. pc'[Main] \in Initing
      BY <1>2, <1>4 DEF InitSockfd, InitAddfd, IncRead, IncWrite, Initing
    <2>2. Buffered(obj)'
      BY <1>3, <2>1 DEF Buffered, Settled, Working, Initing
    <2>3. Registered(obj)'
      <3>1. CASE InitSockfd
        <4>1. /\ pc[Main] = "init" /\ pc'[Main] = "addfd" /\ armed' = armed
              /\ m_sockfd'[obj] = obj
          BY <1>2, <3>1 DEF InitSockfd, TypeOK
        <4>2. QED
          BY <1>2, <1>3, <4>1
          DEF Sound, Registered, Unregistered, Working, Gone, Calling
      <3>2. CASE InitAddfd
        <4>1. /\ pc[Main] = "addfd" /\ pc'[Main] = "inc_read"
              /\ m_sockfd' = m_sockfd /\ armed'[obj] = "in"
          BY <1>2, <3>2 DEF InitAddfd, TypeOK
        <4>2. QED
          BY <1>2, <1>3, <4>1
          DEF Sound, Registered, Unregistered, Working, Gone, Calling
      <3>3. CASE IncRead \/ IncWrite
        <4>1. /\ pc[Main] \in {"inc_read", "inc_write"}
              /\ pc'[Main] \in {"inc_write", "reset"}
              /\ UNCHANGED <<m_sockfd, armed>>
          BY <1>2, <3>3 DEF IncRead, IncWrite
        <4>2. QED
          BY <1>2, <1>3, <4>1
          DEF Sound, Registered, Unregistered, Working, Gone, Calling
      <3>4. QED
        BY <1>4, <3>1, <3>2, <3>3
    <2>4. armed'[obj] # "out"
      BY <1>2, <1>3, <2>1, <2>3
      DEF Registered, Unregistered, Working, Initing
    <2>5. QED
      BY <1>1, <1>3, <2>1, <2>2, <2>3, <2>4, MainHolds DEF Initing
  <1>5. CASE InitReset
    <2>1. /\ pc[Main] = "reset" /\ pc'[Main] = "event"
          /\ read_buf'[obj] = <<>> /\ reply'[obj] = NoReply
          /\ UNCHANGED <<armed, m_sockfd>>
      BY <1>2, <1>5 DEF InitReset, Emptied, TypeOK
    <2>2. armed[obj] = "in" /\ m_sockfd[obj] = obj
      BY <1>2, <2>1 DEF Sound, Registered
    <2>3. Registered(obj)'
      BY <1>2, <1>3, <2>1, <2>2 DEF Registered, Unregistered, Working
    <2>4. Buffered(obj)'
      <3>1. inbox[sock[obj]] \in Nat
        BY <1>2, OthersBuffers
      <3>2. QED
        BY <1>3, <2>1, <3>1 DEF Buffered, Beginning, Working
    <2>5. QED
      BY <1>1, <1>3, <2>1, <2>2, <2>3, <2>4, MainHolds
  <1>6. QED
    BY <1>4, <1>5

\* recv adds what the client has sent to what it had sent before.
LEMMA ReadSound ==
    ASSUME IInv, Read, NEW obj \in Intact, current = obj
    PROVE  Sound(obj)'
  <1> DEFINE c == sock[obj]
             more == [i \in 1..inbox[c] |-> c]
             buf == read_buf[obj]
  <1>1. pc[Main] = "read" /\ MainWork /\ ~PoolAppend
    BY DEF Read, MainWork, PoolAppend, Step
  <1>2. /\ obj \in Fds /\ Sound(obj) /\ Common /\ c # Free
        /\ Working(obj) /\ m_sockfd[obj] = obj
        /\ armed[obj] = "off" /\ Settled(obj)
    BY <1>1, MainAlone DEF Calling, Gone, Settled, Initing, Closing
  <1>3. Fd = obj /\ Peer = c /\ Connected
    BY <1>2, ConstantFacts DEF Fd, Peer, Connected
  <1>4. c \in Clients /\ inbox[c] \in Nat /\ buf \in Seq(Clients)
    BY <1>2, OthersBuffers
  <1>5. /\ UNCHANGED <<asked, sock, armed, m_sockfd, current, reply>>
        /\ inbox'[c] = 0 /\ read_buf'[obj] = buf \o more
    BY <1>2, <1>3, <1>4 DEF Read, client, reactor, Common, TypeOK
  <1>6. /\ more \in Seq(Clients) /\ Len(more) = inbox[c]
        /\ \A i \in 1..Len(more) : more[i] = c
    BY <1>4
  <1>7. /\ Len(buf \o more) = Len(buf) + inbox[c] /\ Len(buf) \in Nat
        /\ (\A i \in 1..Len(buf) : buf[i] = c) =>
               \A i \in 1..Len(buf \o more) : (buf \o more)[i] = c
    BY <1>4, <1>6
  <1>8. pc'[Main] \in {"append", "close"}
    BY <1>2, <1>3, MainGoes DEF Read, Common, AllLabels, MainLabels, CloseLabels
  <1>9. Registered(obj)'
    BY <1>2, <1>5, <1>8 DEF Registered, Unregistered, Working, Gone, Calling
  <1>10. Buffered(obj)'
    <2>1. /\ Len(buf) + inbox[c] = asked[c]
          /\ \A i \in 1..Len(buf) : buf[i] = c
          /\ reply[obj] # NoReply => /\ reply[obj].to = c
                                         /\ Len(buf) >= Segments
      BY <1>2 DEF Sound, Buffered
    <2>2. /\ Len(read_buf'[obj]) + inbox'[c] = asked[c]
          /\ \A i \in 1..Len(read_buf'[obj]) : read_buf'[obj][i] = c
      BY <1>4, <1>5, <1>7, <2>1
    <2>3. Len(buf) >= Segments => Len(read_buf'[obj]) >= Segments
      BY <1>4, <1>5, <1>7 DEF Segments
    <2>4. ~Beginning(obj)'
      BY <1>8 DEF Beginning, Initing
    <2>5. QED
      BY <1>5, <2>1, <2>2, <2>3, <2>4 DEF Buffered
  <1>11. QED
    BY <1>1, <1>2, <1>5, <1>8, <1>9, <1>10, MainHolds

LEMMA AppendSound ==
    ASSUME IInv, PoolAppend \/ PoolRefuses, NEW obj \in Intact, current = obj
    PROVE  Sound(obj)'
  <1> USE DEF Step, client, kernel, object, threads, pool, reactor
  <1>1. pc[Main] = "append" /\ Goto(Main, "event") /\ MainWork
    BY DEF PoolAppend, PoolRefuses, MainWork
  <1>2. /\ obj \in Fds /\ Sound(obj) /\ Common /\ sock[obj] # Free
        /\ m_sockfd[obj] = obj /\ armed[obj] = "off"
        /\ Settled(obj) /\ QueuedOnce(obj)
        /\ ~Reported(obj) /\ ~Queued(obj) /\ ~Served(obj)
    BY <1>1, MainAlone DEF Calling, Gone, Settled, Initing, Closing
  <1>3. /\ pc'[Main] = "event" /\ \A w \in Workers : pc'[w] = pc[w]
        /\ UNCHANGED <<batch, serving, current, armed, sock, m_sockfd, inbox, asked,
                       read_buf, reply, ret>>
    BY <1>1, <1>2, MainGoes
    DEF PoolAppend, PoolRefuses, Pool!Submit, Common, AllLabels, MainLabels
  <1>4. Registered(obj)'
    BY <1>2, <1>3 DEF Registered, Unregistered, Working
  <1>5. Buffered(obj)'
    BY <1>2, <1>3 DEF Sound, Buffered, Settled, Beginning, Working
  <1>6. CASE PoolAppend
    <2>1. Queued(obj)' /\ QueuedOnce(obj)'
      <3>1. pending' = Append(pending, obj)
        BY <1>6 DEF PoolAppend, Pool!Submit
      <3>2. QED
        BY <1>2, <3>1, AppendQueued DEF Common
    <2>2. ~Working(obj)' /\ ~Reported(obj)' /\ ~Served(obj)'
      BY <1>2, <1>3 DEF Working, Reported, Served
    <2>3. Held(obj)' /\ Kept(obj)'
      BY <1>2, <1>3, <2>1, <2>2 DEF Held, Kept, Served
    <2>4. Replied(obj)'
      BY <1>2, <1>3, <2>2 DEF Replied, Reported, Served
    <2>5. QED
      BY <1>4, <1>5, <2>3, <2>4 DEF Sound
  <1>7. CASE PoolRefuses
    <2>1. sock[obj] \in refused'
      BY <1>7 DEF PoolRefuses
    <2>2. ~PoolAppend
      BY <1>7, ConstantFacts DEF PoolRefuses, PoolAppend, Pool!Submit
    <2>3. QED
      BY <1>1, <1>2, <1>3, <1>4, <1>5, <2>1, <2>2, MainHolds
  <1>8. QED
    BY <1>6, <1>7

\* modfd on the object main writes from, which is open and disarmed.
LEMMA ModfdCurrent ==
    ASSUME IInv, pc[Main] = "write", NEW obj \in Intact, current = obj,
           NEW mask \in {"in", "out"}, Modfd(Fd, mask)
    PROVE  armed'[obj] = mask
  <1>1. obj \in Fds /\ m_sockfd[obj] = obj /\ armed[obj] = "off" /\ TypeOK
    BY MainAlone DEF Calling, Gone, Common
  <1>2. QED
    BY <1>1 DEF Modfd, Fd, TypeOK

\* What main writes is the answer to a whole request that is all read.
LEMMA WriteIsAnswer ==
    ASSUME IInv, pc[Main] = "write", NEW obj \in Intact, current = obj
    PROVE  /\ sock[obj] \in Clients /\ sock[obj] # Free
           /\ Fd = obj /\ Peer = sock[obj]
           /\ HasReply(obj) /\ reply[obj].to = sock[obj]
           /\ asked[sock[obj]] = Segments /\ inbox[sock[obj]] = 0
  <1>1. /\ obj \in Fds /\ sock[obj] # Free /\ m_sockfd[obj] = obj
        /\ Sound(obj) /\ Common /\ Working(obj)
    BY MainAlone DEF Calling, Gone
  <1>2. Fd = obj /\ Peer = sock[obj] /\ HasReply(obj)
    BY <1>1 DEF Fd, Peer, Sound, Replied
  <1>3. Settled(obj)
    BY DEF Settled, Initing, Closing
  <1>4. /\ Len(read_buf[obj]) + inbox[sock[obj]] = asked[sock[obj]]
        /\ reply[obj].to = sock[obj] /\ Len(read_buf[obj]) >= Segments
    BY <1>1, <1>2, <1>3 DEF Sound, Buffered, HasReply
  <1>5. QED
    BY <1>1, <1>2, <1>4, OthersBuffers DEF Segments

LEMMA WriteSound ==
    ASSUME IInv, WriteStep, NEW obj \in Intact, current = obj
    PROVE  Sound(obj)'
  <1> USE MainGoes DEF client, kernel, object, threads, pool, reactor, AllLabels,
                       MainLabels, CloseLabels
  <1> DEFINE c == sock[obj]
  <1>1. pc[Main] = "write" /\ MainWork /\ ~PoolAppend
    BY DEF WriteStep, WriteNothing, WriteSpins, WriteBlocks, WriteFails,
           WriteKeepAlive, WriteLast, Writing, MainWork, PoolAppend, Step
  <1>2. /\ obj \in Fds /\ Sound(obj) /\ Common /\ TypeOK /\ c # Free
        /\ m_sockfd[obj] = obj /\ armed[obj] = "off" /\ Settled(obj)
        /\ Working(obj)
    BY <1>1, MainAlone DEF Calling, Gone, Settled, Initing, Closing, Common
  <1>3. /\ HasReply(obj) /\ Peer = c /\ c \in Clients
        /\ inbox[c] = 0 /\ asked[c] = Segments
    BY <1>1, WriteIsAnswer
  <1>4. UNCHANGED <<sock, m_sockfd, inbox, current>>
    BY DEF WriteStep, WriteNothing, WriteSpins, WriteBlocks, WriteFails,
           WriteKeepAlive, WriteLast
  <1>5. ~WriteNothing
    BY <1>3 DEF WriteNothing, HasReply
  <1>6. CASE WriteSpins \/ WriteFails
    <2>1. /\ pc'[Main] \in {"spinning", "close"}
          /\ UNCHANGED <<armed, asked, read_buf, reply>>
      BY <1>2, <1>6 DEF WriteSpins, WriteFails
    <2>2. Registered(obj)'
      BY <1>2, <1>4, <2>1 DEF Registered, Unregistered, Working, Gone
    <2>3. Buffered(obj)'
      BY <1>2, <1>4, <2>1 DEF Sound, Buffered, Beginning, Initing
    <2>4. QED
      BY <1>1, <1>2, <2>1, <2>2, <2>3, MainHolds
  <1>7. CASE WriteBlocks
    <2>1. /\ pc'[Main] = "event" /\ armed'[obj] = "out"
          /\ UNCHANGED <<asked, read_buf, reply>>
      BY <1>1, <1>2, <1>7, ModfdCurrent DEF WriteBlocks
    <2>2. Registered(obj)'
      BY <1>2, <1>4, <2>1 DEF Registered, Unregistered, Working
    <2>3. Buffered(obj)' /\ HasReply(obj)'
      BY <1>2, <1>3, <1>4, <2>1 DEF Sound, Buffered, Beginning, Working, HasReply
    <2>4. QED
      BY <1>1, <2>1, <2>2, <2>3, MainHolds
  <1>8. CASE WriteKeepAlive
    <2>1. /\ pc'[Main] = "event" /\ armed'[obj] = "in" /\ asked'[c] = 0
          /\ read_buf'[obj] = <<>> /\ reply'[obj] = NoReply
      <3>1. armed'[obj] = "in"
        BY <1>1, <1>8, ModfdCurrent DEF WriteKeepAlive
      <3>2. asked'[c] = 0
        BY <1>2, <1>3, <1>8 DEF WriteKeepAlive, Delivered, TypeOK
      <3>3. QED
        BY <1>2, <1>8, <3>1, <3>2 DEF WriteKeepAlive, Emptied, TypeOK
    <2>2. Registered(obj)'
      BY <1>2, <1>4, <2>1 DEF Registered, Unregistered, Working
    <2>3. Buffered(obj)'
      BY <1>3, <1>4, <2>1 DEF Buffered, Beginning, Working
    <2>4. QED
      BY <1>1, <2>1, <2>2, <2>3, MainHolds
  <1>9. CASE WriteLast
    <2>1. pc'[Main] = "close" /\ armed'[obj] = "in"
      BY <1>1, <1>2, <1>9, ModfdCurrent DEF WriteLast
    <2>2. Registered(obj)'
      BY <1>2, <1>4, <2>1 DEF Registered, Unregistered, Working, Gone, Calling
    <2>3. Buffered(obj)'
      BY <1>4, <2>1 DEF Buffered, Beginning, Settled, Working, Initing, Closing
    <2>4. QED
      BY <1>1, <2>1, <2>2, <2>3, MainHolds
  <1>10. QED
    BY <1>5, <1>6, <1>7, <1>8, <1>9 DEF WriteStep

LEMMA CloseSound ==
    ASSUME IInv, CloseStep(Main), NEW obj \in Intact, current = obj
    PROVE  Sound(obj)'
  <1> USE ConstantFacts, MainGoes DEF Step, client, kernel, object, threads, pool,
                                      reactor, AllLabels, MainLabels, CloseLabels
  <1>1. /\ pc[Main] \in Closing /\ MainWork /\ ~PoolAppend
        /\ Obj(Main) = obj /\ AfterClose(Main) = "event"
    BY DEF CloseStep, CloseTest, Removefd, CloseClear, DecRead, DecWrite, Closing,
           MainWork, PoolAppend, Obj, AfterClose
  <1>2. /\ obj \in Fds /\ Sound(obj) /\ Common /\ TypeOK /\ Working(obj)
        /\ (sock[obj] = Free <=> pc[Main] \in Gone)
        /\ pc[Main] \notin Gone \cup {"init"} => m_sockfd[obj] = obj
    BY <1>1, MainAlone DEF Closing, Common
  <1>3. UNCHANGED <<current, read_buf, reply, asked>>
    BY DEF CloseStep, CloseTest, Removefd, CloseClear, DecRead, DecWrite
  <1>4. ~HasReply(obj) => armed[obj] # "out"
    BY <1>2 DEF Sound, Replied
  <1>5. CASE CloseTest(Main)
    <2>1. /\ pc[Main] = "close" /\ pc'[Main] = "remove"
          /\ UNCHANGED <<armed, sock, m_sockfd, inbox>>
      BY <1>1, <1>2, <1>5 DEF CloseTest, Gone
    <2>2. Registered(obj)'
      BY <1>2, <1>3, <2>1
      DEF Sound, Registered, Unregistered, Working, Gone, Calling
    <2>3. Buffered(obj)' /\ (armed'[obj] = "out" => HasReply(obj)')
      BY <1>2, <1>3, <1>4, <2>1
      DEF Buffered, Beginning, Settled, Working, Initing, Closing, HasReply
    <2>4. QED
      BY <1>1, <2>1, <2>2, <2>3, MainHolds
  <1>6. CASE Removefd(Main)
    <2>1. pc[Main] = "remove" /\ pc'[Main] = "clear"
      BY <1>2, <1>6 DEF Removefd
    <2>2. m_sockfd[obj] = obj /\ sock[obj] # Free
      BY <1>2, <2>1 DEF Gone
    <2>3. sock'[obj] = Free /\ armed'[obj] = "none"
      BY <1>1, <1>2, <1>6, <2>2 DEF Removefd, TypeOK
    <2>4. Registered(obj)' /\ Buffered(obj)'
      BY <1>3, <2>1, <2>3
      DEF Registered, Unregistered, Working, Gone, Calling, Buffered
    <2>5. QED
      BY <1>1, <2>1, <2>3, <2>4, MainHolds
  <1>7. CASE CloseClear(Main) \/ DecRead(Main) \/ DecWrite(Main)
    <2>1. /\ pc[Main] \in Gone /\ pc'[Main] \in {"dec_read", "dec_write", "event"}
          /\ UNCHANGED <<sock, armed>>
      BY <1>1, <1>2, <1>7 DEF CloseClear, DecRead, DecWrite, Gone
    <2>2. sock[obj] = Free /\ armed[obj] = "none"
      BY <1>2, <2>1 DEF Sound, Registered
    <2>3. Registered(obj)' /\ Buffered(obj)'
      BY <1>3, <2>1, <2>2
      DEF Registered, Unregistered, Working, Gone, Calling, Buffered
    <2>4. QED
      BY <1>1, <2>1, <2>2, <2>3, MainHolds
  <1>8. QED
    BY <1>5, <1>6, <1>7 DEF CloseStep

LEMMA MainSound ==
    ASSUME IInv, MainWork, NEW fd \in Intact
    PROVE  Sound(fd)'
  <1>1. CASE fd = current
    BY <1>1, InitSound, ReadSound, AppendSound, WriteSound, CloseSound DEF MainWork
  <1>2. CASE fd # current
    <2>1. fd \in Fds \ {current} /\ Sound(fd) /\ Common
      BY <1>2 DEF IInv, Intact
    <2>2. QED
      BY <2>1, MainFrame, Frame
  <1>3. QED
    BY <1>1, <1>2

-----------------------------------------------------------------------------
(* What holds of the descriptor a worker serves, while no worker has       *)
(* closed it.                                                              *)

LEMMA WorkerAlone ==
    ASSUME IInv, NEW w \in Workers, WorkerWork(w), NEW obj \in Intact,
           serving[w] = obj
    PROVE  /\ obj \in Fds /\ Sound(obj) /\ Common /\ Obj(w) = obj
           /\ ~Working(obj) /\ ~Reported(obj) /\ ~Queued(obj) /\ QueuedOnce(obj)
           /\ \A v \in Workers : serving[v] = obj <=> v = w
           /\ armed[obj] = "off" /\ sock[obj] # Free /\ m_sockfd[obj] = obj
           /\ pc[w] \notin Gone
  <1>1. obj \in Fds /\ Sound(obj) /\ Common
    BY DEF IInv, Intact
  <1>2. Obj(w) = obj
    BY <1>1, WorkerWorkGoes
  <1>3. Served(obj)
    BY DEF Served
  <1>4. /\ ~Working(obj) /\ ~Reported(obj) /\ ~Queued(obj) /\ QueuedOnce(obj)
        /\ \A v \in Workers : serving[v] = obj <=> v = w
        /\ armed[obj] = "off"
    BY <1>1, <1>3 DEF Sound, Held
  <1>5. sock[obj] # Free /\ m_sockfd[obj] = obj
    BY <1>1, <1>4 DEF Sound, Registered, Unregistered
  <1>6. pc[w] \notin Gone
    BY <1>1 DEF Common, Labels, Intact
  <1>7. QED
    BY <1>1, <1>2, <1>4, <1>5, <1>6

\* The worker stays with the object, or arms it and leaves it.
LEMMA WorkerHolds ==
    ASSUME IInv, NEW w \in Workers, WorkerWork(w), NEW obj \in Intact,
           serving[w] = obj, UNCHANGED <<sock, m_sockfd>>,
           IF serving'[w] = obj THEN armed'[obj] = "off"
                                ELSE armed'[obj] \in {"in", "out"},
           Buffered(obj)', armed'[obj] = "out" => HasReply(obj)',
           pc'[w] = "respond" =>
               ret'[w].to = sock[obj] /\ Len(read_buf'[obj]) >= Segments,
           pc'[w] = "modout" => HasReply(obj)'
    PROVE  Sound(obj)'
  <1>1. /\ obj \in Fds /\ Common
        /\ ~Working(obj) /\ ~Reported(obj) /\ ~Queued(obj) /\ QueuedOnce(obj)
        /\ \A v \in Workers : serving[v] = obj <=> v = w
        /\ sock[obj] # Free /\ m_sockfd[obj] = obj
    BY WorkerAlone
  <1>2. /\ pc'[Main] = pc[Main] /\ UNCHANGED <<current, batch, pending>>
        /\ \A v \in Workers \ {w} : serving'[v] = serving[v]
    BY <1>1, WorkerWorkGoes
  <1>3. /\ ~Working(obj)' /\ ~Reported(obj)' /\ ~Queued(obj)' /\ QueuedOnce(obj)'
        /\ \A v \in Workers : serving'[v] = obj => v = w
    BY <1>1, <1>2 DEF Working, Reported, Queued, QueuedOnce
  <1>4. Held(obj)' /\ Kept(obj)'
    BY <1>3 DEF Held, Kept, Served
  <1>5. Registered(obj)'
    BY <1>1, <1>3 DEF Registered, Unregistered
  <1>6. Replied(obj)'
    BY <1>3 DEF Replied, Reported
  <1>7. QED
    BY <1>4, <1>5, <1>6 DEF Sound

\* What process_read and process_write do with the buffers of the object.
LEMMA ProcessSound ==
    ASSUME IInv, NEW w \in Workers, ParseIncomplete(w) \/ Parse(w) \/ Respond(w),
           NEW obj \in Intact, serving[w] = obj
    PROVE  Sound(obj)'
  <1> USE DEF Step, client, kernel, object, threads, pool, reactor
  <1>1. WorkerWork(w)
    BY DEF WorkerWork
  <1>2. /\ obj \in Fds /\ Sound(obj) /\ Common /\ TypeOK /\ WorkersServe
        /\ Obj(w) = obj /\ armed[obj] = "off" /\ sock[obj] # Free /\ ~Working(obj)
    BY <1>1, WorkerAlone DEF Common
  <1>3. /\ UNCHANGED <<sock, m_sockfd, serving, armed, inbox, asked, read_buf, current>>
        /\ pc'[Main] = pc[Main]
    BY <1>1, <1>2, WorkerWorkGoes DEF ParseIncomplete, Parse, Respond
  <1>4. Settled(obj) /\ ~Beginning(obj) /\ ~Beginning(obj)'
    BY <1>2, <1>3 DEF Settled, Beginning, Working
  <1>5. /\ \A i \in 1..Len(read_buf[obj]) : read_buf[obj][i] = sock[obj]
        /\ read_buf[obj] \in Seq(Clients)
    BY <1>2, <1>4 DEF Sound, Buffered, TypeOK
  <1>6. CASE ParseIncomplete(w)
    <2>1. pc'[w] = "modin" /\ UNCHANGED reply
      BY <1>2, <1>6, WorkerGoes DEF ParseIncomplete, AllLabels, WorkerLabels
    <2>2. Buffered(obj)'
      BY <1>2, <1>3, <1>4, <2>1 DEF Sound, Buffered
    <2>3. QED
      BY <1>1, <1>2, <1>3, <2>1, <2>2, WorkerHolds
  <1>7. CASE Parse(w)
    <2>1. /\ pc'[w] = "respond" /\ UNCHANGED reply
          /\ Len(read_buf[obj]) >= Segments
          /\ \E kind \in Kinds : ret' = [ret EXCEPT ![w] =
                 [to |-> Head(read_buf[obj]), kind |-> kind]]
      BY <1>2, <1>7, AnswerTyped, WorkerGoes DEF Parse, AllLabels, WorkerLabels
    <2>2. Head(read_buf[obj]) = sock[obj]
      <3>1. Head(read_buf[obj]) = read_buf[obj][1] /\ 1 \in 1..Len(read_buf[obj])
        BY <1>5, <2>1 DEF Segments
      <3>2. QED
        BY <1>5, <3>1
    <2>3. ret'[w].to = sock[obj]
      BY <1>2, <2>1, <2>2 DEF TypeOK
    <2>4. Buffered(obj)'
      BY <1>2, <1>3, <1>4, <2>1 DEF Sound, Buffered
    <2>5. QED
      BY <1>1, <1>2, <1>3, <2>1, <2>3, <2>4, WorkerHolds
  <1>8. CASE Respond(w)
    <2>1. pc[w] = "respond" /\ pc'[w] \in {"modout", "close"}
      BY <1>2, <1>8, WorkerGoes
      DEF Respond, AllLabels, WorkerLabels, CloseLabels
    <2>2. PICK answer \in Replies :
            /\ answer # NoReply /\ answer.to = ret[w].to
            /\ reply' = [reply EXCEPT ![obj] = answer]
      <3>1. PICK linger \in BOOLEAN, returns \in BOOLEAN :
              LET answer == [to |-> ret[w].to, kind |-> ret[w].kind,
                             linger |-> linger]
              IN  /\ reply' = [reply EXCEPT ![obj] = answer]
                  /\ answer \in Replies /\ answer # NoReply
                  /\ answer.to = ret[w].to
        BY <1>2, <1>8, ReplyTyped
      <3>2. QED
        BY <3>1
    <2>3. reply'[obj] = answer
      BY <1>2, <2>2 DEF TypeOK
    <2>4. ret[w].to = sock[obj] /\ Len(read_buf[obj]) >= Segments
      BY <1>2, <2>1 DEF Sound, Replied
    <2>5. Buffered(obj)' /\ HasReply(obj)'
      BY <1>2, <1>3, <1>4, <2>2, <2>3, <2>4 DEF Sound, Buffered, HasReply
    <2>6. QED
      BY <1>1, <1>2, <1>3, <2>1, <2>5, WorkerHolds
  <1>9. QED
    BY <1>6, <1>7, <1>8

LEMMA FinishSound ==
    ASSUME IInv, NEW w \in Workers, ModIn(w) \/ ModOut(w), NEW obj \in Intact,
           serving[w] = obj
    PROVE  Sound(obj)'
  <1> USE ConstantFacts DEF Step, client, kernel, object, threads, pool, reactor
  <1>1. WorkerWork(w)
    BY DEF WorkerWork
  <1>2. /\ obj \in Fds /\ Sound(obj) /\ Common /\ TypeOK /\ m_sockfd[obj] = obj
        /\ Obj(w) = obj /\ armed[obj] = "off" /\ ~Working(obj)
    BY <1>1, WorkerAlone DEF Common
  <1>3. /\ UNCHANGED <<sock, m_sockfd, inbox, asked, read_buf, reply, current>>
        /\ pc'[Main] = pc[Main] /\ pc'[w] = "idle"
        /\ serving'[w] = NoFd
    BY <1>1, <1>2, WorkerWorkGoes, WorkerGoes
    DEF ModIn, ModOut, AllLabels, WorkerLabels
  <1>4. Buffered(obj)'
    BY <1>2, <1>3 DEF Sound, Buffered, Beginning, Settled, Working
  <1>5. /\ ModIn(w) => armed'[obj] = "in"
        /\ ModOut(w) => armed'[obj] = "out" /\ HasReply(obj)
    BY <1>2 DEF ModIn, ModOut, Modfd, TypeOK, Sound, Replied
  <1>6. HasReply(obj)' <=> HasReply(obj)
    BY <1>3 DEF HasReply
  <1>7. QED
    BY <1>1, <1>2, <1>3, <1>4, <1>5, <1>6, WorkerHolds

\* A worker that closes takes the descriptor from those this is about.
LEMMA WorkerCloseSound ==
    ASSUME IInv, NEW w \in Workers, CloseStep(w), NEW obj \in Intact,
           serving[w] = obj, obj \notin worker_closed'
    PROVE  Sound(obj)'
  <1> USE ConstantFacts DEF Step, client, kernel, object, threads, pool, reactor
  <1>1. WorkerWork(w)
    BY DEF WorkerWork
  <1>2. /\ obj \in Fds /\ Sound(obj) /\ Common /\ TypeOK /\ m_sockfd[obj] = obj
        /\ Obj(w) = obj /\ armed[obj] = "off" /\ ~Working(obj) /\ pc[w] \notin Gone
    BY <1>1, WorkerAlone DEF Common
  <1>3. CloseTest(w)
    BY <1>2 DEF CloseStep, Removefd, CloseClear, DecRead, DecWrite, Gone
  <1>4. /\ UNCHANGED <<sock, m_sockfd, inbox, asked, read_buf, reply, current, armed,
                       serving>>
        /\ pc'[Main] = pc[Main] /\ pc'[w] = "remove"
    BY <1>2, <1>3, WorkerGoes DEF CloseTest, AllLabels, CloseLabels
  <1>5. Buffered(obj)'
    BY <1>2, <1>4 DEF Sound, Buffered, Beginning, Settled, Working
  <1>6. QED
    BY <1>1, <1>2, <1>4, <1>5, WorkerHolds

LEMMA WorkerSound ==
    ASSUME IInv, NEW w \in Workers, WorkerWork(w), NEW fd \in Intact,
           fd \notin worker_closed'
    PROVE  Sound(fd)'
  <1>1. CASE fd = serving[w]
    BY <1>1, ProcessSound, FinishSound, WorkerCloseSound DEF WorkerWork
  <1>2. CASE fd # serving[w]
    <2>1. fd \in Fds \ {serving[w]} /\ Sound(fd) /\ Common
      BY <1>2 DEF IInv, Intact
    <2>2. QED
      BY <2>1, WorkerFrame, Frame
  <1>3. QED
    BY <1>1, <1>2

LEMMA SoundStep == IInv /\ [Next]_vars => \A fd \in Intact' : Sound(fd)'
  <1> SUFFICES ASSUME IInv, [Next]_vars, NEW fd \in Intact'
               PROVE  Sound(fd)'
    OBVIOUS
  <1> USE DEF client, kernel, object, threads, pool, reactor
  <1>1. fd \in Fds /\ fd \notin worker_closed'
    BY DEF Intact
  <1>2. worker_closed \subseteq worker_closed'
    <2>1. ASSUME NEW c \in Clients, ClientStep(c) PROVE UNCHANGED worker_closed
      BY <2>1 DEF ClientStep, Connect, Send, Leave
    <2>2. ASSUME MainStep PROVE UNCHANGED worker_closed
      <3>1. CASE MainWork
        BY <3>1, MainWorkGoes DEF IInv, Common
      <3>2. CASE ~MainWork
        BY <2>2, <3>2 DEF MainStep, MainWork, WriteStep, EpollWait, Dispatch, Accept,
                          AcceptBusy, AcceptFails
      <3>3. QED
        BY <3>1, <3>2
    <2>3. ASSUME NEW w \in Workers, WorkerStep(w)
          PROVE  worker_closed \subseteq worker_closed'
      <3>1. CASE WorkerTake(w)
        BY <3>1 DEF WorkerTake
      <3>2. CASE WorkerWork(w)
        BY <3>2, WorkerWorkGoes DEF IInv
      <3>3. QED
        BY <2>3, <3>1, <3>2 DEF WorkerStep, WorkerWork
    <2>4. QED
      BY <2>1, <2>2, <2>3 DEF Next, vars
  <1>3. fd \in Intact
    BY <1>1, <1>2 DEF Intact
  <1>4. CASE MainStep
    BY <1>3, <1>4, EpollWaitSound, DispatchSound, AcceptSound, NoAcceptSound, MainSound
    DEF MainStep, MainWork, WriteStep
  <1>5. ASSUME NEW w \in Workers, WorkerStep(w) PROVE Sound(fd)'
    BY <1>1, <1>3, <1>5, TakeSound, WorkerSound DEF WorkerStep, WorkerWork
  <1>6. CASE UNCHANGED vars
    <2>1. Unseen(fd)
      BY <1>6 DEF vars, Unseen, Working, Queued, QueuedOnce
    <2>2. QED
      BY <1>1, <1>3, <2>1, Frame DEF IInv
  <1>7. QED
    BY <1>3, <1>4, <1>5, <1>6, ClientSound DEF Next

-----------------------------------------------------------------------------
(* The count of users.                                                     *)

LEMMA FdsFinite == IsFiniteSet(Fds)
  BY FS_Interval, WebServerAssumption DEF Fds

LEMMA OpenFinite ==
    /\ IsFiniteSet(Open) /\ Cardinality(Open) \in Nat
    /\ \A fd \in Fds : fd \in Open <=> sock[fd] # Free
  <1>1. Open \subseteq Fds
    BY DEF Open
  <1>2. QED
    BY <1>1, FdsFinite, FS_Subset, FS_CardinalityType DEF Open, FreeFds

LEMMA AcceptCounted ==
    ASSUME IInv, worker_closed = {}, NEW e \in batch, Accept(e)
    PROVE  Tally'
  <1>1. PICK new \in Fds :
          sock[new] = Free /\ sock' = [sock EXCEPT ![new] = Head(backlog)]
    BY DEF Accept, FreeFds
  <1>2. Head(backlog) # Free
    BY ConstantFacts DEF Accept, IInv, Common, TypeOK
  <1>3. Open' = Open \cup {new} /\ new \notin Open
    BY <1>1, <1>2 DEF Open, FreeFds, IInv, Common, TypeOK
  <1>4. Cardinality(Open') = Cardinality(Open) + 1
    BY <1>3, OpenFinite, FS_AddElement
  <1>5. /\ pc[Main] = "event" /\ pc'[Main] = "init"
        /\ m_user_count' = m_user_count
    BY MainGoes DEF Accept, Listening, IInv, Common, AllLabels, MainLabels, threads
  <1>6. QED
    BY <1>4, <1>5, OpenFinite DEF IInv, Counted, Tally, Uncounted, Gone

LEMMA RemoveCounted ==
    ASSUME IInv, worker_closed = {}, Removefd(Main)
    PROVE  Tally'
  <1>1. /\ current \in Fds /\ sock[current] # Free /\ m_sockfd[current] = current
    BY DEF Removefd, Step, IInv, Common, TypeOK, Intact, Sound, Registered, Working, Gone
  <1>2. sock' = [sock EXCEPT ![current] = Free]
    BY <1>1, ConstantFacts DEF Removefd, Obj
  <1>3. Open' = Open \ {current} /\ current \in Open
    BY <1>1, <1>2 DEF Open, FreeFds, IInv, Common, TypeOK
  <1>4. Cardinality(Open') = Cardinality(Open) - 1
    BY <1>3, OpenFinite, FS_RemoveElement
  <1>5. /\ pc[Main] = "remove" /\ pc'[Main] = "clear"
        /\ m_user_count' = m_user_count
    BY MainGoes DEF Removefd, Step, IInv, Common, AllLabels, CloseLabels, threads
  <1>6. QED
    BY <1>4, <1>5, OpenFinite DEF IInv, Counted, Tally, Uncounted, Gone

\* The steps of ++ and --.
LEMMA CounterCounted ==
    ASSUME IInv, worker_closed = {}, IncRead \/ IncWrite \/ DecRead(Main) \/ DecWrite(Main)
    PROVE  Tally'
  <1>1. Open' = Open
    BY DEF IncRead, IncWrite, DecRead, DecWrite, kernel, Open, FreeFds
  <1>2. m_user_count \in Int /\ tmp \in [Threads -> Int] /\ Main \in Threads
    BY ConstantFacts DEF IInv, Common, TypeOK
  <1> USE <1>1, <1>2, OpenFinite, MainGoes
          DEF Step, IInv, Common, Counted, Tally, Uncounted, Gone, AllLabels, MainLabels, CloseLabels
  <1>3. CASE IncRead
    <2>1. pc[Main] = "inc_read" /\ pc'[Main] = "inc_write"
      BY <1>3 DEF IncRead
    <2>2. QED
      BY <1>3, <2>1 DEF IncRead
  <1>4. CASE IncWrite
    <2>1. pc[Main] = "inc_write" /\ pc'[Main] = "reset"
      BY <1>4 DEF IncWrite
    <2>2. QED
      BY <1>4, <2>1 DEF IncWrite
  <1>5. CASE DecRead(Main)
    <2>1. pc[Main] = "dec_read" /\ pc'[Main] = "dec_write"
      BY <1>5 DEF DecRead
    <2>2. QED
      BY <1>5, <2>1 DEF DecRead
  <1>6. CASE DecWrite(Main)
    <2>1. pc[Main] = "dec_write" /\ pc'[Main] = "event"
      BY <1>6 DEF DecWrite, AfterClose
    <2>2. QED
      BY <1>6, <2>1 DEF DecWrite
  <1>7. QED
    BY <1>3, <1>4, <1>5, <1>6

\* Every other step leaves the table, the threads and what is uncounted alone.
LEMMA OtherCounted ==
    ASSUME IInv, worker_closed = {}, UNCHANGED <<sock, m_user_count, tmp>>, Uncounted' = Uncounted,
           pc'[Main] \notin {"inc_write", "dec_write"} \/ pc'[Main] = pc[Main]
    PROVE  Tally'
  <1>1. Open' = Open
    BY DEF Open, FreeFds
  <1>2. QED
    BY <1>1 DEF IInv, Counted, Tally

LEMMA MainCounted ==
    ASSUME IInv, worker_closed = {}, MainStep
    PROVE  Tally'
  <1> USE ConstantFacts, MainGoes, OtherCounted
          DEF Step, kernel, object, threads, pool, reactor, IInv, Common, Uncounted, Gone,
              AllLabels, MainLabels, CloseLabels
  <1>1. CASE EpollWait
    BY <1>1 DEF EpollWait
  <1>2. ASSUME NEW e \in batch, Dispatch(e) PROVE Tally'
    <2>1. e \in [fd : Fds, ev : {"hup", "in", "out"}]
      BY <1>2 DEF Dispatch, TypeOK, ListenEvent
    <2>2. PICK label \in {"close", "read", "write"} : Goto(Main, label)
      BY <1>2, <2>1 DEF Dispatch
    <2>3. pc[Main] = "event" /\ pc'[Main] \in {"close", "read", "write"}
      BY <1>2, <2>2 DEF Dispatch
    <2>4. QED
      BY <1>2, <2>3 DEF Dispatch
  <1>3. ASSUME NEW e \in batch, AcceptBusy(e) \/ AcceptFails(e) PROVE Tally'
    BY <1>3 DEF AcceptBusy, AcceptFails
  <1>4. CASE InitSockfd \/ InitAddfd \/ InitReset
    <2>1. \/ pc[Main] = "init" /\ pc'[Main] = "addfd"
          \/ pc[Main] = "addfd" /\ pc'[Main] = "inc_read"
          \/ pc[Main] = "reset" /\ pc'[Main] = "event"
      BY <1>4 DEF InitSockfd, InitAddfd, InitReset
    <2>2. UNCHANGED <<sock, m_user_count, tmp>>
      BY <1>4 DEF InitSockfd, InitAddfd, InitReset
    <2>3. QED
      BY <2>1, <2>2
  <1>5. CASE Read \/ PoolAppend \/ PoolRefuses
    <2>1. /\ pc[Main] \in {"read", "append"}
          /\ pc'[Main] \in {"event", "append", "close"}
      BY <1>5 DEF Read, PoolAppend, PoolRefuses
    <2>2. UNCHANGED <<sock, m_user_count, tmp>>
      BY <1>5 DEF Read, PoolAppend, PoolRefuses
    <2>3. QED
      BY <2>1, <2>2
  <1>6. CASE WriteStep
    <2>1. pc[Main] = "write" /\ pc'[Main] \in {"event", "close", "spinning"}
      BY <1>6 DEF WriteStep, Writing, WriteNothing, WriteSpins, WriteBlocks,
                  WriteFails, WriteKeepAlive, WriteLast
    <2>2. UNCHANGED <<sock, m_user_count, tmp>>
      BY <1>6 DEF WriteStep, WriteNothing, WriteSpins, WriteBlocks, WriteFails,
                  WriteKeepAlive, WriteLast
    <2>3. QED
      BY <2>1, <2>2
  <1>7. CASE CloseTest(Main)
    <2>1. m_sockfd[current] # NoFd
      BY <1>7 DEF CloseTest, TypeOK, Intact, Sound, Registered, Working, Gone
    <2>2. pc[Main] = "close" /\ pc'[Main] = "remove"
      BY <1>7, <2>1 DEF CloseTest, Obj
    <2>3. UNCHANGED <<sock, m_user_count, tmp>>
      BY <1>7 DEF CloseTest
    <2>4. QED
      BY <2>2, <2>3
  <1>8. CASE CloseClear(Main)
    <2>1. pc[Main] = "clear" /\ pc'[Main] = "dec_read"
      BY <1>8 DEF CloseClear
    <2>2. UNCHANGED <<sock, m_user_count, tmp>>
      BY <1>8 DEF CloseClear
    <2>3. QED
      BY <2>1, <2>2
  <1>9. QED
    BY <1>1, <1>2, <1>3, <1>4, <1>5, <1>6, <1>7, <1>8, AcceptCounted,
       RemoveCounted, CounterCounted
    DEF MainStep, WriteStep, CloseStep

LEMMA CountedStep == IInv /\ [Next]_vars => Counted'
  <1> SUFFICES ASSUME IInv, [Next]_vars, worker_closed' = {} PROVE Tally'
    BY DEF Counted
  <1>1. ASSUME NEW c \in Clients, ClientStep(c) PROVE Tally'
    <2>1. UNCHANGED <<sock, m_user_count, tmp, worker_closed, pc>>
      BY <1>1 DEF ClientStep, Connect, Send, Leave, kernel, threads
    <2>2. QED
      BY <2>1, OtherCounted DEF Uncounted
  <1>2. ASSUME NEW w \in Workers, WorkerTake(w) PROVE Tally'
    <2>1. UNCHANGED <<sock, m_user_count, tmp, worker_closed, pc[Main]>>
      BY <1>2, TakeGoes DEF IInv, Common, kernel, threads
    <2>2. QED
      BY <2>1, OtherCounted DEF Uncounted
  <1>3. ASSUME NEW w \in Workers, WorkerWork(w) PROVE Tally'
    <2>1. /\ worker_closed = {} /\ pc'[Main] = pc[Main]
      BY <1>3, WorkerWorkGoes DEF IInv
    <2>2. pc[w] \notin Gone /\ ~Removefd(w)
      BY <2>1, ConstantFacts DEF IInv, Common, Labels, Removefd
    <2>3. UNCHANGED <<sock, m_user_count, tmp>>
      BY <1>3, <2>2
      DEF WorkerWork, ParseIncomplete, Parse, Respond, ModIn, ModOut, CloseStep,
          CloseTest, CloseClear, DecRead, DecWrite, Gone, Step, kernel, threads
    <2>4. QED
      BY <2>1, <2>3, OtherCounted DEF Uncounted
  <1>4. CASE UNCHANGED vars
    BY <1>4, OtherCounted DEF vars, kernel, threads, Uncounted
  <1>5. CASE MainStep
    <2>1. UNCHANGED worker_closed
      BY <1>5
      DEF MainStep, EpollWait, Dispatch, Accept, AcceptBusy, AcceptFails, InitSockfd,
          InitAddfd, IncRead, IncWrite, InitReset, Read, PoolAppend, PoolRefuses,
          WriteNothing, WriteSpins, WriteBlocks, WriteFails, WriteKeepAlive,
          WriteLast, CloseStep, CloseTest, Removefd, CloseClear, DecRead, DecWrite,
          threads
    <2>2. QED
      BY <1>5, <2>1, MainCounted
  <1>6. QED
    BY <1>1, <1>2, <1>3, <1>4, <1>5 DEF Next, WorkerStep, WorkerWork

-----------------------------------------------------------------------------
(* The invariant is inductive.                                             *)

LEMMA InitIInv == Init => IInv
  <1> SUFFICES ASSUME Init PROVE IInv
    OBVIOUS
  <1> USE ConstantFacts
  <1>1. /\ pc[Main] = "event" /\ \A w \in Workers : pc[w] = "idle"
        /\ \A w \in Workers : serving[w] = NoFd
        /\ pending = <<>> /\ backlog = <<>> /\ batch = {} /\ m_user_count = 0
        /\ worker_closed = {}
    BY DEF Init, Pool!Init
  <1>2. \A fd \in Fds : /\ sock[fd] = Free /\ armed[fd] = "none"
                        /\ m_sockfd[fd] = NoFd
    BY DEF Init
  <1>3. \A c \in Clients : inbox[c] = 0 /\ asked[c] = 0
    BY DEF Init
  <1>4. Labels /\ OwnNumber /\ ReportedOnce /\ Unread
    BY <1>1, <1>2, <1>3
    DEF Labels, OwnNumber, ReportedOnce, Unread, WorkerLabels, Gone
  <1>5. OneConnection
    <2>1. 1..Len(backlog) = {}
      BY <1>1
    <2>2. QED
      BY <1>2, <2>1 DEF OneConnection
  <1>6. Counted
    <2>1. Open = {}
      BY <1>2 DEF Open, FreeFds
    <2>2. QED
      BY <1>1, <2>1, FS_EmptySet DEF Counted, Tally, Uncounted, Gone
  <1>7. ASSUME NEW fd \in Intact PROVE Sound(fd)
    <2>1. /\ fd \in Fds /\ fd # NoFd
          /\ ~Working(fd) /\ ~Reported(fd) /\ ~Queued(fd) /\ ~Served(fd)
      BY <1>1, <1>7 DEF Intact, Working, Reported, Queued, Served
    <2>2. Held(fd)
      BY <1>1, <2>1 DEF Held, QueuedOnce
    <2>3. Registered(fd) /\ Kept(fd) /\ Buffered(fd) /\ Replied(fd)
      BY <1>1, <1>2, <2>1
      DEF Registered, Unregistered, Kept, Buffered, Replied
    <2>4. QED
      BY <2>2, <2>3 DEF Sound
  <1>8. QED
    BY <1>4, <1>5, <1>6, <1>7, InitTyped DEF IInv, Common

LEMMA IInvStep == IInv /\ [Next]_vars => IInv'
  BY CommonStep, CountedStep, SoundStep DEF IInv

LEMMA InvIsInductive == Spec => []IInv
  BY InitIInv, IInvStep, PTL DEF Spec

-----------------------------------------------------------------------------
(* The theorems: whatever is asked for, on what no worker has closed.      *)

\* A set whose elements are all the same has one at most.
LEMMA AtMostOne ==
    ASSUME NEW S, \A x, y \in S : x = y
    PROVE  Cardinality(S) <= 1
  <1>1. CASE S = {}
    BY <1>1, FS_EmptySet
  <1>2. CASE S # {}
    <2>1. PICK x \in S : TRUE
      BY <1>2
    <2>2. S = {x}
      BY <2>1
    <2>3. QED
      BY <2>2, FS_Singleton
  <1>3. QED
    BY <1>1, <1>2

LEMMA OneHolder ==
    ASSUME IInv, NEW fd \in Intact
    PROVE  Cardinality(Holders(fd)) <= 1
  <1>1. fd \in Fds /\ Held(fd)
    BY DEF IInv, Intact, Sound
  <1>2. MainHas(fd) => ~Queued(fd) /\ ~Served(fd)
    BY <1>1 DEF MainHas, Working, Reported, Held
  <1>3. ASSUME NEW x \in Holders(fd), NEW y \in Holders(fd) PROVE x = y
    <2> DEFINE Holds(z) == \/ z \in Workers /\ serving[z] = fd
                           \/ z = Main /\ MainHas(fd)
                           \/ z \in 1..Len(pending) /\ pending[z] = fd
    <2>1. Holds(x) /\ Holds(y)
      BY <1>3 DEF Holders
    <2>2. Queued(fd) => ~Served(fd)
      BY <1>1 DEF Held
    <2>3. /\ \A z \in Workers : serving[z] = fd => Served(fd)
          /\ \A z \in 1..Len(pending) : pending[z] = fd => Queued(fd)
      BY DEF Served, Queued
    <2>4. /\ \A v, w \in Workers : serving[v] = fd /\ serving[w] = fd => v = w
          /\ \A i, j \in 1..Len(pending) :
                 pending[i] = fd /\ pending[j] = fd => i = j
      BY <1>1 DEF Held, QueuedOnce
    <2>5. QED
      BY <1>2, <2>1, <2>2, <2>3, <2>4
  <1>4. QED
    BY <1>3, AtMostOne

\* EPOLLONESHOT and its reset by modfd (http_conn.cpp:39) do what the comment of
\* addfd says for every object whose descriptor no worker has closed, whatever
\* workers do on the other objects: it is never in the hands of two threads and
\* never queued twice, for any number of clients, workers and descriptors, any
\* size of the queue and any requests.
THEOREM OneThreadKept == Spec => []OneThreadElsewhere
  <1>1. IInv => OneThreadElsewhere
    BY OneHolder DEF OneThreadElsewhere
  <1>2. QED
    BY <1>1, InvIsInductive, PTL

\* Every path through main and process() leaves such a connection armed,
\* reported, queued or in the hands of a thread, and append (15_6.cpp:123) loses
\* only the connection whose request it refuses.
THEOREM NoneForgotten == Spec => []NoConnectionForgotten
  <1>1. IInv => NoConnectionForgotten
    <2> SUFFICES ASSUME IInv, NEW fd \in Intact, sock[fd] # Free,
                        sock[fd] \notin refused
                 PROVE  Holders(fd) # {}
      BY DEF NoConnectionForgotten
    <2>1. fd \in Fds /\ Registered(fd) /\ Kept(fd) /\ TypeOK
      BY DEF IInv, Common, Intact, Sound
    <2>2. armed[fd] \in {"in", "out"} \/ armed[fd] = "off" \/ Unregistered(fd)
      BY <2>1 DEF TypeOK, Registered
    <2>3. MainHas(fd) \/ Queued(fd) \/ Served(fd)
      BY <2>1, <2>2 DEF MainHas, Unregistered, Working, Reported, Kept
    <2>4. MainHas(fd) => Main \in Holders(fd)
      BY DEF Holders
    <2>5. ASSUME Queued(fd) PROVE Holders(fd) # {}
      BY <2>5 DEF Queued, Holders
    <2>6. ASSUME Served(fd) PROVE Holders(fd) # {}
      BY <2>6 DEF Served, Holders
    <2>7. QED
      BY <2>3, <2>4, <2>5, <2>6
  <1>2. QED
    BY <1>1, InvIsInductive, PTL

\* Until a worker closes a connection m_user_count is exact whenever nobody is in
\* the middle of accept or close_conn, though ++ and -- (http_conn.cpp:54 and
\* 67) take no lock.
THEOREM CountExact == Spec => []UserCountExact
  <1>1. IInv => UserCountExact
    <2> SUFFICES ASSUME IInv, worker_closed = {}, ~Counting
                 PROVE  m_user_count = Cardinality(Fds \ FreeFds)
      BY DEF UserCountExact
    <2>1. m_user_count = Cardinality(Open) + Uncounted
      BY DEF IInv, Counted, Tally
    <2>2. Uncounted = 0
      BY ConstantFacts DEF Counting, Uncounted, Gone
    <2>3. QED
      BY <2>1, <2>2, OpenFinite DEF Open
  <1>2. QED
    BY <1>1, InvIsInductive, PTL

\* On a descriptor that no worker has closed write() never sends what another
\* client, or an earlier client of the same object, asked for: the reply is to a
\* whole request of the peer.
THEOREM RepliesAreTheirs == Spec => []ReplyToItsClient
  <1>1. IInv => ReplyToItsClient
    <2> SUFFICES ASSUME IInv, pc[Main] = "write", NEW obj \in Intact, current = obj
                 PROVE  /\ reply[current].to = Peer /\ asked[Peer] = Segments
                        /\ inbox[Peer] = 0
      BY DEF ReplyToItsClient, Writing
    <2>1. QED
      BY WriteIsAnswer
  <1>2. QED
    BY <1>1, InvIsInductive, PTL

-----------------------------------------------------------------------------
(* Requests that name files with contents alone: no worker closes anything. *)

FilesOnly == Kinds \subseteq {"file"}
OnlyMainCloses ==
    /\ worker_closed = {} /\ \A w \in Workers : pc[w] \in WorkerLabels
    /\ \A fd \in Fds : HasReply(fd) => iov[fd]
    /\ pc[Main] # "spinning"

\* process_write succeeds, and sets m_iv when it leaves a reply.
LEMMA RespondSucceeds ==
    ASSUME FilesOnly, IInv, OnlyMainCloses, NEW w \in Workers, Respond(w)
    PROVE  OnlyMainCloses'
  <1>1. TypeOK /\ WorkersServe /\ serving[w] \in Fds /\ pc[w] = "respond"
    BY ReplyTyped DEF IInv, Common
  <1>2. ret[w].kind = "file"
    BY <1>1 DEF FilesOnly, WorkersServe, TypeOK, Answers
  <1>3. PICK answer : /\ reply' = [reply EXCEPT ![serving[w]] = answer]
                      /\ iov' = [iov EXCEPT ![serving[w]] = TRUE]
                      /\ Goto(w, "modout")
    <2>1. PICK linger \in BOOLEAN, returns \in BOOLEAN :
            LET answer == [to |-> ret[w].to, kind |-> ret[w].kind,
                           linger |-> linger]
            IN  /\ reply' = [reply EXCEPT ![serving[w]] = answer]
                /\ ret[w].kind = "file" => returns
                /\ iov' = [iov EXCEPT ![serving[w]] = @ \/ ret[w].kind = "file"]
                /\ Goto(w, IF returns THEN "modout" ELSE "close")
      BY <1>1, ReplyTyped
    <2>2. Goto(w, "modout")
      BY <1>2, <2>1
    <2>3. iov' = [iov EXCEPT ![serving[w]] = TRUE]
      BY <1>1, <1>2, <2>1 DEF TypeOK
    <2>4. QED
      BY <2>1, <2>2, <2>3
  <1>4. \A fd \in Fds : HasReply(fd)' => iov'[fd]
    BY <1>1, <1>3 DEF OnlyMainCloses, HasReply, TypeOK
  <1>5. /\ pc'[w] = "modout" /\ pc'[Main] = pc[Main]
        /\ \A v \in Workers : v # w => pc'[v] = pc[v]
    BY <1>1, <1>3, WorkerGoes DEF AllLabels, WorkerLabels
  <1>6. QED
    BY <1>4, <1>5 DEF OnlyMainCloses, WorkerLabels, Respond

\* Main takes replies away and sets no m_iv.
LEMMA MainSpinsNot ==
    ASSUME IInv, OnlyMainCloses, MainStep
    PROVE  OnlyMainCloses'
  <1> USE DEF client, kernel, object, threads, pool, reactor
  <1>1. TypeOK
    BY DEF IInv, Common
  <1>2. current \in Fds
    BY <1>1 DEF TypeOK
  <1>3. ~WriteSpins
    BY <1>2 DEF WriteSpins, Writing, OnlyMainCloses, HasReply
  <1>4. ASSUME MainWork PROVE OnlyMainCloses'
    <2>1. UNCHANGED worker_closed /\ \A w \in Workers : pc'[w] = pc[w]
      BY <1>1, <1>4, MainWorkGoes
    <2>2. UNCHANGED iov /\ \A fd \in Fds : HasReply(fd)' => HasReply(fd)
      BY <1>1, <1>3, <1>4
      DEF MainWork, InitSockfd, InitAddfd, IncRead, IncWrite, InitReset, Emptied,
          Read, PoolAppend, PoolRefuses, WriteStep, WriteNothing, WriteBlocks,
          WriteFails, WriteKeepAlive, WriteLast, CloseStep, CloseTest, Removefd,
          CloseClear, DecRead, DecWrite, HasReply, TypeOK
    <2>3. pc'[Main] # "spinning"
      <3>1. PICK label \in AllLabels : label # "spinning" /\ Goto(Main, label)
        BY <1>3, <1>4
        DEF MainWork, InitSockfd, InitAddfd, IncRead, IncWrite, InitReset, Read,
            PoolAppend, PoolRefuses, WriteStep, WriteNothing, WriteBlocks,
            WriteFails, WriteKeepAlive, WriteLast, CloseStep, CloseTest, Removefd,
            CloseClear, DecRead, DecWrite, Step, AfterClose, AllLabels, MainLabels,
            CloseLabels
      <3>2. QED
        BY <1>1, <3>1, MainGoes
    <2>4. QED
      BY <2>1, <2>2, <2>3 DEF OnlyMainCloses
  <1>5. ASSUME ~MainWork PROVE OnlyMainCloses'
    <2>1. UNCHANGED <<reply, iov, worker_closed>>
      BY <1>5 DEF MainStep, MainWork, WriteStep, EpollWait, Dispatch, Accept,
                  AcceptBusy, AcceptFails
    <2>2. pc'[Main] # "spinning" /\ \A w \in Workers : pc'[w] = pc[w]
      <3>1. ASSUME NEW e \in batch, Dispatch(e)
            PROVE  pc'[Main] # "spinning" /\ \A w \in Workers : pc'[w] = pc[w]
        BY <1>1, <3>1, DispatchGoes
      <3>2. ASSUME NEW e \in batch, Accept(e)
            PROVE  pc'[Main] # "spinning" /\ \A w \in Workers : pc'[w] = pc[w]
        BY <1>1, <3>2, MainGoes DEF Accept, AllLabels, MainLabels
      <3>3. CASE UNCHANGED pc
        BY <3>3 DEF OnlyMainCloses
      <3>4. QED
        BY <1>5, <3>1, <3>2, <3>3
        DEF MainStep, MainWork, WriteStep, EpollWait, AcceptBusy, AcceptFails
    <2>3. QED
      BY <2>1, <2>2 DEF OnlyMainCloses, HasReply
  <1>6. QED
    BY <1>4, <1>5

LEMMA OnlyMainStep ==
    FilesOnly /\ IInv /\ OnlyMainCloses /\ [Next]_vars => OnlyMainCloses'
  <1> SUFFICES ASSUME FilesOnly, IInv, OnlyMainCloses, [Next]_vars
               PROVE  OnlyMainCloses'
    OBVIOUS
  <1> USE DEF client, kernel, object, threads, pool, reactor
  <1>1. ASSUME NEW c \in Clients, ClientStep(c) PROVE OnlyMainCloses'
    BY <1>1 DEF ClientStep, Connect, Send, Leave, OnlyMainCloses, HasReply
  <1>2. ASSUME NEW w \in Workers, WorkerTake(w) PROVE OnlyMainCloses'
    <2>1. /\ pc'[w] = "parse" /\ pc'[Main] = pc[Main]
          /\ \A v \in Workers \ {w} : pc'[v] = pc[v]
          /\ UNCHANGED <<reply, iov, worker_closed>>
      BY <1>2, TakeGoes DEF IInv, Common
    <2>2. QED
      BY <2>1 DEF OnlyMainCloses, HasReply, WorkerLabels
  <1>3. ASSUME NEW w \in Workers,
               ParseIncomplete(w) \/ Parse(w) \/ ModIn(w) \/ ModOut(w)
        PROVE  OnlyMainCloses'
    <2>1. PICK label \in WorkerLabels : Goto(w, label)
      BY <1>3 DEF ParseIncomplete, Parse, ModIn, ModOut, Step, WorkerLabels
    <2>2. /\ pc'[w] = label /\ pc'[Main] = pc[Main]
          /\ \A v \in Workers : v # w => pc'[v] = pc[v]
      BY <2>1, WorkerGoes DEF IInv, Common, AllLabels
    <2>3. UNCHANGED <<reply, iov, worker_closed>>
      BY <1>3 DEF ParseIncomplete, Parse, ModIn, ModOut
    <2>4. QED
      BY <2>2, <2>3 DEF OnlyMainCloses, HasReply
  <1>4. ASSUME NEW w \in Workers PROVE ~CloseStep(w)
    BY DEF OnlyMainCloses, WorkerLabels, CloseStep, CloseTest, Removefd, CloseClear,
           DecRead, DecWrite, Step
  <1>5. CASE UNCHANGED vars
    BY <1>5 DEF vars, OnlyMainCloses, HasReply
  <1>6. QED
    BY <1>1, <1>2, <1>3, <1>4, <1>5, RespondSucceeds, MainSpinsNot
    DEF Next, WorkerStep

LEMMA OnlyMain == FilesOnly /\ Spec => [](IInv /\ OnlyMainCloses)
  <1>1. Init => OnlyMainCloses
    BY ConstantFacts DEF Init, OnlyMainCloses, HasReply, WorkerLabels
  <1>2. FilesOnly /\ IInv /\ OnlyMainCloses /\ [Next]_vars => OnlyMainCloses'
    BY OnlyMainStep
  <1>3. FilesOnly => FilesOnly'
    BY DEF FilesOnly
  <1>4. QED
    BY <1>1, <1>2, <1>3, InvIsInductive, PTL DEF Spec

\* While requests name files with contents, close_conn() runs in main() alone and
\* no object whatever is in the hands of two threads.
THEOREM OneThread == FilesOnly /\ Spec => []OneThreadPerObject
  <1>1. IInv /\ OnlyMainCloses => OneThreadPerObject
    BY OneHolder DEF OnlyMainCloses, OneThreadPerObject, Intact
  <1>2. QED
    BY <1>1, OnlyMain, PTL

\* Then the loop of write() (http_conn.cpp:302) always ends, too: m_iv is set.
THEOREM NeverSpins == FilesOnly /\ Spec => [](pc[Main] # "spinning")
  <1>1. IInv /\ OnlyMainCloses => pc[Main] # "spinning"
    BY DEF OnlyMainCloses
  <1>2. QED
    BY <1>1, OnlyMain, PTL
==============================================================================
