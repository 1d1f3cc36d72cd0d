------------------------------ MODULE WebServer ------------------------------
(***************************************************************************)
(* The web server of 15_6.cpp: the reactor in main(), the http_conn        *)
(* objects it keeps in users[], the epoll table they share, and the worker *)
(* threads of the pool, which run http_conn::process().  The pool is the   *)
(* abstract queue of RequestQueue.tla, which ThreadPool.tla implements.    *)
(*                                                                         *)
(* A step is a statement, or a call, that another thread can observe.      *)
(* Requests travel in two segments, so that a read can find half of one;   *)
(* what a request asks for is chosen where stat() finds it out.            *)
(***************************************************************************)
EXTENDS Integers, Sequences, FiniteSets

CONSTANTS
    Clients,    \* each connects at most once
    Workers,    \* the worker threads
    Main,       \* the thread of main()
    Free,       \* in the descriptor table: no socket
    BaseFd,     \* the first descriptor accept can return
    FdLimit,    \* descriptors are below this (RLIMIT_NOFILE)
    MAX_FD,     \* the size of users[]
    Capacity,   \* how many requests the pool can hold
    Kinds,      \* what requests can ask for: subset of {"file", "empty", "error"}
    MaxRounds,  \* bound: requests of one client
    MaxBlocks   \* bound: how often writev finds no room

ASSUME WebServerAssumption ==
    /\ IsFiniteSet(Clients) /\ IsFiniteSet(Workers)
    /\ Main \notin Workers /\ Free \notin Clients
    /\ BaseFd \in Nat /\ FdLimit \in Nat /\ BaseFd < FdLimit
    /\ MAX_FD \in Nat \ {0} /\ Capacity \in Nat \ {0}
    /\ Kinds \subseteq {"file", "empty", "error"}
    /\ MaxRounds \in Nat /\ MaxBlocks \in Nat

Threads == Workers \cup {Main}
Fds == BaseFd .. (FdLimit - 1)
NoFd == -1
Segments == 2   \* a request is complete when this many segments are read

VARIABLES
    \* the clients
    cstate,     \* [Clients -> {"new", "backlog", "open", "closed"}]
    asked,      \* segments sent of the request the server is not done with
    rounds,     \* requests begun
    left,       \* the client has closed its end
    \* the kernel
    inbox,      \* segments received and not read
    sock,       \* [Fds -> Clients \cup {Free}], the descriptor table
    armed,      \* [Fds -> events epoll waits for], "none": not registered
    backlog,    \* connections not accepted, oldest first
    edge,       \* the listening socket has an event to report
    \* users[] and the static counter
    m_sockfd,   \* [Fds -> Fds \cup {NoFd}]
    read_buf,   \* whose segments the read buffer holds
    reply,      \* what the write buffer holds, or NoReply
    iov,        \* m_iv has been set by some file reply
    m_user_count,
    \* the pool
    pending, serving,
    \* the threads
    pc, tmp,    \* label and register of each thread
    ret,        \* what process_read has returned to a worker
    current,    \* the connfd or sockfd main works on
    batch,      \* events of the last epoll_wait not handled yet
    blocks,     \* EAGAINs of writev so far
    \* history
    unserved,   \* clients with a request overlooked, or answered in part
    refused,    \* clients with a request that append has refused
    worker_closed   \* descriptors that a worker, not main, has closed

client == <<cstate, asked, rounds, left, unserved>>
kernel == <<inbox, sock, armed, backlog, edge>>
object == <<m_sockfd, read_buf, reply, iov>>
threads == <<m_user_count, tmp, ret, worker_closed>>
pool == <<pending, serving>>
reactor == <<current, batch, blocks, refused>>
vars == <<client, kernel, object, threads, pool, reactor, pc>>

Pool == INSTANCE RequestQueue WITH Requests <- Fds, NoRequest <- NoFd

NoReply == [to |-> Free, kind |-> "none", linger |-> FALSE]
Replies == [to : Clients, kind : Kinds, linger : BOOLEAN] \cup {NoReply}
NoAnswer == [to |-> Free, kind |-> "none"]
Answers == [to : Clients, kind : Kinds] \cup {NoAnswer}

MainLabels ==
    {"event", "init", "addfd", "inc_read", "inc_write", "reset", "read",
     "append", "write", "spinning"}
CloseLabels == {"close", "remove", "clear", "dec_read", "dec_write"}
WorkerLabels == {"idle", "parse", "respond", "modin", "modout"}

Init ==
    /\ cstate = [c \in Clients |-> "new"]
    /\ asked = [c \in Clients |-> 0]
    /\ rounds = [c \in Clients |-> 0]
    /\ left = [c \in Clients |-> FALSE]
    /\ unserved = {}
    /\ inbox = [c \in Clients |-> 0]
    /\ sock = [fd \in Fds |-> Free]
    /\ armed = [fd \in Fds |-> "none"]
    /\ backlog = <<>>
    /\ edge = FALSE
    /\ m_sockfd = [fd \in Fds |-> NoFd]
    /\ read_buf = [fd \in Fds |-> <<>>]
    /\ reply = [fd \in Fds |-> NoReply]
    /\ iov = [fd \in Fds |-> FALSE]
    /\ m_user_count = 0
    /\ Pool!Init
    /\ pc = [t \in Threads |-> IF t = Main THEN "event" ELSE "idle"]
    /\ tmp = [t \in Threads |-> 0]
    /\ ret = [w \in Workers |-> NoAnswer]
    /\ current = BaseFd
    /\ batch = {}
    /\ blocks = 0
    /\ refused = {}
    /\ worker_closed = {}

Goto(t, label) == pc' = [pc EXCEPT ![t] = label]
Step(t, from, to) == pc[t] = from /\ Goto(t, to)

\* The object a thread works on: users[current] or the pool's request.
Obj(t) == IF t = Main THEN current ELSE serving[t]

\* modfd(m_epollfd, m_sockfd, ev): fails on -1 and on what is not registered.
Modfd(fd, ev) ==
    armed' = IF fd \in Fds /\ armed[fd] # "none" THEN [armed EXCEPT ![fd] = ev]
                                                 ELSE armed

-----------------------------------------------------------------------------
(* The clients: connect, send a request in two segments, wait for the      *)
(* whole answer before the next request, leave at any time.                *)

Connect(c) ==
    /\ cstate[c] = "new"
    /\ cstate' = [cstate EXCEPT ![c] = "backlog"]
    /\ backlog' = Append(backlog, c)
    /\ edge' = TRUE
    /\ UNCHANGED <<asked, rounds, left, unserved, inbox, sock, armed, pc, object,
                   threads, pool, reactor>>

Send(c) ==
    /\ cstate[c] \in {"backlog", "open"} /\ ~left[c]
    /\ asked[c] < Segments /\ c \notin unserved
    /\ asked[c] = 0 => rounds[c] < MaxRounds
    /\ rounds' = [rounds EXCEPT ![c] = IF asked[c] = 0 THEN @ + 1 ELSE @]
    /\ asked' = [asked EXCEPT ![c] = @ + 1]
    /\ inbox' = [inbox EXCEPT ![c] = @ + 1]
    /\ UNCHANGED <<cstate, left, unserved, sock, armed, backlog, edge, pc, object,
                   threads, pool, reactor>>

Leave(c) ==
    /\ cstate[c] \in {"backlog", "open"} /\ ~left[c]
    /\ left' = [left EXCEPT ![c] = TRUE]
    /\ UNCHANGED <<cstate, asked, rounds, unserved, pc, kernel, object, threads,
                   pool, reactor>>

-----------------------------------------------------------------------------
(* main(): epoll_wait and the dispatch on the event.                       *)

\* What epoll would report for a connection now.  EPOLLRDHUP is always asked
\* for; a socket that waits for EPOLLOUT has room.
Event(fd) ==
    IF left[sock[fd]] THEN "hup" ELSE armed[fd]
Ready ==
    {fd \in Fds :
        \/ armed[fd] = "out"
        \/ armed[fd] = "in" /\ (left[sock[fd]] \/ inbox[sock[fd]] > 0)}
ListenEvent == [fd |-> NoFd, ev |-> "listen"]
Events ==
    {[fd |-> fd, ev |-> Event(fd)] : fd \in Ready}
        \cup (IF edge THEN {ListenEvent} ELSE {})

\* Seeded fault: connections are registered without EPOLLONESHOT.
EpollWaitNotOneShot ==
    /\ pc[Main] = "event" /\ batch = {}
    /\ edge \/ Ready # {}
    /\ batch' = Events
    /\ edge' = FALSE
    /\ UNCHANGED <<inbox, sock, armed, backlog, pc, current, blocks, refused,
                   client, object, threads, pool>>

\* epoll_wait returns every event there is; EPOLLONESHOT disarms each
\* connection it reports, and the edge of the listening socket is consumed.
EpollWait ==
    /\ pc[Main] = "event" /\ batch = {}
    /\ edge \/ Ready # {}
    /\ batch' = Events
    /\ armed' = [fd \in Fds |-> IF fd \in Ready THEN "off" ELSE armed[fd]]
    /\ edge' = FALSE
    /\ UNCHANGED <<inbox, sock, backlog, pc, current, blocks, refused, client,
                   object, threads, pool>>

\* An event of a connection: close_conn, read or write its object.
Dispatch(e) ==
    /\ pc[Main] = "event" /\ e \in batch
    /\ e.ev # "listen"
    /\ batch' = batch \ {e}
    /\ current' = e.fd
    /\ Goto(Main, CASE e.ev = "hup" -> "close"
                    [] e.ev = "in" -> "read"
                    [] e.ev = "out" -> "write")
    /\ UNCHANGED <<blocks, refused, client, kernel, object, threads, pool>>

FreeFds == {fd \in Fds : sock[fd] = Free}
Listening(e) == pc[Main] = "event" /\ e \in batch /\ e.ev = "listen"

\* accept gives the lowest free descriptor to the oldest connection.
Accept(e) ==
    /\ Listening(e)
    /\ backlog # <<>> /\ FreeFds # {}
    /\ m_user_count < MAX_FD
    /\ \E fd \in FreeFds :
        /\ \A other \in FreeFds : fd <= other
        /\ sock' = [sock EXCEPT ![fd] = Head(backlog)]
        /\ current' = fd
    /\ cstate' = [cstate EXCEPT ![Head(backlog)] = "open"]
    /\ backlog' = Tail(backlog)
    /\ batch' = batch \ {e}
    /\ Goto(Main, "init")
    /\ UNCHANGED <<asked, rounds, left, unserved, inbox, armed, edge, blocks,
                   refused, object, threads, pool>>

\* m_user_count >= MAX_FD: show_error sends a message and closes connfd.
AcceptBusy(e) ==
    /\ Listening(e)
    /\ backlog # <<>> /\ FreeFds # {}
    /\ m_user_count >= MAX_FD
    /\ cstate' = [cstate EXCEPT ![Head(backlog)] = "closed"]
    /\ backlog' = Tail(backlog)
    /\ batch' = batch \ {e}
    /\ UNCHANGED <<asked, rounds, left, unserved, inbox, sock, armed, edge, pc,
                   current, blocks, refused, object, threads, pool>>

\* connfd < 0: continue.
AcceptFails(e) ==
    /\ Listening(e)
    /\ backlog = <<>> \/ FreeFds = {}
    /\ batch' = batch \ {e}
    /\ UNCHANGED <<pc, current, blocks, refused, client, kernel, object, threads,
                   pool>>

-----------------------------------------------------------------------------
(* users[connfd].init(connfd, client_address).                             *)

InitSockfd ==
    /\ Step(Main, "init", "addfd")
    /\ m_sockfd' = [m_sockfd EXCEPT ![current] = current]
    /\ UNCHANGED <<read_buf, reply, iov, client, kernel, threads, pool,
                   reactor>>

\* EPOLL_CTL_ADD fails when a worker has closed the descriptor by now.
InitAddfd ==
    /\ Step(Main, "addfd", "inc_read")
    /\ armed' = [armed EXCEPT ![current] = IF sock[current] = Free THEN "none"
                                                                  ELSE "in"]
    /\ UNCHANGED <<inbox, sock, backlog, edge, client, object, threads, pool,
                   reactor>>

\* m_user_count++ loads the counter, then stores it.
IncRead ==
    /\ Step(Main, "inc_read", "inc_write")
    /\ tmp' = [tmp EXCEPT ![Main] = m_user_count]
    /\ UNCHANGED <<m_user_count, ret, worker_closed, client, kernel, object,
                   pool, reactor>>

IncWrite ==
    /\ Step(Main, "inc_write", "reset")
    /\ m_user_count' = tmp[Main] + 1
    /\ UNCHANGED <<tmp, ret, worker_closed, client, kernel, object, pool,
                   reactor>>

\* init(): the buffers are emptied; m_iv is left as it was.
Emptied(fd) ==
    /\ read_buf' = [read_buf EXCEPT ![fd] = <<>>]
    /\ reply' = [reply EXCEPT ![fd] = NoReply]

InitReset ==
    /\ Step(Main, "reset", "event")
    /\ Emptied(current)
    /\ UNCHANGED <<m_sockfd, iov, client, kernel, threads, pool, reactor>>

-----------------------------------------------------------------------------
(* close_conn(), by main or by a worker: test, removefd, m_sockfd = -1,    *)
(* m_user_count--.  Nothing is locked in between.                          *)

\* Where close_conn returns to: the event loop, or the modfd in process().
AfterClose(t) == IF t = Main THEN "event" ELSE "modout"

CloseTest(t) ==
    /\ pc[t] = "close"
    /\ Goto(t, IF m_sockfd[Obj(t)] # NoFd THEN "remove" ELSE AfterClose(t))
    /\ UNCHANGED <<client, kernel, object, threads, pool, reactor>>

\* removefd: EPOLL_CTL_DEL and close; from here accept can reuse the number.
Removefd(t) ==
    /\ Step(t, "remove", "clear")
    /\ LET fd == m_sockfd[Obj(t)] IN
        IF fd # NoFd /\ sock[fd] # Free
        THEN /\ cstate' = [cstate EXCEPT ![sock[fd]] = "closed"]
             /\ inbox' = [inbox EXCEPT ![sock[fd]] = 0]
             /\ armed' = [armed EXCEPT ![fd] = "none"]
             /\ sock' = [sock EXCEPT ![fd] = Free]
        ELSE UNCHANGED <<cstate, inbox, armed, sock>>
    /\ worker_closed' = IF t = Main THEN worker_closed
                                    ELSE worker_closed \cup {Obj(t)}
    /\ UNCHANGED <<asked, rounds, left, unserved, backlog, edge, object,
                   m_user_count, tmp, ret, pool, reactor>>

CloseClear(t) ==
    /\ Step(t, "clear", "dec_read")
    /\ m_sockfd' = [m_sockfd EXCEPT ![Obj(t)] = NoFd]
    /\ UNCHANGED <<read_buf, reply, iov, client, kernel, threads, pool,
                   reactor>>

DecRead(t) ==
    /\ Step(t, "dec_read", "dec_write")
    /\ tmp' = [tmp EXCEPT ![t] = m_user_count]
    /\ UNCHANGED <<m_user_count, ret, worker_closed, client, kernel, object,
                   pool, reactor>>

\* Seeded fault: the counter counts connections accepted, not those open.
DecWriteForgotten(t) ==
    /\ Step(t, "dec_write", AfterClose(t))
    /\ UNCHANGED <<client, kernel, object, threads, pool, reactor>>

DecWrite(t) ==
    /\ Step(t, "dec_write", AfterClose(t))
    /\ m_user_count' = tmp[t] - 1
    /\ UNCHANGED <<tmp, ret, worker_closed, client, kernel, object, pool,
                   reactor>>

-----------------------------------------------------------------------------
(* users[sockfd].read(), append and write(), by main.                      *)

Fd == m_sockfd[current]
Connected == Fd # NoFd /\ sock[Fd] # Free
Peer == sock[Fd]

\* recv until EAGAIN; false on an error, or when the client has closed its end.
Read ==
    /\ pc[Main] = "read"
    /\ IF Connected
       THEN /\ read_buf' = [read_buf EXCEPT
                                ![current] = @ \o [i \in 1..inbox[Peer] |-> Peer]]
            /\ inbox' = [inbox EXCEPT ![Peer] = 0]
            /\ Goto(Main, IF left[Peer] THEN "close" ELSE "append")
       ELSE /\ Goto(Main, "close")
            /\ UNCHANGED <<read_buf, inbox>>
    /\ UNCHANGED <<sock, armed, backlog, edge, m_sockfd, reply, iov, client,
                   threads, pool, reactor>>

PoolAppend ==
    /\ Step(Main, "append", "event")
    /\ Pool!Submit(current)
    /\ UNCHANGED <<client, kernel, object, threads, reactor>>

\* append returns false, and nobody looks.
PoolRefuses ==
    /\ Step(Main, "append", "event")
    /\ Len(pending) >= Capacity
    /\ refused' = refused \cup {sock[current]}
    /\ UNCHANGED <<current, batch, blocks, client, kernel, object, threads,
                   pool>>

\* m_write_idx is 0: listen for input again.
WriteNothing ==
    /\ pc[Main] = "write" /\ reply[current] = NoReply
    /\ Modfd(Fd, "in")
    /\ Emptied(current)
    /\ Goto(Main, "event")
    /\ UNCHANGED <<inbox, sock, backlog, edge, m_sockfd, iov, client, threads,
                   pool, reactor>>

Writing == pc[Main] = "write" /\ reply[current] # NoReply

\* m_iv_count is still 0: writev returns 0, and the loop never ends.
WriteSpins ==
    /\ Writing /\ Connected /\ ~iov[current]
    /\ Goto(Main, "spinning")
    /\ UNCHANGED <<client, kernel, object, threads, pool, reactor>>

\* EAGAIN: wait for EPOLLOUT.
WriteBlocks ==
    /\ Writing /\ Connected /\ iov[current]
    /\ blocks < MaxBlocks
    /\ blocks' = blocks + 1
    /\ Modfd(Fd, "out")
    /\ Goto(Main, "event")
    /\ UNCHANGED <<inbox, sock, backlog, edge, current, batch, refused, client,
                   object, threads, pool>>

\* Another error: the client is gone, m_sockfd is -1, or m_iv is left over from
\* an earlier file and points at what was unmapped.
WriteFails ==
    /\ Writing
    /\ Connected => iov[current] /\ (left[Peer] \/ reply[current].kind # "file")
    /\ Goto(Main, "close")
    /\ UNCHANGED <<client, kernel, object, threads, pool, reactor>>

\* The loop of write() ends when what has been sent is not less than what is left
\* of the header: all of the reply has been sent, or a part of it.
Delivered ==
    /\ asked' = [asked EXCEPT ![Peer] = 0]
    /\ unserved' \in {unserved, unserved \cup {Peer}}

\* The reply is taken for sent, and the client asked for keep-alive.
WriteKeepAlive ==
    /\ Writing /\ Connected /\ iov[current] /\ reply[current].linger
    /\ Delivered
    /\ Emptied(current)
    /\ Modfd(Fd, "in")
    /\ Goto(Main, "event")
    /\ UNCHANGED <<cstate, rounds, left, inbox, sock, backlog, edge, m_sockfd,
                   iov, threads, pool, reactor>>

\* It is taken for sent: modfd, return false, and main closes the connection.
WriteLast ==
    /\ Writing /\ Connected /\ iov[current] /\ ~reply[current].linger
    /\ Delivered
    /\ Modfd(Fd, "in")
    /\ Goto(Main, "close")
    /\ UNCHANGED <<cstate, rounds, left, inbox, sock, backlog, edge, object,
                   threads, pool, reactor>>

-----------------------------------------------------------------------------
(* process(), by a worker, on the object it took from the pool.            *)

WorkerTake(w) ==
    /\ Step(w, "idle", "parse")
    /\ Pool!Take(w)
    /\ UNCHANGED <<client, kernel, object, threads, reactor>>

\* process_read returns NO_REQUEST: a part of the request has been read; or all of
\* it and it is overlooked, having a body that was cut (http_conn.cpp:208) or a
\* line that parse_line finds bad (http_conn.cpp:119).
ParseIncomplete(w) ==
    /\ Step(w, "parse", "modin")
    /\ unserved' = IF Len(read_buf[Obj(w)]) < Segments THEN unserved
                   ELSE unserved \cup {Head(read_buf[Obj(w)])}
    /\ UNCHANGED <<cstate, asked, rounds, left, kernel, object, threads, pool,
                   reactor>>

\* Seeded fault: process() goes on when the request is not complete.
ParseAny(w) ==
    /\ Step(w, "parse", "respond")
    /\ read_buf[Obj(w)] # <<>>
    /\ \E kind \in Kinds :
        ret' = [ret EXCEPT ![w] =
                    [to |-> Head(read_buf[Obj(w)]), kind |-> kind]]
    /\ UNCHANGED <<m_user_count, tmp, worker_closed, client, kernel, object,
                   pool, reactor>>

\* process_read has found a whole request: what it asks for, and for whom, is in
\* the worker's hands from now on.
Parse(w) ==
    /\ Step(w, "parse", "respond")
    /\ Len(read_buf[Obj(w)]) >= Segments
    /\ \E kind \in Kinds :
        ret' = [ret EXCEPT ![w] =
                    [to |-> Head(read_buf[Obj(w)]), kind |-> kind]]
    /\ UNCHANGED <<m_user_count, tmp, worker_closed, client, kernel, object,
                   pool, reactor>>

\* process_write.  A file that is not empty sets m_iv and returns true; an empty
\* one falls through to `default` and returns false; the error pages end without
\* a return statement, so either value is seen.
Respond(w) ==
    /\ pc[w] = "respond"
    /\ \E linger, returns \in BOOLEAN :
        /\ ret[w].kind = "file" => returns
        /\ ret[w].kind = "empty" => ~returns
        /\ reply' = [reply EXCEPT ![Obj(w)] =
                        [to |-> ret[w].to, kind |-> ret[w].kind, linger |-> linger]]
        /\ iov' = [iov EXCEPT ![Obj(w)] = @ \/ ret[w].kind = "file"]
        /\ Goto(w, IF returns THEN "modout" ELSE "close")
    /\ ret' = [ret EXCEPT ![w] = NoAnswer]
    /\ UNCHANGED <<m_sockfd, read_buf, m_user_count, tmp, worker_closed, client,
                   kernel, pool, reactor>>

\* Seeded fault: process() returns on NO_REQUEST without modfd.
ModInForgotten(w) ==
    /\ Step(w, "modin", "idle")
    /\ Pool!Finish(w)
    /\ UNCHANGED <<client, kernel, object, threads, reactor>>

ModIn(w) ==
    /\ Step(w, "modin", "idle")
    /\ Modfd(m_sockfd[Obj(w)], "in")
    /\ Pool!Finish(w)
    /\ UNCHANGED <<inbox, sock, backlog, edge, client, object, threads,
                   reactor>>

\* Seeded fault: process() always asks for EPOLLIN.
ModOutForIn(w) ==
    /\ Step(w, "modout", "idle")
    /\ Modfd(m_sockfd[Obj(w)], "in")
    /\ Pool!Finish(w)
    /\ UNCHANGED <<inbox, sock, backlog, edge, client, object, threads,
                   reactor>>

ModOut(w) ==
    /\ Step(w, "modout", "idle")
    /\ Modfd(m_sockfd[Obj(w)], "out")
    /\ Pool!Finish(w)
    /\ UNCHANGED <<inbox, sock, backlog, edge, client, object, threads,
                   reactor>>

-----------------------------------------------------------------------------
CloseStep(t) ==
    CloseTest(t) \/ Removefd(t) \/ CloseClear(t) \/ DecRead(t) \/ DecWrite(t)

MainStep ==
    \/ EpollWait
    \/ \E e \in batch :
        Dispatch(e) \/ Accept(e) \/ AcceptBusy(e) \/ AcceptFails(e)
    \/ InitSockfd \/ InitAddfd \/ IncRead \/ IncWrite \/ InitReset
    \/ Read \/ PoolAppend \/ PoolRefuses
    \/ WriteNothing \/ WriteSpins \/ WriteBlocks \/ WriteFails
    \/ WriteKeepAlive \/ WriteLast
    \/ CloseStep(Main)

WorkerStep(w) ==
    \/ WorkerTake(w) \/ ParseIncomplete(w) \/ Parse(w) \/ Respond(w)
    \/ ModIn(w) \/ ModOut(w) \/ CloseStep(w)

ClientStep(c) == Connect(c) \/ Send(c) \/ Leave(c)

Next ==
    \/ \E c \in Clients : ClientStep(c)
    \/ MainStep
    \/ \E w \in Workers : WorkerStep(w)

Spec == Init /\ [][Next]_vars

\* The scheduler runs every thread that can run; clients owe nothing.
FairSpec ==
    /\ Spec
    /\ WF_vars(MainStep)
    /\ \A w \in Workers : WF_vars(WorkerStep(w))

-----------------------------------------------------------------------------
(* Properties.                                                             *)

TypeOK ==
    /\ cstate \in [Clients -> {"new", "backlog", "open", "closed"}]
    /\ asked \in [Clients -> 0..Segments]
    /\ rounds \in [Clients -> 0..MaxRounds]
    /\ left \in [Clients -> BOOLEAN]
    /\ unserved \subseteq Clients
    /\ inbox \in [Clients -> Nat]
    /\ sock \in [Fds -> Clients \cup {Free}]
    /\ armed \in [Fds -> {"none", "off", "in", "out"}]
    /\ backlog \in Seq(Clients)
    /\ edge \in BOOLEAN
    /\ m_sockfd \in [Fds -> Fds \cup {NoFd}]
    /\ read_buf \in [Fds -> Seq(Clients)]
    /\ reply \in [Fds -> Replies]
    /\ iov \in [Fds -> BOOLEAN]
    /\ m_user_count \in Int
    /\ Pool!TypeOK
    /\ pc \in [Threads -> MainLabels \cup CloseLabels \cup WorkerLabels]
    /\ tmp \in [Threads -> Int]
    /\ ret \in [Workers -> Answers]
    /\ current \in Fds
    /\ batch \subseteq [fd : Fds, ev : {"hup", "in", "out"}] \cup {ListenEvent}
    /\ blocks \in 0..MaxBlocks
    /\ refused \subseteq Clients \cup {Free}
    /\ worker_closed \subseteq Fds

\* Who may touch users[fd] now.  "main": it works on it, or epoll may hand it
\* to main; "queue": it waits in the pool; a worker: process() runs on it.
MainHas(fd) ==
    \/ pc[Main] \notin {"event"} /\ current = fd
    \/ armed[fd] \in {"in", "out"}
    \/ \E e \in batch : e.fd = fd
Holders(fd) ==
    {w \in Workers : serving[w] = fd}
    \cup {t \in {Main} : MainHas(fd)}
    \cup {i \in 1..Len(pending) : pending[i] = fd}

\* EPOLLONESHOT does what addfd's comment says (http_conn.cpp:27): a connection
\* object is never in the hands of two threads, and never queued twice.
OneThreadPerObject == \A fd \in Fds : Cardinality(Holders(fd)) <= 1

\* Descriptors that main alone has closed so far.  A worker's close_conn
\* (http_conn.cpp:436) lets go of a descriptor before it is done with the object,
\* and the properties below say that no other object suffers from it.
Intact == Fds \ worker_closed

\* What OneThreadPerObject says holds wherever no worker has closed a connection,
\* whatever workers do on the other objects.
OneThreadElsewhere == \A fd \in Intact : Cardinality(Holders(fd)) <= 1

\* No connection is forgotten but those whose request append refused: an open one
\* is armed in epoll, reported, queued in the pool or in the hands of a thread.
\* Every path through read, append, process and write re-arms the descriptor or
\* closes it, and a refusal (15_6.cpp:123 looks at no result) costs only the
\* connection it is about.
NoConnectionForgotten ==
    \A fd \in Intact :
        sock[fd] # Free => Holders(fd) # {} \/ sock[fd] \in refused

\* m_user_count is the number of open connections when no thread is between
\* accept and the increment, or between close and the decrement, until a worker
\* closes one: ++ and -- of two threads lose updates.
Counting ==
    \E t \in Threads :
        pc[t] \in {"init", "addfd", "inc_read", "inc_write",
                   "clear", "dec_read", "dec_write"}
UserCountExact ==
    worker_closed = {} => Counting \/ m_user_count = Cardinality(Fds \ FreeFds)

\* What write() is about to send answers the client at the other end of the
\* socket, and a request of that client that is complete, read and unanswered:
\* no reply is left in an object that a new connection inherits from main.
ReplyToItsClient ==
    Writing /\ Connected /\ current \in Intact =>
        reply[current].to = Peer /\ asked[Peer] = Segments /\ inbox[Peer] = 0

\* A client that has been accepted and has sent a whole request gets the whole
\* answer or has its connection closed, with three exceptions that the code makes:
\* append has refused the request (15_6.cpp:123); process_read has overlooked it,
\* complete as it was (http_conn.cpp:208 and 253 for a cut body, 119 and 260 for a
\* bad line); or write() has stopped in the middle of the answer (http_conn.cpp:
\* 322).  What befalls one client does not keep another waiting.
Answered(c) == (asked[c] = 0 /\ c \notin unserved) \/ cstate[c] = "closed"
EveryRequestAnswered ==
    \A c \in Clients :
        (cstate[c] = "open" /\ asked[c] = Segments)
            ~> (Answered(c) \/ c \in refused \cup unserved)
=============================================================================
