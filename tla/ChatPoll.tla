------------------------------ MODULE ChatPoll ------------------------------
(***************************************************************************)
(* The chat server on poll, 9_7.cpp, and the client program that uses it,  *)
(* 9_6.cpp.  The server keeps fds[], one place for each user, and users[], *)
(* which a descriptor indexes.  A text is received into the buffer of the  *)
(* user who sends it; the others get a pointer to that buffer and are sent *)
(* what it then holds.  A step of the server is poll(), or one place of a  *)
(* batch; clients and their users go on in between.                        *)
(***************************************************************************)
EXTENDS Integers, SequencesExt

CONSTANTS
    USER_LIMIT,
    Clients,        \* each connects once
    NULL,           \* no buffer, no client
    SendBuffer,     \* how many unread messages make a client's socket full
    MaxTexts,       \* bound: how many different texts the user of each types
    MaxUnread       \* bound: texts of one client that the server has not read

\* Descriptors: USER_LIMIT are in use at most, and one is accepted to be refused.
Fds == 1..(USER_LIMIT + 1)

ASSUME ChatPollAssumption ==
    /\ USER_LIMIT \in Nat \ {0}
    /\ IsFiniteSet(Clients) /\ NULL \notin Clients /\ NULL \notin Fds
    /\ SendBuffer \in Nat \ {0}
    /\ MaxTexts \in [Clients -> Nat] /\ MaxUnread \in Nat

VARIABLES
    \* the server
    i,              \* the place that is looked at; past the end: before poll()
    fds,            \* places 1..user_counter: [fd, events, revents]
    listen,         \* revents of place 0, the listening socket
    users,          \* [Fds -> [write_buf : Fds \cup {NULL}, buf : texts]]
    \* the kernel
    backlog,        \* connections not accepted, oldest first
    sock,           \* [Fds -> the client at the other end, or NULL]
    inbox,          \* [Clients -> texts that have arrived and are not read]
    wire,           \* [Clients -> messages that the client has not read]
    gone,           \* [Clients -> {"no", "fin", "rst"}: has its end been closed?]
    err,            \* [Clients -> an error is pending on the server's socket]
    \* the clients
    client,         \* [Clients -> {"new", "running", "stuck", "ended"}]
    \* history
    from,           \* [Clients -> who said what is pending for it, or NULL]
    words           \* [Clients -> what was received last from it]

server == <<i, fds, listen, users>>
kernel == <<backlog, sock, inbox, wire, gone, err>>
history == <<from, words>>
vars == <<server, kernel, client, history>>

user_counter == Len(fds)
Connected(c) == \E fd \in Fds : sock[fd] = c
Closed(c) == client[c] # "new" /\ ~Connected(c) /\ c \notin ToSet(backlog)

Init ==
    /\ i = 1 /\ fds = <<>> /\ listen = FALSE
    /\ users = [fd \in Fds |-> [write_buf |-> NULL, buf |-> <<>>]]
    /\ backlog = <<>>
    /\ sock = [fd \in Fds |-> NULL]
    /\ inbox = [c \in Clients |-> <<>>]
    /\ wire = [c \in Clients |-> <<>>]
    /\ gone = [c \in Clients |-> "no"]
    /\ err = [c \in Clients |-> FALSE]
    /\ client = [c \in Clients |-> "new"]
    /\ from = [c \in Clients |-> NULL]
    /\ words = [c \in Clients |-> <<>>]

-----------------------------------------------------------------------------
(* The client program, 9_6.cpp.                                            *)

Connect(c) ==
    /\ client[c] = "new"
    /\ client' = [client EXCEPT ![c] = "running"]
    /\ backlog' = Append(backlog, c)
    /\ UNCHANGED <<server, sock, inbox, wire, gone, err, history>>

\* The user types a text, time and again; two splices take it to the socket.
Type(c) ==
    /\ client[c] = "running" /\ ~Closed(c)
    /\ Len(inbox[c]) < MaxUnread
    /\ \E n \in 1..MaxTexts[c] :
        inbox' = [inbox EXCEPT ![c] = Append(@, <<c, n>>)]
    /\ UNCHANGED <<server, backlog, sock, wire, gone, err, client, history>>

\* Standard input ends: the first splice moves nothing into the pipe, and the
\* second waits for it for ever.
TypeEnd(c) ==
    /\ client[c] = "running" /\ ~Closed(c)
    /\ client' = [client EXCEPT ![c] = "stuck"]
    /\ UNCHANGED <<server, kernel, history>>

\* POLLIN without POLLRDHUP: what has arrived is printed.
Display(c) ==
    /\ client[c] = "running" /\ ~Closed(c)
    /\ wire[c] # <<>>
    /\ wire' = [wire EXCEPT ![c] = <<>>]
    /\ UNCHANGED <<server, backlog, sock, inbox, gone, err, client, history>>

\* POLLRDHUP comes first: what has arrived with it is not printed.
ServerCloses(c) ==
    /\ client[c] = "running" /\ Closed(c)
    /\ client' = [client EXCEPT ![c] = "ended"]
    /\ wire' = [wire EXCEPT ![c] = <<>>]
    /\ UNCHANGED <<server, backlog, sock, inbox, gone, err, history>>

\* The user ends the program: with messages unread that resets the connection,
\* and what has arrived at the server may be lost.
Quit(c) ==
    /\ client[c] \in {"running", "stuck"}
    /\ client' = [client EXCEPT ![c] = "ended"]
    /\ wire' = [wire EXCEPT ![c] = <<>>]
    /\ gone' = [gone EXCEPT ![c] = IF wire[c] = <<>> THEN "fin" ELSE "rst"]
    /\ err' = [err EXCEPT ![c] = wire[c] # <<>> /\ ~Closed(c)]
    /\ \E rest \in {inbox[c], <<>>} :
        /\ wire[c] = <<>> => rest = inbox[c]
        /\ inbox' = [inbox EXCEPT ![c] = rest]
    /\ UNCHANGED <<server, backlog, sock, history>>

-----------------------------------------------------------------------------
(* The server: poll() and the listening socket, place 0.                   *)

AllEvents == {"IN", "OUT", "RDHUP"}

\* Seeded fault: the end of a connection is not asked for.
AcceptedWithoutEnd == {"IN"}

Accepted == {"IN", "RDHUP"}

\* What poll() reports for a place: an error always, the rest when asked for.
Happens(c, e) ==
    \/ e = "ERR" /\ err[c]
    \/ e = "RDHUP" /\ gone[c] # "no"
    \/ e = "IN" /\ (inbox[c] # <<>> \/ gone[c] # "no")
    \/ e = "OUT" /\ (Len(wire[c]) < SendBuffer \/ gone[c] = "rst")
Revents(p) == {e \in p.events \cup {"ERR"} : Happens(sock[p.fd], e)}

\* The first place from k on that poll() reported something for: the loop does
\* nothing at the others.
PlaceFrom(k, places) ==
    /\ i' \in k..(Len(places) + 1)
    /\ \A j \in k..(i' - 1) : places[j].revents = {}
    /\ i' <= Len(places) => places[i'].revents # {}

Poll ==
    /\ i > user_counter
    /\ backlog # <<>> \/ \E j \in 1..user_counter : Revents(fds[j]) # {}
    /\ listen' = (backlog # <<>>)
    /\ fds' = [j \in 1..user_counter |-> [fds[j] EXCEPT !.revents = Revents(fds[j])]]
    /\ IF listen' THEN i' = 0 ELSE PlaceFrom(1, fds')
    /\ UNCHANGED <<users, kernel, client, history>>

\* The lowest free descriptor; users[connfd] keeps what it held before.
AcceptWhile(room) ==
    /\ i = 0 /\ listen
    /\ room
    /\ \E connfd \in Fds :
        /\ sock[connfd] = NULL /\ \A fd \in 1..(connfd - 1) : sock[fd] # NULL
        /\ sock' = [sock EXCEPT ![connfd] = Head(backlog)]
        /\ fds' = Append(fds, [fd |-> connfd, events |-> Accepted, revents |-> {}])
    /\ backlog' = Tail(backlog)
    /\ PlaceFrom(1, fds')
    /\ UNCHANGED <<listen, users, inbox, wire, gone, err, client, history>>

Accept == AcceptWhile(user_counter < USER_LIMIT)

\* close(): what the client has sent and nobody has read is thrown away.
Discard(c) ==
    /\ inbox' = [inbox EXCEPT ![c] = <<>>]
    /\ err' = [err EXCEPT ![c] = FALSE]
    /\ words' = [words EXCEPT ![c] = <<>>]

\* Too many users: the client is told so and its connection closed.
Refuse ==
    /\ i = 0 /\ listen
    /\ user_counter >= USER_LIMIT
    /\ backlog' = Tail(backlog)
    /\ Discard(Head(backlog))
    /\ PlaceFrom(1, fds)
    /\ UNCHANGED <<fds, listen, users, sock, wire, gone, client, from>>

-----------------------------------------------------------------------------
(* The places of the users.  The first event that applies is handled.      *)

Fd == fds[i].fd
Peer == sock[Fd]
Reported(e) == i \in 1..user_counter /\ e \in fds[i].revents
NextPlace == PlaceFrom(i + 1, fds)

\* POLLERR: getsockopt takes the error away.
GetError ==
    /\ Reported("ERR")
    /\ err' = [err EXCEPT ![Peer] = FALSE]
    /\ NextPlace
    /\ UNCHANGED <<fds, listen, users, backlog, sock, inbox, wire, gone, client, history>>

\* Seeded fault: the last place is given up and the one of the user who leaves
\* kept.
CloseWrongPlace(current) ==
    /\ users' = [current EXCEPT ![Fd] = current[fds[user_counter].fd]]
    /\ sock' = [sock EXCEPT ![Fd] = NULL]
    /\ fds' = SubSeq(fds, 1, user_counter - 1)
    /\ from' = [from EXCEPT ![Peer] = NULL]
    /\ Discard(Peer)
    /\ PlaceFrom(i, fds')

\* The descriptor is closed, and the last place moves to the one that is free;
\* users[] of the closed descriptor gets what the last user's holds.  i-- and
\* ++i: the user who has moved here is next.
Close(current) ==
    /\ users' = [current EXCEPT ![Fd] = current[fds[user_counter].fd]]
    /\ sock' = [sock EXCEPT ![Fd] = NULL]
    /\ fds' = SubSeq([fds EXCEPT ![i] = fds[user_counter]], 1, user_counter - 1)
    /\ from' = [from EXCEPT ![Peer] = NULL]
    /\ Discard(Peer)
    /\ PlaceFrom(i, fds')

\* POLLRDHUP.
Leave ==
    /\ Reported("RDHUP") /\ ~Reported("ERR")
    /\ Close(users)
    /\ UNCHANGED <<listen, backlog, wire, gone, client>>

Recv == Reported("IN") /\ ~Reported("ERR") /\ ~Reported("RDHUP")

\* The memset before recv.
Cleared == [users EXCEPT ![Fd].buf = <<>>]

\* recv fails, because the connection has been reset since poll().
RecvFails ==
    /\ Recv
    /\ inbox[Peer] = <<>>
    /\ IF err[Peer] THEN Close(Cleared)
       ELSE /\ users' = Cleared
            /\ words' = [words EXCEPT ![Peer] = <<>>]
            /\ NextPlace
            /\ UNCHANGED <<sock, fds, inbox, err, from>>
    /\ UNCHANGED <<listen, backlog, wire, gone, client>>

\* Seeded fault: POLLOUT is never asked for.
NotifiedNot(p) == p

Notified(p) == [p EXCEPT !.events = @ \cup (AllEvents \ {"IN"}) \cup {"OUT"}]

\* Everyone else is to be sent what is in this user's buffer.  `|= ~POLLIN` and
\* `|= POLLOUT` only add events.
Notify(others) ==
    /\ fds' = [j \in 1..user_counter |->
                IF j = i THEN fds[j] ELSE Notified(fds[j])]
    /\ from' = [c \in Clients |->
                IF \E fd \in others : sock[fd] = c THEN Peer ELSE from[c]]

ReceiveFor(others, pointed) ==
    /\ Recv
    /\ \E n \in 1..Len(inbox[Peer]) :
        LET text == SubSeq(inbox[Peer], 1, n) IN
        /\ inbox' = [inbox EXCEPT ![Peer] = SubSeq(@, n + 1, Len(@))]
        /\ words' = [words EXCEPT ![Peer] = text]
        /\ users' = [fd \in Fds |->
            IF fd = Fd THEN [users[fd] EXCEPT !.buf = text]
            ELSE IF fd \in pointed THEN [users[fd] EXCEPT !.write_buf = Fd]
            ELSE users[fd]]
    /\ Notify(others)
    /\ NextPlace
    /\ UNCHANGED <<listen, backlog, sock, wire, gone, err, client>>

Others == {fds[j].fd : j \in (1..user_counter) \ {i}}

\* Seeded fault: a user for whom a message is pending keeps that one.
ReceiveKeepsPending ==
    ReceiveFor(Others, {fd \in Others : users[fd].write_buf = NULL})

Receive == ReceiveFor(Others, Others)

Sending == Reported("OUT") /\ \A e \in {"ERR", "RDHUP", "IN"} : ~Reported(e)

SendNothing ==
    /\ Sending
    /\ users[Fd].write_buf = NULL
    /\ NextPlace
    /\ UNCHANGED <<fds, listen, users, kernel, client, history>>

\* What the buffer holds now is sent.  A client that has gone answers with a
\* reset; a reset that has come since poll() makes send fail.
Send ==
    /\ Sending
    /\ users[Fd].write_buf # NULL
    /\ LET text == users[users[Fd].write_buf].buf IN
        /\ wire' = IF gone[Peer] = "no" /\ text # <<>>
                   THEN [wire EXCEPT ![Peer] = Append(@, text)] ELSE wire
        /\ gone' = [gone EXCEPT ![Peer] = IF @ = "fin" /\ text # <<>> THEN "rst" ELSE @]
        /\ err' = [err EXCEPT ![Peer] = gone[Peer] = "fin" /\ text # <<>>]
    /\ users' = [users EXCEPT ![Fd].write_buf = NULL]
    /\ fds' = [fds EXCEPT ![i].events = @ \cup (AllEvents \ {"OUT"}) \cup {"IN"}]
    /\ from' = [from EXCEPT ![Peer] = NULL]
    /\ NextPlace
    /\ UNCHANGED <<listen, backlog, sock, inbox, client, words>>

-----------------------------------------------------------------------------
Server ==
    \/ Poll \/ Accept \/ Refuse
    \/ GetError \/ Leave \/ RecvFails \/ Receive \/ SendNothing \/ Send

Program(c) == Display(c) \/ ServerCloses(c)
User(c) == Connect(c) \/ Type(c) \/ TypeEnd(c) \/ Quit(c)

Next == Server \/ \E c \in Clients : Program(c) \/ User(c)

Spec == Init /\ [][Next]_vars

\* The server and the client programs run; users owe nothing.
FairSpec == Spec /\ WF_vars(Server) /\ \A c \in Clients : WF_vars(Program(c))

-----------------------------------------------------------------------------
(* Properties.                                                             *)

Texts == Clients \X Nat
Places == [fd : Fds, events : SUBSET AllEvents, revents : SUBSET (AllEvents \cup {"ERR"})]

ServerTyped ==
    /\ i \in 0..(USER_LIMIT + 1)
    /\ fds \in Seq(Places) /\ user_counter <= USER_LIMIT
    /\ listen \in BOOLEAN
    /\ users \in [Fds -> [write_buf : Fds \cup {NULL}, buf : Seq(Texts)]]

KernelTyped ==
    /\ backlog \in Seq(Clients)
    /\ sock \in [Fds -> Clients \cup {NULL}]
    /\ inbox \in [Clients -> Seq(Texts)]
    /\ wire \in [Clients -> Seq(Seq(Texts))]
    /\ \A c \in Clients : Len(wire[c]) <= SendBuffer
    /\ gone \in [Clients -> {"no", "fin", "rst"}]
    /\ err \in [Clients -> BOOLEAN]

ClientsTyped ==
    client \in [Clients -> {"new", "running", "stuck", "ended"}]

HistoryTyped ==
    /\ from \in [Clients -> Clients \cup {NULL}]
    /\ words \in [Clients -> Seq(Texts)]

\* Types; fds[] has room for USER_LIMIT users and the listening socket; no socket
\* holds more than it can.
TypeOK == ServerTyped /\ KernelTyped /\ ClientsTyped /\ HistoryTyped

\* fds[] and the descriptors agree although places move while a batch is being
\* handled: every open connection has one place, and no place holds a closed
\* descriptor (9_7.cpp:131-138, 149-155).
PlacesAgree ==
    /\ {fds[j].fd : j \in 1..user_counter} = {fd \in Fds : sock[fd] # NULL}
    /\ \A j, k \in 1..user_counter : fds[j].fd = fds[k].fd => j = k

\* What is pending for a user, by a pointer into the buffer of the user who
\* said it, is what that one said last, as long as both are connected: users
\* who leave and descriptors that are used again do not change it
\* (9_7.cpp:133, 151, 164).
LastWords ==
    \A f, g \in Fds :
        sock[f] # NULL /\ sock[g] # NULL /\ from[sock[f]] = sock[g] =>
            /\ users[f].write_buf = g
            /\ users[g].buf = words[sock[g]]

\* A client that goes is noticed, in the backlog or at a place, with an error
\* pending or without, and its connection is closed (9_7.cpp:117-139: an error
\* does not close it).
GoneIsClosed == \A c \in Clients : gone[c] # "no" ~> Closed(c)

\* A user for whom a text is pending is sent one, as its speaker has said it last,
\* unless the speaker leaves before (line 133 and the next user of the descriptor
\* change the buffer) or the user's own program stops.  POLLOUT is asked for when
\* it is needed, although a batch in hand does not know of it (9_7.cpp:163).  The
\* user has to stop typing at some time, which the comment of 9_7.cpp:162 does not
\* say: `|= ~POLLIN` goes on asking for what it types, and that is read before
\* anything is sent.
Sent(c) ==
    /\ from[c] = NULL /\ wire[c] # <<>>
    /\ \E speaker \in Clients :
        Connected(speaker) /\ Last(wire[c]) = words[speaker]
SpeakerLeft(c) == from[c] # NULL /\ ~Connected(from[c])
Delivered ==
    \A c \in Clients :
        <>[](inbox[c] = <<>>) =>
            (from[c] # NULL ~>
                Sent(c) \/ SpeakerLeft(c) \/ client[c] # "running")
=============================================================================
