--------------------------- MODULE ChatPoll_proof ---------------------------
(***************************************************************************)
(* The safety of the chat server on poll for any number of clients, users  *)
(* and texts: the type invariant with the bounds of its arrays, that       *)
(* places and descriptors agree, and that what is pending for a user is    *)
(* what was said last.                                                     *)
(***************************************************************************)
EXTENDS ChatPoll, TLAPS

\* A client is at the other end of one descriptor.
OneDescriptor == \A f, g \in Fds : sock[f] # NULL /\ sock[f] = sock[g] => f = g

\* A client waits in the backlog once, and neither before it connects nor while
\* it is connected.
BacklogApart ==
    /\ \A k, l \in 1..Len(backlog) : backlog[k] = backlog[l] => k = l
    /\ \A k \in 1..Len(backlog) :
        client[backlog[k]] # "new" /\ \A f \in Fds : sock[f] # backlog[k]
    /\ \A f \in Fds : sock[f] # NULL => client[sock[f]] # "new"

\* Something is pending for connected clients only, and was said by a client that
\* is connected or has been.
PendingKnown ==
    \A c \in Clients : from[c] # NULL =>
        /\ \E f \in Fds : sock[f] = c
        /\ client[from[c]] # "new"
        /\ \A k \in 1..Len(backlog) : backlog[k] # from[c]

\* POLLOUT is still true when the place is looked at.
RoomToSend ==
    \A j \in 1..Len(fds) :
        j >= i /\ "OUT" \in fds[j].revents /\ gone[sock[fds[j].fd]] = "no" =>
            Len(wire[sock[fds[j].fd]]) < SendBuffer

\* Place 0 is looked at when a connection waits.
SomeoneWaits == i = 0 => backlog # <<>>

IInv ==
    /\ TypeOK
    /\ SomeoneWaits
    /\ PlacesAgree
    /\ OneDescriptor
    /\ BacklogApart
    /\ PendingKnown
    /\ RoomToSend
    /\ LastWords

-----------------------------------------------------------------------------
(* Lemmas about places.                                                    *)

\* Descriptors, clients and NULL differ.
LEMMA Kinds ==
    /\ USER_LIMIT \in Nat \ {0} /\ SendBuffer \in Nat \ {0}
    /\ NULL \notin Clients /\ NULL \notin Fds
  BY ChatPollAssumption

\* A place holds an open descriptor.
LEMMA PlaceOpen ==
    ASSUME TypeOK, PlacesAgree, NEW j \in 1..Len(fds)
    PROVE  fds[j] \in Places /\ fds[j].fd \in Fds /\ sock[fds[j].fd] \in Clients
  <1>1. fds[j] \in Places
    BY DEF TypeOK, ServerTyped
  <1>2. fds[j].fd \in Fds
    BY <1>1 DEF Places
  <1>3. sock[fds[j].fd] # NULL
    BY <1>2 DEF PlacesAgree, user_counter
  <1>4. QED
    BY <1>1, <1>2, <1>3 DEF TypeOK, KernelTyped

\* Of two places the descriptors differ, and so do the clients.
LEMMA PlacesApart ==
    ASSUME TypeOK, PlacesAgree, OneDescriptor,
           NEW j \in 1..Len(fds), NEW k \in 1..Len(fds), j # k
    PROVE  fds[j].fd # fds[k].fd /\ sock[fds[j].fd] # sock[fds[k].fd]
  <1>1. fds[j].fd # fds[k].fd
    BY DEF PlacesAgree, user_counter
  <1>2. fds[j].fd \in Fds /\ fds[k].fd \in Fds /\ sock[fds[j].fd] \in Clients
    BY PlaceOpen
  <1>3. QED
    BY <1>1, <1>2, Kinds DEF OneDescriptor

\* A connection is closed by Leave, or by RecvFails when the buffer is cleared.
CloseAny == Close(users) \/ Close(Cleared)

\* What Close does to the places: the last one takes the place of the one that
\* is given up.
LEMMA CloseEffect ==
    ASSUME TypeOK, PlacesAgree, i \in 1..Len(fds), CloseAny
    PROVE  /\ fds' \in Seq(Places) /\ Len(fds') = Len(fds) - 1
           /\ \A j \in 1..Len(fds') : fds'[j] = IF j = i THEN fds[Len(fds)] ELSE fds[j]
           /\ \A f \in Fds : sock'[f] = IF f = Fd THEN NULL ELSE sock[f]
           /\ Fd \in Fds /\ Peer \in Clients
  <1> DEFINE moved == [fds EXCEPT ![i] = fds[Len(fds)]]
  <1>1. fds[Len(fds)] \in Places /\ fds[i] \in Places
    BY PlaceOpen
  <1>2. moved \in Seq(Places) /\ Len(moved) = Len(fds)
    BY <1>1 DEF TypeOK, ServerTyped
  <1>3. fds' = SubSeq(moved, 1, Len(fds) - 1)
    BY DEF CloseAny, Close, user_counter
  <1>4. Len(fds) \in Nat /\ Len(fds) - 1 \in 0..Len(moved)
    BY <1>2 DEF TypeOK, ServerTyped
  <1>5. Len(fds') = Len(fds) - 1 /\ fds' \in Seq(Places)
        /\ \A j \in 1..Len(fds') : fds'[j] = moved[j]
    BY <1>2, <1>3, <1>4
  <1>6. \A j \in 1..Len(fds') : fds'[j] = IF j = i THEN fds[Len(fds)] ELSE fds[j]
    BY <1>2, <1>4, <1>5 DEF TypeOK, ServerTyped
  <1>7. Fd \in Fds /\ Peer \in Clients
    BY PlaceOpen DEF Fd, Peer
  <1>8. sock' = [sock EXCEPT ![Fd] = NULL]
    BY DEF CloseAny, Close
  <1>9. QED
    BY <1>5, <1>6, <1>7, <1>8 DEF TypeOK, KernelTyped

-----------------------------------------------------------------------------
(* The type invariant.                                                     *)

LEMMA InitTyped == Init => TypeOK /\ SomeoneWaits
  <1> SUFFICES ASSUME Init PROVE TypeOK /\ SomeoneWaits
    OBVIOUS
  <1> USE Kinds DEF Init
  <1>1. ServerTyped
    <2>1. i \in 0..(USER_LIMIT + 1) /\ fds \in Seq(Places) /\ user_counter <= USER_LIMIT
      BY DEF user_counter
    <2>2. [write_buf |-> NULL, buf |-> <<>>] \in [write_buf : Fds \cup {NULL}, buf : Seq(Texts)]
      OBVIOUS
    <2>3. users \in [Fds -> [write_buf : Fds \cup {NULL}, buf : Seq(Texts)]]
      BY <2>2
    <2>4. QED
      BY <2>1, <2>3 DEF ServerTyped
  <1>2. \A c \in Clients : Len(wire[c]) <= SendBuffer
    OBVIOUS
  <1>3. KernelTyped
    BY <1>2 DEF KernelTyped
  <1>4. ClientsTyped /\ HistoryTyped /\ SomeoneWaits
    BY DEF ClientsTyped, HistoryTyped, SomeoneWaits
  <1>5. QED
    BY <1>1, <1>3, <1>4 DEF TypeOK

\* What a step leaves alone keeps its type.
LEMMA UnchangedTyped ==
    ASSUME TypeOK
    PROVE  /\ UNCHANGED server => ServerTyped'
           /\ UNCHANGED kernel => KernelTyped'
           /\ UNCHANGED client => ClientsTyped'
           /\ UNCHANGED history => HistoryTyped'
  <1>1. UNCHANGED server => ServerTyped'
    BY DEF TypeOK, ServerTyped, server, user_counter
  <1>2. UNCHANGED kernel => KernelTyped'
    BY DEF TypeOK, KernelTyped, kernel
  <1>3. UNCHANGED client => ClientsTyped'
    BY DEF TypeOK, ClientsTyped
  <1>4. UNCHANGED history => HistoryTyped'
    BY DEF TypeOK, HistoryTyped, history
  <1>5. QED
    BY <1>1, <1>2, <1>3, <1>4

\* A client that reads makes room.
LEMMA ReadTyped ==
    ASSUME KernelTyped, NEW c \in Clients, wire' = [wire EXCEPT ![c] = <<>>]
    PROVE  /\ wire' \in [Clients -> Seq(Seq(Texts))]
           /\ \A d \in Clients : Len(wire'[d]) <= SendBuffer
  BY Kinds DEF KernelTyped

LEMMA TypeOfClients ==
    ASSUME TypeOK, SomeoneWaits, NEW c \in Clients, User(c) \/ Program(c)
    PROVE  TypeOK' /\ SomeoneWaits'
  <1>1. UNCHANGED server
    BY DEF User, Program, Connect, Type, TypeEnd, Quit, Display, ServerCloses
  <1>2. ServerTyped'
    BY <1>1, UnchangedTyped
  <1>3. HistoryTyped'
    BY UnchangedTyped
    DEF User, Program, Connect, Type, TypeEnd, Quit, Display, ServerCloses
  <1>4. ClientsTyped'
    BY DEF User, Program, Connect, Type, TypeEnd, Quit, Display, ServerCloses,
           TypeOK, ClientsTyped
  <1>5. KernelTyped /\ backlog \in Seq(Clients)
    BY DEF TypeOK, KernelTyped
  <1>6. KernelTyped'
    <2>1. CASE Connect(c)
      <3>1. backlog' \in Seq(Clients)
        BY <1>5, <2>1 DEF Connect
      <3>2. QED
        BY <1>5, <2>1, <3>1 DEF Connect, KernelTyped
    <2>2. CASE Type(c)
      <3>1. PICK n \in 1..MaxTexts[c] : inbox' = [inbox EXCEPT ![c] = Append(@, <<c, n>>)]
        BY <2>2 DEF Type
      <3>2. inbox' \in [Clients -> Seq(Texts)]
        <4>1. <<c, n>> \in Texts
          BY ChatPollAssumption DEF Texts
        <4>2. QED
          BY <1>5, <3>1, <4>1 DEF KernelTyped
      <3>3. QED
        BY <1>5, <2>2, <3>2 DEF Type, KernelTyped
    <2>3. CASE TypeEnd(c)
      BY <2>3, UnchangedTyped DEF TypeEnd
    <2>4. CASE Display(c)
      BY <1>5, <2>4, ReadTyped DEF Display, KernelTyped
    <2>5. CASE ServerCloses(c)
      BY <1>5, <2>5, ReadTyped DEF ServerCloses, KernelTyped
    <2>6. CASE Quit(c)
      <3>1. inbox' \in [Clients -> Seq(Texts)]
        <4>1. PICK rest \in {inbox[c], <<>>} : inbox' = [inbox EXCEPT ![c] = rest]
          BY <2>6 DEF Quit
        <4>2. inbox[c] \in Seq(Texts) /\ <<>> \in Seq(Texts)
          BY <1>5 DEF KernelTyped
        <4>3. rest \in Seq(Texts)
          BY <4>1, <4>2
        <4>4. QED
          BY <1>5, <4>1, <4>3 DEF KernelTyped
      <3>2. gone' \in [Clients -> {"no", "fin", "rst"}] /\ err' \in [Clients -> BOOLEAN]
        BY <1>5, <2>6 DEF Quit, KernelTyped, Closed
      <3>3. wire' = [wire EXCEPT ![c] = <<>>] /\ UNCHANGED <<backlog, sock>>
        BY <2>6 DEF Quit
      <3>4. QED
        BY <1>5, <3>1, <3>2, <3>3, ReadTyped DEF KernelTyped
    <2>7. QED
      BY <2>1, <2>2, <2>3, <2>4, <2>5, <2>6 DEF User, Program
  <1>7. SomeoneWaits'
    <2>1. i' = i /\ (backlog # <<>> => backlog' # <<>>)
      BY <1>1, <1>5 DEF server, User, Program, Connect, Type, TypeEnd, Quit, Display,
                        ServerCloses, kernel
    <2>2. QED
      BY <2>1 DEF SomeoneWaits
  <1>8. QED
    BY <1>2, <1>3, <1>4, <1>6, <1>7 DEF TypeOK

\* close() of a descriptor, and what it throws away.
LEMMA DiscardTyped ==
    ASSUME KernelTyped, HistoryTyped, NEW c \in Clients, Discard(c)
    PROVE  /\ inbox' \in [Clients -> Seq(Texts)] /\ err' \in [Clients -> BOOLEAN]
           /\ words' \in [Clients -> Seq(Texts)]
  BY DEF Discard, KernelTyped, HistoryTyped

LEMMA TypeOfListening ==
    ASSUME TypeOK, SomeoneWaits, PlacesAgree, Poll \/ Accept \/ Refuse
    PROVE  TypeOK' /\ SomeoneWaits'
  <1>1. ServerTyped /\ KernelTyped /\ HistoryTyped
    BY DEF TypeOK
  <1>2. ClientsTyped'
    BY UnchangedTyped DEF Poll, Accept, AcceptWhile, Refuse
  <1>3. CASE Poll
    <2>1. \A j \in 1..Len(fds) : [fds[j] EXCEPT !.revents = Revents(fds[j])] \in Places
      BY PlaceOpen DEF Places, Revents
    <2>2. fds' \in Seq(Places) /\ Len(fds') = Len(fds) /\ Len(fds) \in 0..USER_LIMIT
      BY <1>1, <1>3, <2>1 DEF Poll, ServerTyped, user_counter
    <2>3. (i' = 0 /\ listen') \/ i' \in 1..(Len(fds') + 1)
      BY <1>3, <2>2 DEF Poll, PlaceFrom
    <2>4. i' \in 0..(USER_LIMIT + 1)
      BY <2>2, <2>3, Kinds
    <2>5. listen' = (backlog # <<>>) /\ UNCHANGED <<users, backlog>>
      BY <1>3 DEF Poll, kernel
    <2>6. ServerTyped'
      BY <1>1, <2>2, <2>4, <2>5 DEF ServerTyped, user_counter
    <2>7. SomeoneWaits'
      <3>1. i' = 0 => listen'
        BY <2>2, <2>3
      <3>2. listen' => backlog' # <<>>
        BY <2>5
      <3>3. QED
        BY <3>1, <3>2 DEF SomeoneWaits
    <2>8. KernelTyped' /\ HistoryTyped'
      BY <1>3, UnchangedTyped DEF Poll
    <2>9. QED
      BY <1>2, <2>6, <2>7, <2>8 DEF TypeOK
  <1>4. backlog # <<>> => Head(backlog) \in Clients /\ Tail(backlog) \in Seq(Clients)
    BY <1>1 DEF KernelTyped
  <1>5. CASE Accept
    <2>1. PICK connfd \in Fds :
            /\ sock' = [sock EXCEPT ![connfd] = Head(backlog)]
            /\ fds' = Append(fds, [fd |-> connfd, events |-> Accepted, revents |-> {}])
      BY <1>5 DEF Accept, AcceptWhile
    <2>2. backlog # <<>>
      BY <1>5 DEF Accept, AcceptWhile, SomeoneWaits
    <2>3. [fd |-> connfd, events |-> Accepted, revents |-> {}] \in Places
      BY DEF Places, Accepted, AllEvents
    <2>4. Len(fds) \in Nat /\ Len(fds) < USER_LIMIT
      BY <1>1, <1>5 DEF Accept, AcceptWhile, ServerTyped, user_counter
    <2>5. fds' \in Seq(Places) /\ Len(fds') = Len(fds) + 1
      BY <1>1, <2>1, <2>3 DEF ServerTyped
    <2>6. i' \in 1..(Len(fds') + 1)
      BY <1>5 DEF Accept, AcceptWhile, PlaceFrom
    <2>7. i' \in 1..(USER_LIMIT + 1)
      BY <2>4, <2>5, <2>6, Kinds
    <2>8. UNCHANGED <<listen, users, inbox, wire, gone, err, history>> /\ backlog' = Tail(backlog)
      BY <1>5 DEF Accept, AcceptWhile
    <2>9. ServerTyped'
      BY <1>1, <2>4, <2>5, <2>7, <2>8, Kinds DEF ServerTyped, user_counter
    <2>10. KernelTyped'
      BY <1>1, <1>4, <2>1, <2>2, <2>8 DEF KernelTyped
    <2>11. HistoryTyped' /\ SomeoneWaits'
      BY <2>7, <2>8, UnchangedTyped DEF SomeoneWaits
    <2>12. QED
      BY <1>2, <2>9, <2>10, <2>11 DEF TypeOK
  <1>6. CASE Refuse
    <2>1. backlog # <<>>
      BY <1>6 DEF Refuse, SomeoneWaits
    <2>2. Head(backlog) \in Clients /\ backlog' \in Seq(Clients)
      BY <1>4, <1>6, <2>1 DEF Refuse
    <2>3. i' \in 1..(Len(fds) + 1) /\ Len(fds) \in 0..USER_LIMIT
      BY <1>1, <1>6 DEF Refuse, PlaceFrom, ServerTyped, user_counter
    <2>4. i' \in 1..(USER_LIMIT + 1)
      BY <2>3, Kinds
    <2>5. UNCHANGED <<fds, listen, users, sock, wire, gone, from>> /\ Discard(Head(backlog))
      BY <1>6 DEF Refuse
    <2>6. /\ inbox' \in [Clients -> Seq(Texts)] /\ err' \in [Clients -> BOOLEAN]
          /\ words' \in [Clients -> Seq(Texts)]
      BY <1>1, <2>2, <2>5, DiscardTyped
    <2>7. ServerTyped'
      BY <1>1, <2>4, <2>5 DEF ServerTyped, user_counter
    <2>8. KernelTyped' /\ HistoryTyped' /\ SomeoneWaits'
      BY <1>1, <2>2, <2>3, <2>5, <2>6 DEF KernelTyped, HistoryTyped, SomeoneWaits
    <2>9. QED
      BY <1>2, <2>7, <2>8 DEF TypeOK
  <1>7. QED
    BY <1>3, <1>5, <1>6

\* The buffer of one user is cleared; the others, and all pointers, stay.
LEMMA ClearedTyped ==
    ASSUME TypeOK, Fd \in Fds
    PROVE  /\ Cleared \in [Fds -> [write_buf : Fds \cup {NULL}, buf : Seq(Texts)]]
           /\ \A f \in Fds : Cleared[f].write_buf = users[f].write_buf
           /\ \A f \in Fds : f # Fd => Cleared[f] = users[f]
           /\ Cleared[Fd].buf = <<>>
  <1>1. users \in [Fds -> [write_buf : Fds \cup {NULL}, buf : Seq(Texts)]]
    BY DEF TypeOK, ServerTyped
  <1>2. <<>> \in Seq(Texts)
    OBVIOUS
  <1>3. [users[Fd] EXCEPT !.buf = <<>>]
            \in [write_buf : Fds \cup {NULL}, buf : Seq(Texts)]
    BY <1>1, <1>2
  <1>4. QED
    BY <1>1, <1>3 DEF Cleared

LEMMA TypeOfClose ==
    ASSUME TypeOK, PlacesAgree, i \in 1..Len(fds), CloseAny,
           UNCHANGED <<listen, backlog, wire, gone, client>>
    PROVE  TypeOK' /\ SomeoneWaits'
  <1>1. ServerTyped /\ KernelTyped /\ HistoryTyped
    BY DEF TypeOK
  <1>2. /\ fds' \in Seq(Places) /\ Len(fds') = Len(fds) - 1
        /\ Fd \in Fds /\ Peer \in Clients
    BY CloseEffect
  <1>3. Len(fds) \in 1..USER_LIMIT
    BY <1>1 DEF ServerTyped, user_counter
  <1>4. i' \in i..(Len(fds') + 1)
    BY DEF CloseAny, Close, PlaceFrom
  <1>5. i' \in 1..(USER_LIMIT + 1)
    BY <1>2, <1>3, <1>4, Kinds
  <1>6. fds[Len(fds)].fd \in Fds
    BY <1>3, PlaceOpen
  <1>7. users' \in [Fds -> [write_buf : Fds \cup {NULL}, buf : Seq(Texts)]]
    <2>1. PICK current \in {users, Cleared} :
            users' = [current EXCEPT ![Fd] = current[fds[user_counter].fd]]
      BY DEF CloseAny, Close
    <2>2. current \in [Fds -> [write_buf : Fds \cup {NULL}, buf : Seq(Texts)]]
      BY <1>1, <1>2, ClearedTyped DEF ServerTyped
    <2>3. QED
      BY <1>2, <1>6, <2>1, <2>2 DEF user_counter
  <1>8. /\ sock' \in [Fds -> Clients \cup {NULL}]
        /\ from' \in [Clients -> Clients \cup {NULL}]
    BY <1>1, <1>2 DEF CloseAny, Close, KernelTyped, HistoryTyped
  <1>9. /\ inbox' \in [Clients -> Seq(Texts)] /\ err' \in [Clients -> BOOLEAN]
        /\ words' \in [Clients -> Seq(Texts)]
    BY <1>1, <1>2, DiscardTyped DEF CloseAny, Close
  <1>10. ServerTyped'
    BY <1>1, <1>2, <1>3, <1>5, <1>7, Kinds DEF ServerTyped, user_counter
  <1>11. KernelTyped' /\ HistoryTyped'
    BY <1>1, <1>8, <1>9 DEF KernelTyped, HistoryTyped
  <1>12. ClientsTyped' /\ SomeoneWaits'
    BY <1>5, UnchangedTyped DEF SomeoneWaits
  <1>13. QED
    BY <1>10, <1>11, <1>12 DEF TypeOK

\* A place of a user is looked at only while it exists.
LEMMA ReportedPlace ==
    ASSUME TypeOK, PlacesAgree, NEW e, Reported(e)
    PROVE  /\ i \in 1..Len(fds) /\ Len(fds) \in 1..USER_LIMIT
           /\ fds[i] \in Places /\ Fd \in Fds /\ Peer \in Clients
  <1>1. i \in 1..Len(fds) /\ Len(fds) \in Nat /\ Len(fds) <= USER_LIMIT
    BY DEF Reported, user_counter, TypeOK, ServerTyped
  <1>2. Len(fds) \in 1..USER_LIMIT
    BY <1>1, Kinds
  <1>3. QED
    BY <1>1, <1>2, PlaceOpen DEF Fd, Peer

\* Asking for more events leaves descriptors and what was reported alone.
LEMMA AskedFor ==
    ASSUME ServerTyped,
           NEW more \in [1..Len(fds) -> SUBSET AllEvents],
           fds' = [j \in 1..Len(fds) |-> [fds[j] EXCEPT !.events = @ \cup more[j]]]
    PROVE  /\ fds' \in Seq(Places) /\ Len(fds') = Len(fds)
           /\ \A j \in 1..Len(fds) :
                fds'[j].fd = fds[j].fd /\ fds'[j].revents = fds[j].revents
  <1>1. \A j \in 1..Len(fds) : fds[j] \in Places
    BY DEF ServerTyped
  <1>2. \A j \in 1..Len(fds) : [fds[j] EXCEPT !.events = @ \cup more[j]] \in Places
    BY <1>1 DEF Places
  <1>3. Len(fds) \in Nat
    BY DEF ServerTyped
  <1>4. fds' \in Seq(Places) /\ Len(fds') = Len(fds)
    BY <1>2, <1>3
  <1>5. \A j \in 1..Len(fds) :
            fds'[j].fd = fds[j].fd /\ fds'[j].revents = fds[j].revents
    BY <1>1 DEF Places
  <1>6. QED
    BY <1>4, <1>5

LEMMA ReceiveAsks ==
    ASSUME ServerTyped, Receive
    PROVE  /\ fds' \in Seq(Places) /\ Len(fds') = Len(fds)
           /\ \A j \in 1..Len(fds) :
                fds'[j].fd = fds[j].fd /\ fds'[j].revents = fds[j].revents
  <1> DEFINE more == [j \in 1..Len(fds) |-> IF j = i THEN {} ELSE {"OUT", "RDHUP"}]
  <1>1. more \in [1..Len(fds) -> SUBSET AllEvents]
    BY DEF AllEvents
  <1>2. \A j \in 1..Len(fds) : fds[j] \in Places
    BY DEF ServerTyped
  <1>3. \A j \in 1..Len(fds) :
            [fds[j] EXCEPT !.events = @ \cup more[j]] =
                IF j = i THEN fds[j] ELSE Notified(fds[j])
    BY <1>2 DEF Notified, AllEvents, Places
  <1>4. fds' = [j \in 1..Len(fds) |-> [fds[j] EXCEPT !.events = @ \cup more[j]]]
    BY <1>3 DEF Receive, ReceiveFor, Notify, user_counter
  <1>5. QED
    BY <1>1, <1>4, AskedFor

LEMMA SendAsks ==
    ASSUME ServerTyped, Send
    PROVE  /\ fds' \in Seq(Places) /\ Len(fds') = Len(fds)
           /\ \A j \in 1..Len(fds) :
                fds'[j].fd = fds[j].fd /\ fds'[j].revents = fds[j].revents
  <1> DEFINE more == [j \in 1..Len(fds) |-> IF j = i THEN {"IN", "RDHUP"} ELSE {}]
  <1>1. more \in [1..Len(fds) -> SUBSET AllEvents]
    BY DEF AllEvents
  <1>2. \A j \in 1..Len(fds) : fds[j] \in Places
    BY DEF ServerTyped
  <1>3. fds' = [fds EXCEPT ![i].events = @ \cup (AllEvents \ {"OUT"}) \cup {"IN"}]
    BY DEF Send
  <1>4. fds = [j \in 1..Len(fds) |-> fds[j]]
    BY DEF ServerTyped
  <1>5. \A j \in 1..Len(fds) :
            [fds[j] EXCEPT !.events = @ \cup more[j]] =
                IF j = i THEN [fds[j] EXCEPT !.events = @ \cup (AllEvents \ {"OUT"}) \cup {"IN"}]
                ELSE fds[j]
    BY <1>2 DEF AllEvents, Places
  <1>6. fds' = [j \in 1..Len(fds) |-> [fds[j] EXCEPT !.events = @ \cup more[j]]]
    BY <1>3, <1>4, <1>5
  <1>7. QED
    BY <1>1, <1>6, AskedFor

\* The place after the one that has been handled.
LEMMA NextPlaceTyped ==
    ASSUME i \in 1..Len(fds), Len(fds) \in 1..USER_LIMIT, NextPlace
    PROVE  i' \in 1..(USER_LIMIT + 1) /\ i' > i
  <1>1. i' \in (i + 1)..(Len(fds) + 1)
    BY DEF NextPlace, PlaceFrom
  <1>2. QED
    BY <1>1, Kinds

\* A step that handles a place and gives none up.
LEMMA TypeOfPlace ==
    ASSUME TypeOK, PlacesAgree, SomeoneWaits,
           i \in 1..Len(fds), Len(fds) \in 1..USER_LIMIT, NextPlace,
           fds' \in Seq(Places), Len(fds') = Len(fds),
           users' \in [Fds -> [write_buf : Fds \cup {NULL}, buf : Seq(Texts)]],
           UNCHANGED <<listen, backlog>>,
           KernelTyped', ClientsTyped', HistoryTyped'
    PROVE  TypeOK' /\ SomeoneWaits'
  <1>1. i' \in 1..(USER_LIMIT + 1)
    BY NextPlaceTyped
  <1>2. ServerTyped'
    BY <1>1, Kinds DEF TypeOK, ServerTyped, user_counter
  <1>3. QED
    BY <1>1, <1>2 DEF TypeOK, SomeoneWaits

LEMMA TypeOfGetError ==
    ASSUME TypeOK, PlacesAgree, SomeoneWaits, GetError \/ SendNothing
    PROVE  TypeOK' /\ SomeoneWaits'
  <1>1. ServerTyped /\ KernelTyped
    BY DEF TypeOK
  <1>2. /\ i \in 1..Len(fds) /\ Len(fds) \in 1..USER_LIMIT /\ Peer \in Clients
        /\ NextPlace
    BY ReportedPlace DEF GetError, SendNothing, Sending
  <1>3. ClientsTyped' /\ HistoryTyped'
    BY UnchangedTyped DEF GetError, SendNothing
  <1>4. KernelTyped'
    <2>1. CASE GetError
      BY <1>1, <1>2, <2>1 DEF GetError, KernelTyped
    <2>2. CASE SendNothing
      BY <2>2, UnchangedTyped DEF SendNothing
    <2>3. QED
      BY <2>1, <2>2
  <1>5. UNCHANGED <<fds, listen, users, backlog>>
    BY DEF GetError, SendNothing, kernel
  <1>6. QED
    BY <1>1, <1>2, <1>3, <1>4, <1>5, TypeOfPlace DEF ServerTyped

LEMMA TypeOfLeaving ==
    ASSUME TypeOK, PlacesAgree, SomeoneWaits, Leave \/ RecvFails
    PROVE  TypeOK' /\ SomeoneWaits'
  <1>1. ServerTyped /\ KernelTyped
    BY DEF TypeOK
  <1>2. i \in 1..Len(fds) /\ Len(fds) \in 1..USER_LIMIT
    BY ReportedPlace DEF Leave, RecvFails, Recv
  <1>3. UNCHANGED <<listen, backlog, wire, gone, client>>
    BY DEF Leave, RecvFails
  <1>4. CASE CloseAny
    BY <1>2, <1>3, <1>4, TypeOfClose
  <1>5. CASE /\ users' = Cleared /\ words' = [words EXCEPT ![Peer] = <<>>]
             /\ NextPlace /\ UNCHANGED <<sock, fds, inbox, err, from>>
    <2>1. ClientsTyped' /\ KernelTyped'
      BY <1>3, <1>5, UnchangedTyped DEF kernel
    <2>2. Fd \in Fds
      BY <1>2, PlaceOpen DEF Fd
    <2>3. HistoryTyped'
      <3>1. words \in [Clients -> Seq(Texts)] /\ <<>> \in Seq(Texts)
        BY DEF TypeOK, HistoryTyped
      <3>2. words' \in [Clients -> Seq(Texts)]
        BY <1>5, <3>1
      <3>3. QED
        BY <1>5, <3>2 DEF TypeOK, HistoryTyped
    <2>4. users' \in [Fds -> [write_buf : Fds \cup {NULL}, buf : Seq(Texts)]]
      BY <1>5, <2>2, ClearedTyped
    <2>5. QED
      BY <1>1, <1>2, <1>3, <1>5, <2>1, <2>3, <2>4, TypeOfPlace DEF ServerTyped
  <1>6. QED
    BY <1>4, <1>5 DEF CloseAny, Leave, RecvFails

LEMMA TypeOfReceive ==
    ASSUME TypeOK, PlacesAgree, SomeoneWaits, Receive
    PROVE  TypeOK' /\ SomeoneWaits'
  <1>1. ServerTyped /\ KernelTyped /\ HistoryTyped
    BY DEF TypeOK
  <1>2. /\ i \in 1..Len(fds) /\ Len(fds) \in 1..USER_LIMIT
        /\ Fd \in Fds /\ Peer \in Clients /\ NextPlace
    BY ReportedPlace DEF Receive, ReceiveFor, Recv
  <1>3. PICK n \in 1..Len(inbox[Peer]) :
        LET text == SubSeq(inbox[Peer], 1, n) IN
        /\ inbox' = [inbox EXCEPT ![Peer] = SubSeq(@, n + 1, Len(@))]
        /\ words' = [words EXCEPT ![Peer] = text]
        /\ users' = [fd \in Fds |->
            IF fd = Fd THEN [users[fd] EXCEPT !.buf = text]
            ELSE IF fd \in Others THEN [users[fd] EXCEPT !.write_buf = Fd]
            ELSE users[fd]]
    BY DEF Receive, ReceiveFor
  <1> DEFINE text == SubSeq(inbox[Peer], 1, n)
  <1>4. inbox[Peer] \in Seq(Texts) /\ n \in Nat /\ n <= Len(inbox[Peer])
    BY <1>1, <1>2 DEF KernelTyped
  <1>5. text \in Seq(Texts) /\ SubSeq(inbox[Peer], n + 1, Len(inbox[Peer])) \in Seq(Texts)
    BY <1>4
  <1> HIDE DEF text
  <1>6. inbox' \in [Clients -> Seq(Texts)] /\ words' \in [Clients -> Seq(Texts)]
    BY <1>1, <1>2, <1>3, <1>5 DEF KernelTyped, HistoryTyped, text
  <1>7. users' \in [Fds -> [write_buf : Fds \cup {NULL}, buf : Seq(Texts)]]
    BY <1>1, <1>2, <1>3, <1>5 DEF ServerTyped, text
  <1>8. from' \in [Clients -> Clients \cup {NULL}]
    BY <1>1, <1>2 DEF Receive, ReceiveFor, Notify, HistoryTyped
  <1>9. UNCHANGED <<listen, backlog, sock, wire, gone, err, client>>
    BY DEF Receive, ReceiveFor
  <1>10. KernelTyped' /\ HistoryTyped' /\ ClientsTyped'
    BY <1>1, <1>6, <1>8, <1>9, UnchangedTyped DEF KernelTyped, HistoryTyped
  <1>11. fds' \in Seq(Places) /\ Len(fds') = Len(fds)
    BY <1>1, ReceiveAsks
  <1>12. QED
    BY <1>2, <1>7, <1>9, <1>10, <1>11, TypeOfPlace

LEMMA TypeOfSend ==
    ASSUME TypeOK, PlacesAgree, SomeoneWaits, RoomToSend, Send
    PROVE  TypeOK' /\ SomeoneWaits'
  <1>1. ServerTyped /\ KernelTyped /\ HistoryTyped
    BY DEF TypeOK
  <1>2. /\ i \in 1..Len(fds) /\ Len(fds) \in 1..USER_LIMIT
        /\ Fd \in Fds /\ Peer \in Clients /\ NextPlace
    BY ReportedPlace DEF Send, Sending
  <1> DEFINE text == users[users[Fd].write_buf].buf
  <1>3. users[Fd].write_buf \in Fds
    BY <1>1, <1>2 DEF Send, ServerTyped
  <1>4. text \in Seq(Texts)
    BY <1>1, <1>3 DEF ServerTyped
  <1>5. /\ wire' = IF gone[Peer] = "no" /\ text # <<>>
                   THEN [wire EXCEPT ![Peer] = Append(@, text)] ELSE wire
        /\ gone' = [gone EXCEPT ![Peer] = IF @ = "fin" /\ text # <<>> THEN "rst" ELSE @]
        /\ err' = [err EXCEPT ![Peer] = gone[Peer] = "fin" /\ text # <<>>]
    BY DEF Send
  <1> HIDE DEF text
  <1>6. gone[Peer] = "no" => Len(wire[Peer]) < SendBuffer
    BY <1>2 DEF Send, Sending, Reported, RoomToSend, Fd, Peer
  <1>7. wire[Peer] \in Seq(Seq(Texts)) /\ Len(wire[Peer]) \in Nat
    BY <1>1, <1>2 DEF KernelTyped
  <1>8. /\ Append(wire[Peer], text) \in Seq(Seq(Texts))
        /\ Len(Append(wire[Peer], text)) = Len(wire[Peer]) + 1
    BY <1>4, <1>7
  <1>9. wire' \in [Clients -> Seq(Seq(Texts))]
    BY <1>1, <1>2, <1>5, <1>8 DEF KernelTyped
  <1>10. \A c \in Clients : Len(wire'[c]) <= SendBuffer
    BY <1>1, <1>2, <1>5, <1>6, <1>7, <1>8, Kinds DEF KernelTyped
  <1>11. gone' \in [Clients -> {"no", "fin", "rst"}] /\ err' \in [Clients -> BOOLEAN]
    BY <1>1, <1>2, <1>5 DEF KernelTyped
  <1>12. users' \in [Fds -> [write_buf : Fds \cup {NULL}, buf : Seq(Texts)]]
    BY <1>1, <1>2 DEF Send, ServerTyped
  <1>13. UNCHANGED <<listen, backlog, sock, inbox, client, words>>
    BY DEF Send
  <1>14. from' \in [Clients -> Clients \cup {NULL}]
    BY <1>1, <1>2 DEF Send, HistoryTyped
  <1>15. KernelTyped' /\ HistoryTyped' /\ ClientsTyped'
    BY <1>1, <1>9, <1>10, <1>11, <1>13, <1>14, UnchangedTyped DEF KernelTyped, HistoryTyped
  <1>16. fds' \in Seq(Places) /\ Len(fds') = Len(fds)
    BY <1>1, SendAsks
  <1>17. QED
    BY <1>2, <1>12, <1>13, <1>15, <1>16, TypeOfPlace

LEMMA TypeStep ==
    ASSUME TypeOK, SomeoneWaits, PlacesAgree, RoomToSend, [Next]_vars
    PROVE  TypeOK' /\ SomeoneWaits'
  <1>1. CASE UNCHANGED vars
    <2>1. TypeOK'
      BY <1>1, UnchangedTyped DEF vars, TypeOK
    <2>2. QED
      BY <1>1, <2>1 DEF vars, server, kernel, SomeoneWaits
  <1>2. CASE Next
    BY <1>2, TypeOfClients, TypeOfListening, TypeOfGetError, TypeOfLeaving,
       TypeOfReceive, TypeOfSend DEF Next, Server
  <1>3. QED
    BY <1>1, <1>2

-----------------------------------------------------------------------------
(* Places, descriptors and clients.                                        *)

\* A step that keeps descriptors and the places they are in.
LEMMA SamePlaces ==
    ASSUME TypeOK, PlacesAgree, OneDescriptor,
           Len(fds') = Len(fds), \A j \in 1..Len(fds) : fds'[j].fd = fds[j].fd,
           sock' = sock
    PROVE  PlacesAgree' /\ OneDescriptor'
  <1>1. PlacesAgree'
    BY DEF PlacesAgree, user_counter
  <1>2. OneDescriptor'
    BY DEF OneDescriptor
  <1>3. QED
    BY <1>1, <1>2

LEMMA PlacesOfClose ==
    ASSUME TypeOK, PlacesAgree, OneDescriptor, i \in 1..Len(fds), CloseAny
    PROVE  /\ PlacesAgree' /\ OneDescriptor'
           /\ \A j \in 1..Len(fds') : \E k \in (1..Len(fds)) \ {i} :
                (j >= i => k >= i) /\ fds'[j] = fds[k]
  <1>1. /\ Len(fds') = Len(fds) - 1 /\ Len(fds) \in Nat
        /\ \A j \in 1..Len(fds') : fds'[j] = IF j = i THEN fds[Len(fds)] ELSE fds[j]
        /\ \A f \in Fds : sock'[f] = IF f = Fd THEN NULL ELSE sock[f]
        /\ Fd \in Fds
    BY CloseEffect DEF TypeOK, ServerTyped
  <1>2. \A j \in 1..Len(fds) : j # i => fds[j].fd \in Fds \ {Fd} /\ sock[fds[j].fd] # NULL
    BY PlaceOpen, PlacesApart, Kinds DEF Fd
  <1>3. \A j \in 1..Len(fds') : \E k \in (1..Len(fds)) \ {i} :
            (j >= i => k >= i) /\ fds'[j] = fds[k]
    <2> TAKE j \in 1..Len(fds')
    <2>1. CASE j = i
      <3>1. Len(fds) \in (1..Len(fds)) \ {i} /\ Len(fds) >= i /\ fds'[j] = fds[Len(fds)]
        BY <1>1, <2>1
      <3>2. QED
        BY <3>1
    <2>2. CASE j # i
      <3>1. j \in (1..Len(fds)) \ {i} /\ fds'[j] = fds[j]
        BY <1>1, <2>2
      <3>2. QED
        BY <3>1
    <2>3. QED
      BY <2>1, <2>2
  <1>4. \A j \in 1..Len(fds') : fds'[j].fd \in Fds /\ sock'[fds'[j].fd] # NULL
    <2> TAKE j \in 1..Len(fds')
    <2>1. PICK k \in (1..Len(fds)) \ {i} : fds'[j] = fds[k]
      BY <1>3
    <2>2. fds[k].fd \in Fds \ {Fd} /\ sock[fds[k].fd] # NULL
      BY <1>2
    <2>3. sock'[fds[k].fd] = sock[fds[k].fd]
      BY <1>1, <2>2
    <2>4. QED
      BY <2>1, <2>2, <2>3
  <1>5. \A f \in Fds : sock'[f] # NULL => \E j \in 1..Len(fds') : fds'[j].fd = f
    <2> TAKE f \in Fds
    <2> HAVE sock'[f] # NULL
    <2>1. f # Fd /\ sock[f] # NULL
      BY <1>1
    <2>2. PICK k \in 1..Len(fds) : fds[k].fd = f
      BY <2>1 DEF PlacesAgree, user_counter
    <2>3. k # i
      BY <2>1, <2>2 DEF Fd
    <2>4. CASE k = Len(fds)
      BY <1>1, <2>2, <2>3, <2>4
    <2>5. CASE k # Len(fds)
      BY <1>1, <2>2, <2>3, <2>5
    <2>6. QED
      BY <2>4, <2>5
  <1>6. \A j, k \in 1..Len(fds) : fds[j].fd = fds[k].fd => j = k
    BY DEF PlacesAgree, user_counter
  <1>7. \A j, k \in 1..Len(fds') : fds'[j].fd = fds'[k].fd => j = k
    BY <1>1, <1>6
  <1>8. PlacesAgree'
    BY <1>4, <1>5, <1>7 DEF PlacesAgree, user_counter
  <1>9. OneDescriptor'
    BY <1>1 DEF OneDescriptor
  <1>10. QED
    BY <1>3, <1>8, <1>9

LEMMA PlacesOfAccept ==
    ASSUME TypeOK, PlacesAgree, OneDescriptor, BacklogApart, SomeoneWaits, Accept
    PROVE  /\ PlacesAgree' /\ OneDescriptor'
           /\ Len(fds) \in Nat /\ Len(fds') = Len(fds) + 1
           /\ \A j \in 1..Len(fds) : fds'[j] = fds[j] /\ sock'[fds[j].fd] = sock[fds[j].fd]
           /\ fds'[Len(fds')].revents = {}
           /\ \E f \in Fds : sock[f] = NULL /\ sock' = [sock EXCEPT ![f] = Head(backlog)]
  <1>1. PICK connfd \in Fds :
            /\ sock[connfd] = NULL /\ sock' = [sock EXCEPT ![connfd] = Head(backlog)]
            /\ fds' = Append(fds, [fd |-> connfd, events |-> Accepted, revents |-> {}])
    BY DEF Accept, AcceptWhile
  <1>2. backlog # <<>> /\ backlog \in Seq(Clients) /\ sock \in [Fds -> Clients \cup {NULL}]
    BY DEF Accept, AcceptWhile, SomeoneWaits, TypeOK, KernelTyped
  <1>3. Head(backlog) = backlog[1] /\ 1 \in 1..Len(backlog) /\ Head(backlog) \in Clients
    BY <1>2
  <1>4. \A f \in Fds : sock[f] # Head(backlog)
    BY <1>3 DEF BacklogApart
  <1>5. /\ Len(fds) \in Nat /\ Len(fds') = Len(fds) + 1
        /\ \A j \in 1..Len(fds) : fds'[j] = fds[j]
        /\ fds'[Len(fds')] = [fd |-> connfd, events |-> Accepted, revents |-> {}]
    BY <1>1 DEF TypeOK, ServerTyped
  <1>6. \A j \in 1..Len(fds) :
            fds[j].fd \in Fds \ {connfd} /\ sock[fds[j].fd] # NULL
    BY <1>1, PlaceOpen, Kinds
  <1>7. \A j \in 1..Len(fds) : sock'[fds[j].fd] = sock[fds[j].fd]
    BY <1>1, <1>2, <1>6
  <1>8. \A j \in 1..Len(fds') : j \in 1..Len(fds) \/ j = Len(fds')
    BY <1>5
  <1>9. \A j \in 1..Len(fds') : fds'[j].fd \in Fds /\ sock'[fds'[j].fd] # NULL
    BY <1>1, <1>2, <1>3, <1>5, <1>6, <1>7, <1>8, Kinds
  <1>10. \A f \in Fds : sock'[f] # NULL => \E j \in 1..Len(fds') : fds'[j].fd = f
    <2> TAKE f \in Fds
    <2> HAVE sock'[f] # NULL
    <2>1. CASE f = connfd
      BY <1>5, <2>1
    <2>2. CASE f # connfd
      <3>1. PICK k \in 1..Len(fds) : fds[k].fd = f
        BY <1>1, <1>2, <2>2 DEF PlacesAgree, user_counter
      <3>2. k \in 1..Len(fds') /\ fds'[k].fd = f
        BY <1>5, <3>1
      <3>3. QED
        BY <3>2
    <2>3. QED
      BY <2>1, <2>2
  <1>11. \A j, k \in 1..Len(fds) : fds[j].fd = fds[k].fd => j = k
    BY DEF PlacesAgree, user_counter
  <1>12. \A j, k \in 1..Len(fds') : fds'[j].fd = fds'[k].fd => j = k
    BY <1>5, <1>6, <1>8, <1>11
  <1>13. PlacesAgree'
    BY <1>9, <1>10, <1>12 DEF PlacesAgree, user_counter
  <1>14. OneDescriptor'
    BY <1>1, <1>2, <1>4 DEF OneDescriptor
  <1>15. \E f \in Fds : sock[f] = NULL /\ sock' = [sock EXCEPT ![f] = Head(backlog)]
    BY <1>1
  <1>16. fds'[Len(fds')].revents = {}
    BY <1>5
  <1>17. QED
    BY <1>5, <1>7, <1>13, <1>14, <1>15, <1>16

LEMMA PlacesStep ==
    ASSUME TypeOK, PlacesAgree, OneDescriptor, BacklogApart, SomeoneWaits, [Next]_vars
    PROVE  PlacesAgree' /\ OneDescriptor'
  <1>1. CASE UNCHANGED vars
    BY <1>1, SamePlaces DEF vars, server, kernel
  <1>2. ASSUME NEW c \in Clients, User(c) \/ Program(c)
        PROVE  PlacesAgree' /\ OneDescriptor'
    BY <1>2, SamePlaces
    DEF User, Program, Connect, Type, TypeEnd, Quit, Display, ServerCloses, server, kernel
  <1>3. CASE Poll
    <2>1. \A j \in 1..Len(fds) : fds[j] \in Places
      BY PlaceOpen
    <2>2. Len(fds') = Len(fds) /\ \A j \in 1..Len(fds) : fds'[j].fd = fds[j].fd
      BY <1>3, <2>1 DEF Poll, user_counter, Places, TypeOK, ServerTyped
    <2>3. QED
      BY <1>3, <2>2, SamePlaces DEF Poll, kernel
  <1>4. CASE Accept
    BY <1>4, PlacesOfAccept
  <1>5. CASE Refuse \/ GetError \/ SendNothing
    BY <1>5, SamePlaces DEF Refuse, GetError, SendNothing, kernel
  <1>6. CASE Leave \/ RecvFails
    <2>1. i \in 1..Len(fds)
      BY <1>6, ReportedPlace DEF Leave, RecvFails, Recv
    <2>2. CASE CloseAny
      BY <2>1, <2>2, PlacesOfClose
    <2>3. CASE UNCHANGED <<fds, sock>>
      BY <2>3, SamePlaces
    <2>4. QED
      BY <1>6, <2>2, <2>3 DEF CloseAny, Leave, RecvFails
  <1>7. CASE Receive
    BY <1>7, ReceiveAsks, SamePlaces DEF TypeOK, Receive, ReceiveFor
  <1>8. CASE Send
    BY <1>8, SendAsks, SamePlaces DEF TypeOK, Send
  <1>9. QED
    BY <1>1, <1>2, <1>3, <1>4, <1>5, <1>6, <1>7, <1>8 DEF Next, Server

\* A client that is in the backlog, at its head or behind.
LEMMA BacklogStep ==
    ASSUME TypeOK, PlacesAgree, BacklogApart, OneDescriptor, SomeoneWaits, [Next]_vars
    PROVE  /\ BacklogApart'
           /\ \A c \in Clients :
                /\ client[c] # "new" => client'[c] # "new"
                /\ client[c] # "new" /\ (\A k \in 1..Len(backlog) : backlog[k] # c)
                        => \A k \in 1..Len(backlog') : backlog'[k] # c
  <1> DEFINE Goal ==
        /\ BacklogApart'
        /\ \A c \in Clients :
            /\ client[c] # "new" => client'[c] # "new"
            /\ client[c] # "new" /\ (\A k \in 1..Len(backlog) : backlog[k] # c)
                    => \A k \in 1..Len(backlog') : backlog'[k] # c
  <1>1. /\ client \in [Clients -> {"new", "running", "stuck", "ended"}]
        /\ backlog \in Seq(Clients) /\ sock \in [Fds -> Clients \cup {NULL}]
    BY DEF TypeOK, ClientsTyped, KernelTyped
  <1>2. ASSUME UNCHANGED backlog,
               \A f \in Fds : sock'[f] = sock[f] \/ sock'[f] = NULL,
               \A c \in Clients : client[c] # "new" => client'[c] # "new"
        PROVE  Goal
    BY <1>1, <1>2, Kinds DEF BacklogApart
  <1>3. ASSUME backlog # <<>>, backlog' = Tail(backlog), UNCHANGED client,
               \/ UNCHANGED sock
               \/ \E f \in Fds : sock' = [sock EXCEPT ![f] = Head(backlog)]
        PROVE  Goal
    <2>1. /\ Len(backlog') = Len(backlog) - 1 /\ Len(backlog) \in Nat \ {0}
          /\ Head(backlog) = backlog[1]
          /\ \A k \in 1..Len(backlog') :
                k + 1 \in 1..Len(backlog) /\ backlog'[k] = backlog[k + 1]
      BY <1>1, <1>3
    <2>2. \A k \in 1..Len(backlog') :
            /\ backlog'[k] # Head(backlog) /\ client[backlog'[k]] # "new"
            /\ \A f \in Fds : sock[f] # backlog'[k]
      BY <2>1 DEF BacklogApart
    <2>3. \A k, l \in 1..Len(backlog') : backlog'[k] = backlog'[l] => k = l
      BY <2>1 DEF BacklogApart
    <2>4. client[Head(backlog)] # "new"
      BY <2>1 DEF BacklogApart
    <2>5. \A f \in Fds : sock'[f] = sock[f] \/ sock'[f] = Head(backlog)
      BY <1>1, <1>3
    <2>6. BacklogApart'
      BY <1>3, <2>2, <2>3, <2>4, <2>5 DEF BacklogApart
    <2>7. QED
      BY <1>3, <2>1, <2>6
  <1>4. CASE UNCHANGED vars
    BY <1>2, <1>4 DEF vars, kernel
  <1>5. ASSUME NEW c \in Clients, Connect(c)
        PROVE  Goal
    <2>1. client' = [client EXCEPT ![c] = "running"] /\ backlog' = Append(backlog, c)
          /\ client[c] = "new" /\ sock' = sock
      BY <1>5 DEF Connect
    <2>2. /\ Len(backlog) \in Nat /\ Len(backlog') = Len(backlog) + 1
          /\ \A k \in 1..Len(backlog) : backlog'[k] = backlog[k]
          /\ backlog'[Len(backlog')] = c
      BY <1>1, <2>1
    <2>3. \A k \in 1..Len(backlog') : k \in 1..Len(backlog) \/ k = Len(backlog')
      BY <2>2
    <2>4. \A k \in 1..Len(backlog) : backlog[k] # c /\ backlog[k] \in Clients
      BY <1>1, <2>1 DEF BacklogApart
    <2>5. \A f \in Fds : sock[f] # c
      BY <2>1, Kinds DEF BacklogApart
    <2>6. \A k, l \in 1..Len(backlog') : backlog'[k] = backlog'[l] => k = l
      BY <2>2, <2>3, <2>4 DEF BacklogApart
    <2>7. \A d \in Clients : client[d] # "new" => client'[d] # "new"
      BY <1>1, <2>1
    <2>8. client'[c] # "new"
      BY <1>1, <2>1
    <2>9. \A k \in 1..Len(backlog') :
            client'[backlog'[k]] # "new" /\ \A f \in Fds : sock'[f] # backlog'[k]
      BY <2>1, <2>2, <2>3, <2>4, <2>5, <2>7, <2>8 DEF BacklogApart
    <2>10. \A f \in Fds : sock'[f] # NULL => client'[sock'[f]] # "new"
      BY <1>1, <2>1, <2>7 DEF BacklogApart
    <2>11. BacklogApart'
      BY <2>6, <2>9, <2>10 DEF BacklogApart
    <2>12. QED
      BY <2>1, <2>2, <2>3, <2>7, <2>11
  <1>6. ASSUME NEW c \in Clients, Type(c) \/ TypeEnd(c) \/ Quit(c) \/ Program(c)
        PROVE  Goal
    <2>1. UNCHANGED <<backlog, sock>>
      BY <1>6 DEF Type, TypeEnd, Quit, Program, Display, ServerCloses, kernel
    <2>2. UNCHANGED client \/ client' = [client EXCEPT ![c] = "stuck"]
          \/ client' = [client EXCEPT ![c] = "ended"]
      BY <1>6 DEF Type, TypeEnd, Quit, Program, Display, ServerCloses
    <2>3. QED
      BY <1>1, <1>2, <2>1, <2>2
  <1>7. CASE Poll \/ GetError \/ SendNothing \/ Receive \/ Send
    BY <1>2, <1>7 DEF Poll, GetError, SendNothing, Receive, ReceiveFor, Send, kernel
  <1>8. CASE Accept
    BY <1>3, <1>8, PlacesOfAccept DEF Accept, AcceptWhile, SomeoneWaits
  <1>9. CASE Refuse
    BY <1>3, <1>9 DEF Refuse, SomeoneWaits
  <1>10. CASE Leave \/ RecvFails
    <2>1. UNCHANGED <<backlog, client>>
      BY <1>10 DEF Leave, RecvFails
    <2>2. \A f \in Fds : sock'[f] = sock[f] \/ sock'[f] = NULL
      BY <1>1, <1>10 DEF Leave, RecvFails, CloseAny, Close
    <2>3. QED
      BY <1>2, <2>1, <2>2
  <1>11. QED
    BY <1>4, <1>5, <1>6, <1>7, <1>8, <1>9, <1>10 DEF Next, Server, User

-----------------------------------------------------------------------------
(* What is pending, and room for it.                                       *)

\* A connected client has said something or may; it is not in the backlog.
LEMMA PeerKnown ==
    ASSUME TypeOK, BacklogApart, NEW f \in Fds, sock[f] # NULL
    PROVE  /\ sock[f] \in Clients /\ client[sock[f]] # "new"
           /\ \A k \in 1..Len(backlog) : backlog[k] # sock[f]
  BY DEF TypeOK, KernelTyped, BacklogApart

\* The users of the other places are the connected clients but one.
LEMMA OthersConnected ==
    ASSUME TypeOK, PlacesAgree, OneDescriptor, i \in 1..Len(fds)
    PROVE  Others = {f \in Fds : sock[f] # NULL /\ f # Fd}
  <1>1. \A f \in Others : f \in Fds /\ sock[f] # NULL /\ f # Fd
    BY PlaceOpen, PlacesApart, Kinds DEF Others, Fd, user_counter
  <1>2. \A f \in Fds : sock[f] # NULL /\ f # Fd => f \in Others
    <2> TAKE f \in Fds
    <2> HAVE sock[f] # NULL /\ f # Fd
    <2>1. PICK j \in 1..Len(fds) : fds[j].fd = f
      BY DEF PlacesAgree, user_counter
    <2>2. j # i
      BY <2>1 DEF Fd
    <2>3. QED
      BY <2>1, <2>2 DEF Others, user_counter
  <1>3. QED
    BY <1>1, <1>2

LEMMA PendingStep ==
    ASSUME TypeOK, PlacesAgree, OneDescriptor, BacklogApart, SomeoneWaits, PendingKnown,
           [Next]_vars
    PROVE  PendingKnown'
  <1>1. /\ from \in [Clients -> Clients \cup {NULL}]
        /\ sock \in [Fds -> Clients \cup {NULL}]
    BY DEF TypeOK, HistoryTyped, KernelTyped
  <1>2. ASSUME \A c \in Clients : from'[c] # NULL =>
                    /\ \E f \in Fds : sock'[f] = c
                    /\ from'[c] \in Clients /\ client[from'[c]] # "new"
                    /\ \A k \in 1..Len(backlog) : backlog[k] # from'[c]
        PROVE  PendingKnown'
    BY <1>2, BacklogStep DEF PendingKnown
  <1>3. ASSUME \A c \in Clients : from'[c] = from[c] \/ from'[c] = NULL,
               \A c \in Clients, f \in Fds :
                    from'[c] # NULL /\ sock[f] = c => sock'[f] = c
        PROVE  PendingKnown'
    <2>1. \A c \in Clients : from'[c] # NULL =>
                    /\ \E f \in Fds : sock'[f] = c
                    /\ from'[c] \in Clients /\ client[from'[c]] # "new"
                    /\ \A k \in 1..Len(backlog) : backlog[k] # from'[c]
      BY <1>1, <1>3 DEF PendingKnown
    <2>2. QED
      BY <1>2, <2>1
  <1>4. CASE UNCHANGED vars
    BY <1>3, <1>4 DEF vars, kernel, history
  <1>5. ASSUME NEW c \in Clients, User(c) \/ Program(c)
        PROVE  PendingKnown'
    BY <1>3, <1>5
    DEF User, Program, Connect, Type, TypeEnd, Quit, Display, ServerCloses, kernel, history
  <1>6. CASE Poll \/ Refuse \/ GetError \/ SendNothing
    BY <1>3, <1>6 DEF Poll, Refuse, GetError, SendNothing, kernel, history
  <1>7. CASE Accept
    <2>1. from' = from
      BY <1>7 DEF Accept, AcceptWhile, history
    <2>2. PICK g \in Fds : sock[g] = NULL /\ sock' = [sock EXCEPT ![g] = Head(backlog)]
      BY <1>7, PlacesOfAccept
    <2>3. QED
      BY <1>1, <1>3, <2>1, <2>2, Kinds
  <1>8. CASE Leave \/ RecvFails
    <2>1. i \in 1..Len(fds)
      BY <1>8, ReportedPlace DEF Leave, RecvFails, Recv
    <2>2. CASE CloseAny
      <3>1. from' = [from EXCEPT ![Peer] = NULL] /\ Peer = sock[Fd]
        BY <2>2 DEF CloseAny, Close, Peer
      <3>2. \A f \in Fds : sock'[f] = IF f = Fd THEN NULL ELSE sock[f]
        BY <2>1, <2>2, CloseEffect
      <3>3. QED
        BY <1>1, <1>3, <3>1, <3>2
    <2>3. CASE UNCHANGED <<sock, from>>
      BY <1>3, <2>3
    <2>4. QED
      BY <1>8, <2>2, <2>3 DEF CloseAny, Leave, RecvFails
  <1>9. CASE Receive
    <2>1. /\ i \in 1..Len(fds) /\ Fd \in Fds /\ Peer \in Clients /\ Peer = sock[Fd]
          /\ sock' = sock
      BY <1>9, ReportedPlace DEF Receive, ReceiveFor, Recv, Peer
    <2>2. from' = [c \in Clients |->
                    IF \E fd \in Others : sock[fd] = c THEN Peer ELSE from[c]]
      BY <1>9 DEF Receive, ReceiveFor, Notify
    <2>3. client[Peer] # "new" /\ \A k \in 1..Len(backlog) : backlog[k] # Peer
      BY <2>1, PeerKnown, Kinds
    <2>4. \A f \in Others : f \in Fds
      BY <2>1, OthersConnected
    <2>5. \A c \in Clients : from'[c] # NULL =>
                    /\ \E f \in Fds : sock'[f] = c
                    /\ from'[c] \in Clients /\ client[from'[c]] # "new"
                    /\ \A k \in 1..Len(backlog) : backlog[k] # from'[c]
      BY <1>1, <2>1, <2>2, <2>3, <2>4 DEF PendingKnown
    <2>6. QED
      BY <1>2, <2>5
  <1>10. CASE Send
    <2>1. from' = [from EXCEPT ![Peer] = NULL] /\ sock' = sock
      BY <1>10 DEF Send
    <2>2. QED
      BY <1>1, <1>3, <2>1
  <1>11. QED
    BY <1>4, <1>5, <1>6, <1>7, <1>8, <1>9, <1>10 DEF Next, Server

LEMMA RoomStep ==
    ASSUME TypeOK, PlacesAgree, OneDescriptor, BacklogApart, SomeoneWaits, RoomToSend,
           [Next]_vars
    PROVE  RoomToSend'
  <1>1. /\ wire \in [Clients -> Seq(Seq(Texts))] /\ i \in Nat /\ Len(fds) \in Nat
        /\ gone \in [Clients -> {"no", "fin", "rst"}]
        /\ sock \in [Fds -> Clients \cup {NULL}]
    BY DEF TypeOK, KernelTyped, ServerTyped
  <1>2. \A j \in 1..Len(fds) : fds[j].fd \in Fds /\ sock[fds[j].fd] \in Clients
    BY PlaceOpen
  <1>3. CASE UNCHANGED vars
    BY <1>3 DEF vars, server, kernel, RoomToSend
  <1>4. ASSUME NEW c \in Clients, User(c) \/ Program(c)
        PROVE  RoomToSend'
    <2>1. UNCHANGED <<i, fds, sock>>
      BY <1>4 DEF User, Program, Connect, Type, TypeEnd, Quit, Display, ServerCloses,
                  server, kernel
    <2>2. UNCHANGED wire \/ wire' = [wire EXCEPT ![c] = <<>>]
      BY <1>4 DEF User, Program, Connect, Type, TypeEnd, Quit, Display, ServerCloses, kernel
    <2>3. \A d \in Clients : Len(wire'[d]) < SendBuffer \/ wire'[d] = wire[d]
      BY <1>1, <2>2, Kinds
    <2>4. \A d \in Clients : gone'[d] = "no" => gone[d] = "no"
      BY <1>1, <1>4 DEF User, Program, Connect, Type, TypeEnd, Quit, Display, ServerCloses,
                        kernel
    <2>5. QED
      BY <1>2, <2>1, <2>3, <2>4 DEF RoomToSend
  <1>5. CASE Poll
    <2>1. /\ fds' = [j \in 1..Len(fds) |-> [fds[j] EXCEPT !.revents = Revents(fds[j])]]
          /\ UNCHANGED <<sock, wire, gone>>
      BY <1>5 DEF Poll, user_counter, kernel
    <2>2. \A j \in 1..Len(fds) : fds[j] \in Places
      BY PlaceOpen
    <2>3. Len(fds') = Len(fds) /\ \A j \in 1..Len(fds) :
                fds'[j].fd = fds[j].fd /\ fds'[j].revents = Revents(fds[j])
      BY <1>1, <2>1, <2>2 DEF Places
    <2>4. \A j \in 1..Len(fds) : "OUT" \in Revents(fds[j]) =>
                Len(wire[sock[fds[j].fd]]) < SendBuffer \/ gone[sock[fds[j].fd]] = "rst"
      BY DEF Revents, Happens
    <2>5. QED
      BY <2>1, <2>3, <2>4 DEF RoomToSend
  <1>6. CASE Accept
    <2>1. UNCHANGED <<wire, gone>> /\ i = 0
      BY <1>6 DEF Accept, AcceptWhile
    <2>2. /\ Len(fds') = Len(fds) + 1 /\ fds'[Len(fds')].revents = {}
          /\ \A j \in 1..Len(fds) : fds'[j] = fds[j] /\ sock'[fds[j].fd] = sock[fds[j].fd]
      BY <1>6, PlacesOfAccept
    <2>3. \A j \in 1..Len(fds') : j \in 1..Len(fds) \/ j = Len(fds')
      BY <1>1, <2>2
    <2>4. QED
      BY <1>1, <2>1, <2>2, <2>3 DEF RoomToSend
  <1>7. CASE Refuse
    <2>1. UNCHANGED <<fds, sock, wire, gone>> /\ i = 0
      BY <1>7 DEF Refuse
    <2>2. QED
      BY <1>1, <2>1 DEF RoomToSend
  <1>8. ASSUME i \in 1..Len(fds), Len(fds) \in 1..USER_LIMIT, NextPlace, UNCHANGED sock,
               Len(fds') = Len(fds),
               \A j \in 1..Len(fds) :
                    fds'[j].fd = fds[j].fd /\ fds'[j].revents = fds[j].revents,
               \A c \in Clients : c # Peer => wire'[c] = wire[c] /\ gone'[c] = gone[c]
        PROVE  RoomToSend'
    <2>1. i' > i /\ i' \in Nat
      BY <1>8, NextPlaceTyped
    <2>2. \A j \in 1..Len(fds) : j >= i' => j >= i /\ j # i
      BY <1>1, <2>1
    <2>3. \A j \in 1..Len(fds) : j # i => sock[fds[j].fd] # Peer
      BY <1>8, PlacesApart DEF Peer, Fd
    <2>4. QED
      BY <1>2, <1>8, <2>2, <2>3 DEF RoomToSend
  <1>9. CASE GetError \/ SendNothing
    BY <1>8, <1>9, ReportedPlace DEF GetError, SendNothing, Sending, kernel
  <1>10. CASE Leave \/ RecvFails
    <2>1. i \in 1..Len(fds) /\ Len(fds) \in 1..USER_LIMIT
      BY <1>10, ReportedPlace DEF Leave, RecvFails, Recv
    <2>2. UNCHANGED <<wire, gone>>
      BY <1>10 DEF Leave, RecvFails
    <2>3. CASE CloseAny
      <3>1. \A f \in Fds : sock'[f] = IF f = Fd THEN NULL ELSE sock[f]
        BY <2>1, <2>3, CloseEffect
      <3>2. i' \in i..(Len(fds') + 1)
        BY <2>3 DEF CloseAny, Close, PlaceFrom
      <3>3. \A k \in 1..Len(fds) : k # i => sock'[fds[k].fd] = sock[fds[k].fd]
        BY <1>2, <2>1, <3>1, PlacesApart DEF Fd
      <3>4. \A j \in 1..Len(fds') : j >= i' => j >= i
        BY <1>1, <3>2
      <3>5. QED
        BY <2>1, <2>2, <2>3, <3>3, <3>4, PlacesOfClose DEF RoomToSend
    <2>4. CASE NextPlace /\ UNCHANGED <<fds, sock>>
      BY <1>8, <2>1, <2>2, <2>4
    <2>5. QED
      BY <1>10, <2>3, <2>4 DEF CloseAny, Leave, RecvFails
  <1>11. CASE Receive
    <2>1. i \in 1..Len(fds) /\ Len(fds) \in 1..USER_LIMIT
      BY <1>11, ReportedPlace DEF Receive, ReceiveFor, Recv
    <2>2. UNCHANGED <<sock, wire, gone>> /\ NextPlace
      BY <1>11 DEF Receive, ReceiveFor
    <2>3. QED
      BY <1>8, <1>11, <2>1, <2>2, ReceiveAsks DEF TypeOK
  <1>12. CASE Send
    <2>1. i \in 1..Len(fds) /\ Len(fds) \in 1..USER_LIMIT
      BY <1>12, ReportedPlace DEF Send, Sending
    <2>2. UNCHANGED sock /\ NextPlace
      BY <1>12 DEF Send
    <2>3. \A c \in Clients : c # Peer => wire'[c] = wire[c] /\ gone'[c] = gone[c]
      BY <1>1, <1>12 DEF Send
    <2>4. QED
      BY <1>8, <1>12, <2>1, <2>2, <2>3, SendAsks DEF TypeOK
  <1>13. QED
    BY <1>3, <1>4, <1>5, <1>6, <1>7, <1>9, <1>10, <1>11, <1>12 DEF Next, Server

-----------------------------------------------------------------------------
(* The last words.                                                         *)

\* A step that opens no descriptor and leaves the users who stay connected, what
\* is pending for them and what they have said.
LEMMA WordsStay ==
    ASSUME TypeOK, LastWords,
           \A f \in Fds : sock'[f] # NULL =>
                /\ sock'[f] = sock[f] /\ users'[f] = users[f]
                /\ words'[sock[f]] = words[sock[f]]
                /\ from'[sock[f]] = from[sock[f]] \/ from'[sock[f]] = NULL
    PROVE  LastWords'
  BY DEF LastWords

LEMMA WordsStep ==
    ASSUME TypeOK, PlacesAgree, OneDescriptor, BacklogApart, SomeoneWaits, PendingKnown,
           LastWords, [Next]_vars
    PROVE  LastWords'
  <1>1. /\ from \in [Clients -> Clients \cup {NULL}] /\ words \in [Clients -> Seq(Texts)]
        /\ sock \in [Fds -> Clients \cup {NULL}]
        /\ users \in [Fds -> [write_buf : Fds \cup {NULL}, buf : Seq(Texts)]]
    BY DEF TypeOK, HistoryTyped, KernelTyped, ServerTyped
  <1>2. CASE UNCHANGED vars
    BY <1>2, WordsStay DEF vars, server, kernel, history
  <1>3. ASSUME NEW c \in Clients, User(c) \/ Program(c)
        PROVE  LastWords'
    BY <1>3, WordsStay
    DEF User, Program, Connect, Type, TypeEnd, Quit, Display, ServerCloses, server, kernel,
        history
  <1>4. CASE Poll \/ GetError \/ SendNothing
    BY <1>4, WordsStay DEF Poll, GetError, SendNothing, kernel, history
  <1>5. CASE Accept
    <2>1. PICK connfd \in Fds :
            sock[connfd] = NULL /\ sock' = [sock EXCEPT ![connfd] = Head(backlog)]
      BY <1>5, PlacesOfAccept
    <2>2. UNCHANGED <<users, from, words>>
      BY <1>5 DEF Accept, AcceptWhile, history
    <2>3. backlog # <<>> /\ backlog \in Seq(Clients)
      BY <1>5 DEF Accept, AcceptWhile, SomeoneWaits, TypeOK, KernelTyped
    <2>4. Head(backlog) = backlog[1] /\ 1 \in 1..Len(backlog) /\ Head(backlog) \in Clients
      BY <2>3
    <2>5. from[Head(backlog)] = NULL
      BY <2>4 DEF PendingKnown, BacklogApart
    <2>6. \A c \in Clients : from[c] # Head(backlog)
      BY <1>1, <2>4, Kinds DEF PendingKnown
    <2>7. ASSUME NEW f \in Fds, NEW g \in Fds, sock'[f] # NULL, sock'[g] # NULL,
                 from'[sock'[f]] = sock'[g]
          PROVE  users'[f].write_buf = g /\ users'[g].buf = words'[sock'[g]]
      <3>1. f # connfd
        BY <1>1, <2>1, <2>2, <2>4, <2>5, <2>7
      <3>2. sock'[f] = sock[f] /\ sock[f] \in Clients
        BY <1>1, <2>1, <2>7, <3>1
      <3>3. g # connfd
        BY <1>1, <2>1, <2>2, <2>6, <2>7, <3>2
      <3>4. sock'[g] = sock[g]
        BY <1>1, <2>1, <3>3
      <3>5. QED
        BY <2>2, <2>7, <3>2, <3>4 DEF LastWords
    <2>8. QED
      BY <2>7 DEF LastWords
  <1>6. CASE Refuse
    <2>1. UNCHANGED <<users, sock, from>> /\ words' = [words EXCEPT ![Head(backlog)] = <<>>]
      BY <1>6 DEF Refuse, Discard
    <2>2. backlog # <<>> /\ backlog \in Seq(Clients)
      BY <1>6 DEF Refuse, SomeoneWaits, TypeOK, KernelTyped
    <2>3. Head(backlog) = backlog[1] /\ 1 \in 1..Len(backlog)
      BY <2>2
    <2>4. \A f \in Fds : sock[f] # Head(backlog)
      BY <2>3 DEF BacklogApart
    <2>5. \A f \in Fds : sock[f] # NULL => words'[sock[f]] = words[sock[f]]
      BY <1>1, <2>1, <2>4
    <2>6. QED
      BY <2>1, <2>5, WordsStay
  <1>7. CASE Leave \/ RecvFails
    <2>1. i \in 1..Len(fds)
      BY <1>7, ReportedPlace DEF Leave, RecvFails, Recv
    <2>2. CASE CloseAny
      <3>1. /\ Fd \in Fds /\ Peer \in Clients /\ Peer = sock[Fd]
            /\ \A f \in Fds : sock'[f] = IF f = Fd THEN NULL ELSE sock[f]
        BY <2>1, <2>2, CloseEffect DEF Peer
      <3>2. /\ \E current \in {users, Cleared} :
                users' = [current EXCEPT ![Fd] = current[fds[user_counter].fd]]
            /\ from' = [from EXCEPT ![Peer] = NULL]
            /\ words' = [words EXCEPT ![Peer] = <<>>]
        BY <2>2 DEF CloseAny, Close, Discard
      <3>3. \A f \in Fds : sock'[f] # NULL => f # Fd /\ sock'[f] = sock[f] /\ sock[f] # Peer
        BY <3>1, Kinds DEF OneDescriptor
      <3>4. \A f \in Fds : sock'[f] # NULL =>
                /\ sock'[f] = sock[f] /\ users'[f] = users[f]
                /\ words'[sock[f]] = words[sock[f]]
                /\ from'[sock[f]] = from[sock[f]]
        <4>1. \A f \in Fds : f # Fd => users'[f] = users[f]
          <5>1. PICK current \in {users, Cleared} :
                  users' = [current EXCEPT ![Fd] = current[fds[user_counter].fd]]
            BY <3>2
          <5>2. \A f \in Fds : f # Fd => current[f] = users[f]
            BY <3>1, <5>1, ClearedTyped
          <5>3. DOMAIN current = Fds
            BY <1>1, <3>1, <5>1, ClearedTyped
          <5>4. QED
            BY <5>1, <5>2, <5>3
        <4>2. QED
          BY <1>1, <3>2, <3>3, <4>1
      <3>5. QED
        BY <3>4, WordsStay
    <2>3. CASE users' = Cleared /\ words' = [words EXCEPT ![Peer] = <<>>]
               /\ UNCHANGED <<sock, from>>
      <3>1. Fd \in Fds /\ sock[Fd] = Peer /\ Peer \in Clients
        BY <2>1, PlaceOpen DEF Fd, Peer
      <3>2. ASSUME NEW f \in Fds, NEW g \in Fds, sock'[f] # NULL, sock'[g] # NULL,
                   from'[sock'[f]] = sock'[g]
            PROVE  users'[f].write_buf = g /\ users'[g].buf = words'[sock'[g]]
        <4>1. users[f].write_buf = g /\ users[g].buf = words[sock[g]]
          BY <2>3, <3>2 DEF LastWords
        <4>2. users'[f].write_buf = g
          <5>1. users'[f].write_buf = users[f].write_buf
            BY <2>3, <3>1, ClearedTyped
          <5>2. QED
            BY <4>1, <5>1
        <4>3. CASE g = Fd
          BY <1>1, <2>3, <3>1, <4>2, <4>3, ClearedTyped
        <4>4. CASE g # Fd
          <5>1. sock[g] # Peer /\ sock[g] \in Clients
            <6>1. sock[g] # NULL
              BY <2>3, <3>2
            <6>2. sock[g] # sock[Fd]
              BY <3>1, <4>4, <6>1 DEF OneDescriptor
            <6>3. QED
              BY <1>1, <3>1, <6>1, <6>2
          <5>2. users'[g] = users[g] /\ words'[sock'[g]] = words[sock[g]]
            BY <1>1, <2>3, <3>1, <4>4, <5>1, ClearedTyped
          <5>3. QED
            BY <4>1, <4>2, <5>2
        <4>5. QED
          BY <4>3, <4>4
      <3>3. QED
        BY <3>2 DEF LastWords
    <2>4. QED
      BY <1>7, <2>2, <2>3 DEF CloseAny, Leave, RecvFails
  <1>8. CASE Receive
    <2>1. /\ i \in 1..Len(fds) /\ Fd \in Fds /\ Peer \in Clients /\ Peer = sock[Fd]
          /\ sock' = sock
      BY <1>8, ReportedPlace DEF Receive, ReceiveFor, Recv, Peer
    <2>2. PICK n \in 1..Len(inbox[Peer]) :
            LET text == SubSeq(inbox[Peer], 1, n) IN
            /\ words' = [words EXCEPT ![Peer] = text]
            /\ users' = [fd \in Fds |->
                IF fd = Fd THEN [users[fd] EXCEPT !.buf = text]
                ELSE IF fd \in Others THEN [users[fd] EXCEPT !.write_buf = Fd]
                ELSE users[fd]]
      BY <1>8 DEF Receive, ReceiveFor
    <2> DEFINE text == SubSeq(inbox[Peer], 1, n)
    <2>3. /\ words' = [words EXCEPT ![Peer] = text]
          /\ users' = [fd \in Fds |->
                IF fd = Fd THEN [users[fd] EXCEPT !.buf = text]
                ELSE IF fd \in Others THEN [users[fd] EXCEPT !.write_buf = Fd]
                ELSE users[fd]]
      BY <2>2
    <2> HIDE DEF text
    <2>4. Others = {f \in Fds : sock[f] # NULL /\ f # Fd}
      BY <2>1, OthersConnected
    <2>5. from' = [c \in Clients |->
                    IF \E fd \in Others : sock[fd] = c THEN Peer ELSE from[c]]
      BY <1>8 DEF Receive, ReceiveFor, Notify
    <2>6. /\ users'[Fd].buf = text /\ users'[Fd].write_buf = users[Fd].write_buf
          /\ words'[Peer] = text
          /\ \A f \in Others : users'[f].write_buf = Fd /\ users'[f].buf = users[f].buf
      BY <1>1, <2>1, <2>3, <2>4
    <2>7. /\ \A f \in Others : from'[sock[f]] = Peer
          /\ from'[Peer] = from[Peer]
          /\ \A f \in Others : words'[sock[f]] = words[sock[f]]
      <3>1. \A f \in Others : sock[f] \in Clients /\ sock[f] # Peer
        BY <1>1, <2>1, <2>4, Kinds DEF OneDescriptor
      <3>2. QED
        BY <1>1, <2>1, <2>3, <2>5, <3>1
    <2>8. ASSUME NEW f \in Fds, NEW g \in Fds, sock[f] # NULL, sock[g] # NULL,
                 from'[sock[f]] = sock[g]
          PROVE  users'[f].write_buf = g /\ users'[g].buf = words'[sock[g]]
      <3>1. users'[g].buf = words'[sock[g]]
        <4>1. CASE g = Fd
          BY <2>1, <2>6, <4>1
        <4>2. CASE g # Fd
          <5>1. g \in Others
            BY <2>4, <2>8, <4>2
          <5>2. f = Fd
            <6>1. ASSUME f # Fd PROVE FALSE
              BY <2>1, <2>4, <2>7, <2>8, <4>2, <6>1 DEF OneDescriptor
            <6>2. QED
              BY <6>1
          <5>3. from[sock[f]] = sock[g]
            BY <2>1, <2>7, <2>8, <5>2
          <5>4. QED
            BY <2>6, <2>7, <2>8, <5>1, <5>3 DEF LastWords
        <4>3. QED
          BY <4>1, <4>2
      <3>2. users'[f].write_buf = g
        <4>1. CASE f = Fd
          BY <2>1, <2>6, <2>7, <2>8, <4>1 DEF LastWords
        <4>2. CASE f # Fd
          BY <2>1, <2>4, <2>6, <2>7, <2>8, <4>2 DEF OneDescriptor
        <4>3. QED
          BY <4>1, <4>2
      <3>3. QED
        BY <3>1, <3>2
    <2>9. QED
      BY <2>1, <2>8 DEF LastWords
  <1>9. CASE Send
    <2>1. Fd \in Fds /\ Peer \in Clients /\ Peer = sock[Fd]
      BY <1>9, ReportedPlace DEF Send, Sending, Peer
    <2>2. /\ from' = [from EXCEPT ![Peer] = NULL] /\ UNCHANGED <<sock, words>>
          /\ users' = [users EXCEPT ![Fd].write_buf = NULL]
      BY <1>9 DEF Send
    <2>3. ASSUME NEW f \in Fds, NEW g \in Fds, sock[f] # NULL, sock[g] # NULL,
                 from'[sock[f]] = sock[g]
          PROVE  users'[f].write_buf = g /\ users'[g].buf = words[sock[g]]
      <3>1. f # Fd
        BY <1>1, <2>1, <2>2, <2>3
      <3>2. sock[f] # Peer /\ sock[f] \in Clients
        BY <1>1, <2>1, <2>3, <3>1 DEF OneDescriptor
      <3>3. from[sock[f]] = sock[g]
        BY <1>1, <2>2, <2>3, <3>2
      <3>4. users'[f] = users[f] /\ users'[g].buf = users[g].buf
        BY <1>1, <2>1, <2>2, <3>1
      <3>5. QED
        BY <2>3, <3>3, <3>4 DEF LastWords
    <2>4. QED
      BY <2>2, <2>3 DEF LastWords
  <1>10. QED
    BY <1>2, <1>3, <1>4, <1>5, <1>6, <1>7, <1>8, <1>9 DEF Next, Server

-----------------------------------------------------------------------------
(* The theorems.                                                           *)

LEMMA InitIInv == Init => IInv
  <1> SUFFICES ASSUME Init PROVE IInv
    OBVIOUS
  <1>1. TypeOK /\ SomeoneWaits
    BY InitTyped
  <1>2. /\ fds = <<>> /\ backlog = <<>> /\ \A f \in Fds : sock[f] = NULL
        /\ \A c \in Clients : from[c] = NULL
    BY DEF Init
  <1>3. PlacesAgree /\ OneDescriptor /\ BacklogApart /\ PendingKnown /\ RoomToSend
    BY <1>2 DEF PlacesAgree, user_counter, OneDescriptor, BacklogApart, PendingKnown,
                RoomToSend
  <1>4. LastWords
    BY <1>2 DEF LastWords
  <1>5. QED
    BY <1>1, <1>3, <1>4 DEF IInv

LEMMA IInvStep == IInv /\ [Next]_vars => IInv'
  BY TypeStep, PlacesStep, BacklogStep, PendingStep, RoomStep, WordsStep DEF IInv

\* The inductive invariant holds in every state of the server and its clients.
THEOREM Invariance == Spec => []IInv
  <1>1. Init => IInv
    BY InitIInv
  <1>2. IInv /\ [Next]_vars => IInv'
    BY IInvStep
  <1>3. QED
    BY <1>1, <1>2, PTL DEF Spec

\* The variables keep their types, there are never more users than fds[] has
\* places for, and nothing is sent to a socket that is full (9_7.cpp:98, 170).
THEOREM TypeInvariance == Spec => []TypeOK
  <1>1. IInv => TypeOK
    BY DEF IInv
  <1>2. QED
    BY <1>1, Invariance, PTL

\* Every open connection has one place, and no place holds a closed descriptor,
\* at every moment of a batch (9_7.cpp:131-138, 149-155).
THEOREM PlacesInvariance == Spec => []PlacesAgree
  <1>1. IInv => PlacesAgree
    BY DEF IInv
  <1>2. QED
    BY <1>1, Invariance, PTL

\* What is pending for a user is what a connected speaker said last, whoever
\* comes, leaves and gets a descriptor again (9_7.cpp:133, 151, 164).
THEOREM WordsInvariance == Spec => []LastWords
  <1>1. IInv => LastWords
    BY DEF IInv
  <1>2. QED
    BY <1>1, Invariance, PTL
=============================================================================
