------------------------- MODULE ProcessPool_proof --------------------------
(***************************************************************************)
(* The parent of the process pool outlives its children, and a child that  *)
(* is told of a connection finds one, for any number of children, clients  *)
(* and crashes.                                                            *)
(***************************************************************************)
EXTENDS ProcessPool, FiniteSetTheorems, TLAPS

\* The parent leaves the constructor when the last child is forked.
AllForked == parent # "fork" => \A i \in Children : child[i] # "unborn"

\* m_pid is -1 before the fork, and after waitpid.
ReapedAreDead == \A i \in Children : m_pid[i] = "-1" => child[i] \in {"unborn", "dead"}

\* The parent stops when no child is left, and ends when it has stopped.
StopsWithoutChildren ==
    m_stop[Parent] => parent # "fork" /\ \A i \in Children : m_pid[i] = "-1"
EndsStopped == parent = "ended" => m_stop[Parent]

FamilyTyped ==
    /\ parent \in Running \cup {"fork", "start", "ended"}
    /\ child \in [Children -> Running \cup {"unborn", "start", "dead"}]
    /\ m_pid \in [Children -> {"pid", "-1"}]
    /\ m_stop \in [Processes -> BOOLEAN]

IInv ==
    FamilyTyped /\ AllForked /\ ReapedAreDead /\ StopsWithoutChildren /\ EndsStopped

\* What the family does not tell: epoll, the pipes and the connections.
Events == {"listen", "signal", "pipe"} \cup Clients
RestTyped ==
    /\ edges \in [Processes -> SUBSET Events]
    /\ batch \in [Processes -> SUBSET Events]
    /\ signals \in [Processes -> SUBSET {"SIGCHLD", "SIGTERM"}]
    /\ sub_process_counter \in Children
    /\ messages \in [Children -> Nat]
    /\ backlog \in Seq(Clients)
    /\ conn \in [Clients -> {"none", "queued", "open", "closed"}]
    /\ server \in [Clients -> Children]
    /\ unread \in [Clients -> Nat] /\ got \in [Clients -> Nat]
    /\ fin \in [Clients -> BOOLEAN]
    /\ cgi \in [Children -> Nat]
    /\ crashes \in 0..MaxCrashes

\* A request does not grow when it is read.
Requests == \A c \in Clients : unread[c] + got[c] <= Pieces[c]

\* Behind an event of a child's pipe there is an announcement, and only a child that
\* handles events has any.
PipeEvents ==
    \A i \in Children : /\ child[i] # "events" => batch[i] = {}
                        /\ "pipe" \in batch[i] => messages[i] > 0

\* The connections that are announced or will be, because epoll has reported the
\* listening socket or is about to, are connections that wait.
ListenEdge == IF "listen" \in edges[Parent] THEN 1 ELSE 0
ListenEvent == IF "listen" \in batch[Parent] THEN 1 ELSE 0
Announced ==
    /\ IsFiniteSet(Announcements)
    /\ Cardinality(Announcements) + ListenEdge + ListenEvent <= Len(backlog)

\* Nothing is announced before the parent is in its loop.
NothingEarly ==
    parent \in {"fork", "start"} =>
        "listen" \notin batch[Parent] /\ \A i \in Children : messages[i] = 0

TInv ==
    IInv /\ RestTyped /\ Requests /\ PipeEvents /\ Announced /\ NothingEarly

-----------------------------------------------------------------------------

LEMMA ParentIsNoChild ==
    Parent \in Processes /\ Parent \notin Children /\ Children \subseteq Processes
  BY ProcessPoolAssumption DEF Parent, Processes, Children

LEMMA Initially == Init => IInv
  <1> SUFFICES ASSUME Init PROVE IInv
    OBVIOUS
  <1>1. FamilyTyped
    BY DEF Init, FamilyTyped
  <1>2. ~m_stop[Parent]
    BY ParentIsNoChild DEF Init
  <1>3. QED
    BY <1>1, <1>2
    DEF Init, IInv, AllForked, ReapedAreDead, StopsWithoutChildren, EndsStopped

\* What a step may do to the family without harm: a child goes on or ends.
LEMMA ChildrenGoOn ==
    ASSUME IInv,
           child' \in [Children -> Running \cup {"unborn", "start", "dead"}],
           \A i \in Children :
               /\ child[i] # "unborn" => child'[i] # "unborn"
               /\ child[i] \in {"unborn", "dead"} => child'[i] = child[i],
           m_stop' \in [Processes -> BOOLEAN], m_stop'[Parent] = m_stop[Parent],
           m_pid' = m_pid, parent' = parent
    PROVE  IInv'
  <1>1. FamilyTyped'
    BY DEF IInv, FamilyTyped
  <1>2. AllForked' /\ ReapedAreDead'
    BY DEF IInv, AllForked, ReapedAreDead
  <1>3. StopsWithoutChildren' /\ EndsStopped'
    BY DEF IInv, StopsWithoutChildren, EndsStopped
  <1>4. QED
    BY <1>1, <1>2, <1>3 DEF IInv

\* A step that does not touch the family.
LEMMA FamilyUnchanged ==
    ASSUME IInv, UNCHANGED <<parent, child, m_pid, m_stop>>
    PROVE  IInv'
  BY DEF IInv, FamilyTyped, AllForked, ReapedAreDead, StopsWithoutChildren, EndsStopped

-----------------------------------------------------------------------------
(* The steps of the parent.                                                *)

LEMMA ForkPreserves ==
    ASSUME IInv, NEW i \in Children, Fork(i)
    PROVE  IInv'
  <1>1. FamilyTyped'
    BY DEF IInv, FamilyTyped, Fork
  <1>2. child' = [child EXCEPT ![i] = "start"] /\ m_pid' = [m_pid EXCEPT ![i] = "pid"]
        /\ child[i] = "unborn" /\ parent = "fork" /\ m_stop' = m_stop
    BY DEF Fork
  <1>3. AllForked'
    <2>1. SUFFICES ASSUME parent' # "fork", NEW j \in Children
                   PROVE  child'[j] # "unborn"
      BY DEF AllForked
    <2>2. i = m_process_number - 1
      BY <2>1 DEF Fork
    <2>3. j = i \/ j < i
      BY <2>2, ProcessPoolAssumption DEF Children
    <2>4. QED
      BY <1>2, <2>3 DEF Fork, IInv, FamilyTyped
  <1>4. ReapedAreDead'
    BY <1>2 DEF IInv, FamilyTyped, ReapedAreDead
  <1>5. StopsWithoutChildren' /\ EndsStopped'
    BY <1>2 DEF Fork, IInv, StopsWithoutChildren, EndsStopped
  <1>6. QED
    BY <1>1, <1>3, <1>4, <1>5 DEF IInv

LEMMA ParentStartPreserves ==
    ASSUME IInv, ParentStart \/ ParentEpollWait
    PROVE  IInv'
  <1>1. parent \in {"start", "wait"} /\ parent' \in Running
        /\ UNCHANGED <<child, m_pid, m_stop>>
    BY DEF ParentStart, ParentEpollWait, Fetch, Running
  <1>2. QED
    BY <1>1
    DEF IInv, FamilyTyped, AllForked, ReapedAreDead, StopsWithoutChildren,
        EndsStopped, Running

LEMMA DispatchNonePreserves ==
    ASSUME IInv, DispatchNone
    PROVE  IInv'
  <1>1. \A i \in Children : m_pid[i] = "-1"
    BY DEF DispatchNone, Alive, IInv, FamilyTyped
  <1>2. FamilyTyped' /\ m_stop'[Parent]
    BY ParentIsNoChild DEF DispatchNone, IInv, FamilyTyped
  <1>3. AllForked' /\ ReapedAreDead' /\ StopsWithoutChildren' /\ EndsStopped'
    BY <1>1, <1>2
    DEF DispatchNone, IInv, AllForked, ReapedAreDead, StopsWithoutChildren, EndsStopped
  <1>4. QED
    BY <1>2, <1>3 DEF IInv

\* waitpid takes children that have ended; SIGTERM is for those that have not been
\* waited for.
LEMMA ReapsPreserves ==
    ASSUME IInv, ParentReaps
    PROVE  IInv'
  <1>1. parent = "events" /\ parent' = parent
    BY DEF ParentReaps, ParentSignals
  <1>2. m_pid' \in [Children -> {"pid", "-1"}]
        /\ \A i \in Children : m_pid'[i] = m_pid[i]
                               \/ (m_pid'[i] = "-1" /\ child[i] = "dead")
    BY DEF ParentReaps, ParentSignals, Reap, Zombies, Dead, IInv, FamilyTyped
  <1>3. child' \in [Children -> Running \cup {"unborn", "start", "dead"}]
        /\ \A i \in Children : child'[i] = child[i]
                               \/ (child'[i] = "dead" /\ child[i] = "start")
    BY DEF ParentReaps, ParentSignals, KillChildren, IInv, FamilyTyped
  <1>4. /\ m_stop' \in [Processes -> BOOLEAN]
        /\ m_stop'[Parent] => \A i \in Children : m_pid'[i] = "-1"
    <2>1. CASE "SIGCHLD" \in signals[Parent]
      <3>1. m_stop' = [m_stop EXCEPT ![Parent] = \A i \in Children : m_pid'[i] = "-1"]
        BY <2>1 DEF ParentReaps, ParentSignals
      <3>2. QED
        BY <3>1, ParentIsNoChild DEF IInv, FamilyTyped
    <2>2. CASE "SIGCHLD" \notin signals[Parent]
      <3>1. m_stop' = m_stop /\ m_pid' = m_pid
        BY <2>2 DEF ParentReaps, ParentSignals
      <3>2. QED
        BY <3>1 DEF IInv, FamilyTyped, StopsWithoutChildren
    <2>3. QED
      BY <2>1, <2>2
  <1>5. FamilyTyped'
    BY <1>1, <1>2, <1>3, <1>4 DEF IInv, FamilyTyped
  <1>6. AllForked' /\ ReapedAreDead'
    BY <1>1, <1>2, <1>3 DEF IInv, AllForked, ReapedAreDead
  <1>7. StopsWithoutChildren' /\ EndsStopped'
    BY <1>1, <1>4 DEF StopsWithoutChildren, EndsStopped
  <1>8. QED
    BY <1>5, <1>6, <1>7 DEF IInv

LEMMA RoundPreserves ==
    ASSUME IInv, ParentRound
    PROVE  IInv'
  <1>1. parent = "events" /\ parent' \in {"ended", "wait"}
        /\ (parent' = "ended" => m_stop[Parent])
        /\ UNCHANGED <<child, m_pid, m_stop>>
    BY DEF ParentRound
  <1>2. QED
    BY <1>1
    DEF IInv, FamilyTyped, AllForked, ReapedAreDead, StopsWithoutChildren,
        EndsStopped, Running

-----------------------------------------------------------------------------
(* The steps of the children, and of their environment.                    *)

\* A child ends that has been forked.
LEMMA DiePreserves ==
    ASSUME IInv, NEW i \in Children, child[i] \in Running \cup {"start"}, Die(i),
           UNCHANGED <<parent, m_pid, m_stop>>
    PROVE  IInv'
  <1>1. child' = [child EXCEPT ![i] = "dead"]
    BY DEF Die
  <1>2. child' \in [Children -> Running \cup {"unborn", "start", "dead"}]
    BY <1>1 DEF IInv, FamilyTyped
  <1>3. \A j \in Children :
            /\ child[j] # "unborn" => child'[j] # "unborn"
            /\ child[j] \in {"unborn", "dead"} => child'[j] = child[j]
    BY <1>1 DEF IInv, FamilyTyped, Running
  <1>4. m_stop' \in [Processes -> BOOLEAN]
    BY DEF IInv, FamilyTyped
  <1>5. QED
    BY <1>2, <1>3, <1>4, ChildrenGoOn

\* run_child gets its handlers, waits, and handles a batch.
LEMMA ChildGoesOn ==
    ASSUME IInv, NEW i \in Children,
           ChildStart(i) \/ ChildEpollWait(i) \/ ChildNext(i)
    PROVE  IInv'
  <1>1. PICK to \in Running :
            /\ child' = [child EXCEPT ![i] = to]
            /\ child[i] \in Running \cup {"start"}
            /\ UNCHANGED <<parent, m_pid, m_stop>>
    BY DEF ChildStart, ChildEpollWait, ChildNext, Fetch, Running
  <1>2. child' \in [Children -> Running \cup {"unborn", "start", "dead"}]
    BY <1>1 DEF IInv, FamilyTyped
  <1>3. \A j \in Children :
            /\ child[j] # "unborn" => child'[j] # "unborn"
            /\ child[j] \in {"unborn", "dead"} => child'[j] = child[j]
    BY <1>1 DEF IInv, FamilyTyped, Running
  <1>4. m_stop' \in [Processes -> BOOLEAN]
    BY <1>1 DEF IInv, FamilyTyped
  <1>5. QED
    BY <1>1, <1>2, <1>3, <1>4, ChildrenGoOn

\* m_stop of a child is its own copy.
LEMMA SignalsPreserve ==
    ASSUME IInv, NEW i \in Children, ChildSignals(i)
    PROVE  IInv'
  <1>1. m_stop' \in [Processes -> BOOLEAN] /\ m_stop'[Parent] = m_stop[Parent]
    BY ParentIsNoChild DEF ChildSignals, IInv, FamilyTyped
  <1>2. child' \in [Children -> Running \cup {"unborn", "start", "dead"}]
    BY DEF ChildSignals, IInv, FamilyTyped
  <1>3. QED
    BY <1>1, <1>2, ChildrenGoOn DEF ChildSignals

LEMMA ChildStepPreserves ==
    ASSUME IInv, NEW i \in Children, ChildStep(i) \/ Crash(i) \/ CgiEnds(i)
    PROVE  IInv'
  <1>1. CASE ChildEnds(i) \/ Crash(i)
    BY <1>1, DiePreserves DEF ChildEnds, Crash, Running
  <1>2. CASE ChildAccept(i) \/ CgiEnds(i) \/ \E c \in Clients : Process(i, c)
    BY <1>2, FamilyUnchanged DEF ChildAccept, CgiEnds, Process, family
  <1>3. QED
    BY <1>1, <1>2, ChildGoesOn, SignalsPreserve DEF ChildStep

LEMMA ParentStepPreserves ==
    ASSUME IInv, ParentStep
    PROVE  IInv'
  <1>1. CASE \E i \in Children : Dispatch(i)
    BY <1>1, FamilyUnchanged DEF Dispatch, family
  <1>2. QED
    BY <1>1, ForkPreserves, ParentStartPreserves, DispatchNonePreserves,
       ReapsPreserves, RoundPreserves
    DEF ParentStep

LEMMA Inductive == IInv /\ [Next]_vars => IInv'
  <1> SUFFICES ASSUME IInv, [Next]_vars PROVE IInv'
    OBVIOUS
  <1>1. CASE UNCHANGED vars
    BY <1>1, FamilyUnchanged DEF vars, family
  <1>2. CASE Terminate \/ \E c \in Clients : Connect(c) \/ Send(c) \/ Leave(c)
    BY <1>2, FamilyUnchanged DEF Terminate, Connect, Send, Leave, Arrives, family
  <1>3. QED
    BY <1>1, <1>2, ParentStepPreserves, ChildStepPreserves DEF Next

LEMMA Invariance == Spec => []IInv
  BY Initially, Inductive, PTL DEF Spec

-----------------------------------------------------------------------------
(* The theorem.                                                            *)

\* The parent ends only when every child has ended and been waited for, at
\* whatever points of their lives children crash and signals come
\* (processpool.h:408-447).
THEOREM ParentInvariance == Spec => []ParentOutlivesChildren
  <1>1. IInv => ParentOutlivesChildren
    BY DEF IInv, EndsStopped, StopsWithoutChildren, ReapedAreDead, AllForked,
           ParentOutlivesChildren
  <1>2. QED
    BY Invariance, <1>1, PTL

-----------------------------------------------------------------------------
(* The announcements under way.                                            *)

LEMMA AnnouncementMembers ==
    ASSUME messages \in [Children -> Nat]
    PROVE  \A x : x \in Announcements <=>
               \E i \in Children : \E n \in 1..messages[i] : x = <<i, n>>
  BY DEF Announcements

\* A count grows by one.
LEMMA OneMore ==
    ASSUME NEW S, NEW f \in [S -> Nat], NEW i \in S, NEW g,
           g = [f EXCEPT ![i] = f[i] + 1]
    PROVE  /\ g \in [S -> Nat] /\ g[i] = f[i] + 1
           /\ \A j \in S : g[j] >= f[j] /\ (j # i => g[j] = f[j])
  OBVIOUS

LEMMA NoAnnouncements ==
    ASSUME messages \in [Children -> Nat], \A i \in Children : messages[i] = 0
    PROVE  IsFiniteSet(Announcements) /\ Cardinality(Announcements) = 0
  <1>1. Announcements = {}
    BY AnnouncementMembers
  <1>2. QED
    BY <1>1, FS_EmptySet

LEMMA FewerAnnouncements ==
    ASSUME messages \in [Children -> Nat], messages' \in [Children -> Nat],
           \A i \in Children : messages'[i] <= messages[i], IsFiniteSet(Announcements)
    PROVE  /\ IsFiniteSet(Announcements)'
           /\ Cardinality(Announcements)' \in Nat /\ Cardinality(Announcements) \in Nat
           /\ Cardinality(Announcements)' <= Cardinality(Announcements)
  <1>1. Announcements' \subseteq Announcements
    <2>1. ASSUME NEW i \in Children, NEW n \in 1..messages'[i]
          PROVE  n \in 1..messages[i]
      OBVIOUS
    <2>2. QED
      BY <2>1 DEF Announcements
  <1>2. QED
    BY <1>1, FS_Subset, FS_CardinalityType

LEMMA OneMoreAnnouncement ==
    ASSUME messages \in [Children -> Nat], NEW i \in Children,
           messages' = [messages EXCEPT ![i] = @ + 1], IsFiniteSet(Announcements)
    PROVE  /\ IsFiniteSet(Announcements)' /\ Cardinality(Announcements) \in Nat
           /\ Cardinality(Announcements)' = Cardinality(Announcements) + 1
  <1> DEFINE new == <<i, messages[i] + 1>>
  <1>1. messages' \in [Children -> Nat] /\ messages'[i] = messages[i] + 1
        /\ \A j \in Children \ {i} : messages'[j] = messages[j]
    OBVIOUS
  <1>2. \A x : x \in Announcements' <=>
            \E j \in Children : \E n \in 1..messages'[j] : x = <<j, n>>
    BY <1>1 DEF Announcements
  <1>3. new \notin Announcements
    BY AnnouncementMembers
  <1>4. ASSUME NEW x PROVE x \in Announcements' <=> x \in Announcements \cup {new}
    <2>1. ASSUME x \in Announcements' PROVE x \in Announcements \/ x = new
      <3>1. PICK j \in Children : \E n \in 1..messages'[j] : x = <<j, n>>
        BY <1>2, <2>1
      <3>2. PICK n \in 1..messages'[j] : x = <<j, n>>
        BY <3>1
      <3>3. CASE j = i /\ n = messages[i] + 1
        BY <3>2, <3>3
      <3>4. CASE ~(j = i /\ n = messages[i] + 1)
        <4>1. n \in 1..messages[j]
          BY <1>1, <3>4, <3>2
        <4>2. QED
          BY <3>2, <4>1, AnnouncementMembers
      <3>5. QED
        BY <3>3, <3>4
    <2>2. ASSUME x \in Announcements PROVE x \in Announcements'
      <3>1. PICK j \in Children : \E n \in 1..messages[j] : x = <<j, n>>
        BY <2>2, AnnouncementMembers
      <3>2. PICK n \in 1..messages[j] : x = <<j, n>>
        BY <3>1
      <3>3. n \in 1..messages'[j]
        BY <1>1, <3>2
      <3>4. QED
        BY <1>2, <3>2, <3>3
    <2>3. new \in Announcements'
      <3>1. messages[i] + 1 \in 1..messages'[i]
        BY <1>1
      <3>2. QED
        BY <1>2, <3>1
    <2>4. QED
      BY <2>1, <2>2, <2>3
  <1>5. Announcements' = Announcements \cup {new}
    BY <1>4
  <1>6. QED
    BY <1>3, <1>5, FS_AddElement, FS_CardinalityType

LEMMA OneLessAnnouncement ==
    ASSUME messages \in [Children -> Nat], NEW i \in Children, messages[i] > 0,
           messages' = [messages EXCEPT ![i] = @ - 1], IsFiniteSet(Announcements)
    PROVE  /\ IsFiniteSet(Announcements)' /\ Cardinality(Announcements)' \in Nat
           /\ Cardinality(Announcements) = Cardinality(Announcements)' + 1
  <1> DEFINE last == <<i, messages[i]>>
  <1>1. messages' \in [Children -> Nat] /\ messages'[i] = messages[i] - 1
        /\ \A j \in Children \ {i} : messages'[j] = messages[j]
    OBVIOUS
  <1>2. \A x : x \in Announcements' <=>
            \E j \in Children : \E n \in 1..messages'[j] : x = <<j, n>>
    BY <1>1 DEF Announcements
  <1>3. last \in Announcements
    BY AnnouncementMembers
  <1>4. ASSUME NEW x PROVE x \in Announcements' <=> x \in Announcements \ {last}
    <2>1. ASSUME x \in Announcements' PROVE x \in Announcements /\ x # last
      <3>1. PICK j \in Children : \E n \in 1..messages'[j] : x = <<j, n>>
        BY <1>2, <2>1
      <3>2. PICK n \in 1..messages'[j] : x = <<j, n>>
        BY <3>1
      <3>3. n \in 1..messages[j] /\ ~(j = i /\ n = messages[i])
        BY <1>1, <3>2
      <3>4. QED
        BY <3>2, <3>3, AnnouncementMembers
    <2>2. ASSUME x \in Announcements, x # last PROVE x \in Announcements'
      <3>1. PICK j \in Children : \E n \in 1..messages[j] : x = <<j, n>>
        BY <2>2, AnnouncementMembers
      <3>2. PICK n \in 1..messages[j] : x = <<j, n>>
        BY <3>1
      <3>3. n \in 1..messages'[j]
        BY <1>1, <2>2, <3>2
      <3>4. QED
        BY <1>2, <3>2, <3>3
    <2>3. QED
      BY <2>1, <2>2
  <1>5. Announcements' = Announcements \ {last}
    BY <1>4
  <1>6. IsFiniteSet(Announcements \ {last})
        /\ Cardinality(Announcements \ {last}) = Cardinality(Announcements) - 1
    BY <1>3, FS_RemoveElement
  <1>7. Cardinality(Announcements) \in Nat /\ Cardinality(Announcements \ {last}) \in Nat
    BY <1>6, FS_CardinalityType
  <1>8. QED
    BY <1>5, <1>6, <1>7

-----------------------------------------------------------------------------
(* The types.                                                              *)

LEMMA EventsDistinct ==
    /\ "listen" \in Events /\ "signal" \in Events /\ "pipe" \in Events
    /\ Clients \subseteq Events /\ Parent \in Processes /\ Children \subseteq Processes
    /\ 0 \in Children
  BY ProcessPoolAssumption, ParentIsNoChild DEF Events, Children

LEMMA RestInitially == Init => TInv
  <1> SUFFICES ASSUME Init PROVE TInv
    OBVIOUS
  <1>1. backlog = <<>> /\ Len(backlog) = 0 /\ backlog \in Seq(Clients)
    BY DEF Init
  <1>2. RestTyped
    BY <1>1, EventsDistinct, ProcessPoolAssumption DEF Init, RestTyped
  <1>3. Requests /\ PipeEvents /\ NothingEarly
    BY EventsDistinct, ProcessPoolAssumption DEF Init, Requests, PipeEvents, NothingEarly
  <1>4. Announced
    <2>1. ListenEdge = 0 /\ ListenEvent = 0
      BY EventsDistinct DEF Init, ListenEdge, ListenEvent
    <2>2. IsFiniteSet(Announcements) /\ Cardinality(Announcements) = 0
      BY <1>2, NoAnnouncements DEF Init, RestTyped
    <2>3. QED
      BY <1>1, <2>1, <2>2 DEF Announced
  <1>5. QED
    BY <1>2, <1>3, <1>4, Initially DEF TInv

\* The sockets of connections are closed.
LEMMA ClosedTyped ==
    ASSUME RestTyped, NEW clients, Closed(clients)
    PROVE  /\ backlog' = backlog
           /\ conn' \in [Clients -> {"none", "queued", "open", "closed"}]
           /\ server' \in [Clients -> Children]
           /\ unread' \in [Clients -> Nat] /\ got' \in [Clients -> Nat]
           /\ fin' \in [Clients -> BOOLEAN]
  BY EventsDistinct DEF Closed, RestTyped

LEMMA DieTyped ==
    ASSUME RestTyped, NEW i \in Children, Die(i),
           sub_process_counter' = sub_process_counter, crashes' \in 0..MaxCrashes
    PROVE  RestTyped'
  <1> DEFINE told == IF parent \in Running THEN {Parent} ELSE {}
  <1>1. /\ edges' \in [Processes -> SUBSET Events]
        /\ batch' \in [Processes -> SUBSET Events]
    BY EventsDistinct DEF Die, RestTyped
  <1>2. signals' \in [Processes -> SUBSET {"SIGCHLD", "SIGTERM"}]
    <2>1. Signalled(told, "SIGCHLD") \in [Processes -> SUBSET {"SIGCHLD", "SIGTERM"}]
      BY DEF RestTyped, Signalled
    <2>2. signals' = [Signalled(told, "SIGCHLD") EXCEPT ![i] = {}]
      BY DEF Die
    <2>3. QED
      BY <2>1, <2>2
  <1>3. messages' \in [Children -> Nat] /\ cgi' \in [Children -> Nat]
    BY DEF Die, RestTyped
  <1>4. Closed(Served(i))
    BY DEF Die
  <1>5. QED
    BY <1>1, <1>2, <1>3, <1>4, ClosedTyped DEF RestTyped

LEMMA CounterTyped == \A i \in Children : (i + 1) % m_process_number \in Children
  BY ProcessPoolAssumption DEF Children

LEMMA AnnounceTyped ==
    ASSUME RestTyped, NEW i \in Children, Announce(i)
    PROVE  /\ messages' \in [Children -> Nat]
           /\ edges' \in [Processes -> SUBSET Events]
  <1>1. CASE UNCHANGED <<messages, edges>>
    BY <1>1 DEF RestTyped
  <1>2. CASE messages' = [messages EXCEPT ![i] = messages[i] + 1]
             /\ (edges' = edges \/ edges' = [edges EXCEPT ![i] = @ \cup {"pipe"}])
    <2>1. messages' \in [Children -> Nat]
      BY <1>2, OneMore DEF RestTyped
    <2>2. edges \in [Processes -> SUBSET Events] /\ i \in Processes
      BY EventsDistinct DEF RestTyped
    <2>3. edges' \in [Processes -> SUBSET Events]
      <3>1. CASE edges' = edges
        BY <2>2, <3>1
      <3>2. CASE edges' = [edges EXCEPT ![i] = @ \cup {"pipe"}]
        BY <2>2, <3>2, EventsDistinct
      <3>3. QED
        BY <1>2, <3>1, <3>2
    <2>4. QED
      BY <2>1, <2>3
  <1>3. QED
    BY <1>1, <1>2 DEF Announce

LEMMA ParentTyped ==
    ASSUME RestTyped, ParentStep
    PROVE  RestTyped'
  <1> USE DEF RestTyped
  <1>1. ASSUME NEW i \in Children, Fork(i) PROVE RestTyped'
    BY <1>1 DEF Fork, epoll, network
  <1>2. CASE ParentStart
    BY <1>2, EventsDistinct DEF ParentStart, network
  <1>3. CASE ParentEpollWait
    <2>1. Ready(Parent) \in SUBSET Events
      BY EventsDistinct DEF Ready
    <2>2. QED
      BY <1>3, <2>1, EventsDistinct DEF ParentEpollWait, Fetch, network
  <1>4. ASSUME NEW i \in Children, Dispatch(i) PROVE RestTyped'
    <2>1. UNCHANGED <<cgi, crashes, signals, network>>
          /\ sub_process_counter' \in Children
      BY <1>4, CounterTyped DEF Dispatch, family
    <2>2. batch' \in [Processes -> SUBSET Events]
      BY <1>4, EventsDistinct DEF Dispatch, Handle
    <2>3. Announce(i)
      BY <1>4 DEF Dispatch
    <2>4. QED
      BY <2>1, <2>2, <2>3, AnnounceTyped DEF network
  <1>5. CASE DispatchNone
    BY <1>5, EventsDistinct DEF DispatchNone, network
  <1>6. CASE ParentReaps
    <2>1. UNCHANGED <<cgi, crashes, sub_process_counter, network>>
      BY <1>6 DEF ParentReaps, ParentSignals
    <2>2. batch' \in [Processes -> SUBSET Events]
      BY <1>6, EventsDistinct DEF ParentReaps, ParentSignals, Handle
    <2>3. /\ messages' \in [Children -> Nat]
          /\ edges' \in [Processes -> SUBSET Events]
          /\ signals' \in [Processes -> SUBSET {"SIGCHLD", "SIGTERM"}]
      <3>1. CASE KillChildren
        BY <3>1, EventsDistinct DEF KillChildren
      <3>2. CASE signals' = [signals EXCEPT ![Parent] = {}]
                 /\ UNCHANGED <<child, messages, edges>>
        BY <3>2
      <3>3. QED
        BY <1>6, <3>1, <3>2 DEF ParentReaps, ParentSignals
    <2>4. QED
      BY <2>1, <2>2, <2>3 DEF network
  <1>7. CASE ParentRound
    BY <1>7 DEF ParentRound, epoll, network
  <1>8. QED
    BY <1>1, <1>2, <1>3, <1>4, <1>5, <1>6, <1>7 DEF ParentStep

LEMMA ChildTyped ==
    ASSUME RestTyped, PipeEvents, NEW i \in Children, ChildStep(i)
    PROVE  RestTyped'
  <1> USE DEF RestTyped
  <1>1. CASE ChildStart(i)
    BY <1>1, EventsDistinct DEF ChildStart, network
  <1>2. CASE ChildEpollWait(i)
    <2>1. Ready(i) \in SUBSET Events
      BY EventsDistinct DEF Ready
    <2>2. QED
      BY <1>2, <2>1, EventsDistinct DEF ChildEpollWait, Fetch, network
  <1>3. CASE ChildAccept(i)
    <2>1. UNCHANGED <<family, edges, signals, sub_process_counter, unread, got, fin>>
      BY <1>3 DEF ChildAccept
    <2>2. batch' \in [Processes -> SUBSET Events]
      BY <1>3, EventsDistinct DEF ChildAccept, Handle
    <2>3. messages' \in [Children -> Nat]
      BY <1>3 DEF ChildAccept, Handle, PipeEvents
    <2>4. /\ backlog' \in Seq(Clients)
          /\ conn' \in [Clients -> {"none", "queued", "open", "closed"}]
          /\ server' \in [Clients -> Children]
      <3>1. CASE backlog = <<>>
        BY <1>3, <3>1 DEF ChildAccept
      <3>2. CASE backlog # <<>>
        <4>1. Head(backlog) \in Clients /\ Tail(backlog) \in Seq(Clients)
          BY <3>2
        <4>2. QED
          BY <1>3, <3>2, <4>1 DEF ChildAccept
      <3>3. QED
        BY <3>1, <3>2
    <2>5. QED
      BY <2>1, <2>2, <2>3, <2>4 DEF family
  <1>4. CASE ChildSignals(i)
    BY <1>4, EventsDistinct DEF ChildSignals, Handle, network
  <1>5. ASSUME NEW c \in Clients, Process(i, c) PROVE RestTyped'
    <2>1. /\ UNCHANGED <<crashes, signals, sub_process_counter, messages>>
          /\ (cgi' = cgi \/ cgi' = [cgi EXCEPT ![i] = cgi[i] + 1])
      BY <1>5 DEF Process
    <2>2. cgi' \in [Children -> Nat]
      <3>1. CASE cgi' = cgi
        BY <3>1
      <3>2. CASE cgi' = [cgi EXCEPT ![i] = cgi[i] + 1]
        <4>1. cgi \in [Children -> Nat]
          OBVIOUS
        <4>2. QED
          BY <3>2, <4>1, OneMore
      <3>3. QED
        BY <2>1, <3>1, <3>2
    <2>3. batch' \in [Processes -> SUBSET Events]
      BY <1>5, EventsDistinct DEF Process, Handle
    <2>4. CASE Removefd(i, c)
      <3>1. edges' \in [Processes -> SUBSET Events]
        BY <2>4, EventsDistinct DEF Removefd
      <3>2. QED
        BY <2>1, <2>2, <2>3, <2>4, <3>1, ClosedTyped DEF Removefd
    <2>5. CASE GoOn(c, unread[c])
      <3>1. got[c] + unread[c] \in Nat /\ unread[c] - unread[c] \in Nat
        OBVIOUS
      <3>2. got' \in [Clients -> Nat] /\ unread' \in [Clients -> Nat]
        BY <2>5, <3>1 DEF GoOn
      <3>3. QED
        BY <2>1, <2>2, <2>3, <2>5, <3>2 DEF GoOn
    <2>6. QED
      BY <1>5, <2>4, <2>5 DEF Process
  <1>6. CASE ChildNext(i)
    BY <1>6 DEF ChildNext, epoll, network
  <1>7. CASE ChildEnds(i)
    BY <1>7, DieTyped DEF ChildEnds
  <1>8. QED
    BY <1>1, <1>2, <1>3, <1>4, <1>5, <1>6, <1>7 DEF ChildStep

LEMMA RestTypedStep ==
    ASSUME RestTyped, PipeEvents, [Next]_vars
    PROVE  RestTyped'
  <1> USE DEF RestTyped
  <1>1. ASSUME NEW i \in Children, Crash(i) PROVE RestTyped'
    <2>1. crashes' \in 0..MaxCrashes
      BY <1>1, ProcessPoolAssumption DEF Crash
    <2>2. QED
      BY <1>1, <2>1, DieTyped DEF Crash
  <1>2. ASSUME NEW i \in Children, CgiEnds(i) PROVE RestTyped'
    BY <1>2, EventsDistinct DEF CgiEnds, Signalled, network
  <1>3. ASSUME NEW c \in Clients, Connect(c) PROVE RestTyped'
    <2>1. backlog' \in Seq(Clients)
      BY <1>3 DEF Connect
    <2>2. QED
      BY <1>3, <2>1, EventsDistinct DEF Connect, family
  <1>4. ASSUME NEW c \in Clients, Arrives(c)
        PROVE  /\ edges' \in [Processes -> SUBSET Events]
               /\ UNCHANGED <<cgi, crashes, batch, signals, sub_process_counter, messages,
                              backlog, conn, server, got>>
    <2>1. server[c] \in Processes
      BY EventsDistinct
    <2>2. QED
      BY <1>4, <2>1, EventsDistinct DEF Arrives, family
  <1>5. ASSUME NEW c \in Clients, Send(c) PROVE RestTyped'
    <2>1. Arrives(c) /\ fin' = fin /\ unread' \in [Clients -> Nat]
      BY <1>5 DEF Send
    <2>2. QED
      BY <1>4, <2>1
  <1>6. ASSUME NEW c \in Clients, Leave(c) PROVE RestTyped'
    <2>1. Arrives(c) /\ fin' \in [Clients -> BOOLEAN] /\ unread' = unread
      BY <1>6 DEF Leave
    <2>2. QED
      BY <1>4, <2>1
  <1>7. CASE Terminate
    BY <1>7, EventsDistinct DEF Terminate, Signalled, family, network
  <1>8. CASE UNCHANGED vars
    BY <1>8 DEF vars, family, epoll, network
  <1>9. QED
    BY <1>1, <1>2, <1>3, <1>5, <1>6, <1>7, <1>8, ParentTyped, ChildTyped DEF Next

LEMMA RequestsStep ==
    ASSUME RestTyped, Requests, [Next]_vars
    PROVE  Requests'
  <1> USE DEF RestTyped
  <1>1. ASSUME UNCHANGED <<unread, got>> PROVE Requests'
    BY <1>1 DEF Requests
  <1>2. ASSUME NEW some, Closed(some) PROVE Requests'
    <2> SUFFICES ASSUME NEW c \in Clients PROVE unread'[c] + got'[c] <= Pieces[c]
      BY DEF Requests
    <2>1. /\ unread'[c] = IF c \in some THEN 0 ELSE unread[c]
          /\ got'[c] = IF c \in some THEN 0 ELSE got[c]
      BY <1>2 DEF Closed
    <2>2. Pieces[c] \in Nat /\ unread[c] + got[c] <= Pieces[c]
      BY ProcessPoolAssumption DEF Requests
    <2>3. QED
      BY <2>1, <2>2
  <1>3. ASSUME NEW i \in Children, Crash(i) \/ ChildEnds(i) PROVE Requests'
    BY <1>2, <1>3 DEF Crash, ChildEnds, Die
  <1>4. ASSUME NEW i \in Children, NEW c \in Clients, Process(i, c) PROVE Requests'
    <2>1. CASE Removefd(i, c)
      BY <1>2, <2>1 DEF Removefd
    <2>2. CASE GoOn(c, unread[c])
      <3>1. /\ got'[c] = got[c] + unread[c] /\ unread'[c] = unread[c] - unread[c]
            /\ \A d \in Clients \ {c} : got'[d] = got[d] /\ unread'[d] = unread[d]
        BY <2>2 DEF GoOn
      <3>2. ASSUME NEW d \in Clients PROVE unread'[d] + got'[d] <= Pieces[d]
        <4>1. unread[d] \in Nat /\ got[d] \in Nat /\ unread[d] + got[d] <= Pieces[d]
          BY DEF Requests
        <4>2. CASE d = c
          BY <3>1, <4>1, <4>2
        <4>3. CASE d # c
          BY <3>1, <4>1, <4>3
        <4>4. QED
          BY <4>2, <4>3
      <3>3. QED
        BY <3>2 DEF Requests
    <2>3. QED
      BY <1>4, <2>1, <2>2 DEF Process
  <1>5. ASSUME NEW c \in Clients, Send(c) PROVE Requests'
    <2>1. got' = got /\ unread' = [unread EXCEPT ![c] = unread[c] + 1]
          /\ unread[c] + got[c] < Pieces[c]
      BY <1>5 DEF Send, Arrives
    <2>2. ASSUME NEW d \in Clients PROVE unread'[d] + got'[d] <= Pieces[d]
      <3>1. unread[d] \in Nat /\ got[d] \in Nat /\ unread[d] + got[d] <= Pieces[d]
            /\ Pieces[d] \in Nat
        BY ProcessPoolAssumption DEF Requests
      <3>2. unread'[d] = IF d = c THEN unread[d] + 1 ELSE unread[d]
        BY <2>1
      <3>3. QED
        BY <2>1, <3>1, <3>2
    <2>3. QED
      BY <2>2 DEF Requests
  <1>6. CASE UNCHANGED vars \/ Terminate \/ \E c \in Clients : Connect(c) \/ Leave(c)
    BY <1>1, <1>6 DEF vars, Terminate, Connect, Leave, Arrives, network
  <1>7. CASE ParentStep
    BY <1>1, <1>7
    DEF ParentStep, Fork, ParentStart, ParentEpollWait, Fetch, Dispatch, DispatchNone,
        ParentReaps, ParentSignals, ParentRound, network
  <1>8. ASSUME NEW i \in Children,
               \/ ChildStart(i) \/ ChildEpollWait(i) \/ ChildAccept(i) \/ ChildSignals(i)
               \/ ChildNext(i) \/ CgiEnds(i)
        PROVE  Requests'
    BY <1>1, <1>8
    DEF ChildStart, ChildEpollWait, Fetch, ChildAccept, ChildSignals, ChildNext, CgiEnds,
        network
  <1>9. QED
    BY <1>3, <1>4, <1>5, <1>6, <1>7, <1>8 DEF Next, ChildStep

-----------------------------------------------------------------------------
(* The events of the children's pipes.                                     *)

\* Only the child itself fetches and reads; a child that ends does neither.
LEMMA PipeEventsKept ==
    ASSUME PipeEvents, messages \in [Children -> Nat], messages' \in [Children -> Nat],
           \A i \in Children :
               \/ /\ batch'[i] \subseteq batch[i] /\ messages'[i] >= messages[i]
                  /\ child'[i] = child[i]
               \/ batch'[i] = {}
    PROVE  PipeEvents'
  BY DEF PipeEvents

LEMMA PipeEventsStep ==
    ASSUME IInv, RestTyped, PipeEvents, [Next]_vars
    PROVE  PipeEvents'
  <1> USE ParentIsNoChild DEF RestTyped
  <1>1. ASSUME UNCHANGED <<child, messages>>,
               \A i \in Children : batch'[i] \subseteq batch[i]
        PROVE  PipeEvents'
    BY <1>1, PipeEventsKept
  <1>2. ASSUME NEW i \in Children, Die(i) PROVE PipeEvents'
    <2>1. batch' = [batch EXCEPT ![i] = {}] /\ messages' = [messages EXCEPT ![i] = 0]
          /\ child' = [child EXCEPT ![i] = "dead"]
      BY <1>2 DEF Die
    <2>2. QED
      BY <2>1, PipeEventsKept DEF IInv, FamilyTyped
  <1>3. ASSUME NEW i \in Children, Fork(i) PROVE PipeEvents'
    BY <1>3 DEF Fork, epoll, PipeEvents, IInv, FamilyTyped
  <1>4. CASE ParentStart \/ ParentRound
    BY <1>1, <1>4 DEF ParentStart, ParentRound, epoll
  <1>5. CASE ParentEpollWait
    BY <1>1, <1>5 DEF ParentEpollWait, Fetch
  <1>6. ASSUME NEW i \in Children, Dispatch(i) PROVE PipeEvents'
    <2>1. child' = child /\ \A j \in Children : batch'[j] = batch[j]
      BY <1>6 DEF Dispatch, Handle, family
    <2>2. messages' = messages \/ messages' = [messages EXCEPT ![i] = messages[i] + 1]
      BY <1>6 DEF Dispatch, Announce
    <2>3. messages' \in [Children -> Nat] /\ \A j \in Children : messages'[j] >= messages[j]
      <3>1. messages \in [Children -> Nat]
        OBVIOUS
      <3>2. CASE messages' = messages
        BY <3>1, <3>2
      <3>3. CASE messages' = [messages EXCEPT ![i] = messages[i] + 1]
        BY <3>1, <3>3, OneMore
      <3>4. QED
        BY <2>2, <3>2, <3>3
    <2>4. QED
      BY <2>1, <2>3, PipeEventsKept
  <1>7. CASE DispatchNone
    BY <1>1, <1>7 DEF DispatchNone
  <1>8. CASE ParentReaps
    <2>1. \A j \in Children : batch'[j] = batch[j]
      BY <1>8 DEF ParentReaps, ParentSignals, Handle
    <2>2. CASE UNCHANGED <<child, messages>>
      BY <1>1, <2>1, <2>2
    <2>3. CASE KillChildren
      <3>1. PICK killed \in SUBSET {j \in Children : child[j] = "start"} :
                /\ child' = [j \in Children |-> IF j \in killed THEN "dead" ELSE child[j]]
                /\ messages' = [j \in Children |-> IF j \in killed THEN 0 ELSE messages[j]]
        BY <2>3 DEF KillChildren
      <3>2. \A j \in killed : batch[j] = {}
        BY DEF PipeEvents
      <3>3. QED
        BY <2>1, <3>1, <3>2, PipeEventsKept
    <2>4. QED
      BY <1>8, <2>2, <2>3 DEF ParentReaps, ParentSignals
  <1>9. ASSUME NEW i \in Children, ChildStart(i) PROVE PipeEvents'
    BY <1>9 DEF ChildStart, PipeEvents, IInv, FamilyTyped
  <1>10. ASSUME NEW i \in Children, ChildEpollWait(i) PROVE PipeEvents'
    <2>1. /\ batch' = [batch EXCEPT ![i] = Ready(i)] /\ messages' = messages
          /\ child' = [child EXCEPT ![i] = "events"]
      BY <1>10 DEF ChildEpollWait, Fetch
    <2>2. "pipe" \in Ready(i) => messages[i] > 0
      BY ProcessPoolAssumption DEF Ready
    <2>3. QED
      BY <2>1, <2>2 DEF PipeEvents, IInv, FamilyTyped
  <1>11. ASSUME NEW i \in Children, ChildAccept(i) PROVE PipeEvents'
    <2>1. /\ batch' = [batch EXCEPT ![i] = batch[i] \ {"pipe"}] /\ child' = child
          /\ messages' = [messages EXCEPT ![i] = messages[i] - 1]
      BY <1>11 DEF ChildAccept, Handle, family
    <2>2. QED
      BY <2>1 DEF PipeEvents
  <1>12. ASSUME NEW i \in Children, ChildSignals(i) PROVE PipeEvents'
    BY <1>1, <1>12 DEF ChildSignals, Handle
  <1>13. ASSUME NEW i \in Children, NEW c \in Clients, Process(i, c) PROVE PipeEvents'
    BY <1>1, <1>13 DEF Process, Handle
  <1>14. ASSUME NEW i \in Children, ChildNext(i) PROVE PipeEvents'
    BY <1>14 DEF ChildNext, epoll, PipeEvents, IInv, FamilyTyped
  <1>15. ASSUME NEW i \in Children, CgiEnds(i) PROVE PipeEvents'
    BY <1>1, <1>15 DEF CgiEnds
  <1>16. CASE UNCHANGED vars \/ Terminate
              \/ \E c \in Clients : Connect(c) \/ Send(c) \/ Leave(c)
    BY <1>1, <1>16 DEF vars, Terminate, Connect, Send, Leave, Arrives, family, epoll
  <1>17. ASSUME NEW i \in Children, ChildEnds(i) \/ Crash(i) PROVE PipeEvents'
    BY <1>2, <1>17 DEF ChildEnds, Crash
  <1>18. QED
    BY <1>3, <1>4, <1>5, <1>6, <1>7, <1>8, <1>9, <1>10, <1>11, <1>12, <1>13, <1>14,
       <1>15, <1>16, <1>17
    DEF Next, ParentStep, ChildStep

-----------------------------------------------------------------------------
(* Announcements and the connections that wait.                            *)

\* A step that announces nothing, accepts nothing and reports no connection.
Quiet ==
    /\ backlog' = backlog
    /\ \A i \in Children : messages'[i] <= messages[i]
    /\ "listen" \in edges'[Parent] => "listen" \in edges[Parent]
    /\ "listen" \in batch'[Parent] => "listen" \in batch[Parent]

LEMMA QuietKeeps ==
    ASSUME Announced, RestTyped, RestTyped', Quiet
    PROVE  Announced'
  <1>1. /\ IsFiniteSet(Announcements)'
        /\ Cardinality(Announcements)' \in Nat /\ Cardinality(Announcements) \in Nat
        /\ Cardinality(Announcements)' <= Cardinality(Announcements)
    BY FewerAnnouncements DEF Announced, RestTyped, Quiet
  <1>2. ListenEdge' <= ListenEdge /\ ListenEvent' <= ListenEvent
        /\ ListenEdge \in Nat /\ ListenEvent \in Nat
        /\ ListenEdge' \in Nat /\ ListenEvent' \in Nat
    BY DEF Quiet, ListenEdge, ListenEvent
  <1>3. Len(backlog)' = Len(backlog) /\ Len(backlog) \in Nat
    BY DEF Quiet, RestTyped
  <1>4. QED
    BY <1>1, <1>2, <1>3 DEF Announced

\* Nothing that a step of the children, of a client or of the user does to epoll
\* concerns the listening socket.
LEMMA DieIsQuiet ==
    ASSUME RestTyped, NEW i \in Children, Die(i)
    PROVE  Quiet
  <1>1. /\ batch' = [batch EXCEPT ![i] = {}]
        /\ messages' = [messages EXCEPT ![i] = 0] /\ backlog' = backlog
    BY DEF Die, Closed
  <1>2. edges'[Parent] = edges[Parent] \/ edges'[Parent] = edges[Parent] \cup {"signal"}
    BY ParentIsNoChild DEF Die, RestTyped
  <1>3. QED
    BY <1>1, <1>2, ParentIsNoChild DEF RestTyped, Quiet

LEMMA ChildIsQuiet ==
    ASSUME RestTyped, NEW i \in Children,
           ChildStep(i) \/ Crash(i) \/ CgiEnds(i), ~ChildAccept(i)
    PROVE  Quiet
  <1> USE ParentIsNoChild DEF RestTyped
  <1>1. ASSUME UNCHANGED <<backlog, messages>>, edges'[Parent] = edges[Parent],
               batch'[Parent] = batch[Parent]
        PROVE  Quiet
    BY <1>1 DEF Quiet
  <1>2. CASE ChildStart(i)
    BY <1>1, <1>2 DEF ChildStart, network
  <1>3. CASE ChildEpollWait(i)
    BY <1>1, <1>3 DEF ChildEpollWait, Fetch, network
  <1>4. CASE ChildSignals(i)
    BY <1>1, <1>4 DEF ChildSignals, Handle, network
  <1>5. ASSUME NEW c \in Clients, Process(i, c) PROVE Quiet
    <2>1. messages' = messages /\ batch'[Parent] = batch[Parent]
      BY <1>5 DEF Process, Handle
    <2>2. edges'[Parent] = edges[Parent] /\ backlog' = backlog
      BY <1>5 DEF Process, Removefd, Closed, GoOn
    <2>3. QED
      BY <1>1, <2>1, <2>2
  <1>6. CASE ChildNext(i)
    BY <1>1, <1>6 DEF ChildNext, epoll, network
  <1>7. CASE CgiEnds(i)
    BY <1>1, <1>7 DEF CgiEnds, network
  <1>8. QED
    BY <1>2, <1>3, <1>4, <1>5, <1>6, <1>7, DieIsQuiet DEF ChildStep, ChildEnds, Crash

LEMMA OthersAreQuiet ==
    ASSUME RestTyped,
           Terminate \/ UNCHANGED vars \/ \E c \in Clients : Send(c) \/ Leave(c)
    PROVE  Quiet
  <1> USE ParentIsNoChild DEF RestTyped
  <1>1. CASE UNCHANGED vars
    BY <1>1 DEF vars, epoll, network, Quiet
  <1>2. CASE Terminate
    <2>1. edges'[Parent] = edges[Parent] \cup {"signal"}
          /\ UNCHANGED <<batch, messages, backlog>>
      BY <1>2 DEF Terminate, network
    <2>2. QED
      BY <2>1 DEF Quiet
  <1>3. ASSUME NEW c \in Clients, Arrives(c) PROVE Quiet
    <2>1. server[c] \in Children /\ UNCHANGED <<batch, messages, backlog>>
          /\ edges' = [edges EXCEPT ![server[c]] = @ \cup {c}]
      BY <1>3 DEF Arrives
    <2>2. edges'[Parent] = edges[Parent]
      BY <2>1
    <2>3. QED
      BY <2>1, <2>2 DEF Quiet
  <1>4. QED
    BY <1>1, <1>2, <1>3 DEF Send, Leave

LEMMA ParentIsQuiet ==
    ASSUME RestTyped,
           DispatchNone \/ ParentReaps \/ ParentRound \/ \E i \in Children : Fork(i)
    PROVE  Quiet
  <1> USE ParentIsNoChild DEF RestTyped
  <1>1. CASE DispatchNone
    BY <1>1 DEF DispatchNone, network, Quiet
  <1>2. CASE ParentReaps
    <2>1. backlog' = backlog /\ batch'[Parent] \subseteq batch[Parent]
      BY <1>2 DEF ParentReaps, ParentSignals, Handle, network
    <2>2. (\A i \in Children : messages'[i] \in {0, messages[i]})
          /\ edges'[Parent] \in {edges[Parent], edges[Parent] \cup {"signal"}}
      <3>1. CASE UNCHANGED <<messages, edges>>
        BY <3>1
      <3>2. CASE KillChildren
        BY <3>2 DEF KillChildren
      <3>3. QED
        BY <1>2, <3>1, <3>2 DEF ParentReaps, ParentSignals
    <2>3. ASSUME NEW i \in Children PROVE messages'[i] <= messages[i]
      <3>1. messages[i] \in Nat /\ messages'[i] \in {0, messages[i]}
        BY <2>2
      <3>2. QED
        BY <3>1
    <2>4. QED
      BY <2>1, <2>2, <2>3 DEF Quiet
  <1>3. CASE ParentRound \/ \E i \in Children : Fork(i)
    BY <1>3 DEF ParentRound, Fork, epoll, network, Quiet
  <1>4. QED
    BY <1>1, <1>2, <1>3

\* n announcements, an edge and an event, and l connections that wait.
LEMMA Balance ==
    ASSUME NEW n \in Nat, NEW edge \in Nat, NEW event \in Nat, NEW l \in Nat,
           n + edge + event <= l
    PROVE  /\ n >= 1 => l >= 1
           /\ \A m \in Nat : n = m + 1 => m + edge + event <= l - 1
           /\ \A e \in Nat : e <= 1 => n + e + event <= l + 1
  OBVIOUS

\* An edge of the listening socket becomes an event, an event an announcement, and
\* an announcement takes one connection from the backlog.
LEMMA AnnouncedStep ==
    ASSUME TInv, RestTyped', [Next]_vars
    PROVE  Announced'
  <1> USE ParentIsNoChild DEF TInv, RestTyped
  <1> DEFINE n == Cardinality(Announcements)
  <1>1. /\ IsFiniteSet(Announcements) /\ n \in Nat /\ Len(backlog) \in Nat
        /\ n + ListenEdge + ListenEvent <= Len(backlog)
    BY FS_CardinalityType DEF Announced
  <1>2. /\ ListenEdge \in Nat /\ ListenEvent \in Nat
        /\ ListenEdge' \in Nat /\ ListenEdge' <= 1 /\ ListenEvent' \in Nat
    BY DEF ListenEdge, ListenEvent
  <1>3. ASSUME UNCHANGED messages
        PROVE  IsFiniteSet(Announcements)' /\ Cardinality(Announcements)' = n
    BY <1>1, <1>3 DEF Announcements
  <1>4. ASSUME Quiet PROVE Announced'
    BY <1>4, QuietKeeps
  <1>5. CASE ParentStart
    <2>1. UNCHANGED <<batch, messages, backlog>>
          /\ edges' = [edges EXCEPT ![Parent] = IF backlog = <<>> THEN {} ELSE {"listen"}]
          /\ parent = "start"
      BY <1>5 DEF ParentStart, network
    <2>2. n = 0 /\ ListenEvent' = 0
      BY <2>1, NoAnnouncements DEF NothingEarly, ListenEvent
    <2>3. backlog = <<>> => ListenEdge' = 0
      BY <2>1 DEF ListenEdge
    <2>4. (backlog # <<>> => Len(backlog) > 0) /\ Len(backlog') = Len(backlog)
      BY <2>1
    <2>5. ListenEdge' <= Len(backlog)
      BY <1>1, <1>2, <2>3, <2>4
    <2>6. IsFiniteSet(Announcements)' /\ Cardinality(Announcements)' = 0
      BY <1>3, <2>1, <2>2
    <2>7. QED
      BY <1>1, <1>2, <2>2, <2>4, <2>5, <2>6 DEF Announced
  <1>6. CASE ParentEpollWait
    <2>1. UNCHANGED <<messages, backlog>> /\ batch'[Parent] \subseteq edges[Parent]
          /\ edges'[Parent] = {}
      BY <1>6 DEF ParentEpollWait, Fetch, Ready, network
    <2>2. ListenEdge' = 0 /\ ListenEvent' <= ListenEdge
      BY <2>1 DEF ListenEdge, ListenEvent
    <2>3. QED
      BY <1>1, <1>2, <1>3, <2>1, <2>2 DEF Announced
  <1>7. ASSUME NEW i \in Children, Dispatch(i) PROVE Announced'
    <2>1. /\ "listen" \in batch[Parent] /\ Announce(i)
          /\ batch' = [batch EXCEPT ![Parent] = @ \ {"listen"}] /\ backlog' = backlog
      BY <1>7 DEF Dispatch, Handle, network
    <2>2. ListenEvent = 1 /\ ListenEvent' = 0
      BY <2>1 DEF ListenEvent
    <2>3. edges'[Parent] = edges[Parent]
      BY <2>1 DEF Announce
    <2>4. ListenEdge' = ListenEdge
      BY <2>3 DEF ListenEdge
    <2>5. CASE UNCHANGED messages
      BY <1>1, <1>2, <1>3, <2>1, <2>2, <2>4, <2>5 DEF Announced
    <2>6. CASE messages' = [messages EXCEPT ![i] = @ + 1]
      <3>1. IsFiniteSet(Announcements)' /\ Cardinality(Announcements)' = n + 1
        BY <1>1, <2>6, OneMoreAnnouncement
      <3>2. QED
        BY <1>1, <1>2, <2>1, <2>2, <2>4, <3>1 DEF Announced
    <2>7. QED
      BY <2>1, <2>5, <2>6 DEF Announce
  <1>8. ASSUME NEW i \in Children, ChildAccept(i) PROVE Announced'
    <2>1. /\ messages[i] > 0 /\ messages' = [messages EXCEPT ![i] = @ - 1]
          /\ edges' = edges /\ batch'[Parent] = batch[Parent]
      BY <1>8 DEF ChildAccept, Handle, PipeEvents
    <2>2. IsFiniteSet(Announcements)' /\ Cardinality(Announcements)' \in Nat
          /\ n = Cardinality(Announcements)' + 1
      BY <1>1, <2>1, OneLessAnnouncement
    <2>3. ListenEdge' = ListenEdge /\ ListenEvent' = ListenEvent
      BY <2>1 DEF ListenEdge, ListenEvent
    <2>4. backlog # <<>> /\ Len(backlog)' = Len(backlog) - 1
      <3>1. backlog # <<>>
        <4>1. n >= 1
          BY <2>2
        <4>2. Len(backlog) >= 1
          BY <1>1, <1>2, <4>1, Balance
        <4>3. QED
          BY <4>2
      <3>2. backlog' = Tail(backlog)
        BY <1>8, <3>1 DEF ChildAccept
      <3>3. QED
        BY <3>1, <3>2
    <2>5. Cardinality(Announcements)' + ListenEdge' + ListenEvent' <= Len(backlog)'
      <3>1. Cardinality(Announcements)' + ListenEdge + ListenEvent <= Len(backlog) - 1
        BY <1>1, <1>2, <2>2, Balance
      <3>2. QED
        BY <2>3, <2>4, <3>1
    <2>6. QED
      BY <2>2, <2>5 DEF Announced
  <1>9. ASSUME NEW c \in Clients, Connect(c) PROVE Announced'
    <2>1. backlog' = Append(backlog, c) /\ UNCHANGED <<batch, messages>>
      BY <1>9 DEF Connect
    <2>2. Len(backlog)' = Len(backlog) + 1
      BY <2>1
    <2>3. ListenEvent' = ListenEvent
      BY <2>1 DEF ListenEvent
    <2>4. IsFiniteSet(Announcements)' /\ Cardinality(Announcements)' = n
      BY <1>3, <2>1
    <2>5. n + ListenEdge' + ListenEvent' <= Len(backlog)'
      <3>1. n + ListenEdge' + ListenEvent <= Len(backlog) + 1
        BY <1>1, <1>2, Balance
      <3>2. QED
        BY <2>2, <2>3, <3>1
    <2>6. QED
      BY <2>4, <2>5 DEF Announced
  <1>10. QED
    BY <1>4, <1>5, <1>6, <1>7, <1>8, <1>9, ChildIsQuiet, OthersAreQuiet, ParentIsQuiet
    DEF Next, ParentStep, ChildStep

LEMMA EarlyStep ==
    ASSUME TInv, [Next]_vars
    PROVE  NothingEarly'
  <1> USE ParentIsNoChild DEF TInv, RestTyped
  <1> SUFFICES ASSUME parent' \in {"fork", "start"} PROVE NothingEarly'
    BY DEF NothingEarly
  <1>1. ASSUME Quiet, parent \in {"fork", "start"},
               messages' \in [Children -> Nat] PROVE NothingEarly'
    BY <1>1 DEF Quiet, NothingEarly
  <1>2. RestTyped'
    BY RestTypedStep
  <1>3. CASE \E i \in Children : Fork(i)
    BY <1>1, <1>2, <1>3, ParentIsQuiet DEF Fork
  <1>4. CASE ParentStart \/ ParentEpollWait \/ DispatchNone \/ ParentReaps \/ ParentRound
             \/ \E i \in Children : Dispatch(i)
    BY <1>4
    DEF ParentStart, ParentEpollWait, DispatchNone, ParentReaps, ParentSignals,
        ParentRound, Dispatch, family
  <1>5. ASSUME NEW i \in Children, ChildStep(i) \/ Crash(i) \/ CgiEnds(i)
        PROVE  NothingEarly'
    <2>1. parent' = parent
      BY <1>5
      DEF ChildStep, ChildStart, ChildEpollWait, ChildAccept, ChildSignals, Process,
          ChildNext, ChildEnds, Crash, CgiEnds, family
    <2>2. ~ChildAccept(i)
      BY <2>1 DEF ChildAccept, Handle, PipeEvents, NothingEarly
    <2>3. QED
      BY <1>1, <1>2, <1>5, <2>1, <2>2, ChildIsQuiet
  <1>6. CASE Terminate \/ UNCHANGED vars \/ \E c \in Clients : Send(c) \/ Leave(c)
    <2>1. parent' = parent
      BY <1>6 DEF Terminate, vars, Send, Leave, Arrives, family
    <2>2. QED
      BY <1>1, <1>2, <1>6, <2>1, OthersAreQuiet
  <1>7. ASSUME NEW c \in Clients, Connect(c) PROVE NothingEarly'
    BY <1>7 DEF Connect, family, NothingEarly
  <1>8. QED
    BY <1>3, <1>4, <1>5, <1>6, <1>7 DEF Next, ParentStep

LEMMA RestInductive == TInv /\ [Next]_vars => TInv'
  <1> SUFFICES ASSUME TInv, [Next]_vars PROVE TInv'
    OBVIOUS
  <1>1. IInv'
    BY Inductive DEF TInv
  <1>2. RestTyped'
    BY RestTypedStep DEF TInv
  <1>3. QED
    BY <1>1, <1>2, RequestsStep, PipeEventsStep, AnnouncedStep, EarlyStep DEF TInv

LEMMA RestInvariance == Spec => []TInv
  BY RestInitially, RestInductive, PTL DEF Spec

\* There are no more announcements than connections that wait, although children die
\* with announcements unread and edges of the listening socket are lost and come
\* late, for any number of children and clients (processpool.h:257, 385).
THEOREM AnnouncementInvariance == Spec => []AnnouncementsAreTrue
  <1>1. TInv => AnnouncementsAreTrue
    <2> SUFFICES ASSUME TInv PROVE AnnouncementsAreTrue
      OBVIOUS
    <2>1. Cardinality(Announcements) \in Nat /\ Len(backlog) \in Nat
      BY FS_CardinalityType DEF TInv, Announced, RestTyped
    <2>2. QED
      BY <2>1 DEF TInv, Announced, ListenEdge, ListenEvent, AnnouncementsAreTrue
  <1>2. QED
    BY RestInvariance, <1>1, PTL

\* The types: the counter of dispatch stays the number of a child (processpool.h:380),
\* no child reads an announcement that is not there, and a request is not longer
\* when it is read than it was sent, for any number of children and clients.
THEOREM TypeInvariance == Spec => []TypeOK
  <1>1. TInv => TypeOK
    <2> SUFFICES ASSUME TInv PROVE TypeOK
      OBVIOUS
    <2>1. ASSUME NEW c \in Clients PROVE unread[c] \in 0..Pieces[c] /\ got[c] \in 0..Pieces[c]
      <3>1. unread[c] \in Nat /\ got[c] \in Nat /\ Pieces[c] \in Nat
            /\ unread[c] + got[c] <= Pieces[c]
        BY ProcessPoolAssumption DEF TInv, RestTyped, Requests
      <3>2. QED
        BY <3>1
    <2>2. QED
      BY <2>1 DEF TInv, IInv, FamilyTyped, RestTyped, TypeOK, Events
  <1>2. QED
    BY RestInvariance, <1>1, PTL
==============================================================================
