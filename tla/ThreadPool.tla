----------------------------- MODULE ThreadPool -----------------------------
(***************************************************************************)
(* threadpool<T> of threadpool.h, with the mutex and the semaphore of      *)
(* locker.h.  The granularity is one step per statement that touches       *)
(* shared state: a thread can be preempted between any two of them.        *)
(*                                                                         *)
(* Producers are the threads that call append() (15_6.cpp has one, the     *)
(* reactor; the class takes a lock so that there may be several).  Workers *)
(* are the threads the constructor creates; each runs run().               *)
(***************************************************************************)
EXTENDS Naturals, Sequences, FiniteSets

CONSTANTS
    Producers,      \* threads that call append
    Workers,        \* the m_thread_number threads of the pool
    Requests,       \* tasks (T * that are not NULL)
    Null,           \* the NULL task: append accepts it, run() skips it
    NoThread,       \* holder of a free mutex
    MaxRequests,    \* m_max_requests
    MaxAppends,     \* bound: calls of append in a behaviour
    MaxInterrupts   \* bound: sem_wait calls that a signal ends (EINTR)

\* threadpool.h:44 refuses thread_number <= 0 and max_requests <= 0.
ASSUME ThreadPoolAssumption ==
    /\ IsFiniteSet(Producers) /\ Producers # {}
    /\ IsFiniteSet(Workers) /\ Workers # {}
    /\ Producers \cap Workers = {}
    /\ NoThread \notin Producers \cup Workers \cup Requests \cup {Null}
    /\ Null \notin Requests
    /\ MaxRequests \in Nat \ {0}
    /\ MaxAppends \in Nat
    /\ MaxInterrupts \in Nat

Threads == Producers \cup Workers
Tasks == Requests \cup {Null}

VARIABLES
    ctor,           \* where the constructor, then the owner, of the pool is
    pc,             \* [Threads -> label of the next statement]
    m_queuelocker,  \* the thread that holds the mutex, or NoThread
    m_workqueue,    \* the list of tasks, front first
    m_queuestat,    \* the value of the semaphore
    m_stop,
    request,        \* a worker's local `request`, a producer's argument
    appends,        \* calls of append so far
    interrupts      \* interrupted sem_wait calls so far

\* What a step of append or run leaves alone; the bounds' counters.
frame == <<ctor, m_stop, appends, interrupts>>
bounds == <<appends, interrupts>>
vars == <<pc, m_queuelocker, m_workqueue, m_queuestat, request, frame>>

ProducerLabels == {"idle", "lock", "check", "refuse", "push", "unlock", "post"}
WorkerLabels ==
    {"unborn", "while", "wait", "lock", "empty", "skip", "front", "pop",
     "unlock", "process", "ended", "undefined"}

\* The statements a thread executes between lock() and the end of unlock().
Critical ==
    {"check", "refuse", "push", "unlock", "empty", "skip", "front", "pop"}

Init ==
    /\ ctor = "create"
    /\ pc = [t \in Threads |-> IF t \in Workers THEN "unborn" ELSE "idle"]
    /\ m_queuelocker = NoThread
    /\ m_workqueue = <<>>
    /\ m_queuestat = 0
    /\ m_stop = FALSE
    /\ request = [t \in Threads |-> Null]
    /\ appends = 0
    /\ interrupts = 0

Goto(t, label) == pc' = [pc EXCEPT ![t] = label]
Step(t, from, to) == pc[t] = from /\ Goto(t, to)

-----------------------------------------------------------------------------
(* The constructor: create the threads one by one, detach each.            *)

Unborn == {w \in Workers : pc[w] = "unborn"}

CreateThread(w) ==
    /\ ctor = "create"
    /\ Step(w, "unborn", "while")
    /\ ctor' = "detach"
    /\ UNCHANGED <<m_queuelocker, m_workqueue, m_queuestat, m_stop, request,
                   bounds>>

DetachThread ==
    /\ ctor = "detach"
    /\ ctor' = IF Unborn = {} THEN "up" ELSE "create"
    /\ UNCHANGED <<pc, m_queuelocker, m_workqueue, m_queuestat, m_stop,
                   request, bounds>>

\* pthread_create or pthread_detach fails: the constructor throws, the members
\* built before its body are destroyed with it, and the threads created so far
\* go on running.
ConstructorThrows ==
    /\ ctor \in {"create", "detach"}
    /\ ctor' = "thrown"
    /\ UNCHANGED <<pc, m_queuelocker, m_workqueue, m_queuestat, m_stop,
                   request, bounds>>

-----------------------------------------------------------------------------
(* append(request), by a producer.                                         *)

AppendCall(p, r) ==
    /\ ctor = "up"
    /\ Step(p, "idle", "lock")
    /\ appends < MaxAppends
    /\ appends' = appends + 1
    /\ request' = [request EXCEPT ![p] = r]
    /\ UNCHANGED <<ctor, m_queuelocker, m_workqueue, m_queuestat, m_stop,
                   interrupts>>

AppendLock(p) ==
    /\ Step(p, "lock", "check")
    /\ m_queuelocker = NoThread
    /\ m_queuelocker' = p
    /\ UNCHANGED <<m_workqueue, m_queuestat, request, frame>>

AppendCheck(p) ==
    /\ pc[p] = "check"
    /\ Goto(p, IF Len(m_workqueue) > MaxRequests THEN "refuse" ELSE "push")
    /\ UNCHANGED <<m_queuelocker, m_workqueue, m_queuestat, request, frame>>

\* Seeded fault: append returns false without unlock.
AppendRefuseLocked(p) ==
    /\ Step(p, "refuse", "idle")
    /\ UNCHANGED <<m_queuelocker, m_workqueue, m_queuestat, request, frame>>

\* unlock and return false
AppendRefuse(p) ==
    /\ Step(p, "refuse", "idle")
    /\ m_queuelocker' = NoThread
    /\ UNCHANGED <<m_workqueue, m_queuestat, request, frame>>

\* Seeded fault: push_front for push_back.
AppendPushFront(p) ==
    /\ Step(p, "push", "unlock")
    /\ m_workqueue' = <<request[p]>> \o m_workqueue
    /\ UNCHANGED <<m_queuelocker, m_queuestat, request, frame>>

AppendPush(p) ==
    /\ Step(p, "push", "unlock")
    /\ m_workqueue' = Append(m_workqueue, request[p])
    /\ UNCHANGED <<m_queuelocker, m_queuestat, request, frame>>

AppendUnlock(p) ==
    /\ Step(p, "unlock", "post")
    /\ m_queuelocker' = NoThread
    /\ UNCHANGED <<m_workqueue, m_queuestat, request, frame>>

\* Seeded fault: post only when the queue was empty, as a condition variable
\* that is signalled on the first element would be.
AppendPostIfFirst(p) ==
    /\ Step(p, "post", "idle")
    /\ m_queuestat' = IF Len(m_workqueue) <= 1 THEN m_queuestat + 1
                                               ELSE m_queuestat
    /\ UNCHANGED <<m_queuelocker, m_workqueue, request, frame>>

AppendPost(p) ==
    /\ Step(p, "post", "idle")
    /\ m_queuestat' = m_queuestat + 1
    /\ UNCHANGED <<m_queuelocker, m_workqueue, request, frame>>

-----------------------------------------------------------------------------
(* run(), by a worker.                                                     *)

WorkerWhile(w) ==
    /\ pc[w] = "while"
    /\ Goto(w, IF m_stop THEN "ended" ELSE "wait")
    /\ UNCHANGED <<m_queuelocker, m_workqueue, m_queuestat, request, frame>>

WorkerWait(w) ==
    /\ Step(w, "wait", "lock")
    /\ m_queuestat > 0
    /\ m_queuestat' = m_queuestat - 1
    /\ UNCHANGED <<m_queuelocker, m_workqueue, request, frame>>

\* sem_wait returns -1 with EINTR; run() ignores what wait() returns.
WorkerInterrupted(w) ==
    /\ Step(w, "wait", "lock")
    /\ interrupts < MaxInterrupts
    /\ interrupts' = interrupts + 1
    /\ UNCHANGED <<ctor, m_queuelocker, m_workqueue, m_queuestat, m_stop,
                   request, appends>>

WorkerLock(w) ==
    /\ Step(w, "lock", "empty")
    /\ m_queuelocker = NoThread
    /\ m_queuelocker' = w
    /\ UNCHANGED <<m_workqueue, m_queuestat, request, frame>>

WorkerEmpty(w) ==
    /\ pc[w] = "empty"
    /\ Goto(w, IF m_workqueue = <<>> THEN "skip" ELSE "front")
    /\ UNCHANGED <<m_queuelocker, m_workqueue, m_queuestat, request, frame>>

\* unlock and continue
WorkerSkip(w) ==
    /\ Step(w, "skip", "while")
    /\ m_queuelocker' = NoThread
    /\ UNCHANGED <<m_workqueue, m_queuestat, request, frame>>

\* front() of an empty list is undefined: any task at all.
WorkerFront(w) ==
    /\ Step(w, "front", "pop")
    /\ \E r \in Tasks :
        /\ m_workqueue # <<>> => r = Head(m_workqueue)
        /\ request' = [request EXCEPT ![w] = r]
    /\ UNCHANGED <<m_queuelocker, m_workqueue, m_queuestat, frame>>

WorkerPop(w) ==
    /\ Step(w, "pop", "unlock")
    /\ m_workqueue' = IF m_workqueue = <<>> THEN <<>> ELSE Tail(m_workqueue)
    /\ UNCHANGED <<m_queuelocker, m_queuestat, request, frame>>

WorkerUnlock(w) ==
    /\ pc[w] = "unlock"
    /\ m_queuelocker' = NoThread
    /\ Goto(w, IF request[w] = Null THEN "while" ELSE "process")
    /\ UNCHANGED <<m_workqueue, m_queuestat, request, frame>>

\* request->process() runs and returns.
WorkerProcess(w) ==
    /\ Step(w, "process", "while")
    /\ UNCHANGED <<m_queuelocker, m_workqueue, m_queuestat, request, frame>>

-----------------------------------------------------------------------------
(* ~threadpool(), and what becomes of the threads it does not join.        *)

\* The destructor's body, once no producer is inside append.
Destroy ==
    /\ ctor = "up"
    /\ \A p \in Producers : pc[p] = "idle"
    /\ ctor' = "stopping"
    /\ m_stop' = TRUE
    /\ UNCHANGED <<pc, m_queuelocker, m_workqueue, m_queuestat, request,
                   bounds>>

\* After the body, the semaphore, the mutex and the list are destroyed, and
\* delete frees the object.
DestroyMembers ==
    /\ ctor = "stopping"
    /\ ctor' = "gone"
    /\ UNCHANGED <<pc, m_queuelocker, m_workqueue, m_queuestat, m_stop,
                   request, bounds>>

\* The members exist.  Once they do not, their variables keep the last values.
Alive == ctor \notin {"gone", "thrown"}

\* A worker uses a member that exists no more, m_stop included: what it, and
\* the program, does from there on is undefined, and nothing is claimed of it.
UndefinedUse(w) ==
    /\ ~Alive
    /\ pc[w] \notin {"unborn", "process", "ended", "undefined"}
    /\ Goto(w, "undefined")
    /\ UNCHANGED <<m_queuelocker, m_workqueue, m_queuestat, request, frame>>

Constructor == (\E w \in Workers : CreateThread(w)) \/ DetachThread
InAppend(p) ==
    \/ AppendLock(p) \/ AppendCheck(p) \/ AppendRefuse(p)
    \/ AppendPush(p) \/ AppendUnlock(p) \/ AppendPost(p)
OnPool(w) ==
    \/ WorkerWhile(w) \/ WorkerWait(w) \/ WorkerLock(w) \/ WorkerEmpty(w)
    \/ WorkerSkip(w) \/ WorkerFront(w) \/ WorkerPop(w) \/ WorkerUnlock(w)
Run(w) == (Alive /\ OnPool(w)) \/ WorkerProcess(w)

Next ==
    \/ Constructor \/ ConstructorThrows \/ Destroy \/ DestroyMembers
    \/ \E p \in Producers : (\E r \in Tasks : AppendCall(p, r)) \/ InAppend(p)
    \/ \E w \in Workers :
        Run(w) \/ (Alive /\ WorkerInterrupted(w)) \/ UndefinedUse(w)

Spec == Init /\ [][Next]_vars

\* Every thread that can run is scheduled in the end; nobody is obliged to
\* call append, to destroy the pool or to interrupt a wait.
FairSpec ==
    /\ Spec
    /\ \A p \in Producers : WF_vars(InAppend(p))
    /\ \A w \in Workers : WF_vars(Run(w))

-----------------------------------------------------------------------------
(* Properties.                                                             *)

TypeOK ==
    /\ ctor \in {"create", "detach", "up", "stopping", "gone", "thrown"}
    /\ pc \in [Threads -> ProducerLabels \cup WorkerLabels]
    /\ \A p \in Producers : pc[p] \in ProducerLabels
    /\ \A w \in Workers : pc[w] \in WorkerLabels
    /\ m_queuelocker \in Threads \cup {NoThread}
    /\ m_workqueue \in Seq(Tasks)
    /\ m_queuestat \in Nat
    /\ m_stop \in BOOLEAN
    /\ request \in [Threads -> Tasks]
    /\ appends \in 0..MaxAppends
    /\ interrupts \in 0..MaxInterrupts

\* What the comments promise: m_max_requests is the largest number of requests
\* allowed in the queue (threadpool.h:21, 33).  The code does not keep it.
WithinLimit == Len(m_workqueue) <= MaxRequests

\* What the code keeps instead: append refuses when size() > m_max_requests, so
\* one request more than the comments allow can wait (threadpool.h:89).
EnforcedLimit == MaxRequests + 1
Bounded == Len(m_workqueue) <= EnforcedLimit

\* front() and pop_front() are never called on an empty list, and what run()
\* pops is the task it read: threadpool.h:121-122 are two statements, and a
\* signal can send more workers to them than there are tasks.
PopSafe ==
    \A w \in Workers :
        /\ pc[w] \in {"front", "pop"} => m_workqueue # <<>>
        /\ pc[w] = "pop" => request[w] = Head(m_workqueue)

\* Threads that are on their way to take one task off the list, and producers
\* that have pushed a task but not yet posted the semaphore for it.
Takers == {w \in Workers : pc[w] \in {"lock", "empty", "front", "pop"}}
Posters == {p \in Producers : pc[p] \in {"unlock", "post"}}

\* No task is left behind: for each task in the list there is a unit of the
\* semaphore, a worker past sem_wait, or a producer about to post.  So the
\* workers are never all asleep on the semaphore while a task waits
\* (threadpool.h:94-96 against 114-123: the list and the semaphore change in
\* separate steps, outside one lock).
NoRequestStranded ==
    Alive => Len(m_workqueue) <=
                m_queuestat + Cardinality(Takers) + Cardinality(Posters)

\* The pool implements the abstract queue: append is the submission of a task
\* at push_back, run() takes it at pop_front, and nothing else changes what
\* waits and what is served.  The queue it implements is the one that
\* threadpool.h:89 enforces, with room for one request more than the comments
\* at threadpool.h:21 and 33 allow: WithinLimit is the promise, and fails.
Serving ==
    [w \in Workers |-> IF pc[w] \in {"unlock", "process"} THEN request[w]
                                                         ELSE NoThread]
Abstract == INSTANCE RequestQueue WITH
    Requests <- Tasks,
    Capacity <- EnforcedLimit,
    NoRequest <- NoThread,
    pending <- m_workqueue,
    serving <- Serving
ImplementsRequestQueue == Abstract!Spec

\* Every task in the list is handed to process() by some worker, unless the
\* pool is destroyed first: a wake-up that finds the list empty, a refused
\* append or an interrupted wait never costs another task its wake-up.
Queued(r) == \E i \in 1..Len(m_workqueue) : m_workqueue[i] = r
Served(r) == \E w \in Workers : pc[w] = "process" /\ request[w] = r
EveryTaskServed == \A r \in Requests : Queued(r) ~> (Served(r) \/ m_stop)
=============================================================================
