-------------------------- MODULE ThreadPool_proof --------------------------
(***************************************************************************)
(* The safety of threadpool<T> for any number of producers, workers and    *)
(* requests: the type invariant, the inductive invariant that carries the  *)
(* others, and that the pool implements RequestQueue.                      *)
(***************************************************************************)
EXTENDS ThreadPool, FiniteSetTheorems, TLAPS

\* The mutex is held by the thread between lock() and unlock(), and only by it;
\* a thread that used destroyed members is no part of this.
Mutex ==
    \A t \in Threads :
        pc[t] # "undefined" => (m_queuelocker = t <=> pc[t] \in Critical)

\* The test of size() is still true when push_back runs: the lock is held.
PushAllowed ==
    \A p \in Producers : pc[p] = "push" => Len(m_workqueue) <= MaxRequests

IInv ==
    /\ TypeOK
    /\ Mutex
    /\ PushAllowed
    /\ Bounded
    /\ PopSafe
    /\ NoRequestStranded

-----------------------------------------------------------------------------
(* Lemmas about the operators of the model.                                *)

\* A subset of the workers or of the producers that one thread enters gains
\* at most one element, and one that it leaves loses at most one.
LEMMA CardinalityOfStep ==
    ASSUME NEW S, NEW T, NEW x, IsFiniteSet(S)
    PROVE  /\ Cardinality(S) \in Nat
           /\ T = S \cup {x} /\ x \notin S =>
                  Cardinality(T) = Cardinality(S) + 1
           /\ T = S \ {x} /\ x \in S =>
                  Cardinality(T) = Cardinality(S) - 1
  <1>1. Cardinality(S) \in Nat
    BY FS_CardinalityType
  <1>2. ASSUME T = S \cup {x}, x \notin S
        PROVE  Cardinality(T) = Cardinality(S) + 1
    BY <1>2, FS_AddElement
  <1>3. ASSUME T = S \ {x}, x \in S
        PROVE  Cardinality(T) = Cardinality(S) - 1
    BY <1>3, FS_RemoveElement
  <1>4. QED
    BY <1>1, <1>2, <1>3

\* The sets counted by NoRequestStranded are finite.
LEMMA CountedSetsFinite == IsFiniteSet(Takers) /\ IsFiniteSet(Posters)
  <1>1. Takers \subseteq Workers /\ Posters \subseteq Producers
    BY DEF Takers, Posters
  <1>2. QED
    BY <1>1, FS_Subset, ThreadPoolAssumption

\* A producer is not a worker, and no thread is the absence of a thread.
LEMMA ThreadKinds ==
    /\ \A p \in Producers : p \notin Workers /\ p # NoThread /\ p \in Threads
    /\ \A w \in Workers : w \notin Producers /\ w # NoThread /\ w \in Threads
  BY ThreadPoolAssumption DEF Threads

-----------------------------------------------------------------------------
(* The type invariant.                                                     *)

LEMMA InitTypeOK == Init => TypeOK
  <1> SUFFICES ASSUME Init PROVE TypeOK
    OBVIOUS
  <1>1. pc \in [Threads -> ProducerLabels \cup WorkerLabels]
    BY DEF Init, ProducerLabels, WorkerLabels
  <1>2. (\A p \in Producers : pc[p] = "idle") /\ \A w \in Workers : pc[w] = "unborn"
    BY ThreadKinds DEF Init
  <1>3. request \in [Threads -> Tasks]
    BY DEF Init, Tasks
  <1>4. appends \in 0..MaxAppends /\ interrupts \in 0..MaxInterrupts
    BY ThreadPoolAssumption DEF Init
  <1>5. m_workqueue \in Seq(Tasks)
    BY DEF Init
  <1>6. QED
    BY <1>1, <1>2, <1>3, <1>4, <1>5
    DEF Init, TypeOK, ProducerLabels, WorkerLabels

\* A thread that goes to a label of its own kind keeps the labels in their type.
LEMMA GotoTyped ==
    ASSUME TypeOK, NEW t \in Threads, NEW label, Goto(t, label),
           t \in Producers => label \in ProducerLabels,
           t \in Workers => label \in WorkerLabels
    PROVE  /\ pc' \in [Threads -> ProducerLabels \cup WorkerLabels]
           /\ \A p \in Producers : pc'[p] \in ProducerLabels
           /\ \A w \in Workers : pc'[w] \in WorkerLabels
           /\ pc'[t] = label
           /\ \A u \in Threads : u # t => pc'[u] = pc[u]
  BY ThreadKinds DEF TypeOK, Goto, Threads

LEMMA TypeStep == TypeOK /\ [Next]_vars => TypeOK'
  <1> SUFFICES ASSUME TypeOK, [Next]_vars PROVE TypeOK'
    OBVIOUS
  <1> USE ThreadKinds, ThreadPoolAssumption DEF Step, frame, bounds
  <1>1. ASSUME NEW w \in Workers, CreateThread(w) PROVE TypeOK'
    BY <1>1, GotoTyped DEF CreateThread, TypeOK, ProducerLabels, WorkerLabels
  <1>2. ASSUME DetachThread PROVE TypeOK'
    BY <1>2, GotoTyped DEF DetachThread, TypeOK, ProducerLabels, WorkerLabels
  <1>3. ASSUME ConstructorThrows PROVE TypeOK'
    BY <1>3, GotoTyped DEF ConstructorThrows, TypeOK, ProducerLabels, WorkerLabels
  <1>4. ASSUME Destroy PROVE TypeOK'
    BY <1>4, GotoTyped DEF Destroy, TypeOK, ProducerLabels, WorkerLabels
  <1>5. ASSUME NEW p \in Producers, NEW r \in Tasks, AppendCall(p, r) PROVE TypeOK'
    BY <1>5, GotoTyped DEF AppendCall, TypeOK, ProducerLabels, WorkerLabels
  <1>6. ASSUME NEW p \in Producers, AppendLock(p) PROVE TypeOK'
    BY <1>6, GotoTyped DEF AppendLock, TypeOK, ProducerLabels, WorkerLabels
  <1>7. ASSUME NEW p \in Producers, AppendCheck(p) PROVE TypeOK'
    BY <1>7, GotoTyped DEF AppendCheck, TypeOK, ProducerLabels, WorkerLabels
  <1>8. ASSUME NEW p \in Producers, AppendRefuse(p) PROVE TypeOK'
    BY <1>8, GotoTyped DEF AppendRefuse, TypeOK, ProducerLabels, WorkerLabels
  <1>9. ASSUME NEW p \in Producers, AppendPush(p) PROVE TypeOK'
    BY <1>9, GotoTyped DEF AppendPush, TypeOK, ProducerLabels, WorkerLabels
  <1>10. ASSUME NEW p \in Producers, AppendUnlock(p) PROVE TypeOK'
    BY <1>10, GotoTyped DEF AppendUnlock, TypeOK, ProducerLabels, WorkerLabels
  <1>11. ASSUME NEW p \in Producers, AppendPost(p) PROVE TypeOK'
    BY <1>11, GotoTyped DEF AppendPost, TypeOK, ProducerLabels, WorkerLabels
  <1>12. ASSUME NEW w \in Workers, WorkerWhile(w) PROVE TypeOK'
    BY <1>12, GotoTyped DEF WorkerWhile, TypeOK, ProducerLabels, WorkerLabels
  <1>13. ASSUME NEW w \in Workers, WorkerWait(w) PROVE TypeOK'
    BY <1>13, GotoTyped DEF WorkerWait, TypeOK, ProducerLabels, WorkerLabels
  <1>14. ASSUME NEW w \in Workers, WorkerLock(w) PROVE TypeOK'
    BY <1>14, GotoTyped DEF WorkerLock, TypeOK, ProducerLabels, WorkerLabels
  <1>15. ASSUME NEW w \in Workers, WorkerEmpty(w) PROVE TypeOK'
    BY <1>15, GotoTyped DEF WorkerEmpty, TypeOK, ProducerLabels, WorkerLabels
  <1>16. ASSUME NEW w \in Workers, WorkerSkip(w) PROVE TypeOK'
    BY <1>16, GotoTyped DEF WorkerSkip, TypeOK, ProducerLabels, WorkerLabels
  <1>17. ASSUME NEW w \in Workers, WorkerFront(w) PROVE TypeOK'
    BY <1>17, GotoTyped DEF WorkerFront, TypeOK, ProducerLabels, WorkerLabels
  <1>18. ASSUME NEW w \in Workers, WorkerPop(w) PROVE TypeOK'
    BY <1>18, GotoTyped DEF WorkerPop, TypeOK, ProducerLabels, WorkerLabels
  <1>19. ASSUME NEW w \in Workers, WorkerUnlock(w) PROVE TypeOK'
    BY <1>19, GotoTyped DEF WorkerUnlock, TypeOK, ProducerLabels, WorkerLabels
  <1>20. ASSUME NEW w \in Workers, WorkerProcess(w) PROVE TypeOK'
    BY <1>20, GotoTyped DEF WorkerProcess, TypeOK, ProducerLabels, WorkerLabels
  <1>21. ASSUME NEW w \in Workers, WorkerInterrupted(w) PROVE TypeOK'
    BY <1>21, GotoTyped DEF WorkerInterrupted, TypeOK, ProducerLabels, WorkerLabels
  <1>22. ASSUME UNCHANGED vars PROVE TypeOK'
    BY <1>22, GotoTyped DEF vars, TypeOK, ProducerLabels, WorkerLabels
  <1>23. ASSUME DestroyMembers PROVE TypeOK'
    BY <1>23, GotoTyped DEF DestroyMembers, TypeOK, ProducerLabels, WorkerLabels
  <1>24. ASSUME NEW w \in Workers, UndefinedUse(w) PROVE TypeOK'
    BY <1>24, GotoTyped DEF UndefinedUse, TypeOK, ProducerLabels, WorkerLabels
  <1>25. QED
    BY <1>1, <1>2, <1>3, <1>4, <1>5, <1>6, <1>7, <1>8, <1>9, <1>10, <1>11, <1>12, <1>13, <1>14, <1>15, <1>16, <1>17, <1>18, <1>19, <1>20, <1>21, <1>22, <1>23, <1>24
    DEF Next, Constructor, InAppend, OnPool, Run

\* A thread that stays inside or outside the critical section and leaves the
\* mutex alone, one that enters with a free mutex, and one that leaves and
\* frees it, keep Mutex.
LEMMA MutexOfStep ==
    ASSUME TypeOK, Mutex, NEW t \in Threads, NEW label, Goto(t, label),
           \/ /\ pc[t] \in Critical <=> label \in Critical
              /\ m_queuelocker' = m_queuelocker
           \/ /\ pc[t] \notin Critical /\ label \in Critical
              /\ m_queuelocker = NoThread /\ m_queuelocker' = t
           \/ /\ pc[t] \in Critical /\ label \notin Critical
              /\ m_queuelocker' = NoThread
           \/ label = "undefined" /\ m_queuelocker' = m_queuelocker,
           pc[t] # "undefined"
    PROVE  Mutex'
  <1>1. pc'[t] = label /\ \A u \in Threads : u # t => pc'[u] = pc[u]
    BY DEF TypeOK, Goto
  <1>2. NoThread \notin Threads
    BY ThreadPoolAssumption DEF Threads
  <1>3. SUFFICES ASSUME NEW u \in Threads, pc'[u] # "undefined"
                 PROVE  m_queuelocker' = u <=> pc'[u] \in Critical
    BY DEF Mutex
  <1>4. pc[u] # "undefined" => (m_queuelocker = u <=> pc[u] \in Critical)
    BY DEF Mutex
  <1>5. m_queuelocker = t <=> pc[t] \in Critical
    BY DEF Mutex
  <1>6. CASE u = t
    BY <1>1, <1>2, <1>3, <1>5, <1>6
  <1>7. CASE u # t
    BY <1>1, <1>2, <1>3, <1>4, <1>5, <1>7
  <1>8. QED
    BY <1>6, <1>7

\* lock() and unlock() keep the mutex with the thread in the critical section.
LEMMA MutexStep == IInv /\ [Next]_vars => Mutex'
  <1> SUFFICES ASSUME TypeOK, Mutex, [Next]_vars PROVE Mutex'
    BY DEF IInv
  <1> USE ThreadKinds, ThreadPoolAssumption DEF Step, frame, bounds
  <1>1. ASSUME NEW w \in Workers, CreateThread(w) PROVE Mutex'
    BY <1>1, MutexOfStep DEF CreateThread, Critical
  <1>2. ASSUME DetachThread PROVE Mutex'
    BY <1>2 DEF DetachThread, Mutex
  <1>3. ASSUME ConstructorThrows PROVE Mutex'
    BY <1>3 DEF ConstructorThrows, Mutex
  <1>4. ASSUME Destroy PROVE Mutex'
    BY <1>4 DEF Destroy, Mutex
  <1>5. ASSUME NEW p \in Producers, NEW r \in Tasks, AppendCall(p, r) PROVE Mutex'
    BY <1>5, MutexOfStep DEF AppendCall, Critical
  <1>6. ASSUME NEW p \in Producers, AppendLock(p) PROVE Mutex'
    BY <1>6, MutexOfStep DEF AppendLock, Critical
  <1>7. ASSUME NEW p \in Producers, AppendCheck(p) PROVE Mutex'
    BY <1>7, MutexOfStep DEF AppendCheck, Critical
  <1>8. ASSUME NEW p \in Producers, AppendRefuse(p) PROVE Mutex'
    BY <1>8, MutexOfStep DEF AppendRefuse, Critical
  <1>9. ASSUME NEW p \in Producers, AppendPush(p) PROVE Mutex'
    BY <1>9, MutexOfStep DEF AppendPush, Critical
  <1>10. ASSUME NEW p \in Producers, AppendUnlock(p) PROVE Mutex'
    BY <1>10, MutexOfStep DEF AppendUnlock, Critical
  <1>11. ASSUME NEW p \in Producers, AppendPost(p) PROVE Mutex'
    BY <1>11, MutexOfStep DEF AppendPost, Critical
  <1>12. ASSUME NEW w \in Workers, WorkerWhile(w) PROVE Mutex'
    BY <1>12, MutexOfStep DEF WorkerWhile, Critical
  <1>13. ASSUME NEW w \in Workers, WorkerWait(w) PROVE Mutex'
    BY <1>13, MutexOfStep DEF WorkerWait, Critical
  <1>14. ASSUME NEW w \in Workers, WorkerLock(w) PROVE Mutex'
    BY <1>14, MutexOfStep DEF WorkerLock, Critical
  <1>15. ASSUME NEW w \in Workers, WorkerEmpty(w) PROVE Mutex'
    BY <1>15, MutexOfStep DEF WorkerEmpty, Critical
  <1>16. ASSUME NEW w \in Workers, WorkerSkip(w) PROVE Mutex'
    BY <1>16, MutexOfStep DEF WorkerSkip, Critical
  <1>17. ASSUME NEW w \in Workers, WorkerFront(w) PROVE Mutex'
    BY <1>17, MutexOfStep DEF WorkerFront, Critical
  <1>18. ASSUME NEW w \in Workers, WorkerPop(w) PROVE Mutex'
    BY <1>18, MutexOfStep DEF WorkerPop, Critical
  <1>19. ASSUME NEW w \in Workers, WorkerUnlock(w) PROVE Mutex'
    BY <1>19, MutexOfStep DEF WorkerUnlock, Critical
  <1>20. ASSUME NEW w \in Workers, WorkerProcess(w) PROVE Mutex'
    BY <1>20, MutexOfStep DEF WorkerProcess, Critical
  <1>21. ASSUME NEW w \in Workers, WorkerInterrupted(w) PROVE Mutex'
    BY <1>21, MutexOfStep DEF WorkerInterrupted, Critical
  <1>22. ASSUME UNCHANGED vars PROVE Mutex'
    BY <1>22 DEF vars, Mutex
  <1>23. ASSUME DestroyMembers PROVE Mutex'
    BY <1>23 DEF DestroyMembers, Mutex
  <1>24. ASSUME NEW w \in Workers, UndefinedUse(w) PROVE Mutex'
    BY <1>24, MutexOfStep DEF UndefinedUse, Critical
  <1>25. QED
    BY <1>1, <1>2, <1>3, <1>4, <1>5, <1>6, <1>7, <1>8, <1>9, <1>10, <1>11, <1>12, <1>13, <1>14, <1>15, <1>16, <1>17, <1>18, <1>19, <1>20, <1>21, <1>22, <1>23, <1>24
    DEF Next, Constructor, InAppend, OnPool, Run

\* Only the holder of the mutex changes the list.
LEMMA PushStep == IInv /\ [Next]_vars => (PushAllowed /\ Bounded)'
  <1> SUFFICES ASSUME TypeOK, Mutex, PushAllowed, Bounded, [Next]_vars PROVE (PushAllowed /\ Bounded)'
    BY DEF IInv
  <1> USE ThreadKinds, ThreadPoolAssumption DEF Step, frame, bounds
  <1>1. ASSUME NEW w \in Workers, CreateThread(w) PROVE (PushAllowed /\ Bounded)'
    BY <1>1, GotoTyped DEF CreateThread, TypeOK, Mutex, Critical, PushAllowed, Bounded, EnforcedLimit, ProducerLabels, WorkerLabels
  <1>2. ASSUME DetachThread PROVE (PushAllowed /\ Bounded)'
    BY <1>2, GotoTyped DEF DetachThread, TypeOK, Mutex, Critical, PushAllowed, Bounded, EnforcedLimit, ProducerLabels, WorkerLabels
  <1>3. ASSUME ConstructorThrows PROVE (PushAllowed /\ Bounded)'
    BY <1>3, GotoTyped DEF ConstructorThrows, TypeOK, Mutex, Critical, PushAllowed, Bounded, EnforcedLimit, ProducerLabels, WorkerLabels
  <1>4. ASSUME Destroy PROVE (PushAllowed /\ Bounded)'
    BY <1>4, GotoTyped DEF Destroy, TypeOK, Mutex, Critical, PushAllowed, Bounded, EnforcedLimit, ProducerLabels, WorkerLabels
  <1>5. ASSUME NEW p \in Producers, NEW r \in Tasks, AppendCall(p, r) PROVE (PushAllowed /\ Bounded)'
    BY <1>5, GotoTyped DEF AppendCall, TypeOK, Mutex, Critical, PushAllowed, Bounded, EnforcedLimit, ProducerLabels, WorkerLabels
  <1>6. ASSUME NEW p \in Producers, AppendLock(p) PROVE (PushAllowed /\ Bounded)'
    BY <1>6, GotoTyped DEF AppendLock, TypeOK, Mutex, Critical, PushAllowed, Bounded, EnforcedLimit, ProducerLabels, WorkerLabels
  <1>7. ASSUME NEW p \in Producers, AppendCheck(p) PROVE (PushAllowed /\ Bounded)'
    BY <1>7, GotoTyped DEF AppendCheck, TypeOK, Mutex, Critical, PushAllowed, Bounded, EnforcedLimit, ProducerLabels, WorkerLabels
  <1>8. ASSUME NEW p \in Producers, AppendRefuse(p) PROVE (PushAllowed /\ Bounded)'
    BY <1>8, GotoTyped DEF AppendRefuse, TypeOK, Mutex, Critical, PushAllowed, Bounded, EnforcedLimit, ProducerLabels, WorkerLabels
  <1>9. ASSUME NEW p \in Producers, AppendPush(p) PROVE (PushAllowed /\ Bounded)'
    BY <1>9, GotoTyped DEF AppendPush, TypeOK, Mutex, Critical, PushAllowed, Bounded, EnforcedLimit, ProducerLabels, WorkerLabels
  <1>10. ASSUME NEW p \in Producers, AppendUnlock(p) PROVE (PushAllowed /\ Bounded)'
    BY <1>10, GotoTyped DEF AppendUnlock, TypeOK, Mutex, Critical, PushAllowed, Bounded, EnforcedLimit, ProducerLabels, WorkerLabels
  <1>11. ASSUME NEW p \in Producers, AppendPost(p) PROVE (PushAllowed /\ Bounded)'
    BY <1>11, GotoTyped DEF AppendPost, TypeOK, Mutex, Critical, PushAllowed, Bounded, EnforcedLimit, ProducerLabels, WorkerLabels
  <1>12. ASSUME NEW w \in Workers, WorkerWhile(w) PROVE (PushAllowed /\ Bounded)'
    BY <1>12, GotoTyped DEF WorkerWhile, TypeOK, Mutex, Critical, PushAllowed, Bounded, EnforcedLimit, ProducerLabels, WorkerLabels
  <1>13. ASSUME NEW w \in Workers, WorkerWait(w) PROVE (PushAllowed /\ Bounded)'
    BY <1>13, GotoTyped DEF WorkerWait, TypeOK, Mutex, Critical, PushAllowed, Bounded, EnforcedLimit, ProducerLabels, WorkerLabels
  <1>14. ASSUME NEW w \in Workers, WorkerLock(w) PROVE (PushAllowed /\ Bounded)'
    BY <1>14, GotoTyped DEF WorkerLock, TypeOK, Mutex, Critical, PushAllowed, Bounded, EnforcedLimit, ProducerLabels, WorkerLabels
  <1>15. ASSUME NEW w \in Workers, WorkerEmpty(w) PROVE (PushAllowed /\ Bounded)'
    BY <1>15, GotoTyped DEF WorkerEmpty, TypeOK, Mutex, Critical, PushAllowed, Bounded, EnforcedLimit, ProducerLabels, WorkerLabels
  <1>16. ASSUME NEW w \in Workers, WorkerSkip(w) PROVE (PushAllowed /\ Bounded)'
    BY <1>16, GotoTyped DEF WorkerSkip, TypeOK, Mutex, Critical, PushAllowed, Bounded, EnforcedLimit, ProducerLabels, WorkerLabels
  <1>17. ASSUME NEW w \in Workers, WorkerFront(w) PROVE (PushAllowed /\ Bounded)'
    BY <1>17, GotoTyped DEF WorkerFront, TypeOK, Mutex, Critical, PushAllowed, Bounded, EnforcedLimit, ProducerLabels, WorkerLabels
  <1>18. ASSUME NEW w \in Workers, WorkerPop(w) PROVE (PushAllowed /\ Bounded)'
    BY <1>18, GotoTyped DEF WorkerPop, TypeOK, Mutex, Critical, PushAllowed, Bounded, EnforcedLimit, ProducerLabels, WorkerLabels
  <1>19. ASSUME NEW w \in Workers, WorkerUnlock(w) PROVE (PushAllowed /\ Bounded)'
    BY <1>19, GotoTyped DEF WorkerUnlock, TypeOK, Mutex, Critical, PushAllowed, Bounded, EnforcedLimit, ProducerLabels, WorkerLabels
  <1>20. ASSUME NEW w \in Workers, WorkerProcess(w) PROVE (PushAllowed /\ Bounded)'
    BY <1>20, GotoTyped DEF WorkerProcess, TypeOK, Mutex, Critical, PushAllowed, Bounded, EnforcedLimit, ProducerLabels, WorkerLabels
  <1>21. ASSUME NEW w \in Workers, WorkerInterrupted(w) PROVE (PushAllowed /\ Bounded)'
    BY <1>21, GotoTyped DEF WorkerInterrupted, TypeOK, Mutex, Critical, PushAllowed, Bounded, EnforcedLimit, ProducerLabels, WorkerLabels
  <1>22. ASSUME UNCHANGED vars PROVE (PushAllowed /\ Bounded)'
    BY <1>22, GotoTyped DEF vars, TypeOK, Mutex, Critical, PushAllowed, Bounded, EnforcedLimit, ProducerLabels, WorkerLabels
  <1>23. ASSUME DestroyMembers PROVE (PushAllowed /\ Bounded)'
    BY <1>23, GotoTyped DEF DestroyMembers, TypeOK, Mutex, Critical, PushAllowed, Bounded, EnforcedLimit, ProducerLabels, WorkerLabels
  <1>24. ASSUME NEW w \in Workers, UndefinedUse(w) PROVE (PushAllowed /\ Bounded)'
    BY <1>24, GotoTyped DEF UndefinedUse, TypeOK, Mutex, Critical, PushAllowed, Bounded, EnforcedLimit, ProducerLabels, WorkerLabels
  <1>25. QED
    BY <1>1, <1>2, <1>3, <1>4, <1>5, <1>6, <1>7, <1>8, <1>9, <1>10, <1>11, <1>12, <1>13, <1>14, <1>15, <1>16, <1>17, <1>18, <1>19, <1>20, <1>21, <1>22, <1>23, <1>24
    DEF Next, Constructor, InAppend, OnPool, Run

\* Between empty() and pop_front() the list and its front are the worker's.
LEMMA PopStep == IInv /\ [Next]_vars => PopSafe'
  <1> SUFFICES ASSUME TypeOK, Mutex, PopSafe, [Next]_vars PROVE PopSafe'
    BY DEF IInv
  <1> USE ThreadKinds, ThreadPoolAssumption DEF Step, frame, bounds
  <1>1. ASSUME NEW w \in Workers, CreateThread(w) PROVE PopSafe'
    BY <1>1, GotoTyped DEF CreateThread, TypeOK, Mutex, Critical, PopSafe, ProducerLabels, WorkerLabels
  <1>2. ASSUME DetachThread PROVE PopSafe'
    BY <1>2, GotoTyped DEF DetachThread, TypeOK, Mutex, Critical, PopSafe, ProducerLabels, WorkerLabels
  <1>3. ASSUME ConstructorThrows PROVE PopSafe'
    BY <1>3, GotoTyped DEF ConstructorThrows, TypeOK, Mutex, Critical, PopSafe, ProducerLabels, WorkerLabels
  <1>4. ASSUME Destroy PROVE PopSafe'
    BY <1>4, GotoTyped DEF Destroy, TypeOK, Mutex, Critical, PopSafe, ProducerLabels, WorkerLabels
  <1>5. ASSUME NEW p \in Producers, NEW r \in Tasks, AppendCall(p, r) PROVE PopSafe'
    BY <1>5, GotoTyped DEF AppendCall, TypeOK, Mutex, Critical, PopSafe, ProducerLabels, WorkerLabels
  <1>6. ASSUME NEW p \in Producers, AppendLock(p) PROVE PopSafe'
    BY <1>6, GotoTyped DEF AppendLock, TypeOK, Mutex, Critical, PopSafe, ProducerLabels, WorkerLabels
  <1>7. ASSUME NEW p \in Producers, AppendCheck(p) PROVE PopSafe'
    BY <1>7, GotoTyped DEF AppendCheck, TypeOK, Mutex, Critical, PopSafe, ProducerLabels, WorkerLabels
  <1>8. ASSUME NEW p \in Producers, AppendRefuse(p) PROVE PopSafe'
    BY <1>8, GotoTyped DEF AppendRefuse, TypeOK, Mutex, Critical, PopSafe, ProducerLabels, WorkerLabels
  <1>9. ASSUME NEW p \in Producers, AppendPush(p) PROVE PopSafe'
    BY <1>9, GotoTyped DEF AppendPush, TypeOK, Mutex, Critical, PopSafe, ProducerLabels, WorkerLabels
  <1>10. ASSUME NEW p \in Producers, AppendUnlock(p) PROVE PopSafe'
    BY <1>10, GotoTyped DEF AppendUnlock, TypeOK, Mutex, Critical, PopSafe, ProducerLabels, WorkerLabels
  <1>11. ASSUME NEW p \in Producers, AppendPost(p) PROVE PopSafe'
    BY <1>11, GotoTyped DEF AppendPost, TypeOK, Mutex, Critical, PopSafe, ProducerLabels, WorkerLabels
  <1>12. ASSUME NEW w \in Workers, WorkerWhile(w) PROVE PopSafe'
    BY <1>12, GotoTyped DEF WorkerWhile, TypeOK, Mutex, Critical, PopSafe, ProducerLabels, WorkerLabels
  <1>13. ASSUME NEW w \in Workers, WorkerWait(w) PROVE PopSafe'
    BY <1>13, GotoTyped DEF WorkerWait, TypeOK, Mutex, Critical, PopSafe, ProducerLabels, WorkerLabels
  <1>14. ASSUME NEW w \in Workers, WorkerLock(w) PROVE PopSafe'
    BY <1>14, GotoTyped DEF WorkerLock, TypeOK, Mutex, Critical, PopSafe, ProducerLabels, WorkerLabels
  <1>15. ASSUME NEW w \in Workers, WorkerEmpty(w) PROVE PopSafe'
    BY <1>15, GotoTyped DEF WorkerEmpty, TypeOK, Mutex, Critical, PopSafe, ProducerLabels, WorkerLabels
  <1>16. ASSUME NEW w \in Workers, WorkerSkip(w) PROVE PopSafe'
    BY <1>16, GotoTyped DEF WorkerSkip, TypeOK, Mutex, Critical, PopSafe, ProducerLabels, WorkerLabels
  <1>17. ASSUME NEW w \in Workers, WorkerFront(w) PROVE PopSafe'
    BY <1>17, GotoTyped DEF WorkerFront, TypeOK, Mutex, Critical, PopSafe, ProducerLabels, WorkerLabels
  <1>18. ASSUME NEW w \in Workers, WorkerPop(w) PROVE PopSafe'
    BY <1>18, GotoTyped DEF WorkerPop, TypeOK, Mutex, Critical, PopSafe, ProducerLabels, WorkerLabels
  <1>19. ASSUME NEW w \in Workers, WorkerUnlock(w) PROVE PopSafe'
    BY <1>19, GotoTyped DEF WorkerUnlock, TypeOK, Mutex, Critical, PopSafe, ProducerLabels, WorkerLabels
  <1>20. ASSUME NEW w \in Workers, WorkerProcess(w) PROVE PopSafe'
    BY <1>20, GotoTyped DEF WorkerProcess, TypeOK, Mutex, Critical, PopSafe, ProducerLabels, WorkerLabels
  <1>21. ASSUME NEW w \in Workers, WorkerInterrupted(w) PROVE PopSafe'
    BY <1>21, GotoTyped DEF WorkerInterrupted, TypeOK, Mutex, Critical, PopSafe, ProducerLabels, WorkerLabels
  <1>22. ASSUME UNCHANGED vars PROVE PopSafe'
    BY <1>22, GotoTyped DEF vars, TypeOK, Mutex, Critical, PopSafe, ProducerLabels, WorkerLabels
  <1>23. ASSUME DestroyMembers PROVE PopSafe'
    BY <1>23, GotoTyped DEF DestroyMembers, TypeOK, Mutex, Critical, PopSafe, ProducerLabels, WorkerLabels
  <1>24. ASSUME NEW w \in Workers, UndefinedUse(w) PROVE PopSafe'
    BY <1>24, GotoTyped DEF UndefinedUse, TypeOK, Mutex, Critical, PopSafe, ProducerLabels, WorkerLabels
  <1>25. QED
    BY <1>1, <1>2, <1>3, <1>4, <1>5, <1>6, <1>7, <1>8, <1>9, <1>10, <1>11, <1>12, <1>13, <1>14, <1>15, <1>16, <1>17, <1>18, <1>19, <1>20, <1>21, <1>22, <1>23, <1>24
    DEF Next, Constructor, InAppend, OnPool, Run

-----------------------------------------------------------------------------
(* The count of wake-ups.                                                  *)

Taking == {"lock", "empty", "front", "pop"}
Posting == {"unlock", "post"}

\* What one thread's step from pc[t] to label does to the counts.
LEMMA CountsOfStep ==
    ASSUME TypeOK, NEW t \in Threads, NEW label, Goto(t, label)
    PROVE  /\ Cardinality(Takers) \in Nat /\ Cardinality(Posters) \in Nat
           /\ t \in Workers =>
                /\ Posters' = Posters
                /\ (pc[t] \in Taking <=> label \in Taking) => Takers' = Takers
                /\ pc[t] \notin Taking /\ label \in Taking =>
                     Cardinality(Takers') = Cardinality(Takers) + 1
                /\ pc[t] \in Taking /\ label \notin Taking =>
                     Cardinality(Takers') = Cardinality(Takers) - 1
           /\ t \in Producers =>
                /\ Takers' = Takers
                /\ (pc[t] \in Posting <=> label \in Posting) => Posters' = Posters
                /\ pc[t] \notin Posting /\ label \in Posting =>
                     Cardinality(Posters') = Cardinality(Posters) + 1
                /\ pc[t] \in Posting /\ label \notin Posting =>
                     Cardinality(Posters') = Cardinality(Posters) - 1
  <1>1. pc'[t] = label /\ \A u \in Threads : u # t => pc'[u] = pc[u]
    BY DEF TypeOK, Goto
  <1>2. Cardinality(Takers) \in Nat /\ Cardinality(Posters) \in Nat
    BY CountedSetsFinite, FS_CardinalityType
  <1>3. ASSUME t \in Workers
        PROVE  /\ Posters' = Posters
               /\ (pc[t] \in Taking <=> label \in Taking) => Takers' = Takers
               /\ pc[t] \notin Taking /\ label \in Taking =>
                    Takers' = Takers \cup {t} /\ t \notin Takers
               /\ pc[t] \in Taking /\ label \notin Taking =>
                    Takers' = Takers \ {t} /\ t \in Takers
    BY <1>1, <1>3, ThreadKinds DEF Takers, Posters, Taking
  <1>4. ASSUME t \in Producers
        PROVE  /\ Takers' = Takers
               /\ (pc[t] \in Posting <=> label \in Posting) => Posters' = Posters
               /\ pc[t] \notin Posting /\ label \in Posting =>
                    Posters' = Posters \cup {t} /\ t \notin Posters
               /\ pc[t] \in Posting /\ label \notin Posting =>
                    Posters' = Posters \ {t} /\ t \in Posters
    BY <1>1, <1>4, ThreadKinds DEF Takers, Posters, Posting
  <1>5. QED
    BY <1>2, <1>3, <1>4, CountedSetsFinite, CardinalityOfStep

\* Each waiting task has a wake-up to come, as NoRequestStranded says of a pool
\* that exists.
Covered ==
    Len(m_workqueue) <= m_queuestat + Cardinality(Takers) + Cardinality(Posters)

\* Members that were destroyed do not come back.
LEMMA AliveStep == [Next]_vars /\ Alive' => Alive
  BY DEF Next, vars, frame, bounds, Alive, Constructor, CreateThread,
    DetachThread, ConstructorThrows, Destroy, DestroyMembers, UndefinedUse,
    AppendCall, InAppend, AppendLock, AppendCheck, AppendRefuse, AppendPush,
    AppendUnlock, AppendPost, Run, WorkerProcess

\* Each step that puts a task in the list, or takes a wake-up away, makes up for it.
LEMMA StrandedStep == IInv /\ [Next]_vars => NoRequestStranded'
  <1> SUFFICES ASSUME TypeOK, PopSafe, Alive, Covered, [Next]_vars PROVE Covered'
    BY AliveStep DEF IInv, NoRequestStranded, Covered
  <1> USE ThreadKinds DEF Step, frame, bounds
  <1>1. Len(m_workqueue) \in Nat /\ m_queuestat \in Nat
    BY DEF TypeOK
  <1>2. ASSUME NEW w \in Workers, CreateThread(w) PROVE Covered'
    BY <1>2, <1>1, CountsOfStep DEF CreateThread, TypeOK, Covered, PopSafe, Taking, Posting
  <1>3. ASSUME DetachThread PROVE Covered'
    BY <1>3 DEF DetachThread, Covered, Takers, Posters
  <1>4. ASSUME ConstructorThrows PROVE Covered'
    BY <1>4 DEF ConstructorThrows, Covered, Takers, Posters
  <1>5. ASSUME Destroy PROVE Covered'
    BY <1>5 DEF Destroy, Covered, Takers, Posters
  <1>6. ASSUME NEW p \in Producers, NEW r \in Tasks, AppendCall(p, r) PROVE Covered'
    BY <1>6, <1>1, CountsOfStep DEF AppendCall, Covered, Taking, Posting
  <1>7. ASSUME NEW p \in Producers, AppendLock(p) PROVE Covered'
    BY <1>7, <1>1, CountsOfStep DEF AppendLock, Covered, Taking, Posting
  <1>8. ASSUME NEW p \in Producers, AppendCheck(p) PROVE Covered'
    BY <1>8, <1>1, CountsOfStep DEF AppendCheck, Covered, Taking, Posting
  <1>9. ASSUME NEW p \in Producers, AppendRefuse(p) PROVE Covered'
    <2>1. Goto(p, "idle") /\ pc[p] = "refuse" /\ UNCHANGED <<m_workqueue, m_queuestat>>
      BY <1>9 DEF AppendRefuse
    <2>2. Takers' = Takers /\ Posters' = Posters
      BY <2>1, CountsOfStep DEF Posting
    <2>3. QED
      BY <2>1, <2>2 DEF Covered
  <1>10. ASSUME NEW p \in Producers, AppendPush(p) PROVE Covered'
    BY <1>10, <1>1, CountsOfStep DEF AppendPush, TypeOK, Covered, PopSafe, Taking, Posting
  <1>11. ASSUME NEW p \in Producers, AppendUnlock(p) PROVE Covered'
    BY <1>11, <1>1, CountsOfStep DEF AppendUnlock, Covered, Taking, Posting
  <1>12. ASSUME NEW p \in Producers, AppendPost(p) PROVE Covered'
    BY <1>12, <1>1, CountsOfStep DEF AppendPost, Covered, Taking, Posting
  <1>13. ASSUME NEW w \in Workers, WorkerWhile(w) PROVE Covered'
    BY <1>13, <1>1, CountsOfStep DEF WorkerWhile, Covered, Taking, Posting
  <1>14. ASSUME NEW w \in Workers, WorkerWait(w) PROVE Covered'
    BY <1>14, <1>1, CountsOfStep DEF WorkerWait, Covered, Taking, Posting
  <1>15. ASSUME NEW w \in Workers, WorkerLock(w) PROVE Covered'
    BY <1>15, <1>1, CountsOfStep DEF WorkerLock, Covered, Taking, Posting
  <1>16. ASSUME NEW w \in Workers, WorkerEmpty(w) PROVE Covered'
    <2>1. /\ pc[w] = "empty" /\ UNCHANGED <<m_workqueue, m_queuestat>>
          /\ Goto(w, IF m_workqueue = <<>> THEN "skip" ELSE "front")
      BY <1>16 DEF WorkerEmpty
    <2>2. CASE m_workqueue = <<>>
      <3>1. Takers' \subseteq Workers /\ Posters' \subseteq Producers
        BY DEF Takers, Posters
      <3>2. Cardinality(Takers') \in Nat /\ Cardinality(Posters') \in Nat
        BY <3>1, FS_Subset, FS_CardinalityType, ThreadPoolAssumption
      <3>3. Len(m_workqueue') = 0
        BY <2>1, <2>2
      <3>4. QED
        BY <1>1, <2>1, <3>2, <3>3 DEF Covered
    <2>3. CASE m_workqueue # <<>>
      <3>1. Goto(w, "front")
        BY <2>1, <2>3
      <3>2. Takers' = Takers /\ Posters' = Posters
        BY <2>1, <3>1, CountsOfStep DEF Taking
      <3>3. QED
        BY <2>1, <3>2 DEF Covered
    <2>4. QED
      BY <2>2, <2>3
  <1>17. ASSUME NEW w \in Workers, WorkerSkip(w) PROVE Covered'
    BY <1>17, <1>1, CountsOfStep DEF WorkerSkip, Covered, Taking, Posting
  <1>18. ASSUME NEW w \in Workers, WorkerFront(w) PROVE Covered'
    BY <1>18, <1>1, CountsOfStep DEF WorkerFront, Covered, Taking, Posting
  <1>19. ASSUME NEW w \in Workers, WorkerPop(w) PROVE Covered'
    BY <1>19, <1>1, CountsOfStep DEF WorkerPop, TypeOK, Covered, PopSafe, Taking, Posting
  <1>20. ASSUME NEW w \in Workers, WorkerUnlock(w) PROVE Covered'
    BY <1>20, <1>1, CountsOfStep DEF WorkerUnlock, Covered, Taking, Posting
  <1>21. ASSUME NEW w \in Workers, WorkerProcess(w) PROVE Covered'
    BY <1>21, <1>1, CountsOfStep DEF WorkerProcess, Covered, Taking, Posting
  <1>22. ASSUME NEW w \in Workers, WorkerInterrupted(w) PROVE Covered'
    BY <1>22, <1>1, CountsOfStep DEF WorkerInterrupted, Covered, Taking, Posting
  <1>23. ASSUME UNCHANGED vars PROVE Covered'
    BY <1>23 DEF vars, Covered, Takers, Posters
  <1>24. ASSUME DestroyMembers PROVE Covered'
    BY <1>24 DEF DestroyMembers, Covered, Takers, Posters
  <1>25. ASSUME NEW w \in Workers, UndefinedUse(w) PROVE Covered'
    BY <1>25 DEF UndefinedUse
  <1>26. QED
    BY <1>2, <1>3, <1>4, <1>5, <1>6, <1>7, <1>8, <1>9, <1>10, <1>11, <1>12, <1>13, <1>14, <1>15, <1>16, <1>17, <1>18, <1>19, <1>20, <1>21, <1>22, <1>23, <1>24, <1>25
    DEF Next, Constructor, InAppend, OnPool, Run

-----------------------------------------------------------------------------
(* The invariants of the specification.                                    *)

LEMMA InitIInv == Init => IInv
  <1> SUFFICES ASSUME Init PROVE IInv
    OBVIOUS
  <1>1. TypeOK
    BY InitTypeOK
  <1>2. /\ \A p \in Producers : pc[p] = "idle"
        /\ \A w \in Workers : pc[w] = "unborn"
        /\ m_queuelocker = NoThread /\ m_workqueue = <<>> /\ m_queuestat = 0
    BY ThreadKinds DEF Init
  <1>3. Mutex
    BY <1>2, ThreadPoolAssumption DEF Mutex, Threads, Critical
  <1>4. PushAllowed /\ Bounded /\ PopSafe
    BY <1>2, ThreadPoolAssumption DEF PushAllowed, Bounded, EnforcedLimit, PopSafe
  <1>5. NoRequestStranded
    BY <1>2, CountedSetsFinite, FS_CardinalityType DEF NoRequestStranded
  <1>6. QED
    BY <1>1, <1>3, <1>4, <1>5 DEF IInv

LEMMA StepIInv == IInv /\ [Next]_vars => IInv'
  <1>1. IInv => TypeOK
    BY DEF IInv
  <1>2. QED
    BY <1>1, TypeStep, MutexStep, PushStep, PopStep, StrandedStep DEF IInv

\* The inductive invariant holds in every state of the pool.
THEOREM Invariance == Spec => []IInv
  BY InitIInv, StepIInv, PTL DEF Spec

\* The variables of threadpool.h keep their types, whatever the threads do.
THEOREM TypeInvariance == Spec => []TypeOK
  <1>1. IInv => TypeOK
    BY DEF IInv
  <1>2. QED
    BY <1>1, Invariance, PTL

\* The list never holds more than m_max_requests + 1 tasks (threadpool.h:89),
\* front() and pop_front() meet a list that is not empty (threadpool.h:121),
\* and no task waits while every wake-up for it is gone (threadpool.h:96, 114).
THEOREM QueueSafety == Spec => [](Bounded /\ PopSafe /\ NoRequestStranded)
  <1>1. IInv => Bounded /\ PopSafe /\ NoRequestStranded
    BY DEF IInv
  <1>2. QED
    BY <1>1, Invariance, PTL

-----------------------------------------------------------------------------
(* The pool implements the abstract queue.                                 *)

Holding == {"unlock", "process"}

\* A step of a producer, and a step of a worker that holds no task before it
\* and none after it, leave what the workers serve as it was.
LEMMA ServingKept ==
    ASSUME TypeOK, NEW t \in Threads, NEW label, Goto(t, label),
           \A u \in Threads : u # t => request'[u] = request[u],
           \/ t \in Producers
           \/ pc[t] \notin Holding /\ label \notin Holding
           \/ pc[t] \in Holding /\ label \in Holding /\ request' = request
    PROVE  Serving' = Serving
  <1>1. pc'[t] = label /\ \A u \in Threads : u # t => pc'[u] = pc[u]
    BY DEF TypeOK, Goto
  <1>2. ASSUME NEW w \in Workers
        PROVE  (IF pc'[w] \in Holding THEN request'[w] ELSE NoThread)
                 = IF pc[w] \in Holding THEN request[w] ELSE NoThread
    BY <1>1, ThreadKinds
  <1>3. QED
    BY <1>2 DEF Serving, Holding

\* A worker's step in and out of holding a task.
LEMMA ServingSet ==
    ASSUME TypeOK, NEW w \in Workers, NEW label, Goto(w, label), request' = request
    PROVE  /\ pc[w] \notin Holding => Serving[w] = NoThread
           /\ pc[w] \in Holding => Serving[w] = request[w]
           /\ label \in Holding => Serving' = [Serving EXCEPT ![w] = request[w]]
           /\ label \notin Holding => Serving' = [Serving EXCEPT ![w] = NoThread]
  <1>1. pc'[w] = label /\ \A u \in Threads : u # w => pc'[u] = pc[u]
    BY ThreadKinds DEF TypeOK, Goto
  <1>2. QED
    BY <1>1, ThreadKinds DEF Serving, Holding

LEMMA InitImplements == Init => Abstract!Init
  BY ThreadKinds DEF Init, Abstract!Init, Serving

LEMMA StepImplements == IInv /\ [Next]_vars => [Abstract!Next]_(Abstract!vars)
  <1> SUFFICES ASSUME TypeOK, Mutex, PushAllowed, PopSafe, [Next]_vars
               PROVE  Abstract!Next \/ UNCHANGED <<m_workqueue, Serving>>
    BY DEF IInv, Abstract!vars
  <1> USE ThreadKinds DEF Step, frame, bounds
  <1>1. ASSUME NEW w \in Workers, CreateThread(w) PROVE UNCHANGED <<m_workqueue, Serving>>
    BY <1>1, ServingKept DEF CreateThread, Holding
  <1>2. ASSUME \/ DetachThread \/ ConstructorThrows \/ Destroy
               \/ DestroyMembers \/ UNCHANGED vars
        PROVE  UNCHANGED <<m_workqueue, Serving>>
    BY <1>2 DEF DetachThread, ConstructorThrows, Destroy, DestroyMembers, vars, Serving
  <1>3. ASSUME NEW p \in Producers, NEW r \in Tasks, AppendCall(p, r)
        PROVE  UNCHANGED <<m_workqueue, Serving>>
    BY <1>3, ServingKept DEF AppendCall, TypeOK
  <1>4. ASSUME NEW p \in Producers,
               \/ AppendLock(p) \/ AppendCheck(p) \/ AppendRefuse(p)
               \/ AppendUnlock(p) \/ AppendPost(p)
        PROVE  UNCHANGED <<m_workqueue, Serving>>
    BY <1>4, ServingKept DEF AppendLock, AppendCheck, AppendRefuse, AppendUnlock, AppendPost
  <1>5. ASSUME NEW p \in Producers, AppendPush(p) PROVE Abstract!Submit(request[p])
    <2>1. Len(m_workqueue) < EnforcedLimit
      BY <1>5, ThreadPoolAssumption DEF EnforcedLimit, AppendPush, PushAllowed, TypeOK
    <2>2. Serving' = Serving
      BY <1>5, ServingKept DEF AppendPush
    <2>3. QED
      BY <1>5, <2>1, <2>2 DEF AppendPush, Abstract!Submit
  <1>6. ASSUME NEW w \in Workers,
               \/ WorkerWhile(w) \/ WorkerWait(w) \/ WorkerInterrupted(w)
               \/ WorkerLock(w) \/ WorkerEmpty(w) \/ WorkerSkip(w)
        PROVE  UNCHANGED <<m_workqueue, Serving>>
    BY <1>6, ServingKept
    DEF WorkerWhile, WorkerWait, WorkerInterrupted, WorkerLock, WorkerEmpty, WorkerSkip, Holding
  <1>7. ASSUME NEW w \in Workers, WorkerFront(w) PROVE UNCHANGED <<m_workqueue, Serving>>
    BY <1>7, ServingKept DEF WorkerFront, Holding, TypeOK
  <1>8. ASSUME NEW w \in Workers, WorkerPop(w) PROVE Abstract!Take(w)
    <2>1. m_workqueue # <<>> /\ request[w] = Head(m_workqueue)
      BY <1>8 DEF WorkerPop, PopSafe
    <2>2. Serving[w] = NoThread /\ Serving' = [Serving EXCEPT ![w] = request[w]]
      BY <1>8, ServingSet DEF WorkerPop, Holding
    <2>3. QED
      BY <1>8, <2>1, <2>2 DEF WorkerPop, Abstract!Take
  <1>9. ASSUME NEW w \in Workers, WorkerUnlock(w)
        PROVE  Abstract!Finish(w) \/ UNCHANGED <<m_workqueue, Serving>>
    <2>1. CASE request[w] = Null
      <3>1. Serving[w] = Null /\ Serving' = [Serving EXCEPT ![w] = NoThread]
        BY <1>9, <2>1, ServingSet DEF WorkerUnlock, Holding
      <3>2. QED
        BY <1>9, <3>1, ThreadPoolAssumption DEF WorkerUnlock, Abstract!Finish
    <2>2. CASE request[w] # Null
      BY <1>9, <2>2, ServingKept DEF WorkerUnlock, Holding
    <2>3. QED
      BY <2>1, <2>2
  <1>10. ASSUME NEW w \in Workers, WorkerProcess(w) PROVE Abstract!Finish(w)
    <2>1. Serving[w] = request[w] /\ Serving' = [Serving EXCEPT ![w] = NoThread]
      BY <1>10, ServingSet DEF WorkerProcess, Holding
    <2>2. request[w] # NoThread
      BY ThreadPoolAssumption DEF TypeOK, Tasks
    <2>3. QED
      BY <1>10, <2>1, <2>2 DEF WorkerProcess, Abstract!Finish
  <1>11. ASSUME NEW p \in Producers, AppendPush(p) PROVE Abstract!Next
    BY <1>5, <1>11 DEF Abstract!Next, TypeOK
  <1>12. ASSUME NEW w \in Workers, WorkerPop(w) \/ WorkerProcess(w) PROVE Abstract!Next
    BY <1>8, <1>10, <1>12 DEF Abstract!Next
  <1>13. ASSUME NEW w \in Workers, WorkerUnlock(w)
         PROVE  Abstract!Next \/ UNCHANGED <<m_workqueue, Serving>>
    BY <1>9, <1>13 DEF Abstract!Next
  <1>14. ASSUME NEW w \in Workers, UndefinedUse(w)
         PROVE  Abstract!Finish(w) \/ UNCHANGED <<m_workqueue, Serving>>
    <2>1. CASE pc[w] = "unlock"
      <3>1. Serving[w] = request[w] /\ Serving' = [Serving EXCEPT ![w] = NoThread]
        BY <1>14, <2>1, ServingSet DEF UndefinedUse, Holding
      <3>2. request[w] # NoThread
        BY ThreadPoolAssumption DEF TypeOK, Tasks
      <3>3. QED
        BY <1>14, <3>1, <3>2 DEF UndefinedUse, Abstract!Finish
    <2>2. CASE pc[w] # "unlock"
      BY <1>14, <2>2, ServingKept DEF UndefinedUse, Holding
    <2>3. QED
      BY <2>1, <2>2
  <1>15. QED
    BY <1>1, <1>2, <1>3, <1>4, <1>6, <1>7, <1>11, <1>12, <1>13, <1>14
    DEF Next, Constructor, InAppend, OnPool, Run, Abstract!Next

\* The pool, with its lock, its semaphore and any number of threads, behaves
\* as the bounded FIFO queue of RequestQueue: append and run() neither lose,
\* duplicate nor reorder a task.
THEOREM Refinement == Spec => ImplementsRequestQueue
  BY InitImplements, StepImplements, Invariance, PTL
  DEF Spec, ImplementsRequestQueue, Abstract!Spec
=============================================================================
