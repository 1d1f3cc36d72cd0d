---------------------------- MODULE RequestQueue ----------------------------
(***************************************************************************)
(* What threadpool<T> (threadpool.h) promises to the threads that use it:  *)
(* a bounded first-in first-out queue whose requests are each taken by     *)
(* exactly one worker.  No lock and no semaphore: a submission and a take  *)
(* are one step each.  ThreadPool.tla implements this specification, and   *)
(* WebServer.tla uses it as its pool.                                      *)
(***************************************************************************)
EXTENDS Naturals, Sequences

CONSTANTS
    Workers,    \* the worker threads
    Requests,   \* what append can be given: task pointers
    Capacity,   \* how many requests can wait
    NoRequest   \* a worker that serves nothing

VARIABLES
    pending,    \* requests accepted and not taken yet, oldest first
    serving     \* [Workers -> Requests \cup {NoRequest}]

vars == <<pending, serving>>

TypeOK ==
    /\ pending \in Seq(Requests)
    /\ serving \in [Workers -> Requests \cup {NoRequest}]

Init ==
    /\ pending = <<>>
    /\ serving = [w \in Workers |-> NoRequest]

Submit(r) ==
    /\ Len(pending) < Capacity
    /\ pending' = Append(pending, r)
    /\ UNCHANGED serving

Take(w) ==
    /\ serving[w] = NoRequest
    /\ pending # <<>>
    /\ serving' = [serving EXCEPT ![w] = Head(pending)]
    /\ pending' = Tail(pending)

Finish(w) ==
    /\ serving[w] # NoRequest
    /\ serving' = [serving EXCEPT ![w] = NoRequest]
    /\ UNCHANGED pending

Next ==
    \/ \E r \in Requests : Submit(r)
    \/ \E w \in Workers : Take(w) \/ Finish(w)

Spec == Init /\ [][Next]_vars
=============================================================================
