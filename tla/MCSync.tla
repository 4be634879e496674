------------------------------- MODULE MCSync -------------------------------
(***************************************************************************)
(* The synchronisation primitives, side by side: an unbounded queue, a     *)
(* bounded queue and the scoped locks.  They share no state; subject says  *)
(* which of the three a behaviour is about.                                *)
(***************************************************************************)
EXTENDS BlockingQueue, ScopedLocks, TLC

CONSTANTS t1, t2, t3, t4, t5

VARIABLES subject, b_queue, b_waiting, b_call, b_accepted, b_last

boundedVars == <<b_queue, b_waiting, b_call, b_accepted, b_last>>

MCThreads == {t1, t2, t3, t4, t5}

\* A ThreadPool's queue and a worker's message queue at once: three looping
\* consumers, one producer, and one thread that uses the other operations.
MixedCalls ==
    (t1 :> {"Pop"}) @@ (t2 :> {"Pop"}) @@ (t5 :> {"Pop"}) @@ (t3 :> {"Push"})
        @@ (t4 :> {"TryPush", "TryPop", "Clear"})

\* One producer and one consumer of a queue of two.
Pair == {t1, t3}
Bounded == INSTANCE BlockingQueue WITH
    Threads <- Pair, Calls <- (t1 :> {"Pop"}) @@ (t3 :> {"Push"}),
    m_iQueueMaxSize <- 2, MaxPush <- 12,
    m_queue <- b_queue, waiting <- b_waiting, call <- b_call,
    accepted <- b_accepted, last <- b_last

\* Three threads, each with one lock object at a time.
MCLockUsers == {t1, t2, t3}

MCInit ==
    /\ subject \in {"queue", "bounded", "locks"}
    /\ Init /\ Bounded!Init /\ Locks!Init

MCNext ==
    \/ subject = "queue" /\ Next /\ UNCHANGED <<subject, boundedVars, lockVars>>
    \/ subject = "bounded" /\ Bounded!Next /\ UNCHANGED <<subject, vars, lockVars>>
    \/ subject = "locks" /\ Locks!Next /\ UNCHANGED <<subject, vars, boundedVars>>

MCVars == <<subject, vars, boundedVars, lockVars>>

\* The fairness of FairSpec, for the queue the behaviour is about.
MCSpec ==
    /\ MCInit /\ [][MCNext]_MCVars
    /\ \A t \in Threads : WF_vars(subject = "queue" /\ "Pop" \in Calls[t] /\ Pop(t))
    /\ WF_boundedVars(subject = "bounded" /\ Bounded!Pop(t1))
    /\ WF_boundedVars(subject = "bounded" /\ b_call[t3] = "Push" /\ Bounded!Push(t3))

\* A producer blocked in Push of a full queue returns in the end, however
\* often it is woken in vain (blocking-queue.h Push, Dequeue's notify_one).
PushReturns == Bounded!CallReturns(t3)
=============================================================================
