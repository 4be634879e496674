--------------------------- MODULE BlockingQueue ---------------------------
(***************************************************************************)
(* common::BlockingQueue (src/src/common/blocking-queue.h): a FIFO guarded *)
(* by one mutex, whose producers and consumers share one condition         *)
(* variable.                                                               *)
(*                                                                         *)
(* Every critical section is one action.  A call that finds the queue      *)
(* empty (or full) releases the mutex and blocks in the same step, as      *)
(* std::condition_variable::wait does; a notified thread is one that has   *)
(* left "waiting" but whose call is still in progress, and it competes     *)
(* for the mutex like any other thread.                                    *)
(***************************************************************************)
EXTENDS Integers, Sequences, FiniteSets

CONSTANTS
    Threads,          \* the threads that share the queue
    Calls,            \* the operations each of them calls
    m_iQueueMaxSize,  \* the constructor's argument; 0 means no limit
    MaxPush           \* bound: how many items are accepted altogether

ASSUME QueueAssumption ==
    /\ IsFiniteSet(Threads)
    /\ Calls \in [Threads -> SUBSET {"Pop", "TryPop", "Push", "TryPush", "Clear"}]
    /\ m_iQueueMaxSize \in Nat
    /\ MaxPush \in Nat

VARIABLES
    m_queue,   \* the items, each named by its position in acceptance order
    waiting,   \* threads blocked on m_cond
    call,      \* the blocking call each thread is in: "none", "Pop", "Push"
    accepted,  \* number of items enqueued so far
    last       \* the newest item taken out, by Pop, TryPop or Clear

vars == <<m_queue, waiting, call, accepted, last>>

Init ==
    /\ m_queue = <<>>
    /\ waiting = {}
    /\ call = [t \in Threads |-> "none"]
    /\ accepted = 0
    /\ last = 0

(***************************************************************************)
(* m_cond.  A notification wakes any one of the waiting threads, producer  *)
(* or consumer alike.                                                      *)
(***************************************************************************)
NotifyOne ==
    IF waiting = {} THEN UNCHANGED waiting
                    ELSE \E w \in waiting : waiting' = waiting \ {w}

NotifyAll == waiting' = {}

Wait(t, name) ==
    /\ waiting' = waiting \union {t}
    /\ call' = [call EXCEPT ![t] = name]
    /\ UNCHANGED <<m_queue, accepted, last>>

Return(t) == call' = [call EXCEPT ![t] = "none"]

\* t is about to run the body of a call: it starts one, or was woken in one.
Running(t, name) == t \notin waiting /\ call[t] \in {"none", name}

----------------------------------------------------------------------------
Full == m_iQueueMaxSize # 0 /\ Len(m_queue) >= m_iQueueMaxSize

\* A mutant of Dequeue: items leave in the wrong order.
DequeueNewest ==
    /\ m_queue # <<>>
    /\ last' = m_queue[Len(m_queue)]
    /\ m_queue' = SubSeq(m_queue, 1, Len(m_queue) - 1)
    /\ IF m_iQueueMaxSize # 0 THEN NotifyOne ELSE UNCHANGED waiting
    /\ UNCHANGED accepted

\* A mutant of Dequeue: the producers are not told that there is room.
DequeueQuietly ==
    /\ m_queue # <<>>
    /\ last' = Head(m_queue)
    /\ m_queue' = Tail(m_queue)
    /\ UNCHANGED <<waiting, accepted>>

\* The front item leaves the queue; only a bounded queue notifies.
Dequeue ==
    /\ m_queue # <<>>
    /\ last' = Head(m_queue)
    /\ m_queue' = Tail(m_queue)
    /\ IF m_iQueueMaxSize # 0 THEN NotifyOne ELSE UNCHANGED waiting
    /\ UNCHANGED accepted

\* A mutant of Enqueue: nobody is told about the item.
EnqueueQuietly ==
    /\ accepted < MaxPush
    /\ m_queue' = Append(m_queue, accepted + 1)
    /\ accepted' = accepted + 1
    /\ UNCHANGED waiting
    /\ UNCHANGED last

Enqueue ==
    /\ accepted < MaxPush
    /\ m_queue' = Append(m_queue, accepted + 1)
    /\ accepted' = accepted + 1
    /\ NotifyOne
    /\ UNCHANGED last
----------------------------------------------------------------------------
Pop(t) ==
    /\ Running(t, "Pop")
    /\ \/ Dequeue /\ Return(t)
       \/ m_queue = <<>> /\ Wait(t, "Pop")

TryPop(t) ==
    /\ Running(t, "none")
    /\ Dequeue          \* on an empty queue it returns false and does nothing
    /\ UNCHANGED call

Push(t) ==
    /\ Running(t, "Push")
    /\ accepted < MaxPush
    /\ \/ ~Full /\ Enqueue /\ Return(t)
       \/ Full /\ Wait(t, "Push")

TryPush(t) ==
    /\ Running(t, "none")
    /\ ~Full            \* a full queue makes it return false
    /\ Enqueue
    /\ UNCHANGED call

Clear(t) ==
    /\ Running(t, "none")
    /\ m_queue' = <<>>
    /\ last' = IF m_queue = <<>> THEN last ELSE m_queue[Len(m_queue)]
    /\ NotifyAll
    /\ UNCHANGED <<call, accepted>>

\* std::condition_variable::wait may return without a notification.
SpuriousWakeup(t) ==
    /\ t \in waiting
    /\ waiting' = waiting \ {t}
    /\ UNCHANGED <<m_queue, call, accepted, last>>

Next ==
    \E t \in Threads :
        \/ "Pop" \in Calls[t] /\ Pop(t)
        \/ "TryPop" \in Calls[t] /\ TryPop(t)
        \/ "Push" \in Calls[t] /\ Push(t)
        \/ "TryPush" \in Calls[t] /\ TryPush(t)
        \/ "Clear" \in Calls[t] /\ Clear(t)
        \/ SpuriousWakeup(t)

Spec == Init /\ [][Next]_vars

\* A thread that calls Pop calls it for ever (a worker's loop), and a thread
\* woken inside Push gets the mutex sooner or later.
FairSpec ==
    /\ Spec
    /\ \A t \in Threads :
        /\ WF_vars("Pop" \in Calls[t] /\ Pop(t))
        /\ WF_vars(call[t] = "Push" /\ Push(t))
----------------------------------------------------------------------------
\* Types of the state; a thread sleeps only inside Pop or Push.
TypeOK ==
    /\ m_queue \in Seq(Nat)
    /\ waiting \subseteq Threads
    /\ call \in [Threads -> {"none", "Pop", "Push"}]
    /\ accepted \in Nat
    /\ last \in Nat
    /\ \A t \in waiting : call[t] # "none"

\* Notified (or spuriously woken) threads that have not yet re-tested the queue.
Woken == {t \in Threads : call[t] # "none" /\ t \notin waiting}

\* In an unbounded queue (every queue of the repository is one) no wakeup is
\* lost: while a consumer sleeps, there is a woken consumer for every item in
\* the queue, although TryPop, Clear and late callers of Pop take items that
\* others were woken for.
NoLostWakeup ==
    m_iQueueMaxSize = 0 /\ waiting # {} => Len(m_queue) <= Cardinality(Woken)

\* Items leave in the order they were accepted, none of them twice: what is
\* queued is newer than all that was taken, in order, without gaps.
FIFO ==
    /\ last + Len(m_queue) = accepted
    /\ \A i \in 1 .. Len(m_queue) : m_queue[i] = last + i

\* Every accepted item is taken out in the end, as long as consumers call Pop.
Delivered == \A i \in 1 .. MaxPush : accepted >= i ~> last >= i

\* A thread that is in a blocking call leaves it in the end.
CallReturns(t) == call[t] # "none" ~> call[t] = "none"

============================================================================
