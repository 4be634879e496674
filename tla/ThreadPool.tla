----------------------------- MODULE ThreadPool -----------------------------
(***************************************************************************)
(* ccsys::ThreadPool (src/src/ccsys/thread-pool.h): workers that loop over *)
(* a BlockingQueue of tasks, clients that add tasks and wait for them, and *)
(* the destructor.  A task is the item of the queue that carries it, so    *)
(* task i is the i-th task added; the empty tasks of the destructor follow *)
(* all others.                                                             *)
(*                                                                         *)
(* One action is one access to shared state: the queue (whose critical     *)
(* sections are BlockingQueue's), the counter m_iActiveWorkersCnt, the     *)
(* flag m_bStopping, m_mtxActiveWorkerCnt and its condition variable.      *)
(***************************************************************************)
EXTENDS Integers, Sequences, FiniteSets

CONSTANTS
    Workers,     \* m_vThreadps
    Clients,     \* threads that use the pool
    Owner,       \* the client that destroys it
    NoThread,
    EmptyTasks,  \* the tasks added without an action
    MaxTasks     \* bound: how many tasks the clients add

ASSUME PoolAssumption ==
    /\ IsFiniteSet(Workers) /\ IsFiniteSet(Clients)
    /\ Workers \intersect Clients = {}
    /\ Owner \in Clients
    /\ NoThread \notin Clients
    /\ MaxTasks \in Nat

VARIABLES
    m_queue, waiting, call, accepted, last,  \* m_bqTasks: see BlockingQueue
    pc,                   \* where each worker is in proc()
    task,                 \* the task it popped last (0: none)
    m_bStopping,
    m_iActiveWorkersCnt,
    done,                 \* tasks whose action has returned
    cpc,                  \* where each client is
    timed,                \* its wait is WaitAllUntilTimeAt, not WaitAll
    goal,                 \* tasks added before it called WaitAll
    mtx,                  \* holder of m_mtxActiveWorkerCnt
    sleepers,             \* clients blocked on m_cvActiveWorkerCnt
    stops                 \* empty tasks pushed by the destructor

Threads == Workers \union Clients

Q == INSTANCE BlockingQueue WITH
        Calls <- [t \in Threads |-> {"Pop", "Push"}],
        m_iQueueMaxSize <- 0,
        MaxPush <- MaxTasks + Cardinality(Workers)

queueVars == <<m_queue, waiting, call, accepted, last>>
workerVars == <<pc, task, m_iActiveWorkersCnt, done>>
clientVars == <<cpc, timed, goal, mtx, stops>>
vars == <<queueVars, workerVars, clientVars, m_bStopping, sleepers>>

Init ==
    /\ Q!Init
    /\ pc = [w \in Workers |-> "pop"]
    /\ task = [w \in Workers |-> 0]
    /\ m_bStopping = FALSE
    /\ m_iActiveWorkersCnt = 0
    /\ done = {}
    /\ cpc = [c \in Clients |-> "idle"]
    /\ timed = [c \in Clients |-> FALSE]
    /\ goal = [c \in Clients |-> 0]
    /\ mtx = NoThread
    /\ sleepers = {}
    /\ stops = 0

----------------------------------------------------------------------------
(* A worker: proc(). *)

Goto(w, label) == pc' = [pc EXCEPT ![w] = label]

\* A mutant of ProcPop: the task is copied but stays in the queue.
ProcPeek(w) ==
    /\ pc[w] = "pop"
    /\ m_queue # <<>>
    /\ Goto(w, "popped") /\ task' = [task EXCEPT ![w] = Head(m_queue)]
    /\ UNCHANGED <<queueVars, sleepers, m_iActiveWorkersCnt, done>>

ProcPop(w) ==
    /\ pc[w] = "pop"
    /\ Q!Pop(w)
    /\ IF m_queue = <<>>
         THEN UNCHANGED <<pc, task>>
         ELSE Goto(w, "popped") /\ task' = [task EXCEPT ![w] = Head(m_queue)]
    /\ UNCHANGED <<sleepers, m_iActiveWorkersCnt, done>>

ProcStopping(w) ==
    /\ pc[w] = "popped"
    /\ m_bStopping
    /\ Goto(w, "exit")
    /\ UNCHANGED <<queueVars, sleepers, task, m_iActiveWorkersCnt, done>>

\* A mutant of ProcStart: a worker runs what it popped even when stopping.
ProcStartStopping(w) ==
    /\ pc[w] = "popped"
    /\ Goto(w, "run") /\ m_iActiveWorkersCnt' = m_iActiveWorkersCnt + 1
    /\ UNCHANGED <<queueVars, sleepers, task, done>>

ProcStart(w) ==
    /\ pc[w] = "popped"
    /\ ~m_bStopping
    /\ IF task[w] \in EmptyTasks
         THEN Goto(w, "notify") /\ UNCHANGED m_iActiveWorkersCnt
         ELSE Goto(w, "run") /\ m_iActiveWorkersCnt' = m_iActiveWorkersCnt + 1
    /\ UNCHANGED <<queueVars, sleepers, task, done>>

ProcRun(w) ==
    /\ pc[w] = "run"
    /\ done' = done \union {task[w]}
    /\ Goto(w, "ran")
    /\ UNCHANGED <<queueVars, sleepers, task, m_iActiveWorkersCnt>>

ProcFinish(w) ==
    /\ pc[w] = "ran"
    /\ m_iActiveWorkersCnt' = m_iActiveWorkersCnt - 1
    /\ Goto(w, "notify")
    /\ UNCHANGED <<queueVars, sleepers, task, done>>

\* notify_one, without m_mtxActiveWorkerCnt.
ProcNotify(w) ==
    /\ pc[w] = "notify"
    /\ IF sleepers = {} THEN UNCHANGED sleepers
                        ELSE \E c \in sleepers : sleepers' = sleepers \ {c}
    /\ Goto(w, "pop")
    /\ UNCHANGED <<queueVars, task, m_iActiveWorkersCnt, done>>

Proc(w) ==
    /\ \/ ProcPop(w) \/ ProcStopping(w) \/ ProcStart(w)
       \/ ProcRun(w) \/ ProcFinish(w) \/ ProcNotify(w)
    /\ UNCHANGED <<clientVars, m_bStopping>>

----------------------------------------------------------------------------
(* The clients. *)

ClientGoto(c, label) == cpc' = [cpc EXCEPT ![c] = label]

\* A mutant of AddTask: the queue's consumers are not notified.
AddTaskQuietly(c) ==
    /\ cpc[c] = "idle"
    /\ ~m_bStopping
    /\ accepted < MaxTasks
    /\ Q!EnqueueQuietly /\ UNCHANGED call
    /\ UNCHANGED <<workerVars, clientVars, m_bStopping, sleepers>>

AddTask(c) ==
    /\ cpc[c] = "idle"
    /\ ~m_bStopping
    /\ accepted < MaxTasks
    /\ Q!Push(c)
    /\ UNCHANGED <<workerVars, clientVars, m_bStopping, sleepers>>

\* WaitAll (until = FALSE) or WaitAllUntilTimeAt is called.
WaitAll(c, until) ==
    /\ cpc[c] = "idle"
    /\ ~m_bStopping
    /\ ClientGoto(c, "lock")
    /\ timed' = [timed EXCEPT ![c] = until]
    /\ goal' = [goal EXCEPT ![c] = accepted]
    /\ UNCHANGED <<queueVars, workerVars, m_bStopping, sleepers, mtx, stops>>

WaitLock(c) ==
    /\ cpc[c] = "lock"
    /\ mtx = NoThread
    /\ mtx' = c
    /\ ClientGoto(c, "testEmpty")
    /\ UNCHANGED sleepers

WaitReturn(c) == ClientGoto(c, "idle") /\ mtx' = NoThread

\* A mutant of WaitTestEmpty: only the counter is tested.
WaitTestNothing(c) ==
    /\ cpc[c] = "testEmpty"
    /\ ClientGoto(c, "testActive")
    /\ UNCHANGED <<mtx, sleepers>>

\* m_bqTasks.Empty().  WaitAll goes on to the counter only if the queue is
\* empty, WaitAllUntilTimeAt only if it is not.
WaitTestEmpty(c) ==
    /\ cpc[c] = "testEmpty"
    /\ IF timed[c]
         THEN IF m_queue = <<>> THEN WaitReturn(c)
                                ELSE ClientGoto(c, "testActive") /\ UNCHANGED mtx
         ELSE /\ ClientGoto(c, IF m_queue = <<>> THEN "testActive" ELSE "sleep")
              /\ UNCHANGED mtx
    /\ UNCHANGED sleepers

WaitTestActive(c) ==
    /\ cpc[c] = "testActive"
    /\ IF m_iActiveWorkersCnt = 0
         THEN WaitReturn(c)
         ELSE ClientGoto(c, "sleep") /\ UNCHANGED mtx
    /\ UNCHANGED sleepers

\* wait / wait_until give the mutex up and block in one step.
WaitSleep(c) ==
    /\ cpc[c] = "sleep"
    /\ mtx' = NoThread
    /\ sleepers' = sleepers \union {c}
    /\ ClientGoto(c, "asleep")

\* WaitAll tests again; WaitAllUntilTimeAt has waited once and returns.
WaitWake(c) ==
    /\ cpc[c] = "asleep" /\ c \notin sleepers
    /\ mtx = NoThread
    /\ IF timed[c] THEN WaitReturn(c) ELSE ClientGoto(c, "testEmpty") /\ mtx' = c
    /\ UNCHANGED sleepers

WaitStep(c) ==
    /\ \/ WaitLock(c) \/ WaitTestEmpty(c) \/ WaitTestActive(c)
       \/ WaitSleep(c) \/ WaitWake(c)
    /\ UNCHANGED <<queueVars, workerVars, m_bStopping, timed, goal, stops>>

\* The time point passes; a client blocked in wait_until is released.
Timeout(c) ==
    /\ timed[c] /\ c \in sleepers
    /\ sleepers' = sleepers \ {c}
    /\ UNCHANGED <<queueVars, workerVars, clientVars, m_bStopping>>

SpuriousWakeup(c) ==
    /\ c \in sleepers
    /\ sleepers' = sleepers \ {c}
    /\ UNCHANGED <<queueVars, workerVars, clientVars, m_bStopping>>

----------------------------------------------------------------------------
(* ~ThreadPool(), called when no client is inside the pool. *)

Stop ==
    /\ \A c \in Clients : cpc[c] = "idle"
    /\ ~m_bStopping
    /\ m_bStopping' = TRUE
    /\ ClientGoto(Owner, "stopping")
    /\ UNCHANGED <<queueVars, workerVars, sleepers, timed, goal, mtx, stops>>

\* A mutant of StopPush: the sleeping workers are not notified.
StopPushQuietly ==
    /\ cpc[Owner] = "stopping"
    /\ stops < Cardinality(Workers)
    /\ Q!EnqueueQuietly /\ UNCHANGED call
    /\ stops' = stops + 1
    /\ UNCHANGED <<workerVars, m_bStopping, sleepers, cpc, timed, goal, mtx>>

StopPush ==
    /\ cpc[Owner] = "stopping"
    /\ stops < Cardinality(Workers)
    /\ Q!Push(Owner)
    /\ stops' = stops + 1
    /\ UNCHANGED <<workerVars, m_bStopping, sleepers, cpc, timed, goal, mtx>>

Join ==
    /\ cpc[Owner] = "stopping"
    /\ stops = Cardinality(Workers)
    /\ \A w \in Workers : pc[w] = "exit"
    /\ ClientGoto(Owner, "joined")
    /\ UNCHANGED <<queueVars, workerVars, m_bStopping, sleepers, timed, goal, mtx, stops>>

----------------------------------------------------------------------------
Next ==
    \/ \E w \in Workers : Proc(w)
    \/ \E c \in Clients :
        \/ AddTask(c)
        \/ \E until \in BOOLEAN : WaitAll(c, until)
        \/ WaitStep(c)
        \/ Timeout(c)
        \/ SpuriousWakeup(c)
    \/ Stop \/ StopPush \/ Join

Spec == Init /\ [][Next]_vars

\* Every thread is scheduled, every action of a task returns, and a mutex that
\* is free again and again is got in the end; nobody has to call anything.
FairSpec ==
    /\ Spec
    /\ \A w \in Workers : WF_vars(Proc(w))
    /\ \A c \in Clients : SF_vars(WaitStep(c)) /\ WF_vars(Timeout(c))
    /\ WF_vars(StopPush) /\ WF_vars(Join)
----------------------------------------------------------------------------
InAction == {w \in Workers : pc[w] \in {"run", "ran"}}
Holding == {w \in Workers : pc[w] \in {"popped", "run"}}
NeedPop == {w \in Workers : pc[w] \notin {"popped", "exit"}}

\* Types of the state; the counter never goes below zero.
TypeOK ==
    /\ Q!TypeOK
    /\ pc \in [Workers -> {"pop", "popped", "run", "ran", "notify", "exit"}]
    /\ task \in [Workers -> Nat]
    /\ m_bStopping \in BOOLEAN
    /\ m_iActiveWorkersCnt \in Nat
    /\ done \subseteq Nat
    /\ cpc \in [Clients -> {"idle", "lock", "testEmpty", "testActive", "sleep",
                            "asleep", "stopping", "joined"}]
    /\ timed \in [Clients -> BOOLEAN]
    /\ goal \in [Clients -> Nat]
    /\ mtx \in Clients \union {NoThread}
    /\ sleepers \subseteq Clients
    /\ stops \in 0 .. Cardinality(Workers)

\* The pool uses its queue as BlockingQueue allows: the workers and clients
\* together are one behaviour of the unbounded queue, so that what is proved
\* of the queue (no lost wakeup, FIFO) holds inside the pool.
QueueSpec == Q!Spec

\* The counter that WaitAll reads is the number of workers inside a task, in
\* every interleaving of increments and decrements.
ActiveExact == m_iActiveWorkersCnt = Cardinality(InAction)

\* No task is run twice or by two workers: what workers hold is distinct, was
\* taken from the queue, and has not been done.
RunOnce ==
    \A w \in Holding :
        /\ task[w] \notin done
        /\ task[w] \in 1 .. last
        /\ \A v \in Holding : task[v] = task[w] => v = w

\* Once the destructor has begun, the empty tasks it pushed and has yet to push
\* suffice for every worker that must still pop one in order to leave its loop:
\* join never waits for a worker blocked on an empty queue (thread-pool.h:74).
StopSuffices ==
    m_bStopping =>
        Cardinality(NeedPop) <= Len(m_queue) + (Cardinality(Workers) - stops)

Returns(c) == cpc[c] \notin {"idle", "stopping"} /\ cpc'[c] = "idle"

\* What WaitAll does guarantee: when it returns, every task added before the
\* call has been taken off the queue by a worker.
WaitAllTaken == [][\A c \in Clients : Returns(c) /\ ~timed[c] => goal[c] <= last]_vars

\* What WaitAll promises, thread-pool.h:105: when it returns, every task added
\* before the call is complete.
WaitAllComplete ==
    [][\A c \in Clients :
        Returns(c) /\ ~timed[c] => (1 .. goal[c]) \ EmptyTasks \subseteq done]_vars

\* Every task is run in the end, unless the pool is destroyed first.
TasksRun ==
    \A i \in (1 .. MaxTasks) \ EmptyTasks :
        accepted >= i ~> (i \in done \/ m_bStopping)

\* The destructor terminates: it joins every worker.
DestructorJoins == m_bStopping ~> cpc[Owner] = "joined"

=============================================================================
