--------------------------- MODULE ThreadingProofs --------------------------
(***************************************************************************)
(* Proofs about ThreadPool, for any number of workers, clients and tasks,  *)
(* and about the scoped locks, for any number of threads.                  *)
(*                                                                         *)
(* The pool is shown to implement its queue's specification, whose         *)
(* inductive invariant here is QueueInv. The pool's own is IInv; the part  *)
(* about tasks, TaskInv, and the part about WaitAll, WaitInv, rest on the  *)
(* queue's FIFO.                                                           *)
(***************************************************************************)
EXTENDS ThreadPool, ScopedLocks, FiniteSetTheorems, TLAPS

\* The number of workers is a natural number.
LEMMA WorkersFinite ==
    IsFiniteSet(Workers) /\ Cardinality(Workers) \in Nat
  BY Zenon, PoolAssumption, FS_CardinalityType

\* The pool's use of the queue meets the queue's assumption.
LEMMA QueueAssumptionHolds ==
    /\ IsFiniteSet(Threads)
    /\ [t \in Threads |-> {"Pop", "Push"}]
         \in [Threads -> SUBSET {"Pop", "TryPop", "Push", "TryPush", "Clear"}]
    /\ 0 \in Nat
    /\ MaxTasks + Cardinality(Workers) \in Nat
<1>1. IsFiniteSet(Threads)
  BY Zenon, PoolAssumption, FS_Union DEF Threads
<1> QED BY <1>1, PoolAssumption, WorkersFinite

\* Every step of the pool is a step of the queue or leaves the queue alone.
LEMMA QueueStep == [Next]_vars => [Q!Next]_(Q!vars)
<1> SUFFICES ASSUME [Next]_vars PROVE [Q!Next]_(Q!vars)
  BY Zenon
<1>1. ASSUME NEW t \in Threads, Q!Pop(t) \/ Q!Push(t) PROVE Q!Next
  BY Zenon, <1>1 DEF Q!Next
<1>2. ASSUME NEW w \in Workers, Proc(w) PROVE [Q!Next]_(Q!vars)
  <2>1. CASE ProcPop(w)
    BY Zenon, <1>1, <2>1 DEF ProcPop, Threads
  <2> QED BY Zenon, <1>2, <2>1 DEF Proc, ProcStopping, ProcStart, ProcRun, ProcFinish,
                            ProcNotify, queueVars, Q!vars
<1>3. ASSUME NEW c \in Clients, AddTask(c) PROVE Q!Next
  BY Zenon, <1>1, <1>3 DEF AddTask, Threads
<1>4. CASE StopPush
  BY Zenon, <1>1, <1>4, PoolAssumption DEF StopPush, Threads
<1>5. CASE UNCHANGED queueVars
  BY Zenon, <1>5 DEF queueVars, Q!vars
<1> QED BY Zenon, <1>2, <1>3, <1>4, <1>5
        DEF Next, vars, WaitAll, WaitStep, Timeout, SpuriousWakeup, Stop, Join

\* The pool implements the specification of an unbounded BlockingQueue.
THEOREM PoolImplementsQueue == Spec => QueueSpec
<1>1. Init => Q!Init
  BY Zenon DEF Init
<1> QED BY <1>1, QueueStep, PTL DEF Spec, QueueSpec, Q!Spec

----------------------------------------------------------------------------
(* The queue inside the pool: without a limit, only popped and pushed. *)

\* Nobody blocks in Push, so that a woken thread is one that takes an item.
QueueInv ==
    /\ Q!TypeOK /\ Q!FIFO /\ Q!NoLostWakeup
    /\ \A t \in Threads : call[t] # "Push"

\* A turn of t: an item is taken, awaited or added, or t wakes up.
QueueTurn(t) ==
    \/ /\ t \notin waiting /\ m_queue # <<>> /\ m_queue' = Tail(m_queue) /\ last' = Head(m_queue)
       /\ call' = [call EXCEPT ![t] = "none"]
       /\ waiting' = waiting /\ accepted' = accepted
    \/ /\ m_queue = <<>> /\ waiting' = waiting \union {t}
       /\ call' = [call EXCEPT ![t] = "Pop"]
       /\ m_queue' = m_queue /\ accepted' = accepted /\ last' = last
    \/ /\ m_queue' = Append(m_queue, accepted + 1) /\ accepted' = accepted + 1
       /\ Q!NotifyOne /\ last' = last /\ call' = call
    \/ /\ t \in waiting /\ waiting' = waiting \ {t} /\ call' = call
       /\ m_queue' = m_queue /\ accepted' = accepted /\ last' = last

\* What the steps of the queue are here.
LEMMA QueueSteps ==
  ASSUME QueueInv, Q!Next
  PROVE  \E t \in Threads : QueueTurn(t)
<1>1. PICK t \in Threads : Q!Pop(t) \/ Q!Push(t) \/ Q!SpuriousWakeup(t)
  BY Zenon DEF Q!Next
<1>2. CASE Q!Pop(t)
  BY Zenon, <1>1, <1>2 DEF QueueTurn, Q!Running, Q!Pop, Q!Dequeue, Q!Return, Q!Wait
<1>3. CASE Q!Push(t)
  <2>1. Q!Enqueue /\ Q!Return(t) /\ call[t] = "none"
    BY Zenon, <1>1, <1>3 DEF QueueInv, Q!Push, Q!Full, Q!Running
  <2>2. call' = call
    BY Zenon, <1>1, <2>1 DEF QueueInv, Q!TypeOK, Q!Return
  <2> QED BY Zenon, <1>1, <2>1, <2>2 DEF QueueTurn, Q!Enqueue
<1>4. CASE Q!SpuriousWakeup(t)
  BY Zenon, <1>1, <1>4 DEF QueueTurn, Q!SpuriousWakeup
<1> QED BY Zenon, <1>1, <1>2, <1>3, <1>4

\* Notified threads are counted.
LEMMA QueueWoken ==
    /\ \A S \in SUBSET Threads : IsFiniteSet(S) /\ Cardinality(S) \in Nat
    /\ \A S : Q!Cardinality(S) = Cardinality(S)
<1>1. IsFiniteSet(Threads)
  BY Zenon, QueueAssumptionHolds
<1>2. \A S \in SUBSET Threads : IsFiniteSet(S) /\ Cardinality(S) \in Nat
  BY Zenon, <1>1, FS_Subset, FS_CardinalityType
<1>3. \A S : Q!Cardinality(S) = Cardinality(S)
  BY Zenon DEF Q!Cardinality, Cardinality
<1> QED BY Zenon, <1>2, <1>3

\* The queue's state keeps its shape and its order.
LEMMA QueueShape ==
  ASSUME QueueInv, Q!Next
  PROVE  Q!TypeOK' /\ Q!FIFO' /\ \A t \in Threads : call'[t] # "Push"
<1>0. /\ m_queue \in Seq(Nat) /\ accepted \in Nat /\ last \in Nat
      /\ waiting \subseteq Threads /\ call \in [Threads -> {"none", "Pop", "Push"}]
      /\ \A t \in waiting : call[t] # "none"
      /\ \A t \in Threads : call[t] # "Push"
      /\ last + Len(m_queue) = accepted
      /\ \A i \in 1 .. Len(m_queue) : m_queue[i] = last + i
  BY Zenon DEF QueueInv, Q!TypeOK, Q!FIFO
<1>1. PICK t \in Threads : QueueTurn(t)
  BY Zenon, QueueSteps
<1>2. waiting' \subseteq Threads /\ \A u \in waiting' : call'[u] # "none"
  BY Zenon, <1>0, <1>1 DEF QueueTurn, Q!NotifyOne
<1>3. call' \in [Threads -> {"none", "Pop", "Push"}] /\ \A u \in Threads : call'[u] # "Push"
  BY Zenon, <1>0, <1>1 DEF QueueTurn
<1> DEFINE Ordered == /\ m_queue \in Seq(Nat) /\ accepted \in Nat /\ last \in Nat
                      /\ last + Len(m_queue) = accepted
                      /\ \A i \in 1 .. Len(m_queue) : m_queue[i] = last + i
<1>4. ASSUME m_queue # <<>>, m_queue' = Tail(m_queue), last' = Head(m_queue), accepted' = accepted
      PROVE  Ordered'
  <2>1. /\ m_queue' \in Seq(Nat) /\ Len(m_queue) \in Nat \ {0} /\ Len(m_queue') = Len(m_queue) - 1
        /\ \A i \in 1 .. Len(m_queue') : m_queue'[i] = m_queue[i + 1]
        /\ last' = m_queue[1]
    BY <1>0, <1>4
  <2>2. last' = last + 1
    BY <1>0, <2>1
  <2>3. ASSUME NEW i \in 1 .. Len(m_queue') PROVE m_queue'[i] = last' + i
    BY <1>0, <2>1, <2>2
  <2> QED BY <1>0, <1>4, <2>1, <2>2, <2>3
<1>5. ASSUME m_queue' = Append(m_queue, accepted + 1), accepted' = accepted + 1, last' = last
      PROVE  Ordered'
  BY <1>0, <1>5
<1>6. Ordered'
  BY Zenon, <1>0, <1>1, <1>4, <1>5 DEF QueueTurn
<1> QED BY Zenon, <1>2, <1>3, <1>6 DEF Q!TypeOK, Q!FIFO

\* While a worker sleeps, the woken ones suffice for the tasks.
LEMMA QueueWakes ==
  ASSUME QueueInv, Q!Next
  PROVE  Q!NoLostWakeup'
<1> DEFINE W == Q!Woken
<1> SUFFICES ASSUME waiting' # {} PROVE Len(m_queue') <= Cardinality(W')
  BY Zenon, QueueWoken DEF Q!NoLostWakeup
<1>0. /\ m_queue \in Seq(Nat) /\ waiting \subseteq Threads
      /\ call \in [Threads -> {"none", "Pop", "Push"}] /\ \A t \in waiting : call[t] # "none"
      /\ waiting # {} => Len(m_queue) <= Cardinality(W)
  BY Zenon, QueueWoken DEF QueueInv, Q!TypeOK, Q!NoLostWakeup
<1>1. IsFiniteSet(W) /\ Cardinality(W) \in Nat /\ Cardinality(W') \in Nat
  BY Zenon, QueueWoken DEF Q!Woken
<1>2. PICK t \in Threads : QueueTurn(t)
  BY Zenon, QueueSteps
<1>3. CASE m_queue # <<>> /\ m_queue' = Tail(m_queue) /\ waiting' = waiting
           /\ call' = [call EXCEPT ![t] = "none"]
  <2>1. W' = W \ {t}
    BY Zenon, <1>0, <1>3 DEF Q!Woken
  <2>2. Cardinality(W \ {t}) = IF t \in W THEN Cardinality(W) - 1 ELSE Cardinality(W)
    BY Zenon, <1>1, FS_RemoveElement
  <2>3. Len(m_queue') = Len(m_queue) - 1 /\ Len(m_queue) \in Nat
    BY <1>0, <1>3
  <2> HIDE DEF W
  <2> QED BY <1>0, <1>1, <1>3, <2>1, <2>2, <2>3
<1>4. CASE m_queue' = <<>>
  <2> HIDE DEF W
  <2> QED BY <1>1, <1>4
<1>5. ASSUME NEW w \in waiting, waiting' = waiting \ {w}, call' = call
      PROVE  Cardinality(W') = Cardinality(W) + 1
  <2>1. W' = W \union {w} /\ w \notin W
    BY Zenon, <1>0, <1>5 DEF Q!Woken
  <2> QED BY Zenon, <1>1, <2>1, FS_AddElement
<1>6. CASE m_queue' = Append(m_queue, accepted + 1) /\ Q!NotifyOne /\ call' = call
  <2>1. PICK w \in waiting : waiting' = waiting \ {w}
    BY Zenon, <1>6 DEF Q!NotifyOne
  <2>2. Cardinality(W') = Cardinality(W) + 1 /\ waiting # {}
    BY Zenon, <1>5, <1>6, <2>1
  <2>3. Len(m_queue') = Len(m_queue) + 1 /\ Len(m_queue) \in Nat
    BY <1>0, <1>6
  <2> HIDE DEF W
  <2> QED BY <1>0, <1>1, <2>2, <2>3
<1>7. CASE t \in waiting /\ waiting' = waiting \ {t} /\ call' = call /\ m_queue' = m_queue
  <2>1. Cardinality(W') = Cardinality(W) + 1 /\ waiting # {}
    BY Zenon, <1>5, <1>7
  <2>2. Len(m_queue) \in Nat
    BY <1>0
  <2> HIDE DEF W
  <2> QED BY <1>0, <1>1, <1>7, <2>1, <2>2
<1> QED BY Zenon, <1>2, <1>3, <1>4, <1>6, <1>7 DEF QueueTurn

\* Inside the pool no wakeup is lost, items are FIFO, and the queue is typed.
THEOREM PoolQueueSafe == Spec => [](Q!TypeOK /\ Q!FIFO /\ Q!NoLostWakeup)
<1>1. Q!Init => QueueInv
  <2> SUFFICES ASSUME Q!Init PROVE QueueInv
    BY Zenon
  <2>1. Q!TypeOK /\ Q!FIFO /\ \A t \in Threads : call[t] # "Push"
    BY DEF Q!Init, Q!TypeOK, Q!FIFO
  <2> QED BY Zenon, <2>1 DEF Q!Init, QueueInv, Q!NoLostWakeup
<1>2. QueueInv /\ [Q!Next]_(Q!vars) => QueueInv'
  <2>1. CASE UNCHANGED Q!vars
    BY Zenon, <2>1 DEF Q!vars, QueueInv, Q!TypeOK, Q!FIFO, Q!NoLostWakeup, Q!Woken
  <2> QED BY Zenon, <2>1, QueueShape, QueueWakes DEF QueueInv
<1> QED BY <1>1, <1>2, PoolImplementsQueue, PTL DEF QueueSpec, Q!Spec, QueueInv

----------------------------------------------------------------------------
(* The pool's own invariant. *)

OwnTypes ==
    /\ pc \in [Workers -> {"pop", "popped", "run", "ran", "notify", "exit"}]
    /\ task \in [Workers -> Nat]
    /\ m_bStopping \in BOOLEAN
    /\ m_iActiveWorkersCnt \in Nat
    /\ done \subseteq Nat
    /\ cpc \in [Clients -> {"idle", "lock", "testEmpty", "testActive", "sleep",
                            "asleep", "stopping", "joined"}]
    /\ timed \in [Clients -> BOOLEAN]
    /\ goal \in [Clients -> Nat]
    /\ mtx \in Clients \union {NoThread}
    /\ sleepers \subseteq Clients
    /\ stops \in 0 .. Cardinality(Workers)

\* The destructor's phases: no empty task is pushed before it begins.
StopPhase == ~m_bStopping => stops = 0 /\ cpc[Owner] # "stopping"

IInv == OwnTypes /\ ActiveExact /\ StopPhase /\ StopSuffices

\* Sets of workers are finite.
LEMMA WorkerSets ==
    /\ IsFiniteSet(InAction) /\ Cardinality(InAction) \in Nat
    /\ IsFiniteSet(NeedPop) /\ Cardinality(NeedPop) \in Nat
    /\ Cardinality(NeedPop) <= Cardinality(Workers)
  BY Zenon, WorkersFinite, FS_Subset, FS_CardinalityType DEF InAction, NeedPop

\* A worker's step keeps the counter exact and the destructor's promise.
LEMMA ProcKeeps ==
  ASSUME NEW w \in Workers, Proc(w), IInv, Q!TypeOK, Q!TypeOK'
  PROVE  IInv'
<1> USE WorkersFinite DEF IInv
<1>0. /\ IsFiniteSet(InAction) /\ Cardinality(InAction) \in Nat
      /\ IsFiniteSet(NeedPop) /\ Cardinality(NeedPop) \in Nat
  BY Zenon, WorkerSets
<1>1. /\ cpc' = cpc /\ timed' = timed /\ goal' = goal
      /\ mtx' = mtx /\ stops' = stops /\ m_bStopping' = m_bStopping
  BY Zenon DEF Proc, clientVars
<1>2. StopPhase'
  BY Zenon, <1>1 DEF StopPhase
<1>3. CASE ProcPop(w)
  <2>1. CASE m_queue = <<>>
    <3>1. m_queue' = m_queue
      BY Zenon, <1>3, <2>1 DEF ProcPop, Q!Pop, Q!Dequeue, Q!Wait
    <3>2. pc' = pc /\ task' = task /\ sleepers' = sleepers
          /\ m_iActiveWorkersCnt' = m_iActiveWorkersCnt /\ done' = done
      BY Zenon, <1>3, <2>1 DEF ProcPop
    <3> QED BY Zenon, <1>1, <1>2, <3>1, <3>2
            DEF OwnTypes, ActiveExact, StopSuffices, InAction, NeedPop
  <2>2. CASE m_queue # <<>>
    <3>1. /\ pc' = [pc EXCEPT ![w] = "popped"]
          /\ task' = [task EXCEPT ![w] = Head(m_queue)]
          /\ m_queue' = Tail(m_queue) /\ pc[w] = "pop" /\ sleepers' = sleepers
          /\ m_iActiveWorkersCnt' = m_iActiveWorkersCnt /\ done' = done
      BY Zenon, <1>3, <2>2 DEF ProcPop, Goto, Q!Pop, Q!Dequeue
    <3>2. Head(m_queue) \in Nat /\ Len(m_queue') = Len(m_queue) - 1 /\ Len(m_queue) \in Nat
      BY <2>2, <3>1 DEF Q!TypeOK
    <3>3. OwnTypes'
      BY Zenon, <1>1, <3>1, <3>2 DEF OwnTypes
    <3>4. InAction' = InAction
      BY Zenon, <3>1 DEF InAction, OwnTypes
    <3>5. NeedPop' = NeedPop \ {w} /\ w \in NeedPop
      BY Zenon, <3>1 DEF NeedPop, OwnTypes
    <3>6. Cardinality(NeedPop') = Cardinality(NeedPop) - 1
      BY Zenon, <1>0, <3>5, FS_RemoveElement
    <3>7. StopSuffices'
      BY <1>0, <1>1, <3>2, <3>6 DEF StopSuffices, OwnTypes
    <3> QED BY Zenon, <1>2, <3>1, <3>3, <3>4, <3>7 DEF ActiveExact
  <2> QED BY Zenon, <2>1, <2>2
<1>4. CASE ~ProcPop(w)
  <2>1. m_queue' = m_queue /\ task' = task
    BY Zenon, <1>4 DEF Proc, ProcStopping, ProcStart, ProcRun, ProcFinish, ProcNotify, queueVars
  <2>2. StopSuffices'
    <3>1. m_bStopping => NeedPop' = NeedPop
      BY Zenon, <1>4 DEF Proc, ProcStopping, ProcStart, ProcRun, ProcFinish, ProcNotify,
                  Goto, NeedPop, OwnTypes
    <3> QED BY Zenon, <1>1, <2>1, <3>1 DEF StopSuffices
  <2>3. CASE ProcStart(w) /\ task[w] \notin EmptyTasks
    <3>1. /\ InAction' = InAction \union {w} /\ w \notin InAction
          /\ m_iActiveWorkersCnt' = m_iActiveWorkersCnt + 1
          /\ done' = done /\ sleepers' = sleepers /\ pc' = [pc EXCEPT ![w] = "run"]
      BY Zenon, <2>3 DEF ProcStart, Goto, InAction, OwnTypes
    <3>2. Cardinality(InAction') = Cardinality(InAction) + 1
      BY Zenon, <1>0, <3>1, FS_AddElement
    <3>3. OwnTypes'
      BY <1>1, <2>1, <3>1 DEF OwnTypes
    <3> QED BY Zenon, <1>2, <2>2, <3>1, <3>2, <3>3 DEF ActiveExact
  <2>4. CASE ProcFinish(w)
    <3>1. /\ InAction' = InAction \ {w} /\ w \in InAction
          /\ m_iActiveWorkersCnt' = m_iActiveWorkersCnt - 1
          /\ done' = done /\ sleepers' = sleepers /\ pc' = [pc EXCEPT ![w] = "notify"]
      BY Zenon, <2>4 DEF ProcFinish, Goto, InAction, OwnTypes
    <3>2. Cardinality(InAction') = Cardinality(InAction) - 1
      BY Zenon, <1>0, <3>1, FS_RemoveElement
    <3>3. Cardinality(InAction') \in Nat
      <4>1. IsFiniteSet(InAction') BY Zenon, <1>0, <3>1, FS_RemoveElement
      <4> QED BY Zenon, <4>1, FS_CardinalityType
    <3>4. ActiveExact' /\ m_iActiveWorkersCnt' \in Nat
      BY Zenon, <1>0, <3>1, <3>2, <3>3 DEF ActiveExact
    <3>5. OwnTypes'
      BY Zenon, <1>1, <2>1, <3>1, <3>4 DEF OwnTypes
    <3> QED BY Zenon, <1>2, <2>2, <3>4, <3>5
  <2>5. CASE ProcStopping(w) \/ ProcRun(w) \/ ProcNotify(w)
             \/ (ProcStart(w) /\ task[w] \in EmptyTasks)
    <3>1. InAction' = InAction /\ m_iActiveWorkersCnt' = m_iActiveWorkersCnt
      BY Zenon, <2>5 DEF ProcStopping, ProcRun, ProcNotify, ProcStart, Goto, InAction, OwnTypes
    <3>2. OwnTypes'
      BY ZenonT(60), <1>1, <2>1, <2>5, <3>1
         DEF ProcStopping, ProcRun, ProcNotify, ProcStart, Goto, OwnTypes
    <3> QED BY Zenon, <1>2, <2>2, <3>1, <3>2 DEF ActiveExact
  <2> QED BY Zenon, <1>4, <2>3, <2>4, <2>5 DEF Proc
<1> QED BY Zenon, <1>3, <1>4

\* A client's step, or the destructor's, keeps the invariant too.
LEMMA ClientKeeps ==
  ASSUME IInv, Q!TypeOK, Q!TypeOK',
         \/ \E c \in Clients : \/ AddTask(c)
                               \/ \E until \in BOOLEAN : WaitAll(c, until)
                               \/ WaitStep(c) \/ Timeout(c) \/ SpuriousWakeup(c)
         \/ Stop \/ StopPush \/ Join
  PROVE  IInv'
<1> USE WorkersFinite, PoolAssumption DEF IInv
<1>0. /\ pc' = pc /\ task' = task /\ done' = done
      /\ m_iActiveWorkersCnt' = m_iActiveWorkersCnt
  BY Zenon DEF AddTask, WaitAll, WaitStep, Timeout, SpuriousWakeup, Stop, StopPush, Join,
         workerVars
<1>1. InAction' = InAction /\ NeedPop' = NeedPop
  BY Zenon, <1>0 DEF InAction, NeedPop
<1>2. ActiveExact'
  BY Zenon, <1>0, <1>1 DEF ActiveExact
<1>3. ASSUME NEW c \in Clients, AddTask(c) PROVE IInv'
  <2>1. ~m_bStopping /\ ~m_bStopping'
    BY Zenon, <1>3 DEF AddTask
  <2> QED BY Zenon, <1>0, <1>2, <1>3, <2>1
          DEF AddTask, OwnTypes, StopPhase, StopSuffices, clientVars
<1>4. ASSUME NEW c \in Clients, NEW until \in BOOLEAN, WaitAll(c, until) PROVE IInv'
  <2>1. ~m_bStopping /\ ~m_bStopping'
    BY Zenon, <1>4 DEF WaitAll
  <2>2. /\ cpc' = [cpc EXCEPT ![c] = "lock"] /\ timed' = [timed EXCEPT ![c] = until]
        /\ goal' = [goal EXCEPT ![c] = accepted] /\ accepted \in Nat
        /\ sleepers' = sleepers /\ mtx' = mtx /\ stops' = stops
        /\ m_bStopping' = m_bStopping
    BY Zenon, <1>4 DEF WaitAll, ClientGoto, Q!TypeOK
  <2>3. OwnTypes'
    <3>1. timed' \in [Clients -> BOOLEAN]
      BY Zenon, <2>2, Zenon DEF OwnTypes
    <3>2. cpc' \in [Clients -> {"idle", "lock", "testEmpty", "testActive", "sleep",
                                "asleep", "stopping", "joined"}]
      BY Zenon, <2>2 DEF OwnTypes
    <3>3. goal' \in [Clients -> Nat]
      BY Zenon, <2>2 DEF OwnTypes
    <3> QED BY Zenon, <1>0, <2>1, <2>2, <3>1, <3>2, <3>3, Zenon DEF OwnTypes
  <2>4. StopPhase' /\ StopSuffices'
    BY Zenon, <2>1, <2>2 DEF OwnTypes, StopPhase, StopSuffices
  <2> QED BY Zenon, <1>2, <2>3, <2>4
<1>5. ASSUME NEW c \in Clients, WaitStep(c) PROVE IInv'
  <2>1. /\ m_bStopping' = m_bStopping /\ stops' = stops /\ m_queue' = m_queue
        /\ timed' = timed /\ goal' = goal
    BY Zenon, <1>5 DEF WaitStep, queueVars
  <2>2. PICK label \in {"idle", "testEmpty", "testActive", "sleep", "asleep"} :
            cpc' = [cpc EXCEPT ![c] = label]
    BY Zenon, <1>5 DEF WaitStep, WaitLock, WaitTestEmpty, WaitTestActive, WaitSleep, WaitWake,
                WaitReturn, ClientGoto
  <2>3. mtx' \in {c, mtx, NoThread} /\ sleepers' \in {sleepers, sleepers \union {c}}
    BY Zenon, <1>5 DEF WaitStep, WaitLock, WaitTestEmpty, WaitTestActive, WaitSleep, WaitWake,
                WaitReturn
  <2>4. OwnTypes'
    BY Zenon, <1>0, <2>1, <2>2, <2>3 DEF OwnTypes
  <2>5. StopPhase'
    BY Zenon, <2>1, <2>2 DEF StopPhase, OwnTypes
  <2> QED BY Zenon, <1>1, <1>2, <2>1, <2>4, <2>5 DEF StopSuffices
<1>6. ASSUME NEW c \in Clients, Timeout(c) \/ SpuriousWakeup(c) PROVE IInv'
  <2>1. /\ m_bStopping' = m_bStopping /\ stops' = stops /\ m_queue' = m_queue
        /\ cpc' = cpc
    BY Zenon, <1>6 DEF Timeout, SpuriousWakeup, queueVars, clientVars
  <2>2. OwnTypes'
    BY Zenon, <1>0, <1>6, <2>1 DEF Timeout, SpuriousWakeup, clientVars, OwnTypes
  <2> QED BY Zenon, <1>1, <1>2, <2>1, <2>2 DEF StopSuffices, StopPhase
<1>7. CASE Stop
  <2>1. /\ stops' = 0 /\ Len(m_queue') \in Nat /\ m_bStopping'
    BY <1>7 DEF Stop, StopPhase, queueVars, Q!TypeOK
  <2>2. StopSuffices'
    BY <1>1, <2>1, WorkerSets DEF StopSuffices
  <2> QED BY Zenon, <1>0, <1>2, <1>7, <2>1, <2>2 DEF Stop, ClientGoto, OwnTypes, StopPhase
<1>8. CASE StopPush
  <2>1. /\ stops' = stops + 1 /\ m_queue' = Append(m_queue, accepted + 1)
        /\ m_bStopping' = m_bStopping /\ m_bStopping
        /\ stops < Cardinality(Workers)
        /\ cpc' = cpc /\ sleepers' = sleepers /\ timed' = timed
        /\ goal' = goal /\ mtx' = mtx
    BY Zenon, <1>8 DEF StopPush, StopPhase, OwnTypes, Q!Push, Q!Full, Q!Enqueue
  <2>2. Len(m_queue') = Len(m_queue) + 1 /\ Len(m_queue) \in Nat
    BY <2>1 DEF Q!TypeOK
  <2>3. StopSuffices'
    BY <1>1, <2>1, <2>2, WorkerSets DEF StopSuffices, OwnTypes
  <2>4. OwnTypes'
    BY <1>0, <2>1 DEF OwnTypes
  <2> QED BY Zenon, <1>2, <2>1, <2>3, <2>4 DEF StopPhase
<1>9. CASE Join
  <2>1. m_bStopping' /\ m_bStopping
    BY Zenon, <1>9 DEF Join, StopPhase, OwnTypes
  <2> QED BY Zenon, <1>0, <1>1, <1>2, <1>9, <2>1
          DEF Join, ClientGoto, OwnTypes, StopPhase, StopSuffices, queueVars
<1> QED BY Zenon, <1>3, <1>4, <1>5, <1>6, <1>7, <1>8, <1>9

\* At first nobody runs, waits or stops.
LEMMA InitIInv == Init => IInv
<1> SUFFICES ASSUME Init PROVE IInv
  BY Zenon
<1>1. InAction = {}
  BY Zenon DEF Init, InAction
<1>2. Cardinality(InAction) = 0
  BY Zenon, <1>1, FS_EmptySet
<1>3. OwnTypes
  <2>1. m_bStopping \in BOOLEAN /\ timed \in [Clients -> BOOLEAN]
    BY Zenon DEF Init
  <2>2. stops \in 0 .. Cardinality(Workers) /\ m_iActiveWorkersCnt \in Nat
    BY WorkersFinite DEF Init
  <2>3. task \in [Workers -> Nat] /\ goal \in [Clients -> Nat]
    BY Zenon DEF Init
  <2> QED BY Zenon, <2>1, <2>2, <2>3, Zenon DEF Init, OwnTypes
<1>4. ActiveExact
  BY Zenon, <1>2 DEF Init, ActiveExact
<1>5. StopPhase /\ StopSuffices
  BY Zenon, PoolAssumption DEF Init, StopPhase, StopSuffices
<1> QED BY Zenon, <1>3, <1>4, <1>5 DEF IInv

\* Every step keeps the pool's invariant.
LEMMA NextIInv == IInv /\ Q!TypeOK /\ Q!TypeOK' /\ [Next]_vars => IInv'
<1> SUFFICES ASSUME IInv, Q!TypeOK, Q!TypeOK', [Next]_vars PROVE IInv'
  BY Zenon
<1>1. CASE UNCHANGED vars
  BY Zenon, <1>1 DEF vars, queueVars, workerVars, clientVars, IInv, OwnTypes, ActiveExact,
              StopPhase, StopSuffices, InAction, NeedPop
<1> QED BY Zenon, <1>1, ProcKeeps, ClientKeeps DEF Next

----------------------------------------------------------------------------
(* Tasks and WaitAll: what follows from the queue being FIFO. *)

\* Everything done was taken; nothing is held by two workers.
TaskInv == RunOnce /\ done \subseteq 1 .. last

\* A waiting client's tasks have been added, and once it has seen the queue
\* empty they have all been taken.
WaitInv ==
    \A c \in Clients :
        /\ goal[c] <= accepted
        /\ cpc[c] = "testActive" /\ ~timed[c] => goal[c] <= last

\* A step of the queue takes items in order and forgets none.
LEMMA QueueMoves ==
  ASSUME Q!TypeOK, Q!FIFO, [Next]_vars
  PROVE  /\ last \in Nat /\ accepted \in Nat /\ last <= accepted
         /\ last' \in Nat /\ accepted' \in Nat
         /\ last <= last' /\ accepted <= accepted'
<1>0. [Q!Next]_(Q!vars)
  BY Zenon, QueueStep
<1>1. /\ m_queue \in Seq(Nat) /\ last \in Nat /\ accepted \in Nat
      /\ last + Len(m_queue) = accepted /\ Len(m_queue) \in Nat
      /\ \A i \in 1 .. Len(m_queue) : m_queue[i] = last + i
  BY DEF Q!TypeOK, Q!FIFO
<1>2. m_queue # <<>> =>
        /\ Head(m_queue) = last + 1
        /\ m_queue[Len(m_queue)] = accepted
  BY <1>1
<1>3. CASE Q!Dequeue
  BY <1>1, <1>2, <1>3 DEF Q!Dequeue
<1>4. CASE Q!Enqueue
  BY <1>1, <1>4 DEF Q!Enqueue
<1>5. ASSUME NEW t \in Threads, Q!Clear(t)
      PROVE  /\ last' \in Nat /\ accepted' \in Nat
             /\ last <= last' /\ accepted <= accepted'
  BY <1>1, <1>2, <1>5 DEF Q!Clear
<1>6. CASE last' = last /\ accepted' = accepted
  BY <1>1, <1>6
<1> QED BY Zenon, <1>0, <1>1, <1>3, <1>4, <1>5, <1>6
        DEF Q!Next, Q!Pop, Q!TryPop, Q!Push, Q!TryPush, Q!Wait, Q!SpuriousWakeup, Q!vars

\* Taking a task gives the worker one that nobody had before.
LEMMA TaskStep ==
  ASSUME TaskInv, IInv, Q!TypeOK, Q!FIFO, [Next]_vars
  PROVE  TaskInv'
<1>0. /\ last \in Nat /\ last' \in Nat /\ last <= last'
      /\ pc \in [Workers -> {"pop", "popped", "run", "ran", "notify", "exit"}]
      /\ task \in [Workers -> Nat]
  BY Zenon, QueueMoves DEF IInv, OwnTypes
<1>1. ASSUME NEW w \in Workers, ProcPop(w), m_queue # <<>> PROVE TaskInv'
  <2>1. /\ pc' = [pc EXCEPT ![w] = "popped"]
        /\ task' = [task EXCEPT ![w] = Head(m_queue)]
        /\ last' = Head(m_queue) /\ done' = done
    BY Zenon, <1>1 DEF ProcPop, Goto, Q!Pop, Q!Dequeue
  <2>2. Head(m_queue) = last + 1
    BY <1>1 DEF Q!TypeOK, Q!FIFO
  <2>3. Holding' \subseteq Holding \union {w} /\ task'[w] = last + 1
    BY Zenon, <1>0, <2>1, <2>2 DEF Holding
  <2>4. \A v \in Holding : task[v] \in 1 .. last /\ task[v] \notin done
    BY Zenon DEF TaskInv, RunOnce
  <2>5. \A v \in Workers \ {w} : task'[v] = task[v] /\ (v \in Holding' => v \in Holding)
    BY Zenon, <1>0, <2>1 DEF Holding
  <2>6. Holding \subseteq Workers /\ done \subseteq 1 .. last
    BY Zenon DEF Holding, TaskInv
  <2>7. ASSUME NEW v \in Holding'
        PROVE  /\ task'[v] \notin done' /\ task'[v] \in 1 .. last'
               /\ \A u \in Holding' : task'[u] = task'[v] => u = v
    BY <1>0, <2>1, <2>2, <2>3, <2>4, <2>5, <2>6 DEF TaskInv, RunOnce
  <2> QED BY <1>0, <2>1, <2>2, <2>6, <2>7 DEF TaskInv, RunOnce
<1>2. ASSUME NEW w \in Workers, ProcRun(w) PROVE TaskInv'
  <2>1. /\ pc' = [pc EXCEPT ![w] = "ran"] /\ task' = task
        /\ done' = done \union {task[w]} /\ last' = last /\ w \in Holding
    BY Zenon, <1>2 DEF ProcRun, Goto, queueVars, Holding
  <2>2. Holding' = Holding \ {w}
    BY Zenon, <1>0, <2>1 DEF Holding
  <2> QED BY Zenon, <2>1, <2>2 DEF TaskInv, RunOnce
<1>3. ASSUME task' = task, done' = done, Holding' \subseteq Holding PROVE TaskInv'
  BY <1>0, <1>3 DEF TaskInv, RunOnce
<1>4. ASSUME NEW w \in Workers, Proc(w), ~ProcRun(w), ~(ProcPop(w) /\ m_queue # <<>>)
      PROVE  TaskInv'
  <2>1. task' = task /\ done' = done
    BY Zenon, <1>4 DEF Proc, ProcPop, ProcStopping, ProcStart, ProcFinish, ProcNotify
  <2>2. Holding' \subseteq Holding
    BY Zenon, <1>0, <1>4 DEF Proc, ProcPop, ProcStopping, ProcStart, ProcFinish, ProcNotify,
                      Goto, Holding
  <2> QED BY Zenon, <1>3, <2>1, <2>2
<1>5. CASE UNCHANGED workerVars
  BY Zenon, <1>3, <1>5 DEF workerVars, Holding
<1> QED BY Zenon, <1>1, <1>2, <1>4, <1>5
        DEF Next, vars, Proc, AddTask, WaitAll, WaitStep, Timeout, SpuriousWakeup, Stop,
            StopPush, Join

\* A client that has found the queue empty has had all its tasks taken.
LEMMA WaitStepKeeps ==
  ASSUME WaitInv, IInv, Q!TypeOK, Q!FIFO, [Next]_vars
  PROVE  WaitInv'
<1>0. /\ last \in Nat /\ accepted \in Nat /\ last <= accepted
      /\ last' \in Nat /\ accepted' \in Nat /\ last <= last' /\ accepted <= accepted'
  BY Zenon, QueueMoves
<1>1. /\ cpc \in [Clients -> {"idle", "lock", "testEmpty", "testActive", "sleep",
                              "asleep", "stopping", "joined"}]
      /\ goal \in [Clients -> Nat]
  BY Zenon DEF IInv, OwnTypes
<1> SUFFICES ASSUME NEW d \in Clients
             PROVE  /\ goal'[d] <= accepted'
                    /\ cpc'[d] = "testActive" /\ ~timed'[d] => goal'[d] <= last'
  BY Zenon DEF WaitInv
<1>2. /\ goal[d] <= accepted /\ goal[d] \in Nat
      /\ cpc[d] = "testActive" /\ ~timed[d] => goal[d] <= last
  BY Zenon, <1>1 DEF WaitInv
<1>3. CASE goal' = goal /\ timed' = timed /\ (cpc'[d] = "testActive" => cpc[d] = "testActive")
  BY <1>0, <1>2, <1>3
<1>4. ASSUME NEW c \in Clients, NEW until \in BOOLEAN, WaitAll(c, until)
      PROVE  /\ goal'[d] <= accepted'
             /\ cpc'[d] = "testActive" /\ ~timed'[d] => goal'[d] <= last'
  <2>1. /\ goal' = [goal EXCEPT ![c] = accepted] /\ cpc' = [cpc EXCEPT ![c] = "lock"]
        /\ timed' = [timed EXCEPT ![c] = until]
    BY Zenon, <1>4 DEF WaitAll, ClientGoto
  <2>2. CASE c = d
    BY Zenon, <1>0, <1>1, <2>1, <2>2
  <2>3. CASE c # d
    <3>1. goal'[d] = goal[d] /\ cpc'[d] = cpc[d] /\ timed'[d] = timed[d]
      BY Zenon, <1>1, <2>1, <2>3 DEF IInv, OwnTypes
    <3> QED BY <1>0, <1>2, <3>1
  <2> QED BY Zenon, <2>2, <2>3
<1>5. ASSUME NEW c \in Clients, WaitTestEmpty(c), WaitStep(c)
      PROVE  /\ goal'[d] <= accepted'
             /\ cpc'[d] = "testActive" /\ ~timed'[d] => goal'[d] <= last'
  <2>1. goal' = goal /\ timed' = timed /\ accepted' = accepted /\ last' = last
    BY Zenon, <1>5 DEF WaitStep, queueVars
  <2>2. CASE c = d /\ m_queue = <<>>
    <3>1. last = accepted
      BY <1>0, <2>2 DEF Q!FIFO
    <3> QED BY Zenon, <1>2, <2>1, <3>1
  <2>3. CASE c = d /\ m_queue # <<>>
    <3>1. cpc'[d] = "testActive" => timed[d]
      BY Zenon, <1>1, <1>5, <2>3 DEF WaitTestEmpty, ClientGoto
    <3> QED BY Zenon, <1>2, <2>1, <3>1
  <2>4. CASE c # d
    <3>1. cpc'[d] = cpc[d]
      BY Zenon, <1>1, <1>5, <2>4 DEF WaitTestEmpty, ClientGoto, WaitReturn
    <3> QED BY Zenon, <1>2, <2>1, <3>1
  <2> QED BY Zenon, <2>2, <2>3, <2>4
<1>6. ASSUME NEW c \in Clients, WaitStep(c), ~WaitTestEmpty(c)
      PROVE  goal' = goal /\ timed' = timed /\ (cpc'[d] = "testActive" => cpc[d] = "testActive")
  BY Zenon, <1>1, <1>6 DEF WaitStep, WaitLock, WaitTestActive, WaitSleep, WaitWake, WaitReturn,
                    ClientGoto
<1>7. CASE UNCHANGED <<cpc, timed, goal>>
  BY Zenon, <1>3, <1>7
<1>8. CASE Stop \/ Join
  <2>1. goal' = goal /\ timed' = timed
    BY Zenon, <1>8 DEF Stop, Join
  <2>2. cpc'[d] = "testActive" => cpc[d] = "testActive"
    BY Zenon, <1>1, <1>8 DEF Stop, Join, ClientGoto
  <2> QED BY Zenon, <1>3, <2>1, <2>2
<1> QED BY Zenon, <1>3, <1>4, <1>5, <1>6, <1>7, <1>8
        DEF Next, vars, Proc, AddTask, Timeout, SpuriousWakeup, StopPush, clientVars

\* WaitAll returns only after it has found the queue empty.
LEMMA WaitReturns ==
    WaitInv /\ IInv /\ [Next]_vars =>
        [\A c \in Clients : Returns(c) /\ ~timed[c] => goal[c] <= last]_vars
<1> SUFFICES ASSUME WaitInv, IInv, Next, NEW c \in Clients, Returns(c), ~timed[c]
             PROVE  goal[c] <= last
  BY Zenon
<1>1. cpc[c] \notin {"idle", "stopping"} /\ cpc'[c] = "idle"
  BY Zenon DEF Returns
<1>2. cpc \in [Clients -> {"idle", "lock", "testEmpty", "testActive", "sleep",
                           "asleep", "stopping", "joined"}]
  BY Zenon DEF IInv, OwnTypes
<1>3. \E d \in Clients : WaitStep(d)
  BY Zenon, <1>1, <1>2 DEF Next, Proc, AddTask, WaitAll, Timeout, SpuriousWakeup, Stop,
                    StopPush, Join, clientVars, ClientGoto
<1>4. cpc[c] = "testActive"
  BY Zenon, <1>1, <1>2, <1>3 DEF WaitStep, WaitLock, WaitTestEmpty, WaitTestActive, WaitSleep,
                          WaitWake, WaitReturn, ClientGoto
<1> QED BY Zenon, <1>4 DEF WaitInv

----------------------------------------------------------------------------
(* The theorems. *)

\* The pool's types, its exact counter and the destructor's promise, together.
LEMMA PoolInvariant == Spec => []IInv
  BY InitIInv, NextIInv, PoolQueueSafe, PTL DEF Spec

\* Every variable of the pool keeps its type; the counter is never negative.
THEOREM PoolType == Spec => []TypeOK
<1>1. IInv /\ Q!TypeOK => TypeOK
  BY Zenon DEF IInv, OwnTypes, TypeOK
<1> QED BY <1>1, PoolInvariant, PoolQueueSafe, PTL

\* The counter WaitAll reads is exact, for any number of workers.
THEOREM PoolActiveExact == Spec => []ActiveExact
  BY PoolInvariant, PTL DEF IInv

\* The destructor always pushes enough empty tasks for its workers to leave.
THEOREM PoolStopSuffices == Spec => []StopSuffices
  BY PoolInvariant, PTL DEF IInv

\* No task is run twice, by however many workers.
THEOREM PoolRunOnce == Spec => []RunOnce
<1>1. Init => TaskInv
  BY Zenon DEF Init, TaskInv, RunOnce, Holding, Q!Init
<1>2. TaskInv /\ IInv /\ Q!TypeOK /\ Q!FIFO /\ [Next]_vars => TaskInv'
  BY Zenon, TaskStep
<1>3. TaskInv => RunOnce
  BY Zenon DEF TaskInv
<1> QED BY <1>1, <1>2, <1>3, PoolInvariant, PoolQueueSafe, PTL DEF Spec

\* When WaitAll returns, every task added before the call has been taken off
\* the queue: true for any number of workers and clients, and all that WaitAll
\* guarantees (thread-pool.h:107).
THEOREM PoolWaitAllTaken == Spec => WaitAllTaken
<1>1. Init => WaitInv
  BY DEF Init, WaitInv, Q!Init
<1>2. WaitInv /\ IInv /\ Q!TypeOK /\ Q!FIFO /\ [Next]_vars => WaitInv'
  BY Zenon, WaitStepKeeps
<1> QED BY <1>1, <1>2, WaitReturns, PoolInvariant, PoolQueueSafe, PTL DEF Spec, WaitAllTaken

----------------------------------------------------------------------------
\* The state that is not Boolean.
LockDataOK ==
    /\ m_psl \in {"UNLOCKED", "LOCKED"}
    /\ readers \in [LockUsers -> Nat] /\ writer \in LockUsers \union {NoLockUser}
    /\ object \in [LockUsers -> Locks!Classes \union {"none"}]
    /\ at \in [LockUsers -> {"out", "ctor", "Lock"}]
    /\ m_bOwnLock \in [LockUsers -> BOOLEAN]

(***************************************************************************)
(* LocksExclusive speaks of objects that own a lock; what makes it         *)
(* inductive is that an owner really has its lock, that the lock itself    *)
(* admits a writer or readers, and that a call under way belongs to an     *)
(* object without it.                                                      *)
(***************************************************************************)
LockIInv ==
    /\ LockDataOK
    /\ Locks!SpinReleased
    /\ \A t, u \in LockUsers : Locks!Owns(t, "SpinLock") /\ Locks!Owns(u, "SpinLock") => t = u
    /\ \A t \in LockUsers : Locks!Owns(t, "ReadLock") => readers[t] > 0
    /\ \A t \in LockUsers : Locks!Owns(t, "WriteLock") => writer = t
    /\ writer # NoLockUser => \A t \in LockUsers : readers[t] = 0
    /\ \A t \in LockUsers : at[t] # "out" => ~m_bOwnLock[t] /\ object[t] # "none"

\* At first nobody has a lock.
LEMMA LockInitIInv == Locks!LocksAssumption /\ Locks!Init => LockIInv
  BY DEF Locks!LocksAssumption, Locks!Init, LockIInv, LockDataOK, Locks!Owns, Locks!Classes,
         Locks!SpinReleased

\* A step changes the lock of one thread's object, and takes it only when
\* it is free.
LEMMA LockNextIInv == Locks!LocksAssumption /\ LockIInv /\ [Locks!Next]_(Locks!vars) => LockIInv'
  <1> SUFFICES ASSUME Locks!LocksAssumption, LockIInv, [Locks!Next]_(Locks!vars) PROVE LockIInv'
    BY Zenon
  <1> USE
     DEF Locks!LocksAssumption, LockIInv, LockDataOK, Locks!Owns, Locks!Classes,
         Locks!SpinReleased
  <1>1. ASSUME NEW t \in LockUsers, NEW c \in Locks!Classes, NEW defer \in BOOLEAN, Locks!Construct(t, c, defer)
        PROVE  LockIInv'
    BY <1>1 DEF Locks!Construct, Locks!rw
  <1>2. ASSUME NEW t \in LockUsers, Locks!Lock(t) PROVE LockIInv'
    BY Zenon, <1>2 DEF Locks!Lock, Locks!Ready, Locks!rw
  <1>3. ASSUME NEW t \in LockUsers, Locks!Acquire(t) PROVE LockIInv'
    <2>1. CASE object[t] = "SpinLock"
      BY Zenon, <1>3, <2>1 DEF Locks!Acquire, Locks!Free, Locks!Take, Locks!rw
    <2>2. CASE object[t] = "ReadLock"
      BY <1>3, <2>2 DEF Locks!Acquire, Locks!Free, Locks!Take, Locks!rw
    <2>3. CASE object[t] = "WriteLock"
      BY <1>3, <2>3 DEF Locks!Acquire, Locks!Free, Locks!Take, Locks!rw
    <2> QED
      BY Zenon, <1>3, <2>1, <2>2, <2>3 DEF Locks!Acquire
  <1>4. ASSUME NEW t \in LockUsers, Locks!LockFails(t) PROVE LockIInv'
    BY Zenon, <1>4 DEF Locks!LockFails, Locks!rw
  <1>5. ASSUME NEW t \in LockUsers, Locks!TryLock(t) PROVE LockIInv'
    <2>1. CASE (m_bOwnLock[t] \/ ~Locks!Free(t)) /\ UNCHANGED <<m_psl, Locks!rw, m_bOwnLock>>
      BY Zenon, <1>5, <2>1 DEF Locks!TryLock, Locks!rw
    <2>2. CASE /\ ~m_bOwnLock[t] /\ Locks!Free(t) /\ Locks!Take(t)
               /\ m_bOwnLock' = [m_bOwnLock EXCEPT ![t] = TRUE]
      <3>1. CASE object[t] = "SpinLock"
        BY Zenon, <1>5, <2>2, <3>1 DEF Locks!TryLock, Locks!Ready, Locks!Free, Locks!Take, Locks!rw
      <3>2. CASE object[t] = "ReadLock"
        BY <1>5, <2>2, <3>2 DEF Locks!TryLock, Locks!Ready, Locks!Free, Locks!Take, Locks!rw
      <3>3. CASE object[t] = "WriteLock"
        BY <1>5, <2>2, <3>3 DEF Locks!TryLock, Locks!Ready, Locks!Free, Locks!Take, Locks!rw
      <3> QED
        BY Zenon, <1>5, <3>1, <3>2, <3>3 DEF Locks!TryLock, Locks!Ready
    <2> QED
      BY Zenon, <1>5, <2>1, <2>2 DEF Locks!TryLock
  <1>6. ASSUME NEW t \in LockUsers, Locks!Unlock(t) PROVE LockIInv'
    <2>1. CASE ~m_bOwnLock[t]
      BY Zenon, <1>6, <2>1 DEF Locks!Unlock, Locks!rw
    <2>2. CASE m_bOwnLock[t] /\ object[t] = "SpinLock"
      BY Zenon, <1>6, <2>2 DEF Locks!Unlock, Locks!Ready, Locks!Give, Locks!rw
    <2>3. CASE m_bOwnLock[t] /\ object[t] = "ReadLock"
      BY <1>6, <2>3 DEF Locks!Unlock, Locks!Ready, Locks!Give, Locks!rw
    <2>4. CASE m_bOwnLock[t] /\ object[t] = "WriteLock"
      BY Zenon, <1>6, <2>4 DEF Locks!Unlock, Locks!Ready, Locks!Give, Locks!rw
    <2> QED
      BY Zenon, <1>6, <2>1, <2>2, <2>3, <2>4 DEF Locks!Unlock, Locks!Ready
  <1>7. ASSUME NEW t \in LockUsers, Locks!Destroy(t) PROVE LockIInv'
    <2>1. CASE ~m_bOwnLock[t]
      BY Zenon, <1>7, <2>1 DEF Locks!Destroy, Locks!Ready, Locks!rw
    <2>2. CASE m_bOwnLock[t] /\ object[t] = "SpinLock"
      BY Zenon, <1>7, <2>2 DEF Locks!Destroy, Locks!Ready, Locks!Give, Locks!rw
    <2>3. CASE m_bOwnLock[t] /\ object[t] = "ReadLock"
      BY <1>7, <2>3 DEF Locks!Destroy, Locks!Ready, Locks!Give, Locks!rw
    <2>4. CASE m_bOwnLock[t] /\ object[t] = "WriteLock"
      BY <1>7, <2>4 DEF Locks!Destroy, Locks!Ready, Locks!Give, Locks!rw
    <2> QED
      BY Zenon, <1>7, <2>1, <2>2, <2>3, <2>4 DEF Locks!Destroy, Locks!Ready
  <1>8. CASE UNCHANGED Locks!vars
    BY Zenon, <1>8 DEF Locks!vars, Locks!rw
  <1> QED
    BY <1>1, <1>2, <1>3, <1>4, <1>5, <1>6, <1>7, <1>8 DEF Locks!Next

\* However lock objects are built, tried, unlocked and destroyed, an owner
\* excludes the threads its class promises to exclude.
THEOREM LocksKeepOut == Locks!Spec => []LocksExclusive
  <1> USE LockUse
  <1>1. Locks!Init => LockIInv
    BY Zenon, LockInitIInv
  <1>2. LockIInv /\ [Locks!Next]_(Locks!vars) => LockIInv'
    BY Zenon, LockNextIInv
  <1>3. LockIInv => LocksExclusive
    BY DEF LocksExclusive, Locks!LocksAssumption, LockIInv, LockDataOK, Locks!Owns, Locks!LocksExclusive
  <1> QED
    BY <1>1, <1>2, <1>3, PTL DEF Locks!Spec

\* No way out of SpinLock leaves the word locked: it is set exactly while an
\* object owns it.
THEOREM LocksSpinReleased == Locks!Spec => []Locks!SpinReleased
  <1> USE LockUse
  <1>1. Locks!Init => LockIInv
    BY Zenon, LockInitIInv
  <1>2. LockIInv /\ [Locks!Next]_(Locks!vars) => LockIInv'
    BY Zenon, LockNextIInv
  <1>3. LockIInv => Locks!SpinReleased
    BY Zenon DEF LockIInv
  <1> QED
    BY <1>1, <1>2, <1>3, PTL DEF Locks!Spec
=============================================================================
