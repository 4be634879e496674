------------------------------ MODULE NetLife -------------------------------
(***************************************************************************)
(* Starting and stopping the network of a node: ServerInternalMessenger,   *)
(* its NBSocketService, the PosixEventManager below it with one listening  *)
(* worker and several connection workers, and the handshake threads of the *)
(* listening socket.                                                       *)
(*                                                                         *)
(* One thread, the owner, starts and then stops everything, while the      *)
(* workers run, connections are accepted and handed to a connection        *)
(* worker, and notifications go up to the dispatch threads of the          *)
(* messenger.  The peers are external: they connect and answer a handshake *)
(* or not, and a connection gives rise to notifications.  What a handshake *)
(* exchanges is in Handshake, what dispatch does in Messenger.             *)
(***************************************************************************)
EXTENDS Integers, FiniteSets

CONSTANTS
    ConnWorkers,  \* the connection workers are 1 .. ConnWorkers
    Peers,        \* the peers that connect, once each
    HsThreads     \* FLAGS_net_server_handshake_threads_cnt

listener == 0
Workers == 0 .. ConnWorkers

\* PosixEventManager has at least one connection worker.
NetAssumption == ConnWorkers \in Nat \ {0}

VARIABLES
    owner,         \* where the owner is in Start or Stop
    m_bStopped,    \* m_bStopped of the messenger, the service and the manager
    ew,            \* per worker, its EventWorker: "none", "up" or "deleted"
    loop,          \* per worker, its thread: where it is in worker_loop
    pipe,          \* per worker, a wakeup is in its pipe
    added,         \* per worker, handlers in m_extEpAddEvents
    handlers,      \* per worker, handlers in its epoll set
    hs,            \* per peer, its handshake task
    target,        \* per peer, the worker AddEvent chose for it
    m_iCurWorkerIdx,
    tpStopping,    \* m_bStopping of the pool of handshake threads
    m_pDispatchTp, \* "none", "up" or "deleted"
    crashed        \* the process died on a null pointer

owning == <<owner, m_bStopped, m_pDispatchTp>>
looping == <<loop, pipe, added, handlers>>
shaking == <<hs, target, m_iCurWorkerIdx, tpStopping>>
vars == <<owning, ew, looping, shaking, crashed>>

Init ==
    /\ owner = "idle"
    /\ m_bStopped = [o \in {"messenger", "service", "manager"} |-> TRUE]
    /\ ew = [w \in Workers |-> "none"]
    /\ loop = [w \in Workers |-> "none"]
    /\ pipe = [w \in Workers |-> FALSE]
    /\ added = [w \in Workers |-> {}]
    /\ handlers = [w \in Workers |-> {}]
    /\ hs = [p \in Peers |-> "none"]
    /\ target = [p \in Peers |-> listener]
    /\ m_iCurWorkerIdx = -1
    /\ tpStopping = FALSE
    /\ m_pDispatchTp = "none"
    /\ crashed = FALSE

----------------------------------------------------------------------------
(***************************************************************************)
(* Start.  The listening worker comes first.  A pipe that cannot be made   *)
(* or a socket that cannot be bound throws, and main ends the process.     *)
(***************************************************************************)
NewEventWorker(w) == ew' = [ew EXCEPT ![w] = "up"]

Start ==
    /\ owner = "idle" /\ ~crashed
    /\ m_bStopped' = [o \in DOMAIN m_bStopped |-> FALSE]
    /\ NewEventWorker(listener)
    /\ owner' \in {"listen", "threw"}
    /\ UNCHANGED <<m_pDispatchTp, looping, shaking, crashed>>

StartListen ==
    /\ owner = "listen" /\ ~crashed
    /\ loop' = [loop EXCEPT ![listener] = "head"]
    /\ added' = [added EXCEPT ![listener] = {"server"}]
    /\ pipe' = [pipe EXCEPT ![listener] = TRUE]
    /\ owner' = "workers"
    /\ UNCHANGED <<m_bStopped, m_pDispatchTp, ew, handlers, shaking, crashed>>

\* The next connection worker and its thread.
StartWorker(w) ==
    /\ owner = "workers" /\ ~crashed
    /\ w = Cardinality({v \in Workers : ew[v] # "none"})
    /\ NewEventWorker(w)
    /\ \/ /\ loop' = [loop EXCEPT ![w] = "head"]
          /\ owner' = IF w = ConnWorkers THEN "tp" ELSE "workers"
       \/ owner' = "threw" /\ UNCHANGED loop
    /\ UNCHANGED <<m_bStopped, m_pDispatchTp, pipe, added, handlers, shaking, crashed>>

StartDispatch ==
    /\ owner = "tp" /\ ~crashed
    /\ m_pDispatchTp' = "up"
    /\ owner' = "started"
    /\ UNCHANGED <<m_bStopped, ew, looping, shaking, crashed>>

----------------------------------------------------------------------------
(***************************************************************************)
(* worker_loop.                                                            *)
(***************************************************************************)
\* A mutant of LoopHead: while (true).
LoopHeadAlways(w) ==
    /\ loop[w] = "head" /\ ~crashed
    /\ loop' = [loop EXCEPT ![w] = "wait"]
    /\ UNCHANGED <<owning, ew, pipe, added, handlers, shaking, crashed>>

LoopHead(w) ==
    /\ loop[w] = "head" /\ ~crashed
    /\ loop' = [loop EXCEPT ![w] = IF m_bStopped["manager"] THEN "ended" ELSE "wait"]
    /\ UNCHANGED <<owning, ew, pipe, added, handlers, shaking, crashed>>

\* epoll_wait returns for a wakeup ...
GetInternalEvent(w) ==
    /\ loop[w] = "wait" /\ ~crashed
    /\ pipe[w]
    /\ loop' = [loop EXCEPT ![w] = "got"]
    /\ UNCHANGED <<owning, ew, pipe, added, handlers, shaking, crashed>>

\* ... or, external, for an event of a handler.
HandlerEvent(w) ==
    /\ loop[w] = "wait" /\ ~crashed
    /\ handlers[w] # {}
    /\ loop' = [loop EXCEPT ![w] = "got"]
    /\ UNCHANGED <<owning, ew, pipe, added, handlers, shaking, crashed>>

\* The test behind the wait.
LoopTest(w) ==
    /\ loop[w] = "got" /\ ~crashed
    /\ loop' = [loop EXCEPT ![w] = IF m_bStopped["manager"] THEN "ended" ELSE "drain"]
    /\ UNCHANGED <<owning, ew, pipe, added, handlers, shaking, crashed>>

\* HandleReadEvent of the pipe empties it, with whatever was written by now.
Drain(w) ==
    /\ loop[w] = "drain" /\ ~crashed
    /\ loop' = [loop EXCEPT ![w] = "events"]
    /\ pipe' = [pipe EXCEPT ![w] = FALSE]
    /\ UNCHANGED <<owning, ew, added, handlers, shaking, crashed>>

\* HandleReadEvent of the server: the task of an accepted connection.
Accept(p) ==
    /\ loop[listener] = "events" /\ ~crashed
    /\ "server" \in handlers[listener]
    /\ hs[p] = "none"
    /\ hs' = [hs EXCEPT ![p] = "queued"]
    /\ UNCHANGED <<owning, ew, looping, target, m_iCurWorkerIdx, tpStopping, crashed>>

\* A handler of the worker has a notification.  OnRecvRpcReturnResult drops
\* it when the messenger is stopped.
Notify(w) ==
    /\ loop[w] = "events" /\ ~crashed
    /\ handlers[w] \intersect Peers # {}
    /\ ~m_bStopped["messenger"]
    /\ loop' = [loop EXCEPT ![w] = "post"]
    /\ UNCHANGED <<owning, ew, pipe, added, handlers, shaking, crashed>>

\* m_pDispatchTp->AddTask.
Post(w) ==
    /\ loop[w] = "post" /\ ~crashed
    /\ crashed' = (m_pDispatchTp = "none")
    /\ loop' = [loop EXCEPT ![w] = "add"]
    /\ UNCHANGED <<owning, ew, pipe, added, handlers, shaking>>

\* The new handlers enter the epoll set.
AddHandlers(w) ==
    /\ loop[w] \in {"events", "add"} /\ ~crashed
    /\ handlers' = [handlers EXCEPT ![w] = @ \union added[w]]
    /\ added' = [added EXCEPT ![w] = {}]
    /\ loop' = [loop EXCEPT ![w] = "head"]
    /\ UNCHANGED <<owning, ew, pipe, shaking, crashed>>

worker_loop(w) ==
    \/ LoopHead(w) \/ GetInternalEvent(w) \/ LoopTest(w) \/ Drain(w)
    \/ Notify(w) \/ Post(w) \/ AddHandlers(w)

----------------------------------------------------------------------------
(***************************************************************************)
(* The handshake threads, one task each.                                   *)
(***************************************************************************)
Running == {p \in Peers : hs[p] \in {"init", "ready", "next", "pick", "add", "wakeup"}}

\* A thread takes the task; one that finds the pool stopping ends instead.
HsTake(p) ==
    /\ hs[p] = "queued" /\ ~crashed
    /\ Cardinality(Running) < HsThreads
    /\ hs' = [hs EXCEPT ![p] = IF tpStopping THEN "dropped" ELSE "init"]
    /\ UNCHANGED <<owning, ew, looping, target, m_iCurWorkerIdx, tpStopping, crashed>>

\* External: the peer answers, or goes away, and Initialize returns.
HsInitialize(p) ==
    /\ hs[p] = "init" /\ ~crashed
    /\ \E r \in {"ready", "failed"} : hs' = [hs EXCEPT ![p] = r]
    /\ UNCHANGED <<owning, ew, looping, target, m_iCurWorkerIdx, tpStopping, crashed>>

on_stack_connect(p) ==
    /\ hs[p] = "ready" /\ ~crashed
    /\ hs' = [hs EXCEPT ![p] = IF m_bStopped["service"] THEN "done" ELSE "next"]
    /\ UNCHANGED <<owning, ew, looping, target, m_iCurWorkerIdx, tpStopping, crashed>>

\* AddEvent: the index moves on under m_slSelectEvents ...
AddEventNext(p) ==
    /\ hs[p] = "next" /\ ~crashed
    /\ m_iCurWorkerIdx' = (m_iCurWorkerIdx + 1) % ConnWorkers
    /\ hs' = [hs EXCEPT ![p] = "pick"]
    /\ UNCHANGED <<owning, ew, looping, target, tpStopping, crashed>>

\* ... and is read without it.
AddEventPick(p) ==
    /\ hs[p] = "pick" /\ ~crashed
    /\ target' = [target EXCEPT ![p] = m_iCurWorkerIdx + 1]
    /\ hs' = [hs EXCEPT ![p] = "add"]
    /\ UNCHANGED <<owning, ew, looping, m_iCurWorkerIdx, tpStopping, crashed>>

\* AddExternalEpAddEvent: a worker that Start has not made yet is a null one.
AddExternalEpAddEvent(p) ==
    /\ hs[p] = "add" /\ ~crashed
    /\ crashed' = (ew[target[p]] = "none")
    /\ added' = [added EXCEPT ![target[p]] = @ \union {p}]
    /\ hs' = [hs EXCEPT ![p] = "wakeup"]
    /\ UNCHANGED <<owning, ew, loop, pipe, handlers, target, m_iCurWorkerIdx, tpStopping>>

Wakeup(p) ==
    /\ hs[p] = "wakeup" /\ ~crashed
    /\ pipe' = [pipe EXCEPT ![target[p]] = TRUE]
    /\ hs' = [hs EXCEPT ![p] = "done"]
    /\ UNCHANGED <<owning, ew, loop, added, handlers, target, m_iCurWorkerIdx, tpStopping, crashed>>

Handshake(p) ==
    \/ HsTake(p) \/ on_stack_connect(p) \/ AddEventNext(p) \/ AddEventPick(p)
    \/ AddExternalEpAddEvent(p) \/ Wakeup(p)

----------------------------------------------------------------------------
(***************************************************************************)
(* Stop.                                                                   *)
(***************************************************************************)
\* The flags are set from the messenger down.  In between the messenger stops
\* its rpc clients and server, which share nothing with the threads here.
StopFlag ==
    /\ owner \in {"started", "service", "manager"} /\ ~crashed
    /\ LET o == IF owner = "started" THEN "messenger" ELSE owner
       IN m_bStopped' = [m_bStopped EXCEPT ![o] = TRUE]
    /\ owner' = CASE owner = "started" -> "service"
                  [] owner = "service" -> "manager"
                  [] owner = "manager" -> "wake listener"
    /\ UNCHANGED <<m_pDispatchTp, ew, looping, shaking, crashed>>

StopWakeListener ==
    /\ owner = "wake listener" /\ ~crashed
    /\ pipe' = [pipe EXCEPT ![listener] = TRUE]
    /\ owner' = "join listener"
    /\ UNCHANGED <<m_bStopped, m_pDispatchTp, ew, loop, added, handlers, shaking, crashed>>

\* The listening thread is joined; deleting the server handler stops the
\* handshake threads.
StopJoinListener ==
    /\ owner = "join listener" /\ ~crashed
    /\ loop[listener] = "ended"
    /\ tpStopping' = TRUE
    /\ owner' = "join handshakes"
    /\ UNCHANGED <<m_bStopped, m_pDispatchTp, ew, looping, hs, target, m_iCurWorkerIdx, crashed>>

\* A mutant of StopJoinHandshakes: the pool is deleted with its threads running.
StopLeaveHandshakes ==
    /\ owner = "join handshakes" /\ ~crashed
    /\ ew' = [ew EXCEPT ![listener] = "deleted"]
    /\ owner' = "wake worker"
    /\ UNCHANGED <<m_bStopped, m_pDispatchTp, looping, shaking, crashed>>

\* ~ThreadPool joins them; the listening worker is deleted.
StopJoinHandshakes ==
    /\ owner = "join handshakes" /\ ~crashed
    /\ Running = {} /\ \A p \in Peers : hs[p] # "queued"
    /\ ew' = [ew EXCEPT ![listener] = "deleted"]
    /\ owner' = "wake worker"
    /\ UNCHANGED <<m_bStopped, m_pDispatchTp, looping, shaking, crashed>>

\* The connection worker Stop is at.
Current == Cardinality({w \in Workers : ew[w] = "deleted"})

StopWakeWorker ==
    /\ owner = "wake worker" /\ ~crashed
    /\ pipe' = [pipe EXCEPT ![Current] = TRUE]
    /\ owner' = "join worker"
    /\ UNCHANGED <<m_bStopped, m_pDispatchTp, ew, loop, added, handlers, shaking, crashed>>

\* A mutant of StopJoinWorker: the thread is detached.
StopLeaveWorker ==
    /\ owner = "join worker" /\ ~crashed
    /\ ew' = [ew EXCEPT ![Current] = "deleted"]
    /\ owner' = IF Current = ConnWorkers THEN "delete tp" ELSE "wake worker"
    /\ UNCHANGED <<m_bStopped, m_pDispatchTp, looping, shaking, crashed>>

StopJoinWorker ==
    /\ owner = "join worker" /\ ~crashed
    /\ loop[Current] = "ended"
    /\ ew' = [ew EXCEPT ![Current] = "deleted"]
    /\ owner' = IF Current = ConnWorkers THEN "delete tp" ELSE "wake worker"
    /\ UNCHANGED <<m_bStopped, m_pDispatchTp, looping, shaking, crashed>>

\* The messenger's pool goes last.
StopDispatch ==
    /\ owner = "delete tp" /\ ~crashed
    /\ m_pDispatchTp' = "deleted"
    /\ owner' = "stopped"
    /\ UNCHANGED <<m_bStopped, ew, looping, shaking, crashed>>

Stop ==
    \/ StopFlag \/ StopWakeListener \/ StopJoinListener \/ StopJoinHandshakes
    \/ StopWakeWorker \/ StopJoinWorker \/ StopDispatch

Owner == Start \/ StartListen \/ (\E w \in Workers : StartWorker(w)) \/ StartDispatch \/ Stop

Next ==
    \/ Owner
    \/ \E w \in Workers : worker_loop(w) \/ HandlerEvent(w)
    \/ \E p \in Peers : Accept(p) \/ Handshake(p) \/ HsInitialize(p)

Spec == Init /\ [][Next]_vars

(***************************************************************************)
(* Every thread of the node runs on; the peers need do nothing.            *)
(***************************************************************************)
FairSpec ==
    /\ Spec
    /\ WF_vars(Stop)
    /\ \A w \in Workers : WF_vars(worker_loop(w))
    /\ \A p \in Peers : WF_vars(Handshake(p))

----------------------------------------------------------------------------
\* No handshake thread touches a worker that Stop has deleted, although one
\* may have found the service running before Stop began.
NeverFreed == \A p \in Peers : hs[p] \in {"add", "wakeup"} => ew[target[p]] # "deleted"

\* No worker thread outlives its EventWorker or posts to a dispatch pool that
\* the messenger has deleted.
DispatchAlive ==
    /\ \A w \in Workers : loop[w] = "post" => m_pDispatchTp # "deleted"
    /\ \A w \in Workers : ew[w] = "deleted" => loop[w] = "ended"

\* Stop deletes nothing that a thread of the service still uses.
StopSafe == NeverFreed /\ DispatchAlive

\* Stop returns, also when its wakeup is read by a worker that had not seen
\* the flag yet, unless the process died or a peer leaves its handshake
\* unanswered for ever.
StopReturns ==
    (\A p \in Peers : []<>(hs[p] # "init"))
      => (owner = "service" ~> (owner = "stopped" \/ crashed))
=============================================================================
