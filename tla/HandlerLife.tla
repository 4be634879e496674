---------------------------- MODULE HandlerLife ----------------------------
(***************************************************************************)
(* The life of the connection handlers of one peer: UniqueWorkerManager    *)
(* holds one of them, SendMessage borrows it with a reference, Disconnect  *)
(* and on_finish give it up, and the IO thread of its EventWorker, in      *)
(* PosixEventManager::worker_loop, deletes it.                             *)
(*                                                                         *)
(* The reference count is the code's: AFileEventHandler::Release subtracts *)
(* and then reads the count in a second step, and that read is             *)
(* __sync_fetch_and_and(&m_iRef, 1), which leaves only the lowest bit.     *)
(*                                                                         *)
(* What a thread does with memory already freed is undefined, so a         *)
(* behaviour ends with the first step that touches a freed handler         *)
(* (TouchFreed); the properties are about the states in which such a step  *)
(* is due.  The loop is woken at any time; NetSend shows when it is.       *)
(***************************************************************************)
EXTENDS Integers

CONSTANTS
    Handlers,   \* the handlers ever created for the peer
    NoHandler,
    Senders,    \* threads that call SendMessage
    Disc,       \* the thread that calls Disconnect
    IO,         \* the IO thread
    realOf      \* the real peer address of each handler

Threads == Senders \union {Disc, IO}

\* The threads differ.
HandlersAssumption ==
    /\ NoHandler \notin Handlers
    /\ Disc # IO /\ Disc \notin Senders /\ IO \notin Senders

VARIABLES
    mem,                \* each handler: "new", "live" or "freed"
    m_iRef,             \* its reference count
    m_pOwnEvWorker,     \* handlers that know their EventWorker
    adding,             \* where connect's AddEvent stands for a handler
    m_hmap_workers,     \* the handler of the peer, or NoHandler
    m_hmap_rp_lp,       \* real addresses of the peer
    m_lAddEpExtEvents,  \* handlers to be registered
    m_lRwOpExtEvents,   \* handlers with an external write event
    m_lDelEpExtEvents,  \* handlers to be deleted
    epoll,              \* registered handlers
    loop,               \* the IO thread: where, events left, pending deletions
    thr,                \* what each thread does with which handler
    undefined,          \* a freed handler was touched
    miscounted          \* handlers the count fails (history; see HandlersAlive)

manager == <<m_hmap_workers, m_hmap_rp_lp>>
queues == <<m_lAddEpExtEvents, m_lRwOpExtEvents, m_lDelEpExtEvents, epoll>>
ghosts == <<undefined, miscounted>>
vars == <<mem, m_iRef, m_pOwnEvWorker, adding, manager, queues, loop, thr, ghosts>>

Idle == [at |-> "idle", h |-> NoHandler]

Init ==
    /\ mem = [h \in Handlers |-> "new"]
    /\ m_iRef = [h \in Handlers |-> 1]
    /\ m_pOwnEvWorker = {}
    /\ adding = [h \in Handlers |-> "connect"]
    /\ m_hmap_workers = NoHandler /\ m_hmap_rp_lp = {}
    /\ m_lAddEpExtEvents = {} /\ m_lRwOpExtEvents = {} /\ m_lDelEpExtEvents = {}
    /\ epoll = {}
    /\ loop = [at |-> "wait", evs |-> {}, dels |-> {}]
    /\ thr = [t \in Threads |-> Idle]
    /\ undefined = FALSE /\ miscounted = {}

Alive(h) == mem[h] = "live"

\* Thread t stands at `here` with a handler that is still there to be touched,
\* and goes on to `there`.
Touch(t, here, there) ==
    /\ thr[t].at = here
    /\ Alive(thr[t].h)
    /\ thr' = [thr EXCEPT ![t] = IF there = "idle" THEN Idle ELSE [@ EXCEPT !.at = there]]

----------------------------------------------------------------------------
(***************************************************************************)
(* connect: the handshake ends in on_logic_connect, which puts the handler *)
(* into the manager unless the peer has one; only then is it registered.   *)
(***************************************************************************)
PutWorkerEventHandler(h) ==
    /\ adding[h] = "connect"
    /\ \/ /\ m_hmap_workers = NoHandler
          /\ m_hmap_workers' = h
          /\ m_hmap_rp_lp' = m_hmap_rp_lp \union {realOf[h]}
          /\ mem' = [mem EXCEPT ![h] = "live"]
          /\ adding' = [adding EXCEPT ![h] = "own"]
       \/ /\ m_hmap_workers # NoHandler
          /\ adding' = [adding EXCEPT ![h] = "done"]
          /\ mem' = [mem EXCEPT ![h] = "freed"]
          /\ UNCHANGED manager
    /\ UNCHANGED <<m_iRef, m_pOwnEvWorker, queues, loop, thr, ghosts>>

SetOwnWorker(h) ==
    /\ adding[h] = "own" /\ Alive(h)
    /\ adding' = [adding EXCEPT ![h] = "add"]
    /\ m_pOwnEvWorker' = m_pOwnEvWorker \union {h}
    /\ UNCHANGED <<mem, m_iRef, manager, queues, loop, thr, ghosts>>

AddExternalEpAddEvent(h) ==
    /\ adding[h] = "add"
    /\ adding' = [adding EXCEPT ![h] = "done"]
    /\ m_lAddEpExtEvents' = m_lAddEpExtEvents \union {h}
    /\ UNCHANGED <<mem, m_iRef, m_pOwnEvWorker, manager, m_lRwOpExtEvents,
                   m_lDelEpExtEvents, epoll, loop, thr, ghosts>>

connect(h) == PutWorkerEventHandler(h) \/ SetOwnWorker(h) \/ AddExternalEpAddEvent(h)

----------------------------------------------------------------------------
(***************************************************************************)
(* NBSocketService::SendMessage and Disconnect.                            *)
(***************************************************************************)
\* The handler t borrows, if another sender has yet to release it: the GetRef of
\* one release may now drop the other's reference with the higher bits.
Shared(t) ==
    {h \in {m_hmap_workers} : \E u \in Senders \ {t} :
        thr[u].h = h /\ thr[u].at \in {"use", "sub", "get"}}

\* A mutant of GetWorkerEventHandlerWithRef: the reference is forgotten.
GetWorkerEventHandlerNoRef(t) ==
    /\ t \in Senders /\ thr[t] = Idle
    /\ m_hmap_workers # NoHandler /\ Alive(m_hmap_workers)
    /\ thr' = [thr EXCEPT ![t] = [at |-> "use", h |-> m_hmap_workers]]
    /\ miscounted' = miscounted \union Shared(t)
    /\ UNCHANGED <<mem, m_iRef, m_pOwnEvWorker, adding, manager, queues, loop, undefined>>

GetWorkerEventHandlerWithRef(t) ==
    /\ t \in Senders /\ thr[t] = Idle
    /\ m_hmap_workers # NoHandler /\ Alive(m_hmap_workers)
    /\ m_iRef' = [m_iRef EXCEPT ![m_hmap_workers] = @ + 1]
    /\ thr' = [thr EXCEPT ![t] = [at |-> "use", h |-> m_hmap_workers]]
    /\ miscounted' = miscounted \union Shared(t)
    /\ UNCHANGED <<mem, m_pOwnEvWorker, adding, manager, queues, loop, undefined>>

\* The message worker's SendMessage, which queues a write event if it finds the
\* message queue empty.  (Without an EventWorker it crashes; see NetSend.)
UseWorker(t) ==
    /\ Touch(t, "use", "sub")
    /\ \/ UNCHANGED m_lRwOpExtEvents
       \/ /\ thr[t].h \in m_pOwnEvWorker
          /\ m_lRwOpExtEvents' = m_lRwOpExtEvents \union {thr[t].h}
    /\ UNCHANGED <<mem, m_iRef, m_pOwnEvWorker, adding, manager, m_lAddEpExtEvents,
                   m_lDelEpExtEvents, epoll, loop, ghosts>>

\* A mutant of Disconnect: the handler is released but stays in the manager.
DisconnectKeep ==
    /\ thr[Disc] = Idle
    /\ m_hmap_workers # NoHandler /\ Alive(m_hmap_workers)
    /\ thr' = [thr EXCEPT ![Disc] = [at |-> "sub", h |-> m_hmap_workers]]
    /\ UNCHANGED <<mem, m_iRef, m_pOwnEvWorker, adding, manager, queues, loop, ghosts>>

\* RemoveWorkerEventHandler(logicNpt), then ClearMessage.
Disconnect ==
    /\ thr[Disc] = Idle
    /\ m_hmap_workers # NoHandler /\ Alive(m_hmap_workers)
    /\ thr' = [thr EXCEPT ![Disc] = [at |-> "sub", h |-> m_hmap_workers]]
    /\ m_hmap_workers' = NoHandler
    /\ m_hmap_rp_lp' = m_hmap_rp_lp \ {realOf[m_hmap_workers]}
    /\ UNCHANGED <<mem, m_iRef, m_pOwnEvWorker, adding, queues, loop, ghosts>>

----------------------------------------------------------------------------
(***************************************************************************)
(* AFileEventHandler::Release, by any of the threads.                      *)
(***************************************************************************)
ReleaseSub(t) ==
    /\ Touch(t, "sub", "get")
    /\ m_iRef' = [m_iRef EXCEPT ![thr[t].h] = @ - 1]
    /\ UNCHANGED <<mem, m_pOwnEvWorker, adding, manager, queues, loop, ghosts>>

\* What __sync_fetch_and_and(&ref, 1) leaves in ref.
LowestBit(ref) == ref % 2

ReleaseGetRef(t) ==
    LET h == thr[t].h
    IN  /\ Touch(t, "get", IF m_iRef[h] = 0 /\ h \in m_pOwnEvWorker THEN "del" ELSE "idle")
        /\ m_iRef' = [m_iRef EXCEPT ![h] = LowestBit(@)]
        /\ UNCHANGED <<mem, m_pOwnEvWorker, adding, manager, queues, loop, ghosts>>

AddExternalEpDelEvent(t) ==
    /\ Touch(t, "del", "wakeup")
    /\ m_lDelEpExtEvents' = m_lDelEpExtEvents \union {thr[t].h}
    /\ UNCHANGED <<mem, m_iRef, m_pOwnEvWorker, adding, manager, m_lAddEpExtEvents,
                   m_lRwOpExtEvents, epoll, loop, ghosts>>

\* m_pOwnEvWorker->Wakeup() reads the handler once more.
ReleaseWakeup(t) ==
    /\ Touch(t, "wakeup", "idle")
    /\ UNCHANGED <<mem, m_iRef, m_pOwnEvWorker, adding, manager, queues, loop, ghosts>>

Release(t) ==
    ReleaseSub(t) \/ ReleaseGetRef(t) \/ AddExternalEpDelEvent(t) \/ ReleaseWakeup(t)

----------------------------------------------------------------------------
(***************************************************************************)
(* worker_loop.  While on_finish releases a handler the loop waits for it. *)
(***************************************************************************)
InLoop(here) == loop.at = here /\ thr[IO] = Idle

\* epoll reports any of the registered handlers.
EventWait ==
    /\ InLoop("wait")
    /\ \E evs \in SUBSET epoll : loop' = [loop EXCEPT !.at = "dels", !.evs = evs]
    /\ UNCHANGED <<mem, m_iRef, m_pOwnEvWorker, adding, manager, queues, thr, ghosts>>

\* The handlers to be deleted leave epoll and lose their events.
GetExternalEpDelEvents ==
    /\ InLoop("dels")
    /\ \A h \in m_lDelEpExtEvents : Alive(h)
    /\ loop' = [at |-> "internal", evs |-> loop.evs \ m_lDelEpExtEvents,
                dels |-> m_lDelEpExtEvents]
    /\ epoll' = epoll \ m_lDelEpExtEvents
    /\ m_lDelEpExtEvents' = {}
    /\ UNCHANGED <<mem, m_iRef, m_pOwnEvWorker, adding, manager, m_lAddEpExtEvents,
                   m_lRwOpExtEvents, thr, ghosts>>

\* process_event, when reading and writing go well.
process_event(h) ==
    /\ InLoop("internal") \/ InLoop("external")
    /\ h \in loop.evs /\ Alive(h)
    /\ loop' = [loop EXCEPT !.evs = @ \ {h}]
    /\ UNCHANGED <<mem, m_iRef, m_pOwnEvWorker, adding, manager, queues, thr, ghosts>>

\* process_event fails: on_finish removes the peer's handler if the real address
\* is known, and then releases the handler that failed.  They are not the same
\* if the peer's next handler has the address of the one that failed, as with
\* connect(), where it is the address the peer listens on.
on_finish(h) ==
    /\ InLoop("internal") \/ InLoop("external")
    /\ h \in loop.evs /\ Alive(h)
    /\ loop' = [loop EXCEPT !.evs = @ \ {h}]
    /\ m_hmap_rp_lp' = m_hmap_rp_lp \ {realOf[h]}
    /\ IF realOf[h] \in m_hmap_rp_lp /\ m_hmap_workers # NoHandler
       THEN /\ m_hmap_workers' = NoHandler
            /\ thr' = [thr EXCEPT ![IO] = [at |-> "sub", h |-> h]]
            /\ miscounted' = miscounted \union
                 (IF m_hmap_workers = h THEN {} ELSE {h, m_hmap_workers})
       ELSE UNCHANGED <<m_hmap_workers, thr, miscounted>>
    /\ UNCHANGED <<mem, m_iRef, m_pOwnEvWorker, adding, queues, undefined>>

GetExternalRWOpEvents ==
    /\ InLoop("internal") /\ loop.evs = {}
    /\ loop' = [loop EXCEPT !.at = "external", !.evs = m_lRwOpExtEvents \ loop.dels]
    /\ m_lRwOpExtEvents' = {}
    /\ UNCHANGED <<mem, m_iRef, m_pOwnEvWorker, adding, manager, m_lAddEpExtEvents,
                   m_lDelEpExtEvents, epoll, thr, ghosts>>

DeleteHandlers ==
    /\ InLoop("external") /\ loop.evs = {} /\ \A h \in loop.dels : Alive(h)
    /\ mem' = [h \in Handlers |-> IF h \in loop.dels THEN "freed" ELSE mem[h]]
    /\ loop' = [loop EXCEPT !.at = "adds", !.dels = {}]
    /\ UNCHANGED <<m_iRef, m_pOwnEvWorker, adding, manager, queues, thr, ghosts>>

GetExternalEpAddEvents ==
    /\ InLoop("adds")
    /\ \A h \in m_lAddEpExtEvents : Alive(h)
    /\ epoll' = epoll \union m_lAddEpExtEvents
    /\ m_lAddEpExtEvents' = {}
    /\ loop' = [loop EXCEPT !.at = "wait"]
    /\ UNCHANGED <<mem, m_iRef, m_pOwnEvWorker, adding, manager, m_lRwOpExtEvents,
                   m_lDelEpExtEvents, thr, ghosts>>

worker_loop ==
    \/ EventWait \/ GetExternalEpDelEvents
    \/ \E h \in Handlers : process_event(h) \/ on_finish(h)
    \/ GetExternalRWOpEvents \/ DeleteHandlers \/ GetExternalEpAddEvents

\* Handlers that a thread, the manager's next caller, connect or the loop is
\* about to touch.
Due ==
    {thr[t].h : t \in {u \in Threads : thr[u] # Idle}}
      \union ({m_hmap_workers} \ {NoHandler})
      \union {h \in Handlers : adding[h] = "own"}
      \union (CASE loop.at = "dels" -> m_lDelEpExtEvents
                [] loop.at \in {"internal", "external"} -> loop.evs \union loop.dels
                [] loop.at = "adds" -> m_lAddEpExtEvents
                [] OTHER -> {})

TouchFreed ==
    /\ \E h \in Due : mem[h] = "freed"
    /\ undefined' = TRUE
    /\ UNCHANGED <<mem, m_iRef, m_pOwnEvWorker, adding, manager, queues, loop, thr, miscounted>>

Next ==
    /\ ~undefined
    /\ \/ \E h \in Handlers : connect(h)
       \/ \E t \in Senders : GetWorkerEventHandlerWithRef(t) \/ UseWorker(t)
       \/ Disconnect
       \/ \E t \in Threads : Release(t)
       \/ worker_loop
       \/ TouchFreed

Spec == Init /\ [][Next]_vars

----------------------------------------------------------------------------
\* The types of the handlers' state, the manager and the loop.
TypeOK ==
    /\ mem \in [Handlers -> {"new", "live", "freed"}]
    /\ m_iRef \in [Handlers -> Int]
    /\ m_pOwnEvWorker \subseteq Handlers
    /\ adding \in [Handlers -> {"connect", "own", "add", "done"}]
    /\ m_hmap_workers \in Handlers \union {NoHandler}
    /\ m_hmap_rp_lp \subseteq {realOf[h] : h \in Handlers}
    /\ m_lAddEpExtEvents \subseteq Handlers /\ m_lRwOpExtEvents \subseteq Handlers
    /\ m_lDelEpExtEvents \subseteq Handlers /\ epoll \subseteq Handlers
    /\ loop \in [at : {"wait", "dels", "internal", "external", "adds"},
                 evs : SUBSET Handlers, dels : SUBSET Handlers]
    /\ thr \in [Threads -> {Idle} \union
                  [at : {"use", "sub", "get", "del", "wakeup"}, h : Handlers]]
    /\ undefined \in BOOLEAN /\ miscounted \subseteq Handlers

\* The handler a sender can still obtain from the manager has not been freed,
\* and the manager's own reference is counted.
ManagedAlive(h) == m_hmap_workers = h => Alive(h) /\ m_iRef[h] > 0

\* No thread with a reference to give back, and no event the loop is to process,
\* finds the handler freed.
InUseAlive(h) ==
    /\ \A t \in Threads : thr[t].at \in {"use", "sub"} /\ thr[t].h = h => Alive(h)
    /\ loop.at \in {"internal", "external"} /\ h \in loop.evs => Alive(h)

\* nb-socket-service.cc, of on_finish: Disconnect cannot have the handler freed
\* while on_finish still uses it, to the end of its Release.
FinishAlive == thr[IO] # Idle => Alive(thr[IO].h)

\* No handler is freed under the manager, a thread that holds a reference or the
\* loop, until the count fails it, because two senders borrowed it at a time or
\* on_finish released a handler other than the one it removed; on_finish may
\* rely on its handler even then.
HandlersAlive ==
    FinishAlive /\ \A h \in Handlers \ miscounted : ManagedAlive(h) /\ InUseAlive(h)

Holds(t, h) == thr[t].h = h /\ thr[t].at \in {"use", "sub"} /\ t \in Senders

\* reference-counter.h: GetRef returns "the current reference count".  The count
\* covers the manager's reference and every sender that has yet to release.
CountKept ==
    \A h \in Handlers : m_hmap_workers = h =>
        m_iRef[h] >= 1 /\ \A t \in Senders : Holds(t, h) => m_iRef[h] >= 2
============================================================================
