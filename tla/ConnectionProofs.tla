-------------------------- MODULE ConnectionProofs --------------------------
(***************************************************************************)
(* Proofs about connections: the life of the handlers that serve them, and *)
(* the handshake by which two nodes agree on one, for any number of        *)
(* connections they open to each other.                                    *)
(***************************************************************************)
EXTENDS Connections, HandlerUse, Integers, Sequences, FiniteSets, TLAPS

LifeBit(b) == IF b THEN 1 ELSE 0

\* Thread t has handler h in its hands.
LifeRefers(t, h) == thr[t].at # "idle" /\ thr[t].h = h

\* The reference made with the handler: the manager has it, or the thread that
\* took the handler out of the manager and has not given the reference up.
LifeMain(h) ==
        \/ m_hmap_workers = h
        \/ \E t \in {Disc, IO} : thr[t].at = "sub" /\ thr[t].h = h

\* A sender that has borrowed the handler and not yet looked at the count it left.
LifeBusy(t, h) == thr[t].at \in {"use", "sub", "get"} /\ thr[t].h = h

\* The reference of a sender.
LifeHeld(h) == \E t \in Senders : thr[t].at \in {"use", "sub"} /\ thr[t].h = h

\* The handler is about to be deleted, or was.
LifeDoomed(h) ==
    \/ mem[h] = "freed" \/ h \in toDelete \/ h \in ioLoop.dels
    \/ \E t \in Life!Threads : thr[t].at \in {"del", "wakeup"} /\ thr[t].h = h

\* A handler nobody knows before connect has put it into the manager.
LifeUnborn(h) ==
    mem[h] = "new" => /\ m_iRef[h] = 1 /\ ~LifeMain(h) /\ ~LifeHeld(h) /\ ~LifeDoomed(h)
                      /\ \A t \in Life!Threads : ~LifeRefers(t, h)

\* The count is what it should be, and a handler in use is not on its way out.
LifeCounted(h) ==
    /\ mem[h] = "live" => m_iRef[h] = LifeBit(LifeMain(h)) + LifeBit(LifeHeld(h))
    /\ LifeDoomed(h) => ~LifeMain(h) /\ ~LifeHeld(h)

\* A handler is borrowed by one sender at a time, and taken out of the manager by
\* one thread, for good.
LifeAlone(h) ==
    /\ \A t, u \in Senders : LifeBusy(t, h) /\ LifeBusy(u, h) => t = u
    /\ \A t \in {Disc, IO} : LifeRefers(t, h) => m_hmap_workers # h
    /\ ~(LifeRefers(Disc, h) /\ LifeRefers(IO, h))

\* What the loop has registered or is to process has not been deleted.
LifeRegistered(h) ==
    /\ h \in epoll \union toWrite => mem[h] = "live"
    /\ h \in ioLoop.evs =>
         /\ ioLoop.at \in {"dels", "internal"} => h \in epoll
         /\ ioLoop.at = "external" => mem[h] = "live"
    /\ h \in ioLoop.dels =>
         /\ ioLoop.at \in {"internal", "external"} /\ h \notin epoll
         /\ ioLoop.at = "external" => h \notin toWrite

LifePerHandler(h) == LifeUnborn(h) /\ LifeCounted(h) /\ LifeAlone(h) /\ LifeRegistered(h)

\* The manager's two maps name the same handler.
LifeAddresses ==
    m_hmap_rp_lp = IF m_hmap_workers = NoHandler THEN {} ELSE {realOf[m_hmap_workers]}

\* What holds of every handler: connect makes it, and on_finish may rely on it.
LifeCommon ==
    /\ Life!TypeOK /\ LifeAddresses /\ Life!FinishAlive
    /\ \A h \in Handlers : mem[h] = "new" <=> adding[h] = "connect"
    /\ \A t \in {Disc, IO} : thr[t].at # "use"

\* The handlers the count has not failed.
LifeSound == Handlers \ miscounted

LifeIInv == LifeCommon /\ \A h \in LifeSound : LifePerHandler(h)

\* At first no handler was made known to anybody.
LEMMA LifeInitIInv == Life!HandlersAssumption /\ Life!Init => LifeIInv
  <1> SUFFICES ASSUME Life!HandlersAssumption, Life!Init PROVE LifeIInv
    BY Zenon
  <1>2. \A t \in Life!Threads : thr[t].at = "idle" /\ thr[t] = Life!Idle
    BY Zenon DEF Life!Init, Life!Idle
  <1>3. Disc \in Life!Threads /\ IO \in Life!Threads /\ Senders \subseteq Life!Threads
    BY Zenon DEF Life!Threads
  <1>1. LifeCommon
    <2>0. ioLoop \in [at : {"wait", "dels", "internal", "external", "adds"},
                     evs : SUBSET Handlers, dels : SUBSET Handlers]
      BY DEF Life!Init
    <2>4. m_iRef \in [Handlers -> Int]
      BY DEF Life!Init
    <2>7. LifeAddresses /\ miscounted \subseteq Handlers /\ touched \in BOOLEAN
      BY Zenon DEF Life!Init, LifeAddresses
    <2>5. mem \in [Handlers -> {"new", "live", "freed"}] /\ adding \in [Handlers -> {"connect", "own", "add", "done"}]
      BY DEF Life!Init
    <2>6. thr \in [Life!Threads -> {Life!Idle} \union
                      [at : {"use", "sub", "get", "del", "wakeup"}, h : Handlers]]
      BY Zenon DEF Life!Init
    <2>1. Life!TypeOK /\ LifeAddresses
      BY Zenon, <2>0, <2>4, <2>5, <2>6, <2>7 DEF Life!Init, Life!TypeOK
    <2>2. Life!FinishAlive /\ \A t \in {Disc, IO} : thr[t].at # "use"
      BY <1>2, <1>3 DEF Life!FinishAlive
    <2>3. \A h \in Handlers : mem[h] = "new" <=> adding[h] = "connect"
      BY Zenon DEF Life!Init
    <2> QED
      BY Zenon, <2>1, <2>2, <2>3 DEF LifeCommon
  <1>4. ASSUME NEW h \in Handlers PROVE ~LifeMain(h) /\ ~LifeHeld(h) /\ ~LifeDoomed(h) /\ m_hmap_workers # h
    BY Zenon, <1>2, <1>3 DEF Life!HandlersAssumption, Life!Init, LifeMain, LifeHeld, LifeDoomed
  <1>5. ASSUME NEW h \in Handlers PROVE LifePerHandler(h)
    <2>1. LifeUnborn(h) /\ LifeCounted(h) /\ LifeRegistered(h)
      BY Zenon, <1>2, <1>3, <1>4 DEF Life!Init, LifeUnborn, LifeCounted, LifeRegistered, LifeRefers
    <2>2. LifeAlone(h)
      BY <1>2, <1>3 DEF LifeAlone, LifeBusy, LifeRefers
    <2> QED
      BY Zenon, <2>1, <2>2 DEF LifePerHandler
  <1> QED
    BY Zenon, <1>1, <1>5 DEF LifeIInv, LifeSound

\* A step that changes nothing about who refers to a handler.
LEMMA LifeStay ==
  ASSUME NEW h \in Handlers, LifePerHandler(h), UNCHANGED <<mem[h], m_iRef[h]>>,
         LifeMain(h)' <=> LifeMain(h), LifeHeld(h)' <=> LifeHeld(h), LifeDoomed(h)' => LifeDoomed(h),
         (m_hmap_workers = h)' => m_hmap_workers = h,
         \A t \in Life!Threads : (LifeRefers(t, h)' => LifeRefers(t, h)) /\ (LifeBusy(t, h)' => LifeBusy(t, h))
  PROVE  LifeUnborn(h)' /\ LifeCounted(h)' /\ LifeAlone(h)'
  <1> USE DEF LifePerHandler
  <1>1. Disc \in Life!Threads /\ IO \in Life!Threads /\ Senders \subseteq Life!Threads
    BY Zenon DEF Life!Threads
  <1>2. LifeUnborn(h)'
    BY Zenon DEF LifeUnborn
  <1>3. LifeCounted(h)'
    BY Zenon DEF LifeCounted, LifeBit
  <1>4. LifeAlone(h)'
    BY Zenon, <1>1 DEF LifeAlone
  <1> QED
    BY Zenon, <1>2, <1>3, <1>4

\* A step that changes no thread and no manager keeps the references.
LEMMA LifeSameThreads ==
  ASSUME NEW h \in Handlers, LifePerHandler(h), UNCHANGED <<mem[h], m_iRef[h]>>,
         UNCHANGED <<m_hmap_workers, thr>>, LifeDoomed(h)' => LifeDoomed(h)
  PROVE  LifeUnborn(h)' /\ LifeCounted(h)' /\ LifeAlone(h)'
  <1>1. (LifeMain(h)' <=> LifeMain(h)) /\ (LifeHeld(h)' <=> LifeHeld(h))
    BY Zenon DEF LifeMain, LifeHeld
  <1>2. \A t \in Life!Threads : (LifeRefers(t, h)' => LifeRefers(t, h)) /\ (LifeBusy(t, h)' => LifeBusy(t, h))
    BY Zenon DEF LifeRefers, LifeBusy
  <1> QED
    BY Zenon, <1>1, <1>2, LifeStay

\* A step that leaves the loop's sets and the memory alone keeps Registered.
LEMMA LifeSameLoop ==
  ASSUME NEW h \in Handlers, LifePerHandler(h),
         UNCHANGED <<mem[h], epoll, toWrite, ioLoop>>
  PROVE  LifeRegistered(h)'
  BY Zenon DEF LifePerHandler, LifeRegistered

\* A step in which the IO thread and the handlers stay as they are.
LEMMA LifeSameCommon ==
  ASSUME LifeCommon, Life!TypeOK', UNCHANGED <<mem, adding, Life!manager>>,
         thr'[IO] = thr[IO], thr'[Disc].at # "use"
  PROVE  LifeCommon'
  <1>1. Life!FinishAlive'
    BY Zenon DEF LifeCommon, Life!FinishAlive, Life!Alive
  <1>2. LifeAddresses' /\ \A h \in Handlers : mem'[h] = "new" <=> adding'[h] = "connect"
    BY Zenon DEF LifeCommon, LifeAddresses, Life!manager
  <1>3. \A t \in {Disc, IO} : thr'[t].at # "use"
    BY Zenon DEF LifeCommon
  <1> QED
    BY Zenon, <1>1, <1>2, <1>3 DEF LifeCommon

\* What Touch does to the threads.
LEMMA LifeTouched ==
  ASSUME Life!TypeOK, Life!HandlersAssumption, NEW t \in Life!Threads, NEW here, NEW there, here # "idle",
         there \in {"idle", "sub", "get", "del", "wakeup"}, Life!Touch(t, here, there)
  PROVE  /\ thr[t].at = here /\ thr[t].h \in Handlers /\ mem[thr[t].h] = "live"
         /\ thr' \in [Life!Threads -> {Life!Idle} \union
                        [at : {"use", "sub", "get", "del", "wakeup"}, h : Handlers]]
         /\ thr'[t].at = there /\ (there # "idle" => thr'[t].h = thr[t].h)
         /\ \A u \in Life!Threads \ {t} : thr'[u] = thr[u]
  <1>1. thr[t].at = here /\ thr[t].h \in Handlers /\ mem[thr[t].h] = "live" /\ thr[t] # Life!Idle
    BY DEF Life!Touch, Life!Alive, Life!TypeOK, Life!Idle
  <1>2. CASE there = "idle"
    BY Zenon, <1>1, <1>2 DEF Life!Touch, Life!TypeOK, Life!Idle
  <1>3. CASE there # "idle"
    <2> DEFINE r == [thr[t] EXCEPT !.at = there]
    <2>1. thr' = [thr EXCEPT ![t] = r]
      BY Zenon, <1>3 DEF Life!Touch
    <2>2. r \in [at : {"use", "sub", "get", "del", "wakeup"}, h : Handlers]
          /\ r.at = there /\ r.h = thr[t].h
      BY <1>1, <1>3 DEF Life!TypeOK
    <2> QED
      BY Zenon, <1>1, <2>1, <2>2 DEF Life!TypeOK
  <1> QED
    BY Zenon, <1>2, <1>3

\* connect makes one handler known, or frees it unseen.
LEMMA LifeConnectIInv ==
  ASSUME Life!HandlersAssumption, LifeIInv, NEW h \in Handlers, Life!connect(h)
  PROVE  LifeIInv'
  <1> USE DEF LifeIInv
  <1>0. /\ LifeCommon /\ Life!TypeOK /\ LifeSound \subseteq Handlers
        /\ IO \in Life!Threads /\ Disc \in Life!Threads /\ Senders \subseteq Life!Threads
    BY Zenon DEF LifeCommon, LifeSound, Life!Threads
  <1>9. miscounted' = miscounted /\ LifeSound' = LifeSound /\ UNCHANGED <<thr, ioLoop, m_iRef, toWrite, toDelete, epoll>>
    BY Zenon DEF Life!connect, Life!PutWorkerEventHandler, Life!SetOwnWorker, Life!AddExternalEpAddEvent,
                 Life!ghosts, Life!queues, LifeSound
  <1>8. ASSUME adding[h] = "connect" PROVE mem[h] = "new" /\ (thr[IO] # Life!Idle => thr[IO].h # h)
    BY Zenon, <1>0, <1>8 DEF LifeCommon, Life!FinishAlive, Life!Alive
  <1>1. CASE /\ adding[h] = "connect" /\ m_hmap_workers = NoHandler
             /\ m_hmap_workers' = h /\ m_hmap_rp_lp' = m_hmap_rp_lp \union {realOf[h]}
             /\ mem' = [mem EXCEPT ![h] = "live"] /\ adding' = [adding EXCEPT ![h] = "own"]
             /\ UNCHANGED <<m_iRef, owned, Life!queues, ioLoop, thr, Life!ghosts>>
    <2>1. Life!TypeOK'
      BY Zenon, <1>0, <1>1 DEF Life!TypeOK, Life!queues, Life!ghosts
    <2>2. LifeAddresses'
      BY <1>0, <1>1 DEF Life!HandlersAssumption, LifeCommon, LifeAddresses
    <2>5. LifeCommon'
      <3>1. Life!FinishAlive'
        <4>1. CASE thr[IO] = Life!Idle
          BY Zenon, <1>9, <4>1 DEF Life!FinishAlive
        <4>2. CASE thr[IO] # Life!Idle
          BY Zenon, <1>0, <1>1, <1>8, <4>2 DEF LifeCommon, Life!FinishAlive, Life!Alive, Life!TypeOK
        <4> QED
          BY Zenon, <4>1, <4>2
      <3>2. \A g \in Handlers : mem'[g] = "new" <=> adding'[g] = "connect"
        BY Zenon, <1>0, <1>1 DEF LifeCommon, Life!TypeOK
      <3> QED
        BY Zenon, <1>0, <1>9, <2>1, <2>2, <3>1, <3>2 DEF LifeCommon
    <2>3. ASSUME NEW g \in LifeSound \ {h} PROVE LifePerHandler(g)'
      <3>0. g \in Handlers /\ g # h /\ LifePerHandler(g)
        BY Zenon, <1>0
      <3>1. (LifeMain(g)' <=> LifeMain(g)) /\ (LifeHeld(g)' <=> LifeHeld(g))
        BY Zenon, <1>1, <3>0 DEF LifeMain, LifeHeld, Life!HandlersAssumption
      <3>2. LifeDoomed(g)' => LifeDoomed(g)
        BY Zenon, <1>0, <1>1, <3>0 DEF LifeDoomed, Life!queues, Life!TypeOK
      <3>3. UNCHANGED <<mem[g], m_iRef[g]>>
        BY Zenon, <1>0, <1>1, <3>0 DEF Life!TypeOK
      <3>4. \A t \in Life!Threads : (LifeRefers(t, g)' => LifeRefers(t, g)) /\ (LifeBusy(t, g)' => LifeBusy(t, g))
        BY Zenon, <1>9 DEF LifeRefers, LifeBusy
      <3>5. LifeUnborn(g)' /\ LifeCounted(g)' /\ LifeAlone(g)'
        BY Zenon, <1>1, <3>0, <3>1, <3>2, <3>3, <3>4, LifeStay
      <3> QED
        BY Zenon, <1>9, <3>0, <3>3, <3>5, LifeSameLoop DEF LifePerHandler
    <2>4. ASSUME h \in LifeSound PROVE LifePerHandler(h)'
      <3>1. /\ mem[h] = "new" /\ m_iRef[h] = 1 /\ ~LifeMain(h) /\ ~LifeHeld(h) /\ ~LifeDoomed(h)
            /\ \A t \in Life!Threads : ~LifeRefers(t, h)
        BY Zenon, <1>1, <1>8, <2>4 DEF LifePerHandler, LifeUnborn
      <3>2. LifeMain(h)' /\ ~LifeHeld(h)'
        BY Zenon, <1>1, <3>1 DEF LifeMain, LifeHeld
      <3>3. ~LifeDoomed(h)'
        BY Zenon, <1>0, <1>1, <3>1 DEF LifeDoomed, Life!queues, Life!TypeOK
      <3>4. mem'[h] = "live" /\ m_iRef'[h] = 1
        BY Zenon, <1>0, <1>1, <3>1 DEF Life!TypeOK
      <3>5. LifeUnborn(h)' /\ LifeCounted(h)'
        BY <3>2, <3>3, <3>4 DEF LifeUnborn, LifeCounted, LifeBit
      <3>6. LifeAlone(h)'
        <4>1. \A t \in Life!Threads : ~LifeRefers(t, h)' /\ ~LifeBusy(t, h)'
          BY <1>9, <3>1 DEF LifeRefers, LifeBusy
        <4> QED
          BY Zenon, <1>0, <4>1 DEF LifeAlone
      <3>7. LifeRegistered(h)'
        BY Zenon, <1>9, <2>4, <3>1, <3>4 DEF LifePerHandler, LifeRegistered
      <3> QED
        BY Zenon, <3>5, <3>6, <3>7 DEF LifePerHandler
    <2> QED
      BY Zenon, <1>9, <2>3, <2>4, <2>5
  <1>2. CASE /\ adding[h] = "connect"
             /\ adding' = [adding EXCEPT ![h] = "done"] /\ mem' = [mem EXCEPT ![h] = "freed"]
             /\ UNCHANGED <<m_iRef, owned, Life!manager, Life!queues, ioLoop, thr, Life!ghosts>>
    <2>1. Life!TypeOK' /\ LifeAddresses'
      BY Zenon, <1>0, <1>2 DEF Life!TypeOK, Life!queues, Life!manager, Life!ghosts, LifeCommon, LifeAddresses
    <2>4. LifeCommon'
      <3>1. Life!FinishAlive'
        <4>1. CASE thr[IO] = Life!Idle
          BY Zenon, <1>9, <4>1 DEF Life!FinishAlive
        <4>2. CASE thr[IO] # Life!Idle
          BY Zenon, <1>0, <1>2, <1>8, <4>2 DEF LifeCommon, Life!FinishAlive, Life!Alive, Life!TypeOK
        <4> QED
          BY Zenon, <4>1, <4>2
      <3>2. \A g \in Handlers : mem'[g] = "new" <=> adding'[g] = "connect"
        BY Zenon, <1>0, <1>2 DEF LifeCommon, Life!TypeOK
      <3> QED
        BY Zenon, <1>0, <1>9, <2>1, <3>1, <3>2 DEF LifeCommon
    <2>2. ASSUME NEW g \in LifeSound \ {h} PROVE LifePerHandler(g)'
      <3>0. g \in Handlers /\ g # h /\ LifePerHandler(g)
        BY Zenon, <1>0
      <3>1. UNCHANGED <<mem[g], m_iRef[g]>>
        BY Zenon, <1>0, <1>2, <3>0 DEF Life!TypeOK
      <3>2. LifeDoomed(g)' => LifeDoomed(g)
        BY Zenon, <1>2, <3>1 DEF LifeDoomed, Life!queues
      <3> QED
        BY Zenon, <1>2, <3>0, <3>1, <3>2, LifeSameThreads, LifeSameLoop DEF LifePerHandler, Life!queues, Life!manager
    <2>3. ASSUME h \in LifeSound PROVE LifePerHandler(h)'
      <3>1. /\ mem[h] = "new" /\ ~LifeMain(h) /\ ~LifeHeld(h)
            /\ \A t \in Life!Threads : ~LifeRefers(t, h)
        BY Zenon, <1>2, <1>8, <2>3 DEF LifePerHandler, LifeUnborn
      <3>2. ~LifeMain(h)' /\ ~LifeHeld(h)'
        BY Zenon, <1>2, <3>1 DEF LifeMain, LifeHeld, Life!manager
      <3>3. mem'[h] = "freed"
        BY Zenon, <1>0, <1>2, <3>1 DEF Life!TypeOK
      <3>4. LifeUnborn(h)' /\ LifeCounted(h)'
        BY Zenon, <3>2, <3>3 DEF LifeUnborn, LifeCounted
      <3>5. LifeAlone(h)'
        <4>1. \A t \in Life!Threads : ~LifeRefers(t, h)' /\ ~LifeBusy(t, h)'
          BY <1>9, <3>1 DEF LifeRefers, LifeBusy
        <4> QED
          BY Zenon, <1>0, <4>1 DEF LifeAlone
      <3>6. h \notin epoll \union toWrite
        BY Zenon, <2>3, <3>1 DEF LifePerHandler, LifeRegistered
      <3>7. h \notin ioLoop.evs \/ ioLoop.at \notin {"dels", "internal", "external"}
        BY Zenon, <2>3, <3>1, <3>6 DEF LifePerHandler, LifeRegistered
      <3>8. LifeRegistered(h)'
        BY Zenon, <1>9, <2>3, <3>1, <3>6, <3>7 DEF LifePerHandler, LifeRegistered
      <3> QED
        BY Zenon, <3>4, <3>5, <3>8 DEF LifePerHandler
    <2> QED
      BY Zenon, <1>9, <2>2, <2>3, <2>4
  <1>3. CASE /\ adding[h] # "connect" /\ \E x \in {"add", "done"} : adding' = [adding EXCEPT ![h] = x]
             /\ Life!TypeOK'
             /\ UNCHANGED <<mem, m_iRef, Life!manager, toWrite, toDelete, epoll, ioLoop, thr>>
    <2>1. LifeCommon'
      <3>1. Life!FinishAlive' /\ LifeAddresses'
        BY Zenon, <1>0, <1>3 DEF LifeCommon, Life!FinishAlive, Life!Alive, LifeAddresses, Life!manager
      <3>2. \A g \in Handlers : mem'[g] = "new" <=> adding'[g] = "connect"
        BY Zenon, <1>0, <1>3 DEF LifeCommon, Life!TypeOK
      <3> QED
        BY Zenon, <1>0, <1>3, <3>1, <3>2 DEF LifeCommon
    <2>2. ASSUME NEW g \in LifeSound PROVE LifePerHandler(g)'
      <3>1. g \in Handlers /\ LifePerHandler(g)
        BY Zenon, <1>0
      <3>2. LifeDoomed(g)' <=> LifeDoomed(g)
        BY Zenon, <1>3 DEF LifeDoomed
      <3> QED
        BY Zenon, <1>3, <3>1, <3>2, LifeSameThreads, LifeSameLoop DEF LifePerHandler, Life!manager
    <2> QED
      BY Zenon, <1>9, <2>1, <2>2
  <1>4. CASE Life!SetOwnWorker(h)
    BY Zenon, <1>0, <1>3, <1>4 DEF Life!SetOwnWorker, Life!TypeOK, Life!queues, Life!manager, Life!ghosts
  <1>5. CASE Life!AddExternalEpAddEvent(h)
    BY Zenon, <1>0, <1>3, <1>5 DEF Life!AddExternalEpAddEvent, Life!TypeOK, Life!manager, Life!ghosts
  <1> QED
    BY Zenon, <1>1, <1>2, <1>4, <1>5 DEF Life!connect, Life!PutWorkerEventHandler

\* A sender borrows a handler.
LEMMA LifeGetIInv ==
  ASSUME Life!HandlersAssumption, LifeIInv, NEW t \in Senders, Life!GetWorkerEventHandlerWithRef(t)
  PROVE  LifeIInv'
  <1> USE DEF LifeIInv
  <1>0. LifeCommon /\ Life!TypeOK /\ LifeSound' \subseteq LifeSound /\ LifeSound \subseteq Handlers
    BY Zenon DEF LifeCommon, LifeSound, Life!GetWorkerEventHandlerWithRef
  <1>1. PICK h \in Handlers : h = m_hmap_workers
    BY Zenon, <1>0 DEF Life!GetWorkerEventHandlerWithRef, Life!TypeOK
  <1>2. /\ thr[t].at = "idle" /\ t \in Life!Threads /\ t # Disc /\ t # IO
        /\ thr' = [thr EXCEPT ![t] = [at |-> "use", h |-> h]]
        /\ m_iRef' = [m_iRef EXCEPT ![h] = @ + 1]
        /\ miscounted' = miscounted \union Life!Shared(t)
        /\ UNCHANGED <<mem, owned, adding, Life!manager, Life!queues, ioLoop, touched>>
    BY <1>1 DEF Life!GetWorkerEventHandlerWithRef, Life!Idle, Life!Threads, Life!HandlersAssumption
  <1>4. /\ thr'[t].at = "use" /\ thr'[t].h = h /\ \A u \in Life!Threads \ {t} : thr'[u] = thr[u]
        /\ Disc \in Life!Threads \ {t} /\ IO \in Life!Threads \ {t} /\ Senders \subseteq Life!Threads
    BY Zenon, <1>0, <1>2 DEF Life!TypeOK, Life!Threads
  <1>3. LifeCommon'
    <2>1. Life!Shared(t) \subseteq Handlers
      BY Zenon, <1>1 DEF Life!Shared
    <2>2. Life!TypeOK'
      BY <1>0, <1>2, <2>1 DEF Life!TypeOK, Life!manager, Life!queues
    <2> QED
      BY Zenon, <1>0, <1>2, <1>4, <2>2, LifeSameCommon DEF LifeCommon
  <1>5. \A g \in Handlers : (LifeMain(g)' <=> LifeMain(g)) /\ (LifeDoomed(g)' => LifeDoomed(g))
    BY <1>2, <1>4 DEF LifeMain, LifeDoomed, Life!manager, Life!queues
  <1>6. ASSUME NEW g \in LifeSound \ {h} PROVE LifePerHandler(g)'
    <2>0. g \in Handlers /\ g # h /\ LifePerHandler(g)
      BY Zenon, <1>0
    <2>1. LifeHeld(g)' <=> LifeHeld(g)
      BY Zenon, <1>2, <1>4, <2>0 DEF LifeHeld
    <2>2. \A u \in Life!Threads : (LifeRefers(u, g)' => LifeRefers(u, g)) /\ (LifeBusy(u, g)' => LifeBusy(u, g))
      BY Zenon, <1>4, <2>0 DEF LifeRefers, LifeBusy
    <2>3. UNCHANGED <<mem[g], m_iRef[g]>>
      BY Zenon, <1>0, <1>2, <2>0 DEF Life!TypeOK
    <2>4. LifeUnborn(g)' /\ LifeCounted(g)' /\ LifeAlone(g)'
      BY Zenon, <1>2, <1>5, <2>0, <2>1, <2>2, <2>3, LifeStay DEF Life!manager
    <2> QED
      BY Zenon, <1>2, <2>0, <2>4, LifeSameLoop DEF LifePerHandler, Life!queues
  <1>7. ASSUME h \in LifeSound' PROVE LifePerHandler(h)'
    <2>0. LifePerHandler(h) /\ \A u \in Senders \ {t} : ~LifeBusy(u, h)
      <3>1. h \notin Life!Shared(t)
        BY Zenon, <1>2, <1>7 DEF LifeSound
      <3> QED
        BY <1>0, <1>1, <1>7, <3>1 DEF Life!Shared, LifeBusy
    <2>1. LifeMain(h) /\ ~LifeHeld(h) /\ ~LifeDoomed(h) /\ mem[h] = "live"
      <3>1. LifeMain(h) /\ ~LifeHeld(h)
        BY <1>1, <1>2, <2>0 DEF LifeMain, LifeHeld, LifeBusy
      <3>2. ~LifeDoomed(h) /\ mem[h] # "new"
        BY Zenon, <2>0, <3>1 DEF LifePerHandler, LifeCounted, LifeUnborn
      <3> QED
        BY Zenon, <1>0, <3>1, <3>2 DEF LifeDoomed, Life!TypeOK
    <2>2. LifeHeld(h)'
      BY Zenon, <1>4 DEF LifeHeld
    <2>3. m_iRef'[h] = 2 /\ mem'[h] = "live"
      BY <1>0, <1>2, <2>0, <2>1 DEF LifePerHandler, LifeCounted, LifeBit, Life!TypeOK
    <2>4. LifeUnborn(h)' /\ LifeCounted(h)'
      BY <1>5, <2>1, <2>2, <2>3 DEF LifeUnborn, LifeCounted, LifeBit
    <2>5. LifeAlone(h)'
      <3>1. \A u \in Senders \ {t} : ~LifeBusy(u, h)'
        BY Zenon, <1>4, <2>0 DEF LifeBusy
      <3>2. \A u \in {Disc, IO} : LifeRefers(u, h)' <=> LifeRefers(u, h)
        BY <1>4 DEF LifeRefers
      <3> QED
        BY Zenon, <1>2, <2>0, <3>1, <3>2 DEF LifePerHandler, LifeAlone, Life!manager
    <2> QED
      BY Zenon, <1>2, <2>0, <2>4, <2>5, LifeSameLoop DEF LifePerHandler, Life!queues
  <1> QED
    BY Zenon, <1>0, <1>3, <1>6, <1>7

\* A sender that uses a handler finds it where it is.
LEMMA LifeUseIInv ==
  ASSUME Life!HandlersAssumption, LifeIInv, NEW t \in Senders, Life!UseWorker(t)
  PROVE  LifeIInv'
  <1> USE DEF LifeIInv
  <1>0. LifeCommon /\ Life!TypeOK /\ LifeSound \subseteq Handlers
    BY Zenon DEF LifeCommon, LifeSound
  <1>1. t \in Life!Threads /\ t # Disc /\ t # IO /\ Disc \in Life!Threads /\ IO \in Life!Threads
    BY Zenon DEF Life!Threads, Life!HandlersAssumption
  <1>2. PICK h \in Handlers : h = thr[t].h
    BY Zenon, <1>0, <1>1, LifeTouched DEF Life!UseWorker
  <1>3. /\ thr[t].at = "use" /\ mem[h] = "live"
        /\ thr' \in [Life!Threads -> {Life!Idle} \union
                        [at : {"use", "sub", "get", "del", "wakeup"}, h : Handlers]]
        /\ thr'[t].at = "sub" /\ thr'[t].h = h
        /\ \A u \in Life!Threads \ {t} : thr'[u] = thr[u]
    BY <1>0, <1>1, <1>2, LifeTouched DEF Life!UseWorker
  <1>4. /\ toWrite' \subseteq toWrite \union {h}
        /\ UNCHANGED <<mem, m_iRef, owned, adding, Life!manager, toAdd,
                       toDelete, epoll, ioLoop, Life!ghosts>>
    BY Zenon, <1>2 DEF Life!UseWorker
  <1>5. LifeCommon' /\ LifeSound' = LifeSound
    <2>1. Life!TypeOK'
      BY Zenon, <1>0, <1>3, <1>4 DEF Life!TypeOK, Life!manager, Life!ghosts
    <2> QED
      BY Zenon, <1>0, <1>1, <1>3, <1>4, <2>1, LifeSameCommon DEF LifeCommon, LifeSound, Life!ghosts
  <1>6. ASSUME NEW g \in LifeSound PROVE LifeUnborn(g)' /\ LifeCounted(g)' /\ LifeAlone(g)'
    <2>0. g \in Handlers /\ LifePerHandler(g)
      BY Zenon, <1>0
    <2>1. (LifeMain(g)' <=> LifeMain(g)) /\ (LifeDoomed(g)' => LifeDoomed(g))
      BY <1>1, <1>3, <1>4 DEF LifeMain, LifeDoomed, Life!manager
    <2>2. LifeHeld(g)' <=> LifeHeld(g)
      BY <1>1, <1>2, <1>3 DEF LifeHeld, Life!Threads
    <2>3. \A u \in Life!Threads : (LifeRefers(u, g)' => LifeRefers(u, g)) /\ (LifeBusy(u, g)' => LifeBusy(u, g))
      BY Zenon, <1>2, <1>3 DEF LifeRefers, LifeBusy
    <2> QED
      BY Zenon, <1>4, <2>0, <2>1, <2>2, <2>3, LifeStay DEF Life!manager
  <1>8. ASSUME NEW g \in LifeSound PROVE LifeRegistered(g)'
    <2>0. g \in Handlers /\ LifePerHandler(g)
      BY Zenon, <1>0
    <2>1. CASE g = h
      <3>1. ~LifeDoomed(h)
        BY Zenon, <1>2, <1>3, <2>0, <2>1 DEF LifePerHandler, LifeCounted, LifeHeld
      <3> QED
        BY Zenon, <1>3, <1>4, <2>0, <2>1, <3>1 DEF LifePerHandler, LifeRegistered, LifeDoomed
    <2>2. CASE g # h
      BY Zenon, <1>4, <2>0, <2>2 DEF LifePerHandler, LifeRegistered
    <2> QED
      BY Zenon, <2>1, <2>2
  <1> QED
    BY Zenon, <1>5, <1>6, <1>8 DEF LifePerHandler

\* A handler leaves the manager: its reference goes to the thread that took it.
LEMMA LifeRemoved ==
  ASSUME Life!HandlersAssumption, LifeIInv, NEW t \in {Disc, IO}, NEW h \in Handlers, h = m_hmap_workers,
         thr[t] = Life!Idle, thr' = [thr EXCEPT ![t] = [at |-> "sub", h |-> h]],
         m_hmap_workers' = NoHandler, m_hmap_rp_lp' = m_hmap_rp_lp \ {realOf[h]},
         mem[h] = "live", UNCHANGED <<mem, m_iRef, owned, adding, Life!queues, Life!ghosts>>,
         UNCHANGED <<ioLoop.at, ioLoop.dels>>, ioLoop' \in [at : {"wait", "dels", "internal", "external", "adds"},
                                                          evs : SUBSET Handlers, dels : SUBSET Handlers]
  PROVE  /\ LifeCommon' /\ LifeSound' = LifeSound
         /\ \A g \in LifeSound : LifeUnborn(g)' /\ LifeCounted(g)' /\ LifeAlone(g)'
  <1> USE DEF LifeIInv
  <1>0. LifeCommon /\ Life!TypeOK /\ LifeSound \subseteq Handlers /\ LifeSound' = LifeSound
    BY Zenon DEF LifeCommon, LifeSound, Life!ghosts
  <1>1. t \in Life!Threads /\ Disc \in Life!Threads /\ IO \in Life!Threads /\ t \notin Senders /\ Senders \subseteq Life!Threads
    BY Zenon DEF Life!Threads, Life!HandlersAssumption
  <1>2. /\ thr' \in [Life!Threads -> {Life!Idle} \union
                        [at : {"use", "sub", "get", "del", "wakeup"}, h : Handlers]]
        /\ thr'[t].at = "sub" /\ thr'[t].h = h /\ thr[t].at = "idle"
        /\ \A u \in Life!Threads \ {t} : thr'[u] = thr[u]
    BY <1>0, <1>1 DEF Life!TypeOK, Life!Idle
  <1>3. LifeCommon'
    <2>1. m_hmap_rp_lp' = {} /\ LifeAddresses'
      BY <1>0 DEF LifeCommon, LifeAddresses, Life!HandlersAssumption
    <2>2. Life!TypeOK'
      BY Zenon, <1>0, <1>2, <2>1 DEF Life!TypeOK, Life!queues, Life!ghosts
    <2>3. Life!FinishAlive'
      <3>1. CASE t = IO
        BY <1>2, <3>1 DEF Life!FinishAlive, Life!Alive
      <3>2. CASE t # IO
        BY Zenon, <1>0, <1>1, <1>2, <3>2 DEF LifeCommon, Life!FinishAlive, Life!Alive
      <3> QED
        BY Zenon, <3>1, <3>2
    <2>4. \A u \in {Disc, IO} : thr'[u].at # "use"
      BY <1>0, <1>1, <1>2 DEF LifeCommon
    <2> QED
      BY Zenon, <1>0, <2>1, <2>2, <2>3, <2>4 DEF LifeCommon
  <1>4. \A g \in Handlers : LifeHeld(g)' <=> LifeHeld(g)
    BY Zenon, <1>1, <1>2 DEF LifeHeld
  <1>5. \A g \in Handlers : LifeDoomed(g)' => LifeDoomed(g)
    BY Zenon, <1>2 DEF LifeDoomed, Life!queues
  <1>8. \A g \in Handlers, u \in Senders : LifeBusy(u, g)' => LifeBusy(u, g)
    BY Zenon, <1>1, <1>2 DEF LifeBusy
  <1>6. ASSUME NEW g \in LifeSound \ {h} PROVE LifeUnborn(g)' /\ LifeCounted(g)' /\ LifeAlone(g)'
    <2>0. g \in Handlers /\ g # h /\ LifePerHandler(g)
      BY Zenon, <1>0
    <2>1. LifeMain(g)' <=> LifeMain(g)
      BY <1>1, <1>2, <2>0 DEF LifeMain, Life!HandlersAssumption
    <2>2. \A u \in Life!Threads : (LifeRefers(u, g)' => LifeRefers(u, g)) /\ (LifeBusy(u, g)' => LifeBusy(u, g))
      BY Zenon, <1>2, <2>0 DEF LifeRefers, LifeBusy
    <2> QED
      BY Zenon, <1>4, <1>5, <2>0, <2>1, <2>2, LifeStay DEF Life!HandlersAssumption
  <1>7. ASSUME h \in LifeSound PROVE LifeUnborn(h)' /\ LifeCounted(h)' /\ LifeAlone(h)'
    <2>0. LifePerHandler(h)
      BY Zenon, <1>7
    <2>1. LifeMain(h) /\ LifeMain(h)'
      BY Zenon, <1>2 DEF LifeMain
    <2>2. LifeUnborn(h)'
      BY Zenon, <2>0, <2>1 DEF LifePerHandler, LifeUnborn
    <2>3. LifeCounted(h)'
      BY Zenon, <1>4, <1>5, <2>0, <2>1 DEF LifePerHandler, LifeCounted, LifeBit
    <2>4. \A u \in {Disc, IO} : ~LifeRefers(u, h)
      BY Zenon, <2>0 DEF LifePerHandler, LifeAlone
    <2>5. ~(LifeRefers(Disc, h)' /\ LifeRefers(IO, h)')
      BY <1>1, <1>2, <2>4 DEF LifeRefers, Life!HandlersAssumption
    <2>6. LifeAlone(h)'
      BY Zenon, <1>8, <2>0, <2>5 DEF LifePerHandler, LifeAlone, Life!HandlersAssumption
    <2> QED
      BY Zenon, <2>2, <2>3, <2>6
  <1> QED
    BY Zenon, <1>0, <1>3, <1>6, <1>7

\* Disconnect takes the handler out of the manager with its reference.
LEMMA LifeDisconnectIInv == Life!HandlersAssumption /\ LifeIInv /\ Life!Disconnect => LifeIInv'
  <1> SUFFICES ASSUME Life!HandlersAssumption, LifeIInv, Life!Disconnect PROVE LifeIInv'
    BY Zenon
  <1>0. Life!TypeOK /\ LifeSound \subseteq Handlers
    BY Zenon DEF LifeIInv, LifeCommon, LifeSound
  <1>1. PICK h \in Handlers : h = m_hmap_workers
    BY Zenon, <1>0 DEF Life!Disconnect, Life!TypeOK
  <1>2. /\ LifeCommon' /\ LifeSound' = LifeSound
        /\ \A g \in LifeSound : LifeUnborn(g)' /\ LifeCounted(g)' /\ LifeAlone(g)'
    <2>1. ioLoop' \in [at : {"wait", "dels", "internal", "external", "adds"},
                      evs : SUBSET Handlers, dels : SUBSET Handlers]
      BY Zenon, <1>0 DEF Life!Disconnect, Life!TypeOK
    <2> QED
      BY Zenon, <1>1, <2>1, LifeRemoved DEF Life!Disconnect, Life!Alive
  <1>4. ASSUME NEW g \in LifeSound PROVE LifeRegistered(g)'
    BY Zenon, <1>0, LifeSameLoop DEF Life!Disconnect, LifeIInv, Life!queues
  <1> QED
    BY Zenon, <1>2, <1>4 DEF LifeIInv, LifePerHandler

\* What a step of Release leaves to every handler.
LEMMA LifeTouchedCommon ==
  ASSUME LifeCommon, Life!HandlersAssumption, Life!TypeOK', UNCHANGED <<mem, adding, Life!manager>>,
         NEW t \in Life!Threads, NEW h \in Handlers, mem[h] = "live",
         thr'[t].at # "use", thr'[t].at # "idle" => thr'[t].h = h,
         \A u \in Life!Threads \ {t} : thr'[u] = thr[u]
  PROVE  LifeCommon'
  <1>1. Disc \in Life!Threads /\ IO \in Life!Threads
    BY Zenon DEF Life!Threads
  <1>2. Life!FinishAlive'
    <2>1. CASE t = IO
      <3>1. thr'[IO] # Life!Idle => thr'[IO].at # "idle"
        BY Zenon, <1>1 DEF Life!TypeOK, Life!Idle
      <3> QED
        BY Zenon, <2>1, <3>1 DEF Life!FinishAlive, Life!Alive
    <2>2. CASE t # IO
      BY Zenon, <1>1, <2>2 DEF LifeCommon, Life!FinishAlive, Life!Alive
    <2> QED
      BY Zenon, <2>1, <2>2
  <1>3. LifeAddresses' /\ \A g \in Handlers : mem'[g] = "new" <=> adding'[g] = "connect"
    BY Zenon DEF LifeCommon, LifeAddresses, Life!manager
  <1>4. \A u \in {Disc, IO} : thr'[u].at # "use"
    BY <1>1 DEF LifeCommon
  <1> QED
    BY Zenon, <1>2, <1>3, <1>4 DEF LifeCommon

\* Release, in its steps.
LEMMA LifeReleaseIInv ==
  ASSUME Life!HandlersAssumption, LifeIInv, NEW t \in Life!Threads, Life!Release(t)
  PROVE  LifeIInv'
  <1> USE DEF LifeIInv
  <1>0. LifeCommon /\ Life!TypeOK /\ LifeSound \subseteq Handlers
    BY Zenon DEF LifeCommon, LifeSound
  <1>1. Disc \in Life!Threads /\ IO \in Life!Threads /\ Senders \subseteq Life!Threads
        /\ (t \in Senders \/ t \in {Disc, IO})
    BY Zenon DEF Life!Threads
  <1>2. CASE Life!ReleaseSub(t)
    <2>1. PICK h \in Handlers : h = thr[t].h
      BY Zenon, <1>2, <1>0, LifeTouched DEF Life!ReleaseSub
    <2>2. /\ thr[t].at = "sub" /\ mem[h] = "live"
          /\ thr' \in [Life!Threads -> {Life!Idle} \union
                        [at : {"use", "sub", "get", "del", "wakeup"}, h : Handlers]]
          /\ thr'[t].at = "get" /\ thr'[t].h = h
          /\ \A u \in Life!Threads \ {t} : thr'[u] = thr[u]
      BY <1>2, <2>1, <1>0, LifeTouched DEF Life!ReleaseSub
    <2>3. /\ m_iRef' = [m_iRef EXCEPT ![h] = @ - 1]
          /\ UNCHANGED <<mem, owned, adding, Life!manager, Life!queues, ioLoop, Life!ghosts>>
      BY Zenon, <1>2, <2>1 DEF Life!ReleaseSub
    <2>4. LifeCommon' /\ LifeSound' = LifeSound
      <3>1. Life!TypeOK'
        BY <1>0, <2>2, <2>3 DEF Life!TypeOK, Life!manager, Life!queues, Life!ghosts
      <3> QED
        BY Zenon, <1>0, <2>1, <2>2, <2>3, <3>1, LifeTouchedCommon DEF LifeSound, Life!ghosts
    <2>5. \A g \in Handlers : LifeDoomed(g)' => LifeDoomed(g)
      BY Zenon, <2>2, <2>3 DEF LifeDoomed, Life!queues
    <2>9. \A g \in Handlers, u \in Life!Threads :
              (LifeRefers(u, g)' => LifeRefers(u, g)) /\ (LifeBusy(u, g)' => LifeBusy(u, g))
      BY Zenon, <2>1, <2>2 DEF LifeRefers, LifeBusy
    <2>6. ASSUME NEW g \in LifeSound \ {h} PROVE LifeUnborn(g)' /\ LifeCounted(g)' /\ LifeAlone(g)'
      <3>0. g \in Handlers /\ g # h /\ LifePerHandler(g)
        BY Zenon, <1>0
      <3>1. LifeMain(g)' <=> LifeMain(g)
        BY <1>1, <2>1, <2>2, <2>3, <3>0 DEF LifeMain, Life!manager
      <3>2. LifeHeld(g)' <=> LifeHeld(g)
        BY Zenon, <1>1, <2>1, <2>2, <3>0 DEF LifeHeld
      <3>3. UNCHANGED <<mem[g], m_iRef[g]>>
        BY Zenon, <1>0, <2>3, <3>0 DEF Life!TypeOK
      <3> QED
        BY Zenon, <2>3, <2>5, <2>9, <3>0, <3>1, <3>2, <3>3, LifeStay DEF Life!manager
    <2>7. ASSUME h \in LifeSound PROVE LifeUnborn(h)' /\ LifeCounted(h)' /\ LifeAlone(h)'
      <3>0. LifePerHandler(h)
        BY Zenon, <2>7
      <3>1. m_iRef'[h] = m_iRef[h] - 1 /\ m_iRef[h] \in Int
        BY Zenon, <1>0, <2>3 DEF Life!TypeOK
      <3>4. LifeUnborn(h)' /\ LifeAlone(h)'
        BY Zenon, <1>1, <2>2, <2>3, <2>9, <3>0 DEF LifePerHandler, LifeUnborn, LifeAlone, Life!manager
      <3>2. CASE t \in Senders
        <4>1. LifeBusy(t, h) /\ \A u \in Senders \ {t} : ~LifeBusy(u, h)
          BY Zenon, <2>1, <2>2, <3>0, <3>2 DEF LifePerHandler, LifeAlone, LifeBusy
        <4>2. LifeHeld(h) /\ ~LifeHeld(h)'
          BY <1>1, <2>1, <2>2, <3>2, <4>1 DEF LifeHeld, LifeBusy
        <4>3. LifeMain(h)' <=> LifeMain(h)
          BY SMTT(60), <1>1, <2>2, <2>3, <3>2 DEF LifeMain, Life!manager, Life!HandlersAssumption
        <4>4. LifeCounted(h)'
          BY SMTT(60), <2>2, <2>3, <2>5, <3>0, <3>1, <4>2, <4>3 DEF LifePerHandler, LifeCounted, LifeBit
        <4> QED
          BY Zenon, <3>4, <4>4
      <3>3. CASE t \in {Disc, IO}
        <4>1. LifeRefers(t, h)
          BY Zenon, <2>1, <2>2 DEF LifeRefers
        <4>2. m_hmap_workers # h /\ \A u \in {Disc, IO} \ {t} : ~LifeRefers(u, h)
          BY Zenon, <3>0, <3>3, <4>1 DEF LifePerHandler, LifeAlone
        <4>3. LifeMain(h) /\ ~LifeMain(h)'
          BY <1>1, <2>1, <2>2, <2>3, <3>3, <4>2 DEF LifeMain, LifeRefers, Life!manager
        <4>4. LifeHeld(h)' <=> LifeHeld(h)
          BY <1>1, <2>2, <3>3 DEF LifeHeld, Life!HandlersAssumption
        <4>5. LifeCounted(h)'
          BY SMTT(60), <2>2, <2>3, <2>5, <3>0, <3>1, <4>3, <4>4 DEF LifePerHandler, LifeCounted, LifeBit
        <4> QED
          BY Zenon, <3>4, <4>5
      <3> QED
        BY Zenon, <1>1, <3>2, <3>3
    <2>8. \A g \in LifeSound : LifeRegistered(g)'
      BY Zenon, <1>0, <2>3, LifeSameLoop DEF Life!queues
    <2> QED
      BY Zenon, <2>4, <2>6, <2>7, <2>8 DEF LifePerHandler
  <1>3. ASSUME NEW h \in Handlers, h = thr[t].h, mem[h] = "live",
               thr[t].at \in {"get", "del", "wakeup"},
               thr' \in [Life!Threads -> {Life!Idle} \union
                        [at : {"use", "sub", "get", "del", "wakeup"}, h : Handlers]],
               thr'[t].at \in {"idle", "del", "wakeup"}, thr'[t].at # "idle" => thr'[t].h = h,
               \A u \in Life!Threads \ {t} : thr'[u] = thr[u],
               \A g \in LifeSound : m_iRef'[g] = m_iRef[g],
               h \in LifeSound => (LifeDoomed(h)' => ~LifeMain(h) /\ ~LifeHeld(h)),
               \A g \in Handlers \ {h} : LifeDoomed(g)' => LifeDoomed(g), Life!TypeOK',
               UNCHANGED <<mem, adding, Life!manager, toWrite, epoll, ioLoop, Life!ghosts>>
        PROVE  LifeIInv'
    <2>1. LifeCommon' /\ LifeSound' = LifeSound
      BY Zenon, <1>0, <1>3, LifeTouchedCommon DEF LifeSound, Life!ghosts
    <2>2. \A g \in Handlers, u \in Life!Threads :
              (LifeRefers(u, g)' => LifeRefers(u, g)) /\ (LifeBusy(u, g)' => LifeBusy(u, g))
      BY Zenon, <1>3 DEF LifeRefers, LifeBusy
    <2>4. \A g \in Handlers : (LifeMain(g)' <=> LifeMain(g)) /\ (LifeHeld(g)' <=> LifeHeld(g))
      BY <1>1, <1>3 DEF LifeMain, LifeHeld, Life!manager
    <2>5. ASSUME NEW g \in LifeSound \ {h} PROVE LifeUnborn(g)' /\ LifeCounted(g)' /\ LifeAlone(g)'
      <3>1. g \in Handlers /\ g # h /\ LifePerHandler(g) /\ g \in LifeSound
        BY Zenon, <1>0
      <3> QED
        BY Zenon, <1>3, <2>2, <2>4, <3>1, LifeStay DEF Life!manager
    <2>6. ASSUME h \in LifeSound PROVE LifeUnborn(h)' /\ LifeCounted(h)' /\ LifeAlone(h)'
      <3>0. LifePerHandler(h) /\ m_iRef'[h] = m_iRef[h]
        BY Zenon, <1>3, <2>6
      <3>1. LifeUnborn(h)'
        BY Zenon, <1>3 DEF LifeUnborn
      <3>2. LifeCounted(h)'
        BY Zenon, <1>3, <2>4, <2>6, <3>0 DEF LifePerHandler, LifeCounted, LifeBit
      <3>3. LifeAlone(h)'
        BY Zenon, <1>1, <1>3, <2>2, <3>0 DEF LifePerHandler, LifeAlone, Life!manager
      <3> QED
        BY Zenon, <3>1, <3>2, <3>3
    <2>7. \A g \in LifeSound : LifeRegistered(g)'
      BY Zenon, <1>0, <1>3, LifeSameLoop
    <2> QED
      BY Zenon, <2>1, <2>5, <2>6, <2>7 DEF LifePerHandler
  <1>4. CASE Life!ReleaseGetRef(t)
    <2> DEFINE there == IF m_iRef[thr[t].h] = 0 /\ thr[t].h \in owned THEN "del" ELSE "idle"
    <2>0. Life!Touch(t, "get", there) /\ there \in {"idle", "del"}
      BY Zenon, <1>4 DEF Life!ReleaseGetRef
    <2>1. PICK h \in Handlers : h = thr[t].h
      BY Zenon, <1>0, <2>0, LifeTouched
    <2>2. /\ thr[t].at = "get" /\ mem[h] = "live"
          /\ thr' \in [Life!Threads -> {Life!Idle} \union
                        [at : {"use", "sub", "get", "del", "wakeup"}, h : Handlers]]
          /\ thr'[t].at = there /\ (there # "idle" => thr'[t].h = h)
          /\ \A u \in Life!Threads \ {t} : thr'[u] = thr[u]
      BY <1>0, <2>0, <2>1, LifeTouched
    <2>3. /\ m_iRef' = [m_iRef EXCEPT ![h] = Life!LowestBit(@)]
          /\ UNCHANGED <<mem, owned, adding, Life!manager, Life!queues, ioLoop, Life!ghosts>>
      BY Zenon, <1>4, <2>1 DEF Life!ReleaseGetRef
    <2>4. ASSUME h \in LifeSound
          PROVE  /\ m_iRef[h] = LifeBit(LifeMain(h)) + LifeBit(LifeHeld(h))
                 /\ ~LifeMain(h) \/ ~LifeHeld(h)
      <3>0. LifePerHandler(h)
        BY Zenon, <2>4
      <3>1. CASE t \in Senders
        <4>1. LifeBusy(t, h) /\ \A u \in Senders \ {t} : ~LifeBusy(u, h)
          BY Zenon, <2>1, <2>2, <3>0, <3>1 DEF LifePerHandler, LifeAlone, LifeBusy
        <4>2. ~LifeHeld(h)
          BY <2>2, <4>1 DEF LifeHeld, LifeBusy
        <4> QED
          BY Zenon, <2>2, <3>0, <4>2 DEF LifePerHandler, LifeCounted
      <3>2. CASE t \in {Disc, IO}
        <4>1. LifeRefers(t, h)
          BY Zenon, <2>1, <2>2 DEF LifeRefers
        <4>2. m_hmap_workers # h /\ \A u \in {Disc, IO} \ {t} : ~LifeRefers(u, h)
          BY Zenon, <3>0, <3>2, <4>1 DEF LifePerHandler, LifeAlone
        <4>3. ~LifeMain(h)
          BY Zenon, <2>2, <4>2 DEF LifeMain, LifeRefers
        <4> QED
          BY Zenon, <2>2, <3>0, <4>3 DEF LifePerHandler, LifeCounted
      <3> QED
        BY Zenon, <1>1, <3>1, <3>2
    <2>8. (\A g \in LifeSound : m_iRef'[g] = m_iRef[g]) /\ Life!TypeOK'
      <3>1. m_iRef[h] \in Int /\ Life!LowestBit(m_iRef[h]) \in Int
        BY <1>0 DEF Life!LowestBit, Life!TypeOK
      <3>2. ASSUME h \in LifeSound PROVE Life!LowestBit(m_iRef[h]) = m_iRef[h]
        <4>1. m_iRef[h] \in {0, 1}
          BY <2>4, <3>2 DEF LifeBit
        <4> QED
          BY <4>1 DEF Life!LowestBit
      <3>3. m_iRef'[h] = Life!LowestBit(m_iRef[h]) /\ \A g \in Handlers \ {h} : m_iRef'[g] = m_iRef[g]
        BY Zenon, <1>0, <2>3 DEF Life!TypeOK
      <3>4. \A g \in LifeSound : m_iRef'[g] = m_iRef[g]
        BY Zenon, <1>0, <3>2, <3>3
      <3>5. Life!TypeOK'
        BY Zenon, <1>0, <2>2, <2>3, <3>1 DEF Life!TypeOK, Life!manager, Life!queues, Life!ghosts
      <3> QED
        BY Zenon, <3>4, <3>5
    <2>9. ASSUME h \in LifeSound PROVE LifeDoomed(h)' => ~LifeMain(h) /\ ~LifeHeld(h)
      <3>1. CASE there = "del"
        <4>1. m_iRef[h] = 0
          BY Zenon, <2>1, <3>1
        <4> QED
          BY <2>4, <2>9, <4>1 DEF LifeBit
      <3>2. CASE there = "idle"
        <4>1. LifeDoomed(h)' => LifeDoomed(h)
          BY Zenon, <2>2, <2>3, <3>2 DEF LifeDoomed, Life!queues
        <4> QED
          BY Zenon, <2>9, <4>1 DEF LifePerHandler, LifeCounted
      <3> QED
        BY Zenon, <2>0, <3>1, <3>2
    <2>10. \A g \in Handlers \ {h} : LifeDoomed(g)' => LifeDoomed(g)
      BY Zenon, <2>2, <2>3 DEF LifeDoomed, Life!queues
    <2> QED
      BY Zenon, <1>3, <2>0, <2>1, <2>2, <2>3, <2>8, <2>9, <2>10 DEF Life!queues
  <1>5. CASE Life!AddExternalEpDelEvent(t)
    <2>1. PICK h \in Handlers : h = thr[t].h
      BY Zenon, <1>5, <1>0, LifeTouched DEF Life!AddExternalEpDelEvent
    <2>2. /\ thr[t].at = "del" /\ mem[h] = "live"
          /\ thr' \in [Life!Threads -> {Life!Idle} \union
                        [at : {"use", "sub", "get", "del", "wakeup"}, h : Handlers]]
          /\ thr'[t].at = "wakeup" /\ thr'[t].h = h
          /\ \A u \in Life!Threads \ {t} : thr'[u] = thr[u]
      BY <1>5, <2>1, <1>0, LifeTouched DEF Life!AddExternalEpDelEvent
    <2>3. /\ toDelete' = toDelete \union {h}
          /\ UNCHANGED <<mem, m_iRef, owned, adding, Life!manager, toAdd,
                         toWrite, epoll, ioLoop, Life!ghosts>>
      BY Zenon, <1>5, <2>1 DEF Life!AddExternalEpDelEvent
    <2>4. Life!TypeOK'
      BY Zenon, <1>0, <2>2, <2>3 DEF Life!TypeOK, Life!manager, Life!ghosts
    <2>5. LifeDoomed(h)
      BY Zenon, <2>1, <2>2 DEF LifeDoomed
    <2>6. \A g \in Handlers \ {h} : LifeDoomed(g)' => LifeDoomed(g)
      BY ZenonT(60), <2>2, <2>3 DEF LifeDoomed
    <2>7. h \in LifeSound => ~LifeMain(h) /\ ~LifeHeld(h)
      BY Zenon, <2>5 DEF LifePerHandler, LifeCounted
    <2> QED
      BY Zenon, <1>3, <2>1, <2>2, <2>3, <2>4, <2>6, <2>7
  <1>6. CASE Life!ReleaseWakeup(t)
    <2>1. PICK h \in Handlers : h = thr[t].h
      BY Zenon, <1>6, <1>0, LifeTouched DEF Life!ReleaseWakeup
    <2>2. /\ thr[t].at = "wakeup" /\ mem[h] = "live"
          /\ thr' \in [Life!Threads -> {Life!Idle} \union
                        [at : {"use", "sub", "get", "del", "wakeup"}, h : Handlers]]
          /\ thr'[t].at = "idle"
          /\ \A u \in Life!Threads \ {t} : thr'[u] = thr[u]
      BY Zenon, <1>6, <2>1, <1>0, LifeTouched DEF Life!ReleaseWakeup
    <2>3. UNCHANGED <<mem, m_iRef, owned, adding, Life!manager, Life!queues, ioLoop, Life!ghosts>>
      BY Zenon, <1>6 DEF Life!ReleaseWakeup
    <2>4. Life!TypeOK'
      BY Zenon, <1>0, <2>2, <2>3 DEF Life!TypeOK, Life!manager, Life!queues, Life!ghosts
    <2>5. \A g \in Handlers : LifeDoomed(g)' => LifeDoomed(g)
      BY Zenon, <2>2, <2>3 DEF LifeDoomed, Life!queues
    <2>6. h \in LifeSound => (LifeDoomed(h)' => ~LifeMain(h) /\ ~LifeHeld(h))
      BY Zenon, <2>5 DEF LifePerHandler, LifeCounted
    <2> QED
      BY Zenon, <1>3, <2>1, <2>2, <2>3, <2>4, <2>5, <2>6 DEF Life!queues
  <1> QED
    BY Zenon, <1>2, <1>4, <1>5, <1>6 DEF Life!Release

\* The loop, when it neither deletes a handler nor takes one from the manager.
LEMMA LifeLoopOnly ==
  ASSUME LifeIInv, UNCHANGED <<mem, m_iRef, adding, Life!manager, thr, miscounted>>, Life!TypeOK',
         \A h \in Handlers : (h \in toDelete \/ h \in ioLoop.dels)' =>
                                h \in toDelete \/ h \in ioLoop.dels,
         \A h \in LifeSound : LifeRegistered(h)'
  PROVE  LifeIInv'
  <1>1. LifeCommon' /\ LifeSound' = LifeSound
    BY Zenon, LifeSameCommon DEF LifeIInv, LifeCommon, LifeSound
  <1>2. ASSUME NEW h \in LifeSound PROVE LifeUnborn(h)' /\ LifeCounted(h)' /\ LifeAlone(h)'
    <2>1. h \in Handlers /\ LifePerHandler(h)
      BY Zenon DEF LifeIInv, LifeSound
    <2>2. LifeDoomed(h)' => LifeDoomed(h)
      BY Zenon, <2>1 DEF LifeDoomed
    <2> QED
      BY Zenon, <2>1, <2>2, LifeSameThreads DEF Life!manager
  <1> QED
    BY Zenon, <1>1, <1>2 DEF LifeIInv, LifePerHandler

\* The loop registers, deletes and serves handlers.
LEMMA LifeLoopIInv ==
  ASSUME Life!HandlersAssumption, LifeIInv, Life!worker_loop
  PROVE  LifeIInv'
  <1> USE DEF LifeIInv
  <1>0. LifeCommon /\ Life!TypeOK /\ LifeSound \subseteq Handlers
    BY Zenon DEF LifeCommon, LifeSound
  <1>1. CASE Life!EventWait
    <2>1. PICK evs \in SUBSET epoll : ioLoop' = [ioLoop EXCEPT !.at = "dels", !.evs = evs]
      BY Zenon, <1>1 DEF Life!EventWait
    <2>2. ioLoop.at = "wait" /\ ioLoop'.at = "dels" /\ ioLoop'.evs = evs /\ ioLoop'.dels = ioLoop.dels
      BY Zenon, <1>0, <1>1, <2>1 DEF Life!EventWait, Life!InLoop, Life!TypeOK
    <2>3. Life!TypeOK'
      BY Zenon, <1>0, <1>1, <2>1 DEF Life!EventWait, Life!TypeOK, Life!manager, Life!queues, Life!ghosts
    <2>4. \A h \in LifeSound : LifeRegistered(h)'
      BY Zenon, <1>0, <1>1, <2>2 DEF Life!EventWait, LifePerHandler, LifeRegistered, Life!queues
    <2> QED
      BY Zenon, <1>1, <2>2, <2>3, <2>4, LifeLoopOnly DEF Life!EventWait, Life!queues, Life!ghosts
  <1>2. CASE Life!GetExternalEpDelEvents
    <2>1. /\ ioLoop.at = "dels" /\ ioLoop'.at = "internal"
          /\ ioLoop'.evs = ioLoop.evs \ toDelete /\ ioLoop'.dels = toDelete
          /\ epoll' = epoll \ toDelete /\ toDelete' = {}
      BY Zenon, <1>2 DEF Life!GetExternalEpDelEvents, Life!InLoop
    <2>2. Life!TypeOK'
      BY Zenon, <1>0, <1>2 DEF Life!GetExternalEpDelEvents, Life!TypeOK, Life!manager, Life!ghosts
    <2>3. \A h \in LifeSound : LifeRegistered(h)'
      BY Zenon, <1>0, <1>2, <2>1 DEF Life!GetExternalEpDelEvents, LifePerHandler, LifeRegistered
    <2> QED
      BY Zenon, <1>2, <2>1, <2>2, <2>3, LifeLoopOnly DEF Life!GetExternalEpDelEvents, Life!ghosts
  <1>3. ASSUME NEW h \in Handlers, Life!process_event(h) PROVE LifeIInv'
    <2>1. /\ ioLoop' = [ioLoop EXCEPT !.evs = @ \ {h}]
          /\ UNCHANGED <<mem, m_iRef, owned, adding, Life!manager, Life!queues, thr, Life!ghosts>>
      BY Zenon, <1>3 DEF Life!process_event
    <2>2. ioLoop'.at = ioLoop.at /\ ioLoop'.evs = ioLoop.evs \ {h} /\ ioLoop'.dels = ioLoop.dels
      BY Zenon, <1>0, <2>1 DEF Life!TypeOK
    <2>3. Life!TypeOK'
      BY Zenon, <1>0, <2>1 DEF Life!TypeOK, Life!manager, Life!queues, Life!ghosts
    <2>4. \A g \in LifeSound : LifeRegistered(g)'
      BY Zenon, <1>0, <2>1, <2>2 DEF LifePerHandler, LifeRegistered, Life!queues
    <2> QED
      BY Zenon, <2>1, <2>2, <2>3, <2>4, LifeLoopOnly DEF Life!queues, Life!ghosts
  <1>4. ASSUME NEW h \in Handlers, Life!on_finish(h) PROVE LifeIInv'
    <2>1. /\ ioLoop' = [ioLoop EXCEPT !.evs = @ \ {h}] /\ mem[h] = "live"
          /\ m_hmap_rp_lp' = m_hmap_rp_lp \ {realOf[h]} /\ thr[IO] = Life!Idle
          /\ UNCHANGED <<mem, m_iRef, owned, adding, Life!queues, touched>>
      BY Zenon, <1>4 DEF Life!on_finish, Life!InLoop, Life!Alive
    <2>2. /\ ioLoop'.at = ioLoop.at /\ ioLoop'.evs = ioLoop.evs \ {h} /\ ioLoop'.dels = ioLoop.dels
          /\ ioLoop' \in [at : {"wait", "dels", "internal", "external", "adds"},
                          evs : SUBSET Handlers, dels : SUBSET Handlers]
      BY Zenon, <1>0, <2>1 DEF Life!TypeOK
    <2>3. \A g \in LifeSound : LifeRegistered(g)'
      BY Zenon, <1>0, <2>1, <2>2 DEF LifePerHandler, LifeRegistered, Life!queues
    <2>4. CASE m_hmap_workers = h
      <3>1. /\ m_hmap_workers' = NoHandler /\ thr' = [thr EXCEPT ![IO] = [at |-> "sub", h |-> h]]
            /\ miscounted' = miscounted
        BY <1>0, <1>4, <2>4 DEF Life!on_finish, LifeCommon, LifeAddresses, Life!HandlersAssumption
      <3>2. /\ LifeCommon' /\ LifeSound' = LifeSound
            /\ \A g \in LifeSound : LifeUnborn(g)' /\ LifeCounted(g)' /\ LifeAlone(g)'
        BY Zenon, <2>1, <2>2, <2>4, <3>1, LifeRemoved DEF Life!ghosts
      <3> QED
        BY Zenon, <2>3, <3>2 DEF LifePerHandler
    <2>5. CASE m_hmap_workers # h /\ realOf[h] \in m_hmap_rp_lp
      <3>1. m_hmap_workers \in Handlers /\ m_hmap_rp_lp = {realOf[h]}
        BY <1>0, <2>5 DEF LifeCommon, LifeAddresses, Life!TypeOK
      <3>2. /\ m_hmap_workers' = NoHandler /\ thr' = [thr EXCEPT ![IO] = [at |-> "sub", h |-> h]]
            /\ miscounted' = miscounted \union {h, m_hmap_workers} /\ m_hmap_rp_lp' = {}
        BY <1>4, <2>1, <2>5, <3>1 DEF Life!on_finish, Life!HandlersAssumption
      <3>3. /\ IO \in Life!Threads /\ Disc \in Life!Threads /\ Senders \subseteq Life!Threads \ {IO}
            /\ thr' \in [Life!Threads -> {Life!Idle} \union
                            [at : {"use", "sub", "get", "del", "wakeup"}, h : Handlers]]
            /\ thr'[IO].at = "sub" /\ thr'[IO].h = h /\ thr[IO].at = "idle"
            /\ \A u \in Life!Threads \ {IO} : thr'[u] = thr[u]
        BY <1>0, <2>1, <3>2 DEF Life!TypeOK, Life!Threads, Life!Idle, Life!HandlersAssumption
      <3>4. LifeCommon'
        <4>1. LifeAddresses'
          BY Zenon, <3>2 DEF LifeAddresses
        <4>2. Life!TypeOK'
          BY <1>0, <2>1, <2>2, <3>1, <3>2, <3>3 DEF Life!TypeOK, Life!queues
        <4>3. Life!FinishAlive' /\ \A u \in {Disc, IO} : thr'[u].at # "use"
          BY <1>0, <2>1, <3>3 DEF LifeCommon, Life!FinishAlive, Life!Alive
        <4> QED
          BY Zenon, <1>0, <2>1, <4>1, <4>2, <4>3 DEF LifeCommon
      <3>5. ASSUME NEW g \in LifeSound'
            PROVE  g \in LifeSound /\ LifeUnborn(g)' /\ LifeCounted(g)' /\ LifeAlone(g)'
        <4>1. g \in LifeSound /\ g \in Handlers /\ g # h /\ g # m_hmap_workers /\ LifePerHandler(g)
          BY <3>2 DEF LifeSound
        <4>2. g # NoHandler
          BY Zenon, <4>1 DEF Life!HandlersAssumption
        <4>3. LifeMain(g)' <=> LifeMain(g)
          BY <3>2, <3>3, <4>1, <4>2 DEF LifeMain
        <4>4. (LifeHeld(g)' <=> LifeHeld(g)) /\ (LifeDoomed(g)' => LifeDoomed(g))
          BY Zenon, <2>1, <2>2, <3>3, <4>1 DEF LifeHeld, LifeDoomed, Life!queues
        <4>5. \A u \in Life!Threads : (LifeRefers(u, g)' => LifeRefers(u, g)) /\ (LifeBusy(u, g)' => LifeBusy(u, g))
          BY Zenon, <3>3, <4>1 DEF LifeRefers, LifeBusy
        <4> QED
          BY Zenon, <2>1, <3>2, <4>1, <4>2, <4>3, <4>4, <4>5, LifeStay
      <3> QED
        BY Zenon, <2>3, <3>4, <3>5 DEF LifePerHandler
    <2>6. CASE m_hmap_workers # h /\ realOf[h] \notin m_hmap_rp_lp
      <3>1. UNCHANGED <<m_hmap_workers, thr, miscounted>>
        BY Zenon, <1>4, <2>6 DEF Life!on_finish
      <3>2. m_hmap_rp_lp' = m_hmap_rp_lp
        BY <2>1, <2>6
      <3>3. Life!TypeOK'
        BY Zenon, <1>0, <2>1, <2>2, <3>1, <3>2 DEF Life!TypeOK, Life!queues
      <3> QED
        BY Zenon, <2>1, <2>2, <2>3, <3>1, <3>2, <3>3, LifeLoopOnly DEF Life!queues, Life!manager
    <2> QED
      BY Zenon, <2>4, <2>5, <2>6
  <1>5. CASE Life!GetExternalRWOpEvents
    <2>1. /\ ioLoop.at = "internal" /\ toWrite' = {}
          /\ ioLoop' = [ioLoop EXCEPT !.at = "external", !.evs = toWrite \ ioLoop.dels]
          /\ UNCHANGED <<mem, m_iRef, owned, adding, Life!manager, toAdd,
                         toDelete, epoll, thr, Life!ghosts>>
      BY Zenon, <1>5 DEF Life!GetExternalRWOpEvents, Life!InLoop
    <2>2. /\ ioLoop'.at = "external" /\ ioLoop'.evs = toWrite \ ioLoop.dels
          /\ ioLoop'.dels = ioLoop.dels
      BY Zenon, <1>0, <2>1 DEF Life!TypeOK
    <2>3. Life!TypeOK'
      BY Zenon, <1>0, <2>1 DEF Life!TypeOK, Life!manager, Life!ghosts
    <2>4. \A h \in LifeSound : LifeRegistered(h)'
      BY Zenon, <1>0, <2>1, <2>2 DEF LifePerHandler, LifeRegistered
    <2> QED
      BY Zenon, <2>1, <2>2, <2>3, <2>4, LifeLoopOnly DEF Life!ghosts
  <1>6. CASE Life!DeleteHandlers
    <2>1. /\ ioLoop.at = "external" /\ ioLoop.evs = {}
          /\ thr[IO] = Life!Idle /\ mem' = [h \in Handlers |-> IF h \in ioLoop.dels THEN "freed" ELSE mem[h]]
          /\ ioLoop' = [ioLoop EXCEPT !.at = "adds", !.dels = {}]
          /\ UNCHANGED <<m_iRef, owned, adding, Life!manager, Life!queues, thr, Life!ghosts>>
      BY Zenon, <1>6 DEF Life!DeleteHandlers, Life!InLoop
    <2>2. ioLoop'.at = "adds" /\ ioLoop'.evs = {} /\ ioLoop'.dels = {}
      BY Zenon, <1>0, <2>1 DEF Life!TypeOK
    <2>3. LifeCommon' /\ LifeSound' = LifeSound
      <3>1. Life!TypeOK'
        BY Zenon, <1>0, <2>1 DEF Life!TypeOK, Life!manager, Life!queues, Life!ghosts
      <3>2. LifeAddresses' /\ Life!FinishAlive' /\ \A t \in {Disc, IO} : thr'[t].at # "use"
        BY Zenon, <1>0, <2>1 DEF LifeCommon, LifeAddresses, Life!FinishAlive, Life!manager
      <3>3. \A h \in Handlers : mem'[h] = "new" <=> adding'[h] = "connect"
        <4>1. \A h \in ioLoop.dels : mem[h] = "live"
          BY Zenon, <1>6 DEF Life!DeleteHandlers, Life!Alive
        <4> QED
          BY <1>0, <2>1, <4>1 DEF LifeCommon
      <3> QED
        BY Zenon, <2>1, <3>1, <3>2, <3>3 DEF LifeCommon, LifeSound, Life!ghosts
    <2>4. \A h \in LifeSound : LifeRegistered(h)'
      BY Zenon, <1>0, <2>1, <2>2 DEF LifePerHandler, LifeRegistered, Life!queues
    <2>5. ASSUME NEW h \in LifeSound PROVE LifeUnborn(h)' /\ LifeCounted(h)' /\ LifeAlone(h)'
      <3>0. h \in Handlers /\ LifePerHandler(h)
        BY Zenon, <1>0
      <3>1. LifeDoomed(h)' => LifeDoomed(h)
        BY Zenon, <2>1, <2>2, <3>0 DEF LifeDoomed, Life!queues
      <3>2. CASE h \notin ioLoop.dels
        BY Zenon, <2>1, <3>0, <3>1, <3>2, LifeSameThreads DEF Life!manager
      <3>3. CASE h \in ioLoop.dels
        <4>1. LifeDoomed(h) /\ mem'[h] = "freed"
          BY Zenon, <2>1, <3>0, <3>3 DEF LifeDoomed
        <4>2. ~LifeMain(h)' /\ ~LifeHeld(h)'
          <5>1. ~LifeMain(h) /\ ~LifeHeld(h)
            BY Zenon, <3>0, <4>1 DEF LifePerHandler, LifeCounted
          <5> QED
            BY Zenon, <2>1, <5>1 DEF LifeMain, LifeHeld, Life!manager
        <4>3. LifeUnborn(h)' /\ LifeCounted(h)'
          BY Zenon, <4>1, <4>2 DEF LifeUnborn, LifeCounted
        <4>4. LifeAlone(h)'
          BY Zenon, <2>1, <3>0 DEF LifePerHandler, LifeAlone, LifeBusy, LifeRefers, Life!manager
        <4> QED
          BY Zenon, <4>3, <4>4
      <3> QED
        BY Zenon, <3>2, <3>3
    <2> QED
      BY Zenon, <2>3, <2>4, <2>5 DEF LifePerHandler
  <1>7. CASE Life!GetExternalEpAddEvents
    <2>1. /\ ioLoop.at = "adds" /\ epoll' = epoll \union toAdd
          /\ \A h \in toAdd : mem[h] = "live"
          /\ toAdd' = {} /\ ioLoop' = [ioLoop EXCEPT !.at = "wait"]
          /\ UNCHANGED <<mem, m_iRef, owned, adding, Life!manager, toWrite,
                         toDelete, thr, Life!ghosts>>
      BY Zenon, <1>7 DEF Life!GetExternalEpAddEvents, Life!InLoop, Life!Alive
    <2>2. ioLoop'.at = "wait" /\ ioLoop'.evs = ioLoop.evs /\ ioLoop'.dels = ioLoop.dels
      BY Zenon, <1>0, <2>1 DEF Life!TypeOK
    <2>3. Life!TypeOK'
      BY Zenon, <1>0, <2>1 DEF Life!TypeOK, Life!manager, Life!ghosts
    <2>4. \A h \in LifeSound : LifeRegistered(h)'
      BY Zenon, <1>0, <2>1, <2>2 DEF LifePerHandler, LifeRegistered
    <2> QED
      BY Zenon, <2>1, <2>2, <2>3, <2>4, LifeLoopOnly DEF Life!ghosts
  <1> QED
    BY Zenon, <1>1, <1>2, <1>3, <1>4, <1>5, <1>6, <1>7 DEF Life!worker_loop

\* A freed handler that is touched ends the behaviour, and changes nothing else.
LEMMA LifeTouchFreedIInv == LifeIInv /\ Life!TouchFreed => LifeIInv'
  <1> SUFFICES ASSUME LifeIInv, Life!TouchFreed PROVE LifeIInv'
    BY Zenon
  <1>1. Life!TypeOK'
    BY Zenon DEF LifeIInv, LifeCommon, Life!TouchFreed, Life!TypeOK, Life!manager, Life!queues
  <1>2. \A h \in LifeSound : LifeRegistered(h)'
    BY Zenon, LifeSameLoop DEF LifeIInv, LifeSound, Life!TouchFreed, Life!queues
  <1> QED
    BY Zenon, <1>1, <1>2, LifeLoopOnly DEF Life!TouchFreed, Life!queues

\* Every step of a sender, Disconnect and the loop keeps the count.
LEMMA LifeNextIInv == Life!HandlersAssumption /\ LifeIInv /\ [Life!Next]_(Life!vars) => LifeIInv'
  <1> SUFFICES ASSUME Life!HandlersAssumption, LifeIInv, [Life!Next]_(Life!vars) PROVE LifeIInv'
    BY Zenon
  <1>1. CASE UNCHANGED Life!vars
    <2>1. Life!TypeOK'
      BY Zenon, <1>1 DEF LifeIInv, LifeCommon, Life!TypeOK, Life!vars, Life!manager, Life!queues, Life!ghosts
    <2>2. \A h \in LifeSound : LifeRegistered(h)'
      BY Zenon, <1>1, LifeSameLoop DEF LifeIInv, LifeSound, Life!vars, Life!queues
    <2> QED
      BY Zenon, <1>1, <2>1, <2>2, LifeLoopOnly DEF Life!vars, Life!queues, Life!ghosts
  <1> QED
    BY Zenon, <1>1, LifeConnectIInv, LifeGetIInv, LifeUseIInv, LifeDisconnectIInv, LifeReleaseIInv, LifeLoopIInv,
       LifeTouchFreedIInv DEF Life!Next

\* Who may use a handler keeps it from being deleted.
LEMMA LifeUsersAlive ==
  ASSUME Life!HandlersAssumption, LifeIInv
  PROVE  Life!HandlersAlive
  <1>0. LifeCommon /\ Life!TypeOK
    BY Zenon DEF LifeIInv, LifeCommon
  <1>1. ASSUME NEW h \in LifeSound PROVE Life!ManagedAlive(h) /\ Life!InUseAlive(h)
    <2>0. h \in Handlers /\ LifePerHandler(h)
      BY Zenon DEF LifeIInv, LifeSound
    <2>1. LifeMain(h) \/ LifeHeld(h) => mem[h] = "live" /\ m_iRef[h] > 0
      BY SMTT(60), <1>0, <2>0 DEF LifePerHandler, LifeUnborn, LifeCounted, LifeDoomed, Life!TypeOK, LifeBit
    <2>2. Life!ManagedAlive(h)
      BY Zenon, <2>1 DEF Life!ManagedAlive, Life!Alive, LifeMain
    <2>3. ASSUME NEW t \in Life!Threads, thr[t].at \in {"use", "sub"}, thr[t].h = h PROVE Life!Alive(h)
      <3>1. t \in Senders \/ (t \in {Disc, IO} /\ thr[t].at = "sub")
        BY Zenon, <1>0, <2>3 DEF Life!Threads, LifeCommon
      <3> QED
        BY Zenon, <2>1, <2>3, <3>1 DEF LifeMain, LifeHeld, Life!Alive
    <2>4. ioLoop.at \in {"internal", "external"} /\ h \in ioLoop.evs => Life!Alive(h)
      BY Zenon, <2>0 DEF LifePerHandler, LifeRegistered, Life!Alive
    <2> QED
      BY Zenon, <2>2, <2>3, <2>4 DEF Life!InUseAlive
  <1> QED
    BY Zenon, <1>0, <1>1 DEF Life!HandlersAlive, LifeSound, LifeCommon

\* No handler is freed while the manager offers it, a thread has yet to give its
\* reference back or the loop has an event of it, until the count fails it
\* (HandlersAlive): for any number of handlers that may have one address, and any
\* number of senders beside Disconnect and the IO thread.
THEOREM HandlersStayAlive == Life!Spec => []HandlersAlive
  <1> USE LifeUse
  <1>1. Life!Init => LifeIInv
    BY Zenon, LifeInitIInv
  <1>2. LifeIInv /\ [Life!Next]_(Life!vars) => LifeIInv'
    BY Zenon, LifeNextIInv
  <1>3. LifeIInv => HandlersAlive
    BY Zenon, LifeUsersAlive DEF HandlersAlive
  <1> QED
    BY <1>1, <1>2, <1>3, PTL DEF Life!Spec

----------------------------------------------------------------------------
ShakeTypes ==
    /\ client \in [Conns -> {"idle", "ConnectSe", "WaitLastACK", "Connected", "failed",
                             "waiting"}]
    /\ server \in [Conns -> {"idle", "Connecting", "ConnectingRe", "accepting", "refusing",
                             "Connected", "failed", "waiting"}]
    /\ c2s \in [Conns -> {<<>>, <<"request">>, <<"ok">>}]
    /\ s2c \in [Conns -> {<<>>, <<"ok">>, <<"error">>}]
    /\ closed \in [Conns -> SUBSET Shake!Ends]
    /\ workers \in [Nodes -> Conns \union {NoConn}]

\* The two ends of a connection talk in turns: how far each is, and what may be
\* on the way between them.
ShakeTurns(c) ==
    /\ c2s[c] = <<>> \/ s2c[c] = <<>>
    /\ server[c] \in {"idle", "Connecting", "accepting", "refusing"} => s2c[c] = <<>>
    /\ server[c] \in {"accepting", "refusing", "Connected"} => c2s[c] = <<>>
    /\ client[c] = "idle" => server[c] = "idle" /\ c2s[c] = <<>>
    /\ client[c] = "ConnectSe" =>
         /\ server[c] \notin {"accepting", "refusing", "Connected"}
         /\ server[c] = "ConnectingRe" => c2s[c] = <<>>
    /\ client[c] = "WaitLastACK" =>
         /\ server[c] \notin {"idle", "Connecting"}
         /\ s2c[c] = <<"ok">> => server[c] = "Connected"
    /\ client[c] = "Connected" => server[c] = "Connected"

\* Whose end may be closed.  The client waits for the last answer unless the
\* network broke the connection.
ShakeCloses(c) ==
    /\ "client" \in closed[c] => client[c] \in {"failed", "Connected"}
    /\ "server" \in closed[c] => server[c] \in {"failed", "Connected"}
    /\ c \notin broken /\ (server[c] \in {"accepting", "refusing"}
                             \/ (server[c] = "ConnectingRe" /\ c2s[c] # <<>>)) =>
         client[c] = "WaitLastACK"

\* What the managers know of a connection.
ShakeKept(c) ==
    /\ workers[Shake!NodeOf(c, "client")] = c => client[c] = "Connected" /\ "client" \notin closed[c]
    /\ workers[Shake!NodeOf(c, "server")] = c =>
         \/ server[c] \in {"accepting", "Connected"} /\ "server" \notin closed[c]
         \/ server[c] = "failed" /\ c \in broken
    /\ server[c] \in {"accepting", "Connected"} /\ "server" \notin closed[c] =>
         workers[Shake!NodeOf(c, "server")] = c

ShakeIInv == ShakeTypes /\ \A c \in Conns : ShakeTurns(c) /\ ShakeCloses(c) /\ ShakeKept(c)

\* The ends of a connection are at different nodes.
LEMMA ShakeTwoNodes ==
  ASSUME Shake!HandshakeAssumption, NEW c \in Conns
  PROVE  /\ Shake!NodeOf(c, "client") \in Nodes /\ Shake!NodeOf(c, "server") \in Nodes
         /\ Shake!NodeOf(c, "client") # Shake!NodeOf(c, "server")
  <1>1. clientOf[c] \in Nodes /\ \E n \in Nodes : n # clientOf[c]
    BY Zenon DEF Shake!HandshakeAssumption
  <1>2. Shake!NodeOf(c, "server") \in Nodes /\ Shake!NodeOf(c, "server") # clientOf[c]
    BY Zenon, <1>1 DEF Shake!NodeOf
  <1> QED
    BY Zenon, <1>1, <1>2 DEF Shake!NodeOf

\* At first no connection was opened.
LEMMA ShakeInitIInv == Shake!HandshakeAssumption /\ Shake!Init => ShakeIInv
  <1> SUFFICES ASSUME Shake!HandshakeAssumption, Shake!Init PROVE ShakeIInv
    BY Zenon
  <1>1. ShakeTypes
    BY Zenon DEF Shake!Init, ShakeTypes
  <1>2. ASSUME NEW c \in Conns PROVE ShakeTurns(c) /\ ShakeCloses(c)
    BY Zenon DEF Shake!Init, ShakeTurns, ShakeCloses
  <1>3. ASSUME NEW c \in Conns PROVE ShakeKept(c)
    BY Zenon, ShakeTwoNodes DEF Shake!HandshakeAssumption, Shake!Init, ShakeKept
  <1> QED
    BY Zenon, <1>1, <1>2, <1>3 DEF ShakeIInv

\* A step of one connection leaves the ends of the others as they are.
LEMMA ShakeApart ==
  ASSUME ShakeIInv, NEW d \in Conns,
         UNCHANGED <<client[d], server[d], c2s[d], s2c[d], closed[d], d \in broken>>
  PROVE  ShakeTurns(d)' /\ ShakeCloses(d)'
  BY Zenon DEF ShakeIInv, ShakeTurns, ShakeCloses

\* The managers do not change.
LEMMA ShakeSameWorkers ==
  ASSUME ShakeIInv, NEW d \in Conns, UNCHANGED workers,
         UNCHANGED <<client[d], server[d], closed[d], d \in broken>>
  PROVE  ShakeKept(d)'
  BY Zenon DEF ShakeIInv, ShakeKept, Shake!NodeOf

\* An end gives its place in the manager to no other: what a node keeps of the
\* connections it did not put or remove.
LEMMA ShakeOtherKept ==
  ASSUME Shake!HandshakeAssumption, ShakeIInv, NEW d \in Conns, NEW n \in Nodes, NEW w \in Conns \union {NoConn},
         workers' = [workers EXCEPT ![n] = w], workers[n] # d, w # d,
         UNCHANGED <<client[d], server[d], closed[d], d \in broken>>
  PROVE  ShakeKept(d)'
  <1>1. \A e \in Shake!Ends : Shake!NodeOf(d, e) \in Nodes
    BY Zenon, ShakeTwoNodes DEF Shake!Ends
  <1>2. \A e \in Shake!Ends : workers'[Shake!NodeOf(d, e)] = d <=> workers[Shake!NodeOf(d, e)] = d
    BY Zenon, <1>1 DEF ShakeIInv, ShakeTypes
  <1> QED
    BY Zenon, <1>2 DEF ShakeIInv, ShakeKept, Shake!Ends, Shake!NodeOf

\* What is written on an empty wire, and read from it.
LEMMA ShakeWords ==
  /\ Append(<<>>, "request") = <<"request">> /\ Append(<<>>, "ok") = <<"ok">>
  /\ Append(<<>>, "error") = <<"error">>
  /\ Head(<<"ok">>) = "ok" /\ Head(<<"error">>) = "error"
  /\ Tail(<<"request">>) = <<>> /\ Tail(<<"ok">>) = <<>> /\ Tail(<<"error">>) = <<>>
  /\ <<"request">> # <<>> /\ <<"ok">> # <<>> /\ <<"error">> # <<>> /\ <<"ok">> # <<"error">>
  OBVIOUS

\* A step on one connection that leaves the managers alone.
LEMMA ShakeOneConn ==
  ASSUME ShakeIInv, NEW c \in Conns, UNCHANGED workers, ShakeTypes', ShakeTurns(c)', ShakeCloses(c)', ShakeKept(c)',
         \A d \in Conns \ {c} :
           UNCHANGED <<client[d], server[d], c2s[d], s2c[d], closed[d], d \in broken>>
  PROVE  ShakeIInv'
  BY Zenon, ShakeApart, ShakeSameWorkers DEF ShakeIInv

\* The steps of the client's end.
LEMMA ShakeConnectIInv ==
  ASSUME Shake!HandshakeAssumption, ShakeIInv, NEW c \in Conns, Shake!Connect(c) \/ Shake!ConnectFails(c)
  PROVE  ShakeIInv'
  <1> USE DEF ShakeIInv
  <1>1. CASE Shake!Connect(c)
    <2>1. client[c] = "idle" /\ server[c] = "idle" /\ c2s[c] = <<>> /\ s2c[c] = <<>>
      BY Zenon, <1>1 DEF Shake!Connect, ShakeTurns
    <2>2. /\ client' = [client EXCEPT ![c] = "ConnectSe"]
          /\ c2s' = [c2s EXCEPT ![c] = <<"request">>]
          /\ UNCHANGED <<server, s2c, closed, workers, broken>>
      BY Zenon, <1>1, <2>1, ShakeWords DEF Shake!Connect
    <2>3. ShakeTypes'
      BY Zenon, <2>2 DEF ShakeTypes
    <2>4. ShakeTurns(c)' /\ ShakeCloses(c)' /\ ShakeKept(c)'
      <3>1. ShakeTurns(c)'
        BY Zenon, <2>1, <2>2 DEF ShakeTypes, ShakeTurns
      <3>2. ShakeCloses(c)'
        BY Zenon, <2>1, <2>2 DEF ShakeTypes, ShakeTurns, ShakeCloses
      <3>3. ShakeKept(c)'
        BY Zenon, <2>1, <2>2 DEF ShakeTypes, ShakeTurns, ShakeCloses, ShakeKept
      <3> QED
        BY Zenon, <3>1, <3>2, <3>3
    <2> QED
      BY Zenon, <2>2, <2>3, <2>4, ShakeOneConn DEF ShakeTypes
  <1>2. CASE Shake!ConnectFails(c)
    <2>1. client[c] = "idle" /\ server[c] = "idle" /\ c2s[c] = <<>> /\ s2c[c] = <<>>
      BY Zenon, <1>2 DEF Shake!ConnectFails, ShakeTurns
    <2>2. /\ client' = [client EXCEPT ![c] = "failed"]
          /\ closed' = [closed EXCEPT ![c] = @ \union {"client"}]
          /\ broken' = broken \union {c}
          /\ UNCHANGED <<server, c2s, s2c, workers>>
      BY Zenon, <1>2 DEF Shake!ConnectFails, Shake!ClientFails, Shake!Close, Shake!wires
    <2>3. ShakeTypes'
      BY Zenon, <2>2 DEF ShakeTypes, Shake!Ends
    <2>4. ShakeTurns(c)' /\ ShakeCloses(c)' /\ ShakeKept(c)'
      <3>1. ShakeTurns(c)'
        BY Zenon, <2>1, <2>2 DEF ShakeTypes, ShakeTurns
      <3>2. ShakeCloses(c)'
        BY Zenon, <2>1, <2>2 DEF ShakeTypes, ShakeTurns, ShakeCloses
      <3>3. ShakeKept(c)'
        BY Zenon, <2>1, <2>2 DEF ShakeTypes, ShakeTurns, ShakeCloses, ShakeKept
      <3> QED
        BY Zenon, <3>1, <3>2, <3>3
    <2> QED
      BY SMTT(60), <2>2, <2>3, <2>4, ShakeOneConn DEF ShakeTypes
  <1> QED
    BY Zenon, <1>1, <1>2

\* The steps of the client's end, on_logic_connect included.
LEMMA ShakeClientIInv ==
  ASSUME Shake!HandshakeAssumption, ShakeIInv, NEW c \in Conns, Shake!ClientStep(c)
  PROVE  ShakeIInv'
  <1> USE DEF ShakeIInv
  <1>1. CASE Shake!ClientConnectSe(c)
    <2>1. client[c] = "ConnectSe" /\ s2c[c] \in {<<"ok">>, <<"error">>} /\ c2s[c] = <<>>
      BY Zenon, <1>1 DEF Shake!ClientConnectSe, ShakeTypes, ShakeTurns
    <2>2. s2c' = [s2c EXCEPT ![c] = <<>>] /\ UNCHANGED <<server, workers, broken>>
      BY Zenon, <1>1, <2>1, ShakeWords DEF Shake!ClientConnectSe
    <2>3. CASE /\ client' = [client EXCEPT ![c] = "WaitLastACK"]
               /\ c2s' = [c2s EXCEPT ![c] = <<"ok">>]
               /\ UNCHANGED closed
      <3>1. ShakeTypes'
        BY Zenon, <2>2, <2>3 DEF ShakeTypes
      <3>2. ShakeTurns(c)' /\ ShakeCloses(c)' /\ ShakeKept(c)'
        <4>1. ShakeTurns(c)'
          BY Zenon, <2>1, <2>2, <2>3, ShakeWords DEF ShakeTypes, ShakeTurns
        <4>2. ShakeCloses(c)'
          BY Zenon, <2>1, <2>2, <2>3, ShakeWords DEF ShakeTypes, ShakeTurns, ShakeCloses
        <4>3. ShakeKept(c)'
          BY Zenon, <2>1, <2>2, <2>3, ShakeWords DEF ShakeTypes, ShakeTurns, ShakeCloses, ShakeKept
        <4> QED
          BY Zenon, <4>1, <4>2, <4>3
      <3> QED
        BY Zenon, <2>2, <2>3, <3>1, <3>2, ShakeOneConn DEF ShakeTypes
    <2>4. CASE Shake!ClientFails(c) /\ UNCHANGED c2s
      <3>1. ShakeTypes'
        BY Zenon, <2>2, <2>4 DEF ShakeTypes, Shake!ClientFails, Shake!Close, Shake!Ends
      <3>2. ShakeTurns(c)' /\ ShakeCloses(c)' /\ ShakeKept(c)'
        <4>1. ShakeTurns(c)'
          BY Zenon, <2>1, <2>2, <2>4 DEF ShakeTypes, Shake!ClientFails, Shake!Close, ShakeTurns
        <4>2. ShakeCloses(c)'
          BY Zenon, <2>1, <2>2, <2>4
             DEF ShakeTypes, Shake!ClientFails, Shake!Close, ShakeTurns, ShakeCloses
        <4>3. ShakeKept(c)'
          BY Zenon, <2>1, <2>2, <2>4
             DEF ShakeTypes, Shake!ClientFails, Shake!Close, ShakeTurns, ShakeCloses, ShakeKept
        <4> QED
          BY Zenon, <4>1, <4>2, <4>3
      <3> QED
        BY Zenon, <2>2, <2>4, <3>1, <3>2, ShakeOneConn DEF ShakeTypes, Shake!ClientFails, Shake!Close
    <2> QED
      BY Zenon, <1>1, <2>1, <2>3, <2>4, ShakeWords DEF Shake!ClientConnectSe
  <1>2. CASE Shake!ClientWaitLastACK(c)
    <2>1. /\ client[c] = "WaitLastACK" /\ s2c[c] \in {<<"ok">>, <<"error">>} /\ c2s[c] = <<>>
          /\ server[c] \notin {"idle", "Connecting", "accepting", "refusing"}
      BY Zenon, <1>2 DEF Shake!ClientWaitLastACK, ShakeTypes, ShakeTurns
    <2>2. s2c' = [s2c EXCEPT ![c] = <<>>] /\ UNCHANGED <<server, c2s, broken>>
      BY Zenon, <1>2, <2>1, ShakeWords DEF Shake!ClientWaitLastACK
    <2>3. CASE /\ s2c[c] = <<"ok">> /\ Shake!CanPut(c, "client") /\ Shake!Put(c, "client")
               /\ client' = [client EXCEPT ![c] = "Connected"]
               /\ UNCHANGED closed
      <3>1. ShakeTypes' /\ ShakeTurns(c)' /\ ShakeCloses(c)'
        BY Zenon, <2>1, <2>2, <2>3, ShakeTwoNodes DEF ShakeTypes, ShakeTurns, ShakeCloses, Shake!Put
      <3>2. ShakeKept(c)'
        BY <2>1, <2>2, <2>3, ShakeTwoNodes
           DEF ShakeTypes, ShakeTurns, ShakeCloses, ShakeKept, Shake!Put, Shake!CanPut
      <3>3. \A d \in Conns \ {c} :
              UNCHANGED <<client[d], server[d], c2s[d], s2c[d], closed[d], d \in broken>>
        BY Zenon, <2>2, <2>3 DEF ShakeTypes
      <3>4. \A d \in Conns \ {c} : ShakeTurns(d)' /\ ShakeCloses(d)'
        BY Zenon, <3>3, ShakeApart
      <3>5. \A d \in Conns \ {c} : ShakeKept(d)'
        BY Zenon, <2>3, <3>3, ShakeOtherKept, ShakeTwoNodes
           DEF Shake!HandshakeAssumption, Shake!Put, Shake!CanPut
      <3> QED
        BY Zenon, <3>1, <3>2, <3>4, <3>5
    <2>4. CASE Shake!ClientFails(c) /\ UNCHANGED workers
      <3>1. ShakeTypes'
        BY Zenon, <2>2, <2>4 DEF ShakeTypes, Shake!ClientFails, Shake!Close, Shake!Ends
      <3>2. ShakeTurns(c)' /\ ShakeCloses(c)' /\ ShakeKept(c)'
        <4>1. ShakeTurns(c)'
          BY Zenon, <2>1, <2>2, <2>4 DEF ShakeTypes, Shake!ClientFails, Shake!Close, ShakeTurns
        <4>2. ShakeCloses(c)'
          BY Zenon, <2>1, <2>2, <2>4
             DEF ShakeTypes, Shake!ClientFails, Shake!Close, ShakeTurns, ShakeCloses
        <4>3. ShakeKept(c)'
          BY Zenon, <2>1, <2>2, <2>4
             DEF ShakeTypes, Shake!ClientFails, Shake!Close, ShakeTurns, ShakeCloses, ShakeKept
        <4> QED
          BY Zenon, <4>1, <4>2, <4>3
      <3> QED
        BY Zenon, <2>2, <2>4, <3>1, <3>2, ShakeOneConn DEF ShakeTypes, Shake!ClientFails, Shake!Close
    <2> QED
      BY Zenon, <1>2, <2>1, <2>3, <2>4, ShakeWords DEF Shake!ClientWaitLastACK
  <1>3. CASE Shake!ClientRecvFails(c)
    <2>1. /\ client' = [client EXCEPT ![c] = "failed"]
          /\ closed' = [closed EXCEPT ![c] = @ \union {"client"}]
          /\ UNCHANGED <<server, c2s, s2c, workers, broken>>
      BY Zenon, <1>3 DEF Shake!ClientRecvFails, Shake!ClientFails, Shake!Close, Shake!wires
    <2>2. ShakeTypes'
      BY Zenon, <2>1 DEF ShakeTypes, Shake!Ends
    <2>3. client[c] \in {"ConnectSe", "WaitLastACK"}
            /\ (c \in broken \/ server[c] \in {"failed", "Connected"})
      BY Zenon, <1>3 DEF Shake!ClientRecvFails, Shake!Lost, Shake!Other, ShakeCloses
    <2>4. ShakeTurns(c)' /\ ShakeCloses(c)' /\ ShakeKept(c)'
      <3>1. ShakeTurns(c)'
        BY Zenon, <2>1, <2>3 DEF ShakeTypes, ShakeTurns
      <3>2. ShakeCloses(c)'
        BY Zenon, <2>1, <2>3 DEF ShakeTypes, ShakeTurns, ShakeCloses
      <3>3. ShakeKept(c)'
        BY Zenon, <2>1, <2>3 DEF ShakeTypes, ShakeTurns, ShakeCloses, ShakeKept
      <3> QED
        BY Zenon, <3>1, <3>2, <3>3
    <2> QED
      BY Zenon, <2>1, <2>2, <2>4, ShakeOneConn DEF ShakeTypes
  <1>4. CASE Shake!ClientShort(c)
    <2>1. /\ client[c] \in {"ConnectSe", "WaitLastACK"} /\ s2c[c] # <<>>
          /\ client' = [client EXCEPT ![c] = "waiting"]
          /\ UNCHANGED <<server, c2s, s2c, closed, workers, broken>>
      BY Zenon, <1>4 DEF Shake!ClientShort, Shake!wires
    <2>2. ShakeTypes'
      BY Zenon, <2>1 DEF ShakeTypes, Shake!Ends
    <2>3. ShakeTurns(c)' /\ ShakeCloses(c)' /\ ShakeKept(c)'
      <3>1. ShakeTurns(c)'
        BY Zenon, <2>1 DEF ShakeTypes, ShakeTurns
      <3>2. ShakeCloses(c)'
        BY Zenon, <2>1 DEF ShakeTypes, ShakeTurns, ShakeCloses
      <3>3. ShakeKept(c)'
        BY Zenon, <2>1 DEF ShakeTypes, ShakeTurns, ShakeCloses, ShakeKept
      <3> QED
        BY Zenon, <3>1, <3>2, <3>3
    <2> QED
      BY Zenon, <2>1, <2>2, <2>3, ShakeOneConn DEF ShakeTypes
  <1> QED
    BY Zenon, <1>1, <1>2, <1>3, <1>4 DEF Shake!ClientStep

\* The steps of the server's end.
LEMMA ShakeServerIInv ==
  ASSUME Shake!HandshakeAssumption, ShakeIInv, NEW c \in Conns, Shake!ServerStep(c)
  PROVE  ShakeIInv'
  <1> USE DEF ShakeIInv
  <1>1. CASE Shake!Accept(c)
    <2>1. /\ client[c] # "idle" /\ server[c] = "idle"
          /\ server' = [server EXCEPT ![c] = "Connecting"]
          /\ UNCHANGED <<client, c2s, s2c, closed, workers, broken>>
      BY Zenon, <1>1 DEF Shake!Accept, Shake!wires
    <2>2. ShakeTypes'
      BY Zenon, <2>1 DEF ShakeTypes
    <2>3. ShakeTurns(c)' /\ ShakeCloses(c)' /\ ShakeKept(c)'
      <3>1. ShakeTurns(c)'
        BY Zenon, <2>1 DEF ShakeTypes, ShakeTurns
      <3>2. ShakeCloses(c)'
        BY Zenon, <2>1 DEF ShakeTypes, ShakeTurns, ShakeCloses
      <3>3. ShakeKept(c)'
        BY Zenon, <2>1 DEF ShakeTypes, ShakeTurns, ShakeCloses, ShakeKept
      <3> QED
        BY Zenon, <3>1, <3>2, <3>3
    <2> QED
      BY Zenon, <2>1, <2>2, <2>3, ShakeOneConn DEF ShakeTypes
  <1>2. CASE Shake!ServerConnecting(c)
    <2>1. /\ server[c] = "Connecting" /\ c2s[c] \in {<<"request">>, <<"ok">>} /\ s2c[c] = <<>>
          /\ "server" \notin closed[c]
      BY Zenon, <1>2 DEF Shake!ServerConnecting, ShakeTypes, ShakeTurns, ShakeCloses
    <2>2. c2s' = [c2s EXCEPT ![c] = <<>>] /\ UNCHANGED <<client, workers, broken>>
      BY Zenon, <1>2, <2>1, ShakeWords DEF Shake!ServerConnecting
    <2>3. CASE /\ server' = [server EXCEPT ![c] = "ConnectingRe"]
               /\ s2c' = [s2c EXCEPT ![c] = <<"ok">>]
               /\ UNCHANGED closed
      <3>1. ShakeTypes'
        BY Zenon, <2>2, <2>3 DEF ShakeTypes
      <3>2. ShakeTurns(c)' /\ ShakeCloses(c)' /\ ShakeKept(c)'
        <4>1. ShakeTurns(c)'
          BY Zenon, <2>1, <2>2, <2>3, ShakeWords DEF ShakeTypes, ShakeTurns
        <4>2. ShakeCloses(c)'
          BY Zenon, <2>1, <2>2, <2>3, ShakeWords DEF ShakeTypes, ShakeTurns, ShakeCloses
        <4>3. ShakeKept(c)'
          BY Zenon, <2>1, <2>2, <2>3, ShakeWords DEF ShakeTypes, ShakeTurns, ShakeCloses, ShakeKept
        <4> QED
          BY Zenon, <4>1, <4>2, <4>3
      <3> QED
        BY Zenon, <2>2, <2>3, <3>1, <3>2, ShakeOneConn DEF ShakeTypes
    <2>4. CASE Shake!ServerFails(c) /\ UNCHANGED s2c
      <3>1. ShakeTypes'
        BY Zenon, <2>2, <2>4 DEF ShakeTypes, Shake!ServerFails, Shake!Close, Shake!Ends
      <3>2. ShakeTurns(c)' /\ ShakeCloses(c)' /\ ShakeKept(c)'
        <4>1. ShakeTurns(c)'
          BY Zenon, <2>1, <2>2, <2>4, ShakeWords
             DEF ShakeTypes, Shake!ServerFails, Shake!Close, ShakeTurns
        <4>2. ShakeCloses(c)'
          BY Zenon, <2>1, <2>2, <2>4, ShakeWords
             DEF ShakeTypes, Shake!ServerFails, Shake!Close, ShakeTurns, ShakeCloses
        <4>3. ShakeKept(c)'
          BY Zenon, <2>1, <2>2, <2>4, ShakeWords
             DEF ShakeTypes, Shake!ServerFails, Shake!Close, ShakeTurns, ShakeCloses, ShakeKept
        <4> QED
          BY Zenon, <4>1, <4>2, <4>3
      <3> QED
        BY Zenon, <2>2, <2>4, <3>1, <3>2, ShakeOneConn DEF ShakeTypes, Shake!ServerFails, Shake!Close
    <2> QED
      BY Zenon, <1>2, <2>1, <2>3, <2>4, ShakeWords DEF Shake!ServerConnecting
  <1>3. CASE Shake!ServerConnectingRe(c)
    <2>1. /\ server[c] = "ConnectingRe" /\ c2s[c] \in {<<"request">>, <<"ok">>} /\ s2c[c] = <<>>
          /\ "server" \notin closed[c] /\ client[c] # "ConnectSe"
      BY Zenon, <1>3 DEF Shake!ServerConnectingRe, ShakeTypes, ShakeTurns, ShakeCloses
    <2>2. c2s' = [c2s EXCEPT ![c] = <<>>] /\ UNCHANGED <<client, s2c, closed, broken>>
      BY Zenon, <1>3, <2>1, ShakeWords DEF Shake!ServerConnectingRe
    <2>3. CASE /\ Shake!CanPut(c, "server") /\ Shake!Put(c, "server")
               /\ server' = [server EXCEPT ![c] = "accepting"]
      <3>1. ShakeTypes' /\ ShakeTurns(c)' /\ ShakeCloses(c)'
        BY Zenon, <2>1, <2>2, <2>3, ShakeTwoNodes, ShakeWords
           DEF ShakeTypes, ShakeTurns, ShakeCloses, Shake!Put
      <3>2. ShakeKept(c)'
        BY ZenonT(60), <2>1, <2>2, <2>3, ShakeTwoNodes
           DEF ShakeTypes, ShakeTurns, ShakeCloses, ShakeKept, Shake!Put, Shake!CanPut
      <3>3. \A d \in Conns \ {c} :
              UNCHANGED <<client[d], server[d], c2s[d], s2c[d], closed[d], d \in broken>>
        BY Zenon, <2>2, <2>3 DEF ShakeTypes
      <3>4. \A d \in Conns \ {c} : ShakeTurns(d)' /\ ShakeCloses(d)'
        BY Zenon, <3>3, ShakeApart
      <3>5. \A d \in Conns \ {c} : ShakeKept(d)'
        BY Zenon, <2>3, <3>3, ShakeOtherKept, ShakeTwoNodes
           DEF Shake!HandshakeAssumption, Shake!Put, Shake!CanPut
      <3> QED
        BY Zenon, <3>1, <3>2, <3>4, <3>5
    <2>4. CASE server' = [server EXCEPT ![c] = "refusing"] /\ UNCHANGED workers
      <3>1. ShakeTypes'
        BY Zenon, <2>2, <2>4 DEF ShakeTypes
      <3>2. ShakeTurns(c)' /\ ShakeCloses(c)' /\ ShakeKept(c)'
        <4>1. ShakeTurns(c)'
          BY Zenon, <2>1, <2>2, <2>4, ShakeWords DEF ShakeTypes, ShakeTurns
        <4>2. ShakeCloses(c)'
          BY Zenon, <2>1, <2>2, <2>4, ShakeWords DEF ShakeTypes, ShakeTurns, ShakeCloses
        <4>3. ShakeKept(c)'
          BY Zenon, <2>1, <2>2, <2>4, ShakeWords DEF ShakeTypes, ShakeTurns, ShakeCloses, ShakeKept
        <4> QED
          BY Zenon, <4>1, <4>2, <4>3
      <3> QED
        BY Zenon, <2>2, <2>4, <3>1, <3>2, ShakeOneConn DEF ShakeTypes
    <2> QED
      BY Zenon, <1>3, <2>3, <2>4 DEF Shake!ServerConnectingRe
  <1>4. CASE Shake!ServerAnswer(c)
    <2>1. /\ server[c] \in {"accepting", "refusing"} /\ c2s[c] = <<>> /\ s2c[c] = <<>>
          /\ "server" \notin closed[c] /\ client[c] \notin {"idle", "ConnectSe", "Connected"}
          /\ UNCHANGED <<client, c2s, workers, broken>>
      BY Zenon, <1>4 DEF Shake!ServerAnswer, ShakeTurns, ShakeCloses
    <2>2. CASE /\ server[c] = "accepting"
               /\ server' = [server EXCEPT ![c] = "Connected"]
               /\ s2c' = [s2c EXCEPT ![c] = <<"ok">>]
               /\ UNCHANGED closed
      <3>1. ShakeTypes'
        BY Zenon, <2>1, <2>2 DEF ShakeTypes
      <3>2. ShakeTurns(c)' /\ ShakeCloses(c)' /\ ShakeKept(c)'
        <4>1. ShakeTurns(c)'
          BY Zenon, <2>1, <2>2, ShakeWords DEF ShakeTypes, ShakeTurns
        <4>2. ShakeCloses(c)'
          BY Zenon, <2>1, <2>2, ShakeWords DEF ShakeTypes, ShakeTurns, ShakeCloses
        <4>3. ShakeKept(c)'
          BY Zenon, <2>1, <2>2, ShakeWords DEF ShakeTypes, ShakeTurns, ShakeCloses, ShakeKept
        <4> QED
          BY Zenon, <4>1, <4>2, <4>3
      <3> QED
        BY Zenon, <2>1, <2>2, <3>1, <3>2, ShakeOneConn DEF ShakeTypes
    <2>3. CASE /\ server[c] = "refusing" \/ Shake!Lost(c, "server")
               /\ Shake!ServerFails(c)
               /\ s2c' = [s2c EXCEPT ![c] = <<"error">>] \/ UNCHANGED s2c
      <3>1. ShakeTypes'
        BY Zenon, <2>1, <2>3 DEF ShakeTypes, Shake!ServerFails, Shake!Close, Shake!Ends
      <3>2. server[c] = "refusing" \/ c \in broken
        BY Zenon, <2>1, <2>3 DEF Shake!Lost, Shake!Other, ShakeCloses
      <3>3. ShakeTurns(c)' /\ ShakeCloses(c)' /\ ShakeKept(c)'
        <4>1. ShakeTurns(c)'
          BY Zenon, <2>1, <2>3, <3>2, ShakeWords
             DEF ShakeTypes, Shake!ServerFails, Shake!Close, ShakeTurns
        <4>2. ShakeCloses(c)'
          BY Zenon, <2>1, <2>3, <3>2, ShakeWords
             DEF ShakeTypes, Shake!ServerFails, Shake!Close, ShakeTurns, ShakeCloses
        <4>3. ShakeKept(c)'
          BY Zenon, <2>1, <2>3, <3>2, ShakeWords
             DEF ShakeTypes, Shake!ServerFails, Shake!Close, ShakeTurns, ShakeCloses, ShakeKept
        <4> QED
          BY Zenon, <4>1, <4>2, <4>3
      <3> QED
        BY Zenon, <2>1, <2>3, <3>1, <3>3, ShakeOneConn DEF ShakeTypes, Shake!ServerFails, Shake!Close
    <2> QED
      BY Zenon, <1>4, <2>1, <2>2, <2>3, ShakeWords DEF Shake!ServerAnswer
  <1>5. CASE Shake!ServerRecvFails(c)
    <2>1. /\ server[c] \in {"Connecting", "ConnectingRe"}
          /\ server' = [server EXCEPT ![c] = "failed"]
          /\ closed' = [closed EXCEPT ![c] = @ \union {"server"}]
          /\ UNCHANGED <<client, c2s, s2c, workers, broken>>
      BY Zenon, <1>5 DEF Shake!ServerRecvFails, Shake!ServerFails, Shake!Close, Shake!wires
    <2>2. ShakeTypes'
      BY Zenon, <2>1 DEF ShakeTypes, Shake!Ends
    <2>3. ShakeTurns(c)' /\ ShakeCloses(c)' /\ ShakeKept(c)'
      <3>1. ShakeTurns(c)'
        BY Zenon, <2>1 DEF ShakeTypes, ShakeTurns
      <3>2. ShakeCloses(c)'
        BY Zenon, <2>1 DEF ShakeTypes, ShakeTurns, ShakeCloses
      <3>3. ShakeKept(c)'
        BY Zenon, <2>1 DEF ShakeTypes, ShakeTurns, ShakeCloses, ShakeKept
      <3> QED
        BY Zenon, <3>1, <3>2, <3>3
    <2> QED
      BY Zenon, <2>1, <2>2, <2>3, ShakeOneConn DEF ShakeTypes
  <1>6. CASE Shake!ServerShort(c)
    <2>1. /\ server[c] \in {"Connecting", "ConnectingRe"} /\ c2s[c] # <<>>
          /\ server' = [server EXCEPT ![c] = "waiting"]
          /\ UNCHANGED <<client, c2s, s2c, closed, workers, broken>>
      BY Zenon, <1>6 DEF Shake!ServerShort, Shake!wires
    <2>2. ShakeTypes'
      BY Zenon, <2>1 DEF ShakeTypes
    <2>3. ShakeTurns(c)' /\ ShakeCloses(c)' /\ ShakeKept(c)'
      <3>1. ShakeTurns(c)'
        BY Zenon, <2>1 DEF ShakeTypes, ShakeTurns
      <3>2. ShakeCloses(c)'
        BY Zenon, <2>1 DEF ShakeTypes, ShakeTurns, ShakeCloses
      <3>3. ShakeKept(c)'
        BY Zenon, <2>1 DEF ShakeTypes, ShakeTurns, ShakeCloses, ShakeKept
      <3> QED
        BY Zenon, <3>1, <3>2, <3>3
    <2> QED
      BY Zenon, <2>1, <2>2, <2>3, ShakeOneConn DEF ShakeTypes
  <1> QED
    BY Zenon, <1>1, <1>2, <1>3, <1>4, <1>5, <1>6 DEF Shake!ServerStep

\* The steps of either end after the handshake, and of the network.
LEMMA ShakeBreakIInv ==
  ASSUME Shake!HandshakeAssumption, ShakeIInv, NEW c \in Conns, Shake!Break(c)
  PROVE  ShakeIInv'
  <1> USE DEF ShakeIInv
  <1>1. /\ client[c] # "idle" /\ broken' = broken \union {c}
        /\ c2s' = [c2s EXCEPT ![c] = <<>>] /\ s2c' = [s2c EXCEPT ![c] = <<>>]
        /\ UNCHANGED <<client, server, closed, workers>>
    BY Zenon DEF Shake!Break
  <1>2. ShakeTypes'
    BY Zenon, <1>1 DEF ShakeTypes
  <1>3. ShakeTurns(c)' /\ ShakeCloses(c)' /\ ShakeKept(c)'
    <2>1. ShakeTurns(c)'
      BY Zenon, <1>1, ShakeWords DEF ShakeTypes, ShakeTurns
    <2>2. ShakeCloses(c)'
      BY Zenon, <1>1, ShakeWords DEF ShakeTypes, ShakeTurns, ShakeCloses
    <2>3. ShakeKept(c)'
      BY Zenon, <1>1, ShakeWords DEF ShakeTypes, ShakeTurns, ShakeCloses, ShakeKept
    <2> QED
      BY Zenon, <2>1, <2>2, <2>3
  <1> QED
    BY SMTT(60), <1>1, <1>2, <1>3, ShakeOneConn DEF ShakeTypes

\* An end that failed is closed and taken out of its manager.
LEMMA ShakeFinishIInv ==
  ASSUME Shake!HandshakeAssumption, ShakeIInv, NEW c \in Conns, NEW e \in Shake!Ends, Shake!on_finish(c, e)
  PROVE  ShakeIInv'
  <1> USE DEF ShakeIInv
  <1> DEFINE n == Shake!NodeOf(c, e)
             w == IF workers[n] = c THEN NoConn ELSE workers[n]
  <1>1. /\ closed' = [closed EXCEPT ![c] = @ \union {e}]
        /\ workers' = [workers EXCEPT ![n] = w]
        /\ UNCHANGED <<client, server, c2s, s2c, broken>>
    BY Zenon DEF Shake!on_finish, Shake!Close, Shake!wires
  <1>2. (e = "client" /\ client[c] = "Connected") \/ (e = "server" /\ server[c] = "Connected")
    BY Zenon DEF Shake!on_finish, Shake!Ends
  <1>3. n \in Nodes /\ w \in Conns \union {NoConn} /\ w # c
    BY Zenon, ShakeTwoNodes DEF Shake!Ends, ShakeTypes, Shake!HandshakeAssumption
  <1>4. ShakeTypes'
    BY Zenon, <1>1, <1>3 DEF ShakeTypes
  <1>5. ShakeTurns(c)'
    BY Zenon, <1>1 DEF ShakeTurns
  <1>6. ShakeCloses(c)'
    BY Zenon, <1>1, <1>2 DEF ShakeTypes, ShakeTurns, ShakeCloses
  <1>7. ShakeKept(c)'
    <2>1. CASE e = "client"
      BY Zenon, <1>1, <1>2, <1>3, <2>1, ShakeTwoNodes DEF ShakeTypes, ShakeKept
    <2>2. CASE e = "server"
      BY Zenon, <1>1, <1>2, <1>3, <2>2, ShakeTwoNodes DEF ShakeTypes, ShakeKept
    <2> QED
      BY Zenon, <2>1, <2>2 DEF Shake!Ends
  <1>8. ASSUME NEW d \in Conns \ {c} PROVE ShakeTurns(d)' /\ ShakeCloses(d)' /\ ShakeKept(d)'
    <2>1. UNCHANGED <<client[d], server[d], c2s[d], s2c[d], closed[d], d \in broken>>
      BY Zenon, <1>1 DEF ShakeTypes
    <2>2. CASE workers[n] = c
      BY Zenon, <1>1, <1>3, <2>1, <2>2, ShakeApart, ShakeOtherKept DEF Shake!HandshakeAssumption
    <2>3. CASE workers[n] # c
      <3>1. UNCHANGED workers
        BY Zenon, <1>1, <1>3, <2>3 DEF ShakeTypes
      <3> QED
        BY Zenon, <2>1, <3>1, ShakeApart, ShakeSameWorkers
    <2> QED
      BY Zenon, <2>2, <2>3
  <1> QED
    BY Zenon, <1>4, <1>5, <1>6, <1>7, <1>8

\* Every step of either end and of the network keeps the invariant.
LEMMA ShakeNextIInv == Shake!HandshakeAssumption /\ ShakeIInv /\ [Shake!Next]_(Shake!vars) => ShakeIInv'
  <1> SUFFICES ASSUME Shake!HandshakeAssumption, ShakeIInv, [Shake!Next]_(Shake!vars) PROVE ShakeIInv'
    BY Zenon
  <1>1. CASE UNCHANGED Shake!vars
    BY Zenon, <1>1, ShakeApart, ShakeSameWorkers DEF Shake!vars, Shake!wires, ShakeIInv, ShakeTypes
  <1> QED
    BY Zenon, <1>1, ShakeConnectIInv, ShakeClientIInv, ShakeServerIInv, ShakeBreakIInv,
       ShakeFinishIInv DEF Shake!Next

\* The invariant holds in every state of the handshake.
LEMMA ShakeInvariant == Shake!Spec => []ShakeIInv
  <1> USE ShakeUse
  <1>1. Shake!Init => ShakeIInv
    BY Zenon, ShakeInitIInv
  <1>2. ShakeIInv /\ [Shake!Next]_(Shake!vars) => ShakeIInv'
    BY Zenon, ShakeNextIInv
  <1> QED
    BY <1>1, <1>2, PTL DEF Shake!Spec

\* However the connections of the two nodes cross, a client that is connected
\* has a server that keeps the connection until it closes its end.
THEOREM HandshakeAgrees == Shake!Spec => []ClientHasServer
  <1>1. ShakeIInv => ClientHasServer
    BY Zenon DEF ClientHasServer, ShakeIInv, ShakeTurns, ShakeKept, Shake!ClientHasServer
  <1> QED
    BY <1>1, ShakeInvariant, PTL

\* The connection that a node's manager holds has not been deleted at that
\* node, unless the network broke it.
THEOREM HandshakeKeptAlive == Shake!Spec => []KeptAlive
  <1>1. ShakeIInv => KeptAlive
    BY Zenon DEF KeptAlive, ShakeIInv, ShakeCloses, ShakeKept, Shake!KeptAlive, Shake!Ends
  <1> QED
    BY <1>1, ShakeInvariant, PTL
=============================================================================
