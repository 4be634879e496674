----------------------------- MODULE NodeProofs -----------------------------
(***************************************************************************)
(* Proofs about the services of a node: the timer, how the network service *)
(* is stopped, and how the rpc layer above it is. They hold for any number *)
(* of subscriptions, workers, peers, requests and callers.                 *)
(***************************************************************************)
EXTENDS Timer, NodeLife, Sequences, FiniteSetTheorems, TLAPS

----------------------------------------------------------------------------
\* Every step is one of the actions; the proofs below go through them.
MapStep ==
    \/ \E when \in Times, callback \in Callbacks : SubscribeEventAt(when, callback)
    \/ \E when \in Times, callback \in Callbacks : UnsubscribeEvent(when, callback)
    \/ ProcFire
    \/ UnsubscribeAllEvent
QuietStep ==
    Start \/ StopNotify \/ ProcTest \/ ProcLock \/ ProcUnlock \/ ProcWait \/ Timeout
          \/ SpuriousWakeup \/ Tick

\* A step changes the maps in one of four ways, or leaves them alone.
LEMMA Steps == [Next]_vars => MapStep \/ UNCHANGED maps
  <1>1. Next => MapStep \/ QuietStep
    BY Zenon DEF Next, process, MapStep, QuietStep, StopClear
  <1>2. QuietStep => UNCHANGED maps
    BY Zenon DEF QuietStep, Start, StopNotify, ProcTest, ProcLock, ProcUnlock, ProcWait, Timeout,
           SpuriousWakeup, Tick
  <1>3. QED BY Zenon, <1>1, <1>2 DEF vars, maps

\* The part of the type invariant that concerns the maps.
MapType ==
    /\ events \subseteq Subscription
    /\ \A e \in events : e.n <= subs
    /\ subs \in 0 .. MaxSubs
    /\ fired \subseteq 1 .. subs /\ cancelled \subseteq 1 .. subs

\* EndsOnce is inductive together with the numbering of subscriptions: a new
\* subscription's number is new because all earlier ones are at most subs.
MapInv == MapType /\ EndsOnce

\* Empty maps satisfy the invariant.
LEMMA MapInit == Init => MapInv
  BY TimerAssumption DEF Init, MapInv, MapType, EndsOnce

\* SubscribeEventAt keeps the invariant: the number it gives out is new.
LEMMA MapSubscribe ==
    ASSUME MapInv, NEW when \in Times, NEW callback \in Callbacks,
           SubscribeEventAt(when, callback)
    PROVE  MapInv'
  <1> DEFINE new == [when |-> when, callback |-> callback, n |-> subs + 1]
  <1>1. /\ events' = events \union {new} /\ subs' = subs + 1 /\ subs < MaxSubs
        /\ UNCHANGED <<fired, cancelled>>
    BY Zenon DEF SubscribeEventAt
  <1>2. new \in Subscription /\ new.n = subs + 1
    BY <1>1, TimerAssumption DEF MapInv, MapType, Subscription
  <1>3. \A e \in events : e.n \in Nat /\ e.n <= subs
    BY DEF MapInv, MapType, Subscription
  <1> HIDE DEF new
  <1>4. MapType'
    <2>1. \A e \in events' : e.n <= subs'
      BY <1>1, <1>2, <1>3, TimerAssumption DEF MapInv, MapType
    <2>2. QED BY <1>1, <1>2, <2>1, TimerAssumption DEF MapInv, MapType
  <1>5. EndsOnce'
    <2>1. new.n \notin fired \union cancelled
      BY <1>2, TimerAssumption DEF MapInv, MapType
    <2>2. \A e \in events : e.n # new.n
      BY <1>2, <1>3, TimerAssumption DEF MapInv, MapType
    <2>3. QED BY Zenon, <1>1, <2>1, <2>2 DEF MapInv, EndsOnce
  <1>6. QED BY Zenon, <1>4, <1>5 DEF MapInv

\* UnsubscribeEvent keeps it: what it cancels leaves the map.
LEMMA MapUnsubscribe ==
    ASSUME MapInv, NEW when, NEW callback, UnsubscribeEvent(when, callback)
    PROVE  MapInv'
  <1>1. PICK hit \in Find(when, callback) :
            /\ events' = {e \in events : \A h \in hit : h.n # e.n}
            /\ cancelled' = cancelled \union {e.n : e \in events \ events'}
    BY Zenon DEF UnsubscribeEvent
  <1>2. UNCHANGED <<subs, fired>>
    BY Zenon DEF UnsubscribeEvent
  <1>3. events' \subseteq events
    BY Zenon, <1>1
  <1>4. \A e \in events : e.n \in 1 .. subs
    BY TimerAssumption DEF MapInv, MapType, Subscription
  <1>5. cancelled' \subseteq 1 .. subs
    BY Zenon, <1>1, <1>4 DEF MapInv, MapType
  <1>6. MapType'
    BY Zenon, <1>2, <1>3, <1>5 DEF MapInv, MapType
  <1>7. \A e \in events' : e.n \notin cancelled'
    BY Zenon, <1>1, <1>3 DEF MapInv, EndsOnce
  <1>8. fired \intersect cancelled' = {}
    BY <1>1 DEF MapInv, EndsOnce
  <1>9. QED BY Zenon, <1>2, <1>3, <1>6, <1>7, <1>8 DEF MapInv, EndsOnce

\* Running an event keeps it: what has run leaves the map.
LEMMA MapFire == MapInv /\ ProcFire => MapInv'
  <1> SUFFICES ASSUME MapInv, ProcFire PROVE MapInv'
    BY Zenon
  <1>1. PICK e \in events : events' = events \ {e} /\ fired' = fired \union {e.n}
    BY Zenon DEF ProcFire
  <1>2. UNCHANGED <<subs, cancelled>>
    BY Zenon DEF ProcFire
  <1>3. e.n \in 1 .. subs
    BY TimerAssumption DEF MapInv, MapType, Subscription
  <1>4. MapType'
    BY Zenon, <1>1, <1>2, <1>3 DEF MapInv, MapType
  <1>5. EndsOnce'
    BY Zenon, <1>1, <1>2 DEF MapInv, EndsOnce
  <1>6. QED BY Zenon, <1>4, <1>5 DEF MapInv

\* Steps that leave the maps alone keep it.
LEMMA MapStutter == MapInv /\ UNCHANGED maps => MapInv'
  BY Zenon DEF MapInv, MapType, EndsOnce, maps

\* Every step keeps it.
LEMMA MapNext == MapInv /\ [Next]_vars => MapInv'
  <1> SUFFICES ASSUME MapInv, [Next]_vars PROVE MapInv'
    BY Zenon
  <1>1. CASE \E when \in Times, callback \in Callbacks : SubscribeEventAt(when, callback)
    BY Zenon, <1>1, MapSubscribe
  <1>2. CASE \E when \in Times, callback \in Callbacks : UnsubscribeEvent(when, callback)
    BY Zenon, <1>2, MapUnsubscribe
  <1>3. CASE ProcFire
    BY Zenon, <1>3, MapFire
  <1>4. CASE UnsubscribeAllEvent
    BY Zenon, <1>4 DEF MapInv, MapType, EndsOnce, UnsubscribeAllEvent
  <1>5. CASE UNCHANGED maps
    BY Zenon, <1>5, MapStutter
  <1>6. QED BY Zenon, <1>1, <1>2, <1>3, <1>4, <1>5, Steps DEF MapStep

\* Timer::process and UnsubscribeEvent settle every subscription at most once,
\* however they interleave and whatever the callbacks.
THEOREM TimerEndsOnce == Spec => []EndsOnce
  <1>1. MapInv => EndsOnce
    BY Zenon DEF MapInv
  <1>2. QED BY MapInit, MapNext, <1>1, PTL DEF Spec

----------------------------------------------------------------------------
\* With one callback, as the synchronous rpc client uses the timer, ids never
\* clash, and an id names at most one subscription.
OneCallback == \A c, d \in Callbacks : c = d
IdsUnique == \A d, e \in events : Id(d) = Id(e) => d = e
AgreeInv == MapInv /\ EntriesAgree /\ IdsUnique

\* Without clashing ids the table finds exactly the subscription of an id.
LEMMA FindExact ==
    ASSUME OneCallback, AgreeInv, NEW when, NEW callback
    PROVE  Find(when, callback) = {{e \in events : Id(e) = <<when, callback>>}}
  <1>1. \A d, e \in entries : ~Clash(d, e)
    <2>1. \A d \in entries : d.callback \in Callbacks
      BY Zenon DEF AgreeInv, EntriesAgree, MapInv, MapType, Subscription
    <2>2. \A d, e \in entries : d.callback = e.callback /\ d.callback \in Nat
      BY Zenon, <2>1, TimerAssumption DEF OneCallback
    <2>3. \A m, n \in Nat : m = n => ~(m < n) /\ ~(m > n)
      OBVIOUS
    <2>4. QED BY Zenon, <2>2, <2>3 DEF Clash
  <1>2. {e \in entries : Id(e) = <<when, callback>>} \subseteq entries
    BY Zenon
  <1>3. QED BY Zenon, <1>1, <1>2 DEF Find, AgreeInv, EntriesAgree

\* With one callback every step keeps the agreement of the two maps.
LEMMA AgreeNext == OneCallback /\ AgreeInv /\ [Next]_vars => AgreeInv'
  <1> SUFFICES ASSUME OneCallback, AgreeInv, [Next]_vars
               PROVE  EntriesAgree' /\ IdsUnique'
    BY Zenon, MapNext DEF AgreeInv
  <1>1. ASSUME NEW when \in Times, NEW callback \in Callbacks,
               SubscribeEventAt(when, callback)
        PROVE  EntriesAgree' /\ IdsUnique'
    <2> DEFINE new == [when |-> when, callback |-> callback, n |-> subs + 1]
    <2>1. /\ events' = events \union {new}
          /\ entries' = IF {hit \in entries : Id(hit) = Id(new)} = {}
                          THEN entries \union {new} ELSE entries
      BY Zenon, <1>1 DEF SubscribeEventAt
    <2>2. \A e \in events : Id(e) # Id(new)
      <3>1. Id(new) = <<when, callback>>
        BY Zenon DEF Id
      <3>2. \A e \in events : e.when \in Nat
        BY TimerAssumption DEF AgreeInv, MapInv, MapType, Subscription, Times
      <3>3. QED BY <1>1, <3>1, <3>2 DEF SubscribeEventAt, Present, Id
    <2> HIDE DEF new
    <2>3. QED BY Zenon, <2>1, <2>2 DEF AgreeInv, EntriesAgree, IdsUnique
  <1>2. ASSUME NEW when \in Times, NEW callback \in Callbacks,
               UnsubscribeEvent(when, callback)
        PROVE  EntriesAgree' /\ IdsUnique'
    <2>1. PICK hit \in Find(when, callback) :
              /\ entries' = entries \ hit
              /\ events' = {e \in events : \A h \in hit : h.n # e.n}
      BY Zenon, <1>2 DEF UnsubscribeEvent
    <2>2. hit \subseteq events
      BY <2>1, FindExact
    <2>3. events' = events \ hit
      BY Zenon, <2>1, <2>2 DEF AgreeInv, MapInv, EndsOnce
    <2>4. QED BY Zenon, <2>1, <2>3 DEF AgreeInv, EntriesAgree, IdsUnique
  <1>3. CASE ProcFire
    <2>1. PICK e \in events :
              /\ events' = events \ {e}
              /\ \E hit \in Find(e.when, e.callback) : entries' = entries \ hit
      BY Zenon, <1>3 DEF ProcFire
    <2>2. Find(e.when, e.callback) = {{d \in events : Id(d) = Id(e)}}
      BY Zenon, FindExact DEF Id
    <2>3. {d \in events : Id(d) = Id(e)} = {e}
      BY Zenon DEF AgreeInv, IdsUnique
    <2>4. QED BY Zenon, <2>1, <2>2, <2>3 DEF AgreeInv, EntriesAgree, IdsUnique
  <1>4. CASE UnsubscribeAllEvent
    BY Zenon, <1>4 DEF UnsubscribeAllEvent, EntriesAgree, IdsUnique
  <1>5. CASE UNCHANGED maps
    BY Zenon, <1>5 DEF maps, AgreeInv, EntriesAgree, IdsUnique
  <1>6. QED BY Zenon, <1>1, <1>2, <1>3, <1>4, <1>5, Steps DEF MapStep

\* With one callback the two maps always describe the same subscriptions: every
\* id that was given out and not used cancels its event, and no id leads to an
\* erased position.
THEOREM TimerEntriesAgree == OneCallback => (Spec => []EntriesAgree)
  <1> SUFFICES ASSUME OneCallback PROVE Spec => []EntriesAgree
    BY Zenon
  <1>1. Init => AgreeInv
    BY Zenon, MapInit DEF Init, AgreeInv, EntriesAgree, IdsUnique
  <1>2. AgreeInv /\ [Next]_vars => AgreeInv'
    BY Zenon, AgreeNext
  <1>3. AgreeInv => EntriesAgree
    BY Zenon DEF AgreeInv
  <1>4. QED BY <1>1, <1>2, <1>3, PTL DEF Spec

----------------------------------------------------------------------------
NetLoops == {"none", "head", "wait", "got", "drain", "events", "post", "add", "ended"}
NetBusy == {"queued", "init", "ready", "next", "pick", "add", "wakeup"}
NetTasks == NetBusy \cup {"none", "dropped", "failed", "done"}

NetTypes ==
    /\ ew \in [Net!Workers -> {"none", "up", "deleted"}]
    /\ loop \in [Net!Workers -> NetLoops]
    /\ hs \in [Peers -> NetTasks]
    /\ target \in [Peers -> Net!Workers]
    /\ m_iCurWorkerIdx \in -1 .. ConnWorkers - 1

NetDeleted == {w \in Net!Workers : ew[w] = "deleted"}

\* Stop goes through the workers from the listening one up.
NetDeleting == owner \in {"wake worker", "join worker"}
NetOver == owner \in {"delete tp", "stopped"}

\* The listening thread has ended before the handshake threads are joined, so
\* they stay without a task; the workers are deleted in order, each after its
\* thread has ended, and the pool of the messenger when none is left.
NetIInv ==
    /\ NetTypes
    /\ owner = "join handshakes" \/ NetDeleting \/ NetOver => loop[Net!listener] = "ended"
    /\ NetDeleting \/ NetOver => \A p \in Peers : hs[p] \notin NetBusy
    /\ \A w \in NetDeleted : loop[w] = "ended"
    /\ NetDeleting => \E k \in 1 .. ConnWorkers : NetDeleted = 0 .. k - 1
    /\ NetOver => NetDeleted = Net!Workers
    /\ ~NetDeleting /\ ~NetOver => NetDeleted = {}
    /\ m_pDispatchTp = "deleted" => owner = "stopped"

\* Before Start there is no worker.
LEMMA NetInitIInv == Net!NetAssumption /\ Net!Init => NetIInv
  <1> SUFFICES ASSUME Net!NetAssumption, Net!Init PROVE NetIInv
    BY Zenon
  <1>1. NetTypes
    BY DEF Net!NetAssumption, Net!Init, NetTypes, Net!Workers, Net!listener, NetLoops, NetTasks
  <1>2. NetDeleted = {}
    BY Zenon DEF Net!Init, NetDeleted
  <1> QED
    BY Zenon, <1>1, <1>2 DEF NetIInv, Net!Init, NetDeleting, NetOver

\* A step of a worker's thread.
LEMMA NetLoopStep ==
  ASSUME Net!NetAssumption, NetIInv, NEW w \in Net!Workers, NEW s \in NetLoops, loop[w] # "ended",
         loop' = [loop EXCEPT ![w] = s], UNCHANGED <<Net!owning, ew, Net!shaking>>
  PROVE  NetIInv'
  <1>1. NetTypes'
    BY Zenon DEF NetIInv, NetTypes, Net!owning, Net!shaking
  <1>2. \A v \in Net!Workers : loop[v] = "ended" => loop'[v] = "ended"
    BY Zenon DEF NetIInv, NetTypes
  <1>3. /\ UNCHANGED <<owner, hs, m_pDispatchTp>> /\ NetDeleted' = NetDeleted /\ NetDeleted \subseteq Net!Workers
        /\ NetDeleting' = NetDeleting /\ NetOver' = NetOver
    BY Zenon DEF Net!owning, Net!shaking, NetDeleted, NetDeleting, NetOver
  <1>4. Net!listener \in Net!Workers
    BY DEF Net!NetAssumption, Net!Workers, Net!listener
  <1> QED
    BY Zenon, <1>1, <1>2, <1>3, <1>4 DEF NetIInv

\* A step of a handshake task.
LEMMA NetShakeStep ==
  ASSUME NetIInv, NEW p \in Peers, NEW s \in NetTasks, hs[p] \in NetBusy \/ loop[Net!listener] # "ended",
         hs' = [hs EXCEPT ![p] = s], target' \in [Peers -> Net!Workers],
         m_iCurWorkerIdx' \in -1 .. ConnWorkers - 1, UNCHANGED <<Net!owning, ew, loop>>
  PROVE  NetIInv'
  <1>1. NetTypes'
    BY Zenon DEF NetIInv, NetTypes, Net!owning
  <1>3. /\ UNCHANGED <<owner, loop, m_pDispatchTp>> /\ NetDeleted' = NetDeleted
        /\ NetDeleting' = NetDeleting /\ NetOver' = NetOver
    BY Zenon DEF Net!owning, NetDeleted, NetDeleting, NetOver
  <1>4. ~NetDeleting /\ ~NetOver
    BY Zenon DEF NetIInv
  <1> QED
    BY Zenon, <1>1, <1>3, <1>4 DEF NetIInv

\* worker_loop goes on, or ends when it sees the flag.
LEMMA NetWorkerStep ==
  ASSUME Net!NetAssumption, NetIInv, NEW w \in Net!Workers, Net!worker_loop(w) \/ Net!HandlerEvent(w)
  PROVE  NetIInv'
  <1>1. PICK s \in NetLoops : loop' = [loop EXCEPT ![w] = s]
    BY Zenon DEF Net!worker_loop, Net!HandlerEvent, Net!LoopHead, Net!GetInternalEvent,
           Net!LoopTest, Net!Drain, Net!Notify, Net!Post,
           Net!AddHandlers, NetLoops
  <1>2. loop[w] # "ended" /\ UNCHANGED <<Net!owning, ew, Net!shaking>>
    BY Zenon DEF Net!worker_loop, Net!HandlerEvent, Net!LoopHead, Net!GetInternalEvent,
           Net!LoopTest, Net!Drain, Net!Notify, Net!Post,
           Net!AddHandlers
  <1> QED
    BY Zenon, <1>1, <1>2, NetLoopStep

\* A peer connects, and a handshake thread hands the connection to a worker.
LEMMA NetPeerStep ==
  ASSUME Net!NetAssumption, NetIInv, NEW p \in Peers, Net!Accept(p) \/ Net!Handshake(p) \/ Net!HsInitialize(p)
  PROVE  NetIInv'
  <1>1. PICK s \in NetTasks : hs' = [hs EXCEPT ![p] = s]
    BY Zenon DEF Net!Accept, Net!Handshake, Net!HsInitialize, Net!HsTake, Net!on_stack_connect,
           Net!AddEventNext, Net!AddEventPick,
           Net!AddExternalEpAddEvent, Net!Wakeup, NetTasks, NetBusy
  <1>2. hs[p] \in NetBusy \/ loop[Net!listener] # "ended"
    BY Zenon DEF Net!Accept, Net!Handshake, Net!HsInitialize, Net!HsTake, Net!on_stack_connect,
           Net!AddEventNext, Net!AddEventPick,
           Net!AddExternalEpAddEvent, Net!Wakeup, NetBusy
  <1>3. UNCHANGED <<Net!owning, ew, loop>>
    BY Zenon DEF Net!Accept, Net!Handshake, Net!HsInitialize, Net!HsTake, Net!on_stack_connect,
           Net!AddEventNext, Net!AddEventPick,
           Net!AddExternalEpAddEvent, Net!Wakeup, Net!looping
  <1>4. /\ target \in [Peers -> Net!Workers] /\ m_iCurWorkerIdx \in -1 .. ConnWorkers - 1
        /\ ConnWorkers \in Nat \ {0}
    BY Zenon DEF NetIInv, NetTypes, Net!NetAssumption
  <1>5. target' \in [Peers -> Net!Workers]
    <2>1. CASE Net!AddEventPick(p)
      <3>1. m_iCurWorkerIdx + 1 \in Net!Workers
        BY <1>4 DEF Net!Workers
      <3> QED
        BY Zenon, <1>4, <2>1, <3>1 DEF Net!AddEventPick
    <2>2. CASE ~Net!AddEventPick(p)
      BY Zenon, <1>4, <2>2
         DEF Net!Accept, Net!Handshake, Net!HsInitialize, Net!HsTake, Net!on_stack_connect,
             Net!AddEventNext,
           Net!AddExternalEpAddEvent, Net!Wakeup
    <2> QED
      BY Zenon, <2>1, <2>2
  <1>6. m_iCurWorkerIdx' \in -1 .. ConnWorkers - 1
    <2>1. CASE Net!AddEventNext(p)
      <3>1. (m_iCurWorkerIdx + 1) % ConnWorkers \in 0 .. ConnWorkers - 1
        BY <1>4
      <3> QED
        BY <1>4, <2>1, <3>1 DEF Net!AddEventNext
    <2>2. CASE ~Net!AddEventNext(p)
      BY Zenon, <1>4, <2>2
         DEF Net!Accept, Net!Handshake, Net!HsInitialize, Net!HsTake, Net!on_stack_connect,
             Net!AddEventPick,
           Net!AddExternalEpAddEvent, Net!Wakeup
    <2> QED
      BY Zenon, <2>1, <2>2
  <1> QED
    BY Zenon, <1>1, <1>2, <1>3, <1>5, <1>6, NetShakeStep

\* A step of Start: nothing is deleted yet.
LEMMA NetStartStep ==
  ASSUME Net!NetAssumption, NetIInv,
         Net!Start \/ Net!StartListen \/ (\E w \in Net!Workers : Net!StartWorker(w)) \/ Net!StartDispatch
  PROVE  NetIInv'
  <1>1. /\ ~NetDeleting /\ ~NetOver /\ owner # "join handshakes"
        /\ ~NetDeleting' /\ ~NetOver' /\ owner' # "join handshakes"
        /\ m_pDispatchTp' = "deleted" => m_pDispatchTp = "deleted"
        /\ UNCHANGED <<hs, target, m_iCurWorkerIdx>>
    BY Zenon DEF Net!Start, Net!StartListen, Net!StartWorker, Net!StartDispatch, NetDeleting,
           NetOver, Net!shaking
  <1>2. Net!listener \in Net!Workers
    BY DEF Net!NetAssumption, Net!Workers, Net!listener
  <1>3. ew' \in [Net!Workers -> {"none", "up", "deleted"}] /\ \A v \in Net!Workers : ew'[v] \in {ew[v], "up"}
    <2>1. ew' = ew \/ \E v \in Net!Workers : ew' = [ew EXCEPT ![v] = "up"]
      BY Zenon, <1>2
         DEF Net!Start, Net!StartListen, Net!StartWorker, Net!StartDispatch, Net!NewEventWorker
    <2>2. ew \in [Net!Workers -> {"none", "up", "deleted"}]
      BY Zenon DEF NetIInv, NetTypes
    <2>3. CASE ew' = ew
      BY Zenon, <2>2, <2>3
    <2>4. ASSUME NEW v \in Net!Workers, ew' = [ew EXCEPT ![v] = "up"]
          PROVE  /\ ew' \in [Net!Workers -> {"none", "up", "deleted"}]
                 /\ \A u \in Net!Workers : ew'[u] \in {ew[u], "up"}
      BY Zenon, <2>2, <2>4
    <2> QED
      BY Zenon, <2>1, <2>3, <2>4
  <1>4. loop' \in [Net!Workers -> NetLoops]
    BY Zenon, <1>2
       DEF NetIInv, NetTypes, Net!Start, Net!StartListen, Net!StartWorker, Net!StartDispatch,
           Net!looping, NetLoops
  <1>5. NetDeleted' = {}
    BY Zenon, <1>1, <1>3 DEF NetIInv, NetDeleted
  <1>6. m_pDispatchTp' # "deleted"
    BY Zenon, <1>1 DEF NetIInv, NetOver
  <1>7. NetTypes'
    BY Zenon, <1>1, <1>3, <1>4 DEF NetIInv, NetTypes
  <1> QED
    BY Zenon, <1>1, <1>5, <1>6, <1>7 DEF NetIInv

\* The worker Stop is at is the one after those it has deleted.
LEMMA NetNext1 ==
  ASSUME Net!NetAssumption, NetIInv, NetDeleting
  PROVE  Net!Current \in 1 .. ConnWorkers /\ NetDeleted = 0 .. Net!Current - 1
  <1>1. PICK k \in 1 .. ConnWorkers : NetDeleted = 0 .. k - 1
    BY Zenon DEF NetIInv
  <1>2. Cardinality(0 .. k - 1) = k
    <2>1. 0 \in Int /\ k - 1 \in Int /\ k - 1 >= 0 - 1 /\ (k - 1) - 0 + 1 = k
      BY DEF Net!NetAssumption
    <2> QED
      BY <2>1, FS_Interval
  <1>3. Net!Current = k
    <2>1. Net!Cardinality(NetDeleted) = Cardinality(NetDeleted)
      BY Zenon DEF Net!Cardinality, Cardinality
    <2> QED
      BY Zenon, <1>1, <1>2, <2>1 DEF Net!Current, NetDeleted
  <1> QED
    BY Zenon, <1>1, <1>3

\* Stop joins the listening worker, the handshake threads and the others in turn.
LEMMA NetStopStep ==
  ASSUME Net!NetAssumption, NetIInv, Net!Stop
  PROVE  NetIInv'
  <1>0. Net!listener \in Net!Workers
    BY DEF Net!NetAssumption, Net!Workers, Net!listener
  <1>1. CASE Net!StopFlag \/ Net!StopWakeListener \/ Net!StopJoinListener
    <2>1. /\ ~NetDeleting /\ ~NetOver /\ ~NetDeleting' /\ ~NetOver'
          /\ UNCHANGED <<ew, loop, hs, target, m_iCurWorkerIdx, m_pDispatchTp>>
          /\ owner' = "join handshakes" => loop[Net!listener] = "ended"
          /\ owner' # "stopped" /\ owner # "stopped"
      BY Zenon, <1>1
         DEF Net!StopFlag, Net!StopWakeListener, Net!StopJoinListener, NetDeleting, NetOver,
             Net!shaking, Net!looping
    <2>2. NetTypes' /\ NetDeleted' = NetDeleted
      BY Zenon, <2>1 DEF NetIInv, NetTypes, NetDeleted
    <2> QED
      BY Zenon, <2>1, <2>2 DEF NetIInv
  <1>2. CASE Net!StopJoinHandshakes
    <2>1. /\ owner = "join handshakes" /\ owner' = "wake worker" /\ ~NetDeleting /\ ~NetOver
          /\ NetDeleting' /\ ~NetOver' /\ ew' = [ew EXCEPT ![Net!listener] = "deleted"]
          /\ UNCHANGED <<loop, hs, target, m_iCurWorkerIdx, m_pDispatchTp>>
      BY Zenon, <1>2 DEF Net!StopJoinHandshakes, NetDeleting, NetOver, Net!shaking, Net!looping
    <2>2. NetTypes'
      BY Zenon, <1>0, <2>1 DEF NetIInv, NetTypes
    <2>3. NetDeleted' = {Net!listener}
      BY Zenon, <1>0, <2>1 DEF NetIInv, NetTypes, NetDeleted
    <2>4. 1 \in 1 .. ConnWorkers /\ {Net!listener} = 0 .. 1 - 1
      BY DEF Net!NetAssumption, Net!listener
    <2>5. \A p \in Peers : hs'[p] \notin NetBusy
      BY Zenon, <1>2, <2>1 DEF Net!StopJoinHandshakes, Net!Running, NetBusy
    <2>6. loop'[Net!listener] = "ended"
      BY Zenon, <2>1 DEF NetIInv
    <2>7. m_pDispatchTp' # "deleted"
      BY Zenon, <2>1 DEF NetIInv
    <2> QED
      BY Zenon, <2>1, <2>2, <2>3, <2>4, <2>5, <2>6, <2>7 DEF NetIInv
  <1>3. CASE Net!StopWakeWorker
    <2>1. /\ NetDeleting /\ ~NetOver /\ NetDeleting' /\ ~NetOver' /\ owner' = "join worker" /\ owner # "stopped"
          /\ UNCHANGED <<ew, loop, hs, target, m_iCurWorkerIdx, m_pDispatchTp>>
      BY Zenon, <1>3 DEF Net!StopWakeWorker, NetDeleting, NetOver, Net!shaking
    <2>2. NetTypes' /\ NetDeleted' = NetDeleted
      BY Zenon, <2>1 DEF NetIInv, NetTypes, NetDeleted
    <2> QED
      BY Zenon, <2>1, <2>2 DEF NetIInv
  <1>4. CASE Net!StopJoinWorker
    <2>1. NetDeleting /\ ~NetOver
      BY Zenon, <1>4 DEF Net!StopJoinWorker, NetDeleting, NetOver
    <2>2. PICK k \in 1 .. ConnWorkers : k = Net!Current /\ NetDeleted = 0 .. k - 1
      BY Zenon, <2>1, NetNext1
    <2>3. k \in Net!Workers /\ k \in Nat /\ ConnWorkers \in Nat
      BY <2>2 DEF Net!Workers, Net!NetAssumption
    <2>4. /\ loop[k] = "ended" /\ ew' = [ew EXCEPT ![k] = "deleted"]
          /\ owner' = IF k = ConnWorkers THEN "delete tp" ELSE "wake worker"
          /\ UNCHANGED <<loop, hs, target, m_iCurWorkerIdx, m_pDispatchTp>>
      BY Zenon, <1>4, <2>2 DEF Net!StopJoinWorker, Net!shaking, Net!looping
    <2>5. NetTypes'
      BY Zenon, <2>3, <2>4 DEF NetIInv, NetTypes
    <2>6. NetDeleted' = NetDeleted \cup {k}
      BY Zenon, <2>3, <2>4 DEF NetIInv, NetTypes, NetDeleted
    <2>7. NetDeleted' = 0 .. k
      BY <2>2, <2>3, <2>6
    <2>8. /\ loop'[Net!listener] = "ended" /\ m_pDispatchTp' # "deleted"
          /\ \A p \in Peers : hs'[p] \notin NetBusy
      BY Zenon, <2>1, <2>4 DEF NetIInv, NetOver
    <2>9. \A w \in NetDeleted' : loop'[w] = "ended"
      BY Zenon, <2>4, <2>6 DEF NetIInv
    <2>10. CASE k = ConnWorkers
      <3>1. owner' = "delete tp" /\ NetOver' /\ ~NetDeleting'
        BY Zenon, <2>4, <2>10 DEF NetOver, NetDeleting
      <3>2. NetDeleted' = Net!Workers
        BY Zenon, <2>7, <2>10 DEF Net!Workers
      <3> QED
        BY Zenon, <2>5, <2>8, <2>9, <3>1, <3>2 DEF NetIInv
    <2>11. CASE k # ConnWorkers
      <3>1. owner' = "wake worker" /\ ~NetOver' /\ NetDeleting'
        BY Zenon, <2>4, <2>11 DEF NetOver, NetDeleting
      <3>2. k + 1 \in 1 .. ConnWorkers /\ NetDeleted' = 0 .. (k + 1) - 1
        BY <2>3, <2>7, <2>11
      <3> QED
        BY Zenon, <2>5, <2>8, <2>9, <3>1, <3>2 DEF NetIInv
    <2> QED
      BY Zenon, <2>10, <2>11
  <1>5. CASE Net!StopDispatch
    <2>1. /\ ~NetDeleting /\ NetOver /\ ~NetDeleting' /\ NetOver' /\ owner' = "stopped"
          /\ UNCHANGED <<ew, loop, hs, target, m_iCurWorkerIdx>>
      BY Zenon, <1>5 DEF Net!StopDispatch, NetDeleting, NetOver, Net!shaking, Net!looping
    <2>2. NetTypes' /\ NetDeleted' = NetDeleted
      BY Zenon, <2>1 DEF NetIInv, NetTypes, NetDeleted
    <2> QED
      BY Zenon, <2>1, <2>2 DEF NetIInv
  <1> QED
    BY Zenon, <1>1, <1>2, <1>3, <1>4, <1>5 DEF Net!Stop

\* Nothing that Stop has deleted is used any more: not a worker by a handshake
\* thread or by its own thread, and not the dispatch pool (StopSafe).
THEOREM StopsSafely == Net!Spec => []StopSafe
  <1> USE NetUse
  <1>1. Net!Init => NetIInv
    BY Zenon, NetInitIInv
  <1>2. NetIInv /\ [Net!Next]_(Net!vars) => NetIInv'
    <2> SUFFICES ASSUME NetIInv, [Net!Next]_(Net!vars) PROVE NetIInv'
      BY Zenon
    <2>1. CASE UNCHANGED Net!vars
      <3>1. UNCHANGED <<owner, ew, loop, hs, target, m_iCurWorkerIdx, m_pDispatchTp>>
        BY Zenon, <2>1 DEF Net!vars, Net!owning, Net!looping, Net!shaking
      <3> QED
        BY Zenon, <3>1 DEF NetIInv, NetTypes, NetDeleted, NetDeleting, NetOver
    <2> QED
      BY Zenon, <2>1, NetStartStep, NetStopStep, NetWorkerStep, NetPeerStep DEF Net!Next, Net!Owner
  <1>3. NetIInv => StopSafe
    <2> SUFFICES ASSUME NetIInv PROVE Net!StopSafe
      BY Zenon DEF StopSafe
    <2>1. Net!NeverFreed
      <3> SUFFICES ASSUME NEW p \in Peers, hs[p] \in {"add", "wakeup"}
                   PROVE  ew[target[p]] # "deleted"
        BY Zenon DEF Net!NeverFreed
      <3>1. ~NetDeleting /\ ~NetOver /\ target[p] \in Net!Workers
        BY Zenon DEF NetIInv, NetTypes, NetBusy
      <3> QED
        BY Zenon, <3>1 DEF NetIInv, NetDeleted
    <2>2. Net!DispatchAlive
      <3>1. ASSUME NEW w \in Net!Workers, loop[w] = "post" PROVE m_pDispatchTp # "deleted"
        BY Zenon, <3>1 DEF NetIInv, NetOver
      <3> QED
        BY Zenon, <3>1 DEF NetIInv, Net!DispatchAlive, NetDeleted
    <2> QED
      BY Zenon, <2>1, <2>2 DEF Net!StopSafe
  <1> QED
    BY <1>1, <1>2, <1>3, PTL DEF Net!Spec

----------------------------------------------------------------------------
\* The steps of the owner, in the order of Start and Stop.
RpcStarting == {"start dispatch", "start clients", "register", "start server"}
RpcRunning == {"started", "stop clients", "stop server", "join server"}
RpcStopping == {"stop service", "join io", "reset", "stop dispatch", "join dispatch"}

RpcTypes ==
    /\ messenger \in RpcStarting \union RpcRunning \union RpcStopping \union {"stopped", "failed"}
    /\ m_bRpcStopped \in [{"messenger", "client", "server", "service"} -> BOOLEAN]
    /\ m_bRegistered \in [{"client", "server"} -> BOOLEAN]
    /\ m_sspMgr \in BOOLEAN
    /\ m_pWorkThreadPool \in {"null", "up", "joining"}
    /\ dispatchTp \in {"null", "up", "joining"}
    /\ req \in [Requests -> {"none", "dropped", "recv", "posted", "handle", "queued", "lookup",
                             "handling", "reply", "manager", "refused", "sent"}]

\* The client registers in the first Start only, and only that Start gets as
\* far as the handlers and the server.
RpcFirstStart ==
    /\ m_bRegistered["client"] = FALSE => m_sspMgr = TRUE /\ messenger \in {"stopped", "start dispatch", "start clients"}
    /\ messenger \in {"register", "start server", "started"} => m_sspMgr = TRUE
    /\ messenger \in {"start server", "started"} => m_hmHandlers = Ids

\* The pool of the server lives from StartServer to JoinServer.
RpcServerPool ==
    /\ m_pWorkThreadPool # "null" => messenger \in RpcRunning /\ m_sspMgr = TRUE /\ m_hmHandlers = Ids
    /\ m_bRpcStopped["server"] = FALSE => m_pWorkThreadPool = "up"
    /\ messenger = "join server" => m_bRpcStopped["server"] = TRUE
    /\ messenger = "started" => m_pWorkThreadPool = "up"
    /\ Rpc!InServer # {} => m_pWorkThreadPool # "null"

\* The dispatch pool lives longer than the IO threads that post to it.
RpcDispatchPool ==
    /\ dispatchTp = "joining" => messenger = "join dispatch"
    /\ messenger = "started" => dispatchTp = "up"
    /\ messenger \in {"start clients", "register", "start server"} => dispatchTp = "up"
    /\ messenger \in {"join io", "reset", "stop dispatch", "join dispatch", "stopped"} =>
         m_bRpcStopped["service"] = TRUE
    /\ messenger \in {"reset", "stop dispatch", "join dispatch", "stopped"} =>
         \A r \in Requests : req[r] # "recv"

RpcDeaths ==
    /\ died # "manager"
    /\ messenger = "started" => died \in {"no", "thrown"}

RpcIInv == RpcTypes /\ RpcFirstStart /\ RpcServerPool /\ RpcDispatchPool /\ RpcDeaths

\* Before the first Start nothing is up.
LEMMA RpcInitIInv == Rpc!Init => RpcIInv
  BY Zenon DEF Rpc!Init, RpcIInv, RpcTypes, RpcFirstStart, RpcServerPool, RpcDispatchPool,
         RpcDeaths, Rpc!InServer,
         RpcStarting, RpcRunning, RpcStopping

\* Start brings the parts up one by one, or fails on the way.
LEMMA RpcStartIInv == RpcIInv /\ Rpc!Start => RpcIInv'
  <1> USE
     DEF RpcIInv, RpcTypes, RpcFirstStart, RpcServerPool, RpcDispatchPool, RpcDeaths,
         Rpc!InServer,
         RpcStarting, RpcRunning, RpcStopping, Rpc!flags, Rpc!pools, Rpc!Alive
  <1>1. RpcIInv /\ Rpc!StartService => RpcIInv'
    BY ZenonT(60) DEF Rpc!StartService
  <1>2. RpcIInv /\ Rpc!StartDispatch => RpcIInv'
    BY Zenon DEF Rpc!StartDispatch
  <1>3. RpcIInv /\ Rpc!StartClients => RpcIInv'
    <2> SUFFICES ASSUME RpcIInv, Rpc!StartClients PROVE RpcIInv'
      BY Zenon
    <2>1. CASE Rpc!register_rpc_handlers /\ m_bRpcStopped' = [m_bRpcStopped EXCEPT !["client"] = FALSE]
                 /\ messenger' = "register"
      BY Zenon, <2>1 DEF Rpc!StartClients, Rpc!register_rpc_handlers
    <2>2. CASE m_bRegistered["client"] /\ messenger' = "failed" /\ UNCHANGED Rpc!flags
      BY Zenon, <2>2 DEF Rpc!StartClients
    <2> QED
      BY Zenon, <2>1, <2>2 DEF Rpc!StartClients
  <1>4. RpcIInv /\ (\E id \in Ids : Rpc!RegisterRpc(id)) => RpcIInv'
    BY Zenon DEF Rpc!RegisterRpc
  <1>5. RpcIInv /\ Rpc!FinishRegisterRpc => RpcIInv'
    BY Zenon DEF Rpc!FinishRegisterRpc
  <1>6. RpcIInv /\ Rpc!StartServer => RpcIInv'
    BY ZenonT(60) DEF Rpc!StartServer
  <1> QED
    BY Zenon, <1>1, <1>2, <1>3, <1>4, <1>5, <1>6 DEF Rpc!Start

\* Stop takes the parts down from the users to the used, waiting for each.
LEMMA RpcStopIInv == RpcIInv /\ Rpc!Stop => RpcIInv'
  <1> USE
     DEF RpcIInv, RpcTypes, RpcFirstStart, RpcServerPool, RpcDispatchPool, RpcDeaths,
         Rpc!InServer,
         RpcStarting, RpcRunning, RpcStopping, Rpc!flags, Rpc!pools, Rpc!Alive, Rpc!In,
         Rpc!StopOrder
  <1>1. RpcIInv /\ (Rpc!StopFlag("started", "messenger") \/ Rpc!StopFlag("failed", "messenger")) => RpcIInv'
    BY ZenonT(60) DEF Rpc!StopFlag
  <1>2. RpcIInv /\ Rpc!StopFlag("stop clients", "client") => RpcIInv'
    <2> SUFFICES ASSUME RpcIInv, Rpc!StopFlag("stop clients", "client") PROVE RpcIInv'
      BY Zenon
    <2>1. /\ messenger = "stop clients" /\ messenger' = "stop server"
          /\ m_bRpcStopped' = [m_bRpcStopped EXCEPT !["client"] = TRUE]
          /\ UNCHANGED <<m_bRegistered, m_hmHandlers, Rpc!pools, m_sspMgr, req, caller, died>>
      BY Zenon DEF Rpc!StopFlag
    <2>2. /\ m_bRpcStopped' \in [{"messenger", "client", "server", "service"} -> BOOLEAN]
          /\ UNCHANGED <<m_bRpcStopped["server"], m_bRpcStopped["service"]>>
      BY Zenon, <2>1
    <2> QED
      BY Zenon, <2>1, <2>2
  <1>3. RpcIInv /\ Rpc!StopServer => RpcIInv'
    <2> SUFFICES ASSUME RpcIInv, Rpc!StopServer PROVE RpcIInv'
      BY Zenon
    <2>1. /\ messenger = "stop server" /\ messenger' = "join server"
          /\ m_bRpcStopped' = [m_bRpcStopped EXCEPT !["server"] = TRUE]
          /\ UNCHANGED <<m_bRegistered, m_hmHandlers, dispatchTp, m_sspMgr, req, died>>
      BY Zenon DEF Rpc!StopServer
    <2>2. /\ m_bRpcStopped' \in [{"messenger", "client", "server", "service"} -> BOOLEAN]
          /\ m_bRpcStopped'["server"] = TRUE /\ UNCHANGED m_bRpcStopped["service"]
      BY Zenon, <2>1
    <2>3. /\ m_pWorkThreadPool' \in {m_pWorkThreadPool, "joining"}
          /\ m_pWorkThreadPool' = "null" <=> m_pWorkThreadPool = "null"
      BY Zenon DEF Rpc!StopServer
    <2> QED
      BY Zenon, <2>1, <2>2, <2>3
  <1>4. RpcIInv /\ Rpc!JoinServer => RpcIInv'
    BY ZenonT(60) DEF Rpc!JoinServer
  <1>5. RpcIInv /\ Rpc!StopFlag("stop service", "service") => RpcIInv'
    <2> SUFFICES ASSUME RpcIInv, Rpc!StopFlag("stop service", "service") PROVE RpcIInv'
      BY Zenon
    <2>1. /\ messenger = "stop service" /\ messenger' = "join io"
          /\ m_bRpcStopped' = [m_bRpcStopped EXCEPT !["service"] = TRUE]
          /\ UNCHANGED <<m_bRegistered, m_hmHandlers, Rpc!pools, m_sspMgr, req, caller, died>>
      BY Zenon DEF Rpc!StopFlag
    <2>2. /\ m_bRpcStopped' \in [{"messenger", "client", "server", "service"} -> BOOLEAN]
          /\ m_bRpcStopped'["service"] = TRUE /\ UNCHANGED m_bRpcStopped["server"]
      BY Zenon, <2>1
    <2> QED
      BY Zenon, <2>1, <2>2
  <1>6. RpcIInv /\ Rpc!JoinIO => RpcIInv'
    BY Zenon DEF Rpc!JoinIO
  <1>7. RpcIInv /\ Rpc!Reset => RpcIInv'
    BY Zenon DEF Rpc!Reset
  <1>8. RpcIInv /\ Rpc!StopDispatch => RpcIInv'
    BY Zenon DEF Rpc!StopDispatch
  <1>9. RpcIInv /\ Rpc!JoinDispatch => RpcIInv'
    BY ZenonT(60) DEF Rpc!JoinDispatch
  <1> QED
    BY Zenon, <1>1, <1>2, <1>3, <1>4, <1>5, <1>6, <1>7, <1>8, <1>9 DEF Rpc!Stop

\* A request goes through the pools that are up while it is in them.
LEMMA RpcRequestIInv ==
  ASSUME RpcIInv, NEW r \in Requests, Rpc!Recv(r) \/ Rpc!Carry(r)
  PROVE  RpcIInv'
  <1> USE
     DEF RpcIInv, RpcTypes, RpcFirstStart, RpcServerPool, RpcDispatchPool, RpcDeaths,
         Rpc!InServer,
         RpcStarting, RpcRunning, RpcStopping, Rpc!flags, Rpc!pools, Rpc!Alive, Rpc!ReqAt,
         Rpc!quiet
  <1>1. CASE Rpc!Recv(r)
    BY Zenon, <1>1 DEF Rpc!Recv
  <1>2. CASE Rpc!Post(r)
    BY ZenonT(60), <1>2 DEF Rpc!Post
  <1>3. CASE Rpc!dispatch_msg(r)
    BY ZenonT(60), <1>3 DEF Rpc!dispatch_msg
  <1>4. CASE Rpc!HandleMessage(r)
    BY ZenonT(60), <1>4 DEF Rpc!HandleMessage
  <1>5. CASE Rpc!ProcTake(r)
    BY Zenon, <1>5 DEF Rpc!ProcTake
  <1>6. CASE Rpc!Lookup(r)
    BY Zenon, <1>6 DEF Rpc!Lookup
  <1>7. CASE Rpc!Handle(r)
    BY Zenon, <1>7 DEF Rpc!Handle
  <1>8. CASE Rpc!Reply(r)
    BY Zenon, <1>8 DEF Rpc!Reply
  <1>9. CASE Rpc!ReplyManager(r)
    BY Zenon, <1>9 DEF Rpc!ReplyManager
  <1> QED
    BY Zenon, <1>1, <1>2, <1>3, <1>4, <1>5, <1>6, <1>7, <1>8, <1>9 DEF Rpc!Carry, Rpc!proc_msg

\* A caller meets the manager as long as the service has it.
LEMMA RpcCallerIInv ==
  ASSUME RpcIInv, NEW c \in Callers, Rpc!SendMessageAsync(c) \/ Rpc!CallManager(c)
  PROVE  RpcIInv'
  BY ZenonT(60) DEF Rpc!SendMessageAsync, Rpc!CallManager, RpcIInv, RpcTypes, RpcFirstStart,
         RpcServerPool, RpcDispatchPool, RpcDeaths,
         Rpc!InServer, Rpc!flags, Rpc!pools, Rpc!Alive

\* Every step of the owner, of a request and of a caller keeps the order.
LEMMA RpcNextIInv == RpcIInv /\ [Rpc!Next]_(Rpc!vars) => RpcIInv'
  <1>1. RpcIInv /\ UNCHANGED Rpc!vars => RpcIInv'
    BY ZenonT(60) DEF Rpc!vars, RpcIInv, RpcTypes, RpcFirstStart, RpcServerPool, RpcDispatchPool,
           RpcDeaths, Rpc!InServer, Rpc!flags, Rpc!pools
  <1> QED
    BY Zenon, <1>1, RpcStartIInv, RpcStopIInv, RpcRequestIInv, RpcCallerIInv DEF Rpc!Next

\* No thread of the server outlives its pool, the service's manager or the
\* handlers it looks up, and no IO thread posts to a dispatch pool that is gone
\* (StopInOrder): Stop takes the parts down from the users to the used.
THEOREM StopsInOrder == Rpc!Spec => []StopInOrder
  <1>1. RpcIInv => StopInOrder
    BY Zenon DEF StopInOrder, RpcIInv, RpcTypes, RpcFirstStart, RpcServerPool, RpcDispatchPool, RpcDeaths,
           Rpc!StopInOrder
  <1> QED
    BY <1>1, RpcInitIInv, RpcNextIInv, PTL DEF Rpc!Spec
=============================================================================
