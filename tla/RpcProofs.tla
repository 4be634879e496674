------------------------------ MODULE RpcProofs -----------------------------
(***************************************************************************)
(* Proofs about the rpc layer. Of the synchronous client, for any calls,   *)
(* peers and network threads: the races between a response, a broken       *)
(* connection and a timeout complete every call at most once. Of the       *)
(* messenger: the ids of calls. Of a message that is sent: who frees it.   *)
(***************************************************************************)
EXTENDS RpcSyncClient, RpcMessages, Integers, Sequences, FiniteSets, TLAPS

Holds(h) == net[h].at \in {"unsub", "breaking", "broken"}
Takes(h) == net[h].at \in {"complete", "broken"}
NotYet(c) == pc[c] \in {"idle", "sent", "busy"}

\* m_slRpcCtxs has at most one holder.
OneHolder == \A g, h \in NetThreads : Holds(g) /\ Holds(h) => g = h

\* A call in the map is not complete and nobody has taken it; one that was taken
\* is not complete; both only after it was registered.
CallInv(c) ==
    /\ c \in ctxs => ~complete[c] /\ ~Taken(c)
    /\ Taken(c) => ~complete[c]
    /\ c \in ctxs \/ Taken(c) \/ complete[c] => ~NotYet(c)
    /\ pc[c] \in {"ok", "timeout", "broken"} => complete[c]

\* At most one thread has taken a call.
OneTaker ==
    /\ \A g, h \in NetThreads : Takes(g) /\ Takes(h) /\ net[g].cur = net[h].cur => g = h
    /\ \A h \in NetThreads : Takes(h) => ~(timer = "mark" /\ firstId = net[h].cur)

\* What a network thread knows of the maps while it holds the lock: only calls to
\* the peer it handles are missing from m_hmapRpcCtxs.
HolderInv(h) ==
    /\ net[h].at = "unsub" => net[h].cur \in ctxs /\ ctxs = peerRpcs
    /\ net[h].at = "breaking" =>
        \E p \in Peers : /\ net[h].rest = {c \in ctxs : peerOf[c] = p}
                         /\ \A c \in peerRpcs \ ctxs : peerOf[c] = p
    /\ net[h].at = "broken" =>
        /\ net[h].cur \in Calls
        /\ net[h].rest = {c \in ctxs : peerOf[c] = peerOf[net[h].cur]}
        /\ \A c \in peerRpcs \ ctxs : peerOf[c] = peerOf[net[h].cur]
    /\ net[h].at = "complete" => net[h].cur \in Calls

\* s_cb has captured an id before an event is subscribed.
Captured == events # {} \/ (\E c \in Calls : pc[c] = "locked") => firstId \in Calls

IInv ==
    /\ TypeOK /\ Captured /\ OneHolder /\ OneTaker /\ MapsAgree
    /\ ctxs \subseteq peerRpcs
    /\ \A c \in Calls : CallInv(c)
    /\ \A h \in NetThreads : HolderInv(h)

----------------------------------------------------------------------------
\* Every step is one of the threads' steps.
LEMMA Steps ==
    ASSUME Next
    PROVE  \/ \E c \in Calls : sendMessage(c) \/ Answer(c)
           \/ \E h \in NetThreads, c \in Calls : RecvMessage(h, c)
           \/ \E h \in NetThreads : RecvUnsub(h) \/ RecvComplete(h)
           \/ \E h \in NetThreads, p \in Peers : RecvBroken(h, p)
           \/ \E h \in NetThreads : BreakUnsub(h) \/ BreakComplete(h)
           \/ timerThread
  BY Zenon DEF Next, onRecvMessage

\* A caller's step keeps the types.
LEMMA CallerType ==
    ASSUME TypeOK, NEW c \in Calls, sendMessage(c) \/ Answer(c)
    PROVE  TypeOK'
  <1>1. CASE Send(c)
    BY <1>1 DEF TypeOK, Send, Outcomes, maps, timing
  <1>2. CASE Register(c)
    BY Zenon, <1>2 DEF TypeOK, Register, Outcomes, timing
  <1>3. CASE Lock(c)
    BY Zenon, <1>3 DEF TypeOK, Lock, Outcomes, maps
  <1>4. CASE Subscribe(c)
    BY <1>4 DEF TypeOK, Subscribe, Outcomes, maps, TimerFree
  <1>5. CASE Await(c)
    <2>1. pc' \in [Calls -> Outcomes \union {"idle", "sent", "registered", "locked",
                                            "subscribed", "waiting"}]
      BY Zenon, <1>5 DEF TypeOK, Await, Outcomes
    <2>2. QED BY Zenon, <1>5, <2>1 DEF TypeOK, Await, maps
  <1>6. CASE Wake(c)
    <2>1. pc' \in [Calls -> Outcomes \union {"idle", "sent", "registered", "locked",
                                            "subscribed", "waiting"}]
      BY Zenon, <1>6 DEF TypeOK, Wake, Outcomes
    <2>2. QED BY Zenon, <1>6, <2>1 DEF TypeOK, Wake, maps, timing
  <1>7. CASE Answer(c)
    BY Zenon, <1>7 DEF TypeOK, Answer, calls, maps, timing
  <1>8. QED BY Zenon, <1>1, <1>2, <1>3, <1>4, <1>5, <1>6, <1>7 DEF sendMessage

\* Completing a call keeps the types of its flags.
LEMMA CompleteType ==
    ASSUME TypeOK, NEW c \in Calls, NEW how \in {"ok", "timeout", "broken"}, Complete(c, how)
    PROVE  /\ complete' \in [Calls -> BOOLEAN]
           /\ state' \in [Calls -> {"ok", "timeout", "broken"}]
  <1>1. complete' \in [Calls -> BOOLEAN]
    BY Zenon DEF TypeOK, Complete
  <1>2. state' \in [Calls -> {"ok", "timeout", "broken"}]
    BY Zenon DEF TypeOK, Complete
  <1>3. QED BY Zenon, <1>1, <1>2

\* What a network thread does next is well typed.
LEMMA NetType ==
    ASSUME TypeOK, NEW h \in NetThreads,
           NEW where \in {"idle", "unsub", "complete", "breaking", "broken"},
           NEW c \in Calls \union {NoCall}, NEW todo \in SUBSET Calls
    PROVE  [net EXCEPT ![h] = At(where, c, todo)]
             \in [NetThreads -> [at : {"idle", "unsub", "complete", "breaking", "broken"},
                                 cur : Calls \union {NoCall}, rest : SUBSET Calls]]
  BY Zenon DEF TypeOK, At

\* A network thread's step keeps the types.
LEMMA HandlerType ==
    ASSUME IInv, NEW h \in NetThreads,
           \/ \E c \in Calls : RecvMessage(h, c)
           \/ RecvUnsub(h) \/ RecvComplete(h)
           \/ \E p \in Peers : RecvBroken(h, p)
           \/ BreakUnsub(h) \/ BreakComplete(h)
    PROVE  TypeOK'
  <1>0. /\ TypeOK /\ HolderInv(h) /\ net[h].cur \in Calls \union {NoCall}
        /\ net[h].rest \subseteq Calls
    BY Zenon DEF IInv, TypeOK
  <1>1. ASSUME NEW c \in Calls, RecvMessage(h, c) PROVE TypeOK'
    <2>1. wire' \in [Calls -> {"none", "request", "response", "received"}]
      BY Zenon, <1>0, <1>1 DEF RecvMessage, TypeOK
    <2>2. net' = [net EXCEPT ![h] = At("unsub", c, {})] \/ net' = [net EXCEPT ![h] = Idle]
      BY Zenon, <1>1 DEF RecvMessage
    <2>3. QED BY Zenon, <1>0, <1>1, <2>1, <2>2, NetType
              DEF RecvMessage, TypeOK, Idle, calls, maps, timing
  <1>2. CASE RecvUnsub(h)
    BY Zenon, <1>0, <1>2, NetType DEF RecvUnsub, UnsubscribeEvent, TypeOK, calls
  <1>3. CASE RecvComplete(h)
    <2>1. net[h].cur \in Calls /\ state[net[h].cur] \in {"ok", "timeout", "broken"}
      BY Zenon, <1>0, <1>3 DEF RecvComplete, HolderInv, TypeOK
    <2>2. /\ complete' \in [Calls -> BOOLEAN]
          /\ state' \in [Calls -> {"ok", "timeout", "broken"}]
      BY Zenon, <1>0, <1>3, <2>1, CompleteType DEF RecvComplete
    <2>3. QED BY Zenon, <1>0, <1>3, <2>2, NetType DEF RecvComplete, TypeOK, Idle, maps, timing
  <1>4. ASSUME NEW p \in Peers, RecvBroken(h, p) PROVE TypeOK'
    <2>1. {c \in peerRpcs : peerOf[c] = p} \subseteq Calls
      BY Zenon, <1>0 DEF TypeOK
    <2>2. brokenCnt' \in Nat
      BY <1>0, <1>4 DEF RecvBroken, TypeOK
    <2>3. QED BY Zenon, <1>0, <1>4, <2>1, <2>2, NetType
              DEF RecvBroken, TypeOK, Idle, calls, maps, timing
  <1>5. CASE BreakUnsub(h)
    <2>1. PICK c \in net[h].rest : net' = [net EXCEPT ![h] = At("broken", c, net[h].rest \ {c})]
                                   /\ ctxs' = ctxs \ {c} /\ UnsubscribeEvent(c)
      BY Zenon, <1>5 DEF BreakUnsub
    <2>2. QED BY Zenon, <1>0, <1>5, <2>1, NetType
              DEF BreakUnsub, UnsubscribeEvent, TypeOK, calls
  <1>6. CASE BreakComplete(h)
    <2>1. net[h].cur \in Calls
      BY Zenon, <1>0, <1>6 DEF BreakComplete, HolderInv
    <2>2. /\ complete' \in [Calls -> BOOLEAN]
          /\ state' \in [Calls -> {"ok", "timeout", "broken"}]
      BY Zenon, <1>0, <1>6, <2>1, CompleteType DEF BreakComplete
    <2>3. peerRpcs' \subseteq Calls
      BY Zenon, <1>0, <1>6 DEF BreakComplete, TypeOK
    <2>4. QED BY Zenon, <1>0, <1>6, <2>2, <2>3, NetType DEF BreakComplete, TypeOK, Idle, timing
  <1>7. QED BY Zenon, <1>1, <1>2, <1>3, <1>4, <1>5, <1>6

\* The timer thread's step keeps the types.  An event exists only after s_cb has
\* captured an id.
LEMMA TimerType ==
    ASSUME IInv, timerThread
    PROVE  TypeOK'
  <1>0. TypeOK
    BY Zenon DEF IInv
  <1>1. CASE TimerFire
    BY Zenon, <1>0, <1>1 DEF TimerFire, TypeOK, Captured, IInv, calls, maps
  <1>2. CASE TimerFind
    BY Zenon, <1>0, <1>2 DEF TimerFind, EraseEvent, TypeOK, calls, maps
  <1>3. CASE TimerMark
    <2>1. /\ complete' \in [Calls -> BOOLEAN]
          /\ state' \in [Calls -> {"ok", "timeout", "broken"}]
      BY Zenon, <1>0, <1>3, CompleteType DEF TimerMark, TypeOK
    <2>2. QED BY Zenon, <1>0, <1>3, <2>1 DEF TimerMark, EraseEvent, TypeOK, maps
  <1>4. CASE TimerUnlock
    BY Zenon, <1>0, <1>4 DEF TimerUnlock, TypeOK, calls, maps
  <1>5. QED BY Zenon, <1>1, <1>2, <1>3, <1>4 DEF timerThread

----------------------------------------------------------------------------
\* A step that touches neither the maps nor the completion of calls.
LEMMA Quiet ==
    ASSUME IInv, TypeOK', Captured', UNCHANGED <<maps, net, complete>>,
           timer' = "mark" => timer = "mark" /\ firstId' = firstId,
           \A c \in Calls : /\ NotYet(c)' => NotYet(c)
                            /\ pc'[c] \in {"ok", "timeout", "broken"} => complete[c]
    PROVE  IInv'
  <1>1. \A c : Taken(c)' => Taken(c)
    BY Zenon DEF Taken
  <1>2. \A c \in Calls : CallInv(c)'
    BY Zenon, <1>1 DEF IInv, CallInv, maps
  <1>3. OneHolder' /\ OneTaker' /\ MapsAgree' /\ ctxs' \subseteq peerRpcs'
    BY Zenon DEF IInv, OneHolder, OneTaker, MapsAgree, CtxsFree, Holds, Takes, maps
  <1>4. \A h \in NetThreads : HolderInv(h)'
    BY Zenon DEF IInv, HolderInv, maps
  <1>5. QED BY Zenon, <1>2, <1>3, <1>4 DEF IInv

\* The callers' steps keep the invariant.
LEMMA CallerKeeps ==
    ASSUME IInv, NEW c \in Calls, sendMessage(c) \/ Answer(c)
    PROVE  IInv'
  <1>0. TypeOK /\ TypeOK' /\ Captured /\ CallInv(c)
    BY Zenon, CallerType DEF IInv
  <1>1. CASE Send(c)
    <2>1. \A b \in Calls : /\ NotYet(b)' => NotYet(b)
                           /\ pc'[b] \in {"ok", "timeout", "broken"} => complete[b]
      BY <1>0, <1>1 DEF Send, NotYet, TypeOK, IInv, CallInv
    <2>2. Captured'
      BY <1>0, <1>1 DEF Send, Captured, TypeOK, timing
    <2>3. QED BY Zenon, <1>0, <1>1, <2>1, <2>2, Quiet DEF Send, timing
  <1>2. CASE Register(c)
    <2>1. /\ ctxs' = ctxs \union {c} /\ peerRpcs' = peerRpcs \union {c} /\ CtxsFree
          /\ pc' = [pc EXCEPT ![c] = "registered"] /\ pc[c] = "sent"
          /\ UNCHANGED <<complete, timing, net>>
      BY Zenon, <1>2 DEF Register
    <2>2. \A b : Taken(b)' <=> Taken(b)
      BY Zenon, <2>1 DEF Taken, timing
    <2>3. ~complete[c] /\ ~Taken(c)
      BY Zenon, <1>0, <2>1 DEF CallInv, NotYet
    <2>4. \A b \in Calls : CallInv(b)'
      BY <1>0, <2>1, <2>2, <2>3 DEF CallInv, NotYet, TypeOK, IInv
    <2>5. \A h \in NetThreads : HolderInv(h)'
      BY Zenon, <2>1 DEF CtxsFree, HolderInv, IInv
    <2>6. OneHolder' /\ OneTaker' /\ MapsAgree' /\ ctxs' \subseteq peerRpcs'
      BY Zenon, <2>1 DEF IInv, OneHolder, OneTaker, MapsAgree, CtxsFree, Holds, Takes, timing
    <2>7. Captured'
      BY <1>0, <2>1 DEF Captured, TypeOK, timing
    <2>8. QED BY Zenon, <1>0, <2>4, <2>5, <2>6, <2>7 DEF IInv
  <1>3. CASE Lock(c)
    <2>1. \A b \in Calls : /\ NotYet(b)' => NotYet(b)
                           /\ pc'[b] \in {"ok", "timeout", "broken"} => complete[b]
      BY <1>0, <1>3 DEF Lock, NotYet, TypeOK, IInv, CallInv
    <2>2. Captured' /\ (timer' = "mark" => timer = "mark" /\ firstId' = firstId)
      BY <1>0, <1>3, RpcAssumption DEF Lock, Captured, TypeOK
    <2>3. QED BY Zenon, <1>0, <1>3, <2>1, <2>2, Quiet DEF Lock
  <1>4. CASE Subscribe(c)
    <2>1. \A b \in Calls : /\ NotYet(b)' => NotYet(b)
                           /\ pc'[b] \in {"ok", "timeout", "broken"} => complete[b]
      BY <1>0, <1>4 DEF Subscribe, NotYet, TypeOK, IInv, CallInv
    <2>2. Captured' /\ (timer' = "mark" => timer = "mark" /\ firstId' = firstId)
      BY Zenon, <1>0, <1>4 DEF Subscribe, Captured, TypeOK
    <2>3. QED BY Zenon, <1>0, <1>4, <2>1, <2>2, Quiet DEF Subscribe
  <1>5. CASE Await(c)
    <2>1. \A b \in Calls : /\ NotYet(b)' => NotYet(b)
                           /\ pc'[b] \in {"ok", "timeout", "broken"} => complete[b]
      BY <1>0, <1>5 DEF Await, NotYet, TypeOK, IInv, CallInv
    <2>2. Captured'
      BY Zenon, <1>0, <1>5 DEF Await, Captured, TypeOK
    <2>3. QED BY Zenon, <1>0, <1>5, <2>1, <2>2, Quiet DEF Await
  <1>6. CASE Wake(c)
    <2>1. \A b \in Calls : /\ NotYet(b)' => NotYet(b)
                           /\ pc'[b] \in {"ok", "timeout", "broken"} => complete[b]
      BY <1>0, <1>6 DEF Wake, NotYet, TypeOK, IInv, CallInv
    <2>2. Captured'
      BY <1>0, <1>6 DEF Wake, Captured, TypeOK, timing
    <2>3. QED BY Zenon, <1>0, <1>6, <2>1, <2>2, Quiet DEF Wake, timing
  <1>7. CASE Answer(c)
    <2>1. \A b \in Calls : /\ NotYet(b)' => NotYet(b)
                           /\ pc'[b] \in {"ok", "timeout", "broken"} => complete[b]
      BY Zenon, <1>7 DEF Answer, NotYet, IInv, CallInv, calls
    <2>2. Captured'
      BY Zenon, <1>0, <1>7 DEF Answer, Captured, calls, timing
    <2>3. QED BY Zenon, <1>0, <1>7, <2>1, <2>2, Quiet DEF Answer, calls, timing
  <1>8. QED BY Zenon, <1>1, <1>2, <1>3, <1>4, <1>5, <1>6, <1>7 DEF sendMessage

----------------------------------------------------------------------------
\* The threads other than h do what they did.
Others(h) == \A g \in NetThreads \ {h} : net'[g] = net[g]

\* A network thread's steps keep Captured.
LEMMA HandlerCaptured ==
    ASSUME Captured, events' \subseteq events, UNCHANGED <<pc, firstId>>
    PROVE  Captured'
  BY Zenon DEF Captured

\* Receiving a message: the thread takes the lock, or drops the message.
LEMMA RecvKeeps ==
    ASSUME IInv, NEW h \in NetThreads, TypeOK', Others(h), CtxsFree,
           UNCHANGED <<pc, complete, maps, timing>>, net[h].at = "idle",
           \/ net'[h] = Idle
           \/ \E c \in ctxs : net'[h] = At("unsub", c, {})
           \/ \E p \in Peers : net'[h] = At("breaking", NoCall, {c \in peerRpcs : peerOf[c] = p})
    PROVE  IInv'
  <1>1. ctxs = peerRpcs
    BY Zenon DEF IInv, MapsAgree
  <1>2. \A g \in NetThreads : g # h => ~Holds(g) /\ ~Holds(g)'
    BY Zenon DEF CtxsFree, Holds, Others
  <1>3. ~Takes(h)' /\ ~Takes(h) /\ HolderInv(h)'
    <2>1. CASE net'[h] = Idle
      BY <2>1 DEF Takes, HolderInv, Idle, At
    <2>2. ASSUME NEW c \in ctxs, net'[h] = At("unsub", c, {})
          PROVE  ~Takes(h)' /\ ~Takes(h) /\ HolderInv(h)'
      BY <1>1, <2>2 DEF Takes, HolderInv, At, maps
    <2>3. ASSUME NEW p \in Peers,
                 net'[h] = At("breaking", NoCall, {c \in peerRpcs : peerOf[c] = p})
          PROVE  ~Takes(h)' /\ ~Takes(h) /\ HolderInv(h)'
      <3>1. net'[h].at = "breaking" /\ net'[h].rest = {c \in ctxs' : peerOf[c] = p}
        BY <1>1, <2>3 DEF At, maps
      <3>2. ctxs' = peerRpcs'
        BY Zenon, <1>1 DEF maps
      <3>3. QED BY Zenon, <3>1, <3>2 DEF Takes, HolderInv
    <2>4. QED BY Zenon, <2>1, <2>2, <2>3
  <1>4. \A c : Taken(c)' <=> Taken(c)
    BY Zenon, <1>3 DEF Taken, Takes, Others, timing
  <1>5. \A c \in Calls : CallInv(c)'
    BY Zenon, <1>4 DEF IInv, CallInv, NotYet, maps
  <1>6. OneHolder' /\ OneTaker'
    <2>1. OneHolder'
      BY Zenon, <1>2 DEF OneHolder
    <2>2. \A g \in NetThreads : Takes(g)' => Takes(g) /\ net'[g].cur = net[g].cur
      BY Zenon, <1>3 DEF Takes, Others
    <2>3. QED BY Zenon, <2>1, <2>2 DEF IInv, OneTaker, timing
  <1>7. \A g \in NetThreads : HolderInv(g)'
    <2>1. ASSUME NEW g \in NetThreads, g # h PROVE HolderInv(g)'
      BY Zenon, <1>2, <2>1 DEF IInv, HolderInv, Holds, Others, maps
    <2>2. QED BY Zenon, <1>3, <2>1
  <1>8. Captured'
    BY Zenon, HandlerCaptured DEF IInv, timing
  <1>9. QED BY Zenon, <1>1, <1>5, <1>6, <1>7, <1>8 DEF IInv, MapsAgree, maps

\* The lock holder's step that takes a call out of the map.
LEMMA TakeKeeps ==
    ASSUME IInv, NEW h \in NetThreads, NEW c \in ctxs, TypeOK', Others(h), Holds(h),
           ctxs' = ctxs \ {c}, events' \subseteq events,
           UNCHANGED <<pc, complete, firstId, timer>>,
           \/ net'[h] = At("complete", c, {}) /\ ctxs = peerRpcs /\ peerRpcs' = peerRpcs \ {c}
           \/ /\ net'[h] = At("broken", c, {b \in ctxs : peerOf[b] = peerOf[c]} \ {c})
              /\ peerRpcs' = peerRpcs
              /\ \A b \in peerRpcs \ ctxs : peerOf[b] = peerOf[c]
    PROVE  IInv'
  <1>0. c \in Calls /\ ~complete[c] /\ ~Taken(c) /\ ~NotYet(c)
    BY Zenon DEF IInv, TypeOK, CallInv
  <1>1. net'[h].cur = c /\ Takes(h)'
    BY DEF At, Takes
  <1>2. \A g \in NetThreads : g # h => ~Holds(g) /\ ~Holds(g)'
    <2>1. \A g \in NetThreads : g # h => ~Holds(g)
      BY Zenon DEF IInv, OneHolder
    <2>2. QED BY Zenon, <2>1 DEF Holds, Others
  <1>3. \A b : Taken(b)' => Taken(b) \/ b = c
    BY Zenon, <1>1 DEF Taken, Others
  <1>4. \A b \in Calls : CallInv(b)'
    BY Zenon, <1>0, <1>3 DEF IInv, CallInv, NotYet
  <1>5. OneHolder'
    BY Zenon, <1>2 DEF OneHolder
  <1>6. OneTaker'
    <2>1. \A g \in NetThreads : Takes(g) => net[g].cur # c
      BY Zenon, <1>0 DEF Taken, Takes
    <2>2. \A g \in NetThreads : g # h => (Takes(g)' <=> Takes(g)) /\ net'[g].cur = net[g].cur
      BY Zenon DEF Takes, Others
    <2>3. ~(timer = "mark" /\ firstId = c)
      BY Zenon, <1>0 DEF Taken
    <2>4. QED BY <1>1, <2>1, <2>2, <2>3 DEF IInv, OneTaker
  <1>7. \A g \in NetThreads : HolderInv(g)'
    <2>1. HolderInv(h)'
      BY <1>0 DEF HolderInv, At
    <2>2. ASSUME NEW g \in NetThreads, g # h PROVE HolderInv(g)'
      BY Zenon, <1>2, <2>2 DEF IInv, HolderInv, Holds, Others
    <2>3. QED BY Zenon, <2>1, <2>2
  <1>8. MapsAgree' /\ ctxs' \subseteq peerRpcs'
    <2>1. CASE net'[h] = At("broken", c, {b \in ctxs : peerOf[b] = peerOf[c]} \ {c})
               /\ peerRpcs' = peerRpcs
      <3>1. ~CtxsFree'
        BY <2>1 DEF CtxsFree, At
      <3>2. QED BY Zenon, <2>1, <3>1 DEF IInv, MapsAgree
    <2>2. CASE ctxs = peerRpcs /\ peerRpcs' = peerRpcs \ {c}
      BY Zenon, <2>2 DEF MapsAgree
    <2>3. QED BY Zenon, <2>1, <2>2
  <1>9. Captured'
    BY Zenon, HandlerCaptured DEF IInv
  <1>10. QED BY Zenon, <1>4, <1>5, <1>6, <1>7, <1>8, <1>9 DEF IInv

\* A thread completes the call it has taken, and leaves its place in the code:
\* after a response, after the last call to a peer, or after one of several.
Completes(h) ==
    /\ Others(h) /\ Takes(h) /\ net[h].cur \in Calls
    /\ complete' = [complete EXCEPT ![net[h].cur] = TRUE]
    /\ UNCHANGED <<pc, ctxs, timing>>
EndsResponse(h) == net[h].at = "complete" /\ net'[h] = Idle /\ peerRpcs' = peerRpcs
EndsPeer(h) ==
    /\ net[h].at = "broken" /\ net[h].rest = {} /\ net'[h] = Idle
    /\ peerRpcs' = {b \in peerRpcs : peerOf[b] # peerOf[net[h].cur]}
EndsOne(h) ==
    /\ net[h].at = "broken" /\ net'[h] = At("breaking", NoCall, net[h].rest)
    /\ peerRpcs' = peerRpcs

\* The step that completes the call a thread has taken.
LEMMA CompleteKeeps ==
    ASSUME IInv, NEW h \in NetThreads, TypeOK', Completes(h),
           EndsResponse(h) \/ EndsPeer(h) \/ EndsOne(h)
    PROVE  IInv'
  <1> DEFINE c == net[h].cur
  <1>a. Others(h) /\ Takes(h) /\ c \in Calls
    BY Zenon DEF Completes
  <1>b. /\ complete' = [complete EXCEPT ![c] = TRUE]
        /\ pc' = pc /\ ctxs' = ctxs /\ timer' = timer /\ firstId' = firstId
    BY Zenon DEF Completes, timing
  <1>1. ~Takes(h)' /\ (Holds(h)' => Holds(h))
    BY <1>a DEF Takes, Holds, Idle, At, EndsResponse, EndsPeer, EndsOne
  <1>2. \A g \in NetThreads : /\ Takes(g)' => Takes(g) /\ g # h /\ net'[g].cur = net[g].cur
                              /\ Holds(g)' => Holds(g)
    BY Zenon, <1>a, <1>1 DEF Takes, Holds, Others
  <1>3. Taken(c) /\ c \notin ctxs /\ ~NotYet(c)
    BY Zenon, <1>a DEF IInv, CallInv, Taken, Takes
  <1>4. \A b \in Calls : Taken(b)' => Taken(b) /\ b # c
    BY Zenon, <1>a, <1>b, <1>2 DEF Taken, Takes, OneTaker, IInv
  <1>5. \A b \in Calls : CallInv(b)'
    <2>1. \A b \in Calls : complete'[b] = IF b = c THEN TRUE ELSE complete[b]
      BY SMTT(60), <1>b DEF IInv, TypeOK
    <2>2. QED BY Zenon, <1>b, <1>3, <1>4, <2>1 DEF IInv, CallInv, NotYet
  <1>6. OneHolder' /\ OneTaker'
    BY Zenon, <1>b, <1>2 DEF IInv, OneHolder, OneTaker
  <1>c. Captured'
    BY Zenon, <1>b, HandlerCaptured DEF IInv, Completes, timing
  <1>7. CASE EndsResponse(h)
    <2>1. \A g \in NetThreads : Holds(g)' <=> Holds(g)
      BY Zenon, <1>a, <1>2, <1>7 DEF Holds, Others, Idle, At, EndsResponse
    <2>2. MapsAgree' /\ ctxs' \subseteq peerRpcs'
      <3>1. CtxsFree' <=> CtxsFree
        BY Zenon, <2>1 DEF CtxsFree, Holds
      <3>2. QED BY Zenon, <1>b, <1>7, <3>1 DEF IInv, MapsAgree, EndsResponse
    <2>3. HolderInv(h)'
      BY <1>7 DEF HolderInv, Idle, At, EndsResponse
    <2>4. ASSUME NEW g \in NetThreads, g # h PROVE HolderInv(g)'
      BY SMTT(60), <1>a, <1>b, <1>7, <2>4 DEF IInv, HolderInv, Others, EndsResponse
    <2>5. \A g \in NetThreads : HolderInv(g)'
      BY Zenon, <2>3, <2>4
    <2>6. QED BY Zenon, <1>5, <1>6, <1>c, <2>2, <2>5 DEF IInv
  <1>8. CASE EndsPeer(h) \/ EndsOne(h)
    <2>0. net[h].at = "broken"
      BY Zenon, <1>8 DEF EndsPeer, EndsOne
    <2>1. /\ net[h].rest = {b \in ctxs : peerOf[b] = peerOf[c]}
          /\ \A b \in peerRpcs \ ctxs : peerOf[b] = peerOf[c]
          /\ ctxs \subseteq peerRpcs
      BY Zenon, <2>0 DEF IInv, HolderInv
    <2>2. \A g \in NetThreads : g # h => ~Holds(g) /\ ~Holds(g)'
      BY Zenon, <1>2, <2>0 DEF IInv, OneHolder, Holds
    <2>3. ASSUME NEW g \in NetThreads, g # h PROVE HolderInv(g)'
      BY Zenon, <1>a, <2>2, <2>3 DEF IInv, HolderInv, Holds, Others
    <2>4. CASE EndsPeer(h)
      <3>1. ctxs' = peerRpcs'
        BY Zenon, <1>b, <2>1, <2>4 DEF EndsPeer
      <3>2. HolderInv(h)'
        BY <2>4 DEF HolderInv, Idle, At, EndsPeer
      <3>3. \A g \in NetThreads : HolderInv(g)'
        BY Zenon, <2>3, <3>2
      <3>4. MapsAgree' /\ ctxs' \subseteq peerRpcs'
        BY Zenon, <3>1 DEF MapsAgree
      <3>5. QED BY Zenon, <1>5, <1>6, <1>c, <3>3, <3>4 DEF IInv
    <2>5. CASE EndsOne(h)
      <3>1. /\ net'[h].at = "breaking" /\ net'[h].rest = net[h].rest
            /\ ctxs' = ctxs /\ peerRpcs' = peerRpcs
        BY <1>b, <2>5 DEF At, EndsOne
      <3>2. ~CtxsFree'
        BY Zenon, <3>1 DEF CtxsFree
      <3>3. peerOf[c] \in Peers
        BY Zenon, <1>a, RpcAssumption
      <3>4. HolderInv(h)'
        BY Zenon, <2>1, <3>1, <3>3 DEF HolderInv
      <3>5. \A g \in NetThreads : HolderInv(g)'
        BY Zenon, <2>3, <3>4
      <3>6. MapsAgree' /\ ctxs' \subseteq peerRpcs'
        BY Zenon, <2>1, <3>1, <3>2 DEF MapsAgree
      <3>7. QED BY Zenon, <1>5, <1>6, <1>c, <3>5, <3>6 DEF IInv
    <2>6. QED BY Zenon, <1>8, <2>4, <2>5
  <1>9. QED BY Zenon, <1>7, <1>8

\* The network threads' steps keep the invariant.
LEMMA HandlerKeeps ==
    ASSUME IInv, NEW h \in NetThreads,
           \/ \E c \in Calls : RecvMessage(h, c)
           \/ RecvUnsub(h) \/ RecvComplete(h)
           \/ \E p \in Peers : RecvBroken(h, p)
           \/ BreakUnsub(h) \/ BreakComplete(h)
    PROVE  IInv'
  <1>0. TypeOK' /\ TypeOK /\ HolderInv(h)
    BY Zenon, HandlerType DEF IInv
  <1>x. ASSUME NEW r, net' = [net EXCEPT ![h] = r]
        PROVE  net'[h] = r /\ Others(h)
    BY Zenon, <1>0, <1>x DEF TypeOK, Others
  <1>1. ASSUME NEW c \in Calls, RecvMessage(h, c) PROVE IInv'
    <2>1. /\ Others(h)
          /\ net'[h] = Idle \/ (c \in ctxs /\ net'[h] = At("unsub", c, {}))
      BY Zenon, <1>1, <1>x DEF RecvMessage
    <2>2. QED BY Zenon, <1>0, <1>1, <2>1, RecvKeeps DEF RecvMessage, calls, timing
  <1>2. CASE RecvUnsub(h)
    <2>1. Others(h) /\ net'[h] = At("complete", net[h].cur, {})
      BY Zenon, <1>2, <1>x DEF RecvUnsub
    <2>2. net[h].cur \in ctxs /\ ctxs = peerRpcs /\ Holds(h)
      BY Zenon, <1>0, <1>2 DEF RecvUnsub, HolderInv, Holds
    <2>3. events' \subseteq events
      BY Zenon, <1>2 DEF RecvUnsub, UnsubscribeEvent
    <2>4. QED BY Zenon, <1>0, <1>2, <2>1, <2>2, <2>3, TakeKeeps
              DEF RecvUnsub, UnsubscribeEvent, calls
  <1>3. CASE RecvComplete(h)
    <2>1. Others(h) /\ net'[h] = Idle
      BY Zenon, <1>3, <1>x DEF RecvComplete
    <2>2. net[h].cur \in Calls /\ Takes(h)
      BY Zenon, <1>0, <1>3 DEF RecvComplete, HolderInv, Takes
    <2>3. Completes(h) /\ EndsResponse(h)
      BY Zenon, <1>3, <2>1, <2>2 DEF RecvComplete, Complete, maps, Completes, EndsResponse
    <2>4. QED BY Zenon, <1>0, <2>3, CompleteKeeps
  <1>4. ASSUME NEW p \in Peers, RecvBroken(h, p) PROVE IInv'
    <2>1. /\ Others(h)
          /\ \/ net'[h] = Idle
             \/ net'[h] = At("breaking", NoCall, {c \in peerRpcs : peerOf[c] = p})
      BY Zenon, <1>4, <1>x DEF RecvBroken
    <2>2. QED BY Zenon, <1>0, <1>4, <2>1, RecvKeeps DEF RecvBroken, calls, timing
  <1>5. CASE BreakUnsub(h)
    <2>1. PICK c \in net[h].rest :
              /\ net' = [net EXCEPT ![h] = At("broken", c, net[h].rest \ {c})]
              /\ net[h].at = "breaking"
              /\ ctxs' = ctxs \ {c} /\ UnsubscribeEvent(c)
              /\ UNCHANGED <<calls, wire, peerRpcs, brokenCnt>>
      BY Zenon, <1>5 DEF BreakUnsub
    <2>2. Others(h) /\ net'[h] = At("broken", c, net[h].rest \ {c}) /\ Holds(h)
      BY Zenon, <2>1, <1>x DEF Holds
    <2>3. /\ c \in ctxs /\ net[h].rest = {b \in ctxs : peerOf[b] = peerOf[c]}
          /\ \A b \in peerRpcs \ ctxs : peerOf[b] = peerOf[c]
      BY Zenon, <1>0, <2>1 DEF HolderInv
    <2>4. events' \subseteq events /\ UNCHANGED <<firstId, timer>>
      BY Zenon, <2>1 DEF UnsubscribeEvent
    <2>5. QED BY Zenon, <1>0, <2>1, <2>2, <2>3, <2>4, TakeKeeps DEF calls
  <1>6. CASE BreakComplete(h)
    <2>1. /\ Others(h)
          /\ net'[h] = IF net[h].rest = {} THEN Idle ELSE At("breaking", NoCall, net[h].rest)
      BY Zenon, <1>6, <1>x DEF BreakComplete
    <2>2. net[h].cur \in Calls /\ Takes(h)
      BY Zenon, <1>0, <1>6 DEF BreakComplete, HolderInv, Takes
    <2>3. Completes(h)
      BY Zenon, <1>6, <2>1, <2>2 DEF BreakComplete, Complete, Completes
    <2>4. EndsPeer(h) \/ EndsOne(h)
      BY Zenon, <1>6, <2>1 DEF BreakComplete, EndsPeer, EndsOne
    <2>5. QED BY Zenon, <1>0, <2>3, <2>4, CompleteKeeps
  <1>7. QED BY Zenon, <1>1, <1>2, <1>3, <1>4, <1>5, <1>6

\* The timer thread's steps keep the invariant.
LEMMA TimerKeeps ==
    ASSUME IInv, timerThread
    PROVE  IInv'
  <1>0. TypeOK' /\ TypeOK /\ Captured
    BY Zenon, TimerType DEF IInv
  <1>1. \A c \in Calls : pc[c] \in {"ok", "timeout", "broken"} => complete[c]
    BY Zenon DEF IInv, CallInv
  <1>2. Captured'
    BY Zenon, <1>0 DEF timerThread, TimerFire, TimerFind, TimerMark, TimerUnlock, EraseEvent,
                Captured, calls
  <1>3. CASE TimerFire
    BY Zenon, <1>0, <1>1, <1>2, <1>3, Quiet DEF TimerFire, NotYet, calls
  <1>4. CASE TimerUnlock
    BY Zenon, <1>0, <1>1, <1>2, <1>4, Quiet DEF TimerUnlock, NotYet, calls
  <1>5. CASE TimerFind
    <2>1. CASE firstId \notin ctxs
      BY Zenon, <1>0, <1>1, <1>2, <1>5, <2>1, Quiet DEF TimerFind, EraseEvent, NotYet, calls
    <2>2. CASE firstId \in ctxs
      <3>1. /\ ctxs' = ctxs \ {firstId} /\ peerRpcs' = peerRpcs \ {firstId}
            /\ timer' = "mark" /\ CtxsFree /\ UNCHANGED <<pc, complete, firstId, net>>
        BY Zenon, <1>5, <2>2 DEF TimerFind, calls
      <3>2. \A b : Taken(b)' => Taken(b) \/ b = firstId
        BY Zenon, <3>1 DEF Taken
      <3>3. firstId \in Calls /\ ~complete[firstId] /\ ~Taken(firstId) /\ ~NotYet(firstId)
        BY Zenon, <1>0, <2>2 DEF IInv, TypeOK, CallInv
      <3>4. \A b \in Calls : CallInv(b)'
        BY Zenon, <3>1, <3>2, <3>3 DEF IInv, CallInv, NotYet
      <3>5. OneHolder' /\ MapsAgree' /\ ctxs' \subseteq peerRpcs'
        BY Zenon, <3>1 DEF IInv, OneHolder, MapsAgree, CtxsFree, Holds
      <3>6. OneTaker'
        BY Zenon, <3>1, <3>3 DEF IInv, OneTaker, Takes, Taken
      <3>7. \A h \in NetThreads : HolderInv(h)'
        BY Zenon, <3>1 DEF IInv, HolderInv, CtxsFree
      <3>8. QED BY Zenon, <1>0, <1>2, <3>4, <3>5, <3>6, <3>7 DEF IInv
    <2>3. QED BY Zenon, <2>1, <2>2
  <1>6. CASE TimerMark
    <2>1. /\ complete' = [complete EXCEPT ![firstId] = TRUE] /\ timer = "mark"
          /\ timer' = "drain" /\ firstId \in Calls /\ UNCHANGED <<pc, maps, firstId, net>>
      BY Zenon, <1>0, <1>6 DEF TimerMark, Complete, EraseEvent, TypeOK
    <2>2. \A b : Taken(b)' => Taken(b) /\ b # firstId
      BY Zenon, <2>1 DEF Taken, IInv, OneTaker, Takes
    <2>3. Taken(firstId) /\ firstId \notin ctxs /\ ~NotYet(firstId)
      BY Zenon, <2>1 DEF IInv, CallInv, Taken
    <2>4. \A b \in Calls : complete'[b] = IF b = firstId THEN TRUE ELSE complete[b]
      BY Zenon, <1>0, <2>1 DEF TypeOK
    <2>5. \A b \in Calls : CallInv(b)'
      BY Zenon, <2>1, <2>2, <2>3, <2>4 DEF IInv, CallInv, NotYet, maps
    <2>6. OneHolder' /\ MapsAgree' /\ ctxs' \subseteq peerRpcs' /\ OneTaker'
      BY Zenon, <2>1 DEF IInv, OneHolder, MapsAgree, CtxsFree, Holds, OneTaker, Takes, maps
    <2>7. \A h \in NetThreads : HolderInv(h)'
      BY Zenon, <2>1 DEF IInv, HolderInv, maps
    <2>8. QED BY Zenon, <1>0, <1>2, <2>5, <2>6, <2>7 DEF IInv
  <1>7. QED BY Zenon, <1>3, <1>4, <1>5, <1>6 DEF timerThread

\* The invariant holds initially.
LEMMA InitInv == Init => IInv
  <1> SUFFICES ASSUME Init PROVE IInv
    BY Zenon
  <1>1. complete \in [Calls -> BOOLEAN]
    BY Zenon DEF Init
  <1>2. TypeOK
    BY Zenon, <1>1, RpcAssumption DEF Init, TypeOK, Outcomes, Idle, At
  <1>3. \A h \in NetThreads : net[h].at = "idle"
    BY Zenon DEF Init, Idle, At
  <1>4. \A c \in Calls : ~Taken(c)
    BY Zenon, <1>3 DEF Init, Taken
  <1>5. \A c \in Calls : CallInv(c)
    BY Zenon, <1>4 DEF Init, CallInv, NotYet
  <1>6. QED BY Zenon, <1>2, <1>3, <1>5
            DEF IInv, Init, Captured, OneHolder, OneTaker, MapsAgree, HolderInv, Holds, Takes

\* Every step keeps the invariant.
LEMMA NextInv == IInv /\ [Next]_vars => IInv'
  <1> SUFFICES ASSUME IInv, [Next]_vars PROVE IInv'
    BY Zenon
  <1>1. CASE UNCHANGED vars
    <2>1. TypeOK' /\ Captured'
      BY Zenon, <1>1 DEF IInv, TypeOK, Captured, vars, calls, maps, timing
    <2>2. QED BY Zenon, <1>1, <2>1, Quiet DEF vars, calls, timing, NotYet, IInv, CallInv
  <1>2. CASE Next
    BY Zenon, <1>2, Steps, CallerKeeps, HandlerKeeps, TimerKeeps
  <1>3. QED BY Zenon, <1>1, <1>2

\* The invariant holds in every reachable state.
LEMMA Invariant == Spec => []IInv
  BY InitInv, NextInv, PTL DEF Spec

\* The maps of ARpcSyncClient list the same calls whenever its lock is free, and a
\* call that has returned is in neither and nobody is about to complete it.
THEOREM RpcCallsFiled == Spec => []CallsFiled
  <1>1. IInv => CallsFiled
    BY Zenon DEF IInv, CallsFiled, ReturnedGone, CallInv
  <1>2. QED BY Invariant, <1>1, PTL

\* The type invariant of the client.
THEOREM RpcType == Spec => []TypeOK
  <1>1. IInv => TypeOK
    BY Zenon DEF IInv
  <1>2. QED BY Invariant, <1>1, PTL

\* A call is completed at most once: what a response, a broken connection or the
\* timer has made of it is never overwritten by another of them.
THEOREM RpcOutcomeFinal == Spec => OutcomeFinal
  <1> DEFINE Final == \A c \in Calls : complete[c] => complete'[c] /\ state'[c] = state[c]
  <1>1. IInv /\ [Next]_vars => [Final]_vars
    <2> SUFFICES ASSUME IInv, Next PROVE Final
      BY Zenon
    <2>0. TypeOK
      BY Zenon DEF IInv
    <2>1. ASSUME NEW c \in Calls, NEW how, Complete(c, how), ~complete[c] PROVE Final
      BY Zenon, <2>0, <2>1 DEF Complete, TypeOK
    <2>2. ASSUME NEW c \in Calls, sendMessage(c) \/ Answer(c) PROVE Final
      BY Zenon, <2>2
         DEF sendMessage, Answer, Send, Register, Lock, Subscribe, Await, Wake, calls
    <2>3. ASSUME NEW h \in NetThreads,
                 \/ \E c \in Calls : RecvMessage(h, c)
                 \/ RecvUnsub(h) \/ BreakUnsub(h)
                 \/ \E p \in Peers : RecvBroken(h, p)
          PROVE  Final
      BY Zenon, <2>3 DEF RecvMessage, RecvUnsub, BreakUnsub, RecvBroken, calls
    <2>4. ASSUME NEW h \in NetThreads, RecvComplete(h) \/ BreakComplete(h) PROVE Final
      <3>1. net[h].cur \in Calls /\ Taken(net[h].cur)
        <4>1. net[h].at \in {"complete", "broken"}
          BY Zenon, <2>4 DEF RecvComplete, BreakComplete
        <4>2. HolderInv(h)
          BY Zenon DEF IInv
        <4>3. QED BY Zenon, <4>1, <4>2 DEF HolderInv, Taken, Takes
      <3>2. ~complete[net[h].cur]
        <4>1. CallInv(net[h].cur)
          BY Zenon, <3>1 DEF IInv
        <4>2. QED BY Zenon, <3>1, <4>1 DEF CallInv
      <3>3. QED BY Zenon, <2>1, <2>4, <3>1, <3>2 DEF RecvComplete, BreakComplete
    <2>5. CASE timerThread
      <3>1. CASE TimerMark
        <4>1. firstId \in Calls /\ Taken(firstId)
          BY Zenon, <2>0, <3>1 DEF TimerMark, TypeOK, Taken
        <4>2. ~complete[firstId]
          <5>1. CallInv(firstId)
            BY Zenon, <4>1 DEF IInv
          <5>2. QED BY Zenon, <4>1, <5>1 DEF CallInv
        <4>3. QED BY Zenon, <2>1, <3>1, <4>1, <4>2 DEF TimerMark
      <3>2. CASE TimerFire \/ TimerFind \/ TimerUnlock
        BY Zenon, <3>2 DEF TimerFire, TimerFind, TimerUnlock, calls
      <3>3. QED BY Zenon, <2>5, <3>1, <3>2 DEF timerThread
    <2>6. QED BY Zenon, <2>2, <2>3, <2>4, <2>5, Steps
  <1>2. Spec => [][Final]_vars
    BY <1>1, Invariant, PTL DEF Spec
  <1>3. QED BY Zenon, <1>2 DEF OutcomeFinal

----------------------------------------------------------------------------
MapperTypes ==
    /\ call \in [Sends -> [at : {"idle", "add", "conflict", "send", "sent", "answered", "failed"},
                           id : Nat, sent : Nat]]
    /\ s_lastId \in Nat /\ wrapped \in BOOLEAN

\* The ids in the first map are those of the calls that were added.
MapperMapped ==
    \A c \in Messenger!Added : /\ call[c].id \in DOMAIN m_msgHandlerMapper
                               /\ m_msgHandlerMapper[call[c].id] = Messenger!Client(c)

\* No two calls were added under one id.
MapperApart == \A c, d \in Messenger!Added : call[c].id = call[d].id => c = d

MapperIds(c) == {call[c].id, call[c].sent}

\* Until the counter wraps, ids are handed out once.
MapperFresh ==
    ~wrapped =>
      /\ \A c \in Sends : \A i \in MapperIds(c) : i <= s_lastId
      /\ \A c, d \in Sends : c # d => MapperIds(c) \cap MapperIds(d) \subseteq {0}

\* No id is zero, and only RequestVoteAsync sends under an id that was not filed.
MapperSent ==
    \A c \in Sends :
      /\ call[c].at # "idle" => call[c].id # 0
      /\ call[c].at \in {"sent", "answered"} =>
           call[c].sent # 0 /\ (kindOf[c] # "RequestVoteAsync" => call[c].sent = call[c].id)

MapperIInv ==
    MapperTypes /\ MapperMapped /\ MapperApart /\ MapperFresh /\ MapperSent /\ Messenger!IdsFiled

\* At first no call was made and the maps are empty.
LEMMA MapperInitIInv == Messenger!Init => MapperIInv
  <1> SUFFICES ASSUME Messenger!Init PROVE MapperIInv
    BY Zenon
  <1>1. s_lastId = 0 /\ wrapped = FALSE /\ \A c \in Sends : call[c].at = "idle" /\ call[c].id = 0 /\ call[c].sent = 0
    BY DEF Messenger!Init
  <1>2. MapperTypes /\ Messenger!Added = {} /\ DOMAIN m_addrMsgMapper = {}
    <2>1. MapperTypes
      BY DEF Messenger!Init, MapperTypes
    <2>2. Messenger!Added = {}
      BY <1>1 DEF Messenger!Added
    <2>3. DOMAIN m_addrMsgMapper = {}
      BY DEF Messenger!Init
    <2> QED
      BY Zenon, <2>1, <2>2, <2>3
  <1>4. MapperMapped /\ MapperApart /\ MapperSent /\ Messenger!IdsFiled
    BY Zenon, <1>1, <1>2 DEF MapperMapped, MapperApart, MapperSent, Messenger!IdsFiled
  <1>3. MapperFresh
    BY <1>1 DEF MapperFresh, MapperIds
  <1> QED
    BY Zenon, <1>2, <1>3, <1>4 DEF MapperIInv

\* A call goes on after it was added, or before.
LEMMA MapperCallGoesOn ==
  ASSUME MapperIInv, UNCHANGED Messenger!maps, MapperTypes', MapperFresh', MapperSent',
         Messenger!Added' = Messenger!Added,
         \A c \in Messenger!Added : call'[c].id = call[c].id
  PROVE  MapperIInv'
  <1>1. MapperMapped' /\ MapperApart'
    BY DEF MapperIInv, MapperMapped, MapperApart, Messenger!maps, Messenger!Client
  <1>2. Messenger!IdsFiled'
    BY DEF MapperIInv, Messenger!IdsFiled, Messenger!maps, Messenger!Client
  <1> QED
    BY Zenon, <1>1, <1>2 DEF MapperIInv

\* A call goes on and takes no id.
LEMMA MapperNoNewId ==
  ASSUME MapperIInv, NEW c \in Sends, NEW x, x \notin {"sent", "answered"} \/ call[c].at = "sent",
         call[c].at # "idle", call' = [call EXCEPT ![c].at = x], UNCHANGED Messenger!ids
  PROVE  MapperFresh' /\ MapperSent'
  <1>1. \A d \in Sends : /\ call'[d].id = call[d].id /\ call'[d].sent = call[d].sent
                         /\ call'[d].at = IF d = c THEN x ELSE call[d].at
    BY Zenon DEF MapperIInv, MapperTypes
  <1>2. MapperFresh'
    BY Zenon, <1>1 DEF MapperIInv, MapperFresh, MapperIds, Messenger!ids
  <1>3. MapperSent'
    BY Zenon, <1>1 DEF MapperIInv, MapperSent
  <1> QED
    BY Zenon, <1>2, <1>3

\* add_msg_to_mapper files a call in both maps, under an id no other call has,
\* or in neither.
LEMMA MapperAddedIInv ==
  ASSUME MapperIInv, NEW c \in Sends, Messenger!add_msg_to_mapper(c)
  PROVE  MapperIInv'
  <1> USE DEF MapperIInv
  <1>0. UNCHANGED Messenger!ids
    BY Zenon DEF Messenger!add_msg_to_mapper
  <1>1. CASE call' = [call EXCEPT ![c].at = "conflict"] /\ UNCHANGED Messenger!maps
    <2>1. MapperTypes'
      BY Zenon, <1>0, <1>1 DEF Messenger!ids, MapperTypes
    <2>2. Messenger!Added' = Messenger!Added /\ \A d \in Messenger!Added : call'[d].id = call[d].id
      BY Zenon, <1>1, Messenger!add_msg_to_mapper(c)
         DEF Messenger!add_msg_to_mapper, MapperTypes, Messenger!Added
    <2>3. MapperFresh' /\ MapperSent'
      BY Zenon, <1>0, <1>1, MapperNoNewId DEF Messenger!add_msg_to_mapper
    <2> QED
      BY Zenon, <1>1, <2>1, <2>2, <2>3, MapperCallGoesOn
  <1>2. CASE /\ call[c].id \notin DOMAIN m_msgHandlerMapper
             /\ call' = [call EXCEPT ![c].at = "send"]
             /\ m_msgHandlerMapper' = Messenger!Put(m_msgHandlerMapper, call[c].id, Messenger!Client(c))
             /\ m_addrMsgMapper' = Messenger!Filed(c)
    <2> DEFINE i == call[c].id
    <2>1. MapperTypes'
      BY Zenon, <1>0, <1>2 DEF Messenger!ids, MapperTypes
    <2>2. Messenger!Added' = Messenger!Added \union {c} /\ c \notin Messenger!Added /\ \A d \in Sends : call'[d].id = call[d].id
      BY Zenon, <1>2, Messenger!add_msg_to_mapper(c)
         DEF Messenger!add_msg_to_mapper, MapperTypes, Messenger!Added
    <2>3. /\ DOMAIN m_msgHandlerMapper' = DOMAIN m_msgHandlerMapper \union {i}
          /\ m_msgHandlerMapper'[i] = Messenger!Client(c)
          /\ \A j \in DOMAIN m_msgHandlerMapper : m_msgHandlerMapper'[j] = m_msgHandlerMapper[j]
      BY Zenon, <1>2 DEF Messenger!Put
    <2>4. \A d \in Messenger!Added : call[d].id # i
      BY Zenon, <1>2 DEF MapperMapped
    <2>5. MapperMapped'
      BY <2>2, <2>3, <2>4 DEF MapperMapped, Messenger!Client, Messenger!Added
    <2>6. MapperApart'
      BY <2>2, <2>4 DEF MapperApart, Messenger!Added
    <2>7. \A p \in DOMAIN m_addrMsgMapper' : \A j \in m_addrMsgMapper'[p] :
            \/ p \in DOMAIN m_addrMsgMapper /\ j \in m_addrMsgMapper[p]
            \/ p = toPeer[c] /\ j = i
      BY Zenon, <1>2 DEF Messenger!Filed, Messenger!Put
    <2>8. Messenger!IdsFiled'
      BY <2>2, <2>3, <2>4, <2>7 DEF Messenger!IdsFiled, Messenger!Client, Messenger!Added
    <2>9. MapperFresh' /\ MapperSent'
      BY Zenon, <1>0, <1>2, MapperNoNewId DEF Messenger!add_msg_to_mapper
    <2> QED
      BY Zenon, <2>1, <2>5, <2>6, <2>8, <2>9
  <1> QED
    BY Zenon, <1>1, <1>2 DEF Messenger!add_msg_to_mapper

\* dispatch_msg takes ids out of the maps, or leaves them alone.
LEMMA MapperDispatchIInv ==
  ASSUME MapperIInv, NEW n, Messenger!dispatch_msg(n)
  PROVE  MapperIInv'
  <1>1. UNCHANGED <<call, Messenger!ids, m_msgHandlerMapper>>
    BY Zenon DEF Messenger!dispatch_msg, Messenger!dispatch_message, Messenger!clear_peer_msg_map
  <1>2. \A p \in DOMAIN m_addrMsgMapper' :
          p \in DOMAIN m_addrMsgMapper /\ m_addrMsgMapper'[p] \subseteq m_addrMsgMapper[p]
    BY Zenon DEF Messenger!dispatch_msg, Messenger!dispatch_message, Messenger!clear_peer_msg_map
  <1>3. MapperTypes' /\ MapperMapped' /\ MapperApart' /\ MapperFresh' /\ MapperSent'
    BY Zenon, <1>1
       DEF MapperIInv, MapperTypes, MapperMapped, MapperApart, MapperFresh, MapperIds, MapperSent,
           Messenger!ids, Messenger!Added, Messenger!Client
  <1>4. Messenger!IdsFiled'
    BY <1>1, <1>2 DEF MapperIInv, Messenger!IdsFiled, Messenger!Added, Messenger!Client
  <1> QED
    BY Zenon, <1>3, <1>4 DEF MapperIInv

\* GetNewId hands out an id nobody has, until the counter wraps.
LEMMA MapperNewId ==
  ASSUME IdMax \in Nat, MapperIInv, Messenger!GetNewId
  PROVE  /\ s_lastId' \in Nat /\ s_lastId' # 0 /\ wrapped' \in BOOLEAN
         /\ ~wrapped' => ~wrapped /\ s_lastId' = s_lastId + 1
  <1>1. s_lastId \in Nat /\ wrapped \in BOOLEAN
    BY Zenon DEF MapperIInv, MapperTypes
  <1>2. wrapped' \in BOOLEAN /\ (~wrapped' => ~wrapped /\ s_lastId + 1 # IdMax)
    BY Zenon, <1>1 DEF Messenger!GetNewId
  <1> QED
    BY <1>1, <1>2 DEF Messenger!GetNewId

\* A step that gives a call no id, or a new one.
LEMMA MapperTakesId ==
  ASSUME IdMax \in Nat, MapperIInv, MapperTypes', NEW c \in Sends,
         Messenger!GetNewId \/ UNCHANGED Messenger!ids,
         \A d \in Sends : d # c => call'[d] = call[d],
         \A i \in MapperIds(c)' : i \in MapperIds(c) \union {0} \/ (Messenger!GetNewId /\ i = s_lastId')
  PROVE  MapperFresh'
  <1> SUFFICES ASSUME ~wrapped' PROVE MapperFresh'
    BY Zenon DEF MapperFresh
  <1>1. ~wrapped /\ s_lastId \in Nat /\ s_lastId' \in Nat /\ s_lastId' >= s_lastId
    <2>1. CASE Messenger!GetNewId
      BY <2>1, MapperNewId DEF MapperIInv, MapperTypes
    <2>2. CASE UNCHANGED Messenger!ids
      BY <2>2 DEF Messenger!ids, MapperIInv, MapperTypes
    <2> QED
      BY Zenon, <2>1, <2>2
  <1>2. \A d \in Sends : \A i \in MapperIds(d) : i \in Nat /\ i <= s_lastId
    <2>1. \A d \in Sends : \A i \in MapperIds(d) : i \in Nat
      BY DEF MapperIInv, MapperTypes, MapperIds
    <2> QED
      BY Zenon, <1>1, <2>1 DEF MapperIInv, MapperFresh
  <1>3. \A d, e \in Sends : d # e => MapperIds(d) \cap MapperIds(e) \subseteq {0}
    BY Zenon, <1>1 DEF MapperIInv, MapperFresh
  <1>4. \A d \in Sends : d # c => MapperIds(d)' = MapperIds(d)
    BY Zenon DEF MapperIds
  <1>5. Messenger!GetNewId => \A d \in Sends : s_lastId' \notin MapperIds(d)
    BY <1>1, <1>2, MapperNewId
  <1>6. \A d \in Sends : \A i \in MapperIds(d)' : i <= s_lastId'
    BY <1>1, <1>2, <1>4
  <1>7. \A d, e \in Sends : d # e => MapperIds(d)' \cap MapperIds(e)' \subseteq {0}
    <2> SUFFICES ASSUME NEW d \in Sends, NEW e \in Sends, d # e, NEW i \in MapperIds(d)', i \in MapperIds(e)'
                 PROVE  i = 0
      BY Zenon
    <2>1. ASSUME NEW f \in Sends, f # c, i \in MapperIds(f)', i \in MapperIds(c)' PROVE i = 0
      <3>1. i \in MapperIds(f)
        BY Zenon, <1>4, <2>1
      <3>2. CASE i \in MapperIds(c) \union {0}
        BY <1>3, <2>1, <3>1, <3>2
      <3>3. CASE Messenger!GetNewId /\ i = s_lastId'
        BY Zenon, <1>5, <2>1, <3>1, <3>3
      <3> QED
        BY Zenon, <2>1, <3>2, <3>3
    <2>2. CASE d # c /\ e # c
      <3>1. i \in MapperIds(d) \cap MapperIds(e)
        BY Zenon, <1>4, <2>2
      <3> QED
        BY <1>3, <3>1
    <2> QED
      BY Zenon, <2>1, <2>2
  <1> QED
    BY Zenon, <1>6, <1>7 DEF MapperFresh, MapperIds

\* Every step of a call, a peer and the dispatch threads keeps the ids filed.
LEMMA MapperNextIInv == IdMax \in Nat /\ MapperIInv /\ [Messenger!Next]_(Messenger!vars) => MapperIInv'
  <1> SUFFICES ASSUME IdMax \in Nat, MapperIInv, [Messenger!Next]_(Messenger!vars) PROVE MapperIInv'
    BY Zenon
  <1>1. ASSUME NEW c \in Sends, Messenger!TakeId(c) PROVE MapperIInv'
    <2>0. Messenger!GetNewId /\ call' = [call EXCEPT ![c] = [at |-> "add", id |-> s_lastId', sent |-> 0]]
      BY Zenon, <1>1 DEF Messenger!TakeId
    <2>1. s_lastId' \in Nat /\ s_lastId' # 0 /\ wrapped' \in BOOLEAN
      BY Zenon, <2>0, MapperNewId
    <2>2. /\ call'[c] = [at |-> "add", id |-> s_lastId', sent |-> 0]
          /\ \A d \in Sends : d # c => call'[d] = call[d]
      BY Zenon, <2>0 DEF MapperIInv, MapperTypes
    <2>3. MapperTypes'
      BY <2>0, <2>1 DEF MapperIInv, MapperTypes
    <2>4. MapperFresh'
      <3>1. \A i \in MapperIds(c)' : i = 0 \/ i = s_lastId'
        BY <2>2 DEF MapperIds
      <3> QED
        BY Zenon, <2>0, <2>2, <2>3, <3>1, MapperTakesId
    <2>5. MapperSent'
      BY <2>1, <2>2 DEF MapperIInv, MapperSent
    <2>6. Messenger!Added' = Messenger!Added /\ \A d \in Messenger!Added : call'[d].id = call[d].id
      BY <1>1, <2>2 DEF Messenger!TakeId, Messenger!Added
    <2> QED
      BY Zenon, <1>1, <2>3, <2>4, <2>5, <2>6, MapperCallGoesOn DEF Messenger!TakeId
  <1>2. ASSUME NEW c \in Sends, Messenger!SendMessage(c) PROVE MapperIInv'
    <2>0. PICK at \in {"sent", "failed"}, sent \in Nat :
            /\ call' = [call EXCEPT ![c].at = at, ![c].sent = sent]
            /\ \/ kindOf[c] = "RequestVoteAsync" /\ Messenger!GetNewId /\ sent = s_lastId'
               \/ kindOf[c] # "RequestVoteAsync" /\ UNCHANGED Messenger!ids /\ sent = call[c].id
      <3>1. CASE kindOf[c] = "RequestVoteAsync"
        BY Zenon, <1>2, <3>1, MapperNewId DEF Messenger!SendMessage
      <3>2. CASE kindOf[c] # "RequestVoteAsync"
        BY Zenon, <1>2, <3>2 DEF Messenger!SendMessage, MapperIInv, MapperTypes
      <3> QED
        BY Zenon, <3>1, <3>2
    <2>1. sent \in Nat /\ sent # 0 /\ s_lastId' \in Nat /\ wrapped' \in BOOLEAN
      BY Zenon, <1>2, <2>0, MapperNewId
         DEF Messenger!SendMessage, Messenger!ids, MapperIInv, MapperTypes, MapperSent
    <2>2. /\ call'[c].at = at /\ call'[c].id = call[c].id /\ call'[c].sent = sent
          /\ \A d \in Sends : d # c => call'[d] = call[d]
      BY Zenon, <2>0 DEF MapperIInv, MapperTypes
    <2>3. MapperTypes'
      BY Zenon, <2>0, <2>1 DEF MapperIInv, MapperTypes
    <2>4. MapperFresh'
      <3>1. \A i \in MapperIds(c)' : i \in MapperIds(c) \/ (Messenger!GetNewId /\ i = s_lastId')
        BY Zenon, <2>0, <2>2 DEF MapperIds
      <3> QED
        BY Zenon, <2>0, <2>2, <2>3, <3>1, MapperTakesId
    <2>5. MapperSent'
      <3>1. MapperSent /\ call[c].at = "send"
        BY Zenon, <1>2 DEF Messenger!SendMessage, MapperIInv
      <3>2. call[c].id # 0
        BY Zenon, <3>1 DEF MapperSent
      <3>3. kindOf[c] # "RequestVoteAsync" => call'[c].sent = call'[c].id
        BY Zenon, <2>0, <2>2
      <3> QED
        BY Zenon, <2>1, <2>2, <3>1, <3>2, <3>3 DEF MapperSent
    <2>6. Messenger!Added' = Messenger!Added /\ \A d \in Messenger!Added : call'[d].id = call[d].id
      BY <1>2, <2>2 DEF Messenger!SendMessage, Messenger!Added
    <2> QED
      BY Zenon, <1>2, <2>3, <2>4, <2>5, <2>6, MapperCallGoesOn DEF Messenger!SendMessage
  <1>3. ASSUME NEW c \in Sends, Messenger!RecvResponse(c) PROVE MapperIInv'
    <2>1. MapperTypes' /\ Messenger!Added' = Messenger!Added /\ \A d \in Messenger!Added : call'[d].id = call[d].id
      BY Zenon, <1>3 DEF Messenger!RecvResponse, Messenger!ids, MapperIInv, MapperTypes, Messenger!Added
    <2>2. MapperFresh' /\ MapperSent'
      BY Zenon, <1>3, MapperNoNewId DEF Messenger!RecvResponse
    <2> QED
      BY Zenon, <1>3, <2>1, <2>2, MapperCallGoesOn DEF Messenger!RecvResponse
  <1>4. ASSUME UNCHANGED <<Messenger!ids, call, Messenger!maps>> PROVE MapperIInv'
    <2>1. MapperTypes' /\ MapperFresh' /\ MapperSent'
      BY Zenon, <1>4 DEF Messenger!ids, MapperIInv, MapperTypes, MapperFresh, MapperIds, MapperSent
    <2> QED
      BY Zenon, <1>4, <2>1, MapperCallGoesOn DEF MapperIInv, Messenger!Added
  <1>5. CASE \E p \in SendPeers, id \in 1 .. MaxPeerId : Messenger!RecvRequest(p, id)
    BY Zenon, <1>4, <1>5 DEF Messenger!RecvRequest
  <1>6. CASE \E p \in SendPeers : Messenger!RecvWorker(p)
    BY Zenon, <1>4, <1>6 DEF Messenger!RecvWorker
  <1>7. CASE \E n \in served : Messenger!proc_msg(n)
    BY Zenon, <1>4, <1>7 DEF Messenger!proc_msg
  <1>8. CASE UNCHANGED Messenger!vars
    BY Zenon, <1>4, <1>8 DEF Messenger!vars
  <1> QED
    BY Zenon, <1>1, <1>2, <1>3, <1>5, <1>6, <1>7, <1>8, MapperAddedIInv, MapperDispatchIInv
       DEF Messenger!Next

\* The invariant holds in every state of the messenger.
LEMMA MapperInvariant == Messenger!Spec => []MapperIInv
  <1> USE MessengerUse
  <1>1. Messenger!Init => MapperIInv
    BY Zenon, MapperInitIInv
  <1>2. MapperIInv /\ [Messenger!Next]_(Messenger!vars) => MapperIInv'
    BY Zenon, MapperNextIInv
  <1> QED
    BY <1>1, <1>2, PTL DEF Messenger!Spec

\* Both maps name the calls they were filed for: an id that is filed under a
\* peer belongs to a call to that peer, and maps to that call.
THEOREM MessengerIdsFiled == Messenger!Spec => []IdsFiled
  <1>1. MapperIInv => IdsFiled
    BY Zenon DEF MapperIInv, IdsFiled
  <1> QED
    BY <1>1, MapperInvariant, PTL

\* Two requests on their way carry the same id only if the counter has wrapped
\* and one of them is a RequestVoteAsync: before that GetNewId repeats nothing,
\* and afterwards add_msg_to_mapper still refuses an id that is in its map.
THEOREM MessengerRequestsApart == Messenger!Spec => []RequestsApart
  <1>1. MapperIInv => RequestsApart
    <2> SUFFICES ASSUME MapperIInv, NEW c \in Sends, NEW d \in Sends, c # d,
                        call[c].at \in {"sent", "answered"}, call[d].at \in {"sent", "answered"},
                        call[c].sent = call[d].sent
                 PROVE  wrapped /\ "RequestVoteAsync" \in {kindOf[c], kindOf[d]}
      BY Zenon DEF RequestsApart, Messenger!RequestsApart
    <2>1. wrapped
      BY Zenon DEF MapperIInv, MapperFresh, MapperIds, MapperSent
    <2>2. "RequestVoteAsync" \in {kindOf[c], kindOf[d]}
      <3> SUFFICES ASSUME kindOf[c] # "RequestVoteAsync", kindOf[d] # "RequestVoteAsync" PROVE FALSE
        BY Zenon
      <3>1. call[c].id = call[d].id
        BY Zenon DEF MapperIInv, MapperSent
      <3>2. c \in Messenger!Added /\ d \in Messenger!Added
        BY DEF Messenger!Added
      <3> QED
        BY Zenon, <3>1, <3>2 DEF MapperIInv, MapperApart
    <2> QED
      BY Zenon, <2>1, <2>2
  <1> QED
    BY <1>1, MapperInvariant, PTL

----------------------------------------------------------------------------
\* The states of a call in which the caller has the message to itself.
OwnHolding == {"made", "connect", "again", "push", "refused"}

OwnTypes ==
    /\ sendCall \in [Own!Msgs -> OwnHolding \union {"idle", "release", "accepted", "done"}]
    /\ borrowed \in [Own!Msgs -> Conns \union {NoConn}]
    /\ conn \in [Conns -> {"none", "up", "removed"}]
    /\ m_bqMessages \in [Conns -> Seq(Own!Msgs)]
    /\ sending \in [Conns -> Own!Msgs \union {NoMsg}]
    /\ freed \in [Own!Msgs -> Nat]
    /\ dropped \subseteq Own!Msgs

OwnQueued(c) == Own!Range(m_bqMessages[c])

\* A queue holds a message once.
OwnNoRepeats ==
    \A c \in Conns : \A i, j \in DOMAIN m_bqMessages[c] :
      m_bqMessages[c][i] = m_bqMessages[c][j] => i = j

\* A message is in one place at most ...
OwnAtMostOne(m) ==
    /\ freed[m] \in {0, 1}
    /\ sendCall[m] \in OwnHolding \union {"idle"} =>
         freed[m] = 0 /\ m \notin dropped /\ \A c \in Conns : m \notin OwnQueued(c) /\ sending[c] # m
    /\ \A c \in Conns : m \in OwnQueued(c) =>
         /\ freed[m] = 0 /\ m \notin dropped
         /\ \A d \in Conns : sending[d] # m /\ (m \in OwnQueued(d) => d = c)
    /\ \A c \in Conns : sending[c] = m =>
         freed[m] = 0 /\ m \notin dropped /\ \A d \in Conns : sending[d] = m => d = c
    /\ freed[m] = 1 => m \notin dropped

\* ... and in one at least.
OwnAtLeastOne(m) ==
    \/ sendCall[m] \in OwnHolding \union {"idle"}
    \/ freed[m] = 1 \/ m \in dropped
    \/ \E c \in Conns : m \in OwnQueued(c) \/ sending[c] = m

OwnPlaced == \A m \in Own!Msgs : OwnAtMostOne(m) /\ OwnAtLeastOne(m)

\* A call pushes to the connection it borrowed.
OwnBorrowing ==
    \A m \in Own!Msgs : sendCall[m] \in {"push", "release"} => borrowed[m] \in Conns

OwnIInv == OwnTypes /\ OwnNoRepeats /\ OwnPlaced /\ OwnBorrowing /\ misused = FALSE

\* At first no message exists and no connection is there.
LEMMA OwnInitIInv == Own!OwnAssumption /\ Own!Init => OwnIInv
  BY DEF Own!OwnAssumption, Own!Init, OwnIInv, OwnTypes, OwnNoRepeats, OwnPlaced, OwnAtMostOne,
         OwnAtLeastOne, OwnBorrowing,
         OwnHolding, OwnQueued, Own!Range

\* What the queue's operations do to the set of messages in it.
LEMMA OwnAppended ==
  ASSUME NEW s \in Seq(Own!Msgs), NEW m \in Own!Msgs
  PROVE  /\ Append(s, m) \in Seq(Own!Msgs) /\ Own!Range(Append(s, m)) = Own!Range(s) \union {m}
         /\ m \notin Own!Range(s) /\ (\A i, j \in DOMAIN s : s[i] = s[j] => i = j) =>
              \A i, j \in DOMAIN Append(s, m) : Append(s, m)[i] = Append(s, m)[j] => i = j
  <1>1. /\ Append(s, m) \in Seq(Own!Msgs) /\ DOMAIN Append(s, m) = 1 .. Len(s) + 1
        /\ DOMAIN s = 1 .. Len(s) /\ Len(s) \in Nat
        /\ \A i \in DOMAIN s : Append(s, m)[i] = s[i]
        /\ Append(s, m)[Len(s) + 1] = m
    OBVIOUS
  <1>2. Own!Range(Append(s, m)) \subseteq Own!Range(s) \union {m}
    BY <1>1 DEF Own!Range
  <1>3. \A x \in Own!Range(s) : x \in Own!Range(Append(s, m))
    BY <1>1 DEF Own!Range
  <1>4. m \in Own!Range(Append(s, m))
    BY <1>1 DEF Own!Range
  <1> QED
    BY <1>1, <1>2, <1>3, <1>4 DEF Own!Range

\* TryPop takes the first message out of a queue, which held it once.
LEMMA OwnPopped ==
  ASSUME NEW s \in Seq(Own!Msgs), s # <<>>,
         \A i, j \in DOMAIN s : s[i] = s[j] => i = j
  PROVE  /\ Head(s) \in Own!Range(s) /\ Head(s) \in Own!Msgs /\ Tail(s) \in Seq(Own!Msgs)
         /\ Own!Range(Tail(s)) = Own!Range(s) \ {Head(s)}
         /\ \A i, j \in DOMAIN Tail(s) : Tail(s)[i] = Tail(s)[j] => i = j
  <1>1. /\ Tail(s) \in Seq(Own!Msgs) /\ DOMAIN Tail(s) = 1 .. Len(s) - 1
        /\ DOMAIN s = 1 .. Len(s) /\ Len(s) \in Nat \ {0}
        /\ \A i \in DOMAIN Tail(s) : Tail(s)[i] = s[i + 1]
        /\ Head(s) = s[1]
    OBVIOUS
  <1>2. \A i, j \in DOMAIN Tail(s) : Tail(s)[i] = Tail(s)[j] => i = j
    BY <1>1
  <1>3. Head(s) \in Own!Range(s)
    BY <1>1 DEF Own!Range
  <1>4. \A x \in Own!Range(Tail(s)) : x \in Own!Range(s) \ {Head(s)}
    BY <1>1 DEF Own!Range
  <1>5. ASSUME NEW x \in Own!Range(s), x # Head(s) PROVE x \in Own!Range(Tail(s))
    <2>1. PICK i \in DOMAIN s : x = s[i]
      BY Zenon DEF Own!Range
    <2>2. i - 1 \in DOMAIN Tail(s) /\ Tail(s)[i - 1] = x
      BY <1>1, <1>5, <2>1
    <2> QED
      BY Zenon, <2>2 DEF Own!Range
  <1> QED
    BY <1>1, <1>2, <1>3, <1>4, <1>5

\* A step that leaves a message where it is.
LEMMA OwnElsewhere ==
  ASSUME NEW n \in Own!Msgs, OwnAtMostOne(n), OwnAtLeastOne(n),
         sendCall[n]' = sendCall[n], freed[n]' = freed[n], (n \in dropped)' <=> n \in dropped,
         \A d \in Conns : (n \in OwnQueued(d))' <=> n \in OwnQueued(d),
         \A d \in Conns : (sending[d] = n)' <=> sending[d] = n
  PROVE  OwnAtMostOne(n)' /\ OwnAtLeastOne(n)'
  BY Zenon DEF OwnAtMostOne, OwnAtLeastOne

\* A call goes on without touching messages or queues.
LEMMA OwnCallGoesOn ==
  ASSUME NEW m \in Own!Msgs, NEW x, OwnTypes, OwnNoRepeats, OwnPlaced,
         sendCall' = [sendCall EXCEPT ![m] = x], x # "idle",
         x \in OwnHolding <=> sendCall[m] \in OwnHolding \union {"idle"},
         UNCHANGED <<m_bqMessages, sending, Own!memory>>
  PROVE  OwnNoRepeats' /\ OwnPlaced' /\ UNCHANGED misused
  <1>1. ASSUME NEW n \in Own!Msgs PROVE OwnAtMostOne(n)' /\ OwnAtLeastOne(n)'
    BY DEF OwnTypes, OwnPlaced, OwnAtMostOne, OwnAtLeastOne, OwnQueued, Own!memory
  <1> QED
    BY Zenon, <1>1 DEF OwnNoRepeats, OwnPlaced, Own!memory

\* Every step moves a message from one owner to the next, or to nobody.
LEMMA OwnNextIInv == Own!OwnAssumption /\ OwnIInv /\ [Own!Next]_(Own!vars) => OwnIInv'
  <1> SUFFICES ASSUME Own!OwnAssumption, OwnIInv, [Own!Next]_(Own!vars) PROVE OwnIInv'
    BY Zenon
  <1> USE DEF OwnIInv
  <1>1. ASSUME NEW m \in Own!Msgs, Own!New(m) PROVE OwnIInv'
    BY Zenon, <1>1, OwnCallGoesOn
       DEF Own!New, Own!CallAt, Own!queues, Own!conns, Own!memory, OwnHolding, OwnTypes, OwnBorrowing
  <1>2. ASSUME NEW m \in Own!Msgs, Own!Stopped(m) PROVE OwnIInv'
    BY Zenon, <1>2, OwnCallGoesOn
       DEF Own!Stopped, Own!CallAt, Own!queues, Own!conns, Own!memory, OwnHolding, OwnTypes, OwnBorrowing
  <1>3. ASSUME NEW m \in Own!Msgs, Own!GetWorkerEventHandlerWithRef(m) PROVE OwnIInv'
    <2>1. CASE Own!managed # {}
      <3>1. PICK c \in Own!managed \ deleted : borrowed' = [borrowed EXCEPT ![m] = c]
        BY Zenon, <1>3, <2>1 DEF Own!GetWorkerEventHandlerWithRef
      <3> QED
        BY Zenon, <1>3, <2>1, <3>1, OwnCallGoesOn
           DEF Own!GetWorkerEventHandlerWithRef, Own!managed, Own!queues, Own!conns, Own!memory,
               OwnHolding, OwnTypes, OwnBorrowing
    <2>2. CASE Own!managed = {}
      <3>1. PICK x \in {"connect", "refused"} : sendCall' = [sendCall EXCEPT ![m] = x]
        BY Zenon, <1>3, <2>2 DEF Own!GetWorkerEventHandlerWithRef
      <3> QED
        BY Zenon, <1>3, <2>2, <3>1, OwnCallGoesOn
           DEF Own!GetWorkerEventHandlerWithRef, Own!queues, Own!conns, Own!memory, OwnHolding, OwnTypes,
               OwnBorrowing
    <2> QED
      BY Zenon, <2>1, <2>2
  <1>4. ASSUME NEW m \in Own!Msgs, Own!connect(m) PROVE OwnIInv'
    <2>1. PICK x \in {"again", "refused"} : sendCall' = [sendCall EXCEPT ![m] = x]
      BY Zenon, <1>4 DEF Own!connect
    <2>2. OwnNoRepeats' /\ OwnPlaced' /\ UNCHANGED misused
      BY Zenon, <1>4, <2>1, OwnCallGoesOn DEF Own!connect, OwnHolding, Own!memory
    <2>3. \/ UNCHANGED conn
          \/ \E c \in Conns : conn[c] = "none" /\ conn' = [conn EXCEPT ![c] = "up"]
      BY Zenon, <1>4 DEF Own!connect
    <2> QED
      BY Zenon, <1>4, <2>1, <2>2, <2>3 DEF Own!connect, Own!memory, OwnHolding, OwnTypes, OwnBorrowing
  <1>5. ASSUME NEW m \in Own!Msgs, Own!SendMessage(m) PROVE OwnIInv'
    <2>0. PICK c \in Conns : c = borrowed[m]
      BY Zenon, <1>5 DEF Own!SendMessage, Own!CallAt, OwnBorrowing
    <2>1. sendCall[m] \in OwnHolding /\ m \notin OwnQueued(c)
      BY Zenon, <1>5
         DEF Own!SendMessage, Own!CallAt, OwnHolding, OwnBorrowing, OwnPlaced, OwnAtMostOne
    <2>2. /\ OwnQueued(c)' = OwnQueued(c) \union {m}
          /\ \A d \in Conns : d # c => OwnQueued(d)' = OwnQueued(d)
          /\ m_bqMessages' \in [Conns -> Seq(Own!Msgs)]
          /\ OwnNoRepeats'
      <3>1. m_bqMessages' = [m_bqMessages EXCEPT ![c] = Append(m_bqMessages[c], m)]
        BY <1>5, <2>0 DEF Own!SendMessage
      <3>2. /\ m_bqMessages[c] \in Seq(Own!Msgs) /\ m \notin Own!Range(m_bqMessages[c])
            /\ \A i, j \in DOMAIN m_bqMessages[c] : m_bqMessages[c][i] = m_bqMessages[c][j] => i = j
        BY Zenon, <2>1 DEF OwnQueued, OwnTypes, OwnNoRepeats
      <3>3. /\ m_bqMessages'[c] = Append(m_bqMessages[c], m)
            /\ \A d \in Conns : d # c => m_bqMessages'[d] = m_bqMessages[d]
        BY Zenon, <3>1 DEF OwnTypes
      <3>4. /\ Append(m_bqMessages[c], m) \in Seq(Own!Msgs)
            /\ Own!Range(Append(m_bqMessages[c], m)) = Own!Range(m_bqMessages[c]) \union {m}
            /\ \A i, j \in DOMAIN Append(m_bqMessages[c], m) :
                 Append(m_bqMessages[c], m)[i] = Append(m_bqMessages[c], m)[j] => i = j
        BY Zenon, <3>2, OwnAppended
      <3>5. m_bqMessages' \in [Conns -> Seq(Own!Msgs)]
        BY Zenon, <3>1, <3>4 DEF OwnTypes
      <3>6. OwnQueued(c)' = OwnQueued(c) \union {m} /\ \A d \in Conns : d # c => OwnQueued(d)' = OwnQueued(d)
        BY <3>3, <3>4 DEF OwnQueued, Own!Range
      <3>7. OwnNoRepeats'
        <4>1. ASSUME NEW d \in Conns
              PROVE  \A i, j \in DOMAIN m_bqMessages'[d] : m_bqMessages'[d][i] = m_bqMessages'[d][j] => i = j
          <5>1. CASE d = c
            BY Zenon, <3>3, <3>4, <5>1
          <5>2. CASE d # c
            BY Zenon, <3>3, <5>2 DEF OwnNoRepeats
          <5> QED
            BY Zenon, <5>1, <5>2
        <4> QED
          BY Zenon, <4>1 DEF OwnNoRepeats
      <3> QED
        BY Zenon, <3>5, <3>6, <3>7
    <2>3. OwnTypes' /\ OwnBorrowing'
      BY Zenon, <1>5, <2>0, <2>1, <2>2
         DEF Own!SendMessage, Own!CallAt, Own!memory, Own!conns, OwnTypes, OwnBorrowing
    <2>4. ASSUME NEW n \in Own!Msgs PROVE OwnAtMostOne(n)' /\ OwnAtLeastOne(n)'
      <3>1. /\ sendCall' = [sendCall EXCEPT ![m] = "release"]
            /\ UNCHANGED <<sending, freed, dropped>>
        BY Zenon, <1>5 DEF Own!SendMessage, Own!CallAt, Own!memory
      <3>2. OwnAtMostOne(n) /\ OwnAtLeastOne(n)
        BY Zenon DEF OwnPlaced
      <3>3. CASE n = m
        <4>1. /\ sendCall[n]' = "release" /\ freed[n] = 0 /\ n \notin dropped
              /\ \A d \in Conns : n \notin OwnQueued(d) /\ sending[d] # n
          BY Zenon, <2>1, <3>1, <3>2, <3>3 DEF OwnTypes, OwnAtMostOne
        <4> QED
          BY Zenon, <2>1, <2>2, <3>1, <3>3, <4>1 DEF OwnAtMostOne, OwnAtLeastOne, OwnHolding
      <3>4. CASE n # m
        BY Zenon, <2>1, <2>2, <3>1, <3>2, <3>4, OwnElsewhere DEF OwnTypes
      <3> QED
        BY Zenon, <3>3, <3>4
    <2> QED
      BY Zenon, <1>5, <2>2, <2>3, <2>4 DEF Own!SendMessage, Own!memory, OwnPlaced
  <1>6. ASSUME NEW m \in Own!Msgs, Own!Release(m) PROVE OwnIInv'
    BY Zenon, <1>6, OwnCallGoesOn
       DEF Own!OwnAssumption, Own!Release, Own!CallAt, Own!queues, Own!conns, Own!memory, OwnHolding,
           OwnTypes, OwnBorrowing
  <1>7. ASSUME NEW m \in Own!Msgs, Own!Accepted(m) PROVE OwnIInv'
    BY Zenon, <1>7, OwnCallGoesOn
       DEF Own!Accepted, Own!CallAt, Own!queues, Own!conns, Own!memory, OwnHolding, OwnTypes, OwnBorrowing
  <1>8. ASSUME NEW m \in Own!Msgs, Own!Refused(m) PROVE OwnIInv'
    <2>1. \A d \in Conns : OwnQueued(d)' = OwnQueued(d)
      BY Zenon, <1>8 DEF Own!Refused, Own!queues, Own!conns, OwnQueued
    <2>2. sendCall[m] \in OwnHolding /\ freed[m] = 0
      BY Zenon, <1>8 DEF Own!Refused, Own!CallAt, OwnHolding, OwnPlaced, OwnAtMostOne
    <2>3. misused' = FALSE
      <3>1. misused' = (misused \/ freed[m] > 0)
        BY Zenon, <1>8 DEF Own!Refused, Own!Touch
      <3>2. ~(freed[m] > 0)
        BY <2>2
      <3> QED
        BY Zenon, <3>1, <3>2
    <2>4. \/ freed' = [n \in Own!Msgs |-> IF n = m THEN 1 ELSE freed[n]] /\ UNCHANGED dropped
          \/ dropped' = dropped \union {m} /\ UNCHANGED freed
      BY <1>8, <2>2 DEF Own!Refused, Own!Free, Own!Count, OwnTypes
    <2>5. OwnTypes' /\ OwnBorrowing'
      BY <1>8, <2>4 DEF Own!Refused, Own!CallAt, Own!queues, Own!conns, OwnTypes, OwnBorrowing
    <2>6. ASSUME NEW n \in Own!Msgs PROVE OwnAtMostOne(n)' /\ OwnAtLeastOne(n)'
      <3> USE <1>8, <2>1, <2>2, <2>4
         DEF Own!Refused, Own!CallAt, Own!queues, Own!conns, OwnTypes, OwnPlaced, OwnAtMostOne,
             OwnAtLeastOne, OwnHolding
      <3>1. CASE n = m
        BY <3>1
      <3>2. CASE n # m
        BY <3>2
      <3> QED
        BY Zenon, <3>1, <3>2
    <2> QED
      BY Zenon, <1>8, <2>3, <2>5, <2>6 DEF Own!Refused, Own!queues, Own!conns, OwnNoRepeats, OwnPlaced
  <1>9. ASSUME NEW c \in Conns, Own!TryPop(c) PROVE OwnIInv'
    <2> DEFINE m == Head(m_bqMessages[c])
    <2>1. /\ m_bqMessages[c] \in Seq(Own!Msgs) /\ m_bqMessages[c] # <<>>
          /\ \A i, j \in DOMAIN m_bqMessages[c] : m_bqMessages[c][i] = m_bqMessages[c][j] => i = j
      BY Zenon, <1>9 DEF Own!TryPop, OwnTypes, OwnNoRepeats
    <2>2. /\ m \in Own!Range(m_bqMessages[c]) /\ m \in Own!Msgs /\ Tail(m_bqMessages[c]) \in Seq(Own!Msgs)
          /\ Own!Range(Tail(m_bqMessages[c])) = Own!Range(m_bqMessages[c]) \ {m}
          /\ \A i, j \in DOMAIN Tail(m_bqMessages[c]) :
               Tail(m_bqMessages[c])[i] = Tail(m_bqMessages[c])[j] => i = j
      BY Zenon, <2>1, OwnPopped
    <2>3. /\ m \in OwnQueued(c) /\ OwnQueued(c)' = OwnQueued(c) \ {m}
          /\ \A d \in Conns : d # c => OwnQueued(d)' = OwnQueued(d)
          /\ m_bqMessages' \in [Conns -> Seq(Own!Msgs)]
      BY Zenon, <1>9, <2>2 DEF Own!TryPop, OwnQueued, OwnTypes
    <2>4. OwnNoRepeats'
      BY <1>9, <2>2 DEF Own!TryPop, OwnNoRepeats, OwnTypes
    <2>5. OwnTypes' /\ OwnBorrowing'
      BY <1>9, <2>2, <2>3 DEF Own!TryPop, Own!memory, Own!conns, OwnTypes, OwnBorrowing
    <2>6. ASSUME NEW n \in Own!Msgs PROVE OwnAtMostOne(n)' /\ OwnAtLeastOne(n)'
      <3> HIDE DEF m
      <3>1. /\ m \in Own!Msgs /\ sending[c] = NoMsg
            /\ sending' = [sending EXCEPT ![c] = m] /\ UNCHANGED <<sendCall, Own!memory>>
        BY Zenon, <1>9, <2>2 DEF Own!TryPop, m
      <3>2. OwnAtMostOne(n) /\ OwnAtLeastOne(n)
        BY Zenon DEF OwnPlaced
      <3>3. CASE n = m
        <4>1. /\ sendCall[n] \notin OwnHolding \union {"idle"} /\ freed[n] = 0 /\ n \notin dropped
              /\ \A d \in Conns : sending[d] # n /\ (n \in OwnQueued(d) => d = c)
          BY Zenon, <2>3, <3>2, <3>3 DEF OwnAtMostOne
        <4>2. \A d \in Conns : sending'[d] = n <=> d = c
          BY Zenon, <3>1, <3>3, <4>1 DEF OwnTypes
        <4>3. \A d \in Conns : n \notin OwnQueued(d)'
          BY Zenon, <2>3, <3>3, <4>1
        <4> QED
          BY Zenon, <3>1, <4>1, <4>2, <4>3 DEF Own!memory, OwnAtMostOne, OwnAtLeastOne
      <3>4. CASE n # m
        <4>1. \A d \in Conns : sending'[d] = n <=> sending[d] = n
          BY Zenon, <3>1, <3>4 DEF Own!OwnAssumption, OwnTypes
        <4> QED
          BY Zenon, <2>3, <3>1, <3>2, <3>4, <4>1, OwnElsewhere DEF Own!memory
      <3> QED
        BY Zenon, <3>3, <3>4
    <2> QED
      BY Zenon, <1>9, <2>4, <2>5, <2>6 DEF Own!TryPop, Own!memory, OwnPlaced
  <1>10. ASSUME NEW c \in Conns, Own!Encode(c) PROVE OwnIInv'
    <2> DEFINE m == sending[c]
    <2>1. m \in Own!Msgs /\ freed[m] = 0
      BY Zenon, <1>10 DEF Own!Encode, OwnTypes, OwnPlaced, OwnAtMostOne
    <2>2. \A d \in Conns : OwnQueued(d)' = OwnQueued(d)
      BY Zenon, <1>10 DEF Own!Encode, OwnQueued
    <2>3. misused' = FALSE
      <3>1. misused' = (misused \/ freed[m] > 0)
        BY Zenon, <1>10 DEF Own!Encode, Own!Touch
      <3>2. ~(freed[m] > 0)
        BY <2>1
      <3> QED
        BY Zenon, <3>1, <3>2
    <2>4. freed' = [n \in Own!Msgs |-> IF n = m THEN 1 ELSE freed[n]]
      BY <1>10, <2>1 DEF Own!Encode, Own!Free, Own!Count, OwnTypes
    <2>5. OwnTypes' /\ OwnBorrowing'
      BY <1>10, <2>1, <2>4 DEF Own!Encode, Own!conns, OwnTypes, OwnBorrowing
    <2>6. ASSUME NEW n \in Own!Msgs PROVE OwnAtMostOne(n)' /\ OwnAtLeastOne(n)'
      <3> USE <1>10, <2>1, <2>2, <2>4
         DEF Own!OwnAssumption, Own!Encode, OwnTypes, OwnPlaced, OwnAtMostOne, OwnAtLeastOne
      <3>1. CASE n = m
        BY <3>1
      <3>2. CASE n # m
        BY <3>2
      <3> QED
        BY Zenon, <3>1, <3>2
    <2> QED
      BY Zenon, <1>10, <2>3, <2>5, <2>6 DEF Own!Encode, OwnNoRepeats, OwnPlaced
  <1>11. ASSUME NEW c \in Conns, Own!RemoveWorkerEventHandler(c) PROVE OwnIInv'
    BY <1>11
       DEF Own!RemoveWorkerEventHandler, Own!memory, OwnTypes, OwnBorrowing, OwnNoRepeats,
           OwnPlaced, OwnAtMostOne,
                 OwnAtLeastOne, OwnQueued
  <1>12. ASSUME NEW c \in Conns, Own!ClearMessage(c) PROVE OwnIInv'
    <2>1. OwnQueued(c)' = {} /\ \A d \in Conns : d # c => OwnQueued(d)' = OwnQueued(d)
      BY <1>12 DEF Own!ClearMessage, OwnQueued, Own!Range, OwnTypes
    <2>2. OwnQueued(c) \subseteq Own!Msgs
      BY DEF OwnQueued, Own!Range, OwnTypes
    <2>3. dropped' = dropped \union OwnQueued(c)
      BY Zenon, <1>12 DEF Own!ClearMessage, OwnQueued
    <2>4. OwnTypes' /\ OwnBorrowing' /\ OwnNoRepeats'
      BY <1>12, <2>2, <2>3 DEF Own!ClearMessage, Own!conns, OwnTypes, OwnBorrowing, OwnNoRepeats
    <2>5. ASSUME NEW n \in Own!Msgs PROVE OwnAtMostOne(n)' /\ OwnAtLeastOne(n)'
      <3>1. UNCHANGED <<sendCall, sending, freed>>
        BY Zenon, <1>12 DEF Own!ClearMessage
      <3>2. OwnAtMostOne(n) /\ OwnAtLeastOne(n)
        BY Zenon DEF OwnPlaced
      <3>3. CASE n \in OwnQueued(c)
        <4>1. /\ sendCall[n] \notin OwnHolding \union {"idle"} /\ freed[n] = 0
              /\ \A d \in Conns : sending[d] # n /\ (n \in OwnQueued(d) => d = c)
          BY Zenon, <3>2, <3>3 DEF OwnAtMostOne
        <4>2. \A d \in Conns : n \notin OwnQueued(d)'
          BY Zenon, <2>1, <4>1
        <4> QED
          BY <2>3, <3>1, <3>3, <4>1, <4>2 DEF OwnAtMostOne, OwnAtLeastOne
      <3>4. CASE n \notin OwnQueued(c)
        BY Zenon, <2>1, <2>3, <3>1, <3>2, <3>4, OwnElsewhere
      <3> QED
        BY Zenon, <3>3, <3>4
    <2> QED
      BY Zenon, <1>12, <2>4, <2>5 DEF Own!ClearMessage, OwnPlaced
  <1>13. ASSUME NEW c \in Conns, Own!DeleteWorker(c) PROVE OwnIInv'
    <2>1. OwnQueued(c)' = {} /\ \A d \in Conns : d # c => OwnQueued(d)' = OwnQueued(d)
      BY <1>13 DEF Own!DeleteWorker, OwnQueued, Own!Range, OwnTypes
    <2>2. freed' = [n \in Own!Msgs |-> IF n \in OwnQueued(c) THEN 1 ELSE freed[n]]
      BY <1>13
         DEF Own!DeleteWorker, Own!Free, Own!Count, OwnTypes, OwnQueued, OwnPlaced,
             OwnAtMostOne
    <2>3. OwnTypes' /\ OwnBorrowing' /\ OwnNoRepeats'
      BY <1>13, <2>2 DEF Own!DeleteWorker, OwnTypes, OwnBorrowing, OwnNoRepeats
    <2>4. ASSUME NEW n \in Own!Msgs PROVE OwnAtMostOne(n)' /\ OwnAtLeastOne(n)'
      <3>1. UNCHANGED <<sendCall, sending, dropped>>
        BY Zenon, <1>13 DEF Own!DeleteWorker
      <3>2. OwnAtMostOne(n) /\ OwnAtLeastOne(n)
        BY Zenon DEF OwnPlaced
      <3>3. CASE n \in OwnQueued(c)
        <4>1. /\ sendCall[n] \notin OwnHolding \union {"idle"} /\ n \notin dropped
              /\ \A d \in Conns : sending[d] # n /\ (n \in OwnQueued(d) => d = c)
          BY Zenon, <3>2, <3>3 DEF OwnAtMostOne
        <4>2. freed[n]' = 1 /\ \A d \in Conns : n \notin OwnQueued(d)'
          BY Zenon, <2>1, <2>2, <3>3, <4>1
        <4> QED
          BY Zenon, <3>1, <4>1, <4>2 DEF OwnAtMostOne, OwnAtLeastOne
      <3>4. CASE n \notin OwnQueued(c)
        BY Zenon, <2>1, <2>2, <3>1, <3>2, <3>4, OwnElsewhere
      <3> QED
        BY Zenon, <3>3, <3>4
    <2> QED
      BY Zenon, <1>13, <2>3, <2>4 DEF Own!DeleteWorker, OwnPlaced
  <1>14. CASE UNCHANGED Own!vars \/ Own!UseDeleted
    <2>1. UNCHANGED <<sendCall, borrowed, conn, m_bqMessages, sending, freed, dropped, misused>>
      BY Zenon, <1>14 DEF Own!vars, Own!UseDeleted, Own!memory, Own!queues, Own!conns
    <2>2. OwnTypes' /\ OwnNoRepeats' /\ OwnBorrowing'
      BY Zenon, <2>1 DEF OwnTypes, OwnBorrowing, OwnNoRepeats
    <2>3. OwnPlaced'
      BY Zenon, <2>1 DEF OwnPlaced, OwnAtMostOne, OwnAtLeastOne, OwnQueued
    <2> QED
      BY Zenon, <2>1, <2>2, <2>3
  <1> QED
    BY Zenon, <1>1, <1>2, <1>3, <1>4, <1>5, <1>6, <1>7, <1>8, <1>9, <1>10, <1>11, <1>12, <1>13, <1>14
       DEF Own!Next

\* Facts about finite sets.
Sets == INSTANCE FiniteSetTheorems

\* The places of a message, counted.
LEMMA OwnOneOwner == Own!OwnAssumption /\ OwnIInv => Own!OwnedOnce
  <1> SUFFICES ASSUME OwnIInv, NEW m \in Own!Msgs, sendCall[m] # "idle"
               PROVE  Own!Owners(m) + freed[m] + Own!Count(m \in dropped) = 1
    BY Zenon DEF OwnIInv, Own!OwnedOnce
  <1> DEFINE Q == {c \in Conns : m \in Own!Range(m_bqMessages[c])}
             S == {c \in Conns : sending[c] = m}
             P == Own!Count(sendCall[m] \in {"made", "connect", "again", "push", "refused"})
  <1>1. \A c \in Conns : m \in Own!Range(m_bqMessages[c]) <=> m \in OwnQueued(c)
    BY Zenon DEF OwnQueued
  <1>2. OwnAtMostOne(m) /\ OwnAtLeastOne(m)
    BY Zenon DEF OwnIInv, OwnPlaced
  <1>3. Own!Owners(m) = P + Cardinality(Q) + Cardinality(S)
    <2>1. Own!Cardinality(Q) = Cardinality(Q) /\ Own!Cardinality(S) = Cardinality(S)
      BY Zenon DEF Own!Cardinality, Cardinality
    <2> QED
      BY Zenon, <2>1 DEF Own!Owners
  <1>4. \A c \in Conns : Cardinality({c}) = 1
    BY Zenon, Sets!FS_Singleton DEF Sets!Cardinality, Cardinality
  <1>5. Cardinality({}) = 0
    BY Zenon, Sets!FS_EmptySet DEF Sets!Cardinality, Cardinality
  <1> SUFFICES P + Cardinality(Q) + Cardinality(S) + freed[m] + Own!Count(m \in dropped) = 1
    BY Zenon, <1>3
  <1> DEFINE Sum == P + Cardinality(Q) + Cardinality(S) + freed[m] + Own!Count(m \in dropped)
  <1>6. CASE sendCall[m] \in OwnHolding
    <2>1. Q = {} /\ S = {} /\ freed[m] = 0 /\ m \notin dropped
      BY Zenon, <1>1, <1>2, <1>6 DEF OwnAtMostOne
    <2>2. P = 1 /\ Own!Count(m \in dropped) = 0
      BY Zenon, <1>6, <2>1 DEF Own!Count, OwnHolding
    <2>3. Cardinality(Q) = 0 /\ Cardinality(S) = 0
      BY Zenon, <1>5, <2>1
    <2> HIDE DEF P, Q, S
    <2> QED
      BY <2>1, <2>2, <2>3
  <1>7. CASE freed[m] = 1
    <2>1. Q = {} /\ S = {} /\ sendCall[m] \notin OwnHolding /\ m \notin dropped
      BY <1>1, <1>2, <1>7 DEF OwnAtMostOne
    <2>2. P = 0 /\ Own!Count(m \in dropped) = 0
      BY Zenon, <2>1 DEF Own!Count, OwnHolding
    <2>3. Cardinality(Q) = 0 /\ Cardinality(S) = 0
      BY Zenon, <1>5, <2>1
    <2> HIDE DEF P, Q, S
    <2> QED
      BY <1>7, <2>2, <2>3
  <1>8. CASE m \in dropped
    <2>1. Q = {} /\ S = {} /\ sendCall[m] \notin OwnHolding /\ freed[m] = 0
      BY Zenon, <1>1, <1>2, <1>8 DEF OwnAtMostOne
    <2>2. P = 0 /\ Own!Count(m \in dropped) = 1
      BY Zenon, <1>8, <2>1 DEF Own!Count, OwnHolding
    <2>3. Cardinality(Q) = 0 /\ Cardinality(S) = 0
      BY Zenon, <1>5, <2>1
    <2> HIDE DEF P, Q, S
    <2> QED
      BY <2>1, <2>2, <2>3
  <1>9. ASSUME NEW c \in Conns, m \in OwnQueued(c) PROVE Sum = 1
    <2>1. Q = {c} /\ S = {} /\ sendCall[m] \notin OwnHolding /\ freed[m] = 0 /\ m \notin dropped
      BY Zenon, <1>1, <1>2, <1>9 DEF OwnAtMostOne
    <2>2. P = 0 /\ Own!Count(m \in dropped) = 0
      BY Zenon, <2>1 DEF Own!Count, OwnHolding
    <2>3. Cardinality(Q) = 1 /\ Cardinality(S) = 0
      BY Zenon, <1>4, <1>5, <2>1
    <2> HIDE DEF P, Q, S
    <2> QED
      BY <2>1, <2>2, <2>3
  <1>10. ASSUME NEW c \in Conns, sending[c] = m PROVE Sum = 1
    <2>1. Q = {} /\ S = {c} /\ sendCall[m] \notin OwnHolding /\ freed[m] = 0 /\ m \notin dropped
      BY Zenon, <1>1, <1>2, <1>10 DEF OwnAtMostOne
    <2>2. P = 0 /\ Own!Count(m \in dropped) = 0
      BY Zenon, <2>1 DEF Own!Count, OwnHolding
    <2>3. Cardinality(Q) = 0 /\ Cardinality(S) = 1
      BY Zenon, <1>4, <1>5, <2>1
    <2> HIDE DEF P, Q, S
    <2> QED
      BY <2>1, <2>2, <2>3
  <1> QED
    BY Zenon, <1>2, <1>6, <1>7, <1>8, <1>9, <1>10 DEF OwnAtLeastOne

\* A message has one owner who will free it, was freed once or is one the code
\* drops, and is never touched after that (OwnedOnce): SendMessage gives it away
\* only when TryPush accepted it, and Send and the worker's destructor free what
\* they popped.  Nothing is assumed about when a worker is deleted; the claim
\* ends where a deleted worker is used.
THEOREM MessageOwnedOnce == Own!Spec => []OwnedOnce
  <1> USE OwnUse
  <1>1. Own!Init => OwnIInv
    BY Zenon, OwnInitIInv
  <1>2. OwnIInv /\ [Own!Next]_(Own!vars) => OwnIInv'
    BY Zenon, OwnNextIInv
  <1>3. OwnIInv => OwnedOnce
    BY Zenon, OwnOneOwner DEF OwnedOnce
  <1> QED
    BY <1>1, <1>2, <1>3, PTL DEF Own!Spec

=============================================================================
