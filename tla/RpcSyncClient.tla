--------------------------- MODULE RpcSyncClient ----------------------------
(***************************************************************************)
(* ARpcSyncClient (src/src/rpc/abstract-rpc-sync-client.{h,cc}): a caller  *)
(* sends a request and sleeps on its RpcCtx until the response, a broken   *)
(* connection or the timer completes it.                                   *)
(*                                                                         *)
(* Three kinds of threads meet here: the callers (recvMessage), the        *)
(* network threads (onRecvMessage) and the timer thread, which runs the    *)
(* callback s_cb.  Three kinds of locks order them, and each has only one  *)
(* kind of holder across steps, so where that holder is says who holds it: *)
(*   m_slRpcCtxs            network threads, at "unsub", "breaking", "broken" *)
(*   Timer's spin lock      the timer thread, unless it is "idle"          *)
(*   the mutex of a RpcCtx  its caller, at "locked" and "subscribed"       *)
(* A call stands for its thread's call of sendMessage, its message id and  *)
(* its RpcCtx; a ResourcePool never hands out a RpcCtx a second time.      *)
(***************************************************************************)
EXTENDS Naturals, FiniteSets

CONSTANTS
    Calls,       \* numbers, in the order in which a thread makes its calls
    Answered,    \* the calls whose request the server answers
    Peers,
    NetThreads,
    threadOf,    \* the thread that makes a call
    peerOf,      \* the peer a call is sent to
    NoCall,
    MaxBroken    \* bound: connections that break

ASSUME RpcAssumption ==
    /\ Calls \subseteq Nat /\ Answered \subseteq Calls /\ NoCall \notin Calls
    /\ peerOf \in [Calls -> Peers] /\ MaxBroken \in Nat

VARIABLES
    pc,        \* where each call is
    wire,      \* where each call's request or response is
    complete,  \* RpcCtx::complete
    state,     \* RpcCtx::state
    ctxs,      \* the calls in m_hmapRpcCtxs
    peerRpcs,  \* the calls in m_hmapPeerRpcs
    events,    \* the calls whose timer event is subscribed
    timer_ev,  \* the calls whose RpcCtx::timer_ev is set
    firstId,   \* the id s_cb captured: that of the first call
    net,       \* where each network thread is, the call it works on, those to come
    timer,     \* where the timer thread is
    firing,    \* the event whose callback it runs
    brokenCnt

calls == <<pc, complete, state>>
maps == <<ctxs, peerRpcs>>
timing == <<events, timer_ev, firstId, timer, firing>>
vars == <<calls, wire, maps, timing, net, brokenCnt>>

At(where, c, todo) == [at |-> where, cur |-> c, rest |-> todo]
Idle == At("idle", NoCall, {})
Outcomes == {"busy", "internal", "ok", "timeout", "broken"}
Returned(c) == pc[c] \in Outcomes

Init ==
    /\ pc = [c \in Calls |-> "idle"]
    /\ wire = [c \in Calls |-> "none"]
    /\ complete = [c \in Calls |-> FALSE]
    /\ state = [c \in Calls |-> "ok"]
    /\ ctxs = {} /\ peerRpcs = {} /\ events = {} /\ timer_ev = {}
    /\ firstId = NoCall
    /\ net = [h \in NetThreads |-> Idle]
    /\ timer = "idle" /\ firing = NoCall
    /\ brokenCnt = 0

CtxsFree == \A h \in NetThreads : net[h].at \notin {"unsub", "breaking", "broken"}
TimerFree == timer = "idle"
MtxFree(c) == pc[c] \notin {"locked", "subscribed"}

Complete(c, how) ==
    /\ complete' = [complete EXCEPT ![c] = TRUE]
    /\ state' = [state EXCEPT ![c] = how]

----------------------------------------------------------------------------
(* The caller: sendMessage and recvMessage *)

\* SendMessageAsync: a full send queue makes it fail.
Send(c) ==
    /\ pc[c] = "idle"
    /\ \A b \in Calls : threadOf[b] = threadOf[c] /\ b < c => Returned(b)
    /\ \/ pc' = [pc EXCEPT ![c] = "busy"] /\ UNCHANGED wire
       \/ /\ pc' = [pc EXCEPT ![c] = "sent"]
          /\ wire' = [wire EXCEPT ![c] = "request"]
    /\ UNCHANGED <<complete, state, maps, timing, net, brokenCnt>>

Register(c) ==
    /\ pc[c] = "sent" /\ CtxsFree
    /\ pc' = [pc EXCEPT ![c] = "registered"]
    /\ ctxs' = ctxs \union {c}
    /\ peerRpcs' = peerRpcs \union {c}
    /\ UNCHANGED <<complete, state, wire, timing, net, brokenCnt>>

\* The static s_cb is initialised once; then the context's mutex is taken.
Lock(c) ==
    /\ pc[c] = "registered"
    /\ firstId' = IF firstId = NoCall THEN c ELSE firstId
    /\ pc' = [pc EXCEPT ![c] = "locked"]
    /\ UNCHANGED <<complete, state, wire, maps, events, timer_ev, timer, firing, net, brokenCnt>>

\* The timer refuses a second event with the same callback at the same time;
\* then recvMessage throws, and the call stays registered.
Subscribe(c) ==
    /\ pc[c] = "locked" /\ TimerFree
    /\ \/ /\ events' = events \union {c}
          /\ pc' = [pc EXCEPT ![c] = "subscribed"]
       \/ /\ events # {} /\ UNCHANGED events
          /\ pc' = [pc EXCEPT ![c] = "internal"]
    /\ UNCHANGED <<complete, state, wire, maps, timer_ev, firstId, timer, firing, net, brokenCnt>>

\* Store the event's id, and wait unless the call is complete already.
Await(c) ==
    /\ pc[c] = "subscribed"
    /\ timer_ev' = timer_ev \union {c}
    /\ pc' = [pc EXCEPT ![c] = IF complete[c] THEN state[c] ELSE "waiting"]
    /\ UNCHANGED <<complete, state, wire, maps, events, firstId, timer, firing, net, brokenCnt>>

\* complete is set under the mutex before the notification.
Wake(c) ==
    /\ pc[c] = "waiting" /\ complete[c]
    /\ pc' = [pc EXCEPT ![c] = state[c]]
    /\ UNCHANGED <<complete, state, wire, maps, timing, net, brokenCnt>>

sendMessage(c) == Send(c) \/ Register(c) \/ Lock(c) \/ Subscribe(c) \/ Await(c) \/ Wake(c)

\* The server answers, at any time.
Answer(c) ==
    /\ wire[c] = "request" /\ c \in Answered
    /\ wire' = [wire EXCEPT ![c] = "response"]
    /\ UNCHANGED <<calls, maps, timing, net, brokenCnt>>

----------------------------------------------------------------------------
(* onRecvMessage *)

\* A response for a call that is not registered is dropped.
RecvMessage(h, c) ==
    /\ net[h].at = "idle" /\ wire[c] = "response" /\ CtxsFree
    /\ wire' = [wire EXCEPT ![c] = "received"]
    /\ net' = [net EXCEPT ![h] = IF c \in ctxs THEN At("unsub", c, {}) ELSE Idle]
    /\ UNCHANGED <<calls, maps, timing, brokenCnt>>

\* UnsubscribeEvent returns at once on an id that is not set.
UnsubscribeEvent(c) ==
    /\ TimerFree \/ c \notin timer_ev
    /\ events' = IF c \in timer_ev THEN events \ {c} ELSE events
    /\ UNCHANGED <<timer_ev, firstId, timer, firing>>

\* A mutant of RecvUnsub: the call is not erased from the maps.
RecvUnsubKeeping(h) ==
    /\ net[h].at = "unsub"
    /\ UnsubscribeEvent(net[h].cur)
    /\ net' = [net EXCEPT ![h] = At("complete", net[h].cur, {})]
    /\ UNCHANGED <<calls, wire, maps, brokenCnt>>

RecvUnsub(h) ==
    /\ net[h].at = "unsub"
    /\ UnsubscribeEvent(net[h].cur)
    /\ ctxs' = ctxs \ {net[h].cur} /\ peerRpcs' = peerRpcs \ {net[h].cur}
    /\ net' = [net EXCEPT ![h] = At("complete", net[h].cur, {})]
    /\ UNCHANGED <<calls, wire, brokenCnt>>

RecvComplete(h) ==
    /\ net[h].at = "complete" /\ MtxFree(net[h].cur)
    /\ Complete(net[h].cur, state[net[h].cur])
    /\ net' = [net EXCEPT ![h] = Idle]
    /\ UNCHANGED <<pc, wire, maps, timing, brokenCnt>>

\* A connection broke: all calls to that peer are completed, in any order,
\* under m_slRpcCtxs.
RecvBroken(h, p) ==
    LET pending == {c \in peerRpcs : peerOf[c] = p} IN
    /\ net[h].at = "idle" /\ CtxsFree /\ brokenCnt < MaxBroken
    /\ brokenCnt' = brokenCnt + 1
    /\ net' = [net EXCEPT ![h] = IF pending = {} THEN Idle ELSE At("breaking", NoCall, pending)]
    /\ UNCHANGED <<calls, wire, maps, timing>>

BreakUnsub(h) ==
    \E c \in net[h].rest :
        /\ net[h].at = "breaking"
        /\ ctxs' = ctxs \ {c}
        /\ UnsubscribeEvent(c)
        /\ net' = [net EXCEPT ![h] = At("broken", c, net[h].rest \ {c})]
        /\ UNCHANGED <<calls, wire, peerRpcs, brokenCnt>>

BreakComplete(h) ==
    LET c == net[h].cur
        last == net[h].rest = {} IN
    /\ net[h].at = "broken" /\ MtxFree(c)
    /\ Complete(c, "broken")
    /\ net' = [net EXCEPT ![h] = IF last THEN Idle ELSE At("breaking", NoCall, net[h].rest)]
    /\ peerRpcs' = IF last THEN {b \in peerRpcs : peerOf[b] # peerOf[c]} ELSE peerRpcs
    /\ UNCHANGED <<pc, wire, ctxs, timing, brokenCnt>>

onRecvMessage(h) ==
    \/ \E c \in Calls : RecvMessage(h, c)
    \/ RecvUnsub(h) \/ RecvComplete(h) \/ BreakUnsub(h) \/ BreakComplete(h)

----------------------------------------------------------------------------
(* The timer thread, running s_cb under its spin lock *)

TimerFire ==
    /\ timer \in {"idle", "drain"}
    /\ \E c \in events : firing' = c
    /\ timer' = "find"
    /\ UNCHANGED <<calls, wire, maps, events, timer_ev, firstId, net, brokenCnt>>

\* Erase the event whose callback has returned.
EraseEvent == timer' = "drain" /\ events' = events \ {firing} /\ firing' = NoCall

\* Mutants of TimerFind: the call stays in one of the maps.
TimerFindKeepPeer ==
    /\ timer = "find" /\ CtxsFree
    /\ \/ firstId \notin ctxs /\ EraseEvent /\ UNCHANGED ctxs
       \/ /\ firstId \in ctxs
          /\ ctxs' = ctxs \ {firstId}
          /\ timer' = "mark" /\ UNCHANGED <<events, firing>>
    /\ UNCHANGED <<calls, wire, peerRpcs, timer_ev, firstId, net, brokenCnt>>

TimerFindKeep ==
    /\ timer = "find" /\ CtxsFree
    /\ \/ firstId \notin ctxs /\ EraseEvent
       \/ firstId \in ctxs /\ timer' = "mark" /\ UNCHANGED <<events, firing>>
    /\ UNCHANGED <<calls, wire, maps, timer_ev, firstId, net, brokenCnt>>

\* s_cb looks for the call with the id it captured.
TimerFind ==
    /\ timer = "find" /\ CtxsFree
    /\ \/ firstId \notin ctxs /\ EraseEvent /\ UNCHANGED maps
       \/ /\ firstId \in ctxs
          /\ ctxs' = ctxs \ {firstId} /\ peerRpcs' = peerRpcs \ {firstId}
          /\ timer' = "mark" /\ UNCHANGED <<events, firing>>
    /\ UNCHANGED <<calls, wire, timer_ev, firstId, net, brokenCnt>>

TimerMark ==
    /\ timer = "mark" /\ MtxFree(firstId)
    /\ Complete(firstId, "timeout")
    /\ EraseEvent
    /\ UNCHANGED <<pc, wire, maps, timer_ev, firstId, net, brokenCnt>>

TimerUnlock ==
    /\ timer = "drain"
    /\ timer' = "idle"
    /\ UNCHANGED <<calls, wire, maps, events, timer_ev, firstId, firing, net, brokenCnt>>

timerThread == TimerFire \/ TimerFind \/ TimerMark \/ TimerUnlock

Next ==
    \/ \E c \in Calls : sendMessage(c) \/ Answer(c)
    \/ \E h \in NetThreads : onRecvMessage(h) \/ \E p \in Peers : RecvBroken(h, p)
    \/ timerThread

Spec == Init /\ [][Next]_vars

\* Every thread is scheduled, and every subscribed event is due eventually.
FairSpec ==
    /\ Spec
    /\ \A c \in Calls : WF_vars(sendMessage(c))
    /\ \A h \in NetThreads : WF_vars(onRecvMessage(h))
    /\ WF_vars(timerThread)

----------------------------------------------------------------------------
\* Types; s_cb has captured an id before it runs.
TypeOK ==
    /\ pc \in [Calls -> Outcomes \union {"idle", "sent", "registered", "locked",
                                         "subscribed", "waiting"}]
    /\ wire \in [Calls -> {"none", "request", "response", "received"}]
    /\ complete \in [Calls -> BOOLEAN]
    /\ state \in [Calls -> {"ok", "timeout", "broken"}]
    /\ ctxs \subseteq Calls /\ peerRpcs \subseteq Calls
    /\ events \subseteq Calls /\ timer_ev \subseteq Calls
    /\ firstId \in Calls \union {NoCall}
    /\ net \in [NetThreads -> [at : {"idle", "unsub", "complete", "breaking", "broken"},
                               cur : Calls \union {NoCall}, rest : SUBSET Calls]]
    /\ timer \in {"idle", "drain", "find", "mark"} /\ firing \in Calls \union {NoCall}
    /\ brokenCnt \in Nat
    /\ timer \in {"find", "mark"} => firstId \in Calls

\* Somebody has taken call c out of the map in order to complete it.
Taken(c) ==
    \/ \E h \in NetThreads : net[h].at \in {"complete", "broken"} /\ net[h].cur = c
    \/ timer = "mark" /\ firstId = c

\* The two maps list the same calls whenever m_slRpcCtxs is free, although the
\* response, the broken connection and the timer each update both.
MapsAgree == CtxsFree => ctxs = peerRpcs

\* What completed a call is never overwritten: of a response, a broken
\* connection and a timeout that race, exactly one completes it.
OutcomeFinal ==
    [][\A c \in Calls : complete[c] => complete'[c] /\ state'[c] = state[c]]_vars

\* Once a call has returned its RpcCtx to the pool, nobody finds it or is about
\* to complete it.
ReturnedGone ==
    \A c \in Calls : pc[c] \in {"ok", "timeout", "broken"} => c \notin ctxs /\ ~Taken(c)

\* The calls are filed as onRecvMessage, broken_peer_link and the timer's
\* callback need them: in both maps or in neither whenever the lock is free, and
\* in neither, with nobody about to complete them, once they have returned.
CallsFiled == MapsAgree /\ ReturnedGone

\* The callback given to the timer is instantaneous (timer.h:22); at the least
\* it ends.
CallbackEnds == (timer \in {"find", "mark"}) ~> (timer \in {"idle", "drain"})

=============================================================================
