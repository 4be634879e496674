------------------------------ MODULE NetSend ------------------------------
(***************************************************************************)
(* How a message leaves: ANetStackMessageWorker::SendMessage hands it to   *)
(* the IO thread of an EventWorker, whose loop PosixEventManager::         *)
(* worker_loop drains the connection's queue into its socket.              *)
(*                                                                         *)
(* One connection is modelled from the moment UniqueWorkerManager shows    *)
(* its handler to the senders, so its registration with an EventWorker     *)
(* (PosixEventManager::AddEvent) is still to come.  Its deletion is the    *)
(* subject of HandlerLife.  epoll, the pipe and the kernel's send buffer   *)
(* are external: epoll is edge triggered, an edge is reported only while   *)
(* the descriptor is still ready, and a write refused for lack of space    *)
(* is followed by an edge once there is space.  A socket that failed one   *)
(* write fails every later one.                                            *)
(***************************************************************************)
EXTENDS Integers, Sequences

CONSTANTS
    Msgs,     \* the messages; each is sent by a thread of its own
    NoMsg,    \* no message
    MsgLen,   \* bytes of an encoded message
    SockCap,  \* bytes of the kernel's send buffer
    PipeCap   \* bytes the notify pipe can hold

ASSUME SendAssumption ==
    /\ NoMsg \notin Msgs
    /\ MsgLen \in Nat \ {0}
    /\ SockCap \in Nat \ {0}
    /\ PipeCap \in Nat \ {0}

VARIABLES
    m_bqMessages,       \* the connection's queue
    at,                 \* where SendMessage(m) stands
    adder,              \* where AddEvent stands
    m_pOwnEvWorker,     \* the handler knows its EventWorker
    m_lAddEpExtEvents,  \* the handler waits to be registered
    m_lRwOpExtEvents,   \* number of external write events
    pipe,               \* bytes in the notify pipe
    pipeEdge,           \* epoll holds an edge of the pipe
    registered,         \* the socket is in the epoll set
    sockEdge,           \* epoll holds an edge of the socket
    nospace,            \* the kernel owes an edge when there is space
    used,               \* bytes in the kernel's send buffer
    io,                 \* the IO thread: where it is, events and Sends to do
    inSend,             \* the IO thread is inside Send()
    buffer,             \* m_pSendingBuffer: a message and the bytes left
    sent,               \* messages given to the kernel, in that order
    dropped,            \* messages of which a write failed, in that order
    pushed,             \* messages accepted by TryPush, in that order
    crashed             \* a null m_pOwnEvWorker, or an exception nobody caught

NoBuffer == [msg |-> NoMsg, left |-> 0]

worker == <<m_bqMessages, pushed>>
events == <<m_lAddEpExtEvents, m_lRwOpExtEvents, pipe, pipeEdge>>
sock == <<registered, sockEdge, nospace, used>>
sender == <<at, adder, m_pOwnEvWorker, crashed>>
loop == <<io, inSend, buffer, sent, dropped>>
vars == <<worker, events, sock, sender, loop>>

Init ==
    /\ m_bqMessages = <<>> /\ pushed = <<>> /\ sent = <<>> /\ dropped = <<>>
    /\ at = [m \in Msgs |-> "idle"]
    /\ adder = "own" /\ m_pOwnEvWorker = FALSE
    /\ m_lAddEpExtEvents = FALSE /\ m_lRwOpExtEvents = 0
    /\ pipe = 0 /\ pipeEdge = FALSE
    /\ registered = FALSE /\ sockEdge = FALSE /\ nospace = FALSE /\ used = 0
    /\ io = [at |-> "wait", evs |-> {}, todo |-> 0]
    /\ inSend = FALSE
    /\ buffer = NoBuffer
    /\ crashed = FALSE

----------------------------------------------------------------------------
(***************************************************************************)
(* SendMessage.  The size is read before, and apart from, the push; only a *)
(* sender that saw an empty queue queues a write event and wakes the loop. *)
(***************************************************************************)
At(m, here, there) == at[m] = here /\ at' = [at EXCEPT ![m] = there]

\* previousSize is 0 for a sender "first", positive for one "later".
Size(m) ==
    /\ At(m, "idle", IF m_bqMessages = <<>> THEN "first" ELSE "later")
    /\ UNCHANGED <<worker, events, sock, adder, m_pOwnEvWorker, crashed, loop>>

TryPush(m) ==
    /\ At(m, "first", "event") \/ At(m, "later", "done")
    /\ m_bqMessages' = Append(m_bqMessages, m)
    /\ pushed' = Append(pushed, m)
    /\ UNCHANGED <<events, sock, adder, m_pOwnEvWorker, crashed, loop>>

AddExternalRWOpEvent(m) ==
    /\ \/ /\ m_pOwnEvWorker
          /\ At(m, "event", "wakeup")
          /\ m_lRwOpExtEvents' = m_lRwOpExtEvents + 1
          /\ UNCHANGED crashed
       \/ /\ ~m_pOwnEvWorker
          /\ At(m, "event", "done")
          /\ crashed' = TRUE
          /\ UNCHANGED m_lRwOpExtEvents
    /\ UNCHANGED <<worker, m_lAddEpExtEvents, pipe, pipeEdge, sock, adder, m_pOwnEvWorker, loop>>

\* EventWorker::Wakeup: one byte into the pipe.  The pipe does not block, and
\* a full one makes Wakeup throw: no thread of a node catches the exception,
\* another caller may.
Notify ==
    /\ pipe < PipeCap
    /\ pipe' = pipe + 1 /\ pipeEdge' = TRUE
    /\ UNCHANGED crashed

NotifyThrows ==
    /\ pipe = PipeCap
    /\ crashed' \in BOOLEAN
    /\ UNCHANGED <<pipe, pipeEdge>>

\* A mutant of Wakeup: the byte is written only by the first to queue an event.
WakeupFirst(m) ==
    /\ At(m, "wakeup", "done")
    /\ IF m_lRwOpExtEvents = 1 THEN Notify ELSE UNCHANGED <<pipe, pipeEdge, crashed>>
    /\ UNCHANGED <<worker, m_lAddEpExtEvents, m_lRwOpExtEvents, sock, adder, m_pOwnEvWorker, loop>>

Wakeup(m) ==
    /\ \/ At(m, "wakeup", "done") /\ Notify
       \/ At(m, "wakeup", "threw") /\ NotifyThrows
    /\ UNCHANGED <<worker, m_lAddEpExtEvents, m_lRwOpExtEvents, sock, adder, m_pOwnEvWorker, loop>>

SendMessage(m) == Size(m) \/ TryPush(m) \/ AddExternalRWOpEvent(m) \/ Wakeup(m)

(***************************************************************************)
(* PosixEventManager::AddEvent, called by the thread that shook hands.     *)
(***************************************************************************)
SetOwnWorker ==
    /\ adder = "own" /\ adder' = "add"
    /\ m_pOwnEvWorker' = TRUE
    /\ UNCHANGED <<worker, events, sock, at, crashed, loop>>

AddExternalEpAddEvent ==
    /\ adder = "add" /\ adder' = "wakeup"
    /\ m_lAddEpExtEvents' = TRUE
    /\ UNCHANGED <<worker, m_lRwOpExtEvents, pipe, pipeEdge, sock, at, m_pOwnEvWorker, crashed, loop>>

AddWakeup ==
    /\ adder = "wakeup"
    /\ \/ adder' = "done" /\ Notify
       \/ adder' = "threw" /\ NotifyThrows
    /\ UNCHANGED <<worker, m_lAddEpExtEvents, m_lRwOpExtEvents, sock, at, m_pOwnEvWorker, loop>>

AddEvent == SetOwnWorker \/ AddExternalEpAddEvent \/ AddWakeup

----------------------------------------------------------------------------
(***************************************************************************)
(* worker_loop: epoll's events, then the external write events, then the   *)
(* registrations.                                                          *)
(***************************************************************************)
Writable == used < SockCap

EventWait ==
    /\ io.at = "wait"
    /\ (pipeEdge /\ pipe > 0) \/ sockEdge
    /\ io' = [io EXCEPT !.at = "internal",
                        !.evs = {e \in {"pipe", "sock"} :
                                   \/ e = "pipe" /\ pipeEdge /\ pipe > 0
                                   \/ e = "sock" /\ sockEdge /\ Writable}]
    /\ pipeEdge' = FALSE /\ sockEdge' = FALSE
    /\ UNCHANGED <<worker, m_lAddEpExtEvents, m_lRwOpExtEvents, pipe, registered,
                   nospace, used, sender, inSend, buffer, sent, dropped>>

\* PosixLocalReadEventHandler::HandleReadEvent reads until EAGAIN.
HandleReadEvent ==
    /\ io.at = "internal" /\ "pipe" \in io.evs /\ ~inSend
    /\ io' = [io EXCEPT !.evs = @ \ {"pipe"}]
    /\ pipe' = 0
    /\ UNCHANGED <<worker, m_lAddEpExtEvents, m_lRwOpExtEvents, pipeEdge, sock, sender,
                   inSend, buffer, sent, dropped>>

HandleWriteEvent ==
    /\ ~inSend /\ inSend' = TRUE
    /\ \/ /\ io.at = "internal" /\ "sock" \in io.evs
          /\ io' = [io EXCEPT !.evs = @ \ {"sock"}]
       \/ /\ io.at = "external" /\ io.todo > 0
          /\ io' = [io EXCEPT !.todo = @ - 1]
    /\ UNCHANGED <<worker, events, sock, sender, buffer, sent, dropped>>

GetExternalRWOpEvents ==
    /\ io.at = "internal" /\ io.evs = {} /\ ~inSend
    /\ io' = [io EXCEPT !.at = "external", !.todo = m_lRwOpExtEvents]
    /\ m_lRwOpExtEvents' = 0
    /\ UNCHANGED <<worker, m_lAddEpExtEvents, pipe, pipeEdge, sock, sender, inSend,
                   buffer, sent, dropped>>

\* Registering the socket reports it at once if it is already writable.
GetExternalEpAddEvents ==
    /\ io.at = "external" /\ io.todo = 0 /\ ~inSend
    /\ io' = [io EXCEPT !.at = "wait"]
    /\ m_lAddEpExtEvents' = FALSE
    /\ registered' = (registered \/ m_lAddEpExtEvents)
    /\ sockEdge' = (sockEdge \/ (m_lAddEpExtEvents /\ Writable))
    /\ UNCHANGED <<worker, m_lRwOpExtEvents, pipe, pipeEdge, nospace, used, sender,
                   inSend, buffer, sent, dropped>>

(***************************************************************************)
(* PosixTcpNetStackWorker::Send: writes what is left of the current buffer *)
(* or takes the next message, until the socket refuses or the queue is     *)
(* empty.                                                                  *)
(***************************************************************************)
Sending == inSend /\ buffer.left > 0

Least(a, b) == IF a < b THEN a ELSE b

SendWrite ==
    /\ Sending /\ Writable /\ dropped = <<>>
    /\ LET n == Least(buffer.left, SockCap - used)
       IN /\ used' = used + n
          /\ IF n = buffer.left
             THEN /\ buffer' = NoBuffer
                  /\ sent' = Append(sent, buffer.msg)
             ELSE /\ buffer' = [buffer EXCEPT !.left = @ - n]
                  /\ UNCHANGED sent
    /\ UNCHANGED <<worker, events, registered, sockEdge, nospace, sender, io, inSend, dropped>>

\* A mutant of SendAgain: the refused rest of the message is dropped.
SendAgainDrop ==
    /\ Sending /\ ~Writable /\ dropped = <<>>
    /\ inSend' = FALSE /\ nospace' = TRUE
    /\ buffer' = NoBuffer
    /\ UNCHANGED <<worker, events, registered, sockEdge, used, sender, io, sent, dropped>>

\* A mutant of SendAgain: the loop leaves before the socket has refused.
SendAgainEarly ==
    /\ Sending /\ buffer.left < MsgLen /\ dropped = <<>>
    /\ inSend' = FALSE /\ nospace' = ~Writable
    /\ UNCHANGED <<worker, events, registered, sockEdge, used, sender, io, buffer, sent, dropped>>

SendAgain ==
    /\ Sending /\ ~Writable /\ dropped = <<>>
    /\ inSend' = FALSE /\ nospace' = TRUE
    /\ UNCHANGED <<worker, events, registered, sockEdge, used, sender, io, buffer, sent, dropped>>

\* The write fails, or the peer has closed: the rest of the message is dropped,
\* and the handler is given up (HandlerLife's on_finish), though senders that
\* have it still push, and the events at hand are still processed.
SendBreaks ==
    /\ Sending
    /\ inSend' = FALSE
    /\ buffer' = NoBuffer
    /\ dropped' = Append(dropped, buffer.msg)
    /\ UNCHANGED <<worker, events, sock, sender, io, sent>>

SendPop ==
    /\ inSend /\ buffer.left = 0
    /\ \/ /\ m_bqMessages # <<>>
          /\ buffer' = [msg |-> Head(m_bqMessages), left |-> MsgLen]
          /\ m_bqMessages' = Tail(m_bqMessages)
          /\ UNCHANGED inSend
       \/ /\ m_bqMessages = <<>>
          /\ inSend' = FALSE
          /\ UNCHANGED <<buffer, m_bqMessages>>
    /\ UNCHANGED <<pushed, events, sock, sender, io, sent, dropped>>

Send == SendWrite \/ SendAgain \/ SendBreaks \/ SendPop

worker_loop ==
    \/ EventWait \/ HandleReadEvent \/ HandleWriteEvent
    \/ GetExternalRWOpEvents \/ GetExternalEpAddEvents \/ Send

----------------------------------------------------------------------------
\* External: the network takes the bytes of the send buffer.
Transmit ==
    /\ used > 0 /\ used' = 0
    /\ nospace' = FALSE
    /\ sockEdge' = (sockEdge \/ (registered /\ nospace))
    /\ UNCHANGED <<worker, events, registered, sender, loop>>

\* External: data of the peer arrives; its edge reports writability as well.
PeerData ==
    /\ registered /\ sockEdge' = TRUE
    /\ UNCHANGED <<worker, events, registered, nospace, used, sender, loop>>

Next ==
    /\ ~crashed
    /\ \/ \E m \in Msgs : SendMessage(m)
       \/ AddEvent \/ worker_loop \/ Transmit \/ PeerData

Spec == Init /\ [][Next]_vars

(***************************************************************************)
(* The senders, the registering thread and the IO thread run on, and the   *)
(* network transmits; nothing makes the peer send.                         *)
(***************************************************************************)
Fairness ==
    /\ \A m \in Msgs : WF_vars(~crashed /\ SendMessage(m))
    /\ WF_vars(~crashed /\ AddEvent)
    /\ WF_vars(~crashed /\ worker_loop)
    /\ WF_vars(~crashed /\ Transmit)

FairSpec == Spec /\ Fairness

----------------------------------------------------------------------------
FlagsOK ==
    /\ m_pOwnEvWorker \in BOOLEAN /\ crashed \in BOOLEAN
    /\ m_lAddEpExtEvents \in BOOLEAN /\ pipeEdge \in BOOLEAN
    /\ registered \in BOOLEAN /\ sockEdge \in BOOLEAN /\ nospace \in BOOLEAN
    /\ inSend \in BOOLEAN

DataOK ==
    /\ m_bqMessages \in Seq(Msgs) /\ pushed \in Seq(Msgs) /\ sent \in Seq(Msgs)
    /\ dropped \in Seq(Msgs)
    /\ at \in [Msgs -> {"idle", "first", "later", "event", "wakeup", "threw", "done"}]
    /\ adder \in {"own", "add", "wakeup", "threw", "done"}
    /\ m_lRwOpExtEvents \in Nat
    /\ pipe \in 0 .. PipeCap
    /\ used \in 0 .. SockCap
    /\ io \in [at : {"wait", "internal", "external"}, evs : SUBSET {"pipe", "sock"},
               todo : Nat]
    /\ buffer \in [msg : Msgs, left : 1 .. MsgLen] \union {NoBuffer}

\* The types of the state of SendMessage, EventWorker and Send.
TypeOK == FlagsOK /\ DataOK

Current == IF buffer.left = 0 THEN <<>> ELSE <<buffer.msg>>

\* What Send has written, what failed, what it is writing and what is queued
\* are, in this order, exactly the messages TryPush accepted: whatever the
\* partial writes, none is lost, repeated or overtaken before a write failed,
\* and one message is lost with each write that failed.
FIFO == pushed = sent \o dropped \o Current \o m_bqMessages

\* While the IO thread sleeps in EventWait, an external write event or a
\* registration is announced by a byte that will wake it, or its thread is
\* about to write that byte: AddExternal... comes before Wakeup, and a pipe
\* too full for the byte holds bytes that will wake the loop.
EventsAnnounced ==
    io.at = "wait" =>
      /\ m_lRwOpExtEvents > 0 => (pipe > 0 /\ pipeEdge) \/ \E m \in Msgs : at[m] = "wakeup"
      /\ m_lAddEpExtEvents => (pipe > 0 /\ pipeEdge) \/ adder = "wakeup"

\* A message whose writing has begun is never left behind a sleeping IO
\* thread: the kernel refused it and owes an edge, or the edge is there.
BegunResumes ==
    io.at = "wait" /\ buffer.left > 0 => nospace \/ sockEdge \/ ~registered

\* Every external write event and every registration is served, also one
\* whose Wakeup threw.
EventsServed ==
    /\ m_lRwOpExtEvents > 0 ~> m_lRwOpExtEvents = 0 \/ crashed
    /\ m_lAddEpExtEvents ~> registered \/ crashed

\* "Sends the message. Triggers the message event that drives the sending"
\* (net-stack-msg-worker.h): a message that was accepted is written, unless
\* its sender found the handler without an EventWorker or a write failed.
Driven == \A m \in Msgs : at[m] \in {"event", "wakeup", "done"} ~>
                            crashed \/ dropped # <<>> \/ \E i \in 1 .. Len(sent) : sent[i] = m
============================================================================
