------------------------------ MODULE MsgOwner ------------------------------
(***************************************************************************)
(* Who frees an outgoing message.  NBSocketService::SendMessage takes it   *)
(* over if it returns true and leaves it to the caller if it returns false *)
(* (nb-socket-service.h).  Callers are ARpcClient::SendMessageAsync, with  *)
(* a request, and RpcServer::proc_msg, with a response.  A message taken   *)
(* over is in the queue of a connection, where the IO thread, Disconnect,  *)
(* on_finish and the destructor of the connection's worker find it.        *)
(*                                                                         *)
(* The connections are those to one peer, one after the other; payloads    *)
(* are within the limits Encode tests (Wire).  The reference count of a    *)
(* handler does not keep its worker (HandlerLife), so the IO thread may    *)
(* delete one at any time, borrowed or managed as it may be.  What a       *)
(* thread then does with the deleted worker is undefined and ends the      *)
(* behaviour.                                                              *)
(***************************************************************************)
EXTENDS Naturals, Sequences, FiniteSets, Functions

CONSTANTS
    Requests,   \* messages sent by SendMessageAsync
    Responses,  \* messages sent by proc_msg
    NoMsg,
    Conns,      \* connections ever made to the peer
    NoConn

Msgs == Requests \union Responses

\* Distinct names for what is missing.
OwnAssumption == NoMsg \notin Msgs /\ NoConn \notin Conns

VARIABLES
    call,          \* where the call that sends each message stands
    borrowed,      \* the connection it holds a reference to
    conn,          \* each connection: "none", "up" in the manager, "removed"
    deleted,       \* connections whose worker was deleted
    m_bqMessages,  \* the queue of each connection
    sending,       \* the message Send has popped and not yet freed
    freed,         \* how often each message was freed
    dropped,       \* messages nobody will free
    misused,       \* a freed message was touched
    undefined      \* a deleted worker was used

memory == <<freed, dropped, misused>>
conns == <<conn, deleted, undefined>>
queues == <<conns, m_bqMessages, sending>>
vars == <<call, borrowed, queues, memory>>

Init ==
    /\ call = [m \in Msgs |-> "idle"]
    /\ borrowed = [m \in Msgs |-> NoConn]
    /\ conn = [c \in Conns |-> "none"] /\ deleted = {} /\ undefined = FALSE
    /\ m_bqMessages = [c \in Conns |-> <<>>]
    /\ sending = [c \in Conns |-> NoMsg]
    /\ freed = [m \in Msgs |-> 0]
    /\ dropped = {}
    /\ misused = FALSE

\* What the manager holds for the peer: no connection or one.
managed == {c \in Conns : conn[c] = "up"}

Count(b) == IF b THEN 1 ELSE 0
Free(S) == freed' = [m \in Msgs |-> freed[m] + Count(m \in S)]
Touch(m) == misused' = (misused \/ freed[m] > 0)
CallAt(m, here, there) == call[m] = here /\ call' = [call EXCEPT ![m] = there]

----------------------------------------------------------------------------
(***************************************************************************)
(* The caller, up to SendMessage.                                          *)
(***************************************************************************)
\* new RpcRequest or new RpcResponse; the id of a request is read at once.
New(m) ==
    /\ CallAt(m, "idle", "made")
    /\ UNCHANGED <<borrowed, queues, memory>>

\* SendMessage finds the service stopped.
Stopped(m) ==
    /\ CallAt(m, "made", "refused")
    /\ UNCHANGED <<borrowed, queues, memory>>

\* The first and, after connect, the second look for a handler.
GetWorkerEventHandlerWithRef(m) ==
    /\ call[m] \in {"made", "again"}
    /\ IF managed # {}
       THEN /\ \E c \in managed \ deleted : borrowed' = [borrowed EXCEPT ![m] = c]
            /\ call' = [call EXCEPT ![m] = "push"]
       ELSE /\ call' = [call EXCEPT ![m] = IF @ = "made" THEN "connect" ELSE "refused"]
            /\ UNCHANGED borrowed
    /\ UNCHANGED <<queues, memory>>

\* connect is true if somebody else connected meanwhile, or if it succeeds.
connect(m) ==
    /\ call[m] = "connect"
    /\ \/ managed # {} /\ call' = [call EXCEPT ![m] = "again"] /\ UNCHANGED conn
       \/ /\ managed = {} /\ call' = [call EXCEPT ![m] = "again"]
          /\ \E c \in Conns : conn[c] = "none" /\ conn' = [conn EXCEPT ![c] = "up"]
       \/ call' = [call EXCEPT ![m] = "refused"] /\ UNCHANGED conn
    /\ UNCHANGED <<borrowed, deleted, undefined, m_bqMessages, sending, memory>>

\* ANetStackMessageWorker::SendMessage: the queue has no limit, so TryPush
\* succeeds, also on a connection that was removed meanwhile.
SendMessage(m) ==
    /\ CallAt(m, "push", "release")
    /\ borrowed[m] \notin deleted
    /\ m_bqMessages' = [m_bqMessages EXCEPT ![borrowed[m]] = Append(@, m)]
    /\ UNCHANGED <<borrowed, conns, sending, memory>>

\* handler->Release(), and SendMessage returns true.
Release(m) ==
    /\ CallAt(m, "release", "accepted")
    /\ borrowed[m] \notin deleted
    /\ borrowed' = [borrowed EXCEPT ![m] = NoConn]
    /\ UNCHANGED <<queues, memory>>

\* A mutant of Accepted: the id is read from the message after it was sent.
AcceptedReadingId(m) ==
    /\ CallAt(m, "accepted", "done")
    /\ Touch(m)
    /\ UNCHANGED <<borrowed, queues, freed, dropped>>

\* SendMessage returned true: the result is put together from copies.
Accepted(m) ==
    /\ CallAt(m, "accepted", "done")
    /\ UNCHANGED <<borrowed, queues, memory>>

\* SendMessage returned false: SendMessageAsync deletes the request; proc_msg
\* logs the response's peer and forgets the response.
Refused(m) ==
    /\ CallAt(m, "refused", "done")
    /\ Touch(m)
    /\ \/ m \in Requests /\ Free({m}) /\ UNCHANGED dropped
       \/ m \in Responses /\ dropped' = dropped \union {m} /\ UNCHANGED freed
    /\ UNCHANGED <<borrowed, queues>>

----------------------------------------------------------------------------
(***************************************************************************)
(* The connection.                                                         *)
(***************************************************************************)
\* PosixTcpNetStackWorker::Send, in the IO thread.
TryPop(c) ==
    /\ conn[c] # "none" /\ c \notin deleted /\ sending[c] = NoMsg /\ m_bqMessages[c] # <<>>
    /\ sending' = [sending EXCEPT ![c] = Head(m_bqMessages[c])]
    /\ m_bqMessages' = [m_bqMessages EXCEPT ![c] = Tail(@)]
    /\ UNCHANGED <<call, borrowed, conns, memory>>

Encode(c) ==
    /\ sending[c] # NoMsg
    /\ Touch(sending[c])
    /\ Free({sending[c]})
    /\ sending' = [sending EXCEPT ![c] = NoMsg]
    /\ UNCHANGED <<call, borrowed, conns, m_bqMessages, dropped>>

\* Disconnect or on_finish takes the handler out of the manager; only one of
\* them can.
RemoveWorkerEventHandler(c) ==
    /\ conn[c] = "up"
    /\ conn' = [conn EXCEPT ![c] = "removed"]
    /\ UNCHANGED <<call, borrowed, deleted, undefined, m_bqMessages, sending, memory>>

\* A mutant of ClearMessage: the messages are deleted and stay in the queue.
ClearMessageKeeping(c) ==
    /\ conn[c] = "removed" /\ c \notin deleted
    /\ Free(Range(m_bqMessages[c]))
    /\ UNCHANGED <<call, borrowed, queues, dropped, misused>>

\* m_bqMessages->Clear(), which pops pointers and deletes nothing.  on_finish
\* clears the handler that failed even when it removed another one with the
\* same address, so a worker may be cleared twice.
ClearMessage(c) ==
    /\ conn[c] = "removed" /\ c \notin deleted
    /\ dropped' = dropped \union Range(m_bqMessages[c])
    /\ m_bqMessages' = [m_bqMessages EXCEPT ![c] = <<>>]
    /\ UNCHANGED <<call, borrowed, conns, sending, freed, misused>>

\* The IO thread deletes a handler, and with it the worker, whose destructor
\* deletes what is in the queue.
DeleteWorker(c) ==
    /\ conn[c] # "none" /\ c \notin deleted /\ sending[c] = NoMsg
    /\ deleted' = deleted \union {c}
    /\ Free(Range(m_bqMessages[c]))
    /\ m_bqMessages' = [m_bqMessages EXCEPT ![c] = <<>>]
    /\ UNCHANGED <<call, borrowed, conn, undefined, sending, dropped, misused>>

\* A caller borrows, pushes to or releases a deleted worker, or it is cleared or
\* deleted once more.
UseDeleted ==
    /\ \/ \E m \in Msgs : call[m] \in {"made", "again"} /\ managed \cap deleted # {}
       \/ \E m \in Msgs : call[m] \in {"push", "release"} /\ borrowed[m] \in deleted
       \/ \E c \in deleted : conn[c] = "removed"
    /\ undefined' = TRUE
    /\ UNCHANGED <<call, borrowed, conn, deleted, m_bqMessages, sending, memory>>

Next ==
    /\ ~undefined
    /\ \/ \E m \in Msgs : New(m) \/ Stopped(m) \/ GetWorkerEventHandlerWithRef(m) \/ connect(m)
                            \/ SendMessage(m) \/ Release(m) \/ Accepted(m) \/ Refused(m)
       \/ \E c \in Conns : TryPop(c) \/ Encode(c) \/ RemoveWorkerEventHandler(c)
                            \/ ClearMessage(c) \/ DeleteWorker(c)
       \/ UseDeleted

Spec == Init /\ [][Next]_vars

----------------------------------------------------------------------------
\* How many will still free the message.
Owners(m) ==
    Count(call[m] \in {"made", "connect", "again", "push", "refused"})
      + Cardinality({c \in Conns : m \in Range(m_bqMessages[c])})
      + Cardinality({c \in Conns : sending[c] = m})

\* nb-socket-service.h: once sending succeeds the message belongs to the
\* framework, and if it fails to the caller.  A message that was made is to be
\* freed by exactly one of its caller, a queue and the IO thread, or it was
\* freed once, or it is one that ClearMessage or a failed response dropped; and
\* nobody touches it after it was freed.  So it is until a deleted worker is
\* used, whenever the IO thread deletes workers.
OwnedOnce ==
    /\ ~misused
    /\ \A m \in Msgs : call[m] # "idle" =>
         Owners(m) + freed[m] + Count(m \in dropped) = 1
=============================================================================
