----------------------------- MODULE Messenger -----------------------------
(***************************************************************************)
(* ServerInternalMessenger: the rpc traffic of one node with its peers.    *)
(* Outgoing calls register the id of their message so that the dispatch    *)
(* threads can tell the response to a call, which goes back to the rpc     *)
(* client, from a request of the peer, which goes to the rpc server.       *)
(*                                                                         *)
(* Each call is made by a thread of its own; the dispatch pool runs its    *)
(* tasks in any order, and so does the pool of the rpc server.  The socket *)
(* service and the peers are external: a response carries the id of its    *)
(* request, and the requests of a peer carry the peer's own numbers.  The  *)
(* messenger is started and not stopped.                                   *)
(***************************************************************************)
EXTENDS Integers, FiniteSets

CONSTANTS
    Calls,        \* the outgoing calls
    kindOf,       \* the operation of each call
    peerOf,       \* the peer each call goes to
    Peers,
    IdMax,        \* the largest value of Message::Id, UINT64_MAX in the build
    MaxRequests,  \* bound: requests a peer sends
    MaxPeerId     \* bound: the ids the requests of a peer carry

VARIABLES
    s_lastId,            \* SndMessage::s_lastId
    wrapped,             \* history: s_lastId has gone back to 1
    call,                \* per call: where it stands, the id it took and the id sent
    m_msgHandlerMapper,  \* id -> the client that made the call
    m_addrMsgMapper,     \* peer -> ids of the calls to it
    m_pDispatchTp,       \* the notifications waiting for a dispatch thread
    m_pWorkThreadPool,   \* the messages waiting for a thread of the rpc server
    requests,            \* requests sent so far, per peer
    returned,            \* the notifications handed to a client
    crashed              \* how the process died

ids == <<s_lastId, wrapped>>
maps == <<m_msgHandlerMapper, m_addrMsgMapper>>
vars == <<ids, call, maps, m_pDispatchTp, m_pWorkThreadPool, requests, returned,
          crashed>>

Init ==
    /\ s_lastId = 0 /\ wrapped = FALSE
    /\ call = [c \in Calls |-> [at |-> "idle", id |-> 0, sent |-> 0]]
    /\ m_msgHandlerMapper = << >> /\ m_addrMsgMapper = << >>
    /\ m_pDispatchTp = {} /\ m_pWorkThreadPool = {}
    /\ requests = [p \in Peers |-> 0]
    /\ returned = {} /\ crashed = "no"

Alive == crashed = "no"

\* The function f with x mapped to y.
Put(f, x, y) == [z \in DOMAIN f \union {x} |-> IF z = x THEN y ELSE f[z]]

----------------------------------------------------------------------------
(***************************************************************************)
(* AppendEntriesSync, AppendEntriesAsync, RequestVoteSync, RequestVoteAsync*)
(***************************************************************************)
\* SndMessage::GetNewId, under s_idLock.
GetNewId ==
    /\ s_lastId' = IF s_lastId + 1 = IdMax THEN 1 ELSE s_lastId + 1
    /\ wrapped' = (wrapped \/ s_lastId + 1 = IdMax)

TakeId(c) ==
    /\ Alive
    /\ call[c].at = "idle"
    /\ GetNewId
    /\ call' = [call EXCEPT ![c] = [at |-> "add", id |-> s_lastId', sent |-> 0]]
    /\ UNCHANGED <<maps, m_pDispatchTp, m_pWorkThreadPool, requests, returned, crashed>>

Client(c) ==
    IF kindOf[c] \in {"AppendEntriesSync", "RequestVoteSync"} THEN "sync" ELSE "async"

\* The ids filed under the peer of a call once its own is added: the first id
\* of a peer goes into a copy of the set that was just stored.
Filed(c) ==
    LET p == peerOf[c]
    IN Put(m_addrMsgMapper, p,
           IF p \in DOMAIN m_addrMsgMapper THEN m_addrMsgMapper[p] \union {call[c].id} ELSE {})

\* A mutant of add_msg_to_mapper: the id is not looked up first.
add_msg_unchecked(c) ==
    /\ Alive
    /\ call[c].at = "add"
    /\ call' = [call EXCEPT ![c].at = "send"]
    /\ m_msgHandlerMapper' = Put(m_msgHandlerMapper, call[c].id, Client(c))
    /\ m_addrMsgMapper' = Filed(c)
    /\ UNCHANGED <<ids, m_pDispatchTp, m_pWorkThreadPool, requests, returned, crashed>>

\* A mutant of add_msg_to_mapper: an id in use is refused, but only after it
\* was filed under the peer.
add_msg_filed_first(c) ==
    /\ Alive
    /\ call[c].at = "add"
    /\ m_addrMsgMapper' = Filed(c)
    /\ IF call[c].id \in DOMAIN m_msgHandlerMapper
       THEN call' = [call EXCEPT ![c].at = "conflict"] /\ UNCHANGED m_msgHandlerMapper
       ELSE /\ call' = [call EXCEPT ![c].at = "send"]
            /\ m_msgHandlerMapper' = Put(m_msgHandlerMapper, call[c].id, Client(c))
    /\ UNCHANGED <<ids, m_pDispatchTp, m_pWorkThreadPool, requests, returned, crashed>>

\* Under m_slMsgMapper; throws when the id is in use.
add_msg_to_mapper(c) ==
    /\ Alive
    /\ call[c].at = "add"
    /\ \/ /\ call[c].id \in DOMAIN m_msgHandlerMapper
          /\ call' = [call EXCEPT ![c].at = "conflict"]
          /\ UNCHANGED maps
       \/ /\ call[c].id \notin DOMAIN m_msgHandlerMapper
          /\ call' = [call EXCEPT ![c].at = "send"]
          /\ m_msgHandlerMapper' = Put(m_msgHandlerMapper, call[c].id, Client(c))
          /\ m_addrMsgMapper' = Filed(c)
    /\ UNCHANGED <<ids, m_pDispatchTp, m_pWorkThreadPool, requests, returned, crashed>>

\* SendMessage of the client.  RequestVoteAsync does not pass the id on: its
\* request takes another one.  The socket service may refuse the request.
SendMessage(c) ==
    /\ Alive
    /\ call[c].at = "send"
    /\ IF kindOf[c] = "RequestVoteAsync" THEN GetNewId ELSE UNCHANGED ids
    /\ \E at \in {"sent", "failed"} :
         call' = [call EXCEPT ![c].at = at,
                    ![c].sent = IF kindOf[c] = "RequestVoteAsync" THEN s_lastId' ELSE call[c].id]
    /\ UNCHANGED <<maps, m_pDispatchTp, m_pWorkThreadPool, requests, returned, crashed>>

----------------------------------------------------------------------------
\* External: a peer answers.  OnRecvRpcReturnResult queues a dispatch task.
RecvResponse(c) ==
    /\ Alive
    /\ call[c].at = "sent"
    /\ call' = [call EXCEPT ![c].at = "answered"]
    /\ m_pDispatchTp' = m_pDispatchTp \union
                          {[type |-> "response", id |-> call[c].sent, peer |-> peerOf[c], of |-> c]}
    /\ UNCHANGED <<ids, maps, m_pWorkThreadPool, requests, returned, crashed>>

\* External: a peer makes a request.
RecvRequest(p, id) ==
    /\ Alive
    /\ requests[p] < MaxRequests
    /\ requests' = [requests EXCEPT ![p] = @ + 1]
    /\ m_pDispatchTp' = m_pDispatchTp \union
                          {[type |-> "request", id |-> id, peer |-> p, of |-> requests[p]]}
    /\ UNCHANGED <<ids, call, maps, m_pWorkThreadPool, returned, crashed>>

\* External: the connection to a peer breaks.
RecvWorker(p) ==
    /\ Alive
    /\ p \in DOMAIN m_addrMsgMapper
    /\ m_pDispatchTp' = m_pDispatchTp \union
                          {[type |-> "worker", id |-> 0, peer |-> p, of |-> 0]}
    /\ UNCHANGED <<ids, call, maps, m_pWorkThreadPool, requests, returned, crashed>>

(***************************************************************************)
(* dispatch_msg.  remove_msg_from_msg_handler_map answers nullptr for an   *)
(* id that is in the map, and reads through end() for one that is not: a   *)
(* null node, in the unordered_map of the build.  It erases nothing.       *)
(***************************************************************************)
remove_msg_from_msg_handler_map(id) ==
    IF id \in DOMAIN m_msgHandlerMapper THEN "nullptr" ELSE "end"

remove_msg_from_map(id, peer) ==
    LET handler == remove_msg_from_msg_handler_map(id)
    IN IF handler \in {"sync", "async"} /\ peer \notin DOMAIN m_addrMsgMapper
       THEN "nullptr" ELSE handler

dispatch_message(n) ==
    LET handler == remove_msg_from_map(n.id, n.peer)
    IN /\ n.type # "worker"
       /\ crashed' = IF handler = "end" THEN "end" ELSE crashed
       /\ m_pWorkThreadPool' = m_pWorkThreadPool \union (IF handler = "nullptr" THEN {n} ELSE {})
       /\ returned' = returned \union (IF handler \in {"sync", "async"} THEN {n} ELSE {})
       /\ m_addrMsgMapper' = [p \in DOMAIN m_addrMsgMapper |->
            IF p = n.peer /\ handler \in {"sync", "async"} THEN m_addrMsgMapper[p] \ {n.id}
            ELSE m_addrMsgMapper[p]]
       /\ UNCHANGED m_msgHandlerMapper

\* A peer without ids is left as it is; the ids themselves stay mapped.
clear_peer_msg_map(n) ==
    /\ n.type = "worker"
    /\ m_addrMsgMapper' =
         [p \in {p \in DOMAIN m_addrMsgMapper : p # n.peer \/ m_addrMsgMapper[p] = {}} |->
            m_addrMsgMapper[p]]
    /\ UNCHANGED <<m_msgHandlerMapper, m_pWorkThreadPool, returned, crashed>>

dispatch_msg(n) ==
    /\ Alive
    /\ m_pDispatchTp' = m_pDispatchTp \ {n}
    /\ dispatch_message(n) \/ clear_peer_msg_map(n)
    /\ UNCHANGED <<ids, call, requests>>

(***************************************************************************)
(* RpcServer::proc_msg.  A request reaches ServerRpcService::OnRequestVote *)
(* or OnAppendEntries, which calls the messenger, which calls it back.     *)
(* The code of a response, OK, is taken for a handler id that is not       *)
(* registered; the error answer names no protocol, for which               *)
(* NBSocketService::SendMessage throws, and the pool thread ends with it.  *)
(***************************************************************************)
proc_msg(n) ==
    /\ Alive
    /\ m_pWorkThreadPool' = m_pWorkThreadPool \ {n}
    /\ crashed' = IF n.type = "request" THEN "recursion" ELSE "thrown"
    /\ UNCHANGED <<ids, call, maps, m_pDispatchTp, requests, returned>>

Next ==
    \/ \E c \in Calls : TakeId(c) \/ add_msg_to_mapper(c) \/ SendMessage(c) \/ RecvResponse(c)
    \/ \E p \in Peers, id \in 1 .. MaxPeerId : RecvRequest(p, id)
    \/ \E p \in Peers : RecvWorker(p)
    \/ \E n \in m_pDispatchTp : dispatch_msg(n)
    \/ \E n \in m_pWorkThreadPool : proc_msg(n)

Spec == Init /\ [][Next]_vars

----------------------------------------------------------------------------
Notes == [type : {"response", "request", "worker"}, id : Nat, peer : Peers,
          of : Calls \union 0 .. MaxRequests]

\* The types of the messenger's maps and queues; no id is INVALID_MSG_ID.
TypeOK ==
    /\ s_lastId \in 0 .. IdMax - 1 /\ wrapped \in BOOLEAN
    /\ \A c \in Calls :
         call[c] \in [at : {"idle"}, id : {0}, sent : {0}]
                     \union [at : {"add", "send", "conflict"}, id : 1 .. IdMax - 1, sent : {0}]
                     \union [at : {"sent", "answered", "failed"}, id : 1 .. IdMax - 1,
                             sent : 1 .. IdMax - 1]
    /\ DOMAIN m_msgHandlerMapper \subseteq 1 .. IdMax - 1
    /\ \A i \in DOMAIN m_msgHandlerMapper : m_msgHandlerMapper[i] \in {"sync", "async"}
    /\ DOMAIN m_addrMsgMapper \subseteq Peers
    /\ m_pDispatchTp \subseteq Notes /\ m_pWorkThreadPool \subseteq Notes /\ returned \subseteq Notes
    /\ requests \in [Peers -> 0 .. MaxRequests]
    /\ crashed \in {"no", "end", "recursion", "thrown"}

\* Calls that were given their id for good.
Added == {c \in Calls : call[c].at \in {"send", "sent", "answered", "failed"}}

\* An id filed under a peer is the id of a call to that peer, and is mapped
\* to the client that made it: the two maps change together under one lock.
IdsFiled ==
    \A p \in DOMAIN m_addrMsgMapper : \A i \in m_addrMsgMapper[p] :
      /\ i \in DOMAIN m_msgHandlerMapper
      /\ \E c \in Added : call[c].id = i /\ peerOf[c] = p /\ m_msgHandlerMapper[i] = Client(c)

\* Two requests on their way carry the same id only if the counter of GetNewId
\* has wrapped and one of them is a RequestVoteAsync, whose second id
\* add_msg_to_mapper never sees: of the others it lets none go under an id that
\* an earlier call was filed under, wrapped or not.
RequestsApart ==
    \A c, d \in Calls :
      /\ c # d
      /\ call[c].at \in {"sent", "answered"} /\ call[d].at \in {"sent", "answered"}
      /\ call[c].sent = call[d].sent
      => wrapped /\ "RequestVoteAsync" \in {kindOf[c], kindOf[d]}
============================================================================
