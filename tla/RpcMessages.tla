---------------------------- MODULE RpcMessages -----------------------------
(***************************************************************************)
(* The messages of a node's rpc calls: the ids the messenger gives them,   *)
(* who frees them, and what is claimed of each.  TLC checks it and         *)
(* RpcProofs proves it.                                                    *)
(***************************************************************************)
EXTENDS Naturals

CONSTANTS
    Sends, kindOf, toPeer, SendPeers, IdMax, MaxRequests, MaxPeerId,  \* of Messenger
    Requests, Responses, NoMsg, Conns, NoConn                         \* of MsgOwner

VARIABLES
    s_lastId, wrapped, call, m_msgHandlerMapper, m_addrMsgMapper, posted, served, requests,
    returned, crashed,
    sendCall, borrowed, conn, deleted, m_bqMessages, sending, freed, dropped, misused,
    undefined

messengerVars == <<s_lastId, wrapped, call, m_msgHandlerMapper, m_addrMsgMapper, posted, served,
                   requests, returned, crashed>>
ownVars == <<sendCall, borrowed, conn, deleted, m_bqMessages, sending, freed, dropped,
             misused, undefined>>

Messenger == INSTANCE Messenger WITH
    Calls <- Sends, peerOf <- toPeer, Peers <- SendPeers,
    m_pDispatchTp <- posted, m_pWorkThreadPool <- served

Own == INSTANCE MsgOwner WITH call <- sendCall

ASSUME MessengerUse == IdMax \in Nat

ASSUME OwnUse == Own!OwnAssumption

\* The messenger's two maps change together: an id filed under a peer is the
\* id of a call to that peer, mapped to the client that made it.
IdsFiled == Messenger!IdsFiled

\* Two requests on their way carry the same id only if the counter of GetNewId
\* has wrapped and one of them is a RequestVoteAsync, which is not sent under
\* the id that add_msg_to_mapper checked.
RequestsApart == Messenger!RequestsApart

\* A message is freed once, by whoever SendMessage's result says owns it, and
\* not touched afterwards, unless ClearMessage or a failed response dropped it;
\* and so it is however early the IO thread deletes the worker of a connection,
\* until somebody uses the deleted worker.
OwnedOnce == Own!OwnedOnce
=============================================================================
