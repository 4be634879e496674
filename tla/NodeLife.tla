------------------------------ MODULE NodeLife ------------------------------
(***************************************************************************)
(* How a server starts and stops its network and its rpc, and what is      *)
(* claimed of each.  TLC checks it and NodeProofs proves it.               *)
(***************************************************************************)

CONSTANTS
    ConnWorkers, Peers, HsThreads,                             \* of NetLife
    Requests, idOf, Callers, Ids, WorkThreads, MaxMsgStarts    \* of RpcLife

VARIABLES
    owner, m_bStopped, ew, loop, pipe, added, handlers, hs, target, m_iCurWorkerIdx,
    tpStopping, m_pDispatchTp, crashed,
    messenger, msgStarts, m_bRpcStopped, m_bRegistered, m_hmHandlers,
    m_pWorkThreadPool, dispatchTp, m_sspMgr, req, caller, died

netVars == <<owner, m_bStopped, ew, loop, pipe, added, handlers, hs, target,
             m_iCurWorkerIdx, tpStopping, m_pDispatchTp, crashed>>
rpcVars == <<messenger, msgStarts, m_bRpcStopped, m_bRegistered, m_hmHandlers,
             m_pWorkThreadPool, dispatchTp, m_sspMgr, req, caller, died>>

Net == INSTANCE NetLife

Rpc == INSTANCE RpcLife WITH
    MaxStarts <- MaxMsgStarts, owner <- messenger, starts <- msgStarts,
    m_bStopped <- m_bRpcStopped, m_pDispatchTp <- dispatchTp, crashed <- died

ASSUME NetUse == Net!NetAssumption

\* No handshake thread touches an EventWorker that PosixEventManager::Stop has
\* deleted, although one may have found the service running before, and no
\* worker thread outlives its EventWorker or posts to the dispatch pool the
\* messenger has deleted.
StopSafe == Net!StopSafe

\* No thread of RpcServer outlives its pool or answers through a service that
\* has dropped its manager, whenever ServerInternalMessenger::Stop is called.
StopInOrder == Rpc!StopInOrder
=============================================================================
