------------------------------ MODULE RpcLife -------------------------------
(***************************************************************************)
(* Starting and stopping the rpc of a node while it is used: the order in  *)
(* which ServerInternalMessenger brings up and takes down its socket       *)
(* service, dispatch pool, rpc clients and RpcServer, against the threads  *)
(* that carry requests from the network to the handlers and back, and the  *)
(* callers that send requests of their own.                                *)
(*                                                                         *)
(* The socket service is seen from above: its IO threads report requests   *)
(* and are joined by its Stop (NetLife has the inside).  Which client an   *)
(* answer goes to is Messenger's; here all that arrives is a request.  The *)
(* handlers and the peers are external; a handler returns.                 *)
(***************************************************************************)
EXTENDS Integers, FiniteSets

CONSTANTS
    Requests,     \* requests of the peers
    idOf,         \* the handler id of each
    Callers,      \* threads that send a request through an rpc client
    Ids,          \* the handler ids the server registers
    WorkThreads,  \* threads of m_pWorkThreadPool
    MaxStarts     \* bound: calls of Start

VARIABLES
    owner, starts,       \* where the owner is in Start or Stop; calls of Start
    m_bStopped,          \* of the messenger, the clients, the server, the service
    m_bRegistered,       \* of the clients and the server
    m_hmHandlers,        \* the ids that have a handler
    m_pWorkThreadPool,   \* "null", "up" or "joining"
    m_pDispatchTp,       \* likewise
    m_sspMgr,            \* NBSocketService has its manager
    req, caller,         \* where each request and each caller is
    crashed              \* how the process died

flags == <<m_bStopped, m_bRegistered>>
pools == <<m_pWorkThreadPool, m_pDispatchTp>>
vars == <<owner, starts, flags, m_hmHandlers, pools, m_sspMgr, req, caller, crashed>>

Alive == crashed = "no"

Init ==
    /\ owner = "stopped" /\ starts = 0
    /\ m_bStopped = [o \in {"messenger", "client", "server", "service"} |-> TRUE]
    /\ m_bRegistered = [o \in {"client", "server"} |-> FALSE] /\ m_hmHandlers = {}
    /\ m_pWorkThreadPool = "null" /\ m_pDispatchTp = "null"
    /\ m_sspMgr = TRUE
    /\ req = [r \in Requests |-> "none"] /\ caller = [c \in Callers |-> "idle"]
    /\ crashed = "no"

----------------------------------------------------------------------------
(***************************************************************************)
(* Start.  The messenger counts as started before its parts are, and the   *)
(* service, which makes requests arrive, is the first of them.             *)
(***************************************************************************)
StartService ==
    /\ Alive /\ owner = "stopped" /\ starts < MaxStarts
    /\ starts' = starts + 1
    /\ m_bStopped' = [m_bStopped EXCEPT !["messenger"] = FALSE, !["service"] = FALSE]
    /\ owner' = "start dispatch"
    /\ UNCHANGED <<m_bRegistered, m_hmHandlers, pools, m_sspMgr, req, caller, crashed>>

StartDispatch ==
    /\ Alive /\ owner = "start dispatch"
    /\ m_pDispatchTp' = "up"
    /\ owner' = "start clients"
    /\ UNCHANGED <<starts, flags, m_hmHandlers, m_pWorkThreadPool, m_sspMgr, req, caller, crashed>>

\* A client registers its rpcs when it starts, which it can do once ...
register_rpc_handlers ==
    /\ ~m_bRegistered["client"]
    /\ m_bRegistered' = [m_bRegistered EXCEPT !["client"] = TRUE]

\* ... so a second Start returns false, with what was started before running.
StartClients ==
    /\ Alive /\ owner = "start clients"
    /\ \/ /\ register_rpc_handlers
          /\ m_bStopped' = [m_bStopped EXCEPT !["client"] = FALSE]
          /\ owner' = "register"
       \/ m_bRegistered["client"] /\ owner' = "failed" /\ UNCHANGED flags
    /\ UNCHANGED <<starts, m_hmHandlers, pools, m_sspMgr, req, caller, crashed>>

RegisterRpc(id) ==
    /\ Alive /\ owner = "register" /\ ~m_bRegistered["server"] /\ id \notin m_hmHandlers
    /\ m_hmHandlers' = m_hmHandlers \union {id}
    /\ UNCHANGED <<owner, starts, flags, pools, m_sspMgr, req, caller, crashed>>

FinishRegisterRpc ==
    /\ Alive /\ owner = "register" /\ m_hmHandlers = Ids
    /\ m_bRegistered' = [m_bRegistered EXCEPT !["server"] = TRUE]
    /\ owner' = "start server"
    /\ UNCHANGED <<starts, m_bStopped, m_hmHandlers, pools, m_sspMgr, req, caller, crashed>>

StartServer ==
    /\ Alive /\ owner = "start server" /\ m_bStopped["server"] /\ m_bRegistered["server"]
    /\ m_bStopped' = [m_bStopped EXCEPT !["server"] = FALSE]
    /\ m_pWorkThreadPool' = "up"
    /\ owner' = "started"
    /\ UNCHANGED <<starts, m_bRegistered, m_hmHandlers, m_pDispatchTp, m_sspMgr, req, caller, crashed>>

Start ==
    \/ StartService \/ StartDispatch \/ StartClients
    \/ (\E id \in Ids : RegisterRpc(id)) \/ FinishRegisterRpc \/ StartServer

----------------------------------------------------------------------------
(***************************************************************************)
(* Stop: a flag or a join at a time.                                       *)
(***************************************************************************)
\* A mutant of StopOrder: the service goes before the server.
StopServiceFirst(o) ==
    CASE o \in {"started", "failed"} -> "stop clients"
      [] o = "stop clients"    -> "stop service"
      [] o = "stop service"    -> "join io"
      [] o = "join io"         -> "reset"
      [] o = "reset"           -> "stop server"
      [] o = "stop server"     -> "join server"
      [] o = "join server"     -> "stop dispatch"
      [] o = "stop dispatch"   -> "join dispatch"
      [] o = "join dispatch"   -> "stopped"

\* What the owner does next in Stop.
StopOrder(o) ==
    CASE o \in {"started", "failed"} -> "stop clients"
      [] o = "stop clients"    -> "stop server"
      [] o = "stop server"     -> "join server"
      [] o = "join server"     -> "stop service"
      [] o = "stop service"    -> "join io"
      [] o = "join io"         -> "reset"
      [] o = "reset"           -> "stop dispatch"
      [] o = "stop dispatch"   -> "join dispatch"
      [] o = "join dispatch"   -> "stopped"

In(o) == Alive /\ owner = o /\ owner' = StopOrder(o) /\ UNCHANGED starts

StopFlag(o, flag) ==
    /\ In(o)
    /\ m_bStopped' = [m_bStopped EXCEPT ![flag] = TRUE]
    /\ UNCHANGED <<m_bRegistered, m_hmHandlers, pools, m_sspMgr, req, caller, crashed>>

\* A server that was not started has no pool.
StopServer ==
    /\ In("stop server")
    /\ m_bStopped' = [m_bStopped EXCEPT !["server"] = TRUE]
    /\ m_pWorkThreadPool' = IF m_bStopped["server"] THEN m_pWorkThreadPool ELSE "joining"
    /\ UNCHANGED <<m_bRegistered, m_hmHandlers, m_pDispatchTp, m_sspMgr, req, caller, crashed>>

\* The requests a thread of the server works on.
InServer == {r \in Requests : req[r] \in {"lookup", "handling", "reply", "manager"}}

\* A mutant of JoinServer: the tasks nobody took are left where they are.
JoinServerKeeping ==
    /\ In("join server")
    /\ InServer = {}
    /\ m_pWorkThreadPool' = "null"
    /\ UNCHANGED <<flags, m_hmHandlers, m_pDispatchTp, m_sspMgr, req, caller, crashed>>

\* ~ThreadPool: the threads are joined; the tasks nobody took are gone.
JoinServer ==
    /\ In("join server")
    /\ InServer = {}
    /\ m_pWorkThreadPool' = "null"
    /\ req' = [r \in Requests |-> IF req[r] = "queued" THEN "dropped" ELSE req[r]]
    /\ UNCHANGED <<flags, m_hmHandlers, m_pDispatchTp, m_sspMgr, caller, crashed>>

\* The service's Stop joins the IO threads ...
JoinIO ==
    /\ In("join io")
    /\ \A r \in Requests : req[r] # "recv"
    /\ UNCHANGED <<flags, m_hmHandlers, pools, m_sspMgr, req, caller, crashed>>

\* ... and drops the manager.
Reset ==
    /\ In("reset")
    /\ m_sspMgr' = FALSE
    /\ UNCHANGED <<flags, m_hmHandlers, pools, req, caller, crashed>>

StopDispatch ==
    /\ In("stop dispatch")
    /\ m_pDispatchTp' = "joining"
    /\ UNCHANGED <<flags, m_hmHandlers, m_pWorkThreadPool, m_sspMgr, req, caller, crashed>>

JoinDispatch ==
    /\ In("join dispatch")
    /\ \A r \in Requests : req[r] # "handle"
    /\ m_pDispatchTp' = "null"
    /\ req' = [r \in Requests |-> IF req[r] = "posted" THEN "dropped" ELSE req[r]]
    /\ UNCHANGED <<flags, m_hmHandlers, m_pWorkThreadPool, m_sspMgr, caller, crashed>>

Stop ==
    \/ StopFlag("started", "messenger") \/ StopFlag("failed", "messenger")
    \/ StopFlag("stop clients", "client")
    \/ StopServer \/ JoinServer
    \/ StopFlag("stop service", "service") \/ JoinIO \/ Reset
    \/ StopDispatch \/ JoinDispatch

----------------------------------------------------------------------------
(***************************************************************************)
(* A request on its way.                                                   *)
(***************************************************************************)
ReqAt(r, here, there) == Alive /\ req[r] = here /\ req' = [req EXCEPT ![r] = there]

quiet == <<owner, starts, flags, m_hmHandlers, pools, m_sspMgr, caller>>

\* External: a request arrives at an IO thread; OnRecvRpcReturnResult drops it
\* when the messenger is stopped.
Recv(r) ==
    /\ ~m_bStopped["service"]
    /\ ReqAt(r, "none", IF m_bStopped["messenger"] THEN "dropped" ELSE "recv")
    /\ UNCHANGED <<quiet, crashed>>

\* m_pDispatchTp->AddTask, on a null pool while Start has not made one.
Post(r) ==
    /\ ReqAt(r, "recv", "posted")
    /\ crashed' = IF m_pDispatchTp = "null" THEN "dispatch" ELSE crashed
    /\ UNCHANGED quiet

\* A dispatch thread takes the task, or ends instead; dispatch_msg tests the flag.
dispatch_msg(r) ==
    /\ ReqAt(r, "posted",
             IF m_pDispatchTp = "joining" \/ m_bStopped["messenger"] THEN "dropped" ELSE "handle")
    /\ UNCHANGED <<quiet, crashed>>

\* RpcServer::HandleMessage tests nothing.
HandleMessage(r) ==
    /\ ReqAt(r, "handle", "queued")
    /\ crashed' = IF m_pWorkThreadPool = "null" THEN "server" ELSE crashed
    /\ UNCHANGED quiet

\* A thread of the server takes the task, or ends instead.
ProcTake(r) ==
    /\ m_pWorkThreadPool # "null" /\ Cardinality(InServer) < WorkThreads
    /\ ReqAt(r, "queued", IF m_pWorkThreadPool = "joining" THEN "dropped" ELSE "lookup")
    /\ UNCHANGED <<quiet, crashed>>

\* proc_msg looks the handler up.  An id nobody registered stands for every
\* request it answers with an error, one it cannot parse too: that answer has
\* no protocol, for which a running service throws.
Lookup(r) ==
    /\ ReqAt(r, "lookup", IF idOf[r] \in m_hmHandlers THEN "handling" ELSE "refused")
    /\ crashed' = IF idOf[r] \notin m_hmHandlers /\ ~m_bStopped["service"] THEN "thrown" ELSE crashed
    /\ UNCHANGED quiet

\* The handler returns and the response is made.
Handle(r) ==
    /\ ReqAt(r, "handling", "reply")
    /\ UNCHANGED <<quiet, crashed>>

\* NBSocketService::SendMessage tests its flag ...
Reply(r) ==
    /\ ReqAt(r, "reply", IF m_bStopped["service"] THEN "refused" ELSE "manager")
    /\ UNCHANGED <<quiet, crashed>>

\* ... and then asks the manager for the connection, which may be gone.
ReplyManager(r) ==
    /\ \E there \in {"sent", "refused"} : ReqAt(r, "manager", there)
    /\ crashed' = IF m_sspMgr THEN crashed ELSE "manager"
    /\ UNCHANGED quiet

proc_msg(r) == ProcTake(r) \/ Lookup(r) \/ Handle(r) \/ Reply(r) \/ ReplyManager(r)

Carry(r) == Post(r) \/ dispatch_msg(r) \/ HandleMessage(r) \/ proc_msg(r)

(***************************************************************************)
(* A caller: ARpcClient::SendMessageAsync throws for an rpc that is not    *)
(* registered, but does not test m_bStopped, and goes to the service as a  *)
(* reply does.                                                             *)
(***************************************************************************)
SendMessageAsync(c) ==
    /\ Alive /\ caller[c] = "idle"
    /\ caller' = [caller EXCEPT ![c] = IF ~m_bRegistered["client"] \/ m_bStopped["service"] THEN "refused" ELSE "manager"]
    /\ UNCHANGED <<owner, starts, flags, m_hmHandlers, pools, m_sspMgr, req, crashed>>

CallManager(c) ==
    /\ Alive /\ caller[c] = "manager"
    /\ \E there \in {"sent", "refused"} : caller' = [caller EXCEPT ![c] = there]
    /\ crashed' = IF m_sspMgr THEN crashed ELSE "caller"
    /\ UNCHANGED <<owner, starts, flags, m_hmHandlers, pools, m_sspMgr, req>>

Next ==
    \/ Start \/ Stop
    \/ \E r \in Requests : Recv(r) \/ Carry(r)
    \/ \E c \in Callers : SendMessageAsync(c) \/ CallManager(c)

Spec == Init /\ [][Next]_vars

(***************************************************************************)
(* The threads of the pools run on and the owner ends a Stop it has begun; *)
(* nothing makes the owner start or stop, or a request arrive.             *)
(***************************************************************************)
FairSpec ==
    /\ Spec
    /\ \A r \in Requests : WF_vars(Carry(r))
    /\ WF_vars(owner \notin {"started", "failed"} /\ Stop)

----------------------------------------------------------------------------
\* No thread of the server outlives its pool or answers through a service
\* that has dropped its manager, and no IO thread posts to a dispatch pool
\* that is gone: Stop takes the parts down from the users to the used.  No
\* handler is looked up while handlers are being registered.
\* While the node is started, only an id nobody registered ends the process.
StopInOrder ==
    /\ InServer # {} => m_pWorkThreadPool # "null" /\ m_sspMgr /\ m_hmHandlers = Ids
    /\ m_pDispatchTp = "joining" \/ owner = "stopped" => \A r \in Requests : req[r] # "recv"
    /\ crashed # "manager"
    /\ owner = "started" => crashed \in {"no", "thrown"}

\* Stop returns, and by then every request that was received has been answered,
\* refused or dropped, unless the process died.
RequestsEnd ==
    owner = "stop clients" ~>
      \/ owner = "stopped" /\ \A r \in Requests : req[r] \in {"none", "sent", "refused", "dropped"}
      \/ ~Alive
=============================================================================
