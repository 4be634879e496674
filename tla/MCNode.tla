------------------------------- MODULE MCNode -------------------------------
(***************************************************************************)
(* What runs a server, for TLC: the timer, the raft state of the server    *)
(* whose elections the timer's callbacks start, its log, the directories   *)
(* it makes, and the starting and stopping of its network and of its rpc.  *)
(* Between them are single calls, on_leader_hb_timeout, GetLastEntry,      *)
(* CreateDirPath and the Start and Stop of the messenger, so each is       *)
(* checked on its own: subject says which one a behaviour is about.        *)
(***************************************************************************)
EXTENDS Timer, NodeDisk, NodeLife

VARIABLES subject

\* One entry of one cell, or two entries at once.
MCBatches == {<<<<7>>>>, <<<<7>>, <<8, 8>>>>}

\* Two paths below one directory, which is also the one to be removed.
MCPathOf == <<<<"a", "b", "d">>, <<"a", "c">>>>
MCRoot == <<"a">>
MCPaths == {<<"a">>, <<"a", "b">>, <<"a", "c">>, <<"a", "b", "d">>}

\* Two registered ids and one that is not.
MCIdOf == <<1, 2, 3>>

MCInit ==
    /\ subject \in {"timer", "raft", "net", "log", "rpc", "dirs"}
    /\ Init /\ Raft!Init /\ Net!Init /\ Log!Init /\ Rpc!Init /\ Dirs!Init
    /\ subject # "dirs" => tree = <<>> /\ running = {"creators"}

MCNext ==
    \/ /\ subject = "timer" /\ Next
       /\ UNCHANGED <<subject, raftVars, netVars, logVars, rpcVars, dirVars>>
    \/ /\ subject = "raft" /\ Raft!Next
       /\ UNCHANGED <<subject, vars, netVars, logVars, rpcVars, dirVars>>
    \/ /\ subject = "net" /\ Net!Next
       /\ UNCHANGED <<subject, vars, raftVars, logVars, rpcVars, dirVars>>
    \/ /\ subject = "log" /\ Log!Next
       /\ UNCHANGED <<subject, vars, raftVars, netVars, rpcVars, dirVars>>
    \/ /\ subject = "rpc" /\ Rpc!Next
       /\ UNCHANGED <<subject, vars, raftVars, netVars, logVars, dirVars>>
    \/ /\ subject = "dirs" /\ Dirs!Next
       /\ UNCHANGED <<subject, vars, raftVars, netVars, logVars, rpcVars>>

\* The fairness of NetLife and RpcLife; the properties of the others need none.
MCFairness ==
    /\ WF_rpcVars(subject = "rpc" /\ messenger \notin {"started", "failed"} /\ Rpc!Stop)
    /\ \A r \in Requests : WF_rpcVars(subject = "rpc" /\ Rpc!Carry(r))
    /\ WF_netVars(subject = "net" /\ Net!Stop)
    /\ \A w \in Net!Workers : WF_netVars(subject = "net" /\ Net!worker_loop(w))
    /\ \A p \in Peers : WF_netVars(subject = "net" /\ Net!Handshake(p))

MCSpec == MCInit /\ [][MCNext]_<<subject, vars, raftVars, netVars, logVars, rpcVars, dirVars>> /\ MCFairness

\* The messenger's Stop returns, unless the process died or a peer leaves its
\* handshake unanswered for ever: PosixEventManager joins its threads and
\* RpcServer its own, each request received having been answered, refused or
\* dropped by then.
StopReturns == Net!StopReturns /\ Rpc!RequestsEnd
=============================================================================
