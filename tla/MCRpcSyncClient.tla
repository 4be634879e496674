-------------------------- MODULE MCRpcSyncClient ---------------------------
(* Three calls of two threads to two peers, or calls of a thread each, for   *)
(* TLC.                                                                      *)
EXTENDS RpcSyncClient

MCTwoThreads == [c \in Calls |-> IF c = 2 THEN 2 ELSE 1]
MCOwnThread == [c \in Calls |-> c]
MCPeerOf == [c \in Calls |-> IF c = 3 THEN 2 ELSE 1]

=============================================================================
