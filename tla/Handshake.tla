----------------------------- MODULE Handshake -----------------------------
(***************************************************************************)
(* How two nodes agree on a connection: PosixTcpNetStackWorker::Initialize *)
(* and handshake on both ends of each connection, and the UniqueWorker-    *)
(* Manager of each node, which keeps one connection per peer.              *)
(*                                                                         *)
(* A connection is opened by NBSocketService::connect on the client's side *)
(* and served by a task of PosixTcpServerEventHandler's pool on the other. *)
(* TCP is external: it delivers whole messages in order, a read may return *)
(* only part of one, and a write to a connection that the other end closed *)
(* or that broke may or may not report it.                                 *)
(***************************************************************************)
EXTENDS Integers, Sequences, FiniteSets

CONSTANTS
    Nodes,      \* the two nodes
    Conns,      \* the connections ever opened
    NoConn,
    clientOf,   \* the node that opens each connection
    HandshakeThreads,  \* FLAGS_net_server_handshake_threads_cnt
    MaxBroken,  \* bound: connections the network breaks
    MaxShort    \* bound: reads that return part of a message

\* Two nodes, and connections that one of them opens.
HandshakeAssumption ==
    /\ \E m, n \in Nodes : m # n /\ Nodes = {m, n}
    /\ clientOf \in [Conns -> Nodes]
    /\ NoConn \notin Conns

VARIABLES
    client,   \* m_connState of each connection's client end, or what became of it
    server,   \* the same of its server end
    c2s, s2c, \* messages on the way to the server and to the client
    closed,   \* ends whose handler was deleted: "client", "server"
    workers,  \* m_hmap_workers of each node: its connection to the other node
    broken,   \* connections the network broke
    short     \* number of short reads so far

wires == <<c2s, s2c>>
vars == <<client, server, wires, closed, workers, broken, short>>

Ends == {"client", "server"}

Init ==
    /\ client = [c \in Conns |-> "idle"]
    /\ server = [c \in Conns |-> "idle"]
    /\ c2s = [c \in Conns |-> <<>>] /\ s2c = [c \in Conns |-> <<>>]
    /\ closed = [c \in Conns |-> {}]
    /\ workers = [n \in Nodes |-> NoConn]
    /\ broken = {} /\ short = 0

----------------------------------------------------------------------------
NodeOf(c, e) == IF e = "client" THEN clientOf[c] ELSE CHOOSE n \in Nodes : n # clientOf[c]

Other(e) == IF e = "client" THEN "server" ELSE "client"

\* Whether a write of end e may fail, and whether its reads find the end.
Lost(c, e) == c \in broken \/ Other(e) \in closed[c]

\* PutWorkerEventHandler: refused if the node has a connection to the peer.
CanPut(c, e) == workers[NodeOf(c, e)] = NoConn
Put(c, e) == workers' = [workers EXCEPT ![NodeOf(c, e)] = c]

Close(c, e) == closed' = [closed EXCEPT ![c] = @ \union {e}]

\* Initialize returned false: the handler is deleted, its descriptor closed.
ClientFails(c) == client' = [client EXCEPT ![c] = "failed"] /\ Close(c, "client")
ServerFails(c) == server' = [server EXCEPT ![c] = "failed"] /\ Close(c, "server")

----------------------------------------------------------------------------
(***************************************************************************)
(* The client's end.                                                       *)
(***************************************************************************)
\* connect, unless there is a worker already: the request is sent.
Connect(c) ==
    /\ client[c] = "idle"
    /\ CanPut(c, "client")
    /\ client' = [client EXCEPT ![c] = "ConnectSe"]
    /\ c2s' = [c2s EXCEPT ![c] = Append(@, "request")]
    /\ UNCHANGED <<server, s2c, closed, workers, broken, short>>

\* The socket's Connect is refused or times out: the network broke the connection.
\* After a timeout the server may still accept it.
ConnectFails(c) ==
    /\ client[c] = "idle"
    /\ CanPut(c, "client")
    /\ Cardinality(broken) < MaxBroken
    /\ broken' = broken \union {c}
    /\ ClientFails(c)
    /\ UNCHANGED <<server, wires, workers, short>>

\* handshake, ConnectSe: the server's answer is acknowledged.
ClientConnectSe(c) ==
    /\ client[c] = "ConnectSe" /\ s2c[c] # <<>>
    /\ s2c' = [s2c EXCEPT ![c] = Tail(@)]
    /\ \/ /\ Head(s2c[c]) = "ok"
          /\ client' = [client EXCEPT ![c] = "WaitLastACK"]
          /\ c2s' = [c2s EXCEPT ![c] = Append(@, "ok")]
          /\ UNCHANGED closed
       \/ /\ Head(s2c[c]) # "ok" \/ Lost(c, "client")
          /\ ClientFails(c)
          /\ UNCHANGED c2s
    /\ UNCHANGED <<server, workers, broken, short>>

\* A mutant of ClientWaitLastACK: the refused connection is not closed.
ClientWaitLastACKOpen(c) ==
    /\ client[c] = "WaitLastACK" /\ s2c[c] # <<>>
    /\ s2c' = [s2c EXCEPT ![c] = Tail(@)]
    /\ IF Head(s2c[c]) = "ok" /\ CanPut(c, "client")
       THEN /\ Put(c, "client")
            /\ client' = [client EXCEPT ![c] = "Connected"]
       ELSE client' = [client EXCEPT ![c] = "failed"] /\ UNCHANGED workers
    /\ UNCHANGED <<server, c2s, closed, broken, short>>

\* handshake, WaitLastACK: the connection is kept if both ends have room.
ClientWaitLastACK(c) ==
    /\ client[c] = "WaitLastACK" /\ s2c[c] # <<>>
    /\ s2c' = [s2c EXCEPT ![c] = Tail(@)]
    /\ IF Head(s2c[c]) = "ok" /\ CanPut(c, "client")
       THEN /\ Put(c, "client")
            /\ client' = [client EXCEPT ![c] = "Connected"]
            /\ UNCHANGED closed
       ELSE ClientFails(c) /\ UNCHANGED workers
    /\ UNCHANGED <<server, c2s, broken, short>>

\* Recv finds the connection closed or broken.
ClientRecvFails(c) ==
    /\ client[c] \in {"ConnectSe", "WaitLastACK"}
    /\ s2c[c] = <<>> /\ Lost(c, "client")
    /\ ClientFails(c)
    /\ UNCHANGED <<server, wires, workers, broken, short>>

\* Recv gets part of a message and returns true: Initialize waits for a signal
\* that the handshake is over, and nobody reads the connection any more.
ClientShort(c) ==
    /\ client[c] \in {"ConnectSe", "WaitLastACK"}
    /\ s2c[c] # <<>> /\ short < MaxShort
    /\ short' = short + 1
    /\ client' = [client EXCEPT ![c] = "waiting"]
    /\ UNCHANGED <<server, wires, closed, workers, broken>>

----------------------------------------------------------------------------
(***************************************************************************)
(* The server's end.                                                       *)
(***************************************************************************)
\* The connections whose server's end has a thread of node n's pool.
Serving(n) ==
    {c \in Conns : NodeOf(c, "server") = n
                  /\ server[c] \notin {"idle", "Connected", "failed"}}

\* HandleReadEvent of the listening socket hands the connection to the pool, and
\* a thread of it takes the connection up.
Accept(c) ==
    /\ client[c] # "idle" /\ server[c] = "idle"
    /\ Cardinality(Serving(NodeOf(c, "server"))) < HandshakeThreads
    /\ server' = [server EXCEPT ![c] = "Connecting"]
    /\ UNCHANGED <<client, wires, closed, workers, broken, short>>

\* handshake, Connecting: the request is answered.
ServerConnecting(c) ==
    /\ server[c] = "Connecting" /\ c2s[c] # <<>>
    /\ c2s' = [c2s EXCEPT ![c] = Tail(@)]
    /\ \/ /\ server' = [server EXCEPT ![c] = "ConnectingRe"]
          /\ s2c' = [s2c EXCEPT ![c] = Append(@, "ok")]
          /\ UNCHANGED closed
       \/ /\ Lost(c, "server")
          /\ ServerFails(c)
          /\ UNCHANGED s2c
    /\ UNCHANGED <<client, workers, broken, short>>

\* A mutant of ServerConnectingRe: the connection takes the place of another.
ServerConnectingReReplace(c) ==
    /\ server[c] = "ConnectingRe" /\ c2s[c] # <<>>
    /\ c2s' = [c2s EXCEPT ![c] = Tail(@)]
    /\ Put(c, "server") /\ server' = [server EXCEPT ![c] = "accepting"]
    /\ UNCHANGED <<client, s2c, closed, broken, short>>

\* handshake, ConnectingRe: on_logic_connect decides what is answered.
ServerConnectingRe(c) ==
    /\ server[c] = "ConnectingRe" /\ c2s[c] # <<>>
    /\ c2s' = [c2s EXCEPT ![c] = Tail(@)]
    /\ IF CanPut(c, "server")
       THEN Put(c, "server") /\ server' = [server EXCEPT ![c] = "accepting"]
       ELSE server' = [server EXCEPT ![c] = "refusing"] /\ UNCHANGED workers
    /\ UNCHANGED <<client, s2c, closed, broken, short>>

\* The answer is sent; the manager keeps what it was given if that fails.
ServerAnswer(c) ==
    /\ \/ /\ server[c] = "accepting"
          /\ server' = [server EXCEPT ![c] = "Connected"]
          /\ s2c' = [s2c EXCEPT ![c] = Append(@, "ok")]
          /\ UNCHANGED closed
       \/ /\ server[c] = "refusing"
          /\ ServerFails(c)
          /\ s2c' = [s2c EXCEPT ![c] = Append(@, "error")]
       \/ /\ server[c] \in {"accepting", "refusing"} /\ Lost(c, "server")
          /\ ServerFails(c)
          /\ UNCHANGED s2c
    /\ UNCHANGED <<client, c2s, workers, broken, short>>

ServerRecvFails(c) ==
    /\ server[c] \in {"Connecting", "ConnectingRe"}
    /\ c2s[c] = <<>> /\ Lost(c, "server")
    /\ ServerFails(c)
    /\ UNCHANGED <<client, wires, workers, broken, short>>

ServerShort(c) ==
    /\ server[c] \in {"Connecting", "ConnectingRe"}
    /\ c2s[c] # <<>> /\ short < MaxShort
    /\ short' = short + 1
    /\ server' = [server EXCEPT ![c] = "waiting"]
    /\ UNCHANGED <<client, wires, closed, workers, broken>>

----------------------------------------------------------------------------
(***************************************************************************)
(* Both ends.                                                              *)
(***************************************************************************)
\* A mutant of on_finish: the connection stays in the manager.
on_finish_keeping(c, e) ==
    /\ (IF e = "client" THEN client ELSE server)[c] = "Connected"
    /\ e \notin closed[c] /\ Lost(c, e)
    /\ Close(c, e)
    /\ UNCHANGED <<client, server, wires, workers, broken, short>>

\* The IO thread finds a connection it serves closed or broken: on_finish takes
\* it out of the manager and its handler is deleted (see HandlerLife).
on_finish(c, e) ==
    /\ (IF e = "client" THEN client ELSE server)[c] = "Connected"
    /\ e \notin closed[c] /\ Lost(c, e)
    /\ Close(c, e)
    /\ workers' = [workers EXCEPT ![NodeOf(c, e)] = IF @ = c THEN NoConn ELSE @]
    /\ UNCHANGED <<client, server, wires, broken, short>>

\* External: the network breaks a connection in use; what is on the way is lost.
Break(c) ==
    /\ client[c] # "idle" /\ c \notin broken
    /\ Cardinality(broken) < MaxBroken
    /\ broken' = broken \union {c}
    /\ c2s' = [c2s EXCEPT ![c] = <<>>] /\ s2c' = [s2c EXCEPT ![c] = <<>>]
    /\ UNCHANGED <<client, server, closed, workers, short>>

ClientStep(c) ==
    ClientConnectSe(c) \/ ClientWaitLastACK(c) \/ ClientRecvFails(c) \/ ClientShort(c)

ServerStep(c) ==
    \/ Accept(c) \/ ServerConnecting(c) \/ ServerConnectingRe(c) \/ ServerAnswer(c)
    \/ ServerRecvFails(c) \/ ServerShort(c)

Next == \E c \in Conns :
    \/ Connect(c) \/ ConnectFails(c) \/ ClientStep(c) \/ ServerStep(c) \/ Break(c)
    \/ \E e \in Ends : on_finish(c, e)

Spec == Init /\ [][Next]_vars

\* The threads that shake hands and the IO threads run on.
Fairness == \A c \in Conns :
    /\ WF_vars(ClientStep(c)) /\ WF_vars(ServerStep(c))
    /\ \A e \in Ends : WF_vars(on_finish(c, e))

FairSpec == Spec /\ Fairness

----------------------------------------------------------------------------
\* The types of both ends' states, the wires and the managers.
TypeOK ==
    /\ client \in [Conns -> {"idle", "ConnectSe", "WaitLastACK", "Connected", "failed",
                             "waiting"}]
    /\ server \in [Conns -> {"idle", "Connecting", "ConnectingRe", "accepting", "refusing",
                             "Connected", "failed", "waiting"}]
    /\ \A c \in Conns : /\ c2s[c] \in Seq({"request", "ok"})
                        /\ s2c[c] \in Seq({"ok", "error"})
                        /\ Len(c2s[c]) <= 1 /\ Len(s2c[c]) <= 1
    /\ closed \in [Conns -> SUBSET Ends]
    /\ workers \in [Nodes -> Conns \union {NoConn}]
    /\ broken \subseteq Conns /\ short \in 0 .. MaxShort

\* A client that considers the connection established has the server's word:
\* the server's manager took the connection, and until the server's end is
\* closed it is the one the server keeps for this peer.
ClientHasServer ==
    \A c \in Conns : client[c] = "Connected" /\ "server" \notin closed[c] =>
                       workers[NodeOf(c, "server")] = c

\* server-event-handler.cc on a handshake that failed: "this end does not
\* reclaim it now [...]. Otherwise there is the problem of reclaiming twice."
\* A connection the manager holds has not been deleted, unless the network
\* broke it before the last answer was sent.
KeptAlive ==
    \A c \in Conns \ broken, e \in Ends : workers[NodeOf(c, e)] = c => e \notin closed[c]

\* However the handshakes of both nodes cross, their managers end up naming the
\* same connection, or none, if no connection broke and no read fell short.
Settles ==
    \/ <>(broken # {} \/ short > 0)
    \/ <>[](\A m, n \in Nodes : workers[m] = workers[n])

\* net-stack-worker.h: "UniqueWorkerManager identifies a connection by its logic
\* port and keeps just one": once a node has tried to connect, a connection
\* stays.
OneKept ==
    \/ <>[](\A c \in Conns : client[c] = "idle")
    \/ <>[](\E c \in Conns : \A n \in Nodes : workers[n] = c)
============================================================================
