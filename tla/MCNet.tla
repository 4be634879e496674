-------------------------------- MODULE MCNet -------------------------------
(***************************************************************************)
(* The network layer, for TLC: how a message leaves (NetSend), how one     *)
(* arrives (NetRecv) and how two nodes agree on a connection (Handshake).  *)
(* They meet in the code through the connection only, and each module      *)
(* states what it takes from the others; subject says which one a          *)
(* behaviour is about.                                                     *)
(***************************************************************************)
EXTENDS NetSend, NetReceiving, Connections

CONSTANTS
    a, b, c1, c2, c3   \* two nodes, the connections they open to each other

VARIABLES subject

\* Messages of several sizes.
MCMsgLens == <<2, 1, 3>>

\* a and b connect to each other, and a may try again.
MCClientOf == [c \in {c1, c2, c3} |-> IF c = c2 THEN b ELSE a]

MCInit ==
    /\ subject \in {"send", "recv", "handshake"}
    /\ Init /\ Recv!Init /\ Shake!Init

MCNext ==
    \/ subject = "send" /\ Next /\ UNCHANGED <<subject, recvVars, shakeVars>>
    \/ subject = "recv" /\ Recv!Next /\ UNCHANGED <<subject, vars, shakeVars>>
    \/ subject = "handshake" /\ Shake!Next /\ UNCHANGED <<subject, vars, recvVars>>

\* The fairness of NetSend, NetRecv and Handshake.
MCFairness ==
    /\ \A m \in Msgs : WF_vars(subject = "send" /\ ~crashed /\ SendMessage(m))
    /\ WF_vars(subject = "send" /\ ~crashed /\ AddEvent)
    /\ WF_vars(subject = "send" /\ ~crashed /\ worker_loop)
    /\ WF_vars(subject = "send" /\ ~crashed /\ Transmit)
    /\ WF_recvVars(subject = "recv" /\ Recv!EventWait)
    /\ WF_recvVars(subject = "recv" /\ Recv!Recv)
    /\ \A c \in Conns :
         /\ WF_shakeVars(subject = "handshake" /\ Shake!ClientStep(c))
         /\ WF_shakeVars(subject = "handshake" /\ Shake!ServerStep(c))
         /\ \A e \in {"client", "server"} :
              WF_shakeVars(subject = "handshake" /\ Shake!on_finish(c, e))

MCSpec ==
    MCInit /\ [][MCNext]_<<subject, vars, recvVars, shakeVars>> /\ MCFairness

\* What is due gets done in both directions: every external event is processed,
\* and every message that has arrived whole is delivered, whether or not the
\* peer sends more.
TrafficServed == EventsServed /\ Recv!Delivered

\* The managers of both nodes end up naming the same connection, or none, if no
\* connection broke and no read fell short.
Settles == Shake!Settles
=============================================================================
