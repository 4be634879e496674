---------------------------- MODULE Connections -----------------------------
(***************************************************************************)
(* The handshake by which two nodes agree on a connection, and what is     *)
(* claimed of it.  TLC checks it and ConnectionProofs proves it.           *)
(***************************************************************************)

CONSTANTS Nodes, Conns, NoConn, clientOf, HandshakeThreads, MaxBroken, MaxShort

VARIABLES client, server, c2s, s2c, closed, workers, broken, short

shakeVars == <<client, server, c2s, s2c, closed, workers, broken, short>>

Shake == INSTANCE Handshake

ASSUME ShakeUse == Shake!HandshakeAssumption

\* A client that considers the connection established has the server's word
\* for it, whatever breaks and however the handshakes cross.
ClientHasServer == Shake!ClientHasServer

\* A connection a manager holds has not been deleted, unless the network broke
\* it before the last answer of the handshake was sent.
KeptAlive == Shake!KeptAlive
=============================================================================
