---------------------------- MODULE NetReceiving ----------------------------
(***************************************************************************)
(* The receiving side of a connection, and what is claimed of it.  TLC     *)
(* checks it and NetProofs proves it.                                      *)
(***************************************************************************)

CONSTANTS HeaderSize, MsgLens  \* of NetRecv

VARIABLES
    peer, rsock, edge, rio, m_rcvState, m_pHeaderBuffer, m_payloadBuffer, delivered,
    notified

recvVars == <<peer, rsock, edge, rio, m_rcvState, m_pHeaderBuffer, m_payloadBuffer,
              delivered, notified>>

Recv == INSTANCE NetRecv WITH io <- rio, sock <- rsock

ASSUME RecvUse == Recv!RecvAssumption

\* However the stream is cut into reads, HandleMessage is given exactly the
\* payloads the peer sent, whole and in the order sent.
Framed == Recv!Framed
=============================================================================
