------------------------------ MODULE NetRecv ------------------------------
(***************************************************************************)
(* How messages arrive: PosixTcpNetStackWorker::Recv cuts the byte stream  *)
(* of a connected socket into messages, in the IO thread, each time epoll  *)
(* reports the socket readable.                                            *)
(*                                                                         *)
(* A byte is the pair <<message, position>>; the first HeaderSize bytes of *)
(* a message are its header.  The peer's bytes arrive one by one, at any   *)
(* time, so a read meets every possible chunk; the peer may close or die   *)
(* after any byte, and may start a message with a wrong magic number, the  *)
(* byte <<0, 1>>, after which its stream means nothing.  The socket        *)
(* and epoll are external: a read returns what is there up to the size     *)
(* asked for, then the end of the stream or the error, if any; epoll,      *)
(* which is edge triggered, reports a socket once for each arrival it has  *)
(* not reported yet.                                                       *)
(***************************************************************************)
EXTENDS Integers, Sequences

CONSTANTS
    HeaderSize,  \* bytes of a message header
    MsgLens      \* the payload sizes of the messages the peer sends; none is 0,
                 \* SndMessage::Encode refuses an empty payload

\* A message has a header and a payload.
RecvAssumption == HeaderSize \in Nat \ {0} /\ MsgLens \in Seq(Nat \ {0})

VARIABLES
    peer,             \* the next byte the peer sends, its bad message, how it ended
    sock,             \* the bytes in the socket
    edge,             \* epoll holds an edge of the socket
    io,               \* the IO thread: "wait", "recv", or "gone" after a failure
    m_rcvState,       \* NetWorkerState
    m_pHeaderBuffer,  \* the bytes of the header buffer
    m_payloadBuffer,  \* the bytes of the payload buffer
    delivered,        \* the payloads given to HandleMessage, in that order
    notified          \* the last WorkerNotifyMessage

wire == <<peer, sock, edge>>
rcv == <<m_rcvState, m_pHeaderBuffer, m_payloadBuffer, delivered>>
vars == <<wire, io, rcv, notified>>

Init ==
    /\ peer = [msg |-> 1, pos |-> 1, bad |-> 0, end |-> "no"]
    /\ sock = <<>> /\ edge = FALSE
    /\ io = "wait" /\ notified = "none"
    /\ m_rcvState = "StartToRcvHeader"
    /\ m_pHeaderBuffer = <<>> /\ m_payloadBuffer = <<>>
    /\ delivered = <<>>

----------------------------------------------------------------------------
\* External: one more byte of the peer arrives.
Arrive ==
    /\ peer.end = "no" /\ peer.bad = 0 /\ peer.msg <= Len(MsgLens)
    /\ sock' = Append(sock, <<peer.msg, peer.pos>>)
    /\ peer' = IF peer.pos = HeaderSize + MsgLens[peer.msg]
               THEN [peer EXCEPT !.msg = @ + 1, !.pos = 1]
               ELSE [peer EXCEPT !.pos = @ + 1]
    /\ edge' = TRUE
    /\ UNCHANGED <<io, rcv, notified>>

\* External: the peer starts a message with a wrong magic number.
ArriveBad ==
    /\ peer.end = "no" /\ peer.bad = 0 /\ peer.msg <= Len(MsgLens) /\ peer.pos = 1
    /\ sock' = sock \o [k \in 1 .. HeaderSize |-> <<0, k>>]
    /\ peer' = [peer EXCEPT !.bad = peer.msg]
    /\ edge' = TRUE
    /\ UNCHANGED <<io, rcv, notified>>

\* External: the peer closes or resets, perhaps in the middle of a message.
Close ==
    /\ peer.end = "no"
    /\ \E e \in {"closed", "broken"} : peer' = [peer EXCEPT !.end = e]
    /\ edge' = TRUE
    /\ UNCHANGED <<sock, io, rcv, notified>>

Readable == sock # <<>> \/ peer.end # "no"

\* An edge is reported only while the socket is still readable.
EventWait ==
    /\ io = "wait" /\ edge
    /\ edge' = FALSE
    /\ io' = IF Readable THEN "recv" ELSE "wait"
    /\ UNCHANGED <<peer, sock, rcv, notified>>

----------------------------------------------------------------------------
(***************************************************************************)
(* Recv(false), one read per step.  Have is what the buffer already holds, *)
(* Size what it can hold.                                                  *)
(***************************************************************************)
Least(a, b) == IF a < b THEN a ELSE b

Taken(have, size) == SubSeq(sock, 1, Least(size - Len(have), Len(sock)))

Take(n) == sock' = SubSeq(sock, n + 1, Len(sock)) /\ UNCHANGED <<peer, edge>>

\* The header says whose payload follows; anything else fails the magic number.
DecodeMsgHeader(h) ==
    \E i \in 1 .. Len(MsgLens) : \A k \in 1 .. HeaderSize : h[k] = <<i, k>>

HeaderLen == MsgLens[m_pHeaderBuffer[1][1]]

Fail(what) == io' = "gone" /\ notified' = what

RcvHeaderHave == IF m_rcvState = "StartToRcvHeader" THEN <<>> ELSE m_pHeaderBuffer

RcvHeader ==
    /\ io = "recv" /\ m_rcvState \in {"StartToRcvHeader", "RcvingHeader"} /\ sock # <<>>
    /\ LET new == Taken(RcvHeaderHave, HeaderSize)
           h == RcvHeaderHave \o new
       IN /\ Take(Len(new))
          /\ m_pHeaderBuffer' = h
          /\ \/ /\ Len(h) # HeaderSize
                /\ m_rcvState' = "RcvingHeader"
                /\ io' = "wait" /\ UNCHANGED notified
             \/ /\ Len(h) = HeaderSize /\ DecodeMsgHeader(h)
                /\ m_rcvState' = "StartToRcvPayload"
                /\ UNCHANGED <<io, notified>>
             \/ /\ Len(h) = HeaderSize /\ ~DecodeMsgHeader(h)
                /\ Fail("broken") /\ UNCHANGED m_rcvState
    /\ UNCHANGED <<m_payloadBuffer, delivered>>

\* A mutant of RcvPayloadHave: each read starts the payload anew.
RcvPayloadAnew == <<>>

\* StartToRcvPayload takes a new buffer, RcvingPayload goes on with it.
RcvPayloadHave == IF m_rcvState = "StartToRcvPayload" THEN <<>> ELSE m_payloadBuffer

\* A mutant of RcvPayload: Recv ends after one message, as Recv(true) does.
RcvPayloadOne ==
    /\ io = "recv" /\ m_rcvState \in {"StartToRcvPayload", "RcvingPayload"} /\ sock # <<>>
    /\ LET new == Taken(RcvPayloadHave, HeaderLen)
           p == RcvPayloadHave \o new
       IN /\ Take(Len(new))
          /\ \/ /\ Len(p) = HeaderLen
                /\ delivered' = Append(delivered, p)
                /\ m_payloadBuffer' = <<>>
                /\ m_rcvState' = "StartToRcvHeader"
                /\ io' = "wait"
             \/ /\ Len(p) # HeaderLen
                /\ m_payloadBuffer' = p
                /\ m_rcvState' = "RcvingPayload"
                /\ io' = "wait"
                /\ UNCHANGED delivered
    /\ UNCHANGED <<m_pHeaderBuffer, notified>>

RcvPayload ==
    /\ io = "recv" /\ m_rcvState \in {"StartToRcvPayload", "RcvingPayload"} /\ sock # <<>>
    /\ LET new == Taken(RcvPayloadHave, HeaderLen)
           p == RcvPayloadHave \o new
       IN /\ Take(Len(new))
          /\ \/ /\ Len(p) = HeaderLen
                /\ delivered' = Append(delivered, p)
                /\ m_payloadBuffer' = <<>>
                /\ m_rcvState' = "StartToRcvHeader"
                /\ UNCHANGED io
             \/ /\ Len(p) # HeaderLen
                /\ m_payloadBuffer' = p
                /\ m_rcvState' = "RcvingPayload"
                /\ io' = "wait"
                /\ UNCHANGED delivered
    /\ UNCHANGED <<m_pHeaderBuffer, notified>>

\* A read that finds nothing: EAGAIN, the end of the stream, or an error.
RcvNothing ==
    /\ io = "recv" /\ sock = <<>>
    /\ \/ /\ peer.end = "no"
          /\ io' = "wait" /\ UNCHANGED notified
       \/ /\ peer.end # "no"
          /\ Fail(peer.end)
    /\ \/ /\ m_rcvState \in {"StartToRcvHeader", "RcvingHeader"}
          /\ m_pHeaderBuffer' = RcvHeaderHave
          /\ UNCHANGED m_payloadBuffer
       \/ /\ m_rcvState \in {"StartToRcvPayload", "RcvingPayload"}
          /\ m_payloadBuffer' = RcvPayloadHave
          /\ UNCHANGED m_pHeaderBuffer
    /\ UNCHANGED <<wire, m_rcvState, delivered>>

Recv == RcvHeader \/ RcvPayload \/ RcvNothing

Next == Arrive \/ ArriveBad \/ Close \/ EventWait \/ Recv

Spec == Init /\ [][Next]_vars

(***************************************************************************)
(* The IO thread runs on.  The peer need neither send nor close.           *)
(***************************************************************************)
FairSpec == Spec /\ WF_vars(EventWait) /\ WF_vars(Recv)

----------------------------------------------------------------------------
Byte == (0 .. Len(MsgLens)) \X Nat

\* The types of the state of Recv.
TypeOK ==
    /\ peer \in [msg : Nat, pos : Nat, bad : Nat, end : {"no", "closed", "broken"}]
    /\ sock \in Seq(Byte) /\ edge \in BOOLEAN
    /\ io \in {"wait", "recv", "gone"} /\ notified \in {"none", "closed", "broken"}
    /\ m_rcvState \in {"StartToRcvHeader", "RcvingHeader", "StartToRcvPayload", "RcvingPayload"}
    /\ m_pHeaderBuffer \in Seq(Byte) /\ Len(m_pHeaderBuffer) <= HeaderSize
    /\ m_payloadBuffer \in Seq(Byte)
    /\ delivered \in Seq(Seq(Byte))

Payload(i) == [k \in 1 .. MsgLens[i] |-> <<i, HeaderSize + k>>]

\* However the stream is cut into reads, HandleMessage is given exactly the
\* payloads the peer sent, whole and in the order sent.
Framed == delivered = [i \in 1 .. Len(delivered) |-> Payload(i)]

\* Every message that has arrived whole is delivered, whether or not the
\* peer sends more.
Arrived(i) == peer.msg > i
Delivered == \A i \in 1 .. Len(MsgLens) : Arrived(i) ~> Len(delivered) >= i
============================================================================
