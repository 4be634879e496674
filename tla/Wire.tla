-------------------------------- MODULE Wire --------------------------------
(***************************************************************************)
(* The bytes of a message: SndMessage::Encode lays a message out in a      *)
(* Buffer, Send writes the buffer to the socket in as many pieces as the   *)
(* socket takes, Recv collects a header and then a payload in buffers of   *)
(* its own, in as many reads as it needs, and the receiver decodes them.   *)
(* Two messages follow one another on one connection.                      *)
(*                                                                         *)
(* A Buffer is its four pointers, 0 for nullptr, its m_bAvailable, and the *)
(* memory behind it, where Junk is a byte nobody wrote.  Integers keep     *)
(* their width in bytes; a byte has ByteVals values.  The body of a        *)
(* message is what protobuf made of it, a sequence of bytes (external).    *)
(***************************************************************************)
EXTENDS Integers, SequencesExt

CONSTANTS
    ByteVals,      \* values of a byte, 256 in the build
    Magic,         \* MESSAGE_MAGIC_NO
    MaxPayload,    \* MAX_MSG_PAYLOAD_SIZE
    FirstMessages, \* the messages that may be sent first
    Messages       \* the messages that may be sent second

Junk == ByteVals

VARIABLES
    toSend,           \* the messages not encoded yet
    m_pSendingBuffer, \* the buffer being sent
    socket,           \* the bytes in flight
    m_rcvState,       \* NetWorkerState
    m_pHeaderBuffer,
    m_payloadBuffer,
    m_header,         \* the header decoded last
    received,         \* the messages decoded
    refused,          \* a message was refused, by Encode or by DecodeMsgHeader
    messages          \* the messages of this behaviour

vars == <<toSend, m_pSendingBuffer, socket, m_rcvState, m_pHeaderBuffer, m_payloadBuffer,
          m_header, received, refused, messages>>

----------------------------------------------------------------------------
(***************************************************************************)
(* LittleEndianCodecUtils, the ByteOrderUtils of a little endian host: the *)
(* most significant byte comes first.                                      *)
(***************************************************************************)
WriteUInt(width, n) == [k \in 1 .. width |-> (n \div (ByteVals ^ (width - k))) % ByteVals]

ReadUInt(bytes) ==
    LET width == Len(bytes)
        shifted[k \in 1 .. width] ==
          IF k = 1 THEN bytes[1]
          ELSE ((shifted[k - 1] * ByteVals) % (ByteVals ^ width)) + bytes[k]
    IN shifted[width]

----------------------------------------------------------------------------
(***************************************************************************)
(* Buffer.                                                                 *)
(***************************************************************************)
check_available(b) ==
    [b EXCEPT !.avail = /\ 0 \notin {b.start, b.end, b.pos, b.last}
                        /\ b.pos <= b.last]

Refresh(pos, last, start, end) ==
    check_available([pos |-> pos, last |-> last, start |-> start, end |-> end,
                     avail |-> FALSE, mem |-> [k \in 1 .. end |-> Junk]])

NoBuffer == Refresh(0, 0, 0, 0)

GetNewBuffer(size) == Refresh(0, 0, 1, size)
GetNewAvailableBuffer(size) == Refresh(1, size, 1, size)

BZero(b) == [b EXCEPT !.pos = 0, !.last = 0, !.avail = FALSE, !.mem = [k \in 1 .. b.end |-> 0]]

SetPos(b, p) == check_available([b EXCEPT !.pos = p])

\* Mutant of MoveHeadBack: the last byte counts as gone one byte early.
MoveHeadBackEarly(b, n) ==
    IF b.pos = 0 \/ b.last = 0 THEN [b EXCEPT !.avail = FALSE]
    ELSE [b EXCEPT !.avail = b.last - b.pos > n, !.pos = @ + n]

\* n is not 0: with 0, n - 1 is UINT32_MAX, but no caller moves by nothing.
MoveHeadBack(b, n) ==
    IF b.pos = 0 \/ b.last = 0 THEN [b EXCEPT !.avail = FALSE]
    ELSE [b EXCEPT !.avail = b.last - b.pos > n - 1, !.pos = @ + n]

MoveTailBack(b, n) ==
    IF b.last # 0 THEN [b EXCEPT !.last = @ + n]
    ELSE check_available([b EXCEPT !.last = b.start + n - 1])

TotalLength(b) == IF b.start = 0 \/ b.end = 0 THEN 0 ELSE b.end - b.start + 1

AvailableLength(b) == IF ~b.avail \/ b.last = 0 \/ b.pos = 0 THEN 0 ELSE b.last - b.pos + 1

UnusedSize(b) ==
    IF ~b.avail THEN 0 ELSE IF b.last # 0 THEN b.end - b.last ELSE b.end - b.start + 1

\* The memory of b with bytes copied to p.
Stored(b, p, bytes) ==
    [b EXCEPT !.mem = [k \in DOMAIN b.mem |->
       IF k \in p .. p + Len(bytes) - 1 THEN bytes[k - p + 1] ELSE b.mem[k]]]

Loaded(b, p, n) == SubSeq(b.mem, p, p + n - 1)

\* A write at the head of the buffer that moves the head behind it.
Put(b, bytes) == MoveHeadBack(Stored(b, b.pos, bytes), Len(bytes))

----------------------------------------------------------------------------
(***************************************************************************)
(* Encoding.  A message is a record: its kind, its id, the 16 bit fields   *)
(* of its kind (handler; code and handler; logic port; status), its body.  *)
(***************************************************************************)
MagicSize == 4
IdSize == 8
LenSize == 4
FieldSize == 2

\* MSG_HEADER_SIZE
HeaderSize == MagicSize + IdSize + LenSize

getDerivePayloadLength(m) == FieldSize * Len(m.fields) + Len(m.body)

encode_header(b, id, len) ==
    Put(Put(Put(b, WriteUInt(MagicSize, Magic)), WriteUInt(IdSize, id)), WriteUInt(LenSize, len))

\* The fields, then the body.  Not every class moves the head behind its last
\* field when no body follows; Encode sets the head back in any case.
encodeDerive(b, m) ==
    LET fields == FoldLeft(LAMBDA c, f : Put(c, WriteUInt(FieldSize, f)), b, m.fields)
    IN Stored(fields, fields.pos, m.body)

Encode(m) ==
    LET size == getDerivePayloadLength(m)
        buf == encodeDerive(encode_header(GetNewAvailableBuffer(HeaderSize + size), m.id, size), m)
    IN SetPos(buf, buf.start)

----------------------------------------------------------------------------
Init ==
    /\ \E m \in FirstMessages, n \in Messages : messages = <<m, n>>
    /\ toSend = messages
    /\ m_pSendingBuffer = NoBuffer
    /\ socket = <<>>
    /\ m_rcvState = "StartToRcvHeader"
    /\ m_pHeaderBuffer = GetNewBuffer(HeaderSize)
    /\ m_payloadBuffer = NoBuffer
    /\ m_header = [magic |-> 0, id |-> 0, len |-> 0]
    /\ received = <<>>
    /\ refused = FALSE

recvVars == <<m_rcvState, m_pHeaderBuffer, m_payloadBuffer, m_header, received>>

\* Send finds nothing under way and takes the next message.
SendEncode ==
    /\ toSend # <<>> /\ ~refused
    /\ m_pSendingBuffer = NoBuffer
    /\ LET size == getDerivePayloadLength(Head(toSend))
       IN \/ /\ size \in 1 .. MaxPayload
             /\ m_pSendingBuffer' = Encode(Head(toSend))
             /\ UNCHANGED refused
          \/ /\ size \notin 1 .. MaxPayload
             /\ refused' = TRUE
             /\ UNCHANGED m_pSendingBuffer
    /\ toSend' = Tail(toSend)
    /\ UNCHANGED <<socket, recvVars, messages>>

\* The socket takes n bytes.  A buffer with nothing left is put back.
SendWrite(n) ==
    /\ n \in 1 .. AvailableLength(m_pSendingBuffer)
    /\ socket' = socket \o Loaded(m_pSendingBuffer, m_pSendingBuffer.pos, n)
    /\ LET b == MoveHeadBack(m_pSendingBuffer, n)
       IN m_pSendingBuffer' = IF AvailableLength(b) <= 0 THEN NoBuffer ELSE b
    /\ UNCHANGED <<toSend, recvVars, refused, messages>>

----------------------------------------------------------------------------
(***************************************************************************)
(* Receiving.                                                              *)
(***************************************************************************)
CheckAndInitBufferPos(b) == IF b.pos = 0 THEN SetPos(b, b.start) ELSE b

\* The buffer a read goes to: a header starts in the zeroed header buffer, a
\* payload in a new one.
HeaderBuffer ==
    IF m_rcvState = "StartToRcvHeader" THEN BZero(m_pHeaderBuffer) ELSE m_pHeaderBuffer
PayloadBuffer ==
    IF m_rcvState = "StartToRcvPayload" THEN GetNewBuffer(m_header.len) ELSE m_payloadBuffer

\* Where in the buffer it goes, and how much of it.
ReadPos(b) == IF b.last # 0 THEN b.last + 1 ELSE b.start
ReadSize(b) ==
    IF m_rcvState \in {"StartToRcvHeader", "StartToRcvPayload"} THEN TotalLength(b)
    ELSE UnusedSize(b)

\* b after a read of n bytes.
ReadInto(b, n) ==
    MoveTailBack(CheckAndInitBufferPos(Stored(b, ReadPos(b), SubSeq(socket, 1, n))), n)

\* The three integers of the header in b, and what is made of them.
HeaderAt(b) ==
    [magic |-> ReadUInt(Loaded(b, b.pos, MagicSize)),
     id |-> ReadUInt(Loaded(b, b.pos + MagicSize, IdSize)),
     len |-> ReadUInt(Loaded(b, b.pos + MagicSize + IdSize, LenSize))]

DecodeMsgHeader(b) ==
    /\ AvailableLength(b) >= HeaderSize
    /\ HeaderAt(b).magic = Magic
    /\ HeaderAt(b).len <= MaxPayload

\* One read of n bytes towards the header.
RecvHeader(n) ==
    /\ m_rcvState \in {"StartToRcvHeader", "RcvingHeader"} /\ ~refused
    /\ n \in 1 .. Len(socket) /\ n <= ReadSize(HeaderBuffer)
    /\ socket' = SubSeq(socket, n + 1, Len(socket))
    /\ LET b == ReadInto(HeaderBuffer, n)
       IN /\ m_pHeaderBuffer' = b
          /\ \/ /\ AvailableLength(b) # TotalLength(b)
                /\ m_rcvState' = "RcvingHeader"
                /\ UNCHANGED <<m_header, refused>>
             \/ /\ AvailableLength(b) = TotalLength(b) /\ DecodeMsgHeader(b)
                /\ m_header' = HeaderAt(b)
                /\ m_rcvState' = "StartToRcvPayload"
                /\ UNCHANGED refused
             \/ /\ AvailableLength(b) = TotalLength(b) /\ ~DecodeMsgHeader(b)
                /\ refused' = TRUE
                /\ UNCHANGED <<m_rcvState, m_header>>
    /\ UNCHANGED <<toSend, m_pSendingBuffer, m_payloadBuffer, received, messages>>

(***************************************************************************)
(* The payload in b, read as a message of the kind the receiver expects:   *)
(* RpcServer::proc_msg for a request, ARpcSyncClient::recvMessage and the  *)
(* stub of the rpc for a response, handshake for the two connect messages. *)
(* A field is read and the head moved behind it; the body is what is then  *)
(* available.                                                              *)
(***************************************************************************)
FieldCount(kind) == IF kind = "response" THEN 2 ELSE 1

Decode(b, kind) ==
    LET first == ReadUInt(Loaded(b, b.pos, FieldSize))
        b1 == MoveHeadBack(b, FieldSize)
        second == ReadUInt(Loaded(b1, b1.pos, FieldSize))
        b2 == IF FieldCount(kind) = 2 THEN MoveHeadBack(b1, FieldSize) ELSE b1
    IN [kind |-> kind, id |-> m_header.id,
        fields |-> IF FieldCount(kind) = 2 THEN <<first, second>> ELSE <<first>>,
        body |-> Loaded(b2, b2.pos, AvailableLength(b2))]

\* One read of n bytes towards the payload.
RecvPayload(n) ==
    /\ m_rcvState \in {"StartToRcvPayload", "RcvingPayload"} /\ ~refused
    /\ n \in 1 .. Len(socket) /\ n <= ReadSize(PayloadBuffer)
    /\ socket' = SubSeq(socket, n + 1, Len(socket))
    /\ LET b == ReadInto(PayloadBuffer, n)
       IN \/ /\ AvailableLength(b) # m_header.len
             /\ m_payloadBuffer' = b
             /\ m_rcvState' = "RcvingPayload"
             /\ UNCHANGED received
          \/ /\ AvailableLength(b) = m_header.len
             /\ received' = Append(received, Decode(b, messages[Len(received) + 1].kind))
             /\ m_payloadBuffer' = NoBuffer
             /\ m_rcvState' = "StartToRcvHeader"
    /\ UNCHANGED <<toSend, m_pSendingBuffer, m_pHeaderBuffer, m_header, refused, messages>>

Next ==
    \/ SendEncode
    \/ \E n \in 1 .. AvailableLength(m_pSendingBuffer) : SendWrite(n)
    \/ \E n \in 1 .. Len(socket) : RecvHeader(n) \/ RecvPayload(n)

Spec == Init /\ [][Next]_vars

----------------------------------------------------------------------------
\* What was encoded is decoded: every message arrives with its id, fields and
\* body, in the order sent, however the socket cuts the bytes of Send and
\* Recv; one is refused only for its size.
Roundtrip ==
    /\ received = SubSeq(messages, 1, Len(received))
    /\ refused => \E i \in 1 .. 2 : getDerivePayloadLength(messages[i]) \notin 1 .. MaxPayload
=============================================================================
