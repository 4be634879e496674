----------------------------- MODULE MCMemPool ------------------------------
(***************************************************************************)
(* Memory and containers for TLC: the slots of small objects of MemPool,   *)
(* its bulk objects, the buffers messages are encoded to and decoded from, *)
(* the skip list, and the arithmetic that chooses a slot for a size.  They *)
(* share no state: slots and bulk objects have locks and pages of their    *)
(* own, a buffer keeps the object it was given, and the list allocates its *)
(* nodes itself.  A behaviour is about one of them, the one subject names. *)
(***************************************************************************)
EXTENDS MemPoolSlots, PoolMemory, Dictionary, TLC

CONSTANTS tiny, small

VARIABLES subject,
          toSend, m_pSendingBuffer, socket, m_rcvState, m_pHeaderBuffer, m_payloadBuffer,
          m_header, received, refused, messages

wireVars == <<toSend, m_pSendingBuffer, socket, m_rcvState, m_pHeaderBuffer, m_payloadBuffer,
              m_header, received, refused, messages>>

\* Two slots with different page splits and limits.
MCSlots == {tiny, small}
MCOnePageObjsCnt == (tiny :> 2) @@ (small :> 1)
MCResidentCnts == (tiny :> 1) @@ (small :> 0)

\* Messages of each kind, with and without a body, with ids up to the largest
\* one, payloads up to the largest and one byte above it.
MCMsg(kind, id, fields, body) == [kind |-> kind, id |-> id, fields |-> fields, body |-> body]

MCFirstMessages ==
    {MCMsg("request", 1, <<7>>, <<3, 0>>), MCMsg("response", 65534, <<0, 9>>, <<>>)}

MCMessages ==
    {MCMsg("request", 258, <<1>>, <<>>), MCMsg("request", 2, <<15>>, <<0, 3, 1>>),
     MCMsg("request", 2, <<15>>, <<0, 3, 1, 2>>), MCMsg("response", 65534, <<0, 3>>, <<2>>),
     MCMsg("connect request", 3, <<13>>, <<>>), MCMsg("connect response", 4, <<1>>, <<2, 2>>)}

Wire == INSTANCE Wire WITH
    ByteVals <- 4, Magic <- 228, MaxPayload <- 5,
    FirstMessages <- MCFirstMessages, Messages <- MCMessages

MCInit ==
    /\ subject \in {"slots", "bulk", "wire", "list", "sizes"}
    /\ Init /\ Bulk!Init /\ Wire!Init /\ List!Init /\ Sizes!Init
    /\ subject = "wire" \/ messages = CHOOSE p \in MCFirstMessages \X MCMessages : TRUE

MCNext ==
    \/ subject = "slots" /\ Next /\ UNCHANGED <<subject, bulkVars, wireVars, listVars, sizeVars>>
    \/ subject = "bulk" /\ Bulk!Next /\ UNCHANGED <<subject, vars, wireVars, listVars, sizeVars>>
    \/ subject = "wire" /\ Wire!Next /\ UNCHANGED <<subject, vars, bulkVars, listVars, sizeVars>>
    \/ subject = "list" /\ List!Next /\ UNCHANGED <<subject, vars, bulkVars, wireVars, sizeVars>>
    \/ subject = "sizes" /\ Sizes!Next /\ UNCHANGED <<subject, vars, bulkVars, wireVars, listVars>>

MCSpec == MCInit /\ [][MCNext]_<<subject, vars, bulkVars, wireVars, listVars, sizeVars>>

\* What SndMessage::Encode wrote is what the receiver decodes, message by
\* message, however Send and Recv cut the bytes; only a payload above the
\* limit is refused (buffer.h, snd-message.cc, rcv-message.cc).
Roundtrip == Wire!Roundtrip
=============================================================================
