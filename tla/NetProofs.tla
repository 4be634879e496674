------------------------------ MODULE NetProofs -----------------------------
(***************************************************************************)
(* Proofs about the two directions of a connection. Of NetRecv: however    *)
(* the stream is cut into reads, what is delivered is what was sent.       *)
(*                                                                         *)
(* Of NetSend: the order of the messages, and that neither an external     *)
(* event nor a half-written message is left behind a sleeping IO thread,   *)
(* for every set of messages and every size.                               *)
(***************************************************************************)
EXTENDS NetSend, NetReceiving, TLAPS

RecvBytes == Nat \X Nat
RecvCount == Len(MsgLens)

\* The bytes of message i; message 0 is the bad header.
RecvSize(i) == IF i = 0 THEN HeaderSize ELSE HeaderSize + MsgLens[i]

\* What is in the socket and, if the peer goes on, the byte it sends next.
RecvRest ==
    IF peer.bad = 0 /\ peer.msg <= RecvCount THEN Append(rsock, <<peer.msg, peer.pos>>) ELSE rsock

\* A piece of the peer's stream: the bytes of a message follow each other, and
\* a message is followed by the next one or by the bad header, which is the last.
RecvStream(s) ==
    /\ s \in Seq(RecvBytes)
    /\ \A j \in DOMAIN s : s[j][1] \in 0 .. RecvCount /\ s[j][2] \in 1 .. RecvSize(s[j][1])
    /\ \A j, k \in DOMAIN s : j <= k /\ s[j][2] + (k - j) <= RecvSize(s[j][1]) =>
         s[k] = <<s[j][1], s[j][2] + (k - j)>>
    /\ \A j \in DOMAIN s : j + 1 \in DOMAIN s /\ s[j][2] = RecvSize(s[j][1]) =>
         s[j][1] # 0 /\ s[j + 1] \in {<<s[j][1] + 1, 1>>, <<0, 1>>}

RecvTypes ==
    /\ peer \in [msg : 1 .. RecvCount + 1, pos : Nat, bad : Nat, end : {"no", "closed", "broken"}]
    /\ rsock \in Seq(RecvBytes)
    /\ m_rcvState \in {"StartToRcvHeader", "RcvingHeader", "StartToRcvPayload", "RcvingPayload"}
    /\ m_pHeaderBuffer \in Seq(RecvBytes) /\ m_payloadBuffer \in Seq(RecvBytes)
    /\ delivered \in Seq(Seq(RecvBytes))

\* The message being received.
RecvNow == Len(delivered) + 1

\* What is left of the stream begins where the buffers end.
RecvAtHeader == RecvRest # <<>> => RecvRest[1] \in {<<RecvNow, 1>>, <<0, 1>>}

RecvInHeader(i) ==
    /\ i \in {0, RecvNow}
    /\ Len(m_pHeaderBuffer) \in 1 .. HeaderSize - 1
    /\ \A k \in DOMAIN m_pHeaderBuffer : m_pHeaderBuffer[k] = <<i, k>>
    /\ RecvRest # <<>> => RecvRest[1] = <<i, Len(m_pHeaderBuffer) + 1>>

RecvHeaderRead ==
    /\ RecvNow \in 1 .. RecvCount
    /\ Len(m_pHeaderBuffer) = HeaderSize /\ m_pHeaderBuffer[1] = <<RecvNow, 1>>

RecvAtPayload == RecvHeaderRead /\ (RecvRest # <<>> => RecvRest[1] = <<RecvNow, HeaderSize + 1>>)

RecvInPayload ==
    /\ RecvHeaderRead
    /\ Len(m_payloadBuffer) \in 0 .. MsgLens[RecvNow] - 1
    /\ \A k \in DOMAIN m_payloadBuffer : m_payloadBuffer[k] = <<RecvNow, HeaderSize + k>>
    /\ RecvRest # <<>> => RecvRest[1] = <<RecvNow, HeaderSize + Len(m_payloadBuffer) + 1>>

RecvPosition ==
    /\ m_rcvState = "StartToRcvHeader" => RecvAtHeader
    /\ m_rcvState = "RcvingHeader" => \E i \in {0, RecvNow} : RecvInHeader(i)
    /\ m_rcvState = "StartToRcvPayload" => RecvAtPayload
    /\ m_rcvState = "RcvingPayload" => RecvInPayload

RecvIInv ==
    /\ RecvTypes /\ Recv!Framed
    /\ peer.bad = 0 /\ peer.msg <= RecvCount => peer.pos \in 1 .. RecvSize(peer.msg)
    /\ rio # "gone" => RecvStream(RecvRest) /\ RecvPosition

\* Two streams of the same bytes are the same.
LEMMA RecvSame ==
  ASSUME NEW S, NEW s \in Seq(S), NEW t \in Seq(S), Len(s) = Len(t),
         \A k \in 1 .. Len(s) : s[k] = t[k]
  PROVE  s = t
  OBVIOUS

\* The index arithmetic of the operators on sequences.
LEMMA RecvCut ==
  ASSUME NEW S, NEW s \in Seq(S), NEW n \in 0 .. Len(s)
  PROVE  /\ SubSeq(s, 1, n) \in Seq(S) /\ Len(SubSeq(s, 1, n)) = n
         /\ \A k \in 1 .. n : SubSeq(s, 1, n)[k] = s[k]
         /\ SubSeq(s, n + 1, Len(s)) \in Seq(S) /\ Len(SubSeq(s, n + 1, Len(s))) = Len(s) - n
         /\ \A k \in 1 .. Len(s) - n : SubSeq(s, n + 1, Len(s))[k] = s[n + k]
  OBVIOUS

\* Concatenation, by index.
LEMMA RecvJoin ==
  ASSUME NEW S, NEW s \in Seq(S), NEW t \in Seq(S)
  PROVE  /\ s \o t \in Seq(S) /\ Len(s \o t) = Len(s) + Len(t)
         /\ \A k \in 1 .. Len(s) : (s \o t)[k] = s[k]
         /\ \A k \in 1 .. Len(t) : (s \o t)[Len(s) + k] = t[k]
  OBVIOUS

\* Append, by index.
LEMMA RecvMore ==
  ASSUME NEW S, NEW s \in Seq(S), NEW x \in S
  PROVE  /\ Append(s, x) \in Seq(S) /\ Len(Append(s, x)) = Len(s) + 1
         /\ \A k \in 1 .. Len(s) : Append(s, x)[k] = s[k]
         /\ Append(s, x)[Len(s) + 1] = x
  OBVIOUS

\* Cutting the front off a longer sequence.
LEMMA RecvCutMore ==
  ASSUME NEW S, NEW s \in Seq(S), NEW x \in S, NEW n \in 0 .. Len(s)
  PROVE  SubSeq(Append(s, x), n + 1, Len(s) + 1) = Append(SubSeq(s, n + 1, Len(s)), x)
  <1> DEFINE a == SubSeq(Append(s, x), n + 1, Len(s) + 1)
             c == SubSeq(s, n + 1, Len(s))
             b == Append(c, x)
  <1>1. Len(s) \in Nat /\ n \in Nat /\ n <= Len(s)
    OBVIOUS
  <1>2. /\ Append(s, x) \in Seq(S) /\ Len(Append(s, x)) = Len(s) + 1
        /\ (\A k \in 1 .. Len(s) : Append(s, x)[k] = s[k]) /\ Append(s, x)[Len(s) + 1] = x
    BY Zenon, RecvMore
  <1>3. n \in 0 .. Len(Append(s, x))
    BY <1>1, <1>2
  <1>4. /\ a \in Seq(S) /\ Len(a) = Len(s) + 1 - n
        /\ \A k \in 1 .. Len(s) + 1 - n : a[k] = Append(s, x)[n + k]
    BY <1>1, <1>2, <1>3, RecvCut
  <1>5. c \in Seq(S) /\ Len(c) = Len(s) - n /\ \A k \in 1 .. Len(s) - n : c[k] = s[n + k]
    BY Zenon, RecvCut
  <1> HIDE DEF c
  <1>6. /\ b \in Seq(S) /\ Len(b) = Len(c) + 1 /\ (\A k \in 1 .. Len(c) : b[k] = c[k])
        /\ b[Len(c) + 1] = x
    BY <1>5, RecvMore
  <1>7. ASSUME NEW k \in 1 .. Len(a) PROVE a[k] = b[k]
    <2>1. CASE k \in 1 .. Len(s) - n
      <3>1. n + k \in 1 .. Len(s)
        BY <1>1, <2>1
      <3> QED
        BY Zenon, <1>1, <1>2, <1>4, <1>5, <1>6, <2>1, <3>1
    <2>2. CASE k = Len(s) + 1 - n
      <3>1. n + k = Len(s) + 1 /\ k = Len(c) + 1
        BY <1>1, <1>5, <2>2
      <3> QED
        BY Zenon, <1>2, <1>4, <1>6, <3>1
    <2>3. \A q \in Nat : n <= q => \A j \in 1 .. q + 1 - n : j \in 1 .. q - n \/ j = q + 1 - n
      BY <1>1
    <2>4. k \in 1 .. Len(s) + 1 - n
      BY Zenon, <1>4
    <2> QED
      BY Zenon, <1>1, <2>1, <2>2, <2>3, <2>4
  <1>8. Len(a) = Len(b)
    BY <1>1, <1>4, <1>5, <1>6
  <1> HIDE DEF a, b, c
  <1>9. a = b
    BY Zenon, <1>4, <1>6, <1>7, <1>8, RecvSame
  <1> QED
    BY Zenon, <1>9 DEF a, b, c

\* A message has at least one byte.
LEMMA RecvSizes ==
  ASSUME Recv!RecvAssumption
  PROVE  /\ RecvCount \in Nat
         /\ \A i \in 0 .. RecvCount : RecvSize(i) \in Nat /\ RecvSize(i) >= HeaderSize /\ RecvSize(i) > 0
         /\ \A i \in 1 .. RecvCount : MsgLens[i] \in Nat \ {0} /\ RecvSize(i) = HeaderSize + MsgLens[i]
  BY DEF Recv!RecvAssumption, RecvCount, RecvSize

\* A stream begins with the rest of one message.
LEMMA RecvAhead ==
  ASSUME NEW s, RecvStream(s), Recv!RecvAssumption, s # <<>>, NEW i, NEW p, s[1] = <<i, p>>
  PROVE  /\ i \in 0 .. RecvCount /\ p \in 1 .. RecvSize(i)
         /\ \A k \in DOMAIN s : p + (k - 1) <= RecvSize(i) => s[k] = <<i, p + (k - 1)>>
  <1>1. 1 \in DOMAIN s
    BY DEF RecvStream
  <1> QED
    BY <1>1, RecvSizes DEF RecvStream

\* What is left of a stream when its front is read is a stream.
LEMMA RecvStreamCut ==
  ASSUME NEW s, RecvStream(s), Recv!RecvAssumption, NEW n \in 0 .. Len(s)
  PROVE  RecvStream(SubSeq(s, n + 1, Len(s)))
  <1> DEFINE t == SubSeq(s, n + 1, Len(s))
  <1>1. /\ t \in Seq(RecvBytes) /\ DOMAIN t = 1 .. Len(s) - n
        /\ \A k \in DOMAIN t : t[k] = s[n + k] /\ n + k \in DOMAIN s
    BY SMTT(60), RecvCut DEF RecvStream
  <1> HIDE DEF t
  <1>2. \A j \in DOMAIN t : t[j][1] \in 0 .. RecvCount /\ t[j][2] \in 1 .. RecvSize(t[j][1])
    BY Zenon, <1>1 DEF RecvStream
  <1>3. ASSUME NEW j \in DOMAIN t, NEW k \in DOMAIN t, j <= k, t[j][2] + (k - j) <= RecvSize(t[j][1])
        PROVE  t[k] = <<t[j][1], t[j][2] + (k - j)>>
    <2>1. n + j \in DOMAIN s /\ n + k \in DOMAIN s /\ t[j] = s[n + j] /\ t[k] = s[n + k]
          /\ n + j <= n + k /\ (n + k) - (n + j) = k - j
      BY <1>1, <1>3
    <2> QED
      BY Zenon, <1>3, <2>1 DEF RecvStream
  <1>4. ASSUME NEW j \in DOMAIN t, j + 1 \in DOMAIN t, t[j][2] = RecvSize(t[j][1])
        PROVE  t[j][1] # 0 /\ t[j + 1] \in {<<t[j][1] + 1, 1>>, <<0, 1>>}
    <2>1. n + j \in DOMAIN s /\ (n + j) + 1 \in DOMAIN s /\ t[j] = s[n + j] /\ t[j + 1] = s[(n + j) + 1]
      BY SMTT(60), <1>1, <1>4
    <2> QED
      BY Zenon, <1>4, <2>1 DEF RecvStream
  <1> QED
    BY Zenon, <1>1, <1>2, <1>3, <1>4 DEF RecvStream, t

\* A stream goes on with the next byte of the peer.
LEMMA RecvStreamMore ==
  ASSUME NEW s, RecvStream(s), Recv!RecvAssumption, s # <<>>, NEW y \in RecvBytes,
         y[1] \in 0 .. RecvCount, y[2] \in 1 .. RecvSize(y[1]),
         s[Len(s)][2] # RecvSize(s[Len(s)][1]) => y = <<s[Len(s)][1], s[Len(s)][2] + 1>>,
         s[Len(s)][2] = RecvSize(s[Len(s)][1]) => s[Len(s)][1] # 0 /\ y = <<s[Len(s)][1] + 1, 1>>
  PROVE  RecvStream(Append(s, y))
  <1> DEFINE t == Append(s, y)
             n == Len(s)
  <1>1. /\ t \in Seq(RecvBytes) /\ DOMAIN t = 1 .. n + 1 /\ n \in DOMAIN s /\ DOMAIN s = 1 .. n
        /\ (\A k \in DOMAIN s : t[k] = s[k]) /\ t[n + 1] = y
    BY RecvMore DEF RecvStream
  <1>2. \A j \in DOMAIN s : s[j][1] \in 0 .. RecvCount /\ s[j][2] \in 1 .. RecvSize(s[j][1])
    BY Zenon DEF RecvStream
  <1>3. n \in Nat /\ \A i \in 0 .. RecvCount : RecvSize(i) \in Nat
    BY RecvSizes DEF RecvStream
  <1> HIDE DEF t, n
  <1>4. \A j \in DOMAIN t : t[j][1] \in 0 .. RecvCount /\ t[j][2] \in 1 .. RecvSize(t[j][1])
    BY <1>1, <1>2, <1>3
  <1>5. ASSUME NEW j \in DOMAIN t, NEW k \in DOMAIN t, j <= k, t[j][2] + (k - j) <= RecvSize(t[j][1])
        PROVE  t[k] = <<t[j][1], t[j][2] + (k - j)>>
    <2>1. CASE k \in DOMAIN s
      <3>1. j \in DOMAIN s
        BY <1>1, <1>3, <1>5, <2>1
      <3> QED
        BY Zenon, <1>1, <1>5, <2>1, <3>1 DEF RecvStream
    <2>2. CASE k = n + 1 /\ j = n + 1
      <3>1. t[j] = y /\ t[k] = y /\ k - j = 0 /\ y[2] \in Nat
        BY <1>1, <1>3, <2>2
      <3> QED
        BY <3>1 DEF RecvBytes
    <2>3. CASE k = n + 1 /\ j \in DOMAIN s
      <3>1. s[j][2] + (n - j) < RecvSize(s[j][1]) /\ j <= n
        BY SMTT(60), <1>1, <1>2, <1>3, <1>5, <2>3
      <3>2. s[n] = <<s[j][1], s[j][2] + (n - j)>>
        <4>1. j \in DOMAIN s /\ n \in DOMAIN s /\ j <= n /\ s[j][2] + (n - j) <= RecvSize(s[j][1])
          BY SMTT(60), <1>1, <1>2, <1>3, <2>3, <3>1
        <4> QED
          BY Zenon, <4>1 DEF RecvStream
      <3>3. y = <<s[n][1], s[n][2] + 1>>
        BY <1>2, <1>3, <2>3, <3>1, <3>2 DEF n
      <3>4. s[n][1] = s[j][1] /\ s[n][2] = s[j][2] + (n - j)
        BY <3>2
      <3>5. s[n][2] + 1 = s[j][2] + (k - j)
        BY SMTT(60), <1>1, <1>2, <1>3, <2>3, <3>4
      <3> QED
        BY Zenon, <1>1, <2>3, <3>3, <3>4, <3>5
    <2> QED
      BY <1>1, <1>3, <2>1, <2>2, <2>3
  <1>6. ASSUME NEW j \in DOMAIN t, j + 1 \in DOMAIN t, t[j][2] = RecvSize(t[j][1])
        PROVE  t[j][1] # 0 /\ t[j + 1] \in {<<t[j][1] + 1, 1>>, <<0, 1>>}
    <2>1. j \in DOMAIN s /\ t[j] = s[j]
      BY <1>1, <1>3, <1>6
    <2>2. CASE j + 1 \in DOMAIN s
      BY Zenon, <1>1, <1>6, <2>1, <2>2 DEF RecvStream
    <2>3. CASE j = n
      BY Zenon, <1>1, <1>6, <2>1, <2>3 DEF n
    <2> QED
      BY <1>1, <1>3, <1>6, <2>2, <2>3
  <1> QED
    BY Zenon, <1>1, <1>4, <1>5, <1>6 DEF RecvStream, t

\* A stream may end in the bad header.
LEMMA RecvStreamBad ==
  ASSUME NEW s \in Seq(RecvBytes), NEW m, RecvStream(Append(s, <<m, 1>>)), Recv!RecvAssumption, m \in 1 .. RecvCount
  PROVE  RecvStream(s \o [k \in 1 .. HeaderSize |-> <<0, k>>])
  <1> DEFINE b == [k \in 1 .. HeaderSize |-> <<0, k>>]
             t == s \o b
             r == Append(s, <<m, 1>>)
             n == Len(s)
  <1>1. b \in Seq(RecvBytes) /\ Len(b) = HeaderSize /\ HeaderSize \in Nat \ {0}
    BY DEF Recv!RecvAssumption, RecvBytes
  <1>2. /\ t \in Seq(RecvBytes) /\ DOMAIN t = 1 .. n + HeaderSize /\ n \in Nat
        /\ \A k \in 1 .. n : t[k] = s[k]
        /\ \A k \in n + 1 .. n + HeaderSize : t[k] = <<0, k - n>>
    <2>1. t \in Seq(RecvBytes) /\ DOMAIN t = 1 .. n + HeaderSize /\ n \in Nat
          /\ \A k \in 1 .. n : t[k] = s[k]
      BY <1>1, RecvJoin
    <2>2. ASSUME NEW k \in n + 1 .. n + HeaderSize PROVE t[k] = <<0, k - n>>
      <3>1. k - n \in 1 .. Len(b) /\ n + (k - n) = k
        BY <1>1, <2>1
      <3>2. t[n + (k - n)] = b[k - n]
        BY <1>1, <3>1, RecvJoin
      <3> QED
        BY Zenon, <1>1, <3>1, <3>2
    <2> QED
      BY Zenon, <2>1, <2>2
  <1>3. /\ DOMAIN r = 1 .. n + 1 /\ r[n + 1] = <<m, 1>> /\ \A k \in 1 .. n : r[k] = s[k]
    BY RecvMore, RecvSizes DEF RecvBytes
  <1>0. RecvStream(r)
    BY Zenon
  <1>5. RecvSize(0) = HeaderSize /\ RecvCount \in Nat /\ \A i \in 0 .. RecvCount : RecvSize(i) \in Nat
    BY Zenon, RecvSizes DEF RecvSize
  <1> HIDE DEF t, n, r, b
  <1>4. \A j \in 1 .. n : s[j][1] \in 0 .. RecvCount /\ s[j][2] \in 1 .. RecvSize(s[j][1])
    <2>1. \A j \in DOMAIN r : r[j][1] \in 0 .. RecvCount /\ r[j][2] \in 1 .. RecvSize(r[j][1])
      BY Zenon, <1>0 DEF RecvStream
    <2>2. \A j \in 1 .. n : j \in DOMAIN r /\ r[j] = s[j]
      BY <1>2, <1>3
    <2> QED
      BY Zenon, <2>1, <2>2
  <1>6. \A j \in DOMAIN t : t[j][1] \in 0 .. RecvCount /\ t[j][2] \in 1 .. RecvSize(t[j][1])
    <2>1. ASSUME NEW j \in n + 1 .. n + HeaderSize
          PROVE  t[j][1] \in 0 .. RecvCount /\ t[j][2] \in 1 .. RecvSize(t[j][1])
      <3>1. t[j][1] = 0 /\ t[j][2] = j - n /\ j - n \in 1 .. HeaderSize
        BY <1>1, <1>2
      <3> QED
        BY <1>5, <3>1
    <2> QED
      BY SMTT(60), <1>1, <1>2, <1>4, <2>1
  <1>7. ASSUME NEW j \in DOMAIN t, NEW k \in DOMAIN t, j <= k, t[j][2] + (k - j) <= RecvSize(t[j][1])
        PROVE  t[k] = <<t[j][1], t[j][2] + (k - j)>>
    <2>1. CASE k \in 1 .. n
      <3>1. j \in DOMAIN r /\ k \in DOMAIN r /\ t[j] = r[j] /\ t[k] = r[k]
        BY SMTT(60), <1>2, <1>3, <1>7, <2>1
      <3> QED
        BY Zenon, <1>0, <1>7, <3>1 DEF RecvStream
    <2>2. CASE j \in n + 1 .. n + HeaderSize
      <3>1. k \in n + 1 .. n + HeaderSize /\ t[j][1] = 0 /\ t[j][2] = j - n /\ t[k] = <<0, k - n>>
        <4>1. n \in Nat /\ HeaderSize \in Nat /\ k \in 1 .. n + HeaderSize
          BY Zenon, <1>1, <1>2
        <4>2. k \in n + 1 .. n + HeaderSize
          BY <1>7, <2>2, <4>1
        <4> QED
          BY <1>2, <2>2, <4>2
      <3>2. t[j][2] + (k - j) = k - n
        BY <1>1, <1>2, <2>2, <3>1
      <3> QED
        BY Zenon, <3>1, <3>2
    <2>3. CASE j \in 1 .. n /\ k \in n + 1 .. n + HeaderSize
      <3>1. j \in DOMAIN r /\ n + 1 \in DOMAIN r /\ j <= n + 1 /\ r[j] = s[j]
            /\ t[j] = s[j]
        BY <1>1, <1>2, <1>3, <2>3
      <3>2. s[j][2] \in Nat \ {0} /\ RecvSize(s[j][1]) \in Nat
        <4>1. s[j][1] \in 0 .. RecvCount /\ s[j][2] \in 1 .. RecvSize(s[j][1])
          BY Zenon, <1>4, <2>3
        <4>2. RecvSize(s[j][1]) \in Nat
          BY Zenon, <1>5, <4>1
        <4> QED
          BY <4>1, <4>2
      <3>3. r[j][2] + ((n + 1) - j) <= RecvSize(r[j][1])
        <4>1. n \in Nat /\ HeaderSize \in Nat
          BY Zenon, <1>1, <1>2
        <4>2. s[j][2] + (k - j) <= RecvSize(s[j][1])
          BY Zenon, <1>7, <3>1
        <4>3. j \in Nat /\ k \in Nat /\ n + 1 <= k /\ j <= n
          BY <2>3, <4>1
        <4>4. \A x, z \in Nat : x + (k - j) <= z => x + ((n + 1) - j) <= z
          BY <4>1, <4>3
        <4> QED
          BY Zenon, <3>1, <3>2, <4>2, <4>4
      <3>4. r[n + 1] = <<r[j][1], r[j][2] + ((n + 1) - j)>>
        BY Zenon, <1>0, <3>1, <3>3 DEF RecvStream
      <3>5. r[j][2] + ((n + 1) - j) = 1
        BY <1>3, <3>4
      <3>6. n \in Nat /\ j \in Nat /\ j <= n
        BY <1>2, <2>3
      <3>7. \A x \in Nat \ {0} : x + ((n + 1) - j) # 1
        BY <3>6
      <3> QED
        BY Zenon, <3>1, <3>2, <3>5, <3>7
    <2> QED
      BY SMTT(60), <1>1, <1>2, <1>7, <2>1, <2>2, <2>3
  <1>8. ASSUME NEW j \in DOMAIN t, j + 1 \in DOMAIN t, t[j][2] = RecvSize(t[j][1])
        PROVE  t[j][1] # 0 /\ t[j + 1] \in {<<t[j][1] + 1, 1>>, <<0, 1>>}
    <2>1. CASE j + 1 \in 1 .. n
      <3>1. j \in DOMAIN r /\ j + 1 \in DOMAIN r /\ t[j] = r[j] /\ t[j + 1] = r[j + 1]
        BY SMTT(60), <1>2, <1>3, <1>8, <2>1
      <3> QED
        BY Zenon, <1>0, <1>8, <3>1 DEF RecvStream
    <2>2. CASE j = n
      <3>1. j \in DOMAIN r /\ j + 1 \in DOMAIN r /\ t[j] = r[j] /\ t[j + 1] = <<0, 1>>
        BY <1>1, <1>2, <1>3, <1>8, <2>2
      <3> QED
        BY Zenon, <1>0, <1>8, <3>1 DEF RecvStream
    <2>3. CASE j \in n + 1 .. n + HeaderSize
      BY <1>1, <1>2, <1>5, <1>8, <2>3
    <2> QED
      BY <1>1, <1>2, <1>8, <2>1, <2>2, <2>3
  <1> QED
    BY Zenon, <1>2, <1>6, <1>7, <1>8 DEF RecvStream, t, b

\* How what is left of the stream changes.
LEMMA RecvRestSeq ==
  ASSUME Recv!RecvAssumption, RecvTypes
  PROVE  /\ RecvRest \in Seq(RecvBytes) /\ Len(RecvRest) >= Len(rsock) /\ Len(rsock) \in Nat
         /\ \A k \in 1 .. Len(rsock) : RecvRest[k] = rsock[k]
         /\ Len(RecvRest) \in {Len(rsock), Len(rsock) + 1}
  <1>1. <<peer.msg, peer.pos>> \in RecvBytes
    BY RecvSizes DEF RecvTypes, RecvBytes
  <1> QED
    BY <1>1, RecvMore DEF RecvRest, RecvTypes

\* Reading takes the front of Rest away.
LEMMA RecvRestCut ==
  ASSUME Recv!RecvAssumption, RecvTypes, NEW n \in 0 .. Len(rsock),
         rsock' = SubSeq(rsock, n + 1, Len(rsock)), UNCHANGED peer
  PROVE  /\ rsock' \in Seq(RecvBytes) /\ RecvRest' = SubSeq(RecvRest, n + 1, Len(RecvRest))
  <1>1. rsock' \in Seq(RecvBytes)
    BY Zenon, RecvCut DEF RecvTypes
  <1>2. CASE peer.bad = 0 /\ peer.msg <= RecvCount
    <2> DEFINE x == <<peer.msg, peer.pos>>
    <2>1. x \in RecvBytes
      BY SMTT(60), RecvSizes DEF RecvTypes, RecvBytes
    <2> HIDE DEF x
    <2>2. /\ Append(rsock, x) \in Seq(RecvBytes) /\ Len(Append(rsock, x)) = Len(rsock) + 1
          /\ Len(rsock) \in Nat
      BY <2>1, RecvMore DEF RecvTypes
    <2>3. SubSeq(Append(rsock, x), n + 1, Len(rsock) + 1) = Append(SubSeq(rsock, n + 1, Len(rsock)), x)
      BY Zenon, <2>1, RecvCutMore DEF RecvTypes
    <2> QED
      BY Zenon, <1>1, <1>2, <2>2, <2>3 DEF RecvRest, x
  <1>3. CASE ~(peer.bad = 0 /\ peer.msg <= RecvCount)
    BY Zenon, <1>1, <1>3 DEF RecvRest
  <1> QED
    BY Zenon, <1>1, <1>2, <1>3

\* A step that does not read.
LEMMA RecvNotRead ==
  ASSUME Recv!RecvAssumption, RecvIInv, UNCHANGED Recv!rcv,
         RecvTypes', peer'.bad = 0 /\ peer'.msg <= RecvCount => peer'.pos \in 1 .. RecvSize(peer'.msg),
         rio' # "gone" => rio # "gone" /\ RecvStream(RecvRest'),
         RecvRest' # <<>> => RecvRest # <<>> /\ RecvRest'[1] = RecvRest[1]
  PROVE  RecvIInv'
  <1>1. Recv!Framed' /\ RecvNow' = RecvNow
    BY Zenon DEF RecvIInv, Recv!Framed, RecvNow, Recv!rcv
  <1>2. ASSUME rio' # "gone" PROVE RecvPosition'
    <2>1. RecvPosition
      BY Zenon, <1>2 DEF RecvIInv
    <2>2. (m_rcvState = "RcvingHeader")' => \E i \in {0, RecvNow'} : RecvInHeader(i)'
      BY Zenon, <1>1, <2>1 DEF RecvPosition, RecvInHeader, Recv!rcv
    <2> QED
      BY Zenon, <1>1, <2>1, <2>2
         DEF RecvPosition, RecvAtHeader, RecvAtPayload, RecvInPayload, RecvHeaderRead, Recv!rcv
  <1> QED
    BY Zenon, <1>1, <1>2 DEF RecvIInv

\* A read that goes on with what the buffer holds, the bytes of message i
\* after its first base bytes, and what it makes of the buffer and the stream.
RecvReads(have, size, i, base) ==
    /\ RecvTypes /\ RecvStream(RecvRest) /\ rsock # <<>>
    /\ have \in Seq(RecvBytes) /\ size \in Nat /\ Len(have) < size
    /\ base \in Nat /\ base + size <= RecvSize(i)
    /\ RecvRest # <<>> => RecvRest[1] = <<i, base + Len(have) + 1>>
    /\ \A k \in DOMAIN have : have[k] = <<i, base + k>>

RecvReadTo(h, size, i, base) ==
    /\ h \in Seq(RecvBytes) /\ Len(h) \in 1 .. size
    /\ \A k \in 1 .. Len(h) : h[k] = <<i, base + k>>
    /\ rsock' \in Seq(RecvBytes) /\ RecvStream(RecvRest')
    /\ i \in 0 .. RecvCount
    /\ base + Len(h) < RecvSize(i) => (RecvRest' # <<>> => RecvRest'[1] = <<i, base + Len(h) + 1>>)
    /\ base + Len(h) = RecvSize(i) =>
         (RecvRest' # <<>> => i # 0 /\ RecvRest'[1] \in {<<i + 1, 1>>, <<0, 1>>})

\* A read takes the bytes of one message only, those that follow what the
\* buffer holds, and what is left begins with the byte after them.
LEMMA RecvReading ==
  ASSUME NEW have, NEW size, NEW i, NEW base,
         Recv!RecvAssumption, RecvReads(have, size, i, base), Recv!Take(Len(Recv!Taken(have, size)))
  PROVE  RecvReadTo(have \o Recv!Taken(have, size), size, i, base)
  <1> USE DEF RecvReads
  <1>0. PICK h : h = have \o Recv!Taken(have, size)
    BY Zenon
  <1>1. PICK n \in Nat : n = Recv!Least(size - Len(have), Len(rsock))
    BY DEF RecvTypes, Recv!Least
  <1>2. PICK l \in Nat : l = Len(have)
    OBVIOUS
  <1>3. Len(rsock) \in Nat \ {0} /\ n \in 1 .. Len(rsock) /\ l + n <= size /\ n \in 0 .. Len(rsock)
    <2>1. Len(rsock) \in Nat \ {0}
      BY DEF RecvTypes
    <2>2. PICK q \in Nat \ {0} : q = Len(rsock)
      BY Zenon, <2>1
    <2>3. n = IF size - l < q THEN size - l ELSE q
      BY Zenon, <1>1, <1>2, <2>2 DEF Recv!Least
    <2>4. l < size
      BY Zenon, <1>2
    <2>5. n \in 1 .. q /\ l + n <= size
      BY <2>3, <2>4
    <2> QED
      BY <2>2, <2>5
  <1>4. PICK new \in Seq(RecvBytes) :
          new = Recv!Taken(have, size) /\ Len(new) = n /\ \A k \in 1 .. n : new[k] = rsock[k]
    <2>1. Recv!Taken(have, size) = SubSeq(rsock, 1, n)
      BY Zenon, <1>1 DEF Recv!Taken
    <2>2. rsock \in Seq(RecvBytes)
      BY Zenon DEF RecvTypes
    <2>3. /\ SubSeq(rsock, 1, n) \in Seq(RecvBytes) /\ Len(SubSeq(rsock, 1, n)) = n
          /\ \A k \in 1 .. n : SubSeq(rsock, 1, n)[k] = rsock[k]
      BY <1>3, <2>2, RecvCut
    <2> QED
      BY Zenon, <2>1, <2>3
  <1>5. /\ RecvRest \in Seq(RecvBytes) /\ Len(RecvRest) \in Nat /\ n <= Len(RecvRest) /\ RecvRest # <<>>
        /\ \A k \in 1 .. n : RecvRest[k] = rsock[k]
    BY <1>3, RecvRestSeq
  <1>6. /\ i \in 0 .. RecvCount /\ base + l + 1 \in 1 .. RecvSize(i)
        /\ \A k \in DOMAIN RecvRest :
             base + l + 1 + (k - 1) <= RecvSize(i) => RecvRest[k] = <<i, base + l + 1 + (k - 1)>>
    BY SMTT(60), <1>2, <1>5, RecvAhead
  <1>7. RecvSize(i) \in Nat
    BY Zenon, <1>6, RecvSizes
  <1>8. ASSUME NEW k \in 1 .. Len(RecvRest), base + l + k <= RecvSize(i)
        PROVE  RecvRest[k] = <<i, base + l + k>>
    <2>1. base + l + 1 + (k - 1) = base + l + k /\ k \in DOMAIN RecvRest
      BY SMTT(60), <1>5
    <2> QED
      BY Zenon, <1>6, <1>8, <2>1
  <1>9. /\ h \in Seq(RecvBytes) /\ Len(h) = l + n
        /\ \A k \in 1 .. Len(h) : h[k] = <<i, base + k>>
    <2>1. /\ h \in Seq(RecvBytes) /\ Len(h) = l + n /\ \A k \in 1 .. l : h[k] = have[k]
          /\ \A k \in 1 .. n : h[l + k] = new[k]
      <3>1. h = have \o new /\ Len(have) = l /\ Len(new) = n
        BY Zenon, <1>0, <1>2, <1>4
      <3>2. /\ have \o new \in Seq(RecvBytes) /\ Len(have \o new) = Len(have) + Len(new)
            /\ \A k \in 1 .. Len(have) : (have \o new)[k] = have[k]
            /\ \A k \in 1 .. Len(new) : (have \o new)[Len(have) + k] = new[k]
        BY RecvJoin
      <3> QED
        BY Zenon, <3>1, <3>2
    <2>2. ASSUME NEW k \in l + 1 .. l + n PROVE h[k] = <<i, base + k>>
      <3>1. /\ k - l \in 1 .. n /\ l + (k - l) = k /\ k - l \in 1 .. Len(RecvRest)
            /\ base + l + (k - l) = base + k /\ base + k <= RecvSize(i)
        BY <1>3, <1>5, <1>7
      <3>2. h[k] = RecvRest[k - l]
        <4>1. h[l + (k - l)] = new[k - l]
          BY Zenon, <2>1, <3>1
        <4>2. new[k - l] = rsock[k - l] /\ RecvRest[k - l] = rsock[k - l]
          BY Zenon, <1>4, <1>5, <3>1
        <4> QED
          BY Zenon, <3>1, <4>1, <4>2
      <3> QED
        BY Zenon, <1>8, <3>1, <3>2
    <2>3. ASSUME NEW k \in 1 .. l PROVE h[k] = <<i, base + k>>
      <3>1. h[k] = have[k]
        BY Zenon, <2>1
      <3> QED
        BY SMTT(60), <1>2, <3>1
    <2>4. \A k \in 1 .. Len(h) : k \in 1 .. l \/ k \in l + 1 .. l + n
      BY <2>1
    <2> QED
      BY Zenon, <2>1, <2>2, <2>3, <2>4
  <1>10. rsock' \in Seq(RecvBytes) /\ RecvRest' = SubSeq(RecvRest, n + 1, Len(RecvRest))
    <2>1. rsock' = SubSeq(rsock, n + 1, Len(rsock)) /\ UNCHANGED peer
      BY Zenon, <1>4 DEF Recv!Take
    <2> QED
      BY Zenon, <1>3, <2>1, RecvRestCut
  <1>11. RecvStream(RecvRest')
    BY <1>5, <1>10, RecvStreamCut
  <1>12. RecvRest' # <<>> => n + 1 \in 1 .. Len(RecvRest) /\ RecvRest'[1] = RecvRest[n + 1]
    <2>1. Len(RecvRest') = Len(RecvRest) - n /\ \A k \in 1 .. Len(RecvRest) - n : RecvRest'[k] = RecvRest[n + k]
      BY <1>5, <1>10, RecvCut
    <2> QED
      BY SMTT(60), <1>5, <1>11, <2>1 DEF RecvStream
  <1>13. Len(h) \in 1 .. size
    BY <1>3, <1>9
  <1>14. base + Len(h) < RecvSize(i) => (RecvRest' # <<>> => RecvRest'[1] = <<i, base + Len(h) + 1>>)
    <2>1. base + l + (n + 1) = base + Len(h) + 1
      BY SMTT(60), <1>9
    <2>2. ASSUME base + Len(h) < RecvSize(i), RecvRest' # <<>>
          PROVE  RecvRest'[1] = <<i, base + Len(h) + 1>>
      <3>1. base + l + (n + 1) <= RecvSize(i)
        <4>1. base + Len(h) < RecvSize(i) /\ Len(h) = l + n
          BY Zenon, <1>9, <2>2
        <4> QED
          BY <1>7, <4>1
      <3>2. RecvRest[n + 1] = <<i, base + l + (n + 1)>>
        BY Zenon, <1>8, <1>12, <2>2, <3>1
      <3> QED
        BY Zenon, <1>12, <2>1, <2>2, <3>2
    <2> QED
      BY Zenon, <2>2
  <1>15. ASSUME base + Len(h) = RecvSize(i), RecvRest' # <<>>
         PROVE  i # 0 /\ RecvRest'[1] \in {<<i + 1, 1>>, <<0, 1>>}
    <2>1. RecvRest[n] = <<i, RecvSize(i)>> /\ n \in DOMAIN RecvRest /\ n + 1 \in DOMAIN RecvRest
      <3>1. n \in 1 .. Len(RecvRest) /\ base + l + n = RecvSize(i)
        <4>1. base + Len(h) = RecvSize(i) /\ Len(h) = l + n
          BY Zenon, <1>9, <1>15
        <4>2. base + l + n = base + (l + n)
          OBVIOUS
        <4>3. n \in 1 .. Len(RecvRest)
          BY <1>3, <1>5
        <4> QED
          BY Zenon, <4>1, <4>2, <4>3
      <3>2. RecvRest[n] = <<i, base + l + n>>
        <4>1. base + l + n <= RecvSize(i)
          BY <1>7, <3>1
        <4> QED
          BY Zenon, <1>8, <3>1, <4>1
      <3> QED
        BY SMTT(60), <1>5, <1>12, <1>15, <3>1, <3>2
    <2>2. RecvRest[n][1] = i /\ RecvRest[n][2] = RecvSize(i)
      BY <2>1
    <2>3. RecvRest[n][1] # 0 /\ RecvRest[n + 1] \in {<<RecvRest[n][1] + 1, 1>>, <<0, 1>>}
      BY Zenon, <2>1, <2>2 DEF RecvStream
    <2> QED
      BY Zenon, <1>12, <1>15, <2>2, <2>3
  <1> QED
    BY Zenon, <1>0, <1>6, <1>9, <1>10, <1>11, <1>13, <1>14, <1>15 DEF RecvReadTo

\* At first nothing was sent.
LEMMA RecvInitIInv == Recv!RecvAssumption /\ Recv!Init => RecvIInv
  <1> SUFFICES ASSUME Recv!RecvAssumption, Recv!Init PROVE RecvIInv
    BY Zenon
  <1>1. RecvCount \in Nat /\ RecvTypes /\ Recv!Framed
    BY RecvSizes DEF Recv!Init, RecvTypes, Recv!Framed
  <1>2. peer.bad = 0 /\ peer.pos = 1 /\ peer.msg = 1 /\ rsock = <<>> /\ RecvNow = 1
    BY DEF Recv!Init, RecvNow
  <1>3. ASSUME RecvCount > 0 PROVE RecvRest = <<<<1, 1>>>> /\ 1 \in 0 .. RecvCount /\ 1 \in 1 .. RecvSize(1)
    <2>1. 1 \in 0 .. RecvCount /\ RecvRest = <<<<1, 1>>>>
      BY <1>1, <1>2, <1>3 DEF RecvRest
    <2> QED
      BY <2>1, RecvSizes
  <1>4. ASSUME ~(RecvCount > 0) PROVE RecvRest = <<>>
    BY <1>1, <1>2, <1>4 DEF RecvRest
  <1>5. RecvStream(RecvRest)
    <2>1. CASE RecvCount > 0
      <3>1. RecvRest = <<<<1, 1>>>> /\ 1 \in 0 .. RecvCount /\ 1 \in 1 .. RecvSize(1) /\ RecvRest \in Seq(RecvBytes)
            /\ DOMAIN RecvRest = {1} /\ RecvRest[1] = <<1, 1>>
        BY <1>3, <2>1 DEF RecvBytes
      <3> QED
        BY <3>1 DEF RecvStream
    <2>2. CASE ~(RecvCount > 0)
      BY <1>4, <2>2 DEF RecvStream
    <2> QED
      BY Zenon, <2>1, <2>2
  <1>6. RecvPosition
    <2>1. RecvAtHeader
      BY <1>2, <1>3, <1>4 DEF RecvAtHeader
    <2> QED
      BY Zenon, <2>1 DEF RecvPosition, Recv!Init
  <1>7. peer.bad = 0 /\ peer.msg <= RecvCount => peer.pos \in 1 .. RecvSize(peer.msg)
    BY <1>1, <1>2, <1>3
  <1> QED
    BY Zenon, <1>1, <1>5, <1>6, <1>7 DEF RecvIInv

\* Bytes of the peer arrive.
LEMMA RecvArriveStep == Recv!RecvAssumption /\ RecvIInv /\ Recv!Arrive => RecvIInv'
  <1> SUFFICES ASSUME Recv!RecvAssumption, RecvIInv, Recv!Arrive PROVE RecvIInv'
    BY Zenon
  <1>1. PICK m \in 1 .. RecvCount : m = peer.msg
    BY RecvSizes DEF Recv!Arrive, RecvIInv, RecvTypes, RecvCount
  <1>2. PICK p \in 1 .. RecvSize(m) : p = peer.pos
    BY Zenon, <1>1, RecvSizes DEF Recv!Arrive, RecvIInv, RecvCount
  <1>3. /\ m \in 0 .. RecvCount /\ RecvSize(m) \in Nat /\ RecvSize(m) = HeaderSize + MsgLens[m] /\ m \in Nat
        /\ p \in Nat /\ HeaderSize \in Nat
    BY RecvSizes DEF Recv!RecvAssumption
  <1>4. peer'.bad = 0 /\ peer.bad = 0 /\ rsock' = Append(rsock, <<m, p>>) /\ rsock' = RecvRest
    BY <1>1, <1>2 DEF Recv!Arrive, RecvIInv, RecvTypes, RecvRest
  <1>5. /\ p = RecvSize(m) => peer'.msg = m + 1 /\ peer'.pos = 1
        /\ p # RecvSize(m) => peer'.msg = m /\ peer'.pos = p + 1
    BY Zenon, <1>1, <1>2, <1>3 DEF Recv!Arrive, RecvIInv, RecvTypes
  <1>6. RecvTypes'
    <2>1. rsock' \in Seq(RecvBytes)
      BY Zenon, <1>4, RecvRestSeq DEF RecvIInv
    <2>2. peer' \in [msg : 1 .. RecvCount + 1, pos : Nat, bad : Nat, end : {"no", "closed", "broken"}]
      <3>1. \/ peer' = [peer EXCEPT !.msg = m + 1, !.pos = 1]
            \/ peer' = [peer EXCEPT !.pos = p + 1]
        BY Zenon, <1>1, <1>2 DEF Recv!Arrive
      <3>2. m + 1 \in 1 .. RecvCount + 1 /\ p + 1 \in Nat /\ 1 \in Nat
        BY <1>3, RecvSizes
      <3>3. \A q \in Nat : [peer EXCEPT !.pos = q]
              \in [msg : 1 .. RecvCount + 1, pos : Nat, bad : Nat, end : {"no", "closed", "broken"}]
        BY Zenon DEF RecvIInv, RecvTypes
      <3>4. \A a \in 1 .. RecvCount + 1, q \in Nat : [peer EXCEPT !.msg = a, !.pos = q]
              \in [msg : 1 .. RecvCount + 1, pos : Nat, bad : Nat, end : {"no", "closed", "broken"}]
        BY Zenon DEF RecvIInv, RecvTypes
      <3> QED
        BY Zenon, <3>1, <3>2, <3>3, <3>4
    <2> QED
      BY Zenon, <2>1, <2>2 DEF RecvIInv, RecvTypes, Recv!Arrive, Recv!rcv
  <1>7. peer'.msg <= RecvCount => peer'.pos \in 1 .. RecvSize(peer'.msg)
    <2>1. CASE p = RecvSize(m)
      BY <1>3, <1>5, <2>1, RecvSizes
    <2>2. CASE p # RecvSize(m)
      BY <1>3, <1>5, <2>2
    <2> QED
      BY Zenon, <2>1, <2>2
  <1>8. /\ RecvRest \in Seq(RecvBytes) /\ RecvRest # <<>> /\ RecvRest[Len(RecvRest)] = <<m, p>> /\ Len(RecvRest) \in Nat \ {0}
    <2>1. rsock \in Seq(RecvBytes) /\ <<m, p>> \in RecvBytes
      BY Zenon, <1>3 DEF RecvIInv, RecvTypes, RecvBytes
    <2>2. /\ Append(rsock, <<m, p>>) \in Seq(RecvBytes) /\ Len(Append(rsock, <<m, p>>)) = Len(rsock) + 1
          /\ Append(rsock, <<m, p>>)[Len(rsock) + 1] = <<m, p>> /\ Len(rsock) \in Nat
      BY <2>1, RecvMore
    <2>3. PICK q \in Nat : q = Len(rsock)
      BY Zenon, <2>2
    <2>4. RecvRest = Append(rsock, <<m, p>>) /\ Len(RecvRest) = q + 1
      BY Zenon, <1>4, <2>2, <2>3
    <2> QED
      BY <2>2, <2>3, <2>4
  <1>9. CASE peer'.msg <= RecvCount
    <2>1. PICK y \in RecvBytes : y = <<peer'.msg, peer'.pos>>
      <3>1. peer'.msg \in Nat /\ peer'.pos \in Nat
        BY <1>3, <1>5
      <3> QED
        BY Zenon, <3>1 DEF RecvBytes
    <2>2. RecvRest' = Append(RecvRest, y)
      BY Zenon, <1>4, <1>9, <2>1 DEF RecvRest
    <2>3. y[1] \in 0 .. RecvCount /\ y[2] \in 1 .. RecvSize(y[1])
      BY <1>3, <1>5, <1>7, <1>9, <2>1, RecvSizes
    <2>4. /\ p = RecvSize(m) => y = <<m + 1, 1>>
          /\ p # RecvSize(m) => y = <<m, p + 1>>
      BY Zenon, <1>5, <2>1
    <2>5. ASSUME RecvStream(RecvRest) PROVE RecvStream(RecvRest')
      <3>1. RecvStream(Append(RecvRest, y))
        BY <1>1, <1>8, <2>3, <2>4, <2>5, RecvStreamMore
      <3> QED
        BY Zenon, <2>2, <3>1
    <2>6. RecvRest'[1] = RecvRest[1]
      BY <1>8, <2>2, RecvMore
    <2> QED
      BY Zenon, <1>4, <1>6, <1>7, <1>8, <2>5, <2>6, RecvNotRead DEF Recv!Arrive, RecvIInv
  <1>10. CASE ~(peer'.msg <= RecvCount)
    <2>1. RecvRest' = RecvRest
      BY Zenon, <1>4, <1>10 DEF RecvRest
    <2> QED
      BY Zenon, <1>4, <1>6, <1>10, <2>1, RecvNotRead DEF Recv!Arrive, RecvIInv
  <1> QED
    BY Zenon, <1>9, <1>10

\* The peer sends a header that is refused, and nothing after it.
LEMMA RecvArriveBadStep == Recv!RecvAssumption /\ RecvIInv /\ Recv!ArriveBad => RecvIInv'
  <1> SUFFICES ASSUME Recv!RecvAssumption, RecvIInv, Recv!ArriveBad PROVE RecvIInv'
    BY Zenon
  <1>1. PICK m \in 1 .. RecvCount : m = peer.msg
    BY RecvSizes DEF Recv!ArriveBad, RecvIInv, RecvTypes, RecvCount
  <1> DEFINE b == [k \in 1 .. HeaderSize |-> <<0, k>>]
  <1>3. b \in Seq(RecvBytes) /\ Len(b) = HeaderSize /\ HeaderSize \in Nat \ {0} /\ b[1] = <<0, 1>>
    <2>1. b \in Seq(RecvBytes) /\ Len(b) = HeaderSize /\ HeaderSize \in Nat \ {0}
      BY DEF Recv!RecvAssumption, RecvBytes
    <2>2. 1 \in 1 .. HeaderSize
      BY <2>1
    <2>3. b[1] = <<0, 1>>
      BY Zenon, <2>2
    <2> QED
      BY Zenon, <2>1, <2>3
  <1>2. b = [k \in 1 .. HeaderSize |-> <<0, k>>]
    BY Zenon
  <1> HIDE DEF b
  <1>4. /\ rsock \in Seq(RecvBytes) /\ rsock' = rsock \o b /\ peer'.bad # 0 /\ RecvRest' = rsock'
        /\ RecvRest = Append(rsock, <<m, 1>>)
    <2>1. rsock \in Seq(RecvBytes) /\ rsock' = rsock \o b
      BY Zenon, <1>2 DEF Recv!ArriveBad, RecvIInv, RecvTypes
    <2>2. peer'.bad = m /\ m # 0
      BY <1>1, RecvSizes DEF Recv!ArriveBad, RecvIInv, RecvTypes
    <2>3. peer.bad = 0 /\ peer.msg <= RecvCount /\ peer.pos = 1
      BY Zenon DEF Recv!ArriveBad, RecvCount
    <2> QED
      BY Zenon, <1>1, <2>1, <2>2, <2>3 DEF RecvRest
  <1>5. RecvTypes'
    <2>1. rsock' \in Seq(RecvBytes)
      BY Zenon, <1>3, <1>4, RecvJoin
    <2>2. peer' \in [msg : 1 .. RecvCount + 1, pos : Nat, bad : Nat, end : {"no", "closed", "broken"}]
      <3>1. m \in Nat
        BY RecvSizes
      <3> QED
        BY Zenon, <1>1, <3>1 DEF Recv!ArriveBad, RecvIInv, RecvTypes
    <2> QED
      BY Zenon, <2>1, <2>2 DEF RecvIInv, RecvTypes, Recv!ArriveBad, Recv!rcv
  <1>6. ASSUME RecvStream(RecvRest) PROVE RecvStream(RecvRest')
    BY Zenon, <1>1, <1>2, <1>4, <1>6, RecvStreamBad
  <1>7. CASE rsock # <<>>
    <2>1. RecvRest # <<>> /\ RecvRest'[1] = RecvRest[1]
      <3>1. <<m, 1>> \in RecvBytes /\ Len(rsock) \in Nat \ {0}
        BY <1>4, <1>7, RecvSizes DEF RecvBytes
      <3>2. RecvRest[1] = rsock[1] /\ Len(RecvRest) = Len(rsock) + 1
        BY <1>4, <3>1, RecvMore
      <3>3. (rsock \o b)[1] = rsock[1]
        BY <1>3, <1>4, <3>1, RecvJoin
      <3> QED
        BY <1>4, <3>1, <3>2, <3>3
    <2> QED
      BY Zenon, <1>4, <1>5, <1>6, <2>1, RecvNotRead DEF Recv!ArriveBad, RecvIInv
  <1>8. CASE rsock = <<>>
    <2>1. RecvRest[1] = <<m, 1>> /\ RecvRest # <<>> /\ RecvRest'[1] = <<0, 1>>
      BY <1>3, <1>4, <1>8
    <2>2. Recv!Framed' /\ RecvNow' = RecvNow /\ RecvNow \in Nat \ {0}
      BY DEF RecvIInv, Recv!Framed, RecvNow, Recv!ArriveBad, Recv!rcv, RecvTypes
    <2>3. ASSUME rio # "gone" PROVE m_rcvState = "StartToRcvHeader"
      <3>1. RecvPosition
        BY Zenon, <2>3 DEF RecvIInv
      <3>2. m_rcvState # "RcvingHeader"
        <4>1. ASSUME NEW i, RecvInHeader(i) PROVE FALSE
          <5>1. RecvRest[1] = <<i, Len(m_pHeaderBuffer) + 1>> /\ Len(m_pHeaderBuffer) \in 1 .. HeaderSize - 1
            BY Zenon, <2>1, <4>1 DEF RecvInHeader
          <5> QED
            BY <1>3, <2>1, <5>1
        <4> QED
          BY Zenon, <3>1, <4>1 DEF RecvPosition
      <3>3. m_rcvState # "StartToRcvPayload"
        BY <1>3, <2>1, <3>1 DEF RecvPosition, RecvAtPayload
      <3>4. m_rcvState # "RcvingPayload"
        <4>1. ASSUME RecvInPayload PROVE FALSE
          <5>1. /\ RecvRest[1] = <<RecvNow, HeaderSize + Len(m_payloadBuffer) + 1>>
                /\ Len(m_payloadBuffer) \in Nat
            BY <2>1, <4>1 DEF RecvInPayload, RecvIInv, RecvTypes
          <5> QED
            BY <1>3, <2>1, <5>1
        <4> QED
          BY Zenon, <3>1, <4>1 DEF RecvPosition
      <3> QED
        BY Zenon, <3>2, <3>3, <3>4 DEF RecvIInv, RecvTypes
    <2>4. ASSUME rio' # "gone" PROVE RecvPosition'
      <3>1. m_rcvState' = "StartToRcvHeader"
        BY Zenon, <2>3, <2>4 DEF Recv!ArriveBad, Recv!rcv
      <3> QED
        BY Zenon, <2>1, <3>1 DEF RecvPosition, RecvAtHeader
    <2> QED
      BY Zenon, <1>4, <1>5, <1>6, <2>2, <2>4 DEF Recv!ArriveBad, RecvIInv
  <1> QED
    BY Zenon, <1>7, <1>8

\* The peer closes the connection.
LEMMA RecvCloseStep == Recv!RecvAssumption /\ RecvIInv /\ Recv!Close => RecvIInv'
  <1> SUFFICES ASSUME Recv!RecvAssumption, RecvIInv, Recv!Close PROVE RecvIInv'
    BY Zenon
  <1>1. /\ peer'.msg = peer.msg /\ peer'.pos = peer.pos /\ peer'.bad = peer.bad
        /\ peer' \in [msg : 1 .. RecvCount + 1, pos : Nat, bad : Nat, end : {"no", "closed", "broken"}]
    BY Zenon DEF Recv!Close, RecvIInv, RecvTypes
  <1>2. RecvRest' = RecvRest /\ RecvTypes'
    BY Zenon, <1>1 DEF Recv!Close, RecvRest, RecvIInv, RecvTypes, Recv!rcv
  <1> QED
    BY Zenon, <1>1, <1>2, RecvNotRead DEF Recv!Close, RecvIInv

\* The IO thread is woken.
LEMMA RecvEventWaitStep == Recv!RecvAssumption /\ RecvIInv /\ Recv!EventWait => RecvIInv'
  <1> SUFFICES ASSUME Recv!RecvAssumption, RecvIInv, Recv!EventWait PROVE RecvIInv'
    BY Zenon
  <1>1. RecvRest' = RecvRest /\ RecvTypes' /\ UNCHANGED peer /\ rio # "gone"
    BY Zenon DEF Recv!EventWait, RecvRest, RecvIInv, RecvTypes, Recv!rcv
  <1> QED
    BY Zenon, <1>1, RecvNotRead DEF Recv!EventWait, RecvIInv

\* RcvHeader reads up to a whole header and checks it.
LEMMA RecvRcvHeaderStep == Recv!RecvAssumption /\ RecvIInv /\ Recv!RcvHeader => RecvIInv'
  <1> SUFFICES ASSUME Recv!RecvAssumption, RecvIInv, Recv!RcvHeader PROVE RecvIInv'
    BY Zenon
  <1>1. RecvTypes /\ RecvStream(RecvRest) /\ RecvPosition /\ rio # "gone" /\ rsock # <<>>
        /\ HeaderSize \in Nat \ {0} /\ RecvNow \in Nat \ {0}
    BY DEF RecvIInv, Recv!RcvHeader, Recv!RecvAssumption, RecvTypes, RecvNow
  <1>2. PICK have \in Seq(RecvBytes) : have = Recv!RcvHeaderHave
    <2>1. <<>> \in Seq(RecvBytes)
      OBVIOUS
    <2> QED
      BY Zenon, <1>1, <2>1 DEF Recv!RcvHeaderHave, RecvTypes
  <1>3. /\ Len(have) < HeaderSize
        /\ \E i \in {0, RecvNow} : /\ RecvRest # <<>> => RecvRest[1] = <<i, Len(have) + 1>>
                                   /\ \A k \in DOMAIN have : have[k] = <<i, k>>
    <2>1. CASE m_rcvState = "StartToRcvHeader"
      <3>1. have = <<>> /\ RecvAtHeader
        BY Zenon, <1>1, <1>2, <2>1 DEF Recv!RcvHeaderHave, RecvPosition
      <3> QED
        BY <1>1, <3>1 DEF RecvAtHeader
    <2>2. CASE m_rcvState = "RcvingHeader"
      <3>1. PICK i \in {0, RecvNow} : RecvInHeader(i)
        BY Zenon, <1>1, <2>2 DEF RecvPosition
      <3>2. have = m_pHeaderBuffer
        BY Zenon, <1>2, <2>2 DEF Recv!RcvHeaderHave
      <3> QED
        BY <1>1, <3>1, <3>2 DEF RecvInHeader
    <2> QED
      BY Zenon, <2>1, <2>2 DEF Recv!RcvHeader
  <1>4. PICK i \in {0, RecvNow} : /\ RecvRest # <<>> => RecvRest[1] = <<i, Len(have) + 1>>
                                  /\ \A k \in DOMAIN have : have[k] = <<i, k>>
    BY Zenon, <1>3
  <1>5. PICK h : h = have \o Recv!Taken(have, HeaderSize)
    BY Zenon
  <1>6. i \in 0 .. RecvCount /\ HeaderSize <= RecvSize(i) /\ RecvSize(i) \in Nat
    <2>1. 1 \in DOMAIN RecvRest /\ RecvRest[1][1] = i
      BY <1>1, <1>4, RecvRestSeq DEF RecvTypes
    <2> QED
      BY Zenon, <1>1, <2>1, RecvSizes DEF RecvStream
  <1>7. /\ Recv!Take(Len(Recv!Taken(have, HeaderSize))) /\ m_pHeaderBuffer' = h
        /\ \/ Len(h) # HeaderSize /\ m_rcvState' = "RcvingHeader"
           \/ Len(h) = HeaderSize /\ Recv!DecodeMsgHeader(h) /\ m_rcvState' = "StartToRcvPayload"
           \/ Len(h) = HeaderSize /\ rio' = "gone" /\ m_rcvState' = m_rcvState
        /\ UNCHANGED <<m_payloadBuffer, delivered>>
    BY Zenon, <1>2, <1>5 DEF Recv!RcvHeader, Recv!Fail
  <1>8. /\ h \in Seq(RecvBytes) /\ Len(h) \in 1 .. HeaderSize
        /\ \A k \in 1 .. Len(h) : h[k] = <<i, k>>
        /\ rsock' \in Seq(RecvBytes) /\ RecvStream(RecvRest')
        /\ Len(h) < RecvSize(i) => (RecvRest' # <<>> => RecvRest'[1] = <<i, Len(h) + 1>>)
    <2>1. RecvReads(have, HeaderSize, i, 0)
      BY <1>1, <1>2, <1>3, <1>4, <1>6 DEF RecvReads
    <2>2. RecvReadTo(h, HeaderSize, i, 0)
      BY Zenon, <1>5, <1>7, <2>1, RecvReading
    <2> QED
      BY <1>1, <2>2 DEF RecvReadTo
  <1>9. Recv!Framed' /\ RecvNow' = RecvNow /\ UNCHANGED peer
    BY Zenon, <1>7 DEF RecvIInv, Recv!Framed, RecvNow, Recv!Take
  <1>10. RecvTypes'
    BY Zenon, <1>1, <1>7, <1>8, <1>9 DEF RecvTypes
  <1>11. ASSUME rio' # "gone" PROVE RecvPosition'
    <2>1. CASE Len(h) # HeaderSize /\ m_rcvState' = "RcvingHeader"
      <3>1. Len(h) \in 1 .. HeaderSize - 1 /\ Len(h) < RecvSize(i)
        BY <1>1, <1>6, <1>8, <2>1
      <3>2. RecvInHeader(i)'
        <4>1. \A k \in DOMAIN h : h[k] = <<i, k>>
          <5>1. DOMAIN h = 1 .. Len(h)
            BY <1>8
          <5> QED
            BY Zenon, <1>8, <5>1
        <4> QED
          BY Zenon, <1>4, <1>7, <1>8, <1>9, <3>1, <4>1 DEF RecvInHeader
      <3> QED
        BY Zenon, <1>4, <1>9, <2>1, <3>2 DEF RecvPosition
    <2>2. CASE Len(h) = HeaderSize /\ Recv!DecodeMsgHeader(h) /\ m_rcvState' = "StartToRcvPayload"
      <3>1. h[1] = <<i, 1>>
        BY <1>1, <1>8
      <3>2. i \in 1 .. RecvCount
        BY <1>1, <2>2, <3>1 DEF Recv!DecodeMsgHeader, RecvCount
      <3>3. i = RecvNow /\ HeaderSize < RecvSize(i)
        BY <1>1, <1>4, <3>2, RecvSizes
      <3>4. RecvHeaderRead'
        BY Zenon, <1>7, <1>9, <2>2, <3>1, <3>2, <3>3 DEF RecvHeaderRead
      <3>5. RecvAtPayload'
        BY Zenon, <1>8, <1>9, <2>2, <3>3, <3>4 DEF RecvAtPayload
      <3> QED
        BY Zenon, <2>2, <3>5 DEF RecvPosition
    <2> QED
      BY Zenon, <1>7, <1>11, <2>1, <2>2
  <1> QED
    BY Zenon, <1>8, <1>9, <1>10, <1>11 DEF RecvIInv

\* RcvPayload reads up to a whole payload and delivers it.
LEMMA RecvRcvPayloadStep == Recv!RecvAssumption /\ RecvIInv /\ Recv!RcvPayload => RecvIInv'
  <1> SUFFICES ASSUME Recv!RecvAssumption, RecvIInv, Recv!RcvPayload PROVE RecvIInv'
    BY Zenon
  <1>1. RecvTypes /\ RecvStream(RecvRest) /\ RecvPosition /\ rio # "gone" /\ rsock # <<>>
        /\ HeaderSize \in Nat \ {0} /\ RecvNow \in Nat \ {0}
    BY DEF RecvIInv, Recv!RcvPayload, Recv!RecvAssumption, RecvTypes, RecvNow
  <1>2. PICK have \in Seq(RecvBytes) : have = Recv!RcvPayloadHave
    <2>1. <<>> \in Seq(RecvBytes)
      OBVIOUS
    <2> QED
      BY Zenon, <1>1, <2>1 DEF Recv!RcvPayloadHave, RecvTypes
  <1>3. RecvHeaderRead
    BY Zenon, <1>1 DEF Recv!RcvPayload, RecvPosition, RecvAtPayload, RecvInPayload
  <1>4. RecvNow \in 1 .. RecvCount /\ Recv!HeaderLen = MsgLens[RecvNow] /\ m_pHeaderBuffer[1] = <<RecvNow, 1>>
        /\ Len(m_pHeaderBuffer) = HeaderSize
    BY <1>3 DEF RecvHeaderRead, Recv!HeaderLen
  <1>5. PICK len \in Nat \ {0} : len = MsgLens[RecvNow]
    BY Zenon, <1>4, RecvSizes
  <1>6. RecvSize(RecvNow) = HeaderSize + len
    BY Zenon, <1>4, <1>5, RecvSizes
  <1>7. /\ Len(have) < len
        /\ RecvRest # <<>> => RecvRest[1] = <<RecvNow, HeaderSize + Len(have) + 1>>
        /\ \A k \in DOMAIN have : have[k] = <<RecvNow, HeaderSize + k>>
    <2>1. CASE m_rcvState = "StartToRcvPayload"
      <3>1. have = <<>> /\ RecvAtPayload
        BY Zenon, <1>1, <1>2, <2>1 DEF Recv!RcvPayloadHave, RecvPosition
      <3> QED
        BY <1>1, <1>5, <3>1 DEF RecvAtPayload
    <2>2. CASE m_rcvState = "RcvingPayload"
      <3>1. have = m_payloadBuffer /\ RecvInPayload
        BY Zenon, <1>1, <1>2, <2>2 DEF Recv!RcvPayloadHave, RecvPosition
      <3> QED
        BY <1>1, <1>5, <3>1 DEF RecvInPayload
    <2> QED
      BY Zenon, <2>1, <2>2 DEF Recv!RcvPayload
  <1>8. PICK p : p = have \o Recv!Taken(have, len)
    BY Zenon
  <1>9. /\ Recv!Take(Len(Recv!Taken(have, len))) /\ UNCHANGED m_pHeaderBuffer
        /\ \/ /\ Len(p) = len /\ delivered' = Append(delivered, p)
              /\ m_payloadBuffer' = <<>> /\ m_rcvState' = "StartToRcvHeader"
           \/ /\ Len(p) # len /\ m_payloadBuffer' = p /\ m_rcvState' = "RcvingPayload"
              /\ UNCHANGED delivered
    BY Zenon, <1>2, <1>4, <1>5, <1>8 DEF Recv!RcvPayload
  <1>10. RecvReadTo(p, len, RecvNow, HeaderSize)
    <2>1. RecvReads(have, len, RecvNow, HeaderSize)
      BY <1>1, <1>2, <1>5, <1>6, <1>7 DEF RecvReads
    <2> QED
      BY Zenon, <1>8, <1>9, <2>1, RecvReading
  <1>11. /\ p \in Seq(RecvBytes) /\ Len(p) \in 1 .. len /\ UNCHANGED peer /\ rsock' \in Seq(RecvBytes)
         /\ \A k \in 1 .. Len(p) : p[k] = <<RecvNow, HeaderSize + k>>
         /\ RecvStream(RecvRest')
    BY Zenon, <1>9, <1>10 DEF RecvReadTo, Recv!Take
  <1>12. CASE /\ Len(p) = len /\ delivered' = Append(delivered, p)
              /\ m_payloadBuffer' = <<>> /\ m_rcvState' = "StartToRcvHeader"
    <2>1. /\ delivered' \in Seq(Seq(RecvBytes)) /\ Len(delivered') = RecvNow /\ delivered'[RecvNow] = p
          /\ \A k \in 1 .. RecvNow - 1 : delivered'[k] = delivered[k]
      BY <1>1, <1>11, <1>12 DEF RecvTypes, RecvNow
    <2>2. RecvTypes'
      BY <1>1, <1>9, <1>11, <1>12, <2>1 DEF RecvTypes
    <2>3. p = Recv!Payload(RecvNow)
      <3>1. p = [k \in 1 .. len |-> p[k]]
        BY <1>11, <1>12
      <3>2. \A k \in 1 .. len : p[k] = <<RecvNow, HeaderSize + k>>
        BY Zenon, <1>11, <1>12
      <3> QED
        BY Zenon, <1>5, <3>1, <3>2 DEF Recv!Payload
    <2>4. Recv!Framed'
      <3>1. \A k \in 1 .. RecvNow - 1 : delivered[k] = Recv!Payload(k)
        BY <1>1 DEF RecvIInv, Recv!Framed, RecvNow, RecvTypes
      <3>2. ASSUME NEW k \in 1 .. Len(delivered') PROVE delivered'[k] = Recv!Payload(k)
        BY SMTT(60), <1>1, <2>1, <2>3, <3>1
      <3>3. delivered' = [k \in 1 .. Len(delivered') |-> delivered'[k]]
        BY <2>1
      <3>4. delivered' = [k \in 1 .. Len(delivered') |-> Recv!Payload(k)]
        BY Zenon, <3>2, <3>3
      <3> QED
        BY Zenon, <3>4 DEF Recv!Framed, Recv!Payload
    <2>5. RecvAtHeader'
      <3>1. HeaderSize + Len(p) = RecvSize(RecvNow) /\ RecvNow' = RecvNow + 1
        BY Zenon, <1>6, <1>12, <2>1 DEF RecvNow
      <3> QED
        BY Zenon, <1>10, <3>1 DEF RecvReadTo, RecvAtHeader
    <2>6. RecvPosition'
      BY Zenon, <1>12, <2>5 DEF RecvPosition
    <2> QED
      BY Zenon, <1>11, <2>2, <2>4, <2>6 DEF RecvIInv
  <1>13. CASE /\ Len(p) # len /\ m_payloadBuffer' = p /\ m_rcvState' = "RcvingPayload"
              /\ UNCHANGED delivered
    <2>1. RecvTypes' /\ Recv!Framed' /\ RecvNow' = RecvNow
      BY Zenon, <1>1, <1>9, <1>11, <1>13 DEF RecvTypes, RecvIInv, Recv!Framed, RecvNow
    <2>2. Len(p) \in 0 .. len - 1 /\ HeaderSize + Len(p) < RecvSize(RecvNow)
      BY <1>1, <1>6, <1>11, <1>13
    <2>3. RecvHeaderRead'
      BY Zenon, <1>4, <1>9, <2>1 DEF RecvHeaderRead
    <2>4. \A k \in DOMAIN p : p[k] = <<RecvNow, HeaderSize + k>>
      <3>1. DOMAIN p = 1 .. Len(p)
        BY <1>11
      <3> QED
        BY Zenon, <1>11, <3>1
    <2>5. RecvRest' # <<>> => RecvRest'[1] = <<RecvNow, HeaderSize + Len(p) + 1>>
      BY Zenon, <1>10, <2>2 DEF RecvReadTo
    <2>6. RecvInPayload'
      BY Zenon, <1>5, <1>13, <2>1, <2>2, <2>3, <2>4, <2>5 DEF RecvInPayload
    <2>7. RecvPosition'
      BY Zenon, <1>13, <2>6 DEF RecvPosition
    <2> QED
      BY Zenon, <1>11, <2>1, <2>7 DEF RecvIInv
  <1> QED
    BY Zenon, <1>9, <1>12, <1>13

\* recv finds the socket empty, or closed.
LEMMA RecvRcvNothingStep == Recv!RecvAssumption /\ RecvIInv /\ Recv!RcvNothing => RecvIInv'
  <1> SUFFICES ASSUME Recv!RecvAssumption, RecvIInv, Recv!RcvNothing PROVE RecvIInv'
    BY Zenon
  <1>1. RecvTypes /\ RecvStream(RecvRest) /\ RecvPosition /\ rio # "gone"
    BY Zenon DEF RecvIInv, Recv!RcvNothing
  <1>2. UNCHANGED <<peer, rsock, m_rcvState, delivered>> /\ RecvRest' = RecvRest /\ RecvNow' = RecvNow
    BY Zenon DEF Recv!RcvNothing, Recv!wire, RecvRest, RecvNow
  <1>3. m_pHeaderBuffer' \in {m_pHeaderBuffer, <<>>} /\ m_payloadBuffer' \in {m_payloadBuffer, <<>>}
    BY Zenon DEF Recv!RcvNothing, Recv!RcvHeaderHave, Recv!RcvPayloadHave
  <1>4. RecvTypes' /\ Recv!Framed'
    <2>1. <<>> \in Seq(RecvBytes)
      OBVIOUS
    <2> QED
      BY Zenon, <1>1, <1>2, <1>3, <2>1 DEF RecvTypes, Recv!Framed, RecvIInv
  <1>5. RecvPosition'
    <2>1. CASE m_rcvState = "StartToRcvHeader"
      BY Zenon, <1>1, <1>2, <2>1 DEF RecvPosition, RecvAtHeader
    <2>2. CASE m_rcvState = "RcvingHeader"
      <3>1. PICK i \in {0, RecvNow} : RecvInHeader(i)
        BY Zenon, <1>1, <2>2 DEF RecvPosition
      <3>2. m_pHeaderBuffer' = m_pHeaderBuffer
        BY Zenon, <2>2 DEF Recv!RcvNothing, Recv!RcvHeaderHave
      <3>3. RecvInHeader(i)'
        BY Zenon, <1>2, <3>1, <3>2 DEF RecvInHeader
      <3> QED
        BY Zenon, <1>2, <2>2, <3>1, <3>3 DEF RecvPosition
    <2>3. CASE m_rcvState = "StartToRcvPayload"
      <3>1. m_pHeaderBuffer' = m_pHeaderBuffer
        BY Zenon, <2>3 DEF Recv!RcvNothing
      <3> QED
        BY Zenon, <1>1, <1>2, <2>3, <3>1 DEF RecvPosition, RecvAtPayload, RecvHeaderRead
    <2>4. CASE m_rcvState = "RcvingPayload"
      <3>1. m_pHeaderBuffer' = m_pHeaderBuffer /\ m_payloadBuffer' = m_payloadBuffer
        BY Zenon, <2>4 DEF Recv!RcvNothing, Recv!RcvPayloadHave
      <3> QED
        BY Zenon, <1>1, <1>2, <2>4, <3>1 DEF RecvPosition, RecvInPayload, RecvHeaderRead
    <2> QED
      BY Zenon, <1>1, <2>1, <2>2, <2>3, <2>4 DEF RecvTypes
  <1> QED
    BY Zenon, <1>1, <1>2, <1>4, <1>5 DEF RecvIInv

\* However the stream is cut into reads, the payloads handed to HandleMessage
\* are those sent, whole and in order (Framed).
THEOREM StreamFramed == Recv!Spec => []Framed
  <1> USE RecvUse
  <1>1. Recv!Init => RecvIInv
    BY Zenon, RecvInitIInv
  <1>2. RecvIInv /\ [Recv!Next]_(Recv!vars) => RecvIInv'
    <2> SUFFICES ASSUME RecvIInv, [Recv!Next]_(Recv!vars) PROVE RecvIInv'
      BY Zenon
    <2>1. CASE UNCHANGED Recv!vars
      <3>1. UNCHANGED <<peer, rsock, Recv!rcv, rio>> /\ RecvRest' = RecvRest /\ RecvTypes'
        BY Zenon, <2>1 DEF Recv!vars, Recv!wire, RecvRest, RecvIInv, RecvTypes, Recv!rcv
      <3> QED
        BY Zenon, <3>1, RecvNotRead DEF RecvIInv
    <2> QED
      BY Zenon, <2>1, RecvArriveStep, RecvArriveBadStep, RecvCloseStep, RecvEventWaitStep,
         RecvRcvHeaderStep,
         RecvRcvPayloadStep, RecvRcvNothingStep DEF Recv!Next, Recv!Recv
  <1>3. RecvIInv => Framed
    BY Zenon DEF RecvIInv, Framed
  <1> QED
    BY <1>1, <1>2, <1>3, PTL DEF Recv!Spec

-----------------------------------------------------------------------------
USE SendAssumption

\* An event queued outside the phase of the loop that will take it anyway is
\* announced, and bytes in the pipe wake the loop or are about to be read.
Announced ==
    /\ pipe > 0 => pipeEdge \/ (io.at = "internal" /\ "pipe" \in io.evs)
    /\ io.at # "internal" /\ m_lRwOpExtEvents > 0 =>
         (pipe > 0 /\ pipeEdge) \/ \E m \in Msgs : at[m] = "wakeup"
    /\ io.at = "wait" /\ m_lAddEpExtEvents =>
         (pipe > 0 /\ pipeEdge) \/ adder = "wakeup"

\* Outside Send, a begun message has an edge to come, there or in hand.
Begun ==
    /\ inSend => io.at # "wait"
    /\ ~inSend /\ buffer.left > 0 =>
         /\ nospace \/ Writable
         /\ nospace \/ sockEdge \/ ~registered \/ (io.at = "internal" /\ "sock" \in io.evs)

\* The steps by name.
LEMMA Steps ==
    ASSUME Next
    PROVE  \/ \E m \in Msgs : Size(m) \/ TryPush(m) \/ AddExternalRWOpEvent(m) \/ Wakeup(m)
           \/ SetOwnWorker \/ AddExternalEpAddEvent \/ AddWakeup
           \/ EventWait \/ HandleReadEvent \/ HandleWriteEvent
           \/ GetExternalRWOpEvents \/ GetExternalEpAddEvents
           \/ SendWrite \/ SendAgain \/ SendBreaks \/ SendPop
           \/ Transmit \/ PeerData
BY Zenon DEF Next, SendMessage, AddEvent, worker_loop, Send

\* The initial state has the types.
LEMMA InitType == Init => TypeOK
<1>1. Init => FlagsOK
  BY Zenon DEF Init, FlagsOK
<1>2. Init => DataOK
  BY DEF Init, DataOK, NoBuffer
<1>3. QED
  BY Zenon, <1>1, <1>2 DEF TypeOK

\* Every step keeps the flags Boolean.
LEMMA FlagsKept == ASSUME FlagsOK, Next PROVE FlagsOK'
<1>1. ASSUME NEW m \in Msgs, Size(m) \/ TryPush(m) \/ AddExternalRWOpEvent(m) \/ Wakeup(m)
      PROVE  FlagsOK'
  <2>1. CASE Size(m)
    BY Zenon, <2>1, Zenon DEF FlagsOK, Size, events, sock, loop
  <2>2. CASE TryPush(m)
    BY Zenon, <2>2, Zenon DEF FlagsOK, TryPush, events, sock, loop
  <2>3. CASE AddExternalRWOpEvent(m)
    BY Zenon, <2>3, Zenon DEF FlagsOK, AddExternalRWOpEvent, sock, loop
  <2>4. CASE Wakeup(m)
    BY Zenon, <2>4, Zenon DEF FlagsOK, Wakeup, Notify, NotifyThrows, sock, loop
  <2>5. QED
    BY Zenon, <1>1, <2>1, <2>2, <2>3, <2>4
<1>2. ASSUME SetOwnWorker \/ AddExternalEpAddEvent \/ AddWakeup PROVE FlagsOK'
  <2>1. CASE SetOwnWorker
    BY Zenon, <2>1, Zenon DEF FlagsOK, SetOwnWorker, events, sock, loop
  <2>2. CASE AddExternalEpAddEvent
    BY Zenon, <2>2, Zenon DEF FlagsOK, AddExternalEpAddEvent, sock, loop
  <2>3. CASE AddWakeup
    BY Zenon, <2>3, Zenon DEF FlagsOK, AddWakeup, Notify, NotifyThrows, sock, loop
  <2>4. QED
    BY Zenon, <1>2, <2>1, <2>2, <2>3
<1>3. ASSUME EventWait \/ HandleReadEvent \/ HandleWriteEvent PROVE FlagsOK'
  BY Zenon, <1>3, Zenon DEF FlagsOK, EventWait, HandleReadEvent, HandleWriteEvent,
                     events, sock, sender
<1>4. ASSUME GetExternalRWOpEvents \/ GetExternalEpAddEvents PROVE FlagsOK'
  BY Zenon, <1>4, Zenon DEF FlagsOK, GetExternalRWOpEvents, GetExternalEpAddEvents, sock, sender
<1>5. ASSUME SendWrite \/ SendAgain \/ SendBreaks \/ SendPop PROVE FlagsOK'
  <2>1. CASE SendWrite
    BY Zenon, <2>1, Zenon DEF FlagsOK, SendWrite, events, sender
  <2>2. CASE SendAgain
    BY Zenon, <2>2, Zenon DEF FlagsOK, SendAgain, events, sender
  <2>3. CASE SendPop
    BY Zenon, <2>3, Zenon DEF FlagsOK, SendPop, events, sock, sender
  <2>4. CASE SendBreaks
    BY Zenon, <2>4 DEF FlagsOK, SendBreaks, events, sock, sender
  <2>5. QED
    BY Zenon, <1>5, <2>1, <2>2, <2>3, <2>4
<1>6. ASSUME Transmit \/ PeerData PROVE FlagsOK'
  BY Zenon, <1>6, Zenon DEF FlagsOK, Transmit, PeerData, events, sender, loop
<1>7. QED
  BY Zenon, Steps, <1>1, <1>2, <1>3, <1>4, <1>5, <1>6

\* What the buffer holds.
LEMMA BufferFacts ==
    ASSUME DataOK
    PROVE  /\ buffer.left \in 0 .. MsgLen
           /\ buffer.left # 0 => buffer = [msg |-> buffer.msg, left |-> buffer.left]
                                /\ buffer.msg \in Msgs
           /\ buffer.left = 0 => buffer = NoBuffer
<1>1. CASE buffer = NoBuffer
  BY <1>1 DEF NoBuffer
<1>2. CASE buffer \in [msg : Msgs, left : 1 .. MsgLen]
  BY <1>2
<1>3. QED
  BY Zenon, <1>1, <1>2 DEF DataOK

\* The steps of the senders keep the rest.
LEMMA SenderData ==
    ASSUME DataOK, NEW m \in Msgs,
           Size(m) \/ TryPush(m) \/ AddExternalRWOpEvent(m) \/ Wakeup(m)
    PROVE  DataOK'
<1>1. CASE Size(m)
  BY Zenon, <1>1 DEF DataOK, Size, At, worker, events, sock, loop
<1>2. CASE TryPush(m)
  <2>1. at' \in [Msgs -> {"idle", "first", "later", "event", "wakeup", "threw", "done"}]
    BY Zenon, <1>2 DEF DataOK, TryPush, At
  <2>2. m_bqMessages' \in Seq(Msgs) /\ pushed' \in Seq(Msgs)
    BY <1>2 DEF DataOK, TryPush
  <2>3. QED
    BY Zenon, <1>2, <2>1, <2>2 DEF DataOK, TryPush, events, sock, loop
<1>3. CASE AddExternalRWOpEvent(m)
  <2>1. at' \in [Msgs -> {"idle", "first", "later", "event", "wakeup", "threw", "done"}]
    BY Zenon, <1>3 DEF DataOK, AddExternalRWOpEvent, At
  <2>2. m_lRwOpExtEvents' \in Nat
    BY SMT, <1>3 DEF DataOK, AddExternalRWOpEvent
  <2>3. QED
    BY Zenon, <1>3, <2>1, <2>2 DEF DataOK, AddExternalRWOpEvent, worker, sock, loop
<1>4. CASE Wakeup(m)
  <2>1. at' \in [Msgs -> {"idle", "first", "later", "event", "wakeup", "threw", "done"}]
    BY Zenon, <1>4 DEF DataOK, Wakeup, At
  <2>2. pipe' \in 0 .. PipeCap
    BY SMT, <1>4 DEF DataOK, Wakeup, Notify, NotifyThrows
  <2>3. QED
    BY Zenon, <1>4, <2>1, <2>2 DEF DataOK, Wakeup, worker, sock, loop
<1>5. QED
  BY Zenon, <1>1, <1>2, <1>3, <1>4

\* The steps of AddEvent keep the rest.
LEMMA AdderData ==
    ASSUME DataOK, SetOwnWorker \/ AddExternalEpAddEvent \/ AddWakeup
    PROVE  DataOK'
<1>1. CASE SetOwnWorker
  BY Zenon, <1>1 DEF DataOK, SetOwnWorker, worker, events, sock, loop
<1>2. CASE AddExternalEpAddEvent
  BY Zenon, <1>2 DEF DataOK, AddExternalEpAddEvent, worker, sock, loop
<1>3. CASE AddWakeup
  <2>1. pipe' \in 0 .. PipeCap
    BY SMT, <1>3 DEF DataOK, AddWakeup, Notify, NotifyThrows
  <2>2. QED
    BY Zenon, <1>3, <2>1 DEF DataOK, AddWakeup, worker, sock, loop
<1>4. QED
  BY Zenon, <1>1, <1>2, <1>3

\* The steps of the IO thread and of the kernel keep the rest.
LEMMA LoopData ==
    ASSUME DataOK,
           \/ EventWait \/ HandleReadEvent \/ HandleWriteEvent
           \/ GetExternalRWOpEvents \/ GetExternalEpAddEvents
           \/ SendWrite \/ SendAgain \/ SendBreaks \/ SendPop \/ Transmit \/ PeerData
    PROVE  DataOK'
<1>1. CASE EventWait
  BY Zenon, <1>1 DEF DataOK, EventWait, worker, sender
<1>2. CASE HandleReadEvent
  <2>1. pipe' \in 0 .. PipeCap
    BY SMT, <1>2 DEF DataOK, HandleReadEvent
  <2>2. io' \in [at : {"wait", "internal", "external"}, evs : SUBSET {"pipe", "sock"}, todo : Nat]
    <3>1. io' = [io EXCEPT !.evs = io.evs \ {"pipe"}]
      BY Zenon, <1>2 DEF HandleReadEvent
    <3>2. io.evs \ {"pipe"} \in SUBSET {"pipe", "sock"}
      BY Zenon DEF DataOK
    <3>3. QED
      BY Zenon, <3>1, <3>2 DEF DataOK
  <2>3. QED
    BY Zenon, <1>2, <2>1, <2>2 DEF DataOK, HandleReadEvent, worker, sock, sender
<1>3. CASE HandleWriteEvent
  BY SMTT(60), <1>3 DEF DataOK, HandleWriteEvent, worker, events, sock, sender
<1>4. CASE GetExternalRWOpEvents
  BY Zenon, <1>4 DEF DataOK, GetExternalRWOpEvents, worker, sock, sender
<1>5. CASE GetExternalEpAddEvents
  BY Zenon, <1>5 DEF DataOK, GetExternalEpAddEvents, worker, sender
<1>6. CASE SendWrite
  <2>1. PICK n \in Nat : /\ n = Least(buffer.left, SockCap - used)
                         /\ n <= buffer.left /\ n <= SockCap - used
    <3>1. buffer.left \in Nat
      BY BufferFacts
    <3>2. SockCap - used \in Nat
      BY DEF DataOK
    <3>3. QED
      BY <3>1, <3>2 DEF Least
  <2>2. used' = used + n /\ used' \in 0 .. SockCap
    <3>1. used' = used + n
      BY Zenon, <1>6, <2>1 DEF SendWrite
    <3>2. QED
      BY SMT, <2>1, <3>1 DEF DataOK
  <2>3. buffer' \in [msg : Msgs, left : 1 .. MsgLen] \union {NoBuffer} /\ sent' \in Seq(Msgs)
    <3>1. CASE n = buffer.left
      <4>1. buffer' = NoBuffer /\ sent' = Append(sent, buffer.msg)
        BY Zenon, <1>6, <2>1, <3>1 DEF SendWrite
      <4>2. buffer.msg \in Msgs
        BY <1>6, BufferFacts DEF SendWrite, Sending
      <4>3. QED
        BY <4>1, <4>2 DEF DataOK
    <3>2. CASE n # buffer.left
      <4>1. buffer' = [buffer EXCEPT !.left = @ - n] /\ sent' = sent
        BY Zenon, <1>6, <2>1, <3>2 DEF SendWrite
      <4>2. buffer' = [msg |-> buffer.msg, left |-> buffer.left - n] /\ buffer.msg \in Msgs
        BY <1>6, <4>1, BufferFacts DEF SendWrite, Sending
      <4>3. buffer.left - n \in 1 .. MsgLen
        BY <2>1, <3>2, BufferFacts
      <4>4. QED
        BY Zenon, <4>1, <4>2, <4>3 DEF DataOK
    <3>3. QED
      BY Zenon, <3>1, <3>2
  <2>4. QED
    BY Zenon, <1>6, <2>2, <2>3 DEF DataOK, SendWrite, worker, events, sender
<1>7. CASE SendAgain
  BY Zenon, <1>7 DEF DataOK, SendAgain, worker, events, sender
<1>8. CASE SendPop
  <2>1. CASE m_bqMessages = <<>>
    BY Zenon, <1>8, <2>1 DEF DataOK, SendPop, events, sock, sender
  <2>2. CASE m_bqMessages # <<>>
    <3>1. Head(m_bqMessages) \in Msgs /\ Tail(m_bqMessages) \in Seq(Msgs)
      BY <2>2 DEF DataOK
    <3>2. buffer' \in [msg : Msgs, left : 1 .. MsgLen] /\ m_bqMessages' \in Seq(Msgs)
      <4>1. buffer' = [msg |-> Head(m_bqMessages), left |-> MsgLen]
        BY Zenon, <1>8, <2>2 DEF SendPop
      <4>2. m_bqMessages' = Tail(m_bqMessages)
        BY Zenon, <1>8, <2>2 DEF SendPop
      <4>3. QED
        BY <3>1, <4>1, <4>2
    <3>3. QED
      BY Zenon, <1>8, <3>2 DEF DataOK, SendPop, events, sock, sender
  <2>3. QED
    BY Zenon, <2>1, <2>2
<1>9. CASE Transmit
  <2>1. sockEdge' \in BOOLEAN
    BY Zenon, <1>9, Zenon DEF Transmit, TypeOK
  <2>2. QED
    BY <2>1, <1>9 DEF DataOK, Transmit, worker, events, sender, loop
<1>10. CASE PeerData
  BY Zenon, <1>10 DEF DataOK, PeerData, worker, events, sender, loop
<1>11. CASE SendBreaks
  <2>1. buffer.msg \in Msgs
    BY <1>11, BufferFacts DEF SendBreaks, Sending
  <2>2. Append(dropped, buffer.msg) \in Seq(Msgs)
    BY <2>1 DEF DataOK
  <2>3. QED
    BY Zenon, <1>11, <2>2 DEF DataOK, SendBreaks, worker, events, sock, sender
<1>12. QED
  BY Zenon, <1>1, <1>2, <1>3, <1>4, <1>5, <1>6, <1>7, <1>8, <1>9, <1>10, <1>11

\* Every step keeps the types.
LEMMA TypeKept == ASSUME TypeOK, [Next]_vars PROVE TypeOK'
<1>1. CASE Next
  BY Zenon, <1>1, Steps, FlagsKept, SenderData, AdderData, LoopData DEF TypeOK
<1>2. CASE UNCHANGED vars
  <2>1. FlagsOK'
    BY Zenon, <1>2, Zenon DEF TypeOK, FlagsOK, vars, worker, events, sock, sender, loop
  <2>2. DataOK'
    BY Zenon, <1>2 DEF TypeOK, DataOK, vars, worker, events, sock, sender, loop
  <2>3. QED
    BY Zenon, <2>1, <2>2 DEF TypeOK
<1>3. QED
  BY Zenon, <1>1, <1>2

\* The variables keep their types in every behaviour of the send path.
THEOREM SendType == Spec => []TypeOK
BY InitType, TypeKept, PTL DEF Spec

----------------------------------------------------------------------------
\* The order is kept by every step: a message moves from the queue to the
\* buffer and from the buffer to the socket, always at the boundary.
LEMMA FIFOKept == ASSUME TypeOK, FIFO, [Next]_vars PROVE FIFO'
<1>1. ASSUME NEW m \in Msgs, TryPush(m) PROVE FIFO'
  <2>1. /\ pushed' = Append(pushed, m) /\ m_bqMessages' = Append(m_bqMessages, m)
        /\ sent' = sent /\ dropped' = dropped /\ Current' = Current
    BY Zenon, <1>1 DEF TryPush, loop, Current
  <2>2. /\ sent \in Seq(Msgs) /\ dropped \in Seq(Msgs)
        /\ Current \in Seq(Msgs) /\ m_bqMessages \in Seq(Msgs)
    BY BufferFacts DEF TypeOK, DataOK, Current
  <2>3. (sent \o dropped \o Current) \o Append(m_bqMessages, m)
          = Append((sent \o dropped \o Current) \o m_bqMessages, m)
    BY <2>2
  <2>4. QED
    BY Zenon, <2>1, <2>3 DEF FIFO
<1>2. CASE SendWrite
  <2>1. CASE buffer' = NoBuffer /\ sent' = Append(sent, buffer.msg)
    <3>1. Current = <<buffer.msg>> /\ Current' = <<>>
      BY <1>2, <2>1, BufferFacts DEF Current, SendWrite, Sending, NoBuffer, TypeOK
    <3>2. sent \in Seq(Msgs) /\ m_bqMessages \in Seq(Msgs) /\ buffer.msg \in Msgs
      BY <1>2, BufferFacts DEF TypeOK, DataOK, SendWrite, Sending
    <3>3. (Append(sent, buffer.msg) \o <<>>) \o <<>> = (sent \o <<>>) \o <<buffer.msg>>
      BY <3>2
    <3>4. dropped = <<>> /\ dropped' = <<>>
      BY Zenon, <1>2 DEF SendWrite
    <3>5. QED
      BY Zenon, <1>2, <2>1, <3>1, <3>3, <3>4 DEF FIFO, SendWrite, worker
  <2>2. CASE ~(buffer' = NoBuffer /\ sent' = Append(sent, buffer.msg))
    <3>1. PICK n : /\ buffer' = [buffer EXCEPT !.left = @ - n] /\ sent' = sent
                   /\ n = Least(buffer.left, SockCap - used) /\ n # buffer.left
      BY Zenon, <1>2, <2>2 DEF SendWrite
    <3>2. n \in Nat /\ n < buffer.left
      <4>1. buffer.left \in Nat
        BY BufferFacts DEF TypeOK
      <4>2. used \in 0 .. SockCap
        BY Zenon DEF TypeOK, DataOK
      <4>3. QED
        BY SMT, <3>1, <4>1, <4>2 DEF Least
    <3>3. buffer' = [msg |-> buffer.msg, left |-> buffer.left - n]
      BY <1>2, <3>1, BufferFacts DEF SendWrite, Sending, TypeOK
    <3>4. Current' = Current
      BY <3>2, <3>3, BufferFacts DEF Current, TypeOK
    <3>5. QED
      BY Zenon, <1>2, <3>1, <3>4 DEF FIFO, SendWrite, worker
  <2>3. QED
    BY Zenon, <2>1, <2>2
<1>3. CASE SendPop
  <2>1. CASE m_bqMessages = <<>>
    BY Zenon, <1>3, <2>1 DEF FIFO, SendPop, Current
  <2>2. CASE m_bqMessages # <<>>
    <3>1. Current = <<>> /\ Current' = <<Head(m_bqMessages)>>
      <4>1. buffer' = [msg |-> Head(m_bqMessages), left |-> MsgLen]
        BY Zenon, <1>3, <2>2 DEF SendPop
      <4>2. buffer.left = 0
        BY Zenon, <1>3 DEF SendPop
      <4>3. QED
        BY Zenon, <4>1, <4>2 DEF Current
    <3>2. (sent \o dropped) \in Seq(Msgs) /\ m_bqMessages \in Seq(Msgs)
      BY DEF TypeOK, DataOK
    <3>3. (sent \o dropped) \o m_bqMessages
            = ((sent \o dropped) \o <<Head(m_bqMessages)>>) \o Tail(m_bqMessages)
      <4>1. \A u \in Seq(Msgs), v \in Seq(Msgs) :
              v # <<>> => u \o v = (u \o <<Head(v)>>) \o Tail(v)
        BY SMTT(60)
      <4>2. QED
        BY Zenon, <2>2, <3>2, <4>1
    <3>4. (sent \o dropped) \o <<>> = sent \o dropped
      BY <3>2
    <3>5. QED
      BY Zenon, <1>3, <2>2, <3>1, <3>3, <3>4 DEF FIFO, SendPop
  <2>3. QED
    BY Zenon, <2>1, <2>2
<1>4. ASSUME NEW m \in Msgs, Size(m) \/ AddExternalRWOpEvent(m) \/ Wakeup(m) PROVE FIFO'
  BY Zenon, <1>4 DEF FIFO, Current, Size, AddExternalRWOpEvent, Wakeup, worker, loop
<1>5. ASSUME SetOwnWorker \/ AddExternalEpAddEvent \/ AddWakeup PROVE FIFO'
  BY Zenon, <1>5
     DEF FIFO, Current, SetOwnWorker, AddExternalEpAddEvent, AddWakeup, worker, loop
<1>6. ASSUME EventWait \/ HandleReadEvent \/ HandleWriteEvent
             \/ GetExternalRWOpEvents \/ GetExternalEpAddEvents PROVE FIFO'
  BY Zenon, <1>6 DEF FIFO, Current, EventWait, HandleReadEvent, HandleWriteEvent,
              GetExternalRWOpEvents, GetExternalEpAddEvents, worker
<1>7. ASSUME SendAgain \/ Transmit \/ PeerData PROVE FIFO'
  BY Zenon, <1>7 DEF FIFO, Current, SendAgain, Transmit, PeerData, worker, loop
<1>8. CASE UNCHANGED vars
  BY Zenon, <1>8 DEF FIFO, Current, vars, worker, loop
<1>9. CASE SendBreaks
  <2>1. Current = <<buffer.msg>> /\ Current' = <<>> /\ dropped' = Append(dropped, buffer.msg)
    BY <1>9, BufferFacts DEF Current, SendBreaks, Sending, NoBuffer, TypeOK
  <2>2. sent \in Seq(Msgs) /\ dropped \in Seq(Msgs) /\ buffer.msg \in Msgs
    BY <1>9, BufferFacts DEF TypeOK, DataOK, SendBreaks, Sending
  <2>3. (sent \o Append(dropped, buffer.msg)) \o <<>> = (sent \o dropped) \o <<buffer.msg>>
    BY <2>2
  <2>4. QED
    BY Zenon, <1>9, <2>1, <2>3 DEF FIFO, SendBreaks, worker
<1>10. QED
  BY Zenon, Steps, <1>1, <1>2, <1>3, <1>4, <1>5, <1>6, <1>7, <1>8, <1>9

\* Send writes the messages in the order TryPush accepted them and loses none
\* before a write fails, and then one with each write that fails, for every
\* number of messages and every split of the writes.
THEOREM SendFIFO == Spec => []FIFO
<1>1. Init => FIFO
  BY DEF Init, FIFO, Current, NoBuffer
<1>2. QED
  BY <1>1, InitType, TypeKept, FIFOKept, PTL DEF Spec

----------------------------------------------------------------------------
\* Announced is kept: an event is queued before its byte is written, and the
\* loop empties the pipe before it takes the events.
LEMMA AnnouncedKept == ASSUME TypeOK, Announced, [Next]_vars PROVE Announced'
<1> USE DEF TypeOK, DataOK
<1>1. ASSUME NEW m \in Msgs, Size(m) \/ TryPush(m) PROVE Announced'
  <2>1. \A k \in Msgs : at[k] = "wakeup" => at'[k] = "wakeup"
    BY Zenon, <1>1 DEF Size, TryPush, At
  <2>2. QED
    BY <1>1, <2>1 DEF Announced, Size, TryPush, events, loop
<1>2. ASSUME NEW m \in Msgs, AddExternalRWOpEvent(m) PROVE Announced'
  <2>1. CASE m_pOwnEvWorker
    <3>1. at'[m] = "wakeup"
      BY Zenon, <1>2, <2>1 DEF AddExternalRWOpEvent, At
    <3>2. QED
      BY Zenon, <1>2, <3>1 DEF Announced, AddExternalRWOpEvent, loop
  <2>2. CASE ~m_pOwnEvWorker
    <3>1. \A k \in Msgs : at[k] = "wakeup" => at'[k] = "wakeup"
      BY Zenon, <1>2, <2>2 DEF AddExternalRWOpEvent, At
    <3>2. QED
      BY Zenon, <1>2, <2>2, <3>1 DEF Announced, AddExternalRWOpEvent, loop
  <2>3. QED
    BY Zenon, <2>1, <2>2
<1>3. ASSUME NEW m \in Msgs, Wakeup(m) PROVE Announced'
  <2>1. CASE Notify
    BY <1>3, <2>1 DEF Announced, Wakeup, Notify, loop
  <2>2. CASE NotifyThrows
    BY <1>3, <2>2 DEF Announced, Wakeup, NotifyThrows, loop
  <2>3. QED
    BY Zenon, <1>3, <2>1, <2>2 DEF Wakeup
<1>4. CASE SetOwnWorker \/ AddExternalEpAddEvent
  BY <1>4 DEF Announced, SetOwnWorker, AddExternalEpAddEvent, events, loop
<1>5. CASE AddWakeup
  <2>1. CASE Notify
    BY <1>5, <2>1 DEF Announced, AddWakeup, Notify, loop
  <2>2. CASE NotifyThrows
    BY <1>5, <2>2 DEF Announced, AddWakeup, NotifyThrows, loop
  <2>3. QED
    BY Zenon, <1>5, <2>1, <2>2 DEF AddWakeup
<1>6. CASE EventWait
  <2>1. io'.at = "internal" /\ pipe' = pipe /\ (pipeEdge /\ pipe > 0 => "pipe" \in io'.evs)
    BY Zenon, <1>6 DEF EventWait
  <2>2. pipe > 0 => pipeEdge
    BY Zenon, <1>6 DEF EventWait, Announced
  <2>3. QED
    BY Zenon, <2>1, <2>2 DEF Announced
<1>7. CASE HandleReadEvent
  <2>1. io'.at = "internal" /\ pipe' = 0
    BY Zenon, <1>7 DEF HandleReadEvent
  <2>2. QED
    BY <2>1 DEF Announced
<1>8. CASE HandleWriteEvent
  <2>1. io'.at = io.at /\ ("pipe" \in io.evs => "pipe" \in io'.evs)
    BY <1>8 DEF HandleWriteEvent
  <2>2. QED
    BY Zenon, <1>8, <2>1 DEF Announced, HandleWriteEvent, events, sender
<1>9. CASE GetExternalRWOpEvents
  <2>1. io'.at = "external" /\ m_lRwOpExtEvents' = 0
    BY Zenon, <1>9 DEF GetExternalRWOpEvents
  <2>2. io.evs = {} /\ pipe' = pipe /\ pipeEdge' = pipeEdge
    BY Zenon, <1>9 DEF GetExternalRWOpEvents
  <2>3. QED
    BY <2>1, <2>2 DEF Announced
<1>10. CASE GetExternalEpAddEvents
  <2>1. io.at = "external" /\ ~m_lAddEpExtEvents'
    BY Zenon, <1>10 DEF GetExternalEpAddEvents
  <2>2. QED
    BY Zenon, <1>10, <2>1 DEF Announced, GetExternalEpAddEvents, sender
<1>11. CASE SendWrite \/ SendAgain \/ SendBreaks \/ SendPop
  BY <1>11 DEF Announced, SendWrite, SendAgain, SendBreaks, SendPop, events, sender
<1>12. CASE Transmit \/ PeerData
  BY <1>12 DEF Announced, Transmit, PeerData, events, sender, loop
<1>13. CASE UNCHANGED vars
  BY Zenon, <1>13 DEF Announced, vars, events, sender, loop
<1>14. QED
  BY Zenon, Steps, <1>1, <1>2, <1>3, <1>4, <1>5, <1>6, <1>7, <1>8, <1>9, <1>10, <1>11, <1>12, <1>13

\* While the IO thread sleeps in EventWait, every external event is announced
\* by a byte in the pipe or by a thread about to write one.
THEOREM SendEventsAnnounced == Spec => []EventsAnnounced
<1>1. Init => Announced
  BY DEF Init, Announced
<1>2. Announced => EventsAnnounced
  BY Zenon DEF Announced, EventsAnnounced
<1>3. QED
  BY <1>1, <1>2, InitType, TypeKept, AnnouncedKept, PTL DEF Spec

----------------------------------------------------------------------------
\* Begun is kept: only a refusal leaves a begun message, a refusal is owed an
\* edge, and registration reports a socket that has become writable.
LEMMA BegunKept == ASSUME TypeOK, Begun, [Next]_vars PROVE Begun'
<1> USE DEF TypeOK, DataOK, Begun, Writable
<1>1. ASSUME NEW m \in Msgs,
             Size(m) \/ TryPush(m) \/ AddExternalRWOpEvent(m) \/ Wakeup(m)
      PROVE Begun'
  <2>1. UNCHANGED <<io, inSend, buffer, nospace, used, sockEdge, registered>>
    BY Zenon, <1>1 DEF Size, TryPush, AddExternalRWOpEvent, Wakeup, sock, loop
  <2>2. QED
    BY Zenon, <2>1
<1>2. CASE SetOwnWorker \/ AddExternalEpAddEvent \/ AddWakeup
  <2>1. UNCHANGED <<io, inSend, buffer, nospace, used, sockEdge, registered>>
    BY Zenon, <1>2 DEF SetOwnWorker, AddExternalEpAddEvent, AddWakeup, sock, loop
  <2>2. QED
    BY Zenon, <2>1
<1>3. CASE EventWait
  <2>1. io'.at = "internal" /\ (sockEdge /\ Writable => "sock" \in io'.evs)
    BY Zenon, <1>3 DEF EventWait
  <2>2. io.at = "wait" /\ ~inSend /\ inSend' = inSend /\ buffer' = buffer
    BY Zenon, <1>3 DEF EventWait
  <2>3. nospace' = nospace /\ used' = used /\ registered' = registered
    BY Zenon, <1>3 DEF EventWait
  <2>4. QED
    BY Zenon, <2>1, <2>2, <2>3
<1>4. CASE HandleReadEvent
  <2>1. io'.at = io.at /\ ("sock" \in io.evs => "sock" \in io'.evs)
    BY Zenon, <1>4 DEF HandleReadEvent
  <2>2. QED
    BY Zenon, <1>4, <2>1 DEF HandleReadEvent, sock
<1>5. CASE HandleWriteEvent
  <2>1. inSend' /\ io'.at # "wait"
    <3>1. inSend' /\ io.at # "wait"
      BY Zenon, <1>5 DEF HandleWriteEvent
    <3>2. io'.at = io.at
      BY Zenon, <1>5 DEF HandleWriteEvent
    <3>3. QED
      BY Zenon, <3>1, <3>2
  <2>2. QED
    BY Zenon, <2>1
<1>6. CASE GetExternalRWOpEvents
  <2>1. io'.at = "external" /\ io.evs = {}
    BY Zenon, <1>6 DEF GetExternalRWOpEvents
  <2>2. QED
    BY Zenon, <1>6, <2>1 DEF GetExternalRWOpEvents, sock
<1>7. CASE GetExternalEpAddEvents
  <2>1. io.at = "external" /\ ~inSend /\ inSend' = inSend /\ buffer' = buffer
    BY Zenon, <1>7 DEF GetExternalEpAddEvents
  <2>2. nospace' = nospace /\ used' = used
    BY Zenon, <1>7 DEF GetExternalEpAddEvents
  <2>3. (~registered /\ registered' /\ Writable) => sockEdge'
    BY Zenon, <1>7 DEF GetExternalEpAddEvents
  <2>4. (registered => registered') /\ (sockEdge => sockEdge')
    BY Zenon, <1>7 DEF GetExternalEpAddEvents
  <2>5. QED
    BY Zenon, <2>1, <2>2, <2>3, <2>4
<1>8. CASE SendWrite
  BY Zenon, <1>8 DEF SendWrite, Sending
<1>9. CASE SendAgain
  BY Zenon, <1>9 DEF SendAgain, Sending
<1>10. CASE SendPop
  <2>1. CASE m_bqMessages = <<>>
    <3>1. inSend' = FALSE /\ buffer' = buffer /\ buffer.left = 0
      BY Zenon, <1>10, <2>1 DEF SendPop
    <3>2. ~(buffer'.left > 0)
      BY <3>1
    <3>3. QED
      BY Zenon, <3>1, <3>2
  <2>2. CASE m_bqMessages # <<>>
    BY Zenon, <1>10, <2>2 DEF SendPop
  <2>3. QED
    BY Zenon, <2>1, <2>2
<1>11. CASE Transmit
  <2>1. used' = 0 /\ buffer' = buffer /\ inSend' = inSend /\ io' = io
    BY Zenon, <1>11 DEF Transmit, loop
  <2>2. registered' = registered /\ (sockEdge \/ (registered /\ nospace) => sockEdge')
    BY Zenon, <1>11 DEF Transmit
  <2>3. Writable'
    BY <2>1
  <2>4. inSend' => io'.at # "wait"
    BY Zenon, <2>1
  <2>5. ~inSend /\ buffer.left > 0 =>
          sockEdge' \/ ~registered' \/ (io'.at = "internal" /\ "sock" \in io'.evs)
    BY Zenon, <2>1, <2>2
  <2>6. QED
    BY Zenon, <2>1, <2>3, <2>4, <2>5
<1>12. CASE PeerData
  BY Zenon, <1>12 DEF PeerData, loop
<1>13. CASE UNCHANGED vars
  BY Zenon, <1>13 DEF vars, sock, loop
<1>14. CASE SendBreaks
  BY <1>14 DEF SendBreaks, NoBuffer, sock
<1>15. QED
  BY Zenon, Steps, <1>1, <1>2, <1>3, <1>4, <1>5, <1>6, <1>7, <1>8, <1>9, <1>10, <1>11, <1>12, <1>13, <1>14

\* A half-written message is never left behind a sleeping IO thread: the
\* kernel owes an edge, or epoll holds one, or registration will report one.
THEOREM SendBegunResumes == Spec => []BegunResumes
<1>1. Init => Begun
  BY DEF Init, Begun, NoBuffer
<1>2. TypeOK /\ Begun => BegunResumes
  BY Zenon DEF Begun, BegunResumes, TypeOK, DataOK
<1>3. QED
  BY <1>1, <1>2, InitType, TypeKept, BegunKept, PTL DEF Spec
=============================================================================
