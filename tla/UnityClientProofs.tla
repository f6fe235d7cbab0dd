------------------------- MODULE UnityClientProofs -------------------------
(***************************************************************************)
(* Theorems about UnityClient: its types, the order of what is handed out, *)
(* what m_Received begins with, and that it implements MessageChannel, for *)
(* any message sizes, any cuts of the stream, any garbage sizes and any    *)
(* number of connections.                                                  *)
(*                                                                         *)
(* The inductive invariant is ReceiveInv.  What the reader holds and will  *)
(* get is in the order it was sent in, behind all that was handed out      *)
(* (OrderInv), also across connections, since m_Received is kept.  A       *)
(* client without a connection holds nothing or is out of step (NullInv).  *)
(* In step, what is not handed out is a stream without a gap, that begins  *)
(* with a message (StepInv).                                               *)
(***************************************************************************)
EXTENDS UnityClient, WireProofs

\* What was not handed out: what was read of it, and what was not.
stream == m_Received \o wire

Types ==
  /\ sent \in Seq(MessageSizes) /\ wire \in Seq(Byte)
  /\ m_TcpClient \in {"null", "up", "closed", "broken"}
  /\ m_Received \in Seq(Byte)
  /\ first \in 1..(Len(sent) + 1) /\ out_of_step \in BOOLEAN
  /\ connections \in Nat /\ delivered \in Seq(Nat)

OrderInv ==
  /\ InFrames(stream, sent) /\ Ordered(stream)
  /\ \A d \in 1..Len(delivered) :
       /\ delivered[d] <= Len(sent)
       /\ \A k \in 1..Len(stream) : delivered[d] < stream[k][1]
  /\ InOrder

NullInv ==
  m_TcpClient = "null" => wire = <<>> /\ (m_Received = <<>> \/ out_of_step)

\* The messages of the connection before message i that carry data.
HandedOut(i) ==
  \A j \in first..(i - 1) :
    sent[j] > 0 => \E d \in 1..Len(delivered) : delivered[d] = j

StepInv ==
  m_TcpClient # "null" /\ ~out_of_step =>
    /\ Stream(stream, sent)
    /\ \E i \in first..(Len(sent) + 1) : HandedOut(i) /\ NextIs(stream, sent, i, 1)

ReceiveInv == Types /\ OrderInv /\ NullInv /\ StepInv

-----------------------------------------------------------------------------
(* The stream                                                              *)

LEMMA Facts ==
  ASSUME Types
  PROVE  /\ sent \in Seq(Nat) /\ Len(sent) \in Nat /\ Len(delivered) \in Nat
         /\ first \in Nat \ {0} /\ first <= Len(sent) + 1
         /\ \A i \in 1..Len(sent) : sent[i] \in Nat
         /\ stream \in Seq(Byte) /\ Len(stream) = Len(m_Received) + Len(wire)
         /\ Len(stream) \in Nat /\ Len(m_Received) \in Nat /\ Len(wire) \in Nat
         /\ \A k \in 1..Len(m_Received) : m_Received[k] = stream[k] /\ k \in 1..Len(stream)
         /\ \A k \in 1..Len(wire) : wire[k] = stream[Len(m_Received) + k]
                                    /\ Len(m_Received) + k \in 1..Len(stream)
<1>1. m_Received \in Seq(Byte) /\ wire \in Seq(Byte)
  BY DEF Types
<1>2. sent \in Seq(Nat)
  BY WireAssumption, SeqMonotonic DEF Types
<1>3. Len(m_Received) \in Nat /\ Len(wire) \in Nat /\ Len(sent) \in Nat /\ Len(delivered) \in Nat
  BY <1>1, <1>2 DEF Types
<1>4. \A i \in 1..Len(sent) : sent[i] \in Nat
  BY <1>2
<1>5. first \in Nat \ {0} /\ first <= Len(sent) + 1
  BY <1>3 DEF Types
<1>6. /\ stream \in Seq(Byte) /\ Len(stream) = Len(m_Received) + Len(wire)
      /\ \A k \in 1..(Len(m_Received) + Len(wire)) :
           stream[k] = IF k <= Len(m_Received) THEN m_Received[k]
                                               ELSE wire[k - Len(m_Received)]
  BY <1>1, ConcatProperties DEF stream
<1>7. \A k \in 1..Len(m_Received) : m_Received[k] = stream[k] /\ k \in 1..Len(stream)
  BY <1>3, <1>6
<1>8. ASSUME NEW k \in 1..Len(wire)
      PROVE  wire[k] = stream[Len(m_Received) + k] /\ Len(m_Received) + k \in 1..Len(stream)
  <2>1. /\ Len(m_Received) + k \in 1..(Len(m_Received) + Len(wire))
        /\ ~(Len(m_Received) + k <= Len(m_Received))
        /\ (Len(m_Received) + k) - Len(m_Received) = k
    BY <1>3
  <2> QED BY <1>6, <2>1
<1> QED BY <1>2, <1>3, <1>4, <1>5, <1>6, <1>7, <1>8

\* The bytes a frame has to look at: the front of the stream.
LEMMA FrameReads ==
  ASSUME Types, NEW n \in 0..Len(wire), NEW bytes, bytes = m_Received \o Prefix(wire, n)
  PROVE  /\ bytes \in Seq(Byte) /\ Len(bytes) \in Nat
         /\ Suffix(wire, n) \in Seq(Byte)
         /\ bytes \o Suffix(wire, n) = stream
<1>1. m_Received \in Seq(Byte) /\ wire \in Seq(Byte)
  BY DEF Types
<1>2. Prefix(wire, n) \in Seq(Byte) /\ Suffix(wire, n) \in Seq(Byte)
  BY <1>1, PrefixIsSeq, SuffixIsSeq
<1>3. bytes \in Seq(Byte)
  BY <1>1, <1>2, ConcatProperties
<1>4. bytes \o Suffix(wire, n) = stream
  BY <1>1, MovedBetween DEF stream
<1> QED BY <1>2, <1>3, <1>4

\* It takes the first l of them.
LEMMA FrameTakes ==
  ASSUME Types, NEW n \in 0..Len(wire), NEW bytes, bytes = m_Received \o Prefix(wire, n),
         wire' = Suffix(wire, n), NEW l \in 0..Len(bytes), m_Received' = Suffix(bytes, l)
  PROVE  /\ stream' = Suffix(stream, l) /\ l \in 0..Len(stream)
         /\ PartOf(stream', stream, l) /\ m_Received' \in Seq(Byte) /\ wire' \in Seq(Byte)
<1>1. bytes \in Seq(Byte) /\ Suffix(wire, n) \in Seq(Byte) /\ bytes \o Suffix(wire, n) = stream
  BY FrameReads
<1>2. /\ Suffix(bytes, l) \o Suffix(wire, n) = Suffix(bytes \o Suffix(wire, n), l)
      /\ l \in 0..Len(bytes \o Suffix(wire, n))
  BY <1>1, TakenFromFront
<1>3. stream' = Suffix(stream, l) /\ l \in 0..Len(stream)
  BY <1>1, <1>2 DEF stream
<1>4. PartOf(stream', stream, l)
  BY <1>3, SuffixIsPart, Facts
<1>5. m_Received' \in Seq(Byte)
  BY <1>1, SuffixIsSeq
<1> QED BY <1>1, <1>3, <1>4, <1>5

\* The bytes it looks at are those of the stream.
LEMMA FrameLooks ==
  ASSUME Types, NEW n \in 0..Len(wire), NEW bytes, bytes = m_Received \o Prefix(wire, n),
         NEW l \in 0..Len(bytes)
  PROVE  /\ l \in 0..Len(stream) /\ Prefix(bytes, l) = Prefix(stream, l)
         /\ \A k \in 1..Len(bytes) : bytes[k] = stream[k]
<1>1. bytes \in Seq(Byte) /\ Suffix(wire, n) \in Seq(Byte) /\ bytes \o Suffix(wire, n) = stream
  BY FrameReads
<1>2. /\ l \in 0..Len(bytes \o Suffix(wire, n))
      /\ Prefix(bytes, l) = Prefix(bytes \o Suffix(wire, n), l)
      /\ \A k \in 1..Len(bytes) : bytes[k] = (bytes \o Suffix(wire, n))[k]
  BY <1>1, TakenFromFront
<1> QED BY <1>1, <1>2

\* A header is read as a natural number.
LEMMA SizesAreNat ==
  ASSUME Types, NEW bytes, NEW size \in Sizes(bytes)
  PROVE  size \in Nat
<1> DEFINE headers == {i \in 1..Len(sent) : Prefix(bytes, HeaderSize) = Header(i)}
<1>1. size \in {sent[i] : i \in headers} \/ size \in GarbageSizes
  BY DEF Sizes
<1> QED BY <1>1, UnityAssumption, Facts

\* The message that is cut out of the bytes.
LEMMA PayloadCut ==
  ASSUME NEW bytes \in Seq(Byte), NEW l \in Nat, HeaderSize + l <= Len(bytes),
         NEW payload, payload = SubSeq(bytes, HeaderSize + 1, HeaderSize + l)
  PROVE  /\ payload \in Seq(Byte) /\ Len(payload) = l
         /\ \A k \in 1..l : payload[k] = bytes[HeaderSize + k]
<1>1. Len(bytes) \in Nat /\ HeaderSize + 1 \in Int /\ HeaderSize + l \in Int
  BY DEF HeaderSize
<1>2. \A i \in (HeaderSize + 1)..(HeaderSize + l) : bytes[i] \in Byte
  <2>1. \A i \in (HeaderSize + 1)..(HeaderSize + l) : i \in 1..Len(bytes)
    BY <1>1 DEF HeaderSize
  <2> QED BY <2>1
<1>3. /\ payload \in Seq(Byte)
      /\ Len(payload) = IF HeaderSize + 1 <= HeaderSize + l
                          THEN (HeaderSize + l) - (HeaderSize + 1) + 1 ELSE 0
      /\ \A i \in 1..((HeaderSize + l) - (HeaderSize + 1) + 1) :
           payload[i] = bytes[HeaderSize + 1 + i - 1]
  BY <1>1, <1>2, SubSeqProperties
<1>4. Len(payload) = l
  BY <1>3 DEF HeaderSize
<1>5. ASSUME NEW k \in 1..l PROVE payload[k] = bytes[HeaderSize + k]
  <2>1. /\ k \in 1..((HeaderSize + l) - (HeaderSize + 1) + 1)
        /\ HeaderSize + 1 + k - 1 = HeaderSize + k
    BY DEF HeaderSize
  <2> QED BY <1>3, <2>1
<1> QED BY <1>3, <1>4, <1>5

-----------------------------------------------------------------------------
(* OrderInv                                                                *)

\* Bytes are dropped, or go from one place to another.
LEMMA OrderKept ==
  ASSUME OrderInv, Types', UNCHANGED <<sent, delivered>>,
         NEW n \in Nat, PartOf(stream', stream, n)
  PROVE  OrderInv'
<1>1. stream' \in Seq(Byte)
  <2>1. (m_Received' \in Seq(Byte)) /\ (wire' \in Seq(Byte))
    BY DEF Types
  <2> QED BY <2>1, ConcatProperties DEF stream
<1>2. InFrames(stream', sent') /\ Ordered(stream')
  BY <1>1, PartOrdered DEF OrderInv
<1>3. \A d \in 1..Len(delivered') :
        /\ delivered'[d] <= Len(sent')
        /\ \A k \in 1..Len(stream') : delivered'[d] < stream'[k][1]
  BY DEF OrderInv, PartOf
<1> QED BY <1>2, <1>3 DEF OrderInv, InOrder

\* A message from behind all that was handed out is taken, with all of the
\* stream up to its end.
LEMMA OrderTakes ==
  ASSUME Types, OrderInv, Types', sent' = sent, NEW n \in Nat, PartOf(stream', stream, n),
         NEW m \in 0..Len(sent), delivered' = Append(delivered, m),
         m # 0 => \A d \in 1..Len(delivered) : delivered[d] < m,
         \A k \in 1..Len(stream') : m < stream'[k][1]
  PROVE  OrderInv'
<1> DEFINE l == Len(delivered)
<1>1. stream' \in Seq(Byte) /\ l \in Nat /\ m \in Nat /\ delivered \in Seq(Nat)
  <2>1. (m_Received' \in Seq(Byte)) /\ (wire' \in Seq(Byte))
    BY DEF Types
  <2> QED BY <2>1, ConcatProperties, Facts DEF stream, Types
<1>2. InFrames(stream', sent') /\ Ordered(stream')
  BY <1>1, PartOrdered DEF OrderInv
<1>3. /\ Len(delivered') = l + 1 /\ delivered'[l + 1] = m
      /\ \A d \in 1..l : delivered'[d] = delivered[d]
  BY <1>1, AppendProperties
<1>4. ASSUME NEW d \in 1..Len(delivered')
      PROVE  /\ delivered'[d] <= Len(sent')
             /\ \A k \in 1..Len(stream') : delivered'[d] < stream'[k][1]
  <2>1. CASE d \in 1..l
    BY <1>3, <2>1 DEF OrderInv, PartOf
  <2>2. CASE d = l + 1
    BY <1>3, <2>2
  <2> QED BY <1>1, <1>3, <2>1, <2>2
<1>5. InOrder'
  <2> SUFFICES ASSUME NEW d \in 1..Len(delivered'), NEW e \in 1..Len(delivered'),
                      d < e, delivered'[e] # 0
               PROVE  delivered'[d] < delivered'[e]
    BY DEF InOrder
  <2>1. CASE e = l + 1
    <3>1. d \in 1..l
      BY <1>1, <1>3, <2>1
    <3> QED BY <1>3, <2>1, <3>1
  <2>2. CASE e \in 1..l
    <3>1. d \in 1..l
      BY <1>1, <2>2
    <3> QED BY <1>3, <2>2, <3>1 DEF OrderInv, InOrder
  <2>3. e \in 1..l \/ e = l + 1
    <3> HIDE DEF l
    <3>1. l \in Nat /\ e \in 1..(l + 1)
      BY <1>1, <1>3
    <3> QED BY <3>1
  <2> QED BY <2>1, <2>2, <2>3
<1> QED BY <1>2, <1>4, <1>5 DEF OrderInv

\* A message that is cut out of the stream is behind all that was handed out,
\* and before all that is left.
LEMMA TakenIsNext ==
  ASSUME Types, OrderInv, NEW l \in Nat \ {0}, HeaderSize + l <= Len(stream),
         NEW payload \in Seq(Byte), Len(payload) = l,
         \A k \in 1..l : payload[k] = stream[HeaderSize + k],
         NEW t, PartOf(t, stream, HeaderSize + l), NEW m, m = Message(payload)
  PROVE  /\ m \in 0..Len(sent)
         /\ m # 0 => \A d \in 1..Len(delivered) : delivered[d] < m
         /\ \A k \in 1..Len(t) : m < t[k][1]
<1>1. sent \in Seq(Nat) /\ Len(stream) \in Nat /\ Len(sent) \in Nat
  BY Facts
<1>2. m \in 0..Len(sent) /\ (m # 0 => payload = Payload(m))
  BY <1>1, MessageOfPayload
<1>3. \A k \in 1..Len(t) :
        /\ HeaderSize + l + k \in 1..Len(stream) /\ t[k] = stream[HeaderSize + l + k]
        /\ InFrame(t[k], sent) /\ t[k][1] \in Nat \ {0}
  BY <1>1 DEF PartOf, OrderInv, InFrames, InFrame
<1>4. CASE m = 0
  BY <1>2, <1>3, <1>4
<1>5. CASE m # 0
  <2> DEFINE h == HeaderSize + l
  <2>1. /\ m \in 1..Len(sent) /\ sent[m] = l
        /\ \A k \in 1..l : payload[k] = <<m, HeaderSize + k>>
    <3>1. m \in 1..Len(sent) /\ payload = Payload(m)
      BY <1>1, <1>2, <1>5
    <3>2. /\ Len(Payload(m)) = sent[m]
          /\ \A k \in 1..sent[m] : Payload(m)[k] = <<m, HeaderSize + k>>
      BY <1>1, <3>1, PayloadIsBytes
    <3> QED BY <3>1, <3>2
  <2>2. h \in 1..Len(stream) /\ l \in 1..l
    BY <1>1 DEF HeaderSize
  <2>3. At(stream[h], m, EndOf(m, sent)) /\ stream[h][1] = m
    BY <2>1, <2>2 DEF At, EndOf
  <2>4. \A d \in 1..Len(delivered) : delivered[d] < m
    BY <2>2, <2>3 DEF OrderInv
  <2>5. ASSUME NEW k \in 1..Len(t) PROVE m < t[k][1]
    <3>1. h < h + k /\ h + k \in 1..Len(stream)
      BY <1>1, <1>3, <2>2
    <3>2. Before(stream[h], t[k])
      BY <1>3, <2>2, <3>1 DEF OrderInv, Ordered
    <3> QED BY <1>1, <1>3, <2>1, <2>3, <3>2, BehindTheEnd
  <2> QED BY <1>2, <2>4, <2>5
<1> QED BY <1>4, <1>5

\* Taking nothing is taking the first 0 bytes.
LEMMA NothingTaken ==
  ASSUME NEW S, NEW s \in Seq(S)
  PROVE  Suffix(s, 0) = s
<1>1. Len(s) \in Nat /\ 0 \in 0..Len(s)
  OBVIOUS
<1>2. /\ Suffix(s, 0) \in Seq(S) /\ Len(Suffix(s, 0)) = Len(s) - 0
      /\ \A k \in 1..(Len(s) - 0) : Suffix(s, 0)[k] = s[0 + k]
  BY <1>1, SuffixIsSeq
<1>3. /\ Len(Suffix(s, 0)) = Len(s)
      /\ \A k \in 1..Len(Suffix(s, 0)) : Suffix(s, 0)[k] = s[k]
  BY <1>1, <1>2
<1> QED BY <1>2, <1>3, SeqEqual

-----------------------------------------------------------------------------
(* RecieveMessage()                                                        *)

\* What one frame does, in terms of the stream: it takes nothing, or a
\* keep-alive message, or a message of l bytes.
Takes(l) ==
  /\ l \in 0..Len(stream) /\ stream' = Suffix(stream, l) /\ PartOf(stream', stream, l)

LEMMA ReceiveTypes ==
  ASSUME Types, NEW n \in 0..Len(wire), RecieveMessage(n)
  PROVE  Types'
<1> DEFINE bytes == m_Received \o Prefix(wire, n)
<1>1. /\ bytes \in Seq(Byte) /\ Len(bytes) \in Nat /\ Suffix(wire, n) \in Seq(Byte)
  BY FrameReads
<1>2. UNCHANGED <<sent, first, out_of_step, m_TcpClient, connections>> /\ wire' = Suffix(wire, n)
  BY DEF RecieveMessage, history
<1>3. Incomplete(bytes) \/ KeepAlive(bytes) \/ TakeMessage(bytes) \/ Throws(bytes)
  BY DEF RecieveMessage
<1> HIDE DEF bytes
<1>4. m_Received' \in Seq(Byte) /\ delivered' \in Seq(Nat)
  <2>1. CASE Incomplete(bytes) \/ Throws(bytes)
    BY <1>1, <2>1 DEF Incomplete, Throws, Types
  <2>2. CASE KeepAlive(bytes)
    <3>1. HeaderSize + 0 \in 0..Len(bytes)
      BY <1>1, <2>2 DEF KeepAlive, HeaderSize
    <3> QED BY <1>1, <2>2, <3>1, SuffixIsSeq DEF KeepAlive, Rest, Types
  <2>3. CASE TakeMessage(bytes)
    <3>1. PICK l \in Sizes(bytes) :
            /\ l >= 4 /\ Whole(bytes, l)
            /\ delivered' = Append(delivered,
                 Message(SubSeq(bytes, HeaderSize + 1, HeaderSize + l)))
            /\ m_Received' = Rest(bytes, l)
      BY <2>3 DEF TakeMessage
    <3>2. l \in Nat
      BY <3>1, SizesAreNat
    <3>3. HeaderSize + l \in 0..Len(bytes)
      BY <1>1, <3>1, <3>2 DEF Whole, HeaderSize
    <3>4. m_Received' \in Seq(Byte)
      BY <1>1, <3>1, <3>3, SuffixIsSeq DEF Rest
    <3> DEFINE m == Message(SubSeq(bytes, HeaderSize + 1, HeaderSize + l))
    <3>5. m \in Nat
      <4>1. m \in 0..Len(sent) /\ Len(sent) \in Nat
        BY Facts, MessageOfPayload
      <4> QED BY <4>1
    <3> HIDE DEF m
    <3>6. delivered' = Append(delivered, m) /\ delivered \in Seq(Nat)
      BY <3>1 DEF m, Types
    <3> QED BY <3>4, <3>5, <3>6, AppendProperties
  <2> QED BY <1>3, <2>1, <2>2, <2>3
<1> QED BY <1>1, <1>2, <1>4 DEF Types

\* A frame that hands nothing out takes nothing, or a header that may say that
\* no data follows.
LEMMA ReceiveNothing ==
  ASSUME Types, NEW n \in 0..Len(wire), RecieveMessage(n), delivered' = delivered
  PROVE  Takes(0) \/ (Takes(HeaderSize) /\ 0 \in Sizes(stream))
<1> DEFINE bytes == m_Received \o Prefix(wire, n)
<1>1. /\ bytes \in Seq(Byte) /\ Len(bytes) \in Nat /\ wire' = Suffix(wire, n)
  BY FrameReads DEF RecieveMessage
<1>2. \/ m_Received' = bytes
      \/ KeepAlive(bytes)
  <2>1. ~TakeMessage(bytes)
    <3> SUFFICES ASSUME NEW m, delivered' = Append(delivered, m) PROVE FALSE
      BY DEF TakeMessage
    <3>1. delivered \in Seq(Nat) /\ Len(delivered) \in Nat
      BY DEF Types
    <3>2. Len(Append(delivered, m)) = Len(delivered) + 1
      BY <3>1
    <3> QED BY <3>1, <3>2
  <2> QED BY <2>1 DEF RecieveMessage, Incomplete, Throws
<1>3. CASE m_Received' = bytes
  <2>1. Suffix(bytes, 0) = bytes
    BY <1>1, NothingTaken
  <2>2. m_Received' = Suffix(bytes, 0) /\ 0 \in 0..Len(bytes)
    BY <1>1, <1>3, <2>1
  <2> QED BY <1>1, <2>2, FrameTakes DEF Takes
<1>4. CASE KeepAlive(bytes)
  <2>1. /\ Len(bytes) >= HeaderSize /\ 0 \in Sizes(bytes)
        /\ m_Received' = Suffix(bytes, HeaderSize)
    <3>1. HeaderSize + 0 = HeaderSize
      BY DEF HeaderSize
    <3> QED BY <1>4, <3>1 DEF KeepAlive, Rest
  <2>2. HeaderSize \in 0..Len(bytes)
    BY <1>1, <2>1 DEF HeaderSize
  <2>3. Prefix(bytes, HeaderSize) = Prefix(stream, HeaderSize)
    BY <2>2, FrameLooks
  <2>4. Sizes(bytes) = Sizes(stream)
    BY <2>3 DEF Sizes
  <2> QED BY <1>1, <2>1, <2>2, <2>4, FrameTakes DEF Takes
<1> QED BY <1>2, <1>3, <1>4

\* A frame that hands something out takes a message of the size its header
\* says, and hands out the payload.
LEMMA ReceiveSomething ==
  ASSUME Types, NEW n \in 0..Len(wire), RecieveMessage(n), delivered' # delivered
  PROVE  \E l \in Sizes(stream), payload \in Seq(Byte) :
           /\ l \in Nat /\ l >= 4 /\ HeaderSize + l <= Len(stream)
           /\ Takes(HeaderSize + l)
           /\ Len(payload) = l /\ \A k \in 1..l : payload[k] = stream[HeaderSize + k]
           /\ delivered' = Append(delivered, Message(payload))
<1> DEFINE bytes == m_Received \o Prefix(wire, n)
<1>1. /\ bytes \in Seq(Byte) /\ Len(bytes) \in Nat /\ wire' = Suffix(wire, n)
  BY FrameReads DEF RecieveMessage
<1>2. TakeMessage(bytes)
  BY DEF RecieveMessage, Incomplete, KeepAlive, Throws
<1>3. PICK l \in Sizes(bytes) :
        /\ l >= 4 /\ Whole(bytes, l)
        /\ delivered' = Append(delivered,
             Message(SubSeq(bytes, HeaderSize + 1, HeaderSize + l)))
        /\ m_Received' = Rest(bytes, l)
  BY <1>2 DEF TakeMessage
<1>4. l \in Nat
  BY <1>3, SizesAreNat
<1>5. /\ HeaderSize + l \in 0..Len(bytes) /\ HeaderSize \in 0..Len(bytes)
      /\ HeaderSize + l <= Len(bytes)
  BY <1>1, <1>3, <1>4 DEF Whole, HeaderSize
<1>6. Takes(HeaderSize + l) /\ HeaderSize + l <= Len(stream)
  <2>1. m_Received' = Suffix(bytes, HeaderSize + l)
    BY <1>3 DEF Rest
  <2>2. Takes(HeaderSize + l)
    BY <1>1, <1>5, <2>1, FrameTakes DEF Takes
  <2>3. Len(stream) \in Nat
    BY Facts
  <2> QED BY <2>2, <2>3 DEF Takes
<1>7. /\ Prefix(bytes, HeaderSize) = Prefix(stream, HeaderSize)
      /\ \A k \in 1..Len(bytes) : bytes[k] = stream[k]
  BY <1>5, FrameLooks
<1>8. l \in Sizes(stream)
  BY <1>3, <1>7 DEF Sizes
<1> HIDE DEF bytes
<1> DEFINE payload == SubSeq(bytes, HeaderSize + 1, HeaderSize + l)
<1>9. /\ payload \in Seq(Byte) /\ Len(payload) = l
      /\ \A k \in 1..l : payload[k] = bytes[HeaderSize + k]
  BY <1>1, <1>4, <1>5, PayloadCut
<1>10. delivered' = Append(delivered, Message(payload))
  BY <1>3
<1> HIDE DEF payload
<1>11. \A k \in 1..l : payload[k] = stream[HeaderSize + k]
  <2>1. \A k \in 1..l : HeaderSize + k \in 1..Len(bytes)
    BY <1>1, <1>4, <1>5 DEF HeaderSize
  <2> QED BY <1>7, <1>9, <2>1
<1> QED BY <1>4, <1>3, <1>6, <1>8, <1>9, <1>10, <1>11

\* What a frame hands out is behind all that was handed out before, in or out
\* of step.
LEMMA HandsOutNext ==
  ASSUME Types, OrderInv, NEW n \in 0..Len(wire), RecieveMessage(n),
         delivered' # delivered
  PROVE  \E m \in 0..Len(sent), l \in Nat :
           /\ PartOf(stream', stream, l) /\ delivered' = Append(delivered, m)
           /\ m # 0 => \A d \in 1..Len(delivered) : delivered[d] < m
           /\ \A k \in 1..Len(stream') : m < stream'[k][1]
<1>1. PICK l \in Sizes(stream), payload \in Seq(Byte) :
        /\ l \in Nat /\ l >= 4 /\ HeaderSize + l <= Len(stream)
        /\ Takes(HeaderSize + l)
        /\ Len(payload) = l /\ \A k \in 1..l : payload[k] = stream[HeaderSize + k]
        /\ delivered' = Append(delivered, Message(payload))
  BY ReceiveSomething
<1>2. l \in Nat \ {0} /\ HeaderSize + l \in Nat
  BY <1>1 DEF HeaderSize
<1>3. PartOf(stream', stream, HeaderSize + l)
  BY <1>1 DEF Takes
<1> DEFINE m == Message(payload)
           t == stream'
<1>4. delivered' = Append(delivered, m) /\ PartOf(t, stream, HeaderSize + l)
  BY <1>1, <1>3
<1>5. m = Message(payload)
  OBVIOUS
<1> HIDE DEF m, t
<1>6. /\ m \in 0..Len(sent)
      /\ m # 0 => \A d \in 1..Len(delivered) : delivered[d] < m
      /\ \A k \in 1..Len(t) : m < t[k][1]
  BY <1>1, <1>2, <1>4, <1>5, TakenIsNext
<1>7. \A k \in 1..Len(stream') : m < stream'[k][1]
  BY <1>6 DEF t
<1> QED BY <1>2, <1>3, <1>4, <1>6, <1>7

LEMMA OrderReceives ==
  ASSUME Types, OrderInv, Types', NEW n \in 0..Len(wire), RecieveMessage(n)
  PROVE  OrderInv'
<1>1. sent' = sent
  BY DEF RecieveMessage
<1>2. CASE delivered' = delivered
  <2>1. PICK l \in {0, HeaderSize} : Takes(l)
    BY <1>2, ReceiveNothing
  <2>2. l \in Nat
    BY DEF HeaderSize
  <2> QED BY <1>1, <1>2, <2>1, <2>2, OrderKept DEF Takes
<1>3. CASE delivered' # delivered
  <2>1. PICK m \in 0..Len(sent), l \in Nat :
          /\ PartOf(stream', stream, l) /\ delivered' = Append(delivered, m)
          /\ m # 0 => \A d \in 1..Len(delivered) : delivered[d] < m
          /\ \A k \in 1..Len(stream') : m < stream'[k][1]
    BY <1>3, HandsOutNext
  <2> QED BY <1>1, <2>1, OrderTakes
<1> QED BY <1>2, <1>3

-----------------------------------------------------------------------------
(* The server sends                                                        *)

LEMMA StreamSends ==
  ASSUME Types, OrderInv, NEW size \in MessageSizes, ServerSends(size)
  PROVE  /\ sent' = Append(sent, size) /\ sent' \in Seq(MessageSizes)
         /\ Len(sent') = Len(sent) + 1 /\ wire' \in Seq(Byte)
         /\ \A i \in 1..Len(sent) : sent'[i] = sent[i]
         /\ Extends(stream', stream, Len(sent) + 1, size)
         /\ InFrames(stream', sent') /\ Ordered(stream')
         /\ Stream(stream, sent) => Stream(stream', sent')
         /\ \A i, p : NextIs(stream, sent, i, p) => NextIs(stream', sent', i, p)
<1> DEFINE m == Len(sent) + 1
<1>1. /\ sent' = Append(sent, size) /\ wire' = wire \o Frame(m, size)
      /\ m_Received' = m_Received /\ size \in Nat
  BY WireAssumption DEF ServerSends, SendMessage
<1>2. /\ sent \in Seq(Nat) /\ sent \in Seq(MessageSizes) /\ m \in Nat
      /\ wire \in Seq(Byte) /\ m_Received \in Seq(Byte) /\ stream \in Seq(Byte)
  BY Facts DEF Types
<1>3. /\ sent' \in Seq(MessageSizes) /\ Len(sent') = m /\ sent'[m] = size
      /\ \A i \in 1..Len(sent) : sent'[i] = sent[i]
  BY <1>1, <1>2, AppendProperties
<1>4. sent' \in Seq(Nat)
  BY <1>1, <1>2, AppendProperties
<1>5. stream' = stream \o Frame(m, size) /\ wire' \in Seq(Byte)
  <2> DEFINE f == Frame(m, size)
  <2>1. f \in Seq(Byte)
    BY <1>1, <1>2, FrameIsBytes
  <2> HIDE DEF f
  <2>2. (m_Received \o wire) \o f = m_Received \o (wire \o f)
    BY <1>2, <2>1, ConcatAssociative
  <2>3. wire \o f \in Seq(Byte)
    BY <1>2, <2>1, ConcatProperties
  <2> QED BY <1>1, <2>2, <2>3 DEF stream, f
<1>6. Extends(stream', stream, m, size)
  BY <1>1, <1>2, <1>5, FrameExtends
<1>7. InFrames(stream, sent) /\ Ordered(stream)
  BY DEF OrderInv
<1> DEFINE t == stream'
           more == sent'
<1>8. /\ more \in Seq(Nat) /\ Len(more) = m /\ more[m] = size
      /\ \A i \in 1..Len(sent) : more[i] = sent[i]
      /\ Extends(t, stream, m, size)
  BY <1>3, <1>4, <1>6
<1> HIDE DEF t, more
<1>9. m = Len(sent) + 1
  OBVIOUS
<1> HIDE DEF m
<1>10. /\ InFrames(t, more) /\ (Ordered(stream) => Ordered(t))
       /\ Stream(stream, sent) => Stream(t, more)
       /\ \A i, p : NextIs(stream, sent, i, p) => NextIs(t, more, i, p)
  BY <1>1, <1>2, <1>7, <1>8, <1>9, FrameAppended
<1> QED BY <1>1, <1>3, <1>5, <1>6, <1>7, <1>9, <1>10 DEF t, more

LEMMA OrderSends ==
  ASSUME Types, OrderInv, NEW size \in MessageSizes, ServerSends(size)
  PROVE  OrderInv'
<1> DEFINE m == Len(sent) + 1
<1>1. UNCHANGED delivered /\ InOrder' = InOrder /\ InOrder
  BY DEF ServerSends, OrderInv, InOrder
<1>2. /\ Len(sent) \in Nat /\ Len(stream) \in Nat /\ stream \in Seq(Byte)
      /\ delivered \in Seq(Nat) /\ size \in Nat
  BY Facts, WireAssumption DEF Types
<1>3. /\ Len(sent') = m /\ InFrames(stream', sent') /\ Ordered(stream')
      /\ Extends(stream', stream, m, size)
  BY StreamSends
<1>4. ASSUME NEW k \in 1..Len(stream')
      PROVE  \/ k \in 1..Len(stream) /\ stream'[k] = stream[k]
             \/ stream'[k][1] = m
  <2>1. CASE k <= Len(stream)
    BY <1>2, <1>3, <2>1 DEF Extends
  <2>2. CASE k > Len(stream)
    <3> DEFINE t == stream'
    <3>1. Extends(t, stream, m, size) /\ k \in 1..Len(t)
      BY <1>3
    <3> HIDE DEF t
    <3>2. At(t[k], m, k - Len(stream))
      BY <1>2, <2>2, <3>1, BehindFrame
    <3> QED BY <3>2 DEF At, t
  <2> QED BY <1>2, <1>3, <2>1, <2>2 DEF Extends, HeaderSize
<1>5. \A d \in 1..Len(delivered) :
        /\ delivered[d] <= Len(sent')
        /\ \A k \in 1..Len(stream') : delivered[d] < stream'[k][1]
  <2> SUFFICES ASSUME NEW d \in 1..Len(delivered)
               PROVE  /\ delivered[d] <= Len(sent')
                      /\ \A k \in 1..Len(stream') : delivered[d] < stream'[k][1]
    OBVIOUS
  <2>1. delivered[d] \in Nat /\ delivered[d] <= Len(sent)
    BY <1>2 DEF OrderInv
  <2>2. delivered[d] <= Len(sent') /\ delivered[d] < m
    BY <1>2, <1>3, <2>1
  <2> QED BY <1>4, <2>2 DEF OrderInv
<1> QED BY <1>1, <1>3, <1>5 DEF OrderInv

-----------------------------------------------------------------------------
(* Types and NullInv                                                       *)

LEMMA TypesKept ==
  ASSUME Types, OrderInv, [Next]_vars
  PROVE  Types'
<1> USE DEF history
<1>1. /\ Len(sent) \in Nat /\ first \in Nat \ {0} /\ first <= Len(sent) + 1
      /\ <<>> \in Seq(Byte)
  BY Facts
<1>2. CASE Frames
  <2>1. PICK n \in 0..Len(wire) : RecieveMessage(n)
    BY <1>2 DEF Frames
  <2> QED BY <2>1, ReceiveTypes
<1>3. CASE Connect
  <2>1. /\ sent' = sent /\ wire' = <<>> /\ UNCHANGED <<m_Received, delivered>>
        /\ m_TcpClient' \in {"null", "up"}
        /\ connections' \in {connections, connections + 1}
    BY <1>3 DEF Connect
  <2>2. first' = Len(sent) + 1 /\ out_of_step' \in BOOLEAN
    BY <1>3 DEF Connect, BeginConnection
  <2>3. first' \in 1..(Len(sent') + 1)
    BY <1>1, <2>1, <2>2
  <2>4. connections' \in Nat
    BY <2>1 DEF Types
  <2> QED BY <1>1, <2>1, <2>2, <2>3, <2>4 DEF Types
<1>4. CASE Disconnect
  BY <1>1, <1>4 DEF Disconnect, AfterDisconnect, Types
<1>5. CASE RemoteClose \/ RemoteCommandFails
  BY <1>5 DEF RemoteClose, RemoteCommandFails, Types
<1>6. ASSUME NEW size \in MessageSizes, ServerSends(size) PROVE Types'
  <2>1. /\ sent' \in Seq(MessageSizes) /\ Len(sent') = Len(sent) + 1 /\ wire' \in Seq(Byte)
    BY <1>6, StreamSends
  <2>2. UNCHANGED <<first, out_of_step, m_TcpClient, m_Received, connections, delivered>>
    BY <1>6 DEF ServerSends
  <2>3. first' \in 1..(Len(sent') + 1)
    BY <1>1, <2>1, <2>2
  <2> QED BY <2>1, <2>2, <2>3 DEF Types
<1>7. CASE UNCHANGED vars
  BY <1>7 DEF vars, Types
<1> QED BY <1>2, <1>3, <1>4, <1>5, <1>6, <1>7 DEF Next

LEMMA WholeIsPart ==
  ASSUME Types
  PROVE  PartOf(stream, stream, 0)
<1>1. \A k \in 1..Len(stream) : 0 + k = k
  BY Facts
<1> QED BY <1>1 DEF PartOf

\* A connection that ends, or that is made, drops the wire at most.
LEMMA OrderKeptOrSends ==
  ASSUME Types, OrderInv, Types', [Next]_vars
  PROVE  OrderInv'
<1> USE DEF history
<1>1. CASE Frames
  <2>1. PICK n \in 0..Len(wire) : RecieveMessage(n)
    BY <1>1 DEF Frames
  <2> QED BY <2>1, OrderReceives
<1>2. CASE Connect
  <2>1. stream' = m_Received /\ UNCHANGED <<sent, delivered>>
    <3>1. m_Received \in Seq(Byte) /\ stream' = m_Received \o <<>>
      BY <1>2 DEF Connect, stream, Types
    <3> QED BY <1>2, <3>1, ConcatEmptySeq DEF Connect
  <2>2. PartOf(m_Received, stream, 0)
    <3>1. \A k \in 1..Len(m_Received) :
            m_Received[k] = stream[k] /\ k \in 1..Len(stream) /\ 0 + k = k
      BY Facts
    <3> QED BY <3>1 DEF PartOf
  <2> QED BY <2>1, <2>2, OrderKept
<1>3. CASE Disconnect
  <2>1. stream' = <<>> /\ UNCHANGED <<sent, delivered>>
    BY <1>3 DEF Disconnect, AfterDisconnect, stream
  <2>2. \A k \in 1..Len(<<>>) : FALSE
    OBVIOUS
  <2>3. PartOf(stream', stream, 0)
    BY <2>1, <2>2 DEF PartOf
  <2> QED BY <2>1, <2>3, OrderKept
<1>4. CASE RemoteClose \/ RemoteCommandFails \/ UNCHANGED vars
  <2>1. stream' = stream /\ UNCHANGED <<sent, delivered>>
    BY <1>4 DEF RemoteClose, RemoteCommandFails, vars, stream
  <2>2. PartOf(stream', stream, 0)
    BY <2>1, WholeIsPart
  <2> QED BY <2>1, <2>2, OrderKept
<1>5. ASSUME NEW size \in MessageSizes, ServerSends(size) PROVE OrderInv'
  BY <1>5, OrderSends
<1> QED BY <1>1, <1>2, <1>3, <1>4, <1>5 DEF Next

LEMMA NullKept ==
  ASSUME Types, NullInv, [Next]_vars
  PROVE  NullInv'
<1> USE DEF NullInv, history
<1>1. CASE Frames
  <2>1. PICK n \in 0..Len(wire) : RecieveMessage(n)
    BY <1>1 DEF Frames
  <2> QED BY <2>1 DEF RecieveMessage
<1>2. CASE Connect
  <2>1. /\ wire' = <<>> /\ m_Received' = m_Received
        /\ out_of_step' = (m_Received # <<>> /\ (m_TcpClient # "null" \/ out_of_step))
    BY <1>2 DEF Connect, BeginConnection
  <2> QED BY <2>1
<1>3. CASE Disconnect
  BY <1>3 DEF Disconnect, AfterDisconnect
<1>4. CASE RemoteClose \/ RemoteCommandFails \/ UNCHANGED vars
  BY <1>4 DEF RemoteClose, RemoteCommandFails, vars
<1>5. ASSUME NEW size \in MessageSizes, ServerSends(size) PROVE NullInv'
  BY <1>5 DEF ServerSends
<1> QED BY <1>1, <1>2, <1>3, <1>4, <1>5 DEF Next

-----------------------------------------------------------------------------
(* StepInv                                                                 *)

\* Where the reader is in step: before the header of message i.
Begins(i) == HandedOut(i) /\ NextIs(stream, sent, i, 1)

\* A stream that begins with a header says the size of that message.
LEMMA HeaderInStep ==
  ASSUME Types, Stream(stream, sent), NEW i \in first..(Len(sent) + 1),
         NextIs(stream, sent, i, 1), HeaderSize \in 0..Len(stream)
  PROVE  /\ i \in first..Len(sent) /\ i \in 1..Len(sent) /\ i \in Nat \ {0}
         /\ sent[i] \in Nat /\ Sizes(stream) = {sent[i]}
<1>1. /\ sent \in Seq(Nat) /\ Len(sent) \in Nat /\ first \in Nat \ {0}
      /\ Len(stream) \in Nat /\ stream \in Seq(Byte)
  BY Facts
<1>2. Len(stream) >= HeaderSize /\ stream # <<>> /\ 1 \in 1..Len(stream)
  BY <1>1 DEF HeaderSize
<1>3. i \in 1..Len(sent)
  BY <1>2 DEF Stream, InFrames, InFrame, NextIs, At
<1>4. i \in first..Len(sent) /\ i \in Nat \ {0} /\ sent[i] \in Nat
  BY <1>1, <1>3
<1>5. Prefix(stream, HeaderSize) = Header(i)
  BY <1>1, <1>2, <1>3, ReadHeaderOf
<1>6. Sizes(stream) = {sent[i]}
  <2> DEFINE hs == {j \in 1..Len(sent) : Prefix(stream, HeaderSize) = Header(j)}
  <2>1. hs = {i}
    BY <1>3, <1>5, HeaderTells
  <2> QED BY <2>1 DEF Sizes
<1> QED BY <1>3, <1>4, <1>6

\* The whole of message i is taken off the stream.
LEMMA MessageTaken ==
  ASSUME Types, Stream(stream, sent), NEW i \in 1..Len(sent),
         NextIs(stream, sent, i, 1), Takes(HeaderSize + sent[i])
  PROVE  /\ Stream(stream', sent) /\ NextIs(stream', sent, i + 1, 1)
         /\ \A k \in 1..(HeaderSize + sent[i]) : stream[k] = <<i, k>>
<1>1. /\ sent \in Seq(Nat) /\ stream \in Seq(Byte) /\ sent[i] \in Nat /\ Len(stream) \in Nat
  BY Facts
<1> DEFINE n == HeaderSize + sent[i]
<1>2. n \in 1..Len(stream) /\ n \in 0..Len(stream) /\ n \in Nat
  BY <1>1 DEF Takes, HeaderSize
<1>3. 1 + (n - 1) = EndOf(i, sent) /\ 1 + (n - 1) <= EndOf(i, sent) /\ 1 \in Nat \ {0}
  BY <1>1 DEF EndOf, HeaderSize
<1>4. stream' = Suffix(stream, n)
  BY DEF Takes
<1>5. \A k \in 1..n : k \in Nat /\ 1 + (k - 1) = k
  BY <1>2
<1> HIDE DEF n
<1>6. /\ \A k \in 1..n : stream[k] = <<i, 1 + (k - 1)>>
      /\ NextIs(Suffix(stream, n), sent, i + 1, 1)
  BY <1>1, <1>2, <1>3, ReadOn
<1>7. Stream(Suffix(stream, n), sent)
  BY <1>1, <1>2, SuffixIsStream
<1>8. \A k \in 1..n : stream[k] = <<i, k>>
  BY <1>5, <1>6
<1> QED BY <1>4, <1>6, <1>7, <1>8 DEF n

\* What a frame hands out in step is the next message with data.
LEMMA StepHandsOut ==
  ASSUME Types, Stream(stream, sent), NEW i \in first..(Len(sent) + 1), Begins(i),
         NEW n \in 0..Len(wire), RecieveMessage(n), delivered' # delivered
  PROVE  /\ i \in first..Len(sent) /\ i \in 1..Len(sent) /\ sent[i] > 0
         /\ delivered' = Append(delivered, i)
         /\ Stream(stream', sent) /\ Begins(i + 1)'
<1>1. PICK l \in Sizes(stream), payload \in Seq(Byte) :
        /\ l \in Nat /\ l >= 4 /\ HeaderSize + l <= Len(stream)
        /\ Takes(HeaderSize + l)
        /\ Len(payload) = l /\ \A k \in 1..l : payload[k] = stream[HeaderSize + k]
        /\ delivered' = Append(delivered, Message(payload))
  BY ReceiveSomething
<1>2. /\ sent \in Seq(Nat) /\ Len(sent) \in Nat /\ first \in Nat \ {0}
      /\ Len(stream) \in Nat /\ delivered \in Seq(Nat) /\ Len(delivered) \in Nat
      /\ UNCHANGED <<sent, first>>
  BY Facts DEF Types, RecieveMessage, history
<1>3. HeaderSize \in 0..Len(stream)
  BY <1>1, <1>2 DEF HeaderSize
<1>4. /\ i \in first..Len(sent) /\ i \in 1..Len(sent) /\ i \in Nat \ {0}
      /\ sent[i] \in Nat /\ Sizes(stream) = {sent[i]}
  BY <1>3, HeaderInStep DEF Begins
<1>5. l = sent[i] /\ sent[i] > 0
  BY <1>1, <1>4
<1>6. /\ Stream(stream', sent) /\ NextIs(stream', sent, i + 1, 1)
      /\ \A k \in 1..(HeaderSize + sent[i]) : stream[k] = <<i, k>>
  BY <1>1, <1>4, <1>5, MessageTaken DEF Begins
<1>7. payload = Payload(i)
  <2>1. /\ Payload(i) \in Seq(Byte) /\ Len(Payload(i)) = sent[i]
        /\ \A k \in 1..sent[i] : Payload(i)[k] = <<i, HeaderSize + k>>
    BY <1>2, <1>4, PayloadIsBytes
  <2>2. \A k \in 1..sent[i] : HeaderSize + k \in 1..(HeaderSize + sent[i])
    BY <1>4 DEF HeaderSize
  <2>3. \A k \in 1..Len(payload) : payload[k] = Payload(i)[k]
    BY <1>1, <1>5, <1>6, <2>1, <2>2
  <2> QED BY <1>1, <1>5, <2>1, <2>3, SeqEqual
<1>8. delivered' = Append(delivered, i)
  BY <1>1, <1>2, <1>4, <1>5, <1>7, PayloadTells
<1>9. /\ Len(delivered') = Len(delivered) + 1 /\ delivered'[Len(delivered) + 1] = i
      /\ \A d \in 1..Len(delivered) : delivered'[d] = delivered[d]
  BY <1>2, <1>4, <1>8, AppendProperties
<1>10. HandedOut(i + 1)'
  <2> SUFFICES ASSUME NEW j \in first..((i + 1) - 1), sent[j] > 0
               PROVE  \E d \in 1..Len(delivered') : delivered'[d] = j
    BY <1>2 DEF HandedOut
  <2>1. CASE j = i
    <3>1. Len(delivered) + 1 \in 1..Len(delivered')
      BY <1>2, <1>9
    <3> QED BY <1>9, <2>1, <3>1
  <2>2. CASE j # i
    <3>1. j \in first..(i - 1)
      BY <1>2, <1>4, <2>2
    <3>2. PICK d \in 1..Len(delivered) : delivered[d] = j
      BY <3>1 DEF HandedOut, Begins
    <3>3. d \in 1..Len(delivered')
      BY <1>2, <1>9
    <3> QED BY <1>9, <3>2, <3>3
  <2> QED BY <2>1, <2>2
<1> QED BY <1>2, <1>4, <1>5, <1>6, <1>8, <1>10 DEF Begins

LEMMA StepReceives ==
  ASSUME Types, Stream(stream, sent), NEW i \in first..(Len(sent) + 1), Begins(i),
         NEW n \in 0..Len(wire), RecieveMessage(n)
  PROVE  Stream(stream', sent) /\ \E j \in first..(Len(sent) + 1) : Begins(j)'
<1>1. /\ sent \in Seq(Nat) /\ Len(sent) \in Nat /\ first \in Nat \ {0}
      /\ stream \in Seq(Byte) /\ UNCHANGED <<sent, first>>
  BY Facts DEF RecieveMessage, history
<1>2. CASE delivered' # delivered
  <2>1. /\ i \in first..Len(sent) /\ Stream(stream', sent) /\ Begins(i + 1)'
    BY <1>2, StepHandsOut
  <2>2. i + 1 \in first..(Len(sent) + 1)
    BY <1>1, <2>1
  <2> QED BY <2>1, <2>2
<1>3. CASE delivered' = delivered /\ Takes(0)
  <2>1. stream' = stream
    BY <1>1, <1>3, NothingTaken DEF Takes
  <2>2. Begins(i)'
    BY <1>1, <1>3, <2>1 DEF Begins, HandedOut
  <2> QED BY <2>1, <2>2
<1>4. CASE delivered' = delivered /\ Takes(HeaderSize) /\ 0 \in Sizes(stream)
  <2>1. /\ i \in first..Len(sent) /\ i \in 1..Len(sent)
        /\ sent[i] \in Nat /\ Sizes(stream) = {sent[i]}
    BY <1>4, HeaderInStep DEF Takes, Begins
  <2>2. sent[i] = 0 /\ HeaderSize + sent[i] = HeaderSize
    BY <1>4, <2>1 DEF HeaderSize
  <2>3. Stream(stream', sent) /\ NextIs(stream', sent, i + 1, 1)
    BY <1>4, <2>1, <2>2, MessageTaken DEF Begins
  <2>4. i + 1 \in first..(Len(sent) + 1)
    BY <1>1, <2>1
  <2>5. HandedOut(i + 1)'
    <3>1. \A j \in first..((i + 1) - 1) : j \in first..(i - 1) \/ j = i
      BY <1>1, <2>1
    <3> QED BY <1>1, <1>4, <2>2, <3>1 DEF HandedOut, Begins
  <2>6. Begins(i + 1)'
    BY <1>1, <2>3, <2>5 DEF Begins
  <2> QED BY <2>3, <2>4, <2>6
<1> QED BY <1>2, <1>3, <1>4, ReceiveNothing

\* A connection on which the reader is in step begins with nothing collected.
LEMMA StepConnects ==
  ASSUME Types, NullInv, Connect, ~out_of_step'
  PROVE  /\ Stream(stream', sent')
         /\ \E i \in first'..(Len(sent') + 1) : Begins(i)'
<1>1. Len(sent) \in Nat
  BY Facts
<1> PICK i \in 1..(Len(sent) + 1) : i = Len(sent) + 1
  BY <1>1
<1>2. /\ UNCHANGED <<sent, m_Received, delivered>> /\ wire' = <<>>
      /\ first' = i
      /\ m_Received # <<>> => m_TcpClient = "null" /\ ~out_of_step
  BY DEF Connect, BeginConnection
<1>3. m_Received = <<>>
  BY <1>2 DEF NullInv
<1>4. stream' = <<>>
  BY <1>2, <1>3 DEF stream
<1>5. Stream(stream', sent')
  <2>1. \A k \in 1..Len(<<>>) : FALSE
    OBVIOUS
  <2> QED BY <1>4, <2>1 DEF Stream, InFrames, Contiguous, UpToDate
<1>6. Begins(i)'
  <2>1. HandedOut(i)'
    <3>1. \A j \in i..(i - 1) : FALSE
      BY <1>1
    <3> QED BY <1>2, <3>1 DEF HandedOut
  <2> QED BY <1>2, <1>4, <2>1 DEF Begins, NextIs
<1>7. i \in first'..(Len(sent') + 1)
  BY <1>1, <1>2
<1> QED BY <1>5, <1>6, <1>7

LEMMA StepKept ==
  ASSUME ReceiveInv, [Next]_vars
  PROVE  StepInv'
<1> SUFFICES ASSUME m_TcpClient' # "null", ~out_of_step'
             PROVE  /\ Stream(stream', sent')
                    /\ \E i \in first'..(Len(sent') + 1) : Begins(i)'
  BY DEF StepInv, Begins
<1> USE DEF history
<1>1. /\ Types /\ OrderInv /\ NullInv /\ StepInv
      /\ Len(sent) \in Nat /\ first \in Nat \ {0}
  BY Facts DEF ReceiveInv
<1>2. CASE Frames
  <2>1. PICK n \in 0..Len(wire) : RecieveMessage(n)
    BY <1>2 DEF Frames
  <2>2. UNCHANGED <<sent, first, out_of_step, m_TcpClient>>
    BY <2>1 DEF RecieveMessage
  <2>3. Stream(stream, sent) /\ \E i \in first..(Len(sent) + 1) : Begins(i)
    BY <1>1, <2>2 DEF StepInv, Begins
  <2>4. Stream(stream', sent) /\ \E i \in first..(Len(sent) + 1) : Begins(i)'
    BY <1>1, <2>1, <2>3, StepReceives
  <2> QED BY <2>2, <2>4
<1>3. CASE Connect
  BY <1>1, <1>3, StepConnects
<1>4. CASE Disconnect
  BY <1>4 DEF Disconnect
<1>5. CASE RemoteClose \/ RemoteCommandFails \/ UNCHANGED vars
  <2>1. /\ stream' = stream /\ m_TcpClient # "null"
        /\ UNCHANGED <<sent, first, out_of_step, delivered>>
    BY <1>5 DEF RemoteClose, RemoteCommandFails, vars, stream
  <2>2. Stream(stream, sent) /\ \E i \in first..(Len(sent) + 1) : Begins(i)
    BY <1>1, <2>1 DEF StepInv, Begins
  <2> QED BY <2>1, <2>2 DEF Begins, HandedOut
<1>6. ASSUME NEW size \in MessageSizes, ServerSends(size)
      PROVE  /\ Stream(stream', sent')
             /\ \E i \in first'..(Len(sent') + 1) : Begins(i)'
  <2>1. m_TcpClient # "null" /\ UNCHANGED <<first, out_of_step, delivered>>
    BY <1>6 DEF ServerSends
  <2>2. PICK i \in first..(Len(sent) + 1) : Begins(i) /\ Stream(stream, sent)
    BY <1>1, <2>1 DEF StepInv, Begins
  <2>3. /\ Len(sent') = Len(sent) + 1 /\ \A j \in 1..Len(sent) : sent'[j] = sent[j]
        /\ Stream(stream', sent') /\ NextIs(stream', sent', i, 1)
    BY <1>1, <1>6, <2>2, StreamSends DEF Begins
  <2>4. i \in first'..(Len(sent') + 1)
    BY <1>1, <2>1, <2>3
  <2>5. HandedOut(i)'
    <3>1. \A j \in first..(i - 1) : j \in 1..Len(sent)
      BY <1>1
    <3> QED BY <2>1, <2>2, <2>3, <3>1 DEF HandedOut, Begins
  <2>6. Begins(i)'
    BY <2>3, <2>5 DEF Begins
  <2> QED BY <2>3, <2>4, <2>6
<1> QED BY <1>2, <1>3, <1>4, <1>5, <1>6 DEF Next

-----------------------------------------------------------------------------
(* The invariant, and what follows from it                                 *)

LEMMA InitReceiveInv == Init => ReceiveInv
<1> SUFFICES ASSUME Init PROVE ReceiveInv
  OBVIOUS
<1>1. /\ <<>> \in Seq(MessageSizes) /\ <<>> \in Seq(Byte) /\ <<>> \in Seq(Nat)
      /\ 0 \in Nat /\ 1 \in 1..(Len(<<>>) + 1)
  OBVIOUS
<1>2. Types
  BY <1>1 DEF Init, Types
<1>3. stream = <<>> /\ delivered = <<>>
  BY DEF Init, stream
<1>4. \A k \in 1..Len(<<>>) : FALSE
  OBVIOUS
<1>5. OrderInv
  BY <1>3, <1>4 DEF OrderInv, InFrames, Ordered, InOrder
<1> QED BY <1>2, <1>5 DEF Init, ReceiveInv, NullInv, StepInv

LEMMA ReceiveKept == ReceiveInv /\ [Next]_vars => ReceiveInv'
<1> SUFFICES ASSUME ReceiveInv, [Next]_vars PROVE ReceiveInv'
  OBVIOUS
<1>1. Types' /\ NullInv'
  BY TypesKept, NullKept DEF ReceiveInv
<1>2. OrderInv'
  BY <1>1, OrderKeptOrSends DEF ReceiveInv
<1> QED BY <1>1, <1>2, StepKept DEF ReceiveInv

LEMMA ReceiveCorrect == Spec => []ReceiveInv
BY InitReceiveInv, ReceiveKept, PTL DEF Spec

\* Every variable keeps to its type, and all bytes on their way are bytes of
\* messages.
THEOREM TypeCorrect == Spec => []TypeOK
<1>1. ReceiveInv => TypeOK
  <2> SUFFICES ASSUME ReceiveInv PROVE TypeOK
    OBVIOUS
  <2>1. Types /\ sent \in Seq(Nat) /\ InFrames(stream, sent)
    BY Facts DEF ReceiveInv, OrderInv
  <2>2. ASSUME NEW k \in 1..Len(wire) PROVE OfMessage(wire[k])
    <3>1. /\ Len(m_Received) + k \in 1..Len(stream)
          /\ wire[k] = stream[Len(m_Received) + k]
      BY <2>1, Facts
    <3>2. InFrame(wire[k], sent)
      BY <2>1, <3>1 DEF InFrames
    <3> QED BY <3>2 DEF InFrame, EndOf, OfMessage
  <2> QED BY <2>1, <2>2 DEF Types, TypeOK
<1> QED BY <1>1, ReceiveCorrect, PTL

\* Over all connections, and whatever was corrupted in between, the scene gets
\* no message twice or after a later one.
THEOREM HandedOutInOrder == Spec => []InOrder
<1>1. ReceiveInv => InOrder
  BY DEF ReceiveInv, OrderInv
<1> QED BY <1>1, ReceiveCorrect, PTL

\* In step, what m_Received begins with is a header: GetRange() never throws,
\* and no size is read out of the middle of a picture.
THEOREM BeginsWithHeader == Spec => []BeginsWithMessage
<1>1. ReceiveInv => BeginsWithMessage
  <2> SUFFICES ASSUME ReceiveInv, m_Received # <<>>, ~out_of_step
               PROVE  \E i \in first..Len(sent) : m_Received[1] = <<i, 1>>
    BY DEF BeginsWithMessage
  <2>1. Types /\ NullInv /\ StepInv
    BY DEF ReceiveInv
  <2>2. m_TcpClient # "null"
    BY <2>1 DEF NullInv
  <2>3. PICK i \in first..(Len(sent) + 1) :
          Stream(stream, sent) /\ NextIs(stream, sent, i, 1)
    BY <2>1, <2>2 DEF StepInv
  <2>4. 1 \in 1..Len(m_Received) /\ m_Received \in Seq(Byte)
    BY <2>1 DEF Types
  <2>5. /\ m_Received[1] = stream[1] /\ 1 \in 1..Len(stream)
        /\ Len(sent) \in Nat /\ first \in Nat \ {0} /\ stream \in Seq(Byte)
    BY <2>1, <2>4, Facts
  <2>6. At(stream[1], i, 1) /\ i \in 1..Len(sent)
    BY <2>3, <2>5 DEF NextIs, Stream, InFrames, InFrame, At
  <2>7. m_Received[1] = <<i, 1>>
    BY <2>4, <2>5, <2>6, ByteIsPair DEF At
  <2>8. i \in first..Len(sent)
    BY <2>3, <2>5, <2>6
  <2> QED BY <2>7, <2>8
<1> QED BY <1>1, ReceiveCorrect, PTL

\* A message that a frame hands out is the next one of the channel, or the
\* channel is broken and it is one from behind all others, or a corrupt one.
LEMMA HandsOutAsChannel ==
  ASSUME ReceiveInv, NEW n \in 0..Len(wire), RecieveMessage(n)
  PROVE  Channel!Deliver \/ Channel!HandOutAnything \/ UNCHANGED Channel!channel
<1>1. /\ UNCHANGED <<sent, first, out_of_step, m_TcpClient>> /\ m_TcpClient # "null"
      /\ Types /\ OrderInv /\ StepInv
  BY DEF RecieveMessage, history, ReceiveInv
<1>2. CASE delivered' = delivered
  BY <1>1, <1>2 DEF Channel!channel
<1>3. CASE delivered' # delivered
  <2>1. PICK m \in 0..Len(sent) :
          /\ delivered' = Append(delivered, m)
          /\ m # 0 => \A d \in 1..Len(delivered) : delivered[d] < m
    BY <1>1, <1>3, HandsOutNext
  <2>2. CASE out_of_step
    BY <1>1, <2>1, <2>2 DEF Channel!HandOutAnything
  <2>3. CASE ~out_of_step
    <3>1. PICK i \in first..(Len(sent) + 1) : Stream(stream, sent) /\ Begins(i)
      BY <1>1, <2>3 DEF StepInv, Begins
    <3>2. /\ i \in first..Len(sent) /\ i \in 1..Len(sent) /\ sent[i] > 0
          /\ delivered' = Append(delivered, i)
      BY <1>1, <1>3, <3>1, StepHandsOut
    <3>3. delivered \in Seq(Nat) /\ Len(delivered) \in Nat /\ Len(sent) \in Nat
      BY <1>1, Facts DEF Types
    <3>4. m = i
      <4>1. m \in Nat /\ i \in Nat
        BY <3>2, <3>3
      <4>2. /\ Append(delivered, m)[Len(delivered) + 1] = m
            /\ Append(delivered, i)[Len(delivered) + 1] = i
        BY <3>3, <4>1, AppendProperties
      <4> QED BY <2>1, <3>2, <4>2
    <3>5. ~Channel!Delivered(i)
      <4>1. \A d \in 1..Len(delivered) : delivered[d] # i
        BY <2>1, <3>2, <3>3, <3>4
      <4> QED BY <4>1 DEF Channel!Delivered
    <3>6. Channel!IsNext(i)
      BY <3>1, <3>2, <3>5 DEF Channel!IsNext, Channel!Delivered, HandedOut, Begins
    <3> QED BY <1>1, <2>3, <3>2, <3>6 DEF Channel!Deliver
  <2> QED BY <2>2, <2>3
<1> QED BY <1>2, <1>3

\* The Unity client's reader is a MessageChannel that breaks only when a
\* connection begins with a part of a message of the one before; every step is
\* one of the channel or none.
THEOREM UnityImplementsChannel == Spec => ImplementsChannel
<1>1. Init => Channel!Init
  BY DEF Init, Channel!Init
<1>2. ReceiveInv /\ [Next]_vars => [Channel!Next]_(Channel!channel)
  <2> SUFFICES ASSUME ReceiveInv, [Next]_vars
               PROVE  Channel!Next \/ UNCHANGED Channel!channel
    OBVIOUS
  <2> USE DEF history
  <2>1. CASE Frames
    <3>1. PICK n \in 0..Len(wire) : RecieveMessage(n)
      BY <2>1 DEF Frames
    <3> QED BY <3>1, HandsOutAsChannel DEF Channel!Next
  <2>2. CASE Connect
    <3>1. first' = Len(sent) + 1 /\ out_of_step' \in BOOLEAN
      BY <2>2 DEF Connect, BeginConnection
    <3> QED BY <2>2, <3>1 DEF Connect, Channel!Reconnect, Channel!Next
  <2>3. CASE Disconnect \/ RemoteClose \/ RemoteCommandFails \/ UNCHANGED vars
    BY <2>3 DEF Disconnect, RemoteClose, RemoteCommandFails, vars, Channel!channel
  <2>4. ASSUME NEW size \in MessageSizes, ServerSends(size) PROVE Channel!Next
    BY <2>4 DEF ServerSends, SendMessage, Channel!Next, Channel!Send
  <2> QED BY <2>1, <2>2, <2>3, <2>4 DEF Next
<1> QED BY <1>1, <1>2, ReceiveCorrect, PTL
        DEF Spec, ImplementsChannel, Channel!Spec

=============================================================================
