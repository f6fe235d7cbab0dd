---------------------------- MODULE QtTcpProofs ----------------------------
(***************************************************************************)
(* Theorems about QtTcp: the memory safety of the message reader, the      *)
(* order of what it hands out, and that it implements MessageChannel; for  *)
(* any message sizes, any cuts of the stream, anything a desynchronised    *)
(* header may say, read errors, and any number of connections.             *)
(*                                                                         *)
(* Inv is enough for memory safety.  ChannelInv adds the order of all that *)
(* is buffered or in flight (OrderInv), which parts are in use when        *)
(* (TurnInv), that a connection's stream is the frames the server sent     *)
(* (StreamInv), and where in a message a reader that is in step is         *)
(* (StepInv).                                                              *)
(***************************************************************************)
EXTENDS QtTcp, WireProofs

(***************************************************************************)
(* Byte strings                                                            *)
(***************************************************************************)

LEMMA ZerosAreBytes ==
  ASSUME NEW n \in Nat
  PROVE  Zeros(n) \in Seq(Byte) /\ Len(Zeros(n)) = n
<1>1. Zeros(n) \in [1..n -> Byte]
  BY DEF Zeros, Zero, Byte
<1> QED BY <1>1, FunctionIsSeq

\* A message that is handed out is counted by a natural number.
LEMMA MessageIsNat ==
  ASSUME sent \in Seq(Nat), NEW payload
  PROVE  Message(payload) \in Nat
<1>1. CASE \E i \in 1..Len(sent) : payload = Payload(i)
  <2>1. Message(payload) \in 1..Len(sent)
    BY <1>1 DEF Message
  <2> QED BY <2>1
<1>2. CASE ~\E i \in 1..Len(sent) : payload = Payload(i)
  BY <1>2 DEF Message
<1> QED BY <1>1, <1>2

\* A header is read as a natural number.
LEMMA SizesAreNat ==
  ASSUME sent \in Seq(Nat), NEW bytes, NEW size \in Sizes(bytes)
  PROVE  size \in Nat
<1>1. \A i \in 1..Len(sent) : sent[i] \in Nat
  OBVIOUS
<1>2. GarbageSizes \subseteq Nat
  BY QtTcpAssumption
<1> DEFINE headers == {i \in 1..Len(sent) : bytes = Header(i)}
<1>3. size \in {sent[i] : i \in headers} \/ size \in GarbageSizes
  BY DEF Sizes
<1> QED BY <1>1, <1>2, <1>3

(***************************************************************************)
(* The inductive invariant: what is awaited fits the buffer, and a ready   *)
(* message awaits nothing.  It is needed as a whole: that a piece of the   *)
(* payload lands inside the buffer keeps the buffer a byte string, and a   *)
(* message can only become ready while bytes of it were awaited.           *)
(***************************************************************************)

Inv == TypeOK /\ WritesInsideBuffer /\ ReadyIsComplete

\* A read of the payload, of as many bytes as there are or as are awaited,
\* keeps the buffer's length and lands inside it.
LEMMA FilledIsBytes ==
  ASSUME Inv
  PROVE  /\ ReadCount \in 0..Len(inbuf) /\ ReadCount \in 0..m_message_remain
         /\ Filled(ReadCount) \in Seq(Byte)
         /\ Len(Filled(ReadCount)) = Len(m_message_buffer)
<1>1. /\ inbuf \in Seq(Byte) /\ m_message_buffer \in Seq(Byte)
      /\ m_message_remain \in Nat
      /\ m_message_remain <= Len(m_message_buffer)
  BY DEF Inv, TypeOK, WritesInsideBuffer
<1>2. /\ Len(inbuf) \in Nat /\ Len(m_message_buffer) \in Nat
      /\ inbuf \in [1..Len(inbuf) -> Byte]
      /\ m_message_buffer \in [1..Len(m_message_buffer) -> Byte]
  BY <1>1, LenProperties
<1>3. ReadCount \in 0..Len(inbuf) /\ ReadCount \in 0..m_message_remain
  BY <1>1, <1>2 DEF ReadCount
<1>4. FillFrom \in Nat
  BY <1>1, <1>2 DEF FillFrom
<1>5. ASSUME NEW k \in 1..Len(m_message_buffer),
             k \in (FillFrom + 1)..(FillFrom + ReadCount)
      PROVE  inbuf[k - FillFrom] \in Byte
  <2>1. k - FillFrom \in 1..Len(inbuf)
    BY <1>2, <1>3, <1>4, <1>5
  <2> QED BY <1>2, <2>1
<1>6. Filled(ReadCount) \in [1..Len(m_message_buffer) -> Byte]
  BY <1>2, <1>5 DEF Filled
<1> QED BY <1>2, <1>3, <1>6, FunctionIsSeq

LEMMA InitInv == Init => Inv
<1>1. /\ <<>> \in Seq(Nat) /\ <<>> \in Seq(Byte) /\ Len(<<>>) = 0
      /\ 0 \in Nat /\ 0 <= 0
  OBVIOUS
<1>2. ASSUME Init PROVE TypeOK
  <2>1. 1 \in 1..(Len(<<>>) + 1)
    BY <1>1
  <2> QED BY <1>1, <1>2, <2>1 DEF Init, TypeOK
<1>3. ASSUME Init PROVE WritesInsideBuffer /\ ReadyIsComplete
  BY <1>1, <1>3 DEF Init, WritesInsideBuffer, ReadyIsComplete
<1> QED BY <1>2, <1>3 DEF Inv

\* The whole of Tcp::update().
LEMMA UpdateInv == Inv /\ TcpUpdate => Inv'
<1> SUFFICES ASSUME Inv, TcpUpdate PROVE Inv'
  OBVIOUS
<1> USE DEF reader, history
<1>1. /\ m_state' \in {"disconnected", "connecting", "connected"}
      /\ turn' \in {"update", "read"}
      /\ UNCHANGED <<sent, wire, qsock, connections, delivered>>
      /\ first' = first /\ out_of_step' \in BOOLEAN
  <2>1. out_of_step \in BOOLEAN
    BY DEF Inv, TypeOK
  <2>2. first' = first /\ (out_of_step' = out_of_step \/ out_of_step' = TRUE)
    BY DEF TcpUpdate, ReadNothing, ReadPayload, ReadError, LoseHeader,
           ReadHeader, LoseStep
  <2>3. /\ m_state' \in {"disconnected", "connecting", "connected"}
        /\ turn' \in {"update", "read"}
        /\ UNCHANGED <<sent, wire, qsock, connections, delivered>>
    BY DEF TcpUpdate, Inv, TypeOK
  <2> QED BY <2>1, <2>2, <2>3
<1>2. CASE ReadNothing
  BY <1>1, <1>2
     DEF ReadNothing, Inv, TypeOK, WritesInsideBuffer, ReadyIsComplete
<1>3. CASE ReadPayload
  <2>1. m_message_remain > 0 /\ m_message_remain \in Nat
    BY <1>3 DEF ReadPayload, Inv, TypeOK
  <2>2. ~m_message_ready
    BY <2>1 DEF Inv, ReadyIsComplete
  <2>3. inbuf' \in Seq(Byte)
    BY <1>3, FilledIsBytes, SuffixIsSeq DEF ReadPayload, Inv, TypeOK
  <2>4. /\ m_message_buffer' \in Seq(Byte)
        /\ Len(m_message_buffer') = Len(m_message_buffer)
        /\ Len(m_message_buffer) \in Nat
        /\ m_message_remain <= Len(m_message_buffer)
    BY <1>3, FilledIsBytes
       DEF ReadPayload, Inv, TypeOK, WritesInsideBuffer
  <2>5. /\ m_message_remain' = m_message_remain - ReadCount
        /\ m_message_remain' \in Nat
        /\ m_message_remain' <= Len(m_message_buffer')
    BY <1>3, <2>1, <2>4, FilledIsBytes DEF ReadPayload, Remaining
  <2>6. m_message_ready' <=> ReadCount = m_message_remain
    BY <1>3, <2>2 DEF ReadPayload, Completes
  <2>7. m_message_ready' \in BOOLEAN
    BY <1>3 DEF ReadPayload, Completes
  <2>8. ReadCount = m_message_remain
          => m_message_remain' = 0 /\ m_message_buffer' # <<>>
    BY <2>1, <2>4, <2>5
  <2>9. TypeOK'
    BY <1>1, <2>3, <2>4, <2>5, <2>7 DEF Inv, TypeOK
  <2> QED BY <2>5, <2>6, <2>8, <2>9
          DEF Inv, WritesInsideBuffer, ReadyIsComplete
<1>4. CASE ReadError
  <2>1. ~m_message_ready
    BY <1>4 DEF ReadError, Inv, TypeOK, ReadyIsComplete
  <2>2. Len(m_message_buffer) \in Nat
    BY DEF Inv, TypeOK
  <2>3. TypeOK'
    BY <1>1, <1>4 DEF ReadError, Inv, TypeOK
  <2> QED BY <1>4, <2>1, <2>2, <2>3
          DEF ReadError, Inv, WritesInsideBuffer, ReadyIsComplete
<1>5. CASE LoseHeader
  BY <1>1, <1>5
     DEF LoseHeader, Inv, TypeOK, WritesInsideBuffer, ReadyIsComplete
<1>6. CASE ReadHeader
  <2>1. PICK size \in Sizes(Prefix(inbuf, HeaderSize)) :
          m_message_remain' = size /\ m_message_buffer' = ResizedBuffer(size)
    BY <1>6 DEF ReadHeader
  <2>2. size \in Nat
    BY <2>1, SizesAreNat DEF Inv, TypeOK
  <2>3. m_message_buffer' \in Seq(Byte) /\ Len(m_message_buffer') = size
    BY <2>1, <2>2, ZerosAreBytes DEF ResizedBuffer
  <2>4. inbuf' \in Seq(Byte)
    <3>1. HeaderSize \in 0..Len(inbuf)
      BY <1>6 DEF ReadHeader, HeaderSize, Inv, TypeOK
    <3> QED BY <1>6, <3>1, SuffixIsSeq DEF ReadHeader, Inv, TypeOK
  <2>5. ~m_message_ready' /\ m_message_ready' \in BOOLEAN
    BY <1>6 DEF ReadHeader
  <2>6. TypeOK'
    BY <1>1, <2>1, <2>2, <2>3, <2>4, <2>5 DEF Inv, TypeOK
  <2>7. m_message_remain' <= Len(m_message_buffer')
    BY <2>1, <2>2, <2>3
  <2> QED BY <2>5, <2>6, <2>7 DEF Inv, WritesInsideBuffer, ReadyIsComplete
<1> QED BY <1>2, <1>3, <1>4, <1>5, <1>6 DEF TcpUpdate

LEMMA NextInv == Inv /\ [Next]_vars => Inv'
<1> SUFFICES ASSUME Inv, [Next]_vars PROVE Inv'
  OBVIOUS
<1> USE DEF socket, reader, history
<1>1. CASE TcpUpdate
  BY <1>1, UpdateInv
<1>2. CASE TcpReadMessage
  <2>1. delivered' \in Seq(Nat)
    <3>1. Message(m_message_buffer) \in Nat
      BY MessageIsNat DEF Inv, TypeOK
    <3>2. delivered \in Seq(Nat)
      BY DEF Inv, TypeOK
    <3>3. \/ delivered' = Append(delivered, Message(m_message_buffer))
          \/ delivered' = delivered
      BY <1>2 DEF TcpReadMessage
    <3> QED BY <3>1, <3>2, <3>3, AppendProperties
  <2>2. m_message_ready' \in BOOLEAN /\ ~m_message_ready'
    <3>1. m_message_ready \in BOOLEAN
      BY DEF Inv, TypeOK
    <3>2. CASE m_message_ready
      BY <1>2, <3>2 DEF TcpReadMessage, ReadyAfterRead
    <3>3. CASE ~m_message_ready
      <4>1. m_message_ready' = m_message_ready
        BY <1>2, <3>3 DEF TcpReadMessage
      <4> QED BY <3>1, <3>3, <4>1
    <3> QED BY <3>2, <3>3
  <2>3. /\ turn' = "update"
        /\ UNCHANGED <<sent, wire, qsock, inbuf, m_state, m_message_buffer,
                       m_message_remain, connections, first, out_of_step>>
    BY <1>2 DEF TcpReadMessage
  <2>4. TypeOK'
    BY <2>1, <2>2, <2>3 DEF Inv, TypeOK
  <2> QED BY <2>2, <2>3, <2>4 DEF Inv, WritesInsideBuffer, ReadyIsComplete
<1>3. CASE Delivery
  <2>1. PICK n \in 1..Len(wire) : Arrive(n)
    BY <1>3 DEF Delivery
  <2>2. /\ wire \in Seq(Byte) /\ inbuf \in Seq(Byte) /\ n \in 0..Len(wire)
    BY DEF Inv, TypeOK
  <2>3. Prefix(wire, n) \in Seq(Byte) /\ Suffix(wire, n) \in Seq(Byte)
    BY <2>2, PrefixIsSeq, SuffixIsSeq
  <2>4. inbuf' \in Seq(Byte) /\ wire' \in Seq(Byte)
    BY <2>1, <2>2, <2>3, ConcatProperties DEF Arrive
  <2> QED BY <2>1, <2>4
          DEF Arrive, Inv, TypeOK, WritesInsideBuffer, ReadyIsComplete
<1>4. CASE Connect \/ Disconnect \/ RemoteClose
  <2>1. <<>> \in Seq(Byte)
    OBVIOUS
  <2>2. first' \in 1..(Len(sent') + 1) /\ out_of_step' \in BOOLEAN
    <3>1. Len(sent) \in Nat /\ m_message_remain \in Nat
      BY DEF Inv, TypeOK
    <3>2. sent' = sent
      BY <1>4 DEF Connect, Disconnect, RemoteClose
    <3>3. CASE Connect
      BY <3>1, <3>2, <3>3 DEF Connect, BeginConnection
    <3>4. CASE Disconnect \/ RemoteClose
      BY <3>2, <3>4 DEF Disconnect, RemoteClose, Inv, TypeOK
    <3> QED BY <1>4, <3>3, <3>4
  <2>3. TypeOK'
    BY <1>4, <2>1, <2>2 DEF Connect, Disconnect, RemoteClose, Inv, TypeOK
  <2>4. UNCHANGED reader
    BY <1>4 DEF Connect, Disconnect, RemoteClose
  <2> QED BY <2>3, <2>4 DEF Inv, WritesInsideBuffer, ReadyIsComplete
<1>5. CASE Established \/ Refused
  BY <1>5 DEF Established, Refused, Inv, TypeOK, WritesInsideBuffer,
              ReadyIsComplete
<1>6. ASSUME NEW size \in MessageSizes, ServerSends(size) PROVE Inv'
  <2>1. size \in Nat /\ Len(sent) + 1 \in Nat
    BY WireAssumption DEF Inv, TypeOK
  <2>2. sent' \in Seq(Nat) /\ Len(sent') = Len(sent) + 1
    BY <1>6, <2>1, AppendProperties
       DEF ServerSends, SendMessage, Inv, TypeOK
  <2>3. wire' \in Seq(Byte)
    BY <1>6, <2>1, FrameIsBytes, ConcatProperties
       DEF ServerSends, SendMessage, Inv, TypeOK
  <2>4. first' \in 1..(Len(sent') + 1)
    BY <1>6, <2>1, <2>2 DEF ServerSends, Inv, TypeOK
  <2> QED BY <1>6, <2>2, <2>3, <2>4
          DEF ServerSends, Inv, TypeOK, WritesInsideBuffer, ReadyIsComplete
<1>7. CASE UNCHANGED vars
  BY <1>7 DEF vars, Inv, TypeOK, WritesInsideBuffer, ReadyIsComplete
<1> QED
  BY <1>1, <1>2, <1>3, <1>4, <1>5, <1>6, <1>7 DEF Next, Update

LEMMA InvHolds == Spec => []Inv
BY InitInv, NextInv, PTL DEF Spec

\* Every variable of the reader keeps to its type.
THEOREM TypeCorrect == Spec => []TypeOK
BY InvHolds, PTL DEF Inv

\* No piece of a payload is ever stored outside m_message_buffer, also by a
\* reader that lost the message boundaries.
THEOREM PayloadStaysInBuffer == Spec => []WritesInsideBuffer
BY InvHolds, PTL DEF Inv

\* read_message() never hands out an empty or a half-filled buffer.
THEOREM ReadyMessagesAreComplete == Spec => []ReadyIsComplete
BY InvHolds, PTL DEF Inv

(***************************************************************************)
(* The order of what is handed out, and the refinement of MessageChannel.  *)
(*                                                                         *)
(* Whatever the reader takes for a header, the bytes it has stored, holds  *)
(* and will get are in the order they were sent in, behind all that was    *)
(* handed out (OrderInv).  While the socket is connected what is not read  *)
(* of it has no gap (StreamInv), and as long as the reader is in step, it  *)
(* is where it thinks it is in the stream (StepInv).                       *)
(***************************************************************************)

\* What the reader has not read.
stream == inbuf \o wire

\* Does the buffer hold bytes that may still be handed out?
InUse == m_message_remain > 0 \/ m_message_ready

OrderInv ==
  /\ sent \in Seq(MessageSizes)
  /\ InFrames(stream, sent) /\ Ordered(stream)
  /\ \A d \in 1..Len(delivered) :
       /\ delivered[d] <= Len(sent)
       /\ \A k \in 1..Len(stream) : delivered[d] < stream[k][1]
  /\ InUse => \A k \in 1..FillFrom :
                /\ m_message_buffer[k][1] <= Len(sent)
                /\ \A d \in 1..Len(delivered) : delivered[d] < m_message_buffer[k][1]
                /\ \A j \in 1..Len(stream) : Before(m_message_buffer[k], stream[j])
  /\ InOrder

\* When which variable is in use.
TurnInv ==
  /\ m_message_ready => turn = "read" /\ qsock = "connected"
  /\ qsock # "connected" => wire = <<>>
  /\ qsock = "connecting" =>
       inbuf = <<>> /\ first = Len(sent) + 1 /\ (~out_of_step => m_message_remain = 0)

StreamInv == qsock = "connected" => Stream(stream, sent)

\* The messages of the connection before message i that carry data.
HandedOut(i) ==
  \A j \in first..(i - 1) :
    sent[j] > 0 => \E d \in 1..Len(delivered) : delivered[d] = j

\* Before the header of message i, in the middle of its payload, and when the
\* whole of it is in the buffer.
Between(i) ==
  /\ m_message_remain = 0 /\ ~m_message_ready
  /\ NextIs(stream, sent, i, 1)

Midway(i) ==
  /\ i <= Len(sent) /\ m_message_remain > 0
  /\ Len(m_message_buffer) = sent[i]
  /\ \A k \in 1..FillFrom : m_message_buffer[k] = <<i, HeaderSize + k>>
  /\ NextIs(stream, sent, i, HeaderSize + FillFrom + 1)

Complete(i) ==
  /\ i <= Len(sent) /\ m_message_ready
  /\ sent[i] > 0 /\ m_message_buffer = Payload(i)
  /\ NextIs(stream, sent, i + 1, 1)

StepInv ==
  qsock = "connected" /\ ~out_of_step =>
    \E i \in first..(Len(sent) + 1) :
      HandedOut(i) /\ (Between(i) \/ Midway(i) \/ Complete(i))

ChannelInv == Inv /\ OrderInv /\ TurnInv /\ StreamInv /\ StepInv

(***************************************************************************)
(* What a step does to the stream                                          *)
(***************************************************************************)

LEMMA StreamIsBytes ==
  ASSUME Inv
  PROVE  /\ stream \in Seq(Byte) /\ Len(stream) = Len(inbuf) + Len(wire)
         /\ Len(stream) \in Nat /\ Len(inbuf) \in Nat /\ Len(sent) \in Nat
         /\ \A k \in 1..Len(inbuf) : inbuf[k] = stream[k] /\ k \in 1..Len(stream)
<1>1. inbuf \in Seq(Byte) /\ wire \in Seq(Byte) /\ sent \in Seq(Nat)
  BY DEF Inv, TypeOK
<1>2. Len(inbuf) \in Nat /\ Len(wire) \in Nat /\ Len(sent) \in Nat
  BY <1>1
<1>3. /\ stream \in Seq(Byte) /\ Len(stream) = Len(inbuf) + Len(wire)
      /\ \A k \in 1..(Len(inbuf) + Len(wire)) :
           stream[k] = IF k <= Len(inbuf) THEN inbuf[k] ELSE wire[k - Len(inbuf)]
  BY <1>1, ConcatProperties DEF stream
<1> QED BY <1>2, <1>3

\* The reader takes n bytes.
LEMMA StreamRead ==
  ASSUME Inv, NEW n \in 0..Len(inbuf), inbuf' = Suffix(inbuf, n), wire' = wire
  PROVE  /\ stream' = Suffix(stream, n) /\ n \in 0..Len(stream)
         /\ Prefix(inbuf, n) = Prefix(stream, n)
         /\ PartOf(stream', stream, n)
<1>1. inbuf \in Seq(Byte) /\ wire \in Seq(Byte)
  BY DEF Inv, TypeOK
<1>2. /\ stream' = Suffix(stream, n) /\ n \in 0..Len(stream)
      /\ Prefix(inbuf, n) = Prefix(stream, n)
  BY <1>1, TakenFromFront DEF stream
<1>3. PartOf(stream', stream, n)
  BY <1>2, StreamIsBytes, SuffixIsPart
<1> QED BY <1>2, <1>3

\* Bytes arrive.
LEMMA StreamArrives ==
  ASSUME Inv, NEW n \in 1..Len(wire), Arrive(n)
  PROVE  stream' = stream
<1>1. inbuf \in Seq(Byte) /\ wire \in Seq(Byte) /\ n \in 0..Len(wire)
  BY DEF Inv, TypeOK
<1> QED BY <1>1, MovedBetween DEF Arrive, stream

LEMMA WholeIsPart ==
  ASSUME Inv
  PROVE  PartOf(stream, stream, 0)
<1>1. \A k \in 1..Len(stream) : 0 + k = k
  BY StreamIsBytes
<1> QED BY <1>1 DEF PartOf

LEMMA EmptyIsPart ==
  ASSUME NEW s, NEW n
  PROVE  PartOf(<<>>, s, n)
<1>1. \A k \in 1..Len(<<>>) : FALSE
  OBVIOUS
<1> QED BY <1>1 DEF PartOf

\* The sizes of the messages are natural numbers, none from 1 to 3.
LEMMA SentSizes ==
  ASSUME sent \in Seq(MessageSizes)
  PROVE  /\ sent \in Seq(Nat)
         /\ \A i \in 1..Len(sent) : sent[i] \in Nat /\ (sent[i] = 0 \/ sent[i] >= 4)
<1>1. \A i \in 1..Len(sent) : sent[i] \in MessageSizes
  OBVIOUS
<1>2. sent \in Seq(Nat)
  BY WireAssumption, SeqMonotonic
<1> QED BY <1>1, <1>2, WireAssumption

(***************************************************************************)
(* OrderInv                                                                *)
(***************************************************************************)

\* The bytes of the buffer in use are in order with the stream.
BufferInOrder ==
  InUse => \A k \in 1..FillFrom :
             /\ m_message_buffer[k][1] <= Len(sent)
             /\ \A d \in 1..Len(delivered) : delivered[d] < m_message_buffer[k][1]
             /\ \A j \in 1..Len(stream) : Before(m_message_buffer[k], stream[j])

\* A step that sends nothing and hands nothing out.
LEMMA OrderKept ==
  ASSUME OrderInv, Inv', UNCHANGED <<sent, delivered>>,
         NEW n \in Nat, PartOf(stream', stream, n), BufferInOrder'
  PROVE  OrderInv'
<1>1. stream' \in Seq(Byte)
  <2>1. (inbuf' \in Seq(Byte)) /\ (wire' \in Seq(Byte))
    BY DEF Inv, TypeOK
  <2> QED BY <2>1, ConcatProperties DEF stream
<1>2. InFrames(stream', sent') /\ Ordered(stream')
  BY <1>1, PartOrdered DEF OrderInv
<1>3. \A d \in 1..Len(delivered') :
        /\ delivered'[d] <= Len(sent')
        /\ \A k \in 1..Len(stream') : delivered'[d] < stream'[k][1]
  BY DEF OrderInv, PartOf
<1>4. InOrder' /\ sent' \in Seq(MessageSizes)
  BY DEF OrderInv, InOrder
<1> QED BY <1>2, <1>3, <1>4 DEF OrderInv, BufferInOrder

\* The buffer is as it was, and so is what is awaited, or nothing is.
LEMMA BufferKept ==
  ASSUME OrderInv, UNCHANGED <<sent, delivered, m_message_buffer>>,
         NEW n \in Nat, PartOf(stream', stream, n),
         InUse' => InUse /\ FillFrom' = FillFrom
  PROVE  BufferInOrder'
BY DEF OrderInv, BufferInOrder, PartOf

LEMMA OrderUpdate ==
  ASSUME ChannelInv, Inv', TcpUpdate
  PROVE  OrderInv'
<1> USE DEF reader, history
<1>1. /\ Inv /\ OrderInv /\ TurnInv /\ UNCHANGED <<sent, delivered, wire>>
      /\ ~m_message_ready
      /\ m_message_remain \in Nat
  BY DEF ChannelInv, TcpUpdate, TurnInv, Inv, TypeOK
<1>2. CASE ReadNothing
  <2>1. stream' = stream /\ (InUse' => InUse /\ FillFrom' = FillFrom)
    BY <1>1, <1>2 DEF ReadNothing, stream, InUse, FillFrom
  <2>2. PartOf(stream', stream, 0)
    BY <1>1, <2>1, WholeIsPart
  <2> QED BY <1>1, <1>2, <2>1, <2>2, BufferKept, OrderKept DEF ReadNothing
<1>3. CASE ReadPayload
  <2> DEFINE n == ReadCount
             f == FillFrom
  <2>1. /\ n \in 0..Len(inbuf) /\ n \in 0..m_message_remain
        /\ Len(Filled(ReadCount)) = Len(m_message_buffer)
    BY <1>1, FilledIsBytes
  <2>2. /\ m_message_buffer' = Filled(n) /\ inbuf' = Suffix(inbuf, n)
        /\ m_message_remain' = m_message_remain - n
        /\ m_message_remain > 0
    BY <1>3 DEF ReadPayload, Remaining
  <2>3. /\ f \in Nat /\ f + n <= Len(m_message_buffer)
        /\ Len(m_message_buffer) \in Nat /\ n \in Nat
    BY <1>1, <2>1 DEF FillFrom, Inv, TypeOK, WritesInsideBuffer
  <2>4. FillFrom' = f + n
    BY <1>1, <2>1, <2>2, <2>3 DEF FillFrom
  <2>5. /\ PartOf(stream', stream, n) /\ n \in 0..Len(stream)
    BY <1>1, <2>1, <2>2, StreamRead
  <2>6. InUse
    BY <2>2 DEF InUse
  <2> HIDE DEF n
  <2>7. ASSUME NEW k \in 1..(f + n)
        PROVE  /\ m_message_buffer'[k][1] <= Len(sent)
               /\ \A d \in 1..Len(delivered) : delivered[d] < m_message_buffer'[k][1]
               /\ \A j \in 1..Len(stream') : Before(m_message_buffer'[k], stream'[j])
    <3>1. CASE k <= f
      <4>1. /\ k \in 1..Len(m_message_buffer) /\ k \in 1..FillFrom
            /\ k \notin (FillFrom + 1)..(FillFrom + n)
        BY <2>3, <3>1
      <4>2. m_message_buffer'[k] = m_message_buffer[k]
        BY <2>2, <4>1 DEF Filled
      <4> QED BY <1>1, <2>5, <2>6, <4>1, <4>2 DEF OrderInv, PartOf
    <3>2. CASE k > f
      <4>1. k \in (f + 1)..(f + n) /\ k \in 1..Len(m_message_buffer) /\ k - f \in 1..n
        BY <2>3, <3>2
      <4>2. m_message_buffer'[k] = inbuf[k - f]
        BY <2>2, <4>1 DEF Filled
      <4> DEFINE h == k - f
      <4>3. h \in 1..n /\ h \in 1..Len(inbuf)
        BY <2>1, <4>1
      <4> HIDE DEF h
      <4>4. m_message_buffer'[k] = stream[h] /\ h \in 1..Len(stream)
        BY <1>1, <4>2, <4>3, StreamIsBytes DEF h
      <4>5. stream[h][1] <= Len(sent)
        BY <1>1, <4>4, StreamIsBytes DEF OrderInv, InFrames, InFrame
      <4>6. \A j \in 1..Len(stream') : h < n + j
        BY <2>5, <4>3
      <4>7. \A j \in 1..Len(stream') : Before(stream[h], stream'[j])
        BY <1>1, <2>5, <4>4, <4>6 DEF OrderInv, Ordered, PartOf
      <4> QED BY <1>1, <4>4, <4>5, <4>7 DEF OrderInv
    <3> QED BY <2>3, <3>1, <3>2
  <2>8. BufferInOrder'
    BY <1>1, <2>4, <2>7 DEF BufferInOrder
  <2> QED BY <1>1, <2>5, <2>8, OrderKept
<1>4. CASE ReadError
  <2>1. stream' = stream /\ ~InUse'
    BY <1>1, <1>4 DEF ReadError, stream, InUse
  <2>2. PartOf(stream', stream, 0)
    BY <1>1, <2>1, WholeIsPart
  <2>3. BufferInOrder'
    BY <2>1 DEF BufferInOrder
  <2> QED BY <1>1, <2>2, <2>3, OrderKept
<1>5. CASE LoseHeader
  <2>1. inbuf' = Suffix(inbuf, Len(inbuf)) /\ Len(inbuf) \in 0..Len(inbuf)
    <3>1. inbuf \in Seq(Byte) /\ Len(inbuf) \in Nat
      BY <1>1 DEF Inv, TypeOK
    <3>2. Len(inbuf) \in 0..Len(inbuf)
      BY <3>1
    <3>3. Suffix(inbuf, Len(inbuf)) \in Seq(Byte) /\ Len(Suffix(inbuf, Len(inbuf))) = 0
      BY <3>1, <3>2, SuffixIsSeq
    <3> QED BY <1>5, <3>2, <3>3 DEF LoseHeader
  <2>2. PartOf(stream', stream, Len(inbuf)) /\ Len(inbuf) \in Nat
    BY <1>1, <2>1, StreamRead, StreamIsBytes
  <2>3. BufferInOrder'
    BY <1>1, <1>5 DEF LoseHeader, BufferInOrder, InUse
  <2> QED BY <1>1, <2>2, <2>3, OrderKept
<1>6. CASE ReadHeader
  <2>1. inbuf' = Suffix(inbuf, HeaderSize) /\ HeaderSize \in 0..Len(inbuf)
    BY <1>6, <1>1, StreamIsBytes DEF ReadHeader, HeaderSize
  <2>2. PartOf(stream', stream, HeaderSize) /\ HeaderSize \in Nat
    BY <1>1, <2>1, StreamRead DEF HeaderSize
  <2>3. FillFrom' = 0
    <3>1. PICK size \in Sizes(Prefix(inbuf, HeaderSize)) :
            m_message_remain' = size /\ m_message_buffer' = Zeros(size)
      BY <1>6 DEF ReadHeader, ResizedBuffer
    <3>2. size \in Nat
      BY <1>1, <3>1, SizesAreNat DEF Inv, TypeOK
    <3> QED BY <3>1, <3>2, ZerosAreBytes DEF FillFrom
  <2>4. BufferInOrder'
    BY <2>3 DEF BufferInOrder
  <2> QED BY <1>1, <2>2, <2>4, OrderKept
<1> QED BY <1>2, <1>3, <1>4, <1>5, <1>6 DEF TcpUpdate

\* What is in a ready buffer is behind all that was handed out, and before
\* all that is left of the stream.
LEMMA ReadyIsNext ==
  ASSUME ChannelInv, m_message_ready, NEW m, m = Message(m_message_buffer)
  PROVE  /\ m \in 0..Len(sent)
         /\ \A k \in 1..Len(stream) : m < stream[k][1]
         /\ m # 0 => \A d \in 1..Len(delivered) : delivered[d] < m
<1>1. /\ m_message_remain = 0 /\ m_message_buffer # <<>> /\ InUse
      /\ m_message_buffer \in Seq(Byte) /\ sent \in Seq(Nat)
      /\ stream \in Seq(Byte) /\ Len(sent) \in Nat
  BY StreamIsBytes DEF ChannelInv, Inv, TypeOK, ReadyIsComplete, InUse
<1>2. FillFrom = Len(m_message_buffer) /\ Len(m_message_buffer) \in Nat \ {0}
  BY <1>1 DEF FillFrom
<1>3. m \in 0..Len(sent) /\ (m # 0 => m_message_buffer = Payload(m))
  BY <1>1, MessageOfPayload
<1>4. \A k \in 1..Len(stream) : InFrame(stream[k], sent) /\ stream[k][1] \in Nat \ {0}
  BY <1>1 DEF ChannelInv, OrderInv, InFrames, InFrame
<1>5. CASE m = 0
  BY <1>3, <1>4, <1>5
<1>6. CASE m # 0
  <2> DEFINE l == Len(m_message_buffer)
  <2>1. /\ m \in 1..Len(sent) /\ sent[m] = l
        /\ \A k \in 1..l : m_message_buffer[k] = <<m, HeaderSize + k>>
    BY <1>1, <1>3, <1>6, PayloadIsBytes
  <2>2. 1 \in 1..l /\ l \in 1..l /\ 1 \in 1..FillFrom /\ l \in 1..FillFrom
    BY <1>2
  <2>3. m_message_buffer[1][1] = m /\ At(m_message_buffer[l], m, EndOf(m, sent))
    BY <2>1, <2>2 DEF At, EndOf
  <2>4. \A d \in 1..Len(delivered) : delivered[d] < m
    BY <1>1, <2>2, <2>3 DEF ChannelInv, OrderInv
  <2>5. ASSUME NEW k \in 1..Len(stream) PROVE m < stream[k][1]
    <3>1. Before(m_message_buffer[l], stream[k])
      BY <1>1, <2>2 DEF ChannelInv, OrderInv
    <3> QED BY <1>1, <1>4, <2>1, <2>3, <3>1, BehindTheEnd
  <2> QED BY <1>3, <2>4, <2>5
<1> QED BY <1>5, <1>6

LEMMA OrderReadMessage ==
  ASSUME ChannelInv, TcpReadMessage
  PROVE  OrderInv'
<1>1. /\ OrderInv /\ UNCHANGED <<sent, wire, inbuf, m_message_buffer, m_message_remain>>
      /\ stream' = stream
  BY DEF ChannelInv, TcpReadMessage, history, socket, stream
<1>2. CASE ~m_message_ready
  <2>1. UNCHANGED <<delivered, m_message_ready>>
    BY <1>2 DEF TcpReadMessage
  <2> QED BY <1>1, <2>1 DEF OrderInv, InUse, InOrder, FillFrom
<1>3. CASE m_message_ready
  <2> DEFINE m == Message(m_message_buffer)
             n == Len(delivered)
  <2>1. delivered' = Append(delivered, m) /\ m_message_ready' = FALSE
    BY <1>3 DEF TcpReadMessage, ReadyAfterRead
  <2>2. /\ m \in 0..Len(sent)
        /\ \A k \in 1..Len(stream) : m < stream[k][1]
        /\ m # 0 => \A d \in 1..n : delivered[d] < m
    BY <1>3, ReadyIsNext
  <2>3. ~InUse'
    BY <1>1, <1>3, <2>1 DEF InUse, ChannelInv, Inv, ReadyIsComplete
  <2>4. delivered \in Seq(Nat) /\ m \in Nat /\ n \in Nat
    BY <2>2 DEF ChannelInv, Inv, TypeOK
  <2> HIDE DEF m
  <2>5. /\ Len(delivered') = n + 1 /\ delivered'[n + 1] = m
        /\ \A d \in 1..n : delivered'[d] = delivered[d]
    BY <2>1, <2>4, AppendProperties
  <2>6. ASSUME NEW d \in 1..Len(delivered')
        PROVE  /\ delivered'[d] <= Len(sent)
               /\ \A k \in 1..Len(stream) : delivered'[d] < stream[k][1]
    <3>1. CASE d \in 1..n
      BY <1>1, <2>5, <3>1 DEF OrderInv
    <3>2. CASE d = n + 1
      BY <2>2, <2>5, <3>2
    <3> QED BY <2>4, <2>5, <3>1, <3>2
  <2>7. InOrder'
    <3> SUFFICES ASSUME NEW d \in 1..Len(delivered'), NEW e \in 1..Len(delivered'),
                        d < e, delivered'[e] # 0
                 PROVE  delivered'[d] < delivered'[e]
      BY DEF InOrder
    <3>1. CASE e = n + 1
      <4>1. d \in 1..n
        BY <2>4, <2>5, <3>1
      <4> QED BY <2>2, <2>5, <3>1, <4>1
    <3>2. CASE e \in 1..n
      <4>1. d \in 1..n
        BY <2>4, <3>2
      <4> QED BY <1>1, <2>5, <3>2, <4>1 DEF OrderInv, InOrder
    <3> QED BY <2>4, <2>5, <3>1, <3>2
  <2> QED BY <1>1, <2>3, <2>6, <2>7 DEF OrderInv
<1> QED BY <1>2, <1>3

\* The user and the network.
LEMMA OrderNetwork ==
  ASSUME ChannelInv, Inv',
         Delivery \/ Connect \/ Established \/ Refused \/ Disconnect \/ RemoteClose
  PROVE  OrderInv'
<1> USE DEF reader, history
<1>1. /\ Inv /\ OrderInv
      /\ UNCHANGED <<sent, delivered, m_message_buffer, m_message_remain, m_message_ready>>
  BY DEF ChannelInv, Delivery, Arrive, Connect, Established, Refused, Disconnect,
         RemoteClose
<1>2. InUse' => InUse /\ FillFrom' = FillFrom
  BY <1>1 DEF InUse, FillFrom
<1>3. \E n \in Nat : PartOf(stream', stream, n)
  <2>1. CASE Delivery
    <3>1. stream' = stream
      BY <1>1, <2>1, StreamArrives DEF Delivery
    <3> QED BY <1>1, <3>1, WholeIsPart
  <2>2. CASE Established \/ Refused
    <3>1. stream' = stream
      BY <2>2 DEF Established, Refused, stream
    <3> QED BY <1>1, <3>1, WholeIsPart
  <2>3. CASE Connect \/ Disconnect
    <3>1. inbuf' = <<>> /\ wire' = <<>>
      BY <2>3 DEF Connect, Disconnect, ChannelInv, TurnInv
    <3>2. stream' = <<>>
      BY <3>1 DEF stream
    <3> QED BY <3>2, EmptyIsPart
  <2>4. CASE RemoteClose
    <3>1. inbuf' = inbuf /\ wire' = <<>> /\ inbuf \in Seq(Byte)
      BY <1>1, <2>4 DEF RemoteClose, Inv, TypeOK
    <3>2. stream' = inbuf
      BY <3>1, ConcatEmptySeq DEF stream
    <3>3. \A k \in 1..Len(inbuf) : 0 + k = k
      BY <3>1
    <3>4. PartOf(stream', stream, 0)
      BY <1>1, <3>2, <3>3, StreamIsBytes DEF PartOf
    <3> QED BY <3>4
  <2> QED BY <2>1, <2>2, <2>3, <2>4
<1> QED BY <1>1, <1>2, <1>3, BufferKept, OrderKept

\* A message is sent: its frame goes to the end of the stream.
LEMMA StreamSends ==
  ASSUME Inv, OrderInv, NEW size \in MessageSizes, ServerSends(size)
  PROVE  /\ sent' = Append(sent, size) /\ sent' \in Seq(MessageSizes)
         /\ Len(sent') = Len(sent) + 1
         /\ \A i \in 1..Len(sent) : sent'[i] = sent[i]
         /\ Extends(stream', stream, Len(sent) + 1, size)
         /\ InFrames(stream', sent') /\ Ordered(stream')
         /\ Stream(stream, sent) => Stream(stream', sent')
         /\ \A i, p : NextIs(stream, sent, i, p) => NextIs(stream', sent', i, p)
<1> DEFINE m == Len(sent) + 1
<1>1. /\ sent' = Append(sent, size) /\ wire' = wire \o Frame(m, size) /\ inbuf' = inbuf
      /\ size \in Nat
  BY WireAssumption DEF ServerSends, SendMessage, socket
<1>2. /\ sent \in Seq(Nat) /\ sent \in Seq(MessageSizes) /\ m \in Nat
      /\ wire \in Seq(Byte) /\ inbuf \in Seq(Byte) /\ stream \in Seq(Byte)
  BY StreamIsBytes DEF Inv, TypeOK, OrderInv
<1>3. /\ sent' \in Seq(MessageSizes) /\ Len(sent') = m /\ sent'[m] = size
      /\ \A i \in 1..Len(sent) : sent'[i] = sent[i]
  BY <1>1, <1>2, AppendProperties
<1>4. sent' \in Seq(Nat)
  BY <1>1, <1>2, AppendProperties
<1>5. stream' = stream \o Frame(m, size)
  <2> DEFINE f == Frame(m, size)
  <2>1. f \in Seq(Byte)
    BY <1>1, <1>2, FrameIsBytes
  <2> HIDE DEF f
  <2>2. (inbuf \o wire) \o f = inbuf \o (wire \o f)
    <3>1. inbuf \in Seq(Byte) /\ wire \in Seq(Byte)
      BY <1>2
    <3> QED BY <2>1, <3>1, ConcatAssociative
  <2> QED BY <1>1, <2>2 DEF stream, f
<1>6. Extends(stream', stream, m, size)
  BY <1>1, <1>2, <1>5, FrameExtends
<1>7. InFrames(stream, sent) /\ Ordered(stream)
  BY DEF OrderInv
<1> DEFINE t == stream'
           more == sent'
<1>8. /\ more \in Seq(Nat) /\ Len(more) = m /\ more[m] = size
      /\ \A i \in 1..Len(sent) : more[i] = sent[i]
      /\ Extends(t, stream, m, size)
  BY <1>3, <1>4, <1>6
<1> HIDE DEF t, more
<1>9. m = Len(sent) + 1
  OBVIOUS
<1> HIDE DEF m
<1>10. /\ InFrames(t, more) /\ (Ordered(stream) => Ordered(t))
       /\ Stream(stream, sent) => Stream(t, more)
       /\ \A i, p : NextIs(stream, sent, i, p) => NextIs(t, more, i, p)
  BY <1>1, <1>2, <1>7, <1>8, <1>9, FrameAppended
<1> QED BY <1>1, <1>3, <1>6, <1>7, <1>9, <1>10 DEF t, more

LEMMA OrderSends ==
  ASSUME Inv, OrderInv, NEW size \in MessageSizes, ServerSends(size)
  PROVE  OrderInv'
<1> DEFINE m == Len(sent) + 1
<1>1. /\ UNCHANGED <<delivered, m_message_buffer, m_message_remain, m_message_ready>>
      /\ InUse' = InUse /\ FillFrom' = FillFrom /\ InOrder' = InOrder
  BY DEF ServerSends, reader, InUse, FillFrom, InOrder
<1>2. /\ Len(sent) \in Nat /\ Len(stream) \in Nat /\ stream \in Seq(Byte)
      /\ delivered \in Seq(Nat) /\ size \in Nat
  BY StreamIsBytes, WireAssumption DEF Inv, TypeOK
<1>3. /\ sent' \in Seq(MessageSizes) /\ Len(sent') = m
      /\ InFrames(stream', sent') /\ Ordered(stream')
      /\ Extends(stream', stream, m, size)
  BY StreamSends
<1>4. ASSUME NEW k \in 1..Len(stream')
      PROVE  \/ k \in 1..Len(stream) /\ stream'[k] = stream[k]
             \/ stream'[k][1] = m
  <2>1. CASE k <= Len(stream)
    BY <1>2, <1>3, <2>1 DEF Extends
  <2>2. CASE k > Len(stream)
    <3> DEFINE t == stream'
    <3>1. Extends(t, stream, m, size) /\ k \in 1..Len(t)
      BY <1>3
    <3> HIDE DEF t
    <3>2. At(t[k], m, k - Len(stream))
      BY <1>2, <2>2, <3>1, BehindFrame
    <3> QED BY <3>2 DEF At, t
  <2> QED BY <1>2, <1>3, <2>1, <2>2 DEF Extends, HeaderSize
<1>5. \A d \in 1..Len(delivered) :
        /\ delivered[d] <= Len(sent') /\ delivered[d] < m
        /\ \A k \in 1..Len(stream') : delivered[d] < stream'[k][1]
  <2> SUFFICES ASSUME NEW d \in 1..Len(delivered)
               PROVE  /\ delivered[d] <= Len(sent') /\ delivered[d] < m
                      /\ \A k \in 1..Len(stream') : delivered[d] < stream'[k][1]
    OBVIOUS
  <2>1. delivered[d] \in Nat /\ delivered[d] <= Len(sent)
    BY <1>2 DEF OrderInv
  <2>2. delivered[d] <= Len(sent') /\ delivered[d] < m
    BY <1>2, <1>3, <2>1
  <2> QED BY <1>4, <2>2 DEF OrderInv
<1>6. ASSUME InUse, NEW k \in 1..FillFrom
      PROVE  /\ m_message_buffer[k][1] <= Len(sent')
             /\ \A d \in 1..Len(delivered) : delivered[d] < m_message_buffer[k][1]
             /\ \A j \in 1..Len(stream') : Before(m_message_buffer[k], stream'[j])
  <2>1. /\ m_message_buffer[k][1] <= Len(sent)
        /\ \A d \in 1..Len(delivered) : delivered[d] < m_message_buffer[k][1]
        /\ \A j \in 1..Len(stream) : Before(m_message_buffer[k], stream[j])
    BY <1>6 DEF OrderInv
  <2>2. m_message_buffer[k][1] \in Nat
    <3>1. /\ Len(m_message_buffer) \in Nat /\ m_message_remain \in Nat
          /\ m_message_buffer \in Seq(Byte)
      BY DEF Inv, TypeOK
    <3>2. k \in 1..Len(m_message_buffer)
      BY <3>1 DEF FillFrom
    <3> QED BY <3>1, <3>2, ByteIsPair
  <2>3. m_message_buffer[k][1] <= Len(sent') /\ m_message_buffer[k][1] < m
    BY <1>2, <1>3, <2>1, <2>2
  <2>4. ASSUME NEW j \in 1..Len(stream')
        PROVE  Before(m_message_buffer[k], stream'[j])
    <3>1. CASE j \in 1..Len(stream) /\ stream'[j] = stream[j]
      BY <2>1, <3>1
    <3>2. CASE stream'[j][1] = m
      BY <2>3, <3>2 DEF Before
    <3> QED BY <1>4, <3>1, <3>2
  <2> QED BY <2>1, <2>3, <2>4
<1>7. InOrder
  BY DEF OrderInv
<1> QED BY <1>1, <1>3, <1>5, <1>6, <1>7 DEF OrderInv

(***************************************************************************)
(* TurnInv and StreamInv                                                   *)
(***************************************************************************)

LEMMA TurnKept ==
  ASSUME ChannelInv, [Next]_vars
  PROVE  TurnInv'
<1> USE DEF TurnInv, reader, history, socket
<1>1. TurnInv /\ Len(sent) \in Nat /\ m_message_remain \in Nat
  BY StreamIsBytes DEF ChannelInv, Inv, TypeOK
<1>2. CASE TcpUpdate
  <2>1. turn' = "read" /\ ~m_message_ready /\ UNCHANGED <<sent, wire, qsock>>
    BY <1>1, <1>2 DEF TcpUpdate
  <2>2. CASE qsock = "connected"
    BY <1>1, <2>1, <2>2
  <2>3. CASE qsock # "connected"
    <3>1. ReadNothing
      BY <1>2, <2>3 DEF TcpUpdate, ReadPayload, ReadError, LoseHeader, ReadHeader
    <3> QED BY <1>1, <2>1, <2>3, <3>1 DEF ReadNothing
  <2> QED BY <2>2, <2>3
<1>3. CASE TcpReadMessage
  BY <1>1, <1>3 DEF TcpReadMessage, ReadyAfterRead
<1>4. CASE Delivery
  <2>1. PICK n \in 1..Len(wire) : Arrive(n)
    BY <1>4 DEF Delivery
  <2> QED BY <1>1, <2>1 DEF Arrive
<1>5. CASE Connect
  <2>1. first' = Len(sent') + 1 /\ (~out_of_step' => ~(m_message_remain > 0))
    BY <1>5 DEF Connect, BeginConnection
  <2>2. ~m_message_ready'
    BY <1>1, <1>5 DEF Connect
  <2> QED BY <1>1, <1>5, <2>1, <2>2 DEF Connect
<1>6. CASE Established \/ Refused \/ Disconnect \/ RemoteClose
  BY <1>1, <1>6 DEF Established, Refused, Disconnect, RemoteClose
<1>7. ASSUME NEW size \in MessageSizes, ServerSends(size) PROVE TurnInv'
  BY <1>1, <1>7 DEF ServerSends
<1>8. CASE UNCHANGED vars
  BY <1>1, <1>8 DEF vars
<1> QED BY <1>2, <1>3, <1>4, <1>5, <1>6, <1>7, <1>8 DEF Next, Update

\* With nothing on its way, all of the stream was read.
LEMMA EmptyIsStream ==
  ASSUME NEW s, s = <<>>, NEW sizes
  PROVE  Stream(s, sizes)
<1>1. \A k \in 1..Len(s) : FALSE
  OBVIOUS
<1> QED BY <1>1 DEF Stream, InFrames, Contiguous, UpToDate

\* Of Tcp::update(): how many bytes it takes.
LEMMA UpdateReads ==
  ASSUME Inv, TcpUpdate
  PROVE  \E n \in 0..Len(inbuf) : inbuf' = Suffix(inbuf, n)
<1>1. inbuf \in Seq(Byte) /\ Len(inbuf) \in Nat
  BY DEF Inv, TypeOK
<1>2. 0 \in 0..Len(inbuf) /\ Len(inbuf) \in 0..Len(inbuf)
  BY <1>1
<1>3. Suffix(inbuf, 0) = inbuf
  <2>1. /\ Suffix(inbuf, 0) \in Seq(Byte) /\ Len(Suffix(inbuf, 0)) = Len(inbuf) - 0
        /\ \A k \in 1..(Len(inbuf) - 0) : Suffix(inbuf, 0)[k] = inbuf[0 + k]
    BY <1>1, <1>2, SuffixIsSeq
  <2>2. /\ Len(Suffix(inbuf, 0)) = Len(inbuf)
        /\ \A k \in 1..Len(Suffix(inbuf, 0)) : Suffix(inbuf, 0)[k] = inbuf[k]
    BY <1>1, <2>1
  <2> QED BY <1>1, <2>1, <2>2, SeqEqual
<1>4. Suffix(inbuf, Len(inbuf)) = <<>>
  <2>1. /\ Suffix(inbuf, Len(inbuf)) \in Seq(Byte)
        /\ Len(Suffix(inbuf, Len(inbuf))) = Len(inbuf) - Len(inbuf)
    BY <1>1, <1>2, SuffixIsSeq
  <2> QED BY <1>1, <2>1
<1>5. CASE ReadNothing \/ ReadError
  BY <1>2, <1>3, <1>5 DEF ReadNothing, ReadError
<1>6. CASE ReadPayload
  BY <1>6, FilledIsBytes DEF ReadPayload
<1>7. CASE LoseHeader
  BY <1>2, <1>4, <1>7 DEF LoseHeader
<1>8. CASE ReadHeader
  <2>1. HeaderSize \in 0..Len(inbuf)
    BY <1>1, <1>8 DEF ReadHeader, HeaderSize
  <2> QED BY <1>8, <2>1 DEF ReadHeader
<1> QED BY <1>5, <1>6, <1>7, <1>8 DEF TcpUpdate

LEMMA StreamKept ==
  ASSUME ChannelInv, [Next]_vars
  PROVE  StreamInv'
<1> SUFFICES ASSUME qsock' = "connected" PROVE Stream(stream', sent')
  BY DEF StreamInv
<1> USE DEF reader, history, socket
<1>1. /\ Inv /\ OrderInv /\ TurnInv /\ StreamInv
      /\ stream \in Seq(Byte) /\ sent \in Seq(Nat)
  BY StreamIsBytes DEF ChannelInv, Inv, TypeOK
<1>2. CASE TcpUpdate
  <2>1. PICK n \in 0..Len(inbuf) : inbuf' = Suffix(inbuf, n)
    BY <1>1, <1>2, UpdateReads
  <2>2. UNCHANGED <<sent, wire, qsock>>
    BY <1>2 DEF TcpUpdate
  <2>3. stream' = Suffix(stream, n) /\ n \in 0..Len(stream)
    BY <1>1, <2>1, <2>2, StreamRead
  <2>4. Stream(Suffix(stream, n), sent)
    BY <1>1, <2>2, <2>3, SuffixIsStream DEF StreamInv
  <2> QED BY <2>2, <2>3, <2>4
<1>3. CASE TcpReadMessage \/ UNCHANGED vars
  <2>1. stream' = stream /\ UNCHANGED <<sent, qsock>>
    BY <1>3 DEF TcpReadMessage, vars, stream
  <2> QED BY <1>1, <2>1 DEF StreamInv
<1>4. CASE Delivery
  <2>1. stream' = stream /\ UNCHANGED <<sent, qsock>>
    BY <1>1, <1>4, StreamArrives DEF Delivery, Arrive
  <2> QED BY <1>1, <2>1 DEF StreamInv
<1>5. CASE Established
  <2>1. stream' = <<>>
    BY <1>1, <1>5 DEF Established, TurnInv, stream
  <2> QED BY <2>1, EmptyIsStream
<1>6. CASE Connect \/ Refused \/ Disconnect \/ RemoteClose
  BY <1>6 DEF Connect, Refused, Disconnect, RemoteClose
<1>7. ASSUME NEW size \in MessageSizes, ServerSends(size) PROVE Stream(stream', sent')
  BY <1>1, <1>7, StreamSends DEF StreamInv, ServerSends
<1> QED BY <1>2, <1>3, <1>4, <1>5, <1>6, <1>7 DEF Next, Update

(***************************************************************************)
(* StepInv                                                                 *)
(***************************************************************************)

\* In the middle of a payload the reader gets the bytes it awaits.
LEMMA StepPayload ==
  ASSUME ChannelInv, qsock = "connected", NEW i \in first..(Len(sent) + 1),
         Midway(i), ReadPayload, wire' = wire, UNCHANGED sent
  PROVE  Midway(i)' \/ Complete(i)'
<1> DEFINE n == ReadCount
           f == FillFrom
           p == HeaderSize + f + 1
<1>1. /\ Inv /\ Stream(stream, sent) /\ stream \in Seq(Byte) /\ sent \in Seq(Nat)
      /\ first \in Nat \ {0}
  BY StreamIsBytes DEF ChannelInv, Inv, TypeOK, StreamInv
<1>2. /\ n \in 0..Len(inbuf) /\ n \in 0..m_message_remain
      /\ Len(Filled(n)) = Len(m_message_buffer) /\ Filled(n) \in Seq(Byte)
  BY <1>1, FilledIsBytes
<1>3. /\ m_message_buffer' = Filled(n) /\ inbuf' = Suffix(inbuf, n)
      /\ m_message_remain' = m_message_remain - n
      /\ m_message_ready' = (m_message_ready \/ n = m_message_remain)
  BY DEF ReadPayload, Remaining, Completes
<1>4. /\ i \in 1..Len(sent) /\ Len(m_message_buffer) = sent[i] /\ sent[i] \in Nat
      /\ m_message_remain \in Nat \ {0} /\ m_message_remain <= sent[i]
      /\ f = sent[i] - m_message_remain /\ f \in Nat
  <2>1. i \in 1..Len(sent)
    BY <1>1, StreamIsBytes DEF Midway
  <2>2. sent[i] \in Nat
    BY <1>1, <2>1
  <2> QED BY <1>1, <2>1, <2>2 DEF Midway, Inv, TypeOK, WritesInsideBuffer, FillFrom
<1>5. n > 0
  <2>1. Len(inbuf) \in Nat \ {0}
    BY <1>1 DEF ReadPayload, Inv, TypeOK
  <2> QED BY <1>4, <2>1 DEF ReadCount
<1>6. /\ stream' = Suffix(stream, n) /\ n \in 1..Len(stream)
      /\ \A k \in 1..n : inbuf[k] = stream[k]
  <2>1. stream' = Suffix(stream, n) /\ n \in 0..Len(stream)
    BY <1>1, <1>2, <1>3, StreamRead
  <2>2. \A k \in 1..Len(inbuf) : inbuf[k] = stream[k]
    BY <1>1, StreamIsBytes
  <2> QED BY <1>1, <1>2, <1>5, <2>1, <2>2, StreamIsBytes
<1>7. EndOf(i, sent) = HeaderSize + sent[i] /\ NextIs(stream, sent, i, p)
  BY DEF EndOf, Midway
<1> HIDE DEF n, f
<1>8. /\ p \in Nat \ {0} /\ p + (n - 1) = HeaderSize + (f + n)
      /\ p + (n - 1) <= EndOf(i, sent) /\ n \in Nat
      /\ (n < m_message_remain <=> p + (n - 1) < EndOf(i, sent))
      /\ (n = m_message_remain <=> p + (n - 1) = EndOf(i, sent))
      /\ p + n = HeaderSize + (f + n) + 1
  <2>1. /\ n \in Nat \ {0} /\ n <= m_message_remain /\ m_message_remain \in Nat
        /\ f \in Nat /\ sent[i] \in Nat /\ f + m_message_remain = sent[i]
    BY <1>2, <1>4, <1>5
  <2>2. p \in Nat \ {0} /\ p + (n - 1) = 4 + (f + n) /\ p + n = 4 + (f + n) + 1
    BY <2>1 DEF HeaderSize
  <2>3. EndOf(i, sent) = 4 + (f + m_message_remain)
    BY <1>7, <2>1 DEF HeaderSize
  <2> QED BY <2>1, <2>2, <2>3 DEF HeaderSize
<1> HIDE DEF p
<1>9. /\ \A k \in 1..n : stream[k] = <<i, p + (k - 1)>>
      /\ n < m_message_remain => NextIs(stream', sent, i, p + n)
      /\ n = m_message_remain => NextIs(stream', sent, i + 1, 1)
  BY <1>1, <1>4, <1>6, <1>7, <1>8, ReadOn
<1>10. ASSUME NEW k \in 1..(f + n)
       PROVE  m_message_buffer'[k] = <<i, HeaderSize + k>>
  <2>1. k \in 1..Len(m_message_buffer)
    BY <1>2, <1>4, <1>8
  <2>2. CASE k <= f
    <3>1. k \in 1..FillFrom /\ k \notin (FillFrom + 1)..(FillFrom + n)
      BY <1>4, <1>8, <2>2 DEF f
    <3>2. m_message_buffer'[k] = m_message_buffer[k]
      BY <1>3, <2>1, <3>1 DEF Filled
    <3> QED BY <3>1, <3>2 DEF Midway
  <2>3. CASE k > f
    <3>1. k \in (f + 1)..(f + n) /\ k - f \in 1..n
      BY <1>4, <1>8, <2>3
    <3>2. k \in (FillFrom + 1)..(FillFrom + n)
      BY <3>1 DEF f
    <3>3. m_message_buffer'[k] = inbuf[k - f]
      BY <1>3, <2>1, <3>2 DEF Filled, f
    <3>4. p + ((k - f) - 1) = HeaderSize + k
      BY <1>4 DEF p, HeaderSize
    <3>5. inbuf[k - f] = <<i, p + ((k - f) - 1)>>
      BY <1>6, <1>9, <3>1
    <3> QED BY <3>3, <3>4, <3>5
  <2> QED BY <1>4, <2>2, <2>3
<1>11. Len(m_message_buffer') = sent[i]
  BY <1>2, <1>3, <1>4
<1>12. FillFrom' = f + n
  BY <1>3, <1>4, <1>8, <1>11 DEF FillFrom
<1>13. CASE n < m_message_remain
  <2>1. m_message_remain' > 0
    BY <1>3, <1>4, <1>8, <1>13
  <2>2. NextIs(stream', sent', i, HeaderSize + FillFrom' + 1)
    <3>1. HeaderSize + FillFrom' + 1 = p + n
      BY <1>8, <1>12
    <3> QED BY <1>9, <1>13, <3>1
  <2> QED BY <1>4, <1>10, <1>11, <1>12, <2>1, <2>2 DEF Midway
<1>14. CASE n = m_message_remain
  <2>1. m_message_ready' = TRUE
    BY <1>3, <1>14
  <2>2. f + n = sent[i]
    BY <1>4, <1>14
  <2>3. m_message_buffer' = Payload(i)
    <3>1. /\ Payload(i) \in Seq(Byte) /\ Len(Payload(i)) = sent[i]
          /\ \A k \in 1..sent[i] : Payload(i)[k] = <<i, HeaderSize + k>>
      BY <1>1, <1>4, PayloadIsBytes
    <3>2. m_message_buffer' \in Seq(Byte)
      BY <1>2, <1>3
    <3>3. \A k \in 1..sent[i] : m_message_buffer'[k] = Payload(i)[k]
      BY <1>10, <2>2, <3>1
    <3> QED BY <1>11, <3>1, <3>2, <3>3, SeqEqual
  <2>4. Payload(i)' = Payload(i) /\ sent'[i] > 0 /\ i <= Len(sent')
    BY <1>4 DEF Payload
  <2>5. NextIs(stream', sent', i + 1, 1)
    BY <1>9, <1>14
  <2> QED BY <2>1, <2>3, <2>4, <2>5 DEF Complete
<1>15. n < m_message_remain \/ n = m_message_remain
  BY <1>2, <1>4, <1>8
<1> QED BY <1>13, <1>14, <1>15

\* A byte of the stream that begins a message begins one that was sent.
LEMMA NextWasSent ==
  ASSUME Inv, Stream(stream, sent), stream # <<>>, NEW i, NEW p,
         NextIs(stream, sent, i, p)
  PROVE  i \in 1..Len(sent)
<1>1. 1 \in 1..Len(stream)
  BY StreamIsBytes
<1> QED BY <1>1 DEF Stream, InFrames, InFrame, NextIs, At

\* Between two messages it gets a header, and with it the size of the message.
LEMMA StepHeader ==
  ASSUME ChannelInv, qsock = "connected", NEW i \in first..(Len(sent) + 1),
         Between(i), HandedOut(i), ReadHeader, wire' = wire,
         UNCHANGED <<sent, delivered>>
  PROVE  \E j \in first..(Len(sent) + 1) :
           HandedOut(j)' /\ (Between(j)' \/ Midway(j)')
<1>1. /\ Inv /\ Stream(stream, sent) /\ stream \in Seq(Byte) /\ sent \in Seq(Nat)
      /\ first \in Nat \ {0} /\ Len(sent) \in Nat /\ inbuf \in Seq(Byte)
  BY StreamIsBytes DEF ChannelInv, Inv, TypeOK, StreamInv
<1>2. Len(inbuf) >= HeaderSize /\ inbuf' = Suffix(inbuf, HeaderSize)
  BY DEF ReadHeader
<1>3. HeaderSize \in 0..Len(inbuf) /\ HeaderSize \in 1..Len(stream) /\ stream # <<>>
  BY <1>1, <1>2, StreamIsBytes DEF HeaderSize
<1>4. /\ stream' = Suffix(stream, HeaderSize)
      /\ Prefix(inbuf, HeaderSize) = Prefix(stream, HeaderSize)
  BY <1>1, <1>2, <1>3, StreamRead
<1>5. NextIs(stream, sent, i, 1) /\ i \in 1..Len(sent)
  BY <1>1, <1>3, NextWasSent DEF Between
<1>6. sent[i] \in Nat
  BY <1>1, <1>5
<1>7. Prefix(inbuf, HeaderSize) = Header(i)
  BY <1>1, <1>3, <1>4, <1>5, ReadHeaderOf
<1>8. Sizes(Prefix(inbuf, HeaderSize)) = {sent[i]}
  <2> DEFINE hs == {j \in 1..Len(sent) : Prefix(inbuf, HeaderSize) = Header(j)}
  <2>1. hs = {i}
    BY <1>5, <1>7, HeaderTells
  <2> QED BY <2>1 DEF Sizes
<1>9. /\ m_message_remain' = sent[i] /\ m_message_buffer' = Zeros(sent[i])
      /\ m_message_ready' = FALSE
  BY <1>8 DEF ReadHeader, ResizedBuffer
<1>10. Len(m_message_buffer') = sent[i] /\ FillFrom' = 0
  BY <1>6, <1>9, ZerosAreBytes DEF FillFrom
<1>11. /\ 1 + (HeaderSize - 1) <= EndOf(i, sent) /\ 1 \in Nat \ {0}
       /\ (sent[i] > 0 <=> 1 + (HeaderSize - 1) < EndOf(i, sent))
       /\ (sent[i] = 0 <=> 1 + (HeaderSize - 1) = EndOf(i, sent))
  BY <1>6 DEF EndOf, HeaderSize
<1>12. /\ sent[i] > 0 => NextIs(stream', sent, i, 1 + HeaderSize)
       /\ sent[i] = 0 => NextIs(stream', sent, i + 1, 1)
  BY <1>1, <1>3, <1>4, <1>5, <1>11, ReadOn
<1>13. first' = first
  BY DEF ReadHeader, history
<1>14. CASE sent[i] > 0
  <2>1. HeaderSize + FillFrom' + 1 = 1 + HeaderSize
    BY <1>10 DEF HeaderSize
  <2>2. Midway(i)'
    BY <1>5, <1>9, <1>10, <1>12, <1>14, <2>1 DEF Midway
  <2>3. HandedOut(i)'
    BY <1>13 DEF HandedOut
  <2> QED BY <2>2, <2>3
<1>15. CASE sent[i] = 0
  <2>1. i + 1 \in first..(Len(sent) + 1)
    BY <1>1, <1>5
  <2>2. Between(i + 1)'
    BY <1>9, <1>12, <1>15 DEF Between
  <2>3. HandedOut(i + 1)'
    <3>1. \A j \in first..((i + 1) - 1) : j \in first..(i - 1) \/ j = i
      BY <1>1, <1>5
    <3> QED BY <1>13, <1>15, <3>1 DEF HandedOut
  <2> QED BY <2>1, <2>2, <2>3
<1> QED BY <1>6, <1>14, <1>15

\* A message in the buffer is handed out.
LEMMA StepHandedOut ==
  ASSUME ChannelInv, NEW i \in first..(Len(sent) + 1), Complete(i), HandedOut(i),
         TcpReadMessage
  PROVE  /\ i \in first..Len(sent) /\ delivered' = Append(delivered, i)
         /\ HandedOut(i + 1)' /\ Between(i + 1)'
<1>1. /\ Inv /\ sent \in Seq(Nat) /\ first \in Nat \ {0} /\ Len(sent) \in Nat
      /\ delivered \in Seq(Nat) /\ Len(delivered) \in Nat
  BY StreamIsBytes DEF ChannelInv, Inv, TypeOK
<1>2. i \in first..Len(sent) /\ i \in 1..Len(sent)
  BY <1>1 DEF Complete
<1>3. Message(m_message_buffer) = i
  BY <1>1, <1>2, PayloadTells DEF Complete
<1>4. /\ delivered' = Append(delivered, i) /\ m_message_ready' = FALSE
      /\ UNCHANGED <<sent, first, m_message_remain>> /\ stream' = stream
  BY <1>3 DEF Complete, TcpReadMessage, ReadyAfterRead, stream, history, socket
<1>5. /\ Len(delivered') = Len(delivered) + 1 /\ delivered'[Len(delivered) + 1] = i
      /\ \A d \in 1..Len(delivered) : delivered'[d] = delivered[d]
  BY <1>1, <1>2, <1>4, AppendProperties
<1>6. HandedOut(i + 1)'
  <2> SUFFICES ASSUME NEW j \in first..((i + 1) - 1), sent[j] > 0
               PROVE  \E d \in 1..Len(delivered') : delivered'[d] = j
    BY <1>4 DEF HandedOut
  <2>1. CASE j = i
    BY <1>1, <1>5, <2>1
  <2>2. CASE j # i
    <3>1. j \in first..(i - 1)
      BY <1>1, <1>2, <2>2
    <3>2. PICK d \in 1..Len(delivered) : delivered[d] = j
      BY <3>1 DEF HandedOut
    <3>3. d \in 1..Len(delivered')
      BY <1>1, <1>5
    <3> QED BY <1>5, <3>2, <3>3
  <2> QED BY <2>1, <2>2
<1>7. Between(i + 1)'
  <2>1. m_message_remain = 0
    BY DEF Complete, ChannelInv, Inv, ReadyIsComplete
  <2> QED BY <1>4, <2>1 DEF Between, Complete
<1> QED BY <1>2, <1>4, <1>6, <1>7

\* Nothing the reader looks at changes.
LEMMA StepUnchanged ==
  ASSUME NEW i, HandedOut(i), Between(i) \/ Midway(i) \/ Complete(i),
         UNCHANGED <<sent, first, reader, delivered, stream>>
  PROVE  HandedOut(i)' /\ (Between(i)' \/ Midway(i)' \/ Complete(i)')
BY DEF HandedOut, Between, Midway, Complete, FillFrom, reader, Payload

LEMMA StepSends ==
  ASSUME Inv, OrderInv, NEW size \in MessageSizes, ServerSends(size),
         NEW i \in first..(Len(sent) + 1),
         HandedOut(i), Between(i) \/ Midway(i) \/ Complete(i)
  PROVE  /\ HandedOut(i)' /\ (Between(i)' \/ Midway(i)' \/ Complete(i)')
         /\ i \in first'..(Len(sent') + 1)
<1>1. /\ UNCHANGED <<first, m_message_buffer, m_message_remain, m_message_ready, delivered>>
      /\ Len(sent) \in Nat /\ first \in Nat \ {0} /\ FillFrom' = FillFrom
  BY StreamIsBytes DEF ServerSends, history, reader, FillFrom, Inv, TypeOK
<1>2. /\ Len(sent') = Len(sent) + 1
      /\ \A j \in 1..Len(sent) : sent'[j] = sent[j]
      /\ \A j, p : NextIs(stream, sent, j, p) => NextIs(stream', sent', j, p)
  BY StreamSends
<1>3. i \in first'..(Len(sent') + 1)
  BY <1>1, <1>2
<1>4. HandedOut(i)'
  <2>1. \A j \in first..(i - 1) : j \in 1..Len(sent)
    BY <1>1
  <2> QED BY <1>1, <1>2, <2>1 DEF HandedOut
<1>5. CASE Between(i)
  BY <1>1, <1>2, <1>3, <1>4, <1>5 DEF Between
<1>6. CASE Midway(i) \/ Complete(i)
  <2>1. i \in 1..Len(sent) /\ i <= Len(sent')
    BY <1>1, <1>2, <1>6 DEF Midway, Complete
  <2>2. sent'[i] = sent[i]
    BY <1>2, <2>1
  <2>3. Payload(i)' = Payload(i)
    BY <2>2 DEF Payload
  <2> QED BY <1>1, <1>2, <1>3, <1>4, <1>6, <2>1, <2>2, <2>3 DEF Midway, Complete
<1> QED BY <1>5, <1>6

LEMMA StepKept ==
  ASSUME ChannelInv, [Next]_vars
  PROVE  StepInv'
<1> SUFFICES ASSUME qsock' = "connected", ~out_of_step'
             PROVE  \E j \in first'..(Len(sent') + 1) :
                      HandedOut(j)' /\ (Between(j)' \/ Midway(j)' \/ Complete(j)')
  BY DEF StepInv
<1> USE DEF reader, history, socket
<1>1. /\ Inv /\ OrderInv /\ TurnInv /\ StreamInv /\ StepInv /\ Len(sent) \in Nat
      /\ first \in Nat /\ first <= Len(sent) + 1
  BY StreamIsBytes DEF ChannelInv, Inv, TypeOK
<1>2. CASE TcpUpdate
  <2>1. UNCHANGED <<sent, wire, qsock, delivered>> /\ ~m_message_ready
    BY <1>1, <1>2 DEF TcpUpdate, TurnInv
  <2>2. (ReadNothing \/ ReadPayload \/ ReadHeader) /\ UNCHANGED <<first, out_of_step>>
    BY <1>2 DEF TcpUpdate, ReadError, LoseHeader, LoseStep, ReadNothing, ReadPayload,
                ReadHeader
  <2>3. PICK i \in first..(Len(sent) + 1) :
          HandedOut(i) /\ (Between(i) \/ Midway(i) \/ Complete(i))
    BY <1>1, <2>1, <2>2 DEF StepInv
  <2>4. CASE ReadNothing
    <3>1. UNCHANGED <<sent, first, reader, delivered, stream>>
      BY <2>1, <2>2, <2>4 DEF ReadNothing, stream
    <3> QED BY <2>1, <2>2, <2>3, <3>1, StepUnchanged
  <2>5. CASE ReadPayload
    <3>1. Midway(i)
      BY <2>1, <2>3, <2>5 DEF ReadPayload, Between, Complete
    <3>2. Midway(i)' \/ Complete(i)'
      BY <2>1, <2>5, <3>1, StepPayload
    <3>3. HandedOut(i)'
      BY <2>1, <2>2, <2>3 DEF HandedOut
    <3> QED BY <2>1, <2>2, <2>3, <3>2, <3>3
  <2>6. CASE ReadHeader
    <3>1. Between(i)
      BY <2>1, <2>3, <2>6 DEF ReadHeader, Midway, Complete
    <3>2. \E j \in first..(Len(sent) + 1) : HandedOut(j)' /\ (Between(j)' \/ Midway(j)')
      BY <2>1, <2>3, <2>6, <3>1, StepHeader
    <3> QED BY <2>1, <2>2, <3>2
  <2> QED BY <2>2, <2>4, <2>5, <2>6
<1>3. CASE TcpReadMessage
  <2>1. UNCHANGED <<sent, first, out_of_step, qsock>> /\ stream' = stream
    BY <1>3 DEF TcpReadMessage, stream
  <2>2. PICK i \in first..(Len(sent) + 1) :
          HandedOut(i) /\ (Between(i) \/ Midway(i) \/ Complete(i))
    BY <1>1, <2>1 DEF StepInv
  <2>3. CASE m_message_ready
    <3>1. Complete(i)
      BY <1>1, <2>2, <2>3 DEF Between, Midway, Inv, ReadyIsComplete
    <3>2. i \in first..Len(sent) /\ HandedOut(i + 1)' /\ Between(i + 1)'
      BY <1>3, <2>2, <3>1, StepHandedOut
    <3>3. i + 1 \in first..(Len(sent) + 1)
      BY <1>1, <3>2
    <3> QED BY <2>1, <3>2, <3>3
  <2>4. CASE ~m_message_ready
    <3>1. UNCHANGED <<sent, first, reader, delivered, stream>>
      BY <1>3, <2>1, <2>4 DEF TcpReadMessage
    <3> QED BY <2>1, <2>2, <3>1, StepUnchanged
  <2> QED BY <2>3, <2>4
<1>4. CASE Delivery \/ UNCHANGED vars
  <2>1. UNCHANGED <<sent, first, out_of_step, qsock, reader, delivered>>
    BY <1>4 DEF Delivery, Arrive, vars
  <2>2. stream' = stream
    <3>1. CASE Delivery
      BY <1>1, <3>1, StreamArrives DEF Delivery
    <3>2. CASE UNCHANGED vars
      BY <3>2 DEF vars, stream
    <3> QED BY <1>4, <3>1, <3>2
  <2>3. PICK i \in first..(Len(sent) + 1) :
          HandedOut(i) /\ (Between(i) \/ Midway(i) \/ Complete(i))
    BY <1>1, <2>1 DEF StepInv
  <2> QED BY <2>1, <2>2, <2>3, StepUnchanged
<1>5. CASE Established
  <2> PICK i \in first..(Len(sent) + 1) : i = Len(sent) + 1
    BY <1>1
  <2>1. /\ UNCHANGED <<sent, first, out_of_step, reader, delivered, wire, inbuf>>
        /\ wire = <<>> /\ inbuf = <<>> /\ first = i
        /\ m_message_remain = 0 /\ ~m_message_ready
    BY <1>1, <1>5 DEF Established, TurnInv
  <2>2. stream' = <<>>
    BY <2>1 DEF stream
  <2>3. Between(i)'
    BY <2>1, <2>2 DEF Between, NextIs
  <2>4. HandedOut(i)'
    <3>1. \A j \in first..(i - 1) : FALSE
      BY <1>1, <2>1
    <3> QED BY <2>1, <3>1 DEF HandedOut
  <2>5. i \in first'..(Len(sent') + 1)
    BY <1>1, <2>1
  <2> QED BY <2>3, <2>4, <2>5
<1>6. CASE Connect \/ Refused \/ Disconnect \/ RemoteClose
  BY <1>6 DEF Connect, Refused, Disconnect, RemoteClose
<1>7. ASSUME NEW size \in MessageSizes, ServerSends(size)
      PROVE  \E j \in first'..(Len(sent') + 1) :
               HandedOut(j)' /\ (Between(j)' \/ Midway(j)' \/ Complete(j)')
  <2>1. UNCHANGED <<out_of_step, qsock>>
    BY <1>7 DEF ServerSends
  <2>2. PICK i \in first..(Len(sent) + 1) :
          HandedOut(i) /\ (Between(i) \/ Midway(i) \/ Complete(i))
    BY <1>1, <2>1 DEF StepInv
  <2> QED BY <1>1, <1>7, <2>2, StepSends
<1> QED BY <1>2, <1>3, <1>4, <1>5, <1>6, <1>7 DEF Next, Update

(***************************************************************************)
(* The invariant, and what follows from it                                 *)
(***************************************************************************)

LEMMA InitChannelInv == Init => ChannelInv
<1> SUFFICES ASSUME Init PROVE ChannelInv
  OBVIOUS
<1>1. stream = <<>> /\ Len(stream) = 0
  BY DEF Init, stream
<1>2. /\ \A k \in 1..Len(stream) : FALSE
      /\ \A d \in 1..Len(delivered) : FALSE
      /\ ~InUse /\ sent \in Seq(MessageSizes)
  <2>1. Len(delivered) = 0 /\ ~InUse /\ sent = <<>>
    BY DEF Init, InUse
  <2> QED BY <1>1, <2>1
<1>3. OrderInv
  BY <1>2 DEF OrderInv, InFrames, Ordered, InOrder
<1>4. qsock = "unconnected" /\ TurnInv
  BY DEF Init, TurnInv
<1> QED BY <1>3, <1>4, InitInv DEF ChannelInv, StreamInv, StepInv

LEMMA ChannelKept == ChannelInv /\ [Next]_vars => ChannelInv'
<1> SUFFICES ASSUME ChannelInv, [Next]_vars PROVE ChannelInv'
  OBVIOUS
<1>1. Inv'
  BY NextInv DEF ChannelInv
<1>2. OrderInv'
  <2>1. CASE UNCHANGED vars
    BY <2>1 DEF vars, reader, history, socket, ChannelInv, OrderInv, stream, InUse,
                FillFrom, InOrder
  <2>2. ASSUME NEW size \in MessageSizes, ServerSends(size) PROVE OrderInv'
    BY <2>2, OrderSends DEF ChannelInv
  <2> QED BY <1>1, <2>1, <2>2, OrderUpdate, OrderReadMessage, OrderNetwork
          DEF Next, Update
<1> QED BY <1>1, <1>2, TurnKept, StreamKept, StepKept DEF ChannelInv

LEMMA ChannelCorrect == Spec => []ChannelInv
BY InitChannelInv, ChannelKept, PTL DEF Spec

\* However the stream is cut, over all connections, and whatever the reader
\* took for a header or lost in between, no message is handed out twice or
\* after a later one.
THEOREM HandedOutInOrder == Spec => []InOrder
<1>1. ChannelInv => InOrder
  BY DEF ChannelInv, OrderInv
<1> QED BY <1>1, ChannelCorrect, PTL

\* In step, every message that is handed out begins with a four-character
\* code: there is none of one to three bytes (WireAssumption).
THEOREM FourCCAlwaysThere == Spec => []FourCCInMessage
<1>1. ChannelInv => FourCCInMessage
  <2> SUFFICES ASSUME ChannelInv, m_message_ready, ~out_of_step
               PROVE  Len(m_message_buffer) >= 4
    BY DEF FourCCInMessage
  <2>1. PICK i \in first..(Len(sent) + 1) : Complete(i)
    BY DEF ChannelInv, StepInv, TurnInv, Between, Midway, Inv, ReadyIsComplete
  <2>2. i \in 1..Len(sent) /\ sent \in Seq(MessageSizes)
    BY <2>1, StreamIsBytes DEF Complete, ChannelInv, OrderInv, Inv, TypeOK
  <2>3. sent[i] >= 4
    BY <2>1, <2>2, SentSizes DEF Complete
  <2> QED BY <2>1, <2>2, <2>3, SentSizes, PayloadIsBytes DEF Complete
<1> QED BY <1>1, ChannelCorrect, PTL

\* A message that read_message() hands out is the next one of the channel, or
\* the channel is broken and it is one from behind all others, or a corrupt one.
LEMMA HandsOutAsChannel ==
  ASSUME ChannelInv, TcpReadMessage
  PROVE  Channel!Deliver \/ Channel!HandOutAnything \/ UNCHANGED Channel!channel
<1>1. UNCHANGED <<sent, first, out_of_step>>
  BY DEF TcpReadMessage, history
<1>2. CASE ~m_message_ready
  BY <1>1, <1>2 DEF TcpReadMessage, Channel!channel
<1>3. CASE m_message_ready /\ ~out_of_step
  <2>1. PICK i \in first..(Len(sent) + 1) : HandedOut(i) /\ Complete(i)
    BY <1>3 DEF ChannelInv, StepInv, TurnInv, Between, Midway, Inv, ReadyIsComplete
  <2>2. /\ i \in first..Len(sent) /\ i \in 1..Len(sent)
        /\ delivered' = Append(delivered, i)
    <3>1. i \in first..Len(sent) /\ delivered' = Append(delivered, i)
      BY <2>1, StepHandedOut
    <3> QED BY <3>1, StreamIsBytes DEF ChannelInv, Inv, TypeOK
  <2>3. Message(m_message_buffer) = i
    BY <2>1, <2>2, PayloadTells DEF Complete, ChannelInv, Inv, TypeOK
  <2>4. \A d \in 1..Len(delivered) : delivered[d] < i
    BY <1>3, <2>2, <2>3, ReadyIsNext
  <2>5. ~Channel!Delivered(i)
    <3>1. delivered \in Seq(Nat)
      BY DEF ChannelInv, Inv, TypeOK
    <3>2. \A d \in 1..Len(delivered) : delivered[d] # i
      BY <2>2, <2>4, <3>1
    <3> QED BY <3>2 DEF Channel!Delivered
  <2>6. Channel!IsNext(i)
    BY <2>1, <2>2, <2>5 DEF Channel!IsNext, Channel!Delivered, HandedOut, Complete
  <2> QED BY <1>1, <1>3, <2>2, <2>6 DEF Channel!Deliver
<1>4. CASE m_message_ready /\ out_of_step
  <2> DEFINE m == Message(m_message_buffer)
  <2>1. delivered' = Append(delivered, m)
    BY <1>4 DEF TcpReadMessage
  <2>2. /\ m \in 0..Len(sent)
        /\ m # 0 => \A d \in 1..Len(delivered) : delivered[d] < m
    BY <1>4, ReadyIsNext
  <2> HIDE DEF m
  <2> QED BY <1>1, <1>4, <2>1, <2>2 DEF Channel!HandOutAnything
<1> QED BY <1>2, <1>3, <1>4 DEF ChannelInv, Inv, TypeOK

\* The Qt client's reader is a MessageChannel that breaks only where bytes of a
\* header or a payload are given up, or a connection begins in the middle of a
\* message; every step is one of the channel or none.
THEOREM QtTcpImplementsChannel == Spec => ImplementsChannel
<1>1. Init => Channel!Init
  BY DEF Init, Channel!Init
<1>2. ChannelInv /\ [Next]_vars => [Channel!Next]_(Channel!channel)
  <2> SUFFICES ASSUME ChannelInv, [Next]_vars
               PROVE  Channel!Next \/ UNCHANGED Channel!channel
    OBVIOUS
  <2> USE DEF reader, history, socket
  <2>1. CASE TcpUpdate
    <3>1. UNCHANGED <<sent, delivered>>
      BY <2>1 DEF TcpUpdate
    <3>2. CASE ReadError \/ LoseHeader
      BY <3>1, <3>2 DEF ReadError, LoseHeader, LoseStep, Channel!Next, Channel!Break
    <3>3. CASE ReadNothing \/ ReadPayload \/ ReadHeader
      BY <3>1, <3>3 DEF ReadNothing, ReadPayload, ReadHeader, Channel!channel
    <3> QED BY <2>1, <3>2, <3>3 DEF TcpUpdate
  <2>2. CASE TcpReadMessage
    BY <2>2, HandsOutAsChannel DEF Channel!Next
  <2>3. CASE Connect
    <3>1. first' = Len(sent) + 1 /\ out_of_step' \in BOOLEAN
      BY <2>3 DEF Connect, BeginConnection
    <3> QED BY <2>3, <3>1 DEF Connect, Channel!Reconnect, Channel!Next
  <2>4. CASE Delivery \/ Established \/ Refused \/ Disconnect \/ RemoteClose \/ UNCHANGED vars
    BY <2>4 DEF Delivery, Arrive, Established, Refused, Disconnect, RemoteClose, vars,
                Channel!channel
  <2>5. ASSUME NEW size \in MessageSizes, ServerSends(size) PROVE Channel!Next
    BY <2>5 DEF ServerSends, SendMessage, Channel!Next, Channel!Send
  <2> QED BY <2>1, <2>2, <2>3, <2>4, <2>5 DEF Next, Update
<1> QED BY <1>1, <1>2, ChannelCorrect, PTL DEF Spec, ImplementsChannel, Channel!Spec

=============================================================================
