------------------------------- MODULE QtTcp -------------------------------
(***************************************************************************)
(* The message reader of the Qt client: class Tcp (client-qt/tcp.cpp) as   *)
(* FpvContext::update() (client-qt/fpv_service.cpp) drives it.  Every 16   *)
(* ms the client calls Tcp::update(), which looks at the socket and makes  *)
(* at most one read, of a header or of a piece of a payload, and then      *)
(* Tcp::read_message(), which hands out a message that became complete.    *)
(* Bytes arrive, and the user connects and disconnects, between two        *)
(* updates.                                                                *)
(*                                                                         *)
(* An operator Op_Mistake, written before Op, is Op with a mistake in it   *)
(* that no action makes; with it a property of this module fails.          *)
(***************************************************************************)
EXTENDS Wire

CONSTANTS
  SplitHeaders,     \* may the network deliver a part of a header?
  GarbageSizes,     \* what four bytes that are no header may say
  ReadErrors,       \* may QTcpSocket::read return -1?
  MaxConnections    \* bound: connections

ASSUME QtTcpAssumption ==
  /\ SplitHeaders \in BOOLEAN /\ ReadErrors \in BOOLEAN
  /\ GarbageSizes \subseteq Nat
  /\ MaxConnections \in Nat

VARIABLES
  qsock,              \* QTcpSocket::state()
  inbuf,              \* the bytes QTcpSocket holds for the client
  m_state,            \* TcpPrivate::m_state
  m_message_buffer,   \* TcpPrivate::m_message_buffer
  m_message_remain,   \* TcpPrivate::m_message_remain
  m_message_ready,    \* TcpPrivate::m_message_ready
  turn,               \* which half of FpvContext::update() comes next
  connections,        \* connections established so far
  delivered           \* history: messages handed out, 0 for a corrupt one

socket == <<qsock, inbuf>>
reader == <<m_message_buffer, m_message_remain, m_message_ready>>

vars == <<sent, wire, history, socket, m_state, reader, turn, connections,
          delivered>>

Zero == <<0, 0>>       \* the bytes vector::resize() fills in

Zeros(n) == [k \in 1..n |-> Zero]

-----------------------------------------------------------------------------
(* TcpPrivate::read_message()                                              *)

\* Nothing to read: not connected, or no byte available.
ReadNothing ==
  /\ qsock # "connected" \/ inbuf = <<>>
  /\ UNCHANGED <<inbuf, reader, history>>

\* Where in the buffer the payload goes on.
FillFrom_Start == 0
FillFrom == Len(m_message_buffer) - m_message_remain

\* The buffer with n bytes of inbuf stored there.
Filled(n) ==
  [k \in 1..Len(m_message_buffer) |->
     IF k \in (FillFrom + 1)..(FillFrom + n) THEN inbuf[k - FillFrom]
                                            ELSE m_message_buffer[k]]

ReadCount_Available == Len(inbuf)
ReadCount ==
  IF Len(inbuf) < m_message_remain THEN Len(inbuf) ELSE m_message_remain

\* Is the message complete with n more bytes?
Completes_AnyRead(n) == n > 0
Completes_InOneRead(n) == n = Len(m_message_buffer)
Completes(n) == n = m_message_remain

\* What is still awaited after n more bytes.
Remaining_Forgotten(n) == 0
Remaining(n) == m_message_remain - n

ReadPayload ==
  /\ qsock = "connected" /\ inbuf # <<>> /\ m_message_remain > 0
  /\ m_message_buffer' = Filled(ReadCount)
  /\ m_message_remain' = Remaining(ReadCount)
  /\ m_message_ready' = (m_message_ready \/ Completes(ReadCount))
  /\ inbuf' = Suffix(inbuf, ReadCount)
  /\ UNCHANGED history

ReadError ==
  /\ ReadErrors
  /\ qsock = "connected" /\ inbuf # <<>> /\ m_message_remain > 0
  /\ m_message_remain' = 0 /\ LoseStep
  /\ UNCHANGED <<inbuf, m_message_buffer, m_message_ready>>

\* Fewer than four bytes are there: they are read, and forgotten.
LoseHeader ==
  /\ qsock = "connected" /\ inbuf # <<>> /\ m_message_remain = 0
  /\ Len(inbuf) < HeaderSize
  /\ inbuf' = <<>> /\ LoseStep
  /\ UNCHANGED reader

\* The sizes four bytes may stand for.
Sizes(bytes) ==
  LET headers == {i \in 1..Len(sent) : bytes = Header(i)}
  IN  IF headers # {} THEN {sent[i] : i \in headers} ELSE GarbageSizes

\* A new message begins: the buffer gets its size.
ResizedBuffer_Missing(size) == m_message_buffer
ResizedBuffer(size) == Zeros(size)

ReadHeader ==
  /\ qsock = "connected" /\ m_message_remain = 0
  /\ Len(inbuf) >= HeaderSize
  /\ \E size \in Sizes(Prefix(inbuf, HeaderSize)) :
       /\ m_message_remain' = size
       /\ m_message_buffer' = ResizedBuffer(size)
  /\ m_message_ready' = FALSE
  /\ inbuf' = Suffix(inbuf, HeaderSize)
  /\ UNCHANGED history

-----------------------------------------------------------------------------
(* FpvContext::update()                                                    *)

\* Tcp::update()
TcpUpdate ==
  /\ turn = "update" /\ turn' = "read"
  /\ m_state' = IF qsock \in {"connecting", "connected"} THEN qsock
                                                         ELSE "disconnected"
  /\ \/ ReadNothing \/ ReadPayload \/ ReadError \/ LoseHeader \/ ReadHeader
  /\ UNCHANGED <<sent, wire, qsock, connections, delivered>>

\* A message that was handed out is not ready any more.
ReadyAfterRead_Kept == m_message_ready
ReadyAfterRead == FALSE

\* Tcp::read_message()
TcpReadMessage ==
  /\ turn = "read" /\ turn' = "update"
  /\ \/ /\ m_message_ready
        /\ m_message_ready' = ReadyAfterRead
        /\ delivered' = Append(delivered, Message(m_message_buffer))
     \/ /\ ~m_message_ready
        /\ UNCHANGED <<m_message_ready, delivered>>
  /\ UNCHANGED <<sent, wire, history, socket, m_state, m_message_buffer,
                 m_message_remain, connections>>

-----------------------------------------------------------------------------
(* The user, the server and the network, between two updates               *)

\* Tcp::connect(); on a socket that is not unconnected Qt does nothing.
Connect ==
  /\ turn = "update" /\ qsock = "unconnected" /\ connections < MaxConnections
  /\ qsock' = "connecting" /\ inbuf' = <<>>
  /\ BeginConnection(m_message_remain > 0)
  /\ UNCHANGED <<sent, wire, m_state, reader, turn, connections, delivered>>

Established ==
  /\ turn = "update" /\ qsock = "connecting"
  /\ qsock' = "connected"
  /\ connections' = connections + 1
  /\ UNCHANGED <<sent, wire, history, inbuf, m_state, reader, turn, delivered>>

\* The connection attempt fails.
Refused ==
  /\ turn = "update" /\ qsock = "connecting"
  /\ qsock' = "unconnected"
  /\ UNCHANGED <<sent, wire, history, inbuf, m_state, reader, turn, connections,
                 delivered>>

\* Tcp::disconnect() aborts the socket.
Disconnect ==
  /\ turn = "update" /\ qsock # "unconnected"
  /\ qsock' = "unconnected" /\ inbuf' = <<>> /\ wire' = <<>>
  /\ UNCHANGED <<sent, history, m_state, reader, turn, connections, delivered>>

\* The server closes the connection, or it breaks.
RemoteClose ==
  /\ turn = "update" /\ qsock = "connected"
  /\ qsock' = "unconnected" /\ wire' = <<>>
  /\ UNCHANGED <<sent, history, inbuf, m_state, reader, turn, connections,
                 delivered>>

ServerSends(size) ==
  /\ turn = "update" /\ qsock = "connected"
  /\ SendMessage(size)
  /\ UNCHANGED <<history, socket, m_state, reader, turn, connections, delivered>>

Arrive(n) ==
  /\ turn = "update" /\ qsock = "connected"
  /\ Cut(n, SplitHeaders)
  /\ inbuf' = inbuf \o Prefix(wire, n)
  /\ wire' = Suffix(wire, n)
  /\ UNCHANGED <<sent, history, qsock, m_state, reader, turn, connections,
                 delivered>>

-----------------------------------------------------------------------------
Init ==
  /\ sent = <<>> /\ wire = <<>> /\ first = 1 /\ out_of_step = FALSE
  /\ qsock = "unconnected" /\ inbuf = <<>>
  /\ m_state = "disconnected"
  /\ m_message_buffer = <<>> /\ m_message_remain = 0
  /\ m_message_ready = FALSE
  /\ turn = "update" /\ connections = 0 /\ delivered = <<>>

Update == TcpUpdate \/ TcpReadMessage

Delivery == \E n \in 1..Len(wire) : Arrive(n)

Next ==
  \/ Update \/ Delivery
  \/ Connect \/ Established \/ Refused \/ Disconnect \/ RemoteClose
  \/ \E size \in MessageSizes : ServerSends(size)

Spec == Init /\ [][Next]_vars

\* The 16 ms timer of the client keeps firing and the network delivers.
FairSpec == Spec /\ WF_vars(Update) /\ SF_vars(Delivery)

-----------------------------------------------------------------------------
\* The values every variable keeps to.
TypeOK ==
  /\ sent \in Seq(Nat) /\ wire \in Seq(Byte) /\ inbuf \in Seq(Byte)
  /\ first \in 1..(Len(sent) + 1) /\ out_of_step \in BOOLEAN
  /\ qsock \in {"unconnected", "connecting", "connected"}
  /\ m_state \in {"disconnected", "connecting", "connected"}
  /\ m_message_buffer \in Seq(Byte)
  /\ m_message_remain \in Nat /\ m_message_ready \in BOOLEAN
  /\ turn \in {"update", "read"}
  /\ connections \in Nat /\ delivered \in Seq(Nat)

\* The payload is always written inside the buffer: read_message() stores at
\* m_message_buffer.size() - remain, whatever header, reconnect or read error
\* came before.
WritesInsideBuffer == m_message_remain <= Len(m_message_buffer)

\* What read_message() hands out is a filled, non-empty buffer: no byte of it
\* is still awaited, and &m_message_buffer[0] exists.
ReadyIsComplete ==
  m_message_ready => m_message_remain = 0 /\ m_message_buffer # <<>>

\* Tcp::read_message() reads a message (tcp.h:47), which is a size and as many
\* bytes of data (server/README.md:36): nothing else is handed out.
NoCorruptMessage == \A d \in 1..Len(delivered) : delivered[d] # 0

\* Over all connections, and whatever was corrupted in between, no message is
\* handed out twice or after a later one.
InOrder ==
  \A d, e \in 1..Len(delivered) :
    d < e /\ delivered[e] # 0 => delivered[d] < delivered[e]

\* is_4cc() looks at the first four bytes of a message and FpvContext takes
\* msg_len - 4 for the size of the rest: in step, no shorter message is handed
\* out.
FourCCInMessage ==
  m_message_ready /\ ~out_of_step => Len(m_message_buffer) >= 4

\* The reader loses the message boundaries only where it takes fewer than four
\* bytes for a header, gives up a payload, or begins a connection while it
\* awaits bytes of the last one.  As long as it did not, the messages with data
\* reach FpvContext whole, once and in order, however the payloads are cut; and
\* a reconnect between two messages mends it.
Channel == INSTANCE MessageChannel
             WITH MessageSizes <- MessageSizes, sent <- sent,
                  delivered <- delivered, first <- first,
                  broken <- out_of_step
ImplementsChannel == Channel!Spec

\* Each message with data sent on a connection that stays up and in step is
\* handed out in the end.
EveryMessageDelivered ==
  \A i \in 1..MaxMessages :
    (i \in first..Len(sent) /\ sent[i] > 0)
      ~> \/ qsock # "connected" \/ out_of_step
         \/ \E d \in 1..Len(delivered) : delivered[d] = i

=============================================================================
