----------------------------- MODULE UnityClient -----------------------------
(***************************************************************************)
(* The message reader of the Unity client (client-unity, V4L2Client.cs).   *)
(* Unlike the Qt client it collects every byte it reads in m_Received and  *)
(* takes a message off its front only when the whole of it is there.       *)
(* RecieveMessage() runs once per frame.  The buttons of the scene call    *)
(* Connect() and Disconnect() in any order.                                *)
(*                                                                         *)
(* An operator Op_Mistake, written before Op, is Op with a mistake in it   *)
(* that no action makes; with it a property of this module fails.          *)
(***************************************************************************)
EXTENDS Wire

CONSTANTS
  ReadBufferSize,     \* size of m_ReadBuffer
  GarbageSizes,       \* what four bytes that are no header may say
  MaxConnections      \* bound: connections

ASSUME UnityAssumption ==
  /\ ReadBufferSize \in Nat \ {0}
  /\ GarbageSizes \subseteq Nat
  /\ MaxConnections \in Nat

VARIABLES
  m_TcpClient,    \* "null", or a client whose connection is "up", was
                  \* "closed" by the server, or is known to be "broken"
  m_Received,     \* the bytes collected so far
  connections,    \* connections made so far
  delivered       \* history: messages handed to the scene, 0 for a corrupt one

vars == <<sent, wire, history, m_TcpClient, m_Received, connections, delivered>>

-----------------------------------------------------------------------------
\* new TcpClient(): the old one, if any, is dropped and its bytes with it.
\* m_Received is kept.  (The old one is not closed, and keeps the only slot of
\* the server until it is collected: the messages of the new one come later.)
\* The reader begins midway when Disconnect() was not called since m_Received got
\* its bytes; a Connect() that is refused changes nothing about that.
Connect ==
  /\ \/ /\ connections < MaxConnections
        /\ m_TcpClient' = "up" /\ connections' = connections + 1
     \/ m_TcpClient' = "null" /\ UNCHANGED connections    \* refused
  /\ wire' = <<>>
  /\ BeginConnection(m_Received # <<>> /\ (m_TcpClient # "null" \/ out_of_step))
  /\ UNCHANGED <<sent, m_Received, delivered>>

\* Disconnect() forgets what was received (and may then stumble over an
\* m_Message that was never set).
AfterDisconnect_Kept == m_Received
AfterDisconnect == <<>>

Disconnect ==
  /\ m_TcpClient # "null"
  /\ m_TcpClient' = "null" /\ wire' = <<>>
  /\ m_Received' = AfterDisconnect
  /\ UNCHANGED <<sent, history, connections, delivered>>

\* The server closes; what it sent before can still be read.
RemoteClose ==
  /\ m_TcpClient = "up"
  /\ m_TcpClient' = "closed"
  /\ UNCHANGED <<sent, wire, history, m_Received, connections, delivered>>

\* RemoteCommand() on a connection the server has closed: the write fails, and
\* TcpClient.Connected is false from then on.
RemoteCommandFails ==
  /\ m_TcpClient = "closed"
  /\ m_TcpClient' = "broken"
  /\ UNCHANGED <<sent, wire, history, m_Received, connections, delivered>>

ServerSends(size) ==
  /\ m_TcpClient = "up"
  /\ SendMessage(size)
  /\ UNCHANGED <<history, m_TcpClient, m_Received, connections, delivered>>

-----------------------------------------------------------------------------
(* RecieveMessage().  `bytes` is m_Received with what was just read.       *)

Sizes(bytes) ==
  LET headers == {i \in 1..Len(sent) : Prefix(bytes, HeaderSize) = Header(i)}
  IN  IF headers # {} THEN {sent[i] : i \in headers} ELSE GarbageSizes

\* Is the message whole?
Whole_OneByteMore(bytes, msgLen) == Len(bytes) > msgLen + HeaderSize
Whole(bytes, msgLen) == Len(bytes) >= msgLen + HeaderSize

Incomplete(bytes) ==
  /\ \/ Len(bytes) < HeaderSize
     \/ /\ Len(bytes) >= HeaderSize
        /\ \E msgLen \in Sizes(bytes) : msgLen > 0 /\ ~Whole(bytes, msgLen)
  /\ m_Received' = bytes
  /\ UNCHANGED delivered

\* What is left of m_Received behind a message.
Rest_KeepsMessage(bytes, msgLen) == IF msgLen = 0 THEN Suffix(bytes, HeaderSize)
                                                  ELSE bytes
Rest(bytes, msgLen) == Suffix(bytes, HeaderSize + msgLen)

KeepAlive(bytes) ==
  /\ Len(bytes) >= HeaderSize /\ 0 \in Sizes(bytes)
  /\ m_Received' = Rest(bytes, 0)
  /\ UNCHANGED delivered

TakeMessage(bytes) ==
  /\ Len(bytes) >= HeaderSize
  /\ \E msgLen \in Sizes(bytes) :
       /\ msgLen >= 4 /\ Whole(bytes, msgLen)
       /\ delivered' =
            Append(delivered,
                   Message(SubSeq(bytes, HeaderSize + 1, HeaderSize + msgLen)))
       /\ m_Received' = Rest(bytes, msgLen)

\* A size that leaves no room for the four-character code: GetRange() throws,
\* and nothing is removed.
Throws(bytes) ==
  /\ Len(bytes) >= HeaderSize
  /\ \E msgLen \in Sizes(bytes) : msgLen \in 1..3 /\ Whole(bytes, msgLen)
  /\ m_Received' = bytes
  /\ UNCHANGED delivered

\* One frame, in which n bytes of the connection are available.
RecieveMessage(n) ==
  /\ m_TcpClient \in {"up", "closed"}
  /\ n \in 0..Len(wire) /\ n <= ReadBufferSize
  /\ LET bytes == m_Received \o Prefix(wire, n)
     IN  Incomplete(bytes) \/ KeepAlive(bytes) \/ TakeMessage(bytes)
           \/ Throws(bytes)
  /\ wire' = Suffix(wire, n)
  /\ UNCHANGED <<sent, history, m_TcpClient, connections>>

-----------------------------------------------------------------------------
Init ==
  /\ sent = <<>> /\ wire = <<>> /\ first = 1 /\ out_of_step = FALSE
  /\ m_TcpClient = "null" /\ m_Received = <<>>
  /\ connections = 0 /\ delivered = <<>>

Frames == \E n \in 0..Len(wire) : RecieveMessage(n)
FramesWithBytes == \E n \in 1..Len(wire) : RecieveMessage(n)

Next ==
  \/ Connect \/ Disconnect \/ RemoteClose
  \/ RemoteCommandFails \/ Frames
  \/ \E size \in MessageSizes : ServerSends(size)

Spec == Init /\ [][Next]_vars

\* Frames keep being drawn, and the network delivers.
FairSpec == Spec /\ WF_vars(Frames) /\ WF_vars(FramesWithBytes)

-----------------------------------------------------------------------------
\* The values every variable keeps to; the wire holds bytes of messages only.
TypeOK ==
  /\ sent \in Seq(Nat) /\ wire \in Seq(Byte)
  /\ \A k \in 1..Len(wire) : OfMessage(wire[k])
  /\ m_TcpClient \in {"null", "up", "closed", "broken"}
  /\ m_Received \in Seq(Byte)
  /\ first \in 1..(Len(sent) + 1) /\ out_of_step \in BOOLEAN
  /\ connections \in Nat /\ delivered \in Seq(Nat)

\* However the network cuts the stream, the scene gets the messages with data
\* of a connection whole, once and in order, unless Connect() was called while
\* m_Received held a part of a message of the connection before: Disconnect()
\* in between mends it, and so does a reconnect between two messages.
Channel == INSTANCE MessageChannel
             WITH MessageSizes <- MessageSizes, sent <- sent,
                  delivered <- delivered, first <- first,
                  broken <- out_of_step
ImplementsChannel == Channel!Spec

\* In step, m_Received begins with the first byte of a message of this
\* connection: no size that makes GetRange() throw, again in every frame, and
\* no negative one is ever taken from it.
BeginsWithMessage ==
  m_Received # <<>> /\ ~out_of_step =>
    \E i \in first..Len(sent) : m_Received[1] = <<i, 1>>

\* Each message with data of a connection in step is handed to the scene in
\* the end, also when the server closed the connection behind it.
EveryMessageDelivered ==
  \A i \in 1..MaxMessages :
    (i \in first..Len(sent) /\ sent[i] > 0)
      ~> \/ m_TcpClient \in {"null", "broken"} \/ out_of_step \/ i < first
         \/ \E d \in 1..Len(delivered) : delivered[d] = i

\* RecieveMessage() takes messages in the generic format of
\* server/README.md:36 and hands out nothing else.
NoCorruptMessage == \A d \in 1..Len(delivered) : delivered[d] # 0

\* Over all connections, and whatever was corrupted in between, no message is
\* handed out twice or after a later one.
InOrder ==
  \A d, e \in 1..Len(delivered) :
    d < e /\ delivered[e] # 0 => delivered[d] < delivered[e]

=============================================================================
