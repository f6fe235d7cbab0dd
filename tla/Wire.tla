-------------------------------- MODULE Wire --------------------------------
(***************************************************************************)
(* The bytes the server sends to a client: the messages of                 *)
(* RpiServer::send_keepalive, GPIO send_gpio_value and V4L2::capture, each *)
(* a header of four bytes that holds the size of what follows.             *)
(*                                                                         *)
(* A byte is a pair: the message it belongs to, by its place in `sent`,    *)
(* and its place in that message.  What a header says is `sent` at its     *)
(* message; four bytes that are not a header say anything.                 *)
(*                                                                         *)
(* An operator Op_Mistake, written before Op, is Op with a mistake in it   *)
(* that the code does not make.                                            *)
(***************************************************************************)
EXTENDS Naturals, Sequences

CONSTANTS
  MessageSizes,   \* sizes of the messages: 0, 12, or 4 and a JPEG
  MaxMessages     \* bound: messages sent

ASSUME WireAssumption ==
  /\ MessageSizes \subseteq Nat /\ \A size \in MessageSizes : size = 0 \/ size >= 4
  /\ MaxMessages \in Nat

VARIABLES
  sent,          \* history: the size of each message sent
  wire,          \* the bytes between the server and the socket of the client
  first,         \* history: the first message of this connection, sent or not
  out_of_step    \* history: did the reader lose the message boundaries on
                 \* this connection?

history == <<first, out_of_step>>

HeaderSize == 4

Byte == Nat \X Nat

\* A message with its header.
Frame_OneByteMore(i, size) == [k \in 1..(HeaderSize + size + 1) |-> <<i, k>>]
Frame(i, size) == [k \in 1..(HeaderSize + size) |-> <<i, k>>]

Header(i) == [k \in 1..HeaderSize |-> <<i, k>>]

Payload(i) == [k \in 1..sent[i] |-> <<i, HeaderSize + k>>]

\* Which message a received payload is; 0 for none.
Message(payload) ==
  IF \E i \in 1..Len(sent) : payload = Payload(i)
    THEN CHOOSE i \in 1..Len(sent) : payload = Payload(i)
    ELSE 0

\* One send() of the server.
SendMessage(size) ==
  /\ Len(sent) < MaxMessages
  /\ sent' = Append(sent, size)
  /\ wire' = wire \o Frame(Len(sent) + 1, size)

\* A connection begins, with a reader that is in the middle of something or
\* not.
BeginConnection(midway) == first' = Len(sent) + 1 /\ out_of_step' = midway

LoseStep == out_of_step' = TRUE /\ UNCHANGED first

\* The wire can be cut after n bytes; a cut inside a header only if the
\* network may split one.
Cut(n, splitHeaders) ==
  n \in 1..Len(wire) /\ (splitHeaders \/ wire[n][2] >= HeaderSize)

\* The bytes of a message are those its header announces.
OfMessage(byte) ==
  byte[1] \in 1..Len(sent) /\ byte[2] \in 1..(HeaderSize + sent[byte[1]])

Prefix(s, n) == SubSeq(s, 1, n)
Suffix(s, n) == SubSeq(s, n + 1, Len(s))

=============================================================================
