--------------------------- MODULE MessageChannel ---------------------------
(***************************************************************************)
(* What the message stream from the server to a client promises, in the    *)
(* terms of server/README.md: "All TCP/IP message use the following        *)
(* generic format", a size and that many bytes of data.  A client gets the *)
(* messages that carry data whole, each once, in the order they were sent. *)
(* The keep-alive message, whose size is 0, is not handed to anybody.      *)
(*                                                                         *)
(* A new connection forgets what the old one still owed.  A channel may    *)
(* break, until a new connection mends it; what a broken one hands out may *)
(* be corrupt, but is never a message from before.                         *)
(***************************************************************************)
EXTENDS Naturals, Sequences

CONSTANT MessageSizes     \* the sizes of the messages

VARIABLES
  sent,        \* the size of each message sent so far
  delivered,   \* which of them were handed out, by their place in sent; 0 is
               \* a corrupt one
  first,       \* the first message of this connection
  broken       \* is nothing promised on this connection any more?

channel == <<sent, delivered, first, broken>>

Init == sent = <<>> /\ delivered = <<>> /\ first = 1 /\ broken = FALSE

Send(size) ==
  /\ sent' = Append(sent, size)
  /\ UNCHANGED <<delivered, first, broken>>

Delivered(i) == \E d \in 1..Len(delivered) : delivered[d] = i

\* Message i is the first one of the connection with data that was not handed
\* out.
IsNext(i) ==
  /\ i >= first /\ sent[i] > 0 /\ ~Delivered(i)
  /\ \A j \in first..(i - 1) : sent[j] > 0 => Delivered(j)

Deliver ==
  /\ ~broken
  /\ \E i \in 1..Len(sent) : IsNext(i) /\ delivered' = Append(delivered, i)
  /\ UNCHANGED <<sent, first, broken>>

Break ==
  /\ broken' = TRUE
  /\ UNCHANGED <<sent, delivered, first>>

HandOutAnything ==
  /\ broken
  /\ \E m \in 0..Len(sent) :
       /\ m # 0 => \A d \in 1..Len(delivered) : delivered[d] < m
       /\ delivered' = Append(delivered, m)
  /\ UNCHANGED <<sent, first, broken>>

Reconnect ==
  /\ first' = Len(sent) + 1 /\ broken' \in BOOLEAN
  /\ UNCHANGED <<sent, delivered>>

Next ==
  \/ \E size \in MessageSizes : Send(size)
  \/ Deliver \/ Break \/ HandOutAnything \/ Reconnect

Spec == Init /\ [][Next]_channel

=============================================================================
