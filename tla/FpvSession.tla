----------------------------- MODULE FpvSession -----------------------------
(***************************************************************************)
(* The Qt client and the server together: FpvService                       *)
(* (client-qt/fpv_service.cpp) over Tcp (client-qt/tcp.cpp), with the      *)
(* buttons of FpvView, on one side, and RpiServer on the other.  The user  *)
(* connects, disconnects, starts and stops the camera and ends the server, *)
(* in any order.  A connection stands in the listen queue of the server    *)
(* until it is accepted, with what the client wrote; one that the client   *)
(* gave up, or that the network cut, stays there or in the slot until the  *)
(* server finds out.                                                       *)
(*                                                                         *)
(* What the server sends back is the subject of QtTcp; other peers,        *)
(* commands cut in two and accepts that fail are that of RpiServer alone.  *)
(*                                                                         *)
(* An operator Op_Mistake, written before Op, is Op with a mistake in it   *)
(* that no action makes; with it a property of this module fails.          *)
(***************************************************************************)
EXTENDS Naturals, Sequences, SequencesExt

CONSTANTS
  MaxBacklog,      \* bound: connections in the listen queue
  MaxUnread        \* bound: commands written and not yet read, see Room

ASSUME FpvAssumption == MaxBacklog \in Nat /\ MaxUnread \in Nat

VARIABLES
  \* of RpiServer
  pc, m_state, m_sock_peer, accept_live, accept_freed, io_stopped, undefined,
  m_capture, keepalive_due, frame_due, script, gpio_ok, video_ok, rx, tail,
  \* of the client
  qsock,          \* QTcpSocket::state()
  tcp_connected,  \* is TcpPrivate::m_state state_connected? It is what
                  \* Tcp::update() last saw.
  fpv_capture,    \* FpvContext::m_capture
  \* between the two
  queue,          \* the connections in the listen queue: what was written on
                  \* each and has not been received
  unread,         \* the same for the connection the server has accepted
  place,          \* where the client's connection is at the server: "queue"
                  \* (then it is the last one), "slot" or "nowhere"
  pending,        \* written before the connection was established
  asked           \* history: was the last set_capturing() of the client
                  \* written to the connection it has now?

QtCommands == {"capture_on", "capture_off", "exit"}

Server == INSTANCE RpiServer
            WITH Commands <- QtCommands, SplitCommands <- FALSE,
                 MaxRx <- MaxUnread, MaxFreed <- 1, backlog <- Len(queue)

server == <<pc, m_state, m_sock_peer, accept_live, accept_freed, io_stopped,
            undefined, m_capture, keepalive_due, frame_due, script, gpio_ok,
            video_ok, rx, tail>>
client == <<qsock, tcp_connected, fpv_capture, pending, asked>>
network == <<queue, unread, place>>

vars == <<server, client, network>>

-----------------------------------------------------------------------------
(* Tcp::send_raw()                                                         *)

\* What was written on the connection and has not reached the server.
Written ==
  CASE place = "queue" -> queue[Len(queue)]
    [] place = "slot"  -> unread
    [] OTHER           -> pending

\* Bound: commands the server has not read, from the connection it has
\* accepted, and from all the others together.
Room ==
  IF place = "slot" THEN Len(unread) + Len(rx) < MaxUnread
                    ELSE Len(FlattenSeq(queue)) + Len(pending) < MaxUnread

Write(c) ==
  CASE place = "queue" -> /\ queue' = [queue EXCEPT ![Len(queue)] = Append(@, c)]
                          /\ UNCHANGED <<unread, pending>>
    [] place = "slot"  -> /\ unread' = Append(unread, c)
                          /\ UNCHANGED <<queue, pending>>
    [] OTHER           -> /\ pending' = IF qsock' = "connecting"
                                          THEN Append(pending, c) ELSE pending
                          /\ UNCHANGED <<queue, unread>>

\* A socket that is connecting keeps the bytes and sends them later; one that
\* is not connected takes none.  The state looked at is the one of the last
\* update().
Takes == tcp_connected /\ qsock' # "unconnected"

send_raw(c) ==
  \/ Takes /\ Room /\ Write(c)
  \/ ~Takes /\ UNCHANGED <<queue, unread, pending>>

-----------------------------------------------------------------------------
(* FpvService                                                              *)

\* The command set_capturing(enabled) sends.
Request_OldValue(enabled) == IF fpv_capture THEN "capture_on" ELSE "capture_off"
Request(enabled) == IF enabled THEN "capture_on" ELSE "capture_off"

set_capturing(enabled) ==
  /\ fpv_capture' = enabled
  /\ send_raw(Request(enabled))
  /\ asked' = Takes

\* The Start Capture and the Stop Capture button.
SetCapturing ==
  /\ UNCHANGED <<qsock, place>>
  /\ set_capturing(~fpv_capture)
  /\ UNCHANGED <<server, tcp_connected>>

remote_exit ==
  /\ UNCHANGED <<qsock, place>>
  /\ send_raw("exit")
  /\ UNCHANGED <<server, tcp_connected, fpv_capture, asked>>

\* connectToHost() does nothing on a socket that is in use, and connect()
\* sends the capture request all the same, at once.
connect ==
  /\ qsock' = IF qsock = "unconnected" THEN "connecting" ELSE qsock
  /\ UNCHANGED place
  /\ set_capturing(fpv_capture)
  /\ UNCHANGED <<server, tcp_connected>>

\* abort() drops what Qt has not yet given to the kernel.
disconnect ==
  /\ qsock' = "unconnected" /\ place' = "nowhere"
  /\ pending' = <<>> /\ asked' = FALSE
  /\ \E n \in 0..Len(Written) :
       /\ queue' = IF place = "queue"
                     THEN [queue EXCEPT ![Len(queue)] = SubSeq(@, 1, n)]
                     ELSE queue
       /\ unread' = IF place = "slot" THEN SubSeq(unread, 1, n) ELSE unread
  /\ UNCHANGED <<server, tcp_connected, fpv_capture>>

\* Tcp::update(): the state of the socket, for the other calls.
update ==
  /\ tcp_connected' = (qsock = "connected")
  /\ UNCHANGED <<server, qsock, fpv_capture, pending, asked, network>>

-----------------------------------------------------------------------------
(* The network                                                             *)

\* The handshake: the connection goes to the end of the listen queue.
Established ==
  /\ qsock = "connecting"
  /\ qsock' = "connected" /\ place' = "queue"
  /\ queue' = Append(queue, pending) /\ pending' = <<>>
  /\ Server!PeerConnects
  /\ UNCHANGED <<tcp_connected, fpv_capture, unread, asked>>

Refused ==
  /\ qsock = "connecting"
  /\ qsock' = "unconnected" /\ pending' = <<>> /\ asked' = FALSE
  /\ UNCHANGED <<server, tcp_connected, fpv_capture, network>>

\* The client learns that its connection is gone.
RemoteClose ==
  /\ qsock = "connected" /\ (place = "nowhere" \/ Server!Halted)
  /\ qsock' = "unconnected" /\ place' = "nowhere" /\ asked' = FALSE
  /\ UNCHANGED <<server, tcp_connected, fpv_capture, pending, queue, unread>>

\* The connection of the client is cut: in the queue, or in the slot.
CutInQueue ==
  /\ place = "queue" /\ place' = "nowhere"
  /\ UNCHANGED <<server, client, queue, unread>>

PeerGone ==
  /\ UNCHANGED <<queue, client>>
  /\ Server!PeerLeaves
  /\ unread' = <<>>
  /\ place' = IF place = "slot" THEN "nowhere" ELSE place

\* A command reaches the server.
Deliver ==
  /\ unread # <<>> /\ unread' = Tail(unread)
  /\ UNCHANGED <<queue, place, client>>
  /\ Server!PeerSends(Head(unread))

ResetArrives == UNCHANGED <<network, client>> /\ Server!ResetArrives

Clock == UNCHANGED <<network, client>> /\ Server!Clock

-----------------------------------------------------------------------------
(* The server                                                              *)

\* It takes the first connection of the queue.
Accept ==
  /\ queue # <<>> /\ queue' = Tail(queue) /\ unread' = Head(queue)
  /\ place' = IF place = "queue" /\ queue' = <<>> THEN "slot" ELSE place
  /\ UNCHANGED client
  /\ Server!handle_accept

\* A step of its loop, after which it may have given its connection up.
LoopStep ==
  /\ UNCHANGED <<queue, client>>
  /\ \/ Server!PollDone \/ Server!ReceiveCommands \/ Server!RunScript
     \/ Server!send_keepalive \/ Server!Video \/ Server!Sleep
     \/ Server!shutdown
  /\ IF m_sock_peer' \in {"unopened", "deleted"}
       THEN /\ unread' = <<>>
            /\ place' = IF place = "slot" THEN "nowhere" ELSE place
       ELSE UNCHANGED <<unread, place>>

Serve == Accept \/ LoopStep

-----------------------------------------------------------------------------
\* The server has a camera; what GPIO startup did makes no difference to this
\* client.
Init ==
  /\ queue = <<>> /\ unread = <<>> /\ place = "nowhere" /\ pending = <<>>
  /\ qsock = "unconnected" /\ tcp_connected = FALSE
  /\ fpv_capture = FALSE /\ asked = FALSE
  /\ Server!Init
  /\ gpio_ok = TRUE /\ video_ok = TRUE

Next ==
  \/ SetCapturing \/ remote_exit \/ connect \/ disconnect \/ update
  \/ Established \/ Refused \/ RemoteClose \/ CutInQueue \/ PeerGone
  \/ Deliver \/ ResetArrives \/ Clock \/ Serve

Spec == Init /\ [][Next]_vars

\* The server runs and time passes for it.  The network delivers what was
\* written, and tells the server of connections that were given up and of what
\* TCP learnt of them.  Nothing is assumed of the user and of the client.
Network == Deliver \/ (PeerGone /\ place # "slot") \/ ResetArrives

FairSpec == Spec /\ WF_vars(Serve) /\ WF_vars(Network) /\ SF_vars(Clock)

-----------------------------------------------------------------------------
\* The values every variable keeps to, the ones of the server included.
TypeOK ==
  /\ Server!TypeOK
  /\ qsock \in {"unconnected", "connecting", "connected"}
  /\ tcp_connected \in BOOLEAN /\ fpv_capture \in BOOLEAN /\ asked \in BOOLEAN
  /\ queue \in Seq(Seq(QtCommands))
  /\ unread \in Seq(QtCommands) /\ pending \in Seq(QtCommands)
  /\ place \in {"queue", "slot", "nowhere"}

\* When all that was written has been executed, the camera does not run
\* against what the user sees on the button, unless send_raw() refused the last
\* request, or it went to an earlier connection: connect() is meant to
\* repeat it, and comes too early (fpv_service.cpp:176).
FilmsOnlyOnRequest ==
  asked /\ place = "slot" /\ ~Server!Halted
    /\ unread = <<>> /\ rx = <<>> /\ script = <<>>
  => (m_capture => fpv_capture)

\* The camera does not run for long against the client: when there is none,
\* whatever the connections it left behind still say, or when its request to
\* stop was written, perhaps to a server that has yet to notice that its last
\* connection is dead.
Unwanted ==
  \/ qsock = "unconnected"
  \/ asked /\ ~fpv_capture /\ place # "nowhere"

CameraStops ==
  (m_capture /\ Unwanted) ~> (~m_capture \/ ~Unwanted \/ pc = "stopped")

\* A client that connects again is served: its own dead connections give way,
\* the one in the slot and those before it in the queue, each of which must be
\* accepted before the server can find out.  Otherwise the client gave this
\* one up too, or the network cut it, or the server was asked to exit.
ReconnectServed ==
  place = "queue" ~> (place \in {"slot", "nowhere"} \/ pc = "stopped")

=============================================================================
