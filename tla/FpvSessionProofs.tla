-------------------------- MODULE FpvSessionProofs --------------------------
(***************************************************************************)
(* Theorems about FpvSession: the server in the session is a RpiServer, so *)
(* what is proved about RpiServer holds in it, for every bound; and it     *)
(* films only what its client asked for.                                   *)
(***************************************************************************)
EXTENDS FpvSession, SequenceTheorems, TLAPS

\* The theorems of RpiServer, with what FpvSession gives to it.
Proofs == INSTANCE RpiServerProofs
            WITH Commands <- QtCommands, SplitCommands <- FALSE,
                 MaxRx <- MaxUnread, MaxFreed <- 1, backlog <- Len(queue)

(***************************************************************************)
(* The client and what is between the two                                  *)
(***************************************************************************)

ClientTypes ==
  /\ qsock \in {"unconnected", "connecting", "connected"}
  /\ tcp_connected \in BOOLEAN /\ fpv_capture \in BOOLEAN /\ asked \in BOOLEAN
  /\ queue \in Seq(Seq(QtCommands))
  /\ unread \in Seq(QtCommands) /\ pending \in Seq(QtCommands)
  /\ place \in {"queue", "slot", "nowhere"}

\* A connection that is in the listen queue is there.
PlaceInv == place = "queue" => queue # <<>>

ClientInv == ClientTypes /\ PlaceInv

\* The variables of the network keep to their types, and the listen queue to
\* its length.
NetworkKeeps ==
  /\ queue' \in Seq(Seq(QtCommands)) /\ Len(queue') = Len(queue)
  /\ unread' \in Seq(QtCommands) /\ pending' \in Seq(QtCommands)

\* What is written on the last connection of the queue changes no other and
\* not their number.
LEMMA LastReplaced ==
  ASSUME ClientInv, place = "queue", NEW w \in Seq(QtCommands),
         queue' = [queue EXCEPT ![Len(queue)] = w]
  PROVE  queue' \in Seq(Seq(QtCommands)) /\ Len(queue') = Len(queue)
<1>1. queue \in Seq(Seq(QtCommands)) /\ queue # <<>>
  BY DEF ClientInv, ClientTypes, PlaceInv
<1>2. Len(queue) \in 1..Len(queue)
  BY <1>1
<1> QED BY <1>1, <1>2, ExceptSeq

LEMMA LastIsSeq ==
  ASSUME ClientInv, place = "queue"
  PROVE  queue[Len(queue)] \in Seq(QtCommands)
<1>1. queue \in Seq(Seq(QtCommands)) /\ queue # <<>>
  BY DEF ClientInv, ClientTypes, PlaceInv
<1>2. Len(queue) \in 1..Len(queue)
  BY <1>1
<1> QED BY <1>1, <1>2, ElementOfSeq

\* The first n elements of a sequence are one.
LEMMA PrefixIsSeq ==
  ASSUME NEW S, NEW s \in Seq(S), NEW n \in 0..Len(s)
  PROVE  SubSeq(s, 1, n) \in Seq(S)
<1>1. \A i \in 1..n : s[i] \in S
  BY ElementOfSeq
<1> QED BY <1>1, SubSeqProperties

LEMMA SendKeeps ==
  ASSUME ClientInv, NEW c \in QtCommands, send_raw(c)
  PROVE  NetworkKeeps
<1>1. CASE UNCHANGED <<queue, unread, pending>>
  BY <1>1 DEF NetworkKeeps, ClientInv, ClientTypes
<1>2. CASE Write(c)
  <2>1. CASE place = "queue"
    <3>1. /\ queue' = [queue EXCEPT ![Len(queue)] = Append(queue[Len(queue)], c)]
          /\ UNCHANGED <<unread, pending>>
      BY <1>2, <2>1 DEF Write
    <3>2. Append(queue[Len(queue)], c) \in Seq(QtCommands)
      BY <2>1, LastIsSeq, AppendProperties
    <3>3. queue' \in Seq(Seq(QtCommands)) /\ Len(queue') = Len(queue)
      BY <2>1, <3>1, <3>2, LastReplaced
    <3> QED BY <3>1, <3>3 DEF NetworkKeeps, ClientInv, ClientTypes
  <2>2. CASE place = "slot"
    <3>1. unread' = Append(unread, c) /\ UNCHANGED <<queue, pending>>
      BY <1>2, <2>2 DEF Write
    <3>2. Append(unread, c) \in Seq(QtCommands)
      BY AppendProperties DEF ClientInv, ClientTypes
    <3> QED BY <3>1, <3>2 DEF NetworkKeeps, ClientInv, ClientTypes
  <2>3. CASE place = "nowhere"
    <3>1. /\ pending' = IF qsock' = "connecting" THEN Append(pending, c) ELSE pending
          /\ UNCHANGED <<queue, unread>>
      BY <1>2, <2>3 DEF Write
    <3>2. Append(pending, c) \in Seq(QtCommands)
      BY AppendProperties DEF ClientInv, ClientTypes
    <3> QED BY <3>1, <3>2 DEF NetworkKeeps, ClientInv, ClientTypes
  <2> QED BY <2>1, <2>2, <2>3 DEF ClientInv, ClientTypes
<1> QED BY <1>1, <1>2 DEF send_raw

LEMMA DisconnectKeeps ==
  ASSUME ClientInv, disconnect
  PROVE  NetworkKeeps
<1>1. PICK n \in 0..Len(Written) :
        /\ queue' = IF place = "queue"
                      THEN [queue EXCEPT ![Len(queue)] = SubSeq(queue[Len(queue)], 1, n)]
                      ELSE queue
        /\ unread' = IF place = "slot" THEN SubSeq(unread, 1, n) ELSE unread
  BY DEF disconnect
<1>2. pending' \in Seq(QtCommands)
  BY DEF disconnect
<1>3. CASE place = "queue"
  <2>1. SubSeq(queue[Len(queue)], 1, n) \in Seq(QtCommands)
    BY <1>3, LastIsSeq, PrefixIsSeq DEF Written
  <2> QED BY <1>1, <1>2, <1>3, <2>1, LastReplaced DEF NetworkKeeps, ClientInv, ClientTypes
<1>4. CASE place # "queue"
  <2>1. unread' \in Seq(QtCommands)
    BY <1>1, <1>4, PrefixIsSeq DEF Written, ClientInv, ClientTypes
  <2> QED BY <1>1, <1>2, <1>4, <2>1 DEF NetworkKeeps, ClientInv, ClientTypes
<1> QED BY <1>3, <1>4

\* A command of set_capturing() is one the server knows.
LEMMA RequestIsCommand ==
  ASSUME NEW enabled
  PROVE  Request(enabled) \in QtCommands
BY DEF Request, QtCommands

LEMMA RefinesInit == Init => Server!Init
<1> SUFFICES ASSUME Init PROVE Server!Init
  OBVIOUS
<1>1. Len(queue) = 0
  BY DEF Init
<1> QED BY <1>1 DEF Init, Server!Init

\* A queue of the same length has a last connection if the old one had.
LEMMA SamePlace ==
  ASSUME ClientInv, NetworkKeeps, place' \in {place, "nowhere"}
  PROVE  PlaceInv' /\ place' \in {"queue", "slot", "nowhere"}
<1>1. queue # <<>> => queue' # <<>>
  BY DEF NetworkKeeps, ClientInv, ClientTypes
<1> QED BY <1>1 DEF PlaceInv, ClientInv, ClientTypes

(***************************************************************************)
(* Every step keeps the types of the client, and is a step of RpiServer or *)
(* changes nothing of it                                                   *)
(***************************************************************************)

LEMMA InitClientInv == Init => ClientInv
<1>1. <<>> \in Seq(Seq(QtCommands)) /\ <<>> \in Seq(QtCommands)
  OBVIOUS
<1> QED BY <1>1 DEF Init, ClientInv, ClientTypes, PlaceInv

\* A step of the others that leaves the length of the queue is none of RpiServer.
LEMMA ServerStutters ==
  ASSUME UNCHANGED server, Len(queue') = Len(queue)
  PROVE  UNCHANGED Server!vars
BY DEF server, Server!vars, Server!session, Server!listener, Server!timers,
       Server!hardware, Server!stream

\* The server sees of a client that writes or gives up only the network.
LEMMA ClientSteps ==
  ASSUME ClientInv,
         SetCapturing \/ remote_exit \/ connect \/ disconnect \/ update
  PROVE  ClientInv' /\ UNCHANGED Server!vars
<1>1. CASE SetCapturing
  <2>1. /\ send_raw(Request(~fpv_capture)) /\ fpv_capture' = ~fpv_capture
        /\ asked' = Takes /\ UNCHANGED <<qsock, place, server, tcp_connected>>
    BY <1>1 DEF SetCapturing, set_capturing
  <2>2. NetworkKeeps
    BY <2>1, RequestIsCommand, SendKeeps
  <2>3. fpv_capture' \in BOOLEAN /\ asked' \in BOOLEAN
    BY <2>1 DEF ClientInv, ClientTypes, Takes
  <2>4. PlaceInv'
    BY <2>1, <2>2, SamePlace
  <2> QED BY <2>1, <2>2, <2>3, <2>4, ServerStutters DEF ClientInv, ClientTypes, NetworkKeeps
<1>2. CASE remote_exit
  <2>1. send_raw("exit") /\ UNCHANGED <<qsock, place, server, tcp_connected, fpv_capture, asked>>
    BY <1>2 DEF remote_exit
  <2>2. NetworkKeeps
    <3>1. "exit" \in QtCommands
      BY DEF QtCommands
    <3> QED BY <2>1, <3>1, SendKeeps
  <2>3. PlaceInv'
    BY <2>1, <2>2, SamePlace
  <2> QED BY <2>1, <2>2, <2>3, ServerStutters DEF ClientInv, ClientTypes, NetworkKeeps
<1>3. CASE connect
  <2>1. /\ send_raw(Request(fpv_capture)) /\ fpv_capture' = fpv_capture
        /\ asked' = Takes /\ UNCHANGED <<place, server, tcp_connected>>
        /\ qsock' = IF qsock = "unconnected" THEN "connecting" ELSE qsock
    BY <1>3 DEF connect, set_capturing
  <2>2. NetworkKeeps
    BY <2>1, RequestIsCommand, SendKeeps
  <2>3. asked' \in BOOLEAN
    BY <2>1 DEF ClientInv, ClientTypes, Takes
  <2>4. PlaceInv'
    BY <2>1, <2>2, SamePlace
  <2> QED BY <2>1, <2>2, <2>3, <2>4, ServerStutters DEF ClientInv, ClientTypes, NetworkKeeps
<1>4. CASE disconnect
  <2>1. NetworkKeeps
    BY <1>4, DisconnectKeeps
  <2>2. /\ qsock' = "unconnected" /\ place' = "nowhere" /\ asked' = FALSE
        /\ UNCHANGED <<server, tcp_connected, fpv_capture>>
    BY <1>4 DEF disconnect
  <2>3. PlaceInv'
    BY <2>1, <2>2, SamePlace
  <2> QED BY <2>1, <2>2, <2>3, ServerStutters DEF ClientInv, ClientTypes, NetworkKeeps
<1>5. CASE update
  <2>1. /\ tcp_connected' = (qsock = "connected")
        /\ UNCHANGED <<server, qsock, fpv_capture, pending, asked, queue, unread, place>>
    BY <1>5 DEF update, network
  <2> QED BY <2>1, ServerStutters DEF ClientInv, ClientTypes, PlaceInv
<1> QED BY <1>1, <1>2, <1>3, <1>4, <1>5

\* Of the connection of the client the server sees that it came, what it
\* delivers and that it is gone.
LEMMA NetworkSteps ==
  ASSUME ClientInv,
         \/ Established \/ Refused \/ RemoteClose \/ CutInQueue
         \/ PeerGone \/ Deliver \/ ResetArrives \/ Clock
  PROVE  ClientInv' /\ [Server!Next]_(Server!vars)
<1> USE DEF ClientInv, ClientTypes, PlaceInv
<1>1. CASE Established
  <2>1. queue' = Append(queue, pending) /\ pending \in Seq(QtCommands)
    BY <1>1 DEF Established
  <2>2. queue' \in Seq(Seq(QtCommands)) /\ queue' # <<>>
    BY <2>1, AppendProperties
  <2>3. ClientInv'
    BY <1>1, <2>2 DEF Established
  <2>4. Server!Next
    BY <1>1 DEF Established, Server!Next, Server!Peers
  <2> QED BY <2>3, <2>4
<1>2. CASE Refused
  <2>1. /\ qsock' = "unconnected" /\ pending' = <<>> /\ asked' = FALSE
        /\ UNCHANGED <<server, tcp_connected, fpv_capture, queue, unread, place>>
    BY <1>2 DEF Refused, network
  <2>2. <<>> \in Seq(QtCommands)
    OBVIOUS
  <2> QED BY <2>1, <2>2, ServerStutters
<1>3. CASE RemoteClose
  BY <1>3, ServerStutters DEF RemoteClose
<1>4. CASE CutInQueue
  BY <1>4, ServerStutters DEF CutInQueue, client
<1>5. CASE PeerGone
  <2>1. ClientInv'
    BY <1>5 DEF PeerGone, client
  <2>2. Server!Next
    BY <1>5 DEF PeerGone, Server!Next, Server!Peers
  <2> QED BY <2>1, <2>2
<1>6. CASE Deliver
  <2>1. Head(unread) \in QtCommands /\ Tail(unread) \in Seq(QtCommands)
    BY <1>6, HeadTailProperties DEF Deliver
  <2>2. ClientInv'
    BY <1>6, <2>1 DEF Deliver, client
  <2>3. Server!Next
    BY <1>6, <2>1 DEF Deliver, Server!Next, Server!Peers
  <2> QED BY <2>2, <2>3
<1>7. CASE ResetArrives
  <2>1. ClientInv'
    BY <1>7 DEF ResetArrives, client, network
  <2>2. Server!Next
    BY <1>7 DEF ResetArrives, Server!Next, Server!Peers
  <2> QED BY <2>1, <2>2
<1>8. CASE Clock
  <2>1. ClientInv'
    BY <1>8 DEF Clock, client, network
  <2>2. Server!Next
    BY <1>8 DEF Clock, Server!Next
  <2> QED BY <2>1, <2>2
<1> QED BY <1>1, <1>2, <1>3, <1>4, <1>5, <1>6, <1>7, <1>8

LEMMA ServerSteps ==
  ASSUME ClientInv, Serve
  PROVE  ClientInv' /\ Server!Next
<1> USE DEF ClientInv, ClientTypes, PlaceInv
<1>1. CASE Accept
  <2>1. Head(queue) \in Seq(QtCommands) /\ Tail(queue) \in Seq(Seq(QtCommands))
    BY <1>1, HeadTailProperties DEF Accept
  <2>2. ClientInv'
    BY <1>1, <2>1 DEF Accept, client
  <2>3. Server!Next
    BY <1>1 DEF Accept, Server!Next, Server!Pass, Server!Poll, Server!Accept
  <2> QED BY <2>2, <2>3
<1>2. CASE LoopStep
  <2>1. <<>> \in Seq(QtCommands)
    OBVIOUS
  <2>2. ClientInv'
    BY <1>2, <2>1 DEF LoopStep, client
  <2>3. Server!Next
    BY <1>2 DEF LoopStep, Server!Next, Server!Pass, Server!Poll
  <2> QED BY <2>2, <2>3
<1> QED BY <1>1, <1>2 DEF Serve

LEMMA NextKeeps == ClientInv /\ [Next]_vars => ClientInv' /\ [Server!Next]_(Server!vars)
<1> SUFFICES ASSUME ClientInv, [Next]_vars
             PROVE  ClientInv' /\ [Server!Next]_(Server!vars)
  OBVIOUS
<1>1. CASE UNCHANGED vars
  <2>1. UNCHANGED <<server, queue>> /\ ClientInv'
    BY <1>1 DEF vars, client, network, ClientInv, ClientTypes, PlaceInv
  <2> QED BY <2>1, ServerStutters
<1>2. CASE Next
  BY <1>2, ClientSteps, NetworkSteps, ServerSteps DEF Next
<1> QED BY <1>1, <1>2

LEMMA ClientCorrect == Spec => []ClientInv
BY InitClientInv, NextKeeps, PTL DEF Spec

\* The server of the session is a RpiServer whose peers send the commands of
\* the Qt client, each of them whole, with the length of the listen queue.
THEOREM SessionImplementsServer == Spec => Server!Spec
<1>1. Init => Server!Init
  BY RefinesInit
<1>2. ClientInv /\ [Next]_vars => [Server!Next]_(Server!vars)
  BY NextKeeps
<1> QED BY <1>1, <1>2, ClientCorrect, PTL DEF Spec, Server!Spec

(***************************************************************************)
(* What RpiServerProofs shows, in the session                              *)
(***************************************************************************)

\* Server and Proofs are two instances of the same definitions.
LEMMA SameServer == Server!Spec => Proofs!Spec
<1> USE DEF Server!Init, Server!Next, Server!Pass, Server!Poll,
           Server!Accept, Server!handle_accept, Server!PollReady,
           Server!AcceptOutstanding, Server!timers, Server!hardware,
           Server!stream, Server!AcceptIntoFreed, Server!handle_error,
           Server!wait_for_connection, Server!store_disconnected,
           Server!reset, Server!Orphaned, Server!NetworkUnchanged,
           Server!session, Server!AcceptError, Server!PollDone,
           Server!ReceiveCommands, Server!ReceiveNothing, Server!listener,
           Server!ReceiveFails, Server!ReceiveScript, Server!Received,
           Server!SyntaxError, Server!Fatal, Server!exit, Server!Command,
           Server!NextCommand, Server!RunScript, Server!set_capturing,
           Server!Harmless, Server!send_gpio_value, Server!send,
           Server!SendFails, Server!Sent, Server!ReferenceError,
           Server!GpioCommands, Server!ScriptDone, Server!send_keepalive,
           Server!KeepaliveIsDue, Server!Video, Server!UpdateVideo,
           Server!is_connected, Server!FrameCaptured, Server!FrameLost,
           Server!Sleep, Server!KeepRunning, Server!shutdown, Server!Peers,
           Server!PeerConnects, Server!Halted, Server!EnvUnchanged,
           Server!PeerSends, Server!PeerCanSend, Server!PeerSendsSplit,
           Server!TailArrives, Server!PeerLeaves, Server!ResetArrives,
           Server!Clock, Server!KeepaliveElapses, Server!Blocked,
           Server!FrameElapses, Server!HaltedStutter, Server!vars
<1> USE DEF Proofs!Init, Proofs!Next, Proofs!Pass, Proofs!Poll,
           Proofs!Accept, Proofs!handle_accept, Proofs!PollReady,
           Proofs!AcceptOutstanding, Proofs!timers, Proofs!hardware,
           Proofs!stream, Proofs!AcceptIntoFreed, Proofs!handle_error,
           Proofs!wait_for_connection, Proofs!store_disconnected,
           Proofs!reset, Proofs!Orphaned, Proofs!NetworkUnchanged,
           Proofs!session, Proofs!AcceptError, Proofs!PollDone,
           Proofs!ReceiveCommands, Proofs!ReceiveNothing, Proofs!listener,
           Proofs!ReceiveFails, Proofs!ReceiveScript, Proofs!Received,
           Proofs!SyntaxError, Proofs!Fatal, Proofs!exit, Proofs!Command,
           Proofs!NextCommand, Proofs!RunScript, Proofs!set_capturing,
           Proofs!Harmless, Proofs!send_gpio_value, Proofs!send,
           Proofs!SendFails, Proofs!Sent, Proofs!ReferenceError,
           Proofs!GpioCommands, Proofs!ScriptDone, Proofs!send_keepalive,
           Proofs!KeepaliveIsDue, Proofs!Video, Proofs!UpdateVideo,
           Proofs!is_connected, Proofs!FrameCaptured, Proofs!FrameLost,
           Proofs!Sleep, Proofs!KeepRunning, Proofs!shutdown, Proofs!Peers,
           Proofs!PeerConnects, Proofs!Halted, Proofs!EnvUnchanged,
           Proofs!PeerSends, Proofs!PeerCanSend, Proofs!PeerSendsSplit,
           Proofs!TailArrives, Proofs!PeerLeaves, Proofs!ResetArrives,
           Proofs!Clock, Proofs!KeepaliveElapses, Proofs!Blocked,
           Proofs!FrameElapses, Proofs!HaltedStutter, Proofs!vars
<1>1. Server!Init => Proofs!Init
  OBVIOUS
<1>2. [Server!Next]_(Server!vars) => [Proofs!Next]_(Proofs!vars)
  OBVIOUS
<1> HIDE DEF Server!Init, Server!Next, Server!vars,
             Proofs!Init, Proofs!Next, Proofs!vars
<1> QED BY <1>1, <1>2, PTL DEF Server!Spec, Proofs!Spec

\* What RpiServer assumes of its constants is so.
LEMMA ServerAssumptions ==
  Proofs!CommandsAssumption /\ Proofs!SplitAssumption /\ Proofs!BoundsAssumption
BY FpvAssumption DEF QtCommands, Proofs!CommandsAssumption, Proofs!CommandNames,
     Proofs!SplitAssumption, Proofs!BoundsAssumption

\* Every variable of the client, the network and the server keeps to its type
\* (TypeOK).
THEOREM TypeCorrect == Spec => []TypeOK
<1>1. Proofs!Spec => []Proofs!TypeOK
  BY ServerAssumptions, Proofs!TypeCorrect
<1>2. Proofs!TypeOK /\ ClientInv => TypeOK
  BY DEF Proofs!TypeOK, Server!TypeOK, Proofs!PeerStates, Server!PeerStates,
         Proofs!Pieces, Server!Pieces, TypeOK, ClientInv, ClientTypes
<1> QED BY <1>1, <1>2, SessionImplementsServer, SameServer, ClientCorrect, PTL

\* Whatever the client and the network do, the server deletes no socket under
\* an accept: the Qt client never reads the gpio pins.
THEOREM NoDanglingInSession == Spec => []Server!NoDanglingAccept
<1>1. Proofs!Spec => []Proofs!NoDanglingAccept
  <2>1. "gpio_get" \notin QtCommands
    BY DEF QtCommands
  <2> QED BY <2>1, ServerAssumptions, Proofs!NoDanglingWithoutReads
<1>2. Proofs!NoDanglingAccept => Server!NoDanglingAccept
  BY DEF Proofs!NoDanglingAccept, Server!NoDanglingAccept
<1> QED BY <1>1, <1>2, SessionImplementsServer, SameServer, PTL

(***************************************************************************)
(* The camera runs for the client.  What counts is the last capture        *)
(* command of all that the client wrote on its connection, in the order in *)
(* which it will be executed: the rest of the script, what the server has  *)
(* received, what it has not.  It says what the button shows, or nothing   *)
(* of it is a capture command and the camera itself agrees (Agreed).       *)
(***************************************************************************)

Captures == {"capture_on", "capture_off"}

\* c is the last capture command of s; there is none in s.
Says(s, c) ==
  \E i \in 1..Len(s) : s[i] = c /\ \A j \in 1..Len(s) : j > i => s[j] \notin Captures

Silent(s) == \A i \in 1..Len(s) : s[i] \notin Captures

\* The request set_capturing() writes for what the button shows.
Requested == Request(fpv_capture)

ScriptAgrees ==
  Says(script, Requested) \/ (Silent(script) /\ (m_capture => fpv_capture))

ReceivedAgrees == Says(rx, Requested) \/ (Silent(rx) /\ ScriptAgrees)

Agreed == Says(unread, Requested) \/ (Silent(unread) /\ ReceivedAgrees)

\* A script is run to its end before the loop goes on.
ScriptInv == pc # "script" => script = <<>>

\* The connection in the slot is one the client still has, and a client
\* without a connection has none anywhere.
PlacesInv ==
  /\ place = "slot" => m_sock_peer = "alive"
  /\ qsock # "connected" => place = "nowhere"

AskedInv ==
  asked =>
    /\ place = "queue" => Says(queue[Len(queue)], Requested)
    /\ qsock = "connecting" => Says(pending, Requested)
    /\ place = "slot" /\ ~Server!Halted => Agreed

FilmInv == ScriptInv /\ PlacesInv /\ AskedInv

-----------------------------------------------------------------------------
(* The last capture command of a sequence                                  *)

LEMMA EmptyIsSilent ==
  ASSUME NEW c
  PROVE  Silent(<<>>) /\ ~Says(<<>>, c)
<1>1. \A i \in 1..Len(<<>>) : FALSE
  OBVIOUS
<1> QED BY <1>1 DEF Silent, Says

LEMMA SaidLast ==
  ASSUME NEW S, NEW s \in Seq(S), NEW c \in S
  PROVE  Says(Append(s, c), c)
<1> DEFINE t == Append(s, c)
           l == Len(s)
<1>1. l \in Nat /\ Len(t) = l + 1 /\ t[l + 1] = c
  BY AppendProperties
<1> HIDE DEF t, l
<1>2. l + 1 \in 1..Len(t) /\ \A j \in 1..Len(t) : ~(j > l + 1)
  BY <1>1
<1> QED BY <1>1, <1>2 DEF Says, t

\* A command that is no capture command changes nothing of it.
LEMMA OtherAppended ==
  ASSUME NEW S, NEW s \in Seq(S), NEW e \in S, e \notin Captures, NEW c
  PROVE  /\ Says(s, c) => Says(Append(s, e), c)
         /\ Silent(s) => Silent(Append(s, e))
<1> DEFINE t == Append(s, e)
           l == Len(s)
<1>1. /\ l \in Nat /\ Len(t) = l + 1 /\ t[l + 1] = e
      /\ \A i \in 1..l : t[i] = s[i]
  BY AppendProperties
<1>2. l = Len(s)
  OBVIOUS
<1> HIDE DEF t, l
<1>3. \A i \in 1..l : i \in 1..Len(t)
  BY <1>1
<1>4. \A i \in 1..Len(t) : i \in 1..l \/ i = l + 1
  BY <1>1
<1>5. ASSUME Says(s, c) PROVE Says(t, c)
  <2>1. PICK i \in 1..l : s[i] = c /\ \A j \in 1..l : j > i => s[j] \notin Captures
    BY <1>2, <1>5 DEF Says
  <2>2. \A j \in 1..Len(t) : j > i => t[j] \notin Captures
    BY <1>1, <1>4, <2>1
  <2> QED BY <1>1, <1>3, <2>1, <2>2 DEF Says
<1>6. ASSUME Silent(s) PROVE Silent(t)
  BY <1>1, <1>2, <1>4, <1>6 DEF Silent
<1> QED BY <1>5, <1>6 DEF t

\* What is left when the first command is taken.
LEMMA FirstTaken ==
  ASSUME NEW S, NEW s \in Seq(S), s # <<>>, NEW c
  PROVE  /\ Says(s, c) => \/ Says(Tail(s), c)
                          \/ Silent(Tail(s)) /\ Head(s) = c
         /\ Silent(s) => Silent(Tail(s)) /\ Head(s) \notin Captures
<1> DEFINE t == Tail(s)
           l == Len(t)
<1>1. /\ Len(s) \in Nat /\ Len(s) # 0 /\ Len(t) = Len(s) - 1 /\ Head(s) = s[1]
      /\ t \in Seq(S) /\ \A i \in 1..Len(t) : t[i] = s[i + 1]
  <2>1. Len(s) \in Nat /\ Len(s) # 0
    BY EmptySeq, LenProperties
  <2> QED BY <2>1, HeadTailProperties
<1>2. l = Len(t)
  OBVIOUS
<1> HIDE DEF t, l
<1>3. /\ l \in Nat /\ Len(s) = l + 1 /\ Head(s) = s[1]
      /\ \A i \in 1..l : t[i] = s[i + 1] /\ i + 1 \in 1..Len(s)
  BY <1>1, <1>2
<1>4. ASSUME Says(s, c) PROVE Says(t, c) \/ (Silent(t) /\ Head(s) = c)
  <2>1. PICK i \in 1..Len(s) :
          s[i] = c /\ \A j \in 1..Len(s) : j > i => s[j] \notin Captures
    BY <1>4 DEF Says
  <2>2. CASE i = 1
    <3>1. \A j \in 1..l : j + 1 > 1
      BY <1>3
    <3>2. \A j \in 1..l : t[j] \notin Captures
      BY <1>3, <2>1, <2>2, <3>1
    <3> QED BY <1>2, <1>3, <2>1, <2>2, <3>2 DEF Silent
  <2>3. CASE i # 1
    <3>1. PICK k \in 1..l : k + 1 = i
      <4>1. i - 1 \in 1..l /\ (i - 1) + 1 = i
        BY <1>3, <2>3
      <4> QED BY <4>1
    <3>2. \A j \in 1..l : j > k => j + 1 > i
      BY <1>3, <3>1
    <3>3. \A j \in 1..l : j > k => t[j] \notin Captures
      BY <1>3, <2>1, <3>2
    <3>4. t[k] = c
      BY <1>3, <2>1, <3>1
    <3> QED BY <1>2, <3>3, <3>4 DEF Says
  <2> QED BY <2>2, <2>3
<1>5. ASSUME Silent(s) PROVE Silent(t) /\ Head(s) \notin Captures
  <2>1. 1 \in 1..Len(s)
    BY <1>3
  <2> QED BY <1>2, <1>3, <1>5, <2>1 DEF Silent
<1> QED BY <1>4, <1>5 DEF t

\* A command that is taken from the front of s and appended to r.
LEMMA FirstMoved ==
  ASSUME NEW S, NEW s \in Seq(S), s # <<>>, NEW T, NEW r \in Seq(T), S \subseteq T,
         NEW c
  PROVE  /\ Says(s, c) => \/ Says(Tail(s), c)
                          \/ Silent(Tail(s)) /\ Says(Append(r, Head(s)), c)
         /\ Silent(s) /\ Says(r, c) => Silent(Tail(s)) /\ Says(Append(r, Head(s)), c)
         /\ Silent(s) /\ Silent(r) => Silent(Tail(s)) /\ Silent(Append(r, Head(s)))
<1>1. Head(s) \in T
  BY HeadTailProperties
<1>2. /\ Says(s, c) => Says(Tail(s), c) \/ (Silent(Tail(s)) /\ Head(s) = c)
      /\ Silent(s) => Silent(Tail(s)) /\ Head(s) \notin Captures
  BY FirstTaken
<1>3. Head(s) = c => Says(Append(r, Head(s)), c)
  BY <1>1, SaidLast
<1>4. Head(s) \notin Captures
        => /\ Says(r, c) => Says(Append(r, Head(s)), c)
           /\ Silent(r) => Silent(Append(r, Head(s)))
  BY <1>1, OtherAppended
<1> QED BY <1>2, <1>3, <1>4

-----------------------------------------------------------------------------
(* The steps of the server                                                 *)

\* A script is taken command by command.
ScriptStep ==
  /\ UNCHANGED rx /\ pc = "script" /\ script # <<>> /\ script' = Tail(script)
  /\ \/ Head(script) \notin Captures /\ UNCHANGED m_capture
     \/ Head(script) = "capture_on" /\ m_capture' = TRUE
     \/ Head(script) = "capture_off" /\ m_capture' = FALSE

\* Of a step of the loop that keeps the connection: what it does to the
\* commands and to the camera.
LEMMA LoopEffect ==
  ASSUME LoopStep, m_sock_peer = "alive", m_sock_peer' \notin {"unopened", "deleted"}
  PROVE  /\ m_sock_peer' = "alive"
         /\ \/ UNCHANGED <<script, rx>> /\ m_capture' \in {m_capture, FALSE}
            \/ ScriptStep
            \/ pc = "receive" /\ script' = rx /\ rx' = <<>> /\ UNCHANGED m_capture
            \/ Server!Halted'
<1> USE DEF Server!session, Server!listener, Server!timers, Server!hardware,
            Server!stream, Server!handle_error, Server!wait_for_connection
<1>1. CASE Server!PollDone \/ Server!ReceiveNothing \/ Server!ScriptDone \/ Server!Sleep
  BY <1>1 DEF Server!PollDone, Server!ReceiveNothing, Server!ScriptDone, Server!Sleep
<1>2. CASE Server!ReceiveFails
  BY <1>2 DEF Server!ReceiveFails
<1>3. CASE Server!ReceiveScript
  BY <1>3 DEF Server!ReceiveScript, Server!Received
<1>4. CASE Server!SyntaxError \/ Server!ReferenceError
  BY <1>4 DEF Server!SyntaxError, Server!ReferenceError, Server!Fatal, Server!Halted
<1>5. CASE Server!set_capturing
  BY <1>5 DEF Server!set_capturing, Server!Command, Server!NextCommand, ScriptStep
<1>6. CASE Server!exit
  BY <1>6 DEF Server!exit, Server!Command, Server!NextCommand, ScriptStep, Captures
<1>7. CASE Server!Harmless
  BY <1>7 DEF Server!Harmless, Server!Command, Server!NextCommand, ScriptStep, Captures
<1>8. CASE Server!send_gpio_value
  BY <1>8 DEF Server!send_gpio_value, Server!send, Server!Sent, Server!Command,
              Server!NextCommand, ScriptStep, Captures
<1>9. CASE Server!send_keepalive
  BY <1>9 DEF Server!send_keepalive, Server!Sent, Server!NetworkUnchanged
<1>10. CASE Server!UpdateVideo
  BY <1>10 DEF Server!UpdateVideo
<1>11. CASE Server!FrameCaptured \/ Server!FrameLost
  BY <1>11 DEF Server!FrameCaptured, Server!FrameLost, Server!send, Server!Sent
<1>12. CASE Server!shutdown
  BY <1>12 DEF Server!shutdown
<1> QED BY <1>1, <1>2, <1>3, <1>4, <1>5, <1>6, <1>7, <1>8, <1>9, <1>10, <1>11, <1>12
        DEF LoopStep, Server!ReceiveCommands, Server!RunScript, Server!Video

\* A server that halted does not go on.
LEMMA HaltedStays ==
  ASSUME [Next]_vars, Server!Halted
  PROVE  Server!Halted'
<1> USE DEF Server!session, Server!listener, Server!timers, Server!hardware,
            Server!stream, Server!Halted
<1>1. CASE LoopStep
  BY <1>1 DEF LoopStep, Server!PollDone, Server!ReceiveCommands, Server!ReceiveNothing,
       Server!ReceiveFails, Server!ReceiveScript, Server!SyntaxError, Server!RunScript,
       Server!set_capturing, Server!exit, Server!Harmless, Server!send_gpio_value,
       Server!ReferenceError, Server!ScriptDone, Server!Command, Server!send_keepalive,
       Server!Video, Server!UpdateVideo, Server!FrameCaptured, Server!FrameLost,
       Server!Sleep, Server!shutdown, Server!Fatal
<1>2. CASE Accept \/ Clock
  BY <1>2 DEF Accept, Server!handle_accept, Clock, Server!Clock,
       Server!KeepaliveElapses, Server!FrameElapses, Server!Blocked
<1>3. CASE Established \/ PeerGone \/ Deliver \/ ResetArrives
  BY <1>3 DEF Established, PeerGone, Deliver, ResetArrives, Server!PeerConnects,
       Server!PeerLeaves, Server!PeerSends, Server!PeerCanSend, Server!ResetArrives
<1>4. CASE \/ SetCapturing \/ remote_exit \/ connect \/ disconnect \/ update
           \/ Refused \/ RemoteClose \/ CutInQueue \/ UNCHANGED vars
  BY <1>4 DEF SetCapturing, remote_exit, connect, disconnect, update, Refused,
       RemoteClose, CutInQueue, vars, server
<1> QED BY <1>1, <1>2, <1>3, <1>4 DEF Next, Serve

LEMMA ScriptKept ==
  ASSUME ScriptInv, [Next]_vars
  PROVE  ScriptInv'
<1> USE DEF Server!session, Server!listener, Server!timers, Server!hardware,
            Server!stream, ScriptInv
<1>1. CASE LoopStep
  <2>1. CASE Server!PollDone \/ Server!send_keepalive \/ Server!Video \/ Server!Sleep
             \/ Server!shutdown
    BY <2>1 DEF Server!PollDone, Server!send_keepalive, Server!Video, Server!UpdateVideo,
         Server!FrameCaptured, Server!FrameLost, Server!Sleep, Server!shutdown,
         Server!NetworkUnchanged, Server!send, Server!Sent
  <2>2. CASE Server!ReceiveCommands
    BY <2>2 DEF Server!ReceiveCommands, Server!ReceiveNothing, Server!ReceiveFails,
         Server!ReceiveScript, Server!SyntaxError, Server!Fatal
  <2>3. CASE Server!RunScript
    BY <2>3 DEF Server!RunScript, Server!set_capturing, Server!exit, Server!Harmless,
         Server!send_gpio_value, Server!ReferenceError, Server!ScriptDone,
         Server!Command, Server!NextCommand, Server!Fatal
  <2> QED BY <1>1, <2>1, <2>2, <2>3 DEF LoopStep
<1>2. CASE Accept \/ Clock
  BY <1>2 DEF Accept, Server!handle_accept, Clock, Server!Clock,
       Server!KeepaliveElapses, Server!FrameElapses, Server!EnvUnchanged
<1>3. CASE Established \/ PeerGone \/ Deliver \/ ResetArrives
  BY <1>3 DEF Established, PeerGone, Deliver, ResetArrives, Server!PeerConnects,
       Server!PeerLeaves, Server!PeerSends, Server!ResetArrives, Server!EnvUnchanged
<1>4. CASE \/ SetCapturing \/ remote_exit \/ connect \/ disconnect \/ update
           \/ Refused \/ RemoteClose \/ CutInQueue \/ UNCHANGED vars
  BY <1>4 DEF SetCapturing, remote_exit, connect, disconnect, update, Refused,
       RemoteClose, CutInQueue, vars, server
<1> QED BY <1>1, <1>2, <1>3, <1>4 DEF Next, Serve

LEMMA PlacesKept ==
  ASSUME PlacesInv, [Next]_vars
  PROVE  PlacesInv'
<1> USE DEF PlacesInv
<1>1. CASE LoopStep
  <2>1. CASE place' = "slot"
    <3>1. place = "slot" /\ m_sock_peer' \notin {"unopened", "deleted"} /\ qsock' = qsock
      BY <1>1, <2>1 DEF LoopStep, client
    <3>2. m_sock_peer' = "alive"
      BY <1>1, <3>1, LoopEffect
    <3> QED BY <2>1, <3>1, <3>2
  <2>2. CASE place' # "slot"
    <3>1. place' \in {place, "nowhere"} /\ qsock' = qsock
      BY <1>1 DEF LoopStep, client
    <3> QED BY <2>2, <3>1
  <2> QED BY <2>1, <2>2
<1>2. CASE Accept
  BY <1>2 DEF Accept, Server!handle_accept, client
<1>3. CASE Established
  BY <1>3 DEF Established, Server!PeerConnects
<1>4. CASE PeerGone
  BY <1>4 DEF PeerGone, client
<1>5. CASE Deliver \/ ResetArrives \/ Clock
  BY <1>5 DEF Deliver, ResetArrives, Clock, client, network, Server!PeerSends,
       Server!ResetArrives, Server!Clock, Server!KeepaliveElapses, Server!FrameElapses
<1>6. CASE SetCapturing \/ remote_exit \/ connect \/ disconnect \/ update
  BY <1>6 DEF SetCapturing, remote_exit, connect, disconnect, update, network, server
<1>7. CASE Refused \/ RemoteClose \/ CutInQueue \/ UNCHANGED vars
  BY <1>7 DEF Refused, RemoteClose, CutInQueue, vars, server, network, client
<1> QED BY <1>1, <1>2, <1>3, <1>4, <1>5, <1>6, <1>7 DEF Next, Serve

-----------------------------------------------------------------------------
(* AskedInv                                                                *)

\* The last connection of the queue, when something is appended to it.
LEMMA LastAppended ==
  ASSUME ClientInv, place = "queue", NEW c \in QtCommands,
         queue' = [queue EXCEPT ![Len(queue)] = Append(queue[Len(queue)], c)]
  PROVE  /\ queue'[Len(queue')] = Append(queue[Len(queue)], c)
         /\ queue[Len(queue)] \in Seq(QtCommands)
<1>1. queue \in Seq(Seq(QtCommands)) /\ queue # <<>>
  BY DEF ClientInv, ClientTypes, PlaceInv
<1>2. Len(queue) \in 1..Len(queue)
  BY <1>1
<1>3. queue[Len(queue)] \in Seq(QtCommands)
  BY LastIsSeq
<1> DEFINE w == Append(queue[Len(queue)], c)
<1>4. w \in Seq(QtCommands)
  BY <1>3, AppendProperties
<1> HIDE DEF w
<1>5. queue' = [queue EXCEPT ![Len(queue)] = w]
  BY DEF w
<1>6. Len(queue') = Len(queue) /\ queue'[Len(queue)] = w
  BY <1>1, <1>2, <1>4, <1>5, ExceptSeq
<1> QED BY <1>3, <1>6 DEF w

\* set_capturing() says what the button shows from then on.
LEMMA AskedWrites ==
  ASSUME ClientInv, PlacesInv, NEW enabled, set_capturing(enabled),
         UNCHANGED <<server, place>>,
         qsock' = qsock \/ (qsock = "unconnected" /\ qsock' = "connecting")
  PROVE  AskedInv'
<1> DEFINE c == Requested'
<1>1. c = Request(enabled) /\ c \in QtCommands /\ send_raw(c) /\ asked' = Takes
  BY RequestIsCommand DEF set_capturing, Requested, Request
<1> HIDE DEF c
<1> SUFFICES ASSUME asked'
             PROVE  /\ place = "queue" => Says(queue'[Len(queue')], c)
                    /\ qsock' = "connecting" => Says(pending', c)
                    /\ place = "slot" => Says(unread', c)
  BY DEF AskedInv, Agreed, c
<1>2. Write(c)
  BY <1>1 DEF send_raw
<1>3. unread \in Seq(QtCommands) /\ pending \in Seq(QtCommands)
  BY DEF ClientInv, ClientTypes
<1>4. CASE place = "queue"
  <2>1. queue' = [queue EXCEPT ![Len(queue)] = Append(queue[Len(queue)], c)]
    BY <1>2, <1>4 DEF Write
  <2>2. Says(queue'[Len(queue')], c)
    BY <1>1, <1>4, <2>1, LastAppended, SaidLast
  <2>3. qsock' = "connected"
    BY <1>4 DEF PlacesInv
  <2> QED BY <1>4, <2>2, <2>3
<1>5. CASE place = "slot"
  <2>1. unread' = Append(unread, c)
    BY <1>2, <1>5 DEF Write
  <2>2. Says(unread', c)
    BY <1>1, <1>3, <2>1, SaidLast
  <2>3. qsock' = "connected"
    BY <1>5 DEF PlacesInv
  <2> QED BY <1>5, <2>2, <2>3
<1>6. CASE place = "nowhere"
  <2>1. pending' = IF qsock' = "connecting" THEN Append(pending, c) ELSE pending
    BY <1>2, <1>6 DEF Write
  <2>2. Says(Append(pending, c), c)
    BY <1>1, <1>3, SaidLast
  <2> QED BY <1>6, <2>1, <2>2
<1> QED BY <1>4, <1>5, <1>6 DEF ClientInv, ClientTypes

\* An exit request says nothing about the camera.
LEMMA AskedExits ==
  ASSUME ClientInv, PlacesInv, AskedInv, remote_exit
  PROVE  AskedInv'
<1>1. /\ UNCHANGED <<server, qsock, place, asked, fpv_capture>> /\ send_raw("exit")
      /\ Requested' = Requested
  BY DEF remote_exit, Requested
<1>2. CASE UNCHANGED <<queue, unread, pending>>
  BY <1>1, <1>2 DEF AskedInv, Agreed, ReceivedAgrees, ScriptAgrees, server, Server!Halted
<1>3. CASE Write("exit")
  <2> DEFINE c == "exit"
  <2>1. c \in QtCommands /\ c \notin Captures
    BY DEF QtCommands, Captures
  <2>2. unread \in Seq(QtCommands) /\ pending \in Seq(QtCommands)
    BY DEF ClientInv, ClientTypes
  <2>3. CASE place = "queue"
    <3>1. queue' = [queue EXCEPT ![Len(queue)] = Append(queue[Len(queue)], c)]
      BY <1>3, <2>3 DEF Write
    <3> HIDE DEF c
    <3>2. Says(queue[Len(queue)], Requested) => Says(queue'[Len(queue')], Requested)
      BY <2>1, <2>3, <3>1, LastAppended, OtherAppended
    <3> QED BY <1>1, <2>3, <3>2 DEF AskedInv, PlacesInv
  <2>4. CASE place = "slot"
    <3>1. unread' = Append(unread, c)
      BY <1>3, <2>4 DEF Write
    <3> HIDE DEF c
    <3>2. /\ Says(unread, Requested) => Says(unread', Requested)
          /\ Silent(unread) => Silent(unread')
      BY <2>1, <2>2, <3>1, OtherAppended
    <3>3. Agreed => Agreed'
      BY <1>1, <3>2 DEF Agreed, ReceivedAgrees, ScriptAgrees, server
    <3> QED BY <1>1, <2>4, <3>3 DEF AskedInv, PlacesInv, server, Server!Halted
  <2>5. CASE place = "nowhere"
    <3>1. pending' = IF qsock' = "connecting" THEN Append(pending, c) ELSE pending
      BY <1>3, <2>5 DEF Write
    <3> HIDE DEF c
    <3>2. Says(pending, Requested) => Says(Append(pending, c), Requested)
      BY <2>1, <2>2, OtherAppended
    <3> QED BY <1>1, <2>5, <3>1, <3>2 DEF AskedInv
  <2> QED BY <2>3, <2>4, <2>5 DEF ClientInv, ClientTypes
<1> QED BY <1>1, <1>2, <1>3 DEF send_raw

LEMMA CommandsArePieces == QtCommands \subseteq Server!Pieces
BY DEF Server!Pieces

\* A command reaches the server: the next one in order.
LEMMA AgreedDelivers ==
  ASSUME ClientInv, Server!TypeOK, Deliver, Agreed
  PROVE  Agreed'
<1>1. /\ unread \in Seq(QtCommands) /\ unread # <<>> /\ unread' = Tail(unread)
      /\ rx \in Seq(Server!Pieces) /\ rx' = Append(rx, Head(unread))
      /\ UNCHANGED <<script, m_capture, fpv_capture>>
  BY DEF Deliver, client, Server!PeerSends, Server!EnvUnchanged, ClientInv, ClientTypes,
         Server!TypeOK
<1> DEFINE c == Requested
<1>2. Requested' = c /\ ScriptAgrees' = ScriptAgrees
  BY <1>1 DEF Requested, ScriptAgrees
<1> HIDE DEF c
<1>3. /\ Says(unread, c) => Says(unread', c) \/ (Silent(unread') /\ Says(rx', c))
      /\ Silent(unread) /\ Says(rx, c) => Silent(unread') /\ Says(rx', c)
      /\ Silent(unread) /\ Silent(rx) => Silent(unread') /\ Silent(rx')
  BY <1>1, CommandsArePieces, FirstMoved
<1>4. \/ Says(unread, c)
      \/ Silent(unread) /\ (Says(rx, c) \/ (Silent(rx) /\ ScriptAgrees))
  BY DEF Agreed, ReceivedAgrees, c
<1> QED BY <1>2, <1>3, <1>4 DEF Agreed, ReceivedAgrees

\* The loop runs a command, or takes up what it received for a script.
LEMMA AgreedRuns ==
  ASSUME Server!TypeOK, ScriptInv, PlacesInv, LoopStep, place' = "slot",
         ~Server!Halted', Agreed
  PROVE  Agreed'
<1>1. /\ place = "slot" /\ m_sock_peer = "alive" /\ unread' = unread
      /\ m_sock_peer' \notin {"unopened", "deleted"} /\ UNCHANGED fpv_capture
  BY DEF LoopStep, client, PlacesInv
<1> DEFINE c == Requested
<1>2. Requested' = c /\ c = Request(fpv_capture)
  BY <1>1 DEF Requested
<1> HIDE DEF c
<1> SUFFICES ASSUME ReceivedAgrees PROVE ReceivedAgrees'
  BY <1>1, <1>2 DEF Agreed, c
<1>3. rx \in Seq(Server!Pieces) /\ script \in Seq(Server!Pieces)
  BY DEF Server!TypeOK
<1>4. CASE UNCHANGED <<script, rx>> /\ m_capture' \in {m_capture, FALSE}
  BY <1>1, <1>2, <1>4 DEF ReceivedAgrees, ScriptAgrees, c
<1>5. CASE ScriptStep
  <2>1. /\ UNCHANGED rx /\ script' = Tail(script)
        /\ Says(script, c) => Says(script', c) \/ (Silent(script') /\ Head(script) = c)
        /\ Silent(script) => Silent(script') /\ Head(script) \notin Captures
    BY <1>3, <1>5, FirstTaken DEF ScriptStep
  <2>2. Head(script) = c => (m_capture' => fpv_capture)
    BY <1>2, <1>5 DEF ScriptStep, Request, Captures
  <2>3. Head(script) \notin Captures => m_capture' = m_capture
    BY <1>5 DEF ScriptStep, Captures
  <2>4. (Says(script, c) \/ (Silent(script) /\ (m_capture => fpv_capture)))
          => (Says(script', c) \/ (Silent(script') /\ (m_capture' => fpv_capture')))
    BY <1>1, <2>1, <2>2, <2>3
  <2> QED BY <1>2, <2>1, <2>4 DEF ReceivedAgrees, ScriptAgrees, c
<1>6. CASE pc = "receive" /\ script' = rx /\ rx' = <<>> /\ UNCHANGED m_capture
  <2>1. script = <<>>
    BY <1>6 DEF ScriptInv
  <2>2. Silent(<<>>) /\ ~Says(<<>>, c)
    BY EmptyIsSilent
  <2> QED BY <1>1, <1>2, <1>6, <2>1, <2>2 DEF ReceivedAgrees, ScriptAgrees, c
<1> QED BY <1>1, <1>4, <1>5, <1>6, LoopEffect

\* A connection that is accepted is the first of the queue; that of the client
\* is the last.
LEMMA AskedAccepts ==
  ASSUME ClientInv, PlacesInv, AskedInv, Accept
  PROVE  AskedInv'
<1>1. /\ queue \in Seq(Seq(QtCommands)) /\ queue # <<>>
      /\ queue' = Tail(queue) /\ unread' = Head(queue)
      /\ UNCHANGED <<qsock, asked, pending, fpv_capture>>
      /\ place' = IF place = "queue" /\ queue' = <<>> THEN "slot" ELSE place
      /\ Requested' = Requested /\ place # "slot"
  BY DEF Accept, client, ClientInv, ClientTypes, Requested, PlacesInv, Server!handle_accept
<1>2. /\ Len(queue) \in Nat \ {0} /\ Len(queue') = Len(queue) - 1
      /\ Head(queue) = queue[1]
      /\ queue' \in Seq(Seq(QtCommands))
      /\ \A i \in 1..Len(queue') : queue'[i] = queue[i + 1]
  <2>1. Len(queue) \in Nat /\ Len(queue) # 0
    BY <1>1, EmptySeq, LenProperties
  <2> QED BY <1>1, <2>1, HeadTailProperties
<1>3. CASE place = "queue" /\ queue' = <<>>
  <2>1. Len(queue') = 0
    BY <1>3
  <2>2. Len(queue) = 1
    BY <1>2, <2>1
  <2>3. unread' = queue[Len(queue)]
    BY <1>1, <1>2, <2>2
  <2>4. qsock = "connected"
    BY <1>3 DEF PlacesInv
  <2> QED BY <1>1, <1>3, <2>3, <2>4 DEF AskedInv, Agreed
<1>4. CASE place = "queue" /\ queue' # <<>>
  <2>1. Len(queue') # 0
    BY <1>2, <1>4, EmptySeq
  <2>2. Len(queue') \in 1..Len(queue') /\ Len(queue') + 1 = Len(queue)
    BY <1>2, <2>1
  <2>3. queue'[Len(queue')] = queue[Len(queue)]
    BY <1>2, <2>2
  <2> QED BY <1>1, <1>4, <2>3 DEF AskedInv
<1>5. CASE place = "nowhere"
  BY <1>1, <1>5 DEF AskedInv
<1> QED BY <1>1, <1>3, <1>4, <1>5 DEF ClientInv, ClientTypes

LEMMA AskedKept ==
  ASSUME ClientInv, Server!TypeOK, FilmInv, [Next]_vars
  PROVE  AskedInv'
<1>1. ScriptInv /\ PlacesInv /\ AskedInv
  BY DEF FilmInv
<1>2. CASE SetCapturing
  BY <1>1, <1>2, AskedWrites DEF SetCapturing
<1>3. CASE connect
  BY <1>1, <1>3, AskedWrites DEF connect
<1>4. CASE remote_exit
  BY <1>1, <1>4, AskedExits
<1>5. CASE disconnect \/ Refused \/ RemoteClose
  BY <1>5 DEF disconnect, Refused, RemoteClose, AskedInv
<1>6. CASE update \/ CutInQueue \/ UNCHANGED vars
  <2>1. /\ UNCHANGED <<server, qsock, asked, fpv_capture, pending, queue, unread>>
        /\ place' \in {place, "nowhere"}
    BY <1>6 DEF update, CutInQueue, vars, network, client
  <2> QED BY <1>1, <2>1 DEF AskedInv, Agreed, ReceivedAgrees, ScriptAgrees, Requested,
                            server, Server!Halted
<1>7. CASE Established
  <2>1. /\ queue \in Seq(Seq(QtCommands)) /\ pending \in Seq(QtCommands)
        /\ queue' = Append(queue, pending) /\ qsock = "connecting"
        /\ qsock' = "connected" /\ place' = "queue" /\ Requested' = Requested
        /\ asked' = asked
    BY <1>7 DEF Established, ClientInv, ClientTypes, Requested
  <2>2. queue'[Len(queue')] = pending
    BY <2>1, AppendProperties
  <2> QED BY <1>1, <2>1, <2>2 DEF AskedInv
<1>8. CASE PeerGone
  <2>1. /\ UNCHANGED <<qsock, asked, fpv_capture, pending, queue>>
        /\ place' # "slot" /\ (place' = place \/ place' = "nowhere")
    BY <1>8 DEF PeerGone, client
  <2> QED BY <1>1, <2>1 DEF AskedInv, Requested
<1>9. CASE Deliver
  <2>1. UNCHANGED <<qsock, asked, fpv_capture, pending, queue, place, pc>>
    BY <1>9 DEF Deliver, client, Server!PeerSends, Server!EnvUnchanged
  <2> QED BY <1>1, <1>9, <2>1, AgreedDelivers DEF AskedInv, Requested, Server!Halted
<1>10. CASE ResetArrives \/ Clock
  <2>1. /\ UNCHANGED <<qsock, asked, fpv_capture, pending, queue, unread, place>>
        /\ UNCHANGED <<pc, rx, script, m_capture>>
    BY <1>10 DEF ResetArrives, Clock, client, network, Server!ResetArrives, Server!Clock,
         Server!KeepaliveElapses, Server!FrameElapses, Server!EnvUnchanged, Server!stream
  <2> QED BY <1>1, <2>1 DEF AskedInv, Agreed, ReceivedAgrees, ScriptAgrees, Requested,
                            Server!Halted
<1>11. CASE Accept
  BY <1>1, <1>11, AskedAccepts
<1>12. CASE LoopStep
  <2>1. /\ UNCHANGED <<qsock, asked, fpv_capture, pending, queue>>
        /\ place' = place \/ place' = "nowhere"
    BY <1>12 DEF LoopStep, client
  <2>2. ~Server!Halted' => ~Server!Halted
    BY HaltedStays
  <2> QED BY <1>1, <1>12, <2>1, <2>2, AgreedRuns DEF AskedInv, Requested
<1> QED BY <1>2, <1>3, <1>4, <1>5, <1>6, <1>7, <1>8, <1>9, <1>10, <1>11, <1>12
        DEF Next, Serve

\* When all that was written has been executed, the camera does not run
\* against the button, whatever connections came before and are still dying.
THEOREM FilmsForTheClient == Spec => []FilmsOnlyOnRequest
<1>1. Init => FilmInv
  BY DEF Init, Server!Init, FilmInv, ScriptInv, PlacesInv, AskedInv
<1>2. ClientInv /\ TypeOK /\ FilmInv /\ [Next]_vars => FilmInv'
  BY ScriptKept, PlacesKept, AskedKept DEF FilmInv, TypeOK
<1>3. FilmInv => FilmsOnlyOnRequest
  <2> SUFFICES ASSUME FilmInv, asked, place = "slot", ~Server!Halted,
                      unread = <<>>, rx = <<>>, script = <<>>
               PROVE  m_capture => fpv_capture
    BY DEF FilmsOnlyOnRequest
  <2>1. Agreed
    BY DEF FilmInv, AskedInv
  <2> QED BY <2>1, EmptyIsSilent DEF Agreed, ReceivedAgrees, ScriptAgrees
<1> QED BY <1>1, <1>2, <1>3, ClientCorrect, TypeCorrect, PTL DEF Spec

=============================================================================
