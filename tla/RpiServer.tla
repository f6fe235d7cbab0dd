----------------------------- MODULE RpiServer -----------------------------
(***************************************************************************)
(* The server of the kart (server/src/rpi_server.cpp and main.cpp): one    *)
(* thread that runs RpiServer::update() for ever.  A pass of the loop      *)
(* polls the io_service for a finished accept, and if a peer is connected  *)
(* evaluates what the peer sent as one piece of JavaScript and sends the   *)
(* keep-alive message; then the camera may deliver a frame, and the loop   *)
(* sleeps.  The server holds one peer at a time: m_sock_peer is deleted    *)
(* and replaced, and a new accept started, whenever anything fails.        *)
(*                                                                         *)
(* The other actors are the peers (connect, send, leave), the network      *)
(* (splits a command, reports a dead peer), the camera and the clock.      *)
(*                                                                         *)
(* A command is one call of a function registered with the interpreter:    *)
(*   capture_on, capture_off   v4l2_set_capturing(true / false)            *)
(*   exit                      exit()                                      *)
(*   print                     print(...)                                  *)
(*   gpio_set                  the gpio functions that return nothing      *)
(*   gpio_get                  gpio_get_0_31(), gpio_get_32_53()           *)
(* A "fragment" is a part of a command that was read on its own.           *)
(*                                                                         *)
(* An operator Op_Mistake, written before Op, is Op with a mistake in it:  *)
(* it is used by no action, and with it in the place of Op a property of   *)
(* this module fails.                                                      *)
(***************************************************************************)
EXTENDS Naturals, Sequences

CONSTANTS
  Commands,        \* the commands the peers use
  SplitCommands,   \* may the network deliver a command in two pieces?
  MaxBacklog,      \* bound: peers in the listen queue
  MaxRx,           \* bound: commands received and not yet read
  MaxFreed         \* accepts on freed sockets are counted up to here

CommandNames ==
  {"capture_on", "capture_off", "exit", "print", "gpio_set", "gpio_get"}

ASSUME CommandsAssumption == Commands \subseteq CommandNames
ASSUME SplitAssumption == SplitCommands \in BOOLEAN
ASSUME BoundsAssumption ==
  MaxBacklog \in Nat /\ MaxRx \in Nat /\ MaxFreed \in Nat \ {0}

GpioCommands == {"gpio_set", "gpio_get"}
Pieces == Commands \cup {"fragment"}

VARIABLES
  pc,             \* where the loop is
  m_state,        \* RpiServer::m_state
  m_sock_peer,    \* the socket object m_sock_peer points to, and its peer
  accept_live,    \* is an accept outstanding on the current socket object?
  accept_freed,   \* accepts outstanding on socket objects already deleted
  io_stopped,     \* the io_service ran out of work and was not reset
  undefined,      \* history: an accept completed into a deleted object
  m_capture,      \* V4L2::m_capture
  keepalive_due,  \* more than 5000 ms since RpiServer::m_last_time
  frame_due,      \* more than m_frame_time ms since V4L2::m_last_time
  script,         \* what is left of the script being evaluated
  gpio_ok,        \* GPIO::startup registered the gpio commands
  video_ok,       \* V4L2::startup succeeded
  backlog,        \* peers in the listen queue
  rx,             \* what the peer sent and the server has not read
  tail            \* the command whose second piece is in flight, or "none"

listener == <<accept_live, accept_freed, io_stopped, undefined>>
session  == <<m_state, m_sock_peer>>
timers   == <<keepalive_due, frame_due>>
hardware == <<gpio_ok, video_ok>>
stream   == <<rx, tail>>

vars == <<pc, session, listener, m_capture, timers, script, hardware,
          backlog, stream>>

Halted == pc \in {"stopped", "hung", "crashed"}

-----------------------------------------------------------------------------
(* Operators of the server.  Each fixes the next values of session,        *)
(* accept_live, accept_freed, io_stopped, keepalive_due and stream.        *)

\* `delete m_sock_peer` leaves an outstanding accept with a dangling socket.
Orphaned(live, freed) ==
  IF live /\ freed < MaxFreed THEN freed + 1 ELSE freed

\* m_io_service.reset(), and m_state.store(state_disconnected).
reset_Missing == io_stopped' = io_stopped
reset == io_stopped' = FALSE

store_disconnected_Missing == m_state' = m_state
store_disconnected == m_state' = "disconnected"

\* wait_for_connection(); `live`: is an accept outstanding on the old socket?
\* `freed`: how many are outstanding on older ones.
wait_for_connection(live, freed) ==
  /\ store_disconnected
  /\ reset
  /\ m_sock_peer' = "unopened"                \* new asio_tcp::socket
  /\ accept_freed' = Orphaned(live, freed)
  /\ accept_live' = TRUE                      \* async_accept
  /\ keepalive_due' = FALSE                   \* m_last_time = Clock::now()
  /\ rx' = <<>> /\ tail' = "none"             \* the old connection is gone

handle_error(live, freed) == wait_for_connection(live, freed)

\* A blocking send: the kernel takes the bytes for a peer that closed its end,
\* which provokes the reset; once the reset is known, a send fails.  A peer that
\* is alive reads what it is sent: one that does not would block the thread in
\* this call when the buffers are full, as long as it likes.
SendFails == m_sock_peer \in {"unopened", "reset"}

Sent ==
  /\ m_sock_peer' = IF m_sock_peer = "closed" THEN "probed" ELSE m_sock_peer
  /\ UNCHANGED <<m_state, accept_live, accept_freed, io_stopped, stream>>

\* send(): on an error the connection is replaced.
send ==
  \/ ~SendFails /\ Sent /\ UNCHANGED keepalive_due
  \/ SendFails /\ handle_error(accept_live, accept_freed)

NetworkUnchanged ==
  UNCHANGED <<session, accept_live, accept_freed, io_stopped, keepalive_due,
              stream>>

\* A failed evaluation has popped its error value, so logging it raises an
\* error nobody catches; the fatal handler requests the exit and returns to
\* an endless loop in the interpreter.
Fatal ==
  /\ m_state' = "exit"
  /\ pc' = "hung"
  /\ script' = <<>>
  /\ UNCHANGED <<m_sock_peer, listener, m_capture, timers, hardware, backlog>>

-----------------------------------------------------------------------------
(* m_io_service.poll()                                                     *)

AcceptOutstanding == accept_live \/ accept_freed > 0

PollReady == ~io_stopped /\ AcceptOutstanding /\ backlog > 0

\* The accept on the current socket completes: handle_accept(success).
handle_accept ==
  /\ pc = "poll" /\ PollReady /\ accept_freed = 0
  /\ m_sock_peer = "unopened"
  /\ m_sock_peer' = "alive"
  /\ m_state' = "connected"
  /\ accept_live' = FALSE
  /\ backlog' = backlog - 1
  /\ UNCHANGED <<pc, accept_freed, io_stopped, undefined, m_capture, timers,
                 script, hardware, stream>>

\* The accept on the current socket completes with an error: the connection
\* could not be accepted, or the socket object was opened in the meantime.
AcceptError ==
  /\ pc = "poll" /\ ~io_stopped /\ accept_live /\ accept_freed = 0
  /\ \/ UNCHANGED backlog
     \/ backlog > 0 /\ m_sock_peer # "unopened" /\ backlog' = backlog - 1
  /\ handle_error(FALSE, accept_freed)
  /\ UNCHANGED <<pc, undefined, m_capture, frame_due, script, hardware>>

\* The oldest accept is on a socket object that was deleted.  The memory may
\* have become the current socket object (which is opened, or found open), or
\* something else (the connection is lost and the server believes it has
\* one), or the access may crash.
AcceptIntoFreed ==
  /\ pc = "poll" /\ PollReady /\ accept_freed > 0
  /\ undefined' = TRUE
  /\ backlog' = backlog - 1
  /\ \/ /\ m_sock_peer' =
             IF m_sock_peer = "unopened" THEN "alive" ELSE m_sock_peer
        /\ m_state' = "connected"
        /\ accept_freed' = accept_freed - 1
        /\ UNCHANGED <<pc, accept_live, io_stopped, keepalive_due, stream>>
     \/ /\ m_state' = "connected"
        /\ accept_freed' = accept_freed - 1
        /\ UNCHANGED <<pc, m_sock_peer, accept_live, io_stopped,
                       keepalive_due, stream>>
     \/ /\ m_sock_peer # "unopened"
        /\ handle_error(accept_live, accept_freed - 1)
        /\ UNCHANGED pc
     \/ /\ pc' = "crashed"
        /\ NetworkUnchanged
  /\ UNCHANGED <<m_capture, frame_due, script, hardware>>

\* Nothing is ready (any more).  Without outstanding work the io_service
\* stops, and stays stopped until reset.
PollDone ==
  /\ pc = "poll" /\ ~PollReady
  /\ io_stopped' = (io_stopped \/ ~AcceptOutstanding)
  /\ pc' = IF m_state = "connected" THEN "receive" ELSE "video"
  /\ UNCHANGED <<session, accept_live, accept_freed, undefined, m_capture,
                 timers, script, hardware, backlog, stream>>

-----------------------------------------------------------------------------
(* receive_commands()                                                      *)

ReceiveNothing ==
  /\ pc = "receive" /\ rx = <<>>
  /\ pc' = "keepalive"
  /\ UNCHANGED <<session, listener, m_capture, timers, script, hardware,
                 backlog, stream>>

ReceiveFails ==
  /\ pc = "receive" /\ rx # <<>> /\ m_sock_peer = "reset"
  /\ handle_error(accept_live, accept_freed)
  /\ pc' = "keepalive"
  /\ UNCHANGED <<undefined, m_capture, frame_due, script, hardware, backlog>>

\* What m_out_arch holds: everything that is available, however many times
\* m_read_buf it is.
Received_OneBuffer == <<"fragment">>
Received_PastEnd == Append(rx, tail)
Received == rx

\* It is evaluated as one script.
ReceiveScript ==
  /\ pc = "receive" /\ rx # <<>>
  /\ script' = Received /\ rx' = <<>>
  /\ pc' = "script"
  /\ UNCHANGED <<session, listener, m_capture, timers, hardware, backlog,
                 tail>>

\* With a piece of a command in it, it may not compile: nothing of it runs.
SyntaxError ==
  /\ pc = "receive"
  /\ \E i \in 1..Len(rx) : rx[i] = "fragment"
  /\ rx' = <<>>
  /\ Fatal
  /\ UNCHANGED tail

-----------------------------------------------------------------------------
(* The commands, in the order of the script.                               *)

Command(c) == pc = "script" /\ script # <<>> /\ Head(script) = c

NextCommand == script' = Tail(script) /\ UNCHANGED pc

set_capturing ==
  /\ \/ Command("capture_on") /\ m_capture' = TRUE
     \/ Command("capture_off") /\ m_capture' = FALSE
  /\ NextCommand
  /\ UNCHANGED <<session, listener, timers, hardware, backlog, stream>>

exit ==
  /\ Command("exit")
  /\ m_state' = "exit"
  /\ NextCommand
  /\ UNCHANGED <<m_sock_peer, listener, m_capture, timers, hardware, backlog,
                 stream>>

\* Commands that change nothing the server keeps, and pieces of a command
\* that happen to be a harmless expression.
Harmless ==
  /\ \/ Command("print") \/ Command("fragment")
     \/ Command("gpio_set") /\ gpio_ok
  /\ NextCommand
  /\ UNCHANGED <<session, listener, m_capture, timers, hardware, backlog,
                 stream>>

send_gpio_value ==
  /\ Command("gpio_get") /\ gpio_ok
  /\ send
  /\ NextCommand
  /\ UNCHANGED <<undefined, m_capture, frame_due, hardware, backlog>>

\* A name that is not registered: a gpio command on a server whose GPIO did
\* not start, or a piece of a command.
ReferenceError ==
  /\ \/ \E c \in GpioCommands : Command(c) /\ ~gpio_ok
     \/ Command("fragment")
  /\ Fatal
  /\ UNCHANGED stream

ScriptDone ==
  /\ pc = "script" /\ script = <<>>
  /\ pc' = "keepalive"
  /\ UNCHANGED <<session, listener, m_capture, timers, script, hardware,
                 backlog, stream>>

-----------------------------------------------------------------------------
(* send_keepalive(), V4L2::update() and the end of the pass                *)

KeepaliveIsDue_Never == FALSE
KeepaliveIsDue == keepalive_due

send_keepalive ==
  /\ pc = "keepalive"
  /\ \/ ~KeepaliveIsDue /\ NetworkUnchanged
     \/ KeepaliveIsDue /\ ~SendFails /\ Sent /\ keepalive_due' = FALSE
     \/ KeepaliveIsDue /\ SendFails /\ handle_error(accept_live, accept_freed)
  /\ pc' = "video"
  /\ UNCHANGED <<undefined, m_capture, frame_due, script, hardware, backlog>>

is_connected_Ignored == TRUE
is_connected_NotDisconnected == m_state # "disconnected"
is_connected == m_state = "connected"

\* V4L2::update() up to the frame the camera must deliver: without a peer,
\* or if the buffer cannot be queued, capturing ends.
UpdateVideo ==
  /\ pc = "video"
  /\ \/ ~(m_capture /\ frame_due) /\ pc' = "sleep"
        /\ UNCHANGED <<m_capture, frame_due>>
     \/ m_capture /\ frame_due /\ ~is_connected /\ pc' = "sleep"
        /\ m_capture' = FALSE /\ frame_due' = FALSE
     \/ m_capture /\ frame_due /\ is_connected /\ pc' = "sleep"   \* VIDIOC_QBUF
        /\ m_capture' = FALSE /\ frame_due' = FALSE
     \/ m_capture /\ frame_due /\ is_connected /\ pc' = "dqbuf" /\ video_ok
        /\ UNCHANGED <<m_capture, frame_due>>
  /\ UNCHANGED <<session, listener, keepalive_due, script, hardware, backlog,
                 stream>>

\* The blocking VIDIOC_DQBUF returns a frame, which is sent whatever send()
\* says of it.
FrameCaptured ==
  /\ pc = "dqbuf"
  /\ send
  /\ frame_due' = FALSE
  /\ pc' = "sleep"
  /\ UNCHANGED <<undefined, m_capture, script, hardware, backlog>>

\* VIDIOC_DQBUF fails, or the buffer holds no JPEG.
FrameLost ==
  /\ pc = "dqbuf"
  /\ m_capture' = FALSE
  /\ frame_due' = FALSE
  /\ pc' = "sleep"
  /\ UNCHANGED <<session, listener, keepalive_due, script, hardware, backlog,
                 stream>>

\* What update() returns to main().
KeepRunning_AlwaysTrue == TRUE
KeepRunning == m_state # "exit"

\* usleep(200), and the end of the pass.
Sleep ==
  /\ pc = "sleep"
  /\ pc' = IF KeepRunning THEN "poll" ELSE "exiting"
  /\ UNCHANGED <<session, listener, m_capture, timers, script, hardware,
                 backlog, stream>>

\* The atexit handler.
shutdown ==
  /\ pc = "exiting"
  /\ m_sock_peer' = "deleted"
  /\ pc' = "stopped"
  /\ rx' = <<>> /\ tail' = "none"
  /\ UNCHANGED <<m_state, listener, m_capture, timers, script, hardware,
                 backlog>>

HaltedStutter == Halted /\ UNCHANGED vars

-----------------------------------------------------------------------------
(* The peers, the network and the clock                                    *)

EnvUnchanged ==
  UNCHANGED <<pc, m_state, listener, m_capture, script, hardware>>

PeerConnects ==
  /\ ~Halted /\ backlog < MaxBacklog
  /\ backlog' = backlog + 1
  /\ UNCHANGED <<m_sock_peer, timers, stream>> /\ EnvUnchanged

PeerCanSend == ~Halted /\ m_sock_peer = "alive" /\ tail = "none" /\ Len(rx) < MaxRx

PeerSends(c) ==
  /\ PeerCanSend
  /\ rx' = Append(rx, c)
  /\ UNCHANGED <<m_sock_peer, timers, backlog, tail>> /\ EnvUnchanged

\* Only the first bytes of the command have arrived.
PeerSendsSplit(c) ==
  /\ SplitCommands /\ PeerCanSend
  /\ rx' = Append(rx, "fragment")
  /\ tail' = c
  /\ UNCHANGED <<m_sock_peer, timers, backlog>> /\ EnvUnchanged

\* The rest arrives: in time to make the command whole, or as a fragment.
TailArrives ==
  /\ ~Halted /\ tail # "none"
  /\ rx' = IF rx # <<>> THEN [rx EXCEPT ![Len(rx)] = tail] ELSE <<"fragment">>
  /\ tail' = "none"
  /\ UNCHANGED <<m_sock_peer, timers, backlog>> /\ EnvUnchanged

\* The peer closes its end or vanishes, or resets the connection.
PeerLeaves ==
  /\ ~Halted /\ m_sock_peer = "alive"
  /\ m_sock_peer' \in {"closed", "reset"}
  /\ UNCHANGED <<timers, backlog, stream>> /\ EnvUnchanged

\* What was sent to a peer that is gone has come back as an error.
ResetArrives ==
  /\ ~Halted /\ m_sock_peer = "probed"
  /\ m_sock_peer' = "reset"
  /\ UNCHANGED <<timers, backlog, stream>> /\ EnvUnchanged

\* Time passes while the loop sleeps or waits for the camera.
Blocked == pc \in {"sleep", "dqbuf"}

KeepaliveElapses ==
  /\ Blocked /\ ~keepalive_due
  /\ keepalive_due' = TRUE
  /\ UNCHANGED <<m_sock_peer, frame_due, backlog, stream>> /\ EnvUnchanged

FrameElapses ==
  /\ pc = "sleep" /\ ~frame_due
  /\ frame_due' = TRUE
  /\ UNCHANGED <<m_sock_peer, keepalive_due, backlog, stream>> /\ EnvUnchanged

-----------------------------------------------------------------------------
\* startup(): without a camera V4L2::m_last_time is never set.
Init ==
  /\ pc = "poll"
  /\ m_state = "disconnected" /\ m_sock_peer = "unopened"
  /\ accept_live = TRUE /\ accept_freed = 0
  /\ io_stopped = FALSE /\ undefined = FALSE
  /\ m_capture = FALSE
  /\ gpio_ok \in BOOLEAN /\ video_ok \in BOOLEAN
  /\ keepalive_due = FALSE /\ frame_due = ~video_ok
  /\ script = <<>>
  /\ backlog = 0 /\ rx = <<>> /\ tail = "none"

Accept == handle_accept \/ AcceptIntoFreed

Poll == Accept \/ AcceptError \/ PollDone

ReceiveCommands ==
  ReceiveNothing \/ ReceiveFails \/ ReceiveScript \/ SyntaxError

RunScript == \/ set_capturing \/ exit \/ Harmless \/ send_gpio_value
             \/ ReferenceError \/ ScriptDone

Video == UpdateVideo \/ FrameCaptured \/ FrameLost

Pass == \/ Poll \/ ReceiveCommands \/ RunScript \/ send_keepalive
        \/ Video \/ Sleep \/ shutdown

Peers == \/ PeerConnects
         \/ \E c \in Commands : PeerSends(c) \/ PeerSendsSplit(c)
         \/ TailArrives \/ PeerLeaves \/ ResetArrives

Clock == KeepaliveElapses \/ FrameElapses

Next == Pass \/ Peers \/ Clock \/ HaltedStutter

Spec == Init /\ [][Next]_vars

\* The thread keeps running (a send and the camera let it go on), TCP reports
\* what it learnt, time passes, and accepting does not fail for ever.
FairSpec ==
  /\ Spec
  /\ WF_vars(Pass) /\ WF_vars(Accept) /\ WF_vars(PollDone)
  /\ WF_vars(ResetArrives)
  /\ SF_vars(KeepaliveElapses) /\ SF_vars(FrameElapses)

-----------------------------------------------------------------------------
PeerStates == {"unopened", "alive", "closed", "probed", "reset", "deleted"}

\* The values every variable keeps to.
TypeOK ==
  /\ pc \in {"poll", "receive", "script", "keepalive", "video", "dqbuf",
             "sleep", "exiting", "stopped", "hung", "crashed"}
  /\ m_state \in {"disconnected", "connected", "exit"}
  /\ m_sock_peer \in PeerStates
  /\ accept_live \in BOOLEAN /\ accept_freed \in 0..MaxFreed
  /\ io_stopped \in BOOLEAN /\ undefined \in BOOLEAN
  /\ m_capture \in BOOLEAN
  /\ keepalive_due \in BOOLEAN /\ frame_due \in BOOLEAN
  /\ script \in Seq(Pieces)
  /\ gpio_ok \in BOOLEAN /\ video_ok \in BOOLEAN
  /\ backlog \in Nat
  /\ rx \in Seq(Pieces) /\ tail \in Commands \cup {"none"}

\* A server without a peer listens: an accept is outstanding and the
\* io_service will run its handler.  wait_for_connection() must reset the
\* service, which stopped when the last accept completed.
NeverDeaf ==
  m_state = "disconnected" => accept_live /\ ~io_stopped

\* As long as memory is intact, a connected server talks to the socket of the
\* connection it accepted and takes no second one: handle_accept() and
\* wait_for_connection() keep m_state, m_sock_peer and the accept in step.
OneSession ==
  ~undefined /\ m_state = "connected"
    => m_sock_peer \in {"alive", "closed", "probed", "reset"} /\ ~accept_live

\* No socket object is deleted while an accept holds a reference to it,
\* whatever fails in whatever order: `delete m_sock_peer` in
\* wait_for_connection() does not look at the accept.  It holds for peers that
\* do not read the gpio pins.
NoDanglingAccept == accept_freed = 0 /\ ~undefined

\* The only place of an intact server that can delete a socket under its
\* accept is a script that goes on after a send of its own failed.
DanglesOnlyInScript ==
  [][accept_freed' > accept_freed => pc = "script" \/ undefined']_vars

\* An exit request is forgotten only by a send that fails after it in the
\* same pass: wait_for_connection() overwrites m_state.
ExitOnlyLostToFailedSend ==
  [][m_state = "exit" /\ m_state' # "exit"
       => SendFails /\ pc \in {"script", "keepalive"}]_vars

\* The interpreter hangs the server only on a command that arrives in pieces
\* or on a gpio command of a server whose GPIO did not start: receive_commands()
\* hands over whole commands, and all of them, otherwise.
CleanStreamNeverHangs ==
  pc = "hung" => SplitCommands \/ (~gpio_ok /\ Commands \cap GpioCommands # {})

\* duktape.c says fatal_func should be noreturn; handle_duktap_fatal() returns,
\* and the interpreter loops for ever.
FatalHandlerNeverReturns == pc # "hung"

\* A peer that is gone is noticed by the keep-alive, whatever else happens, and
\* replaced, unless one of its last commands was an exit, or could not be
\* evaluated, which hangs the server (then m_state is "exit" as well).
DeadPeerReplaced ==
  (m_state = "connected" /\ m_sock_peer \in {"closed", "probed", "reset"})
    ~> (m_state \in {"disconnected", "exit"} \/ pc = "crashed")

\* Without a peer the camera is switched off, unless a new peer gets there
\* first and inherits it.
CaptureStops ==
  (m_capture /\ m_state = "disconnected")
    ~> (~m_capture \/ m_state = "connected" \/ pc = "crashed")

\* A server asked to exit stops: it leaves its loop and runs the exit handler.
\* There are two exceptions.  A failed send makes it forget the request (see
\* ExitOnlyLostToFailedSend); and what follows the exit() in the same script
\* may hang the interpreter, as it may without an exit().  That the request of
\* the fatal handler itself is never honoured is FatalHandlerNeverReturns.
HangsInterpreter(c) == c = "fragment" \/ (c \in GpioCommands /\ ~gpio_ok)

ExitStops ==
  (/\ m_state = "exit" /\ pc # "hung"
   /\ \A i \in 1..Len(script) : ~HangsInterpreter(script[i]))
    ~> (pc = "stopped" \/ m_state # "exit")

\* A peer in the listen queue of a server without one is accepted.
WaitingPeerAccepted ==
  (backlog > 0 /\ m_state = "disconnected")
    ~> (m_state = "connected" \/ pc = "crashed")

=============================================================================
