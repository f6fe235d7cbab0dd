--------------------------- MODULE RemoteControl ---------------------------
(***************************************************************************)
(* Driving the car from the Qt client: the pad of ControlView and the      *)
(* motor buttons of ConnectionView (client-qt/connection_view.h), whose    *)
(* commands KartCommands takes to the receiver.  The frames, the mouse     *)
(* events and the sends are calls of one thread, the one of                *)
(* KartApplication; the receiver is another program.                       *)
(*                                                                         *)
(* The pad shows the wheel speeds and sends none: what it and the commands *)
(* share is the 16 bits of a speed, see SpeedsFitCommand.                  *)
(***************************************************************************)
EXTENDS KartCommands, ControlView

vars == <<commandVars, viewVars>>

Commands ==
  /\ \/ \E cmd \in Cmds : send_cmd(cmd)
     \/ \E id \in Ids : register_command(id)
     \/ ReceiveBySize \/ ReceiveRaw \/ dispatch_from_archive
  /\ UNCHANGED viewVars

MouseEvent ==
  /\ \E pressed \in BOOLEAN : onMousePressedChange(pressed)
  /\ UNCHANGED commandVars

Redraw(frame) == Frame(frame) /\ UNCHANGED commandVars

FastFrame == Redraw("short") \/ Redraw("long")
SlowFrame == Redraw("slow")

Init == InitCommands /\ InitView

Next == Commands \/ MouseEvent \/ FastFrame \/ SlowFrame

Spec == Init /\ [][Next]_vars

\* The receiver receives and dispatches; the window is redrawn 16 ms after it
\* was drawn, by the timer of KartApplication.
FairSpec ==
  /\ Spec
  /\ WF_vars(ReceiveBySize /\ UNCHANGED viewVars)
  /\ WF_vars(dispatch_from_archive /\ UNCHANGED viewVars)
  /\ WF_vars(FastFrame)

-----------------------------------------------------------------------------
\* The values every variable keeps to.
TypeOK == CommandsTypeOK /\ ViewTypeOK

\* What remains of the commands when those nobody registered are left out.
Known(cmds) ==
  FlattenSeq([i \in DOMAIN cmds |->
                IF cmds[i].id \in entries THEN <<cmds[i]>> ELSE <<>>])

\* As long as no archive was cut inside a command and no unknown command had
\* fields, what has been executed are the commands that were sent, in their
\* order and with the speeds they were sent with, but for the ones nobody
\* registered (kart_commands.cpp:40-67): the archive that is left always begins
\* with a command.
ExecutesWhatWasSent ==
  ~astray =>
    /\ dispatched <= Len(sent)
    /\ executed = Known(SubSeq(sent, 1, dispatched))
    /\ archive \o stream = Packets(SubSeq(sent, dispatched + 1, Len(sent)))

\* Every command comes to be dispatched: the receiver never waits for bytes
\* that a size byte announced and no command has (remote_service.cpp:59).
EveryCommandDispatched ==
  \A i \in 1..MaxCmds : Len(sent) >= i ~> (dispatched >= i \/ astray)

\* The speeds of the wheels keep to 1024 however far the mouse is dragged and
\* however slow the frames are, and a command takes them to the receiver as
\* they are, the negative ones too (control_view.h:108, kart_archive.h:94).
SpeedsFitCommand ==
  LET speeds == get_motor_speed(m_motor_speed)
      cmd == CmdMotorSetSpeed(speeds[1], speeds[2])
  IN  /\ Abs(speeds[1]) <= 1024 /\ Abs(speeds[2]) <= 1024
      /\ Unpack(cmd.id, Behind(Packet(cmd), 2)) = cmd

\* Ahead, no wheel turns backwards, and the pad is symmetric: the other side
\* exchanges the wheels (control_view.h:110-116).  Backwards neither is true.
ForwardSymmetric ==
  LET x == m_motor_speed[1]
      y == -Abs(m_motor_speed[2])
      speeds == get_motor_speed(<<x, y>>)
  IN  /\ speeds[1] >= 0 /\ speeds[2] >= 0
      /\ get_motor_speed(<<-x, y>>) = <<speeds[2], speeds[1]>>

\* A frame never steers by the mouse when the button is up and was up at the
\* frame before: the speed then only decays, wherever the mouse is, whatever
\* clicks came and went in between and however the last drag ended.  A release
\* with a new press before the next frame is seen by nobody: that drag goes on
\* (control_view.h:82), and so the property says nothing of a frame at which
\* the button is down.
SteersOnlyWithButton ==
  [][~MouseDown /\ ~MousePressed =>
       \/ m_motor_speed' = m_motor_speed
       \/ \E frame \in {"short", "long", "slow"} : m_motor_speed' = Decayed(frame)]_vars

\* Once the button stays released and frames stay shorter than a second, the
\* speed comes to rest at zero: the drag that the last release ends is the last
\* one, even if frames missed some of the clicks.  Rest is exactly zero because
\* Scaled halves integers; the floats of the code only become so small that
\* the speeds of the wheels, which are integers, are zero.
SlowsDown ==
  <>[]~MousePressed /\ <>[][~SlowFrame]_vars => <>[](m_motor_speed = <<0, 0>>)

=============================================================================
