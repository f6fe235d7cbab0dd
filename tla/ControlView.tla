---------------------------- MODULE ControlView ----------------------------
(***************************************************************************)
(* The control pad of the Qt client (client-qt/control_view.h) with the    *)
(* mouse input it is drawn with (newFrame() and onMousePressedChange() of  *)
(* client-qt/ImGuiRenderer.cpp).  While the user drags, the speed follows  *)
(* the mouse; afterwards every frame moves it towards zero, by a share     *)
(* that depends on how long the frame took.  get_motor_speed() turns it    *)
(* into the speeds of the two wheels.                                      *)
(*                                                                         *)
(* m_motor_speed is counted in quarters of the 32 pixels of the pad_size,   *)
(* 16 of which are full speed after the multiplication by 0.25; each       *)
(* operation of the code is exact on these numbers, except the last        *)
(* halving, which ends at 0.                                               *)
(*                                                                         *)
(* An operator Op_Mistake, written before Op, is Op with a mistake in it   *)
(* that no action makes; with it a property of RemoteControl fails.        *)
(***************************************************************************)
EXTENDS Integers

CONSTANTS
  InCanvas,      \* positions of the mouse on the pad, from its centre
  Outside,       \* and outside of it
  MaxSpeed       \* bound: how far slow frames drive m_motor_speed

Positions == InCanvas \cup Outside

ASSUME ViewAssumption ==
  /\ \A pos \in Positions : pos \in (-MaxSpeed..MaxSpeed) \X (-MaxSpeed..MaxSpeed)
  /\ MaxSpeed \in Nat

VARIABLES
  m_motor_speed,
  m_mouse_draging,
  MousePressed,    \* g_MousePressed[0]: what the last mouse event said
  MouseDown        \* io.MouseDown[0]: the same, at the last frame

viewVars == <<m_motor_speed, m_mouse_draging, MousePressed, MouseDown>>

-----------------------------------------------------------------------------
(* get_motor_speed()                                                       *)

Full == 16

Abs(n) == IF n < 0 THEN -n ELSE n

Clamp_Off(n) == n
Clamp(n) == IF n > Full THEN Full ELSE IF n < -Full THEN -Full ELSE n

\* The wheels at full sideways, at full up or down, and at both, in quarters of
\* full speed, for each quadrant of the pad; y grows downwards.
Corners_ForwardLeftReversed(right, down) ==
  CASE right  /\ down  -> <<<<0, 4>>, <<-4, -4>>, <<-1, 4>>>>
    [] right  /\ ~down -> <<<<0, 4>>, <<4, 4>>, <<1, 4>>>>
    [] ~right /\ down  -> <<<<4, 0>>, <<-4, -4>>, <<-4, -1>>>>
    [] OTHER           -> <<<<4, 0>>, <<4, 4>>, <<4, -1>>>>
Corners(right, down) ==
  CASE right  /\ down  -> <<<<0, 4>>, <<-4, -4>>, <<-1, 4>>>>
    [] right  /\ ~down -> <<<<0, 4>>, <<4, 4>>, <<1, 4>>>>
    [] ~right /\ down  -> <<<<4, 0>>, <<-4, -4>>, <<-4, -1>>>>
    [] OTHER           -> <<<<4, 0>>, <<4, 4>>, <<4, 1>>>>

\* The bilinear mix of a wheel's three corners and 0 in the centre, times 1024.
Mix(s, t, d1, d2, d3) == (Full - t) * s * d1 + t * ((Full - s) * d2 + s * d3)

\* <<l_speed, r_speed>>
get_motor_speed(m) ==
  LET x == Clamp(m[1])
      y == Clamp(m[2])
      c == Corners(x > 0, y > 0)
      d == [i \in 1..2 |-> Mix(Abs(x), Abs(y), c[1][i], c[2][i], c[3][i])]
  IN  IF y > 0 THEN <<d[1], d[2]>> ELSE <<d[2], d[1]>>

-----------------------------------------------------------------------------
(* The mouse and the frames                                                *)

onMousePressedChange(pressed) ==
  /\ MousePressed' = pressed
  /\ UNCHANGED <<m_motor_speed, m_mouse_draging, MouseDown>>

\* m_motor_speed * (1 - 2 * delta_t) after a frame of 1/4 s (or, in more steps,
\* a shorter one), of 3/4 s, which carries it past zero, and of 3/2 s, which
\* makes it grow.
Scaled(n, frame) ==
  LET half == Abs(n) \div 2
      sign == IF n < 0 THEN -1 ELSE 1
  IN  CASE frame = "short" -> sign * half
        [] frame = "long"  -> -sign * half
        [] frame = "slow"  -> -2 * n

Decayed_SignWrong(frame) ==
  [i \in 1..2 |-> 2 * m_motor_speed[i] - Scaled(m_motor_speed[i], frame)]
Decayed(frame) == [i \in 1..2 |-> Scaled(m_motor_speed[i], frame)]

\* ImGui sees a click and a release as changes from one frame to the next: not
\* those that were undone before the frame.
Clicked == MousePressed /\ ~MouseDown
Released_OtherButton == FALSE
Released == MouseDown /\ ~MousePressed

\* newFrame() and on_imgui().  The mouse can be anywhere; a window that is not
\* active reports (-1,-1), which is outside.
Frame(frame) ==
  \E pos \in Positions, hovered \in BOOLEAN :
    LET draging == m_mouse_draging \/ (hovered /\ Clicked) IN
    /\ hovered => pos \in InCanvas
    /\ m_motor_speed' = IF draging THEN pos ELSE Decayed(frame)
    /\ \A i \in 1..2 : Abs(m_motor_speed'[i]) <= MaxSpeed
    /\ m_mouse_draging' = (draging /\ ~Released)
    /\ MouseDown' = MousePressed
    /\ UNCHANGED MousePressed

InitView ==
  /\ m_motor_speed = <<0, 0>> /\ m_mouse_draging = FALSE
  /\ MousePressed = FALSE /\ MouseDown = FALSE

ViewTypeOK ==
  /\ m_motor_speed \in (-MaxSpeed..MaxSpeed) \X (-MaxSpeed..MaxSpeed)
  /\ m_mouse_draging \in BOOLEAN
  /\ MousePressed \in BOOLEAN /\ MouseDown \in BOOLEAN

=============================================================================
