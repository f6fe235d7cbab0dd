---------------------------- MODULE MC_RpiServer ----------------------------
(***************************************************************************)
(* RpiServer with the command sets of the peers the repository has.        *)
(***************************************************************************)
EXTENDS RpiServer

\* What FpvService of the Qt client sends.
QtCommands == {"capture_on", "capture_off", "exit"}

\* A peer that also works with the gpio pins, as V4L2Client of the Unity
\* client does.  capture_off adds nothing to capture_on here.
GpioCommandSet == {"capture_on", "exit", "print", "gpio_set", "gpio_get"}

=============================================================================
