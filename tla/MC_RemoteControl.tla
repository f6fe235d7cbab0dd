-------------------------- MODULE MC_RemoteControl --------------------------
(***************************************************************************)
(* Commands, mouse positions and bounds for the TLC run of RemoteControl.  *)
(***************************************************************************)
EXTENDS RemoteControl

\* A command without fields, and one whose speeds differ in all of their bytes.
MCCmds == {CmdNone, CmdMotorSetSpeed(512, -300)}

\* Ahead to the right and back to the left; and up to the left, beyond full
\* speed both ways, where the position of an inactive window is.
MCInCanvas == {<<8, -16>>, <<-8, 16>>}
MCOutside == {<<-32, -32>>}

=============================================================================
