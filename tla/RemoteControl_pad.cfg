SPECIFICATION FairSpec
CONSTANTS
  Cmds <- MCCmds
  MaxCmds = 2
  Cuts = {1, 8}
  InCanvas <- MCInCanvas
  Outside <- MCOutside
  MaxSpeed = 32
INVARIANTS TypeOK ExecutesWhatWasSent SpeedsFitCommand ForwardSymmetric
PROPERTIES EveryCommandDispatched SteersOnlyWithButton SlowsDown
