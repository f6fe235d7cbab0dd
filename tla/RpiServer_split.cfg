SPECIFICATION Spec
CONSTANTS
  Commands <- QtCommands
  SplitCommands = TRUE
  MaxBacklog = 1
  MaxRx = 2
  MaxFreed = 1
INVARIANT FatalHandlerNeverReturns
