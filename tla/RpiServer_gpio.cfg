SPECIFICATION Spec
CONSTANTS
  Commands <- GpioCommandSet
  SplitCommands = FALSE
  MaxBacklog = 1
  MaxRx = 2
  MaxFreed = 2
INVARIANTS TypeOK NeverDeaf OneSession CleanStreamNeverHangs
PROPERTIES DanglesOnlyInScript ExitOnlyLostToFailedSend
