SPECIFICATION Spec
CONSTANTS
  DEV_BUFFER_CNT = 2
  TARGET_WIDTH = 640
  Widths = {640}
  MaxFormats = 1
  MaxFrames = 4
  DriverErrors = TRUE
INVARIANT MessageIsOneFrame
