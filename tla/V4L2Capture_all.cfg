SPECIFICATION FairSpec
CONSTANTS
  DEV_BUFFER_CNT = 2
  TARGET_WIDTH = 640
  Widths = {320, 600, 680}
  MaxFormats = 2
  MaxFrames = 3
  DriverErrors = TRUE
INVARIANTS TypeOK ChoosesClosest ReadsMappedOnly FramesMatchUntilLoss DriverKeepsLostOnly
PROPERTY CaptureReturns
