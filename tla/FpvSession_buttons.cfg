SPECIFICATION FairSpec
CONSTANTS
  MaxBacklog = 2
  MaxUnread = 1
INVARIANTS TypeOK FilmsOnlyOnRequest
PROPERTIES ReconnectServed CameraStops
