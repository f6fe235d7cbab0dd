SPECIFICATION FairSpec
CONSTANTS
  MessageSizes = {0, 5}
  MaxMessages = 3
  ReadBufferSize = 12
  GarbageSizes = {0, 2, 6}
  MaxConnections = 2
INVARIANTS TypeOK BeginsWithMessage InOrder
PROPERTIES ImplementsChannel EveryMessageDelivered
