SPECIFICATION FairSpec
CONSTANTS
  MessageSizes = {0, 5, 6}
  MaxMessages = 2
  SplitHeaders = TRUE
  GarbageSizes = {0, 3, 9}
  ReadErrors = TRUE
  MaxConnections = 2
INVARIANTS TypeOK WritesInsideBuffer ReadyIsComplete FourCCInMessage InOrder
PROPERTIES ImplementsChannel EveryMessageDelivered
