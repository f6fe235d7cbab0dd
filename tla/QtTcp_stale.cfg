SPECIFICATION Spec
CONSTANTS
  MessageSizes = {0, 5}
  MaxMessages = 2
  SplitHeaders = FALSE
  GarbageSizes = {3}
  ReadErrors = FALSE
  MaxConnections = 2
INVARIANT NoCorruptMessage
