SPECIFICATION Spec
CONSTANTS
  MessageSizes = {0, 5}
  MaxMessages = 2
  SplitHeaders = TRUE
  GarbageSizes = {3}
  ReadErrors = FALSE
  MaxConnections = 1
INVARIANT NoCorruptMessage
