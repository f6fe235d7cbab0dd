SPECIFICATION Spec
CONSTANTS
  MessageSizes = {0, 5}
  MaxMessages = 3
  ReadBufferSize = 12
  GarbageSizes = {}
  MaxConnections = 2
INVARIANT NoCorruptMessage
