CONSTANTS
  B = 2
  Levels <- LevelsDef
  BadPc = 128
  Sets = {0, 1}
  Tags = {0, 1, 2, 3, 4}
  Lines <- LinesDef
  Values = {0, 1, 2}
  NewValues = {2}
  OrdersWritten <- OrdersDef
  Controls <- ControlsDef
  Memories <- MemoriesDef
  HalfWord = 32
  Counts = 8
  FullCount = 6
  Dividers <- DividersDef
  Spans = {1, 3, 7, 13}
  CountsWritten = {0, 6}
  TiersWritten <- TiersDef
  Levels16 = {0, 1, 2}
  Operands = {0, 1, 2, 3, 5, 7, 30, 31, 32, 33, 60, 62, 63}
  Addresses <- AddressesDef
  Contents <- ContentsDef
  Channels <- ChannelsDef
SPECIFICATION Spec
INVARIANT EnginesAlwaysAgree
CHECK_DEADLOCK FALSE
