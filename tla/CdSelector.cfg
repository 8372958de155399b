SPECIFICATION SelectorSpec
CONSTANTS
  NumFilters = 3
  NumPartitions = 3
  Disconnected = 255
  Sectors <- TwoChannels
  FadRanges <- OneRange
  Subheaders <- OneSetting
  Modes <- SomeModes
  Connections <- SomeConnections
  DeviceFilters = {1, 7}
  ResetFlags <- SomeResets
  ReadFilters = {0}
INVARIANTS
  RouteIsFirstPass
  PristineRouting
