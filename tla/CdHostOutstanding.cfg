SPECIFICATION HostLiveSpec
CONSTANTS
  c1 = c1
  c2 = c2
  Commands <- TwoCommands
  Interval = 3
  OtherCauses = {}
PROPERTIES
  ReportsWhateverIsOutstanding
