SPECIFICATION FairSpec
CONSTANTS
  CycPerLine = 3
  HBlankStart = 2
  FieldPos = 1
  LinesTotal = 3
  LineVBlank = 2
  DefaultSlice = 1
  Slices = {0, 9}
  TimerSettings <- SomeTimers
  TimerMod = 4
  Levels = {0}
  Factors = {0}
  Masks <- SomeMasks
  TvstatWrites <- ZeroWrites
  Suppressed = {1, 2, 4}
INVARIANTS TvstatTracksBeam
PROPERTIES Implements ClockChangeCompletes
