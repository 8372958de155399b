SPECIFICATION Spec
CONSTANTS
  NumParts = 2
  PartSectors = 2
  Disconnected = 255
  SectorsPerTick = 4
  RingSectors = 4
  ReadySectors = 2
  FadBase = 1
  UnknownFad = 99
  SectorCycles = 4
  FieldCycles = 5
  MaxCredit = 12
  Unset = Unset
  TrackStart <- MCTrackStart
  AudioTracks <- MCAudioTracks
  TotalSectors = 8
  Unreadable = {}
  PlayRequests <- MixedPlays
  SeekTargets = {}
  Files <- NoFiles
  Conns = {0}
  Routes <- OneRoute
PROPERTIES RepeatRewindsToStart
