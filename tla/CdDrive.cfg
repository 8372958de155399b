SPECIFICATION FairSpec
CONSTANTS
  NumParts = 2
  PartSectors = 1
  Disconnected = 255
  SectorsPerTick = 1
  RingSectors = 3
  ReadySectors = 2
  FadBase = 1
  UnknownFad = 99
  SectorCycles = 2
  FieldCycles = 2
  MaxCredit = 0
  Unset = Unset
  TrackStart <- SmallTrackStart
  AudioTracks <- MCAudioTracks
  TotalSectors = 5
  Unreadable = {2}
  PlayRequests <- LivePlays
  SeekTargets = {3}
  Files <- SmallFiles
  Conns = {0}
  Routes <- AsideRoute
INVARIANTS HeadFollowsSectors
PROPERTIES StopIsAnnounced FullPartitionHolds PlayEnds
