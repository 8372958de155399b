SPECIFICATION Spec
CONSTANTS
  NumParts = 2
  PartSectors = 1
  Disconnected = 255
  SectorsPerTick = 2
  RingSectors = 3
  ReadySectors = 2
  FadBase = 1
  UnknownFad = 99
  SectorCycles = 2
  FieldCycles = 3
  MaxCredit = 1
  Unset = Unset
  TrackStart <- MCTrackStart
  AudioTracks <- MCAudioTracks
  TotalSectors = 8
  Unreadable = {2}
  PlayRequests <- SomePlays
  SeekTargets = {}
  Files <- MCFiles
  Conns = {0}
  Routes <- SplitRoute
INVARIANTS HeadFollowsSectors RingNotLapped FullRingIsPlayed OneConsumer
PROPERTIES StopIsAnnounced FullPartitionHolds PendEndsPlay
