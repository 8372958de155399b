SPECIFICATION Spec
CONSTANTS
  NumParts = 1
  PartSectors = 3
  SectorWords = 2
  RawWords = 3
  GetLengths = {2, 3}
  f1 = f1
  f2 = f2
  Toc = Toc
  Blank = Blank
  Dry = Dry
  Fads <- OneFad
  RawFads <- NoFads
  Offsets = {0, 1}
  Counts = {0, 2}
  Queries <- NoQueries
  OtherReplies <- MCOtherReplies
PROPERTY RemovesOnlyHandedOver
