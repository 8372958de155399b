SPECIFICATION Spec
CONSTANTS
  NumParts = 1
  PartSectors = 3
  SectorWords = 1
  RawWords = 2
  GetLengths = {2}
  f1 = f1
  f2 = f2
  Toc = Toc
  Blank = Blank
  Dry = Dry
  Fads <- MCFads
  RawFads <- MCFads
  Offsets = {0, 1}
  Counts = {0, 2}
  Queries <- MCQueries
  OtherReplies <- MCOtherReplies
SYMMETRY Symmetry
INVARIANTS DataMatchesFad
PROPERTIES Implements QuotedSizeIsServed
