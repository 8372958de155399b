SPECIFICATION FairSpec
CONSTANTS
  Lists <- SomeLists
  Slots = {0, 1}
  MaxCommands = 2
PROPERTIES WholePictureIsShown AutoDrawsOnErased DrawEndIsOwed WalkEnds
