SPECIFICATION FairSpec
CONSTANTS
  RingFrames = 3
  Target = 2
  Frames = 2
  Quanta = {1, 2}
  Batch = 3
  PerSample = 4
  Num = 1
  Den = 2
  MaxOvershoot = 1
INVARIANTS SamplesInOrder AccessSeesDueState
PROPERTIES PrimesAgain
