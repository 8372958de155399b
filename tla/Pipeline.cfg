\* Four fields, two user events or failures, up to one picture a field; the queue and the
\* remembered geometry are short enough to fill.
CONSTANTS
  MaxOps = 5
  GeometryCap = 4
  Plans <- SomePlans
  MaxFrames = 4
  MaxEvents = 2
  MaxPictures = 1
SPECIFICATION Spec
INVARIANTS PictureIsOneField FramebufferIsCanonical FieldsInStep
PROPERTIES LoopComesRound
CHECK_DEADLOCK FALSE
