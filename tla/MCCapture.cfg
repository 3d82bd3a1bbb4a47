CONSTANTS
  Tickers = {"a"}
  Frames <- MCFrames
  Duration = 2
  MaxDelay = 2
  MaxFrames = 4
  MaxLostWrites = 1
  None = None
  NotInt = NotInt
SPECIFICATION Spec
INVARIANTS StrictVerdictIsHonest RecordIsConsistent StrictCapturesNormalize
PROPERTIES CaptureEnds
