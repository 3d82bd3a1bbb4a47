CONSTANTS
  Times = {1, 2}
  BatchSizes = {1, 2}
  TornKinds = {}
  EventCapacity = 20
  MaxIngress = 3
  MaxFrames = 7
  None = None
SPECIFICATION Spec
INVARIANT RecoverableAfterCrash
CHECK_DEADLOCK FALSE
