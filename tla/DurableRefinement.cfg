CONSTANTS
  Times = {1, 2}
  BatchSizes = {1, 2}
  TornKinds = {}
  EventCapacity = 4
  MaxIngress = 4
  MaxFrames = 8
  None = None
SPECIFICATION Spec
PROPERTY ImplementsLedger
CHECK_DEADLOCK FALSE
