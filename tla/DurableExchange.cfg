CONSTANTS
  Times = {1, 2}
  BatchSizes = {1}
  TornKinds = {"short", "long"}
  EventCapacity = 2
  MaxIngress = 3
  MaxFrames = 6
  None = None
SPECIFICATION Spec
INVARIANTS PublishedIsDurable JournalIsSound RecoveryIsExact RecoveryRefusals
CHECK_DEADLOCK FALSE
