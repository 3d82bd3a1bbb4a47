CONSTANTS
  Tickers = {"a", "b"}
  Levels = {1}
  None = None
  MaxSent = 4
  MaxWire = 2
  MaxFaults = 1
  MaxConns = 2
  MaxQty = 1
  Stamps = {0}
  Declared = {"independent", "unknown"}
SPECIFICATION Spec
INVARIANTS ShownBookIsTrue CompleteIsTrue
PROPERTIES NeverCrossesASegment
CHECK_DEADLOCK FALSE
