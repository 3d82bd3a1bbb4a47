CONSTANTS
  Tickers = {"a"}
  Levels = {1}
  None = None
  MaxSent = 4
  MaxWire = 2
  MaxFaults = 1
  MaxConns = 3
  MaxQty = 1
  Stamps = {0}
  Declared = {"independent", "unknown"}
SPECIFICATION Spec
INVARIANT LogicalTimeMonotone
CHECK_DEADLOCK FALSE
