CONSTANTS
  Products <- TwoProducts
  Inputs <- Files
  Plans <- Latencies
  Quantity = 2
  Cent = 2
  None = None
  MaxOrders = 12
  MaxOrderQty = 2
  MaxPosition = 5
  MaxBuyExposure = 4
  MaxSellExposure = 4
  MaxPending = 4
  MaxActive = 5
SPECIFICATION Spec
INVARIANTS OraclesAgree OrdersAreAccounted OutcomeIsRight
PROPERTIES ActionsAreCausal RunEnds
