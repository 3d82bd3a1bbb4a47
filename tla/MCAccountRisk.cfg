CONSTANTS
  o1 = o1
  o2 = o2
  i1 = i1
  i2 = i2
  g1 = g1
  g2 = g2
  Orders = {o1, o2}
  Intents = {i1, i2}
  Ingress = {g1, g2}
  NoIngress = NoIngress
  Quantities = {0, 1, 2, 3}
  PostOnlyChoices = {TRUE, FALSE}
  Documents <- MCDocuments
  MaxOrderQty = 2
  MaxPosition = 3
  MaxBuyExposure = 2
  MaxSellExposure = 2
  MaxPending = 3
  MaxActive = 3
  MaxWatermark = 4
SPECIFICATION Spec
INVARIANTS TypeOK WorstCasePosition SideExposureBound ActiveOrderBound IngressUnique
  RestoreRefusesTwoThingsOnly
PROPERTY KilledAccountOnlyShrinks
