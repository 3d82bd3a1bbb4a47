CONSTANTS
  a = a
  b = b
  Orders = {1, 2, 3}
  Traders = {a, b}
  Prices = {1, 2}
  Quantities = {1, 2, 3}
  NoPrice = NoPrice
  MaxAggregate = 4
  MaxPriority = 3
  MaxTrade = 3
  EventCapacity = 13
SYMMETRY Interchangeable
SPECIFICATION ExchangeSpec
INVARIANTS BookConsistent MarketConsistent
PROPERTIES PriceTimePriority SubmitIsExact MarketRules
CHECK_DEADLOCK FALSE
