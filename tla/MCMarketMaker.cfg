CONSTANTS
  maker = maker
  buyer = buyer
  seller = seller
  Maker = maker
  Traders = {maker, buyer, seller}
  Orders <- MCOrders
  Prices <- MCPrices
  Quantities = {1, 2}
  NoPrice = NoPrice
  MaxTick = 3
  MaxAggregate = 8
  MaxPriority = 9
  MaxTrade = 9
  EventCapacity = 60
  QuoteQuantity = 2
  Reference = 2
  BidOffset = 1
  AskOffset = 1
  MaxSkew = 2
  MaxAge = 2
  Interval = 1
  Sources = {"Configured", "LastTrade", "Midpoint"}
  External <- MCExternal
  MaxExternal = 3
  MaxQueued = 1
  Horizon = 3
  MaxOrderQty = 2
  MaxPosition = 4
  MaxBuyExposure = 4
  MaxSellExposure = 2
  MaxPending = 2
  MaxActive = 4
SPECIFICATION MakerSpec
INVARIANTS AccountAgreesWithExchange QuotesAreSound TrueExposureWithinLimit KilledMakerLeaves StallsOnMarketOrdersOnly
PROPERTIES RunUntilReturns
