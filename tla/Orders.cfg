SPECIFICATION Spec
CONSTANTS
  r1 = r1
  r2 = r2
  r3 = r3
  None = None
  Req <- MCReq
  Seed <- MCSeed
  Order0 <- MCOrder0
  Quantities <- MCQuantities
  Stock0 = 2
  MaxRetry = 2
  MaxFaults = 1
INVARIANTS StockLeftWithShipments FollowsProcess ToldIsTrue
PROPERTIES ToldInTheEnd
