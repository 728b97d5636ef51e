SPECIFICATION TillSpec
CONSTANTS
  r1 = r1
  r2 = r2
  r3 = r3
  None = None
  Req <- Three
  Biz <- TwoBiz
  Seed <- MCSeed
  Ticket0 <- MCTicket0
  Kinds <- MCKinds
  Carts <- MCCarts
  Stock0 <- MCStock0
INVARIANTS TillMatchesStock
PROPERTIES NumbersGrow
