SPECIFICATION Spec
CONSTANTS
  r1 = r1
  r2 = r2
  None = None
  Req <- MCReq
  Seed <- MCSeed
  Order0 <- MCOrder0
  Line0 <- MCLine0
  Position <- MCPosition
  Quantities <- MCQuantities
  MaxBody = 2
INVARIANTS ReceivedIsMoved StatusTellsReceipts
