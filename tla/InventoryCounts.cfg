SPECIFICATION CountsSpec
CONSTANTS
  r1 = r1
  r2 = r2
  r3 = r3
  None = None
  Req <- MCReq
  Seed <- MCSeed
  Count0 <- MCCount0
  Product <- MCProduct
  Stock0 <- MCStock0
  Quantities <- MCQuantities
  Moves <- MCMoves
INVARIANTS CorrectsOnce
PROPERTIES LinesTellTheStock
