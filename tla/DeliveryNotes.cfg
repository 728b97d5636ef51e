SPECIFICATION Spec
CONSTANTS
  r1 = r1
  r2 = r2
  r3 = r3
  None = None
  Req <- Three
  Seed <- MCSeed
  Note0 <- MCNote0
  Lines0 <- MCLines0
  Kinds <- MCKinds
  Shapes <- MCShapes
  Quantities <- MCQuantities
  Amounts <- MCAmounts
  MaxReturnLines = 2
  Stock0 = 3
  StockEnabled = TRUE
INVARIANTS StockIsPosted LinesOfOneEdit
PROPERTIES SigningPostsTheLines NoOverpayment ReturnWithinSent
