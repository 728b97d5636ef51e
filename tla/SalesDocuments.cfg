SPECIFICATION Spec
CONSTANTS
  r1 = r1
  r2 = r2
  r3 = r3
  None = None
  Req <- MCReq
  Seed <- MCSeed
  Doc0 <- MCDoc0
  Bodies <- MCBodies
  Discounts <- MCDiscounts
  Amounts <- MCAmounts
  Chosen <- MCChosen
INVARIANTS PaidIsIncome StatusTellsMoney TotalsAddUp
PROPERTIES NumbersFollow
