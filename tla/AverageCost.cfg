SPECIFICATION CostSpec
CONSTANTS
  t1 = t1
  t2 = t2
  t3 = t3
  NoTx = NoTx
  NoRow = NoRow
  NoCost = NoCost
  Tx <- Three
  Posts <- MCPosts
  Row0 <- TwoUnits
PROPERTIES WeightedAverage
