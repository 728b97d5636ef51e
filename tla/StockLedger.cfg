SPECIFICATION Spec
CONSTANTS
  t1 = t1
  t2 = t2
  t3 = t3
  NoTx = NoTx
  Tx <- MCTx
  Product <- MCProduct
  Warehouse <- MCWarehouse
  Requests <- MCRequests
  Rows0 <- MCRows0
  Qty0 <- MCQty0
INVARIANTS StockFloor MovementsExplainStock
PROPERTIES ImplementsBook EveryRequestAnswered
