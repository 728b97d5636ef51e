--------------------------- MODULE MCStockLedger ---------------------------
(***************************************************************************)
(* Two products in two warehouses, one of the four cells with a row at the *)
(* start.  The requests are what the callers post.                         *)
(***************************************************************************)
EXTENDS StockCallers

CONSTANTS t1, t2, t3

MCTx == {t1, t2, t3}
MCProduct == {"p", "q"}
MCWarehouse == {"w1", "w2"}
MCRows0 == {<<"p", "w1">>}
MCQty0 == [c \in Cell |-> IF c = <<"p", "w1">> THEN 2 ELSE 0]

Of(p, n) == [product |-> p, qty |-> n]
Transfer(w, to) ==
  [type |-> "transfer", product |-> "p", qty |-> 1, warehouse |-> w, to |-> to]

MCRequests ==
  {Received("w2", <<Of("p", 2)>>), Sold("w1", <<Of("p", 2)>>),
   Shipped("w1", <<Of("p", 1), Of("q", 1)>>),
   Recorded(Transfer("w1", "w2")), Recorded(Transfer("w2", "w1")),
   Signed("retour", "w2", <<Of("p", 1)>>), Adjusted("w1", "p", -1),
   Counted("w1", <<Of("q", 1)>>, <<Of("p", 1)>>)}

============================================================================
