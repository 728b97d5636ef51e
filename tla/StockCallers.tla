---------------------------- MODULE StockCallers ----------------------------
(***************************************************************************)
(* Who posts to the stock ledger, and what: for each caller, the lines its *)
(* body becomes.  The contract of LedgerLine.delta (a transfer is an       *)
(* outflow, "in" never takes, "out" never gives) is the callers' to keep;  *)
(* the ledger itself does not look.                                        *)
(*                                                                         *)
(* An item is a product and a quantity of a body.  Every schema asks for a *)
(* positive one (the filter of sign drops what was not sent).              *)
(***************************************************************************)
EXTENDS StockLedger

Item == [product : Product, qty : Nat \ {0}]

(* CreateMovementSchema: a transfer names another warehouse; the others    *)
(* name none, which "to" shows as the warehouse itself.                    *)
MovementBody ==
  {b \in [type : {"in", "out", "transfer"}, product : Product, qty : Nat \ {0},
          warehouse : Warehouse, to : Warehouse] :
     (b.type = "transfer") = (b.to # b.warehouse)}

Posted(type, w, p, delta) ==
  [type |-> type, product |-> p, warehouse |-> w, to |-> w, delta |-> delta]
Lines(type, w, items, sign) ==
  [i \in DOMAIN items |-> Posted(type, w, items[i].product, sign * items[i].qty)]

(* A movement: only "in" gives, a transfer takes from its source.          *)
Recorded(b) ==
  <<[type |-> b.type, product |-> b.product, warehouse |-> b.warehouse, to |-> b.to,
     delta |-> IF b.type = "in" THEN b.qty ELSE -b.qty]>>

(* A manual adjustment, by any difference but 0.                           *)
Adjusted(w, p, delta) == <<Posted(IF delta > 0 THEN "in" ELSE "out", w, p, delta)>>

(* A ticket, and an order that is shipped.                                 *)
Sold(w, items) == Lines("out", w, items, -1)
Shipped(w, items) == Lines("out", w, items, -1)

(* A receipt of a purchase order.                                          *)
Received(w, items) == Lines("in", w, items, 1)

(* A delivery note that is signed: a delivery takes, a receipt and a       *)
(* return give.                                                            *)
Signed(kind, w, items) == IF kind = "out" THEN Lines("out", w, items, -1)
                                          ELSE Lines("in", w, items, 1)

(* An inventory count: a post for what was found, then one for what is     *)
(* missing.                                                                *)
Counted(w, found, missing) ==
  Lines("in", w, found, 1) \o Lines("out", w, missing, -1)
=============================================================================
