--------------------------- MODULE MCAverageCost ---------------------------
(***************************************************************************)
(* Receipts at two costs, a transfer or a count without one, and a sale,   *)
(* on a row of 2 units at cost 6, or on no row.                            *)
(***************************************************************************)
EXTENDS AverageCost

CONSTANTS t1, t2, t3

Two == {t1, t2}
Three == {t1, t2, t3}
Post(d, c) == [delta |-> d, cost |-> c]
MCPosts == {Post(2, 10), Post(1, 3), Post(1, NoCost), Post(-2, NoCost)}
TwoUnits == [qty |-> 2, avg |-> Fraction(6)]
=============================================================================
