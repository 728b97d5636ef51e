-------------------------- MODULE MCDeliveryNotes --------------------------
(***************************************************************************)
(* Two BLs of 2 units: "u" is not signed yet, "s" is, with nothing paid    *)
(* and one unit returned by the RT "b".  Enough requests to sign, pay or   *)
(* return one of them twice, and to edit "b" while "s" is returned.        *)
(***************************************************************************)
EXTENDS DeliveryNotes

CONSTANTS r1, r2, r3

Two == {r1, r2}
Three == {r1, r2, r3}
MCSeed == {"u", "s", "b"}
MCNote0 == [n \in MCSeed |->
  [type |-> IF n = "b" THEN "retour" ELSE "out", status |-> "delivered", signed |-> n # "u",
   paid |-> 0, of |-> IF n = "b" THEN "s" ELSE None, number |-> IF n = "s" THEN 2 ELSE 1]]
MCLines0 == [n \in MCSeed |->
  LET sent == IF n = "b" THEN 1 ELSE 2
  IN  {[key |-> <<n, 1>>, ordered |-> sent, sent |-> sent]}]
\* A short delivery, and more sent than ordered, which only update accepts.
MCShapes == {<<2, 1>>, <<1, 2>>}
MCQuantities == {0, 1, 2}
MCAmounts == {0, 1, 2}
MCKinds == AllKinds
=============================================================================
