-------------------------- MODULE MCInventoryCounts --------------------------
(***************************************************************************)
(* Two products, one of them with nothing in stock, and a count of both    *)
(* that is not applied yet; sales and receipts of a unit run meanwhile.    *)
(***************************************************************************)
EXTENDS InventoryCounts

CONSTANTS r1, r2, r3
MCReq == {r1, r2, r3}
MCSeed == {"c"}
MCProduct == {"a", "b"}
MCCount0 == [c \in MCSeed |->
               [applied |-> FALSE, counted |-> [p \in MCProduct |-> 1]]]
MCStock0 == [p \in MCProduct |-> IF p = "a" THEN 2 ELSE 0]
MCQuantities == {0, 2}
MCMoves == {-1, 1}
=============================================================================
