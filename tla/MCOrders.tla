------------------------------ MODULE MCOrders ------------------------------
(***************************************************************************)
(* One order is in preparation; three requests place orders or move it.    *)
(***************************************************************************)
EXTENDS Orders

CONSTANTS r1, r2, r3

MCReq == {r1, r2, r3}
MCSeed == {"o"}
MCOrder0 == [o \in MCSeed |-> [number |-> 1, status |-> "in_progress", qty |-> 1]]
MCQuantities == {2}
=============================================================================
