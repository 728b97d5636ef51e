-------------------------- MODULE MCPurchaseOrders --------------------------
(***************************************************************************)
(* Two orders of two lines, 2 units and 1: "p" is a draft, "s" has one     *)
(* unit received; requests to create, edit, delete or receive them.        *)
(***************************************************************************)
EXTENDS PurchaseOrders

CONSTANTS r1, r2
MCReq == {r1, r2}
MCSeed == {"p", "s"}
MCPosition == {1, 2}
MCOrder0 == [o \in MCSeed |-> IF o = "p" THEN [number |-> 1, status |-> "draft"]
                                         ELSE [number |-> 2, status |-> "partiallyReceived"]]
MCLine0 == [k \in MCSeed \X MCPosition |->
              [order |-> k[1], qty |-> IF k[2] = 1 THEN 2 ELSE 1,
               received |-> IF k = <<"s", 1>> THEN 1 ELSE 0]]
MCQuantities == {1, 2}
=============================================================================
