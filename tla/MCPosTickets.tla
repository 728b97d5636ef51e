---------------------------- MODULE MCPosTickets ----------------------------
(***************************************************************************)
(* Business "a" starts the day with a parked ticket, number 2, and a sale  *)
(* of yesterday, number 1; business "b" with nothing.                      *)
(***************************************************************************)
EXTENDS PosTickets

CONSTANTS r1, r2, r3

Two == {r1, r2}
Three == {r1, r2, r3}
TwoBiz == {"a", "b"}
MCSeed == {"old", "held"}
MCTicket0 == [i \in MCSeed |->
  [biz |-> "a", number |-> IF i = "old" THEN 1 ELSE 2, qty |-> 1,
   customer |-> i = "held", parked |-> i = "held"]]
MCCarts == {[qty |-> 1, customer |-> TRUE], [qty |-> 2, customer |-> FALSE]}
MCStock0 == [b \in Biz |-> 3]
MCKinds == AllKinds
=============================================================================
