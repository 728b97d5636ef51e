-------------------------- MODULE MCSalesDocuments ---------------------------
(***************************************************************************)
(* A draft invoice, a sent one with a payment on it and a draft estimate;  *)
(* the year's numbers are about to run out of their four digits.  Payments *)
(* of less than half a cent, of half a cent, of a cent and a half, of two. *)
(***************************************************************************)
EXTENDS SalesDocuments

CONSTANTS r1, r2, r3
MCReq == {r1, r2, r3}
MCSeed == {"draft", "started", "estimate"}
MCDoc0 == [d \in MCSeed |->
  [kind     |-> IF d = "estimate" THEN "estimate" ELSE "invoice",
   number   |-> IF d = "started" THEN 9998 ELSE 1,
   status   |-> IF d = "started" THEN "partial" ELSE "draft",
   gross    |-> 2, discount |-> 0, total |-> 2,
   paid     |-> IF d = "started" THEN 1 ELSE 0]]
MCBodies == {<<3, 1>>, <<1, 2>>}
MCDiscounts == {0, 1}
MCAmounts == {4, 5, 15, 20}
MCChosen == {"draft", "sent", "accepted"}
=============================================================================
