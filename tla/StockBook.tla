----------------------------- MODULE StockBook -----------------------------
(***************************************************************************)
(* What the stock ledger promises, without its statements, locks and       *)
(* transactions: a request asks for a sequence of lines and is answered    *)
(* once, with all of its lines posted in one step or with none of them.    *)
(* No line may take a cell below zero (decision D-017).                    *)
(***************************************************************************)
EXTENDS Integers, Sequences, Functions

CONSTANTS Tx, Product, Warehouse,
          Requests,       \* the sequences of lines a request may ask for
          Qty0            \* the opening quantities

Cell == Product \X Warehouse

VARIABLES qty,            \* qty[c]: units on hand in cell c
          journal,        \* journal[c]: net of every movement row that names c
          phase,          \* phase[t]: where the request t is
          asked           \* asked[t]: its lines

bookVars == <<qty, journal, phase, asked>>

(* What one line does to cell c: a transfer gives what it takes.           *)
Effect(l, c) ==
  (IF c = <<l.product, l.warehouse>> THEN l.delta ELSE 0) +
  (IF l.type = "transfer" /\ c = <<l.product, l.to>> THEN -l.delta ELSE 0)

(* What the first n lines of request r do to it.                           *)
Net(r, n, c) == SumFunctionOnSet([i \in DOMAIN r |-> Effect(r[i], c)], 1..n)

BookInit == /\ qty = Qty0
            /\ journal = [c \in Cell |-> 0]
            /\ phase = [t \in Tx |-> "waiting"]
            /\ asked = [t \in Tx |-> <<>>]

Ask(t) == /\ phase[t] = "waiting"
          /\ phase' = [phase EXCEPT ![t] = "asked"]
          /\ \E r \in Requests : asked' = [asked EXCEPT ![t] = r]
          /\ UNCHANGED <<qty, journal>>

(***************************************************************************)
(* One whole post: every line of the request, in its order, from what is   *)
(* there in this step; the movement rows tell all of it.                   *)
(***************************************************************************)
Post(t) ==
  /\ phase[t] = "asked"
  /\ phase' = [phase EXCEPT ![t] = "posted"]
  /\ \A n \in DOMAIN asked[t], c \in Cell : qty[c] + Net(asked[t], n, c) >= 0
  /\ qty' = [c \in Cell |-> qty[c] + Net(asked[t], Len(asked[t]), c)]
  /\ journal' = [c \in Cell |-> journal[c] + Net(asked[t], Len(asked[t]), c)]
  /\ UNCHANGED asked

(* Too little stock, a deadlock, a failure: nothing of it is posted.       *)
Refuse(t) == /\ phase[t] = "asked"
             /\ phase' = [phase EXCEPT ![t] = "refused"]
             /\ UNCHANGED <<qty, journal, asked>>

BookNext == \E t \in Tx : Ask(t) \/ Post(t) \/ Refuse(t)

BookSpec == BookInit /\ [][BookNext]_bookVars
=============================================================================
