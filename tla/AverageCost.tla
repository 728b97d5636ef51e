---------------------------- MODULE AverageCost ----------------------------
(***************************************************************************)
(* The weighted average cost of one stock_levels row (decision D-018):     *)
(* concurrent transactions that each apply one signed quantity, with the   *)
(* unit cost of the goods when a purchase order is received and without it *)
(* otherwise.  applyDelta reads the row FOR UPDATE, computes the new       *)
(* average in the program, and writes it with the upsert.                  *)
(*                                                                         *)
(* Averages are exact fractions here; the column rounds to 4 decimals.     *)
(***************************************************************************)
EXTENDS Integers

CONSTANTS
  Tx,        \* transactions
  Posts,     \* the [delta, cost] they may apply
  Row0,      \* the row at the start
  NoRow,     \* there is no row
  NoCost,    \* the caller gave no unit cost
  NoTx       \* nobody holds the row

Fractions == [num : Int, den : Int]
Rows == [qty : Int, avg : Fractions]

(***************************************************************************)
(* Only po.receive passes a unit cost, and it only receives.               *)
(***************************************************************************)
ASSUME PostsAssumption ==
  /\ Posts \subseteq [delta : Int, cost : Int \cup {NoCost}]
  /\ \A p \in Posts : p.delta =< 0 => p.cost = NoCost
ASSUME RowAssumption ==
  NoRow \notin Rows /\ Row0 \in Rows \cup {NoRow} /\ NoCost \notin Int
ASSUME NoTxAssumption == NoTx \notin Tx

VARIABLES
  row,       \* the committed row: [qty, avg], or NoRow
  holder,    \* the transaction that locked or inserted the row
  doing,     \* the statement each transaction runs next
  post,      \* what it applies
  seen,      \* the row its SELECT ... FOR UPDATE returned
  image      \* the row as it wrote it, not committed yet

costVars == <<row, holder, doing, post, seen, image>>

Fraction(n) == [num |-> n, den |-> 1]
SameFraction(a, b) == a.num * b.den = b.num * a.den

(* (existing avg * existing qty + cost * delta) / (existing qty + delta)   *)
Blend(r, p) == [num |-> r.avg.num * r.qty + p.cost * p.delta * r.avg.den,
                den |-> (r.qty + p.delta) * r.avg.den]

(* newAvg, from the row the transaction saw.                               *)
NewAvg(r, p) == CASE p.cost # NoCost /\ r # NoRow -> Blend(r, p)
                  [] p.cost # NoCost /\ r = NoRow -> Fraction(p.cost)
                  [] p.cost = NoCost /\ r # NoRow -> r.avg
                  [] OTHER -> Fraction(0)

-----------------------------------------------------------------------------
CostInit ==
  /\ row = Row0
  /\ holder = NoTx
  /\ doing = [t \in Tx |-> "idle"]
  /\ post = [t \in Tx |-> NoRow]
  /\ seen = [t \in Tx |-> NoRow]
  /\ image = [t \in Tx |-> NoRow]

Begin(t) ==
  /\ doing[t] = "idle"
  /\ \E p \in Posts :
       /\ post' = [post EXCEPT ![t] = p]
       /\ doing' = [doing EXCEPT ![t] = IF p.delta > 0 THEN "lock" ELSE "take"]
  /\ UNCHANGED <<row, holder, seen, image>>

Free(t) == holder \in {NoTx, t}
Lock(t) == Free(t) /\ holder' = t

(* Seeded fault, a definition with a plausible bug, used only to show that *)
(* the property notices it: a plain SELECT.                                *)
LockRowPlain(t) ==
  /\ doing[t] = "lock"
  /\ seen' = [seen EXCEPT ![t] = row]
  /\ doing' = [doing EXCEPT ![t] = "upsert"]
  /\ UNCHANGED <<row, holder, post, image>>

(* SELECT qty, avgCost ... FOR UPDATE: an absent row is not locked.        *)
LockRow(t) ==
  /\ doing[t] = "lock"
  /\ IF row = NoRow THEN UNCHANGED holder ELSE Lock(t)
  /\ seen' = [seen EXCEPT ![t] = row]
  /\ doing' = [doing EXCEPT ![t] = "upsert"]
  /\ UNCHANGED <<row, post, image>>

Write(t, r) == /\ Lock(t)
               /\ image' = [image EXCEPT ![t] = r]
               /\ doing' = [doing EXCEPT ![t] = "commit"]
               /\ UNCHANGED <<row, post, seen>>

(* INSERT ... ON CONFLICT DO UPDATE: qty is added to what the row holds    *)
(* now, the average is what was computed from the row as it was seen, and  *)
(* is left alone when the caller gave no cost.                             *)
Upsert(t) ==
  /\ doing[t] = "upsert"
  /\ LET avg == NewAvg(seen[t], post[t])
     IN  Write(t, IF row = NoRow THEN [qty |-> post[t].delta, avg |-> avg]
                  ELSE [qty |-> row.qty + post[t].delta,
                        avg |-> IF post[t].cost = NoCost THEN row.avg ELSE avg])

Decrement(t) ==
  /\ doing[t] = "take"
  /\ row # NoRow /\ row.qty + post[t].delta >= 0
  /\ Write(t, [row EXCEPT !.qty = @ + post[t].delta])

Finish(t, outcome) == /\ doing' = [doing EXCEPT ![t] = outcome]
                      /\ holder' = IF holder = t THEN NoTx ELSE holder
                      /\ UNCHANGED <<post, seen, image>>

Commit(t) == doing[t] = "commit" /\ row' = image[t] /\ Finish(t, "committed")

(* Insufficient stock, a later failure of the handler, a lost connection.  *)
Abort(t) == /\ doing[t] \in {"lock", "upsert", "take", "commit"}
            /\ Finish(t, "aborted") /\ UNCHANGED row

AllPosted == /\ \A t \in Tx : doing[t] \in {"committed", "aborted"}
             /\ UNCHANGED costVars

CostNext == \/ \E t \in Tx : \/ Begin(t) \/ LockRow(t) \/ Upsert(t) \/ Decrement(t)
                             \/ Commit(t) \/ Abort(t)
            \/ AllPosted

CostSpec == CostInit /\ [][CostNext]_costVars

-----------------------------------------------------------------------------
(***************************************************************************)
(* D-018, judged on committed rows: a transaction that brings units at a   *)
(* known cost adds what they cost to what the stock is worth (average      *)
(* times quantity); any other leaves the average alone.                    *)
(***************************************************************************)
Before == IF row = NoRow THEN [qty |-> 0, avg |-> Fraction(0)] ELSE row
AddsItsCost(b, a, p) ==
  a.avg.num * a.qty * b.avg.den
    = (b.avg.num * b.qty + p.cost * p.delta * b.avg.den) * a.avg.den
WeightedAverage ==
  [][\A t \in Tx :
       doing[t] = "commit" /\ doing'[t] = "committed" =>
         /\ row'.qty = Before.qty + post[t].delta
         /\ IF post[t].cost = NoCost THEN SameFraction(row'.avg, Before.avg)
            ELSE AddsItsCost(Before, row', post[t])]_costVars
=============================================================================
