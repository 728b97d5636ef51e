---------------------------- MODULE StockLedger ----------------------------
(***************************************************************************)
(* StockLedgerService.post, the writer of app.stock_levels and             *)
(* app.movements, run by concurrent request transactions on PostgreSQL at  *)
(* READ COMMITTED.  One action is one SQL statement: it sees what is       *)
(* committed when it runs plus its own transaction's writes, and a         *)
(* statement that writes a row waits until no other transaction holds it.  *)
(*                                                                         *)
(* A request is the sequence of ledger lines its handler posts in its one  *)
(* transaction (an inventory count posts its gains, then its losses).  A   *)
(* cell is the pair (product, warehouse), the primary key of               *)
(* app.stock_levels.                                                       *)
(***************************************************************************)
EXTENDS Integers, Sequences

CONSTANTS
  Tx,           \* request transactions
  Product,
  Warehouse,
  Requests,     \* the sequences of lines a handler may post
  Rows0,        \* the cells that have a stock_levels row at the start
  Qty0,         \* the quantity of each cell at the start
  NoTx          \* nobody holds the row

Cell == Product \X Warehouse

(***************************************************************************)
(* LedgerLine together with the type and destination of its LedgerPost.    *)
(* "to" is read for transfers only.                                        *)
(***************************************************************************)
Line == [type : {"in", "out", "transfer"}, product : Product,
         warehouse : Warehouse, to : Warehouse, delta : Int]

(***************************************************************************)
(* What every caller guarantees: "in" never takes, "out" never gives, and  *)
(* a transfer is an outflow to another warehouse (movement.dto.ts refuses  *)
(* equal warehouses and the contract of LedgerLine.delta asks for a        *)
(* negative delta).                                                        *)
(***************************************************************************)
WellFormed(l) ==
  /\ l.type = "in"  => l.delta >= 0
  /\ l.type = "out" => l.delta =< 0
  /\ l.type = "transfer" => l.delta < 0 /\ l.to # l.warehouse

ASSUME RequestsAssumption ==
  \A r \in Requests : r \in Seq(Line) /\ \A i \in DOMAIN r : WellFormed(r[i])
ASSUME RowsAssumption ==
  /\ Rows0 \subseteq Cell
  /\ Qty0 \in [Cell -> Nat]
  /\ \A c \in Cell \ Rows0 : Qty0[c] = 0
ASSUME NoTxAssumption == NoTx \notin Tx

VARIABLES
  rows,         \* committed: the cells that have a row
  qty,          \* committed: stock_levels.qty, 0 where there is no row
  journal,      \* committed: net of app.movements on each cell
  holder,       \* holder[c]: the transaction that locked or inserted c's row
  stage,        \* stage[t]: the statement transaction t runs next
  req,          \* req[t]: the lines of its request
  at,           \* at[t]: the line it is on
  leg,          \* leg[t]: the source or the destination of that line
  pend,         \* pend[t][c]: what t added to c's quantity, uncommitted
  logged        \* logged[t][c]: net on c of the movement rows t inserted

committed == <<rows, qty, journal>>
private   == <<req, at, leg, pend, logged>>
vars      == <<committed, holder, stage, private>>

Zero == [c \in Cell |-> 0]
Open == {"lock", "upsert", "take", "log", "commit"}
Stages == Open \cup {"idle", "committed", "aborted"}

-----------------------------------------------------------------------------
Current(t) == req[t][at[t]]

(* The cell and the signed quantity of the applyDelta call in progress.    *)
Target(t) == LET l == Current(t)
             IN  <<l.product, IF leg[t] = "source" THEN l.warehouse ELSE l.to>>
Amount(t) == LET l == Current(t)
             IN  IF leg[t] = "source" THEN l.delta ELSE -l.delta

(* applyDelta's first statement for a signed quantity; 0 needs none.       *)
FirstStatement(d) == CASE d > 0 -> "lock" [] d < 0 -> "take" [] d = 0 -> "log"

(* Seeded faults, here and below: definitions with a plausible bug, used   *)
(* only to show that the properties notice it.  Here the loop over the     *)
(* lines returns after the first, and half a request commits.              *)
LineStartFirstOnly(r, i) ==
  IF i = 1 /\ i \in DOMAIN r THEN FirstStatement(r[i].delta) ELSE "commit"

(* The first statement of line i of request r, or the end of the post.     *)
LineStart(r, i) == IF i \in DOMAIN r THEN FirstStatement(r[i].delta)
                                     ELSE "commit"

(* Fault: a transfer does not credit its destination.                      *)
AfterLegNoCredit(t) == "log"

(* The statement after the current applyDelta: a transfer flips the sign   *)
(* and credits its destination, everything else inserts the movement row.  *)
AfterLeg(t) == IF Current(t).type = "transfer" /\ leg[t] = "source"
               THEN FirstStatement(-Current(t).delta)
               ELSE "log"

Magnitude(l) == IF l.delta < 0 THEN -l.delta ELSE l.delta

(* What a movement row says about cell c: qty is |delta|, the direction    *)
(* comes from its type and its two warehouses.                             *)
RowEffect(l, c) ==
  LET here  == <<l.product, l.warehouse>>
      there == <<l.product, l.to>>
  IN  CASE l.type = "in"  /\ c = here -> Magnitude(l)
        [] l.type = "out" /\ c = here -> -Magnitude(l)
        [] l.type = "transfer" /\ c = here  -> -Magnitude(l)
        [] l.type = "transfer" /\ c = there -> Magnitude(l)
        [] OTHER -> 0

(* Transaction t sees committed rows and the ones it inserted itself.      *)
Sees(t, c) == c \in rows \/ holder[c] = t
Free(t, c) == holder[c] \in {NoTx, t}
View(t, c) == qty[c] + pend[t][c]

-----------------------------------------------------------------------------
Init ==
  /\ rows = Rows0 /\ qty = Qty0 /\ journal = Zero
  /\ holder = [c \in Cell |-> NoTx]
  /\ stage = [t \in Tx |-> "idle"]
  /\ req = [t \in Tx |-> <<>>]
  /\ at = [t \in Tx |-> 1]
  /\ leg = [t \in Tx |-> "source"]
  /\ pend = [t \in Tx |-> Zero]
  /\ logged = [t \in Tx |-> Zero]

(* db.tx opens the transaction and post starts on its first line.          *)
Begin(t) ==
  /\ stage[t] = "idle"
  /\ \E r \in Requests :
       /\ req' = [req EXCEPT ![t] = r]
       /\ stage' = [stage EXCEPT ![t] = LineStart(r, 1)]
  /\ UNCHANGED <<committed, holder, at, leg, pend, logged>>

(* SELECT ... FOR UPDATE before an increment: it locks the row if there is *)
(* one to see, and locks nothing otherwise.                                *)
LockRow(t) ==
  /\ stage[t] = "lock"
  /\ IF Sees(t, Target(t))
     THEN /\ Free(t, Target(t))
          /\ holder' = [holder EXCEPT ![Target(t)] = t]
     ELSE UNCHANGED holder
  /\ stage' = [stage EXCEPT ![t] = "upsert"]
  /\ UNCHANGED <<committed, private>>

(* Adds d to the cell under t's lock and moves on.                         *)
Apply(t, d) ==
  /\ holder' = [holder EXCEPT ![Target(t)] = t]
  /\ pend' = [pend EXCEPT ![t][Target(t)] = @ + d]
  /\ stage' = [stage EXCEPT ![t] = AfterLeg(t)]
  /\ leg' = [leg EXCEPT ![t] = IF Current(t).type = "transfer" THEN "dest"
                                                               ELSE @]
  /\ UNCHANGED <<committed, req, at, logged>>

(* INSERT ... ON CONFLICT DO UPDATE SET qty = qty + delta.  The unique key *)
(* makes it wait for an uncommitted insert of the same cell too.           *)
Upsert(t) ==
  /\ stage[t] = "upsert"
  /\ Free(t, Target(t))
  /\ Apply(t, Amount(t))

(* Fault: the UPDATE does not ask for qty >= n.                            *)
DecrementUnchecked(t) ==
  /\ stage[t] = "take"
  /\ Sees(t, Target(t)) /\ Free(t, Target(t))
  /\ Apply(t, Amount(t))

(* UPDATE ... SET qty = qty - n WHERE qty >= n, having found its row.      *)
Decrement(t) ==
  /\ stage[t] = "take"
  /\ Sees(t, Target(t)) /\ Free(t, Target(t))
  /\ View(t, Target(t)) >= -Amount(t)
  /\ Apply(t, Amount(t))

(* INSERT INTO app.movements, then the next line of the post.              *)
LogMovement(t) ==
  /\ stage[t] = "log"
  /\ logged' = [logged EXCEPT ![t] =
                  [c \in Cell |-> @[c] + RowEffect(Current(t), c)]]
  /\ at' = [at EXCEPT ![t] = @ + 1]
  /\ leg' = [leg EXCEPT ![t] = "source"]
  /\ stage' = [stage EXCEPT ![t] = LineStart(req[t], at[t] + 1)]
  /\ UNCHANGED <<committed, holder, req, pend>>

-----------------------------------------------------------------------------
(* Fault: a connection goes back to the pool with its transaction open.    *)
EndKeepingLocks(t, outcome) ==
  /\ stage' = [stage EXCEPT ![t] = outcome]
  /\ UNCHANGED <<holder, req, at, leg, pend, logged>>

(* Ends t's transaction: every row lock is released.                       *)
End(t, outcome) ==
  /\ stage' = [stage EXCEPT ![t] = outcome]
  /\ holder' = [c \in Cell |-> IF holder[c] = t THEN NoTx ELSE holder[c]]
  /\ pend' = [pend EXCEPT ![t] = Zero]
  /\ logged' = [logged EXCEPT ![t] = Zero]
  /\ UNCHANGED <<req, at, leg>>

Rollback(t) == End(t, "aborted") /\ UNCHANGED committed

Commit(t) ==
  /\ stage[t] = "commit"
  /\ rows' = rows \cup {c \in Cell : holder[c] = t}
  /\ qty' = [c \in Cell |-> qty[c] + pend[t][c]]
  /\ journal' = [c \in Cell |-> journal[c] + logged[t][c]]
  /\ End(t, "committed")

(* The conditional UPDATE matched no row: "insufficient_stock".            *)
(* A row that is too short in the statement's snapshot fails at once,      *)
(* without waiting for whoever holds it.                                   *)
Insufficient(t) ==
  /\ stage[t] = "take"
  /\ \/ ~Sees(t, Target(t))
     \/ View(t, Target(t)) < -Amount(t)
  /\ Rollback(t)

(* The process, the connection or a later statement of the handler fails.  *)
Fail(t) == stage[t] \in Open /\ Rollback(t)

(* t's next statement waits for u's row lock.                              *)
WaitsFor(t, u) ==
  /\ t # u
  /\ stage[t] \in {"lock", "upsert", "take"}
  /\ holder[Target(t)] = u
  /\ stage[t] = "lock" => Sees(t, Target(t))
  /\ stage[t] = "take" => /\ Sees(t, Target(t))
                          /\ View(t, Target(t)) >= -Amount(t)

(* PostgreSQL aborts a transaction that stands on a cycle of waits.  A     *)
(* transaction waits for one other at most, so a set in which everyone     *)
(* waits for a member and is waited for by a member is a union of cycles.  *)
OnCycle(t) ==
  \E S \in SUBSET Tx :
    /\ t \in S
    /\ \A u \in S : (\E v \in S : WaitsFor(u, v)) /\ (\E v \in S : WaitsFor(v, u))

DeadlockVictim(t) == OnCycle(t) /\ Rollback(t)

-----------------------------------------------------------------------------
Step(t) == \/ LockRow(t) \/ Upsert(t) \/ Decrement(t) \/ LogMovement(t)
           \/ Commit(t) \/ Insufficient(t) \/ DeadlockVictim(t)

(* Every request has been answered.                                        *)
AllAnswered == /\ \A t \in Tx : stage[t] \in {"committed", "aborted"}
               /\ UNCHANGED vars

Next == \/ \E t \in Tx : Begin(t) \/ Step(t) \/ Fail(t)
        \/ AllAnswered

(* An open transaction is driven on by the event loop and by the database, *)
(* which also resolves deadlocks; nobody owes a new request or a failure.  *)
Fairness == \A t \in Tx : WF_vars(Step(t))

Spec == Init /\ [][Next]_vars /\ Fairness

-----------------------------------------------------------------------------
TypeOK ==
  /\ rows \subseteq Cell
  /\ qty \in [Cell -> Int]
  /\ journal \in [Cell -> Int]
  /\ holder \in [Cell -> Tx \cup {NoTx}]
  /\ stage \in [Tx -> Stages]
  /\ req \in [Tx -> Requests \cup {<<>>}]
  /\ at \in [Tx -> Nat]
  /\ leg \in [Tx -> {"source", "dest"}]
  /\ pend \in [Tx -> [Cell -> Int]]
  /\ logged \in [Tx -> [Cell -> Int]]

(***************************************************************************)
(* No committed quantity is negative and no open transaction is about to   *)
(* commit a negative one: the conditional UPDATE closes the race that a    *)
(* read-then-write would leave open (decision D-017).                      *)
(***************************************************************************)
StockFloor ==
  \A c \in Cell : qty[c] >= 0 /\ \A t \in Tx : View(t, c) >= 0

(***************************************************************************)
(* The movement rows explain the stock: in every cell, whatever committed, *)
(* failed or was killed meanwhile, the quantity is the opening quantity    *)
(* plus the net of the rows of app.movements that name the cell.           *)
(***************************************************************************)
MovementsExplainStock == \A c \in Cell : qty[c] = Qty0[c] + journal[c]

(***************************************************************************)
(* The inductive invariant behind the two properties above, in parts.      *)
(***************************************************************************)
OnALine ==
  \A t \in Tx :
    /\ stage[t] = "idle" => at[t] = 1 /\ leg[t] = "source"
    /\ stage[t] \in Open \ {"commit"} => at[t] \in DOMAIN req[t]

(* The statement a transaction stands at fits the line it is on.           *)
StatementFits ==
  \A t \in Tx :
    /\ stage[t] \in {"lock", "upsert"} => Amount(t) > 0
    /\ stage[t] = "take" => Amount(t) < 0
    /\ stage[t] \in Open \ {"commit"} =>
         /\ leg[t] = "dest" => Current(t).type = "transfer"
         /\ stage[t] = "log" /\ Current(t).type = "transfer" => leg[t] = "dest"

(* Uncommitted changes are under the writer's lock, and only open          *)
(* transactions hold locks.                                                *)
WritesAreLocked ==
  \A t \in Tx, c \in Cell :
    /\ pend[t][c] # 0 => holder[c] = t
    /\ holder[c] = t => stage[t] \in Open

(* What t did to cell c that no movement row of t tells yet.               *)
Unlogged(t, c) ==
  CASE stage[t] = "log" -> RowEffect(Current(t), c)
    [] stage[t] \in {"lock", "upsert", "take"} /\ leg[t] = "dest"
       /\ c = <<Current(t).product, Current(t).warehouse>> -> Current(t).delta
    [] OTHER -> 0

Balanced == \A t \in Tx, c \in Cell : pend[t][c] = logged[t][c] + Unlogged(t, c)

LedgerInv == /\ TypeOK /\ OnALine /\ StatementFits /\ WritesAreLocked
             /\ Balanced /\ StockFloor /\ MovementsExplainStock

(***************************************************************************)
(* The ledger implements the book: whatever the statements of concurrent   *)
(* transactions interleave to, a request commits once, with every line it  *)
(* asked for and nothing else, in an order of commits that could have been *)
(* one post after the other from the stock of that moment; or it leaves    *)
(* neither a quantity nor a movement row.                                  *)
(***************************************************************************)
PhaseOf(s) == CASE s = "idle" -> "waiting" [] s = "committed" -> "posted"
                [] s = "aborted" -> "refused" [] OTHER -> "asked"

Book == INSTANCE StockBook WITH phase <- [t \in Tx |-> PhaseOf(stage[t])],
                                asked <- req
ImplementsBook == Book!BookSpec

(* What t's first n lines did to cell c.                                   *)
Done(t, n, c) == Book!Net(req[t], n, c)

(***************************************************************************)
(* The inductive invariant behind ImplementsBook: an open transaction has  *)
(* logged the lines before the one it is on, all of them when it commits;  *)
(* it holds every cell that these lines, or the parts of the line it is    *)
(* on, changed; and none of them would take the stock below zero now.      *)
(***************************************************************************)
LinesInOrder(t) == /\ at[t] \in 1..(Len(req[t]) + 1)
                   /\ stage[t] = "commit" => at[t] = Len(req[t]) + 1
LinesLogged(t)  == \A c \in Cell : logged[t][c] = Done(t, at[t] - 1, c)
LinesHeld(t) ==
  \A c \in Cell : \/ holder[c] = t
                  \/ /\ Unlogged(t, c) = 0
                     /\ \A i \in 1..(at[t] - 1) : Book!Effect(req[t][i], c) = 0
LinesCovered(t) ==
  \A c \in Cell, n \in 1..(at[t] - 1) : qty[c] + Done(t, n, c) >= 0

PostInv ==
  \A t \in Tx : stage[t] \in Open =>
    LinesInOrder(t) /\ LinesLogged(t) /\ LinesHeld(t) /\ LinesCovered(t)

(***************************************************************************)
(* Every transaction that starts is answered, although transactions lock   *)
(* the same rows in the order of their own lines, hence deadlock.          *)
(***************************************************************************)
EveryRequestAnswered ==
  \A t \in Tx : stage[t] \in Open ~> stage[t] \in {"committed", "aborted"}
=============================================================================
