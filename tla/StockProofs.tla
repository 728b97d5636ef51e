---------------------------- MODULE StockProofs ----------------------------
(***************************************************************************)
(* For any number of transactions, products, warehouses and any set of     *)
(* well-formed requests: the floor, the explanation of stock by movements, *)
(* and the refinement of StockBook.  Then every caller keeps the contract  *)
(* the ledger asks for, so that what is proved of the ledger is proved of  *)
(* what the handlers post.  Last the till, the ledger's busiest caller: it *)
(* agrees with the stock, and its numbers only grow.                       *)
(***************************************************************************)
EXTENDS StockCallers, PosTickets, SumTheorems, TLAPS

(* The line a transaction is on, its cell and its amount are well typed.   *)
LEMMA LineFacts ==
  ASSUME TypeOK, OnALine, NEW t \in Tx, stage[t] \in Open \ {"commit"}
  PROVE  /\ at[t] \in DOMAIN req[t]
         /\ req[t] \in Requests
         /\ Current(t) \in Line /\ WellFormed(Current(t))
         /\ Target(t) \in Cell /\ Amount(t) \in Int
<1>1. at[t] \in DOMAIN req[t]
  BY DEF OnALine
<1>2. req[t] \in Requests
  <2>1. req[t] \in Requests \cup {<<>>}
    BY DEF TypeOK
  <2>2. req[t] # <<>>
    BY <1>1
  <2> QED BY <2>1, <2>2
<1>3. Current(t) \in Line /\ WellFormed(Current(t))
  BY <1>1, <1>2, RequestsAssumption DEF Current
<1>4. Target(t) \in Cell /\ Amount(t) \in Int
  <2>1. leg[t] \in {"source", "dest"}
    BY DEF TypeOK
  <2> QED BY <1>3, <2>1 DEF Target, Amount, Line, Cell
<1> QED BY <1>1, <1>2, <1>3, <1>4

(* A movement row moves every cell by an integer.                          *)
LEMMA EffectType ==
  ASSUME NEW l \in Line, NEW c PROVE RowEffect(l, c) \in Int
<1>1. Magnitude(l) \in Int
  BY DEF Magnitude, Line
<1> QED BY <1>1 DEF RowEffect

(* The movement row of a line of quantity 0 moves nothing.                 *)
LEMMA ZeroEffect ==
  ASSUME NEW l \in Line, WellFormed(l), l.delta = 0, NEW c
  PROVE  RowEffect(l, c) = 0
<1>1. Magnitude(l) = 0
  <2>1. ~(l.delta < 0)
    OBVIOUS
  <2> QED BY <2>1 DEF Magnitude
<1>2. -Magnitude(l) = 0
  <2>1. \A x \in Int : x >= 0 /\ x =< 0 => -x = x
    OBVIOUS
  <2>2. Magnitude(l) \in Int /\ Magnitude(l) >= 0 /\ Magnitude(l) =< 0
    BY <1>1
  <2>3. -Magnitude(l) = Magnitude(l)
    BY <2>1, <2>2
  <2> QED BY <2>3, <1>1, Zenon
<1>3. l.type # "transfer"
  BY DEF WellFormed
<1> QED BY <1>1, <1>2, <1>3 DEF RowEffect

(* What has not been logged yet is an integer.                             *)
LEMMA UnloggedType ==
  ASSUME TypeOK, OnALine, NEW t \in Tx, NEW c PROVE Unlogged(t, c) \in Int
<1>1. CASE stage[t] \in Open \ {"commit"}
  BY <1>1, LineFacts, EffectType DEF Unlogged, Line
<1>2. CASE stage[t] \notin Open \ {"commit"}
  BY <1>2 DEF Unlogged, Open
<1> QED BY <1>1, <1>2

(* The first state satisfies the invariant.                                *)
LEMMA InitInv == Init => LedgerInv
<1> SUFFICES ASSUME Init PROVE LedgerInv
  OBVIOUS
<1>1. TypeOK
  BY RowsAssumption DEF Init, TypeOK, Zero, Stages
<1>2. OnALine /\ StatementFits
  BY DEF Init, OnALine, StatementFits, Open
<1>3. WritesAreLocked
  BY NoTxAssumption DEF Init, WritesAreLocked, Zero
<1>4. Balanced
  BY DEF Init, Balanced, Unlogged, Zero
<1>5. StockFloor /\ MovementsExplainStock
  BY RowsAssumption DEF Init, StockFloor, MovementsExplainStock, View, Zero
<1> QED BY <1>1, <1>2, <1>3, <1>4, <1>5 DEF LedgerInv

(* A transaction that no step touches keeps its place and its account.     *)
LEMMA Others ==
  ASSUME LedgerInv, NEW u \in Tx, NEW c,
         stage'[u] = stage[u], req'[u] = req[u], at'[u] = at[u],
         leg'[u] = leg[u]
  PROVE  /\ Current(u)' = Current(u) /\ Amount(u)' = Amount(u)
         /\ Unlogged(u, c)' = Unlogged(u, c)
BY DEF Current, Amount, Unlogged

(* Starting line i of request r: the statement fits, nothing is owed.      *)
LEMMA StartOfLine ==
  ASSUME NEW r \in Requests, NEW i, NEW c
  PROVE  /\ LineStart(r, i) \in Open \ {"upsert"}
         /\ i \in DOMAIN r =>
              /\ r[i] \in Line /\ WellFormed(r[i])
              /\ LineStart(r, i) = FirstStatement(r[i].delta)
              /\ LineStart(r, i) = "lock" => r[i].delta > 0
              /\ LineStart(r, i) = "take" => r[i].delta < 0
              /\ LineStart(r, i) = "log"  => r[i].delta = 0
         /\ i \notin DOMAIN r => LineStart(r, i) = "commit"
<1>1. CASE i \in DOMAIN r
  <2>1. r[i] \in Line /\ WellFormed(r[i])
    BY <1>1, RequestsAssumption
  <2>2. r[i].delta \in Int
    BY <2>1 DEF Line
  <2> QED BY <1>1, <2>1, <2>2 DEF LineStart, FirstStatement, Open
<1>2. CASE i \notin DOMAIN r
  BY <1>2 DEF LineStart, Open
<1> QED BY <1>1, <1>2

(* Beginning a request.                                                    *)
LEMMA BeginInv == ASSUME LedgerInv, NEW t \in Tx, Begin(t) PROVE LedgerInv'
<1> USE DEF LedgerInv
<1>1. PICK r \in Requests : /\ req' = [req EXCEPT ![t] = r]
                            /\ stage' = [stage EXCEPT ![t] = LineStart(r, 1)]
  BY DEF Begin
<1>2. /\ stage[t] = "idle" /\ at[t] = 1 /\ leg[t] = "source"
      /\ UNCHANGED <<committed, holder, at, leg, pend, logged>>
  BY DEF Begin, OnALine
<1>3. /\ stage'[t] = LineStart(r, 1) /\ req'[t] = r
      /\ \A u \in Tx \ {t} : stage'[u] = stage[u] /\ req'[u] = req[u]
  BY <1>1 DEF TypeOK
<1>4. TypeOK'
  BY <1>1, <1>2, StartOfLine DEF TypeOK, Stages, committed
<1>5. OnALine'
  BY <1>2, <1>3, StartOfLine DEF OnALine, Open
<1>6. StatementFits'
  <2> SUFFICES ASSUME NEW u \in Tx PROVE StatementFits!(u)'
    BY DEF StatementFits
  <2>1. CASE u # t
    BY <2>1, <1>2, <1>3, Others DEF StatementFits
  <2>2. CASE u = t
    BY <2>2, <1>2, <1>3, StartOfLine DEF StatementFits, Current, Amount,
       WellFormed, Open, Line
  <2> QED BY <2>1, <2>2
<1>7. WritesAreLocked'
  BY <1>2, <1>3, StartOfLine DEF WritesAreLocked, Open
<1>8. Balanced'
  <2> SUFFICES ASSUME NEW u \in Tx, NEW c \in Cell
               PROVE  pend'[u][c] = logged'[u][c] + Unlogged(u, c)'
    BY DEF Balanced
  <2>1. CASE u # t
    BY <2>1, <1>2, <1>3, Others DEF Balanced
  <2>2. CASE u = t
    <3>1. Unlogged(t, c) = 0
      BY <1>2 DEF Unlogged
    <3>2. Unlogged(t, c)' = 0
      BY <1>2, <1>3, StartOfLine, ZeroEffect DEF Unlogged, Current, Open
    <3> QED BY <2>2, <3>1, <3>2, <1>2 DEF Balanced
  <2> QED BY <2>1, <2>2
<1>9. StockFloor' /\ MovementsExplainStock'
  BY <1>2 DEF StockFloor, MovementsExplainStock, View, committed
<1> QED BY <1>4, <1>5, <1>6, <1>7, <1>8, <1>9

(* Locking a row before an increment.                                      *)
LEMMA LockRowInv == ASSUME LedgerInv, NEW t \in Tx, LockRow(t) PROVE LedgerInv'
<1> USE DEF LedgerInv
<1>1. /\ stage[t] = "lock" /\ stage' = [stage EXCEPT ![t] = "upsert"]
      /\ UNCHANGED <<rows, qty, journal, req, at, leg, pend, logged>>
  BY DEF LockRow, committed, private
<1>2. Target(t) \in Cell
  BY <1>1, LineFacts DEF Open
<1>3. /\ stage'[t] = "upsert"
      /\ \A u \in Tx \ {t} : stage'[u] = stage[u]
  BY <1>1 DEF TypeOK
<1>4. /\ holder' \in [Cell -> Tx \cup {NoTx}]
      /\ \A c \in Cell : \/ holder'[c] = holder[c]
                         \/ holder[c] \in {NoTx, t} /\ holder'[c] = t
  BY <1>2 DEF LockRow, Free, TypeOK
<1>5. TypeOK'
  BY <1>1, <1>4 DEF TypeOK, Stages, Open
<1>6. OnALine'
  BY <1>1, <1>3 DEF OnALine, Open
<1>7. StatementFits'
  BY <1>1, <1>3 DEF StatementFits, Amount, Current, Open
<1>8. WritesAreLocked'
  BY <1>1, <1>3, <1>4, NoTxAssumption DEF WritesAreLocked, Open
<1>9. Balanced'
  BY <1>1, <1>3 DEF Balanced, Unlogged, Current
<1>10. StockFloor' /\ MovementsExplainStock'
  BY <1>1 DEF StockFloor, MovementsExplainStock, View
<1> QED BY <1>5, <1>6, <1>7, <1>8, <1>9, <1>10

(* Adding an amount that keeps the cell's view at zero or above, under a   *)
(* lock that nobody else holds.                                            *)
LEMMA ApplyInv ==
  ASSUME LedgerInv, NEW t \in Tx, stage[t] \in {"upsert", "take"},
         Free(t, Target(t)), View(t, Target(t)) + Amount(t) >= 0,
         Apply(t, Amount(t))
  PROVE  LedgerInv'
<1> USE DEF LedgerInv
<1> DEFINE l == Current(t)
           here == <<l.product, l.warehouse>>
<1>1. /\ l \in Line /\ WellFormed(l) /\ Target(t) \in Cell /\ Amount(t) \in Int
      /\ l.delta \in Int /\ here \in Cell
  BY LineFacts DEF Open, Line, Cell
<1>2. /\ holder' = [holder EXCEPT ![Target(t)] = t]
      /\ pend' = [pend EXCEPT ![t][Target(t)] = @ + Amount(t)]
      /\ stage' = [stage EXCEPT ![t] = AfterLeg(t)]
      /\ leg' = [leg EXCEPT ![t] = IF l.type = "transfer" THEN "dest" ELSE @]
      /\ UNCHANGED <<rows, qty, journal, req, at, logged>>
  BY DEF Apply, committed
<1>3. /\ stage'[t] = AfterLeg(t)
      /\ leg'[t] = IF l.type = "transfer" THEN "dest" ELSE leg[t]
      /\ \A u \in Tx \ {t} : stage'[u] = stage[u] /\ leg'[u] = leg[u]
                             /\ pend'[u] = pend[u]
      /\ \A c \in Cell : pend'[t][c] = IF c = Target(t)
                                       THEN pend[t][c] + Amount(t)
                                       ELSE pend[t][c]
      /\ \A c \in Cell : holder'[c] = IF c = Target(t) THEN t ELSE holder[c]
  BY <1>1, <1>2 DEF TypeOK
<1>4. /\ l.type = "transfer" /\ leg[t] = "source" =>
           AfterLeg(t) = "lock" /\ l.delta < 0
      /\ ~(l.type = "transfer" /\ leg[t] = "source") => AfterLeg(t) = "log"
  BY <1>1 DEF AfterLeg, FirstStatement, WellFormed
<1>5. Current(t)' = l
  BY <1>2 DEF Current
<1>6. TypeOK'
  <2>1. pend' \in [Tx -> [Cell -> Int]]
    BY <1>1, <1>2 DEF TypeOK
  <2>2. stage' \in [Tx -> Stages]
    BY <1>2, <1>4 DEF TypeOK, Stages, Open
  <2> QED BY <2>1, <2>2, <1>1, <1>2 DEF TypeOK
<1>7. OnALine'
  BY <1>2, <1>3, <1>4 DEF OnALine, Open
<1>8. StatementFits'
  <2> SUFFICES ASSUME NEW u \in Tx PROVE StatementFits!(u)'
    BY DEF StatementFits
  <2>1. CASE u # t
    BY <2>1, <1>2, <1>3, Others DEF StatementFits
  <2>2. CASE u = t
    <3>1. stage'[t] = AfterLeg(t) /\ leg[t] \in {"source", "dest"}
      BY <1>3 DEF TypeOK
    <3>2. CASE l.type = "transfer" /\ leg[t] = "source"
      <4>1. stage'[t] = "lock" /\ leg'[t] = "dest" /\ l.delta < 0 /\ l.delta \in Int
        BY <1>1, <1>3, <1>4, <3>1, <3>2
      <4>2. Amount(t)' = -l.delta
        BY <1>5, <4>1 DEF Amount
      <4> QED BY <1>5, <2>2, <3>2, <4>1, <4>2 DEF Open
    <3>3. CASE ~(l.type = "transfer" /\ leg[t] = "source")
      <4>1. stage'[t] = "log" /\ (leg'[t] = "dest" => l.type = "transfer")
        BY <1>3, <1>4, <3>1, <3>3 DEF StatementFits, Open
      <4>2. l.type = "transfer" => leg'[t] = "dest"
        BY <1>3
      <4> QED BY <1>5, <2>2, <4>1, <4>2 DEF Open
    <3> QED BY <3>2, <3>3
  <2> QED BY <2>1, <2>2
<1>9. WritesAreLocked'
  <2> SUFFICES ASSUME NEW u \in Tx, NEW c \in Cell
               PROVE  /\ pend'[u][c] # 0 => holder'[c] = u
                      /\ holder'[c] = u => stage'[u] \in Open
    BY DEF WritesAreLocked
  <2>1. CASE u = t
    BY <2>1, <1>3, <1>4 DEF WritesAreLocked, Open
  <2>2. CASE u # t
    BY <2>2, <1>3, NoTxAssumption DEF WritesAreLocked, Free
  <2> QED BY <2>1, <2>2
<1>10. Balanced'
  <2> SUFFICES ASSUME NEW u \in Tx, NEW c \in Cell
               PROVE  pend'[u][c] = logged'[u][c] + Unlogged(u, c)'
    BY DEF Balanced
  <2>1. CASE u # t
    BY <2>1, <1>2, <1>3, Others DEF Balanced
  <2>2. CASE u = t
    <3>1. Unlogged(t, c)' = Unlogged(t, c) + (IF c = Target(t) THEN Amount(t)
                                                               ELSE 0)
      <4>1. CASE leg[t] = "source" /\ l.type = "transfer"
        BY <4>1, <1>1, <1>3, <1>4, <1>5 DEF Unlogged, Target, Amount
      <4>2. CASE leg[t] = "source" /\ l.type # "transfer"
        BY <4>2, <1>1, <1>3, <1>4, <1>5
        DEF Unlogged, Target, Amount, RowEffect, Magnitude, WellFormed, Line
      <4>3. CASE leg[t] = "dest"
        <5>1. l.type = "transfer" /\ l.delta < 0 /\ l.to # l.warehouse
          BY <4>3, <1>1 DEF StatementFits, WellFormed, Open
        <5> QED BY <4>3, <5>1, <1>1, <1>3, <1>4, <1>5
                DEF Unlogged, Target, Amount, RowEffect, Magnitude
      <4> QED BY <4>1, <4>2, <4>3 DEF TypeOK
    <3>2. pend[t][c] = logged[t][c] + Unlogged(t, c)
      BY DEF Balanced
    <3>3. Unlogged(t, c) \in Int /\ logged[t][c] \in Int /\ pend[t][c] \in Int
      BY UnloggedType DEF TypeOK
    <3> QED BY <2>2, <3>1, <3>2, <3>3, <1>1, <1>2, <1>3
  <2> QED BY <2>1, <2>2
<1>11. StockFloor' /\ MovementsExplainStock'
  BY <1>1, <1>2, <1>3 DEF StockFloor, MovementsExplainStock, View, TypeOK
<1> QED BY <1>6, <1>7, <1>8, <1>9, <1>10, <1>11

(* The two statements that change a quantity.                              *)
LEMMA UpsertInv == ASSUME LedgerInv, NEW t \in Tx, Upsert(t) PROVE LedgerInv'
<1>1. Target(t) \in Cell /\ Amount(t) \in Int /\ Amount(t) > 0
  BY LineFacts DEF Upsert, Open, LedgerInv, StatementFits
<1>2. View(t, Target(t)) \in Int /\ View(t, Target(t)) >= 0
  BY <1>1 DEF LedgerInv, StockFloor, View, TypeOK
<1> QED BY <1>1, <1>2, ApplyInv DEF Upsert

LEMMA DecrementInv == ASSUME LedgerInv, NEW t \in Tx, Decrement(t) PROVE LedgerInv'
<1>1. Target(t) \in Cell /\ Amount(t) \in Int
  BY LineFacts DEF Decrement, Open, LedgerInv
<1>2. View(t, Target(t)) \in Int
  BY <1>1 DEF LedgerInv, View, TypeOK
<1> QED BY <1>1, <1>2, ApplyInv DEF Decrement

(* Inserting the movement row of a line and starting the next one.         *)
LEMMA LogMovementInv ==
  ASSUME LedgerInv, NEW t \in Tx, LogMovement(t) PROVE LedgerInv'
<1> USE DEF LedgerInv
<1> DEFINE l == Current(t)
           r == req[t]
           i == at[t] + 1
<1>1. /\ stage[t] = "log" /\ l \in Line /\ WellFormed(l) /\ r \in Requests
      /\ at[t] \in Nat /\ at[t] \in DOMAIN r
  BY LineFacts DEF LogMovement, Open, TypeOK
<1>2. /\ logged' = [logged EXCEPT ![t] = [c \in Cell |-> @[c] + RowEffect(l, c)]]
      /\ at' = [at EXCEPT ![t] = i]
      /\ leg' = [leg EXCEPT ![t] = "source"]
      /\ stage' = [stage EXCEPT ![t] = LineStart(r, i)]
      /\ UNCHANGED <<rows, qty, journal, holder, req, pend>>
  BY DEF LogMovement, committed
<1>3. /\ stage'[t] = LineStart(r, i) /\ at'[t] = i /\ leg'[t] = "source"
      /\ \A c \in Cell : logged'[t][c] = logged[t][c] + RowEffect(l, c)
      /\ \A u \in Tx \ {t} : /\ stage'[u] = stage[u] /\ at'[u] = at[u]
                             /\ leg'[u] = leg[u] /\ logged'[u] = logged[u]
  BY <1>2 DEF TypeOK
<1>4. TypeOK'
  <2>1. logged' \in [Tx -> [Cell -> Int]]
    BY <1>1, <1>2, EffectType DEF TypeOK
  <2>2. LineStart(r, i) \in Stages
    BY <1>1, StartOfLine DEF Stages
  <2> QED BY <2>1, <2>2, <1>1, <1>2 DEF TypeOK
<1>5. OnALine'
  BY <1>1, <1>2, <1>3, StartOfLine DEF OnALine, Open
<1>6. StatementFits'
  <2> SUFFICES ASSUME NEW u \in Tx PROVE StatementFits!(u)'
    BY DEF StatementFits
  <2>1. CASE u # t
    BY <2>1, <1>2, <1>3, Others DEF StatementFits
  <2>2. CASE u = t
    BY <2>2, <1>1, <1>2, <1>3, StartOfLine DEF StatementFits, Current, Amount,
       WellFormed, Open, Line
  <2> QED BY <2>1, <2>2
<1>7. WritesAreLocked'
  BY <1>1, <1>2, <1>3, StartOfLine DEF WritesAreLocked, Open
<1>8. Balanced'
  <2> SUFFICES ASSUME NEW u \in Tx, NEW c \in Cell
               PROVE  pend'[u][c] = logged'[u][c] + Unlogged(u, c)'
    BY DEF Balanced
  <2>1. CASE u # t
    BY <2>1, <1>2, <1>3, Others DEF Balanced
  <2>2. CASE u = t
    <3>1. Unlogged(t, c) = RowEffect(l, c)
      BY <1>1 DEF Unlogged
    <3>2. Unlogged(t, c)' = 0
      BY <1>1, <1>2, <1>3, StartOfLine, ZeroEffect DEF Unlogged, Current, Open
    <3>3. pend[t][c] = logged[t][c] + RowEffect(l, c)
      BY <3>1 DEF Balanced
    <3>4. pend[t][c] \in Int
      BY DEF TypeOK
    <3> QED BY <2>2, <3>2, <3>3, <3>4, <1>2, <1>3
  <2> QED BY <2>1, <2>2
<1>9. StockFloor' /\ MovementsExplainStock'
  BY <1>2 DEF StockFloor, MovementsExplainStock, View
<1> QED BY <1>4, <1>5, <1>6, <1>7, <1>8, <1>9

(* What every end of a transaction does to the bookkeeping of the others.  *)
LEMMA EndFacts ==
  ASSUME LedgerInv, NEW t \in Tx, NEW outcome \in {"committed", "aborted"},
         End(t, outcome)
  PROVE  /\ OnALine' /\ StatementFits' /\ WritesAreLocked' /\ Balanced'
         /\ \A c \in Cell : pend'[t][c] = 0
         /\ \A u \in Tx \ {t} : pend'[u] = pend[u]
         /\ holder' \in [Cell -> Tx \cup {NoTx}]
         /\ stage' \in [Tx -> Stages]
         /\ pend' \in [Tx -> [Cell -> Int]] /\ logged' \in [Tx -> [Cell -> Int]]
<1> USE DEF LedgerInv
<1>1. /\ stage' = [stage EXCEPT ![t] = outcome]
      /\ holder' = [c \in Cell |-> IF holder[c] = t THEN NoTx ELSE holder[c]]
      /\ pend' = [pend EXCEPT ![t] = Zero]
      /\ logged' = [logged EXCEPT ![t] = Zero]
      /\ UNCHANGED <<req, at, leg>>
  BY DEF End
<1>2. Zero \in [Cell -> Int] /\ \A c \in Cell : Zero[c] = 0
  BY DEF Zero
<1>3. /\ stage'[t] = outcome /\ pend'[t] = Zero /\ logged'[t] = Zero
      /\ \A u \in Tx \ {t} : /\ stage'[u] = stage[u] /\ pend'[u] = pend[u]
                             /\ logged'[u] = logged[u]
  BY <1>1 DEF TypeOK
<1>4. OnALine'
  BY <1>1, <1>3 DEF OnALine, Open
<1>5. StatementFits'
  <2> SUFFICES ASSUME NEW u \in Tx PROVE StatementFits!(u)'
    BY DEF StatementFits
  <2>1. CASE u # t
    BY <2>1, <1>1, <1>3, Others DEF StatementFits
  <2>2. CASE u = t
    BY <2>2, <1>3 DEF Open
  <2> QED BY <2>1, <2>2
<1>6. WritesAreLocked'
  BY <1>1, <1>2, <1>3, NoTxAssumption DEF WritesAreLocked
<1>7. Balanced'
  <2> SUFFICES ASSUME NEW u \in Tx, NEW c \in Cell
               PROVE  pend'[u][c] = logged'[u][c] + Unlogged(u, c)'
    BY DEF Balanced
  <2>1. CASE u # t
    BY <2>1, <1>1, <1>3, Others DEF Balanced
  <2>2. CASE u = t
    <3>1. Unlogged(t, c)' = 0
      BY <1>3 DEF Unlogged
    <3> QED BY <2>2, <3>1, <1>2, <1>3
  <2> QED BY <2>1, <2>2
<1>8. /\ holder' \in [Cell -> Tx \cup {NoTx}]
      /\ stage' \in [Tx -> Stages]
      /\ pend' \in [Tx -> [Cell -> Int]] /\ logged' \in [Tx -> [Cell -> Int]]
  BY <1>1, <1>2 DEF TypeOK, Stages
<1> QED BY <1>2, <1>3, <1>4, <1>5, <1>6, <1>7, <1>8

(* Rolling back, for whatever reason.                                      *)
LEMMA RollbackInv ==
  ASSUME LedgerInv, NEW t \in Tx, Rollback(t) PROVE LedgerInv'
<1> USE DEF LedgerInv
<1>1. End(t, "aborted") /\ UNCHANGED <<rows, qty, journal>>
  BY DEF Rollback, committed
<1>2. TypeOK'
  BY <1>1, EndFacts DEF TypeOK, End
<1>3. MovementsExplainStock'
  BY <1>1 DEF MovementsExplainStock
<1>4. StockFloor'
  <2>1. /\ \A c \in Cell : pend'[t][c] = 0
        /\ \A u \in Tx \ {t} : pend'[u] = pend[u]
    BY <1>1, EndFacts
  <2>2. \A c \in Cell : qty[c] \in Int /\ qty[c] + 0 = qty[c]
    BY DEF TypeOK
  <2> QED BY <1>1, <2>1, <2>2 DEF StockFloor, View
<1> QED BY <1>1, <1>2, <1>3, <1>4, EndFacts

(* At its commit a transaction's movement rows tell exactly what it did.   *)
LEMMA CommitBalanced ==
  ASSUME LedgerInv, NEW t \in Tx, stage[t] = "commit", NEW c \in Cell
  PROVE  pend[t][c] = logged[t][c] /\ pend[t][c] \in Int
<1>1. Unlogged(t, c) = 0
  BY DEF Unlogged
<1> QED BY <1>1 DEF LedgerInv, Balanced, TypeOK

LEMMA CommitInv == ASSUME LedgerInv, NEW t \in Tx, Commit(t) PROVE LedgerInv'
<1> USE DEF LedgerInv
<1>1. /\ stage[t] = "commit" /\ End(t, "committed")
      /\ rows' = rows \cup {c \in Cell : holder[c] = t}
      /\ qty' = [c \in Cell |-> qty[c] + pend[t][c]]
      /\ journal' = [c \in Cell |-> journal[c] + logged[t][c]]
  BY DEF Commit
<1>2. TypeOK'
  <2>1. qty' \in [Cell -> Int] /\ journal' \in [Cell -> Int]
    <3>1. \A c \in Cell : /\ qty[c] + pend[t][c] \in Int
                         /\ journal[c] + logged[t][c] \in Int
      BY DEF TypeOK
    <3> QED BY <1>1, <3>1
  <2>2. rows' \subseteq Cell /\ UNCHANGED <<req, at, leg>>
    BY <1>1 DEF TypeOK, End
  <2>3. /\ holder' \in [Cell -> Tx \cup {NoTx}]
        /\ stage' \in [Tx -> Stages]
        /\ pend' \in [Tx -> [Cell -> Int]] /\ logged' \in [Tx -> [Cell -> Int]]
    BY <1>1, EndFacts
  <2> QED BY <2>1, <2>2, <2>3 DEF TypeOK
<1>3. StockFloor'
  <2> SUFFICES ASSUME NEW c \in Cell
               PROVE  qty'[c] >= 0 /\ \A u \in Tx : qty'[c] + pend'[u][c] >= 0
    BY DEF StockFloor, View
  <2>1. qty'[c] = qty[c] + pend[t][c] /\ qty'[c] >= 0
    BY <1>1 DEF StockFloor, View
  <2>2. pend'[t][c] = 0 /\ qty'[c] \in Int
    BY <1>1, <1>2, EndFacts DEF TypeOK
  <2>3. ASSUME NEW u \in Tx \ {t} PROVE qty'[c] + pend'[u][c] >= 0
    <3>1. pend'[u][c] = pend[u][c]
      BY <1>1, EndFacts
    <3>2. CASE pend[u][c] = 0
      BY <3>1, <3>2, <2>1, <2>2
    <3>3. CASE pend[u][c] # 0
      <4>1. pend[t][c] = 0
        BY <3>3 DEF WritesAreLocked
      <4> QED BY <4>1, <3>1, <2>1 DEF StockFloor, View, TypeOK
    <3> QED BY <3>2, <3>3
  <2> QED BY <2>1, <2>2, <2>3
<1>4. MovementsExplainStock'
  BY <1>1, CommitBalanced, RowsAssumption DEF MovementsExplainStock, TypeOK
<1> QED BY <1>1, <1>2, <1>3, <1>4, EndFacts

(* Every step of every transaction preserves the invariant.                *)
LEMMA NextInv == LedgerInv /\ [Next]_vars => LedgerInv'
<1> SUFFICES ASSUME LedgerInv, [Next]_vars PROVE LedgerInv'
  OBVIOUS
<1>1. ASSUME NEW t \in Tx, Begin(t) PROVE LedgerInv'
  BY <1>1, BeginInv
<1>2. ASSUME NEW t \in Tx, Step(t) PROVE LedgerInv'
  BY <1>2, LockRowInv, UpsertInv, DecrementInv, LogMovementInv, CommitInv,
     RollbackInv DEF Step, Insufficient, DeadlockVictim
<1>3. ASSUME NEW t \in Tx, Fail(t) PROVE LedgerInv'
  BY <1>3, RollbackInv DEF Fail
<1>4. ASSUME UNCHANGED vars PROVE LedgerInv'
  BY <1>4 DEF LedgerInv, vars, committed, private, TypeOK, OnALine,
     StatementFits, WritesAreLocked, Balanced, StockFloor,
     MovementsExplainStock, View, Current, Amount, Unlogged
<1> QED BY <1>1, <1>2, <1>3, <1>4 DEF Next, AllAnswered

(* The inductive invariant holds in every reachable state.                 *)
THEOREM Invariance == Spec => []LedgerInv
BY InitInv, NextInv, PTL DEF Spec

(* Every variable keeps its type.                                          *)
THEOREM Typing == Spec => []TypeOK
<1>1. LedgerInv => TypeOK
  BY DEF LedgerInv
<1> QED BY <1>1, Invariance, PTL

(* No interleaving of posts takes a committed quantity below zero, or lets *)
(* an open transaction stand ready to: the conditional UPDATE of           *)
(* StockLedgerService.applyDelta is enough, at READ COMMITTED.             *)
THEOREM FloorHolds == Spec => []StockFloor
<1>1. LedgerInv => StockFloor
  BY DEF LedgerInv
<1> QED BY <1>1, Invariance, PTL

(* Committed stock always equals opening stock plus the movement rows:     *)
(* neither rollbacks nor half-done transfers leave a trace in one only.    *)
THEOREM MovementsExplain == Spec => []MovementsExplainStock
<1>1. LedgerInv => MovementsExplainStock
  BY DEF LedgerInv
<1> QED BY <1>1, Invariance, PTL

-----------------------------------------------------------------------------
(* The book adds up as the community modules do.                           *)
LEMMA BookSum ==
  ASSUME NEW f, NEW S PROVE Book!SumFunctionOnSet(f, S) = SumFunctionOnSet(f, S)
BY DEF Book!SumFunctionOnSet, SumFunctionOnSet, Book!FoldFunctionOnSet,
       FoldFunctionOnSet, Book!MapThenFoldSet, MapThenFoldSet

(* The book's reading of a line is the one of its movement row.            *)
LEMMA EffectIsRow ==
  ASSUME NEW l \in Line, WellFormed(l), NEW c
  PROVE  Book!Effect(l, c) = RowEffect(l, c) /\ Book!Effect(l, c) \in Int
<1>1. /\ l.delta \in Int /\ l.type \in {"in", "out", "transfer"}
      /\ l.product \in Product /\ l.warehouse \in Warehouse /\ l.to \in Warehouse
  BY DEF Line
<1>2. /\ l.type = "in" => l.delta >= 0
      /\ l.type = "out" => l.delta =< 0
      /\ l.type = "transfer" => l.delta < 0 /\ l.to # l.warehouse
  BY DEF WellFormed
<1>3. Book!Effect(l, c) \in Int
  BY <1>1 DEF Book!Effect
<1>4. Book!Effect(l, c) = RowEffect(l, c)
  <2>1. CASE l.type = "in"
    BY <1>1, <1>2, <2>1 DEF Book!Effect, RowEffect, Magnitude
  <2>2. CASE l.type = "out"
    BY <1>1, <1>2, <2>2 DEF Book!Effect, RowEffect, Magnitude
  <2>3. CASE l.type = "transfer"
    BY <1>1, <1>2, <2>3 DEF Book!Effect, RowEffect, Magnitude
  <2> QED BY <1>1, <2>1, <2>2, <2>3
<1> QED BY <1>3, <1>4

(* What a request does, line after line.                                   *)
LEMMA NetFacts ==
  ASSUME NEW r \in Requests \cup {<<>>}, NEW c
  PROVE  /\ r \in Seq(Line) /\ DOMAIN r = 1..Len(r) /\ Len(r) \in Nat
         /\ \A i \in DOMAIN r : r[i] \in Line /\ WellFormed(r[i])
         /\ Book!Net(r, 0, c) = 0
         /\ \A n \in 0..Len(r) : Book!Net(r, n, c) \in Int
         /\ \A n \in 0..(Len(r) - 1) :
              Book!Net(r, n + 1, c) = Book!Net(r, n, c) + Book!Effect(r[n + 1], c)
         /\ \A n \in 0..Len(r) :
              (\A i \in 1..n : Book!Effect(r[i], c) = 0) => Book!Net(r, n, c) = 0
<1> PICK f : f = [i \in DOMAIN r |-> Book!Effect(r[i], c)]
  OBVIOUS
<1>1. /\ r \in Seq(Line) /\ DOMAIN r = 1..Len(r) /\ Len(r) \in Nat
      /\ \A i \in DOMAIN r : r[i] \in Line /\ WellFormed(r[i])
  <2>1. CASE r \in Requests
    <3>1. r \in Seq(Line) /\ \A i \in DOMAIN r : WellFormed(r[i])
      BY <2>1, RequestsAssumption
    <3> QED BY <3>1
  <2>2. CASE r = <<>>
    BY <2>2
  <2> QED BY <2>1, <2>2
<1>2. \A i \in DOMAIN r : f[i] \in Int /\ f[i] = Book!Effect(r[i], c)
  BY <1>1, EffectIsRow
<1>3. \A n : Book!Net(r, n, c) = SumFunctionOnSet(f, 1..n)
  BY BookSum DEF Book!Net
<1>4. Book!Net(r, 0, c) = 0
  <2>1. 1..0 = {}
    OBVIOUS
  <2> QED BY <1>3, <2>1, SumOfNone
<1>5. ASSUME NEW n \in 0..Len(r)
      PROVE  /\ IsFiniteSet(1..n) /\ 1..n \subseteq DOMAIN r
             /\ Book!Net(r, n, c) \in Int
  <2>1. IsFiniteSet(1..n) /\ 1..n \subseteq DOMAIN r
    BY <1>1, FS_Interval
  <2>2. SumFunctionOnSet(f, 1..n) \in Int
    BY <1>2, <2>1, SumIsInt
  <2> QED BY <1>3, <2>1, <2>2
<1>6. ASSUME NEW n \in 0..(Len(r) - 1)
      PROVE  Book!Net(r, n + 1, c) = Book!Net(r, n, c) + Book!Effect(r[n + 1], c)
  <2>1. n \in 0..Len(r) /\ n + 1 \in DOMAIN r /\ n + 1 \notin 1..n
        /\ 1..(n + 1) = (1..n) \cup {n + 1}
    BY <1>1
  <2>2. IsFiniteSet(1..n) /\ \A y \in 1..n : f[y] \in Int
    BY <1>2, <1>5, <2>1
  <2>3. f[n + 1] \in Int /\ f[n + 1] = Book!Effect(r[n + 1], c)
    BY <1>2, <2>1
  <2>4. SumFunctionOnSet(f, (1..n) \cup {n + 1}) = SumFunctionOnSet(f, 1..n) + f[n + 1]
    <3>1. PICK S, x : S = 1..n /\ x = n + 1
      OBVIOUS
    <3>2. IsFiniteSet(S) /\ (\A y \in S : f[y] \in Int) /\ x \notin S /\ f[x] \in Int
      BY <2>1, <2>2, <2>3, <3>1
    <3>3. SumFunctionOnSet(f, S \cup {x}) = SumFunctionOnSet(f, S) + f[x]
      BY <3>2, SumGrows
    <3> QED BY <3>1, <3>3, Zenon
  <2> QED BY <1>3, <2>1, <2>3, <2>4
<1>7. ASSUME NEW n \in 0..Len(r), \A i \in 1..n : Book!Effect(r[i], c) = 0
      PROVE  Book!Net(r, n, c) = 0
  <2>1. IsFiniteSet(1..n) /\ \A i \in 1..n : f[i] = 0
    BY <1>2, <1>5, <1>7
  <2> QED BY <1>3, <2>1, SumOfZeros
<1> QED BY <1>1, <1>4, <1>5, <1>6, <1>7

(* Where a transaction is when it starts line i of its request.            *)
LEMMA LineOrCommit ==
  ASSUME NEW r \in Requests, NEW i \in 1..(Len(r) + 1), LineStart(r, i) = "commit"
  PROVE  i = Len(r) + 1
<1>1. DOMAIN r = 1..Len(r) /\ Len(r) \in Nat
  BY NetFacts
<1>2. i \notin DOMAIN r
  <2>1. ASSUME i \in DOMAIN r PROVE FALSE
    <3>1. r[i].delta \in Int /\ LineStart(r, i) = FirstStatement(r[i].delta)
      BY <2>1, NetFacts DEF Line, LineStart
    <3> QED BY <3>1 DEF FirstStatement
  <2> QED BY <2>1
<1> QED BY <1>1, <1>2

LEMMA InitPost == Init => PostInv
BY DEF Init, PostInv, Open

(* An open transaction keeps its account of its lines through a step of    *)
(* another, which holds every cell that it changes.                        *)
LEMMA OthersPost ==
  ASSUME LedgerInv, LedgerInv', PostInv, NEW u \in Tx, stage[u] \in Open,
         stage'[u] = stage[u], req'[u] = req[u], at'[u] = at[u], leg'[u] = leg[u],
         logged'[u] = logged[u],
         \A c \in Cell : holder[c] = u => holder'[c] = u /\ qty'[c] = qty[c]
  PROVE  LinesInOrder(u)' /\ LinesLogged(u)' /\ LinesHeld(u)' /\ LinesCovered(u)'
<1> PICK r, k : r = req[u] /\ k = at[u]
  OBVIOUS
<1>1. LinesInOrder(u) /\ LinesLogged(u) /\ LinesHeld(u) /\ LinesCovered(u)
  BY DEF PostInv
<1>2. r \in Requests \cup {<<>>} /\ k \in 1..(Len(r) + 1) /\ k - 1 \in 0..Len(r)
      /\ Len(r) \in Nat
  <2>1. r \in Requests \cup {<<>>}
    BY DEF LedgerInv, TypeOK
  <2>2. k \in 1..(Len(r) + 1) /\ Len(r) \in Nat
    BY <1>1, <2>1, NetFacts DEF LinesInOrder
  <2> QED BY <2>1, <2>2
<1>3. LinesInOrder(u)' /\ LinesLogged(u)'
  BY <1>1 DEF LinesInOrder, LinesLogged, Done, Book!Net, Book!Effect
<1>4. LinesHeld(u)'
  <2> SUFFICES ASSUME NEW c \in Cell
               PROVE  \/ holder'[c] = u
                      \/ /\ Unlogged(u, c)' = 0
                         /\ \A i \in 1..(k - 1) : Book!Effect(r[i], c) = 0
    BY DEF LinesHeld, Book!Effect
  <2>1. Unlogged(u, c)' = Unlogged(u, c)
    BY Others
  <2> QED BY <1>1, <2>1 DEF LinesHeld
<1>5. LinesCovered(u)'
  <2> SUFFICES ASSUME NEW c \in Cell, NEW n \in 1..(k - 1)
               PROVE  qty'[c] + Book!Net(r, n, c) >= 0
    BY DEF LinesCovered, Done, Book!Net, Book!Effect
  <2>1. CASE holder[c] = u
    BY <1>1, <2>1 DEF LinesCovered, Done
  <2>2. CASE holder[c] # u
    <3>1. n \in 0..Len(r) /\ \A i \in 1..n : Book!Effect(r[i], c) = 0
      BY <1>1, <1>2, <2>2 DEF LinesHeld
    <3>2. Book!Net(r, n, c) = 0
      BY <1>2, <3>1, NetFacts
    <3>3. qty'[c] >= 0 /\ qty'[c] \in Int
      BY DEF LedgerInv, TypeOK, StockFloor
    <3> QED BY <3>2, <3>3
  <2> QED BY <2>1, <2>2
<1> QED BY <1>3, <1>4, <1>5

(* A transaction that begins has done nothing yet.                         *)
LEMMA BeginPost ==
  ASSUME LedgerInv, LedgerInv', PostInv, NEW t \in Tx, Begin(t) PROVE PostInv'
<1>1. PICK r \in Requests : /\ req' = [req EXCEPT ![t] = r]
                            /\ stage' = [stage EXCEPT ![t] = LineStart(r, 1)]
  BY DEF Begin
<1>2. /\ stage[t] = "idle" /\ at[t] = 1 /\ leg[t] = "source"
      /\ UNCHANGED <<rows, qty, journal, holder, at, leg, pend, logged>>
  BY DEF Begin, OnALine, LedgerInv, committed
<1>3. /\ stage'[t] = LineStart(r, 1) /\ req'[t] = r /\ at'[t] = 1
      /\ \A u \in Tx \ {t} : stage'[u] = stage[u] /\ req'[u] = req[u]
  BY <1>1, <1>2 DEF LedgerInv, TypeOK
<1> SUFFICES ASSUME NEW u \in Tx, stage'[u] \in Open
             PROVE  LinesInOrder(u)' /\ LinesLogged(u)' /\ LinesHeld(u)' /\ LinesCovered(u)'
  BY DEF PostInv
<1>4. CASE u # t
  BY <1>2, <1>3, <1>4, OthersPost
<1>5. CASE u = t
  <2>1. Len(r) \in Nat /\ 1 \in 1..(Len(r) + 1)
    BY NetFacts
  <2>2. LinesInOrder(t)'
    BY <1>3, <2>1, LineOrCommit DEF LinesInOrder
  <2>3. \A c \in Cell : logged[t][c] = 0 /\ Unlogged(t, c)' = 0
    <3> SUFFICES ASSUME NEW c \in Cell PROVE logged[t][c] = 0 /\ Unlogged(t, c)' = 0
      OBVIOUS
    <3>1. Unlogged(t, c) = 0
      BY <1>2 DEF Unlogged
    <3>2. pend[t][c] = 0
      BY <1>2 DEF LedgerInv, WritesAreLocked, Open
    <3>3. logged[t][c] \in Int /\ pend[t][c] = logged[t][c] + 0
      BY <3>1 DEF LedgerInv, TypeOK, Balanced
    <3>4. Unlogged(t, c)' = 0
      BY <1>2, <1>3, StartOfLine, ZeroEffect DEF Unlogged, Current, Open
    <3> QED BY <3>2, <3>3, <3>4
  <2>4. LinesLogged(t)'
    <3> SUFFICES ASSUME NEW c \in Cell PROVE logged'[t][c] = Book!Net(req'[t], at'[t] - 1, c)
      BY DEF LinesLogged, Done, Book!Net, Book!Effect
    <3>1. Book!Net(r, 0, c) = 0 /\ at'[t] - 1 = 0
      BY <1>3, NetFacts
    <3> QED BY <1>2, <1>3, <2>3, <3>1
  <2>5. 1..(at'[t] - 1) = {}
    BY <1>3
  <2> QED BY <1>5, <2>2, <2>3, <2>4, <2>5 DEF LinesHeld, LinesCovered
<1> QED BY <1>4, <1>5

(* Locking a row changes nothing that was done.                            *)
LEMMA LockRowPost ==
  ASSUME LedgerInv, LedgerInv', PostInv, NEW t \in Tx, LockRow(t) PROVE PostInv'
<1>1. /\ stage[t] = "lock" /\ stage' = [stage EXCEPT ![t] = "upsert"]
      /\ UNCHANGED <<rows, qty, journal, req, at, leg, pend, logged>>
  BY DEF LockRow, committed, private
<1>2. Target(t) \in Cell
  BY <1>1, LineFacts DEF Open, LedgerInv
<1>3. /\ stage'[t] = "upsert"
      /\ \A u \in Tx \ {t} : stage'[u] = stage[u]
  BY <1>1 DEF TypeOK, LedgerInv
<1>4. \A c \in Cell : \/ holder'[c] = holder[c]
                      \/ holder[c] \in {NoTx, t} /\ holder'[c] = t
  BY <1>2 DEF LockRow, Free, TypeOK, LedgerInv
<1> SUFFICES ASSUME NEW u \in Tx, stage'[u] \in Open
             PROVE  LinesInOrder(u)' /\ LinesLogged(u)' /\ LinesHeld(u)' /\ LinesCovered(u)'
  BY DEF PostInv
<1>5. CASE u # t
  BY <1>1, <1>3, <1>4, <1>5, OthersPost, NoTxAssumption
<1>6. CASE u = t
  <2>1. LinesInOrder(t) /\ LinesLogged(t) /\ LinesHeld(t) /\ LinesCovered(t)
    BY <1>1 DEF PostInv, Open
  <2>2. LinesInOrder(t)' /\ LinesLogged(t)' /\ LinesCovered(t)'
    BY <1>1, <1>3, <2>1 DEF LinesInOrder, LinesLogged, LinesCovered, Done, Book!Net, Book!Effect
  <2>3. \A c \in Cell : Unlogged(t, c)' = Unlogged(t, c)
    BY <1>1, <1>3 DEF Unlogged, Current
  <2>4. LinesHeld(t)'
    BY <1>1, <1>4, <2>1, <2>3 DEF LinesHeld, Book!Effect
  <2> QED BY <1>6, <2>2, <2>4
<1> QED BY <1>5, <1>6

(* A statement that changes a cell does so under its lock.                 *)
LEMMA ApplyPost ==
  ASSUME LedgerInv, LedgerInv', PostInv, NEW t \in Tx, stage[t] \in {"upsert", "take"},
         Free(t, Target(t)), Apply(t, Amount(t))
  PROVE  PostInv'
<1> DEFINE l == Current(t)
<1>1. Target(t) \in Cell /\ l \in Line /\ WellFormed(l)
  BY LineFacts DEF Open, LedgerInv
<1>2. /\ holder' = [holder EXCEPT ![Target(t)] = t]
      /\ stage' = [stage EXCEPT ![t] = AfterLeg(t)]
      /\ leg' = [leg EXCEPT ![t] = IF l.type = "transfer" THEN "dest" ELSE @]
      /\ UNCHANGED <<rows, qty, journal, req, at, logged>>
  BY DEF Apply, committed
<1>3. /\ stage'[t] = AfterLeg(t)
      /\ leg'[t] = IF l.type = "transfer" THEN "dest" ELSE leg[t]
      /\ \A u \in Tx \ {t} : stage'[u] = stage[u] /\ leg'[u] = leg[u]
      /\ \A c \in Cell : holder'[c] = IF c = Target(t) THEN t ELSE holder[c]
  BY <1>1, <1>2 DEF TypeOK, LedgerInv
<1> SUFFICES ASSUME NEW u \in Tx, stage'[u] \in Open
             PROVE  LinesInOrder(u)' /\ LinesLogged(u)' /\ LinesHeld(u)' /\ LinesCovered(u)'
  BY DEF PostInv
<1>4. CASE u # t
  BY <1>2, <1>3, <1>4, OthersPost, NoTxAssumption DEF Free
<1>5. CASE u = t
  <2>1. LinesInOrder(t) /\ LinesLogged(t) /\ LinesHeld(t) /\ LinesCovered(t)
    BY DEF PostInv, Open
  <2>2. AfterLeg(t) # "commit" /\ (AfterLeg(t) # "log" => /\ l.type = "transfer"
                                                        /\ leg[t] = "source")
    BY <1>1 DEF AfterLeg, FirstStatement, Line, WellFormed
  <2>3. LinesInOrder(t)'
    BY <1>2, <1>3, <2>1, <2>2 DEF LinesInOrder
  <2>4. LinesLogged(t)' /\ LinesCovered(t)'
    BY <1>2, <2>1 DEF LinesLogged, LinesCovered, Done, Book!Net, Book!Effect
  <2>5. LinesHeld(t)'
    <3> SUFFICES ASSUME NEW c \in Cell
                 PROVE  \/ holder'[c] = t
                        \/ /\ Unlogged(t, c)' = 0
                           /\ \A i \in 1..(at[t] - 1) : Book!Effect(req[t][i], c) = 0
      BY <1>2 DEF LinesHeld, Book!Effect
    <3>1. CASE c = Target(t)
      BY <1>3, <3>1
    <3>2. CASE c # Target(t)
      <4>1. Unlogged(t, c)' = Unlogged(t, c)
        <5>1. pend'[t][c] = pend[t][c] /\ logged'[t][c] = logged[t][c]
          BY <1>1, <1>2, <3>2 DEF Apply, LedgerInv, TypeOK
        <5>2. /\ pend[t][c] = logged[t][c] + Unlogged(t, c)
              /\ pend'[t][c] = logged'[t][c] + Unlogged(t, c)'
          BY DEF LedgerInv, Balanced
        <5>3. Unlogged(t, c) \in Int /\ Unlogged(t, c)' \in Int /\ logged[t][c] \in Int
          <6>1. Unlogged(t, c) \in Int /\ logged[t][c] \in Int
            BY UnloggedType DEF LedgerInv, TypeOK
          <6>2. Unlogged(t, c)' \in Int
            <7>1. Current(t)' = l
              BY <1>2 DEF Current
            <7>2. RowEffect(l, c) \in Int /\ l.delta \in Int
              BY <1>1, EffectType DEF Line
            <7> QED BY <7>1, <7>2 DEF Unlogged, RowEffect
          <6> QED BY <6>1, <6>2
        <5> QED BY <5>1, <5>2, <5>3
      <4> QED BY <1>3, <2>1, <3>2, <4>1 DEF LinesHeld
    <3> QED BY <3>1, <3>2
  <2> QED BY <1>5, <2>3, <2>4, <2>5
<1> QED BY <1>4, <1>5

(* Logging a line makes it one more that is done.                          *)
LEMMA LogMovementPost ==
  ASSUME LedgerInv, LedgerInv', PostInv, NEW t \in Tx, LogMovement(t) PROVE PostInv'
<1> DEFINE l == Current(t)
<1> PICK r, k : r = req[t] /\ k = at[t]
  OBVIOUS
<1>1. /\ stage[t] = "log" /\ l \in Line /\ WellFormed(l) /\ r \in Requests
      /\ k \in Nat /\ k \in DOMAIN r /\ l = r[k]
  BY LineFacts DEF LogMovement, Open, TypeOK, LedgerInv, Current
<1>2. /\ logged' = [logged EXCEPT ![t] = [c \in Cell |-> @[c] + RowEffect(l, c)]]
      /\ at' = [at EXCEPT ![t] = k + 1]
      /\ leg' = [leg EXCEPT ![t] = "source"]
      /\ stage' = [stage EXCEPT ![t] = LineStart(r, k + 1)]
      /\ UNCHANGED <<rows, qty, journal, holder, req, pend>>
  BY DEF LogMovement, committed
<1>3. /\ stage'[t] = LineStart(r, k + 1) /\ at'[t] = k + 1
      /\ \A c \in Cell : logged'[t][c] = logged[t][c] + RowEffect(l, c)
      /\ \A u \in Tx \ {t} : /\ stage'[u] = stage[u] /\ at'[u] = at[u]
                             /\ leg'[u] = leg[u] /\ logged'[u] = logged[u]
  BY <1>2 DEF TypeOK, LedgerInv
<1> SUFFICES ASSUME NEW u \in Tx, stage'[u] \in Open
             PROVE  LinesInOrder(u)' /\ LinesLogged(u)' /\ LinesHeld(u)' /\ LinesCovered(u)'
  BY DEF PostInv
<1>4. CASE u # t
  BY <1>2, <1>3, <1>4, OthersPost
<1>5. CASE u = t
  <2>1. LinesInOrder(t) /\ LinesLogged(t) /\ LinesHeld(t) /\ LinesCovered(t)
    BY <1>1 DEF PostInv, Open
  <2>2. /\ Len(r) \in Nat /\ k \in 1..Len(r) /\ k - 1 \in 0..(Len(r) - 1)
        /\ k + 1 \in 1..(Len(r) + 1) /\ (k - 1) + 1 = k /\ (k + 1) - 1 = k
    <3>1. DOMAIN r = 1..Len(r) /\ Len(r) \in Nat
      BY <1>1, NetFacts
    <3> QED BY <1>1, <3>1
  <2>3. LinesInOrder(t)'
    BY <1>1, <1>2, <1>3, <2>2, LineOrCommit DEF LinesInOrder
  <2>4. \A c \in Cell : /\ logged'[t][c] = Book!Net(r, k, c)
                        /\ Unlogged(t, c) = Book!Effect(l, c)
                        /\ Unlogged(t, c)' = 0
    <3> SUFFICES ASSUME NEW c \in Cell
                 PROVE  /\ logged'[t][c] = Book!Net(r, k, c)
                        /\ Unlogged(t, c) = Book!Effect(l, c)
                        /\ Unlogged(t, c)' = 0
      OBVIOUS
    <3>1. Book!Effect(l, c) = RowEffect(l, c)
      BY <1>1, EffectIsRow
    <3>2. Book!Net(r, (k - 1) + 1, c) = Book!Net(r, k - 1, c) + Book!Effect(r[(k - 1) + 1], c)
      BY <1>1, <2>2, NetFacts
    <3>3. Book!Net(r, k, c) = Book!Net(r, k - 1, c) + Book!Effect(l, c)
      BY <1>1, <2>2, <3>2
    <3>4. logged[t][c] = Book!Net(r, k - 1, c)
      BY <2>1 DEF LinesLogged, Done
    <3>5. Unlogged(t, c) = RowEffect(l, c)
      BY <1>1 DEF Unlogged
    <3>6. Unlogged(t, c)' = 0
      <4>1. Current(t)' = r[k + 1] /\ leg'[t] = "source"
        BY <1>2, <1>3 DEF Current, LedgerInv, TypeOK
      <4>2. CASE k + 1 \in DOMAIN r
        <5>1. /\ r[k + 1] \in Line /\ WellFormed(r[k + 1])
              /\ LineStart(r, k + 1) = "log" => r[k + 1].delta = 0
          BY <1>1, <4>2, StartOfLine
        <5>2. r[k + 1].delta = 0 => RowEffect(r[k + 1], c) = 0
          BY <5>1, ZeroEffect
        <5> QED BY <1>3, <4>1, <5>1, <5>2 DEF Unlogged
      <4>3. CASE k + 1 \notin DOMAIN r
        <5>1. stage'[t] = "commit"
          BY <1>3, <4>3 DEF LineStart
        <5> QED BY <5>1 DEF Unlogged
      <4> QED BY <4>2, <4>3
    <3> QED BY <1>3, <3>1, <3>3, <3>4, <3>5, <3>6
  <2>5. LinesLogged(t)'
    <3> SUFFICES ASSUME NEW c \in Cell PROVE logged'[t][c] = Book!Net(req'[t], at'[t] - 1, c)
      BY DEF LinesLogged, Done, Book!Net, Book!Effect
    <3> QED BY <1>2, <1>3, <2>2, <2>4
  <2>6. LinesHeld(t)'
    <3> SUFFICES ASSUME NEW c \in Cell
                 PROVE  \/ holder[c] = t
                        \/ /\ Unlogged(t, c)' = 0
                           /\ \A i \in 1..k : Book!Effect(r[i], c) = 0
      BY <1>2, <1>3, <2>2 DEF LinesHeld, Book!Effect
    <3>1. CASE holder[c] # t
      <4>1. Unlogged(t, c) = 0 /\ \A i \in 1..(k - 1) : Book!Effect(r[i], c) = 0
        BY <2>1, <3>1 DEF LinesHeld
      <4>2. Book!Effect(r[k], c) = 0
        BY <1>1, <2>4, <4>1
      <4>3. \A i \in 1..k : i \in 1..(k - 1) \/ i = k
        BY <2>2
      <4> QED BY <2>4, <4>1, <4>2, <4>3
    <3> QED BY <3>1
  <2>7. LinesCovered(t)'
    <3> SUFFICES ASSUME NEW c \in Cell, NEW n \in 1..k
                 PROVE  qty[c] + Book!Net(r, n, c) >= 0
      BY <1>2, <1>3, <2>2 DEF LinesCovered, Done, Book!Net, Book!Effect
    <3>1. CASE n \in 1..(k - 1)
      BY <2>1, <3>1 DEF LinesCovered, Done
    <3>2. CASE n = k
      <4>1. pend'[t][c] = logged'[t][c] + 0 /\ logged'[t][c] \in Int
        BY <2>4 DEF LedgerInv, Balanced, TypeOK
      <4>2. qty'[c] + pend'[t][c] >= 0
        BY DEF LedgerInv, StockFloor, View
      <4> QED BY <1>2, <2>4, <3>2, <4>1, <4>2
    <3>3. n \in 1..(k - 1) \/ n = k
      BY <2>2
    <3> QED BY <3>1, <3>2, <3>3
  <2> QED BY <1>5, <2>3, <2>5, <2>6, <2>7
<1> QED BY <1>4, <1>5

(* The end of a transaction leaves the others what they hold.              *)
LEMMA EndPost ==
  ASSUME LedgerInv, LedgerInv', PostInv, NEW t \in Tx,
         NEW outcome \in {"committed", "aborted"}, End(t, outcome),
         \A c \in Cell : holder[c] # t => qty'[c] = qty[c]
  PROVE  PostInv'
<1>1. /\ stage' = [stage EXCEPT ![t] = outcome]
      /\ holder' = [c \in Cell |-> IF holder[c] = t THEN NoTx ELSE holder[c]]
      /\ logged' = [logged EXCEPT ![t] = Zero]
      /\ UNCHANGED <<req, at, leg>>
  BY DEF End
<1>2. /\ stage'[t] \notin Open
      /\ \A u \in Tx \ {t} : stage'[u] = stage[u] /\ logged'[u] = logged[u]
  BY <1>1 DEF LedgerInv, TypeOK, Open
<1> SUFFICES ASSUME NEW u \in Tx, stage'[u] \in Open
             PROVE  LinesInOrder(u)' /\ LinesLogged(u)' /\ LinesHeld(u)' /\ LinesCovered(u)'
  BY DEF PostInv
<1>3. u # t
  BY <1>2
<1>4. \A c \in Cell : holder[c] = u => holder'[c] = u /\ qty'[c] = qty[c]
  BY <1>1, <1>3
<1> QED BY <1>1, <1>2, <1>3, <1>4, OthersPost

(* A commit changes cells that its transaction holds.                      *)
LEMMA CommitChanges ==
  ASSUME LedgerInv, NEW t \in Tx, Commit(t), NEW c \in Cell, holder[c] # t
  PROVE  qty'[c] = qty[c]
<1>1. pend[t][c] = 0 /\ qty[c] \in Int
  BY DEF LedgerInv, WritesAreLocked, TypeOK
<1> QED BY <1>1 DEF Commit

(* Every step of every transaction preserves it.                           *)
LEMMA NextPost == LedgerInv /\ LedgerInv' /\ PostInv /\ [Next]_vars => PostInv'
<1> SUFFICES ASSUME LedgerInv, LedgerInv', PostInv, [Next]_vars PROVE PostInv'
  OBVIOUS
<1>1. ASSUME NEW t \in Tx, Begin(t) PROVE PostInv'
  BY <1>1, BeginPost
<1>2. ASSUME NEW t \in Tx, LockRow(t) PROVE PostInv'
  BY <1>2, LockRowPost
<1>3. ASSUME NEW t \in Tx, Upsert(t) \/ Decrement(t) PROVE PostInv'
  BY <1>3, ApplyPost DEF Upsert, Decrement
<1>4. ASSUME NEW t \in Tx, LogMovement(t) PROVE PostInv'
  BY <1>4, LogMovementPost
<1>5. ASSUME NEW t \in Tx, Commit(t) PROVE PostInv'
  BY <1>5, CommitChanges, EndPost DEF Commit
<1>6. ASSUME NEW t \in Tx, Rollback(t) PROVE PostInv'
  BY <1>6, EndPost DEF Rollback, committed
<1>7. ASSUME UNCHANGED vars PROVE PostInv'
  BY <1>7 DEF vars, committed, private, PostInv, LinesInOrder, LinesLogged, LinesHeld,
     LinesCovered, Done, Unlogged, Current, Book!Net, Book!Effect
<1> QED BY <1>1, <1>2, <1>3, <1>4, <1>5, <1>6, <1>7
        DEF Next, Step, AllAnswered, Insufficient, DeadlockVictim, Fail

(* Every open transaction is on its way through its whole request.         *)
THEOREM PostInvariance == Spec => []PostInv
BY InitPost, NextPost, Invariance, PTL DEF Spec

-----------------------------------------------------------------------------
(* Where the book has the transaction whose stage changed.                 *)
LEMMA PhaseMoves ==
  ASSUME TypeOK, NEW t \in Tx, NEW s, stage' = [stage EXCEPT ![t] = s]
  PROVE  [u \in Tx |-> PhaseOf(stage[u])]' =
         [[u \in Tx |-> PhaseOf(stage[u])] EXCEPT ![t] = PhaseOf(s)]
<1>1. \A u \in Tx : stage'[u] = IF u = t THEN s ELSE stage[u]
  BY DEF TypeOK
<1>2. \A u \in Tx : PhaseOf(stage'[u]) = IF u = t THEN PhaseOf(s) ELSE PhaseOf(stage[u])
  BY <1>1
<1> QED BY <1>2

(* A commit is one post of the abstract book.                              *)
LEMMA CommitIsPost ==
  ASSUME LedgerInv, PostInv, NEW t \in Tx, Commit(t) PROVE Book!Post(t)
<1> PICK r, n : r = req[t] /\ n = Len(req[t])
  OBVIOUS
<1>1. /\ stage[t] = "commit" /\ stage' = [stage EXCEPT ![t] = "committed"]
      /\ qty' = [c \in Cell |-> qty[c] + pend[t][c]]
      /\ journal' = [c \in Cell |-> journal[c] + logged[t][c]]
      /\ UNCHANGED <<req, at, leg>>
  BY DEF Commit, End
<1>2. LinesInOrder(t) /\ LinesLogged(t) /\ LinesCovered(t)
  BY <1>1 DEF PostInv, Open
<1>3. r \in Requests \cup {<<>>} /\ DOMAIN r = 1..n /\ n \in Nat
  <2>1. r \in Requests \cup {<<>>}
    BY DEF LedgerInv, TypeOK
  <2> QED BY <2>1, NetFacts
<1>4. at[t] = n + 1 /\ at[t] - 1 = n
  BY <1>1, <1>2, <1>3 DEF LinesInOrder
<1>5. \A c \in Cell : pend[t][c] = Book!Net(r, n, c) /\ logged[t][c] = Book!Net(r, n, c)
  BY <1>1, <1>2, <1>4, CommitBalanced DEF LinesLogged, Done
<1>6. \A i \in DOMAIN r, c \in Cell : qty[c] + Book!Net(r, i, c) >= 0
  BY <1>2, <1>3, <1>4 DEF LinesCovered, Done
<1>7. /\ qty' = [c \in Cell |-> qty[c] + Book!Net(r, n, c)]
      /\ journal' = [c \in Cell |-> journal[c] + Book!Net(r, n, c)]
  BY <1>1, <1>5
<1>8. /\ [u \in Tx |-> PhaseOf(stage[u])][t] = "asked"
      /\ [u \in Tx |-> PhaseOf(stage[u])]' =
         [[u \in Tx |-> PhaseOf(stage[u])] EXCEPT ![t] = "posted"]
  BY <1>1, PhaseMoves DEF PhaseOf, LedgerInv
<1>9. Book!Cell = Cell
  BY DEF Book!Cell, Cell
<1> QED BY <1>1, <1>6, <1>7, <1>8, <1>9 DEF Book!Post

LEMMA RollbackIsRefusal ==
  ASSUME LedgerInv, NEW t \in Tx, stage[t] \in Open, Rollback(t) PROVE Book!Refuse(t)
<1>1. /\ stage' = [stage EXCEPT ![t] = "aborted"] /\ UNCHANGED <<qty, journal, req>>
  BY DEF Rollback, End, committed
<1>2. /\ [u \in Tx |-> PhaseOf(stage[u])][t] = "asked"
      /\ [u \in Tx |-> PhaseOf(stage[u])]' =
         [[u \in Tx |-> PhaseOf(stage[u])] EXCEPT ![t] = "refused"]
  BY <1>1, PhaseMoves DEF PhaseOf, LedgerInv, Open
<1> QED BY <1>1, <1>2 DEF Book!Refuse

LEMMA BeginIsAsking ==
  ASSUME LedgerInv, NEW t \in Tx, Begin(t) PROVE Book!Ask(t)
<1>1. PICK r \in Requests : /\ req' = [req EXCEPT ![t] = r]
                            /\ stage' = [stage EXCEPT ![t] = LineStart(r, 1)]
  BY DEF Begin
<1>2. stage[t] = "idle" /\ UNCHANGED <<qty, journal>> /\ LineStart(r, 1) \in Open
  BY StartOfLine DEF Begin, committed
<1>3. /\ [u \in Tx |-> PhaseOf(stage[u])][t] = "waiting"
      /\ [u \in Tx |-> PhaseOf(stage[u])]' =
         [[u \in Tx |-> PhaseOf(stage[u])] EXCEPT ![t] = "asked"]
  BY <1>1, <1>2, PhaseMoves DEF PhaseOf, LedgerInv, Open
<1> QED BY <1>1, <1>2, <1>3 DEF Book!Ask

(* The other statements stay within the phase "asked".                     *)
LEMMA WorkIsUnseen ==
  ASSUME LedgerInv, LedgerInv', NEW t \in Tx,
         LockRow(t) \/ Upsert(t) \/ Decrement(t) \/ LogMovement(t)
  PROVE  UNCHANGED Book!bookVars
<1>1. stage[t] \in Open /\ UNCHANGED <<qty, journal, req>>
  BY DEF LockRow, Upsert, Decrement, Apply, LogMovement, Open, committed, private
<1>2. PICK s : stage' = [stage EXCEPT ![t] = s] /\ s \in Open
  <2>1. CASE LockRow(t)
    BY <2>1 DEF LockRow, Open
  <2>2. CASE Upsert(t) \/ Decrement(t)
    <3>1. stage' = [stage EXCEPT ![t] = AfterLeg(t)]
      BY <2>2 DEF Upsert, Decrement, Apply
    <3>2. Current(t) \in Line
      BY <2>2, LineFacts DEF Upsert, Decrement, Open, LedgerInv
    <3>3. AfterLeg(t) \in Open
      BY <3>2 DEF AfterLeg, FirstStatement, Open, Line
    <3> QED BY <3>1, <3>3
  <2>3. CASE LogMovement(t)
    <3>1. req[t] \in Requests
      BY <2>3, LineFacts DEF LogMovement, LedgerInv, Open
    <3> QED BY <2>3, <3>1, StartOfLine DEF LogMovement
  <2> QED BY <2>1, <2>2, <2>3
<1>3. \A u \in Tx : PhaseOf(stage'[u]) = PhaseOf(stage[u])
  <2>1. \A u \in Tx : stage'[u] = IF u = t THEN s ELSE stage[u]
    BY <1>2 DEF LedgerInv, TypeOK
  <2>2. PhaseOf(s) = "asked" /\ PhaseOf(stage[t]) = "asked"
    BY <1>1, <1>2 DEF PhaseOf, Open
  <2> QED BY <2>1, <2>2
<1> QED BY <1>1, <1>3 DEF Book!bookVars

(* The ledger implements the book: seen from committed data, what the      *)
(* statements, locks, deadlocks and failures of any number of transactions *)
(* interleave to is requests that are answered once, each by one post of   *)
(* all of its lines that keeps the floor line by line, or by none of them. *)
THEOREM Refinement == Spec => ImplementsBook
<1>1. Init => Book!BookInit
  BY DEF Init, Book!BookInit, Zero, PhaseOf, Cell, Book!Cell
<1>2. LedgerInv /\ LedgerInv' /\ PostInv /\ [Next]_vars => [Book!BookNext]_(Book!bookVars)
  <2> SUFFICES ASSUME LedgerInv, LedgerInv', PostInv, [Next]_vars
               PROVE  Book!BookNext \/ UNCHANGED Book!bookVars
    OBVIOUS
  <2>1. ASSUME NEW t \in Tx, Begin(t) PROVE Book!BookNext
    BY <2>1, BeginIsAsking DEF Book!BookNext
  <2>2. ASSUME NEW t \in Tx, Commit(t) PROVE Book!BookNext
    BY <2>2, CommitIsPost DEF Book!BookNext
  <2>3. ASSUME NEW t \in Tx, Fail(t) \/ Insufficient(t) \/ DeadlockVictim(t) PROVE Book!BookNext
    <3>1. stage[t] \in Open /\ Rollback(t)
      <4>1. CASE Fail(t) \/ Insufficient(t)
        BY <4>1 DEF Fail, Insufficient, Open
      <4>2. CASE DeadlockVictim(t)
        BY <4>2 DEF DeadlockVictim, OnCycle, WaitsFor, Open
      <4> QED BY <2>3, <4>1, <4>2
    <3> QED BY <3>1, RollbackIsRefusal DEF Book!BookNext
  <2>4. ASSUME NEW t \in Tx, LockRow(t) \/ Upsert(t) \/ Decrement(t) \/ LogMovement(t)
        PROVE  UNCHANGED Book!bookVars
    BY <2>4, WorkIsUnseen
  <2>5. ASSUME UNCHANGED vars PROVE UNCHANGED Book!bookVars
    BY <2>5 DEF vars, committed, private, Book!bookVars
  <2> QED BY <2>1, <2>2, <2>3, <2>4, <2>5 DEF Next, Step, AllAnswered
<1> QED BY <1>1, <1>2, Invariance, PostInvariance, PTL DEF Spec, ImplementsBook, Book!BookSpec

-----------------------------------------------------------------------------
(* What the callers post.                                                  *)
Good(post) == post \in Seq(Line) /\ \A i \in DOMAIN post : WellFormed(post[i])

(* Items become lines of one direction, one each.                          *)
LEMMA GoodLines ==
  ASSUME NEW type \in {"in", "out"}, NEW sign \in Int, NEW w \in Warehouse,
         sign = IF type = "in" THEN 1 ELSE -1,
         NEW items \in Seq(Item)
  PROVE  Good(Lines(type, w, items, sign))
<1> DEFINE post == Lines(type, w, items, sign)
<1>1. ASSUME NEW i \in DOMAIN items
      PROVE  post[i] \in Line /\ WellFormed(post[i])
  <2>1. items[i].product \in Product /\ items[i].qty \in Nat /\ items[i].qty > 0
    <3>1. items[i] \in Item
      OBVIOUS
    <3> QED BY <3>1 DEF Item
  <2>2. post[i] = Posted(type, w, items[i].product, sign * items[i].qty)
    BY DEF Lines
  <2>3. sign * items[i].qty \in Int /\ (type = "in" => sign * items[i].qty >= 0)
                                    /\ (type = "out" => sign * items[i].qty =< 0)
    BY <2>1
  <2> QED BY <2>1, <2>2, <2>3 DEF Posted, Line, WellFormed
<1>2. DOMAIN post = DOMAIN items /\ DOMAIN items = 1 .. Len(items) /\ Len(items) \in Nat
  BY DEF Lines
<1>3. post \in [1 .. Len(items) -> Line]
  BY <1>1, <1>2 DEF Lines
<1>4. post \in Seq(Line)
  BY <1>2, <1>3
<1> QED BY <1>1, <1>2, <1>4 DEF Good

(* One post after the other is a post.                                     *)
LEMMA GoodConcatenation ==
  ASSUME NEW a, NEW b, Good(a), Good(b) PROVE Good(a \o b)
<1>1. a \in Seq(Line) /\ b \in Seq(Line)
  BY DEF Good
<1>2. a \o b \in Seq(Line)
  BY <1>1
<1>3. ASSUME NEW i \in DOMAIN (a \o b) PROVE WellFormed((a \o b)[i])
  <2>1. CASE i \in DOMAIN a
    <3>1. (a \o b)[i] = a[i]
      BY <1>1, <2>1
    <3> QED BY <2>1, <3>1 DEF Good
  <2>2. CASE i \notin DOMAIN a
    <3>1. i - Len(a) \in DOMAIN b /\ (a \o b)[i] = b[i - Len(a)]
      BY <1>1, <1>3, <2>2
    <3> QED BY <3>1 DEF Good
  <2> QED BY <2>1, <2>2
<1> QED BY <1>2, <1>3 DEF Good

(* One line is a post of its own.                                          *)
LEMMA GoodOne == ASSUME NEW l \in Line, WellFormed(l) PROVE Good(<<l>>)
  BY DEF Good

(* Whatever a movement, an adjustment, a ticket, an order, a receipt, a    *)
(* signed note or a count asks for, the post it becomes is one the ledger  *)
(* is meant for: no transfer gives to its source, nothing called an entry  *)
(* takes, and nothing called an exit gives.                                *)
THEOREM CallersKeepTheContract ==
  /\ \A b \in MovementBody : Good(Recorded(b))
  /\ \A w \in Warehouse, p \in Product, d \in Int \ {0} : Good(Adjusted(w, p, d))
  /\ \A w \in Warehouse, items \in Seq(Item) :
       /\ Good(Sold(w, items)) /\ Good(Shipped(w, items)) /\ Good(Received(w, items))
       /\ \A kind \in {"out", "in_", "retour"} : Good(Signed(kind, w, items))
  /\ \A w \in Warehouse, found, missing \in Seq(Item) : Good(Counted(w, found, missing))
<1>1. ASSUME NEW b \in MovementBody PROVE Good(Recorded(b))
  <2> DEFINE l == [type |-> b.type, product |-> b.product, warehouse |-> b.warehouse,
                   to |-> b.to, delta |-> IF b.type = "in" THEN b.qty ELSE -b.qty]
  <2>1. l \in Line /\ WellFormed(l)
    BY DEF MovementBody, Line, WellFormed
  <2>2. Good(<<l>>)
    BY <2>1, GoodOne
  <2> QED BY <2>2 DEF Recorded
<1>2. ASSUME NEW w \in Warehouse, NEW p \in Product, NEW d \in Int \ {0}
      PROVE  Good(Adjusted(w, p, d))
  <2> DEFINE l == Posted(IF d > 0 THEN "in" ELSE "out", w, p, d)
  <2>1. l \in Line /\ WellFormed(l)
    BY DEF Posted, Line, WellFormed
  <2>2. Good(<<l>>)
    BY <2>1, GoodOne
  <2> QED BY <2>2 DEF Adjusted
<1>3. ASSUME NEW w \in Warehouse, NEW items \in Seq(Item)
      PROVE  Good(Lines("out", w, items, -1)) /\ Good(Lines("in", w, items, 1))
  BY GoodLines
<1>4. ASSUME NEW w \in Warehouse, NEW found \in Seq(Item), NEW missing \in Seq(Item)
      PROVE  Good(Counted(w, found, missing))
  BY <1>3, GoodConcatenation DEF Counted
<1> QED BY <1>1, <1>2, <1>3, <1>4 DEF Sold, Shipped, Received, Signed

-----------------------------------------------------------------------------
(* The till.                                                               *)
(* Where a request is in its transaction, and when it holds the lock.      *)
Active == {"lines", "stock", "lock", "number", "write"}
Locked == {"number", "write"}
Phases == Active \cup {"new", "done", "failed", "no_session"}

Sale == [biz : Biz, ref : Nat, qty : Nat]
Job == [kind : AllKinds \cup {"none"}, biz : Biz \cup {None}, qty : Nat,
        customer : BOOLEAN, replaces : Id \cup {None}, number : Nat]

TillTyped ==
  /\ ticket \in [Id -> Ticket \cup {None}]
  /\ moved \in SUBSET Sale /\ IsFiniteSet(moved)
  /\ stock \in [Biz -> Nat] /\ purchases \in [Biz -> Nat]
  /\ session \in Session \cup {None}
  /\ lock \in [Biz -> Req \cup {None}]
  /\ phase \in [Req -> Phases]
  /\ job \in [Req -> Job]
  /\ \A b \in Biz : IsFiniteSet(Numbers(b))

(* Before its commit a request has no ticket.  A request that knows its    *)
(* number holds the lock, and the number is above all others until it      *)
(* commits; what it replaces is gone or of its own business, and made by a *)
(* request that has ended.                                                 *)
JobRight(r) ==
  /\ phase[r] # "done" => ticket[r] = None
  /\ phase[r] \in Active => job[r].biz \in Biz
  /\ phase[r] = "lines" => job[r].replaces # None
  /\ phase[r] \in Locked => lock[job[r].biz] = r
  /\ phase[r] = "write" => job[r].number > MaxNumber(job[r].biz)
  /\ phase[r] \in Active /\ job[r].replaces # None =>
       /\ ticket[job[r].replaces] # None => ticket[job[r].replaces].biz = job[r].biz
       /\ job[r].replaces \in Req => phase[job[r].replaces] = "done"

(* The numbers of the first tickets stay counted, and the sales of the day *)
(* add up.                                                                 *)
SeedsCounted == \A i \in Seed : Ticket0[i].number =< MaxNumber(Ticket0[i].biz)
BooksAgree(b) ==
  LET today == Stock0[b] - stock[b]
  IN  /\ today = Qty(NewSales(b))
      /\ session = None => today = 0
      /\ session # None /\ session.biz = b => session.revenue = today
      /\ purchases[b] =< today
Backed(i) ==
  ticket[i] # None /\ ~ticket[i].parked /\ ticket[i].qty > 0 =>
    [biz |-> ticket[i].biz, ref |-> ticket[i].number, qty |-> ticket[i].qty] \in moved

TillInv ==
  /\ TillTyped
  /\ \A r \in Req : JobRight(r)
  /\ SeedsCounted
  /\ \A b \in Biz : BooksAgree(b)
  /\ \A i \in Id : Backed(i)

-----------------------------------------------------------------------------
LEMMA HighestOf ==
  ASSUME NEW S, IsFiniteSet(S), S \subseteq Nat
  PROVE  /\ Max({0} \cup S) \in Nat
         /\ \A n \in S : n =< Max({0} \cup S)
<1>1. IsFiniteSet({0} \cup S)
  BY FS_Union, FS_Singleton
<1>2. PICK T : T = {0} \cup S
  OBVIOUS
<1>3. T \subseteq Int /\ T # {} /\ T \subseteq Nat
  BY <1>2
<1>4. Max(T) \in T /\ \A n \in T : n =< Max(T)
  BY <1>1, <1>2, <1>3, FiniteHasMax
<1> QED BY <1>2, <1>3, <1>4

(* A number above the highest becomes the highest, whatever goes.          *)
LEMMA HigherIsHighest ==
  ASSUME NEW S \in SUBSET Nat, IsFiniteSet(S),
         NEW n \in Nat, n > Max({0} \cup S), NEW T \in SUBSET (S \cup {n}), n \in T
  PROVE  IsFiniteSet(T) /\ T \subseteq Nat /\ Max({0} \cup T) = n
<1>1. IsFiniteSet(S \cup {n})
  BY FS_Union, FS_Singleton
<1>2. IsFiniteSet(T)
  BY <1>1, FS_Subset
<1>3. IsFiniteSet({0} \cup T)
  BY <1>2, FS_Union, FS_Singleton
<1>4. PICK m : m = Max({0} \cup T)
  OBVIOUS
<1>5. m \in {0} \cup T /\ n =< m
  <2>1. {0} \cup T \subseteq Int /\ {0} \cup T # {}
    OBVIOUS
  <2> QED BY <1>3, <1>4, <2>1, FiniteHasMax
<1>6. \A k \in S : k =< Max({0} \cup S)
  BY HighestOf
<1>7. Max({0} \cup S) \in Nat
  BY HighestOf
<1>8. \A k \in {0} \cup T : k =< n /\ k \in Nat
  BY <1>6, <1>7
<1> QED BY <1>2, <1>4, <1>5, <1>8

LEMMA SalesAddUp ==
  ASSUME NEW S \in SUBSET Sale, IsFiniteSet(S)
  PROVE  /\ Qty(S) \in Nat
         /\ \A m \in Sale \ S : Qty(S \cup {m}) = Qty(S) + m.qty
<1>1. PICK f : f = [m \in S |-> m.qty]
  OBVIOUS
<1>2. Qty(S) = SumFunctionOnSet(f, S) /\ \A m \in S : f[m] \in Nat /\ f[m] \in Int
  BY <1>1 DEF Qty, SumFunction, Sale
<1>3. SumFunctionOnSet(f, S) \in Nat
  BY <1>2, SumIsNat
<1>4. ASSUME NEW m \in Sale \ S PROVE Qty(S \cup {m}) = Qty(S) + m.qty
  <2>1. PICK g : g = [n \in S \cup {m} |-> n.qty]
    OBVIOUS
  <2>2. /\ Qty(S \cup {m}) = SumFunctionOnSet(g, S \cup {m})
        /\ g[m] = m.qty /\ g[m] \in Int /\ \A n \in S : g[n] \in Int
    BY <2>1 DEF Qty, SumFunction, Sale
  <2>3. \A n \in S : f[n] \in Int /\ f[n] = g[n]
    BY <1>1, <1>2, <2>1
  <2>4. SumFunctionOnSet(f, S) = SumFunctionOnSet(g, S)
    BY <2>3, SumOfSame
  <2>5. SumFunctionOnSet(g, S \cup {m}) = SumFunctionOnSet(g, S) + g[m]
    BY <2>2, SumGrows
  <2> QED BY <1>2, <2>2, <2>4, <2>5
<1> QED BY <1>2, <1>3, <1>4

-----------------------------------------------------------------------------
(* A step that leaves the tables alone.                                    *)
LEMMA TillReads ==
  ASSUME TillInv, NEW r \in Req, NEW next \in Phases, NEW j \in Job,
         UNCHANGED database, phase[r] # "done", next # "done",
         phase' = [phase EXCEPT ![r] = next], job' = [job EXCEPT ![r] = j],
         lock' \in [Biz -> Req \cup {None}],
         \A b \in Biz : lock[b] \in Req \ {r} => lock'[b] = lock[b],
         next \in Active => j.biz \in Biz,
         next = "lines" => j.replaces # None,
         next \in Locked => lock'[j.biz] = r,
         next = "write" => j.number > MaxNumber(j.biz),
         next \in Active /\ j.replaces # None =>
           /\ ticket[j.replaces] # None => ticket[j.replaces].biz = j.biz
           /\ j.replaces \in Req => phase[j.replaces] = "done"
  PROVE  TillInv'
<1>1. /\ ticket' = ticket /\ moved' = moved /\ stock' = stock /\ session' = session
      /\ purchases' = purchases
  BY DEF database
<1>2. (\A b : Numbers(b)' = Numbers(b)) /\ \A b : MaxNumber(b)' = MaxNumber(b)
  BY <1>1 DEF Numbers, MaxNumber, TicketsOf, Existing, SalesOf
<1>3. TillTyped'
  BY <1>1, <1>2 DEF TillInv, TillTyped
<1>4. ASSUME NEW q \in Req PROVE JobRight(q)'
  <2>1. CASE q = r
    <3>1. phase'[q] = next /\ job'[q] = j
      BY <2>1 DEF TillInv, TillTyped
    <3>2. j.replaces \in Req /\ phase[j.replaces] = "done" => phase'[j.replaces] = "done"
      BY DEF TillInv, TillTyped
    <3>3. ticket[q] = None
      BY <2>1 DEF TillInv, JobRight
    <3> QED BY <1>1, <1>2, <2>1, <3>1, <3>2, <3>3 DEF JobRight
  <2>2. CASE q # r
    <3>1. phase'[q] = phase[q] /\ job'[q] = job[q] /\ JobRight(q)
      BY <2>2 DEF TillInv, TillTyped
    <3>2. \A i \in Req : phase[i] = "done" => phase'[i] = "done"
      BY DEF TillInv, TillTyped
    <3>3. phase[q] \in Locked => phase[q] \in Active
      BY DEF Locked, Active
    <3>4. phase[q] \in Locked => lock'[job[q].biz] = q
      BY <2>2, <3>1, <3>3 DEF JobRight
    <3> QED BY <1>1, <1>2, <3>1, <3>2, <3>4 DEF JobRight
  <2> QED BY <2>1, <2>2
<1>5. SeedsCounted'
  BY <1>2 DEF TillInv, SeedsCounted
<1>6. ASSUME NEW b \in Biz PROVE BooksAgree(b)'
  BY <1>1 DEF TillInv, BooksAgree, NewSales, SalesOf
<1>7. ASSUME NEW i \in Id PROVE Backed(i)'
  BY <1>1 DEF TillInv, Backed
<1> QED BY <1>3, <1>4, <1>5, <1>6, <1>7 DEF TillInv

LEMMA IdleJob == Idle \in Job /\ Idle.replaces = None
  BY DEF Idle, Job, AllKinds

(* The end of a transaction frees its own lock only.                       *)
LEMMA FinishFrees ==
  ASSUME TillTyped, NEW r \in Req, NEW out, Finish(r, out)
  PROVE  /\ lock' \in [Biz -> Req \cup {None}]
         /\ \A b \in Biz : lock[b] \in Req \ {r} => lock'[b] = lock[b]
         /\ phase' = [phase EXCEPT ![r] = out] /\ job' = [job EXCEPT ![r] = Idle]
  BY DEF TillTyped, Finish, GoTo

(* Ends without a trace.                                                   *)
LEMMA TillEnds ==
  ASSUME TillInv, NEW r \in Req, NEW out \in {"failed", "no_session"}, Finish(r, out),
         UNCHANGED database, phase[r] # "done"
  PROVE  TillInv'
<1>1. out \in Phases /\ out # "done" /\ out \notin Active /\ out \notin Locked
      /\ out \notin {"write", "lines"}
  BY DEF Phases, Active, Locked
<1>2. TillTyped
  BY DEF TillInv
<1>3. Idle \in Job
  BY IdleJob
<1> QED BY <1>1, <1>2, <1>3, FinishFrees, TillReads

LEMMA BeginSaleTill == ASSUME TillInv, NEW r \in Req, BeginSale(r) PROVE TillInv'
<1>1. PICK k \in Kinds \cap {"checkout", "hold"}, b \in Biz, c \in Carts :
        /\ job' = [job EXCEPT ![r] = [Idle EXCEPT !.kind = k, !.biz = b,
                                      !.qty = c.qty, !.customer = c.customer]]
        /\ phase' = [phase EXCEPT ![r] = IF k = "hold" THEN "lock" ELSE "stock"]
  BY DEF BeginSale, GoTo
<1>2. PICK j : j = [Idle EXCEPT !.kind = k, !.biz = b, !.qty = c.qty, !.customer = c.customer]
  OBVIOUS
<1>3. j \in Job /\ j.biz = b /\ j.replaces = None
  BY <1>2, CartsAssumption DEF Idle, Job, AllKinds
<1>4. PICK next \in {"lock", "stock"} : phase' = [phase EXCEPT ![r] = next]
  BY <1>1
<1>5. next \in Phases /\ next # "done" /\ next \notin Locked /\ next \notin {"write", "lines"}
  BY DEF Phases, Active, Locked
<1>6. UNCHANGED database /\ lock' = lock /\ phase[r] # "done" /\ lock' \in [Biz -> Req \cup {None}]
  BY DEF BeginSale, TillInv, TillTyped
<1>7. job' = [job EXCEPT ![r] = j]
  BY <1>1, <1>2
<1> QED BY <1>3, <1>4, <1>5, <1>6, <1>7, TillReads

LEMMA BeginResumeTill == ASSUME TillInv, NEW r \in Req, BeginResume(r) PROVE TillInv'
<1>1. PICK i \in Existing :
        /\ job' = [job EXCEPT ![r] = [Idle EXCEPT !.kind = "resume", !.biz = ticket[i].biz,
                                      !.customer = ticket[i].customer, !.replaces = i]]
        /\ phase' = [phase EXCEPT ![r] = "lines"]
  BY DEF BeginResume, GoTo
<1>2. PICK j : j = [Idle EXCEPT !.kind = "resume", !.biz = ticket[i].biz,
                                !.customer = ticket[i].customer, !.replaces = i]
  OBVIOUS
<1>3. ticket[i] \in Ticket /\ ticket[i] # None /\ i \in Id
  BY DEF TillInv, TillTyped, Existing
<1>4. j \in Job /\ j.biz = ticket[i].biz /\ j.biz \in Biz /\ j.replaces = i
  BY <1>2, <1>3 DEF Idle, Job, AllKinds, Ticket
<1>5. i \in Req => phase[i] = "done"
  BY <1>3 DEF TillInv, JobRight
<1>6. /\ "lines" \in Phases /\ "lines" # "done" /\ "lines" \notin Locked /\ "lines" # "write"
  BY DEF Phases, Active, Locked
<1>7. UNCHANGED database /\ lock' = lock /\ phase[r] # "done" /\ lock' \in [Biz -> Req \cup {None}]
  BY DEF BeginResume, TillInv, TillTyped
<1>8. job' = [job EXCEPT ![r] = j] /\ phase' = [phase EXCEPT ![r] = "lines"]
  BY <1>1, <1>2
<1> HIDE <1>1
<1>9. j.replaces # None
  BY <1>3, <1>4, NoneAssumption
<1> QED BY <1>4, <1>5, <1>6, <1>7, <1>8, <1>9, TillReads

(* What a step of an active request finds.                                 *)
LEMMA ActiveJob ==
  ASSUME TillInv, NEW r \in Req, phase[r] \in Active
  PROVE  /\ job[r] \in Job /\ job[r].biz \in Biz /\ phase[r] # "done"
         /\ lock \in [Biz -> Req \cup {None}]
         /\ phase[r] = "lines" => job[r].replaces # None
         /\ job[r].replaces # None =>
              /\ ticket[job[r].replaces] # None => ticket[job[r].replaces].biz = job[r].biz
              /\ job[r].replaces \in Req => phase[job[r].replaces] = "done"
<1>1. phase[r] # "done"
  BY DEF Active
<1> QED BY <1>1 DEF TillInv, TillTyped, JobRight

LEMMA ReadLinesTill == ASSUME TillInv, NEW r \in Req, ReadLines(r) PROVE TillInv'
<1>1. phase[r] \in Active
  BY DEF ReadLines, Active
<1>2. PICK n : /\ n = IF ticket[job[r].replaces] = None THEN 0 ELSE ticket[job[r].replaces].qty
               /\ job' = [job EXCEPT ![r].qty = n]
  BY DEF ReadLines
<1>3. PICK j : j = [job[r] EXCEPT !.qty = n]
  OBVIOUS
<1>4. UNCHANGED database /\ lock' = lock /\ phase' = [phase EXCEPT ![r] = "stock"]
  BY DEF ReadLines, GoTo
<1>5. "stock" \in Phases /\ "stock" \notin Locked \cup {"done", "write", "lines"}
  BY DEF Phases, Active, Locked
<1>6. /\ job[r] \in Job /\ job[r].biz \in Biz /\ phase[r] # "done"
      /\ lock \in [Biz -> Req \cup {None}]
      /\ job[r].replaces # None
      /\ ticket[job[r].replaces] # None => ticket[job[r].replaces].biz = job[r].biz
      /\ job[r].replaces \in Req => phase[job[r].replaces] = "done"
  <2>1. phase[r] = "lines"
    BY DEF ReadLines
  <2> QED BY <1>1, <2>1, ActiveJob
<1>7. n \in Nat
  <2>1. job[r].replaces \in Id
    BY <1>6 DEF Job
  <2>2. ticket[job[r].replaces] \in Ticket \cup {None}
    BY <2>1 DEF TillInv, TillTyped
  <2> QED BY <1>2, <2>2 DEF Ticket
<1>8. j \in Job /\ j.biz = job[r].biz /\ j.replaces = job[r].replaces
  BY <1>3, <1>6, <1>7 DEF Job
<1>9. job' = [job EXCEPT ![r] = j]
  BY <1>2, <1>3
<1> HIDE <1>2, <1>3
<1> QED BY <1>4, <1>5, <1>6, <1>8, <1>9, TillReads

LEMMA CheckStockTill == ASSUME TillInv, NEW r \in Req, CheckStock(r) PROVE TillInv'
<1>1. phase[r] \in Active
  BY DEF CheckStock, Active
<1>2. PICK j : j = job[r]
  OBVIOUS
<1>3. UNCHANGED database /\ lock' = lock /\ phase' = [phase EXCEPT ![r] = "lock"]
  BY DEF CheckStock, GoTo
<1>4. "lock" \in Phases /\ "lock" \notin Locked \cup {"done", "write", "lines"}
  BY DEF Phases, Active, Locked
<1>5. job' = [job EXCEPT ![r] = j]
  BY <1>2 DEF CheckStock, TillInv, TillTyped
<1>6. /\ j \in Job /\ j.biz \in Biz /\ phase[r] # "done" /\ lock' \in [Biz -> Req \cup {None}]
      /\ j.replaces # None =>
           /\ ticket[j.replaces] # None => ticket[j.replaces].biz = j.biz
           /\ j.replaces \in Req => phase[j.replaces] = "done"
  BY <1>1, <1>2, <1>3, ActiveJob
<1> QED BY <1>3, <1>4, <1>5, <1>6, TillReads

LEMMA LockTill == ASSUME TillInv, NEW r \in Req, Lock(r) PROVE TillInv'
<1>1. phase[r] \in Active
  BY DEF Lock, Active
<1>2. PICK j : j = job[r]
  OBVIOUS
<1>3. UNCHANGED database /\ phase' = [phase EXCEPT ![r] = "number"]
  BY DEF Lock, GoTo
<1>4. "number" \in Phases /\ "number" \notin {"done", "write", "lines"}
  BY DEF Phases, Active, Locked
<1>5. job' = [job EXCEPT ![r] = j]
  BY <1>2 DEF Lock, TillInv, TillTyped
<1>6. /\ j \in Job /\ j.biz \in Biz /\ phase[r] # "done" /\ lock \in [Biz -> Req \cup {None}]
      /\ j.replaces # None =>
           /\ ticket[j.replaces] # None => ticket[j.replaces].biz = j.biz
           /\ j.replaces \in Req => phase[j.replaces] = "done"
  BY <1>1, <1>2, ActiveJob
<1>7. lock[j.biz] = None /\ lock' = [lock EXCEPT ![j.biz] = r]
  BY <1>2 DEF Lock
<1>8. None \notin Req
  BY NoneAssumption DEF Id
<1>9. lock' \in [Biz -> Req \cup {None}] /\ lock'[j.biz] = r
  BY <1>6, <1>7
<1>10. \A b \in Biz : lock[b] \in Req \ {r} => lock'[b] = lock[b]
  BY <1>6, <1>7, <1>8
<1> QED BY <1>3, <1>4, <1>5, <1>6, <1>9, <1>10, TillReads

LEMMA NumbersTyped == ASSUME TillTyped, NEW b PROVE Numbers(b) \subseteq Nat
  BY DEF TillTyped, Numbers, TicketsOf, Existing, SalesOf, Ticket, Sale

LEMMA ReadNumberTill == ASSUME TillInv, NEW r \in Req, ReadNumber(r) PROVE TillInv'
<1>1. phase[r] \in Active /\ phase[r] \in Locked
  BY DEF ReadNumber, Active, Locked
<1>2. PICK n : n = NextNumber(r)
  OBVIOUS
<1>3. PICK j : j = [job[r] EXCEPT !.number = n]
  OBVIOUS
<1>4. UNCHANGED database /\ lock' = lock /\ phase' = [phase EXCEPT ![r] = "write"]
  BY DEF ReadNumber, GoTo
<1>5. "write" \in Phases /\ "write" \notin {"done", "lines"}
  BY DEF Phases, Active, Locked
<1>6. /\ job[r] \in Job /\ job[r].biz \in Biz /\ phase[r] # "done"
      /\ lock \in [Biz -> Req \cup {None}]
      /\ job[r].replaces # None =>
           /\ ticket[job[r].replaces] # None => ticket[job[r].replaces].biz = job[r].biz
           /\ job[r].replaces \in Req => phase[job[r].replaces] = "done"
  BY <1>1, ActiveJob
<1>7. MaxNumber(job[r].biz) \in Nat
  <2>1. TillTyped /\ IsFiniteSet(Numbers(job[r].biz))
    BY <1>6 DEF TillInv, TillTyped
  <2> QED BY <2>1, NumbersTyped, HighestOf DEF MaxNumber
<1>8. n \in Nat /\ n > MaxNumber(job[r].biz)
  BY <1>2, <1>7 DEF NextNumber
<1>9. j \in Job /\ j.biz = job[r].biz /\ j.replaces = job[r].replaces /\ j.number = n
  BY <1>3, <1>6, <1>8 DEF Job
<1>10. job' = [job EXCEPT ![r] = j]
  BY <1>2, <1>3 DEF ReadNumber
<1>11. lock[job[r].biz] = r
  BY <1>1 DEF TillInv, JobRight
<1>12. j.number > MaxNumber(j.biz)
  BY <1>8, <1>9
<1> HIDE <1>2, <1>3
<1> QED BY <1>4, <1>5, <1>6, <1>9, <1>10, <1>11, <1>12, TillReads

LEMMA NoSessionTill == ASSUME TillInv, NEW r \in Req, NoSession(r) PROVE TillInv'
  BY TillEnds DEF NoSession

LEMMA RefuseTill == ASSUME TillInv, NEW r \in Req, Refuse(r) PROVE TillInv'
  BY TillEnds DEF Refuse

-----------------------------------------------------------------------------
(* A request of one statement: the tickets keep all but their parking.     *)
LEMMA TillSteps ==
  ASSUME TillInv, NEW r \in Req, phase[r] = "new", Finish(r, "done"),
         UNCHANGED <<moved, stock, purchases>>,
         ticket' \in [Id -> Ticket \cup {None}],
         \A k \in Id :
           /\ ticket'[k] = None <=> ticket[k] = None
           /\ ticket[k] # None =>
                /\ ticket'[k].biz = ticket[k].biz /\ ticket'[k].number = ticket[k].number
                /\ ticket'[k].qty = ticket[k].qty
                /\ ticket[k].parked => ticket'[k].parked,
         session' \in Session \cup {None},
         session' = session \/ (session = None /\ session' # None /\ session'.revenue = 0)
  PROVE  TillInv'
<1>1. moved' = moved /\ stock' = stock /\ purchases' = purchases
  OBVIOUS
<1>2. \A b : TicketsOf(b)' = TicketsOf(b)
  BY DEF TicketsOf, Existing
<1>3. \A b : {ticket'[i].number : i \in TicketsOf(b)} = {ticket[i].number : i \in TicketsOf(b)}
  BY DEF TicketsOf, Existing
<1>4. ASSUME NEW b PROVE Numbers(b)' = Numbers(b)
  BY <1>1, <1>2, <1>3 DEF Numbers, SalesOf
<1>5. \A b : MaxNumber(b)' = MaxNumber(b)
  BY <1>4 DEF MaxNumber
<1>6. /\ TillTyped
      /\ "done" \in Phases /\ Idle \in Job /\ Idle.replaces = None
  BY IdleJob DEF TillInv, Phases
<1>7. /\ lock' \in [Biz -> Req \cup {None}]
      /\ \A b \in Biz : lock[b] \in Req \ {r} => lock'[b] = lock[b]
      /\ phase' = [phase EXCEPT ![r] = "done"] /\ job' = [job EXCEPT ![r] = Idle]
  BY <1>6, FinishFrees
<1>8. TillTyped'
  BY <1>1, <1>4, <1>6, <1>7 DEF TillTyped
<1>9. ASSUME NEW q \in Req PROVE JobRight(q)'
  <2>1. CASE q = r
    <3>1. phase'[q] = "done" /\ "done" \notin Active \cup Locked
      BY <1>6, <1>7, <2>1 DEF TillTyped, Active, Locked
    <3> QED BY <3>1 DEF JobRight
  <2>2. CASE q # r
    <3>1. phase'[q] = phase[q] /\ job'[q] = job[q] /\ JobRight(q) /\ job[q] \in Job
      BY <1>6, <1>7, <2>2 DEF TillInv, TillTyped
    <3>2. \A i \in Req : phase[i] = "done" => phase'[i] = "done"
      BY <1>6, <1>7 DEF TillTyped
    <3>3. phase[q] \in Locked => phase[q] \in Active
      BY DEF Locked, Active
    <3>4. phase[q] \in Locked => lock'[job[q].biz] = q
      BY <1>7, <2>2, <3>1, <3>3 DEF JobRight
    <3>5. q \in Id /\ (job[q].replaces # None => job[q].replaces \in Id)
      BY <3>1 DEF Job, Id
    <3> QED BY <1>5, <3>1, <3>2, <3>4, <3>5 DEF JobRight
  <2> QED BY <2>1, <2>2
<1>10. SeedsCounted'
  BY <1>5 DEF TillInv, SeedsCounted
<1>11. ASSUME NEW b \in Biz PROVE BooksAgree(b)'
  <2>1. NewSales(b)' = NewSales(b)
    BY <1>1 DEF NewSales, SalesOf
  <2> QED BY <1>1, <2>1 DEF TillInv, BooksAgree
<1>12. ASSUME NEW i \in Id PROVE Backed(i)'
  BY <1>1 DEF TillInv, Backed
<1> QED BY <1>8, <1>9, <1>10, <1>11, <1>12 DEF TillInv

(* Parking keeps the rest of every ticket.                                 *)
LEMMA ParkKeeps ==
  ASSUME TillInv, NEW r \in Req, Park(r)
  PROVE  /\ ticket' \in [Id -> Ticket \cup {None}]
         /\ \A k \in Id :
              /\ ticket'[k] = None <=> ticket[k] = None
              /\ ticket[k] # None =>
                   /\ ticket'[k].biz = ticket[k].biz /\ ticket'[k].number = ticket[k].number
                   /\ ticket'[k].qty = ticket[k].qty
                   /\ ticket[k].parked => ticket'[k].parked
<1>1. PICK i \in Existing : ticket' = [ticket EXCEPT ![i].parked = TRUE]
  BY DEF Park
<1>2. ticket \in [Id -> Ticket \cup {None}] /\ i \in Id /\ ticket[i] \in Ticket
  BY DEF TillInv, TillTyped, Existing
<1>3. PICK t : t = [ticket[i] EXCEPT !.parked = TRUE]
  OBVIOUS
<1>4. /\ t \in Ticket /\ t.biz = ticket[i].biz /\ t.number = ticket[i].number
      /\ t.qty = ticket[i].qty /\ t.parked
  BY <1>2, <1>3 DEF Ticket
<1>5. t # None /\ ticket[i] # None
  BY <1>2, <1>4, NoneAssumption
<1>6. ticket' = [ticket EXCEPT ![i] = t]
  BY <1>1, <1>3
<1>7. ticket' \in [Id -> Ticket \cup {None}]
  BY <1>2, <1>4, <1>6
<1>8. \A k \in Id :
        /\ ticket'[k] = None <=> ticket[k] = None
        /\ ticket[k] # None =>
             /\ ticket'[k].biz = ticket[k].biz /\ ticket'[k].number = ticket[k].number
             /\ ticket'[k].qty = ticket[k].qty
             /\ ticket[k].parked => ticket'[k].parked
  BY <1>2, <1>4, <1>5, <1>6
<1> QED BY <1>7, <1>8

LEMMA ParkTill == ASSUME TillInv, NEW r \in Req, Park(r) PROVE TillInv'
<1>1. /\ phase[r] = "new" /\ Finish(r, "done") /\ UNCHANGED <<moved, stock, purchases>>
      /\ session' = session /\ session' \in Session \cup {None}
  BY DEF Park, TillInv, TillTyped
<1>2. session' = session \/ (session = None /\ session' # None /\ session'.revenue = 0)
  BY <1>1
<1>3. UNCHANGED <<moved, stock, purchases>>
  BY <1>1
<1> QED BY <1>1, <1>2, <1>3, ParkKeeps, TillSteps

LEMMA EnsureSessionTill == ASSUME TillInv, NEW r \in Req, EnsureSession(r) PROVE TillInv'
<1>1. PICK b \in Biz : SessionFound(b) /\ session' = SessionOf(b)
  BY DEF EnsureSession
<1>2. session \in Session \cup {None}
  BY DEF TillInv, TillTyped
<1>3. /\ phase[r] = "new" /\ Finish(r, "done") /\ UNCHANGED <<moved, stock, purchases>>
      /\ ticket' = ticket /\ ticket' \in [Id -> Ticket \cup {None}]
  BY DEF EnsureSession, TillInv, TillTyped
<1>4. CASE session = None
  <2>1. session' = [biz |-> b, sales |-> 0, revenue |-> 0]
    BY <1>1, <1>4 DEF SessionOf
  <2>2. session' \in Session /\ session'.revenue = 0
    BY <2>1 DEF Session
  <2>3. session' # None
    BY <2>2, NoneAssumption
  <2> QED BY <1>3, <1>4, <2>2, <2>3, TillSteps
<1>5. CASE session # None
  <2>1. session' = session
    BY <1>1, <1>5 DEF SessionOf
  <2> QED BY <1>2, <1>3, <2>1, TillSteps
<1> QED BY <1>4, <1>5

-----------------------------------------------------------------------------
(* The commit of a ticket: its row, and what it does to the numbers.       *)
LEMMA ExecuteRows ==
  ASSUME TillInv, NEW r \in Req, Execute(r)
  PROVE  /\ phase[r] = "write" /\ phase[r] \in Active /\ phase[r] \in Locked
         /\ job[r] \in Job /\ job[r].biz \in Biz /\ lock[job[r].biz] = r /\ ticket[r] = None
         /\ job[r].number \in Nat /\ job[r].number > MaxNumber(job[r].biz)
         /\ ticket'[r] \in Ticket /\ ticket'[r] # None
         /\ ticket'[r].biz = job[r].biz /\ ticket'[r].number = job[r].number
         /\ ticket'[r].qty = job[r].qty /\ ticket'[r].parked = (job[r].kind = "hold")
         /\ DOMAIN ticket' = Id
         /\ \A i \in Id \ {r} : /\ i # job[r].replaces => ticket'[i] = ticket[i]
                                /\ i = job[r].replaces => ticket'[i] = None
         /\ \A i \in Id : i = job[r].replaces =>
              /\ ticket[i] # None => ticket[i].biz = job[r].biz
              /\ i # r
<1>1. phase[r] = "write" /\ phase[r] \in Active /\ phase[r] \in Locked
  BY DEF Execute, Active, Locked
<1>2. /\ job[r] \in Job /\ job[r].biz \in Biz /\ phase[r] # "done"
      /\ job[r].replaces # None =>
           /\ ticket[job[r].replaces] # None => ticket[job[r].replaces].biz = job[r].biz
           /\ job[r].replaces \in Req => phase[job[r].replaces] = "done"
  BY <1>1, ActiveJob
<1>3. lock[job[r].biz] = r /\ ticket[r] = None /\ job[r].number > MaxNumber(job[r].biz)
  BY <1>1, <1>2 DEF TillInv, JobRight
<1>4. PICK t : t = NewTicket(r)
  OBVIOUS
<1>5. /\ t \in Ticket /\ t.biz = job[r].biz /\ t.number = job[r].number
      /\ t.qty = job[r].qty /\ t.parked = (job[r].kind = "hold")
  BY <1>2, <1>4 DEF NewTicket, Ticket, Job
<1>6. t # None
  BY <1>5, NoneAssumption
<1>7. ticket' = [i \in Id |-> IF i = r THEN t
                             ELSE IF i = job[r].replaces THEN None ELSE ticket[i]]
  BY <1>4 DEF Execute
<1>8. r \in Id /\ None \notin Id
  BY NoneAssumption DEF Id
<1>9. \A i \in Id : i = job[r].replaces => i # r
  BY <1>1, <1>2, <1>8
<1>10. ticket'[r] = t /\ DOMAIN ticket' = Id
  BY <1>7, <1>8
<1>11. \A i \in Id \ {r} : /\ i # job[r].replaces => ticket'[i] = ticket[i]
                           /\ i = job[r].replaces => ticket'[i] = None
  BY <1>7
<1>12. job[r].number \in Nat
  BY <1>2 DEF Job
<1> HIDE <1>4, <1>7
<1> QED BY <1>1, <1>2, <1>3, <1>5, <1>6, <1>8, <1>9, <1>10, <1>11, <1>12

(* What the ledger is asked for.                                           *)
Leaves(r) == IF job[r].kind = "hold" THEN 0 ELSE job[r].qty
Posted0(r) == [biz |-> job[r].biz, ref |-> job[r].number, qty |-> Leaves(r)]

LEMMA ExecuteStock ==
  ASSUME TillInv, NEW r \in Req, Execute(r)
  PROVE  /\ Leaves(r) \in Nat /\ stock[job[r].biz] >= Leaves(r)
         /\ stock' = [stock EXCEPT ![job[r].biz] = @ - Leaves(r)]
         /\ moved' = IF Leaves(r) = 0 THEN moved ELSE moved \cup {Posted0(r)}
         /\ Posted0(r) \in Sale
         /\ job[r].kind # "hold" => Leaves(r) = job[r].qty
<1>1. job[r] \in Job /\ job[r].biz \in Biz
  BY ExecuteRows
<1>2. PostSale(r)
  BY DEF Execute
<1> QED BY <1>1, <1>2 DEF PostSale, Leaves, Posted0, Ref, Covers, Job, Sale

LEMMA ExecuteNumbers ==
  ASSUME TillInv, NEW r \in Req, Execute(r)
  PROVE  /\ \A c \in Biz : MaxNumber(c)' = IF c = job[r].biz THEN job[r].number
                                                         ELSE MaxNumber(c)
         /\ \A c \in Biz : IsFiniteSet(Numbers(c)')
         /\ \A c \in Biz : MaxNumber(c) \in Nat /\ MaxNumber(c)' >= MaxNumber(c)
<1>1. PICK b, n, t : b = job[r].biz /\ n = job[r].number /\ t = ticket'[r]
  OBVIOUS
<1>2. /\ b \in Biz /\ n \in Nat /\ n > MaxNumber(b) /\ r \in Id
      /\ ticket[r] = None /\ t # None /\ t.biz = b /\ t.number = n
      /\ \A i \in Id \ {r} : ticket'[i] # None => ticket'[i] = ticket[i]
      /\ \A i \in Id \ {r} : ticket'[i] # ticket[i] /\ ticket[i] # None => ticket[i].biz = b
  BY <1>1, ExecuteRows DEF Id
<1>3. moved \subseteq moved' /\ \A m \in moved' \ moved : m.biz = b /\ m.ref = n
  <2>1. moved' = moved \/ moved' = moved \cup {Posted0(r)}
    BY ExecuteStock
  <2>2. Posted0(r).biz = b /\ Posted0(r).ref = n
    BY <1>1 DEF Posted0
  <2> QED BY <2>1, <2>2
<1>4. Numbers(b)' \subseteq Numbers(b) \cup {n}
  BY <1>1, <1>2, <1>3 DEF Numbers, TicketsOf, Existing, SalesOf
<1>5. n \in Numbers(b)'
  BY <1>1, <1>2 DEF Numbers, TicketsOf, Existing
<1>6. ASSUME NEW c \in Biz \ {b} PROVE Numbers(c)' = Numbers(c)
  <2>1. TicketsOf(c)' = TicketsOf(c) /\ \A i \in TicketsOf(c) : ticket'[i] = ticket[i]
    <3>1. ASSUME NEW i \in Id
          PROVE  /\ ticket'[i] # None /\ ticket'[i].biz = c <=>
                      ticket[i] # None /\ ticket[i].biz = c
                 /\ ticket[i] # None /\ ticket[i].biz = c => ticket'[i] = ticket[i]
      BY <1>1, <1>2
    <3> QED BY <3>1 DEF TicketsOf, Existing
  <2>2. SalesOf(c)' = SalesOf(c)
    BY <1>3 DEF SalesOf
  <2>3. {ticket'[i].number : i \in TicketsOf(c)'} = {ticket[i].number : i \in TicketsOf(c)}
    BY <2>1
  <2> QED BY <2>2, <2>3 DEF Numbers
<1>7. \A c \in Biz : IsFiniteSet(Numbers(c)) /\ Numbers(c) \subseteq Nat
  BY NumbersTyped DEF TillInv, TillTyped
<1>8. \A c \in Biz : MaxNumber(c) \in Nat
  BY <1>7, HighestOf DEF MaxNumber
<1>9. IsFiniteSet(Numbers(b)') /\ MaxNumber(b)' = n
  <2>1. n > Max({0} \cup Numbers(b))
    BY <1>2 DEF MaxNumber
  <2>2. PICK S, T : S = Numbers(b) /\ T = Numbers(b)'
    OBVIOUS
  <2>3. S \in SUBSET Nat /\ IsFiniteSet(S)
    BY <1>2, <1>7, <2>2
  <2>4. T \in SUBSET (S \cup {n}) /\ n \in T
    BY <1>4, <1>5, <2>2
  <2>5. n \in Nat /\ n > Max({0} \cup S)
    BY <1>2, <2>1, <2>2
  <2>6. IsFiniteSet(T) /\ Max({0} \cup T) = n
    BY ONLY <2>3, <2>4, <2>5, HigherIsHighest
  <2> QED BY <2>2, <2>6 DEF MaxNumber
<1>10. \A c \in Biz \ {b} : IsFiniteSet(Numbers(c)') /\ MaxNumber(c)' = MaxNumber(c)
  BY <1>6, <1>7 DEF MaxNumber
<1>11. ASSUME NEW c \in Biz PROVE IsFiniteSet(Numbers(c)') /\ MaxNumber(c)' >= MaxNumber(c)
  <2>1. CASE c = b
    BY <1>2, <1>8, <1>9, <2>1
  <2>2. CASE c # b
    BY <1>8, <1>10, <2>2
  <2> QED BY <2>1, <2>2
<1>12. \A c \in Biz : MaxNumber(c)' = IF c = b THEN n ELSE MaxNumber(c)
  BY <1>9, <1>10
<1> QED BY <1>1, <1>8, <1>11, <1>12

(* The sale is a new one: its number is above those of the first tickets.  *)
LEMMA ExecuteSales ==
  ASSUME TillInv, NEW r \in Req, Execute(r)
  PROVE  /\ moved' \in SUBSET Sale /\ IsFiniteSet(moved')
         /\ \A c \in Biz : Qty(NewSales(c)') = Qty(NewSales(c))
                             + (IF c = job[r].biz THEN Leaves(r) ELSE 0)
<1>1. PICK b, n, q, m : /\ b = job[r].biz /\ n = job[r].number /\ q = Leaves(r)
                        /\ m = Posted0(r)
  OBVIOUS
<1>2. /\ b \in Biz /\ n \in Nat /\ n > MaxNumber(b) /\ q \in Nat
      /\ m \in Sale /\ m.biz = b /\ m.ref = n /\ m.qty = q
      /\ moved' = IF q = 0 THEN moved ELSE moved \cup {m}
  BY <1>1, ExecuteRows, ExecuteStock DEF Posted0
<1>3. moved \in SUBSET Sale /\ IsFiniteSet(moved)
  BY DEF TillInv, TillTyped
<1>4. moved' \in SUBSET Sale /\ IsFiniteSet(moved')
  <2>1. IsFiniteSet(moved \cup {m})
    BY <1>3, FS_Union, FS_Singleton
  <2> QED BY <1>2, <1>3, <2>1
<1>5. IsFiniteSet(Numbers(b)) /\ Numbers(b) \subseteq Nat
  BY <1>2, NumbersTyped DEF TillInv, TillTyped
<1>6. MaxNumber(b) \in Nat /\ \A k \in Numbers(b) : k =< MaxNumber(b)
  BY <1>5, HighestOf DEF MaxNumber
<1>7. \A x \in moved : x.biz = b => x.ref # n
  BY <1>2, <1>5, <1>6 DEF Numbers, SalesOf
<1>8. \A i \in Seed : Ticket0[i].biz = b => n # Ticket0[i].number
  <2>1. ASSUME NEW i \in Seed, Ticket0[i].biz = b PROVE n # Ticket0[i].number
    <3>1. Ticket0[i].number =< MaxNumber(b)
      BY <2>1 DEF TillInv, SeedsCounted
    <3>2. Ticket0[i].number \in Nat
      BY SeedAssumption DEF Ticket
    <3> QED BY <1>2, <1>6, <3>1, <3>2
  <2> QED BY <2>1
<1>9. ASSUME NEW c \in Biz
      PROVE  Qty(NewSales(c)') = Qty(NewSales(c)) + (IF c = b THEN q ELSE 0)
  <2>1. NewSales(c) \in SUBSET Sale /\ IsFiniteSet(NewSales(c)) /\ m \notin NewSales(c)
    <3>1. NewSales(c) \subseteq moved
      BY DEF NewSales, SalesOf
    <3>2. m \notin moved
      BY <1>2, <1>7
    <3> QED BY <1>3, <3>1, <3>2, FS_Subset
  <2>2. Qty(NewSales(c)) \in Nat /\ Qty(NewSales(c) \cup {m}) = Qty(NewSales(c)) + m.qty
    BY <1>2, <2>1, SalesAddUp
  <2>3. CASE c = b /\ q # 0
    <3>1. NewSales(c)' = NewSales(c) \cup {m}
      BY <1>2, <1>8, <2>3 DEF NewSales, SalesOf
    <3> QED BY <1>2, <2>2, <2>3, <3>1
  <2>4. CASE c # b \/ q = 0
    <3>1. NewSales(c)' = NewSales(c)
      BY <1>2, <2>4 DEF NewSales, SalesOf
    <3> QED BY <1>2, <2>2, <2>4, <3>1
  <2> QED BY <2>3, <2>4
<1> QED BY <1>1, <1>4, <1>9

LEMMA ExecuteMoney ==
  ASSUME TillInv, NEW r \in Req, Execute(r)
  PROVE  /\ session' \in Session /\ session'.biz = job[r].biz
         /\ session'.revenue = (Stock0[job[r].biz] - stock[job[r].biz]) + Leaves(r)
         /\ purchases' \in [Biz -> Nat]
         /\ \A c \in Biz : purchases'[c] =< purchases[c]
                             + (IF c = job[r].biz THEN Leaves(r) ELSE 0)
<1>1. PICK b, q : b = job[r].biz /\ q = Leaves(r)
  OBVIOUS
<1>2. /\ b \in Biz /\ q \in Nat /\ job[r] \in Job
      /\ job[r].kind = "hold" => q = 0
      /\ job[r].kind # "hold" => q = job[r].qty
  BY <1>1, ExecuteRows, ExecuteStock DEF Leaves
<1>3. PICK s : s = SessionOf(b)
  OBVIOUS
<1>4. s \in Session /\ s.biz = b /\ s.revenue = Stock0[b] - stock[b]
  <2>1. SessionFound(b)
    BY <1>1 DEF Execute
  <2>2. BooksAgree(b) /\ session \in Session \cup {None}
    BY <1>2 DEF TillInv, TillTyped
  <2>3. CASE session = None
    BY <1>2, <1>3, <2>2, <2>3 DEF SessionOf, Session, BooksAgree
  <2>4. CASE session # None
    BY <1>3, <2>1, <2>2, <2>4 DEF SessionOf, SessionFound, BooksAgree
  <2> QED BY <2>3, <2>4
<1>5. session' = IF job[r].kind = "hold" THEN s
                 ELSE [s EXCEPT !.sales = @ + 1, !.revenue = @ + job[r].qty]
  BY <1>1, <1>3 DEF Execute, SessionAfter
<1>6. job[r].qty \in Nat
  BY <1>2 DEF Job
<1>7. session' \in Session /\ session'.biz = b /\ session'.revenue = s.revenue + q
  <2>1. s.revenue \in Nat /\ s.sales \in Nat
    BY <1>4 DEF Session
  <2>2. CASE job[r].kind = "hold"
    BY <1>2, <1>4, <1>5, <2>1, <2>2
  <2>3. CASE job[r].kind # "hold"
    <3>1. PICK k \in Nat : k = job[r].qty
      BY <1>6
    <3>2. session' = [s EXCEPT !.sales = @ + 1, !.revenue = @ + k]
      BY <1>5, <2>3, <3>1
    <3>3. session' = [biz |-> s.biz, sales |-> s.sales + 1, revenue |-> s.revenue + k]
      BY <1>4, <3>2 DEF Session
    <3>4. s.biz \in Biz /\ s.sales + 1 \in Nat /\ s.revenue + k \in Nat
      BY <1>4, <2>1, <3>1 DEF Session
    <3>5. session' \in Session /\ session'.biz = s.biz /\ session'.revenue = s.revenue + k
      BY <3>3, <3>4 DEF Session
    <3> QED BY <1>2, <1>4, <2>3, <3>1, <3>5
  <2> QED BY <2>2, <2>3
<1>8. purchases' = IF job[r].kind # "hold" /\ job[r].customer
                   THEN [purchases EXCEPT ![b] = @ + job[r].qty] ELSE purchases
  BY <1>1 DEF Execute
<1>9. purchases \in [Biz -> Nat]
  BY DEF TillInv, TillTyped
<1>10. /\ purchases' \in [Biz -> Nat]
       /\ \A c \in Biz : purchases'[c] =< purchases[c] + (IF c = b THEN q ELSE 0)
  BY <1>2, <1>6, <1>8, <1>9
<1> QED BY <1>1, <1>4, <1>7, <1>10

LEMMA ExecuteTill == ASSUME TillInv, NEW r \in Req, Execute(r) PROVE TillInv'
<1>1. PICK b, n, q, old : /\ b = job[r].biz /\ n = job[r].number /\ q = Leaves(r)
                          /\ old = job[r].replaces
  OBVIOUS
<1>2. TillTyped /\ "done" \in Phases /\ Idle \in Job /\ Idle.replaces = None
  BY IdleJob DEF TillInv, Phases
<1>3. /\ lock' \in [Biz -> Req \cup {None}]
      /\ \A c \in Biz : lock[c] \in Req \ {r} => lock'[c] = lock[c]
      /\ phase' = [phase EXCEPT ![r] = "done"] /\ job' = [job EXCEPT ![r] = Idle]
  BY <1>2, FinishFrees DEF Execute
<1>4. /\ phase[r] = "write" /\ b \in Biz /\ lock[b] = r /\ r \in Id
      /\ \A i \in Id \ {r} : ticket'[i] = ticket[i] \/ ticket'[i] = None
  BY <1>1, ExecuteRows DEF Id
<1>5. stock[b] >= q /\ q \in Nat /\ stock' = [stock EXCEPT ![b] = @ - q]
  BY <1>1, ExecuteStock
<1>6. \A c \in Biz : IsFiniteSet(Numbers(c)')
  BY ExecuteNumbers
<1>7. \A c \in Biz : MaxNumber(c)' = IF c = b THEN n ELSE MaxNumber(c)
  BY <1>1, ExecuteNumbers
<1>8. TillTyped'
  <2>1. ticket' \in [Id -> Ticket \cup {None}]
    <3>1. ticket'[r] \in Ticket /\ DOMAIN ticket' = Id
      BY ExecuteRows
    <3>2. ticket' = [i \in Id |-> ticket'[i]]
      BY DEF Execute
    <3> QED BY <1>2, <1>4, <3>1, <3>2 DEF TillTyped
  <2>2. moved' \in SUBSET Sale /\ IsFiniteSet(moved')
    BY ExecuteSales
  <2>3. stock' \in [Biz -> Nat]
    BY <1>2, <1>4, <1>5 DEF TillTyped
  <2>4. purchases' \in [Biz -> Nat] /\ session' \in Session \cup {None}
    BY ExecuteMoney
  <2>5. phase' \in [Req -> Phases] /\ job' \in [Req -> Job]
    BY <1>2, <1>3 DEF TillTyped
  <2> QED BY <1>3, <1>6, <2>1, <2>2, <2>3, <2>4, <2>5 DEF TillTyped
<1>9. ASSUME NEW p \in Req PROVE JobRight(p)'
  <2>1. CASE p = r
    <3>1. phase'[p] = "done" /\ "done" \notin Active \cup Locked
      BY <1>2, <1>3, <2>1 DEF TillTyped, Active, Locked
    <3> QED BY <3>1 DEF JobRight
  <2>2. CASE p # r
    <3>1. phase'[p] = phase[p] /\ job'[p] = job[p] /\ JobRight(p) /\ job[p] \in Job
      BY <1>2, <1>3, <2>2 DEF TillInv, TillTyped
    <3>2. \A i \in Req : phase[i] = "done" => phase'[i] = "done" /\ i # r
      BY <1>2, <1>3, <1>4 DEF TillTyped
    <3>3. /\ phase[p] \in Locked => phase[p] \in Active
          /\ phase[p] = "write" => phase[p] \in Locked
      BY DEF Locked, Active
    <3>4. phase[p] \in Locked => lock'[job[p].biz] = p /\ job[p].biz # b
      BY <1>3, <1>4, <2>2, <3>1, <3>3 DEF JobRight
    <3>5. p \in Id /\ r \in Req /\ (job[p].replaces # None => job[p].replaces \in Id)
      BY <3>1 DEF Job, Id
    <3>6. phase[p] = "write" => MaxNumber(job[p].biz)' = MaxNumber(job[p].biz)
      <4>1. PICK c : c = job[p].biz
        OBVIOUS
      <4>2. MaxNumber(job[p].biz)' = MaxNumber(c)'
        BY <3>1, <4>1 DEF MaxNumber, Numbers, TicketsOf, SalesOf
      <4> QED BY <1>7, <3>1, <3>3, <3>4, <4>1, <4>2 DEF JobRight
    <3>7. phase[p] # "done" => ticket'[p] = None
      BY <1>4, <2>2, <3>1, <3>5 DEF JobRight
    <3>8. phase[p] \in Active /\ job[p].replaces # None =>
            /\ ticket'[job[p].replaces] # None => ticket'[job[p].replaces].biz = job[p].biz
            /\ job[p].replaces \in Req => phase'[job[p].replaces] = "done"
      BY <1>4, <3>1, <3>2, <3>5 DEF JobRight
    <3> QED BY <3>1, <3>3, <3>4, <3>6, <3>7, <3>8 DEF JobRight
  <2> QED BY <2>1, <2>2
<1>10. SeedsCounted'
  <2>1. ASSUME NEW i \in Seed PROVE Ticket0[i].number =< MaxNumber(Ticket0[i].biz)'
    <3>1. PICK c \in Biz, k \in Nat : c = Ticket0[i].biz /\ k = Ticket0[i].number
      BY SeedAssumption DEF Ticket
    <3>2. k =< MaxNumber(c)
      BY <3>1 DEF TillInv, SeedsCounted
    <3>3. MaxNumber(c) \in Nat /\ MaxNumber(c)' >= MaxNumber(c) /\ MaxNumber(c)' \in Nat
      BY <1>1, <1>7, ExecuteNumbers, ExecuteRows
    <3>4. k =< MaxNumber(c)'
      BY <3>1, <3>2, <3>3
    <3> QED BY <3>1, <3>4
  <2> QED BY <2>1 DEF SeedsCounted
<1>11. ASSUME NEW c \in Biz PROVE BooksAgree(c)'
  <2>1. /\ BooksAgree(c) /\ stock[c] \in Nat /\ purchases[c] \in Nat /\ Stock0[c] \in Nat
        /\ stock \in [Biz -> Nat]
    BY <1>2, CartsAssumption DEF TillInv, TillTyped
  <2>2. PICK d : d = IF c = b THEN q ELSE 0
    OBVIOUS
  <2>3. stock'[c] = stock[c] - d /\ d \in Nat
    BY <1>5, <2>1, <2>2
  <2>4. /\ Qty(NewSales(c))' = Qty(NewSales(c)) + d
        /\ purchases'[c] =< purchases[c] + d /\ purchases'[c] \in Nat
    BY <1>1, <2>2, ExecuteSales, ExecuteMoney DEF Qty
  <2>5. session' # None /\ session'.biz = b
    BY <1>1, ExecuteMoney, NoneAssumption
  <2>6. c = b => session'.revenue = (Stock0[c] - stock[c]) + d
    BY <1>1, <2>2, ExecuteMoney
  <2>7. /\ Stock0[c] - stock'[c] = Qty(NewSales(c))'
        /\ purchases'[c] =< Stock0[c] - stock'[c]
        /\ c = b => session'.revenue = Stock0[c] - stock'[c]
    BY <2>1, <2>3, <2>4, <2>6 DEF BooksAgree
  <2> QED BY <2>5, <2>7 DEF BooksAgree
<1>12. ASSUME NEW i \in Id PROVE Backed(i)'
  <2>1. CASE i = r
    <3>1. /\ ticket'[i].biz = b /\ ticket'[i].number = n /\ ticket'[i].qty = job[r].qty
          /\ ~ticket'[i].parked => job[r].kind # "hold" /\ q = job[r].qty
      BY <1>1, <2>1, ExecuteRows, ExecuteStock
    <3>2. q # 0 => [biz |-> b, ref |-> n, qty |-> q] \in moved'
      BY <1>1, ExecuteStock DEF Posted0
    <3>3. q # 0 /\ q = job[r].qty =>
            [biz |-> b, ref |-> n, qty |-> job[r].qty] \in moved'
      BY <3>2
    <3>4. ASSUME ticket'[i] # None, ~ticket'[i].parked, ticket'[i].qty > 0
          PROVE  [biz |-> ticket'[i].biz, ref |-> ticket'[i].number, qty |-> ticket'[i].qty]
                   \in moved'
      <4>1. q = job[r].qty /\ q # 0
        BY <1>5, <3>1, <3>4
      <4> QED BY <3>1, <3>3, <4>1
    <3> QED BY <3>4 DEF Backed
  <2>2. CASE i # r
    <3>1. moved \subseteq moved'
      BY ExecuteStock
    <3>2. ticket'[i] = ticket[i] \/ ticket'[i] = None
      BY <1>4, <2>2
    <3> QED BY <3>1, <3>2 DEF Backed, TillInv
  <2> QED BY <2>1, <2>2
<1> QED BY <1>8, <1>9, <1>10, <1>11, <1>12 DEF TillInv

-----------------------------------------------------------------------------
LEMMA TillStart == TillInit => TillInv
<1> SUFFICES ASSUME TillInit PROVE TillInv
  OBVIOUS
<1>1. /\ ticket = [i \in Id |-> IF i \in Seed THEN Ticket0[i] ELSE None]
      /\ moved = {[biz |-> Ticket0[i].biz, ref |-> Ticket0[i].number,
                   qty |-> Ticket0[i].qty] : i \in {j \in Seed : Sold0(j)}}
      /\ stock = Stock0 /\ session = None /\ purchases = [b \in Biz |-> 0]
  BY DEF TillInit
<1>2. \A i \in Seed : Ticket0[i] \in Ticket /\ Ticket0[i] # None
  BY SeedAssumption, NoneAssumption
<1>3. \A i \in Id : /\ i \in Seed => ticket[i] = Ticket0[i] /\ ticket[i] # None
                    /\ i \notin Seed => ticket[i] = None
  BY <1>1, <1>2
<1>4. IsFiniteSet({Ticket0[i].number : i \in Seed})
  <2>1. PICK f : f = [i \in Seed |-> Ticket0[i].number]
    OBVIOUS
  <2>2. {Ticket0[i].number : i \in Seed} = {f[i] : i \in Seed}
    BY <2>1
  <2>3. IsFiniteSet({f[i] : i \in Seed})
    BY SeedAssumption, ImageFinite
  <2> QED BY <2>2, <2>3
<1>5. moved \in SUBSET Sale /\ IsFiniteSet(moved)
  <2>1. PICK f : f = [i \in Seed |-> [biz |-> Ticket0[i].biz, ref |-> Ticket0[i].number,
                                      qty |-> Ticket0[i].qty]]
    OBVIOUS
  <2>2. moved \subseteq {f[i] : i \in Seed}
    BY <1>1, <2>1
  <2>3. \A i \in Seed : f[i] \in Sale
    BY <1>2, <2>1 DEF Ticket, Sale
  <2>4. IsFiniteSet({f[i] : i \in Seed})
    BY SeedAssumption, ImageFinite
  <2> QED BY <2>2, <2>3, <2>4, FS_Subset
<1>6. ASSUME NEW b \in Biz PROVE IsFiniteSet(Numbers(b))
  <2>1. \A i \in TicketsOf(b) : i \in Seed /\ ticket[i] = Ticket0[i]
    BY <1>3 DEF TicketsOf, Existing
  <2>2. \A m \in SalesOf(b) : \E i \in Seed : m.ref = Ticket0[i].number
    BY <1>1 DEF SalesOf
  <2>3. Numbers(b) \subseteq {Ticket0[i].number : i \in Seed}
    BY <2>1, <2>2 DEF Numbers
  <2> QED BY <1>4, <2>3, FS_Subset
<1>7. TillTyped
  <2>1. ticket \in [Id -> Ticket \cup {None}]
    BY <1>1, <1>2
  <2>2. stock \in [Biz -> Nat] /\ purchases \in [Biz -> Nat] /\ session \in Session \cup {None}
    BY <1>1, CartsAssumption
  <2>3. "new" \in Phases /\ Idle \in Job
    BY IdleJob DEF Phases
  <2>4. lock \in [Biz -> Req \cup {None}] /\ phase \in [Req -> Phases] /\ job \in [Req -> Job]
    BY <2>3 DEF TillInit
  <2> QED BY <1>5, <1>6, <2>1, <2>2, <2>4 DEF TillTyped
<1>8. ASSUME NEW r \in Req PROVE JobRight(r)
  <2>1. phase[r] = "new" /\ "new" \notin Active \cup Locked \cup {"lines", "write"}
    BY DEF TillInit, Active, Locked
  <2>2. r \in Id /\ r \notin Seed
    BY SeedAssumption DEF Id
  <2> QED BY <1>3, <2>1, <2>2 DEF JobRight
<1>9. SeedsCounted
  <2>1. ASSUME NEW i \in Seed PROVE Ticket0[i].number =< MaxNumber(Ticket0[i].biz)
    <3>1. i \in Id /\ ticket[i] = Ticket0[i] /\ ticket[i] # None
      BY <1>3 DEF Id
    <3>2. Ticket0[i].number \in Numbers(Ticket0[i].biz)
      BY <3>1 DEF Numbers, TicketsOf, Existing
    <3>3. Ticket0[i].biz \in Biz
      BY <1>2 DEF Ticket
    <3>4. IsFiniteSet(Numbers(Ticket0[i].biz)) /\ Numbers(Ticket0[i].biz) \subseteq Nat
      BY <1>7, <3>3, NumbersTyped DEF TillTyped
    <3> QED BY <3>2, <3>4, HighestOf DEF MaxNumber
  <2> QED BY <2>1 DEF SeedsCounted
<1>10. ASSUME NEW b \in Biz PROVE BooksAgree(b)
  <2>1. NewSales(b) = {}
    BY <1>1 DEF NewSales, SalesOf
  <2>2. Qty(NewSales(b)) = 0
    <3>1. PICK f : f = [m \in {} |-> m.qty]
      OBVIOUS
    <3>2. Qty(NewSales(b)) = SumFunctionOnSet(f, {})
      BY <2>1, <3>1 DEF Qty, SumFunction
    <3> QED BY <3>2, SumOfNone
  <2>3. Stock0[b] \in Nat
    BY CartsAssumption
  <2> QED BY <1>1, <2>2, <2>3 DEF BooksAgree
<1>11. ASSUME NEW i \in Id PROVE Backed(i)
  BY <1>1, <1>3 DEF Backed, Sold0
<1> QED BY <1>7, <1>8, <1>9, <1>10, <1>11 DEF TillInv

LEMMA TillStep == TillInv /\ [TillNext]_till => TillInv'
<1> SUFFICES ASSUME TillInv, [TillNext]_till PROVE TillInv'
  OBVIOUS
<1>1. CASE UNCHANGED till
  <2>1. /\ ticket' = ticket /\ moved' = moved /\ stock' = stock /\ session' = session
        /\ purchases' = purchases /\ lock' = lock /\ phase' = phase /\ job' = job
    BY <1>1 DEF till, database
  <2>2. (\A b : Numbers(b)' = Numbers(b)) /\ \A b : MaxNumber(b)' = MaxNumber(b)
    BY <2>1 DEF Numbers, MaxNumber, TicketsOf, Existing, SalesOf
  <2>3. TillTyped'
    BY <2>1, <2>2 DEF TillInv, TillTyped
  <2>4. ASSUME NEW r \in Req PROVE JobRight(r)'
    BY <2>1, <2>2 DEF TillInv, JobRight
  <2>5. SeedsCounted'
    BY <2>2 DEF TillInv, SeedsCounted
  <2>6. ASSUME NEW b \in Biz PROVE BooksAgree(b)'
    BY <2>1 DEF TillInv, BooksAgree, NewSales, SalesOf
  <2>7. ASSUME NEW i \in Id PROVE Backed(i)'
    BY <2>1 DEF TillInv, Backed
  <2> QED BY <2>3, <2>4, <2>5, <2>6, <2>7 DEF TillInv
<1>2. ASSUME NEW r \in Req, BeginSale(r) PROVE TillInv'
  BY <1>2, BeginSaleTill
<1>3. ASSUME NEW r \in Req, BeginResume(r) PROVE TillInv'
  BY <1>3, BeginResumeTill
<1>4. ASSUME NEW r \in Req, Park(r) PROVE TillInv'
  BY <1>4, ParkTill
<1>5. ASSUME NEW r \in Req, EnsureSession(r) PROVE TillInv'
  BY <1>5, EnsureSessionTill
<1>6. ASSUME NEW r \in Req, Serve(r) PROVE TillInv'
  BY <1>6, ReadLinesTill, CheckStockTill, LockTill, ReadNumberTill, ExecuteTill, NoSessionTill,
     RefuseTill DEF Serve
<1>7. ASSUME NEW r \in Req, Refuse(r) PROVE TillInv'
  BY <1>7, RefuseTill
<1> QED BY <1>1, <1>2, <1>3, <1>4, <1>5, <1>6, <1>7 DEF TillNext, AllServed

(***************************************************************************)
(* The inductive invariant of the till.                                    *)
(***************************************************************************)
THEOREM TillInvariance == TillSpec => []TillInv
  BY TillStart, TillStep, PTL DEF TillSpec

(***************************************************************************)
(* Whatever number of requests of whatever businesses: revenue, purchases, *)
(* movements and stock tell the same of the day (executeCheckout, and the  *)
(* ledger's post within it).                                               *)
(***************************************************************************)
THEOREM TillAgrees == TillSpec => []TillMatchesStock
<1>1. TillInv => TillMatchesStock
  <2> SUFFICES ASSUME TillInv, NEW b \in Biz
               PROVE  /\ Stock0[b] - stock[b] = Qty(NewSales(b))
                      /\ session # None /\ session.biz = b =>
                           session.revenue = Stock0[b] - stock[b]
                      /\ purchases[b] =< Stock0[b] - stock[b]
                      /\ stock[b] >= 0
                      /\ \A i \in Existing :
                           ticket[i].biz = b /\ ~ticket[i].parked /\ ticket[i].qty > 0 =>
                             [biz |-> b, ref |-> ticket[i].number, qty |-> ticket[i].qty]
                               \in moved
    BY DEF TillMatchesStock
  <2>1. BooksAgree(b) /\ stock[b] >= 0
    BY DEF TillInv, TillTyped
  <2> QED BY <2>1 DEF BooksAgree, TillInv, Backed, Existing
<1> QED BY <1>1, TillInvariance, PTL

(***************************************************************************)
(* The MAX + 1 of executeCheckout never gives a number twice.              *)
(***************************************************************************)
THEOREM NumbersOnlyGrow == TillSpec => NumbersGrow
<1>1. ASSUME TillInv, [TillNext]_till, NEW b \in Biz
      PROVE  /\ MaxNumber(b)' >= MaxNumber(b)
             /\ \A q \in Req : ticket[q] = None /\ ticket'[q] # None /\ ticket'[q].biz = b
                  => ticket'[q].number > MaxNumber(b)
  <2>1. MaxNumber(b) \in Nat /\ ticket \in [Id -> Ticket \cup {None}]
    <3>1. IsFiniteSet(Numbers(b)) /\ Numbers(b) \subseteq Nat
      BY <1>1, NumbersTyped DEF TillInv, TillTyped
    <3> QED BY <1>1, <3>1, HighestOf DEF MaxNumber, TillInv, TillTyped
  <2>2. CASE ticket' = ticket /\ moved' = moved
    <3>1. MaxNumber(b)' = MaxNumber(b)
      BY <2>2 DEF MaxNumber, Numbers, TicketsOf, Existing, SalesOf
    <3> QED BY <2>1, <2>2, <3>1
  <2>3. ASSUME NEW r \in Req, Park(r)
        PROVE  /\ MaxNumber(b)' >= MaxNumber(b)
               /\ \A q \in Req : ticket[q] = None /\ ticket'[q] # None /\ ticket'[q].biz = b
                    => ticket'[q].number > MaxNumber(b)
    <3>1. \A k \in Id :
            /\ ticket'[k] = None <=> ticket[k] = None
            /\ ticket[k] # None =>
                 ticket'[k].biz = ticket[k].biz /\ ticket'[k].number = ticket[k].number
      BY <1>1, <2>3, ParkKeeps
    <3>2. \A c : TicketsOf(c)' = TicketsOf(c)
      BY <3>1 DEF TicketsOf, Existing
    <3>3. {ticket'[i].number : i \in TicketsOf(b)} = {ticket[i].number : i \in TicketsOf(b)}
      BY <3>1 DEF TicketsOf, Existing
    <3>4. moved' = moved
      BY <2>3 DEF Park
    <3>5. Numbers(b)' = Numbers(b)
      BY <3>2, <3>3, <3>4 DEF Numbers, SalesOf
    <3> QED BY <2>1, <3>1, <3>5 DEF MaxNumber, Id
  <2>4. ASSUME NEW r \in Req, Execute(r)
        PROVE  /\ MaxNumber(b)' >= MaxNumber(b)
               /\ \A q \in Req : ticket[q] = None /\ ticket'[q] # None /\ ticket'[q].biz = b
                    => ticket'[q].number > MaxNumber(b)
    <3>1. \A i \in Id \ {r} : ticket'[i] = ticket[i] \/ ticket'[i] = None
      BY <1>1, <2>4, ExecuteRows
    <3>2. ticket'[r].biz = b => ticket'[r].number > MaxNumber(b)
      BY <1>1, <2>4, ExecuteRows
    <3>3. MaxNumber(b)' >= MaxNumber(b)
      BY <1>1, <2>4, ExecuteNumbers
    <3> QED BY <3>1, <3>2, <3>3 DEF Id
  <2>5. \/ ticket' = ticket /\ moved' = moved
        \/ \E r \in Req : Park(r) \/ Execute(r)
    BY <1>1 DEF TillNext, Serve, BeginSale, BeginResume, EnsureSession, ReadLines, CheckStock,
                Lock, ReadNumber, NoSession, Refuse, AllServed, till, database
  <2> QED BY <2>2, <2>3, <2>4, <2>5
<1>2. TillInv /\ [TillNext]_till =>
        [\A b \in Biz :
           /\ MaxNumber(b)' >= MaxNumber(b)
           /\ \A r \in Req : ticket[r] = None /\ ticket'[r] # None /\ ticket'[r].biz = b
                => ticket'[r].number > MaxNumber(b)]_till
  BY <1>1
<1> QED BY <1>2, TillInvariance, PTL DEF TillSpec, NumbersGrow
=============================================================================
