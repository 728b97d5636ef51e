--------------------------- MODULE ReceiptsProofs ---------------------------
(***************************************************************************)
(* What a receipt leaves behind.  First the purchase orders, for any       *)
(* number of requests, orders and lines: a line says what entered the      *)
(* stock for it, and the status of an order that requests were at one      *)
(* after the other says what its lines say.  Then the average cost of the  *)
(* row a receipt posts to, for any number of concurrent transactions.      *)
(***************************************************************************)
EXTENDS PurchaseOrders, AverageCost, SumTheorems, TLAPS

Stages      == {"new", "insert", "update", "replace", "cascade", "lines", "post",
                "totals", "status"} \cup Over
OrderStages == Stages \ ({"new", "insert"} \cup Over)
Posting(s)  == s \in {"post", "totals", "status"}
HoldsRow(s) == s \in {"replace", "cascade"}
JobParts    == {"kind", "order", "status", "body", "seen", "full", "last"}
Entries     == [key : Key, qty : Quantities]

(* An order or a line is made when its request ends, so what is there is   *)
(* of a request that is over.                                              *)
Past(i) == i \in Seed \/ (i \in Req /\ stage[i] \in Over)
BodyFits(j) ==
  LET D == DOMAIN j.body
  IN  /\ IsFiniteSet(D) /\ D # {} /\ j.body \in [D -> Entries]
      /\ \A i \in D : /\ Past(j.body[i].key[1])
                      /\ j.body[i].key \in Lines => line[j.body[i].key].order = j.order
JobTyped(j, s) ==
  /\ DOMAIN j = JobParts /\ j.last \in Nat
  /\ j.status \in {"draft", "sent", "cancelled", None}
  /\ IF s \in OrderStages THEN j.order \in Id /\ Past(j.order) ELSE j.order = None
  /\ HoldsRow(s) => j.order \in Existing
  /\ Posting(s) => BodyFits(j)
Typed ==
  /\ order \in [Id -> Order \cup {None}] /\ line \in [Key -> Line \cup {None}]
  /\ moved \in [Key -> Nat] /\ IsFiniteSet(Existing) /\ IsFiniteSet(Lines)
  /\ stage \in [Req -> Stages] /\ DOMAIN job = Req
  /\ \A r \in Req : JobTyped(job[r], stage[r])
OwnerPast(k) == Past(line[k].order)
MadeInThePast ==
  /\ \A o \in Existing : Past(o)
  /\ \A k \in Key : ~Past(k[1]) => line[k] = None /\ moved[k] = 0
  /\ \A k \in Lines : OwnerPast(k)
HoldersApart ==
  \A q, r \in Req :
    HoldsRow(stage[q]) /\ HoldsRow(stage[r]) /\ job[q].order = job[r].order => q = r
ReceiptsInv == Typed /\ MadeInThePast /\ HoldersApart /\ ReceivedIsMoved

-----------------------------------------------------------------------------
LEMMA IdleTyped == ASSUME NEW s \in Over \cup {"new"} PROVE JobTyped(Idle, s)
BY DEF JobTyped, Idle, JobParts, OrderStages, Over, HoldsRow, Posting

LEMMA KeyParts == ASSUME NEW k \in Key PROVE k[1] \in Id /\ k[2] \in Position
BY DEF Key

(* Who is past stays so.                                                   *)
LEMMA PastStays ==
  ASSUME Typed, NEW r \in Req, NEW s \in Stages, stage[r] \notin Over,
         stage' = [stage EXCEPT ![r] = s], NEW i
  PROVE  (Past(i) => Past(i)') /\ (Past(i)' => Past(i) \/ (i = r /\ s \in Over))
BY DEF Past, Typed

LEMMA FirstReceipts == Init => ReceiptsInv
<1> SUFFICES ASSUME Init PROVE ReceiptsInv
  OBVIOUS
<1> USE PurchaseAssumption, NoneAssumption
<1>1. Existing = Seed /\ \A o \in Seed : order[o] = Order0[o]
  BY DEF Init, Existing, Id
<1>2. /\ \A k \in Key : line[k] = IF k[1] \in Seed THEN Line0[k] ELSE None
      /\ \A k \in Key : k[1] \in Seed => k \in Seed \X Position
  BY DEF Init, Key
<1>3. order \in [Id -> Order \cup {None}]
  BY DEF Init
<1>4. line \in [Key -> Line \cup {None}]
  <2>1. \A k \in Key : line[k] \in Line \cup {None}
    BY <1>2
  <2> QED BY <2>1 DEF Init
<1>5. Lines \subseteq Seed \X Position
  BY <1>2 DEF Lines
<1>6. IsFiniteSet(Lines)
  BY <1>5, FS_Product, FS_Subset
<1>7. moved \in [Key -> Nat] /\ \A k \in Key : moved[k] = IF k \in Lines THEN line[k].received
                                                         ELSE 0
  <2>1. \A k \in Lines : line[k].received \in Nat
    BY <1>4 DEF Lines, Line
  <2> QED BY <2>1 DEF Init
<1>8. /\ stage \in [Req -> Stages] /\ DOMAIN job = Req
      /\ \A r \in Req : JobTyped(job[r], stage[r])
  BY IdleTyped DEF Init, Stages
<1>9. Typed
  BY <1>1, <1>3, <1>4, <1>6, <1>7, <1>8 DEF Typed
<1>10. MadeInThePast
  <2>1. \A i \in Seed : Past(i)
    BY DEF Past
  <2>2. ASSUME NEW k \in Lines PROVE OwnerPast(k)
    <3>1. k \in Seed \X Position /\ Line0[k] # None /\ line[k] = Line0[k]
      BY <1>2, <1>5 DEF Lines
    <3> QED BY <2>1, <3>1, SeedAssumption DEF OwnerPast
  <2>3. \A k \in Key : ~Past(k[1]) => line[k] = None /\ moved[k] = 0
    BY <1>2, <1>7, <2>1 DEF Lines
  <2> QED BY <1>1, <2>1, <2>2, <2>3 DEF MadeInThePast
<1>11. HoldersApart
  BY DEF Init, HoldersApart, HoldsRow
<1>12. ReceivedIsMoved
  BY <1>7 DEF ReceivedIsMoved, Lines
<1> QED BY <1>9, <1>10, <1>11, <1>12 DEF ReceiptsInv

-----------------------------------------------------------------------------
(* A statement that writes nothing.                                        *)
LEMMA ReadsOnly ==
  ASSUME ReceiptsInv, NEW r \in Req, NEW s \in Stages, NEW j, stage[r] \notin Over,
         UNCHANGED database, stage' = [stage EXCEPT ![r] = s],
         job' = [job EXCEPT ![r] = j] \/ (job' = job /\ j = job[r]), JobTyped(j, s),
         HoldsRow(s) => \A q \in Req \ {r} : ~HoldsOrder(q, j.order)
  PROVE  ReceiptsInv'
<1>1. /\ UNCHANGED <<order, line, moved>>
      /\ \A q \in Req : stage'[q] = IF q = r THEN s ELSE stage[q]
      /\ \A q \in Req : job'[q] = IF q = r THEN j ELSE job[q]
      /\ stage' \in [Req -> Stages] /\ DOMAIN job' = Req
  BY DEF ReceiptsInv, Typed, database
<1>2. Existing' = Existing /\ Lines' = Lines
  BY <1>1 DEF Existing, Lines
<1>3. \A i : Past(i) => Past(i)'
  BY PastStays DEF ReceiptsInv
<1>4. \A i \in Id : ~Past(i)' => ~Past(i)
  BY <1>3
<1>5. ASSUME NEW q \in Req PROVE JobTyped(job[q], stage[q])' 
  <2>1. PICK i, t : i = job'[q] /\ t = stage'[q]
    OBVIOUS
  <2>2. JobTyped(i, t)
    BY <1>1, <2>1 DEF ReceiptsInv, Typed
  <2>3. JobTyped(i, t)'
    BY <1>1, <1>2, <1>3, <2>2 DEF JobTyped, BodyFits
  <2> QED BY <2>1, <2>3 DEF JobTyped, BodyFits
<1>6. Typed'
  BY <1>1, <1>2, <1>5 DEF ReceiptsInv, Typed
<1>7. MadeInThePast'
  BY <1>1, <1>2, <1>3 DEF ReceiptsInv, MadeInThePast, OwnerPast
<1>8. HoldersApart'
  BY <1>1 DEF ReceiptsInv, HoldersApart, HoldsRow, HoldsOrder
<1>9. ReceivedIsMoved'
  BY <1>1, <1>2 DEF ReceiptsInv, ReceivedIsMoved
<1> QED BY <1>6, <1>7, <1>8, <1>9 DEF ReceiptsInv

(* A request that ends: what it wrote is of what there was, or its own.    *)
LEMMA Writing ==
  ASSUME ReceiptsInv, NEW r \in Req, NEW out \in Over, stage[r] \notin Over, End(r, out),
         order' \in [Id -> Order \cup {None}], line' \in [Key -> Line \cup {None}],
         moved' \in [Key -> Nat], Existing' \subseteq Existing \cup {r},
         \A k \in Lines' : \/ k \in Lines /\ line'[k].order = line[k].order
                           \/ k[1] = r /\ OwnerPast(k)',
         \A k \in Key : ~Past(k[1])' => moved'[k] = moved[k],
         \A q \in Req \ {r} : HoldsRow(stage[q]) => job[q].order \in Existing',
         ReceivedIsMoved'
  PROVE  ReceiptsInv'
<1> USE PurchaseAssumption
<1>1. /\ \A q \in Req : stage'[q] = IF q = r THEN out ELSE stage[q]
      /\ \A q \in Req : job'[q] = IF q = r THEN Idle ELSE job[q]
      /\ stage' \in [Req -> Stages] /\ DOMAIN job' = Req /\ out \in Stages
  BY DEF ReceiptsInv, Typed, End, GoTo, Stages
<1>2. /\ \A i : (Past(i) => Past(i)') /\ (Past(i)' => Past(i) \/ i = r)
      /\ ~Past(r) /\ Past(r)'
  <2>1. stage' = [stage EXCEPT ![r] = out]
    BY DEF End, GoTo
  <2>2. \A i : (Past(i) => Past(i)') /\ (Past(i)' => Past(i) \/ i = r)
    BY <1>1, <2>1, PastStays DEF ReceiptsInv
  <2>3. ~Past(r) /\ Past(r)'
    BY <1>1 DEF Past
  <2> QED BY <2>2, <2>3
<1>3. IsFiniteSet(Existing') /\ IsFiniteSet(Lines')
  <2>1. IsFiniteSet(Existing \cup {r})
    BY FS_AddElement DEF ReceiptsInv, Typed
  <2>2. IsFiniteSet(Lines \cup ({r} \X Position))
    <3>1. IsFiniteSet({r} \X Position)
      BY FS_Product, FS_Singleton
    <3> QED BY <3>1, FS_Union DEF ReceiptsInv, Typed
  <2>3. Lines' \subseteq Lines \cup ({r} \X Position)
    BY KeyParts DEF Lines, Key
  <2> QED BY <2>1, <2>2, <2>3, FS_Subset
<1>4. ASSUME NEW q \in Req PROVE JobTyped(job[q], stage[q])'
  <2>1. PICK i, t : i = job'[q] /\ t = stage'[q]
    OBVIOUS
  <2>2. JobTyped(i, t)'
    <3>1. CASE q = r
      <4>1. JobTyped(Idle, out)
        BY IdleTyped
      <4> QED BY <1>1, <2>1, <3>1, <4>1 DEF JobTyped, OrderStages, HoldsRow, Posting, Over
    <3>2. CASE q # r
      <4>1. JobTyped(i, t) /\ i = job[q] /\ t = stage[q]
        BY <1>1, <2>1, <3>2 DEF ReceiptsInv, Typed
      <4>2. ASSUME BodyFits(i) PROVE BodyFits(i)'
        <5>1. ASSUME NEW n \in DOMAIN i.body, i.body[n].key \in Lines'
              PROVE  line'[i.body[n].key].order = i.order
          BY <1>2, <4>2, <5>1 DEF BodyFits
        <5> QED BY <1>2, <4>2, <5>1 DEF BodyFits
      <4>3. HoldsRow(t) => i.order \in Existing'
        BY <3>2, <4>1
      <4> QED BY <1>2, <4>1, <4>2, <4>3 DEF JobTyped
    <3> QED BY <3>1, <3>2
  <2> QED BY <2>1, <2>2 DEF JobTyped, BodyFits
<1>5. Typed'
  BY <1>1, <1>3, <1>4 DEF Typed
<1>6. MadeInThePast'
  <2>1. \A o \in Existing' : Past(o)'
    BY <1>2 DEF ReceiptsInv, MadeInThePast
  <2>2. ASSUME NEW k \in Key, ~Past(k[1])' PROVE line'[k] = None /\ moved'[k] = 0
    <3>1. ~Past(k[1]) /\ k[1] # r
      BY <1>2, <2>2
    <3>2. line[k] = None /\ moved[k] = 0
      BY <3>1 DEF ReceiptsInv, MadeInThePast
    <3> QED BY <2>2, <3>1, <3>2 DEF Lines
  <2>3. \A k \in Lines' : OwnerPast(k)'
    BY <1>2 DEF ReceiptsInv, MadeInThePast, OwnerPast
  <2> QED BY <2>1, <2>2, <2>3 DEF MadeInThePast, OwnerPast
<1>7. HoldersApart'
  BY <1>1 DEF ReceiptsInv, HoldersApart, HoldsRow, Over
<1> QED BY <1>5, <1>6, <1>7 DEF ReceiptsInv

(* The lines a body brings.                                                *)
LEMMA FreshLines ==
  ASSUME NEW r \in Req, NEW o \in Id, NEW qs \in Bodies, NEW k \in Key
  PROVE  LET l == NewLines(r, o, qs)[k]
         IN  /\ l \in Line \cup {None}
             /\ l # None => l.order = o /\ l.received = 0 /\ l.qty \in Quantities /\ k[1] = r
<1>1. PICK n \in Position : qs \in [1 .. n -> Quantities]
  BY DEF Bodies
<1>2. k[2] \in DOMAIN qs => qs[k[2]] \in Quantities
  BY <1>1
<1> QED BY <1>2, PurchaseAssumption DEF NewLines, Line

(* What a receive asks for a line, and that it names it then.              *)
LEMMA AskedNat ==
  ASSUME Typed, NEW r \in Req, Posting(stage[r]), NEW k
  PROVE  /\ Asked(r, k) \in Nat
         /\ Asked(r, k) # 0 => \E i \in DOMAIN job[r].body : job[r].body[i].key = k
<1> DEFINE D == DOMAIN job[r].body
           f == [i \in D |-> IF job[r].body[i].key = k THEN job[r].body[i].qty ELSE 0]
<1>1. IsFiniteSet(D) /\ job[r].body \in [D -> Entries]
  BY DEF Typed, JobTyped, BodyFits
<1>2. \A i \in D : f[i] \in Nat
  BY <1>1, PurchaseAssumption DEF Entries
<1>3. Asked(r, k) = SumFunctionOnSet(f, D)
  BY DEF Asked, SumFunction
<1>4. SumFunctionOnSet(f, D) \in Nat
  <2> HIDE DEF f
  <2> QED BY <1>1, <1>2, SumIsNat
<1>5. ASSUME \A i \in D : job[r].body[i].key # k PROVE SumFunctionOnSet(f, D) = 0
  <2>1. \A i \in D : f[i] = 0
    BY <1>5
  <2> HIDE DEF f
  <2> QED BY <1>1, <2>1, SumOfZeros
<1> QED BY <1>3, <1>4, <1>5

-----------------------------------------------------------------------------
(* The highest number there is, from 0 up.                                 *)
LEMMA HighestNumber == ASSUME Typed PROVE Max({0} \cup Numbers) \in Nat
<1> DEFINE f == [o \in Existing |-> order[o].number]
<1>1. Numbers \subseteq Nat /\ IsFiniteSet(Existing)
  BY DEF Typed, Numbers, Existing, Order
<1>2. f \in Surjection(Existing, Numbers)
  BY DEF Numbers, Surjection
<1>3. IsFiniteSet(Numbers)
  <2> HIDE DEF f
  <2> QED BY <1>1, <1>2, FS_Surjection
<1>4. IsFiniteSet({0} \cup Numbers)
  BY <1>3, FS_Union, FS_Singleton
<1>5. {0} \cup Numbers # {} /\ {0} \cup Numbers \subseteq Nat /\ {0} \cup Numbers \subseteq Int
  BY <1>1
<1> HIDE DEF f
<1>6. Max({0} \cup Numbers) \in {0} \cup Numbers
  BY <1>4, <1>5, FiniteHasMax
<1> QED BY <1>5, <1>6

LEMMA CreateReceipts == ASSUME ReceiptsInv, NEW r \in Req, Create(r) PROVE ReceiptsInv'
<1> USE PurchaseAssumption, NoneAssumption
<1>1. stage[r] = "insert" /\ stage[r] \notin Over /\ ~Past(r) /\ r \in Id
  BY DEF Create, Over, Past, Id
<1>2. CASE job[r].last + 1 \in Numbers
  <2>1. stage' = [stage EXCEPT ![r] = "failed"] /\ job' = [job EXCEPT ![r] = Idle]
    BY <1>1, <1>2 DEF Create, End, GoTo
  <2>2. UNCHANGED database /\ JobTyped(Idle, "failed") /\ "failed" \in Stages
    BY <1>1, <1>2, IdleTyped DEF Create, Over, Stages
  <2> QED BY <1>1, <2>1, <2>2, ReadsOnly DEF HoldsRow
<1>3. CASE job[r].last + 1 \notin Numbers
  <2>1. PICK s \in {"draft", "sent"}, qs \in Bodies :
          /\ order' = [order EXCEPT ![r] = [number |-> job[r].last + 1, status |-> s]]
          /\ line' = [k \in Key |-> IF k[1] = r THEN NewLines(r, r, qs)[k] ELSE line[k]]
          /\ End(r, "done") /\ UNCHANGED moved
    BY <1>1, <1>3 DEF Create
  <2>2. order \in [Id -> Order \cup {None}] /\ line \in [Key -> Line \cup {None}]
        /\ moved \in [Key -> Nat] /\ job[r].last \in Nat
    BY DEF ReceiptsInv, Typed, JobTyped
  <2>3. order' \in [Id -> Order \cup {None}] /\ \A o \in Id \ {r} : order'[o] = order[o]
    <3>1. [number |-> job[r].last + 1, status |-> s] \in Order
      BY <2>2 DEF Order, Statuses
    <3> QED BY <1>1, <2>1, <2>2, <3>1
  <2>4. \A k \in Key : /\ k[1] = r => line'[k] = NewLines(r, r, qs)[k]
                       /\ k[1] # r => line'[k] = line[k]
    BY <2>1
  <2>5. line' \in [Key -> Line \cup {None}]
    <3>1. \A k \in Key : line'[k] \in Line \cup {None}
      BY <1>1, <2>2, <2>4, FreshLines
    <3> QED BY <2>1, <3>1
  <2>6. Existing \subseteq Existing' /\ Existing' \subseteq Existing \cup {r}
    BY <1>1, <2>3 DEF Existing, ReceiptsInv, MadeInThePast
  <2>7. "done" \in Over /\ Past(r)'
    BY <2>1 DEF Over, Past, End, GoTo, ReceiptsInv, Typed
  <2>8. ASSUME NEW k \in Lines' PROVE \/ k \in Lines /\ line'[k].order = line[k].order
                                      \/ k[1] = r /\ OwnerPast(k)'
    <3>1. k[1] = r => line'[k].order = r
      BY <1>1, <2>4, FreshLines DEF Lines
    <3> QED BY <2>4, <2>7, <3>1 DEF Lines, OwnerPast, Past
  <2>9. ReceivedIsMoved'
    <3>1. ASSUME NEW k \in Lines' PROVE line'[k].received = moved'[k]
      <4>1. CASE k[1] = r
        BY <1>1, <2>1, <2>4, <4>1, FreshLines DEF Lines, ReceiptsInv, MadeInThePast
      <4>2. CASE k[1] # r
        BY <2>1, <2>4, <4>2 DEF Lines, ReceiptsInv, ReceivedIsMoved
      <4> QED BY <4>1, <4>2
    <3> QED BY <3>1 DEF ReceivedIsMoved
  <2>10. \A q \in Req \ {r} : HoldsRow(stage[q]) => job[q].order \in Existing'
    BY <2>6 DEF ReceiptsInv, Typed, JobTyped
  <2>11. moved' \in [Key -> Nat] /\ \A k \in Key : ~Past(k[1])' => moved'[k] = moved[k]
    BY <2>1, <2>2
  <2> QED BY <1>1, <2>1, <2>3, <2>5, <2>6, <2>7, <2>8, <2>9, <2>10, <2>11, Writing
<1> QED BY <1>2, <1>3

(* A request that ends with nothing done.                                  *)
LEMMA EndsIdle ==
  ASSUME ReceiptsInv, NEW r \in Req, NEW out \in Over, stage[r] \notin Over, End(r, out),
         UNCHANGED database
  PROVE  ReceiptsInv'
<1>1. stage' = [stage EXCEPT ![r] = out] /\ job' = [job EXCEPT ![r] = Idle]
  BY DEF End, GoTo
<1>2. JobTyped(Idle, out) /\ out \in Stages /\ ~HoldsRow(out)
  BY IdleTyped DEF Over, Stages, HoldsRow
<1> QED BY <1>1, <1>2, ReadsOnly

LEMMA StartReceipts ==
  ASSUME ReceiptsInv, NEW r \in Req, NEW o \in Existing, NEW kind, NEW next \in {"update", "lines"},
         NEW s \in {"draft", "sent", "cancelled", None}, Start(r, o, kind, s, next)
  PROVE  ReceiptsInv'
<1> DEFINE j == [Idle EXCEPT !.kind = kind, !.order = o, !.status = s]
<1>1. /\ stage[r] \notin Over /\ UNCHANGED database /\ next \in Stages /\ ~HoldsRow(next)
      /\ stage' = [stage EXCEPT ![r] = next] /\ job' = [job EXCEPT ![r] = j]
  BY DEF Start, GoTo, Over, Stages, HoldsRow
<1>2. Past(o) /\ o \in Id
  BY DEF ReceiptsInv, MadeInThePast, Existing
<1>3. JobTyped(j, next)
  BY <1>1, <1>2 DEF JobTyped, JobParts, Idle, Posting, OrderStages, Stages, Over
<1> HIDE DEF j
<1> QED BY <1>1, <1>3, ReadsOnly

LEMMA BeginReceipts ==
  ASSUME ReceiptsInv, NEW r \in Req, BeginPatch(r) \/ BeginRemove(r) \/ BeginReceive(r)
  PROVE  ReceiptsInv'
<1>1. CASE BeginPatch(r)
  <2>1. PICK o \in Existing, s \in {"draft", "sent", "cancelled", None}, content \in BOOLEAN :
          Start(r, o, IF content THEN "edit" ELSE "patch", s, "update")
    BY <1>1 DEF BeginPatch
  <2> QED BY <2>1, StartReceipts
<1>2. CASE BeginRemove(r)
  <2>1. PICK o \in Existing : Start(r, o, "remove", None, "update")
    BY <1>2 DEF BeginRemove
  <2> QED BY <2>1, StartReceipts
<1>3. CASE BeginReceive(r)
  <2>1. PICK o \in Existing : Start(r, o, "receive", None, "lines")
    BY <1>3 DEF BeginReceive
  <2> QED BY <2>1, StartReceipts
<1> QED BY <1>1, <1>2, <1>3

(* A step that changes some of what a request read, and its stage.         *)
LEMMA ReadReceipts ==
  ASSUME ReceiptsInv, NEW r \in Req,
         ReadNumber(r) \/ ReadLines(r) \/ Post(r) \/ ReadTotals(r) \/ LockOrder(r)
  PROVE  ReceiptsInv'
<1>1. job[r] = job[r] /\ JobTyped(job[r], stage[r]) /\ DOMAIN job = Req
  BY DEF ReceiptsInv, Typed
<1>2. CASE ReadNumber(r)
  <2> DEFINE j == [job[r] EXCEPT !.kind = "create", !.last = Max({0} \cup Numbers)]
  <2>1. /\ stage[r] = "new" /\ UNCHANGED database
        /\ stage' = [stage EXCEPT ![r] = "insert"] /\ job' = [job EXCEPT ![r] = j]
    BY <1>2 DEF ReadNumber, GoTo
  <2>2. Max({0} \cup Numbers) \in Nat
    BY HighestNumber DEF ReceiptsInv
  <2>3. JobTyped(j, "insert")
    BY <1>1, <2>1, <2>2 DEF JobTyped, JobParts, OrderStages, Over, HoldsRow, Posting
  <2>4. "insert" \in Stages /\ stage[r] \notin Over /\ ~HoldsRow("insert")
    BY <2>1 DEF Stages, Over, HoldsRow
  <2> HIDE DEF j
  <2> QED BY <2>1, <2>3, <2>4, ReadsOnly
<1>3. CASE ReadLines(r)
  <2> DEFINE o == job[r].order
             read == [k \in LinesOf(o) |-> line[k]]
  <2>1. stage[r] = "lines" /\ UNCHANGED database /\ stage[r] \notin Over
    BY <1>3 DEF ReadLines, Over
  <2>2. CASE End(r, "failed")
    BY <2>1, <2>2, EndsIdle DEF Over
  <2>3. CASE ~End(r, "failed")
    <3>1. PICK body \in UNION {[1..n -> [key : DOMAIN read, qty : Quantities]] : n \in 1..MaxBody} :
            /\ job' = [job EXCEPT ![r].body = body, ![r].seen = read]
            /\ stage' = [stage EXCEPT ![r] = "post"]
      BY <1>3, <2>3 DEF ReadLines, GoTo
    <3> DEFINE j == [job[r] EXCEPT !.body = body, !.seen = read]
    <3>2. PICK n \in 1 .. MaxBody : body \in [1 .. n -> [key : DOMAIN read, qty : Quantities]]
      BY <3>1
    <3>3. /\ \A k \in LinesOf(o) : k \in Lines /\ k \in Key /\ line[k].order = o
          /\ DOMAIN read = LinesOf(o)
      BY DEF LinesOf, Lines
    <3>4. body \in [1 .. n -> Entries] /\ \A i \in 1 .. n : body[i].key \in LinesOf(o)
      BY <3>2, <3>3 DEF Entries
    <3>5. IsFiniteSet(1 .. n) /\ 1 .. n # {}
      BY <3>2, FS_Interval, PurchaseAssumption
    <3>6. \A i \in 1 .. n : Past(body[i].key[1])
      BY <3>3, <3>4, KeyParts DEF ReceiptsInv, MadeInThePast, Lines
    <3>7. j.body = body /\ j.order = o /\ DOMAIN body = 1 .. n
      BY <1>1, <3>4 DEF JobTyped, JobParts
    <3>8. BodyFits(j)
      <4> HIDE DEF j
      <4>1. \A i \in 1 .. n : line[body[i].key].order = o
        BY <3>3, <3>4
      <4> QED BY <3>4, <3>5, <3>6, <3>7, <4>1 DEF BodyFits
    <3>9. JobTyped(j, "post")
      <4>1. /\ DOMAIN j = JobParts /\ j.last = job[r].last /\ j.status = job[r].status
            /\ o \in Id /\ Past(o)
        BY <1>1, <2>1 DEF JobTyped, JobParts, OrderStages, Stages, Over
      <4> HIDE DEF j
      <4> QED BY <1>1, <3>7, <3>8, <4>1 DEF JobTyped, HoldsRow, OrderStages, Stages, Over
    <3>10. job' = [job EXCEPT ![r] = j] /\ "post" \in Stages /\ ~HoldsRow("post")
      BY <1>1, <3>1 DEF Stages, HoldsRow
    <3> HIDE DEF j
    <3> QED BY <2>1, <3>1, <3>9, <3>10, ReadsOnly
  <2> QED BY <2>2, <2>3
<1>4. CASE Post(r)
  <2>1. /\ stage[r] = "post" /\ stage' = [stage EXCEPT ![r] = "totals"] /\ UNCHANGED database
        /\ job' = job
    BY <1>1, <1>4 DEF Post, GoTo
  <2>2. JobTyped(job[r], "totals")
    BY <1>1, <2>1 DEF JobTyped, OrderStages, Stages, Over, HoldsRow, Posting
  <2> QED BY <2>1, <2>2, ReadsOnly DEF Stages, Over, HoldsRow
<1>5. CASE ReadTotals(r)
  <2> DEFINE full == TotalReceived(r) >= TotalQty(job[r].order)
             j == [job[r] EXCEPT !.full = full]
  <2>1. /\ stage[r] = "totals" /\ stage' = [stage EXCEPT ![r] = "status"] /\ UNCHANGED database
        /\ job' = [job EXCEPT ![r] = j]
    BY <1>1, <1>5 DEF ReadTotals, GoTo
  <2> HIDE DEF full
  <2>2. JobTyped(j, "status")
    BY <1>1, <2>1 DEF JobTyped, OrderStages, Stages, Over, HoldsRow, Posting, BodyFits, JobParts
  <2> HIDE DEF j
  <2> QED BY <2>1, <2>2, ReadsOnly DEF Stages, Over, HoldsRow
<1>6. CASE LockOrder(r)
  <2>1. PICK s \in {"replace", "cascade"} :
          /\ stage[r] = "update" /\ stage' = [stage EXCEPT ![r] = s] /\ UNCHANGED database
          /\ job' = job /\ job[r].order \in Existing
          /\ OrderFree(r, job[r].order)
    BY <1>1, <1>6 DEF LockOrder, AtOrder, GoTo
  <2>2. JobTyped(job[r], s)
    BY <1>1, <2>1 DEF JobTyped, OrderStages, Stages, Over, HoldsRow, Posting
  <2>3. \A q \in Req \ {r} : ~HoldsOrder(q, job[r].order)
    BY <2>1 DEF OrderFree
  <2> QED BY <2>1, <2>2, <2>3, ReadsOnly DEF Stages, Over
<1> QED BY <1>2, <1>3, <1>4, <1>5, <1>6

-----------------------------------------------------------------------------
(* The new status is a status.                                             *)
LEMMA PatchedTyped ==
  ASSUME Typed, NEW r \in Req, job[r].order \in Existing
  PROVE  /\ Patched(r) \in [Id -> Order \cup {None}]
         /\ \A o \in Id : Patched(r)[o] = None <=> order[o] = None
<1> DEFINE o == job[r].order
           s == IF job[r].status = None THEN order[o].status ELSE job[r].status
<1>1. order \in [Id -> Order \cup {None}] /\ o \in Id /\ order[o] \in Order
  BY DEF Typed, Existing
<1>2. s \in Statuses
  BY <1>1 DEF Typed, JobTyped, Order, Statuses
<1>3. Patched(r) = [order EXCEPT ![o] = [order[o] EXCEPT !.status = s]]
  BY DEF Patched
<1>4. [order[o] EXCEPT !.status = s] \in Order
  BY <1>1, <1>2 DEF Order
<1> HIDE DEF s
<1> QED BY <1>1, <1>3, <1>4, NoneAssumption

LEMMA PatchReceipts == ASSUME ReceiptsInv, NEW r \in Req, Patch(r) PROVE ReceiptsInv'
<1>1. /\ stage[r] \notin Over /\ job[r].order \in Existing /\ order' = Patched(r)
      /\ End(r, "done") /\ UNCHANGED <<line, moved>> /\ "done" \in Over
  BY DEF Patch, AtOrder, Over
<1>2. order' \in [Id -> Order \cup {None}] /\ Existing' = Existing
  BY <1>1, PatchedTyped DEF ReceiptsInv, Existing
<1>3. /\ line' \in [Key -> Line \cup {None}] /\ moved' \in [Key -> Nat]
      /\ \A q \in Req \ {r} : HoldsRow(stage[q]) => job[q].order \in Existing'
  BY <1>1, <1>2 DEF ReceiptsInv, Typed, JobTyped
<1>4. Lines' = Lines /\ \A k \in Lines' : line'[k].order = line[k].order
  BY <1>1 DEF Lines
<1>5. ReceivedIsMoved'
  BY <1>1, <1>4 DEF ReceivedIsMoved, ReceiptsInv
<1> QED BY <1>1, <1>2, <1>3, <1>4, <1>5, Writing

LEMMA ReplaceReceipts == ASSUME ReceiptsInv, NEW r \in Req, ReplaceLines(r) PROVE ReceiptsInv'
<1> DEFINE o == job[r].order
<1>1. PICK qs \in Bodies :
        line' = [k \in Key |-> IF k[1] = r THEN NewLines(r, o, qs)[k]
                               ELSE IF k \in LinesOf(o) THEN None ELSE line[k]]
  BY DEF ReplaceLines
<1>2. /\ stage[r] \notin Over /\ order' = Patched(r) /\ End(r, "done")
      /\ UNCHANGED moved /\ "done" \in Over /\ stage[r] = "replace"
  BY DEF ReplaceLines, Over
<1>3. o \in Existing /\ o \in Id /\ Past(o) /\ ~Past(r)
  <2>1. JobTyped(job[r], stage[r])
    BY DEF ReceiptsInv, Typed
  <2> QED BY <1>2, <2>1, PurchaseAssumption
          DEF JobTyped, HoldsRow, OrderStages, Stages, Over, Past
<1>4. order' \in [Id -> Order \cup {None}] /\ Existing' = Existing
  BY <1>2, <1>3, PatchedTyped DEF ReceiptsInv, Existing
<1>5. ASSUME NEW k \in Key
      PROVE  /\ line'[k] \in Line \cup {None}
             /\ k[1] = r /\ line'[k] # None => line'[k].order = o /\ line'[k].received = 0
             /\ k[1] # r => line'[k] = line[k] \/ line'[k] = None
  <2>1. line[k] \in Line \cup {None}
    BY DEF ReceiptsInv, Typed
  <2>2. line'[k] = IF k[1] = r THEN NewLines(r, o, qs)[k]
                   ELSE IF k \in LinesOf(o) THEN None ELSE line[k]
    BY <1>1
  <2> QED BY <1>3, <2>1, <2>2, FreshLines
<1>6. line' \in [Key -> Line \cup {None}]
  BY <1>1, <1>5
<1>7. \A q \in Id : q = o => Past(q)'
  <2>1. stage' = [stage EXCEPT ![r] = "done"] /\ "done" \in Stages
    BY <1>2 DEF End, GoTo, Stages
  <2> QED BY <1>2, <1>3, <2>1, PastStays DEF ReceiptsInv
<1>8. ASSUME NEW k \in Lines' PROVE \/ k \in Lines /\ line'[k].order = line[k].order
                                    \/ k[1] = r /\ OwnerPast(k)'
  <2>1. k \in Key /\ line'[k] # None
    BY DEF Lines
  <2>2. CASE k[1] = r
    <3>1. PICK q : q = line'[k].order
      OBVIOUS
    <3>2. q = o /\ q \in Id
      BY <1>3, <1>5, <2>1, <2>2, <3>1
    <3>3. Past(q)'
      BY <1>7, <3>2
    <3> QED BY <2>2, <3>1, <3>3 DEF OwnerPast, Past
  <2>3. CASE k[1] # r
    BY <1>5, <2>1, <2>3 DEF Lines
  <2> QED BY <2>2, <2>3
<1>9. ReceivedIsMoved'
  <2>1. \A k \in Key : k[1] = r => moved[k] = 0
    BY <1>3 DEF ReceiptsInv, MadeInThePast
  <2> QED BY <1>2, <1>5, <2>1 DEF ReceivedIsMoved, Lines, ReceiptsInv
<1>10. \A q \in Req \ {r} : HoldsRow(stage[q]) => job[q].order \in Existing'
  BY <1>4 DEF ReceiptsInv, Typed, JobTyped
<1>11. moved' \in [Key -> Nat] /\ \A k \in Key : ~Past(k[1])' => moved'[k] = moved[k]
  BY <1>2 DEF ReceiptsInv, Typed
<1> QED BY <1>2, <1>4, <1>6, <1>8, <1>9, <1>10, <1>11, Writing

LEMMA CascadeReceipts == ASSUME ReceiptsInv, NEW r \in Req, Cascade(r) PROVE ReceiptsInv'
<1> DEFINE o == job[r].order
<1>1. /\ stage[r] \notin Over /\ order' = [order EXCEPT ![o] = None] /\ End(r, "done")
      /\ line' = [k \in Key |-> IF k \in LinesOf(o) THEN None ELSE line[k]]
      /\ UNCHANGED moved /\ "done" \in Over /\ HoldsRow(stage[r])
  BY DEF Cascade, Over, HoldsRow
<1>2. order \in [Id -> Order \cup {None}] /\ line \in [Key -> Line \cup {None}]
      /\ moved \in [Key -> Nat]
  BY DEF ReceiptsInv, Typed
<1>3. order' \in [Id -> Order \cup {None}] /\ Existing' = Existing \ {o}
  BY <1>1, <1>2 DEF Existing
<1>4. \A k \in Key : line'[k] = line[k] \/ line'[k] = None
  BY <1>1
<1>5. line' \in [Key -> Line \cup {None}]
  BY <1>1, <1>2
<1>6. \A q \in Req \ {r} : HoldsRow(stage[q]) => job[q].order \in Existing'
  BY <1>1, <1>3 DEF ReceiptsInv, Typed, JobTyped, HoldersApart
<1>7. \A k \in Lines' : k \in Lines /\ line'[k] = line[k]
  BY <1>4 DEF Lines
<1>8. ReceivedIsMoved'
  BY <1>1, <1>7 DEF ReceivedIsMoved, ReceiptsInv
<1> QED BY <1>1, <1>2, <1>3, <1>5, <1>6, <1>7, <1>8, Writing

LEMMA ReceiveReceipts == ASSUME ReceiptsInv, NEW r \in Req, Receive(r) PROVE ReceiptsInv'
<1> DEFINE o == job[r].order
<1>1. /\ stage[r] = "status" /\ stage[r] \notin Over /\ End(r, "done") /\ "done" \in Over
      /\ moved' = [k \in Key |-> moved[k] + Asked(r, k)]
      /\ line' = [k \in Key |-> IF k \in Lines /\ Asked(r, k) > 0
                                THEN [line[k] EXCEPT !.received = Raised(r, k)] ELSE line[k]]
      /\ order' = IF o \in Existing
                  THEN [order EXCEPT ![o].status = StatusAfter(job[r].full)] ELSE order
  BY DEF Receive, Over
<1>2. Posting(stage[r]) /\ Typed
  BY <1>1 DEF Posting, ReceiptsInv
<1>3. \A k : /\ Asked(r, k) \in Nat
             /\ Asked(r, k) # 0 => \E i \in DOMAIN job[r].body : job[r].body[i].key = k
  BY <1>2, AskedNat
<1>4. order \in [Id -> Order \cup {None}] /\ line \in [Key -> Line \cup {None}]
      /\ moved \in [Key -> Nat]
  BY <1>2 DEF Typed
<1>5. order' \in [Id -> Order \cup {None}] /\ Existing' = Existing
  <2>1. CASE o \in Existing
    <3>1. StatusAfter(job[r].full) \in Statuses /\ order[o] \in Order
      BY <1>4, <2>1 DEF StatusAfter, Statuses, Existing
    <3>2. order' = [order EXCEPT ![o] = [order[o] EXCEPT !.status = StatusAfter(job[r].full)]]
      BY <1>1, <2>1
    <3>3. [order[o] EXCEPT !.status = StatusAfter(job[r].full)] \in Order
      BY <3>1 DEF Order
    <3> QED BY <1>4, <2>1, <3>2, <3>3, NoneAssumption DEF Existing
  <2> QED BY <1>1, <1>4, <2>1 DEF Existing
<1>6. ASSUME NEW k \in Lines
      PROVE  /\ line'[k] \in Line /\ line'[k].order = line[k].order /\ line'[k].qty = line[k].qty
             /\ line'[k].received = line[k].received + Asked(r, k)
  <2>1. line[k] \in Line /\ k \in Key
    BY <1>4 DEF Lines
  <2>2. line'[k] = IF Asked(r, k) > 0 THEN [line[k] EXCEPT !.received = Raised(r, k)]
                                      ELSE line[k]
    BY <1>1, <2>1
  <2>3. Raised(r, k) = line[k].received + Asked(r, k) /\ Raised(r, k) \in Nat
    BY <1>3, <2>1 DEF Raised, Line
  <2>4. CASE Asked(r, k) > 0
    BY <2>1, <2>2, <2>3, <2>4 DEF Line
  <2>5. CASE Asked(r, k) = 0
    BY <2>1, <2>2, <2>5 DEF Line
  <2> QED BY <1>3, <2>4, <2>5
<1>7. \A k \in Key \ Lines : line'[k] = None
  BY <1>1 DEF Lines
<1>8. line' \in [Key -> Line \cup {None}] /\ Lines' = Lines
  <2>1. \A k \in Key : line'[k] \in Line \cup {None} /\ (k \in Lines <=> line'[k] # None)
    BY <1>6, <1>7, NoneAssumption
  <2>2. line' = [k \in Key |-> line'[k]]
    BY <1>1
  <2> QED BY <2>1, <2>2 DEF Lines
<1>9. moved' \in [Key -> Nat]
  BY <1>1, <1>3, <1>4
<1>10. ASSUME NEW k \in Key, ~Past(k[1])' PROVE moved'[k] = moved[k]
  <2>1. ~Past(k[1])
    BY <1>1, <1>10 DEF Past, End, GoTo, ReceiptsInv, Typed
  <2>2. \A i \in DOMAIN job[r].body : Past(job[r].body[i].key[1])
    BY <1>2 DEF Typed, JobTyped, BodyFits
  <2>3. Asked(r, k) = 0
    BY <1>3, <2>1, <2>2
  <2> QED BY <1>1, <1>4, <2>3
<1>11. ReceivedIsMoved'
  <2>1. \A k \in Lines : k \in Key /\ line[k].received = moved[k]
    BY DEF ReceiptsInv, ReceivedIsMoved, Lines
  <2> QED BY <1>1, <1>6, <1>8, <2>1 DEF ReceivedIsMoved
<1>12. \A q \in Req \ {r} : HoldsRow(stage[q]) => job[q].order \in Existing'
  BY <1>5 DEF ReceiptsInv, Typed, JobTyped
<1>13. \A k \in Lines' : k \in Lines /\ line'[k].order = line[k].order
  BY <1>6, <1>8
<1>14. \A k \in Key : ~Past(k[1])' => moved'[k] = moved[k]
  BY <1>10
<1> QED BY <1>1, <1>5, <1>8, <1>9, <1>11, <1>12, <1>13, <1>14, Writing

LEMMA NextReceipts == ASSUME ReceiptsInv, [Next]_vars PROVE ReceiptsInv'
<1>1. CASE UNCHANGED vars
  <2>1. UNCHANGED <<order, line, moved, stage, job>>
    BY <1>1 DEF vars, database
  <2>2. Existing' = Existing /\ Lines' = Lines /\ \A i : Past(i)' = Past(i)
    BY <2>1 DEF Existing, Lines, Past
  <2>3. Typed'
    BY <2>1, <2>2 DEF ReceiptsInv, Typed, JobTyped, BodyFits
  <2>4. MadeInThePast'
    BY <2>1, <2>2 DEF ReceiptsInv, MadeInThePast, OwnerPast, Past
  <2>5. HoldersApart' /\ ReceivedIsMoved'
    BY <2>1, <2>2 DEF ReceiptsInv, HoldersApart, ReceivedIsMoved
  <2> QED BY <2>3, <2>4, <2>5 DEF ReceiptsInv
<1>2. ASSUME NEW r \in Req, Gone(r) \/ Fail(r) \/ DeadlockVictim(r) PROVE ReceiptsInv'
  <2>1. stage[r] \notin Over
    BY <1>2 DEF Gone, AtOrder, Fail, DeadlockVictim, Deadlocked, HoldsOrder, Over
  <2>2. PICK out \in {"done", "failed"} : End(r, out) /\ UNCHANGED database
    BY <1>2 DEF Gone, Fail, DeadlockVictim
  <2> QED BY <2>1, <2>2, EndsIdle DEF Over
<1>3. ASSUME NEW r \in Req, Step(r) PROVE ReceiptsInv'
  BY <1>2, <1>3, CreateReceipts, PatchReceipts, ReadReceipts, ReplaceReceipts, CascadeReceipts,
     ReceiveReceipts DEF Step
<1>4. CASE Next
  BY <1>1, <1>2, <1>3, <1>4, ReadReceipts, BeginReceipts DEF Next, AllAnswered
<1> QED BY <1>1, <1>4

(* What a line says was received is what entered the stock for it, however *)
(* many receipts overlap and whatever edits and deletions come between.    *)
THEOREM ReceiptsReachStock == Spec => []ReceivedIsMoved
<1>1. Init => ReceiptsInv
  BY FirstReceipts
<1>2. ReceiptsInv /\ [Next]_vars => ReceiptsInv'
  BY NextReceipts
<1>3. ReceiptsInv => ReceivedIsMoved
  BY DEF ReceiptsInv
<1> QED BY <1>1, <1>2, <1>3, PTL DEF Spec

-----------------------------------------------------------------------------
(***************************************************************************)
(* The orders that requests were at one after the other.  An edit that is  *)
(* at one found it editable, and it stays so; a receive found each line of *)
(* its body, once, with room for its quantity, and what it decided from    *)
(* the totals stays what they say.                                         *)
(***************************************************************************)
Alone(o) == \A q, r \in Req : job[q].order = o /\ job[r].order = o => q = r
BodyServes(r, o) ==
  LET b == job[r].body
  IN  \A i \in DOMAIN b : /\ b[i].key \in LinesOf(o) /\ Fits(line[b[i].key], b[i].qty)
                          /\ \A n \in DOMAIN b : b[n].key = b[i].key => n = i
Serves(r, o) ==
  /\ stage[r] \in {"update", "replace", "cascade"} => Editable(o)
  /\ Posting(stage[r]) => BodyServes(r, o)
  /\ stage[r] = "status" => (job[r].full <=> TotalReceived(r) >= TotalQty(o))
Told(o) ==
  /\ Tells(order[o].status, ReceivedOf(o), TotalQty(o))
  /\ \A k \in LinesOf(o) : line[k].received =< line[k].qty
  /\ Alone(o) /\ \A r \in Req : job[r].order = o => Serves(r, o)
RegularInv == \A o \in Regular : Told(o)

(* The sums of an order are those of its lines.                            *)
LEMMA SameSums ==
  ASSUME NEW o, LinesOf(o)' = LinesOf(o), \A k \in LinesOf(o) : line'[k] = line[k]
  PROVE  /\ ReceivedOf(o)' = ReceivedOf(o) /\ TotalQty(o)' = TotalQty(o)
         /\ \A r \in Req : job[r].order = o /\ job'[r].order = o /\ job'[r].body = job[r].body
                             => TotalReceived(r)' = TotalReceived(r)
<1>1. ReceivedOf(o)' = ReceivedOf(o)
  <2>1. [k \in LinesOf(o) |-> line[k].received]' = [k \in LinesOf(o) |-> line[k].received]
    OBVIOUS
  <2> QED BY <2>1 DEF ReceivedOf
<1>2. TotalQty(o)' = TotalQty(o)
  <2>1. [k \in LinesOf(o) |-> line[k].qty]' = [k \in LinesOf(o) |-> line[k].qty]
    OBVIOUS
  <2> QED BY <2>1 DEF TotalQty
<1>3. ASSUME NEW r \in Req, job[r].order = o, job'[r].order = o, job'[r].body = job[r].body
      PROVE  TotalReceived(r)' = TotalReceived(r)
  <2>1. \A k : Asked(r, k)' = Asked(r, k)
    BY <1>3 DEF Asked
  <2>2. \A k \in LinesOf(o) : Raised(r, k)' = Raised(r, k)
    BY <2>1 DEF Raised
  <2>3. [k \in LinesOf(o) |-> Raised(r, k)]' = [k \in LinesOf(o) |-> Raised(r, k)]
    BY <2>2
  <2>4. TotalReceived(r) = SumFunction([k \in LinesOf(o) |-> Raised(r, k)])
    BY <1>3 DEF TotalReceived
  <2>5. TotalReceived(r)' = SumFunction([k \in LinesOf(o) |-> Raised(r, k)])'
    BY <1>3 DEF TotalReceived
  <2> QED BY <2>3, <2>4, <2>5
<1> QED BY <1>1, <1>2, <1>3

LEMMA StaysTold ==
  ASSUME NEW o, Told(o), order'[o] = order[o], LinesOf(o)' = LinesOf(o),
         \A k \in LinesOf(o) : line'[k] = line[k], Alone(o)',
         \A r \in Req : job'[r].order = o => \/ job'[r] = job[r] /\ stage'[r] = stage[r]
                                             \/ Serves(r, o)'
  PROVE  Told(o)'
<1>1. ReceivedOf(o)' = ReceivedOf(o) /\ TotalQty(o)' = TotalQty(o)
  BY SameSums
<1>2. ASSUME NEW r \in Req, job'[r].order = o, job'[r] = job[r], stage'[r] = stage[r]
      PROVE  Serves(r, o)'
  <2>1. Serves(r, o) /\ TotalReceived(r)' = TotalReceived(r)
    BY <1>2, SameSums DEF Told
  <2>2. BodyServes(r, o) => BodyServes(r, o)'
    BY <1>2 DEF BodyServes
  <2>3. Editable(o)' <=> Editable(o)
    BY DEF Editable
  <2> QED BY <1>1, <1>2, <2>1, <2>2, <2>3 DEF Serves
<1>3. \A r \in Req : job'[r].order = o => Serves(r, o)'
  BY <1>2
<1>4. Tells(order[o].status, ReceivedOf(o), TotalQty(o))'
  BY <1>1 DEF Told, Tells
<1> QED BY <1>3, <1>4 DEF Told

(* An order nothing is written to, when a request ends or starts another.  *)
LEMMA OthersTold ==
  ASSUME NEW o, Told(o), order'[o] = order[o], LinesOf(o)' = LinesOf(o),
         \A k \in LinesOf(o) : line'[k] = line[k], DOMAIN job = Req,
         NEW r \in Req, NEW s, NEW j, stage' = [stage EXCEPT ![r] = s], DOMAIN stage = Req,
         job' = [job EXCEPT ![r] = j], j.order # o
  PROVE  Told(o)'
<1>1. \A q \in Req : job'[q].order = o => q # r /\ job'[q] = job[q] /\ stage'[q] = stage[q]
  OBVIOUS
<1>2. Alone(o)'
  BY <1>1 DEF Alone, Told
<1> QED BY <1>1, <1>2, StaysTold

LEMMA FirstRegular == Init => RegularInv
<1> SUFFICES ASSUME Init, NEW o \in Regular PROVE Told(o)
  BY DEF RegularInv
<1>1. o \in Seed /\ o \in Id /\ order[o] = Order0[o]
  BY DEF Init, Regular, Existing, Id
<1>2. \A k \in Key : line[k] = IF k[1] \in Seed THEN Line0[k] ELSE None
  BY DEF Init
<1>3. Seed \X Position \subseteq Key /\ \A k \in Key : k[1] \in Seed => k \in Seed \X Position
  BY DEF Key, Id
<1>4. LinesOf(o) = Keys0(o) /\ \A k \in LinesOf(o) : line[k] = Line0[k] /\ k \in Seed \X Position
  BY <1>2, <1>3 DEF LinesOf, Lines, Keys0
<1>5. /\ [k \in LinesOf(o) |-> line[k].received] = [k \in Keys0(o) |-> Line0[k].received]
      /\ [k \in LinesOf(o) |-> line[k].qty] = [k \in Keys0(o) |-> Line0[k].qty]
  BY <1>4
<1>6. Tells(order[o].status, ReceivedOf(o), TotalQty(o))
  BY <1>1, <1>5, SeedAssumption DEF ReceivedOf, TotalQty
<1>7. \A k \in LinesOf(o) : line[k].received =< line[k].qty
  BY <1>4, SeedAssumption DEF Keys0
<1>8. \A r \in Req : job[r].order # o
  BY <1>1, NoneAssumption DEF Init, Idle
<1> QED BY <1>6, <1>7, <1>8 DEF Told, Alone

(* A request that ends with nothing done, or reads the number for a new    *)
(* order.                                                                  *)
LEMMA EndsRegular ==
  ASSUME ReceiptsInv, RegularInv, NEW r \in Req, NEW s, NEW j, UNCHANGED <<database, irregular>>,
         stage' = [stage EXCEPT ![r] = s], job' = [job EXCEPT ![r] = j], j.order = None
  PROVE  RegularInv'
<1>1. UNCHANGED <<order, line, irregular>>
  BY DEF database
<1>2. Regular' = Regular /\ (\A o : LinesOf(o)' = LinesOf(o)) /\ \A o \in Regular : o # None
  BY <1>1, NoneAssumption DEF Regular, Existing, LinesOf, Lines
<1>3. DOMAIN job = Req /\ DOMAIN stage = Req
  BY DEF ReceiptsInv, Typed
<1>4. ASSUME NEW o \in Regular' PROVE Told(o)'
  BY <1>1, <1>2, <1>3, OthersTold DEF RegularInv
<1> QED BY <1>4 DEF RegularInv

LEMMA StartRegular ==
  ASSUME ReceiptsInv, RegularInv, NEW r \in Req, NEW o \in Existing, NEW kind, NEW status,
         NEW next \in {"update", "lines"}, next = "update" => Editable(o),
         Start(r, o, kind, status, next)
  PROVE  RegularInv'
<1> DEFINE j == [Idle EXCEPT !.kind = kind, !.order = o, !.status = status]
<1>1. /\ UNCHANGED <<order, line>> /\ stage[r] = "new" /\ stage' = [stage EXCEPT ![r] = next]
      /\ job' = [job EXCEPT ![r] = j] /\ j.order = o
      /\ irregular' = IF \E q \in Req : job[q].order = o THEN irregular \cup {o} ELSE irregular
  BY DEF Start, GoTo, database, Idle
<1> HIDE DEF j
<1>2. Regular' \subseteq Regular /\ \A p : LinesOf(p)' = LinesOf(p)
  BY <1>1 DEF Regular, Existing, LinesOf, Lines
<1>3. DOMAIN job = Req /\ DOMAIN stage = Req
  BY DEF ReceiptsInv, Typed
<1>4. ASSUME NEW p \in Regular' PROVE Told(p)'
  <2>1. Told(p)
    BY <1>2 DEF RegularInv
  <2>2. CASE p # o
    BY <1>1, <1>2, <1>3, <2>1, <2>2, OthersTold
  <2>3. CASE p = o
    <3>1. \A q \in Req : job[q].order # o
      BY <1>1, <2>3 DEF Regular
    <3>2. \A q \in Req : job'[q].order = o => q = r
      BY <1>1, <1>3, <3>1
    <3>3. Editable(o)' <=> Editable(o)
      BY <1>1 DEF Editable
    <3>4. Serves(r, o)'
      BY <1>1, <1>3, <3>3 DEF Serves, Posting
    <3>5. Alone(p)'
      BY <2>3, <3>2 DEF Alone
    <3> QED BY <1>1, <1>2, <2>1, <2>3, <3>2, <3>4, <3>5, StaysTold
  <2> QED BY <2>2, <2>3
<1> QED BY <1>4 DEF RegularInv

LEMMA BeginRegular ==
  ASSUME ReceiptsInv, RegularInv, NEW r \in Req, BeginPatch(r) \/ BeginRemove(r) \/ BeginReceive(r)
  PROVE  RegularInv'
<1>1. CASE BeginPatch(r)
  <2>1. PICK o \in Existing, s \in {"draft", "sent", "cancelled", None}, content \in BOOLEAN :
          Editable(o) /\ Start(r, o, IF content THEN "edit" ELSE "patch", s, "update")
    BY <1>1 DEF BeginPatch
  <2> QED BY <2>1, StartRegular
<1>2. CASE BeginRemove(r)
  <2>1. PICK o \in Existing : Editable(o) /\ Start(r, o, "remove", None, "update")
    BY <1>2 DEF BeginRemove
  <2> QED BY <2>1, StartRegular
<1>3. CASE BeginReceive(r)
  <2>1. PICK o \in Existing : Start(r, o, "receive", None, "lines")
    BY <1>3 DEF BeginReceive
  <2> QED BY <2>1, StartRegular
<1> QED BY <1>1, <1>2, <1>3

(* A request at an order that reads on.                                    *)
LEMMA ReadsOnRegular ==
  ASSUME ReceiptsInv, RegularInv, NEW r \in Req, NEW s, NEW j, NEW o, o = job[r].order, j.order = o,
         UNCHANGED database,
         irregular \subseteq irregular', stage' = [stage EXCEPT ![r] = s],
         job' = [job EXCEPT ![r] = j] \/ (job' = job /\ j = job[r]),
         o \in Regular' => Serves(r, o)'
  PROVE  RegularInv'
<1>1. UNCHANGED <<order, line>>
  BY DEF database
<1>2. Regular' \subseteq Regular /\ (\A p : LinesOf(p)' = LinesOf(p))
  BY <1>1 DEF Regular, Existing, LinesOf, Lines
<1>3. DOMAIN job = Req /\ DOMAIN stage = Req
  BY DEF ReceiptsInv, Typed
<1>4. \A q \in Req : /\ job'[q].order = job[q].order
                     /\ q # r => job'[q] = job[q] /\ stage'[q] = stage[q]
  BY <1>3
<1>5. ASSUME NEW p \in Regular' PROVE Told(p)'
  <2>1. Told(p)
    BY <1>2 DEF RegularInv
  <2>2. Alone(p)'
    BY <1>4, <2>1 DEF Alone, Told
  <2>3. job'[r].order = p => Serves(r, p)'
    BY <1>4
  <2> QED BY <1>1, <1>2, <1>4, <2>1, <2>2, <2>3, StaysTold
<1> QED BY <1>5 DEF RegularInv

LEMMA ReadLinesRegular ==
  ASSUME ReceiptsInv, RegularInv, NEW r \in Req, ReadLines(r) PROVE RegularInv'
<1> PICK o : o = job[r].order
  OBVIOUS
<1> DEFINE read == [k \in LinesOf(job[r].order) |-> line[k]]
<1>1. /\ stage[r] = "lines" /\ UNCHANGED database /\ DOMAIN job = Req /\ DOMAIN stage = Req
      /\ DOMAIN job[r] = JobParts
  BY DEF ReadLines, ReceiptsInv, Typed, JobTyped
<1>2. CASE End(r, "failed")
  <2>1. /\ stage' = [stage EXCEPT ![r] = "failed"] /\ job' = [job EXCEPT ![r] = Idle]
        /\ UNCHANGED <<database, irregular>> /\ Idle.order = None
    BY <1>1, <1>2 DEF End, GoTo, Idle
  <2> QED BY <2>1, EndsRegular
<1>3. CASE ~End(r, "failed")
  <2>1. PICK body \in UNION {[1..n -> [key : DOMAIN read, qty : Quantities]] : n \in 1..MaxBody} :
          /\ \A i \in DOMAIN body : Fits(read[body[i].key], body[i].qty)
          /\ job' = [job EXCEPT ![r].body = body, ![r].seen = read]
          /\ irregular' = IF \E i, n \in DOMAIN body : i # n /\ body[i].key = body[n].key
                          THEN irregular \cup {job[r].order} ELSE irregular
          /\ stage' = [stage EXCEPT ![r] = "post"]
    BY <1>3 DEF ReadLines, GoTo
  <2> DEFINE j == [job[r] EXCEPT !.body = body, !.seen = read]
  <2>2. job' = [job EXCEPT ![r] = j] /\ j.order = o /\ j.body = body
    BY <1>1, <2>1 DEF JobParts
  <2>3. \A i \in DOMAIN body : /\ body[i].key \in LinesOf(o)
                               /\ Fits(line[body[i].key], body[i].qty)
    <3>1. \A i \in DOMAIN body : body[i].key \in LinesOf(o)
      BY <2>1
    <3> QED BY <2>1, <3>1
  <2>4. irregular \subseteq irregular' /\ UNCHANGED line
    BY <1>1, <2>1 DEF database
  <2>5. ASSUME o \in Regular' PROVE Serves(r, o)'
    <3>1. \A i, n \in DOMAIN body : body[i].key = body[n].key => n = i
      BY <2>1, <2>5 DEF Regular
    <3>2. job'[r].body = body /\ stage'[r] = "post"
      BY <1>1, <2>1, <2>2
    <3>3. LinesOf(o)' = LinesOf(o)
      BY <2>4 DEF LinesOf, Lines
    <3>4. BodyServes(r, o)'
      <4> HIDE DEF read
      <4> QED BY <2>3, <2>4, <3>1, <3>2, <3>3 DEF BodyServes
    <3> QED BY <3>2, <3>4 DEF Serves
  <2> HIDE DEF j
  <2> QED BY <1>1, <2>1, <2>2, <2>4, <2>5, ReadsOnRegular
<1> QED BY <1>2, <1>3

LEMMA PostRegular ==
  ASSUME ReceiptsInv, RegularInv, NEW r \in Req, Post(r) \/ ReadTotals(r) \/ LockOrder(r)
  PROVE  RegularInv'
<1> PICK o : o = job[r].order
  OBVIOUS
<1>1. /\ UNCHANGED <<order, line, irregular>> /\ UNCHANGED database
      /\ DOMAIN job = Req /\ DOMAIN stage = Req /\ DOMAIN job[r] = JobParts
  BY DEF Post, ReadTotals, LockOrder, database, ReceiptsInv, Typed, JobTyped
<1>2. /\ LinesOf(o)' = LinesOf(o) /\ \A k \in LinesOf(o) : line'[k] = line[k]
      /\ o \in Regular' => o \in Regular
  BY <1>1 DEF Regular, Existing, LinesOf, Lines
<1>3. ASSUME o \in Regular' PROVE Serves(r, o)
  BY <1>2, <1>3 DEF RegularInv, Told
<1>4. ASSUME job'[r].body = job[r].body PROVE BodyServes(r, o) => BodyServes(r, o)'
  BY <1>1, <1>2, <1>4 DEF BodyServes
<1>5. CASE Post(r)
  <2>1. stage[r] = "post" /\ stage' = [stage EXCEPT ![r] = "totals"] /\ job' = job
    BY <1>5 DEF Post, GoTo
  <2>2. stage'[r] = "totals" /\ Posting(stage[r])
    BY <1>1, <2>1 DEF Posting
  <2>3. o \in Regular' => Serves(r, o)'
    BY <1>3, <1>4, <2>1, <2>2 DEF Serves
  <2> QED BY <1>1, <2>1, <2>3, ReadsOnRegular
<1>6. CASE ReadTotals(r)
  <2> DEFINE full == TotalReceived(r) >= TotalQty(o)
             j == [job[r] EXCEPT !.full = full]
  <2>1. /\ stage[r] = "totals" /\ stage' = [stage EXCEPT ![r] = "status"]
        /\ job' = [job EXCEPT ![r] = j]
    BY <1>1, <1>6 DEF ReadTotals, GoTo
  <2>2. PICK yes : yes = full
    OBVIOUS
  <2>3. j.order = o /\ j.body = job[r].body /\ j.full = yes
    BY <1>1, <2>2 DEF JobParts
  <2>4. stage'[r] = "status" /\ job'[r] = j /\ Posting(stage[r])
    BY <1>1, <2>1 DEF Posting
  <2>5. TotalReceived(r)' = TotalReceived(r) /\ TotalQty(o)' = TotalQty(o)
    <3> HIDE DEF j
    <3> QED BY <1>2, <2>3, <2>4, SameSums
  <2>6. (job[r].full)' <=> TotalReceived(r) >= TotalQty(o)
    <3>1. job'[r].full = yes
      BY <2>3, <2>4
    <3> HIDE DEF j
    <3> QED BY <2>2, <3>1
  <2>7. o \in Regular' => Serves(r, o)'
    <3> HIDE DEF j
    <3>1. o \in Regular' => BodyServes(r, o)'
      BY <1>3, <1>4, <2>3, <2>4 DEF Serves
    <3> QED BY <2>4, <2>5, <2>6, <3>1 DEF Serves
  <2> HIDE DEF j
  <2> QED BY <1>1, <2>1, <2>3, <2>7, ReadsOnRegular
<1>7. CASE LockOrder(r)
  <2>1. PICK s \in {"replace", "cascade"} :
          stage[r] = "update" /\ stage' = [stage EXCEPT ![r] = s] /\ job' = job
    BY <1>7 DEF LockOrder, AtOrder, GoTo
  <2>2. stage'[r] = s
    BY <1>1, <2>1
  <2>3. Editable(o)' <=> Editable(o)
    BY <1>1, <2>1 DEF Editable
  <2>4. o \in Regular' => Serves(r, o)'
    BY <1>3, <2>1, <2>2, <2>3 DEF Serves, Posting
  <2> QED BY <1>1, <2>1, <2>4, ReadsOnRegular
<1> QED BY <1>5, <1>6, <1>7

-----------------------------------------------------------------------------
(* The orders a request that ends has not written to.                      *)
LEMMA RestTold ==
  ASSUME ReceiptsInv, RegularInv, NEW r \in Req, NEW out, End(r, out), NEW o \in Regular,
         order'[o] = order[o], LinesOf(o)' = LinesOf(o), \A k \in LinesOf(o) : line'[k] = line[k]
  PROVE  Told(o)'
<1>1. /\ stage' = [stage EXCEPT ![r] = out] /\ job' = [job EXCEPT ![r] = Idle]
      /\ Idle.order = None /\ o # None
  BY NoneAssumption DEF End, GoTo, Idle, Regular, Existing
<1>2. Told(o) /\ DOMAIN job = Req /\ DOMAIN stage = Req
  BY DEF RegularInv, ReceiptsInv, Typed
<1> QED BY <1>1, <1>2, OthersTold

(* Nobody else is at a regular order, so nobody is when its request ends.  *)
LEMMA LeftAlone ==
  ASSUME ReceiptsInv, RegularInv, NEW r \in Req, NEW out, End(r, out), NEW o \in Regular,
         job[r].order = o
  PROVE  \A q \in Req : job'[q].order # o
<1>1. job' = [job EXCEPT ![r] = Idle] /\ Idle.order = None /\ o # None /\ DOMAIN job = Req
  BY NoneAssumption DEF End, Idle, Regular, Existing, ReceiptsInv, Typed
<1> QED BY <1>1 DEF RegularInv, Told, Alone

(* Fresh lines have all of their units to come, and there are some.        *)
LEMMA FreshSums ==
  ASSUME NEW r \in Req, NEW o \in Id, NEW qs \in Bodies,
         \A k : k \in LinesOf(o)' <=> /\ k \in Key /\ k[1] = r
                                      /\ NewLines(r, o, qs)[k] # None,
         \A k \in LinesOf(o)' : line'[k] = NewLines(r, o, qs)[k]
  PROVE  /\ ReceivedOf(o)' = 0 /\ TotalQty(o)' \in Nat \ {0}
         /\ \A k \in LinesOf(o)' : line'[k].received =< line'[k].qty
<1> USE PurchaseAssumption
<1>1. PICK n \in Position : qs \in [1 .. n -> Quantities]
  BY DEF Bodies
<1>2. \A k \in LinesOf(o)' : /\ line'[k] \in Line /\ line'[k].received = 0
                             /\ line'[k].qty \in Nat \ {0}
  <2>1. ASSUME NEW k \in LinesOf(o)'
        PROVE  /\ line'[k] \in Line /\ line'[k].received = 0 /\ line'[k].qty \in Quantities
    <3>1. k \in Key /\ line'[k] = NewLines(r, o, qs)[k] /\ line'[k] # None
      OBVIOUS
    <3> QED BY <3>1, FreshLines
  <2> QED BY <2>1
<1>3. IsFiniteSet(LinesOf(o)')
  <2>1. LinesOf(o)' \subseteq {r} \X Position
    BY KeyParts DEF Key
  <2>2. IsFiniteSet({r} \X Position)
    BY FS_Product, FS_Singleton
  <2> QED BY <2>1, <2>2, FS_Subset
<1>4. ReceivedOf(o)' = 0
  <2>1. PICK S : S = LinesOf(o)'
    OBVIOUS
  <2>2. PICK f : f = [k \in S |-> line'[k].received]
    OBVIOUS
  <2>3. \A k \in S : f[k] = 0
    BY <1>2, <2>1, <2>2
  <2>4. SumFunctionOnSet(f, S) = 0
    BY <1>3, <2>1, <2>3, SumOfZeros
  <2>5. ReceivedOf(o)' = SumFunction(f)
    BY <2>1, <2>2 DEF ReceivedOf
  <2> QED BY <2>2, <2>4, <2>5 DEF SumFunction
<1>5. TotalQty(o)' \in Nat \ {0}
  <2>1. PICK S : S = LinesOf(o)'
    OBVIOUS
  <2>2. PICK f : f = [k \in S |-> line'[k].qty]
    OBVIOUS
  <2>3. \A k \in S : f[k] \in Nat \ {0}
    BY <1>2, <2>1, <2>2
  <2>4. PICK k \in S : TRUE
    <3>1. Cardinality(Position) \in Nat /\ n \in 1 .. Cardinality(Position)
      BY FS_CardinalityType
    <3>2. 1 \in Position /\ 1 \in 1 .. n
      BY <3>1
    <3>3. <<r, 1>> \in Key
      BY <3>2 DEF Key, Id
    <3>4. NewLines(r, o, qs)[<<r, 1>>] = [order |-> o, qty |-> qs[1], received |-> 0]
      BY <1>1, <3>2, <3>3 DEF NewLines
    <3>5. [order |-> o, qty |-> qs[1], received |-> 0] \in Line
      BY <1>1, <3>2 DEF Line
    <3>6. NewLines(r, o, qs)[<<r, 1>>] # None
      BY <3>4, <3>5, NoneAssumption
    <3> QED BY <2>1, <3>3, <3>6
  <2>5. f[k] =< SumFunctionOnSet(f, S) /\ SumFunctionOnSet(f, S) \in Nat
    BY <1>3, <2>1, <2>3, SumIsNoLess, SumIsNat
  <2>6. TotalQty(o)' = SumFunction(f)
    BY <2>1, <2>2 DEF TotalQty
  <2>7. SumFunction(f) = SumFunctionOnSet(f, S)
    BY <2>2 DEF SumFunction
  <2>8. f[k] \in Nat /\ f[k] # 0
    BY <2>3, <2>4
  <2> QED BY <2>5, <2>6, <2>7, <2>8
<1> QED BY <1>2, <1>4, <1>5

LEMMA CreateRegular ==
  ASSUME ReceiptsInv, RegularInv, NEW r \in Req, Create(r) PROVE RegularInv'
<1>1. stage[r] = "insert" /\ ~Past(r) /\ r \in Id
  BY PurchaseAssumption DEF Create, Over, Past, Id
<1>2. CASE job[r].last + 1 \in Numbers
  <2>1. /\ stage' = [stage EXCEPT ![r] = "failed"] /\ job' = [job EXCEPT ![r] = Idle]
        /\ UNCHANGED <<database, irregular>> /\ Idle.order = None
    BY <1>1, <1>2 DEF Create, End, GoTo, Idle
  <2> QED BY <2>1, EndsRegular
<1>3. CASE job[r].last + 1 \notin Numbers
  <2>1. PICK s \in {"draft", "sent"}, qs \in Bodies :
          /\ order' = [order EXCEPT ![r] = [number |-> job[r].last + 1, status |-> s]]
          /\ line' = [k \in Key |-> IF k[1] = r THEN NewLines(r, r, qs)[k] ELSE line[k]]
          /\ End(r, "done")
    BY <1>1, <1>3 DEF Create
  <2>2. order \in [Id -> Order \cup {None}] /\ irregular' = irregular
    BY <2>1 DEF End, ReceiptsInv, Typed
  <2>3. \A k \in Key : /\ k[1] = r => line'[k] = NewLines(r, r, qs)[k] /\ line[k] = None
                       /\ k[1] # r => line'[k] = line[k]
    BY <1>1, <2>1 DEF ReceiptsInv, MadeInThePast
  <2>4. \A k \in Lines : line[k].order # r
    BY <1>1 DEF ReceiptsInv, MadeInThePast, OwnerPast
  <2>5. \A k \in Key : k[1] = r /\ NewLines(r, r, qs)[k] # None => NewLines(r, r, qs)[k].order = r
    BY <1>1, FreshLines
  <2>6. ASSUME r \in Regular' PROVE Told(r)'
    <3>1. \A k : k \in LinesOf(r)' <=> k \in Key /\ k[1] = r /\ NewLines(r, r, qs)[k] # None
      BY <2>3, <2>4, <2>5 DEF LinesOf, Lines
    <3>2. \A k \in LinesOf(r)' : line'[k] = NewLines(r, r, qs)[k]
      BY <2>3, <3>1
    <3>3. /\ ReceivedOf(r)' = 0 /\ TotalQty(r)' \in Nat \ {0}
          /\ \A k \in LinesOf(r)' : line'[k].received =< line'[k].qty
      BY <1>1, <3>1, <3>2, FreshSums
    <3>4. order'[r].status = s
      BY <1>1, <2>1, <2>2
    <3>5. Tells(order[r].status, ReceivedOf(r), TotalQty(r))'
      BY <3>3, <3>4 DEF Tells
    <3>6. \A q \in Req : job'[q].order # r
      <4>1. \A q \in Req : job[q].order = None \/ Past(job[q].order)
        BY DEF ReceiptsInv, Typed, JobTyped
      <4>2. job' = [job EXCEPT ![r] = Idle] /\ DOMAIN job = Req /\ Idle.order = None /\ r # None
        BY <1>1, <2>1, NoneAssumption DEF End, Idle, ReceiptsInv, Typed
      <4> QED BY <1>1, <4>1, <4>2
    <3> QED BY <3>3, <3>5, <3>6 DEF Told, Alone
  <2>7. ASSUME NEW o \in Regular', o # r PROVE Told(o)'
    <3>1. o \in Regular /\ order'[o] = order[o]
      BY <2>1, <2>2, <2>7 DEF Regular, Existing
    <3>2. \A k : k \in LinesOf(o)' <=> k \in LinesOf(o)
      BY <2>3, <2>5, <2>7 DEF LinesOf, Lines
    <3>3. LinesOf(o)' = LinesOf(o) /\ \A k \in LinesOf(o) : line'[k] = line[k]
      BY <2>3, <3>2 DEF LinesOf, Lines
    <3> QED BY <2>1, <3>1, <3>3, RestTold
  <2>8. \A o \in Regular' : Told(o)'
    BY <2>6, <2>7
  <2> QED BY <2>8 DEF RegularInv
<1> QED BY <1>2, <1>3

LEMMA PatchedStatus ==
  ASSUME Typed, NEW r \in Req, job[r].order \in Existing
  PROVE  /\ \A o \in Id \ {job[r].order} : Patched(r)[o] = order[o]
         /\ Editable(job[r].order) => Patched(r)[job[r].order].status
                                        \notin {"received", "partiallyReceived"}
<1> DEFINE s == IF job[r].status = None THEN order[job[r].order].status ELSE job[r].status
<1>1. /\ order \in [Id -> Order \cup {None}] /\ job[r].order \in Id
      /\ order[job[r].order] \in Order /\ job[r].status \in {"draft", "sent", "cancelled", None}
  BY DEF Typed, Existing, JobTyped
<1>2. Patched(r) = [order EXCEPT ![job[r].order] = [order[job[r].order] EXCEPT !.status = s]]
  BY DEF Patched
<1>3. Editable(job[r].order) => s \notin {"received", "partiallyReceived"}
  BY <1>1 DEF Editable
<1>4. [order[job[r].order] EXCEPT !.status = s].status = s
  BY <1>1 DEF Order
<1> HIDE DEF s
<1> QED BY <1>1, <1>2, <1>3, <1>4

LEMMA PatchRegular ==
  ASSUME ReceiptsInv, RegularInv, NEW r \in Req, Patch(r) PROVE RegularInv'
<1> PICK o : o = job[r].order
  OBVIOUS
<1>1. /\ stage[r] = "update" /\ o \in Existing /\ order' = Patched(r)
      /\ End(r, "done") /\ UNCHANGED <<line, irregular>>
  BY DEF Patch, AtOrder, End
<1>2. /\ \A p \in Id \ {o} : order'[p] = order[p]
      /\ Editable(o) => order'[o].status \notin {"received", "partiallyReceived"}
  BY <1>1, PatchedStatus DEF ReceiptsInv
<1>3. Regular' \subseteq Regular /\ Regular \subseteq Id
  <2>1. \A p \in Id : Patched(r)[p] = None <=> order[p] = None
    BY <1>1, PatchedTyped DEF ReceiptsInv
  <2> QED BY <1>1, <2>1 DEF Regular, Existing
<1>4. \A p : LinesOf(p)' = LinesOf(p) /\ \A k \in LinesOf(p) : line'[k] = line[k]
  BY <1>1 DEF LinesOf, Lines
<1>5. ASSUME o \in Regular' PROVE Told(o)'
  <2>1. Told(o) /\ Serves(r, o) /\ o \in Regular
    BY <1>3, <1>5 DEF RegularInv, Told
  <2>2. ReceivedOf(o)' = ReceivedOf(o) /\ TotalQty(o)' = TotalQty(o)
    BY <1>4, SameSums
  <2>3. Editable(o)
    BY <1>1, <2>1 DEF Serves
  <2>4. Tells(order[o].status, ReceivedOf(o), TotalQty(o))'
    BY <1>2, <2>1, <2>2, <2>3 DEF Told, Tells, Editable
  <2>5. \A q \in Req : job'[q].order # o
    BY <1>1, <2>1, LeftAlone
  <2>6. \A k \in LinesOf(o)' : line'[k].received =< line'[k].qty
    BY <1>4, <2>1 DEF Told
  <2> QED BY <2>4, <2>5, <2>6 DEF Told, Alone
<1>6. ASSUME NEW p \in Regular', p # o PROVE Told(p)'
  BY <1>1, <1>2, <1>3, <1>4, <1>6, RestTold
<1>7. \A p \in Regular' : Told(p)'
  BY <1>5, <1>6
<1> QED BY <1>7 DEF RegularInv

LEMMA ReplaceRegular ==
  ASSUME ReceiptsInv, RegularInv, NEW r \in Req, ReplaceLines(r) PROVE RegularInv'
<1> PICK o : o = job[r].order
  OBVIOUS
<1>1. /\ stage[r] = "replace" /\ order' = Patched(r) /\ End(r, "done") /\ irregular' = irregular
  BY DEF ReplaceLines, End
<1>2. o \in Existing /\ o \in Id /\ ~Past(r)
  <2>1. JobTyped(job[r], stage[r])
    BY DEF ReceiptsInv, Typed
  <2>2. o \in Existing
    BY <1>1, <2>1 DEF JobTyped, HoldsRow
  <2> QED BY <1>1, <2>2, PurchaseAssumption DEF Existing, Over, Past
<1>3. /\ \A p \in Id \ {o} : order'[p] = order[p]
      /\ Editable(o) => order'[o].status \notin {"received", "partiallyReceived"}
  BY <1>1, <1>2, PatchedStatus DEF ReceiptsInv
<1>4. Regular' \subseteq Regular /\ Regular \subseteq Id
  <2>1. \A p \in Id : Patched(r)[p] = None <=> order[p] = None
    BY <1>2, PatchedTyped DEF ReceiptsInv
  <2> QED BY <1>1, <2>1 DEF Regular, Existing
<1>5. PICK qs \in Bodies :
        line' = [k \in Key |-> IF k[1] = r THEN NewLines(r, o, qs)[k]
                               ELSE IF k \in LinesOf(o) THEN None ELSE line[k]]
  BY DEF ReplaceLines
<1>6. \A k \in Key : /\ k[1] = r => line'[k] = NewLines(r, o, qs)[k] /\ line[k] = None
                     /\ k[1] # r => line'[k] = IF k \in LinesOf(o) THEN None ELSE line[k]
  BY <1>2, <1>5 DEF ReceiptsInv, MadeInThePast
<1>7. \A k \in Key : k[1] = r /\ NewLines(r, o, qs)[k] # None => NewLines(r, o, qs)[k].order = o
  BY <1>2, FreshLines
<1>8. ASSUME o \in Regular' PROVE Told(o)'
  <2>1. Told(o) /\ Serves(r, o) /\ o \in Regular
    BY <1>4, <1>8 DEF RegularInv, Told
  <2>2. Editable(o)
    BY <1>1, <2>1 DEF Serves
  <2>3. \A k : k \in LinesOf(o)' <=> k \in Key /\ k[1] = r /\ NewLines(r, o, qs)[k] # None
    BY <1>6, <1>7 DEF LinesOf, Lines
  <2>4. \A k \in LinesOf(o)' : line'[k] = NewLines(r, o, qs)[k]
    BY <1>6, <2>3
  <2>5. /\ ReceivedOf(o)' = 0 /\ TotalQty(o)' \in Nat \ {0}
        /\ \A k \in LinesOf(o)' : line'[k].received =< line'[k].qty
    BY <1>2, <2>3, <2>4, FreshSums
  <2>6. Tells(order[o].status, ReceivedOf(o), TotalQty(o))'
    BY <1>3, <2>2, <2>5 DEF Tells
  <2>7. \A q \in Req : job'[q].order # o
    BY <1>1, <2>1, LeftAlone
  <2> QED BY <2>5, <2>6, <2>7 DEF Told, Alone
<1>9. ASSUME NEW p \in Regular', p # o PROVE Told(p)'
  <2>1. \A k : k \in LinesOf(p)' <=> k \in LinesOf(p)
    BY <1>6, <1>7, <1>9 DEF LinesOf, Lines
  <2>2. LinesOf(p)' = LinesOf(p) /\ \A k \in LinesOf(p) : line'[k] = line[k]
    BY <1>6, <1>9, <2>1 DEF LinesOf, Lines
  <2> QED BY <1>1, <1>3, <1>4, <1>9, <2>2, RestTold
<1>10. \A p \in Regular' : Told(p)'
  BY <1>8, <1>9
<1> QED BY <1>10 DEF RegularInv

LEMMA CascadeRegular ==
  ASSUME ReceiptsInv, RegularInv, NEW r \in Req, Cascade(r) PROVE RegularInv'
<1> PICK o : o = job[r].order
  OBVIOUS
<1>1. /\ order' = [order EXCEPT ![o] = None] /\ End(r, "done") /\ irregular' = irregular
      /\ line' = [k \in Key |-> IF k \in LinesOf(o) THEN None ELSE line[k]]
  BY DEF Cascade, End
<1>2. order \in [Id -> Order \cup {None}]
  BY DEF ReceiptsInv, Typed
<1>3. \A p \in Regular' : p \in Regular /\ p # o /\ order'[p] = order[p]
  BY <1>1, <1>2 DEF Regular, Existing
<1>4. ASSUME NEW p \in Regular' PROVE Told(p)'
  <2>1. \A k : k \in LinesOf(p)' <=> k \in LinesOf(p)
    BY <1>1, <1>3 DEF LinesOf, Lines
  <2>2. LinesOf(p)' = LinesOf(p) /\ \A k \in LinesOf(p) : line'[k] = line[k]
    BY <1>1, <1>3, <2>1 DEF LinesOf, Lines
  <2> QED BY <1>1, <1>3, <2>2, RestTold
<1> QED BY <1>4 DEF RegularInv

(* A quantity asked once.                                                  *)
LEMMA AskedOnce ==
  ASSUME Typed, NEW r \in Req, Posting(stage[r]), NEW o, BodyServes(r, o),
         NEW i \in DOMAIN job[r].body
  PROVE  Asked(r, job[r].body[i].key) = job[r].body[i].qty
<1> DEFINE D == DOMAIN job[r].body
<1>1. PICK f : f = [n \in D |-> IF job[r].body[n].key = job[r].body[i].key
                                THEN job[r].body[n].qty ELSE 0]
  OBVIOUS
<1>2. IsFiniteSet(D) /\ job[r].body \in [D -> Entries]
  BY DEF Typed, JobTyped, BodyFits
<1>3. f[i] = job[r].body[i].qty /\ f[i] \in Int
  <2>1. job[r].body[i] \in Entries /\ f[i] = job[r].body[i].qty
    BY <1>1, <1>2
  <2>2. job[r].body[i].qty \in Quantities
    BY <2>1 DEF Entries
  <2>3. Quantities \subseteq Int
    BY PurchaseAssumption
  <2> QED BY <2>1, <2>2, <2>3
<1>4. \A n \in D \ {i} : f[n] = 0
  BY <1>1 DEF BodyServes
<1>5. SumFunctionOnSet(f, D) = f[i]
  BY <1>2, <1>3, <1>4, SumOfOne
<1>6. Asked(r, job[r].body[i].key) = SumFunctionOnSet(f, D)
  BY <1>1 DEF Asked, SumFunction
<1> QED BY <1>3, <1>5, <1>6

LEMMA ReceiveRegular ==
  ASSUME ReceiptsInv, RegularInv, NEW r \in Req, Receive(r) PROVE RegularInv'
<1> PICK o : o = job[r].order
  OBVIOUS
<1>1. /\ stage[r] = "status" /\ Posting(stage[r]) /\ End(r, "done") /\ irregular' = irregular
      /\ line' = [k \in Key |-> IF k \in Lines /\ Asked(r, k) > 0
                                THEN [line[k] EXCEPT !.received = Raised(r, k)] ELSE line[k]]
      /\ order' = IF o \in Existing
                  THEN [order EXCEPT ![o].status = StatusAfter(job[r].full)] ELSE order
  BY DEF Receive, End, Posting
<1>2. /\ Typed /\ order \in [Id -> Order \cup {None}] /\ line \in [Key -> Line \cup {None}]
      /\ IsFiniteSet(Lines) /\ BodyFits(job[r])
  BY <1>1 DEF ReceiptsInv, Typed, JobTyped
<1>3. \A k : /\ Asked(r, k) \in Nat
             /\ Asked(r, k) # 0 => \E i \in DOMAIN job[r].body : job[r].body[i].key = k
  BY <1>1, <1>2, AskedNat
<1>4. ASSUME NEW k \in Lines
      PROVE  /\ line[k] \in Line /\ line'[k] \in Line
             /\ line'[k].order = line[k].order /\ line'[k].qty = line[k].qty
             /\ line'[k].received = Raised(r, k)
             /\ Raised(r, k) = line[k].received + Asked(r, k)
             /\ Asked(r, k) = 0 => line'[k] = line[k]
  <2>1. line[k] \in Line /\ k \in Key
    BY <1>2 DEF Lines
  <2>2. line'[k] = IF Asked(r, k) > 0 THEN [line[k] EXCEPT !.received = Raised(r, k)]
                                      ELSE line[k]
    BY <1>1, <2>1
  <2>3. Raised(r, k) = line[k].received + Asked(r, k) /\ Raised(r, k) \in Nat
    BY <1>3, <2>1 DEF Raised, Line
  <2>4. CASE Asked(r, k) > 0
    BY <2>1, <2>2, <2>3, <2>4 DEF Line
  <2>5. CASE Asked(r, k) = 0
    BY <2>1, <2>2, <2>3, <2>5 DEF Line
  <2> QED BY <1>3, <2>4, <2>5
<1>5. Lines' = Lines
  BY <1>1, <1>4, NoneAssumption DEF Lines
<1>6. \A p : LinesOf(p)' = LinesOf(p)
  BY <1>4, <1>5 DEF LinesOf
<1>7. Regular' \subseteq Regular /\ \A p \in Regular' : p # o => order'[p] = order[p]
  BY <1>1, <1>2 DEF Regular, Existing
<1>8. ASSUME o \in Regular' PROVE Told(o)'
  <2>1. Told(o) /\ Serves(r, o) /\ o \in Regular
    BY <1>7, <1>8 DEF RegularInv, Told
  <2>2. BodyServes(r, o)
    BY <1>1, <2>1 DEF Serves
  <2>3. PICK S : S = LinesOf(o) /\ S \subseteq Lines
    BY DEF LinesOf
  <2>4. PICK f, g, h : /\ f = [k \in S |-> Raised(r, k)] /\ g = [k \in S |-> line[k].qty]
                       /\ h = [k \in S |-> line[k].received]
    OBVIOUS
  <2>5. IsFiniteSet(S)
    BY <1>2, <2>3, FS_Subset
  <2>6. ASSUME NEW k \in S
        PROVE  f[k] \in Nat /\ g[k] \in Nat /\ f[k] =< g[k]
    <3>1. line[k] \in Line /\ f[k] = line[k].received + Asked(r, k) /\ g[k] = line[k].qty
      BY <1>4, <2>3, <2>4
    <3>2. CASE Asked(r, k) = 0
      BY <2>1, <2>3, <3>1, <3>2 DEF Told, Line
    <3>3. CASE Asked(r, k) # 0
      <4>1. PICK i \in DOMAIN job[r].body : job[r].body[i].key = k
        BY <1>3, <3>3
      <4>2. Asked(r, k) = job[r].body[i].qty
        BY <1>1, <1>2, <2>2, <4>1, AskedOnce
      <4>3. job[r].body[i].qty + line[k].received =< line[k].qty
        BY <2>2, <4>1 DEF BodyServes, Fits
      <4> QED BY <1>3, <3>1, <4>2, <4>3 DEF Line
    <3> QED BY <3>2, <3>3
  <2>7. PICK k \in S : f[k] # 0
    <3>1. PICK i \in DOMAIN job[r].body : job[r].body[i].qty \in Nat \ {0}
      BY <1>2, PurchaseAssumption DEF BodyFits, Entries
    <3>2. PICK k : k = job[r].body[i].key
      OBVIOUS
    <3>3. k \in S /\ Asked(r, k) \in Nat \ {0}
      BY <1>1, <1>2, <2>2, <2>3, <3>1, <3>2, AskedOnce DEF BodyServes
    <3>4. f[k] = line[k].received + Asked(r, k) /\ line[k].received \in Nat
      BY <1>4, <2>3, <2>4, <3>3 DEF Line
    <3> QED BY <3>3, <3>4
  <2>8. /\ SumFunctionOnSet(f, S) \in Nat /\ SumFunctionOnSet(g, S) \in Nat
        /\ SumFunctionOnSet(f, S) # 0
        /\ SumFunctionOnSet(f, S) =< SumFunctionOnSet(g, S)
    <3>1. SumFunctionOnSet(f, S) \in Nat /\ SumFunctionOnSet(g, S) \in Nat
      BY <2>5, <2>6, SumIsNat
    <3>2. f[k] =< SumFunctionOnSet(f, S)
      BY <2>5, <2>6, SumIsNoLess
    <3>3. SumFunctionOnSet(f, S) =< SumFunctionOnSet(g, S)
      BY <2>5, <2>6, SumIsMonotone
    <3>4. f[k] \in Nat
      BY <2>6
    <3> QED BY <2>7, <3>1, <3>2, <3>3, <3>4
  <2>9. TotalReceived(r) = SumFunctionOnSet(f, S) /\ TotalQty(o) = SumFunctionOnSet(g, S)
    <3>1. SumFunction(f) = SumFunctionOnSet(f, S) /\ SumFunction(g) = SumFunctionOnSet(g, S)
      BY <2>4 DEF SumFunction
    <3>2. TotalReceived(r) = SumFunction(f) /\ TotalQty(o) = SumFunction(g)
      BY <2>3, <2>4 DEF TotalReceived, TotalQty
    <3> QED BY <3>1, <3>2
  <2>10. ReceivedOf(o)' = TotalReceived(r) /\ TotalQty(o)' = TotalQty(o)
    <3>1. [k2 \in LinesOf(o)' |-> line'[k2].received] = [k2 \in LinesOf(o) |-> Raised(r, k2)]
      BY <1>4, <1>6, <2>3
    <3>2. [k2 \in LinesOf(o)' |-> line'[k2].qty] = [k2 \in LinesOf(o) |-> line[k2].qty]
      BY <1>4, <1>6, <2>3
    <3> QED BY <3>1, <3>2 DEF ReceivedOf, TotalReceived, TotalQty
  <2>11. order'[o].status = StatusAfter(job[r].full)
    <3>1. o \in Existing /\ o \in Id /\ order[o] \in Order
      BY <1>2, <2>1 DEF Regular, Existing
    <3> QED BY <1>1, <1>2, <3>1 DEF Order
  <2>12. job[r].full <=> TotalReceived(r) >= TotalQty(o)
    BY <1>1, <2>1 DEF Serves
  <2>13. Tells(order[o].status, ReceivedOf(o), TotalQty(o))'
    <3>1. PICK a, b : a = TotalReceived(r) /\ b = TotalQty(o)
      OBVIOUS
    <3>2. a \in Nat \ {0} /\ b \in Nat /\ a =< b
      BY <2>8, <2>9, <3>1
    <3>3. Tells(StatusAfter(job[r].full), a, b)
      BY <2>12, <3>1, <3>2 DEF Tells, StatusAfter
    <3> QED BY <2>10, <2>11, <3>1, <3>3 DEF Tells
  <2>14. \A k2 \in LinesOf(o)' : line'[k2].received =< line'[k2].qty
    BY <1>4, <1>6, <2>3, <2>4, <2>6
  <2>15. \A q \in Req : job'[q].order # o
    BY <1>1, <2>1, LeftAlone
  <2> QED BY <2>13, <2>14, <2>15 DEF Told, Alone
<1>9. ASSUME NEW p \in Regular', p # o PROVE Told(p)'
  <2>1. ASSUME NEW k \in LinesOf(p) PROVE line'[k] = line[k]
    <3>1. k \in Lines /\ line[k].order # o
      BY <1>9 DEF LinesOf
    <3>2. Asked(r, k) = 0
      BY <1>2, <1>3, <3>1 DEF BodyFits
    <3> QED BY <1>4, <3>1, <3>2
  <2> QED BY <1>1, <1>6, <1>7, <1>9, <2>1, RestTold
<1>10. \A p \in Regular' : Told(p)'
  BY <1>8, <1>9
<1> QED BY <1>10 DEF RegularInv

LEMMA NextRegular == ASSUME ReceiptsInv, RegularInv, [Next]_vars PROVE RegularInv'
<1>1. CASE UNCHANGED vars
  <2>1. UNCHANGED <<order, line, stage, job, irregular>>
    BY <1>1 DEF vars, database
  <2>2. Regular' = Regular /\ (\A o : LinesOf(o)' = LinesOf(o)) /\ \A o : Alone(o) => Alone(o)'
    BY <2>1 DEF Regular, Existing, LinesOf, Lines, Alone
  <2>3. ASSUME NEW o \in Regular' PROVE Told(o)'
    <3>1. Told(o) /\ Alone(o)'
      BY <2>2 DEF RegularInv, Told
    <3> QED BY <2>1, <2>2, <3>1, StaysTold
  <2> QED BY <2>3 DEF RegularInv
<1>2. ASSUME NEW r \in Req, Gone(r) \/ Fail(r) \/ DeadlockVictim(r) PROVE RegularInv'
  <2>1. PICK out \in {"done", "failed"} : End(r, out) /\ UNCHANGED database
    BY <1>2 DEF Gone, Fail, DeadlockVictim
  <2>2. /\ stage' = [stage EXCEPT ![r] = out] /\ job' = [job EXCEPT ![r] = Idle]
        /\ UNCHANGED <<database, irregular>> /\ Idle.order = None
    BY <2>1 DEF End, GoTo, Idle
  <2> QED BY <2>2, EndsRegular
<1>3. ASSUME NEW r \in Req, ReadNumber(r) PROVE RegularInv'
  <2> DEFINE j == [job[r] EXCEPT !.kind = "create", !.last = Max({0} \cup Numbers)]
  <2>1. /\ stage' = [stage EXCEPT ![r] = "insert"] /\ job' = [job EXCEPT ![r] = j]
        /\ UNCHANGED <<database, irregular>> /\ stage[r] = "new"
    BY <1>3 DEF ReadNumber, GoTo
  <2>2. JobTyped(job[r], "new")
    BY <2>1 DEF ReceiptsInv, Typed
  <2>3. j.order = None
    BY <2>2 DEF JobTyped, JobParts, OrderStages
  <2> HIDE DEF j
  <2> QED BY <2>1, <2>3, EndsRegular
<1>4. ASSUME NEW r \in Req, Step(r) PROVE RegularInv'
  BY <1>2, <1>4, CreateRegular, PatchRegular, PostRegular, ReadLinesRegular, ReplaceRegular,
     CascadeRegular, ReceiveRegular DEF Step
<1>5. CASE Next
  BY <1>1, <1>2, <1>3, <1>4, <1>5, BeginRegular DEF Next, AllAnswered
<1> QED BY <1>1, <1>5

(* The checks of receive and the status it writes are right for an order   *)
(* that requests were at one after the other, however many lines it has    *)
(* and whatever was received and edited before.                            *)
THEOREM StatusFollowsReceipts == Spec => []StatusTellsReceipts
<1>1. Init => ReceiptsInv /\ RegularInv
  BY FirstReceipts, FirstRegular
<1>2. ReceiptsInv /\ RegularInv /\ [Next]_vars => (ReceiptsInv /\ RegularInv)'
  BY NextReceipts, NextRegular
<1>3. RegularInv => StatusTellsReceipts
  BY DEF RegularInv, Told, StatusTellsReceipts
<1> QED BY <1>1, <1>2, <1>3, PTL DEF Spec

-----------------------------------------------------------------------------
(***************************************************************************)
(* The average cost of a row.  Once the row exists, WeightedAverage holds  *)
(* for any number of concurrent transactions: one that has read the row    *)
(* FOR UPDATE still sees the committed row when it writes, and one that    *)
(* has written still has, in its image, the outcome D-018 asks for.        *)
(***************************************************************************)
(* What post p makes of row r.                                             *)
Outcome(r, p) == [qty |-> r.qty + p.delta,
                  avg |-> IF p.cost = NoCost THEN r.avg ELSE Blend(r, p)]

AverageInv ==
  /\ row \in Rows
  /\ doing \in [Tx -> {"idle", "lock", "upsert", "take", "commit",
                       "committed", "aborted"}]
  /\ post \in [Tx -> Posts \cup {NoRow}]
  /\ seen \in [Tx -> Rows \cup {NoRow}]
  /\ image \in [Tx -> Rows \cup {NoRow}]
  /\ \A t \in Tx :
       /\ doing[t] \in {"lock", "upsert", "take", "commit"} => post[t] \in Posts
       /\ doing[t] = "take" => post[t].cost = NoCost
       /\ doing[t] = "upsert" => holder = t /\ seen[t] = row
       /\ doing[t] = "commit" => holder = t /\ image[t] = Outcome(row, post[t])

-----------------------------------------------------------------------------
(* The outcome of a post is a row again.                                   *)
LEMMA OutcomeType ==
  ASSUME NEW r \in Rows, NEW p \in Posts
  PROVE  Outcome(r, p) \in Rows
<1>1. r.qty \in Int /\ r.avg \in Fractions /\ r.avg.num \in Int /\ r.avg.den \in Int
  BY DEF Rows, Fractions
<1>2. p.delta \in Int /\ (p.cost \in Int \/ p.cost = NoCost)
  BY PostsAssumption
<1>3. CASE p.cost = NoCost
  BY <1>1, <1>2, <1>3 DEF Outcome, Rows
<1>4. CASE p.cost # NoCost
  <2>1. p.cost \in Int
    BY <1>2, <1>4
  <2>2. r.avg.num * r.qty + p.cost * p.delta * r.avg.den \in Int
    BY <1>1, <1>2, <2>1
  <2>3. (r.qty + p.delta) * r.avg.den \in Int
    BY <1>1, <1>2
  <2>4. Blend(r, p) \in Fractions
    BY <2>2, <2>3 DEF Blend, Fractions
  <2> QED BY <1>1, <1>2, <1>4, <2>4 DEF Outcome, Rows
<1> QED BY <1>3, <1>4

(* Blending adds what the received units cost to what the stock is worth.  *)
LEMMA BlendAddsItsCost ==
  ASSUME NEW r \in Rows, NEW p \in Posts, p.cost # NoCost
  PROVE  AddsItsCost(r, Outcome(r, p), p)
<1>1. \A n, q, d \in Int : n * q * d = n * (q * d)
  OBVIOUS
<1>2. r.qty \in Int /\ r.avg \in Fractions /\ r.avg.num \in Int /\ r.avg.den \in Int
  BY DEF Rows, Fractions
<1>3. p.delta \in Int /\ p.cost \in Int
  BY PostsAssumption
<1>4. r.avg.num * r.qty + p.cost * p.delta * r.avg.den \in Int /\ r.qty + p.delta \in Int
  BY <1>2, <1>3
<1> QED BY <1>1, <1>2, <1>4 DEF AddsItsCost, Outcome, Blend

LEMMA AverageAtFirst == Row0 # NoRow /\ CostInit => AverageInv
  BY RowAssumption DEF CostInit, AverageInv

(* The statements that write: an upsert sees the row it locked.            *)
LEMMA UpsertAverage ==
  ASSUME AverageInv, NEW t \in Tx, Upsert(t)
  PROVE  AverageInv'
<1>1. row # NoRow /\ seen[t] = row /\ holder = t /\ post[t] \in Posts
  BY RowAssumption DEF AverageInv, Upsert
<1>2. post[t].delta \in Int
  BY <1>1, PostsAssumption
<1> DEFINE new == Outcome(row, post[t])
<1>3. image' = [image EXCEPT ![t] = new]
  BY <1>1 DEF Upsert, Write, NewAvg, Outcome
<1>4. new \in Rows
  BY <1>1, OutcomeType DEF AverageInv
<1>5. /\ doing' = [doing EXCEPT ![t] = "commit"] /\ holder' = t
      /\ UNCHANGED <<row, post, seen>>
  BY DEF Upsert, Write, Lock
<1>6. \A u \in Tx : u # t => doing[u] \notin {"upsert", "commit"}
  BY <1>1 DEF AverageInv
<1> HIDE DEF new
<1>7. image' \in [Tx -> Rows \cup {NoRow}] /\ image'[t] = new
  BY <1>3, <1>4 DEF AverageInv
<1>8. \A u \in Tx : u # t => doing'[u] = doing[u]
  BY <1>5 DEF AverageInv
<1>9. doing'[t] = "commit" /\ doing' \in [Tx -> {"idle", "lock", "upsert", "take",
                                     "commit", "committed", "aborted"}]
  BY <1>5 DEF AverageInv
<1> QED BY <1>1, <1>5, <1>6, <1>7, <1>8, <1>9 DEF AverageInv, new

LEMMA DecrementAverage ==
  ASSUME AverageInv, NEW t \in Tx, Decrement(t)
  PROVE  AverageInv'
<1>1. post[t] \in Posts /\ post[t].cost = NoCost /\ row \in Rows
  BY DEF AverageInv, Decrement
<1> DEFINE new == Outcome(row, post[t])
<1>2. image' = [image EXCEPT ![t] = new]
  <2>1. new = [qty |-> row.qty + post[t].delta, avg |-> row.avg]
    BY <1>1 DEF Outcome
  <2>2. [row EXCEPT !.qty = row.qty + post[t].delta] = new
    BY <1>1, <2>1 DEF Rows
  <2> QED BY <2>2 DEF Decrement, Write
<1>3. new \in Rows
  BY <1>1, OutcomeType
<1>4. /\ doing' = [doing EXCEPT ![t] = "commit"] /\ holder' = t
      /\ holder \in {NoTx, t}
      /\ UNCHANGED <<row, post, seen>>
  BY DEF Decrement, Write, Lock, Free
<1>5. \A u \in Tx : u # t => doing[u] \notin {"upsert", "commit"}
  BY <1>4, NoTxAssumption DEF AverageInv
<1> HIDE DEF new
<1>6. image' \in [Tx -> Rows \cup {NoRow}] /\ image'[t] = new
  BY <1>2, <1>3 DEF AverageInv
<1>7. \A u \in Tx : u # t => doing'[u] = doing[u]
  BY <1>4 DEF AverageInv
<1>8. doing'[t] = "commit" /\ doing' \in [Tx -> {"idle", "lock", "upsert", "take",
                                     "commit", "committed", "aborted"}]
  BY <1>4 DEF AverageInv
<1> QED BY <1>1, <1>4, <1>5, <1>6, <1>7, <1>8 DEF AverageInv, new

(* Only the holder commits, so every reader and writer sees the same row   *)
(* before and after somebody else's commit: there is none.                 *)
LEMMA CommitAverage ==
  ASSUME AverageInv, NEW t \in Tx, Commit(t)
  PROVE  AverageInv'
<1>1. doing[t] = "commit" /\ holder = t /\ post[t] \in Posts
      /\ image[t] = Outcome(row, post[t])
  BY DEF AverageInv, Commit
<1>2. row' \in Rows
  BY <1>1, OutcomeType DEF AverageInv, Commit
<1>3. /\ doing' = [doing EXCEPT ![t] = "committed"]
      /\ UNCHANGED <<post, seen, image>>
  BY DEF Commit, Finish
<1>4. \A u \in Tx : u # t => doing'[u] = doing[u]
                             /\ doing[u] \notin {"upsert", "commit"}
  BY <1>1, <1>3 DEF AverageInv
<1>5. doing'[t] = "committed"
      /\ doing' \in [Tx -> {"idle", "lock", "upsert", "take", "commit",
                            "committed", "aborted"}]
  BY <1>3 DEF AverageInv
<1> QED BY <1>2, <1>3, <1>4, <1>5 DEF AverageInv

LEMMA AverageKept == AverageInv /\ [CostNext]_costVars => AverageInv'
<1> SUFFICES ASSUME AverageInv, [CostNext]_costVars PROVE AverageInv'
  OBVIOUS
<1>1. ASSUME NEW t \in Tx, Begin(t) PROVE AverageInv'
  <2>1. PICK p \in Posts :
          /\ post' = [post EXCEPT ![t] = p]
          /\ doing' = [doing EXCEPT ![t] = IF p.delta > 0 THEN "lock" ELSE "take"]
    BY <1>1 DEF Begin
  <2>2. p.delta \in Int /\ (~(p.delta > 0) => p.cost = NoCost)
    BY PostsAssumption
  <2>3. doing[t] = "idle" /\ UNCHANGED <<row, holder, seen, image>>
    BY <1>1 DEF Begin
  <2> QED BY <2>1, <2>2, <2>3 DEF AverageInv
<1>2. ASSUME NEW t \in Tx, LockRow(t) PROVE AverageInv'
  <2>1. row # NoRow
    BY RowAssumption DEF AverageInv
  <2>2. /\ doing[t] = "lock" /\ holder \in {NoTx, t} /\ holder' = t
        /\ seen' = [seen EXCEPT ![t] = row]
        /\ doing' = [doing EXCEPT ![t] = "upsert"]
        /\ UNCHANGED <<row, post, image>>
    BY <1>2, <2>1 DEF LockRow, Lock, Free
  <2>3. \A u \in Tx : u # t => doing[u] \notin {"upsert", "commit"}
    BY <2>2, NoTxAssumption DEF AverageInv
  <2> QED BY <2>2, <2>3 DEF AverageInv
<1>3. ASSUME NEW t \in Tx, Abort(t) PROVE AverageInv'
  <2>1. /\ doing' = [doing EXCEPT ![t] = "aborted"]
        /\ holder' = IF holder = t THEN NoTx ELSE holder
        /\ UNCHANGED <<row, post, seen, image>>
    BY <1>3 DEF Abort, Finish
  <2> QED BY <2>1 DEF AverageInv
<1>4. CASE UNCHANGED costVars
  BY <1>4 DEF AverageInv, costVars
<1> QED BY <1>1, <1>2, <1>3, <1>4, UpsertAverage, DecrementAverage, CommitAverage
        DEF CostNext, AllPosted

(* What a commit does to the row, from the invariant.                      *)
LEMMA CommitWeighs ==
  ASSUME AverageInv, [CostNext]_costVars
  PROVE  [\A t \in Tx :
            doing[t] = "commit" /\ doing'[t] = "committed" =>
              /\ row'.qty = Before.qty + post[t].delta
              /\ IF post[t].cost = NoCost THEN SameFraction(row'.avg, Before.avg)
                 ELSE AddsItsCost(Before, row', post[t])]_costVars
<1> SUFFICES ASSUME CostNext, NEW t \in Tx,
                    doing[t] = "commit", doing'[t] = "committed"
             PROVE  /\ row'.qty = Before.qty + post[t].delta
                    /\ IF post[t].cost = NoCost THEN SameFraction(row'.avg, Before.avg)
                       ELSE AddsItsCost(Before, row', post[t])
  BY DEF costVars
<1>1. Commit(t)
  <2>1. ASSUME NEW u \in Tx, u # t,
               \/ Begin(u) \/ LockRow(u) \/ Upsert(u) \/ Decrement(u)
               \/ Commit(u) \/ Abort(u)
        PROVE  doing'[t] = doing[t]
    BY <2>1 DEF AverageInv, Begin, LockRow, Upsert, Decrement, Write, Commit,
                Abort, Finish
  <2>2. ~Begin(t) /\ ~LockRow(t) /\ ~Upsert(t) /\ ~Decrement(t)
    BY DEF Begin, LockRow, Upsert, Decrement, Write, AverageInv
  <2>3. ~Abort(t)
    BY DEF Abort, Finish, AverageInv
  <2>4. ~UNCHANGED costVars
    BY DEF costVars
  <2> QED BY <2>1, <2>2, <2>3, <2>4 DEF CostNext, AllPosted
<1>2. Before = row
  BY RowAssumption DEF Before, AverageInv
<1>3. row' = Outcome(row, post[t])
  BY <1>1 DEF Commit, AverageInv
<1>4. row \in Rows /\ post[t] \in Posts
  BY DEF AverageInv
<1>5. CASE post[t].cost = NoCost
  BY <1>2, <1>3, <1>5 DEF Outcome, SameFraction
<1>6. CASE post[t].cost # NoCost
  BY <1>2, <1>3, <1>4, <1>6, BlendAddsItsCost DEF Outcome
<1> QED BY <1>5, <1>6

(* The inductive invariant, for a row that exists.                         *)
THEOREM AverageInvariance == Row0 # NoRow /\ CostSpec => []AverageInv
BY AverageAtFirst, AverageKept, PTL DEF CostSpec

(***************************************************************************)
(* D-018 holds of every commit on a row that existed at the start, for any *)
(* transactions, quantities and costs.                                     *)
(***************************************************************************)
THEOREM AverageIsWeighted == Row0 # NoRow /\ CostSpec => WeightedAverage
<1>1. Row0 # NoRow /\ CostSpec => []AverageInv
  BY AverageInvariance
<1> QED BY <1>1, CommitWeighs, PTL DEF CostSpec, WeightedAverage
=============================================================================
