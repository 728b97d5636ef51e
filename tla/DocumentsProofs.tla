--------------------------- MODULE DocumentsProofs ---------------------------
(***************************************************************************)
(* Invoices and estimates, for any number of requests at any of them: what *)
(* was paid is what came in, whatever overlaps; the status and the total   *)
(* of a document no two requests were at once tell the money and the       *)
(* lines; and a number that was not given meanwhile is fresh.              *)
(*                                                                         *)
(* Inventory counts, for any products, counts and requests: an apply holds *)
(* the exact gap, and a count that no two applies were at once is applied  *)
(* once and then tells the stock.                                          *)
(*                                                                         *)
(* Both need that what a lone request read is still so when it writes.     *)
(***************************************************************************)
EXTENDS SalesDocuments, InventoryCounts, TLAPS

AtWork == {"delete", "write"}
At(r, d) == stage[r] \in AtWork /\ job[r].id = d

(* A row, and a job; what is of no matter here may be anything.            *)
Row == Invoice \cup Estimate
Job(j) == [op : {j.op}, id : Id \cup {None}, seen : {j.seen}, lines : {j.lines}, last : Nat]

Typed == /\ doc = [d \in Id |-> doc[d]]
         /\ \A d \in Id : doc[d] = None \/ doc[d] \in Row
         /\ lines = [d \in Id |-> lines[d]]
         /\ stage \in [Req -> {"new", "insert"} \cup AtWork \cup Over]
         /\ job = [r \in Req |-> job[r]]
         /\ \A r \in Req : job[r] \in Job(job[r])
         /\ \A r \in Req : stage[r] \in AtWork =>
              job[r].id \in Id /\ job[r].seen \in Row
         /\ income \in [Id -> Nat]
         /\ byHand \subseteq Id /\ contended \subseteq Id

(* A request that has not inserted its document yet owns none, nobody is   *)
(* at it, and nothing was paid for it.                                     *)
NotInserted ==
  \A r \in Req : stage[r] \in {"new", "insert"} =>
    /\ doc[r] = None /\ income[r] = 0 /\ r \notin byHand
    /\ \A q \in Req : ~At(q, r)

(* A document stays of its kind, and an invoice stays.                     *)
KindStays ==
  \A r \in Req : stage[r] \in AtWork =>
    LET now == doc[job[r].id]
    IN  IF job[r].seen.kind = "invoice" THEN now # None /\ now.kind = "invoice"
                                        ELSE now # None => now.kind = "estimate"

(* Two requests at a document make it contended; what one alone has read   *)
(* of it, its lines included, is still so.                                 *)
Alone == \A q, r \in Req, d \in Id : q # r /\ At(q, d) /\ At(r, d) => d \in contended
DecidedOnWhatIs ==
  \A r \in Req, d \in Id \ contended : At(r, d) =>
    /\ doc[d] = job[r].seen
    /\ stage[r] = "write" /\ job[r].op = "update" => lines[d] = job[r].lines

SalesInv == /\ Typed /\ NotInserted /\ KindStays /\ Alone /\ DecidedOnWhatIs
            /\ PaidIsIncome /\ StatusTellsMoney /\ TotalsAddUp
-----------------------------------------------------------------------------
LEMMA LargestOfTwo ==
  ASSUME NEW x \in Int
  PROVE  /\ Max({0, x}) \in Nat
         /\ x >= 0 => Max({0, x}) = x
<1> DEFINE S == {0, x}
<1>1. \E m \in S : \A y \in S : m >= y
  OBVIOUS
<1>2. Max(S) \in S /\ \A y \in S : Max(S) >= y
  BY <1>1 DEF Max
<1> QED
  BY <1>2

(* The fold of a set of one element is what it is of that element.         *)
LEMMA GrossOfOne ==
  ASSUME NEW l, LineTtc(l) \in Nat
  PROVE  Gross({l}) = LineTtc(l)
<1> DEFINE pick(s) == CHOOSE x \in s : TRUE
           Body(f) == [s \in SUBSET {l} |->
                         IF s = {} THEN 0 ELSE LineTtc(pick(s)) + f[s \ {pick(s)}]]
           sum == [s \in SUBSET {l} |-> IF s = {} THEN 0 ELSE LineTtc(l)]
           iter == CHOOSE f : f = Body(f)
<1>1. \A s \in SUBSET {l} : s # {} => s = {l} /\ pick(s) = l /\ s \ {pick(s)} = {}
  OBVIOUS
<1>2. sum = Body(sum)
  BY <1>1
<1>3. iter = Body(iter)
  BY <1>2
<1> HIDE DEF iter
<1>4. iter[{}] = 0
  BY <1>3
<1>5. iter[{l}] = LineTtc(l) + iter[{}]
  BY <1>1, <1>3
<1>6. Gross({l}) = iter[{l}]
  BY DEF Gross, MapThenSumSet, MapThenFoldSet, iter
<1> QED
  BY <1>4, <1>5, <1>6

LEMMA LineFacts ==
  ASSUME NEW r, NEW body \in Nat \X Nat
  PROVE  /\ Gross({Line(r, body)}) \in Nat
         /\ body[2] = 0 => Gross({Line(r, body)}) = body[1]
<1>1. /\ LineTtc(Line(r, body)) \in Nat
      /\ body[2] = 0 => LineTtc(Line(r, body)) = body[1]
  BY LargestOfTwo DEF LineTtc, Line
<1> QED
  BY <1>1, GrossOfOne
-----------------------------------------------------------------------------
LEMMA InitInv == Init => SalesInv
<1> SUFFICES ASSUME Init PROVE SalesInv
  OBVIOUS
<1> USE DocumentsAssumption
<1>1. \A r \in Req : stage[r] = "new" /\ job[r] = Idle
  BY DEF Init
<1>2. ASSUME NEW d \in Id, doc[d] # None
      PROVE  /\ d \in Seed /\ doc[d] = Doc0[d] /\ doc[d] \in Row
             /\ doc[d].kind = "invoice" => TellsMoney(doc[d])
             /\ doc[d].total = doc[d].gross - doc[d].discount
             /\ lines[d] = {Line(None, <<doc[d].gross, 0>>)}
             /\ income[d] = doc[d].paid
  <2>1. d \in Seed /\ doc[d] = Doc0[d] /\ lines[d] = {Line(None, <<doc[d].gross, 0>>)}
        /\ income[d] = doc[d].paid
    BY <1>2 DEF Init
  <2>2. Doc0[d] \in Invoice \cup Estimate
    BY <2>1
  <2>3. doc[d] \in Row
    BY <2>1, <2>2 DEF Row, Invoice, Estimate
  <2> QED
    BY <2>1, <2>3
<1>3. Typed
  <2>1. income \in [Id -> Nat]
    BY DEF Init, Invoice, Estimate
  <2>2. \A r \in Req : job[r] \in Job(job[r])
    <3>1. /\ Idle.op = "none" /\ Idle.id = None /\ Idle.seen = None
          /\ Idle.lines = {} /\ Idle.last = 0
      BY DEF Idle
    <3>2. Idle \in Job(Idle)
      BY <3>1 DEF Job, Idle
    <3> QED
      BY <1>1, <3>2
  <2> QED
    BY <1>1, <1>2, <2>1, <2>2 DEF Init, Typed, AtWork
<1>4. NotInserted
  BY <1>1 DEF NotInserted, At, AtWork, Init, Id
<1>5. KindStays /\ Alone /\ DecidedOnWhatIs
  BY <1>1 DEF KindStays, Alone, DecidedOnWhatIs, At, AtWork
<1>6. PaidIsIncome /\ StatusTellsMoney
  BY <1>2 DEF PaidIsIncome, StatusTellsMoney, Quiet, Existing
<1>7. TotalsAddUp
  <2> SUFFICES ASSUME NEW d \in Id, doc[d] # None
               PROVE  /\ doc[d].total = doc[d].gross - doc[d].discount
                      /\ doc[d].total >= 0
                      /\ doc[d].gross = Gross(lines[d])
    BY DEF TotalsAddUp, Quiet, Existing
  <2>1. doc[d].gross \in Nat /\ doc[d].total \in Nat
    BY <1>2 DEF Row, Invoice, Estimate
  <2>2. Gross({Line(None, <<doc[d].gross, 0>>)}) = doc[d].gross
    BY <2>1, LineFacts
  <2>3. doc[d].gross = Gross(lines[d])
    BY <1>2, <2>2
  <2>4. doc[d].total = doc[d].gross - doc[d].discount
    BY <1>2
  <2> QED
    BY <2>1, <2>3, <2>4
<1> QED
  BY <1>3, <1>4, <1>5, <1>6, <1>7 DEF SalesInv

-----------------------------------------------------------------------------
(* A step that writes nothing: the request goes on, with the same document *)
(* if it is at one, or is over.                                            *)
LEMMA NothingWritten ==
  ASSUME SalesInv, NEW r \in Req, NEW now, NEW j, UNCHANGED <<database, ghosts>>,
         stage[r] \in {"new", "insert"} \cup AtWork,
         stage' = [stage EXCEPT ![r] = now], job' = [job EXCEPT ![r] = j],
         now \in {"insert"} \cup AtWork \cup Over, j \in Job(j),
         now = "insert" => stage[r] = "new",
         now \in AtWork => /\ stage[r] \in AtWork /\ j.id = job[r].id /\ j.seen = job[r].seen
                           /\ now = "write" /\ j.op = "update" => j.lines = lines[j.id]
  PROVE  SalesInv'
<1> USE DEF SalesInv, database, ghosts
<1>1. /\ stage'[r] = now /\ job'[r] = j
      /\ \A q \in Req \ {r} : stage'[q] = stage[q] /\ job'[q] = job[q]
  BY DEF Typed
<1>2. \A q \in Req, d \in Id : At(q, d)' => At(q, d)
  BY <1>1 DEF At
<1>3. Typed'
  BY <1>1 DEF Typed
<1>4. NotInserted'
  BY <1>1, <1>2 DEF NotInserted, AtWork, Over, Id
<1>5. KindStays'
  BY <1>1 DEF KindStays
<1>6. Alone'
  BY <1>2 DEF Alone
<1>7. DecidedOnWhatIs'
  BY <1>1, <1>2 DEF DecidedOnWhatIs, At
<1>8. PaidIsIncome' /\ StatusTellsMoney' /\ TotalsAddUp'
  BY DEF PaidIsIncome, StatusTellsMoney, TotalsAddUp, Quiet, Existing
<1> QED
  BY <1>3, <1>4, <1>5, <1>6, <1>7, <1>8
(* A request reads the document it will work on; another one that is there *)
(* makes the document contended.                                           *)
LEMMA TakeInv ==
  ASSUME SalesInv, NEW r \in Req, NEW kind, NEW d \in Existing(kind), NEW op, NEW next \in AtWork,
         Take(r, op, d, next), next = "write" => op # "update"
  PROVE  SalesInv'
<1> USE DEF SalesInv, database
<1> DEFINE j == [Idle EXCEPT !.op = op, !.id = d, !.seen = doc[d]]
<1>1. d \in Id /\ doc[d] # None /\ doc[d] \in Row
  BY DEF Existing, Typed
<1>2. /\ j.id = d /\ j.seen = doc[d] /\ j.op = op
      /\ j \in Job(j)
  BY <1>1 DEF Idle, Job
<1> HIDE DEF j
<1>3. /\ stage[r] = "new" /\ stage'[r] = next /\ job'[r] = j
      /\ \A q \in Req \ {r} : stage'[q] = stage[q] /\ job'[q] = job[q]
      /\ UNCHANGED <<doc, lines, income, byHand>>
      /\ contended \subseteq contended' /\ contended' \subseteq contended \cup {d}
      /\ (\E q \in Req : job[q].id = d) => d \in contended'
  BY <1>2 DEF Take, Typed, j
<1>4. /\ \A q \in Req \ {r}, e \in Id : At(q, e)' <=> At(q, e)
      /\ \A e \in Id : At(r, e)' => e = d
  BY <1>2, <1>3 DEF At
<1>5. Typed'
  BY <1>1, <1>2, <1>3 DEF Typed, Take, j
<1>6. NotInserted'
  <2>1. \A q \in Req : stage[q] \in {"new", "insert"} => q # d
    BY <1>1 DEF NotInserted
  <2> QED
    BY <1>3, <1>4, <2>1 DEF NotInserted, AtWork, Id
<1>7. KindStays'
  BY <1>1, <1>2, <1>3 DEF KindStays, Row, Invoice, Estimate
<1>8. Alone'
  BY <1>3, <1>4 DEF Alone, At
<1>9. DecidedOnWhatIs'
  BY <1>2, <1>3, <1>4 DEF DecidedOnWhatIs, At
<1>10. PaidIsIncome' /\ StatusTellsMoney' /\ TotalsAddUp'
  BY <1>3 DEF PaidIsIncome, StatusTellsMoney, TotalsAddUp, Quiet, Existing
<1> QED
  BY <1>5, <1>6, <1>7, <1>8, <1>9, <1>10

-----------------------------------------------------------------------------
(* What a step that writes document d, and ends, must leave there: a row   *)
(* of the kind it was of, whose money is what came in, and that tells its  *)
(* money and adds up, if nobody else is at it.                             *)
Sound(d, kind) ==
  /\ doc[d] # None => doc[d] \in Row /\ doc[d].kind = kind
  /\ kind = "invoice" => doc[d] # None /\ doc[d].paid = income[d]
  /\ d \notin contended /\ doc[d] # None =>
       /\ kind = "invoice" /\ d \notin byHand => TellsMoney(doc[d])
       /\ doc[d].total = doc[d].gross - doc[d].discount
       /\ doc[d].total >= 0
       /\ doc[d].gross = Gross(lines[d])

LEMMA WriteInv ==
  ASSUME SalesInv, NEW r \in Req, NEW d \in Id, NEW kind \in {"invoice", "estimate"},
         \/ stage[r] = "write" /\ d = job[r].id /\ kind = job[r].seen.kind
         \/ stage[r] = "insert" /\ d = r,
         End(r, "done"), contended' = contended,
         doc' = [doc EXCEPT ![d] = doc'[d]], lines' = [lines EXCEPT ![d] = lines'[d]],
         income' = [income EXCEPT ![d] = income'[d]], income'[d] \in Nat,
         byHand' \ {d} = byHand \ {d}, Sound(d, kind)'
  PROVE  SalesInv'
<1> USE DEF SalesInv
<1>1. /\ stage'[r] = "done"
      /\ \A q \in Req \ {r} : stage'[q] = stage[q] /\ job'[q] = job[q]
      /\ \A e \in Id \ {d} : doc'[e] = doc[e] /\ lines'[e] = lines[e] /\ income'[e] = income[e]
  BY DEF End, Typed
<1>2. /\ \A q \in Req \ {r}, e \in Id : At(q, e)' <=> At(q, e)
      /\ \A e \in Id : ~At(r, e)'
  BY <1>1 DEF At, AtWork
<1>3. Typed'
  <2>1. job'[r] = Idle /\ Idle \in Job(Idle)
    <3>1. /\ Idle.op = "none" /\ Idle.id = None /\ Idle.seen = None
          /\ Idle.lines = {} /\ Idle.last = 0
      BY DEF Idle
    <3> QED
      BY <3>1 DEF End, Typed, Job, Idle
  <2> QED
    BY <1>1, <2>1 DEF Typed, End, Over, AtWork, Sound
<1>4. ASSUME NEW q \in Req \ {r}, At(q, d)
      PROVE  d \in contended /\ stage[r] = "write" /\ job[q].seen.kind = kind
  <2>1. stage[r] = "write" /\ d = job[r].id /\ kind = job[r].seen.kind
    BY <1>4 DEF NotInserted
  <2>2. d \in contended
    BY <1>4, <2>1 DEF Alone, At, AtWork
  <2>3. job[q].seen.kind \in {"invoice", "estimate"}
    BY <1>4 DEF Typed, At, Row, Invoice, Estimate
  <2>4. job[q].seen.kind = kind
    BY <1>4, <2>1, <2>3 DEF KindStays, At, AtWork
  <2> QED
    BY <2>1, <2>2, <2>4
<1>5. NotInserted'
  <2> SUFFICES ASSUME NEW q \in Req, stage'[q] \in {"new", "insert"}
               PROVE  /\ doc'[q] = None /\ income'[q] = 0 /\ q \notin byHand'
                      /\ \A p \in Req : ~At(p, q)'
    BY DEF NotInserted
  <2>1. q # r /\ stage[q] \in {"new", "insert"} /\ q \in Id
    BY <1>1 DEF Id
  <2>2. q # d
    BY <2>1 DEF NotInserted, At, AtWork
  <2> QED
    BY <1>1, <1>2, <2>1, <2>2 DEF NotInserted
<1>6. KindStays'
  <2> SUFFICES ASSUME NEW q \in Req \ {r}, stage[q] \in AtWork
               PROVE  IF job[q].seen.kind = "invoice"
                      THEN doc'[job[q].id] # None /\ doc'[job[q].id].kind = "invoice"
                      ELSE doc'[job[q].id] # None => doc'[job[q].id].kind = "estimate"
    BY <1>1 DEF KindStays, AtWork
  <2>1. job[q].id \in Id
    BY DEF Typed
  <2>2. CASE job[q].id # d
    BY <1>1, <2>1, <2>2 DEF KindStays
  <2>3. CASE job[q].id = d
    BY <1>4, <2>3 DEF At, Sound
  <2> QED
    BY <2>2, <2>3
<1>7. Alone'
  BY <1>2 DEF Alone
<1>8. DecidedOnWhatIs'
  BY <1>1, <1>2, <1>4 DEF DecidedOnWhatIs
<1>9. ASSUME NEW e \in Id \ {d}
      PROVE  /\ doc'[e] = doc[e] /\ lines'[e] = lines[e] /\ income'[e] = income[e]
             /\ e \in byHand' <=> e \in byHand
  BY <1>1
<1>10. PaidIsIncome'
  BY <1>9 DEF PaidIsIncome, Existing, Sound
<1>11. StatusTellsMoney'
  BY <1>9 DEF StatusTellsMoney, Quiet, Existing, Sound
<1>12. TotalsAddUp'
  BY <1>9 DEF TotalsAddUp, Quiet, Existing, Sound
<1> QED
  BY <1>3, <1>5, <1>6, <1>7, <1>8, <1>10, <1>11, <1>12
-----------------------------------------------------------------------------
(* The steps that write, one by one.                                       *)
LEMMA InsertInv ==
  ASSUME SalesInv, NEW r \in Req, CreateInvoice(r) \/ CreateEstimate(r)
  PROVE  SalesInv'
<1> USE DocumentsAssumption
<1> DEFINE Begun(kind, status) ==
             /\ kind = "invoice" => status \in InvoiceStatus
             /\ kind = "estimate" => status \in EstimateStatus
             /\ byHand' \ {r} = byHand \ {r}
             /\ r \notin byHand' /\ kind = "invoice" => status = "draft"
<1>1. PICK kind \in {"invoice", "estimate"}, status \in InvoiceStatus \cup EstimateStatus :
        Begun(kind, status) /\ Insert(r, kind, status)
  <2>1. CASE CreateInvoice(r)
    <3>1. PICK status \in InvoiceStatus :
            /\ Insert(r, "invoice", status)
            /\ byHand' = IF status = "draft" THEN byHand ELSE byHand \cup {r}
      BY <2>1 DEF CreateInvoice
    <3>2. stage[r] = "insert" /\ r \notin byHand
      BY <3>1 DEF Insert, SalesInv, NotInserted
    <3>3. /\ byHand' \ {r} = byHand \ {r}
          /\ r \notin byHand' => status = "draft"
      BY <3>1, <3>2
    <3>4. Begun("invoice", status)
      BY <3>3
    <3> QED
      BY <3>1, <3>4
  <2>2. CASE CreateEstimate(r)
    BY <2>2 DEF CreateEstimate, EstimateStatus
  <2> QED
    BY <2>1, <2>2
<1>2. PICK body \in Bodies, discount \in Discounts :
        /\ discount =< Gross({Line(r, body)})
        /\ lines' = [lines EXCEPT ![r] = {Line(r, body)}]
        /\ doc' = [doc EXCEPT ![r] =
             [kind |-> kind, number |-> NextNumber(job[r].last), status |-> status,
              gross |-> Gross({Line(r, body)}), discount |-> discount,
              total |-> Gross({Line(r, body)}) - discount, paid |-> 0]]
  BY <1>1 DEF Insert
<1>3. /\ stage[r] = "insert" /\ End(r, "done") /\ UNCHANGED <<income, contended>>
      /\ Gross({Line(r, body)}) \in Nat /\ discount \in Nat /\ r \in Id
      /\ income[r] = 0
  BY <1>1, LineFacts DEF Insert, Id, SalesInv, NotInserted
<1>4. NextNumber(job[r].last) \in Nat
  BY DEF SalesInv, Typed, Job, NextNumber
<1> DEFINE new == [kind |-> kind, number |-> NextNumber(job[r].last), status |-> status,
                   gross |-> Gross({Line(r, body)}), discount |-> discount,
                   total |-> Gross({Line(r, body)}) - discount, paid |-> 0]
<1>5. doc'[r] = new /\ lines'[r] = {Line(r, body)} /\ income'[r] = 0
  BY <1>2, <1>3 DEF SalesInv, Typed
<1>6. /\ new.kind = kind /\ new.paid = 0 /\ new.gross = Gross({Line(r, body)})
      /\ new.total = new.gross - new.discount /\ new.total >= 0 /\ new.status = status
      /\ new \in Row
  BY <1>1, <1>2, <1>3, <1>4 DEF Row, Invoice, Estimate
<1> HIDE DEF new
<1>7. Sound(r, kind)'
  <2>1. kind = "invoice" /\ r \notin byHand' => TellsMoney(doc'[r])
    BY <1>1, <1>5, <1>6 DEF TellsMoney
  <2>2. doc'[r] # None
    BY <1>5, <1>6 DEF Row
  <2> QED
    BY <1>5, <1>6, <2>1, <2>2 DEF Sound
<1>8. /\ doc' = [doc EXCEPT ![r] = doc'[r]] /\ lines' = [lines EXCEPT ![r] = lines'[r]]
      /\ income' = [income EXCEPT ![r] = income'[r]] /\ income'[r] \in Nat
  BY <1>2, <1>3, <1>5 DEF SalesInv, Typed, new
<1>9. byHand' \ {r} = byHand \ {r} /\ contended' = contended
  BY <1>1, <1>3
<1> HIDE DEF Begun
<1> QED
  BY <1>3, <1>7, <1>8, <1>9, WriteInv

(* What a request that is about to write knows of its document d.          *)
Known(r, d, kind) ==
  /\ stage[r] = "write" /\ d = job[r].id /\ d \in Id
  /\ job[r].seen \in Row /\ job[r].seen.kind = kind
  /\ kind = "invoice" => doc[d] # None /\ doc[d].paid = income[d]
  /\ doc[d] # None => doc[d] \in Row /\ doc[d].kind = kind
  /\ d \notin contended => /\ doc[d] = job[r].seen
                           /\ job[r].op = "update" => lines[d] = job[r].lines
  /\ d \notin contended /\ doc[d] # None =>
       /\ kind = "invoice" /\ d \notin byHand => TellsMoney(doc[d])
       /\ doc[d].total = doc[d].gross - doc[d].discount
       /\ doc[d].gross = Gross(lines[d])

LEMMA WritingKnows ==
  ASSUME SalesInv, NEW r \in Req, NEW kind \in {"invoice", "estimate"}, NEW op,
         Writing(r, kind, op)
  PROVE  Known(r, job[r].id, kind)
<1> USE DEF SalesInv
<1> DEFINE d == job[r].id
<1>1. stage[r] = "write" /\ At(r, d) /\ d \in Id /\ job[r].seen \in Row /\ job[r].seen.kind = kind
  BY DEF Writing, Typed, At, AtWork
<1>2. kind = "invoice" => doc[d] # None /\ doc[d].kind = "invoice" /\ doc[d].paid = income[d]
  BY <1>1 DEF KindStays, At, PaidIsIncome, Existing
<1>3. doc[d] # None => doc[d] \in Row /\ doc[d].kind = kind
  BY <1>1 DEF KindStays, At, Typed
<1>4. d \notin contended => /\ doc[d] = job[r].seen
                            /\ job[r].op = "update" => lines[d] = job[r].lines
  BY <1>1 DEF DecidedOnWhatIs
<1>5. d \notin contended /\ doc[d] # None =>
        d \in Quiet(kind) /\ doc[d].kind = kind
  BY <1>1, <1>3 DEF Quiet, Existing
<1>6. d \notin contended /\ doc[d] # None =>
       /\ kind = "invoice" /\ d \notin byHand => TellsMoney(doc[d])
       /\ doc[d].total = doc[d].gross - doc[d].discount
       /\ doc[d].gross = Gross(lines[d])
  BY <1>5 DEF StatusTellsMoney, TotalsAddUp
<1> QED
  BY <1>1, <1>2, <1>3, <1>4, <1>6 DEF Known

(* WriteInv for a step that changes no more than the columns of a row.     *)
LEMMA ColumnsInv ==
  ASSUME SalesInv, NEW r \in Req, NEW d, NEW kind \in {"invoice", "estimate"}, NEW row,
         Known(r, d, kind), End(r, "done"), contended' = contended,
         row \in Row, row.kind = kind, doc' = [doc EXCEPT ![d] = row],
         lines' = [lines EXCEPT ![d] = lines'[d]],
         income' = [income EXCEPT ![d] = income'[d]], income'[d] \in Nat,
         byHand' \ {d} = byHand \ {d},
         kind = "invoice" => row.paid = income'[d],
         d \notin contended =>
           /\ kind = "invoice" /\ d \notin byHand' => TellsMoney(row)
           /\ row.total = row.gross - row.discount
           /\ row.gross = Gross(lines'[d])
  PROVE  SalesInv'
<1>1. d \in Id /\ stage[r] = "write" /\ d = job[r].id /\ kind = job[r].seen.kind
  BY DEF Known
<1>2. doc'[d] = row /\ row.total \in Nat /\ row # None
  BY <1>1, DocumentsAssumption DEF SalesInv, Typed, Row, Invoice, Estimate
<1>3. Sound(d, kind)'
  BY <1>2 DEF Sound
<1>4. doc' = [doc EXCEPT ![d] = doc'[d]]
  BY <1>2
<1>5. \/ stage[r] = "write" /\ d = job[r].id /\ kind = job[r].seen.kind
      \/ stage[r] = "insert" /\ d = r
  BY <1>1
<1>6. d \in Id
  BY <1>1
<1> QED
  BY <1>3, <1>4, <1>5, <1>6, WriteInv, Zenon

(* A row with other sums.                                                  *)
Summed(old, gross, discount, total) ==
  [old EXCEPT !.gross = gross, !.discount = discount, !.total = total]

(* Three ways to edit: other lines, another discount, another status.      *)
LEMMA NewLinesInv ==
  ASSUME SalesInv, NEW r \in Req, NEW d, NEW kind \in {"invoice", "estimate"},
         Known(r, d, kind), job[r].op = "update", NewLines(r, d), doc[d] # None,
         kind = "invoice" => job[r].seen.status = "draft",
         End(r, "done"), UNCHANGED ghosts
  PROVE  SalesInv'
<1> USE DocumentsAssumption
<1>1. PICK body \in Bodies, discount \in Discounts \cup {job[r].seen.discount} :
        /\ lines' = [lines EXCEPT ![d] = (@ \ job[r].lines) \cup {Line(r, body)}]
        /\ Resum(d, Gross({Line(r, body)}), discount)
  BY DEF NewLines
<1>2. doc[d] \in Row /\ doc[d].kind = kind /\ d \in Id
  BY DEF Known
<1>3. PICK old \in Row, gross, off, total \in Nat :
        /\ old = doc[d] /\ gross = Gross({Line(r, body)}) /\ off = discount
        /\ total = gross - off
  <2>1. Gross({Line(r, body)}) \in Nat /\ discount \in Nat /\ discount =< Gross({Line(r, body)})
    BY <1>1, LineFacts DEF Resum, Known, Row, Invoice, Estimate
  <2>2. Gross({Line(r, body)}) - discount \in Nat
    BY <2>1
  <2> QED
    BY <1>2, <2>1, <2>2
<1> DEFINE row == Summed(old, gross, off, total)
<1>4. doc' = [doc EXCEPT ![d] = row]
  BY <1>1, <1>3 DEF Resum, Summed
<1>5. /\ row \in Row /\ row.kind = kind /\ row.status = doc[d].status /\ row.paid = doc[d].paid
      /\ row.gross = gross /\ row.discount = off /\ row.total = total
  <2>1. /\ row \in Row
        /\ row.kind = old.kind /\ row.status = old.status /\ row.paid = old.paid
        /\ row.gross = gross /\ row.discount = off /\ row.total = total
    <3>1. CASE old \in Invoice
      BY <3>1 DEF Summed, Row, Invoice
    <3>2. CASE old \in Estimate
      BY <3>2 DEF Summed, Row, Estimate
    <3> QED
      BY <3>1, <3>2 DEF Row
  <2> HIDE DEF row
  <2> QED
    BY <1>2, <1>3, <2>1
<1> HIDE DEF row
<1>6. /\ d \notin contended => lines'[d] = {Line(r, body)}
      /\ lines' = [lines EXCEPT ![d] = lines'[d]]
  BY <1>1, <1>2 DEF Known, SalesInv, Typed
<1>7. d \notin contended /\ kind = "invoice" /\ d \notin byHand => TellsMoney(row)
  BY <1>2, <1>5 DEF Known, TellsMoney
<1>8. /\ income' = [income EXCEPT ![d] = income'[d]] /\ income'[d] \in Nat
      /\ kind = "invoice" => row.paid = income'[d]
      /\ byHand' = byHand /\ contended' = contended
  BY <1>2, <1>5 DEF ghosts, Known, SalesInv, Typed
<1>9. row.total = row.gross - row.discount /\ (d \notin contended => row.gross = Gross(lines'[d]))
  BY <1>3, <1>5, <1>6
<1> QED
  BY <1>4, <1>5, <1>6, <1>7, <1>8, <1>9, ColumnsInv

LEMMA NewDiscountInv ==
  ASSUME SalesInv, NEW r \in Req, NEW d, NEW kind \in {"invoice", "estimate"},
         Known(r, d, kind), NewDiscount(r, d), doc[d] # None,
         kind = "invoice" => job[r].seen.status = "draft",
         End(r, "done"), UNCHANGED ghosts
  PROVE  SalesInv'
<1> USE DocumentsAssumption
<1>1. PICK discount \in Discounts :
        /\ discount =< job[r].seen.gross
        /\ doc' = [doc EXCEPT ![d].discount = discount,
                             ![d].total = job[r].seen.gross - discount]
        /\ UNCHANGED lines
  BY DEF NewDiscount
<1>2. doc[d] \in Row /\ doc[d].kind = kind /\ d \in Id
  BY DEF Known
<1>3. PICK old \in Row, gross, off, total \in Nat :
        /\ old = doc[d] /\ gross = doc[d].gross /\ off = discount
        /\ total = job[r].seen.gross - off
  <2>1. /\ doc[d].gross \in Nat /\ job[r].seen.gross \in Nat
        /\ discount \in Nat /\ discount =< job[r].seen.gross
    BY <1>1 DEF Known, Row, Invoice, Estimate
  <2>2. job[r].seen.gross - discount \in Nat
    BY <2>1
  <2> QED
    BY <1>2, <2>1, <2>2
<1> DEFINE row == Summed(old, gross, off, total)
<1>4. doc' = [doc EXCEPT ![d] = row]
  <2>1. row = [doc[d] EXCEPT !.discount = off, !.total = total]
    BY <1>3 DEF Summed, Row, Invoice, Estimate
  <2> QED
    BY <1>1, <1>3, <2>1
<1>5. /\ row \in Row /\ row.kind = kind /\ row.status = doc[d].status /\ row.paid = doc[d].paid
      /\ row.gross = doc[d].gross /\ row.discount = off /\ row.total = total
  <2>1. /\ row \in Row
        /\ row.kind = old.kind /\ row.status = old.status /\ row.paid = old.paid
        /\ row.gross = gross /\ row.discount = off /\ row.total = total
    <3>1. CASE old \in Invoice
      BY <3>1 DEF Summed, Row, Invoice
    <3>2. CASE old \in Estimate
      BY <3>2 DEF Summed, Row, Estimate
    <3> QED
      BY <3>1, <3>2 DEF Row
  <2> HIDE DEF row
  <2> QED
    BY <1>2, <1>3, <2>1
<1> HIDE DEF row
<1>6. d \notin contended =>
        /\ kind = "invoice" /\ d \notin byHand => TellsMoney(row)
        /\ row.total = row.gross - row.discount
        /\ row.gross = Gross(lines'[d])
  BY <1>1, <1>2, <1>3, <1>5 DEF Known, TellsMoney
<1>7. /\ income' = [income EXCEPT ![d] = income'[d]] /\ income'[d] \in Nat
      /\ kind = "invoice" => row.paid = income'[d]
      /\ byHand' = byHand /\ contended' = contended
      /\ lines' = [lines EXCEPT ![d] = lines'[d]]
  BY <1>1, <1>2, <1>5 DEF ghosts, Known, SalesInv, Typed
<1> QED
  BY <1>4, <1>5, <1>6, <1>7, ColumnsInv

(* A status that a user chose, or cancelled, when no money is lost by it.  *)
LEMMA NewStatusInv ==
  ASSUME SalesInv, NEW r \in Req, NEW d, NEW kind \in {"invoice", "estimate"},
         NEW status, Known(r, d, kind), doc[d] # None,
         kind = "invoice" => status \in InvoiceStatus,
         kind = "estimate" => status \in EstimateStatus,
         doc' = [doc EXCEPT ![d].status = status],
         End(r, "done"), UNCHANGED <<lines, income, contended>>,
         byHand' \ {d} = byHand \ {d},
         kind = "invoice" =>
           \/ d \in byHand'
           \/ status = "cancelled" /\ (d \notin contended => doc[d].paid = 0)
  PROVE  SalesInv'
<1> DEFINE row == [doc[d] EXCEPT !.status = status]
<1>1. doc[d] \in Row /\ doc[d].kind = kind /\ d \in Id
  BY DEF Known
<1>2. doc' = [doc EXCEPT ![d] = row]
  OBVIOUS
<1>3. /\ row \in Row /\ row.kind = kind /\ row.status = status /\ row.paid = doc[d].paid
      /\ row.gross = doc[d].gross /\ row.total = doc[d].total /\ row.discount = doc[d].discount
  BY <1>1 DEF Row, Invoice, Estimate
<1> HIDE DEF row
<1>4. d \notin contended =>
        /\ kind = "invoice" /\ d \notin byHand' => TellsMoney(row)
        /\ row.total = row.gross - row.discount
        /\ row.gross = Gross(lines'[d])
  BY <1>1, <1>3 DEF Known, TellsMoney
<1>5. /\ income' = [income EXCEPT ![d] = income'[d]] /\ income'[d] \in Nat
      /\ kind = "invoice" => row.paid = income'[d]
      /\ lines' = [lines EXCEPT ![d] = lines'[d]]
  BY <1>1, <1>3 DEF Known, SalesInv, Typed
<1>6. /\ Known(r, d, kind) /\ End(r, "done") /\ contended' = contended
      /\ byHand' \ {d} = byHand \ {d}
  OBVIOUS
<1> QED BY ONLY SalesInv, r \in Req, kind \in {"invoice", "estimate"},
                <1>2, <1>3, <1>4, <1>5, <1>6, ColumnsInv

LEMMA UpdateInv ==
  ASSUME SalesInv, NEW r \in Req, UpdateInvoice(r) \/ UpdateEstimate(r)
  PROVE  SalesInv'
<1> DEFINE d == job[r].id
<1>1. CASE UpdateInvoice(r)
  <2>1. /\ Writing(r, "invoice", "update") /\ job[r].seen.status = "draft"
        /\ End(r, "done") /\ UNCHANGED <<income, contended, overtaken>>
    BY <1>1 DEF UpdateInvoice
  <2>2. Known(r, d, "invoice") /\ doc[d] # None /\ job[r].op = "update"
    BY <2>1, WritingKnows DEF Known, Writing
  <2> HIDE DEF d
  <2>3. CASE NewLines(r, d) /\ UNCHANGED byHand
    BY <2>1, <2>2, <2>3, NewLinesInv DEF ghosts
  <2>4. CASE NewDiscount(r, d) /\ UNCHANGED byHand
    BY <2>1, <2>2, <2>4, NewDiscountInv DEF ghosts
  <2>5. CASE NewStatus(d, Chosen \cap InvoiceStatus) /\ byHand' = byHand \cup {d}
             /\ UNCHANGED lines
    <3>1. PICK status \in InvoiceStatus : doc' = [doc EXCEPT ![d].status = status]
      BY <2>5 DEF NewStatus
    <3>2. d \in byHand' /\ byHand' \ {d} = byHand \ {d} /\ UNCHANGED <<lines, income, contended>>
      BY <2>1, <2>5
    <3> QED
      BY <2>1, <2>2, <3>1, <3>2, NewStatusInv
  <2> QED
    BY <1>1, <2>3, <2>4, <2>5 DEF UpdateInvoice, d
<1>2. CASE UpdateEstimate(r)
  <2>1. /\ Writing(r, "estimate", "update") /\ doc[d] # None
        /\ End(r, "done") /\ UNCHANGED ghosts
    BY <1>2 DEF UpdateEstimate
  <2>2. Known(r, d, "estimate") /\ job[r].op = "update"
    BY <2>1, WritingKnows DEF Writing
  <2> HIDE DEF d
  <2>3. CASE NewLines(r, d)
    BY <2>1, <2>2, <2>3, NewLinesInv
  <2>4. CASE NewDiscount(r, d)
    BY <2>1, <2>2, <2>4, NewDiscountInv
  <2>5. CASE NewStatus(d, Chosen \cap EstimateStatus) /\ UNCHANGED lines
    <3>1. PICK status \in EstimateStatus : doc' = [doc EXCEPT ![d].status = status]
      BY <2>5 DEF NewStatus
    <3>2. byHand' \ {d} = byHand \ {d} /\ UNCHANGED <<lines, income, contended>>
      BY <2>1, <2>5 DEF ghosts
    <3> QED
      BY <2>1, <2>2, <3>1, <3>2, NewStatusInv
  <2> QED
    BY <1>2, <2>3, <2>4, <2>5 DEF UpdateEstimate, d
<1> QED
  BY <1>1, <1>2

(* The cents of an accepted payment exceed what remains by one at most.    *)
LEMMA CentsFacts ==
  ASSUME NEW amount \in Nat
  PROVE  /\ Cents(amount) \in Nat
         /\ \A row : row.total \in Nat /\ row.paid \in Nat /\ Accepted(row, amount)
              => row.paid + Cents(amount) =< row.total + 1
<1>1. Cents(amount) \in Nat /\ 10 * Cents(amount) =< amount + 5
  BY DEF Cents
<1>2. ASSUME NEW row, row.total \in Nat, row.paid \in Nat, Accepted(row, amount)
      PROVE  row.paid + Cents(amount) =< row.total + 1
  <2> PICK k, t, p : k = Cents(amount) /\ t = row.total /\ p = row.paid
    OBVIOUS
  <2>1. k \in Nat /\ t \in Nat /\ p \in Nat /\ 10 * k =< 10 * (t - p) + 10
    BY <1>1, <1>2 DEF Accepted
  <2>2. p + k =< t + 1
    BY <2>1
  <2> QED
    BY <2>2
<1> QED
  BY <1>1, <1>2

(* A payment: the amount fits what was read, which is what is there.       *)
LEMMA PaymentInv ==
  ASSUME SalesInv, NEW r \in Req, RecordPayment(r)
  PROVE  SalesInv'
<1> DEFINE d == job[r].id
           seen == job[r].seen
<1>1. /\ Writing(r, "invoice", "pay") /\ End(r, "done") /\ byHand' = byHand \ {d}
      /\ UNCHANGED <<lines, contended, overtaken>>
  BY DEF RecordPayment
<1>2. Known(r, d, "invoice") /\ doc[d] # None
  BY <1>1, WritingKnows DEF Known
<1>3. PICK amount \in Amounts :
        /\ Accepted(seen, amount)
        /\ doc' = [doc EXCEPT ![d].paid = Paid(r, amount),
                     ![d].status = IF Paid(r, amount) >= doc[d].total
                                   THEN "paid" ELSE "partial"]
        /\ income' = [income EXCEPT ![d] = @ + Cents(amount)]
  BY DEF RecordPayment
<1>4. /\ doc[d] \in Row /\ doc[d].kind = "invoice" /\ doc[d].paid = income[d] /\ d \in Id
      /\ doc[d] \in Invoice
  BY <1>2 DEF Known, Row, Estimate
<1>5. /\ amount \in Nat /\ Cents(amount) \in Nat
      /\ doc[d].paid \in Nat /\ doc[d].total \in Nat
      /\ doc[d].paid + Cents(amount) \in Nat /\ Paid(r, amount) = doc[d].paid + Cents(amount)
  <2>1. amount \in Nat /\ doc[d].paid \in Nat /\ doc[d].total \in Nat
    BY <1>4, DocumentsAssumption DEF Invoice
  <2>2. Cents(amount) \in Nat
    BY <2>1, CentsFacts
  <2> QED
    BY <2>1, <2>2 DEF Paid
<1> DEFINE sum == doc[d].paid + Cents(amount)
           status == IF sum >= doc[d].total THEN "paid" ELSE "partial"
           row == [doc[d] EXCEPT !.paid = sum, !.status = status]
<1>6. doc' = [doc EXCEPT ![d] = row]
  BY <1>3, <1>5
<1>7. /\ row \in Row /\ row.kind = "invoice" /\ row.paid = sum /\ row.status = status
      /\ row.gross = doc[d].gross /\ row.total = doc[d].total /\ row.discount = doc[d].discount
  BY <1>4, <1>5 DEF Row, Invoice, InvoiceStatus
<1> HIDE DEF row
<1>8. d \notin contended => TellsMoney(row)
  <2>1. SUFFICES ASSUME d \notin contended PROVE TellsMoney(row)
    OBVIOUS
  <2>2. sum =< doc[d].total + 1
    <3>1. doc[d] = seen
      BY <1>2, <2>1 DEF Known
    <3> QED
      BY <1>3, <1>5, <3>1, CentsFacts
  <2>3. CASE sum >= doc[d].total
    BY <1>5, <1>7, <2>2, <2>3 DEF TellsMoney
  <2>4. CASE ~ (sum >= doc[d].total)
    BY <1>5, <1>7, <2>2, <2>4 DEF TellsMoney
  <2> QED
    BY <2>3, <2>4
<1>9. /\ lines' = [lines EXCEPT ![d] = lines'[d]]
      /\ income'[d] = sum /\ income' = [income EXCEPT ![d] = income'[d]] /\ income'[d] \in Nat
      /\ byHand' \ {d} = byHand \ {d} /\ contended' = contended
  BY <1>1, <1>3, <1>4, <1>5 DEF SalesInv, Typed
<1>10. d \notin contended =>
         /\ row.total = row.gross - row.discount
         /\ row.gross = Gross(lines'[d])
  BY <1>1, <1>2, <1>7 DEF Known
<1> HIDE DEF d, sum, status
<1> QED
  BY <1>1, <1>2, <1>6, <1>7, <1>8, <1>9, <1>10, ColumnsInv

LEMMA StatusInv ==
  ASSUME SalesInv, NEW r \in Req, CancelInvoice(r) \/ SetStatus(r) \/ CancelEstimate(r)
  PROVE  SalesInv'
<1> DEFINE d == job[r].id
<1>1. CASE CancelInvoice(r)
  <2>1. /\ Writing(r, "invoice", "cancel") /\ MayCancel(job[r].seen)
        /\ doc' = [doc EXCEPT ![d].status = "cancelled"] /\ byHand' = byHand \ {d}
        /\ End(r, "done") /\ UNCHANGED <<lines, income, contended>>
    BY <1>1 DEF CancelInvoice
  <2>2. Known(r, d, "invoice") /\ doc[d] # None
    BY <2>1, WritingKnows DEF Known
  <2>3. d \notin contended => doc[d].paid = 0
    BY <2>1, <2>2 DEF Known, MayCancel
  <2>4. byHand' \ {d} = byHand \ {d}
    BY <2>1
  <2> HIDE DEF d
  <2> QED
    BY <2>1, <2>2, <2>3, <2>4, NewStatusInv DEF InvoiceStatus
<1>2. CASE SetStatus(r)
  <2>1. /\ Writing(r, "invoice", "setStatus") /\ byHand' = byHand \cup {d}
        /\ NewStatus(d, Chosen \cap InvoiceStatus)
        /\ End(r, "done") /\ UNCHANGED <<lines, income, contended>>
    BY <1>2 DEF SetStatus
  <2>2. Known(r, d, "invoice") /\ doc[d] # None
    BY <2>1, WritingKnows DEF Known
  <2>3. PICK status \in InvoiceStatus : doc' = [doc EXCEPT ![d].status = status]
    BY <2>1 DEF NewStatus
  <2>4. d \in byHand' /\ byHand' \ {d} = byHand \ {d}
    BY <2>1
  <2> HIDE DEF d
  <2> QED
    BY <2>1, <2>2, <2>3, <2>4, NewStatusInv
<1>3. CASE CancelEstimate(r)
  <2>1. /\ Writing(r, "estimate", "cancel") /\ doc[d] # None
        /\ doc' = [doc EXCEPT ![d].status = "cancelled"]
        /\ End(r, "done") /\ UNCHANGED <<lines, ghosts>>
    BY <1>3 DEF CancelEstimate
  <2>2. Known(r, d, "estimate") /\ UNCHANGED <<lines, income, contended>> /\ byHand' = byHand
    BY <2>1, WritingKnows DEF ghosts
  <2> HIDE DEF d
  <2> QED
    BY <2>1, <2>2, NewStatusInv DEF EstimateStatus
<1> QED
  BY <1>1, <1>2, <1>3

LEMMA RemoveInv ==
  ASSUME SalesInv, NEW r \in Req, RemoveEstimate(r)
  PROVE  SalesInv'
<1> PICK d : d = job[r].id
  OBVIOUS
<1>1. /\ Writing(r, "estimate", "remove") /\ End(r, "done") /\ UNCHANGED ghosts
      /\ doc' = [doc EXCEPT ![d] = None] /\ lines' = [lines EXCEPT ![d] = {}]
  BY DEF RemoveEstimate
<1>2. /\ Known(r, d, "estimate") /\ d \in Id
      /\ stage[r] = "write" /\ job[r].seen.kind = "estimate"
  BY <1>1, WritingKnows DEF Known
<1>3. /\ doc'[d] = None /\ doc' = [doc EXCEPT ![d] = doc'[d]]
      /\ lines' = [lines EXCEPT ![d] = lines'[d]]
      /\ income' = [income EXCEPT ![d] = income'[d]] /\ income'[d] \in Nat
      /\ byHand' \ {d} = byHand \ {d} /\ contended' = contended
  BY <1>1, <1>2 DEF SalesInv, Typed, ghosts
<1>4. Sound(d, "estimate")'
  BY <1>3 DEF Sound
<1> QED
  BY <1>1, <1>2, <1>3, <1>4, WriteInv

-----------------------------------------------------------------------------
LEMMA ReadsInv ==
  ASSUME SalesInv, NEW r \in Req,
         \/ ReadInvoice(r) \/ ReadEstimate(r) \/ ReadLastNumber(r) \/ DeleteLines(r)
  PROVE  SalesInv'
<1>1. CASE ReadInvoice(r)
  BY <1>1, TakeInv DEF ReadInvoice, AtWork
<1>2. CASE ReadEstimate(r)
  BY <1>2, TakeInv DEF ReadEstimate, AtWork
<1>3. CASE ReadLastNumber(r)
  <2>1. PICK kind, last :
          /\ last \in Numbers(kind) \cup {0}
          /\ job' = [job EXCEPT ![r] = [Idle EXCEPT !.op = kind, !.last = last]]
          /\ stage[r] = "new" /\ stage' = [stage EXCEPT ![r] = "insert"]
          /\ UNCHANGED <<database, ghosts>>
    BY <1>3 DEF ReadLastNumber
  <2>2. last \in Nat
    BY <2>1 DEF SalesInv, Typed, Numbers, Existing, Row, Invoice, Estimate
  <2> DEFINE j == [Idle EXCEPT !.op = kind, !.last = last]
  <2>3. /\ j.op = kind /\ j.id = None /\ j.seen = None /\ j.lines = {} /\ j.last = last
        /\ j \in Job(j)
    BY <2>2 DEF Idle, Job
  <2> HIDE DEF j
  <2> QED
    BY <2>1, <2>3, NothingWritten DEF j, AtWork
<1>4. CASE DeleteLines(r)
  <2> DEFINE j == [job[r] EXCEPT !.lines = lines[job[r].id]]
  <2>1. /\ stage[r] = "delete" /\ stage' = [stage EXCEPT ![r] = "write"]
        /\ job' = [job EXCEPT ![r] = j] /\ UNCHANGED <<database, ghosts>>
    BY <1>4 DEF DeleteLines
  <2>2. /\ j.op = job[r].op /\ j.id = job[r].id /\ j.seen = job[r].seen
        /\ j.last = job[r].last /\ j.lines = lines[job[r].id] /\ j \in Job(j)
    <3>1. job[r] \in Job(job[r])
      BY DEF SalesInv, Typed
    <3> QED
      BY <3>1 DEF Job
  <2> HIDE DEF j
  <2> QED
    BY <2>1, <2>2, NothingWritten DEF AtWork
<1> QED
  BY <1>1, <1>2, <1>3, <1>4

LEMMA EndsInv ==
  ASSUME SalesInv, NEW r \in Req, NumberTaken(r) \/ Fail(r)
  PROVE  SalesInv'
<1>1. PICK outcome \in {"refused", "failed"} :
        /\ End(r, outcome) /\ UNCHANGED <<database, ghosts>>
        /\ stage[r] \in {"new", "insert"} \cup AtWork
  BY DEF NumberTaken, Fail, AtWork
<1>2. /\ Idle.op = "none" /\ Idle.id = None /\ Idle.seen = None
      /\ Idle.lines = {} /\ Idle.last = 0
  BY DEF Idle
<1>3. Idle \in Job(Idle)
  BY <1>2 DEF Job, Idle
<1> HIDE DEF Idle
<1> QED
  BY <1>1, <1>3, NothingWritten DEF End, Over, AtWork

LEMMA NextInv == SalesInv /\ [Next]_vars => SalesInv'
<1> SUFFICES ASSUME SalesInv, [Next]_vars PROVE SalesInv'
  OBVIOUS
<1>1. ASSUME NEW r \in Req,
             \/ ReadInvoice(r) \/ ReadEstimate(r) \/ ReadLastNumber(r) \/ DeleteLines(r)
             \/ CreateInvoice(r) \/ CreateEstimate(r) \/ NumberTaken(r)
             \/ UpdateInvoice(r) \/ RecordPayment(r) \/ CancelInvoice(r) \/ SetStatus(r)
             \/ UpdateEstimate(r) \/ CancelEstimate(r) \/ RemoveEstimate(r) \/ Fail(r)
      PROVE  SalesInv'
  BY <1>1, ReadsInv, InsertInv, UpdateInv, PaymentInv, StatusInv, RemoveInv, EndsInv
<1>2. CASE UNCHANGED vars
  <2>1. UNCHANGED <<doc, lines, stage, job, income, byHand, contended>>
    BY <1>2 DEF vars, database, ghosts
  <2>2. Typed' /\ NotInserted' /\ KindStays' /\ Alone' /\ DecidedOnWhatIs'
    BY <2>1 DEF SalesInv, Typed, NotInserted, KindStays, Alone, DecidedOnWhatIs, At
  <2>3. PaidIsIncome' /\ StatusTellsMoney' /\ TotalsAddUp'
    BY <2>1 DEF SalesInv, PaidIsIncome, StatusTellsMoney, TotalsAddUp, Quiet, Existing
  <2> QED
    BY <2>2, <2>3 DEF SalesInv
<1> QED
  BY <1>1, <1>2 DEF Next, AllAnswered

(* The invariant of the sales documents, from which the rest follows: what *)
(* a lone request has read of a document is still so when it writes.       *)
THEOREM Invariance == Spec => []SalesInv
BY InitInv, NextInv, PTL DEF Spec

(* recordPayment adds to the row that is there: an invoice's paid sum is   *)
(* what was accepted for it, however many payments and edits overlap.      *)
THEOREM Income == Spec => []PaidIsIncome
<1>1. SalesInv => PaidIsIncome
  BY DEF SalesInv
<1> QED
  BY <1>1, Invariance, PTL

(* recordPayment, cancel and update leave a status that tells the money of *)
(* an invoice, to the cent that the tolerance of half a cent may add, if   *)
(* no two requests were at it and no user chose the status.                *)
THEOREM MoneyTold == Spec => []StatusTellsMoney
<1>1. SalesInv => StatusTellsMoney
  BY DEF SalesInv
<1> QED
  BY <1>1, Invariance, PTL

(* create and update leave a total that is what the lines say less the     *)
(* discount and never negative, if no two requests were at the document.   *)
THEOREM Totals == Spec => []TotalsAddUp
<1>1. SalesInv => TotalsAddUp
  BY DEF SalesInv
<1> QED
  BY <1>1, Invariance, PTL
-----------------------------------------------------------------------------
(* Numbers.  Only an insert adds one, and it overtakes whoever was about   *)
(* to insert a document of that kind; so the number of a request that was  *)
(* not overtaken is still free, if its read found it free.                 *)
Fresh == \A r \in Req : stage[r] = "insert" /\ r \notin overtaken /\ job[r].last # 9999
                          => NextNumber(job[r].last) \notin Numbers(job[r].op)

(* The text order puts 9999 after 10000 and every other number before its  *)
(* successor: what follows the greatest one was never given.               *)
LEMMA NextIsFree ==
  ASSUME SalesInv, NEW kind, NEW last \in Nat, LastNumber(kind, last), last # 9999
  PROVE  NextNumber(last) \notin Numbers(kind)
<1>1. CASE Numbers(kind) = {}
  BY <1>1
<1>2. CASE last \in Numbers(kind) /\ \A m \in Numbers(kind) : m = last \/ Before(m, last)
  <2>1. last + 1 # last /\ ~Before(last + 1, last)
    BY DEF Before
  <2> QED
    BY <1>2, <2>1 DEF NextNumber
<1> QED
  BY <1>1, <1>2 DEF LastNumber

(* Every other write leaves a document its kind and its number, or deletes *)
(* it.                                                                     *)
Renumbers(d) == doc'[d] # None => /\ doc[d] # None
                                  /\ doc'[d].kind = doc[d].kind
                                  /\ doc'[d].number = doc[d].number

LEMMA EditsKeepNumbers ==
  ASSUME SalesInv, NEW r \in Req,
         \/ UpdateInvoice(r) \/ RecordPayment(r) \/ CancelInvoice(r) \/ SetStatus(r)
         \/ UpdateEstimate(r) \/ CancelEstimate(r) \/ RemoveEstimate(r)
  PROVE  /\ \A d \in Id : Renumbers(d)
         /\ overtaken' = overtaken /\ stage'[r] = "done"
         /\ \A q \in Req \ {r} : stage'[q] = stage[q] /\ job'[q] = job[q]
<1> PICK d : d = job[r].id
  OBVIOUS
<1>1. /\ stage[r] = "write" /\ job[r].seen.kind \in {"invoice", "estimate"}
      /\ End(r, "done") /\ overtaken' = overtaken
  BY DEF UpdateInvoice, RecordPayment, CancelInvoice, SetStatus, UpdateEstimate, CancelEstimate,
         RemoveEstimate, Writing, ghosts
<1>2. Known(r, d, job[r].seen.kind)
  <2>1. \E op : Writing(r, job[r].seen.kind, op)
    BY <1>1 DEF Writing
  <2> QED
    BY <1>1, <2>1, WritingKnows
<1>3. d \in Id /\ (doc[d] = None \/ doc[d] \in Row) /\ doc = [e \in Id |-> doc[e]]
  BY <1>2 DEF Known, SalesInv, Typed
<1>4. \/ doc' = [doc EXCEPT ![d] = None]
      \/ /\ doc[d] # None
         /\ \/ \E gross, off, total :
                 doc' = [doc EXCEPT ![d].gross = gross, ![d].discount = off, ![d].total = total]
            \/ \E off, total : doc' = [doc EXCEPT ![d].discount = off, ![d].total = total]
            \/ \E status : doc' = [doc EXCEPT ![d].status = status]
            \/ \E paid, status : doc' = [doc EXCEPT ![d].paid = paid, ![d].status = status]
  <2>1. UpdateInvoice(r) \/ UpdateEstimate(r) =>
          \/ \E gross, off, total :
               doc' = [doc EXCEPT ![d].gross = gross, ![d].discount = off, ![d].total = total]
          \/ \E off, total : doc' = [doc EXCEPT ![d].discount = off, ![d].total = total]
          \/ \E status : doc' = [doc EXCEPT ![d].status = status]
    <3>1. NewLines(r, d) => \E gross, off, total :
            doc' = [doc EXCEPT ![d].gross = gross, ![d].discount = off, ![d].total = total]
      <4> SUFFICES ASSUME NewLines(r, d)
                   PROVE  \E gross, off, total : doc' =
                            [doc EXCEPT ![d].gross = gross, ![d].discount = off, ![d].total = total]
        OBVIOUS
      <4>1. PICK body, off : Resum(d, Gross({Line(r, body)}), off)
        BY DEF NewLines
      <4> QED
        BY <4>1 DEF Resum
    <3>2. NewDiscount(r, d) => \E off, total :
            doc' = [doc EXCEPT ![d].discount = off, ![d].total = total]
      BY Zenon DEF NewDiscount
    <3>3. \A statuses : NewStatus(d, statuses) =>
            \E status : doc' = [doc EXCEPT ![d].status = status]
      BY DEF NewStatus
    <3>4. UpdateInvoice(r) \/ UpdateEstimate(r) =>
            NewLines(r, d) \/ NewDiscount(r, d) \/ \E statuses : NewStatus(d, statuses)
      BY Zenon DEF UpdateInvoice, UpdateEstimate
    <3> QED
      BY <3>1, <3>2, <3>3, <3>4
  <2>2. RecordPayment(r) =>
          \E paid, status : doc' = [doc EXCEPT ![d].paid = paid, ![d].status = status]
    <3> SUFFICES ASSUME RecordPayment(r)
                 PROVE  \E paid, status : doc' = [doc EXCEPT ![d].paid = paid, ![d].status = status]
      OBVIOUS
    <3>1. PICK amount \in Amounts : doc' =
            [doc EXCEPT ![d].paid = Paid(r, amount),
                        ![d].status = IF Paid(r, amount) >= doc[d].total
                                      THEN "paid" ELSE "partial"]
      BY DEF RecordPayment
    <3>2. PICK paid : paid = Paid(r, amount)
      OBVIOUS
    <3>3. PICK status : status = IF paid >= doc[d].total THEN "paid" ELSE "partial"
      OBVIOUS
    <3>4. doc' = [doc EXCEPT ![d].paid = paid, ![d].status = status]
      BY <3>1, <3>2, <3>3
    <3> QED
      BY <3>4
  <2>3. CancelInvoice(r) \/ SetStatus(r) \/ CancelEstimate(r) =>
          \E status : doc' = [doc EXCEPT ![d].status = status]
    BY DEF CancelInvoice, SetStatus, CancelEstimate, NewStatus
  <2>4. RemoveEstimate(r) => doc' = [doc EXCEPT ![d] = None]
    BY DEF RemoveEstimate
  <2>5. UpdateInvoice(r) \/ RecordPayment(r) \/ CancelInvoice(r) \/ SetStatus(r) =>
          job[r].seen.kind = "invoice"
    BY DEF UpdateInvoice, RecordPayment, CancelInvoice, SetStatus, Writing
  <2>6. UpdateEstimate(r) \/ CancelEstimate(r) => doc[d] # None
    BY DEF UpdateEstimate, CancelEstimate
  <2>7. job[r].seen.kind = "invoice" => doc[d] # None
    BY <1>2 DEF Known
  <2> QED
    BY <2>1, <2>2, <2>3, <2>4, <2>5, <2>6, <2>7
<1>5. Renumbers(d) /\ \A e \in Id \ {d} : doc'[e] = doc[e]
  <2>1. CASE doc' = [doc EXCEPT ![d] = None]
    BY <1>3, <2>1 DEF Renumbers
  <2>2. ASSUME doc[d] # None, NEW new, doc' = [doc EXCEPT ![d] = new],
               new.kind = doc[d].kind, new.number = doc[d].number
        PROVE  Renumbers(d) /\ \A e \in Id \ {d} : doc'[e] = doc[e]
    BY <1>3, <2>2 DEF Renumbers
  <2>3. ASSUME doc[d] # None, NEW gross, NEW off, NEW total,
               doc' = [doc EXCEPT ![d].gross = gross, ![d].discount = off, ![d].total = total]
        PROVE  Renumbers(d) /\ \A e \in Id \ {d} : doc'[e] = doc[e]
    <3>1. PICK new : new = [doc[d] EXCEPT !.gross = gross, !.discount = off, !.total = total]
      OBVIOUS
    <3>2. doc' = [doc EXCEPT ![d] = new]
      BY <1>3, <2>3, <3>1 DEF Row, Invoice, Estimate
    <3>3. new.kind = doc[d].kind /\ new.number = doc[d].number
      BY <1>3, <2>3, <3>1 DEF Row, Invoice, Estimate
    <3> QED
      BY <2>2, <2>3, <3>2, <3>3
  <2>4. ASSUME doc[d] # None, NEW off, NEW total,
               doc' = [doc EXCEPT ![d].discount = off, ![d].total = total]
        PROVE  Renumbers(d) /\ \A e \in Id \ {d} : doc'[e] = doc[e]
    <3>1. PICK new : new = [doc[d] EXCEPT !.discount = off, !.total = total]
      OBVIOUS
    <3>2. doc' = [doc EXCEPT ![d] = new]
      BY <1>3, <2>4, <3>1 DEF Row, Invoice, Estimate
    <3>3. new.kind = doc[d].kind /\ new.number = doc[d].number
      BY <1>3, <2>4, <3>1 DEF Row, Invoice, Estimate
    <3> QED
      BY <2>2, <2>4, <3>2, <3>3
  <2>5. ASSUME doc[d] # None, NEW status, doc' = [doc EXCEPT ![d].status = status]
        PROVE  Renumbers(d) /\ \A e \in Id \ {d} : doc'[e] = doc[e]
    <3>1. PICK new : new = [doc[d] EXCEPT !.status = status]
      OBVIOUS
    <3>2. doc' = [doc EXCEPT ![d] = new]
      BY <1>3, <2>5, <3>1
    <3>3. new.kind = doc[d].kind /\ new.number = doc[d].number
      BY <1>3, <2>5, <3>1 DEF Row, Invoice, Estimate
    <3> QED
      BY <2>2, <2>5, <3>2, <3>3
  <2>6. ASSUME doc[d] # None, NEW paid, NEW status,
               doc' = [doc EXCEPT ![d].paid = paid, ![d].status = status]
        PROVE  Renumbers(d) /\ \A e \in Id \ {d} : doc'[e] = doc[e]
    <3>1. PICK new : new = [doc[d] EXCEPT !.paid = paid, !.status = status]
      OBVIOUS
    <3>2. doc' = [doc EXCEPT ![d] = new]
      BY <1>3, <2>6, <3>1 DEF Row, Invoice, Estimate
    <3>3. new.kind = doc[d].kind /\ new.number = doc[d].number
      BY <1>3, <2>6, <3>1 DEF Row, Invoice, Estimate
    <3> QED
      BY <2>2, <2>6, <3>2, <3>3
  <2>7. CASE \E gross, off, total : doc' =
               [doc EXCEPT ![d].gross = gross, ![d].discount = off, ![d].total = total]
    <3>1. PICK gross, off, total : doc' =
            [doc EXCEPT ![d].gross = gross, ![d].discount = off, ![d].total = total]
      BY <2>7
    <3>2. CASE doc[d] # None
      BY <2>3, <3>1, <3>2
    <3>3. CASE doc[d] = None
      BY <1>4, <2>1, <3>3
    <3> QED
      BY <3>2, <3>3
  <2>8. CASE \E off, total : doc' = [doc EXCEPT ![d].discount = off, ![d].total = total]
    BY <1>4, <2>1, <2>4, <2>8
  <2>9. CASE \E status : doc' = [doc EXCEPT ![d].status = status]
    BY <1>4, <2>1, <2>5, <2>9
  <2>10. CASE \E paid, status : doc' = [doc EXCEPT ![d].paid = paid, ![d].status = status]
    BY <1>4, <2>1, <2>6, <2>10
  <2> QED
    BY <1>4, <2>1, <2>7, <2>8, <2>9, <2>10
<1>6. \A e \in Id : Renumbers(e)
  BY <1>5 DEF Renumbers
<1> QED
  BY <1>1, <1>6 DEF End, SalesInv, Typed

LEMMA InsertKeepsFresh ==
  ASSUME SalesInv, Fresh, NEW r \in Req, CreateInvoice(r) \/ CreateEstimate(r)
  PROVE  Fresh'
<1>1. PICK kind, status : Insert(r, kind, status)
  BY DEF CreateInvoice, CreateEstimate
<1>2. PICK row : doc' = [doc EXCEPT ![r] = row] /\ row.kind = kind
  <2>1. PICK body, discount : doc' = [doc EXCEPT ![r] =
                [kind |-> kind, number |-> NextNumber(job[r].last), status |-> status,
                 gross |-> Gross({Line(r, body)}), discount |-> discount,
                 total |-> Gross({Line(r, body)}) - discount, paid |-> 0]]
    BY <1>1 DEF Insert
  <2> DEFINE row == [kind |-> kind, number |-> NextNumber(job[r].last), status |-> status,
                     gross |-> Gross({Line(r, body)}), discount |-> discount,
                     total |-> Gross({Line(r, body)}) - discount, paid |-> 0]
  <2>2. row.kind = kind /\ doc' = [doc EXCEPT ![r] = row]
    BY <2>1
  <2> HIDE DEF row
  <2> QED
    BY <2>2
<1>3. /\ doc = [d \in Id |-> doc[d]] /\ r \in Id
      /\ \A d \in Id \ {r} : doc'[d] = doc[d]
  BY <1>2 DEF SalesInv, Typed, Id
<1>4. /\ stage'[r] = "done"
      /\ \A q \in Req \ {r} : stage'[q] = stage[q] /\ job'[q] = job[q]
      /\ overtaken' = overtaken \cup {q \in Req \ {r} : stage[q] = "insert" /\ job[q].op = kind}
  BY <1>1 DEF Insert, End, SalesInv, Typed
<1> SUFFICES ASSUME NEW q \in Req, stage'[q] = "insert", q \notin overtaken', job'[q].last # 9999
             PROVE  NextNumber(job'[q].last) \notin Numbers(job[q].op)'
  BY DEF Fresh
<1>5. /\ q # r /\ stage[q] = "insert" /\ job'[q] = job[q] /\ q \notin overtaken
      /\ job[q].op # kind
  BY <1>4
<1>6. doc'[r].kind = kind
  BY <1>2, <1>3
<1>7. Numbers(job[q].op)' \subseteq Numbers(job[q].op)
  BY <1>3, <1>5, <1>6 DEF Numbers, Existing
<1> QED
  BY <1>5, <1>7 DEF Fresh

LEMMA NextFresh == SalesInv /\ Fresh /\ [Next]_vars => Fresh'
<1> SUFFICES ASSUME SalesInv, Fresh, [Next]_vars PROVE Fresh'
  OBVIOUS
<1>1. ASSUME NEW r \in Req, CreateInvoice(r) \/ CreateEstimate(r)
      PROVE  Fresh'
  BY <1>1, InsertKeepsFresh
<1>2. ASSUME NEW r \in Req,
             \/ UpdateInvoice(r) \/ RecordPayment(r) \/ CancelInvoice(r) \/ SetStatus(r)
             \/ UpdateEstimate(r) \/ CancelEstimate(r) \/ RemoveEstimate(r)
      PROVE  Fresh'
  <2>1. /\ \A d \in Id : Renumbers(d)
        /\ overtaken' = overtaken /\ stage'[r] = "done"
        /\ \A q \in Req \ {r} : stage'[q] = stage[q] /\ job'[q] = job[q]
    BY <1>2, EditsKeepNumbers
  <2>2. \A kind : Numbers(kind)' \subseteq Numbers(kind)
    BY <2>1 DEF Numbers, Existing, Renumbers
  <2> QED
    BY <2>1, <2>2 DEF Fresh
<1>3. ASSUME NEW r \in Req, ReadLastNumber(r)
      PROVE  Fresh'
  <2>1. PICK kind, last :
          /\ last \in Numbers(kind) \cup {0} /\ LastNumber(kind, last)
          /\ job' = [job EXCEPT ![r] = [Idle EXCEPT !.op = kind, !.last = last]]
          /\ UNCHANGED <<doc, overtaken>> /\ stage' = [stage EXCEPT ![r] = "insert"]
    BY <1>3 DEF ReadLastNumber, database, ghosts
  <2>2. last \in Nat
    BY <2>1 DEF SalesInv, Typed, Numbers, Existing, Row, Invoice, Estimate
  <2>3. last # 9999 => NextNumber(last) \notin Numbers(kind)
    BY <2>1, <2>2, NextIsFree
  <2>4. job'[r].op = kind /\ job'[r].last = last
    BY <2>1 DEF SalesInv, Typed, Idle
  <2>5. \A q \in Req \ {r} : stage'[q] = stage[q] /\ job'[q] = job[q]
    BY <2>1 DEF SalesInv, Typed
  <2> QED
    BY <2>1, <2>3, <2>4, <2>5 DEF Fresh, Numbers, Existing
<1>4. ASSUME NEW r \in Req,
             \/ ReadInvoice(r) \/ ReadEstimate(r) \/ DeleteLines(r) \/ NumberTaken(r) \/ Fail(r)
      PROVE  Fresh'
  <2>1. UNCHANGED <<doc, overtaken>> /\ stage'[r] # "insert"
        /\ \A q \in Req \ {r} : stage'[q] = stage[q] /\ job'[q] = job[q]
    BY <1>4 DEF ReadInvoice, ReadEstimate, Take, DeleteLines, NumberTaken, Fail, End, database,
                ghosts, SalesInv, Typed
  <2> QED
    BY <2>1 DEF Fresh, Numbers, Existing
<1>5. CASE UNCHANGED vars
  BY <1>5 DEF vars, database, ghosts, Fresh, Numbers, Existing
<1> QED
  BY <1>1, <1>2, <1>3, <1>4, <1>5 DEF Next, AllAnswered

(* nextNumber and the unique key of (business, number): a request is       *)
(* refused for its number only if another request took that number since   *)
(* it looked for the last one, or if that last one was 9999.               *)
THEOREM NumbersAreFresh == Spec => NumbersFollow
<1>1. Init => Fresh
  BY DEF Init, Fresh
<1>2. Fresh /\ [Next]_vars =>
        [\A r \in Req : NumberTaken(r) => r \in overtaken \/ job[r].last = 9999]_vars
  BY DEF Fresh, NumberTaken
<1> QED
  BY <1>1, <1>2, InitInv, NextInv, NextFresh, PTL DEF Spec, NumbersFollow
-----------------------------------------------------------------------------
(* The inventory counts.                                                   *)
USE CountsAssumption, NoneAssumption

Stages == {"new", "create", "lines", "live", "apply", "done", "failed"}
CountJob == [count : Id \cup {None}, lines : [Product -> Nat \cup {None}],
        live : [Product -> Nat]]
Applying == {"lines", "live", "apply"}

CountsTyped == TypeOK /\ stage \in [Req -> Stages] /\ job \in [Req -> CountJob]

(* A request is at a count while it applies it, and at none otherwise.     *)
AtACount ==
  \A r \in Req : IF stage[r] \in Applying THEN job[r].count \in Started
                 ELSE job[r].count = None
(* Nobody else starts the count a request may still start.                 *)
NotStarted == \A r \in Req : stage[r] \in {"new", "create"} => count[r] = None
OneAtACount ==
  \A q, r \in Req : q # r /\ job[q].count = job[r].count /\ job[r].count # None
                    => job[r].count \in overlapped
(* What a lone apply has read of its count is still so.                    *)
ReadsHold ==
  \A r \in Req : stage[r] \in Applying /\ job[r].count \notin overlapped =>
    /\ ~count[job[r].count].applied
    /\ stage[r] # "lines" => job[r].lines = count[job[r].count].counted
Unapplied == \A c \in Id : applies[c] = 0 \/ (c \in Started /\ count[c].applied)

CountsInv == /\ CountsTyped /\ AtACount /\ NotStarted /\ OneAtACount /\ ReadsHold
             /\ Unapplied /\ AppliedOnce /\ GapIsExact

(***************************************************************************)
(* The invariant holds initially, whatever counts there are.               *)
(***************************************************************************)
LEMMA CountsInitInv == CountsInit => CountsInv
<1> SUFFICES ASSUME CountsInit PROVE CountsInv
  OBVIOUS
<1>1. CountsTyped
  <2>1. count \in [Id -> Count \cup {None}]
    BY DEF CountsInit, Id
  <2>2. stock \in [Product -> Nat] /\ stage \in [Req -> Stages]
    BY DEF CountsInit, Stages
  <2>3. Nothing \in [Product -> Nat] /\ Nothing \in [Product -> Int]
        /\ Nothing \in [Product -> Nat \cup {None}]
    BY DEF Nothing
  <2>4. drift \in [Req -> [Product -> Int]] /\ job \in [Req -> CountJob]
    BY <2>3 DEF CountsInit, AtNoCount, CountJob
  <2>5. applies \in [Id -> Nat]
    BY DEF CountsInit
  <2> QED
    BY <2>1, <2>2, <2>4, <2>5 DEF CountsTyped, TypeOK
<1>2. AtACount /\ NotStarted /\ OneAtACount /\ ReadsHold /\ GapIsExact
  BY DEF CountsInit, AtACount, NotStarted, OneAtACount, ReadsHold, GapIsExact, AtNoCount,
         Applying, Id
<1>3. \A c \in Started : applies[c] = IF count[c].applied THEN 1 ELSE 0
  BY DEF CountsInit, Started
<1>4. Unapplied /\ AppliedOnce
  BY <1>3 DEF CountsInit, Started, Unapplied, AppliedOnce
<1> QED
  BY <1>1, <1>2, <1>4 DEF CountsInv

(***************************************************************************)
(* A post moves the stock and lets every other request drift; the ledger   *)
(* keeps the stock at zero or more.                                        *)
(***************************************************************************)
LEMMA MovedTyped ==
  ASSUME NEW r \in Req, NEW delta \in [Product -> Int],
         stock \in [Product -> Nat], drift \in [Req -> [Product -> Int]],
         Covers(delta), Moved(r, delta)
  PROVE  /\ stock' \in [Product -> Nat] /\ drift' \in [Req -> [Product -> Int]]
         /\ \A p \in Product : stock'[p] = stock[p] + delta[p]
         /\ drift'[r] = drift[r]
         /\ \A q \in Req, p \in Product : q # r => drift'[q][p] = drift[q][p] + delta[p]
  BY DEF Covers, Moved

(***************************************************************************)
(* A post by a request that is at no count leaves the rest as it was.      *)
(***************************************************************************)
LEMMA MoveInv == ASSUME CountsInv, NEW r \in Req, Move(r) PROVE CountsInv'
<1> USE DEF CountsInv
<1>1. PICK p \in Product, d \in Moves :
        /\ Covers([Nothing EXCEPT ![p] = d])
        /\ Moved(r, [Nothing EXCEPT ![p] = d])
  BY DEF Move
<1>2. [Nothing EXCEPT ![p] = d] \in [Product -> Int]
  BY DEF Nothing
<1>3. PICK delta \in [Product -> Int] : Covers(delta) /\ Moved(r, delta)
  BY <1>1, <1>2
<1>4. /\ stock' \in [Product -> Nat] /\ drift' \in [Req -> [Product -> Int]]
      /\ \A x \in Product : stock'[x] = stock[x] + delta[x]
      /\ \A q \in Req, x \in Product : q # r => drift'[q][x] = drift[q][x] + delta[x]
  BY <1>3, MovedTyped DEF CountsTyped, TypeOK
<1>5. /\ stage[r] = "new" /\ stage' = [stage EXCEPT ![r] = "done"]
      /\ job' = [job EXCEPT ![r] = AtNoCount]
      /\ UNCHANGED <<count, applies, overlapped>>
  BY DEF Move, Leave, GoTo
<1>6. AtNoCount \in CountJob
  BY DEF AtNoCount, CountJob, Nothing
<1>7. CountsTyped'
  BY <1>4, <1>5, <1>6 DEF CountsTyped, TypeOK, Stages
<1>8. \A q \in Req : q # r => stage'[q] = stage[q] /\ job'[q] = job[q]
  BY <1>5
<1>9. stage'[r] = "done" /\ job'[r].count = None
  BY <1>5 DEF CountsTyped, AtNoCount
<1>10. AtACount' /\ NotStarted' /\ OneAtACount' /\ ReadsHold'
  <2>1. AtACount' /\ NotStarted'
    BY <1>5, <1>8, <1>9 DEF AtACount, NotStarted, Started, Applying
  <2>2. OneAtACount'
    BY <1>5, <1>8, <1>9 DEF OneAtACount
  <2>3. ReadsHold'
    BY <1>5, <1>8, <1>9 DEF ReadsHold, Applying
  <2> QED
    BY <2>1, <2>2, <2>3
<1>11. Unapplied' /\ AppliedOnce'
  BY <1>5 DEF Unapplied, AppliedOnce, Started
<1>12. GapIsExact'
  <2> SUFFICES ASSUME NEW q \in Req, stage'[q] = "apply", NEW x \in Product
               PROVE  stock'[x] = job'[q].live[x] + drift'[q][x]
    BY DEF GapIsExact
  <2>1. q # r /\ stage[q] = "apply" /\ job'[q] = job[q]
    BY <1>8, <1>9
  <2>2. stock[x] = job[q].live[x] + drift[q][x]
    BY <2>1 DEF GapIsExact
  <2>3. job[q].live[x] \in Int /\ drift[q][x] \in Int
    BY DEF CountsTyped, TypeOK, CountJob
  <2> QED
    BY <1>4, <2>1, <2>2, <2>3
<1> QED
  BY <1>7, <1>10, <1>11, <1>12

(***************************************************************************)
(* Starting a count: its lines are read, then its row is inserted.         *)
(***************************************************************************)
LEMMA ReadLevelsInv == ASSUME CountsInv, NEW r \in Req, ReadLevels(r) PROVE CountsInv'
<1> USE DEF CountsInv
<1>1. PICK active \in SUBSET Product :
        job' = [job EXCEPT ![r].lines =
                  [p \in Product |-> IF p \in active THEN stock[p] ELSE None]]
  BY DEF ReadLevels
<1>2. /\ stage[r] = "new" /\ stage' = [stage EXCEPT ![r] = "create"]
      /\ UNCHANGED <<count, stock, drift, applies, overlapped>>
  BY DEF ReadLevels, GoTo, countsRows, countsGhosts
<1>3. PICK read \in [Product -> Nat \cup {None}] : job' = [job EXCEPT ![r].lines = read]
  BY <1>1 DEF CountsTyped, TypeOK
<1>4. /\ job'[r] = [job[r] EXCEPT !.lines = read] /\ stage'[r] = "create"
      /\ \A q \in Req : q # r => stage'[q] = stage[q] /\ job'[q] = job[q]
  BY <1>2, <1>3 DEF CountsTyped
<1>5. job'[r] \in CountJob /\ job'[r].count = job[r].count
  <2>1. job[r] \in CountJob
    BY DEF CountsTyped
  <2> QED
    BY <1>3, <1>4, <2>1 DEF CountJob
<1>6. job' \in [Req -> CountJob]
  BY <1>3, <1>4, <1>5 DEF CountsTyped
<1>7. CountsTyped'
  BY <1>2, <1>6 DEF CountsTyped, TypeOK, Stages
<1>8. AtACount' /\ NotStarted'
  BY <1>2, <1>4, <1>5 DEF AtACount, NotStarted, Started, Applying
<1>9. ReadsHold'
  BY <1>2, <1>4 DEF ReadsHold, Applying
<1>10. \A q \in Req : job'[q].count = job[q].count
  BY <1>4, <1>5
<1>11. OneAtACount'
  BY <1>2, <1>10 DEF OneAtACount
<1>12. Unapplied' /\ AppliedOnce' /\ GapIsExact'
  BY <1>2, <1>4 DEF Unapplied, AppliedOnce, Started, GapIsExact
<1> QED
  BY <1>7, <1>8, <1>9, <1>11, <1>12

LEMMA CreateCountInv == ASSUME CountsInv, NEW r \in Req, CreateCount(r) PROVE CountsInv'
<1> USE DEF CountsInv
<1>1. /\ stage[r] = "create" /\ stage' = [stage EXCEPT ![r] = "done"]
      /\ job' = [job EXCEPT ![r] = AtNoCount]
      /\ count' = [count EXCEPT ![r] = [applied |-> FALSE, counted |-> job[r].lines]]
      /\ UNCHANGED <<stock, drift, applies, overlapped>>
  BY DEF CreateCount, Leave, GoTo, countsGhosts
<1>2. AtNoCount \in CountJob /\ AtNoCount.count = None
  BY DEF AtNoCount, CountJob, Nothing
<1>3. [applied |-> FALSE, counted |-> job[r].lines] \in Count
  BY DEF CountsTyped, CountJob, Count
<1>4. CountsTyped'
  BY <1>1, <1>2, <1>3 DEF CountsTyped, TypeOK, Stages, Id
<1>5. /\ stage'[r] = "done" /\ job'[r].count = None
      /\ \A q \in Req : q # r => stage'[q] = stage[q] /\ job'[q] = job[q]
  BY <1>1, <1>2 DEF CountsTyped
<1>6. count[r] = None /\ \A c \in Id : c # r => count'[c] = count[c]
  BY <1>1 DEF NotStarted, CountsTyped, TypeOK
<1>7. \A c \in Started : c # r /\ c \in Started' /\ count'[c] = count[c]
  BY <1>6 DEF Started
<1>8. AtACount'
  BY <1>5, <1>7 DEF AtACount, Applying
<1>9. NotStarted' /\ OneAtACount'
  BY <1>1, <1>5, <1>6 DEF NotStarted, OneAtACount, Id
<1>10. ReadsHold'
  BY <1>1, <1>5, <1>7 DEF ReadsHold, AtACount, Applying
<1>11. applies[r] = 0
  BY <1>6 DEF Unapplied, Started, Id
<1>12. Unapplied' /\ AppliedOnce'
  BY <1>1, <1>6, <1>7, <1>11 DEF Unapplied, AppliedOnce, Started
<1>13. GapIsExact'
  BY <1>1, <1>5 DEF GapIsExact
<1> QED
  BY <1>4, <1>8, <1>9, <1>10, <1>12, <1>13

(***************************************************************************)
(* Applying: the count's row, its lines, the live stock, then the writes.  *)
(***************************************************************************)
LEMMA BeginApplyInv == ASSUME CountsInv, NEW r \in Req, BeginApply(r) PROVE CountsInv'
<1> USE DEF CountsInv
<1>1. PICK c \in Started :
        /\ ~count[c].applied
        /\ job' = [job EXCEPT ![r].count = c]
        /\ overlapped' = IF \E q \in Req : job[q].count = c
                        THEN overlapped \cup {c} ELSE overlapped
  BY DEF BeginApply, MayApply
<1>2. /\ stage[r] = "new" /\ stage' = [stage EXCEPT ![r] = "lines"]
      /\ UNCHANGED <<count, stock, drift, applies>>
  BY DEF BeginApply, GoTo, countsRows
<1>3. /\ job'[r] = [job[r] EXCEPT !.count = c] /\ stage'[r] = "lines"
      /\ \A q \in Req : q # r => stage'[q] = stage[q] /\ job'[q] = job[q]
  BY <1>1, <1>2 DEF CountsTyped
<1>4. c \in Id /\ c # None
  BY DEF Started
<1>5. job'[r] \in CountJob /\ job'[r].count = c
  <2>1. job[r] \in CountJob
    BY DEF CountsTyped
  <2> QED
    BY <1>3, <1>4, <2>1 DEF CountJob
<1>6. job' \in [Req -> CountJob]
  <2>1. job \in [Req -> CountJob]
    BY DEF CountsTyped
  <2>2. DOMAIN job' = Req /\ job' = [q \in Req |-> job'[q]]
    BY <1>1, <2>1
  <2> QED
    BY <1>3, <1>5, <2>1, <2>2
<1>7. CountsTyped'
  BY <1>2, <1>6 DEF CountsTyped, TypeOK, Stages
<1>8. AtACount' /\ NotStarted'
  BY <1>2, <1>3, <1>5 DEF AtACount, NotStarted, Started, Applying
<1>9. OneAtACount'
  BY <1>1, <1>3, <1>5 DEF OneAtACount
<1>10. ReadsHold'
  BY <1>1, <1>2, <1>3, <1>5 DEF ReadsHold
<1>11. Unapplied' /\ AppliedOnce' /\ GapIsExact'
  BY <1>1, <1>2, <1>3 DEF Unapplied, AppliedOnce, Started, GapIsExact
<1> QED
  BY <1>7, <1>8, <1>9, <1>10, <1>11

LEMMA ReadLinesInv == ASSUME CountsInv, NEW r \in Req, ReadLines(r) PROVE CountsInv'
<1> USE DEF CountsInv
<1>1. /\ stage[r] = "lines" /\ stage' = [stage EXCEPT ![r] = "live"]
      /\ job' = [job EXCEPT ![r].lines = count[job[r].count].counted]
      /\ UNCHANGED <<count, stock, drift, applies, overlapped>>
  BY DEF ReadLines, GoTo, countsRows, countsGhosts
<1>2. /\ job'[r] = [job[r] EXCEPT !.lines = count[job[r].count].counted]
      /\ stage'[r] = "live"
      /\ \A q \in Req : q # r => stage'[q] = stage[q] /\ job'[q] = job[q]
  BY <1>1 DEF CountsTyped
<1>3. job[r].count \in Started /\ job[r] \in CountJob
  BY <1>1 DEF AtACount, CountsTyped, Applying
<1>4. count[job[r].count] \in Count
  BY <1>3 DEF CountsTyped, TypeOK, Started
<1>5. /\ job'[r] \in CountJob /\ job'[r].count = job[r].count
      /\ job'[r].lines = count[job[r].count].counted
  BY <1>2, <1>3, <1>4 DEF CountJob, Count
<1>6. job' \in [Req -> CountJob]
  BY <1>1, <1>2, <1>5 DEF CountsTyped
<1>7. CountsTyped'
  BY <1>1, <1>6 DEF CountsTyped, TypeOK, Stages
<1>8. AtACount' /\ NotStarted'
  BY <1>1, <1>2, <1>5 DEF AtACount, NotStarted, Started, Applying
<1>9. \A q \in Req : job'[q].count = job[q].count
  BY <1>2, <1>5
<1>10. OneAtACount'
  BY <1>1, <1>9 DEF OneAtACount
<1>11. ReadsHold'
  BY <1>1, <1>2, <1>5 DEF ReadsHold, Applying
<1>12. Unapplied' /\ AppliedOnce' /\ GapIsExact'
  BY <1>1, <1>2 DEF Unapplied, AppliedOnce, Started, GapIsExact
<1> QED
  BY <1>7, <1>8, <1>10, <1>11, <1>12

LEMMA ReadLiveInv == ASSUME CountsInv, NEW r \in Req, ReadLive(r) PROVE CountsInv'
<1> USE DEF CountsInv
<1>1. /\ stage[r] = "live" /\ stage' = [stage EXCEPT ![r] = "apply"]
      /\ job' = [job EXCEPT ![r].live = stock]
      /\ drift' = [drift EXCEPT ![r] = Nothing]
      /\ UNCHANGED <<count, stock, applies, overlapped>>
  BY DEF ReadLive, Live, GoTo, countsRows
<1>2. /\ job'[r] = [job[r] EXCEPT !.live = stock]
      /\ stage'[r] = "apply" /\ drift'[r] = Nothing
      /\ \A q \in Req : q # r => /\ stage'[q] = stage[q] /\ job'[q] = job[q]
                                /\ drift'[q] = drift[q]
  BY <1>1 DEF CountsTyped, TypeOK
<1>3. /\ job'[r] \in CountJob /\ job'[r].count = job[r].count
      /\ job'[r].lines = job[r].lines /\ job'[r].live = stock
  <2>1. job[r] \in CountJob /\ stock \in [Product -> Nat]
    BY DEF CountsTyped, TypeOK
  <2> QED
    BY <1>2, <2>1 DEF CountJob
<1>4. job' \in [Req -> CountJob]
  BY <1>1, <1>2, <1>3 DEF CountsTyped
<1>5. Nothing \in [Product -> Int]
  BY DEF Nothing
<1>6. CountsTyped'
  BY <1>1, <1>4, <1>5 DEF CountsTyped, TypeOK, Stages
<1>7. AtACount' /\ NotStarted'
  BY <1>1, <1>2, <1>3 DEF AtACount, NotStarted, Started, Applying
<1>8. \A q \in Req : job'[q].count = job[q].count
  BY <1>2, <1>3
<1>9. OneAtACount'
  BY <1>1, <1>8 DEF OneAtACount
<1>10. ReadsHold'
  BY <1>1, <1>2, <1>3 DEF ReadsHold, Applying
<1>11. Unapplied' /\ AppliedOnce'
  BY <1>1 DEF Unapplied, AppliedOnce, Started
<1>12. GapIsExact'
  <2>1. \A p \in Product : stock[p] = stock[p] + Nothing[p]
    BY DEF CountsTyped, TypeOK, Nothing
  <2> QED
    BY <1>1, <1>2, <1>3, <2>1 DEF GapIsExact
<1> QED
  BY <1>6, <1>7, <1>9, <1>10, <1>11, <1>12

LEMMA FailInv == ASSUME CountsInv, NEW r \in Req, FailCount(r) PROVE CountsInv'
<1> USE DEF CountsInv
<1>1. /\ stage' = [stage EXCEPT ![r] = "failed"] /\ job' = [job EXCEPT ![r] = AtNoCount]
      /\ UNCHANGED <<count, stock, drift, applies, overlapped>>
  BY DEF FailCount, Leave, GoTo, countsRows, countsGhosts
<1>2. AtNoCount \in CountJob /\ AtNoCount.count = None
  BY DEF AtNoCount, CountJob, Nothing
<1>3. /\ stage'[r] = "failed" /\ job'[r].count = None
      /\ \A q \in Req : q # r => stage'[q] = stage[q] /\ job'[q] = job[q]
  BY <1>1, <1>2 DEF CountsTyped
<1>4. CountsTyped'
  BY <1>1, <1>2 DEF CountsTyped, TypeOK, Stages
<1>5. AtACount' /\ NotStarted' /\ OneAtACount' /\ ReadsHold'
  <2>1. AtACount' /\ NotStarted'
    BY <1>1, <1>3 DEF AtACount, NotStarted, Started, Applying
  <2>2. OneAtACount'
    BY <1>1, <1>3 DEF OneAtACount
  <2>3. ReadsHold'
    BY <1>1, <1>3 DEF ReadsHold, Applying
  <2> QED
    BY <2>1, <2>2, <2>3
<1>6. Unapplied' /\ AppliedOnce' /\ GapIsExact'
  BY <1>1, <1>3 DEF Unapplied, AppliedOnce, Started, GapIsExact
<1> QED
  BY <1>4, <1>5, <1>6

(***************************************************************************)
(* What an apply does: each line ends at the quantity "now", and the stock *)
(* moves by what lies between the live read and that.                      *)
(***************************************************************************)
LEMMA ApplyEffect ==
  ASSUME CountsInv, NEW r \in Req, Apply(r)
  PROVE  \E now \in [Product -> Nat \cup {None}], delta \in [Product -> Int] :
           /\ \A p \in Product :
                /\ job[r].lines[p] = None => now[p] = None /\ delta[p] = 0
                /\ job[r].lines[p] # None =>
                     now[p] \in Nat /\ delta[p] = now[p] - job[r].live[p]
           /\ Covers(delta) /\ Moved(r, delta)
           /\ count' = [count EXCEPT ![job[r].count] =
                          [applied |-> TRUE, counted |-> Kept(r, now)]]
<1> DEFINE listed == {p \in Product : job[r].lines[p] # None}
           now(typed) == [p \in Product |-> IF p \in listed /\ typed[p] # None
                                            THEN typed[p] ELSE job[r].lines[p]]
           delta(typed) == [p \in Product |-> IF p \in listed
                                              THEN now(typed)[p] - job[r].live[p] ELSE 0]
<1>1. PICK typed \in [listed -> Quantities \cup {None}] :
        /\ Covers(delta(typed)) /\ Moved(r, delta(typed))
        /\ count' = [count EXCEPT ![job[r].count] =
                       [applied |-> TRUE, counted |-> Kept(r, now(typed))]]
  BY Zenon DEF Apply
<1>2. job[r].lines \in [Product -> Nat \cup {None}] /\ job[r].live \in [Product -> Nat]
  <2>1. job[r] \in CountJob
    BY DEF CountsInv, CountsTyped
  <2> QED
    BY <2>1 DEF CountJob
<1>3. \A p \in listed : typed[p] # None => typed[p] \in Nat
  OBVIOUS
<1>4. now(typed) \in [Product -> Nat \cup {None}]
  BY <1>2, <1>3
<1>5. \A p \in Product :
        /\ job[r].lines[p] = None => now(typed)[p] = None /\ delta(typed)[p] = 0
        /\ job[r].lines[p] # None =>
             now(typed)[p] \in Nat /\ delta(typed)[p] = now(typed)[p] - job[r].live[p]
  BY <1>2, <1>3
<1>6. delta(typed) \in [Product -> Int]
  BY <1>2, <1>5
<1> HIDE DEF now, delta
<1> QED
  BY <1>1, <1>4, <1>5, <1>6

LEMMA ApplyInv == ASSUME CountsInv, NEW r \in Req, Apply(r) PROVE CountsInv'
<1> USE DEF CountsInv
<1>1. PICK now \in [Product -> Nat \cup {None}], delta \in [Product -> Int] :
        /\ Covers(delta) /\ Moved(r, delta)
        /\ count' = [count EXCEPT ![job[r].count] =
                       [applied |-> TRUE, counted |-> Kept(r, now)]]
  BY ApplyEffect
<1>2. PICK c \in Started : c = job[r].count
  BY DEF AtACount, Apply, Applying
<1>3. /\ stage[r] = "apply" /\ stage' = [stage EXCEPT ![r] = "done"]
      /\ job' = [job EXCEPT ![r] = AtNoCount]
      /\ applies' = [applies EXCEPT ![c] = @ + 1]
      /\ overlapped' = overlapped
  BY <1>2 DEF Apply, Leave, GoTo
<1>4. /\ stock' \in [Product -> Nat] /\ drift' \in [Req -> [Product -> Int]]
      /\ \A x \in Product : stock'[x] = stock[x] + delta[x]
      /\ \A q \in Req, x \in Product : q # r => drift'[q][x] = drift[q][x] + delta[x]
  BY <1>1, MovedTyped DEF CountsTyped, TypeOK
<1>5. c \in Id /\ count[c] \in Count
  BY DEF Started, CountsTyped, TypeOK
<1>6. Kept(r, now) \in [Product -> Nat \cup {None}]
  <2>1. count[c].counted \in [Product -> Nat \cup {None}]
    BY <1>5 DEF Count
  <2> QED
    BY <1>2, <2>1 DEF Kept
<1>7. PICK written \in Count : written.applied /\ count' = [count EXCEPT ![c] = written]
  BY <1>1, <1>2, <1>6 DEF Count
<1>8. AtNoCount \in CountJob /\ AtNoCount.count = None
  BY DEF AtNoCount, CountJob, Nothing
<1>9. CountsTyped'
  <2>1. count' \in [Id -> Count \cup {None}]
    BY <1>7 DEF CountsTyped, TypeOK
  <2>2. stage' \in [Req -> Stages] /\ job' \in [Req -> CountJob]
    BY <1>3, <1>8 DEF CountsTyped, Stages
  <2>3. applies' \in [Id -> Nat]
    <3>1. applies \in [Id -> Nat] /\ applies[c] + 1 \in Nat
      BY <1>5 DEF CountsTyped, TypeOK
    <3> QED
      BY <1>3, <3>1
  <2> QED
    BY <1>4, <2>1, <2>2, <2>3 DEF CountsTyped, TypeOK
<1>10. /\ stage'[r] = "done" /\ job'[r].count = None
       /\ \A q \in Req : q # r => stage'[q] = stage[q] /\ job'[q] = job[q]
  BY <1>3, <1>8 DEF CountsTyped
<1>11. /\ count'[c] = written
       /\ \A d \in Id : d # c => count'[d] = count[d]
  BY <1>5, <1>7 DEF CountsTyped, TypeOK
<1>12. Started' = Started
  BY <1>5, <1>11, NoneAssumption DEF Started
<1>13. AtACount' /\ OneAtACount'
  BY <1>3, <1>10, <1>12 DEF AtACount, OneAtACount, Applying
<1>14. NotStarted'
  BY <1>10, <1>11, <1>12 DEF NotStarted, Started, Id
<1>15. ReadsHold'
  <2> SUFFICES ASSUME NEW q \in Req, stage'[q] \in Applying, job'[q].count \notin overlapped'
               PROVE  /\ ~count'[job'[q].count].applied
                      /\ stage'[q] # "lines" => job'[q].lines = count'[job'[q].count].counted
    BY DEF ReadsHold
  <2>1. q # r /\ stage[q] \in Applying /\ job'[q] = job[q]
    BY <1>10 DEF Applying
  <2>2. job[q].count \in Started /\ job[q].count # c
    BY <1>2, <1>3, <2>1, NoneAssumption DEF AtACount, OneAtACount, Started
  <2>3. count'[job[q].count] = count[job[q].count]
    BY <1>11, <2>2 DEF Started
  <2> QED
    BY <1>3, <1>10, <2>1, <2>3 DEF ReadsHold
<1>16. Unapplied'
  BY <1>3, <1>7, <1>11, <1>12 DEF Unapplied, Started, CountsTyped, TypeOK
<1>17. AppliedOnce'
  <2> SUFFICES ASSUME NEW d \in Started, d \notin overlapped PROVE applies'[d] =< 1
    BY <1>3, <1>12 DEF AppliedOnce
  <2>1. CASE d # c
    BY <1>3, <2>1 DEF AppliedOnce, Started, CountsTyped, TypeOK
  <2>2. CASE d = c
    <3>1. ~count[c].applied
      BY <1>2, <1>3, <2>2 DEF ReadsHold, Applying
    <3>2. applies[c] = 0
      BY <1>5, <3>1 DEF Unapplied
    <3> QED
      BY <1>3, <1>5, <2>2, <3>2 DEF CountsTyped, TypeOK
  <2> QED
    BY <2>1, <2>2
<1>18. GapIsExact'
  <2> SUFFICES ASSUME NEW q \in Req, stage'[q] = "apply", NEW x \in Product
               PROVE  stock'[x] = job'[q].live[x] + drift'[q][x]
    BY DEF GapIsExact
  <2>1. q # r /\ stage[q] = "apply" /\ job'[q] = job[q]
    BY <1>10
  <2>2. stock[x] = job[q].live[x] + drift[q][x]
    BY <2>1 DEF GapIsExact
  <2>3. job[q].live[x] \in Int /\ drift[q][x] \in Int
    BY DEF CountsTyped, TypeOK, CountJob
  <2> QED
    BY <1>4, <2>1, <2>2, <2>3
<1> QED
  BY <1>9, <1>13, <1>14, <1>15, <1>16, <1>17, <1>18

(***************************************************************************)
(* Every reachable state satisfies the invariant.                          *)
(***************************************************************************)
LEMMA CountsNextInv == CountsInv /\ [CountsNext]_countsVars => CountsInv'
<1> SUFFICES ASSUME CountsInv, [CountsNext]_countsVars PROVE CountsInv'
  OBVIOUS
<1>1. CASE UNCHANGED countsVars
  BY <1>1 DEF countsVars, countsRows, countsGhosts, CountsInv, CountsTyped, TypeOK, AtACount,
         NotStarted, OneAtACount, ReadsHold, Unapplied, AppliedOnce, GapIsExact, Started
<1>2. CASE CountsNext
  BY <1>1, <1>2, MoveInv, ReadLevelsInv, CreateCountInv, BeginApplyInv, ReadLinesInv,
     ReadLiveInv, ApplyInv, FailInv DEF CountsNext, AllCounted
<1> QED
  BY <1>1, <1>2

(***************************************************************************)
(* The inductive invariant: what a lone apply read of its count is still   *)
(* so when it writes, and the live stock it read differs from the stock by *)
(* what others moved.                                                      *)
(***************************************************************************)
THEOREM CountsInvariance == CountsSpec => []CountsInv
  BY CountsInitInv, CountsNextInv, PTL DEF CountsSpec

(***************************************************************************)
(* An apply always holds the exact gap, whatever sales and other applies   *)
(* commit around it.                                                       *)
(***************************************************************************)
THEOREM Gap == CountsSpec => []GapIsExact
<1>1. CountsInv => GapIsExact
  BY DEF CountsInv
<1> QED
  BY <1>1, CountsInvariance, PTL

(***************************************************************************)
(* An apply corrects the exact gap, and a count that no two applies were   *)
(* at once is applied once.                                                *)
(***************************************************************************)
THEOREM Once == CountsSpec => []CorrectsOnce
<1>1. CountsInv => CorrectsOnce
  BY DEF CountsInv, CorrectsOnce
<1> QED
  BY <1>1, CountsInvariance, PTL

(***************************************************************************)
(* The lines of a count nobody else applies tell the stock once it is      *)
(* applied, up to what others moved since the live read.                   *)
(***************************************************************************)
LEMMA ApplyTells ==
  ASSUME CountsInv, NEW r \in Req, NEW c \in Started \ overlapped,
         Apply(r), job[r].count = c, NEW p \in Product,
         count'[c].counted[p] # None
  PROVE  stock'[p] = count'[c].counted[p] + drift[r][p]
<1> USE DEF CountsInv
<1>1. PICK now \in [Product -> Nat \cup {None}], delta \in [Product -> Int] :
        /\ job[r].lines[p] = None => now[p] = None
        /\ job[r].lines[p] # None => now[p] \in Nat /\ delta[p] = now[p] - job[r].live[p]
        /\ Covers(delta) /\ Moved(r, delta)
        /\ count' = [count EXCEPT ![c] = [applied |-> TRUE, counted |-> Kept(r, now)]]
  BY ApplyEffect
<1>2. stage[r] = "apply" /\ job[r].lines = count[c].counted
  BY DEF Apply, ReadsHold, Applying
<1>3. count'[c].counted[p] = now[p]
  <2>1. count'[c].counted = Kept(r, now)
    BY <1>1 DEF CountsTyped, TypeOK, Started
  <2> QED
    BY <1>2, <2>1 DEF Kept
<1>4. now[p] \in Nat /\ delta[p] = now[p] - job[r].live[p]
  BY <1>1, <1>3
<1>5. stock'[p] = stock[p] + delta[p]
  BY <1>1, MovedTyped DEF CountsTyped, TypeOK
<1>6. stock[p] = job[r].live[p] + drift[r][p]
  BY <1>2 DEF GapIsExact
<1>7. job[r].live[p] \in Int /\ drift[r][p] \in Int
  BY DEF CountsTyped, TypeOK, CountJob
<1> QED
  BY <1>3, <1>4, <1>5, <1>6, <1>7

(***************************************************************************)
(* After an apply the lines of its count say what the stock is.            *)
(***************************************************************************)
THEOREM LinesTell == CountsSpec => LinesTellTheStock
<1>1. ASSUME CountsInv, [CountsNext]_countsVars
      PROVE  [\A r \in Req, c \in Started \ overlapped : Applied(r, c) =>
                \A p \in Product : count'[c].counted[p] # None =>
                  stock'[p] = count'[c].counted[p] + drift[r][p]]_countsVars
  <2> SUFFICES ASSUME NEW r \in Req, NEW c \in Started \ overlapped, Applied(r, c),
                      NEW p \in Product, count'[c].counted[p] # None
               PROVE  stock'[p] = count'[c].counted[p] + drift[r][p]
    OBVIOUS
  <2>1. stage \in [Req -> Stages] /\ stage[r] = "apply" /\ stage'[r] = "done"
    BY <1>1 DEF CountsInv, CountsTyped, Applied
  <2>2. ASSUME NEW x \in Req
        PROVE  ~(\/ Move(x) \/ ReadLevels(x) \/ CreateCount(x) \/ BeginApply(x)
                 \/ ReadLines(x) \/ ReadLive(x) \/ FailCount(x))
    BY <2>1 DEF Move, ReadLevels, CreateCount, BeginApply, ReadLines, ReadLive, FailCount,
                Leave, GoTo
  <2>3. ASSUME NEW x \in Req, Apply(x) PROVE x = r
    BY <2>1, <2>3 DEF Apply, Leave, GoTo
  <2>4. CountsNext
    BY <1>1, <2>1 DEF countsVars
  <2>5. Apply(r)
    BY <2>1, <2>2, <2>3, <2>4 DEF CountsNext, AllCounted, countsVars
  <2> QED
    BY <1>1, <2>5, ApplyTells DEF Applied
<1> QED
  BY <1>1, CountsInvariance, PTL DEF CountsSpec, LinesTellTheStock
=============================================================================
