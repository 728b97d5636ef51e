--------------------------- MODULE SalesDocuments ----------------------------
(***************************************************************************)
(* The invoices and estimates of one business, and the requests that       *)
(* create, edit, pay, cancel and delete them.  Every request is one READ   *)
(* COMMITTED transaction: it reads the document, or the last number given, *)
(* decides, and writes.  Its first write locks the header, so its writes   *)
(* and its commit are one step; the DELETE of an edit, which removes the   *)
(* lines its own snapshot shows, is a read of its own.                     *)
(*                                                                         *)
(* A line is its amount with VAT before its own discount, as               *)
(* computeLineTotals has it of the body, and that discount.  Money is      *)
(* counted in cents, as round2 and the numeric(14,2) columns keep it; a    *)
(* payment, which nobody rounds before the UPDATE, in tenths of a cent.    *)
(***************************************************************************)
EXTENDS Handlers, Integers, FiniteSetsExt

CONSTANTS
  Doc0,         \* headers of those of Seed; each has one line worth its gross
  Bodies,       \* <<amount, discount>> of the one line of a body
  Discounts,    \* discounts of a whole document in a body
  Amounts,      \* payments, in tenths of a cent
  Chosen        \* statuses a user may choose in a body

InvoiceStatus  == {"draft", "sent", "partial", "paid", "overdue", "cancelled"}
EstimateStatus == {"draft", "sent", "accepted", "rejected", "expired", "cancelled"}

(* findDetail's header.  An estimate has no paid: it stays 0.              *)
Invoice  == [kind : {"invoice"}, number : Nat, status : InvoiceStatus,
             gross : Nat, discount : Nat, total : Nat, paid : Nat]
Estimate == [kind : {"estimate"}, number : Nat, status : EstimateStatus,
             gross : Nat, discount : Nat, total : Nat, paid : {0}]

(* What the status of an invoice tells of the money on it: paid in full,   *)
(* a cent over at most; less than the total; or nothing.                   *)
TellsMoney(row) == CASE row.status = "paid"    -> row.paid \in row.total .. row.total + 1
                     [] row.status = "partial" -> row.paid < row.total
                     [] OTHER                  -> row.paid = 0

ASSUME DocumentsAssumption ==
  /\ Seed \cap Req = {} /\ Doc0 \in [Seed -> Invoice \cup Estimate]
  /\ None \notin Invoice \cup Estimate
  /\ \A d \in Seed : /\ Doc0[d].total = Doc0[d].gross - Doc0[d].discount
                     /\ Doc0[d].kind = "invoice" => TellsMoney(Doc0[d])
  /\ Bodies \subseteq Nat \X Nat /\ Discounts \subseteq Nat
  /\ Amounts \subseteq Nat \ {0}

VARIABLES
  doc,        \* app.invoices and app.estimates
  lines,      \* their lines, each with the request that wrote it
  income,     \* payments accepted per document (history variable)
  byHand,     \* documents whose status was last chosen by a user (history)
  contended,  \* documents that two requests were at once (history)
  overtaken   \* requests whose number another one took (history)

database == <<doc, lines>>
ghosts   == <<income, byHand, contended, overtaken>>
vars     == <<database, stage, job, ghosts>>

(* A job: what it does, to which document, and what it has read.           *)
Idle == [op |-> "none", id |-> None, seen |-> None, lines |-> {}, last |-> 0]

-----------------------------------------------------------------------------
(* computeLineTotals: a discount never makes a line negative.              *)
LineTtc(l) == Max({0, l.amount - l.discount})
Gross(ls)  == MapThenSumSet(LineTtc, ls)
Line(r, body) == [by |-> r, amount |-> body[1], discount |-> body[2]]

Existing(kind) == {d \in Id : doc[d] # None /\ doc[d].kind = kind}
Numbers(kind)  == {doc[d].number : d \in Existing(kind)}

(* A number is written with at least four digits and compared as text:     *)
(* 10000 comes before 9999.  Bound: fewer than 100000 documents a year.    *)
Before(m, n) == CASE m < 10000 /\ n >= 10000 -> m =< n \div 10
                  [] m >= 10000 /\ n < 10000 -> m \div 10 < n
                  [] OTHER -> m < n

(* findLastNumber orders the numbers by their text and takes the greatest. *)
LastNumber(kind, n) ==
  \/ Numbers(kind) = {} /\ n = 0
  \/ n \in Numbers(kind) /\ \A m \in Numbers(kind) : m = n \/ Before(m, n)
(* Seeded faults, here and below: definitions with a plausible bug, used   *)
(* only to show that the properties notice it.  Here: no counting up.      *)
SameNumber(last) == IF last = 0 THEN 1 ELSE last
NextNumber(last) == last + 1

-----------------------------------------------------------------------------
Init ==
  /\ doc = [d \in Id |-> IF d \in Seed THEN Doc0[d] ELSE None]
  /\ lines = [d \in Id |-> IF d \notin Seed THEN {}
                           ELSE {Line(None, <<Doc0[d].gross, 0>>)}]
  /\ stage = [r \in Req |-> "new"]
  /\ job = [r \in Req |-> Idle]
  /\ income = [d \in Id |-> IF d \in Seed THEN Doc0[d].paid ELSE 0]
  /\ byHand = {} /\ contended = {} /\ overtaken = {}

(* Request r starts an operation on document d, which it has read as it is.*)
Take(r, op, d, next) ==
  /\ stage[r] = "new"
  /\ job' = [job EXCEPT ![r] = [Idle EXCEPT !.op = op, !.id = d, !.seen = doc[d]]]
  /\ stage' = [stage EXCEPT ![r] = next]
  /\ contended' = IF \E q \in Req : job[q].id = d THEN contended \cup {d} ELSE contended
  /\ UNCHANGED <<database, income, byHand, overtaken>>

(* findDetail of each repository; get and list answer with the same row.   *)
ReadInvoice(r) ==
  \E d \in Existing("invoice"), op \in {"update", "pay", "cancel", "setStatus"} :
    Take(r, op, d, IF op = "update" THEN "delete" ELSE "write")
ReadEstimate(r) ==
  \E d \in Existing("estimate"), op \in {"update", "cancel", "remove"} :
    Take(r, op, d, IF op = "update" THEN "delete" ELSE "write")

ReadLastNumber(r) ==
  /\ stage[r] = "new"
  /\ \E kind \in {"invoice", "estimate"} : \E last \in Numbers(kind) \cup {0} :
       /\ LastNumber(kind, last)
       /\ job' = [job EXCEPT ![r] = [Idle EXCEPT !.op = kind, !.last = last]]
  /\ stage' = [stage EXCEPT ![r] = "insert"]
  /\ UNCHANGED <<database, ghosts>>

(* The lines the DELETE of an edit finds.                                  *)
DeleteLines(r) ==
  /\ stage[r] = "delete"
  /\ job' = [job EXCEPT ![r].lines = lines[job[r].id]]
  /\ stage' = [stage EXCEPT ![r] = "write"]
  /\ UNCHANGED <<database, ghosts>>

End(r, outcome) == /\ stage' = [stage EXCEPT ![r] = outcome]
                   /\ job' = [job EXCEPT ![r] = Idle]

-----------------------------------------------------------------------------
(* The header of a new document and its lines, all or nothing: the unique  *)
(* key of (business, number) aborts a request whose number was taken.      *)
Insert(r, kind, status) ==
  /\ stage[r] = "insert" /\ job[r].op = kind
  /\ NextNumber(job[r].last) \notin Numbers(kind)
  /\ \E body \in Bodies, discount \in Discounts :
       LET ls == {Line(r, body)}
       IN  /\ discount =< Gross(ls)
           /\ lines' = [lines EXCEPT ![r] = ls]
           /\ doc' = [doc EXCEPT ![r] =
                [kind |-> kind, number |-> NextNumber(job[r].last), status |-> status,
                 gross |-> Gross(ls), discount |-> discount,
                 total |-> Gross(ls) - discount, paid |-> 0]]
  /\ overtaken' = overtaken \cup {q \in Req \ {r} : stage[q] = "insert" /\ job[q].op = kind}
  /\ End(r, "done")
  /\ UNCHANGED <<income, contended>>

CreateInvoice(r) ==
  \E status \in Chosen \cap InvoiceStatus :
    /\ Insert(r, "invoice", status)
    /\ byHand' = IF status = "draft" THEN byHand ELSE byHand \cup {r}

CreateEstimate(r) == Insert(r, "estimate", "draft") /\ UNCHANGED byHand

NumberTaken(r) ==
  /\ stage[r] = "insert" /\ NextNumber(job[r].last) \in Numbers(job[r].op)
  /\ End(r, "refused")
  /\ UNCHANGED <<database, ghosts>>

-----------------------------------------------------------------------------
Writing(r, kind, op) == stage[r] = "write" /\ job[r].op = op /\ job[r].seen.kind = kind

(* Fault: the discount is kept in its column but not in the total.         *)
ResumForgetful(d, gross, discount) ==
  doc' = [doc EXCEPT ![d].gross = gross, ![d].total = gross]
(* What an edit writes: the sums of new lines, or another discount on the  *)
(* sums that were read; the columns the body does not name stay.           *)
Resum(d, gross, discount) ==
  /\ discount =< gross
  /\ doc' = [doc EXCEPT ![d].gross = gross, ![d].discount = discount,
                        ![d].total = gross - discount]

NewLines(r, d) ==
  \E body \in Bodies, discount \in Discounts \cup {job[r].seen.discount} :
    LET ls == {Line(r, body)}
    IN  /\ lines' = [lines EXCEPT ![d] = (@ \ job[r].lines) \cup ls]
        /\ Resum(d, Gross(ls), discount)
NewDiscount(r, d) ==
  LET gross == job[r].seen.gross
  IN  \E discount \in Discounts :
        /\ discount =< gross
        /\ doc' = [doc EXCEPT ![d].discount = discount, ![d].total = gross - discount]
        /\ UNCHANGED lines
NewStatus(d, statuses) ==
  \E status \in statuses : doc' = [doc EXCEPT ![d].status = status]

(* A body changes the lines, the discount or the status; one that changes  *)
(* two at once writes what two bodies in a row would.                      *)
UpdateInvoice(r) ==
  LET d == job[r].id
  IN  /\ Writing(r, "invoice", "update") /\ job[r].seen.status = "draft"
      /\ \/ NewLines(r, d) /\ UNCHANGED byHand
         \/ NewDiscount(r, d) /\ UNCHANGED byHand
         \/ NewStatus(d, Chosen \cap InvoiceStatus) /\ byHand' = byHand \cup {d}
            /\ UNCHANGED lines
      /\ End(r, "done")
      /\ UNCHANGED <<income, contended, overtaken>>

(* An estimate is edited in any status; one deleted meanwhile is not found *)
(* by the read that follows, which fails the request.                      *)
UpdateEstimate(r) ==
  LET d == job[r].id
  IN  /\ Writing(r, "estimate", "update") /\ doc[d] # None
      /\ \/ NewLines(r, d)
         \/ NewDiscount(r, d)
         \/ NewStatus(d, Chosen \cap EstimateStatus) /\ UNCHANGED lines
      /\ End(r, "done")
      /\ UNCHANGED ghosts

(* What a numeric(14,2) column keeps of an amount: half a cent is a cent.  *)
Cents(amount) == (amount + 5) \div 10

(* Fault: the sum that was read is counted up from.                        *)
PaidFromRead(r, amount) == job[r].seen.paid + Cents(amount)
Paid(r, amount) == doc[job[r].id].paid + Cents(amount)

(* Fault: the tolerance is half a dirham.                                  *)
AcceptedLoosely(row, amount) == amount =< 10 * (row.total - row.paid) + 500
(* What remains to pay is exceeded by no more than half a cent.            *)
Accepted(row, amount) == amount =< 10 * (row.total - row.paid) + 5

(* The amount is compared with what was read; the UPDATE adds it to what   *)
(* is there, and the status follows from the row read after it.            *)
RecordPayment(r) ==
  LET d == job[r].id
      seen == job[r].seen
  IN  /\ Writing(r, "invoice", "pay") /\ seen.status # "cancelled"
      /\ \E amount \in Amounts :
           /\ Accepted(seen, amount)
           /\ doc' = [doc EXCEPT ![d].paid = Paid(r, amount),
                        ![d].status = IF Paid(r, amount) >= doc[d].total
                                      THEN "paid" ELSE "partial"]
           /\ income' = [income EXCEPT ![d] = @ + Cents(amount)]
      /\ byHand' = byHand \ {d}
      /\ End(r, "done")
      /\ UNCHANGED <<lines, contended, overtaken>>

(* Fault: only a fully paid invoice is refused.                            *)
MayCancelUnpaid(row) == row.status # "paid"
MayCancel(row) == row.status # "paid" /\ row.paid = 0

CancelInvoice(r) ==
  LET d == job[r].id
  IN  /\ Writing(r, "invoice", "cancel") /\ MayCancel(job[r].seen)
      /\ doc' = [doc EXCEPT ![d].status = "cancelled"]
      /\ byHand' = byHand \ {d}
      /\ End(r, "done")
      /\ UNCHANGED <<lines, income, contended, overtaken>>

(* PATCH /invoices/:id/status writes any status over any other.            *)
SetStatus(r) ==
  /\ Writing(r, "invoice", "setStatus")
  /\ NewStatus(job[r].id, Chosen \cap InvoiceStatus)
  /\ byHand' = byHand \cup {job[r].id}
  /\ End(r, "done")
  /\ UNCHANGED <<lines, income, contended, overtaken>>

CancelEstimate(r) ==
  LET d == job[r].id
  IN  /\ Writing(r, "estimate", "cancel") /\ job[r].seen.status # "cancelled"
      /\ doc[d] # None
      /\ doc' = [doc EXCEPT ![d].status = "cancelled"]
      /\ End(r, "done")
      /\ UNCHANGED <<lines, ghosts>>

MayRemove(row) == row.status = "draft"

(* The lines go first, then the header; deleting nothing is no error.      *)
RemoveEstimate(r) ==
  LET d == job[r].id
  IN  /\ Writing(r, "estimate", "remove") /\ MayRemove(job[r].seen)
      /\ doc' = [doc EXCEPT ![d] = None]
      /\ lines' = [lines EXCEPT ![d] = {}]
      /\ End(r, "done")
      /\ UNCHANGED ghosts

(* A check refuses the request, or its transaction is lost: it rolls back. *)
Fail(r) == /\ stage[r] \in {"insert", "delete", "write"}
           /\ End(r, "failed")
           /\ UNCHANGED <<database, ghosts>>

AllAnswered == (\A r \in Req : stage[r] \in Over) /\ UNCHANGED vars

Next ==
  \/ \E r \in Req :
       \/ ReadInvoice(r) \/ ReadEstimate(r) \/ ReadLastNumber(r) \/ DeleteLines(r)
       \/ CreateInvoice(r) \/ CreateEstimate(r) \/ NumberTaken(r)
       \/ UpdateInvoice(r) \/ RecordPayment(r) \/ CancelInvoice(r) \/ SetStatus(r)
       \/ UpdateEstimate(r) \/ CancelEstimate(r) \/ RemoveEstimate(r) \/ Fail(r)
  \/ AllAnswered

Spec == Init /\ [][Next]_vars

-----------------------------------------------------------------------------
Quiet(kind) == Existing(kind) \ contended

(***************************************************************************)
(* A payment is added by the UPDATE to what the row holds then, so the     *)
(* paid sum of an invoice is what was accepted for it, each payment as the *)
(* cents the column takes in, whatever overlaps.                           *)
(***************************************************************************)
PaidIsIncome == \A d \in Existing("invoice") : doc[d].paid = income[d]

(***************************************************************************)
(* The status of an invoice tells the money on it, unless a user chose the *)
(* status or two requests were at it at once: "paid" is paid in full, with *)
(* a cent too much at most, for the tolerance of half a cent is rounded    *)
(* up; "partial" lacks something of the total, be it all of it, for less   *)
(* than half a cent is accepted and kept as none; a draft or a cancelled   *)
(* one has no money.                                                       *)
(***************************************************************************)
StatusTellsMoney == \A d \in Quiet("invoice") \ byHand : TellsMoney(doc[d])

(***************************************************************************)
(* The total a customer is asked for is what the lines say less the        *)
(* discount, and never negative, for documents nobody edited at once: two  *)
(* overlapping edits leave the lines of both.                              *)
(***************************************************************************)
TotalsAddUp ==
  \A d \in Quiet("invoice") \cup Quiet("estimate") :
    /\ doc[d].total = doc[d].gross - doc[d].discount
    /\ doc[d].total >= 0
    /\ doc[d].gross = Gross(lines[d])

(***************************************************************************)
(* "Sequential per-business, per-year" (nextNumber): a request that asks   *)
(* for a number gets a fresh one, unless another one took it meanwhile, or *)
(* 9999 is the last one it found: the text order finds 9999 as long as it  *)
(* is in use, and 10000 is given out once.                                 *)
(***************************************************************************)
NumbersFollow ==
  [][\A r \in Req : NumberTaken(r) => r \in overtaken \/ job[r].last = 9999]_vars
=============================================================================
