--------------------------- MODULE DeliveryNotes ---------------------------
(***************************************************************************)
(* The delivery notes of one business (bons: BC "order", BL "out", BR      *)
(* "in_", RT "retour") and the requests that read, edit, sign, pay and     *)
(* return them.  Every request is one READ COMMITTED transaction: it reads *)
(* the note's row, then its lines, then what else it needs, each with a    *)
(* statement of its own, decides, and only then writes.                    *)
(*                                                                         *)
(* From its first write to its commit a handler reads nothing others can   *)
(* change, and the rows it wrote stay locked, so its writes and its commit *)
(* are one step, taken in commit order.  The exception is the DELETE of    *)
(* update, which removes the lines its own snapshot shows: it is a read.   *)
(*                                                                         *)
(* There is one product, at unit price 1, in the default warehouse, so a   *)
(* note's total is a quantity.  Inputs are chosen where they are first     *)
(* used, which the client's earlier choice cannot be told from.            *)
(***************************************************************************)
EXTENDS Integers, FiniteSets, FiniteSetsExt, Functions

CONSTANTS
  Req,              \* requests, each made once
  Seed,             \* notes that exist at the start
  Note0, Lines0,    \* their rows and lines
  Kinds,            \* the operations the requests may be
  Shapes,           \* <<ordered, sent>> of a line in a create or update body
  Quantities,       \* quantities in sent and return bodies
  Amounts,          \* amounts in payment bodies, as numeric(14,2) keeps them
  MaxReturnLines,   \* lines in a return body
  Stock0,           \* units in the default warehouse at the start
  StockEnabled,     \* app.businesses.bons_affect_stock
  None              \* no such note

Id == Seed \cup Req           \* a request creates one note at most
Types == {"order", "out", "in_", "retour"}
Statuses == {"prepared", "sent", "shipped", "partial", "delivered", "closed",
             "cancelled"}
AllKinds == {"create", "update", "cancel", "sent", "sign", "pay", "return",
             "status"}

ASSUME KindsAssumption == Kinds \subseteq AllKinds
ASSUME FlagsAssumption == StockEnabled \in BOOLEAN
ASSUME SeedAssumption == Seed \cap Req = {} /\ IsFiniteSet(Seed)

VARIABLES
  note,       \* app.delivery_notes: type, status, signed, paid, of, number
  lines,      \* app.delivery_note_lines of each note
  posted,     \* net stock posted under each note's number as movement ref
  payments,   \* sum of each note's app.delivery_note_payments rows
  stock,      \* stock of the product in the default warehouse
  stage,      \* the statement each request runs next
  job,        \* what each request asks for and has read so far
  contended   \* notes that two requests were at once (history variable)

database == <<note, lines, posted, payments, stock>>
vars     == <<database, stage, job, contended>>

Idle == [kind |-> "none", note |-> None, seen |-> None, items |-> {},
         back |-> 0, last |-> 0]

Note == [type : Types, status : Statuses, signed : BOOLEAN, paid : Nat,
         of : Id \cup {None}, number : Nat]
Line == [key : Id \X Nat, ordered : Nat, sent : Nat]
ASSUME NotesAssumption ==
  /\ Note0 \in [Seed -> Note] /\ Lines0 \in [Seed -> SUBSET Line]
  /\ \A n \in Seed : /\ IsFiniteSet(Lines0[n])
                      /\ \A l, m \in Lines0[n] : l.key[1] = m.key[1]
  /\ None \notin Note \cup Id
ASSUME BodiesAssumption ==
  /\ Shapes \subseteq Nat \X Nat /\ Quantities \subseteq Nat /\ Amounts \subseteq Nat
  /\ MaxReturnLines \in Nat /\ Stock0 \in Nat

-----------------------------------------------------------------------------
Ordered(ls) == SumFunction([l \in ls |-> l.ordered])
Total(ls)   == SumFunction([l \in ls |-> l.sent])

(* done counts a line at most up to what was ordered.                      *)
StatusFromLines(ls, fallback) ==
  LET done == SumFunction([l \in ls |-> IF l.sent < l.ordered THEN l.sent
                                                             ELSE l.ordered])
  IN  CASE done =< 0 -> fallback
        [] done > 0 /\ done >= Ordered(ls) -> "delivered"
        [] OTHER -> "partial"

(* What signing a note of this type with these lines posts to the ledger.  *)
StockEffect(type, ls) ==
  CASE ~StockEnabled \/ type = "order" -> 0
    [] StockEnabled /\ type = "out" -> -Total(ls)
    [] OTHER -> Total(ls)

Existing == {n \in Id : note[n] # None}
ReturnsOf(n) == {m \in Existing : note[m].type = "retour" /\ note[m].of = n}
Returned(n) == SumFunction([m \in ReturnsOf(n) |-> Total(lines[m])])
Numbers(type) == {note[n].number : n \in {m \in Existing : note[m].type = type}}

-----------------------------------------------------------------------------
Init ==
  /\ note = [n \in Id |-> IF n \in Seed THEN Note0[n] ELSE None]
  /\ lines = [n \in Id |-> IF n \in Seed THEN Lines0[n] ELSE {}]
  /\ posted = [n \in Id |-> IF n \in Seed /\ Note0[n].signed
                            THEN StockEffect(Note0[n].type, Lines0[n]) ELSE 0]
  /\ payments = [n \in Id |-> IF n \in Seed THEN Note0[n].paid ELSE 0]
  /\ stock = Stock0
  /\ stage = [r \in Req |-> "new"]
  /\ job = [r \in Req |-> Idle]
  /\ contended = {}

FirstStage(kind) == CASE kind = "create" -> "number"
                      [] kind = "update" -> "delete"
                      [] kind \in {"cancel", "status"} -> "write"
                      [] OTHER -> "lines"

(* The notes a request at n is at: a return is about the note it returns.  *)
Touched(n) == (IF n \in Existing THEN {n, note[n].of} ELSE {n}) \ {None}

(* The request arrives and findDetail reads the note's row.                *)
Begin(r) ==
  /\ stage[r] = "new"
  /\ \E k \in Kinds, n \in Id :
       /\ IF k = "create" THEN n = r ELSE n \in Existing
       /\ job' = [job EXCEPT ![r] = [Idle EXCEPT !.kind = k, !.note = n,
                                                 !.seen = note[n]]]
       /\ stage' = [stage EXCEPT ![r] = FirstStage(k)]
       /\ contended' = contended \cup
            {m \in Touched(n) : \E q \in Req : m \in Touched(job[q].note)}
  /\ UNCHANGED database

GoTo(r, next) == /\ stage' = [stage EXCEPT ![r] = next]
                 /\ UNCHANGED <<database, contended>>

(* findDetail's second statement.                                          *)
ReadLines(r) ==
  /\ stage[r] = "lines"
  /\ job' = [job EXCEPT ![r].items = lines[job[r].note]]
  /\ GoTo(r, IF job[r].kind = "return" THEN "returned" ELSE "write")

(* Seeded faults, here and below: definitions with a plausible bug, used   *)
(* only to show that the properties notice it.  This one deletes nothing.  *)
DeleteNothing(r) == /\ stage[r] = "delete"
                    /\ GoTo(r, "write")
                    /\ UNCHANGED job

(* The lines the DELETE of repo.update finds.                              *)
DeleteLines(r) ==
  /\ stage[r] = "delete"
  /\ job' = [job EXCEPT ![r].items = lines[job[r].note]]
  /\ GoTo(r, "write")

(* Fault: previous returns are not looked up.                              *)
ReadReturnedNever(r) == /\ stage[r] = "returned"
                        /\ GoTo(r, "number")
                        /\ UNCHANGED job

(* findReturnedQtyByProduct.                                               *)
ReadReturned(r) ==
  /\ stage[r] = "returned"
  /\ job' = [job EXCEPT ![r].back = Returned(job[r].note)]
  /\ GoTo(r, "number")

(* findLastNumber, for every type the note may be given.                   *)
ReadNumber(r) ==
  /\ stage[r] = "number"
  /\ job' = [job EXCEPT ![r].last = [t \in Types |-> Max({0} \cup Numbers(t))]]
  /\ GoTo(r, "write")

-----------------------------------------------------------------------------
Writing(r, kind) == stage[r] = "write" /\ job[r].kind = kind
Finish(r, outcome) == /\ stage' = [stage EXCEPT ![r] = outcome]
                      /\ job' = [job EXCEPT ![r] = Idle]
                      /\ UNCHANGED contended

(* Writes next over the status the handler saw, if it is another one.      *)
SetStatusIfChanged(r, next) ==
  note' = IF next = job[r].seen.status THEN note
          ELSE [note EXCEPT ![job[r].note].status = next]

(* The row of a new note; UNIQUE (business_id, number) aborts a transaction *)
(* whose number was taken since it looked.                                  *)
Insert(r, type, status, signed, of, ls) ==
  LET number == job[r].last[type] + 1
  IN  /\ number \notin Numbers(type)
      /\ note' = [note EXCEPT ![r] =
                    [type |-> type, status |-> status, signed |-> signed,
                     paid |-> 0, of |-> of, number |-> number]]
      /\ lines' = [lines EXCEPT ![r] = ls]

NewLine(r, shape) == [key |-> <<r, 1>>, ordered |-> shape[1], sent |-> shape[2]]

Create(r) ==
  /\ Writing(r, "create")
  /\ \E type \in Types \ {"retour"}, fallback \in Statuses, shape \in Shapes :
       LET ls == {NewLine(r, shape)}
       IN  /\ shape[2] =< shape[1]
           /\ Insert(r, type, StatusFromLines(ls, fallback), FALSE, None, ls)
  /\ Finish(r, "done")
  /\ UNCHANGED <<posted, payments, stock>>

(* Replaces the lines; a body without lines changes nothing modelled here. *)
Update(r) ==
  LET n == job[r].note
      seen == job[r].seen
      gone == {l.key : l \in job[r].items}
  IN  /\ Writing(r, "update")
      /\ ~seen.signed /\ seen.status \notin {"cancelled", "closed"}
      /\ \E shape \in Shapes :
           LET new == {NewLine(r, shape)}
           IN  /\ lines' = [lines EXCEPT ![n] = {l \in @ : l.key \notin gone} \cup new]
               /\ SetStatusIfChanged(r, StatusFromLines(new, seen.status))
      /\ Finish(r, "done")
      /\ UNCHANGED <<posted, payments, stock>>

Cancel(r) ==
  /\ Writing(r, "cancel")
  /\ ~job[r].seen.signed /\ job[r].seen.status # "cancelled"
  /\ note' = [note EXCEPT ![job[r].note].status = "cancelled"]
  /\ Finish(r, "done")
  /\ UNCHANGED <<lines, posted, payments, stock>>

SetStatus(r) ==
  /\ Writing(r, "status")
  /\ \E s \in Statuses : note' = [note EXCEPT ![job[r].note].status = s]
  /\ Finish(r, "done")
  /\ UNCHANGED <<lines, posted, payments, stock>>

(* The UPDATE of the line matches nothing if an edit removed it meanwhile. *)
UpdateLineSent(r) ==
  LET n == job[r].note
      With(ls, key, q) == {IF l.key = key THEN [l EXCEPT !.sent = q] ELSE l : l \in ls}
  IN  /\ Writing(r, "sent")
      /\ job[r].seen.status # "closed"
      /\ \E l \in job[r].items, q \in Quantities :
           /\ q =< l.ordered
           /\ lines' = [lines EXCEPT ![n] = With(@, l.key, q)]
           /\ SetStatusIfChanged(r, StatusFromLines(With(job[r].items, l.key, q),
                                                    job[r].seen.status))
      /\ Finish(r, "done")
      /\ UNCHANGED <<posted, payments, stock>>

(* Fault: an availability check that lets stock go below zero.             *)
PostStockUnchecked(n, delta) == /\ stock' = stock + delta
                                /\ posted' = [posted EXCEPT ![n] = @ + delta]

(* Fault: a movement row although the decrement matched no row.            *)
PostStockRegardless(n, delta) ==
  /\ stock' = IF stock + delta >= 0 THEN stock + delta ELSE stock
  /\ posted' = [posted EXCEPT ![n] = @ + delta]

(* The ledger's conditional decrement refuses what is not there.           *)
PostStock(n, delta) == /\ stock + delta >= 0
                       /\ stock' = stock + delta
                       /\ posted' = [posted EXCEPT ![n] = @ + delta]

(* Fault: a signed note is signed again.                                   *)
NeverNoOp(r) == FALSE
NoOp(r) == job[r].seen.signed

(* Fault: every note restocks.                                             *)
SignedForInward(r) == Total(job[r].items)
SignedFor(r) == StockEffect(job[r].seen.type, job[r].items)

Sign(r) ==
  LET n == job[r].note
  IN  /\ Writing(r, "sign")
      /\ IF NoOp(r)
         THEN UNCHANGED <<note, posted, stock>>
         ELSE /\ PostStock(n, SignedFor(r))
              /\ note' = [note EXCEPT ![n].signed = TRUE]
      /\ Finish(r, "done")
      /\ UNCHANGED <<lines, payments>>

(* Fault: the amount is capped at the total, not at what remains of it.    *)
RemainingOfTotal(r) == Total(job[r].items)
Remaining(r) == Total(job[r].items) - job[r].seen.paid

(* Fault: the new balance is computed from the one that was read.          *)
PaidAfterRead(r, a) == job[r].seen.paid + a
PaidAfter(r, a) == note[job[r].note].paid + a

(* The code lets an amount exceed what remains by a tenth of a cent, which *)
(* the columns of the payment and of the note drop.                        *)
AddPayment(r) ==
  LET n == job[r].note
  IN  /\ Writing(r, "pay")
      /\ job[r].seen.type = "out"
      /\ Remaining(r) > 0
      /\ \E a \in Amounts :
           /\ a =< Remaining(r)
           /\ payments' = [payments EXCEPT ![n] = @ + a]
           /\ note' = [note EXCEPT ![n].paid = PaidAfter(r, a)]
      /\ Finish(r, "done")
      /\ UNCHANGED <<lines, posted, stock>>

(* Fault: the goods of a return are posted later.                          *)
RestockLater(r, ls) == UNCHANGED <<stock, posted>>
Restock(r, ls) == PostStock(r, StockEffect("retour", ls))

(* Creates the RT note and signs it in the same transaction; sign reads    *)
(* back the note and the lines its own transaction has just inserted.      *)
CreateReturn(r) ==
  /\ Writing(r, "return")
  /\ job[r].seen.type = "out" /\ job[r].seen.signed
  /\ \E m \in 1..MaxReturnLines :
       \E ask \in [1..m -> job[r].items \X (Quantities \ {0})] :
         LET ls == {[key |-> <<r, i>>, ordered |-> ask[i][2], sent |-> ask[i][2]] :
                      i \in 1..m}
         IN  /\ \A i \in 1..m : ask[i][2] =< ask[i][1].sent - job[r].back
             /\ Insert(r, "retour", "delivered", TRUE, job[r].note, ls)
             /\ Restock(r, ls)
  /\ Finish(r, "done")
  /\ UNCHANGED payments

(* A refusal, a taken number, a missing default warehouse, a lost          *)
(* connection: the transaction rolls back.                                 *)
Fail(r) ==
  /\ stage[r] \notin {"new", "done", "failed"}
  /\ Finish(r, "failed")
  /\ UNCHANGED database

AllAnswered == (\A r \in Req : stage[r] \in {"done", "failed"}) /\ UNCHANGED vars

Next ==
  \/ \E r \in Req :
       \/ Begin(r) \/ ReadLines(r) \/ DeleteLines(r) \/ ReadReturned(r)
       \/ ReadNumber(r) \/ Create(r) \/ Update(r) \/ Cancel(r) \/ SetStatus(r)
       \/ UpdateLineSent(r) \/ Sign(r) \/ AddPayment(r) \/ CreateReturn(r)
       \/ Fail(r)
  \/ AllAnswered

Spec == Init /\ [][Next]_vars

-----------------------------------------------------------------------------
Appears(n) == note[n] = None /\ note'[n] # None

(***************************************************************************)
(* The stock is what was signed for, the opening stock plus the postings,  *)
(* and never below zero; and however payments interleave, the balance      *)
(* carried on a note is the sum of its payment rows: addPayment adds to    *)
(* the column instead of writing what it read plus the amount.             *)
(***************************************************************************)
StockIsPosted ==
  /\ stock - SumFunctionOnSet(posted, Existing)
       = Stock0 - SumFunction([n \in Seed |-> IF Note0[n].signed
                                 THEN StockEffect(Note0[n].type, Lines0[n]) ELSE 0])
  /\ stock >= 0
  /\ \A n \in Existing : note[n].paid = payments[n]

(***************************************************************************)
(* The checks of the handlers are enough for a note that no two requests   *)
(* were at once, whatever was done to it before: it is signed once, what   *)
(* signing posts is what the note says at that moment, payments stay       *)
(* within its total, and its lines all come from one edit.  A return       *)
(* restocks: the step that makes its note visible posts what its lines     *)
(* say, so that the debt and the stock stay in sync (comment in            *)
(* createReturn).                                                          *)
(***************************************************************************)
SigningPostsTheLines ==
  [][/\ \A n \in Existing \ contended :
          /\ posted'[n] # posted[n] => ~note[n].signed
          /\ note'[n].signed /\ ~note[n].signed
               => posted'[n] = StockEffect(note[n].type, lines[n])
     /\ \A n \in Id : Appears(n) /\ note'[n].type = "retour"
          => note'[n].signed /\ posted'[n] = StockEffect("retour", lines'[n])]_vars
NoOverpayment ==
  [][\A n \in Existing \ contended : payments'[n] > payments[n]
       => payments'[n] =< Total(lines[n])]_vars
LinesOfOneEdit ==
  \A n \in Existing \ contended : \A l, m \in lines[n] : l.key[1] = m.key[1]

(***************************************************************************)
(* "A product cannot be returned more than was sent minus what previous    *)
(* returns already took back" (comment of createReturn): so it is for a    *)
(* note that no two requests were at once, and a body of one entry.  Two   *)
(* entries that name the same line are both compared with the same         *)
(* previous returns, and so may take back more than was sent; and the      *)
(* quantities of a return that is signed may still be edited.              *)
(***************************************************************************)
ReturnWithinSent ==
  [][\A n \in Id, b \in Existing \ contended :
       /\ Appears(n) /\ note'[n].type = "retour" /\ note'[n].of = b
       /\ \A l, m \in lines'[n] : l = m
       => Returned(b)' =< Total(lines[b])]_vars

(***************************************************************************)
(* "An already-signed note is a no-op (never re-posts to the ledger)": no  *)
(* step posts stock for a note that is signed already (comment of sign).   *)
(***************************************************************************)
SignedOnce ==
  [][\A n \in Existing : posted'[n] # posted[n] => ~note[n].signed]_vars

=============================================================================
