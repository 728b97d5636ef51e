--------------------------- MODULE PurchaseOrders ---------------------------
(***************************************************************************)
(* The purchase orders of one business: requests create, edit, delete and  *)
(* receive them.  Every request is one READ COMMITTED transaction.         *)
(*                                                                         *)
(* Receiving reads the order, then its lines, checks, posts to the ledger, *)
(* raises the lines, reads the totals, and writes the status: two of its   *)
(* reads follow writes others do not see yet, and two follow writes of     *)
(* others it has not seen.  Editing the lines and deleting lock the order  *)
(* first and its lines then; receiving locks them the other way round.     *)
(*                                                                         *)
(* Each line of an order is another product, so the lock on a line stands  *)
(* for the one on its stock row too.  A receive takes the locks of its     *)
(* lines in one step; StockLedger has them one by one.                     *)
(***************************************************************************)
EXTENDS Integers, Sequences, FiniteSets, FiniteSetsExt, Functions

CONSTANTS
  Req,            \* requests, each made once
  Seed,           \* orders that exist at the start
  Order0, Line0,  \* their rows and lines
  Position,       \* lines of an order are told apart by these
  Quantities,     \* quantities in bodies
  MaxBody,        \* lines in a body of receive
  None

Id == Seed \cup Req           \* a request creates one order at most
Key == Id \X Position         \* a line: who made it and its position
Statuses == {"draft", "sent", "partiallyReceived", "received", "cancelled"}
Order == [number : Nat, status : Statuses]
Line == [order : Id, qty : Nat, received : Nat]

(* What a status says of the units received and of those ordered.          *)
Tells(status, received, ordered) ==
  /\ status = "received" <=> received = ordered
  /\ status = "partiallyReceived" <=> received \in 1 .. ordered - 1

ASSUME PurchaseAssumption ==
  /\ IsFiniteSet(Seed) /\ Seed \cap Req = {}
  /\ IsFiniteSet(Position) /\ Position = 1 .. Cardinality(Position)
  /\ Order0 \in [Seed -> Order]
  /\ Line0 \in [Seed \X Position -> Line \cup {None}]
  /\ Quantities \subseteq Nat \ {0} /\ MaxBody \in Nat
ASSUME NoneAssumption == None \notin Order \cup Line \cup Statuses \cup Id

(* The orders at the start have their own lines and the status these tell. *)
Keys0(o) == {k \in Seed \X Position : Line0[k] # None /\ Line0[k].order = o}
ASSUME SeedAssumption ==
  /\ \A k \in Seed \X Position :
       Line0[k] # None => Line0[k].order \in Seed /\ Line0[k].received =< Line0[k].qty
  /\ \A o \in Seed : Tells(Order0[o].status,
                          SumFunction([k \in Keys0(o) |-> Line0[k].received]),
                          SumFunction([k \in Keys0(o) |-> Line0[k].qty]))

VARIABLES
  order,      \* app.purchase_orders
  line,       \* app.purchase_order_lines
  moved,      \* what the ledger posted for each line
  stage,      \* the statement each request runs next
  job,        \* what it asks for and has read so far
  irregular   \* orders that two requests were at once, or of which one body
              \* named a line twice (history variable)

database == <<order, line, moved>>
vars     == <<database, stage, job, irregular>>

Idle == [kind |-> "none", order |-> None, status |-> None, body |-> <<>>,
         seen |-> <<>>, full |-> FALSE, last |-> 0]

Existing == {o \in Id : order[o] # None}
Lines == {k \in Key : line[k] # None}
LinesOf(o) == {k \in Lines : line[k].order = o}
Numbers == {order[o].number : o \in Existing}
Over == {"done", "failed"}

Init ==
  /\ order = [o \in Id |-> IF o \in Seed THEN Order0[o] ELSE None]
  /\ line = [k \in Key |-> IF k[1] \in Seed THEN Line0[k] ELSE None]
  /\ moved = [k \in Key |-> IF k \in Lines THEN line[k].received ELSE 0]
  /\ stage = [r \in Req |-> "new"]
  /\ job = [r \in Req |-> Idle]
  /\ irregular = {}

-----------------------------------------------------------------------------
GoTo(r, next) == stage' = [stage EXCEPT ![r] = next]
End(r, outcome) == /\ GoTo(r, outcome)
                   /\ job' = [job EXCEPT ![r] = Idle]
                   /\ UNCHANGED irregular

(* A request that is at an existing order from now on.                     *)
Start(r, o, kind, status, next) ==
  /\ stage[r] = "new"
  /\ job' = [job EXCEPT ![r] = [Idle EXCEPT !.kind = kind, !.order = o, !.status = status]]
  /\ irregular' = IF \E q \in Req : job[q].order = o
                  THEN irregular \cup {o} ELSE irregular
  /\ GoTo(r, next)
  /\ UNCHANGED database

(* The rows a transaction holds until it ends: a receive its lines, an     *)
(* edit or a delete its order.                                             *)
Holds(q, k) ==
  stage[q] \in {"totals", "status"} /\ \E i \in DOMAIN job[q].body : job[q].body[i].key = k
HoldsOrder(q, o) == stage[q] \in {"replace", "cascade"} /\ job[q].order = o
LineFree(r, k) == \A q \in Req \ {r} : ~Holds(q, k)
OrderFree(r, o) == \A q \in Req \ {r} : ~HoldsOrder(q, o)

-----------------------------------------------------------------------------
(* The highest number and one more; the unique key refuses one taken since.*)
ReadNumber(r) ==
  /\ stage[r] = "new"
  /\ job' = [job EXCEPT ![r].kind = "create", ![r].last = Max({0} \cup Numbers)]
  /\ GoTo(r, "insert")
  /\ UNCHANGED <<database, irregular>>

NewLines(r, o, qs) ==
  [k \in Key |-> IF k[1] = r /\ k[2] \in DOMAIN qs
                 THEN [order |-> o, qty |-> qs[k[2]], received |-> 0] ELSE None]
Bodies == UNION {[1..n -> Quantities] : n \in Position}

Create(r) ==
  /\ stage[r] = "insert"
  /\ IF job[r].last + 1 \in Numbers THEN End(r, "failed") /\ UNCHANGED database
     ELSE \E s \in {"draft", "sent"}, qs \in Bodies :
            /\ order' = [order EXCEPT ![r] = [number |-> job[r].last + 1, status |-> s]]
            /\ line' = [k \in Key |-> IF k[1] = r THEN NewLines(r, r, qs)[k] ELSE line[k]]
            /\ End(r, "done")
            /\ UNCHANGED moved

-----------------------------------------------------------------------------
Editable(o) == order[o].status \notin {"received", "partiallyReceived"}

(* patch reads the status; a new status or new notes are one UPDATE, new   *)
(* lines are for drafts.                                                   *)
BeginPatch(r) ==
  \E o \in Existing, s \in {"draft", "sent", "cancelled", None}, content \in BOOLEAN :
    /\ Editable(o)
    /\ content => order[o].status = "draft"
    /\ Start(r, o, IF content THEN "edit" ELSE "patch", s, "update")

BeginRemove(r) ==
  \E o \in Existing : Editable(o) /\ Start(r, o, "remove", None, "update")

(* The status over the one that is there.                                  *)
Patched(r) == LET o == job[r].order
              IN  [order EXCEPT ![o].status = IF job[r].status = None THEN @
                                              ELSE job[r].status]

(* The UPDATE or DELETE of the order's row waits for whoever holds it.     *)
AtOrder(r) == stage[r] = "update" /\ OrderFree(r, job[r].order)

Patch(r) ==
  /\ AtOrder(r) /\ job[r].order \in Existing /\ job[r].kind = "patch"
  /\ order' = Patched(r)
  /\ End(r, "done")
  /\ UNCHANGED <<line, moved>>

LockOrder(r) ==
  /\ AtOrder(r) /\ job[r].order \in Existing /\ job[r].kind # "patch"
  /\ GoTo(r, IF job[r].kind = "edit" THEN "replace" ELSE "cascade")
  /\ UNCHANGED <<database, job, irregular>>

(* The row is gone: patch fails to read its result, remove does not look.  *)
Gone(r) ==
  /\ AtOrder(r) /\ job[r].order \notin Existing
  /\ End(r, IF job[r].kind = "remove" THEN "done" ELSE "failed")
  /\ UNCHANGED database

(* The old lines go, which waits for the receives that hold them, the new  *)
(* ones come, and the transaction commits.                                 *)
ReplaceLines(r) ==
  LET o == job[r].order
  IN  /\ stage[r] = "replace"
      /\ \A k \in LinesOf(o) : LineFree(r, k)
      /\ \E qs \in Bodies :
           line' = [k \in Key |-> IF k[1] = r THEN NewLines(r, o, qs)[k]
                                  ELSE IF k \in LinesOf(o) THEN None ELSE line[k]]
      /\ order' = Patched(r)
      /\ End(r, "done")
      /\ UNCHANGED moved

(* ON DELETE CASCADE.                                                      *)
Cascade(r) ==
  LET o == job[r].order
  IN  /\ stage[r] = "cascade"
      /\ \A k \in LinesOf(o) : LineFree(r, k)
      /\ order' = [order EXCEPT ![o] = None]
      /\ line' = [k \in Key |-> IF k \in LinesOf(o) THEN None ELSE line[k]]
      /\ End(r, "done")
      /\ UNCHANGED moved

-----------------------------------------------------------------------------
BeginReceive(r) ==
  \E o \in Existing :
    order[o].status # "cancelled" /\ Start(r, o, "receive", None, "lines")

(* Seeded faults, here and below: definitions with a plausible bug, used   *)
(* only to show that the properties notice it.  Here the quantity is       *)
(* compared with what was ordered.                                         *)
FitsOrdered(l, q) == q =< l.qty /\ l.received >= 0
Fits(l, q) == q + l.received =< l.qty

(* findWithLines' second statement, and the check of every line of the     *)
(* body against what it read.                                              *)
ReadLines(r) ==
  LET read == [k \in LinesOf(job[r].order) |-> line[k]]
      Receipts == UNION {[1..n -> [key : DOMAIN read, qty : Quantities]] : n \in 1..MaxBody}
  IN  /\ stage[r] = "lines"
      /\ \/ \E body \in Receipts :
              /\ \A i \in DOMAIN body : Fits(read[body[i].key], body[i].qty)
              /\ job' = [job EXCEPT ![r].body = body, ![r].seen = read]
              /\ irregular' = IF \E i, j \in DOMAIN body : i # j /\ body[i].key = body[j].key
                              THEN irregular \cup {job[r].order} ELSE irregular
              /\ GoTo(r, "post")
         \/ End(r, "failed")
      /\ UNCHANGED database

Asked(r, k) ==
  SumFunction([i \in DOMAIN job[r].body |->
                 IF job[r].body[i].key = k THEN job[r].body[i].qty ELSE 0])

(* The ledger's post and the UPDATEs of the lines take their locks; their  *)
(* effect is visible to this transaction alone until it commits.           *)
Post(r) ==
  /\ stage[r] = "post"
  /\ \A i \in DOMAIN job[r].body : LineFree(r, job[r].body[i].key)
  /\ GoTo(r, "totals")
  /\ UNCHANGED <<database, job, irregular>>

(* Fault: the new count is computed from the one that was read.            *)
RaisedFromRead(r, k) == IF k \in DOMAIN job[r].seen
                        THEN job[r].seen[k].received + Asked(r, k) ELSE line[k].received
Raised(r, k) == line[k].received + Asked(r, k)

(* Fault: the totals are those from before the receipt.                    *)
TotalReceivedBefore(r) == SumFunction([k \in LinesOf(job[r].order) |-> line[k].received])
(* findLineTotals: committed rows, with what this transaction wrote.       *)
TotalReceived(r) == SumFunction([k \in LinesOf(job[r].order) |-> Raised(r, k)])
TotalQty(o) == SumFunction([k \in LinesOf(o) |-> line[k].qty])

ReadTotals(r) ==
  /\ stage[r] = "totals"
  /\ job' = [job EXCEPT ![r].full = TotalReceived(r) >= TotalQty(job[r].order)]
  /\ GoTo(r, "status")
  /\ UNCHANGED <<database, irregular>>

StatusAfter(full) == IF full THEN "received" ELSE "partiallyReceived"

(* The UPDATE of the status, the activity and the commit.                  *)
Receive(r) ==
  LET o == job[r].order
  IN  /\ stage[r] = "status"
      /\ OrderFree(r, o)
      /\ moved' = [k \in Key |-> moved[k] + Asked(r, k)]
      /\ line' = [k \in Key |-> IF k \in Lines /\ Asked(r, k) > 0
                                THEN [line[k] EXCEPT !.received = Raised(r, k)] ELSE line[k]]
      /\ order' = IF o \in Existing
                  THEN [order EXCEPT ![o].status = StatusAfter(job[r].full)] ELSE order
      /\ End(r, "done")

-----------------------------------------------------------------------------
(* A refusal, a lost connection: the transaction rolls back.               *)
Fail(r) ==
  /\ stage[r] \notin Over \cup {"new"}
  /\ End(r, "failed")
  /\ UNCHANGED database

(* A receive waits for the order, whose holder waits for its lines.        *)
Deadlocked(q, r) ==
  /\ stage[q] = "status" /\ HoldsOrder(r, job[q].order)
  /\ \E k \in LinesOf(job[r].order) : Holds(q, k)

DeadlockVictim(r) ==
  /\ \E q \in Req : Deadlocked(q, r) \/ Deadlocked(r, q)
  /\ End(r, "failed")
  /\ UNCHANGED database

AllAnswered == (\A r \in Req : stage[r] \in Over) /\ UNCHANGED vars

Step(r) == \/ Create(r) \/ Patch(r) \/ LockOrder(r) \/ Gone(r) \/ ReplaceLines(r)
           \/ Cascade(r) \/ ReadLines(r) \/ Post(r) \/ ReadTotals(r) \/ Receive(r)
           \/ DeadlockVictim(r)

Next == \/ \E r \in Req : \/ ReadNumber(r) \/ BeginPatch(r) \/ BeginRemove(r)
                          \/ BeginReceive(r) \/ Step(r) \/ Fail(r)
        \/ AllAnswered

Spec == Init /\ [][Next]_vars

-----------------------------------------------------------------------------
(***************************************************************************)
(* What a line says was received is what entered the stock for it, however *)
(* receipts overlap: the line is raised by what was posted instead of      *)
(* being written over ("Increment line.received", comment of receive).     *)
(***************************************************************************)
ReceivedIsMoved == \A k \in Lines : line[k].received = moved[k]

(***************************************************************************)
(* The checks are enough for an order that requests were at one after the  *)
(* other, with bodies that named no line twice: nothing is received beyond *)
(* what was ordered ("Reject qty above (line.qty - line.received)"), and   *)
(* the status of the order says what its lines say.                        *)
(***************************************************************************)
Regular == Existing \ irregular
ReceivedOf(o) == SumFunction([k \in LinesOf(o) |-> line[k].received])
StatusTellsReceipts ==
  \A o \in Regular : /\ Tells(order[o].status, ReceivedOf(o), TotalQty(o))
                     /\ \A k \in LinesOf(o) : line[k].received =< line[k].qty
=============================================================================
