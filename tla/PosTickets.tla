----------------------------- MODULE PosTickets -----------------------------
(***************************************************************************)
(* The tickets of the point of sale on one day: checkouts, parked tickets, *)
(* resumes, and the session that counts the day's sales.  Every request is *)
(* one READ COMMITTED transaction.  A checkout holds the advisory lock of  *)
(* its business from the statement before it picks a number to its commit; *)
(* between the two it only writes, so its writes and its commit are one    *)
(* step.  (Businesses whose names hash alike share a lock, which only      *)
(* makes them wait.)                                                       *)
(*                                                                         *)
(* A cart is a quantity of one product at price 1, without discount; a     *)
(* cart of several lines posts as the ledger's requests do.                *)
(***************************************************************************)
EXTENDS Integers, FiniteSets, FiniteSetsExt, Functions

CONSTANTS
  Biz,          \* businesses
  Req,          \* requests, each made once
  Seed,         \* tickets that exist at the start
  Ticket0,      \* their rows
  Kinds,        \* the operations the requests may be
  Carts,        \* [qty, customer]: what may be sold, with or without customer
  Stock0,       \* stock of each business at the start
  None          \* no ticket, no session, nobody

Id == Seed \cup Req           \* a request creates one ticket at most
AllKinds == {"session", "checkout", "hold", "park", "resume"}

ASSUME KindsAssumption == Kinds \subseteq AllKinds
Ticket == [biz : Biz, number : Nat, qty : Nat, customer : BOOLEAN,
           parked : BOOLEAN]
Session == [biz : Biz, sales : Nat, revenue : Nat]
ASSUME SeedAssumption ==
  Seed \cap Req = {} /\ IsFiniteSet(Seed) /\ Ticket0 \in [Seed -> Ticket]
ASSUME CartsAssumption ==
  Carts \subseteq [qty : Nat, customer : BOOLEAN] /\ Stock0 \in [Biz -> Nat]
ASSUME NoneAssumption == None \notin Ticket \cup Session \cup Id

VARIABLES
  ticket,       \* app.po_tickets with the quantity of its lines
  moved,        \* app.movements of sales: [biz, ref, qty]
  stock,        \* stock of each business
  session,      \* the row of today's id in app.po_sessions
  purchases,    \* app.customers.purchases of each business' customer
  lock,         \* who holds the advisory lock of each business
  phase,        \* the statement each request runs next
  job           \* what it asks for and has read so far

database == <<ticket, moved, stock, session, purchases>>
till == <<database, lock, phase, job>>

Idle == [kind |-> "none", biz |-> None, qty |-> 0, customer |-> FALSE,
         replaces |-> None, number |-> 0]

Existing == {i \in Id : ticket[i] # None}
TicketsOf(b) == {i \in Existing : ticket[i].biz = b}
SalesOf(b)   == {m \in moved : m.biz = b}

(* The numbers of the tickets and the refs of the movements; the refs stay *)
(* when a ticket is deleted.                                               *)
Numbers(b) == {ticket[i].number : i \in TicketsOf(b)} \cup {m.ref : m \in SalesOf(b)}
MaxNumber(b) == Max({0} \cup Numbers(b))

-----------------------------------------------------------------------------
Sold0(i) == ~Ticket0[i].parked
TillInit ==
  /\ ticket = [i \in Id |-> IF i \in Seed THEN Ticket0[i] ELSE None]
  /\ moved = {[biz |-> Ticket0[i].biz, ref |-> Ticket0[i].number,
               qty |-> Ticket0[i].qty] : i \in {j \in Seed : Sold0(j)}}
  /\ stock = Stock0
  /\ session = None
  /\ purchases = [b \in Biz |-> 0]
  /\ lock = [b \in Biz |-> None]
  /\ phase = [r \in Req |-> "new"]
  /\ job = [r \in Req |-> Idle]

GoTo(r, next) == phase' = [phase EXCEPT ![r] = next]

(* A checkout or a held cart arrives.                                      *)
BeginSale(r) ==
  /\ phase[r] = "new"
  /\ \E k \in Kinds \cap {"checkout", "hold"}, b \in Biz, c \in Carts :
       /\ job' = [job EXCEPT ![r] = [Idle EXCEPT !.kind = k, !.biz = b,
                                     !.qty = c.qty, !.customer = c.customer]]
       /\ GoTo(r, IF k = "hold" THEN "lock" ELSE "stock")
  /\ UNCHANGED <<database, lock>>

(* resume reads the ticket, which must be parked, and refuses others; the  *)
(* lines are a second statement.                                           *)
BeginResume(r) ==
  /\ phase[r] = "new" /\ "resume" \in Kinds
  /\ \E i \in Existing :
       /\ ticket[i].parked
       /\ job' = [job EXCEPT ![r] =
                    [Idle EXCEPT !.kind = "resume", !.biz = ticket[i].biz,
                                 !.customer = ticket[i].customer, !.replaces = i]]
       /\ GoTo(r, "lines")
  /\ UNCHANGED <<database, lock>>

ReadLines(r) ==
  LET i == job[r].replaces
  IN  /\ phase[r] = "lines"
      /\ job' = [job EXCEPT ![r].qty = IF ticket[i] = None THEN 0 ELSE ticket[i].qty]
      /\ GoTo(r, "stock")
      /\ UNCHANGED <<database, lock>>

(* The check that gives the cashier a message; the ledger checks again.    *)
CheckStock(r) ==
  /\ phase[r] = "stock"
  /\ stock[job[r].biz] >= job[r].qty
  /\ GoTo(r, "lock")
  /\ UNCHANGED <<database, lock, job>>

(* Seeded faults, here and below: definitions with a plausible bug, used   *)
(* only to show that the properties notice it.  This one takes no lock.    *)
LockNothing(r) == /\ phase[r] = "lock"
                  /\ GoTo(r, "number")
                  /\ UNCHANGED <<database, lock, job>>

(* SELECT pg_advisory_xact_lock(hashtext(business)).                       *)
Lock(r) ==
  /\ phase[r] = "lock"
  /\ lock[job[r].biz] = None
  /\ lock' = [lock EXCEPT ![job[r].biz] = r]
  /\ GoTo(r, "number")
  /\ UNCHANGED <<database, job>>

(* Fault: the replaced ticket is deleted first, and does not count.        *)
NextNumberOfOthers(r) ==
  Max({0} \cup {ticket[i].number : i \in TicketsOf(job[r].biz) \ {job[r].replaces}}
          \cup {m.ref : m \in SalesOf(job[r].biz)}) + 1
NextNumber(r) == MaxNumber(job[r].biz) + 1

ReadNumber(r) ==
  /\ phase[r] = "number"
  /\ job' = [job EXCEPT ![r].number = NextNumber(r)]
  /\ GoTo(r, "write")
  /\ UNCHANGED <<database, lock>>

-----------------------------------------------------------------------------
(* The transaction ends; the lock goes with it.                            *)
Finish(r, outcome) ==
  /\ GoTo(r, outcome)
  /\ lock' = [b \in Biz |-> IF lock[b] = r THEN None ELSE lock[b]]
  /\ job' = [job EXCEPT ![r] = Idle]

(* INSERT ... ON CONFLICT (id) DO NOTHING, then SELECT where the id is     *)
(* today's and the business is this one: the key is the id alone.          *)
SessionOf(b) == IF session = None THEN [biz |-> b, sales |-> 0, revenue |-> 0]
                                  ELSE session
SessionFound(b) == SessionOf(b).biz = b

(* Fault: a resume counts as no sale.                                      *)
SessionAfterWithoutResume(r) ==
  LET s == SessionOf(job[r].biz)
  IN  IF job[r].kind = "checkout"
      THEN [s EXCEPT !.sales = @ + 1, !.revenue = @ + job[r].qty] ELSE s
(* The session after the ticket: a held cart is no sale.                   *)
SessionAfter(r) ==
  LET s == SessionOf(job[r].biz)
  IN  IF job[r].kind = "hold" THEN s
      ELSE [s EXCEPT !.sales = @ + 1, !.revenue = @ + job[r].qty]

(* Fault: the movement carries the number of the ticket it replaces.       *)
RefOfReplaced(r) == IF job[r].replaces \in Existing
                    THEN ticket[job[r].replaces].number ELSE job[r].number
Ref(r) == job[r].number

(* Fault: the decrement relies on the check made before the lock.          *)
CoversAlways(b, q) == b \in Biz /\ q >= 0
Covers(b, q) == stock[b] >= q

(* The ledger's out post, one movement per line with the number as ref; a  *)
(* held cart posts nothing.                                                *)
PostSale(r) ==
  LET b == job[r].biz
      q == IF job[r].kind = "hold" THEN 0 ELSE job[r].qty
  IN  /\ Covers(b, q)
      /\ stock' = [stock EXCEPT ![b] = @ - q]
      /\ moved' = IF q = 0 THEN moved
                  ELSE moved \cup {[biz |-> b, ref |-> Ref(r), qty |-> q]}

NewTicket(r) ==
  [biz |-> job[r].biz, number |-> job[r].number, qty |-> job[r].qty,
   customer |-> job[r].customer, parked |-> job[r].kind = "hold"]

(* executeCheckout from the session to the commit; the parked ticket it    *)
(* replaces goes if it is still there.                                     *)
Execute(r) ==
  LET b == job[r].biz
  IN  /\ phase[r] = "write"
      /\ SessionFound(b)
      /\ job[r].number \notin
           {ticket[i].number : i \in TicketsOf(b) \ {job[r].replaces}}
      /\ PostSale(r)
      /\ ticket' = [i \in Id |-> IF i = r THEN NewTicket(r)
                               ELSE IF i = job[r].replaces THEN None ELSE ticket[i]]
      /\ session' = SessionAfter(r)
      /\ purchases' = IF job[r].kind # "hold" /\ job[r].customer
                      THEN [purchases EXCEPT ![b] = @ + job[r].qty] ELSE purchases
      /\ Finish(r, "done")

(* park: the ticket must exist, whatever it is, and is marked parked.      *)
Park(r) ==
  /\ phase[r] = "new" /\ "park" \in Kinds
  /\ \E i \in Existing : ticket' = [ticket EXCEPT ![i].parked = TRUE]
  /\ Finish(r, "done")
  /\ UNCHANGED <<moved, stock, session, purchases>>

(* GET sessions/current and POST sessions.                                 *)
EnsureSession(r) ==
  /\ phase[r] = "new" /\ "session" \in Kinds
  /\ \E b \in Biz : SessionFound(b) /\ session' = SessionOf(b)
  /\ Finish(r, "done")
  /\ UNCHANGED <<ticket, moved, stock, purchases>>

(* executeTakeFirstOrThrow finds no session of this business.              *)
NoSession(r) ==
  /\ \/ phase[r] = "write" /\ ~SessionFound(job[r].biz)
     \/ phase[r] = "new" /\ "session" \in Kinds /\ \E b \in Biz : ~SessionFound(b)
  /\ Finish(r, "no_session")
  /\ UNCHANGED database

(* A refusal (payment, stock, number) or a failure rolls everything back.  *)
Refuse(r) ==
  /\ phase[r] \in {"lines", "stock", "lock", "number", "write"}
  /\ Finish(r, "failed")
  /\ UNCHANGED database

AllServed == /\ \A r \in Req : phase[r] \in {"done", "failed", "no_session"}
             /\ UNCHANGED till

Serve(r) == \/ ReadLines(r) \/ CheckStock(r) \/ Lock(r) \/ ReadNumber(r)
            \/ Execute(r) \/ NoSession(r)
            \/ phase[r] \in {"stock", "write"} /\ Refuse(r)

TillNext ==
  \/ \E r \in Req : \/ BeginSale(r) \/ BeginResume(r) \/ Park(r)
                    \/ EnsureSession(r) \/ Serve(r) \/ Refuse(r)
  \/ AllServed

TillSpec == TillInit /\ [][TillNext]_till

-----------------------------------------------------------------------------
(***************************************************************************)
(* A number is never given twice ("the MAX+1 below can't hand two tickets  *)
(* the same number", comment in executeCheckout), not even after its       *)
(* ticket was deleted by a resume: a new ticket's number is above every    *)
(* number so far, and the highest number never goes back.                  *)
(***************************************************************************)
NumbersGrow ==
  [][\A b \in Biz :
       /\ MaxNumber(b)' >= MaxNumber(b)
       /\ \A r \in Req : ticket[r] = None /\ ticket'[r] # None /\ ticket'[r].biz = b
            => ticket'[r].number > MaxNumber(b)]_till

(***************************************************************************)
(* The till agrees with the stock room: today's revenue and customer       *)
(* purchases tell what left the stock, whatever failed or waited, and a    *)
(* ticket that is not parked is backed by the movement of its sale.        *)
(***************************************************************************)
Qty(ms) == SumFunction([m \in ms |-> m.qty])
NewSales(b) ==
  {m \in SalesOf(b) : \A i \in Seed : Ticket0[i].biz = b => m.ref # Ticket0[i].number}
TillMatchesStock ==
  \A b \in Biz :
    LET today == Stock0[b] - stock[b]
    IN  /\ today = Qty(NewSales(b))
        /\ session # None /\ session.biz = b => session.revenue = today
        /\ purchases[b] =< today
        /\ stock[b] >= 0
        /\ \A i \in Existing : ticket[i].biz = b /\ ~ticket[i].parked /\ ticket[i].qty > 0 =>
             [biz |-> b, ref |-> ticket[i].number, qty |-> ticket[i].qty] \in moved
=============================================================================
