------------------------------- MODULE Orders -------------------------------
(***************************************************************************)
(* Marketplace orders of one seller: one buyer places them, both sides     *)
(* move them along the order process, shipping takes from the seller's     *)
(* stock, and announcements run after the request's transaction commits.   *)
(* Orders at the start may be another buyer's.                             *)
(*                                                                         *)
(* Placing an order writes through the owner pool, statement by statement, *)
(* outside the request's transaction.  A transition reads the order, then  *)
(* only writes: its post to the ledger, its UPDATE and its commit are one  *)
(* step.  The lines of an order never change; they are one quantity of one *)
(* product here.                                                           *)
(***************************************************************************)
EXTENDS Integers, FiniteSets, Functions, Sequences

CONSTANTS
  Req,          \* requests, each made once
  Seed,         \* orders that exist at the start
  Order0,       \* their rows
  Quantities,   \* what may be ordered
  Stock0,       \* the seller's stock
  MaxRetry,     \* retries of a number that was taken; 5 in the code
  MaxFaults,    \* crashes and failing callbacks in a behaviour
  None

Id == Seed \cup Req           \* a request places one order at most
Statuses == {"pending", "confirmed", "in_progress", "shipped", "delivered",
             "cancelled"}

Order == [number : Nat, status : Statuses, qty : Nat]

ASSUME OrdersAssumption ==
  /\ IsFiniteSet(Seed) /\ Seed \cap Req = {} /\ Order0 \in [Seed -> Order]
  /\ Quantities \subseteq Nat /\ Stock0 \in Nat
  /\ MaxRetry \in Nat /\ MaxFaults \in Nat
ASSUME NoneAssumption == None \notin Order /\ None \notin Statuses

VARIABLES
  order,        \* app.orders
  customer,     \* whether the buyer is in the seller's app.customers
  stock,        \* of the seller's warehouse
  told,         \* app.notifications and app.webhook_deliveries
  stage,        \* the step each request runs next
  job,          \* what it asks for, has read, and its afterCommit callbacks
  faults,
  history,      \* committed changes (history variable)
  contended     \* orders that two transitions were at once (history variable)

server == <<order, customer, stock>>
ghosts == <<faults, history, contended>>
vars   == <<server, told, stage, job, ghosts>>

Idle == [order |-> None, from |-> None, to |-> None, qty |-> 0, number |-> 0,
         attempt |-> 0, after |-> <<>>]
Existing == {o \in Id : order[o] # None}
Moving(r) == stage[r] = "write"

-----------------------------------------------------------------------------
(* ORDER_PROCESS, and the one transition a buyer may drive.                *)
Process == [pending     |-> {"confirmed", "cancelled"},
            confirmed   |-> {"in_progress", "cancelled"},
            in_progress |-> {"shipped", "cancelled"},
            shipped     |-> {"delivered"},
            delivered   |-> {},
            cancelled   |-> {}]
BuyerTransitions == {<<"pending", "cancelled">>}

(* Seeded faults, here and below: definitions with a plausible bug, used   *)
(* only to show that the properties notice it.  This one lets the process  *)
(* be taken backwards.                                                     *)
CanTransitionEither(from, to) == to \in Process[from] \/ from \in Process[to]
CanTransition(from, to) == to \in Process[from]

AssertTransition(from, to, side) ==
  /\ CanTransition(from, to)
  /\ side = "buyer" => <<from, to>> \in BuyerTransitions

Init ==
  /\ order = [o \in Id |-> IF o \in Seed THEN Order0[o] ELSE None]
  /\ customer \in BOOLEAN
  /\ stock = Stock0
  /\ told = {}
  /\ stage = [r \in Req |-> "new"]
  /\ job = [r \in Req |-> Idle]
  /\ faults = 0 /\ history = {} /\ contended = {}

GoTo(r, next) == stage' = [stage EXCEPT ![r] = next]
End(r, outcome) == GoTo(r, outcome) /\ job' = [job EXCEPT ![r] = Idle]

-----------------------------------------------------------------------------
BeginCreate(r) ==
  /\ stage[r] = "new"
  /\ \E q \in Quantities : job' = [job EXCEPT ![r].qty = q]
  /\ GoTo(r, IF customer THEN "number" ELSE "customer")
  /\ UNCHANGED <<server, told, ghosts>>

(* ensureCustomer found nobody: the unique key on seller and buyer refuses *)
(* a second row, and nothing catches that.                                 *)
InsertCustomer(r) ==
  /\ stage[r] = "customer"
  /\ customer' = TRUE
  /\ IF customer THEN End(r, "customer_taken") ELSE GoTo(r, "number") /\ UNCHANGED job
  /\ UNCHANGED <<order, stock, told, ghosts>>

(* The highest number, or 0, and one more.                                 *)
Numbers == {order[o].number : o \in Existing}
NextNumber(r) ==
  /\ stage[r] = "number"
  /\ \E last \in {0} \cup Numbers :
       /\ \A n \in Numbers : n =< last
       /\ job' = [job EXCEPT ![r].number = last + 1]
  /\ GoTo(r, "insert")
  /\ UNCHANGED <<server, told, ghosts>>

MayRetry(attempt) == attempt < MaxRetry

(* The INSERT and the unique key on seller and number.                     *)
Insert(r) ==
  /\ stage[r] = "insert"
  /\ job[r].number \notin Numbers
  /\ order' = [order EXCEPT ![r] = [number |-> job[r].number, status |-> "pending",
                                    qty |-> job[r].qty]]
  /\ job' = [job EXCEPT ![r].order = r, ![r].to = "pending",
                        ![r].after = <<"notice", "seller">>]
  /\ history' = history \cup {[by |-> r, order |-> r, from |-> None, to |-> "pending"]}
  /\ GoTo(r, "placed")
  /\ UNCHANGED <<customer, stock, told, faults, contended>>

Collide(r) ==
  /\ stage[r] = "insert"
  /\ job[r].number \in Numbers
  /\ IF MayRetry(job[r].attempt)
     THEN GoTo(r, "number") /\ job' = [job EXCEPT ![r].attempt = @ + 1]
     ELSE End(r, "collided")
  /\ UNCHANGED <<server, told, ghosts>>

(* The request's own transaction, which wrote nothing, commits.            *)
CommitCreate(r) ==
  /\ stage[r] = "placed"
  /\ GoTo(r, "after")
  /\ UNCHANGED <<server, told, job, ghosts>>

-----------------------------------------------------------------------------
BeginTransition(r) ==
  /\ stage[r] = "new"
  /\ \E o \in Existing, to \in Statuses, side \in {"seller", "buyer"} :
       /\ AssertTransition(order[o].status, to, side)
       /\ job' = [job EXCEPT ![r].order = o, ![r].from = order[o].status,
                             ![r].to = to, ![r].qty = order[o].qty]
       /\ contended' = IF \E s \in Req : Moving(s) /\ job[s].order = o
                       THEN contended \cup {o} ELSE contended
  /\ GoTo(r, "write")
  /\ UNCHANGED <<server, told, faults, history>>

(* Fault: the post follows the flip, in the next transition.               *)
TakesOnDelivery(r) == IF job[r].to = "delivered" THEN job[r].qty ELSE 0
Takes(r) == IF job[r].to = "shipped" THEN job[r].qty ELSE 0

Covers(amount) == stock >= amount

(* Fault: only the seller's hooks are told.                                *)
ListenersOfSeller == <<"notice", "seller">>
(* The callbacks of a transition, in their order.                          *)
Listeners == <<"notice", "seller", "buyer">>

(* The post, the UPDATE by id alone, the commit.                           *)
Transition(r) ==
  LET o == job[r].order
  IN  /\ Moving(r)
      /\ Covers(Takes(r))
      /\ stock' = stock - Takes(r)
      /\ order' = [order EXCEPT ![o].status = job[r].to]
      /\ job' = [job EXCEPT ![r].after = Listeners]
      /\ history' = history \cup
           {[by |-> r, order |-> o, from |-> order[o].status, to |-> job[r].to]}
      /\ GoTo(r, "after")
      /\ UNCHANGED <<customer, told, faults, contended>>

-----------------------------------------------------------------------------
Committed(r) == stage[r] = "after"

Announcement(r, to) == [by |-> r, to |-> to, order |-> job[r].order, is |-> job[r].to]

(* One afterCommit callback; its failure is logged and swallowed.  The     *)
(* last one answers the request.                                           *)
RunCallback(r, works) ==
  /\ Committed(r)
  /\ told' = IF works THEN told \cup {Announcement(r, Head(job[r].after))} ELSE told
  /\ IF Len(job[r].after) = 1 THEN End(r, "done")
     ELSE job' = [job EXCEPT ![r].after = Tail(@)] /\ UNCHANGED stage
  /\ UNCHANGED <<server, history, contended>>

Callback(r) == RunCallback(r, TRUE) /\ UNCHANGED faults
CallbackFails(r) ==
  /\ faults < MaxFaults /\ faults' = faults + 1 /\ RunCallback(r, FALSE)

(* Fault: the callbacks run although the transaction rolled back.          *)
RollbackFlushing(r) == /\ GoTo(r, "after")
                       /\ job' = [job EXCEPT ![r].after = <<"seller">>]
Rollback(r) == End(r, "failed")

(* The ledger refuses, or the database drops the request's transaction: an *)
(* order that was placed stays.                                            *)
Fail(r) ==
  /\ stage[r] \in {"write", "placed"}
  /\ Rollback(r)
  /\ UNCHANGED <<server, told, ghosts>>

Over == {"done", "failed", "collided", "customer_taken", "dead"}

(* The process dies, and what it had in memory with it.                    *)
Crash ==
  /\ faults < MaxFaults /\ faults' = faults + 1
  /\ stage' = [r \in Req |-> IF stage[r] \in Over \cup {"new"} THEN stage[r] ELSE "dead"]
  /\ job' = [r \in Req |-> Idle]
  /\ UNCHANGED <<server, told, history, contended>>

AllAnswered == /\ \A r \in Req : stage[r] \in Over
               /\ UNCHANGED vars

Step(r) == \/ InsertCustomer(r) \/ NextNumber(r) \/ Insert(r) \/ Collide(r)
           \/ CommitCreate(r) \/ Transition(r) \/ Fail(r) \/ Callback(r)

Next == \/ \E r \in Req : BeginCreate(r) \/ BeginTransition(r) \/ Step(r)
                            \/ CallbackFails(r)
        \/ Crash
        \/ AllAnswered

Spec == Init /\ [][Next]_vars /\ \A r \in Req : WF_vars(Step(r))

-----------------------------------------------------------------------------
Parties == {"notice", "seller", "buyer"}
TypeOK ==
  /\ order \in [Id -> Order \cup {None}]
  /\ customer \in BOOLEAN
  /\ stock \in Nat
  /\ told \subseteq [by : Req, to : Parties, order : Id, is : Statuses]

Sent == {"shipped", "delivered"}
(* The shipments that were committed.                                      *)
Shipments(o) == {h \in history : h.order = o /\ h.to = "shipped"}

(***************************************************************************)
(* Stock leaves with shipments and with nothing else, and an order is      *)
(* never shipped or delivered before its stock left ("so ledger.post and   *)
(* the order update commit or roll back together").                        *)
(***************************************************************************)
Shipped == [o \in Existing |-> order[o].qty * Cardinality(Shipments(o))]
StockLeftWithShipments ==
  /\ stock = Stock0 - SumFunction(Shipped)
  /\ \A o \in {i \in Existing : i \in Seed => Order0[i].status \notin Sent} :
       order[o].status \in Sent => Shipments(o) # {}

(***************************************************************************)
(* As long as no two transitions were at an order at once it follows the   *)
(* process: no step back, no step skipped, one shipment, and nothing left  *)
(* for a cancelled order.  Transitions that overlap decide on what they    *)
(* read, and the UPDATE does not look again.                               *)
(***************************************************************************)
FollowsProcess ==
  /\ \A h \in history : h.order \notin contended =>
       \/ h.from = None /\ h.to = "pending"
       \/ h.from # None /\ h.to \in Process[h.from]
  /\ \A o \in Existing \ contended :
       /\ \A g, h \in Shipments(o) : g = h
       /\ order[o].status = "cancelled" => Shipments(o) = {}

(***************************************************************************)
(* Nobody is told of a change that did not commit ("a rolled-back order    *)
(* change never leaves a delivery behind").                                *)
(***************************************************************************)
ToldIsTrue ==
  \A a \in told : \E h \in history : h.by = a.by /\ h.order = a.order /\ h.to = a.is

(***************************************************************************)
(* Whoever must hear of a change hears of it, unless the process died, a   *)
(* callback failed, or the request failed after it had placed its order:   *)
(* the announcements wait in memory for the request's transaction, not in  *)
(* the transaction that placed the order (known limit of D-044).           *)
(***************************************************************************)
Audience(h) == IF h.from = None THEN {"notice", "seller"} ELSE {"notice", "seller", "buyer"}
ToldInTheEnd ==
  \A r \in Req :
    (\E h \in history : h.by = r)
      ~> \/ faults > 0
         \/ stage[r] = "failed"
         \/ \A h \in history : h.by = r =>
              \A p \in Audience(h) : \E a \in told : a.by = r /\ a.to = p
=============================================================================
