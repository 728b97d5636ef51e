-------------------------- MODULE MarketplaceProofs --------------------------
(***************************************************************************)
(* For any number of requests: an order no two transitions were at once    *)
(* follows the process, and nobody is told of what did not commit.  The    *)
(* first needs that a lone transition decided on a status that is still    *)
(* the order's, and that the history of an order agrees with its status.   *)
(* And for any deliveries, webhooks, drains, crashes and bounds of the     *)
(* outbox: every try of a delivery is counted but for the crashes, and     *)
(* what no two drains held at once is tried a bounded number of times and  *)
(* stays settled.                                                          *)
(***************************************************************************)
EXTENDS Orders, WebhookOutbox, SumTheorems, SequenceTheorems, FiniteSetTheorems, TLAPS

Job == [order : Id \cup {None}, from : Statuses \cup {None},
        to : Statuses \cup {None}, qty : Nat, number : Nat, attempt : Nat,
        after : Seq(Parties)]
Before == {"new", "customer", "number", "insert"}
Change == [by : Req, order : Id, from : Statuses \cup {None}, to : Statuses]

Typed == /\ TypeOK
         /\ stage \in [Req -> Before \cup {"write", "placed", "after"} \cup Over]
         /\ job \in [Req -> Job]
         /\ history \subseteq Change
         /\ contended \subseteq Id

(* A request that has not placed its order owns no order yet.              *)
NotPlaced == \A r \in Req : stage[r] \in Before => order[r] = None

(* What a transition decided on is still so, as long as it is alone.       *)
DecidedOnWhatIs ==
  \A r \in Req : Moving(r) =>
    /\ job[r].order \in Existing /\ job[r].to \in Process[job[r].from]
    /\ job[r].from \in Statuses
    /\ job[r].order \notin contended => order[job[r].order].status = job[r].from
Alone ==
  \A r, s \in Req : Moving(r) /\ Moving(s) /\ r # s /\ job[r].order = job[s].order
                      => job[r].order \in contended

(* The history of an order agrees with its status.                         *)
HistoryFits ==
  /\ \A h \in history : h.order \in Existing
  /\ \A o \in Existing \ contended : Shipments(o) # {} => order[o].status \in Sent

(* A request that is past its commit has its change in the history, and    *)
(* somebody left to tell.                                                  *)
Recorded ==
  \A r \in Req : stage[r] \in {"placed", "after"} =>
    /\ job[r].after # <<>>
    /\ \E h \in history : h.by = r /\ h.order = job[r].order /\ h.to = job[r].to

OrdersInv == /\ Typed /\ NotPlaced /\ DecidedOnWhatIs /\ Alone /\ HistoryFits
             /\ Recorded /\ FollowsProcess /\ ToldIsTrue

-----------------------------------------------------------------------------
LEMMA ProcessFacts ==
  ASSUME NEW f \in Statuses, NEW t \in Process[f]
  PROVE  /\ t \in Statuses
         /\ f \in Sent => t \in Sent
         /\ t \in {"shipped", "cancelled"} => f \notin Sent
BY DEF Statuses, Process, Sent

LEMMA InitInv == Init => OrdersInv
<1> SUFFICES ASSUME Init PROVE OrdersInv
  OBVIOUS
<1> USE OrdersAssumption, NoneAssumption
<1>1. TypeOK
  BY DEF Init, TypeOK, Id
<1>2. job \in [Req -> Job]
  BY DEF Init, Idle, Job
<1>3. Typed
  BY <1>1, <1>2 DEF Init, Typed, Before
<1>4. NotPlaced
  BY DEF Init, NotPlaced, Id
<1>5. DecidedOnWhatIs /\ Alone /\ HistoryFits /\ Recorded /\ FollowsProcess /\ ToldIsTrue
  BY DEF Init, DecidedOnWhatIs, Alone, HistoryFits, Recorded, FollowsProcess, ToldIsTrue,
         Moving, Shipments
<1> QED BY <1>3, <1>4, <1>5 DEF OrdersInv

(* A step of one request that moves no order and tells only the truth, and *)
(* leaves the request outside a transition.                                *)
LEMMA TellingStep ==
  ASSUME OrdersInv, NEW r \in Req, Typed', ToldIsTrue',
         UNCHANGED <<order, history, contended>>,
         \A q \in Req \ {r} : job'[q] = job[q] /\ stage'[q] = stage[q],
         stage'[r] # "write",
         stage'[r] \in Before => stage[r] \in Before,
         stage'[r] \in {"placed", "after"} =>
           /\ stage[r] \in {"placed", "after"}
           /\ job'[r].order = job[r].order /\ job'[r].to = job[r].to
           /\ job'[r].after # <<>>
  PROVE  OrdersInv'
<1>1. NotPlaced'
  BY DEF OrdersInv, NotPlaced
<1>2. DecidedOnWhatIs' /\ Alone'
  BY DEF OrdersInv, DecidedOnWhatIs, Alone, Moving, Existing
<1>3. HistoryFits' /\ FollowsProcess'
  BY DEF OrdersInv, HistoryFits, FollowsProcess, Existing, Shipments
<1>4. Recorded'
  BY DEF OrdersInv, Recorded
<1> QED BY <1>1, <1>2, <1>3, <1>4 DEF OrdersInv

(* The same, telling nobody.                                               *)
LEMMA QuietStep ==
  ASSUME OrdersInv, NEW r \in Req, Typed',
         UNCHANGED <<order, history, contended, told>>,
         \A q \in Req \ {r} : job'[q] = job[q] /\ stage'[q] = stage[q],
         stage'[r] # "write",
         stage'[r] \in Before => stage[r] \in Before,
         stage'[r] \in {"placed", "after"} =>
           stage[r] \in {"placed", "after"} /\ job'[r] = job[r]
  PROVE  OrdersInv'
<1>1. ToldIsTrue'
  BY DEF OrdersInv, ToldIsTrue
<1>2. stage[r] \in {"placed", "after"} => job[r].after # <<>>
  BY DEF OrdersInv, Recorded
<1> QED BY <1>1, <1>2, TellingStep

-----------------------------------------------------------------------------
LEMMA EndFacts ==
  ASSUME job \in [Req -> Job],
         stage \in [Req -> Before \cup {"write", "placed", "after"} \cup Over],
         NEW r \in Req, NEW outcome \in Over, End(r, outcome)
  PROVE  /\ job' \in [Req -> Job] /\ stage'[r] = outcome
         /\ stage' \in [Req -> Before \cup {"write", "placed", "after"} \cup Over]
         /\ \A q \in Req \ {r} : job'[q] = job[q] /\ stage'[q] = stage[q]
<1>1. Idle \in Job
  BY DEF Idle, Job
<1> QED BY <1>1 DEF End, GoTo

(* Writing one number of a job leaves it a job.                            *)
LEMMA NumberFacts ==
  ASSUME job \in [Req -> Job], NEW r \in Req, NEW n \in Nat
  PROVE  /\ [job EXCEPT ![r].qty = n] \in [Req -> Job]
         /\ [job EXCEPT ![r].number = n] \in [Req -> Job]
         /\ [job EXCEPT ![r].attempt = n] \in [Req -> Job]
BY DEF Job

LEMMA BeginCreateInv == ASSUME OrdersInv, NEW r \in Req, BeginCreate(r) PROVE OrdersInv'
<1>1. PICK q \in Quantities : job' = [job EXCEPT ![r].qty = q]
  BY DEF BeginCreate
<1>2. q \in Nat
  BY OrdersAssumption
<1>3. job' \in [Req -> Job]
  BY <1>1, <1>2, NumberFacts DEF OrdersInv, Typed
<1>4. Typed'
  BY <1>3 DEF OrdersInv, Typed, TypeOK, BeginCreate, GoTo, server, ghosts, Before
<1>5. stage[r] = "new" /\ stage'[r] \in {"number", "customer"}
  BY DEF OrdersInv, Typed, BeginCreate, GoTo
<1>6. \A p \in Req \ {r} : job'[p] = job[p] /\ stage'[p] = stage[p]
  BY <1>1 DEF OrdersInv, Typed, BeginCreate, GoTo
<1>7. UNCHANGED <<order, history, contended, told>>
  BY DEF BeginCreate, server, ghosts
<1> QED BY <1>4, <1>5, <1>6, <1>7, QuietStep DEF Before

LEMMA InsertCustomerInv ==
  ASSUME OrdersInv, NEW r \in Req, InsertCustomer(r) PROVE OrdersInv'
<1>1. UNCHANGED <<order, history, contended, told, stock>> /\ customer' = TRUE
  BY DEF InsertCustomer, ghosts
<1>2. /\ job' \in [Req -> Job]
      /\ stage' \in [Req -> Before \cup {"write", "placed", "after"} \cup Over]
      /\ \A p \in Req \ {r} : job'[p] = job[p] /\ stage'[p] = stage[p]
      /\ stage'[r] \in {"number", "customer_taken"}
  <2>1. CASE customer
    BY <2>1, EndFacts DEF OrdersInv, Typed, InsertCustomer, Over
  <2>2. CASE ~customer
    BY <2>2 DEF OrdersInv, Typed, InsertCustomer, GoTo, Before
  <2> QED BY <2>1, <2>2
<1>3. Typed'
  BY <1>1, <1>2 DEF OrdersInv, Typed, TypeOK
<1>4. stage[r] = "customer"
  BY DEF InsertCustomer
<1> QED BY <1>1, <1>2, <1>3, <1>4, QuietStep DEF Before

LEMMA NextNumberInv == ASSUME OrdersInv, NEW r \in Req, NextNumber(r) PROVE OrdersInv'
<1>1. PICK last \in {0} \cup Numbers : job' = [job EXCEPT ![r].number = last + 1]
  BY DEF NextNumber
<1>2. last + 1 \in Nat
  <2>1. last \in Nat
    BY DEF OrdersInv, Typed, TypeOK, Numbers, Existing, Order
  <2> QED BY <2>1
<1>3. job' \in [Req -> Job]
  BY <1>1, <1>2, NumberFacts DEF OrdersInv, Typed
<1>4. Typed'
  BY <1>3 DEF OrdersInv, Typed, TypeOK, NextNumber, GoTo, server, ghosts, Before
<1>5. stage[r] = "number" /\ stage'[r] = "insert"
  BY DEF OrdersInv, Typed, NextNumber, GoTo
<1>6. \A p \in Req \ {r} : job'[p] = job[p] /\ stage'[p] = stage[p]
  BY <1>1 DEF OrdersInv, Typed, NextNumber, GoTo
<1>7. UNCHANGED <<order, history, contended, told>>
  BY DEF NextNumber, server, ghosts
<1> QED BY <1>4, <1>5, <1>6, <1>7, QuietStep DEF Before

LEMMA CollideInv == ASSUME OrdersInv, NEW r \in Req, Collide(r) PROVE OrdersInv'
<1>1. UNCHANGED <<order, customer, stock, told, history, contended>> /\ stage[r] = "insert"
  BY DEF Collide, server, ghosts
<1>2. /\ job' \in [Req -> Job]
      /\ stage' \in [Req -> Before \cup {"write", "placed", "after"} \cup Over]
      /\ \A p \in Req \ {r} : job'[p] = job[p] /\ stage'[p] = stage[p]
      /\ stage'[r] \in {"number", "collided"}
  <2>1. CASE MayRetry(job[r].attempt)
    <3>1. job[r].attempt + 1 \in Nat
      BY DEF OrdersInv, Typed, Job
    <3>2. job' = [job EXCEPT ![r].attempt = job[r].attempt + 1] /\ GoTo(r, "number")
      BY <2>1 DEF Collide
    <3>3. job' \in [Req -> Job]
      BY <3>1, <3>2, NumberFacts DEF OrdersInv, Typed
    <3> QED BY <3>2, <3>3 DEF OrdersInv, Typed, GoTo, Before
  <2>2. CASE ~MayRetry(job[r].attempt)
    BY <2>2, EndFacts DEF OrdersInv, Typed, Collide, Over
  <2> QED BY <2>1, <2>2
<1>3. Typed'
  BY <1>1, <1>2 DEF OrdersInv, Typed, TypeOK
<1> QED BY <1>1, <1>2, <1>3, QuietStep DEF Before

LEMMA CommitCreateInv == ASSUME OrdersInv, NEW r \in Req, CommitCreate(r) PROVE OrdersInv'
<1>1. Typed'
  BY DEF OrdersInv, Typed, TypeOK, CommitCreate, GoTo, server, ghosts
<1>2. /\ stage[r] = "placed" /\ stage'[r] = "after" /\ job' = job
      /\ \A p \in Req \ {r} : stage'[p] = stage[p]
      /\ UNCHANGED <<order, history, contended, told>>
  BY DEF OrdersInv, Typed, CommitCreate, GoTo, server, ghosts
<1> QED BY <1>1, <1>2, QuietStep DEF Before

LEMMA FailInv == ASSUME OrdersInv, NEW r \in Req, Fail(r) PROVE OrdersInv'
<1>1. UNCHANGED <<order, customer, stock, told, history, contended>>
  BY DEF Fail, server, ghosts
<1>2. /\ job' \in [Req -> Job] /\ stage'[r] = "failed"
      /\ stage' \in [Req -> Before \cup {"write", "placed", "after"} \cup Over]
      /\ \A p \in Req \ {r} : job'[p] = job[p] /\ stage'[p] = stage[p]
  BY EndFacts DEF OrdersInv, Typed, Fail, Rollback, Over
<1>3. Typed'
  BY <1>1, <1>2 DEF OrdersInv, Typed, TypeOK
<1> QED BY <1>1, <1>2, <1>3, QuietStep DEF Before

-----------------------------------------------------------------------------
LEMMA InsertInv == ASSUME OrdersInv, NEW r \in Req, Insert(r) PROVE OrdersInv'
<1> DEFINE inserted == [number |-> job[r].number, status |-> "pending", qty |-> job[r].qty]
           change == [by |-> r, order |-> r, from |-> None, to |-> "pending"]
           wanted == [job[r] EXCEPT !.order = r, !.to = "pending",
                                    !.after = <<"notice", "seller">>]
<1>1. /\ order' = [order EXCEPT ![r] = inserted] /\ history' = history \cup {change}
      /\ stage[r] = "insert" /\ stage' = [stage EXCEPT ![r] = "placed"]
      /\ UNCHANGED <<customer, stock, told, contended>>
  BY DEF Insert, GoTo
<1>2. job' = [job EXCEPT ![r] = wanted]
  BY DEF Insert, OrdersInv, Typed, Job
<1>3. job[r] \in Job /\ r \in Id /\ r \notin Existing
  BY <1>1 DEF OrdersInv, Typed, Id, NotPlaced, Before, Existing
<1>4. inserted \in Order /\ change \in Change
  BY <1>3 DEF Job, Order, Statuses, Change
<1>5. wanted \in Job
  <2>1. <<"notice", "seller">> \in Seq(Parties)
    BY DEF Parties
  <2> QED BY <1>3, <2>1 DEF Job, Statuses
<1> HIDE DEF inserted, wanted
<1>6. Typed'
  BY <1>1, <1>2, <1>4, <1>5 DEF OrdersInv, Typed, TypeOK
<1>7. order' \in [Id -> Order \cup {None}] /\ order'[r] # None
      /\ \A o \in Id \ {r} : order'[o] = order[o]
  BY <1>1, <1>3, <1>4, NoneAssumption DEF OrdersInv, Typed, TypeOK
<1>8. Existing' = Existing \cup {r}
  BY <1>7, <1>3 DEF Existing
<1>9. \A o \in Id : Shipments(o)' = Shipments(o)
  BY <1>1 DEF Shipments
<1>10. Shipments(r) = {}
  BY <1>3 DEF OrdersInv, HistoryFits, Shipments
<1>11. /\ stage'[r] = "placed" /\ job'[r] = wanted
       /\ \A q \in Req \ {r} : job'[q] = job[q] /\ stage'[q] = stage[q]
  BY <1>1, <1>2 DEF OrdersInv, Typed
<1>12. NotPlaced'
  BY <1>7, <1>11 DEF OrdersInv, NotPlaced, Id, Before
<1>13. DecidedOnWhatIs' /\ Alone'
  BY <1>1, <1>3, <1>7, <1>8, <1>11 DEF OrdersInv, DecidedOnWhatIs, Alone, Moving, Existing
<1>14. HistoryFits'
  <2>1. \A o \in Existing' : o \in Id
    BY DEF Existing
  <2>2. \A h \in history' : h.order \in Existing'
    BY <1>1, <1>8 DEF OrdersInv, HistoryFits
  <2>3. ASSUME NEW o \in Existing' \ contended', Shipments(o)' # {}
        PROVE  order'[o].status \in Sent
    BY <1>1, <1>7, <1>8, <1>9, <1>10, <2>1, <2>3 DEF OrdersInv, HistoryFits
  <2> QED BY <2>2, <2>3 DEF HistoryFits
<1>15. Recorded'
  <2>1. wanted.order = r /\ wanted.to = "pending" /\ wanted.after # <<>>
    BY <1>3 DEF wanted, Job
  <2>2. change \in history' /\ change.by = r /\ change.order = r /\ change.to = "pending"
    BY <1>1
  <2>3. \A q \in Req \ {r} : stage'[q] \in {"placed", "after"} =>
          /\ job'[q].after # <<>>
          /\ \E h \in history' : h.by = q /\ h.order = job'[q].order /\ h.to = job'[q].to
    BY <1>1, <1>11 DEF OrdersInv, Recorded
  <2>4. /\ job'[r].after # <<>>
        /\ \E h \in history' : h.by = r /\ h.order = job'[r].order /\ h.to = job'[r].to
    BY <1>11, <2>1, <2>2
  <2> QED BY <2>3, <2>4 DEF Recorded
<1>16. FollowsProcess'
  <2>1. \A o \in Existing' : o \in Id
    BY DEF Existing
  <2>2. ASSUME NEW h \in history', h.order \notin contended'
        PROVE  \/ h.from = None /\ h.to = "pending"
               \/ h.from # None /\ h.to \in Process[h.from]
    BY <1>1, <2>2 DEF OrdersInv, FollowsProcess
  <2>3. ASSUME NEW o \in Existing' \ contended'
        PROVE  /\ \A g, h \in Shipments(o)' : g = h
               /\ order'[o].status = "cancelled" => Shipments(o)' = {}
    BY <1>1, <1>7, <1>8, <1>9, <1>10, <2>1 DEF OrdersInv, FollowsProcess
  <2> QED BY <2>2, <2>3 DEF FollowsProcess
<1>17. ToldIsTrue'
  BY <1>1 DEF OrdersInv, ToldIsTrue
<1> QED BY <1>6, <1>12, <1>13, <1>14, <1>15, <1>16, <1>17 DEF OrdersInv

LEMMA BeginTransitionInv ==
  ASSUME OrdersInv, NEW r \in Req, BeginTransition(r) PROVE OrdersInv'
<1>1. PICK o \in Existing, to \in Statuses, side \in {"seller", "buyer"} :
        /\ AssertTransition(order[o].status, to, side)
        /\ job' = [job EXCEPT ![r].order = o, ![r].from = order[o].status,
                              ![r].to = to, ![r].qty = order[o].qty]
        /\ contended' = IF \E s \in Req : Moving(s) /\ job[s].order = o
                        THEN contended \cup {o} ELSE contended
  BY DEF BeginTransition
<1> DEFINE wanted == [job[r] EXCEPT !.order = o, !.from = order[o].status,
                                    !.to = to, !.qty = order[o].qty]
<1>2. /\ stage[r] = "new" /\ stage' = [stage EXCEPT ![r] = "write"]
      /\ UNCHANGED <<order, customer, stock, told, history>>
  BY DEF BeginTransition, GoTo, server
<1>3. job' = [job EXCEPT ![r] = wanted]
  BY <1>1 DEF OrdersInv, Typed, Job
<1>4. o \in Id /\ order[o] \in Order /\ job[r] \in Job
  BY DEF OrdersInv, Typed, TypeOK, Existing
<1>5. wanted \in Job
  BY <1>4 DEF Job, Order
<1>6. /\ wanted.order = o /\ wanted.to = to /\ wanted.from = order[o].status
      /\ order[o].status \in Statuses /\ to \in Process[order[o].status]
  BY <1>1, <1>4 DEF Job, Order, AssertTransition, CanTransition
<1> HIDE DEF wanted
<1>7. /\ stage'[r] = "write" /\ job'[r] = wanted
      /\ \A q \in Req \ {r} : job'[q] = job[q] /\ stage'[q] = stage[q]
  BY <1>2, <1>3 DEF OrdersInv, Typed
<1>8. contended \subseteq contended' /\ contended' \subseteq Id
  BY <1>1, <1>4 DEF OrdersInv, Typed
<1>9. Typed'
  BY <1>2, <1>3, <1>5, <1>8 DEF OrdersInv, Typed, TypeOK
<1>10. NotPlaced' /\ Recorded'
  BY <1>2, <1>7 DEF OrdersInv, NotPlaced, Recorded, Before
<1>11. DecidedOnWhatIs'
  <2> SUFFICES ASSUME NEW q \in Req, Moving(q)'
               PROVE  /\ job'[q].order \in Existing' /\ job'[q].to \in Process[job'[q].from]
                      /\ job'[q].from \in Statuses
                      /\ job'[q].order \notin contended' =>
                           order'[job'[q].order].status = job'[q].from
    BY DEF DecidedOnWhatIs
  <2>1. order' = order /\ Existing' = Existing
    BY <1>2 DEF Existing
  <2>2. CASE q = r
    BY <1>1, <1>6, <1>7, <2>1, <2>2
  <2>3. CASE q # r
    <3>1. job'[q] = job[q] /\ Moving(q)
      BY <1>7, <2>3 DEF Moving
    <3> QED BY <1>8, <2>1, <3>1 DEF OrdersInv, DecidedOnWhatIs
  <2> QED BY <2>2, <2>3
<1>12. Alone'
  <2>1. \A s \in Req : Moving(s) /\ job[s].order = o => o \in contended'
    BY <1>1
  <2>2. \A q \in Req \ {r} : Moving(q)' <=> Moving(q)
    BY <1>7 DEF Moving
  <2>3. ASSUME NEW q \in Req, NEW s \in Req, Moving(q)', Moving(s)', q # s,
               job'[q].order = job'[s].order
        PROVE  job'[q].order \in contended'
    <3>1. CASE q = r
      BY <1>6, <1>7, <2>1, <2>2, <2>3, <3>1
    <3>2. CASE s = r
      BY <1>6, <1>7, <2>1, <2>2, <2>3, <3>2
    <3>3. CASE q # r /\ s # r
      BY <1>7, <1>8, <2>2, <2>3, <3>3 DEF OrdersInv, Alone
    <3> QED BY <3>1, <3>2, <3>3
  <2> QED BY <2>3 DEF Alone
<1>13. HistoryFits' /\ FollowsProcess' /\ ToldIsTrue'
  BY <1>2, <1>8 DEF OrdersInv, HistoryFits, FollowsProcess, ToldIsTrue, Existing, Shipments
<1> QED BY <1>9, <1>10, <1>11, <1>12, <1>13 DEF OrdersInv

(* A transition flips the status it decided on, unless another one is at   *)
(* the same order.                                                         *)
LEMMA TransitionInv == ASSUME OrdersInv, NEW r \in Req, Transition(r) PROVE OrdersInv'
<1>0. PICK o \in Id, to \in Statuses, was \in Statuses :
        o = job[r].order /\ to = job[r].to /\ was = order[o].status
  <2>1. Moving(r)
    BY DEF Transition
  <2>2. job[r].order \in Id /\ job[r].to \in Statuses /\ order[job[r].order] \in Order
    BY <2>1, ProcessFacts DEF OrdersInv, Typed, TypeOK, DecidedOnWhatIs, Existing
  <2> QED BY <2>2 DEF Order
<1> DEFINE change == [by |-> r, order |-> o, from |-> was, to |-> to]
<1>1. /\ stage[r] = "write" /\ stage' = [stage EXCEPT ![r] = "after"]
      /\ stock >= Takes(r) /\ stock' = stock - Takes(r)
      /\ order' = [order EXCEPT ![o].status = to]
      /\ job' = [job EXCEPT ![r].after = Listeners]
      /\ history' = history \cup {change}
      /\ UNCHANGED <<customer, told, contended>>
  BY <1>0 DEF Transition, GoTo, Moving, Covers
<1>2. /\ o \in Id /\ o \in Existing /\ order[o] \in Order /\ was \in Statuses
      /\ job[r] \in Job /\ to \in Statuses /\ to \in Process[job[r].from]
      /\ o \notin contended => was = job[r].from
  BY <1>0, <1>1 DEF OrdersInv, Typed, TypeOK, DecidedOnWhatIs, Moving, Existing
<1>3. stock' \in Nat
  <2>1. Takes(r) \in Nat
    BY <1>2 DEF Takes, Job
  <2> QED BY <1>1, <2>1 DEF OrdersInv, Typed, TypeOK
<1>4. /\ order' \in [Id -> Order \cup {None}]
      /\ order'[o] # None /\ order'[o].status = to
      /\ \A i \in Id \ {o} : order'[i] = order[i]
  <2>1. [order[o] EXCEPT !.status = to] \in Order
    BY <1>2 DEF Order
  <2>2. order' = [order EXCEPT ![o] = [order[o] EXCEPT !.status = to]]
    BY <1>1, <1>2 DEF OrdersInv, Typed, TypeOK
  <2>3. [order[o] EXCEPT !.status = to].status = to
    BY <1>2 DEF Order
  <2> QED BY <1>2, <2>1, <2>2, <2>3, NoneAssumption DEF OrdersInv, Typed, TypeOK
<1>5. /\ job' \in [Req -> Job] /\ job'[r].order = o /\ job'[r].to = to
      /\ job'[r].after # <<>> /\ stage'[r] = "after"
      /\ \A q \in Req \ {r} : job'[q] = job[q] /\ stage'[q] = stage[q]
  <2>1. Listeners \in Seq(Parties) /\ Listeners # <<>>
    BY DEF Listeners, Parties
  <2> QED BY <1>0, <1>1, <1>2, <2>1 DEF OrdersInv, Typed, Job
<1>6. Existing' = Existing
  BY <1>2, <1>4 DEF Existing
<1>7. change \in Change
  BY <1>2 DEF Change
<1>8. Typed'
  BY <1>1, <1>3, <1>4, <1>5, <1>7 DEF OrdersInv, Typed, TypeOK
<1>9. NotPlaced'
  BY <1>2, <1>4, <1>5 DEF OrdersInv, NotPlaced, Before, Existing, Id
<1>10. \A q \in Req : Moving(q)' => q # r /\ Moving(q)
  BY <1>5 DEF Moving
<1>11. Alone'
  BY <1>1, <1>5, <1>10 DEF OrdersInv, Alone
<1>12. DecidedOnWhatIs'
  <2> SUFFICES ASSUME NEW q \in Req, Moving(q)'
               PROVE  /\ job'[q].order \in Existing' /\ job'[q].to \in Process[job'[q].from]
                      /\ job'[q].from \in Statuses
                      /\ job'[q].order \notin contended' =>
                           order'[job'[q].order].status = job'[q].from
    BY DEF DecidedOnWhatIs
  <2>1. q # r /\ Moving(q) /\ job'[q] = job[q]
    BY <1>5, <1>10
  <2>2. job[q].order = o => o \in contended
    BY <1>0, <1>1, <2>1 DEF OrdersInv, Alone, Moving
  <2>3. job[q].order \in Id
    BY <2>1 DEF OrdersInv, DecidedOnWhatIs, Existing
  <2> QED BY <1>1, <1>4, <1>6, <2>1, <2>2, <2>3 DEF OrdersInv, DecidedOnWhatIs
<1>13. \A i \in Id \ {o} : Shipments(i)' = Shipments(i)
  BY <1>1 DEF Shipments
<1>14. Shipments(o)' = IF to = "shipped" THEN Shipments(o) \cup {change} ELSE Shipments(o)
  BY <1>1 DEF Shipments
<1>15. ASSUME o \notin contended
       PROVE  /\ Shipments(o)' # {} => to \in Sent
              /\ \A g, h \in Shipments(o)' : g = h
              /\ to = "cancelled" => Shipments(o)' = {}
              /\ to \in Process[was]
  <2>1. to \in Process[was]
    BY <1>2, <1>15
  <2>2. /\ was \in Sent => to \in Sent
        /\ to \in {"shipped", "cancelled"} => was \notin Sent
    BY <1>2, <2>1, ProcessFacts
  <2>3. /\ Shipments(o) # {} => was \in Sent
        /\ \A g, h \in Shipments(o) : g = h
    BY <1>0, <1>2, <1>15 DEF OrdersInv, HistoryFits, FollowsProcess
  <2>4. CASE to = "shipped"
    BY <1>14, <2>1, <2>2, <2>3, <2>4 DEF Sent
  <2>5. CASE to # "shipped"
    BY <1>14, <2>1, <2>2, <2>3, <2>5
  <2> QED BY <2>4, <2>5
<1>16. HistoryFits'
  <2>1. \A h \in history' : h.order \in Existing'
    BY <1>1, <1>2, <1>6 DEF OrdersInv, HistoryFits
  <2>2. ASSUME NEW i \in Existing' \ contended', Shipments(i)' # {}
        PROVE  order'[i].status \in Sent
    <3>1. i \in Id /\ i \in Existing \ contended
      BY <1>1, <1>6 DEF Existing
    <3>2. CASE i = o
      BY <1>4, <1>15, <2>2, <3>1, <3>2
    <3>3. CASE i # o
      BY <1>4, <1>13, <2>2, <3>1, <3>3 DEF OrdersInv, HistoryFits
    <3> QED BY <3>2, <3>3
  <2> QED BY <2>1, <2>2 DEF HistoryFits
<1>17. FollowsProcess'
  <2>1. ASSUME NEW h \in history', h.order \notin contended'
        PROVE  \/ h.from = None /\ h.to = "pending"
               \/ h.from # None /\ h.to \in Process[h.from]
    <3>1. CASE h \in history
      BY <1>1, <2>1, <3>1 DEF OrdersInv, FollowsProcess
    <3>2. CASE h = change
      BY <1>1, <1>2, <1>15, <2>1, <3>2, NoneAssumption
    <3> QED BY <1>1, <3>1, <3>2
  <2>2. ASSUME NEW i \in Existing' \ contended'
        PROVE  /\ \A g, h \in Shipments(i)' : g = h
               /\ order'[i].status = "cancelled" => Shipments(i)' = {}
    <3>1. i \in Id /\ i \in Existing \ contended
      BY <1>1, <1>6 DEF Existing
    <3>2. CASE i = o
      BY <1>4, <1>15, <3>1, <3>2
    <3>3. CASE i # o
      BY <1>4, <1>13, <3>1, <3>3 DEF OrdersInv, FollowsProcess
    <3> QED BY <3>2, <3>3
  <2> QED BY <2>1, <2>2 DEF FollowsProcess
<1>18. Recorded'
  <2>1. change \in history' /\ change.by = r /\ change.order = o /\ change.to = to
    BY <1>1
  <2>2. \A q \in Req \ {r} : stage'[q] \in {"placed", "after"} =>
          /\ job'[q].after # <<>>
          /\ \E h \in history' : h.by = q /\ h.order = job'[q].order /\ h.to = job'[q].to
    BY <1>1, <1>5 DEF OrdersInv, Recorded
  <2>3. /\ job'[r].after # <<>>
        /\ \E h \in history' : h.by = r /\ h.order = job'[r].order /\ h.to = job'[r].to
    BY <1>5, <2>1
  <2> QED BY <2>2, <2>3 DEF Recorded
<1>19. ToldIsTrue'
  BY <1>1 DEF OrdersInv, ToldIsTrue
<1> QED BY <1>8, <1>9, <1>11, <1>12, <1>16, <1>17, <1>18, <1>19 DEF OrdersInv

-----------------------------------------------------------------------------
(* A callback tells of the change its request has committed.               *)
LEMMA RunCallbackInv ==
  ASSUME OrdersInv, NEW r \in Req, NEW works \in BOOLEAN, RunCallback(r, works)
  PROVE  OrdersInv'
<1> DEFINE heard == Head(job[r].after)
<1>1. /\ stage[r] = "after" /\ UNCHANGED <<order, customer, stock, history, contended>>
      /\ told' = IF works THEN told \cup {Announcement(r, heard)} ELSE told
  BY DEF RunCallback, Committed, server
<1>2. /\ job[r].after \in Seq(Parties) /\ job[r].after # <<>> /\ job[r] \in Job
      /\ \E h \in history : h.by = r /\ h.order = job[r].order /\ h.to = job[r].to
  BY <1>1 DEF OrdersInv, Typed, Job, Recorded
<1>3. heard \in Parties /\ Tail(job[r].after) \in Seq(Parties)
  BY <1>2
<1>4. job[r].order \in Id /\ job[r].to \in Statuses
  BY <1>2 DEF OrdersInv, Typed, Change
<1>5. told' \subseteq [by : Req, to : Parties, order : Id, is : Statuses]
  BY <1>1, <1>3, <1>4 DEF OrdersInv, Typed, TypeOK, Announcement
<1>6. ToldIsTrue'
  <2>1. \A a \in told' : a \in told \/ a = Announcement(r, heard)
    BY <1>1
  <2>2. \E h \in history : /\ h.by = Announcement(r, heard).by
                           /\ h.order = Announcement(r, heard).order
                           /\ h.to = Announcement(r, heard).is
    BY <1>2 DEF Announcement
  <2> QED BY <1>1, <2>1, <2>2 DEF OrdersInv, ToldIsTrue
<1>7. CASE Len(job[r].after) = 1
  <2>1. /\ job' \in [Req -> Job] /\ stage'[r] = "done"
        /\ stage' \in [Req -> Before \cup {"write", "placed", "after"} \cup Over]
        /\ \A q \in Req \ {r} : job'[q] = job[q] /\ stage'[q] = stage[q]
    BY <1>7, EndFacts DEF OrdersInv, Typed, RunCallback, Over
  <2>2. Typed'
    BY <1>1, <1>5, <2>1 DEF OrdersInv, Typed, TypeOK
  <2> QED BY <1>1, <1>6, <2>1, <2>2, TellingStep DEF Before
<1>8. CASE Len(job[r].after) # 1
  <2>1. job' = [job EXCEPT ![r].after = Tail(job[r].after)] /\ stage' = stage
    BY <1>8 DEF RunCallback
  <2>2. job' \in [Req -> Job]
    BY <1>3, <2>1 DEF OrdersInv, Typed, Job
  <2>3. /\ job'[r].order = job[r].order /\ job'[r].to = job[r].to
        /\ job'[r].after = Tail(job[r].after)
        /\ \A q \in Req \ {r} : job'[q] = job[q] /\ stage'[q] = stage[q]
    BY <1>2, <2>1 DEF OrdersInv, Typed, Job
  <2>4. Tail(job[r].after) # <<>>
    <3>1. ASSUME NEW s \in Seq(Parties), s # <<>>, Len(s) # 1 PROVE Tail(s) # <<>>
      <4>1. Len(s) \in Nat /\ Len(s) # 0 /\ Len(s) # 1
        BY <3>1, EmptySeq
      <4>2. Len(Tail(s)) # 0
        BY <3>1, <4>1
      <4> QED BY <4>2, EmptySeq
    <3> QED BY <1>2, <1>8, <3>1
  <2>5. Typed'
    BY <1>1, <1>5, <2>1, <2>2 DEF OrdersInv, Typed, TypeOK
  <2> QED BY <1>1, <1>6, <2>1, <2>3, <2>4, <2>5, TellingStep DEF Before
<1> QED BY <1>7, <1>8

LEMMA CrashInv == ASSUME OrdersInv, Crash PROVE OrdersInv'
<1>1. /\ UNCHANGED <<order, customer, stock, told, history, contended>>
      /\ job' = [r \in Req |-> Idle]
      /\ stage' = [r \in Req |-> IF stage[r] \in Over \cup {"new"} THEN stage[r] ELSE "dead"]
  BY DEF Crash, server
<1>2. \A r \in Req : /\ stage'[r] \in Over \cup {"new"}
                     /\ stage'[r] = "new" => stage[r] = "new"
  BY <1>1 DEF Over
<1>3. Idle \in Job
  BY DEF Idle, Job
<1>4. stage' \in [Req -> Before \cup {"write", "placed", "after"} \cup Over]
  BY <1>1, <1>2 DEF Before
<1>5. Typed'
  BY <1>1, <1>3, <1>4 DEF OrdersInv, Typed, TypeOK
<1>6. NotPlaced' /\ Recorded' /\ DecidedOnWhatIs' /\ Alone'
  BY <1>1, <1>2 DEF OrdersInv, NotPlaced, Recorded, DecidedOnWhatIs, Alone, Moving, Over, Before
<1>7. HistoryFits' /\ FollowsProcess' /\ ToldIsTrue'
  BY <1>1 DEF OrdersInv, HistoryFits, FollowsProcess, ToldIsTrue, Existing, Shipments
<1> QED BY <1>5, <1>6, <1>7 DEF OrdersInv

LEMMA StutterInv == ASSUME OrdersInv, UNCHANGED vars PROVE OrdersInv'
<1>1. UNCHANGED <<order, customer, stock, told, stage, job, history, contended>>
  BY DEF vars, server, ghosts
<1>2. Typed' /\ NotPlaced' /\ Recorded'
  BY <1>1 DEF OrdersInv, Typed, TypeOK, NotPlaced, Recorded
<1>3. DecidedOnWhatIs' /\ Alone'
  BY <1>1 DEF OrdersInv, DecidedOnWhatIs, Alone, Moving, Existing
<1>4. HistoryFits' /\ FollowsProcess' /\ ToldIsTrue'
  BY <1>1 DEF OrdersInv, HistoryFits, FollowsProcess, ToldIsTrue, Existing, Shipments
<1> QED BY <1>2, <1>3, <1>4 DEF OrdersInv

LEMMA NextInv == OrdersInv /\ [Next]_vars => OrdersInv'
<1> SUFFICES ASSUME OrdersInv, [Next]_vars PROVE OrdersInv'
  OBVIOUS
<1>1. ASSUME NEW r \in Req, BeginCreate(r) \/ BeginTransition(r) PROVE OrdersInv'
  BY <1>1, BeginCreateInv, BeginTransitionInv
<1>2. ASSUME NEW r \in Req, InsertCustomer(r) \/ NextNumber(r) \/ Insert(r) \/ Collide(r)
      PROVE  OrdersInv'
  BY <1>2, InsertCustomerInv, NextNumberInv, InsertInv, CollideInv
<1>3. ASSUME NEW r \in Req, CommitCreate(r) \/ Transition(r) \/ Fail(r)
      PROVE  OrdersInv'
  BY <1>3, CommitCreateInv, TransitionInv, FailInv
<1>4. ASSUME NEW r \in Req, Callback(r) \/ CallbackFails(r) PROVE OrdersInv'
  BY <1>4, RunCallbackInv DEF Callback, CallbackFails
<1>5. CASE Crash
  BY <1>5, CrashInv
<1>6. CASE AllAnswered \/ UNCHANGED vars
  BY <1>6, StutterInv DEF AllAnswered
<1> QED BY <1>1, <1>2, <1>3, <1>4, <1>5, <1>6 DEF Next, Step

(***************************************************************************)
(* The strengthening holds in every reachable state: what a lone           *)
(* transition read is still so when it writes, no two transitions are      *)
(* silently at one order, and every callback that waits has a committed    *)
(* change to tell of.                                                      *)
(***************************************************************************)
THEOREM Invariance == Spec => []OrdersInv
<1>1. Init => OrdersInv
  BY InitInv
<1>2. OrdersInv /\ [Next]_vars => OrdersInv'
  BY NextInv
<1> QED BY <1>1, <1>2, PTL DEF Spec

(***************************************************************************)
(* Every table keeps its type, and the seller's stock never falls below    *)
(* zero through shipments.                                                 *)
(***************************************************************************)
THEOREM Typing == Spec => []TypeOK
<1>1. OrdersInv => TypeOK
  BY DEF OrdersInv, Typed
<1> QED BY <1>1, Invariance, PTL

(***************************************************************************)
(* An order that no two transitions were at once follows the process, is   *)
(* shipped at most once, and never after it was cancelled (update-status   *)
(* of marketplace orders).                                                 *)
(***************************************************************************)
THEOREM ProcessFollowed == Spec => []FollowsProcess
<1>1. OrdersInv => FollowsProcess
  BY DEF OrdersInv
<1> QED BY <1>1, Invariance, PTL

(***************************************************************************)
(* No notification and no webhook delivery tells of a change of an order   *)
(* that was not committed, whatever crashes, fails or overlaps.            *)
(***************************************************************************)
THEOREM Told == Spec => []ToldIsTrue
<1>1. OrdersInv => ToldIsTrue
  BY DEF OrdersInv
<1> QED BY <1>1, Invariance, PTL
-----------------------------------------------------------------------------
(***************************************************************************)
(* The stock.  Nobody is in the history before its change commits, so that *)
(* a shipment adds one to the sum; and an order that a transition has read *)
(* as sent has its shipment in the history.                                *)
(***************************************************************************)
Watched(o) == o \in Seed => Order0[o].status \notin Sent
Undone(r)  == stage[r] \in Before \cup {"write"}
AsItIs(r) ==
  /\ job[r].qty = order[job[r].order].qty
  /\ job[r].from \in Sent /\ Watched(job[r].order) => Shipments(job[r].order) # {}
ShippedInv ==
  /\ IsFiniteSet(Existing) /\ IsFiniteSet(history)
  /\ \A r \in Req : Undone(r) => \A h \in history : h.by # r
  /\ \A r \in Req : Moving(r) => AsItIs(r)
  /\ StockLeftWithShipments

LEMMA ShipmentsFinite ==
  ASSUME IsFiniteSet(history), NEW o
  PROVE  IsFiniteSet(Shipments(o)) /\ Cardinality(Shipments(o)) \in Nat
<1>1. Shipments(o) \subseteq history
  BY DEF Shipments
<1> QED BY <1>1, FS_Subset, FS_CardinalityType

LEMMA ShippedType ==
  ASSUME Typed, IsFiniteSet(history)
  PROVE  DOMAIN Shipped = Existing /\ \A o \in Existing : Shipped[o] \in Int
<1>1. \A o \in Existing : order[o].qty \in Nat
  BY DEF Typed, TypeOK, Existing, Order
<1>2. \A o \in Existing : Cardinality(Shipments(o)) \in Nat
  BY ShipmentsFinite
<1>3. \A o \in Existing : order[o].qty * Cardinality(Shipments(o)) \in Int
  <2> SUFFICES ASSUME NEW o \in Existing
               PROVE  order[o].qty * Cardinality(Shipments(o)) \in Int
    OBVIOUS
  <2>1. PICK n, c : n = order[o].qty /\ c = Cardinality(Shipments(o))
    OBVIOUS
  <2>2. n \in Nat /\ c \in Nat
    BY <1>1, <1>2, <2>1
  <2> QED BY <2>1, <2>2
<1> QED BY <1>3 DEF Shipped

(* Before anything happens nothing was shipped.                            *)
LEMMA ShippedInit == Init => ShippedInv
<1> SUFFICES ASSUME Init PROVE ShippedInv
  OBVIOUS
<1>1. history = {} /\ stock = Stock0 /\ \A r \in Req : ~Moving(r)
  BY DEF Init, Moving
<1>2. Existing = Seed
  BY OrdersAssumption, NoneAssumption DEF Init, Existing, Id
<1>3. IsFiniteSet(Existing) /\ IsFiniteSet(history)
  BY <1>1, <1>2, OrdersAssumption, FS_EmptySet
<1>4. \A o \in Existing : Shipments(o) = {}
  BY <1>1 DEF Shipments
<1>5. SumFunction(Shipped) = 0
  <2>1. PICK f : f = Shipped
    OBVIOUS
  <2>2. \A o \in Existing : f[o] = 0
    <3> SUFFICES ASSUME NEW o \in Existing PROVE f[o] = 0
      OBVIOUS
    <3>1. f[o] = order[o].qty * Cardinality(Shipments(o)) /\ Cardinality(Shipments(o)) = 0
      BY <1>4, <2>1, FS_EmptySet DEF Shipped
    <3>2. order[o].qty \in Nat
      BY <1>2, OrdersAssumption DEF Init, Order, Id
    <3> QED BY <3>1, <3>2
  <2>3. DOMAIN f = Existing
    BY <2>1 DEF Shipped
  <2>4. SumFunctionOnSet(f, Existing) = 0
    BY <1>3, <2>2, SumOfZeros
  <2> QED BY <2>1, <2>3, <2>4 DEF SumFunction
<1>6. \A o \in {i \in Existing : i \in Seed => Order0[i].status \notin Sent} :
        order[o].status \notin Sent
  BY <1>2 DEF Init, Id
<1>7. StockLeftWithShipments
  BY <1>1, <1>5, <1>6, OrdersAssumption DEF StockLeftWithShipments
<1> QED BY <1>1, <1>3, <1>7 DEF ShippedInv

(* Whatever touches no order, no stock and no history.                     *)
LEMMA NothingShipped ==
  ASSUME ShippedInv, UNCHANGED <<order, history, stock>>,
         \A q \in Req : Undone(q)' => Undone(q),
         \A q \in Req : Moving(q)' => Moving(q) /\ job'[q] = job[q]
  PROVE  ShippedInv'
<1>1. Existing' = Existing /\ \A o : Shipments(o)' = Shipments(o)
  BY DEF Existing, Shipments
<1>2. Shipped' = Shipped
  BY <1>1 DEF Shipped
<1>3. SumFunction(Shipped)' = SumFunction(Shipped)
  BY <1>2
<1>4. StockLeftWithShipments'
  BY <1>1, <1>3 DEF ShippedInv, StockLeftWithShipments
<1> QED BY <1>1, <1>4 DEF ShippedInv, AsItIs, Watched

(* A request that moves on and is no transition then.                      *)
LEMMA MovedOn ==
  ASSUME OrdersInv, ShippedInv, UNCHANGED <<order, history, stock>>, NEW r \in Req, NEW s,
         stage' = [stage EXCEPT ![r] = s], s # "write", s \in Before => stage[r] \in Before,
         \A q \in Req \ {r} : job'[q] = job[q]
  PROVE  ShippedInv'
<1>1. \A q \in Req : stage'[q] = IF q = r THEN s ELSE stage[q]
  BY DEF OrdersInv, Typed
<1>2. \A q \in Req : Undone(q)' => Undone(q)
  BY <1>1 DEF Undone
<1>3. \A q \in Req : Moving(q)' => Moving(q) /\ job'[q] = job[q]
  BY <1>1 DEF Moving
<1> QED BY <1>2, <1>3, NothingShipped

LEMMA OthersShipNothing ==
  ASSUME OrdersInv, ShippedInv, NEW r \in Req,
         \/ BeginCreate(r) \/ InsertCustomer(r) \/ NextNumber(r) \/ Collide(r)
         \/ CommitCreate(r) \/ Fail(r) \/ \E works \in BOOLEAN : RunCallback(r, works)
  PROVE  ShippedInv'
<1> USE DEF server, ghosts, GoTo, End
<1>0. job \in [Req -> Job]
  BY DEF OrdersInv, Typed
<1>1. CASE BeginCreate(r)
  BY <1>0, <1>1, MovedOn DEF BeginCreate, Before
<1>2. CASE InsertCustomer(r)
  BY <1>0, <1>2, MovedOn DEF InsertCustomer, Before
<1>3. CASE NextNumber(r)
  BY <1>0, <1>3, MovedOn DEF NextNumber, Before
<1>4. CASE Collide(r)
  BY <1>0, <1>4, MovedOn DEF Collide, Before
<1>5. CASE CommitCreate(r)
  BY <1>0, <1>5, MovedOn DEF CommitCreate, Before
<1>6. CASE Fail(r)
  BY <1>0, <1>6, MovedOn DEF Fail, Rollback, Before
<1>7. CASE \E works \in BOOLEAN : RunCallback(r, works)
  <2>1. /\ stage[r] = "after" /\ UNCHANGED <<order, history, stock>>
        /\ \A q \in Req \ {r} : job'[q] = job[q]
        /\ stage' = [stage EXCEPT ![r] = "done"] \/ stage' = stage
    BY <1>0, <1>7 DEF RunCallback, Committed
  <2>2. CASE stage' = [stage EXCEPT ![r] = "done"]
    BY <2>1, <2>2, MovedOn DEF Before
  <2>3. CASE stage' = stage
    <3>1. \A q \in Req : Undone(q)' => Undone(q)
      BY <2>3 DEF Undone
    <3>2. \A q \in Req : Moving(q)' => Moving(q) /\ job'[q] = job[q]
      BY <2>1, <2>3 DEF Moving
    <3> QED BY <2>1, <3>1, <3>2, NothingShipped
  <2> QED BY <2>1, <2>2, <2>3
<1> QED BY <1>1, <1>2, <1>3, <1>4, <1>5, <1>6, <1>7

(* A transition begins with what the order is.                             *)
LEMMA BegunToShip ==
  ASSUME OrdersInv, ShippedInv, NEW r \in Req, BeginTransition(r) PROVE ShippedInv'
<1>1. PICK o \in Existing :
        /\ job'[r].order = o /\ job'[r].from = order[o].status /\ job'[r].qty = order[o].qty
        /\ \A q \in Req \ {r} : job'[q] = job[q]
  BY DEF OrdersInv, Typed, Job, BeginTransition
<1>2. /\ \A q \in Req : stage'[q] = IF q = r THEN "write" ELSE stage[q]
      /\ stage[r] = "new" /\ UNCHANGED <<order, history, stock>>
  BY DEF OrdersInv, Typed, BeginTransition, GoTo, server
<1>3. Existing' = Existing /\ \A i : Shipments(i)' = Shipments(i)
  BY <1>2 DEF Existing, Shipments
<1>4. StockLeftWithShipments'
  <2>1. Shipped' = Shipped
    BY <1>2, <1>3 DEF Shipped
  <2>2. SumFunction(Shipped)' = SumFunction(Shipped)
    BY <2>1
  <2> QED BY <1>2, <1>3, <2>2 DEF ShippedInv, StockLeftWithShipments
<1>5. \A q \in Req : Undone(q)' => \A h \in history' : h.by # q
  BY <1>2 DEF ShippedInv, Undone, Before
<1>6. order[o].status \in Sent /\ Watched(o) => Shipments(o) # {}
  BY DEF ShippedInv, StockLeftWithShipments, Watched
<1>7. ASSUME NEW q \in Req, Moving(q)' PROVE AsItIs(q)'
  <2>1. CASE q = r
    BY <1>1, <1>2, <1>3, <1>6, <2>1 DEF AsItIs, Watched
  <2>2. CASE q # r
    <3>1. Moving(q) /\ job'[q] = job[q]
      BY <1>1, <1>2, <1>7, <2>2 DEF Moving
    <3> QED BY <1>2, <1>3, <3>1 DEF ShippedInv, AsItIs, Watched
  <2> QED BY <2>1, <2>2
<1> QED BY <1>2, <1>3, <1>4, <1>5, <1>7 DEF ShippedInv

(* A new order was not shipped.                                            *)
LEMMA InsertedUnshipped ==
  ASSUME OrdersInv, ShippedInv, NEW r \in Req, Insert(r) PROVE ShippedInv'
<1> DEFINE change == [by |-> r, order |-> r, from |-> None, to |-> "pending"]
<1>1. /\ history' = history \cup {change} /\ stock' = stock
      /\ stage[r] = "insert" /\ stage' = [stage EXCEPT ![r] = "placed"]
      /\ \A q \in Req \ {r} : job'[q] = job[q]
  BY DEF Insert, GoTo, OrdersInv, Typed
<1>2. r \in Id /\ r \notin Existing
  BY <1>1 DEF OrdersInv, Typed, Id, NotPlaced, Before, Existing
<1>3. /\ order'[r] # None /\ order'[r].status = "pending" /\ order'[r].qty \in Nat
      /\ \A o \in Id \ {r} : order'[o] = order[o]
  <2>1. PICK rw : rw = [number |-> job[r].number, status |-> "pending", qty |-> job[r].qty]
    OBVIOUS
  <2>2. job[r] \in Job
    BY DEF OrdersInv, Typed
  <2>3. rw \in Order /\ rw.status = "pending" /\ rw.qty \in Nat
    BY <2>1, <2>2 DEF Job, Order, Statuses
  <2>4. order' = [order EXCEPT ![r] = rw]
    BY <2>1 DEF Insert
  <2> QED BY <1>2, <2>3, <2>4, NoneAssumption DEF OrdersInv, Typed, TypeOK
<1>4. Existing' = Existing \cup {r}
  BY <1>2, <1>3 DEF Existing
<1>5. \A o : Shipments(o)' = Shipments(o)
  BY <1>1 DEF Shipments
<1>6. Shipments(r) = {}
  BY <1>2 DEF OrdersInv, HistoryFits, Shipments
<1>7. IsFiniteSet(Existing') /\ IsFiniteSet(history')
  BY <1>1, <1>4, FS_AddElement DEF ShippedInv
<1>8. \A q \in Req : Undone(q)' => \A h \in history' : h.by # q
  BY <1>1 DEF ShippedInv, Undone, Before, OrdersInv, Typed
<1>9. ASSUME NEW q \in Req, Moving(q)' PROVE AsItIs(q)'
  <2>1. q # r /\ Moving(q) /\ job'[q] = job[q]
    BY <1>1, <1>9 DEF Moving, OrdersInv, Typed
  <2>2. job[q].order \in Id \ {r}
    BY <1>2, <2>1 DEF OrdersInv, DecidedOnWhatIs, Existing
  <2> QED BY <1>3, <1>5, <2>1, <2>2 DEF ShippedInv, AsItIs, Watched
<1>10. SumFunction(Shipped)' = SumFunction(Shipped)
  <2>1. PICK f, g : f = Shipped /\ g = Shipped'
    OBVIOUS
  <2>2. DOMAIN f = Existing /\ DOMAIN g = Existing'
    BY <2>1 DEF Shipped
  <2>3. \A o \in Existing : f[o] \in Int /\ g[o] = f[o]
    <3>1. \A o \in Existing : f[o] \in Int
      BY <2>1, ShippedType DEF ShippedInv, OrdersInv
    <3>2. \A o \in Existing : o # r /\ order'[o] = order[o]
      BY <1>2, <1>3 DEF Existing
    <3>3. \A o \in Existing : g[o] = f[o]
      BY <1>4, <1>5, <2>1, <3>2 DEF Shipped
    <3> QED BY <3>1, <3>3
  <2>4. g[r] = 0
    <3>1. g[r] = order'[r].qty * Cardinality(Shipments(r)')
      BY <1>4, <2>1 DEF Shipped
    <3>2. Cardinality(Shipments(r)') = 0
      BY <1>5, <1>6, FS_EmptySet
    <3> QED BY <1>3, <3>1, <3>2
  <2>5. IsFiniteSet(Existing) /\ r \notin Existing /\ \A o \in Existing : g[o] \in Int
    BY <1>2, <2>3 DEF ShippedInv
  <2>6. /\ SumFunctionOnSet(g, Existing) \in Int
        /\ SumFunctionOnSet(g, Existing \cup {r}) = SumFunctionOnSet(g, Existing) + g[r]
    BY <2>4, <2>5, SumGrows
  <2>7. SumFunctionOnSet(f, Existing) = SumFunctionOnSet(g, Existing)
    BY <2>3, <2>5, SumOfSame
  <2>8. SumFunctionOnSet(g, Existing') = SumFunctionOnSet(f, Existing)
    BY <1>4, <2>4, <2>6, <2>7
  <2> QED BY <2>1, <2>2, <2>8 DEF SumFunction
<1>11. StockLeftWithShipments'
  <2>1. ASSUME NEW o \in Existing', o \in Seed => Order0[o].status \notin Sent,
               order'[o].status \in Sent
        PROVE  Shipments(o)' # {}
    <3>1. o \in Existing /\ order'[o] = order[o]
      BY <1>3, <1>4, <2>1 DEF Sent, Existing
    <3> QED BY <1>5, <2>1, <3>1 DEF ShippedInv, StockLeftWithShipments
  <2> QED BY <1>1, <1>10, <2>1 DEF ShippedInv, StockLeftWithShipments
<1> QED BY <1>7, <1>8, <1>9, <1>11 DEF ShippedInv

(* A shipment takes from the stock what it adds to the sum; a delivery     *)
(* follows one.                                                            *)
LEMMA TransitionShips ==
  ASSUME OrdersInv, ShippedInv, NEW r \in Req, Transition(r) PROVE ShippedInv'
<1>0. PICK o, to, was : o = job[r].order /\ to = job[r].to /\ was = order[o].status
  OBVIOUS
<1> DEFINE change == [by |-> r, order |-> o, from |-> was, to |-> to]
<1>1. /\ stage[r] = "write" /\ \A q \in Req : stage'[q] = IF q = r THEN "after" ELSE stage[q]
      /\ stock' = stock - Takes(r) /\ order' = [order EXCEPT ![o].status = to]
      /\ history' = history \cup {change} /\ \A q \in Req \ {r} : job'[q] = job[q]
  BY <1>0 DEF Transition, GoTo, Moving, OrdersInv, Typed
<1>2. /\ o \in Existing /\ order[o] \in Order /\ job[r] \in Job /\ to \in Statuses
      /\ job[r].from \in Statuses /\ to \in Process[job[r].from]
      /\ job[r].qty = order[o].qty
      /\ job[r].from \in Sent /\ Watched(o) => Shipments(o) # {}
  BY <1>0, <1>1, ProcessFacts
  DEF OrdersInv, Typed, TypeOK, DecidedOnWhatIs, Moving, Existing, ShippedInv, AsItIs
<1>3. /\ order'[o] # None /\ order'[o].status = to /\ order'[o].qty = order[o].qty
      /\ \A i \in Id \ {o} : order'[i] = order[i]
  <2>1. PICK rw : rw = [order[o] EXCEPT !.status = to]
    OBVIOUS
  <2>2. rw \in Order /\ rw.status = to /\ rw.qty = order[o].qty
    BY <1>2, <2>1 DEF Order
  <2>3. order' = [order EXCEPT ![o] = rw]
    BY <1>1, <1>2, <2>1 DEF OrdersInv, Typed, TypeOK, Existing
  <2> QED BY <1>2, <2>2, <2>3, NoneAssumption DEF OrdersInv, Typed, TypeOK, Existing
<1>4. Existing' = Existing
  BY <1>2, <1>3 DEF Existing
<1>5. change \notin history /\ \A q \in Req : Undone(q)' => \A h \in history' : h.by # q
  <2>1. \A h \in history : h.by # r
    BY <1>1 DEF ShippedInv, Undone
  <2>2. ASSUME NEW q \in Req, Undone(q)' PROVE \A h \in history' : h.by # q
    <3>1. q # r /\ Undone(q)
      BY <1>1, <2>2 DEF Undone, Before
    <3>2. \A h \in history : h.by # q
      BY <3>1 DEF ShippedInv
    <3> QED BY <1>1, <3>1, <3>2
  <2> QED BY <2>1, <2>2
<1>6. /\ Shipments(o)' = IF to = "shipped" THEN Shipments(o) \cup {change} ELSE Shipments(o)
      /\ \A i \in Id \ {o} : Shipments(i)' = Shipments(i)
      /\ \A i \in Id : Shipments(i) \subseteq Shipments(i)'
  BY <1>1 DEF Shipments
<1>7. IsFiniteSet(history')
  BY <1>1, FS_AddElement DEF ShippedInv
<1>8. ASSUME NEW q \in Req, Moving(q)' PROVE AsItIs(q)'
  <2>1. q # r /\ Moving(q) /\ job'[q] = job[q]
    BY <1>1, <1>8 DEF Moving
  <2>2. job[q].order \in Id
    BY <2>1 DEF OrdersInv, DecidedOnWhatIs, Existing
  <2>3. order'[job[q].order].qty = order[job[q].order].qty
    BY <1>3, <2>2
  <2>4. Shipments(job[q].order) # {} => Shipments(job[q].order)' # {}
    BY <1>6, <2>1, <2>2
  <2> QED BY <2>1, <2>3, <2>4 DEF ShippedInv, AsItIs, Watched
<1>9. SumFunction(Shipped)' = SumFunction(Shipped) + Takes(r) /\ SumFunction(Shipped) \in Int
      /\ Takes(r) \in Int
  <2>1. PICK f, g, c, n : /\ f = Shipped /\ g = Shipped' /\ c = Cardinality(Shipments(o))
                          /\ n = order[o].qty
    OBVIOUS
  <2>2. DOMAIN f = Existing /\ DOMAIN g = Existing /\ n \in Nat /\ c \in Nat
    BY <1>2, <1>4, <2>1, ShipmentsFinite DEF Shipped, Order, ShippedInv
  <2>3. \A i \in Existing : f[i] \in Int
    BY <2>1, ShippedType DEF ShippedInv, OrdersInv
  <2>4. \A i \in Existing \ {o} : g[i] = f[i]
    BY <1>3, <1>4, <1>6, <2>1 DEF Shipped, Existing
  <2>5. f[o] = n * c
    BY <1>2, <2>1 DEF Shipped
  <2>6. g[o] = f[o] + Takes(r) /\ Takes(r) \in Int
    <3>1. g[o] = n * Cardinality(Shipments(o)')
      BY <1>2, <1>3, <1>4, <2>1 DEF Shipped
    <3>2. CASE to = "shipped"
      <4>1. Shipments(o)' = Shipments(o) \cup {change} /\ change \notin Shipments(o)
        BY <1>5, <1>6, <3>2 DEF Shipments
      <4>2. IsFiniteSet(Shipments(o))
        BY ShipmentsFinite DEF ShippedInv
      <4>3. Cardinality(Shipments(o)') = c + 1
        BY <2>1, <4>1, <4>2, FS_AddElement
      <4>4. g[o] = n * (c + 1) /\ Takes(r) = n
        BY <1>0, <1>2, <2>1, <3>1, <3>2, <4>3 DEF Takes
      <4>5. n * (c + 1) = n * c + n
        BY <2>2
      <4> QED BY <2>2, <2>5, <4>4, <4>5
    <3>3. CASE to # "shipped"
      <4>1. Shipments(o)' = Shipments(o) /\ Takes(r) = 0
        BY <1>0, <1>6, <3>3 DEF Takes
      <4>2. f[o] \in Int
        BY <1>2, <2>3
      <4> QED BY <2>1, <2>5, <3>1, <4>1, <4>2
    <3> QED BY <3>2, <3>3
  <2>7. IsFiniteSet(Existing) /\ o \in Existing /\ \A i \in Existing : g[i] \in Int
    <3>1. \A i \in Existing : g[i] \in Int
      BY <2>3, <2>4, <2>6
    <3> QED BY <1>2, <3>1 DEF ShippedInv
  <2>8. SumFunctionOnSet(g, Existing) = SumFunctionOnSet(f, Existing) + (g[o] - f[o])
    BY <2>3, <2>4, <2>7, SumChanges
  <2>9. SumFunctionOnSet(f, Existing) \in Int
    BY <2>3, <2>7, SumIsInt
  <2>10. f[o] \in Int /\ g[o] - f[o] = Takes(r)
    BY <2>3, <2>6, <2>7
  <2> QED BY <2>1, <2>2, <2>6, <2>8, <2>9, <2>10 DEF SumFunction
<1>10. stock' = Stock0 - SumFunction(Shipped)'
  <2>1. stock = Stock0 - SumFunction(Shipped) /\ Stock0 \in Int
    BY OrdersAssumption DEF ShippedInv, StockLeftWithShipments
  <2> QED BY <1>1, <1>9, <2>1
<1>11. ASSUME NEW i \in Existing', i \in Seed => Order0[i].status \notin Sent,
              order'[i].status \in Sent
       PROVE  Shipments(i)' # {}
  <2>1. CASE i = o
    <3>1. CASE to = "shipped"
      BY <1>6, <2>1, <3>1
    <3>2. CASE to # "shipped"
      <4>1. to = "delivered"
        BY <1>3, <1>11, <2>1, <3>2 DEF Sent
      <4>2. job[r].from = "shipped"
        BY <1>2, <4>1 DEF Process, Statuses
      <4> QED BY <1>2, <1>6, <1>11, <2>1, <4>2, <3>2 DEF Sent, Watched
    <3> QED BY <3>1, <3>2
  <2>2. CASE i # o
    <3>1. i \in Existing /\ i \in Id /\ order'[i] = order[i]
      BY <1>3, <1>4, <2>2 DEF Existing
    <3> QED BY <1>6, <1>11, <3>1 DEF ShippedInv, StockLeftWithShipments
  <2> QED BY <2>1, <2>2
<1>12. StockLeftWithShipments'
  BY <1>10, <1>11 DEF StockLeftWithShipments
<1>13. IsFiniteSet(Existing')
  BY <1>4 DEF ShippedInv
<1> QED BY <1>5, <1>7, <1>8, <1>12, <1>13 DEF ShippedInv

LEMMA ShippedNext == OrdersInv /\ ShippedInv /\ [Next]_vars => ShippedInv'
<1> SUFFICES ASSUME OrdersInv, ShippedInv, [Next]_vars PROVE ShippedInv'
  OBVIOUS
<1>1. ASSUME NEW r \in Req, BeginCreate(r) \/ BeginTransition(r) PROVE ShippedInv'
  BY <1>1, OthersShipNothing, BegunToShip
<1>2. ASSUME NEW r \in Req, InsertCustomer(r) \/ NextNumber(r) \/ Insert(r) \/ Collide(r)
      PROVE  ShippedInv'
  BY <1>2, OthersShipNothing, InsertedUnshipped
<1>3. ASSUME NEW r \in Req, CommitCreate(r) \/ Transition(r) \/ Fail(r)
      PROVE  ShippedInv'
  BY <1>3, OthersShipNothing, TransitionShips
<1>4. ASSUME NEW r \in Req, Callback(r) \/ CallbackFails(r) PROVE ShippedInv'
  <2>1. \E works \in BOOLEAN : RunCallback(r, works)
    BY <1>4 DEF Callback, CallbackFails
  <2> QED BY <2>1, OthersShipNothing
<1>5. CASE Crash
  <2>1. UNCHANGED <<order, history, stock>>
        /\ \A q \in Req : stage'[q] = IF stage[q] \in Over \cup {"new"} THEN stage[q] ELSE "dead"
    BY <1>5 DEF Crash, server
  <2>2. \A q \in Req : (Undone(q)' => Undone(q)) /\ ~Moving(q)'
    BY <2>1 DEF Undone, Moving, Over, Before
  <2> QED BY <2>1, <2>2, NothingShipped
<1>6. CASE AllAnswered \/ UNCHANGED vars
  <2>1. UNCHANGED <<order, history, stock, stage, job>>
    BY <1>6 DEF AllAnswered, vars, server, ghosts
  <2>2. \A q \in Req : (Undone(q)' => Undone(q)) /\ (Moving(q)' => Moving(q) /\ job'[q] = job[q])
    BY <2>1 DEF Undone, Moving
  <2> QED BY <2>1, <2>2, NothingShipped
<1> QED BY <1>1, <1>2, <1>3, <1>4, <1>5, <1>6 DEF Next, Step

(***************************************************************************)
(* What left the seller's stock is what the committed shipments say, over  *)
(* all orders, and no order is shipped or delivered before its stock  *)
(* left: the ledger's post and the update of the order are one commit.     *)
(* This holds for contended orders too.                                    *)
(***************************************************************************)
THEOREM StockFollowsShipments == Spec => []StockLeftWithShipments
<1>1. Init => ShippedInv
  BY ShippedInit
<1>2. OrdersInv /\ ShippedInv /\ [Next]_vars => ShippedInv'
  BY ShippedNext
<1>3. ShippedInv => StockLeftWithShipments
  BY DEF ShippedInv
<1> QED BY <1>1, <1>2, <1>3, Invariance, PTL DEF Spec

-----------------------------------------------------------------------------
(* The outbox.                                                             *)
Trying == {"accepted", "bump", "retry"}
Status == {"absent", "pending", "ok", "failed", "deleted"}

RowType == [status : Status, attempts : Nat, wait : Nat]
OutboxTyped ==
  /\ row \in [Delivery -> RowType]
  /\ todo \in [Drain -> SUBSET Delivery]
  /\ current \in [Drain -> Delivery \cup {NoDelivery}]
  /\ phase \in [Drain -> {"idle", "next"} \cup Trying]
  /\ bumped \in [Drain -> Nat]
  /\ crashes \in Nat
  /\ tries \in [Delivery -> Nat]
  /\ shared \subseteq Delivery

(* A drain is trying one row, which it has taken from its list, or none.   *)
AtARow == \A w \in Drain :
  /\ phase[w] \in Trying <=> current[w] \in Delivery
  /\ current[w] \notin todo[w]
  /\ phase[w] = "idle" => todo[w] = {}

Holds(w, d) == d \in todo[w] \/ current[w] = d

(* What is not enqueued yet nobody holds, and nobody has tried.            *)
NotYet == \A d \in Delivery : row[d].status = "absent" =>
  /\ row[d].attempts = 0 /\ tries[d] = 0
  /\ \A w \in Drain : ~Holds(w, d)

(* Two drains at a row make it shared; what one alone holds is unsettled,  *)
(* or gone.                                                                *)
HeldAlone == \A d \in Delivery : \A v, w \in Drain :
  v # w /\ Holds(v, d) /\ Holds(w, d) => d \in shared
Unsettled == \A d \in Delivery \ shared : \A w \in Drain :
  Holds(w, d) => row[d].status \in {"pending", "deleted"}

(* The count a drain has read back is the row's, or an older one.          *)
ReadBack == \A w \in Drain : phase[w] = "retry" /\ Stored(current[w]) =>
  /\ bumped[w] =< row[current[w]].attempts
  /\ current[w] \notin shared => bumped[w] = row[current[w]].attempts

Lost == crashes * Cardinality(Drain)
Counted == \A d \in Delivery : Stored(d) =>
  /\ row[d].attempts + Cardinality(InFlight(d)) =< tries[d]
  /\ tries[d] =< row[d].attempts + Cardinality(InFlight(d)) + Lost
GivenUp == \A d \in Delivery : row[d].status = "failed" => row[d].attempts >= MaxAttempts

(* A row of one drain at a time: each crash loses one count at most, and   *)
(* one chance to give the row up.                                          *)
LoneTries == \A d \in Delivery \ shared : Stored(d) =>
  /\ tries[d] =< row[d].attempts + crashes + (IF InFlight(d) = {} THEN 0 ELSE 1)
  /\ tries[d] =< MaxAttempts + crashes
  /\ row[d].status = "pending" /\ (\A w \in Drain : current[w] # d)
       => tries[d] < MaxAttempts + crashes

OutboxInv == /\ OutboxTyped /\ AtARow /\ NotYet /\ HeldAlone /\ Unsettled /\ ReadBack
             /\ Counted /\ GivenUp /\ LoneTries
-----------------------------------------------------------------------------
LEMMA InFlightFacts ==
  ASSUME NEW d
  PROVE  /\ IsFiniteSet(InFlight(d)) /\ Cardinality(InFlight(d)) \in Nat
         /\ Cardinality(InFlight(d)) =< Cardinality(Drain) /\ Cardinality(Drain) \in Nat
<1>1. InFlight(d) \in SUBSET Drain
  BY DEF InFlight
<1>2. IsFiniteSet(Drain)
  BY OutboxAssumption
<1> QED
  BY <1>1, <1>2, FS_Subset, FS_CardinalityType

(* A drain joins those that are trying a row, or leaves them.              *)
LEMMA InFlightCount ==
  ASSUME NEW d, NEW w \in Drain
  PROVE  /\ w \notin InFlight(d) =>
              Cardinality(InFlight(d) \cup {w}) = Cardinality(InFlight(d)) + 1
         /\ w \in InFlight(d) =>
              Cardinality(InFlight(d) \ {w}) = Cardinality(InFlight(d)) - 1
BY InFlightFacts, FS_AddElement, FS_RemoveElement

(* What a crash may lose: a count for each drain.                          *)
LEMMA LostFacts ==
  ASSUME crashes \in Nat
  PROVE  /\ Lost \in Nat
         /\ crashes' = crashes => Lost' = Lost
         /\ crashes' = crashes + 1 => Lost' = Lost + Cardinality(Drain)
<1>1. \A c, n \in Nat : c * n \in Nat /\ (c + 1) * n = c * n + n
  OBVIOUS
<1>2. Cardinality(Drain) \in Nat
  BY OutboxAssumption, FS_CardinalityType
<1> QED
  BY <1>1, <1>2 DEF Lost

(* The updates of a row keep its type.                                     *)
LEMMA RowTypes ==
  ASSUME NEW r \in RowType, NEW s \in Status, NEW n \in Nat
  PROVE  /\ Accepted(r) \in RowType /\ [r EXCEPT !.attempts = @ + 1] \in RowType
         /\ [r EXCEPT !.status = s] \in RowType /\ [r EXCEPT !.wait = n] \in RowType
         /\ [r EXCEPT !.attempts = @ + 1].attempts = r.attempts + 1
         /\ r.attempts \in Nat /\ r.status \in Status
         /\ r = [status |-> r.status, attempts |-> r.attempts, wait |-> r.wait]
         /\ Rescheduled(r, n) \in RowType
<1>1. PICK s0 \in Status, a0 \in Nat, w0 \in Nat :
        r = [status |-> s0, attempts |-> a0, wait |-> w0]
  BY DEF RowType
<1>2. Accepted(r) = [status |-> "ok", attempts |-> a0 + 1, wait |-> w0]
  <2>1. [r EXCEPT !.status = "ok"] = [status |-> "ok", attempts |-> a0, wait |-> w0]
    BY <1>1
  <2>2. Accepted(r) = [[r EXCEPT !.status = "ok"] EXCEPT !.attempts = r.attempts + 1]
    BY DEF Accepted
  <2> QED
    BY <1>1, <2>1, <2>2
<1>3. a0 + 1 \in Nat /\ n * n \in Nat
  OBVIOUS
<1>4. [r EXCEPT !.attempts = @ + 1] = [status |-> s0, attempts |-> a0 + 1, wait |-> w0]
  BY <1>1
<1>5. [r EXCEPT !.status = s] = [status |-> s, attempts |-> a0, wait |-> w0]
  BY <1>1
<1>6. \A m \in Nat : [r EXCEPT !.wait = m] = [status |-> s0, attempts |-> a0, wait |-> m]
  BY <1>1
<1>7. Rescheduled(r, n) \in RowType
  <2>1. Rescheduled(r, n) = [status |-> "failed", attempts |-> a0, wait |-> w0]
          \/ Rescheduled(r, n) = [status |-> s0, attempts |-> a0, wait |-> n * n]
    BY <1>1 DEF Rescheduled
  <2> QED
    BY <1>3, <2>1 DEF RowType, Status
<1> QED
  BY <1>1, <1>2, <1>3, <1>4, <1>5, <1>6, <1>7 DEF RowType, Status

LEMMA FirstOutbox == OutboxInit => OutboxInv
<1> SUFFICES ASSUME OutboxInit PROVE OutboxInv
  OBVIOUS
<1> USE OutboxAssumption
<1>1. OutboxTyped
  BY DEF OutboxInit, OutboxTyped, Absent, Status, RowType
<1>2. AtARow /\ ReadBack
  BY DEF OutboxInit, AtARow, ReadBack, Trying
<1>3. \A d \in Delivery : /\ row[d].status = "absent" /\ ~Stored(d)
                          /\ row[d].attempts = 0 /\ tries[d] = 0
                          /\ \A w \in Drain : ~Holds(w, d)
  BY DEF OutboxInit, Absent, Stored, Holds
<1>4. NotYet /\ HeldAlone /\ Unsettled /\ Counted /\ GivenUp /\ LoneTries
  BY <1>3 DEF NotYet, HeldAlone, Unsettled, Counted, GivenUp, LoneTries
<1> QED
  BY <1>1, <1>2, <1>4 DEF OutboxInv

-----------------------------------------------------------------------------
(* A drain goes on: who holds what changes by nothing but what it lets go, *)
(* and no row changes but the one that it tries.                           *)
GoesOn(w) ==
  /\ \A v \in Drain \ {w} : /\ phase'[v] = phase[v] /\ todo'[v] = todo[v]
                            /\ current'[v] = current[v] /\ bumped'[v] = bumped[v]
  /\ \A d \in Delivery : Holds(w, d)' => Holds(w, d)
  /\ \A d \in Delivery : row'[d] = row[d] \/ (Stored(d) /\ Stored(d)' /\ d = current[w])
  /\ UNCHANGED <<crashes, shared>>

LEMMA GoesOnHolds ==
  ASSUME OutboxInv, NEW w \in Drain, GoesOn(w),
         \A d \in Delivery : tries'[d] = tries[d] \/ Holds(w, d)
  PROVE  NotYet' /\ HeldAlone'
<1>1. \A d \in Delivery : \A v \in Drain : Holds(v, d)' => Holds(v, d)
  BY DEF GoesOn, Holds
<1>2. \A d \in Delivery : row'[d].status = "absent" => row'[d] = row[d]
  BY DEF GoesOn, Stored
<1>3. NotYet'
  BY <1>1, <1>2 DEF OutboxInv, NotYet
<1>4. HeldAlone'
  BY <1>1 DEF OutboxInv, HeldAlone, GoesOn
<1> QED
  BY <1>3, <1>4

LEMMA TryInv == ASSUME OutboxInv, NEW w \in Drain, Try(w) PROVE OutboxInv'
<1> USE DEF OutboxInv, RowType
<1>1. PICK d \in todo[w], answer \in {"bump", "accepted"} :
        /\ current' = [current EXCEPT ![w] = d]
        /\ todo' = [todo EXCEPT ![w] = @ \ {d}]
        /\ tries' = [tries EXCEPT ![d] = @ + 1]
        /\ phase' = [phase EXCEPT ![w] = answer]
        /\ phase[w] = "next" /\ UNCHANGED <<row, bumped, crashes, shared>>
  BY DEF Try, Goto
<1>2. /\ d \in Delivery /\ current[w] \notin Delivery
      /\ current'[w] = d /\ todo'[w] = todo[w] \ {d} /\ phase'[w] = answer
      /\ \A v \in Drain \ {w} : /\ phase'[v] = phase[v] /\ todo'[v] = todo[v]
                                /\ current'[v] = current[v]
      /\ tries'[d] = tries[d] + 1 /\ \A e \in Delivery \ {d} : tries'[e] = tries[e]
  BY <1>1 DEF OutboxTyped, AtARow, Trying
<1>3. OutboxTyped'
  BY <1>1, <1>2 DEF OutboxTyped, Trying
<1>4. AtARow'
  BY <1>1, <1>2 DEF AtARow, Trying
<1>5. /\ \A e \in Delivery : \A v \in Drain : Holds(v, e)' <=> Holds(v, e)
      /\ Holds(w, d)
  BY <1>2 DEF Holds
<1>6. NotYet' /\ HeldAlone' /\ Unsettled' /\ GivenUp'
  BY <1>1, <1>2, <1>5 DEF NotYet, HeldAlone, Unsettled, GivenUp
<1>7. ReadBack'
  BY <1>1, <1>2 DEF ReadBack, Stored
<1>8. /\ w \notin InFlight(d) /\ InFlight(d)' = InFlight(d) \cup {w}
      /\ \A e \in Delivery \ {d} : InFlight(e)' = InFlight(e)
  BY <1>1, <1>2 DEF InFlight
<1>9. Counted'
  <2> SUFFICES ASSUME NEW e \in Delivery, Stored(e)
               PROVE  /\ row[e].attempts + Cardinality(InFlight(e)') =< tries'[e]
                      /\ tries'[e] =< row[e].attempts + Cardinality(InFlight(e)') + Lost
    BY <1>1, LostFacts DEF Counted, Stored, OutboxTyped
  <2>1. CASE e = d
    <3>1. Cardinality(InFlight(d)') = Cardinality(InFlight(d)) + 1
      BY <1>8, InFlightCount
    <3>2. /\ row[d].attempts \in Nat /\ tries[d] \in Nat /\ Cardinality(InFlight(d)) \in Nat
          /\ Lost \in Nat
      BY <1>2, InFlightFacts, LostFacts DEF OutboxTyped
    <3> QED
      BY <1>2, <2>1, <3>1, <3>2 DEF Counted
  <2>2. CASE e # d
    BY <1>2, <1>8, <2>2 DEF Counted
  <2> QED
    BY <2>1, <2>2
<1>10. LoneTries'
  <2> SUFFICES ASSUME NEW e \in Delivery \ shared, Stored(e)
               PROVE  /\ tries'[e] =< row[e].attempts + crashes
                                       + (IF InFlight(e)' = {} THEN 0 ELSE 1)
                      /\ tries'[e] =< MaxAttempts + crashes
                      /\ row[e].status = "pending" /\ (\A v \in Drain : current'[v] # e)
                           => tries'[e] < MaxAttempts + crashes
    BY <1>1 DEF LoneTries, Stored
  <2>1. CASE e = d
    <3>1. row[d].status = "pending" /\ \A v \in Drain : current[v] # d
      BY <1>2, <1>5, <2>1 DEF Unsettled, HeldAlone, Stored, Holds
    <3>2. InFlight(d) = {}
      BY <3>1 DEF InFlight
    <3>3. tries[d] < MaxAttempts + crashes /\ tries[d] =< row[d].attempts + crashes
      BY <2>1, <3>1, <3>2 DEF LoneTries, OutboxTyped
    <3>4. InFlight(d)' # {} /\ current'[w] = d
      BY <1>2, <1>8
    <3>5. tries[d] \in Nat /\ row[d].attempts \in Nat /\ crashes \in Nat /\ MaxAttempts \in Nat
      BY <1>2, OutboxAssumption DEF OutboxTyped
    <3> QED
      BY <1>2, <2>1, <3>3, <3>4, <3>5
  <2>2. CASE e # d
    BY <1>2, <1>8, <2>2 DEF LoneTries
  <2> QED
    BY <2>1, <2>2
<1> QED
  BY <1>3, <1>4, <1>6, <1>7, <1>9, <1>10

(* The drain leaves its row: it may keep its list, or drop it.             *)
LEMMA LeaveHolds ==
  ASSUME OutboxInv, NEW w \in Drain, NEW rest \in SUBSET todo[w], Leave(w, rest),
         phase[w] \in Trying
  PROVE  /\ current[w] \in Delivery /\ current'[w] = NoDelivery
         /\ todo'[w] = rest /\ phase'[w] \in {"idle", "next"} /\ bumped'[w] = 0
         /\ phase'[w] = "idle" => rest = {}
         /\ \A v \in Drain \ {w} : /\ phase'[v] = phase[v] /\ todo'[v] = todo[v]
                                   /\ current'[v] = current[v] /\ bumped'[v] = bumped[v]
         /\ \A d \in Delivery : Holds(w, d)' => Holds(w, d) /\ d # current[w]
         /\ todo' \in [Drain -> SUBSET Delivery]
         /\ current' \in [Drain -> Delivery \cup {NoDelivery}]
         /\ phase' \in [Drain -> {"idle", "next"} \cup Trying]
         /\ bumped' \in [Drain -> Nat]
         /\ AtARow'
<1> USE DEF OutboxInv, RowType
<1>1. /\ current[w] \in Delivery /\ current'[w] = NoDelivery
      /\ todo'[w] = rest /\ phase'[w] \in {"idle", "next"} /\ bumped'[w] = 0
      /\ phase'[w] = "idle" => rest = {}
      /\ \A v \in Drain \ {w} : /\ phase'[v] = phase[v] /\ todo'[v] = todo[v]
                                /\ current'[v] = current[v] /\ bumped'[v] = bumped[v]
  BY DEF Leave, Goto, OutboxTyped, AtARow
<1>2. \A d \in Delivery : Holds(w, d)' => Holds(w, d) /\ d # current[w]
  BY <1>1, OutboxAssumption DEF Holds, AtARow
<1>3. /\ todo' \in [Drain -> SUBSET Delivery]
      /\ current' \in [Drain -> Delivery \cup {NoDelivery}]
      /\ phase' \in [Drain -> {"idle", "next"} \cup Trying]
      /\ bumped' \in [Drain -> Nat]
  BY DEF Leave, Goto, OutboxTyped
<1>4. AtARow'
  BY <1>1, <1>3, OutboxAssumption DEF AtARow, Trying, OutboxTyped
<1> QED
  BY <1>1, <1>2, <1>3, <1>4

(* Who else holds the row of a drain, holds it with the drain.             *)
LEMMA LoneDrain ==
  ASSUME OutboxInv, NEW w \in Drain, NEW d \in Delivery \ shared, current[w] = d
  PROVE  /\ \A v \in Drain \ {w} : ~Holds(v, d)
         /\ InFlight(d) \subseteq {w}
BY DEF OutboxInv, HeldAlone, Holds, InFlight

LEMMA MarkFailsInv == ASSUME OutboxInv, NEW w \in Drain, MarkFails(w) PROVE OutboxInv'
<1> USE DEF OutboxInv
<1>1. /\ phase[w] = "accepted" /\ phase' = [phase EXCEPT ![w] = "bump"]
      /\ UNCHANGED <<row, todo, current, bumped, crashes, tries, shared>>
  BY DEF MarkFails, Goto
<1>2. /\ phase'[w] = "bump" /\ \A v \in Drain \ {w} : phase'[v] = phase[v]
  BY <1>1 DEF OutboxTyped
<1>3. OutboxTyped' /\ AtARow'
  BY <1>1, <1>2 DEF OutboxTyped, AtARow, Trying
<1>4. \A d \in Delivery : /\ InFlight(d)' = InFlight(d) /\ Stored(d)' = Stored(d)
                          /\ \A v \in Drain : Holds(v, d)' <=> Holds(v, d)
  BY <1>1, <1>2 DEF InFlight, Stored, Holds
<1>5. NotYet' /\ HeldAlone' /\ Unsettled' /\ GivenUp'
  BY <1>1, <1>4 DEF NotYet, HeldAlone, Unsettled, GivenUp
<1>6. ReadBack'
  BY <1>1, <1>2 DEF ReadBack, Stored
<1>7. Counted' /\ LoneTries'
  BY <1>1, <1>4, LostFacts DEF Counted, LoneTries, OutboxTyped
<1> QED
  BY <1>3, <1>5, <1>6, <1>7

LEMMA MarkOkInv == ASSUME OutboxInv, NEW w \in Drain, MarkOk(w) PROVE OutboxInv'
<1> USE DEF OutboxInv, RowType
<1>1. PICK d : d = current[w]
  OBVIOUS
<1>2. /\ phase[w] = "accepted" /\ Leave(w, todo[w]) /\ UNCHANGED <<crashes, tries, shared>>
      /\ row' = IF Stored(d) THEN [row EXCEPT ![d] = Accepted(@)] ELSE row
  BY <1>1 DEF MarkOk
<1>3. /\ d \in Delivery /\ current'[w] = NoDelivery
      /\ todo'[w] = todo[w] /\ phase'[w] \in {"idle", "next"} /\ bumped'[w] = 0
      /\ \A v \in Drain \ {w} : /\ phase'[v] = phase[v] /\ todo'[v] = todo[v]
                                /\ current'[v] = current[v] /\ bumped'[v] = bumped[v]
      /\ \A e \in Delivery : Holds(w, e)' => Holds(w, e) /\ e # d
      /\ AtARow'
  BY <1>1, <1>2, LeaveHolds DEF Trying
<1>4. /\ Stored(d) => row'[d] = [row[d] EXCEPT !.status = "ok", !.attempts = @ + 1]
      /\ ~Stored(d) => row'[d] = row[d]
      /\ \A e \in Delivery \ {d} : row'[e] = row[e]
  BY <1>2, <1>3 DEF Accepted, OutboxTyped
<1>5. OutboxTyped'
  <2>1. Accepted(row[d]) \in RowType
    BY <1>3, RowTypes DEF OutboxTyped, Accepted
  <2>2. row' \in [Delivery -> RowType]
    BY <1>2, <1>3, <2>1 DEF OutboxTyped
  <2> QED
    BY <1>1, <1>2, <2>2, LeaveHolds DEF OutboxTyped, Trying
<1>6. GoesOn(w)
  <2>1. Stored(d) => Stored(d)'
    BY <1>3, <1>4 DEF Stored, OutboxTyped
  <2>2. \A e \in Delivery : row'[e] = row[e] \/ (Stored(e) /\ Stored(e)' /\ e = d)
    BY <1>3, <1>4, <2>1
  <2> QED
    BY <1>1, <1>2, <1>3, <2>2 DEF GoesOn
<1>7. NotYet' /\ HeldAlone'
  BY <1>2, <1>6, GoesOnHolds
<1>8. \A e \in Delivery \ shared, v \in Drain : Holds(v, e)' => Holds(v, e) /\ e # d
  BY <1>1, <1>3, LoneDrain DEF Holds
<1>9. Unsettled'
  BY <1>2, <1>4, <1>8 DEF Unsettled
<1>10. ReadBack'
  <2> SUFFICES ASSUME NEW v \in Drain, phase'[v] = "retry", Stored(current[v])'
               PROVE  /\ bumped'[v] =< row'[current'[v]].attempts
                      /\ current'[v] \notin shared
                           => bumped'[v] = row'[current'[v]].attempts
    BY <1>2 DEF ReadBack
  <2>1. /\ v # w /\ phase[v] = "retry" /\ current[v] \in Delivery
        /\ current'[v] = current[v] /\ bumped'[v] = bumped[v]
    BY <1>3 DEF AtARow, Trying
  <2>2. CASE current[v] # d
    BY <1>4, <2>1, <2>2 DEF ReadBack, Stored
  <2>3. CASE current[v] = d
    <3>1. d \in shared
      BY <1>1, <1>3, <2>1, <2>3, LoneDrain DEF Holds
    <3>2. Stored(d)
      BY <1>4, <2>1, <2>3 DEF Stored
    <3>3. bumped[v] =< row[d].attempts /\ bumped[v] \in Nat /\ row[d].attempts \in Nat
      BY <1>3, <2>1, <2>3, <3>2 DEF ReadBack, OutboxTyped
    <3>4. row'[d].attempts = row[d].attempts + 1
      BY <1>3, <1>4, <3>2 DEF OutboxTyped
    <3> QED
      BY <2>1, <2>3, <3>1, <3>3, <3>4
  <2> QED
    BY <2>2, <2>3
<1>11. GivenUp'
  <2>1. GivenUp /\ row[d] \in RowType
    BY <1>3 DEF OutboxTyped
  <2>2. Stored(d) => row'[d].status = "ok"
    BY <1>4, <2>1
  <2>3. \A e \in Delivery : row'[e].status = "failed" => row'[e] = row[e]
    BY ONLY <1>4, <2>2
  <2> QED BY ONLY <2>1, <2>3 DEF GivenUp
<1>12. /\ w \in InFlight(d) /\ InFlight(d)' = InFlight(d) \ {w}
       /\ \A e \in Delivery \ {d} : InFlight(e)' = InFlight(e)
  BY <1>1, <1>2, <1>3, OutboxAssumption DEF InFlight
<1>13. \A e \in Delivery \ {d} : Stored(e)' => Stored(e)
  BY <1>4 DEF Stored
<1>14. Lost' = Lost /\ Lost \in Nat
  BY <1>2, LostFacts DEF OutboxTyped
<1>15. Stored(d)' => /\ Stored(d) /\ row'[d].attempts = row[d].attempts + 1
                     /\ row'[d].status = "ok"
                     /\ row[d].attempts \in Nat /\ tries[d] \in Nat
  BY <1>3, <1>4 DEF Stored, OutboxTyped
<1>16. Counted'
  <2> SUFFICES ASSUME NEW e \in Delivery, Stored(e)'
               PROVE  /\ row'[e].attempts + Cardinality(InFlight(e)') =< tries[e]
                      /\ tries[e] =< row'[e].attempts + Cardinality(InFlight(e)') + Lost
    BY <1>2, <1>14 DEF Counted
  <2>1. CASE e = d
    <3>1. Cardinality(InFlight(d)') = Cardinality(InFlight(d)) - 1
      BY <1>12, InFlightCount
    <3>2. Cardinality(InFlight(d)) \in Nat
      BY InFlightFacts
    <3> QED
      BY <1>14, <1>15, <2>1, <3>1, <3>2 DEF Counted
  <2>2. CASE e # d
    BY <1>4, <1>12, <1>13, <2>2 DEF Counted
  <2> QED
    BY <2>1, <2>2
<1>17. LoneTries'
  <2> SUFFICES ASSUME NEW e \in Delivery \ shared, Stored(e)'
               PROVE  /\ tries[e] =< row'[e].attempts + crashes
                                       + (IF InFlight(e)' = {} THEN 0 ELSE 1)
                      /\ tries[e] =< MaxAttempts + crashes
                      /\ row'[e].status = "pending" /\ (\A v \in Drain : current'[v] # e)
                           => tries[e] < MaxAttempts + crashes
    BY <1>2 DEF LoneTries
  <2>1. CASE e = d
    <3>1. tries[d] =< row[d].attempts + crashes + 1 /\ tries[d] =< MaxAttempts + crashes
      BY <1>12, <1>15, <2>1 DEF LoneTries
    <3> QED
      BY <1>15, <2>1, <3>1 DEF OutboxTyped
  <2>2. CASE e # d
    BY <1>1, <1>3, <1>4, <1>12, <1>13, <2>2 DEF LoneTries
  <2> QED
    BY <2>1, <2>2
<1> QED
  BY <1>3, <1>5, <1>7, <1>9, <1>10, <1>11, <1>16, <1>17

LEMMA BumpInv == ASSUME OutboxInv, NEW w \in Drain, Bump(w) PROVE OutboxInv'
<1> USE DEF OutboxInv, RowType
<1>1. PICK d : d = current[w]
  OBVIOUS
<1>2. /\ phase[w] = "bump" /\ Stored(d) /\ UNCHANGED <<todo, current, crashes, tries, shared>>
      /\ row' = [row EXCEPT ![d].attempts = @ + 1]
      /\ bumped' = [bumped EXCEPT ![w] = row[d].attempts + 1]
      /\ phase' = [phase EXCEPT ![w] = "retry"]
  BY <1>1 DEF Bump, Goto
<1>3. d \in Delivery
  BY <1>1, <1>2 DEF AtARow, Trying
<1>4. /\ row'[d] = [row[d] EXCEPT !.attempts = @ + 1]
      /\ row'[d].attempts = row[d].attempts + 1 /\ row'[d].status = row[d].status
      /\ row[d].attempts \in Nat /\ row'[d].attempts \in Nat /\ tries[d] \in Nat
      /\ \A e \in Delivery \ {d} : row'[e] = row[e]
      /\ \A e \in Delivery : row'[e].status = row[e].status
  BY <1>2, <1>3 DEF OutboxTyped
<1>5. /\ phase'[w] = "retry" /\ bumped'[w] = row'[d].attempts
      /\ \A v \in Drain \ {w} : phase'[v] = phase[v] /\ bumped'[v] = bumped[v]
  BY <1>2, <1>4 DEF OutboxTyped
<1>6. OutboxTyped'
  <2>1. [row[d] EXCEPT !.attempts = @ + 1] \in RowType
    BY <1>3, RowTypes DEF OutboxTyped
  <2>2. row' \in [Delivery -> RowType]
    BY <1>2, <1>3, <2>1 DEF OutboxTyped
  <2> QED
    BY <1>2, <1>4, <2>2 DEF OutboxTyped, Trying
<1>7. AtARow'
  BY <1>2, <1>5 DEF AtARow, Trying
<1>8. \A e \in Delivery : Stored(e)' <=> Stored(e)
  BY <1>4 DEF Stored
<1>9. NotYet' /\ HeldAlone' /\ Unsettled'
  BY <1>1, <1>2, <1>4 DEF NotYet, HeldAlone, Unsettled, Holds, Stored
<1>10. ReadBack'
  <2> SUFFICES ASSUME NEW v \in Drain, phase'[v] = "retry", Stored(current[v])'
               PROVE  /\ bumped'[v] =< row'[current[v]].attempts
                      /\ current[v] \notin shared
                           => bumped'[v] = row'[current[v]].attempts
    BY <1>2 DEF ReadBack
  <2>1. CASE v = w
    <3>1. current[v] = d /\ bumped'[v] = row'[d].attempts
      BY <1>1, <1>5, <2>1
    <3>2. \A n \in Nat : n =< n
      OBVIOUS
    <3> QED
      BY <1>4, <3>1, <3>2
  <2>2. CASE v # w /\ current[v] # d
    <3>1. phase[v] = "retry" /\ current[v] \in Delivery /\ bumped'[v] = bumped[v]
      BY <1>5, <2>2 DEF AtARow, Trying
    <3> QED
      BY <1>2, <1>4, <1>8, <2>2, <3>1 DEF ReadBack
  <2>3. CASE v # w /\ current[v] = d
    <3>1. d \in shared
      BY <1>1, <1>3, <2>3, LoneDrain DEF Holds
    <3>2. bumped[v] =< row[d].attempts /\ bumped[v] \in Nat /\ phase[v] = "retry"
      BY <1>2, <1>5, <2>3 DEF ReadBack, OutboxTyped
    <3>3. bumped'[v] = bumped[v] /\ bumped[v] =< row'[d].attempts
      BY <1>4, <1>5, <2>3, <3>2
    <3> QED
      BY <2>3, <3>1, <3>3
  <2> QED
    BY <2>1, <2>2, <2>3
<1>11. GivenUp'
  <2>1. MaxAttempts \in Nat
    BY OutboxAssumption
  <2>2. row'[d].status = "failed" => row'[d].attempts >= MaxAttempts
    BY <1>3, <1>4, <2>1 DEF GivenUp
  <2> QED
    BY <1>4, <2>2 DEF GivenUp
<1>12. /\ w \in InFlight(d) /\ InFlight(d)' = InFlight(d) \ {w}
       /\ \A e \in Delivery \ {d} : InFlight(e)' = InFlight(e)
  BY <1>1, <1>2, <1>5 DEF InFlight
<1>13. Lost' = Lost /\ Lost \in Nat
  BY <1>2, LostFacts DEF OutboxTyped
<1>14. Counted'
  <2> SUFFICES ASSUME NEW e \in Delivery, Stored(e)
               PROVE  /\ row'[e].attempts + Cardinality(InFlight(e)') =< tries[e]
                      /\ tries[e] =< row'[e].attempts + Cardinality(InFlight(e)') + Lost
    BY <1>2, <1>8, <1>13 DEF Counted
  <2>1. CASE e = d
    <3>1. Cardinality(InFlight(d)') = Cardinality(InFlight(d)) - 1
      BY <1>12, InFlightCount
    <3>2. Cardinality(InFlight(d)) \in Nat
      BY InFlightFacts
    <3> QED
      BY <1>2, <1>4, <1>13, <2>1, <3>1, <3>2 DEF Counted
  <2>2. CASE e # d
    BY <1>4, <1>12, <2>2 DEF Counted
  <2> QED
    BY <2>1, <2>2
<1>15. LoneTries'
  <2> SUFFICES ASSUME NEW e \in Delivery \ shared, Stored(e)
               PROVE  /\ tries[e] =< row'[e].attempts + crashes
                                       + (IF InFlight(e)' = {} THEN 0 ELSE 1)
                      /\ tries[e] =< MaxAttempts + crashes
                      /\ row'[e].status = "pending" /\ (\A v \in Drain : current[v] # e)
                           => tries[e] < MaxAttempts + crashes
    BY <1>2, <1>8 DEF LoneTries
  <2>1. CASE e = d
    <3>1. tries[d] =< row[d].attempts + crashes + 1 /\ tries[d] =< MaxAttempts + crashes
      BY <1>12, <2>1 DEF LoneTries
    <3> QED
      BY <1>1, <1>4, <2>1, <3>1 DEF OutboxTyped
  <2>2. CASE e # d
    BY <1>4, <1>12, <2>2 DEF LoneTries
  <2> QED
    BY <2>1, <2>2
<1> QED
  BY <1>6, <1>7, <1>9, <1>10, <1>11, <1>14, <1>15

LEMMA AbortInv == ASSUME OutboxInv, NEW w \in Drain, Abort(w) PROVE OutboxInv'
<1> USE DEF OutboxInv, RowType
<1>1. PICK d : d = current[w]
  OBVIOUS
<1>2. /\ phase[w] = "bump" /\ ~Stored(d) /\ Leave(w, {})
      /\ UNCHANGED <<row, crashes, tries, shared>>
  BY <1>1 DEF Abort
<1>3. /\ d \in Delivery /\ current'[w] = NoDelivery
      /\ todo'[w] = {} /\ phase'[w] \in {"idle", "next"}
      /\ \A v \in Drain \ {w} : /\ phase'[v] = phase[v] /\ todo'[v] = todo[v]
                                /\ current'[v] = current[v] /\ bumped'[v] = bumped[v]
      /\ \A e \in Delivery : Holds(w, e)' => Holds(w, e) /\ e # d
      /\ OutboxTyped' /\ AtARow'
  <2>1. {} \in SUBSET todo[w] /\ phase[w] \in Trying
    BY <1>2 DEF Trying
  <2> QED
    BY <1>1, <1>2, <2>1, LeaveHolds DEF OutboxTyped
<1>4. GoesOn(w)
  BY <1>1, <1>2, <1>3 DEF GoesOn
<1>5. NotYet' /\ HeldAlone'
  BY <1>2, <1>4, GoesOnHolds
<1>6. \A v \in Drain, e \in Delivery : Holds(v, e)' => Holds(v, e)
  BY <1>3 DEF Holds
<1>7. Unsettled' /\ GivenUp'
  BY <1>2, <1>6 DEF Unsettled, GivenUp
<1>8. ReadBack'
  BY <1>2, <1>3 DEF ReadBack, Stored
<1>9. \A e \in Delivery : Stored(e) => InFlight(e)' = InFlight(e)
  BY <1>1, <1>2, <1>3, OutboxAssumption DEF InFlight
<1>10. Counted'
  BY <1>2, <1>9, LostFacts DEF Counted, Stored, OutboxTyped
<1>11. LoneTries'
  BY <1>1, <1>2, <1>3, <1>9 DEF LoneTries, Stored
<1> QED
  BY <1>3, <1>5, <1>7, <1>8, <1>10, <1>11

LEMMA RescheduleInv == ASSUME OutboxInv, NEW w \in Drain, Reschedule(w) PROVE OutboxInv'
<1> USE DEF OutboxInv, RowType
<1>1. PICK d : d = current[w]
  OBVIOUS
<1>2. PICK n : n = bumped[w]
  OBVIOUS
<1>3. /\ phase[w] = "retry" /\ Leave(w, todo[w]) /\ UNCHANGED <<crashes, tries, shared>>
      /\ row' = IF Stored(d) THEN [row EXCEPT ![d] = Rescheduled(@, n)] ELSE row
  BY <1>1, <1>2 DEF Reschedule
<1>4. /\ d \in Delivery /\ current'[w] = NoDelivery
      /\ todo'[w] = todo[w] /\ phase'[w] \in {"idle", "next"} /\ bumped'[w] = 0
      /\ \A v \in Drain \ {w} : /\ phase'[v] = phase[v] /\ todo'[v] = todo[v]
                                /\ current'[v] = current[v] /\ bumped'[v] = bumped[v]
      /\ \A e \in Delivery : Holds(w, e)' => Holds(w, e) /\ e # d
      /\ AtARow'
  BY <1>1, <1>3, LeaveHolds DEF Trying
<1>5. n \in Nat /\ MaxAttempts \in Nat /\ row[d].attempts \in Nat /\ tries[d] \in Nat
  BY <1>2, <1>4, OutboxAssumption DEF OutboxTyped
<1>6. /\ row'[d].attempts = row[d].attempts
      /\ row'[d].status = IF Stored(d) /\ n >= MaxAttempts THEN "failed" ELSE row[d].status
      /\ \A e \in Delivery \ {d} : row'[e] = row[e]
  BY <1>3, <1>4 DEF Rescheduled, Exhausted, OutboxTyped
<1>7. OutboxTyped'
  <2>1. Rescheduled(row[d], n) \in RowType
    BY <1>4, <1>5, RowTypes DEF OutboxTyped
  <2>2. row' \in [Delivery -> RowType]
    BY <1>3, <1>4, <2>1 DEF OutboxTyped
  <2> QED
    BY <1>1, <1>3, <2>2, LeaveHolds DEF OutboxTyped, Trying
<1>8. \A e \in Delivery : Stored(e)' <=> Stored(e)
  BY <1>6 DEF Stored
<1>9. GoesOn(w)
  <2>1. Stored(d) \/ row'[d] = row[d]
    BY <1>3
  <2>2. \A e \in Delivery : row'[e] = row[e] \/ (Stored(e) /\ Stored(e)' /\ e = d)
    BY <1>6, <1>8, <2>1
  <2> QED
    BY <1>1, <1>3, <1>4, <2>2 DEF GoesOn
<1>10. NotYet' /\ HeldAlone'
  BY <1>3, <1>9, GoesOnHolds
<1>11. \A e \in Delivery \ shared, v \in Drain : Holds(v, e)' => Holds(v, e) /\ e # d
  BY <1>1, <1>4, LoneDrain DEF Holds
<1>12. Unsettled'
  BY <1>3, <1>6, <1>11 DEF Unsettled
<1>13. ReadBack'
  <2> SUFFICES ASSUME NEW v \in Drain, phase'[v] = "retry", Stored(current[v])', v # w
               PROVE  /\ bumped'[v] =< row'[current[v]].attempts
                      /\ current[v] \notin shared
                           => bumped'[v] = row'[current[v]].attempts
    BY <1>3, <1>4 DEF ReadBack, Stored
  <2>1. phase[v] = "retry" /\ current[v] \in Delivery /\ bumped'[v] = bumped[v]
    BY <1>4 DEF AtARow, Trying
  <2>2. row'[current[v]].attempts = row[current[v]].attempts /\ Stored(current[v])
    BY <1>4, <1>6, <2>1 DEF Stored
  <2> QED
    BY <2>1, <2>2 DEF ReadBack
<1>14. GivenUp'
  <2>1. n >= MaxAttempts /\ Stored(d) => row[d].attempts >= MaxAttempts
    BY <1>1, <1>2, <1>3, <1>5 DEF ReadBack
  <2> QED
    BY <1>4, <1>6, <2>1 DEF GivenUp
<1>15. \A e \in Delivery : InFlight(e)' = InFlight(e)
  BY <1>3, <1>4, OutboxAssumption DEF InFlight
<1>16. \A e \in Delivery : row'[e].attempts = row[e].attempts
  BY <1>6
<1>17. Counted'
  BY <1>3, <1>8, <1>15, <1>16, LostFacts DEF Counted, OutboxTyped
<1>18. LoneTries'
  <2> SUFFICES ASSUME NEW e \in Delivery \ shared, Stored(e)
               PROVE  /\ tries[e] =< row'[e].attempts + crashes
                                       + (IF InFlight(e)' = {} THEN 0 ELSE 1)
                      /\ tries[e] =< MaxAttempts + crashes
                      /\ row'[e].status = "pending" /\ (\A v \in Drain : current'[v] # e)
                           => tries[e] < MaxAttempts + crashes
    BY <1>3, <1>8 DEF LoneTries
  <2>1. CASE e = d
    <3>1. InFlight(d) = {}
      BY <1>1, <1>3, <2>1, LoneDrain DEF InFlight
    <3>2. tries[d] =< row[d].attempts + crashes /\ tries[d] =< MaxAttempts + crashes
      BY <2>1, <3>1, <1>5 DEF LoneTries, OutboxTyped
    <3>3. row'[d].status = "pending" => tries[d] < MaxAttempts + crashes
      <4>1. SUFFICES ASSUME row'[d].status = "pending" PROVE tries[d] < MaxAttempts + crashes
        OBVIOUS
      <4>2. n < MaxAttempts
        BY <1>5, <1>6, <2>1, <4>1
      <4>3. n = row[d].attempts
        BY <1>1, <1>2, <1>3, <2>1 DEF ReadBack
      <4> QED
        BY <1>5, <3>2, <4>2, <4>3 DEF OutboxTyped
    <3>4. InFlight(d)' = {} /\ row'[d].attempts = row[d].attempts
      BY <1>4, <1>15, <1>16, <3>1
    <3>5. row[d].attempts + crashes + 0 = row[d].attempts + crashes
      BY <1>5 DEF OutboxTyped
    <3> QED
      BY <2>1, <3>2, <3>3, <3>4, <3>5
  <2>2. CASE e # d
    BY <1>1, <1>4, <1>6, <1>15, <2>2 DEF LoneTries
  <2> QED
    BY <2>1, <2>2
<1> QED
  BY <1>4, <1>7, <1>10, <1>12, <1>13, <1>14, <1>17, <1>18

(* Every drain dies: what was in flight is tried and not counted.          *)
LEMMA RestartOutbox == ASSUME OutboxInv, Restart PROVE OutboxInv'
<1> USE DEF OutboxInv, RowType
<1>1. /\ crashes' = crashes + 1 /\ UNCHANGED <<row, tries, shared>> /\ crashes \in Nat
      /\ \A w \in Drain : /\ todo'[w] = {} /\ current'[w] = NoDelivery
                          /\ phase'[w] = "idle" /\ bumped'[w] = 0
  BY DEF Restart, OutboxTyped
<1>2. OutboxTyped'
  BY DEF Restart, OutboxTyped
<1>3. AtARow' /\ ReadBack'
  BY <1>1, OutboxAssumption DEF AtARow, ReadBack, Trying
<1>4. \A d \in Delivery : InFlight(d)' = {} /\ \A w \in Drain : ~Holds(w, d)'
  BY <1>1, OutboxAssumption DEF InFlight, Holds
<1>5. NotYet' /\ HeldAlone' /\ Unsettled' /\ GivenUp'
  BY <1>1, <1>4 DEF NotYet, HeldAlone, Unsettled, GivenUp
<1>6. Counted'
  <2> SUFFICES ASSUME NEW d \in Delivery, Stored(d)
               PROVE  /\ row[d].attempts + Cardinality(InFlight(d)') =< tries[d]
                      /\ tries[d] =< row[d].attempts + Cardinality(InFlight(d)') + Lost'
    BY <1>1 DEF Counted, Stored
  <2>1. Cardinality(InFlight(d)') = 0
    BY <1>4, FS_EmptySet
  <2>2. /\ Cardinality(InFlight(d)) \in Nat /\ Cardinality(Drain) \in Nat
        /\ Cardinality(InFlight(d)) =< Cardinality(Drain)
    BY InFlightFacts
  <2>3. Lost \in Nat /\ Lost' = Lost + Cardinality(Drain)
    BY <1>1, LostFacts
  <2>4. row[d].attempts \in Nat /\ tries[d] \in Nat
    BY DEF OutboxTyped
  <2> QED
    BY <2>1, <2>2, <2>3, <2>4 DEF Counted
<1>7. LoneTries'
  <2> SUFFICES ASSUME NEW d \in Delivery \ shared, Stored(d)
               PROVE  /\ tries[d] =< row[d].attempts + crashes + 1 + 0
                      /\ tries[d] < MaxAttempts + crashes + 1
    BY <1>1, <1>4, OutboxAssumption DEF LoneTries, Stored, OutboxTyped
  <2>1. /\ tries[d] =< row[d].attempts + crashes + (IF InFlight(d) = {} THEN 0 ELSE 1)
        /\ tries[d] =< MaxAttempts + crashes
    BY DEF LoneTries
  <2>2. row[d].attempts \in Nat /\ tries[d] \in Nat /\ MaxAttempts \in Nat
    BY OutboxAssumption DEF OutboxTyped
  <2> QED
    BY <1>1, <2>1, <2>2
<1> QED
  BY <1>2, <1>3, <1>5, <1>6, <1>7

-----------------------------------------------------------------------------
LEMMA EnqueueInv == ASSUME OutboxInv, NEW d \in Delivery, Enqueue(d) PROVE OutboxInv'
<1> USE DEF OutboxInv, RowType
<1>1. /\ row[d].status = "absent" /\ UNCHANGED <<worker, crashes, tries, shared>>
      /\ row' = [row EXCEPT ![d].status = "pending"]
  BY DEF Enqueue
<1>2. /\ row'[d] = [row[d] EXCEPT !.status = "pending"]
      /\ row'[d].status = "pending" /\ row'[d].attempts = 0 /\ tries[d] = 0
      /\ \A e \in Delivery \ {d} : row'[e] = row[e]
      /\ \A w \in Drain : ~Holds(w, d)
  BY <1>1 DEF OutboxTyped, NotYet
<1>3. OutboxTyped'
  <2>1. [row[d] EXCEPT !.status = "pending"] \in RowType
    <3>1. row[d] \in RowType /\ "pending" \in Status
      BY DEF OutboxTyped, Status
    <3> QED
      BY <3>1, RowTypes
  <2>2. row' \in [Delivery -> RowType]
    BY <1>1, <2>1 DEF OutboxTyped
  <2> QED
    BY <1>1, <2>2 DEF OutboxTyped, worker
<1>4. AtARow'
  BY <1>1 DEF AtARow, worker
<1>5. \A w \in Drain, e \in Delivery : Holds(w, e)' <=> Holds(w, e)
  BY <1>1 DEF Holds, worker
<1>6. NotYet' /\ HeldAlone' /\ Unsettled' /\ GivenUp'
  BY <1>1, <1>2, <1>5 DEF NotYet, HeldAlone, Unsettled, GivenUp
<1>7. ReadBack'
  <2> SUFFICES ASSUME NEW w \in Drain, phase[w] = "retry", Stored(current[w])'
               PROVE  /\ bumped[w] =< row'[current[w]].attempts
                      /\ current[w] \notin shared
                           => bumped[w] = row'[current[w]].attempts
    BY <1>1 DEF ReadBack, worker
  <2>1. current[w] \in Delivery /\ current[w] # d
    BY <1>2 DEF AtARow, Trying, Holds
  <2>2. row'[current[w]] = row[current[w]] /\ Stored(current[w])
    BY <1>1, <1>2, <2>1 DEF Stored, worker
  <2> QED
    BY <2>2 DEF ReadBack
<1>8. InFlight(d) = {} /\ \A e \in Delivery : InFlight(e)' = InFlight(e)
  BY <1>1, <1>2 DEF InFlight, Holds, worker
<1>9. \A e \in Delivery \ {d} : Stored(e)' <=> Stored(e)
  BY <1>2 DEF Stored
<1>10. Lost' = Lost /\ Lost \in Nat
  BY <1>1, LostFacts DEF OutboxTyped
<1>11. Counted'
  <2>1. Cardinality(InFlight(d)') = 0
    BY <1>8, FS_EmptySet
  <2>2. /\ row'[d].attempts + Cardinality(InFlight(d)') =< tries'[d]
        /\ tries'[d] =< row'[d].attempts + Cardinality(InFlight(d)') + Lost'
    BY <1>1, <1>2, <1>10, <2>1
  <2> QED
    BY <1>1, <1>2, <1>8, <1>9, <1>10, <2>2 DEF Counted
<1>12. LoneTries'
  <2>1. crashes \in Nat /\ MaxAttempts \in Nat \ {0}
    BY OutboxAssumption DEF OutboxTyped
  <2>2. /\ tries[d] =< row'[d].attempts + crashes + 0
        /\ tries[d] < MaxAttempts + crashes
    BY <1>2, <2>1
  <2>3. \A e \in Delivery \ (shared \cup {d}) : Stored(e)' =>
          /\ tries[e] =< row'[e].attempts + crashes + (IF InFlight(e)' = {} THEN 0 ELSE 1)
          /\ tries[e] =< MaxAttempts + crashes
          /\ row'[e].status = "pending" /\ (\A w \in Drain : current[w] # e)
               => tries[e] < MaxAttempts + crashes
    BY <1>2, <1>8, <1>9 DEF LoneTries
  <2>4. tries[d] =< MaxAttempts + crashes
    BY <1>2, <2>1
  <2> QED
    BY <1>1, <1>8, <2>2, <2>3, <2>4 DEF LoneTries, worker
<1> QED
  BY <1>3, <1>4, <1>6, <1>7, <1>11, <1>12

(* What is deleted counts no more.                                         *)
LEMMA DeleteWebhookInv == ASSUME OutboxInv, NEW h \in Hook, DeleteWebhook(h) PROVE OutboxInv'
<1> USE DEF OutboxInv, RowType
<1>1. /\ UNCHANGED <<worker, crashes, tries, shared>>
      /\ row' = [d \in Delivery |-> IF HookOf[d] = h THEN Deleted ELSE row[d]]
  BY DEF DeleteWebhook
<1>2. \A d \in Delivery : row'[d] = row[d] \/ (row'[d] = Deleted /\ ~Stored(d)')
  BY <1>1 DEF Stored, Deleted
<1>3. /\ Deleted \in RowType /\ Deleted.status = "deleted"
  BY DEF Deleted, Status
<1>4. OutboxTyped'
  <2>1. row' \in [Delivery -> RowType]
    BY <1>1, <1>3 DEF OutboxTyped
  <2> QED
    BY <1>1, <2>1 DEF OutboxTyped, worker
<1>5. AtARow'
  BY <1>1 DEF AtARow, worker
<1>6. \A w \in Drain, d \in Delivery : Holds(w, d)' <=> Holds(w, d)
  BY <1>1 DEF Holds, worker
<1>7. NotYet' /\ HeldAlone' /\ Unsettled' /\ GivenUp'
  BY <1>1, <1>2, <1>3, <1>6 DEF NotYet, HeldAlone, Unsettled, GivenUp
<1>8. \A d \in Delivery : Stored(d)' => Stored(d) /\ row'[d] = row[d]
  BY <1>2 DEF Stored
<1>9. ReadBack'
  <2> SUFFICES ASSUME NEW w \in Drain, phase[w] = "retry", Stored(current[w])'
               PROVE  /\ bumped[w] =< row'[current[w]].attempts
                      /\ current[w] \notin shared
                           => bumped[w] = row'[current[w]].attempts
    BY <1>1 DEF ReadBack, worker
  <2>1. current[w] \in Delivery /\ current'[w] = current[w]
    BY <1>1 DEF AtARow, Trying, worker
  <2>2. row'[current[w]] = row[current[w]] /\ Stored(current[w])
    BY <1>8, <2>1 DEF Stored
  <2> QED
    BY <2>2 DEF ReadBack
<1>10. \A d \in Delivery : InFlight(d)' = InFlight(d)
  BY <1>1 DEF InFlight, worker
<1>11. Counted'
  BY <1>1, <1>8, <1>10, LostFacts DEF Counted, OutboxTyped
<1>12. LoneTries'
  BY <1>1, <1>8, <1>10 DEF LoneTries, worker
<1> QED
  BY <1>4, <1>5, <1>7, <1>9, <1>11, <1>12

(* The clock moves no row but its wait.                                    *)
LEMMA AgedFacts ==
  ASSUME OutboxTyped, row' = Aged
  PROVE  /\ row' \in [Delivery -> RowType]
         /\ \A d \in Delivery : /\ row'[d].status = row[d].status
                                /\ row'[d].attempts = row[d].attempts
                                /\ Stored(d)' <=> Stored(d)
<1>1. ASSUME NEW d \in Delivery
      PROVE  /\ Aged[d] \in RowType /\ Aged[d].status = row[d].status
             /\ Aged[d].attempts = row[d].attempts
  <2>1. PICK n \in Nat : Aged[d] = [row[d] EXCEPT !.wait = n]
    <3>1. row[d].wait \in Nat
      BY DEF OutboxTyped, RowType
    <3>2. (IF row[d].wait = 0 THEN 0 ELSE row[d].wait - 1) \in Nat
      BY <3>1
    <3> QED
      BY <3>2 DEF Aged
  <2>2. row[d] \in RowType
    BY DEF OutboxTyped
  <2> QED
    BY <2>1, <2>2, RowTypes DEF RowType
<1>2. \A d \in Delivery : row'[d] = Aged[d]
  OBVIOUS
<1>3. row' = [d \in Delivery |-> Aged[d]]
  BY DEF Aged
<1> QED
  BY <1>1, <1>2, <1>3 DEF Stored

LEMMA ClockInv == ASSUME OutboxInv, Clock PROVE OutboxInv'
<1> USE DEF OutboxInv
<1>1. row' = Aged /\ UNCHANGED <<current, bumped, crashes, tries>> /\ shared \subseteq shared'
  BY DEF Clock, Minute, Tick, worker
<1>2. \A d \in Delivery : /\ row'[d].status = row[d].status
                          /\ row'[d].attempts = row[d].attempts
                          /\ Stored(d)' <=> Stored(d)
  BY <1>1, AgedFacts
<1>3. row' \in [Delivery -> RowType]
  BY <1>1, AgedFacts
<1>4. CASE Minute
  <2>1. UNCHANGED <<worker, shared>>
    BY <1>4 DEF Minute
  <2>2. OutboxTyped' /\ AtARow'
    BY <1>1, <1>3, <2>1 DEF OutboxTyped, AtARow, worker
  <2>3. \A w \in Drain, d \in Delivery : Holds(w, d)' <=> Holds(w, d)
    BY <2>1 DEF Holds, worker
  <2>4. NotYet' /\ HeldAlone' /\ Unsettled' /\ GivenUp'
    BY <1>1, <1>2, <2>1, <2>3 DEF NotYet, HeldAlone, Unsettled, GivenUp
  <2>5. \A w \in Drain : phase'[w] = "retry" => phase[w] = "retry"
    BY <2>1 DEF worker
  <2>6. \A d \in Delivery : InFlight(d)' = InFlight(d)
    BY <2>1 DEF InFlight, worker
  <2> QED
    BY <1>1, <1>2, <2>1, <2>2, <2>4, <2>5, <2>6, LostFacts
    DEF ReadBack, Counted, LoneTries, OutboxTyped, AtARow, Trying
<1>5. ASSUME NEW w \in Drain, Tick(w) PROVE OutboxInv'
  <2>1. PICK due : due = {d \in Delivery : Due(Aged[d])}
    OBVIOUS
  <2>2. /\ phase[w] = "idle" /\ todo[w] = {} /\ current[w] \notin Delivery
        /\ todo' = [todo EXCEPT ![w] = due] /\ phase' = [phase EXCEPT ![w] = "next"]
        /\ shared' = shared \cup UNION {Held(v) \cap due : v \in Drain}
        /\ due \subseteq Delivery
    BY <1>5, <2>1 DEF Tick, Free, AtARow, Trying
  <2>3. /\ todo'[w] = due /\ phase'[w] = "next"
        /\ \A v \in Drain \ {w} : todo'[v] = todo[v] /\ phase'[v] = phase[v]
    BY <2>2 DEF OutboxTyped
  <2>4. OutboxTyped'
    <3>1. shared' \subseteq Delivery
      BY <2>2 DEF OutboxTyped
    <3> QED
      BY <1>1, <1>3, <2>2, <3>1 DEF OutboxTyped
  <2>5. AtARow'
    BY <1>1, <2>2, <2>3 DEF AtARow, Trying
  <2>6. \A d \in due : row[d].status = "pending"
    BY <1>1, <1>2, <2>1 DEF Due
  <2>7. /\ \A v \in Drain \ {w}, d \in Delivery : Holds(v, d)' <=> Holds(v, d)
        /\ \A d \in Delivery : Holds(w, d)' <=> d \in due
    BY <1>1, <2>2, <2>3 DEF Holds
  <2>8. \A v \in Drain, d \in due : Holds(v, d) => d \in shared'
    <3> SUFFICES ASSUME NEW v \in Drain, NEW d \in due, Holds(v, d) PROVE d \in shared'
      OBVIOUS
    <3>1. d \in Held(v) \cap due
      BY <2>2, OutboxAssumption DEF Held, Holds
    <3> QED
      BY <2>2, <3>1
  <2>9. NotYet' /\ Unsettled' /\ GivenUp'
    BY <1>1, <1>2, <2>6, <2>7 DEF NotYet, Unsettled, GivenUp
  <2>10. HeldAlone'
    BY <1>1, <2>7, <2>8 DEF HeldAlone
  <2>11. \A v \in Drain : phase'[v] = "retry" => phase[v] = "retry"
    BY <2>3
  <2>12. \A d \in Delivery : InFlight(d)' = InFlight(d)
    BY <1>1, <2>2, <2>3 DEF InFlight
  <2> QED
    BY <1>1, <1>2, <2>4, <2>5, <2>9, <2>10, <2>11, <2>12, LostFacts
    DEF ReadBack, Counted, LoneTries, OutboxTyped, AtARow, Trying
<1> QED
  BY <1>4, <1>5 DEF Clock

-----------------------------------------------------------------------------
LEMMA StepOutbox == ASSUME OutboxInv, [OutboxNext]_outbox PROVE OutboxInv'
<1>1. CASE UNCHANGED outbox
  <2>1. UNCHANGED <<row, todo, current, phase, bumped, crashes, tries, shared>>
    BY <1>1 DEF outbox, worker
  <2> QED
    BY <2>1 DEF OutboxInv, OutboxTyped, AtARow, NotYet, HeldAlone, Unsettled, ReadBack, Counted,
                GivenUp, LoneTries, Holds, Stored, InFlight, Lost
<1>2. CASE OutboxNext
  BY <1>2, EnqueueInv, DeleteWebhookInv, ClockInv, TryInv, MarkOkInv, MarkFailsInv, BumpInv, AbortInv,
     RescheduleInv, RestartOutbox DEF OutboxNext, Work
<1> QED
  BY <1>1, <1>2

(* Whatever overlaps, dies or is deleted, the outbox stays as OutboxInv    *)
(* says: what a drain has read back is the row's count or an older one,    *)
(* and two drains at a row have made it shared.                            *)
THEOREM OutboxInvariance == OutboxSpec => []OutboxInv
<1>1. OutboxInv /\ [OutboxNext]_outbox => OutboxInv'
  BY StepOutbox
<1> QED
  BY FirstOutbox, <1>1, PTL DEF OutboxSpec

(* The attempts of a delivery are the tries of it, less those in flight    *)
(* and one for each drain and crash: the statements of overlapping drains  *)
(* lose none.  What no two drains held at once is tried MaxAttempts times  *)
(* and once for each crash, and nothing is given up after fewer.           *)
THEOREM Tries == OutboxSpec => []EveryTryCounted
<1>1. OutboxInv => EveryTryCounted
  BY DEF OutboxInv, EveryTryCounted, Counted, GivenUp, LoneTries, Stored, Lost
<1> QED
  BY OutboxInvariance, <1>1, PTL

(* Once delivered or given up, a delivery that no two drains held at once  *)
(* stays so, and is not sent again: no drain selects it, and none has it.  *)
THEOREM Settled == OutboxSpec => SettledStaysIfAlone
<1>1. ASSUME OutboxInv, [OutboxNext]_outbox, NEW d \in Delivery \ shared',
             row[d].status \in {"ok", "failed"}
      PROVE  row'[d].status \in {row[d].status, "deleted"} /\ tries'[d] = tries[d]
  <2>1. d \in Delivery \ shared
    BY <1>1 DEF OutboxNext, outbox, worker, Enqueue, DeleteWebhook, Clock, Minute, Tick, Work,
                Try, MarkOk, MarkFails, Bump, Abort, Reschedule, Restart
  <2>2. \A w \in Drain : d \notin todo[w] /\ current[w] # d
    BY <1>1, <2>1 DEF OutboxInv, Unsettled, Holds
  <2>3. CASE UNCHANGED outbox
    BY <2>3 DEF outbox
  <2>4. CASE \E e \in Delivery : Enqueue(e)
    BY <1>1, <2>4 DEF Enqueue, OutboxInv, OutboxTyped
  <2>5. CASE \E h \in Hook : DeleteWebhook(h)
    BY <2>5 DEF DeleteWebhook, Deleted
  <2>6. CASE Clock
    BY <1>1, <2>6, AgedFacts DEF Clock, Minute, Tick, OutboxInv
  <2>7. CASE \E w \in Drain : Work(w)
    <3>1. PICK w \in Drain : Work(w)
      BY <2>7
    <3>2. /\ row' = row \/ \E r : row' = [row EXCEPT ![current[w]] = r]
          /\ tries' = tries \/ \E e \in todo[w] : tries' = [tries EXCEPT ![e] = @ + 1]
      BY <3>1 DEF Work, Try, MarkOk, MarkFails, Bump, Abort, Reschedule
    <3> QED
      BY <1>1, <2>2, <3>2 DEF OutboxInv, OutboxTyped
  <2>8. CASE Restart
    BY <2>8 DEF Restart
  <2> QED
    BY <1>1, <2>3, <2>4, <2>5, <2>6, <2>7, <2>8 DEF OutboxNext
<1>2. OutboxInv /\ [OutboxNext]_outbox =>
        [\A d \in Delivery \ shared' : row[d].status \in {"ok", "failed"} =>
           row'[d].status \in {row[d].status, "deleted"} /\ tries'[d] = tries[d]]_outbox
  BY <1>1
<1> QED
  BY OutboxInvariance, <1>2, PTL DEF OutboxSpec, SettledStaysIfAlone
=============================================================================
