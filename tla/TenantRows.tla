----------------------------- MODULE TenantRows ------------------------------
(***************************************************************************)
(* Whose rows a statement finds: the tenant each request carries, the      *)
(* transaction that tells the database about it, the pooled connections    *)
(* those transactions run on, and the row level security of the tables.    *)
(*                                                                         *)
(* Four kinds of table stand for all: one with a business of its own; a    *)
(* child, which inherits its parent's; the orders, which two businesses    *)
(* see; and their lines, which are children two businesses read.           *)
(***************************************************************************)
EXTENDS Requests

CONSTANTS
  Business,    \* businesses
  Conn,      \* bound: connections of the app pool
  Row0       \* the rows at the start

RowId == DOMAIN Row0 \cup Req
TenantRow == [kind : {"own", "child", "order", "line"}, business : Business,
              buyer : Business \cup {None}, parent : RowId \cup {None}]

(* A child's foreign key names a row of the kind it is a child of.         *)
KindAbove == [child |-> "own", line |-> "order"]
ASSUME TenantRowsAssumption ==
  /\ Conn # {} /\ DOMAIN Row0 \cap Req = {}
  /\ None \notin Conn /\ None \notin Business
  /\ None \notin DOMAIN Row0 /\ None \notin TenantRow
  /\ \A x \in DOMAIN Row0 :
       /\ Row0[x] \in TenantRow
       /\ Row0[x].kind \in {"child", "line"} =>
            /\ Row0[x].parent \in DOMAIN Row0
            /\ Row0[Row0[x].parent].kind = KindAbove[Row0[x].kind]
       /\ Row0[x].kind \in {"own", "order"} => Row0[x].parent = None

VARIABLES
  row,       \* the tables; a request inserts one row at most
  setting,   \* app.current_business_id of each connection
  conn,      \* the connection each request holds
  context,   \* TenantContext: the business of each request
  enforced   \* whether the app pool has a role that RLS binds (DATABASE_URL_APP)

tenantRowVars == <<row, setting, conn, context, enforced>>

Stored == {x \in RowId : row[x] # None}

TenantRowsInit ==
  /\ row = [x \in RowId |-> IF x \in DOMAIN Row0 THEN Row0[x] ELSE None]
  /\ setting = [c \in Conn |-> None]
  /\ conn = [r \in Req |-> None]
  /\ context = [r \in Req |-> None]
  /\ enforced \in BOOLEAN

-----------------------------------------------------------------------------
(* The policies.  A setting of None is NULL, and equals nothing.           *)
Owns(b, x) == b # None /\ row[x].business = b
IsParty(b, x) == b # None /\ b \in {row[x].business, row[x].buyer}

(* Seeded faults, here and below: definitions with a plausible bug, used   *)
(* only to show that the properties notice it.  Here: the tables as they   *)
(* were when the lines of an order were the seller's alone.                *)
SellerReads(b, x) == IF row[x].kind = "order" THEN IsParty(b, x) ELSE Owns(b, x)
MayRead(b, x) == \/ IF row[x].kind = "order" THEN IsParty(b, x) ELSE Owns(b, x)
                 \/ row[x].kind = "line" /\ IsParty(b, row[x].parent)
MayWrite(b, x) == IF row[x].kind = "order" THEN IsParty(b, x) ELSE Owns(b, x)

(* What a statement finds on connection c before its own WHERE.            *)
Finds(c)   == {x \in Stored : enforced => MayRead(setting[c], x)}
Changes(c) == {x \in Finds(c) : enforced => MayWrite(setting[c], x)}
InheritedBusiness(parent) == row[parent].business

Free == {c \in Conn : \A r \in Req : conn[r] # c}

(* The interceptor runs the handler in the tenant's context and in one     *)
(* transaction, whose first statement is set_config, local to it.          *)
OpenScope(r) ==
  /\ Starts(r, "rows")
  /\ \E b \in Business, c \in Free :
       /\ context' = [context EXCEPT ![r] = b]
       /\ conn' = [conn EXCEPT ![r] = c]
       /\ setting' = [setting EXCEPT ![c] = b]
  /\ Goto(r, "scoped", [op |-> "rows", found |-> {}, written |-> {}, new |-> None])
  /\ UNCHANGED <<row, enforced, status>>

(* A route that skips the transaction opens a short one when it needs it,  *)
(* for the tenant of its context: the same step.  A job of the scheduler   *)
(* has neither context nor scope, and runs on any connection.              *)
Sweep(r) ==
  /\ Starts(r, "sweep")
  /\ \E c \in Free : Goto(r, "close", [op |-> "sweep", found |-> Finds(c),
                                       written |-> Changes(c), new |-> None])
  /\ UNCHANGED <<tenantRowVars, status>>

(* A repository filters by the business of the context, always.            *)
OfTenant(r) == {x \in Stored : row[x].business = context[r]}

ReadOwn(r) ==
  /\ stage[r] = "scoped"
  /\ Goto(r, "close", [job[r] EXCEPT !.found =
       {x \in Finds(conn[r]) \cap OfTenant(r) : row[x].kind \in {"own", "child"}}])
  /\ UNCHANGED <<tenantRowVars, status>>

WriteOwn(r) ==
  /\ stage[r] = "scoped"
  /\ \E x \in Changes(conn[r]) \cap OfTenant(r) :
       Goto(r, "close", [job[r] EXCEPT !.written = {x}])
  /\ UNCHANGED <<tenantRowVars, status>>

(* The trigger overwrites the business of a child with its parent's, which *)
(* it must be able to read; the policy then checks the new row.            *)
InsertChild(r) ==
  /\ stage[r] = "scoped"
  /\ \E p \in Finds(conn[r]) \cap OfTenant(r) :
       /\ row[p].kind = "own"
       /\ enforced => InheritedBusiness(p) = setting[conn[r]]
       /\ Goto(r, "close", [job[r] EXCEPT !.new =
            [kind |-> "child", business |-> InheritedBusiness(p), buyer |-> None, parent |-> p]])
  /\ UNCHANGED <<tenantRowVars, status>>

(* An order is read by its id, with no filter but the policy.              *)
FindOrder(r) ==
  /\ stage[r] = "scoped"
  /\ \E o \in Finds(conn[r]) : /\ row[o].kind = "order"
                               /\ Goto(r, "lines", [job[r] EXCEPT !.found = {o}])
  /\ UNCHANGED <<tenantRowVars, status>>

(* sideOf answers a business that is neither side that there is no order.  *)
SideOf(r, orders) == \A o \in orders : IsParty(context[r], o)

FindLines(r) ==
  /\ stage[r] = "lines"
  /\ LET lines == {x \in Finds(conn[r]) : row[x].parent \in job[r].found}
     IN  Goto(r, "close", [job[r] EXCEPT !.found =
           IF SideOf(r, @) THEN @ \cup lines ELSE {}])
  /\ UNCHANGED <<tenantRowVars, status>>

(* COMMIT or ROLLBACK: what set_config did locally is undone with it, and  *)
(* the connection goes back to the pool.                                   *)
KeepSetting(r) == UNCHANGED setting
EndScope(r) == setting' = IF conn[r] = None THEN setting
                          ELSE [setting EXCEPT ![conn[r]] = None]
CloseScope(r) ==
  /\ job[r].op \in {"rows", "sweep"}
  /\ EndScope(r)
  /\ row' = [row EXCEPT ![r] = IF stage[r] = "close" THEN job[r].new ELSE None]
  /\ conn' = [conn EXCEPT ![r] = None]
  /\ context' = [context EXCEPT ![r] = None]
  /\ End(r, IF stage[r] = "close" THEN "done" ELSE "refused")
  /\ UNCHANGED <<enforced, status>>

TenantRowsStep ==
  \E r \in Req : \/ OpenScope(r)   \/ Sweep(r)     \/ ReadOwn(r)   \/ WriteOwn(r)
                 \/ InsertChild(r) \/ FindOrder(r) \/ FindLines(r) \/ CloseScope(r)

-----------------------------------------------------------------------------
(* However the requests of two businesses share the connections, each is   *)
(* answered with rows it owns or is a party to, and writes only rows it    *)
(* owns; when the role is bound by RLS, what runs outside every scope      *)
(* finds nothing, whoever used its connection before.  Whichever side of   *)
(* an order asks, bound or not, the order it gets has all of its lines.    *)
Concerns(b, x) == b \in {row[x].business, row[x].buyer}
RowsStayApart ==
  \A r \in Req :
    /\ stage[r] = "close" /\ job[r].op = "rows" =>
         /\ \A x \in job[r].found : \/ Concerns(context[r], x)
                                    \/ row[x].kind = "line" /\ Concerns(context[r], row[x].parent)
         /\ \A x \in job[r].written : row[x].business = context[r]
         /\ \A x \in Stored : row[x].kind = "line" /\ row[x].parent \in job[r].found
                               => x \in job[r].found
    /\ enforced /\ job[r].op = "sweep" => job[r].found = {}
=============================================================================
