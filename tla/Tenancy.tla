------------------------------- MODULE Tenancy -------------------------------
(***************************************************************************)
(* One business as the platform sees it: its approval, its subscription,   *)
(* its limits and settings, and its warehouses, users and products as rows *)
(* the limits count.  The console's statements commit one by one; the      *)
(* business's own requests pass the guards first, which read outside the   *)
(* transaction, and then are one READ COMMITTED transaction.               *)
(***************************************************************************)
EXTENDS Requests

CONSTANTS
  Warehouse0,  \* warehouses at the start, the first of which is the default
  Limit0,      \* the limit of each resource
  Limits,      \* limits the console may set
  Periods,     \* lengths a subscription is extended by
  Settings,    \* bodies of updateSettings
  MaxNow       \* bound: days that pass

Resource == {"users", "products", "warehouses"}
Id == Warehouse0 \cup Req        \* a request creates one row at most
Rate == {0, 7, 10, 14, 20}

(* None: the body does not name the setting.                               *)
Setting == [multi : {None, "on", "off"}, tva : {None, "on", "off"},
            rates : {None} \cup SUBSET Rate, standard : Rate \cup {None}]

WarehouseRow == [default : BOOLEAN, deleted : BOOLEAN, stocked : BOOLEAN]

ASSUME TenancyAssumption ==
  /\ Warehouse0 \cap Req = {} /\ Limits \subseteq Nat \ {0} /\ Periods \subseteq Nat \ {0}
  /\ Limit0 \in [Resource -> Nat \ {0}] /\ Settings \subseteq Setting /\ MaxNow \in Nat
  /\ IsFiniteSet(Warehouse0) /\ Cardinality(Warehouse0) =< Limit0["warehouses"]
  /\ None \notin WarehouseRow \cup Resource

VARIABLES
  now,        \* the clock
  plan,       \* "trial", "active", "expired" or "suspended"
  until,      \* subscription_end, or None
  limit,      \* max_users, max_products, max_warehouses
  multiStock, \* whether the module multi-stock is switched on
  multi,      \* multi_warehouse
  vat,        \* enabled_vat_rates and default_vat_rate
  warehouse,  \* app.warehouses
  rows,       \* live users and products
  decisions,  \* on the application (history variable)
  crossed,    \* resources whose limit was passed by or lowered meanwhile (history)
  overlap,    \* two requests were at the warehouses at once (history)
  lateGuard   \* the plan changed under a guard about to expire it (history)

business    == <<plan, until, limit, multiStock, multi, vat>>
stocks      == <<warehouse, rows>>
observed    == <<decisions, crossed, overlap, lateGuard>>
tenancyVars == <<now, business, stocks, observed>>

-----------------------------------------------------------------------------
Live     == {w \in Id : warehouse[w] # None /\ ~warehouse[w].deleted}
Defaults == {w \in Live : warehouse[w].default}
Count(res) == Cardinality(IF res = "warehouses" THEN Live ELSE rows[res])
Over == until # None /\ until < now

NewWarehouse(default) == [default |-> default, deleted |-> FALSE, stocked |-> FALSE]

TenancyInit ==
  /\ now = 0 /\ plan \in {"trial", "active"} /\ until = None
  /\ limit = Limit0 /\ multiStock \in BOOLEAN /\ multi = TRUE
  /\ vat = [rates |-> Rate, standard |-> 20]
  /\ warehouse = [w \in Id |-> IF w \in Warehouse0
                              THEN NewWarehouse(w = CHOOSE v \in Warehouse0 : TRUE) ELSE None]
  /\ rows = [res \in {"users", "products"} |-> {}]
  /\ decisions = {} /\ crossed = {} /\ overlap = FALSE /\ lateGuard = FALSE

Tick == /\ "tick" \in mix /\ now < MaxNow /\ now' = now + 1
        /\ UNCHANGED <<requests, status, business, stocks, observed>>

-----------------------------------------------------------------------------
(* approveBusiness and rejectBusiness look for a pending application, and  *)
(* then write whatever they find.                                          *)
MayDecideAny(s) == TRUE
MayDecide(s) == s = "pending"

ReadApplication(r) ==
  /\ \E op \in {"approve", "reject"} :
       Starts(r, op) /\ MayDecide(status) /\ Goto(r, "decide", [op |-> op])
  /\ UNCHANGED <<status, tenancyVars>>

Decide(r) ==
  /\ stage[r] = "decide"
  /\ status' = IF job[r].op = "approve" THEN "active" ELSE "rejected"
  /\ decisions' = decisions \cup {job[r].op} \cup
                   IF \E q \in Req \ {r} : stage[q] = "decide" THEN {"at once"} ELSE {}
  /\ End(r, "done")
  /\ UNCHANGED <<now, business, stocks, crossed, overlap, lateGuard>>

(* The console writes the plan; a guard may be about to write it too.      *)
SetPlan(newPlan, end) ==
  /\ plan' = newPlan /\ until' = end
  /\ lateGuard' = (lateGuard \/ \E q \in Req : stage[q] = "expire")
  /\ UNCHANGED <<now, limit, multiStock, multi, vat, stocks, decisions, crossed, overlap>>

(* extendSubscription counts from today, whatever was left.                *)
Extend(r) ==
  /\ Starts(r, "extend")
  /\ \E days \in Periods : SetPlan("active", now + days)
  /\ End(r, "done") /\ UNCHANGED status

Suspend(r) ==
  /\ Starts(r, "suspend")
  /\ status' = "suspended" /\ SetPlan("suspended", until)
  /\ End(r, "done")

Activate(r) ==
  /\ Starts(r, "activate")
  /\ status' = "active" /\ SetPlan("active", until)
  /\ End(r, "done")

UpdateLimit(r) ==
  /\ Starts(r, "limit")
  /\ \E res \in Resource, n \in Limits :
       /\ limit' = [limit EXCEPT ![res] = n]
       /\ crossed' = IF n < limit[res] THEN crossed \cup {res} ELSE crossed
  /\ End(r, "done")
  /\ UNCHANGED <<status, now, plan, until, multiStock, multi, vat, stocks,
                 decisions, overlap, lateGuard>>

UpdateModules(r) ==
  /\ Starts(r, "modules")
  /\ multiStock' \in BOOLEAN
  /\ End(r, "done")
  /\ UNCHANGED <<status, now, plan, until, limit, multi, vat, stocks, observed>>

-----------------------------------------------------------------------------
(* The requests of the business: the subscription guard, the module guard  *)
(* and the limit guard, each with reads of its own.                        *)
Counted(op) == CASE op = "createUser" -> "users"
                 [] op = "createProduct" -> "products"
                 [] op = "createWarehouse" -> "warehouses"
                 [] OTHER -> None
Tenant == {"createUser", "createProduct", "createWarehouse", "updateWarehouse",
           "removeWarehouse", "setMulti"}

HasAnEnd == until # None
HasEnded == until # None /\ until < now

SubscriptionGuard(r) ==
  /\ \E op \in Tenant :
       /\ Starts(r, op)
       /\ IF HasEnded /\ plan = "active" THEN Goto(r, "expire", [op |-> op])
          ELSE IF HasEnded \/ plan = "suspended" THEN End(r, "refused")
          ELSE Goto(r, IF Counted(op) = None THEN "handler" ELSE "guard", [op |-> op])
  /\ UNCHANGED <<status, tenancyVars>>

Expire(r) ==
  /\ stage[r] = "expire"
  /\ plan' = "expired"
  /\ End(r, "refused")
  /\ UNCHANGED <<status, now, until, limit, multiStock, multi, vat, stocks, observed>>

FullWhenOver(n, max) == n > max
IsFull(n, max) == n >= max

(* ModuleGuard: a warehouse is created with multi-stock on.                *)
ModuleOn(res) == res = "warehouses" => multiStock

ModuleAndLimitGuards(r) ==
  /\ stage[r] = "guard"
  /\ LET res == Counted(job[r].op)
     IN  IF ModuleOn(res) /\ ~IsFull(Count(res), limit[res])
         THEN Goto(r, "handler", job[r]) ELSE End(r, "refused")
  /\ UNCHANGED <<status, tenancyVars>>

(* Others the limit guard let through, which have not committed, and the   *)
(* console where it may make a warehouse, which no guard counts.           *)
Admitted(res) == {q \in Req :
  \/ Counted(job[q].op) = res /\ stage[q] \in {"handler", "clear", "insert"}
  \/ res = "warehouses" /\ stage[q] = "main"}
Inserted(r, res) ==
  crossed' = IF Admitted(res) \ {r} # {} THEN crossed \cup {res} ELSE crossed

CreateRow(r) ==
  /\ stage[r] = "handler" /\ job[r].op \in {"createUser", "createProduct"}
  /\ LET res == Counted(job[r].op)
     IN  rows' = [rows EXCEPT ![res] = @ \cup {r}] /\ Inserted(r, res)
  /\ End(r, "done")
  /\ UNCHANGED <<status, now, business, warehouse, decisions, overlap, lateGuard>>

-----------------------------------------------------------------------------
(* Warehouses.  A body may make its warehouse the default: a statement     *)
(* that looks for the others which are, before the one that writes.        *)
AtWarehouses ==
  {q \in Req : /\ stage[q] \in {"clear", "insert", "write", "main", "flag"}
               /\ job[q].op \in {"createWarehouse", "updateWarehouse",
                                "removeWarehouse", "settings"}}
WritesWarehouses(r, new) ==
  /\ warehouse' = new
  /\ overlap' = (overlap \/ AtWarehouses \ {r} # {})

WarehouseBody(op, w, default, others) ==
  [op |-> op, on |-> w, default |-> default, others |-> others]

ReadWarehouse(r) ==
  /\ stage[r] = "handler"
  /\ \/ /\ job[r].op = "createWarehouse"
        /\ IF ~multi /\ Live # {} THEN End(r, "refused")
           ELSE \E default \in {"yes", "no"} :
                  Goto(r, IF default = "yes" THEN "clear" ELSE "insert",
                       WarehouseBody("createWarehouse", r, default, {}))
     \/ /\ job[r].op = "updateWarehouse"
        /\ \E w \in Id, default \in {"keep", "yes", "no"} :
             IF w \notin Live THEN End(r, "refused")
             ELSE Goto(r, IF default = "yes" THEN "clear" ELSE "write",
                       WarehouseBody("updateWarehouse", w, default, {}))
     \/ /\ job[r].op = "removeWarehouse"
        /\ \E w \in Id : IF w \notin Live \/ warehouse[w].stocked THEN End(r, "refused")
                         ELSE Goto(r, "write", WarehouseBody("removeWarehouse", w, "keep", {}))
  /\ UNCHANGED <<status, tenancyVars>>

ClearsNone(w) == {}
OtherDefaults(w) == Defaults \ {w}

ClearDefaults(r) ==
  /\ stage[r] = "clear"
  /\ Goto(r, IF job[r].op = "createWarehouse" THEN "insert" ELSE "write",
          WarehouseBody(job[r].op, job[r].on, job[r].default, OtherDefaults(job[r].on)))
  /\ UNCHANGED <<status, tenancyVars>>

Cleared(W) == [w \in Id |-> IF w \in W THEN [warehouse[w] EXCEPT !.default = FALSE]
                            ELSE warehouse[w]]

CreateWarehouse(r) ==
  /\ stage[r] = "insert"
  /\ WritesWarehouses(r, [Cleared(job[r].others) EXCEPT ![r] =
                            NewWarehouse(job[r].default = "yes")])
  /\ Inserted(r, "warehouses")
  /\ End(r, "done")
  /\ UNCHANGED <<status, now, business, rows, decisions, lateGuard>>

UpdateWarehouse(r) ==
  /\ stage[r] = "write" /\ job[r].op = "updateWarehouse"
  /\ WritesWarehouses(r, [Cleared(job[r].others) EXCEPT ![job[r].on].default =
                            IF job[r].default = "keep" THEN @ ELSE job[r].default = "yes"])
  /\ End(r, "done")
  /\ UNCHANGED <<status, now, business, rows, decisions, crossed, lateGuard>>

RemoveWarehouse(r) ==
  /\ stage[r] = "write" /\ job[r].op = "removeWarehouse"
  /\ WritesWarehouses(r, [warehouse EXCEPT ![job[r].on].deleted = TRUE,
                                           ![job[r].on].default = FALSE])
  /\ End(r, "done")
  /\ UNCHANGED <<status, now, business, rows, decisions, crossed, lateGuard>>

(* setMultiWarehouse of the business, which counts no warehouses.          *)
SetMulti(r) ==
  /\ stage[r] = "handler" /\ job[r].op = "setMulti"
  /\ multi' \in BOOLEAN
  /\ overlap' = (overlap \/ ~multi')
  /\ End(r, "done")
  /\ UNCHANGED <<status, now, plan, until, limit, multiStock, vat, stocks,
                 decisions, crossed, lateGuard>>

-----------------------------------------------------------------------------
(* updateSettings of the console, one statement after the other, on what   *)
(* its first one read.                                                     *)
SettingsBody(body, read, mains) ==
  [op |-> "settings", body |-> body, vat |-> read, mains |-> mains]

ReadSettings(r) ==
  /\ Starts(r, "settings")
  /\ \E body \in Settings :
       Goto(r, IF body.multi = "off" /\ multi THEN "list"
               ELSE IF body.multi = "on" /\ ~multi THEN "flag" ELSE "vat",
            SettingsBody(body, vat, {}))
  /\ UNCHANGED <<status, tenancyVars>>

TooMany(W) == Cardinality(W) > 1

ListWarehouses(r) ==
  /\ stage[r] = "list"
  /\ IF TooMany(Live) THEN End(r, "refused")
     ELSE Goto(r, "main", SettingsBody(job[r].body, job[r].vat, Live))
  /\ UNCHANGED <<status, tenancyVars>>

(* The one that remains is the default; if there is none, one is made.     *)
MainWarehouse(r) ==
  /\ stage[r] = "main"
  /\ IF job[r].mains # {}
     THEN /\ WritesWarehouses(r, [w \in Id |-> IF w \in job[r].mains
                                 THEN [warehouse[w] EXCEPT !.default = TRUE] ELSE warehouse[w]])
          /\ UNCHANGED crossed
     ELSE /\ WritesWarehouses(r, [warehouse EXCEPT ![r] = NewWarehouse(TRUE)])
          /\ Inserted(r, "warehouses")
  /\ Goto(r, "flag", job[r])
  /\ UNCHANGED <<status, now, business, rows, decisions, lateGuard>>

SetFlag(r) ==
  /\ stage[r] = "flag"
  /\ multi' = (job[r].body.multi = "on")
  /\ overlap' = (overlap \/ AtWarehouses \ {r} # {})
  /\ Goto(r, "vat", job[r])
  /\ UNCHANGED <<status, now, plan, until, limit, multiStock, vat, stocks,
                 decisions, crossed, lateGuard>>

(* The switch sets the rates and leaves the default; a body with rates or  *)
(* a default sets both, the missing one as it was read.                    *)
AfterSwitch(v, tva) ==
  CASE tva = "on" -> [v EXCEPT !.rates = Rate] [] tva = "off" -> [v EXCEPT !.rates = {0}]
    [] OTHER -> v
Given(asked, read) == IF asked = None THEN read ELSE asked

SetVat(r) ==
  /\ stage[r] = "vat"
  /\ LET body == job[r].body
         new  == [rates    |-> Given(body.rates, job[r].vat.rates),
                  standard |-> Given(body.standard, job[r].vat.standard)]
     IN  IF body.rates = None /\ body.standard = None
         THEN vat' = AfterSwitch(vat, body.tva) /\ End(r, "done")
         ELSE IF new.standard \in new.rates
              THEN vat' = new /\ End(r, "done")
              ELSE vat' = AfterSwitch(vat, body.tva) /\ End(r, "refused")
  /\ UNCHANGED <<status, now, plan, until, limit, multiStock, multi, stocks, observed>>

(* The stock ledger puts stock into a warehouse, or takes the last of it.  *)
Stock(r) ==
  /\ Starts(r, "stock")
  /\ \E w \in Live : warehouse' = [warehouse EXCEPT ![w].stocked = ~@]
  /\ End(r, "done")
  /\ UNCHANGED <<status, now, business, rows, observed>>

TenancyStep ==
  \/ Tick
  \/ \E r \in Req :
       \/ ReadApplication(r) \/ Decide(r) \/ Extend(r) \/ Suspend(r) \/ Activate(r)
       \/ UpdateLimit(r) \/ UpdateModules(r)
       \/ SubscriptionGuard(r) \/ Expire(r) \/ ModuleAndLimitGuards(r)
       \/ CreateRow(r) \/ ReadWarehouse(r) \/ ClearDefaults(r) \/ CreateWarehouse(r)
       \/ UpdateWarehouse(r) \/ RemoveWarehouse(r) \/ SetMulti(r)
       \/ ReadSettings(r) \/ ListWarehouses(r) \/ MainWarehouse(r) \/ SetFlag(r)
       \/ SetVat(r) \/ Stock(r)

-----------------------------------------------------------------------------
DecidedOnce == {"approve", "reject"} \subseteq decisions => "at once" \in decisions
ExpiredIsOver == plan = "expired" => Over \/ lateGuard
LimitsHold == \A res \in Resource \ crossed : Count(res) =< limit[res]

(* What the console grants a business holds.  It is decided once: whoever  *)
(* was approved was not rejected, unless both decisions were under way at  *)
(* once.  Its plan is expired only when its time is over, unless the       *)
(* console wrote the plan between the two statements of the guard.  It has *)
(* no more of anything than its limit, unless another request passed the   *)
(* guard before one inserted its row, or the console lowered the limit.    *)
GrantsHold == DecidedOnce /\ ExpiredIsOver /\ LimitsHold

(* At most one warehouse is the default, and a business whose multi-stock  *)
(* is off has at most one, which is it; unless two requests were at the    *)
(* warehouses at once, or the business itself switched multi-stock off.    *)
OneDefaultWarehouse ==
  ~overlap => /\ Cardinality(Defaults) =< 1
              /\ multi \/ Cardinality(Live) =< 1
=============================================================================
