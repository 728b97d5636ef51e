--------------------------- MODULE PlatformProofs ---------------------------
(***************************************************************************)
(* Proofs about the platform: the requests of one business and its         *)
(* console, any number of them, whatever each of them does.  First the     *)
(* frame: which statements a request may be at, and what the steps of one  *)
(* component leave alone.  Then, component by component, the inductive     *)
(* invariant it keeps by itself.                                           *)
(***************************************************************************)
EXTENDS Platform, SumTheorems, TLAPS, FiniteSetTheorems

(***************************************************************************)
(* What the operations of the platform do not do to each other.  Every     *)
(* statement belongs to one request, and the statement that a request runs *)
(* next is one of its own operation: the tags below are the control flow   *)
(* of each component.  So a step of one component leaves the requests of   *)
(* every other component as they are, but for a crash.                     *)
(***************************************************************************)
IdleTag(op, s) == op = "none" /\ s \in {"new", "done", "refused", "crashed"}

AccountsTag(op, s) ==
  \/ op \in {"login", "impersonate"} /\ s \in {"overrides", "caps", "issue"}
  \/ op = "refresh" /\ s \in {"user", "overrides", "rotate", "caps", "issue"}
  \/ op = "reset" /\ s = "cut"
  \/ op = "patchRole" /\ s \in {"outdate", "publish"}
  \/ op \in {"update", "remove", "patchOverrides"} /\ s = "write"
  \/ op = "console" /\ s \in {"count", "write"}
  \/ op = "register" /\ s = "sign up"

TenancyTag(op, s) ==
  \/ op \in {"approve", "reject"} /\ s = "decide"
  \/ op \in {"createUser", "createProduct"} /\ s \in {"expire", "guard", "handler"}
  \/ op = "createWarehouse" /\ s \in {"expire", "guard", "handler", "clear", "insert"}
  \/ op = "updateWarehouse" /\ s \in {"expire", "handler", "clear", "write"}
  \/ op = "removeWarehouse" /\ s \in {"expire", "handler", "write"}
  \/ op = "setMulti" /\ s \in {"expire", "handler"}
  \/ op = "settings" /\ s \in {"list", "main", "flag", "vat"}

MfaTag(op, s) ==
  \/ op = "challenge" /\ s = "enrol"
  \/ op = "verify" /\ s \in {"accept", "fail", "lock"}

TenantRowsTag(op, s) ==
  \/ op = "rows" /\ s \in {"scoped", "lines", "close"}
  \/ op = "sweep" /\ s = "close"

AttendanceTag(op, s) ==
  \/ op = "checkIn" /\ s = "create"
  \/ op \in {"checkOut", "togglePause"} /\ s \in {"findPause", "record"}
  \/ op = "autoCheckout" /\ s = "force"

UploadsTag(op, s) ==
  \/ op = "insert" /\ s = "add"
  \/ op = "write" /\ s \in {"find", "replace", "commit"}
  \/ op = "removeCategory" /\ s = "removeCategory"

CatalogueTag(op, s) ==
  \/ op = "product" /\ s = "product"
  \/ op = "createGroup" /\ s = "group"
  \/ op = "tiers" /\ s \in {"delete", "tiers"}
  \/ op = "order" /\ s \in {"listings", "customer", "price"}

NoticesTag(op, s) == op = "scan stock" /\ s \in {"exists", "notice"}

Tag(op, s) ==
  \/ IdleTag(op, s)      \/ AccountsTag(op, s)   \/ TenancyTag(op, s) \/ MfaTag(op, s)
  \/ TenantRowsTag(op, s) \/ AttendanceTag(op, s) \/ UploadsTag(op, s)
  \/ CatalogueTag(op, s) \/ NoticesTag(op, s)

Tagged ==
  /\ DOMAIN stage = Req /\ DOMAIN job = Req
  /\ \A r \in Req : "op" \in DOMAIN job[r] /\ Tag(job[r].op, stage[r])

SignInOps     == {"login", "impersonate", "refresh"}
ResetOps      == {"reset", "patchRole"}
EditOps       == {"update", "remove", "patchOverrides", "console"}
RegisterOps   == {"register"}
AccountsOps   == {"login", "impersonate", "refresh", "reset", "patchRole", "update",
                  "remove", "patchOverrides", "console", "register"}
TenancyOps  == {"approve", "reject", "createUser", "createProduct", "createWarehouse",
                "updateWarehouse", "removeWarehouse", "setMulti", "settings"}
MfaOps        == {"challenge", "verify"}
TenantRowsOps == {"rows", "sweep"}
AttendanceOps == {"checkIn", "checkOut", "togglePause", "autoCheckout"}
UploadsOps    == {"insert", "write", "removeCategory"}
ProductOps    == {"product"}
GroupOps      == {"createGroup"}
TiersOps      == {"tiers"}
OrderOps      == {"order"}
CatalogueOps  == {"product", "createGroup", "tiers", "order"}
NoticesOps    == {"scan stock"}

(* Request r alone moved, within the operations given.                     *)
EndTag(op, s) == op = "none" /\ s \in {"done", "refused", "crashed"}
Moved(r) ==
  /\ DOMAIN stage' = Req /\ DOMAIN job' = Req
  /\ \A q \in Req \ {r} : stage'[q] = stage[q] /\ job'[q] = job[q]
  /\ "op" \in DOMAIN job'[r]
Within(r, ops) ==
  /\ Moved(r) /\ {job[r].op, job'[r].op} \subseteq ops \cup {"none"}
  /\ Tag(job'[r].op, stage'[r]) /\ stage'[r] # "new"

(* A statement tells whose it is.                                          *)
LEMMA StageTells ==
  ASSUME Tagged, NEW r \in Req
  PROVE  /\ stage[r] = "new" => job[r].op = "none"
         /\ stage[r] \in {"overrides", "caps", "issue", "user", "rotate", "cut", "count",
                         "outdate", "publish", "sign up"}
              => AccountsTag(job[r].op, stage[r])
         /\ stage[r] \in {"decide", "expire", "guard", "handler", "clear", "insert", "list",
                         "main", "flag", "vat"}
              => TenancyTag(job[r].op, stage[r])
         /\ stage[r] \in {"enrol", "accept", "fail", "lock"} => MfaTag(job[r].op, stage[r])
         /\ stage[r] \in {"scoped", "lines", "close"} => TenantRowsTag(job[r].op, stage[r])
         /\ stage[r] \in {"create", "findPause", "record", "force"}
              => AttendanceTag(job[r].op, stage[r])
         /\ stage[r] \in {"add", "find", "replace", "commit", "removeCategory"}
              => UploadsTag(job[r].op, stage[r])
         /\ stage[r] \in {"product", "group", "delete", "tiers", "listings", "customer", "price"}
              => CatalogueTag(job[r].op, stage[r])
         /\ stage[r] \in {"exists", "notice"} => NoticesTag(job[r].op, stage[r])
<1>1. Tag(job[r].op, stage[r])
  BY DEF Tagged
<1> QED
  BY <1>1 DEF Tag, IdleTag, AccountsTag, TenancyTag, MfaTag, TenantRowsTag, AttendanceTag,
    UploadsTag, CatalogueTag, NoticesTag

(* A tag names an operation of its component, and a statement of it.       *)
LEMMA TagTells ==
  ASSUME NEW op, NEW s
  PROVE  /\ AccountsTag(op, s) => op \in AccountsOps /\ s # "new"
         /\ TenancyTag(op, s) => op \in TenancyOps /\ s # "new"
         /\ MfaTag(op, s) => op \in MfaOps /\ s # "new"
         /\ TenantRowsTag(op, s) => op \in TenantRowsOps /\ s # "new"
         /\ AttendanceTag(op, s) => op \in AttendanceOps /\ s # "new"
         /\ UploadsTag(op, s) => op \in UploadsOps /\ s # "new"
         /\ CatalogueTag(op, s) => op \in CatalogueOps /\ s # "new"
         /\ NoticesTag(op, s) => op \in NoticesOps /\ s # "new"
  BY DEF AccountsTag, TenancyTag, MfaTag, TenantRowsTag, AttendanceTag,
    UploadsTag, CatalogueTag, NoticesTag, AccountsOps, TenancyOps, MfaOps, TenantRowsOps,
    AttendanceOps, UploadsOps, CatalogueOps, NoticesOps

(* A request goes on with another statement, or ends.                      *)
LEMMA GoesOn ==
  ASSUME Tagged, NEW r \in Req, NEW s, NEW j, Goto(r, s, j), "op" \in DOMAIN j
  PROVE  Moved(r) /\ stage'[r] = s /\ job'[r] = j
  BY DEF Tagged, Goto, Moved

LEMMA Ends ==
  ASSUME Tagged, NEW r \in Req, NEW s \in {"done", "refused", "crashed"}, End(r, s)
  PROVE  Moved(r) /\ stage'[r] = s /\ job'[r] = Idle /\ job'[r].op = "none" /\ Tag("none", s)
<1>1. job'[r] = Idle /\ stage'[r] = s
  BY DEF Tagged, Goto, End
<1>2. Moved(r)
  BY DEF Tagged, Goto, End, Idle, Moved
<1> QED BY <1>1, <1>2 DEF Idle, Tag, IdleTag


LEMMA WithinMore ==
  ASSUME NEW r \in Req, NEW ops, NEW more, Within(r, ops), ops \subseteq more
  PROVE  Within(r, more)
  BY DEF Within

(* Each statement of Tenancy, and what follows it.                         *)
Console(r) ==
  ReadApplication(r) \/ Decide(r) \/ Extend(r) \/ Suspend(r) \/ Activate(r) \/ UpdateLimit(r)
    \/ UpdateModules(r)
Guards(r) ==
  SubscriptionGuard(r) \/ Expire(r) \/ ModuleAndLimitGuards(r)
Inserts(r) ==
  CreateRow(r) \/ ReadWarehouse(r) \/ ClearDefaults(r) \/ CreateWarehouse(r) \/
    UpdateWarehouse(r) \/ RemoveWarehouse(r) \/ Stock(r)
Switches(r) ==
  SetMulti(r) \/ ReadSettings(r) \/ ListWarehouses(r) \/ MainWarehouse(r) \/ SetFlag(r) \/
    SetVat(r)

LEMMA ConsoleMoves ==
  ASSUME Tagged, NEW r \in Req, Console(r)
  PROVE  Within(r, TenancyOps)
<1> USE DEF Tagged, Goto, End, Idle, Moved, Within, Tag, IdleTag, EndTag, Starts, TenancyOps,
    TenancyTag
<1>1. CASE ReadApplication(r)
  <2>1. job[r].op \in TenancyOps \cup {"none"}
    BY <1>1, StageTells, TagTells DEF ReadApplication
  <2>2. Moved(r)
    BY <1>1 DEF ReadApplication
  <2>3. TenancyTag(job'[r].op, stage'[r]) \/ EndTag(job'[r].op, stage'[r])
    BY <1>1 DEF ReadApplication
  <2> QED BY <2>1, <2>2, <2>3, TagTells
<1>2. CASE Decide(r)
  BY <1>2, StageTells, TagTells DEF Decide
<1>3. CASE Extend(r)
  BY <1>3, StageTells, TagTells DEF Extend
<1>4. CASE Suspend(r)
  BY <1>4, StageTells, TagTells DEF Suspend
<1>5. CASE Activate(r)
  BY <1>5, StageTells, TagTells DEF Activate
<1>6. CASE UpdateLimit(r)
  BY <1>6, StageTells, TagTells DEF UpdateLimit
<1>7. CASE UpdateModules(r)
  BY <1>7, StageTells, TagTells DEF UpdateModules
<1> QED
  BY <1>1, <1>2, <1>3, <1>4, <1>5, <1>6, <1>7 DEF Console

LEMMA GuardMoves ==
  ASSUME Tagged, NEW r \in Req, Guards(r)
  PROVE  Within(r, TenancyOps)
<1>1. CASE SubscriptionGuard(r)
  <2>1. job[r].op \in TenancyOps \cup {"none"}
    BY <1>1, StageTells, TagTells DEF SubscriptionGuard, Starts, TenancyOps
  <2>2. Moved(r)
    BY <1>1 DEF SubscriptionGuard, Starts, Tenant, Counted, Tagged, Goto, End, Idle, Moved
  <2>3. TenancyTag(job'[r].op, stage'[r]) \/ EndTag(job'[r].op, stage'[r])
    BY <1>1 DEF SubscriptionGuard, Starts, Tenant, Counted, Tagged, Goto, End, Idle,
      TenancyTag, EndTag
  <2> QED BY <2>1, <2>2, <2>3, TagTells DEF Within, Tag, IdleTag, EndTag
<1>2. CASE Expire(r)
  BY <1>2, StageTells, TagTells DEF Expire, TenancyOps, Tagged, Goto, End, Idle, Moved,
    TenancyTag, EndTag, Within, Tag, IdleTag
<1>3. CASE ModuleAndLimitGuards(r)
  <2>1. job[r].op \in TenancyOps \cup {"none"}
    BY <1>3, StageTells, TagTells DEF ModuleAndLimitGuards, TenancyOps
  <2>2. \/ \E j : Goto(r, "handler", j) /\ "op" \in DOMAIN j /\ j.op = job[r].op
        \/ End(r, "refused")
    BY <1>3 DEF ModuleAndLimitGuards, Tagged
  <2>3. CASE \E j : Goto(r, "handler", j) /\ "op" \in DOMAIN j /\ j.op = job[r].op
    <3>1. Moved(r) /\ stage'[r] = "handler" /\ job'[r].op = job[r].op
      BY <2>3, GoesOn
    <3>2. TenancyTag(job'[r].op, stage'[r])
      BY <1>3, <3>1, StageTells DEF ModuleAndLimitGuards, TenancyTag
    <3> QED BY <2>1, <3>1, <3>2, TagTells DEF Within, Tag
  <2>4. CASE End(r, "refused")
    BY <2>1, <2>4, Ends DEF Within
  <2> QED BY <2>2, <2>3, <2>4
<1> QED
  BY <1>1, <1>2, <1>3 DEF Guards

LEMMA InsertMoves ==
  ASSUME Tagged, NEW r \in Req, Inserts(r)
  PROVE  Within(r, TenancyOps)
<1> USE DEF Tagged, Goto, End, Idle, Moved, Within, Tag, IdleTag, EndTag, Starts, TenancyOps,
    TenancyTag
<1>1. CASE ReadWarehouse(r)
  <2>1. job[r].op \in TenancyOps \cup {"none"}
    BY <1>1, StageTells, TagTells DEF ReadWarehouse
  <2>2. Moved(r)
    BY <1>1 DEF ReadWarehouse, WarehouseBody
  <2>3. TenancyTag(job'[r].op, stage'[r]) \/ EndTag(job'[r].op, stage'[r])
    BY <1>1 DEF ReadWarehouse, WarehouseBody
  <2> QED BY <2>1, <2>2, <2>3, TagTells
<1>2. CASE CreateRow(r)
  BY <1>2, StageTells, TagTells DEF CreateRow
<1>3. CASE ClearDefaults(r)
  BY <1>3, StageTells, TagTells DEF ClearDefaults, WarehouseBody
<1>4. CASE CreateWarehouse(r)
  BY <1>4, StageTells, TagTells DEF CreateWarehouse
<1>5. CASE UpdateWarehouse(r)
  BY <1>5, StageTells, TagTells DEF UpdateWarehouse
<1>6. CASE RemoveWarehouse(r)
  BY <1>6, StageTells, TagTells DEF RemoveWarehouse
<1>7. CASE Stock(r)
  BY <1>7, StageTells, TagTells DEF Stock
<1> QED
  BY <1>1, <1>2, <1>3, <1>4, <1>5, <1>6, <1>7 DEF Inserts

LEMMA SwitchMoves ==
  ASSUME Tagged, NEW r \in Req, Switches(r)
  PROVE  Within(r, TenancyOps)
<1>1. CASE ListWarehouses(r)
  <2>1. job[r].op \in TenancyOps \cup {"none"}
    BY <1>1, StageTells, TagTells DEF ListWarehouses, TenancyOps
  <2>2. \/ Goto(r, "main", [op |-> "settings", body |-> job[r].body, vat |-> job[r].vat,
             mains |-> Live])
        \/ End(r, "refused")
    BY <1>1 DEF ListWarehouses, SettingsBody
  <2>3. CASE Goto(r, "main", [op |-> "settings", body |-> job[r].body, vat |-> job[r].vat,
             mains |-> Live])
    <3>1. PICK j : j = [op |-> "settings", body |-> job[r].body, vat |-> job[r].vat,
             mains |-> Live]
      OBVIOUS
    <3>2. Goto(r, "main", j) /\ "op" \in DOMAIN j /\ j.op = "settings"
      BY <2>3, <3>1
    <3>3. Moved(r) /\ stage'[r] = "main" /\ job'[r].op = "settings"
      BY <3>2, GoesOn
    <3>4. TenancyTag(job'[r].op, stage'[r])
      BY <1>1, <3>3 DEF TenancyTag
    <3> QED BY <2>1, <3>3, <3>4, TagTells DEF Within, Tag
  <2>4. CASE End(r, "refused")
    BY <2>1, <2>4, Ends DEF Within
  <2> QED BY <2>2, <2>3, <2>4
<1> USE DEF Tagged, Goto, End, Idle, Moved, Within, Tag, IdleTag, EndTag, TenancyOps, TenancyTag
<1>2. CASE ReadSettings(r)
  <2>1. job[r].op \in TenancyOps \cup {"none"}
    BY <1>2, StageTells, TagTells DEF ReadSettings, Starts
  <2>2. Moved(r)
    BY <1>2 DEF ReadSettings, Starts, SettingsBody
  <2>3. TenancyTag(job'[r].op, stage'[r]) \/ EndTag(job'[r].op, stage'[r])
    BY <1>2 DEF ReadSettings, Starts, SettingsBody
  <2> QED BY <2>1, <2>2, <2>3, TagTells
<1>3. CASE SetVat(r)
  <2>1. job[r].op \in TenancyOps \cup {"none"}
    BY <1>3, StageTells, TagTells DEF SetVat
  <2>2. Moved(r)
    BY <1>3 DEF SetVat
  <2>3. TenancyTag(job'[r].op, stage'[r]) \/ EndTag(job'[r].op, stage'[r])
    BY <1>3 DEF SetVat
  <2> QED BY <2>1, <2>2, <2>3, TagTells
<1>4. CASE SetMulti(r)
  BY <1>4, StageTells, TagTells DEF SetMulti
<1>5. CASE MainWarehouse(r)
  BY <1>5, StageTells, TagTells DEF MainWarehouse
<1>6. CASE SetFlag(r)
  BY <1>6, StageTells, TagTells DEF SetFlag
<1> QED
  BY <1>1, <1>2, <1>3, <1>4, <1>5, <1>6 DEF Switches

LEMMA TenancyMoves ==
  ASSUME Tagged, TenancyStep
  PROVE  \/ UNCHANGED requests
         \/ \E r \in Req : Within(r, TenancyOps)
<1>1. ASSUME NEW r \in Req, Console(r) PROVE Within(r, TenancyOps)
  BY <1>1, ConsoleMoves
<1>2. ASSUME NEW r \in Req, Guards(r) PROVE Within(r, TenancyOps)
  BY <1>2, GuardMoves
<1>3. ASSUME NEW r \in Req, Inserts(r) PROVE Within(r, TenancyOps)
  BY <1>3, InsertMoves
<1>4. ASSUME NEW r \in Req, Switches(r) PROVE Within(r, TenancyOps)
  BY <1>4, SwitchMoves
<1>5. ASSUME Tick PROVE UNCHANGED requests
  BY <1>5 DEF Tick
<1> QED
  BY <1>1, <1>2, <1>3, <1>4, <1>5 DEF TenancyStep, Console, Guards, Inserts, Switches

(* Each statement of Accounts, and what follows it.                        *)
SigningIn(r) ==
  Login(r) \/ FindSession(r) \/ ReadSessionUser(r) \/ ReadOverrides(r) \/ RevokeOld(r) \/
    ReadRoleCaps(r) \/ IssueTokens(r) \/ Impersonate(r)
Outdating(r) ==
  Logout(r) \/ RevokeSession(r) \/ RevokeAllSessions(r) \/ ChangePassword(r) \/
    ResetPassword(r) \/ CutSessions(r) \/ CreateUser(r) \/ PatchRole(r) \/ FindRoleUsers(r) \/
    CommitRole(r)
Editing(r) ==
  ReadUser(r) \/ UpdateUser(r) \/ RemoveUser(r) \/ PatchOverrides(r) \/ ReadEmployee(r) \/
    CountOwners(r) \/ ConsoleUpdate(r)
Registering(r) ==
  EnsureNoConflict(r) \/ CreateBusinessWithOwner(r)

LEMMA SignInMoves ==
  ASSUME Tagged, NEW r \in Req, SigningIn(r)
  PROVE  Within(r, SignInOps)
<1>1. CASE Login(r)
  <2>1. job[r].op \in SignInOps \cup {"none"}
    BY <1>1, StageTells, TagTells DEF Login, Starts, SignInOps, AccountsTag
  <2>2. Moved(r)
    BY <1>1 DEF Login, Starts, SignsIn, Tagged, Goto, End, Idle, Moved
  <2>3. \/ AccountsTag(job'[r].op, stage'[r]) /\ job'[r].op \in SignInOps
        \/ EndTag(job'[r].op, stage'[r])
    BY <1>1 DEF Login, Starts, SignsIn, Tagged, Goto, End, Idle, AccountsTag, SignInOps, EndTag
  <2> QED BY <2>1, <2>2, <2>3, TagTells DEF Within, Tag, IdleTag, EndTag
<1>2. CASE FindSession(r)
  <2>1. job[r].op \in SignInOps \cup {"none"}
    BY <1>2, StageTells, TagTells DEF FindSession, Starts, SignInOps, AccountsTag
  <2>2. Moved(r)
    BY <1>2 DEF FindSession, Starts, SignsIn, Tagged, Goto, End, Idle, Moved
  <2>3. \/ AccountsTag(job'[r].op, stage'[r]) /\ job'[r].op \in SignInOps
        \/ EndTag(job'[r].op, stage'[r])
    BY <1>2 DEF FindSession, Starts, SignsIn, Tagged, Goto, End, Idle, AccountsTag, SignInOps,
      EndTag
  <2> QED BY <2>1, <2>2, <2>3, TagTells DEF Within, Tag, IdleTag, EndTag
<1>3. CASE Impersonate(r)
  <2>1. job[r].op \in SignInOps \cup {"none"}
    BY <1>3, StageTells, TagTells DEF Impersonate, Starts, SignInOps, AccountsTag
  <2>2. Moved(r)
    BY <1>3 DEF Impersonate, Starts, SignsIn, Tagged, Goto, End, Idle, Moved
  <2>3. \/ AccountsTag(job'[r].op, stage'[r]) /\ job'[r].op \in SignInOps
        \/ EndTag(job'[r].op, stage'[r])
    BY <1>3 DEF Impersonate, Starts, SignsIn, Tagged, Goto, End, Idle, AccountsTag, SignInOps,
      EndTag
  <2> QED BY <2>1, <2>2, <2>3, TagTells DEF Within, Tag, IdleTag, EndTag
<1> USE DEF Tagged, Goto, End, Idle, Moved, Within, Tag, IdleTag, EndTag, SignInOps, AccountsTag
<1>4. CASE ReadSessionUser(r)
  BY <1>4, StageTells, TagTells DEF ReadSessionUser
<1>5. CASE ReadOverrides(r)
  BY <1>5, StageTells, TagTells DEF ReadOverrides
<1>6. CASE RevokeOld(r)
  BY <1>6, StageTells, TagTells DEF RevokeOld
<1>7. CASE ReadRoleCaps(r)
  BY <1>7, StageTells, TagTells DEF ReadRoleCaps
<1>8. CASE IssueTokens(r)
  BY <1>8, StageTells, TagTells DEF IssueTokens
<1> QED
  BY <1>1, <1>2, <1>3, <1>4, <1>5, <1>6, <1>7, <1>8 DEF SigningIn

LEMMA ResetMoves ==
  ASSUME Tagged, NEW r \in Req, Outdating(r)
  PROVE  Within(r, ResetOps)
<1>1. CASE ResetPassword(r)
  <2>1. job[r].op \in ResetOps \cup {"none"}
    BY <1>1, StageTells, TagTells DEF ResetPassword, Starts, ResetOps, AccountsTag
  <2>2. Moved(r)
    BY <1>1 DEF ResetPassword, Starts, Tagged, Goto, End, Idle, Moved
  <2>3. \/ AccountsTag(job'[r].op, stage'[r]) /\ job'[r].op \in ResetOps
        \/ EndTag(job'[r].op, stage'[r])
    BY <1>1 DEF ResetPassword, Starts, Tagged, Goto, End, Idle, AccountsTag, ResetOps, EndTag
  <2> QED BY <2>1, <2>2, <2>3, TagTells DEF Within, Tag, IdleTag, EndTag
<1>8. CASE PatchRole(r) \/ FindRoleUsers(r)
  <2>1. job[r].op \in {"none", "patchRole"} /\ (FindRoleUsers(r) => job[r].op = "patchRole")
    BY <1>8, StageTells DEF PatchRole, FindRoleUsers, Starts, AccountsTag
  <2>2. PICK s, j : Goto(r, s, j) /\ "op" \in DOMAIN j /\ j.op = "patchRole"
                    /\ s \in {"outdate", "publish"}
    <3>1. CASE PatchRole(r)
      <4>1. PICK role, c, choice :
              Goto(r, "outdate", [op |-> "patchRole", role |-> role, cap |-> c,
                                  choice |-> choice, users |-> {}])
        BY <3>1 DEF PatchRole
      <4> QED BY <4>1
    <3>2. CASE FindRoleUsers(r)
      <4>1. PICK S : Goto(r, "publish", [job[r] EXCEPT !.users = S])
        BY <3>2 DEF FindRoleUsers
      <4>2. /\ "op" \in DOMAIN [job[r] EXCEPT !.users = S]
            /\ [job[r] EXCEPT !.users = S].op = job[r].op
        BY DEF Tagged
      <4> QED BY <2>1, <3>2, <4>1, <4>2
    <3> QED BY <1>8, <3>1, <3>2
  <2>3. Moved(r) /\ stage'[r] = s /\ job'[r] = j
    BY <2>2, GoesOn
  <2>4. AccountsTag(job'[r].op, stage'[r])
    BY <2>2, <2>3 DEF AccountsTag
  <2> QED BY <2>1, <2>2, <2>3, <2>4, TagTells DEF Within, Tag, ResetOps
<1> USE DEF Tagged, Goto, End, Idle, Moved, Within, Tag, IdleTag, EndTag, Starts, ResetOps,
    AccountsTag
<1>2. CASE Logout(r)
  BY <1>2, StageTells, TagTells DEF Logout
<1>3. CASE RevokeSession(r)
  BY <1>3, StageTells, TagTells DEF RevokeSession
<1>4. CASE RevokeAllSessions(r)
  BY <1>4, StageTells, TagTells DEF RevokeAllSessions
<1>5. CASE ChangePassword(r)
  BY <1>5, StageTells, TagTells DEF ChangePassword
<1>6. CASE CutSessions(r)
  BY <1>6, StageTells, TagTells DEF CutSessions
<1>7. CASE CreateUser(r)
  BY <1>7, StageTells, TagTells DEF CreateUser
<1>9. CASE CommitRole(r)
  BY <1>9, StageTells, TagTells DEF CommitRole
<1> QED
  BY <1>1, <1>2, <1>3, <1>4, <1>5, <1>6, <1>7, <1>8, <1>9 DEF Outdating

LEMMA EditMoves ==
  ASSUME Tagged, NEW r \in Req, Editing(r)
  PROVE  Within(r, EditOps)
<1>1. CASE ReadUser(r)
  <2>1. job[r].op \in EditOps \cup {"none"}
    BY <1>1, StageTells, TagTells DEF ReadUser, Starts, EditOps, AccountsTag
  <2>2. PICK u, change :
        \/ Goto(r, "write", [op |-> "update", on |-> u, seen |-> user[u], change |-> change])
        \/ Goto(r, "write", [op |-> "remove", on |-> u])
        \/ Goto(r, "write", [op |-> "patchOverrides", on |-> u])
    BY <1>1 DEF ReadUser, Starts
  <2>3. CASE Goto(r, "write", [op |-> "update", on |-> u, seen |-> user[u], change |-> change])
    <3>1. PICK j : j = [op |-> "update", on |-> u, seen |-> user[u], change |-> change]
      OBVIOUS
    <3>2. Goto(r, "write", j) /\ "op" \in DOMAIN j /\ j.op = "update"
      BY <2>3, <3>1
    <3>3. Moved(r) /\ stage'[r] = "write" /\ job'[r].op = "update"
      BY <3>2, GoesOn
    <3>4. AccountsTag(job'[r].op, stage'[r]) /\ job'[r].op \in EditOps
      BY <1>1, <3>3 DEF AccountsTag, EditOps
    <3> QED BY <2>1, <3>3, <3>4, TagTells DEF Within, Tag
  <2>4. CASE Goto(r, "write", [op |-> "remove", on |-> u])
    <3>1. PICK j : j = [op |-> "remove", on |-> u]
      OBVIOUS
    <3>2. Goto(r, "write", j) /\ "op" \in DOMAIN j /\ j.op = "remove"
      BY <2>4, <3>1
    <3>3. Moved(r) /\ stage'[r] = "write" /\ job'[r].op = "remove"
      BY <3>2, GoesOn
    <3>4. AccountsTag(job'[r].op, stage'[r]) /\ job'[r].op \in EditOps
      BY <1>1, <3>3 DEF AccountsTag, EditOps
    <3> QED BY <2>1, <3>3, <3>4, TagTells DEF Within, Tag
  <2>5. CASE Goto(r, "write", [op |-> "patchOverrides", on |-> u])
    <3>1. PICK j : j = [op |-> "patchOverrides", on |-> u]
      OBVIOUS
    <3>2. Goto(r, "write", j) /\ "op" \in DOMAIN j /\ j.op = "patchOverrides"
      BY <2>5, <3>1
    <3>3. Moved(r) /\ stage'[r] = "write" /\ job'[r].op = "patchOverrides"
      BY <3>2, GoesOn
    <3>4. AccountsTag(job'[r].op, stage'[r]) /\ job'[r].op \in EditOps
      BY <1>1, <3>3 DEF AccountsTag, EditOps
    <3> QED BY <2>1, <3>3, <3>4, TagTells DEF Within, Tag
  <2> QED BY <2>2, <2>3, <2>4, <2>5
<1>2. CASE ReadEmployee(r)
  <2>1. job[r].op \in EditOps \cup {"none"}
    BY <1>2, StageTells, TagTells DEF ReadEmployee, Starts, EditOps, AccountsTag
  <2>2. Moved(r)
    BY <1>2 DEF ReadEmployee, Starts, Tagged, Goto, End, Idle, Moved
  <2>3. \/ AccountsTag(job'[r].op, stage'[r]) /\ job'[r].op \in EditOps
        \/ EndTag(job'[r].op, stage'[r])
    BY <1>2 DEF ReadEmployee, Starts, Tagged, Goto, End, Idle, AccountsTag, EditOps, EndTag
  <2> QED BY <2>1, <2>2, <2>3, TagTells DEF Within, Tag, IdleTag, EndTag
<1>3. CASE CountOwners(r)
  <2>1. job[r].op \in EditOps \cup {"none"}
    BY <1>3, StageTells, TagTells DEF CountOwners, EditOps, AccountsTag
  <2>2. \/ \E j : Goto(r, "write", j) /\ "op" \in DOMAIN j /\ j.op = job[r].op
        \/ End(r, "refused")
    BY <1>3 DEF CountOwners, Tagged
  <2>3. CASE \E j : Goto(r, "write", j) /\ "op" \in DOMAIN j /\ j.op = job[r].op
    <3>1. Moved(r) /\ stage'[r] = "write" /\ job'[r].op = job[r].op
      BY <2>3, GoesOn
    <3>2. AccountsTag(job'[r].op, stage'[r]) /\ job'[r].op \in EditOps
      BY <1>3, <3>1, StageTells DEF CountOwners, AccountsTag, EditOps
    <3> QED BY <2>1, <3>1, <3>2, TagTells DEF Within, Tag
  <2>4. CASE End(r, "refused")
    BY <2>1, <2>4, Ends DEF Within
  <2> QED BY <2>2, <2>3, <2>4
<1> USE DEF Tagged, Goto, End, Idle, Moved, Within, Tag, IdleTag, EndTag, EditOps, AccountsTag
<1>4. CASE UpdateUser(r)
  BY <1>4, StageTells, TagTells DEF UpdateUser
<1>5. CASE RemoveUser(r)
  BY <1>5, StageTells, TagTells DEF RemoveUser
<1>6. CASE PatchOverrides(r)
  BY <1>6, StageTells, TagTells DEF PatchOverrides
<1>7. CASE ConsoleUpdate(r)
  BY <1>7, StageTells, TagTells DEF ConsoleUpdate
<1> QED
  BY <1>1, <1>2, <1>3, <1>4, <1>5, <1>6, <1>7 DEF Editing

LEMMA RegisterMoves ==
  ASSUME Tagged, NEW r \in Req, Registering(r)
  PROVE  Within(r, RegisterOps)
<1>1. CASE EnsureNoConflict(r)
  <2>1. job[r].op \in RegisterOps \cup {"none"}
    BY <1>1, StageTells, TagTells DEF EnsureNoConflict, Starts, RegisterOps, AccountsTag
  <2>2. PICK body :
        \/ Goto(r, "sign up", [op |-> "register", body |-> body])
        \/ End(r, "refused")
    BY <1>1 DEF EnsureNoConflict, Starts
  <2>3. CASE Goto(r, "sign up", [op |-> "register", body |-> body])
    <3>1. PICK j : j = [op |-> "register", body |-> body]
      OBVIOUS
    <3>2. Goto(r, "sign up", j) /\ "op" \in DOMAIN j /\ j.op = "register"
      BY <2>3, <3>1
    <3>3. Moved(r) /\ stage'[r] = "sign up" /\ job'[r].op = "register"
      BY <3>2, GoesOn
    <3>4. AccountsTag(job'[r].op, stage'[r]) /\ job'[r].op \in RegisterOps
      BY <1>1, <3>3 DEF AccountsTag, RegisterOps
    <3> QED BY <2>1, <3>3, <3>4, TagTells DEF Within, Tag
  <2>4. CASE End(r, "refused")
    BY <2>1, <2>4, Ends DEF Within
  <2> QED BY <2>2, <2>3, <2>4
<1>2. CASE CreateBusinessWithOwner(r)
  BY <1>2, StageTells, TagTells DEF CreateBusinessWithOwner, RegisterOps, AccountsTag, Tagged,
    Goto, End, Idle, Moved, EndTag, Within, Tag, IdleTag
<1> QED
  BY <1>1, <1>2 DEF Registering

LEMMA AccountsMoves ==
  ASSUME Tagged, AccountsStep
  PROVE  \E r \in Req : Within(r, AccountsOps)
<1>1. ASSUME NEW r \in Req, SigningIn(r) PROVE Within(r, AccountsOps)
  BY <1>1, SignInMoves, WithinMore DEF SignInOps, AccountsOps
<1>2. ASSUME NEW r \in Req, Outdating(r) PROVE Within(r, AccountsOps)
  BY <1>2, ResetMoves, WithinMore DEF ResetOps, AccountsOps
<1>3. ASSUME NEW r \in Req, Editing(r) PROVE Within(r, AccountsOps)
  BY <1>3, EditMoves, WithinMore DEF EditOps, AccountsOps
<1>4. ASSUME NEW r \in Req, Registering(r) PROVE Within(r, AccountsOps)
  BY <1>4, RegisterMoves, WithinMore DEF RegisterOps, AccountsOps
<1> QED
  BY <1>1, <1>2, <1>3, <1>4 DEF AccountsStep, SigningIn, Outdating, Editing, Registering

(* Each statement of Catalogue, and what follows it.                       *)
Naming(r) ==
  CreateProduct(r) \/ UpdateProduct(r) \/ DuplicateProduct(r) \/ WriteProduct(r) \/
    RemoveProduct(r)
Grouping(r) ==
  CreatePriceGroup(r) \/ InsertPriceGroup(r) \/ DeletePriceGroup(r)
Laddering(r) ==
  ReplaceTiers(r) \/ DeleteTiers(r) \/ InsertTiers(r)
Ordering(r) ==
  UpdateListing(r) \/ CreateListing(r) \/ DeleteListing(r) \/ Catalog(r) \/ FindListings(r) \/
    EnsureCustomer(r) \/ PlaceOrder(r)

LEMMA ProductMoves ==
  ASSUME Tagged, NEW r \in Req, Naming(r)
  PROVE  Within(r, ProductOps)
<1>1. CASE CreateProduct(r)
  <2>1. job[r].op \in ProductOps \cup {"none"}
    BY <1>1, StageTells, TagTells DEF CreateProduct, Starts, ProductOps, CatalogueTag
  <2>2. Moved(r)
    BY <1>1 DEF CreateProduct, Starts, Tagged, Goto, End, Idle, Moved
  <2>3. \/ CatalogueTag(job'[r].op, stage'[r]) /\ job'[r].op \in ProductOps
        \/ EndTag(job'[r].op, stage'[r])
    BY <1>1 DEF CreateProduct, Starts, Tagged, Goto, End, Idle, CatalogueTag, ProductOps, EndTag
  <2> QED BY <2>1, <2>2, <2>3, TagTells DEF Within, Tag, IdleTag, EndTag
<1>2. CASE UpdateProduct(r)
  <2>1. job[r].op \in ProductOps \cup {"none"}
    BY <1>2, StageTells, TagTells DEF UpdateProduct, Starts, ProductOps, CatalogueTag
  <2>2. Moved(r)
    BY <1>2 DEF UpdateProduct, Starts, Tagged, Goto, End, Idle, Moved
  <2>3. \/ CatalogueTag(job'[r].op, stage'[r]) /\ job'[r].op \in ProductOps
        \/ EndTag(job'[r].op, stage'[r])
    BY <1>2 DEF UpdateProduct, Starts, Tagged, Goto, End, Idle, CatalogueTag, ProductOps, EndTag
  <2> QED BY <2>1, <2>2, <2>3, TagTells DEF Within, Tag, IdleTag, EndTag
<1>3. CASE DuplicateProduct(r)
  <2>1. job[r].op \in ProductOps \cup {"none"}
    BY <1>3, StageTells, TagTells DEF DuplicateProduct, Starts, ProductOps, CatalogueTag
  <2>2. Moved(r)
    BY <1>3 DEF DuplicateProduct, Starts, Tagged, Goto, End, Idle, Moved
  <2>3. \/ CatalogueTag(job'[r].op, stage'[r]) /\ job'[r].op \in ProductOps
        \/ EndTag(job'[r].op, stage'[r])
    BY <1>3 DEF DuplicateProduct, Starts, Tagged, Goto, End, Idle, CatalogueTag, ProductOps,
      EndTag
  <2> QED BY <2>1, <2>2, <2>3, TagTells DEF Within, Tag, IdleTag, EndTag
<1>4. CASE WriteProduct(r)
  <2>1. job[r].op \in ProductOps \cup {"none"}
    BY <1>4, StageTells, TagTells DEF WriteProduct, ProductOps, CatalogueTag
  <2>2. Moved(r)
    BY <1>4 DEF WriteProduct, Tagged, Goto, End, Idle, Moved
  <2>3. \/ CatalogueTag(job'[r].op, stage'[r]) /\ job'[r].op \in ProductOps
        \/ EndTag(job'[r].op, stage'[r])
    BY <1>4 DEF WriteProduct, Tagged, Goto, End, Idle, CatalogueTag, ProductOps, EndTag
  <2> QED BY <2>1, <2>2, <2>3, TagTells DEF Within, Tag, IdleTag, EndTag
<1>5. CASE RemoveProduct(r)
  BY <1>5, StageTells, TagTells DEF RemoveProduct, Starts, ProductOps, CatalogueTag, Tagged, Goto,
    End, Idle, Moved, EndTag, Within, Tag, IdleTag
<1> QED
  BY <1>1, <1>2, <1>3, <1>4, <1>5 DEF Naming

LEMMA GroupMoves ==
  ASSUME Tagged, NEW r \in Req, Grouping(r)
  PROVE  Within(r, GroupOps)
<1> USE DEF Tagged, Goto, End, Idle, Moved, Within, Tag, IdleTag, EndTag, Starts, GroupOps,
    CatalogueTag
<1>1. CASE CreatePriceGroup(r)
  <2>1. job[r].op \in GroupOps \cup {"none"}
    BY <1>1, StageTells, TagTells DEF CreatePriceGroup
  <2>2. Moved(r)
    BY <1>1 DEF CreatePriceGroup
  <2>3. \/ CatalogueTag(job'[r].op, stage'[r]) /\ job'[r].op \in GroupOps
        \/ EndTag(job'[r].op, stage'[r])
    BY <1>1 DEF CreatePriceGroup
  <2> QED BY <2>1, <2>2, <2>3, TagTells
<1>2. CASE InsertPriceGroup(r)
  BY <1>2, StageTells, TagTells DEF InsertPriceGroup
<1>3. CASE DeletePriceGroup(r)
  BY <1>3, StageTells, TagTells DEF DeletePriceGroup
<1> QED
  BY <1>1, <1>2, <1>3 DEF Grouping

LEMMA TiersMoves ==
  ASSUME Tagged, NEW r \in Req, Laddering(r)
  PROVE  Within(r, TiersOps)
<1>1. CASE ReplaceTiers(r)
  <2>1. job[r].op \in TiersOps \cup {"none"}
    BY <1>1, StageTells, TagTells DEF ReplaceTiers, Starts, TiersOps, CatalogueTag
  <2>2. Moved(r)
    BY <1>1 DEF ReplaceTiers, Starts, Tagged, Goto, End, Idle, Moved
  <2>3. \/ CatalogueTag(job'[r].op, stage'[r]) /\ job'[r].op \in TiersOps
        \/ EndTag(job'[r].op, stage'[r])
    BY <1>1 DEF ReplaceTiers, Starts, Tagged, Goto, End, Idle, CatalogueTag, TiersOps, EndTag
  <2> QED BY <2>1, <2>2, <2>3, TagTells DEF Within, Tag, IdleTag, EndTag
<1>2. CASE DeleteTiers(r)
  BY <1>2, StageTells, TagTells DEF DeleteTiers, TiersOps, CatalogueTag, Tagged, Goto, End, Idle,
    Moved, EndTag, Within, Tag, IdleTag
<1>3. CASE InsertTiers(r)
  <2>1. job[r].op \in TiersOps \cup {"none"}
    BY <1>3, StageTells, TagTells DEF InsertTiers, TiersOps, CatalogueTag
  <2>2. Moved(r)
    BY <1>3 DEF InsertTiers, Tagged, Goto, End, Idle, Moved
  <2>3. \/ CatalogueTag(job'[r].op, stage'[r]) /\ job'[r].op \in TiersOps
        \/ EndTag(job'[r].op, stage'[r])
    BY <1>3 DEF InsertTiers, Tagged, Goto, End, Idle, CatalogueTag, TiersOps, EndTag
  <2> QED BY <2>1, <2>2, <2>3, TagTells DEF Within, Tag, IdleTag, EndTag
<1> QED
  BY <1>1, <1>2, <1>3 DEF Laddering

LEMMA OrderMoves ==
  ASSUME Tagged, NEW r \in Req, Ordering(r)
  PROVE  Within(r, OrderOps)
<1>1. CASE FindListings(r)
  <2>1. job[r].op \in OrderOps \cup {"none"}
    BY <1>1, StageTells, TagTells DEF FindListings, OrderOps, CatalogueTag
  <2>2. \/ Goto(r, "customer", [job[r] EXCEPT !.listing = listing, !.ladder = ladder,
             !.asQuoted = job[r].listing = listing /\ job[r].ladder = ladder])
        \/ End(r, "refused")
    BY <1>1 DEF FindListings
  <2>3. CASE Goto(r, "customer", [job[r] EXCEPT !.listing = listing, !.ladder = ladder,
             !.asQuoted = job[r].listing = listing /\ job[r].ladder = ladder])
    <3>1. PICK j : j = [job[r] EXCEPT !.listing = listing, !.ladder = ladder,
             !.asQuoted = job[r].listing = listing /\ job[r].ladder = ladder]
      OBVIOUS
    <3>2. Goto(r, "customer", j) /\ "op" \in DOMAIN j /\ j.op = job[r].op
      BY <2>3, <3>1 DEF Tagged
    <3>3. Moved(r) /\ stage'[r] = "customer" /\ job'[r].op = job[r].op
      BY <3>2, GoesOn
    <3>4. CatalogueTag(job'[r].op, stage'[r]) /\ job'[r].op \in OrderOps
      BY <1>1, <3>3, StageTells DEF FindListings, CatalogueTag, OrderOps
    <3> QED BY <2>1, <3>3, <3>4, TagTells DEF Within, Tag
  <2>4. CASE End(r, "refused")
    BY <2>1, <2>4, Ends DEF Within
  <2> QED BY <2>2, <2>3, <2>4
<1>2. CASE EnsureCustomer(r)
  <2>1. job[r].op \in OrderOps \cup {"none"}
    BY <1>2, StageTells, TagTells DEF EnsureCustomer, OrderOps, CatalogueTag
  <2>2. PICK j : j = [job[r] EXCEPT !.group = buyer'.group,
             !.asQuoted = @ /\ job[r].group \in {NoGroup, buyer'.group}]
    OBVIOUS
  <2>3. \/ Goto(r, "price", j) /\ "op" \in DOMAIN j /\ j.op = job[r].op
        \/ End(r, "refused")
    <3>1. Goto(r, "price", j) \/ End(r, "refused")
      BY <1>2, <2>2 DEF EnsureCustomer
    <3> QED BY <2>2, <3>1 DEF Tagged
  <2>4. CASE Goto(r, "price", j) /\ "op" \in DOMAIN j /\ j.op = job[r].op
    <3>1. Moved(r) /\ stage'[r] = "price" /\ job'[r].op = job[r].op
      BY <2>4, GoesOn
    <3>2. CatalogueTag(job'[r].op, stage'[r]) /\ job'[r].op \in OrderOps
      BY <1>2, <3>1, StageTells DEF EnsureCustomer, CatalogueTag, OrderOps
    <3> QED BY <2>1, <3>1, <3>2, TagTells DEF Within, Tag
  <2>5. CASE End(r, "refused")
    BY <2>1, <2>5, Ends DEF Within
  <2> QED BY <2>3, <2>4, <2>5
<1> USE DEF Tagged, Goto, End, Idle, Moved, Within, Tag, IdleTag, EndTag, Starts, OrderOps,
    CatalogueTag
<1>3. CASE Catalog(r)
  <2>1. job[r].op \in OrderOps \cup {"none"}
    BY <1>3, StageTells, TagTells DEF Catalog
  <2>2. Moved(r)
    BY <1>3 DEF Catalog
  <2>3. \/ CatalogueTag(job'[r].op, stage'[r]) /\ job'[r].op \in OrderOps
        \/ EndTag(job'[r].op, stage'[r])
    BY <1>3 DEF Catalog
  <2> QED BY <2>1, <2>2, <2>3, TagTells
<1>4. CASE UpdateListing(r)
  BY <1>4, StageTells, TagTells DEF UpdateListing
<1>5. CASE CreateListing(r)
  BY <1>5, StageTells, TagTells DEF CreateListing
<1>6. CASE DeleteListing(r)
  BY <1>6, StageTells, TagTells DEF DeleteListing
<1>7. CASE PlaceOrder(r)
  BY <1>7, StageTells, TagTells DEF PlaceOrder
<1> QED
  BY <1>1, <1>2, <1>3, <1>4, <1>5, <1>6, <1>7 DEF Ordering

LEMMA CatalogueMoves ==
  ASSUME Tagged, CatalogueStep
  PROVE  \E r \in Req : Within(r, CatalogueOps)
<1>1. ASSUME NEW r \in Req, Naming(r) PROVE Within(r, CatalogueOps)
  BY <1>1, ProductMoves, WithinMore DEF ProductOps, CatalogueOps
<1>2. ASSUME NEW r \in Req, Grouping(r) PROVE Within(r, CatalogueOps)
  BY <1>2, GroupMoves, WithinMore DEF GroupOps, CatalogueOps
<1>3. ASSUME NEW r \in Req, Laddering(r) PROVE Within(r, CatalogueOps)
  BY <1>3, TiersMoves, WithinMore DEF TiersOps, CatalogueOps
<1>4. ASSUME NEW r \in Req, Ordering(r) PROVE Within(r, CatalogueOps)
  BY <1>4, OrderMoves, WithinMore DEF OrderOps, CatalogueOps
<1> QED
  BY <1>1, <1>2, <1>3, <1>4 DEF CatalogueStep, Naming, Grouping, Laddering, Ordering

(* Each statement of Mfa, and what follows it.                             *)
Proving(r) ==
  Challenge(r) \/ Enrol(r) \/ Verify(r) \/ Accept(r) \/ CountFailure(r) \/ Lock(r)

LEMMA ProvingMoves ==
  ASSUME Tagged, NEW r \in Req, Proving(r)
  PROVE  Within(r, MfaOps)
<1>1. CASE CountFailure(r)
  <2>1. job[r].op \in MfaOps \cup {"none"}
    BY <1>1, StageTells, TagTells DEF CountFailure, MfaOps
  <2>2. \/ \E j : Goto(r, "lock", j) /\ "op" \in DOMAIN j /\ j.op = job[r].op
        \/ End(r, "refused")
    BY <1>1 DEF CountFailure, Tagged
  <2>3. CASE \E j : Goto(r, "lock", j) /\ "op" \in DOMAIN j /\ j.op = job[r].op
    <3>1. Moved(r) /\ stage'[r] = "lock" /\ job'[r].op = job[r].op
      BY <2>3, GoesOn
    <3>2. MfaTag(job'[r].op, stage'[r])
      BY <1>1, <3>1, StageTells DEF CountFailure, MfaTag
    <3> QED BY <2>1, <3>1, <3>2, TagTells DEF Within, Tag
  <2>4. CASE End(r, "refused")
    BY <2>1, <2>4, Ends DEF Within
  <2> QED BY <2>2, <2>3, <2>4
<1> USE DEF Tagged, Goto, End, Idle, Moved, Within, Tag, IdleTag, EndTag, MfaOps, MfaTag
<1>2. CASE Challenge(r)
  <2>1. job[r].op \in MfaOps \cup {"none"}
    BY <1>2, StageTells, TagTells DEF Challenge, Starts
  <2>2. Moved(r)
    BY <1>2 DEF Challenge, Starts
  <2>3. MfaTag(job'[r].op, stage'[r]) \/ EndTag(job'[r].op, stage'[r])
    BY <1>2 DEF Challenge, Starts
  <2> QED BY <2>1, <2>2, <2>3, TagTells
<1>3. CASE Verify(r)
  <2>1. job[r].op \in MfaOps \cup {"none"}
    BY <1>3, StageTells, TagTells DEF Verify, Starts
  <2>2. Moved(r)
    BY <1>3 DEF Verify, Starts
  <2>3. MfaTag(job'[r].op, stage'[r]) \/ EndTag(job'[r].op, stage'[r])
    BY <1>3 DEF Verify, Starts
  <2> QED BY <2>1, <2>2, <2>3, TagTells
<1>4. CASE Enrol(r)
  BY <1>4, StageTells, TagTells DEF Enrol
<1>5. CASE Accept(r)
  BY <1>5, StageTells, TagTells DEF Accept
<1>6. CASE Lock(r)
  BY <1>6, StageTells, TagTells DEF Lock
<1> QED
  BY <1>1, <1>2, <1>3, <1>4, <1>5, <1>6 DEF Proving

LEMMA MfaMoves ==
  ASSUME Tagged, MfaStep
  PROVE  \/ UNCHANGED requests
         \/ \E r \in Req : Within(r, MfaOps)
<1>1. ASSUME NEW r \in Req, Proving(r) PROVE Within(r, MfaOps)
  BY <1>1, ProvingMoves
<1>2. ASSUME NextStep PROVE UNCHANGED requests
  BY <1>2 DEF NextStep
<1>3. ASSUME RotateKey PROVE UNCHANGED requests
  BY <1>3 DEF RotateKey
<1> QED
  BY <1>1, <1>2, <1>3 DEF MfaStep, Proving

(* Each statement of TenantRows, and what follows it.                      *)
Accessing(r) ==
  OpenScope(r) \/ Sweep(r) \/ ReadOwn(r) \/ WriteOwn(r) \/ InsertChild(r) \/ FindOrder(r) \/
    FindLines(r) \/ CloseScope(r)

LEMMA AccessingMoves ==
  ASSUME Tagged, NEW r \in Req, Accessing(r)
  PROVE  Within(r, TenantRowsOps)
<1> USE DEF Tagged, Goto, End, Idle, Moved, Within, Tag, IdleTag, EndTag, Starts, TenantRowsOps,
    TenantRowsTag
<1>1. CASE Sweep(r)
  <2>1. job[r].op \in TenantRowsOps \cup {"none"}
    BY <1>1, StageTells, TagTells DEF Sweep
  <2>2. Moved(r)
    BY <1>1 DEF Sweep
  <2>3. TenantRowsTag(job'[r].op, stage'[r]) \/ EndTag(job'[r].op, stage'[r])
    BY <1>1 DEF Sweep
  <2> QED BY <2>1, <2>2, <2>3, TagTells
<1>2. CASE InsertChild(r)
  <2>1. job[r].op \in TenantRowsOps \cup {"none"}
    BY <1>2, StageTells, TagTells DEF InsertChild
  <2>2. Moved(r)
    BY <1>2 DEF InsertChild
  <2>3. TenantRowsTag(job'[r].op, stage'[r]) \/ EndTag(job'[r].op, stage'[r])
    BY <1>2, StageTells DEF InsertChild
  <2> QED BY <2>1, <2>2, <2>3, TagTells
<1>3. CASE OpenScope(r)
  BY <1>3, StageTells, TagTells DEF OpenScope
<1>4. CASE ReadOwn(r)
  BY <1>4, StageTells, TagTells DEF ReadOwn
<1>5. CASE WriteOwn(r)
  BY <1>5, StageTells, TagTells DEF WriteOwn
<1>6. CASE FindOrder(r)
  BY <1>6, StageTells, TagTells DEF FindOrder
<1>7. CASE FindLines(r)
  BY <1>7, StageTells, TagTells DEF FindLines
<1>8. CASE CloseScope(r)
  BY <1>8, StageTells, TagTells DEF CloseScope
<1> QED
  BY <1>1, <1>2, <1>3, <1>4, <1>5, <1>6, <1>7, <1>8 DEF Accessing

LEMMA TenantRowsMoves ==
  ASSUME Tagged, TenantRowsStep
  PROVE  \E r \in Req : Within(r, TenantRowsOps)
<1>1. ASSUME NEW r \in Req, Accessing(r) PROVE Within(r, TenantRowsOps)
  BY <1>1, AccessingMoves
<1> QED
  BY <1>1 DEF TenantRowsStep, Accessing

(* Each statement of Attendance, and what follows it.                      *)
Clocking(r) ==
  FindOpenToCheckIn(r) \/ CreateShift(r) \/ FindOpenShift(r) \/ FindActivePause(r) \/
    TogglePause(r) \/ CheckOut(r) \/ FindStale(r) \/ ForceCheckOut(r) \/ EndSweep(r)

LEMMA ClockingMoves ==
  ASSUME Tagged, NEW r \in Req, Clocking(r)
  PROVE  Within(r, AttendanceOps)
<1>1. CASE FindOpenShift(r)
  <2>1. job[r].op \in AttendanceOps \cup {"none"}
    BY <1>1, StageTells, TagTells DEF FindOpenShift, Starts, AttendanceOps
  <2>2. PICK a :
        \/ Goto(r, "findPause", [op |-> "checkOut", shifts |-> {a}, pause |-> None])
        \/ Goto(r, "findPause", [op |-> "togglePause", shifts |-> {a}, pause |-> None])
        \/ End(r, "refused")
    BY <1>1 DEF FindOpenShift, Starts
  <2>3. CASE Goto(r, "findPause", [op |-> "checkOut", shifts |-> {a}, pause |-> None])
    <3>1. PICK j : j = [op |-> "checkOut", shifts |-> {a}, pause |-> None]
      OBVIOUS
    <3>2. Goto(r, "findPause", j) /\ "op" \in DOMAIN j /\ j.op = "checkOut"
      BY <2>3, <3>1
    <3>3. Moved(r) /\ stage'[r] = "findPause" /\ job'[r].op = "checkOut"
      BY <3>2, GoesOn
    <3>4. AttendanceTag(job'[r].op, stage'[r])
      BY <1>1, <3>3 DEF AttendanceTag
    <3> QED BY <2>1, <3>3, <3>4, TagTells DEF Within, Tag
  <2>4. CASE Goto(r, "findPause", [op |-> "togglePause", shifts |-> {a}, pause |-> None])
    <3>1. PICK j : j = [op |-> "togglePause", shifts |-> {a}, pause |-> None]
      OBVIOUS
    <3>2. Goto(r, "findPause", j) /\ "op" \in DOMAIN j /\ j.op = "togglePause"
      BY <2>4, <3>1
    <3>3. Moved(r) /\ stage'[r] = "findPause" /\ job'[r].op = "togglePause"
      BY <3>2, GoesOn
    <3>4. AttendanceTag(job'[r].op, stage'[r])
      BY <1>1, <3>3 DEF AttendanceTag
    <3> QED BY <2>1, <3>3, <3>4, TagTells DEF Within, Tag
  <2>5. CASE End(r, "refused")
    BY <2>1, <2>5, Ends DEF Within
  <2> QED BY <2>2, <2>3, <2>4, <2>5
<1> USE DEF Tagged, Goto, End, Idle, Moved, Within, Tag, IdleTag, EndTag, Starts, AttendanceOps,
    AttendanceTag
<1>2. CASE FindOpenToCheckIn(r)
  <2>1. job[r].op \in AttendanceOps \cup {"none"}
    BY <1>2, StageTells, TagTells DEF FindOpenToCheckIn
  <2>2. Moved(r)
    BY <1>2 DEF FindOpenToCheckIn
  <2>3. AttendanceTag(job'[r].op, stage'[r]) \/ EndTag(job'[r].op, stage'[r])
    BY <1>2 DEF FindOpenToCheckIn
  <2> QED BY <2>1, <2>2, <2>3, TagTells
<1>3. CASE FindActivePause(r)
  <2>1. job[r].op \in AttendanceOps \cup {"none"}
    BY <1>3, StageTells, TagTells DEF FindActivePause
  <2>2. Moved(r)
    BY <1>3 DEF FindActivePause
  <2>3. AttendanceTag(job'[r].op, stage'[r]) \/ EndTag(job'[r].op, stage'[r])
    BY <1>3, StageTells DEF FindActivePause
  <2> QED BY <2>1, <2>2, <2>3, TagTells
<1>4. CASE ForceCheckOut(r)
  <2>1. job[r].op \in AttendanceOps \cup {"none"}
    BY <1>4, StageTells, TagTells DEF ForceCheckOut
  <2>2. Moved(r)
    BY <1>4 DEF ForceCheckOut
  <2>3. AttendanceTag(job'[r].op, stage'[r]) \/ EndTag(job'[r].op, stage'[r])
    BY <1>4, StageTells DEF ForceCheckOut
  <2> QED BY <2>1, <2>2, <2>3, TagTells
<1>5. CASE CreateShift(r)
  BY <1>5, StageTells, TagTells DEF CreateShift
<1>6. CASE TogglePause(r)
  BY <1>6, StageTells, TagTells DEF TogglePause
<1>7. CASE CheckOut(r)
  BY <1>7, StageTells, TagTells DEF CheckOut
<1>8. CASE FindStale(r)
  BY <1>8, StageTells, TagTells DEF FindStale
<1>9. CASE EndSweep(r)
  BY <1>9, StageTells, TagTells DEF EndSweep
<1> QED
  BY <1>1, <1>2, <1>3, <1>4, <1>5, <1>6, <1>7, <1>8, <1>9 DEF Clocking

LEMMA AttendanceMoves ==
  ASSUME Tagged, AttendanceStep
  PROVE  \/ UNCHANGED requests
         \/ \E r \in Req : Within(r, AttendanceOps)
<1>1. ASSUME NEW r \in Req, Clocking(r) PROVE Within(r, AttendanceOps)
  BY <1>1, ClockingMoves
<1>2. ASSUME PassHour PROVE UNCHANGED requests
  BY <1>2 DEF PassHour
<1> QED
  BY <1>1, <1>2 DEF AttendanceStep, Clocking

(* Each statement of Uploads, and what follows it.                         *)
Filing(r) ==
  Scan(r) \/ AssertCategoryUsable(r) \/ CreateExpense(r) \/ FindPrior(r) \/ FindRow(r) \/
    UploadImage(r) \/ AddPhoto(r) \/ InsertPhoto(r) \/ Replace(r) \/ Commit(r) \/
    DiesWriting(r) \/ SetCategory(r) \/ CountUses(r) \/ RemoveCategory(r)

LEMMA FilingMoves ==
  ASSUME Tagged, NEW r \in Req, Filing(r)
  PROVE  Within(r, UploadsOps)
<1>1. CASE Replace(r)
  <2>1. job[r].op \in UploadsOps \cup {"none"}
    BY <1>1, StageTells, TagTells DEF Replace, UploadsOps
  <2>2. \/ \E j : Goto(r, "commit", j) /\ "op" \in DOMAIN j /\ j.op = job[r].op
        \/ End(r, "refused")
    BY <1>1 DEF Replace, Tagged
  <2>3. CASE \E j : Goto(r, "commit", j) /\ "op" \in DOMAIN j /\ j.op = job[r].op
    <3>1. Moved(r) /\ stage'[r] = "commit" /\ job'[r].op = job[r].op
      BY <2>3, GoesOn
    <3>2. UploadsTag(job'[r].op, stage'[r])
      BY <1>1, <3>1, StageTells DEF Replace, UploadsTag
    <3> QED BY <2>1, <3>1, <3>2, TagTells DEF Within, Tag
  <2>4. CASE End(r, "refused")
    BY <2>1, <2>4, Ends DEF Within
  <2> QED BY <2>2, <2>3, <2>4
<1> USE DEF Tagged, Goto, End, Idle, Moved, Within, Tag, IdleTag, EndTag, Starts, UploadsOps,
    UploadsTag
<1>2. CASE AssertCategoryUsable(r)
  <2>1. job[r].op \in UploadsOps \cup {"none"}
    BY <1>2, StageTells, TagTells DEF AssertCategoryUsable
  <2>2. Moved(r)
    BY <1>2 DEF AssertCategoryUsable, Writing
  <2>3. UploadsTag(job'[r].op, stage'[r]) \/ EndTag(job'[r].op, stage'[r])
    BY <1>2 DEF AssertCategoryUsable, Writing
  <2> QED BY <2>1, <2>2, <2>3, TagTells
<1>3. CASE FindRow(r)
  <2>1. job[r].op \in UploadsOps \cup {"none"}
    BY <1>3, StageTells, TagTells DEF FindRow
  <2>2. Moved(r)
    BY <1>3 DEF FindRow, Writing
  <2>3. UploadsTag(job'[r].op, stage'[r]) \/ EndTag(job'[r].op, stage'[r])
    BY <1>3 DEF FindRow, Writing
  <2> QED BY <2>1, <2>2, <2>3, TagTells
<1>4. CASE UploadImage(r)
  <2>1. job[r].op \in UploadsOps \cup {"none"}
    BY <1>4, StageTells, TagTells DEF UploadImage
  <2>2. Moved(r)
    BY <1>4 DEF UploadImage, Writing
  <2>3. UploadsTag(job'[r].op, stage'[r]) \/ EndTag(job'[r].op, stage'[r])
    BY <1>4 DEF UploadImage, Writing
  <2> QED BY <2>1, <2>2, <2>3, TagTells
<1>5. CASE AddPhoto(r)
  <2>1. job[r].op \in UploadsOps \cup {"none"}
    BY <1>5, StageTells, TagTells DEF AddPhoto
  <2>2. Moved(r)
    BY <1>5 DEF AddPhoto, Writing
  <2>3. UploadsTag(job'[r].op, stage'[r]) \/ EndTag(job'[r].op, stage'[r])
    BY <1>5 DEF AddPhoto, Writing
  <2> QED BY <2>1, <2>2, <2>3, TagTells
<1>6. CASE InsertPhoto(r)
  <2>1. job[r].op \in UploadsOps \cup {"none"}
    BY <1>6, StageTells, TagTells DEF InsertPhoto
  <2>2. Moved(r)
    BY <1>6 DEF InsertPhoto
  <2>3. UploadsTag(job'[r].op, stage'[r]) \/ EndTag(job'[r].op, stage'[r])
    BY <1>6 DEF InsertPhoto
  <2> QED BY <2>1, <2>2, <2>3, TagTells
<1>7. CASE CountUses(r)
  <2>1. job[r].op \in UploadsOps \cup {"none"}
    BY <1>7, StageTells, TagTells DEF CountUses
  <2>2. Moved(r)
    BY <1>7 DEF CountUses
  <2>3. UploadsTag(job'[r].op, stage'[r]) \/ EndTag(job'[r].op, stage'[r])
    BY <1>7 DEF CountUses
  <2> QED BY <2>1, <2>2, <2>3, TagTells
<1>8. CASE Scan(r)
  BY <1>8, StageTells, TagTells DEF Scan
<1>9. CASE CreateExpense(r)
  BY <1>9, StageTells, TagTells DEF CreateExpense
<1>10. CASE FindPrior(r)
  BY <1>10, StageTells, TagTells DEF FindPrior
<1>11. CASE Commit(r)
  BY <1>11, StageTells, TagTells DEF Commit
<1>12. CASE DiesWriting(r)
  BY <1>12, StageTells, TagTells DEF DiesWriting, Dies
<1>13. CASE SetCategory(r)
  BY <1>13, StageTells, TagTells DEF SetCategory
<1>14. CASE RemoveCategory(r)
  BY <1>14, StageTells, TagTells DEF RemoveCategory
<1> QED
  BY <1>1, <1>2, <1>3, <1>4, <1>5, <1>6, <1>7, <1>8, <1>9, <1>10, <1>11, <1>12, <1>13,
    <1>14 DEF Filing

LEMMA UploadsMoves ==
  ASSUME Tagged, UploadsStep
  PROVE  \E r \in Req : Within(r, UploadsOps)
<1>1. ASSUME NEW r \in Req, Filing(r) PROVE Within(r, UploadsOps)
  BY <1>1, FilingMoves
<1> QED
  BY <1>1 DEF UploadsStep, Filing

(* Each statement of Notices, and what follows it.                         *)
Noticing(r) ==
  MoveStock(r) \/ FindCandidates(r) \/ ExistsUnread(r) \/ CreateNotice(r) \/ MarkRead(r) \/
    ScheduledRun(r) \/ OwnerLogin(r)

LEMMA NoticingMoves ==
  ASSUME Tagged, NEW r \in Req, Noticing(r)
  PROVE  Within(r, NoticesOps)
<1>1. CASE FindCandidates(r)
  <2>1. job[r].op \in NoticesOps \cup {"none"}
    BY <1>1, StageTells, TagTells DEF FindCandidates, Starts, NoticesOps
  <2>2. \/ Goto(r, "exists", [op |-> "scan stock", left |-> LowStock \o Expiring])
        \/ End(r, "done")
    BY <1>1 DEF FindCandidates, Starts, GoOn
  <2>3. CASE Goto(r, "exists", [op |-> "scan stock", left |-> LowStock \o Expiring])
    <3>1. PICK j : j = [op |-> "scan stock", left |-> LowStock \o Expiring]
      OBVIOUS
    <3>2. Goto(r, "exists", j) /\ "op" \in DOMAIN j /\ j.op = "scan stock"
      BY <2>3, <3>1
    <3>3. Moved(r) /\ stage'[r] = "exists" /\ job'[r].op = "scan stock"
      BY <3>2, GoesOn
    <3>4. NoticesTag(job'[r].op, stage'[r])
      BY <1>1, <3>3 DEF NoticesTag
    <3> QED BY <2>1, <3>3, <3>4, TagTells DEF Within, Tag
  <2>4. CASE End(r, "done")
    BY <2>1, <2>4, Ends DEF Within
  <2> QED BY <2>2, <2>3, <2>4
<1>2. CASE ExistsUnread(r)
  <2>1. job[r].op \in NoticesOps \cup {"none"}
    BY <1>2, StageTells, TagTells DEF ExistsUnread, NoticesOps
  <2>2. \/ Goto(r, "exists", [op |-> "scan stock", left |-> Tail(job[r].left)])
        \/ Goto(r, "notice", job[r])
        \/ End(r, "done")
    BY <1>2 DEF ExistsUnread, GoOn
  <2>3. CASE Goto(r, "exists", [op |-> "scan stock", left |-> Tail(job[r].left)])
    <3>1. PICK j : j = [op |-> "scan stock", left |-> Tail(job[r].left)]
      OBVIOUS
    <3>2. Goto(r, "exists", j) /\ "op" \in DOMAIN j /\ j.op = "scan stock"
      BY <2>3, <3>1
    <3>3. Moved(r) /\ stage'[r] = "exists" /\ job'[r].op = "scan stock"
      BY <3>2, GoesOn
    <3>4. NoticesTag(job'[r].op, stage'[r])
      BY <1>2, <3>3 DEF NoticesTag
    <3> QED BY <2>1, <3>3, <3>4, TagTells DEF Within, Tag
  <2>4. CASE Goto(r, "notice", job[r])
    <3>1. PICK j : j = job[r]
      OBVIOUS
    <3>2. Goto(r, "notice", j) /\ "op" \in DOMAIN j /\ j.op = job[r].op
      BY <2>4, <3>1 DEF Tagged
    <3>3. Moved(r) /\ stage'[r] = "notice" /\ job'[r].op = job[r].op
      BY <3>2, GoesOn
    <3>4. NoticesTag(job'[r].op, stage'[r])
      BY <1>2, <3>3, StageTells DEF ExistsUnread, NoticesTag
    <3> QED BY <2>1, <3>3, <3>4, TagTells DEF Within, Tag
  <2>5. CASE End(r, "done")
    BY <2>1, <2>5, Ends DEF Within
  <2> QED BY <2>2, <2>3, <2>4, <2>5
<1>3. CASE CreateNotice(r)
  <2>1. job[r].op \in NoticesOps \cup {"none"}
    BY <1>3, StageTells, TagTells DEF CreateNotice, NoticesOps
  <2>2. \/ Goto(r, "exists", [op |-> "scan stock", left |-> Tail(job[r].left)])
        \/ End(r, "done")
    BY <1>3 DEF CreateNotice, GoOn
  <2>3. CASE Goto(r, "exists", [op |-> "scan stock", left |-> Tail(job[r].left)])
    <3>1. PICK j : j = [op |-> "scan stock", left |-> Tail(job[r].left)]
      OBVIOUS
    <3>2. Goto(r, "exists", j) /\ "op" \in DOMAIN j /\ j.op = "scan stock"
      BY <2>3, <3>1
    <3>3. Moved(r) /\ stage'[r] = "exists" /\ job'[r].op = "scan stock"
      BY <3>2, GoesOn
    <3>4. NoticesTag(job'[r].op, stage'[r])
      BY <1>3, <3>3 DEF NoticesTag
    <3> QED BY <2>1, <3>3, <3>4, TagTells DEF Within, Tag
  <2>4. CASE End(r, "done")
    BY <2>1, <2>4, Ends DEF Within
  <2> QED BY <2>2, <2>3, <2>4
<1> USE DEF Tagged, Goto, End, Idle, Moved, Within, Tag, IdleTag, EndTag, Starts, NoticesOps,
    NoticesTag
<1>4. CASE MoveStock(r)
  BY <1>4, StageTells, TagTells DEF MoveStock
<1>5. CASE MarkRead(r)
  BY <1>5, StageTells, TagTells DEF MarkRead
<1>6. CASE ScheduledRun(r)
  BY <1>6, StageTells, TagTells DEF ScheduledRun
<1>7. CASE OwnerLogin(r)
  BY <1>7, StageTells, TagTells DEF OwnerLogin
<1> QED
  BY <1>1, <1>2, <1>3, <1>4, <1>5, <1>6, <1>7 DEF Noticing

LEMMA NoticesMoves ==
  ASSUME Tagged, NoticesStep
  PROVE  \E r \in Req : Within(r, NoticesOps)
<1>1. ASSUME NEW r \in Req, Noticing(r) PROVE Within(r, NoticesOps)
  BY <1>1, NoticingMoves
<1> QED
  BY <1>1 DEF NoticesStep, Noticing

-----------------------------------------------------------------------------
(* The requests of these operations are as they were, but for a crash.     *)
Aside(ops) ==
  \A r \in Req :
    /\ job'[r].op \in ops => job'[r] = job[r] /\ stage'[r] = stage[r]
    /\ job[r].op \in ops => Crash \/ (job'[r] = job[r] /\ stage'[r] = stage[r])
    /\ stage'[r] = "new" => stage[r] = "new"

LEMMA StaysTagged ==
  ASSUME Tagged, NEW r \in Req, NEW ops, Within(r, ops) PROVE Tagged'
<1>1. DOMAIN stage' = Req /\ DOMAIN job' = Req
  BY DEF Within, Moved
<1>2. ASSUME NEW q \in Req PROVE "op" \in DOMAIN job'[q] /\ Tag(job'[q].op, stage'[q])
  <2>1. CASE q = r
    BY <2>1 DEF Within, Moved
  <2>2. CASE q # r
    BY <2>2 DEF Within, Moved, Tagged
  <2> QED BY <2>1, <2>2
<1> QED BY <1>1, <1>2 DEF Tagged

LEMMA StandsAside ==
  ASSUME NEW r \in Req, NEW ops, NEW others, Within(r, ops),
         (ops \cup {"none"}) \cap others = {}
  PROVE  Aside(others)
  BY DEF Within, Moved, Aside

LEMMA CrashMoves ==
  ASSUME Tagged, Crash
  PROVE  \E r \in Req : Within(r, {job[r].op}) /\ job'[r].op = "none"
<1>1. PICK r \in Req : Dies(r)
  BY DEF Crash
<1>2. End(r, "crashed")
  BY <1>1 DEF Dies
<1>3. Within(r, {job[r].op}) /\ job'[r].op = "none"
  BY <1>2, Ends DEF Within
<1> QED BY <1>3

(* Whoever moves is at a statement of its own operation afterwards.        *)
LEMMA NextIsTagged == ASSUME Tagged, [Next]_all PROVE Tagged'
<1>1. CASE AccountsStep
  BY <1>1, AccountsMoves, StaysTagged
<1>2. CASE TenancyStep
  BY <1>2, TenancyMoves, StaysTagged DEF Tagged, requests
<1>3. CASE MfaStep
  BY <1>3, MfaMoves, StaysTagged DEF Tagged, requests
<1>4. CASE TenantRowsStep
  BY <1>4, TenantRowsMoves, StaysTagged
<1>5. CASE AttendanceStep
  BY <1>5, AttendanceMoves, StaysTagged DEF Tagged, requests
<1>6. CASE UploadsStep
  BY <1>6, UploadsMoves, StaysTagged
<1>7. CASE CatalogueStep
  BY <1>7, CatalogueMoves, StaysTagged
<1>8. CASE NoticesStep
  BY <1>8, NoticesMoves, StaysTagged
<1>9. CASE Crash
  BY <1>9, CrashMoves, StaysTagged
<1>10. CASE UNCHANGED all
  BY <1>10 DEF all, requests, Tagged
<1> QED
  BY <1>1, <1>2, <1>3, <1>4, <1>5, <1>6, <1>7, <1>8, <1>9, <1>10 DEF Next, OfficeStep, Rest

(* At every moment each request is at a statement of what it does: no step *)
(* of a component meets a request of another one halfway.                  *)
THEOREM EveryRequestIsTagged == Spec => []Tagged
<1>1. Init => Tagged
  BY DEF Init, RequestsInit, Idle, Tagged, Tag, IdleTag
<1>2. Tagged /\ [Next]_all => Tagged'
  BY NextIsTagged
<1> QED BY <1>1, <1>2, PTL DEF Spec

(* Who moved, if anybody did and it was not a crash.                       *)
Mover(r, ops) ==
  \/ ops = AccountsOps /\ AccountsStep /\ Within(r, ops)
  \/ ops = TenancyOps /\ TenancyStep /\ Within(r, ops)
  \/ ops = MfaOps /\ MfaStep /\ Within(r, ops)
  \/ ops = TenantRowsOps /\ TenantRowsStep /\ Within(r, ops)
  \/ ops = AttendanceOps /\ AttendanceStep /\ Within(r, ops)
  \/ ops = UploadsOps /\ UploadsStep /\ Within(r, ops)
  \/ ops = CatalogueOps /\ CatalogueStep /\ Within(r, ops)
  \/ ops = NoticesOps /\ NoticesStep /\ Within(r, ops)

LEMMA SomebodyMoved ==
  ASSUME Tagged, [Next]_all
  PROVE  \/ UNCHANGED requests
         \/ Crash
         \/ \E r \in Req : \E ops : Mover(r, ops)
<1>1. CASE AccountsStep
  BY <1>1, AccountsMoves DEF Mover
<1>2. CASE TenancyStep
  BY <1>2, TenancyMoves DEF Mover
<1>3. CASE MfaStep
  BY <1>3, MfaMoves DEF Mover
<1>4. CASE TenantRowsStep
  BY <1>4, TenantRowsMoves DEF Mover
<1>5. CASE AttendanceStep
  BY <1>5, AttendanceMoves DEF Mover
<1>6. CASE UploadsStep
  BY <1>6, UploadsMoves DEF Mover
<1>7. CASE CatalogueStep
  BY <1>7, CatalogueMoves DEF Mover
<1>8. CASE NoticesStep
  BY <1>8, NoticesMoves DEF Mover
<1>9. CASE Crash
  BY <1>9
<1>10. CASE UNCHANGED all
  BY <1>10 DEF all, requests
<1> QED
  BY <1>1, <1>2, <1>3, <1>4, <1>5, <1>6, <1>7, <1>8, <1>9, <1>10 DEF Next, OfficeStep, Rest

(* Nor did the requests of any other operations move.                      *)
LEMMA AsideUnless ==
  ASSUME Tagged, [Next]_all, NEW ops, "none" \notin ops,
         \A r \in Req : \A o : Mover(r, o) => (o \cup {"none"}) \cap ops = {}
  PROVE  Aside(ops)
<1>1. ASSUME UNCHANGED requests PROVE Aside(ops)
  BY <1>1 DEF requests, Aside
<1>2. ASSUME Crash PROVE Aside(ops)
  <2>1. PICK r \in Req : Within(r, {job[r].op}) /\ job'[r].op = "none"
    BY <1>2, CrashMoves
  <2> QED BY <1>2, <2>1 DEF Within, Moved, Aside
<1>3. ASSUME NEW r \in Req, NEW o, Mover(r, o) PROVE Aside(ops)
  <2>1. Within(r, o) /\ (o \cup {"none"}) \cap ops = {}
    BY <1>3 DEF Mover
  <2> QED BY <2>1, StandsAside
<1> QED BY <1>1, <1>2, <1>3, SomebodyMoved

(* What is not a step of Accounts changes nothing of it.                 *)
LEMMA AccountsAside ==
  ASSUME Tagged, [Next]_all, ~AccountsStep
  PROVE  UNCHANGED accountVars /\ Aside(AccountsOps)
<1>1. ASSUME NEW r \in Req, NEW o, Mover(r, o) PROVE (o \cup {"none"}) \cap AccountsOps = {}
  BY <1>1 DEF Mover, AccountsOps, TenancyOps, MfaOps, TenantRowsOps, AttendanceOps, UploadsOps,
    CatalogueOps, NoticesOps
<1>2. "none" \notin AccountsOps
  BY DEF AccountsOps
<1>3. UNCHANGED accountVars
  BY DEF Next, all, Crash, OfficeStep, Rest, officeVars, mfaVars, mfaMemory
<1> QED BY <1>1, <1>2, <1>3, AsideUnless

(* What is not a step of Tenancy changes nothing of it.                  *)
LEMMA TenancyAside ==
  ASSUME Tagged, [Next]_all, ~TenancyStep
  PROVE  UNCHANGED tenancyVars /\ Aside(TenancyOps)
<1>1. ASSUME NEW r \in Req, NEW o, Mover(r, o) PROVE (o \cup {"none"}) \cap TenancyOps = {}
  BY <1>1 DEF Mover, AccountsOps, TenancyOps, MfaOps, TenantRowsOps, AttendanceOps, UploadsOps,
    CatalogueOps, NoticesOps
<1>2. "none" \notin TenancyOps
  BY DEF TenancyOps
<1>3. UNCHANGED tenancyVars
  BY DEF Next, all, Crash, OfficeStep, Rest, officeVars, mfaVars, mfaMemory
<1> QED BY <1>1, <1>2, <1>3, AsideUnless

(* What is not a step of Mfa changes nothing of it.                      *)
LEMMA MfaAside ==
  ASSUME Tagged, [Next]_all, ~MfaStep
  PROVE  /\ UNCHANGED <<step, admin, accepted, replayed, wrong>>
         /\ together' \in {together, TRUE} /\ Aside(MfaOps)
<1>1. ASSUME NEW r \in Req, NEW o, Mover(r, o) PROVE (o \cup {"none"}) \cap MfaOps = {}
  BY <1>1 DEF Mover, AccountsOps, TenancyOps, MfaOps, TenantRowsOps, AttendanceOps, UploadsOps,
    CatalogueOps, NoticesOps
<1>2. "none" \notin MfaOps
  BY DEF MfaOps
<1>3. UNCHANGED <<step, admin, accepted, replayed, wrong>> /\ together' \in {together, TRUE}
  BY DEF Next, all, Crash, OfficeStep, Rest, officeVars, mfaVars, mfaMemory
<1> QED BY <1>1, <1>2, <1>3, AsideUnless

(* What is not a step of TenantRows changes nothing of it.               *)
LEMMA TenantRowsAside ==
  ASSUME Tagged, [Next]_all, ~TenantRowsStep
  PROVE  UNCHANGED tenantRowVars /\ Aside(TenantRowsOps)
<1>1. ASSUME NEW r \in Req, NEW o, Mover(r, o) PROVE (o \cup {"none"}) \cap TenantRowsOps = {}
  BY <1>1 DEF Mover, AccountsOps, TenancyOps, MfaOps, TenantRowsOps, AttendanceOps, UploadsOps,
    CatalogueOps, NoticesOps
<1>2. "none" \notin TenantRowsOps
  BY DEF TenantRowsOps
<1>3. UNCHANGED tenantRowVars
  BY DEF Next, all, Crash, OfficeStep, Rest, officeVars, mfaVars, mfaMemory, AttendanceStep
<1> QED BY <1>1, <1>2, <1>3, AsideUnless

(* What is not a step of Attendance changes nothing of it.               *)
LEMMA AttendanceAside ==
  ASSUME Tagged, [Next]_all, ~AttendanceStep
  PROVE  UNCHANGED attendanceVars /\ Aside(AttendanceOps)
<1>1. ASSUME NEW r \in Req, NEW o, Mover(r, o) PROVE (o \cup {"none"}) \cap AttendanceOps = {}
  BY <1>1 DEF Mover, AccountsOps, TenancyOps, MfaOps, TenantRowsOps, AttendanceOps, UploadsOps,
    CatalogueOps, NoticesOps
<1>2. "none" \notin AttendanceOps
  BY DEF AttendanceOps
<1>3. UNCHANGED attendanceVars
  BY DEF Next, all, Crash, OfficeStep, Rest, officeVars, mfaVars, mfaMemory
<1> QED BY <1>1, <1>2, <1>3, AsideUnless

(* What is not a step of Catalogue changes nothing of it.                *)
LEMMA CatalogueAside ==
  ASSUME Tagged, [Next]_all, ~CatalogueStep
  PROVE  UNCHANGED catalogueVars /\ Aside(CatalogueOps)
<1>1. ASSUME NEW r \in Req, NEW o, Mover(r, o) PROVE (o \cup {"none"}) \cap CatalogueOps = {}
  BY <1>1 DEF Mover, AccountsOps, TenancyOps, MfaOps, TenantRowsOps, AttendanceOps, UploadsOps,
    CatalogueOps, NoticesOps
<1>2. "none" \notin CatalogueOps
  BY DEF CatalogueOps
<1>3. UNCHANGED catalogueVars
  BY DEF Next, all, Crash, OfficeStep, Rest, officeVars, mfaVars, mfaMemory
<1> QED BY <1>1, <1>2, <1>3, AsideUnless

(* What is not a step of Notices changes nothing of it.                  *)
LEMMA NoticesAside ==
  ASSUME Tagged, [Next]_all, ~NoticesStep
  PROVE  UNCHANGED noticeVars /\ Aside(NoticesOps)
<1>1. ASSUME NEW r \in Req, NEW o, Mover(r, o) PROVE (o \cup {"none"}) \cap NoticesOps = {}
  BY <1>1 DEF Mover, AccountsOps, TenancyOps, MfaOps, TenantRowsOps, AttendanceOps, UploadsOps,
    CatalogueOps, NoticesOps
<1>2. "none" \notin NoticesOps
  BY DEF NoticesOps
<1>3. UNCHANGED noticeVars
  BY DEF Next, all, Crash, OfficeStep, Rest, officeVars, mfaVars, mfaMemory
<1> QED BY <1>1, <1>2, <1>3, AsideUnless


(* Where the requests are after r has gone on.                             *)
LEMMA Then ==
  ASSUME Tagged, NEW r \in Req, NEW s, NEW j, Goto(r, s, j)
  PROVE  \A q \in Req : /\ stage'[q] = IF q = r THEN s ELSE stage[q]
                        /\ job'[q] = IF q = r THEN j ELSE job[q]
  BY DEF Tagged, Goto

LEMMA ThenEnds ==
  ASSUME Tagged, NEW r \in Req, NEW s, End(r, s)
  PROVE  \A q \in Req : /\ stage'[q] = IF q = r THEN s ELSE stage[q]
                        /\ job'[q] = IF q = r THEN Idle ELSE job[q]
  BY Then DEF End

LEMMA IdleIsNone == Idle.op = "none"
  BY DEF Idle

LEMMA AsideOfLess ==
  ASSUME NEW ops, NEW less \in SUBSET ops, Aside(ops) PROVE Aside(less)
  BY DEF Aside

-----------------------------------------------------------------------------
(***************************************************************************)
(* The second factor.  Unless two requests were at the row at once, or one *)
(* died there: the row tells which codes are spent and how many wrong ones *)
(* were tried, and a secret that waits for its first code was in no code   *)
(* before.                                                                 *)
(***************************************************************************)
AdminRow == [secret : Secret \cup {None}, readable : BOOLEAN, enabled : BOOLEAN,
             lastStep : Nat, failures : Nat, lockedUntil : Nat]
MfaTypeOK == /\ step \in Nat /\ wrong \in Nat /\ admin \in AdminRow /\ accepted \subseteq Code
             /\ together \in BOOLEAN /\ replayed \in BOOLEAN

(* The secret of a challenge is used by nobody before it is written.       *)
Used(secret) == secret \in Req => stage[secret] # "new" /\ job[secret].op # "challenge"
SecretsAreNew == Used(admin.secret) /\ \A c \in accepted : Used(c.secret)

(* What is known at the row: the code to spend, or when it was compared.   *)
KnownAtTheRow ==
  \A r \in Req : /\ stage[r] = "accept" => job[r].code \in Code
                 /\ stage[r] \in {"fail", "lock"} => job[r].at \in Nat

AloneAtTheRow == \A q, r \in Row : q = r
CodesAreSpent ==
  /\ \A c \in accepted : c.secret = admin.secret => c.step =< admin.lastStep
  /\ \A r \in Req : stage[r] = "accept" =>
       job[r].code.secret = admin.secret /\ job[r].code.step > admin.lastStep
  /\ ~replayed
WrongCodesAreCounted ==
  /\ Locked => admin.failures = 0 /\ wrong =< MaxFailures
  /\ \A r \in Req :
       /\ stage[r] = "fail" =>
            ~Locked /\ wrong = admin.failures + 1 /\ admin.failures < MaxFailures
       /\ stage[r] = "lock" => ~Locked /\ wrong = admin.failures /\ wrong =< MaxFailures
  /\ (\A r \in Req : stage[r] \notin {"fail", "lock"}) /\ ~Locked =>
       wrong = admin.failures /\ wrong < MaxFailures
MfaInv ==
  /\ MfaTypeOK /\ KnownAtTheRow
  /\ ~together => SecretsAreNew /\ AloneAtTheRow /\ CodesAreSpent /\ WrongCodesAreCounted

(* Who is at the row is named by what it runs next.                        *)
LEMMA RowTells ==
  ASSUME Tagged, NEW r \in Req
  PROVE  /\ stage[r] = "enrol" => job[r].op = "challenge"
         /\ job[r].op = "challenge" => stage[r] = "enrol"
         /\ stage[r] \in {"accept", "fail", "lock"} => job[r].op = "verify"
         /\ job[r].op = "verify" => stage[r] \in {"accept", "fail", "lock"}
<1>1. Tag(job[r].op, stage[r])
  BY DEF Tagged
<1> QED
  BY <1>1 DEF Tag, IdleTag, AccountsTag, TenancyTag, MfaTag, TenantRowsTag, AttendanceTag,
    UploadsTag, CatalogueTag, NoticesTag

(* The same requests are at the row, with nothing done: nothing is lost.   *)
LEMMA MfaRests ==
  ASSUME MfaInv, Tagged, Tagged', Aside(MfaOps), together' = TRUE \/ ~Crash,
         UNCHANGED <<step, admin, accepted, replayed, wrong>>, together' \in {together, TRUE}
  PROVE  MfaInv'
<1>1. ASSUME NEW q \in Req, stage'[q] \in {"enrol", "accept", "fail", "lock"}
      PROVE  stage'[q] = stage[q] /\ job'[q] = job[q]
  <2>1. job'[q].op \in MfaOps
    <3>1. Tag(job'[q].op, stage'[q])
      BY DEF Tagged
    <3> QED
      BY <1>1, <3>1 DEF MfaOps, Tag, IdleTag, AccountsTag, TenancyTag, MfaTag, TenantRowsTag,
        AttendanceTag, UploadsTag, CatalogueTag, NoticesTag
  <2> QED BY <2>1 DEF Aside
<1>2. MfaTypeOK' /\ KnownAtTheRow'
  BY <1>1 DEF MfaInv, MfaTypeOK, KnownAtTheRow
<1>3. ASSUME ~together'
      PROVE  SecretsAreNew' /\ AloneAtTheRow' /\ CodesAreSpent' /\ WrongCodesAreCounted'
  <2>1. ~together /\ ~Crash
    BY <1>3, Zenon DEF MfaInv, MfaTypeOK
  <2>2. ASSUME NEW q \in Req, stage[q] \in {"enrol", "accept", "fail", "lock"}
        PROVE  stage'[q] = stage[q] /\ job'[q] = job[q]
    <3>1. job[q].op \in MfaOps
      BY <2>2, RowTells DEF MfaOps
    <3> QED BY <2>1, <3>1 DEF Aside
  <2>3. \A q \in Req : /\ stage'[q] = "new" => stage[q] = "new"
                       /\ job'[q].op = "challenge" => job[q].op = "challenge"
    BY DEF Aside, MfaOps
  <2>4. SecretsAreNew'
    BY <2>1, <2>3 DEF MfaInv, SecretsAreNew, Used
  <2>5. AloneAtTheRow'
    BY <1>1, <2>1 DEF MfaInv, AloneAtTheRow, Row
  <2>6. CodesAreSpent'
    BY <1>1, <2>1 DEF MfaInv, CodesAreSpent
  <2>7. WrongCodesAreCounted'
    BY <1>1, <2>1, <2>2 DEF MfaInv, WrongCodesAreCounted, Locked
  <2> QED BY <2>4, <2>5, <2>6, <2>7
<1> QED BY <1>2, <1>3 DEF MfaInv

LEMMA TimePasses == ASSUME MfaInv, NextStep PROVE MfaInv'
<1>1. step' = step + 1 /\ wrong' \in Nat /\ (wrong' = wrong \/ wrong' = 0) /\ step' \in Nat
  BY DEF NextStep, MfaInv, MfaTypeOK
<1>2. UNCHANGED <<stage, job, admin, accepted, replayed, together>>
  BY DEF NextStep, requests
<1>3. admin.lockedUntil \in Nat /\ step \in Nat /\ admin.failures \in Nat
  BY DEF MfaInv, MfaTypeOK, AdminRow
<1>4. ~together => WrongCodesAreCounted'
  <2>1. ASSUME ~together, Locked PROVE WrongCodesAreCounted'
    <3>1. /\ admin.failures = 0 /\ wrong =< MaxFailures
          /\ \A r \in Req : stage[r] \notin {"fail", "lock"}
      BY <2>1 DEF MfaInv, WrongCodesAreCounted
    <3>2. Locked' => wrong' = wrong
      BY <1>1, <1>2, <1>3, <2>1 DEF NextStep, Locked
    <3>3. ~Locked' => wrong' = 0
      BY <1>1, <1>2, <1>3, <2>1 DEF NextStep, Locked
    <3> QED BY <1>2, <3>1, <3>2, <3>3, MfaAssumption DEF WrongCodesAreCounted
  <2>2. ASSUME ~together, ~Locked PROVE WrongCodesAreCounted'
    <3>1. ~Locked' /\ wrong' = wrong
      BY <1>1, <1>2, <1>3, <2>2 DEF NextStep, Locked
    <3> QED BY <1>2, <2>2, <3>1 DEF MfaInv, WrongCodesAreCounted
  <2> QED BY <2>1, <2>2
<1>5. ~together => SecretsAreNew' /\ AloneAtTheRow' /\ CodesAreSpent'
  BY <1>2 DEF MfaInv, SecretsAreNew, Used, AloneAtTheRow, Row, CodesAreSpent
<1>6. KnownAtTheRow'
  BY <1>2 DEF MfaInv, KnownAtTheRow
<1> QED BY <1>1, <1>2, <1>4, <1>5, <1>6 DEF MfaInv, MfaTypeOK

LEMMA KeyRotates == ASSUME MfaInv, RotateKey PROVE MfaInv'
<1>1. /\ admin' \in AdminRow /\ admin'.secret = admin.secret /\ admin'.lastStep = admin.lastStep
      /\ admin'.failures = admin.failures /\ admin'.lockedUntil = admin.lockedUntil
  BY DEF RotateKey, MfaInv, MfaTypeOK, AdminRow
<1>2. UNCHANGED <<stage, job, step, accepted, replayed, wrong, together>>
  BY DEF RotateKey, requests, mfaMemory
<1>3. ~together => SecretsAreNew' /\ AloneAtTheRow' /\ CodesAreSpent'
  BY <1>1, <1>2 DEF MfaInv, SecretsAreNew, Used, AloneAtTheRow, Row, CodesAreSpent
<1>4. ~together => WrongCodesAreCounted'
  BY <1>1, <1>2 DEF MfaInv, WrongCodesAreCounted, Locked
<1>5. KnownAtTheRow'
  BY <1>2 DEF MfaInv, KnownAtTheRow
<1> QED BY <1>1, <1>2, <1>3, <1>4, <1>5 DEF MfaInv, MfaTypeOK

LEMMA ChallengeHolds ==
  ASSUME Tagged, MfaInv, NEW r \in Req, Challenge(r) PROVE MfaInv'
<1>1. UNCHANGED <<step, admin, accepted, replayed, wrong>>
  BY DEF Challenge
<1>2. together' \in BOOLEAN /\ (~together' => ~together /\ Row \ {r} = {})
  BY DEF Challenge, Joins, MfaInv, MfaTypeOK
<1>3. \A q \in Req : q # r => stage'[q] = stage[q] /\ job'[q] = job[q]
  BY Then, ThenEnds DEF Challenge
<1>4. stage[r] = "new"
  BY DEF Challenge, Starts
<1>5. stage'[r] \in {"done", "enrol"}
  BY Then, ThenEnds DEF Challenge
<1>6. ~together => /\ admin.secret # r
                   /\ \A c \in accepted : c.secret # r
  BY <1>4 DEF MfaInv, SecretsAreNew, Used
<1>7. ~together' => SecretsAreNew'
  BY <1>1, <1>2, <1>3, <1>6 DEF MfaInv, SecretsAreNew, Used
<1>8. ~together' => AloneAtTheRow'
  BY <1>2, <1>3 DEF AloneAtTheRow, Row
<1>9. ~together' => CodesAreSpent'
  BY <1>1, <1>2, <1>3, <1>5 DEF MfaInv, CodesAreSpent
<1>10. ~together' => WrongCodesAreCounted'
  BY <1>1, <1>2, <1>3, <1>4, <1>5 DEF MfaInv, WrongCodesAreCounted, Locked
<1>11. KnownAtTheRow'
  BY <1>3, <1>5 DEF MfaInv, KnownAtTheRow
<1> QED BY <1>1, <1>2, <1>7, <1>8, <1>9, <1>10, <1>11 DEF MfaInv, MfaTypeOK

LEMMA EnrolHolds ==
  ASSUME Tagged, MfaInv, NEW r \in Req, Enrol(r) PROVE MfaInv'
<1>1. /\ admin' \in AdminRow /\ admin'.secret = r /\ admin'.lastStep = 0
      /\ admin'.failures = admin.failures /\ admin'.lockedUntil = admin.lockedUntil
  BY DEF Enrol, MfaInv, MfaTypeOK, AdminRow, Secret
<1>2. UNCHANGED <<step, accepted, replayed, wrong, together>>
  BY DEF Enrol, mfaMemory
<1>3. \A q \in Req : /\ stage'[q] = IF q = r THEN "done" ELSE stage[q]
                     /\ job'[q] = IF q = r THEN Idle ELSE job[q]
  BY ThenEnds DEF Enrol
<1>4. stage[r] = "enrol" /\ job[r].op = "challenge"
  BY RowTells DEF Enrol
<1>5. ~together => \A q \in Req \ {r} : stage[q] \notin {"enrol", "accept", "fail", "lock"}
  BY <1>4 DEF MfaInv, AloneAtTheRow, Row
<1>6. ~together => SecretsAreNew'
  BY <1>1, <1>2, <1>3, <1>4, IdleIsNone DEF MfaInv, SecretsAreNew, Used
<1>7. ~together => AloneAtTheRow'
  BY <1>3, <1>5 DEF AloneAtTheRow, Row
<1>8. ~together => CodesAreSpent'
  BY <1>1, <1>2, <1>3, <1>4, <1>5 DEF MfaInv, CodesAreSpent, SecretsAreNew, Used
<1>9. ~together => WrongCodesAreCounted'
  BY <1>1, <1>2, <1>3, <1>4, <1>5 DEF MfaInv, WrongCodesAreCounted, Locked
<1>10. KnownAtTheRow'
  BY <1>3 DEF MfaInv, KnownAtTheRow
<1> QED BY <1>1, <1>2, <1>6, <1>7, <1>8, <1>9, <1>10 DEF MfaInv, MfaTypeOK

LEMMA VerifyHolds ==
  ASSUME Tagged, MfaInv, NEW r \in Req, Verify(r) PROVE MfaInv'
<1>1. UNCHANGED <<step, admin, accepted, replayed>>
  BY DEF Verify
<1>2. together' \in BOOLEAN /\ (~together' => ~together /\ Row \ {r} = {})
  BY DEF Verify, Joins, MfaInv, MfaTypeOK
<1>3. stage[r] = "new"
  BY DEF Verify, Starts
<1>4. PICK code \in Code :
        IF Locked THEN End(r, "refused") /\ UNCHANGED wrong
        ELSE IF Acceptable(admin.secret, code, step, admin.lastStep)
             THEN /\ Goto(r, "accept", [op |-> "verify", code |-> code])
                  /\ UNCHANGED wrong
             ELSE /\ Goto(r, "fail", [op |-> "verify", at |-> step])
                  /\ wrong' = wrong + 1
  BY DEF Verify
<1>5. /\ wrong' \in Nat
      /\ \A q \in Req : q # r => stage'[q] = stage[q] /\ job'[q] = job[q]
      /\ \/ Locked /\ stage'[r] = "refused" /\ wrong' = wrong
         \/ /\ ~Locked /\ stage'[r] = "accept" /\ wrong' = wrong
            /\ job'[r] = [op |-> "verify", code |-> code]
            /\ code.secret = admin.secret /\ code.step > admin.lastStep
         \/ /\ ~Locked /\ stage'[r] = "fail" /\ wrong' = wrong + 1
            /\ job'[r] = [op |-> "verify", at |-> step]
  <2>1. wrong \in Nat
    BY DEF MfaInv, MfaTypeOK
  <2>2. CASE Locked
    BY <1>4, <2>1, <2>2, ThenEnds
  <2>3. CASE ~Locked /\ Acceptable(admin.secret, code, step, admin.lastStep)
    <3>1. PICK j : j = [op |-> "verify", code |-> code]
      OBVIOUS
    <3>2. Goto(r, "accept", j) /\ wrong' = wrong
      BY <1>4, <2>3, <3>1
    <3>3. code.secret = admin.secret /\ code.step > admin.lastStep
      BY <2>3 DEF Acceptable
    <3> QED BY <2>1, <2>3, <3>1, <3>2, <3>3, Then
  <2>4. CASE ~Locked /\ ~Acceptable(admin.secret, code, step, admin.lastStep)
    <3>1. PICK j : j = [op |-> "verify", at |-> step]
      OBVIOUS
    <3>2. Goto(r, "fail", j) /\ wrong' = wrong + 1
      BY <1>4, <2>4, <3>1
    <3> QED BY <2>1, <2>4, <3>1, <3>2, Then
  <2> QED BY <2>2, <2>3, <2>4
<1>6. ~together' => \A q \in Req \ {r} : stage'[q] \notin {"enrol", "accept", "fail", "lock"}
  BY <1>2, <1>5 DEF Row
<1>7. ~together' => SecretsAreNew'
  <2>1. ~together => admin.secret # r /\ \A c \in accepted : c.secret # r
    BY <1>3 DEF MfaInv, SecretsAreNew, Used
  <2> QED BY <1>1, <1>2, <1>5, <2>1 DEF MfaInv, SecretsAreNew, Used
<1>8. ~together' => AloneAtTheRow'
  BY <1>6 DEF AloneAtTheRow, Row
<1>9. ~together' => CodesAreSpent'
  BY <1>1, <1>2, <1>5, <1>6 DEF MfaInv, CodesAreSpent
<1>10. ~together' => WrongCodesAreCounted'
  <2>1. \A q \in Req : ~together' => stage[q] \notin {"fail", "lock"}
    BY <1>2, <1>3 DEF Row
  <2>2. step \in Nat
    BY DEF MfaInv, MfaTypeOK
  <2> QED BY <1>1, <1>2, <1>5, <1>6, <2>1, <2>2 DEF MfaInv, WrongCodesAreCounted, Locked
<1>11. KnownAtTheRow'
  <2>1. step \in Nat
    BY DEF MfaInv, MfaTypeOK
  <2> QED BY <1>5, <2>1 DEF MfaInv, KnownAtTheRow
<1> QED BY <1>1, <1>2, <1>5, <1>7, <1>8, <1>9, <1>10, <1>11 DEF MfaInv, MfaTypeOK

LEMMA AcceptHolds ==
  ASSUME Tagged, MfaInv, NEW r \in Req, Accept(r) PROVE MfaInv'
<1> DEFINE spent == job[r].code
<1>1. stage[r] = "accept"
  BY DEF Accept
<1>2. UNCHANGED <<step, together>> /\ wrong' = 0 /\ accepted' = accepted \cup {spent}
  BY DEF Accept
<1>3. \A q \in Req : /\ stage'[q] = IF q = r THEN "done" ELSE stage[q]
                     /\ job'[q] = IF q = r THEN Idle ELSE job[q]
  BY ThenEnds DEF Accept
<1>4. ~together => \A q \in Req \ {r} : stage[q] \notin {"enrol", "accept", "fail", "lock"}
  BY <1>1 DEF MfaInv, AloneAtTheRow, Row
<1>5. /\ spent \in Code
      /\ ~together => spent.secret = admin.secret /\ spent.step > admin.lastStep
  <2>1. spent \in Code
    BY <1>1 DEF MfaInv, KnownAtTheRow
  <2>2. ~together => spent.secret = admin.secret /\ spent.step > admin.lastStep
    BY <1>1 DEF MfaInv, CodesAreSpent
  <2> QED BY <2>1, <2>2
<1>6. ~together => spent \notin accepted /\ replayed' = replayed
  <2>1. ASSUME ~together, spent \in accepted PROVE FALSE
    <3>1. spent.step =< admin.lastStep /\ admin.lastStep \in Nat /\ spent.step \in 0 .. MaxStep + 1
      BY <1>5, <2>1 DEF MfaInv, CodesAreSpent, MfaTypeOK, AdminRow, Code
    <3> QED BY <1>5, <2>1, <3>1, MfaAssumption
  <2> QED BY <2>1 DEF Accept, MfaInv, MfaTypeOK
<1>7. /\ admin'.secret = admin.secret /\ admin'.lastStep = spent.step
      /\ admin'.failures = 0 /\ admin'.lockedUntil = 0
  BY DEF Accept, MfaInv, MfaTypeOK, AdminRow
<1>8. spent.step \in Nat /\ spent.secret \in Secret
  BY <1>5, MfaAssumption DEF Code
<1>9. MfaTypeOK' /\ KnownAtTheRow'
  <2>1. admin' \in AdminRow
    BY <1>8 DEF Accept, MfaInv, MfaTypeOK, AdminRow
  <2>2. accepted' \subseteq Code /\ replayed' \in BOOLEAN
    BY <1>5 DEF Accept, MfaInv, MfaTypeOK
  <2>3. KnownAtTheRow'
    BY <1>3 DEF MfaInv, KnownAtTheRow
  <2> QED BY <1>2, <2>1, <2>2, <2>3 DEF MfaInv, MfaTypeOK
<1>10. ~together => SecretsAreNew'
  <2>1. \A c : Used(c) => Used(c)'
    BY <1>3, IdleIsNone DEF Used
  <2>2. ~together => Used(admin.secret)' /\ \A c \in accepted : Used(c.secret)'
    BY <2>1, <1>7 DEF MfaInv, SecretsAreNew
  <2> QED BY <1>2, <1>5, <1>7, <2>2 DEF SecretsAreNew
<1>11. ~together => AloneAtTheRow'
  BY <1>3, <1>4 DEF AloneAtTheRow, Row
<1>12. ~together => CodesAreSpent'
  <2>1. ~together => \A c \in accepted' : c.secret = admin'.secret => c.step =< admin'.lastStep
    <3>1. ASSUME ~together, NEW c \in accepted, c.secret = admin.secret
          PROVE  c.step =< spent.step
      <4>1. c.step =< admin.lastStep /\ c.step \in Nat /\ admin.lastStep \in Nat
        BY <3>1, MfaAssumption DEF MfaInv, CodesAreSpent, MfaTypeOK, AdminRow, Code
      <4> QED BY <1>5, <1>8, <3>1, <4>1
    <3> QED BY <1>2, <1>7, <1>8, <3>1
  <2>2. ~together => \A q \in Req : stage'[q] # "accept"
    BY <1>3, <1>4
  <2>3. ~together => ~replayed'
    BY <1>6 DEF MfaInv, CodesAreSpent
  <2> QED BY <2>1, <2>2, <2>3 DEF CodesAreSpent
<1>13. ~together => WrongCodesAreCounted'
  <2>1. ~Locked'
    BY <1>2, <1>7, MfaAssumption DEF Locked, MfaInv, MfaTypeOK
  <2>2. ~together => \A q \in Req : stage'[q] \notin {"fail", "lock"}
    BY <1>3, <1>4
  <2> QED BY <1>2, <1>7, <2>1, <2>2, MfaAssumption DEF WrongCodesAreCounted
<1> QED BY <1>2, <1>9, <1>10, <1>11, <1>12, <1>13 DEF MfaInv


LEMMA CountFailureHolds ==
  ASSUME Tagged, MfaInv, NEW r \in Req, CountFailure(r) PROVE MfaInv'
<1>1. stage[r] = "fail" /\ admin.failures \in Nat /\ MaxFailures \in Nat
  BY MfaAssumption DEF CountFailure, MfaInv, MfaTypeOK, AdminRow
<1>2. UNCHANGED <<step, accepted, replayed, wrong, together>>
  BY DEF CountFailure, mfaMemory
<1>3. /\ admin' \in AdminRow /\ admin'.secret = admin.secret
      /\ admin'.lastStep = admin.lastStep /\ admin'.failures = admin.failures + 1
      /\ admin'.lockedUntil = admin.lockedUntil
  BY <1>1 DEF CountFailure, MfaInv, MfaTypeOK, AdminRow
<1>4. /\ \A q \in Req : q # r => stage'[q] = stage[q] /\ job'[q] = job[q]
      /\ \/ /\ stage'[r] = "lock" /\ job'[r] = job[r] /\ admin.failures + 1 >= MaxFailures
         \/ stage'[r] = "refused" /\ job'[r] = Idle /\ admin.failures + 1 < MaxFailures
  <2>1. CASE Enough(admin.failures + 1)
    <3>1. PICK j : j = job[r]
      OBVIOUS
    <3>2. Goto(r, "lock", j)
      BY <2>1, <3>1 DEF CountFailure
    <3> QED BY <2>1, <3>1, <3>2, Then DEF Enough
  <2>2. CASE ~Enough(admin.failures + 1)
    <3>1. End(r, "refused")
      BY <2>2 DEF CountFailure
    <3> QED BY <1>1, <2>2, <3>1, ThenEnds DEF Enough
  <2> QED BY <2>1, <2>2
<1>5. ~together => \A q \in Req \ {r} : stage[q] \notin {"enrol", "accept", "fail", "lock"}
  BY <1>1 DEF MfaInv, AloneAtTheRow, Row
<1>6. MfaTypeOK' /\ KnownAtTheRow'
  BY <1>1, <1>2, <1>3, <1>4 DEF MfaInv, MfaTypeOK, KnownAtTheRow
<1>7. ~together => SecretsAreNew'
  BY <1>2, <1>3, <1>4, IdleIsNone DEF MfaInv, SecretsAreNew, Used
<1>8. ~together => AloneAtTheRow'
  BY <1>4, <1>5 DEF AloneAtTheRow, Row
<1>9. ~together => CodesAreSpent'
  BY <1>2, <1>3, <1>4 DEF MfaInv, CodesAreSpent
<1>10. ~together => WrongCodesAreCounted'
  <2>1. ~together => ~Locked /\ wrong = admin.failures + 1 /\ admin.failures < MaxFailures
    BY <1>1 DEF MfaInv, WrongCodesAreCounted
  <2>2. Locked' = Locked
    BY <1>2, <1>3 DEF Locked
  <2> QED BY <1>1, <1>2, <1>3, <1>4, <1>5, <2>1, <2>2 DEF WrongCodesAreCounted
<1> QED BY <1>2, <1>6, <1>7, <1>8, <1>9, <1>10 DEF MfaInv

LEMMA LockHolds ==
  ASSUME Tagged, MfaInv, NEW r \in Req, Lock(r) PROVE MfaInv'
<1>1. stage[r] = "lock" /\ job[r].at \in Nat /\ LockSteps \in Nat /\ MaxFailures \in Nat
  BY MfaAssumption DEF Lock, MfaInv, KnownAtTheRow
<1>2. UNCHANGED <<step, accepted, replayed, together>>
  BY DEF Lock
<1>3. /\ admin' \in AdminRow /\ admin'.secret = admin.secret
      /\ admin'.lastStep = admin.lastStep /\ admin'.failures = 0
      /\ admin'.lockedUntil \in Nat
  <2>1. PICK t \in Nat : t = job[r].at + LockSteps
    BY <1>1
  <2>2. admin' = [admin EXCEPT !.failures = 0, !.lockedUntil = t]
    BY <2>1 DEF Lock
  <2> QED BY <2>2 DEF MfaInv, MfaTypeOK, AdminRow
<1>4. \A q \in Req : /\ stage'[q] = IF q = r THEN "refused" ELSE stage[q]
                     /\ job'[q] = IF q = r THEN Idle ELSE job[q]
  BY ThenEnds DEF Lock
<1>5. ~together => \A q \in Req \ {r} : stage[q] \notin {"enrol", "accept", "fail", "lock"}
  BY <1>1 DEF MfaInv, AloneAtTheRow, Row
<1>6. wrong' \in {0, wrong} /\ (~Locked' => wrong' = 0)
  <2>1. step \in Nat
    BY DEF MfaInv, MfaTypeOK
  <2> QED BY <1>2, <1>3, <2>1 DEF Lock, Locked
<1>7. MfaTypeOK' /\ KnownAtTheRow'
  BY <1>2, <1>3, <1>4, <1>6 DEF MfaInv, MfaTypeOK, KnownAtTheRow
<1>8. ~together => SecretsAreNew'
  BY <1>2, <1>3, <1>4, IdleIsNone DEF MfaInv, SecretsAreNew, Used
<1>9. ~together => AloneAtTheRow'
  BY <1>4, <1>5 DEF AloneAtTheRow, Row
<1>10. ~together => CodesAreSpent'
  BY <1>2, <1>3, <1>4 DEF MfaInv, CodesAreSpent
<1>11. ~together => WrongCodesAreCounted'
  <2>1. ~together => wrong =< MaxFailures
    BY <1>1 DEF MfaInv, WrongCodesAreCounted
  <2> QED BY <1>1, <1>3, <1>4, <1>5, <1>6, <2>1, MfaAssumption DEF WrongCodesAreCounted
<1> QED BY <1>2, <1>7, <1>8, <1>9, <1>10, <1>11 DEF MfaInv

(* However a step of the platform moves, the row keeps its account.        *)
LEMMA MfaStepHolds ==
  ASSUME MfaInv, Tagged, Tagged', MfaStep PROVE MfaInv'
<1>1. CASE NextStep
  BY <1>1, TimePasses
<1>2. CASE RotateKey
  BY <1>2, KeyRotates
<1>3. CASE \E r \in Req : \/ Challenge(r) \/ Enrol(r) \/ Verify(r) \/ Accept(r)
                         \/ CountFailure(r) \/ Lock(r)
  <2>1. PICK r \in Req : \/ Challenge(r) \/ Enrol(r) \/ Verify(r) \/ Accept(r)
                         \/ CountFailure(r) \/ Lock(r)
    BY <1>3
  <2> QED BY <2>1, ChallengeHolds, EnrolHolds, VerifyHolds, AcceptHolds, CountFailureHolds,
            LockHolds
<1> QED BY <1>1, <1>2, <1>3 DEF MfaStep

LEMMA MfaHolds == ASSUME Tagged, MfaInv, [Next]_all PROVE MfaInv'
<1>1. Tagged'
  BY NextIsTagged
<1>2. CASE MfaStep
  BY <1>1, <1>2, MfaStepHolds
<1>3. CASE ~MfaStep
  <2>1. Crash => together' = TRUE
    BY DEF Crash
  <2>2. /\ UNCHANGED <<step, admin, accepted, replayed, wrong>>
        /\ together' \in {together, TRUE} /\ Aside(MfaOps)
    BY <1>3, MfaAside
  <2> QED BY <1>1, <2>1, <2>2, MfaRests
<1> QED BY <1>2, <1>3

(* As long as no two requests were at the administrator's row at once: the *)
(* row tells every code that was used and every wrong one, and a request   *)
(* halfway through verify still holds what the row says.                   *)
THEOREM TheRowKeepsAccount == Spec => []MfaInv
<1>1. Init => MfaInv
  <2>1. ASSUME Init
        PROVE  /\ admin.secret \in {None, "first"} /\ admin \in AdminRow
               /\ admin.lastStep = 0 /\ admin.failures = 0 /\ admin.lockedUntil = 0
               /\ step \in Nat /\ accepted = {} /\ replayed = FALSE /\ wrong = 0
               /\ together = FALSE /\ stage = [r \in Req |-> "new"]
    BY <2>1, MfaAssumption DEF Init, MfaInit, RequestsInit, AdminRow, Secret
  <2>2. Init => MfaTypeOK /\ KnownAtTheRow
    BY <2>1 DEF MfaTypeOK, KnownAtTheRow
  <2>3. Init => SecretsAreNew
    BY <2>1, NoneAssumption, MfaAssumption DEF SecretsAreNew, Used
  <2>4. Init => AloneAtTheRow /\ CodesAreSpent
    BY <2>1 DEF AloneAtTheRow, Row, CodesAreSpent
  <2>5. Init => WrongCodesAreCounted
    BY <2>1, MfaAssumption DEF WrongCodesAreCounted, Locked
  <2> QED BY <2>2, <2>3, <2>4, <2>5 DEF MfaInv
<1>2. Tagged /\ MfaInv /\ [Next]_all => MfaInv'
  BY MfaHolds
<1> QED BY <1>1, <1>2, EveryRequestIsTagged, PTL DEF Spec

(* "a code can't be replayed": whatever is challenged, verified, locked or *)
(* rotated, and for any number of requests, no code is accepted twice as   *)
(* long as none overlapped at the row.                                     *)
THEOREM NoCodeTwice == Spec => []CodesWorkOnce
<1>1. MfaInv => CodesWorkOnce
  BY DEF MfaInv, CodesAreSpent, CodesWorkOnce
<1> QED BY <1>1, TheRowKeepsAccount, PTL

(* Nobody tries more than MaxFailures wrong codes before the row is locked *)
(* as long as no requests overlapped at it: the next attempt finds it so.  *)
THEOREM GuessesAreCounted == Spec => []GuessingIsBounded
<1>1. MfaInv => GuessingIsBounded
  <2>1. ASSUME MfaInv, ~together PROVE wrong =< MaxFailures
    <3>1. wrong \in Nat /\ MaxFailures \in Nat /\ admin.failures \in Nat
      BY <2>1, MfaAssumption DEF MfaInv, MfaTypeOK, AdminRow
    <3>2. WrongCodesAreCounted
      BY <2>1 DEF MfaInv
    <3> QED BY <3>1, <3>2 DEF WrongCodesAreCounted
  <2> QED BY <2>1 DEF GuessingIsBounded
<1> QED BY <1>1, TheRowKeepsAccount, PTL
-----------------------------------------------------------------------------
(***************************************************************************)
(* Registrations.  Nobody signs up what is registered already, and of two  *)
(* who sign up the same at once history knows.                             *)
(***************************************************************************)
SignupsApart ==
  /\ DOMAIN registered = Req
  /\ OneRegistration
  /\ \A q \in Doing("register") : job[q].body \notin hurried =>
       /\ \A p \in Req : registered[p] # job[q].body
       /\ \A p \in Doing("register") : job[p].body = job[q].body => p = q

(* The other statements of Accounts register nobody.                       *)
LEMMA RegisterAside ==
  ASSUME Tagged, [Next]_all, ~\E r \in Req : Registering(r)
  PROVE  UNCHANGED signups /\ Aside(RegisterOps)
<1>1. CASE ~AccountsStep
  <2>1. UNCHANGED accountVars /\ Aside(AccountsOps)
    BY <1>1, AccountsAside
  <2> QED BY <2>1, AsideOfLess DEF accountVars, AccountsOps, RegisterOps
<1>2. CASE AccountsStep
  <2>1. PICK r \in Req : (SigningIn(r) \/ Outdating(r) \/ Editing(r)) /\ UNCHANGED signups
    BY <1>2 DEF AccountsStep, Registering, SigningIn, Outdating, Editing
  <2>2. CASE SigningIn(r)
    BY <2>1, <2>2, SignInMoves, StandsAside DEF SignInOps, RegisterOps
  <2>3. CASE Outdating(r)
    BY <2>1, <2>3, ResetMoves, StandsAside DEF ResetOps, RegisterOps
  <2>4. CASE Editing(r)
    BY <2>1, <2>4, EditMoves, StandsAside DEF EditOps, RegisterOps
  <2> QED BY <2>1, <2>2, <2>3, <2>4
<1> QED BY <1>1, <1>2

LEMMA ConflictChecked ==
  ASSUME Tagged, SignupsApart, NEW r \in Req, EnsureNoConflict(r) PROVE SignupsApart'
<1>1. stage[r] = "new" /\ job[r].op = "none" /\ UNCHANGED registered
  BY StageTells DEF EnsureNoConflict, Starts
<1>2. PICK body \in Signups :
        /\ IF Conflict(body) # {} THEN End(r, "refused")
           ELSE Goto(r, "sign up", [op |-> "register", body |-> body])
        /\ hurried' = IF \E q \in Doing("register") : job[q].body = body
                      THEN hurried \cup {body} ELSE hurried
  BY DEF EnsureNoConflict
<1>3. PICK j : j = [op |-> "register", body |-> body]
  OBVIOUS
<1>4. /\ \A q \in Req \ {r} : job'[q] = job[q]
      /\ \/ job'[r] = Idle
         \/ job'[r] = j /\ \A p \in Req : registered[p] # body
  <2>1. CASE Conflict(body) # {}
    BY <1>2, <2>1, ThenEnds
  <2>2. CASE Conflict(body) = {}
    <3>1. Goto(r, "sign up", j)
      BY <1>2, <1>3, <2>2
    <3>2. \A p \in Req : registered[p] # body
      BY <2>2 DEF Conflict
    <3> QED BY <3>1, <3>2, Then
  <2> QED BY ONLY <2>1, <2>2
<1>5. /\ hurried \subseteq hurried'
      /\ body \notin hurried' => \A q \in Doing("register") : job[q].body # body
  BY <1>2
<1>6. OneRegistration'
  BY <1>1, <1>5 DEF SignupsApart, OneRegistration
<1>7. ASSUME NEW q \in Doing("register")', job'[q].body \notin hurried'
      PROVE  /\ \A p \in Req : registered'[p] # job'[q].body
             /\ \A p \in Doing("register")' : job'[p].body = job'[q].body => p = q
  <2>1. ASSUME NEW p \in Doing("register")'
        PROVE  \/ p # r /\ p \in Doing("register") /\ job'[p] = job[p]
               \/ p = r /\ job'[r].body = body /\ \A x \in Req : registered[x] # body
    BY <1>3, <1>4, IdleIsNone DEF Doing
  <2>2. body \notin hurried' => \A p \in Doing("register") : job[p].body # body
    BY <1>5
  <2>3. CASE q = r
    BY <1>1, <1>7, <2>1, <2>2, <2>3
  <2>4. CASE q # r
    <3>1. q \in Doing("register") /\ job'[q] = job[q] /\ job[q].body \notin hurried
      BY <1>5, <1>7, <2>1, <2>4
    <3>2. /\ \A p \in Req : registered[p] # job[q].body
          /\ \A p \in Doing("register") : job[p].body = job[q].body => p = q
      BY <3>1 DEF SignupsApart
    <3> QED BY <1>1, <1>7, <2>1, <2>2, <3>1, <3>2
  <2> QED BY <2>3, <2>4
<1> QED BY <1>1, <1>6, <1>7 DEF SignupsApart

LEMMA SignedUp ==
  ASSUME Tagged, SignupsApart, NEW r \in Req, CreateBusinessWithOwner(r) PROVE SignupsApart'
<1>1. job[r].op = "register"
  BY StageTells DEF CreateBusinessWithOwner, AccountsTag
<1>2. PICK body : body = job[r].body
  OBVIOUS
<1>3. /\ DOMAIN registered' = Req /\ UNCHANGED hurried
      /\ \A q \in Req : registered'[q] = IF q = r THEN body ELSE registered[q]
  BY <1>2 DEF CreateBusinessWithOwner, SignupsApart
<1>4. \A q \in Req : job'[q] = IF q = r THEN Idle ELSE job[q]
  BY ThenEnds DEF CreateBusinessWithOwner
<1>5. body \notin hurried => /\ \A p \in Req : registered[p] # body
                             /\ \A p \in Doing("register") : job[p].body = body => p = r
  BY <1>1, <1>2 DEF SignupsApart, Doing
<1>6. OneRegistration'
  BY <1>3, <1>5 DEF SignupsApart, OneRegistration
<1>7. \A q \in Doing("register")' : q # r /\ q \in Doing("register") /\ job'[q] = job[q]
  BY <1>4, IdleIsNone DEF Doing
<1>8. ASSUME NEW q \in Doing("register")', job'[q].body \notin hurried'
      PROVE  /\ \A p \in Req : registered'[p] # job'[q].body
             /\ \A p \in Doing("register")' : job'[p].body = job'[q].body => p = q
  <2>1. q # r /\ q \in Doing("register") /\ job'[q] = job[q]
    BY <1>7
  <2>2. job[q].body # body
    BY <1>1, <1>2, <1>3, <1>8, <2>1 DEF SignupsApart, Doing
  <2> QED BY <1>3, <1>7, <1>8, <2>1, <2>2 DEF SignupsApart
<1> QED BY <1>3, <1>6, <1>8 DEF SignupsApart

LEMMA SignupsHold == ASSUME Tagged, SignupsApart, [Next]_all PROVE SignupsApart'
<1>1. ASSUME NEW r \in Req, Registering(r) PROVE SignupsApart'
  BY <1>1, ConflictChecked, SignedUp DEF Registering
<1>2. CASE ~\E r \in Req : Registering(r)
  <2>1. UNCHANGED signups /\ Aside(RegisterOps)
    BY <1>2, RegisterAside
  <2>2. \A q \in Doing("register")' : q \in Doing("register") /\ job'[q] = job[q]
    BY <2>1 DEF Aside, RegisterOps, Doing
  <2> QED BY <2>1, <2>2 DEF signups, SignupsApart, OneRegistration
<1> QED BY <1>1, <1>2

(* Nobody registers the same business twice, except for those history has  *)
(* seen between the check and the insert of another.                       *)
THEOREM RegistrationsApart == Spec => []SignupsApart
<1>1. Init => SignupsApart
  BY DEF Init, AccountsInit, RequestsInit, Idle, SignupsApart, OneRegistration, Doing
<1>2. Tagged /\ SignupsApart /\ [Next]_all => SignupsApart'
  BY SignupsHold
<1> QED BY <1>1, <1>2, EveryRequestIsTagged, PTL DEF Spec
-----------------------------------------------------------------------------
(***************************************************************************)
(* The accounts.  A user that was there once has a row for good, and what  *)
(* a request or a session is about is a user that has one.                 *)
(***************************************************************************)
SessionRow == [user : UserId, login : SessionId, revoked : BOOLEAN]
Choice     == {"role", "granted", "denied"}

HasRow(u) == u \in UserId /\ user[u] \in UserRow /\ (u \in Req => stage[u] # "new")

UsersTyped ==
  /\ user \in [UserId -> UserRow \cup {None}]
  /\ override \in [UserId -> [Cap -> Choice]]
  /\ grant \in [Role -> [Cap -> {"default", "granted", "denied"}]]
  /\ \A r \in Req : stage[r] = "new" => user[r] = None
Opened(s) == s \in SessionId /\ session[s] \in SessionRow /\ HasRow(session[s].user)
SessionsTyped ==
  /\ session \in [SessionId -> SessionRow \cup {None}]
  /\ \A s \in SessionId : session[s] # None => Opened(s)
SignInJob ==
  [op : SignInOps, on : UserId, login : SessionId, session : SessionId \cup {None},
   seen : UserRow \cup {None}, overrides : [Cap -> Choice] \cup {None},
   caps : (SUBSET Cap) \cup {None}]
JobTyped(r) ==
  /\ job[r].op \in SignInOps =>
       /\ job[r] \in SignInJob /\ HasRow(job[r].on)
       /\ stage[r] # "user" => job[r].seen \in UserRow
       /\ job[r].op = "refresh" => Opened(job[r].session)
  /\ job[r].op \in {"reset"} \cup EditOps => HasRow(job[r].on)
  /\ job[r].op = "patchRole" =>
       /\ job[r].role \in Role \ {"owner"} /\ job[r].cap \in Cap
       /\ job[r].choice \in {"none", "default", "granted", "denied"}
  /\ job[r].op \in {"update", "console"} => job[r].change \in Change
JobsTyped == \A r \in Req : JobTyped(r)
AccountsTyped == UsersTyped /\ SessionsTyped /\ JobsTyped

LEMMA LiveHasRow == ASSUME UsersTyped, NEW u \in LiveUsers PROVE HasRow(u)
  BY DEF UsersTyped, LiveUsers, HasRow

LEMMA OutdatedRow ==
  ASSUME NEW rw \in UserRow
  PROVE  /\ Outdated(rw) \in UserRow /\ Outdated(rw).ver = rw.ver + 1
         /\ Outdated(rw).role = rw.role /\ Outdated(rw).deleted = rw.deleted
         /\ Outdated(rw).active = rw.active
  BY DEF UserRow, Outdated

LEMMA AppliedRow ==
  ASSUME NEW rw \in UserRow, NEW change \in Body
  PROVE  /\ Applied(rw, change) \in UserRow /\ Applied(rw, change).ver = rw.ver
         /\ Applied(rw, change).deleted = rw.deleted
         /\ Applied(rw, change).role = RoleAfter(rw, change)
         /\ Applied(rw, change).active =
              IF change.active = "keep" THEN rw.active ELSE change.active = "yes"
<1>1. RoleAfter(rw, change) \in Role
  BY AccountsAssumption DEF UserRow, Body, RoleAfter
<1>2. PICK role \in Role : role = RoleAfter(rw, change)
  BY <1>1
<1>3. PICK active \in BOOLEAN :
        active = IF change.active = "keep" THEN rw.active ELSE change.active = "yes"
  BY DEF UserRow
<1>4. PICK restricted \in BOOLEAN :
        restricted = (\/ change.modules = "list"
                      \/ rw.restricted /\ change.modules # "all" /\ change.role # "owner")
  BY DEF UserRow
<1>5. Applied(rw, change) =
        [rw EXCEPT !.role = role, !.active = active, !.restricted = restricted]
  BY <1>2, <1>3, <1>4 DEF Applied, UserRow
<1> QED BY <1>2, <1>3, <1>5 DEF UserRow

(* What a statement does to the users: nothing, or one row is written, or  *)
(* the users of one role that an edit of it saw get a new version, and the *)
(* role other rights.                                                      *)
Rewrites(r, u, rw) ==
  /\ Write(r, u, rw) /\ UNCHANGED grant
  /\ override' \in [UserId -> [Cap -> Choice]]
  /\ \/ u = r /\ stage[r] = "new" /\ UNCHANGED override
     \/ HasRow(u) /\ rw.ver > user[u].ver /\ \A v \in UserId \ {u} : override'[v] = override[v]
     \/ /\ HasRow(u) /\ rw.ver = user[u].ver /\ rw.deleted = user[u].deleted
        /\ UNCHANGED override
Bumps(role, seen) ==
  /\ user' = BumpRole(role, seen) /\ UNCHANGED override
  /\ moved' = moved \cup Overlooked(role, seen)
  /\ grant' \in [Role -> [Cap -> {"default", "granted", "denied"}]]
  /\ \A other \in Role \ {role} : grant'[other] = grant[other]
UserChange(r) ==
  \/ UNCHANGED <<user, rights, moved>>
  \/ \E u \in UserId, rw \in UserRow : Rewrites(r, u, rw)
  \/ \E role \in Role \ {"owner"} : \E seen : Bumps(role, seen)

LEMMA WroteOutdated ==
  ASSUME AccountsTyped, NEW r \in Req, NEW u, HasRow(u), Write(r, u, Outdated(user[u])),
         UNCHANGED rights
  PROVE  UserChange(r)
<1>1. PICK old \in UserRow : old = user[u]
  BY DEF HasRow
<1>2. PICK rw \in UserRow : rw = Outdated(old) /\ rw.ver = old.ver + 1
  BY OutdatedRow
<1>3. Write(r, u, rw)
  BY <1>1, <1>2
<1>4. rw.ver > user[u].ver /\ u \in UserId
  BY <1>1, <1>2 DEF UserRow, HasRow
<1>5. Rewrites(r, u, rw)
  BY <1>3, <1>4 DEF Rewrites, rights, AccountsTyped, UsersTyped
<1> QED BY <1>4, <1>5 DEF UserChange

LEMMA SigningInChange ==
  ASSUME NEW r \in Req, SigningIn(r) PROVE UNCHANGED <<user, rights, moved>>
  BY DEF SigningIn, Login, FindSession, ReadSessionUser, ReadOverrides, RevokeOld, ReadRoleCaps,
    IssueTokens, Impersonate, accountVars, accounts, rights, witnesses

LEMMA OutdatingChange ==
  ASSUME Tagged, AccountsTyped, NEW r \in Req, Outdating(r) PROVE UserChange(r)
<1>1. CASE Logout(r) \/ RevokeSession(r) \/ RevokeAllSessions(r) \/ CutSessions(r)
  BY <1>1 DEF Logout, RevokeSession, RevokeAllSessions, CutSessions, UserChange
<1>2. CASE ChangePassword(r)
  <2>1. PICK u \in LiveUsers : Write(r, u, Outdated(user[u])) /\ UNCHANGED rights
    BY <1>2 DEF ChangePassword
  <2> QED BY <2>1, LiveHasRow, WroteOutdated DEF AccountsTyped
<1>3. CASE ResetPassword(r)
  <2>1. PICK u \in LiveUsers : Write(r, u, Outdated(user[u])) /\ UNCHANGED rights
    BY <1>3 DEF ResetPassword
  <2> QED BY <2>1, LiveHasRow, WroteOutdated DEF AccountsTyped
<1>4. CASE CreateUser(r)
  <2>1. PICK role \in NewRoles, list \in BOOLEAN :
          Write(r, r, [NewUser(role) EXCEPT !.restricted = list])
    BY <1>4 DEF CreateUser
  <2>2. PICK rw \in UserRow : rw = [NewUser(role) EXCEPT !.restricted = list]
    BY AccountsAssumption DEF NewUser, UserRow
  <2>3. Rewrites(r, r, rw)
    BY <1>4, <2>1, <2>2 DEF CreateUser, Starts, Rewrites, rights, AccountsTyped, UsersTyped
  <2> QED BY <2>3 DEF UserChange, UserId
<1>5. CASE PatchRole(r) \/ FindRoleUsers(r)
  BY <1>5 DEF PatchRole, FindRoleUsers, accountVars, accounts, witnesses, UserChange
<1>6. CASE CommitRole(r)
  <2>1. job[r].op = "patchRole"
    BY <1>6, StageTells DEF CommitRole, AccountsTag
  <2>2. PICK role \in Role \ {"owner"}, c \in Cap,
             choice \in {"none", "default", "granted", "denied"} :
          role = job[r].role /\ c = job[r].cap /\ choice = job[r].choice
    BY <2>1 DEF AccountsTyped, JobsTyped, JobTyped
  <2>3. grant' = IF choice = "none" THEN grant ELSE [grant EXCEPT ![role][c] = choice]
    BY <1>6, <2>2 DEF CommitRole
  <2>4. grant' \in [Role -> [Cap -> {"default", "granted", "denied"}]]
    BY <2>3 DEF AccountsTyped, UsersTyped
  <2>5. \A other \in Role \ {role} : grant'[other] = grant[other]
    BY <2>3 DEF AccountsTyped, UsersTyped
  <2>6. /\ user' = BumpRole(role, job[r].users) /\ UNCHANGED override
        /\ moved' = moved \cup Overlooked(role, job[r].users)
    BY <1>6, <2>2 DEF CommitRole
  <2> QED BY <2>4, <2>5, <2>6 DEF Bumps, UserChange
<1> QED BY <1>1, <1>2, <1>3, <1>4, <1>5, <1>6 DEF Outdating

LEMMA EditingChange ==
  ASSUME Tagged, AccountsTyped, NEW r \in Req, Editing(r) PROVE UserChange(r)
<1>1. CASE ReadUser(r) \/ ReadEmployee(r) \/ CountOwners(r)
  BY <1>1 DEF ReadUser, ReadEmployee, CountOwners, accountVars, accounts, witnesses, UserChange
<1>2. job[r].op \in {"update", "remove", "patchOverrides", "console"} => HasRow(job[r].on)
  BY DEF AccountsTyped, JobsTyped, JobTyped, EditOps
<1>3. job[r].op \in {"update", "console"} => job[r].change \in Body
  BY AccountsAssumption DEF AccountsTyped, JobsTyped, JobTyped
<1>4. CASE UpdateUser(r)
  <2>1. PICK u \in UserId, old \in UserRow, change \in Body :
          u = job[r].on /\ HasRow(u) /\ old = user[u] /\ change = job[r].change
    BY <1>2, <1>3, <1>4 DEF UpdateUser, HasRow
  <2>2. PICK rw \in UserRow :
          rw = Applied(old, change) /\ rw.ver = old.ver /\ rw.deleted = old.deleted
    BY AppliedRow
  <2>3. Write(r, u, rw) /\ UNCHANGED rights
    BY <1>4, <2>1, <2>2 DEF UpdateUser
  <2>4. Rewrites(r, u, rw)
    BY <2>1, <2>2, <2>3 DEF Rewrites, rights, AccountsTyped, UsersTyped
  <2> QED BY <2>1, <2>4 DEF UserChange
<1>5. CASE ConsoleUpdate(r)
  <2>1. PICK u \in UserId, old \in UserRow, change \in Body :
          u = job[r].on /\ HasRow(u) /\ old = user[u] /\ change = job[r].change
    BY <1>2, <1>3, <1>5 DEF ConsoleUpdate, HasRow
  <2>2. PICK new \in UserRow :
          new = Applied(old, change) /\ new.ver = old.ver /\ new.deleted = old.deleted
    BY AppliedRow
  <2>3. PICK rw \in UserRow : /\ rw = [new EXCEPT !.restricted = old.restricted]
                              /\ rw.ver = old.ver /\ rw.deleted = old.deleted
    <3>1. [new EXCEPT !.restricted = old.restricted] \in UserRow
      BY DEF UserRow
    <3>2. /\ [new EXCEPT !.restricted = old.restricted].ver = new.ver
          /\ [new EXCEPT !.restricted = old.restricted].deleted = new.deleted
      BY DEF UserRow
    <3> QED BY <2>2, <3>1, <3>2
  <2>4. Write(r, u, rw) /\ UNCHANGED rights
    BY <1>5, <2>1, <2>2, <2>3 DEF ConsoleUpdate
  <2>5. Rewrites(r, u, rw)
    BY <2>1, <2>3, <2>4 DEF Rewrites, rights, AccountsTyped, UsersTyped
  <2> QED BY <2>1, <2>5 DEF UserChange
<1>6. CASE RemoveUser(r)
  <2>1. PICK u \in UserId, old \in UserRow : u = job[r].on /\ HasRow(u) /\ old = user[u]
    BY <1>2, <1>6 DEF RemoveUser, HasRow
  <2>2. PICK new \in UserRow : new = Outdated(old) /\ new.ver = old.ver + 1
    BY OutdatedRow
  <2>3. PICK rw \in UserRow :
          rw = [new EXCEPT !.deleted = TRUE, !.active = FALSE] /\ rw.ver = old.ver + 1
    <3>1. [new EXCEPT !.deleted = TRUE, !.active = FALSE] \in UserRow
      BY DEF UserRow
    <3>2. [new EXCEPT !.deleted = TRUE, !.active = FALSE].ver = new.ver
      BY DEF UserRow
    <3> QED BY <2>2, <3>1, <3>2
  <2>4. Write(r, u, rw) /\ UNCHANGED rights
    BY <1>6, <2>1, <2>2, <2>3 DEF RemoveUser
  <2>5. rw.ver > user[u].ver
    BY <2>1, <2>3 DEF UserRow
  <2>6. Rewrites(r, u, rw)
    BY <2>1, <2>4, <2>5 DEF Rewrites, rights, AccountsTyped, UsersTyped
  <2> QED BY <2>1, <2>6 DEF UserChange
<1>7. CASE PatchOverrides(r)
  <2>1. PICK u \in UserId, old \in UserRow : u = job[r].on /\ HasRow(u) /\ old = user[u]
    BY <1>2, <1>7 DEF PatchOverrides, HasRow
  <2>2. PICK rw \in UserRow : rw = Outdated(old) /\ rw.ver = old.ver + 1
    BY OutdatedRow
  <2>3. Write(r, u, rw) /\ UNCHANGED grant
    BY <1>7, <2>1, <2>2 DEF PatchOverrides
  <2>4. PICK c \in Cap, choice \in Choice : override' = [override EXCEPT ![u][c] = choice]
    BY <1>7, <2>1 DEF PatchOverrides, Choice
  <2>5. /\ override' \in [UserId -> [Cap -> Choice]]
        /\ \A v \in UserId \ {u} : override'[v] = override[v]
    BY <2>1, <2>4 DEF AccountsTyped, UsersTyped
  <2>6. rw.ver > user[u].ver
    BY <2>1, <2>2 DEF UserRow
  <2>7. Rewrites(r, u, rw)
    BY <2>1, <2>3, <2>5, <2>6 DEF Rewrites
  <2> QED BY <2>1, <2>7 DEF UserChange
<1> QED BY <1>1, <1>4, <1>5, <1>6, <1>7 DEF Editing

LEMMA UsersStayTyped ==
  ASSUME AccountsTyped, NEW r \in Req, Moved(r), stage'[r] # "new", UserChange(r)
  PROVE  UsersTyped' /\ \A u \in UserId : HasRow(u) => HasRow(u)'
<1>1. \A q \in Req : stage'[q] = "new" => stage[q] = "new" /\ q # r
  BY DEF Moved
<1>2. CASE UNCHANGED <<user, rights>>
  BY <1>1, <1>2 DEF AccountsTyped, UsersTyped, HasRow, rights
<1>3. ASSUME NEW u \in UserId, NEW rw \in UserRow, Rewrites(r, u, rw)
      PROVE  UsersTyped' /\ \A v \in UserId : HasRow(v) => HasRow(v)'
  <2>1. /\ \A v \in UserId : user'[v] = IF v = u THEN rw ELSE user[v]
        /\ user' \in [UserId -> UserRow \cup {None}]
    BY <1>3 DEF Rewrites, Write, AccountsTyped, UsersTyped
  <2>2. \A q \in Req : stage'[q] = "new" => q # u
    BY <1>1, <1>3 DEF Rewrites, HasRow
  <2>3. override' \in [UserId -> [Cap -> Choice]] /\ grant' = grant
    BY <1>3 DEF Rewrites
  <2>4. UsersTyped'
    BY <1>1, <2>1, <2>2, <2>3 DEF AccountsTyped, UsersTyped, UserId
  <2>5. \A v \in UserId : HasRow(v) => HasRow(v)'
    BY <1>1, <2>1 DEF HasRow
  <2> QED BY <2>4, <2>5
<1>4. ASSUME NEW role \in Role, NEW seen, Bumps(role, seen)
      PROVE  UsersTyped' /\ \A v \in UserId : HasRow(v) => HasRow(v)'
  <2>1. ASSUME NEW v \in UserId
        PROVE  /\ user'[v] = user[v] \/ (user[v] \in UserRow /\ user'[v] \in UserRow)
               /\ user[v] = None /\ v \in Req /\ stage[v] = "new" => user'[v] = None
    <3>1. user'[v] = IF v \in seen \cap LiveUsers /\ user[v].role = role
                     THEN Outdated(user[v]) ELSE user[v]
      BY <1>4 DEF Bumps, BumpRole
    <3>2. CASE v \in LiveUsers
      <4>1. PICK old \in UserRow : old = user[v]
        BY <3>2 DEF LiveUsers, AccountsTyped, UsersTyped
      <4>2. Outdated(old) \in UserRow
        BY OutdatedRow
      <4> QED BY <3>1, <3>2, <4>1, <4>2 DEF LiveUsers
    <3> QED BY <3>1, <3>2
  <2>2. DOMAIN user' = UserId /\ user' = [v \in UserId |-> user'[v]]
    BY <1>4 DEF Bumps, BumpRole
  <2>3. user' \in [UserId -> UserRow \cup {None}]
    BY <2>1, <2>2 DEF AccountsTyped, UsersTyped
  <2>4. UsersTyped'
    BY <1>1, <1>4, <2>1, <2>3 DEF Bumps, AccountsTyped, UsersTyped, UserId
  <2>5. \A v \in UserId : HasRow(v) => HasRow(v)'
    BY <1>1, <2>1 DEF HasRow
  <2> QED BY <2>4, <2>5
<1> QED BY <1>2, <1>3, <1>4 DEF UserChange, Role

(* What a statement does to the sessions.                                  *)
EndsSome == \E S \in SUBSET LiveSession : EndSessions(S)
SessionChange(r) ==
  \/ UNCHANGED <<session, ended, slipped>>
  \/ EndsSome
  \/ FindSession(r) /\ UNCHANGED <<session, ended>>
  \/ RevokeOld(r) /\ UNCHANGED <<ended, slipped>>
  \/ IssueTokens(r) /\ UNCHANGED <<ended, slipped>>

LEMMA AccountsSessionChange ==
  ASSUME NEW r \in Req, SigningIn(r) \/ Outdating(r) \/ Editing(r) PROVE SessionChange(r)
<1>1. CASE SigningIn(r)
  BY <1>1 DEF SigningIn, Login, FindSession, ReadSessionUser, ReadOverrides, RevokeOld,
    ReadRoleCaps, IssueTokens, Impersonate, accountVars, accounts, witnesses, SessionChange
<1>2. CASE Logout(r) \/ RevokeSession(r)
  <2>1. PICK s \in LiveSession : EndSessions({s})
    BY <1>2 DEF Logout, RevokeSession
  <2> QED BY <2>1 DEF SessionChange, EndsSome
<1>3. CASE RevokeAllSessions(r)
  BY <1>3 DEF RevokeAllSessions, SessionChange, EndsSome
<1>4. CASE CutSessions(r)
  <2>1. EndSessions({s \in LiveSession : session[s].user = job[r].on})
    BY <1>4 DEF CutSessions
  <2> QED BY <2>1 DEF SessionChange, EndsSome
<1>5. CASE ChangePassword(r) \/ ResetPassword(r) \/ CreateUser(r)
  BY <1>5 DEF ChangePassword, ResetPassword, CreateUser, SessionChange
<1>7. CASE PatchRole(r) \/ FindRoleUsers(r) \/ CommitRole(r)
  BY <1>7 DEF PatchRole, FindRoleUsers, CommitRole, accountVars, accounts, witnesses, SessionChange
<1>6. CASE Editing(r)
  BY <1>6 DEF Editing, ReadUser, UpdateUser, RemoveUser, PatchOverrides, ReadEmployee,
    CountOwners, ConsoleUpdate, accountVars, accounts, witnesses, SessionChange
<1> QED BY <1>1, <1>2, <1>3, <1>4, <1>5, <1>6, <1>7 DEF Outdating

LEMMA RevokedRow ==
  ASSUME NEW old \in SessionRow
  PROVE  /\ [old EXCEPT !.revoked = TRUE] \in SessionRow
         /\ [old EXCEPT !.revoked = TRUE].user = old.user
         /\ [old EXCEPT !.revoked = TRUE].login = old.login
         /\ [old EXCEPT !.revoked = TRUE].revoked
  BY DEF SessionRow

(* A session that is opened stays a row of its user.                       *)
LEMMA SessionsStayTyped ==
  ASSUME Tagged, AccountsTyped, NEW r \in Req, SessionChange(r),
         \A u \in UserId : HasRow(u) => HasRow(u)'
  PROVE  SessionsTyped' /\ \A s \in SessionId : Opened(s) => Opened(s)'
<1>1. SUFFICES /\ DOMAIN session' = SessionId /\ session' = [s \in SessionId |-> session'[s]]
               /\ \A s \in SessionId :
                    \/ session'[s] = session[s]
                    \/ /\ session'[s] \in SessionRow
                       /\ HasRow(session'[s].user)
  <2>1. ASSUME NEW s \in SessionId, session'[s] = session[s], Opened(s) PROVE Opened(s)'
    <3>1. PICK u \in UserId : u = session[s].user /\ HasRow(u)
      BY <2>1 DEF Opened, HasRow
    <3>2. u = session'[s].user /\ HasRow(u)'
      BY <2>1, <3>1
    <3> QED BY <2>1, <3>2 DEF Opened, HasRow
  <2>2. ASSUME NEW s \in SessionId, session'[s] \in SessionRow, HasRow(session'[s].user)
        PROVE  Opened(s)'
    <3>1. PICK u \in UserId : u = session'[s].user /\ HasRow(u)'
      BY <2>2 DEF HasRow
    <3> QED BY <2>2, <3>1 DEF Opened, HasRow
  <2> QED BY <2>1, <2>2 DEF AccountsTyped, SessionsTyped
<1>2. CASE UNCHANGED session
  BY <1>2 DEF AccountsTyped, SessionsTyped
<1>3. CASE EndsSome
  <2>1. PICK S \in SUBSET LiveSession : EndSessions(S)
    BY <1>3 DEF EndsSome
  <2>2. session' = [s \in SessionId |-> IF s \in S THEN [session[s] EXCEPT !.revoked = TRUE]
                                        ELSE session[s]]
    BY <2>1 DEF EndSessions
  <2>3. ASSUME NEW s \in S
        PROVE  session'[s] \in SessionRow /\ HasRow(session'[s].user)
    <3>1. PICK old \in SessionRow : old = session[s] /\ HasRow(old.user)
      BY DEF LiveSession, AccountsTyped, SessionsTyped, Opened
    <3>2. session'[s] = [old EXCEPT !.revoked = TRUE]
      BY <2>2, <3>1 DEF LiveSession
    <3> QED BY <3>1, <3>2, RevokedRow
  <2> QED BY <2>2, <2>3
<1>4. CASE RevokeOld(r)
  <2>1. job[r].op = "refresh"
    BY <1>4, StageTells DEF RevokeOld, AccountsTag
  <2>2. PICK t \in SessionId : t = job[r].session /\ Opened(t)
    BY <2>1 DEF AccountsTyped, JobsTyped, JobTyped, SignInOps, Opened
  <2>3. PICK old \in SessionRow : old = session[t] /\ HasRow(old.user)
    BY <2>2 DEF Opened
  <2>4. PICK new \in SessionRow : new = [old EXCEPT !.revoked = TRUE] /\ new.user = old.user
    BY RevokedRow
  <2>5. session' = [session EXCEPT ![t] = new]
    BY <1>4, <2>2, <2>3, <2>4 DEF RevokeOld, Rotated
  <2>6. HasRow(new.user)
    BY <2>3, <2>4
  <2> QED BY <2>5, <2>6 DEF AccountsTyped, SessionsTyped
<1>5. CASE IssueTokens(r)
  <2>1. job[r].op \in SignInOps
    BY <1>5, StageTells DEF IssueTokens, AccountsTag, SignInOps
  <2>2. PICK u \in UserId, f \in SessionId : u = job[r].on /\ f = job[r].login /\ HasRow(u)
    BY <2>1 DEF AccountsTyped, JobsTyped, JobTyped, SignInJob
  <2>3. PICK new \in SessionRow : new = NewSession(u, f) /\ new.user = u
    <3>1. NewSession(u, f) \in SessionRow /\ NewSession(u, f).user = u
      BY DEF NewSession, SessionRow
    <3> QED BY <3>1
  <2>4. session' = session \/ session' = [session EXCEPT ![r] = new]
    BY <1>5, <2>2, <2>3 DEF IssueTokens
  <2> QED BY <2>2, <2>3, <2>4 DEF AccountsTyped, SessionsTyped, SessionId
<1> QED BY <1>2, <1>3, <1>4, <1>5 DEF SessionChange

LEMMA JobStays ==
  ASSUME NEW q \in Req, JobTyped(q), stage'[q] = stage[q], job'[q] = job[q],
         \A u \in UserId : HasRow(u) => HasRow(u)',
         \A s \in SessionId : Opened(s) => Opened(s)'
  PROVE  JobTyped(q)'
<1>1. PICK j : j = job[q]
  OBVIOUS
<1>2. HasRow(j.on) => HasRow(j.on)'
  BY DEF HasRow
<1>3. Opened(j.session) => Opened(j.session)'
  BY DEF Opened
<1>4. job'[q] = j
  BY <1>1
<1>5. HasRow(job[q].on) => HasRow(job[q].on)'
  BY <1>1, <1>2, <1>4
<1>6. Opened(job[q].session) => Opened(job[q].session)'
  BY <1>1, <1>3, <1>4
<1> QED BY <1>5, <1>6 DEF JobTyped

LEMMA IdleTyped == ASSUME NEW q \in Req, job'[q] = Idle PROVE JobTyped(q)'
  BY IdleIsNone DEF JobTyped, SignInOps, ResetOps, EditOps

LEMMA SignInTyped ==
  ASSUME NEW r \in Req, NEW j \in SignInJob, job'[r] = j, HasRow(j.on)',
         stage'[r] # "user" => j.seen \in UserRow,
         j.op = "refresh" => Opened(j.session)'
  PROVE  JobTyped(r)'
<1>1. j.op \in SignInOps
  BY DEF SignInJob
<1>2. HasRow(job[r].on)' /\ (job[r].op = "refresh" => Opened(job[r].session))'
  OBVIOUS
<1> QED BY <1>1, <1>2 DEF JobTyped, SignInOps, ResetOps, EditOps

LEMMA SignInJobIs ==
  ASSUME NEW op \in SignInOps, NEW u \in UserId, NEW f \in SessionId,
         NEW s \in SessionId \cup {None}, NEW seen \in UserRow \cup {None}
  PROVE  /\ SignsIn(op, u, f, s, seen) \in SignInJob
         /\ SignsIn(op, u, f, s, seen).on = u /\ SignsIn(op, u, f, s, seen).op = op
         /\ SignsIn(op, u, f, s, seen).session = s /\ SignsIn(op, u, f, s, seen).seen = seen
         /\ SignsIn(op, u, f, s, seen).login = f
<1>1. SignsIn(op, u, f, s, seen) \in SignInJob
  <2>1. PICK x \in [Cap -> Choice] \cup {None} : x = None
    OBVIOUS
  <2>2. PICK y \in (SUBSET Cap) \cup {None} : y = None
    OBVIOUS
  <2>3. SignsIn(op, u, f, s, seen) = [op |-> op, on |-> u, login |-> f, session |-> s,
                                      seen |-> seen, overrides |-> x, caps |-> y]
    BY <2>1, <2>2 DEF SignsIn
  <2> QED BY <2>3 DEF SignInJob
<1>2. /\ SignsIn(op, u, f, s, seen).on = u /\ SignsIn(op, u, f, s, seen).op = op
      /\ SignsIn(op, u, f, s, seen).session = s /\ SignsIn(op, u, f, s, seen).seen = seen
      /\ SignsIn(op, u, f, s, seen).login = f
  BY DEF SignsIn
<1> QED BY <1>1, <1>2

LEMMA SigningInTyped ==
  ASSUME Tagged, AccountsTyped, NEW r \in Req, SigningIn(r),
         \A u \in UserId : HasRow(u) => HasRow(u)',
         \A s \in SessionId : Opened(s) => Opened(s)'
  PROVE  JobTyped(r)'
<1>1. ASSUME NEW op \in {"login", "impersonate"}, NEW u \in LiveUsers,
             Goto(r, "overrides", SignsIn(op, u, r, None, user[u]))
      PROVE  JobTyped(r)'
  <2>1. HasRow(u) /\ u \in UserId /\ HasRow(u)'
    BY LiveHasRow DEF AccountsTyped, LiveUsers
  <2>2. PICK seen \in UserRow : seen = user[u]
    BY <2>1 DEF HasRow
  <2>3. PICK j \in SignInJob : /\ j = SignsIn(op, u, r, None, seen)
                               /\ j.on = u /\ j.op = op /\ j.seen = seen
    BY <2>1, SignInJobIs DEF SignInOps, SessionId
  <2>4. Goto(r, "overrides", j)
    BY <1>1, <2>2, <2>3
  <2>5. job'[r] = j
    BY <2>4, Then
  <2> QED BY <2>1, <2>3, <2>5, SignInTyped
<1>2. CASE FindSession(r)
  <2>1. PICK s \in LiveSession :
          Goto(r, "user", SignsIn("refresh", session[s].user, session[s].login, s, None))
    BY <1>2 DEF FindSession, Refreshable
  <2>2. Opened(s) /\ Opened(s)' /\ s \in SessionId
    BY DEF LiveSession, AccountsTyped, SessionsTyped
  <2>3. PICK u \in UserId, f \in SessionId : /\ u = session[s].user /\ f = session[s].login
                                            /\ HasRow(u) /\ HasRow(u)'
    BY <2>2 DEF Opened, SessionRow
  <2>4. PICK j \in SignInJob : /\ j = SignsIn("refresh", u, f, s, None)
                               /\ j.on = u /\ j.session = s
    BY <2>2, SignInJobIs DEF SignInOps
  <2>5. Goto(r, "user", j)
    BY <2>1, <2>3, <2>4
  <2>6. job'[r] = j /\ stage'[r] = "user"
    BY <2>5, Then
  <2> QED BY <2>2, <2>3, <2>4, <2>6, SignInTyped
<1>3. ASSUME stage[r] \in {"user", "overrides", "rotate", "caps", "issue"}
      PROVE  /\ job[r] \in SignInJob /\ HasRow(job[r].on)
             /\ stage[r] # "user" => job[r].seen \in UserRow
             /\ job[r].op = "refresh" => Opened(job[r].session)
  <2>1. job[r].op \in SignInOps
    BY <1>3, StageTells DEF AccountsTag, SignInOps
  <2> QED BY <2>1 DEF AccountsTyped, JobsTyped, JobTyped
<1>4. ASSUME stage[r] \in {"user", "overrides", "rotate", "caps", "issue"}, NEW j \in SignInJob,
             j.on = job[r].on, j.op = job[r].op, j.session = job[r].session,
             j.seen \in UserRow, NEW s, Goto(r, s, j)
      PROVE  JobTyped(r)'
  <2>1. job'[r] = j
    BY <1>4, Then
  <2>2. HasRow(j.on) /\ (j.op = "refresh" => Opened(j.session))
    BY <1>3, <1>4
  <2>3. HasRow(j.on)' /\ (j.op = "refresh" => Opened(j.session)')
    BY <2>2 DEF HasRow, Opened
  <2> QED BY <1>4, <2>1, <2>3, SignInTyped
<1>5. CASE ReadSessionUser(r)
  <2>1. PICK old \in SignInJob : old = job[r] /\ HasRow(old.on)
    BY <1>3, <1>5 DEF ReadSessionUser
  <2>2. PICK seen \in UserRow : seen = user[old.on]
    BY <2>1 DEF HasRow
  <2>3. [old EXCEPT !.seen = seen] \in SignInJob
    BY DEF SignInJob
  <2>4. PICK j \in SignInJob : /\ j = [old EXCEPT !.seen = seen] /\ j.seen = seen
                               /\ j.on = old.on /\ j.op = old.op /\ j.session = old.session
    BY <2>3 DEF SignInJob
  <2>5. Goto(r, "overrides", j) /\ stage[r] = "user"
    BY <1>5, <2>1, <2>2, <2>4 DEF ReadSessionUser
  <2> QED BY <1>4, <2>1, <2>4, <2>5
<1>6. CASE ReadOverrides(r)
  <2>1. stage[r] = "overrides"
    BY <1>6 DEF ReadOverrides
  <2>2. PICK old \in SignInJob : old = job[r] /\ HasRow(old.on) /\ old.seen \in UserRow
    BY <1>3, <2>1
  <2>3. PICK choices \in [Cap -> Choice] : choices = override[old.on]
    BY <2>2 DEF AccountsTyped, UsersTyped, SignInJob
  <2>4. [old EXCEPT !.overrides = choices] \in SignInJob
    BY DEF SignInJob
  <2>5. PICK j \in SignInJob : /\ j = [old EXCEPT !.overrides = choices] /\ j.seen = old.seen
                               /\ j.on = old.on /\ j.op = old.op /\ j.session = old.session
    BY <2>4 DEF SignInJob
  <2>6. PICK s : Goto(r, s, j)
    BY <1>6, <2>2, <2>3, <2>5 DEF ReadOverrides
  <2> QED BY <1>4, <2>1, <2>2, <2>5, <2>6
<1>7. CASE RevokeOld(r)
  <2>1. stage[r] = "rotate"
    BY <1>7 DEF RevokeOld
  <2>2. PICK j \in SignInJob : j = job[r] /\ j.seen \in UserRow
    BY <1>3, <2>1
  <2>3. Goto(r, "caps", j)
    BY <1>7, <2>2 DEF RevokeOld
  <2> QED BY <1>4, <2>1, <2>2, <2>3
<1>8. CASE ReadRoleCaps(r)
  <2>1. stage[r] = "caps"
    BY <1>8 DEF ReadRoleCaps
  <2>2. PICK old \in SignInJob : old = job[r] /\ old.seen \in UserRow
    BY <1>3, <2>1
  <2>3. PICK caps \in SUBSET Cap : caps = EffectiveCaps(old.seen.role)
    BY DEF EffectiveCaps
  <2>4. [old EXCEPT !.caps = caps] \in SignInJob
    BY DEF SignInJob
  <2>5. PICK j \in SignInJob : /\ j = [old EXCEPT !.caps = caps] /\ j.seen = old.seen
                               /\ j.on = old.on /\ j.op = old.op /\ j.session = old.session
    BY <2>4 DEF SignInJob
  <2>6. Goto(r, "issue", j)
    BY <1>8, <2>2, <2>3, <2>5 DEF ReadRoleCaps
  <2> QED BY <1>4, <2>1, <2>2, <2>5, <2>6
<1>9. CASE IssueTokens(r)
  <2>1. job'[r] = Idle
    BY <1>9, ThenEnds DEF IssueTokens
  <2> QED BY <2>1, IdleTyped
<1>10. CASE Login(r)
  BY <1>1, <1>10 DEF Login
<1>11. CASE Impersonate(r)
  BY <1>1, <1>11 DEF Impersonate
<1> QED BY <1>2, <1>5, <1>6, <1>7, <1>8, <1>9, <1>10, <1>11 DEF SigningIn

LEMMA EditTyped ==
  ASSUME NEW r \in Req, NEW j, job'[r] = j, j.op \in {"reset"} \cup EditOps, HasRow(j.on)',
         j.op \in {"update", "console"} => j.change \in Change
  PROVE  JobTyped(r)'
<1>1. HasRow(job[r].on)'
  OBVIOUS
<1> QED BY <1>1 DEF JobTyped, SignInOps, ResetOps, EditOps

LEMMA OutdatingTyped ==
  ASSUME Tagged, AccountsTyped, NEW r \in Req, Outdating(r),
         \A u \in UserId : HasRow(u) => HasRow(u)'
  PROVE  JobTyped(r)'
<1>1. CASE ResetPassword(r)
  <2>1. PICK u \in LiveUsers : Goto(r, "cut", [op |-> "reset", on |-> u])
    BY <1>1 DEF ResetPassword
  <2>2. HasRow(u)'
    BY LiveHasRow DEF AccountsTyped, LiveUsers
  <2>3. PICK j : j = [op |-> "reset", on |-> u]
    OBVIOUS
  <2>4. Goto(r, "cut", j)
    BY <2>1, <2>3
  <2>5. job'[r] = j
    BY <2>4, Then
  <2>6. j.op = "reset" /\ j.on = u
    BY <2>3
  <2> QED BY <2>2, <2>5, <2>6, EditTyped DEF ResetOps, EditOps
<1>2. ASSUME NEW s, NEW role \in Role \ {"owner"}, NEW c \in Cap,
             NEW choice \in {"none", "default", "granted", "denied"}, NEW S,
             Goto(r, s, [op |-> "patchRole", role |-> role, cap |-> c, choice |-> choice,
                         users |-> S])
      PROVE  JobTyped(r)'
  <2>1. PICK j : j = [op |-> "patchRole", role |-> role, cap |-> c, choice |-> choice,
                      users |-> S]
    OBVIOUS
  <2>2. j.op = "patchRole" /\ j.role = role /\ j.cap = c /\ j.choice = choice
    BY <2>1
  <2>3. job'[r] = j
    BY <1>2, <2>1, Then
  <2> QED BY <2>2, <2>3 DEF JobTyped, SignInOps, EditOps
<1>3. CASE PatchRole(r)
  <2>1. PICK role \in Role \ {"owner"}, c \in Cap, desired \in BOOLEAN :
          Goto(r, "outdate", [op |-> "patchRole", role |-> role, cap |-> c,
                              choice |-> Customization(role, c, desired), users |-> {}])
    BY <1>3 DEF PatchRole
  <2>2. Customization(role, c, desired) \in {"none", "default", "granted", "denied"}
    BY DEF Customization
  <2> QED BY <1>2, <2>1, <2>2
<1>4. CASE FindRoleUsers(r)
  <2>1. job[r].op = "patchRole"
    BY <1>4, StageTells DEF FindRoleUsers, AccountsTag
  <2>2. JobTyped(r)
    BY DEF AccountsTyped, JobsTyped
  <2>3. PICK S, j : j = [job[r] EXCEPT !.users = S] /\ Goto(r, "publish", j)
    BY <1>4 DEF FindRoleUsers
  <2>4. j.op = job[r].op /\ j.role = job[r].role /\ j.cap = job[r].cap
        /\ j.choice = job[r].choice
    BY <2>3
  <2>5. job'[r] = j
    BY <2>3, Then
  <2> QED BY <2>1, <2>2, <2>4, <2>5 DEF JobTyped, SignInOps, EditOps
<1>5. CASE ~ResetPassword(r) /\ ~PatchRole(r) /\ ~FindRoleUsers(r)
  <2>1. \E s : End(r, s)
    BY <1>5 DEF Outdating, Logout, RevokeSession, RevokeAllSessions, ChangePassword, CutSessions,
      CreateUser, CommitRole
  <2>2. job'[r] = Idle
    BY <2>1, ThenEnds
  <2> QED BY <2>2, IdleTyped
<1> QED BY <1>1, <1>3, <1>4, <1>5

LEMMA EditingTyped ==
  ASSUME Tagged, AccountsTyped, NEW r \in Req, Editing(r),
         \A u \in UserId : HasRow(u) => HasRow(u)',
         \A s \in SessionId : Opened(s) => Opened(s)'
  PROVE  JobTyped(r)'
<1>1. ASSUME NEW u \in UserId, HasRow(u), NEW s, NEW j, Goto(r, s, j), j.on = u, j.op \in EditOps,
             j.op \in {"update", "console"} => j.change \in Change
      PROVE  JobTyped(r)'
  <2>1. job'[r] = j
    BY <1>1, Then
  <2>2. HasRow(u)'
    BY <1>1
  <2> QED BY <1>1, <2>1, <2>2, EditTyped
<1>2. CASE ReadUser(r)
  <2>1. PICK u \in LiveUsers :
          \/ \E change \in Change :
               Goto(r, "write", [op |-> "update", on |-> u, seen |-> user[u], change |-> change])
          \/ Goto(r, "write", [op |-> "remove", on |-> u])
          \/ Goto(r, "write", [op |-> "patchOverrides", on |-> u])
    BY <1>2 DEF ReadUser
  <2>2. HasRow(u) /\ u \in UserId
    BY LiveHasRow DEF AccountsTyped, LiveUsers
  <2>3. ASSUME NEW change \in Change,
               Goto(r, "write", [op |-> "update", on |-> u, seen |-> user[u], change |-> change])
        PROVE  JobTyped(r)'
    <3>1. PICK j : j = [op |-> "update", on |-> u, seen |-> user[u], change |-> change]
      OBVIOUS
    <3>2. Goto(r, "write", j) /\ j.on = u /\ j.op = "update" /\ j.change \in Change
      BY <2>3, <3>1
    <3> QED BY <1>1, <2>2, <3>2 DEF EditOps
  <2>4. CASE Goto(r, "write", [op |-> "remove", on |-> u])
    <3>1. PICK j : j = [op |-> "remove", on |-> u]
      OBVIOUS
    <3>2. Goto(r, "write", j) /\ j.on = u /\ j.op = "remove"
      BY <2>4, <3>1
    <3> QED BY <1>1, <2>2, <3>2 DEF EditOps
  <2>5. CASE Goto(r, "write", [op |-> "patchOverrides", on |-> u])
    <3>1. PICK j : j = [op |-> "patchOverrides", on |-> u]
      OBVIOUS
    <3>2. Goto(r, "write", j) /\ j.on = u /\ j.op = "patchOverrides"
      BY <2>5, <3>1
    <3> QED BY <1>1, <2>2, <3>2 DEF EditOps
  <2> QED BY <2>1, <2>3, <2>4, <2>5
<1>3. CASE ReadEmployee(r)
  <2>1. PICK u \in UserId, change \in Change :
          /\ user[u] # None
          /\ \E s : Goto(r, s, [op |-> "console", on |-> u, change |-> change])
    BY <1>3 DEF ReadEmployee
  <2>2. HasRow(u)
    BY <2>1 DEF AccountsTyped, UsersTyped, HasRow
  <2>3. PICK j : j = [op |-> "console", on |-> u, change |-> change]
    OBVIOUS
  <2>4. PICK s : Goto(r, s, j)
    BY <2>1, <2>3
  <2>5. j.on = u /\ j.op = "console" /\ j.change \in Change
    BY <2>3
  <2> QED BY <1>1, <2>2, <2>4, <2>5 DEF EditOps
<1>4. CASE CountOwners(r)
  <2>1. job[r].op = "console"
    BY <1>4, StageTells DEF CountOwners, AccountsTag
  <2>2. JobTyped(r)
    BY DEF AccountsTyped, JobsTyped
  <2>3. PICK j : j = job[r]
    OBVIOUS
  <2>4. PICK u \in UserId : u = j.on /\ HasRow(u) /\ j.op = "console" /\ j.change \in Change
    BY <2>1, <2>2, <2>3 DEF JobTyped, EditOps, HasRow
  <2>5. CASE Goto(r, "write", j)
    BY <1>1, <2>4, <2>5 DEF EditOps
  <2>6. CASE End(r, "refused")
    <3>1. job'[r] = Idle
      BY <2>6, ThenEnds
    <3> QED BY <3>1, IdleTyped
  <2> QED BY <1>4, <2>3, <2>5, <2>6 DEF CountOwners
<1>5. CASE UpdateUser(r) \/ RemoveUser(r) \/ PatchOverrides(r) \/ ConsoleUpdate(r)
  <2>1. End(r, "done")
    BY <1>5 DEF UpdateUser, RemoveUser, PatchOverrides, ConsoleUpdate
  <2>2. job'[r] = Idle
    BY <2>1, ThenEnds
  <2> QED BY <2>2, IdleTyped
<1> QED BY <1>2, <1>3, <1>4, <1>5 DEF Editing

(* A step that changes no account but goes on with the requests.           *)
LEMMA AccountsRest ==
  ASSUME AccountsTyped, UNCHANGED <<user, rights, session>>,
         Aside(SignInOps \cup ResetOps \cup EditOps)
  PROVE  AccountsTyped'
<1>1. \A q \in Req : stage'[q] = "new" => stage[q] = "new"
  BY DEF Aside
<1>2. UsersTyped' /\ \A u \in UserId : HasRow(u) => HasRow(u)'
  BY <1>1 DEF AccountsTyped, UsersTyped, HasRow, rights
<1>3. ASSUME NEW s \in SessionId, Opened(s) PROVE Opened(s)'
  <2>1. PICK u \in UserId : u = session[s].user /\ HasRow(u)
    BY <1>3 DEF Opened, HasRow
  <2>2. u = session'[s].user /\ HasRow(u)'
    BY <1>2, <2>1
  <2> QED BY <1>3, <2>2 DEF Opened
<1>4. SessionsTyped'
  BY <1>3 DEF AccountsTyped, SessionsTyped
<1>5. ASSUME NEW q \in Req PROVE JobTyped(q)'
  <2>1. CASE job'[q].op \in SignInOps \cup ResetOps \cup EditOps
    BY <1>2, <1>3, <2>1, JobStays DEF AccountsTyped, JobsTyped, Aside
  <2>2. CASE job'[q].op \notin SignInOps \cup ResetOps \cup EditOps
    BY <2>2 DEF JobTyped, SignInOps, ResetOps, EditOps
  <2> QED BY <2>1, <2>2
<1> QED BY <1>2, <1>4, <1>5 DEF AccountsTyped, JobsTyped

(* A statement of a session or a user.                                     *)
AccountStatement(r) == (SigningIn(r) \/ Outdating(r) \/ Editing(r)) /\ UNCHANGED signups

LEMMA AccountsCases ==
  ASSUME Tagged, [Next]_all
  PROVE  \/ \E r \in Req : AccountStatement(r)
         \/ /\ UNCHANGED <<accounts, witnesses>>
            /\ Aside(SignInOps \cup ResetOps \cup EditOps)
<1>1. CASE ~AccountsStep
  <2>1. UNCHANGED accountVars /\ Aside(AccountsOps)
    BY <1>1, AccountsAside
  <2> QED BY <2>1, AsideOfLess DEF accountVars, AccountsOps, SignInOps, ResetOps, EditOps
<1>2. CASE AccountsStep
  <2>1. PICK r \in Req : AccountStatement(r) \/ Registering(r)
    BY <1>2 DEF AccountsStep, Registering, SigningIn, Outdating, Editing, AccountStatement
  <2>2. CASE Registering(r)
    <3>1. UNCHANGED <<accounts, witnesses>>
      BY <2>2 DEF Registering, EnsureNoConflict, CreateBusinessWithOwner
    <3>2. Aside(SignInOps \cup ResetOps \cup EditOps)
      BY <2>2, RegisterMoves, StandsAside DEF SignInOps, ResetOps, EditOps, RegisterOps
    <3> QED BY <3>1, <3>2
  <2> QED BY <2>1, <2>2
<1> QED BY <1>1, <1>2

LEMMA StatementMoves ==
  ASSUME Tagged, NEW r \in Req, AccountStatement(r)
  PROVE  Within(r, AccountsOps) /\ Moved(r) /\ stage'[r] # "new"
<1>1. Within(r, AccountsOps)
  BY SignInMoves, ResetMoves, EditMoves, WithinMore
    DEF AccountStatement, SignInOps, ResetOps, EditOps, AccountsOps
<1> QED BY <1>1 DEF Within

LEMMA AccountsStayTyped ==
  ASSUME Tagged, AccountsTyped, NEW r \in Req, AccountStatement(r)
  PROVE  /\ AccountsTyped'
         /\ \A u \in UserId : HasRow(u) => HasRow(u)'
<1>1. Moved(r) /\ stage'[r] # "new"
  BY StatementMoves
<1>2. UserChange(r) /\ SessionChange(r)
  BY SigningInChange, OutdatingChange, EditingChange, AccountsSessionChange
    DEF AccountStatement, UserChange
<1>3. UsersTyped' /\ \A u \in UserId : HasRow(u) => HasRow(u)'
  BY <1>1, <1>2, UsersStayTyped
<1>4. SessionsTyped' /\ \A s \in SessionId : Opened(s) => Opened(s)'
  BY <1>2, <1>3, SessionsStayTyped
<1>5. JobTyped(r)'
  BY <1>3, <1>4, SigningInTyped, OutdatingTyped, EditingTyped DEF AccountStatement
<1>6. ASSUME NEW q \in Req \ {r} PROVE JobTyped(q)'
  BY <1>1, <1>3, <1>4, JobStays DEF Moved, AccountsTyped, JobsTyped
<1>7. JobsTyped'
  BY <1>5, <1>6 DEF JobsTyped
<1> QED BY <1>3, <1>4, <1>7 DEF AccountsTyped

(* A user that was created keeps a row, deleted or not, and every session  *)
(* and every request halfway through is about a user that has one.         *)
THEOREM AccountsAreTyped == Spec => []AccountsTyped
<1>1. Init => AccountsTyped
  <2>1. ASSUME Init
        PROVE  /\ stage = [r \in Req |-> "new"] /\ job = [r \in Req |-> Idle] /\ AccountsInit
    BY <2>1 DEF Init, RequestsInit
  <2>2. \A u \in Person : NewUser(Role0[u]) \in UserRow
    BY AccountsAssumption DEF NewUser, UserRow
  <2>3. Init => UsersTyped
    BY <2>1, <2>2, AccountsAssumption DEF AccountsInit, UsersTyped, UserId, Choice
  <2>4. \A u \in Person : NewSession(u, u) \in SessionRow /\ NewSession(u, u).user = u
    BY DEF NewSession, SessionRow, UserId, SessionId
  <2>5. Init => \A u \in Person : HasRow(u)
    BY <2>1, <2>2, AccountsAssumption DEF AccountsInit, HasRow, UserId
  <2>6. Init => SessionsTyped
    BY <2>1, <2>4, <2>5 DEF AccountsInit, SessionsTyped, SessionId, Opened
  <2>7. Init => JobsTyped
    BY <2>1, IdleIsNone DEF JobsTyped, JobTyped, SignInOps, ResetOps, EditOps
  <2> QED BY <2>3, <2>6, <2>7 DEF AccountsTyped
<1>2. Tagged /\ AccountsTyped /\ [Next]_all => AccountsTyped'
  BY AccountsCases, AccountsStayTyped, AccountsRest DEF accounts
<1> QED BY <1>1, <1>2, EveryRequestIsTagged, PTL DEF Spec
-----------------------------------------------------------------------------
(***************************************************************************)
(* Sessions.  A login has one session that works, or one refresh that ends *)
(* it and begins the next; a login that is ended has neither.              *)
(***************************************************************************)
Works(s, f)     == s \in LiveSession /\ session[s].login = f
Refreshes(q, f) == q \in Doing("refresh") /\ job[q].login = f
Between(q)      == stage[q] \in {"caps", "issue"}    \* the old session ended, no new one yet

(* A request that has opened no session: no session is of its login.       *)
Fresh(f) == f \in Req /\ (stage[f] = "new" \/ job[f].op \in {"login", "impersonate"})
FreshIsNew ==
  \A f \in Req :
    /\ Fresh(f) =>
         f \notin ended /\ \A s \in SessionId, q \in Req : ~Works(s, f) /\ ~Refreshes(q, f)
    /\ job[f].op \in {"login", "impersonate"} => job[f].login = f

OneWorks(f) ==
  /\ \A s, t \in SessionId : Works(s, f) /\ Works(t, f) => s = t
  /\ \A p, q \in Req : Refreshes(p, f) /\ Refreshes(q, f) => p = q
  /\ f \in ended => (\A s \in SessionId : ~Works(s, f)) /\ \A q \in Req : ~Refreshes(q, f)
  /\ \A s \in SessionId, q \in Req :
       Refreshes(q, f) /\ Works(s, f) => ~Between(q) /\ s = job[q].session
SessionsApart == FreshIsNew /\ \A f \in SessionId \ slipped : OneWorks(f)

(* Nobody begins a refresh or a login, and no session begins: what there   *)
(* is less of stays apart.                                                 *)
LessRefreshes ==
  \A q \in Req :
    /\ Fresh(q)' => Fresh(q)
    /\ job'[q].op \in {"login", "impersonate"} => job'[q].login = q
    /\ job'[q].op = "refresh" =>
         /\ job[q].op = "refresh" /\ job'[q].login = job[q].login
         /\ job'[q].session = job[q].session /\ (Between(q)' => Between(q))
LessSessions ==
  /\ slipped \subseteq slipped'
  /\ \A f : \A s \in SessionId : Works(s, f)' => Works(s, f)

LEMMA LessIsApart ==
  ASSUME SessionsApart, LessRefreshes, LessSessions,
         \A f \in ended' : f \in ended \/ (~Fresh(f) /\ (f \notin slipped' =>
             (\A s \in SessionId : ~Works(s, f)') /\ \A q \in Req : ~Refreshes(q, f)))
  PROVE  SessionsApart'
<1>1. \A f : \A q \in Req : Refreshes(q, f)' => Refreshes(q, f)
  BY DEF LessRefreshes, Refreshes, Doing
<1>2. \A f : \A s \in SessionId : Works(s, f)' => Works(s, f)
  BY DEF LessSessions
<1>3. FreshIsNew'
  BY <1>1, <1>2 DEF SessionsApart, FreshIsNew, LessRefreshes
<1>4. ASSUME NEW f \in SessionId \ slipped' PROVE OneWorks(f)'
  <2>1. OneWorks(f)
    BY DEF SessionsApart, LessSessions
  <2>2. f \in ended' => (\A s \in SessionId : ~Works(s, f)') /\ \A q \in Req : ~Refreshes(q, f)
    BY <1>2, <2>1 DEF OneWorks
  <2>3. \A q \in Req : Refreshes(q, f)' =>
          job'[q].session = job[q].session /\ (Between(q)' => Between(q))
    BY DEF LessRefreshes, Refreshes, Doing
  <2> QED BY <1>1, <1>2, <2>1, <2>2, <2>3 DEF OneWorks
<1> QED BY <1>3, <1>4 DEF SessionsApart

(* The requests of the other statements begin nothing.                     *)
LEMMA AsideRefreshes ==
  ASSUME SessionsApart, Aside(SignInOps) PROVE LessRefreshes
<1>1. ASSUME NEW q \in Req, job'[q].op \in SignInOps
      PROVE  job'[q] = job[q] /\ stage'[q] = stage[q]
  BY <1>1 DEF Aside
<1>2. \A q \in Req : stage'[q] = "new" => stage[q] = "new"
  BY DEF Aside
<1> QED
  BY <1>1, <1>2 DEF LessRefreshes, Fresh, Between, SessionsApart, FreshIsNew, SignInOps

LEMMA NothingEnded ==
  ASSUME SessionsApart, LessRefreshes, LessSessions, UNCHANGED ended PROVE SessionsApart'
  BY LessIsApart

LEMMA SameSessions == ASSUME UNCHANGED <<session, slipped>> PROVE LessSessions
  BY DEF LessSessions, Works, LiveSession

LEMMA EndsSomeIsApart ==
  ASSUME SessionsApart, AccountsTyped, LessRefreshes, EndsSome PROVE SessionsApart'
<1>1. PICK S \in SUBSET LiveSession : EndSessions(S)
  BY DEF EndsSome
<1>2. ASSUME NEW s \in SessionId
      PROVE  /\ s \in S => session'[s].revoked
             /\ s \notin S => session'[s] = session[s]
  <2>1. CASE s \in S
    <3>1. PICK old \in SessionRow : old = session[s] /\ session[s] # None
      BY <2>1 DEF LiveSession, AccountsTyped, SessionsTyped, Opened
    <3>2. session'[s] = [old EXCEPT !.revoked = TRUE]
      BY <1>1, <2>1, <3>1 DEF EndSessions
    <3> QED BY <2>1, <3>1, <3>2, RevokedRow
  <2>2. CASE s \notin S
    BY <1>1, <2>2 DEF EndSessions
  <2> QED BY <2>1, <2>2
<1>3. slipped \subseteq slipped' /\ ended' = ended \cup Family(S)
  BY <1>1 DEF EndSessions
<1>4. LessSessions
  BY <1>2, <1>3 DEF LessSessions, Works, LiveSession
<1>5. ASSUME NEW f \in Family(S)
      PROVE  ~Fresh(f) /\ (f \notin slipped' =>
               (\A s \in SessionId : ~Works(s, f)') /\ \A q \in Req : ~Refreshes(q, f))
  <2>1. PICK t \in S : f = session[t].login /\ t \in LiveSession /\ t \in SessionId
    BY DEF Family, LiveSession
  <2>2. ~Fresh(f)
    BY <2>1 DEF SessionsApart, FreshIsNew, Fresh, Works
  <2>3. ASSUME f \notin slipped', NEW q \in Req PROVE ~Refreshes(q, f)
    BY <1>1, <2>3 DEF EndSessions, Refreshes
  <2>4. ASSUME f \notin slipped', NEW s \in SessionId, Works(s, f)' PROVE FALSE
    <3>1. s \notin S /\ Works(s, f) /\ Works(t, f)
      BY <1>2, <2>1, <2>4 DEF Works, LiveSession
    <3>2. f \in SessionId \ slipped
      BY <1>3, <2>1, <2>4 DEF LiveSession, AccountsTyped, SessionsTyped, Opened, SessionRow
    <3>3. s = t
      BY <2>1, <3>1, <3>2 DEF SessionsApart, OneWorks
    <3> QED BY <3>1, <3>3
  <2> QED BY <2>2, <2>3, <2>4
<1> QED BY <1>3, <1>4, <1>5, LessIsApart

LEMMA GoesOnRefreshing ==
  ASSUME Tagged, SessionsApart, NEW r \in Req, NEW s, NEW j, Goto(r, s, j), s # "new",
         j.op \in {"login", "impersonate"} => j.login = r /\ Fresh(r),
         j.op = "refresh" => /\ job[r].op = "refresh" /\ j.login = job[r].login
                             /\ j.session = job[r].session
                             /\ s \in {"caps", "issue"} => Between(r)
  PROVE  LessRefreshes
<1>1. \A q \in Req : /\ stage'[q] = IF q = r THEN s ELSE stage[q]
                     /\ job'[q] = IF q = r THEN j ELSE job[q]
  BY Then
<1>2. \A q \in Req : Fresh(q)' => Fresh(q)
  BY <1>1 DEF Fresh
<1>3. \A q \in Req : job'[q].op \in {"login", "impersonate"} => job'[q].login = q
  BY <1>1 DEF SessionsApart, FreshIsNew
<1>4. \A q \in Req : job'[q].op = "refresh" =>
         /\ job[q].op = "refresh" /\ job'[q].login = job[q].login
         /\ job'[q].session = job[q].session /\ (Between(q)' => Between(q))
  BY <1>1 DEF Between
<1> QED BY <1>2, <1>3, <1>4 DEF LessRefreshes

LEMMA OpensFresh ==
  ASSUME Tagged, AccountsTyped, SessionsApart, NEW r \in Req, stage[r] = "new",
         NEW op \in {"login", "impersonate"}, NEW u \in LiveUsers,
         Goto(r, "overrides", SignsIn(op, u, r, None, user[u]))
  PROVE  LessRefreshes
<1>1. HasRow(u) /\ u \in UserId
  BY LiveHasRow DEF AccountsTyped, LiveUsers
<1>2. PICK seen \in UserRow : seen = user[u]
  BY <1>1 DEF HasRow
<1>3. PICK j : j = SignsIn(op, u, r, None, seen) /\ j.op = op /\ j.login = r
  BY <1>1, SignInJobIs DEF SignInOps, SessionId
<1>4. Goto(r, "overrides", j)
  BY <1>2, <1>3
<1> QED BY <1>3, <1>4, GoesOnRefreshing DEF Fresh

LEMMA SignInJobKeeps ==
  ASSUME NEW old \in SignInJob, NEW x
  PROVE  /\ [old EXCEPT !.seen = x].op = old.op /\ [old EXCEPT !.seen = x].login = old.login
         /\ [old EXCEPT !.seen = x].session = old.session
         /\ [old EXCEPT !.overrides = x].op = old.op
         /\ [old EXCEPT !.overrides = x].login = old.login
         /\ [old EXCEPT !.overrides = x].session = old.session
         /\ [old EXCEPT !.caps = x].op = old.op /\ [old EXCEPT !.caps = x].login = old.login
         /\ [old EXCEPT !.caps = x].session = old.session
  BY DEF SignInJob

LEMMA SigningInRefreshes ==
  ASSUME Tagged, AccountsTyped, SessionsApart, NEW r \in Req, SigningIn(r),
         ~FindSession(r), ~RevokeOld(r), ~IssueTokens(r)
  PROVE  LessRefreshes
<1>1. ASSUME stage[r] \in {"user", "overrides", "caps"}
      PROVE  /\ job[r] \in SignInJob
             /\ job[r].op \in {"login", "impersonate"} => job[r].login = r /\ Fresh(r)
             /\ stage[r] = "user" => job[r].op = "refresh"
  <2>1. AccountsTag(job[r].op, stage[r])
    BY <1>1, StageTells
  <2>2. job[r].op \in SignInOps /\ (stage[r] = "user" => job[r].op = "refresh")
    BY <1>1, <2>1 DEF AccountsTag, SignInOps
  <2>3. job[r].op \in {"login", "impersonate"} => job[r].login = r /\ Fresh(r)
    BY DEF SessionsApart, FreshIsNew, Fresh
  <2> QED BY <2>2, <2>3 DEF AccountsTyped, JobsTyped, JobTyped
<1>2. CASE Login(r)
  BY <1>2, OpensFresh DEF Login, Starts
<1>3. CASE Impersonate(r)
  BY <1>3, OpensFresh DEF Impersonate, Starts
<1>4. CASE ReadSessionUser(r)
  <2>1. PICK old \in SignInJob : old = job[r] /\ old.op = "refresh"
    BY <1>1, <1>4 DEF ReadSessionUser
  <2>2. PICK j : /\ j = [old EXCEPT !.seen = user[old.on]] /\ j.op = old.op
                 /\ j.login = old.login /\ j.session = old.session
    BY SignInJobKeeps
  <2>3. Goto(r, "overrides", j)
    BY <1>4, <2>1, <2>2 DEF ReadSessionUser
  <2> QED BY <2>1, <2>2, <2>3, GoesOnRefreshing
<1>5. CASE ReadOverrides(r)
  <2>1. PICK old \in SignInJob :
          /\ old = job[r]
          /\ old.op \in {"login", "impersonate"} => old.login = r /\ Fresh(r)
    BY <1>1, <1>5 DEF ReadOverrides
  <2>2. PICK j : /\ j = [old EXCEPT !.overrides = override[old.on]] /\ j.op = old.op
                 /\ j.login = old.login /\ j.session = old.session
    BY SignInJobKeeps
  <2>3. PICK s : s = (IF old.op = "refresh" THEN "rotate" ELSE "caps") /\ s # "new"
    OBVIOUS
  <2>4. Goto(r, s, j)
    BY <1>5, <2>1, <2>2, <2>3 DEF ReadOverrides
  <2> QED BY <2>1, <2>2, <2>3, <2>4, GoesOnRefreshing
<1>6. CASE ReadRoleCaps(r)
  <2>1. PICK old \in SignInJob :
          /\ old = job[r]
          /\ old.op \in {"login", "impersonate"} => old.login = r /\ Fresh(r)
    BY <1>1, <1>6 DEF ReadRoleCaps
  <2>2. PICK j : /\ j = [old EXCEPT !.caps = EffectiveCaps(old.seen.role)] /\ j.op = old.op
                 /\ j.login = old.login /\ j.session = old.session
    BY SignInJobKeeps
  <2>3. Goto(r, "issue", j) /\ Between(r)
    BY <1>6, <2>1, <2>2 DEF ReadRoleCaps, Between
  <2> QED BY <2>1, <2>2, <2>3, GoesOnRefreshing
<1> QED BY <1>2, <1>3, <1>4, <1>5, <1>6 DEF SigningIn

(* A refresh begins: its session works, so no other refresh has taken it.  *)
LEMMA FindSessionIsApart ==
  ASSUME Tagged, AccountsTyped, SessionsApart, NEW r \in Req, FindSession(r),
         UNCHANGED <<session, ended>>
  PROVE  SessionsApart'
<1>1. PICK s \in LiveSession :
        /\ Goto(r, "user", SignsIn("refresh", session[s].user, session[s].login, s, None))
        /\ slipped' = IF \E q \in Doing("refresh") : job[q].login = session[s].login
                      THEN slipped \cup {session[s].login} ELSE slipped
  BY DEF FindSession, Refreshable
<1>2. Opened(s) /\ s \in SessionId /\ session[s] # None
  BY DEF LiveSession, AccountsTyped, SessionsTyped
<1>3. PICK u \in UserId, f \in SessionId : u = session[s].user /\ f = session[s].login
  BY <1>2 DEF Opened, SessionRow
<1>4. PICK j : /\ j = SignsIn("refresh", u, f, s, None)
               /\ j.op = "refresh" /\ j.login = f /\ j.session = s
  BY <1>2, <1>3, SignInJobIs DEF SignInOps
<1>5. Goto(r, "user", j)
  BY <1>1, <1>3, <1>4
<1>6. \A q \in Req : /\ stage'[q] = IF q = r THEN "user" ELSE stage[q]
                     /\ job'[q] = IF q = r THEN j ELSE job[q]
  BY <1>5, Then
<1>7. Works(s, f)
  BY <1>3 DEF Works
<1>8. ~Fresh(f)
  BY <1>2, <1>7 DEF SessionsApart, FreshIsNew, Fresh
<1>9. stage[r] = "new" /\ Fresh(r)
  BY DEF FindSession, Starts, Fresh
<1>10. job[r].op # "refresh"
  BY <1>9, StageTells
<1>11. \A g : \A q \in Req : Refreshes(q, g)' <=> IF q = r THEN g = f ELSE Refreshes(q, g)
  BY <1>4, <1>6 DEF Refreshes, Doing
<1>12. \A g : \A t \in SessionId : Works(t, g)' <=> Works(t, g)
  BY DEF Works, LiveSession
<1>13. \A q \in Req : Fresh(q)' => Fresh(q) /\ q # r
  BY <1>4, <1>6 DEF Fresh
<1>14. FreshIsNew'
  <2>1. ASSUME NEW g \in Req, Fresh(g)'
        PROVE  /\ g \notin ended'
               /\ \A t \in SessionId, q \in Req : ~Works(t, g)' /\ ~Refreshes(q, g)'
    BY <1>8, <1>11, <1>12, <1>13, <2>1 DEF SessionsApart, FreshIsNew
  <2>2. ASSUME NEW g \in Req, job'[g].op \in {"login", "impersonate"} PROVE job'[g].login = g
    BY <1>4, <1>6, <2>2 DEF SessionsApart, FreshIsNew
  <2> QED BY <2>1, <2>2 DEF FreshIsNew
<1>15. ASSUME NEW g \in SessionId \ slipped' PROVE OneWorks(g)'
  <2>1. OneWorks(g)
    BY <1>1 DEF SessionsApart
  <2>2. CASE g # f
    <3>1. \A q \in Req : Refreshes(q, g)' => Refreshes(q, g) /\ q # r
      BY <1>11, <2>2
    <3>2. \A q \in Req : Refreshes(q, g)' => Between(q)' = Between(q) /\ job'[q] = job[q]
      BY <1>6, <3>1 DEF Between
    <3> QED BY <1>12, <2>1, <3>1, <3>2 DEF OneWorks
  <2>3. CASE g = f
    <3>1. \A q \in Req : ~Refreshes(q, f)
      BY <1>1, <1>3, <2>3 DEF Refreshes
    <3>2. \A q \in Req : Refreshes(q, f)' => q = r
      BY <1>11, <3>1
    <3>3. ~Between(r)' /\ job'[r].session = s
      BY <1>4, <1>6 DEF Between
    <3>4. f \notin ended'
      BY <1>2, <1>7, <2>1, <2>3 DEF OneWorks
    <3> QED BY <1>2, <1>7, <1>12, <2>1, <2>3, <3>2, <3>3, <3>4 DEF OneWorks
  <2> QED BY <2>2, <2>3
<1> QED BY <1>14, <1>15 DEF SessionsApart

(* The old session ends: it was the only one of its login that worked.     *)
LEMMA RevokeOldIsApart ==
  ASSUME Tagged, AccountsTyped, SessionsApart, NEW r \in Req, RevokeOld(r),
         UNCHANGED <<ended, slipped>>
  PROVE  SessionsApart'
<1>1. stage[r] = "rotate" /\ job[r].op = "refresh"
  BY StageTells DEF RevokeOld, AccountsTag
<1>2. PICK j \in SignInJob : j = job[r] /\ j.op = "refresh" /\ Opened(j.session)
  BY <1>1 DEF AccountsTyped, JobsTyped, JobTyped, SignInOps
<1>3. Goto(r, "caps", j)
  BY <1>2 DEF RevokeOld
<1>4. \A q \in Req : stage'[q] = (IF q = r THEN "caps" ELSE stage[q]) /\ job'[q] = job[q]
  BY <1>2, <1>3, Then
<1>5. PICK s \in SessionId, old \in SessionRow : s = j.session /\ old = session[s]
  BY <1>2 DEF Opened
<1>6. PICK new \in SessionRow : /\ new = [old EXCEPT !.revoked = TRUE]
                                /\ new.login = old.login /\ new.revoked
  BY RevokedRow
<1>7. session' = [session EXCEPT ![s] = new]
  BY <1>2, <1>5, <1>6 DEF RevokeOld, Rotated
<1>8. \A t \in SessionId : session'[t] = IF t = s THEN new ELSE session[t]
  BY <1>7 DEF AccountsTyped, SessionsTyped
<1>10. \A g : \A t \in SessionId : Works(t, g)' <=> t # s /\ Works(t, g)
  BY <1>6, <1>8 DEF Works, LiveSession
<1>11. \A g : \A q \in Req : Refreshes(q, g)' <=> Refreshes(q, g)
  BY <1>4 DEF Refreshes, Doing
<1>12. \A q \in Req : Fresh(q)' => Fresh(q)
  BY <1>4 DEF Fresh
<1>13. FreshIsNew'
  <2>1. \A q \in Req : job'[q].op \in {"login", "impersonate"} => job'[q].login = q
    BY <1>4 DEF SessionsApart, FreshIsNew
  <2> QED BY <1>10, <1>11, <1>12, <2>1 DEF SessionsApart, FreshIsNew
<1>14. ASSUME NEW g \in SessionId \ slipped' PROVE OneWorks(g)'
  <2>1. OneWorks(g)
    BY DEF SessionsApart
  <2>2. \A q \in Req \ {r} : Between(q)' = Between(q)
    BY <1>4 DEF Between
  <2>3. ASSUME NEW q \in Req, NEW t \in SessionId, Refreshes(q, g), Works(t, g), t # s
        PROVE  q # r
    BY <1>2, <1>5, <2>1, <2>3 DEF OneWorks
  <2> QED BY <1>4, <1>10, <1>11, <2>1, <2>2, <2>3 DEF OneWorks
<1> QED BY <1>13, <1>14 DEF SessionsApart

(* The new session begins: the login had none that worked.                 *)
LEMMA IssueTokensIsApart ==
  ASSUME Tagged, AccountsTyped, SessionsApart, NEW r \in Req, IssueTokens(r),
         UNCHANGED <<ended, slipped>>
  PROVE  SessionsApart'
<1>1. stage[r] = "issue" /\ job[r].op \in SignInOps
  BY StageTells DEF IssueTokens, AccountsTag, SignInOps
<1>2. PICK j \in SignInJob : j = job[r] /\ j.op = job[r].op
  BY <1>1 DEF AccountsTyped, JobsTyped, JobTyped
<1>3. \A q \in Req : /\ stage'[q] = IF q = r THEN "done" ELSE stage[q]
                     /\ job'[q] = IF q = r THEN Idle ELSE job[q]
  BY ThenEnds DEF IssueTokens
<1>4. LessRefreshes
  <2>1. \A q \in Req : Fresh(q)' => Fresh(q) /\ q # r
    BY <1>3, IdleIsNone DEF Fresh
  <2> QED BY <1>3, <2>1, IdleIsNone DEF LessRefreshes, Between, SessionsApart, FreshIsNew
<1>5. CASE job[r].op = "impersonate"
  <2>1. UNCHANGED session
    BY <1>5 DEF IssueTokens
  <2> QED BY <1>4, <2>1, SameSessions, NothingEnded
<1>6. CASE job[r].op # "impersonate"
  <2>1. PICK f \in SessionId, u \in UserId : f = job[r].login /\ u = job[r].on
    BY <1>2 DEF SignInJob
  <2>2. PICK new \in SessionRow : new = NewSession(u, f) /\ new.login = f
    <3>1. NewSession(u, f) \in SessionRow /\ NewSession(u, f).login = f
      BY DEF NewSession, SessionRow
    <3> QED BY <3>1
  <2>3. session' = [session EXCEPT ![r] = new]
    BY <1>6, <2>1, <2>2 DEF IssueTokens
  <2>4. \A t \in SessionId : session'[t] = IF t = r THEN new ELSE session[t]
    BY <2>3 DEF AccountsTyped, SessionsTyped
  <2>5. \A g : \A t \in SessionId :
          Works(t, g)' => (t = r /\ g = f) \/ (t # r /\ Works(t, g))
    BY <2>2, <2>4 DEF Works, LiveSession
  <2>6. \A q \in Req : Fresh(q)' => Fresh(q) /\ q # r
    BY <1>3, IdleIsNone DEF Fresh
  <2>7. \A g : \A q \in Req : Refreshes(q, g)' => q # r /\ Refreshes(q, g)
    BY <1>3, IdleIsNone DEF Refreshes, Doing
  <2>8. \/ f = r /\ Fresh(r) /\ f \in Req
        \/ Refreshes(r, f) /\ Between(r)
    BY <1>1, <2>1 DEF SignInOps, SessionsApart, FreshIsNew, Fresh, Refreshes, Doing, Between
  <2>9. ~(Fresh(f) /\ f # r)
    BY <2>8 DEF SessionsApart, FreshIsNew, Fresh, SessionId
  <2>10. FreshIsNew'
    <3>1. ASSUME NEW g \in Req, Fresh(g)'
          PROVE  /\ g \notin ended'
                 /\ \A t \in SessionId, q \in Req : ~Works(t, g)' /\ ~Refreshes(q, g)'
      BY <2>5, <2>6, <2>7, <2>9, <3>1 DEF SessionsApart, FreshIsNew
    <3> QED BY <1>4, <3>1 DEF FreshIsNew, LessRefreshes
  <2>11. ASSUME NEW g \in SessionId \ slipped' PROVE OneWorks(g)'
    <3>1. OneWorks(g)
      BY DEF SessionsApart
    <3>2. \A q \in Req \ {r} : Between(q)' = Between(q) /\ job'[q] = job[q]
      BY <1>3 DEF Between
    <3>3. CASE g # f
      BY <2>5, <2>7, <3>1, <3>2, <3>3 DEF OneWorks
    <3>4. CASE g = f
      <4>1. /\ f \notin ended
            /\ \A t \in SessionId : ~Works(t, f)
            /\ \A q \in Req : Refreshes(q, f) => q = r
        <5>1. CASE f = r /\ Fresh(r)
          BY <5>1 DEF SessionsApart, FreshIsNew, Works, LiveSession
        <5>2. CASE Refreshes(r, f) /\ Between(r)
          BY <3>1, <3>4, <5>2 DEF OneWorks
        <5> QED BY <2>8, <5>1, <5>2
      <4> QED BY <2>5, <2>7, <3>4, <4>1 DEF OneWorks
    <3> QED BY <3>3, <3>4
  <2> QED BY <2>10, <2>11 DEF SessionsApart
<1> QED BY <1>5, <1>6

LEMMA StatementIsApart ==
  ASSUME Tagged, AccountsTyped, SessionsApart, NEW r \in Req, AccountStatement(r)
  PROVE  SessionsApart'
<1>1. SessionChange(r)
  BY AccountsSessionChange DEF AccountStatement
<1>2. CASE FindSession(r) \/ RevokeOld(r) \/ IssueTokens(r)
  BY <1>2, FindSessionIsApart, RevokeOldIsApart, IssueTokensIsApart
    DEF FindSession, RevokeOld, IssueTokens, accounts, witnesses
<1>3. CASE ~FindSession(r) /\ ~RevokeOld(r) /\ ~IssueTokens(r)
  <2>1. ASSUME SigningIn(r) PROVE LessRefreshes
    BY <1>3, <2>1, SigningInRefreshes
  <2>2. ASSUME Outdating(r) \/ Editing(r) PROVE LessRefreshes
    <3>1. Aside(SignInOps)
      BY <2>2, ResetMoves, EditMoves, StandsAside DEF SignInOps, ResetOps, EditOps
    <3> QED BY <3>1, AsideRefreshes
  <2>3. LessRefreshes
    BY <2>1, <2>2 DEF AccountStatement
  <2>4. EndsSome \/ UNCHANGED <<session, ended, slipped>>
    BY <1>1, <1>3 DEF SessionChange
  <2> QED BY <2>3, <2>4, EndsSomeIsApart, SameSessions, NothingEnded
<1> QED BY <1>2, <1>3

(* A login that was ended has no session that works, and a login has one   *)
(* session at most, for any number of logins, refreshes, logouts and       *)
(* resets at once; except for the logins whose refresh was overtaken.      *)
THEOREM EndedSessionsStayEnded == Spec => []EndedStaysEnded
<1>1. Init => SessionsApart
  <2>1. ASSUME Init
        PROVE  /\ stage = [r \in Req |-> "new"] /\ job = [r \in Req |-> Idle] /\ AccountsInit
    BY <2>1 DEF Init, RequestsInit
  <2> QED
    BY <2>1, AccountsAssumption, IdleIsNone DEF AccountsInit, SessionsApart, FreshIsNew, OneWorks,
      Works, Refreshes, Doing, LiveSession, SessionId, NewSession
<1>2. Tagged /\ AccountsTyped /\ SessionsApart /\ [Next]_all => SessionsApart'
  <2>1. ASSUME Tagged, AccountsTyped, SessionsApart, UNCHANGED <<accounts, witnesses>>,
               Aside(SignInOps \cup ResetOps \cup EditOps)
        PROVE  SessionsApart'
    <3>1. LessRefreshes
      BY <2>1, AsideOfLess, AsideRefreshes
    <3> QED BY <2>1, <3>1, SameSessions, NothingEnded DEF accounts, witnesses
  <2> QED BY <2>1, AccountsCases, StatementIsApart
<1>3. AccountsTyped /\ SessionsApart => EndedStaysEnded
  <2>1. ASSUME AccountsTyped, NEW s \in LiveSession
        PROVE  s \in SessionId /\ session[s].login \in SessionId
    BY <2>1 DEF AccountsTyped, SessionsTyped, LiveSession, Opened, SessionRow
  <2>2. ASSUME AccountsTyped, SessionsApart, NEW s \in LiveSession,
               session[s].login \in ended \ slipped
        PROVE  FALSE
    <3>1. Works(s, session[s].login) /\ OneWorks(session[s].login)
      BY <2>1, <2>2 DEF Works, SessionsApart
    <3> QED BY <2>1, <2>2, <3>1 DEF OneWorks
  <2>3. ASSUME AccountsTyped, SessionsApart, NEW s \in LiveSession, NEW t \in LiveSession,
               session[s].login = session[t].login, session[s].login \notin slipped
        PROVE  s = t
    <3>1. OneWorks(session[s].login)
      BY <2>1, <2>3 DEF SessionsApart
    <3>2. Works(s, session[s].login) /\ Works(t, session[s].login)
      BY <2>3 DEF Works
    <3> QED BY <2>1, <2>3, <3>1, <3>2 DEF OneWorks
  <2> QED BY <2>2, <2>3 DEF EndedStaysEnded, Family
<1> QED BY <1>1, <1>2, <1>3, EveryRequestIsTagged, AccountsAreTyped, PTL DEF Spec
-----------------------------------------------------------------------------
(***************************************************************************)
(* Rights.  What a token says, or a request that will issue one has read,  *)
(* is what is there now, as long as the user has the version it was read   *)
(* with: whatever writes the rights of a user raises the version first.    *)
(***************************************************************************)
Current(u, ver) == u \in LiveUsers \ moved /\ ver = user[u].ver
ReadTrue(s, j) ==
  /\ j.seen.ver <= user[j.on].ver
  /\ Current(j.on, j.seen.ver) =>
       /\ j.seen.role = user[j.on].role
       /\ s \in {"rotate", "caps", "issue"} => j.overrides = override[j.on]
       /\ s = "issue" => j.caps = EffectiveCaps(j.seen.role)
TokenTrue(t) ==
  /\ HasRow(t.user) /\ t.ver \in Nat /\ t.ver <= user[t.user].ver
  /\ Current(t.user, t.ver) =>
       /\ t.role = user[t.user].role /\ t.overrides = override[t.user]
       /\ t.caps = EffectiveCaps(t.role)
RightsTrue ==
  /\ \A r \in Req : job[r].op \in SignInOps /\ stage[r] # "user" => ReadTrue(stage[r], job[r])
  /\ \A t \in tokens : TokenTrue(t)

(* A step leaves the rights of a user alone, or its version tells.         *)
Kept(u) ==
  /\ user[u].ver \in Nat /\ user'[u].ver \in Nat /\ user'[u].ver >= user[u].ver
  /\ u \in LiveUsers' \ moved' /\ user'[u].ver = user[u].ver =>
       /\ u \in LiveUsers \ moved /\ user'[u].role = user[u].role
       /\ override'[u] = override[u]
       /\ EffectiveCaps(user[u].role)' = EffectiveCaps(user[u].role)

LEMMA CapsFollowGrant ==
  ASSUME NEW role \in Role, role = "owner" \/ grant'[role] = grant[role]
  PROVE  EffectiveCaps(role)' = EffectiveCaps(role)
  BY DEF EffectiveCaps

LEMMA UsersAreKept ==
  ASSUME AccountsTyped, NEW r \in Req, UserChange(r), NEW u \in UserId, HasRow(u)
  PROVE  Kept(u)
<1>1. PICK old \in UserRow : old = user[u] /\ old # None /\ old.ver \in Nat /\ old.role \in Role
  BY AccountsAssumption DEF HasRow, UserRow
<1>2. ASSUME UNCHANGED <<user, rights, moved>> PROVE Kept(u)
  <2>1. EffectiveCaps(old.role)' = EffectiveCaps(old.role)
    BY <1>1, <1>2, CapsFollowGrant DEF rights
  <2> QED BY <1>1, <1>2, <2>1 DEF rights, Kept, LiveUsers
<1>3. ASSUME NEW v \in UserId, NEW rw \in UserRow, Rewrites(r, v, rw) PROVE Kept(u)
  <2>1. \A w \in UserId : user'[w] = IF w = v THEN rw ELSE user[w]
    BY <1>3 DEF Rewrites, Write, AccountsTyped, UsersTyped
  <2>2. moved' = IF user[v] # None /\ user[v].role # rw.role THEN moved \cup {v} ELSE moved
    BY <1>3 DEF Rewrites, Write
  <2>3. EffectiveCaps(old.role)' = EffectiveCaps(old.role)
    BY <1>1, <1>3, CapsFollowGrant DEF Rewrites
  <2>4. CASE u # v
    <3>1. override'[u] = override[u]
      BY <1>3, <2>4 DEF Rewrites
    <3>2. user'[u] = user[u]
      BY <2>1, <2>4
    <3> QED BY <1>1, <2>2, <2>3, <2>4, <3>1, <3>2 DEF Kept, LiveUsers
  <2>5. CASE u = v
    <3>1. user'[u] = rw /\ rw.ver \in Nat
      BY <2>1, <2>5 DEF UserRow
    <3>2. CASE rw.ver > old.ver
      BY <1>1, <3>1, <3>2 DEF Kept
    <3>3. CASE rw.ver = old.ver /\ rw.deleted = old.deleted /\ UNCHANGED override
      <4>1. u \in LiveUsers' \ moved' => u \in LiveUsers \ moved /\ rw.role = old.role
        BY <1>1, <2>2, <2>5, <3>1, <3>3 DEF LiveUsers
      <4> QED BY <1>1, <2>3, <3>1, <3>3, <4>1 DEF Kept
    <3>4. ~(u = r /\ stage[r] = "new")
      BY DEF HasRow
    <3> QED BY <1>1, <1>3, <2>5, <3>2, <3>3, <3>4 DEF Rewrites
  <2> QED BY <2>4, <2>5
<1>4. ASSUME NEW role \in Role \ {"owner"}, NEW seen, Bumps(role, seen) PROVE Kept(u)
  <2>1. user'[u] = IF u \in seen \cap LiveUsers /\ old.role = role THEN Outdated(old) ELSE old
    BY <1>1, <1>4 DEF Bumps, BumpRole
  <2>2. moved' = moved \cup Overlooked(role, seen) /\ override' = override
    BY <1>4 DEF Bumps
  <2>6. CASE u \in LiveUsers /\ old.role = role /\ u \notin seen
    <3>1. u \in moved'
      BY <1>1, <2>2, <2>6 DEF Overlooked
    <3>2. user'[u] = old
      BY <2>1, <2>6
    <3> QED BY <1>1, <3>1, <3>2 DEF Kept
  <2>3. CASE u \in LiveUsers /\ old.role = role /\ u \in seen
    <3>1. user'[u].ver = old.ver + 1
      BY <1>1, <2>1, <2>3, OutdatedRow
    <3> QED BY <1>1, <3>1 DEF Kept
  <2>4. CASE u \in LiveUsers /\ old.role # role
    <3>1. EffectiveCaps(old.role)' = EffectiveCaps(old.role)
      BY <1>1, <1>4, <2>4, CapsFollowGrant DEF Bumps
    <3> QED BY <1>1, <2>1, <2>2, <2>4, <3>1 DEF Kept
  <2>5. CASE u \notin LiveUsers
    <3>1. u \notin LiveUsers'
      BY <1>1, <2>1, <2>5 DEF LiveUsers
    <3> QED BY <1>1, <2>1, <2>5, <3>1 DEF Kept
  <2> QED BY <2>3, <2>4, <2>5, <2>6
<1> QED BY <1>2, <1>3, <1>4 DEF UserChange

(* So what was current with a version it still has is current.             *)
LEMMA StaysCurrent ==
  ASSUME NEW u \in UserId, Kept(u), NEW ver \in Nat, ver <= user[u].ver
  PROVE  /\ ver <= user'[u].ver
         /\ Current(u, ver)' =>
              /\ Current(u, ver) /\ user'[u].role = user[u].role
              /\ override'[u] = override[u]
              /\ EffectiveCaps(user[u].role)' = EffectiveCaps(user[u].role)
<1>1. ver <= user'[u].ver
  BY DEF Kept
<1>2. ASSUME Current(u, ver)' PROVE user'[u].ver = user[u].ver /\ ver = user[u].ver
  BY <1>2 DEF Kept, Current
<1> QED BY <1>1, <1>2 DEF Kept, Current

LEMMA TokensStayTrue ==
  ASSUME NEW t, TokenTrue(t), Kept(t.user), HasRow(t.user)' PROVE TokenTrue(t)'
<1>1. t.user \in UserId
  BY DEF TokenTrue, HasRow
<1> QED BY <1>1, StaysCurrent DEF TokenTrue

LEMMA ReadsStayTrue ==
  ASSUME NEW s, NEW j, ReadTrue(s, j), j.on \in UserId, j.seen.ver \in Nat, Kept(j.on)
  PROVE  ReadTrue(s, j)'
  BY StaysCurrent DEF ReadTrue

(* A statement of a sign-in reads what is there.                           *)
LEMMA SigningInReads ==
  ASSUME Tagged, AccountsTyped, RightsTrue, NEW r \in Req, SigningIn(r),
         job'[r].op \in SignInOps, stage'[r] # "user"
  PROVE  ReadTrue(stage[r], job[r])'
<1>1. UNCHANGED <<user, grant, override, moved>>
  BY SigningInChange DEF rights
<1>2. \A u, ver : Current(u, ver)' = Current(u, ver)
  BY <1>1 DEF Current, LiveUsers
<1>3. \A role : EffectiveCaps(role)' = EffectiveCaps(role)
  BY <1>1 DEF EffectiveCaps
<1>4. ASSUME NEW s, NEW j, Goto(r, s, j), ReadTrue(s, j) PROVE ReadTrue(stage[r], job[r])'
  <2>1. ReadTrue(s, j)'
    BY <1>1, <1>2, <1>3, <1>4 DEF ReadTrue
  <2>2. stage'[r] = s /\ job'[r] = j
    BY <1>4, Then
  <2> QED BY <2>1, <2>2
<1>5. ASSUME stage[r] \in {"user", "overrides", "rotate", "caps"}
      PROVE  /\ job[r] \in SignInJob /\ HasRow(job[r].on)
             /\ stage[r] # "user" => ReadTrue(stage[r], job[r])
  <2>1. job[r].op \in SignInOps
    BY <1>5, StageTells DEF AccountsTag, SignInOps
  <2> QED BY <2>1 DEF AccountsTyped, JobsTyped, JobTyped, RightsTrue
<1>6. ASSUME NEW op \in SignInOps, NEW u \in LiveUsers,
             Goto(r, "overrides", SignsIn(op, u, r, None, user[u]))
      PROVE  ReadTrue(stage[r], job[r])'
  <2>1. HasRow(u) /\ u \in UserId
    BY LiveHasRow DEF AccountsTyped, LiveUsers
  <2>2. PICK seen \in UserRow : seen = user[u] /\ seen.ver \in Nat
    BY <2>1 DEF HasRow, UserRow
  <2>3. PICK j : j = SignsIn(op, u, r, None, seen) /\ j.on = u /\ j.seen = seen
    BY <2>1, SignInJobIs DEF SessionId
  <2>4. Goto(r, "overrides", j)
    BY <1>6, <2>2, <2>3
  <2>5. ReadTrue("overrides", j)
    BY <2>2, <2>3 DEF ReadTrue
  <2> QED BY <1>4, <2>4, <2>5
<1>7. CASE Login(r) \/ Impersonate(r)
  BY <1>6, <1>7 DEF Login, Impersonate, SignInOps
<1>8. CASE FindSession(r)
  <2>1. \E j : Goto(r, "user", j)
    BY <1>8 DEF FindSession
  <2> QED BY <2>1, Then
<1>9. CASE ReadSessionUser(r)
  <2>1. PICK old \in SignInJob : old = job[r] /\ HasRow(old.on)
    BY <1>5, <1>9 DEF ReadSessionUser
  <2>2. PICK seen \in UserRow : seen = user[old.on] /\ seen.ver \in Nat
    BY <2>1 DEF HasRow, UserRow
  <2>3. PICK j : j = [old EXCEPT !.seen = seen]
    OBVIOUS
  <2>4. j.on = old.on /\ j.seen = seen
    BY <2>3 DEF SignInJob
  <2>5. Goto(r, "overrides", j)
    BY <1>9, <2>1, <2>2, <2>3 DEF ReadSessionUser
  <2>6. ReadTrue("overrides", j)
    BY <2>2, <2>4 DEF ReadTrue
  <2> QED BY <1>4, <2>5, <2>6
<1>10. CASE ReadOverrides(r)
  <2>1. PICK old \in SignInJob : old = job[r] /\ ReadTrue("overrides", old)
    BY <1>5, <1>10 DEF ReadOverrides
  <2>2. PICK choices : choices = override[old.on]
    OBVIOUS
  <2>3. PICK j : j = [old EXCEPT !.overrides = choices]
    OBVIOUS
  <2>4. j.on = old.on /\ j.seen = old.seen /\ j.overrides = choices
    BY <2>3 DEF SignInJob
  <2>5. PICK s \in {"rotate", "caps"} : Goto(r, s, j)
    BY <1>10, <2>1, <2>2, <2>3 DEF ReadOverrides
  <2>6. ReadTrue(s, j)
    BY <2>1, <2>2, <2>4, <2>5 DEF ReadTrue
  <2> QED BY <1>4, <2>5, <2>6
<1>11. CASE RevokeOld(r)
  <2>1. PICK j : j = job[r] /\ ReadTrue("rotate", j)
    BY <1>5, <1>11 DEF RevokeOld
  <2>2. Goto(r, "caps", j) /\ ReadTrue("caps", j)
    BY <1>11, <2>1 DEF RevokeOld, ReadTrue
  <2> QED BY <1>4, <2>2
<1>12. CASE ReadRoleCaps(r)
  <2>1. PICK old \in SignInJob : old = job[r] /\ ReadTrue("caps", old)
    BY <1>5, <1>12 DEF ReadRoleCaps
  <2>2. PICK caps : caps = EffectiveCaps(old.seen.role)
    OBVIOUS
  <2>3. PICK j : j = [old EXCEPT !.caps = caps]
    OBVIOUS
  <2>4. j.on = old.on /\ j.seen = old.seen /\ j.overrides = old.overrides /\ j.caps = caps
    BY <2>3 DEF SignInJob
  <2>5. Goto(r, "issue", j)
    BY <1>12, <2>1, <2>2, <2>3 DEF ReadRoleCaps
  <2>6. ReadTrue("issue", j)
    BY <2>1, <2>2, <2>4 DEF ReadTrue
  <2> QED BY <1>4, <2>5, <2>6
<1>13. CASE IssueTokens(r)
  <2>1. job'[r].op = "none"
    BY <1>13, ThenEnds, IdleIsNone DEF IssueTokens
  <2> QED BY <2>1 DEF SignInOps
<1> QED BY <1>7, <1>8, <1>9, <1>10, <1>11, <1>12, <1>13 DEF SigningIn

(* The token that is handed out says what its request has read.            *)
LEMMA TokenIsRead ==
  ASSUME Tagged, AccountsTyped, RightsTrue, NEW r \in Req, IssueTokens(r)
  PROVE  TokenTrue(Token(job[r]))
<1>1. stage[r] = "issue" /\ job[r].op \in SignInOps
  BY StageTells DEF IssueTokens, AccountsTag, SignInOps
<1>2. PICK j \in SignInJob :
        /\ j = job[r] /\ HasRow(j.on) /\ j.seen \in UserRow /\ ReadTrue("issue", j)
  BY <1>1 DEF AccountsTyped, JobsTyped, JobTyped, RightsTrue
<1>3. PICK t : t = Token(j)
  OBVIOUS
<1>4. /\ t.user = j.on /\ t.role = j.seen.role /\ t.ver = j.seen.ver
      /\ t.caps = j.caps /\ t.overrides = j.overrides
  BY <1>3 DEF Token
<1>5. j.seen.ver \in Nat
  BY <1>2 DEF UserRow
<1> QED BY <1>2, <1>3, <1>4, <1>5 DEF TokenTrue, ReadTrue

LEMMA AccountsTokens ==
  ASSUME NEW r \in Req, SigningIn(r) \/ Outdating(r) \/ Editing(r)
  PROVE  tokens' = tokens \/ (IssueTokens(r) /\ tokens' = tokens \cup {Token(job[r])})
<1>1. CASE SigningIn(r)
  BY <1>1 DEF SigningIn, Login, FindSession, ReadSessionUser, ReadOverrides, RevokeOld,
    ReadRoleCaps, IssueTokens, Impersonate, accountVars, accounts
<1>2. CASE Outdating(r)
  BY <1>2 DEF Outdating, Logout, RevokeSession, RevokeAllSessions, CutSessions, ChangePassword,
    ResetPassword, CreateUser, PatchRole, FindRoleUsers, CommitRole, accountVars, accounts
<1>3. CASE Editing(r)
  BY <1>3 DEF Editing, ReadUser, UpdateUser, RemoveUser, PatchOverrides, ReadEmployee,
    CountOwners, ConsoleUpdate, accountVars, accounts
<1> QED BY <1>1, <1>2, <1>3

LEMMA StatementReadsTrue ==
  ASSUME Tagged, AccountsTyped, RightsTrue, NEW r \in Req, AccountStatement(r)
  PROVE  RightsTrue'
<1>1. \A u \in UserId : HasRow(u) => Kept(u)
  BY UsersAreKept, SigningInChange, OutdatingChange, EditingChange
    DEF AccountStatement, UserChange
<1>2. \A u \in UserId : HasRow(u) => HasRow(u)'
  BY AccountsStayTyped
<1>3. Moved(r)
  BY StatementMoves
<1>4. ASSUME NEW q \in Req \ {r}, job'[q].op \in SignInOps, stage'[q] # "user"
      PROVE  ReadTrue(stage[q], job[q])'
  <2>1. job'[q] = job[q] /\ stage'[q] = stage[q]
    BY <1>3 DEF Moved
  <2>2. PICK s, j : s = stage[q] /\ j = job[q]
    OBVIOUS
  <2>3. ReadTrue(s, j) /\ j \in SignInJob /\ HasRow(j.on) /\ j.seen \in UserRow
    BY <1>4, <2>1, <2>2 DEF RightsTrue, AccountsTyped, JobsTyped, JobTyped
  <2>4. j.on \in UserId /\ j.seen.ver \in Nat
    BY <2>3 DEF HasRow, UserRow
  <2>5. ReadTrue(s, j)'
    BY <1>1, <2>3, <2>4, ReadsStayTrue
  <2> QED BY <2>1, <2>2, <2>5
<1>5. ASSUME job'[r].op \in SignInOps, stage'[r] # "user" PROVE ReadTrue(stage[r], job[r])'
  <2>1. CASE SigningIn(r)
    BY <1>5, <2>1, SigningInReads
  <2>2. CASE Outdating(r) \/ Editing(r)
    BY <1>5, <2>2, ResetMoves, EditMoves DEF Within, SignInOps, ResetOps, EditOps
  <2> QED BY <2>1, <2>2 DEF AccountStatement
<1>6. ASSUME NEW t, TokenTrue(t) PROVE TokenTrue(t)'
  <2>1. PICK u \in UserId : u = t.user /\ HasRow(u)
    BY <1>6 DEF TokenTrue, HasRow
  <2>2. Kept(u) /\ HasRow(u)'
    BY <1>1, <1>2, <2>1
  <2> QED BY <1>6, <2>1, <2>2, TokensStayTrue
<1>7. \A t \in tokens' : TokenTrue(t)
  <2>1. IssueTokens(r) => TokenTrue(Token(job[r]))
    BY TokenIsRead
  <2> QED BY <2>1, AccountsTokens DEF AccountStatement, RightsTrue
<1>8. \A t \in tokens' : TokenTrue(t)'
  BY <1>6, <1>7
<1> QED BY <1>4, <1>5, <1>8 DEF RightsTrue

(* A token with the current version of its user tells what the user may    *)
(* do, whatever the interleaving of sign-ins, refreshes and edits; for     *)
(* everybody but those whose role an update moved, and those who came to a *)
(* role between the UPDATE of its versions and the COMMIT of its edit.     *)
THEOREM VersionsTellRights == Spec => []VersionTellsRights
<1>1. Init => RightsTrue
  BY IdleIsNone DEF Init, RequestsInit, AccountsInit, RightsTrue, SignInOps
<1>2. Tagged /\ AccountsTyped /\ RightsTrue /\ [Next]_all => RightsTrue'
  <2>1. ASSUME Tagged, AccountsTyped, RightsTrue, UNCHANGED <<accounts, witnesses>>,
               Aside(SignInOps \cup ResetOps \cup EditOps)
        PROVE  RightsTrue'
    <3>1. UNCHANGED <<user, grant, override, moved, tokens>>
      BY <2>1 DEF accounts, witnesses, rights
    <3>2. \A u, ver : Current(u, ver)' = Current(u, ver)
      BY <3>1 DEF Current, LiveUsers
    <3>3. \A role : EffectiveCaps(role)' = EffectiveCaps(role)
      BY <3>1 DEF EffectiveCaps
    <3>4. \A u \in UserId : HasRow(u) => HasRow(u)'
      BY <2>1, <3>1 DEF Aside, HasRow
    <3>5. ASSUME NEW t \in tokens PROVE TokenTrue(t)'
      <4>1. PICK u \in UserId : u = t.user /\ HasRow(u)'
        BY <2>1, <3>4 DEF RightsTrue, TokenTrue, HasRow
      <4> QED BY <2>1, <3>1, <3>2, <3>3, <4>1 DEF RightsTrue, TokenTrue
    <3>6. ASSUME NEW q \in Req, job'[q].op \in SignInOps, stage'[q] # "user"
          PROVE  ReadTrue(stage[q], job[q])'
      <4>1. job'[q] = job[q] /\ stage'[q] = stage[q]
        BY <2>1, <3>6 DEF Aside
      <4>2. ReadTrue(stage[q], job[q])
        BY <2>1, <3>6, <4>1 DEF RightsTrue
      <4> QED BY <3>1, <3>2, <3>3, <4>1, <4>2 DEF ReadTrue
    <3> QED BY <3>1, <3>5, <3>6 DEF RightsTrue
  <2> QED BY <2>1, AccountsCases, StatementReadsTrue
<1>3. RightsTrue => VersionTellsRights
  <2>1. ASSUME RightsTrue, NEW t \in tokens, Current(t.user, t.ver)
        PROVE  Rights(t) = Rights([caps |-> EffectiveCaps(t.role), overrides |-> override[t.user]])
    <3>1. t.caps = EffectiveCaps(t.role) /\ t.overrides = override[t.user]
      BY <2>1 DEF RightsTrue, TokenTrue
    <3> QED BY <3>1 DEF Rights, HasCap
  <2> QED BY <2>1 DEF VersionTellsRights, Current
<1> QED BY <1>1, <1>2, <1>3, EveryRequestIsTagged, AccountsAreTyped, PTL DEF Spec
-----------------------------------------------------------------------------
(***************************************************************************)
(* The owner.  A write of the console that no other write has overtaken    *)
(* takes no owner, or there is another one.                                *)
(***************************************************************************)
OwnerRemains ==
  \A r \in Req \ raced :
    stage[r] = "write" /\ job[r].op = "console" =>
      ~LosesOwner(user[job[r].on], job[r].change) \/ AnotherOwner(job[r].on)

(* A version more makes nobody an owner, nor less of one.                  *)
LEMMA BumpKeepsOwners ==
  ASSUME AccountsTyped, NEW role, NEW seen, user' = BumpRole(role, seen)
  PROVE  /\ Owners' = Owners
         /\ \A u \in UserId : \A change :
              HasRow(u) => LosesOwner(user[u], change)' = LosesOwner(user[u], change)
<1>1. ASSUME NEW u \in LiveUsers
      PROVE  /\ Outdated(user[u]).role = user[u].role
             /\ Outdated(user[u]).deleted = user[u].deleted
             /\ Outdated(user[u]).active = user[u].active
             /\ Outdated(user[u]) # None
  <2>1. PICK old \in UserRow : old = user[u]
    BY LiveHasRow DEF AccountsTyped, HasRow
  <2> QED BY <2>1, OutdatedRow, AccountsAssumption
<1>2. \A u \in UserId : /\ u \in LiveUsers' <=> u \in LiveUsers
                        /\ u \in LiveUsers => /\ user'[u].role = user[u].role
                                              /\ user'[u].active = user[u].active
                        /\ u \notin LiveUsers => user'[u] = user[u]
  BY <1>1 DEF BumpRole, LiveUsers
<1>3. Owners' = Owners
  BY <1>2 DEF Owners, LiveUsers
<1>4. \A u \in UserId : user'[u].role = user[u].role /\ user'[u].active = user[u].active
  BY <1>2
<1> QED BY <1>3, <1>4 DEF LosesOwner, RoleAfter

(* Who has read the employee goes on only if an owner remains.             *)
LEMMA ReadsOwner ==
  ASSUME Tagged, AccountsTyped, OwnerRemains, NEW r \in Req, ReadEmployee(r) \/ CountOwners(r),
         stage'[r] = "write"
  PROVE  ~LosesOwner(user[job'[r].on], job'[r].change) \/ AnotherOwner(job'[r].on)
<1>1. CASE ReadEmployee(r)
  <2>1. PICK u \in UserId, change \in Change :
          Goto(r, IF LosesOwner(user[u], change) THEN "count" ELSE "write",
               [op |-> "console", on |-> u, change |-> change])
    BY <1>1 DEF ReadEmployee
  <2>2. PICK j : j = [op |-> "console", on |-> u, change |-> change]
    OBVIOUS
  <2>3. PICK s : s = IF LosesOwner(user[u], change) THEN "count" ELSE "write"
    OBVIOUS
  <2>4. Goto(r, s, j)
    BY <2>1, <2>2, <2>3
  <2>5. job'[r] = j /\ stage'[r] = s
    BY <2>4, Then
  <2> QED BY <2>2, <2>3, <2>5
<1>2. CASE CountOwners(r)
  <2>1. PICK j : j = job[r]
    OBVIOUS
  <2>2. CASE AnotherOwner(j.on) /\ Goto(r, "write", j)
    <3>1. job'[r] = j
      BY <2>2, Then
    <3> QED BY <2>2, <3>1
  <2>3. CASE End(r, "refused")
    <3>1. stage'[r] = "refused"
      BY <2>3, ThenEnds
    <3> QED BY <3>1
  <2> QED BY <1>2, <2>1, <2>2, <2>3 DEF CountOwners
<1> QED BY <1>1, <1>2

LEMMA OwnersRest ==
  ASSUME OwnerRemains, UNCHANGED <<user, raced>>,
         \A q \in Req : stage'[q] = "write" /\ job'[q].op = "console" =>
           \/ job'[q] = job[q] /\ stage'[q] = stage[q]
           \/ ~LosesOwner(user[job'[q].on], job'[q].change) \/ AnotherOwner(job'[q].on)
  PROVE  OwnerRemains'
<1>1. \A u : AnotherOwner(u)' = AnotherOwner(u)
  BY DEF AnotherOwner, Owners, LiveUsers
<1> QED BY <1>1 DEF OwnerRemains

(* Every other write of a user is seen by who is on the way.               *)
Races(r) == raced' = raced \cup {q \in Req \ {r} : stage[q] \in {"count", "write"}}

LEMMA AccountsWrite ==
  ASSUME NEW r \in Req, SigningIn(r) \/ Outdating(r) \/ Editing(r)
  PROVE  \/ UNCHANGED <<user, raced>>
         \/ Races(r) /\ (End(r, "done") \/ ResetPassword(r))
         \/ (\E role, seen : user' = BumpRole(role, seen)) /\ UNCHANGED raced /\ End(r, "done")
<1>1. CASE SigningIn(r)
  BY <1>1 DEF SigningIn, Login, FindSession, ReadSessionUser, ReadOverrides, RevokeOld,
    ReadRoleCaps, IssueTokens, Impersonate, accountVars, accounts, witnesses
<1>2. CASE Outdating(r)
  <2>1. CASE Logout(r) \/ RevokeSession(r) \/ RevokeAllSessions(r) \/ CutSessions(r)
    BY <2>1 DEF Logout, RevokeSession, RevokeAllSessions, CutSessions
  <2>2. CASE ChangePassword(r) \/ CreateUser(r) \/ ResetPassword(r)
    BY <2>2 DEF ChangePassword, CreateUser, ResetPassword, Write, Races
  <2>3. CASE PatchRole(r) \/ FindRoleUsers(r)
    BY <2>3 DEF PatchRole, FindRoleUsers, accountVars, accounts, witnesses
  <2>4. CASE CommitRole(r)
    BY <2>4 DEF CommitRole
  <2> QED BY <1>2, <2>1, <2>2, <2>3, <2>4 DEF Outdating
<1>3. CASE Editing(r)
  BY <1>3 DEF Editing, ReadUser, UpdateUser, RemoveUser, PatchOverrides, ReadEmployee,
    CountOwners, ConsoleUpdate, Write, Races, accountVars, accounts, witnesses
<1> QED BY <1>1, <1>2, <1>3

LEMMA StatementKeepsOwner ==
  ASSUME Tagged, AccountsTyped, OwnerRemains, NEW r \in Req, AccountStatement(r)
  PROVE  OwnerRemains'
<1>1. Moved(r)
  BY StatementMoves
<1>2. ASSUME UNCHANGED <<user, raced>> PROVE OwnerRemains'
  <2>1. ASSUME stage'[r] = "write", job'[r].op = "console", ~ReadEmployee(r), ~CountOwners(r)
        PROVE  FALSE
    <3>1. CASE SigningIn(r) \/ Outdating(r)
      BY <2>1, <3>1, SignInMoves, ResetMoves DEF Within, SignInOps, ResetOps
    <3>2. CASE UpdateUser(r) \/ RemoveUser(r) \/ PatchOverrides(r) \/ ConsoleUpdate(r)
      <4>1. End(r, "done")
        BY <3>2 DEF UpdateUser, RemoveUser, PatchOverrides, ConsoleUpdate
      <4> QED BY <2>1, <4>1, ThenEnds
    <3>3. CASE ReadUser(r)
      <4>1. PICK u \in LiveUsers :
              \/ \E change \in Change :
                   job'[r] = [op |-> "update", on |-> u, seen |-> user[u], change |-> change]
              \/ job'[r] = [op |-> "remove", on |-> u]
              \/ job'[r] = [op |-> "patchOverrides", on |-> u]
        BY <3>3 DEF ReadUser, Goto, Tagged
      <4>2. \A change, seen :
              /\ [op |-> "update", on |-> u, seen |-> seen, change |-> change].op # "console"
              /\ [op |-> "remove", on |-> u].op # "console"
              /\ [op |-> "patchOverrides", on |-> u].op # "console"
        OBVIOUS
      <4> QED BY <2>1, <4>1, <4>2
    <3> QED BY <2>1, <3>1, <3>2, <3>3 DEF AccountStatement, Editing
  <2>2. stage'[r] = "write" /\ job'[r].op = "console" =>
          ~LosesOwner(user[job'[r].on], job'[r].change) \/ AnotherOwner(job'[r].on)
    BY <2>1, ReadsOwner
  <2> QED BY <1>1, <1>2, <2>2, OwnersRest DEF Moved
<1>3. ASSUME Races(r), End(r, "done") \/ ResetPassword(r) PROVE OwnerRemains'
  <2>1. stage'[r] # "write"
    <3>1. ResetPassword(r) => \E j : Goto(r, "cut", j)
      BY DEF ResetPassword
    <3> QED BY <1>3, <3>1, Then, ThenEnds
  <2>2. \A q \in Req \ {r} : stage'[q] = "write" => q \in raced'
    BY <1>1, <1>3 DEF Moved, Races
  <2> QED BY <2>1, <2>2 DEF OwnerRemains
<1>4. ASSUME NEW role, NEW seen, user' = BumpRole(role, seen), UNCHANGED raced, End(r, "done")
      PROVE  OwnerRemains'
  <2>1. ASSUME NEW q \in Req \ raced', stage'[q] = "write", job'[q].op = "console"
        PROVE  ~LosesOwner(user[job[q].on], job[q].change)' \/ AnotherOwner(job[q].on)'
    <3>1. q # r
      BY <1>4, <2>1, ThenEnds
    <3>2. PICK j : j = job[q] /\ j = job'[q] /\ stage[q] = stage'[q]
      BY <1>1, <2>1, <3>1 DEF Moved
    <3>3. j.on \in UserId /\ HasRow(j.on)
      BY <2>1, <3>2 DEF AccountsTyped, JobsTyped, JobTyped, EditOps, HasRow
    <3>4. LosesOwner(user[j.on], j.change)' = LosesOwner(user[j.on], j.change)
      BY <1>4, <3>3, BumpKeepsOwners
    <3>5. AnotherOwner(j.on)' = AnotherOwner(j.on)
      BY <1>4, BumpKeepsOwners DEF AnotherOwner
    <3>6. ~LosesOwner(user[j.on], j.change) \/ AnotherOwner(j.on)
      BY <1>4, <2>1, <3>2 DEF OwnerRemains
    <3> QED BY <3>2, <3>4, <3>5, <3>6
  <2> QED BY <2>1 DEF OwnerRemains
<1> QED BY <1>2, <1>3, <1>4, AccountsWrite DEF AccountStatement

LEMMA OwnerStillRemains ==
  ASSUME Tagged, AccountsTyped, OwnerRemains, [Next]_all PROVE OwnerRemains'
<1>1. ASSUME UNCHANGED <<accounts, witnesses>>, Aside(SignInOps \cup ResetOps \cup EditOps)
      PROVE  OwnerRemains'
  <2>1. \A q \in Req : job'[q].op = "console" => job'[q] = job[q] /\ stage'[q] = stage[q]
    BY <1>1 DEF Aside, EditOps
  <2> QED BY <1>1, <2>1, OwnersRest DEF accounts, witnesses
<1> QED BY <1>1, AccountsCases, StatementKeepsOwner

(* The write leaves an owner.                                              *)
LEMMA WriteLeavesOwner ==
  ASSUME Tagged, AccountsTyped, OwnerRemains, NEW r \in Req \ raced, ConsoleUpdate(r), Owners # {}
  PROVE  Owners' # {}
<1>1. stage[r] = "write" /\ job[r].op = "console"
  BY DEF ConsoleUpdate
<1>2. PICK u \in UserId, change \in Body : u = job[r].on /\ HasRow(u) /\ change = job[r].change
  BY <1>1, AccountsAssumption DEF AccountsTyped, JobsTyped, JobTyped, EditOps, HasRow
<1>3. PICK old \in UserRow : old = user[u]
  BY <1>2 DEF HasRow
<1>4. PICK new \in UserRow :
        /\ new = Applied(old, change) /\ new.deleted = old.deleted
        /\ new.role = RoleAfter(old, change)
        /\ new.active = IF change.active = "keep" THEN old.active ELSE change.active = "yes"
  BY AppliedRow
<1>5. PICK rw \in UserRow :
        /\ rw = [new EXCEPT !.restricted = old.restricted] /\ rw.deleted = new.deleted
        /\ rw.role = new.role /\ rw.active = new.active
  <2>1. [new EXCEPT !.restricted = old.restricted] \in UserRow
    BY DEF UserRow
  <2>2. /\ [new EXCEPT !.restricted = old.restricted].role = new.role
        /\ [new EXCEPT !.restricted = old.restricted].deleted = new.deleted
        /\ [new EXCEPT !.restricted = old.restricted].active = new.active
    BY DEF UserRow
  <2> QED BY <2>1, <2>2
<1>6. user' = [user EXCEPT ![u] = rw]
  BY <1>2, <1>3, <1>4, <1>5 DEF ConsoleUpdate, Write
<1>7. \A v \in UserId : user'[v] = IF v = u THEN rw ELSE user[v]
  BY <1>6 DEF AccountsTyped, UsersTyped
<1>8. PICK v \in Owners : TRUE
  OBVIOUS
<1>9. CASE AnotherOwner(u)
  <2>1. PICK w \in Owners \ {u} : TRUE
    BY <1>9 DEF AnotherOwner
  <2>2. w \in Owners'
    BY <1>7, <2>1 DEF Owners, LiveUsers
  <2> QED BY <2>2
<1>10. CASE v # u
  BY <1>8, <1>9, <1>10 DEF AnotherOwner
<1>11. CASE v = u /\ ~LosesOwner(old, change)
  <2>1. old.role = "owner" /\ old.active /\ ~old.deleted
    BY <1>3, <1>8, <1>11 DEF Owners, LiveUsers
  <2>2. rw.role = "owner" /\ ~rw.deleted
    BY <1>4, <1>5, <1>11, <2>1 DEF LosesOwner
  <2>3. change.active \in {"keep", "yes", "no"} /\ change.active # "no"
    BY <1>11, <2>1 DEF LosesOwner, Body
  <2>4. rw.active
    BY <1>4, <1>5, <2>1, <2>3
  <2>5. u \in Owners'
    BY <1>7, <2>2, <2>4, AccountsAssumption DEF Owners, LiveUsers
  <2> QED BY <2>5
<1> QED BY <1>1, <1>2, <1>3, <1>9, <1>10, <1>11 DEF OwnerRemains

(* No step of the console leaves a business without an active owner, for   *)
(* any number of users and requests, unless another write overtook it.     *)
THEOREM ConsoleLeavesAnOwner == Spec => ConsoleKeepsAnOwner
<1>1. Init => OwnerRemains
  BY DEF Init, RequestsInit, OwnerRemains
<1>2. Tagged /\ AccountsTyped /\ OwnerRemains /\ [Next]_all => OwnerRemains'
  BY OwnerStillRemains
<1>3. Tagged /\ AccountsTyped /\ OwnerRemains /\ [Next]_all =>
        [\A r \in Req :
           /\ stage[r] = "write" /\ job[r].op = "console" /\ stage'[r] = "done"
           /\ r \notin raced /\ Owners # {}
           => Owners' # {}]_<<requests, accountVars>>
  <2>1. SUFFICES
          ASSUME Tagged, AccountsTyped, OwnerRemains, [Next]_all, NEW r \in Req \ raced,
                 stage[r] = "write", job[r].op = "console", stage'[r] = "done", Owners # {}
          PROVE  Owners' # {}
    OBVIOUS
  <2>2. ASSUME Aside(EditOps) PROVE FALSE
    <3>1. Crash
      BY <2>1, <2>2 DEF Aside, EditOps
    <3>2. PICK q \in Req : End(q, "crashed")
      BY <3>1 DEF Crash, Dies
    <3> QED BY <2>1, <3>2, ThenEnds
  <2>3. PICK q \in Req : AccountStatement(q)
    BY <2>1, <2>2, AccountsCases, AsideOfLess
  <2>4. q = r
    BY <2>1, <2>3, StatementMoves DEF Moved
  <2>5. ConsoleUpdate(r)
    <3>1. AccountStatement(r)
      BY <2>3, <2>4
    <3>2. ~SigningIn(r)
      BY <2>1 DEF SigningIn, Login, FindSession, ReadSessionUser, ReadOverrides, RevokeOld,
        ReadRoleCaps, IssueTokens, Impersonate, Starts
    <3>3. ~Outdating(r)
      BY <2>1 DEF Outdating, Logout, RevokeSession, RevokeAllSessions, CutSessions,
        ChangePassword, ResetPassword, CreateUser, PatchRole, FindRoleUsers, CommitRole, Starts
    <3>4. Editing(r)
      BY <3>1, <3>2, <3>3 DEF AccountStatement
    <3> QED BY <2>1, <3>4 DEF Editing, ReadUser, UpdateUser, RemoveUser, PatchOverrides,
        ReadEmployee, CountOwners, Starts
  <2> QED BY <2>1, <2>5, WriteLeavesOwner
<1> QED
  BY <1>1, <1>2, <1>3, EveryRequestIsTagged, AccountsAreTyped, PTL DEF Spec, ConsoleKeepsAnOwner
-----------------------------------------------------------------------------
(***************************************************************************)
(* The tenancy.  What a request is about to write is a warehouse that has  *)
(* a row, and what it has read is of the right kind.                       *)
(***************************************************************************)
HasWarehouse(w) == w \in Id /\ warehouse[w] \in WarehouseRow
WarehouseOps == {"createWarehouse", "updateWarehouse", "removeWarehouse"}
WarehouseJob ==
  [op : WarehouseOps, on : Id, default : {"keep", "yes", "no"}, others : SUBSET Id]
Prepared(r) ==
  /\ job[r].op \in WarehouseOps /\ stage[r] \in {"clear", "insert", "write"} =>
       /\ job[r] \in WarehouseJob
       /\ job[r].op = "createWarehouse" => job[r].on = r /\ job[r].default # "keep"
       /\ job[r].op # "createWarehouse" => HasWarehouse(job[r].on)
       /\ \A w \in job[r].others : HasWarehouse(w)
  /\ job[r].op = "settings" /\ stage[r] = "main" => \A w \in job[r].mains : HasWarehouse(w)
TenancyTyped ==
  /\ warehouse \in [Id -> WarehouseRow \cup {None}] /\ multi \in BOOLEAN
  /\ now \in Nat /\ until \in Nat \cup {None} /\ limit \in [Resource -> Nat \ {0}]
  /\ rows \in [{"users", "products"} -> SUBSET Req]
  /\ IsFiniteSet(Live) /\ \A res \in {"users", "products"} : IsFiniteSet(rows[res])
  /\ \A r \in Req : Prepared(r)

(* A decision is the last one, but for those that are under way already.   *)
DecidedLast ==
  \/ "at once" \in decisions
  \/ decisions \cap {"approve", "reject"} = {}
  \/ /\ decisions \cap {"approve", "reject"} \in {{"approve"}, {"reject"}}
     /\ status # "pending" /\ \A r \in Req : stage[r] # "decide"

ExpiresOver == (plan = "expired" \/ \E r \in Req : stage[r] = "expire") => Over \/ lateGuard

(* Whoever the guard let through has room for its row; the console is let  *)
(* through without it, and makes a warehouse only where there is none.     *)
HasMain(r) == stage[r] = "main" /\ job[r].mains # {}
RoomIn(res) ==
  /\ Count(res) <= limit[res]
  /\ \A r \in Admitted(res) : Count(res) < limit[res] \/ HasMain(r)
RoomLeft == \A res \in Resource \ crossed : RoomIn(res)

(* What a request at the warehouses has read of them is still so.          *)
StillSo(r) ==
  /\ job[r].op = "createWarehouse" => multi \/ Live = {}
  /\ job[r].op \in WarehouseOps /\ stage[r] \in {"insert", "write"} /\ job[r].default = "yes"
       => Defaults \ {job[r].on} \subseteq job[r].others
  /\ stage[r] = "main" => job[r].mains = Live /\ AtMostOne(Live)
  /\ stage[r] = "flag" => job[r].body.multi = "on" \/ AtMostOne(Live)
DefaultsApart ==
  ~overlap => /\ AtMostOne(Defaults) /\ (multi \/ AtMostOne(Live))
              /\ \A r \in AtWarehouses : StillSo(r)

TenancyStatement(r) == Console(r) \/ Guards(r) \/ Inserts(r) \/ Switches(r)

(* Nobody else writes the status of the business.                          *)
LEMMA StatusAside == ASSUME [Next]_all, ~TenancyStep PROVE UNCHANGED status
<1>1. CASE AccountsStep
  BY <1>1 DEF AccountsStep
<1>2. CASE MfaStep
  BY <1>2 DEF MfaStep, Challenge, Enrol, Verify, Accept, CountFailure, Lock, NextStep, RotateKey
<1>3. CASE TenantRowsStep
  BY <1>3 DEF TenantRowsStep, OpenScope, Sweep, ReadOwn, WriteOwn, InsertChild, FindOrder,
    FindLines, CloseScope
<1>4. CASE AttendanceStep
  BY <1>4 DEF AttendanceStep
<1>5. CASE UploadsStep
  BY <1>5 DEF UploadsStep
<1>6. CASE CatalogueStep
  BY <1>6 DEF CatalogueStep
<1>7. CASE NoticesStep
  BY <1>7 DEF NoticesStep
<1> QED
  BY <1>1, <1>2, <1>3, <1>4, <1>5, <1>6, <1>7 DEF Next, OfficeStep, Crash, Rest, all

LEMMA TenancyCases ==
  ASSUME Tagged, [Next]_all
  PROVE  \/ Tick
         \/ \E r \in Req : TenancyStatement(r)
         \/ UNCHANGED <<status, tenancyVars>> /\ Aside(TenancyOps)
<1>1. CASE TenancyStep
  BY <1>1 DEF TenancyStep, TenancyStatement, Console, Guards, Inserts, Switches
<1>2. CASE ~TenancyStep
  BY <1>2, TenancyAside, StatusAside
<1> QED BY <1>1, <1>2

(* The statement that follows each statement.                              *)
LEMMA ConsoleGoes ==
  ASSUME Tagged, NEW r \in Req, Console(r)
  PROVE  Moved(r) /\ stage'[r] = IF ReadApplication(r) THEN "decide" ELSE "done"
<1>1. CASE ReadApplication(r)
  <2>1. PICK op : Goto(r, "decide", [op |-> op])
    BY <1>1 DEF ReadApplication
  <2>2. PICK j : j = [op |-> op]
    OBVIOUS
  <2>3. Goto(r, "decide", j) /\ "op" \in DOMAIN j
    BY <2>1, <2>2
  <2> QED BY <1>1, <2>3, GoesOn
<1>2. CASE Console(r) /\ ~ReadApplication(r)
  <2>1. End(r, "done")
    BY <1>2 DEF Console, Decide, Extend, Suspend, Activate, UpdateLimit, UpdateModules
  <2> QED BY <1>2, <2>1, Ends
<1> QED BY <1>1, <1>2

LEMMA GuardsGo ==
  ASSUME Tagged, NEW r \in Req, Guards(r)
  PROVE  /\ stage'[r] \in {"expire", "guard", "handler", "refused"}
         /\ SubscriptionGuard(r) => stage[r] = "new" /\ (stage'[r] = "expire" => HasEnded)
                                    /\ (stage'[r] = "handler" => Counted(job'[r].op) = None)
         /\ Expire(r) => stage'[r] = "refused"
         /\ ModuleAndLimitGuards(r) =>
              \/ stage'[r] = "refused"
              \/ /\ stage'[r] = "handler" /\ job'[r] = job[r]
                 /\ ~IsFull(Count(Counted(job[r].op)), limit[Counted(job[r].op)])
<1>1. ASSUME SubscriptionGuard(r)
      PROVE  /\ stage[r] = "new" /\ stage'[r] \in {"expire", "guard", "handler", "refused"}
             /\ stage'[r] = "expire" => HasEnded
             /\ stage'[r] = "handler" => Counted(job'[r].op) = None
  <2>1. stage[r] = "new"
    BY <1>1 DEF SubscriptionGuard, Starts
  <2>2. PICK op \in Tenant :
          IF HasEnded /\ plan = "active" THEN Goto(r, "expire", [op |-> op])
          ELSE IF HasEnded \/ plan = "suspended" THEN End(r, "refused")
          ELSE Goto(r, IF Counted(op) = None THEN "handler" ELSE "guard", [op |-> op])
    BY <1>1 DEF SubscriptionGuard
  <2>3. PICK j : j = [op |-> op]
    OBVIOUS
  <2>4. CASE HasEnded /\ Goto(r, "expire", j)
    BY <2>1, <2>4, Then
  <2>5. CASE End(r, "refused")
    BY <2>1, <2>5, ThenEnds
  <2>6. CASE Counted(op) = None /\ Goto(r, "handler", j)
    <3>1. stage'[r] = "handler" /\ job'[r] = j
      BY <2>6, Then
    <3>2. j.op = op
      BY <2>3
    <3> QED BY <2>1, <2>6, <3>1, <3>2
  <2>7. CASE Goto(r, "guard", j)
    BY <2>1, <2>7, Then
  <2> QED BY <2>2, <2>3, <2>4, <2>5, <2>6, <2>7
<1>2. ASSUME Expire(r) PROVE stage[r] = "expire" /\ stage'[r] = "refused"
  BY <1>2, ThenEnds DEF Expire
<1>3. ASSUME ModuleAndLimitGuards(r)
      PROVE  /\ stage[r] = "guard"
             /\ \/ stage'[r] = "refused"
                \/ /\ stage'[r] = "handler" /\ job'[r] = job[r]
                   /\ ~IsFull(Count(Counted(job[r].op)), limit[Counted(job[r].op)])
  BY <1>3, Then, ThenEnds DEF ModuleAndLimitGuards
<1> QED BY <1>1, <1>2, <1>3 DEF Guards

LEMMA InsertsGo ==
  ASSUME Tagged, NEW r \in Req, Inserts(r)
  PROVE  /\ stage'[r] \in {"done", "refused", "clear", "insert", "write"}
         /\ ~ReadWarehouse(r) /\ ~ClearDefaults(r) => stage'[r] = "done"
<1>1. ASSUME CreateRow(r) \/ CreateWarehouse(r) \/ UpdateWarehouse(r) \/ RemoveWarehouse(r)
               \/ Stock(r)
      PROVE  stage'[r] = "done"
  <2>1. End(r, "done")
    BY <1>1 DEF CreateRow, CreateWarehouse, UpdateWarehouse, RemoveWarehouse, Stock
  <2> QED BY <2>1, ThenEnds
<1>2. ASSUME ReadWarehouse(r) PROVE stage'[r] \in {"refused", "clear", "insert", "write"}
  <2>1. \/ End(r, "refused") \/ \E j : Goto(r, "clear", j)
        \/ \E j : Goto(r, "insert", j) \/ \E k : Goto(r, "write", k)
    BY <1>2 DEF ReadWarehouse
  <2> QED BY <2>1, Then, ThenEnds
<1>3. ASSUME ClearDefaults(r) PROVE stage'[r] \in {"insert", "write"}
  BY <1>3, Then DEF ClearDefaults
<1> QED BY <1>1, <1>2, <1>3 DEF Inserts

LEMMA SwitchesGo ==
  ASSUME Tagged, NEW r \in Req, Switches(r)
  PROVE  /\ stage'[r] \in {"done", "refused", "list", "main", "flag", "vat"}
         /\ ~ListWarehouses(r) => stage'[r] # "main"
<1>1. ASSUME ReadSettings(r) PROVE stage'[r] \in {"list", "flag", "vat"}
  <2>1. \E j : Goto(r, "list", j) \/ Goto(r, "flag", j) \/ Goto(r, "vat", j)
    BY <1>1 DEF ReadSettings
  <2> QED BY <2>1, Then
<1>2. ASSUME ListWarehouses(r) PROVE stage'[r] \in {"main", "refused"}
  BY <1>2, Then, ThenEnds DEF ListWarehouses
<1>3. ASSUME MainWarehouse(r) \/ SetFlag(r) PROVE stage'[r] \in {"flag", "vat"}
  BY <1>3, Then DEF MainWarehouse, SetFlag
<1>4. ASSUME SetMulti(r) \/ SetVat(r) PROVE stage'[r] \in {"done", "refused"}
  <2>1. End(r, "done") \/ End(r, "refused")
    BY <1>4 DEF SetMulti, SetVat
  <2> QED BY <2>1, ThenEnds
<1> QED BY <1>1, <1>2, <1>3, <1>4 DEF Switches


LEMMA TenancyMovesOne ==
  ASSUME Tagged, NEW r \in Req, TenancyStatement(r)
  PROVE  Within(r, TenancyOps) /\ Moved(r)
  BY ConsoleMoves, GuardMoves, InsertMoves, SwitchMoves DEF TenancyStatement, Within

(* The application is decided by the console, and by nobody twice.         *)
LEMMA DecidedStays ==
  ASSUME DecidedLast, UNCHANGED decisions, status' = status \/ status' # "pending",
         \A q \in Req : stage'[q] = "decide" => stage[q] = "decide"
  PROVE  DecidedLast'
  BY DEF DecidedLast

LEMMA StatementDecides ==
  ASSUME Tagged, DecidedLast, NEW r \in Req, TenancyStatement(r) PROVE DecidedLast'
<1>1. \A q \in Req \ {r} : stage'[q] = stage[q]
  BY TenancyMovesOne DEF Moved
<1>2. CASE ReadApplication(r)
  BY <1>1, <1>2 DEF ReadApplication, MayDecide, DecidedLast, tenancyVars, observed
<1>3. CASE Decide(r)
  <2>1. job[r].op \in {"approve", "reject"} /\ stage[r] = "decide"
    BY <1>3, StageTells DEF Decide, TenancyTag
  <2>2. stage'[r] = "done"
    BY <1>3, ThenEnds DEF Decide
  <2>3. /\ status' # "pending"
        /\ decisions' = decisions \cup {job[r].op} \cup
             IF \E q \in Req \ {r} : stage[q] = "decide" THEN {"at once"} ELSE {}
    BY <1>3, <2>1 DEF Decide
  <2>4. CASE "at once" \in decisions
    BY <2>3, <2>4 DEF DecidedLast
  <2>5. CASE \E q \in Req \ {r} : stage[q] = "decide"
    BY <2>3, <2>5 DEF DecidedLast
  <2>6. CASE "at once" \notin decisions /\ ~\E q \in Req \ {r} : stage[q] = "decide"
    <3>1. decisions \cap {"approve", "reject"} = {}
      BY <2>1, <2>6 DEF DecidedLast
    <3>2. \A q \in Req : stage'[q] # "decide"
      BY <1>1, <2>2, <2>6
    <3>3. decisions' \cap {"approve", "reject"} \in {{"approve"}, {"reject"}}
      BY <2>1, <2>3, <2>6, <3>1
    <3> QED BY <2>3, <3>2, <3>3 DEF DecidedLast
  <2> QED BY <2>4, <2>5, <2>6
<1>4. CASE Console(r) /\ ~ReadApplication(r) /\ ~Decide(r)
  <2>1. /\ UNCHANGED decisions
        /\ status' = status \/ status' # "pending"
    BY <1>4 DEF Console, Extend, Suspend, Activate, UpdateLimit, UpdateModules, SetPlan, observed
  <2>2. stage'[r] = "done"
    BY <1>4, ConsoleGoes
  <2> QED BY <1>1, <2>1, <2>2, DecidedStays
<1>5. CASE Guards(r) \/ Inserts(r) \/ Switches(r)
  <2>1. UNCHANGED <<status, decisions>>
    <3>1. CASE Guards(r)
      BY <3>1 DEF Guards, SubscriptionGuard, Expire, ModuleAndLimitGuards, tenancyVars, observed
    <3>2. CASE Inserts(r)
      BY <3>2 DEF Inserts, CreateRow, ReadWarehouse, ClearDefaults, CreateWarehouse,
        UpdateWarehouse, RemoveWarehouse, Stock, tenancyVars, observed
    <3>3. CASE Switches(r)
      BY <3>3 DEF Switches, SetMulti, ReadSettings, ListWarehouses, MainWarehouse, SetFlag,
        SetVat, tenancyVars, observed
    <3> QED BY <1>5, <3>1, <3>2, <3>3
  <2>2. stage'[r] # "decide"
    BY <1>5, GuardsGo, InsertsGo, SwitchesGo
  <2> QED BY <1>1, <2>1, <2>2, DecidedStays
<1> QED BY <1>2, <1>3, <1>4, <1>5 DEF TenancyStatement, Console

(* The plan is expired by the guard alone, which has seen its end, or has  *)
(* been overtaken by the console.                                          *)
LEMMA ExpiresStays ==
  ASSUME ExpiresOver, UNCHANGED <<plan, until, now, lateGuard>>,
         \A q \in Req : stage'[q] = "expire" => stage[q] = "expire" \/ HasEnded
  PROVE  ExpiresOver'
  BY DEF ExpiresOver, Over, HasEnded

LEMMA StatementExpires ==
  ASSUME Tagged, ExpiresOver, NEW r \in Req, TenancyStatement(r) PROVE ExpiresOver'
<1>1. \A q \in Req \ {r} : stage'[q] = stage[q]
  BY TenancyMovesOne DEF Moved
<1>2. CASE Console(r)
  <2>1. \A q \in Req : stage'[q] = "expire" => stage[q] = "expire"
    BY <1>1, <1>2, ConsoleGoes
  <2>2. ASSUME NEW newPlan \in {"active", "suspended"}, NEW end, SetPlan(newPlan, end)
        PROVE  ExpiresOver'
    BY <2>1, <2>2 DEF SetPlan, ExpiresOver
  <2>3. CASE Extend(r) \/ Suspend(r) \/ Activate(r)
    BY <2>2, <2>3 DEF Extend, Suspend, Activate
  <2>4. CASE ReadApplication(r) \/ Decide(r) \/ UpdateLimit(r) \/ UpdateModules(r)
    <3>1. UNCHANGED <<plan, until, now, lateGuard>>
      BY <2>4 DEF ReadApplication, Decide, UpdateLimit, UpdateModules, tenancyVars, business,
        observed
    <3> QED BY <2>1, <3>1, ExpiresStays
  <2> QED BY <1>2, <2>3, <2>4 DEF Console
<1>3. CASE Expire(r)
  <2>1. stage[r] = "expire" /\ UNCHANGED <<until, now, lateGuard>>
    BY <1>3 DEF Expire, observed
  <2> QED BY <2>1 DEF ExpiresOver, Over
<1>4. CASE SubscriptionGuard(r) \/ ModuleAndLimitGuards(r)
  <2>1. UNCHANGED <<plan, until, now, lateGuard>>
    BY <1>4 DEF SubscriptionGuard, ModuleAndLimitGuards, tenancyVars, business, observed
  <2>2. stage'[r] = "expire" => HasEnded
    BY <1>4, GuardsGo DEF Guards
  <2> QED BY <1>1, <2>1, <2>2, ExpiresStays
<1>5. CASE Inserts(r) \/ Switches(r)
  <2>1. UNCHANGED <<plan, until, now, lateGuard>>
    <3>1. CASE Inserts(r)
      BY <3>1 DEF Inserts, CreateRow, ReadWarehouse, ClearDefaults, CreateWarehouse,
        UpdateWarehouse, RemoveWarehouse, Stock, tenancyVars, business, observed
    <3>2. CASE Switches(r)
      BY <3>2 DEF Switches, SetMulti, ReadSettings, ListWarehouses, MainWarehouse, SetFlag,
        SetVat, tenancyVars, business, observed
    <3> QED BY <1>5, <3>1, <3>2
  <2>2. stage'[r] # "expire"
    BY <1>5, InsertsGo, SwitchesGo
  <2> QED BY <1>1, <2>1, <2>2, ExpiresStays
<1> QED BY <1>2, <1>3, <1>4, <1>5 DEF TenancyStatement, Guards

LEMMA ExpiryPasses ==
  ASSUME TenancyTyped, ExpiresOver, Tick PROVE ExpiresOver'
<1>1. now' = now + 1 /\ UNCHANGED <<plan, until, lateGuard, stage>>
  BY DEF Tick, requests, business, observed
<1>2. Over => Over'
  BY <1>1 DEF Over, TenancyTyped
<1> QED BY <1>1, <1>2 DEF ExpiresOver

(* The rows of the warehouses, and what the statements write there.        *)
LEMMA NewWarehouseIs ==
  ASSUME NEW d \in BOOLEAN
  PROVE  /\ NewWarehouse(d) \in WarehouseRow
         /\ NewWarehouse(d).default = d /\ ~NewWarehouse(d).deleted
  BY DEF NewWarehouse, WarehouseRow

LEMMA RowAfter ==
  ASSUME NEW old \in WarehouseRow, NEW d \in BOOLEAN
  PROVE  /\ [old EXCEPT !.default = d] \in WarehouseRow
         /\ [old EXCEPT !.default = d].default = d
         /\ [old EXCEPT !.default = d].deleted = old.deleted
         /\ [old EXCEPT !.stocked = d] \in WarehouseRow
         /\ [old EXCEPT !.stocked = d].default = old.default
         /\ [old EXCEPT !.stocked = d].deleted = old.deleted
         /\ [old EXCEPT !.deleted = TRUE, !.default = FALSE] \in WarehouseRow
         /\ [old EXCEPT !.deleted = TRUE, !.default = FALSE].deleted
  BY DEF WarehouseRow

Grown ==
  /\ warehouse' \in [Id -> WarehouseRow \cup {None}]
  /\ \A w \in Id : HasWarehouse(w) => HasWarehouse(w)'

LEMMA GrowsBy ==
  ASSUME TenancyTyped, DOMAIN warehouse' = Id, warehouse' = [w \in Id |-> warehouse'[w]],
         \A w \in Id : warehouse'[w] = warehouse[w] \/ warehouse'[w] \in WarehouseRow
  PROVE  Grown
  BY DEF Grown, TenancyTyped, HasWarehouse

LEMMA ClearedRows ==
  ASSUME TenancyTyped, NEW W, \A w \in W : HasWarehouse(w), NEW w \in Id
  PROVE  \/ w \notin W /\ Cleared(W)[w] = warehouse[w]
         \/ /\ w \in W /\ Cleared(W)[w] \in WarehouseRow /\ ~Cleared(W)[w].default
            /\ Cleared(W)[w].deleted = warehouse[w].deleted
<1>1. CASE w \notin W
  BY <1>1 DEF Cleared
<1>2. CASE w \in W
  <2>1. PICK old \in WarehouseRow : old = warehouse[w]
    BY <1>2 DEF HasWarehouse
  <2>2. Cleared(W)[w] = [old EXCEPT !.default = FALSE]
    BY <1>2, <2>1 DEF Cleared
  <2>3. PICK new \in WarehouseRow : /\ new = [old EXCEPT !.default = FALSE]
                                    /\ new.default = FALSE /\ new.deleted = old.deleted
    BY RowAfter
  <2> QED BY <1>2, <2>1, <2>2, <2>3
<1> QED BY <1>1, <1>2

(* The warehouses after a request of the business has made one, or has     *)
(* changed which is the default.                                           *)
LEMMA CreateWrites ==
  ASSUME Tagged, TenancyTyped, NEW r \in Req, CreateWarehouse(r)
  PROVE  /\ Grown /\ Live' \subseteq Live \cup {r} /\ job[r].op = "createWarehouse"
         /\ Defaults' \subseteq (Defaults \ job[r].others) \cup {r}
         /\ job[r].default # "yes" => Defaults' \subseteq Defaults
<1>1. job[r].op = "createWarehouse" /\ stage[r] = "insert"
  BY StageTells DEF CreateWarehouse, TenancyTag
<1>2. PICK j \in WarehouseJob : j = job[r] /\ \A w \in j.others : HasWarehouse(w)
  BY <1>1 DEF TenancyTyped, Prepared, WarehouseOps
<1>3. PICK d \in BOOLEAN : d = (j.default = "yes")
  OBVIOUS
<1>4. PICK new \in WarehouseRow : new = NewWarehouse(d) /\ new.default = d /\ ~new.deleted
  BY NewWarehouseIs
<1>5. warehouse' = [Cleared(j.others) EXCEPT ![r] = new]
  BY <1>2, <1>3, <1>4 DEF CreateWarehouse, WritesWarehouses
<1>6. \A w \in Id : warehouse'[w] = IF w = r THEN new ELSE Cleared(j.others)[w]
  BY <1>5 DEF Cleared
<1>7. DOMAIN warehouse' = Id /\ warehouse' = [w \in Id |-> warehouse'[w]]
  BY <1>5 DEF Cleared
<1>8. \A w \in Id : \/ w = r /\ warehouse'[w] = new
                    \/ w # r /\ w \notin j.others /\ warehouse'[w] = warehouse[w]
                    \/ /\ w # r /\ w \in j.others /\ warehouse'[w] \in WarehouseRow
                       /\ ~warehouse'[w].default /\ warehouse'[w].deleted = warehouse[w].deleted
  BY <1>2, <1>6, ClearedRows
<1>9. Grown
  BY <1>7, <1>8, GrowsBy
<1>10. Live' \subseteq Live \cup {r}
  BY <1>2, <1>8, TenancyAssumption DEF Live, HasWarehouse
<1>11. Defaults' \subseteq (Defaults \ j.others) \cup {r}
  BY <1>8, <1>10 DEF Defaults, Live
<1>12. j.default # "yes" => Defaults' \subseteq Defaults
  <2>1. j.default # "yes" => r \notin Defaults'
    BY <1>3, <1>4, <1>8 DEF Defaults, Live, Id
  <2> QED BY <1>11, <2>1
<1> QED BY <1>1, <1>2, <1>9, <1>10, <1>11, <1>12

LEMMA UpdateWrites ==
  ASSUME Tagged, TenancyTyped, NEW r \in Req, UpdateWarehouse(r)
  PROVE  /\ Grown /\ Live' \subseteq Live /\ job[r].on \in Id
         /\ Defaults' \subseteq (Defaults \ job[r].others) \cup {job[r].on}
         /\ job[r].default # "yes" => Defaults' \subseteq Defaults
<1>1. job[r].op = "updateWarehouse" /\ stage[r] = "write"
  BY DEF UpdateWarehouse
<1>2. PICK j \in WarehouseJob : /\ j = job[r] /\ HasWarehouse(j.on)
                                /\ \A w \in j.others : HasWarehouse(w)
  BY <1>1 DEF TenancyTyped, Prepared, WarehouseOps
<1>3. PICK u \in Id : u = j.on /\ HasWarehouse(u)
  BY <1>2 DEF HasWarehouse
<1>4. PICK old \in WarehouseRow :
        /\ old = Cleared(j.others)[u] /\ old.deleted = warehouse[u].deleted
        /\ old.default => u \notin j.others /\ warehouse[u].default
  BY <1>2, <1>3, ClearedRows DEF HasWarehouse
<1>5. PICK d \in BOOLEAN : d = IF j.default = "keep" THEN old.default ELSE j.default = "yes"
  BY DEF WarehouseRow
<1>6. PICK new \in WarehouseRow : /\ new = [old EXCEPT !.default = d] /\ new.default = d
                                  /\ new.deleted = old.deleted
  <2>1. /\ [old EXCEPT !.default = d] \in WarehouseRow
        /\ [old EXCEPT !.default = d].default = d
        /\ [old EXCEPT !.default = d].deleted = old.deleted
    BY DEF WarehouseRow
  <2> QED BY <2>1
<1>7. warehouse' = [Cleared(j.others) EXCEPT ![u] = new]
  BY <1>2, <1>3, <1>4, <1>5, <1>6 DEF UpdateWarehouse, WritesWarehouses, Cleared
<1>8. \A w \in Id : warehouse'[w] = IF w = u THEN new ELSE Cleared(j.others)[w]
  BY <1>7 DEF Cleared
<1>9. DOMAIN warehouse' = Id /\ warehouse' = [w \in Id |-> warehouse'[w]]
  BY <1>7 DEF Cleared
<1>10. \A w \in Id : \/ w = u /\ warehouse'[w] = new
                     \/ w # u /\ w \notin j.others /\ warehouse'[w] = warehouse[w]
                     \/ /\ w # u /\ w \in j.others /\ warehouse'[w] \in WarehouseRow
                        /\ ~warehouse'[w].default
                        /\ warehouse'[w].deleted = warehouse[w].deleted
  BY <1>2, <1>8, ClearedRows
<1>11. Grown
  BY <1>9, <1>10, GrowsBy
<1>12. Live' \subseteq Live
  <2>1. ASSUME NEW w \in Live' PROVE w \in Live
    <3>1. w \in Id /\ warehouse'[w] # None /\ ~warehouse'[w].deleted
      BY DEF Live
    <3>2. CASE w = u
      BY <1>3, <1>4, <1>6, <1>10, <3>1, <3>2, TenancyAssumption DEF Live, HasWarehouse
    <3>3. CASE w # u /\ w \in j.others
      BY <1>2, <1>10, <3>1, <3>3, TenancyAssumption DEF Live, HasWarehouse
    <3>4. CASE w # u /\ w \notin j.others
      BY <1>10, <3>1, <3>4 DEF Live
    <3> QED BY <3>2, <3>3, <3>4
  <2> QED BY <2>1
<1>13. Defaults' \subseteq (Defaults \ j.others) \cup {u}
  BY <1>10, <1>12 DEF Defaults, Live
<1>14. j.default # "yes" => Defaults' \subseteq Defaults
  <2>1. j.default # "yes" /\ u \in Defaults' => u \in Defaults
    BY <1>4, <1>5, <1>6, <1>10, <1>12 DEF Defaults, Live
  <2> QED BY <1>13, <2>1
<1> QED BY <1>2, <1>3, <1>11, <1>12, <1>13, <1>14

LEMMA RemoveWrites ==
  ASSUME Tagged, TenancyTyped, NEW r \in Req, RemoveWarehouse(r)
  PROVE  Grown /\ Live' \subseteq Live /\ Defaults' \subseteq Defaults
<1>1. job[r].op = "removeWarehouse" /\ stage[r] = "write"
  BY DEF RemoveWarehouse
<1>2. PICK u \in Id : u = job[r].on /\ HasWarehouse(u)
  BY <1>1 DEF TenancyTyped, Prepared, WarehouseOps, HasWarehouse
<1>3. PICK old \in WarehouseRow : old = warehouse[u]
  BY <1>2 DEF HasWarehouse
<1>4. PICK new \in WarehouseRow :
        new = [old EXCEPT !.deleted = TRUE, !.default = FALSE] /\ new.deleted
  BY RowAfter
<1>5. warehouse' = [warehouse EXCEPT ![u] = new]
  BY <1>2, <1>3, <1>4 DEF RemoveWarehouse, WritesWarehouses, TenancyTyped
<1>6. \A w \in Id : warehouse'[w] = IF w = u THEN new ELSE warehouse[w]
  BY <1>5 DEF TenancyTyped
<1>7. DOMAIN warehouse' = Id /\ warehouse' = [w \in Id |-> warehouse'[w]]
  BY <1>5 DEF TenancyTyped
<1>8. Grown
  BY <1>6, <1>7, GrowsBy
<1> QED BY <1>4, <1>6, <1>8 DEF Live, Defaults

LEMMA StockWrites ==
  ASSUME Tagged, TenancyTyped, NEW r \in Req, Stock(r)
  PROVE  Grown /\ Live' = Live /\ Defaults' = Defaults
<1>1. PICK u \in Live : warehouse' = [warehouse EXCEPT ![u].stocked = ~@]
  BY DEF Stock
<1>2. PICK old \in WarehouseRow : old = warehouse[u] /\ u \in Id
  BY DEF Live, TenancyTyped
<1>3. PICK s \in BOOLEAN : s = ~old.stocked
  BY DEF WarehouseRow
<1>4. PICK new \in WarehouseRow :
        /\ new = [old EXCEPT !.stocked = s] /\ new.default = old.default
        /\ new.deleted = old.deleted
  BY RowAfter
<1>5. warehouse' = [warehouse EXCEPT ![u] = new]
  BY <1>1, <1>2, <1>3, <1>4
<1>6. \A w \in Id : warehouse'[w] = IF w = u THEN new ELSE warehouse[w]
  BY <1>5 DEF TenancyTyped
<1>7. DOMAIN warehouse' = Id /\ warehouse' = [w \in Id |-> warehouse'[w]]
  BY <1>5 DEF TenancyTyped
<1>8. Grown
  BY <1>6, <1>7, GrowsBy
<1>9. Live' = Live
  BY <1>2, <1>4, <1>6, TenancyAssumption DEF Live
<1>10. ASSUME NEW w \in Live PROVE warehouse'[w].default = warehouse[w].default
  BY <1>2, <1>4, <1>6 DEF Live
<1> QED BY <1>8, <1>9, <1>10 DEF Defaults

(* The one that remains becomes the default, or one is made.               *)
LEMMA MainWrites ==
  ASSUME Tagged, TenancyTyped, NEW r \in Req, MainWarehouse(r)
  PROVE  /\ Grown /\ job[r].op = "settings"
         /\ job[r].mains # {} => Live' \subseteq Live
         /\ job[r].mains = {} => Live' \subseteq Live \cup {r}
<1>1. job[r].op = "settings" /\ stage[r] = "main"
  BY StageTells DEF MainWarehouse, TenancyTag
<1>2. PICK W : W = job[r].mains /\ \A w \in W : HasWarehouse(w)
  BY <1>1 DEF TenancyTyped, Prepared
<1>3. CASE W = {}
  <2>1. PICK new \in WarehouseRow : new = NewWarehouse(TRUE)
    BY NewWarehouseIs
  <2>2. warehouse' = [warehouse EXCEPT ![r] = new]
    BY <1>2, <1>3, <2>1 DEF MainWarehouse, WritesWarehouses
  <2>3. \A w \in Id : warehouse'[w] = IF w = r THEN new ELSE warehouse[w]
    BY <2>2 DEF TenancyTyped
  <2>4. DOMAIN warehouse' = Id /\ warehouse' = [w \in Id |-> warehouse'[w]]
    BY <2>2 DEF TenancyTyped
  <2>5. Grown
    BY <2>3, <2>4, GrowsBy
  <2> QED BY <1>1, <1>2, <1>3, <2>3, <2>5 DEF Live
<1>4. CASE W # {}
  <2>1. warehouse' = [w \in Id |-> IF w \in W THEN [warehouse[w] EXCEPT !.default = TRUE]
                                   ELSE warehouse[w]]
    BY <1>2, <1>4 DEF MainWarehouse, WritesWarehouses
  <2>2. ASSUME NEW w \in W
        PROVE  /\ warehouse'[w] \in WarehouseRow /\ warehouse[w] \in WarehouseRow
               /\ warehouse'[w].deleted = warehouse[w].deleted
    <3>1. PICK old \in WarehouseRow : old = warehouse[w] /\ w \in Id
      BY <1>2 DEF HasWarehouse
    <3>2. PICK new \in WarehouseRow :
            new = [old EXCEPT !.default = TRUE] /\ new.deleted = old.deleted
      BY RowAfter
    <3>3. warehouse'[w] = new
      BY <2>1, <3>1, <3>2
    <3> QED BY <3>1, <3>2, <3>3
  <2>3. \A w \in Id \ W : warehouse'[w] = warehouse[w]
    BY <2>1
  <2>4. DOMAIN warehouse' = Id /\ warehouse' = [w \in Id |-> warehouse'[w]]
    BY <2>1
  <2>5. Grown
    BY <2>2, <2>3, <2>4, GrowsBy
  <2>6. Live' \subseteq Live
    BY <2>2, <2>3, TenancyAssumption DEF Live
  <2> QED BY <1>1, <1>2, <1>4, <2>5, <2>6
<1> QED BY <1>3, <1>4

(* What is about to be written is of the right kind after every statement. *)
LEMMA StagesOfTenancy ==
  ASSUME Tagged, NEW r \in Req
  PROVE  /\ stage[r] \in {"handler", "clear", "insert", "main", "flag"}
              => job[r].op \in TenancyOps
         /\ stage[r] = "insert" => job[r].op = "createWarehouse"
         /\ stage[r] = "clear" => job[r].op \in {"createWarehouse", "updateWarehouse"}
         /\ stage[r] \in {"main", "flag", "list"} => job[r].op = "settings"
  BY StageTells DEF TenancyTag, TenancyOps

LEMMA NoWrites ==
  ASSUME TenancyTyped, UNCHANGED warehouse
  PROVE  Grown /\ Live' = Live /\ Defaults' = Defaults
  BY DEF TenancyTyped, Grown, HasWarehouse, Live, Defaults

WritesRows(r) ==
  CreateWarehouse(r) \/ UpdateWarehouse(r) \/ RemoveWarehouse(r) \/ MainWarehouse(r) \/ Stock(r)

LEMMA OthersWriteNone ==
  ASSUME NEW r \in Req, TenancyStatement(r), ~WritesRows(r) PROVE UNCHANGED warehouse
<1>1. CASE Console(r)
  BY <1>1 DEF Console, ReadApplication, Decide, Extend, Suspend, Activate, UpdateLimit,
    UpdateModules, SetPlan, tenancyVars, stocks
<1>2. CASE Guards(r)
  BY <1>2 DEF Guards, SubscriptionGuard, Expire, ModuleAndLimitGuards, tenancyVars, stocks
<1>3. CASE Inserts(r)
  BY <1>3 DEF Inserts, WritesRows, CreateRow, ReadWarehouse, ClearDefaults, tenancyVars, stocks
<1>4. CASE Switches(r)
  BY <1>4 DEF Switches, WritesRows, SetMulti, ReadSettings, ListWarehouses, SetFlag, SetVat,
    tenancyVars, stocks
<1> QED BY <1>1, <1>2, <1>3, <1>4 DEF TenancyStatement

LEMMA StatementGrows ==
  ASSUME Tagged, TenancyTyped, NEW r \in Req, TenancyStatement(r)
  PROVE  Grown /\ Live' \subseteq Live \cup {r}
<1>1. CASE WritesRows(r)
  BY <1>1, CreateWrites, UpdateWrites, RemoveWrites, MainWrites, StockWrites DEF WritesRows
<1>2. CASE ~WritesRows(r)
  BY <1>2, OthersWriteNone, NoWrites
<1> QED BY <1>1, <1>2

LEMMA BodyIs ==
  ASSUME NEW op \in WarehouseOps, NEW w \in Id, NEW d \in {"keep", "yes", "no"},
         NEW W \in SUBSET Id
  PROVE  /\ WarehouseBody(op, w, d, W) \in WarehouseJob
         /\ WarehouseBody(op, w, d, W).op = op /\ WarehouseBody(op, w, d, W).on = w
         /\ WarehouseBody(op, w, d, W).default = d /\ WarehouseBody(op, w, d, W).others = W
  BY DEF WarehouseBody, WarehouseJob

LEMMA LiveHasRows == ASSUME TenancyTyped, NEW w \in Live PROVE HasWarehouse(w)
  BY DEF TenancyTyped, Live, HasWarehouse

(* What ReadWarehouse has found.                                           *)
LEMMA ReadsWarehouse ==
  ASSUME Tagged, TenancyTyped, NEW r \in Req, ReadWarehouse(r)
  PROVE  \/ stage'[r] = "refused"
         \/ \E op \in WarehouseOps : \E w \in Id : \E d \in {"keep", "yes", "no"} :
              /\ job[r].op = op /\ job'[r] = WarehouseBody(op, w, d, {})
              /\ stage'[r] \in {"clear", "insert", "write"}
              /\ d = "yes" => stage'[r] = "clear"
              /\ op = "createWarehouse" => w = r /\ d # "keep" /\ (multi \/ Live = {})
              /\ op # "createWarehouse" => w \in Live
<1>1. CASE job[r].op = "createWarehouse"
  <2>1. CASE End(r, "refused")
    BY <2>1, ThenEnds
  <2>2. CASE ~End(r, "refused")
    <3>1. PICK d \in {"yes", "no"} :
            /\ multi \/ Live = {}
            /\ Goto(r, IF d = "yes" THEN "clear" ELSE "insert",
                    WarehouseBody("createWarehouse", r, d, {}))
      BY <1>1, <2>2 DEF ReadWarehouse
    <3>2. /\ stage'[r] = IF d = "yes" THEN "clear" ELSE "insert"
          /\ job'[r] = WarehouseBody("createWarehouse", r, d, {})
      BY <3>1, Then
    <3> QED BY <1>1, <3>1, <3>2 DEF WarehouseOps, Id
  <2> QED BY <2>1, <2>2
<1>2. CASE job[r].op = "updateWarehouse"
  <2>1. CASE End(r, "refused")
    BY <2>1, ThenEnds
  <2>2. CASE ~End(r, "refused")
    <3>1. PICK w \in Id : \E d \in {"keep", "yes", "no"} :
            /\ w \in Live
            /\ Goto(r, IF d = "yes" THEN "clear" ELSE "write",
                    WarehouseBody("updateWarehouse", w, d, {}))
      BY <1>2, <2>2 DEF ReadWarehouse
    <3>2. PICK d \in {"keep", "yes", "no"} :
            /\ w \in Live
            /\ Goto(r, IF d = "yes" THEN "clear" ELSE "write",
                    WarehouseBody("updateWarehouse", w, d, {}))
      BY <3>1
    <3>3. /\ stage'[r] = IF d = "yes" THEN "clear" ELSE "write"
          /\ job'[r] = WarehouseBody("updateWarehouse", w, d, {})
      BY <3>2, Then
    <3> QED BY <1>2, <3>2, <3>3 DEF WarehouseOps
  <2> QED BY <2>1, <2>2
<1>3. CASE job[r].op = "removeWarehouse"
  <2>1. CASE End(r, "refused")
    BY <2>1, ThenEnds
  <2>2. CASE ~End(r, "refused")
    <3>1. PICK w \in Id :
            w \in Live /\ Goto(r, "write", WarehouseBody("removeWarehouse", w, "keep", {}))
      BY <1>3, <2>2 DEF ReadWarehouse
    <3>2. stage'[r] = "write" /\ job'[r] = WarehouseBody("removeWarehouse", w, "keep", {})
      BY <3>1, Then
    <3> QED BY <1>3, <3>1, <3>2 DEF WarehouseOps
  <2> QED BY <2>1, <2>2
<1> QED BY <1>1, <1>2, <1>3 DEF ReadWarehouse

LEMMA ReadWarehousePrepares ==
  ASSUME Tagged, TenancyTyped, NEW r \in Req, ReadWarehouse(r), Grown
  PROVE  Prepared(r)'
<1>1. CASE stage'[r] = "refused"
  BY <1>1 DEF Prepared
<1>2. CASE stage'[r] # "refused"
  <2>1. PICK op \in WarehouseOps : \E w \in Id : \E d \in {"keep", "yes", "no"} :
              /\ job[r].op = op /\ job'[r] = WarehouseBody(op, w, d, {})
              /\ stage'[r] \in {"clear", "insert", "write"}
              /\ d = "yes" => stage'[r] = "clear"
              /\ op = "createWarehouse" => w = r /\ d # "keep" /\ (multi \/ Live = {})
              /\ op # "createWarehouse" => w \in Live
    BY <1>2, ReadsWarehouse
  <2>2. PICK w \in Id : \E d \in {"keep", "yes", "no"} :
              /\ job'[r] = WarehouseBody(op, w, d, {})
              /\ stage'[r] \in {"clear", "insert", "write"}
              /\ op = "createWarehouse" => w = r /\ d # "keep"
              /\ op # "createWarehouse" => w \in Live
    BY <2>1
  <2>3. PICK d \in {"keep", "yes", "no"} :
              /\ job'[r] = WarehouseBody(op, w, d, {})
              /\ stage'[r] \in {"clear", "insert", "write"}
              /\ op = "createWarehouse" => w = r /\ d # "keep"
              /\ op # "createWarehouse" => w \in Live
    BY <2>2
  <2>4. PICK j \in WarehouseJob :
          /\ j = WarehouseBody(op, w, d, {}) /\ j.op = op /\ j.on = w
          /\ j.default = d /\ j.others = {}
    BY BodyIs
  <2>5. op # "createWarehouse" => HasWarehouse(w)'
    BY <2>3, LiveHasRows DEF Grown
  <2> QED BY <2>3, <2>4, <2>5 DEF Prepared, WarehouseOps
<1> QED BY <1>1, <1>2

LEMMA ClearsWhat ==
  ASSUME Tagged, TenancyTyped, NEW r \in Req, ClearDefaults(r)
  PROVE  \E j \in WarehouseJob : \E new \in WarehouseJob :
           /\ j = job[r] /\ new = job'[r]
           /\ j.op \in {"createWarehouse", "updateWarehouse"}
           /\ new.op = j.op /\ new.on = j.on /\ new.default = j.default
           /\ new.others = Defaults \ {j.on}
           /\ stage'[r] = IF j.op = "createWarehouse" THEN "insert" ELSE "write"
<1>1. stage[r] = "clear" /\ job[r].op \in {"createWarehouse", "updateWarehouse"}
  BY StagesOfTenancy DEF ClearDefaults
<1>2. PICK j \in WarehouseJob : j = job[r]
  BY <1>1 DEF TenancyTyped, Prepared, WarehouseOps
<1>3. j.op \in WarehouseOps /\ j.on \in Id /\ j.default \in {"keep", "yes", "no"}
  BY DEF WarehouseJob
<1>4. PICK W \in SUBSET Id : W = Defaults \ {j.on}
  BY DEF Defaults, Live
<1>5. Goto(r, IF j.op = "createWarehouse" THEN "insert" ELSE "write",
           WarehouseBody(j.op, j.on, j.default, W))
  BY <1>2, <1>4 DEF ClearDefaults, OtherDefaults
<1>6. /\ stage'[r] = IF j.op = "createWarehouse" THEN "insert" ELSE "write"
      /\ job'[r] = WarehouseBody(j.op, j.on, j.default, W)
  BY <1>5, Then
<1>7. PICK new \in WarehouseJob :
        /\ new = WarehouseBody(j.op, j.on, j.default, W) /\ new.op = j.op /\ new.on = j.on
        /\ new.default = j.default /\ new.others = W
  BY <1>3, BodyIs
<1> QED BY <1>1, <1>2, <1>4, <1>6, <1>7

LEMMA ClearDefaultsPrepares ==
  ASSUME Tagged, TenancyTyped, NEW r \in Req, ClearDefaults(r), Grown
  PROVE  Prepared(r)'
<1>1. PICK j \in WarehouseJob : \E new \in WarehouseJob :
           /\ j = job[r] /\ new = job'[r]
           /\ j.op \in {"createWarehouse", "updateWarehouse"}
           /\ new.op = j.op /\ new.on = j.on /\ new.default = j.default
           /\ new.others = Defaults \ {j.on}
           /\ stage'[r] = IF j.op = "createWarehouse" THEN "insert" ELSE "write"
  BY ClearsWhat
<1>2. PICK new \in WarehouseJob :
           /\ j = job[r] /\ new = job'[r]
           /\ j.op \in {"createWarehouse", "updateWarehouse"}
           /\ new.op = j.op /\ new.on = j.on /\ new.default = j.default
           /\ new.others = Defaults \ {j.on}
           /\ stage'[r] = IF j.op = "createWarehouse" THEN "insert" ELSE "write"
  BY <1>1
<1>3. /\ j.op = "createWarehouse" => j.on = r /\ j.default # "keep"
      /\ j.op # "createWarehouse" => HasWarehouse(j.on)
  BY <1>2 DEF TenancyTyped, Prepared, WarehouseOps, ClearDefaults
<1>4. \A w \in Defaults : HasWarehouse(w)
  BY LiveHasRows DEF Defaults
<1>5. \A w \in Id : HasWarehouse(w) => HasWarehouse(w)'
  BY DEF Grown
<1>6. HasWarehouse(new.on)' \/ new.op = "createWarehouse"
  BY <1>2, <1>3, <1>5 DEF WarehouseJob
<1>7. \A w \in new.others : HasWarehouse(w)'
  BY <1>2, <1>4, <1>5 DEF Defaults, Live
<1> QED BY <1>2, <1>3, <1>6, <1>7 DEF Prepared

LEMMA ListsWhat ==
  ASSUME Tagged, NEW r \in Req, ListWarehouses(r), stage'[r] # "refused"
  PROVE  /\ stage[r] = "list" /\ stage'[r] = "main" /\ ~TooMany(Live)
         /\ job'[r].op = "settings" /\ job'[r].mains = Live
<1>1. PICK j : j = SettingsBody(job[r].body, job[r].vat, Live)
  OBVIOUS
<1>2. ~TooMany(Live) /\ Goto(r, "main", j) /\ stage[r] = "list"
  BY <1>1, ThenEnds DEF ListWarehouses
<1>3. j.op = "settings" /\ j.mains = Live
  BY <1>1 DEF SettingsBody
<1> QED BY <1>2, <1>3, Then

LEMMA StatementPrepares ==
  ASSUME Tagged, TenancyTyped, NEW r \in Req, TenancyStatement(r)
  PROVE  \A q \in Req : Prepared(q)'
<1>1. Grown
  BY StatementGrows
<1>2. ASSUME NEW q \in Req \ {r} PROVE Prepared(q)'
  <2>1. stage'[q] = stage[q] /\ job'[q] = job[q]
    BY TenancyMovesOne DEF Moved
  <2>2. Prepared(q)
    BY DEF TenancyTyped
  <2>3. \A w \in Id : HasWarehouse(w) => HasWarehouse(w)'
    BY <1>1 DEF Grown
  <2>4. PICK j : j = job[q] /\ j = job'[q]
    BY <2>1
  <2>5. \A w : HasWarehouse(w) => HasWarehouse(w)'
    BY <2>3 DEF HasWarehouse
  <2> QED BY <2>1, <2>2, <2>4, <2>5 DEF Prepared
<1>3. Prepared(r)'
  <2>1. CASE ReadWarehouse(r)
    BY <1>1, <2>1, ReadWarehousePrepares
  <2>2. CASE ClearDefaults(r)
    BY <1>1, <2>2, ClearDefaultsPrepares
  <2>3. CASE ListWarehouses(r)
    <3>1. CASE stage'[r] = "refused"
      BY <3>1 DEF Prepared
    <3>2. CASE stage'[r] # "refused"
      <4>1. \A w \in Live : HasWarehouse(w)'
        BY <1>1, LiveHasRows DEF Grown, Live
      <4> QED BY <2>3, <3>2, <4>1, ListsWhat DEF Prepared, WarehouseOps
    <3> QED BY <3>1, <3>2
  <2>4. CASE ~ReadWarehouse(r) /\ ~ClearDefaults(r) /\ ~ListWarehouses(r)
    <3>1. stage'[r] \notin {"clear", "insert", "write", "main"}
      BY <2>4, ConsoleGoes, GuardsGo, InsertsGo, SwitchesGo DEF TenancyStatement
    <3> QED BY <3>1 DEF Prepared
  <2> QED BY <2>1, <2>2, <2>3, <2>4
<1> QED BY <1>2, <1>3

LEMMA StatementTypes ==
  ASSUME Tagged, TenancyTyped, NEW r \in Req, TenancyStatement(r) PROVE TenancyTyped'
<1>1. Grown /\ Live' \subseteq Live \cup {r} /\ \A q \in Req : Prepared(q)'
  BY StatementGrows, StatementPrepares
<1>2. IsFiniteSet(Live')
  <2>1. IsFiniteSet(Live \cup {r})
    BY FS_AddElement DEF TenancyTyped
  <2> QED BY <1>1, <2>1, FS_Subset
<1>3. /\ multi' \in BOOLEAN /\ now' \in Nat /\ until' \in Nat \cup {None}
      /\ limit' \in [Resource -> Nat \ {0}]
  <2>1. CASE Console(r)
    <3>1. CASE Extend(r)
      <4>1. PICK days \in Periods : SetPlan("active", now + days)
        BY <3>1 DEF Extend
      <4>2. days \in Nat /\ until' = now + days /\ UNCHANGED <<multi, now, limit>>
        BY <4>1, TenancyAssumption DEF SetPlan
      <4> QED BY <4>2 DEF TenancyTyped
    <3>2. CASE UpdateLimit(r)
      <4>1. PICK res, n : /\ res \in Resource /\ n \in Limits
                          /\ limit' = [limit EXCEPT ![res] = n]
        BY <3>2 DEF UpdateLimit
      <4>2. n \in Nat \ {0}
        BY <4>1, TenancyAssumption
      <4> QED BY <3>2, <4>1, <4>2 DEF UpdateLimit, TenancyTyped
    <3>3. CASE Console(r) /\ ~Extend(r) /\ ~UpdateLimit(r)
      BY <3>3 DEF Console, ReadApplication, Decide, Suspend, Activate, UpdateModules, SetPlan,
        tenancyVars, business, TenancyTyped
    <3> QED BY <2>1, <3>1, <3>2, <3>3
  <2>2. CASE Guards(r)
    BY <2>2 DEF Guards, SubscriptionGuard, Expire, ModuleAndLimitGuards, tenancyVars, business,
      TenancyTyped
  <2>3. CASE Inserts(r)
    BY <2>3 DEF Inserts, CreateRow, ReadWarehouse, ClearDefaults, CreateWarehouse,
      UpdateWarehouse, RemoveWarehouse, Stock, tenancyVars, business, TenancyTyped
  <2>4. CASE Switches(r)
    <3>1. CASE SetFlag(r)
      <4>1. multi' \in BOOLEAN
        <5>1. multi' = (job[r].body.multi = "on")
          BY <3>1 DEF SetFlag
        <5> QED BY <5>1
      <4> QED BY <3>1, <4>1 DEF SetFlag, TenancyTyped
    <3>2. CASE Switches(r) /\ ~SetFlag(r)
      BY <3>2 DEF Switches, SetMulti, ReadSettings, ListWarehouses, MainWarehouse,
        SetVat, tenancyVars, business, TenancyTyped
    <3> QED BY <2>4, <3>1, <3>2
  <2> QED BY <2>1, <2>2, <2>3, <2>4 DEF TenancyStatement
<1>4. /\ rows' \in [{"users", "products"} -> SUBSET Req]
      /\ \A res \in {"users", "products"} : IsFiniteSet(rows'[res])
  <2>1. CASE CreateRow(r)
    <3>1. PICK res \in {"users", "products"} : rows' = [rows EXCEPT ![res] = @ \cup {r}]
      BY <2>1 DEF CreateRow, Counted
    <3>2. IsFiniteSet(rows[res] \cup {r})
      BY FS_AddElement DEF TenancyTyped
    <3> QED BY <3>1, <3>2 DEF TenancyTyped
  <2>2. CASE ~CreateRow(r)
    <3>1. rows' = rows
      <4>1. CASE Console(r)
        BY <4>1 DEF Console, ReadApplication, Decide, Extend, Suspend, Activate, UpdateLimit,
          UpdateModules, SetPlan, tenancyVars, stocks
      <4>2. CASE Guards(r)
        BY <4>2 DEF Guards, SubscriptionGuard, Expire, ModuleAndLimitGuards, tenancyVars, stocks
      <4>3. CASE Inserts(r)
        BY <2>2, <4>3 DEF Inserts, ReadWarehouse, ClearDefaults, CreateWarehouse,
          UpdateWarehouse, RemoveWarehouse, Stock, tenancyVars, stocks
      <4>4. CASE Switches(r)
        BY <4>4 DEF Switches, SetMulti, ReadSettings, ListWarehouses, MainWarehouse, SetFlag,
          SetVat, tenancyVars, stocks
      <4> QED BY <4>1, <4>2, <4>3, <4>4 DEF TenancyStatement
    <3> QED BY <3>1 DEF TenancyTyped
  <2> QED BY <2>1, <2>2
<1> QED BY <1>1, <1>2, <1>3, <1>4 DEF Grown, TenancyTyped

(* What the limits count, and the room that is left for it.                *)
Of(res) == IF res = "warehouses" THEN Live ELSE rows[res]

LEMMA CountIs ==
  ASSUME TenancyTyped, NEW res \in Resource
  PROVE  Count(res) = Cardinality(Of(res)) /\ IsFiniteSet(Of(res)) /\ Count(res) \in Nat
<1>1. Count(res) = Cardinality(Of(res)) /\ IsFiniteSet(Of(res))
  BY DEF Count, Of, TenancyTyped, Resource
<1> QED BY <1>1, FS_CardinalityType

LEMMA CountIsNext ==
  ASSUME TenancyTyped', NEW res \in Resource
  PROVE  Count(res)' = Cardinality(Of(res)') /\ IsFiniteSet(Of(res)') /\ Count(res)' \in Nat
<1>1. Count(res)' = Cardinality(Of(res)') /\ IsFiniteSet(Of(res)')
  BY DEF Count, Of, TenancyTyped, Resource
<1> QED BY <1>1, FS_CardinalityType

LEMMA CountsNoMore ==
  ASSUME TenancyTyped, TenancyTyped', NEW res \in Resource, Of(res)' \subseteq Of(res)
  PROVE  Count(res)' <= Count(res)
<1>1. PICK S, T : S = Of(res) /\ T = Of(res)'
  OBVIOUS
<1>2. IsFiniteSet(S) /\ T \in SUBSET S
  BY <1>1, CountIs
<1>3. Cardinality(T) <= Cardinality(S)
  BY <1>2, FS_Subset
<1> QED BY <1>1, <1>3, CountIs, CountIsNext

LEMMA CountsOneMore ==
  ASSUME TenancyTyped, TenancyTyped', NEW res \in Resource, NEW r,
         Of(res)' \subseteq Of(res) \cup {r}
  PROVE  Count(res)' <= Count(res) + 1
<1>1. PICK S, T : S = Of(res) /\ T = Of(res)'
  OBVIOUS
<1>2. IsFiniteSet(S) /\ T \in SUBSET (S \cup {r}) /\ Cardinality(S) \in Nat
  BY <1>1, CountIs
<1>3. IsFiniteSet(S \cup {r}) /\ Cardinality(S \cup {r}) <= Cardinality(S) + 1
  <2>1. /\ IsFiniteSet(S \cup {r})
        /\ Cardinality(S \cup {r}) = IF r \in S THEN Cardinality(S) ELSE Cardinality(S) + 1
    BY <1>2, FS_AddElement
  <2> QED BY <1>2, <2>1
<1>4. Cardinality(T) <= Cardinality(S \cup {r}) /\ Cardinality(T) \in Nat
      /\ Cardinality(S \cup {r}) \in Nat
  BY <1>1, <1>2, <1>3, FS_Subset, FS_CardinalityType, CountIsNext
<1> QED BY <1>1, <1>2, <1>3, <1>4, CountIs, CountIsNext

LEMMA RoomStays ==
  ASSUME TenancyTyped, TenancyTyped', NEW res \in Resource, RoomIn(res),
         Of(res)' \subseteq Of(res), limit'[res] >= limit[res],
         \A q \in Admitted(res)' :
           \/ Count(res) < limit[res] \/ HasMain(q)'
           \/ q \in Admitted(res) /\ stage'[q] = stage[q] /\ job'[q] = job[q]
  PROVE  RoomIn(res)'
<1>1. /\ Count(res)' <= Count(res) /\ Count(res) \in Nat /\ Count(res)' \in Nat
      /\ limit[res] \in Nat /\ limit'[res] \in Nat
  BY CountsNoMore, CountIs, CountIsNext DEF TenancyTyped
<1>2. Count(res)' <= limit'[res]
  BY <1>1 DEF RoomIn
<1>3. ASSUME NEW q \in Admitted(res)' PROVE Count(res)' < limit'[res] \/ HasMain(q)'
  <2>1. CASE Count(res) < limit[res]
    BY <1>1, <2>1
  <2>2. CASE q \in Admitted(res) /\ stage'[q] = stage[q] /\ job'[q] = job[q]
    <3>1. Count(res) < limit[res] \/ HasMain(q)
      BY <2>2 DEF RoomIn
    <3>2. HasMain(q) => HasMain(q)'
      BY <2>2 DEF HasMain
    <3> QED BY <1>1, <3>1, <3>2
  <2> QED BY <2>1, <2>2
<1> QED BY <1>2, <1>3 DEF RoomIn

LEMMA RoomTaken ==
  ASSUME TenancyTyped, TenancyTyped', NEW res \in Resource, RoomIn(res),
         NEW r \in Admitted(res), ~HasMain(r), Of(res)' \subseteq Of(res) \cup {r},
         Inserted(r, res), res \notin crossed', limit' = limit,
         Admitted(res)' \subseteq Admitted(res) \ {r}
  PROVE  RoomIn(res)'
<1>1. /\ Count(res)' <= Count(res) + 1 /\ Count(res) \in Nat /\ Count(res)' \in Nat
      /\ limit[res] \in Nat
  BY CountsOneMore, CountIs, CountIsNext DEF TenancyTyped
<1>2. Count(res) < limit[res]
  BY DEF RoomIn
<1>3. Admitted(res) \ {r} = {}
  BY DEF Inserted
<1> QED BY <1>1, <1>2, <1>3 DEF RoomIn

LEMMA CountedIs ==
  /\ Counted("createUser") = "users" /\ Counted("createProduct") = "products"
  /\ Counted("createWarehouse") = "warehouses"
  /\ \A op : op \notin {"createUser", "createProduct", "createWarehouse"} => Counted(op) = None
  /\ None \notin Resource
  BY TenancyAssumption DEF Counted

LEMMA OthersAdmitted ==
  ASSUME NEW r \in Req, Moved(r), NEW res
  PROVE  \A q \in Admitted(res)' \ {r} :
           q \in Admitted(res) /\ stage'[q] = stage[q] /\ job'[q] = job[q]
<1>1. ASSUME NEW q \in Admitted(res)' \ {r}
      PROVE  q \in Admitted(res) /\ stage'[q] = stage[q] /\ job'[q] = job[q]
  <2>1. q \in Req /\ stage'[q] = stage[q] /\ job'[q] = job[q]
    BY DEF Admitted, Moved
  <2>2. \/ Counted(job'[q].op) = res /\ stage'[q] \in {"handler", "clear", "insert"}
        \/ res = "warehouses" /\ stage'[q] = "main"
    BY DEF Admitted
  <2> QED BY <2>1, <2>2 DEF Admitted
<1> QED BY <1>1

LEMMA ReadWarehouseRoom ==
  ASSUME Tagged, TenancyTyped, NEW r \in Req, ReadWarehouse(r), NEW res \in Resource,
         r \in Admitted(res)'
  PROVE  r \in Admitted(res) /\ stage[r] = "handler"
<1>1. stage[r] = "handler"
  BY DEF ReadWarehouse
<1>2. CASE stage'[r] = "refused"
  BY <1>2 DEF Admitted
<1>3. CASE stage'[r] # "refused"
  <2>1. PICK op \in WarehouseOps : \E w \in Id : \E d \in {"keep", "yes", "no"} :
          /\ job[r].op = op /\ job'[r] = WarehouseBody(op, w, d, {})
          /\ stage'[r] \in {"clear", "insert", "write"}
    BY <1>3, ReadsWarehouse
  <2>2. job'[r].op = op
    BY <2>1 DEF WarehouseBody
  <2>3. Counted(op) = res
    BY <2>1, <2>2 DEF Admitted
  <2> QED BY <1>1, <2>1, <2>3 DEF Admitted
<1> QED BY <1>2, <1>3

LEMMA StatementLeavesRoom ==
  ASSUME Tagged, TenancyTyped, TenancyTyped', RoomLeft, NEW r \in Req, TenancyStatement(r)
  PROVE  RoomLeft'
<1>0. Moved(r)
  BY TenancyMovesOne
<1>1. ASSUME NEW res \in Resource, res \notin crossed', crossed \subseteq crossed',
             Of(res)' \subseteq Of(res), limit'[res] >= limit[res],
             r \in Admitted(res)' => \/ Count(res) < limit[res] \/ HasMain(r)'
                                     \/ /\ r \in Admitted(res) /\ ~HasMain(r)
      PROVE  RoomIn(res)'
  <2>1. RoomIn(res)
    BY <1>1 DEF RoomLeft
  <2>2. \A q \in Admitted(res)' :
           \/ Count(res) < limit[res] \/ HasMain(q)'
           \/ q \in Admitted(res) /\ stage'[q] = stage[q] /\ job'[q] = job[q]
    BY <1>0, <1>1, <2>1, OthersAdmitted DEF RoomIn
  <2> QED BY <1>1, <2>1, <2>2, RoomStays
<1>2. ASSUME NEW res \in Resource, res \notin crossed', crossed \subseteq crossed',
             Of(res)' \subseteq Of(res) \cup {r}, limit' = limit, r \in Admitted(res),
             ~HasMain(r), Inserted(r, res), r \notin Admitted(res)'
      PROVE  RoomIn(res)'
  <2>1. RoomIn(res)
    BY <1>2 DEF RoomLeft
  <2>2. Admitted(res)' \subseteq Admitted(res) \ {r}
    BY <1>0, <1>2, OthersAdmitted
  <2> QED BY <1>2, <2>1, <2>2, RoomTaken
<1>3. limit' = limit => \A res \in Resource : limit'[res] >= limit[res]
  BY DEF TenancyTyped
<1>4. CASE CreateRow(r)
  <2>1. PICK own \in {"users", "products"} :
          /\ own = Counted(job[r].op) /\ rows' = [rows EXCEPT ![own] = @ \cup {r}]
          /\ Inserted(r, own)
    BY <1>4, CountedIs DEF CreateRow
  <2>2. stage'[r] = "done"
    BY <1>4, ThenEnds DEF CreateRow
  <2>3. r \in Admitted(own) /\ ~HasMain(r)
    BY <1>4, <2>1 DEF CreateRow, Admitted, HasMain
  <2>4. crossed \subseteq crossed' /\ limit' = limit /\ warehouse' = warehouse
    BY <1>4, <2>1 DEF CreateRow, Inserted, business
  <2>5. \A res : r \notin Admitted(res)'
    BY <2>2 DEF Admitted
  <2>6. ASSUME NEW res \in Resource, res \notin crossed', res # own PROVE Of(res)' = Of(res)
    BY <2>1, <2>4, <2>6 DEF Of, Live, TenancyTyped, Resource
  <2>7. Of(own)' \subseteq Of(own) \cup {r}
    BY <2>1 DEF Of, TenancyTyped
  <2> QED BY <1>1, <1>2, <1>3, <2>1, <2>3, <2>4, <2>5, <2>6, <2>7 DEF RoomLeft, Resource
<1>5. CASE CreateWarehouse(r) \/ (MainWarehouse(r) /\ job[r].mains = {})
  <2>1. Live' \subseteq Live \cup {r}
    BY StatementGrows
  <2>2. /\ limit' = limit /\ rows' = rows /\ Inserted(r, "warehouses")
        /\ r \in Admitted("warehouses") /\ ~HasMain(r) /\ stage'[r] \in {"done", "flag"}
    <3>1. CASE CreateWarehouse(r)
      <4>1. job[r].op = "createWarehouse" /\ stage[r] = "insert"
        BY <3>1, StagesOfTenancy DEF CreateWarehouse
      <4>2. stage'[r] = "done"
        BY <3>1, ThenEnds DEF CreateWarehouse
      <4>3. /\ limit' = limit /\ rows' = rows /\ Inserted(r, "warehouses")
        BY <3>1 DEF CreateWarehouse, business
      <4> QED BY <4>1, <4>2, <4>3, CountedIs DEF Admitted, HasMain
    <3>2. CASE MainWarehouse(r) /\ job[r].mains = {}
      <4>1. stage[r] = "main" /\ stage'[r] = "flag"
        BY <3>2, Then DEF MainWarehouse
      <4>2. /\ limit' = limit /\ rows' = rows /\ Inserted(r, "warehouses")
        BY <3>2 DEF MainWarehouse, business
      <4> QED BY <3>2, <4>1, <4>2 DEF Admitted, HasMain
    <3> QED BY <1>5, <3>1, <3>2
  <2>3. crossed \subseteq crossed' /\ \A res : r \notin Admitted(res)'
    BY <2>2 DEF Admitted, Inserted
  <2>4. \A res \in Resource : res # "warehouses" => Of(res)' = Of(res)
    BY <2>2 DEF Of
  <2>5. Of("warehouses")' \subseteq Of("warehouses") \cup {r}
    BY <2>1 DEF Of
  <2> QED BY <1>1, <1>2, <1>3, <2>2, <2>3, <2>4, <2>5 DEF RoomLeft, Resource
<1>6. CASE UpdateLimit(r)
  <2>1. PICK own, n : /\ own \in Resource /\ n \in Limits
                      /\ limit' = [limit EXCEPT ![own] = n]
                      /\ crossed' = IF n < limit[own] THEN crossed \cup {own} ELSE crossed
    BY <1>6 DEF UpdateLimit
  <2>2. n \in Nat /\ limit \in [Resource -> Nat]
    BY <2>1, TenancyAssumption DEF TenancyTyped
  <2>3. \A res \in Resource : res \notin crossed' => limit'[res] >= limit[res]
    BY <2>1, <2>2
  <2>4. stage'[r] = "done"
    BY <1>6, ThenEnds DEF UpdateLimit
  <2>5. UNCHANGED <<warehouse, rows>>
    BY <1>6 DEF UpdateLimit, stocks
  <2>6. \A res \in Resource : Of(res)' = Of(res) /\ r \notin Admitted(res)'
    BY <2>4, <2>5 DEF Of, Live, Admitted
  <2>7. crossed \subseteq crossed'
    BY <2>1
  <2> QED BY <1>1, <2>3, <2>6, <2>7 DEF RoomLeft
<1>7. CASE ~CreateRow(r) /\ ~UpdateLimit(r) /\ ~CreateWarehouse(r)
           /\ ~(MainWarehouse(r) /\ job[r].mains = {})
  <2>1. crossed' = crossed /\ limit' = limit /\ rows' = rows
    <3>1. CASE Console(r)
      BY <1>7, <3>1 DEF Console, ReadApplication, Decide, Extend, Suspend, Activate,
        UpdateModules, SetPlan, tenancyVars, business, stocks, observed
    <3>2. CASE Guards(r)
      BY <3>2 DEF Guards, SubscriptionGuard, Expire, ModuleAndLimitGuards, tenancyVars,
        business, stocks, observed
    <3>3. CASE Inserts(r)
      BY <1>7, <3>3 DEF Inserts, ReadWarehouse, ClearDefaults, UpdateWarehouse,
        RemoveWarehouse, Stock, tenancyVars, business, stocks, observed
    <3>4. CASE Switches(r)
      BY <1>7, <3>4 DEF Switches, SetMulti, ReadSettings, ListWarehouses, MainWarehouse,
        SetFlag, SetVat, tenancyVars, business, stocks, observed
    <3> QED BY <3>1, <3>2, <3>3, <3>4 DEF TenancyStatement
  <2>2. Live' \subseteq Live
    <3>1. CASE WritesRows(r)
      BY <1>7, <3>1, UpdateWrites, RemoveWrites, MainWrites, StockWrites DEF WritesRows
    <3>2. CASE ~WritesRows(r)
      BY <3>2, OthersWriteNone, NoWrites
    <3> QED BY <3>1, <3>2
  <2>3. \A res \in Resource : Of(res)' \subseteq Of(res)
    BY <2>1, <2>2 DEF Of
  <2>4. ASSUME NEW res \in Resource, r \in Admitted(res)'
        PROVE  \/ Count(res) < limit[res] \/ HasMain(r)'
               \/ /\ r \in Admitted(res) /\ ~HasMain(r)
    <3>1. CASE ModuleAndLimitGuards(r)
      <4>1. /\ stage'[r] = "handler" /\ job'[r] = job[r]
            /\ ~IsFull(Count(Counted(job[r].op)), limit[Counted(job[r].op)])
        BY <2>4, <3>1, GuardsGo DEF Guards, Admitted
      <4>2. Counted(job[r].op) = res
        BY <2>4, <4>1 DEF Admitted
      <4>3. Count(res) \in Nat /\ limit[res] \in Nat
        BY CountIs DEF TenancyTyped
      <4> QED BY <4>1, <4>2, <4>3 DEF IsFull
    <3>2. CASE SubscriptionGuard(r) \/ Expire(r)
      BY <2>4, <3>2, GuardsGo, CountedIs DEF Guards, Admitted
    <3>3. CASE ReadWarehouse(r)
      BY <2>4, <3>3, ReadWarehouseRoom DEF HasMain
    <3>4. CASE ClearDefaults(r)
      <4>1. job'[r].op = job[r].op /\ stage[r] = "clear" /\ stage'[r] # "main"
        BY <3>4, ClearsWhat DEF ClearDefaults
      <4> QED BY <2>4, <4>1 DEF Admitted, HasMain
    <3>5. CASE ListWarehouses(r)
      <4>1. stage'[r] = "main" /\ job'[r].mains = Live
        BY <2>4, <3>5, ListsWhat DEF Admitted
      <4>2. job'[r].op = "settings"
        BY <2>4, <3>5, ListsWhat DEF Admitted
      <4>3. res = "warehouses"
        BY <2>4, <4>1 DEF Admitted
      <4>4. CASE Live = {}
        <5>1. Count(res) = 0 /\ limit[res] \in Nat \ {0}
          BY <4>3, <4>4, FS_EmptySet DEF Count, TenancyTyped
        <5> QED BY <5>1
      <4> QED BY <4>1, <4>4 DEF HasMain
    <3>6. CASE /\ ~Guards(r) /\ ~ReadWarehouse(r) /\ ~ClearDefaults(r)
               /\ ~ListWarehouses(r)
      <4>1. stage'[r] \notin {"handler", "clear", "insert", "main"}
        BY <3>6, ConsoleGoes, InsertsGo, SwitchesGo DEF TenancyStatement
      <4> QED BY <2>4, <4>1 DEF Admitted
    <3> QED BY <3>1, <3>2, <3>3, <3>4, <3>5, <3>6 DEF Guards
  <2> QED BY <1>1, <1>3, <2>1, <2>3, <2>4 DEF RoomLeft
<1> QED BY <1>4, <1>5, <1>6, <1>7

DefaultsNow == /\ AtMostOne(Defaults) /\ (multi \/ AtMostOne(Live))
               /\ \A r \in AtWarehouses : StillSo(r)

LEMMA StillSoKept ==
  ASSUME NEW q \in Req, stage'[q] = stage[q], job'[q] = job[q], StillSo(q),
         Live' = Live, Defaults' = Defaults, multi' = multi \/ multi'
  PROVE  StillSo(q)'
<1>1. PICK j, s : j = job[q] /\ s = stage[q]
  OBVIOUS
<1>2. job'[q] = j /\ stage'[q] = s
  BY <1>1
<1>3. /\ j.op = "createWarehouse" => multi \/ Live = {}
      /\ j.op \in WarehouseOps /\ s \in {"insert", "write"} /\ j.default = "yes"
           => Defaults \ {j.on} \subseteq j.others
      /\ s = "main" => j.mains = Live /\ AtMostOne(Live)
      /\ s = "flag" => j.body.multi = "on" \/ AtMostOne(Live)
  BY <1>1 DEF StillSo
<1>4. j.op = "createWarehouse" => multi' \/ Live' = {}
  BY <1>3
<1> QED BY <1>2, <1>3, <1>4 DEF StillSo

LEMMA NobodyElse ==
  ASSUME NEW r \in Req, Moved(r) PROVE AtWarehouses' \ {r} = AtWarehouses \ {r}
  BY DEF Moved, AtWarehouses

(* While nobody else is at the warehouses, all depends on the one who is.  *)
LEMMA Alone ==
  ASSUME NEW r \in Req, Moved(r), AtWarehouses \ {r} = {}, AtMostOne(Defaults'),
         multi' \/ AtMostOne(Live'), r \in AtWarehouses' => StillSo(r)'
  PROVE  DefaultsNow'
  BY NobodyElse DEF DefaultsNow, AtMostOne

LEMMA SameWarehouses ==
  ASSUME NEW r \in Req, Moved(r), DefaultsNow, Live' = Live, Defaults' = Defaults,
         multi' = multi \/ multi', r \in AtWarehouses' => StillSo(r)'
  PROVE  DefaultsNow'
<1>1. ASSUME NEW q \in AtWarehouses' PROVE StillSo(q)'
  <2>1. CASE q = r
    BY <1>1, <2>1
  <2>2. CASE q # r
    <3>1. q \in AtWarehouses /\ q \in Req
      BY <1>1, <2>2, NobodyElse DEF AtWarehouses
    <3>2. stage'[q] = stage[q] /\ job'[q] = job[q] /\ StillSo(q)
      BY <2>2, <3>1 DEF Moved, DefaultsNow
    <3> QED BY <3>1, <3>2, StillSoKept
  <2> QED BY <2>1, <2>2
<1>2. AtMostOne(Defaults') /\ (multi' \/ AtMostOne(Live'))
  BY DEF DefaultsNow
<1> QED BY <1>1, <1>2 DEF DefaultsNow, AtMostOne

LEMMA WritersKeepOne ==
  ASSUME Tagged, TenancyTyped, DefaultsNow, NEW r \in Req,
         CreateWarehouse(r) \/ UpdateWarehouse(r) \/ RemoveWarehouse(r), ~overlap'
  PROVE  DefaultsNow'
<1>1. /\ AtWarehouses \ {r} = {} /\ multi' = multi
  BY DEF CreateWarehouse, UpdateWarehouse, RemoveWarehouse, WritesWarehouses, business
<1>2. stage'[r] = "done" /\ Moved(r)
  BY Ends DEF CreateWarehouse, UpdateWarehouse, RemoveWarehouse
<1>3. r \notin AtWarehouses'
  BY <1>2 DEF AtWarehouses
<1>4. CASE CreateWarehouse(r)
  <2>1. job[r].op = "createWarehouse" /\ stage[r] = "insert" /\ r \in AtWarehouses
    BY <1>4, StagesOfTenancy DEF CreateWarehouse, AtWarehouses
  <2>2. /\ Live' \subseteq Live \cup {r}
        /\ Defaults' \subseteq (Defaults \ job[r].others) \cup {r}
        /\ job[r].default # "yes" => Defaults' \subseteq Defaults
    BY <1>4, CreateWrites
  <2>3. /\ multi \/ Live = {}
        /\ job[r].default = "yes" => Defaults \ {job[r].on} \subseteq job[r].others
    BY <2>1 DEF DefaultsNow, StillSo, WarehouseOps
  <2>4. job[r].on = r
    BY <2>1 DEF TenancyTyped, Prepared, WarehouseOps
  <2>5. Defaults' \subseteq {r} \/ Defaults' \subseteq Defaults
    BY <2>2, <2>3, <2>4
  <2>6. AtMostOne(Defaults') /\ (multi' \/ AtMostOne(Live'))
    BY <1>1, <2>2, <2>3, <2>5 DEF AtMostOne, DefaultsNow
  <2> QED BY <1>1, <1>2, <1>3, <2>6, Alone
<1>5. CASE UpdateWarehouse(r)
  <2>1. job[r].op = "updateWarehouse" /\ stage[r] = "write" /\ r \in AtWarehouses
    BY <1>5 DEF UpdateWarehouse, AtWarehouses
  <2>2. PICK on, others : on = job[r].on /\ others = job[r].others
    OBVIOUS
  <2>3. /\ Live' \subseteq Live
        /\ Defaults' \subseteq (Defaults \ others) \cup {on}
        /\ job[r].default # "yes" => Defaults' \subseteq Defaults
    BY <1>5, <2>2, UpdateWrites
  <2>4. job[r].default = "yes" => Defaults \ {on} \subseteq others
    BY <2>1, <2>2 DEF DefaultsNow, StillSo, WarehouseOps
  <2>5. Defaults' \subseteq {on} \/ Defaults' \subseteq Defaults
    BY <2>3, <2>4
  <2>6. AtMostOne(Defaults') /\ (multi' \/ AtMostOne(Live'))
    BY <1>1, <2>3, <2>5 DEF AtMostOne, DefaultsNow
  <2> QED BY <1>1, <1>2, <1>3, <2>6, Alone
<1>6. CASE RemoveWarehouse(r)
  <2>1. Live' \subseteq Live /\ Defaults' \subseteq Defaults
    BY <1>6, RemoveWrites
  <2>2. AtMostOne(Defaults') /\ (multi' \/ AtMostOne(Live'))
    BY <1>1, <2>1 DEF AtMostOne, DefaultsNow
  <2> QED BY <1>1, <1>2, <1>3, <2>2, Alone
<1> QED BY <1>4, <1>5, <1>6

LEMMA MainKeepsOne ==
  ASSUME Tagged, TenancyTyped, DefaultsNow, NEW r \in Req, MainWarehouse(r), ~overlap'
  PROVE  DefaultsNow'
<1>1. AtWarehouses \ {r} = {}
  BY DEF MainWarehouse, WritesWarehouses
<1>2. stage[r] = "main" /\ job[r].op = "settings" /\ r \in AtWarehouses
  BY StagesOfTenancy DEF MainWarehouse, AtWarehouses
<1>3. stage'[r] = "flag" /\ job'[r] = job[r] /\ Moved(r)
  BY GoesOn DEF MainWarehouse, Tagged
<1>4. job[r].mains = Live /\ AtMostOne(Live)
  BY <1>2 DEF DefaultsNow, StillSo
<1>5. Live' \subseteq Live \/ Live' \subseteq {r}
  BY <1>4, MainWrites
<1>6. AtMostOne(Live')
  BY <1>4, <1>5 DEF AtMostOne
<1>7. AtMostOne(Defaults')
  <2>1. Defaults' \subseteq Live'
    BY DEF Defaults
  <2> QED BY <1>6, <2>1 DEF AtMostOne
<1>8. StillSo(r)'
  BY <1>2, <1>3, <1>6 DEF StillSo, WarehouseOps, AtMostOne
<1> QED BY <1>1, <1>3, <1>6, <1>7, <1>8, Alone

LEMMA FlagKeepsOne ==
  ASSUME Tagged, TenancyTyped, DefaultsNow, NEW r \in Req, SetFlag(r), ~overlap'
  PROVE  DefaultsNow'
<1>1. AtWarehouses \ {r} = {} /\ multi' = (job[r].body.multi = "on")
  BY DEF SetFlag
<1>2. Live' = Live /\ Defaults' = Defaults
  BY NoWrites DEF SetFlag, stocks
<1>3. stage[r] = "flag" /\ job[r].op = "settings" /\ r \in AtWarehouses
  BY StagesOfTenancy DEF SetFlag, AtWarehouses
<1>4. stage'[r] = "vat" /\ Moved(r)
  BY GoesOn DEF SetFlag, Tagged
<1>5. job[r].body.multi = "on" \/ AtMostOne(Live)
  BY <1>3 DEF DefaultsNow, StillSo
<1>6. multi' \/ AtMostOne(Live')
  BY <1>1, <1>2, <1>5
<1>7. AtMostOne(Defaults') /\ r \notin AtWarehouses'
  BY <1>2, <1>4 DEF DefaultsNow, AtWarehouses
<1> QED BY <1>1, <1>4, <1>6, <1>7, Alone

(* What a request finds when it comes to the warehouses is so.             *)
LEMMA ReadersAreRight ==
  ASSUME Tagged, TenancyTyped, DefaultsNow, NEW r \in Req, r \in AtWarehouses',
         Live' = Live, Defaults' = Defaults, multi' = multi,
         ReadWarehouse(r) \/ ClearDefaults(r) \/ ReadSettings(r) \/ ListWarehouses(r)
  PROVE  StillSo(r)'
<1>1. CASE ReadWarehouse(r)
  <2>1. stage'[r] # "refused"
    BY DEF AtWarehouses
  <2>2. PICK op \in WarehouseOps : \E w \in Id : \E d \in {"keep", "yes", "no"} :
              /\ job'[r] = WarehouseBody(op, w, d, {})
              /\ stage'[r] \in {"clear", "insert", "write"}
              /\ d = "yes" => stage'[r] = "clear"
              /\ op = "createWarehouse" => multi \/ Live = {}
    BY <1>1, <2>1, ReadsWarehouse
  <2>3. PICK w \in Id : \E d \in {"keep", "yes", "no"} :
              /\ job'[r] = WarehouseBody(op, w, d, {})
              /\ stage'[r] \in {"clear", "insert", "write"}
              /\ d = "yes" => stage'[r] = "clear"
              /\ op = "createWarehouse" => multi \/ Live = {}
    BY <2>2
  <2>4. PICK d \in {"keep", "yes", "no"} :
              /\ job'[r] = WarehouseBody(op, w, d, {})
              /\ stage'[r] \in {"clear", "insert", "write"}
              /\ d = "yes" => stage'[r] = "clear"
              /\ op = "createWarehouse" => multi \/ Live = {}
    BY <2>3
  <2>5. PICK j \in WarehouseJob : j = WarehouseBody(op, w, d, {}) /\ j.op = op /\ j.default = d
    BY BodyIs
  <2> QED BY <2>4, <2>5 DEF StillSo
<1>2. CASE ClearDefaults(r)
  <2>1. r \in AtWarehouses
    BY <1>2, StagesOfTenancy DEF ClearDefaults, AtWarehouses
  <2>2. job[r].op = "createWarehouse" => multi \/ Live = {}
    BY <2>1 DEF DefaultsNow, StillSo
  <2>3. PICK j \in WarehouseJob : \E new \in WarehouseJob :
           /\ j = job[r] /\ new = job'[r]
           /\ new.op = j.op /\ new.on = j.on /\ new.others = Defaults \ {j.on}
           /\ stage'[r] = IF j.op = "createWarehouse" THEN "insert" ELSE "write"
    BY <1>2, ClearsWhat
  <2>4. PICK new \in WarehouseJob :
           /\ j = job[r] /\ new = job'[r]
           /\ new.op = j.op /\ new.on = j.on /\ new.others = Defaults \ {j.on}
           /\ stage'[r] = IF j.op = "createWarehouse" THEN "insert" ELSE "write"
    BY <2>3
  <2> QED BY <2>2, <2>4 DEF StillSo
<1>3. CASE ReadSettings(r)
  <2>1. stage'[r] = "flag"
    <3>1. stage'[r] \in {"list", "flag", "vat"}
      <4>1. \E j : Goto(r, "list", j) \/ Goto(r, "flag", j) \/ Goto(r, "vat", j)
        BY <1>3 DEF ReadSettings
      <4> QED BY <4>1, Then
    <3> QED BY <3>1 DEF AtWarehouses
  <2>2. PICK body \in Settings : \E s : \E j :
          /\ j = SettingsBody(body, vat, {}) /\ Goto(r, s, j)
          /\ s = IF body.multi = "off" /\ multi THEN "list"
                 ELSE IF body.multi = "on" /\ ~multi THEN "flag" ELSE "vat"
    BY <1>3 DEF ReadSettings
  <2>3. PICK s, j :
          /\ j = SettingsBody(body, vat, {}) /\ Goto(r, s, j)
          /\ s = IF body.multi = "off" /\ multi THEN "list"
                 ELSE IF body.multi = "on" /\ ~multi THEN "flag" ELSE "vat"
    BY <2>2
  <2>4. j.op = "settings" /\ j.body = body
    BY <2>3 DEF SettingsBody
  <2>5. stage'[r] = s /\ job'[r] = j
    BY <2>3, Then
  <2>6. body.multi = "on"
    BY <2>1, <2>3, <2>5
  <2> QED BY <2>1, <2>4, <2>5, <2>6 DEF StillSo, WarehouseOps
<1>4. CASE ListWarehouses(r)
  <2>1. /\ stage'[r] = "main" /\ ~TooMany(Live)
        /\ job'[r].op = "settings" /\ job'[r].mains = Live
    BY <1>4, ListsWhat DEF AtWarehouses
  <2>2. IsFiniteSet(Live) /\ Cardinality(Live) \in Nat
    BY FS_CardinalityType DEF TenancyTyped
  <2>3. AtMostOne(Live)
    BY <2>1, <2>2, OneIsFew DEF TooMany
  <2> QED BY <2>1, <2>3 DEF StillSo, WarehouseOps, AtMostOne
<1> QED BY <1>1, <1>2, <1>3, <1>4

Readers(r) == ReadWarehouse(r) \/ ClearDefaults(r) \/ ReadSettings(r) \/ ListWarehouses(r)

LEMMA StatementKeepsOne ==
  ASSUME Tagged, TenancyTyped, DefaultsApart, NEW r \in Req, TenancyStatement(r)
  PROVE  DefaultsApart'
<1> SUFFICES ASSUME ~overlap' PROVE DefaultsNow'
  BY DEF DefaultsApart, DefaultsNow
<1>1. Moved(r)
  BY TenancyMovesOne
<1>2. ~overlap
  <2>1. CASE Console(r)
    BY <2>1 DEF Console, ReadApplication, Decide, Extend, Suspend, Activate,
      UpdateLimit, UpdateModules, SetPlan, tenancyVars, observed
  <2>2. CASE Guards(r)
    BY <2>2 DEF Guards, SubscriptionGuard, Expire, ModuleAndLimitGuards, tenancyVars, observed
  <2>3. CASE Inserts(r)
    BY <2>3 DEF Inserts, CreateRow, ReadWarehouse, ClearDefaults, CreateWarehouse,
      UpdateWarehouse, RemoveWarehouse, Stock, WritesWarehouses, tenancyVars, observed
  <2>4. CASE Switches(r)
    BY <2>4 DEF Switches, SetMulti, ReadSettings, ListWarehouses, MainWarehouse,
      SetFlag, SetVat, WritesWarehouses, tenancyVars, observed
  <2> QED BY <2>1, <2>2, <2>3, <2>4 DEF TenancyStatement
<1>10. ASSUME ~SetMulti(r), ~SetFlag(r) PROVE multi' = multi
  <2>1. CASE Console(r)
    BY <2>1 DEF Console, ReadApplication, Decide, Extend, Suspend, Activate,
      UpdateLimit, UpdateModules, SetPlan, tenancyVars, business
  <2>2. CASE Guards(r)
    BY <2>2 DEF Guards, SubscriptionGuard, Expire, ModuleAndLimitGuards, tenancyVars, business
  <2>3. CASE ReadWarehouse(r)
    <3>1. UNCHANGED tenancyVars
      BY <2>3 DEF ReadWarehouse
    <3> QED BY <3>1 DEF tenancyVars, business
  <2>4. CASE Inserts(r) /\ ~ReadWarehouse(r)
    BY <2>4 DEF Inserts, CreateRow, ClearDefaults, CreateWarehouse,
      UpdateWarehouse, RemoveWarehouse, Stock, tenancyVars, business
  <2>5. CASE ReadSettings(r)
    <3>1. UNCHANGED tenancyVars
      BY <2>5 DEF ReadSettings
    <3> QED BY <3>1 DEF tenancyVars, business
  <2>6. CASE Switches(r) /\ ~ReadSettings(r)
    BY <1>10, <2>6 DEF Switches, ListWarehouses, MainWarehouse, SetVat, tenancyVars, business
  <2> QED BY <2>1, <2>2, <2>3, <2>4, <2>5, <2>6 DEF TenancyStatement
<1>3. DefaultsNow
  BY <1>2 DEF DefaultsApart, DefaultsNow
<1>4. CASE CreateWarehouse(r) \/ UpdateWarehouse(r) \/ RemoveWarehouse(r)
  BY <1>3, <1>4, WritersKeepOne
<1>5. CASE MainWarehouse(r)
  BY <1>3, <1>5, MainKeepsOne
<1>6. CASE SetFlag(r)
  BY <1>3, <1>6, FlagKeepsOne
<1>7. CASE Stock(r)
  <2>1. Live' = Live /\ Defaults' = Defaults /\ multi' = multi
    BY <1>7, StockWrites DEF Stock, business
  <2>2. stage'[r] = "done"
    BY <1>7, ThenEnds DEF Stock
  <2> QED BY <1>1, <1>3, <2>1, <2>2, SameWarehouses DEF AtWarehouses
<1>8. CASE SetMulti(r)
  <2>1. Live' = Live /\ Defaults' = Defaults
    BY <1>8, NoWrites DEF SetMulti, stocks
  <2>2. multi' \in BOOLEAN /\ multi'
    BY <1>8 DEF SetMulti
  <2>3. stage'[r] = "done"
    BY <1>8, ThenEnds DEF SetMulti
  <2> QED BY <1>1, <1>3, <2>1, <2>2, <2>3, SameWarehouses DEF AtWarehouses
<1>9. CASE /\ ~WritesRows(r) /\ ~SetMulti(r) /\ ~SetFlag(r)
  <2>1. Live' = Live /\ Defaults' = Defaults /\ multi' = multi
    BY <1>10, <1>9, OthersWriteNone, NoWrites
  <2>2. CASE Readers(r)
    BY <1>1, <1>3, <2>1, <2>2, ReadersAreRight, SameWarehouses DEF Readers
  <2>3. CASE ~Readers(r)
    <3>1. ASSUME Console(r) \/ Guards(r) PROVE r \notin AtWarehouses'
      BY <3>1, ConsoleGoes, GuardsGo DEF AtWarehouses
    <3>2. ASSUME Inserts(r) PROVE r \notin AtWarehouses'
      BY <1>9, <2>3, <3>2, InsertsGo DEF AtWarehouses, Readers, WritesRows
    <3>3. ASSUME Switches(r) PROVE r \notin AtWarehouses'
      <4>1. SetVat(r)
        BY <1>9, <2>3, <3>3 DEF Switches, WritesRows, Readers
      <4>2. stage'[r] \in {"done", "refused"}
        <5>1. End(r, "done") \/ End(r, "refused")
          BY <4>1 DEF SetVat
        <5> QED BY <5>1, ThenEnds
      <4> QED BY <4>2 DEF AtWarehouses
    <3>4. r \notin AtWarehouses'
      BY <3>1, <3>2, <3>3 DEF TenancyStatement
    <3> QED BY <1>1, <1>3, <2>1, <3>4, SameWarehouses
  <2> QED BY <2>2, <2>3
<1> QED BY <1>4, <1>5, <1>6, <1>7, <1>8, <1>9 DEF WritesRows

(* What the platform grants, after every step.                             *)
TenancyInv == TenancyTyped /\ DecidedLast /\ ExpiresOver /\ RoomLeft /\ DefaultsApart

LEMMA TenancyStartsTyped ==
  ASSUME Init
  PROVE  TenancyInv /\ Tagged
<1>1. /\ \A r \in Req : stage[r] = "new" /\ job[r] = Idle
      /\ Tagged
  BY DEF Init, RequestsInit, Tagged, Tag, IdleTag, Idle
<1>2. PICK first : first = CHOOSE v \in Warehouse0 : TRUE
  OBVIOUS
<1>3. /\ \A w \in Warehouse0 : warehouse[w] = NewWarehouse(w = first)
      /\ \A w \in Id \ Warehouse0 : warehouse[w] = None
      /\ warehouse = [w \in Id |-> warehouse[w]]
  BY <1>2 DEF Init, TenancyInit, Id
<1>4. ASSUME NEW w \in Warehouse0
      PROVE  /\ warehouse[w] \in WarehouseRow
             /\ warehouse[w].default => w = first
  <2>1. PICK d \in BOOLEAN : d = (w = first)
    OBVIOUS
  <2> QED BY <1>3, <2>1, NewWarehouseIs
<1>5. warehouse \in [Id -> WarehouseRow \cup {None}]
  BY <1>3, <1>4
<1>6. Live \subseteq Warehouse0 /\ Defaults \subseteq {first}
  BY <1>3, <1>4 DEF Live, Defaults
<1>7. IsFiniteSet(Live) /\ Cardinality(Live) <= Cardinality(Warehouse0)
  BY <1>6, FS_Subset, TenancyAssumption
<1>8. /\ multi = TRUE /\ now = 0 /\ until = None /\ limit = Limit0
      /\ rows = [res \in {"users", "products"} |-> {}] /\ plan \in {"trial", "active"}
      /\ decisions = {}
  BY DEF Init, TenancyInit
<1>9. TenancyTyped
  <2>1. rows \in [{"users", "products"} -> SUBSET Req]
        /\ \A res \in {"users", "products"} : IsFiniteSet(rows[res])
    BY <1>8, FS_EmptySet
  <2>2. limit \in [Resource -> Nat \ {0}]
    BY <1>8, TenancyAssumption
  <2>3. \A r \in Req : Prepared(r)
    BY <1>1, IdleIsNone DEF Prepared
  <2> QED BY <1>5, <1>7, <1>8, <2>1, <2>2, <2>3 DEF TenancyTyped
<1>10. RoomLeft
  <2>1. ASSUME NEW res \in Resource PROVE Count(res) <= limit[res]
    <3>1. CASE res = "warehouses"
      <4>1. Cardinality(Live) \in Nat /\ Cardinality(Warehouse0) \in Nat /\ limit[res] \in Nat
        BY <1>7, <1>9, FS_CardinalityType, TenancyAssumption DEF TenancyTyped
      <4> QED BY <1>7, <1>8, <3>1, <4>1, TenancyAssumption DEF Count
    <3>2. CASE res # "warehouses"
      <4>1. Count(res) = 0 /\ limit[res] \in Nat
        BY <1>8, <1>9, <3>2, FS_EmptySet DEF Count, Resource, TenancyTyped
      <4> QED BY <4>1
    <3> QED BY <3>1, <3>2
  <2>2. \A res \in Resource : Admitted(res) = {}
    BY <1>1 DEF Admitted
  <2> QED BY <2>1, <2>2 DEF RoomLeft, RoomIn
<1>11. DefaultsApart
  <2>1. AtWarehouses = {}
    BY <1>1 DEF AtWarehouses
  <2> QED BY <1>6, <1>8, <2>1 DEF DefaultsApart, AtMostOne
<1>12. DecidedLast /\ ExpiresOver
  BY <1>1, <1>8 DEF DecidedLast, ExpiresOver
<1> QED BY <1>1, <1>9, <1>10, <1>11, <1>12 DEF TenancyInv

(* A request of another component is at none of these statements.          *)
LEMMA TenancyTells ==
  ASSUME Tagged', NEW q \in Req,
         stage'[q] \in {"decide", "expire", "handler", "clear", "insert", "main", "flag"}
  PROVE  job'[q].op \in TenancyOps
<1>1. Tag(job'[q].op, stage'[q])
  BY DEF Tagged
<1> QED
  BY <1>1 DEF Tag, IdleTag, AccountsTag, TenancyTag, MfaTag, TenantRowsTag, AttendanceTag,
    UploadsTag, CatalogueTag, NoticesTag, TenancyOps

LEMMA OthersKeepTenancy ==
  ASSUME TenancyInv, Tagged', UNCHANGED <<status, tenancyVars>>, Aside(TenancyOps)
  PROVE  TenancyInv'
<1>1. ASSUME NEW q \in Req, job'[q].op \in TenancyOps
      PROVE  stage'[q] = stage[q] /\ job'[q] = job[q]
  BY <1>1 DEF Aside
<1>2. /\ UNCHANGED <<status, now, plan, until, limit, multi, warehouse, rows, decisions,
                     crossed, overlap, lateGuard>>
      /\ Live' = Live /\ Defaults' = Defaults
  BY DEF tenancyVars, business, stocks, observed, Live, Defaults
<1>3. TenancyTyped'
  <2>1. ASSUME NEW q \in Req PROVE Prepared(q)'
    <3>1. CASE job'[q].op \in TenancyOps
      <4>1. PICK j, s : j = job[q] /\ s = stage[q] /\ j = job'[q] /\ s = stage'[q]
        BY <1>1, <3>1
      <4>2. Prepared(q)
        BY DEF TenancyInv, TenancyTyped
      <4> QED BY <1>2, <4>1, <4>2 DEF Prepared, HasWarehouse
    <3>2. CASE job'[q].op \notin TenancyOps
      BY <3>2 DEF Prepared, WarehouseOps, TenancyOps
    <3> QED BY <3>1, <3>2
  <2>2. IsFiniteSet(Live')
    BY <1>2 DEF TenancyInv, TenancyTyped
  <2> QED BY <1>2, <2>1, <2>2 DEF TenancyInv, TenancyTyped
<1>4. DecidedLast'
  BY <1>1, <1>2, TenancyTells, DecidedStays DEF TenancyInv
<1>5. ExpiresOver'
  BY <1>1, <1>2, TenancyTells, ExpiresStays DEF TenancyInv
<1>6. RoomLeft'
  <2>1. ASSUME NEW res \in Resource, res \notin crossed' PROVE RoomIn(res)'
    <3>1. Of(res)' = Of(res) /\ RoomIn(res)
      BY <1>2, <2>1 DEF Of, TenancyInv, RoomLeft
    <3>2. limit'[res] >= limit[res]
      BY <1>2 DEF TenancyInv, TenancyTyped
    <3>3. ASSUME NEW q \in Admitted(res)'
          PROVE  q \in Admitted(res) /\ stage'[q] = stage[q] /\ job'[q] = job[q]
      <4>1. /\ q \in Req
            /\ \/ Counted(job'[q].op) = res /\ stage'[q] \in {"handler", "clear", "insert"}
               \/ res = "warehouses" /\ stage'[q] = "main"
        BY DEF Admitted
      <4>2. stage'[q] = stage[q] /\ job'[q] = job[q]
        BY <1>1, <4>1, TenancyTells
      <4> QED BY <4>1, <4>2 DEF Admitted
    <3> QED BY <1>3, <3>1, <3>2, <3>3, RoomStays DEF TenancyInv
  <2> QED BY <2>1 DEF RoomLeft
<1>7. DefaultsApart'
  <2> SUFFICES ASSUME ~overlap' PROVE DefaultsNow'
    BY DEF DefaultsApart, DefaultsNow
  <2>1. DefaultsNow
    BY <1>2 DEF TenancyInv, DefaultsApart, DefaultsNow
  <2>2. ASSUME NEW q \in AtWarehouses' PROVE StillSo(q)'
    <3>1. q \in Req /\ stage'[q] = stage[q] /\ job'[q] = job[q] /\ q \in AtWarehouses
      BY <1>1 DEF AtWarehouses, TenancyOps
    <3>2. StillSo(q)
      BY <2>1, <3>1 DEF DefaultsNow
    <3>3. multi' = multi \/ multi'
      BY <1>2
    <3> QED BY <1>2, <3>1, <3>2, <3>3, StillSoKept
  <2>3. AtMostOne(Defaults') /\ (multi' \/ AtMostOne(Live'))
    BY <1>2, <2>1 DEF DefaultsNow
  <2> QED BY <2>2, <2>3 DEF DefaultsNow, AtMostOne
<1> QED BY <1>3, <1>4, <1>5, <1>6, <1>7 DEF TenancyInv

LEMMA TicksKeepTenancy == ASSUME TenancyInv, Tick PROVE TenancyInv'
<1>1. /\ UNCHANGED <<stage, job, status, limit, multi, warehouse, rows, decisions, crossed,
                     overlap, until>>
      /\ now' = now + 1 /\ Live' = Live /\ Defaults' = Defaults
  BY DEF Tick, requests, business, stocks, observed, Live, Defaults
<1>2. ExpiresOver'
  BY ExpiryPasses DEF TenancyInv
<1>3. TenancyTyped'
  BY <1>1 DEF TenancyInv, TenancyTyped, Prepared, HasWarehouse
<1>4. DecidedLast'
  BY <1>1, DecidedStays DEF TenancyInv
<1>5. RoomLeft'
  BY <1>1 DEF TenancyInv, RoomLeft, RoomIn, Admitted, Count, HasMain
<1>6. DefaultsApart'
  BY <1>1 DEF TenancyInv, DefaultsApart, AtMostOne, AtWarehouses, StillSo
<1> QED BY <1>2, <1>3, <1>4, <1>5, <1>6 DEF TenancyInv

LEMMA TenancyInductive ==
  ASSUME Tagged, Tagged', TenancyInv, [Next]_all PROVE TenancyInv'
<1>1. CASE Tick
  BY <1>1, TicksKeepTenancy
<1>2. CASE \E r \in Req : TenancyStatement(r)
  <2>1. PICK r \in Req : TenancyStatement(r)
    BY <1>2
  <2>2. TenancyTyped'
    BY <2>1, StatementTypes DEF TenancyInv
  <2> QED
    BY <2>1, <2>2, StatementDecides, StatementExpires, StatementLeavesRoom, StatementKeepsOne
      DEF TenancyInv
<1>3. CASE UNCHANGED <<status, tenancyVars>> /\ Aside(TenancyOps)
  BY <1>3, OthersKeepTenancy
<1> QED BY <1>1, <1>2, <1>3, TenancyCases

LEMMA TenancyAlways == Spec => [](Tagged /\ TenancyInv)
<1>1. Init => Tagged /\ TenancyInv
  BY TenancyStartsTyped
<1>2. (Tagged /\ TenancyInv) /\ [Next]_all => (Tagged /\ TenancyInv)'
  BY NextIsTagged, TenancyInductive
<1> QED BY <1>1, <1>2, PTL DEF Spec

(* What the console grants a business holds for any number of requests:    *)
(* it is decided once unless two decisions were under way at once, its     *)
(* plan is expired only when its time is over unless the console overtook  *)
(* the guard, and it has no more of anything than its limit unless another *)
(* request passed the guard meanwhile or the limit was lowered.            *)
THEOREM TheGrantsHold == Spec => []GrantsHold
<1>1. TenancyInv => GrantsHold
  <2> SUFFICES ASSUME TenancyInv PROVE GrantsHold
    OBVIOUS
  <2>1. DecidedOnce
    <3> SUFFICES ASSUME "approve" \in decisions, "reject" \in decisions
                 PROVE  "at once" \in decisions
      BY DEF DecidedOnce
    <3>1. PICK D : D = decisions \cap {"approve", "reject"}
      OBVIOUS
    <3>2. "approve" \in D /\ "reject" \in D
      BY <3>1
    <3>3. D # {} /\ D # {"approve"} /\ D # {"reject"}
      BY <3>2
    <3> QED BY <3>1, <3>3 DEF TenancyInv, DecidedLast
  <2>2. ExpiredIsOver
    BY DEF TenancyInv, ExpiresOver, ExpiredIsOver
  <2>3. LimitsHold
    BY DEF TenancyInv, RoomLeft, RoomIn, LimitsHold
  <2> QED BY <2>1, <2>2, <2>3 DEF GrantsHold
<1> QED BY <1>1, TenancyAlways, PTL

(* At most one warehouse is the default, and a business without multi-     *)
(* stock has at most one, for any number of requests; unless two of them   *)
(* were at the warehouses at once, or it switched multi-stock off itself.  *)
THEOREM OneWarehouseIsDefault == Spec => []OneDefaultWarehouse
<1>1. TenancyInv => OneDefaultWarehouse
  <2> SUFFICES ASSUME TenancyInv, ~overlap
               PROVE  Cardinality(Defaults) =< 1 /\ (multi \/ Cardinality(Live) =< 1)
    BY DEF OneDefaultWarehouse
  <2>1. IsFiniteSet(Live) /\ IsFiniteSet(Defaults)
    <3>1. Defaults \in SUBSET Live
      BY DEF Defaults
    <3> QED BY <3>1, FS_Subset DEF TenancyInv, TenancyTyped
  <2>2. AtMostOne(Defaults) /\ (multi \/ AtMostOne(Live))
    BY DEF TenancyInv, DefaultsApart
  <2> QED BY <2>1, <2>2, OneIsFew
<1> QED BY <1>1, TenancyAlways, PTL
-----------------------------------------------------------------------------
(***************************************************************************)
(* The rows of the tenants.  A connection in use carries the business of   *)
(* its request, one in the pool carries none; a row once stored stays, and *)
(* what a request has found is stored.                                     *)
(***************************************************************************)
KnowsParent(t) ==
  /\ t.kind \in {"child", "line"} => /\ t.parent \in Stored
                                     /\ row[t.parent].kind = KindAbove[t.kind]
  /\ t.kind \in {"own", "order"} => t.parent = None
RowsTyped ==
  /\ row \in [RowId -> TenantRow \cup {None}]
  /\ setting \in [Conn -> Business \cup {None}]
  /\ conn \in [Req -> Conn \cup {None}]
  /\ context \in [Req -> Business \cup {None}]
  /\ \A x \in Stored : KnowsParent(row[x])

Scoped(r) == job[r].op = "rows"
ConnsApart ==
  /\ \A r \in Req : IF Scoped(r) THEN /\ conn[r] \in Conn
                                      /\ context[r] \in Business
                                      /\ setting[conn[r]] = context[r]
                                 ELSE conn[r] = None
  /\ \A q, r \in Req : conn[q] = conn[r] /\ conn[q] # None => q = r
  /\ \A c \in Free : setting[c] = None

(* What request r answers with, reads on with, or is about to insert.      *)
Answers(r) ==
  /\ job[r].found \subseteq Stored /\ job[r].written \subseteq Stored
  /\ \A x \in job[r].found : \/ Concerns(context[r], x)
                             \/ row[x].kind = "line" /\ Concerns(context[r], row[x].parent)
  /\ \A x \in job[r].written : row[x].business = context[r]
  /\ \A x \in Stored : row[x].kind = "line" /\ row[x].parent \in job[r].found
                        => x \in job[r].found
Inserting(r) == \/ job[r].new = None
                \/ /\ job[r].new \in TenantRow /\ job[r].new.kind = "child"
                   /\ KnowsParent(job[r].new)
NoneFound(r) == job[r].found = {} /\ job[r].written = {}
OneOrder(r) == /\ job[r].written = {}
               /\ \E o \in Stored : job[r].found = {o} /\ row[o].kind = "order"
JobParts == {"op", "found", "written", "new"}
Finding(r) ==
  /\ stage[r] = "new" \/ job[r].op \in TenantRowsOps => row[r] = None
  /\ job[r].op \in TenantRowsOps => Inserting(r)
  /\ Scoped(r) => \/ stage[r] = "scoped" /\ NoneFound(r)
                  \/ stage[r] = "lines" /\ OneOrder(r)
                  \/ stage[r] = "close" /\ Answers(r)
  /\ Scoped(r) => DOMAIN job[r] = JobParts
  /\ enforced /\ job[r].op = "sweep" => job[r].found = {}
RequestsFind == \A r \in Req : Finding(r)
RowsInv == RowsTyped /\ ConnsApart /\ RequestsFind

(* Rows are added, and none that is there changes.                         *)
RowsGrow == \A x \in RowId : row'[x] = row[x] \/ (row[x] = None /\ row'[x].kind = "child")

(* What a request knows is as true when a row was added.                   *)
LEMMA StillFinds ==
  ASSUME RowsInv, RowsTyped', RowsGrow, NEW q \in Req, UNCHANGED enforced,
         job'[q] = job[q], stage'[q] = stage[q], context'[q] = context[q], row'[q] = row[q]
  PROVE  Finding(q)'
<1>1. Finding(q)
  BY DEF RowsInv, RequestsFind
<1>2. \A x \in Stored : x \in Stored' /\ row'[x] = row[x]
  BY DEF RowsInv, RowsTyped, RowsGrow, Stored
<1>3. \A x \in Stored' : x \in Stored \/ row'[x].kind = "child"
  BY DEF RowsInv, RowsTyped, RowsGrow, Stored
<1>4. ASSUME NEW t, KnowsParent(t) PROVE KnowsParent(t)'
  BY <1>2, <1>4 DEF KnowsParent
<1>5. Inserting(q) => Inserting(q)'
  BY <1>4 DEF Inserting
<1>6. OneOrder(q) => OneOrder(q)'
  <2>1. ASSUME NEW o \in Stored, job[q].found = {o} /\ row[o].kind = "order"
        PROVE  o \in Stored' /\ job'[q].found = {o} /\ row'[o].kind = "order"
    BY <1>2, <2>1
  <2> QED BY <2>1 DEF OneOrder
<1>7. ASSUME Answers(q) PROVE Answers(q)'
  <2>1. job'[q].found \subseteq Stored' /\ job'[q].written \subseteq Stored'
    BY <1>2, <1>7 DEF Answers
  <2>2. \A x \in job'[q].found : \/ Concerns(context[q], x)'
                                 \/ row'[x].kind = "line" /\ Concerns(context[q], row[x].parent)'
    <3> SUFFICES ASSUME NEW x \in job[q].found
                 PROVE  \/ Concerns(context[q], x)'
                        \/ row'[x].kind = "line" /\ Concerns(context[q], row[x].parent)'
      OBVIOUS
    <3>1. x \in Stored /\ row'[x] = row[x] /\ KnowsParent(row[x])
      BY <1>2, <1>7 DEF Answers, RowsInv, RowsTyped
    <3>2. row[x].kind = "line" => row[x].parent \in Stored
      BY <3>1 DEF KnowsParent
    <3> QED BY <1>2, <1>7, <3>1, <3>2 DEF Answers, Concerns
  <2>3. \A x \in job'[q].written : row'[x].business = context'[q]
    BY <1>2, <1>7 DEF Answers
  <2>4. \A x \in Stored' : row'[x].kind = "line" /\ row'[x].parent \in job'[q].found
                            => x \in job'[q].found
    BY <1>2, <1>3, <1>7 DEF Answers
  <2> QED BY <2>1, <2>2, <2>3, <2>4 DEF Answers
<1> QED BY <1>1, <1>5, <1>6, <1>7 DEF Finding, Scoped, NoneFound

(* A step that changes no table, and one request alone.                    *)
LEMMA Looking ==
  ASSUME RowsInv, NEW r \in Req, UNCHANGED tenantRowVars,
         \A q \in Req \ {r} : job'[q] = job[q] /\ stage'[q] = stage[q],
         job'[r].op = "rows" <=> job[r].op = "rows", Finding(r)'
  PROVE  RowsInv'
<1>1. RowsTyped'
  BY DEF RowsInv, RowsTyped, tenantRowVars, Stored, KnowsParent
<1>2. ConnsApart'
  BY DEF RowsInv, ConnsApart, tenantRowVars, Scoped, Free
<1>3. ASSUME NEW q \in Req PROVE Finding(q)'
  <2>1. CASE q = r
    BY <2>1
  <2>2. CASE q # r
    <3>1. RowsGrow
      BY DEF RowsGrow, tenantRowVars
    <3> QED BY <1>1, <2>2, <3>1, StillFinds DEF tenantRowVars
  <2> QED BY <2>1, <2>2
<1> QED BY <1>1, <1>2, <1>3 DEF RowsInv, RequestsFind

LEMMA ScopeOpened ==
  ASSUME Tagged, RowsInv, NEW r \in Req, OpenScope(r) PROVE RowsInv'
<1>1. PICK b \in Business, c \in Free :
        /\ context' = [context EXCEPT ![r] = b]
        /\ conn' = [conn EXCEPT ![r] = c]
        /\ setting' = [setting EXCEPT ![c] = b]
  BY DEF OpenScope
<1>2. c \in Conn /\ \A q \in Req : conn[q] # c
  BY DEF Free
<1>3. PICK j : j = [op |-> "rows", found |-> {}, written |-> {}, new |-> None]
  OBVIOUS
<1>4. j.op = "rows" /\ j.found = {} /\ j.written = {} /\ j.new = None /\ DOMAIN j = JobParts
  BY <1>3 DEF JobParts
<1>5. /\ Goto(r, "scoped", j) /\ stage[r] = "new"
      /\ UNCHANGED <<row, enforced>>
  BY <1>3 DEF OpenScope, Starts
<1>6. \A q \in Req : /\ stage'[q] = IF q = r THEN "scoped" ELSE stage[q]
                     /\ job'[q] = IF q = r THEN j ELSE job[q]
  BY <1>5, Then
<1>7. RowsTyped'
  BY <1>1, <1>2, <1>5 DEF RowsInv, RowsTyped, Stored, KnowsParent
<1>8. ConnsApart'
  <2>1. ASSUME NEW q \in Req
        PROVE IF Scoped(q)' THEN /\ conn'[q] \in Conn
                                 /\ context'[q] \in Business
                                 /\ setting'[conn'[q]] = context'[q]
                            ELSE conn'[q] = None
    <3>1. CASE q = r
      BY <1>1, <1>2, <1>4, <1>6, <3>1 DEF RowsInv, RowsTyped, Scoped
    <3>2. CASE q # r
      BY <1>1, <1>2, <1>6, <3>2 DEF RowsInv, RowsTyped, ConnsApart, Scoped
    <3> QED BY <3>1, <3>2
  <2>2. \A p, q \in Req : conn'[p] = conn'[q] /\ conn'[p] # None => p = q
    BY <1>1, <1>2 DEF RowsInv, RowsTyped, ConnsApart
  <2>3. ASSUME NEW d \in Free' PROVE setting'[d] = None
    <3>1. conn \in [Req -> Conn \cup {None}] /\ conn'[r] = c
      BY <1>1 DEF RowsInv, RowsTyped
    <3>2. d \in Conn /\ d # c /\ \A q \in Req \ {r} : conn[q] # d
      BY <1>1, <2>3, <3>1 DEF Free
    <3>3. conn[r] = None
      BY <1>5, StageTells DEF RowsInv, ConnsApart, Scoped
    <3>4. d \in Free
      BY <3>2, <3>3, TenantRowsAssumption DEF Free
    <3> QED BY <1>1, <1>2, <3>2, <3>4 DEF RowsInv, RowsTyped, ConnsApart
  <2> QED BY <2>1, <2>2, <2>3 DEF ConnsApart
<1>9. ASSUME NEW q \in Req PROVE Finding(q)'
  <2>1. CASE q = r
    <3>1. row'[r] = None
      BY <1>5 DEF RowsInv, RequestsFind, Finding
    <3>2. stage'[r] = "scoped" /\ job'[r] = j
      BY <1>6
    <3> QED BY <1>4, <2>1, <3>1, <3>2 DEF Finding, Inserting, NoneFound, Scoped
  <2>2. CASE q # r
    <3>1. RowsGrow /\ context'[q] = context[q]
      BY <1>1, <1>5, <2>2 DEF RowsGrow, RowsInv, RowsTyped
    <3> QED BY <1>5, <1>6, <1>7, <2>2, <3>1, StillFinds
  <2> QED BY <2>1, <2>2
<1> QED BY <1>7, <1>8, <1>9 DEF RowsInv, RequestsFind

(* Outside every scope a connection tells of no business.                  *)
LEMMA SweepStarted ==
  ASSUME Tagged, RowsInv, NEW r \in Req, Sweep(r) PROVE RowsInv'
<1>1. PICK c \in Free : Goto(r, "close", [op |-> "sweep", found |-> Finds(c),
                                          written |-> Changes(c), new |-> None])
  BY DEF Sweep
<1>2. PICK j : j = [op |-> "sweep", found |-> Finds(c), written |-> Changes(c), new |-> None]
  OBVIOUS
<1>3. j.op = "sweep" /\ j.found = Finds(c) /\ j.new = None
  BY <1>2
<1>4. Goto(r, "close", j) /\ stage[r] = "new" /\ UNCHANGED tenantRowVars
  BY <1>1, <1>2 DEF Sweep, Starts
<1>5. \A q \in Req : /\ stage'[q] = IF q = r THEN "close" ELSE stage[q]
                     /\ job'[q] = IF q = r THEN j ELSE job[q]
  BY <1>4, Then
<1>6. enforced => Finds(c) = {}
  <2>1. setting[c] = None
    BY DEF RowsInv, ConnsApart
  <2> QED BY <2>1 DEF Finds, MayRead, IsParty, Owns
<1>7. row'[r] = None
  BY <1>4 DEF RowsInv, RequestsFind, Finding, tenantRowVars
<1>8. job[r].op # "rows"
  BY <1>4, StageTells
<1>9. job'[r] = j /\ stage'[r] = "close" /\ enforced' = enforced
  BY <1>4, <1>5 DEF tenantRowVars
<1>10. Finding(r)'
  BY <1>3, <1>6, <1>7, <1>9 DEF Finding, Inserting, Scoped
<1>11. \A q \in Req \ {r} : job'[q] = job[q] /\ stage'[q] = stage[q]
  BY <1>5
<1> QED BY <1>3, <1>4, <1>8, <1>9, <1>10, <1>11, Looking

(* What a connection finds is stored, and whose the request is it tells.   *)
LEMMA ScopeTells ==
  ASSUME RowsInv, NEW r \in Req, Scoped(r)
  PROVE  /\ conn[r] \in Conn /\ context[r] \in Business
         /\ setting[conn[r]] = context[r] /\ context[r] # None
         /\ Finds(conn[r]) \subseteq Stored
         /\ Changes(conn[r]) \subseteq Finds(conn[r])
<1>1. /\ conn[r] \in Conn /\ context[r] \in Business
      /\ setting[conn[r]] = context[r]
  BY DEF RowsInv, ConnsApart
<1> QED BY <1>1, TenantRowsAssumption DEF Finds, Changes

(* The statements of a scope: they belong to a request for rows.           *)
LEMMA ScopeIsOpen ==
  ASSUME Tagged, NEW r \in Req, stage[r] \in {"scoped", "lines"}
  PROVE  Scoped(r)
  BY StageTells DEF TenantRowsTag, Scoped

(* Where a scoped request goes on, its inserts and rows being as they are. *)
LEMMA ScopeGoesOn ==
  ASSUME Tagged, RowsInv, NEW r \in Req, Scoped(r), UNCHANGED tenantRowVars,
         NEW s, NEW j, Goto(r, s, j), j.op = "rows", DOMAIN j = JobParts,
         Inserting(r)',
         \/ s = "lines" /\ OneOrder(r)'
         \/ s = "close" /\ Answers(r)'
  PROVE  RowsInv'
<1>1. \A q \in Req : /\ stage'[q] = IF q = r THEN s ELSE stage[q]
                     /\ job'[q] = IF q = r THEN j ELSE job[q]
  BY Then
<1>2. row'[r] = None
  BY DEF RowsInv, RequestsFind, Finding, Scoped, TenantRowsOps, tenantRowVars
<1>3. job'[r] = j /\ stage'[r] = s
  BY <1>1
<1>4. Finding(r)'
  BY <1>2, <1>3 DEF Finding
<1>5. \A q \in Req \ {r} : job'[q] = job[q] /\ stage'[q] = stage[q]
  BY <1>1
<1> QED BY <1>3, <1>4, <1>5, Looking DEF Scoped

LEMMA SameJobInserts ==
  ASSUME RowsInv, NEW r \in Req, Scoped(r), UNCHANGED tenantRowVars, job'[r].new = job[r].new
  PROVE  Inserting(r)'
<1>1. Inserting(r)
  BY DEF RowsInv, RequestsFind, Finding, Scoped, TenantRowsOps
<1> QED BY <1>1 DEF Inserting, KnowsParent, Stored, tenantRowVars

(* A repository reads and writes what its filter leaves.                   *)
LEMMA OwnRead ==
  ASSUME Tagged, RowsInv, NEW r \in Req, ReadOwn(r) PROVE RowsInv'
<1>1. PICK F : F = {x \in Finds(conn[r]) \cap OfTenant(r) : row[x].kind \in {"own", "child"}}
  OBVIOUS
<1>2. PICK j : j = [job[r] EXCEPT !.found = F]
  OBVIOUS
<1>3. stage[r] = "scoped" /\ Goto(r, "close", j) /\ UNCHANGED tenantRowVars
  BY <1>1, <1>2 DEF ReadOwn
<1>4. Scoped(r)
  BY <1>3, ScopeIsOpen
<1>5. DOMAIN job[r] = JobParts /\ NoneFound(r)
  BY <1>3, <1>4 DEF RowsInv, RequestsFind, Finding
<1>6. /\ j.op = "rows" /\ DOMAIN j = JobParts
      /\ j.found = F /\ j.written = {} /\ j.new = job[r].new
  BY <1>2, <1>4, <1>5 DEF JobParts, Scoped, NoneFound
<1>7. job'[r] = j
  BY <1>3, Then
<1>8. Inserting(r)'
  BY <1>3, <1>4, <1>6, <1>7, SameJobInserts
<1>9. Answers(r)'
  <2>1. F \subseteq Stored /\ \A x \in F : row[x].business = context[r]
    BY <1>1 DEF OfTenant
  <2>2. \A x \in Stored : row[x].kind = "line" => row[x].parent \notin F
    BY <1>1 DEF RowsInv, RowsTyped, KnowsParent, KindAbove
  <2> QED BY <1>3, <1>6, <1>7, <2>1, <2>2 DEF Answers, Concerns, tenantRowVars, Stored
<1> QED BY <1>3, <1>4, <1>6, <1>8, <1>9, ScopeGoesOn

LEMMA OwnWritten ==
  ASSUME Tagged, RowsInv, NEW r \in Req, WriteOwn(r) PROVE RowsInv'
<1>1. PICK x \in Changes(conn[r]) \cap OfTenant(r) :
        Goto(r, "close", [job[r] EXCEPT !.written = {x}])
  BY DEF WriteOwn
<1>2. PICK j : j = [job[r] EXCEPT !.written = {x}]
  OBVIOUS
<1>3. stage[r] = "scoped" /\ Goto(r, "close", j) /\ UNCHANGED tenantRowVars
  BY <1>1, <1>2 DEF WriteOwn
<1>4. Scoped(r)
  BY <1>3, ScopeIsOpen
<1>5. DOMAIN job[r] = JobParts /\ NoneFound(r)
  BY <1>3, <1>4 DEF RowsInv, RequestsFind, Finding
<1>6. /\ j.op = "rows" /\ DOMAIN j = JobParts
      /\ j.found = {} /\ j.written = {x} /\ j.new = job[r].new
  BY <1>2, <1>4, <1>5 DEF JobParts, Scoped, NoneFound
<1>7. job'[r] = j
  BY <1>3, Then
<1>8. Inserting(r)'
  BY <1>3, <1>4, <1>6, <1>7, SameJobInserts
<1>9. Answers(r)'
  <2>1. x \in Stored /\ row[x].business = context[r]
    BY <1>1 DEF OfTenant
  <2> QED BY <1>3, <1>6, <1>7, <2>1 DEF Answers, tenantRowVars, Stored
<1> QED BY <1>3, <1>4, <1>6, <1>8, <1>9, ScopeGoesOn

(* The trigger gives the child its parent's business, and the policy lets  *)
(* pass only the request's own.                                            *)
LEMMA ChildInserted ==
  ASSUME Tagged, RowsInv, NEW r \in Req, InsertChild(r) PROVE RowsInv'
<1>1. PICK p \in Finds(conn[r]) \cap OfTenant(r) :
        /\ row[p].kind = "own"
        /\ Goto(r, "close", [job[r] EXCEPT !.new =
            [kind |-> "child", business |-> InheritedBusiness(p), buyer |-> None, parent |-> p]])
  BY DEF InsertChild
<1>2. PICK t : t = [kind |-> "child", business |-> InheritedBusiness(p), buyer |-> None,
                    parent |-> p]
  OBVIOUS
<1>3. PICK j : j = [job[r] EXCEPT !.new = t]
  OBVIOUS
<1>4. stage[r] = "scoped" /\ Goto(r, "close", j) /\ UNCHANGED tenantRowVars
  BY <1>1, <1>2, <1>3 DEF InsertChild
<1>5. Scoped(r)
  BY <1>4, ScopeIsOpen
<1>6. DOMAIN job[r] = JobParts /\ NoneFound(r)
  BY <1>4, <1>5 DEF RowsInv, RequestsFind, Finding
<1>7. j.op = "rows" /\ DOMAIN j = JobParts /\ j.found = {} /\ j.written = {} /\ j.new = t
  BY <1>3, <1>5, <1>6 DEF JobParts, Scoped, NoneFound
<1>8. job'[r] = j
  BY <1>4, Then
<1>9. Inserting(r)'
  <2>1. p \in Stored /\ p \in RowId /\ row[p].business = context[r]
    BY <1>1 DEF OfTenant, Stored
  <2>2. InheritedBusiness(p) \in Business
    BY <1>5, <2>1, ScopeTells DEF InheritedBusiness
  <2>3. t \in TenantRow
    BY <1>2, <2>1, <2>2 DEF TenantRow
  <2>4. t.kind = "child" /\ t.parent = p
    BY <1>2
  <2>5. KnowsParent(t)'
    BY <1>1, <1>4, <2>1, <2>4 DEF KnowsParent, KindAbove, tenantRowVars, Stored
  <2> QED BY <1>7, <1>8, <2>3, <2>4, <2>5 DEF Inserting
<1>10. Answers(r)'
  BY <1>7, <1>8 DEF Answers
<1> QED BY <1>4, <1>5, <1>7, <1>9, <1>10, ScopeGoesOn

LEMMA OrderFound ==
  ASSUME Tagged, RowsInv, NEW r \in Req, FindOrder(r) PROVE RowsInv'
<1>1. PICK o \in Finds(conn[r]) : /\ row[o].kind = "order"
                                  /\ Goto(r, "lines", [job[r] EXCEPT !.found = {o}])
  BY DEF FindOrder
<1>2. PICK j : j = [job[r] EXCEPT !.found = {o}]
  OBVIOUS
<1>3. stage[r] = "scoped" /\ Goto(r, "lines", j) /\ UNCHANGED tenantRowVars
  BY <1>1, <1>2 DEF FindOrder
<1>4. Scoped(r)
  BY <1>3, ScopeIsOpen
<1>5. DOMAIN job[r] = JobParts /\ NoneFound(r)
  BY <1>3, <1>4 DEF RowsInv, RequestsFind, Finding
<1>6. /\ j.op = "rows" /\ DOMAIN j = JobParts
      /\ j.found = {o} /\ j.written = {} /\ j.new = job[r].new
  BY <1>2, <1>4, <1>5 DEF JobParts, Scoped, NoneFound
<1>7. job'[r] = j
  BY <1>3, Then
<1>8. Inserting(r)'
  BY <1>3, <1>4, <1>6, <1>7, SameJobInserts
<1>9. OneOrder(r)'
  BY <1>1, <1>3, <1>6, <1>7 DEF OneOrder, tenantRowVars, Stored, Finds
<1> QED BY <1>3, <1>4, <1>6, <1>8, <1>9, ScopeGoesOn

(* Either side of an order finds every line of it; nobody else finds the   *)
(* order.                                                                  *)
LEMMA LinesFound ==
  ASSUME Tagged, RowsInv, NEW r \in Req, FindLines(r) PROVE RowsInv'
<1>1. PICK L : L = {x \in Finds(conn[r]) : row[x].parent \in job[r].found}
  OBVIOUS
<1>2. PICK F : F = IF SideOf(r, job[r].found) THEN job[r].found \cup L ELSE {}
  OBVIOUS
<1>3. PICK j : j = [job[r] EXCEPT !.found = F]
  OBVIOUS
<1>4. stage[r] = "lines" /\ Goto(r, "close", j) /\ UNCHANGED tenantRowVars
  BY <1>1, <1>2, <1>3 DEF FindLines
<1>5. Scoped(r)
  BY <1>4, ScopeIsOpen
<1>6. DOMAIN job[r] = JobParts /\ OneOrder(r)
  BY <1>4, <1>5 DEF RowsInv, RequestsFind, Finding
<1>7. PICK o \in Stored : job[r].found = {o} /\ row[o].kind = "order"
  BY <1>6 DEF OneOrder
<1>8. /\ j.op = "rows" /\ DOMAIN j = JobParts
      /\ j.found = F /\ j.written = {} /\ j.new = job[r].new
  BY <1>3, <1>5, <1>6 DEF JobParts, Scoped, OneOrder
<1>9. job'[r] = j
  BY <1>4, Then
<1>10. Inserting(r)'
  BY <1>4, <1>5, <1>8, <1>9, SameJobInserts
<1>11. CASE IsParty(context[r], o)
  <2>1. F = {o} \cup L
    BY <1>2, <1>7, <1>11 DEF SideOf
  <2>2. F \subseteq Stored
    BY <1>1, <2>1 DEF Finds
  <2>3. \A x \in L : row[x].kind = "line" /\ row[x].parent = o
    <3> SUFFICES ASSUME NEW x \in L PROVE row[x].kind = "line" /\ row[x].parent = o
      OBVIOUS
    <3>1. x \in Stored /\ row[x].parent = o /\ KnowsParent(row[x]) /\ row[x] \in TenantRow
      BY <1>1, <1>7 DEF Finds, RowsInv, RowsTyped, Stored
    <3>2. row[x].kind \in {"own", "child", "order", "line"} /\ o # None
      BY <1>7, <3>1, TenantRowsAssumption, NoneAssumption DEF TenantRow, Stored, RowId
    <3> QED BY <1>7, <3>1, <3>2 DEF KnowsParent, KindAbove
  <2>4. \A x \in Stored : row[x].kind = "line" /\ row[x].parent \in F => x \in F
    <3> SUFFICES ASSUME NEW x \in Stored, row[x].kind = "line", row[x].parent \in F
                 PROVE  x \in L
      BY <2>1
    <3>1. row[row[x].parent].kind = "order"
      BY DEF RowsInv, RowsTyped, KnowsParent, KindAbove
    <3>2. row[x].parent = o
      BY <2>1, <2>3, <3>1
    <3>3. MayRead(setting[conn[r]], x)
      BY <1>5, <1>11, <3>2, ScopeTells DEF MayRead
    <3> QED BY <1>1, <1>7, <3>2, <3>3 DEF Finds
  <2>5. Concerns(context[r], o)
    BY <1>11 DEF IsParty, Concerns
  <2>6. Answers(r)'
    BY <1>4, <1>8, <1>9, <2>1, <2>2, <2>3, <2>4, <2>5 DEF Answers, Concerns, tenantRowVars, Stored
  <2> QED BY <1>4, <1>5, <1>8, <1>10, <2>6, ScopeGoesOn
<1>12. CASE ~IsParty(context[r], o)
  <2>1. F = {}
    BY <1>2, <1>7, <1>12 DEF SideOf
  <2>2. Answers(r)'
    BY <1>8, <1>9, <2>1 DEF Answers
  <2> QED BY <1>4, <1>5, <1>8, <1>10, <2>2, ScopeGoesOn
<1> QED BY <1>11, <1>12

(* The connection goes back to the pool as it came, and the row is in.     *)
LEMMA ScopeClosed ==
  ASSUME Tagged, RowsInv, NEW r \in Req, CloseScope(r) PROVE RowsInv'
<1>1. PICK t : t = IF stage[r] = "close" THEN job[r].new ELSE None
  OBVIOUS
<1>2. PICK s \in {"done", "refused"} : End(r, s)
  BY DEF CloseScope
<1>3. /\ job[r].op \in TenantRowsOps /\ row' = [row EXCEPT ![r] = t]
      /\ setting' = IF conn[r] = None THEN setting ELSE [setting EXCEPT ![conn[r]] = None]
      /\ conn' = [conn EXCEPT ![r] = None] /\ context' = [context EXCEPT ![r] = None]
      /\ UNCHANGED enforced
  BY <1>1 DEF CloseScope, EndScope, TenantRowsOps
<1>4. \A q \in Req : /\ stage'[q] = IF q = r THEN s ELSE stage[q]
                     /\ job'[q] = IF q = r THEN Idle ELSE job[q]
  BY <1>2, ThenEnds
<1>5. row[r] = None /\ Inserting(r)
  BY <1>3 DEF RowsInv, RequestsFind, Finding
<1>6. t = None \/ (t \in TenantRow /\ t.kind = "child" /\ KnowsParent(t))
  BY <1>1, <1>5 DEF Inserting
<1>7. row \in [RowId -> TenantRow \cup {None}] /\ r \in RowId
  BY DEF RowsInv, RowsTyped, RowId
<1>8. row' \in [RowId -> TenantRow \cup {None}] /\ RowsGrow
  BY <1>3, <1>5, <1>6, <1>7 DEF RowsGrow
<1>9. RowsTyped'
  <2>1. /\ setting' \in [Conn -> Business \cup {None}]
        /\ conn' \in [Req -> Conn \cup {None}]
        /\ context' \in [Req -> Business \cup {None}]
    BY <1>3 DEF RowsInv, RowsTyped
  <2>2. \A x \in Stored : x \in Stored' /\ row'[x] = row[x]
    BY <1>3, <1>5, <1>7 DEF Stored
  <2>3. ASSUME NEW u, KnowsParent(u) PROVE KnowsParent(u)'
    BY <2>2, <2>3 DEF KnowsParent
  <2>4. ASSUME NEW x \in Stored' PROVE KnowsParent(row[x])'
    <3>1. CASE x = r
      BY <1>3, <1>6, <1>7, <2>3, <2>4, <3>1 DEF Stored
    <3>2. CASE x # r
      <4>1. x \in Stored /\ row'[x] = row[x]
        BY <1>3, <1>7, <2>4, <3>2 DEF Stored
      <4>2. KnowsParent(row[x])
        BY <4>1 DEF RowsInv, RowsTyped
      <4>3. PICK u : u = row[x]
        OBVIOUS
      <4>4. KnowsParent(u)'
        BY <2>3, <4>2, <4>3
      <4> QED BY <4>1, <4>3, <4>4
    <3> QED BY <3>1, <3>2
  <2> QED BY <1>8, <2>1, <2>4 DEF RowsTyped
<1>10. conn \in [Req -> Conn \cup {None}] /\ setting \in [Conn -> Business \cup {None}]
  BY DEF RowsInv, RowsTyped
<1>11. ConnsApart'
  <2>1. ASSUME NEW q \in Req
        PROVE IF Scoped(q)' THEN /\ conn'[q] \in Conn
                                 /\ context'[q] \in Business
                                 /\ setting'[conn'[q]] = context'[q]
                            ELSE conn'[q] = None
    <3>1. CASE q = r
      BY <1>3, <1>4, <1>10, <3>1, IdleIsNone DEF Scoped
    <3>2. CASE q # r
      <4>1. conn'[q] = conn[q] /\ context'[q] = context[q] /\ job'[q] = job[q]
        BY <1>3, <1>4, <1>10, <3>2 DEF RowsInv, RowsTyped
      <4>2. conn[q] \in Conn => setting'[conn[q]] = setting[conn[q]]
        BY <1>3, <1>10, <3>2, TenantRowsAssumption DEF RowsInv, ConnsApart
      <4> QED BY <4>1, <4>2 DEF RowsInv, ConnsApart, Scoped
    <3> QED BY <3>1, <3>2
  <2>2. \A p, q \in Req : conn'[p] = conn'[q] /\ conn'[p] # None => p = q
    BY <1>3, <1>10 DEF RowsInv, ConnsApart
  <2>3. ASSUME NEW c \in Free' PROVE setting'[c] = None
    <3>1. c \in Conn /\ \A q \in Req \ {r} : conn[q] # c
      BY <1>3, <1>10, <2>3 DEF Free
    <3>2. CASE conn[r] = c
      BY <1>3, <1>10, <3>1, <3>2, TenantRowsAssumption
    <3>3. CASE conn[r] # c
      BY <1>3, <1>10, <3>1, <3>3 DEF RowsInv, ConnsApart, Free
    <3> QED BY <3>2, <3>3
  <2> QED BY <2>1, <2>2, <2>3 DEF ConnsApart
<1>12. ASSUME NEW q \in Req PROVE Finding(q)'
  <2>1. CASE q = r
    BY <1>4, <2>1, IdleIsNone DEF Finding, Scoped, TenantRowsOps
  <2>2. CASE q # r
    <3>1. row'[q] = row[q] /\ context'[q] = context[q]
      BY <1>3, <1>7, <2>2 DEF RowsInv, RowsTyped, RowId
    <3> QED BY <1>3, <1>4, <1>8, <1>9, <2>2, <3>1, StillFinds
  <2> QED BY <2>1, <2>2
<1> QED BY <1>9, <1>11, <1>12 DEF RowsInv, RequestsFind

(* What is no statement of a scope: a crash ends no scope without closing  *)
(* it.                                                                     *)
LEMMA RowsStand ==
  ASSUME Tagged, RowsInv, [Next]_all, ~TenantRowsStep PROVE RowsInv'
<1>1. UNCHANGED tenantRowVars /\ Aside(TenantRowsOps)
  BY TenantRowsAside
<1>2. ASSUME NEW q \in Req, Scoped(q), Crash PROVE job'[q] = job[q] /\ stage'[q] = stage[q]
  <2>1. PICK r \in Req \ Holding : Dies(r)
    BY <1>2 DEF Crash
  <2>2. q # r /\ End(r, "crashed")
    BY <1>2, <2>1 DEF Holding, Doing, Scoped, Dies
  <2> QED BY <2>1, <2>2, ThenEnds
<1>3. \A q \in Req : Scoped(q) \/ Scoped(q)' => job'[q] = job[q] /\ stage'[q] = stage[q]
  BY <1>1, <1>2 DEF Aside, Scoped, TenantRowsOps
<1>4. RowsTyped'
  BY <1>1 DEF RowsInv, RowsTyped, tenantRowVars, Stored, KnowsParent
<1>5. ConnsApart'
  BY <1>1, <1>3 DEF RowsInv, ConnsApart, tenantRowVars, Scoped, Free
<1>6. ASSUME NEW q \in Req PROVE Finding(q)'
  <2>1. CASE job'[q].op \in TenantRowsOps
    <3>1. job'[q] = job[q] /\ stage'[q] = stage[q] /\ RowsGrow
      BY <1>1, <2>1 DEF Aside, RowsGrow, tenantRowVars
    <3> QED BY <1>1, <1>4, <3>1, StillFinds DEF tenantRowVars
  <2>2. CASE job'[q].op \notin TenantRowsOps
    <3>1. stage'[q] = "new" => row'[q] = None
      BY <1>1 DEF Aside, RowsInv, RequestsFind, Finding, tenantRowVars
    <3> QED BY <2>2, <3>1 DEF Finding, Scoped, TenantRowsOps
  <2> QED BY <2>1, <2>2
<1> QED BY <1>4, <1>5, <1>6 DEF RowsInv, RequestsFind

THEOREM ScopesAreKept == Spec => []RowsInv
<1>1. Init => RowsInv
  <2> SUFFICES ASSUME Init PROVE RowsInv
    OBVIOUS
  <2>1. /\ row = [x \in RowId |-> IF x \in DOMAIN Row0 THEN Row0[x] ELSE None]
        /\ setting = [c \in Conn |-> None] /\ conn = [r \in Req |-> None]
        /\ context = [r \in Req |-> None]
    BY DEF Init, OfficeInit, TenantRowsInit
  <2>2. \A r \in Req : stage[r] = "new" /\ job[r].op = "none"
    BY IdleIsNone DEF Init, RequestsInit
  <2>3. Stored = DOMAIN Row0 /\ \A x \in DOMAIN Row0 : row[x] = Row0[x]
    BY <2>1, TenantRowsAssumption DEF Stored, RowId
  <2>4. RowsTyped
    <3>1. row \in [RowId -> TenantRow \cup {None}]
      BY <2>1, TenantRowsAssumption
    <3>2. \A x \in Stored : KnowsParent(row[x])
      BY <2>3, TenantRowsAssumption DEF KnowsParent
    <3> QED BY <2>1, <3>1, <3>2 DEF RowsTyped
  <2>5. ConnsApart
    BY <2>1, <2>2 DEF ConnsApart, Scoped, Free
  <2>6. RequestsFind
    BY <2>1, <2>2, TenantRowsAssumption DEF RequestsFind, Finding, Scoped, TenantRowsOps, RowId
  <2> QED BY <2>4, <2>5, <2>6 DEF RowsInv
<1>2. Tagged /\ RowsInv /\ [Next]_all => RowsInv'
  <2> SUFFICES ASSUME Tagged, RowsInv, [Next]_all PROVE RowsInv'
    OBVIOUS
  <2>1. CASE TenantRowsStep
    BY <2>1, ScopeOpened, SweepStarted, OwnRead, OwnWritten, ChildInserted, OrderFound,
      LinesFound, ScopeClosed DEF TenantRowsStep
  <2>2. CASE ~TenantRowsStep
    BY <2>2, RowsStand
  <2> QED BY <2>1, <2>2
<1> QED BY <1>1, <1>2, EveryRequestIsTagged, PTL DEF Spec

(* However the requests of two businesses share connections, each answers  *)
(* with what is its own or concerns it, and an order with all its lines.   *)
THEOREM TenantsStayApart == Spec => []RowsStayApart
<1>1. RowsInv => RowsStayApart
  BY DEF RowsInv, RequestsFind, Finding, Scoped, Answers, RowsStayApart
<1> QED BY <1>1, ScopesAreKept, PTL
=============================================================================
