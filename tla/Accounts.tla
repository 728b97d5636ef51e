------------------------------ MODULE Accounts -------------------------------
(***************************************************************************)
(* The users of one business: their sessions, the access tokens they get,  *)
(* the rights those tokens carry, and what the business and the platform   *)
(* console change about them.  Passwords, names and e-mail addresses are   *)
(* left out (a login whose password is wrong changes nothing), and so is   *)
(* time: a session that expires is one that is revoked.                    *)
(***************************************************************************)
EXTENDS Requests

CONSTANTS
  Person,    \* users that exist at the start, each with one session
  Role0,     \* their roles
  Cap,       \* capabilities told apart
  NewRoles,  \* roles a request may give
  Change,    \* bodies that change a user
  Signups    \* e-mail addresses and names that businesses register with

Role == {"owner", "admin", "manager", "stockkeeper", "cashier", "viewer"}
Capability ==
  {"dashboard.view", "products.view", "products.create", "products.edit",
   "products.delete", "products.viewPurchasePrice", "stock.in", "stock.out",
   "stock.transfer", "inventory.count", "warehouses.manage", "users.manage",
   "suppliers.manage", "po.manage", "expenses.view", "expenses.viewAll",
   "expenses.create", "expenses.edit", "expenses.delete", "reports.view",
   "activity.view", "billing.manage", "settings.manage", "hr.view", "hr.manage",
   "marketplace.manage", "marketplace.buy"}

UserId    == Person \cup Req      \* a request creates one user at most,
SessionId == Person \cup Req      \* and opens one session at most

(* What a body asks for: a role, whether the user is active, and a list of *)
(* modules ("all" lifts the list).                                         *)
Body == [role : NewRoles \cup {"keep"}, active : {"keep", "yes", "no"},
         modules : {"keep", "list", "all"}]

UserRow == [role : Role, active : BOOLEAN, deleted : BOOLEAN, ver : Nat, restricted : BOOLEAN]

ASSUME AccountsAssumption ==
  /\ Person \cap Req = {} /\ Role0 \in [Person -> Role] /\ None \notin UserRow
  /\ Cap \subseteq Capability /\ NewRoles \subseteq Role /\ Change \subseteq Body
  /\ Signups \subseteq [email : STRING, name : STRING]

VARIABLES
  user,      \* app_auth.users
  grant,     \* app_auth.role_customizations
  override,  \* app_auth.user_overrides
  session,   \* app_auth.sessions, each with the session of its login
  tokens,    \* access tokens handed out
  registered,\* other businesses that registered, with their owners
  ended,     \* logins whose session was ended (history variable)
  slipped,   \* logins with a refresh in flight meanwhile (history)
  moved,     \* users given another role, or overlooked by an edit of it (history)
  raced,     \* requests during which another one wrote a user (history)
  hurried    \* what two registrations were under way with at once (history)

rights    == <<grant, override>>
signups   == <<registered, hurried>>
accounts  == <<user, rights, session, tokens>>
witnesses == <<ended, slipped, moved, raced>>
accountVars == <<accounts, signups, witnesses>>

-----------------------------------------------------------------------------
(* ROLE_PERMS: what a role may do unless the business says otherwise.      *)
RolePerms(role) == Cap \cap
  CASE role = "owner"   -> Capability
    [] role = "admin"   -> Capability \ {"billing.manage"}
    [] role = "manager" -> Capability \
         {"products.delete", "warehouses.manage", "users.manage", "expenses.viewAll",
          "expenses.delete", "activity.view", "billing.manage", "settings.manage"}
    [] role = "stockkeeper" -> {"dashboard.view", "products.view", "stock.in",
         "stock.out", "stock.transfer", "inventory.count", "hr.view"}
    [] role = "cashier" -> {"dashboard.view", "products.view", "stock.out", "hr.view"}
    [] role = "viewer"  -> {"dashboard.view", "products.view", "expenses.view",
                            "reports.view", "hr.view"}

(* effectiveMatrix: the business's own choices win over the defaults; the  *)
(* owner may do everything.                                                *)
EffectiveCaps(role) ==
  IF role = "owner" THEN Cap
  ELSE {c \in Cap : \/ grant[role][c] = "granted"
                    \/ grant[role][c] = "default" /\ c \in RolePerms(role)}

(* userHasCap, on what a token carries: the override of a user wins.       *)
HasCap(t, cap) == \/ t.overrides[cap] = "granted"
                  \/ t.overrides[cap] = "role" /\ cap \in t.caps

LiveUsers   == {u \in UserId : user[u] # None /\ ~user[u].deleted}
Owners      == {u \in LiveUsers : user[u].role = "owner" /\ user[u].active}
LiveSession == {s \in SessionId : session[s] # None /\ ~session[s].revoked}
Family(S)   == {session[s].login : s \in S}

NewUser(role) == [role |-> role, active |-> TRUE, deleted |-> FALSE, ver |-> 0,
                  restricted |-> FALSE]
NewSession(u, login) == [user |-> u, login |-> login, revoked |-> FALSE]

AccountsInit ==
  /\ user = [u \in UserId |-> IF u \in Person THEN NewUser(Role0[u]) ELSE None]
  /\ grant = [role \in Role |-> [c \in Cap |-> "default"]]
  /\ override = [u \in UserId |-> [c \in Cap |-> "role"]]
  /\ session = [s \in SessionId |-> IF s \in Person THEN NewSession(s, s) ELSE None]
  /\ tokens = {} /\ registered = [r \in Req |-> None]
  /\ ended = {} /\ slipped = {} /\ moved = {} /\ raced = {} /\ hurried = {}

-----------------------------------------------------------------------------
(* login, refresh and impersonate: who it is, what the token will say, the *)
(* token and the new session.  Every statement commits by itself.          *)
SignsIn(op, u, login, s, seen) ==
  [op |-> op, on |-> u, login |-> login, session |-> s, seen |-> seen,
   overrides |-> None, caps |-> None]

Login(r) ==
  /\ Starts(r, "login") /\ status = "active"
  /\ \E u \in LiveUsers :
       /\ user[u].active
       /\ Goto(r, "overrides", SignsIn("login", u, r, None, user[u]))
  /\ UNCHANGED accountVars

(* Seeded faults, here and below: definitions with a plausible bug, used   *)
(* only to show that the properties notice it.  Here: any known session.   *)
RefreshableEver == {s \in SessionId : session[s] # None}
Refreshable == LiveSession

(* findSessionByTokenHash, its first statement.                            *)
FindSession(r) ==
  /\ Starts(r, "refresh")
  /\ \E s \in Refreshable :
       LET f == session[s].login
       IN  /\ Goto(r, "user", SignsIn("refresh", session[s].user, f, s, None))
           /\ slipped' = IF \E q \in Doing("refresh") : job[q].login = f
                         THEN slipped \cup {f} ELSE slipped
  /\ UNCHANGED <<accounts, ended, moved, raced>>

(* Its second one, which does not ask whether the user is active.          *)
ReadSessionUser(r) ==
  /\ stage[r] = "user"
  /\ Goto(r, "overrides", [job[r] EXCEPT !.seen = user[job[r].on]])
  /\ UNCHANGED accountVars

ReadOverrides(r) ==
  /\ stage[r] = "overrides"
  /\ Goto(r, IF job[r].op = "refresh" THEN "rotate" ELSE "caps",
          [job[r] EXCEPT !.overrides = override[job[r].on]])
  /\ UNCHANGED accountVars

KeepsOld(s) == session
Rotated(s)  == [session EXCEPT ![s].revoked = TRUE]

(* The old session ends before the new one begins.                         *)
RevokeOld(r) ==
  /\ stage[r] = "rotate"
  /\ session' = Rotated(job[r].session)
  /\ Goto(r, "caps", job[r])
  /\ UNCHANGED <<user, rights, tokens, witnesses>>

ReadRoleCaps(r) ==
  /\ stage[r] = "caps"
  /\ Goto(r, "issue", [job[r] EXCEPT !.caps = EffectiveCaps(job[r].seen.role)])
  /\ UNCHANGED accountVars

Token(j) == [user |-> j.on, role |-> j.seen.role, ver |-> j.seen.ver,
             caps |-> j.caps, overrides |-> j.overrides]

IssueTokens(r) ==
  /\ stage[r] = "issue"
  /\ tokens' = tokens \cup {Token(job[r])}
  /\ session' = IF job[r].op = "impersonate" THEN session
                ELSE [session EXCEPT ![r] = NewSession(job[r].on, job[r].login)]
  /\ End(r, "done")
  /\ UNCHANGED <<user, rights, witnesses>>

(* The console's short-lived token for a user of the business: no session. *)
Impersonate(r) ==
  /\ Starts(r, "impersonate")
  /\ \E u \in LiveUsers :
       /\ user[u].active
       /\ Goto(r, "overrides", SignsIn("impersonate", u, r, None, user[u]))
  /\ UNCHANGED accountVars

-----------------------------------------------------------------------------
(* Sessions S end: their logins are over, but for a refresh in flight.     *)
EndSessions(S) ==
  /\ session' = [s \in SessionId |-> IF s \in S THEN [session[s] EXCEPT !.revoked = TRUE]
                                     ELSE session[s]]
  /\ ended' = ended \cup Family(S)
  /\ slipped' = slipped \cup {f \in Family(S) : \E q \in Doing("refresh") : job[q].login = f}

(* logout revokes the session of the refresh token it is given.            *)
Logout(r) ==
  /\ Starts(r, "logout")
  /\ \E s \in LiveSession : EndSessions({s})
  /\ End(r, "done")
  /\ UNCHANGED <<user, rights, tokens, moved, raced>>

(* The business ends one session, or every session it has.                 *)
RevokeSession(r) ==
  /\ Starts(r, "revokeSession")
  /\ \E s \in LiveSession : EndSessions({s})
  /\ End(r, "done")
  /\ UNCHANGED <<user, rights, tokens, moved, raced>>

RevokeAllSessions(r) ==
  /\ Starts(r, "revokeAll")
  /\ EndSessions(LiveSession)
  /\ End(r, "done")
  /\ UNCHANGED <<user, rights, tokens, moved, raced>>

-----------------------------------------------------------------------------
(* User u becomes row; the requests that had read a user did not see it.   *)
Write(r, u, row) ==
  /\ user' = [user EXCEPT ![u] = row]
  /\ moved' = IF user[u] # None /\ user[u].role # row.role THEN moved \cup {u} ELSE moved
  /\ raced' = raced \cup {q \in Req \ {r} : stage[q] \in {"count", "write"}}

Outdated(row) == [row EXCEPT !.ver = @ + 1]

(* changePassword: the new hash, then the version.                         *)
ChangePassword(r) ==
  /\ Starts(r, "changePassword")
  /\ \E u \in LiveUsers : Write(r, u, Outdated(user[u]))
  /\ End(r, "done")
  /\ UNCHANGED <<rights, session, tokens, ended, slipped>>

(* resetUserPassword of the console: hash and version at once, then the    *)
(* sessions.                                                               *)
ResetPassword(r) ==
  /\ Starts(r, "reset")
  /\ \E u \in LiveUsers : /\ Write(r, u, Outdated(user[u]))
                         /\ Goto(r, "cut", [op |-> "reset", on |-> u])
  /\ UNCHANGED <<rights, session, tokens, ended, slipped>>

CutSessions(r) ==
  /\ stage[r] = "cut"
  /\ EndSessions({s \in LiveSession : session[s].user = job[r].on})
  /\ End(r, "done")
  /\ UNCHANGED <<user, rights, tokens, moved, raced>>

-----------------------------------------------------------------------------
RoleAfter(row, change) == IF change.role = "keep" THEN row.role ELSE change.role

Applied(row, change) ==
  [row EXCEPT !.role = RoleAfter(row, change),
              !.active = IF change.active = "keep" THEN @ ELSE change.active = "yes",
              !.restricted = \/ change.modules = "list"
                             \/ @ /\ change.modules # "all" /\ change.role # "owner"]

CreateUser(r) ==
  /\ Starts(r, "create")
  /\ \E role \in NewRoles, list \in BOOLEAN :
       /\ role = "owner" => ~list
       /\ Write(r, r, [NewUser(role) EXCEPT !.restricted = list])
  /\ End(r, "done")
  /\ UNCHANGED <<rights, session, tokens, ended, slipped>>

(* exists, findRole and moduleFields: an owner is not given a list.        *)
ReadUser(r) ==
  /\ \/ /\ Starts(r, "update")
        /\ \E u \in LiveUsers, change \in Change :
             /\ change.modules = "list" => RoleAfter(user[u], change) # "owner"
             /\ Goto(r, "write", [op |-> "update", on |-> u, seen |-> user[u], change |-> change])
     \/ /\ Starts(r, "remove")
        /\ \E u \in LiveUsers : Goto(r, "write", [op |-> "remove", on |-> u])
     \/ /\ Starts(r, "patchOverrides")
        /\ \E u \in LiveUsers : Goto(r, "write", [op |-> "patchOverrides", on |-> u])
  /\ UNCHANGED accountVars

UpdateUser(r) ==
  /\ stage[r] = "write" /\ job[r].op = "update"
  /\ Write(r, job[r].on, Applied(user[job[r].on], job[r].change))
  /\ End(r, "done")
  /\ UNCHANGED <<rights, session, tokens, ended, slipped>>

RemoveUser(r) ==
  /\ stage[r] = "write" /\ job[r].op = "remove"
  /\ Write(r, job[r].on, [Outdated(user[job[r].on]) EXCEPT !.deleted = TRUE, !.active = FALSE])
  /\ End(r, "done")
  /\ UNCHANGED <<rights, session, tokens, ended, slipped>>

PatchOverrides(r) ==
  /\ stage[r] = "write" /\ job[r].op = "patchOverrides"
  /\ \E c \in Cap, choice \in {"role", "granted", "denied"} :
       override' = [override EXCEPT ![job[r].on][c] = choice]
  /\ Write(r, job[r].on, Outdated(user[job[r].on]))
  /\ End(r, "done")
  /\ UNCHANGED <<grant, session, tokens, ended, slipped>>

(* The row of app_auth.role_customizations an edit asks for: none when what *)
(* is desired is the default, and then there may be none to delete.        *)
Customization(role, c, desired) ==
  IF desired = (c \in RolePerms(role))
  THEN IF grant[role][c] = "default" THEN "none" ELSE "default"
  ELSE IF desired THEN "granted" ELSE "denied"

(* patchRole, in the transaction of its request: first the rows of the     *)
(* role, which two edits do not hold at once.  The owner is not edited.    *)
PatchRole(r) ==
  /\ Starts(r, "patchRole")
  /\ \E role \in Role \ {"owner"}, c \in Cap, desired \in BOOLEAN :
       LET choice == Customization(role, c, desired)
       IN  /\ \E u \in UserId : user[u] # None /\ user[u].role = role   \* bound
           /\ \/ choice = "none"
              \/ \A q \in Doing("patchRole") :
                   <<job[q].role, job[q].cap>> = <<role, c>> => job[q].choice = "none"
           /\ Goto(r, "outdate", [op |-> "patchRole", role |-> role, cap |-> c,
                                  choice |-> choice, users |-> {}])
  /\ UNCHANGED accountVars

(* Then the UPDATE of the versions: the users of the role it can see.      *)
FindRoleUsers(r) ==
  /\ stage[r] = "outdate"
  /\ Goto(r, "publish",
          [job[r] EXCEPT !.users = {u \in LiveUsers : user[u].role = job[r].role}])
  /\ UNCHANGED accountVars

BumpNobody(role, seen) == user
BumpRole(role, seen) ==
  [u \in UserId |-> IF u \in seen \cap LiveUsers /\ user[u].role = role
                    THEN Outdated(user[u]) ELSE user[u]]

(* Overlooked: of the role by now, and not among those the UPDATE saw.     *)
Overlooked(role, seen) == {u \in LiveUsers \ seen : user[u].role = role}

(* It locks those that are still of the role, and holds them (others wait) *)
(* while listRoles reads the matrix; rows and versions change at COMMIT.   *)
CommitRole(r) ==
  /\ stage[r] = "publish"
  /\ LET j == job[r]
     IN  /\ grant' = IF j.choice = "none" THEN grant
                     ELSE [grant EXCEPT ![j.role][j.cap] = j.choice]
         /\ user' = BumpRole(j.role, j.users)
         /\ moved' = moved \cup Overlooked(j.role, j.users)
  /\ End(r, "done")
  /\ UNCHANGED <<override, session, tokens, ended, slipped, raced>>

-----------------------------------------------------------------------------
(* updateBusinessUser of the console: the user, the other owners if an     *)
(* owner is lost, and the write, each a statement of its own.              *)
LosesOwner(row, change) ==
  /\ row.role = "owner"
  /\ \/ RoleAfter(row, change) # "owner"
     \/ change.active = "no" /\ row.active

ReadEmployee(r) ==
  /\ Starts(r, "console")
  /\ \E u \in UserId, change \in Change :
       /\ user[u] # None /\ change.modules = "keep"
       /\ Goto(r, IF LosesOwner(user[u], change) THEN "count" ELSE "write",
               [op |-> "console", on |-> u, change |-> change])
  /\ UNCHANGED accountVars

AnyoneRemains(u)    == LiveUsers \ {u} # {}
AnotherOwner(u) == Owners \ {u} # {}

CountOwners(r) ==
  /\ stage[r] = "count"
  /\ IF AnotherOwner(job[r].on) THEN Goto(r, "write", job[r]) ELSE End(r, "refused")
  /\ UNCHANGED accountVars

ConsoleUpdate(r) ==
  /\ stage[r] = "write" /\ job[r].op = "console"
  /\ LET row == user[job[r].on]
     IN  Write(r, job[r].on, [Applied(row, job[r].change) EXCEPT !.restricted = row.restricted])
  /\ End(r, "done")
  /\ UNCHANGED <<rights, session, tokens, ended, slipped>>

-----------------------------------------------------------------------------
(* register of a business: another one may have the name or the address,   *)
(* not both; and nobody has an administrator's.                            *)
NoConflict(body) == {}
Conflict(body) == {q \in Req : registered[q] = body \/ body.email = "admin"}

EnsureNoConflict(r) ==
  /\ Starts(r, "register")
  /\ \E body \in Signups :
       /\ IF Conflict(body) # {} THEN End(r, "refused")
          ELSE Goto(r, "sign up", [op |-> "register", body |-> body])
       /\ hurried' = IF \E q \in Doing("register") : job[q].body = body
                     THEN hurried \cup {body} ELSE hurried
  /\ UNCHANGED <<accounts, registered, witnesses>>

(* The business, its owner, its modules and its expense categories.        *)
CreateBusinessWithOwner(r) ==
  /\ stage[r] = "sign up"
  /\ registered' = [registered EXCEPT ![r] = job[r].body]
  /\ End(r, "done")
  /\ UNCHANGED <<accounts, hurried, witnesses>>

AccountsStep ==
  /\ UNCHANGED status
  /\ \E r \in Req :
       \/ /\ \/ Login(r) \/ FindSession(r) \/ ReadSessionUser(r) \/ ReadOverrides(r)
             \/ RevokeOld(r) \/ ReadRoleCaps(r) \/ IssueTokens(r) \/ Impersonate(r)
             \/ Logout(r) \/ RevokeSession(r) \/ RevokeAllSessions(r)
             \/ ChangePassword(r) \/ ResetPassword(r) \/ CutSessions(r)
             \/ CreateUser(r) \/ ReadUser(r) \/ UpdateUser(r) \/ RemoveUser(r)
             \/ PatchOverrides(r) \/ PatchRole(r) \/ FindRoleUsers(r) \/ CommitRole(r)
             \/ ReadEmployee(r) \/ CountOwners(r) \/ ConsoleUpdate(r)
          /\ UNCHANGED signups
       \/ EnsureNoConflict(r) \/ CreateBusinessWithOwner(r)

-----------------------------------------------------------------------------
(* A session that was ended stays ended: once a logout, an administrator   *)
(* or a password reset has revoked the session of a login, that login has  *)
(* no session any more, however often it is refreshed, unless a refresh    *)
(* of it was in flight at that moment.  Refresh replaces a session by      *)
(* another, so a login has at most one that works, with the same excuse.   *)
EndedStaysEnded ==
  /\ (ended \ slipped) \cap Family(LiveSession) = {}
  /\ \A s, t \in LiveSession :
       session[s].login = session[t].login /\ session[s].login \notin slipped => s = t

(* The token version is what tells old rights from new ones: a token with  *)
(* a user's current version carries the user's current rights, because the *)
(* rights change together with the version and are read after it.  Two     *)
(* users are excused: one given another role, since update leaves the      *)
(* version as it is, and one who came to a role while it was being edited, *)
(* after the UPDATE of the versions and before its COMMIT.                 *)
Rights(t) == {c \in Cap : HasCap(t, c)}
VersionTellsRights ==
  \A t \in tokens :
    /\ t.user \in LiveUsers \ moved
    /\ t.ver = user[t.user].ver
    => Rights(t) = Rights([caps |-> EffectiveCaps(t.role), overrides |-> override[t.user]])

(* The console never takes a business its last active owner, unless        *)
(* another request wrote a user between its reads and its write.           *)
ConsoleKeepsAnOwner ==
  [][\A r \in Req :
       /\ stage[r] = "write" /\ job[r].op = "console" /\ stage'[r] = "done"
       /\ r \notin raced /\ Owners # {}
       => Owners' # {}]_<<requests, accountVars>>

OneRegistration ==
  \A q, r \in Req : registered[q] # None /\ registered[q] = registered[r] =>
    q = r \/ registered[q] \in hurried
=============================================================================
