------------------------------- MODULE Notices -------------------------------
(***************************************************************************)
(* What the scheduler tells a business: the notices of the daily scan of   *)
(* its one product, which its users read, and the mails that remind its    *)
(* owner of the end of the subscription, or of the platform after a long   *)
(* absence.  A scan runs outside every request and commits each statement; *)
(* two processes scan twice.                                               *)
(***************************************************************************)
EXTENDS Requests, Sequences

CONSTANTS
  MinStock,     \* the product's threshold
  MaxQuantity,  \* bound: what is in stock, and the days to its expiry
  Thresholds,   \* days before the end at which the owner is reminded; 7, 3, 1
  Absences,     \* days after the last login at which the owner is; 14, 30
  EndHour,      \* bound: the hour the subscription ends
  Day           \* hours of a day

NoticeType == {"outOfStock", "lowStock", "expiring"}
NoticeRow  == [type : NoticeType, qty : Nat, read : BOOLEAN]

ASSUME NoticesAssumption ==
  /\ None \notin NoticeRow
  /\ MinStock \in Nat /\ MaxQuantity \in Nat
  /\ Thresholds \subseteq Nat \ {0} /\ Absences \subseteq Nat \ {0}
  /\ EndHour \in Nat /\ Day \in Nat \ {0}

VARIABLES
  inStock,   \* the sum of the product's stock levels
  daysLeft,  \* to the product's expiry; 0 if it has none in the next 30
  notice,    \* app.notifications: by the scan and its loop
  lastLogin, \* the hour the owner was last seen
  runs,      \* the hours at which the reminders ran
  mails,     \* reminders sent, or tried, and the hour each was due
  scanning2  \* whether two scans were under way at once (history variable)

product0   == <<inStock, daysLeft>>
reminders  == <<lastLogin, runs, mails>>
noticeVars == <<product0, notice, reminders, scanning2>>

NoticeId == Req \X {"stock", "expiry"}    \* a scan creates one of each at most

NoticesInit ==
  /\ inStock \in 0 .. MaxQuantity /\ daysLeft = 0
  /\ notice = [n \in NoticeId |-> None]
  /\ lastLogin = 0 /\ runs = {} /\ mails = {} /\ scanning2 = FALSE

Unread(type, qty) ==
  {n \in NoticeId : notice[n] \in {[type |-> type, qty |-> qty, read |-> FALSE]}}

(* Stock comes and goes by the ledger, or days pass.                       *)
MoveStock(r) ==
  /\ Starts(r, "move")
  /\ \/ inStock' \in 0 .. MaxQuantity /\ UNCHANGED daysLeft
     \/ daysLeft' \in 0 .. MaxQuantity /\ UNCHANGED inStock
  /\ End(r, "done")
  /\ UNCHANGED <<notice, reminders, scanning2>>

(* What the scan found: what is low, and then what is about to expire.     *)
LowStock ==
  IF inStock < MinStock
  THEN <<[loop |-> "stock", qty |-> inStock,
          type |-> IF inStock = 0 THEN "outOfStock" ELSE "lowStock"]>>
  ELSE <<>>
Expiring ==
  IF daysLeft > 0 THEN <<[loop |-> "expiry", qty |-> daysLeft, type |-> "expiring"]>> ELSE <<>>

(* The loops of scanNow go on with the candidates that are left.           *)
GoOn(r, left) == IF left = <<>> THEN End(r, "done")
                 ELSE Goto(r, "exists", [op |-> "scan stock", left |-> left])
Now(r) == Head(job[r].left)

FindCandidates(r) ==
  /\ Starts(r, "scan stock")
  /\ GoOn(r, LowStock \o Expiring)
  /\ scanning2' = (scanning2 \/ Doing("scan stock") # {})
  /\ UNCHANGED <<product0, notice, reminders>>

(* Seeded faults, here and below: definitions with a plausible bug, used   *)
(* only to show that the properties notice it.                             *)
AnyNotice(r) == {n \in Unread(Now(r).type, Now(r).qty) : n[1] = r}
(* One unread notice of this text is enough.                               *)
SameNotice(r) == Unread(Now(r).type, Now(r).qty)
ExistsUnread(r) ==
  /\ stage[r] = "exists"
  /\ IF SameNotice(r) # {} THEN GoOn(r, Tail(job[r].left)) ELSE Goto(r, "notice", job[r])
  /\ UNCHANGED noticeVars

CreateNotice(r) ==
  /\ stage[r] = "notice"
  /\ notice' = [notice EXCEPT ![<<r, Now(r).loop>>] =
                  [type |-> Now(r).type, qty |-> Now(r).qty, read |-> FALSE]]
  /\ GoOn(r, Tail(job[r].left))
  /\ UNCHANGED <<product0, reminders, scanning2>>

(* One notice is read, or all of them.                                     *)
MarkRead(r) ==
  /\ Starts(r, "read")
  /\ LET given == {n \in NoticeId : notice[n] # None}
     IN  \E ns \in {{n} : n \in given} \cup {given} :
           notice' = [n \in NoticeId |-> IF n \in ns THEN [notice[n] EXCEPT !.read = TRUE]
                                         ELSE notice[n]]
  /\ End(r, "done")
  /\ UNCHANGED <<product0, reminders, scanning2>>

-----------------------------------------------------------------------------
(* The reminders run once a day, an hour early or late when the clocks     *)
(* change.  Each threshold has a window of one day: before the end, its    *)
(* last hour counts and its first does not; after a login as well.         *)
ClosedWindow(d, now) == now + (d - 1) * Day =< EndHour /\ EndHour =< now + d * Day
Window(d, now)       == now + (d - 1) * Day < EndHour  /\ EndHour =< now + d * Day
LongAgo(d, now)      == lastLogin =< now - d * Day
Absent(d, now)       == now - (d + 1) * Day < lastLogin /\ lastLogin =< now - d * Day

RemindExpiring(now) ==
  {[to |-> "renew", days |-> d, due |-> EndHour - d * Day, at |-> now] :
     d \in {e \in Thresholds : Window(e, now)}}
RemindInactive(now) ==
  {[to |-> "return", days |-> d, due |-> lastLogin + d * Day, at |-> now] :
     d \in {e \in Absences : Absent(e, now)}}

ScheduledRun(r) ==
  /\ Starts(r, "remind") /\ status = "active"
  /\ \E now \in IF runs = {} THEN 0 .. Day - 1
                ELSE {Max(runs) + gap : gap \in Day - 1 .. Day + 1} :
       /\ runs' = runs \cup {now}
       /\ mails' = mails \cup RemindExpiring(now) \cup RemindInactive(now)
  /\ End(r, "done")
  /\ UNCHANGED <<product0, notice, lastLogin, scanning2>>

(* The owner logs in, soon after a run.                                    *)
OwnerLogin(r) ==
  /\ Starts(r, "see owner") /\ status = "active" /\ runs # {}
  /\ lastLogin' = Max(runs)
  /\ End(r, "done")
  /\ UNCHANGED <<product0, notice, runs, mails, scanning2>>

NoticesStep ==
  /\ \E r \in Req : \/ MoveStock(r)    \/ FindCandidates(r) \/ ExistsUnread(r)
                    \/ CreateNotice(r) \/ MarkRead(r)
                    \/ ScheduledRun(r) \/ OwnerLogin(r)
  /\ UNCHANGED status

-----------------------------------------------------------------------------
OneUnreadNotice ==
  scanning2 \/ \A n, m \in NoticeId :
    notice[n] # None /\ notice[n] = notice[m] /\ ~notice[n].read => n = m

(* Every reminder there is: what for, how many days, and when it is due.   *)
Reminders ==
  {[to |-> "renew", days |-> d, due |-> EndHour - d * Day] : d \in Thresholds}
    \cup {[to |-> "return", days |-> d, due |-> lastLogin + d * Day] : d \in Absences}
Sent(m) == {h \in runs : [to |-> m.to, days |-> m.days, due |-> m.due, at |-> h] \in mails}

(* An owner is reminded once of each threshold that passes between the     *)
(* first run and the last, if the runs are a day apart: not twice if none  *)
(* came early, and not never if none came late.                            *)
Next2(h) == Min({i \in runs : i > h})
RemindedOnce ==
  LET followed == {h \in runs : h # Max(runs)}
  IN  runs # {} => \A m \in Reminders :
        /\ (\A h \in followed : Next2(h) - h >= Day) => Cardinality(Sent(m)) =< 1
        /\ (\A h \in followed : Next2(h) - h =< Day)
             /\ Min(runs) =< m.due /\ m.due =< Max(runs) => Sent(m) # {}
=============================================================================
