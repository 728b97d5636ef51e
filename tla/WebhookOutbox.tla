---------------------------- MODULE WebhookOutbox ----------------------------
(***************************************************************************)
(* The webhook deliveries of app.webhook_deliveries and the poller that    *)
(* sends them.  Every minute a drain selects what is due and works through *)
(* it, one HTTP request at a time; the next minute does not wait for it,   *)
(* so drains overlap, and nothing marks a row as taken.  A drain holds any *)
(* number of rows of other tenants between two of these, so it may take    *)
(* any time.  Its LIMIT of 50 rows is above the number of rows here, and   *)
(* the order in which it takes them is left open.                          *)
(***************************************************************************)
EXTENDS Integers, FiniteSets

CONSTANTS
  Delivery,     \* deliveries, each enqueued once
  Hook, HookOf, \* webhooks, and the one of each delivery
  Drain,        \* drains that may overlap
  MaxAttempts,  \* 8 in the code
  MaxCrashes,   \* crashes of the process in a behaviour
  NoDelivery

ASSUME OutboxAssumption ==
  /\ HookOf \in [Delivery -> Hook] /\ NoDelivery \notin Delivery /\ IsFiniteSet(Drain)
  /\ MaxAttempts \in Nat \ {0} /\ MaxCrashes \in Nat

VARIABLES
  row,          \* [status, attempts, wait]: wait minutes are left to next_at
  todo,         \* the rows each drain selected and has not tried
  current,      \* the row it is trying
  phase,        \* the step it takes next
  bumped,       \* the attempts its UPDATE returned
  crashes,
  tries,        \* times each delivery was tried (history variable)
  shared        \* rows that two drains held at once (history variable)

worker == <<todo, current, phase, bumped>>
outbox == <<row, worker, crashes, tries, shared>>

Absent == [status |-> "absent", attempts |-> 0, wait |-> 0]
Deleted == [status |-> "deleted", attempts |-> 0, wait |-> 0]
Stored(d) == row[d].status \in {"pending", "ok", "failed"}
Held(w) == todo[w] \cup ({current[w]} \ {NoDelivery})
Free(w) == phase[w] = "idle"

OutboxInit ==
  /\ row = [d \in Delivery |-> Absent]
  /\ todo = [w \in Drain |-> {}]
  /\ current = [w \in Drain |-> NoDelivery]
  /\ phase = [w \in Drain |-> "idle"]
  /\ bumped = [w \in Drain |-> 0]
  /\ crashes = 0
  /\ tries = [d \in Delivery |-> 0]
  /\ shared = {}

-----------------------------------------------------------------------------
(* insertDeliveries, after the order's transaction has committed.          *)
Enqueue(d) ==
  /\ row[d].status = "absent"
  /\ row' = [row EXCEPT ![d].status = "pending"]
  /\ UNCHANGED <<worker, crashes, tries, shared>>

(* DELETE of a webhook; its deliveries go with it (ON DELETE CASCADE).     *)
DeleteWebhook(h) ==
  /\ \E d \in Delivery : HookOf[d] = h /\ Stored(d)
  /\ row' = [d \in Delivery |-> IF HookOf[d] = h THEN Deleted ELSE row[d]]
  /\ UNCHANGED <<worker, crashes, tries, shared>>

(* Seeded faults, here and below: definitions with a plausible bug, used   *)
(* only to show that the properties notice it.  This one sends a failed    *)
(* delivery again.                                                         *)
DueUnlessOk(r) == r.status \in {"pending", "failed"} /\ r.wait = 0
(* Fault: what was tried before is not selected again.                     *)
DueFirstTime(r) == r.status = "pending" /\ r.attempts = 0
Due(r) == r.status = "pending" /\ r.wait = 0

(* A minute passes: what waits comes closer, and a drain starts if none of *)
(* the modelled ones is left the minute passes without.                    *)
Aged == [d \in Delivery |-> [row[d] EXCEPT !.wait = IF @ = 0 THEN 0 ELSE @ - 1]]
Tick(w) ==
  LET due == {d \in Delivery : Due(Aged[d])}
  IN  /\ Free(w) /\ due # {}
      /\ row' = Aged
      /\ todo' = [todo EXCEPT ![w] = due]
      /\ phase' = [phase EXCEPT ![w] = "next"]
      /\ shared' = shared \cup UNION {Held(v) \cap due : v \in Drain}
      /\ UNCHANGED <<current, bumped, crashes, tries>>

Minute ==
  /\ \/ \A w \in Drain : ~Free(w)
     \/ \A d \in Delivery : ~Due(Aged[d])
  /\ row' = Aged
  /\ UNCHANGED <<worker, crashes, tries, shared>>

-----------------------------------------------------------------------------
Goto(w, next) == phase' = [phase EXCEPT ![w] = next]
Leave(w, rest) ==
  /\ current' = [current EXCEPT ![w] = NoDelivery]
  /\ todo' = [todo EXCEPT ![w] = rest]
  /\ bumped' = [bumped EXCEPT ![w] = 0]
  /\ Goto(w, IF rest = {} THEN "idle" ELSE "next")

(* deliver: the target is refused, or the receiver says no or nothing in   *)
(* time, or it answers 2xx.  What it did with the request the sender       *)
(* cannot tell in any case.                                                *)
Try(w) ==
  /\ phase[w] = "next"
  /\ \E d \in todo[w], answer \in {"bump", "accepted"} :
       /\ current' = [current EXCEPT ![w] = d]
       /\ todo' = [todo EXCEPT ![w] = @ \ {d}]
       /\ tries' = [tries EXCEPT ![d] = @ + 1]
       /\ Goto(w, answer)
  /\ UNCHANGED <<row, bumped, crashes, shared>>

(* Fault: a success does not count as an attempt.                          *)
AcceptedUncounted(r) == [r EXCEPT !.status = "ok"]
Accepted(r) == [r EXCEPT !.status = "ok", !.attempts = @ + 1]

MarkOk(w) ==
  /\ phase[w] = "accepted"
  /\ row' = IF Stored(current[w]) THEN [row EXCEPT ![current[w]] = Accepted(@)] ELSE row
  /\ Leave(w, todo[w])
  /\ UNCHANGED <<crashes, tries, shared>>

(* That UPDATE fails: the catch takes an accepted delivery for a failed    *)
(* one, which is then sent again.                                          *)
MarkFails(w) ==
  /\ phase[w] = "accepted"
  /\ Goto(w, "bump")
  /\ UNCHANGED <<row, todo, current, bumped, crashes, tries, shared>>

(* bumpAttempts, first statement.                                          *)
Bump(w) ==
  LET d == current[w]
  IN  /\ phase[w] = "bump" /\ Stored(d)
      /\ row' = [row EXCEPT ![d].attempts = @ + 1]
      /\ bumped' = [bumped EXCEPT ![w] = row[d].attempts + 1]
      /\ Goto(w, "retry")
      /\ UNCHANGED <<todo, current, crashes, tries, shared>>

(* No row to bump: executeTakeFirstOrThrow ends the whole drain.           *)
Abort(w) ==
  /\ phase[w] = "bump" /\ ~Stored(current[w])
  /\ Leave(w, {})
  /\ UNCHANGED <<row, crashes, tries, shared>>

(* Fault: the last attempt is one too early.                               *)
ExhaustedEarly(attempts) == attempts + 1 >= MaxAttempts
Exhausted(attempts) == attempts >= MaxAttempts

(* bumpAttempts, second statement: failed, or next_at attempts^2 minutes   *)
(* away.                                                                   *)
Rescheduled(r, n) == IF Exhausted(n) THEN [r EXCEPT !.status = "failed"]
                                     ELSE [r EXCEPT !.wait = n * n]
Reschedule(w) ==
  LET d == current[w]
  IN  /\ phase[w] = "retry"
      /\ row' = IF Stored(d) THEN [row EXCEPT ![d] = Rescheduled(@, bumped[w])] ELSE row
      /\ Leave(w, todo[w])
      /\ UNCHANGED <<crashes, tries, shared>>

(* The process dies with its drains and starts again.                      *)
Restart ==
  /\ crashes < MaxCrashes /\ \E w \in Drain : ~Free(w)
  /\ crashes' = crashes + 1
  /\ todo' = [w \in Drain |-> {}]
  /\ current' = [w \in Drain |-> NoDelivery]
  /\ phase' = [w \in Drain |-> "idle"]
  /\ bumped' = [w \in Drain |-> 0]
  /\ UNCHANGED <<row, tries, shared>>

Work(w) == Try(w) \/ MarkOk(w) \/ MarkFails(w) \/ Bump(w) \/ Abort(w) \/ Reschedule(w)
Clock == Minute \/ \E w \in Drain : Tick(w)

OutboxNext ==
  \/ \E d \in Delivery : Enqueue(d)
  \/ \E h \in Hook : DeleteWebhook(h)
  \/ Clock
  \/ \E w \in Drain : Work(w)
  \/ Restart

(* The clock and the drains go on; nobody has to enqueue or delete.        *)
OutboxSpec == /\ OutboxInit /\ [][OutboxNext]_outbox
              /\ WF_outbox(Clock) /\ \A w \in Drain : WF_outbox(Work(w))

-----------------------------------------------------------------------------
(* Tries that are not counted in the row yet.                              *)
InFlight(d) == {w \in Drain : current[w] = d /\ phase[w] \in {"accepted", "bump"}}

(***************************************************************************)
(* The attempts of a row are the times it was tried: overlapping drains    *)
(* lose no count, and only a crash does, one for each drain.  So a row     *)
(* that no two drains held at once is tried MAX_ATTEMPTS times at most,    *)
(* once more for each crash, and is given up after no fewer.               *)
(***************************************************************************)
EveryTryCounted ==
  \A d \in Delivery : Stored(d) =>
    /\ row[d].attempts + Cardinality(InFlight(d)) =< tries[d]
    /\ tries[d] =< row[d].attempts + Cardinality(InFlight(d)) + crashes * Cardinality(Drain)
    /\ d \notin shared => tries[d] =< MaxAttempts + crashes
    /\ row[d].status = "failed" => row[d].attempts >= MaxAttempts

(***************************************************************************)
(* A row that no two drains held at once stays delivered or given up, and  *)
(* is not tried again.  One that two held does not: one of them sees it    *)
(* accepted, the other one then runs into the last failure.                *)
(***************************************************************************)
SettledStaysIfAlone ==
  [][\A d \in Delivery \ shared' : row[d].status \in {"ok", "failed"} =>
       row'[d].status \in {row[d].status, "deleted"} /\ tries'[d] = tries[d]]_outbox

(***************************************************************************)
(* Every delivery is settled in the end, whatever overlaps, crashes or is  *)
(* deleted in the middle of a drain: a drain that dies leaves its rows to  *)
(* later ones.                                                             *)
(***************************************************************************)
EveryDeliverySettled ==
  \A d \in Delivery :
    row[d].status = "pending" ~> row[d].status \in {"ok", "failed", "deleted"}
=============================================================================
