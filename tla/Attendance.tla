----------------------------- MODULE Attendance ------------------------------
(***************************************************************************)
(* The shifts of the employees of one business: check-in, pauses and       *)
(* check-out, each a request's transaction that reads first and writes     *)
(* last, and the nightly job that closes what was left open.  The job runs *)
(* outside every request: no tenant, no transaction, every UPDATE by       *)
(* itself.  Positions and notes are left out.                              *)
(***************************************************************************)
EXTENDS TenantRows

CONSTANTS
  Employee,    \* users who check in
  StaleAfter,  \* hours after which a shift is closed; 16 in the code
  MaxHour      \* bound: hours of a behaviour

ShiftRow == [user : Employee, in : Nat, out : Nat \cup {None}, worked : Nat,
             by : {"user", "job", None}]
PauseRow == [of : Req, start : Nat, end : Nat \cup {None}]

ASSUME AttendanceAssumption ==
  /\ StaleAfter \in Nat \ {0} /\ MaxHour \in Nat
  /\ None \notin Nat \cup {"user", "job"} /\ None \notin ShiftRow \cup PauseRow

VARIABLES
  hour,
  shift,    \* app.attendances; a request opens one at most
  pause,    \* app.attendance_pauses; a request adds one at most
  shared,   \* shifts two requests were at once (history variable)
  doubled   \* employees with two check-ins at once (history variable)

attendanceVars == <<hour, shift, pause, shared, doubled>>

AttendanceInit ==
  /\ hour = 0
  /\ shift = [r \in Req |-> None] /\ pause = [r \in Req |-> None]
  /\ shared = {} /\ doubled = {}

NewShift(e) == [user |-> e, in |-> hour, out |-> None, worked |-> 0, by |-> None]
NewPause(a) == [of |-> a, start |-> hour, end |-> None]

Shifts  == {a \in Req : shift[a] # None}
Open(e) == {a \in Shifts : shift[a].user = e /\ shift[a].out = None}
Pauses(a) == {p \in Req : pause[p] # None /\ pause[p].of = a}
Active(a) == {p \in Pauses(a) : pause[p].end = None}

(* Seeded faults, here and below: definitions with a plausible bug, used   *)
(* only to show that the properties notice it.  Here: pauses that ended.   *)
EndedBefore(a, p) == MapThenSumSet(LAMBDA q : pause[q].end - pause[q].start,
                                   Pauses(a) \ Active(a))
(* Hours of pause of a shift, if pause p (or None) ends now.               *)
PauseHours(a, p) ==
  SumFunction([q \in (Pauses(a) \ Active(a)) \cup (Pauses(a) \cap {p}) |->
                 (IF q = p THEN hour ELSE pause[q].end) - pause[q].start])

(* A request with no choice left is one step away from its writes.         *)
At(a) == {r \in Req : job[r].op \in {"checkOut", "togglePause", "autoCheckout"}
                      /\ a \in job[r].shifts}
Shares(s) == shared' = shared \cup {a \in s : At(a) # {}}

-----------------------------------------------------------------------------
AnyShift(e) == {}
AlreadyIn(e) == Open(e)

FindOpenToCheckIn(r) ==
  /\ Starts(r, "checkIn")
  /\ \E e \in Employee :
       /\ IF AlreadyIn(e) # {} THEN End(r, "refused")
          ELSE Goto(r, "create", [op |-> "checkIn", user |-> e])
       /\ doubled' = IF \E q \in Doing("checkIn") : job[q].user = e
                     THEN doubled \cup {e} ELSE doubled
  /\ UNCHANGED <<hour, shift, pause, shared>>

CreateShift(r) ==
  /\ stage[r] = "create" /\ job[r].op = "checkIn"
  /\ shift' = [shift EXCEPT ![r] = NewShift(job[r].user)]
  /\ End(r, "done")
  /\ UNCHANGED <<hour, pause, shared, doubled>>

(* The open shift of the user, any of them when there are two.             *)
FindOpenShift(r) ==
  \E op \in {"checkOut", "togglePause"} :
    /\ Starts(r, op)
    /\ \E e \in Employee :
         \/ /\ Open(e) = {} /\ End(r, "refused") /\ UNCHANGED shared
         \/ \E a \in Open(e) :
              /\ Goto(r, "findPause", [op |-> op, shifts |-> {a}, pause |-> None])
              /\ Shares({a})
    /\ UNCHANGED <<hour, shift, pause, doubled>>

FindActivePause(r) ==
  /\ stage[r] = "findPause"
  /\ \E a \in job[r].shifts :
       \E p \in (IF Active(a) = {} THEN {None} ELSE Active(a)) :
         Goto(r, "record", [job[r] EXCEPT !.pause = p])
  /\ UNCHANGED attendanceVars

EndPause(r) == [pause EXCEPT ![job[r].pause].end = hour]

TogglePause(r) ==
  /\ stage[r] = "record" /\ job[r].op = "togglePause"
  /\ \E a \in job[r].shifts :
       pause' = IF job[r].pause # None THEN EndPause(r)
                ELSE [pause EXCEPT ![r] = NewPause(a)]
  /\ End(r, "done")
  /\ UNCHANGED <<hour, shift, shared, doubled>>

CheckOut(r) ==
  /\ stage[r] = "record" /\ job[r].op = "checkOut"
  /\ pause' = IF job[r].pause # None THEN EndPause(r) ELSE pause
  /\ \E a \in job[r].shifts :
       shift' = [shift EXCEPT ![a].out = hour, ![a].by = "user", ![a].worked =
                   Max({0, hour - shift[a].in - PauseHours(a, job[r].pause)})]
  /\ End(r, "done")
  /\ UNCHANGED <<hour, shared, doubled>>

-----------------------------------------------------------------------------
(* The job reads on the app pool, with no tenant set.                      *)
OpenFor(hours) == {a \in Shifts : shift[a].out = None /\ hour - shift[a].in >= hours}
OpenOlderThan == IF enforced THEN {} ELSE OpenFor(StaleAfter + 1)
FindStale(r) ==
  /\ Starts(r, "autoCheckout")
  /\ Goto(r, "force", [op |-> "autoCheckout", shifts |-> OpenOlderThan,
                       due |-> OpenFor(StaleAfter + 1)])
  /\ Shares(OpenOlderThan)
  /\ UNCHANGED <<hour, shift, pause, doubled>>

(* The UPDATE is by id alone: it also closes what was closed meanwhile.    *)
ForceCheckOut(r) ==
  /\ stage[r] = "force"
  /\ \E a \in job[r].shifts :
       /\ shift' = [shift EXCEPT ![a].out = hour, ![a].worked = StaleAfter, ![a].by = "job"]
       /\ Goto(r, "force", [job[r] EXCEPT !.shifts = @ \ {a}])
  /\ UNCHANGED <<hour, pause, shared, doubled>>

EndSweep(r) ==
  /\ stage[r] = "force" /\ job[r].shifts = {}
  /\ End(r, "done")
  /\ UNCHANGED attendanceVars

PassHour == /\ "hour" \in mix /\ hour < MaxHour
            /\ hour' = hour + 1
            /\ UNCHANGED <<requests, shift, pause, shared, doubled>>

AttendanceStep ==
  /\ \/ PassHour
     \/ \E r \in Req :
          \/ FindOpenToCheckIn(r) \/ CreateShift(r) \/ FindOpenShift(r)
          \/ FindActivePause(r)   \/ TogglePause(r) \/ CheckOut(r)
          \/ FindStale(r)         \/ ForceCheckOut(r) \/ EndSweep(r)
  /\ UNCHANGED <<status, tenantRowVars>>

-----------------------------------------------------------------------------
OneOpenShift == \A e \in Employee \ doubled : Cardinality(Open(e)) =< 1

(* A shift its user closed counts the hours between its ends less all of   *)
(* its pauses, none of which is still running, unless two requests were at *)
(* the shift at once.                                                      *)
HoursAreTrue ==
  \A a \in Shifts \ shared : shift[a].by = "user" =>
    /\ Active(a) = {}
    /\ shift[a].worked = shift[a].out - shift[a].in - PauseHours(a, None)

(* Whatever was open for too long when the nightly job began is closed     *)
(* when it ends.                                                           *)
StaleIsClosed ==
  \A r \in Doing("autoCheckout") : job[r].shifts = {} =>
    \A a \in job[r].due : shift[a].out # None
=============================================================================
