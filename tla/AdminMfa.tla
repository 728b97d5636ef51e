------------------------------ MODULE AdminMfa -------------------------------
(***************************************************************************)
(* The second factor of a platform administrator: the row of platform_     *)
(* admins, the challenge that enrols an authenticator and the verification *)
(* of its codes, statement by statement.  Time is counted in the steps of  *)
(* a code; a code is the secret and the step it was made from, so two      *)
(* codes are never equal by chance, and the digits are left out.           *)
(***************************************************************************)
EXTENDS Requests

CONSTANTS
  MaxFailures,  \* MAX_FAILURES: wrong codes before the lock
  LockSteps,    \* LOCK_MS
  Start,        \* the step at the start
  MaxStep       \* bound: the last step of a behaviour

ASSUME MfaAssumption ==
  /\ MaxFailures \in Nat \ {0} /\ LockSteps \in Nat \ {0}
  /\ Start \in Nat \ {0} /\ MaxStep \in Nat /\ "first" \notin Req

Secret == Req \cup {"first"}      \* each challenge makes a new one
Code   == [secret : Secret, step : 0 .. MaxStep + 1]

VARIABLES
  step,      \* the current time step
  admin,     \* secret, readable, enabled, lastStep, failures, lockedUntil
  accepted,  \* codes that let somebody in (history variable)
  replayed,  \* a code let somebody in twice (history)
  wrong,     \* wrong codes compared since the last entry or lock (history)
  together   \* two requests were at the row at once, or one died (history)

mfaMemory == <<accepted, replayed, wrong, together>>
mfaVars   == <<step, admin, mfaMemory>>

MfaInit ==
  /\ step = Start
  /\ \E secret \in {None, "first"} :
       admin = [secret |-> secret, readable |-> TRUE, enabled |-> secret # None,
                lastStep |-> 0, failures |-> 0, lockedUntil |-> 0]
  /\ accepted = {} /\ replayed = FALSE /\ wrong = 0 /\ together = FALSE

Locked == admin.lockedUntil > step
Known  == admin.secret # None /\ admin.readable   \* readSecret

NextStep ==
  /\ "verify" \in mix /\ step < MaxStep /\ step' = step + 1
  /\ wrong' = IF Locked /\ admin.lockedUntil =< step' THEN 0 ELSE wrong
  /\ UNCHANGED <<requests, status, admin, accepted, replayed, together>>

-----------------------------------------------------------------------------
(* verifyTotp: a drift of one step either way, and no step at or before    *)
(* the last one.  lastStep 0 is null.                                      *)
AcceptableEver(secret, code, now, last) == code.secret = secret /\ code.step \in now - 1 .. now + 1
Acceptable(secret, code, now, last) ==
  code.secret = secret /\ code.step \in now - 1 .. now + 1 /\ code.step > last

Row == {q \in Req : stage[q] \in {"enrol", "accept", "fail", "lock"}}
Joins(r) == together' = (together \/ Row \ {r} # {})

(* challenge, after the password: an authenticator that is enrolled stays; *)
(* otherwise a new secret waits for its first code.                        *)
Challenge(r) ==
  /\ Starts(r, "challenge")
  /\ IF admin.enabled /\ Known THEN End(r, "done") ELSE Goto(r, "enrol", [op |-> "challenge"])
  /\ Joins(r)
  /\ UNCHANGED <<status, step, admin, accepted, replayed, wrong>>

Enrol(r) ==
  /\ stage[r] = "enrol"
  /\ admin' = [admin EXCEPT !.secret = r, !.readable = TRUE, !.lastStep = 0]
  /\ End(r, "done")
  /\ UNCHANGED <<status, step, mfaMemory>>

(* verify reads the row, and looks at the lock and at the code.            *)
Verify(r) ==
  /\ Starts(r, "verify") /\ Known
  /\ Joins(r)
  /\ \E code \in Code :
       /\ code.step \in step - 1 .. step + 1    \* bound: older codes are wrong too
       /\ IF Locked THEN End(r, "refused") /\ UNCHANGED wrong
          ELSE IF Acceptable(admin.secret, code, step, admin.lastStep)
               THEN /\ Goto(r, "accept", [op |-> "verify", code |-> code])
                    /\ UNCHANGED wrong
               ELSE /\ Goto(r, "fail", [op |-> "verify", at |-> step])
                    /\ wrong' = wrong + 1
  /\ UNCHANGED <<status, step, admin, accepted, replayed>>

Accept(r) ==
  /\ stage[r] = "accept"
  /\ admin' = [admin EXCEPT !.failures = 0, !.lockedUntil = 0,
                            !.lastStep = job[r].code.step, !.enabled = TRUE]
  /\ replayed' = (replayed \/ job[r].code \in accepted)
  /\ accepted' = accepted \cup {job[r].code}
  /\ wrong' = 0
  /\ End(r, "done")
  /\ UNCHANGED <<status, step, together>>

EnoughOneMore(n) == n > MaxFailures
Enough(n) == n >= MaxFailures

(* A wrong code is counted in the row; the last one locks it.              *)
CountFailure(r) ==
  /\ stage[r] = "fail"
  /\ admin' = [admin EXCEPT !.failures = @ + 1]
  /\ IF Enough(admin.failures + 1) THEN Goto(r, "lock", job[r]) ELSE End(r, "refused")
  /\ UNCHANGED <<status, step, mfaMemory>>

Lock(r) ==
  /\ stage[r] = "lock"
  /\ admin' = [admin EXCEPT !.failures = 0, !.lockedUntil = job[r].at + LockSteps]
  /\ wrong' = IF admin'.lockedUntil =< step THEN 0 ELSE wrong
  /\ End(r, "refused")
  /\ UNCHANGED <<status, step, accepted, replayed, together>>

(* JWT_REFRESH_SECRET, which seals the secret, is changed.                 *)
RotateKey ==
  /\ "rotateKey" \in mix /\ admin.readable
  /\ admin' = [admin EXCEPT !.readable = FALSE]
  /\ UNCHANGED <<requests, status, step, mfaMemory>>

MfaStep ==
  \/ NextStep \/ RotateKey
  \/ \E r \in Req : \/ Challenge(r) \/ Enrol(r) \/ Verify(r) \/ Accept(r)
                    \/ CountFailure(r) \/ Lock(r)

-----------------------------------------------------------------------------
(* "a code can't be replayed": no code lets anybody in twice, unless two   *)
(* requests were at the row at once: each compares its code with the step  *)
(* it has read, and writes its own over the other's, forwards or back.     *)
CodesWorkOnce == together \/ ~replayed

(* Guessing is bounded: after MaxFailures wrong codes nobody's code is     *)
(* looked at until the lock is over, unless requests overlapped (they all  *)
(* pass the lock first) or one died between the count and the lock.        *)
GuessingIsBounded == together \/ wrong =< MaxFailures
=============================================================================
