---------------------------- MODULE OfficeProofs ----------------------------
(***************************************************************************)
(* Proofs about the back office of a business, on the platform of module   *)
(* PlatformProofs: any requests, whatever each of them does.  The shifts,  *)
(* the notices and the catalogue, what is looked for before it is written, *)
(* the reminders, and the uploads with the rows and categories they go to. *)
(***************************************************************************)
EXTENDS PlatformProofs

-----------------------------------------------------------------------------
(***************************************************************************)
(* The shifts.  A check-in that nobody doubled finds no open shift of the  *)
(* employee; at a shift that no two requests shared there is one at most,  *)
(* and the pauses that ended fill no more of it than the hours before the  *)
(* pause that runs, or before now.                                         *)
(***************************************************************************)
PauseIds == {p \in Req : pause[p] # None}
Past(r)  == stage[r] # "new" /\ job[r].op \notin AttendanceOps
ShiftsTyped ==
  /\ hour \in Nat
  /\ shift \in [Req -> ShiftRow \cup {None}] /\ pause \in [Req -> PauseRow \cup {None}]
  /\ IsFiniteSet(PauseIds)
  /\ \A p \in PauseIds : pause[p].of \in Shifts
  /\ \A r \in Shifts \cup PauseIds : Past(r)

AtOneShift == [op : {"checkOut", "togglePause"}, shifts : {{a} : a \in Shifts},
               pause : Req \cup {None}]
Sweeping   == [op : {"autoCheckout"}, shifts : SUBSET Shifts, due : SUBSET Shifts]
KnowsPause(r) ==
  \/ job[r].pause = None
  \/ job[r].pause \in PauseIds /\ job[r].shifts = {pause[job[r].pause].of}
JobsClocked ==
  \A r \in Req : /\ job[r].op = "checkIn" => job[r].user \in Employee
                 /\ job[r].op \in {"checkOut", "togglePause"} =>
                      job[r] \in AtOneShift /\ (stage[r] = "record" => KnowsPause(r))
                 /\ job[r].op = "autoCheckout" => job[r] \in Sweeping

ShiftsApart ==
  \A e \in Employee \ doubled :
    /\ AtMostOne(Open(e))
    /\ \A q \in Doing("checkIn") : job[q].user = e =>
         Open(e) = {} /\ \A p \in Doing("checkIn") : job[p].user = e => p = q

(* The hours of pause that are over, up to an hour h.                      *)
Fits(a, h) == shift[a].in =< h /\ h =< hour /\ PauseHours(a, None) =< h - shift[a].in
Runs(a) ==
  \/ Active(a) = {} /\ Fits(a, hour)
  \/ \E p \in Active(a) : Active(a) = {p} /\ Fits(a, pause[p].start)
Told(a) == /\ Active(a) = {}
           /\ shift[a].worked = shift[a].out - shift[a].in - PauseHours(a, None)
ShiftTrue(a) ==
  /\ \A q, r \in At(a) : q = r
  /\ shift[a].out # None => At(a) = {}
  /\ shift[a].out = None => shift[a].by = None /\ Runs(a)
  /\ shift[a].by = "user" => Told(a)
  /\ \A r \in At(a) : stage[r] = "record" =>
       Active(a) = IF job[r].pause = None THEN {} ELSE {job[r].pause}
AttendanceInv ==
  ShiftsTyped /\ JobsClocked /\ ShiftsApart /\ \A a \in Shifts \ shared : ShiftTrue(a)

(* The hours of pause p-by-p: what the pauses ps of shift a last, if pause *)
(* p ends at h.                                                            *)
PausesOf(ps, a) == {q \in Req : ps[q] # None /\ ps[q].of = a}
ActiveOf(ps, a) == {q \in PausesOf(ps, a) : ps[q].end = None}
EndedOf(ps, a)  == PausesOf(ps, a) \ ActiveOf(ps, a)
Lasted(ps)      == [q \in Req |-> ps[q].end - ps[q].start]
Paused(ps, a, p, h) ==
  SumFunction([q \in EndedOf(ps, a) \cup (PausesOf(ps, a) \cap {p}) |->
                 (IF q = p THEN h ELSE ps[q].end) - ps[q].start])
PauseTable(ps) == ps \in [Req -> PauseRow \cup {None}] /\ IsFiniteSet({p \in Req : ps[p] # None})

LEMMA PauseHoursArePaused ==
  ASSUME NEW a, NEW p
  PROVE  /\ PauseHours(a, p) = Paused(pause, a, p, hour)
         /\ PauseHours(a, None)' = Paused(pause', a, None, hour')
         /\ Active(a) = ActiveOf(pause, a) /\ Active(a)' = ActiveOf(pause', a)
<1>1. /\ Active(a) = ActiveOf(pause, a) /\ Active(a)' = ActiveOf(pause', a)
      /\ Pauses(a) = PausesOf(pause, a) /\ Pauses(a)' = PausesOf(pause', a)
  BY DEF Active, Pauses, ActiveOf, PausesOf
<1>2. PauseHours(a, p) = Paused(pause, a, p, hour)
  BY <1>1 DEF PauseHours, Paused, EndedOf
<1>3. PauseHours(a, None)' = Paused(pause', a, None, hour')
  BY <1>1 DEF PauseHours, Paused, EndedOf
<1> QED BY <1>1, <1>2, <1>3

LEMMA EndedLast ==
  ASSUME NEW ps, PauseTable(ps), NEW a
  PROVE  /\ IsFiniteSet(EndedOf(ps, a))
         /\ \A q \in EndedOf(ps, a) : /\ q \in Req /\ ps[q] \in PauseRow /\ ps[q].end \in Nat
                                      /\ ps[q].start \in Nat
                                      /\ Lasted(ps)[q] = ps[q].end - ps[q].start
                                      /\ Lasted(ps)[q] \in Int
<1>1. EndedOf(ps, a) \subseteq {p \in Req : ps[p] # None}
  BY DEF EndedOf, PausesOf
<1>2. IsFiniteSet(EndedOf(ps, a))
  BY <1>1, FS_Subset DEF PauseTable
<1>3. ASSUME NEW q \in EndedOf(ps, a)
      PROVE  q \in Req /\ ps[q] \in PauseRow /\ ps[q].end \in Nat /\ ps[q].start \in Nat
  BY DEF EndedOf, PausesOf, ActiveOf, PauseTable, PauseRow
<1>4. \A q \in Req : Lasted(ps)[q] = ps[q].end - ps[q].start
  BY DEF Lasted
<1> QED BY <1>2, <1>3, <1>4

LEMMA PausedIsASum ==
  ASSUME NEW ps, PauseTable(ps), NEW a, NEW h
  PROVE  /\ Paused(ps, a, None, h) = SumFunctionOnSet(Lasted(ps), EndedOf(ps, a))
         /\ Paused(ps, a, None, h) \in Int
<1>1. PICK f : f = [q \in EndedOf(ps, a) |-> (IF q = None THEN h ELSE ps[q].end) - ps[q].start]
  OBVIOUS
<1>2. EndedOf(ps, a) \cup (PausesOf(ps, a) \cap {None}) = EndedOf(ps, a)
  BY NoneAssumption DEF PausesOf
<1>3. Paused(ps, a, None, h) = SumFunctionOnSet(f, EndedOf(ps, a))
  BY <1>1, <1>2 DEF Paused, SumFunction
<1>4. \A q \in EndedOf(ps, a) : f[q] = Lasted(ps)[q] /\ f[q] \in Int
  BY <1>1, EndedLast, NoneAssumption
<1>5. SumFunctionOnSet(f, EndedOf(ps, a)) = SumFunctionOnSet(Lasted(ps), EndedOf(ps, a))
  BY <1>4, EndedLast, SumOfSame
<1>6. SumFunctionOnSet(f, EndedOf(ps, a)) \in Int
  BY <1>4, EndedLast, SumIsInt
<1> QED BY <1>3, <1>5, <1>6

(* The pause that ends adds what it lasted.                                *)
EndsAt(ps, p, h, qs) == qs = [ps EXCEPT ![p].end = h]

LEMMA PauseEnds ==
  ASSUME NEW ps, PauseTable(ps), NEW a, NEW p \in ActiveOf(ps, a), NEW h \in Nat, NEW qs,
         EndsAt(ps, p, h, qs), NEW i
  PROVE  /\ PauseTable(qs)
         /\ Paused(ps, a, p, h) = Paused(ps, a, None, i) + (h - ps[p].start)
         /\ Paused(qs, a, None, i) = Paused(ps, a, p, h)
         /\ ActiveOf(qs, a) = ActiveOf(ps, a) \ {p}
         /\ \A q \in Req : (ps[q] # None <=> qs[q] # None) /\ qs[q].of = ps[q].of
<1>1. /\ p \in Req /\ ps[p] \in PauseRow /\ ps[p].end = None /\ ps[p].of = a
      /\ ps[p].start \in Nat /\ ps[p] # None
  BY DEF ActiveOf, PausesOf, PauseTable, PauseRow
<1>2. [ps[p] EXCEPT !.end = h] \in PauseRow
  BY <1>1 DEF PauseRow
<1>3. PICK new : new = [ps[p] EXCEPT !.end = h]
  OBVIOUS
<1>4. /\ new.end = h /\ new.of = a /\ new.start = ps[p].start
      /\ new \in PauseRow /\ new # None /\ h # None
  BY <1>1, <1>2, <1>3, AttendanceAssumption DEF PauseRow
<1>5. qs[p] = new /\ \A q \in Req \ {p} : qs[q] = ps[q]
  BY <1>3, <1>1 DEF PauseTable, EndsAt
<1>6. /\ qs \in [Req -> PauseRow \cup {None}]
      /\ \A q \in Req : (ps[q] # None <=> qs[q] # None) /\ qs[q].of = ps[q].of
  <2>1. qs = [ps EXCEPT ![p] = new]
    BY <1>3 DEF EndsAt
  <2>2. qs \in [Req -> PauseRow \cup {None}]
    BY <1>1, <1>4, <2>1 DEF PauseTable
  <2>3. ASSUME NEW q \in Req PROVE (ps[q] # None <=> qs[q] # None) /\ qs[q].of = ps[q].of
    <3>1. CASE q = p
      BY <1>1, <1>4, <1>5, <3>1
    <3>2. CASE q # p
      BY <1>5, <3>2
    <3> QED BY <3>1, <3>2
  <2> QED BY <2>2, <2>3
<1>7. PauseTable(qs)
  <2>1. {q \in Req : qs[q] # None} = {q \in Req : ps[q] # None}
    BY <1>6
  <2> QED BY <1>6, <2>1 DEF PauseTable
<1>8. PICK E : E = EndedOf(ps, a)
  OBVIOUS
<1>9. p \notin E /\ EndedOf(qs, a) = E \cup {p} /\ ActiveOf(qs, a) = ActiveOf(ps, a) \ {p}
  BY <1>1, <1>4, <1>5, <1>8 DEF EndedOf, ActiveOf, PausesOf
<1>10. PICK f : f = [q \in E \cup {p} |-> (IF q = p THEN h ELSE ps[q].end) - ps[q].start]
  OBVIOUS
<1>11. Paused(ps, a, p, h) = SumFunctionOnSet(f, E \cup {p})
  <2>1. PausesOf(ps, a) \cap {p} = {p}
    BY <1>1 DEF PausesOf
  <2> QED BY <1>8, <1>10, <2>1 DEF Paused, SumFunction
<1>12. IsFiniteSet(E) /\ \A q \in E : Lasted(ps)[q] \in Int /\ f[q] = Lasted(ps)[q] /\ q # p
                                      /\ q \in Req /\ ps[q] \in PauseRow
  BY <1>8, <1>9, <1>10, EndedLast
<1>13. f[p] = h - ps[p].start /\ f[p] \in Int
  BY <1>1, <1>10
<1>14. SumFunctionOnSet(f, E \cup {p}) = SumFunctionOnSet(f, E) + f[p]
  BY <1>9, <1>12, <1>13, SumGrows
<1>15. SumFunctionOnSet(f, E) = SumFunctionOnSet(Lasted(ps), E)
  BY <1>12, SumOfSame
<1>16. Paused(ps, a, None, i) = SumFunctionOnSet(Lasted(ps), E)
  BY <1>8, PausedIsASum
<1>17. Paused(qs, a, None, i) = SumFunctionOnSet(Lasted(qs), E \cup {p})
  BY <1>7, <1>9, PausedIsASum
<1>18. IsFiniteSet(E \cup {p}) /\ \A q \in E \cup {p} : f[q] \in Int /\ f[q] = Lasted(qs)[q]
  <2>1. IsFiniteSet(E \cup {p})
    BY <1>12, FS_AddElement
  <2>2. \A q \in Req : Lasted(qs)[q] = qs[q].end - qs[q].start
    BY DEF Lasted
  <2>3. Lasted(qs)[p] = h - ps[p].start
    BY <1>1, <1>4, <1>5, <2>2
  <2>4. ASSUME NEW q \in E
        PROVE  Lasted(qs)[q] = ps[q].end - ps[q].start /\ Lasted(ps)[q] = ps[q].end - ps[q].start
    <3>1. q \in Req \ {p} /\ Lasted(ps)[q] = ps[q].end - ps[q].start
      BY <1>8, <1>12, EndedLast
    <3>2. qs[q] = ps[q] /\ Lasted(qs)[q] = qs[q].end - qs[q].start
      BY <1>5, <2>2, <3>1
    <3> QED BY <3>1, <3>2
  <2> QED BY <1>12, <1>13, <2>1, <2>3, <2>4
<1>19. SumFunctionOnSet(f, E \cup {p}) = SumFunctionOnSet(Lasted(qs), E \cup {p})
  BY <1>18, SumOfSame
<1> QED BY <1>6, <1>7, <1>9, <1>11, <1>13, <1>14, <1>15, <1>16, <1>17, <1>19

(* The pauses of another shift are as they were.                           *)
LEMMA PausesElsewhere ==
  ASSUME NEW ps, PauseTable(ps), NEW qs, PauseTable(qs), NEW a, NEW h, NEW i,
         EndedOf(ps, a) = EndedOf(qs, a), \A q \in EndedOf(ps, a) : qs[q] = ps[q]
  PROVE  Paused(qs, a, None, i) = Paused(ps, a, None, h)
<1>1. PICK E : E = EndedOf(ps, a)
  OBVIOUS
<1>2. IsFiniteSet(E) /\ \A q \in E : Lasted(ps)[q] \in Int /\ Lasted(ps)[q] = Lasted(qs)[q]
  <2>1. \A q \in E : Lasted(ps)[q] \in Int /\ Lasted(ps)[q] = ps[q].end - ps[q].start
    BY <1>1, EndedLast
  <2>2. \A q \in E : Lasted(qs)[q] = qs[q].end - qs[q].start
    BY <1>1, EndedLast
  <2> QED BY <1>1, <2>1, <2>2, EndedLast
<1>3. SumFunctionOnSet(Lasted(ps), E) = SumFunctionOnSet(Lasted(qs), E)
  BY <1>2, SumOfSame
<1> QED BY <1>1, <1>3, PausedIsASum

-----------------------------------------------------------------------------
(* What leaves the shifts, and the requests that are at one, alone.        *)
ShiftOps == {"checkOut", "togglePause", "autoCheckout"}
StayPast == \A q \in Req : Past(q) => Past(q)'
SameJobs ==
  StayPast /\ \A q \in Req : job'[q].op \in ShiftOps => job'[q] = job[q] /\ stage'[q] = stage[q]
SameShift(a) ==
  /\ shift'[a] = shift[a] /\ Active(a)' = Active(a)
  /\ PauseHours(a, None)' = PauseHours(a, None)
  /\ \A p \in Active(a) : pause'[p] = pause[p]
SameCheckIns ==
  /\ doubled \subseteq doubled'
  /\ \A q \in Req : job'[q].op = "checkIn" => job'[q] = job[q]

LEMMA TablesAreTyped == ASSUME ShiftsTyped PROVE PauseTable(pause)
  BY DEF ShiftsTyped, PauseTable, PauseIds

LEMMA SamePauses ==
  ASSUME ShiftsTyped, UNCHANGED pause, NEW a, shift'[a] = shift[a] PROVE SameShift(a)
<1>1. PICK ps, h, i : ps = pause /\ h = hour /\ i = hour'
  OBVIOUS
<1>2. /\ PauseHours(a, None) = Paused(ps, a, None, h)
      /\ PauseHours(a, None)' = Paused(ps, a, None, i)
      /\ Active(a) = ActiveOf(ps, a) /\ Active(a)' = ActiveOf(ps, a)
  BY <1>1, PauseHoursArePaused
<1>3. Paused(ps, a, None, h) = Paused(ps, a, None, i)
  BY <1>1, TablesAreTyped, PausedIsASum
<1> QED BY <1>2, <1>3 DEF SameShift

LEMMA HoursAreInt == ASSUME ShiftsTyped, NEW a PROVE PauseHours(a, None) \in Int
<1>1. PICK ps, h : ps = pause /\ h = hour
  OBVIOUS
<1>2. Paused(ps, a, None, h) \in Int
  BY <1>1, TablesAreTyped, PausedIsASum
<1> QED BY <1>1, <1>2, PauseHoursArePaused

LEMMA ShiftIs ==
  ASSUME ShiftsTyped, NEW a \in Shifts
  PROVE  /\ a \in Req /\ shift[a] \in ShiftRow
         /\ shift[a].user \in Employee /\ shift[a].in \in Nat
         /\ shift[a].out \in Nat \cup {None} /\ shift[a] # None
         /\ \A p \in Active(a) : p \in Req /\ pause[p] \in PauseRow /\ pause[p].of = a
                                 /\ pause[p].start \in Nat /\ pause[p].end = None
  BY DEF ShiftsTyped, Shifts, ShiftRow, PauseRow, Active, Pauses

(* A shift nobody touched is as true as it was, however late it gets.      *)
LEMMA ShiftRests ==
  ASSUME ShiftsTyped, NEW a \in Shifts, ShiftTrue(a), SameShift(a),
         hour' \in Nat, hour <= hour', At(a)' \subseteq At(a),
         \A q \in At(a)' : stage'[q] = "record" => job'[q] = job[q] /\ stage[q] = "record"
  PROVE  ShiftTrue(a)'
<1>1. ASSUME NEW h \in Nat, Fits(a, h) PROVE Fits(a, h)'
  <2>1. h <= hour' /\ shift'[a].in = shift[a].in
    BY <1>1 DEF Fits, ShiftsTyped, SameShift
  <2> QED BY <1>1, <2>1 DEF Fits, SameShift
<1>2. Fits(a, hour) => Fits(a, hour)'
  <2>1. PICK n, h, i, m : n = shift[a].in /\ h = hour /\ i = hour' /\ m = PauseHours(a, None)
    OBVIOUS
  <2>2. n \in Nat /\ h \in Nat /\ i \in Nat /\ m \in Int /\ h <= i
    BY <2>1, ShiftIs, HoursAreInt DEF ShiftsTyped
  <2>3. shift'[a].in = n /\ PauseHours(a, None)' = m
    BY <2>1 DEF SameShift
  <2>4. Fits(a, hour) => n <= h /\ m <= h - n
    BY <2>1 DEF Fits
  <2>5. n <= i /\ i <= hour' /\ m <= i - n => Fits(a, hour)'
    BY <2>1, <2>3 DEF Fits
  <2> QED BY <2>1, <2>2, <2>4, <2>5
<1>3. shift[a].out = None => Runs(a)'
  <2>1. ASSUME Active(a) = {}, Fits(a, hour) PROVE Runs(a)'
    BY <1>2, <2>1 DEF Runs, SameShift
  <2>2. ASSUME NEW p \in Active(a), Active(a) = {p}, Fits(a, pause[p].start) PROVE Runs(a)'
    <3>1. pause[p].start \in Nat
      BY ShiftIs
    <3>2. Fits(a, pause[p].start)'
      <4>1. PICK h \in Nat : h = pause[p].start
        BY <3>1
      <4>2. pause'[p].start = h
        BY <4>1, <2>2 DEF SameShift
      <4>3. Fits(a, h)'
        BY <1>1, <2>2, <4>1
      <4> QED BY <4>2, <4>3 DEF Fits
    <3> QED BY <2>2, <3>2 DEF Runs, SameShift
  <2> QED BY <2>1, <2>2 DEF ShiftTrue, Runs
<1>4. shift[a].by = "user" => Told(a)'
  BY DEF ShiftTrue, Told, SameShift
<1>5. \A r \in At(a)' : stage'[r] = "record" =>
        Active(a)' = IF job'[r].pause = None THEN {} ELSE {job'[r].pause}
  BY DEF ShiftTrue, SameShift
<1>6. shift'[a] = shift[a]
  BY DEF SameShift
<1> QED BY <1>3, <1>4, <1>5, <1>6 DEF ShiftTrue

LEMMA ShiftsRest ==
  ASSUME ShiftsTyped, UNCHANGED <<shift, pause>>, hour' \in Nat, StayPast
  PROVE  ShiftsTyped' /\ Shifts' = Shifts
<1>1. Shifts' = Shifts /\ PauseIds' = PauseIds
  BY DEF Shifts, PauseIds
<1>2. \A r \in Shifts \cup PauseIds : Past(r)'
  BY DEF ShiftsTyped, StayPast, Shifts, PauseIds
<1> QED BY <1>1, <1>2 DEF ShiftsTyped

LEMMA ApartRests ==
  ASSUME ShiftsApart, SameCheckIns, \A e \in Employee : Open(e)' \subseteq Open(e)
  PROVE  ShiftsApart'
<1>1. \A q \in Doing("checkIn")' : q \in Doing("checkIn") /\ job'[q] = job[q]
  BY DEF SameCheckIns, Doing
<1> QED BY <1>1 DEF ShiftsApart, SameCheckIns, AtMostOne

(* Nobody was at the shifts.                                               *)
LEMMA NobodyAtShifts ==
  ASSUME AttendanceInv, UNCHANGED <<shift, pause>>, hour' \in Nat, hour <= hour',
         shared \subseteq shared', SameJobs
  PROVE  /\ ShiftsTyped' /\ \A a \in Shifts' \ shared' : ShiftTrue(a)'
         /\ \A e \in Employee : Open(e)' = Open(e)
         /\ (\A q \in Req : job'[q].op = "checkIn" => job'[q].user \in Employee) => JobsClocked'
<1>1. ShiftsTyped' /\ Shifts' = Shifts
  BY ShiftsRest DEF AttendanceInv, SameJobs
<1>2. ASSUME NEW a \in Shifts \ shared PROVE ShiftTrue(a)'
  <2>1. SameShift(a) /\ ShiftTrue(a) /\ ShiftsTyped
    BY <1>2, SamePauses DEF AttendanceInv
  <2>2. At(a)' \subseteq At(a) /\ \A q \in At(a)' : job'[q] = job[q] /\ stage'[q] = stage[q]
    BY DEF At, SameJobs, ShiftOps
  <2> QED BY <2>1, <2>2, ShiftRests
<1>3. \A e \in Employee : Open(e)' = Open(e)
  BY <1>1 DEF Open
<1>4. ASSUME \A q \in Req : job'[q].op = "checkIn" => job'[q].user \in Employee PROVE JobsClocked'
  <2>1. AtOneShift' = AtOneShift /\ Sweeping' = Sweeping /\ PauseIds' = PauseIds
    BY <1>1 DEF AtOneShift, Sweeping, PauseIds
  <2>2. \A q \in Req : job'[q].op \in ShiftOps => job'[q] = job[q] /\ stage'[q] = stage[q]
    BY DEF SameJobs
  <2> QED BY <1>4, <2>1, <2>2 DEF AttendanceInv, JobsClocked, ShiftOps, KnowsPause
<1> QED BY <1>1, <1>2, <1>3, <1>4

-----------------------------------------------------------------------------
(* Where a request of Attendance is, and what it knows.                    *)
LEMMA AttendanceStages ==
  ASSUME Tagged, JobsClocked, NEW r \in Req
  PROVE  /\ stage[r] = "create" => job[r].op = "checkIn" /\ job[r].user \in Employee
         /\ stage[r] \in {"findPause", "record"} =>
              job[r].op \in {"checkOut", "togglePause"} /\ job[r] \in AtOneShift
         /\ stage[r] = "force" => job[r].op = "autoCheckout" /\ job[r] \in Sweeping
         /\ stage[r] = "new" => job[r].op = "none"
  BY StageTells DEF AttendanceTag, JobsClocked

LEMMA EndedIsPast ==
  ASSUME Tagged, NEW r \in Req, NEW s \in {"done", "refused", "crashed"}, End(r, s)
  PROVE  /\ Past(r)' /\ job'[r].op = "none"
         /\ \A q \in Req \ {r} : stage'[q] = stage[q] /\ job'[q] = job[q]
<1>1. stage'[r] = s /\ job'[r].op = "none" /\ Moved(r)
  BY Ends
<1> QED BY <1>1 DEF Past, AttendanceOps, Moved

LEMMA EndedIsAside ==
  ASSUME Tagged, NEW r \in Req, NEW s \in {"done", "refused", "crashed"}, End(r, s)
  PROVE  /\ SameJobs /\ \A q \in Req : job'[q].op \in AttendanceOps =>
                           q # r /\ job'[q] = job[q] /\ stage'[q] = stage[q]
         /\ Past(r)'
  BY EndedIsPast DEF SameJobs, StayPast, Past, ShiftOps, AttendanceOps

LEMMA CheckInLooked ==
  ASSUME Tagged, AttendanceInv, NEW r \in Req, FindOpenToCheckIn(r) PROVE AttendanceInv'
<1>1. stage[r] = "new" /\ job[r].op = "none" /\ UNCHANGED <<hour, shift, pause, shared>>
  BY StageTells DEF FindOpenToCheckIn, Starts
<1>2. PICK e \in Employee :
        /\ IF AlreadyIn(e) # {} THEN End(r, "refused")
           ELSE Goto(r, "create", [op |-> "checkIn", user |-> e])
        /\ doubled' = IF \E q \in Doing("checkIn") : job[q].user = e
                      THEN doubled \cup {e} ELSE doubled
  BY DEF FindOpenToCheckIn
<1>3. PICK j : j = [op |-> "checkIn", user |-> e]
  OBVIOUS
<1>4. /\ \A q \in Req \ {r} : job'[q] = job[q] /\ stage'[q] = stage[q]
      /\ \/ job'[r].op = "none"
         \/ job'[r] = j /\ Open(e) = {}
  <2>1. CASE AlreadyIn(e) # {}
    BY <1>2, <2>1, EndedIsPast
  <2>2. CASE AlreadyIn(e) = {}
    <3>1. Goto(r, "create", j)
      BY <1>2, <1>3, <2>2
    <3> QED BY <2>2, <3>1, Then DEF AlreadyIn
  <2> QED BY <2>1, <2>2
<1>5. SameJobs
  BY <1>1, <1>3, <1>4 DEF SameJobs, StayPast, Past, ShiftOps
<1>6. /\ doubled \subseteq doubled'
      /\ e \notin doubled' => \A q \in Doing("checkIn") : job[q].user # e
  BY <1>2
<1>7. hour' \in Nat /\ hour <= hour'
  BY <1>1 DEF AttendanceInv, ShiftsTyped
<1>8. /\ ShiftsTyped' /\ \A a \in Shifts' \ shared' : ShiftTrue(a)'
      /\ \A d \in Employee : Open(d)' = Open(d)
      /\ (\A q \in Req : job'[q].op = "checkIn" => job'[q].user \in Employee) => JobsClocked'
  BY <1>1, <1>5, <1>7, NobodyAtShifts
<1>9. JobsClocked'
  BY <1>3, <1>4, <1>8 DEF AttendanceInv, JobsClocked
<1>10. ASSUME NEW d \in Employee \ doubled'
       PROVE  /\ AtMostOne(Open(d))'
              /\ \A q \in Doing("checkIn")' : job'[q].user = d =>
                   /\ Open(d)' = {}
                   /\ \A p \in Doing("checkIn")' : job'[p].user = d => p = q
  <2>1. /\ AtMostOne(Open(d)) /\ Open(d)' = Open(d)
        /\ \A q \in Doing("checkIn") : job[q].user = d =>
             Open(d) = {} /\ \A p \in Doing("checkIn") : job[p].user = d => p = q
    BY <1>6, <1>8 DEF AttendanceInv, ShiftsApart
  <2>2. AtMostOne(Open(d))'
    BY <2>1 DEF AtMostOne
  <2>3. ASSUME NEW q \in Doing("checkIn")'
        PROVE  \/ q # r /\ q \in Doing("checkIn") /\ job'[q] = job[q]
               \/ q = r /\ job'[r].user = e /\ Open(e) = {}
    BY <1>3, <1>4 DEF Doing
  <2>4. d = e => \A q \in Doing("checkIn") : job[q].user # e
    BY <1>6
  <2> QED BY <2>1, <2>2, <2>3, <2>4
<1> QED BY <1>8, <1>9, <1>10 DEF AttendanceInv, ShiftsApart

LEMMA ShiftCreated ==
  ASSUME Tagged, AttendanceInv, NEW r \in Req, CreateShift(r) PROVE AttendanceInv'
<1>1. stage[r] = "create" /\ job[r].op = "checkIn" /\ job[r].user \in Employee
  BY AttendanceStages DEF CreateShift, AttendanceInv
<1>2. PICK e \in Employee : e = job[r].user
  BY <1>1
<1>3. /\ shift' = [shift EXCEPT ![r] = NewShift(e)] /\ UNCHANGED <<hour, pause, shared, doubled>>
      /\ End(r, "done")
  BY <1>2 DEF CreateShift
<1>4. SameJobs /\ Past(r)' /\ \A q \in Req : job'[q].op \in AttendanceOps =>
                                q # r /\ job'[q] = job[q] /\ stage'[q] = stage[q]
  BY <1>3, EndedIsAside
<1>5. ~Past(r) /\ r \notin Shifts /\ r \notin PauseIds
  BY <1>1 DEF Past, AttendanceInv, ShiftsTyped, AttendanceOps
<1>6. PICK new : new = NewShift(e)
  OBVIOUS
<1>7. new \in ShiftRow
  BY <1>6 DEF NewShift, ShiftRow, AttendanceInv, ShiftsTyped
<1>8. new.user = e /\ new.in = hour /\ new.out = None /\ new.by = None /\ new # None
  BY <1>6, <1>7, AttendanceAssumption DEF NewShift
<1>9. shift'[r] = new /\ \A a \in Req \ {r} : shift'[a] = shift[a]
  BY <1>3, <1>6 DEF AttendanceInv, ShiftsTyped
<1>10. Shifts' = Shifts \cup {r} /\ PauseIds' = PauseIds
  BY <1>3, <1>8, <1>9 DEF Shifts, PauseIds
<1>11. ShiftsTyped'
  <2>1. shift' \in [Req -> ShiftRow \cup {None}]
    BY <1>3, <1>6, <1>7 DEF AttendanceInv, ShiftsTyped
  <2>2. \A q \in Shifts' \cup PauseIds' : Past(q)'
    BY <1>4, <1>10 DEF AttendanceInv, ShiftsTyped, SameJobs, StayPast, Shifts, PauseIds
  <2> QED BY <1>3, <1>10, <2>1, <2>2 DEF AttendanceInv, ShiftsTyped
<1>12. JobsClocked'
  <2>1. AtOneShift \subseteq AtOneShift' /\ Sweeping \subseteq Sweeping'
    BY <1>10 DEF AtOneShift, Sweeping
  <2> QED BY <1>3, <1>4, <1>10, <2>1 DEF AttendanceInv, JobsClocked, AttendanceOps, KnowsPause
<1>13. ShiftsApart'
  <2>1. \A d \in Employee : Open(d)' = IF d = e THEN Open(d) \cup {r} ELSE Open(d)
    <3>1. ASSUME NEW d \in Employee, NEW a \in Req \ {r} PROVE a \in Open(d)' <=> a \in Open(d)
      BY <1>9, <1>10 DEF Open
    <3>2. ASSUME NEW d \in Employee PROVE (r \in Open(d)' <=> d = e) /\ r \notin Open(d)
      BY <1>5, <1>8, <1>9, <1>10 DEF Open
    <3>3. \A d \in Employee : Open(d) \subseteq Req /\ Open(d)' \subseteq Req
      BY DEF Open, Shifts
    <3> QED BY <3>1, <3>2, <3>3
  <2>2. \A q \in Doing("checkIn")' : q # r /\ q \in Doing("checkIn") /\ job'[q] = job[q]
    BY <1>4 DEF Doing, AttendanceOps
  <2>3. e \notin doubled => /\ Open(e) = {}
                            /\ \A p \in Doing("checkIn") : job[p].user = e => p = r
    BY <1>1, <1>2 DEF AttendanceInv, ShiftsApart, Doing
  <2>4. ASSUME NEW d \in Employee \ doubled'
        PROVE  /\ AtMostOne(Open(d))'
               /\ \A q \in Doing("checkIn")' : job'[q].user = d =>
                    /\ Open(d)' = {}
                    /\ \A p \in Doing("checkIn")' : job'[p].user = d => p = q
    <3>1. d \notin doubled
      BY <1>3
    <3>2. CASE d = e
      BY <2>1, <2>2, <2>3, <3>1, <3>2 DEF AtMostOne
    <3>3. CASE d # e
      <4>1. Open(d)' = Open(d)
        BY <2>1, <3>3
      <4>2. /\ AtMostOne(Open(d))
            /\ \A q \in Doing("checkIn") : job[q].user = d =>
                 Open(d) = {} /\ \A p \in Doing("checkIn") : job[p].user = d => p = q
        BY <3>1 DEF AttendanceInv, ShiftsApart
      <4> QED BY <2>2, <4>1, <4>2 DEF AtMostOne
    <3> QED BY <3>2, <3>3
  <2> QED BY <2>4 DEF ShiftsApart
<1>14. ASSUME NEW a \in Shifts' \ shared' PROVE ShiftTrue(a)'
  <2>1. CASE a # r
    <3>1. a \in Shifts \ shared /\ shift'[a] = shift[a] /\ ShiftTrue(a)
      BY <1>3, <1>9, <1>10, <1>14, <2>1 DEF AttendanceInv, Shifts
    <3>2. SameShift(a)
      BY <1>3, <3>1, SamePauses DEF AttendanceInv
    <3>3. At(a)' \subseteq At(a) /\ \A q \in At(a)' : job'[q] = job[q] /\ stage'[q] = stage[q]
      BY <1>4 DEF At, AttendanceOps
    <3>4. hour' \in Nat /\ hour <= hour'
      BY <1>3 DEF AttendanceInv, ShiftsTyped
    <3> QED BY <3>1, <3>2, <3>3, <3>4, ShiftRests DEF AttendanceInv
  <2>2. CASE a = r
    <3>1. At(r)' = {}
      <4>1. ASSUME NEW q \in At(r)' PROVE FALSE
        <5>1. job'[q] = job[q] /\ q \in Req /\ r \in job[q].shifts
              /\ job[q].op \in {"checkOut", "togglePause", "autoCheckout"}
          BY <1>4 DEF At, AttendanceOps
        <5>2. job[q].shifts \subseteq Shifts
          BY <5>1 DEF AttendanceInv, JobsClocked, AtOneShift, Sweeping
        <5> QED BY <1>5, <5>1, <5>2
      <4> QED BY <4>1
    <3>2. Pauses(r)' = {}
      BY <1>3, <1>5 DEF Pauses, AttendanceInv, ShiftsTyped, PauseIds
    <3>3. Active(r)' = {}
      BY <3>2 DEF Active
    <3>4. PauseHours(r, None)' = 0
      <4>1. PICK f : f = [q \in {} |-> (IF q = None THEN hour' ELSE pause'[q].end)
                                         - pause'[q].start]
        OBVIOUS
      <4>2. PauseHours(r, None)' = SumFunctionOnSet(f, {})
        BY <3>2, <3>3, <4>1 DEF PauseHours, SumFunction
      <4> QED BY <4>2, SumOfNone
    <3>5. Fits(r, hour)'
      BY <1>3, <1>8, <1>9, <3>4 DEF Fits, AttendanceInv, ShiftsTyped
    <3>6. /\ shift'[r].out = None /\ shift'[r].by = None /\ None # "user"
      BY <1>8, <1>9, AttendanceAssumption
    <3> QED BY <2>2, <3>1, <3>3, <3>5, <3>6 DEF ShiftTrue, Runs
  <2> QED BY <2>1, <2>2
<1> QED BY <1>11, <1>12, <1>13, <1>14 DEF AttendanceInv

(* A request comes to open shifts.                                         *)
LEMMA ComesToShifts ==
  ASSUME Tagged, AttendanceInv, NEW r \in Req, NEW j, NEW s \in {"findPause", "force"},
         Goto(r, s, j), stage[r] = "new",
         \/ j \in AtOneShift /\ s = "findPause"
         \/ j \in Sweeping /\ s = "force",
         \A a \in j.shifts : a \in Shifts /\ shift[a].out = None,
         Shares(j.shifts), UNCHANGED <<hour, shift, pause, doubled>>
  PROVE  AttendanceInv'
<1>1. job[r].op = "none" /\ j.op \in ShiftOps
  BY StageTells DEF AtOneShift, Sweeping, ShiftOps
<1>2. /\ job'[r] = j /\ stage'[r] = s
      /\ \A q \in Req \ {r} : job'[q] = job[q] /\ stage'[q] = stage[q]
  BY Then
<1>3. StayPast
  BY <1>2 DEF StayPast, Past
<1>4. hour' \in Nat /\ hour <= hour'
  BY DEF AttendanceInv, ShiftsTyped
<1>5. ShiftsTyped' /\ Shifts' = Shifts
  BY <1>3, <1>4, ShiftsRest DEF AttendanceInv
<1>6. AtOneShift' = AtOneShift /\ Sweeping' = Sweeping /\ PauseIds' = PauseIds
  BY <1>5 DEF AtOneShift, Sweeping, PauseIds
<1>7. JobsClocked'
  <2>1. ASSUME NEW q \in Req
        PROVE  /\ job'[q].op = "checkIn" => job'[q].user \in Employee
               /\ job'[q].op \in {"checkOut", "togglePause"} =>
                    job'[q] \in AtOneShift' /\ (stage'[q] = "record" => KnowsPause(q)')
               /\ job'[q].op = "autoCheckout" => job'[q] \in Sweeping'
    <3>1. CASE q = r
      BY <1>2, <1>6, <3>1 DEF AtOneShift, Sweeping
    <3>2. CASE q # r
      <4>1. job'[q] = job[q] /\ stage'[q] = stage[q]
        BY <1>2, <3>2
      <4> QED BY <1>6, <4>1 DEF AttendanceInv, JobsClocked, KnowsPause
    <3> QED BY <3>1, <3>2
  <2> QED BY <2>1 DEF JobsClocked
<1>8. ShiftsApart'
  <2>1. SameCheckIns
    BY <1>1, <1>2 DEF SameCheckIns, ShiftOps
  <2>2. \A e \in Employee : Open(e)' \subseteq Open(e)
    BY <1>5 DEF Open
  <2> QED BY <2>1, <2>2, ApartRests DEF AttendanceInv
<1>9. ASSUME NEW a \in Shifts' \ shared' PROVE ShiftTrue(a)'
  <2>1. a \in Shifts \ shared /\ ShiftTrue(a) /\ SameShift(a)
    BY <1>5, <1>9, SamePauses DEF AttendanceInv, Shares
  <2>2. r \notin At(a) /\ At(a) \subseteq Req
    BY <1>1 DEF At
  <2>3. At(a)' = IF a \in j.shifts THEN At(a) \cup {r} ELSE At(a)
    <3>1. ASSUME NEW q \in Req \ {r} PROVE q \in At(a)' <=> q \in At(a)
      BY <1>2 DEF At
    <3>2. r \in At(a)' <=> a \in j.shifts
      BY <1>1, <1>2 DEF At, ShiftOps
    <3>3. At(a)' \subseteq Req
      BY DEF At
    <3> QED BY <2>2, <3>1, <3>2, <3>3
  <2>4. CASE a \notin j.shifts
    BY <1>2, <1>4, <2>1, <2>2, <2>3, <2>4, ShiftRests DEF AttendanceInv
  <2>5. CASE a \in j.shifts
    <3>1. At(a) = {}
      BY <1>9, <2>5 DEF Shares
    <3>2. At(a)' = {r} /\ stage'[r] # "record" /\ shift'[a] = shift[a] /\ shift[a].out = None
      BY <1>2, <2>3, <2>5, <3>1
    <3>3. Runs(a) /\ shift[a].by = None /\ None # "user"
      BY <2>1, <3>2, AttendanceAssumption DEF ShiftTrue
    <3>4. Runs(a)'
      BY <2>1, <3>3 DEF Runs, Fits, SameShift
    <3> QED BY <3>2, <3>3, <3>4 DEF ShiftTrue
  <2> QED BY <2>4, <2>5
<1> QED BY <1>5, <1>7, <1>8, <1>9 DEF AttendanceInv

(* A step that touches no shift, and no request at one, but for an end.    *)
LEMMA NothingClocked ==
  ASSUME AttendanceInv, UNCHANGED <<shift, pause, doubled>>, hour' \in Nat, hour <= hour',
         shared \subseteq shared', SameJobs, SameCheckIns
  PROVE  AttendanceInv'
<1>1. /\ ShiftsTyped' /\ \A a \in Shifts' \ shared' : ShiftTrue(a)'
      /\ \A e \in Employee : Open(e)' = Open(e)
      /\ (\A q \in Req : job'[q].op = "checkIn" => job'[q].user \in Employee) => JobsClocked'
  BY NobodyAtShifts
<1>2. \A q \in Req : job'[q].op = "checkIn" => job'[q].user \in Employee
  BY DEF SameCheckIns, AttendanceInv, JobsClocked
<1>3. ShiftsApart'
  BY <1>1, ApartRests DEF AttendanceInv
<1> QED BY <1>1, <1>2, <1>3 DEF AttendanceInv

LEMMA ShiftFound ==
  ASSUME Tagged, AttendanceInv, NEW r \in Req, FindOpenShift(r) PROVE AttendanceInv'
<1>1. PICK op \in {"checkOut", "togglePause"}, e \in Employee :
        /\ stage[r] = "new" /\ UNCHANGED <<hour, shift, pause, doubled>>
        /\ \/ Open(e) = {} /\ End(r, "refused") /\ UNCHANGED shared
           \/ \E a \in Open(e) :
                /\ Goto(r, "findPause", [op |-> op, shifts |-> {a}, pause |-> None])
                /\ Shares({a})
  BY DEF FindOpenShift, Starts
<1>2. CASE End(r, "refused") /\ UNCHANGED shared
  <2>1. SameJobs /\ SameCheckIns
    BY <1>1, <1>2, EndedIsAside DEF SameCheckIns, AttendanceOps
  <2>2. hour' \in Nat /\ hour <= hour'
    BY <1>1 DEF AttendanceInv, ShiftsTyped
  <2> QED BY <1>1, <1>2, <2>1, <2>2, NothingClocked
<1>3. ASSUME NEW a \in Open(e), Shares({a}),
             Goto(r, "findPause", [op |-> op, shifts |-> {a}, pause |-> None])
      PROVE  AttendanceInv'
  <2>1. PICK j : j = [op |-> op, shifts |-> {a}, pause |-> None]
    OBVIOUS
  <2>2. a \in Shifts /\ shift[a].out = None
    BY <1>3 DEF Open
  <2>3. j \in AtOneShift /\ j.shifts = {a}
    BY <2>1, <2>2 DEF AtOneShift
  <2>4. Goto(r, "findPause", j) /\ Shares(j.shifts)
    BY <1>3, <2>1, <2>3
  <2> QED BY <1>1, <2>2, <2>3, <2>4, ComesToShifts
<1> QED BY <1>1, <1>2, <1>3

LEMMA StaleFound ==
  ASSUME Tagged, AttendanceInv, NEW r \in Req, FindStale(r) PROVE AttendanceInv'
<1>1. PICK S, D : S = OpenOlderThan /\ D = OpenFor(StaleAfter + 1)
  OBVIOUS
<1>2. D \subseteq Shifts /\ S \subseteq Shifts /\ \A a \in S : shift[a].out = None
  BY <1>1 DEF OpenOlderThan, OpenFor
<1>3. PICK j : j = [op |-> "autoCheckout", shifts |-> S, due |-> D]
  OBVIOUS
<1>4. j \in Sweeping /\ j.shifts = S
  BY <1>2, <1>3 DEF Sweeping
<1>5. /\ stage[r] = "new" /\ Goto(r, "force", j) /\ Shares(j.shifts)
      /\ UNCHANGED <<hour, shift, pause, doubled>>
  BY <1>1, <1>3, <1>4 DEF FindStale, Starts
<1> QED BY <1>2, <1>4, <1>5, ComesToShifts

LEMMA SweepEnded ==
  ASSUME Tagged, AttendanceInv, NEW r \in Req, EndSweep(r) PROVE AttendanceInv'
<1>1. End(r, "done") /\ UNCHANGED attendanceVars
  BY DEF EndSweep
<1>2. SameJobs /\ SameCheckIns
  BY <1>1, EndedIsAside DEF SameCheckIns, AttendanceOps, attendanceVars
<1> QED BY <1>1, <1>2, NothingClocked DEF attendanceVars, AttendanceInv, ShiftsTyped

LEMMA HourPasses == ASSUME AttendanceInv, PassHour PROVE AttendanceInv'
<1>1. SameJobs /\ SameCheckIns
  BY DEF PassHour, requests, SameJobs, StayPast, Past, SameCheckIns
<1>2. hour' = hour + 1 /\ UNCHANGED <<shift, pause, shared, doubled>> /\ hour \in Nat
  BY DEF PassHour, AttendanceInv, ShiftsTyped
<1> QED BY <1>1, <1>2, NothingClocked

LEMMA ClockedAside ==
  ASSUME AttendanceInv, UNCHANGED attendanceVars, Aside(AttendanceOps) PROVE AttendanceInv'
<1>1. SameJobs /\ SameCheckIns
  BY DEF Aside, SameJobs, StayPast, Past, SameCheckIns, ShiftOps, AttendanceOps, attendanceVars
<1> QED BY <1>1, NothingClocked DEF attendanceVars, AttendanceInv, ShiftsTyped

(* What is known of the one request at a shift.                            *)
LEMMA OneAtShift ==
  ASSUME AttendanceInv, NEW r \in Req, NEW a \in Shifts \ shared, r \in At(a)
  PROVE  /\ At(a) = {r} /\ shift[a].out = None /\ Runs(a)
         /\ stage[r] = "record" =>
              Active(a) = IF job[r].pause = None THEN {} ELSE {job[r].pause}
  BY DEF AttendanceInv, ShiftTrue

LEMMA PauseFound ==
  ASSUME Tagged, AttendanceInv, NEW r \in Req, FindActivePause(r) PROVE AttendanceInv'
<1>1. /\ job[r].op \in {"checkOut", "togglePause"} /\ job[r] \in AtOneShift
      /\ UNCHANGED attendanceVars
  BY AttendanceStages DEF FindActivePause, AttendanceInv
<1>2. PICK a \in Shifts : job[r].shifts = {a}
  BY <1>1 DEF AtOneShift
<1>3. PICK p \in (IF Active(a) = {} THEN {None} ELSE Active(a)) :
        Goto(r, "record", [job[r] EXCEPT !.pause = p])
  BY <1>2 DEF FindActivePause
<1>4. PICK j : j = [job[r] EXCEPT !.pause = p]
  OBVIOUS
<1>5. (p = None <=> Active(a) = {}) /\ (p # None => p \in Active(a)) /\ p \in Req \cup {None}
  BY <1>3, NoneAssumption DEF Active, Pauses
<1>6. j \in AtOneShift /\ j.shifts = {a} /\ j.pause = p /\ j.op = job[r].op
  BY <1>1, <1>2, <1>4, <1>5 DEF AtOneShift
<1>7. /\ job'[r] = j /\ stage'[r] = "record"
      /\ \A q \in Req \ {r} : job'[q] = job[q] /\ stage'[q] = stage[q]
  BY <1>3, <1>4, Then
<1>8. StayPast
  BY <1>1, <1>7 DEF StayPast, Past, AttendanceOps
<1>9. ShiftsTyped' /\ Shifts' = Shifts /\ hour' \in Nat /\ hour <= hour'
  BY <1>1, <1>8, ShiftsRest DEF AttendanceInv, attendanceVars, ShiftsTyped
<1>10. AtOneShift' = AtOneShift /\ Sweeping' = Sweeping /\ PauseIds' = PauseIds
  BY <1>1, <1>9 DEF AtOneShift, Sweeping, PauseIds, attendanceVars
<1>11. JobsClocked'
  <2>1. KnowsPause(r)'
    <3>1. p # None => p \in PauseIds /\ pause[p].of = a
      BY <1>5 DEF Active, Pauses, PauseIds
    <3> QED BY <1>1, <1>6, <1>7, <1>10, <3>1 DEF KnowsPause, attendanceVars
  <2>2. ASSUME NEW q \in Req
        PROVE  /\ job'[q].op = "checkIn" => job'[q].user \in Employee
               /\ job'[q].op \in {"checkOut", "togglePause"} =>
                    job'[q] \in AtOneShift' /\ (stage'[q] = "record" => KnowsPause(q)')
               /\ job'[q].op = "autoCheckout" => job'[q] \in Sweeping'
    <3>1. CASE q = r
      BY <1>1, <1>6, <1>7, <1>10, <2>1, <3>1
    <3>2. CASE q # r
      <4>1. job'[q] = job[q] /\ stage'[q] = stage[q] /\ pause' = pause
        BY <1>1, <1>7, <3>2 DEF attendanceVars
      <4> QED BY <1>10, <4>1 DEF AttendanceInv, JobsClocked, KnowsPause
    <3> QED BY <3>1, <3>2
  <2> QED BY <2>2 DEF JobsClocked
<1>12. ShiftsApart'
  <2>1. SameCheckIns
    BY <1>1, <1>6, <1>7 DEF SameCheckIns, attendanceVars
  <2>2. \A e \in Employee : Open(e)' \subseteq Open(e)
    BY <1>1, <1>9 DEF Open, attendanceVars
  <2> QED BY <2>1, <2>2, ApartRests DEF AttendanceInv
<1>13. ASSUME NEW b \in Shifts' \ shared' PROVE ShiftTrue(b)'
  <2>1. b \in Shifts \ shared /\ ShiftTrue(b) /\ SameShift(b)
    BY <1>1, <1>9, <1>13, SamePauses DEF AttendanceInv, attendanceVars
  <2>2. At(b)' = At(b) /\ (b # a => r \notin At(b)) /\ (b = a => r \in At(b))
    <3>1. ASSUME NEW q \in Req PROVE q \in At(b)' <=> q \in At(b)
      BY <1>2, <1>6, <1>7 DEF At
    <3> QED BY <1>1, <1>2, <3>1 DEF At
  <2>3. CASE b # a
    <3>1. At(b)' \subseteq Req \ {r}
      BY <2>2, <2>3 DEF At
    <3>2. \A q \in At(b)' : stage'[q] = "record" => job'[q] = job[q] /\ stage[q] = "record"
      BY <1>7, <3>1
    <3> QED BY <1>9, <2>1, <2>2, <3>2, ShiftRests DEF AttendanceInv
  <2>4. CASE b = a
    <3>1. At(a) = {r} /\ shift[a].out = None /\ Runs(a)
      BY <2>1, <2>2, <2>4, OneAtShift
    <3>2. Active(a) = IF p = None THEN {} ELSE {p}
      BY <1>5, <3>1 DEF Runs
    <3>3. Runs(a)'
      BY <1>1, <2>1, <2>4, <3>1 DEF Runs, Fits, SameShift, attendanceVars
    <3>4. shift[a].by = None /\ None # "user" /\ shift'[a] = shift[a] /\ Active(a)' = Active(a)
      BY <2>1, <2>4, <3>1, AttendanceAssumption DEF ShiftTrue, SameShift
    <3> QED BY <1>6, <1>7, <2>2, <2>4, <3>1, <3>2, <3>3, <3>4 DEF ShiftTrue
  <2> QED BY <2>3, <2>4
<1> QED BY <1>9, <1>11, <1>12, <1>13 DEF AttendanceInv

(* One row of the pauses is written.                                       *)
Puts(ps, p, new, qs) == qs = [ps EXCEPT ![p] = new]

LEMMA PauseWritten ==
  ASSUME NEW ps, PauseTable(ps), NEW p \in Req, NEW new \in PauseRow, NEW qs,
         Puts(ps, p, new, qs)
  PROVE  /\ PauseTable(qs) /\ qs[p] = new /\ \A q \in Req \ {p} : qs[q] = ps[q]
         /\ {q \in Req : qs[q] # None} = {q \in Req : ps[q] # None} \cup {p}
<1>1. qs \in [Req -> PauseRow \cup {None}] /\ qs[p] = new /\ \A q \in Req \ {p} : qs[q] = ps[q]
  BY DEF PauseTable, Puts
<1>2. new # None
  BY AttendanceAssumption
<1>3. {q \in Req : qs[q] # None} = {q \in Req : ps[q] # None} \cup {p}
  BY <1>1, <1>2
<1>4. PauseTable(qs)
  BY <1>1, <1>3, FS_AddElement DEF PauseTable
<1> QED BY <1>1, <1>3, <1>4

LEMMA ElsewhereWritten ==
  ASSUME NEW ps, PauseTable(ps), NEW qs, PauseTable(qs), NEW p \in Req,
         \A q \in Req \ {p} : qs[q] = ps[q], NEW b, qs[p].of # b, qs[p] # None,
         ps[p] = None \/ ps[p].of # b, NEW h, NEW i
  PROVE  /\ ActiveOf(qs, b) = ActiveOf(ps, b) /\ \A q \in ActiveOf(ps, b) : qs[q] = ps[q]
         /\ Paused(qs, b, None, i) = Paused(ps, b, None, h)
<1>1. PausesOf(qs, b) = PausesOf(ps, b) /\ \A q \in PausesOf(ps, b) : qs[q] = ps[q]
  BY DEF PausesOf
<1>2. /\ ActiveOf(qs, b) = ActiveOf(ps, b) /\ EndedOf(qs, b) = EndedOf(ps, b)
      /\ \A q \in ActiveOf(ps, b) \cup EndedOf(ps, b) : qs[q] = ps[q]
  BY <1>1 DEF ActiveOf, EndedOf
<1>3. EndedOf(ps, b) = EndedOf(qs, b) /\ \A q \in EndedOf(ps, b) : qs[q] = ps[q]
  BY <1>2
<1>4. Paused(qs, b, None, i) = Paused(ps, b, None, h)
  BY <1>3, PausesElsewhere
<1> QED BY <1>2, <1>4

(* What a request at shift a wrote, or the sweep: the shift keeps its user *)
(* and is never opened again.                                              *)
Writes(r, a) ==
  /\ hour' = hour /\ shared' = shared /\ doubled' = doubled
  /\ shift' \in [Req -> ShiftRow \cup {None}]
  /\ \A b \in Req \ {a} : shift'[b] = shift[b]
  /\ shift'[a] # None /\ shift'[a].user = shift[a].user
  /\ shift'[a].out = None => shift[a].out = None
  /\ PauseTable(pause') /\ PauseIds \subseteq PauseIds' /\ PauseIds' \subseteq PauseIds \cup {r}
  /\ \A q \in PauseIds : pause'[q].of = pause[q].of
  /\ r \in PauseIds' \ PauseIds => Past(r)' /\ pause'[r].of = a
  /\ \A q \in Req \ {r} : job'[q] = job[q] /\ stage'[q] = stage[q]
  /\ \/ Past(r)' /\ job'[r].op = "none"
     \/ job[r].op = "autoCheckout" /\ job'[r].op = "autoCheckout" /\ job'[r] \in Sweeping

LEMMA WritesTyped ==
  ASSUME AttendanceInv, NEW r \in Req, ~Past(r), NEW a \in Shifts, Writes(r, a)
  PROVE  ShiftsTyped' /\ JobsClocked' /\ ShiftsApart' /\ Shifts' = Shifts
<1>1. Shifts' = Shifts
  BY DEF Shifts, Writes
<1>2. StayPast
  BY DEF Writes, StayPast, Past
<1>3. ShiftsTyped'
  <2>1. IsFiniteSet(PauseIds') /\ pause' \in [Req -> PauseRow \cup {None}]
    BY DEF Writes, PauseTable, PauseIds
  <2>2. \A p \in PauseIds' : pause'[p].of \in Shifts
    BY DEF Writes, AttendanceInv, ShiftsTyped
  <2>3. \A q \in Shifts \cup PauseIds' : Past(q)'
    <3>1. \A q \in Shifts \cup PauseIds : Past(q)'
      BY <1>2 DEF StayPast, AttendanceInv, ShiftsTyped, Shifts, PauseIds
    <3>2. r \in PauseIds' \ PauseIds => Past(r)'
      BY DEF Writes
    <3>3. PauseIds' \subseteq PauseIds \cup {r}
      BY DEF Writes
    <3> QED BY <3>1, <3>2, <3>3
  <2> QED BY <1>1, <2>1, <2>2, <2>3 DEF ShiftsTyped, Writes, AttendanceInv
<1>4. AtOneShift' = AtOneShift /\ Sweeping' = Sweeping
  BY <1>1 DEF AtOneShift, Sweeping
<1>5. ASSUME NEW q \in Req
      PROVE  /\ job'[q].op = "checkIn" => job'[q].user \in Employee
             /\ job'[q].op \in {"checkOut", "togglePause"} =>
                  job'[q] \in AtOneShift' /\ (stage'[q] = "record" => KnowsPause(q)')
             /\ job'[q].op = "autoCheckout" => job'[q] \in Sweeping'
  <2>1. CASE q = r
    BY <1>4, <2>1 DEF Writes
  <2>2. CASE q # r
    <3>1. job'[q] = job[q] /\ stage'[q] = stage[q]
      BY <2>2 DEF Writes
    <3>2. KnowsPause(q) => KnowsPause(q)'
      BY <3>1 DEF KnowsPause, Writes
    <3> QED BY <1>4, <3>1, <3>2 DEF AttendanceInv, JobsClocked
  <2> QED BY <2>1, <2>2
<1>6. JobsClocked'
  BY <1>5 DEF JobsClocked
<1>7. SameCheckIns
  BY DEF Writes, SameCheckIns
<1>8. \A e \in Employee : Open(e)' \subseteq Open(e)
  <2>1. ASSUME NEW e \in Employee, NEW b \in Open(e)' PROVE b \in Open(e)
    <3>1. b \in Shifts /\ shift'[b].user = e /\ shift'[b].out = None /\ b \in Req
      BY <1>1 DEF Open, Shifts
    <3>2. CASE b = a
      BY <3>1, <3>2 DEF Open, Writes
    <3>3. CASE b # a
      BY <3>1, <3>3 DEF Open, Writes
    <3> QED BY <3>2, <3>3
  <2> QED BY <2>1
<1>9. ShiftsApart'
  BY <1>7, <1>8, ApartRests DEF AttendanceInv
<1> QED BY <1>1, <1>3, <1>6, <1>9

(* The other shifts do not notice.                                         *)
LEMMA WritesElsewhere ==
  ASSUME AttendanceInv, NEW r \in Req, NEW a \in Shifts, Writes(r, a),
         job'[r].op = "autoCheckout" =>
           job'[r].shifts \subseteq job[r].shifts /\ stage'[r] # "record",
         NEW b \in Shifts \ shared, b # a, Active(b)' = Active(b),
         PauseHours(b, None)' = PauseHours(b, None), \A q \in Active(b) : pause'[q] = pause[q]
  PROVE  ShiftTrue(b)'
<1>1. SameShift(b)
  BY DEF SameShift, Writes, Shifts
<1>2. ASSUME NEW q \in At(b)'
      PROVE  q \in At(b) /\ (stage'[q] = "record" => job'[q] = job[q] /\ stage[q] = "record")
  <2>1. CASE q = r
    <3>1. job'[r].op = "autoCheckout" /\ job[r].op = "autoCheckout" /\ b \in job'[r].shifts
      BY <1>2, <2>1 DEF At, Writes
    <3> QED BY <2>1, <3>1 DEF At
  <2>2. CASE q # r
    <3>1. q \in Req /\ job'[q] = job[q] /\ stage'[q] = stage[q]
      BY <1>2, <2>2 DEF At, Writes
    <3> QED BY <1>2, <3>1 DEF At
  <2> QED BY <2>1, <2>2
<1>3. At(b)' \subseteq At(b)
      /\ \A q \in At(b)' : stage'[q] = "record" => job'[q] = job[q] /\ stage[q] = "record"
  BY <1>2
<1>4. hour' \in Nat /\ hour <= hour'
  BY DEF Writes, AttendanceInv, ShiftsTyped
<1>5. ShiftsTyped /\ ShiftTrue(b)
  BY DEF AttendanceInv
<1> QED BY <1>1, <1>3, <1>4, <1>5, ShiftRests

(* When the one request at a shift is done with it, nobody is.             *)
LEMMA NobodyLeft ==
  ASSUME AttendanceInv, NEW r \in Req, NEW a \in Shifts \ shared, r \in At(a), Writes(r, a),
         job'[r].op = "autoCheckout" => a \notin job'[r].shifts
  PROVE  At(a)' = {}
<1>1. At(a) = {r}
  BY OneAtShift
<1>2. ASSUME NEW q \in At(a)' PROVE FALSE
  <2>1. CASE q = r
    BY <1>2, <2>1 DEF At, Writes
  <2>2. CASE q # r
    <3>1. q \in At(a)
      BY <1>2, <2>2 DEF At, Writes
    <3> QED BY <1>1, <2>2, <3>1
  <2> QED BY <2>1, <2>2
<1> QED BY <1>2

LEMMA PauseToggled ==
  ASSUME Tagged, AttendanceInv, NEW r \in Req, TogglePause(r) PROVE AttendanceInv'
<1>1. /\ stage[r] = "record" /\ job[r].op = "togglePause"
      /\ job[r] \in AtOneShift /\ KnowsPause(r)
      /\ End(r, "done") /\ UNCHANGED <<hour, shift, shared, doubled>>
  BY AttendanceStages DEF TogglePause, AttendanceInv, JobsClocked
<1>2. PICK a \in Shifts : job[r].shifts = {a}
  BY <1>1 DEF AtOneShift
<1>3. pause' = IF job[r].pause # None THEN EndPause(r) ELSE [pause EXCEPT ![r] = NewPause(a)]
  BY <1>2 DEF TogglePause
<1>4. /\ Past(r)' /\ job'[r].op = "none"
      /\ \A q \in Req \ {r} : job'[q] = job[q] /\ stage'[q] = stage[q]
      /\ ~Past(r) /\ r \notin PauseIds
  BY <1>1, EndedIsPast DEF Past, AttendanceOps, AttendanceInv, ShiftsTyped, PauseIds
<1>5. PICK ps : ps = pause /\ PauseTable(ps)
  BY TablesAreTyped DEF AttendanceInv
<1>6. PICK h \in Nat : h = hour
  BY DEF AttendanceInv, ShiftsTyped
<1>7. r \in At(a)
  BY <1>1, <1>2 DEF At
<1>8. ASSUME NEW p \in Req, NEW new \in PauseRow, pause' = [ps EXCEPT ![p] = new], new.of = a,
             p = r \/ p \in PauseIds, ps[p] = None \/ ps[p].of = a,
             a \notin shared => Runs(a)'
      PROVE  AttendanceInv'
  <2>1. PICK qs : qs = pause' /\ qs = [ps EXCEPT ![p] = new]
    BY <1>8
  <2>2. /\ PauseTable(qs) /\ qs[p] = new /\ \A q \in Req \ {p} : qs[q] = ps[q]
        /\ {q \in Req : qs[q] # None} = {q \in Req : ps[q] # None} \cup {p}
    <3>1. Puts(ps, p, new, qs)
      BY <2>1 DEF Puts
    <3> QED BY <1>5, <1>8, <3>1, PauseWritten
  <2>3. PauseIds' = PauseIds \cup {p}
    BY <1>5, <2>1, <2>2 DEF PauseIds
  <2>4. Writes(r, a)
    <3>1. \A q \in PauseIds : pause'[q].of = pause[q].of
      BY <1>5, <1>8, <2>1, <2>2 DEF PauseIds
    <3>2. r \in PauseIds' \ PauseIds => pause'[r].of = a
      BY <1>8, <2>1, <2>2, <2>3
    <3>3. PauseIds \subseteq PauseIds' /\ PauseIds' \subseteq PauseIds \cup {r}
      BY <1>8, <2>3
    <3>4. shift' \in [Req -> ShiftRow \cup {None}] /\ shift'[a] # None
      BY <1>1, ShiftIs DEF AttendanceInv, ShiftsTyped
    <3> QED BY <1>1, <1>4, <2>1, <2>2, <3>1, <3>2, <3>3, <3>4 DEF Writes
  <2>5. ShiftsTyped' /\ JobsClocked' /\ ShiftsApart' /\ Shifts' = Shifts
    BY <1>4, <2>4, WritesTyped
  <2>6. ASSUME NEW b \in Shifts' \ shared' PROVE ShiftTrue(b)'
    <3>1. b \in Shifts \ shared
      BY <1>1, <2>5, <2>6
    <3>2. CASE b # a
      <4>1. PICK i : i = hour'
        OBVIOUS
      <4>2. /\ Active(b)' = ActiveOf(qs, b) /\ Active(b) = ActiveOf(ps, b)
            /\ PauseHours(b, None)' = Paused(qs, b, None, i)
            /\ PauseHours(b, None) = Paused(ps, b, None, h)
        BY <1>5, <1>6, <2>1, <4>1, PauseHoursArePaused
      <4>3. qs[p].of # b /\ qs[p] # None /\ (ps[p] = None \/ ps[p].of # b)
        BY <1>8, <2>2, <3>2, AttendanceAssumption
      <4>4. /\ ActiveOf(qs, b) = ActiveOf(ps, b) /\ \A q \in ActiveOf(ps, b) : qs[q] = ps[q]
            /\ Paused(qs, b, None, i) = Paused(ps, b, None, h)
        BY <1>5, <2>2, <4>3, ElsewhereWritten
      <4>5. Active(b)' = Active(b) /\ PauseHours(b, None)' = PauseHours(b, None)
            /\ \A q \in Active(b) : pause'[q] = pause[q]
        BY <1>5, <2>1, <4>2, <4>4
      <4> QED BY <1>4, <2>4, <3>1, <3>2, <4>5, WritesElsewhere
    <3>3. CASE b = a
      <4>1. At(a) = {r} /\ shift[a].out = None
        BY <1>7, <3>1, <3>3, OneAtShift
      <4>2. shift[a].by = None /\ None # "user"
        BY <3>1, <3>3, <4>1, AttendanceAssumption DEF AttendanceInv, ShiftTrue
      <4>3. At(a)' = {}
        BY <1>4, <1>7, <2>4, <3>1, <3>3, NobodyLeft
      <4> QED BY <1>1, <1>8, <3>1, <3>3, <4>1, <4>2, <4>3 DEF ShiftTrue
    <3> QED BY <3>2, <3>3
  <2> QED BY <2>5, <2>6 DEF AttendanceInv

<1>9. CASE job[r].pause # None
  <2>1. PICK p \in PauseIds : p = job[r].pause /\ pause[p].of = a
    BY <1>1, <1>2, <1>9 DEF KnowsPause
  <2>2. PICK new : new = [ps[p] EXCEPT !.end = h]
    OBVIOUS
  <2>3. p \in Req /\ ps[p] \in PauseRow /\ ps[p].of = a
    BY <1>5, <2>1 DEF PauseIds, PauseTable
  <2>4. new \in PauseRow /\ new.of = a /\ new.end = h /\ new.start = ps[p].start
    BY <2>2, <2>3 DEF PauseRow
  <2>5. pause' = [ps EXCEPT ![p] = new]
    BY <1>3, <1>5, <1>6, <1>9, <2>1, <2>2 DEF EndPause
  <2>6. a \notin shared => Runs(a)'
    <3>1. SUFFICES ASSUME a \notin shared PROVE Runs(a)'
      OBVIOUS
    <3>2. Runs(a) /\ Active(a) = {p}
      BY <1>1, <1>7, <1>9, <2>1, <3>1, OneAtShift
    <3>3. PICK n, s, m : n = shift[a].in /\ s = pause[p].start /\ m = PauseHours(a, None)
      OBVIOUS
    <3>4. n \in Nat /\ s \in Nat /\ m \in Int
      BY <1>2, <3>2, <3>3, ShiftIs, HoursAreInt DEF AttendanceInv
    <3>5. n <= s /\ s <= h /\ m <= s - n
      BY <1>6, <3>2, <3>3 DEF Runs, Fits
    <3>6. PICK qs, i : qs = pause' /\ i = hour' /\ qs = [ps EXCEPT ![p].end = h]
      BY <2>2, <2>5
    <3>7. /\ Active(a) = ActiveOf(ps, a) /\ Active(a)' = ActiveOf(qs, a)
          /\ PauseHours(a, None) = Paused(ps, a, None, i)
          /\ PauseHours(a, None)' = Paused(qs, a, None, i)
      BY <1>1, <1>5, <3>6, PauseHoursArePaused
    <3>12. p \in ActiveOf(ps, a) /\ EndsAt(ps, p, h, qs) /\ h \in Nat
      BY <3>2, <3>6, <3>7 DEF EndsAt
    <3>8. /\ Paused(ps, a, p, h) = Paused(ps, a, None, i) + (h - ps[p].start)
          /\ Paused(qs, a, None, i) = Paused(ps, a, p, h)
          /\ ActiveOf(qs, a) = ActiveOf(ps, a) \ {p}
      BY <1>5, <3>12, PauseEnds
    <3>9. Active(a)' = {} /\ PauseHours(a, None)' = m + (h - s)
      BY <1>5, <3>2, <3>3, <3>7, <3>8
    <3>10. n <= h /\ m + (h - s) <= h - n
      BY <3>4, <3>5
    <3>11. Fits(a, hour)'
      BY <1>1, <1>6, <3>3, <3>9, <3>10 DEF Fits
    <3> QED BY <3>9, <3>11 DEF Runs
  <2> QED BY <1>8, <2>1, <2>3, <2>4, <2>5, <2>6
<1>10. CASE job[r].pause = None
  <2>1. PICK new : new = NewPause(a)
    OBVIOUS
  <2>2. new \in PauseRow /\ new.of = a /\ new.start = h /\ new.end = None
    BY <1>2, <1>6, <2>1, ShiftIs DEF NewPause, PauseRow, AttendanceInv
  <2>3. pause' = [ps EXCEPT ![r] = new] /\ ps[r] = None
    BY <1>3, <1>4, <1>5, <1>10, <2>1 DEF PauseIds
  <2>4. a \notin shared => Runs(a)'
    <3>1. SUFFICES ASSUME a \notin shared PROVE Runs(a)'
      OBVIOUS
    <3>2. Runs(a) /\ Active(a) = {}
      BY <1>1, <1>7, <1>10, <3>1, OneAtShift
    <3>3. PICK qs, i : qs = pause' /\ i = hour' /\ qs = [ps EXCEPT ![r] = new]
      BY <2>3
    <3>4. /\ Active(a) = ActiveOf(ps, a) /\ Active(a)' = ActiveOf(qs, a)
          /\ PauseHours(a, None) = Paused(ps, a, None, i)
          /\ PauseHours(a, None)' = Paused(qs, a, None, i)
      BY <1>1, <1>5, <3>3, PauseHoursArePaused
    <3>5. /\ PauseTable(qs) /\ qs[r] = new /\ \A q \in Req \ {r} : qs[q] = ps[q]
      <4>1. Puts(ps, r, new, qs)
        BY <3>3 DEF Puts
      <4> QED BY <1>5, <2>2, <4>1, PauseWritten
    <3>6. /\ PausesOf(qs, a) = PausesOf(ps, a) \cup {r} /\ r \notin PausesOf(ps, a)
      BY <2>2, <2>3, <3>5, AttendanceAssumption DEF PausesOf
    <3>7. ActiveOf(qs, a) = ActiveOf(ps, a) \cup {r}
      BY <2>2, <3>5, <3>6 DEF ActiveOf, PausesOf
    <3>8. EndedOf(qs, a) = EndedOf(ps, a) /\ \A q \in EndedOf(ps, a) : qs[q] = ps[q]
      BY <3>5, <3>6, <3>7 DEF EndedOf, PausesOf
    <3>9. Paused(qs, a, None, i) = Paused(ps, a, None, i)
      BY <1>5, <3>5, <3>8, PausesElsewhere
    <3>10. Active(a)' = {r} /\ PauseHours(a, None)' = PauseHours(a, None) /\ pause'[r].start = h
      <4>1. Active(a)' = {r}
        BY <3>2, <3>4, <3>7
      <4>2. PauseHours(a, None)' = PauseHours(a, None)
        BY <3>4, <3>9
      <4> QED BY <2>2, <3>3, <3>5, <4>1, <4>2
    <3>11. Fits(a, hour)
      BY <3>2 DEF Runs
    <3>12. Fits(a, pause[r].start)'
      BY <1>1, <1>6, <3>10, <3>11 DEF Fits
    <3> QED BY <3>10, <3>12 DEF Runs
  <2> QED BY <1>8, <2>2, <2>3, <2>4
<1> QED BY <1>9, <1>10

LEMMA PausedIsInt ==
  ASSUME NEW ps, PauseTable(ps), NEW a, NEW p, NEW h \in Nat
  PROVE  Paused(ps, a, p, h) \in Int
<1>1. PICK E : E = EndedOf(ps, a) \cup (PausesOf(ps, a) \cap {p})
  OBVIOUS
<1>2. PICK f : f = [q \in E |-> (IF q = p THEN h ELSE ps[q].end) - ps[q].start]
  OBVIOUS
<1>3. Paused(ps, a, p, h) = SumFunctionOnSet(f, E)
  BY <1>1, <1>2 DEF Paused, SumFunction
<1>4. IsFiniteSet(E)
  <2>1. E \subseteq {q \in Req : ps[q] # None}
    BY <1>1 DEF EndedOf, PausesOf
  <2> QED BY <2>1, FS_Subset DEF PauseTable
<1>5. ASSUME NEW q \in E PROVE f[q] \in Int
  <2>1. q \in Req /\ ps[q] \in PauseRow /\ ps[q].start \in Nat
    BY <1>1 DEF EndedOf, PausesOf, PauseTable, PauseRow
  <2>2. q # p => ps[q].end \in Nat
    BY <1>1, EndedLast
  <2>3. f[q] = (IF q = p THEN h ELSE ps[q].end) - ps[q].start
    BY <1>2
  <2> QED BY <2>1, <2>2, <2>3
<1> QED BY <1>3, <1>4, <1>5, SumIsInt

LEMMA CheckedOut ==
  ASSUME Tagged, AttendanceInv, NEW r \in Req, CheckOut(r) PROVE AttendanceInv'
<1>1. /\ stage[r] = "record" /\ job[r].op = "checkOut"
      /\ job[r] \in AtOneShift /\ KnowsPause(r)
      /\ End(r, "done") /\ UNCHANGED <<hour, shared, doubled>>
  BY AttendanceStages DEF CheckOut, AttendanceInv, JobsClocked
<1>2. PICK a \in Shifts : job[r].shifts = {a}
  BY <1>1 DEF AtOneShift
<1>3. PICK p : p = job[r].pause /\ (p = None \/ (p \in PauseIds /\ pause[p].of = a))
  BY <1>1, <1>2 DEF KnowsPause
<1>4. PICK h \in Nat, n \in Nat : h = hour /\ n = shift[a].in
  BY <1>2, ShiftIs DEF AttendanceInv, ShiftsTyped
<1>5. PICK ps : ps = pause /\ PauseTable(ps)
  BY TablesAreTyped DEF AttendanceInv
<1>6. PICK m, i : m = Paused(ps, a, p, h) /\ i = hour'
  OBVIOUS
<1>7. m \in Int /\ m = PauseHours(a, p) /\ i = h
  <2>1. m \in Int
    BY <1>5, <1>6, PausedIsInt
  <2>2. PauseHours(a, p) = Paused(ps, a, p, h)
    BY <1>4, <1>5, PauseHoursArePaused
  <2> QED BY <1>1, <1>4, <1>6, <2>1, <2>2
<1>8. PICK w : w = Max({0, h - n - m})
  OBVIOUS
<1>9. w \in Nat /\ (h - n - m >= 0 => w = h - n - m)
  BY <1>7, <1>8, NoLessThanZero
<1>10. /\ shift' = [shift EXCEPT ![a].out = h, ![a].by = "user", ![a].worked = w]
       /\ pause' = IF p # None THEN EndPause(r) ELSE pause
  BY <1>2, <1>3, <1>4, <1>7, <1>8 DEF CheckOut
<1>11. /\ shift'[a] = [shift[a] EXCEPT !.out = h, !.by = "user", !.worked = w]
       /\ \A b \in Req \ {a} : shift'[b] = shift[b]
       /\ shift' \in [Req -> ShiftRow \cup {None}]
  <2>1. shift[a] \in ShiftRow /\ a \in Req
    BY <1>2, ShiftIs DEF AttendanceInv
  <2>2. [shift[a] EXCEPT !.out = h, !.by = "user", !.worked = w] \in ShiftRow
    BY <1>9, <2>1 DEF ShiftRow
  <2> QED BY <1>10, <2>1, <2>2 DEF AttendanceInv, ShiftsTyped
<1>12. /\ shift'[a].out = h /\ shift'[a].by = "user" /\ shift'[a].worked = w
       /\ shift'[a].in = n /\ shift'[a].user = shift[a].user /\ shift'[a] # None /\ h # None
  <2>1. shift[a] \in ShiftRow
    BY <1>2, ShiftIs DEF AttendanceInv
  <2>2. shift'[a] # None
    <3>1. [shift[a] EXCEPT !.out = h, !.by = "user", !.worked = w] \in ShiftRow
      BY <1>9, <2>1 DEF ShiftRow
    <3> QED BY <1>11, <3>1, AttendanceAssumption
  <2>3. h # None
    BY AttendanceAssumption
  <2> QED BY <1>4, <1>11, <2>1, <2>2, <2>3 DEF ShiftRow
<1>13. /\ Past(r)' /\ job'[r].op = "none"
       /\ \A q \in Req \ {r} : job'[q] = job[q] /\ stage'[q] = stage[q]
       /\ ~Past(r)
  BY <1>1, EndedIsPast DEF Past, AttendanceOps
<1>14. PICK qs : qs = pause' /\ (p = None => qs = ps) /\ (p # None => EndsAt(ps, p, h, qs))
  BY <1>3, <1>4, <1>5, <1>10 DEF EndPause, EndsAt
<1>15. ASSUME p # None
       PROVE  /\ p \in Req /\ ps[p] \in PauseRow /\ ps[p].of = a /\ ps[p] # None
              /\ PauseTable(qs) /\ qs[p] # None /\ qs[p].of = a
              /\ \A q \in Req \ {p} : qs[q] = ps[q]
              /\ {q \in Req : qs[q] # None} = {q \in Req : ps[q] # None}
  <2>1. p \in Req /\ ps[p] \in PauseRow /\ ps[p].of = a /\ ps[p] # None
    BY <1>3, <1>5, <1>15 DEF PauseIds, PauseTable
  <2>2. PICK new : new = [ps[p] EXCEPT !.end = h]
    OBVIOUS
  <2>3. new \in PauseRow /\ new.of = a /\ new # None
    BY <2>1, <2>2, AttendanceAssumption DEF PauseRow
  <2>4. Puts(ps, p, new, qs)
    BY <1>14, <1>15, <2>2 DEF EndsAt, Puts
  <2>5. /\ PauseTable(qs) /\ qs[p] = new /\ \A q \in Req \ {p} : qs[q] = ps[q]
        /\ {q \in Req : qs[q] # None} = {q \in Req : ps[q] # None} \cup {p}
    BY <1>5, <2>1, <2>3, <2>4, PauseWritten
  <2> QED BY <2>1, <2>3, <2>5
<1>16. /\ PauseTable(qs) /\ PauseIds' = PauseIds
       /\ \A q \in PauseIds : qs[q].of = ps[q].of
  <2>1. CASE p = None
    BY <1>5, <1>14, <2>1 DEF PauseIds
  <2>2. CASE p # None
    BY <1>5, <1>14, <1>15, <2>2 DEF PauseIds
  <2> QED BY <2>1, <2>2
<1>17. Writes(r, a)
  <2>1. PauseTable(pause') /\ \A q \in PauseIds : pause'[q].of = pause[q].of
    BY <1>5, <1>14, <1>16
  <2> QED BY <1>1, <1>11, <1>12, <1>13, <1>16, <2>1 DEF Writes
<1>18. ShiftsTyped' /\ JobsClocked' /\ ShiftsApart' /\ Shifts' = Shifts
  BY <1>13, <1>17, WritesTyped
<1>19. ASSUME NEW b \in Shifts' \ shared' PROVE ShiftTrue(b)'
  <2>1. b \in Shifts \ shared
    BY <1>1, <1>18, <1>19
  <2>2. CASE b # a
    <3>1. /\ Active(b)' = ActiveOf(qs, b) /\ Active(b) = ActiveOf(ps, b)
          /\ PauseHours(b, None)' = Paused(qs, b, None, i)
          /\ PauseHours(b, None) = Paused(ps, b, None, h)
      BY <1>4, <1>5, <1>6, <1>14, PauseHoursArePaused
    <3>2. /\ ActiveOf(qs, b) = ActiveOf(ps, b) /\ \A q \in ActiveOf(ps, b) : qs[q] = ps[q]
          /\ Paused(qs, b, None, i) = Paused(ps, b, None, h)
      <4>1. CASE p = None
        BY <1>7, <1>14, <4>1
      <4>2. CASE p # None
        <5>1. p \in Req /\ \A q \in Req \ {p} : qs[q] = ps[q]
          BY <1>15, <4>2
        <5>2. qs[p].of # b /\ qs[p] # None /\ (ps[p] = None \/ ps[p].of # b)
          BY <1>15, <2>2, <4>2
        <5> QED BY <1>5, <1>16, <5>1, <5>2, ElsewhereWritten
      <4> QED BY <4>1, <4>2
    <3>3. Active(b)' = Active(b) /\ PauseHours(b, None)' = PauseHours(b, None)
          /\ \A q \in Active(b) : pause'[q] = pause[q]
      BY <1>5, <1>14, <3>1, <3>2
    <3> QED BY <1>13, <1>17, <2>1, <2>2, <3>3, WritesElsewhere
  <2>3. CASE b = a
    <3>1. r \in At(a)
      BY <1>1, <1>2 DEF At
    <3>2. Runs(a) /\ Active(a) = IF p = None THEN {} ELSE {p}
      BY <1>1, <1>3, <2>1, <2>3, <3>1, OneAtShift
    <3>3. At(a)' = {}
      BY <1>13, <1>17, <2>1, <2>3, <3>1, NobodyLeft
    <3>4. PICK k : k = PauseHours(a, None)
      OBVIOUS
    <3>5. k \in Int /\ k = Paused(ps, a, None, i)
      <4>1. k \in Int
        BY <1>2, <3>4, HoursAreInt DEF AttendanceInv
      <4>2. PauseHours(a, None) = Paused(ps, a, None, i)
        BY <1>4, <1>5, <1>7, PauseHoursArePaused
      <4> QED BY <3>4, <4>1, <4>2
    <3>6. Active(a)' = ActiveOf(qs, a) /\ PauseHours(a, None)' = Paused(qs, a, None, i)
      BY <1>6, <1>14, PauseHoursArePaused
    <3>7. Active(a)' = {} /\ PauseHours(a, None)' = m /\ h - n - m >= 0
      <4>1. CASE p = None
        <5>1. Active(a) = ActiveOf(ps, a) /\ Active(a) = {} /\ qs = ps /\ m = k
          BY <1>5, <1>6, <1>7, <1>14, <3>2, <3>5, <4>1, PauseHoursArePaused
        <5>2. n <= h /\ k <= h - n
          BY <1>4, <3>2, <3>4, <5>1 DEF Runs, Fits
        <5>3. Active(a)' = {} /\ PauseHours(a, None)' = m
          BY <3>5, <3>6, <5>1
        <5> QED BY <1>7, <3>5, <5>1, <5>2, <5>3
      <4>2. CASE p # None
        <5>1. PICK s : s = ps[p].start
          OBVIOUS
        <5>2. s \in Nat
          BY <1>15, <4>2, <5>1 DEF PauseRow
        <5>3. p \in ActiveOf(ps, a) /\ ActiveOf(ps, a) = {p} /\ EndsAt(ps, p, h, qs)
          BY <1>5, <1>14, <3>2, <4>2, PauseHoursArePaused
        <5>4. /\ Paused(ps, a, p, h) = Paused(ps, a, None, i) + (h - ps[p].start)
              /\ Paused(qs, a, None, i) = Paused(ps, a, p, h)
              /\ ActiveOf(qs, a) = ActiveOf(ps, a) \ {p}
          BY <1>5, <5>3, PauseEnds
        <5>5. m = k + (h - s) /\ Active(a)' = {} /\ PauseHours(a, None)' = m
          BY <1>6, <3>5, <3>6, <5>1, <5>3, <5>4
        <5>6. n <= s /\ s <= h /\ k <= s - n
          BY <1>4, <1>5, <3>2, <3>4, <4>2, <5>1 DEF Runs, Fits
        <5> QED BY <3>5, <5>2, <5>5, <5>6
      <4> QED BY <4>1, <4>2
    <3>8. Told(a)'
      <4>1. w = h - n - m
        BY <1>9, <3>7
      <4>2. shift'[a].worked = shift'[a].out - shift'[a].in - PauseHours(a, None)'
        BY <1>12, <3>7, <4>1
      <4> QED BY <3>7, <4>2 DEF Told
    <3> QED BY <1>12, <2>3, <3>3, <3>8 DEF ShiftTrue
  <2> QED BY <2>2, <2>3
<1> QED BY <1>18, <1>19 DEF AttendanceInv

LEMMA ShiftForced ==
  ASSUME Tagged, AttendanceInv, NEW r \in Req, ForceCheckOut(r) PROVE AttendanceInv'
<1>1. /\ stage[r] = "force" /\ job[r].op = "autoCheckout" /\ job[r] \in Sweeping
      /\ UNCHANGED <<hour, pause, shared, doubled>>
  BY AttendanceStages DEF ForceCheckOut, AttendanceInv
<1>2. PICK a \in job[r].shifts :
        /\ shift' = [shift EXCEPT ![a].out = hour, ![a].worked = StaleAfter, ![a].by = "job"]
        /\ Goto(r, "force", [job[r] EXCEPT !.shifts = @ \ {a}])
  BY DEF ForceCheckOut
<1>3. a \in Shifts /\ job[r].shifts \subseteq Shifts
  BY <1>1, <1>2 DEF Sweeping
<1>4. PICK j : j = [job[r] EXCEPT !.shifts = @ \ {a}]
  OBVIOUS
<1>5. j \in Sweeping /\ j.shifts = job[r].shifts \ {a} /\ j.op = "autoCheckout"
  BY <1>1, <1>4 DEF Sweeping
<1>6. /\ job'[r] = j /\ stage'[r] = "force"
      /\ \A q \in Req \ {r} : job'[q] = job[q] /\ stage'[q] = stage[q]
  BY <1>2, <1>4, Then
<1>7. PICK h \in Nat : h = hour
  BY DEF AttendanceInv, ShiftsTyped
<1>8. PICK new : new = [shift[a] EXCEPT !.out = h, !.worked = StaleAfter, !.by = "job"]
  OBVIOUS
<1>9. shift[a] \in ShiftRow /\ a \in Req
  BY <1>3, ShiftIs DEF AttendanceInv
<1>10. /\ new \in ShiftRow /\ new.out = h /\ new.by = "job" /\ new.user = shift[a].user
       /\ new # None /\ h # None
  BY <1>8, <1>9, AttendanceAssumption DEF ShiftRow
<1>11. /\ shift'[a] = new /\ \A b \in Req \ {a} : shift'[b] = shift[b]
       /\ shift' \in [Req -> ShiftRow \cup {None}]
  BY <1>2, <1>7, <1>8, <1>9, <1>10 DEF AttendanceInv, ShiftsTyped
<1>12. PauseTable(pause)
  BY TablesAreTyped DEF AttendanceInv
<1>13. PauseIds' = PauseIds /\ ~Past(r)
  BY <1>1 DEF PauseIds, Past, AttendanceOps
<1>14. Writes(r, a)
  BY <1>1, <1>5, <1>6, <1>10, <1>11, <1>12, <1>13 DEF Writes
<1>15. ShiftsTyped' /\ JobsClocked' /\ ShiftsApart' /\ Shifts' = Shifts
  BY <1>3, <1>13, <1>14, WritesTyped
<1>16. ASSUME NEW b \in Shifts' \ shared' PROVE ShiftTrue(b)'
  <2>1. b \in Shifts \ shared /\ b \in Req
    BY <1>1, <1>15, <1>16 DEF Shifts
  <2>2. CASE b # a
    <3>1. SameShift(b)
      BY <1>1, <1>11, <2>1, <2>2, SamePauses DEF AttendanceInv
    <3> QED BY <1>3, <1>5, <1>6, <1>14, <2>1, <2>2, <3>1, WritesElsewhere DEF SameShift
  <2>3. CASE b = a
    <3>1. r \in At(a)
      BY <1>1, <1>2 DEF At
    <3>2. At(a)' = {}
      BY <1>5, <1>6, <1>14, <2>1, <2>3, <3>1, NobodyLeft
    <3> QED BY <1>10, <1>11, <2>3, <3>2 DEF ShiftTrue
  <2> QED BY <2>2, <2>3
<1> QED BY <1>15, <1>16 DEF AttendanceInv

LEMMA AttendanceHolds == ASSUME Tagged, AttendanceInv, [Next]_all PROVE AttendanceInv'
<1>1. CASE ~AttendanceStep
  BY <1>1, AttendanceAside, ClockedAside
<1>2. CASE AttendanceStep
  <2>1. CASE PassHour
    BY <2>1, HourPasses
  <2>2. ASSUME NEW r \in Req,
               \/ FindOpenToCheckIn(r) \/ CreateShift(r) \/ FindOpenShift(r)
               \/ FindActivePause(r)   \/ TogglePause(r) \/ CheckOut(r)
               \/ FindStale(r)         \/ ForceCheckOut(r) \/ EndSweep(r)
        PROVE  AttendanceInv'
    BY <2>2, CheckInLooked, ShiftCreated, ShiftFound, PauseFound, PauseToggled, CheckedOut,
       StaleFound, ShiftForced, SweepEnded
  <2> QED BY <1>2, <2>1, <2>2 DEF AttendanceStep
<1> QED BY <1>1, <1>2

(* A shift that its user closed counts the hours between its ends less all *)
(* of its pauses, however many requests and pauses there are, unless two   *)
(* requests were at the shift at once; and an employee who did not check   *)
(* in twice at once has one open shift at most.                            *)
THEOREM ShiftsAreKept == Spec => []AttendanceInv
<1>1. Init => AttendanceInv
  <2> SUFFICES ASSUME Init PROVE AttendanceInv
    OBVIOUS
  <2>1. /\ hour = 0 /\ shift = [r \in Req |-> None] /\ pause = [r \in Req |-> None]
        /\ \A r \in Req : job[r].op = "none"
    BY DEF Init, OfficeInit, AttendanceInit, RequestsInit, Idle
  <2>2. PauseIds = {} /\ Shifts = {} /\ IsFiniteSet(PauseIds)
    BY <2>1, FS_EmptySet DEF PauseIds, Shifts
  <2>3. ShiftsTyped
    BY <2>1, <2>2 DEF ShiftsTyped
  <2>4. JobsClocked
    BY <2>1 DEF JobsClocked
  <2>5. ShiftsApart
    BY <2>1, <2>2 DEF ShiftsApart, AtMostOne, Open, Doing
  <2> QED BY <2>2, <2>3, <2>4, <2>5 DEF AttendanceInv
<1>2. Tagged /\ AttendanceInv /\ [Next]_all => AttendanceInv'
  BY AttendanceHolds
<1> QED BY <1>1, <1>2, EveryRequestIsTagged, PTL DEF Spec

(* What an employee is paid for is what was worked.                        *)
THEOREM ShiftHoursAreTrue == Spec => []HoursAreTrue
<1>1. AttendanceInv => HoursAreTrue
  BY DEF AttendanceInv, ShiftTrue, Told, HoursAreTrue
<1> QED BY <1>1, ShiftsAreKept, PTL
-----------------------------------------------------------------------------
(***************************************************************************)
(* The notices.  A scan that met no other goes on to create a notice only  *)
(* where none like it is unread.                                           *)
(***************************************************************************)
Candidate == [loop : {"stock", "expiry"}, qty : Nat, type : NoticeType]
NoticesTyped ==
  /\ inStock \in Nat /\ daysLeft \in Nat
  /\ notice \in [NoticeId -> NoticeRow \cup {None}]
  /\ \A r \in Doing("scan stock") : job[r].left \in Seq(Candidate) /\ job[r].left # <<>>
NoticesApart ==
  scanning2 \/
    /\ OneUnreadNotice
    /\ \A q, r \in Doing("scan stock") : q = r
    /\ \A r \in Doing("scan stock") :
         stage[r] = "notice" => Unread(Now(r).type, Now(r).qty) = {}
NoticesInv == NoticesTyped /\ NoticesApart

(* What only reads notices, or nothing of them, and is no scan.            *)
LEMMA NoticesRest ==
  ASSUME NoticesInv, inStock' \in Nat, daysLeft' \in Nat, UNCHANGED scanning2,
         notice' \in [NoticeId -> NoticeRow \cup {None}],
         \A n \in NoticeId : notice'[n] = notice[n] \/ notice'[n].read # FALSE,
         \A q \in Req : job'[q].op = "scan stock" => job'[q] = job[q] /\ stage'[q] = stage[q]
  PROVE  NoticesInv'
<1>1. \A q \in Doing("scan stock")' :
        q \in Doing("scan stock") /\ job'[q] = job[q] /\ stage'[q] = stage[q]
  BY DEF Doing
<1>2. NoticesTyped'
  BY <1>1 DEF NoticesTyped, NoticesInv
<1>3. ASSUME ~scanning2' PROVE OneUnreadNotice'
  <2> SUFFICES ASSUME NEW n \in NoticeId, NEW m \in NoticeId, notice'[n] # None,
                      notice'[n] = notice'[m], ~notice'[n].read
               PROVE  n = m
    BY DEF OneUnreadNotice
  <2>1. notice'[n] \in NoticeRow
    OBVIOUS
  <2>2. notice'[n].read = FALSE
    BY <2>1 DEF NoticeRow
  <2>3. notice'[n] = notice[n] /\ notice'[m] = notice[m]
    BY <2>2
  <2> QED BY <1>3, <2>3 DEF NoticesInv, NoticesApart, OneUnreadNotice
<1>4. ASSUME ~scanning2', NEW q \in Doing("scan stock")', stage'[q] = "notice"
      PROVE  Unread(Now(q).type, Now(q).qty)' = {}
  <2>1. Unread(Now(q).type, Now(q).qty) = {}
    BY <1>1, <1>4 DEF NoticesInv, NoticesApart
  <2>2. PICK t, k : t = Now(q).type /\ k = Now(q).qty
    OBVIOUS
  <2>3. Now(q)'.type = t /\ Now(q)'.qty = k
    BY <1>1, <1>4, <2>2 DEF Now
  <2>4. ASSUME NEW n \in NoticeId, notice'[n] = [type |-> t, qty |-> k, read |-> FALSE]
        PROVE  FALSE
    <3>1. notice'[n].read = FALSE
      <4>1. PICK new : new = [type |-> t, qty |-> k, read |-> FALSE]
        OBVIOUS
      <4>2. new.read = FALSE /\ notice'[n] = new
        BY <2>4, <4>1
      <4> QED BY <4>2
    <3>2. notice'[n] = notice[n]
      BY <3>1
    <3> QED BY <2>1, <2>2, <2>4, <3>2 DEF Unread
  <2> QED BY <2>3, <2>4 DEF Unread
<1>5. NoticesApart'
  BY <1>1, <1>3, <1>4 DEF NoticesInv, NoticesApart
<1> QED BY <1>2, <1>5 DEF NoticesInv

LEMMA ScanGoesOn ==
  ASSUME Tagged, NEW r \in Req, NEW left \in Seq(Candidate), GoOn(r, left)
  PROVE  /\ \A q \in Req \ {r} : job'[q] = job[q] /\ stage'[q] = stage[q]
         /\ \/ job'[r].op # "scan stock"
            \/ stage'[r] = "exists" /\ job'[r].left = left /\ left # <<>>
<1>1. CASE left = <<>>
  <2>1. End(r, "done")
    BY <1>1 DEF GoOn
  <2> QED BY <2>1, ThenEnds, IdleIsNone
<1>2. CASE left # <<>>
  <2>1. PICK j : j = [op |-> "scan stock", left |-> left]
    OBVIOUS
  <2>2. Goto(r, "exists", j) /\ j.left = left
    BY <1>2, <2>1 DEF GoOn
  <2>3. \A q \in Req : /\ stage'[q] = IF q = r THEN "exists" ELSE stage[q]
                       /\ job'[q] = IF q = r THEN j ELSE job[q]
    BY <2>2, Then
  <2> QED BY <1>2, <2>2, <2>3
<1> QED BY <1>1, <1>2

LEMMA CandidatesFound ==
  ASSUME Tagged, NoticesInv, NEW r \in Req, FindCandidates(r) PROVE NoticesInv'
<1>1. PICK left : left = LowStock \o Expiring
  OBVIOUS
<1>2. left \in Seq(Candidate)
  <2>1. LowStock \in Seq(Candidate)
    <3>1. CASE inStock < MinStock
      <4>1. PICK c : c = [loop |-> "stock", qty |-> inStock,
                          type |-> IF inStock = 0 THEN "outOfStock" ELSE "lowStock"]
        OBVIOUS
      <4>2. c \in Candidate
        BY <4>1 DEF Candidate, NoticesInv, NoticesTyped, NoticeType
      <4>3. LowStock = <<c>>
        BY <3>1, <4>1 DEF LowStock
      <4> QED BY <4>2, <4>3
    <3>2. CASE ~(inStock < MinStock)
      BY <3>2 DEF LowStock
    <3> QED BY <3>1, <3>2
  <2>2. Expiring \in Seq(Candidate)
    <3>1. CASE daysLeft > 0
      <4>1. PICK c : c = [loop |-> "expiry", qty |-> daysLeft, type |-> "expiring"]
        OBVIOUS
      <4>2. c \in Candidate
        BY <4>1 DEF Candidate, NoticesInv, NoticesTyped, NoticeType
      <4>3. Expiring = <<c>>
        BY <3>1, <4>1 DEF Expiring
      <4> QED BY <4>2, <4>3
    <3>2. CASE ~(daysLeft > 0)
      BY <3>2 DEF Expiring
    <3> QED BY <3>1, <3>2
  <2> QED BY <1>1, <2>1, <2>2
<1>3. /\ GoOn(r, left) /\ UNCHANGED <<inStock, daysLeft, notice>>
      /\ scanning2' = (scanning2 \/ Doing("scan stock") # {})
  BY <1>1 DEF FindCandidates, product0
<1>4. /\ \A q \in Req \ {r} : job'[q] = job[q] /\ stage'[q] = stage[q]
      /\ job'[r].op # "scan stock" \/ (stage'[r] = "exists" /\ job'[r].left = left /\ left # <<>>)
  BY <1>2, <1>3, ScanGoesOn
<1>5. \A q \in Doing("scan stock")' :
        \/ q # r /\ q \in Doing("scan stock") /\ job'[q] = job[q] /\ stage'[q] = stage[q]
        \/ q = r /\ stage'[q] = "exists" /\ job'[q].left = left /\ left # <<>>
  BY <1>4 DEF Doing
<1>6. NoticesTyped'
  BY <1>2, <1>3, <1>5 DEF NoticesTyped, NoticesInv
<1>7. ASSUME ~scanning2'
      PROVE  /\ OneUnreadNotice'
             /\ \A p, q \in Doing("scan stock")' : p = q
             /\ \A q \in Doing("scan stock")' : stage'[q] # "notice"
  <2>1. ~scanning2 /\ Doing("scan stock") = {}
    BY <1>3, <1>7
  <2>2. OneUnreadNotice'
    BY <1>3, <2>1 DEF NoticesInv, NoticesApart, OneUnreadNotice
  <2> QED BY <1>5, <2>1, <2>2
<1> QED BY <1>6, <1>7 DEF NoticesInv, NoticesApart

LEMMA ScanLooked ==
  ASSUME Tagged, NoticesInv, NEW r \in Req, ExistsUnread(r) PROVE NoticesInv'
<1>1. r \in Doing("scan stock") /\ UNCHANGED noticeVars
  BY StageTells DEF ExistsUnread, NoticesTag, Doing
<1>2. PICK left : left = job[r].left
  OBVIOUS
<1>3. left \in Seq(Candidate) /\ left # <<>>
  BY <1>1, <1>2 DEF NoticesInv, NoticesTyped
<1>4. PICK t \in Seq(Candidate) : t = Tail(left)
  <2>1. Tail(left) \in Seq(Candidate)
    BY <1>3
  <2> QED BY <2>1
<1>5. \/ GoOn(r, t)
      \/ Goto(r, "notice", job[r]) /\ SameNotice(r) = {}
  BY <1>2, <1>4 DEF ExistsUnread
<1>6. /\ \A q \in Req \ {r} : job'[q] = job[q] /\ stage'[q] = stage[q]
      /\ \/ job'[r].op # "scan stock"
         \/ stage'[r] = "exists" /\ job'[r].left = t /\ t # <<>>
         \/ stage'[r] = "notice" /\ job'[r] = job[r] /\ SameNotice(r) = {}
  <2>1. CASE GoOn(r, t)
    BY <1>4, <2>1, ScanGoesOn
  <2>2. CASE Goto(r, "notice", job[r]) /\ SameNotice(r) = {}
    <3>1. \A q \in Req : /\ stage'[q] = IF q = r THEN "notice" ELSE stage[q]
                         /\ job'[q] = IF q = r THEN job[r] ELSE job[q]
      BY <2>2, Then
    <3> QED BY <2>2, <3>1
  <2> QED BY <1>5, <2>1, <2>2
<1>7. \A q \in Doing("scan stock")' :
        /\ q \in Doing("scan stock")
        /\ \/ q # r /\ job'[q] = job[q] /\ stage'[q] = stage[q]
           \/ q = r /\ stage'[q] = "exists" /\ job'[q].left = t /\ t # <<>>
           \/ q = r /\ stage'[q] = "notice" /\ job'[q] = job[q] /\ SameNotice(q) = {}
  BY <1>1, <1>6 DEF Doing
<1>8. NoticesTyped'
  BY <1>1, <1>3, <1>4, <1>7 DEF NoticesTyped, NoticesInv, noticeVars, product0
<1>9. ASSUME ~scanning2, NEW q \in Doing("scan stock")', stage'[q] = "notice"
      PROVE  Unread(Now(q).type, Now(q).qty)' = {}
  <2>1. job'[q] = job[q] /\ Unread(Now(q).type, Now(q).qty) = {}
    BY <1>7, <1>9 DEF NoticesInv, NoticesApart, SameNotice
  <2> QED BY <1>1, <2>1 DEF Unread, Now, noticeVars
<1>10. NoticesApart'
  BY <1>1, <1>7, <1>9 DEF NoticesInv, NoticesApart, OneUnreadNotice, noticeVars
<1> QED BY <1>8, <1>10 DEF NoticesInv

LEMMA NoticeCreated ==
  ASSUME Tagged, NoticesInv, NEW r \in Req, CreateNotice(r) PROVE NoticesInv'
<1>1. r \in Doing("scan stock") /\ stage[r] = "notice"
      /\ UNCHANGED <<inStock, daysLeft, scanning2>>
  BY StageTells DEF CreateNotice, NoticesTag, Doing, product0
<1>2. PICK left : left = job[r].left
  OBVIOUS
<1>3. left \in Seq(Candidate) /\ left # <<>>
  BY <1>1, <1>2 DEF NoticesInv, NoticesTyped
<1>4. PICK t \in Seq(Candidate) : t = Tail(left)
  <2>1. Tail(left) \in Seq(Candidate)
    BY <1>3
  <2> QED BY <2>1
<1>5. PICK c \in Candidate : c = Now(r)
  BY <1>2, <1>3 DEF Now
<1>6. PICK new : new = [type |-> c.type, qty |-> c.qty, read |-> FALSE]
  OBVIOUS
<1>7. PICK n \in NoticeId : n = <<r, c.loop>>
  BY <1>5 DEF Candidate, NoticeId
<1>8. new \in NoticeRow /\ new.read = FALSE
  BY <1>5, <1>6 DEF Candidate, NoticeRow
<1>9. notice' = [notice EXCEPT ![n] = new] /\ GoOn(r, t)
  BY <1>2, <1>4, <1>5, <1>6, <1>7 DEF CreateNotice
<1>10. /\ notice' \in [NoticeId -> NoticeRow \cup {None}]
       /\ notice'[n] = new /\ \A m \in NoticeId \ {n} : notice'[m] = notice[m]
  BY <1>8, <1>9 DEF NoticesInv, NoticesTyped
<1>11. /\ \A q \in Req \ {r} : job'[q] = job[q] /\ stage'[q] = stage[q]
       /\ job'[r].op # "scan stock" \/ (stage'[r] = "exists" /\ job'[r].left = t /\ t # <<>>)
  BY <1>4, <1>9, ScanGoesOn
<1>12. \A q \in Doing("scan stock")' :
         /\ q \in Doing("scan stock")
         /\ \/ q # r /\ job'[q] = job[q] /\ stage'[q] = stage[q]
            \/ q = r /\ stage'[q] = "exists" /\ job'[q].left = t /\ t # <<>>
  BY <1>1, <1>11 DEF Doing
<1>13. NoticesTyped'
  BY <1>1, <1>4, <1>10, <1>12 DEF NoticesTyped, NoticesInv
<1>14. ASSUME ~scanning2 PROVE OneUnreadNotice'
  <2>1. \A m \in NoticeId : notice[m] # new
    BY <1>1, <1>5, <1>6, <1>14 DEF NoticesInv, NoticesApart, Unread
  <2>2. OneUnreadNotice
    BY <1>14 DEF NoticesInv, NoticesApart
  <2> SUFFICES ASSUME NEW k \in NoticeId, NEW m \in NoticeId, notice'[k] # None,
                      notice'[k] = notice'[m], ~notice'[k].read
               PROVE  k = m
    BY DEF OneUnreadNotice
  <2>3. CASE k = n \/ m = n
    BY <1>10, <2>1, <2>3
  <2>4. CASE k # n /\ m # n
    <3>1. notice'[k] = notice[k] /\ notice'[m] = notice[m]
      BY <1>10, <2>4
    <3> QED BY <1>14, <2>2, <3>1 DEF OneUnreadNotice
  <2> QED BY <2>3, <2>4
<1>15. ASSUME ~scanning2 PROVE \A q \in Doing("scan stock")' : stage'[q] # "notice"
  BY <1>1, <1>12, <1>15 DEF NoticesInv, NoticesApart
<1>16. NoticesApart'
  BY <1>1, <1>12, <1>14, <1>15 DEF NoticesInv, NoticesApart
<1> QED BY <1>13, <1>16 DEF NoticesInv

LEMMA NoticesHold == ASSUME Tagged, NoticesInv, [Next]_all PROVE NoticesInv'
<1>0. NoticesTyped
  BY DEF NoticesInv
<1>1. CASE ~NoticesStep
  <2>1. UNCHANGED <<inStock, daysLeft, notice, scanning2>> /\ Aside(NoticesOps)
    BY <1>1, NoticesAside DEF noticeVars, product0
  <2>2. \A q \in Req : job'[q].op = "scan stock" => job'[q] = job[q] /\ stage'[q] = stage[q]
    BY <2>1 DEF Aside, NoticesOps
  <2> QED BY <1>0, <2>1, <2>2, NoticesRest DEF NoticesTyped
<1>2. ASSUME NEW r \in Req, MoveStock(r) \/ MarkRead(r) \/ ScheduledRun(r) \/ OwnerLogin(r)
      PROVE  NoticesInv'
  <2>1. End(r, "done") /\ UNCHANGED scanning2
    BY <1>2 DEF MoveStock, MarkRead, ScheduledRun, OwnerLogin
  <2>2. \A q \in Req : job'[q].op = "scan stock" => job'[q] = job[q] /\ stage'[q] = stage[q]
    BY <2>1, ThenEnds, IdleIsNone
  <2>3. inStock' \in Nat /\ daysLeft' \in Nat
    <3>1. 0 .. MaxQuantity \subseteq Nat
      BY NoticesAssumption
    <3> QED BY <1>0, <1>2, <3>1 DEF MoveStock, MarkRead, ScheduledRun, OwnerLogin, product0,
                                 NoticesTyped
  <2>4. /\ notice' \in [NoticeId -> NoticeRow \cup {None}]
        /\ \A n \in NoticeId : notice'[n] = notice[n] \/ notice'[n].read # FALSE
    <3>1. CASE MarkRead(r)
      <4>1. PICK ns \in SUBSET {n \in NoticeId : notice[n] # None} :
              notice' = [n \in NoticeId |-> IF n \in ns THEN [notice[n] EXCEPT !.read = TRUE]
                                            ELSE notice[n]]
        BY <3>1 DEF MarkRead
      <4>2. ASSUME NEW n \in NoticeId
            PROVE  /\ notice'[n] \in NoticeRow \cup {None}
                   /\ notice'[n] = notice[n] \/ notice'[n].read # FALSE
        <5>1. CASE n \in ns
          <6>1. notice[n] \in NoticeRow /\ notice'[n] = [notice[n] EXCEPT !.read = TRUE]
            BY <1>0, <4>1, <5>1 DEF NoticesTyped
          <6> QED BY <6>1 DEF NoticeRow
        <5>2. CASE n \notin ns
          BY <1>0, <4>1, <5>2 DEF NoticesTyped
        <5> QED BY <5>1, <5>2
      <4>3. notice' = [n \in NoticeId |-> notice'[n]]
        BY <4>1
      <4> QED BY <4>2, <4>3
    <3>2. CASE UNCHANGED notice
      BY <1>0, <3>2 DEF NoticesTyped
    <3> QED BY <1>2, <3>1, <3>2 DEF MoveStock, ScheduledRun, OwnerLogin
  <2> QED BY <2>1, <2>2, <2>3, <2>4, NoticesRest
<1>3. CASE NoticesStep
  BY <1>2, <1>3, CandidatesFound, ScanLooked, NoticeCreated DEF NoticesStep
<1> QED BY <1>1, <1>3

(* A product has one unread notice of a kind and a quantity, however many  *)
(* users read them meanwhile, unless two scans were under way at once.     *)
THEOREM NoticesAreNew == Spec => []NoticesInv
<1>1. Init => NoticesInv
  <2> SUFFICES ASSUME Init PROVE NoticesInv
    OBVIOUS
  <2>1. /\ inStock \in 0 .. MaxQuantity /\ daysLeft = 0
        /\ notice = [n \in NoticeId |-> None]
        /\ \A r \in Req : job[r].op = "none"
    BY DEF Init, OfficeInit, NoticesInit, RequestsInit, Idle
  <2>2. Doing("scan stock") = {}
    BY <2>1 DEF Doing
  <2>3. inStock \in Nat
    BY <2>1, NoticesAssumption
  <2>4. OneUnreadNotice
    BY <2>1 DEF OneUnreadNotice
  <2> QED BY <2>1, <2>2, <2>3, <2>4 DEF NoticesInv, NoticesTyped, NoticesApart
<1>2. Tagged /\ NoticesInv /\ [Next]_all => NoticesInv'
  BY NoticesHold
<1> QED BY <1>1, <1>2, EveryRequestIsTagged, PTL DEF Spec
-----------------------------------------------------------------------------
(***************************************************************************)
(* The catalogue.  Of price groups and of a ladder one edit is under way,  *)
(* or history tells; an order was quoted what the tiers it has read ask of *)
(* the group the buyer had.                                                *)
(***************************************************************************)
BuyerRow  == [group : Req \cup {NoGroup}]
GroupEdit == [op : {"createGroup"}, default : BOOLEAN, clear : SUBSET Req]
TierEdit  == [op : {"tiers"}, of : Req \cup {None}, new : SUBSET Tier, old : SUBSET Tier]
Order     == [op : {"order"}, qty : Nat, quoted : Nat, listing : ListingRow,
              ladder : SUBSET Tier, asQuoted : BOOLEAN, group : Req \cup {NoGroup}]
CatalogueTyped ==
  /\ group \in [Req -> GroupRow \cup {None}] /\ listing \in ListingRow \cup {None}
  /\ ladder \subseteq Tier /\ buyer \in BuyerRow \cup {None}
  /\ listing # None /\ listing.by # None => stage[listing.by] # "new"
  /\ \A q \in Doing("createGroup") : job[q] \in GroupEdit
  /\ \A q \in Doing("tiers") :
       job[q] \in TierEdit /\ (job[q].of # None => stage[job[q].of] # "new")
  /\ \A q \in Doing("order") : job[q] \in Order

GroupsApart ==
  "groups" \in overlaid \/
    /\ AtMostOne(DefaultGroups)
    /\ \A p, q \in Doing("createGroup") : p = q
    /\ \A q \in Doing("createGroup") : job[q].default => DefaultGroups \subseteq job[q].clear

OneEdit(ts) == \A t, u \in ts : t.by = u.by /\ (t.group = u.group /\ t.min = u.min => t = u)
Emptied(q)  == stage[q] = "tiers" /\ listing # None /\ listing.by = job[q].of
EditsApart ==
  "tiers" \in overlaid \/
    /\ OneEdit(ladder)
    /\ \A p, q \in Doing("tiers") : p = q
    /\ \A q \in Doing("tiers") :
         OneEdit(job[q].new) /\ (Emptied(q) => ladder \subseteq job[q].old)

Quoted(q, g) ==
  job[q].quoted \in UnitPrices(job[q].listing.price, job[q].ladder, g, job[q].qty)
QuotesKept ==
  "tiers" \in overlaid \/ \A q \in Doing("order") :
    /\ OneEdit(job[q].ladder)
    /\ job[q].asQuoted \/ stage[q] = "listings" =>
         Quoted(q, job[q].group) \/ (stage[q] = "price" /\ Quoted(q, NoGroup))
CatalogueInv == CatalogueTyped /\ GroupsApart /\ EditsApart /\ QuotesKept

(* The statements that are no part of an edit or an order pass them by.    *)
Editors == {"createGroup", "tiers", "order"}
Undisturbed ==
  /\ \A q \in Req : job'[q].op \in Editors => job'[q] = job[q] /\ stage'[q] = stage[q]
  /\ \A q \in Req : stage[q] # "new" => stage'[q] # "new"

LEMMA EndingDisturbsNone ==
  ASSUME Tagged, NEW r \in Req, NEW s \in {"done", "refused"}, End(r, s) PROVE Undisturbed
<1>1. \A q \in Req : /\ stage'[q] = IF q = r THEN s ELSE stage[q]
                     /\ job'[q] = IF q = r THEN Idle ELSE job[q]
  BY ThenEnds
<1> QED BY <1>1, IdleIsNone DEF Undisturbed, Editors

LEMMA ProductDisturbsNone ==
  ASSUME Tagged, NEW r \in Req, NEW j, j.op = "product", Goto(r, "product", j)
  PROVE  Undisturbed
<1>1. \A q \in Req : /\ stage'[q] = IF q = r THEN "product" ELSE stage[q]
                     /\ job'[q] = IF q = r THEN j ELSE job[q]
  BY Then
<1> QED BY <1>1 DEF Undisturbed, Editors

TypedJob(q) ==
  /\ job[q].op = "createGroup" => job[q] \in GroupEdit
  /\ job[q].op = "tiers" => job[q] \in TierEdit /\ (job[q].of # None => stage[job[q].of] # "new")
  /\ job[q].op = "order" => job[q] \in Order
TablesTyped ==
  /\ group \in [Req -> GroupRow \cup {None}] /\ listing \in ListingRow \cup {None}
  /\ ladder \subseteq Tier /\ buyer \in BuyerRow \cup {None}
  /\ listing # None /\ listing.by # None => stage[listing.by] # "new"

LEMMA StaysTyped ==
  ASSUME CatalogueTyped, TablesTyped', \A q \in Req : stage[q] # "new" => stage'[q] # "new",
         \A q \in Req : TypedJob(q)' \/ job'[q] = job[q]
  PROVE  CatalogueTyped'
<1>1. ASSUME NEW q \in Req PROVE TypedJob(q)'
  <2>1. CASE job'[q] = job[q]
    <3>1. TypedJob(q)
      BY DEF CatalogueTyped, TypedJob, Doing
    <3>2. job[q].op = "tiers" => job[q].of = None \/ job[q].of \in Req
      BY <3>1 DEF TypedJob, TierEdit
    <3> QED BY <2>1, <3>1, <3>2 DEF TypedJob
  <2> QED BY <1>1, <2>1
<1> QED BY <1>1 DEF TypedJob, TablesTyped, CatalogueTyped, Doing

LEMMA TablesRest ==
  ASSUME CatalogueTyped, UNCHANGED <<group, listing, ladder, buyer>>,
         \A q \in Req : stage[q] # "new" => stage'[q] # "new"
  PROVE  TablesTyped'
<1>1. listing # None /\ listing.by # None => listing.by \in Req
  BY DEF CatalogueTyped, ListingRow
<1> QED BY <1>1 DEF CatalogueTyped, TablesTyped

LEMMA GroupsRest ==
  ASSUME GroupsApart, "groups" \in overlaid => "groups" \in overlaid',
         DefaultGroups' \subseteq DefaultGroups,
         \A q \in Req : job'[q].op = "createGroup" => job'[q] = job[q]
  PROVE  GroupsApart'
<1>1. \A q \in Doing("createGroup")' : q \in Doing("createGroup") /\ job'[q] = job[q]
  BY DEF Doing
<1> QED BY <1>1 DEF GroupsApart, AtMostOne

LEMMA EditsRest ==
  ASSUME EditsApart, "tiers" \in overlaid => "tiers" \in overlaid', ladder' \subseteq ladder,
         \A q \in Req : job'[q].op = "tiers" => job'[q] = job[q] /\ stage'[q] = stage[q],
         listing' # None => listing # None /\ listing'.by = listing.by
  PROVE  EditsApart'
<1>1. \A q \in Doing("tiers")' : q \in Doing("tiers") /\ job'[q] = job[q] /\ stage'[q] = stage[q]
  BY DEF Doing
<1>2. \A q \in Doing("tiers")' : Emptied(q)' => Emptied(q)
  BY <1>1 DEF Emptied
<1>3. OneEdit(ladder) => OneEdit(ladder)'
  BY DEF OneEdit
<1>4. CASE "tiers" \in overlaid
  BY <1>4 DEF EditsApart
<1>5. CASE "tiers" \notin overlaid
  <2>1. \A q \in Doing("tiers")' :
          OneEdit(job[q].new)' /\ (Emptied(q)' => ladder' \subseteq job'[q].old)
    BY <1>1, <1>2, <1>5 DEF EditsApart, OneEdit
  <2> QED BY <1>1, <1>3, <1>5, <2>1 DEF EditsApart
<1> QED BY <1>4, <1>5

LEMMA QuotesRest ==
  ASSUME QuotesKept, "tiers" \in overlaid => "tiers" \in overlaid',
         \A q \in Req : job'[q].op = "order" => job'[q] = job[q] /\ stage'[q] = stage[q]
  PROVE  QuotesKept'
<1>1. ASSUME NEW q \in Doing("order")'
      PROVE  q \in Doing("order") /\ job'[q] = job[q] /\ stage'[q] = stage[q]
  BY DEF Doing
<1>2. ASSUME NEW q \in Doing("order")', "tiers" \notin overlaid
      PROVE  /\ OneEdit(job[q].ladder)'
             /\ job'[q].asQuoted \/ stage'[q] = "listings" =>
                  \/ Quoted(q, job[q].group)'
                  \/ stage'[q] = "price" /\ Quoted(q, NoGroup)'
  <2>1. PICK j : j = job[q] /\ j = job'[q]
    BY <1>1
  <2>2. /\ OneEdit(j.ladder)
        /\ j.asQuoted \/ stage[q] = "listings" =>
             \/ j.quoted \in UnitPrices(j.listing.price, j.ladder, j.group, j.qty)
             \/ stage[q] = "price"
                /\ j.quoted \in UnitPrices(j.listing.price, j.ladder, NoGroup, j.qty)
    BY <1>1, <1>2, <2>1 DEF QuotesKept, Quoted
  <2> QED BY <1>1, <2>1, <2>2 DEF Quoted
<1> QED BY <1>2 DEF QuotesKept

(* What only removes, of groups and of tiers, and is no edit of a ladder.  *)
LEMMA CatalogueRests ==
  ASSUME CatalogueInv, TablesTyped', Undisturbed, UNCHANGED overlaid,
         DefaultGroups' \subseteq DefaultGroups, ladder' \subseteq ladder,
         listing' # None => listing # None /\ listing'.by = listing.by
  PROVE  CatalogueInv'
<1>1. CatalogueTyped'
  <2>1. \A q \in Req : TypedJob(q)' \/ job'[q] = job[q]
    BY DEF Undisturbed, Editors, TypedJob
  <2> QED BY <2>1, StaysTyped DEF CatalogueInv, Undisturbed
<1>2. \A q \in Req : /\ job'[q].op = "createGroup" => job'[q] = job[q]
                     /\ job'[q].op = "tiers" => job'[q] = job[q] /\ stage'[q] = stage[q]
                     /\ job'[q].op = "order" => job'[q] = job[q] /\ stage'[q] = stage[q]
  BY DEF Undisturbed, Editors
<1>3. GroupsApart' /\ EditsApart' /\ QuotesKept'
  BY <1>2, GroupsRest, EditsRest, QuotesRest DEF CatalogueInv
<1> QED BY <1>1, <1>3 DEF CatalogueInv

LEMMA CatalogueAsItWas ==
  ASSUME CatalogueInv, Undisturbed, UNCHANGED <<group, listing, ladder, buyer, overlaid>>
  PROVE  CatalogueInv'
<1>1. TablesTyped'
  BY TablesRest DEF CatalogueInv, Undisturbed
<1>2. DefaultGroups' = DefaultGroups
  BY DEF DefaultGroups, Groups
<1> QED BY <1>1, <1>2, CatalogueRests

LEMMA Named == ASSUME Tagged, CatalogueInv, NEW r \in Req, Naming(r) PROVE CatalogueInv'
<1>1. UNCHANGED <<group, listing, ladder, buyer, overlaid>>
  BY DEF Naming, CreateProduct, UpdateProduct, DuplicateProduct, WriteProduct, RemoveProduct,
         catalogueVars
<1>2. \/ End(r, "refused") \/ End(r, "done")
      \/ \E p \in Req : \E code : Goto(r, "product", [op |-> "product", of |-> p, code |-> code])
  BY DEF Naming, CreateProduct, UpdateProduct, DuplicateProduct, WriteProduct, RemoveProduct,
         LiveProducts, Products
<1>3. Undisturbed
  <2>1. CASE End(r, "refused") \/ End(r, "done")
    BY <2>1, EndingDisturbsNone
  <2>2. ASSUME NEW p \in Req, NEW code,
               Goto(r, "product", [op |-> "product", of |-> p, code |-> code])
        PROVE  Undisturbed
    <3>1. PICK j : j = [op |-> "product", of |-> p, code |-> code]
      OBVIOUS
    <3>2. j.op = "product" /\ Goto(r, "product", j)
      BY <2>2, <3>1
    <3> QED BY <3>2, ProductDisturbsNone
  <2> QED BY <1>2, <2>1, <2>2
<1> QED BY <1>1, <1>3, CatalogueAsItWas

(* The edits of the price groups.                                          *)
LEMMA GroupsCleared ==
  ASSUME Tagged, CatalogueInv, NEW r \in Req, CreatePriceGroup(r) PROVE CatalogueInv'
<1>1. /\ stage[r] = "new" /\ job[r].op = "none" /\ UNCHANGED <<group, listing, ladder, buyer>>
      /\ overlaid' = IF Doing("createGroup") # {} THEN overlaid \cup {"groups"} ELSE overlaid
  BY StageTells DEF CreatePriceGroup, Starts
<1>2. PICK d \in BOOLEAN :
        Goto(r, "group", [op |-> "createGroup", default |-> d,
                          clear |-> IF d THEN ClearDefaultGroups ELSE {}])
  BY DEF CreatePriceGroup
<1>3. PICK c : c = IF d THEN ClearDefaultGroups ELSE {}
  OBVIOUS
<1>4. c \subseteq Req /\ (d => c = DefaultGroups)
  BY <1>3 DEF ClearDefaultGroups, DefaultGroups, Groups
<1>5. PICK j : j = [op |-> "createGroup", default |-> d, clear |-> c]
  OBVIOUS
<1>6. j \in GroupEdit /\ j.default = d /\ j.clear = c /\ j.op = "createGroup"
  BY <1>4, <1>5 DEF GroupEdit
<1>7. \A q \in Req : /\ stage'[q] = IF q = r THEN "group" ELSE stage[q]
                     /\ job'[q] = IF q = r THEN j ELSE job[q]
  <2>1. Goto(r, "group", j)
    BY <1>2, <1>3, <1>5
  <2> QED BY <2>1, Then
<1>8. CatalogueTyped'
  <2>1. \A q \in Req : stage[q] # "new" => stage'[q] # "new"
    BY <1>7
  <2>2. TablesTyped'
    BY <1>1, <2>1, TablesRest DEF CatalogueInv
  <2>3. \A q \in Req : TypedJob(q)' \/ job'[q] = job[q]
    BY <1>6, <1>7 DEF TypedJob
  <2> QED BY <2>1, <2>2, <2>3, StaysTyped DEF CatalogueInv
<1>9. GroupsApart'
  <2> SUFFICES ASSUME "groups" \notin overlaid'
               PROVE  /\ AtMostOne(DefaultGroups)'
                      /\ \A p, q \in Doing("createGroup")' : p = q
                      /\ \A q \in Doing("createGroup")' :
                           job'[q].default => DefaultGroups' \subseteq job'[q].clear
    BY DEF GroupsApart
  <2>1. Doing("createGroup") = {} /\ "groups" \notin overlaid
    BY <1>1
  <2>2. \A q \in Doing("createGroup")' : q = r
    BY <1>7, <2>1 DEF Doing
  <2>3. DefaultGroups' = DefaultGroups
    BY <1>1 DEF DefaultGroups, Groups
  <2> QED BY <1>4, <1>6, <1>7, <2>1, <2>2, <2>3 DEF CatalogueInv, GroupsApart, AtMostOne
<1>10. EditsApart' /\ QuotesKept'
  <2>1. \A q \in Req : job'[q].op \in {"tiers", "order"} =>
                         job'[q] = job[q] /\ stage'[q] = stage[q]
    BY <1>6, <1>7
  <2>2. "tiers" \in overlaid => "tiers" \in overlaid'
    BY <1>1
  <2> QED BY <1>1, <2>1, <2>2, EditsRest, QuotesRest DEF CatalogueInv
<1> QED BY <1>8, <1>9, <1>10 DEF CatalogueInv

LEMMA GroupInserted ==
  ASSUME Tagged, CatalogueInv, NEW r \in Req, InsertPriceGroup(r) PROVE CatalogueInv'
<1>1. /\ r \in Doing("createGroup") /\ End(r, "done")
      /\ UNCHANGED <<listing, ladder, buyer, overlaid>>
  BY StageTells DEF InsertPriceGroup, CatalogueTag, Doing
<1>2. PICK d, c : d = job[r].default /\ c = job[r].clear
  OBVIOUS
<1>3. d \in BOOLEAN
  BY <1>1, <1>2 DEF CatalogueInv, CatalogueTyped, GroupEdit
<1>4. PICK on, off : on = [default |-> d] /\ off = [default |-> FALSE]
  OBVIOUS
<1>5. on \in GroupRow /\ off \in GroupRow /\ on.default = d /\ off.default = FALSE
  BY <1>3, <1>4 DEF GroupRow
<1>6. group' = [g \in Req |-> IF g = r THEN on
                             ELSE IF g \in c \cap Groups THEN off ELSE group[g]]
  BY <1>2, <1>4 DEF InsertPriceGroup
<1>7. ASSUME NEW g \in Req
      PROVE  group'[g] = IF g = r THEN on ELSE IF g \in c \cap Groups THEN off ELSE group[g]
  BY <1>6
<1>8. group' \in [Req -> GroupRow \cup {None}]
  <2>1. \A g \in Req : group'[g] \in GroupRow \cup {None}
    BY <1>5, <1>7 DEF CatalogueInv, CatalogueTyped
  <2>2. group' = [g \in Req |-> group'[g]]
    BY <1>6
  <2> QED BY <2>1, <2>2
<1>9. ASSUME NEW g \in DefaultGroups' PROVE (g = r /\ d) \/ (g \in DefaultGroups /\ g \notin c)
  <2>1. g \in Req /\ group'[g] # None /\ group'[g].default
    BY DEF DefaultGroups, Groups
  <2>2. CASE g = r
    BY <1>5, <1>7, <2>1, <2>2
  <2>3. CASE g # r
    <3>1. g \notin c \cap Groups
      BY <1>5, <1>7, <2>1, <2>3
    <3>2. group'[g] = group[g]
      BY <1>7, <2>1, <2>3, <3>1
    <3> QED BY <2>1, <3>1, <3>2 DEF DefaultGroups, Groups
  <2> QED BY <2>2, <2>3
<1>10. \A q \in Req : /\ stage'[q] = IF q = r THEN "done" ELSE stage[q]
                      /\ job'[q] = IF q = r THEN Idle ELSE job[q]
  BY <1>1, ThenEnds
<1>11. Undisturbed
  BY <1>1, EndingDisturbsNone
<1>12. CatalogueTyped'
  <2>1. TablesTyped'
    <3>1. listing # None /\ listing.by # None => listing.by \in Req
      BY DEF CatalogueInv, CatalogueTyped, ListingRow
    <3> QED BY <1>1, <1>8, <1>11, <3>1 DEF TablesTyped, CatalogueInv, CatalogueTyped, Undisturbed
  <2>2. \A q \in Req : TypedJob(q)' \/ job'[q] = job[q]
    BY <1>11 DEF Undisturbed, Editors, TypedJob
  <2> QED BY <1>11, <2>1, <2>2, StaysTyped DEF CatalogueInv, Undisturbed
<1>13. GroupsApart'
  <2> SUFFICES ASSUME "groups" \notin overlaid'
               PROVE  AtMostOne(DefaultGroups)' /\ Doing("createGroup")' = {}
    BY DEF GroupsApart
  <2>1. /\ AtMostOne(DefaultGroups) /\ \A p, q \in Doing("createGroup") : p = q
        /\ d => DefaultGroups \subseteq c
    BY <1>1, <1>2 DEF CatalogueInv, GroupsApart
  <2>2. Doing("createGroup")' = {}
    <3>1. \A q \in Req : job'[q].op = "createGroup" => q # r /\ q \in Doing("createGroup")
      BY <1>10, IdleIsNone DEF Doing
    <3>2. \A q \in Doing("createGroup") : q = r
      BY <1>1, <2>1
    <3> QED BY <3>1, <3>2 DEF Doing
  <2>3. AtMostOne(DefaultGroups)'
    BY <1>9, <2>1 DEF AtMostOne
  <2> QED BY <2>2, <2>3
<1>14. EditsApart' /\ QuotesKept'
  <2>1. \A q \in Req : job'[q].op \in {"tiers", "order"} =>
                         job'[q] = job[q] /\ stage'[q] = stage[q]
    BY <1>11 DEF Undisturbed, Editors
  <2> QED BY <1>1, <2>1, EditsRest, QuotesRest DEF CatalogueInv
<1> QED BY <1>12, <1>13, <1>14 DEF CatalogueInv

LEMMA GroupDeleted ==
  ASSUME Tagged, CatalogueInv, NEW r \in Req, DeletePriceGroup(r) PROVE CatalogueInv'
<1>1. PICK g \in Groups :
        /\ group' = [group EXCEPT ![g] = None]
        /\ ladder' = {t \in ladder : t.group # g}
        /\ buyer' = IF buyer = None \/ buyer # [group |-> g] THEN buyer ELSE [group |-> NoGroup]
  BY DEF DeletePriceGroup
<1>2. UNCHANGED <<listing, overlaid>> /\ Undisturbed
  BY EndingDisturbsNone DEF DeletePriceGroup
<1>3. ladder' \subseteq ladder
  BY <1>1
<1>4. group' \in [Req -> GroupRow \cup {None}]
  BY <1>1 DEF CatalogueInv, CatalogueTyped
<1>5. buyer' \in BuyerRow \cup {None}
  <2>1. [group |-> NoGroup] \in BuyerRow
    BY DEF BuyerRow
  <2> QED BY <1>1, <2>1 DEF CatalogueInv, CatalogueTyped
<1>6. TablesTyped'
  <2>1. listing # None /\ listing.by # None => listing.by \in Req
    BY DEF CatalogueInv, CatalogueTyped, ListingRow
  <2> QED BY <1>2, <1>3, <1>4, <1>5, <2>1 DEF TablesTyped, CatalogueInv, CatalogueTyped,
                                              Undisturbed
<1>7. DefaultGroups' \subseteq DefaultGroups
  <2>1. ASSUME NEW h \in DefaultGroups' PROVE h \in DefaultGroups
    <3>1. h \in Req /\ group'[h] # None /\ group'[h].default
      BY DEF DefaultGroups, Groups
    <3>2. h # g /\ group'[h] = group[h]
      BY <1>1, <3>1 DEF CatalogueInv, CatalogueTyped
    <3> QED BY <3>1, <3>2 DEF DefaultGroups, Groups
  <2> QED BY <2>1
<1> QED BY <1>2, <1>3, <1>6, <1>7, CatalogueRests

-----------------------------------------------------------------------------
(* The edits of the ladder.                                                *)
LEMMA LaddersAreOneEdit ==
  ASSUME NEW r \in Req, NEW ts \in Ladders(r) PROVE ts \subseteq Tier /\ OneEdit(ts)
<1>1. ASSUME NEW t \in ts PROVE t \in Tier /\ t.by = r
  <2>1. PICK g \in Groups \cup {NoGroup}, s \in Step :
          t = [group |-> g, min |-> s.min, price |-> s.price, by |-> r]
    BY DEF Ladders
  <2>2. s.min \in Nat /\ s.price \in Nat /\ g \in Req \cup {NoGroup}
    BY CatalogueAssumption DEF Groups
  <2> QED BY <2>1, <2>2 DEF Tier
<1>2. \A t, u \in ts : t.group = u.group /\ t.min = u.min => t = u
  BY DEF Ladders
<1> QED BY <1>1, <1>2 DEF OneEdit

LEMMA EditBegun ==
  ASSUME Tagged, CatalogueInv, NEW r \in Req, ReplaceTiers(r) PROVE CatalogueInv'
<1>1. /\ stage[r] = "new" /\ listing # None /\ UNCHANGED <<group, listing, ladder, buyer>>
      /\ overlaid' = IF Doing("tiers") # {} THEN overlaid \cup {"tiers"} ELSE overlaid
  BY DEF ReplaceTiers, Starts
<1>2. PICK ts \in Ladders(r) :
        Goto(r, "delete", [op |-> "tiers", of |-> listing.by, new |-> ts, old |-> {}])
  BY DEF ReplaceTiers
<1>3. PICK b : b = listing.by /\ b \in Req \cup {None} /\ (b # None => stage[b] # "new")
  BY <1>1 DEF CatalogueInv, CatalogueTyped, ListingRow
<1>4. PICK j : j = [op |-> "tiers", of |-> b, new |-> ts, old |-> {}]
  OBVIOUS
<1>5. j \in TierEdit /\ j.of = b /\ j.new = ts /\ j.op = "tiers" /\ OneEdit(ts)
  BY <1>3, <1>4, LaddersAreOneEdit DEF TierEdit
<1>6. \A q \in Req : /\ stage'[q] = IF q = r THEN "delete" ELSE stage[q]
                     /\ job'[q] = IF q = r THEN j ELSE job[q]
  <2>1. Goto(r, "delete", j)
    BY <1>2, <1>3, <1>4
  <2> QED BY <2>1, Then
<1>7. CatalogueTyped'
  <2>1. \A q \in Req : stage[q] # "new" => stage'[q] # "new"
    BY <1>6
  <2>2. TablesTyped'
    BY <1>1, <2>1, TablesRest DEF CatalogueInv
  <2>3. TypedJob(r)'
    BY <1>3, <1>5, <1>6, <2>1 DEF TypedJob
  <2>4. \A q \in Req : TypedJob(q)' \/ job'[q] = job[q]
    BY <1>6, <2>3
  <2> QED BY <2>1, <2>2, <2>4, StaysTyped DEF CatalogueInv
<1>8. EditsApart'
  <2> SUFFICES ASSUME "tiers" \notin overlaid'
               PROVE  /\ OneEdit(ladder)'
                      /\ \A p, q \in Doing("tiers")' : p = q
                      /\ \A q \in Doing("tiers")' : OneEdit(job[q].new)' /\ ~Emptied(q)'
    BY DEF EditsApart
  <2>1. Doing("tiers") = {} /\ "tiers" \notin overlaid
    BY <1>1
  <2>2. \A q \in Doing("tiers")' : q = r
    BY <1>6, <2>1 DEF Doing
  <2>3. OneEdit(ladder)'
    BY <1>1, <2>1 DEF CatalogueInv, EditsApart, OneEdit
  <2>4. OneEdit(job[r].new)' /\ ~Emptied(r)'
    BY <1>5, <1>6 DEF OneEdit, Emptied
  <2> QED BY <2>2, <2>3, <2>4
<1>9. GroupsApart' /\ QuotesKept'
  <2>1. \A q \in Req : job'[q].op \in {"createGroup", "order"} =>
                         job'[q] = job[q] /\ stage'[q] = stage[q]
    BY <1>5, <1>6
  <2>2. \A g \in {"groups", "tiers"} : g \in overlaid => g \in overlaid'
    BY <1>1
  <2>3. DefaultGroups' = DefaultGroups
    BY <1>1 DEF DefaultGroups, Groups
  <2> QED BY <2>1, <2>2, <2>3, GroupsRest, QuotesRest DEF CatalogueInv
<1> QED BY <1>7, <1>8, <1>9 DEF CatalogueInv

LEMMA LadderEmptied ==
  ASSUME Tagged, CatalogueInv, NEW r \in Req, DeleteTiers(r) PROVE CatalogueInv'
<1>1. r \in Doing("tiers") /\ UNCHANGED <<group, listing, ladder, buyer, overlaid>>
  BY StageTells DEF DeleteTiers, CatalogueTag, Doing, catalogueVars
<1>2. PICK l : l = ladder /\ l \subseteq Tier
  BY DEF CatalogueInv, CatalogueTyped
<1>3. PICK j : j = [job[r] EXCEPT !.old = l]
  OBVIOUS
<1>4. job[r] \in TierEdit /\ (job[r].of # None => stage[job[r].of] # "new")
  BY <1>1 DEF CatalogueInv, CatalogueTyped
<1>5. /\ j \in TierEdit /\ j.of = job[r].of /\ j.new = job[r].new /\ j.old = l
      /\ j.op = "tiers" /\ (j.of # None => j.of \in Req)
  BY <1>2, <1>3, <1>4 DEF TierEdit
<1>6. \A q \in Req : /\ stage'[q] = IF q = r THEN "tiers" ELSE stage[q]
                     /\ job'[q] = IF q = r THEN j ELSE job[q]
  <2>1. Goto(r, "tiers", j)
    BY <1>2, <1>3 DEF DeleteTiers, AllSteps
  <2> QED BY <2>1, Then
<1>7. CatalogueTyped'
  <2>1. \A q \in Req : stage[q] # "new" => stage'[q] # "new"
    BY <1>6
  <2>2. TablesTyped'
    BY <1>1, <2>1, TablesRest DEF CatalogueInv
  <2>3. TypedJob(r)'
    BY <1>4, <1>5, <1>6, <2>1 DEF TypedJob
  <2>4. \A q \in Req : TypedJob(q)' \/ job'[q] = job[q]
    BY <1>6, <2>3
  <2> QED BY <2>1, <2>2, <2>4, StaysTyped DEF CatalogueInv
<1>8. EditsApart'
  <2> SUFFICES ASSUME "tiers" \notin overlaid'
               PROVE  /\ OneEdit(ladder)'
                      /\ \A p, q \in Doing("tiers")' : p = q
                      /\ \A q \in Doing("tiers")' :
                           OneEdit(job[q].new)' /\ ladder' \subseteq job'[q].old
    BY DEF EditsApart
  <2>1. \A q \in Doing("tiers")' : q \in Doing("tiers")
    BY <1>1, <1>6 DEF Doing
  <2>2. /\ OneEdit(ladder) /\ \A p, q \in Doing("tiers") : p = q
        /\ OneEdit(job[r].new)
    BY <1>1 DEF CatalogueInv, EditsApart
  <2>3. \A q \in Doing("tiers")' : q = r
    BY <1>1, <2>1, <2>2
  <2>4. OneEdit(ladder)' /\ OneEdit(job[r].new)' /\ ladder' \subseteq job'[r].old
    BY <1>1, <1>2, <1>5, <1>6, <2>2 DEF OneEdit
  <2> QED BY <2>3, <2>4
<1>9. GroupsApart' /\ QuotesKept'
  <2>1. \A q \in Req : job'[q].op \in {"createGroup", "order"} =>
                         job'[q] = job[q] /\ stage'[q] = stage[q]
    BY <1>5, <1>6
  <2>2. DefaultGroups' = DefaultGroups
    BY <1>1 DEF DefaultGroups, Groups
  <2> QED BY <1>1, <2>1, <2>2, GroupsRest, QuotesRest DEF CatalogueInv
<1> QED BY <1>7, <1>8, <1>9 DEF CatalogueInv

LEMMA TiersInserted ==
  ASSUME Tagged, CatalogueInv, NEW r \in Req, InsertTiers(r) PROVE CatalogueInv'
<1>1. /\ r \in Doing("tiers") /\ stage[r] = "tiers"
      /\ UNCHANGED <<group, listing, buyer, overlaid>>
  BY StageTells DEF InsertTiers, CatalogueTag, Doing
<1>2. PICK old, new : old = job[r].old /\ new = job[r].new
  OBVIOUS
<1>3. new \subseteq Tier
  BY <1>1, <1>2 DEF CatalogueInv, CatalogueTyped, TierEdit
<1>4. \/ End(r, "refused") /\ UNCHANGED ladder
      \/ /\ End(r, "done") /\ ladder' = (ladder \ old) \cup new
         /\ listing # None /\ listing.by = job[r].of
  BY <1>2 DEF InsertTiers
<1>5. CASE End(r, "refused") /\ UNCHANGED ladder
  BY <1>1, <1>5, EndingDisturbsNone, CatalogueAsItWas
<1>6. CASE /\ End(r, "done") /\ ladder' = (ladder \ old) \cup new
           /\ listing # None /\ listing.by = job[r].of
  <2>1. Undisturbed
    BY <1>6, EndingDisturbsNone
  <2>2. \A q \in Req : /\ stage'[q] = IF q = r THEN "done" ELSE stage[q]
                       /\ job'[q] = IF q = r THEN Idle ELSE job[q]
    BY <1>6, ThenEnds
  <2>3. CatalogueTyped'
    <3>1. listing # None /\ listing.by # None => listing.by \in Req
      BY DEF CatalogueInv, CatalogueTyped, ListingRow
    <3>2. TablesTyped'
      BY <1>1, <1>3, <1>6, <2>1, <3>1 DEF TablesTyped, CatalogueInv, CatalogueTyped, Undisturbed
    <3>3. \A q \in Req : TypedJob(q)' \/ job'[q] = job[q]
      BY <2>1 DEF Undisturbed, Editors, TypedJob
    <3> QED BY <2>1, <3>2, <3>3, StaysTyped DEF CatalogueInv, Undisturbed
  <2>4. EditsApart'
    <3> SUFFICES ASSUME "tiers" \notin overlaid'
                 PROVE  OneEdit(ladder)' /\ Doing("tiers")' = {}
      BY DEF EditsApart
    <3>1. /\ \A p, q \in Doing("tiers") : p = q
          /\ OneEdit(new) /\ ladder \subseteq old
      BY <1>1, <1>2, <1>6 DEF CatalogueInv, EditsApart, Emptied
    <3>2. ladder' = new
      BY <1>6, <3>1
    <3>3. Doing("tiers")' = {}
      <4>1. \A q \in Req : job'[q].op = "tiers" => q # r /\ q \in Doing("tiers")
        BY <2>2, IdleIsNone DEF Doing
      <4>2. \A q \in Doing("tiers") : q = r
        BY <1>1, <3>1
      <4> QED BY <4>1, <4>2 DEF Doing
    <3> QED BY <3>1, <3>2, <3>3 DEF OneEdit
  <2>5. GroupsApart' /\ QuotesKept'
    <3>1. \A q \in Req : job'[q].op \in {"createGroup", "order"} =>
                           job'[q] = job[q] /\ stage'[q] = stage[q]
      BY <2>1 DEF Undisturbed, Editors
    <3>2. DefaultGroups' = DefaultGroups
      BY <1>1 DEF DefaultGroups, Groups
    <3> QED BY <1>1, <3>1, <3>2, GroupsRest, QuotesRest DEF CatalogueInv
  <2> QED BY <2>3, <2>4, <2>5 DEF CatalogueInv
<1> QED BY <1>4, <1>5, <1>6

-----------------------------------------------------------------------------
(* The listing, and the buyer who orders.                                  *)
LEMMA ListingChanged ==
  ASSUME Tagged, CatalogueInv, NEW r \in Req, UpdateListing(r) \/ DeleteListing(r)
  PROVE  CatalogueInv'
<1>1. /\ listing # None /\ UNCHANGED <<group, buyer, overlaid>> /\ Undisturbed
      /\ ladder' \subseteq ladder
  BY EndingDisturbsNone DEF UpdateListing, DeleteListing
<1>2. listing' = None \/ (listing' \in ListingRow /\ listing'.by = listing.by)
  <2>1. CASE UpdateListing(r)
    <3>1. PICK p \in Price, a \in BOOLEAN : listing' = [listing EXCEPT !.price = p, !.active = a]
      BY <2>1 DEF UpdateListing
    <3>2. listing \in ListingRow /\ p \in Nat
      BY <1>1, CatalogueAssumption DEF CatalogueInv, CatalogueTyped
    <3> QED BY <3>1, <3>2 DEF ListingRow
  <2>2. CASE DeleteListing(r)
    BY <2>2 DEF DeleteListing
  <2> QED BY <2>1, <2>2
<1>3. TablesTyped'
  <2>1. listing # None /\ listing.by # None => listing.by \in Req
    BY DEF CatalogueInv, CatalogueTyped, ListingRow
  <2> QED BY <1>1, <1>2, <2>1 DEF TablesTyped, CatalogueInv, CatalogueTyped, Undisturbed
<1>4. DefaultGroups' = DefaultGroups
  BY <1>1 DEF DefaultGroups, Groups
<1> QED BY <1>1, <1>2, <1>3, <1>4, CatalogueRests

LEMMA ListingCreated ==
  ASSUME Tagged, CatalogueInv, NEW r \in Req, CreateListing(r) PROVE CatalogueInv'
<1>1. /\ stage[r] = "new" /\ UNCHANGED <<group, buyer, overlaid>> /\ Undisturbed
      /\ End(r, "done")
  BY EndingDisturbsNone DEF CreateListing, Starts
<1>2. PICK p \in Price, ts \in Ladders(r) :
        listing' = [by |-> r, price |-> p, active |-> TRUE] /\ ladder' = ts
  BY DEF CreateListing
<1>3. listing' \in ListingRow /\ listing'.by = r
  <2>1. p \in Nat
    BY CatalogueAssumption
  <2> QED BY <1>2, <2>1 DEF ListingRow
<1>4. ladder' \subseteq Tier /\ OneEdit(ladder)'
  <2>1. ts \subseteq Tier /\ OneEdit(ts)
    BY LaddersAreOneEdit
  <2> QED BY <1>2, <2>1 DEF OneEdit
<1>5. stage'[r] # "new"
  BY <1>1, ThenEnds
<1>6. CatalogueTyped'
  <2>1. TablesTyped'
    BY <1>1, <1>3, <1>4, <1>5 DEF TablesTyped, CatalogueInv, CatalogueTyped
  <2>2. \A q \in Req : TypedJob(q)' \/ job'[q] = job[q]
    BY <1>1 DEF Undisturbed, Editors, TypedJob
  <2> QED BY <1>1, <2>1, <2>2, StaysTyped DEF CatalogueInv, Undisturbed
<1>7. EditsApart'
  <2> SUFFICES ASSUME "tiers" \notin overlaid'
               PROVE  /\ \A p1, q \in Doing("tiers")' : p1 = q
                      /\ \A q \in Doing("tiers")' : OneEdit(job[q].new)' /\ ~Emptied(q)'
    BY <1>4 DEF EditsApart
  <2>1. \A q \in Doing("tiers")' : q \in Doing("tiers") /\ job'[q] = job[q]
    BY <1>1 DEF Doing, Undisturbed, Editors
  <2>2. ASSUME NEW q \in Doing("tiers")' PROVE OneEdit(job[q].new)' /\ ~Emptied(q)'
    <3>1. /\ OneEdit(job[q].new) /\ job[q] \in TierEdit
          /\ job[q].of # None => stage[job[q].of] # "new"
      BY <1>1, <2>1 DEF CatalogueInv, EditsApart, CatalogueTyped
    <3>2. job[q].of # r
      BY <1>1, <3>1, NoneAssumption
    <3> QED BY <1>3, <2>1, <3>1, <3>2 DEF Emptied, OneEdit
  <2> QED BY <1>1, <2>1, <2>2 DEF CatalogueInv, EditsApart
<1>8. GroupsApart' /\ QuotesKept'
  <2>1. \A q \in Req : job'[q].op \in {"createGroup", "order"} =>
                         job'[q] = job[q] /\ stage'[q] = stage[q]
    BY <1>1 DEF Undisturbed, Editors
  <2>2. DefaultGroups' = DefaultGroups
    BY <1>1 DEF DefaultGroups, Groups
  <2> QED BY <1>1, <2>1, <2>2, GroupsRest, QuotesRest DEF CatalogueInv
<1> QED BY <1>6, <1>7, <1>8 DEF CatalogueInv

(* A statement of an order: r goes on with what it knows now.              *)
LEMMA OrderGoesOn ==
  ASSUME CatalogueInv, NEW r \in Req, NEW s, s # "new", NEW j \in Order,
         \A q \in Req : /\ stage'[q] = IF q = r THEN s ELSE stage[q]
                        /\ job'[q] = IF q = r THEN j ELSE job[q],
         UNCHANGED <<group, listing, ladder, overlaid>>, buyer' \in BuyerRow \cup {None},
         "tiers" \notin overlaid =>
           /\ OneEdit(j.ladder)
           /\ j.asQuoted \/ s = "listings" =>
                \/ j.quoted \in UnitPrices(j.listing.price, j.ladder, j.group, j.qty)
                \/ s = "price"
                   /\ j.quoted \in UnitPrices(j.listing.price, j.ladder, NoGroup, j.qty)
  PROVE  CatalogueInv'
<1>1. j.op = "order"
  BY DEF Order
<1>2. \A q \in Req : stage[q] # "new" => stage'[q] # "new"
  OBVIOUS
<1>3. CatalogueTyped'
  <2>1. listing # None /\ listing.by # None => listing.by \in Req
    BY DEF CatalogueInv, CatalogueTyped, ListingRow
  <2>2. TablesTyped'
    BY <1>2, <2>1 DEF TablesTyped, CatalogueInv, CatalogueTyped
  <2>3. \A q \in Req : TypedJob(q)' \/ job'[q] = job[q]
    BY <1>1 DEF TypedJob
  <2> QED BY <1>2, <2>2, <2>3, StaysTyped DEF CatalogueInv
<1>4. GroupsApart' /\ EditsApart'
  <2>1. \A q \in Req : job'[q].op \in {"createGroup", "tiers"} =>
                         job'[q] = job[q] /\ stage'[q] = stage[q]
    BY <1>1
  <2>2. DefaultGroups' = DefaultGroups
    BY DEF DefaultGroups, Groups
  <2> QED BY <2>1, <2>2, GroupsRest, EditsRest DEF CatalogueInv
<1>5. ASSUME "tiers" \notin overlaid, NEW q \in Doing("order")'
      PROVE  /\ OneEdit(job[q].ladder)'
             /\ job'[q].asQuoted \/ stage'[q] = "listings" =>
                  \/ Quoted(q, job[q].group)'
                  \/ stage'[q] = "price" /\ Quoted(q, NoGroup)'
  <2>1. PICK k, t : k = job'[q] /\ t = stage'[q]
    OBVIOUS
  <2>2. q \in Req /\ k.op = "order"
    BY <2>1 DEF Doing
  <2>3. /\ OneEdit(k.ladder)
        /\ k.asQuoted \/ t = "listings" =>
             \/ k.quoted \in UnitPrices(k.listing.price, k.ladder, k.group, k.qty)
             \/ t = "price"
                /\ k.quoted \in UnitPrices(k.listing.price, k.ladder, NoGroup, k.qty)
    <3>1. CASE q = r
      <4>1. k = j /\ t = s
        BY <2>1, <2>2, <3>1
      <4> QED BY <1>5, <4>1
    <3>2. CASE q # r
      <4>1. k = job[q] /\ t = stage[q] /\ q \in Doing("order")
        BY <2>1, <2>2, <3>2 DEF Doing
      <4> QED BY <1>5, <4>1 DEF CatalogueInv, QuotesKept, Quoted
    <3> QED BY <3>1, <3>2
  <2> QED BY <2>1, <2>3 DEF Quoted, OneEdit
<1>6. QuotesKept'
  BY <1>5 DEF QuotesKept
<1> QED BY <1>3, <1>4, <1>6 DEF CatalogueInv

(* A unit price is the best step's of a scope that has one, and no dearer  *)
(* than the other's.                                                       *)
LEMMA UnitPriceIs ==
  ASSUME NEW price \in Nat, NEW tiers \in SUBSET Tier, NEW g, NEW qty,
         NEW p \in UnitPrices(price, tiers, g, qty)
  PROVE  /\ p \in Nat
         /\ \/ p = price /\ Best(tiers, g, qty) = {} /\ Best(tiers, NoGroup, qty) = {}
            \/ \E s \in {g, NoGroup} : \E t \in Best(tiers, s, qty) : p = t.price
         /\ \A s \in {g, NoGroup} :
              Best(tiers, s, qty) # {} => \E t \in Best(tiers, s, qty) : p <= t.price
<1>1. PICK X : X = Scopes(tiers, g, qty)
  OBVIOUS
<1>2. X \subseteq {g, NoGroup} /\ \A s \in {g, NoGroup} : s \in X <=> Best(tiers, s, qty) # {}
  BY <1>1 DEF Scopes
<1>3. CASE X = {}
  <2>1. p = price
    BY <1>1, <1>3 DEF UnitPrices
  <2> QED BY <1>2, <1>3, <2>1
<1>4. CASE X # {}
  <2>1. PICK f \in [X -> tiers] : /\ \A s \in X : f[s] \in Best(tiers, s, qty)
                                 /\ p = Min({f[s].price : s \in X})
    BY <1>1, <1>4 DEF UnitPrices
  <2>2. PICK P : P = {f[s].price : s \in X}
    OBVIOUS
  <2>3. \A s \in X : f[s].price \in Nat /\ f[s].price \in P
    BY <2>1, <2>2 DEF Tier
  <2>4. PICK a \in Nat, b \in Nat : P \subseteq {a, b} /\ P # {}
    <3>1. CASE X = {g, NoGroup}
      BY <2>2, <2>3, <3>1
    <3>2. CASE \E s \in X : X = {s}
      BY <2>2, <2>3, <3>2
    <3> QED BY <1>2, <1>4, <3>1, <3>2
  <2>5. p \in P /\ \A x \in P : p <= x
    BY <2>1, <2>2, <2>4, LeastOfTwo
  <2>6. \E s \in X : p = f[s].price
    BY <2>2, <2>5
  <2>7. \A s \in X : p <= f[s].price
    BY <2>3, <2>5
  <2> QED BY <1>2, <2>1, <2>3, <2>6, <2>7
<1> QED BY <1>3, <1>4

LEMMA BestIsOne ==
  ASSUME NEW tiers \in SUBSET Tier, OneEdit(tiers), NEW s, NEW qty,
         NEW t \in Best(tiers, s, qty), NEW u \in Best(tiers, s, qty)
  PROVE  t = u
<1>1. t \in tiers /\ u \in tiers /\ t.group = u.group
  BY DEF Best, Reached
<1>2. t.min =< u.min /\ u.min =< t.min
  BY DEF Best
<1>3. t.min \in Nat /\ u.min \in Nat
  BY <1>1 DEF Tier
<1> QED BY <1>1, <1>2, <1>3 DEF OneEdit

(* Priced anew, an order of a discounted ladder is no dearer than it was   *)
(* quoted: for the same group, or for the public before.                   *)
LEMMA NeverDearer ==
  ASSUME NEW price \in Nat, NEW tiers \in SUBSET Tier, OneEdit(tiers), NEW g, NEW qty,
         \A t \in tiers : t.price =< price,
         NEW g0 \in {g, NoGroup}, NEW q0 \in UnitPrices(price, tiers, g0, qty),
         NEW p \in UnitPrices(price, tiers, g, qty)
  PROVE  p =< q0
<1>1. p \in Nat /\ q0 \in Nat
  BY UnitPriceIs
<1>2. \/ q0 = price /\ Best(tiers, g0, qty) = {} /\ Best(tiers, NoGroup, qty) = {}
      \/ \E s \in {g0, NoGroup} : \E t \in Best(tiers, s, qty) : q0 = t.price
  BY UnitPriceIs
<1>3. p <= price
  <2>1. \/ p = price
        \/ \E s \in {g, NoGroup} : \E t \in Best(tiers, s, qty) : p = t.price
    BY UnitPriceIs
  <2>2. \A s : Best(tiers, s, qty) \subseteq tiers
    BY DEF Best, Reached
  <2> QED BY <1>1, <2>1, <2>2
<1>4. CASE q0 = price
  BY <1>3, <1>4
<1>5. CASE \E s \in {g0, NoGroup} : \E t \in Best(tiers, s, qty) : q0 = t.price
  <2>1. PICK s \in {g, NoGroup} : \E t \in Best(tiers, s, qty) : q0 = t.price
    BY <1>5
  <2>2. PICK t \in Best(tiers, s, qty) : q0 = t.price
    BY <2>1
  <2>3. \A s1 \in {g, NoGroup} :
          Best(tiers, s1, qty) # {} => \E u \in Best(tiers, s1, qty) : p <= u.price
    BY UnitPriceIs
  <2>4. PICK u \in Best(tiers, s, qty) : p <= u.price
    BY <2>2, <2>3
  <2>5. t = u
    BY BestIsOne
  <2> QED BY <2>2, <2>4, <2>5
<1> QED BY <1>2, <1>4, <1>5

LEMMA CatalogSeen ==
  ASSUME Tagged, CatalogueInv, NEW r \in Req, Catalog(r) PROVE CatalogueInv'
<1>1. UNCHANGED <<group, listing, ladder, buyer, overlaid>> /\ listing # None
  BY DEF Catalog, catalogueVars
<1>2. PICK l, ts, g : l = listing /\ ts = ladder /\ g = GroupOfBuyer
  OBVIOUS
<1>3. l \in ListingRow /\ l.price \in Nat /\ ts \in SUBSET Tier /\ g \in Req \cup {NoGroup}
  BY <1>1, <1>2 DEF CatalogueInv, CatalogueTyped, ListingRow, GroupOfBuyer, BuyerRow
<1>4. PICK qty \in Quantity : \E p \in UnitPrices(l.price, ts, g, qty) :
        Goto(r, "listings", [op |-> "order", qty |-> qty, quoted |-> p,
                             listing |-> l, ladder |-> ts, asQuoted |-> TRUE, group |-> g])
  BY <1>2 DEF Catalog
<1>5. PICK p \in UnitPrices(l.price, ts, g, qty) :
        Goto(r, "listings", [op |-> "order", qty |-> qty, quoted |-> p,
                             listing |-> l, ladder |-> ts, asQuoted |-> TRUE, group |-> g])
  BY <1>4
<1>6. p \in Nat /\ qty \in Nat
  BY <1>3, UnitPriceIs, CatalogueAssumption
<1>7. PICK j : j = [op |-> "order", qty |-> qty, quoted |-> p,
                    listing |-> l, ladder |-> ts, asQuoted |-> TRUE, group |-> g]
  OBVIOUS
<1>8. j \in Order
  BY <1>3, <1>6, <1>7 DEF Order
<1>9. j.listing = l /\ j.ladder = ts /\ j.quoted = p /\ j.group = g /\ j.qty = qty
  BY <1>7
<1>10. \A q \in Req : /\ stage'[q] = IF q = r THEN "listings" ELSE stage[q]
                      /\ job'[q] = IF q = r THEN j ELSE job[q]
  BY <1>5, <1>7, Then
<1>11. "tiers" \notin overlaid => OneEdit(ts)
  BY <1>2 DEF CatalogueInv, EditsApart
<1>12. buyer' \in BuyerRow \cup {None}
  BY <1>1 DEF CatalogueInv, CatalogueTyped
<1> QED BY <1>1, <1>5, <1>8, <1>9, <1>10, <1>11, <1>12, OrderGoesOn

LEMMA OrderIs ==
  ASSUME CatalogueInv, NEW r \in Doing("order")
  PROVE  /\ job[r] \in Order
         /\ "tiers" \notin overlaid =>
              /\ OneEdit(job[r].ladder)
              /\ job[r].asQuoted => Quoted(r, job[r].group) \/ Quoted(r, NoGroup)
              /\ job[r].asQuoted /\ stage[r] # "price" => Quoted(r, job[r].group)
              /\ stage[r] = "listings" => Quoted(r, job[r].group)
  BY DEF CatalogueInv, CatalogueTyped, QuotesKept

LEMMA ListingsFound ==
  ASSUME Tagged, CatalogueInv, NEW r \in Req, FindListings(r) PROVE CatalogueInv'
<1>1. /\ r \in Doing("order") /\ UNCHANGED <<group, listing, ladder, buyer, overlaid>>
      /\ stage[r] = "listings"
  BY StageTells DEF FindListings, CatalogueTag, Doing, catalogueVars
<1>2. CASE End(r, "refused")
  BY <1>1, <1>2, EndingDisturbsNone, CatalogueAsItWas
<1>3. CASE ~End(r, "refused")
  <2>1. PICK k, l, ts, same : k = job[r] /\ l = listing /\ ts = ladder
          /\ same = (k.listing = l /\ k.ladder = ts)
    OBVIOUS
  <2>2. PICK j : j = [k EXCEPT !.listing = l, !.ladder = ts, !.asQuoted = same]
    OBVIOUS
  <2>3. listing # None /\ Goto(r, "customer", j)
    BY <1>3, <2>1, <2>2 DEF FindListings
  <2>4. l \in ListingRow /\ ts \in SUBSET Tier /\ same \in BOOLEAN /\ k \in Order
    BY <1>1, <2>1, <2>3, OrderIs DEF CatalogueInv, CatalogueTyped
  <2>5. /\ j \in Order /\ j.listing = l /\ j.ladder = ts /\ j.quoted = k.quoted
        /\ j.group = k.group /\ j.qty = k.qty
    BY <2>2, <2>4 DEF Order
  <2>6. j.asQuoted = same
    BY <2>2, <2>4 DEF Order
  <2>7. \A q \in Req : /\ stage'[q] = IF q = r THEN "customer" ELSE stage[q]
                       /\ job'[q] = IF q = r THEN j ELSE job[q]
    BY <2>3, Then
  <2>8. ASSUME "tiers" \notin overlaid
        PROVE  /\ OneEdit(ts)
               /\ same => k.quoted \in UnitPrices(l.price, ts, k.group, k.qty)
    <3>1. OneEdit(ts)
      BY <2>1, <2>8 DEF CatalogueInv, EditsApart
    <3>2. same => k.listing = l /\ k.ladder = ts
      BY <2>1
    <3>3. k.quoted \in UnitPrices(k.listing.price, k.ladder, k.group, k.qty)
      BY <1>1, <2>1, <2>8, OrderIs DEF Quoted
    <3> QED BY <3>1, <3>2, <3>3
  <2>9. buyer' \in BuyerRow \cup {None}
    BY <1>1 DEF CatalogueInv, CatalogueTyped
  <2> QED BY <1>1, <2>5, <2>6, <2>7, <2>8, <2>9, OrderGoesOn
<1> QED BY <1>2, <1>3

LEMMA CustomerEnsured ==
  ASSUME Tagged, CatalogueInv, NEW r \in Req, EnsureCustomer(r) PROVE CatalogueInv'
<1>1. /\ r \in Doing("order") /\ UNCHANGED <<group, listing, ladder, overlaid>>
      /\ stage[r] = "customer"
  BY StageTells DEF EnsureCustomer, CatalogueTag, Doing
<1>2. buyer' \in BuyerRow
  <2>1. PICK g \in (IF DefaultGroups = {} THEN {NoGroup} ELSE DefaultGroups) :
          buyer' = IF buyer = None THEN [group |-> g] ELSE buyer
    BY DEF EnsureCustomer
  <2>2. g \in Req \cup {NoGroup}
    BY <2>1 DEF DefaultGroups, Groups
  <2>3. [group |-> g] \in BuyerRow
    BY <2>2 DEF BuyerRow
  <2> QED BY <2>1, <2>3 DEF CatalogueInv, CatalogueTyped
<1>3. CASE End(r, "refused")
  <2>1. Undisturbed
    BY <1>3, EndingDisturbsNone
  <2>2. TablesTyped'
    <3>1. listing # None /\ listing.by # None => listing.by \in Req
      BY DEF CatalogueInv, CatalogueTyped, ListingRow
    <3> QED BY <1>1, <1>2, <2>1, <3>1 DEF TablesTyped, CatalogueInv, CatalogueTyped, Undisturbed
  <2>3. DefaultGroups' = DefaultGroups
    BY <1>1 DEF DefaultGroups, Groups
  <2> QED BY <1>1, <2>1, <2>2, <2>3, CatalogueRests
<1>4. CASE ~End(r, "refused")
  <2>1. PICK k, g, same : k = job[r] /\ g = buyer'.group
          /\ same = (k.asQuoted /\ k.group \in {NoGroup, g})
    OBVIOUS
  <2>2. PICK j : j = [k EXCEPT !.group = g, !.asQuoted = same]
    OBVIOUS
  <2>3. Goto(r, "price", j)
    <3>1. Goto(r, "price", [job[r] EXCEPT !.group = buyer'.group,
                              !.asQuoted = @ /\ job[r].group \in {NoGroup, buyer'.group}])
      BY <1>4 DEF EnsureCustomer
    <3> QED BY <2>1, <2>2, <3>1
  <2>4. k \in Order /\ g \in Req \cup {NoGroup}
    BY <1>1, <1>2, <2>1, OrderIs DEF BuyerRow
  <2>5. same \in BOOLEAN
    BY <2>1
  <2>6. /\ j \in Order /\ j.listing = k.listing /\ j.ladder = k.ladder /\ j.quoted = k.quoted
        /\ j.group = g /\ j.qty = k.qty
    BY <2>2, <2>4, <2>5 DEF Order
  <2>7. j.asQuoted = same
    BY <2>2, <2>4 DEF Order
  <2>8. \A q \in Req : /\ stage'[q] = IF q = r THEN "price" ELSE stage[q]
                       /\ job'[q] = IF q = r THEN j ELSE job[q]
    BY <2>3, Then
  <2>9. ASSUME "tiers" \notin overlaid
        PROVE  /\ OneEdit(k.ladder)
               /\ same =>
                    \/ k.quoted \in UnitPrices(k.listing.price, k.ladder, g, k.qty)
                    \/ k.quoted \in UnitPrices(k.listing.price, k.ladder, NoGroup, k.qty)
    <3>1. /\ OneEdit(k.ladder)
          /\ k.asQuoted => k.quoted \in UnitPrices(k.listing.price, k.ladder, k.group, k.qty)
      BY <1>1, <2>1, <2>9, OrderIs DEF Quoted
    <3>2. same => k.asQuoted /\ (k.group = NoGroup \/ k.group = g)
      BY <2>1
    <3> QED BY <3>1, <3>2
  <2> QED BY <1>1, <1>2, <2>6, <2>7, <2>8, <2>9, OrderGoesOn
<1> QED BY <1>3, <1>4

LEMMA CatalogueHolds == ASSUME Tagged, CatalogueInv, [Next]_all PROVE CatalogueInv'
<1>1. CASE ~CatalogueStep
  <2>1. UNCHANGED catalogueVars /\ Aside(CatalogueOps)
    BY <1>1, CatalogueAside
  <2>2. Undisturbed
    BY <2>1 DEF Aside, CatalogueOps, Undisturbed, Editors
  <2> QED BY <2>1, <2>2, CatalogueAsItWas DEF catalogueVars
<1>2. ASSUME NEW r \in Req, PlaceOrder(r) PROVE CatalogueInv'
  <2>1. End(r, "done") /\ UNCHANGED <<group, listing, ladder, buyer, overlaid>>
    BY <1>2 DEF PlaceOrder, catalogueVars
  <2> QED BY <2>1, EndingDisturbsNone, CatalogueAsItWas
<1>3. CASE CatalogueStep
  <2>1. PICK r \in Req :
          \/ Naming(r) \/ Grouping(r) \/ Laddering(r) \/ Ordering(r)
    BY <1>3 DEF CatalogueStep, Naming, Grouping, Laddering, Ordering
  <2>2. CASE Naming(r)
    BY <2>2, Named
  <2>3. CASE Grouping(r)
    BY <2>3, GroupsCleared, GroupInserted, GroupDeleted DEF Grouping
  <2>4. CASE Laddering(r)
    BY <2>4, EditBegun, LadderEmptied, TiersInserted DEF Laddering
  <2>5. CASE Ordering(r)
    BY <1>2, <2>5, ListingChanged, ListingCreated, CatalogSeen, ListingsFound, CustomerEnsured
       DEF Ordering
  <2> QED BY <2>1, <2>2, <2>3, <2>4, <2>5
<1> QED BY <1>1, <1>3

(* Of any number of requests that edit price groups, ladders and listings, *)
(* and of buyers who order: one default group and a ladder of one edit, or *)
(* history tells which two met; and every order was quoted what the tiers  *)
(* it holds ask of its group, or asked of the public before it had one.    *)
THEOREM CatalogueIsKept == Spec => []CatalogueInv
<1>1. Init => CatalogueInv
  <2> SUFFICES ASSUME Init PROVE CatalogueInv
    OBVIOUS
  <2>1. /\ group = [r \in Req |-> None] /\ ladder = {} /\ buyer = None /\ overlaid = {}
        /\ listing = [by |-> None, price |-> Max(Price), active |-> TRUE]
        /\ \A r \in Req : job[r].op = "none"
    BY DEF Init, OfficeInit, CatalogueInit, RequestsInit, Idle
  <2>2. Max(Price) \in Nat
    BY CatalogueAssumption DEF Max
  <2>3. listing \in ListingRow /\ listing.by = None
    BY <2>1, <2>2 DEF ListingRow
  <2>4. \A op \in Editors : Doing(op) = {}
    BY <2>1 DEF Doing, Editors
  <2>5. CatalogueTyped
    BY <2>1, <2>3, <2>4 DEF CatalogueTyped, Editors
  <2>6. DefaultGroups = {}
    BY <2>1 DEF DefaultGroups, Groups
  <2>7. GroupsApart /\ EditsApart /\ QuotesKept
    BY <2>1, <2>4, <2>6 DEF GroupsApart, EditsApart, QuotesKept, AtMostOne, OneEdit, Editors
  <2> QED BY <2>5, <2>7 DEF CatalogueInv
<1>2. Tagged /\ CatalogueInv /\ [Next]_all => CatalogueInv'
  BY CatalogueHolds
<1> QED BY <1>1, <1>2, EveryRequestIsTagged, PTL DEF Spec

(* A buyer who orders what the catalog showed pays no more than it showed, *)
(* though the order made it a customer of a price group meanwhile, for any *)
(* ladder whose steps are discounts.                                       *)
THEOREM QuotesAreHonoured == Spec => []OrderNeverDearer
<1>1. CatalogueInv => OrderNeverDearer
  <2> SUFFICES ASSUME CatalogueInv, NEW r \in Doing("order"), job[r].asQuoted, Discounts(r),
                      "tiers" \notin overlaid, NEW p \in Prices(r)
               PROVE  p =< job[r].quoted
    BY DEF OrderNeverDearer
  <2>1. PICK k : k = job[r]
    OBVIOUS
  <2>2. /\ k \in Order /\ OneEdit(k.ladder)
        /\ \/ k.quoted \in UnitPrices(k.listing.price, k.ladder, k.group, k.qty)
           \/ k.quoted \in UnitPrices(k.listing.price, k.ladder, NoGroup, k.qty)
    BY <2>1, OrderIs DEF Quoted
  <2>3. PICK g0 \in {k.group, NoGroup} :
          k.quoted \in UnitPrices(k.listing.price, k.ladder, g0, k.qty)
    BY <2>2
  <2>4. k.listing.price \in Nat /\ k.ladder \in SUBSET Tier
    BY <2>2 DEF Order, ListingRow
  <2>5. p \in UnitPrices(k.listing.price, k.ladder, k.group, k.qty)
    BY <2>1 DEF Prices
  <2>6. \A t \in k.ladder : t.price =< k.listing.price
    BY <2>1 DEF Discounts
  <2> QED BY <2>1, <2>2, <2>3, <2>4, <2>5, <2>6, NeverDearer
<1> QED BY <1>1, CatalogueIsKept, PTL

-----------------------------------------------------------------------------
(* What is looked for before it is written, and no key of the database     *)
(* forbids, is there once, for any number of requests: an open shift of an *)
(* employee, an unread notice, a default price group, the edit a ladder is *)
(* of, a business of a name; unless two requests looked before one wrote.  *)
THEOREM WhatIsLookedForIsOne == Spec => []OneOfEach
<1>1. AttendanceInv /\ NoticesInv /\ CatalogueInv /\ SignupsApart => OneOfEach
  <2> SUFFICES ASSUME AttendanceInv, NoticesInv, CatalogueInv, SignupsApart PROVE OneOfEach
    OBVIOUS
  <2>1. OneOpenShift
    BY OneHasFew DEF OneOpenShift, AttendanceInv, ShiftsApart
  <2>2. OneUnreadNotice
    BY DEF NoticesInv, NoticesApart, OneUnreadNotice
  <2>3. OneDefaultGroup
    BY OneHasFew DEF OneDefaultGroup, CatalogueInv, GroupsApart
  <2>4. LadderIsOneEdit
    BY DEF LadderIsOneEdit, CatalogueInv, EditsApart, OneEdit
  <2>5. OneRegistration
    BY DEF SignupsApart
  <2> QED BY <2>1, <2>2, <2>3, <2>4, <2>5 DEF OneOfEach
<1> QED BY <1>1, ShiftsAreKept, NoticesAreNew, CatalogueIsKept, RegistrationsApart, PTL
-----------------------------------------------------------------------------
(***************************************************************************)
(* The reminders.  A mail was sent in the day after it was due; every run  *)
(* in the day after the end of a threshold sent one, and one in the day    *)
(* after the end of an absence too, if the owner was not seen since.       *)
(***************************************************************************)
RunsTyped == runs \subseteq Nat /\ IsFiniteSet(runs) /\ lastLogin \in runs \cup {0}
InTime(due, h) == due \in Int /\ h \in runs /\ due =< h /\ h < due + Day
MailsInTime == \A m \in mails : InTime(m.due, m.at)
Mailed(to, d, due, h) == [to |-> to, days |-> d, due |-> due, at |-> h] \in mails
RunsMailed ==
  /\ \A d \in Thresholds, h \in runs :
       Window(d, h) => Mailed("renew", d, EndHour - d * Day, h)
  /\ \A d \in Absences, h \in runs :
       lastLogin < h /\ Absent(d, h) => Mailed("return", d, lastLogin + d * Day, h)
RemindersInv == RunsTyped /\ MailsInTime /\ RunsMailed

(* A window is the day that follows the hour a reminder is due.            *)
LEMMA WindowIs ==
  ASSUME NEW d \in Thresholds, NEW h \in Int
  PROVE  /\ EndHour - d * Day \in Int
         /\ Window(d, h) <=> EndHour - d * Day =< h /\ h < EndHour - d * Day + Day
<1>1. d \in Nat /\ Day \in Nat /\ EndHour \in Nat
  BY NoticesAssumption
<1>2. PICK k \in Nat : k = d * Day
  BY <1>1
<1>3. (d - 1) * Day = k - Day
  BY <1>1, <1>2
<1>4. Window(d, h) <=> h + (k - Day) < EndHour /\ EndHour =< h + k
  BY <1>2, <1>3 DEF Window
<1> QED BY <1>1, <1>2, <1>4

LEMMA AbsentIs ==
  ASSUME NEW d \in Absences, NEW h \in Int, lastLogin \in Nat
  PROVE  /\ lastLogin + d * Day \in Int /\ lastLogin < lastLogin + d * Day
         /\ Absent(d, h) <=> lastLogin + d * Day =< h /\ h < lastLogin + d * Day + Day
<1>1. d \in Nat \ {0} /\ Day \in Nat \ {0}
  BY NoticesAssumption
<1>2. PICK k \in Nat : k = d * Day
  BY <1>1
<1>3. k > 0
  BY <1>1, <1>2
<1>4. (d + 1) * Day = k + Day
  BY <1>1, <1>2
<1>5. Absent(d, h) <=> h - (k + Day) < lastLogin /\ lastLogin =< h - k
  BY <1>2, <1>4 DEF Absent
<1> QED BY <1>1, <1>2, <1>3, <1>5

(* The first run and the last.                                             *)
LEMMA FirstAndLast ==
  ASSUME RunsTyped, runs # {}
  PROVE  /\ Max(runs) \in runs /\ Max(runs) \in Nat /\ \A h \in runs : h =< Max(runs)
         /\ Min(runs) \in runs /\ Min(runs) \in Nat /\ \A h \in runs : Min(runs) =< h
<1>1. IsFiniteSet(runs) /\ runs \subseteq Int
  BY DEF RunsTyped
<1>2. Max(runs) \in runs /\ \A h \in runs : h =< Max(runs)
  BY <1>1, FiniteHasMax
<1>3. Min(runs) \in runs /\ \A h \in runs : Min(runs) =< h
  BY <1>1, FiniteHasMin
<1> QED BY <1>2, <1>3 DEF RunsTyped

(* A run is no earlier than the ones before it.                            *)
LEMMA NextRun ==
  ASSUME RunsTyped, NEW n,
         n \in IF runs = {} THEN 0 .. Day - 1 ELSE {Max(runs) + gap : gap \in Day - 1 .. Day + 1}
  PROVE  /\ n \in Nat /\ \A h \in runs : h =< n
         /\ IsFiniteSet(runs \cup {n}) /\ runs \cup {n} \subseteq Nat
<1>1. Day \in Nat \ {0}
  BY NoticesAssumption
<1>2. n \in Nat /\ \A h \in runs : h =< n
  <2>1. CASE runs = {}
    BY <1>1, <2>1
  <2>2. CASE runs # {}
    <3>1. Max(runs) \in runs /\ \A h \in runs : h =< Max(runs)
      BY <2>2, FirstAndLast
    <3>2. PICK m \in Nat : m = Max(runs)
      BY <2>2, FirstAndLast
    <3>3. PICK gap \in Day - 1 .. Day + 1 : n = m + gap
      BY <2>2, <3>2
    <3> QED BY <1>1, <3>1, <3>2, <3>3 DEF RunsTyped
  <2> QED BY <2>1, <2>2
<1>3. IsFiniteSet(runs \cup {n})
  BY FS_AddElement DEF RunsTyped
<1> QED BY <1>2, <1>3 DEF RunsTyped

LEMMA RunReminds ==
  ASSUME RemindersInv, NEW r \in Req, ScheduledRun(r) PROVE RemindersInv'
<1> USE DEF RemindersInv
<1>1. PICK n \in IF runs = {} THEN 0 .. Day - 1
                 ELSE {Max(runs) + gap : gap \in Day - 1 .. Day + 1} :
        /\ runs' = runs \cup {n}
        /\ mails' = mails \cup RemindExpiring(n) \cup RemindInactive(n)
  BY DEF ScheduledRun
<1>2. lastLogin' = lastLogin
  BY DEF ScheduledRun
<1>3. /\ n \in Nat /\ \A h \in runs : h =< n
      /\ IsFiniteSet(runs') /\ runs' \subseteq Nat
  BY <1>1, NextRun
<1>4. lastLogin \in Nat
  BY DEF RunsTyped
<1>5. ASSUME NEW m \in mails' PROVE InTime(m.due, m.at)'
  <2>1. CASE m \in mails
    BY <1>1, <2>1 DEF MailsInTime, InTime
  <2>2. CASE m \in RemindExpiring(n)
    <3>1. PICK d \in Thresholds :
            Window(d, n) /\ m = [to |-> "renew", days |-> d, due |-> EndHour - d * Day, at |-> n]
      BY <2>2 DEF RemindExpiring
    <3>2. m.due = EndHour - d * Day /\ m.at = n
      BY <3>1
    <3> QED BY <1>1, <1>3, <3>1, <3>2, WindowIs DEF InTime
  <2>3. CASE m \in RemindInactive(n)
    <3>1. PICK d \in Absences :
            Absent(d, n)
            /\ m = [to |-> "return", days |-> d, due |-> lastLogin + d * Day, at |-> n]
      BY <2>3 DEF RemindInactive
    <3>2. m.due = lastLogin + d * Day /\ m.at = n
      BY <3>1
    <3> QED BY <1>1, <1>3, <1>4, <3>1, <3>2, AbsentIs DEF InTime
  <2> QED BY <1>1, <2>1, <2>2, <2>3
<1>6. ASSUME NEW d \in Thresholds, NEW h \in runs', Window(d, h)
      PROVE  Mailed("renew", d, EndHour - d * Day, h)'
  <2>1. CASE h \in runs
    BY <1>1, <1>6, <2>1 DEF RunsMailed, Mailed
  <2>2. CASE h = n
    BY <1>1, <1>6, <2>2 DEF RemindExpiring, Mailed
  <2> QED BY <1>1, <2>1, <2>2
<1>7. ASSUME NEW d \in Absences, NEW h \in runs', lastLogin < h, Absent(d, h)
      PROVE  Mailed("return", d, lastLogin + d * Day, h)'
  <2>1. CASE h \in runs
    BY <1>1, <1>2, <1>7, <2>1 DEF RunsMailed, Mailed
  <2>2. CASE h = n
    BY <1>1, <1>2, <1>7, <2>2 DEF RemindInactive, Mailed
  <2> QED BY <1>1, <2>1, <2>2
<1>8. RunsTyped'
  BY <1>1, <1>2, <1>3 DEF RunsTyped
<1>9. MailsInTime'
  BY <1>5 DEF MailsInTime
<1>10. RunsMailed'
  BY <1>2, <1>6, <1>7 DEF RunsMailed, Window, Absent
<1> QED BY <1>8, <1>9, <1>10

(* No run came after a login that has just happened.                       *)
LEMMA LoginReminds ==
  ASSUME RemindersInv, NEW r \in Req, OwnerLogin(r) PROVE RemindersInv'
<1> USE DEF RemindersInv
<1>1. runs # {} /\ lastLogin' = Max(runs) /\ UNCHANGED <<runs, mails>>
  BY DEF OwnerLogin
<1>2. Max(runs) \in runs /\ \A h \in runs : h =< Max(runs)
  BY <1>1, FirstAndLast
<1>3. ASSUME NEW h \in runs' PROVE ~(lastLogin' < h)
  <2>1. h \in Nat /\ Max(runs) \in Nat /\ h =< Max(runs)
    BY <1>1, <1>2 DEF RunsTyped
  <2> QED BY <1>1, <2>1
<1>4. RunsTyped'
  BY <1>1, <1>2 DEF RunsTyped
<1>5. MailsInTime'
  BY <1>1 DEF MailsInTime, InTime
<1>6. RunsMailed'
  BY <1>1, <1>3 DEF RunsMailed, Mailed, Window
<1> QED BY <1>4, <1>5, <1>6

LEMMA RemindersHold == ASSUME Tagged, RemindersInv, [Next]_all PROVE RemindersInv'
<1>1. CASE UNCHANGED reminders
  BY <1>1 DEF reminders, RemindersInv, RunsTyped, MailsInTime, InTime, RunsMailed, Mailed,
    Window, Absent
<1>2. CASE NoticesStep
  <2>1. PICK r \in Req : Noticing(r)
    BY <1>2 DEF NoticesStep, Noticing
  <2>2. CASE ScheduledRun(r) \/ OwnerLogin(r)
    BY <2>2, RunReminds, LoginReminds
  <2>3. CASE ~(ScheduledRun(r) \/ OwnerLogin(r))
    BY <1>1, <2>1, <2>3 DEF Noticing, MoveStock, FindCandidates, ExistsUnread, CreateNotice,
      MarkRead, noticeVars
  <2> QED BY <2>2, <2>3
<1>3. CASE ~NoticesStep
  BY <1>1, <1>3, NoticesAside DEF noticeVars
<1> QED BY <1>2, <1>3

(* The reminders keep their times, whenever they run and the owner logs in.*)
THEOREM RemindersAreKept == Spec => []RemindersInv
<1>1. Init => RemindersInv
  <2> SUFFICES ASSUME Init PROVE RemindersInv
    OBVIOUS
  <2>1. runs = {} /\ mails = {} /\ lastLogin = 0
    BY DEF Init, OfficeInit, NoticesInit
  <2> QED BY <2>1, FS_EmptySet DEF RemindersInv, RunsTyped, MailsInTime, RunsMailed
<1>2. Tagged /\ RemindersInv /\ [Next]_all => RemindersInv'
  BY RemindersHold
<1> QED BY <1>1, <1>2, EveryRequestIsTagged, PTL DEF Spec

(* When a reminder that was mailed is due, or one that a run must mail.    *)
LEMMA SentInTime ==
  ASSUME RemindersInv, NEW m, NEW h \in Sent(m) PROVE InTime(m.due, h)
<1>1. PICK mail \in mails : mail = [to |-> m.to, days |-> m.days, due |-> m.due, at |-> h]
  BY DEF Sent
<1>2. mail.due = m.due /\ mail.at = h
  BY <1>1
<1> QED BY <1>2 DEF RemindersInv, MailsInTime

LEMMA RunSends ==
  ASSUME RemindersInv, NEW m \in Reminders, NEW h \in runs, m.due =< h, h < m.due + Day
  PROVE  h \in Sent(m)
<1>1. h \in Int /\ lastLogin \in Nat
  BY DEF RemindersInv, RunsTyped
<1>2. CASE \E d \in Thresholds : m = [to |-> "renew", days |-> d, due |-> EndHour - d * Day]
  <2>1. PICK d \in Thresholds : m = [to |-> "renew", days |-> d, due |-> EndHour - d * Day]
    BY <1>2
  <2>2. m.to = "renew" /\ m.days = d /\ m.due = EndHour - d * Day
    BY <2>1
  <2>3. Window(d, h)
    BY <1>1, <2>2, WindowIs
  <2> QED BY <2>2, <2>3 DEF RemindersInv, RunsMailed, Mailed, Sent
<1>3. CASE \E d \in Absences : m = [to |-> "return", days |-> d, due |-> lastLogin + d * Day]
  <2>1. PICK d \in Absences : m = [to |-> "return", days |-> d, due |-> lastLogin + d * Day]
    BY <1>3
  <2>2. m.to = "return" /\ m.days = d /\ m.due = lastLogin + d * Day
    BY <2>1
  <2>3. Absent(d, h) /\ lastLogin < h
    BY <1>1, <2>2, AbsentIs
  <2> QED BY <2>2, <2>3 DEF RemindersInv, RunsMailed, Mailed, Sent
<1> QED BY <1>2, <1>3 DEF Reminders

(* The run after one that is not the last.                                 *)
LEMMA NextRunIs ==
  ASSUME RunsTyped, NEW h \in runs, h # Max(runs)
  PROVE  /\ Next2(h) \in runs /\ h < Next2(h)
         /\ \A i \in runs : h < i => Next2(h) =< i
<1>1. PICK S : S = {i \in runs : i > h}
  OBVIOUS
<1>2. Max(runs) \in runs /\ h =< Max(runs) /\ runs \subseteq Nat
  BY FirstAndLast DEF RunsTyped
<1>3. Max(runs) \in S /\ S \subseteq Int /\ IsFiniteSet(S)
  <2>1. PICK m \in Nat : m = Max(runs)
    BY <1>2
  <2>2. m \in runs /\ m > h
    BY <1>2, <2>1
  <2>3. S \in SUBSET runs /\ \A x \in S : x \in Int
    BY <1>1, <1>2
  <2>4. IsFiniteSet(S)
    BY <2>3, FS_Subset DEF RunsTyped
  <2> QED BY <1>1, <2>1, <2>2, <2>3, <2>4
<1>4. Min(S) \in S /\ \A i \in S : Min(S) =< i
  BY <1>3, FiniteHasMin
<1> QED BY <1>1, <1>2, <1>4 DEF Next2

(* Of the runs a day apart or more one at most is in time, and of those a  *)
(* day apart or less one is: the first one after the reminder is due.      *)
THEOREM OwnersAreReminded == Spec => []RemindedOnce
<1>1. RemindersInv => RemindedOnce
  <2>1. ASSUME RemindersInv, runs # {}, NEW m \in Reminders,
               \A h \in runs : h # Max(runs) => Next2(h) - h >= Day
        PROVE  Cardinality(Sent(m)) =< 1
    <3>1. ASSUME NEW h \in Sent(m), NEW i \in Sent(m), h < i PROVE FALSE
      <4>1. InTime(m.due, h) /\ InTime(m.due, i)
        BY <2>1, <3>1, SentInTime
      <4>2. h \in Nat /\ i \in Nat /\ h \in runs /\ i \in runs /\ Day \in Nat /\ RunsTyped
        BY <2>1, <4>1, NoticesAssumption DEF InTime, RemindersInv, RunsTyped
      <4>3. h # Max(runs)
        BY <3>1, <4>2, FirstAndLast
      <4>4. PICK n : n = Next2(h)
        OBVIOUS
      <4>5. n \in Nat /\ n =< i /\ n - h >= Day
        BY <2>1, <3>1, <4>2, <4>3, <4>4, NextRunIs DEF RunsTyped
      <4> QED BY <4>1, <4>2, <4>5 DEF InTime
    <3>2. AtMostOne(Sent(m))
      <4>1. \A h \in Sent(m) : h \in Nat
        BY <2>1 DEF Sent, RemindersInv, RunsTyped
      <4> QED BY <3>1, <4>1 DEF AtMostOne
    <3> QED BY <3>2, OneHasFew
  <2>2. ASSUME RemindersInv, runs # {}, NEW m \in Reminders,
               \A h \in runs : h # Max(runs) => Next2(h) - h =< Day,
               Min(runs) =< m.due, m.due =< Max(runs)
        PROVE  Sent(m) # {}
    <3>1. RunsTyped /\ runs \subseteq Nat /\ Day \in Nat \ {0}
      BY <2>2, NoticesAssumption DEF RemindersInv, RunsTyped
    <3>2. m.due \in Int
      <4>1. lastLogin \in Nat
        BY <3>1 DEF RunsTyped
      <4>2. CASE \E d \in Thresholds : m = [to |-> "renew", days |-> d, due |-> EndHour - d * Day]
        BY <4>2, WindowIs
      <4>3. CASE \E d \in Absences : m = [to |-> "return", days |-> d, due |-> lastLogin + d * Day]
        BY <4>1, <4>3, AbsentIs
      <4> QED BY <4>2, <4>3 DEF Reminders
    <3>3. PICK due \in Int : due = m.due
      BY <3>2
    <3>4. PICK S : S = {h \in runs : h =< due}
      OBVIOUS
    <3>5. Min(runs) \in S /\ S \subseteq Int /\ IsFiniteSet(S)
      <4>1. S \in SUBSET runs
        BY <3>4
      <4>2. IsFiniteSet(S)
        BY <3>1, <4>1, FS_Subset DEF RunsTyped
      <4>3. \A x \in S : x \in Int
        BY <3>1, <4>1
      <4>4. Min(runs) \in runs /\ Min(runs) =< due
        BY <2>2, <3>1, <3>3, FirstAndLast
      <4> QED BY <3>4, <4>2, <4>3, <4>4
    <3>6. PICK g \in S : \A h \in S : h =< g
      BY <3>5, FiniteHasMax
    <3>7. g \in runs /\ g \in Nat /\ g =< due
      BY <3>1, <3>4
    <3>8. CASE due < g + Day /\ g = due
      <4>1. g \in Sent(m)
        BY <2>2, <3>1, <3>3, <3>7, <3>8, RunSends
      <4> QED BY <4>1
    <3>9. CASE g < due
      <4>1. Max(runs) \in runs /\ Max(runs) \in Nat
        BY <2>2, <3>1, FirstAndLast
      <4>2. g # Max(runs)
        BY <2>2, <3>3, <3>9, <4>1
      <4>3. PICK n : n = Next2(g)
        OBVIOUS
      <4>4. n \in runs /\ n \in Nat /\ g < n /\ n - g =< Day
        BY <2>2, <3>1, <3>7, <4>2, <4>3, NextRunIs
      <4>5. n \notin S
        BY <3>6, <3>7, <4>4
      <4>6. due =< n /\ n < due + Day
        BY <3>1, <3>4, <3>7, <3>9, <4>4, <4>5
      <4>7. n \in Sent(m)
        BY <2>2, <3>3, <4>4, <4>6, RunSends
      <4> QED BY <4>7
    <3> QED BY <3>1, <3>7, <3>8, <3>9
  <2> QED BY <2>1, <2>2 DEF RemindedOnce
<1> QED BY <1>1, RemindersAreKept, PTL

-----------------------------------------------------------------------------
(***************************************************************************)
(* The uploads.  First what rows and jobs look like: a row is an expense   *)
(* or a photo and never both, and its request is past its insert; a        *)
(* request writes what it may write; and one that is about to commit has   *)
(* the row to itself, which stays until then unless it is what goes.       *)
(***************************************************************************)
Settled(x) == x = Expense0 \/ (x \in Req /\ stage[x] # "new" /\ job[x].op # "insert")
UploadsTyped ==
  /\ path = [x \in Slot |-> path[x]] /\ expense \in [RowKey -> Key \cup {None}]
  /\ photo \in [Req -> RowKey \cup {None}]
  /\ category \in [Key -> {"none", "active", "archived"}]

(* An insert is of an expense, or of a photo that the request has saved.   *)
(* A write is of an image; or removes a row; or updates an expense, which  *)
(* keeps its receipt or its category if it is given none.                  *)
InsertJob(q) ==
  /\ stage[q] = "add" /\ job[q].prior = None
  /\ \/ job[q].row = q /\ job[q].category \in Key
     \/ job[q].row \in RowKey \ {q} /\ job[q].category = None /\ job[q].new = q
Updates(q) ==
  /\ job[q].row \in RowKey /\ job[q].category \in Key \cup {None}
  /\ job[q].new = None => job[q].prior = None /\ stage[q] # "find" /\ job[q].category # None
WriteJob(q) ==
  /\ stage[q] \in {"find", "replace", "commit"}
  /\ \/ job[q].row \in Fixed /\ job[q].category = None /\ job[q].new \in {None, q}
     \/ Settled(job[q].row) /\ Deletes(q)
     \/ Settled(job[q].row) /\ Updates(q) /\ (job[q].row \in Req => photo[job[q].row] = None)
FilingJob(q) ==
  /\ job[q] = Writing(job[q].op, job[q].row, job[q].prior, job[q].new, job[q].category)
  /\ IF job[q].op = "insert" THEN InsertJob(q) ELSE WriteJob(q)

RowsApart ==
  /\ \A x \in RowKey : expense[x] # None => Settled(x)
  /\ \A x \in Req : photo[x] # None => Settled(x) /\ expense[x] = None
  /\ \A x \in Slot \ Slots : path[x] = None
RowsHeld ==
  \A q \in Req : stage[q] = "commit" =>
    /\ ~Deletes(q) => job[q].row \in Slots
    /\ \A r \in Req : stage[r] = "commit" /\ job[r].row = job[q].row => r = q
JobsFiled == \A q \in Writers : FilingJob(q)
RowsFiled == UploadsTyped /\ JobsFiled /\ RowsApart /\ RowsHeld

(* What requests do next leaves the rows as they should be, if the rows    *)
(* stay, the jobs are well formed, and nobody is newly about to commit.    *)
LEMMA RowsStay ==
  ASSUME RowsFiled, Tagged, UNCHANGED <<path, expense, photo>>,
         category' \in [Key -> {"none", "active", "archived"}],
         \A q \in Req : /\ stage'[q] = "new" => stage[q] = "new"
                        /\ job'[q].op = "insert" => job[q].op = "insert" \/ stage[q] = "new"
                        /\ stage'[q] = "commit" => stage[q] = "commit" /\ job'[q] = job[q],
         \A q \in Writers' : \/ FilingJob(q)'
                             \/ q \in Writers /\ job'[q] = job[q] /\ stage'[q] = stage[q]
  PROVE  RowsFiled'
<1>1. ASSUME NEW x, Settled(x) PROVE Settled(x)'
  BY <1>1 DEF Settled
<1>2. UploadsTyped'
  BY DEF RowsFiled, UploadsTyped
<1>3. Slots' = Slots
  BY DEF Slots, Expenses
<1>4. ASSUME NEW q \in Writers' PROVE FilingJob(q)'
  <2>1. CASE q \in Writers /\ job'[q] = job[q] /\ stage'[q] = stage[q]
    <3>1. FilingJob(q)
      BY <2>1 DEF RowsFiled, JobsFiled
    <3>2. InsertJob(q) => InsertJob(q)'
      BY <2>1 DEF InsertJob
    <3>3. Settled(job[q].row) => Settled(job[q].row)'
      BY <1>1, <2>1 DEF Settled
    <3>4. WriteJob(q) => WriteJob(q)'
      BY <2>1, <3>3 DEF WriteJob, Deletes, Updates
    <3> QED BY <2>1, <3>1, <3>2, <3>4 DEF FilingJob
  <2> QED BY <1>4, <2>1
<1>5. RowsApart'
  <2>1. \A x \in RowKey : expense'[x] # None => Settled(x)'
    BY <1>1 DEF RowsFiled, RowsApart
  <2>2. \A x \in Req : photo'[x] # None => Settled(x)' /\ expense'[x] = None
    BY <1>1 DEF RowsFiled, RowsApart
  <2> QED BY <1>3, <2>1, <2>2 DEF RowsFiled, RowsApart
<1>6. RowsHeld'
  BY <1>3 DEF RowsFiled, RowsHeld, Deletes
<1> QED BY <1>2, <1>4, <1>5, <1>6 DEF RowsFiled, JobsFiled

(* One request goes on or ends, and the others stay where they are.        *)
LEMMA OneGoesOn ==
  ASSUME RowsFiled, Tagged, NEW r \in Req, NEW s, NEW j, Goto(r, s, j),
         s \notin {"new", "commit"}, UNCHANGED <<path, expense, photo>>,
         category' \in [Key -> {"none", "active", "archived"}],
         j.op = "insert" => stage[r] = "new",
         j.op \in {"write", "insert"} => FilingJob(r)'
  PROVE  RowsFiled'
<1>1. \A q \in Req : /\ stage'[q] = IF q = r THEN s ELSE stage[q]
                     /\ job'[q] = IF q = r THEN j ELSE job[q]
  BY Then
<1>2. \A q \in Req : /\ stage'[q] = "new" => stage[q] = "new"
                     /\ job'[q].op = "insert" => job[q].op = "insert" \/ stage[q] = "new"
                     /\ stage'[q] = "commit" => stage[q] = "commit" /\ job'[q] = job[q]
  BY <1>1
<1>3. \A q \in Writers' : \/ FilingJob(q)'
                          \/ q \in Writers /\ job'[q] = job[q] /\ stage'[q] = stage[q]
  BY <1>1 DEF Writers
<1> QED BY <1>2, <1>3, RowsStay

LEMMA OneEnds ==
  ASSUME RowsFiled, Tagged, NEW r \in Req, NEW s, End(r, s),
         s \in {"done", "refused", "crashed"}, UNCHANGED <<path, expense, photo>>,
         category' \in [Key -> {"none", "active", "archived"}]
  PROVE  RowsFiled'
<1>1. PICK j : j = Idle
  OBVIOUS
<1>2. Goto(r, s, j) /\ j.op = "none"
  BY <1>1, IdleIsNone DEF End
<1> QED BY <1>2, OneGoesOn

(* A writer is at a statement of its kind, and at a commit there is none   *)
(* else.                                                                   *)
LEMMA FilingStages ==
  ASSUME Tagged, RowsFiled, NEW q \in Req,
         stage[q] \in {"add", "find", "replace", "commit"}
  PROVE  /\ q \in Writers /\ FilingJob(q)
         /\ stage[q] = "add" => job[q].op = "insert" /\ InsertJob(q)
         /\ stage[q] # "add" => job[q].op = "write" /\ WriteJob(q)
<1>1. UploadsTag(job[q].op, stage[q])
  BY StageTells
<1>2. q \in Writers /\ (stage[q] = "add" <=> job[q].op = "insert")
      /\ (stage[q] # "add" <=> job[q].op = "write")
  BY <1>1 DEF UploadsTag, Writers
<1>3. FilingJob(q)
  BY <1>2 DEF RowsFiled, JobsFiled
<1> QED BY <1>2, <1>3 DEF FilingJob

LEMMA AddsOne ==
  ASSUME Tagged, NEW r \in Req, stage[r] = "add"
  PROVE  ~Settled(r) /\ r # Expense0
<1>1. UploadsTag(job[r].op, stage[r])
  BY StageTells
<1> QED BY <1>1, UploadsAssumption DEF UploadsTag, Settled

(* A new job is well formed.                                               *)
LEMMA NewJob ==
  ASSUME Tagged, NEW r \in Req, NEW s, NEW j, NEW op, NEW x, NEW prior, NEW new, NEW k,
         Goto(r, s, j), j = Writing(op, x, prior, new, k)
  PROVE  /\ stage'[r] = s /\ job'[r] = Writing(op, x, prior, new, k) /\ job'[r].op = op
         /\ job'[r].row = x /\ job'[r].prior = prior /\ job'[r].new = new
         /\ job'[r].category = k
<1>1. stage'[r] = s /\ job'[r] = j
  BY Then
<1> QED BY <1>1 DEF Writing

(* Requests that begin to write.                                           *)
LEMMA CategoryAsserted ==
  ASSUME RowsFiled, Tagged, NEW r \in Req, AssertCategoryUsable(r) PROVE RowsFiled'
<1>1. PICK op \in {"createExpense", "updateExpense"}, k \in Key \cup {None}, p \in handed \cup {None},
           e \in Expenses \cup {r} :
        /\ Starts(r, op) /\ (e = r) = (op = "createExpense")
        /\ k = None => e # r /\ p # None
        /\ IF Unusable(k) THEN End(r, "refused")
           ELSE Goto(r, IF e = r THEN "add" ELSE IF p = None THEN "replace" ELSE "find",
                     Writing(IF e = r THEN "insert" ELSE "write", e, None, p, k))
        /\ UNCHANGED <<path, expense, photo, category>>
  BY DEF AssertCategoryUsable
<1>2. stage[r] = "new" /\ category' \in [Key -> {"none", "active", "archived"}]
  BY <1>1 DEF Starts, RowsFiled, UploadsTyped
<1>3. CASE Unusable(k)
  BY <1>1, <1>2, <1>3, OneEnds
<1>4. CASE ~Unusable(k) /\ e = r
  <2>1. PICK j : j = Writing("insert", r, None, p, k)
    OBVIOUS
  <2>2. Goto(r, "add", j)
    BY <1>1, <1>4, <2>1
  <2>3. /\ stage'[r] = "add" /\ job'[r] = Writing("insert", r, None, p, k)
        /\ job'[r].op = "insert" /\ job'[r].row = r /\ job'[r].prior = None
        /\ job'[r].new = p /\ job'[r].category = k
    BY <2>1, <2>2, NewJob
  <2>4. k \in Key
    BY <1>1, <1>4
  <2>5. InsertJob(r)'
    BY <2>3, <2>4 DEF InsertJob
  <2>6. FilingJob(r)'
    BY <2>3, <2>5 DEF FilingJob
  <2> QED BY <1>1, <1>2, <2>2, <2>3, <2>6, OneGoesOn
<1>5. CASE ~Unusable(k) /\ e # r
  <2>1. PICK j, s : /\ s = IF p = None THEN "replace" ELSE "find"
                    /\ j = Writing("write", e, None, p, k)
    OBVIOUS
  <2>2. s \in {"find", "replace"} /\ Goto(r, s, j)
    BY <1>1, <1>5, <2>1
  <2>3. j.op = "write"
    BY <2>1 DEF Writing
  <2>4. e \in RowKey /\ expense[e] # None
    BY <1>1, <1>5 DEF Expenses
  <2>5. Settled(e) /\ (e \in Req => photo[e] = None)
    BY <2>4 DEF RowsFiled, RowsApart
  <2>6. /\ stage'[r] = s /\ job'[r] = Writing("write", e, None, p, k) /\ job'[r].op = "write"
        /\ job'[r].row = e /\ job'[r].prior = None /\ job'[r].new = p /\ job'[r].category = k
    BY <2>1, <2>2, NewJob
  <2>7. Settled(e)'
    <3>1. \A q \in Req : /\ stage'[q] = IF q = r THEN s ELSE stage[q]
                         /\ job'[q] = IF q = r THEN j ELSE job[q]
      BY <2>2, Then
    <3> QED BY <2>2, <2>3, <2>5, <3>1 DEF Settled
  <2>8. WriteJob(r)'
    BY <1>1, <2>1, <2>2, <2>4, <2>5, <2>6, <2>7 DEF WriteJob, Updates
  <2>9. FilingJob(r)'
    BY <2>6, <2>8 DEF FilingJob
  <2> QED BY <1>1, <1>2, <2>2, <2>3, <2>9, OneGoesOn
<1> QED BY <1>3, <1>4, <1>5

LEMMA PriorFound ==
  ASSUME RowsFiled, Tagged, NEW r \in Req, FindPrior(r) PROVE RowsFiled'
<1>1. /\ stage[r] = "find" /\ Goto(r, "replace", [job[r] EXCEPT !.prior = path[job[r].row]])
      /\ UNCHANGED <<path, expense, photo, category>>
  BY DEF FindPrior, uploadVars
<1>2. r \in Writers /\ FilingJob(r) /\ job[r].op = "write" /\ WriteJob(r)
  BY <1>1, FilingStages
<1>3. PICK x, p, new, k : /\ x = job[r].row /\ p = path[job[r].row] /\ new = job[r].new
                          /\ k = job[r].category
  OBVIOUS
<1>4. PICK j : j = Writing("write", x, p, new, k)
  OBVIOUS
<1>5. [job[r] EXCEPT !.prior = p] = j
  BY <1>2, <1>3, <1>4 DEF FilingJob, Writing
<1>6. Goto(r, "replace", j) /\ j.op = "write"
  BY <1>1, <1>3, <1>4, <1>5 DEF Writing
<1>7. /\ stage'[r] = "replace" /\ job'[r] = Writing("write", x, p, new, k) /\ job'[r].op = "write"
      /\ job'[r].row = x /\ job'[r].prior = p /\ job'[r].new = new /\ job'[r].category = k
  BY <1>4, <1>6, NewJob
<1>8. \A q \in Req : /\ stage'[q] = IF q = r THEN "replace" ELSE stage[q]
                     /\ job'[q] = IF q = r THEN j ELSE job[q]
  BY <1>6, Then
<1>9. Settled(x) => Settled(x)'
  BY <1>6, <1>8 DEF Settled
<1>10. WriteJob(r)'
  <2>1. CASE x \in Fixed /\ k = None /\ new \in {None, r}
    BY <1>7, <2>1 DEF WriteJob
  <2>2. CASE Settled(x) /\ Deletes(r)
    BY <1>3, <1>7, <1>9, <2>2 DEF WriteJob, Deletes
  <2>3. CASE Settled(x) /\ Updates(r) /\ (x \in Req => photo[x] = None)
    BY <1>1, <1>3, <1>7, <1>9, <2>3 DEF WriteJob, Updates
  <2> QED BY <1>2, <1>3, <2>1, <2>2, <2>3 DEF WriteJob
<1>11. FilingJob(r)'
  BY <1>7, <1>10 DEF FilingJob
<1>12. category' \in [Key -> {"none", "active", "archived"}]
  BY <1>1 DEF RowsFiled, UploadsTyped
<1> QED BY <1>1, <1>6, <1>11, <1>12, OneGoesOn

(* A row is in the table or is an image.                                   *)
LEMMA SlotIs ==
  ASSUME RowsFiled, NEW x \in Slots
  PROVE  /\ x \in Slot /\ (x \in Fixed \/ (x \in RowKey /\ Settled(x)))
         /\ x \in Fixed => x \notin RowKey
<1>1. x \in Fixed => x \notin RowKey
  BY UploadsAssumption DEF RowKey
<1>2. x \in Slot /\ (x \in Fixed \/ (x \in RowKey /\ Settled(x)))
  BY DEF Slots, Slot, Expenses, RowsFiled, RowsApart, RowKey
<1> QED BY <1>1, <1>2

LEMMA RowFound ==
  ASSUME RowsFiled, Tagged, NEW r \in Req, FindRow(r) PROVE RowsFiled'
<1>1. PICK x \in Slots :
        /\ \E op : Starts(r, op)
        /\ IF x \in Fixed /\ path[x] = None THEN End(r, "done")
           ELSE Goto(r, "replace", Writing("write", x, path[x], None, None))
        /\ UNCHANGED <<path, expense, photo, category>>
  BY DEF FindRow, uploadVars
<1>2. category' \in [Key -> {"none", "active", "archived"}]
  BY <1>1 DEF RowsFiled, UploadsTyped
<1>3. CASE End(r, "done")
  BY <1>1, <1>2, <1>3, OneEnds
<1>4. CASE Goto(r, "replace", Writing("write", x, path[x], None, None))
  <2>1. PICK j, p : j = Writing("write", x, p, None, None) /\ p = path[x]
    OBVIOUS
  <2>2. Goto(r, "replace", j) /\ j.op = "write"
    BY <1>4, <2>1 DEF Writing
  <2>3. /\ stage'[r] = "replace" /\ job'[r] = Writing("write", x, p, None, None)
        /\ job'[r].op = "write" /\ job'[r].row = x /\ job'[r].new = None
        /\ job'[r].category = None /\ job'[r].prior = p
    BY <2>1, <2>2, NewJob
  <2>4. \A q \in Req : /\ stage'[q] = IF q = r THEN "replace" ELSE stage[q]
                       /\ job'[q] = IF q = r THEN j ELSE job[q]
    BY <2>2, Then
  <2>5. Settled(x) => Settled(x)'
    BY <2>2, <2>4 DEF Settled
  <2>6. WriteJob(r)'
    BY <2>3, <2>5, SlotIs DEF WriteJob, Deletes
  <2>7. FilingJob(r)'
    BY <2>3, <2>6 DEF FilingJob
  <2> QED BY <1>1, <1>2, <2>2, <2>7, OneGoesOn
<1> QED BY <1>1, <1>3, <1>4

LEMMA FileSaved ==
  ASSUME RowsFiled, Tagged, NEW r \in Req, UploadImage(r) \/ AddPhoto(r) PROVE RowsFiled'
<1>1. stage[r] = "new" /\ UNCHANGED <<path, expense, photo, category>>
  BY DEF UploadImage, AddPhoto, Starts
<1>2. category' \in [Key -> {"none", "active", "archived"}]
  BY <1>1 DEF RowsFiled, UploadsTyped
<1>3. CASE UploadImage(r)
  <2>1. PICK x \in Fixed : Goto(r, "replace", Writing("write", x, path[x], r, None))
    BY <1>3 DEF UploadImage
  <2>2. PICK j, p : j = Writing("write", x, p, r, None) /\ p = path[x]
    OBVIOUS
  <2>3. Goto(r, "replace", j) /\ j.op = "write"
    BY <2>1, <2>2 DEF Writing
  <2>4. /\ stage'[r] = "replace" /\ job'[r] = Writing("write", x, p, r, None)
        /\ job'[r].op = "write" /\ job'[r].row = x /\ job'[r].new = r
        /\ job'[r].category = None /\ job'[r].prior = p
    BY <2>2, <2>3, NewJob
  <2>5. FilingJob(r)'
    BY <2>4 DEF FilingJob, WriteJob
  <2> QED BY <1>1, <1>2, <2>3, <2>5, OneGoesOn
<1>4. CASE AddPhoto(r)
  <2>1. PICK e \in Expenses : Goto(r, "add", Writing("insert", e, None, r, None))
    BY <1>4 DEF AddPhoto
  <2>2. e \in RowKey \ {r}
    BY <1>1, UploadsAssumption DEF Expenses, RowsFiled, RowsApart, Settled
  <2>3. PICK j : j = Writing("insert", e, None, r, None) /\ Goto(r, "add", j)
    BY <2>1
  <2>4. /\ stage'[r] = "add" /\ job'[r] = Writing("insert", e, None, r, None)
        /\ job'[r].op = "insert" /\ job'[r].row = e /\ job'[r].new = r
        /\ job'[r].category = None /\ job'[r].prior = None
    BY <2>3, NewJob
  <2>5. FilingJob(r)'
    BY <2>2, <2>4 DEF FilingJob, InsertJob
  <2> QED BY <1>1, <1>2, <2>3, <2>5, OneGoesOn
<1> QED BY <1>3, <1>4

(* A row is inserted by a request that has inserted none.                  *)
LEMMA RowInserted ==
  ASSUME RowsFiled, Tagged, NEW r \in Req, CreateExpense(r) \/ InsertPhoto(r) PROVE RowsFiled'
<1>1. stage[r] = "add" /\ category' = category
  BY DEF CreateExpense, InsertPhoto
<1>2. /\ InsertJob(r) /\ ~Settled(r) /\ r # Expense0 /\ r \in Slot /\ r \in RowKey /\ r # None
      /\ photo[r] = None /\ expense[r] = None
  BY <1>1, FilingStages, AddsOne, NoneAssumption DEF RowsFiled, RowsApart, Slot, RowKey
<1>3. CASE InsertPhoto(r) /\ job[r].row \notin Expenses
  BY <1>1, <1>3, OneEnds DEF InsertPhoto, RowsFiled, UploadsTyped
<1>4. ASSUME NEW e, NEW p, NEW k, e \in RowKey, k \in Key, End(r, "done"),
             path' = [path EXCEPT ![r] = p],
             \/ UNCHANGED photo /\ expense' = [expense EXCEPT ![r] = k]
             \/ UNCHANGED expense /\ photo' = [photo EXCEPT ![r] = e]
      PROVE  RowsFiled'
  <2>1. \A q \in Req : /\ stage'[q] = IF q = r THEN "done" ELSE stage[q]
                       /\ job'[q] = IF q = r THEN Idle ELSE job[q]
    BY <1>4, ThenEnds
  <2>2. ASSUME NEW x, Settled(x) PROVE Settled(x)' /\ x # r
    BY <1>2, <2>1, <2>2, IdleIsNone DEF Settled
  <2>3. Settled(r)'
    BY <2>1, IdleIsNone DEF Settled
  <2>4. UploadsTyped'
    BY <1>1, <1>4, <1>2 DEF RowsFiled, UploadsTyped
  <2>5. \A x \in RowKey : x # r => expense'[x] = expense[x]
    BY <1>4 DEF RowsFiled, UploadsTyped
  <2>6. \A x \in Req : x # r => photo'[x] = photo[x]
    BY <1>4 DEF RowsFiled, UploadsTyped
  <2>7. \A x \in Slot : x # r => path'[x] = path[x]
    BY <1>4 DEF RowsFiled, UploadsTyped
  <2>8. k # None /\ e # None
    BY <1>4, UploadsAssumption, NoneAssumption DEF RowKey
  <2>9. /\ expense'[r] # None \/ photo'[r] # None
        /\ photo'[r] # None => expense'[r] = None
    BY <1>2, <1>4, <2>8 DEF RowsFiled, UploadsTyped
  <2>10. Slots \cup {r} \subseteq Slots'
    BY <1>2, <2>5, <2>6, <2>9 DEF Slots, Expenses
  <2>11. RowsApart'
    <3>1. \A x \in RowKey : expense'[x] # None => Settled(x)'
      BY <2>2, <2>3, <2>5 DEF RowsFiled, RowsApart
    <3>2. \A x \in Req : photo'[x] # None => Settled(x)' /\ expense'[x] = None
      BY <2>2, <2>3, <2>5, <2>6, <2>9 DEF RowsFiled, RowsApart, RowKey
    <3>3. \A x \in Slot \ Slots' : path'[x] = None
      BY <2>7, <2>10 DEF RowsFiled, RowsApart
    <3> QED BY <3>1, <3>2, <3>3 DEF RowsApart
  <2>12. RowsHeld'
    BY <2>1, <2>10 DEF RowsFiled, RowsHeld, Deletes
  <2>13. ASSUME NEW q \in Writers' PROVE FilingJob(q)'
    <3>1. q \in Writers /\ q # r /\ job'[q] = job[q] /\ stage'[q] = stage[q]
      BY <2>1, <2>13, IdleIsNone DEF Writers
    <3>2. FilingJob(q)
      BY <3>1 DEF RowsFiled, JobsFiled
    <3>3. InsertJob(q) => InsertJob(q)'
      BY <3>1 DEF InsertJob
    <3>4. Settled(job[q].row) => Settled(job[q].row)' /\ job[q].row # r
      BY <2>2, <3>1 DEF Settled
    <3>5. WriteJob(q) => WriteJob(q)'
      BY <2>6, <3>1, <3>4 DEF WriteJob, Deletes, Updates
    <3> QED BY <3>1, <3>2, <3>3, <3>5 DEF FilingJob
  <2> QED BY <2>4, <2>11, <2>12, <2>13 DEF RowsFiled, JobsFiled
<1>5. CASE CreateExpense(r)
  <2>1. job[r].category \in Key
    BY <1>2, <1>5 DEF CreateExpense, InsertJob
  <2>2. Expense0 \in RowKey
    BY DEF RowKey
  <2> QED BY <1>4, <1>5, <2>1, <2>2 DEF CreateExpense
<1>6. CASE InsertPhoto(r) /\ job[r].row \in Expenses
  <2>1. job[r].row \in RowKey
    BY <1>6 DEF Expenses
  <2>2. PICK k \in Key : TRUE
    BY UploadsAssumption
  <2> QED BY <1>4, <1>6, <2>1, <2>2 DEF InsertPhoto
<1> QED BY <1>3, <1>5, <1>6

(* A request that locks its row finds it, or deletes it.                   *)
LEMMA FileReplaced ==
  ASSUME RowsFiled, Tagged, NEW r \in Req, Replace(r) PROVE RowsFiled'
<1>1. /\ stage[r] = "replace" /\ ~Held(job[r].row)
      /\ UNCHANGED <<path, expense, photo, category>>
  BY DEF Replace
<1>2. r \in Writers /\ FilingJob(r) /\ job[r].op = "write" /\ WriteJob(r)
  BY <1>1, FilingStages
<1>3. category' \in [Key -> {"none", "active", "archived"}]
  BY <1>1 DEF RowsFiled, UploadsTyped
<1>4. CASE job[r].row \notin Slots /\ ~Deletes(r)
  BY <1>1, <1>3, <1>4, OneEnds DEF Replace
<1>5. CASE job[r].row \in Slots \/ Deletes(r)
  <2>1. PICK j : j = job[r]
    OBVIOUS
  <2>2. Goto(r, "commit", j)
    BY <1>5, <2>1 DEF Replace
  <2>3. \A q \in Req : /\ stage'[q] = IF q = r THEN "commit" ELSE stage[q]
                       /\ job'[q] = job[q]
    BY <2>1, <2>2, Then
  <2>4. UploadsTyped' /\ Slots' = Slots
    BY <1>1 DEF RowsFiled, UploadsTyped, Slots, Expenses
  <2>5. \A x : Settled(x) => Settled(x)'
    BY <2>3 DEF Settled
  <2>6. RowsApart'
    BY <1>1, <2>4, <2>5 DEF RowsFiled, RowsApart
  <2>7. ASSUME NEW q \in Writers' PROVE FilingJob(q)'
    <3>1. q \in Writers /\ FilingJob(q)
      BY <2>3, <2>7 DEF Writers, RowsFiled, JobsFiled
    <3>2. job'[q] = job[q] /\ (q # r => stage'[q] = stage[q]) /\ (q = r => stage'[q] = "commit")
      BY <2>3, <3>1 DEF Writers
    <3>3. ASSUME WriteJob(q) PROVE WriteJob(q)'
      <4>1. stage'[q] \in {"find", "replace", "commit"}
        BY <3>2, <3>3 DEF WriteJob
      <4>2. CASE job[q].row \in Fixed /\ job[q].category = None /\ job[q].new \in {None, q}
        BY <3>2, <4>1, <4>2 DEF WriteJob
      <4>3. CASE Settled(job[q].row) /\ Deletes(q)
        BY <2>5, <3>2, <4>1, <4>3 DEF WriteJob, Deletes
      <4>4. CASE /\ Settled(job[q].row) /\ Updates(q)
                 /\ job[q].row \in Req => photo[job[q].row] = None
        <5>1. Updates(q)'
          BY <3>2, <4>4 DEF Updates
        <5> QED BY <1>1, <2>5, <3>2, <4>1, <4>4, <5>1 DEF WriteJob
      <4> QED BY <3>3, <4>2, <4>3, <4>4 DEF WriteJob
    <3>4. ASSUME InsertJob(q), q # r PROVE InsertJob(q)'
      BY <3>2, <3>4 DEF InsertJob
    <3>5. job[q].op = "insert" => q # r
      BY <1>2
    <3>6. job'[q] = Writing(job'[q].op, job'[q].row, job'[q].prior, job'[q].new, job'[q].category)
      BY <3>1, <3>2 DEF FilingJob
    <3> QED BY <3>1, <3>2, <3>3, <3>4, <3>5, <3>6 DEF FilingJob
  <2>8. RowsHeld'
    <3>1. \A q \in Req : stage[q] = "commit" => job[q].row # job[r].row
      BY <1>1 DEF Held
    <3>2. \A q \in Req : Deletes(q)' <=> Deletes(q)
      BY <2>3 DEF Deletes
    <3> QED BY <1>5, <2>3, <2>4, <3>1, <3>2 DEF RowsFiled, RowsHeld
  <2> QED BY <2>4, <2>6, <2>7, <2>8 DEF RowsFiled, JobsFiled
<1> QED BY <1>4, <1>5

(* What a commit leaves of the rows.                                       *)
Gone(r) == IF Deletes(r) THEN {job[r].row} \cup Photos(job[r].row) ELSE {}
LEMMA CommitLeaves ==
  ASSUME RowsFiled, Tagged, NEW r \in Req, Commit(r), NEW x, x = job[r].row, NEW gone,
         gone = Gone(r)
  PROVE  /\ stage[r] = "commit" /\ r \in Writers /\ WriteJob(r) /\ gone \subseteq RowKey
         /\ Deletes(r) => x \in gone
         /\ ~Deletes(r) => x \in Slots /\ (x \in Fixed \/ Updates(r))
         /\ \A y \in Slot : path'[y] = IF y \in gone THEN None
                        ELSE IF y = x /\ (x \in Fixed \/ job[r].new # None) THEN job[r].new
                        ELSE path[y]
         /\ \A y \in Req : photo'[y] = IF y \in gone THEN None ELSE photo[y]
         /\ \A y \in RowKey : expense'[y] = IF y \in gone THEN None
                        ELSE IF y = x /\ job[r].category # None THEN job[r].category
                        ELSE expense[y]
         /\ category' = category /\ Slots' = Slots \ gone
         /\ \A q \in Req : /\ stage'[q] = IF q = r THEN "done" ELSE stage[q]
                           /\ job'[q] = IF q = r THEN Idle ELSE job[q]
<1>1. stage[r] = "commit" /\ End(r, "done") /\ UNCHANGED category
  BY DEF Commit
<1>2. r \in Writers /\ WriteJob(r)
  BY <1>1, FilingStages
<1>3. gone \subseteq RowKey /\ (Deletes(r) => x \in gone)
  BY DEF Gone, Deletes, Photos, RowKey
<1>4. ~Deletes(r) => x \in Slots /\ (x \in Fixed \/ Updates(r))
  BY <1>1, <1>2 DEF RowsFiled, RowsHeld, WriteJob
<1>5. \A y \in Slot : path'[y] = IF y \in gone THEN None
                        ELSE IF y = x /\ (x \in Fixed \/ job[r].new # None) THEN job[r].new
                        ELSE path[y]
  BY DEF Commit, Gone
<1>6. \A y \in Req : photo'[y] = IF y \in gone THEN None ELSE photo[y]
  BY DEF Commit, Gone
<1>7. \A y \in RowKey : expense'[y] = IF y \in gone THEN None
                        ELSE IF y = x /\ job[r].category # None THEN job[r].category
                        ELSE expense[y]
  BY DEF Commit, Gone
<1>8. \A q \in Req : /\ stage'[q] = IF q = r THEN "done" ELSE stage[q]
                     /\ job'[q] = IF q = r THEN Idle ELSE job[q]
  BY <1>1, ThenEnds
<1>9. Slots' = Slots \ gone
  <2>1. ASSUME job[r].category # None PROVE expense[x] # None
    <3>1. Updates(r) /\ (x \in Req => photo[x] = None) /\ x \in RowKey
      BY <1>2, <2>1 DEF WriteJob, Deletes, Updates
    <3>2. ~Deletes(r)
      BY <2>1 DEF Deletes
    <3>3. x \in Slots /\ x \notin Fixed
      BY <1>4, <3>1, <3>2, UploadsAssumption DEF RowKey
    <3> QED BY <3>1, <3>3 DEF Slots, Expenses
  <2>2. \A y \in RowKey : expense'[y] # None <=> y \notin gone /\ expense[y] # None
    BY <1>7, <2>1
  <2>3. \A y \in Req : photo'[y] # None <=> y \notin gone /\ photo[y] # None
    BY <1>6
  <2>4. Fixed \cap gone = {}
    BY <1>3, UploadsAssumption DEF RowKey
  <2> QED BY <2>2, <2>3, <2>4 DEF Slots, Expenses
<1> QED BY <1>1, <1>2, <1>3, <1>4, <1>5, <1>6, <1>7, <1>8, <1>9

LEMMA RowCommitted ==
  ASSUME RowsFiled, Tagged, NEW r \in Req, Commit(r) PROVE RowsFiled'
<1>1. PICK x, gone : x = job[r].row /\ gone = Gone(r)
  OBVIOUS
<1>2. /\ stage[r] = "commit" /\ r \in Writers /\ WriteJob(r) /\ gone \subseteq RowKey
      /\ Deletes(r) => x \in gone
      /\ ~Deletes(r) => x \in Slots /\ (x \in Fixed \/ Updates(r))
      /\ category' = category /\ Slots' = Slots \ gone
  BY <1>1, CommitLeaves
<1>3. \A y \in Slot : path'[y] = IF y \in gone THEN None
                        ELSE IF y = x /\ (x \in Fixed \/ job[r].new # None) THEN job[r].new
                        ELSE path[y]
  BY <1>1, CommitLeaves
<1>4. \A y \in Req : photo'[y] = IF y \in gone THEN None ELSE photo[y]
  BY <1>1, CommitLeaves
<1>5. \A y \in RowKey : expense'[y] = IF y \in gone THEN None
                        ELSE IF y = x /\ job[r].category # None THEN job[r].category
                        ELSE expense[y]
  BY <1>1, CommitLeaves
<1>6. \A q \in Req : /\ stage'[q] = IF q = r THEN "done" ELSE stage[q]
                     /\ job'[q] = IF q = r THEN Idle ELSE job[q]
  BY <1>1, CommitLeaves
<1>7. \A y : Settled(y) => Settled(y)'
  BY <1>6, IdleIsNone DEF Settled
<1>8. job[r].category # None =>
        job[r].category \in Key /\ Settled(x) /\ (x \in Req => photo[x] = None)
  BY <1>1, <1>2 DEF WriteJob, Deletes, Updates
<1>9. UploadsTyped'
  <2>1. /\ path' = [y \in Slot |-> path'[y]] /\ photo' = [y \in Req |-> photo'[y]]
        /\ expense' = [y \in RowKey |-> expense'[y]]
    BY DEF Commit
  <2>2. photo' \in [Req -> RowKey \cup {None}]
    BY <1>4, <2>1 DEF RowsFiled, UploadsTyped
  <2>3. expense' \in [RowKey -> Key \cup {None}]
    BY <1>5, <1>8, <2>1 DEF RowsFiled, UploadsTyped
  <2> QED BY <1>2, <2>1, <2>2, <2>3 DEF RowsFiled, UploadsTyped
<1>10. RowsApart'
  <2>1. \A y \in RowKey : expense'[y] # None => Settled(y)'
    BY <1>5, <1>7, <1>8 DEF RowsFiled, RowsApart
  <2>2. \A y \in Req : photo'[y] # None => Settled(y)' /\ expense'[y] = None
    BY <1>4, <1>5, <1>7, <1>8 DEF RowsFiled, RowsApart, RowKey
  <2>3. ASSUME NEW y \in Slot \ Slots' PROVE path'[y] = None
    <3>1. y \in gone \/ y \notin Slots
      BY <1>2, <2>3
    <3>2. x \in Slots \/ Deletes(r)
      BY <1>2
    <3>3. y = x => y \in gone
      BY <1>2, <3>1, <3>2
    <3> QED BY <1>3, <3>1, <3>3 DEF RowsFiled, RowsApart
  <2> QED BY <2>1, <2>2, <2>3 DEF RowsApart
<1>11. RowsHeld'
  <2>1. ASSUME NEW q \in Req, stage'[q] = "commit", ~Deletes(q)' PROVE job'[q].row \in Slots'
    <3>1. q # r /\ stage[q] = "commit" /\ job'[q] = job[q] /\ ~Deletes(q)
      BY <1>6, <2>1 DEF Deletes
    <3>2. job[q].row \in Slots /\ job[q].row # x
      BY <1>1, <1>2, <3>1 DEF RowsFiled, RowsHeld
    <3>3. WriteJob(q)
      BY <3>1, FilingStages
    <3>4. job[q].row \notin Photos(x)
      <4>1. CASE job[q].row \in Fixed
        BY <4>1, UploadsAssumption DEF Photos
      <4>2. CASE Updates(q) /\ (job[q].row \in Req => photo[job[q].row] = None)
        <5>1. x # None
          BY <1>1, <1>2, UploadsAssumption, NoneAssumption DEF WriteJob, Settled
        <5> QED BY <4>2, <5>1 DEF Photos
      <4>3. CASE Deletes(q)
        BY <3>1, <4>3
      <4> QED BY <3>3, <4>1, <4>2, <4>3 DEF WriteJob
    <3> QED BY <1>1, <1>2, <3>1, <3>2, <3>4 DEF Gone
  <2>2. ASSUME NEW q \in Req, NEW p \in Req, stage'[q] = "commit", stage'[p] = "commit",
               job'[p].row = job'[q].row
        PROVE  p = q
    BY <1>6, <2>2 DEF RowsFiled, RowsHeld
  <2> QED BY <2>1, <2>2 DEF RowsHeld
<1>12. ASSUME NEW q \in Writers' PROVE FilingJob(q)'
  <2>1. q \in Writers /\ q # r /\ job'[q] = job[q] /\ stage'[q] = stage[q]
    BY <1>6, <1>12, IdleIsNone DEF Writers
  <2>2. FilingJob(q)
    BY <2>1 DEF RowsFiled, JobsFiled
  <2>3. InsertJob(q) => InsertJob(q)'
    BY <2>1 DEF InsertJob
  <2>4. Settled(job[q].row) => Settled(job[q].row)'
    BY <1>7, <2>1 DEF Settled
  <2>5. WriteJob(q) => WriteJob(q)'
    BY <1>4, <2>1, <2>4 DEF WriteJob, Deletes, Updates
  <2> QED BY <2>1, <2>2, <2>3, <2>5 DEF FilingJob
<1> QED BY <1>9, <1>10, <1>11, <1>12 DEF RowsFiled, JobsFiled

(* The other statements neither write rows nor begin to.                   *)
LEMMA CategoryWritten ==
  ASSUME RowsFiled, Tagged, NEW r \in Req, SetCategory(r) \/ CountUses(r) \/ RemoveCategory(r)
  PROVE  RowsFiled'
<1>1. UNCHANGED <<path, expense, photo>>
  BY DEF SetCategory, CountUses, RemoveCategory
<1>2. category' \in [Key -> {"none", "active", "archived"}]
  <2>1. category \in [Key -> {"none", "active", "archived"}]
    BY DEF RowsFiled, UploadsTyped
  <2>2. CASE SetCategory(r)
    BY <2>1, <2>2 DEF SetCategory
  <2>3. CASE CountUses(r)
    BY <2>1, <2>3 DEF CountUses
  <2>4. CASE RemoveCategory(r)
    BY <2>1, <2>4 DEF RemoveCategory
  <2> QED BY <2>2, <2>3, <2>4
<1>3. CASE SetCategory(r) \/ RemoveCategory(r)
  <2>1. End(r, "done")
    BY <1>3 DEF SetCategory, RemoveCategory
  <2> QED BY <1>1, <1>2, <2>1, OneEnds
<1>4. CASE CountUses(r)
  <2>1. PICK k \in Key :
          Goto(r, "removeCategory",
               [op |-> "removeCategory", key |-> k, used |-> Uses(k) # {}])
    BY <1>4 DEF CountUses
  <2>2. PICK u : u = (Uses(k) # {})
    OBVIOUS
  <2>3. PICK j : j = [op |-> "removeCategory", key |-> k, used |-> u]
    OBVIOUS
  <2>4. Goto(r, "removeCategory", j) /\ j.op = "removeCategory"
    BY <2>1, <2>2, <2>3
  <2> QED BY <1>1, <1>2, <2>4, OneGoesOn
<1> QED BY <1>3, <1>4

LEMMA WriterDies ==
  ASSUME RowsFiled, Tagged, NEW r \in Req, Scan(r) \/ DiesWriting(r) PROVE RowsFiled'
<1>1. /\ End(r, "done") \/ End(r, "crashed")
      /\ UNCHANGED <<path, expense, photo, category>>
  BY DEF Scan, DiesWriting, Dies
<1>2. category' \in [Key -> {"none", "active", "archived"}]
  BY <1>1 DEF RowsFiled, UploadsTyped
<1> QED BY <1>1, <1>2, OneEnds

(* What is not a step of the uploads changes nothing of them, and a crash  *)
(* none of the requests that write.                                        *)
LEMMA UploadsAside ==
  ASSUME Tagged, [Next]_all, ~UploadsStep
  PROVE  /\ UNCHANGED uploadVars /\ Aside(UploadsOps) /\ Writers' = Writers
         /\ \A r \in Writers : job'[r] = job[r] /\ stage'[r] = stage[r]
<1>1. ASSUME NEW r \in Req, NEW o, Mover(r, o) PROVE (o \cup {"none"}) \cap UploadsOps = {}
  BY <1>1 DEF Mover, AccountsOps, TenancyOps, MfaOps, TenantRowsOps, AttendanceOps, UploadsOps,
    CatalogueOps, NoticesOps
<1>2. "none" \notin UploadsOps
  BY DEF UploadsOps
<1>3. UNCHANGED uploadVars
  BY DEF Next, all, Crash, OfficeStep, Rest, officeVars, mfaVars, mfaMemory, uploadVars
<1>4. Aside(UploadsOps)
  BY <1>1, <1>2, AsideUnless
<1>5. ASSUME NEW r \in Writers PROVE job'[r] = job[r] /\ stage'[r] = stage[r]
  <2>1. r \in Req /\ job[r].op \in UploadsOps /\ r \in Holding
    BY DEF Writers, UploadsOps, Holding, Doing
  <2>2. CASE Crash
    <3>1. PICK q \in Req \ Holding : Dies(q)
      BY <2>2 DEF Crash
    <3>2. End(q, "crashed")
      BY <3>1 DEF Dies
    <3> QED BY <2>1, <3>1, <3>2, ThenEnds
  <2>3. CASE ~Crash
    BY <1>4, <2>1, <2>3 DEF Aside
  <2> QED BY <2>2, <2>3
<1>6. Writers' = Writers
  <2>1. ASSUME NEW r \in Writers' PROVE r \in Writers
    <3>1. r \in Req /\ job'[r].op \in UploadsOps /\ job'[r].op \in {"write", "insert"}
      BY <2>1 DEF Writers, UploadsOps
    <3> QED BY <1>4, <3>1 DEF Aside, Writers
  <2>2. ASSUME NEW r \in Writers PROVE r \in Writers'
    BY <1>5, <2>2 DEF Writers
  <2> QED BY <2>1, <2>2
<1> QED BY <1>3, <1>4, <1>5, <1>6

LEMMA RowsHold == ASSUME Tagged, RowsFiled, [Next]_all PROVE RowsFiled'
<1>1. CASE UploadsStep
  <2>1. PICK r \in Req : Filing(r)
    BY <1>1 DEF UploadsStep, Filing
  <2> QED BY <2>1, CategoryAsserted, PriorFound, RowFound, FileSaved, RowInserted, FileReplaced,
    RowCommitted, CategoryWritten, WriterDies DEF Filing
<1>2. CASE ~UploadsStep
  <2>1. /\ UNCHANGED uploadVars /\ Aside(UploadsOps) /\ Writers' = Writers
        /\ \A r \in Writers : job'[r] = job[r] /\ stage'[r] = stage[r]
    BY <1>2, UploadsAside
  <2>2. category' \in [Key -> {"none", "active", "archived"}]
    BY <2>1 DEF uploadVars, RowsFiled, UploadsTyped
  <2>3. \A q \in Req : /\ stage'[q] = "new" => stage[q] = "new"
                       /\ job'[q].op = "insert" => job[q].op = "insert"
    BY <2>1 DEF Aside, UploadsOps
  <2>4. ASSUME NEW q \in Req, stage'[q] = "commit"
        PROVE  stage[q] = "commit" /\ job'[q] = job[q]
    <3>1. Tagged'
      BY NextIsTagged
    <3>2. Tag(job'[q].op, stage'[q])
      BY <3>1 DEF Tagged
    <3>3. job'[q].op = "write"
      BY <2>4, <3>2 DEF Tag, IdleTag, AccountsTag, TenancyTag, MfaTag, TenantRowsTag,
        AttendanceTag, UploadsTag, CatalogueTag, NoticesTag
    <3> QED BY <2>1, <2>4, <3>3 DEF Writers
  <2> QED BY <2>1, <2>2, <2>3, <2>4, RowsStay DEF uploadVars
<1> QED BY <1>1, <1>2

(* A row is what it was inserted as, its request is past the insert, and   *)
(* one request at a time is about to commit a row.                         *)
THEOREM RowsAreFiled == Spec => []RowsFiled
<1>1. Init => RowsFiled
  <2> SUFFICES ASSUME Init PROVE RowsFiled
    OBVIOUS
  <2>1. /\ path = [x \in Slot |-> IF x = Expense0 THEN x ELSE None]
        /\ expense = [x \in RowKey |-> IF x = Expense0 THEN CHOOSE k \in Key : TRUE ELSE None]
        /\ photo = [r \in Req |-> None] /\ category = [k \in Key |-> "active"]
    BY DEF Init, OfficeInit, UploadsInit
  <2>2. \A r \in Req : stage[r] = "new" /\ job[r].op = "none"
    BY IdleIsNone DEF Init, RequestsInit
  <2>3. (CHOOSE k \in Key : TRUE) \in Key
    BY UploadsAssumption
  <2>4. UploadsTyped
    BY <2>1, <2>3 DEF UploadsTyped
  <2>5. Expense0 \in Slots
    BY <2>1, <2>3, UploadsAssumption DEF Slots, Expenses, RowKey
  <2>6. RowsApart
    BY <2>1, <2>2, <2>5 DEF RowsApart, Settled
  <2> QED BY <2>2, <2>4, <2>6 DEF RowsFiled, JobsFiled, RowsHeld, Writers
<1>2. Tagged /\ RowsFiled /\ [Next]_all => RowsFiled'
  BY RowsHold
<1> QED BY <1>1, <1>2, EveryRequestIsTagged, PTL DEF Spec

-----------------------------------------------------------------------------
(***************************************************************************)
(* The categories.  One that an expense has, or that a request gives one,  *)
(* is there; and one that was found unused is used by nobody: or history   *)
(* tells that a request was using it when it was counted or removed.       *)
(***************************************************************************)
InUse ==
  {k \in Key : (\E e \in RowKey : expense[e] = k) \/ \E q \in Writers : job[q].category = k}
CategoriesKept ==
  /\ \A k \in InUse : k \in unsettled \/ category[k] # "none"
  /\ \A r \in Doing("removeCategory") :
       job[r].key \in Key /\ (job[r].used \/ job[r].key \in unsettled \/ job[r].key \notin InUse)

(* Nothing is used that was not, and nobody begins to remove a category.   *)
LEMMA CategoriesStay ==
  ASSUME CategoriesKept, InUse' \subseteq InUse, unsettled' = unsettled,
         \A k \in Key : category[k] # "none" => category'[k] # "none",
         \A q \in Doing("removeCategory")' : q \in Doing("removeCategory") /\ job'[q] = job[q]
  PROVE  CategoriesKept'
  BY DEF CategoriesKept, InUse

(* One request goes on or ends, and uses no category that was not used.    *)
LEMMA UsesNoMore ==
  ASSUME RowsFiled, Tagged, CategoriesKept, NEW r \in Req, NEW s, NEW j, Goto(r, s, j),
         UNCHANGED unsettled, \A k \in Key : category[k] # "none" => category'[k] # "none",
         \A e \in RowKey : expense'[e] \in {expense[e], None, job[r].category},
         r \in Writers \/ UNCHANGED expense,
         j.op # "removeCategory",
         j.op \in {"write", "insert"} => j.category \in {job[r].category, None},
         j.op \in {"write", "insert"} /\ j.category # None => r \in Writers
  PROVE  CategoriesKept'
<1>1. \A q \in Req : /\ stage'[q] = IF q = r THEN s ELSE stage[q]
                     /\ job'[q] = IF q = r THEN j ELSE job[q]
  BY Then
<1>2. InUse' \subseteq InUse
  <2>1. ASSUME NEW k \in InUse' PROVE k \in InUse
    <3>1. k \in Key /\ k # None
      BY <2>1, UploadsAssumption DEF InUse
    <3>2. CASE \E e \in RowKey : expense'[e] = k
      BY <3>1, <3>2 DEF InUse
    <3>3. CASE \E q \in Writers' : job'[q].category = k
      BY <1>1, <3>1, <3>3 DEF InUse, Writers
    <3> QED BY <2>1, <3>2, <3>3 DEF InUse
  <2> QED BY <2>1
<1>3. \A q \in Doing("removeCategory")' : q \in Doing("removeCategory") /\ job'[q] = job[q]
  BY <1>1 DEF Doing
<1> QED BY <1>2, <1>3, CategoriesStay

LEMMA EndsUsing ==
  ASSUME RowsFiled, Tagged, CategoriesKept, NEW r \in Req, NEW s, End(r, s),
         UNCHANGED unsettled, \A k \in Key : category[k] # "none" => category'[k] # "none",
         \A e \in RowKey : expense'[e] \in {expense[e], None, job[r].category},
         r \in Writers \/ UNCHANGED expense
  PROVE  CategoriesKept'
<1>1. PICK j : j = Idle
  OBVIOUS
<1>2. Goto(r, s, j) /\ j.op = "none"
  BY <1>1, IdleIsNone DEF End
<1> QED BY <1>2, UsesNoMore

(* A category that is given to an expense is there, and a removal that is  *)
(* under way is told.                                                      *)
LEMMA AssertedInUse ==
  ASSUME RowsFiled, Tagged, CategoriesKept, NEW r \in Req, AssertCategoryUsable(r)
  PROVE  CategoriesKept'
<1>1. PICK op, k, p, e :
        /\ k \in Key \cup {None}
        /\ IF Unusable(k) THEN End(r, "refused") /\ UNCHANGED unsettled
           ELSE /\ Goto(r, IF e = r THEN "add" ELSE IF p = None THEN "replace" ELSE "find",
                        Writing(IF e = r THEN "insert" ELSE "write", e, None, p, k))
                /\ unsettled' = IF \E q \in Doing("removeCategory") : job[q].key = k
                            THEN unsettled \cup {k} ELSE unsettled
        /\ UNCHANGED <<expense, category>>
  BY DEF AssertCategoryUsable
<1>2. CASE Unusable(k)
  BY <1>1, <1>2, EndsUsing
<1>3. CASE ~Unusable(k)
  <2>1. PICK s, j, o : /\ o = IF e = r THEN "insert" ELSE "write"
                       /\ s = IF e = r THEN "add" ELSE IF p = None THEN "replace" ELSE "find"
                       /\ j = Writing(o, e, None, p, k)
    OBVIOUS
  <2>2. Goto(r, s, j)
    BY <1>1, <1>3, <2>1
  <2>3. j.category = k /\ j.op \in {"insert", "write"}
    BY <2>1 DEF Writing
  <2>4. \A q \in Req : /\ stage'[q] = IF q = r THEN s ELSE stage[q]
                       /\ job'[q] = IF q = r THEN j ELSE job[q]
    BY <2>2, Then
  <2>5. InUse' \subseteq InUse \cup {k}
    BY <1>1, <2>3, <2>4 DEF InUse, Writers
  <2>6. unsettled \subseteq unsettled' /\ UNCHANGED category
    BY <1>1, <1>3
  <2>7. \A i \in InUse' : i \in unsettled' \/ category'[i] # "none"
    <3>1. InUse' \subseteq Key
      BY DEF InUse
    <3> QED BY <1>3, <2>5, <2>6, <3>1, UploadsAssumption DEF CategoriesKept, Unusable
  <2>8. ASSUME NEW q \in Doing("removeCategory")'
        PROVE  /\ job'[q].key \in Key
               /\ job'[q].used \/ job'[q].key \in unsettled' \/ job'[q].key \notin InUse'
    <3>1. q \in Doing("removeCategory") /\ job'[q] = job[q]
      BY <2>3, <2>4, <2>8 DEF Doing
    <3>2. job[q].key = k => k \in unsettled'
      BY <1>1, <1>3, <3>1
    <3> QED BY <2>5, <2>6, <3>1, <3>2 DEF CategoriesKept
  <2> QED BY <2>7, <2>8 DEF CategoriesKept
<1> QED BY <1>2, <1>3

(* Who counts the uses of a category counts those of the expenses; a       *)
(* request that is using it is told.                                       *)
LEMMA CountedInUse ==
  ASSUME RowsFiled, Tagged, CategoriesKept, NEW r \in Req, CountUses(r) PROVE CategoriesKept'
<1>1. PICK k \in Key :
        /\ Goto(r, "removeCategory",
                [op |-> "removeCategory", key |-> k, used |-> Uses(k) # {}])
        /\ unsettled' = IF \E q \in Writers : job[q].category = k
                    THEN unsettled \cup {k} ELSE unsettled
        /\ UNCHANGED <<expense, category>>
  BY DEF CountUses
<1>2. PICK u : u = (Uses(k) # {})
  OBVIOUS
<1>3. PICK j : j = [op |-> "removeCategory", key |-> k, used |-> u]
  OBVIOUS
<1>4. Goto(r, "removeCategory", j) /\ j.op = "removeCategory" /\ j.key = k /\ j.used = u
  BY <1>1, <1>2, <1>3
<1>5. \A q \in Req : /\ stage'[q] = IF q = r THEN "removeCategory" ELSE stage[q]
                     /\ job'[q] = IF q = r THEN j ELSE job[q]
  BY <1>4, Then
<1>6. InUse' \subseteq InUse
  BY <1>1, <1>4, <1>5 DEF InUse, Writers
<1>7. u \/ k \in unsettled' \/ k \notin InUse'
  <2>1. k # None
    BY UploadsAssumption
  <2>2. ~u => \A e \in RowKey : expense[e] # k
    BY <1>2, <2>1 DEF Uses, Expenses
  <2> QED BY <1>1, <1>6, <2>2 DEF InUse
<1>8. unsettled \subseteq unsettled'
  BY <1>1
<1>9. \A i \in InUse' : i \in unsettled' \/ category'[i] # "none"
  BY <1>1, <1>6, <1>8 DEF CategoriesKept
<1>10. ASSUME NEW q \in Doing("removeCategory")'
       PROVE  /\ job'[q].key \in Key
              /\ job'[q].used \/ job'[q].key \in unsettled' \/ job'[q].key \notin InUse'
  <2>1. CASE q = r
    BY <1>4, <1>5, <1>7, <1>10, <2>1 DEF Doing
  <2>2. CASE q # r
    BY <1>5, <1>6, <1>8, <1>10, <2>2 DEF Doing, CategoriesKept
  <2> QED BY <2>1, <2>2
<1> QED BY <1>9, <1>10 DEF CategoriesKept

(* Who removes a category has counted its uses.                            *)
LEMMA RemovedUnused ==
  ASSUME RowsFiled, Tagged, CategoriesKept, NEW r \in Req, RemoveCategory(r)
  PROVE  CategoriesKept'
<1>1. /\ stage[r] = "removeCategory" /\ End(r, "done") /\ UNCHANGED <<expense, unsettled>>
      /\ category' = [category EXCEPT ![job[r].key] =
           IF @ = "none" THEN @ ELSE IF job[r].used THEN "archived" ELSE "none"]
  BY DEF RemoveCategory
<1>2. r \in Doing("removeCategory")
  <2>1. UploadsTag(job[r].op, stage[r])
    BY <1>1, StageTells
  <2> QED BY <1>1, <2>1 DEF UploadsTag, Doing
<1>3. \A q \in Req : /\ stage'[q] = IF q = r THEN "done" ELSE stage[q]
                     /\ job'[q] = IF q = r THEN Idle ELSE job[q]
  BY <1>1, ThenEnds
<1>4. InUse' \subseteq InUse
  BY <1>1, <1>3, IdleIsNone DEF InUse, Writers
<1>5. PICK k \in Key : k = job[r].key
  BY <1>2 DEF CategoriesKept
<1>6. \A i \in Key : category'[i] = "none" => category[i] = "none" \/ (i = k /\ ~job[r].used)
  BY <1>1, <1>5 DEF RowsFiled, UploadsTyped
<1>7. \A i \in InUse' : i \in unsettled' \/ category'[i] # "none"
  BY <1>1, <1>2, <1>4, <1>5, <1>6 DEF CategoriesKept, InUse
<1>8. \A q \in Doing("removeCategory")' : q \in Doing("removeCategory") /\ job'[q] = job[q]
  BY <1>3, IdleIsNone DEF Doing
<1> QED BY <1>1, <1>4, <1>7, <1>8 DEF CategoriesKept

LEMMA FilingKeepsCategories ==
  ASSUME RowsFiled, Tagged, CategoriesKept, NEW r \in Req, Filing(r) PROVE CategoriesKept'
<1>1. CASE AssertCategoryUsable(r) \/ CountUses(r) \/ RemoveCategory(r)
  BY <1>1, AssertedInUse, CountedInUse, RemovedUnused
<1>2. CASE Scan(r) \/ DiesWriting(r)
  <2>1. /\ End(r, "done") \/ End(r, "crashed")
        /\ UNCHANGED <<expense, category, unsettled>>
    BY <1>2 DEF Scan, DiesWriting, Dies
  <2> QED BY <2>1, EndsUsing
<1>3. CASE SetCategory(r)
  <2>1. End(r, "done") /\ UNCHANGED <<expense, unsettled>>
    BY <1>3 DEF SetCategory
  <2>2. \A k \in Key : category[k] # "none" => category'[k] # "none"
    BY <1>3 DEF SetCategory, RowsFiled, UploadsTyped
  <2> QED BY <2>1, <2>2, EndsUsing
<1>4. CASE CreateExpense(r)
  <2>1. /\ stage[r] = "add" /\ End(r, "done") /\ UNCHANGED <<category, unsettled>>
        /\ expense' = [expense EXCEPT ![r] = job[r].category]
    BY <1>4 DEF CreateExpense
  <2>2. \A e \in RowKey : expense'[e] \in {expense[e], None, job[r].category}
    BY <2>1 DEF RowsFiled, UploadsTyped
  <2>3. r \in Writers
    BY <2>1, FilingStages
  <2> QED BY <2>1, <2>2, <2>3, EndsUsing
<1>5. CASE Commit(r)
  <2>1. /\ stage[r] = "commit" /\ End(r, "done") /\ UNCHANGED <<category, unsettled>>
        /\ \A e \in RowKey : expense'[e] \in {expense[e], None, job[r].category}
    BY <1>5 DEF Commit
  <2>2. r \in Writers
    BY <2>1, FilingStages
  <2> QED BY <2>1, <2>2, EndsUsing
<1>6. CASE InsertPhoto(r)
  BY <1>6, EndsUsing DEF InsertPhoto
<1>7. CASE FindPrior(r)
  <2>1. /\ stage[r] = "find" /\ UNCHANGED <<expense, category, unsettled>>
        /\ Goto(r, "replace", [job[r] EXCEPT !.prior = path[job[r].row]])
    BY <1>7 DEF FindPrior, uploadVars
  <2>2. r \in Writers /\ FilingJob(r) /\ job[r].op = "write"
    BY <2>1, FilingStages
  <2>3. PICK j : j = [job[r] EXCEPT !.prior = path[job[r].row]]
    OBVIOUS
  <2>4. j.op = "write" /\ j.category = job[r].category
    BY <2>2, <2>3 DEF FilingJob, Writing
  <2> QED BY <2>1, <2>2, <2>3, <2>4, UsesNoMore
<1>8. CASE Replace(r)
  <2>1. /\ stage[r] = "replace" /\ UNCHANGED <<expense, category, unsettled>>
        /\ End(r, "refused") \/ Goto(r, "commit", job[r])
    BY <1>8 DEF Replace
  <2>2. r \in Writers /\ job[r].op = "write"
    BY <2>1, FilingStages
  <2>3. PICK j : j = job[r]
    OBVIOUS
  <2>4. CASE Goto(r, "commit", j)
    BY <2>1, <2>2, <2>3, <2>4, UsesNoMore
  <2> QED BY <2>1, <2>3, <2>4, EndsUsing
<1>9. CASE FindRow(r) \/ UploadImage(r) \/ AddPhoto(r)
  <2>1. /\ UNCHANGED <<expense, category, unsettled>>
        /\ \/ End(r, "done")
           \/ \E o \in {"write", "insert"} : \E s, x, p, n : Goto(r, s, Writing(o, x, p, n, None))
    BY <1>9 DEF FindRow, UploadImage, AddPhoto, uploadVars
  <2>2. CASE End(r, "done")
    BY <2>1, <2>2, EndsUsing
  <2>3. ASSUME NEW o \in {"write", "insert"}, NEW s, NEW x, NEW p, NEW n,
               Goto(r, s, Writing(o, x, p, n, None))
        PROVE  CategoriesKept'
    <3>1. PICK j : j = Writing(o, x, p, n, None)
      OBVIOUS
    <3>2. j.op # "removeCategory" /\ j.category = None /\ Goto(r, s, j)
      BY <2>3, <3>1 DEF Writing
    <3> QED BY <2>1, <3>2, UsesNoMore
  <2> QED BY <2>1, <2>2, <2>3
<1> QED BY <1>1, <1>2, <1>3, <1>4, <1>5, <1>6, <1>7, <1>8, <1>9 DEF Filing

LEMMA CategoriesHold ==
  ASSUME Tagged, RowsFiled, CategoriesKept, [Next]_all PROVE CategoriesKept'
<1>1. CASE UploadsStep
  <2>1. PICK r \in Req : Filing(r)
    BY <1>1 DEF UploadsStep, Filing
  <2> QED BY <2>1, FilingKeepsCategories
<1>2. CASE ~UploadsStep
  <2>1. /\ UNCHANGED uploadVars /\ Aside(UploadsOps) /\ Writers' = Writers
        /\ \A r \in Writers : job'[r] = job[r]
    BY <1>2, UploadsAside
  <2>2. \A q \in Doing("removeCategory")' : q \in Doing("removeCategory") /\ job'[q] = job[q]
    BY <2>1 DEF Aside, UploadsOps, Doing
  <2>3. InUse' \subseteq InUse /\ UNCHANGED <<category, unsettled>>
    BY <2>1 DEF InUse, uploadVars
  <2> QED BY <2>2, <2>3, CategoriesStay
<1> QED BY <1>1, <1>2

(* An expense keeps a category that is there, unless the category was      *)
(* removed while a request was giving it to the expense.                   *)
THEOREM CategoriesAreKept == Spec => []CategoriesKept
<1>1. Init => CategoriesKept
  <2> SUFFICES ASSUME Init PROVE CategoriesKept
    OBVIOUS
  <2>1. category = [k \in Key |-> "active"]
    BY DEF Init, OfficeInit, UploadsInit
  <2>2. \A r \in Req : job[r].op = "none"
    BY IdleIsNone DEF Init, RequestsInit
  <2> QED BY <2>1, <2>2 DEF CategoriesKept, Doing, InUse
<1>2. Tagged /\ RowsFiled /\ CategoriesKept /\ [Next]_all => CategoriesKept'
  BY CategoriesHold
<1> QED BY <1>1, <1>2, EveryRequestIsTagged, RowsAreFiled, PTL DEF Spec

-----------------------------------------------------------------------------
(***************************************************************************)
(* The files.  A path is claimed by the row that names it, and by the row  *)
(* of every request that read it there or is about to write it.  A path    *)
(* that was not given twice is claimed by one row; a file that has just    *)
(* been saved has no name yet but in the request that saved it; and what a *)
(* request is about to write is there, unless the row is going.            *)
(***************************************************************************)
Target(q) == IF job[q].op = "insert" THEN q ELSE job[q].row
Claims(x, p) ==
  path[x] = p \/ \E q \in Writers : Target(q) = x /\ p \in {job[q].prior, job[q].new}
OneOwner ==
  \A x, y \in Slot : \A p : Claims(x, p) /\ Claims(y, p) /\ p \notin reused \cup {None} => x = y

JustSaved(r) == stage[r] = "new" \/ (r \in Writers /\ job[r].new = r)
HasName(p) ==
  \/ p \in handed \/ \E x \in Slot : path[x] = p
  \/ \E q \in Writers : p = job[q].prior \/ (p = job[q].new /\ p # q)
SavedOnce == \A r \in Req : JustSaved(r) => ~HasName(r)

Updating(q) == /\ job[q].op = "write" /\ job[q].row \in RowKey
               /\ job[q].category # None \/ job[q].new # None
MeetingsKnown ==
  \A q, r \in Writers : q # r /\ Updating(q) /\ Updating(r) /\ job[q].row = job[r].row
                        => job[q].new \in reused \cup {None}

Lasting == files \cup torn \cup reused \cup {None}
Going(r) ==
  \/ job[r].row \notin Slots
  \/ \E q \in Writers : /\ stage[q] = "commit" /\ Deletes(q)
                        /\ job[q].row = job[r].row /\ job[q].prior = job[r].new
StillThere ==
  \A r \in Writers : \/ job[r].new \in Lasting
                     \/ stage[r] \in {"find", "replace"} /\ Updating(r) /\ Going(r)
ReceiptsResolve == \A x \in Slots : path[x] \in Lasting \cup Leaving
FilesKept == SavedOnce /\ OneOwner /\ MeetingsKnown /\ StillThere /\ ReceiptsResolve

(* No name is given but, to a row, the one that request r has saved.       *)
LEMMA SavedStays ==
  ASSUME SavedOnce, NEW r \in Req, \A f \in Req : JustSaved(f)' => JustSaved(f),
         \A p \in Req : HasName(p)' => HasName(p) \/ p = r,
         JustSaved(r)' => ~HasName(r)'
  PROVE  SavedOnce'
  BY DEF SavedOnce

(* One row claims one more path, which no other row claims.                *)
LEMMA OwnersStay ==
  ASSUME OneOwner, reused \subseteq reused', NEW e, NEW n,
         \A x \in Slot : \A p : Claims(x, p)' /\ p # None => Claims(x, p) \/ (x = e /\ p = n),
         n \in reused' \cup {None} \/ \A y \in Slot : Claims(y, n) => y = e
  PROVE  OneOwner'
<1> SUFFICES ASSUME NEW x \in Slot, NEW y \in Slot, NEW p, Claims(x, p)', Claims(y, p)',
                    p \notin reused' \cup {None}
             PROVE  x = y
  BY DEF OneOwner
<1>1. Claims(x, p) \/ (x = e /\ p = n)
  OBVIOUS
<1>2. Claims(y, p) \/ (y = e /\ p = n)
  OBVIOUS
<1>3. Claims(x, p) /\ Claims(y, p) => x = y
  BY DEF OneOwner
<1> QED BY <1>1, <1>2, <1>3

LEMMA MeetingsStay ==
  ASSUME MeetingsKnown, reused \subseteq reused',
         \A q \in Writers' : Updating(q)' => /\ q \in Writers /\ Updating(q)
                                             /\ job'[q].row = job[q].row /\ job'[q].new = job[q].new
  PROVE  MeetingsKnown'
  BY DEF MeetingsKnown

(* Where the rows of requests are.                                         *)
LEMMA WritesRow ==
  ASSUME RowsFiled, Tagged, NEW q \in Writers
  PROVE  /\ q \in Req /\ q \in Slot /\ Target(q) \in Slot /\ FilingJob(q)
         /\ job[q].op = "insert" => stage[q] = "add" /\ ~Settled(q) /\ q \notin Fixed
         /\ job[q].op # "insert" => /\ job[q].op = "write" /\ WriteJob(q) /\ stage[q] # "add"
                                    /\ job[q].row \in Fixed \/ Settled(job[q].row)
         /\ Updating(q) => Updates(q) /\ Settled(job[q].row) /\ ~Deletes(q)
<1>1. q \in Req /\ job[q].op \in {"write", "insert"} /\ FilingJob(q)
  BY DEF Writers, RowsFiled, JobsFiled
<1>2. q \in Slot
  BY <1>1 DEF Slot, RowKey
<1>3. CASE job[q].op = "insert"
  <2>1. stage[q] = "add"
    BY <1>1, <1>3 DEF FilingJob, InsertJob
  <2>2. ~Settled(q) /\ q \notin Fixed
    BY <1>1, <2>1, AddsOne, UploadsAssumption
  <2> QED BY <1>1, <1>2, <1>3, <2>1, <2>2 DEF Target, Updating
<1>4. CASE job[q].op = "write"
  <2>1. WriteJob(q) /\ stage[q] # "add"
    BY <1>1, <1>4 DEF FilingJob, WriteJob
  <2>2. job[q].row \in Fixed \/ Settled(job[q].row)
    BY <2>1 DEF WriteJob
  <2>3. job[q].row \in Slot
    BY <2>2 DEF Settled, Slot, RowKey
  <2>4. job[q].row \in Fixed => job[q].row \notin RowKey
    BY UploadsAssumption DEF RowKey
  <2>5. Updating(q) => Updates(q) /\ Settled(job[q].row) /\ ~Deletes(q)
    BY <2>1, <2>4 DEF WriteJob, Updating, Deletes
  <2> QED BY <1>1, <1>2, <1>4, <2>1, <2>2, <2>3, <2>5 DEF Target
<1> QED BY <1>1, <1>3, <1>4

(* A request ends.  What it has written, if it has, was claimed by its row.*)
LEMMA EndKeepsFiles ==
  ASSUME RowsFiled, Tagged, FilesKept, NEW r \in Req, NEW s, End(r, s), s # "new",
         s # "commit", UNCHANGED reused, files \subseteq files', torn \subseteq torn',
         handed' = handed \/ (stage[r] = "new" /\ handed' = handed \cup {r}),
         \A x \in Slot : \/ path'[x] \in {path[x], None}
                         \/ r \in Writers /\ x = Target(r) /\ path'[x] = job[r].new,
         Slots' \subseteq Slots \/ (stage[r] = "add" /\ Slots' \subseteq Slots \cup {r}),
         stage[r] = "commit" /\ Deletes(r) => job[r].row \notin Slots' \/ job[r].prior \in torn'
  PROVE  SavedOnce' /\ OneOwner' /\ MeetingsKnown' /\ StillThere'
<1>1. \A q \in Req : /\ stage'[q] = IF q = r THEN s ELSE stage[q]
                     /\ job'[q] = IF q = r THEN Idle ELSE job[q]
  BY ThenEnds
<1>2. Writers' = Writers \ {r}
  BY <1>1, IdleIsNone DEF Writers
<1>3. \A q \in Writers' : q \in Req /\ q \in Writers /\ q # r /\ job'[q] = job[q]
                          /\ stage'[q] = stage[q]
  BY <1>1, <1>2 DEF Writers
<1>4. SavedOnce'
  <2>1. \A f \in Req : JustSaved(f)' => JustSaved(f) /\ f # r
    BY <1>1, <1>3, <1>2 DEF JustSaved
  <2>2. ASSUME NEW p \in Req, HasName(p)' PROVE HasName(p) \/ p = r
    <3>1. p # None
      BY NoneAssumption
    <3>2. CASE p \in handed'
      BY <3>2 DEF HasName
    <3>3. CASE \E x \in Slot : path'[x] = p
      BY <3>1, <3>3 DEF HasName
    <3>4. CASE \E q \in Writers' : p = job'[q].prior \/ (p = job'[q].new /\ p # q)
      BY <1>3, <3>4 DEF HasName
    <3> QED BY <2>2, <3>2, <3>3, <3>4 DEF HasName
  <2> QED BY <2>1, <2>2, SavedStays DEF FilesKept
<1>5. OneOwner'
  <2>1. ASSUME NEW x \in Slot, NEW p, Claims(x, p)', p # None PROVE Claims(x, p)
    <3>1. CASE path'[x] = p
      BY <2>1, <3>1 DEF Claims
    <3>2. CASE \E q \in Writers' : Target(q)' = x /\ p \in {job'[q].prior, job'[q].new}
      BY <1>3, <3>2 DEF Claims, Target
    <3> QED BY <2>1, <3>1, <3>2 DEF Claims
  <2>2. PICK n : n = None
    OBVIOUS
  <2> QED BY <2>1, <2>2, OwnersStay DEF FilesKept
<1>6. MeetingsKnown'
  BY <1>3, MeetingsStay DEF FilesKept, Updating
<1>7. StillThere'
  <2> SUFFICES ASSUME NEW q \in Writers'
               PROVE  \/ job'[q].new \in Lasting'
                      \/ stage'[q] \in {"find", "replace"} /\ Updating(q)' /\ Going(q)'
    BY DEF StillThere
  <2>1. Lasting \subseteq Lasting' /\ q \in Writers /\ job'[q] = job[q] /\ stage'[q] = stage[q]
    BY <1>3 DEF Lasting
  <2>2. CASE job[q].new \in Lasting
    BY <2>1, <2>2
  <2>3. CASE /\ stage[q] \in {"find", "replace"} /\ Updating(q)
             /\ job[q].row \notin Slots
    <3>1. job[q].row # r \/ stage[r] # "add"
      BY <2>1, <2>3, WritesRow, AddsOne
    <3>2. job'[q].row \notin Slots'
      BY <2>1, <2>3, <3>1
    <3> QED BY <2>1, <2>3, <3>2 DEF Going, Updating
  <2>4. ASSUME stage[q] \in {"find", "replace"}, Updating(q), NEW d \in Writers,
               stage[d] = "commit", Deletes(d), job[d].row = job[q].row,
               job[d].prior = job[q].new
        PROVE  job'[q].new \in Lasting' \/ Going(q)'
    <3>1. CASE d = r
      BY <2>1, <2>4, <3>1 DEF Lasting, Going
    <3>2. CASE d # r
      <4>1. d \in Writers' /\ job'[d] = job[d] /\ stage'[d] = stage[d]
        BY <1>2, <1>3, <3>2
      <4> QED BY <2>1, <2>4, <4>1 DEF Going, Deletes
    <3> QED BY <3>1, <3>2
  <2> QED BY <2>1, <2>2, <2>3, <2>4 DEF FilesKept, StillThere, Going, Updating
<1> QED BY <1>4, <1>5, <1>6, <1>7

(* A row that keeps its name, or is given one that is there, resolves.     *)
LEMMA StillResolves ==
  ASSUME RowsFiled, Tagged, FilesKept, NEW r \in Req, NEW s, End(r, s), s # "new",
         s # "commit", UNCHANGED reused, files \subseteq files', torn \subseteq torn',
         \A x \in Slots' : \/ path'[x] \in Lasting
                           \/ /\ x \in Slots /\ path'[x] = path[x]
                              /\ \/ stage[r] # "commit" \/ path[x] # job[r].prior
                                 \/ job[r].prior \in torn'
  PROVE  ReceiptsResolve'
<1>1. \A q \in Req : /\ stage'[q] = IF q = r THEN s ELSE stage[q]
                     /\ job'[q] = IF q = r THEN Idle ELSE job[q]
  BY ThenEnds
<1>2. Lasting \subseteq Lasting'
  BY DEF Lasting
<1>3. ASSUME NEW p \in Leaving, p # job[r].prior \/ stage[r] # "commit" PROVE p \in Leaving'
  <2>1. PICK q \in Req : stage[q] = "commit" /\ p = job[q].prior
    BY <1>3 DEF Leaving
  <2>2. q # r
    BY <1>3, <2>1
  <2>3. stage'[q] = "commit" /\ p = job'[q].prior
    BY <1>1, <2>1, <2>2
  <2> QED BY <2>3 DEF Leaving
<1>4. ASSUME NEW x \in Slots' PROVE path'[x] \in Lasting' \cup Leaving'
  <2>1. CASE path'[x] \in Lasting
    BY <1>2, <2>1
  <2>2. CASE /\ x \in Slots /\ path'[x] = path[x]
             /\ \/ stage[r] # "commit" \/ path[x] # job[r].prior
                \/ job[r].prior \in torn'
    <3>1. path[x] \in Lasting \cup Leaving
      BY <2>2 DEF FilesKept, ReceiptsResolve
    <3>2. torn' \subseteq Lasting'
      BY DEF Lasting
    <3> QED BY <1>2, <1>3, <2>2, <3>1, <3>2
  <2> QED BY <1>4, <2>1, <2>2
<1> QED BY <1>4 DEF ReceiptsResolve

(* Requests that end without writing a row, and a file that a scan saves.  *)
LEMMA EndedKeepsFiles ==
  ASSUME RowsFiled, Tagged, FilesKept, NEW r \in Req, NEW s, End(r, s), s # "new",
         s # "commit", UNCHANGED <<path, expense, photo, reused>>,
         files \subseteq files', torn \subseteq torn',
         handed' = handed \/ (stage[r] = "new" /\ handed' = handed \cup {r}),
         stage[r] = "commit" => job[r].prior \in torn'
  PROVE  FilesKept'
<1>1. Slots' = Slots
  BY DEF Slots, Expenses
<1>2. SavedOnce' /\ OneOwner' /\ MeetingsKnown' /\ StillThere'
  BY <1>1, EndKeepsFiles
<1>3. ReceiptsResolve'
  BY <1>1, StillResolves
<1> QED BY <1>2, <1>3 DEF FilesKept

LEMMA EndingKeepsFiles ==
  ASSUME RowsFiled, Tagged, FilesKept, NEW r \in Req,
         \/ Scan(r) \/ DiesWriting(r) \/ SetCategory(r) \/ RemoveCategory(r)
         \/ AssertCategoryUsable(r) /\ End(r, "refused") /\ UNCHANGED reused
         \/ FindRow(r) /\ End(r, "done")
         \/ InsertPhoto(r) /\ job[r].row \notin Expenses
         \/ Replace(r) /\ End(r, "refused") /\ UNCHANGED files
  PROVE  FilesKept'
<1>1. CASE Scan(r)
  <2>1. /\ stage[r] = "new" /\ End(r, "done") /\ files' = files \cup {r}
        /\ handed' = handed \cup {r} /\ UNCHANGED <<path, expense, photo, reused, torn>>
    BY <1>1 DEF Scan, Starts
  <2> QED BY <2>1, EndedKeepsFiles
<1>2. CASE DiesWriting(r)
  <2>1. /\ End(r, "crashed")
        /\ torn' = IF stage[r] = "commit" THEN torn \cup {job[r].prior} ELSE torn
        /\ UNCHANGED <<path, expense, photo, reused, files, handed>>
    BY <1>2 DEF DiesWriting, Dies
  <2> QED BY <2>1, EndedKeepsFiles
<1>3. CASE SetCategory(r)
  <2>1. /\ stage[r] = "new" /\ End(r, "done")
        /\ UNCHANGED <<path, expense, photo, reused, files, handed, torn>>
    BY <1>3 DEF SetCategory, Starts
  <2> QED BY <2>1, EndedKeepsFiles
<1>4. CASE RemoveCategory(r)
  <2>1. /\ stage[r] = "removeCategory" /\ End(r, "done")
        /\ UNCHANGED <<path, expense, photo, reused, files, handed, torn>>
    BY <1>4 DEF RemoveCategory
  <2> QED BY <2>1, EndedKeepsFiles
<1>5. CASE AssertCategoryUsable(r) /\ End(r, "refused") /\ UNCHANGED reused
  <2>1. stage[r] = "new" /\ UNCHANGED <<path, expense, photo, files, handed, torn>>
    BY <1>5 DEF AssertCategoryUsable, Starts
  <2> QED BY <1>5, <2>1, EndedKeepsFiles
<1>6. CASE FindRow(r) /\ End(r, "done")
  <2>1. stage[r] = "new" /\ UNCHANGED <<path, expense, photo, reused, files, handed, torn>>
    BY <1>6 DEF FindRow, Starts, uploadVars
  <2> QED BY <1>6, <2>1, EndedKeepsFiles
<1>7. CASE InsertPhoto(r) /\ job[r].row \notin Expenses
  <2>1. /\ stage[r] = "add" /\ End(r, "refused")
        /\ UNCHANGED <<path, expense, photo, reused, files, handed, torn>>
    BY <1>7 DEF InsertPhoto
  <2> QED BY <2>1, EndedKeepsFiles
<1>8. CASE Replace(r) /\ End(r, "refused") /\ UNCHANGED files
  <2>1. stage[r] = "replace" /\ UNCHANGED <<path, expense, photo, reused, handed, torn>>
    BY <1>8 DEF Replace
  <2> QED BY <1>8, <2>1, EndedKeepsFiles
<1> QED BY <1>1, <1>2, <1>3, <1>4, <1>5, <1>6, <1>7, <1>8

(* A row is inserted with a path that is there.                            *)
LEMMA InsertKeepsFiles ==
  ASSUME RowsFiled, Tagged, FilesKept, NEW r \in Req,
         CreateExpense(r) \/ (InsertPhoto(r) /\ job[r].row \in Expenses)
  PROVE  FilesKept'
<1>1. /\ stage[r] = "add" /\ End(r, "done") /\ UNCHANGED <<files, handed, reused, torn>>
  BY DEF CreateExpense, InsertPhoto
<1>2. r \in Writers /\ job[r].op = "insert" /\ InsertJob(r)
  BY <1>1, FilingStages
<1>3. path' = [path EXCEPT ![r] = job[r].new]
  BY <1>2 DEF CreateExpense, InsertPhoto, InsertJob
<1>4. /\ \A x \in Slot : path'[x] = IF x = r THEN job[r].new ELSE path[x]
      /\ Target(r) = r
  BY <1>2, <1>3 DEF RowsFiled, UploadsTyped, Target
<1>5. Slots' \subseteq Slots \cup {r}
  <2>1. CASE CreateExpense(r)
    <3>1. \A e \in RowKey : e # r => expense'[e] = expense[e]
      BY <2>1 DEF CreateExpense, RowsFiled, UploadsTyped
    <3>2. UNCHANGED photo
      BY <2>1 DEF CreateExpense
    <3> QED BY <3>1, <3>2 DEF Slots, Expenses
  <2>2. CASE InsertPhoto(r) /\ job[r].row \in Expenses
    <3>1. \A e \in Req : e # r => photo'[e] = photo[e]
      BY <2>2 DEF InsertPhoto, RowsFiled, UploadsTyped
    <3>2. UNCHANGED expense
      BY <2>2 DEF InsertPhoto
    <3> QED BY <3>1, <3>2 DEF Slots, Expenses
  <2> QED BY <2>1, <2>2
<1>6. SavedOnce' /\ OneOwner' /\ MeetingsKnown' /\ StillThere'
  <2>1. \A x \in Slot : \/ path'[x] \in {path[x], None}
                        \/ r \in Writers /\ x = Target(r) /\ path'[x] = job[r].new
    BY <1>2, <1>4
  <2>2. Slots' \subseteq Slots \/ (stage[r] = "add" /\ Slots' \subseteq Slots \cup {r})
    BY <1>1, <1>5
  <2>3. stage[r] # "commit"
    BY <1>1
  <2> QED BY <1>1, <2>1, <2>2, <2>3, EndKeepsFiles
<1>7. job[r].new \in Lasting
  BY <1>1, <1>2 DEF FilesKept, StillThere
<1>8. ReceiptsResolve'
  <2>1. \A x \in Slots : x \in Slot
    BY SlotIs
  <2>2. \A x \in Slots' : path'[x] \in Lasting \/ (x \in Slots /\ path'[x] = path[x])
    BY <1>2, <1>4, <1>5, <1>7, <2>1, WritesRow
  <2>3. stage[r] # "commit"
    BY <1>1
  <2> QED BY <1>1, <2>2, <2>3, StillResolves
<1> QED BY <1>6, <1>8 DEF FilesKept

(* A commit gives its row the path that was to be written, which is there. *)
(* What it removed is named by no other row, nor by this one unless the    *)
(* row keeps the path.                                                     *)
LEMMA CommitKeepsFiles ==
  ASSUME RowsFiled, Tagged, FilesKept, NEW r \in Req, Commit(r) PROVE FilesKept'
<1>1. PICK x, gone : x = job[r].row /\ gone = Gone(r)
  OBVIOUS
<1>2. /\ stage[r] = "commit" /\ r \in Writers /\ WriteJob(r) /\ gone \subseteq RowKey
      /\ Deletes(r) => x \in gone
      /\ ~Deletes(r) => x \in Slots /\ (x \in Fixed \/ Updates(r))
      /\ Slots' = Slots \ gone
  BY <1>1, CommitLeaves
<1>3. \A y \in Slot : path'[y] = IF y \in gone THEN None
                        ELSE IF y = x /\ (x \in Fixed \/ job[r].new # None) THEN job[r].new
                        ELSE path[y]
  BY <1>1, CommitLeaves
<1>4. End(r, "done") /\ UNCHANGED <<files, handed, reused, torn>>
  BY DEF Commit
<1>5. job[r].op = "write" /\ Target(r) = x /\ x \in Slot
  BY <1>1, <1>2, FilingStages, WritesRow DEF Target
<1>6. SavedOnce' /\ OneOwner' /\ MeetingsKnown' /\ StillThere'
  <2>1. \A y \in Slot : \/ path'[y] \in {path[y], None}
                        \/ r \in Writers /\ y = Target(r) /\ path'[y] = job[r].new
    BY <1>2, <1>3, <1>5
  <2>2. Deletes(r) => job[r].row \notin Slots'
    BY <1>1, <1>2
  <2> QED BY <1>2, <1>4, <2>1, <2>2, EndKeepsFiles
<1>7. job[r].new \in Lasting
  BY <1>2 DEF FilesKept, StillThere
<1>8. ReceiptsResolve'
  <2> SUFFICES ASSUME NEW y \in Slots', path'[y] \notin Lasting
               PROVE  y \in Slots /\ path'[y] = path[y] /\ path[y] # job[r].prior
    BY <1>4, StillResolves
  <2>1. y \in Slots /\ y \notin gone /\ y \in Slot
    BY <1>2, SlotIs
  <2>2. path'[y] = path[y] /\ ~(y = x /\ (x \in Fixed \/ job[r].new # None))
    BY <1>3, <1>7, <2>1
  <2>3. path[y] \notin reused \cup {None}
    BY <2>2 DEF Lasting
  <2>4. ASSUME path[y] = job[r].prior PROVE FALSE
    <3>1. Claims(y, path[y]) /\ Claims(x, path[y])
      BY <1>2, <1>5, <2>4 DEF Claims
    <3>2. y = x
      BY <1>5, <2>1, <2>3, <3>1 DEF FilesKept, OneOwner
    <3>3. Updates(r) /\ job[r].new = None
      BY <1>2, <2>1, <2>2, <3>2
    <3> QED BY <2>3, <2>4, <3>3 DEF Updates
  <2> QED BY <2>1, <2>2, <2>4
<1> QED BY <1>6, <1>8 DEF FilesKept

(* A request goes on, but not to be about to commit.  What it is about to  *)
(* write is there, or it was already about to write it.                    *)
LEMMA GoingOnKeepsFiles ==
  ASSUME RowsFiled, Tagged, FilesKept, NEW r \in Req, NEW s, NEW j, Goto(r, s, j),
         stage[r] # "commit", s # "commit", s # "new", UNCHANGED <<path, expense, photo, torn>>,
         files \subseteq files', reused \subseteq reused',
         SavedOnce', OneOwner', MeetingsKnown',
         r \in Writers' =>
           \/ j.new \in Lasting'
           \/ /\ r \in Writers /\ j.new = job[r].new /\ j.row = job[r].row
              /\ s \in {"find", "replace"} /\ Updating(r)' /\ stage[r] \in {"find", "replace"}
  PROVE  FilesKept'
<1>1. \A q \in Req : /\ stage'[q] = IF q = r THEN s ELSE stage[q]
                     /\ job'[q] = IF q = r THEN j ELSE job[q]
  BY Then
<1>2. Slots' = Slots /\ Lasting \subseteq Lasting'
  BY DEF Slots, Expenses, Lasting
<1>3. ASSUME NEW d \in Writers, stage[d] = "commit"
      PROVE  d \in Writers' /\ d # r /\ job'[d] = job[d] /\ stage'[d] = stage[d]
  BY <1>1, <1>3 DEF Writers
<1>4. ASSUME NEW q \in Writers, NEW x, NEW n, x = job[q].row, n = job[q].new, Going(q),
             NEW p \in Writers', job'[p].row = x, job'[p].new = n
      PROVE  Going(p)'
  <2>1. CASE x \notin Slots
    BY <1>2, <1>4, <2>1 DEF Going
  <2>2. ASSUME NEW d \in Writers, stage[d] = "commit", Deletes(d), job[d].row = x,
               job[d].prior = n
        PROVE  Going(p)'
    <3>1. d \in Writers' /\ job'[d] = job[d] /\ stage'[d] = stage[d]
      BY <1>3, <2>2
    <3> QED BY <1>4, <2>2, <3>1 DEF Going, Deletes
  <2> QED BY <1>4, <2>1, <2>2 DEF Going
<1>5. StillThere'
  <2> SUFFICES ASSUME NEW q \in Writers'
               PROVE  \/ job'[q].new \in Lasting'
                      \/ stage'[q] \in {"find", "replace"} /\ Updating(q)' /\ Going(q)'
    BY DEF StillThere
  <2>1. q \in Req
    BY DEF Writers
  <2>2. CASE q = r
    <3>1. job'[r] = j /\ stage'[r] = s
      BY <1>1
    <3>2. CASE j.new \in Lasting'
      BY <2>2, <3>1, <3>2
    <3>3. CASE /\ r \in Writers /\ j.new = job[r].new /\ j.row = job[r].row
               /\ s \in {"find", "replace"} /\ Updating(r)' /\ stage[r] \in {"find", "replace"}
      <4>1. job[r].new \in Lasting \/ Going(r)
        BY <3>3 DEF FilesKept, StillThere
      <4>2. CASE job[r].new \in Lasting
        BY <1>2, <2>2, <3>1, <3>3, <4>2
      <4>3. CASE Going(r)
        <5>1. Going(q)'
          BY <1>4, <2>2, <3>1, <3>3, <4>3
        <5> QED BY <2>2, <3>1, <3>3, <5>1
      <4> QED BY <4>1, <4>2, <4>3
    <3> QED BY <2>2, <3>2, <3>3
  <2>3. CASE q # r
    <3>1. q \in Writers /\ job'[q] = job[q] /\ stage'[q] = stage[q]
      BY <1>1, <2>1, <2>3 DEF Writers
    <3>2. Going(q) => Going(q)'
      BY <1>4, <3>1
    <3> QED BY <1>2, <3>1, <3>2 DEF FilesKept, StillThere, Updating
  <2> QED BY <2>2, <2>3
<1>6. ReceiptsResolve'
  <2>1. Leaving \subseteq Leaving'
    BY <1>1 DEF Leaving
  <2> QED BY <1>2, <2>1 DEF FilesKept, ReceiptsResolve
<1> QED BY <1>5, <1>6 DEF FilesKept

(* A request that begins names what others may have named; and history     *)
(* tells if they have, or if two updates of one row have met.              *)
LEMMA AssertKeepsFiles ==
  ASSUME RowsFiled, Tagged, FilesKept, NEW r \in Req, AssertCategoryUsable(r)
  PROVE  FilesKept'
<1>1. PICK k \in Key \cup {None}, p \in handed \cup {None}, e \in Expenses \cup {r} :
        /\ stage[r] = "new"
        /\ IF Unusable(k) THEN End(r, "refused") /\ UNCHANGED reused
           ELSE /\ Goto(r, IF e = r THEN "add" ELSE IF p = None THEN "replace" ELSE "find",
                        Writing(IF e = r THEN "insert" ELSE "write", e, None, p, k))
                /\ reused' = reused \cup Reused(e, p)
        /\ UNCHANGED <<files, handed, path, expense, photo, torn>>
  BY DEF AssertCategoryUsable, Starts
<1>2. CASE Unusable(k)
  BY <1>1, <1>2, EndingKeepsFiles
<1>3. CASE ~Unusable(k)
  <2>1. PICK s, j, o : /\ o = IF e = r THEN "insert" ELSE "write"
                       /\ s = IF e = r THEN "add" ELSE IF p = None THEN "replace" ELSE "find"
                       /\ j = Writing(o, e, None, p, k)
    OBVIOUS
  <2>2. Goto(r, s, j) /\ s \in {"add", "find", "replace"} /\ (e = r => o = "insert")
        /\ (e # r => o = "write")
    BY <1>1, <1>3, <2>1
  <2>3. /\ j.op = o /\ j.row = e /\ j.prior = None /\ j.new = p /\ j.category = k
    BY <2>1 DEF Writing
  <2>4. \A q \in Req : /\ stage'[q] = IF q = r THEN s ELSE stage[q]
                       /\ job'[q] = IF q = r THEN j ELSE job[q]
    BY <2>2, Then
  <2>5. Writers' = Writers \cup {r} /\ r \notin Writers
    <3>1. job[r].op = "none"
      BY <1>1, StageTells
    <3> QED BY <2>2, <2>3, <2>4, <3>1 DEF Writers
  <2>6. \A q \in Writers : q \in Req /\ q # r /\ job'[q] = job[q] /\ stage'[q] = stage[q]
    BY <2>4, <2>5 DEF Writers
  <2>7. reused \subseteq reused' /\ Reused(e, p) \subseteq reused'
    BY <1>1, <1>3
  <2>8. JustSaved(r) /\ r \notin handed
    BY <1>1 DEF JustSaved, FilesKept, SavedOnce, HasName
  <2>9. SavedOnce'
    <3>1. \A f \in Req : JustSaved(f)' => JustSaved(f)
      BY <2>4, <2>5, <2>6, <2>8 DEF JustSaved
    <3>2. ASSUME NEW f \in Req, HasName(f)' PROVE HasName(f)
      <4>1. CASE f \in handed' \/ \E x \in Slot : path'[x] = f
        BY <1>1, <4>1 DEF HasName
      <4>2. CASE \E q \in Writers : f = job'[q].prior \/ (f = job'[q].new /\ f # q)
        BY <2>6, <4>2 DEF HasName
      <4>3. CASE f = job'[r].prior \/ (f = job'[r].new /\ f # r)
        <5>1. f \in handed
          BY <1>1, <2>3, <2>4, <4>3, NoneAssumption
        <5> QED BY <5>1 DEF HasName
      <4> QED BY <2>5, <3>2, <4>1, <4>2, <4>3 DEF HasName
    <3>3. JustSaved(r)' => ~HasName(r)'
      BY <2>8, <3>2 DEF FilesKept, SavedOnce
    <3> QED BY <3>1, <3>2, <3>3, SavedStays DEF FilesKept
  <2>10. OneOwner'
    <3>1. ASSUME NEW x \in Slot, NEW n, Claims(x, n)', n # None
          PROVE  Claims(x, n) \/ (x = e /\ n = p)
      <4>1. CASE path'[x] = n
        BY <1>1, <4>1 DEF Claims
      <4>2. CASE \E q \in Writers : Target(q)' = x /\ n \in {job'[q].prior, job'[q].new}
        BY <2>6, <4>2 DEF Claims, Target
      <4>3. CASE Target(r)' = x /\ n \in {job'[r].prior, job'[r].new}
        BY <2>2, <2>3, <2>4, <3>1, <4>3 DEF Target
      <4> QED BY <2>5, <3>1, <4>1, <4>2, <4>3 DEF Claims
    <3>2. p \in reused' \cup {None} \/ \A y \in Slot : Claims(y, p) => y = e
      <4>1. CASE p = None \/ GivenBefore(e, p)
        BY <2>7, <4>1 DEF Reused
      <4>2. CASE p # None /\ ~GivenBefore(e, p)
        <5>1. ASSUME NEW y \in Slot, Claims(y, p) PROVE y = e
          <6>1. path[y] = p
            BY <4>2, <5>1 DEF Claims, GivenBefore
          <6>2. y \in Slots
            BY <4>2, <6>1 DEF RowsFiled, RowsApart
          <6> QED BY <4>2, <6>1, <6>2 DEF GivenBefore
        <5> QED BY <5>1
      <4> QED BY <4>1, <4>2
    <3>3. PICK y, n : y = e /\ n = p
      OBVIOUS
    <3> QED BY <2>7, <3>1, <3>2, <3>3, OwnersStay DEF FilesKept
  <2>11. MeetingsKnown'
    <3>1. ASSUME NEW q \in Writers, job[q].row = e
          PROVE  job[q].new \in reused' /\ p \in reused' \cup {None}
      <4>1. q \in Meeting(e)
        BY <3>1 DEF Meeting
      <4> QED BY <2>7, <4>1 DEF Reused
    <3> SUFFICES ASSUME NEW q \in Writers', NEW d \in Writers', q # d, Updating(q)', Updating(d)',
                        job'[q].row = job'[d].row
                 PROVE  job'[q].new \in reused' \cup {None}
      BY DEF MeetingsKnown
    <3>2. CASE q = r
      <4>1. d \in Writers /\ job[d].row = e /\ job'[q].new = p
        BY <2>3, <2>4, <2>5, <2>6, <3>2
      <4> QED BY <3>1, <4>1
    <3>3. CASE d = r
      <4>1. q \in Writers /\ job[q].row = e /\ job'[q].new = job[q].new
        BY <2>3, <2>4, <2>5, <2>6, <3>3
      <4> QED BY <3>1, <4>1
    <3>4. CASE q # r /\ d # r
      BY <2>5, <2>6, <2>7, <3>4 DEF FilesKept, MeetingsKnown, Updating
    <3> QED BY <3>2, <3>3, <3>4
  <2>12. p \in Lasting'
    BY <1>1, <2>7 DEF Lasting, Reused, GivenBefore
  <2> QED BY <1>1, <2>2, <2>3, <2>7, <2>9, <2>10, <2>11, <2>12, GoingOnKeepsFiles
<1> QED BY <1>2, <1>3

(* A request that reads the path of a row claims what the row claims.      *)
LEMMA ReadKeepsFiles ==
  ASSUME RowsFiled, Tagged, FilesKept, NEW r \in Req, NEW s \in {"add", "replace"}, NEW j, NEW x,
         Goto(r, s, j), stage[r] # "commit",
         UNCHANGED <<path, expense, photo, torn, handed, reused>>,
         x \in Slot, j = Writing(j.op, j.row, j.prior, j.new, j.category),
         \/ j.op = "insert" /\ s = "add" /\ x = r
         \/ j.op = "write" /\ s = "replace" /\ x = j.row,
         j.prior \in {path[x], None},
         \/ stage[r] = "new" /\ j.new = None /\ files' = files
         \/ stage[r] = "new" /\ j.new = r /\ files' = files \cup {r}
         \/ /\ r \in Writers /\ stage[r] = "find"
            /\ j = [job[r] EXCEPT !.prior = path[x]] /\ files' = files,
         stage[r] = "new" => j.category = None,
         stage[r] = "new" => j.op = "insert" \/ j.new = None \/ j.row \in Fixed
  PROVE  FilesKept'
<1>1. \A q \in Req : /\ stage'[q] = IF q = r THEN s ELSE stage[q]
                     /\ job'[q] = IF q = r THEN j ELSE job[q]
  BY Then
<1>2. Writers' = Writers \cup {r} /\ (stage[r] = "new" <=> r \notin Writers)
  <2>1. stage[r] = "new" => job[r].op = "none"
    BY StageTells
  <2>2. j.op \in {"insert", "write"}
    OBVIOUS
  <2>3. r \in Writers => stage[r] # "new"
    BY <2>1 DEF Writers
  <2>4. stage[r] = "new" \/ r \in Writers
    OBVIOUS
  <2> QED BY <1>1, <2>2, <2>3, <2>4 DEF Writers
<1>3. \A q \in Writers \ {r} : q \in Req /\ job'[q] = job[q] /\ stage'[q] = stage[q]
  BY <1>1 DEF Writers
<1>4. CASE stage[r] = "new"
  <2>1. JustSaved(r) /\ ~HasName(r)
    BY <1>4 DEF JustSaved, FilesKept, SavedOnce
  <2>2. j.new \in {None, r} /\ s # "new"
    BY <1>2, <1>4
  <2>3. SavedOnce'
    <3>1. \A f \in Req : JustSaved(f)' => JustSaved(f)
      BY <1>1, <1>2, <1>3, <2>1 DEF JustSaved
    <3>2. ASSUME NEW f \in Req, HasName(f)' PROVE HasName(f)
      <4>1. CASE f \in handed' \/ \E y \in Slot : path'[y] = f
        BY <4>1 DEF HasName
      <4>2. CASE \E q \in Writers \ {r} : f = job'[q].prior \/ (f = job'[q].new /\ f # q)
        BY <1>3, <4>2 DEF HasName
      <4>3. CASE f = job'[r].prior \/ (f = job'[r].new /\ f # r)
        <5>1. f = path[x]
          BY <1>1, <2>2, <4>3, NoneAssumption
        <5> QED BY <5>1 DEF HasName
      <4> QED BY <1>2, <3>2, <4>1, <4>2, <4>3 DEF HasName
    <3>3. JustSaved(r)' => ~HasName(r)'
      BY <2>1, <3>2
    <3> QED BY <3>1, <3>2, <3>3, SavedStays DEF FilesKept
  <2>4. OneOwner'
    <3>1. ASSUME NEW y \in Slot, NEW n, Claims(y, n)', n # None
          PROVE  Claims(y, n) \/ (y = x /\ n = r)
      <4>1. CASE path'[y] = n
        BY <4>1 DEF Claims
      <4>2. CASE \E q \in Writers \ {r} : Target(q)' = y /\ n \in {job'[q].prior, job'[q].new}
        BY <1>3, <4>2 DEF Claims, Target
      <4>3. CASE Target(r)' = y /\ n \in {job'[r].prior, job'[r].new}
        <5>1. y = x
          BY <1>1, <4>3 DEF Target
        <5>2. n = r \/ n = path[x]
          BY <1>1, <2>2, <3>1, <4>3
        <5> QED BY <5>1, <5>2 DEF Claims
      <4> QED BY <1>2, <3>1, <4>1, <4>2, <4>3 DEF Claims
    <3>2. \A y \in Slot : Claims(y, r) => y = x
      <4>1. ASSUME NEW y \in Slot, Claims(y, r) PROVE FALSE
        <5>1. path[y] # r
          BY <2>1 DEF HasName
        <5>2. \A q \in Writers : q # r /\ r # job[q].prior /\ r # job[q].new
          BY <1>2, <1>4, <2>1 DEF HasName
        <5> QED BY <4>1, <5>1, <5>2 DEF Claims
      <4> QED BY <4>1
    <3>3. PICK n : n = r
      OBVIOUS
    <3>4. \A y \in Slot : Claims(y, n) => y = x
      BY <3>2, <3>3
    <3>5. \A y \in Slot : \A p : Claims(y, p)' /\ p # None => Claims(y, p) \/ (y = x /\ p = n)
      BY <3>1, <3>3
    <3>6. OneOwner /\ reused \subseteq reused'
      BY DEF FilesKept
    <3> QED BY <3>4, <3>5, <3>6, OwnersStay
  <2>5. MeetingsKnown'
    <3>1. ASSUME NEW q \in Writers', Updating(q)' PROVE q \in Writers /\ q # r
      <4>1. j.row \in Fixed => j.row \notin RowKey
        BY UploadsAssumption DEF RowKey
      <4>2. ~Updating(r)'
        BY <1>1, <1>4, <4>1 DEF Updating
      <4> QED BY <1>2, <1>4, <3>1, <4>2
    <3> QED BY <1>3, <3>1, MeetingsStay DEF FilesKept, Updating
  <2>6. j.new \in Lasting'
    BY <1>2, <1>4 DEF Lasting
  <2> QED BY <1>4, <2>3, <2>4, <2>5, <2>6, GoingOnKeepsFiles
<1>5. CASE stage[r] # "new"
  <2>1. /\ r \in Writers /\ stage[r] = "find" /\ files' = files
        /\ j = [job[r] EXCEPT !.prior = path[x]]
    BY <1>5
  <2>2. FilingJob(r) /\ job[r].op = "write" /\ WriteJob(r)
    BY <2>1, FilingStages
  <2>3. /\ j.op = "write" /\ j.row = job[r].row /\ j.new = job[r].new
        /\ j.category = job[r].category
    BY <2>1, <2>2 DEF FilingJob, Writing
  <2>4. x = job[r].row /\ s = "replace"
    BY <2>3
  <2>5. SavedOnce'
    <3>1. \A f \in Req : JustSaved(f)' => JustSaved(f)
      BY <1>1, <1>2, <1>3, <2>1, <2>3 DEF JustSaved
    <3>2. ASSUME NEW f \in Req, HasName(f)' PROVE HasName(f)
      <4>1. CASE f \in handed' \/ \E y \in Slot : path'[y] = f
        BY <4>1 DEF HasName
      <4>2. CASE \E q \in Writers \ {r} : f = job'[q].prior \/ (f = job'[q].new /\ f # q)
        BY <1>3, <4>2 DEF HasName
      <4>3. CASE f = job'[r].prior \/ (f = job'[r].new /\ f # r)
        <5>1. f = path[x] \/ (f = job[r].new /\ f # r)
          BY <1>1, <2>3, <4>3, NoneAssumption
        <5> QED BY <2>1, <5>1 DEF HasName
      <4> QED BY <1>2, <3>2, <4>1, <4>2, <4>3 DEF HasName
    <3>3. JustSaved(r)' => ~HasName(r)'
      BY <3>1, <3>2 DEF FilesKept, SavedOnce
    <3> QED BY <3>1, <3>2, <3>3, SavedStays DEF FilesKept
  <2>6. OneOwner'
    <3>1. ASSUME NEW y \in Slot, NEW n, Claims(y, n)', n # None
          PROVE  Claims(y, n)
      <4>1. CASE path'[y] = n
        BY <4>1 DEF Claims
      <4>2. CASE \E q \in Writers \ {r} : Target(q)' = y /\ n \in {job'[q].prior, job'[q].new}
        BY <1>3, <4>2 DEF Claims, Target
      <4>3. CASE Target(r)' = y /\ n \in {job'[r].prior, job'[r].new}
        <5>1. y = x /\ Target(r) = x
          BY <1>1, <2>2, <2>3, <2>4, <4>3 DEF Target
        <5>2. n = job[r].new \/ n = path[x]
          BY <1>1, <2>3, <3>1, <4>3
        <5> QED BY <2>1, <5>1, <5>2 DEF Claims
      <4> QED BY <1>2, <3>1, <4>1, <4>2, <4>3 DEF Claims
    <3>2. PICK n : n = None
      OBVIOUS
    <3> QED BY <3>1, <3>2, OwnersStay DEF FilesKept
  <2>7. MeetingsKnown'
    <3>1. ASSUME NEW q \in Writers', Updating(q)'
          PROVE  /\ q \in Writers /\ Updating(q) /\ job'[q].row = job[q].row
                 /\ job'[q].new = job[q].new
      <4>1. CASE q = r
        BY <1>1, <2>1, <2>2, <2>3, <3>1, <4>1 DEF Updating
      <4>2. CASE q # r
        BY <1>2, <1>3, <3>1, <4>2 DEF Updating
      <4> QED BY <4>1, <4>2
    <3> QED BY <3>1, MeetingsStay DEF FilesKept
  <2>8. \/ j.new \in Lasting'
        \/ Updating(r)'
    <3>1. job[r].new \in Lasting \/ Updating(r)
      BY <2>1 DEF FilesKept, StillThere
    <3>2. Lasting' = Lasting
      BY <2>1 DEF Lasting
    <3> QED BY <1>1, <2>2, <2>3, <3>1, <3>2 DEF Updating
  <2> QED BY <2>1, <2>3, <2>4, <2>5, <2>6, <2>7, <2>8, GoingOnKeepsFiles
<1> QED BY <1>4, <1>5

LEMMA ReadingKeepsFiles ==
  ASSUME RowsFiled, Tagged, FilesKept, NEW r \in Req,
         FindRow(r) \/ UploadImage(r) \/ AddPhoto(r) \/ FindPrior(r)
  PROVE  FilesKept'
<1>1. CASE FindRow(r)
  <2>1. PICK x \in Slots :
          /\ stage[r] = "new" /\ UNCHANGED uploadVars
          /\ End(r, "done") \/ Goto(r, "replace", Writing("write", x, path[x], None, None))
    BY <1>1 DEF FindRow, Starts
  <2>2. CASE End(r, "done")
    BY <1>1, <2>2, EndingKeepsFiles
  <2>3. CASE Goto(r, "replace", Writing("write", x, path[x], None, None))
    <3>1. PICK j, p : p = path[x] /\ j = Writing("write", x, p, None, None)
      OBVIOUS
    <3>2. /\ j.op = "write" /\ j.row = x /\ j.prior = p /\ j.new = None /\ j.category = None
          /\ Goto(r, "replace", j) /\ x \in Slot
      BY <2>3, <3>1, SlotIs DEF Writing
    <3>3. j = Writing(j.op, j.row, j.prior, j.new, j.category)
      BY <3>1, <3>2
    <3> QED BY <2>1, <3>1, <3>2, <3>3, ReadKeepsFiles DEF uploadVars
  <2> QED BY <2>1, <2>2, <2>3
<1>2. CASE UploadImage(r)
  <2>1. PICK x \in Fixed : /\ stage[r] = "new" /\ files' = files \cup {r}
                           /\ UNCHANGED <<path, expense, photo, torn, handed, reused>>
                           /\ Goto(r, "replace", Writing("write", x, path[x], r, None))
    BY <1>2 DEF UploadImage, Starts
  <2>2. PICK j, p : p = path[x] /\ j = Writing("write", x, p, r, None)
    OBVIOUS
  <2>3. /\ j.op = "write" /\ j.row = x /\ j.prior = p /\ j.new = r /\ j.category = None
        /\ Goto(r, "replace", j) /\ x \in Slot
    BY <2>1, <2>2 DEF Writing, Slot
  <2>4. j = Writing(j.op, j.row, j.prior, j.new, j.category)
    BY <2>2, <2>3
  <2> QED BY <2>1, <2>2, <2>3, <2>4, ReadKeepsFiles
<1>3. CASE AddPhoto(r)
  <2>1. PICK e \in Expenses : /\ stage[r] = "new" /\ files' = files \cup {r}
                              /\ UNCHANGED <<path, expense, photo, torn, handed, reused>>
                              /\ Goto(r, "add", Writing("insert", e, None, r, None))
    BY <1>3 DEF AddPhoto, Starts
  <2>2. PICK j, x : j = Writing("insert", e, None, r, None) /\ x = r
    OBVIOUS
  <2>3. /\ j.op = "insert" /\ j.row = e /\ j.prior = None /\ j.new = r /\ j.category = None
        /\ Goto(r, "add", j) /\ x \in Slot
    BY <2>1, <2>2 DEF Writing, Slot, RowKey
  <2>4. j = Writing(j.op, j.row, j.prior, j.new, j.category)
    BY <2>2, <2>3
  <2> QED BY <2>1, <2>2, <2>3, <2>4, ReadKeepsFiles
<1>4. CASE FindPrior(r)
  <2>1. /\ stage[r] = "find" /\ UNCHANGED uploadVars
        /\ Goto(r, "replace", [job[r] EXCEPT !.prior = path[job[r].row]])
    BY <1>4 DEF FindPrior
  <2>2. r \in Writers /\ FilingJob(r) /\ job[r].op = "write"
    BY <2>1, FilingStages
  <2>3. job[r].row \in Slot
    BY <2>2, WritesRow DEF Target
  <2>4. PICK x, p : x = job[r].row /\ p = path[x]
    OBVIOUS
  <2>5. PICK j : j = [job[r] EXCEPT !.prior = p]
    OBVIOUS
  <2>6. /\ j = Writing(j.op, j.row, j.prior, j.new, j.category)
        /\ j.op = "write" /\ j.row = x /\ j.prior = p
    BY <2>2, <2>4, <2>5 DEF FilingJob, Writing
  <2>7. /\ Goto(r, "replace", j) /\ j = [job[r] EXCEPT !.prior = path[x]] /\ x \in Slot
        /\ r \in Writers /\ stage[r] = "find" /\ j.prior \in {path[x], None}
    BY <2>1, <2>2, <2>3, <2>4, <2>5, <2>6
  <2>8. UNCHANGED <<path, expense, photo, torn, handed, reused, files>>
    BY <2>1 DEF uploadVars
  <2> QED BY <2>6, <2>7, <2>8, ReadKeepsFiles
<1> QED BY <1>1, <1>2, <1>3, <1>4

(* A request removes the file that its row named when it was read.  No     *)
(* other row names it, nor is any other about to; and of the requests that *)
(* are about to give it to this row one that met this one is told, and one *)
(* that did not is to find the row gone.                                   *)
LEMMA ReplaceKeepsFiles ==
  ASSUME RowsFiled, Tagged, FilesKept, NEW r \in Req, Replace(r) PROVE FilesKept'
<1>1. /\ stage[r] = "replace" /\ ~Held(job[r].row)
      /\ UNCHANGED <<path, expense, photo, handed, torn, reused>>
  BY DEF Replace
<1>2. r \in Writers /\ FilingJob(r) /\ job[r].op = "write" /\ WriteJob(r)
  BY <1>1, FilingStages
<1>3. CASE job[r].row \notin Slots /\ ~Deletes(r)
  BY <1>3, EndingKeepsFiles DEF Replace
<1>4. CASE job[r].row \in Slots \/ Deletes(r)
  <2>1. PICK j : j = job[r]
    OBVIOUS
  <2>2. Goto(r, "commit", j) /\ files' = files \ ({job[r].prior} \ {job[r].new})
    BY <1>4, <2>1 DEF Replace, Superseded
  <2>3. \A q \in Req : /\ stage'[q] = IF q = r THEN "commit" ELSE stage[q]
                       /\ job'[q] = job[q]
    BY <2>1, <2>2, Then
  <2>4. Writers' = Writers /\ Slots' = Slots
    BY <1>1, <2>3 DEF Writers, Slots, Expenses
  <2>5. \A q \in Writers : q \in Req /\ job'[q] = job[q]
    BY <2>3 DEF Writers
  <2>6. SavedOnce'
    <3>1. \A f \in Req : JustSaved(f)' => JustSaved(f)
      BY <1>1, <2>3, <2>4 DEF JustSaved
    <3>2. \A f : HasName(f)' => HasName(f)
      BY <1>1, <2>4, <2>5 DEF HasName
    <3> QED BY <3>1, <3>2 DEF FilesKept, SavedOnce
  <2>7. OneOwner'
    <3>1. \A x, p : Claims(x, p)' => Claims(x, p)
      BY <1>1, <2>4, <2>5 DEF Claims, Target
    <3> QED BY <1>1, <3>1 DEF FilesKept, OneOwner
  <2>8. MeetingsKnown'
    BY <1>1, <2>4, <2>5, MeetingsStay DEF FilesKept, Updating
  <2>9. ASSUME NEW q \in Writers, Going(q) PROVE Going(q)'
    <3>1. CASE job[q].row \notin Slots
      BY <2>4, <2>5, <3>1 DEF Going
    <3>2. ASSUME NEW d \in Writers, stage[d] = "commit", Deletes(d), job[d].row = job[q].row,
                 job[d].prior = job[q].new
          PROVE  Going(q)'
      <4>1. stage'[d] = "commit" /\ d \in Writers' /\ job'[d] = job[d] /\ job'[q] = job[q]
        BY <1>1, <2>3, <2>4, <2>5, <3>2
      <4> QED BY <3>2, <4>1 DEF Going, Deletes
    <3> QED BY <2>9, <3>1, <3>2 DEF Going
  <2>10. ~(Updating(r) /\ Going(r))
    <3>1. ASSUME Updating(r), job[r].row \notin Slots PROVE FALSE
      BY <1>2, <1>4, <3>1, WritesRow
    <3>2. ASSUME NEW d \in Writers, stage[d] = "commit", job[d].row = job[r].row PROVE FALSE
      BY <1>1, <3>2 DEF Held, Writers
    <3> QED BY <3>1, <3>2 DEF Going
  <2>11. ASSUME NEW q \in Writers, job[q].new \in Lasting, job[q].new \notin Lasting'
         PROVE  stage'[q] \in {"find", "replace"} /\ Updating(q)' /\ Going(q)'
    <3>1. /\ job[q].new = job[r].prior /\ job[q].new # job[r].new
          /\ job[q].new \notin reused \cup {None}
      BY <1>1, <2>2, <2>11 DEF Lasting
    <3>2. q # r /\ q \in Req /\ job'[q] = job[q] /\ stage'[q] = stage[q]
      BY <2>3, <3>1 DEF Writers
    <3>3. Target(q) = job[r].row
      <4>1. Target(q) \in Slot /\ Target(r) \in Slot
        BY <1>2, WritesRow
      <4>2. PICK p : p = job[q].new
        OBVIOUS
      <4>3. Claims(Target(q), p) /\ Claims(Target(r), p)
        BY <1>2, <3>1, <4>2 DEF Claims
      <4>4. Target(r) = job[r].row
        BY <1>2 DEF Target
      <4> QED BY <3>1, <4>1, <4>2, <4>3, <4>4 DEF FilesKept, OneOwner
    <3>4. job[q].op = "write" /\ WriteJob(q) /\ job[q].row = job[r].row
      <4>1. job[q].op # "insert"
        <5>1. job[r].row \in Fixed \/ Settled(job[r].row)
          BY <1>2, WritesRow
        <5> QED BY <3>3, <5>1, WritesRow DEF Target
      <4> QED BY <3>3, <4>1, WritesRow DEF Target
    <3>5. stage[q] \in {"find", "replace"}
      <4>1. stage[q] # "commit"
        BY <1>1, <3>2, <3>4 DEF Held
      <4> QED BY <3>4, <4>1 DEF WriteJob
    <3>6. Updates(q) /\ job[q].row \in RowKey /\ job[q].row \notin Fixed
      <4>1. ~Deletes(q)
        BY <3>1 DEF Deletes
      <4>2. job[q].row \notin Fixed
        <5>1. ASSUME job[q].new = q PROVE FALSE
          <6>1. JustSaved(q)
            BY <5>1 DEF JustSaved
          <6>2. HasName(q)
            BY <1>2, <3>1, <5>1 DEF HasName
          <6> QED BY <3>2, <6>1, <6>2 DEF FilesKept, SavedOnce
        <5>2. job[q].row \in Fixed => job[q].row \notin RowKey
          BY UploadsAssumption DEF RowKey
        <5>3. job[q].row \in Fixed => job[q].new \in {None, q}
          BY <3>4, <4>1, <5>2 DEF WriteJob, Updates
        <5> QED BY <3>1, <5>1, <5>3
      <4> QED BY <3>4, <4>1, <4>2 DEF WriteJob, Updates
    <3>7. Updating(q)
      BY <3>4, <3>6, UploadsAssumption DEF Updating, Updates
    <3>8. Deletes(r)
      <4>1. ASSUME Updates(r) PROVE FALSE
        <5>1. Updating(r)
          BY <1>2, <4>1, UploadsAssumption DEF Updating, Updates
        <5> QED BY <1>2, <3>1, <3>2, <3>4, <3>7, <5>1 DEF FilesKept, MeetingsKnown
      <4> QED BY <1>2, <3>4, <3>6, <4>1 DEF WriteJob
    <3>9. Going(q)'
      <4>1. r \in Writers' /\ stage'[r] = "commit" /\ job'[r] = job[r]
        BY <1>2, <2>3, <2>4
      <4> QED BY <3>1, <3>2, <3>4, <3>8, <4>1 DEF Going, Deletes
    <3> QED BY <3>2, <3>5, <3>7, <3>9 DEF Updating
  <2>12. StillThere'
    <3> SUFFICES ASSUME NEW q \in Writers'
                 PROVE  \/ job'[q].new \in Lasting'
                        \/ stage'[q] \in {"find", "replace"} /\ Updating(q)' /\ Going(q)'
      BY DEF StillThere
    <3>1. q \in Writers /\ job'[q] = job[q]
      BY <2>4, <2>5
    <3>2. CASE job[q].new \in Lasting
      BY <2>11, <3>1, <3>2
    <3>3. CASE stage[q] \in {"find", "replace"} /\ Updating(q) /\ Going(q)
      <4>1. q # r /\ stage'[q] = stage[q]
        BY <2>3, <2>5, <2>10, <3>1, <3>3
      <4> QED BY <2>9, <3>1, <3>3, <4>1 DEF Updating
    <3> QED BY <3>1, <3>2, <3>3 DEF FilesKept, StillThere
  <2>13. ReceiptsResolve'
    <3>1. Leaving \cup {job[r].prior} \subseteq Leaving'
      <4>1. stage'[r] = "commit" /\ job'[r].prior = job[r].prior
        BY <2>3
      <4> QED BY <1>1, <2>3, <4>1 DEF Leaving
    <3>2. Lasting \subseteq Lasting' \cup {job[r].prior}
      BY <1>1, <2>2 DEF Lasting
    <3> QED BY <1>1, <2>4, <3>1, <3>2 DEF FilesKept, ReceiptsResolve
  <2> QED BY <2>6, <2>7, <2>8, <2>12, <2>13 DEF FilesKept
<1> QED BY <1>3, <1>4

LEMMA CountKeepsFiles ==
  ASSUME RowsFiled, Tagged, FilesKept, NEW r \in Req, CountUses(r) PROVE FilesKept'
<1>1. PICK j : /\ stage[r] = "new" /\ Goto(r, "removeCategory", j) /\ j.op = "removeCategory"
               /\ UNCHANGED <<files, handed, path, expense, photo, reused, torn>>
  <2>1. PICK k \in Key : Goto(r, "removeCategory",
                              [op |-> "removeCategory", key |-> k, used |-> Uses(k) # {}])
    BY DEF CountUses
  <2>2. PICK u : u = (Uses(k) # {})
    OBVIOUS
  <2>3. PICK j : j = [op |-> "removeCategory", key |-> k, used |-> u]
    OBVIOUS
  <2>4. Goto(r, "removeCategory", j) /\ j.op = "removeCategory"
    BY <2>1, <2>2, <2>3
  <2> QED BY <2>4 DEF CountUses, Starts
<1>2. \A q \in Req : /\ stage'[q] = IF q = r THEN "removeCategory" ELSE stage[q]
                     /\ job'[q] = IF q = r THEN j ELSE job[q]
  BY <1>1, Then
<1>3. Writers' = Writers /\ \A q \in Writers : q # r /\ q \in Req /\ job'[q] = job[q]
  <2>1. job[r].op = "none"
    BY <1>1, StageTells
  <2> QED BY <1>1, <1>2, <2>1 DEF Writers
<1>4. SavedOnce'
  <2>1. \A f \in Req : JustSaved(f)' => JustSaved(f)
    BY <1>2, <1>3 DEF JustSaved
  <2>2. \A f : HasName(f)' => HasName(f)
    BY <1>1, <1>3 DEF HasName
  <2> QED BY <2>1, <2>2 DEF FilesKept, SavedOnce
<1>5. OneOwner'
  <2>1. \A x, p : Claims(x, p)' => Claims(x, p)
    BY <1>1, <1>3 DEF Claims, Target
  <2> QED BY <1>1, <2>1 DEF FilesKept, OneOwner
<1>6. MeetingsKnown'
  BY <1>1, <1>3, MeetingsStay DEF FilesKept, Updating
<1>7. r \notin Writers'
  BY <1>3
<1> QED BY <1>1, <1>4, <1>5, <1>6, <1>7, GoingOnKeepsFiles

LEMMA FilesHold == ASSUME Tagged, RowsFiled, FilesKept, [Next]_all PROVE FilesKept'
<1>1. CASE UploadsStep
  <2>1. PICK r \in Req : Filing(r)
    BY <1>1 DEF UploadsStep, Filing
  <2>2. CASE InsertPhoto(r)
    BY <2>2, InsertKeepsFiles, EndingKeepsFiles
  <2>3. CASE Scan(r) \/ DiesWriting(r) \/ SetCategory(r) \/ RemoveCategory(r)
    BY <2>3, EndingKeepsFiles
  <2>4. CASE FindRow(r) \/ UploadImage(r) \/ AddPhoto(r) \/ FindPrior(r)
    BY <2>4, ReadingKeepsFiles
  <2>5. CASE AssertCategoryUsable(r) \/ CreateExpense(r) \/ Replace(r) \/ Commit(r) \/ CountUses(r)
    BY <2>5, AssertKeepsFiles, InsertKeepsFiles, ReplaceKeepsFiles, CommitKeepsFiles,
      CountKeepsFiles
  <2> QED BY <2>1, <2>2, <2>3, <2>4, <2>5 DEF Filing
<1>2. CASE ~UploadsStep
  <2>1. /\ UNCHANGED uploadVars /\ Aside(UploadsOps) /\ Writers' = Writers
        /\ \A q \in Writers : job'[q] = job[q] /\ stage'[q] = stage[q]
    BY <1>2, UploadsAside
  <2>2. UNCHANGED <<files, handed, path, expense, photo, reused, torn>> /\ Slots' = Slots
        /\ Lasting' = Lasting
    BY <2>1 DEF uploadVars, Slots, Expenses, Lasting
  <2>3. SavedOnce'
    <3>1. \A f \in Req : JustSaved(f)' => JustSaved(f)
      BY <2>1 DEF JustSaved, Aside
    <3>2. \A f : HasName(f)' => HasName(f)
      BY <2>1, <2>2 DEF HasName
    <3> QED BY <3>1, <3>2 DEF FilesKept, SavedOnce
  <2>4. OneOwner'
    <3>1. \A x, p : Claims(x, p)' => Claims(x, p)
      BY <2>1, <2>2 DEF Claims, Target
    <3> QED BY <2>2, <3>1 DEF FilesKept, OneOwner
  <2>5. MeetingsKnown'
    BY <2>1, <2>2 DEF FilesKept, MeetingsKnown, Updating
  <2>6. StillThere'
    <3>1. \A q \in Writers : Going(q) => Going(q)'
      BY <2>1, <2>2 DEF Going, Deletes
    <3> QED BY <2>1, <2>2, <3>1 DEF FilesKept, StillThere, Updating
  <2>7. ReceiptsResolve'
    <3>1. ASSUME NEW p \in Leaving PROVE p \in Leaving'
      <4>1. PICK q \in Req : stage[q] = "commit" /\ p = job[q].prior
        BY <3>1 DEF Leaving
      <4>2. q \in Writers
        BY <4>1, FilingStages
      <4>3. stage'[q] = "commit" /\ p = job'[q].prior
        BY <2>1, <4>1, <4>2
      <4> QED BY <4>3 DEF Leaving
    <3> QED BY <2>2, <3>1 DEF FilesKept, ReceiptsResolve
  <2> QED BY <2>3, <2>4, <2>5, <2>6, <2>7 DEF FilesKept
<1> QED BY <1>1, <1>2

(* A file is removed when no row will name it: but for what history tells. *)
THEOREM FilesAreKept == Spec => []FilesKept
<1>1. Init => FilesKept
  <2> SUFFICES ASSUME Init PROVE FilesKept
    OBVIOUS
  <2>1. /\ path = [x \in Slot |-> IF x = Expense0 THEN x ELSE None]
        /\ files = {Expense0} /\ handed = {Expense0}
    BY DEF Init, OfficeInit, UploadsInit
  <2>2. \A r \in Req : stage[r] = "new" /\ job[r].op = "none"
    BY IdleIsNone DEF Init, RequestsInit
  <2>3. Writers = {}
    BY <2>2 DEF Writers
  <2>4. SavedOnce
    BY <2>1, <2>3, UploadsAssumption, NoneAssumption DEF SavedOnce, HasName
  <2>5. OneOwner
    BY <2>1, <2>3 DEF OneOwner, Claims
  <2>6. ReceiptsResolve
    <3>1. Slots \subseteq Slot
      BY DEF Slots, Slot, Expenses, RowKey
    <3> QED BY <2>1, <3>1 DEF ReceiptsResolve, Lasting
  <2> QED BY <2>3, <2>4, <2>5, <2>6 DEF FilesKept, MeetingsKnown, StillThere
<1>2. Tagged /\ RowsFiled /\ FilesKept /\ [Next]_all => FilesKept'
  BY FilesHold
<1> QED BY <1>1, <1>2, EveryRequestIsTagged, RowsAreFiled, PTL DEF Spec

(* What a committed row names is there: its file is on disk, unless the    *)
(* request that replaces it is about to commit or died there, a client     *)
(* gave one path to two rows, or two updates of one row met; and its       *)
(* category can be shown, unless it was removed while it was being given.  *)
THEOREM NamesAlwaysResolve == Spec => []NamesResolve
<1>1. RowsFiled /\ FilesKept /\ CategoriesKept => NamesResolve
  <2> SUFFICES ASSUME RowsFiled, FilesKept, CategoriesKept PROVE NamesResolve
    OBVIOUS
  <2>1. \A x \in Slots : path[x] \in files \cup Leaving \cup torn \cup reused \cup {None}
    BY DEF FilesKept, ReceiptsResolve, Lasting
  <2>2. \A e \in Expenses : expense[e] \in InUse
    BY DEF Expenses, InUse, RowsFiled, UploadsTyped
  <2> QED BY <2>1, <2>2 DEF NamesResolve, CategoriesKept
<1> QED BY <1>1, RowsAreFiled, FilesAreKept, CategoriesAreKept, PTL
=============================================================================
