---------------------------- MODULE MCAttendance -----------------------------
(***************************************************************************)
(* Two employees and three requests, with the nightly job among them and a *)
(* database role that row level security binds.                            *)
(***************************************************************************)
EXTENDS Attendance

CONSTANTS r1, r2, r3, e1, e2
MCReq == {r1, r2, r3}
MCEmployee == {e1, e2}
MCMixes == {{"checkIn", "checkOut", "autoCheckout", "hour"}}
MCRow0 == <<>>
Alike == Permutations(MCReq) \cup Permutations(MCEmployee)

all == <<status, requests, tenantRowVars, attendanceVars>>
Init == RequestsInit /\ TenantRowsInit /\ AttendanceInit /\ enforced
Rest == (\A r \in Req : stage[r] = "new" \/ Answered(r)) /\ UNCHANGED all
Spec == Init /\ [][AttendanceStep \/ Rest]_all
=============================================================================
