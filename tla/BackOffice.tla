----------------------------- MODULE BackOffice ------------------------------
(***************************************************************************)
(* The rest of what a business does besides trading: its shifts, its       *)
(* uploads and expenses, its catalogue, its notices, and the tenant        *)
(* transactions that all of its requests run in.                           *)
(***************************************************************************)
EXTENDS Attendance, Uploads, Catalogue, Notices

officeVars == <<tenantRowVars, attendanceVars, uploadVars, catalogueVars, noticeVars>>

(* What no operation of a behaviour looks at starts in one way.            *)
OfficeInit ==
  /\ TenantRowsInit /\ AttendanceInit /\ UploadsInit /\ CatalogueInit /\ NoticesInit
  /\ mix \cap {"rows", "autoCheckout"} = {} => ~enforced
  /\ "scan stock" \notin mix => inStock = 0

OfficeStep ==
  \/ TenantRowsStep /\ UNCHANGED <<attendanceVars, uploadVars, catalogueVars, noticeVars>>
  \/ AttendanceStep /\ UNCHANGED <<uploadVars, catalogueVars, noticeVars>>
  \/ UploadsStep    /\ UNCHANGED <<tenantRowVars, attendanceVars, catalogueVars, noticeVars>>
  \/ CatalogueStep  /\ UNCHANGED <<tenantRowVars, attendanceVars, uploadVars, noticeVars>>
  \/ NoticesStep    /\ UNCHANGED <<tenantRowVars, attendanceVars, uploadVars, catalogueVars>>
=============================================================================
