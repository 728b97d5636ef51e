------------------------------ MODULE Platform -------------------------------
(***************************************************************************)
(* A business on the platform, in one system: its accounts, the business   *)
(* as the platform console sees it, the console's own second factor, and   *)
(* the business's back office.  They share the requests and the status of  *)
(* the business: the console writes it, logins and the catalog read it.    *)
(***************************************************************************)
EXTENDS Accounts, Tenancy, AdminMfa, BackOffice

all == <<status, requests, accountVars, tenancyVars, mfaVars, officeVars>>

(* Only a business that has just registered waits for its approval.  What  *)
(* the operations of the mix never read starts in one way only.            *)
Init == /\ RequestsInit /\ AccountsInit /\ TenancyInit /\ MfaInit /\ OfficeInit
        /\ (status = "pending") = ("approve" \in mix)
        /\ mix \cap {"challenge", "verify"} = {} => admin.secret = None
        /\ "createWarehouse" \notin mix => ~multiStock
        /\ mix \cap {"createWarehouse", "suspend"} = {} => plan = "active"

(* A request dies between two statements; its transaction is rolled back.  *)
(* One that holds a connection or removes files has a step of its own.     *)
Holding == Doing("rows") \cup Doing("write") \cup Doing("insert")
Crash == /\ \E r \in Req \ Holding : Dies(r)
         /\ together' = TRUE
         /\ UNCHANGED <<status, accountVars, tenancyVars, step, admin, accepted, replayed, wrong,
                        officeVars>>

(* With no request under way, the platform waits for the next one.         *)
Rest == (\A r \in Req : stage[r] = "new" \/ Answered(r)) /\ UNCHANGED all

Next ==
  \/ AccountsStep /\ UNCHANGED <<tenancyVars, mfaVars, officeVars>>
  \/ TenancyStep  /\ UNCHANGED <<accountVars, mfaVars, officeVars>>
  \/ MfaStep      /\ UNCHANGED <<accountVars, tenancyVars, officeVars>>
  \/ OfficeStep   /\ UNCHANGED <<accountVars, tenancyVars, mfaVars>>
  \/ Crash
  \/ Rest

Spec == Init /\ [][Next]_all

-----------------------------------------------------------------------------
(* What the code looks for before it writes, and no key of the database    *)
(* forbids, is there once: an employee has one open shift, a product one   *)
(* unread notice of a kind and a quantity, a business one default price    *)
(* group, a ladder the steps of one edit, an address one business of a     *)
(* name; unless two requests looked before either of them wrote.           *)
OneOfEach ==
  OneOpenShift /\ OneUnreadNotice /\ OneDefaultGroup /\ LadderIsOneEdit /\ OneRegistration
=============================================================================
