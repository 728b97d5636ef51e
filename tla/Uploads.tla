------------------------------- MODULE Uploads -------------------------------
(***************************************************************************)
(* The files a business uploads, the rows that name them, and its expenses *)
(* with their categories.  A row is an expense (its receipt), one of its   *)
(* photos, the product (its image) or the business (its logo).  A file is  *)
(* written and removed at once; the row that names it changes at COMMIT,   *)
(* and an UPDATE or DELETE keeps the row locked until then.                *)
(*                                                                         *)
(* A file is called after the request that saved it: save gives each a     *)
(* random name.                                                            *)
(***************************************************************************)
EXTENDS Requests

CONSTANTS
  Key,         \* keys of expense categories
  Expense0     \* the expense at the start, and its receipt

Fixed == {"image", "logo"}
RowKey == Req \cup {Expense0}      \* a request inserts one row at most
Slot   == Fixed \cup RowKey

ASSUME UploadsAssumption ==
  /\ Key # {} /\ None \notin Key /\ Expense0 \notin Req \cup Fixed \cup {None}
  /\ Fixed \cap (Req \cup {None}) = {}

VARIABLES
  files,     \* the upload directory
  handed,    \* receipts scanned: the paths the clients know
  path,      \* the path each row names
  expense,   \* the category of each row of app.expenses
  photo,     \* the expense of each row of app.expense_photos
  category,  \* app.expense_category_defs: "none", "active" or "archived"
  reused,    \* paths handed in twice (history variable)
  torn,      \* rows whose request died after it had removed a file (history)
  unsettled  \* categories removed while a request was using them (history)

uploadVars == <<files, handed, path, expense, photo, category, reused, torn, unsettled>>

Expenses == {e \in RowKey : expense[e] # None}
Photos(e) == {p \in Req : photo[p] = e}
Slots  == Fixed \cup Expenses \cup {p \in Req : photo[p] # None}

UploadsInit ==
  /\ files = {Expense0} /\ handed = {Expense0}
  /\ path = [x \in Slot |-> IF x = Expense0 THEN x ELSE None]
  /\ expense = [x \in RowKey |-> IF x = Expense0 THEN CHOOSE k \in Key : TRUE ELSE None]
  /\ photo = [r \in Req |-> None]
  /\ category = [k \in Key |-> "active"]
  /\ reused = {} /\ torn = {} /\ unsettled = {}

Deletes(r) == job[r].row \in RowKey /\ job[r].new = None /\ job[r].category = None
Deleting(x) == \E q \in Req : stage[q] = "commit" /\ Deletes(q) /\ job[q].row = x
Held(x) == \/ \E q \in Req : stage[q] = "commit" /\ job[q].row = x
           \/ x \in Req /\ Deleting(photo[x])
Writing(op, x, prior, new, k) ==
  [op |-> op, row |-> x, prior |-> prior, new |-> new, category |-> k]

(* What is named twice if row x is given path p: a path that was given     *)
(* before, and not just to x; or those of two updates of x that meet.      *)
Writers == {q \in Req : job[q].op \in {"write", "insert"}}
GivenBefore(x, p) ==
  \/ \E y \in Slots \ {x} : path[y] = p
  \/ \E q \in Writers : p \in {job[q].prior, job[q].new}
  \/ p \notin files
Meeting(x) == {q \in Writers : job[q].row = x}
Reused(x, p) ==
  {job[q].new : q \in Meeting(x)}
    \cup IF p # None /\ (GivenBefore(x, p) \/ Meeting(x) # {}) THEN {p} ELSE {}

-----------------------------------------------------------------------------
(* The scan stores the file and suggests fields; it creates no expense.    *)
Scan(r) ==
  /\ Starts(r, "scan")
  /\ files' = files \cup {r} /\ handed' = handed \cup {r}
  /\ End(r, "done")
  /\ UNCHANGED <<path, expense, photo, category, reused, torn, unsettled>>

(* An expense is created, or given a category, a receipt or both.          *)
Unusable(k) == k # None /\ category[k] # "active"
AssertCategoryUsable(r) ==
  \E op \in {"createExpense", "updateExpense"}, k \in Key \cup {None},
     p \in handed \cup {None}, e \in Expenses \cup {r} :
    /\ Starts(r, op) /\ (e = r) = (op = "createExpense")
    /\ k = None => e # r /\ p # None
    /\ IF Unusable(k) THEN End(r, "refused") /\ UNCHANGED <<reused, unsettled>>
       ELSE /\ Goto(r, IF e = r THEN "add" ELSE IF p = None THEN "replace" ELSE "find",
                    Writing(IF e = r THEN "insert" ELSE "write", e, None, p, k))
            /\ reused' = reused \cup Reused(e, p)
            /\ unsettled' = IF \E q \in Doing("removeCategory") : job[q].key = k
                        THEN unsettled \cup {k} ELSE unsettled
    /\ UNCHANGED <<files, handed, path, expense, photo, category, torn>>

CreateExpense(r) ==
  /\ stage[r] = "add" /\ job[r].row = r
  /\ expense' = [expense EXCEPT ![r] = job[r].category]
  /\ path' = [path EXCEPT ![r] = job[r].new]
  /\ End(r, "done")
  /\ UNCHANGED <<files, handed, photo, category, reused, torn, unsettled>>

(* The receipt an update replaces, read before the UPDATE.                 *)
FindPrior(r) ==
  /\ stage[r] = "find"
  /\ Goto(r, "replace", [job[r] EXCEPT !.prior = path[job[r].row]])
  /\ UNCHANGED uploadVars

(* The row whose file goes, or is replaced by the one that was just saved. *)
FindRow(r) ==
  \E x \in Slots :
    /\ \/ x \in Expenses /\ Starts(r, "removeExpense")
       \/ x \in Req \ Expenses /\ Starts(r, "removePhoto")
       \/ x \in Fixed /\ Starts(r, "removeImage")
    /\ IF x \in Fixed /\ path[x] = None THEN End(r, "done")
       ELSE Goto(r, "replace", Writing("write", x, path[x], None, None))
    /\ UNCHANGED uploadVars

UploadImage(r) ==
  /\ Starts(r, "uploadImage")
  /\ files' = files \cup {r}
  /\ \E x \in Fixed : Goto(r, "replace", Writing("write", x, path[x], r, None))
  /\ UNCHANGED <<handed, path, expense, photo, category, reused, torn, unsettled>>

AddPhoto(r) ==
  /\ Starts(r, "addPhoto")
  /\ files' = files \cup {r}
  /\ \E e \in Expenses : Goto(r, "add", Writing("insert", e, None, r, None))
  /\ UNCHANGED <<handed, path, expense, photo, category, reused, torn, unsettled>>

(* The foreign key waits for a DELETE of the expense, and fails after it.  *)
InsertPhoto(r) ==
  /\ stage[r] = "add" /\ job[r].row # r
  /\ LET e == job[r].row IN
     /\ ~Deleting(e)
     /\ IF e \notin Expenses THEN End(r, "refused") /\ UNCHANGED <<path, photo>>
        ELSE /\ photo' = [photo EXCEPT ![r] = e]
             /\ path' = [path EXCEPT ![r] = r]
             /\ End(r, "done")
  /\ UNCHANGED <<files, handed, expense, category, reused, torn, unsettled>>

-----------------------------------------------------------------------------
(* The UPDATE or DELETE, which locks the row, and then the file that the   *)
(* row named when it was read; an update that names the same file keeps it.*)
(* Seeded faults, here and below: definitions with a plausible bug, used   *)
(* only to show that the properties notice it.  Here: not excepting it.    *)
NoLongerNamed(r) == {job[r].prior}
Superseded(r) == {job[r].prior} \ {job[r].new}
Replace(r) ==
  /\ stage[r] = "replace" /\ ~Held(job[r].row)
  /\ IF job[r].row \notin Slots /\ ~Deletes(r)
     THEN End(r, "refused") /\ UNCHANGED files
     ELSE /\ Goto(r, "commit", job[r])
          /\ files' = files \ Superseded(r)
  /\ UNCHANGED <<handed, path, expense, photo, category, reused, torn, unsettled>>

(* A DELETE takes the photos of the expense with it; their files stay.     *)
Commit(r) ==
  /\ stage[r] = "commit"
  /\ LET x == job[r].row
         gone == IF Deletes(r) THEN {x} \cup Photos(x) ELSE {}
     IN  /\ path' = [y \in Slot |-> IF y \in gone THEN None
                       ELSE IF y = x /\ (x \in Fixed \/ job[r].new # None) THEN job[r].new
                       ELSE path[y]]
         /\ photo' = [y \in Req |-> IF y \in gone THEN None ELSE photo[y]]
         /\ expense' = [y \in RowKey |-> IF y \in gone THEN None
                          ELSE IF y = x /\ job[r].category # None THEN job[r].category
                          ELSE expense[y]]
  /\ End(r, "done")
  /\ UNCHANGED <<files, handed, category, reused, torn, unsettled>>

(* A request dies; the file it removed stays removed.                      *)
DiesWriting(r) ==
  /\ job[r].op \in {"write", "insert"} /\ Dies(r)
  /\ torn' = IF stage[r] = "commit" THEN torn \cup {job[r].prior} ELSE torn
  /\ UNCHANGED <<files, handed, path, expense, photo, category, reused, unsettled>>

-----------------------------------------------------------------------------
NoUses(k) == {}
Uses(k) == {e \in Expenses : expense[e] = k}

(* Created anew (the key is unique), archived or brought back.             *)
SetCategory(r) ==
  /\ \E k \in Key :
       \/ /\ Starts(r, "createCategory") /\ category[k] = "none"
          /\ category' = [category EXCEPT ![k] = "active"]
       \/ /\ Starts(r, "updateCategory") /\ category[k] # "none"
          /\ \E a \in {"active", "archived"} : category' = [category EXCEPT ![k] = a]
  /\ End(r, "done")
  /\ UNCHANGED <<files, handed, path, expense, photo, reused, torn, unsettled>>

CountUses(r) ==
  /\ Starts(r, "removeCategory")
  /\ \E k \in Key :
       /\ category[k] # "none"
       /\ Goto(r, "removeCategory", [op |-> "removeCategory", key |-> k, used |-> Uses(k) # {}])
       /\ unsettled' = IF \E q \in Writers : job[q].category = k
                   THEN unsettled \cup {k} ELSE unsettled
  /\ UNCHANGED <<files, handed, path, expense, photo, category, reused, torn>>

RemoveCategory(r) ==
  /\ stage[r] = "removeCategory"
  /\ category' = [category EXCEPT ![job[r].key] =
       IF @ = "none" THEN @ ELSE IF job[r].used THEN "archived" ELSE "none"]
  /\ End(r, "done")
  /\ UNCHANGED <<files, handed, path, expense, photo, reused, torn, unsettled>>

UploadsStep ==
  /\ \E r \in Req :
       \/ Scan(r)        \/ AssertCategoryUsable(r) \/ CreateExpense(r) \/ FindPrior(r)
       \/ FindRow(r)     \/ UploadImage(r)          \/ AddPhoto(r)      \/ InsertPhoto(r)
       \/ Replace(r)     \/ Commit(r)               \/ DiesWriting(r)   \/ SetCategory(r)
       \/ CountUses(r)   \/ RemoveCategory(r)
  /\ UNCHANGED status

-----------------------------------------------------------------------------
Leaving == {job[q].prior : q \in {r \in Req : stage[r] = "commit"}}

(* What a committed row names is there.  Its file is on disk, unless a     *)
(* request that replaces it is about to commit, or died there, or a client *)
(* gave one path to two rows, or two updates of one row met.  The category *)
(* of an expense can be shown, archived or not, unless it was removed      *)
(* while an expense was being given it.                                    *)
NamesResolve ==
  /\ \A x \in Slots : path[x] \in files \cup Leaving \cup torn \cup reused \cup {None}
  /\ \A e \in Expenses : expense[e] \in unsettled \/ category[expense[e]] # "none"
=============================================================================
