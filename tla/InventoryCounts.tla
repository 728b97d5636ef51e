--------------------------- MODULE InventoryCounts ---------------------------
(***************************************************************************)
(* The inventory counts of one warehouse: requests start a count, apply    *)
(* one, or move stock meanwhile.  Every request is one READ COMMITTED      *)
(* transaction.  Applying reads the count's row, its lines and the live    *)
(* stock, each with a statement of its own, and only writes then: the      *)
(* lines, the gains, the losses and the mark.  So its writes and its       *)
(* commit are one step.                                                    *)
(***************************************************************************)
EXTENDS Handlers, Integers

CONSTANTS
  Count0,         \* the counts of Seed, with the counted quantity of each line
  Product,
  Stock0,
  Quantities,     \* what may be counted
  Moves           \* what another handler may post for a product

Count == [applied : BOOLEAN, counted : [Product -> Nat \cup {None}]]

ASSUME CountsAssumption ==
  /\ Seed \cap Req = {} /\ Count0 \in [Seed -> Count]
  /\ Stock0 \in [Product -> Nat]
  /\ Quantities \subseteq Nat /\ Moves \subseteq Int
ASSUME NoneAssumption == None \notin Nat \cup Count \cup Id

VARIABLES
  count,      \* app.inventory_counts; a line's counted is None if there is none
  stock,      \* app.stock_levels of the warehouse
  drift,      \* what others moved since a live read (history variable)
  applies,    \* times each count was applied (history variable)
  overlapped  \* counts that two applies were at once (history variable)

countsRows   == <<count, stock>>
countsGhosts == <<drift, applies, overlapped>>
countsVars   == <<countsRows, stage, job, countsGhosts>>

Nothing == [p \in Product |-> 0]
(* A job: the count it is at, and what it has read of lines and stock.     *)
AtNoCount == [count |-> None, lines |-> Nothing, live |-> Nothing]
Started == {c \in Id : count[c] # None}

CountsInit ==
  /\ count = [c \in Id |-> IF c \in Seed THEN Count0[c] ELSE None]
  /\ stock = Stock0
  /\ stage = [r \in Req |-> "new"]
  /\ job = [r \in Req |-> AtNoCount]
  /\ drift = [r \in Req |-> Nothing]
  /\ applies = [c \in Id |-> IF c \in Started /\ count[c].applied THEN 1 ELSE 0]
  /\ overlapped = {}

GoTo(r, next) == stage' = [stage EXCEPT ![r] = next]
Leave(r, outcome) == GoTo(r, outcome) /\ job' = [job EXCEPT ![r] = AtNoCount]

(* Stock changes by this much for each product; every other request drifts.*)
Moved(r, delta) ==
  /\ stock' = [p \in Product |-> stock[p] + delta[p]]
  /\ drift' = [q \in Req |-> IF q = r THEN drift[q]
                             ELSE [p \in Product |-> drift[q][p] + delta[p]]]

(* The ledger's conditional decrement.                                     *)
Covers(delta) == \A p \in Product : stock[p] + delta[p] >= 0

-----------------------------------------------------------------------------
(* Any other handler's post.                                               *)
Move(r) ==
  /\ stage[r] = "new"
  /\ \E p \in Product, d \in Moves :
       LET delta == [Nothing EXCEPT ![p] = d]
       IN  Covers(delta) /\ Moved(r, delta)
  /\ Leave(r, "done")
  /\ UNCHANGED <<count, applies, overlapped>>

(* start reads the live stock of the products that are not deleted, which  *)
(* each line expects and counts until the user says otherwise.             *)
ReadLevels(r) ==
  /\ stage[r] = "new"
  /\ \E active \in SUBSET Product :
       job' = [job EXCEPT ![r].lines =
                 [p \in Product |-> IF p \in active THEN stock[p] ELSE None]]
  /\ GoTo(r, "create")
  /\ UNCHANGED <<countsRows, countsGhosts>>

CreateCount(r) ==
  /\ stage[r] = "create"
  /\ count' = [count EXCEPT ![r] = [applied |-> FALSE, counted |-> job[r].lines]]
  /\ Leave(r, "done")
  /\ UNCHANGED <<stock, countsGhosts>>

-----------------------------------------------------------------------------
(* Seeded faults, here and below: definitions with a plausible bug, used   *)
(* only to show that the properties notice it.  This one applies an        *)
(* applied count again.                                                    *)
MayApplyAlways(c) == c \in Started
MayApply(c) == ~count[c].applied

BeginApply(r) ==
  /\ stage[r] = "new"
  /\ \E c \in Started :
       /\ MayApply(c)
       /\ job' = [job EXCEPT ![r].count = c]
       /\ overlapped' = IF \E q \in Req : job[q].count = c
                        THEN overlapped \cup {c} ELSE overlapped
  /\ GoTo(r, "lines")
  /\ UNCHANGED <<countsRows, drift, applies>>

ReadLines(r) ==
  /\ stage[r] = "lines"
  /\ job' = [job EXCEPT ![r].lines = count[job[r].count].counted]
  /\ GoTo(r, "live")
  /\ UNCHANGED <<countsRows, countsGhosts>>

(* Fault: the stock the count started from is taken for the live one.      *)
LiveOfLines(r) == [p \in Product |-> IF job[r].lines[p] = None THEN 0 ELSE job[r].lines[p]]
Live(r) == stock

ReadLive(r) ==
  /\ stage[r] = "live"
  /\ job' = [job EXCEPT ![r].live = Live(r)]
  /\ drift' = [drift EXCEPT ![r] = Nothing]
  /\ GoTo(r, "apply")
  /\ UNCHANGED <<countsRows, applies, overlapped>>

(* Fault: what the user typed is posted and not kept.                      *)
KeptAsRead(r, now) == count[job[r].count].counted
(* A line is written if the user typed something else than what was read.  *)
Kept(r, now) == [p \in Product |-> IF now[p] # job[r].lines[p] THEN now[p]
                                   ELSE count[job[r].count].counted[p]]

(* The body gives new quantities for some products; the rest is posted as  *)
(* it was counted before.  Gains and losses are two posts of the ledger.   *)
Apply(r) ==
  LET c == job[r].count
      lines == {p \in Product : job[r].lines[p] # None}
  IN  /\ stage[r] = "apply"
      /\ \E typed \in [lines -> Quantities \cup {None}] :
           LET now == [p \in Product |-> IF p \in lines /\ typed[p] # None
                                         THEN typed[p] ELSE job[r].lines[p]]
               delta == [p \in Product |-> IF p \in lines
                                           THEN now[p] - job[r].live[p] ELSE 0]
           IN  /\ Covers(delta)
               /\ Moved(r, delta)
               /\ count' = [count EXCEPT ![c] = [applied |-> TRUE, counted |-> Kept(r, now)]]
      /\ applies' = [applies EXCEPT ![c] = @ + 1]
      /\ Leave(r, "done")
      /\ UNCHANGED overlapped

(* The ledger refuses a loss, or the transaction is lost: it rolls back.   *)
FailCount(r) ==
  /\ stage[r] \in {"create", "lines", "live", "apply"}
  /\ Leave(r, "failed")
  /\ UNCHANGED <<countsRows, countsGhosts>>

AllCounted == (\A r \in Req : stage[r] \in Over) /\ UNCHANGED countsVars

CountsNext ==
  \/ \E r \in Req : \/ Move(r) \/ ReadLevels(r) \/ CreateCount(r) \/ BeginApply(r)
                    \/ ReadLines(r) \/ ReadLive(r) \/ Apply(r) \/ FailCount(r)
  \/ AllCounted

CountsSpec == CountsInit /\ [][CountsNext]_countsVars

-----------------------------------------------------------------------------
TypeOK ==
  /\ count \in [Id -> Count \cup {None}]
  /\ stock \in [Product -> Nat]
  /\ drift \in [Req -> [Product -> Int]]
  /\ applies \in [Id -> Nat]

(***************************************************************************)
(* A count "preserves any sales/movements that happened concurrently"      *)
(* (comment of apply): whoever is about to apply one holds a live quantity *)
(* that differs from the stock by exactly what others moved since, so that *)
(* it corrects the gap it saw and nothing else.                            *)
(***************************************************************************)
GapIsExact ==
  \A r \in Req : stage[r] = "apply" =>
    \A p \in Product : stock[p] = job[r].live[p] + drift[r][p]

(***************************************************************************)
(* After an apply the count's lines say what the stock is, up to what      *)
(* others moved since the live read, for a count nobody else was at.       *)
(***************************************************************************)
Applied(r, c) == stage[r] = "apply" /\ stage'[r] = "done" /\ job[r].count = c
LinesTellTheStock ==
  [][\A r \in Req, c \in Started \ overlapped : Applied(r, c) =>
       \A p \in Product : count'[c].counted[p] # None =>
         stock'[p] = count'[c].counted[p] + drift[r][p]]_countsVars

(***************************************************************************)
(* A count corrects the exact gap, and once: "Idempotent: re-applying an   *)
(* already-applied count throws ConflictError" (comment of apply), for a   *)
(* count that no two applies were at once: two that overlap both find it   *)
(* unapplied and both correct the stock.                                   *)
(***************************************************************************)
AppliedOnce == \A c \in Started \ overlapped : applies[c] =< 1
CorrectsOnce == GapIsExact /\ AppliedOnce
=============================================================================
