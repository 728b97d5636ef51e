------------------------------ MODULE Requests -------------------------------
(***************************************************************************)
(* What the modules Accounts, Tenancy, AdminMfa and BackOffice share: the  *)
(* requests, the statement each of them runs next, what it has read, and   *)
(* the mix of operations a behaviour is made of.                           *)
(*                                                                         *)
(* The repositories of these modules commit every statement by itself, or  *)
(* are one READ COMMITTED transaction whose writes come last: a read is a  *)
(* step, and a run of writes up to the commit is one.                      *)
(***************************************************************************)
EXTENDS Integers, FiniteSetsExt, TLC

CONSTANTS
  Req,     \* requests, each made once
  Mixes,   \* bound: sets of operations; the requests of a behaviour make one's
  None

ASSUME MixesAssumption == \A m \in Mixes : m \subseteq STRING
ASSUME NoneAssumption == None \notin Req

VARIABLES
  status,  \* the status of the business
  mix,     \* the operations of this behaviour
  stage,   \* the statement each request runs next
  job      \* what it does and what it has read

requests == <<mix, stage, job>>

Idle == [op |-> "none"]

RequestsInit ==
  /\ status \in {"pending", "active"}
  /\ mix \in Mixes
  /\ stage = [r \in Req |-> "new"]
  /\ job = [r \in Req |-> Idle]

Doing(op)   == {r \in Req : job[r].op = op}
Starts(r, op) == stage[r] = "new" /\ op \in mix

(* r has run a statement, and goes on with the next, with what it knows.   *)
Goto(r, next, known) == /\ stage' = [stage EXCEPT ![r] = next]
                        /\ job' = [job EXCEPT ![r] = known]
                        /\ UNCHANGED mix
End(r, outcome) == Goto(r, outcome, Idle)

Answered(r) == stage[r] \in {"done", "refused", "crashed"}

(* The process dies, or the connection: what was committed stays.          *)
Dies(r) == stage[r] # "new" /\ ~Answered(r) /\ "crash" \in mix /\ End(r, "crashed")
=============================================================================
