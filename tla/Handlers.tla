------------------------------ MODULE Handlers -------------------------------
(***************************************************************************)
(* What the inventory counts and the sales documents share: the requests   *)
(* of one business, each one READ COMMITTED transaction that Db.open       *)
(* commits or rolls back, and the rows they find or insert.                *)
(***************************************************************************)
CONSTANTS
  Req,            \* requests, each made once
  Seed,           \* rows that exist at the start
  None

Id == Seed \cup Req           \* a request inserts one row at most
Over == {"done", "failed", "refused"}

VARIABLES
  stage,      \* the statement each request runs next
  job         \* what it is at, and what it has read
=============================================================================
