# Tijaru backend: TLA+ models and proofs

Tijaru is a multi-tenant inventory, point-of-sale and marketplace backend
(NestJS, Kysely, PostgreSQL). These modules model what concurrent requests and
background jobs do to its state: stock, documents, queues, accounts, the
console's decisions, files, notices. TLC checks them on small instances; TLAPS
proves the most important properties for every value of the constants.

Paths below are relative to the repository; `modules/` is `src/modules/`.

## 1. How the program runs

Every tenant request passes its guards, which read on the owner's connection
pool, and then runs its handler inside one READ COMMITTED transaction that the
tenant interceptor opens (`Db.scope`). `Db.tx` joins that transaction instead of
nesting one; `Db.afterCommit` callbacks wait in memory, run after the commit in
the order they were registered, and are dropped on rollback. Logins, the
platform console and jobs (`@Cron`) run outside any such scope: each of their
statements commits by itself.

What follows from it, and what every module relies on:

* A statement sees what was committed when it started, plus its transaction's
  own writes. What a plain SELECT read may be out of date by the time it is used.
* A statement that writes a row locks it until the end of the transaction; a
  writer of a locked row waits, and re-evaluates its WHERE against the new row.
* A transaction that fails anywhere leaves nothing behind but what it did
  outside the database.
* Nothing in the schema keeps a quantity at zero or more: the floor is in the
  ledger's UPDATE alone.

Most operations read, decide in the program, and write. Between the read and
the write anyone may commit. That is where the hard behaviours are.

## 2. Inventory

| Component | State | Operations | What is hard | What makes it correct |
|---|---|---|---|---|
| Stock ledger (`modules/stock-ledger`) | `stock_levels`, `movements` | `post` with its lines | several rows per request, locked in the order of the lines; the floor; the average cost computed between a read and an upsert | never below zero; movement rows explain the stock; a post is all or nothing; the average is the weighted one |
| Movements, products' `adjust` | the ledger's | posts of one line | the contract of a line is the caller's to keep | every caller's lines are well formed |
| Delivery notes (`modules/delivery-notes`) | notes, lines, payments | create, update, cancel, set status, edit a sent quantity, sign, pay, return | every guard is read before it is used | signed once; payments add up; not overpaid; no more returned than sent; stock moved is what the note says |
| Point of sale (`modules/pos`) | tickets, sessions of the day | checkout, hold, park, resume, session | numbering under an advisory lock; a till that must agree with the stock | numbers grow; revenue equals goods sold |
| Marketplace orders (`modules/marketplace`) | orders, order lines, customers made on the way | place, transition | status read before it is written; numbers retried; announcements after the commit; the price is resolved again | follows the process; ships once; announced exactly when committed; no dearer than shown |
| Marketplace catalogue | listings, ladders, price groups | create, update, replace, delete | a DELETE that sees its own snapshot; unique keys that NULL escapes | a ladder is one edit's; one default group |
| Webhooks (`modules/integrations`) | `webhook_deliveries` | enqueue, drain every minute | drains overlap, die, lose rows | tried a bounded number of times, settled in the end |
| Purchase orders (`modules/purchase-orders`) | orders, lines | create, patch, remove, receive | row locks in opposite orders; totals read before others commit | received is what entered the stock; not over-received; status says what the lines say |
| Inventory counts (`modules/inventory`) | counts, lines | start, apply | stock moves while people count | an apply corrects exactly the gap; applied once |
| Invoices, estimates | documents, lines, paid sum | create, update, pay, cancel, set status, remove | payments against each other and against cancel; numbers compared as text | paid is what came in; status tells the money; totals follow the lines; numbers follow |
| Sessions, users, roles (`modules/auth`, `users`, `admin`) | users, sessions, role choices, overrides, token version | login, refresh, logout, change and reset password, register, create, update, remove, patch a role or overrides, impersonate | a refresh in flight against a logout; rights read in several statements | an ended session stays ended; the version tells old rights from new; an owner remains |
| Second factor (`auth/.../platform-admin-mfa`) | secret, last step, failures, lock | challenge, verify | the step compared is not the step written over; the count and the lock are two statements | a code works once; guessing is bounded |
| Platform console, guards, warehouses | status, plan, limits, modules, VAT, warehouses | approve, reject, suspend, extend, limits, modules, settings; guards; create, update, remove | counts read before the transaction that inserts; a guard that writes | grants hold; one default warehouse |
| Tenant scope and row level security | pooled connections, their setting | open, read, write, close | a setting on a connection others use next | each request finds its own rows |
| Attendance (`modules/hr`) | attendances, pauses | check in, pause, check out, nightly check-out | find-then-insert; a job against a user | one open shift; hours are true; stale shifts are closed |
| Expenses, receipts, images | rows, files on disk, categories | create, update, remove, scan, photos, image, logo; categories | files and rows do not commit together | what a row names is there |
| Products | rows, unique codes | create, update, duplicate, remove | the check and the unique key see different rows | (stock and files above) |
| Notifications | notifications, mails | scan, read, reminders | look-then-insert; windows without memory | one unread notice; reminded once |
| Parties, categories, reports, activity, PDF, mail, OCR | rows and files | data entry, read-only queries, output | nothing concurrent | – |

Components interact in four ways. Delivery notes, POS, orders, purchase orders,
counts, movements and products all post to the **ledger inside their own
transaction**, so their abort undoes its work. Orders hand announcements to
**afterCommit callbacks**, and these fill the webhook **queue table** that the
drain polls. The console changes the **status, plan and limits** that logins,
guards and the catalogue read. Everything else is shared rows.

## 3. Modules

| Module | Models | Proofs |
|---|---|---|
| `StockBook` | the abstract book: a request is answered once, by one `Post` of all its lines that keeps the floor, or refused | – |
| `StockLedger` | `post`/`applyDelta`, one action per statement, row locks, aborts, deadlock victims | `StockProofs` |
| `StockCallers` | what each caller of the ledger makes of its body | `StockProofs` |
| `AverageCost` | the average cost of one row: lock, blend in the program, upsert | `ReceiptsProofs` |
| `DeliveryNotes` | notes, lines, payments and their stock | `DeliveryNotesProofs` |
| `PosTickets` | tickets, sessions, numbering, the advisory lock | `StockProofs` |
| `Orders` | orders, numbering with retries, shipping, `afterCommit` | `MarketplaceProofs` |
| `WebhookOutbox` | the delivery queue and its overlapping drains | `MarketplaceProofs` |
| `PurchaseOrders` | purchase orders with the locks of edits and receipts | `ReceiptsProofs` |
| `Handlers` | the requests, and the ids of their rows, that the next two share | – |
| `InventoryCounts` | counts, applies and the movements around them | `DocumentsProofs` |
| `SalesDocuments` | invoices and estimates: numbers, edits, payments, statuses | `DocumentsProofs` |
| `Requests` | the requests of the modules below, and the mix of operations of a behaviour | `PlatformProofs` |
| `Accounts` | users, sessions, tokens, rights, registration, the console's users | `PlatformProofs` |
| `Tenancy` | applications, plans, guards, limits, warehouses, settings | `PlatformProofs` |
| `AdminMfa` | the second factor of an administrator | `PlatformProofs` |
| `TenantRows` | scopes, pooled connections, row level security | `PlatformProofs` |
| `Attendance` | shifts, pauses, the nightly check-out | `OfficeProofs` |
| `Uploads` | files, the rows that name them, expenses and their categories | `OfficeProofs` |
| `Catalogue` | products, price groups, a listing with its ladder, the price of an order | `OfficeProofs` |
| `Notices` | the notification scan and the mail reminders | `OfficeProofs` |
| `BackOffice`, `Platform` | the composition: one business with all of the above | `PlatformProofs`, `OfficeProofs` |
| `SumTheorems` | no code: sums and extremes of finite sets, as lemmas for the proofs | itself |

Each top module has an `MC...` module that gives the constants small values. How
they correspond to the code:

* A **request** is a value of `Req` (or `Tx`) with a program counter `stage`
  naming the statement it runs next, and a record `job` of what it has read so
  far: the handler's local variables. An action that starts a request takes its
  inputs from small sets; other actions are one statement each, or several
  where section 4 says why that is the same.
* **Tables** are functions from ids to records, `None` where there is no row. A
  created row gets the id of the request that creates it.
* **Rollback** is `Fail`, enabled wherever a statement may throw or the
  connection may break. Where only the *decision* could fail (a 4xx), the action's
  guard is false and `Fail` is what is left. The modules over `Requests` end
  such a request as `refused`, and a connection or process that dies as
  `crashed`.
* **Seeded faults.** A definition commented so, right before the one it
  resembles, is not part of the model: it is that definition with a plausible
  programming error, kept so that each property can be seen to notice one.
* **History variables** (`contended`, `overlapped`, `irregular`, `shared`, `history`, `tries`,
  `drift`, `applies`, `income`, `byHand`, `ended`, `slipped`, `crossed`,
  `overlap`, `reused`, `torn`, `overlaid` ...) are written and never read by an
  action's guard. Many of them hold what two requests were at at once. Many
  guarantees of this code hold *outside* that set only; saying so in the
  property lets the model keep every overlap and still say what is true.
  Section 7 says what happens inside.

### Details per module

**StockLedger.** `rows`, `qty`, `journal` are the committed `stock_levels` rows,
quantities and net movements; `pend[t]` and `logged[t]` what a transaction has
added but not committed; `holder` the row locks. `LockRow` is the `SELECT ... FOR
UPDATE`, `Upsert` the `INSERT ... ON CONFLICT`, `Decrement` the conditional
`UPDATE ... WHERE qty >= n` whose zero row count becomes `Insufficient`,
`LogMovement` the movement row. A transfer has two legs. A request of several
lines is what POS, deliveries and counts post. Opposite transfers deadlock;
`DeadlockVictim` is PostgreSQL's answer. `Book` is the refinement mapping into
`StockBook`: committed quantities and movement rows, what each request asked for
and whether it was answered, with all that is uncommitted hidden. The book's
`Post(t)` computes from the lines of `t` alone what they do to every cell (`Net`),
and asks that no line takes the stock of that moment below zero. So a commit of
half a request, of a line twice, or of the lines of another is no step of the book.

**StockCallers.** One operator per caller, from what its schema lets through to
the lines it posts: `Recorded`, `Adjusted`, `Sold`, `Shipped`, `Received`,
`Signed`, `Counted`. The ledger does not check the sign of a line; these do.
The requests of the run `ledger` are built with them.

**AverageCost.** The same statements with the cost in the picture and one row.
Averages are exact fractions; the code rounds to `numeric(12,4)`.

**DeliveryNotes.** `findDetail` is two statements (row, then lines), `update`
deletes and inserts lines in two statements whose DELETE sees its own snapshot
only, `createReturn` reads what was returned, picks a number, inserts and signs.
One product at price 1; quantities of the whole note in one unit. A request at a
return is also at the note it returns (`Touched`).

**PosTickets.** Lock (advisory, per business), read MAX, write. `resume` deletes
the parked ticket and sells it under a new number; refs of movements stay, which
is why numbers must look at both.

**Orders.** `Process` is `ORDER_PROCESS` and `BUYER_TRANSITIONS`; callbacks are
run one by one after `Committed` and may fail or be lost with the process.

**WebhookOutbox.** One minute of the clock, one drain per free worker, one HTTP
attempt after the other; `attempts` is raised in one statement and compared and
rescheduled in another. An accepted delivery whose UPDATE to `ok` fails
(`MarkFails`) falls into the same `catch` as a refused one, and is counted and sent
again.

**PurchaseOrders.** An edit locks the order and then its lines, a receipt its
lines and then the order; a DELETE cascades. Every line is of its own product.

**InventoryCounts.** Applying reads row, lines, live stock; its writes are one
step. Other handlers' posts are `Move`.

**SalesDocuments.** An invoice's and an estimate's header and lines. A new
document reads the last number by text order (`Before`: 10000 comes before
9999) and inserts under the unique key, so that `NumberTaken` is what the loser
gets. `recordPayment` compares with the row it read and adds to the row that is
there. The sums of a document are in cents; a payment is in tenths of a cent,
because its schema takes any positive amount, `recordPayment` accepts half a cent
more than what remains (`Accepted`), and the `numeric(14,2)` column rounds what it
adds (`Cents`). A line is its amount and its discount.

**Accounts.** A login reads the user, its overrides and its role's rights in
three statements and then issues a token and a session; a refresh revokes the
old session first. `tokens` holds every token handed out, with the rights it
carries. `Change` is the body of an update; the console's update counts the
other owners in a statement of its own. An edit of a role is three steps of one
transaction: the rows of the role (`PatchRole`, which hold their locks until the
end), the snapshot of the UPDATE of the versions (`FindRoleUsers`), and, after
`listRoles`, the COMMIT (`CommitRole`), at which rows and versions change. A user of
the role who was not in the snapshot keeps the old version (`Overlooked`).

**Tenancy.** `SubscriptionGuard`, `Expire` and `ModuleAndLimitGuards` are what a
request passes before its handler; `expire` is the write of a guard. Warehouses
clear the other defaults and set their own in one transaction, on the defaults
they saw. `updateSettings` of the console is a sequence of statements, each
committed.

**AdminMfa.** Time is counted in the 30-second steps of a code; a code is its
secret and its step. `verify` reads the row, compares, and writes the last step
in another statement; a wrong code is counted in one statement and locks in the
next.

**TenantRows.** Four kinds of table: one with its own business, a child that
inherits it (trigger), an order that two businesses see, and its lines. `setting`
is `app.current_business_id` of each pooled connection; `enforced` says whether
the pool's role is bound by row level security.

**Attendance, Uploads, Catalogue, Notices.** Reads, then one step of writes; files are
written and removed at once, and rows change at COMMIT, so `Replace` (UPDATE and
unlink) and `Commit` are two steps. `UnitPrices` is `resolveUnitPrice`. A reminder
is mailed when its window (`Window`, `Absent`) holds the hour of a run; nothing
remembers that it was.

**Platform** joins them: they share the requests and the status of the business,
which the console writes and logins, the catalogue and the reminders read. Any
request may die between two statements.

## 4. Abstractions

* *Reads, then one write step.* Where a handler does all its reading first and
  then only writes and commits, the writes and the commit are one action. A write
  takes its row locks and a waiting writer re-evaluates its WHERE, so the order
  of commits is the order of these steps. Where a handler reads again after a
  write (`applyDelta`, the totals of `receive`), where something it writes is
  outside the transaction (a file, a pooled connection, a callback) or where locks
  may deadlock, the writes are separate actions.
* *Reads merged.* Several reads on the owner's pool, one after the other, are one
  action where the order of what may come between them shows nothing more. The
  limit guard reads the limit and then counts, `warehouses.create` reads multi-stock
  and then counts, `remove` looks for the warehouse and then for its stock: taken
  together at the last of these reads, only a limit lowered, or a module switched
  off, between the two is missed; `GrantsHold` leaves a resource whose limit was
  lowered to history (`crossed`) anyway, and says nothing of modules. An order reads its listings and then their ladders,
  and `ensureCustomer` looks for the customer, for the default group, and inserts;
  a default group deleted between these, and a ladder replaced between the
  listing and it, are not among the behaviours. That the INSERT loses against
  another first order is (the order is refused).
* *Receipts.* An expense may be given the path of any receipt that was scanned,
  or of another expense. Its schema takes any string; one that was never a file of
  the business names nothing, and is left out.
* *Data.* Names, wording, VAT, dates and layouts are left out. A document is
  about one product at price 1 unless lines matter (purchase orders, counts,
  invoices, the ledger).
* *Numbers.* A document number is a natural number. The code writes it with four
  digits or more and orders it as text, which agrees below 10000; only
  `SalesDocuments` goes beyond, and models the order of the text.
* *Time* is a counter in the unit that matters: hours of a shift, 30-second steps
  of a code, days of a plan, minutes of the outbox. It moves between any two steps.
* *PostgreSQL* (locks, visibility, row level security, deadlock detection), the
  disk and the HTTP receivers are external and modelled from what the code asks
  of them.
* *Mixes.* The composition `Platform` has some seventy operations. Which of them
  can disturb each other is known from the state they touch, so a behaviour
  chooses one *mix* of operations (`Mixes` in `MCPlatform`) and interleaves the
  requests of that mix in every order. A mix holds what reads or writes the same
  rows; two operations that share no state are never in one mix only because that
  shows nothing new. The modules themselves know no mixes but through `Starts`.

## 5. Runs

Ten runs pass and two show a disagreement between the code and what its own
comments say.

| Run | Instance | What it shows |
|---|---|---|
| `ledger` | 3 transactions; 2 products in 2 warehouses, one cell with a row of 2 units; what a receipt, a sale of 2, a delivery of two lines, two opposite transfers, a return note, an adjustment and a count post | the floor, movements explain the stock, each commit is one whole post of one request (`ImplementsBook`), and everyone is answered in spite of deadlocks |
| `average_cost` | 3 posts of 4 kinds on a row of 2 units at cost 6 | every commit adds to the worth of the stock what the received units cost, as D-018 has it |
| `notes` | 3 requests of every kind on an unsigned note of 2 units, a signed one and a return of one unit of it | stock is what was posted and lines are of one edit; a note that requests were at one after the other is signed for its lines, not overpaid, and takes back no more than was sent |
| `notes_double_sign` | 2 requests | *violated*: two overlapping signatures both post ("never re-posts") |
| `pos` | 3 requests of every kind, 2 businesses, a parked and a sold ticket | numbers grow and none is given twice; the till agrees with the stock |
| `orders` | 3 requests, one order in preparation, 2 retries, one crash or failing callback | stock leaves with shipments, the process is followed, what is announced happened and what happened is announced |
| `outbox` | 2 deliveries to 2 hooks, 2 drains, 2 attempts, 1 crash | each try is counted, settled rows stay (but for two drains at one row), everything is settled |
| `purchases` | 2 requests, a draft and a partly received order of two lines (2 units, 1 unit) | receipts are never lost; the status of an order says what its lines say |
| `counts` | 3 requests, 2 products (2 in stock, none in stock), an open count | an apply posts the exact gap, once if it is alone; lines tell the stock |
| `sales` | 3 requests; a draft invoice, a partly paid one numbered 9998, a draft estimate | payments are never lost; statuses tell the money, up to the cent that the tolerance adds; totals follow the lines; a number that nobody took meanwhile is fresh, until the text order finds 9999 |
| `platform` | 3 requests in 28 mixes; an owner and a cashier, one warehouse, limits of 1 (2 warehouses), 3 days, 2 wrong codes, 2 connections, 2 category names, ladders of up to 2 steps | the thirteen properties below |
| `attendance_stale` | 3 requests, 2 employees, a database role that row level security binds | *violated*: the nightly check-out finds no shift ("cross-tenant sweep") |

The properties of `platform`:

| Property | In words |
|---|---|
| `EndedStaysEnded` | a session that was ended is not refreshed again, but by a refresh that had already read it |
| `VersionTellsRights` | a token of the current version carries the rights its user has; users who were given a role, and those the UPDATE of a role edit did not see, keep their version and are not covered |
| `ConsoleKeepsAnOwner` | the console never leaves a business without an owner, unless two of its decisions overlap |
| `GrantsHold` | a business is decided once, its plan expires only when its time is over, and it has no more than its limits; up to the requests that were under way at once, and limits lowered |
| `OneDefaultWarehouse` | a business has one default warehouse unless two writers of it overlap |
| `CodesWorkOnce`, `GuessingIsBounded` | a code of the second factor opens one session; after so many wrong codes no code is looked at until the lock is over; unless requests overlapped |
| `RowsStayApart` | a statement finds the rows its business may see and no others, whatever its connection served before |
| `HoursAreTrue` | the hours of a shift are those between check-in and check-out less its pauses, unless two requests met at the shift |
| `NamesResolve` | a file or a category that a row names is there, up to the overlaps of section 7 |
| `OrderNeverDearer` | an order is no dearer than the catalog showed, while every step of the ladder is a discount, and the seller leaves the listing alone and does not delete the buyer's price group |
| `RemindedOnce`, `OneOfEach` | one reminder per threshold, if the runs are a day apart; one row where the code looks before it inserts, for those that did not look at once |

**Why the bounds are enough.** The races here are between two requests; a third
is there to act before, between or after them (sign a return that a third request
then pays). Quantities are chosen so that one request succeeds where two do not:
2 in stock with sales of 2, notes of 2 with payments of 1 and 2, a limit of 1 with
two creates. `MaxRetry = 2` (5 in the code) is one less than the requests, so an
order never runs out of retries; `MaxAttempts = 2` (8) has a first and a last failure;
`MaxFailures = 2` (5) has a wrong code that counts and one that locks; a shift is
stale after `StaleAfter = 1` hour (16); a `Day` has 2 hours, so a reminder's run
can be early or late by one. One fault per behaviour shows each kind of crash at
each place. `platform` has 130,770 states and takes about half a minute.

**Symmetry.** The requests of `platform` and `attendance_stale` are
interchangeable (also the employees of the latter), and neither run checks
liveness, so the symmetry is sound.

**Deadlock** is checked in every run: `AllAnswered`, `AllCounted`, `AllPosted` and
`Rest` (stutters) are enabled only when no request is in the middle of anything. The
outbox can always move its clock.

**Fairness** is stated where liveness is checked.

* `StockLedger`, `Orders`: weak fairness of an open request's next statement. The
  event loop and the database drive it on, and a statement stays enabled until it
  runs, or waits for a lock whose holder is driven on. Nobody owes a new request,
  a failure or a crash.
* `WebhookOutbox`: weak fairness of the clock and of each drain's work. The cron
  fires every minute, and the HTTP call has a timeout.

## 6. Proofs

Eight modules of theorems, each for any number of requests and any data the
constants' assumptions allow. TLC checks the same formulas first.

**`StockProofs`** — `Invariance`, `Typing`, `FloorHolds`,
`MovementsExplain`, `Refinement`: the ledger. `StockFloor` is not inductive: a commit adds
`pend` to `qty`, so it must be known that nobody else changed that row.
`LedgerInv` adds *WritesAreLocked* (whoever has uncommitted changes in a cell
holds it, so at most one has), *OnALine* and *StatementFits* (the statement is
the one its line and leg call for), and *Balanced*: what a transaction added to
a cell is what its movement rows tell plus what its current line did and has not
logged yet. From `Balanced` at a commit, `MovementsExplainStock` follows.
`Refinement`: seen from the committed data a `Begin` is one `Ask`, a `Commit` one
`Post` of every line of that request, an abort a `Refuse`, and every other
statement a stutter. The statements post line by line and leg by leg, each on the
stock of its own moment; the book posts the whole request on the stock of the
commit. That the two agree takes `PostInv`: *LinesLogged* (what an open transaction
has logged is the net of exactly the lines before the one it is on, and all of
them at the commit), *LinesHeld* (it holds every cell these lines changed, so
nobody has moved that stock since), and *LinesCovered* (none of these lines would
take the stock below zero now). Assumptions: requests are
sequences of well-formed lines, quantities start at zero or more.

The module also proves `CallersKeepTheContract` of `StockCallers`: every post of
every caller, for any body its schema lets through, is such a sequence of
well-formed lines. What the ledger assumes of a request is thus proved of those
who make one.

Last, the till. `TillAgrees` (`TillMatchesStock`) and `NumbersOnlyGrow` (`NumbersGrow`)
follow from `TillInv`. *JobRight*: whoever has read a number holds the lock of its
business, and that number is above all others until it commits, because nobody
else of the business can commit; the ticket a resume replaces is gone or of the
same business, and its maker has ended, so that it does not come back.
*SeedsCounted*: the numbers of the tickets at the start stay counted, though the
tickets may go; so a new sale's movement is none of theirs, and is new.
*BooksAgree*: what left the stock is the sum of the new movements, and the session
tells it, also before it exists. That a number above the highest becomes the
highest, whatever is deleted with the same commit, is `HigherIsHighest`.
Assumptions: finitely many tickets at the start, quantities that are not negative,
and `None` is not a row or an id.

**`ReceiptsProofs`** — what a receipt leaves behind, in two parts.

`ReceiptsReachStock`: `ReceivedIsMoved`, however receipts, edits and deletions
overlap. `ReceiptsInv`: *Typed*; *MadeInThePast* (an order or a line is made when
its request ends, so that nothing has entered the stock for the lines a request
may still bring, and a deleted line never comes back under its id); *HoldersApart*
(one request holds the row of an order); and that a line a receipt is about is of
its order, or gone. Everything that writes goes through one lemma, `Writing`.

`StatusFollowsReceipts`: `StatusTellsReceipts`, by `RegularInv`: of an order that
requests were at one after the other, an edit found it editable and it still is;
a receipt found each line of its body, once, with room for its quantity, and they
are still so when it commits; and what it decided from the totals is still what
the totals say. That the order is then received in full exactly when its status
says so takes the sums: the raised lines add up to no more than was ordered
(each fits), and to something (a body is not empty). Assumptions: the orders at
the start are finitely many and have the status their lines tell.

`AverageIsWeighted`: on a row that exists at the start
every commit leaves the average D-018 defines, stated as worth before plus cost of
what came in, so that the blend in the program is part of what is proved. The
invariant says that a transaction that has read the row holds its lock and that
the row is still what it read. The assumption that the row exists is needed:
`FOR UPDATE` locks nothing where there is no row (section 7).

**`DeliveryNotesProofs`** — `PostedStock`, `OneEdit`, `SigningIsRight`, `PaymentsWithinTotal`,
`ReturnsWithinSent`. `NotesInv`: *Typed*; *NotMade* (a request has made no note before
it ends); *Unposted* (what is not signed, or not there, has posted nothing);
*Alone* (two requests at a note, or at it and at a return of it, make it
contended); *DecidedOnWhatIs* (what a lone request has read of a note is still
so: its row, its lines, the sum of what was returned of it); *LinesOfOneEdit* and
*StockIsPosted* themselves. Every handler writes through one lemma, `Writes`, which
changes one note: who is at another one still finds what it read, because that
note is neither the one written nor what the one written returns. The three
action properties follow step by step from what a lone request knows when it
writes. Assumptions: finitely many notes at the start, each with lines of one
edit; quantities and amounts are not negative.

The proof needed `ReturnWithinSent` to say more precisely who is at a note. The
quantities of a return may be edited after it is signed; if that happens between
the statement of another return of the same note that adds up what was taken
back and its INSERT, more is taken back than was sent although the two requests
are at different notes. A request at a return now counts as one at the note it
returns, and the run has a signed return at the start, so that three requests
get there.

**`MarketplaceProofs`, the orders** — `Invariance`, `Typing`, `ProcessFollowed`, `Told`,
`StockFollowsShipments`.
`OrdersInv`: *Typed*; *NotPlaced* (an order id not yet inserted has no history);
*Alone* (two transitions at one order make it contended); *DecidedOnWhatIs* (for
an uncontended order what a transition read is still its status); *HistoryFits*
(an uncontended order that was shipped is still shipped or delivered, so nothing
ships or cancels it again); *Recorded* (a request that waits with callbacks has a
committed change to tell of); *FollowsProcess*; *ToldIsTrue*.
`StockFollowsShipments` has an invariant of its own, *ShippedInv*, which does not
ask that orders are uncontended: nobody is in the history of an order before its
change commits, a transition ships the quantity of its order, and one that starts
from a status after the shipment has the shipment in the history. What left the
stock is then the sum over all orders, of which a commit changes one term. Orders
at the start are finitely many.

**`DocumentsProofs`, invoices and estimates** — `Invariance`, `Income`, `MoneyTold`,
`Totals`, `NumbersAreFresh`.
`PaidIsIncome` holds whatever overlaps, but its step needs that an invoice stays
an invoice. The next two need more: a payment compares with the row it has
*read*, and an edit deletes the lines it has *seen*. `SalesInv` adds *NotInserted*
(nobody is at a document that is not there yet, and nothing was paid for it),
*KindStays*, *Alone* and *DecidedOnWhatIs* (what a lone request read of a document,
its lines included, is still so). All writers go through one lemma, `WriteInv`:
who leaves a `Sound` row behind keeps the invariant. `MoneyTold` is about any
payments in tenths of a cent. What `Accepted` lets through and `Cents` rounds is at
most one cent more than what remained, so a paid invoice is paid in full or one
cent over; and a partial one is short of its total, by a payment that may have
rounded to nothing. The sum over the one line of
a body is unfolded in `GrossOfOne`. Assumptions: the documents at the start are
sound themselves, and `None` is not a row.

`NumbersAreFresh` (`NumbersFollow`) follows from *Fresh*: the number a request will
give was free when it looked (`NextIsFree`: the text order puts every number but
9999 before its successor), only an insert adds a number, and it overtakes
whoever is about to insert a document of that kind. The attempt showed that the
property had been stated wrongly. It made an exception while 9999 is *in use*; but
an estimate numbered 9999 may be deleted after a request has read it as the last
one, and that request is then refused because of 10000 although nobody overtook
it and 9999 is gone. It takes two estimates, 9999 and 10000, at the start, which the
run does not have. The exception is now that 9999 is the number the request found.

**`DocumentsProofs`, the counts** — `CountsInvariance`, `Gap`, `Once`, `LinesTell`.
`CountsInv`: *AtACount* and *NotStarted* (who is at which count, and that the row
a start will insert is not there yet), *OneAtACount*, *ReadsHold* (what a lone
apply read of its count is still so, in particular that it is not applied),
*Unapplied* (only applied counts were ever applied). `GapIsExact` is inductive by
itself: whoever moves stock lets every other request drift by the same amount.

**`MarketplaceProofs`, the outbox** — `OutboxInvariance`, `Tries`, `Settled`. That no count is lost
needs more than the two bounds of `EveryTryCounted`: `OutboxInv` says who holds a
row (*AtARow*, *NotYet*), that two drains at a row make it shared (*HeldAlone*), that
what one drain holds alone is pending or gone (*Unsettled*, which is also why a
settled row is not sent again), and that the count a drain has read back is the
row's or an older one (*ReadBack*): the limit is compared with that copy, and
`GivenUp` is true of the row because counts only grow. *LoneTries* carries the
bound on the tries of a row: one below it whenever the row may be selected again.
Each crash loses at most one count for each drain; as a drain is at one row at a
time, that is `crashes * Cardinality(Drain)` in all, and `crashes` for a row of one
drain at a time. Assumptions: finitely many drains, and `NoDelivery` is not a delivery.

**`SumTheorems`** — `SumFunctionOnSet` is a recursive function that picks an element
by `CHOOSE`, and the library's induction over sets cannot be used here. The
lemmas tell a sum otherwise: `Weight` is the number of pairs of an element and
one of its units, those above zero less those below, and a cardinality is what
the theorems on finite sets speak of. That the recursion agrees with it
(`SumIsWeight`) follows from a least subset on which it would not. From there: what
an element that comes or goes, or a value that changes, does to the sum, and when
one sum is no larger than another.

**`PlatformProofs`** — the properties of the composition, for any number of requests,
in any order and in any mix. The frame comes first: `Tagged` says which stages a
request of each operation may be at, and the lemmas named `...Aside`, operation by
operation, which components it leaves alone. Then one inductive invariant for each
component, which looks only at the operations that touch it.

* `TheRowKeepsAccount` (`MfaInv`), with `NoCodeTwice` and `GuessesAreCounted` from it. A
  code is compared in one statement and used up in another. Unless requests were
  at the row together, the one that is there still finds the row as it read it, the
  codes that opened a session are no later than the last step written, and the
  wrong codes since the last lock are those that the row counts and one more if a
  request is about to count it.
* `RegistrationsApart` (`SignupsApart`): who signs up finds nobody registered under
  the same body, unless two did at once. `AccountsAreTyped` (`AccountsTyped`): every
  session, token and request in progress is at a user that has a row.
* `EndedSessionsStayEnded`: a login has one session that works, or one refresh that
  ends it and begins the next; an ended login has neither. `VersionsTellRights`:
  what a token says, or a request that will issue one has read, is so as long as
  the version is the one it was read with, because rights change together with the
  version of whoever the edit has seen; history knows the others. `ConsoleLeavesAnOwner`, an action property: at a write of the
  console that no other write has overtaken there still is another owner.
* `TheGrantsHold`, `OneWarehouseIsDefault` (`TenancyInv`). A count is compared with a
  limit in one statement and grows in a later one. `RoomLeft`: for a resource that
  was not crossed there is still room for whoever a guard has let through. This is
  about cardinalities, so the tables are finite by invariant. `StillSo`: what a lone
  writer of warehouses has read of the defaults is still so.
* `ScopesAreKept` (`RowsInv`), `TenantsStayApart`: a connection in use carries the
  business of its request and one in the pool carries none, a row that is stored
  stays, and a child has the parent its kind asks for; so what a statement finds is
  what its business may see.

**`OfficeProofs`** — the same for the components that come after these: shifts,
notices, catalogue, reminders and uploads.

* `ShiftsAreKept` (`AttendanceInv`), `ShiftHoursAreTrue`: the pauses that ended fill no
  more of a shift than the hours before the pause that runs, or before now; and a
  check-out writes the hours less the sum of all pauses, the one it ends included.
  This is where the sums are needed.
* `NoticesAreNew` (`NoticesInv`): a scan that is about to write a notice still finds
  no unread one of its kind. `CatalogueIsKept` (`CatalogueInv`), `QuotesAreHonoured`: an
  order was quoted what the steps it has read ask of the group the buyer had. With
  `RegistrationsApart` and the shifts these give `WhatIsLookedForIsOne`.
* `RemindersAreKept` (`RemindersInv`), `OwnersAreReminded`: each mail was sent in the day
  after it was due, by a run, and each run in the day after a threshold, or after an
  absence that has not ended, sent one. Two runs that sent the same mail are then
  less than a day apart, so one of them came early; and if none came late, the first
  run at or after the hour a reminder is due is in its window. The runs are finitely
  many by invariant, which is what makes a first, a last and a next one
  (`FiniteHasMin`).
* `NamesAlwaysResolve` (`NamesResolve`) needs three invariants. *RowsFiled*: what a
  request on its way may write, that a row is an expense or a photo and its maker is
  past the insert, and that a request which is about to commit has its row to itself,
  so that nothing happens to the row between the UPDATE and the COMMIT.
  *CategoriesKept*: what an expense has, or a request is about to give one, is there,
  and a removal that found a category unused is told of whoever takes it. *FilesKept*:
  a file that has just been saved has no name yet but in the request that saved it;
  a path belongs to one row, where the paths a request has read or will write count
  as its row's; and so whatever is unlinked at an UPDATE is named by no other row, and
  what a request will write is on disk, unless its row is about to go.

The attempt to prove `OrderNeverDearer` showed that it was not true as it had been
stated. After the order has read the steps of the ladder, the seller may delete
the price group of the buyer; `ensureCustomer` then finds no group, the order is
priced for the public, and that may be dearer than the catalogue showed. It takes
five requests to get there (the group, a listing with a step for it, a first order
that puts the buyer into it, the deletion, and the order around the deletion), so
the run with three had not. The property now makes an exception of that deletion.

Assumptions, all on the constants: `None` is no request, no row and no business;
the ids of what is there at the start are not those of requests; the warehouses
at the start are finitely many and within the limit; there is a highest price;
the rows at the start of `TenantRows` keep their foreign keys and `NOT NULL`
columns; limits, thresholds and periods are positive; there is a category, and the
expense at the start is no request. The instance of the run
`platform` satisfies them, and TLC evaluates them there.

**Model-checked only.** Every invariant and every action property of a passing run is
a theorem. What stays with TLC is liveness, which is out of the prover's reach
(`EveryRequestAnswered`, `ToldInTheEnd`, `EveryDeliverySettled`), and the two
violations.

## 7. What the models show without a run of its own

These follow from the models and the reading of the code. Where a property
excludes documents that two requests were at at once, this is what happens to
those.

*Documents and stock*

* Two overlapping payments of a note, or of an invoice, exceed its total; two
  overlapping returns, or one return that names a line twice, take back more than
  was sent; `updateLineSent` edits a signed note. If that note is a return, what it
  took back changes under another return of the same note.
* `resume` sells a parked ticket twice if two resumes overlap. The id of a POS
  session carries the day alone (`kysely-pos.repository.ts:34`, key at
  `004-tables.sql:684`), so the second business of a day finds none of its own.
* Two overlapping transitions of an order break its process. Two first orders of
  a buyer: the second is refused by the unique key of customers instead of
  retried; the customer of a refused order stays.
* Overlapping receipts receive more than was ordered; if each completes another
  line, the order stays `partiallyReceived` for ever (`po.service.ts:112`).
* Two first receipts of a product: `FOR UPDATE` has no row to lock, and
  `ON CONFLICT` overwrites the average of the other.
* Two applies of one count both correct the stock. Opening stock of a product has
  no movement row (`kysely-products.repository.ts:286`): the ledger's properties
  count from the opening quantities.
* A payment of less than half a cent leaves an invoice `partial` with nothing paid,
  and counts as no money for `cancel`; one of half a cent on a settled invoice is
  accepted and makes it paid a cent above its total (`invoices.service.ts:216`),
  though `docs/03-progress.md:753` says that overpayment is rejected.
* An estimate accepted between the read of `remove` and its DELETE is deleted
  (`estimates.service.ts:203`). While 9999 is in use, number 10000 is given
  once, and every later document is refused.

*Catalogue*

* "A discounted group never pays more than a walk-in buyer" (`pricing.ts:7-8`)
  needs that no step of the group is dearer than the list price.
* A price group deleted between the lines an order has read and its
  `ensureCustomer` leaves the buyer the public price, above the one it was shown.
* Two concurrent replacements of a ladder keep the steps of both; public steps
  (no group) escape the unique key and may be doubled.
* `hasBarcodeOrSkuConflict` skips deleted products, which the unique index
  (`004-tables.sql:744-745`) counts; two `duplicate`s of a product collide; the
  listing of a deleted product can still be ordered.

*Accounts and console*

* A user who is created, or moved to a role, between the UPDATE of the versions and
  the COMMIT of an edit of that role, and signs in, keeps a current version with the
  old rights until the next change (`admin-roles.service.ts:83-88`), though the
  comment above it (line 52) speaks of "every user whose role matches".
* The token version is compared by no guard; `logoutAllSessions`
  (`auth.service.ts:136`) is called by nobody. `register` looks for the mail and
  then inserts, and no key forbids two administrators.
* "The default must stay enabled" (`platform-admin.service.ts:443-444`) does not
  hold with `tvaEnabled: false`, which leaves 20.

*Attendance, files, notices, outbox*

* The unique index of attendances (`004-tables.sql:813`) allows two open shifts.
  The nightly check-out closes a shift by id alone, with 16 hours whatever it
  worked, and leaves its pauses running.
* An image or a receipt is unlinked before COMMIT, which may still fail; two
  updates of an expense may keep one receipt's file of each; a deleted expense
  leaves its photos' files; one uploaded receipt may be named by two expenses.
* A category counted as unused is removed while an expense takes it. Two scans
  both find no unread notice.
* The reminder's windows assume runs 24 hours apart; a day without a run is a
  reminder lost, and a run that is repeated within the window mails again.
* Overlapping drains send a delivery twice, and one may mark as failed what the
  other saw accepted.

## 8. Plan

Done: the ledger first, because everything posts to it; then the documents that
post to it, the outbox that orders fill, invoices and estimates; then the rest of
the business (accounts, tenancy, second factor, row level security, attendance,
files, catalogue, notices) and their composition.

Proved: all safety properties of the passing runs. What could follow:

1. The composition of `Orders` with `WebhookOutbox`: a committed change reaches
   the queue of each listener.
2. Two abstract specifications: a document that is decided on one at a time
   (which `DeliveryNotes`, `Orders`, `SalesDocuments` and `InventoryCounts`
   implement where nothing is contended; `Alone` and `DecidedOnWhatIs` of the proofs
   are its invariant), and an at-least-once queue for the outbox.
3. `DeliveryNotes` with several products, so that two signatures may also
   deadlock.

## 9. Not modelled, and why

* *A database error while the outbox counts a failure.* The drain ends there, as it
  does when its process dies, which is modelled.
* *OCR service.* Stateless text extraction.
* *Parties, product categories, positions, API keys, webhook settings, security
  policy, VAT choices.* Data entry of single rows without a state machine.
* *Reports, activity, bug reports, health.* Read-only queries, and rows that are
  appended and read by nothing that is modelled. Activity entries and audit rows
  commit with the document they are about.
* *Mail, PDF, HTTP plumbing.* Output, and input that has passed its schema.
* *Passwords, hashes, token expiry.* A password is right or wrong; what follows
  from it is modelled.
* *Opening stock* of a product, the *seeds* and the *audit triggers*: written
  once, before or beside what is modelled.
