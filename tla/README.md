# uni_erp: specifications and proofs

uni_erp is a multi-tenant ERP for small trading companies: a Next.js application
whose API handlers run *use cases* (`apps/web/lib/use-cases/*.ts`) against one
PostgreSQL database. This directory holds TLA+ modules of the parts whose state
several requests share, the TLC configurations that check them on small instances,
and theorems with proofs that TLAPS checks for every value of the constants.

Paths below are relative to `src/`; `lib/` stands for `apps/web/lib/`, and `NN §x`
for a section of `Plan/NN_*.md`, the project's own specification documents.

## 1. The execution model

Every use case is one call of `withTenantTransaction` (`packages/db/client.ts`): BEGIN,
`set_config` of the tenant for row level security, the statements, COMMIT; an exception anywhere
means ROLLBACK. The isolation level is READ COMMITTED, so

- each statement sees what was committed when *it* began, and two statements of one
  transaction may see different databases;
- `SELECT ... FOR UPDATE` waits for the row's lock, then reads the row *as committed
  by whoever held it*; a row that does not exist is neither seen nor locked;
- `now()`, the default of every `createdAt`, is the time of BEGIN: the order of
  `createdAt` is not the order of commits;
- row locks and `pg_advisory_xact_lock` are held to the end of the transaction;
- a unique index makes an INSERT wait for an uncommitted one of the same key, and
  fail if that one commits;
- the deadlock detector rolls one of the transactions of a cycle back.

These rules are where this code can go wrong, and the modules are built on them: a
request is an actor with a program counter, one action per statement that can
observe or block another transaction, and writes that show at COMMIT. Consecutive
statements that nobody else can interleave with are one action.

## 2. Inventory

| Component | State | Operations | What must hold | Status |
|---|---|---|---|---|
| **Money arithmetic** `lib/money.ts` | none | half-up ratio, quantity x price, tax, proportional allocation, share of a return | shares never exceed what is left and add up to the total | modelled, proved |
| **Customer account** `sale.ts`, `finance.ts`, `returns.ts`, `opening-entry` | `sales`, `receivables`, `payments`, `payment_allocations`, `returns`, customer rows of `opening_balances`, journal lines on 1000, 1010, 1100, 2100, 4000, 5100 | completeSale, recordCustomerPayment, completeCustomerReturn, cancelSale, createOpeningEntry | the receivable equals account 1100; no more money than the bill; a full return or a cancellation leaves nothing | modelled, proved |
| **Supplier account** `purchase.ts`, `finance.ts`, `returns.ts` | `purchases`, `payables`, payments, journal lines on 1000, 1010, 1200, 2000, 3000 | receivePurchase, recordSupplierPayment, completeSupplierReturn, createOpeningEntry | as for customers, with account 2000; lock order | modelled, proved |
| **Ledger and periods** `accounting.ts`, `accounting-admin.ts`, `expense.ts` | `journals`, `journal_entries`, `accounting_periods`, `accounting_period_events`, `expenses`, the advisory lock | createManualJournal, recordExpense, reverseExpense, closeAccountingPeriod, reopenAccountingPeriod | closed books are frozen; periods neither overlap nor leave gaps; closing zeroes out; one key, one effect | modelled, proved |
| **Pricing, tax preview, discount policy** `sale.ts`, `purchase.ts`, `sale-ui.tsx`, `purchase-ui.tsx`, `item.ts` | the item's price and tax rate, an open form with its list of items, the posted lines | listItems, updateItem, previewTax, the pricing of completeSale and receivePurchase | what is charged is what was shown, or the difference is accounted for; split lines add up; discounts within the policy; stock enters at cost | modelled, proved |
| **Warehouse stock** `sale.ts`, `purchase.ts`, `returns.ts`, `inventory.ts`, `rep-stock.ts` | `stock_balances`, `stock_batches`, `stock_movements` | sale with FIFO, cancellation, purchase, two kinds of return, adjustment, issue | balance = sum of movements, never negative; FIFO; no deadlock where the locks are ordered | partly, proved |
| **Field-sales custody** `rep-stock.ts`, `field-sale.ts` | `rep_stock_assignments` and lines, custody balances and movements, account 1250 | issueRepStock, postFieldSaleLine, recordCustodyWriteOff | custody = sum of movements, never negative; one active assignment per representative; account 1250 carries what is held; everybody ends | modelled, proved |
| **Opening entries** `accounting-admin.ts` | `opening_balances`, journals | createOpeningEntry for six kinds | posted once | partly (with the two accounts) |
| **Staff and ownership** `staff.ts`, `tenant-onboarding.ts` | accounts, memberships with status and role, the owner of a tenant | registerOwnerAndTenant, inviteStaff, updateMembership, transferOwnership | the owner is an active member; only the owner hands over | modelled, proved |
| **Platform operators** `platform-operator-admin.ts` | `platform_operators`, users | grant, create, revoke, reset | an operator is no member of a workspace | modelled, proved |
| **Sessions and password** `session.ts`, `guard.ts`, `use-cases/password.ts`, the auth routes | `sessions`, `users`, audited failures, connections | login, logout, loadSessionById, changePassword, resetOperatorPassword | no call after idle or absolute expiry; a changed password ends the other sessions | partly, proved |
| **Rate limiting** `rate-limit.ts`, `login-throttle.ts` | a sliding-window log per key, in Redis or in the process | consume, reset, fallback | no more than the limit per window; a refusal is earned | modelled, proved |
| **Connection pool, tenant transactions** `packages/db` | ten connections, transactions | withTenantTransaction, permission look-ups | where connections are asked for while one is held | modelled in `Custody`, `SignIn` |
| **Reports** `accounting-reports.ts`, `profit-loss.ts`, ... | none; several transactions per report | getBalanceSheet, getProfitAndLoss | a sheet balances | partly, proved |
| **Master data, audit trail, validation, UI, migrations** | single rows, append-only rows, no state | | see section 8 | |

How they interact. The components call each other inside one transaction: a sale
decides stock (FIFO), writes balances and movements, writes the receivable, and posts
its journals last, where the period check takes the tenant's advisory lock. There are
no queues and no background jobs: *all* interaction is through shared rows, their
locks, the unique indexes and triggers, and the pool of connections. Rows are locked
first, the advisory lock after them and released with them; closing, reopening and
opening entries take the advisory lock first and then no row lock that a holder of
other rows could have, so the two kinds of lock form no cycle, and the components can
be modelled apart: what a module leaves out is either constant for it or decided under
a lock it already holds.

What is hard here: stale reads before a lock (payments, manual journals, custody);
reads without any lock (staff, operators, sessions, a form that was loaded before);
lock order (payments over several documents, purchases, sales, a field sale against a
write-off); a missing row that `FOR UPDATE` cannot lock; cumulative rounding over
partial returns and over the batches of a line; `createdAt` taken for an order of
events; retries with an Idempotency-Key that something else used; chains of close,
reopen, close; a report read in several transactions; a transaction that asks for a
second connection; a store that stops answering between two attempts.
`PROJECT.json` lists each with its line.

## 3. Plan

| # | Modules | State |
|---|---|---|
| 1 | `Money`, `ArithmeticProofs` | done |
| 2 | `CustomerAccount`, `CustomerAccountProofs` | done |
| 3 | `AccountingPeriods`, `Reports` on top of it, `AccountingPeriodsProofs` (of both) | done |
| 4 | `StockLedger` (abstract), `Stock`, `StockProofs` | done |
| 5 | `Custody`, the second implementation of `StockLedger`, `CustodyProofs` | done |
| 6 | `SupplierAccount`, `SupplierAccountProofs` | done |
| 7 | `Pricing` (proofs in `StockProofs`) | done |
| 8 | `Workspace`, `WorkspaceProofs` | done |
| 9 | `SignIn`, `SignInProofs` | done |
| 10 | `Throttle` (proofs in `SignInProofs`) | done |

What is left, in the order of its worth: the running average cost of `Stock` against
account 1200; an abstract account that `CustomerAccount` and `SupplierAccount` both
implement; the four opening entries that have no account of their own.

## 4. The modules and the code

`PROJECT.json` maps each definition to its lines. This is how to read them side by side.
A definition marked *mutant* in a module is the code with a plausible mistake in it; the
specifications do not use it (section 5).

### Money
Amounts are integers counted in the unit of the numeric(18,4) columns; `MoneyScale` is
10000 in the code and small in the runs, so that rounding happens often.
`AllocateReturnAmount` is the cumulative share of `returns.ts`: what is *left* of a line
times quantity over *remaining* quantity, floored, the last return taking all of it.

### CustomerAccount
One customer. `sale`, `receivable`, `returned`, `pay` are the rows; `ledger[d][a]` is
what the journals of document `d` add up to on account `a`; `locked[d]` is the holder
of the sale's (or opening balance's) row lock; `began` is `createdAt`.

| Action | Code |
|---|---|
| `Begin` | BEGIN of the handler's transaction; fixes `now()` |
| `CompleteSale` | `completeSale`: sale, initial payment of a known customer, receivable, revenue journal |
| `CreateOpeningEntry` | the CUSTOMER_RECEIVABLE branch |
| `ReadOpenRows` | `recordPayment` up to its locks: unlocked read of open documents, explicit allocations or oldest first |
| `Lock` | one row of `SELECT ... ORDER BY id FOR UPDATE`, sales before opening balances |
| `RecordPayment` | re-validation under the locks, receivables, sales, journal |
| `CompleteCustomerReturn` | cumulative net and tax, cash share and receivable share, journal |
| `CancelSale` | the three consistency checks, refund of later payments by method, reversal |
| `Reject` | not found, or the checks under the lock fail: ROLLBACK |

A receivable is only written under its sale's lock, so one lock stands for both. The
totals of a sale are constants (`Bill`); their computation is in `Pricing`. Every
request has an Idempotency-Key of its own: these use cases replay only their own row of
the key, behind a unique index, and the keys that reach across use cases are the
subject of `AccountingPeriods`. Returns of several lines are left out: each line
follows the same cumulative arithmetic.

### SupplierAccount
The mirror of it: `purchase`, `payable`, `returned`, `pay`, `ledger`, `locked`. The
code differs from the customers' in ways that matter, and the module follows it: the
allocation loop does not put the lowered payable back (`last` next to `alloc`; a payment
that names a purchase twice is `Repeats`, the first disagreement of section 7), a
return lowers the payable first and refunds the rest, opening balances are locked after
the purchases, and what a payment does not allocate is an advance on account 1300.
`receivePurchase` credits the bank account (1010) for a payment it records as CASH
(`purchase.ts:187`, `accounting.ts:373`); `PurchaseJournal` does as it does.

### AccountingPeriods
Requests post at most one journal, so journals and periods carry the name of the
request that inserts them. A journal is its lines on INCOME and EXPENSE accounts;
the balance-sheet side is their negated sum. A date is a day. Three steps per request,
as the code has them: the look-up of the Idempotency-Key *before* the lock (`LookUp...`),
the advisory lock with what is read under it (`LockAndCheck`, `LockAndDate`,
`ReadClose`, `ReadReopen`), and the writes (`Post...`, `WriteClose`, `WriteReopen`).
`postJournal` looks for the key again and takes whatever has it for its own result.

### Reports
`Reports` extends it by `getBalanceSheet`, which reads in three transactions: balances
(`ReadBalances`), the last closed period (`ReadLastClosed`), the profit since then
(`ReadEarnings`), and refuses a sheet that does not balance. `Next` of
`AccountingPeriods` goes on between them. `seen` and `overlapped` are history. The
balances in the aging reports are today's whatever `asOfDate` is, which no property
speaks of: the reports say so nowhere, and nothing is computed from them.

### Stock and StockLedger
A *position* is a possible row of `stock_balances` (item, warehouse, batch). `read[r]`
is what the SELECTs of request `r` returned: `Unread`, `None` (no such row) or the
quantity. `onHand` is what is committed. A batch exists once one of its balances does,
because the purchase that inserts the one inserts the other; `received` is its
`receivedAt`, the time of that purchase's BEGIN, told by `clock`. The steps are the
statements that see or block something: `ReadRow`/`ReadNoRow` (FOR UPDATE of a
balance), `MissBatch` and `InsertBatch` (a purchase finds its batch missing and inserts
it, behind the unique index), `LockBatch` and `LockSibling` (a purchase recalculates the
cost of a batch over all its balances), `InsertRow` (the first balance of a position),
`CommitSale`, `CommitLines`, `Reject`, and `Abort` (the deadlock detector). A sale locks
all candidates in sorted order before it decides; a cancellation follows the order of
the movements; the others take their lines in the order of the request, which may be
any. Locked rows are seen by nobody before COMMIT, so that is where the model writes
them.

For an item sold first in, first out, a sale runs two statements (`sale.ts:313` and
`:318`): `ListBatches` reads the batches, without a lock, and `SelectBalances` begins the
one that locks the balances, row by row (`ReadRow`). A batch that commits between the two
has its balance locked and is not in the list: `view` marks it `skipped`, and the sale
counts nothing of it (`Offered`). If the purchase that brought it began before another,
it is the older batch, and the sale takes from the newer one. `FifoLeavesNoOlder` is
what the code does keep: of an older batch nothing stays behind if its balance was there
when the sale began, or was listed and then selected.

`StockLedger` says what this is for: a request posts once, in one step, and moves the
balances *as they are at that moment* by its own movements, none below zero. `Stock`
and `Custody` implement it under the mapping `Ledger`.

Left out of `Stock`: the running average, serials (no code inserts a serial, so an item
tracked by serial cannot be sold at all, `sale.ts:208`), `quantity_reserved` and
`allow_negative_stock`, which no endpoint sets, the lock of the item row a purchase takes
to write the last cost and the shared locks of foreign keys (both only make a purchase
wait more often), and items a sale does not track: a purchase adds balances for them that
no sale reads.

### Custody
A *place* is a good held by a representative. An issue reads the custody row without a
lock and writes an absolute quantity (`ReadCustody`, `Commit`); what keeps two issues
apart is the unique index on active assignments, so `Enter` is the INSERT that waits for
another request with the same key or representative and fails if that one commits. A
field sale locks custody rows (`LockRow`) and then, through the foreign key of its
movements, shares the assignment's row (`ShareAssignment`); a write-off locks the
assignment first (`LockAssignment`). They can wait for each other, and `Abort` is the
database's way out. An issue resolves permissions through the pool while it holds a
connection (`CheckRep` needs `Connection`). `cost` is what the warehouse's average
makes of a good, changed by purchases at any time; `unitCost` is what the issue wrote
down, and what every later line is posted at, floored per line (`LineCost`).
No route calls `issueRepStock` and `recordCustodyWriteOff` yet; their tests do.

### Pricing
One clerk per form. `draft[c].list` is the form's list of items. `Load` fills it, as a
purchase form keeps it. In the form of a sale every search asks for another one
(`Search`), and whichever answer comes replaces the list (`SetItems`), in any order.
`ChooseItem` fixes the price of a line from the list; the tax rate is *not* fixed: the
preview looks it up for all lines in the list as it is now, and reckons with 0 for an item
that is no longer in it (`ListRates`, `sale-ui.tsx:45`). `Submit` sends the form with the
tax and the total it shows; a sale without a valid preview is not sent, a purchase is.
`UpdateItem` changes price or rate meanwhile. `CompleteSale` and
`ReceivePurchase` compute the document as the server does: gross, line discounts, the
order discount spread over the lines, tax, the ceiling (`ResolveDiscountCeiling`,
`UnderCeilings`, the override), the batches a line is drawn from (`Drawn`), the share of
every amount per batch (`Share`, the last one taking the rest), and what a unit enters
the stock at; `Refuse` rolls back, also when what the form sent as paid is more than the
total, or a walk-in sale is not paid off by it (`Settles`). What is paid is nothing or
what the form shows as its total. One document is priced at a time; which batches are left when two sales
compete for them is `Stock`'s subject.

### Workspace
A request resolves who acts *before* its transaction (`Begin`), reads without locks
(`Read`, refused by `Refuse`), writes (`Write`: the row's lock, the unique indexes,
the triggers of migration 0011; `Fail` if they object) and commits (one action per use
case). Nothing it has read is locked. `saw[r]` records who had committed when `r` read,
so that *overlap* of two transactions can be said. `createOperatorAccount` is two
transactions; the second is a grant like any other. The update of a membership sets only the
columns it names. A transfer leaves the new owner's role as it was.

### SignIn
One account, its password, its sessions. Every statement runs on a connection of its
own and may be delayed: `VerifyLogin` and `CreateSession`; `LoadRead` and `LoadSlide`
(the renewal writes the time of the *read*); `CountFailures`, `VerifyCurrent`,
`BeginChange`, `UpdateUser`, `Revoke` (on *another* connection for a change, which
shows at once; inside the transaction for a reset), `CommitPassword`, `RollBack`.

### Throttle
A counter is a layer (address, account and address, registration) and an address;
`hits` is the log in each store. `Consume` is the script that trims, compares and adds;
when Redis does not answer, the process counts, and the lost command may have run
(`Reached`). A sign-in with the right password clears its account's counter in the
process and in Redis (`ClearMemory`, `ClearRedis`). An unknown address skips the
address' own layer. The limits are 5 per 15 minutes for an account from an address, 100
per address, 5 registrations per hour; the runs use 1 and 2.

## 5. The runs

Every `.cfg` sets `CHECK_DEADLOCK FALSE`: requests are finite in number, and when all
have ended the system stops. Requests are interchangeable. `customer_account` uses
`SYMMETRY`; where requests are numbers (symmetry is unsound with liveness, and some
records are named by requests) an action constraint lets them begin in order, which
removes the same permutations.

| Run | Bounds | Properties |
|---|---|---|
| `customer_account` | 4 requests of any kind; one sale of 3 units for 4 net, 1 tax, 1 discount; one opening balance; payments of 2; scale 1 | `TypeOK`, `ReceivableAgreesWithLedger`, `MoneyWithinBill`, `FullReturnSettles`, `CancelledSaleNetsToZero`, `CancelChecksAgree`, `DebtOnlyFalls` |
| `supplier_account` | 4 requests; a purchase of 3 units for 4 net and 1 tax, the smallest purchase there is, an opening balance; all of it about the first, or payments over all three | `TypeOK`, `PayableAgreesWithLedger`, `MoneyWithinBill`, `FullReturnSettles`, `LocksNeverDeadlock` |
| `period_books` | 4 requests of all five kinds, 2 days, 3 keys | `FirstCloseZeroesOut`, `ClosedBooksAreFrozen` |
| `reports` | 5 requests, 3 days, no expenses, the first a manual journal; a balance sheet of any day next to 3 of them on 2 days | `ClosedPeriodsDisjoint`, `ClosedPeriodsContiguous`, `ReopeningStaysInPeriod`, `RefusedOnlyByOverlap` |
| `stock` | 3 requests of nine kinds; 5 positions: an item with three batches, one of them in two warehouses and two not there yet, and a plain item without a row | `LedgerSpec`, `FifoLeavesNoOlder`, `BroughtBackWithinMoved`, `SalesNeverDeadlock`, `TypeOK` |
| `custody` | 3 requests, 2 representatives, 2 goods, 2 keys, 3 connections; unit costs 3 and 5 at scale 2; one good gets dearer after the first issue | `LedgerSpec`, `AccountCarriesCustody`, `OneEffectPerKey`, `EveryRequestEnds` |
| `workspace` | 3 requests out of 14; 4 users (owner, staff, an operator, nobody yet), a workspace and one to be registered | `BothOnlyByOverlap`, `OwnerIsActiveMember`, `OnlyOwnerHandsOver` |
| `sign_in` | 3 requests; idle time 1, life 2, 3 ticks; 2 connections; one failure locks | `SessionsFollowPassword`, `NeverExtended`, `EveryRequestEnds` |
| `throttle` | 3 requests; limits 1 and 2, window 2, 2 ticks, one outage | `AttemptsBounded`, `RefusedOnlyAtTheLimit` |
| `pricing` | two clerks; every sale and purchase of one or two lines of 1 or 3 units with discounts of 0, 1, 5 and an order discount of 0, 3; batches of 2, 1, 3; costs of 1 and 4; searches that find both items or only the one without tax, two answers under way at most; scale 1; one item's price and rate change while a form is open; one of the two clerks at a time | `ChargedAsPreviewed`, `LinesAddUp`, `NegativeOnlyNearZero`, `DiscountBounded`, `StockAtCost` |
| `supplier_allocations`, `sheet_balances` | 2 and 3 requests | the disagreements of section 7 |

Why the bounds are enough to mean something:

- *Requests.* A property here breaks in the interplay of a document, something stale
  and something that changes it: one request to create, two to race, one to observe or
  cancel. Four requests contain all orders of that. Where the document is there at the
  start (stock, workspace, sign-in) or made by the first request (custody), three do.
  Three returns of one unit each plus the sale are the whole of a cumulative return.
  The chain of periods needs a journal, two closes, a reopen and a close: five.
- *Amounts.* 4 and 1 over 3 units divide nowhere, so every partial return rounds, and a
  paid share of any size from 0 to 5 is tried. A payment of 2 is less than, and over two
  payments nearly, the bill. Discounts of 5 exceed a line, those of 1 a part of one.
- *Days and ticks.* Two days allow a period that has a neighbour; three allow one between
  two. Three ticks let a session be renewed, expire unused, and expire in all.
- *Positions.* Three batches for FIFO, numbered against their age so that the lock order
  and the FIFO order differ, two of which only a purchase brings, so that a batch can come
  between two statements of a sale and be older than another that came before it; a batch
  in two warehouses for the batch cost; a position without a row for the unique index.
- *Lists.* Two items of which a search may find one are enough for a chosen item to leave
  the list and come back, and two answers under way for one to overtake the other.
- *Connections.* As many as the requests that can hold one and ask for another, so that
  the pool is used up in some behaviours and not in others.

The type invariants of `AccountingPeriods`, `Custody`, `Workspace`, `SignIn`, `Throttle`
and `Pricing` are not in a run: TLC agreed with each, and each is proved for every
instance (section 6).

Every property of a passing run was also run against a mutation of the code it speaks
of (`PROJECT.json`, "mutants"): a lock not taken, a check forgotten after the lock, a
unique index that is missing, a trigger that fires on INSERT only, a sum that stops a
day early, a rounding target that forgets earlier refunds, a renewal at the time of the
write. TLC finds each of them.

### Fairness
`CustomerAccount`, `SupplierAccount`, `Stock`, `Custody`, `Workspace` and `SignIn`
assume weak fairness of `Work(r)` for each request, and nothing for `Begin`, `RollBack`
or the clock: nobody has to call the API, but a transaction that has begun goes on. The
code justifies it: Node runs the continuation of every awaited statement, no handler
waits for anything but the database and a connection, and PostgreSQL wakes the waiter of
a released lock. Weak fairness is enough because the holder of a lock never waits for a
later one in the order; where it may (purchases, a write-off against a field sale) the
database's deadlock detector, the action `Abort`, is part of `Work`. Where requests can
use up the pool, `EveryRequestEnds` names that state (`PoolExhausted`): nothing
moves in it, and it is the only one. The action constraints of the liveness runs leave
every fair action a way to be taken. `AccountingPeriods` and `Throttle` state no
liveness: the one has a single lock whose holder waits for nothing, the other no wait at
all.

## 6. The proofs

All theorems hold for every number of requests, documents, days, accounts, positions,
users and connections and for every amount, under named assumptions on the constants:

- `MoneyScaleAssumption`: the scale is a positive integer;
- `DocsAssumption`, `SupplierAssumption`: ids of documents and opening balances differ,
  `Rank` orders them, a document has a positive quantity and is worth something
  (`postJournal` refuses a line of zero);
- `PeriodAssumption`: lines are integers, `None` is no request and no key;
- `StockAssumption`, `CustodyAssumption`: `None` and `Unread` are no quantities, FIFO
  items have batches, `Rank` orders the positions, costs are natural numbers;
- `WorkspaceAssumption`: who is there at the start has joined as the code lets people
  join, and requests are formed as the schemas form them;
- `FiniteDocs`, `FinitePositions`: the documents of a supplier and the positions of the
  stock are finite in number, which only the two theorems about deadlock use;
- `ReportsAssumption`: the income and expense accounts are finite in number;
- `PricingAssumption`: prices, rates and ceilings are natural numbers (a ceiling may be
  unset), batches are not empty, a search finds items of the
  tenant, an item is changed to natural numbers, and what a form is filled with has positive
  quantities and no negative discounts, as the schemas of the routes require;
- `SignInAssumption`, `ThrottleAssumption`: times and bounds are positive, requests and
  calls are finite in number.

That finitely many requests have committed is not assumed but proved where a sum over
them is taken: a step adds at most one.

The theorems of `SupplierAccountProofs`, but for `LocksAreOrdered`, have the hypothesis
`~Repeats`: without it `LedgerAgreement` is false, which is the first disagreement of section 7.

**ArithmeticProofs.** The sums of the models are the library's `SumFunctionOnSet`, a
recursion over a finite set in an order that `CHOOSE` picks. `SumsExist` and `SumsAgree`
show that it is defined and the same whatever larger set it is unfolded for; `SumRemove`,
that the order does not matter. What follows is induction over finite sets, stated for the
set of subsets that have the property (`SubsetInduction`) and founded on the least of a
set of natural numbers: additivity, monotonicity, a change at one place, sums by blocks,
the exchange of two sums, telescoping. `AllocationFacts` says of `allocateProportionally`
that no line is given more than its weight and that all is given out. `RoundRatio` is
within half a unit of the quotient (`RoundRatioClose`), and a share of a return at most
what is left, the last one all of it (`AllocateReturnAmountBounds`).

**CustomerAccountProofs.** No single property is inductive: that a full return leaves no
money needs to know what was refunded so far, what was paid, and by how much the
receivable fell. `AccountInv` says it as equations of one document: the receivable row
adds up and equals account 1100 (`RowOK`); a sale that does not exist has left no trace
(`UnsoldOK`); returns never exceed the sale, and all of its value has come back with the
last unit (`ReturnsOK`); money held and debt left are the value that has not come back
(`SettlementOK`); the other accounts are functions of the bill and the returns
(`BooksOK`). `JobsOK` says that a
document is inserted once. Each step lemma is about one action. Results:
`AccountInvariant`, `TypeCorrect`, `LedgerAgreement`, `MoneyStaysWithinBill`,
`FullReturnsSettle`, `CancelledSalesNetToZero`, and the action property `DebtsOnlyFall`.
For `CancelChecksAlwaysAgree`, `CancelInv` adds what the three checks of `cancelSale`
compare: the allocations of committed payments add up to the paid total of a sale
(`PayOK`: before its commit only a payment has any), and the due total is the balance of the
receivable as long as nothing was returned.

**SupplierAccountProofs** has the same shape with the suppliers' equations: `JobsOK` (a
document has one creator, which has committed once the document exists), `LockedOK` (only
rows that exist are locked), `LinesOK` (what a payment writes for a purchase is what its
journal says of it), `RowOK`, `SettlementOK`, `BooksOK`. Results: `SupplierInvariant`,
`TypeCorrect`, `LedgerAgreement`, `MoneyStaysWithinBill`, `FullReturnsSettle`.
`LocksAreOrdered` needs none of this and holds with `Repeats` too: what a request holds
comes before all it still needs (`OrderOK`), so the holder of the last locked document
does not wait.

**AccountingPeriodsProofs.** `LockOK` (a request that is past the lock holds it), `PlanOK`
(what the holder has read under it is still true), `JournalOK`, `ReverseOK`, `ClosingOK`
and the shape of the chain of periods. That `CHOOSE` in `EarliestDay`, `LatestClosed` and
`FirstOpenDay` finds a day is shown from the least number of a nonempty set. Results:
`PeriodInvariant`, `TypeCorrect`, `PeriodsNeverOverlap`, `PeriodsLeaveNoGap`,
`ReopeningsStayInPeriod`, `BooksStayFrozen`.

`BooksInv` goes on to amounts. The net a close has read of its range is still the net when
it writes the closing journal (`NetOK`); a closing journal is reversed on its own day
(`CloseReversalOK`), and one that is not reversed belongs to a closed period
(`CloseHeldOK`), so the journals a first close has left out of its sum cancel within the
period. Results: `BooksInvariant`, `FirstCloseAlwaysZeroesOut`. For the
balance sheet, `SheetInv` says that what was read so far is what the books say, or that
they have moved since, or that one of the two causes of a refusal was there at the
first read. Results: `ReportsInvariant` and the action property
`SheetsAreRefusedForACause`. It is about the step and not the state after it: a period
with a net of zero posts no closing journal, and reopening it later leaves no trace
of what the sheet had met.

**StockProofs.** `HeldOK`: while a transaction is open, each row it has read or inserted
is locked by it and still as it read it. Hence an absolute quantity computed from a read
is, at COMMIT, the committed balance moved by the transaction's own movements, which is
the refinement. Results: `StockInvariant`, `TypeCorrect` (no balance is ever negative),
`StockIsALedger` (`Spec => LedgerSpec`). For `SalesAreFifo`, `SeenOK` adds that a sale
has read only rows that are there, and that it passes over no row that was there when it
began: rows never go, so it finds the batch when it lists the batches and the row when it
selects the balances. What it has selected it takes before anything newer, and it holds
the lock of it. For `SalesAreOrdered`, `RankedOK` says that a sale or
cancellation goes on with a position after all those it holds, and inserts a row it did
not find before it reads the next; the holder of the last position that is held in a set
of them waits for nobody in the set. `NothingBroughtBackTwice` needs `BackOK`: of the
cancellations and returns of one document at most one is open, and what it is to bring back
still fits what those before it have left.

The theorems about `Pricing` are here too. `PricingInv` says that a form once sent shows
the totals of its lines at the rates it had in its list, be they missing or outdated, and
that the document once priced keeps its relation to the form, whatever becomes of list,
catalog and batches later: before tax both are functions of the same lines, and the tax is
the same function of either's rates. What a line draws from the batches of its item is the
overlap of two intervals, so the pieces of a line add up to its quantity (`SumTelescope`),
and an amount that is floored per piece with the rest on the last one adds up to the
amount. The net of a piece can be below zero only on the last one (`LastNegative`), and
only if the net of the whole line is so small that the floorings of the other pieces
outweigh it. The line discounts and the order discount each exceed the ceiling by less
than a hundredth of a percent, which is what flooring the percentage lets through, and so
together stay below twice that. Results: `PricingInvariant`, `PricingTypeCorrect`,
`WhatWasShownIsCharged`, `PostedLinesAddUp`, `NegativeOnlyByRounding`,
`DiscountsStayBounded`, `StockEntersAtCost`.

**CustodyProofs.** The same refinement where an issue locks nothing. Its argument is
`UniqueOK`: two requests that collide in an index are never both past it, so one
assignment per representative; `RowOK`: a place has a row and a cost from the commit of
its issue on; `ReadOK`: an issue reads after it has entered the indexes and so finds no
row, everyone else reads a quantity; `HeldOK`: what a sale or a write-off has read is
locked by it and unchanged since; `EnoughOK`: what has entered had enough to take.
Results: `CustodyInvariant`, `TypeCorrect`, `KeysHaveOneEffect`, `CustodyIsALedger`,
`AccountFollowsCustody` (each flooring loses less than a unit, so account 1250 strays from
what is held by less than one unit per line posted).

**WorkspaceProofs.** Nothing that is read here is locked, so no invariant can say that
it still holds. `RaceOK` says instead: what a request has read or a trigger let pass
still holds, *or* somebody has committed whom the request has not seen. Nobody sees a
request that has not committed, so the two overlap, which is what the properties allow.
`LockOK` keeps two requests from creating one account, `FoundOK` says what is never
deleted, `ShapeOK` and `OneRegistration` that a registration is the only one of its
workspace. The step lemmas are about the effects of a step (`Effects`) rather than about
each action. Results: `WorkspaceInvariant`, `TypeCorrect`, `OperatorsAndMembersApart`,
`OwnersAreActive`, `OwnersHandOver`.

**SignInProofs.** `KindOK` (which steps a request of a kind can be at), `ClockOK` (nothing
written of a session is later than its last use), `PresentOK` (the sign-in that made a
session has ended once the session exists or was seen), `RevokedOK` (of the sessions a
password change has seen only its own is left), `CurrentOK` (the password in force was
committed by a change or a reset, and of the sessions a reset has seen none is left).
Results: `SignInInvariant`, `TypeCorrect`, `SessionsFollow`, `RenewalsNeverExtend`.

The theorems about `Throttle` are here too. `ThrottleInv`: the attempts that a counter has
admitted in the period, and not cleared since, are remembered by Redis or by the process,
and each of the two admits no more than the bound; as long as Redis has never stopped, it
remembers these attempts and, but for a sign-in that is clearing them, no others. Results:
`ThrottleInvariant`, `AttemptsStayBounded`, and the action property `RefusalsAreEarned`.

Every property of the passing runs is stated by a theorem but one. Only model-checked is
`EveryRequestEnds`: liveness under fairness, and ENABLED, are out of the prover's reach. The two
disagreements of section 7 are false, and no theorem speaks of them.

## 7. Where the code disagrees with what is said of it

Two runs end in a counterexample; `PROJECT.json` quotes the lines.

1. `supplier_allocations`: a supplier payment that names one purchase twice lowers the
   payable by the last line only, and account 2000 by both (`finance.ts:239`).
2. `sheet_balances`: a journal, a close and a reopening, one after the other, and the
   balance sheet of that day no longer balances and is refused: the reversal of the
   closing journal is in Retained Earnings and counted as income (`profit-loss.ts:79`).

Further configurations lie next to these, for questions that are not among the runs.
Some pass: `MCCustomerLocks` (a payment over a sale and an opening balance:
`MoneyWithinBill`, `EveryRequestEnds`) and `MCStockLocks` (sales, purchases and
cancellations over rows they share in every order: `SalesNeverDeadlock`,
`EveryRequestEnds`). The others end in a counterexample:

- `MCPaidPlusDue` (`PaidPlusDueIsGrandTotal`): a return lowers the receivable but not the
  paid and due totals of the sale; after the next payment they no longer add up to the
  grand total (07 §7.3). A sale with returns cannot be cancelled, so nothing but
  displays and reports reads the difference.
- `MCInitialPayment` (`InitialPaymentIsFirst`): `cancelSale` takes the payment with the
  smallest `createdAt` for the cash received with the sale. A payment whose transaction
  began before the sale's sorts before it, and the sale cannot be cancelled.
- `MCReclose` (`ClosedPeriodsAreZeroedOut`): the second close of a period counts the
  reversal of the first closing journal as income of the period (08 §9.2). Closing
  once is right (`FirstCloseZeroesOut`).
- `MCExpensePosted` (`EveryExpenseIsPosted`): an expense whose Idempotency-Key a manual
  journal has used is recorded without a journal.
- `MCManualReplay` (`ManualAnswersMatch`): two manual journals with one key and different
  payloads, both past the look-up: the loser is answered with the winner's journal.
- `MCFifoRace` (`OldestTakenFirst`): of two purchases the first to begin commits its batch
  after a sale has listed the batches and before it selects the balances. The sale
  locks that older batch's balance, passes over it (`sale.ts:323`) and takes from the
  newer one (FIFO, 09 §4.1).
- `MCPreviewTax` (`PreviewIsCharged`): an item with tax is chosen, a search for another
  item takes it off the form's list, the preview shows the sale without its tax, and the
  server charges it. Nobody has changed the catalog. A walk-in sale is refused instead,
  as not paid in full; other sales leave the customer owing the difference. Nothing in
  the documents promises that the preview is what is charged.
- `MCPurchaseLocks` (`NoDeadlock`): two purchases of the same lines in opposite order
  deadlock, against Decision INV-003 (09). The database rolls one back and nothing is
  lost (`EveryRequestEnds`, `LedgerSpec`).
- `MCOperatorOrMember` (`NeverBoth`): a grant and an invitation that overlap both
  commit, and the user is an operator and a member, against ADR-001 rule 3. The
  triggers do not lock what they look at; without overlap it cannot happen
  (`BothOnlyByOverlap`).

Seen while modelling, and not the subject of a property: the ownership check of a tax
profile is inside `if (refs.unitId)` and skipped without a unit (`item.ts:86`); a
batch number on an item that is not tracked by batch puts its stock where no sale looks
(`purchase.ts:126`); the docblock of `sale.ts` says that discount ceilings are set
through the profile route, which has no such field; two updates of an item, a role or the
tenant's profile merge with what each has read, and the later one undoes the earlier.

## 8. What is not modelled

*Row level security*: a filter on every query; the modules describe one tenant, and no
row of another enters any of these actions. *Master data* (`catalog.ts`, `customer.ts`,
`warehouse.ts`, `role.ts` and the like): single-row writes behind unique indexes, except
for the merges named above; `updateItem` is in `Pricing`. *The other reports and the
dashboards*: one statement each, or statements whose results nothing compares. *The audit
trail*: append-only, and read by nothing that decides but the failure count of a
password change, which is in `SignIn`. *Selection of the active tenant, roles and
permissions*: look-ups of what `Workspace` keeps; the operator's guard evaluates several of
them one after the other and writes nothing. *Validation*: stateless schemas, whose ranges are
the input sets here. The *user interface*: React pages over the API; what the sale and
purchase forms compute is in `Pricing`. *Migrations and seeds*: the indexes, checks
and triggers that decide an outcome are in the actions that meet them. *Opening entries*
of cash, bank, stock and items: one INSERT behind a unique index and one journal.

## 9. Running

    tlc -config MCStock.cfg MCStock
    tlapm StockProofs.tla

Each MC module instantiates one component; each `.cfg` is one run. The longest run takes
about three minutes, the longest proof (`StockProofs`) about six.
