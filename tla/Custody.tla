------------------------------ MODULE Custody ------------------------------
(***************************************************************************)
(* Goods in the custody of field representatives: stock issued to them     *)
(* (rep-stock.ts), sold by them (field-sale.ts, called by completeSale)    *)
(* and written off while with them (rep-stock.ts).                         *)
(*                                                                         *)
(* A place is a good held by a representative: a row of                    *)
(* modules.rep_custody_balances.  A request is one READ COMMITTED          *)
(* transaction on a connection of its own; an issue asks for a second      *)
(* connection while it holds the first.  Writes of a transaction show at   *)
(* COMMIT, except that other transactions wait for a row it has entered    *)
(* into a unique index.  A movement refers to its assignment, so a sale    *)
(* takes a shared lock of the assignment's row, which a write-off locks.   *)
(*                                                                         *)
(* An assignment is known by its representative: nothing in the code moves *)
(* it out of ISSUED, so nobody ever gets a second one.  The warehouse side *)
(* of an issue is in Stock, and the journal comes last and waits for no    *)
(* lock another request of these kinds holds.  A write-off locks, checks   *)
(* and writes line by line and enters its key with the first line: the     *)
(* assignment's lock makes that the same as entering it after the last.    *)
(***************************************************************************)
EXTENDS Money, FiniteSets

CONSTANTS
  Reps,      \* memberships that may hold stock, each in its own branch
  Goods,     \* an item, and a batch if the item has batches
  Requests,  \* API calls, each one transaction
  Keys,      \* Idempotency-Key headers
  Orders,    \* what a request may ask for: a quantity per good
  Costs,     \* what a unit of a good may cost in the warehouse
  PoolSize,  \* connections of the pool
  None,      \* no row, no request
  Unread     \* not read yet

Kinds == {"issue", "sale", "writeoff"}
Places == Reps \X Goods

ASSUME CustodyAssumption ==
  /\ Orders \subseteq [Goods -> Nat]
  /\ Costs \subseteq Nat /\ Costs # {}
  /\ PoolSize \in Nat \ {0}
  /\ IsFiniteSet(Requests)
  /\ None \notin Requests
  /\ None \notin Nat /\ Unread \notin Nat /\ None # Unread

VARIABLES
  pc,          \* where each request is
  job,         \* its use case, representative, lines and Idempotency-Key
  read,        \* the custody quantity its SELECT returned per place
  locked,      \* holder of each custody row
  exclusive,   \* holder of the FOR UPDATE lock of each representative's assignment
  shared,      \* holders of its FOR KEY SHARE lock
  custody,     \* committed quantity_on_hand, None where there is no row
  cost,        \* what an issue of each good would cost now
  unitCost,    \* rep_stock_assignment_lines.unit_cost, None before the issue
  account      \* balance of account 1250 due to each place

vars == <<pc, job, read, locked, exclusive, shared, custody, cost, unitCost, account>>

NoJob == [kind |-> "none", rep |-> None, quantity |-> [g \in Goods |-> 0], key |-> None]

Init ==
  /\ pc = [r \in Requests |-> "idle"]
  /\ job = [r \in Requests |-> NoJob]
  /\ read = [r \in Requests |-> [p \in Places |-> Unread]]
  /\ locked = [p \in Places |-> None]
  /\ exclusive = [rep \in Reps |-> None]
  /\ shared = [rep \in Reps |-> {}]
  /\ custody = [p \in Places |-> None]
  /\ cost \in [Goods -> Costs]
  /\ unitCost = [p \in Places |-> None]
  /\ account = [p \in Places |-> 0]

----------------------------------------------------------------------------
Quantity(value) == IF value \in {None, Unread} THEN 0 ELSE value
IsIssue(r) == job[r].kind = "issue"
IsWriteOff(r) == job[r].kind = "writeoff"
Asked(r, p) == IF p[1] = job[r].rep THEN job[r].quantity[p[2]] ELSE 0
Lines(r) == {p \in Places : Asked(r, p) > 0}

Open == {"open", "checked", "entered"}
Connected == {r \in Requests : pc[r] \in Open}
Connection == Cardinality(Connected) < PoolSize

Done(kind) == {r \in Requests : pc[r] = "done" /\ job[r].kind = kind}
Assigned(rep) == \E r \in Done("issue") : job[r].rep = rep

\* What a committed request moved: rows of modules.rep_stock_movements.
Moved(r, p) == IF IsIssue(r) THEN Asked(r, p) ELSE -Asked(r, p)

\* Two requests that the unique indexes keep apart: of one kind with one key, or
\* issues to one representative (rep_one_active_assignment).
NoRepIndex(q, r) == job[q].kind = job[r].kind /\ job[q].key = job[r].key  \* mutant: no such index
NoKeyIndex(q, r) ==  \* mutant: no unique index on the operation id
  IsIssue(q) /\ IsIssue(r) /\ job[q].rep = job[r].rep
Collide(q, r) ==
  \/ job[q].kind = job[r].kind /\ job[q].key = job[r].key
  \/ IsIssue(q) /\ IsIssue(r) /\ job[q].rep = job[r].rep

----------------------------------------------------------------------------
(* The start of a transaction *)

\* A key that has been used returns what it did then; a write-off of another
\* assignment under that key is refused.  Sales and write-offs need an assignment.
Outcome(kind, rep, key) ==
  LET before == {q \in Done(kind) : job[q].key = key} IN
  CASE before # {} /\ (kind = "writeoff" => \E q \in before : job[q].rep = rep) -> "replayed"
    [] before # {} /\ kind = "writeoff" /\ \A q \in before : job[q].rep # rep -> "failed"
    [] before = {} /\ kind # "issue" /\ ~Assigned(rep) -> "failed"
    [] OTHER -> "open"

Begin(r, kind, rep, quantity, key) ==
  /\ pc[r] = "idle" /\ Connection
  /\ pc' = [pc EXCEPT ![r] = Outcome(kind, rep, key)]
  /\ job' = [job EXCEPT ![r] = [kind |-> kind, rep |-> rep, quantity |-> quantity, key |-> key]]
  /\ UNCHANGED <<read, locked, exclusive, shared, custody, cost, unitCost, account>>

\* COMMIT and ROLLBACK release every lock.
KeepsAssignment(r) ==  \* mutant: the lock of the assignment outlives its transaction
  /\ locked' = [p \in Places |-> IF locked[p] = r THEN None ELSE locked[p]]
  /\ UNCHANGED exclusive
  /\ shared' = [rep \in Reps |-> shared[rep] \ {r}]
Release(r) ==
  /\ locked' = [p \in Places |-> IF locked[p] = r THEN None ELSE locked[p]]
  /\ exclusive' = [rep \in Reps |-> IF exclusive[rep] = r THEN None ELSE exclusive[rep]]
  /\ shared' = [rep \in Reps |-> shared[rep] \ {r}]
Fail(r) ==
  /\ pc' = [pc EXCEPT ![r] = "failed"]
  /\ Release(r)
  /\ UNCHANGED <<job, read, custody, cost, unitCost, account>>

----------------------------------------------------------------------------
(* Issue: the checks, the assignment, and the custody rows without a lock *)

\* resolvePermissions goes through the pool; then a plain SELECT of the active
\* assignment, which sees what is committed.
CheckRep(r) ==
  /\ pc[r] = "open" /\ IsIssue(r) /\ Connection
  /\ IF Assigned(job[r].rep) THEN Fail(r)
     ELSE /\ pc' = [pc EXCEPT ![r] = "checked"]
          /\ UNCHANGED <<job, read, locked, exclusive, shared, custody, cost, unitCost, account>>

ReadCustody(r, p) ==
  /\ pc[r] = "entered" /\ IsIssue(r) /\ p \in Lines(r) /\ read[r][p] = Unread
  /\ read' = [read EXCEPT ![r][p] = custody[p]]
  /\ UNCHANGED <<pc, job, locked, exclusive, shared, custody, cost, unitCost, account>>

----------------------------------------------------------------------------
(* Sale and write-off: the assignment and the custody rows with locks *)

LockAssignment(r) ==
  /\ pc[r] = "open" /\ IsWriteOff(r)
  /\ exclusive[job[r].rep] = None /\ shared[job[r].rep] = {}
  /\ exclusive' = [exclusive EXCEPT ![job[r].rep] = r]
  /\ UNCHANGED <<pc, job, read, locked, shared, custody, cost, unitCost, account>>

Short(r) == \E p \in Lines(r) : read[r][p] # Unread /\ read[r][p] < Asked(r, p)

\* Lines are taken in the order of the client, which may be any.
ToLock(r) ==
  IF pc[r] # "open" \/ IsIssue(r) \/ (IsWriteOff(r) /\ exclusive[job[r].rep] # r) \/ Short(r)
  THEN {} ELSE {p \in Lines(r) : read[r][p] = Unread}

NoLock(r, p) == locked  \* mutant: a plain SELECT
RowLock(r, p) == IF custody[p] = None THEN locked ELSE [locked EXCEPT ![p] = r]

LockRow(r, p) ==
  /\ p \in ToLock(r) /\ locked[p] = None
  /\ locked' = RowLock(r, p)
  /\ read' = [read EXCEPT ![r][p] = Quantity(custody[p])]
  /\ UNCHANGED <<pc, job, exclusive, shared, custody, cost, unitCost, account>>

\* A sale's movements refer to the assignment.
ShareAssignment(r) ==
  /\ pc[r] = "entered" /\ job[r].kind = "sale" /\ r \notin shared[job[r].rep]
  /\ exclusive[job[r].rep] = None
  /\ shared' = [shared EXCEPT ![job[r].rep] = @ \cup {r}]
  /\ UNCHANGED <<pc, job, read, locked, exclusive, custody, cost, unitCost, account>>

----------------------------------------------------------------------------
(* INSERT into the unique indexes *)

AllRead(r) == \A p \in Lines(r) : read[r][p] # Unread
ToEnter(r) == IF IsIssue(r) THEN pc[r] = "checked"
              ELSE /\ pc[r] = "open" /\ AllRead(r) /\ ~Short(r)
                   /\ IsWriteOff(r) => exclusive[job[r].rep] = r
InTheWay(r) == {q \in Requests \ {r} : pc[q] = "entered" /\ Collide(q, r)}
Duplicate(r) == \E q \in Requests \ {r} : pc[q] = "done" /\ Collide(q, r)

Enter(r) ==
  /\ ToEnter(r) /\ InTheWay(r) = {} /\ ~Duplicate(r)
  /\ pc' = [pc EXCEPT ![r] = "entered"]
  /\ UNCHANGED <<job, read, locked, exclusive, shared, custody, cost, unitCost, account>>

----------------------------------------------------------------------------
(* COMMIT and ROLLBACK *)

TodaysCost(r, p) == cost[p[2]]  \* mutant: custody relieved at today's average
CostAtIssue(r, p) == IF IsIssue(r) THEN cost[p[2]] ELSE unitCost[p]

\* The journal carries the floor of every line.
LineCost(r, p) == (CostAtIssue(r, p) * Asked(r, p)) \div MoneyScale
\* An issue debits account 1250, a sale or a write-off credits it; a journal of zero
\* is not posted.
OnAccount(r, p) == IF IsIssue(r) THEN LineCost(r, p) ELSE -LineCost(r, p)

Commit(r) ==
  /\ pc[r] = "entered" /\ AllRead(r)
  /\ job[r].kind = "sale" => r \in shared[job[r].rep]
  /\ pc' = [pc EXCEPT ![r] = "done"]
  /\ custody' = [p \in Places |->
       IF p \in Lines(r) THEN Quantity(read[r][p]) + Moved(r, p) ELSE custody[p]]
  /\ unitCost' = [p \in Places |->
       IF IsIssue(r) /\ p \in Lines(r) THEN cost[p[2]] ELSE unitCost[p]]
  /\ account' = [p \in Places |->
       IF p \in Lines(r) THEN account[p] + OnAccount(r, p) ELSE account[p]]
  /\ Release(r)
  /\ UNCHANGED <<job, read, cost>>

\* More than is held, a duplicate in a unique index, or an issue for which the
\* warehouse has not enough.
Reject(r) ==
  /\ \/ pc[r] = "open" /\ ~IsIssue(r) /\ Short(r)
     \/ ToEnter(r) /\ Duplicate(r)
     \/ pc[r] = "entered" /\ IsIssue(r)
  /\ Fail(r)

\* Whom a transaction waits for, None if it can go on.
Awaits(r) ==
  LET rep == job[r].rep
      writer == IF exclusive[rep] # r THEN {exclusive[rep]} ELSE {None}
  IN  CASE pc[r] = "open" /\ IsWriteOff(r) /\ exclusive[rep] # r ->
             IF shared[rep] # {} THEN shared[rep] ELSE writer
        [] ToLock(r) # {} -> {locked[p] : p \in ToLock(r)}
        [] ToEnter(r) /\ ~Duplicate(r) /\ InTheWay(r) # {} -> InTheWay(r)
        [] pc[r] = "entered" /\ job[r].kind = "sale" -> writer
        [] OTHER -> {None}
Deadlocked(set) ==
  set # {} /\ \A r \in set : pc[r] \in Open /\ Awaits(r) \subseteq set

InCycle(r) == \E set \in SUBSET Requests : r \in set /\ Deadlocked(set)
\* PostgreSQL rolls back one of the transactions that wait for each other.
Abort(r) == pc[r] \in Open /\ InCycle(r) /\ Fail(r)

----------------------------------------------------------------------------
\* Purchases change the average cost of a good in the warehouse at any time.
ReceivePurchase(g) ==
  /\ cost' \in {[cost EXCEPT ![g] = c] : c \in Costs \ {cost[g]}}
  /\ UNCHANGED <<pc, job, read, locked, exclusive, shared, custody, unitCost, account>>

Work(r) ==
  \/ CheckRep(r) \/ LockAssignment(r) \/ ShareAssignment(r)
  \/ \E p \in Places : LockRow(r, p) \/ ReadCustody(r, p)
  \/ Enter(r) \/ Commit(r) \/ Reject(r) \/ Abort(r)
Start(r) == \E kind \in Kinds, rep \in Reps, quantity \in Orders, key \in Keys :
  Begin(r, kind, rep, quantity, key)

Next == (\E r \in Requests : Start(r) \/ Work(r)) \/ (\E g \in Goods : ReceivePurchase(g))
\* Every statement is awaited, and the database wakes who waits for a lock.
Fairness == \A r \in Requests : WF_vars(Work(r))
Spec == Init /\ [][Next]_vars /\ Fairness

----------------------------------------------------------------------------
Holders == Requests \cup {None}
TypeOK ==
  /\ pc \in [Requests -> {"idle", "replayed", "done", "failed"} \cup Open]
  /\ job \in [Requests -> [kind : Kinds \cup {"none"}, rep : Reps \cup {None},
                           quantity : [Goods -> Nat], key : Keys \cup {None}]]
  /\ read \in [Requests -> [Places -> Nat \cup {None, Unread}]]
  /\ locked \in [Places -> Holders]
  /\ exclusive \in [Reps -> Holders]
  /\ shared \in [Reps -> SUBSET Requests]
  \* A representative never holds less than nothing (30, "custody never negative").
  /\ custody \in [Places -> Nat \cup {None}]
  /\ cost \in [Goods -> Nat]
  /\ unitCost \in [Places -> Nat \cup {None}]
  /\ account \in [Places -> Int]

\* Custody is the sum of the custody movements (30 section 4): an issue that adds to
\* a balance it read without a lock, sales and write-offs that race for the same row,
\* each move the committed balance by exactly their own movements.
Ledger == INSTANCE StockLedger WITH
  Positions <- Places,
  InitialStock <- [p \in Places |-> 0],
  balance <- [p \in Places |-> Quantity(custody[p])],
  posted <- {r \in Requests : pc[r] = "done"},
  moved <- [r \in Requests |-> [p \in Places |-> IF pc[r] = "done" THEN Moved(r, p) ELSE 0]]
LedgerSpec == Ledger!Spec

\* Decision VAN-014: account 1250 carries what a representative holds at the cost at
\* which it was issued.  Each line posted may round by less than a unit of money:
\* the issue to the account's debit, every sale and write-off to its credit.
Relieved(p) == {r \in Requests : pc[r] = "done" /\ ~IsIssue(r) /\ p \in Lines(r)}
AccountCarriesCustody == \A p \in Places : unitCost[p] # None =>
  LET rounding == unitCost[p] * custody[p] - MoneyScale * account[p] IN
  /\ rounding < MoneyScale
  /\ rounding >= 0 \/ -rounding < MoneyScale * Cardinality(Relieved(p))

\* An Idempotency-Key has one effect, however its requests race: the second call
\* finds the first, waits for it, or fails (07 section 9).
OneEffectPerKey ==
  \A q, r \in Requests : q # r /\ pc[q] = "done" /\ pc[r] = "done" =>
    job[q].kind # job[r].kind \/ job[q].key # job[r].key

\* Every request that has begun commits or rolls back, though a write-off waits for
\* the sale that waits for it: unless all connections of the pool are held by issues
\* that each wait for one more.
PoolExhausted ==
  /\ Cardinality(Connected) = PoolSize
  /\ \A r \in Connected : pc[r] = "open" /\ IsIssue(r)
EveryRequestEnds ==
  \A r \in Requests : pc[r] \in Open ~> (pc[r] \notin Open \/ PoolExhausted)
=============================================================================
