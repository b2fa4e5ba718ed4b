------------------------------- MODULE Stock -------------------------------
(***************************************************************************)
(* The stock of one tenant's warehouses: sales, purchases, cancellations,  *)
(* returns, adjustments and issues to representatives, all of which read   *)
(* rows of core.stock_balances and write them back as absolute quantities. *)
(*                                                                         *)
(* A position is what a balance row is for: an item in a warehouse, and a  *)
(* batch if the item has batches.  Every request is one READ COMMITTED     *)
(* transaction.  SELECT ... FOR UPDATE waits for a row's lock and then     *)
(* reads what is committed; a row that does not exist it neither sees nor  *)
(* locks.  An INSERT waits for the uncommitted one of the same position or *)
(* batch and fails on the unique index if that one commits.                *)
(*                                                                         *)
(* A sale locks everything before it decides and writes.  For an item sold *)
(* first in, first out it first lists the item's batches, unlocked, and    *)
(* then selects and locks its balances, in a statement that may see rows   *)
(* of batches that came between the two.  The others take one line at a    *)
(* time: lock, check, write.  Writes of locked rows show only at COMMIT,   *)
(* which is where the model makes them.  The journal comes last, and its   *)
(* advisory lock waits for no stock lock.                                  *)
(*                                                                         *)
(* A batch row comes with the first purchase of the batch, as its first    *)
(* balance row does, and neither goes away: the batches that exist are     *)
(* those with a balance row.                                               *)
(*                                                                         *)
(* Nothing sets items.allow_negative_stock or quantity_reserved: both are  *)
(* left out, as are serials, which are rows of their own, and cost.  Two   *)
(* kinds of row lock are left out too, for they only make a purchase wait  *)
(* more often: of the item whose last cost it writes, and the shared lock  *)
(* of a batch row that a foreign key takes.                                *)
(***************************************************************************)
EXTENDS Integers, FiniteSets, Functions

CONSTANTS
  Positions,     \* records [item, warehouse, batch]
  Requests,      \* API calls, each one transaction
  Kinds,         \* the use cases requests may be
  Orders,        \* what a request may ask for: a quantity per position
  InitialStock,  \* rows of core.stock_balances to begin with
  Batches,       \* what rows of core.stock_batches may be for
  FifoItems,     \* items with batches but neither expiry dates nor serials
  Rank,          \* Rank[p]: place of p in the order of item, warehouse and batch
  Age,           \* Age[b]: place of b among the batches of one receivedAt: its id
  None,          \* no row, no request, no batch
  Unread         \* not read yet

Inward == {"purchase", "cancel", "return", "unsellable", "adjustIn"}
Outward == {"sale", "supplierReturn", "adjustOut", "issue"}

ASSUME StockAssumption ==
  /\ \A p \in Positions : /\ p.batch \in Batches \cup {None}
                          /\ p.item \in FifoItems => p.batch # None
  /\ None \notin Requests \cup Batches
  /\ None \notin Nat /\ Unread \notin Nat /\ None # Unread
  /\ Kinds \subseteq Inward \cup Outward
  /\ Orders \subseteq [Positions -> Nat]
  /\ InitialStock \in [Positions -> Nat \cup {None}]
  /\ Rank \in [Positions -> Nat] /\ Age \in [Batches -> Nat]
  /\ \A p, q \in Positions : Rank[p] = Rank[q] => p = q
ASSUME FinitePositions == IsFiniteSet(Positions)

VARIABLES
  pc,         \* where each request is
  job,        \* its use case and order, the sale or purchase it is about, when it
              \* began, and (for a property) the rows that were there at that time
  clock,      \* transactions begun so far: the time of the next BEGIN
  received,   \* received_at of each batch: 0 if it was there to begin with
  view,       \* what became of each position in the look-ups of its batch
  read,       \* the quantity its SELECT returned per position
  take,       \* what a sale took of each position
  costed,     \* lines of a purchase whose batch row it has locked
  siblings,   \* other balances of that batch it still has to lock
  locked,     \* holder of each balance row, or of its place in the unique index
  batchLock,  \* holder of each batch row
  onHand      \* committed quantity_on_hand, None where there is no row

vars == <<pc, job, clock, received, view, read, take, costed, siblings, locked, batchLock,
          onHand>>

NoOrder == [p \in Positions |-> 0]
NoJob == [kind |-> "none", quantity |-> NoOrder, of |-> None, at |-> 0, there |-> {}]

Init ==
  /\ pc = [r \in Requests |-> "idle"]
  /\ job = [r \in Requests |-> NoJob]
  /\ clock = 1
  /\ received = [b \in Batches |-> 0]
  /\ view = [r \in Requests |-> [p \in Positions |-> "unseen"]]
  /\ read = [r \in Requests |-> [p \in Positions |-> Unread]]
  /\ take = [r \in Requests |-> NoOrder]
  /\ costed = [r \in Requests |-> {}]
  /\ siblings = [r \in Requests |-> {}]
  /\ locked = [p \in Positions |-> None]
  /\ batchLock = [b \in Batches |-> None]
  /\ onHand = InitialStock

----------------------------------------------------------------------------
Quantity(value) == IF value \in {None, Unread} THEN 0 ELSE value
Ordered(r) == {p \in Positions : job[r].quantity[p] > 0}
IsSale(r) == job[r].kind = "sale"

Exists(b) == \E p \in Positions : p.batch = b /\ onHand[p] # None

\* A sale of a FIFO item asks for the item, and may take from all its batches.
ByBatch(r, p) == IsSale(r) /\ p.item \in FifoItems
Candidates(r, p) ==
  IF ByBatch(r, p)
  THEN {q \in Positions : q.item = p.item /\ q.warehouse = p.warehouse} ELSE {p}
Wanted(r) == UNION {Candidates(r, p) : p \in Ordered(r)}

Done(kinds) == {r \in Requests : pc[r] = "done" /\ job[r].kind \in kinds}
\* What came and went: the core.stock_movements of a committed request.  What is
\* unsellable comes in and is written off again in the same transaction.
Moved(r, p) == CASE job[r].kind = "sale" -> -take[r][p]
                 [] job[r].kind \in Inward \ {"unsellable"} -> job[r].quantity[p]
                 [] job[r].kind \in Outward \ {"sale"} -> -job[r].quantity[p]
                 [] OTHER -> 0

Released(locks, r) == [x \in DOMAIN locks |-> IF locks[x] = r THEN None ELSE locks[x]]

\* COMMIT and ROLLBACK release every lock of the transaction.
Finish(r, outcome) ==
  /\ pc' = [pc EXCEPT ![r] = outcome]
  /\ locked' = Released(locked, r)
  /\ batchLock' = Released(batchLock, r)
  /\ siblings' = [siblings EXCEPT ![r] = {}]
  /\ UNCHANGED <<job, clock, view, read, costed>>

----------------------------------------------------------------------------
(* BEGIN, and what is decided before stock is touched *)

Start(r, kind, quantity, doc) ==
  /\ kind \in Kinds
  /\ pc' = [pc EXCEPT ![r] = "open"]
  /\ job' = [job EXCEPT ![r] = [kind |-> kind, quantity |-> quantity, of |-> doc, at |-> clock,
                                 there |-> {p \in Positions : onHand[p] # None}]]
  /\ clock' = clock + 1
  /\ UNCHANGED <<received, view, read, take, costed, siblings, locked, batchLock, onHand>>

InOneWarehouse(quantity) == \A p, q \in Positions :
  quantity[p] > 0 /\ quantity[q] > 0 => p.warehouse = q.warehouse
OfOnePosition(quantity) == \A p, q \in Positions :
  quantity[p] > 0 /\ quantity[q] > 0 => p = q

\* Only a purchase may name a batch that is not there, and a sale of a FIFO item names
\* none.
NeedsBatch(kind, p) ==
  /\ p.batch # None /\ kind # "purchase"
  /\ kind = "sale" => p.item \notin FifoItems
BatchesExist(kind, quantity) ==
  \A p \in Positions : quantity[p] > 0 /\ NeedsBatch(kind, p) => Exists(p.batch)

Order(r, kind, quantity) ==
  /\ kind \in {"sale", "purchase", "issue", "adjustIn", "adjustOut"}
  /\ kind = "issue" => InOneWarehouse(quantity)
  /\ kind \in {"adjustIn", "adjustOut"} => OfOnePosition(quantity)
  /\ BatchesExist(kind, quantity)
  /\ Start(r, kind, quantity, None)

\* A cancellation or return holds the row of its sale or purchase until it ends.
DocumentTaken(doc) == FALSE  \* mutant: a plain SELECT of the sale or purchase
DocumentLocked(doc) == \E q \in Requests : pc[q] = "open" /\ job[q].of = doc
About(doc) == {q \in Requests : pc[q] = "done" /\ job[q].of = doc}
MovedBy(doc, p) == IF IsSale(doc) THEN take[doc][p] ELSE job[doc].quantity[p]
BroughtBack(doc, p) ==
  SumFunctionOnSet([q \in Requests |-> job[q].quantity[p]], About(doc))

CancelSale(r, doc) ==
  /\ ~DocumentLocked(doc)
  /\ About(doc) = {}
  /\ Start(r, "cancel", take[doc], doc)

Return(r, kind, quantity, doc) ==
  /\ kind \in IF IsSale(doc) THEN {"return", "unsellable"} ELSE {"supplierReturn"}
  /\ ~DocumentLocked(doc)
  /\ \A q \in About(doc) : job[q].kind # "cancel"
  /\ InOneWarehouse(quantity)
  /\ \A p \in Positions : quantity[p] <= MovedBy(doc, p) - BroughtBack(doc, p)
  /\ Start(r, kind, quantity, doc)

----------------------------------------------------------------------------
(* What a transaction may do next *)

ToAdd(r) == {p \in Ordered(r) : view[r][p] = "missing" /\ read[r][p] = Unread}
ToCost(r) ==
  {p \in Ordered(r) : /\ job[r].kind = "purchase" /\ p.batch # None
                      /\ read[r][p] # Unread /\ p \notin costed[r]}
ToInsert(r) ==
  {p \in Ordered(r) : job[r].kind \in Inward /\ read[r][p] = None}
LineOpen(r) == ToAdd(r) \cup ToCost(r) \cup siblings[r] \cup ToInsert(r) # {}

\* What a sale counts of a row it has locked: nothing, if its batch was not listed.
Offered(r, p) == IF view[r][p] = "skipped" THEN 0 ELSE Quantity(read[r][p])

\* Not enough of a line whose rows have all been read.
Available(r, group) == SumFunctionOnSet([q \in Positions |-> Offered(r, q)], group)
Asked(r, group) == SumFunctionOnSet(job[r].quantity, group)
SaleOnlyShort(r) ==  \* mutant: only a sale checks the availability
  IsSale(r) /\ \E p \in Ordered(r) : LET group == Candidates(r, p) IN
    (\A q \in group : read[r][q] # Unread) /\ Available(r, group) < Asked(r, group)
Short(r) ==
  \/ SaleOnlyShort(r)
  \/ /\ job[r].kind \in Outward /\ ~IsSale(r)
     /\ \E p \in Ordered(r) :
          read[r][p] # Unread /\ Quantity(read[r][p]) < job[r].quantity[p]

ToRead(r) == {p \in Wanted(r) : read[r][p] = Unread}
AnyOrder(r, p) == TRUE  \* mutant: locks are taken as the lines come
\* Sales and cancellations lock in the order of item, warehouse and batch, the
\* others in the order of the client's lines, which may be any.
InOrder(r, p) ==
  job[r].kind \in {"sale", "cancel"} => \A q \in ToRead(r) : Rank[p] <= Rank[q]
NextUp(r) == IF pc[r] # "open" \/ LineOpen(r) \/ Short(r) THEN {}
             ELSE {p \in ToRead(r) : InOrder(r, p)}

\* A purchase finds a batch that is committed, and one it has inserted itself.
Known(r, b) == Exists(b) \/ batchLock[b] = r
Ready(r, p) ==
  /\ ByBatch(r, p) => view[r][p] \in {"selected", "skipped"}
  /\ job[r].kind = "purchase" /\ p.batch # None => Known(r, p.batch)
NextReads(r) == {p \in NextUp(r) : Ready(r, p)}

----------------------------------------------------------------------------
(* What a line that is next up does first is look batches up: a sale lists *)
(* an item's batches, and a later statement selects their balances; a      *)
(* purchase finds that its batch is not there, and inserts it.             *)

ListBatches(r, p) ==
  /\ ByBatch(r, p) /\ view[r][p] = "unseen"
  /\ view' = [view EXCEPT ![r] = [q \in Positions |->
       IF q \in Candidates(r, p) THEN (IF Exists(q.batch) THEN "listed" ELSE "unlisted")
       ELSE @[q]]]
  /\ UNCHANGED <<pc, job, clock, received, read, take, costed, siblings, locked, batchLock,
                 onHand>>

\* One statement: rows that come later it does not see, rows that are there it locks
\* next, and those of batches that are not in the list it will not use.
SelectBalances(r, p) ==
  /\ ByBatch(r, p) /\ view[r][p] \in {"listed", "unlisted"}
  /\ view' = [view EXCEPT ![r] = [q \in Positions |->
       IF q \in Candidates(r, p)
       THEN (IF @[q] = "listed" /\ onHand[q] # None THEN "selected" ELSE "skipped")
       ELSE @[q]]]
  /\ read' = [read EXCEPT ![r] = [q \in Positions |->
       IF q \in Candidates(r, p) /\ onHand[q] = None THEN None ELSE @[q]]]
  /\ UNCHANGED <<pc, job, clock, received, take, costed, siblings, locked, batchLock, onHand>>

MissBatch(r, p) ==
  /\ job[r].kind = "purchase" /\ p.batch # None /\ ~Known(r, p.batch)
  /\ view' = [view EXCEPT ![r][p] = "missing"]
  /\ UNCHANGED <<pc, job, clock, received, read, take, costed, siblings, locked, batchLock,
                 onHand>>

\* INSERT INTO core.stock_batches takes the batch's place in the unique index; a batch
\* nobody else can see has no balance row in this line's warehouse.
InsertBatch(r, p) ==
  /\ pc[r] = "open" /\ p \in ToAdd(r) /\ ~Exists(p.batch) /\ batchLock[p.batch] = None
  /\ batchLock' = [batchLock EXCEPT ![p.batch] = r]
  /\ read' = [read EXCEPT ![r][p] = None]
  /\ UNCHANGED <<pc, job, clock, received, view, take, costed, siblings, locked, onHand>>

----------------------------------------------------------------------------
(* SELECT ... FOR UPDATE of a balance row *)

NoLock(p, r) == locked  \* mutant: a plain SELECT
RowLock(p, r) == [locked EXCEPT ![p] = r]

ReadRow(r, p) ==
  /\ onHand[p] # None /\ locked[p] \in {None, r}  \* r: it is a sibling of an earlier line
  /\ Ready(r, p)
  /\ locked' = RowLock(p, r)
  /\ read' = [read EXCEPT ![r][p] = onHand[p]]
  /\ UNCHANGED <<pc, job, clock, received, view, take, costed, siblings, batchLock, onHand>>

ReadNoRow(r, p) ==
  /\ onHand[p] = None /\ Ready(r, p)
  /\ read' = [read EXCEPT ![r][p] = None]
  /\ UNCHANGED <<pc, job, clock, received, view, take, costed, siblings, locked, batchLock,
                 onHand>>

----------------------------------------------------------------------------
(* The cost of a batch is an average over all warehouses: a purchase locks *)
(* the batch row, and every balance of it.                                 *)

LockBatch(r, p) ==
  /\ pc[r] = "open" /\ p \in ToCost(r)
  /\ batchLock[p.batch] \in {None, r}
  /\ batchLock' = [batchLock EXCEPT ![p.batch] = r]
  /\ costed' = [costed EXCEPT ![r] = @ \cup {p}]
  /\ siblings' = [siblings EXCEPT ![r] =
       {q \in Positions : /\ q.item = p.item /\ q.batch = p.batch
                          /\ onHand[q] # None /\ locked[q] # r}]
  /\ UNCHANGED <<pc, job, clock, received, view, read, take, locked, onHand>>

LockSibling(r, q) ==
  /\ pc[r] = "open" /\ q \in siblings[r] /\ locked[q] = None
  /\ locked' = [locked EXCEPT ![q] = r]
  /\ siblings' = [siblings EXCEPT ![r] = @ \ {q}]
  /\ UNCHANGED <<pc, job, clock, received, view, read, take, costed, batchLock, onHand>>

\* INSERT INTO core.stock_balances takes the position's place in the unique index;
\* from then on the transaction has a row of its own, with nothing on hand.
InsertRow(r, p) ==
  /\ pc[r] = "open" /\ p \in ToInsert(r) /\ ToCost(r) \cup siblings[r] = {}
  /\ onHand[p] = None /\ locked[p] = None
  /\ locked' = [locked EXCEPT ![p] = r]
  /\ read' = [read EXCEPT ![r][p] = 0]
  /\ UNCHANGED <<pc, job, clock, received, view, take, costed, siblings, batchLock, onHand>>

----------------------------------------------------------------------------
(* COMMIT and ROLLBACK *)

Complete(r) == pc[r] = "open" /\ ToRead(r) = {} /\ ~LineOpen(r) /\ ~Short(r)

\* A batch is as old as the BEGIN of the purchase that brought it.
Older(b, c) == \/ received[b] < received[c]
               \/ received[b] = received[c] /\ Age[b] < Age[c]
NewestFirst(r, taken) ==  \* mutant: the batches are taken in reverse
  \A p, q \in Wanted(r) :
    (p.item \in FifoItems /\ q \in Candidates(r, p) /\ Older(p.batch, q.batch)
       /\ taken[p] > 0) => taken[q] = Offered(r, q)
\* A batch is touched only when all of every older one is taken.
OldestFirst(r, taken) ==
  \A p, q \in Wanted(r) :
    (p.item \in FifoItems /\ q \in Candidates(r, p) /\ Older(q.batch, p.batch)
       /\ taken[p] > 0) => taken[q] = Offered(r, q)

\* What a sale takes: the lines of a FIFO item may be split over its batches.
Allocations(r) ==
  {taken \in [Positions -> 0 .. Asked(r, Positions)] :
     /\ \A p \in Positions :
          /\ taken[p] <= Offered(r, p)
          /\ p \notin Wanted(r) => taken[p] = 0
     /\ \A p \in Ordered(r) : LET group == Candidates(r, p) IN
          SumFunctionOnSet(taken, group) = Asked(r, group)
     /\ OldestFirst(r, taken)}

CommitSale(r) ==
  /\ IsSale(r) /\ Complete(r)
  /\ \E taken \in Allocations(r) :
       /\ take' = [take EXCEPT ![r] = taken]
       /\ onHand' = [p \in Positions |->
            IF taken[p] > 0 THEN Quantity(read[r][p]) - taken[p] ELSE onHand[p]]
  /\ Finish(r, "done")
  /\ UNCHANGED received

CommitLines(r) ==
  /\ ~IsSale(r) /\ Complete(r)
  /\ onHand' = [p \in Positions |->
       IF p \in Ordered(r) THEN Quantity(read[r][p]) + Moved(r, p) ELSE onHand[p]]
  /\ received' = [b \in Batches |->
       IF ~Exists(b) /\ \E p \in Ordered(r) : p.batch = b THEN job[r].at ELSE received[b]]
  /\ Finish(r, "done")
  /\ UNCHANGED take

\* Not enough stock, or another request's row is in a unique index.
Reject(r) ==
  /\ pc[r] = "open"
  /\ \/ Short(r)
     \/ \E p \in ToAdd(r) : Exists(p.batch)
     \/ ToCost(r) \cup siblings[r] = {} /\ \E p \in ToInsert(r) : onHand[p] # None
  /\ Finish(r, "failed")
  /\ UNCHANGED <<received, take, onHand>>

\* The holders of the locks a transaction may ask for next, None if it can go on.
Awaits(r) ==
  LET holder(p) == IF onHand[p] = None \/ locked[p] = r THEN None ELSE locked[p] IN
  {holder(p) : p \in NextReads(r)}
  \cup {IF Exists(p.batch) THEN None ELSE batchLock[p.batch] : p \in ToAdd(r)}
  \cup {IF batchLock[p.batch] = r THEN None ELSE batchLock[p.batch] : p \in ToCost(r)}
  \cup {locked[q] : q \in siblings[r]}
  \cup IF ToCost(r) \cup siblings[r] # {} THEN {}
       ELSE {IF onHand[p] # None THEN None ELSE locked[p] : p \in ToInsert(r)}
Deadlocked(set) ==
  set # {} /\ \A r \in set : pc[r] = "open" /\ Awaits(r) # {} /\ Awaits(r) \subseteq set

\* PostgreSQL rolls back one of the transactions that wait for each other.
Abort(r) ==
  /\ pc[r] = "open" /\ Awaits(r) # {} /\ None \notin Awaits(r)
  /\ \E set \in SUBSET Requests : r \in set /\ Deadlocked(set)
  /\ Finish(r, "failed")
  /\ UNCHANGED <<received, take, onHand>>

----------------------------------------------------------------------------
Work(r) ==
  \/ \E p \in NextUp(r) : \/ ListBatches(r, p) \/ SelectBalances(r, p) \/ MissBatch(r, p)
                          \/ ReadRow(r, p) \/ ReadNoRow(r, p)
  \/ \E p \in Ordered(r) : InsertBatch(r, p) \/ LockBatch(r, p) \/ InsertRow(r, p)
  \/ \E q \in Positions : LockSibling(r, q)
  \/ CommitSale(r) \/ CommitLines(r) \/ Reject(r) \/ Abort(r)
Begin(r) ==
  /\ pc[r] = "idle"
  /\ \/ \E kind \in Kinds, quantity \in Orders : Order(r, kind, quantity)
     \/ \E doc \in Done({"sale"}) : CancelSale(r, doc)
     \/ \E doc \in Done({"sale", "purchase"}), kind \in Kinds, quantity \in Orders :
          Return(r, kind, quantity, doc)

Next == \E r \in Requests : Begin(r) \/ Work(r)
\* A transaction that has begun goes on: every statement is awaited, and the
\* database wakes who waits for a lock.
Fairness == \A r \in Requests : WF_vars(Work(r))
Spec == Init /\ [][Next]_vars /\ Fairness

----------------------------------------------------------------------------
Locks == Requests \cup {None}
Views == {"unseen", "missing", "listed", "unlisted", "selected", "skipped"}
TypeOK ==
  /\ pc \in [Requests -> {"idle", "open", "done", "failed"}]
  /\ job \in [Requests -> [kind : Kinds \cup {"none"}, quantity : [Positions -> Nat],
                           of : Requests \cup {None}, at : Nat, there : SUBSET Positions]]
  /\ clock \in Nat
  /\ received \in [Batches -> Nat]
  /\ view \in [Requests -> [Positions -> Views]]
  /\ read \in [Requests -> [Positions -> Nat \cup {None, Unread}]]
  /\ take \in [Requests -> [Positions -> Nat]]
  /\ costed \in [Requests -> SUBSET Positions]
  /\ siblings \in [Requests -> SUBSET Positions]
  /\ locked \in [Positions -> Locks]
  /\ batchLock \in [Batches -> Locks]
  \* No balance is ever negative (06 section 22, "Stock non-negative").
  /\ onHand \in [Positions -> Nat \cup {None}]

\* Stock on hand is the sum of the movements (09 section 3.1): whatever rows the
\* transactions read, and whatever they wait for, each commit moves the balances
\* that are committed at that moment by exactly its own movements.
Ledger == INSTANCE StockLedger WITH
  InitialStock <- [p \in Positions |-> Quantity(InitialStock[p])],
  balance <- [p \in Positions |-> Quantity(onHand[p])],
  posted <- {r \in Requests : pc[r] = "done"},
  moved <- [r \in Requests |-> [p \in Positions |-> IF pc[r] = "done" THEN Moved(r, p) ELSE 0]]
LedgerSpec == Ledger!Spec

\* FIFO (09 section 4.1): a sale that takes from a batch leaves nothing behind, when
\* it commits, in an older batch of the item whose row was there when the sale began,
\* or that was listed and then selected: not even what others brought back to it, or
\* added to it, in the meantime.  An older batch that is committed between the two
\* statements is left behind (OldestTakenFirst).
FifoLeavesNoOlder ==
  [][\A r \in Requests : pc[r] = "open" /\ pc'[r] = "done" /\ IsSale(r) =>
       \A p, q \in Positions :
         (/\ p.item \in FifoItems /\ q \in Candidates(r, p)
          /\ Older(q.batch, p.batch) /\ take'[r][p] > 0
          /\ q \in job[r].there \/ view[r][q] = "selected") => onHand'[q] = 0]_vars

\* FIFO without that exception: of no older batch whose balance is locked when a sale
\* commits does the sale leave anything.  It fails (MCFifoRace.cfg): a purchase that
\* began before another commits its batch after the sale has listed the batches, and
\* the sale locks the balance of the older batch and passes over it.
OldestTakenFirst ==
  [][\A r \in Requests : pc[r] = "open" /\ pc'[r] = "done" /\ IsSale(r) =>
       \A p, q \in Positions :
         (/\ p.item \in FifoItems /\ q \in Candidates(r, p)
          /\ Older(q.batch, p.batch) /\ take'[r][p] > 0
          /\ locked[q] = r) => onHand'[q] = 0]_vars

\* Cancellations and returns of one sale or purchase, however they race, never move
\* back more of a line than the sale or purchase moved.
BroughtBackWithinMoved ==
  \A doc \in Done({"sale", "purchase"}), p \in Positions :
    BroughtBack(doc, p) <= MovedBy(doc, p)

\* Decision INV-003: the order of the locks prevents deadlocks.
NoDeadlock == \A set \in SUBSET Requests : ~Deadlocked(set)

\* For sales and cancellations the order does prevent them: whatever else runs, they
\* are in no cycle of waits of their own, over batches, warehouses and lines.
SalesNeverDeadlock ==
  \A set \in SUBSET {r \in Requests : job[r].kind \in {"sale", "cancel"}} : ~Deadlocked(set)

\* Every transaction that has begun commits or rolls back: the batch and balance
\* locks others wait for are released, and a cycle of waits is broken.
EveryRequestEnds == \A r \in Requests : pc[r] = "open" ~> pc[r] \in {"done", "failed"}
=============================================================================
