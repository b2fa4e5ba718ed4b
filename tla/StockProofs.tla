---------------------------- MODULE StockProofs ----------------------------
(***************************************************************************)
(* What moves goods, and what they are sold and bought for.                *)
(*                                                                         *)
(* Stock, for any positions, requests, orders and initial stock: it        *)
(* implements StockLedger, no balance is ever negative, sales are first    *)
(* in, first out, and nothing is brought back twice.  That rests on one    *)
(* fact that is not visible in TypeOK: as long as a transaction is open,   *)
(* every row it has read, or has inserted, is locked by it and still as it *)
(* read it (HeldOK).  So what it writes at COMMIT, computed from what it   *)
(* read, is what a single step on the committed balances would write.      *)
(* That sales are first in, first out rests on what a sale has seen when   *)
(* it commits: every row that was there when it began (SeenOK).            *)
(* That sales and cancellations never deadlock among themselves rests on   *)
(* the order in which the positions are locked (RankedOK).                 *)
(*                                                                         *)
(* Pricing, for any items, prices, rates, batches, ceilings and lines:     *)
(* what a form and the document made of it say of each other (DocOK).      *)
(* The lemmas follow an amount from the document to its lines              *)
(* (SharesAndTaxes), from a line to the batches it is drawn from           *)
(* (SharesAddUp), and back (SplitAddsUp).                                  *)
(***************************************************************************)
EXTENDS Stock, Pricing, ArithmeticProofs

Has(r, p) == read[r][p] \in Nat

\* What an open transaction has read is locked and has not changed since.
HeldOK ==
  \A r \in Requests, p \in Positions : pc[r] = "open" /\ Has(r, p) =>
    locked[p] = r /\ Quantity(onHand[p]) = read[r][p]

\* What has not begun has read nothing, what has begun is a use case, and only a
\* purchase misses a batch.
BegunOK == \A r \in Requests :
  /\ IF pc[r] = "idle" THEN \A p \in Positions : read[r][p] = Unread /\ view[r][p] = "unseen"
     ELSE job[r].kind \in Kinds
  /\ \A p \in Positions : view[r][p] = "missing" => job[r].kind = "purchase"

StockInv == TypeOK /\ BegunOK /\ HeldOK

LEMMA InitHolds == Init => StockInv
<1> SUFFICES ASSUME Init PROVE StockInv
  OBVIOUS
<1>1. TypeOK
  BY StockAssumption DEF Init, TypeOK, NoJob, NoOrder, Locks, Views
<1>2. HeldOK
  BY <1>1 DEF Init, HeldOK
<1>3. BegunOK
  BY DEF Init, BegunOK
<1> QED BY <1>1, <1>2, <1>3 DEF StockInv

----------------------------------------------------------------------------
\* Ending a transaction frees its own locks and nobody else's.
LEMMA ReleasedFacts ==
  ASSUME NEW locks, NEW r \in Requests
  PROVE  /\ DOMAIN Released(locks, r) = DOMAIN locks
         /\ \A x \in DOMAIN locks :
              /\ Released(locks, r)[x] \in {locks[x], None}
              /\ locks[x] # r => Released(locks, r)[x] = locks[x]
  BY DEF Released

\* What ending a transaction does to the rest of the state.
LEMMA FinishFacts ==
  ASSUME StockInv, NEW r \in Requests, NEW outcome \in {"done", "failed"},
         Finish(r, outcome)
  PROVE  /\ pc' \in [Requests -> {"idle", "open", "done", "failed"}]
         /\ locked' \in [Positions -> Locks] /\ batchLock' \in [Batches -> Locks]
         /\ siblings' \in [Requests -> SUBSET Positions]
         /\ UNCHANGED <<job, clock, view, read, costed>>
         /\ \A q \in Requests : pc'[q] = "open" => q # r /\ pc[q] = "open"
         /\ \A q \in Requests : pc'[q] = "idle" => pc[q] = "idle"
         /\ \A q \in Requests \ {r}, p \in Positions : locked[p] = q => locked'[p] = q
         /\ pc' = [pc EXCEPT ![r] = outcome]
<1>1. TypeOK
  BY DEF StockInv
<1>2. locked' \in [Positions -> Locks] /\ batchLock' \in [Batches -> Locks]
  BY <1>1 DEF Finish, TypeOK, Released, Locks
<1> QED BY <1>1, <1>2 DEF Finish, TypeOK, Released

\* A transaction that ends without writing keeps the invariant.
LEMMA RollbackStep ==
  ASSUME StockInv, NEW r \in Requests, pc[r] = "open", Finish(r, "failed"),
         UNCHANGED <<received, take, onHand>>
  PROVE  StockInv'
<1>1. TypeOK /\ BegunOK /\ HeldOK
  BY DEF StockInv
<1>2. TypeOK'
  BY <1>1, FinishFacts DEF TypeOK, Locks, Views
<1>3. HeldOK'
  BY <1>1, FinishFacts DEF HeldOK, Has
<1>4. BegunOK'
  BY <1>1, FinishFacts DEF BegunOK
<1> QED BY <1>2, <1>3, <1>4 DEF StockInv

LEMMA StartStep ==
  ASSUME StockInv, NEW r \in Requests, pc[r] = "idle",
         NEW kind \in Kinds, NEW quantity \in [Positions -> Nat],
         NEW origin \in Requests \cup {None}, Start(r, kind, quantity, origin)
  PROVE  StockInv'
<1>1. TypeOK /\ BegunOK /\ HeldOK
  BY DEF StockInv
<1>2. TypeOK'
  BY <1>1 DEF TypeOK, Start, Locks, Views
<1>3. \A q \in Requests : pc'[q] = IF q = r THEN "open" ELSE pc[q]
  BY <1>1 DEF TypeOK, Start
<1>4. UNCHANGED <<view, read, locked, onHand>>
  BY DEF Start
<1>5. HeldOK'
  BY <1>1, <1>3, <1>4, StockAssumption DEF HeldOK, BegunOK, Has
<1>6. \A q \in Requests : job'[q].kind = IF q = r THEN kind ELSE job[q].kind
  BY <1>1 DEF TypeOK, Start
<1>7. BegunOK'
  BY <1>1, <1>3, <1>4, <1>6 DEF BegunOK
<1> QED BY <1>2, <1>5, <1>7 DEF StockInv

\* BEGIN of any use case.
LEMMA BeginStep ==
  ASSUME StockInv, NEW r \in Requests, Begin(r)
  PROVE  StockInv'
<1>1. pc[r] = "idle" /\ TypeOK
  BY DEF Begin, StockInv
<1>2. ASSUME NEW kind \in Kinds, NEW quantity \in Orders, Order(r, kind, quantity)
      PROVE  StockInv'
  BY <1>1, <1>2, StartStep, StockAssumption DEF Order
<1>3. ASSUME NEW origin \in Done({"sale"}), CancelSale(r, origin) PROVE StockInv'
  <2>1. take[origin] \in [Positions -> Nat] /\ origin \in Requests
    BY <1>1 DEF TypeOK, Done
  <2>2. "cancel" \in Kinds
    BY <1>3 DEF CancelSale, Start
  <2> QED BY <1>1, <1>3, <2>1, <2>2, StartStep DEF CancelSale
<1>4. ASSUME NEW origin \in Done({"sale", "purchase"}), NEW kind \in Kinds,
             NEW quantity \in Orders, Return(r, kind, quantity, origin)
      PROVE  StockInv'
  BY <1>1, <1>4, StartStep, StockAssumption DEF Return, Done
<1> QED BY <1>2, <1>3, <1>4 DEF Begin

----------------------------------------------------------------------------
\* What is next up is a position of an open transaction that it has not read.
LEMMA NextUpFacts ==
  ASSUME StockInv, NEW r \in Requests, NEW p \in NextUp(r)
  PROVE  /\ pc[r] = "open" /\ p \in Positions /\ p \in ToRead(r) /\ read[r][p] = Unread
         /\ ToAdd(r) = {} /\ ToCost(r) = {} /\ ToInsert(r) = {}
  BY DEF NextUp, ToRead, Wanted, Candidates, Ordered, LineOpen

\* A step that locks no row and changes no read but to "no row" keeps the invariant.
LEMMA LookStep ==
  ASSUME StockInv, NEW r \in Requests, pc[r] = "open",
         UNCHANGED <<pc, job, clock, received, take, costed, siblings, locked, onHand>>,
         batchLock' \in [Batches -> Locks],
         view' \in [Requests -> [Positions -> Views]],
         read' \in [Requests -> [Positions -> Nat \cup {None, Unread}]],
         \A o \in Requests \ {r} : view'[o] = view[o] /\ read'[o] = read[o],
         \A q \in Positions : /\ read'[r][q] \in {read[r][q], None}
                              /\ view'[r][q] = "missing" => job[r].kind = "purchase"
  PROVE  StockInv'
<1>1. TypeOK /\ BegunOK /\ HeldOK
  BY DEF StockInv
<1>2. TypeOK'
  BY <1>1 DEF TypeOK, Locks, Views
<1>3. \A o \in Requests, q \in Positions : Has(o, q)' => Has(o, q) /\ read'[o][q] = read[o][q]
  BY StockAssumption DEF Has
<1>4. HeldOK'
  BY <1>1, <1>3 DEF HeldOK, Quantity
<1>5. BegunOK'
  BY <1>1 DEF BegunOK
<1> QED BY <1>2, <1>4, <1>5 DEF StockInv

\* The look-ups of batches write the view of one request.
LEMMA LookUpFacts ==
  ASSUME StockInv, NEW r \in Requests, NEW p \in Positions,
         ListBatches(r, p) \/ SelectBalances(r, p) \/ MissBatch(r, p) \/ InsertBatch(r, p)
  PROVE  /\ UNCHANGED <<pc, job, clock, received, take, costed, siblings, locked, onHand>>
         /\ batchLock' \in [Batches -> Locks]
         /\ view' \in [Requests -> [Positions -> Views]]
         /\ read' \in [Requests -> [Positions -> Nat \cup {None, Unread}]]
         /\ \A o \in Requests \ {r} : view'[o] = view[o] /\ read'[o] = read[o]
         /\ \A q \in Positions : /\ read'[r][q] \in {read[r][q], None}
                                 /\ view'[r][q] = "missing" => job[r].kind = "purchase"
<1>1. TypeOK /\ BegunOK
  BY DEF StockInv
<1>2. CASE ListBatches(r, p)
  <2>1. /\ UNCHANGED <<pc, job, clock, received, read, take, costed, siblings, locked,
                       batchLock, onHand>>
        /\ view' = [view EXCEPT ![r] = [q \in Positions |->
             IF q \in Candidates(r, p) THEN (IF Exists(q.batch) THEN "listed" ELSE "unlisted")
             ELSE @[q]]]
    BY <1>2 DEF ListBatches
  <2> QED BY <1>1, <2>1 DEF TypeOK, BegunOK, Views, Locks
<1>3. CASE SelectBalances(r, p)
  <2>1. /\ UNCHANGED <<pc, job, clock, received, take, costed, siblings, locked, batchLock,
                       onHand>>
        /\ view' = [view EXCEPT ![r] = [q \in Positions |->
             IF q \in Candidates(r, p)
             THEN (IF @[q] = "listed" /\ onHand[q] # None THEN "selected" ELSE "skipped")
             ELSE @[q]]]
        /\ read' = [read EXCEPT ![r] = [q \in Positions |->
             IF q \in Candidates(r, p) /\ onHand[q] = None THEN None ELSE @[q]]]
    BY <1>3 DEF SelectBalances
  <2> QED BY <1>1, <2>1 DEF TypeOK, BegunOK, Views, Locks
<1>4. CASE MissBatch(r, p)
  BY <1>1, <1>4 DEF MissBatch, TypeOK, BegunOK, Views, Locks
<1>5. CASE InsertBatch(r, p)
  <2>1. batchLock' \in [Batches -> Locks]
    BY <1>1, <1>5 DEF InsertBatch, TypeOK, Locks
  <2> QED BY <1>1, <1>5, <2>1 DEF InsertBatch, TypeOK, BegunOK, Views
<1> QED BY <1>2, <1>3, <1>4, <1>5

\* Reading a row takes its lock first.
LEMMA ReadRowStep ==
  ASSUME StockInv, NEW r \in Requests, NEW p \in Positions, pc[r] = "open", ReadRow(r, p)
  PROVE  StockInv'
<1>1. TypeOK /\ BegunOK /\ HeldOK
  BY DEF StockInv
<1>2. onHand[p] \in Nat /\ locked[p] \in {None, r}
  BY <1>1 DEF ReadRow, TypeOK
<1>3. /\ locked' = [locked EXCEPT ![p] = r] /\ read' = [read EXCEPT ![r][p] = onHand[p]]
      /\ UNCHANGED <<pc, job, clock, received, view, take, costed, siblings, batchLock, onHand>>
  BY DEF ReadRow, RowLock
<1>4. \A o \in Requests, q \in Positions :
        /\ read'[o][q] = IF o = r /\ q = p THEN onHand[p] ELSE read[o][q]
        /\ locked'[q] = IF q = p THEN r ELSE locked[q]
  BY <1>1, <1>3 DEF TypeOK
<1>5. TypeOK'
  BY <1>1, <1>2, <1>3 DEF TypeOK, Locks, Views
<1>6. HeldOK'
  BY <1>1, <1>2, <1>3, <1>4, StockAssumption DEF HeldOK, Has, Quantity
<1>7. BegunOK'
  BY <1>1, <1>3, <1>4 DEF BegunOK
<1> QED BY <1>5, <1>6, <1>7 DEF StockInv

\* A row that does not exist leaves a position unlocked and unheld.
LEMMA ReadNoRowStep ==
  ASSUME StockInv, NEW r \in Requests, NEW p \in Positions, pc[r] = "open", ReadNoRow(r, p)
  PROVE  StockInv'
<1>1. TypeOK
  BY DEF StockInv
<1>2. /\ read' = [read EXCEPT ![r][p] = None]
      /\ UNCHANGED <<pc, job, clock, received, view, take, costed, siblings, locked, batchLock,
                     onHand>>
  BY DEF ReadNoRow
<1>3. \A q \in Positions : view[r][q] = "missing" => job[r].kind = "purchase"
  BY DEF StockInv, BegunOK
<1> QED BY <1>1, <1>2, <1>3, LookStep DEF TypeOK

\* The locks of the cost computation change nothing that has been read.
LEMMA LockBatchStep ==
  ASSUME StockInv, NEW r \in Requests, NEW p \in Positions, LockBatch(r, p)
  PROVE  StockInv'
<1>1. TypeOK /\ BegunOK /\ HeldOK
  BY DEF StockInv
<1>2. TypeOK'
  BY <1>1 DEF TypeOK, LockBatch, Locks, Views
<1>3. UNCHANGED <<pc, job, view, read, locked, onHand>>
  BY DEF LockBatch
<1>4. HeldOK' /\ BegunOK'
  BY <1>1, <1>3 DEF HeldOK, BegunOK, Has, Quantity
<1> QED BY <1>2, <1>4 DEF StockInv

LEMMA LockSiblingStep ==
  ASSUME StockInv, NEW r \in Requests, NEW p \in Positions, LockSibling(r, p)
  PROVE  StockInv'
<1>1. TypeOK /\ BegunOK /\ HeldOK
  BY DEF StockInv
<1>2. TypeOK'
  BY <1>1 DEF TypeOK, LockSibling, Locks, Views
<1>3. /\ locked[p] = None /\ locked' = [locked EXCEPT ![p] = r]
      /\ UNCHANGED <<pc, job, view, read, onHand>>
  BY DEF LockSibling
<1>4. \A o \in Requests, q \in Positions : locked[q] = o => locked'[q] = o
  BY <1>1, <1>3, StockAssumption DEF TypeOK
<1>5. HeldOK' /\ BegunOK'
  BY <1>1, <1>3, <1>4 DEF HeldOK, BegunOK, Has, Quantity
<1> QED BY <1>2, <1>5 DEF StockInv

\* An inserted row is the transaction's own and still empty.
LEMMA InsertRowStep ==
  ASSUME StockInv, NEW r \in Requests, NEW p \in Positions, InsertRow(r, p)
  PROVE  StockInv'
<1>1. TypeOK /\ BegunOK /\ HeldOK
  BY DEF StockInv
<1>2. /\ pc[r] = "open" /\ onHand[p] = None /\ locked[p] = None
      /\ locked' = [locked EXCEPT ![p] = r] /\ read' = [read EXCEPT ![r][p] = 0]
      /\ UNCHANGED <<pc, job, clock, received, view, take, costed, siblings, batchLock, onHand>>
  BY DEF InsertRow
<1>3. TypeOK'
  BY <1>1, <1>2 DEF TypeOK, Locks, Views
<1>4. \A o \in Requests, q \in Positions :
        read'[o][q] = IF o = r /\ q = p THEN 0 ELSE read[o][q]
  BY <1>1, <1>2 DEF TypeOK
<1>5. \A o \in Requests, q \in Positions : locked[q] = o => locked'[q] = o
  BY <1>1, <1>2, StockAssumption DEF TypeOK
<1>6. locked'[p] = r /\ Quantity(onHand[p]) = 0
  BY <1>1, <1>2 DEF TypeOK, Quantity
<1>7. HeldOK'
  BY <1>1, <1>2, <1>4, <1>5, <1>6 DEF HeldOK, Has, Quantity
<1>8. BegunOK'
  BY <1>1, <1>2, <1>4 DEF BegunOK
<1> QED BY <1>3, <1>7, <1>8 DEF StockInv

----------------------------------------------------------------------------
\* A commit that writes rows its transaction has read, and nothing else, keeps the
\* invariant: nobody else holds them.
LEMMA CommitStep ==
  ASSUME StockInv, NEW r \in Requests, pc[r] = "open", Finish(r, "done"),
         take' \in [Requests -> [Positions -> Nat]], received' \in [Batches -> Nat],
         onHand' \in [Positions -> Nat \cup {None}],
         \A p \in Positions : onHand'[p] # onHand[p] => Has(r, p)
  PROVE  StockInv'
<1>1. TypeOK /\ BegunOK /\ HeldOK
  BY DEF StockInv
<1>2. TypeOK'
  BY <1>1, FinishFacts DEF TypeOK, Locks, Views
<1>3. HeldOK'
  <2> SUFFICES ASSUME NEW q \in Requests, NEW p \in Positions, pc'[q] = "open", Has(q, p)
               PROVE  locked'[p] = q /\ Quantity(onHand'[p]) = read[q][p]
    BY FinishFacts DEF HeldOK, Has, Quantity
  <2>1. q # r /\ pc[q] = "open"
    BY FinishFacts
  <2>2. locked[p] = q /\ Quantity(onHand[p]) = read[q][p]
    BY <1>1, <2>1 DEF HeldOK
  <2>3. ~Has(r, p)
    BY <1>1, <2>1, <2>2 DEF HeldOK
  <2> QED BY <2>1, <2>2, <2>3, FinishFacts
<1>4. BegunOK'
  BY <1>1, FinishFacts DEF BegunOK
<1> QED BY <1>2, <1>3, <1>4 DEF StockInv

\* What a sale takes is there, in rows it has locked.
LEMMA SaleFacts ==
  ASSUME StockInv, NEW r \in Requests, NEW taken \in Allocations(r)
  PROVE  /\ taken \in [Positions -> Nat]
         /\ \A p \in Positions : taken[p] > 0 =>
              Has(r, p) /\ taken[p] <= read[r][p] /\ Quantity(read[r][p]) = read[r][p]
<1>1. read[r] \in [Positions -> Nat \cup {None, Unread}]
  BY DEF StockInv, TypeOK
<1>2. /\ taken \in [Positions -> Nat]
      /\ \A p \in Positions : taken[p] > 0 => taken[p] <= Quantity(read[r][p])
  BY DEF Allocations, Offered
<1>3. ASSUME NEW p \in Positions, taken[p] > 0
      PROVE  Has(r, p) /\ Quantity(read[r][p]) = read[r][p]
  BY <1>1, <1>2, <1>3 DEF Quantity, Has
<1> QED BY <1>1, <1>2, <1>3

LEMMA CommitSaleStep ==
  ASSUME StockInv, NEW r \in Requests, CommitSale(r)
  PROVE  StockInv'
<1>1. TypeOK
  BY DEF StockInv
<1>2. PICK taken \in Allocations(r) :
        /\ take' = [take EXCEPT ![r] = taken]
        /\ onHand' = [p \in Positions |->
             IF taken[p] > 0 THEN Quantity(read[r][p]) - taken[p] ELSE onHand[p]]
  BY DEF CommitSale
<1>3. /\ taken \in [Positions -> Nat]
      /\ \A p \in Positions : taken[p] > 0 =>
           Has(r, p) /\ taken[p] <= read[r][p] /\ Quantity(read[r][p]) = read[r][p]
  BY SaleFacts
<1>4. take' \in [Requests -> [Positions -> Nat]]
  BY <1>1, <1>2, <1>3 DEF TypeOK
<1>5. onHand' \in [Positions -> Nat \cup {None}]
  <2>1. ASSUME NEW p \in Positions PROVE onHand'[p] \in Nat \cup {None}
    BY <1>1, <1>2, <1>3 DEF TypeOK, Has
  <2> QED BY <1>2, <2>1
<1>6. \A p \in Positions : onHand'[p] # onHand[p] => Has(r, p)
  BY <1>2, <1>3
<1>7. pc[r] = "open" /\ Finish(r, "done") /\ received' \in [Batches -> Nat]
  BY <1>1 DEF CommitSale, Complete, TypeOK
<1> QED BY <1>4, <1>5, <1>6, <1>7, CommitStep

\* A transaction that takes line by line has read or inserted every row it writes,
\* and has enough in the rows it takes from.
LEMMA LineFacts ==
  ASSUME StockInv, NEW r \in Requests, Complete(r), ~IsSale(r), NEW p \in Ordered(r)
  PROVE  /\ p \in Positions /\ Has(r, p) /\ Quantity(read[r][p]) = read[r][p]
         /\ Moved(r, p) \in Int
         /\ read[r][p] + Moved(r, p) >= 0
<1>1. TypeOK
  BY DEF StockInv
<1>2. job[r].kind \in (Inward \cup Outward) \ {"sale"}
  BY StockAssumption DEF StockInv, BegunOK, Complete, IsSale
<1>3. /\ p \in Positions /\ job[r].quantity[p] \in Nat /\ job[r].quantity[p] > 0
      /\ read[r][p] \in Nat \cup {None, Unread}
  BY <1>1 DEF TypeOK, Ordered
<1>4. read[r][p] # Unread
  <2>1. p \in Wanted(r)
    BY <1>3 DEF Wanted, Candidates, IsSale, Ordered
  <2> QED BY <1>3, <2>1 DEF Complete, ToRead
<1>5. CASE job[r].kind \in Inward
  <2>1. read[r][p] # None
    BY <1>5 DEF Complete, LineOpen, ToInsert
  <2>2. read[r][p] \in Nat /\ Quantity(read[r][p]) = read[r][p]
    BY <1>3, <1>4, <2>1 DEF Quantity
  <2>3. Moved(r, p) \in Nat
    <3>1. job[r].kind # "sale" /\ job[r].kind \notin Outward
      BY <1>5 DEF Inward, Outward
    <3> QED BY <1>3, <1>5, <3>1 DEF Moved
  <2> QED BY <1>3, <2>2, <2>3 DEF Has
<1>6. CASE job[r].kind \in Outward
  <2>1. Quantity(read[r][p]) >= job[r].quantity[p]
    <3>1. ~(Quantity(read[r][p]) < job[r].quantity[p])
      BY <1>4, <1>6 DEF Complete, Short
    <3> QED BY <1>3, <3>1 DEF Quantity
  <2>2. read[r][p] \in Nat /\ Quantity(read[r][p]) = read[r][p]
    BY <1>3, <1>4, <2>1 DEF Quantity
  <2>3. Moved(r, p) = -job[r].quantity[p]
    BY <1>2, <1>6 DEF Moved, Outward, Inward
  <2> QED BY <1>3, <2>1, <2>2, <2>3 DEF Has
<1> QED BY <1>2, <1>5, <1>6

LEMMA CommitLinesStep ==
  ASSUME StockInv, NEW r \in Requests, CommitLines(r)
  PROVE  StockInv'
<1>1. TypeOK
  BY DEF StockInv
<1>2. /\ pc[r] = "open" /\ Complete(r) /\ ~IsSale(r) /\ Finish(r, "done") /\ take' = take
      /\ onHand' = [p \in Positions |->
           IF p \in Ordered(r) THEN Quantity(read[r][p]) + Moved(r, p) ELSE onHand[p]]
  BY DEF CommitLines, Complete
<1>3. onHand' \in [Positions -> Nat \cup {None}]
  <2>1. ASSUME NEW p \in Positions PROVE onHand'[p] \in Nat \cup {None}
    <3>1. CASE p \in Ordered(r)
      BY <1>2, <3>1, LineFacts DEF Has
    <3>2. CASE p \notin Ordered(r)
      BY <1>1, <1>2, <3>2 DEF TypeOK
    <3> QED BY <3>1, <3>2
  <2> QED BY <1>2, <2>1
<1>4. \A p \in Positions : onHand'[p] # onHand[p] => Has(r, p)
  BY <1>2, LineFacts
<1>5. received' \in [Batches -> Nat]
  BY <1>1 DEF CommitLines, TypeOK
<1> QED BY <1>1, <1>2, <1>3, <1>4, <1>5, CommitStep DEF TypeOK

\* A statement that does not end its transaction commits nothing.
LEMMA StatementFacts ==
  ASSUME NEW r \in Requests, Work(r),
         ~(CommitSale(r) \/ CommitLines(r) \/ Reject(r) \/ Abort(r))
  PROVE  UNCHANGED <<pc, job, clock, received, take, onHand>>
  BY DEF Work, ListBatches, SelectBalances, MissBatch, InsertBatch, ReadRow, ReadNoRow,
         LockBatch, LockSibling, InsertRow

LEMMA NextStep == StockInv /\ [Next]_vars => StockInv'
<1> SUFFICES ASSUME StockInv, [Next]_vars PROVE StockInv'
  OBVIOUS
<1>1. CASE UNCHANGED vars
  <2>1. TypeOK'
    BY <1>1 DEF StockInv, TypeOK, Locks, Views, vars
  <2>2. BegunOK' /\ HeldOK'
    BY <1>1 DEF StockInv, BegunOK, HeldOK, Has, Quantity, vars
  <2> QED BY <2>1, <2>2 DEF StockInv
<1>2. ASSUME NEW r \in Requests, Begin(r) PROVE StockInv'
  BY <1>2, BeginStep
<1>3. ASSUME NEW r \in Requests, Work(r) PROVE StockInv'
  <2>1. ASSUME NEW p \in NextUp(r), ReadRow(r, p) \/ ReadNoRow(r, p) PROVE StockInv'
    BY <2>1, NextUpFacts, ReadRowStep, ReadNoRowStep
  <2>2. ASSUME NEW p \in Positions, pc[r] = "open",
               ListBatches(r, p) \/ SelectBalances(r, p) \/ MissBatch(r, p) \/ InsertBatch(r, p)
        PROVE  StockInv'
    BY <2>2, LookUpFacts, LookStep
  <2>3. ASSUME NEW p \in Positions, LockBatch(r, p) PROVE StockInv'
    BY <2>3, LockBatchStep
  <2>4. ASSUME NEW p \in Positions, LockSibling(r, p) PROVE StockInv'
    BY <2>4, LockSiblingStep
  <2>5. ASSUME NEW p \in Positions, InsertRow(r, p) PROVE StockInv'
    BY <2>5, InsertRowStep
  <2>6. CASE CommitSale(r)
    BY <2>6, CommitSaleStep
  <2>7. CASE CommitLines(r)
    BY <2>7, CommitLinesStep
  <2>8. CASE Reject(r)
    BY <2>8, RollbackStep DEF Reject
  <2>9. CASE Abort(r)
    BY <2>9, RollbackStep DEF Abort
  <2> QED BY <1>3, <2>1, <2>2, <2>3, <2>4, <2>5, <2>6, <2>7, <2>8, <2>9, NextUpFacts
          DEF Work, InsertBatch, Ordered
<1> QED BY <1>1, <1>2, <1>3 DEF Next

\* The invariant of every behaviour: an open transaction holds what it has read.
THEOREM StockInvariant == Spec => []StockInv
  BY InitHolds, NextStep, PTL DEF Spec

\* Every variable keeps its type, and no balance is ever negative, whatever the
\* requests order and however their statements interleave.
THEOREM TypeCorrect == Spec => []TypeOK
<1>1. StockInv => TypeOK
  BY DEF StockInv
<1> QED BY <1>1, StockInvariant, PTL

----------------------------------------------------------------------------
(* The refinement: a commit posts, every other step stutters. *)

Balance == [p \in Positions |-> Quantity(onHand[p])]
Posted == {r \in Requests : pc[r] = "done"}
Movements ==
  [r \in Requests |-> [p \in Positions |-> IF pc[r] = "done" THEN Moved(r, p) ELSE 0]]
ledgerVars == <<Balance, Posted, Movements>>

LEMMA InitMaps == Init => Ledger!Init
  BY StockAssumption DEF Init, Ledger!Init, Quantity

\* What a request has moved is a number,
LEMMA MovedIsInt == TypeOK => \A r \in Requests, p \in Positions : Moved(r, p) \in Int
<1> SUFFICES ASSUME TypeOK, NEW r \in Requests, NEW p \in Positions
             PROVE  Moved(r, p) \in Int
  OBVIOUS
<1>1. take[r][p] \in Nat /\ job[r].quantity[p] \in Nat
  BY DEF TypeOK
<1>2. CASE job[r].kind = "sale"
  BY <1>1, <1>2 DEF Moved, Inward
<1>3. CASE job[r].kind # "sale"
  BY <1>1, <1>3 DEF Moved, Inward, Outward
<1> QED BY <1>2, <1>3

\* and depends on its job and on what it took.
LEMMA MovedStays ==
  ASSUME NEW r \in Requests, NEW p \in Positions, job'[r] = job[r], take'[r] = take[r]
  PROVE  Moved(r, p)' = Moved(r, p)
  BY DEF Moved

\* A step that writes no balance and commits nothing leaves the ledger alone.
LEMMA SilentStep ==
  ASSUME StockInv, UNCHANGED onHand,
         \A r \in Requests :
           /\ pc'[r] = "done" <=> pc[r] = "done"
           /\ pc[r] = "done" => job'[r] = job[r] /\ take'[r] = take[r]
  PROVE  UNCHANGED ledgerVars
<1>1. Balance' = Balance
  BY DEF Balance, Quantity
<1>2. Posted' = Posted
  BY DEF Posted
<1>3. \A r \in Requests, p \in Positions : pc[r] = "done" => Moved(r, p)' = Moved(r, p)
  BY MovedStays
<1>4. Movements' = Movements
  BY <1>3 DEF Movements
<1> QED BY <1>1, <1>2, <1>4 DEF ledgerVars

\* A commit posts, if what it writes is what was committed and what it moved.
LEMMA PostStep ==
  ASSUME StockInv, StockInv', NEW r \in Requests, pc[r] = "open", Finish(r, "done"),
         \A q \in Requests \ {r} : take'[q] = take[q],
         \A p \in Positions : Quantity(onHand[p])' = Quantity(onHand[p]) + Moved(r, p)'
  PROVE  Ledger!Next
<1>1. TypeOK /\ TypeOK'
  BY DEF StockInv
<1>2. pc' = [pc EXCEPT ![r] = "done"] /\ job' = job
  BY DEF Finish
<1>3. r \notin Posted /\ Posted' = Posted \cup {r}
  BY <1>1, <1>2 DEF TypeOK, Posted
<1>4. \A q \in Requests, p \in Positions : Moved(q, p)' \in Int
  <2>1. \A q \in Requests, p \in Positions : take'[q][p] \in Nat /\ job'[q].quantity[p] \in Nat
    BY <1>1 DEF TypeOK
  <2> QED BY <2>1 DEF Moved, Inward, Outward
<1>5. Movements' \in [Requests -> [Positions -> Int]]
  BY <1>4 DEF Movements
<1>6. \A q \in Requests \ {r} : Movements'[q] = Movements[q]
  <2>1. \A q \in Requests \ {r}, p \in Positions : Moved(q, p)' = Moved(q, p)
    BY <1>2, MovedStays
  <2> QED BY <1>1, <1>2, <2>1 DEF Movements, TypeOK
<1>7. \A p \in Positions : Movements'[r][p] = Moved(r, p)'
  BY <1>1, <1>2 DEF Movements, TypeOK
<1>8. Balance' = [p \in Positions |-> Balance[p] + Movements'[r][p]]
  BY <1>7 DEF Balance
<1>9. \A p \in Positions : Balance'[p] >= 0
  BY <1>1 DEF Balance, TypeOK, Quantity
<1> QED BY <1>3, <1>5, <1>6, <1>8, <1>9
        DEF Ledger!Next, Ledger!Post, Balance, Posted, Movements

LEMMA CommitSalePosts ==
  ASSUME StockInv, StockInv', NEW r \in Requests, CommitSale(r)
  PROVE  Ledger!Next
<1>1. TypeOK /\ HeldOK
  BY DEF StockInv
<1>2. PICK taken \in Allocations(r) :
        /\ take' = [take EXCEPT ![r] = taken]
        /\ onHand' = [p \in Positions |->
             IF taken[p] > 0 THEN Quantity(read[r][p]) - taken[p] ELSE onHand[p]]
  BY DEF CommitSale
<1>3. pc[r] = "open" /\ IsSale(r) /\ Finish(r, "done")
  BY DEF CommitSale, Complete
<1>4. /\ taken \in [Positions -> Nat]
      /\ \A p \in Positions : taken[p] > 0 =>
           Has(r, p) /\ taken[p] <= read[r][p] /\ Quantity(read[r][p]) = read[r][p]
  BY SaleFacts
<1>5. ASSUME NEW p \in Positions
      PROVE  Quantity(onHand[p])' = Quantity(onHand[p]) + Moved(r, p)'
  <2>1. Moved(r, p)' = -taken[p]
    <3>1. job'[r].kind = "sale" /\ take'[r][p] = taken[p] /\ taken[p] \in Nat
      BY <1>1, <1>2, <1>3, <1>4 DEF TypeOK, IsSale, Finish
    <3>2. Moved(r, p)' = -take'[r][p]
      BY <3>1 DEF Moved, Inward
    <3> QED BY <3>1, <3>2
  <2>2. CASE taken[p] > 0
    <3>1. Quantity(onHand[p]) = read[r][p] /\ read[r][p] \in Nat /\ taken[p] <= read[r][p]
      BY <1>1, <1>3, <1>4, <2>2 DEF HeldOK, Has
    <3>2. onHand'[p] = read[r][p] - taken[p] /\ taken[p] \in Nat
      BY <1>2, <1>4, <2>2
    <3>3. Quantity(onHand[p])' = read[r][p] - taken[p]
      BY <3>1, <3>2, StockAssumption DEF Quantity
    <3> QED BY <2>1, <3>1, <3>2, <3>3
  <2>3. CASE ~(taken[p] > 0)
    <3>1. taken[p] = 0 /\ onHand'[p] = onHand[p]
      BY <1>2, <1>4, <2>3
    <3>2. Quantity(onHand[p]) \in Nat /\ Quantity(onHand[p])' = Quantity(onHand[p])
      BY <1>1, <3>1 DEF TypeOK, Quantity
    <3> QED BY <2>1, <3>1, <3>2
  <2> QED BY <2>2, <2>3
<1>6. \A q \in Requests \ {r} : take'[q] = take[q]
  BY <1>1, <1>2 DEF TypeOK
<1> QED BY <1>3, <1>5, <1>6, PostStep

LEMMA CommitLinesPosts ==
  ASSUME StockInv, StockInv', NEW r \in Requests, CommitLines(r)
  PROVE  Ledger!Next
<1>1. TypeOK /\ HeldOK /\ BegunOK
  BY DEF StockInv
<1>2. /\ pc[r] = "open" /\ Complete(r) /\ ~IsSale(r) /\ Finish(r, "done") /\ take' = take
      /\ onHand' = [p \in Positions |->
           IF p \in Ordered(r) THEN Quantity(read[r][p]) + Moved(r, p) ELSE onHand[p]]
  BY DEF CommitLines, Complete
<1>3. ASSUME NEW p \in Positions
      PROVE  Quantity(onHand[p])' = Quantity(onHand[p]) + Moved(r, p)'
  <2>1. Moved(r, p)' = Moved(r, p) /\ Moved(r, p) \in Int
    BY <1>1, <1>2, MovedIsInt, MovedStays DEF Finish
  <2>2. CASE p \in Ordered(r)
    <3>1. /\ Quantity(onHand[p]) = read[r][p] /\ Quantity(read[r][p]) = read[r][p]
          /\ read[r][p] \in Nat /\ read[r][p] + Moved(r, p) \in Nat
      BY <1>1, <1>2, <2>2, LineFacts DEF HeldOK, Has
    <3>2. onHand'[p] = read[r][p] + Moved(r, p)
      BY <1>2, <2>2, <3>1
    <3> QED BY <2>1, <3>1, <3>2, StockAssumption DEF Quantity
  <2>3. CASE p \notin Ordered(r)
    <3>1. job[r].quantity[p] = 0 /\ onHand'[p] = onHand[p]
      BY <1>1, <1>2, <2>3 DEF TypeOK, Ordered
    <3>2. Moved(r, p) = 0
      <4>1. job[r].kind # "sale"
        BY <1>2 DEF IsSale
      <4>2. Moved(r, p) \in {0, job[r].quantity[p], -job[r].quantity[p]}
        BY <4>1 DEF Moved, Inward, Outward
      <4> QED BY <3>1, <4>2
    <3>3. Quantity(onHand[p]) \in Nat /\ Quantity(onHand[p])' = Quantity(onHand[p])
      BY <1>1, <3>1 DEF TypeOK, Quantity
    <3> QED BY <2>1, <3>2, <3>3
  <2> QED BY <2>2, <2>3
<1> QED BY <1>2, <1>3, PostStep

LEMMA StepMaps ==
  ASSUME StockInv, StockInv', [Next]_vars
  PROVE  [Ledger!Next]_ledgerVars
<1>1. TypeOK
  BY DEF StockInv
<1>2. CASE UNCHANGED vars
  BY <1>2, SilentStep DEF vars
<1>3. ASSUME NEW r \in Requests, Begin(r) PROVE UNCHANGED ledgerVars
  <2>1. pc[r] = "idle" /\ \E kind, quantity, origin : Start(r, kind, quantity, origin)
    BY <1>3 DEF Begin, Order, CancelSale, Return
  <2>2. /\ UNCHANGED <<take, onHand>>
        /\ \A q \in Requests : /\ pc'[q] = IF q = r THEN "open" ELSE pc[q]
                               /\ q # r => job'[q] = job[q]
    BY <1>1, <2>1 DEF TypeOK, Start
  <2> QED BY <2>1, <2>2, SilentStep
<1>4. ASSUME NEW r \in Requests, Work(r) PROVE [Ledger!Next]_ledgerVars
  <2>1. CASE ~(CommitSale(r) \/ CommitLines(r) \/ Reject(r) \/ Abort(r))
    BY <1>4, <2>1, StatementFacts, SilentStep
  <2>2. CASE CommitSale(r)
    BY <2>2, CommitSalePosts
  <2>3. CASE CommitLines(r)
    BY <2>3, CommitLinesPosts
  <2>4. CASE Reject(r) \/ Abort(r)
    <3>1. pc[r] = "open" /\ Finish(r, "failed") /\ UNCHANGED <<take, onHand>>
      BY <2>4 DEF Reject, Abort
    <3>2. UNCHANGED job /\ \A q \in Requests : pc'[q] = IF q = r THEN "failed" ELSE pc[q]
      BY <1>1, <3>1 DEF Finish, TypeOK
    <3> QED BY <3>1, <3>2, SilentStep
  <2> QED BY <1>4, <2>1, <2>2, <2>3, <2>4 DEF Work
<1> QED BY <1>2, <1>3, <1>4 DEF Next

\* The balances are the sum of the movements: whatever rows the transactions read
\* and wait for, each commit moves the committed balances by its own movements.
THEOREM StockIsALedger == Spec => LedgerSpec
<1>1. Init => Ledger!Init
  BY InitMaps
<1>2. StockInv /\ StockInv' /\ [Next]_vars => [Ledger!Next]_ledgerVars
  BY StepMaps
<1>3. [][Ledger!Next]_ledgerVars <=> [][Ledger!Next]_<<Balance, Posted, Movements>>
  BY DEF ledgerVars
<1> QED BY <1>1, <1>2, <1>3, StockInvariant, PTL
        DEF Spec, LedgerSpec, Ledger!Spec, ledgerVars, Balance, Posted, Movements

----------------------------------------------------------------------------
(* FIFO.  A sale inserts no rows: what it has read of a position is the    *)
(* balance of a row that is there, and by HeldOK it still is.  Rows never  *)
(* go, so a row that was there when the sale began is there when it lists  *)
(* the batches, and again when it selects the balances (SeenOK).           *)

LookedUp == {"listed", "unlisted"}
Seen(r) ==
  /\ \A p \in job[r].there : onHand[p] \in Nat
  /\ \A p \in Positions : IsSale(r) /\ Has(r, p) => onHand[p] \in Nat
  /\ \A p \in Positions : ByBatch(r, p) =>
       /\ view[r][p] = "selected" => onHand[p] \in Nat /\ read[r][p] # None
       /\ p \in job[r].there => view[r][p] \in {"unseen", "listed", "selected"}
       /\ read[r][p] # Unread => view[r][p] \in {"selected", "skipped"}
       \* The batches of an item are listed together, and selected together.
       /\ \A q \in Candidates(r, p) : /\ view[r][p] = "unseen" <=> view[r][q] = "unseen"
                                      /\ view[r][p] \in LookedUp <=> view[r][q] \in LookedUp
SeenOK == \A r \in Requests : Seen(r)

\* A balance row, once there, stays.
LEMMA RowsStay ==
  ASSUME StockInv, [Next]_vars, NEW p \in Positions, onHand[p] \in Nat
  PROVE  onHand'[p] \in Nat
<1>1. TypeOK
  BY DEF StockInv
<1>2. CASE UNCHANGED onHand
  BY <1>2
<1>3. ASSUME NEW r \in Requests, CommitSale(r) PROVE onHand'[p] \in Nat
  <2>1. PICK taken \in Allocations(r) : onHand' = [o \in Positions |->
             IF taken[o] > 0 THEN Quantity(read[r][o]) - taken[o] ELSE onHand[o]]
    BY <1>3 DEF CommitSale
  <2>2. /\ taken \in [Positions -> Nat]
        /\ taken[p] > 0 => Has(r, p) /\ taken[p] <= read[r][p] /\ Quantity(read[r][p]) = read[r][p]
    BY SaleFacts
  <2> QED BY <2>1, <2>2 DEF Has
<1>4. ASSUME NEW r \in Requests, CommitLines(r) PROVE onHand'[p] \in Nat
  <2>1. /\ Complete(r) /\ ~IsSale(r)
        /\ onHand' = [o \in Positions |->
             IF o \in Ordered(r) THEN Quantity(read[r][o]) + Moved(r, o) ELSE onHand[o]]
    BY <1>4 DEF CommitLines
  <2>2. CASE p \in Ordered(r)
    BY <2>1, <2>2, LineFacts DEF Has
  <2>3. CASE p \notin Ordered(r)
    BY <2>1, <2>3
  <2> QED BY <2>2, <2>3
<1>5. ASSUME NEW r \in Requests, Begin(r) PROVE UNCHANGED onHand
  BY <1>5 DEF Begin, Order, CancelSale, Return, Start
<1>6. ASSUME NEW r \in Requests, Work(r), ~CommitSale(r), ~CommitLines(r) PROVE UNCHANGED onHand
  BY <1>6, StatementFacts DEF Reject, Abort
<1> QED BY <1>2, <1>3, <1>4, <1>5, <1>6 DEF Next, vars

LEMMA SeenInit == Init => SeenOK
<1> SUFFICES ASSUME Init, NEW r \in Requests PROVE Seen(r)
  BY DEF SeenOK
<1>1. /\ job[r].there = {}
      /\ \A p \in Positions : read[r][p] = Unread /\ view[r][p] = "unseen"
  BY DEF Init, NoJob
<1>2. \A p \in Positions : Candidates(r, p) \subseteq Positions
  BY DEF Candidates
<1> QED BY <1>1, <1>2, StockAssumption DEF Seen, Has, LookedUp

\* A request is not concerned by what the others do.
LEMMA SeenFrame ==
  ASSUME NEW r \in Requests, Seen(r), TypeOK,
         job'[r] = job[r], read'[r] = read[r], view'[r] = view[r],
         \A p \in Positions : onHand[p] \in Nat => onHand'[p] \in Nat
  PROVE  Seen(r)'
<1>1. job[r].there \subseteq Positions
  BY DEF TypeOK
<1>2. /\ IsSale(r)' <=> IsSale(r)
      /\ \A p \in Positions : (ByBatch(r, p)' <=> ByBatch(r, p)) /\ (Has(r, p)' <=> Has(r, p))
      /\ \A p \in Positions : Candidates(r, p)' = Candidates(r, p)
  BY DEF IsSale, ByBatch, Has, Candidates
<1> QED BY <1>1, <1>2 DEF Seen

\* The candidates of a position have the same candidates.
LEMMA CandidatesFacts ==
  ASSUME NEW r \in Requests, NEW p \in Positions, NEW q \in Candidates(r, p)
  PROVE  /\ q \in Positions /\ (ByBatch(r, q) <=> ByBatch(r, p))
         /\ Candidates(r, q) = Candidates(r, p)
         /\ p \in Candidates(r, q)
  BY DEF Candidates, ByBatch

LEMMA SeenBegin ==
  ASSUME StockInv, SeenOK, NEW r \in Requests, Begin(r)
  PROVE  SeenOK'
<1>1. TypeOK /\ BegunOK
  BY DEF StockInv
<1>2. pc[r] = "idle" /\ \E kind, quantity, origin : Start(r, kind, quantity, origin)
  BY DEF Begin, Order, CancelSale, Return
<1>3. /\ UNCHANGED <<view, read, onHand>>
      /\ \A q \in Requests : q # r => job'[q] = job[q]
      /\ job'[r].there = {p \in Positions : onHand[p] # None}
  BY <1>1, <1>2 DEF TypeOK, Start
<1>4. Seen(r)'
  <2>1. \A p \in Positions : view'[r][p] = "unseen" /\ read'[r][p] = Unread
    BY <1>1, <1>2, <1>3 DEF BegunOK
  <2>2. \A p \in Positions : ~Has(r, p)'
    BY <2>1, StockAssumption DEF Has
  <2>3. \A p \in job'[r].there : onHand'[p] \in Nat
    BY <1>1, <1>3 DEF TypeOK
  <2>4. \A p \in Positions : Candidates(r, p)' \subseteq Positions
    BY DEF Candidates
  <2> QED BY <2>1, <2>2, <2>3, <2>4, StockAssumption DEF Seen, LookedUp
<1>5. \A q \in Requests \ {r} : Seen(q)'
  BY <1>1, <1>3, SeenFrame DEF SeenOK
<1> QED BY <1>4, <1>5 DEF SeenOK

\* The list holds every batch with a row that was there when the sale began.
LEMMA SeenList ==
  ASSUME StockInv, SeenOK, NEW r \in Requests, NEW p \in Positions, ListBatches(r, p)
  PROVE  Seen(r)'
<1>1. TypeOK /\ Seen(r)
  BY DEF StockInv, SeenOK
<1>2. /\ UNCHANGED <<job, read, onHand>> /\ ByBatch(r, p) /\ view[r][p] = "unseen"
      /\ \A q \in Positions : view'[r][q] =
           IF q \in Candidates(r, p) THEN (IF Exists(q.batch) THEN "listed" ELSE "unlisted")
           ELSE view[r][q]
  BY <1>1 DEF ListBatches, TypeOK
<1>3. /\ \A q \in Positions : (ByBatch(r, q)' <=> ByBatch(r, q)) /\ (Has(r, q)' <=> Has(r, q))
      /\ \A q \in Positions : Candidates(r, q)' = Candidates(r, q)
      /\ IsSale(r)' <=> IsSale(r)
  BY <1>2 DEF IsSale, ByBatch, Has, Candidates
<1>4. job[r].there \subseteq Positions
  BY <1>1 DEF TypeOK
<1>5. ASSUME NEW q \in Candidates(r, p)
      PROVE  /\ q \in Positions /\ ByBatch(r, q) /\ view[r][q] = "unseen" /\ read[r][q] = Unread
             /\ Candidates(r, q) = Candidates(r, p)
  BY <1>1, <1>2, <1>5, CandidatesFacts DEF Seen
<1>6. ASSUME NEW q \in Positions, ByBatch(r, q)
      PROVE  /\ view'[r][q] = "selected" => onHand'[q] \in Nat /\ read'[r][q] # None
             /\ q \in job'[r].there => view'[r][q] \in {"unseen", "listed", "selected"}
             /\ read'[r][q] # Unread => view'[r][q] \in {"selected", "skipped"}
  <2>1. CASE q \in Candidates(r, p)
    <3>1. q \in job[r].there => Exists(q.batch)
      BY <1>1, <1>4, StockAssumption DEF Seen, Exists
    <3> QED BY <1>1, <1>2, <1>5, <1>6, <2>1, <3>1 DEF Seen
  <2>2. CASE q \notin Candidates(r, p)
    BY <1>1, <1>2, <1>6, <2>2 DEF Seen
  <2> QED BY <2>1, <2>2
<1>7. ASSUME NEW q \in Positions, ByBatch(r, q), NEW o \in Candidates(r, q)
      PROVE  /\ view'[r][q] = "unseen" <=> view'[r][o] = "unseen"
             /\ view'[r][q] \in LookedUp <=> view'[r][o] \in LookedUp
  <2>1. o \in Positions /\ (o \in Candidates(r, p) <=> q \in Candidates(r, p))
    BY <1>7, CandidatesFacts
  <2>2. CASE q \in Candidates(r, p)
    BY <1>2, <2>1, <2>2 DEF LookedUp
  <2>3. CASE q \notin Candidates(r, p)
    BY <1>1, <1>2, <1>7, <2>1, <2>3 DEF Seen
  <2> QED BY <2>2, <2>3
<1>8. /\ \A q \in job'[r].there : onHand'[q] \in Nat
      /\ \A q \in Positions : IsSale(r)' /\ Has(r, q)' => onHand'[q] \in Nat
  BY <1>1, <1>2, <1>3 DEF Seen
<1> QED BY <1>3, <1>6, <1>7, <1>8 DEF Seen

\* The statement finds the rows that were there when the sale began.
LEMMA SeenSelect ==
  ASSUME StockInv, SeenOK, NEW r \in Requests, NEW p \in Positions, SelectBalances(r, p)
  PROVE  /\ Seen(r)'
         /\ \A q \in Positions : Has(r, q) => read'[r][q] = read[r][q]
<1>1. TypeOK /\ Seen(r)
  BY DEF StockInv, SeenOK
<1>2. /\ UNCHANGED <<job, onHand>> /\ ByBatch(r, p) /\ view[r][p] \in LookedUp
      /\ \A q \in Positions : view'[r][q] =
           IF q \in Candidates(r, p)
           THEN (IF view[r][q] = "listed" /\ onHand[q] # None THEN "selected" ELSE "skipped")
           ELSE view[r][q]
      /\ \A q \in Positions : read'[r][q] =
           IF q \in Candidates(r, p) /\ onHand[q] = None THEN None ELSE read[r][q]
  BY <1>1 DEF SelectBalances, TypeOK, LookedUp
<1>3. /\ \A q \in Positions : ByBatch(r, q)' <=> ByBatch(r, q)
      /\ \A q \in Positions : Candidates(r, q)' = Candidates(r, q)
      /\ IsSale(r)' <=> IsSale(r)
  BY <1>2 DEF IsSale, ByBatch, Candidates
<1>4. job[r].there \subseteq Positions
  BY <1>1 DEF TypeOK
<1>5. ASSUME NEW q \in Candidates(r, p)
      PROVE  /\ q \in Positions /\ ByBatch(r, q) /\ view[r][q] \in LookedUp /\ read[r][q] = Unread
             /\ Candidates(r, q) = Candidates(r, p)
  <2>1. /\ q \in Positions /\ ByBatch(r, q) /\ view[r][q] \in LookedUp
        /\ Candidates(r, q) = Candidates(r, p)
    BY <1>1, <1>2, <1>5, CandidatesFacts DEF Seen
  <2> QED BY <1>1, <2>1 DEF Seen, LookedUp
<1>6. \A q \in Positions : /\ Has(r, q) => read'[r][q] = read[r][q]
                           /\ Has(r, q)' => Has(r, q)
  BY <1>1, <1>2, <1>5, StockAssumption DEF Has, TypeOK
<1>7. ASSUME NEW q \in Positions, ByBatch(r, q)
      PROVE  /\ view'[r][q] = "selected" => onHand'[q] \in Nat /\ read'[r][q] # None
             /\ q \in job'[r].there => view'[r][q] \in {"unseen", "listed", "selected"}
             /\ read'[r][q] # Unread => view'[r][q] \in {"selected", "skipped"}
  <2>1. CASE q \in Candidates(r, p)
    <3>1. CASE onHand[q] = None
      <4>1. view'[r][q] = "skipped" /\ q \notin job'[r].there
        BY <1>1, <1>2, <2>1, <3>1, StockAssumption DEF Seen
      <4> QED BY <4>1
    <3>2. CASE onHand[q] # None
      <4>1. read'[r][q] = Unread /\ onHand'[q] \in Nat
        BY <1>1, <1>2, <1>5, <2>1, <3>2 DEF TypeOK
      <4>2. view'[r][q] = IF view[r][q] = "listed" THEN "selected" ELSE "skipped"
        BY <1>2, <2>1, <3>2
      <4>3. q \in job[r].there => view[r][q] = "listed"
        BY <1>1, <1>5, <2>1 DEF Seen, LookedUp
      <4> QED BY <1>2, <4>1, <4>2, <4>3, StockAssumption
    <3> QED BY <3>1, <3>2
  <2>2. CASE q \notin Candidates(r, p)
    <3>1. view'[r][q] = view[r][q] /\ read'[r][q] = read[r][q]
      BY <1>2, <2>2
    <3> QED BY <1>1, <1>2, <1>7, <3>1 DEF Seen
  <2> QED BY <2>1, <2>2
<1>8. ASSUME NEW q \in Positions, ByBatch(r, q), NEW o \in Candidates(r, q)
      PROVE  /\ view'[r][q] = "unseen" <=> view'[r][o] = "unseen"
             /\ view'[r][q] \in LookedUp <=> view'[r][o] \in LookedUp
  <2>1. o \in Positions /\ (o \in Candidates(r, p) <=> q \in Candidates(r, p))
    BY <1>8, CandidatesFacts
  <2>2. CASE q \in Candidates(r, p)
    BY <1>2, <2>1, <2>2 DEF LookedUp
  <2>3. CASE q \notin Candidates(r, p)
    BY <1>1, <1>2, <1>8, <2>1, <2>3 DEF Seen
  <2> QED BY <2>2, <2>3
<1>9. /\ \A q \in job'[r].there : onHand'[q] \in Nat
      /\ \A q \in Positions : IsSale(r)' /\ Has(r, q)' => onHand'[q] \in Nat
  BY <1>1, <1>2, <1>3, <1>6 DEF Seen
<1> QED BY <1>3, <1>6, <1>7, <1>8, <1>9 DEF Seen

\* A row is read when its batch has been looked up.
LEMMA SeenRead ==
  ASSUME StockInv, SeenOK, NEW r \in Requests, NEW p \in Positions,
         ReadRow(r, p) \/ ReadNoRow(r, p)
  PROVE  Seen(r)'
<1>1. TypeOK /\ Seen(r)
  BY DEF StockInv, SeenOK
<1>2. /\ UNCHANGED <<job, view, onHand>> /\ Ready(r, p)
      /\ \A q \in Positions : read'[r][q] = IF q = p THEN onHand[p] ELSE read[r][q]
  BY <1>1 DEF ReadRow, ReadNoRow, TypeOK
<1>3. /\ \A q \in Positions : ByBatch(r, q)' <=> ByBatch(r, q)
      /\ \A q \in Positions : Candidates(r, q)' = Candidates(r, q)
      /\ IsSale(r)' <=> IsSale(r)
  BY <1>2 DEF IsSale, ByBatch, Candidates
<1>4. \A q \in Positions : Has(r, q)' => onHand[q] \in Nat \/ Has(r, q)
  BY <1>2 DEF Has
<1>5. ByBatch(r, p) => view[r][p] \in {"selected", "skipped"}
  BY <1>2 DEF Ready
<1>6. \A q \in Positions : ByBatch(r, q) =>
        /\ view[r][q] = "selected" => read'[r][q] # None
        /\ read'[r][q] # Unread => view[r][q] \in {"selected", "skipped"}
  BY <1>1, <1>2, <1>5, StockAssumption DEF Seen
<1> QED BY <1>1, <1>2, <1>3, <1>4, <1>6 DEF Seen

\* A request that is not a sale lists nothing.
LEMMA SeenOther ==
  ASSUME StockInv, SeenOK, NEW r \in Requests, ~IsSale(r), UNCHANGED <<job, onHand>>
  PROVE  Seen(r)'
<1>1. Seen(r) /\ ~IsSale(r)' /\ \A p \in Positions : ~ByBatch(r, p)'
  BY DEF SeenOK, IsSale, ByBatch
<1> QED BY <1>1 DEF Seen

LEMMA SeenStep == StockInv /\ SeenOK /\ [Next]_vars => SeenOK'
<1> SUFFICES ASSUME StockInv, SeenOK, [Next]_vars PROVE SeenOK'
  OBVIOUS
<1>1. TypeOK /\ \A q \in Requests : Seen(q)
  BY DEF StockInv, SeenOK
<1>2. \A p \in Positions : onHand[p] \in Nat => onHand'[p] \in Nat
  BY RowsStay
<1>3. CASE UNCHANGED vars
  BY <1>1, <1>3, SeenFrame DEF vars, SeenOK
<1>4. ASSUME NEW r \in Requests, Begin(r) PROVE SeenOK'
  BY <1>4, SeenBegin
<1>5. ASSUME NEW r \in Requests, job' = job, UNCHANGED <<read, view>> PROVE SeenOK'
  BY <1>1, <1>2, <1>5, SeenFrame DEF SeenOK
<1>6. ASSUME NEW r \in Requests, job' = job, Seen(r)',
             \A q \in Requests \ {r} : read'[q] = read[q] /\ view'[q] = view[q]
      PROVE  SeenOK'
  BY <1>1, <1>2, <1>6, SeenFrame DEF SeenOK
<1>7. ASSUME NEW r \in Requests, NEW p \in Positions,
             ListBatches(r, p) \/ SelectBalances(r, p) \/ MissBatch(r, p) \/ InsertBatch(r, p)
      PROVE  SeenOK'
  <2>1. /\ UNCHANGED <<job, onHand>>
        /\ \A q \in Requests \ {r} : read'[q] = read[q] /\ view'[q] = view[q]
    BY <1>7, LookUpFacts
  <2>2. MissBatch(r, p) \/ InsertBatch(r, p) => ~IsSale(r)
    BY DEF MissBatch, InsertBatch, ToAdd, IsSale, StockInv, BegunOK, Ordered
  <2>3. Seen(r)'
    BY <1>7, <2>1, <2>2, SeenList, SeenSelect, SeenOther
  <2> QED BY <1>6, <2>1, <2>3
<1>8. ASSUME NEW r \in Requests, NEW p \in Positions, ReadRow(r, p) \/ ReadNoRow(r, p)
      PROVE  SeenOK'
  <2>1. /\ UNCHANGED <<job, view>> /\ \A q \in Requests \ {r} : read'[q] = read[q]
    BY <1>1, <1>8 DEF ReadRow, ReadNoRow, TypeOK
  <2> QED BY <1>6, <1>8, <2>1, SeenRead
<1>9. ASSUME NEW r \in Requests, NEW p \in Positions, InsertRow(r, p) PROVE SeenOK'
  <2>1. /\ UNCHANGED <<job, view, onHand>> /\ \A q \in Requests \ {r} : read'[q] = read[q]
        /\ ~IsSale(r)
    BY <1>1, <1>9 DEF InsertRow, ToInsert, IsSale, Inward, TypeOK
  <2> QED BY <1>6, <2>1, SeenOther
<1>10. ASSUME NEW r \in Requests, Work(r) PROVE SeenOK'
  <2>1. ASSUME NEW p \in Positions, LockBatch(r, p) \/ LockSibling(r, p) PROVE SeenOK'
    BY <1>5, <2>1 DEF LockBatch, LockSibling
  <2>2. CASE CommitSale(r) \/ CommitLines(r) \/ Reject(r) \/ Abort(r)
    BY <1>5, <2>2 DEF CommitSale, CommitLines, Reject, Abort, Finish
  <2>3. NextUp(r) \subseteq Positions
    BY NextUpFacts
  <2> QED BY <1>7, <1>8, <1>9, <1>10, <2>1, <2>2, <2>3 DEF Work, Ordered
<1> QED BY <1>3, <1>4, <1>10 DEF Next

\* A sale that takes from a batch takes all of every older one that it selected.
LEMMA OlderTaken ==
  ASSUME StockInv, SeenOK, NEW r \in Requests, CommitSale(r),
         NEW p \in Positions, NEW q \in Positions,
         p.item \in FifoItems, q \in Candidates(r, p), Older(q.batch, p.batch),
         take'[r][p] > 0, q \in job[r].there \/ view[r][q] = "selected"
  PROVE  onHand'[q] = 0
<1>1. PICK taken \in Allocations(r) :
        /\ take' = [take EXCEPT ![r] = taken]
        /\ onHand' = [o \in Positions |->
             IF taken[o] > 0 THEN Quantity(read[r][o]) - taken[o] ELSE onHand[o]]
  BY DEF CommitSale
<1>2. taken[p] > 0
  BY <1>1 DEF StockInv, TypeOK
<1>3. Complete(r) /\ IsSale(r) /\ pc[r] = "open"
  BY DEF CommitSale, Complete
<1>4. p \in Wanted(r)
  BY <1>2 DEF Allocations
<1>5. PICK o \in Ordered(r) : p \in Candidates(r, o)
  BY <1>4 DEF Wanted
<1>6. ByBatch(r, q) /\ q \in Candidates(r, o)
  BY <1>3, <1>5 DEF Candidates, ByBatch
<1>7. q \in Wanted(r)
  BY <1>6 DEF Wanted
<1>8. read[r][q] # Unread
  BY <1>3, <1>7 DEF Complete, ToRead
<1>9. view[r][q] = "selected" /\ Has(r, q) /\ onHand[q] \in Nat
  <2>1. view[r][q] = "selected"
    BY <1>6, <1>8 DEF SeenOK, Seen
  <2>2. read[r][q] # None /\ onHand[q] \in Nat
    BY <1>6, <2>1 DEF SeenOK, Seen
  <2> QED BY <1>8, <2>1, <2>2 DEF Has, StockInv, TypeOK
<1>10. taken[q] = Quantity(read[r][q])
  <2>1. taken[q] = Offered(r, q)
    BY <1>2, <1>4, <1>7 DEF Allocations, OldestFirst
  <2> QED BY <1>9, <2>1 DEF Offered
<1>11. Quantity(read[r][q]) = read[r][q] /\ read[r][q] \in Nat
  BY <1>9, StockAssumption DEF Has, Quantity
<1>12. onHand[q] = read[r][q]
  BY <1>3, <1>9, StockAssumption DEF StockInv, HeldOK, Quantity
<1> QED BY <1>1, <1>10, <1>11, <1>12

\* First in, first out, for any number of sales, batches and warehouses: a sale that
\* takes from a batch leaves nothing in an older batch whose row was there when the
\* sale began, or was listed and selected.
THEOREM SalesAreFifo == Spec => FifoLeavesNoOlder
<1>2. ASSUME StockInv, [Next]_vars, NEW r \in Requests, pc[r] = "open", pc'[r] = "done",
             IsSale(r)
      PROVE  CommitSale(r)
  <2>1. TypeOK
    BY <1>2 DEF StockInv
  <2>2. PICK o \in Requests : Begin(o) \/ Work(o)
    BY <1>2 DEF Next, vars
  <2>3. ~Begin(o)
    BY <1>2, <2>1 DEF Begin, Order, CancelSale, Return, Start, TypeOK
  <2>4. ~(Reject(o) \/ Abort(o))
    BY <1>2, <2>1 DEF Reject, Abort, Finish, TypeOK
  <2>5. CommitSale(o) \/ CommitLines(o)
    BY <1>2, <2>2, <2>3, <2>4, StatementFacts
  <2>6. o = r
    BY <1>2, <2>1, <2>5 DEF CommitSale, CommitLines, Finish, TypeOK
  <2> QED BY <1>2, <2>5, <2>6 DEF CommitLines
<1>3. StockInv /\ SeenOK /\ [Next]_vars =>
        (\A r \in Requests : pc[r] = "open" /\ pc'[r] = "done" /\ IsSale(r) =>
          \A p, q \in Positions :
            (/\ p.item \in FifoItems /\ q \in Candidates(r, p)
             /\ Older(q.batch, p.batch) /\ take'[r][p] > 0
             /\ q \in job[r].there \/ view[r][q] = "selected") => onHand'[q] = 0)
  BY <1>2, OlderTaken
<1> QED BY <1>3, SeenInit, SeenStep, StockInvariant, PTL DEF Spec, FifoLeavesNoOlder

----------------------------------------------------------------------------
(* Deadlock.  A sale or a cancellation waits only for a position after all *)
(* those it holds (RankedOK), so the holder of the last position that is   *)
(* held in a set of them waits for nobody in the set.                      *)

\* Of some positions one comes last.
LEMMA LastPosition ==
  ASSUME NEW D \in SUBSET Positions, D # {}
  PROVE  \E d \in D : \A e \in D : Rank[e] <= Rank[d]
<1>1. PICK n \in Nat : ExistsSurjection(1 .. n, Positions)
  BY FinitePositions, FS_NatSurjection
<1>2. PICK f \in Surjection(1 .. n, Positions) : TRUE
  BY <1>1 DEF ExistsSurjection
<1>3. f \in [1 .. n -> Positions] /\ \A p \in Positions : \E i \in 1 .. n : f[i] = p
  BY <1>2 DEF Surjection
<1> DEFINE g == [i \in 1 .. n |-> Rank[f[i]]]
<1>4. g \in [1 .. n -> Nat]
  BY <1>3, StockAssumption
<1>5. PICK top \in Nat : \A i \in 1 .. n : g[i] <= top
  <2> HIDE DEF g
  <2> QED BY <1>4, NumbersBounded
<1>6. \A p \in Positions : Rank[p] <= top /\ Rank[p] \in Nat
  BY <1>3, <1>5, StockAssumption
<1> DEFINE T == {top - Rank[d] : d \in D}
<1>7. T \subseteq Nat /\ T # {}
  BY <1>6
<1>8. PICK m \in T : \A k \in T : m <= k
  <2> HIDE DEF T
  <2> QED BY <1>7, LeastNumber
<1>9. PICK d \in D : top - Rank[d] = m
  BY <1>8
<1>10. ASSUME NEW e \in D PROVE Rank[e] <= Rank[d]
  <2>1. top - Rank[d] <= top - Rank[e]
    BY <1>8, <1>9
  <2> QED BY <1>6, <2>1
<1> QED BY <1>10

Ranked(r) == job[r].kind \in {"sale", "cancel"}
\* What a sale or cancellation holds it has read or inserted; it goes on with a
\* position after all of those, and inserts a row before it reads the next.
RankedOK(r) == Ranked(r) =>
  /\ siblings[r] = {}
  /\ \A p \in Positions : locked[p] = r => Has(r, p)
  /\ \A p \in Positions, q \in ToRead(r) : Has(r, p) => Rank[p] < Rank[q]
  /\ \A p \in ToInsert(r) :
       /\ \A q \in Positions : Has(r, q) => Rank[q] < Rank[p]
       /\ \A q \in ToRead(r) : Rank[p] < Rank[q]
       /\ \A q \in ToInsert(r) : q = p
OrderOK ==
  /\ \A r \in Requests, p \in Positions : locked[p] = r => pc[r] = "open"
  /\ \A r \in Requests : pc[r] = "idle" => siblings[r] = {}
  /\ \A r \in Requests : RankedOK(r)

LEMMA OrderInit == Init => OrderOK
  BY StockAssumption DEF Init, OrderOK, RankedOK, Ranked, NoJob

\* A request is not concerned by what the others do.
LEMMA RankedFrame ==
  ASSUME NEW r \in Requests, RankedOK(r), job'[r] = job[r], read'[r] = read[r],
         siblings'[r] \in {siblings[r], {}},
         \A p \in Positions : locked'[p] = r => locked[p] = r
  PROVE  RankedOK(r)'
<1>1. ToRead(r)' = ToRead(r) /\ ToInsert(r)' = ToInsert(r)
  BY DEF ToRead, ToInsert, Wanted, Ordered, Candidates, ByBatch, IsSale
<1> QED BY <1>1 DEF RankedOK, Ranked, Has

\* The end of a transaction.
LEMMA OrderFinish ==
  ASSUME StockInv, OrderOK, NEW r \in Requests, NEW outcome \in {"done", "failed"},
         Finish(r, outcome)
  PROVE  OrderOK'
<1>1. /\ UNCHANGED <<job, read>>
      /\ \A p \in Positions : locked'[p] = IF locked[p] = r THEN None ELSE locked[p]
      /\ \A q \in Requests : pc'[q] = IF q = r THEN outcome ELSE pc[q]
      /\ \A q \in Requests : siblings'[q] = IF q = r THEN {} ELSE siblings[q]
  BY DEF Finish, Released, StockInv, TypeOK
<1>2. \A q \in Requests, p \in Positions : locked'[p] = q => q # r /\ locked[p] = q
  BY <1>1, StockAssumption
<1>3. \A q \in Requests : RankedOK(q)'
  BY <1>1, <1>2, RankedFrame DEF OrderOK
<1> QED BY <1>1, <1>2, <1>3 DEF OrderOK

LEMMA OrderBegin ==
  ASSUME StockInv, OrderOK, NEW r \in Requests, Begin(r)
  PROVE  OrderOK'
<1>1. pc[r] = "idle" /\ \E kind, quantity, origin : Start(r, kind, quantity, origin)
  BY DEF Begin, Order, CancelSale, Return
<1>2. /\ UNCHANGED <<read, siblings, locked>>
      /\ \A q \in Requests : /\ pc'[q] = IF q = r THEN "open" ELSE pc[q]
                             /\ q # r => job'[q] = job[q]
  BY <1>1 DEF Start, StockInv, TypeOK
<1>3. \A p \in Positions : read'[r][p] = Unread /\ locked'[p] # r
  BY <1>1, <1>2 DEF StockInv, BegunOK, OrderOK
<1>4. siblings'[r] = {}
  BY <1>1, <1>2 DEF OrderOK
<1>5. RankedOK(r)'
  <2>1. \A p \in Positions : ~Has(r, p)'
    BY <1>3, StockAssumption DEF Has
  <2>2. ToInsert(r)' = {}
    BY <1>3, StockAssumption DEF ToInsert, Ordered
  <2> QED BY <1>3, <1>4, <2>1, <2>2 DEF RankedOK
<1>6. \A q \in Requests \ {r} : RankedOK(q)'
  BY <1>2, RankedFrame DEF OrderOK
<1> QED BY <1>2, <1>3, <1>5, <1>6 DEF OrderOK

\* A sale or cancellation wants positions, inserts what it has found no row for, and
\* inserts and locks no batch.
LEMMA RankedFacts ==
  ASSUME StockInv, NEW r \in Requests
  PROVE  /\ ToRead(r) \subseteq Positions /\ ToInsert(r) \subseteq Positions
         /\ Ranked(r) => ToCost(r) = {} /\ ToAdd(r) = {}
         /\ IsSale(r) => ToInsert(r) = {}
         /\ NextReads(r) \subseteq NextUp(r) /\ NextUp(r) \subseteq ToRead(r)
         /\ Ranked(r) => \A p \in NextUp(r), q \in ToRead(r) : Rank[p] <= Rank[q]
         /\ \A p \in NextUp(r) : pc[r] = "open" /\ ToInsert(r) = {}
<1>1. Ranked(r) => ToAdd(r) = {}
  BY DEF ToAdd, Ranked, StockInv, BegunOK, Ordered
<1> QED BY <1>1 DEF ToRead, ToInsert, ToCost, Wanted, Candidates, Ordered, Ranked, IsSale,
                    Inward, NextReads, NextUp, InOrder, LineOpen

\* Looking batches up reads no row.
LEMMA OrderLook ==
  ASSUME StockInv, SeenOK, OrderOK, NEW r \in Requests, NEW p \in Positions,
         ListBatches(r, p) \/ SelectBalances(r, p) \/ MissBatch(r, p) \/ InsertBatch(r, p)
  PROVE  OrderOK'
<1>1. /\ UNCHANGED <<pc, job, siblings, locked>>
      /\ \A q \in Requests \ {r} : read'[q] = read[q]
      /\ \A q \in Positions : read'[r][q] \in {read[r][q], None}
  BY LookUpFacts
<1>2. \A q \in Requests \ {r} : RankedOK(q)'
  BY <1>1, RankedFrame DEF OrderOK
<1>3. CASE ListBatches(r, p)
  BY <1>1, <1>3, RankedFrame DEF OrderOK, ListBatches
<1>4. CASE SelectBalances(r, p)
  <2>1. IsSale(r) /\ IsSale(r)' /\ RankedOK(r) /\ Ranked(r)
    BY <1>1, <1>4 DEF OrderOK, SelectBalances, ByBatch, IsSale, Ranked
  <2>2. \A q \in Positions : Has(r, q)' <=> Has(r, q)
    <3>1. \A q \in Positions : Has(r, q) => read'[r][q] = read[r][q]
      BY <1>4, SeenSelect
    <3> QED BY <1>1, <3>1, StockAssumption DEF Has
  <2>3. Wanted(r)' = Wanted(r) /\ Wanted(r) \subseteq Positions
    BY <1>1 DEF Wanted, Candidates, ByBatch, Ordered, IsSale
  <2>4. ToRead(r)' \subseteq ToRead(r)
    BY <1>1, <2>3, StockAssumption DEF ToRead
  <2>5. ToInsert(r)' = {}
    BY <2>1 DEF ToInsert, IsSale, Inward
  <2>6. RankedOK(r)'
    BY <1>1, <2>1, <2>2, <2>4, <2>5 DEF RankedOK
  <2> QED BY <1>1, <1>2, <2>6 DEF OrderOK
<1>5. CASE MissBatch(r, p) \/ InsertBatch(r, p)
  <2>1. ~Ranked(r)
    BY <1>5, RankedFacts DEF MissBatch, InsertBatch, Ranked
  <2> QED BY <1>1, <1>2, <2>1 DEF OrderOK, RankedOK, Ranked
<1> QED BY <1>3, <1>4, <1>5

\* The next position a sale or cancellation reads comes after all it has read.
LEMMA OrderRead ==
  ASSUME StockInv, OrderOK, NEW r \in Requests, NEW p \in NextUp(r),
         ReadRow(r, p) \/ ReadNoRow(r, p)
  PROVE  OrderOK'
<1>1. TypeOK
  BY DEF StockInv
<1>2. /\ UNCHANGED <<pc, job, siblings>> /\ pc[r] = "open" /\ ToInsert(r) = {}
      /\ p \in ToRead(r) /\ p \in Positions
  BY RankedFacts DEF ReadRow, ReadNoRow
<1> DEFINE Reads == /\ \A q \in Requests \ {r} : read'[q] = read[q]
                    /\ \A o \in Positions \ {p} : /\ locked'[o] = locked[o]
                                                  /\ read'[r][o] = read[r][o]
                    /\ read'[r][p] # Unread
                    /\ locked'[p] # locked[p] => locked'[p] = r
                    /\ locked'[p] = r => Has(r, p)' \/ locked[p] = r
<1>3. Reads
  <2>1. CASE ReadRow(r, p)
    <3>1. onHand[p] \in Nat /\ locked' = [locked EXCEPT ![p] = r]
      BY <1>1, <1>2, <2>1 DEF ReadRow, RowLock, TypeOK
    <3>2. /\ \A q \in Requests \ {r} : read'[q] = read[q]
          /\ \A o \in Positions \ {p} : read'[r][o] = read[r][o]
          /\ read'[r][p] = onHand[p]
      BY <1>1, <1>2, <2>1 DEF ReadRow, TypeOK
    <3> QED BY <1>1, <1>2, <3>1, <3>2, StockAssumption DEF Has, TypeOK
  <2>2. CASE ReadNoRow(r, p)
    BY <1>1, <1>2, <2>2, StockAssumption DEF ReadNoRow, TypeOK
  <2> QED BY <2>1, <2>2
<1>4. \A q \in Requests \ {r} : RankedOK(q)'
  BY <1>2, <1>3, RankedFrame DEF OrderOK
<1>5. ASSUME Ranked(r) PROVE RankedOK(r)'
  <2>1. RankedOK(r) /\ \A q \in ToRead(r) : Rank[p] <= Rank[q]
    BY <1>2, <1>5, RankedFacts DEF OrderOK
  <2>2. \A o \in Positions : Has(r, o)' => o = p \/ Has(r, o)
    BY <1>3, StockAssumption DEF Has
  <2>3. ToRead(r)' \subseteq ToRead(r) \ {p}
    <3>1. Wanted(r)' = Wanted(r)
      BY <1>2 DEF Wanted, Candidates, ByBatch, Ordered, IsSale
    <3>2. \A o \in Positions : read'[r][o] = Unread => o # p /\ read[r][o] = Unread
      BY <1>3, StockAssumption
    <3>3. ToRead(r)' = {o \in Wanted(r) : read'[r][o] = Unread}
      BY <3>1 DEF ToRead
    <3>4. Wanted(r) \subseteq Positions
      BY DEF Wanted, Candidates, Ordered
    <3> QED BY <3>2, <3>3, <3>4 DEF ToRead
  <2>4. \A q \in ToRead(r) \ {p} : Rank[p] < Rank[q]
    BY <2>1, RankedFacts, StockAssumption
  <2>5. siblings'[r] = {} /\ \A o \in Positions : locked'[o] = r => Has(r, o)'
    <3>1. ASSUME NEW o \in Positions, locked'[o] = r PROVE Has(r, o)'
      <4>1. CASE o = p /\ ~Has(r, p)'
        <5>1. Has(r, p)
          BY <1>3, <1>5, <2>1, <3>1, <4>1 DEF RankedOK
        <5> QED BY <1>2, <5>1, StockAssumption DEF ToRead, Has
      <4>2. CASE o # p
        <5>1. Has(r, o)
          BY <1>3, <1>5, <2>1, <3>1, <4>2 DEF RankedOK
        <5> QED BY <1>3, <4>2, <5>1 DEF Has
      <4> QED BY <3>1, <4>1, <4>2
    <3> QED BY <1>2, <1>5, <2>1, <3>1 DEF RankedOK
  <2>6. \A o \in Positions, q \in ToRead(r)' : Has(r, o)' => Rank[o] < Rank[q]
    BY <1>5, <2>1, <2>2, <2>3, <2>4 DEF RankedOK
  <2>7. ToInsert(r)' \subseteq {p}
    BY <1>2, <1>3 DEF ToInsert, Ordered
  <2>8. ASSUME p \in ToInsert(r)'
        PROVE  \A q \in Positions : Has(r, q)' => Rank[q] < Rank[p]
    <3>1. ~Has(r, p)'
      BY <2>8, StockAssumption DEF ToInsert, Has
    <3> QED BY <1>2, <1>5, <2>1, <2>2, <3>1 DEF RankedOK
  <2> QED BY <2>3, <2>4, <2>5, <2>6, <2>7, <2>8 DEF RankedOK
<1>6. Ranked(r)' <=> Ranked(r)
  BY <1>2 DEF Ranked
<1>7. RankedOK(r)'
  BY <1>5, <1>6 DEF RankedOK
<1>8. \A q \in Requests, o \in Positions : locked'[o] = q => pc'[q] = "open"
  BY <1>2, <1>3 DEF OrderOK
<1> QED BY <1>2, <1>4, <1>7, <1>8 DEF OrderOK

\* An inserted row comes after all that has been read, and before what is next.
LEMMA OrderInsert ==
  ASSUME StockInv, OrderOK, NEW r \in Requests, NEW p \in Positions, InsertRow(r, p)
  PROVE  OrderOK'
<1>1. TypeOK
  BY DEF StockInv
<1>2. /\ UNCHANGED <<pc, job, siblings>> /\ pc[r] = "open" /\ p \in ToInsert(r)
      /\ \A o \in Positions : locked'[o] = IF o = p THEN r ELSE locked[o]
      /\ \A q \in Requests, o \in Positions :
           read'[q][o] = IF q = r /\ o = p THEN 0 ELSE read[q][o]
      /\ \A q \in Requests \ {r} : read'[q] = read[q]
  BY <1>1 DEF InsertRow, TypeOK
<1>3. \A q \in Requests \ {r} : RankedOK(q)'
  BY <1>2, RankedFrame DEF OrderOK
<1>4. RankedOK(r)'
  <2> SUFFICES ASSUME Ranked(r) PROVE RankedOK(r)'
    BY <1>2 DEF RankedOK, Ranked
  <2>1. RankedOK(r)
    BY DEF OrderOK
  <2>2. Wanted(r)' = Wanted(r) /\ Wanted(r) \subseteq Positions
    BY <1>2 DEF Wanted, Candidates, ByBatch, Ordered, IsSale
  <2>3. ToRead(r)' \subseteq ToRead(r)
    BY <1>2, <2>2, StockAssumption DEF ToRead
  <2>4. ToInsert(r)' = {}
    <3>1. ToInsert(r) = {p}
      BY <1>2, <2>1 DEF RankedOK
    <3>2. \A o \in ToInsert(r)' : o \in ToInsert(r) /\ o # p
      BY <1>2, StockAssumption DEF ToInsert, Ordered
    <3> QED BY <3>1, <3>2
  <2>5. \A o \in Positions : Has(r, o)' <=> Has(r, o) \/ o = p
    BY <1>2 DEF Has
  <2> QED BY <1>2, <2>1, <2>3, <2>4, <2>5 DEF RankedOK
<1>5. \A q \in Requests, o \in Positions : locked'[o] = q => pc'[q] = "open"
  BY <1>2 DEF OrderOK
<1> QED BY <1>2, <1>3, <1>4, <1>5 DEF OrderOK

LEMMA OrderCost ==
  ASSUME StockInv, OrderOK, NEW r \in Requests, NEW p \in Positions,
         LockBatch(r, p) \/ LockSibling(r, p)
  PROVE  OrderOK'
<1>1. TypeOK
  BY DEF StockInv
<1>2. /\ ~Ranked(r) /\ pc[r] = "open" /\ UNCHANGED <<pc, job, read>>
  <2>1. LockBatch(r, p) => ~Ranked(r)
    BY DEF LockBatch, ToCost, Ranked
  <2>2. LockSibling(r, p) => ~Ranked(r)
    BY DEF LockSibling, OrderOK, RankedOK
  <2> QED BY <2>1, <2>2 DEF LockBatch, LockSibling
<1>3. /\ \A q \in Requests \ {r} : siblings'[q] = siblings[q]
      /\ \A o \in Positions : locked'[o] \in {locked[o], r}
  BY <1>1 DEF LockBatch, LockSibling, TypeOK
<1>4. \A q \in Requests \ {r} : RankedOK(q)'
  BY <1>2, <1>3, RankedFrame DEF OrderOK
<1>5. RankedOK(r)'
  BY <1>2 DEF RankedOK, Ranked
<1> QED BY <1>2, <1>3, <1>4, <1>5 DEF OrderOK

LEMMA OrderNext == StockInv /\ SeenOK /\ OrderOK /\ [Next]_vars => OrderOK'
<1> SUFFICES ASSUME StockInv, SeenOK, OrderOK, [Next]_vars PROVE OrderOK'
  OBVIOUS
<1>1. CASE UNCHANGED vars
  <2>1. \A q \in Requests : RankedOK(q)'
    BY <1>1, RankedFrame DEF OrderOK, vars
  <2> QED BY <1>1, <2>1 DEF OrderOK, vars
<1>2. ASSUME NEW r \in Requests, Begin(r) PROVE OrderOK'
  BY <1>2, OrderBegin
<1>3. ASSUME NEW r \in Requests, Work(r) PROVE OrderOK'
  <2>1. ASSUME NEW p \in Positions,
               \/ ListBatches(r, p) \/ SelectBalances(r, p) \/ MissBatch(r, p)
               \/ InsertBatch(r, p) \/ LockBatch(r, p) \/ LockSibling(r, p) \/ InsertRow(r, p)
        PROVE  OrderOK'
    BY <2>1, OrderLook, OrderCost, OrderInsert
  <2>3. ASSUME NEW p \in NextUp(r), ReadRow(r, p) \/ ReadNoRow(r, p) PROVE OrderOK'
    BY <2>3, OrderRead
  <2>4. NextUp(r) \subseteq Positions
    BY NextUpFacts
  <2>2. CASE CommitSale(r) \/ CommitLines(r) \/ Reject(r) \/ Abort(r)
    BY <2>2, OrderFinish DEF CommitSale, CommitLines, Reject, Abort
  <2> QED BY <1>3, <2>1, <2>2, <2>3, <2>4 DEF Work, Ordered
<1> QED BY <1>1, <1>2, <1>3 DEF Next

\* Who waits in a set of sales and cancellations waits for a position after those it
\* holds.
LEMMA WaitsAfter ==
  ASSUME StockInv, OrderOK, NEW set \in SUBSET Requests,
         \A q \in set : Ranked(q), Deadlocked(set), NEW r \in set
  PROVE  \E p \in Positions :
           locked[p] \in set /\ \A q \in Positions : locked[q] = r => Rank[q] < Rank[p]
<1>1. /\ pc[r] = "open" /\ Awaits(r) # {} /\ Awaits(r) \subseteq set
      /\ Ranked(r) /\ RankedOK(r) /\ r \in Requests
  BY DEF Deadlocked, OrderOK
<1>2. None \notin set
  BY StockAssumption
<1>3. siblings[r] = {} /\ ToCost(r) = {} /\ ToAdd(r) = {}
  BY <1>1, RankedFacts DEF RankedOK
<1> DEFINE holder(p) == IF onHand[p] = None \/ locked[p] = r THEN None ELSE locked[p]
           inserter(p) == IF onHand[p] # None THEN None ELSE locked[p]
<1>4. Awaits(r) = {holder(p) : p \in NextReads(r)} \cup {inserter(p) : p \in ToInsert(r)}
  BY <1>3 DEF Awaits
<1>5. CASE NextReads(r) # {}
  <2>1. PICK p \in NextReads(r) : TRUE
    BY <1>5
  <2>2. p \in ToRead(r) /\ p \in Positions
    BY <2>1, RankedFacts
  <2>3. holder(p) \in set
    BY <1>1, <1>4, <2>1
  <2>4. locked[p] \in set
    BY <1>2, <2>3
  <2>5. \A q \in Positions : locked[q] = r => Rank[q] < Rank[p]
    BY <1>1, <2>2 DEF RankedOK
  <2> QED BY <2>2, <2>4, <2>5
<1>6. CASE NextReads(r) = {}
  <2>1. PICK p \in ToInsert(r) : TRUE
    BY <1>1, <1>4, <1>6
  <2>2. p \in Positions
    BY RankedFacts
  <2>3. inserter(p) \in set
    BY <1>1, <1>4, <2>1
  <2>4. locked[p] \in set
    BY <1>2, <2>3
  <2>5. \A q \in Positions : locked[q] = r => Rank[q] < Rank[p]
    BY <1>1, <2>1 DEF RankedOK
  <2> QED BY <2>2, <2>4, <2>5
<1> QED BY <1>5, <1>6

\* Sales and cancellations, in any number and over any batches and warehouses, are
\* never in a cycle of waits of their own.
THEOREM SalesAreOrdered == Spec => []SalesNeverDeadlock
<1>1. ASSUME StockInv, OrderOK, NEW set \in SUBSET {r \in Requests : Ranked(r)},
             Deadlocked(set)
      PROVE  FALSE
  <2> DEFINE D == {p \in Positions : locked[p] \in set}
  <2>1. D \in SUBSET Positions /\ D # {}
    <3>1. PICK r \in set : TRUE
      BY <1>1 DEF Deadlocked
    <3> QED BY <1>1, <3>1, WaitsAfter
  <2>2. PICK m \in D : \A e \in D : Rank[e] <= Rank[m]
    BY <2>1, LastPosition
  <2>3. PICK p \in Positions :
          locked[p] \in set /\ \A q \in Positions : locked[q] = locked[m] => Rank[q] < Rank[p]
    BY <1>1, <2>2, WaitsAfter
  <2>4. Rank[p] <= Rank[m] /\ Rank[m] < Rank[p]
    BY <2>2, <2>3
  <2> QED BY <2>4, <2>2, <2>3, StockAssumption
<1>2. StockInv /\ OrderOK => SalesNeverDeadlock
  BY <1>1 DEF SalesNeverDeadlock, Ranked
<1> QED BY <1>2, OrderInit, OrderNext, SeenInit, SeenStep, StockInvariant, PTL DEF Spec
----------------------------------------------------------------------------
(* Cancellations and returns of a document.  Who is open about a sale or   *)
(* purchase is alone (it holds the document's row), and what it is to      *)
(* bring back fits what those before it have left; the check it made when  *)
(* it began is still true when it commits, for nobody else can commit for  *)
(* the document in between.                                                *)

Backs(r) == pc[r] \in {"open", "done"} /\ job[r].of # None
BackOK ==
  /\ IsFiniteSet(Posted)
  /\ \A r \in Requests : Backs(r) => job[r].of \in Done({"sale", "purchase"})
  /\ \A q, r \in Requests :
       pc[q] = "open" /\ pc[r] = "open" /\ Backs(r) /\ job[q].of = job[r].of => q = r
  /\ \A r \in Requests, p \in Positions : pc[r] = "open" /\ Backs(r) =>
       BroughtBack(job[r].of, p) + job[r].quantity[p] <= MovedBy(job[r].of, p)
  /\ BroughtBackWithinMoved

LEMMA BackInit == Init => BackOK
<1> SUFFICES ASSUME Init PROVE BackOK
  OBVIOUS
<1>1. Posted = {} /\ Done({"sale", "purchase"}) = {}
  BY DEF Init, Posted, Done
<1>2. \A r \in Requests : pc[r] = "idle"
  BY DEF Init
<1> QED BY <1>1, <1>2, FS_EmptySet DEF BackOK, Backs, BroughtBackWithinMoved

\* What was brought back is a number, and reads nothing but the committed requests
\* about the document.
LEMMA BroughtBackFacts ==
  ASSUME TypeOK, IsFiniteSet(Posted), NEW origin, NEW p \in Positions
  PROVE  /\ IsFiniteSet(About(origin))
         /\ About(origin) \subseteq Requests
         /\ \A q \in Requests : job[q].quantity[p] \in Nat
         /\ BroughtBack(origin, p) \in Nat
<1>1. IsFiniteSet(About(origin)) /\ About(origin) \subseteq Requests
  BY FS_Subset DEF About, Posted
<1> DEFINE f == [q \in Requests |-> job[q].quantity[p]]
<1>2. \A q \in Requests : job[q].quantity[p] \in Nat
  BY DEF TypeOK
<1>3. \A q \in About(origin) : f[q] \in Nat
  BY <1>1, <1>2
<1> HIDE DEF f
<1>4. SumFunctionOnSet(f, About(origin)) \in Nat
  BY <1>1, <1>3, SumNat
<1> QED BY <1>1, <1>2, <1>4 DEF BroughtBack, f

LEMMA MovedByFacts ==
  ASSUME TypeOK, NEW origin \in Requests, NEW p \in Positions
  PROVE  MovedBy(origin, p) \in Nat
  BY DEF TypeOK, MovedBy

\* It stays as it is when nobody commits for the document,
LEMMA BroughtBackKept ==
  ASSUME TypeOK, IsFiniteSet(Posted), NEW origin, NEW p \in Positions,
         About(origin)' = About(origin), \A q \in About(origin) : job'[q] = job[q]
  PROVE  BroughtBack(origin, p)' = BroughtBack(origin, p)
<1> DEFINE f == [q \in Requests |-> job[q].quantity[p]]
           g == [q \in Requests |-> job'[q].quantity[p]]
<1>1. IsFiniteSet(About(origin)) /\ \A q \in About(origin) : q \in Requests /\ job[q].quantity[p] \in Int
  <2>1. /\ IsFiniteSet(About(origin)) /\ About(origin) \subseteq Requests
        /\ \A q \in Requests : job[q].quantity[p] \in Nat
    BY BroughtBackFacts
  <2> QED BY <2>1
<1>2. \A q \in About(origin) : f[q] = g[q] /\ f[q] \in Int
  BY <1>1
<1> HIDE DEF f, g
<1>3. SumFunctionOnSet(f, About(origin)) = SumFunctionOnSet(g, About(origin))
  BY <1>1, <1>2, SumSame
<1> QED BY <1>3 DEF BroughtBack, f, g

\* and grows by what a request that commits for it brings back.
LEMMA BroughtBackGrows ==
  ASSUME TypeOK, IsFiniteSet(Posted), NEW origin, NEW p \in Positions,
         NEW r \in Requests, r \notin About(origin), About(origin)' = About(origin) \cup {r}, job' = job
  PROVE  BroughtBack(origin, p)' = BroughtBack(origin, p) + job[r].quantity[p]
<1> DEFINE f == [q \in Requests |-> job[q].quantity[p]]
<1>1. /\ IsFiniteSet(About(origin)) /\ \A q \in About(origin) \cup {r} : f[q] \in Int
      /\ f[r] = job[r].quantity[p]
  <2>1. /\ IsFiniteSet(About(origin)) /\ About(origin) \subseteq Requests
        /\ \A q \in Requests : job[q].quantity[p] \in Nat
    BY BroughtBackFacts
  <2>2. \A q \in Requests : f[q] = job[q].quantity[p]
    OBVIOUS
  <2> HIDE DEF f
  <2> QED BY <2>1, <2>2
<1> HIDE DEF f
<1>2. /\ SumFunctionOnSet(f, About(origin) \cup {r}) = f[r] + SumFunctionOnSet(f, About(origin))
      /\ SumFunctionOnSet(f, About(origin)) \in Int
  BY <1>1, SumAdd, SumInt
<1>3. BroughtBack(origin, p) = SumFunctionOnSet(f, About(origin))
  BY DEF BroughtBack, f
<1>4. BroughtBack(origin, p)' = SumFunctionOnSet(f, About(origin) \cup {r})
  BY DEF BroughtBack, f
<1>5. f[r] \in Int
  BY <1>1
<1> QED BY <1>1, <1>2, <1>3, <1>4, <1>5

\* A step that neither begins nor ends a request, or ends one without a commit.
LEMMA BackSilent ==
  ASSUME StockInv, BackOK, UNCHANGED <<job, take>>,
         \A q \in Requests : \/ pc'[q] = pc[q]
                             \/ pc[q] = "open" /\ pc'[q] = "failed"
  PROVE  BackOK'
<1>1. TypeOK
  BY DEF StockInv
<1>2. /\ Posted' = Posted
      /\ \A origin : About(origin)' = About(origin)
      /\ \A kinds : Done(kinds)' = Done(kinds)
      /\ \A q \in Requests : Backs(q)' => Backs(q) /\ pc'[q] = pc[q]
  BY DEF Posted, About, Done, Backs
<1>3. \A origin : \A p \in Positions : MovedBy(origin, p)' = MovedBy(origin, p)
  BY DEF MovedBy, IsSale
<1>4. IsFiniteSet(Posted)
  BY DEF BackOK
<1>5. \A origin : \A p \in Positions : BroughtBack(origin, p)' = BroughtBack(origin, p)
  BY <1>1, <1>2, <1>4, BroughtBackKept
<1>6. BroughtBackWithinMoved'
  BY <1>2, <1>3, <1>5 DEF BackOK, BroughtBackWithinMoved
<1> QED BY <1>2, <1>3, <1>5, <1>6 DEF BackOK

\* BEGIN of a request about a document nobody else is open about, for no more than
\* is left of it.
LEMMA BackStart ==
  ASSUME StockInv, StockInv', BackOK, NEW r \in Requests, pc[r] = "idle", NEW kind, NEW quantity,
         NEW origin, Start(r, kind, quantity, origin),
         origin # None => /\ origin \in Done({"sale", "purchase"}) /\ ~DocumentLocked(origin)
                       /\ \A p \in Positions : BroughtBack(origin, p) + quantity[p] <= MovedBy(origin, p)
  PROVE  BackOK'
<1>1. TypeOK /\ TypeOK'
  BY DEF StockInv
<1>2. /\ \A q \in Requests : pc'[q] = IF q = r THEN "open" ELSE pc[q]
      /\ \A q \in Requests \ {r} : job'[q] = job[q]
      /\ job'[r].of = origin /\ job'[r].quantity = quantity
      /\ take' = take
  BY <1>1 DEF TypeOK, Start
<1>3. /\ Posted' = Posted
      /\ \A d : About(d)' = About(d)
      /\ \A d : r \notin About(d)
      /\ \A kinds : Done(kinds)' = Done(kinds)
      /\ r \notin Done({"sale", "purchase"})
  BY <1>2 DEF Posted, About, Done
<1>4. \A d \in Done({"sale", "purchase"}), p \in Positions : MovedBy(d, p)' = MovedBy(d, p)
  BY <1>2, <1>3 DEF MovedBy, IsSale, Done
<1>5. \A d : \A p \in Positions : BroughtBack(d, p)' = BroughtBack(d, p)
  <2> SUFFICES ASSUME NEW d, NEW p \in Positions PROVE BroughtBack(d, p)' = BroughtBack(d, p)
    OBVIOUS
  <2>1. IsFiniteSet(Posted) /\ \A q \in About(d) : job'[q] = job[q]
    BY <1>2, <1>3 DEF BackOK, About
  <2> QED BY <1>1, <1>3, <2>1, BroughtBackKept
<1>6. \A q \in Requests : Backs(q)' => job'[q].of \in Done({"sale", "purchase"})
  BY <1>2 DEF Backs, BackOK
<1>7. \A q, s \in Requests :
        pc'[q] = "open" /\ pc'[s] = "open" /\ Backs(s)' /\ job'[q].of = job'[s].of => q = s
  BY <1>2 DEF Backs, BackOK, DocumentLocked
<1>8. \A q \in Requests, p \in Positions : pc'[q] = "open" /\ Backs(q)' =>
        BroughtBack(job'[q].of, p) + job'[q].quantity[p] <= MovedBy(job'[q].of, p)
  BY <1>2 DEF Backs, BackOK
<1>9. \A q \in Requests, p \in Positions : pc'[q] = "open" /\ Backs(q)' =>
        (BroughtBack(job[q].of, p) + job[q].quantity[p] <= MovedBy(job[q].of, p))'
  BY <1>4, <1>5, <1>6, <1>8
<1>10. BroughtBackWithinMoved'
  BY <1>3, <1>4, <1>5 DEF BackOK, BroughtBackWithinMoved
<1> QED BY <1>3, <1>6, <1>7, <1>9, <1>10 DEF BackOK

LEMMA BackBegin ==
  ASSUME StockInv, StockInv', BackOK, NEW r \in Requests, Begin(r)
  PROVE  BackOK'
<1>1. pc[r] = "idle" /\ TypeOK /\ IsFiniteSet(Posted)
  BY DEF Begin, StockInv, BackOK
<1>2. ASSUME NEW kind \in Kinds, NEW quantity \in Orders, Order(r, kind, quantity)
      PROVE  BackOK'
  BY <1>1, <1>2, BackStart DEF Order
<1>3. ASSUME NEW origin \in Done({"sale"}), CancelSale(r, origin) PROVE BackOK'
  <2>1. origin \in Requests /\ origin \in Done({"sale", "purchase"}) /\ ~DocumentLocked(origin) /\ IsSale(origin)
    BY <1>3 DEF Done, CancelSale, IsSale
  <2>2. ASSUME NEW p \in Positions PROVE BroughtBack(origin, p) + take[origin][p] <= MovedBy(origin, p)
    <3>1. BroughtBack(origin, p) = 0
      BY <1>3, SumEmpty DEF CancelSale, BroughtBack
    <3>2. take[origin][p] \in Nat /\ MovedBy(origin, p) = take[origin][p]
      BY <1>1, <2>1 DEF TypeOK, MovedBy
    <3> QED BY <3>1, <3>2
  <2> QED BY <1>1, <1>3, <2>1, <2>2, BackStart DEF CancelSale
<1>4. ASSUME NEW origin \in Done({"sale", "purchase"}), NEW kind \in Kinds,
             NEW quantity \in Orders, Return(r, kind, quantity, origin)
      PROVE  BackOK'
  <2>1. origin \in Requests /\ ~DocumentLocked(origin)
    BY <1>4 DEF Done, Return
  <2>2. ASSUME NEW p \in Positions PROVE BroughtBack(origin, p) + quantity[p] <= MovedBy(origin, p)
    <3>1. BroughtBack(origin, p) \in Nat /\ MovedBy(origin, p) \in Nat
      BY <1>1, <2>1, BroughtBackFacts, MovedByFacts
    <3>2. quantity[p] \in Nat /\ quantity[p] <= MovedBy(origin, p) - BroughtBack(origin, p)
      BY <1>4, StockAssumption DEF Return
    <3> QED BY <3>1, <3>2
  <2> QED BY <1>1, <1>4, <2>1, <2>2, BackStart DEF Return
<1> QED BY <1>2, <1>3, <1>4 DEF Begin

\* A commit: of a document nothing has been brought back, and what is brought back
\* of one has been checked.
LEMMA BackCommit ==
  ASSUME StockInv, StockInv', BackOK, NEW r \in Requests, pc[r] = "open", Finish(r, "done"),
         \A q \in Requests \ {r} : take'[q] = take[q]
  PROVE  BackOK'
<1>1. TypeOK /\ TypeOK' /\ IsFiniteSet(Posted)
  BY DEF StockInv, BackOK
<1>2. job' = job /\ \A q \in Requests : pc'[q] = IF q = r THEN "done" ELSE pc[q]
  BY <1>1 DEF Finish, TypeOK
<1> DEFINE Docs == Done({"sale", "purchase"})
<1>3. /\ r \notin Docs /\ Docs \subseteq Docs' /\ Docs' \subseteq Docs \cup {r}
      /\ Docs \subseteq Requests
  BY <1>2 DEF Done
<1>4. /\ Posted' = Posted \cup {r}
      /\ \A d : About(d)' = IF job[r].of = d THEN About(d) \cup {r} ELSE About(d)
      /\ \A d : r \notin About(d)
      /\ \A q \in Requests : Backs(q)' => Backs(q)
  BY <1>2 DEF Posted, About, Backs
<1>5. IsFiniteSet(Posted')
  BY <1>1, <1>4, FS_AddElement
<1>6. \A d \in Docs, p \in Positions : MovedBy(d, p)' = MovedBy(d, p)
  BY <1>2, <1>3 DEF MovedBy, IsSale
<1>7. \A d : \A p \in Positions : job[r].of # d => BroughtBack(d, p)' = BroughtBack(d, p)
  BY <1>1, <1>2, <1>4, BroughtBackKept
<1>8. \A q \in Requests : Backs(q)' => job'[q].of \in Docs'
  BY <1>2, <1>3, <1>4 DEF BackOK
<1>9. \A q, s \in Requests :
        pc'[q] = "open" /\ pc'[s] = "open" /\ Backs(s)' /\ job'[q].of = job'[s].of => q = s
  BY <1>2, <1>4 DEF BackOK
<1>10. ASSUME NEW q \in Requests, NEW p \in Positions, pc'[q] = "open", Backs(q)'
       PROVE  (BroughtBack(job[q].of, p) + job[q].quantity[p] <= MovedBy(job[q].of, p))'
  <2>1. pc[q] = "open" /\ q # r /\ Backs(q)
    BY <1>2, <1>4, <1>10
  <2>2. /\ job[r].of # job[q].of /\ job[q].of \in Docs
        /\ BroughtBack(job[q].of, p) + job[q].quantity[p] <= MovedBy(job[q].of, p)
    BY <2>1 DEF BackOK
  <2>3. BroughtBack(job[q].of, p)' = BroughtBack(job[q].of, p)
    BY <1>2, <1>7, <2>2
  <2>4. MovedBy(job[q].of, p)' = MovedBy(job[q].of, p)
    BY <1>2, <1>6, <2>2
  <2> QED BY <1>2, <2>2, <2>3, <2>4
<1>11. ASSUME NEW d \in Docs', NEW p \in Positions
       PROVE  (BroughtBack(d, p) <= MovedBy(d, p))'
  <2>1. CASE d = r
    <3>1. \A q \in Requests : Backs(q) => job[q].of # r
      BY <1>3 DEF BackOK
    <3>2. About(r) = {} /\ job[r].of # r
      BY <3>1, StockAssumption DEF About, Backs
    <3>3. About(r)' = {}
      BY <1>4, <3>2
    <3>4. BroughtBack(r, p)' = 0
      BY <3>3, SumEmpty DEF BroughtBack
    <3>5. MovedBy(r, p)' \in Nat
      BY <1>1, MovedByFacts, <1>2 DEF TypeOK, MovedBy
    <3> QED BY <2>1, <3>4, <3>5
  <2>2. CASE d # r /\ job[r].of = d
    <3>1. d \in Docs
      BY <1>3, <2>2
    <3>2. BroughtBack(d, p)' = BroughtBack(d, p) + job[r].quantity[p]
      BY <1>1, <1>2, <1>4, <2>2, BroughtBackGrows
    <3>3. BroughtBack(d, p) + job[r].quantity[p] <= MovedBy(d, p)
      BY <2>2, <3>1, <1>3, StockAssumption DEF BackOK, Backs
    <3> QED BY <1>6, <3>1, <3>2, <3>3
  <2>3. CASE d # r /\ job[r].of # d
    <3>1. d \in Docs
      BY <1>3, <2>3
    <3>2. BroughtBack(d, p) <= MovedBy(d, p)
      BY <3>1 DEF BackOK, BroughtBackWithinMoved
    <3> QED BY <1>6, <1>7, <2>3, <3>1, <3>2
  <2> QED BY <2>1, <2>2, <2>3
<1>12. BroughtBackWithinMoved'
  BY <1>11 DEF BroughtBackWithinMoved
<1> QED BY <1>2, <1>5, <1>8, <1>9, <1>10, <1>12 DEF BackOK

LEMMA BackNext == StockInv /\ StockInv' /\ BackOK /\ [Next]_vars => BackOK'
<1> SUFFICES ASSUME StockInv, StockInv', BackOK, [Next]_vars PROVE BackOK'
  OBVIOUS
<1>1. CASE UNCHANGED vars
  BY <1>1, BackSilent DEF vars
<1>2. ASSUME NEW r \in Requests, Begin(r) PROVE BackOK'
  BY <1>2, BackBegin
<1>3. ASSUME NEW r \in Requests, Work(r) PROVE BackOK'
  <2>1. CASE ~(CommitSale(r) \/ CommitLines(r) \/ Reject(r) \/ Abort(r))
    <3>1. UNCHANGED <<pc, job, take>>
      BY <1>3, <2>1, StatementFacts
    <3> QED BY <3>1, BackSilent
  <2>2. CASE Reject(r) \/ Abort(r)
    <3>1. pc[r] = "open" /\ Finish(r, "failed") /\ take' = take
      BY <2>2 DEF Reject, Abort
    <3>2. UNCHANGED job /\ pc' = [pc EXCEPT ![r] = "failed"]
      BY <3>1 DEF Finish
    <3> QED BY <3>1, <3>2, BackSilent DEF StockInv, TypeOK
  <2>3. CASE CommitSale(r) \/ CommitLines(r)
    <3>1. pc[r] = "open" /\ Finish(r, "done") /\ \A q \in Requests \ {r} : take'[q] = take[q]
      BY <2>3 DEF CommitSale, CommitLines, Complete, StockInv, TypeOK
    <3> QED BY <3>1, BackCommit
  <2> QED BY <2>1, <2>2, <2>3
<1> QED BY <1>1, <1>2, <1>3 DEF Next

\* However many cancellations and returns of a sale or purchase run, and however
\* they overlap, no line of it is brought back by more than it moved.
THEOREM NothingBroughtBackTwice == Spec => []BroughtBackWithinMoved
<1>1. StockInv /\ BackOK => BroughtBackWithinMoved
  BY DEF BackOK
<1> QED BY <1>1, BackInit, BackNext, StockInvariant, PTL DEF Spec
----------------------------------------------------------------------------
(* What a sale or a purchase comes to.  The lines of a form, and what the   *)
(* documents made of them say, in amounts that are natural numbers.         *)

LineType == [item : Items, qty : Nat \ {0}, disc : Nat, price : Nat]
Lines == UNION {[1 .. n -> LineType] : n \in Nat}
Catalogs == [Items -> [price : Nat, rate : Nat]]
RatesOf(items) == [i \in Items |-> items[i].rate]

\* The sums of a list of lines: gross amounts, discounts, and what is left.
LEMMA LineAmounts ==
  ASSUME NEW n \in Nat, NEW lines \in [1 .. n -> LineType], NEW order \in Nat,
         DiscountsFit(lines, order)
  PROVE  /\ \A k \in 1 .. n : /\ Gross(lines)[k] \in Nat /\ AfterDiscount(lines)[k] \in Nat
                              /\ AfterDiscount(lines)[k] = Gross(lines)[k] - lines[k].disc
                              /\ lines[k].disc \in Nat
         /\ Subtotal(lines) \in Nat /\ LineDiscounts(lines) \in Nat
         /\ LineDiscounts(lines) + order <= Subtotal(lines)
         /\ SumFunctionOnSet(AfterDiscount(lines), 1 .. n)
              = Subtotal(lines) - LineDiscounts(lines)
<1> DEFINE disc == [k \in DOMAIN lines |-> lines[k].disc]
<1>1. DOMAIN lines = 1 .. n /\ IsFiniteSet(1 .. n)
  BY FS_Interval
<1>2. ASSUME NEW k \in 1 .. n
      PROVE  /\ Gross(lines)[k] \in Nat /\ disc[k] \in Nat /\ disc[k] <= Gross(lines)[k]
             /\ disc[k] = lines[k].disc
             /\ AfterDiscount(lines)[k] = Gross(lines)[k] - disc[k]
  <2>1. lines[k].qty \in Nat /\ lines[k].price \in Nat /\ lines[k].disc \in Nat
    BY DEF LineType
  <2>2. lines[k].qty * lines[k].price \in Nat
    BY <2>1
  <2>3. Gross(lines)[k] \in Nat
    BY <1>1, <2>2, MoneyScaleAssumption, RoundRatioClose DEF Gross, MultiplyToMoneyUnits
  <2> QED BY <1>1, <2>1, <2>3 DEF DiscountsFit, AfterDiscount
<1>3. LineDiscounts(lines) = SumFunctionOnSet(disc, 1 .. n)
  BY <1>1 DEF LineDiscounts, SumOf
<1>4. Subtotal(lines) = SumFunctionOnSet(Gross(lines), 1 .. n)
  BY <1>1 DEF Subtotal, SumOf, Gross
<1> HIDE DEF disc
<1>5. Subtotal(lines) \in Nat /\ LineDiscounts(lines) \in Nat
  BY <1>1, <1>2, <1>3, <1>4, SumNat
<1>6. SumFunctionOnSet(AfterDiscount(lines), 1 .. n) = Subtotal(lines) - LineDiscounts(lines)
  <2> DEFINE f == Gross(lines)
             h == AfterDiscount(lines)
  <2>1. \A k \in 1 .. n : f[k] \in Int /\ disc[k] \in Int /\ h[k] = f[k] - disc[k]
    BY <1>2
  <2> HIDE DEF f, h
  <2>2. SumFunctionOnSet(h, 1 .. n) = SumFunctionOnSet(f, 1 .. n) - SumFunctionOnSet(disc, 1 .. n)
    BY <1>1, <2>1, SumMinus
  <2> QED BY <1>3, <1>4, <2>2 DEF f, h
<1> QED BY <1>2, <1>5, <1>6 DEF DiscountsFit

\* The order discount is spread over the lines whole, and no line bears more than it
\* is worth; each line is taxed on the rest.
LEMMA SharesAndTaxes ==
  ASSUME NEW n \in Nat, NEW lines \in [1 .. n -> LineType], NEW order \in Nat,
         DiscountsFit(lines, order), NEW rate \in [Items -> Nat]
  PROVE  /\ \A k \in 1 .. n :
              /\ OrderShares(lines, order)[k] \in 0 .. AfterDiscount(lines)[k]
              /\ Taxes(lines, order, rate)[k] \in Nat
         /\ SumFunctionOnSet(OrderShares(lines, order), 1 .. n) = order
         /\ SumOf(Taxes(lines, order, rate)) = SumFunctionOnSet(Taxes(lines, order, rate), 1 .. n)
         /\ SumOf(Taxes(lines, order, rate)) \in Nat
<1> DEFINE weights == AfterDiscount(lines)
           shares == OrderShares(lines, order)
           taxes == Taxes(lines, order, rate)
<1>1. DOMAIN lines = 1 .. n /\ IsFiniteSet(1 .. n)
  BY FS_Interval
<1>2. weights = [k \in 1 .. n |-> weights[k]]
  BY <1>1 DEF AfterDiscount
<1>3. /\ \A k \in 1 .. n : weights[k] \in Nat
      /\ order <= SumFunctionOnSet(weights, 1 .. n)
  <2>1. /\ Subtotal(lines) \in Nat /\ LineDiscounts(lines) \in Nat
        /\ LineDiscounts(lines) + order <= Subtotal(lines)
        /\ SumFunctionOnSet(AfterDiscount(lines), 1 .. n)
              = Subtotal(lines) - LineDiscounts(lines)
        /\ \A k \in 1 .. n : AfterDiscount(lines)[k] \in Nat
    BY LineAmounts
  <2> QED BY <2>1
<1>4. shares = AllocateProportionally(order, weights)
  BY DEF OrderShares
<1>5. ASSUME NEW k \in 1 .. n PROVE taxes[k] = TaxForAmount(weights[k] - shares[k], rate[lines[k].item])
  BY <1>1 DEF Taxes
<1>6. DOMAIN taxes = 1 .. n
  BY <1>1 DEF Taxes
<1> HIDE DEF weights, shares, taxes
<1>7. Len(weights) = n
  BY <1>2, LenOfLines
<1>8. /\ \A k \in 1 .. n : shares[k] \in 0 .. weights[k]
      /\ SumFunctionOnSet(shares, 1 .. n) = order
  BY <1>3, <1>4, <1>7, AllocationFacts
<1>9. ASSUME NEW k \in 1 .. n PROVE taxes[k] \in Nat
  <2>1. weights[k] - shares[k] \in Nat /\ rate[lines[k].item] \in Nat
    BY <1>3, <1>8 DEF LineType
  <2>2. (weights[k] - shares[k]) * rate[lines[k].item] \in Nat
    BY <2>1
  <2>3. 100 * MoneyScale \in Nat \ {0}
    BY MoneyScaleAssumption
  <2> QED BY <1>5, <2>2, <2>3, RoundRatioClose DEF TaxForAmount
<1>10. SumOf(taxes) = SumFunctionOnSet(taxes, 1 .. n)
  BY <1>6 DEF SumOf
<1>11. SumFunctionOnSet(taxes, 1 .. n) \in Nat
  BY <1>1, <1>9, SumNat
<1> QED BY <1>8, <1>9, <1>10, <1>11 DEF weights, shares, taxes

\* The total of a document is a natural number.
LEMMA TotalIsNat ==
  ASSUME NEW n \in Nat, NEW lines \in [1 .. n -> LineType], NEW order \in Nat,
         DiscountsFit(lines, order), NEW rate \in [Items -> Nat]
  PROVE  Subtotal(lines) - LineDiscounts(lines) - order
           + SumOf(Taxes(lines, order, rate)) \in Nat
<1>1. /\ Subtotal(lines) \in Nat /\ LineDiscounts(lines) \in Nat
      /\ LineDiscounts(lines) + order <= Subtotal(lines)
  BY LineAmounts
<1>2. SumOf(Taxes(lines, order, rate)) \in Nat
  BY SharesAndTaxes
<1> QED BY <1>1, <1>2
----------------------------------------------------------------------------
(* FIFO.  The lines of an item laid end to end are intervals, and so are    *)
(* its batches; a line draws from a batch what the two have in common.      *)

\* The batches of an item keep their number.
BatchesOK ==
  /\ stock = [i \in Items |-> stock[i]]
  /\ \A i \in Items : stock[i] \in [1 .. Len(Stock0[i]) -> Nat]

LEMMA BatchFacts ==
  ASSUME BatchesOK, NEW i \in Items
  PROVE  /\ Len(stock[i]) \in Nat /\ stock[i] \in [1 .. Len(stock[i]) -> Nat]
         /\ Len(stock[i]) = Len(Stock0[i])
         /\ ~Batched(i) => Len(stock[i]) = 0
<1>1. Stock0[i] \in Seq(Nat \ {0})
  BY PricingAssumption
<1>2. Len(Stock0[i]) \in Nat /\ (Stock0[i] = <<>> => Len(Stock0[i]) = 0)
  BY <1>1
<1>3. stock[i] \in [1 .. Len(Stock0[i]) -> Nat]
  BY DEF BatchesOK
<1>4. Len(stock[i]) = Len(Stock0[i])
  BY <1>2, <1>3, LenOfLines
<1> QED BY <1>2, <1>3, <1>4 DEF Batched

\* What an item's first batches hold.
LEMMA UptoFacts ==
  ASSUME BatchesOK, NEW i \in Items
  PROVE  /\ Upto(i, 0) = 0
         /\ \A b \in 0 .. Len(stock[i]) : Upto(i, b) \in Nat
         /\ \A b \in 1 .. Len(stock[i]) : Upto(i, b) = Upto(i, b - 1) + stock[i][b]
<1> DEFINE m == Len(stock[i])
<1>1. m \in Nat /\ stock[i] \in [1 .. m -> Nat]
  BY BatchFacts
<1> HIDE DEF m
<1>2. Upto(i, 0) = 0
  <2>1. 1 .. 0 = {}
    OBVIOUS
  <2> QED BY <2>1, SumEmpty DEF Upto
<1>3. ASSUME NEW b \in 0 .. m PROVE Upto(i, b) \in Nat
  <2>1. IsFiniteSet(1 .. b) /\ \A x \in 1 .. b : stock[i][x] \in Nat
    BY <1>1, FS_Interval
  <2> QED BY <2>1, SumNat DEF Upto
<1>4. ASSUME NEW b \in 1 .. m PROVE Upto(i, b) = Upto(i, b - 1) + stock[i][b]
  <2> DEFINE R == 1 .. b - 1
  <2>1. 1 .. b = R \cup {b} /\ b \notin R
    BY <1>1
  <2>2. IsFiniteSet(R)
    BY <1>1, FS_Interval
  <2>3. \A x \in R \cup {b} : stock[i][x] \in Int
    BY <1>1
  <2>4. b - 1 \in 0 .. m /\ stock[i][b] \in Nat
    BY <1>1
  <2> DEFINE f == stock[i]
  <2> HIDE DEF R
  <2>5. SumFunctionOnSet(f, R \cup {b}) = f[b] + SumFunctionOnSet(f, R)
    BY <2>1, <2>2, <2>3, SumAdd
  <2>6. Upto(i, b) = stock[i][b] + Upto(i, b - 1)
    BY <2>1, <2>5 DEF Upto, R
  <2>7. Upto(i, b - 1) \in Nat
    BY <1>3, <2>4
  <2> QED BY <2>4, <2>6, <2>7
<1> QED BY <1>2, <1>3, <1>4 DEF m

\* What the lines before a line take of an item, whatever item the line is of.
Ahead(lines, i, k) ==
  SumFunctionOnSet([j \in DOMAIN lines |-> lines[j].qty],
    {j \in DOMAIN lines : j < k /\ lines[j].item = i})

LEMMA AheadFacts ==
  ASSUME NEW n \in Nat, NEW lines \in [1 .. n -> LineType], NEW i
  PROVE  /\ \A k \in 1 .. n + 1 : Ahead(lines, i, k) \in Nat
         /\ \A k \in 1 .. n : lines[k].item = i =>
              Ahead(lines, i, k + 1) = Ahead(lines, i, k) + lines[k].qty
         /\ \A k \in 1 .. n : lines[k].item # i => Ahead(lines, i, k + 1) = Ahead(lines, i, k)
         /\ \A k \in 1 .. n : Before(lines, k) = Ahead(lines, lines[k].item, k)
<1> DEFINE qty == [j \in DOMAIN lines |-> lines[j].qty]
           Those(k) == {j \in DOMAIN lines : j < k /\ lines[j].item = i}
<1>1. DOMAIN lines = 1 .. n
  OBVIOUS
<1>2. \A j \in 1 .. n : qty[j] \in Nat /\ qty[j] = lines[j].qty
  BY <1>1 DEF LineType
<1>3. \A k : IsFiniteSet(Those(k)) /\ \A j \in Those(k) : j \in 1 .. n
  <2>1. IsFiniteSet(1 .. n)
    BY FS_Interval
  <2>2. \A k : Those(k) \subseteq 1 .. n
    BY <1>1
  <2> HIDE DEF Those
  <2> QED BY <2>1, <2>2, FS_Subset
<1>4. \A k : Ahead(lines, i, k) = SumFunctionOnSet(qty, Those(k))
  BY DEF Ahead
<1> HIDE DEF qty
<1>5. \A k : Ahead(lines, i, k) \in Nat
  <2> HIDE DEF Those
  <2> QED BY <1>2, <1>3, <1>4, SumNat
<1>6. ASSUME NEW k \in 1 .. n
      PROVE  Ahead(lines, i, k + 1)
               = Ahead(lines, i, k) + (IF lines[k].item = i THEN lines[k].qty ELSE 0)
  <2>1. CASE lines[k].item = i
    <3>1. Those(k + 1) = Those(k) \cup {k} /\ k \notin Those(k)
      BY <1>1, <2>1
    <3> HIDE DEF Those
    <3>2. \A j \in Those(k) \cup {k} : qty[j] \in Int
      BY <1>2, <1>3
    <3>3. SumFunctionOnSet(qty, Those(k) \cup {k}) = qty[k] + SumFunctionOnSet(qty, Those(k))
      BY <1>3, <3>1, <3>2, SumAdd
    <3>4. Ahead(lines, i, k + 1) = lines[k].qty + Ahead(lines, i, k)
      BY <1>2, <1>4, <3>1, <3>3
    <3>5. lines[k].qty \in Nat /\ Ahead(lines, i, k) \in Nat
      BY <1>2, <1>5
    <3> QED BY <2>1, <3>4, <3>5
  <2>2. CASE lines[k].item # i
    <3>1. Those(k + 1) = Those(k)
      BY <1>1, <2>2
    <3> HIDE DEF Those
    <3>2. Ahead(lines, i, k + 1) = Ahead(lines, i, k)
      BY <1>4, <3>1
    <3> QED BY <1>5, <2>2, <3>2
  <2> QED BY <2>1, <2>2
<1>7. \A k \in 1 .. n : Before(lines, k) = Ahead(lines, lines[k].item, k)
  BY DEF Before, Ahead
<1> QED BY <1>5, <1>6, <1>7

\* What two intervals have in common, cut from either side.
LEMMA Overlap ==
  ASSUME NEW lo \in Nat, NEW hi \in Nat, lo <= hi, NEW l \in Nat, NEW u \in Nat, l <= u
  PROVE  /\ Monus(Smaller(hi, u), lo) - Monus(Smaller(hi, l), lo) \in Nat
         /\ Monus(Smaller(hi, u), lo) - Monus(Smaller(hi, l), lo)
              = Monus(Smaller(hi, u), l) - Monus(Smaller(lo, u), l)
         /\ Monus(Smaller(hi, u), l) \in 0 .. u - l
         /\ hi <= u => Monus(Smaller(hi, u), lo) = hi - lo
         /\ Monus(Smaller(hi, 0), lo) = 0
  BY DEF Monus, Smaller

\* A line draws natural numbers, which add up to its quantity if there is enough.
LEMMA DrawnByLine ==
  ASSUME BatchesOK, NEW n \in Nat, NEW lines \in [1 .. n -> LineType], NEW k \in 1 .. n,
         NEW i, i = lines[k].item
  PROVE  /\ \A b \in 1 .. Len(stock[i]) : Drawn(lines, k, b) \in Nat
         /\ Batched(i) /\ Enough(lines) =>
              SumFunctionOnSet([b \in 1 .. Len(stock[i]) |-> Drawn(lines, k, b)],
                1 .. Len(stock[i])) = lines[k].qty
<1> DEFINE m == Len(stock[i])
           lo == Before(lines, k)
           hi == lo + lines[k].qty
           g == [b \in 0 .. m |-> Monus(Smaller(hi, Upto(i, b)), lo)]
           f == [b \in 1 .. m |-> Drawn(lines, k, b)]
<1>1. i \in Items /\ lines[k].qty \in Nat
  BY DEF LineType
<1>2. m \in Nat
  BY <1>1, BatchFacts
<1>3. lo \in Nat
  <2>1. /\ \A j \in 1 .. n + 1 : Ahead(lines, i, j) \in Nat
        /\ \A j \in 1 .. n : Before(lines, j) = Ahead(lines, lines[j].item, j)
    BY AheadFacts
  <2>2. k \in 1 .. n + 1
    OBVIOUS
  <2> QED BY <2>1, <2>2
<1>4. /\ Upto(i, 0) = 0
      /\ \A b \in 0 .. m : Upto(i, b) \in Nat
      /\ \A b \in 1 .. m : Upto(i, b) = Upto(i, b - 1) + stock[i][b] /\ stock[i][b] \in Nat
  BY <1>1, UptoFacts, BatchFacts
<1>5. \A b \in 1 .. m : Drawn(lines, k, b)
        = Monus(Smaller(hi, Upto(i, b)), lo) - Monus(Smaller(hi, Upto(i, b - 1)), lo)
  BY DEF Drawn
<1>6. DOMAIN lines = 1 .. n
  OBVIOUS
<1>7. Batched(i) /\ Enough(lines) => hi <= Upto(i, m)
  BY <1>6 DEF Enough
<1> HIDE DEF m, lo
<1>8. hi \in Nat /\ lo <= hi /\ hi - lo = lines[k].qty
  BY <1>1, <1>3
<1> HIDE DEF hi
<1>9. ASSUME NEW b \in 1 .. m PROVE Drawn(lines, k, b) \in Nat
  <2>1. b - 1 \in 0 .. m /\ b \in 0 .. m
    BY <1>2
  <2>2. Upto(i, b - 1) \in Nat /\ Upto(i, b) \in Nat /\ Upto(i, b - 1) <= Upto(i, b)
    BY <1>4, <2>1
  <2> DEFINE l == Upto(i, b - 1)
             u == Upto(i, b)
  <2>3. Drawn(lines, k, b) = Monus(Smaller(hi, u), lo) - Monus(Smaller(hi, l), lo)
    BY <1>5
  <2> HIDE DEF l, u
  <2>4. Monus(Smaller(hi, u), lo) - Monus(Smaller(hi, l), lo) \in Nat
    <3>1. l \in Nat /\ u \in Nat /\ l <= u
      BY <2>2 DEF l, u
    <3> QED BY <1>3, <1>8, <3>1, Overlap
  <2> QED BY <2>3, <2>4
<1>10. \A b \in 0 .. m : g[b] \in Int
  <2> TAKE b \in 0 .. m
  <2>1. Upto(i, b) \in Nat
    BY <1>4
  <2> QED BY <1>3, <1>8, <2>1 DEF Monus, Smaller
<1>11. \A b \in 1 .. m : f[b] = g[b] - g[b - 1]
  <2> TAKE b \in 1 .. m
  <2>1. b - 1 \in 0 .. m /\ b \in 0 .. m
    BY <1>2
  <2> QED BY <1>5, <2>1
<1>12. 0 \in 0 .. m /\ m \in 0 .. m
  BY <1>2
<1>13. g[0] = 0 /\ (Batched(i) /\ Enough(lines) => g[m] = lines[k].qty)
  <2>1. g[0] = Monus(Smaller(hi, 0), lo) /\ g[m] = Monus(Smaller(hi, Upto(i, m)), lo)
    BY <1>4, <1>12
  <2>2. Upto(i, m) \in Nat
    BY <1>4, <1>12
  <2> QED BY <1>3, <1>7, <1>8, <2>1, <2>2 DEF Monus, Smaller
<1> HIDE DEF f, g
<1>14. SumFunctionOnSet(f, 1 .. m) = g[m] - g[0]
  BY <1>2, <1>10, <1>11, SumTelescope
<1>15. Batched(i) /\ Enough(lines) => SumFunctionOnSet(f, 1 .. m) = lines[k].qty
  BY <1>1, <1>13, <1>14
<1> QED BY <1>9, <1>15 DEF f, m

\* Of a batch the lines of its item draw no more than it holds.
LEMMA DrawnFromBatch ==
  ASSUME BatchesOK, NEW n \in Nat, NEW lines \in [1 .. n -> LineType], NEW i \in Items,
         NEW b \in 1 .. Len(stock[i])
  PROVE  SumFunctionOnSet(
           [k \in 1 .. n |-> IF lines[k].item = i THEN Drawn(lines, k, b) ELSE 0], 1 .. n)
         \in 0 .. stock[i][b]
<1> DEFINE l == Upto(i, b - 1)
           u == Upto(i, b)
           f == [k \in 1 .. n |-> IF lines[k].item = i THEN Drawn(lines, k, b) ELSE 0]
           g == [k \in 0 .. n |-> Monus(Smaller(Ahead(lines, i, k + 1), u), l)]
<1>1. l \in Nat /\ u \in Nat /\ stock[i][b] \in Nat /\ u - l = stock[i][b] /\ l <= u
  <2>1. Len(stock[i]) \in Nat /\ stock[i] \in [1 .. Len(stock[i]) -> Nat]
    BY BatchFacts
  <2>2. b - 1 \in 0 .. Len(stock[i]) /\ b \in 0 .. Len(stock[i]) /\ stock[i][b] \in Nat
    BY <2>1
  <2>3. l \in Nat /\ u \in Nat /\ u = l + stock[i][b]
    BY <2>2, UptoFacts
  <2> HIDE DEF l, u
  <2> QED BY <2>2, <2>3
<1>2. /\ \A k \in 1 .. n + 1 : Ahead(lines, i, k) \in Nat
      /\ \A k \in 1 .. n : Ahead(lines, i, k + 1)
              = Ahead(lines, i, k) + (IF lines[k].item = i THEN lines[k].qty ELSE 0)
      /\ \A k \in 1 .. n : lines[k].item = i => Before(lines, k) = Ahead(lines, i, k)
  <2>1. /\ \A k \in 1 .. n + 1 : Ahead(lines, i, k) \in Nat
        /\ \A k \in 1 .. n : lines[k].item = i =>
              Ahead(lines, i, k + 1) = Ahead(lines, i, k) + lines[k].qty
        /\ \A k \in 1 .. n : lines[k].item # i => Ahead(lines, i, k + 1) = Ahead(lines, i, k)
        /\ \A k \in 1 .. n : Before(lines, k) = Ahead(lines, lines[k].item, k)
    BY AheadFacts
  <2> QED BY <2>1
<1>3. \A k \in 1 .. n : lines[k].item = i => Drawn(lines, k, b)
        = Monus(Smaller(Before(lines, k) + lines[k].qty, u), Before(lines, k))
            - Monus(Smaller(Before(lines, k) + lines[k].qty, l), Before(lines, k))
  BY DEF Drawn
<1> HIDE DEF l, u
<1>4. ASSUME NEW k \in 0 .. n PROVE g[k] \in 0 .. u - l
  <2>1. Ahead(lines, i, k + 1) \in Nat
    BY <1>2
  <2> QED BY <1>1, <2>1 DEF Monus, Smaller
<1>5. ASSUME NEW k \in 1 .. n PROVE f[k] = g[k] - g[k - 1]
  <2> DEFINE lo == Ahead(lines, i, k)
             hi == Ahead(lines, i, k + 1)
  <2>1. k - 1 \in 0 .. n /\ k \in 0 .. n /\ (k - 1) + 1 = k
    OBVIOUS
  <2>2. g[k] = Monus(Smaller(hi, u), l) /\ g[k - 1] = Monus(Smaller(lo, u), l)
    BY <2>1
  <2>3. lo \in Nat /\ hi \in Nat
    <3>1. k \in 1 .. n + 1 /\ k + 1 \in 1 .. n + 1
      OBVIOUS
    <3> QED BY <1>2, <3>1
  <2>4. hi = lo + (IF lines[k].item = i THEN lines[k].qty ELSE 0)
    BY <1>2
  <2>5. lines[k].qty \in Nat
    BY DEF LineType
  <2>6. f[k] = IF lines[k].item = i THEN Drawn(lines, k, b) ELSE 0
    OBVIOUS
  <2>7. lines[k].item = i => Drawn(lines, k, b)
          = Monus(Smaller(lo + lines[k].qty, u), lo) - Monus(Smaller(lo + lines[k].qty, l), lo)
    BY <1>2, <1>3
  <2> HIDE DEF lo, hi, f, g
  <2>8. CASE lines[k].item = i
    <3>1. hi = lo + lines[k].qty /\ lo <= hi
      BY <2>3, <2>4, <2>5, <2>8
    <3>2. f[k] = Monus(Smaller(hi, u), lo) - Monus(Smaller(hi, l), lo)
      BY <2>6, <2>7, <2>8, <3>1
    <3>3. Monus(Smaller(hi, u), lo) - Monus(Smaller(hi, l), lo)
            = Monus(Smaller(hi, u), l) - Monus(Smaller(lo, u), l)
      <4>1. lo \in Nat /\ hi \in Nat /\ lo <= hi /\ l \in Nat /\ u \in Nat /\ l <= u
        BY <1>1, <2>3, <3>1
      <4> QED BY <4>1 DEF Monus, Smaller
    <3> QED BY <2>2, <3>2, <3>3
  <2>9. CASE lines[k].item # i
    <3>1. hi = lo /\ f[k] = 0
      BY <2>3, <2>4, <2>6, <2>9
    <3> QED BY <1>1, <2>2, <2>3, <3>1 DEF Monus, Smaller
  <2> QED BY <2>8, <2>9
<1> HIDE DEF f, g
<1>6. \A k \in 0 .. n : g[k] \in Int
  BY <1>1, <1>4
<1>7. SumFunctionOnSet(f, 1 .. n) = g[n] - g[0]
  BY <1>5, <1>6, SumTelescope
<1>8. g[n] <= u - l /\ g[0] \in Nat /\ g[n] \in Nat /\ g[0] <= g[n]
  <2>1. g[n] \in 0 .. u - l /\ g[0] \in 0 .. u - l
    BY <1>4
  <2>2. g[0] = 0
    <3>1. Ahead(lines, i, 1) = 0
      <4>1. {j \in DOMAIN lines : j < 1 /\ lines[j].item = i} = {}
        OBVIOUS
      <4> QED BY <4>1, SumEmpty DEF Ahead
    <3>2. g[0] = Monus(Smaller(Ahead(lines, i, 0 + 1), u), l)
      BY DEF g
    <3> QED BY <1>1, <3>1, <3>2 DEF Monus, Smaller
  <2> QED BY <1>1, <2>1, <2>2
<1> QED BY <1>1, <1>7, <1>8 DEF f
----------------------------------------------------------------------------
(* The posted lines.  A line is posted in pieces, one per batch it draws    *)
(* from; every amount of the line is split over them.                       *)

PiecesAt(lines, k) == {p \in Pieces(lines) : p[1] = k}

\* A sale the stock is enough for.
Fulfilled(lines, n) ==
  BatchesOK /\ n \in Nat /\ lines \in [1 .. n -> LineType] /\ Enough(lines)

\* Pieces are pairs of a line and a batch, or 0, and finitely many.
LEMMA PiecesFacts ==
  ASSUME NEW n, NEW lines, Fulfilled(lines, n)
  PROVE  /\ IsFiniteSet(Pieces(lines))
         /\ \A p \in Pieces(lines) :
              /\ p[1] \in 1 .. n /\ p[2] \in 0 .. Len(stock[lines[p[1]].item])
              /\ p = <<p[1], p[2]>>
              /\ QtyOf(lines, p) \in Nat \ {0}
         /\ \A k \in 1 .. n : IsFiniteSet(PiecesAt(lines, k))
<1> DEFINE batches(k) == 0 .. Len(stock[lines[k].item])
           all == UNION {{k} \X batches(k) : k \in DOMAIN lines}
<1>1. /\ BatchesOK /\ n \in Nat /\ lines \in [1 .. n -> LineType] /\ DOMAIN lines = 1 .. n
      /\ Enough(lines)
  BY DEF Fulfilled
<1>2. ASSUME NEW k \in 1 .. n
      PROVE  lines[k].item \in Items /\ Len(stock[lines[k].item]) \in Nat /\ lines[k].qty \in Nat \ {0}
  <2>1. lines[k].item \in Items /\ lines[k].qty \in Nat \ {0}
    BY <1>1 DEF LineType
  <2> QED BY <1>1, <2>1, BatchFacts
<1>3. ASSUME NEW p \in Pieces(lines)
      PROVE  /\ p[1] \in 1 .. n /\ p[2] \in batches(p[1]) /\ p = <<p[1], p[2]>>
             /\ IF Batched(lines[p[1]].item) THEN p[2] > 0 /\ Drawn(lines, p[1], p[2]) > 0
                ELSE p[2] = 0
  BY <1>1 DEF Pieces
<1>4. ASSUME NEW p \in Pieces(lines) PROVE QtyOf(lines, p) \in Nat \ {0}
  <2>1. CASE Batched(lines[p[1]].item)
    <3>1. p[1] \in 1 .. n /\ p[2] # 0 /\ p[2] \in 1 .. Len(stock[lines[p[1]].item])
      BY <1>2, <1>3, <2>1
    <3>2. Drawn(lines, p[1], p[2]) \in Nat
      BY <1>1, <3>1, DrawnByLine
    <3> QED BY <1>3, <2>1, <3>1, <3>2 DEF QtyOf
  <2>2. CASE ~Batched(lines[p[1]].item)
    BY <1>2, <1>3, <2>2 DEF QtyOf
  <2> QED BY <2>1, <2>2
<1>5. IsFiniteSet(Pieces(lines))
  <2> DEFINE parts == [k \in 1 .. n |-> {k} \X batches(k)]
  <2>1. \A k \in 1 .. n : IsFiniteSet({k} \X batches(k))
    <3> TAKE k \in 1 .. n
    <3>1. IsFiniteSet({k})
      BY FS_Singleton
    <3> DEFINE m == Len(stock[lines[k].item])
    <3>2. m \in Int
      BY <1>2
    <3> HIDE DEF m
    <3>3. IsFiniteSet(0 .. m)
      BY <3>2, FS_Interval
    <3> DEFINE one == {k}
               b == 0 .. m
    <3> HIDE DEF one, b
    <3>4. IsFiniteSet(one \X b)
      BY <3>1, <3>3, FS_Product DEF one, b
    <3> QED BY <3>4 DEF one, b, m
  <2> DEFINE C == {T \in SUBSET (1 .. n) : IsFiniteSet(UNION {{k} \X batches(k) : k \in T})}
  <2>2. {} \in C
    <3>1. UNION {{k} \X batches(k) : k \in {}} = {}
      OBVIOUS
    <3> QED BY <3>1, FS_EmptySet
  <2>3. ASSUME NEW T \in C, NEW x \in 1 .. n, x \notin T, T \subseteq 1 .. n PROVE T \cup {x} \in C
    <3> HIDE DEF batches
    <3>1. UNION {{k} \X batches(k) : k \in T \cup {x}}
            = (UNION {{k} \X batches(k) : k \in T}) \cup ({x} \X batches(x))
      OBVIOUS
    <3>2. IsFiniteSet(UNION {{k} \X batches(k) : k \in T}) /\ IsFiniteSet({x} \X batches(x))
      BY <2>1, <2>3
    <3> DEFINE part == UNION {{k} \X batches(k) : k \in T}
               more == {x} \X batches(x)
    <3> HIDE DEF part, more
    <3>3. IsFiniteSet(part \cup more)
      BY <3>2, FS_Union DEF part, more
    <3>4. IsFiniteSet(UNION {{k} \X batches(k) : k \in T \cup {x}})
      BY <3>1, <3>3 DEF part, more
    <3> QED BY <2>3, <3>4
  <2>4. IsFiniteSet(1 .. n)
    BY <1>1, FS_Interval
  <2> HIDE DEF C
  <2>5. 1 .. n \in C
    BY <2>2, <2>3, <2>4, SubsetInduction
  <2>6. IsFiniteSet(all)
    BY <1>1, <2>5 DEF C
  <2>7. Pieces(lines) \subseteq all
    BY DEF Pieces
  <2> HIDE DEF all
  <2> QED BY <2>6, <2>7, FS_Subset
<1>6. \A k \in 1 .. n : IsFiniteSet(PiecesAt(lines, k))
  <2>1. \A k \in 1 .. n : PiecesAt(lines, k) \subseteq Pieces(lines)
    BY DEF PiecesAt
  <2> QED BY <1>5, <2>1, FS_Subset
<1> QED BY <1>3, <1>4, <1>5, <1>6

\* The pieces of a line have its quantity.
LEMMA PiecesOfLine ==
  ASSUME NEW n, NEW lines, Fulfilled(lines, n), NEW k \in 1 .. n
  PROVE  /\ PiecesAt(lines, k) # {}
         /\ SumFunctionOnSet([p \in Pieces(lines) |-> QtyOf(lines, p)], PiecesAt(lines, k))
              = lines[k].qty
<1> DEFINE i == lines[k].item
           m == Len(stock[i])
           qty == [p \in Pieces(lines) |-> QtyOf(lines, p)]
           at == PiecesAt(lines, k)
<1>1. /\ BatchesOK /\ n \in Nat /\ lines \in [1 .. n -> LineType] /\ DOMAIN lines = 1 .. n
      /\ Enough(lines) /\ i \in Items /\ lines[k].qty \in Nat \ {0}
  BY DEF Fulfilled, LineType
<1>2. m \in Nat /\ (~Batched(i) => m = 0)
  BY <1>1, BatchFacts
<1>3. \A p : p \in at <=>
        \E b \in 0 .. m : /\ p = <<k, b>>
                          /\ IF Batched(i) THEN b > 0 /\ Drawn(lines, k, b) > 0 ELSE b = 0
  BY <1>1 DEF PiecesAt, Pieces
<1>4. at \subseteq Pieces(lines)
  BY DEF PiecesAt
<1>5. SumFunctionOnSet(qty, at) = lines[k].qty
  <2>1. CASE Batched(i)
    <3> DEFINE f == [b \in 1 .. m |-> Drawn(lines, k, b)]
               D == {b \in 1 .. m : f[b] > 0}
               e == [b \in D |-> <<k, b>>]
               g == [b \in D |-> qty[e[b]]]
    <3>1. \A b \in 1 .. m : Drawn(lines, k, b) \in Nat
      BY <1>1, DrawnByLine
    <3>2. SumFunctionOnSet(f, 1 .. m) = lines[k].qty
      BY <1>1, <2>1, DrawnByLine
    <3>3. \A b \in 1 .. m : f[b] \in Nat /\ f[b] = Drawn(lines, k, b)
      BY <3>1
    <3>4. IsFiniteSet(1 .. m) /\ D \in SUBSET (1 .. m)
      <4>1. D \in SUBSET (1 .. m)
        OBVIOUS
      <4> HIDE DEF D, m
      <4>2. IsFiniteSet(1 .. m)
        BY <1>2, FS_Interval
      <4> QED BY <4>1, <4>2
    <3>5. IsFiniteSet(D)
      <4> HIDE DEF D
      <4> QED BY <3>4, FS_Subset
    <3>6. at = {e[b] : b \in D}
      <4>1. ASSUME NEW p \in at PROVE \E b \in D : p = e[b]
        <5>1. PICK b \in 0 .. m : p = <<k, b>> /\ b > 0 /\ Drawn(lines, k, b) > 0
          BY <1>3, <2>1
        <5>2. b \in 1 .. m
          BY <1>2, <5>1
        <5>3. b \in D /\ e[b] = p
          BY <3>3, <5>1, <5>2
        <5> QED BY <5>3
      <4>2. ASSUME NEW b \in D PROVE e[b] \in at
        <5>1. b \in 0 .. m /\ b > 0 /\ Drawn(lines, k, b) > 0 /\ e[b] = <<k, b>>
          BY <1>2, <3>3
        <5> QED BY <1>3, <2>1, <5>1
      <4> HIDE DEF at, D, e
      <4> QED BY <4>1, <4>2
    <3>7. \A b \in D : e[b] = <<k, b>> /\ g[b] = qty[e[b]] /\ b \in 1 .. m /\ b # 0
      BY <1>2
    <3>8. \A b \in D : f[b] > 0
      OBVIOUS
    <3> HIDE DEF f, D, e
    <3>9. SumFunctionOnSet(f, 1 .. m) = SumFunctionOnSet(f, D)
      <4>1. \A b \in 1 .. m : f[b] \in Int
        BY <3>3
      <4>2. \A b \in (1 .. m) \ D : f[b] = 0
        BY <3>3 DEF D
      <4> QED BY <3>4, <4>1, <4>2, SumNonZero
    <3>10. \A b \in D : g[b] = f[b] /\ f[b] \in Int
      <4> TAKE b \in D
      <4>1. e[b] \in Pieces(lines)
        BY <1>4, <3>6
      <4>2. qty[e[b]] = QtyOf(lines, <<k, b>>)
        BY <3>7, <4>1
      <4> QED BY <3>3, <3>7, <4>2 DEF QtyOf
    <3>11. SumFunctionOnSet(qty, {e[b] : b \in D}) = SumFunctionOnSet(g, D)
      <4>1. \A x, y \in D : e[x] = e[y] => x = y
        BY <3>7
      <4>2. \A x \in D : qty[e[x]] \in Int
        BY <3>7, <3>10
      <4> HIDE DEF qty
      <4> QED BY <3>5, <4>1, <4>2, SumRenamed
    <3> HIDE DEF g
    <3>12. SumFunctionOnSet(f, D) = SumFunctionOnSet(g, D)
      BY <3>5, <3>10, SumSame
    <3> HIDE DEF qty, at
    <3> QED BY <3>2, <3>6, <3>9, <3>11, <3>12
  <2>2. CASE ~Batched(i)
    <3> DEFINE z == <<k, 0>>
    <3>1. at = {z}
      <4>1. \A p : p \in at <=> p = z
        BY <1>2, <1>3, <2>2
      <4> HIDE DEF at, z
      <4> QED BY <4>1
    <3>2. qty[z] = lines[k].qty
      <4>1. z \in Pieces(lines)
        BY <1>4, <3>1
      <4>2. qty[z] = QtyOf(lines, z)
        BY <4>1
      <4> QED BY <4>2 DEF QtyOf
    <3> HIDE DEF qty, at, z
    <3>3. qty[z] \in Int
      BY <1>1, <3>2
    <3>4. SumFunctionOnSet(qty, {z}) = qty[z]
      BY <3>3, SumOne
    <3> QED BY <3>1, <3>2, <3>4
  <2> QED BY <2>1, <2>2
<1>6. at # {}
  <2> SUFFICES ASSUME at = {} PROVE FALSE
    OBVIOUS
  <2> HIDE DEF qty
  <2>1. SumFunctionOnSet(qty, at) = 0
    BY SumEmpty
  <2> QED BY <1>1, <1>5, <2>1
<1> QED BY <1>5, <1>6

\* A line has a last piece, all others come before it.
LEMMA LastPiece ==
  ASSUME NEW n, NEW lines, Fulfilled(lines, n), NEW k \in 1 .. n
  PROVE  \E p \in PiecesAt(lines, k) :
           /\ IsLast(lines, p)
           /\ {q \in Pieces(lines) : q[1] = p[1] /\ q[2] < p[2]} = PiecesAt(lines, k) \ {p}
           /\ \A q \in PiecesAt(lines, k) \ {p} : ~IsLast(lines, q)
<1> DEFINE m == Len(stock[lines[k].item])
           at == PiecesAt(lines, k)
           left == {m - p[2] : p \in at}
<1>1. \A p \in at : p \in Pieces(lines) /\ p[1] = k /\ p = <<k, p[2]>> /\ p[2] \in 0 .. m
  BY PiecesFacts DEF PiecesAt
<1>2. m \in Nat
  <2>1. BatchesOK /\ lines[k].item \in Items
    BY DEF Fulfilled, LineType
  <2> QED BY <2>1, BatchFacts
<1>3. at # {}
  BY PiecesOfLine
<1>4. \A p \in Pieces(lines) : p[1] = k => p \in at
  BY DEF PiecesAt
<1> HIDE DEF m, at
<1>5. PICK x \in left : \A y \in left : x <= y
  <2>1. left \subseteq Nat
    BY <1>1, <1>2
  <2>2. left # {}
    BY <1>3
  <2> HIDE DEF left
  <2> QED BY <2>1, <2>2, LeastNumber
<1>6. PICK p \in at : x = m - p[2]
  BY <1>5
<1>7. ASSUME NEW q \in at PROVE q[2] <= p[2] /\ (q # p => q[2] < p[2])
  <2>1. m - p[2] <= m - q[2]
    BY <1>5, <1>6
  <2>2. q[2] \in Nat /\ p[2] \in Nat /\ q = <<k, q[2]>> /\ p = <<k, p[2]>>
    BY <1>1
  <2>3. q[2] <= p[2]
    BY <1>2, <2>1, <2>2
  <2>4. q[2] = p[2] => q = p
    BY <2>2
  <2> QED BY <2>2, <2>3, <2>4
<1>8. IsLast(lines, p)
  BY <1>1, <1>4, <1>6, <1>7 DEF IsLast
<1>9. {q \in Pieces(lines) : q[1] = p[1] /\ q[2] < p[2]} = at \ {p}
  <2>1. p[2] \in Nat /\ p[1] = k
    BY <1>1
  <2>2. ~(p[2] < p[2])
    BY <2>1
  <2> QED BY <1>1, <1>4, <1>7, <2>1, <2>2
<1>10. ASSUME NEW q \in at \ {p} PROVE ~IsLast(lines, q)
  <2>1. q[2] < p[2] /\ q[2] \in Nat /\ p[2] \in Nat
    BY <1>1, <1>7
  <2>2. ~(p[2] <= q[2])
    BY <2>1
  <2>3. p \in Pieces(lines) /\ p[1] = q[1]
    BY <1>1
  <2> QED BY <2>2, <2>3 DEF IsLast
<1> QED BY <1>8, <1>9, <1>10 DEF at
\* The shares of an amount add up to it; all but the last are floors.
LEMMA SharesAddUp ==
  ASSUME NEW n, NEW lines, Fulfilled(lines, n), NEW amount \in Nat, NEW k \in 1 .. n
  PROVE  /\ \A p \in PiecesAt(lines, k) :
              /\ Share(lines, amount, p) \in Int
              /\ FloorShare(lines, amount, p) \in Nat
              /\ ~IsLast(lines, p) => Share(lines, amount, p) = FloorShare(lines, amount, p)
         /\ SumFunctionOnSet([p \in Pieces(lines) |-> Share(lines, amount, p)],
              PiecesAt(lines, k)) = amount
<1> DEFINE at == PiecesAt(lines, k)
           floor == [q \in Pieces(lines) |-> FloorShare(lines, amount, q)]
           share == [p \in Pieces(lines) |-> Share(lines, amount, p)]
<1>1. \A p \in at : p \in Pieces(lines) /\ p[1] = k
  BY DEF PiecesAt
<1>2. lines[k].qty \in Nat \ {0}
  BY DEF Fulfilled, LineType
<1>3. ASSUME NEW p \in at PROVE FloorShare(lines, amount, p) \in Nat
  <2>1. p[1] = k /\ QtyOf(lines, p) \in Nat
    BY <1>1, PiecesFacts
  <2>2. amount * QtyOf(lines, p) \in Nat
    BY <2>1
  <2>3. (amount * QtyOf(lines, p)) \div lines[k].qty \in Nat
    BY <1>2, <2>2, DivFacts
  <2> QED BY <2>1, <2>3 DEF FloorShare
<1>4. PICK last \in at : /\ IsLast(lines, last)
                         /\ {q \in Pieces(lines) : q[1] = last[1] /\ q[2] < last[2]} = at \ {last}
                         /\ \A q \in at \ {last} : ~IsLast(lines, q)
  BY LastPiece
<1>5. Share(lines, amount, last) = amount - SumFunctionOnSet(floor, at \ {last})
  BY <1>4 DEF Share
<1>6. ASSUME NEW p \in at, ~IsLast(lines, p)
      PROVE  Share(lines, amount, p) = FloorShare(lines, amount, p)
  BY <1>6 DEF Share
<1>7. IsFiniteSet(at) /\ IsFiniteSet(at \ {last})
  <2>1. IsFiniteSet(at)
    BY PiecesFacts
  <2> HIDE DEF at
  <2> QED BY <2>1, FS_Subset
<1>8. \A p \in at : floor[p] = FloorShare(lines, amount, p) /\ share[p] = Share(lines, amount, p)
  BY <1>1
<1> HIDE DEF floor, share
<1>9. SumFunctionOnSet(floor, at \ {last}) \in Nat
  <2>1. \A p \in at \ {last} : floor[p] \in Nat
    BY <1>3, <1>8
  <2> HIDE DEF at
  <2> QED BY <1>7, <2>1, SumNat
<1>10. \A p \in at : Share(lines, amount, p) \in Int
  <2> TAKE p \in at
  <2>1. CASE p = last
    BY <1>5, <1>9, <2>1
  <2>2. CASE p # last
    <3>1. ~IsLast(lines, p)
      BY <1>4, <2>2
    <3> QED BY <1>3, <1>6, <3>1
  <2> QED BY <2>1, <2>2
<1>11. SumFunctionOnSet(share, at) = amount
  <2> HIDE DEF at
  <2>1. \A p \in at : share[p] \in Int
    BY <1>8, <1>10
  <2>2. SumFunctionOnSet(share, at) = share[last] + SumFunctionOnSet(share, at \ {last})
    BY <1>7, <2>1, SumRemove
  <2>3. \A p \in at \ {last} : floor[p] = share[p] /\ floor[p] \in Int
    BY <1>3, <1>4, <1>6, <1>8
  <2>4. SumFunctionOnSet(floor, at \ {last}) = SumFunctionOnSet(share, at \ {last})
    BY <1>7, <2>3, SumSame
  <2> QED BY <1>5, <1>8, <1>9, <2>2, <2>4
<1> QED BY <1>3, <1>6, <1>10, <1>11 DEF share, at

\* What adds up line by line adds up over all lines.
LEMMA GroupsAddUp ==
  ASSUME NEW S, IsFiniteSet(S), NEW K, IsFiniteSet(K), NEW f, NEW A,
         \A p \in S : f[p] \in Int /\ p[1] \in K,
         NEW G, \A k \in K : \A p : p \in G[k] <=> p \in S /\ p[1] = k,
         \A k \in K : A[k] \in Int /\ SumFunctionOnSet(f, G[k]) = A[k]
  PROVE  SumFunctionOnSet(f, S) = SumFunctionOnSet(A, K)
<1> DEFINE h == [p \in S |-> p[1]]
           g == [k \in K |-> SumFunctionOnSet(f, {p \in S : h[p] = k})]
<1>1. \A p \in S : f[p] \in Int /\ h[p] \in K
  OBVIOUS
<1>2. \A k \in K : A[k] = g[k] /\ A[k] \in Int
  <2> TAKE k \in K
  <2>1. {p \in S : h[p] = k} = G[k]
    OBVIOUS
  <2> HIDE DEF h
  <2>2. SumFunctionOnSet(f, {p \in S : h[p] = k}) = A[k]
    BY <2>1
  <2> QED BY <2>2
<1> HIDE DEF h
<1>3. SumFunctionOnSet(f, S) = SumFunctionOnSet(g, K)
  BY <1>1, SumGrouped
<1> HIDE DEF g
<1>4. SumFunctionOnSet(A, K) = SumFunctionOnSet(g, K)
  BY <1>2, SumSame
<1> QED BY <1>3, <1>4

\* So the shares of an amount per line add up to all the lines' amounts.
LEMMA SplitAddsUp ==
  ASSUME NEW n, NEW lines, Fulfilled(lines, n), NEW A, \A k \in 1 .. n : A[k] \in Nat
  PROVE  /\ \A p \in Pieces(lines) : Share(lines, A[p[1]], p) \in Int
         /\ SumFunctionOnSet([p \in Pieces(lines) |-> Share(lines, A[p[1]], p)], Pieces(lines))
              = SumFunctionOnSet(A, 1 .. n)
<1> DEFINE S == Pieces(lines)
           f == [p \in Pieces(lines) |-> Share(lines, A[p[1]], p)]
           share(k) == [p \in Pieces(lines) |-> Share(lines, A[k], p)]
<1>1. n \in Nat /\ IsFiniteSet(S)
  BY PiecesFacts DEF Fulfilled
<1>2. \A p \in S : p[1] \in 1 .. n /\ p \in PiecesAt(lines, p[1])
  BY PiecesFacts DEF PiecesAt
<1>3. \A k \in 1 .. n : /\ \A p \in PiecesAt(lines, k) : Share(lines, A[k], p) \in Int
                        /\ SumFunctionOnSet(share(k), PiecesAt(lines, k)) = A[k]
  BY SharesAddUp
<1>4. \A p \in S : Share(lines, A[p[1]], p) \in Int
  BY <1>2, <1>3
<1>5. \A p \in S : f[p] \in Int /\ p[1] \in 1 .. n
  BY <1>2, <1>4
<1>6. ASSUME NEW k \in 1 .. n
      PROVE  A[k] \in Int /\ SumFunctionOnSet(f, PiecesAt(lines, k)) = A[k]
  <2> DEFINE at == PiecesAt(lines, k)
  <2>2. IsFiniteSet(at)
    BY PiecesFacts
  <2>3. \A p \in at : p \in S /\ p[1] = k
    BY DEF PiecesAt
  <2>4. \A p \in at : f[p] = share(k)[p] /\ f[p] \in Int
    BY <1>3, <2>3
  <2> DEFINE g == share(k)
  <2>5. SumFunctionOnSet(g, at) = A[k]
    BY <1>3
  <2> HIDE DEF f, g, at
  <2>6. SumFunctionOnSet(f, at) = SumFunctionOnSet(g, at)
    <3>1. \A p \in at : f[p] = g[p] /\ f[p] \in Int
      BY <2>4 DEF g
    <3> QED BY <2>2, <3>1, SumSame
  <2> QED BY <2>5, <2>6 DEF at
<1>7. SumFunctionOnSet(f, S) = SumFunctionOnSet(A, 1 .. n)
  <2> DEFINE K == 1 .. n
             G == [k \in K |-> PiecesAt(lines, k)]
  <2>1. \A k \in K : \A p : p \in G[k] <=> p \in S /\ p[1] = k
    BY DEF PiecesAt
  <2>2. \A k \in K : A[k] \in Int /\ SumFunctionOnSet(f, G[k]) = A[k]
    BY <1>6
  <2>3. IsFiniteSet(K)
    BY <1>1, FS_Interval
  <2>4. \A p \in S : f[p] \in Int /\ p[1] \in K
    BY <1>5
  <2> HIDE DEF f, S, G, K
  <2>5. SumFunctionOnSet(f, S) = SumFunctionOnSet(A, K)
    BY <1>1, <2>1, <2>2, <2>3, <2>4, GroupsAddUp
  <2> QED BY <2>5 DEF K
<1> QED BY <1>4, <1>7
----------------------------------------------------------------------------
(* What a document says, as a record.  The properties of Pricing speak of   *)
(* one document and the form it was made of at a time.                      *)

DocTotal(lines, order) ==
  Subtotal(lines) - LineDiscounts(lines) - order
    + SumOf(Taxes(lines, order, RatesOf(catalog)))
PostedAt(d, k) == {p \in DOMAIN d.posted : p[1] = k}

AddsUp(d, f) ==
  /\ SumOf([p \in DOMAIN d.posted |-> d.posted[p].total - d.posted[p].order]) = d.total
  /\ SumOf([p \in DOMAIN d.posted |-> d.posted[p].disc + d.posted[p].order]) = d.discount
  /\ \A k \in DOMAIN f.lines :
       SumFunctionOnSet([p \in DOMAIN d.posted |-> d.posted[p].qty], PostedAt(d, k))
         = f.lines[k].qty

NearZero(d, f) ==
  \A p \in DOMAIN d.posted :
    NetOf(d.posted[p]) < 0 =>
      SumFunctionOnSet([q \in DOMAIN d.posted |-> NetOf(d.posted[q])], PostedAt(d, p[1]))
          * d.posted[p].qty
        < 2 * (Cardinality(PostedAt(d, p[1])) - 1) * f.lines[p[1]].qty

\* A form and the discount it carries, priced from the catalog as it is.
Priced(lines, n, order) ==
  /\ n \in Nat /\ lines \in [1 .. n -> LineType] /\ order \in Nat
  /\ DiscountsFit(lines, order) /\ catalog \in Catalogs

\* A document has the fields it was made with.
LEMMA DocFields ==
  ASSUME NEW lines, NEW order, NEW status, NEW posted, NEW override,
         NEW d, d = DocOf(lines, order, status, posted, override)
  PROVE  /\ d.status = status /\ d.override = override /\ d.posted = posted
         /\ d.subtotal = Subtotal(lines) /\ d.discount = LineDiscounts(lines) + order
         /\ d.tax = SumOf(Taxes(lines, order, RatesOf(catalog)))
         /\ d.total = DocTotal(lines, order)
  BY DEF DocOf, ChargedTotal, ChargedTax, DocTotal, RatesOf

\* The amounts of a priced form, line by line and summed.
LEMMA PricedFacts ==
  ASSUME NEW n, NEW lines, NEW order, Priced(lines, n, order)
  PROVE  /\ DOMAIN lines = 1 .. n /\ IsFiniteSet(1 .. n)
         /\ \A k \in 1 .. n : /\ Gross(lines)[k] \in Nat /\ lines[k].disc \in Nat
                              /\ OrderShares(lines, order)[k] \in Nat
                              /\ Taxes(lines, order, RatesOf(catalog))[k] \in Nat
                              /\ lines[k].disc + OrderShares(lines, order)[k] <= Gross(lines)[k]
                              /\ AfterDiscount(lines)[k] = Gross(lines)[k] - lines[k].disc
                              /\ lines[k].item \in Items /\ lines[k].qty \in Nat \ {0}
         /\ SumFunctionOnSet(Gross(lines), 1 .. n) = Subtotal(lines)
         /\ SumFunctionOnSet([k \in 1 .. n |-> lines[k].disc], 1 .. n) = LineDiscounts(lines)
         /\ SumFunctionOnSet(OrderShares(lines, order), 1 .. n) = order
         /\ SumFunctionOnSet(Taxes(lines, order, RatesOf(catalog)), 1 .. n)
              = SumOf(Taxes(lines, order, RatesOf(catalog)))
         /\ Subtotal(lines) \in Nat /\ LineDiscounts(lines) \in Nat
         /\ LineDiscounts(lines) + order <= Subtotal(lines)
         /\ SumOf(Taxes(lines, order, RatesOf(catalog))) \in Nat
         /\ DocTotal(lines, order) \in Nat
<1> DEFINE rate == RatesOf(catalog)
<1>1. n \in Nat /\ lines \in [1 .. n -> LineType] /\ order \in Nat /\ DiscountsFit(lines, order)
  BY DEF Priced
<1>2. DOMAIN lines = 1 .. n /\ IsFiniteSet(1 .. n)
  BY <1>1, FS_Interval
<1>3. rate \in [Items -> Nat]
  BY DEF Priced, Catalogs, RatesOf
<1> HIDE DEF rate
<1>4. \A k \in 1 .. n : lines[k].item \in Items /\ lines[k].qty \in Nat \ {0}
  BY <1>1 DEF LineType
<1>5. /\ \A k \in 1 .. n : /\ Gross(lines)[k] \in Nat /\ AfterDiscount(lines)[k] \in Nat
                           /\ AfterDiscount(lines)[k] = Gross(lines)[k] - lines[k].disc
                           /\ lines[k].disc \in Nat
      /\ Subtotal(lines) \in Nat /\ LineDiscounts(lines) \in Nat
      /\ LineDiscounts(lines) + order <= Subtotal(lines)
  BY <1>1, LineAmounts
<1>6. /\ \A k \in 1 .. n :
           /\ OrderShares(lines, order)[k] \in 0 .. AfterDiscount(lines)[k]
           /\ Taxes(lines, order, rate)[k] \in Nat
      /\ SumFunctionOnSet(OrderShares(lines, order), 1 .. n) = order
      /\ SumOf(Taxes(lines, order, rate)) = SumFunctionOnSet(Taxes(lines, order, rate), 1 .. n)
      /\ SumOf(Taxes(lines, order, rate)) \in Nat
  BY <1>1, <1>3, SharesAndTaxes
<1>7. \A k \in 1 .. n : /\ OrderShares(lines, order)[k] \in Nat
                        /\ lines[k].disc + OrderShares(lines, order)[k] <= Gross(lines)[k]
  <2> TAKE k \in 1 .. n
  <2> DEFINE o == OrderShares(lines, order)[k]
             w == AfterDiscount(lines)[k]
             g == Gross(lines)[k]
             c == lines[k].disc
  <2>1. o \in 0 .. w /\ w = g - c /\ g \in Nat /\ c \in Nat /\ w \in Nat
    BY <1>5, <1>6
  <2> HIDE DEF o, w, g, c
  <2>2. o \in Nat /\ c + o <= g
    BY <2>1
  <2> QED BY <2>2 DEF o, g, c
<1>8. /\ SumFunctionOnSet(Gross(lines), 1 .. n) = Subtotal(lines)
      /\ SumFunctionOnSet([k \in 1 .. n |-> lines[k].disc], 1 .. n) = LineDiscounts(lines)
  BY <1>2 DEF Subtotal, LineDiscounts, SumOf, Gross
<1>9. DocTotal(lines, order) \in Nat
  <2> DEFINE t == SumOf(Taxes(lines, order, rate))
  <2>1. DocTotal(lines, order) = Subtotal(lines) - LineDiscounts(lines) - order + t
    BY DEF DocTotal, rate
  <2>2. t \in Nat
    BY <1>6
  <2> HIDE DEF t
  <2> QED BY <1>1, <1>5, <2>1, <2>2
<1> QED BY <1>2, <1>4, <1>5, <1>6, <1>7, <1>8, <1>9 DEF rate

\* What a posted line of a sale says.
LEMMA SaleLineFields ==
  ASSUME NEW n, NEW lines, NEW order, Priced(lines, n, order), Fulfilled(lines, n),
         NEW p \in Pieces(lines), NEW line, line = SaleLine(lines, order, p)
  PROVE  /\ p[1] \in 1 .. n
         /\ line.qty = QtyOf(lines, p) /\ line.rate = catalog[lines[p[1]].item].rate
         /\ line.disc = Share(lines, lines[p[1]].disc, p)
         /\ line.order = Share(lines, OrderShares(lines, order)[p[1]], p)
         /\ line.tax = Share(lines, Taxes(lines, order, RatesOf(catalog))[p[1]], p)
         /\ line.total = Share(lines, Gross(lines)[p[1]], p) - line.disc + line.tax
         /\ Share(lines, Gross(lines)[p[1]], p) \in Int /\ line.disc \in Int
         /\ line.order \in Int /\ line.tax \in Int
<1>1. p[1] \in 1 .. n /\ p \in PiecesAt(lines, p[1])
  BY PiecesFacts DEF PiecesAt
<1>2. lines[p[1]].item \in Items
  BY <1>1, PricedFacts
<1>3. /\ line.qty = QtyOf(lines, p) /\ line.rate = catalog[lines[p[1]].item].rate
      /\ line.disc = Share(lines, lines[p[1]].disc, p)
      /\ line.order = Share(lines, OrderShares(lines, order)[p[1]], p)
      /\ line.tax = Share(lines, Taxes(lines, order, RatesOf(catalog))[p[1]], p)
      /\ line.total = Share(lines, Gross(lines)[p[1]], p) - line.disc + line.tax
  BY <1>2 DEF SaleLine, DiscountShare, RatesOf
<1>4. \A amount \in Nat : Share(lines, amount, p) \in Int
  BY <1>1, SharesAddUp
<1>5. /\ Gross(lines)[p[1]] \in Nat /\ lines[p[1]].disc \in Nat
      /\ OrderShares(lines, order)[p[1]] \in Nat
      /\ Taxes(lines, order, RatesOf(catalog))[p[1]] \in Nat
  BY <1>1, PricedFacts
<1> QED BY <1>1, <1>3, <1>4, <1>5
\* The document of a sale, and of a purchase.
SaleDoc(lines, order, override) ==
  DocOf(lines, order, "SOLD", [p \in Pieces(lines) |-> SaleLine(lines, order, p)], override)
PurchaseDoc(lines, order) ==
  DocOf(lines, order, "RECEIVED",
        [p \in {<<k, 0>> : k \in DOMAIN lines} |-> PurchaseLine(lines, order, p[1])], FALSE)

\* The posted lines of a sale add up to it.
LEMMA SaleAddsUp ==
  ASSUME NEW n, NEW lines, NEW order, Priced(lines, n, order), Fulfilled(lines, n),
         NEW override, NEW d, d = SaleDoc(lines, order, override),
         NEW f, f.lines = lines
  PROVE  AddsUp(d, f)
<1> DEFINE S == Pieces(lines)
           posted == [p \in S |-> SaleLine(lines, order, p)]
           G == Gross(lines)
           D == [k \in 1 .. n |-> lines[k].disc]
           O == OrderShares(lines, order)
           T == Taxes(lines, order, RatesOf(catalog))
           g == [p \in S |-> Share(lines, G[p[1]], p)]
           c == [p \in S |-> Share(lines, D[p[1]], p)]
           o == [p \in S |-> Share(lines, O[p[1]], p)]
           t == [p \in S |-> Share(lines, T[p[1]], p)]
           net == [p \in S |-> posted[p].total - posted[p].order]
           off == [p \in S |-> posted[p].disc + posted[p].order]
           qty == [p \in S |-> posted[p].qty]
<1>1. /\ d.posted = posted /\ DOMAIN posted = S
      /\ d.discount = LineDiscounts(lines) + order /\ d.total = DocTotal(lines, order)
  BY DocFields DEF SaleDoc
<1>2. IsFiniteSet(S) /\ \A p \in S : p[1] \in 1 .. n
  BY PiecesFacts
<1>3. /\ \A k \in 1 .. n : G[k] \in Nat /\ D[k] \in Nat /\ O[k] \in Nat /\ T[k] \in Nat
      /\ SumFunctionOnSet(G, 1 .. n) = Subtotal(lines)
      /\ SumFunctionOnSet(D, 1 .. n) = LineDiscounts(lines)
      /\ SumFunctionOnSet(O, 1 .. n) = order
      /\ SumFunctionOnSet(T, 1 .. n) = SumOf(Taxes(lines, order, RatesOf(catalog)))
      /\ Subtotal(lines) \in Nat /\ LineDiscounts(lines) \in Nat /\ order \in Nat
      /\ SumOf(Taxes(lines, order, RatesOf(catalog))) \in Nat
  <2>1. \A k \in 1 .. n : /\ Gross(lines)[k] \in Nat /\ lines[k].disc \in Nat
                          /\ OrderShares(lines, order)[k] \in Nat
                          /\ Taxes(lines, order, RatesOf(catalog))[k] \in Nat
    BY PricedFacts
  <2>2. \A k \in 1 .. n : G[k] \in Nat /\ D[k] \in Nat /\ O[k] \in Nat /\ T[k] \in Nat
    BY <2>1
  <2>3. order \in Nat
    BY DEF Priced
  <2>4. /\ SumFunctionOnSet(G, 1 .. n) = Subtotal(lines)
        /\ SumFunctionOnSet(D, 1 .. n) = LineDiscounts(lines)
        /\ SumFunctionOnSet(O, 1 .. n) = order
        /\ SumFunctionOnSet(T, 1 .. n) = SumOf(Taxes(lines, order, RatesOf(catalog)))
    BY PricedFacts
  <2>5. /\ Subtotal(lines) \in Nat /\ LineDiscounts(lines) \in Nat
        /\ SumOf(Taxes(lines, order, RatesOf(catalog))) \in Nat
    BY PricedFacts
  <2> HIDE DEF G, D, O, T
  <2> QED BY <2>2, <2>3, <2>4, <2>5
<1>4. ASSUME NEW p \in S
      PROVE  /\ posted[p].total = g[p] - c[p] + t[p] /\ posted[p].disc = c[p]
             /\ posted[p].order = o[p] /\ posted[p].qty = QtyOf(lines, p)
             /\ g[p] \in Int /\ c[p] \in Int /\ o[p] \in Int /\ t[p] \in Int
  <2> DEFINE line == SaleLine(lines, order, p)
  <2>1. /\ line.qty = QtyOf(lines, p)
        /\ line.disc = Share(lines, lines[p[1]].disc, p)
        /\ line.order = Share(lines, OrderShares(lines, order)[p[1]], p)
        /\ line.tax = Share(lines, Taxes(lines, order, RatesOf(catalog))[p[1]], p)
        /\ line.total = Share(lines, Gross(lines)[p[1]], p) - line.disc + line.tax
        /\ Share(lines, Gross(lines)[p[1]], p) \in Int /\ line.disc \in Int
        /\ line.order \in Int /\ line.tax \in Int
    BY SaleLineFields
  <2>2. posted[p] = line /\ D[p[1]] = lines[p[1]].disc
    BY <1>2
  <2> HIDE DEF line, posted
  <2> QED BY <2>1, <2>2
<1>5. /\ SumFunctionOnSet(g, S) = SumFunctionOnSet(G, 1 .. n)
      /\ SumFunctionOnSet(c, S) = SumFunctionOnSet(D, 1 .. n)
      /\ SumFunctionOnSet(o, S) = SumFunctionOnSet(O, 1 .. n)
      /\ SumFunctionOnSet(t, S) = SumFunctionOnSet(T, 1 .. n)
  <2> HIDE DEF G, D, O, T
  <2> QED BY <1>3, SplitAddsUp
<1>6. /\ \A p \in S : net[p] = posted[p].total - posted[p].order
      /\ \A p \in S : off[p] = posted[p].disc + posted[p].order
      /\ \A p \in S : qty[p] = posted[p].qty
  OBVIOUS
<1>7. /\ SumOf([p \in DOMAIN d.posted |-> d.posted[p].total - d.posted[p].order])
           = SumFunctionOnSet(net, S)
      /\ SumOf([p \in DOMAIN d.posted |-> d.posted[p].disc + d.posted[p].order])
           = SumFunctionOnSet(off, S)
      /\ [p \in DOMAIN d.posted |-> d.posted[p].qty] = qty
  BY <1>1 DEF SumOf
<1> HIDE DEF G, D, O, T, g, c, o, t, net, off, posted
<1> DEFINE u == [p \in S |-> g[p] - c[p]]
           v == [p \in S |-> u[p] + t[p]]
<1>8. \A p \in S : u[p] = g[p] - c[p] /\ v[p] = u[p] + t[p] /\ u[p] \in Int /\ v[p] \in Int
  BY <1>4
<1> HIDE DEF u, v
<1>9. SumFunctionOnSet(u, S) = SumFunctionOnSet(g, S) - SumFunctionOnSet(c, S)
  <2>1. \A p \in S : g[p] \in Int /\ c[p] \in Int /\ u[p] = g[p] - c[p]
    BY <1>4, <1>8
  <2> HIDE DEF S
  <2> QED BY <1>2, <2>1, SumMinus
<1>10. SumFunctionOnSet(v, S) = SumFunctionOnSet(u, S) + SumFunctionOnSet(t, S)
  <2>1. \A p \in S : u[p] \in Int /\ t[p] \in Int /\ v[p] = u[p] + t[p]
    BY <1>4, <1>8
  <2> HIDE DEF S
  <2> QED BY <1>2, <2>1, SumPlus
<1>11. SumFunctionOnSet(net, S) = SumFunctionOnSet(v, S) - SumFunctionOnSet(o, S)
  <2>1. \A p \in S : v[p] \in Int /\ o[p] \in Int /\ net[p] = v[p] - o[p]
    BY <1>4, <1>6, <1>8
  <2> HIDE DEF S
  <2> QED BY <1>2, <2>1, SumMinus
<1>12. SumFunctionOnSet(off, S) = SumFunctionOnSet(c, S) + SumFunctionOnSet(o, S)
  <2>1. \A p \in S : c[p] \in Int /\ o[p] \in Int /\ off[p] = c[p] + o[p]
    BY <1>4, <1>6
  <2> HIDE DEF S
  <2> QED BY <1>2, <2>1, SumPlus
<1>13. SumFunctionOnSet(net, S) = d.total
  <2>1. SumFunctionOnSet(net, S)
          = Subtotal(lines) - LineDiscounts(lines)
              + SumOf(Taxes(lines, order, RatesOf(catalog))) - order
    BY <1>3, <1>5, <1>9, <1>10, <1>11
  <2> QED BY <1>1, <1>3, <2>1 DEF DocTotal
<1>14. SumFunctionOnSet(off, S) = d.discount
  BY <1>1, <1>3, <1>5, <1>12
<1>15. ASSUME NEW k \in DOMAIN f.lines
       PROVE  SumFunctionOnSet([p \in DOMAIN d.posted |-> d.posted[p].qty], PostedAt(d, k))
                = f.lines[k].qty
  <2>1. k \in 1 .. n
    BY PricedFacts
  <2>2. PostedAt(d, k) = PiecesAt(lines, k)
    BY <1>1 DEF PostedAt, PiecesAt
  <2>3. qty = [p \in S |-> QtyOf(lines, p)]
    BY <1>4
  <2>4. SumFunctionOnSet(qty, PiecesAt(lines, k)) = lines[k].qty
    <3> HIDE DEF qty
    <3> QED BY <2>1, <2>3, PiecesOfLine
  <2> HIDE DEF qty
  <2> QED BY <1>7, <2>2, <2>4
<1> QED BY <1>7, <1>13, <1>14, <1>15 DEF AddsUp
\* The arithmetic of a last piece that is worth less than nothing.
LEMMA LastNegative ==
  ASSUME NEW N \in Nat, NEW Q \in Nat \ {0}, NEW m \in Nat, NEW x \in Int, NEW y \in Nat,
         NEW restNet \in Int, NEW restQty \in Int,
         N = x + restNet, Q = y + restQty, x < 0,
         Q * restNet <= N * restQty + 2 * Q * m
  PROVE  N * y < 2 * m * Q
<1>1. Q * x <= -Q
  <2>1. x <= -1
    OBVIOUS
  <2> QED BY <2>1
<1>2. Q * N = Q * x + Q * restNet
  OBVIOUS
<1>3. N * Q = N * y + N * restQty
  OBVIOUS
<1>4. Q * N = N * Q /\ 2 * Q * m = 2 * m * Q
  OBVIOUS
<1>5. /\ Q * x \in Int /\ Q * restNet \in Int /\ N * y \in Int /\ N * restQty \in Int
      /\ 2 * m * Q \in Int /\ Q * N \in Int
  OBVIOUS
<1> DEFINE a == Q * x
           b == Q * restNet
           c == N * y
           e == N * restQty
           h == 2 * m * Q
           w == Q * N
<1>6. /\ a <= -Q /\ w = a + b /\ w = c + e /\ b <= e + h
      /\ a \in Int /\ b \in Int /\ c \in Int /\ e \in Int /\ h \in Int /\ w \in Int
  BY <1>1, <1>2, <1>3, <1>4, <1>5
<1> HIDE DEF a, b, c, e, h, w
<1>7. c < h
  BY <1>6
<1> QED BY <1>7 DEF c, h

\* The net amounts of the pieces of a line add up to what the line is worth after
\* its discounts; all but the last are not negative.
LEMMA NetOfPieces ==
  ASSUME NEW n, NEW lines, NEW order, Priced(lines, n, order), Fulfilled(lines, n),
         NEW k \in 1 .. n,
         NEW net, \A p \in PiecesAt(lines, k) : net[p] = NetOf(SaleLine(lines, order, p)),
         NEW N, N = Gross(lines)[k] - lines[k].disc - OrderShares(lines, order)[k]
  PROVE  /\ N \in Nat
         /\ \A p \in PiecesAt(lines, k) : net[p] \in Int
         /\ SumFunctionOnSet(net, PiecesAt(lines, k)) = N
         /\ \A p \in PiecesAt(lines, k) : ~IsLast(lines, p) =>
              net[p] \in Nat /\ lines[k].qty * net[p] <= N * QtyOf(lines, p) + 2 * lines[k].qty
<1> DEFINE at == PiecesAt(lines, k)
           S == Pieces(lines)
           A == Gross(lines)[k]
           B == lines[k].disc
           C == OrderShares(lines, order)[k]
           a == [p \in S |-> Share(lines, A, p)]
           b == [p \in S |-> Share(lines, B, p)]
           c == [p \in S |-> Share(lines, C, p)]
           u == [p \in S |-> a[p] - b[p]]
<1>1. A \in Nat /\ B \in Nat /\ C \in Nat /\ B + C <= A /\ lines[k].qty \in Nat \ {0}
  BY PricedFacts
<1>2. IsFiniteSet(at) /\ \A p \in at : p \in S /\ p[1] = k
  BY PiecesFacts DEF PiecesAt
<1>3. \A p \in at : /\ a[p] = Share(lines, A, p) /\ b[p] = Share(lines, B, p)
                    /\ c[p] = Share(lines, C, p) /\ u[p] = a[p] - b[p]
  BY <1>2
<1>4. ASSUME NEW p \in at
      PROVE  /\ net[p] = Share(lines, A, p) - Share(lines, B, p) - Share(lines, C, p)
             /\ Share(lines, A, p) \in Int /\ Share(lines, B, p) \in Int
             /\ Share(lines, C, p) \in Int
  <2> DEFINE line == SaleLine(lines, order, p)
             x == Share(lines, A, p)
             y == Share(lines, B, p)
             z == Share(lines, C, p)
  <2>1. /\ line.disc = y /\ line.order = z /\ line.total = x - line.disc + line.tax
        /\ x \in Int /\ line.disc \in Int /\ line.order \in Int /\ line.tax \in Int
    BY <1>2, SaleLineFields
  <2>2. net[p] = line.total - line.tax - line.order
    BY DEF NetOf
  <2> HIDE DEF line, x, y, z
  <2>3. net[p] = x - y - z /\ x \in Int /\ y \in Int /\ z \in Int
    BY <2>1, <2>2
  <2> QED BY <2>3 DEF x, y, z
<1>5. /\ SumFunctionOnSet(a, at) = A /\ SumFunctionOnSet(b, at) = B
      /\ SumFunctionOnSet(c, at) = C
  <2> HIDE DEF A, B, C
  <2> QED BY <1>1, SharesAddUp
<1>6. ASSUME NEW p \in at, ~IsLast(lines, p)
      PROVE  net[p] \in Nat /\ lines[k].qty * net[p] <= N * QtyOf(lines, p) + 2 * lines[k].qty
  <2> DEFINE q == QtyOf(lines, p)
             Q == lines[k].qty
             value == (A * q) \div Q - (B * q) \div Q - (C * q) \div Q
  <2>1. q \in Nat /\ Q \in Nat \ {0}
    BY <1>1, <1>2, PiecesFacts
  <2>2. /\ Share(lines, A, p) = (A * q) \div Q /\ Share(lines, B, p) = (B * q) \div Q
        /\ Share(lines, C, p) = (C * q) \div Q
    <3>1. \A amount \in Nat : Share(lines, amount, p) = FloorShare(lines, amount, p)
      BY <1>6, SharesAddUp
    <3>2. \A amount : FloorShare(lines, amount, p) = (amount * q) \div Q
      BY <1>2 DEF FloorShare
    <3> HIDE DEF A, B, C, q, Q
    <3> QED BY <1>1, <3>1, <3>2
  <2>3. net[p] = value
    BY <1>4, <2>2
  <2> HIDE DEF A, B, C, q, Q
  <2>4. value \in Nat /\ Q * value <= (A - B - C) * q + 2 * Q
    BY <1>1, <2>1, FloorNetFacts
  <2>5. A - B - C = N
    BY DEF A, B, C
  <2> HIDE DEF value
  <2>6. net[p] \in Nat /\ Q * net[p] <= N * q + 2 * Q
    BY <2>3, <2>4, <2>5
  <2> QED BY <2>6 DEF q, Q
<1> HIDE DEF a, b, c, u, at
<1>7. SumFunctionOnSet(u, at) = SumFunctionOnSet(a, at) - SumFunctionOnSet(b, at)
  <2>1. \A p \in at : a[p] \in Int /\ b[p] \in Int /\ u[p] = a[p] - b[p]
    BY <1>3, <1>4
  <2> QED BY <1>2, <2>1, SumMinus
<1>8. SumFunctionOnSet(net, at) = SumFunctionOnSet(u, at) - SumFunctionOnSet(c, at)
  <2>1. \A p \in at : u[p] \in Int /\ c[p] \in Int /\ net[p] = u[p] - c[p]
    BY <1>3, <1>4
  <2> QED BY <1>2, <2>1, SumMinus
<1>9. SumFunctionOnSet(net, at) = N /\ N \in Nat
  <2> HIDE DEF A, B, C
  <2>1. N = A - B - C
    BY DEF A, B, C
  <2> QED BY <1>1, <1>5, <1>7, <1>8, <2>1
<1>10. \A p \in at : net[p] \in Int
  BY <1>4
<1> QED BY <1>6, <1>9, <1>10 DEF at

\* A posted line of a sale is worth less than nothing only by rounding.
LEMMA SaleNearZero ==
  ASSUME NEW n, NEW lines, NEW order, Priced(lines, n, order), Fulfilled(lines, n),
         NEW override, NEW d, d = SaleDoc(lines, order, override),
         NEW f, f.lines = lines
  PROVE  NearZero(d, f)
<1> DEFINE S == Pieces(lines)
           posted == [p \in S |-> SaleLine(lines, order, p)]
           net == [q \in DOMAIN d.posted |-> NetOf(d.posted[q])]
           qty == [p \in S |-> QtyOf(lines, p)]
<1>1. d.posted = posted /\ DOMAIN posted = S
  BY DocFields DEF SaleDoc
<1> SUFFICES ASSUME NEW p \in S, NetOf(d.posted[p]) < 0
             PROVE  SumFunctionOnSet(net, PostedAt(d, p[1])) * d.posted[p].qty
                      < 2 * (Cardinality(PostedAt(d, p[1])) - 1) * f.lines[p[1]].qty
  BY <1>1 DEF NearZero
<1> DEFINE k == p[1]
           at == PiecesAt(lines, k)
           N == Gross(lines)[k] - lines[k].disc - OrderShares(lines, order)[k]
           Q == lines[k].qty
           R == at \ {p}
           m == Cardinality(R)
<1>2. k \in 1 .. n /\ p \in at /\ IsFiniteSet(at) /\ IsFiniteSet(R)
  <2>1. k \in 1 .. n /\ p \in at
    BY PiecesFacts DEF PiecesAt
  <2>2. IsFiniteSet(at)
    BY <2>1, PiecesFacts
  <2> HIDE DEF at
  <2> QED BY <2>1, <2>2, FS_Subset
<1>3. PostedAt(d, k) = at
  BY <1>1 DEF PostedAt, PiecesAt
<1>4. \A q \in at : /\ net[q] = NetOf(SaleLine(lines, order, q))
                    /\ qty[q] = QtyOf(lines, q) /\ qty[q] \in Nat
  BY <1>1, PiecesFacts DEF PiecesAt
<1>5. d.posted[p].qty = qty[p] /\ net[p] < 0
  BY <1>1, SaleLineFields
<1>6. Q \in Nat \ {0}
  BY <1>2, PricedFacts
<1>7. SumFunctionOnSet(qty, at) = Q
  BY <1>2, PiecesOfLine
<1> HIDE DEF net, qty
<1>8. /\ N \in Nat
      /\ \A q \in at : net[q] \in Int
      /\ SumFunctionOnSet(net, at) = N
      /\ \A q \in at : ~IsLast(lines, q) =>
           net[q] \in Nat /\ Q * net[q] <= N * QtyOf(lines, q) + 2 * Q
  BY <1>2, <1>4, NetOfPieces
<1>9. \A q \in R : ~IsLast(lines, q)
  <2>1. PICK last \in at : \A q \in at \ {last} : ~IsLast(lines, q)
    BY <1>2, LastPiece
  <2>2. IsLast(lines, p)
    <3> SUFFICES ASSUME ~IsLast(lines, p) PROVE FALSE
      OBVIOUS
    <3>1. net[p] \in Nat
      BY <1>2, <1>8
    <3> QED BY <1>5, <3>1
  <2> QED BY <1>2, <2>1, <2>2
<1> HIDE DEF at, N, Q, k
<1> DEFINE value == [q \in R |-> Q * net[q]]
           bound == [q \in R |-> N * qty[q]]
           two == [q \in R |-> 2 * Q]
           both == [q \in R |-> bound[q] + two[q]]
<1>10. \A q \in R : /\ net[q] \in Int /\ qty[q] \in Int
                    /\ value[q] = Q * net[q] /\ value[q] \in Int
                    /\ bound[q] = N * qty[q] /\ bound[q] \in Int
                    /\ two[q] = 2 * Q /\ two[q] \in Int
                    /\ both[q] = bound[q] + two[q] /\ both[q] \in Int
                    /\ value[q] <= both[q]
  <2> TAKE q \in R
  <2>1. /\ net[q] \in Int /\ qty[q] \in Int /\ Q * net[q] <= N * qty[q] + 2 * Q
        /\ Q * net[q] \in Int /\ N * qty[q] \in Int /\ 2 * Q \in Int
    <3>1. net[q] \in Int /\ qty[q] \in Nat /\ Q * net[q] <= N * qty[q] + 2 * Q
      BY <1>4, <1>8, <1>9
    <3> QED BY <1>6, <1>8, <3>1
  <2> QED BY <2>1
<1> HIDE DEF R, value, bound, two, both
<1>11. /\ SumFunctionOnSet(net, at) = net[p] + SumFunctionOnSet(net, R)
       /\ SumFunctionOnSet(qty, at) = qty[p] + SumFunctionOnSet(qty, R)
  <2>1. \A q \in at : net[q] \in Int /\ qty[q] \in Int
    BY <1>4, <1>8
  <2> QED BY <1>2, <2>1, SumRemove DEF R
<1>12. SumFunctionOnSet(value, R) = Q * SumFunctionOnSet(net, R)
  BY <1>2, <1>6, <1>10, SumTimes
<1>13. SumFunctionOnSet(bound, R) = N * SumFunctionOnSet(qty, R)
  BY <1>2, <1>8, <1>10, SumTimes
<1>14. SumFunctionOnSet(two, R) = 2 * Q * m
  <2>1. 2 * Q \in Int /\ \A q \in R : two[q] = 2 * Q
    BY <1>6, <1>10
  <2> QED BY <1>2, <2>1, SumConstant
<1>15. SumFunctionOnSet(both, R) = SumFunctionOnSet(bound, R) + SumFunctionOnSet(two, R)
  <2>1. \A q \in R : bound[q] \in Int /\ two[q] \in Int /\ both[q] = bound[q] + two[q]
    BY <1>10
  <2> QED BY <1>2, <2>1, SumPlus
<1>16. SumFunctionOnSet(value, R) <= SumFunctionOnSet(both, R)
  BY <1>2, <1>10, SumMono
<1>17. SumFunctionOnSet(net, R) \in Int /\ SumFunctionOnSet(qty, R) \in Int
  BY <1>2, <1>10, SumInt
<1>18. m \in Nat /\ m = Cardinality(at) - 1 /\ Cardinality(at) \in Nat
  BY <1>2, FS_RemoveElement, FS_CardinalityType DEF R
<1>19. net[p] \in Int /\ qty[p] \in Nat
  BY <1>2, <1>4, <1>8
<1> HIDE DEF m
<1>20. N * qty[p] < 2 * m * Q
  <2>1. N = net[p] + SumFunctionOnSet(net, R) /\ Q = qty[p] + SumFunctionOnSet(qty, R)
    BY <1>7, <1>8, <1>11
  <2>2. Q * SumFunctionOnSet(net, R) <= N * SumFunctionOnSet(qty, R) + 2 * Q * m
    BY <1>12, <1>13, <1>14, <1>15, <1>16
  <2> QED BY <1>5, <1>6, <1>8, <1>17, <1>18, <1>19, <2>1, <2>2, LastNegative
<1> QED BY <1>3, <1>5, <1>8, <1>18, <1>20 DEF k, Q
\* A purchase is posted in one piece per line.
LEMMA OnePieceEach ==
  ASSUME NEW K, IsFiniteSet(K), NEW S, S = {<<k, 0>> : k \in K}, NEW f, NEW A,
         \A k \in K : A[k] \in Int /\ f[<<k, 0>>] = A[k]
  PROVE  SumFunctionOnSet(f, S) = SumFunctionOnSet(A, K)
<1> DEFINE e == [k \in K |-> <<k, 0>>]
           h == [k \in K |-> f[e[k]]]
<1>1. S = {e[k] : k \in K}
  OBVIOUS
<1>2. \A x, y \in K : e[x] = e[y] => x = y
  OBVIOUS
<1>3. \A x \in K : f[e[x]] \in Int
  OBVIOUS
<1>4. \A k \in K : h[k] = A[k] /\ h[k] \in Int
  OBVIOUS
<1> HIDE DEF e
<1>5. SumFunctionOnSet(f, S) = SumFunctionOnSet(h, K)
  <2>1. SumFunctionOnSet(f, {e[k] : k \in K}) = SumFunctionOnSet([k \in K |-> f[e[k]]], K)
    BY <1>2, <1>3, SumRenamed
  <2> QED BY <1>1, <2>1
<1> HIDE DEF h
<1>6. SumFunctionOnSet(h, K) = SumFunctionOnSet(A, K)
  BY <1>4, SumSame
<1> QED BY <1>5, <1>6

AtCost(d) ==
  /\ SumOf([p \in DOMAIN d.posted |-> d.posted[p].cost]) = d.total
  /\ \A p \in DOMAIN d.posted :
       2 * (d.posted[p].unitCost * d.posted[p].qty - d.posted[p].cost * MoneyScale)
         \in -d.posted[p].qty .. d.posted[p].qty

\* What a posted line of a purchase says.
LEMMA PurchaseLineFields ==
  ASSUME NEW n, NEW lines, NEW order, Priced(lines, n, order),
         NEW k \in 1 .. n, NEW line, line = PurchaseLine(lines, order, k)
  PROVE  /\ line.qty = lines[k].qty /\ line.rate = catalog[lines[k].item].rate
         /\ line.disc = lines[k].disc /\ line.order = OrderShares(lines, order)[k]
         /\ line.tax = Taxes(lines, order, RatesOf(catalog))[k]
         /\ line.total = AfterDiscount(lines)[k] + line.tax
         /\ line.cost = AfterDiscount(lines)[k] - line.order + line.tax
         /\ line.unitCost = InventoryUnitCost(line.cost, line.qty)
         /\ line.qty \in Nat \ {0} /\ line.disc \in Nat /\ line.order \in Nat /\ line.tax \in Nat
         /\ line.cost \in Nat /\ AfterDiscount(lines)[k] - line.order \in Nat
         /\ AfterDiscount(lines)[k] \in Nat
<1>1. /\ line.qty = lines[k].qty /\ line.rate = catalog[lines[k].item].rate
      /\ line.disc = lines[k].disc /\ line.order = OrderShares(lines, order)[k]
      /\ line.tax = Taxes(lines, order, RatesOf(catalog))[k]
      /\ line.total = AfterDiscount(lines)[k] + line.tax
      /\ line.cost = AfterDiscount(lines)[k] - line.order + line.tax
      /\ line.unitCost = InventoryUnitCost(line.cost, line.qty)
  BY DEF PurchaseLine, InventoryCost, RatesOf
<1> DEFINE g == Gross(lines)[k]
           c == lines[k].disc
           o == OrderShares(lines, order)[k]
           t == Taxes(lines, order, RatesOf(catalog))[k]
           w == AfterDiscount(lines)[k]
<1>2. g \in Nat /\ c \in Nat /\ o \in Nat /\ t \in Nat /\ c + o <= g /\ w = g - c
  BY PricedFacts
<1>3. lines[k].qty \in Nat \ {0}
  BY PricedFacts
<1>4. line.disc = c /\ line.order = o /\ line.tax = t /\ line.cost = w - o + t
  BY <1>1
<1> HIDE DEF g, c, o, t, w
<1>5. w - o \in Nat /\ w \in Nat /\ w - o + t \in Nat
  BY <1>2
<1>6. /\ line.qty \in Nat \ {0} /\ line.disc \in Nat /\ line.order \in Nat /\ line.tax \in Nat
      /\ line.cost \in Nat /\ w - line.order \in Nat /\ w \in Nat
  BY <1>1, <1>2, <1>3, <1>4, <1>5
<1> QED BY <1>1, <1>6 DEF w

\* The posted lines of a purchase add up to it, none is worth less than nothing, and
\* what they cost is what they enter the stock at.
LEMMA PurchaseFacts ==
  ASSUME NEW n, NEW lines, NEW order, Priced(lines, n, order),
         NEW d, d = PurchaseDoc(lines, order), NEW f, f.lines = lines
  PROVE  AddsUp(d, f) /\ NearZero(d, f) /\ AtCost(d)
<1> DEFINE S == {<<k, 0>> : k \in 1 .. n}
           W == AfterDiscount(lines)
           D == [k \in 1 .. n |-> lines[k].disc]
           O == OrderShares(lines, order)
           T == Taxes(lines, order, RatesOf(catalog))
           net == [p \in S |-> d.posted[p].total - d.posted[p].order]
           off == [p \in S |-> d.posted[p].disc + d.posted[p].order]
           qty == [p \in S |-> d.posted[p].qty]
           cost == [p \in S |-> d.posted[p].cost]
           u == [k \in 1 .. n |-> W[k] - O[k]]
           v == [k \in 1 .. n |-> u[k] + T[k]]
           w == [k \in 1 .. n |-> D[k] + O[k]]
           q == [k \in 1 .. n |-> lines[k].qty]
<1>1. n \in Nat /\ DOMAIN lines = 1 .. n /\ IsFiniteSet(1 .. n) /\ order \in Nat
  BY PricedFacts DEF Priced
<1>2. /\ d.posted = [p \in S |-> PurchaseLine(lines, order, p[1])] /\ DOMAIN d.posted = S
      /\ d.discount = LineDiscounts(lines) + order /\ d.total = DocTotal(lines, order)
  <2> DEFINE posted == [p \in S |-> PurchaseLine(lines, order, p[1])]
  <2> DEFINE no == FALSE
  <2>1. d = DocOf(lines, order, "RECEIVED", posted, no)
    BY <1>1 DEF PurchaseDoc
  <2>2. DOMAIN posted = S
    OBVIOUS
  <2> HIDE DEF posted, S, no
  <2>3. /\ d.posted = posted /\ d.discount = LineDiscounts(lines) + order
        /\ d.total = DocTotal(lines, order)
    BY <2>1, DocFields
  <2> QED BY <2>2, <2>3 DEF posted
<1>3. \A p \in S : p[1] \in 1 .. n /\ p = <<p[1], 0>>
  OBVIOUS
<1>4. ASSUME NEW k \in 1 .. n
      PROVE  /\ d.posted[<<k, 0>>] = PurchaseLine(lines, order, k) /\ <<k, 0>> \in S
  BY <1>2
<1>5. ASSUME NEW k \in 1 .. n
      PROVE  /\ net[<<k, 0>>] = v[k] /\ off[<<k, 0>>] = w[k] /\ qty[<<k, 0>>] = q[k]
             /\ cost[<<k, 0>>] = v[k]
             /\ W[k] \in Int /\ O[k] \in Int /\ T[k] \in Int /\ D[k] \in Int
             /\ u[k] = W[k] - O[k] /\ v[k] = u[k] + T[k] /\ w[k] = D[k] + O[k]
             /\ u[k] \in Nat /\ u[k] \in Int /\ v[k] \in Int /\ w[k] \in Int /\ q[k] \in Int
             /\ q[k] = lines[k].qty
             /\ NetOf(d.posted[<<k, 0>>]) = u[k]
  <2> DEFINE line == PurchaseLine(lines, order, k)
  <2>1. /\ line.qty = lines[k].qty /\ line.disc = D[k] /\ line.order = O[k] /\ line.tax = T[k]
        /\ line.total = W[k] + line.tax /\ line.cost = W[k] - line.order + line.tax
        /\ line.qty \in Nat \ {0} /\ line.disc \in Nat /\ line.order \in Nat
        /\ line.tax \in Nat /\ W[k] - line.order \in Nat /\ W[k] \in Nat
    BY PurchaseLineFields
  <2>2. NetOf(line) = line.total - line.tax - line.order
    BY DEF NetOf
  <2> HIDE DEF line
  <2>3. /\ net[<<k, 0>>] = line.total - line.order /\ off[<<k, 0>>] = line.disc + line.order
        /\ qty[<<k, 0>>] = line.qty /\ cost[<<k, 0>>] = line.cost
    BY <1>4 DEF line
  <2>4. /\ u[k] = W[k] - O[k] /\ v[k] = u[k] + T[k] /\ w[k] = D[k] + O[k] /\ q[k] = lines[k].qty
    OBVIOUS
  <2> HIDE DEF net, off, qty, cost, u, v, w, q, W, O, T, D
  <2>5. NetOf(d.posted[<<k, 0>>]) = NetOf(line)
    BY <1>4 DEF line
  <2> QED BY <2>1, <2>2, <2>3, <2>4, <2>5
<1>6. /\ SumFunctionOnSet(W, 1 .. n) = Subtotal(lines) - LineDiscounts(lines)
      /\ SumFunctionOnSet(O, 1 .. n) = order
      /\ SumFunctionOnSet(D, 1 .. n) = LineDiscounts(lines)
      /\ SumFunctionOnSet(T, 1 .. n) = SumOf(Taxes(lines, order, RatesOf(catalog)))
      /\ Subtotal(lines) \in Nat /\ LineDiscounts(lines) \in Nat
      /\ SumOf(Taxes(lines, order, RatesOf(catalog))) \in Nat
  <2>1. SumFunctionOnSet(W, 1 .. n) = Subtotal(lines) - LineDiscounts(lines)
    BY LineAmounts DEF Priced
  <2>2. /\ SumFunctionOnSet(D, 1 .. n) = LineDiscounts(lines)
        /\ SumFunctionOnSet(O, 1 .. n) = order
        /\ SumFunctionOnSet(T, 1 .. n) = SumOf(Taxes(lines, order, RatesOf(catalog)))
    BY PricedFacts
  <2>5. /\ Subtotal(lines) \in Nat /\ LineDiscounts(lines) \in Nat
        /\ SumOf(Taxes(lines, order, RatesOf(catalog))) \in Nat
    BY PricedFacts
  <2> HIDE DEF W, O, D, T
  <2> QED BY <2>1, <2>2, <2>5
<1> DEFINE K == 1 .. n
<1> HIDE DEF K
<1> HIDE DEF W, O, D, T, u, v, w, q
<1>7. IsFiniteSet(K)
  BY <1>1 DEF K
<1>8. SumFunctionOnSet(u, K) = SumFunctionOnSet(W, K) - SumFunctionOnSet(O, K)
  <2>1. \A k \in K : W[k] \in Int /\ O[k] \in Int /\ u[k] = W[k] - O[k]
    BY <1>5 DEF K
  <2> QED BY <1>7, <2>1, SumMinus
<1>9. SumFunctionOnSet(v, K) = SumFunctionOnSet(u, K) + SumFunctionOnSet(T, K)
  <2>1. \A k \in K : u[k] \in Int /\ T[k] \in Int /\ v[k] = u[k] + T[k]
    BY <1>5 DEF K
  <2> QED BY <1>7, <2>1, SumPlus
<1>10. SumFunctionOnSet(w, K) = SumFunctionOnSet(D, K) + SumFunctionOnSet(O, K)
  <2>1. \A k \in K : D[k] \in Int /\ O[k] \in Int /\ w[k] = D[k] + O[k]
    BY <1>5 DEF K
  <2> QED BY <1>7, <2>1, SumPlus
<1>11. SumFunctionOnSet(v, 1 .. n) = d.total /\ SumFunctionOnSet(w, 1 .. n) = d.discount
  <2> DEFINE t == SumOf(Taxes(lines, order, RatesOf(catalog)))
  <2>1. d.total = Subtotal(lines) - LineDiscounts(lines) - order + t
    BY <1>2 DEF DocTotal
  <2>2. SumFunctionOnSet(T, 1 .. n) = t /\ t \in Nat
    BY <1>6
  <2> HIDE DEF t
  <2> QED BY <1>1, <1>2, <1>6, <1>8, <1>9, <1>10, <2>1, <2>2 DEF K
<1>12. /\ SumFunctionOnSet(net, S) = SumFunctionOnSet(v, 1 .. n)
       /\ SumFunctionOnSet(off, S) = SumFunctionOnSet(w, 1 .. n)
       /\ SumFunctionOnSet(cost, S) = SumFunctionOnSet(v, 1 .. n)
       /\ \A k \in 1 .. n : SumFunctionOnSet(qty, {p \in S : p[1] = k}) = q[k]
  <2>1. /\ \A k \in K : v[k] \in Int /\ net[<<k, 0>>] = v[k]
        /\ \A k \in K : w[k] \in Int /\ off[<<k, 0>>] = w[k]
        /\ \A k \in K : v[k] \in Int /\ cost[<<k, 0>>] = v[k]
        /\ \A k \in K : q[k] \in Int /\ qty[<<k, 0>>] = q[k]
    BY <1>5 DEF K
  <2>2. S = {<<k, 0>> : k \in K}
    BY DEF K
  <2> HIDE DEF net, off, cost, qty, S
  <2>3. SumFunctionOnSet(net, S) = SumFunctionOnSet(v, K)
    BY <1>7, <2>1, <2>2, OnePieceEach
  <2>4. SumFunctionOnSet(off, S) = SumFunctionOnSet(w, K)
    BY <1>7, <2>1, <2>2, OnePieceEach
  <2>5. SumFunctionOnSet(cost, S) = SumFunctionOnSet(v, K)
    BY <1>7, <2>1, <2>2, OnePieceEach
  <2>6. ASSUME NEW k \in K PROVE SumFunctionOnSet(qty, {p \in S : p[1] = k}) = q[k]
    <3> DEFINE z == <<k, 0>>
    <3>1. {p \in S : p[1] = k} = {z}
      BY <2>2
    <3>2. qty[z] \in Int /\ qty[z] = q[k]
      BY <2>1
    <3> HIDE DEF z
    <3>3. SumFunctionOnSet(qty, {z}) = qty[z]
      BY <3>2, SumOne
    <3> QED BY <3>1, <3>2, <3>3
  <2> QED BY <2>3, <2>4, <2>5, <2>6 DEF K
<1>13. AddsUp(d, f)
  <2>1. /\ SumOf([p \in DOMAIN d.posted |-> d.posted[p].total - d.posted[p].order])
             = SumFunctionOnSet(net, S)
        /\ SumOf([p \in DOMAIN d.posted |-> d.posted[p].disc + d.posted[p].order])
             = SumFunctionOnSet(off, S)
        /\ [p \in DOMAIN d.posted |-> d.posted[p].qty] = qty
    BY <1>2 DEF SumOf
  <2>2. \A k \in DOMAIN f.lines : /\ PostedAt(d, k) = {p \in S : p[1] = k}
                                  /\ k \in 1 .. n /\ f.lines[k].qty = q[k]
    BY <1>1, <1>2, <1>5 DEF PostedAt
  <2> HIDE DEF net, off, qty, S
  <2>3. \A k \in DOMAIN f.lines :
          SumFunctionOnSet([p \in DOMAIN d.posted |-> d.posted[p].qty], PostedAt(d, k))
            = f.lines[k].qty
    <3> TAKE k \in DOMAIN f.lines
    <3>1. SumFunctionOnSet(qty, {p \in S : p[1] = k}) = q[k]
      BY <1>12, <2>2
    <3> QED BY <2>1, <2>2, <3>1
  <2> QED BY <1>11, <1>12, <2>1, <2>3 DEF AddsUp
<1>14. NearZero(d, f)
  <2>1. ASSUME NEW p \in S PROVE ~(NetOf(d.posted[p]) < 0)
    <3>1. NetOf(d.posted[p]) \in Nat
      BY <1>3, <1>5
    <3> QED BY <3>1
  <2> QED BY <1>2, <2>1 DEF NearZero
<1>15. AtCost(d)
  <2>1. SumOf([p \in DOMAIN d.posted |-> d.posted[p].cost]) = SumFunctionOnSet(cost, S)
    BY <1>2 DEF SumOf
  <2>2. ASSUME NEW p \in DOMAIN d.posted
        PROVE  2 * (d.posted[p].unitCost * d.posted[p].qty - d.posted[p].cost * MoneyScale)
                 \in -d.posted[p].qty .. d.posted[p].qty
    <3> DEFINE k == p[1]
               line == PurchaseLine(lines, order, k)
               x == line.cost
               Q == line.qty
               r == line.unitCost
    <3>1. k \in 1 .. n /\ d.posted[p] = line
      BY <1>2, <1>3
    <3>2. x \in Nat /\ Q \in Nat \ {0} /\ r = InventoryUnitCost(x, Q)
      BY <3>1, PurchaseLineFields
    <3>3. d.posted[p].unitCost = r /\ d.posted[p].qty = Q /\ d.posted[p].cost = x
      BY <3>1
    <3> HIDE DEF x, Q, r
    <3>4. x * MoneyScale \in Nat
      BY <3>2, MoneyScaleAssumption
    <3>5. 2 * (r * Q - x * MoneyScale) \in -Q .. Q
      <4>1. r = RoundRatio(x * MoneyScale, Q)
        BY <3>2 DEF InventoryUnitCost
      <4> QED BY <3>2, <3>4, <4>1, RoundRatioClose
    <3> QED BY <3>3, <3>5
  <2> QED BY <1>11, <1>12, <2>1, <2>2 DEF AtCost
<1> QED BY <1>13, <1>14, <1>15
\* A discount within the ceiling is less than a hundredth of a percent above it.
LEMMA CeilingBound ==
  ASSUME NEW c, NEW C \in Nat, C = ResolveDiscountCeiling(c), NEW x \in Nat, NEW of \in Nat,
         x <= of, WithinCeiling(c, x, of)
  PROVE  /\ x * 10000 <= (C * 100 + 1) * of
         /\ x > 0 => x * 10000 < (C * 100 + 1) * of
<1>1. CASE x = 0
  <2>1. (C * 100 + 1) * of \in Nat
    OBVIOUS
  <2> QED BY <1>1, <2>1
<1>2. CASE x > 0
  <2> DEFINE y == x * 10000
             q == y \div of
             r == y % of
  <2>1. of \in Nat \ {0} /\ y \in Nat
    BY <1>2
  <2>2. q <= C * 100
    BY <1>2, <2>1 DEF WithinCeiling
  <2> HIDE DEF y
  <2>3. q \in Nat /\ r \in 0 .. of - 1 /\ y = of * q + r
    BY <2>1, DivFacts
  <2> HIDE DEF q, r
  <2>4. q * of <= (C * 100) * of
    BY <2>1, <2>2, <2>3, MulMono
  <2>5. (C * 100 + 1) * of = (C * 100) * of + of /\ of * q = q * of
    BY <2>1, <2>3
  <2>6. q * of \in Nat /\ (C * 100) * of \in Nat
    BY <2>1, <2>3
  <2>7. y < (C * 100 + 1) * of
    BY <2>1, <2>3, <2>4, <2>5, <2>6
  <2> QED BY <2>1, <2>7 DEF y
<1> QED BY <1>1, <1>2

\* A clerk has a ceiling.
LEMMA CeilingIsNat == ASSUME NEW c \in Clerks PROVE ResolveDiscountCeiling(c) \in Nat
  BY PricingAssumption DEF ResolveDiscountCeiling, DefaultCeiling

\* All discounts of a sale together stay below twice the ceiling.
LEMMA DiscountsUnderCeilings ==
  ASSUME NEW n, NEW lines, NEW order, Priced(lines, n, order), NEW c \in Clerks,
         UnderCeilings(c, lines, order), LineDiscounts(lines) + order > 0
  PROVE  (LineDiscounts(lines) + order) * 10000
           < 2 * (ResolveDiscountCeiling(c) * 100 + 1) * Subtotal(lines)
<1> DEFINE C == ResolveDiscountCeiling(c)
           M == C * 100 + 1
           G == Gross(lines)
           D == [k \in 1 .. n |-> lines[k].disc]
           K == 1 .. n
           x == [k \in K |-> 10000 * D[k]]
           y == [k \in K |-> M * G[k]]
           s == Subtotal(lines)
           t == LineDiscounts(lines)
<1>1. C \in Nat /\ M \in Nat
  BY CeilingIsNat
<1>2. /\ DOMAIN lines = K /\ IsFiniteSet(K)
      /\ s \in Nat /\ t \in Nat /\ t + order <= s /\ order \in Nat
  BY PricedFacts DEF Priced
<1>3. SumFunctionOnSet(G, K) = s
  BY PricedFacts
<1>4. SumFunctionOnSet(D, K) = t
  BY PricedFacts
<1>5. ASSUME NEW k \in K
      PROVE  /\ G[k] \in Nat /\ D[k] \in Nat /\ D[k] <= G[k] /\ WithinCeiling(c, D[k], G[k])
  <2>1. /\ Gross(lines)[k] \in Nat /\ lines[k].disc \in Nat
        /\ OrderShares(lines, order)[k] \in Nat
        /\ lines[k].disc + OrderShares(lines, order)[k] <= Gross(lines)[k]
    BY PricedFacts
  <2>2. WithinCeiling(c, lines[k].disc, Gross(lines)[k])
    BY <1>2 DEF UnderCeilings
  <2>3. D[k] = lines[k].disc
    OBVIOUS
  <2>4. lines[k].disc <= Gross(lines)[k]
    BY <2>1
  <2> QED BY <2>1, <2>2, <2>3, <2>4
<1>6. WithinCeiling(c, order, s)
  BY DEF UnderCeilings
<1> HIDE DEF C, G, D, s, t
<1>7. ASSUME NEW k \in K
      PROVE  /\ x[k] = 10000 * D[k] /\ y[k] = M * G[k] /\ x[k] \in Int /\ y[k] \in Int
             /\ x[k] <= y[k] /\ (D[k] > 0 => x[k] < y[k])
  <2>1. D[k] * 10000 <= M * G[k] /\ (D[k] > 0 => D[k] * 10000 < M * G[k])
    BY <1>1, <1>5, CeilingBound DEF C
  <2>2. M * G[k] \in Int /\ 10000 * D[k] = D[k] * 10000 /\ 10000 * D[k] \in Int
    BY <1>1, <1>5
  <2> HIDE DEF M
  <2> QED BY <2>1, <2>2
<1> HIDE DEF K, x, y, M
<1>8. SumFunctionOnSet(x, K) = 10000 * t /\ SumFunctionOnSet(y, K) = M * s
  <2>1. \A k \in K : D[k] \in Int /\ x[k] = 10000 * D[k]
    BY <1>5, <1>7
  <2>2. \A k \in K : G[k] \in Int /\ y[k] = M * G[k]
    BY <1>5, <1>7
  <2>3. 10000 \in Int /\ M \in Int
    BY <1>1
  <2>4. SumFunctionOnSet(x, K) = 10000 * SumFunctionOnSet(D, K)
    BY <1>2, <2>1, <2>3, SumTimes
  <2>5. SumFunctionOnSet(y, K) = M * SumFunctionOnSet(G, K)
    BY <1>2, <2>2, <2>3, SumTimes
  <2> QED BY <1>3, <1>4, <2>4, <2>5
<1>9. \A k \in K : x[k] \in Int /\ y[k] \in Int /\ x[k] <= y[k]
  BY <1>7
<1>10. 10000 * t <= M * s
  BY <1>2, <1>8, <1>9, SumMono
<1>11. ASSUME t > 0 PROVE 10000 * t < M * s
  <2>1. \E k \in K : D[k] > 0
    <3> SUFFICES ASSUME \A k \in K : ~(D[k] > 0) PROVE FALSE
      OBVIOUS
    <3>1. \A k \in K : D[k] = 0
      BY <1>5
    <3>2. SumFunctionOnSet(D, K) = 0
      BY <1>2, <3>1, SumZero
    <3> QED BY <1>4, <1>11, <3>2
  <2>2. PICK k \in K : D[k] > 0
    BY <2>1
  <2>3. x[k] < y[k]
    BY <1>7, <2>2
  <2> QED BY <1>2, <1>8, <1>9, <2>3, SumStrict
<1>12. order * 10000 <= M * s /\ (order > 0 => order * 10000 < M * s)
  <2>1. order <= s
    BY <1>2
  <2> QED BY <1>1, <1>2, <1>6, <2>1, CeilingBound DEF C, M
<1>13. t + order > 0
  BY DEF t
<1>14. (t + order) * 10000 < 2 * (M * s)
  <2> DEFINE z == M * s
  <2>1. z \in Int
    BY <1>1, <1>2
  <2> HIDE DEF z
  <2>2. 10000 * t <= z /\ (t > 0 => 10000 * t < z) /\ order * 10000 <= z
        /\ (order > 0 => order * 10000 < z)
    BY <1>10, <1>11, <1>12 DEF z
  <2>3. (t + order) * 10000 < 2 * z
    BY <1>2, <1>13, <2>1, <2>2
  <2> QED BY <2>3 DEF z
<1>15. 2 * (M * s) = 2 * M * s
  BY <1>1, <1>2
<1> QED BY <1>14, <1>15 DEF t, s, M, C

\* A sale takes of a batch no more than it holds.
LEMMA TakenFromBatch ==
  ASSUME NEW n, NEW lines, Fulfilled(lines, n), NEW i \in Items, NEW b \in 1 .. Len(stock[i])
  PROVE  SumFunctionOnSet([p \in Pieces(lines) |-> QtyOf(lines, p)],
           {p \in Pieces(lines) : lines[p[1]].item = i /\ p[2] = b})
         \in 0 .. stock[i][b]
<1> DEFINE qty == [p \in Pieces(lines) |-> QtyOf(lines, p)]
           those == {p \in Pieces(lines) : lines[p[1]].item = i /\ p[2] = b}
           f == [k \in 1 .. n |-> IF lines[k].item = i THEN Drawn(lines, k, b) ELSE 0]
           D == {k \in 1 .. n : lines[k].item = i /\ Drawn(lines, k, b) > 0}
           e == [k \in D |-> <<k, b>>]
           g == [k \in D |-> qty[e[k]]]
<1>1. /\ BatchesOK /\ n \in Nat /\ lines \in [1 .. n -> LineType] /\ DOMAIN lines = 1 .. n
  BY DEF Fulfilled
<1>2. Len(stock[i]) \in Nat /\ Batched(i) /\ b # 0 /\ b \in 0 .. Len(stock[i]) /\ b > 0
  BY <1>1, BatchFacts
<1>3. \A k \in 1 .. n : lines[k].item = i => Drawn(lines, k, b) \in Nat
  BY <1>1, DrawnByLine
<1>4. \A k \in 1 .. n : /\ lines[k].item = i => f[k] = Drawn(lines, k, b)
                        /\ lines[k].item # i => f[k] = 0
  OBVIOUS
<1>5. \A k \in 1 .. n : f[k] \in Int
  <2> HIDE DEF f
  <2> QED BY <1>3, <1>4
<1>6. SumFunctionOnSet(f, 1 .. n) \in 0 .. stock[i][b]
  BY <1>1, DrawnFromBatch
<1>7. D \in SUBSET (1 .. n) /\ \A k \in D : e[k] = <<k, b>> /\ g[k] = qty[e[k]]
  OBVIOUS
<1>8. \A k \in D : k \in 1 .. n /\ lines[k].item = i /\ Drawn(lines, k, b) > 0
  OBVIOUS
<1>9. \A k \in 1 .. n : k \notin D => ~(lines[k].item = i /\ Drawn(lines, k, b) > 0)
  OBVIOUS
<1>10. those = {e[k] : k \in D}
  <2>1. ASSUME NEW p \in those PROVE \E k \in D : p = e[k]
    <3>1. p \in Pieces(lines) /\ lines[p[1]].item = i /\ p[2] = b
      OBVIOUS
    <3>2. p[1] \in 1 .. n /\ p = <<p[1], b>>
      BY <3>1, PiecesFacts
    <3>3. Drawn(lines, p[1], b) > 0
      BY <1>2, <3>1 DEF Pieces
    <3>4. p[1] \in D
      BY <3>1, <3>2, <3>3
    <3> QED BY <1>7, <3>2, <3>4
  <2>2. ASSUME NEW k \in D PROVE e[k] \in those
    <3> DEFINE z == <<k, b>>
    <3>1. z[1] = k /\ z[2] = b /\ z \in {k} \X (0 .. Len(stock[lines[k].item]))
      BY <1>2, <1>8
    <3>2. z \in Pieces(lines)
      BY <1>1, <1>2, <1>8, <3>1 DEF Pieces
    <3>3. e[k] = z
      OBVIOUS
    <3> HIDE DEF e, z
    <3> QED BY <1>8, <3>1, <3>2, <3>3
  <2> HIDE DEF those, D, e
  <2> QED BY <2>1, <2>2
<1>11. \A k \in D : e[k] \in Pieces(lines) /\ qty[e[k]] = QtyOf(lines, <<k, b>>)
  <2> TAKE k \in D
  <2>1. e[k] \in those
    BY <1>10
  <2>2. e[k] \in Pieces(lines)
    BY <2>1
  <2> QED BY <1>7, <2>2
<1>12. IsFiniteSet(1 .. n)
  BY <1>1, FS_Interval
<1> HIDE DEF D
<1>13. IsFiniteSet(D)
  BY <1>7, <1>12, FS_Subset
<1> HIDE DEF e, f, g, qty
<1>14. SumFunctionOnSet(f, 1 .. n) = SumFunctionOnSet(f, D)
  <2>1. \A k \in (1 .. n) \ D : f[k] = 0
    <3> TAKE k \in (1 .. n) \ D
    <3>1. CASE lines[k].item = i
      <4>1. Drawn(lines, k, b) = 0
        BY <1>3, <1>9, <3>1
      <4> QED BY <1>4, <3>1, <4>1
    <3>2. CASE lines[k].item # i
      BY <1>4, <3>2
    <3> QED BY <3>1, <3>2
  <2> QED BY <1>5, <1>7, <1>12, <2>1, SumNonZero
<1>15. \A k \in D : f[k] = g[k] /\ f[k] \in Int
  <2> TAKE k \in D
  <2>1. QtyOf(lines, <<k, b>>) = Drawn(lines, k, b)
    BY <1>2 DEF QtyOf
  <2>2. f[k] = Drawn(lines, k, b) /\ f[k] \in Int
    BY <1>4, <1>5, <1>7, <1>8
  <2> QED BY <1>7, <1>11, <2>1, <2>2
<1>16. SumFunctionOnSet(f, D) = SumFunctionOnSet(g, D)
  BY <1>13, <1>15, SumSame
<1>17. SumFunctionOnSet(qty, {e[k] : k \in D}) = SumFunctionOnSet(g, D)
  <2>1. \A x, y \in D : e[x] = e[y] => x = y
    BY <1>7
  <2>2. \A x \in D : qty[e[x]] \in Int
    BY <1>7, <1>15
  <2> QED BY <1>13, <2>1, <2>2, SumRenamed DEF g
<1> HIDE DEF those
<1>18. SumFunctionOnSet(qty, those) \in 0 .. stock[i][b]
  BY <1>6, <1>10, <1>14, <1>16, <1>17
<1> QED BY <1>18 DEF qty, those
----------------------------------------------------------------------------
(* The invariant of Pricing.  What a clerk has sent was priced with the     *)
(* rates the form had then, and what the server made of it has been right   *)
(* since: neither changes any more, whatever becomes of the catalog and of  *)
(* the stock.                                                               *)

AsPreviewed(d, f) ==
  /\ d.total - d.tax = f.preview - f.tax
  /\ (f.walkIn \/ \A p \in DOMAIN d.posted : d.posted[p].rate = f.rates[f.lines[p[1]].item])
       => d.total = f.preview

Bounded(c, d) ==
  IF d.override THEN c \in Overrides
  ELSE d.discount > 0 =>
         d.discount * 10000 < 2 * (ResolveDiscountCeiling(c) * 100 + 1) * d.subtotal

\* An open form: the list it has, the answers under way, the lines chosen so far.
ItemLists == UNION {[found -> [price : Nat, rate : Nat]] : found \in SUBSET Items}
ChosenLines == UNION {[1 .. n -> [item : Items, price : Nat]] : n \in Nat}
Drafts == [kind : FormKinds, list : ItemLists, asked : SUBSET ItemLists, lines : ChosenLines]

\* A form that was sent, f.
FormOK(f) ==
  f # Nothing =>
    /\ f.kind \in FormKinds /\ f.lines \in Lines /\ f.order \in Nat
    /\ f.rates \in [Items -> Nat] /\ f.preview \in Nat /\ f.paid \in Nat
    /\ f.walkIn => f.paid = f.preview
    /\ DiscountsFit(f.lines, f.order) =>
         /\ f.tax = PreviewTax(f.lines, f.order, f.rates)
         /\ f.preview = PreviewTotal(f.lines, f.order, f.rates)

\* What the server made of it.
DocOK(c, d, f) ==
  /\ d.status \in {"NONE", "REFUSED", "SOLD", "RECEIVED"}
  /\ d # NoDoc => f # Nothing
  /\ d.status \in {"SOLD", "RECEIVED"} =>
       /\ d.total \in Nat /\ d.override \in BOOLEAN
       /\ AddsUp(d, f) /\ NearZero(d, f) /\ AsPreviewed(d, f)
  /\ d.status = "SOLD" => Bounded(c, d)
  /\ d.status = "RECEIVED" => AtCost(d)

PricingInv ==
  /\ catalog \in Catalogs /\ BatchesOK
  /\ DOMAIN draft = Clerks /\ DOMAIN form = Clerks /\ DOMAIN doc = Clerks
  /\ \A c \in Clerks : /\ draft[c] # Nothing => draft[c] \in Drafts /\ form[c] = Nothing
                       /\ FormOK(form[c]) /\ DocOK(c, doc[c], form[c])

\* What a form shows of the lines it sends, when the server accepts them.
Shows(f, lines, order) ==
  /\ f # Nothing /\ f.lines = lines /\ f.rates \in [Items -> Nat]
  /\ f.tax = PreviewTax(lines, order, f.rates)
  /\ f.preview = PreviewTotal(lines, order, f.rates)
  /\ f.walkIn => f.preview = DocTotal(lines, order)

\* A form that the server does not refuse can be priced from the catalog as it is now,
\* and nobody is to owe more than it shows unless a customer is.
LEMMA FormIsPriced ==
  ASSUME PricingInv, NEW c \in Clerks, form[c] # Nothing,
         DiscountsFit(form[c].lines, form[c].order),
         Settles(c, ChargedTotal(form[c].lines, form[c].order))
  PROVE  /\ \E n : Priced(form[c].lines, n, form[c].order)
         /\ Shows(form[c], form[c].lines, form[c].order)
<1> DEFINE f == form[c]
<1>1. /\ FormOK(f) /\ catalog \in Catalogs
  BY DEF PricingInv
<1>2. /\ f.walkIn => f.paid = ChargedTotal(f.lines, f.order)
      /\ f # Nothing /\ DiscountsFit(f.lines, f.order)
  BY DEF Settles
<1> HIDE DEF f
<1>3. PICK n \in Nat : f.lines \in [1 .. n -> LineType]
  BY <1>1, <1>2 DEF FormOK, Lines
<1>4. Priced(f.lines, n, f.order)
  BY <1>1, <1>2, <1>3 DEF FormOK, Priced
<1>5. ChargedTotal(f.lines, f.order) = DocTotal(f.lines, f.order)
  BY DEF ChargedTotal, ChargedTax, DocTotal, RatesOf
<1>6. Shows(f, f.lines, f.order)
  BY <1>1, <1>2, <1>5 DEF FormOK, Shows
<1> QED BY <1>4, <1>6 DEF f

\* The total of a document differs from that of the preview by the tax alone, and only
\* if the rate of some line does.
LEMMA DocAsPreviewed ==
  ASSUME NEW n, NEW lines, NEW order, Priced(lines, n, order),
         NEW d, d.total = DocTotal(lines, order),
         d.tax = SumOf(Taxes(lines, order, RatesOf(catalog))),
         \A k \in 1 .. n : \E p \in DOMAIN d.posted :
           p[1] = k /\ d.posted[p].rate = catalog[lines[k].item].rate,
         NEW f, Shows(f, lines, order)
  PROVE  AsPreviewed(d, f)
<1> DEFINE net == Subtotal(lines) - LineDiscounts(lines) - order
           charged == SumOf(Taxes(lines, order, RatesOf(catalog)))
           shown == SumOf(Taxes(lines, order, f.rates))
<1>1. f.lines = lines /\ (f.walkIn => f.preview = DocTotal(lines, order))
  BY DEF Shows
<1>2. d.total = net + charged /\ d.tax = charged /\ f.preview = net + shown /\ f.tax = shown
  BY DEF DocTotal, Shows, PreviewTotal, PreviewTax
<1>3. net \in Int /\ charged \in Int /\ shown \in Int
  <2>1. /\ n \in Nat /\ lines \in [1 .. n -> LineType] /\ order \in Nat
        /\ DiscountsFit(lines, order) /\ f.rates \in [Items -> Nat]
    BY DEF Priced, Shows
  <2>2. shown \in Nat
    BY <2>1, SharesAndTaxes
  <2>3. /\ Subtotal(lines) \in Nat /\ LineDiscounts(lines) \in Nat /\ charged \in Nat
    BY PricedFacts
  <2>4. net \in Int
    BY <2>1, <2>3
  <2> HIDE DEF net, charged, shown
  <2> QED BY <2>2, <2>3, <2>4
<1>4. ASSUME \A p \in DOMAIN d.posted : d.posted[p].rate = f.rates[lines[p[1]].item]
      PROVE  charged = shown
  <2>1. \A k \in 1 .. n : catalog[lines[k].item].rate = f.rates[lines[k].item]
    BY <1>4
  <2>2. DOMAIN lines = 1 .. n /\ \A k \in 1 .. n : lines[k].item \in Items
    BY PricedFacts
  <2>3. \A k \in DOMAIN lines : RatesOf(catalog)[lines[k].item] = f.rates[lines[k].item]
    BY <2>1, <2>2 DEF RatesOf
  <2>4. Taxes(lines, order, RatesOf(catalog)) = Taxes(lines, order, f.rates)
    BY <2>3 DEF Taxes
  <2> QED BY <2>4
<1> HIDE DEF net, charged, shown
<1>5. d.total - d.tax = f.preview - f.tax
  BY <1>2, <1>3
<1>6. ASSUME \A p \in DOMAIN d.posted : d.posted[p].rate = f.rates[lines[p[1]].item]
      PROVE  d.total = f.preview
  BY <1>2, <1>4, <1>6
<1>7. f.walkIn => d.total = f.preview
  BY <1>1
<1> QED BY <1>1, <1>5, <1>6, <1>7 DEF AsPreviewed

\* What a sale is entered as.
LEMMA SaleIsOK ==
  ASSUME NEW n, NEW lines, NEW order, Priced(lines, n, order), Fulfilled(lines, n),
         NEW c \in Clerks, UnderCeilings(c, lines, order) \/ c \in Overrides,
         NEW d, d = SaleDoc(lines, order, ~UnderCeilings(c, lines, order)),
         NEW f, Shows(f, lines, order)
  PROVE  DocOK(c, d, f)
<1> DEFINE posted == [p \in Pieces(lines) |-> SaleLine(lines, order, p)]
           flag == ~UnderCeilings(c, lines, order)
<1>1. flag \in BOOLEAN /\ (flag <=> ~UnderCeilings(c, lines, order))
  OBVIOUS
<1>2. d = SaleDoc(lines, order, flag)
  OBVIOUS
<1> HIDE DEF flag
<1>3. /\ d.status = "SOLD" /\ d.override = flag /\ d.posted = posted
      /\ d.subtotal = Subtotal(lines) /\ d.discount = LineDiscounts(lines) + order
      /\ d.total = DocTotal(lines, order)
      /\ d.tax = SumOf(Taxes(lines, order, RatesOf(catalog)))
  BY <1>2, DocFields DEF SaleDoc
<1>4. DOMAIN posted = Pieces(lines) /\ f # Nothing /\ f.lines = lines
  BY DEF Shows
<1>5. AddsUp(d, f)
  BY <1>2, <1>4, SaleAddsUp
<1>6. NearZero(d, f)
  BY <1>2, <1>4, SaleNearZero
<1>7. AsPreviewed(d, f)
  <2>1. ASSUME NEW k \in 1 .. n
        PROVE  \E p \in DOMAIN d.posted :
                 p[1] = k /\ d.posted[p].rate = catalog[lines[k].item].rate
    <3>1. PICK p \in PiecesAt(lines, k) : TRUE
      BY PiecesOfLine
    <3>2. p \in Pieces(lines) /\ p[1] = k
      BY DEF PiecesAt
    <3>3. posted[p].rate = catalog[lines[p[1]].item].rate
      BY <3>2, SaleLineFields
    <3> HIDE DEF posted
    <3> QED BY <1>3, <1>4, <3>2, <3>3
  <2> QED BY <1>3, <2>1, DocAsPreviewed
<1>8. Bounded(c, d)
  <2>1. CASE UnderCeilings(c, lines, order)
    <3>1. LineDiscounts(lines) + order > 0 =>
            (LineDiscounts(lines) + order) * 10000
              < 2 * (ResolveDiscountCeiling(c) * 100 + 1) * Subtotal(lines)
      BY <2>1, DiscountsUnderCeilings
    <3> DEFINE within == d.discount > 0 =>
          d.discount * 10000 < 2 * (ResolveDiscountCeiling(c) * 100 + 1) * d.subtotal
    <3>2. within
      BY <1>3, <3>1
    <3>3. ~d.override
      BY <1>1, <1>3, <2>1, Zenon
    <3>4. Bounded(c, d) <=> IF d.override THEN c \in Overrides ELSE within
      BY DEF Bounded
    <3> HIDE DEF within
    <3> QED BY <3>2, <3>3, <3>4, Zenon
  <2>2. CASE ~UnderCeilings(c, lines, order)
    <3>1. d.override
      BY <1>1, <1>3, <2>2, Zenon
    <3>2. c \in Overrides
      BY <2>2
    <3> QED BY <3>1, <3>2, Zenon DEF Bounded
  <2> QED BY <2>1, <2>2
<1>9. d.override \in BOOLEAN
  BY <1>1, <1>3
<1>10. d.total \in Nat
  <2>1. DocTotal(lines, order) \in Nat
    BY PricedFacts
  <2> QED BY <1>3, <2>1
<1> QED BY <1>3, <1>4, <1>5, <1>6, <1>7, <1>8, <1>9, <1>10 DEF DocOK

\* What a purchase is entered as.
LEMMA PurchaseIsOK ==
  ASSUME NEW n, NEW lines, NEW order, Priced(lines, n, order), NEW c \in Clerks,
         NEW d, d = PurchaseDoc(lines, order),
         NEW f, Shows(f, lines, order)
  PROVE  DocOK(c, d, f)
<1> DEFINE S == {<<k, 0>> : k \in DOMAIN lines}
           posted == [p \in S |-> PurchaseLine(lines, order, p[1])]
           no == FALSE
<1>1. d = DocOf(lines, order, "RECEIVED", posted, no)
  BY DEF PurchaseDoc
<1>2. DOMAIN posted = S
  OBVIOUS
<1>3. no \in BOOLEAN
  OBVIOUS
<1> HIDE DEF no
<1>4. /\ d.status = "RECEIVED" /\ d.override = no /\ d.posted = posted
      /\ d.total = DocTotal(lines, order)
      /\ d.tax = SumOf(Taxes(lines, order, RatesOf(catalog)))
  <2> HIDE DEF posted
  <2> QED BY <1>1, DocFields
<1>5. f # Nothing /\ AddsUp(d, f) /\ NearZero(d, f) /\ AtCost(d)
  BY PurchaseFacts DEF Shows
<1>6. AsPreviewed(d, f)
  <2>1. ASSUME NEW k \in 1 .. n
        PROVE  \E p \in DOMAIN d.posted :
                 p[1] = k /\ d.posted[p].rate = catalog[lines[k].item].rate
    <3> DEFINE z == <<k, 0>>
    <3>1. z \in S /\ z[1] = k
      BY PricedFacts
    <3>2. posted[z] = PurchaseLine(lines, order, k)
      BY <3>1
    <3>3. posted[z].rate = catalog[lines[k].item].rate
      BY <3>2, PurchaseLineFields
    <3> HIDE DEF posted, z
    <3> QED BY <1>2, <1>4, <3>1, <3>3
  <2> QED BY <1>4, <2>1, DocAsPreviewed
<1>7. d.total \in Nat
  <2>1. DocTotal(lines, order) \in Nat
    BY PricedFacts
  <2> QED BY <1>4, <2>1
<1>8. d.override \in BOOLEAN
  BY <1>3, <1>4
<1> QED BY <1>4, <1>5, <1>6, <1>7, <1>8 DEF DocOK
LEMMA PricingInitHolds == PricingInit => PricingInv
<1> SUFFICES ASSUME PricingInit PROVE PricingInv
  OBVIOUS
<1>1. catalog \in Catalogs
  BY PricingAssumption DEF PricingInit, Catalogs
<1>2. BatchesOK
  <2>1. stock = Stock0 /\ Stock0 \in [Items -> Seq(Nat \ {0})]
    BY PricingAssumption DEF PricingInit
  <2>2. stock = [i \in Items |-> stock[i]]
    BY <2>1
  <2>3. ASSUME NEW i \in Items PROVE stock[i] \in [1 .. Len(Stock0[i]) -> Nat]
    <3>1. Stock0[i] \in Seq(Nat \ {0}) /\ stock[i] = Stock0[i]
      BY <2>1
    <3> QED BY <3>1
  <2> QED BY <2>2, <2>3 DEF BatchesOK
<1>3. DOMAIN draft = Clerks /\ DOMAIN form = Clerks /\ DOMAIN doc = Clerks
  BY DEF PricingInit
<1>4. ASSUME NEW c \in Clerks
      PROVE  /\ draft[c] # Nothing => draft[c] \in Drafts /\ form[c] = Nothing
             /\ FormOK(form[c]) /\ DocOK(c, doc[c], form[c])
  <2>1. draft[c] = Nothing /\ form[c] = Nothing /\ doc[c] = NoDoc
    BY DEF PricingInit
  <2> QED BY <2>1 DEF FormOK, DocOK, NoDoc
<1> QED BY <1>1, <1>2, <1>3, <1>4 DEF PricingInv

\* A form that was not sent has no document, and one that was is not changed.
LEMMA NotSent ==
  ASSUME PricingInv, NEW c \in Clerks, form[c] = Nothing
  PROVE  doc[c] = NoDoc
  BY DEF PricingInv, DocOK

LEMMA UpdateItemKeeps ==
  ASSUME PricingInv, NEW update \in Updates, UpdateItem(update)
  PROVE  PricingInv'
<1>1. catalog' \in Catalogs
  <2>1. update.item \in Items /\ update.price \in Nat /\ update.rate \in Nat
    BY PricingAssumption
  <2> QED BY <2>1 DEF UpdateItem, PricingInv, Catalogs
<1>2. UNCHANGED <<draft, form, doc, stock>>
  BY DEF UpdateItem
<1> QED BY <1>1, <1>2 DEF PricingInv, BatchesOK

\* An open form may change, as long as it stays one.
LEMMA DraftChanged ==
  ASSUME PricingInv, NEW c \in Clerks, form[c] = Nothing,
         NEW d \in Drafts, draft' = [draft EXCEPT ![c] = d],
         UNCHANGED <<catalog, form, doc, stock>>
  PROVE  PricingInv'
<1>1. DOMAIN draft' = Clerks /\ draft'[c] = d /\ \A a \in Clerks \ {c} : draft'[a] = draft[a]
  BY DEF PricingInv
<1>2. \A a \in Clerks : draft'[a] # Nothing => draft'[a] \in Drafts /\ form[a] = Nothing
  BY <1>1 DEF PricingInv
<1> QED BY <1>1, <1>2 DEF PricingInv, BatchesOK

\* An answer is a list of items.
LEMMA AnswerIsList ==
  ASSUME PricingInv, NEW found \in Results
  PROVE  Answer(found) \in ItemLists
<1>1. found \in SUBSET Items
  BY PricingAssumption
<1>2. Answer(found) \in [found -> [price : Nat, rate : Nat]]
  BY <1>1 DEF PricingInv, Catalogs, Answer
<1> QED BY <1>1, <1>2 DEF ItemLists

LEMMA LoadKeeps ==
  ASSUME PricingInv, NEW c \in Clerks, NEW kind \in FormKinds, NEW found \in Results,
         Load(c, kind, found)
  PROVE  PricingInv'
<1> DEFINE none == <<>>
           d == [kind |-> kind, list |-> Answer(found), asked |-> {}, lines |-> none]
<1>1. /\ draft' = [draft EXCEPT ![c] = d] /\ UNCHANGED <<catalog, form, doc, stock>>
      /\ form[c] = Nothing
  BY DEF Load
<1>2. none \in ChosenLines
  BY DEF ChosenLines
<1>3. Answer(found) \in ItemLists
  BY AnswerIsList
<1> HIDE DEF none
<1>4. d \in Drafts
  BY <1>2, <1>3 DEF Drafts
<1> HIDE DEF d
<1> QED BY <1>1, <1>4, DraftChanged

LEMMA SearchKeeps ==
  ASSUME PricingInv, NEW c \in Clerks, NEW found \in Results, Search(c, found)
  PROVE  PricingInv'
<1> DEFINE d == [draft[c] EXCEPT !.asked = @ \cup {Answer(found)}]
<1>1. draft[c] \in Drafts /\ form[c] = Nothing
  BY DEF Search, PricingInv
<1>2. draft' = [draft EXCEPT ![c] = d] /\ UNCHANGED <<catalog, form, doc, stock>>
  BY DEF Search
<1>3. Answer(found) \in ItemLists
  BY AnswerIsList
<1>4. d \in Drafts
  BY <1>1, <1>3 DEF Drafts
<1> HIDE DEF d
<1> QED BY <1>1, <1>2, <1>4, DraftChanged

LEMMA SetItemsKeeps ==
  ASSUME PricingInv, NEW c \in Clerks, SetItems(c)
  PROVE  PricingInv'
<1>1. draft[c] \in Drafts /\ form[c] = Nothing
  BY DEF SetItems, PricingInv
<1>2. PICK answer \in draft[c].asked :
        draft' = [draft EXCEPT ![c].list = answer, ![c].asked = @ \ {answer}]
  BY DEF SetItems
<1> DEFINE d == [draft[c] EXCEPT !.list = answer, !.asked = @ \ {answer}]
<1>3. draft' = [draft EXCEPT ![c] = d] /\ UNCHANGED <<catalog, form, doc, stock>>
  BY <1>2 DEF SetItems, PricingInv
<1>4. d \in Drafts
  BY <1>1, <1>2 DEF Drafts
<1> HIDE DEF d
<1> QED BY <1>1, <1>3, <1>4, DraftChanged

LEMMA ChooseItemKeeps ==
  ASSUME PricingInv, NEW c \in Clerks, NEW k \in Slots, NEW i \in Items, NEW cost \in Costs,
         ChooseItem(c, k, i, cost)
  PROVE  PricingInv'
<1> DEFINE f == draft[c]
           line == [item |-> i, price |-> IF f.kind = "sale" THEN f.list[i].price ELSE cost]
           lines == [j \in DOMAIN f.lines \cup {k} |-> IF j = k THEN line ELSE f.lines[j]]
           d == [f EXCEPT !.lines = lines]
<1>1. /\ f \in Drafts /\ i \in DOMAIN f.list /\ k \in 1 .. Len(f.lines) + 1
      /\ form[c] = Nothing
  BY DEF ChooseItem, PricingInv
<1>2. draft' = [draft EXCEPT ![c] = d] /\ UNCHANGED <<catalog, form, doc, stock>>
  BY DEF ChooseItem
<1> HIDE DEF f
<1>3. line \in [item : Items, price : Nat]
  <2>1. PICK found \in SUBSET Items : f.list \in [found -> [price : Nat, rate : Nat]]
    BY <1>1 DEF Drafts, ItemLists
  <2>2. f.list[i].price \in Nat
    BY <1>1, <2>1
  <2>3. cost \in Nat
    BY PricingAssumption
  <2> QED BY <2>2, <2>3
<1>4. PICK n \in Nat : f.lines \in [1 .. n -> [item : Items, price : Nat]]
  BY <1>1 DEF Drafts, ChosenLines
<1> HIDE DEF line
<1>5. lines \in ChosenLines
  <2>1. Len(f.lines) = n
    BY <1>4
  <2>2. PICK m \in Nat : 1 .. n \cup {k} = 1 .. m
    <3>1. k \in 1 .. n + 1
      BY <1>1, <2>1
    <3>2. CASE k = n + 1
      <4>1. 1 .. n \cup {k} = 1 .. n + 1
        BY <3>2
      <4> QED BY <4>1
    <3>3. CASE k \in 1 .. n
      <4>1. 1 .. n \cup {k} = 1 .. n
        BY <3>3
      <4> QED BY <4>1
    <3> QED BY <3>1, <3>2, <3>3
  <2>3. lines \in [1 .. m -> [item : Items, price : Nat]]
    BY <1>3, <1>4, <2>2
  <2> HIDE DEF lines
  <2> QED BY <2>3 DEF ChosenLines
<1> HIDE DEF lines
<1>6. d \in Drafts
  BY <1>1, <1>5 DEF Drafts
<1> HIDE DEF d
<1> QED BY <1>1, <1>2, <1>6, DraftChanged

\* A form is sent once.
LEMMA FormSent ==
  ASSUME PricingInv, NEW c \in Clerks, form[c] = Nothing, NEW f, FormOK(f),
         form' = [form EXCEPT ![c] = f], draft' = [draft EXCEPT ![c] = Nothing],
         UNCHANGED <<catalog, doc, stock>>
  PROVE  PricingInv'
<1>1. /\ DOMAIN form' = Clerks /\ form'[c] = f /\ \A a \in Clerks \ {c} : form'[a] = form[a]
      /\ DOMAIN draft' = Clerks /\ draft'[c] = Nothing
      /\ \A a \in Clerks \ {c} : draft'[a] = draft[a]
  BY DEF PricingInv
<1>2. DocOK(c, doc[c], f)
  BY NotSent DEF DocOK, NoDoc
<1>3. ASSUME NEW a \in Clerks
      PROVE  FormOK(form'[a]) /\ DocOK(a, doc[a], form'[a])
  <2>1. CASE a = c
    BY <1>1, <1>2, <2>1
  <2>2. CASE a # c
    BY <1>1, <2>2 DEF PricingInv
  <2> QED BY <2>1, <2>2
<1>4. \A a \in Clerks : draft'[a] # Nothing => draft'[a] \in Drafts /\ form'[a] = Nothing
  BY <1>1 DEF PricingInv
<1> QED BY <1>1, <1>3, <1>4 DEF PricingInv, BatchesOK

\* What is sent is what the form shows, for the lines that were chosen.
LEMMA SubmitKeeps ==
  ASSUME PricingInv, NEW c \in Clerks, NEW fill \in Fills, Submit(c, fill)
  PROVE  PricingInv'
<1> DEFINE chosen == draft[c].lines
           rates == ListRates(c)
           lines == [k \in DOMAIN chosen |->
                       [item |-> chosen[k].item, price |-> chosen[k].price,
                        qty |-> fill[1][k].qty, disc |-> fill[1][k].disc]]
           valid == DiscountsFit(lines, fill[2])
           tax == IF valid THEN PreviewTax(lines, fill[2], rates) ELSE 0
           preview == IF valid THEN PreviewTotal(lines, fill[2], rates) ELSE 0
<1>1. /\ draft[c] # Nothing /\ Len(fill[1]) = Len(chosen)
      /\ draft' = [draft EXCEPT ![c] = Nothing] /\ UNCHANGED <<catalog, doc, stock>>
  BY DEF Submit
<1>2. PICK walkIn \in BOOLEAN, inFull \in BOOLEAN :
        /\ walkIn => draft[c].kind = "sale" /\ inFull
        /\ form' = [form EXCEPT ![c] =
             [kind |-> draft[c].kind, lines |-> lines, order |-> fill[2],
              rates |-> rates, tax |-> tax, preview |-> preview,
              walkIn |-> walkIn, paid |-> IF inFull THEN preview ELSE 0]]
  BY DEF Submit
<1>3. draft[c] \in Drafts /\ form[c] = Nothing
  BY <1>1 DEF PricingInv
<1>4. rates \in [Items -> Nat]
  <2>1. PICK found \in SUBSET Items : draft[c].list \in [found -> [price : Nat, rate : Nat]]
    BY <1>3 DEF Drafts, ItemLists
  <2> QED BY <2>1 DEF ListRates
<1>5. fill[1] \in Seq([qty : Nat \ {0}, disc : Nat]) /\ fill[2] \in Nat
  BY PricingAssumption
<1>6. PICK n \in Nat : chosen \in [1 .. n -> [item : Items, price : Nat]]
  BY <1>3 DEF Drafts, ChosenLines
<1> DEFINE f == [kind |-> draft[c].kind, lines |-> lines, order |-> fill[2],
                 rates |-> rates, tax |-> tax, preview |-> preview,
                 walkIn |-> walkIn, paid |-> IF inFull THEN preview ELSE 0]
           entered == fill[1]
<1> HIDE DEF chosen, rates
<1>7. lines \in [1 .. n -> LineType]
  <2>1. Len(entered) = n
    BY <1>1, <1>6 DEF chosen
  <2>2. \A k \in 1 .. n : entered[k] \in [qty : Nat \ {0}, disc : Nat]
    <3> DEFINE T == [qty : Nat \ {0}, disc : Nat]
    <3>1. entered \in Seq(T)
      BY <1>5
    <3> HIDE DEF entered, T
    <3>2. \A k \in 1 .. n : entered[k] \in T
      BY <2>1, <3>1
    <3> QED BY <3>2 DEF T
  <2> QED BY <1>6, <2>2 DEF LineType
<1> HIDE DEF lines, entered
<1>8. valid => preview \in Nat
  BY <1>4, <1>5, <1>7, TotalIsNat DEF PreviewTotal, PreviewTax
<1>9. /\ valid <=> DiscountsFit(lines, fill[2])
      /\ valid => tax = PreviewTax(lines, fill[2], rates)
                  /\ preview = PreviewTotal(lines, fill[2], rates)
      /\ preview \in Nat
  BY <1>8
<1>10. draft[c].kind \in FormKinds /\ lines \in Lines
  BY <1>3, <1>7 DEF Drafts, Lines
<1> HIDE DEF valid, tax, preview
<1>11. /\ f.kind = draft[c].kind /\ f.lines = lines /\ f.order = fill[2] /\ f.rates = rates
       /\ f.tax = tax /\ f.preview = preview /\ f.paid \in Nat
       /\ f.walkIn => f.paid = f.preview
  BY <1>2, <1>9
<1>12. form' = [form EXCEPT ![c] = f]
  BY <1>2
<1> HIDE DEF f
<1>13. FormOK(f)
  BY <1>4, <1>5, <1>9, <1>10, <1>11 DEF FormOK
<1> QED BY <1>1, <1>3, <1>12, <1>13, FormSent

\* Entering a document leaves everything else of every clerk as it is.
LEMMA DocEntered ==
  ASSUME PricingInv, NEW c \in Clerks, NEW d, doc' = [doc EXCEPT ![c] = d],
         UNCHANGED <<catalog, draft, form>>, BatchesOK',
         DocOK(c, d, form[c])
  PROVE  PricingInv'
<1>1. DOMAIN doc' = Clerks /\ doc'[c] = d /\ \A a \in Clerks \ {c} : doc'[a] = doc[a]
  BY DEF PricingInv
<1>2. ASSUME NEW a \in Clerks PROVE DocOK(a, doc'[a], form[a])
  <2>1. CASE a = c
    BY <1>1, <2>1
  <2>2. CASE a # c
    BY <1>1, <2>2 DEF PricingInv
  <2> QED BY <2>1, <2>2
<1> QED BY <1>1, <1>2 DEF PricingInv

\* What a sale may be entered with.
LEMMA SaleIsPriced ==
  ASSUME PricingInv, NEW c \in Clerks, form[c] # Nothing, SaleAllowed(c)
  PROVE  /\ AtCatalogPrice(form[c].lines) = form[c].lines
         /\ \E n : Priced(form[c].lines, n, form[c].order) /\ Fulfilled(form[c].lines, n)
         /\ Shows(form[c], form[c].lines, form[c].order)
         /\ UnderCeilings(c, form[c].lines, form[c].order) \/ c \in Overrides
<1> DEFINE lines == form[c].lines
<1>1. PICK n \in Nat : lines \in [1 .. n -> LineType]
  BY DEF PricingInv, FormOK, Lines
<1>2. DOMAIN lines = 1 .. n
  BY <1>1
<1>3. PricesCurrent(lines)
  BY DEF SaleAllowed
<1> HIDE DEF lines
<1>4. AtCatalogPrice(lines) = lines
  <2>1. \A k \in 1 .. n : lines[k].price = catalog[lines[k].item].price
    BY <1>2, <1>3 DEF PricesCurrent
  <2>2. ASSUME NEW k \in 1 .. n
        PROVE  [lines[k] EXCEPT !.price = catalog[lines[k].item].price] = lines[k]
    <3>1. lines[k] \in LineType
      BY <1>1
    <3> QED BY <2>1, <3>1 DEF LineType
  <2>3. AtCatalogPrice(lines) = [k \in 1 .. n |-> lines[k]]
    BY <1>2, <2>2 DEF AtCatalogPrice
  <2> QED BY <1>1, <2>3
<1>5. /\ DiscountsFit(lines, form[c].order)
      /\ Settles(c, ChargedTotal(lines, form[c].order))
      /\ UnderCeilings(c, lines, form[c].order) \/ c \in Overrides
      /\ Enough(lines)
  BY <1>4 DEF SaleAllowed, lines
<1>6. Shows(form[c], lines, form[c].order) /\ \E m : Priced(lines, m, form[c].order)
  BY <1>5, FormIsPriced DEF lines
<1>7. Priced(lines, n, form[c].order)
  BY <1>1, <1>6 DEF Priced
<1>8. Fulfilled(lines, n)
  BY <1>1, <1>5 DEF Fulfilled, PricingInv
<1> QED BY <1>4, <1>5, <1>6, <1>7, <1>8 DEF lines

LEMMA CompleteSaleKeeps ==
  ASSUME PricingInv, NEW c \in Clerks, CompleteSale(c)
  PROVE  PricingInv'
<1> DEFINE lines == form[c].lines
           order == form[c].order
           d == SaleDoc(lines, order, ~UnderCeilings(c, lines, order))
           taken(i, b) == SumFunctionOnSet([p \in Pieces(lines) |-> QtyOf(lines, p)],
                            {p \in Pieces(lines) : lines[p[1]].item = i /\ p[2] = b})
<1>1. form[c] # Nothing /\ SaleAllowed(c)
  BY DEF CompleteSale
<1>2. /\ AtCatalogPrice(lines) = lines /\ Shows(form[c], lines, order)
      /\ UnderCeilings(c, lines, order) \/ c \in Overrides
  BY <1>1, SaleIsPriced
<1>3. PICK n : Priced(lines, n, order) /\ Fulfilled(lines, n)
  BY <1>1, SaleIsPriced
<1>4. /\ doc' = [doc EXCEPT ![c] = d]
      /\ stock' = [i \in Items |-> [b \in DOMAIN stock[i] |-> stock[i][b] - taken(i, b)]]
      /\ UNCHANGED <<catalog, draft, form>>
  BY <1>2 DEF CompleteSale, SaleDoc
<1> HIDE DEF lines, order
<1>5. BatchesOK'
  <2>1. \A i \in Items : /\ Len(stock[i]) = Len(Stock0[i])
                         /\ stock[i] \in [1 .. Len(stock[i]) -> Nat]
    BY <1>3, BatchFacts DEF Fulfilled
  <2>2. ASSUME NEW i \in Items, NEW b \in 1 .. Len(stock[i])
        PROVE  stock[i][b] - taken(i, b) \in Nat
    <3>1. taken(i, b) \in 0 .. stock[i][b]
      BY <1>3, TakenFromBatch
    <3>2. stock[i][b] \in Nat
      BY <2>1
    <3> HIDE DEF taken
    <3> QED BY <3>1, <3>2
  <2> HIDE DEF taken
  <2>3. stock' = [i \in Items |-> stock'[i]]
    BY <1>4
  <2>4. ASSUME NEW i \in Items PROVE stock'[i] \in [1 .. Len(Stock0[i]) -> Nat]
    <3>1. stock'[i] = [b \in 1 .. Len(Stock0[i]) |-> stock[i][b] - taken(i, b)]
      BY <1>4, <2>1
    <3>2. \A b \in 1 .. Len(Stock0[i]) : stock[i][b] - taken(i, b) \in Nat
      BY <2>1, <2>2
    <3> QED BY <3>1, <3>2
  <2> QED BY <2>3, <2>4 DEF BatchesOK
<1>6. DocOK(c, d, form[c])
  BY <1>2, <1>3, SaleIsOK
<1> HIDE DEF d
<1> QED BY <1>4, <1>5, <1>6, DocEntered

LEMMA ReceivePurchaseKeeps ==
  ASSUME PricingInv, NEW c \in Clerks, ReceivePurchase(c)
  PROVE  PricingInv'
<1> DEFINE lines == form[c].lines
           order == form[c].order
           d == PurchaseDoc(lines, order)
<1>1. /\ form[c] # Nothing /\ PurchaseAllowed(c)
      /\ doc' = [doc EXCEPT ![c] = d] /\ UNCHANGED <<catalog, draft, form, stock>>
  BY DEF ReceivePurchase, PurchaseDoc
<1>2. Shows(form[c], lines, order)
  BY <1>1, FormIsPriced DEF PurchaseAllowed
<1>3. PICK n : Priced(lines, n, order)
  BY <1>1, FormIsPriced DEF PurchaseAllowed
<1> HIDE DEF lines, order
<1>4. DocOK(c, d, form[c])
  BY <1>2, <1>3, PurchaseIsOK
<1>5. BatchesOK'
  BY <1>1 DEF BatchesOK, PricingInv
<1> HIDE DEF d
<1> QED BY <1>1, <1>4, <1>5, DocEntered

LEMMA RefuseKeeps ==
  ASSUME PricingInv, NEW c \in Clerks, Refuse(c)
  PROVE  PricingInv'
<1> DEFINE d == [status |-> "REFUSED"]
<1>1. /\ form[c] # Nothing /\ doc' = [doc EXCEPT ![c] = d]
      /\ UNCHANGED <<catalog, draft, form, stock>>
  BY DEF Refuse
<1>2. d.status = "REFUSED"
  OBVIOUS
<1> HIDE DEF d
<1>3. DocOK(c, d, form[c])
  BY <1>1, <1>2 DEF DocOK
<1>4. BatchesOK'
  BY <1>1 DEF PricingInv, BatchesOK
<1> QED BY <1>1, <1>3, <1>4, DocEntered

LEMMA PricingNextKeeps == PricingInv /\ [PricingNext]_pricingVars => PricingInv'
<1> SUFFICES ASSUME PricingInv, [PricingNext]_pricingVars PROVE PricingInv'
  OBVIOUS
<1>1. CASE UNCHANGED pricingVars
  BY <1>1 DEF pricingVars, PricingInv, BatchesOK
<1>2. ASSUME NEW update \in Updates, UpdateItem(update) PROVE PricingInv'
  BY <1>2, UpdateItemKeeps
<1>3. ASSUME NEW c \in Clerks, NEW kind \in FormKinds, NEW found \in Results,
             Load(c, kind, found)
      PROVE  PricingInv'
  BY <1>3, LoadKeeps
<1>4. ASSUME NEW c \in Clerks, NEW found \in Results, Search(c, found) PROVE PricingInv'
  BY <1>4, SearchKeeps
<1>5. ASSUME NEW c \in Clerks, SetItems(c) PROVE PricingInv'
  BY <1>5, SetItemsKeeps
<1>6. ASSUME NEW c \in Clerks, NEW k \in Slots, NEW i \in Items, NEW cost \in Costs,
             ChooseItem(c, k, i, cost)
      PROVE  PricingInv'
  BY <1>6, ChooseItemKeeps
<1>7. ASSUME NEW c \in Clerks, NEW fill \in Fills, Submit(c, fill) PROVE PricingInv'
  BY <1>7, SubmitKeeps
<1>8. ASSUME NEW c \in Clerks, CompleteSale(c) PROVE PricingInv'
  BY <1>8, CompleteSaleKeeps
<1>9. ASSUME NEW c \in Clerks, ReceivePurchase(c) PROVE PricingInv'
  BY <1>9, ReceivePurchaseKeeps
<1>10. ASSUME NEW c \in Clerks, Refuse(c) PROVE PricingInv'
  BY <1>10, RefuseKeeps
<1> QED BY <1>1, <1>2, <1>3, <1>4, <1>5, <1>6, <1>7, <1>8, <1>9, <1>10 DEF PricingNext

\* The invariant of Pricing, which every theorem below is read from.  A form was priced
\* with the rates it had when it was sent, whatever searches its list came from, and is
\* not changed any more; a document is right for its form in the sense of DocOK, and no
\* batch is sold below what it holds.
THEOREM PricingInvariant == PricingSpec => []PricingInv
<1> QED BY PricingInitHolds, PricingNextKeeps, PTL DEF PricingSpec

\* Prices, rates, quantities and totals are never negative; no batch is sold below
\* what it holds.
THEOREM PricingTypeCorrect == PricingSpec => []PricingTypeOK
<1>1. PricingInv => PricingTypeOK
  <2> SUFFICES ASSUME PricingInv PROVE PricingTypeOK
    OBVIOUS
  <2>1. \A c \in Clerks :
          /\ form[c] # Nothing =>
               form[c].kind \in FormKinds /\ form[c].preview \in Nat /\ form[c].paid \in Nat
          /\ doc[c].status \in {"NONE", "REFUSED", "SOLD", "RECEIVED"}
    BY DEF PricingInv, FormOK, DocOK
  <2>2. ASSUME NEW c \in Clerks, draft[c] # Nothing
        PROVE  /\ draft[c].kind \in FormKinds
               /\ \A list \in {draft[c].list} \cup draft[c].asked :
                    DOMAIN list \subseteq Items /\ \A i \in DOMAIN list : list[i].rate \in Nat
               /\ \A k \in DOMAIN draft[c].lines :
                    draft[c].lines[k] \in [item : Items, price : Nat]
    <3> DEFINE d == draft[c]
    <3>1. d \in Drafts
      BY <2>2 DEF PricingInv
    <3> HIDE DEF d
    <3>2. ASSUME NEW list \in ItemLists
          PROVE  DOMAIN list \subseteq Items /\ \A i \in DOMAIN list : list[i].rate \in Nat
      BY DEF ItemLists
    <3>3. \A k \in DOMAIN d.lines : d.lines[k] \in [item : Items, price : Nat]
      BY <3>1 DEF Drafts, ChosenLines
    <3>4. d.kind \in FormKinds /\ d.list \in ItemLists /\ d.asked \subseteq ItemLists
      BY <3>1 DEF Drafts
    <3> QED BY <3>2, <3>3, <3>4 DEF d
  <2>3. \A c \in Clerks : Entered(c) => doc[c].total \in Nat /\ doc[c].override \in BOOLEAN
    BY DEF PricingInv, DocOK, Entered
  <2>4. catalog \in [Items -> [price : Nat, rate : Nat]]
    BY DEF PricingInv, Catalogs
  <2>5. \A i \in Items : \A b \in DOMAIN stock[i] : stock[i][b] \in Nat
    BY DEF PricingInv, BatchesOK
  <2> QED BY <2>1, <2>2, <2>3, <2>4, <2>5 DEF PricingTypeOK
<1> QED BY <1>1, PricingInvariant, PTL

\* Whatever searches replace a form's list, and however a manager changes the catalog,
\* what is charged before tax is what the form showed.  The tax is too, and with it the
\* total, if the form had the right rate of every item, and in every walk-in sale.
THEOREM WhatWasShownIsCharged == PricingSpec => []ChargedAsPreviewed
<1>1. PricingInv => ChargedAsPreviewed
  BY DEF PricingInv, DocOK, AsPreviewed, ChargedAsPreviewed, Entered
<1> QED BY <1>1, PricingInvariant, PTL

\* However many lines and batches a document is spread over, its posted lines add up
\* to its total, its discount and the quantities that were ordered.
THEOREM PostedLinesAddUp == PricingSpec => []LinesAddUp
<1>1. PricingInv => LinesAddUp
  <2> SUFFICES ASSUME PricingInv, NEW c \in Clerks, Entered(c)
               PROVE  /\ SumOf([p \in DOMAIN doc[c].posted |->
                                  doc[c].posted[p].total - doc[c].posted[p].order])
                           = doc[c].total
                      /\ SumOf([p \in DOMAIN doc[c].posted |->
                                  doc[c].posted[p].disc + doc[c].posted[p].order])
                           = doc[c].discount
                      /\ \A k \in DOMAIN form[c].lines :
                           SumFunctionOnSet([p \in DOMAIN doc[c].posted |-> doc[c].posted[p].qty],
                             PiecesOf(c, k)) = form[c].lines[k].qty
    BY DEF LinesAddUp, PostedSum
  <2>1. AddsUp(doc[c], form[c])
    BY DEF PricingInv, DocOK, Entered
  <2>2. \A k : PiecesOf(c, k) = PostedAt(doc[c], k)
    BY DEF PiecesOf, PostedAt
  <2> QED BY <2>1, <2>2 DEF AddsUp
<1> QED BY <1>1, PricingInvariant, PTL

\* A posted line is worth less than nothing only by the rounding of its shares.
THEOREM NegativeOnlyByRounding == PricingSpec => []NegativeOnlyNearZero
<1>1. PricingInv => NegativeOnlyNearZero
  <2> SUFFICES ASSUME PricingInv, NEW c \in Clerks, Entered(c)
               PROVE  \A p \in DOMAIN doc[c].posted :
                        NetOf(doc[c].posted[p]) < 0 =>
                          SumFunctionOnSet([q \in DOMAIN doc[c].posted |-> NetOf(doc[c].posted[q])],
                              PiecesOf(c, p[1]))
                            * doc[c].posted[p].qty
                            < 2 * (Cardinality(PiecesOf(c, p[1])) - 1) * form[c].lines[p[1]].qty
    BY DEF NegativeOnlyNearZero
  <2>1. NearZero(doc[c], form[c])
    BY DEF PricingInv, DocOK, Entered
  <2>2. \A k : PiecesOf(c, k) = PostedAt(doc[c], k)
    BY DEF PiecesOf, PostedAt
  <2> QED BY <2>1, <2>2 DEF NearZero
<1> QED BY <1>1, PricingInvariant, PTL

\* All discounts of a sale stay below twice the clerk's ceiling, or the clerk may
\* override it and the sale says so.
THEOREM DiscountsStayBounded == PricingSpec => []DiscountBounded
<1>1. PricingInv => DiscountBounded
  BY DEF PricingInv, DocOK, Bounded, DiscountBounded
<1> QED BY <1>1, PricingInvariant, PTL

\* What a purchase costs is what its lines enter the stock at, to half a unit per unit.
THEOREM StockEntersAtCost == PricingSpec => []StockAtCost
<1>1. PricingInv => StockAtCost
  <2> SUFFICES ASSUME PricingInv, NEW c \in Clerks, doc[c].status = "RECEIVED"
               PROVE  /\ SumOf([p \in DOMAIN doc[c].posted |-> doc[c].posted[p].cost])
                           = doc[c].total
                      /\ \A p \in DOMAIN doc[c].posted :
                           2 * (doc[c].posted[p].unitCost * doc[c].posted[p].qty
                                  - doc[c].posted[p].cost * MoneyScale)
                             \in -doc[c].posted[p].qty .. doc[c].posted[p].qty
    BY DEF StockAtCost, PostedSum
  <2>1. AtCost(doc[c])
    BY DEF PricingInv, DocOK
  <2> QED BY <2>1 DEF AtCost
<1> QED BY <1>1, PricingInvariant, PTL
=============================================================================
