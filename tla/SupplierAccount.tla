-------------------------- MODULE SupplierAccount --------------------------
(***************************************************************************)
(* One supplier's account: the purchases and opening balances owed to the  *)
(* supplier, the payable row of each, and the use cases that move them     *)
(* (receivePurchase, createOpeningEntry, recordSupplierPayment,            *)
(* completeSupplierReturn), with the journal lines they post.              *)
(*                                                                         *)
(* Every request is one READ COMMITTED transaction.  recordPayment reads   *)
(* the open rows before it locks them; purchases are locked in id order,   *)
(* then the opening balances in id order; the last step validates again    *)
(* under the locks, writes and commits, or rolls back.  Payable rows are   *)
(* only written under the lock of their purchase row, so one lock per      *)
(* document stands for both.  Stock and the period check are elsewhere.    *)
(***************************************************************************)
EXTENDS Integers, FiniteSets, Functions, Money

CONSTANTS
  Purchases,  \* purchases that may be received from the supplier
  Openings,   \* opening payable balances of the supplier
  Requests,   \* API calls, each one transaction
  None,       \* no request
  Bill,       \* Bill[p]: what purchase p costs, as a [qty, net, tax] record
  Amounts,    \* amounts an opening balance or a payment may carry
  Rank,       \* Rank[d]: position of d in id order
  Repeats     \* whether a payment may name the same purchase more than once

Docs == Purchases \cup Openings
Grand(p) == Bill[p].net + Bill[p].tax

ASSUME SupplierAssumption ==
  /\ Purchases \cap Openings = {}
  /\ None \notin Requests \cup Docs
  /\ Bill \in [Purchases -> [qty : Nat \ {0}, net : Nat, tax : Nat]]
  \* postJournal refuses a journal whose only lines are zero.
  /\ \A p \in Purchases : Grand(p) > 0
  /\ Amounts \subseteq (Nat \ {0})
  /\ Rank \in [Docs -> Nat]
  /\ \A d, e \in Docs : Rank[d] = Rank[e] => d = e
  /\ Repeats \in BOOLEAN
ASSUME FiniteDocs == IsFiniteSet(Docs)

VARIABLES
  pc,        \* where each request is
  job,       \* the use case and document of each request
  pay,       \* the payment a request records; what it does not allocate is an
             \* advance to the supplier (account 1300)
  locked,    \* FOR UPDATE holder of each document
  purchase,  \* core.purchases
  payable,   \* core.payables and the supplier rows of core.opening_balances
  returned,  \* what the supplier returns of each purchase add up to
  ledger     \* signed (debit-positive) balance per document and account

vars == <<pc, job, pay, locked, purchase, payable, returned, ledger>>
rows == <<purchase, payable, returned, ledger>>

Kinds == {"purchase", "opening", "payment", "return"}
Methods == {"CASH", "BANK"}   \* every method but CASH goes to the bank account
Accounts == {"1000", "1010", "1200", "2000", "3000"}
PurchaseStatus == {"NONE", "RECEIVED", "PARTIALLY_PAID", "PAID"}
RowStatus == {"NONE", "OPEN", "PARTIAL", "SETTLED"}

Zero == [a \in Accounts |-> 0]
NoAlloc == [d \in Docs |-> 0]
NoPay == [method |-> "CASH", alloc |-> NoAlloc, last |-> NoAlloc]
NoRow == [status |-> "NONE", amount |-> 0, paidAmount |-> 0, balance |-> 0]
NoPurchase == [status |-> "NONE", initialPaid |-> 0, paidTotal |-> 0, dueTotal |-> 0]
NoReturn == [qty |-> 0, net |-> 0, tax |-> 0, refund |-> 0]

Init ==
  /\ pc = [r \in Requests |-> "idle"]
  /\ job = [r \in Requests |-> [kind |-> "none", doc |-> None]]
  /\ pay = [r \in Requests |-> NoPay]
  /\ locked = [d \in Docs |-> None]
  /\ purchase = [p \in Purchases |-> NoPurchase]
  /\ payable = [d \in Docs |-> NoRow]
  /\ returned = [p \in Purchases |-> NoReturn]
  /\ ledger = [d \in Docs |-> Zero]

----------------------------------------------------------------------------
Smaller(a, b) == IF a < b THEN a ELSE b
Monus(a, b) == IF a > b THEN a - b ELSE 0

CashAccount(method) == IF method = "CASH" THEN "1000" ELSE "1010"
Exists(d) == IF d \in Purchases THEN purchase[d].status # "NONE"
                                ELSE payable[d].status # "NONE"
IsOpen(d) == payable[d].status \in {"OPEN", "PARTIAL"}

\* A posting adds its journal lines to the documents it is about.
Post(lines) == [d \in Docs |-> [a \in Accounts |-> ledger[d][a] + lines[d][a]]]
PostOn(d, entry) == Post([e \in Docs |-> IF e = d THEN entry ELSE Zero])

\* Documents a request locks before it writes.
Needs(r) == CASE job[r].kind = "payment" -> {d \in Docs : pay[r].alloc[d] > 0}
              [] job[r].kind = "return" -> {job[r].doc}
              [] OTHER -> {}
Holds(r) == {d \in Docs : locked[d] = r}
Ready(r) == pc[r] = "locking" /\ Needs(r) \subseteq Holds(r)

\* COMMIT or ROLLBACK: the row locks go with the transaction.
Finish(r, outcome) ==
  /\ pc' = [pc EXCEPT ![r] = outcome]
  /\ locked' = [d \in Docs |-> IF locked[d] = r THEN None ELSE locked[d]]
  /\ UNCHANGED job

----------------------------------------------------------------------------
(* BEGIN *)
Begin(r, kind, d) ==
  /\ pc[r] = "idle"
  /\ \/ kind \in {"purchase", "return"} /\ d \in Purchases
     \/ kind = "opening" /\ d \in Openings
     \/ kind = "payment" /\ d = None
  /\ kind \in {"purchase", "opening"} =>   \* the row a request inserts is its own
       \A q \in Requests : job[q] # [kind |-> kind, doc |-> d]
  /\ job' = [job EXCEPT ![r] = [kind |-> kind, doc |-> d]]
  /\ pc' = [pc EXCEPT ![r] = IF kind = "return" THEN "locking" ELSE "begun"]
  /\ UNCHANGED <<pay, locked, rows>>

(* receivePurchase: what is paid at once goes through the bank account, and *)
(* a purchase paid in full leaves no payable.                               *)
PurchaseJournal(p, paid) ==
  [Zero EXCEPT !["1200"] = Grand(p), !["1010"] = -paid, !["2000"] = -(Grand(p) - paid)]

ReceivePurchase(r, paid) ==
  LET p == job[r].doc
      due == Grand(p) - paid
  IN  /\ pc[r] = "begun" /\ job[r].kind = "purchase"
      /\ paid \in 0 .. Grand(p)
      /\ purchase' = [purchase EXCEPT ![p] =
           [status |-> IF due = 0 THEN "PAID"
                       ELSE IF paid > 0 THEN "PARTIALLY_PAID" ELSE "RECEIVED",
            initialPaid |-> paid, paidTotal |-> paid, dueTotal |-> due]]
      /\ payable' = IF due = 0 THEN payable
                    ELSE [payable EXCEPT ![p] =
                           [status |-> IF paid = 0 THEN "OPEN" ELSE "PARTIAL",
                            amount |-> Grand(p), paidAmount |-> paid, balance |-> due]]
      /\ ledger' = PostOn(p, PurchaseJournal(p, paid))
      /\ Finish(r, "done")
      /\ UNCHANGED <<pay, returned>>

(* createOpeningEntry with a SUPPLIER_PAYABLE entry. *)
CreateOpeningEntry(r, amount) ==
  LET d == job[r].doc
  IN  /\ pc[r] = "begun" /\ job[r].kind = "opening"
      /\ payable' = [payable EXCEPT ![d] =
           [status |-> "OPEN", amount |-> amount, paidAmount |-> 0, balance |-> amount]]
      /\ ledger' = PostOn(d, [Zero EXCEPT !["3000"] = amount, !["2000"] = -amount])
      /\ Finish(r, "done")
      /\ UNCHANGED <<pay, purchase, returned>>

----------------------------------------------------------------------------
(* recordPayment, up to its locks.  alloc[d] is what the lines on d add up  *)
(* to, last[d] the amount of the last of them.  Each line is compared with  *)
(* the balance as it was read, so that two lines on one document may ask    *)
(* for more than it; what is filled oldest first is one of these choices,   *)
(* and only when nothing is open is nothing allocated.                      *)
Requested(alloc, amount) == SumFunctionOnSet(alloc, Docs) <= amount
Fits(alloc, last, amount) ==
  /\ Requested(alloc, amount)
  /\ \A d \in Docs :
       /\ alloc[d] > 0 => IsOpen(d) /\ last[d] \in 1 .. Smaller(alloc[d], payable[d].balance)
       /\ alloc[d] = 0 => last[d] = 0
  /\ alloc = NoAlloc => \A d \in Docs : ~IsOpen(d)

ReadOpenRows(r, amount, method) ==
  /\ pc[r] = "begun" /\ job[r].kind = "payment"
  /\ \E alloc \in [Docs -> 0 .. amount] :
     \E last \in (IF Repeats THEN [Docs -> 0 .. amount] ELSE {alloc}) :
       /\ Fits(alloc, last, amount)
       /\ pay' = [pay EXCEPT ![r] = [method |-> method, alloc |-> alloc, last |-> last]]
  /\ pc' = [pc EXCEPT ![r] = "locking"]
  /\ UNCHANGED <<job, locked, rows>>

\* Mutant: the rows are locked in any order.
UnorderedLocks(d, e) == TRUE
\* SELECT ... ORDER BY id FOR UPDATE: purchases first, then opening balances.
LockBefore(d, e) == \/ d \in Purchases /\ e \in Openings
                    \/ (d \in Purchases <=> e \in Purchases) /\ Rank[d] < Rank[e]
Lock(r, d) ==
  /\ pc[r] = "locking"
  /\ d \in Needs(r) \ Holds(r)
  /\ \A e \in Needs(r) \ Holds(r) : e = d \/ LockBefore(d, e)
  /\ Exists(d)
  /\ locked[d] = None
  /\ locked' = [locked EXCEPT ![d] = r]
  /\ UNCHANGED <<pc, job, pay, rows>>

\* Mutant: what was read before the lock is taken to hold still.
TrustTheRead(r) == TRUE
\* What recordPayment checks again once the rows are locked.
AllocationsFit(r) ==
  \A d \in Docs : pay[r].alloc[d] > 0 =>
    IsOpen(d) /\ pay[r].alloc[d] <= payable[d].balance

SettledRow(row, amount) ==
  LET paid == row.paidAmount + amount
      balance == row.amount - paid
  IN  [status |-> IF balance = 0 THEN "SETTLED" ELSE "PARTIAL",
       amount |-> row.amount, paidAmount |-> paid, balance |-> balance]
PaidPurchase(p, row) ==
  [purchase[p] EXCEPT !.status = IF row.balance = 0 THEN "PAID" ELSE "PARTIALLY_PAID",
                      !.paidTotal = row.paidAmount, !.dueTotal = row.balance]

\* The row of an opening balance is put back after each line on it.  That of a
\* purchase is not: every line starts from the row as it was locked, and the
\* last one decides what is written.
Recorded(r, d) == IF d \in Openings THEN pay[r].alloc[d] ELSE pay[r].last[d]

PaymentJournal(amount, method) ==
  [Zero EXCEPT !["2000"] = amount, ![CashAccount(method)] = -amount]

RecordPayment(r) ==
  LET alloc == pay[r].alloc
      Row(d) == SettledRow(payable[d], Recorded(r, d))
  IN  /\ Ready(r) /\ job[r].kind = "payment"
      /\ AllocationsFit(r)
      /\ payable' = [d \in Docs |-> IF alloc[d] > 0 THEN Row(d) ELSE payable[d]]
      /\ purchase' = [p \in Purchases |-> IF alloc[p] > 0 THEN PaidPurchase(p, Row(p))
                                                         ELSE purchase[p]]
      /\ ledger' = Post([d \in Docs |-> PaymentJournal(alloc[d], pay[r].method)])
      /\ Finish(r, "done")
      /\ UNCHANGED <<pay, returned>>

----------------------------------------------------------------------------
(* completeSupplierReturn *)
RemainingQty(p) == Bill[p].qty - returned[p].qty
ReturnNet(p, quantity) ==
  AllocateReturnAmount(Bill[p].net - returned[p].net, quantity, RemainingQty(p))
\* Mutant: the tax share is taken of the whole line, not of what is left of it.
TaxOfWholeLine(p, quantity) == AllocateReturnAmount(Bill[p].tax, quantity, Bill[p].qty)
ReturnTax(p, quantity) ==
  AllocateReturnAmount(Bill[p].tax - returned[p].tax, quantity, RemainingQty(p))

\* Mutant: the payable is reduced by the due share although less is still owed.
UncappedReduction(p, total) ==
  Monus(total, RoundRatio((returned[p].net + returned[p].tax + total)
                            * purchase[p].initialPaid, Grand(p)))
\* The refund follows the ratio in which the purchase was first paid, as its
\* journal records it; the rest reduces what is still owed for it.
PayableReduction(p, total) ==
  LET refundTarget == RoundRatio((returned[p].net + returned[p].tax + total)
                                   * purchase[p].initialPaid, Grand(p))
      dueShare == Monus(total, Monus(refundTarget, returned[p].refund))
  IN  Smaller(dueShare, payable[p].balance)

ReturnAllowed(p, quantity) ==
  /\ quantity <= RemainingQty(p)
  /\ ReturnNet(p, quantity) + ReturnTax(p, quantity) > 0   \* postJournal

\* Mutant: the amount of the row stays as it was.
ReturnedRowKeepsAmount(row, balance) ==
  [row EXCEPT !.status = IF balance = 0 THEN "SETTLED" ELSE "PARTIAL",
              !.balance = balance]
\* The amount of the row shrinks with its balance, so that it still adds up.
ReturnedRow(row, balance) ==
  [status |-> IF balance = 0 THEN "SETTLED" ELSE "PARTIAL",
   amount |-> row.paidAmount + balance, paidAmount |-> row.paidAmount,
   balance |-> balance]

ReturnJournal(total, refund, reduction) ==
  [Zero EXCEPT !["1200"] = -total, !["1010"] = refund, !["2000"] = reduction]

CompleteSupplierReturn(r, quantity) ==
  LET p == job[r].doc
      net == ReturnNet(p, quantity)
      tax == ReturnTax(p, quantity)
      reduction == PayableReduction(p, net + tax)
      refund == net + tax - reduction
  IN  /\ Ready(r) /\ job[r].kind = "return"
      /\ ReturnAllowed(p, quantity)
      /\ returned' = [returned EXCEPT ![p] =
           [qty |-> returned[p].qty + quantity, net |-> returned[p].net + net,
            tax |-> returned[p].tax + tax, refund |-> returned[p].refund + refund]]
      /\ payable' = IF payable[p].status = "NONE" THEN payable
                    ELSE [payable EXCEPT ![p] =
                           ReturnedRow(payable[p], payable[p].balance - reduction)]
      /\ ledger' = PostOn(p, ReturnJournal(net + tax, refund, reduction))
      /\ Finish(r, "done")
      /\ UNCHANGED <<pay, purchase>>

----------------------------------------------------------------------------
(* ROLLBACK: a document is not there, validation under the lock fails, or   *)
(* the stock or the accounting period, which are not modelled here, refuse. *)
Reject(r) ==
  /\ pc[r] = "locking"
  /\ Ready(r) \/ \E d \in Needs(r) : ~Exists(d)
  /\ Finish(r, "failed")
  /\ UNCHANGED <<pay, rows>>

Quantities == UNION {1 .. Bill[p].qty : p \in Purchases}
Payments == UNION {0 .. Grand(p) : p \in Purchases}

Work(r) ==
  \/ \E paid \in Payments : ReceivePurchase(r, paid)
  \/ \E amount \in Amounts : CreateOpeningEntry(r, amount)
  \/ \E amount \in Amounts, method \in Methods : ReadOpenRows(r, amount, method)
  \/ \E d \in Docs : Lock(r, d)
  \/ RecordPayment(r)
  \/ \E quantity \in Quantities : CompleteSupplierReturn(r, quantity)
  \/ Reject(r)

Next == \E r \in Requests :
  \/ \E kind \in Kinds, d \in Docs \cup {None} : Begin(r, kind, d)
  \/ Work(r)

\* A transaction that has begun is driven to its end: Node runs every awaited
\* statement, and PostgreSQL wakes the waiter of a released row lock.
Fairness == \A r \in Requests : WF_vars(Work(r))
Spec == Init /\ [][Next]_vars /\ Fairness

----------------------------------------------------------------------------
\* Every variable holds a value of its column or record type; amounts and
\* balances are never negative.
TypeOK ==
  /\ pc \in [Requests -> {"idle", "begun", "locking", "done", "failed"}]
  /\ job \in [Requests -> [kind : Kinds \cup {"none"}, doc : Docs \cup {None}]]
  /\ pay \in [Requests -> [method : Methods, alloc : [Docs -> Nat], last : [Docs -> Nat]]]
  /\ locked \in [Docs -> Requests \cup {None}]
  /\ purchase \in [Purchases -> [status : PurchaseStatus, initialPaid : Nat,
                                 paidTotal : Nat, dueTotal : Nat]]
  /\ payable \in [Docs -> [status : RowStatus, amount : Nat, paidAmount : Nat,
                           balance : Nat]]
  /\ returned \in [Purchases -> [qty : Nat, net : Nat, tax : Nat, refund : Nat]]
  /\ ledger \in [Docs -> [Accounts -> Int]]

MoneyPaid(p) == -(ledger[p]["1000"] + ledger[p]["1010"])

\* The subsidiary ledger agrees with the control account: in whatever order the
\* payments and returns of a document commit, account 2000 carries exactly what
\* its payable says is still owed (08 section 5).
PayableAgreesWithLedger ==
  \A d \in Docs : ledger[d]["2000"] = -payable[d].balance

\* Payments and returns racing on a purchase never pay the supplier more than it
\* charged, and never ask back more money than it was paid.
MoneyWithinBill == \A p \in Purchases : MoneyPaid(p) \in 0 .. Grand(p)

\* Once every unit has gone back, however the returns were split and whatever was
\* paid in between, nothing is owed, all money is refunded and the inventory
\* account no longer carries the purchase (08 section 5.6).
FullReturnSettles ==
  \A p \in Purchases : returned[p].qty = Bill[p].qty =>
    /\ payable[p].balance = 0
    /\ MoneyPaid(p) = 0
    /\ ledger[p]["1200"] = 0

\* Payments of several documents and returns never wait for one another in a
\* circle: whenever a request waits for a lock, another one can go on.
Waits(r) ==
  /\ pc[r] = "locking" /\ ~Ready(r)
  /\ \A d \in Needs(r) \ Holds(r) :
       (\A e \in Needs(r) \ Holds(r) : e = d \/ LockBefore(d, e)) => locked[d] # None
LocksNeverDeadlock ==
  (\E r \in Requests : Waits(r)) => \E q \in Requests : pc[q] = "locking" /\ ~Waits(q)
=============================================================================
