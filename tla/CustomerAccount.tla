-------------------------- MODULE CustomerAccount --------------------------
(***************************************************************************)
(* One customer's account: the sales and opening balances the customer     *)
(* owes for, the receivable row of each, and the use cases that move them  *)
(* (completeSale, cancelSale, recordCustomerPayment, completeCustomer-     *)
(* Return, createOpeningEntry), with the journal lines they post.          *)
(*                                                                         *)
(* Every request is one READ COMMITTED transaction.  `Begin` fixes the     *)
(* transaction's now(), which becomes createdAt of every row it inserts;   *)
(* recordPayment reads the open rows before it locks them; the rows are    *)
(* locked one by one in id order; the last step re-validates, writes and   *)
(* commits, or rolls back.  Receivable rows are only written under the     *)
(* lock of their sale row, so one lock per document stands for both.       *)
(*                                                                         *)
(* Stock, cost of goods sold and the period check are other modules'.      *)
(***************************************************************************)
EXTENDS Integers, FiniteSets, Functions, Money

CONSTANTS
  Sales,      \* sales that may be made to the customer
  Openings,   \* opening receivable balances of the customer
  Requests,   \* API calls, each one transaction
  None,       \* no request
  Bill,       \* Bill[s]: what sale s charges, as a [qty, net, tax, discount] record
  Amounts,    \* amounts an opening balance or a payment may carry
  Rank        \* Rank[d]: position of d in id order

Docs == Sales \cup Openings
Grand(s) == Bill[s].net + Bill[s].tax
\* postJournal refuses a revenue line of zero, and with it a sale worth nothing.
BillRecord == {bill \in [qty : Nat \ {0}, net : Nat, tax : Nat, discount : Nat] :
                 bill.net + bill.discount > 0}

ASSUME DocsAssumption ==
  /\ Sales \cap Openings = {}
  /\ None \notin Requests
  /\ Bill \in [Sales -> BillRecord]
  /\ Amounts \subseteq (Nat \ {0})
  /\ Rank \in [Docs -> Nat]
  /\ \A d, e \in Docs : Rank[d] = Rank[e] => d = e

VARIABLES
  pc,          \* where each request is
  job,         \* the use case and document of each request
  began,       \* now() of each transaction
  clock,       \* transactions begun so far
  pay,         \* the payment row of a request and its allocations; what is not
               \* allocated is an advance (account 2300)
  locked,      \* FOR UPDATE holder of each document
  sale,        \* core.sales
  receivable,  \* core.receivables and the customer rows of core.opening_balances
  returned,    \* what core.returns and core.return_lines add up to per sale
  ledger       \* signed (debit-positive) balance per document and account

vars == <<pc, job, began, clock, pay, locked, sale, receivable, returned, ledger>>
rows == <<sale, receivable, returned, ledger>>

Kinds == {"sale", "opening", "payment", "return", "cancel"}
Methods == {"CASH", "BANK"}   \* every method but CASH goes to the bank account
Accounts == {"1000", "1010", "1100", "2100", "3000", "4000", "5100"}
SaleStatus == {"NONE", "DUE", "PARTIALLY_PAID", "PAID", "CANCELLED"}
RowStatus == {"NONE", "OPEN", "PARTIAL", "SETTLED", "CANCELLED"}

Zero == [a \in Accounts |-> 0]
NoAlloc == [d \in Docs |-> 0]
NoPay == [amount |-> 0, method |-> "CASH", alloc |-> NoAlloc]
NoRow == [status |-> "NONE", amount |-> 0, paidAmount |-> 0, balance |-> 0]
NoSale == [status |-> "NONE", customer |-> FALSE, initialPaid |-> 0,
           paidTotal |-> 0, dueTotal |-> 0]
NoReturn == [qty |-> 0, net |-> 0, tax |-> 0, cash |-> 0]

Init ==
  /\ pc = [r \in Requests |-> "idle"]
  /\ job = [r \in Requests |-> [kind |-> "none", doc |-> None]]
  /\ began = [r \in Requests |-> 0]
  /\ clock = 0
  /\ pay = [r \in Requests |-> NoPay]
  /\ locked = [d \in Docs |-> None]
  /\ sale = [s \in Sales |-> NoSale]
  /\ receivable = [d \in Docs |-> NoRow]
  /\ returned = [s \in Sales |-> NoReturn]
  /\ ledger = [d \in Docs |-> Zero]

----------------------------------------------------------------------------
Smaller(a, b) == IF a < b THEN a ELSE b
Monus(a, b) == IF a > b THEN a - b ELSE 0
Total(alloc) == SumFunctionOnSet(alloc, Docs)

CashAccount(method) == IF method = "CASH" THEN "1000" ELSE "1010"
Exists(d) == IF d \in Sales THEN sale[d].status # "NONE"
                            ELSE receivable[d].status # "NONE"
IsOpen(d) == receivable[d].status \in {"OPEN", "PARTIAL"}
Allocated(r, d) == IF pc[r] = "done" THEN pay[r].alloc[d] ELSE 0

\* A posting adds its journal lines to the documents it is about.
Post(lines) == [d \in Docs |-> [a \in Accounts |-> ledger[d][a] + lines[d][a]]]
PostOn(d, entry) == Post([e \in Docs |-> IF e = d THEN entry ELSE Zero])

\* Documents a request locks before it writes.
Needs(r) == CASE job[r].kind = "payment" -> {d \in Docs : pay[r].alloc[d] > 0}
              [] job[r].kind \in {"return", "cancel"} -> {job[r].doc}
              [] OTHER -> {}
Holds(r) == {d \in Docs : locked[d] = r}
Ready(r) == pc[r] = "locking" /\ Needs(r) \subseteq Holds(r)

\* COMMIT or ROLLBACK: the row locks go with the transaction.
Finish(r, outcome) ==
  /\ pc' = [pc EXCEPT ![r] = outcome]
  /\ locked' = [d \in Docs |-> IF locked[d] = r THEN None ELSE locked[d]]
  /\ UNCHANGED <<job, began, clock>>

----------------------------------------------------------------------------
(* BEGIN *)
Begin(r, kind, d) ==
  /\ pc[r] = "idle"
  /\ \/ kind = "sale" /\ d \in Sales
     \/ kind = "opening" /\ d \in Openings
     \/ kind = "payment" /\ d = None
     \/ kind \in {"return", "cancel"} /\ d \in Sales
  /\ kind \in {"sale", "opening"} =>   \* the row a request inserts is its own
       \A q \in Requests : job[q] # [kind |-> kind, doc |-> d]
  /\ job' = [job EXCEPT ![r] = [kind |-> kind, doc |-> d]]
  /\ began' = [began EXCEPT ![r] = clock]
  /\ clock' = clock + 1
  /\ pc' = [pc EXCEPT ![r] = IF kind \in {"return", "cancel"}
                             THEN "locking" ELSE "begun"]
  /\ UNCHANGED <<pay, locked, rows>>

----------------------------------------------------------------------------
(* completeSale: a walk-in sale is paid in full and leaves no payment row  *)
(* and no receivable; a customer's cash is a payment of its own.           *)
SaleJournal(s, paid) ==
  [Zero EXCEPT !["1000"] = paid, !["1100"] = Grand(s) - paid,
               !["5100"] = Bill[s].discount,
               !["4000"] = -(Bill[s].net + Bill[s].discount),
               !["2100"] = -Bill[s].tax]

CompleteSale(r, paid, customer) ==
  LET s == job[r].doc
      due == Grand(s) - paid
  IN  /\ pc[r] = "begun" /\ job[r].kind = "sale"
      /\ paid \in 0 .. Grand(s)
      /\ customer \/ due = 0
      /\ sale' = [sale EXCEPT ![s] =
           [status |-> IF due = 0 THEN "PAID"
                       ELSE IF paid > 0 THEN "PARTIALLY_PAID" ELSE "DUE",
            customer |-> customer, initialPaid |-> paid,
            paidTotal |-> paid, dueTotal |-> due]]
      /\ pay' = IF customer /\ paid > 0
                THEN [pay EXCEPT ![r] = [amount |-> paid, method |-> "CASH",
                                         alloc |-> [NoAlloc EXCEPT ![s] = paid]]]
                ELSE pay
      /\ receivable' = IF due = 0 THEN receivable
                       ELSE [receivable EXCEPT ![s] =
                              [status |-> IF paid = 0 THEN "OPEN" ELSE "PARTIAL",
                               amount |-> Grand(s), paidAmount |-> paid,
                               balance |-> due]]
      /\ ledger' = PostOn(s, SaleJournal(s, paid))
      /\ Finish(r, "done")
      /\ UNCHANGED returned

(* createOpeningEntry with a CUSTOMER_RECEIVABLE entry. *)
CreateOpeningEntry(r, amount) ==
  LET d == job[r].doc
  IN  /\ pc[r] = "begun" /\ job[r].kind = "opening"
      /\ receivable' = [receivable EXCEPT ![d] =
           [status |-> "OPEN", amount |-> amount, paidAmount |-> 0,
            balance |-> amount]]
      /\ ledger' = PostOn(d, [Zero EXCEPT !["1100"] = amount, !["3000"] = -amount])
      /\ Finish(r, "done")
      /\ UNCHANGED <<pay, sale, returned>>

----------------------------------------------------------------------------
(* recordPayment, up to its locks: the open rows are read as they are      *)
(* committed, and without explicit allocations the oldest are filled first *)
(* (due dates are left out: the explicit choices cover any other order).   *)
CreatedAt(d) == began[CHOOSE r \in Requests :
                  job[r].doc = d /\ job[r].kind \in {"sale", "opening"}]
Older(d, e) == CreatedAt(d) < CreatedAt(e)
OldestFirst(amount) ==
  [d \in Docs |->
     IF IsOpen(d)
     THEN Smaller(receivable[d].balance,
            Monus(amount, SumFunctionOnSet([e \in Docs |-> receivable[e].balance],
                            {e \in Docs : IsOpen(e) /\ Older(e, d)})))
     ELSE 0]
Requested(alloc, amount) == Total(alloc) \in 1 .. amount
Explicit(alloc, amount) ==
  /\ Requested(alloc, amount)
  /\ \A d \in Docs : alloc[d] > 0 => IsOpen(d) /\ alloc[d] <= receivable[d].balance
Allocations(amount) ==
  {alloc \in [Docs -> 0 .. amount] :
     Explicit(alloc, amount) \/ alloc = OldestFirst(amount)}

ReadOpenRows(r, amount, method) ==
  /\ pc[r] = "begun" /\ job[r].kind = "payment"
  /\ \E alloc \in Allocations(amount) :
       pay' = [pay EXCEPT ![r] = [amount |-> amount, method |-> method,
                                  alloc |-> alloc]]
  /\ pc' = [pc EXCEPT ![r] = "locking"]
  /\ UNCHANGED <<job, began, clock, locked, rows>>

\* Mutant: the rows are locked in any order.
UnorderedLocks(d, e) == TRUE
\* SELECT ... ORDER BY id FOR UPDATE: sales first, then opening balances.
LockBefore(d, e) == \/ d \in Sales /\ e \in Openings
                    \/ (d \in Sales <=> e \in Sales) /\ Rank[d] < Rank[e]
Lock(r, d) ==
  /\ pc[r] = "locking"
  /\ d \in Needs(r) \ Holds(r)
  /\ \A e \in Needs(r) \ Holds(r) : e = d \/ LockBefore(d, e)
  /\ Exists(d)
  /\ locked[d] = None
  /\ locked' = [locked EXCEPT ![d] = r]
  /\ UNCHANGED <<pc, job, began, clock, pay, rows>>

\* Mutant: only the status is checked again, and not the balance.
StatusOnlyFits(r) ==
  \A d \in Docs : pay[r].alloc[d] > 0 =>
    (d \in Sales => sale[d].status # "CANCELLED") /\ IsOpen(d)
\* What recordPayment checks again once the rows are locked.
AllocationsFit(r) ==
  \A d \in Docs : pay[r].alloc[d] > 0 =>
    /\ d \in Sales => sale[d].status # "CANCELLED"
    /\ IsOpen(d)
    /\ pay[r].alloc[d] <= receivable[d].balance

SettledRow(row, amount) ==
  LET paid == row.paidAmount + amount
      balance == row.amount - paid
  IN  [status |-> IF balance = 0 THEN "SETTLED" ELSE "PARTIAL",
       amount |-> row.amount, paidAmount |-> paid, balance |-> balance]
SaleWith(s, status, paid, due) ==
  [status |-> status, customer |-> sale[s].customer,
   initialPaid |-> sale[s].initialPaid, paidTotal |-> paid, dueTotal |-> due]
\* Mutant: the sale's due total is not written with its paid total.
PaidSaleKeepsDue(s, row) ==
  SaleWith(s, IF row.balance = 0 THEN "PAID" ELSE "PARTIALLY_PAID",
           row.paidAmount, sale[s].dueTotal)
PaidSale(s, row) == SaleWith(s, IF row.balance = 0 THEN "PAID" ELSE "PARTIALLY_PAID",
                             row.paidAmount, row.balance)

PaymentJournal(amount, method) ==
  [Zero EXCEPT ![CashAccount(method)] = amount, !["1100"] = -amount]

RecordPayment(r) ==
  LET alloc == pay[r].alloc
      Row(d) == SettledRow(receivable[d], alloc[d])
  IN  /\ Ready(r) /\ job[r].kind = "payment"
      /\ AllocationsFit(r)
      /\ receivable' = [d \in Docs |-> IF alloc[d] > 0 THEN Row(d) ELSE receivable[d]]
      /\ sale' = [s \in Sales |-> IF alloc[s] > 0 THEN PaidSale(s, Row(s)) ELSE sale[s]]
      /\ ledger' = Post([d \in Docs |-> PaymentJournal(alloc[d], pay[r].method)])
      /\ Finish(r, "done")
      /\ UNCHANGED <<pay, returned>>

----------------------------------------------------------------------------
(* completeCustomerReturn *)
RemainingQty(s) == Bill[s].qty - returned[s].qty
\* Mutant: the share is taken of the whole line, not of what is left of it.
ReturnNetOfWholeLine(s, quantity) ==
  AllocateReturnAmount(Bill[s].net, quantity, Bill[s].qty)
ReturnNet(s, quantity) ==
  AllocateReturnAmount(Bill[s].net - returned[s].net, quantity, RemainingQty(s))
ReturnTax(s, quantity) ==
  AllocateReturnAmount(Bill[s].tax - returned[s].tax, quantity, RemainingQty(s))

\* Mutant: the cash already refunded is left out of the cumulative target.
ReductionWithoutPriorCash(s, total) ==
  LET cashTarget == RoundRatio((returned[s].net + returned[s].tax + total)
                                 * sale[s].initialPaid, Grand(s))
  IN  Smaller(Monus(total, cashTarget), receivable[s].balance)

\* The cash share follows the ratio in which the sale was first paid; the rest
\* reduces the receivable, as far as something is still owed.
ReceivableReduction(s, total) ==
  LET cashTarget == RoundRatio((returned[s].net + returned[s].tax + total)
                                 * sale[s].initialPaid, Grand(s))
      dueShare == Monus(total, Monus(cashTarget, returned[s].cash))
  IN  Smaller(dueShare, receivable[s].balance)

\* Mutant: a cancelled sale may still be returned.
ReturnOfAnySale(s, quantity) ==
  sale[s].customer /\ quantity <= RemainingQty(s) /\ ReturnNet(s, quantity) > 0
ReturnAllowed(s, quantity) ==
  /\ sale[s].customer
  /\ sale[s].status # "CANCELLED"
  /\ quantity <= RemainingQty(s)
  /\ ReturnNet(s, quantity) > 0   \* postJournal refuses an amount of zero

\* Mutant: the amount of the row stays as it was.
ReturnedRowKeepsAmount(row, balance) ==
  [status |-> IF balance = 0 THEN "SETTLED" ELSE "PARTIAL",
   amount |-> row.amount, paidAmount |-> row.paidAmount, balance |-> balance]
\* The amount of the row shrinks with its balance, so that it still adds up.
ReturnedRow(row, balance) ==
  [status |-> IF balance = 0 THEN "SETTLED" ELSE "PARTIAL",
   amount |-> row.paidAmount + balance, paidAmount |-> row.paidAmount,
   balance |-> balance]

ReturnJournal(net, tax, cash, reduction) ==
  [Zero EXCEPT !["4000"] = net, !["2100"] = tax, !["1000"] = -cash, !["1100"] = -reduction]

CompleteCustomerReturn(r, quantity) ==
  LET s == job[r].doc
      net == ReturnNet(s, quantity)
      tax == ReturnTax(s, quantity)
      reduction == ReceivableReduction(s, net + tax)
      cash == net + tax - reduction
      balance == receivable[s].balance - reduction
  IN  /\ Ready(r) /\ job[r].kind = "return"
      /\ ReturnAllowed(s, quantity)
      /\ returned' = [returned EXCEPT ![s] =
           [qty |-> returned[s].qty + quantity, net |-> returned[s].net + net,
            tax |-> returned[s].tax + tax, cash |-> returned[s].cash + cash]]
      /\ receivable' = IF receivable[s].status = "NONE" THEN receivable
                       ELSE [receivable EXCEPT ![s] = ReturnedRow(receivable[s], balance)]
      /\ ledger' = PostOn(s, ReturnJournal(net, tax, cash, reduction))
      /\ Finish(r, "done")
      /\ UNCHANGED <<pay, sale>>

----------------------------------------------------------------------------
(* cancelSale: the payment rows allocated to the sale, by createdAt; the   *)
(* first is taken to be the cash received with the sale itself.            *)
IncomingPayments(s) == {q \in Requests : Allocated(q, s) > 0}
InitialPayment(s) == CHOOSE q \in IncomingPayments(s) :
                       \A p \in IncomingPayments(s) : began[q] <= began[p]
LaterPayments(s) == IF sale[s].initialPaid > 0
                    THEN IncomingPayments(s) \ {InitialPayment(s)}
                    ELSE IncomingPayments(s)
Refund(s, method) == SumFunctionOnSet([q \in Requests |-> pay[q].alloc[s]],
                       {q \in LaterPayments(s) : pay[q].method = method})

InitialPaymentMatches(s) ==
  sale[s].customer /\ sale[s].initialPaid > 0 =>
    /\ IncomingPayments(s) # {}
    /\ pay[InitialPayment(s)].amount = sale[s].initialPaid
    /\ pay[InitialPayment(s)].alloc[s] = sale[s].initialPaid
PaidTotalMatches(s) ==
  sale[s].customer =>
    Refund(s, "CASH") + Refund(s, "BANK") = sale[s].paidTotal - sale[s].initialPaid
ReceivableMatches(s) ==
  IF receivable[s].status # "NONE"
  THEN /\ receivable[s].balance = sale[s].dueTotal
       /\ receivable[s].paidAmount = sale[s].paidTotal
  ELSE sale[s].dueTotal = 0

\* Mutant: a sale of which something was returned may be cancelled.
CancelDespiteReturns(s) ==
  /\ sale[s].status \in {"DUE", "PARTIALLY_PAID", "PAID"}
  /\ InitialPaymentMatches(s) /\ PaidTotalMatches(s) /\ ReceivableMatches(s)

CancelAllowed(s) ==
  /\ sale[s].status \in {"DUE", "PARTIALLY_PAID", "PAID"}
  /\ returned[s].qty = 0
  /\ InitialPaymentMatches(s) /\ PaidTotalMatches(s) /\ ReceivableMatches(s)

\* The reversal mirrors the revenue journal (with its cash line); the payments
\* received later are refunded by journals of their own.
RefundJournal(cash, bank) ==
  [Zero EXCEPT !["1100"] = cash + bank, !["1000"] = -cash, !["1010"] = -bank]
CancelJournal(s, cash, bank) ==
  [a \in Accounts |-> RefundJournal(cash, bank)[a]
                        - SaleJournal(s, sale[s].initialPaid)[a]]

CancelSale(r) ==
  LET s == job[r].doc
  IN  /\ Ready(r) /\ job[r].kind = "cancel"
      /\ CancelAllowed(s)
      /\ sale' = [sale EXCEPT ![s] =
           SaleWith(s, "CANCELLED", sale[s].paidTotal, sale[s].dueTotal)]
      /\ receivable' = IF receivable[s].status = "NONE" THEN receivable
                       ELSE [receivable EXCEPT ![s] =
                              [status |-> "CANCELLED", amount |-> receivable[s].amount,
                               paidAmount |-> receivable[s].paidAmount, balance |-> 0]]
      /\ \E cash, bank \in 0 .. sale[s].paidTotal :
           /\ sale[s].customer => cash = Refund(s, "CASH") /\ bank = Refund(s, "BANK")
           /\ ~sale[s].customer => cash = 0 /\ bank = 0
           /\ ledger' = PostOn(s, CancelJournal(s, cash, bank))
      /\ Finish(r, "done")
      /\ UNCHANGED <<pay, returned>>

----------------------------------------------------------------------------
(* ROLLBACK: the row is not there, or validation under the lock fails. *)
Reject(r, quantity) ==
  /\ pc[r] = "locking"
  /\ \/ \E d \in Needs(r) : ~Exists(d)
     \/ Ready(r) /\ CASE job[r].kind = "payment" -> ~AllocationsFit(r)
                       [] job[r].kind = "cancel" -> ~CancelAllowed(job[r].doc)
                       [] job[r].kind = "return" ->
                            ~ReturnAllowed(job[r].doc, quantity)
  /\ Finish(r, "failed")
  /\ UNCHANGED <<pay, rows>>

Quantities == UNION {1 .. Bill[s].qty : s \in Sales}
Payments == UNION {0 .. Grand(s) : s \in Sales}

Work(r) ==
  \/ \E paid \in Payments, customer \in BOOLEAN : CompleteSale(r, paid, customer)
  \/ \E amount \in Amounts : CreateOpeningEntry(r, amount)
  \/ \E amount \in Amounts, method \in Methods : ReadOpenRows(r, amount, method)
  \/ \E d \in Docs : Lock(r, d)
  \/ RecordPayment(r)
  \/ \E quantity \in Quantities : CompleteCustomerReturn(r, quantity)
  \/ CancelSale(r)
  \/ \E quantity \in Quantities : Reject(r, quantity)

Next == \E r \in Requests :
  \/ \E kind \in Kinds, d \in Docs \cup {None} : Begin(r, kind, d)
  \/ Work(r)

\* A transaction that has begun is driven to its end: Node runs every awaited
\* statement, and PostgreSQL wakes the waiter of a released row lock.
Fairness == \A r \in Requests : WF_vars(Work(r))
Spec == Init /\ [][Next]_vars /\ Fairness

----------------------------------------------------------------------------
\* Every variable holds a value of its column or record type; balances and
\* amounts are never negative.
TypeOK ==
  /\ pc \in [Requests -> {"idle", "begun", "locking", "done", "failed"}]
  /\ job \in [Requests -> [kind : Kinds \cup {"none"}, doc : Docs \cup {None}]]
  /\ began \in [Requests -> Nat]
  /\ clock \in Nat
  /\ pay \in [Requests -> [amount : Nat, method : Methods, alloc : [Docs -> Nat]]]
  /\ locked \in [Docs -> Requests \cup {None}]
  /\ sale \in [Sales -> [status : SaleStatus, customer : BOOLEAN, initialPaid : Nat,
                         paidTotal : Nat, dueTotal : Nat]]
  /\ receivable \in [Docs -> [status : RowStatus, amount : Nat, paidAmount : Nat,
                              balance : Nat]]
  /\ returned \in [Sales -> [qty : Nat, net : Nat, tax : Nat, cash : Nat]]
  /\ ledger \in [Docs -> [Accounts -> Int]]

MoneyHeld(s) == ledger[s]["1000"] + ledger[s]["1010"]

\* The subsidiary ledger agrees with the control account: whatever the order in
\* which payments, returns and cancellations of a document commit, account 1100
\* carries exactly the receivable's outstanding balance (08 section 5).
ReceivableAgreesWithLedger ==
  \A d \in Docs : ledger[d]["1100"] = receivable[d].balance

\* Payments and returns racing on a sale never collect more than it charged and
\* never hand back more money than was received for it.
MoneyWithinBill == \A s \in Sales : MoneyHeld(s) \in 0 .. Grand(s)

\* Once every unit has come back, however the returns were split and whatever was
\* paid in between, nothing is owed, all money is refunded and the sale's revenue,
\* discount and tax are gone ("the final return absorbs any rounding remainder").
FullReturnSettles ==
  \A s \in Sales : returned[s].qty = Bill[s].qty =>
    /\ receivable[s].balance = 0
    /\ MoneyHeld(s) = 0
    /\ ledger[s]["4000"] + ledger[s]["5100"] = 0
    /\ ledger[s]["2100"] = 0

\* A cancelled sale leaves nothing behind in the ledger, with the customer's
\* later payments refunded next to the reversal of the revenue journal (08 10.1).
CancelledSaleNetsToZero ==
  \A s \in Sales : sale[s].status = "CANCELLED" =>
    MoneyHeld(s) = 0 /\ \A a \in Accounts \ {"1000", "1010"} : ledger[s][a] = 0

\* Of the checks with which cancelSale compares a sale, its receivable and its
\* payment rows, only the one on the first payment row can fail: nothing that
\* commits on a sale of which nothing was returned makes the rows disagree.
CancelChecksAgree ==
  \A s \in Sales :
    (/\ sale[s].status \notin {"NONE", "CANCELLED"}
     /\ returned[s].qty = 0
     /\ InitialPaymentMatches(s)) => PaidTotalMatches(s) /\ ReceivableMatches(s)

\* What is owed for a document only ever falls after the document was posted, and
\* a cancelled receivable is never revived.
DebtOnlyFalls ==
  [][\A d \in Docs : receivable[d].status # "NONE" =>
       /\ receivable'[d].balance <= receivable[d].balance
       /\ receivable[d].status = "CANCELLED" => receivable'[d] = receivable[d]]_vars

\* No set of concurrent requests deadlocks on the document locks: every
\* transaction that has begun commits or rolls back.
EveryRequestEnds ==
  \A r \in Requests : pc[r] # "idle" ~> pc[r] \in {"done", "failed"}

\* The assertion in cancelSale: the first payment row of a sale is the cash
\* received with it.
InitialPaymentIsFirst ==
  \A s \in Sales :
    (sale[s].status \notin {"NONE", "CANCELLED"} /\ returned[s].qty = 0) =>
      InitialPaymentMatches(s)

\* 07 section 7.3, invariant 3 of a sale.
PaidPlusDueIsGrandTotal ==
  \A s \in Sales : sale[s].status # "NONE" =>
    sale[s].paidTotal + sale[s].dueTotal = Grand(s)
=============================================================================
