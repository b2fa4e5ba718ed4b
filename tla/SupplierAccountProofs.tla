------------------------ MODULE SupplierAccountProofs -----------------------
(***************************************************************************)
(* The safety invariants of SupplierAccount, for any documents, requests,  *)
(* bills and amounts, provided that no payment names a purchase twice      *)
(* (Repeats is FALSE): with Repeats they do not hold.                      *)
(*                                                                         *)
(* SupplierInv is inductive: a document has one creator (JobsOK), only     *)
(* what exists is locked (LockedOK), the last line of a payment is all of  *)
(* it (LinesOK), a payable row adds up (RowOK), and for every purchase the *)
(* money paid and the debt left are the value that has not gone back       *)
(* (SettlementOK), also in the ledger (BooksOK).                           *)
(***************************************************************************)
EXTENDS SupplierAccount, ArithmeticProofs

\* The request whose transaction inserts document d.
Creates(r, d) ==
  job[r] = [kind |-> IF d \in Purchases THEN "purchase" ELSE "opening", doc |-> d]

\* Requests work on documents of their kind, and a document has one creator,
\* which has committed once the document exists.
JobsOK ==
  /\ \A r \in Requests :
       /\ pc[r] = "idle" => job[r].kind = "none"
       /\ job[r].kind \in {"purchase", "return"} => job[r].doc \in Purchases
       /\ job[r].kind = "opening" => job[r].doc \in Openings
  /\ \A d \in Docs : \A q, r \in Requests : Creates(q, d) /\ Creates(r, d) => q = r
  /\ \A d \in Docs : Exists(d) =>
       \E q \in Requests : Creates(q, d) /\ pc[q] \notin {"idle", "begun"}

\* Only rows that exist are locked, and nothing is ever deleted.
LockedOK == \A d \in Docs : locked[d] # None => Exists(d)

\* What is written for a purchase is what the journal says of it.
LinesOK == ~Repeats /\ \A r \in Requests : pay[r].last = pay[r].alloc

\* A payable row adds up and agrees with account 2000.
RowOK(d) ==
  /\ payable[d].status = "NONE" => payable[d].balance = 0
  /\ payable[d].status # "NONE" =>
       payable[d].amount = payable[d].paidAmount + payable[d].balance
  /\ ledger[d]["2000"] = -payable[d].balance

\* Before it is received a purchase has left no trace.
NotReceivedOK(p) == purchase[p].status = "NONE" =>
  /\ payable[p].status = "NONE"
  /\ returned[p] = NoReturn
  /\ \A a \in Accounts : ledger[p][a] = 0

Received(p) == purchase[p].status # "NONE"

\* What has gone back of a purchase is at most what was bought, and all of the
\* value has gone back with the last unit.
ReturnsOK(p) ==
  /\ returned[p].qty <= Bill[p].qty
  /\ returned[p].net <= Bill[p].net
  /\ returned[p].tax <= Bill[p].tax
  /\ returned[p].qty = Bill[p].qty =>
       returned[p].net = Bill[p].net /\ returned[p].tax = Bill[p].tax

\* The money the supplier keeps and what is still owed are the value not returned.
SettlementOK(p) == Received(p) =>
  /\ purchase[p].initialPaid <= purchase[p].paidTotal
  /\ returned[p].refund <= purchase[p].paidTotal
  /\ purchase[p].paidTotal - returned[p].refund + payable[p].balance
       = Grand(p) - returned[p].net - returned[p].tax
  /\ payable[p].status # "NONE" => payable[p].paidAmount = purchase[p].paidTotal

\* The other accounts of a purchase.
BooksOK(p) == Received(p) =>
  /\ MoneyPaid(p) = purchase[p].paidTotal - returned[p].refund
  /\ ledger[p]["1200"] = Grand(p) - returned[p].net - returned[p].tax

PurchaseOK(p) == /\ NotReceivedOK(p) /\ ReturnsOK(p)
                 /\ SettlementOK(p) /\ BooksOK(p)

SupplierInv ==
  /\ TypeOK
  /\ JobsOK
  /\ LockedOK
  /\ LinesOK
  /\ \A d \in Docs : RowOK(d)
  /\ \A p \in Purchases : PurchaseOK(p)

----------------------------------------------------------------------------
\* The bill of a purchase is made of natural numbers.
LEMMA BillFacts ==
  ASSUME NEW p \in Purchases
  PROVE  /\ Bill[p].qty \in Nat \ {0} /\ Bill[p].net \in Nat /\ Bill[p].tax \in Nat
         /\ Grand(p) \in Nat \ {0} /\ Grand(p) = Bill[p].net + Bill[p].tax
         /\ p \in Docs
  BY SupplierAssumption DEF Grand, Docs

\* No document exists initially.
LEMMA InitHolds == ~Repeats /\ Init => SupplierInv
<1> SUFFICES ASSUME ~Repeats, Init PROVE SupplierInv
  OBVIOUS
<1>1. TypeOK
  BY DEF Init, TypeOK, NoPay, NoAlloc, NoPurchase, NoRow, NoReturn, Zero, Methods,
         PurchaseStatus, RowStatus, Docs, Kinds
<1>2. JobsOK /\ LockedOK /\ LinesOK
  BY DEF Init, JobsOK, LockedOK, LinesOK, Creates, Exists, NoPurchase, NoRow, NoPay, Docs
<1>3. \A d \in Docs : RowOK(d)
  BY DEF Init, RowOK, NoRow, Zero, Accounts
<1>4. ASSUME NEW p \in Purchases PROVE PurchaseOK(p)
  <2>1. p \in Docs /\ Bill[p].qty \in Nat \ {0} /\ Bill[p].net \in Nat /\ Bill[p].tax \in Nat
    BY BillFacts
  <2>2. NotReceivedOK(p) /\ SettlementOK(p) /\ BooksOK(p)
    BY <2>1 DEF Init, NotReceivedOK, SettlementOK, BooksOK, Received, NoPurchase, NoRow, Zero
  <2>3. ReturnsOK(p)
    BY <2>1 DEF Init, ReturnsOK, NoReturn
  <2> QED BY <2>2, <2>3 DEF PurchaseOK
<1> QED BY <1>1, <1>2, <1>3, <1>4 DEF SupplierInv

\* A posting about one document.
LEMMA PostOnFacts ==
  ASSUME TypeOK, NEW d \in Docs, NEW entry \in [Accounts -> Int],
         ledger' = PostOn(d, entry)
  PROVE  /\ ledger' \in [Docs -> [Accounts -> Int]]
         /\ \A a \in Accounts : ledger'[d][a] = ledger[d][a] + entry[a]
         /\ \A e \in Docs \ {d} : \A a \in Accounts : ledger'[e][a] = ledger[e][a]
<1>1. Zero \in [Accounts -> Int] /\ \A a \in Accounts : Zero[a] = 0
  BY DEF Zero
<1>2. ledger \in [Docs -> [Accounts -> Int]]
  BY DEF TypeOK
<1> QED BY <1>1, <1>2 DEF PostOn, Post

\* A request that only moves between the phases of its transaction.
LEMMA PhaseKeepsJobs ==
  ASSUME JobsOK, job' = job, UNCHANGED rows,
         \A q \in Requests : /\ pc'[q] = "idle" => pc[q] = "idle"
                             /\ pc[q] \notin {"idle", "begun"} =>
                                  pc'[q] \notin {"idle", "begun"}
  PROVE  JobsOK'
<1>1. \A d \in Docs : Exists(d)' <=> Exists(d)
  BY DEF rows, Exists
<1>2. \A d \in Docs, q \in Requests : Creates(q, d)' <=> Creates(q, d)
  BY DEF Creates
<1>3. \A d \in Docs : Exists(d)' =>
        \E q \in Requests : Creates(q, d)' /\ pc'[q] \notin {"idle", "begun"}
  BY <1>1, <1>2 DEF JobsOK
<1>4. \A q \in Requests :
        /\ pc'[q] = "idle" => job'[q].kind = "none"
        /\ job'[q].kind \in {"purchase", "return"} => job'[q].doc \in Purchases
        /\ job'[q].kind = "opening" => job'[q].doc \in Openings
  BY DEF JobsOK
<1>5. \A d \in Docs : \A q, p \in Requests :
        Creates(q, d)' /\ Creates(p, d)' => q = p
  <2> TAKE d \in Docs
  <2> TAKE q, p \in Requests
  <2>1. Creates(q, d) /\ Creates(p, d) => q = p
    BY DEF JobsOK
  <2> QED BY <2>1, <1>2
<1> QED BY <1>3, <1>4, <1>5 DEF JobsOK

\* A transaction that ends keeps who created what and what is locked, when it
\* has created only its own document and removed none.
LEMMA FinishFacts ==
  ASSUME SupplierInv, NEW r \in Requests, NEW outcome \in {"done", "failed"},
         Finish(r, outcome), pay' = pay,
         \A d \in Docs : Exists(d)' => Exists(d) \/ Creates(r, d),
         \A d \in Docs : Exists(d) => Exists(d)'
  PROVE  /\ pc' \in [Requests -> {"idle", "begun", "locking", "done", "failed"}]
         /\ locked' \in [Docs -> Requests \cup {None}]
         /\ job' = job
         /\ JobsOK' /\ LockedOK' /\ LinesOK'
<1>1. /\ pc' \in [Requests -> {"idle", "begun", "locking", "done", "failed"}]
      /\ locked' \in [Docs -> Requests \cup {None}]
      /\ job' = job
      /\ pc'[r] = outcome
      /\ \A q \in Requests \ {r} : pc'[q] = pc[q]
      /\ \A d \in Docs : locked'[d] # None => locked[d] # None
  BY DEF Finish, SupplierInv, TypeOK
<1>2. \A d \in Docs, q \in Requests : Creates(q, d)' <=> Creates(q, d)
  BY <1>1 DEF Creates
<1>3. ASSUME NEW d \in Docs, Exists(d)'
      PROVE  \E q \in Requests : Creates(q, d)' /\ pc'[q] \notin {"idle", "begun"}
  <2>1. CASE Creates(r, d)
    BY <2>1, <1>1, <1>2
  <2>2. CASE Exists(d)
    BY <2>2, <1>1, <1>2 DEF SupplierInv, JobsOK
  <2> QED BY <2>1, <2>2, <1>3
<1>4. \A q \in Requests :
        /\ pc'[q] = "idle" => job'[q].kind = "none"
        /\ job'[q].kind \in {"purchase", "return"} => job'[q].doc \in Purchases
        /\ job'[q].kind = "opening" => job'[q].doc \in Openings
  BY <1>1 DEF SupplierInv, JobsOK
<1>5. \A d \in Docs : \A q, p \in Requests :
        Creates(q, d)' /\ Creates(p, d)' => q = p
  BY <1>2 DEF SupplierInv, JobsOK
<1>6. JobsOK'
  BY <1>3, <1>4, <1>5 DEF JobsOK
<1>7. LockedOK' /\ LinesOK'
  BY <1>1 DEF SupplierInv, LockedOK, LinesOK
<1> QED BY <1>1, <1>6, <1>7

\* A document has not been created while its creator is at work.
LEMMA CreatorAtWork ==
  ASSUME JobsOK, NEW d \in Docs, NEW r \in Requests, Creates(r, d), pc[r] = "begun"
  PROVE  ~Exists(d)
  BY DEF JobsOK

\* A step that leaves the rows alone keeps what is said of them.
LEMMA RowsUnchanged ==
  ASSUME \A d \in Docs : RowOK(d), \A p \in Purchases : PurchaseOK(p), UNCHANGED rows
  PROVE  (\A d \in Docs : RowOK(d))' /\ (\A p \in Purchases : PurchaseOK(p))'
  BY DEF rows, RowOK, PurchaseOK, NotReceivedOK, ReturnsOK, SettlementOK, BooksOK,
         Received, MoneyPaid

\* A document whose rows and ledger a step does not change stays in order.
LEMMA RowFrame ==
  ASSUME NEW d \in Docs, RowOK(d), payable'[d] = payable[d],
         \A a \in Accounts : ledger'[d][a] = ledger[d][a]
  PROVE  RowOK(d)'
  BY DEF RowOK, Accounts

\* A purchase whose rows and ledger a step does not change stays in order.
LEMMA PurchaseFrame ==
  ASSUME NEW p \in Purchases, PurchaseOK(p), payable'[p] = payable[p],
         purchase'[p] = purchase[p], returned'[p] = returned[p],
         \A a \in Accounts : ledger'[p][a] = ledger[p][a]
  PROVE  PurchaseOK(p)'
<1>1. NotReceivedOK(p)'
  BY DEF PurchaseOK, NotReceivedOK
<1>2. ReturnsOK(p)' /\ SettlementOK(p)'
  BY DEF PurchaseOK, ReturnsOK, SettlementOK, Received
<1>3. BooksOK(p)'
  BY DEF PurchaseOK, BooksOK, Received, MoneyPaid, Accounts
<1> QED BY <1>1, <1>2, <1>3 DEF PurchaseOK

----------------------------------------------------------------------------
\* Beginning a transaction writes no row.
LEMMA BeginStep ==
  ASSUME SupplierInv, NEW r \in Requests, NEW kind \in Kinds,
         NEW d \in Docs \cup {None}, Begin(r, kind, d)
  PROVE  SupplierInv'
<1> USE DEF SupplierInv
<1>1. TypeOK'
  BY DEF TypeOK, Begin, rows
<1>2. JobsOK'
  <2>1. /\ \A q \in Requests \ {r} : job'[q] = job[q] /\ pc'[q] = pc[q]
        /\ job'[r] = [kind |-> kind, doc |-> d]
        /\ pc'[r] # "idle" /\ pc[r] = "idle" /\ job[r].kind = "none"
    BY DEF Begin, TypeOK, JobsOK
  <2>2. \A e \in Docs : Exists(e)' <=> Exists(e)
    BY DEF Begin, rows, Exists
  <2>3. \A e \in Docs : ~Creates(r, e)
    BY <2>1 DEF Creates
  <2>4. \A e \in Docs, q \in Requests \ {r} : Creates(q, e)' <=> Creates(q, e)
    BY <2>1 DEF Creates
  <2>5. ASSUME NEW e \in Docs, NEW q \in Requests \ {r}, Creates(r, e)'
        PROVE  ~Creates(q, e)
    <3>1. job'[r] = [kind |-> IF e \in Purchases THEN "purchase" ELSE "opening", doc |-> e]
      BY <2>5 DEF Creates
    <3>2. kind = (IF e \in Purchases THEN "purchase" ELSE "opening") /\ d = e
      BY <3>1, <2>1
    <3> QED BY <3>2 DEF Begin, Creates
  <2>6. \A e \in Docs : \A q, p \in Requests :
          Creates(q, e)' /\ Creates(p, e)' => q = p
    BY <2>4, <2>5 DEF JobsOK
  <2>7. \A e \in Docs : Exists(e)' =>
          \E q \in Requests : Creates(q, e)' /\ pc'[q] \notin {"idle", "begun"}
    BY <2>1, <2>2, <2>3, <2>4 DEF JobsOK
  <2>8. \A q \in Requests :
          /\ pc'[q] = "idle" => job'[q].kind = "none"
          /\ job'[q].kind \in {"purchase", "return"} => job'[q].doc \in Purchases
          /\ job'[q].kind = "opening" => job'[q].doc \in Openings
    BY <2>1 DEF JobsOK, Begin
  <2> QED BY <2>6, <2>7, <2>8 DEF JobsOK
<1>3. UNCHANGED rows /\ UNCHANGED <<pay, locked>>
  BY DEF Begin
<1>4. LockedOK' /\ LinesOK'
  BY <1>3 DEF LockedOK, LinesOK, Exists, rows
<1> QED BY <1>1, <1>2, <1>3, <1>4, RowsUnchanged

\* receivePurchase: paid and due add up to the bill, and the journal to both.
LEMMA ReceivePurchaseStep ==
  ASSUME SupplierInv, NEW r \in Requests, NEW paid \in Payments,
         ReceivePurchase(r, paid)
  PROVE  SupplierInv'
<1>1. PICK p \in Purchases : /\ p = job[r].doc /\ p \in Docs
                              /\ pc[r] = "begun" /\ Creates(r, p)
  <2>1. job[r].doc \in Purchases
    BY DEF ReceivePurchase, SupplierInv, JobsOK
  <2>2. job[r] = [kind |-> "purchase", doc |-> job[r].doc]
    BY DEF ReceivePurchase, SupplierInv, TypeOK
  <2> QED BY <2>1, <2>2 DEF ReceivePurchase, Creates, Docs
<1> DEFINE due == Grand(p) - paid
           entry == PurchaseJournal(p, paid)
<1>2. ~Exists(p) /\ purchase[p].status = "NONE"
  BY <1>1, CreatorAtWork DEF SupplierInv, Exists
<1>3. /\ Bill[p].net \in Nat /\ Bill[p].tax \in Nat /\ Bill[p].qty \in Nat \ {0}
      /\ Grand(p) \in Nat \ {0} /\ Grand(p) = Bill[p].net + Bill[p].tax
  BY <1>1, BillFacts
<1>4. paid \in 0 .. Grand(p) /\ due \in Nat
  BY <1>1, <1>3 DEF ReceivePurchase
<1>5. /\ entry \in [Accounts -> Int]
      /\ entry["1000"] = 0 /\ entry["1010"] = -paid
      /\ entry["1200"] = Grand(p) /\ entry["2000"] = -due
  BY <1>3, <1>4 DEF PurchaseJournal, Accounts, Zero
<1>6. /\ ledger' \in [Docs -> [Accounts -> Int]]
      /\ \A a \in Accounts : ledger'[p][a] = ledger[p][a] + entry[a]
      /\ \A e \in Docs \ {p} : \A a \in Accounts : ledger'[e][a] = ledger[e][a]
  <2>1. ledger' = PostOn(p, entry)
    BY <1>1 DEF ReceivePurchase
  <2> HIDE DEF entry
  <2> QED BY <1>1, <1>5, <2>1, PostOnFacts DEF SupplierInv
<1>7. /\ purchase'[p].status \in {"RECEIVED", "PARTIALLY_PAID", "PAID"}
      /\ purchase'[p].initialPaid = paid /\ purchase'[p].paidTotal = paid
      /\ purchase' \in [Purchases -> [status : PurchaseStatus, initialPaid : Nat,
                                      paidTotal : Nat, dueTotal : Nat]]
      /\ \A e \in Purchases \ {p} : purchase'[e] = purchase[e]
  BY <1>1, <1>3, <1>4 DEF ReceivePurchase, SupplierInv, TypeOK, PurchaseStatus
<1>8. /\ payable[p].status = "NONE" /\ payable[p].balance = 0
      /\ returned[p] = NoReturn
      /\ \A a \in Accounts : ledger[p][a] = 0
  BY <1>1, <1>2 DEF SupplierInv, PurchaseOK, NotReceivedOK, RowOK
<1>9. /\ due = 0 => payable'[p] = payable[p]
      /\ due # 0 => /\ payable'[p].status \in {"OPEN", "PARTIAL"}
                    /\ payable'[p].amount = Grand(p)
                    /\ payable'[p].paidAmount = paid
                    /\ payable'[p].balance = due
      /\ \A e \in Docs \ {p} : payable'[e] = payable[e]
      /\ payable' \in [Docs -> [status : RowStatus, amount : Nat, paidAmount : Nat,
                                balance : Nat]]
  BY <1>1, <1>3, <1>4 DEF ReceivePurchase, SupplierInv, TypeOK, RowStatus
<1>10. Finish(r, "done") /\ UNCHANGED <<pay, returned>>
  BY DEF ReceivePurchase
<1>11. /\ \A d \in Docs : Exists(d)' => Exists(d) \/ Creates(r, d)
       /\ \A d \in Docs : Exists(d) => Exists(d)'
  BY <1>1, <1>2, <1>7, <1>9 DEF Exists, Docs
<1>12. TypeOK' /\ JobsOK' /\ LockedOK' /\ LinesOK'
  <2>1. TypeOK
    BY DEF SupplierInv
  <2> QED BY <1>6, <1>7, <1>9, <1>10, <1>11, <2>1, FinishFacts DEF TypeOK
<1>13. ASSUME NEW d \in Docs PROVE RowOK(d)'
  <2>1. CASE d = p
    <3>1. ledger'[p]["2000"] = -due
      BY <1>4, <1>5, <1>6, <1>8 DEF Accounts
    <3> QED BY <2>1, <3>1, <1>3, <1>4, <1>8, <1>9 DEF RowOK
  <2>2. CASE d # p
    BY <2>2, <1>6, <1>9, RowFrame DEF SupplierInv
  <2> QED BY <2>1, <2>2
<1>14. ASSUME NEW e \in Purchases PROVE PurchaseOK(e)'
  <2>1. CASE e = p
    <3>1. /\ returned'[p] = NoReturn /\ NoReturn.qty = 0 /\ NoReturn.net = 0
          /\ NoReturn.tax = 0 /\ NoReturn.refund = 0
      BY <1>8, <1>10 DEF NoReturn
    <3>2. /\ ledger'[p]["1000"] = 0 /\ ledger'[p]["1010"] = -paid
          /\ ledger'[p]["1200"] = Grand(p)
      BY <1>3, <1>4, <1>5, <1>6, <1>8 DEF Accounts
    <3>3. NotReceivedOK(p)'
      BY <1>7 DEF NotReceivedOK
    <3>4. ReturnsOK(p)'
      BY <1>3, <3>1 DEF ReturnsOK
    <3>5. SettlementOK(p)'
      <4>1. payable'[p].balance = due
        BY <1>8, <1>9
      <4>2. payable'[p].status # "NONE" => payable'[p].paidAmount = paid
        BY <1>8, <1>9
      <4>3. paid - 0 + due = Grand(p) - 0 - 0
        BY <1>3, <1>4
      <4> HIDE DEF due
      <4> QED BY <4>1, <4>2, <4>3, <1>3, <1>4, <1>7, <3>1 DEF SettlementOK
    <3>6. BooksOK(p)'
      BY <1>3, <1>4, <1>7, <3>1, <3>2 DEF BooksOK, MoneyPaid
    <3> QED BY <2>1, <3>3, <3>4, <3>5, <3>6 DEF PurchaseOK
  <2>2. CASE e # p
    <3>1. e \in Docs \ {p}
      BY <2>2, BillFacts
    <3> QED BY <2>2, <3>1, <1>6, <1>7, <1>9, <1>10, PurchaseFrame DEF SupplierInv
  <2> QED BY <2>1, <2>2
<1> QED BY <1>12, <1>13, <1>14 DEF SupplierInv

\* createOpeningEntry: the row and account 2000 start with the same amount.
LEMMA CreateOpeningEntryStep ==
  ASSUME SupplierInv, NEW r \in Requests, NEW amount \in Amounts,
         CreateOpeningEntry(r, amount)
  PROVE  SupplierInv'
<1>1. PICK d \in Openings : /\ d = job[r].doc /\ d \in Docs /\ d \notin Purchases
                             /\ pc[r] = "begun" /\ Creates(r, d)
  <2>1. job[r].doc \in Openings
    BY DEF CreateOpeningEntry, SupplierInv, JobsOK
  <2>2. job[r] = [kind |-> "opening", doc |-> job[r].doc]
    BY DEF CreateOpeningEntry, SupplierInv, TypeOK
  <2> QED BY <2>1, <2>2, SupplierAssumption DEF CreateOpeningEntry, Creates, Docs
<1> DEFINE entry == [Zero EXCEPT !["3000"] = amount, !["2000"] = -amount]
<1>2. payable[d].status = "NONE" /\ payable[d].balance = 0 /\ ledger[d]["2000"] = 0
  BY <1>1, CreatorAtWork DEF SupplierInv, Exists, RowOK
<1>3. amount \in Nat
  BY SupplierAssumption
<1>4. entry \in [Accounts -> Int] /\ entry["2000"] = -amount
  BY <1>3 DEF Accounts, Zero
<1>5. /\ ledger' \in [Docs -> [Accounts -> Int]]
      /\ \A a \in Accounts : ledger'[d][a] = ledger[d][a] + entry[a]
      /\ \A e \in Docs \ {d} : \A a \in Accounts : ledger'[e][a] = ledger[e][a]
  <2>1. ledger' = PostOn(d, entry)
    BY <1>1 DEF CreateOpeningEntry
  <2> HIDE DEF entry
  <2> QED BY <1>1, <1>4, <2>1, PostOnFacts DEF SupplierInv
<1>6. /\ payable'[d].status = "OPEN" /\ payable'[d].amount = amount
      /\ payable'[d].paidAmount = 0 /\ payable'[d].balance = amount
      /\ \A e \in Docs \ {d} : payable'[e] = payable[e]
      /\ payable' \in [Docs -> [status : RowStatus, amount : Nat, paidAmount : Nat,
                                balance : Nat]]
  BY <1>1, <1>3 DEF CreateOpeningEntry, SupplierInv, TypeOK, RowStatus
<1>7. Finish(r, "done") /\ UNCHANGED <<pay, purchase, returned>>
  BY DEF CreateOpeningEntry
<1>8. /\ \A e \in Docs : Exists(e)' => Exists(e) \/ Creates(r, e)
      /\ \A e \in Docs : Exists(e) => Exists(e)'
  BY <1>1, <1>6, <1>7 DEF Exists, Docs
<1>9. TypeOK' /\ JobsOK' /\ LockedOK' /\ LinesOK'
  <2>1. TypeOK
    BY DEF SupplierInv
  <2> QED BY <1>5, <1>6, <1>7, <1>8, <2>1, FinishFacts DEF TypeOK
<1>10. ASSUME NEW e \in Docs PROVE RowOK(e)'
  <2>1. CASE e = d
    BY <2>1, <1>2, <1>3, <1>4, <1>5, <1>6 DEF RowOK, Accounts
  <2>2. CASE e # d
    BY <2>2, <1>5, <1>6, RowFrame DEF SupplierInv
  <2> QED BY <2>1, <2>2
<1>11. ASSUME NEW p \in Purchases PROVE PurchaseOK(p)'
  <2>1. p \in Docs \ {d}
    BY <1>1, BillFacts
  <2> QED BY <2>1, <1>5, <1>6, <1>7, PurchaseFrame DEF SupplierInv
<1> QED BY <1>9, <1>10, <1>11 DEF SupplierInv

\* The unlocked read of recordPayment only fixes its allocations.
LEMMA ReadOpenRowsStep ==
  ASSUME SupplierInv, NEW r \in Requests, NEW amount \in Amounts,
         NEW method \in Methods, ReadOpenRows(r, amount, method)
  PROVE  SupplierInv'
<1>1. amount \in Nat
  BY SupplierAssumption
<1>2. PICK alloc \in [Docs -> 0 .. amount] :
        pay' = [pay EXCEPT ![r] = [method |-> method, alloc |-> alloc, last |-> alloc]]
  BY DEF ReadOpenRows, SupplierInv, LinesOK
<1>3. alloc \in [Docs -> Nat]
  BY <1>1
<1>4. UNCHANGED <<job, locked, rows>>
  BY DEF ReadOpenRows
<1>5. TypeOK'
  BY <1>2, <1>3 DEF SupplierInv, TypeOK, ReadOpenRows, rows
<1>6. JobsOK'
  <2>1. \A q \in Requests : /\ pc'[q] = "idle" => pc[q] = "idle"
                            /\ pc[q] \notin {"idle", "begun"} =>
                                 pc'[q] \notin {"idle", "begun"}
    BY DEF SupplierInv, TypeOK, ReadOpenRows
  <2> QED BY <1>4, <2>1, PhaseKeepsJobs DEF SupplierInv
<1>7. LockedOK' /\ LinesOK'
  BY <1>2, <1>4 DEF SupplierInv, TypeOK, LockedOK, LinesOK, Exists, rows
<1> QED BY <1>4, <1>5, <1>6, <1>7, RowsUnchanged DEF SupplierInv

\* Taking a row lock writes no row.
LEMMA LockStep ==
  ASSUME SupplierInv, NEW r \in Requests, NEW d \in Docs, Lock(r, d)
  PROVE  SupplierInv'
<1>1. UNCHANGED <<pc, job, pay, rows>> /\ locked' = [locked EXCEPT ![d] = r] /\ Exists(d)
  BY DEF Lock
<1>2. TypeOK'
  BY <1>1 DEF SupplierInv, TypeOK, rows
<1>3. JobsOK'
  BY <1>1, PhaseKeepsJobs DEF SupplierInv
<1>4. LockedOK' /\ LinesOK'
  BY <1>1 DEF SupplierInv, TypeOK, LockedOK, LinesOK, Exists, rows
<1> QED BY <1>1, <1>2, <1>3, <1>4, RowsUnchanged DEF SupplierInv

\* A rollback writes no row.
LEMMA RejectStep ==
  ASSUME SupplierInv, NEW r \in Requests, Reject(r)
  PROVE  SupplierInv'
<1>1. Finish(r, "failed") /\ UNCHANGED <<pay, rows>>
  BY DEF Reject
<1>2. \A d \in Docs : Exists(d)' <=> Exists(d)
  BY <1>1 DEF Exists, rows
<1>3. TypeOK' /\ JobsOK' /\ LockedOK' /\ LinesOK'
  <2>1. TypeOK
    BY DEF SupplierInv
  <2> QED BY <1>1, <1>2, <2>1, FinishFacts DEF TypeOK, rows
<1> QED BY <1>1, <1>3, RowsUnchanged DEF SupplierInv

----------------------------------------------------------------------------
\* recordPayment: what is allocated moves from 2000 to cash or bank.
LEMMA RecordPaymentStep ==
  ASSUME SupplierInv, NEW r \in Requests, RecordPayment(r)
  PROVE  SupplierInv'
<1> DEFINE alloc == pay[r].alloc
           cash == CashAccount(pay[r].method)
           line(d) == [Zero EXCEPT !["2000"] = alloc[d], ![cash] = -alloc[d]]
<1>1. /\ alloc \in [Docs -> Nat] /\ cash \in {"1000", "1010"}
      /\ payable \in [Docs -> [status : RowStatus, amount : Nat, paidAmount : Nat,
                                balance : Nat]]
      /\ ledger \in [Docs -> [Accounts -> Int]]
  BY DEF SupplierInv, TypeOK, CashAccount
<1>2. ASSUME NEW d \in Docs, alloc[d] > 0
      PROVE  /\ payable[d].status \in {"OPEN", "PARTIAL"}
             /\ alloc[d] <= payable[d].balance
             /\ payable[d].amount = payable[d].paidAmount + payable[d].balance
             /\ Recorded(r, d) = alloc[d]
  BY <1>2 DEF RecordPayment, AllocationsFit, IsOpen, SupplierInv, RowOK, LinesOK, Recorded
<1>3. ASSUME NEW d \in Docs, alloc[d] > 0
      PROVE  /\ payable'[d] = SettledRow(payable[d], alloc[d])
             /\ payable'[d].paidAmount = payable[d].paidAmount + alloc[d]
             /\ payable'[d].balance = payable[d].balance - alloc[d]
             /\ payable'[d].amount = payable[d].amount
             /\ payable'[d].status \in {"SETTLED", "PARTIAL"}
             /\ payable'[d] \in [status : RowStatus, amount : Nat, paidAmount : Nat,
                                 balance : Nat]
  <2>1. payable'[d] = SettledRow(payable[d], alloc[d])
    BY <1>2, <1>3 DEF RecordPayment
  <2> QED BY <2>1, <1>1, <1>2, <1>3 DEF SettledRow, RowStatus
<1>4. \A d \in Docs : ~(alloc[d] > 0) => payable'[d] = payable[d] /\ alloc[d] = 0
  BY <1>1 DEF RecordPayment
<1>5. ASSUME NEW d \in Docs
      PROVE  /\ line(d) \in [Accounts -> Int]
             /\ line(d)["2000"] = alloc[d]
             /\ line(d)["1000"] + line(d)["1010"] = -alloc[d]
             /\ line(d)["1200"] = 0
  BY <1>1 DEF Accounts, Zero
<1>6. /\ ledger' \in [Docs -> [Accounts -> Int]]
      /\ \A d \in Docs, a \in Accounts : ledger'[d][a] = ledger[d][a] + line(d)[a]
  <2>1. ledger' = Post([d \in Docs |-> line(d)])
    BY DEF RecordPayment, PaymentJournal
  <2> HIDE DEF line
  <2> QED BY <1>1, <1>5, <2>1 DEF Post
<1>7. ASSUME NEW d \in Docs, ~(alloc[d] > 0)
      PROVE  \A a \in Accounts : ledger'[d][a] = ledger[d][a]
  <2>1. alloc[d] = 0
    BY <1>4, <1>7
  <2>2. CASE cash = "1000"
    BY <2>1, <2>2, <1>1, <1>6 DEF Accounts, Zero
  <2>3. CASE cash = "1010"
    BY <2>1, <2>3, <1>1, <1>6 DEF Accounts, Zero
  <2> QED BY <2>2, <2>3, <1>1
<1> HIDE DEF line
<1>8. ASSUME NEW d \in Docs
      PROVE  /\ ledger'[d]["2000"] = ledger[d]["2000"] + alloc[d]
             /\ ledger'[d]["1000"] + ledger'[d]["1010"]
                  = ledger[d]["1000"] + ledger[d]["1010"] - alloc[d]
             /\ ledger'[d]["1200"] = ledger[d]["1200"]
  <2>1. \A a \in Accounts : ledger[d][a] \in Int /\ line(d)[a] \in Int /\ alloc[d] \in Int
    BY <1>1, <1>5
  <2>2. \A a \in Accounts : ledger'[d][a] = ledger[d][a] + line(d)[a]
    BY <1>6
  <2>3. "1000" \in Accounts /\ "1010" \in Accounts /\ "1200" \in Accounts /\ "2000" \in Accounts
    BY DEF Accounts
  <2> HIDE DEF alloc
  <2>4. ledger'[d]["2000"] = ledger[d]["2000"] + alloc[d]
    BY <2>2, <2>3, <1>5
  <2>5. ledger'[d]["1200"] = ledger[d]["1200"]
    BY <2>1, <2>2, <2>3, <1>5
  <2>6. ledger'[d]["1000"] + ledger'[d]["1010"]
          = ledger[d]["1000"] + ledger[d]["1010"] - alloc[d]
    BY <2>1, <2>2, <2>3, <1>5
  <2> QED BY <2>4, <2>5, <2>6
<1>9. ASSUME NEW p \in Purchases, alloc[p] > 0
      PROVE  /\ purchase'[p].paidTotal = payable'[p].paidAmount
             /\ purchase'[p].initialPaid = purchase[p].initialPaid
             /\ purchase'[p].status \in {"PAID", "PARTIALLY_PAID"}
             /\ purchase'[p] \in [status : PurchaseStatus, initialPaid : Nat,
                                  paidTotal : Nat, dueTotal : Nat]
             /\ Received(p)
  <2>1. p \in Docs
    BY BillFacts
  <2>2. purchase'[p] = PaidPurchase(p, payable'[p])
    BY <2>1, <1>2, <1>3, <1>9 DEF RecordPayment
  <2>3. Received(p)
    BY <2>1, <1>2, <1>9 DEF SupplierInv, PurchaseOK, NotReceivedOK, Received
  <2>4. /\ purchase[p] \in [status : PurchaseStatus, initialPaid : Nat, paidTotal : Nat,
                            dueTotal : Nat]
        /\ payable'[p].paidAmount \in Nat /\ payable'[p].balance \in Nat
    BY <2>1, <1>3, <1>9 DEF SupplierInv, TypeOK
  <2> QED BY <2>2, <2>3, <2>4 DEF PurchaseStatus, PaidPurchase
<1>10. ASSUME NEW p \in Purchases, ~(alloc[p] > 0) PROVE purchase'[p] = purchase[p]
  BY <1>10 DEF RecordPayment
<1>11. Finish(r, "done") /\ UNCHANGED <<pay, returned>>
  BY DEF RecordPayment
<1>12. TypeOK' /\ JobsOK' /\ LockedOK' /\ LinesOK'
  <2>1. payable' \in [Docs -> [status : RowStatus, amount : Nat, paidAmount : Nat,
                               balance : Nat]]
    BY <1>1, <1>3, <1>4 DEF RecordPayment
  <2>2. purchase' \in [Purchases -> [status : PurchaseStatus, initialPaid : Nat,
                                     paidTotal : Nat, dueTotal : Nat]]
    BY <1>9, <1>10 DEF RecordPayment, SupplierInv, TypeOK
  <2>3. \A d \in Docs : Exists(d)' <=> Exists(d)
    BY <1>2, <1>3, <1>4, <1>9, <1>10 DEF Exists, Received
  <2> QED BY <2>1, <2>2, <2>3, <1>6, <1>11, FinishFacts DEF SupplierInv, TypeOK
<1>13. ASSUME NEW d \in Docs PROVE RowOK(d)'
  <2>1. CASE alloc[d] > 0
    <3>1. /\ payable[d].balance \in Nat /\ payable[d].paidAmount \in Nat /\ alloc[d] \in Nat
          /\ ledger[d]["2000"] = -payable[d].balance
      BY <1>1 DEF SupplierInv, RowOK
    <3>2. payable'[d].amount = payable'[d].paidAmount + payable'[d].balance
      BY <2>1, <3>1, <1>2, <1>3
    <3>3. ledger'[d]["2000"] = -payable'[d].balance
      BY <2>1, <3>1, <1>3, <1>8
    <3>4. payable'[d].status # "NONE"
      BY <2>1, <1>3
    <3> QED BY <3>2, <3>3, <3>4 DEF RowOK
  <2>2. CASE ~(alloc[d] > 0)
    BY <2>2, <1>4, <1>7, RowFrame DEF SupplierInv
  <2> QED BY <2>1, <2>2
<1>14. ASSUME NEW p \in Purchases PROVE PurchaseOK(p)'
  <2>1. p \in Docs /\ PurchaseOK(p) /\ returned' = returned
    BY <1>11, BillFacts DEF SupplierInv
  <2>2. CASE alloc[p] > 0
    <3>1. Received(p) /\ purchase'[p].status # "NONE"
      BY <2>2, <1>9
    <3>2. NotReceivedOK(p)'
      BY <3>1 DEF NotReceivedOK
    <3>3. ReturnsOK(p)'
      BY <2>1 DEF PurchaseOK, ReturnsOK
    <3>4. /\ purchase[p].paidTotal \in Nat /\ purchase[p].initialPaid \in Nat
          /\ payable[p].balance \in Nat /\ payable[p].paidAmount \in Nat
          /\ returned[p].refund \in Nat /\ returned[p].net \in Nat
          /\ returned[p].tax \in Nat /\ alloc[p] \in Nat
          /\ \A a \in Accounts : ledger[p][a] \in Int
      BY <2>1, <1>1 DEF SupplierInv, TypeOK
    <3>5. purchase'[p].paidTotal = purchase[p].paidTotal + alloc[p]
      BY <2>1, <2>2, <3>1, <1>2, <1>3, <1>9 DEF PurchaseOK, SettlementOK
    <3>6. SettlementOK(p)'
      BY <2>1, <2>2, <3>1, <3>4, <3>5, <1>2, <1>3, <1>9, BillFacts
      DEF PurchaseOK, SettlementOK
    <3>7. BooksOK(p)'
      BY <2>1, <3>1, <3>4, <3>5, <1>8 DEF PurchaseOK, BooksOK, MoneyPaid, Accounts
    <3> QED BY <3>2, <3>3, <3>6, <3>7 DEF PurchaseOK
  <2>3. CASE ~(alloc[p] > 0)
    BY <2>1, <2>3, <1>4, <1>7, <1>10, PurchaseFrame
  <2> QED BY <2>2, <2>3
<1> QED BY <1>12, <1>13, <1>14 DEF SupplierInv

----------------------------------------------------------------------------
\* The refund and the reduction of the payable are the value of a return, and
\* neither takes more than there is.
LEMMA ReductionBounds ==
  ASSUME SupplierInv, NEW p \in Purchases, Received(p), NEW total \in Nat,
         total <= Grand(p) - returned[p].net - returned[p].tax
  PROVE  /\ PayableReduction(p, total) \in 0 .. payable[p].balance
         /\ total - PayableReduction(p, total) \in Nat
         /\ returned[p].refund + (total - PayableReduction(p, total))
              <= purchase[p].paidTotal
<1> DEFINE old == returned[p]
           target == RoundRatio((old.net + old.tax + total) * purchase[p].initialPaid,
                                Grand(p))
           reduction == PayableReduction(p, total)
           refundable == Monus(target, old.refund)
           dueShare == Monus(total, refundable)
<1>1. /\ p \in Docs /\ Grand(p) \in Nat \ {0}
      /\ old.net \in Nat /\ old.tax \in Nat /\ old.refund \in Nat
      /\ payable[p].balance \in Nat /\ purchase[p].initialPaid \in Nat
      /\ purchase[p].paidTotal \in Nat
  BY BillFacts DEF SupplierInv, TypeOK
<1>2. /\ purchase[p].initialPaid <= purchase[p].paidTotal
      /\ old.refund <= purchase[p].paidTotal
      /\ purchase[p].paidTotal - old.refund + payable[p].balance
           = Grand(p) - old.net - old.tax
  BY DEF SupplierInv, PurchaseOK, SettlementOK
<1>3. target \in 0 .. purchase[p].initialPaid
  <2>1. old.net + old.tax + total \in Nat /\ old.net + old.tax + total <= Grand(p)
    BY <1>1
  <2> QED BY <2>1, <1>1, RoundRatioBounds
<1>4. reduction = Smaller(dueShare, payable[p].balance)
  BY DEF PayableReduction
<1> HIDE DEF target, reduction
<1>5. refundable \in Nat /\ old.refund + refundable <= purchase[p].paidTotal
  BY <1>1, <1>2, <1>3 DEF Monus
<1> HIDE DEF refundable
<1>6. dueShare \in Nat /\ dueShare <= total /\ total - dueShare <= refundable
  BY <1>5 DEF Monus
<1> HIDE DEF dueShare
<1>7. total <= purchase[p].paidTotal - old.refund + payable[p].balance
  BY <1>2
<1>8. /\ reduction \in 0 .. payable[p].balance
      /\ total - reduction \in Nat
      /\ old.refund + (total - reduction) <= purchase[p].paidTotal
  BY <1>1, <1>4, <1>5, <1>6, <1>7 DEF Smaller
<1> QED BY <1>8 DEF reduction

\* completeSupplierReturn: the value of the return is part refund, part debt.
LEMMA CompleteSupplierReturnStep ==
  ASSUME SupplierInv, NEW r \in Requests, NEW quantity \in Quantities,
         CompleteSupplierReturn(r, quantity)
  PROVE  SupplierInv'
<1>1. PICK p \in Purchases : p = job[r].doc /\ p \in Docs /\ locked[p] = r
  <2>1. job[r].doc \in Purchases
    BY DEF CompleteSupplierReturn, SupplierInv, JobsOK
  <2>2. job[r].doc \in Holds(r)
    BY DEF CompleteSupplierReturn, Ready, Needs
  <2> QED BY <2>1, <2>2 DEF Holds, Docs
<1> DEFINE old == returned[p]
           row == payable[p]
           remaining == RemainingQty(p)
           net == ReturnNet(p, quantity)
           tax == ReturnTax(p, quantity)
           reduction == PayableReduction(p, net + tax)
           refund == net + tax - reduction
           balance == row.balance - reduction
           entry == ReturnJournal(net + tax, refund, reduction)
<1>2. /\ Bill[p].qty \in Nat \ {0} /\ Bill[p].net \in Nat /\ Bill[p].tax \in Nat
      /\ Grand(p) = Bill[p].net + Bill[p].tax
      /\ quantity \in Nat \ {0}
      /\ old.qty \in Nat /\ old.net \in Nat /\ old.tax \in Nat /\ old.refund \in Nat
      /\ row.balance \in Nat /\ row.paidAmount \in Nat /\ row.amount \in Nat
      /\ purchase[p].initialPaid \in Nat /\ purchase[p].paidTotal \in Nat
      /\ \A a \in Accounts : ledger[p][a] \in Int
  <2>1. quantity \in Nat \ {0}
    BY BillFacts DEF Quantities
  <2> QED BY <2>1, <1>1, BillFacts DEF SupplierInv, TypeOK
<1>3. Received(p) /\ PurchaseOK(p) /\ RowOK(p) /\ quantity <= remaining
  <2>1. locked[p] # None
    BY <1>1, SupplierAssumption
  <2>2. Exists(p) /\ PurchaseOK(p) /\ RowOK(p)
    BY <2>1, <1>1 DEF SupplierInv, LockedOK
  <2>3. ReturnAllowed(p, quantity)
    BY <1>1 DEF CompleteSupplierReturn
  <2> QED BY <2>2, <2>3 DEF Exists, Received, ReturnAllowed
<1>4. /\ ledger' = PostOn(p, entry)
      /\ returned' = [returned EXCEPT ![p] =
           [qty |-> old.qty + quantity, net |-> old.net + net,
            tax |-> old.tax + tax, refund |-> old.refund + refund]]
      /\ payable' = IF row.status = "NONE" THEN payable
                    ELSE [payable EXCEPT ![p] = ReturnedRow(row, balance)]
      /\ Finish(r, "done") /\ pay' = pay /\ purchase' = purchase
  BY <1>1, Zenon DEF CompleteSupplierReturn
<1>5. /\ old.qty + quantity <= Bill[p].qty
      /\ net \in 0 .. (Bill[p].net - old.net) /\ tax \in 0 .. (Bill[p].tax - old.tax)
      /\ old.qty + quantity = Bill[p].qty =>
           net = Bill[p].net - old.net /\ tax = Bill[p].tax - old.tax
  <2>1. /\ Bill[p].net - old.net \in Nat /\ Bill[p].tax - old.tax \in Nat
        /\ remaining \in Nat /\ remaining = Bill[p].qty - old.qty
    BY <1>2, <1>3 DEF PurchaseOK, ReturnsOK, RemainingQty
  <2> HIDE DEF remaining
  <2>2. /\ net \in 0 .. (Bill[p].net - old.net) /\ tax \in 0 .. (Bill[p].tax - old.tax)
        /\ quantity = remaining => net = Bill[p].net - old.net /\ tax = Bill[p].tax - old.tax
    BY <2>1, <1>2, <1>3, AllocateReturnAmountBounds DEF ReturnNet, ReturnTax, remaining
  <2> HIDE DEF net, tax
  <2> QED BY <2>1, <2>2, <1>2, <1>3
<1> HIDE DEF net, tax
<1>6. /\ reduction \in Nat /\ reduction <= row.balance
      /\ refund \in Nat /\ old.refund + refund <= purchase[p].paidTotal
  <2>1. net + tax \in Nat /\ net + tax <= Grand(p) - old.net - old.tax
    BY <1>2, <1>5
  <2>2. /\ reduction \in 0 .. row.balance
        /\ (net + tax) - reduction \in Nat
        /\ old.refund + ((net + tax) - reduction) <= purchase[p].paidTotal
    BY <2>1, <1>3, ReductionBounds
  <2>3. row.balance \in Nat
    BY <1>2
  <2> HIDE DEF reduction
  <2>4. reduction \in Nat /\ reduction <= row.balance
    BY <2>2, <2>3
  <2>5. refund = (net + tax) - reduction
    <3>1. net \in Nat /\ tax \in Nat
      BY <1>2, <1>5
    <3> QED BY <2>4, <3>1
  <2> HIDE DEF refund
  <2> QED BY <2>2, <2>4, <2>5
<1> HIDE DEF reduction
<1>7. balance \in Nat /\ balance = row.balance - reduction /\ refund = net + tax - reduction
  BY <1>2, <1>6
<1> HIDE DEF refund, balance
<1>8. /\ entry \in [Accounts -> Int]
      /\ entry["1000"] = 0 /\ entry["1010"] = refund /\ entry["2000"] = reduction
      /\ entry["1200"] = -(net + tax)
  BY <1>5, <1>6 DEF ReturnJournal, Accounts, Zero
<1> HIDE DEF entry
<1>9. /\ ledger' \in [Docs -> [Accounts -> Int]]
      /\ \A a \in Accounts : ledger'[p][a] = ledger[p][a] + entry[a]
      /\ \A e \in Docs \ {p} : \A a \in Accounts : ledger'[e][a] = ledger[e][a]
  BY <1>1, <1>4, <1>8, PostOnFacts DEF SupplierInv
<1>10. /\ returned' \in [Purchases -> [qty : Nat, net : Nat, tax : Nat, refund : Nat]]
       /\ returned'[p].qty = old.qty + quantity /\ returned'[p].net = old.net + net
       /\ returned'[p].tax = old.tax + tax /\ returned'[p].refund = old.refund + refund
       /\ \A e \in Purchases \ {p} : returned'[e] = returned[e]
  BY <1>2, <1>4, <1>5, <1>6 DEF SupplierInv, TypeOK
<1>11. /\ payable' \in [Docs -> [status : RowStatus, amount : Nat, paidAmount : Nat,
                                 balance : Nat]]
       /\ row.status = "NONE" => payable'[p] = row /\ row.balance = 0 /\ reduction = 0
       /\ row.status # "NONE" =>
            /\ payable'[p].status \in {"SETTLED", "PARTIAL"}
            /\ payable'[p].amount = row.paidAmount + balance
            /\ payable'[p].paidAmount = row.paidAmount
       /\ payable'[p].balance = row.balance - reduction
       /\ \A e \in Docs \ {p} : payable'[e] = payable[e]
  <2>1. row.status = "NONE" => row.balance = 0 /\ reduction = 0
    BY <1>2, <1>3, <1>6 DEF RowOK
  <2> QED BY <2>1, <1>1, <1>2, <1>4, <1>7 DEF SupplierInv, TypeOK, RowStatus, ReturnedRow
<1>12. TypeOK' /\ JobsOK' /\ LockedOK' /\ LinesOK'
  <2>1. /\ \A e \in Docs : Exists(e)' <=> Exists(e)
    BY <1>1, <1>4, <1>11, SupplierAssumption DEF Exists, Docs
  <2> QED BY <2>1, <1>4, <1>9, <1>10, <1>11, FinishFacts DEF SupplierInv, TypeOK
<1>13. ASSUME NEW e \in Docs PROVE RowOK(e)'
  <2>1. CASE e = p
    <3>1. ledger'[p]["2000"] = -payable'[p].balance
      BY <1>2, <1>3, <1>6, <1>8, <1>9, <1>11 DEF RowOK, Accounts
    <3> QED BY <2>1, <3>1, <1>2, <1>3, <1>7, <1>11 DEF RowOK
  <2>2. CASE e # p
    BY <2>2, <1>9, <1>11, RowFrame DEF SupplierInv
  <2> QED BY <2>1, <2>2
<1>14. ASSUME NEW e \in Purchases PROVE PurchaseOK(e)'
  <2>1. CASE e = p
    <3>1. NotReceivedOK(p)'
      BY <1>3, <1>4 DEF Received, NotReceivedOK
    <3>2. ReturnsOK(p)'
      BY <1>2, <1>3, <1>5, <1>10 DEF PurchaseOK, ReturnsOK
    <3>3. SettlementOK(p)'
      <4>1. /\ purchase[p].initialPaid <= purchase[p].paidTotal
            /\ purchase[p].paidTotal - old.refund + row.balance = Grand(p) - old.net - old.tax
            /\ row.status # "NONE" => row.paidAmount = purchase[p].paidTotal
        BY <1>3 DEF PurchaseOK, SettlementOK
      <4>2. Grand(p) \in Nat /\ net \in Nat /\ tax \in Nat
        BY <1>2, <1>5
      <4>3. purchase[p].paidTotal - (old.refund + refund) + (row.balance - reduction)
              = Grand(p) - (old.net + net) - (old.tax + tax)
        <5>1. /\ purchase[p].paidTotal \in Nat /\ old.refund \in Nat /\ refund \in Nat
              /\ row.balance \in Nat /\ reduction \in Nat
              /\ old.net \in Nat /\ old.tax \in Nat
          BY <1>2, <1>6
        <5>2. purchase[p].paidTotal - (old.refund + refund) + (row.balance - reduction)
                = (purchase[p].paidTotal - old.refund + row.balance) - (refund + reduction)
          BY <5>1
        <5>3. refund + reduction = net + tax
          BY <5>1, <4>2, <1>7
        <5>4. (purchase[p].paidTotal - old.refund + row.balance) - (refund + reduction)
                = (Grand(p) - old.net - old.tax) - (net + tax)
          BY <5>3, <4>1
        <5>5. (Grand(p) - old.net - old.tax) - (net + tax)
                = Grand(p) - (old.net + net) - (old.tax + tax)
          BY <5>1, <4>2
        <5> QED BY <5>2, <5>4, <5>5
      <4>4. /\ returned'[p].refund <= purchase'[p].paidTotal
            /\ purchase'[p].paidTotal - returned'[p].refund + payable'[p].balance
                 = Grand(p) - returned'[p].net - returned'[p].tax
        BY <4>3, <1>4, <1>6, <1>10, <1>11
      <4> QED BY <4>1, <4>4, <1>4, <1>11 DEF SettlementOK
    <3>4. BooksOK(p)'
      <4>1. /\ ledger'[p]["1000"] = ledger[p]["1000"] + 0
            /\ ledger'[p]["1010"] = ledger[p]["1010"] + refund
            /\ ledger'[p]["1200"] = ledger[p]["1200"] + (-(net + tax))
        BY <1>8, <1>9 DEF Accounts
      <4>2. /\ -(ledger[p]["1000"] + ledger[p]["1010"]) = purchase[p].paidTotal - old.refund
            /\ ledger[p]["1200"] = Grand(p) - old.net - old.tax
        BY <1>3 DEF PurchaseOK, BooksOK, MoneyPaid
      <4>3. /\ Grand(p) \in Nat /\ net \in Nat /\ tax \in Nat
            /\ ledger[p]["1000"] \in Int /\ ledger[p]["1010"] \in Int
        BY <1>2, <1>5 DEF Accounts
      <4>4. -(ledger'[p]["1000"] + ledger'[p]["1010"])
              = purchase[p].paidTotal - (old.refund + refund)
        BY <1>2, <1>6, <4>1, <4>2, <4>3
      <4>5. ledger'[p]["1200"] = Grand(p) - (old.net + net) - (old.tax + tax)
        BY <1>2, <4>1, <4>2, <4>3
      <4> QED BY <4>4, <4>5, <1>4, <1>10 DEF BooksOK, MoneyPaid
    <3> QED BY <2>1, <3>1, <3>2, <3>3, <3>4 DEF PurchaseOK
  <2>2. CASE e # p
    <3>1. e \in Docs \ {p}
      BY <2>2, BillFacts
    <3> QED BY <2>2, <3>1, <1>4, <1>9, <1>10, <1>11, PurchaseFrame DEF SupplierInv
  <2> QED BY <2>1, <2>2
<1> QED BY <1>12, <1>13, <1>14 DEF SupplierInv

----------------------------------------------------------------------------
\* Every step preserves the invariant.
LEMMA NextStep == SupplierInv /\ [Next]_vars => SupplierInv'
<1> SUFFICES ASSUME SupplierInv, [Next]_vars PROVE SupplierInv'
  OBVIOUS
<1>1. CASE UNCHANGED vars
  <2>1. TypeOK' /\ LockedOK' /\ LinesOK'
    BY <1>1 DEF SupplierInv, TypeOK, LockedOK, LinesOK, Exists, vars
  <2>2. JobsOK'
    BY <1>1, PhaseKeepsJobs DEF SupplierInv, vars, rows
  <2> QED BY <2>1, <2>2, <1>1, RowsUnchanged DEF SupplierInv, vars, rows
<1>2. ASSUME NEW r \in Requests, NEW kind \in Kinds, NEW d \in Docs \cup {None},
             Begin(r, kind, d)
      PROVE  SupplierInv'
  BY <1>2, BeginStep
<1>3. ASSUME NEW r \in Requests, Work(r) PROVE SupplierInv'
  <2>1. ASSUME NEW paid \in Payments, ReceivePurchase(r, paid) PROVE SupplierInv'
    BY <2>1, ReceivePurchaseStep
  <2>2. ASSUME NEW amount \in Amounts, CreateOpeningEntry(r, amount) PROVE SupplierInv'
    BY <2>2, CreateOpeningEntryStep
  <2>3. ASSUME NEW amount \in Amounts, NEW method \in Methods,
               ReadOpenRows(r, amount, method)
        PROVE  SupplierInv'
    BY <2>3, ReadOpenRowsStep
  <2>4. ASSUME NEW d \in Docs, Lock(r, d) PROVE SupplierInv'
    BY <2>4, LockStep
  <2>5. CASE RecordPayment(r)
    BY <2>5, RecordPaymentStep
  <2>6. ASSUME NEW quantity \in Quantities, CompleteSupplierReturn(r, quantity)
        PROVE  SupplierInv'
    BY <2>6, CompleteSupplierReturnStep
  <2>7. CASE Reject(r)
    BY <2>7, RejectStep
  <2> QED BY <1>3, <2>1, <2>2, <2>3, <2>4, <2>5, <2>6, <2>7 DEF Work
<1> QED BY <1>1, <1>2, <1>3 DEF Next

\* The invariant of every behaviour in which payments name a purchase once, for
\* any number of requests and documents.
THEOREM SupplierInvariant == ~Repeats /\ Spec => []SupplierInv
  BY InitHolds, NextStep, PTL DEF Spec

\* Every row keeps its column types: no payable, refund or returned quantity ever
\* becomes negative.
THEOREM TypeCorrect == ~Repeats /\ Spec => []TypeOK
<1>1. SupplierInv => TypeOK
  BY DEF SupplierInv
<1> QED BY <1>1, SupplierInvariant, PTL

\* Account 2000 carries exactly what is owed for every document.
THEOREM LedgerAgreement == ~Repeats /\ Spec => []PayableAgreesWithLedger
<1>1. SupplierInv => PayableAgreesWithLedger
  BY DEF SupplierInv, RowOK, PayableAgreesWithLedger
<1> QED BY <1>1, SupplierInvariant, PTL

\* The money a supplier has for a purchase stays between nothing and its price.
THEOREM MoneyStaysWithinBill == ~Repeats /\ Spec => []MoneyWithinBill
<1>1. ASSUME SupplierInv, NEW p \in Purchases PROVE MoneyPaid(p) \in 0 .. Grand(p)
  <2>1. /\ PurchaseOK(p) /\ Grand(p) \in Nat
        /\ purchase[p].paidTotal \in Nat /\ returned[p].refund \in Nat
        /\ returned[p].net \in Nat /\ returned[p].tax \in Nat
        /\ payable[p].balance \in Nat
    BY <1>1, BillFacts DEF SupplierInv, TypeOK
  <2>2. CASE Received(p)
    BY <2>1, <2>2 DEF PurchaseOK, SettlementOK, BooksOK
  <2>3. CASE ~Received(p)
    BY <2>1, <2>3 DEF PurchaseOK, NotReceivedOK, Received, MoneyPaid, Accounts
  <2> QED BY <2>2, <2>3
<1>2. SupplierInv => MoneyWithinBill
  BY <1>1 DEF MoneyWithinBill
<1> QED BY <1>2, SupplierInvariant, PTL

\* When everything has gone back nothing is owed, paid or carried any more.
THEOREM FullReturnsSettle == ~Repeats /\ Spec => []FullReturnSettles
<1>1. ASSUME SupplierInv, NEW p \in Purchases, returned[p].qty = Bill[p].qty
      PROVE  payable[p].balance = 0 /\ MoneyPaid(p) = 0 /\ ledger[p]["1200"] = 0
  <2>1. /\ PurchaseOK(p) /\ Bill[p].qty > 0 /\ Bill[p].net \in Nat /\ Bill[p].tax \in Nat
        /\ Grand(p) = Bill[p].net + Bill[p].tax
        /\ purchase[p].paidTotal \in Nat /\ returned[p].refund \in Nat
        /\ payable[p].balance \in Nat
    BY <1>1, BillFacts DEF SupplierInv, TypeOK
  <2>2. Received(p)
    BY <1>1, <2>1 DEF PurchaseOK, NotReceivedOK, Received, NoReturn
  <2>3. returned[p].net = Bill[p].net /\ returned[p].tax = Bill[p].tax
    BY <1>1, <2>1 DEF PurchaseOK, ReturnsOK
  <2>4. /\ returned[p].refund <= purchase[p].paidTotal
        /\ (purchase[p].paidTotal - returned[p].refund) + payable[p].balance = 0
    BY <2>1, <2>2, <2>3 DEF PurchaseOK, SettlementOK
  <2>5. payable[p].balance = 0 /\ purchase[p].paidTotal - returned[p].refund = 0
    <3>1. /\ purchase[p].paidTotal \in Nat /\ returned[p].refund \in Nat
          /\ payable[p].balance \in Nat
      BY <2>1
    <3> QED BY <3>1, <2>4
  <2>6. MoneyPaid(p) = 0 /\ ledger[p]["1200"] = 0
    BY <2>1, <2>2, <2>3, <2>5 DEF PurchaseOK, BooksOK
  <2> QED BY <2>5, <2>6
<1>2. SupplierInv => FullReturnSettles
  BY <1>1 DEF FullReturnSettles
<1> QED BY <1>2, SupplierInvariant, PTL

----------------------------------------------------------------------------
(* Deadlock.  Every request takes its locks in one order of the documents, *)
(* and the holder of the last locked document waits for none (OrderOK); for *)
(* this a payment may name a purchase twice.                               *)

\* The ranks of finitely many documents have a bound.
LEMMA RanksBounded == \E top \in Nat : \A d \in Docs : Rank[d] <= top
<1>1. PICK n \in Nat : ExistsSurjection(1 .. n, Docs)
  BY FiniteDocs, FS_NatSurjection
<1>2. PICK f \in Surjection(1 .. n, Docs) : TRUE
  BY <1>1 DEF ExistsSurjection
<1>3. f \in [1 .. n -> Docs] /\ \A d \in Docs : \E i \in 1 .. n : f[i] = d
  BY <1>2 DEF Surjection
<1> DEFINE g == [i \in 1 .. n |-> Rank[f[i]]]
<1>4. g \in [1 .. n -> Nat]
  BY <1>3, SupplierAssumption
<1>5. PICK top \in Nat : \A i \in 1 .. n : g[i] <= top
  <2> HIDE DEF g
  <2> QED BY <1>4, NumbersBounded
<1> QED BY <1>3, <1>5

\* Documents are locked in a total order: of some there is a first,
LEMMA FirstDocument ==
  ASSUME NEW D \in SUBSET Docs, D # {}
  PROVE  \E d \in D : \A e \in D : e = d \/ LockBefore(d, e)
<1>1. ASSUME NEW C \in SUBSET Docs, C # {}
      PROVE  \E d \in C : \A e \in C : e = d \/ Rank[d] < Rank[e]
  <2> DEFINE T == {Rank[d] : d \in C}
  <2>1. T \subseteq Nat /\ T # {}
    BY <1>1, SupplierAssumption
  <2>2. PICK m \in T : \A n \in T : m <= n
    BY <2>1, LeastNumber
  <2>3. PICK d \in C : Rank[d] = m
    BY <2>2
  <2>4. ASSUME NEW e \in C PROVE e = d \/ Rank[d] < Rank[e]
    <3>1. Rank[d] <= Rank[e] /\ Rank[d] \in Nat /\ Rank[e] \in Nat
      BY <2>2, <2>3, SupplierAssumption
    <3>2. Rank[d] = Rank[e] => e = d
      BY SupplierAssumption
    <3> QED BY <3>1, <3>2
  <2> QED BY <2>4
<1>2. CASE D \cap Purchases # {}
  <2>1. PICK d \in D \cap Purchases : \A e \in D \cap Purchases : e = d \/ Rank[d] < Rank[e]
    BY <1>1, <1>2
  <2> QED BY <2>1 DEF LockBefore, Docs
<1>3. CASE D \cap Purchases = {}
  BY <1>1, <1>3 DEF LockBefore
<1> QED BY <1>2, <1>3

\* and a last.
LEMMA LastDocument ==
  ASSUME NEW D \in SUBSET Docs, D # {}
  PROVE  \E d \in D : \A e \in D : e = d \/ LockBefore(e, d)
<1>1. PICK top \in Nat : \A d \in Docs : Rank[d] <= top
  BY RanksBounded
<1>2. ASSUME NEW C \in SUBSET Docs, C # {}
      PROVE  \E d \in C : \A e \in C : e = d \/ Rank[e] < Rank[d]
  <2> DEFINE T == {top - Rank[d] : d \in C}
  <2>1. T \subseteq Nat /\ T # {}
    BY <1>1, <1>2, SupplierAssumption
  <2>2. PICK m \in T : \A n \in T : m <= n
    BY <2>1, LeastNumber
  <2>3. PICK d \in C : top - Rank[d] = m
    BY <2>2
  <2>4. ASSUME NEW e \in C PROVE e = d \/ Rank[e] < Rank[d]
    <3>1. top - Rank[d] <= top - Rank[e] /\ Rank[d] \in Nat /\ Rank[e] \in Nat
      BY <2>2, <2>3, SupplierAssumption
    <3>2. Rank[d] = Rank[e] => e = d
      BY SupplierAssumption
    <3> QED BY <3>1, <3>2
  <2> QED BY <2>4
<1>3. CASE D \cap Openings # {}
  <2>1. PICK d \in D \cap Openings : \A e \in D \cap Openings : e = d \/ Rank[e] < Rank[d]
    BY <1>2, <1>3
  <2> QED BY <2>1, SupplierAssumption DEF LockBefore, Docs
<1>4. CASE D \cap Openings = {}
  <2>1. D \subseteq Purchases
    BY <1>4 DEF Docs
  <2> QED BY <1>2, <2>1 DEF LockBefore
<1> QED BY <1>3, <1>4

\* A holder is still at work, and holds nothing that comes after what it needs next.
OrderOK ==
  /\ pc \in [Requests -> {"idle", "begun", "locking", "done", "failed"}]
  /\ job \in [Requests -> [kind : Kinds \cup {"none"}, doc : Docs \cup {None}]]
  /\ pay = [r \in Requests |-> pay[r]]
  /\ locked \in [Docs -> Requests \cup {None}]
  /\ \A r \in Requests : Needs(r) \subseteq Docs
  /\ \A r \in Requests, d \in Docs : locked[d] = r => pc[r] = "locking"
  /\ \A r \in Requests, d, e \in Docs :
       pc[r] = "locking" /\ locked[d] = r /\ e \in Needs(r) /\ locked[e] # r =>
         LockBefore(d, e)

LEMMA LockInit == Init => OrderOK
  BY SupplierAssumption DEF Init, OrderOK, Docs, Kinds, Needs

\* The end of a transaction.
LEMMA LockFinish ==
  ASSUME OrderOK, NEW r \in Requests, NEW outcome \in {"done", "failed"},
         Finish(r, outcome), pay' = pay
  PROVE  OrderOK'
<1>1. /\ pc' \in [Requests -> {"idle", "begun", "locking", "done", "failed"}]
      /\ pc'[r] = outcome /\ \A q \in Requests \ {r} : pc'[q] = pc[q]
      /\ locked' \in [Docs -> Requests \cup {None}]
      /\ \A d \in Docs : locked'[d] = IF locked[d] = r THEN None ELSE locked[d]
      /\ job' = job
  BY DEF OrderOK, Finish
<1>2. \A q \in Requests : Needs(q)' = Needs(q)
  BY <1>1 DEF Needs
<1>3. \A q \in Requests, d \in Docs : locked'[d] = q => q # r /\ locked[d] = q
  BY <1>1, SupplierAssumption
<1>4. \A q \in Requests, d \in Docs : locked'[d] = q => pc'[q] = "locking"
  BY <1>1, <1>3 DEF OrderOK
<1>5. ASSUME NEW q \in Requests, NEW d \in Docs, NEW e \in Docs, pc'[q] = "locking",
             locked'[d] = q, e \in Needs(q)', locked'[e] # q
      PROVE  LockBefore(d, e)
  BY <1>1, <1>2, <1>3, <1>5 DEF OrderOK
<1>6. /\ job' \in [Requests -> [kind : Kinds \cup {"none"}, doc : Docs \cup {None}]]
      /\ pay' = [q \in Requests |-> pay'[q]]
      /\ \A q \in Requests : Needs(q)' \subseteq Docs
  BY <1>1, <1>2 DEF OrderOK
<1> QED BY <1>1, <1>4, <1>5, <1>6 DEF OrderOK, LockBefore

\* A transaction that has no lock yet goes on.
LEMMA LockPhase ==
  ASSUME OrderOK, NEW r \in Requests, pc[r] \in {"idle", "begun"},
         pc' \in [Requests -> {"idle", "begun", "locking", "done", "failed"}],
         job' \in [Requests -> [kind : Kinds \cup {"none"}, doc : Docs \cup {None}]],
         pay' = [q \in Requests |-> pay'[q]], locked' = locked, Needs(r)' \subseteq Docs,
         \A q \in Requests \ {r} : pc'[q] = pc[q] /\ job'[q] = job[q] /\ pay'[q] = pay[q]
  PROVE  OrderOK'
<1>1. \A q \in Requests \ {r} : Needs(q)' = Needs(q)
  BY DEF Needs
<1>2. \A d \in Docs : locked'[d] # r
  BY DEF OrderOK
<1> QED BY <1>1, <1>2 DEF OrderOK, LockBefore

LEMMA LockTaken ==
  ASSUME OrderOK, NEW r \in Requests, NEW d \in Docs, Lock(r, d)
  PROVE  OrderOK'
<1>1. /\ pc[r] = "locking" /\ d \in Needs(r) /\ locked[d] = None
      /\ \A e \in Needs(r) : locked[e] # r /\ e \in Docs => e = d \/ LockBefore(d, e)
      /\ UNCHANGED <<pc, job, pay>>
  BY DEF Lock, Holds
<1>2. \A q \in Requests : Needs(q)' = Needs(q)
  BY <1>1 DEF Needs
<1>3. /\ locked' \in [Docs -> Requests \cup {None}]
      /\ \A e \in Docs : locked'[e] = IF e = d THEN r ELSE locked[e]
  BY DEF Lock, OrderOK
<1>4. ASSUME NEW q \in Requests, NEW c \in Docs, NEW e \in Docs, pc[q] = "locking",
             locked'[c] = q, e \in Needs(q), locked'[e] # q
      PROVE  LockBefore(c, e)
  <2>1. locked[e] # q
    BY <1>1, <1>3, <1>4, SupplierAssumption
  <2>2. CASE c = d
    BY <1>1, <1>3, <1>4, <2>1, <2>2
  <2>3. CASE c # d
    BY <1>3, <1>4, <2>1, <2>3 DEF OrderOK
  <2> QED BY <2>2, <2>3
<1> QED BY <1>1, <1>2, <1>3, <1>4 DEF OrderOK, LockBefore

LEMMA LockNext == OrderOK /\ [Next]_vars => OrderOK'
<1> SUFFICES ASSUME OrderOK, [Next]_vars PROVE OrderOK'
  OBVIOUS
<1>1. CASE UNCHANGED vars
  BY <1>1 DEF OrderOK, Needs, LockBefore, vars
<1>2. ASSUME NEW r \in Requests, NEW kind \in Kinds, NEW d \in Docs \cup {None},
             Begin(r, kind, d)
      PROVE  OrderOK'
  <2>1. /\ pc[r] = "idle" /\ pay' = pay /\ locked' = locked
        /\ job' = [job EXCEPT ![r] = [kind |-> kind, doc |-> d]]
        /\ pc' = [pc EXCEPT ![r] = IF kind = "return" THEN "locking" ELSE "begun"]
    BY <1>2 DEF Begin
  <2>2. [kind |-> kind, doc |-> d] \in [kind : Kinds \cup {"none"}, doc : Docs \cup {None}]
    OBVIOUS
  <2>3. /\ pc' \in [Requests -> {"idle", "begun", "locking", "done", "failed"}]
        /\ job' \in [Requests -> [kind : Kinds \cup {"none"}, doc : Docs \cup {None}]]
        /\ \A q \in Requests \ {r} : pc'[q] = pc[q] /\ job'[q] = job[q]
    BY <2>1, <2>2 DEF OrderOK
  <2>4. pay' = [q \in Requests |-> pay'[q]]
    BY <2>1 DEF OrderOK
  <2>5. Needs(r)' \subseteq Docs
    <3>1. job'[r] = [kind |-> kind, doc |-> d]
      BY <2>1 DEF OrderOK
    <3>2. kind = "return" => d \in Docs
      BY <1>2 DEF Begin, Docs
    <3> QED BY <3>1, <3>2 DEF Needs
  <2> QED BY <2>1, <2>3, <2>4, <2>5, LockPhase
<1>3. ASSUME NEW r \in Requests, Work(r) PROVE OrderOK'
  <2>1. ASSUME NEW amount \in Amounts, NEW method \in Methods, ReadOpenRows(r, amount, method)
        PROVE  OrderOK'
    <3>1. PICK row : /\ pc[r] = "begun" /\ pay' = [pay EXCEPT ![r] = row]
                     /\ pc' = [pc EXCEPT ![r] = "locking"] /\ UNCHANGED <<job, locked>>
      BY <2>1 DEF ReadOpenRows
    <3>2. /\ pay' = [q \in Requests |-> pay'[q]]
          /\ \A q \in Requests \ {r} : pay'[q] = pay[q]
      BY <3>1 DEF OrderOK
    <3>3. /\ pc' \in [Requests -> {"idle", "begun", "locking", "done", "failed"}]
          /\ \A q \in Requests \ {r} : pc'[q] = pc[q]
      BY <3>1 DEF OrderOK
    <3>4. job' \in [Requests -> [kind : Kinds \cup {"none"}, doc : Docs \cup {None}]]
      BY <3>1 DEF OrderOK
    <3>5. job[r].kind = "payment" /\ job' = job
      BY <2>1 DEF ReadOpenRows
    <3>6. Needs(r)' \subseteq Docs
      BY <3>5 DEF Needs
    <3> QED BY <3>1, <3>2, <3>3, <3>4, <3>6, LockPhase
  <2>2. CASE \E d \in Docs : Lock(r, d)
    BY <2>2, LockTaken
  <2>3. CASE \E paid \in Payments : ReceivePurchase(r, paid)
    BY <2>3, LockFinish DEF ReceivePurchase
  <2>4. CASE \E amount \in Amounts : CreateOpeningEntry(r, amount)
    BY <2>4, LockFinish DEF CreateOpeningEntry
  <2>5. CASE RecordPayment(r)
    BY <2>5, LockFinish DEF RecordPayment
  <2>6. CASE \E quantity \in Quantities : CompleteSupplierReturn(r, quantity)
    BY <2>6, LockFinish DEF CompleteSupplierReturn
  <2>7. CASE Reject(r)
    BY <2>7, LockFinish DEF Reject
  <2> QED BY <1>3, <2>1, <2>2, <2>3, <2>4, <2>5, <2>6, <2>7 DEF Work
<1> QED BY <1>1, <1>2, <1>3 DEF Next

\* What a waiting request waits for is locked by another.
LEMMA WaiterWaits ==
  ASSUME OrderOK, NEW r \in Requests, Waits(r)
  PROVE  \E e \in Docs : e \in Needs(r) /\ locked[e] # r /\ locked[e] # None
<1> DEFINE D == Needs(r) \ Holds(r)
<1>1. Needs(r) \subseteq Docs
  BY DEF Waits, Needs, OrderOK
<1>2. D \in SUBSET Docs /\ D # {}
  BY <1>1 DEF Waits, Ready
<1>3. PICK d \in D : \A e \in D : e = d \/ LockBefore(d, e)
  BY <1>2, FirstDocument
<1> QED BY <1>1, <1>3 DEF Waits, Holds

\* Payments of several documents and returns never wait for one another in a
\* circle, for any number of them and in whatever order their lines name the
\* documents: whenever a request waits, another one can go on.
THEOREM LocksAreOrdered == Spec => []LocksNeverDeadlock
<1>1. ASSUME OrderOK, NEW r \in Requests, Waits(r),
             \A q \in Requests : pc[q] = "locking" => Waits(q)
      PROVE  FALSE
  <2> DEFINE D == {d \in Docs : locked[d] # None}
  <2>1. D \in SUBSET Docs /\ D # {}
    BY <1>1, WaiterWaits
  <2>2. PICK m \in D : \A e \in D : e = m \/ LockBefore(e, m)
    BY <2>1, LastDocument
  <2>3. PICK q \in Requests : locked[m] = q
    BY <1>1, <2>2 DEF OrderOK
  <2>4. pc[q] = "locking" /\ Waits(q)
    BY <1>1, <2>2, <2>3 DEF OrderOK
  <2>5. PICK e \in Docs : e \in Needs(q) /\ locked[e] # q /\ locked[e] # None
    BY <1>1, <2>4, WaiterWaits
  <2>6. LockBefore(m, e)
    BY <1>1, <2>2, <2>3, <2>4, <2>5 DEF OrderOK
  <2>7. LockBefore(e, m)
    BY <2>2, <2>3, <2>5
  <2> QED BY <2>2, <2>5, <2>6, <2>7, SupplierAssumption DEF LockBefore
<1>2. OrderOK => LocksNeverDeadlock
  BY <1>1 DEF LocksNeverDeadlock, OrderOK, Waits
<1> QED BY <1>2, LockInit, LockNext, PTL DEF Spec
=============================================================================
