----------------------- MODULE CustomerAccountProofs -----------------------
(***************************************************************************)
(* The safety invariants of CustomerAccount, for any documents, requests,  *)
(* bills and amounts.                                                      *)
(*                                                                         *)
(* None of the invariants the runs check is inductive.  AccountInv adds    *)
(* what the use cases rely on: a document has one creator (JobsOK), a      *)
(* receivable row adds up (RowOK), returns never exceed the sale           *)
(* (ReturnsOK), the money held and the debt left are the value that has    *)
(* not come back (SettlementOK), and the other accounts are functions of   *)
(* the bill and the returns (BooksOK).  One lemma per action shows that it *)
(* preserves AccountInv; the theorems at the end read the properties off.  *)
(* CancelInv, on top of it, is about the payments of a sale that are       *)
(* summed by what they allocate.                                           *)
(***************************************************************************)
EXTENDS CustomerAccount, ArithmeticProofs

\* The request whose transaction inserts document d.
Creates(r, d) ==
  job[r] = [kind |-> IF d \in Sales THEN "sale" ELSE "opening", doc |-> d]

\* Requests work on documents of their kind, and a document has one creator,
\* which has committed once the document exists.
JobsOK ==
  /\ \A r \in Requests :
       /\ pc[r] = "idle" => job[r].kind = "none"
       /\ job[r].kind \in {"sale", "return", "cancel"} => job[r].doc \in Sales
       /\ job[r].kind = "opening" => job[r].doc \in Openings
  /\ \A d \in Docs : \A q, r \in Requests : Creates(q, d) /\ Creates(r, d) => q = r
  /\ \A d \in Docs : Exists(d) =>
       \E q \in Requests : Creates(q, d) /\ pc[q] \notin {"idle", "begun"}

\* A receivable row adds up and agrees with account 1100.
RowOK(d) ==
  /\ receivable[d].status \in {"NONE", "CANCELLED"} => receivable[d].balance = 0
  /\ receivable[d].status \notin {"NONE", "CANCELLED"} =>
       receivable[d].amount = receivable[d].paidAmount + receivable[d].balance
  /\ ledger[d]["1100"] = receivable[d].balance

Live(s) == sale[s].status \notin {"NONE", "CANCELLED"}

\* Before it is made a sale has left no trace.
UnsoldOK(s) == sale[s].status = "NONE" =>
  /\ ~sale[s].customer
  /\ receivable[s].status = "NONE"
  /\ returned[s] = NoReturn
  /\ \A a \in Accounts : ledger[s][a] = 0

\* What has been returned of a sale is at most what was sold, and all of the
\* value has come back with the last unit.
ReturnsOK(s) == Live(s) =>
  /\ returned[s].qty <= Bill[s].qty
  /\ returned[s].net <= Bill[s].net
  /\ returned[s].tax <= Bill[s].tax
  /\ returned[s].qty = Bill[s].qty =>
       returned[s].net = Bill[s].net /\ returned[s].tax = Bill[s].tax
  /\ returned[s].qty = 0 => returned[s] = NoReturn

\* The money held for a sale and what is still owed are the value not returned.
SettlementOK(s) == Live(s) =>
  /\ sale[s].initialPaid <= sale[s].paidTotal
  /\ returned[s].cash <= sale[s].paidTotal
  /\ sale[s].paidTotal - returned[s].cash + receivable[s].balance
       = Grand(s) - returned[s].net - returned[s].tax
  /\ receivable[s].status # "CANCELLED"
  /\ ~sale[s].customer => receivable[s].status = "NONE"
  /\ receivable[s].status = "NONE" =>
       /\ sale[s].initialPaid = Grand(s)
       /\ sale[s].paidTotal = Grand(s)
  /\ receivable[s].status # "NONE" => receivable[s].paidAmount = sale[s].paidTotal

\* The other accounts of a live sale.
BooksOK(s) == Live(s) =>
  /\ MoneyHeld(s) = sale[s].paidTotal - returned[s].cash
  /\ ledger[s]["5100"] = Bill[s].discount
  /\ ledger[s]["4000"] = returned[s].net - Bill[s].net - Bill[s].discount
  /\ ledger[s]["2100"] = returned[s].tax - Bill[s].tax
  /\ ledger[s]["3000"] = 0

CancelledOK(s) == sale[s].status = "CANCELLED" =>
  /\ returned[s].qty = 0
  /\ receivable[s].status \in {"NONE", "CANCELLED"}
  /\ MoneyHeld(s) = 0
  /\ \A a \in Accounts \ {"1000", "1010"} : ledger[s][a] = 0

SaleOK(s) == /\ UnsoldOK(s) /\ ReturnsOK(s) /\ SettlementOK(s)
             /\ BooksOK(s) /\ CancelledOK(s)

AccountInv ==
  /\ TypeOK
  /\ JobsOK
  /\ \A d \in Docs : RowOK(d)
  /\ \A s \in Sales : SaleOK(s)

----------------------------------------------------------------------------
\* The bill of a sale is made of natural numbers.
LEMMA BillFacts ==
  ASSUME NEW s \in Sales
  PROVE  /\ Bill[s].qty \in Nat \ {0} /\ Bill[s].net \in Nat
         /\ Bill[s].tax \in Nat /\ Bill[s].discount \in Nat
         /\ Grand(s) \in Nat
         /\ s \in Docs
  BY DocsAssumption DEF BillRecord, Grand, Docs

\* No document exists initially.
LEMMA InitHolds == Init => AccountInv
<1> SUFFICES ASSUME Init PROVE AccountInv
  OBVIOUS
<1>1. TypeOK
  BY DEF Init, TypeOK, NoPay, NoAlloc, NoSale, NoRow, NoReturn, Zero, Methods,
         SaleStatus, RowStatus, Docs, Kinds
<1>2. JobsOK
  BY DEF Init, JobsOK, Creates, Exists, NoSale, NoRow, Docs
<1>3. \A d \in Docs : RowOK(d)
  BY DEF Init, RowOK, NoRow, Zero, Accounts
<1>4. \A s \in Sales : SaleOK(s)
  BY DEF Init, SaleOK, UnsoldOK, ReturnsOK, SettlementOK, BooksOK, CancelledOK,
         Live, NoSale, NoRow, Zero, Docs
<1> QED BY <1>1, <1>2, <1>3, <1>4 DEF AccountInv

\* A posting about one document.
LEMMA PostOnFacts ==
  ASSUME TypeOK, NEW d \in Docs, NEW entry \in [Accounts -> Int],
         ledger' = PostOn(d, entry)
  PROVE  /\ ledger' \in [Docs -> [Accounts -> Int]]
         /\ \A a \in Accounts : ledger'[d][a] = ledger[d][a] + entry[a]
         /\ \A e \in Docs \ {d} : \A a \in Accounts : ledger'[e][a] = ledger[e][a]
<1>1. Zero \in [Accounts -> Int] /\ \A a \in Accounts : Zero[a] = 0
  BY DEF Zero
<1>2. ledger \in [Docs -> [Accounts -> Int]]
  BY DEF TypeOK
<1> QED BY <1>1, <1>2 DEF PostOn, Post

\* A transaction that ends keeps JobsOK when it created only its own document.
LEMMA FinishKeepsJobs ==
  ASSUME TypeOK, JobsOK, NEW r \in Requests, NEW outcome \in {"done", "failed"},
         Finish(r, outcome),
         \A d \in Docs : Exists(d)' => Exists(d) \/ Creates(r, d)
  PROVE  JobsOK'
<1>1. /\ job' = job
      /\ pc'[r] = outcome
      /\ \A q \in Requests \ {r} : pc'[q] = pc[q]
  BY DEF Finish, TypeOK
<1>2. \A d \in Docs, q \in Requests : Creates(q, d)' <=> Creates(q, d)
  BY <1>1 DEF Creates
<1>3. ASSUME NEW d \in Docs, Exists(d)'
      PROVE  \E q \in Requests : Creates(q, d)' /\ pc'[q] \notin {"idle", "begun"}
  <2>1. CASE Creates(r, d)
    BY <2>1, <1>1, <1>2
  <2>2. CASE Exists(d)
    BY <2>2, <1>1, <1>2 DEF JobsOK
  <2> QED BY <2>1, <2>2, <1>3
<1>4. \A q \in Requests :
        /\ pc'[q] = "idle" => job'[q].kind = "none"
        /\ job'[q].kind \in {"sale", "return", "cancel"} => job'[q].doc \in Sales
        /\ job'[q].kind = "opening" => job'[q].doc \in Openings
  BY <1>1 DEF JobsOK
<1>5. \A d \in Docs : \A q, p \in Requests :
        Creates(q, d)' /\ Creates(p, d)' => q = p
  BY <1>2 DEF JobsOK
<1> QED BY <1>3, <1>4, <1>5 DEF JobsOK

\* Locks and program counters of a transaction that ends.
LEMMA FinishTypes ==
  ASSUME TypeOK, NEW r \in Requests, NEW outcome \in {"done", "failed"},
         Finish(r, outcome)
  PROVE  /\ pc' \in [Requests -> {"idle", "begun", "locking", "done", "failed"}]
         /\ locked' \in [Docs -> Requests \cup {None}]
         /\ job' = job /\ began' = began /\ clock' = clock
  BY DEF Finish, TypeOK

\* A document has not been created while its creator is at work.
LEMMA CreatorAtWork ==
  ASSUME JobsOK, NEW d \in Docs, NEW r \in Requests, Creates(r, d), pc[r] = "begun"
  PROVE  ~Exists(d)
  BY DEF JobsOK

\* A step that leaves the rows alone keeps what is said of them.
LEMMA RowsUnchanged ==
  ASSUME \A d \in Docs : RowOK(d), \A s \in Sales : SaleOK(s), UNCHANGED rows
  PROVE  (\A d \in Docs : RowOK(d))' /\ (\A s \in Sales : SaleOK(s))'
  BY DEF rows, RowOK, SaleOK, UnsoldOK, ReturnsOK, SettlementOK, BooksOK, CancelledOK,
         Live, MoneyHeld

\* A document whose rows and ledger a step does not change stays in order.
LEMMA RowFrame ==
  ASSUME NEW d \in Docs, RowOK(d), receivable'[d] = receivable[d],
         \A a \in Accounts : ledger'[d][a] = ledger[d][a]
  PROVE  RowOK(d)'
  BY DEF RowOK, Accounts

\* A sale whose rows and ledger a step does not change stays in order.
LEMMA SaleFrame ==
  ASSUME NEW s \in Sales, SaleOK(s), receivable'[s] = receivable[s],
         sale'[s] = sale[s], returned'[s] = returned[s],
         \A a \in Accounts : ledger'[s][a] = ledger[s][a]
  PROVE  SaleOK(s)'
<1>1. UnsoldOK(s)'
  BY DEF SaleOK, UnsoldOK
<1>2. ReturnsOK(s)' /\ SettlementOK(s)'
  BY DEF SaleOK, ReturnsOK, SettlementOK, Live
<1>3. BooksOK(s)' /\ CancelledOK(s)'
  BY DEF SaleOK, BooksOK, CancelledOK, Live, MoneyHeld, Accounts
<1> QED BY <1>1, <1>2, <1>3 DEF SaleOK

----------------------------------------------------------------------------
\* Beginning a transaction writes no row.
LEMMA BeginStep ==
  ASSUME AccountInv, NEW r \in Requests, NEW kind \in Kinds,
         NEW d \in Docs \cup {None}, Begin(r, kind, d)
  PROVE  AccountInv'
<1> USE DEF AccountInv
<1>1. TypeOK'
  BY DEF TypeOK, Begin, rows
<1>2. JobsOK'
  <2>1. /\ \A q \in Requests \ {r} : job'[q] = job[q] /\ pc'[q] = pc[q]
        /\ job'[r] = [kind |-> kind, doc |-> d]
        /\ pc'[r] # "idle" /\ pc[r] = "idle" /\ job[r].kind = "none"
    BY DEF Begin, TypeOK, JobsOK
  <2>2. \A e \in Docs : Exists(e)' <=> Exists(e)
    BY DEF Begin, rows, Exists
  <2>3. \A e \in Docs : ~Creates(r, e)
    BY <2>1 DEF Creates
  <2>4. \A e \in Docs, q \in Requests \ {r} : Creates(q, e)' <=> Creates(q, e)
    BY <2>1 DEF Creates
  <2>5. ASSUME NEW e \in Docs, NEW q \in Requests \ {r}, Creates(r, e)'
        PROVE  ~Creates(q, e)
    <3>1. job'[r] = [kind |-> IF e \in Sales THEN "sale" ELSE "opening", doc |-> e]
      BY <2>5 DEF Creates
    <3>2. kind = (IF e \in Sales THEN "sale" ELSE "opening") /\ d = e
      BY <3>1, <2>1
    <3> QED BY <3>2 DEF Begin, Creates
  <2>6. \A e \in Docs : \A q, p \in Requests :
          Creates(q, e)' /\ Creates(p, e)' => q = p
    BY <2>4, <2>5 DEF JobsOK
  <2>7. \A e \in Docs : Exists(e)' =>
          \E q \in Requests : Creates(q, e)' /\ pc'[q] \notin {"idle", "begun"}
    BY <2>1, <2>2, <2>3, <2>4 DEF JobsOK
  <2>8. \A q \in Requests :
          /\ pc'[q] = "idle" => job'[q].kind = "none"
          /\ job'[q].kind \in {"sale", "return", "cancel"} => job'[q].doc \in Sales
          /\ job'[q].kind = "opening" => job'[q].doc \in Openings
    BY <2>1 DEF JobsOK, Begin
  <2> QED BY <2>6, <2>7, <2>8 DEF JobsOK
<1>3. UNCHANGED rows
  BY DEF Begin
<1> QED BY <1>1, <1>2, <1>3, RowsUnchanged

\* completeSale: paid and due add up to the bill, and the journal to both.
LEMMA CompleteSaleStep ==
  ASSUME AccountInv, NEW r \in Requests, NEW paid \in Payments, NEW customer \in BOOLEAN,
         CompleteSale(r, paid, customer)
  PROVE  AccountInv'
<1>1. PICK s \in Sales : /\ s = job[r].doc /\ s \in Docs
                          /\ pc[r] = "begun" /\ Creates(r, s)
  <2>1. job[r].doc \in Sales
    BY DEF CompleteSale, AccountInv, JobsOK
  <2>2. job[r] = [kind |-> "sale", doc |-> job[r].doc]
    BY DEF CompleteSale, AccountInv, TypeOK
  <2> QED BY <2>1, <2>2 DEF CompleteSale, Creates, Docs
<1> DEFINE due == Grand(s) - paid
           entry == SaleJournal(s, paid)
<1>2. ~Exists(s) /\ sale[s].status = "NONE"
  BY <1>1, CreatorAtWork DEF AccountInv, Exists
<1>3. /\ Bill[s].net \in Nat /\ Bill[s].tax \in Nat /\ Bill[s].discount \in Nat
      /\ Bill[s].qty \in Nat \ {0}
      /\ Grand(s) = Bill[s].net + Bill[s].tax
      /\ paid \in 0 .. Grand(s) /\ due \in Nat /\ Grand(s) \in Nat
  BY <1>1, BillFacts DEF CompleteSale, Grand
<1>4. /\ entry \in [Accounts -> Int]
      /\ entry["1000"] = paid /\ entry["1010"] = 0 /\ entry["1100"] = due
      /\ entry["5100"] = Bill[s].discount
      /\ entry["4000"] = -(Bill[s].net + Bill[s].discount)
      /\ entry["2100"] = -Bill[s].tax /\ entry["3000"] = 0
  BY <1>3 DEF SaleJournal, Accounts, Zero
<1>5. /\ ledger' \in [Docs -> [Accounts -> Int]]
      /\ \A a \in Accounts : ledger'[s][a] = ledger[s][a] + entry[a]
      /\ \A e \in Docs \ {s} : \A a \in Accounts : ledger'[e][a] = ledger[e][a]
  <2>1. ledger' = PostOn(s, entry)
    BY <1>1 DEF CompleteSale
  <2> HIDE DEF entry
  <2> QED BY <1>1, <1>4, <2>1, PostOnFacts DEF AccountInv
<1>6. /\ sale'[s].status \in {"DUE", "PARTIALLY_PAID", "PAID"}
      /\ sale'[s].initialPaid = paid /\ sale'[s].paidTotal = paid
      /\ sale'[s].dueTotal = due /\ sale'[s].customer = customer
      /\ sale' \in [Sales -> [status : SaleStatus, customer : BOOLEAN, initialPaid : Nat,
                              paidTotal : Nat, dueTotal : Nat]]
      /\ \A e \in Sales \ {s} : sale'[e] = sale[e]
  BY <1>1, <1>3 DEF CompleteSale, AccountInv, TypeOK, SaleStatus
<1>7. /\ receivable[s].status = "NONE" /\ receivable[s].balance = 0
      /\ returned[s] = NoReturn
      /\ \A a \in Accounts : ledger[s][a] = 0
  BY <1>1, <1>2 DEF AccountInv, SaleOK, UnsoldOK, RowOK
<1>8. /\ due = 0 => receivable'[s] = receivable[s]
      /\ due # 0 => /\ receivable'[s].status \in {"OPEN", "PARTIAL"}
                    /\ receivable'[s].amount = Grand(s)
                    /\ receivable'[s].paidAmount = paid
                    /\ receivable'[s].balance = due
      /\ \A e \in Docs \ {s} : receivable'[e] = receivable[e]
      /\ receivable' \in [Docs -> [status : RowStatus, amount : Nat, paidAmount : Nat,
                                    balance : Nat]]
  BY <1>1, <1>3 DEF CompleteSale, AccountInv, TypeOK, RowStatus
<1>9. returned' = returned /\ Finish(r, "done")
  BY DEF CompleteSale
<1>10. pay' \in [Requests -> [amount : Nat, method : Methods, alloc : [Docs -> Nat]]]
  BY <1>1, <1>3 DEF CompleteSale, AccountInv, TypeOK, Methods, NoAlloc
<1>11. TypeOK'
  <2>1. TypeOK
    BY DEF AccountInv
  <2> QED BY <1>5, <1>6, <1>8, <1>9, <1>10, <2>1, FinishTypes DEF TypeOK
<1>12. JobsOK'
  <2>1. \A d \in Docs : Exists(d)' => Exists(d) \/ Creates(r, d)
    BY <1>1, <1>6, <1>8 DEF Exists, Docs
  <2> QED BY <1>9, <2>1, FinishKeepsJobs DEF AccountInv
<1>13. ASSUME NEW d \in Docs PROVE RowOK(d)'
  <2>1. CASE d = s
    <3>1. ledger'[s]["1100"] = due
      BY <1>3, <1>4, <1>5, <1>7 DEF Accounts
    <3> QED BY <2>1, <3>1, <1>3, <1>7, <1>8 DEF RowOK
  <2>2. CASE d # s
    BY <2>2, <1>5, <1>8, RowFrame DEF AccountInv
  <2> QED BY <2>1, <2>2
<1>14. ASSUME NEW e \in Sales PROVE SaleOK(e)'
  <2>1. CASE e = s
    <3>1. /\ returned'[s] = NoReturn
          /\ NoReturn.qty = 0 /\ NoReturn.net = 0 /\ NoReturn.tax = 0 /\ NoReturn.cash = 0
      BY <1>7, <1>9 DEF NoReturn
    <3>2. /\ ledger'[s]["1000"] = paid /\ ledger'[s]["1010"] = 0
          /\ ledger'[s]["5100"] = Bill[s].discount
          /\ ledger'[s]["4000"] = -(Bill[s].net + Bill[s].discount)
          /\ ledger'[s]["2100"] = -Bill[s].tax /\ ledger'[s]["3000"] = 0
      BY <1>3, <1>4, <1>5, <1>7 DEF Accounts
    <3>3. UnsoldOK(s)' /\ CancelledOK(s)'
      BY <1>6 DEF UnsoldOK, CancelledOK
    <3>4. ReturnsOK(s)'
      BY <1>3, <3>1 DEF ReturnsOK
    <3>5. SettlementOK(s)'
      <4>1. customer \/ due = 0
        BY <1>1 DEF CompleteSale
      <4>2. ~sale'[s].customer => receivable'[s].status = "NONE"
        BY <4>1, <1>6, <1>7, <1>8
      <4> QED BY <4>2, <1>3, <1>6, <1>7, <1>8, <3>1 DEF SettlementOK
    <3>6. BooksOK(s)'
      BY <1>3, <1>6, <3>1, <3>2 DEF BooksOK, MoneyHeld
    <3> QED BY <2>1, <3>3, <3>4, <3>5, <3>6 DEF SaleOK
  <2>2. CASE e # s
    <3>1. e \in Docs \ {s}
      BY <2>2, BillFacts
    <3> QED BY <2>2, <3>1, <1>5, <1>6, <1>8, <1>9, SaleFrame DEF AccountInv
  <2> QED BY <2>1, <2>2
<1> QED BY <1>11, <1>12, <1>13, <1>14 DEF AccountInv

\* createOpeningEntry: the row and account 1100 start with the same amount.
LEMMA CreateOpeningEntryStep ==
  ASSUME AccountInv, NEW r \in Requests, NEW amount \in Amounts,
         CreateOpeningEntry(r, amount)
  PROVE  AccountInv'
<1>1. PICK d \in Openings : /\ d = job[r].doc /\ d \in Docs /\ d \notin Sales
                             /\ pc[r] = "begun" /\ Creates(r, d)
  <2>1. job[r].doc \in Openings
    BY DEF CreateOpeningEntry, AccountInv, JobsOK
  <2>2. job[r] = [kind |-> "opening", doc |-> job[r].doc]
    BY DEF CreateOpeningEntry, AccountInv, TypeOK
  <2> QED BY <2>1, <2>2, DocsAssumption DEF CreateOpeningEntry, Creates, Docs
<1> DEFINE entry == [Zero EXCEPT !["1100"] = amount, !["3000"] = -amount]
<1>2. receivable[d].status = "NONE" /\ receivable[d].balance = 0 /\ ledger[d]["1100"] = 0
  BY <1>1, CreatorAtWork DEF AccountInv, Exists, RowOK
<1>3. amount \in Nat
  BY DocsAssumption
<1>4. entry \in [Accounts -> Int] /\ entry["1100"] = amount
  BY <1>3 DEF Accounts, Zero
<1>5. /\ ledger' \in [Docs -> [Accounts -> Int]]
      /\ \A a \in Accounts : ledger'[d][a] = ledger[d][a] + entry[a]
      /\ \A e \in Docs \ {d} : \A a \in Accounts : ledger'[e][a] = ledger[e][a]
  <2>1. ledger' = PostOn(d, entry)
    BY <1>1 DEF CreateOpeningEntry
  <2> HIDE DEF entry
  <2> QED BY <1>1, <1>4, <2>1, PostOnFacts DEF AccountInv
<1>6. /\ receivable'[d].status = "OPEN" /\ receivable'[d].amount = amount
      /\ receivable'[d].paidAmount = 0 /\ receivable'[d].balance = amount
      /\ \A e \in Docs \ {d} : receivable'[e] = receivable[e]
      /\ receivable' \in [Docs -> [status : RowStatus, amount : Nat, paidAmount : Nat,
                                    balance : Nat]]
  BY <1>1, <1>3 DEF CreateOpeningEntry, AccountInv, TypeOK, RowStatus
<1>7. Finish(r, "done") /\ UNCHANGED <<pay, sale, returned>>
  BY DEF CreateOpeningEntry
<1>8. TypeOK'
  BY <1>5, <1>6, <1>7, FinishTypes DEF AccountInv, TypeOK
<1>9. JobsOK'
  <2>1. \A e \in Docs : Exists(e)' => Exists(e) \/ Creates(r, e)
    BY <1>1, <1>6, <1>7 DEF Exists, Docs
  <2> QED BY <1>7, <2>1, FinishKeepsJobs DEF AccountInv
<1>10. ASSUME NEW e \in Docs PROVE RowOK(e)'
  <2>1. CASE e = d
    BY <2>1, <1>2, <1>3, <1>4, <1>5, <1>6 DEF RowOK, Accounts
  <2>2. CASE e # d
    BY <2>2, <1>5, <1>6, RowFrame DEF AccountInv
  <2> QED BY <2>1, <2>2
<1>11. ASSUME NEW s \in Sales PROVE SaleOK(s)'
  <2>1. s \in Docs \ {d}
    BY <1>1, BillFacts
  <2> QED BY <2>1, <1>5, <1>6, <1>7, SaleFrame DEF AccountInv
<1> QED BY <1>8, <1>9, <1>10, <1>11 DEF AccountInv

\* A request that only moves between the phases of its transaction.
LEMMA PhaseKeepsJobs ==
  ASSUME JobsOK, job' = job, UNCHANGED rows,
         \A q \in Requests : /\ pc'[q] = "idle" => pc[q] = "idle"
                             /\ pc[q] \notin {"idle", "begun"} =>
                                  pc'[q] \notin {"idle", "begun"}
  PROVE  JobsOK'
<1>1. \A d \in Docs : Exists(d)' <=> Exists(d)
  BY DEF rows, Exists
<1>2. \A d \in Docs, q \in Requests : Creates(q, d)' <=> Creates(q, d)
  BY DEF Creates
<1>3. \A d \in Docs : Exists(d)' =>
        \E q \in Requests : Creates(q, d)' /\ pc'[q] \notin {"idle", "begun"}
  BY <1>1, <1>2 DEF JobsOK
<1>4. \A q \in Requests :
        /\ pc'[q] = "idle" => job'[q].kind = "none"
        /\ job'[q].kind \in {"sale", "return", "cancel"} => job'[q].doc \in Sales
        /\ job'[q].kind = "opening" => job'[q].doc \in Openings
  BY DEF JobsOK
<1>5. \A d \in Docs : \A q, p \in Requests :
        Creates(q, d)' /\ Creates(p, d)' => q = p
  <2> TAKE d \in Docs
  <2> TAKE q, p \in Requests
  <2>1. Creates(q, d) /\ Creates(p, d) => q = p
    BY DEF JobsOK
  <2> QED BY <2>1, <1>2
<1> QED BY <1>3, <1>4, <1>5 DEF JobsOK

\* The unlocked read of recordPayment only fixes its allocations.
LEMMA ReadOpenRowsStep ==
  ASSUME AccountInv, NEW r \in Requests, NEW amount \in Amounts,
         NEW method \in Methods, ReadOpenRows(r, amount, method)
  PROVE  AccountInv'
<1>1. amount \in Nat
  BY DocsAssumption
<1>2. PICK alloc \in Allocations(amount) :
        pay' = [pay EXCEPT ![r] = [amount |-> amount, method |-> method, alloc |-> alloc]]
  BY DEF ReadOpenRows
<1>5. alloc \in [Docs -> Nat]
  BY <1>1 DEF Allocations
<1>3. TypeOK'
  BY <1>1, <1>2, <1>5 DEF AccountInv, TypeOK, ReadOpenRows, rows
<1>4. JobsOK'
  <2>1. \A q \in Requests : /\ pc'[q] = "idle" => pc[q] = "idle"
                            /\ pc[q] \notin {"idle", "begun"} =>
                                 pc'[q] \notin {"idle", "begun"}
    BY DEF AccountInv, TypeOK, ReadOpenRows
  <2> QED BY <2>1, PhaseKeepsJobs DEF AccountInv, ReadOpenRows
<1> QED BY <1>3, <1>4, RowsUnchanged DEF AccountInv, ReadOpenRows

\* Taking a row lock writes no row.
LEMMA LockStep ==
  ASSUME AccountInv, NEW r \in Requests, NEW d \in Docs, Lock(r, d)
  PROVE  AccountInv'
<1>1. TypeOK'
  BY DEF AccountInv, TypeOK, Lock, rows
<1>2. JobsOK'
  BY PhaseKeepsJobs DEF AccountInv, Lock
<1> QED BY <1>1, <1>2, RowsUnchanged DEF AccountInv, Lock

\* A rollback writes no row.
LEMMA RejectStep ==
  ASSUME AccountInv, NEW r \in Requests, NEW quantity \in Quantities, Reject(r, quantity)
  PROVE  AccountInv'
<1>1. Finish(r, "failed") /\ UNCHANGED <<pay, rows>>
  BY DEF Reject
<1>2. TypeOK'
  BY <1>1, FinishTypes DEF AccountInv, TypeOK, rows
<1>3. JobsOK'
  <2>1. \A d \in Docs : Exists(d)' => Exists(d) \/ Creates(r, d)
    BY <1>1 DEF Exists, rows
  <2> QED BY <1>1, <2>1, FinishKeepsJobs DEF AccountInv
<1> QED BY <1>1, <1>2, <1>3, RowsUnchanged DEF AccountInv

----------------------------------------------------------------------------
\* recordPayment: what is allocated moves from 1100 to cash or bank.
LEMMA RecordPaymentStep ==
  ASSUME AccountInv, NEW r \in Requests, RecordPayment(r)
  PROVE  AccountInv'
<1> DEFINE alloc == pay[r].alloc
           cash == CashAccount(pay[r].method)
           line(d) == [Zero EXCEPT ![cash] = alloc[d], !["1100"] = -alloc[d]]
<1>1. /\ alloc \in [Docs -> Nat] /\ cash \in {"1000", "1010"}
      /\ receivable \in [Docs -> [status : RowStatus, amount : Nat, paidAmount : Nat,
                                   balance : Nat]]
      /\ ledger \in [Docs -> [Accounts -> Int]]
  BY DEF AccountInv, TypeOK, CashAccount
<1>2. ASSUME NEW d \in Docs, alloc[d] > 0
      PROVE  /\ receivable[d].status \in {"OPEN", "PARTIAL"}
             /\ alloc[d] <= receivable[d].balance
             /\ receivable[d].amount = receivable[d].paidAmount + receivable[d].balance
  BY <1>2 DEF RecordPayment, AllocationsFit, IsOpen, AccountInv, RowOK
<1>3. ASSUME NEW d \in Docs, alloc[d] > 0
      PROVE  /\ receivable'[d].paidAmount = receivable[d].paidAmount + alloc[d]
             /\ receivable'[d].balance = receivable[d].balance - alloc[d]
             /\ receivable'[d].amount = receivable[d].amount
             /\ receivable'[d].status \in {"SETTLED", "PARTIAL"}
             /\ receivable'[d] \in [status : RowStatus, amount : Nat, paidAmount : Nat,
                                    balance : Nat]
  <2>1. receivable'[d] = SettledRow(receivable[d], alloc[d])
    BY <1>3 DEF RecordPayment
  <2> QED BY <2>1, <1>1, <1>2, <1>3 DEF SettledRow, RowStatus
<1>4. \A d \in Docs : ~(alloc[d] > 0) => receivable'[d] = receivable[d] /\ alloc[d] = 0
  BY <1>1 DEF RecordPayment
<1>5. ASSUME NEW d \in Docs
      PROVE  /\ line(d) \in [Accounts -> Int]
             /\ line(d)["1100"] = -alloc[d]
             /\ line(d)["1000"] + line(d)["1010"] = alloc[d]
             /\ \A a \in Accounts \ {"1000", "1010", "1100"} : line(d)[a] = 0
  BY <1>1 DEF Accounts, Zero
<1>6. /\ ledger' \in [Docs -> [Accounts -> Int]]
      /\ \A d \in Docs, a \in Accounts : ledger'[d][a] = ledger[d][a] + line(d)[a]
  <2>1. ledger' = Post([d \in Docs |-> line(d)])
    BY DEF RecordPayment, PaymentJournal
  <2> HIDE DEF line
  <2> QED BY <1>1, <1>5, <2>1 DEF Post
<1> HIDE DEF line
<1>7. ASSUME NEW d \in Docs
      PROVE  /\ ledger'[d]["1100"] = ledger[d]["1100"] - alloc[d]
             /\ ledger'[d]["1000"] + ledger'[d]["1010"]
                  = ledger[d]["1000"] + ledger[d]["1010"] + alloc[d]
             /\ \A a \in Accounts \ {"1000", "1010", "1100"} : ledger'[d][a] = ledger[d][a]
  BY <1>1, <1>5, <1>6 DEF Accounts
<1>15. ASSUME NEW d \in Docs, ~(alloc[d] > 0)
       PROVE  \A a \in Accounts : ledger'[d][a] = ledger[d][a]
  <2>1. alloc[d] = 0
    BY <1>4, <1>15
  <2>2. line(d)["1000"] = 0 /\ line(d)["1010"] = 0
    BY <2>1, <1>1 DEF line, Accounts, Zero
  <2> QED BY <2>1, <2>2, <1>1, <1>6, <1>7 DEF Accounts
<1>8. ASSUME NEW s \in Sales, alloc[s] > 0
      PROVE  /\ sale'[s].paidTotal = receivable'[s].paidAmount
             /\ sale'[s].dueTotal = receivable'[s].balance
             /\ sale'[s].initialPaid = sale[s].initialPaid
             /\ sale'[s].status \in {"PAID", "PARTIALLY_PAID"}
             /\ sale'[s].customer = sale[s].customer
             /\ sale'[s] \in [status : SaleStatus, customer : BOOLEAN, initialPaid : Nat,
                              paidTotal : Nat, dueTotal : Nat]
             /\ sale[s].status \notin {"NONE", "CANCELLED"}
  <2>1. s \in Docs
    BY BillFacts
  <2>2. receivable'[s] = SettledRow(receivable[s], alloc[s])
    BY <2>1, <1>8 DEF RecordPayment
  <2>3. sale[s].status \notin {"NONE", "CANCELLED"}
    BY <2>1, <1>2, <1>8 DEF RecordPayment, AllocationsFit, AccountInv, SaleOK, UnsoldOK
  <2>4. sale'[s] = PaidSale(s, receivable'[s])
    BY <2>2, <1>8 DEF RecordPayment
  <2> QED BY <2>1, <2>3, <2>4, <1>3, <1>8 DEF AccountInv, TypeOK, SaleStatus, PaidSale, SaleWith
<1>9. ASSUME NEW s \in Sales, ~(alloc[s] > 0) PROVE sale'[s] = sale[s]
  BY <1>9 DEF RecordPayment
<1>10. Finish(r, "done") /\ UNCHANGED <<pay, returned>>
  BY DEF RecordPayment
<1>11. TypeOK'
  <2>1. receivable' \in [Docs -> [status : RowStatus, amount : Nat, paidAmount : Nat,
                                  balance : Nat]]
    BY <1>1, <1>3, <1>4 DEF RecordPayment
  <2>2. sale' \in [Sales -> [status : SaleStatus, customer : BOOLEAN, initialPaid : Nat,
                             paidTotal : Nat, dueTotal : Nat]]
    BY <1>8, <1>9 DEF RecordPayment, AccountInv, TypeOK
  <2> QED BY <2>1, <2>2, <1>6, <1>10, FinishTypes DEF AccountInv, TypeOK
<1>12. JobsOK'
  <2>1. \A d \in Docs : Exists(d)' => Exists(d)
    BY <1>2, <1>3, <1>4, <1>8, <1>9 DEF Exists, Docs
  <2> QED BY <1>10, <2>1, FinishKeepsJobs DEF AccountInv
<1>13. ASSUME NEW d \in Docs PROVE RowOK(d)'
  <2>1. CASE alloc[d] > 0
    BY <2>1, <1>1, <1>2, <1>3, <1>7 DEF AccountInv, RowOK
  <2>2. CASE ~(alloc[d] > 0)
    BY <2>2, <1>4, <1>15, RowFrame DEF AccountInv
  <2> QED BY <2>1, <2>2
<1>14. ASSUME NEW s \in Sales PROVE SaleOK(s)'
  <2>1. s \in Docs /\ SaleOK(s) /\ returned' = returned
    BY <1>10, BillFacts DEF AccountInv
  <2>2. CASE alloc[s] > 0
    <3>1. Live(s) /\ sale'[s].status \notin {"NONE", "CANCELLED"}
      BY <2>2, <1>8 DEF Live
    <3>2. UnsoldOK(s)' /\ CancelledOK(s)'
      BY <3>1 DEF UnsoldOK, CancelledOK
    <3>3. ReturnsOK(s)'
      BY <3>1, <2>1 DEF SaleOK, ReturnsOK
    <3>4. /\ sale[s].paidTotal \in Nat /\ sale[s].initialPaid \in Nat
          /\ receivable[s].balance \in Nat /\ receivable[s].paidAmount \in Nat
          /\ returned[s].cash \in Nat /\ returned[s].net \in Nat
          /\ returned[s].tax \in Nat /\ alloc[s] \in Nat
          /\ \A a \in Accounts : ledger[s][a] \in Int
      BY <2>1, <1>1 DEF AccountInv, TypeOK
    <3>5. sale'[s].paidTotal = sale[s].paidTotal + alloc[s]
      BY <2>1, <2>2, <3>1, <1>2, <1>3, <1>8 DEF SaleOK, SettlementOK
    <3>6. SettlementOK(s)'
      BY <2>1, <2>2, <3>1, <3>4, <3>5, <1>2, <1>3, <1>8, BillFacts DEF SaleOK, SettlementOK
    <3>7. BooksOK(s)'
      BY <2>1, <3>1, <3>4, <3>5, <1>7 DEF SaleOK, BooksOK, MoneyHeld, Accounts
    <3> QED BY <3>2, <3>3, <3>6, <3>7 DEF SaleOK
  <2>3. CASE ~(alloc[s] > 0)
    BY <2>1, <2>3, <1>4, <1>9, <1>15, SaleFrame
  <2> QED BY <2>2, <2>3
<1> QED BY <1>11, <1>12, <1>13, <1>14 DEF AccountInv

----------------------------------------------------------------------------
\* completeCustomerReturn: the value of the return is part refund, part debt.
LEMMA CompleteCustomerReturnStep ==
  ASSUME AccountInv, NEW r \in Requests, NEW quantity \in Quantities,
         CompleteCustomerReturn(r, quantity)
  PROVE  AccountInv'
<1>1. PICK s \in Sales : s = job[r].doc /\ s \in Docs
  <2>1. job[r].doc \in Sales
    BY DEF CompleteCustomerReturn, AccountInv, JobsOK
  <2> QED BY <2>1 DEF Docs
<1> DEFINE old == returned[s]
           row == receivable[s]
           remaining == RemainingQty(s)
           net == ReturnNet(s, quantity)
           tax == ReturnTax(s, quantity)
           reduction == ReceivableReduction(s, net + tax)
           cash == net + tax - reduction
           balance == row.balance - reduction
           entry == [Zero EXCEPT !["4000"] = net, !["2100"] = tax,
                                 !["1000"] = -cash, !["1100"] = -reduction]
<1>2. /\ Bill[s].qty \in Nat \ {0} /\ Bill[s].net \in Nat /\ Bill[s].tax \in Nat
      /\ Bill[s].discount \in Nat /\ Grand(s) = Bill[s].net + Bill[s].tax
      /\ quantity \in Nat \ {0}
      /\ old.qty \in Nat /\ old.net \in Nat /\ old.tax \in Nat /\ old.cash \in Nat
      /\ row.balance \in Nat /\ row.paidAmount \in Nat /\ row.amount \in Nat
      /\ sale[s].initialPaid \in Nat /\ sale[s].paidTotal \in Nat
      /\ \A a \in Accounts : ledger[s][a] \in Int
  <2>1. quantity \in Nat \ {0}
    BY BillFacts DEF Quantities
  <2> QED BY <2>1, <1>1, BillFacts DEF AccountInv, TypeOK, Grand
<1>3. Live(s) /\ SaleOK(s) /\ RowOK(s) /\ quantity <= remaining /\ net > 0
  <2>1. ReturnAllowed(s, quantity)
    BY <1>1 DEF CompleteCustomerReturn
  <2>2. sale[s].status # "NONE"
    BY <2>1 DEF ReturnAllowed, AccountInv, SaleOK, UnsoldOK
  <2> QED BY <2>1, <2>2, <1>1 DEF ReturnAllowed, Live, AccountInv
<1>11. /\ ledger' = PostOn(s, entry)
       /\ returned' = [returned EXCEPT ![s] =
            [qty |-> old.qty + quantity, net |-> old.net + net,
             tax |-> old.tax + tax, cash |-> old.cash + cash]]
       /\ receivable' = IF row.status = "NONE" THEN receivable
                        ELSE [receivable EXCEPT ![s] = ReturnedRow(row, balance)]
       /\ Finish(r, "done") /\ pay' = pay /\ sale' = sale
  BY <1>1, Zenon DEF CompleteCustomerReturn, ReturnJournal
<1>4. /\ old.qty + quantity <= Bill[s].qty
      /\ net \in 1 .. (Bill[s].net - old.net) /\ tax \in 0 .. (Bill[s].tax - old.tax)
      /\ old.qty + quantity = Bill[s].qty =>
           net = Bill[s].net - old.net /\ tax = Bill[s].tax - old.tax
  <2>1. /\ Bill[s].net - old.net \in Nat /\ Bill[s].tax - old.tax \in Nat
        /\ remaining \in Nat /\ remaining = Bill[s].qty - old.qty
    BY <1>2, <1>3 DEF SaleOK, ReturnsOK, RemainingQty
  <2> HIDE DEF remaining
  <2>2. /\ net \in 0 .. (Bill[s].net - old.net) /\ tax \in 0 .. (Bill[s].tax - old.tax)
        /\ quantity = remaining => net = Bill[s].net - old.net /\ tax = Bill[s].tax - old.tax
    BY <2>1, <1>2, <1>3, AllocateReturnAmountBounds DEF ReturnNet, ReturnTax, remaining
  <2> HIDE DEF net, tax
  <2> QED BY <2>1, <2>2, <1>2, <1>3
<1> HIDE DEF net, tax
<1>5. /\ net + tax \in Nat /\ net + tax <= Grand(s) - old.net - old.tax
      /\ Grand(s) \in Nat \ {0}
  BY <1>2, <1>4
<1>7. /\ sale[s].initialPaid <= sale[s].paidTotal /\ old.cash <= sale[s].paidTotal
      /\ sale[s].paidTotal - old.cash + row.balance = Grand(s) - old.net - old.tax
  BY <1>3 DEF SaleOK, SettlementOK
<1>6. /\ reduction \in Nat /\ reduction <= row.balance
      /\ cash \in Nat /\ old.cash + cash <= sale[s].paidTotal
  <2> DEFINE total == net + tax
             cashTarget == RoundRatio((old.net + old.tax + total) * sale[s].initialPaid,
                                      Grand(s))
  <2>1. old.net + old.tax + total \in Nat /\ old.net + old.tax + total <= Grand(s)
    BY <1>2, <1>5
  <2>2. total \in Nat /\ total <= Grand(s) - old.net - old.tax
    BY <1>5
  <2> HIDE DEF total
  <2>3. cashTarget \in 0 .. sale[s].initialPaid
    BY <2>1, <1>2, <1>5, RoundRatioBounds
  <2>4. reduction = Smaller(Monus(total, Monus(cashTarget, old.cash)), row.balance)
    BY DEF ReceivableReduction, total
  <2> HIDE DEF cashTarget, reduction
  <2>5. /\ reduction \in Nat /\ reduction <= row.balance
        /\ total - reduction \in Nat
        /\ old.cash + (total - reduction) <= sale[s].paidTotal
    <3> DEFINE refundable == Monus(cashTarget, old.cash)
               dueShare == Monus(total, refundable)
    <3>1. /\ cashTarget \in Nat /\ cashTarget <= sale[s].paidTotal
          /\ sale[s].paidTotal \in Nat /\ old.cash \in Nat /\ row.balance \in Nat
          /\ total <= sale[s].paidTotal - old.cash + row.balance
      BY <2>2, <2>3, <1>2, <1>7
    <3>2. refundable \in Nat /\ old.cash + refundable <= sale[s].paidTotal
      BY <3>1, <1>7 DEF Monus
    <3> HIDE DEF refundable
    <3>3. dueShare \in Nat /\ dueShare <= total /\ total - dueShare <= refundable
      BY <3>2, <2>2 DEF Monus
    <3>4. reduction = Smaller(dueShare, row.balance)
      BY <2>4 DEF refundable
    <3> HIDE DEF dueShare
    <3> QED BY <2>2, <3>1, <3>2, <3>3, <3>4 DEF Smaller
  <2>6. cash = total - reduction
    BY <2>5, <1>4, <1>2 DEF total
  <2> QED BY <2>5, <2>6
<1> HIDE DEF reduction
<1>9. balance \in Nat /\ balance = row.balance - reduction /\ cash = net + tax - reduction
  BY <1>2, <1>6
<1>10. /\ entry \in [Accounts -> Int]
       /\ entry["1000"] = -cash /\ entry["1010"] = 0 /\ entry["1100"] = -reduction
       /\ entry["2100"] = tax /\ entry["3000"] = 0 /\ entry["4000"] = net
       /\ entry["5100"] = 0
  <2> HIDE DEF cash
  <2> QED BY <1>4, <1>6 DEF Accounts, Zero
<1> HIDE DEF cash, balance, entry
<1>12. /\ ledger' \in [Docs -> [Accounts -> Int]]
       /\ \A a \in Accounts : ledger'[s][a] = ledger[s][a] + entry[a]
       /\ \A e \in Docs \ {s} : \A a \in Accounts : ledger'[e][a] = ledger[e][a]
  BY <1>1, <1>10, <1>11, PostOnFacts DEF AccountInv
<1>13. /\ returned' \in [Sales -> [qty : Nat, net : Nat, tax : Nat, cash : Nat]]
       /\ returned'[s].qty = old.qty + quantity /\ returned'[s].net = old.net + net
       /\ returned'[s].tax = old.tax + tax /\ returned'[s].cash = old.cash + cash
       /\ \A e \in Sales \ {s} : returned'[e] = returned[e]
  BY <1>2, <1>4, <1>6, <1>11 DEF AccountInv, TypeOK
<1>14. /\ receivable' \in [Docs -> [status : RowStatus, amount : Nat, paidAmount : Nat,
                                     balance : Nat]]
       /\ row.status = "NONE" => receivable'[s] = row /\ row.balance = 0 /\ reduction = 0
       /\ row.status # "NONE" =>
            /\ receivable'[s].status \in {"SETTLED", "PARTIAL"}
            /\ receivable'[s].amount = row.paidAmount + balance
            /\ receivable'[s].paidAmount = row.paidAmount
       /\ receivable'[s].balance = row.balance - reduction
       /\ \A e \in Docs \ {s} : receivable'[e] = receivable[e]
  <2>1. row.status = "NONE" => row.balance = 0 /\ reduction = 0
    BY <1>2, <1>3, <1>6 DEF RowOK
  <2> QED BY <2>1, <1>1, <1>2, <1>9, <1>11 DEF AccountInv, TypeOK, RowStatus, ReturnedRow
<1>15. TypeOK'
  BY <1>11, <1>12, <1>13, <1>14, FinishTypes DEF AccountInv, TypeOK
<1>16. JobsOK'
  <2>1. \A e \in Docs : Exists(e)' => Exists(e)
    BY <1>11, <1>14, DocsAssumption DEF Exists, Docs
  <2> QED BY <1>11, <2>1, FinishKeepsJobs DEF AccountInv
<1>17. ASSUME NEW e \in Docs PROVE RowOK(e)'
  <2>1. CASE e = s
    <3>1. ledger'[s]["1100"] = receivable'[s].balance
      BY <1>2, <1>3, <1>6, <1>10, <1>12, <1>14 DEF RowOK, Accounts
    <3> QED BY <2>1, <3>1, <1>2, <1>3, <1>9, <1>14 DEF RowOK
  <2>2. CASE e # s
    BY <2>2, <1>12, <1>14, RowFrame DEF AccountInv
  <2> QED BY <2>1, <2>2
<1>18. ASSUME NEW e \in Sales PROVE SaleOK(e)'
  <2>1. CASE e = s
    <3>1. UnsoldOK(s)' /\ CancelledOK(s)'
      BY <1>3, <1>11 DEF Live, UnsoldOK, CancelledOK
    <3>2. ReturnsOK(s)'
      BY <1>2, <1>3, <1>4, <1>13 DEF SaleOK, ReturnsOK
    <3>3. SettlementOK(s)'
      <4>1. sale[s].paidTotal - (old.cash + cash) + (row.balance - reduction)
              = Grand(s) - (old.net + net) - (old.tax + tax)
        BY <1>2, <1>4, <1>7, <1>6, <1>9
      <4>2. /\ returned'[s].cash <= sale'[s].paidTotal
            /\ sale'[s].paidTotal - returned'[s].cash + receivable'[s].balance
                 = Grand(s) - returned'[s].net - returned'[s].tax
        BY <4>1, <1>6, <1>11, <1>13, <1>14
      <4> QED BY <4>2, <1>3, <1>7, <1>11, <1>14 DEF SaleOK, SettlementOK
    <3>4. BooksOK(s)'
      <4>1. /\ ledger'[s]["1000"] + ledger'[s]["1010"]
                 = (ledger[s]["1000"] + ledger[s]["1010"]) - cash
            /\ ledger'[s]["5100"] = ledger[s]["5100"]
            /\ ledger'[s]["4000"] = ledger[s]["4000"] + net
            /\ ledger'[s]["2100"] = ledger[s]["2100"] + tax
            /\ ledger'[s]["3000"] = ledger[s]["3000"]
        BY <1>2, <1>4, <1>6, <1>10, <1>12 DEF Accounts
      <4>2. /\ ledger[s]["1000"] + ledger[s]["1010"] = sale[s].paidTotal - old.cash
            /\ ledger[s]["5100"] = Bill[s].discount
            /\ ledger[s]["4000"] = old.net - Bill[s].net - Bill[s].discount
            /\ ledger[s]["2100"] = old.tax - Bill[s].tax
            /\ ledger[s]["3000"] = 0
        BY <1>3 DEF SaleOK, BooksOK, MoneyHeld
      <4>3. /\ sale'[s].paidTotal = sale[s].paidTotal
            /\ returned'[s].cash = old.cash + cash
            /\ returned'[s].net = old.net + net /\ returned'[s].tax = old.tax + tax
        BY <1>11, <1>13
      <4>4. /\ old.net \in Nat /\ old.tax \in Nat /\ old.cash \in Nat /\ cash \in Nat
            /\ net \in Nat /\ tax \in Nat /\ sale[s].paidTotal \in Nat
            /\ Bill[s].net \in Nat /\ Bill[s].tax \in Nat /\ Bill[s].discount \in Nat
            /\ ledger[s]["1000"] \in Int /\ ledger[s]["1010"] \in Int
        BY <1>2, <1>4, <1>6 DEF Accounts
      <4>5. /\ ledger'[s]["4000"] = returned'[s].net - Bill[s].net - Bill[s].discount
            /\ ledger'[s]["2100"] = returned'[s].tax - Bill[s].tax
        BY <4>1, <4>2, <4>3, <4>4
      <4>6. ledger'[s]["1000"] + ledger'[s]["1010"]
              = sale'[s].paidTotal - returned'[s].cash
        <5>1. ledger'[s]["1000"] \in Int /\ ledger'[s]["1010"] \in Int
          BY <1>1, <1>12 DEF Accounts
        <5>2. ledger'[s]["1000"] + ledger'[s]["1010"] = (sale[s].paidTotal - old.cash) - cash
          BY <4>1, <4>2, <4>4, <5>1
        <5>3. (sale[s].paidTotal - old.cash) - cash = sale[s].paidTotal - (old.cash + cash)
          BY <4>4
        <5> QED BY <5>2, <5>3, <4>3
      <4> QED BY <4>1, <4>2, <4>5, <4>6 DEF BooksOK, MoneyHeld
    <3> QED BY <2>1, <3>1, <3>2, <3>3, <3>4 DEF SaleOK
  <2>2. CASE e # s
    <3>1. e \in Docs \ {s}
      BY <2>2, BillFacts
    <3> QED BY <2>2, <3>1, <1>11, <1>12, <1>13, <1>14, SaleFrame DEF AccountInv
  <2> QED BY <2>1, <2>2
<1> QED BY <1>15, <1>16, <1>17, <1>18 DEF AccountInv

----------------------------------------------------------------------------
\* cancelSale: the reversal and the refunds empty every account of the sale.
LEMMA CancelSaleStep ==
  ASSUME AccountInv, NEW r \in Requests, CancelSale(r)
  PROVE  AccountInv'
<1>1. PICK s \in Sales : s = job[r].doc /\ s \in Docs
  <2>1. job[r].doc \in Sales
    BY DEF CancelSale, AccountInv, JobsOK
  <2> QED BY <2>1 DEF Docs
<1>2. PICK cash \in 0 .. sale[s].paidTotal, bank \in 0 .. sale[s].paidTotal :
        /\ sale[s].customer => cash = Refund(s, "CASH") /\ bank = Refund(s, "BANK")
        /\ ~sale[s].customer => cash = 0 /\ bank = 0
        /\ ledger' = PostOn(s, CancelJournal(s, cash, bank))
  BY <1>1, Zenon DEF CancelSale
<1> DEFINE row == receivable[s]
           initial == sale[s].initialPaid
           entry == CancelJournal(s, cash, bank)
<1>3. /\ CancelAllowed(s) /\ Finish(r, "done") /\ pay' = pay /\ returned' = returned
      /\ sale' = [sale EXCEPT ![s] =
           SaleWith(s, "CANCELLED", sale[s].paidTotal, sale[s].dueTotal)]
      /\ receivable' = IF row.status = "NONE" THEN receivable
                       ELSE [receivable EXCEPT ![s] =
                              [status |-> "CANCELLED", amount |-> row.amount,
                               paidAmount |-> row.paidAmount, balance |-> 0]]
  BY <1>1, Zenon DEF CancelSale
<1>4. Live(s) /\ SaleOK(s) /\ RowOK(s) /\ returned[s] = NoReturn
  <2>1. Live(s) /\ SaleOK(s) /\ RowOK(s) /\ returned[s].qty = 0
    BY <1>1, <1>3 DEF CancelAllowed, AccountInv, Live
  <2> QED BY <2>1 DEF SaleOK, ReturnsOK
<1>5. /\ Bill[s].net \in Nat /\ Bill[s].tax \in Nat /\ Bill[s].discount \in Nat
      /\ Grand(s) = Bill[s].net + Bill[s].tax
      /\ row.balance \in Nat /\ initial \in Nat /\ sale[s].paidTotal \in Nat
      /\ cash \in Nat /\ bank \in Nat
      /\ \A a \in Accounts : ledger[s][a] \in Int
  BY <1>1, BillFacts DEF AccountInv, TypeOK, Grand
<1>6. /\ returned[s].qty = 0 /\ returned[s].net = 0 /\ returned[s].tax = 0
      /\ returned[s].cash = 0
  BY <1>4 DEF NoReturn
\* The settlement of a sale of which nothing was returned.
<1>7. /\ sale[s].paidTotal + row.balance = Grand(s)
      /\ row.status = "NONE" => row.balance = 0
      /\ row.status \notin {"CANCELLED"}
      /\ (ledger[s]["1000"] + ledger[s]["1010"]) = sale[s].paidTotal
      /\ ledger[s]["1100"] = row.balance
      /\ ledger[s]["5100"] = Bill[s].discount
      /\ ledger[s]["4000"] = -(Bill[s].net + Bill[s].discount)
      /\ ledger[s]["2100"] = -Bill[s].tax
      /\ ledger[s]["3000"] = 0
  BY <1>4, <1>5, <1>6 DEF SaleOK, SettlementOK, BooksOK, RowOK, MoneyHeld
\* What cancelSale has checked of the payment rows.
<1>8. cash + bank = sale[s].paidTotal - initial
  <2>1. CASE sale[s].customer
    BY <2>1, <1>2, <1>3 DEF CancelAllowed, PaidTotalMatches
  <2>2. CASE ~sale[s].customer
    <3>1. cash = 0 /\ bank = 0
      BY <2>2, <1>2
    <3>2. sale[s].paidTotal = initial
      BY <2>2, <1>4 DEF SaleOK, SettlementOK
    <3> QED BY <3>1, <3>2, <1>5
  <2> QED BY <2>1, <2>2
<1>9. /\ entry \in [Accounts -> Int]
      /\ entry["1000"] = -cash - initial /\ entry["1010"] = -bank
      /\ entry["1100"] = (cash + bank) - (Grand(s) - initial)
      /\ entry["5100"] = -Bill[s].discount
      /\ entry["4000"] = Bill[s].net + Bill[s].discount
      /\ entry["2100"] = Bill[s].tax /\ entry["3000"] = 0
  <2>1. Grand(s) \in Nat
    BY <1>5
  <2>2. \A a \in Accounts : entry[a] = RefundJournal(cash, bank)[a]
                                      - SaleJournal(s, initial)[a]
    BY DEF CancelJournal
  <2>3. /\ RefundJournal(cash, bank) \in [Accounts -> Int]
        /\ RefundJournal(cash, bank)["1000"] = -cash
        /\ RefundJournal(cash, bank)["1010"] = -bank
        /\ RefundJournal(cash, bank)["1100"] = cash + bank
        /\ \A a \in {"5100", "4000", "2100", "3000"} : RefundJournal(cash, bank)[a] = 0
    BY <1>5 DEF RefundJournal, Accounts, Zero
  <2>4. /\ SaleJournal(s, initial) \in [Accounts -> Int]
        /\ SaleJournal(s, initial)["1000"] = initial
        /\ SaleJournal(s, initial)["1010"] = 0
        /\ SaleJournal(s, initial)["1100"] = Grand(s) - initial
        /\ SaleJournal(s, initial)["5100"] = Bill[s].discount
        /\ SaleJournal(s, initial)["4000"] = -(Bill[s].net + Bill[s].discount)
        /\ SaleJournal(s, initial)["2100"] = -Bill[s].tax
        /\ SaleJournal(s, initial)["3000"] = 0
    <3> HIDE DEF initial
    <3> QED BY <2>1, <1>5 DEF SaleJournal, Accounts, Zero
  <2>5. entry \in [Accounts -> Int]
    BY <2>3, <2>4 DEF CancelJournal
  <2> HIDE DEF entry, initial
  <2> QED BY <2>1, <2>2, <2>3, <2>4, <2>5, <1>5 DEF Accounts
<1> HIDE DEF entry
<1>10. /\ ledger' \in [Docs -> [Accounts -> Int]]
       /\ \A a \in Accounts : ledger'[s][a] = ledger[s][a] + entry[a]
       /\ \A e \in Docs \ {s} : \A a \in Accounts : ledger'[e][a] = ledger[e][a]
  <2>1. ledger' = PostOn(s, entry)
    BY <1>2 DEF entry
  <2> QED BY <2>1, <1>1, <1>9, PostOnFacts DEF AccountInv
\* The reversal and the refunds clear every account of the sale.
<1>11. /\ ledger'[s]["1000"] + ledger'[s]["1010"] = 0
       /\ \A a \in Accounts \ {"1000", "1010"} : ledger'[s][a] = 0
  <2>1. /\ ledger'[s]["1000"] = ledger[s]["1000"] + (-cash - initial)
        /\ ledger'[s]["1010"] = ledger[s]["1010"] + (-bank)
        /\ ledger'[s]["1100"] = row.balance + ((cash + bank) - (Grand(s) - initial))
        /\ ledger'[s]["5100"] = Bill[s].discount + (-Bill[s].discount)
        /\ ledger'[s]["4000"] = -(Bill[s].net + Bill[s].discount)
                                   + (Bill[s].net + Bill[s].discount)
        /\ ledger'[s]["2100"] = -Bill[s].tax + Bill[s].tax
        /\ ledger'[s]["3000"] = 0 + 0
    BY <1>7, <1>9, <1>10 DEF Accounts
  <2>2. Grand(s) \in Nat /\ ledger[s]["1000"] \in Int /\ ledger[s]["1010"] \in Int
    BY <1>5 DEF Accounts
  <2> HIDE DEF row, initial
  <2>3. /\ ledger'[s]["1100"] = 0 /\ ledger'[s]["5100"] = 0 /\ ledger'[s]["4000"] = 0
        /\ ledger'[s]["2100"] = 0 /\ ledger'[s]["3000"] = 0
    BY <2>1, <2>2, <1>5, <1>7, <1>8
  <2>4. ledger'[s]["1000"] + ledger'[s]["1010"]
          = (ledger[s]["1000"] + ledger[s]["1010"]) - (cash + bank) - initial
    BY <2>1, <2>2, <1>5
  <2>5. ledger'[s]["1000"] + ledger'[s]["1010"] = 0
    BY <2>4, <1>5, <1>7, <1>8
  <2> QED BY <2>3, <2>5 DEF Accounts
<1>12. /\ sale'[s].status = "CANCELLED"
       /\ \A e \in Sales \ {s} : sale'[e] = sale[e]
       /\ sale' \in [Sales -> [status : SaleStatus, customer : BOOLEAN, initialPaid : Nat,
                               paidTotal : Nat, dueTotal : Nat]]
  BY <1>3 DEF AccountInv, TypeOK, SaleStatus, SaleWith
<1>13. /\ receivable'[s].status \in {"NONE", "CANCELLED"} /\ receivable'[s].balance = 0
       /\ row.status # "NONE" => receivable'[s].status = "CANCELLED"
       /\ \A e \in Docs \ {s} : receivable'[e] = receivable[e]
       /\ receivable' \in [Docs -> [status : RowStatus, amount : Nat, paidAmount : Nat,
                                     balance : Nat]]
  BY <1>1, <1>3, <1>7 DEF AccountInv, TypeOK, RowStatus
<1>14. TypeOK'
  BY <1>3, <1>10, <1>12, <1>13, FinishTypes DEF AccountInv, TypeOK
<1>15. JobsOK'
  <2>1. \A e \in Docs : Exists(e)' => Exists(e)
    BY <1>4, <1>12, <1>13, DocsAssumption DEF Exists, Docs, Live
  <2> QED BY <1>3, <2>1, FinishKeepsJobs DEF AccountInv
<1>16. ASSUME NEW e \in Docs PROVE RowOK(e)'
  <2>1. CASE e = s
    BY <2>1, <1>11, <1>13 DEF RowOK, Accounts
  <2>2. CASE e # s
    BY <2>2, <1>10, <1>13, RowFrame DEF AccountInv
  <2> QED BY <2>1, <2>2
<1>17. ASSUME NEW e \in Sales PROVE SaleOK(e)'
  <2>1. CASE e = s
    <3>1. UnsoldOK(s)' /\ ReturnsOK(s)' /\ SettlementOK(s)' /\ BooksOK(s)'
      BY <1>12 DEF UnsoldOK, ReturnsOK, SettlementOK, BooksOK, Live
    <3>2. CancelledOK(s)'
      BY <1>3, <1>6, <1>11, <1>13 DEF CancelledOK, MoneyHeld
    <3> QED BY <2>1, <3>1, <3>2 DEF SaleOK
  <2>2. CASE e # s
    <3>1. e \in Docs \ {s}
      BY <2>2, BillFacts
    <3> QED BY <2>2, <3>1, <1>3, <1>10, <1>12, <1>13, SaleFrame DEF AccountInv
  <2> QED BY <2>1, <2>2
<1> QED BY <1>14, <1>15, <1>16, <1>17 DEF AccountInv

----------------------------------------------------------------------------
\* Every step preserves the invariant.
LEMMA NextStep == AccountInv /\ [Next]_vars => AccountInv'
<1> SUFFICES ASSUME AccountInv, [Next]_vars PROVE AccountInv'
  OBVIOUS
<1>1. CASE UNCHANGED vars
  <2>1. TypeOK'
    BY <1>1 DEF AccountInv, TypeOK, vars
  <2>2. JobsOK'
    BY <1>1, PhaseKeepsJobs DEF AccountInv, vars, rows
  <2> QED BY <2>1, <2>2, <1>1, RowsUnchanged DEF AccountInv, vars, rows
<1>2. ASSUME NEW r \in Requests, NEW kind \in Kinds, NEW d \in Docs \cup {None},
             Begin(r, kind, d)
      PROVE  AccountInv'
  BY <1>2, BeginStep
<1>3. ASSUME NEW r \in Requests, Work(r) PROVE AccountInv'
  <2>1. ASSUME NEW paid \in Payments, NEW customer \in BOOLEAN,
               CompleteSale(r, paid, customer)
        PROVE  AccountInv'
    BY <2>1, CompleteSaleStep
  <2>2. ASSUME NEW amount \in Amounts, CreateOpeningEntry(r, amount) PROVE AccountInv'
    BY <2>2, CreateOpeningEntryStep
  <2>3. ASSUME NEW amount \in Amounts, NEW method \in Methods,
               ReadOpenRows(r, amount, method)
        PROVE  AccountInv'
    BY <2>3, ReadOpenRowsStep
  <2>4. ASSUME NEW d \in Docs, Lock(r, d) PROVE AccountInv'
    BY <2>4, LockStep
  <2>5. CASE RecordPayment(r)
    BY <2>5, RecordPaymentStep
  <2>6. ASSUME NEW quantity \in Quantities, CompleteCustomerReturn(r, quantity)
        PROVE  AccountInv'
    BY <2>6, CompleteCustomerReturnStep
  <2>7. CASE CancelSale(r)
    BY <2>7, CancelSaleStep
  <2>8. ASSUME NEW quantity \in Quantities, Reject(r, quantity) PROVE AccountInv'
    BY <2>8, RejectStep
  <2> QED BY <1>3, <2>1, <2>2, <2>3, <2>4, <2>5, <2>6, <2>7, <2>8 DEF Work
<1> QED BY <1>1, <1>2, <1>3 DEF Next

\* The invariant of every behaviour, for any number of requests and documents.
THEOREM AccountInvariant == Spec => []AccountInv
  BY InitHolds, NextStep, PTL DEF Spec

\* Every row of the account keeps its column types: no balance, amount, refund or
\* returned quantity ever becomes negative.
THEOREM TypeCorrect == Spec => []TypeOK
<1>1. AccountInv => TypeOK
  BY DEF AccountInv
<1> QED BY <1>1, AccountInvariant, PTL

\* Account 1100 carries exactly the outstanding balance of every document.
THEOREM LedgerAgreement == Spec => []ReceivableAgreesWithLedger
<1>1. AccountInv => ReceivableAgreesWithLedger
  BY DEF AccountInv, RowOK, ReceivableAgreesWithLedger
<1> QED BY <1>1, AccountInvariant, PTL

\* The money held for a sale stays between nothing and what the sale charged.
THEOREM MoneyStaysWithinBill == Spec => []MoneyWithinBill
<1>1. ASSUME AccountInv, NEW s \in Sales PROVE MoneyHeld(s) \in 0 .. Grand(s)
  <2>1. /\ SaleOK(s) /\ Grand(s) \in Nat
        /\ sale[s].paidTotal \in Nat /\ returned[s].cash \in Nat
        /\ returned[s].net \in Nat /\ returned[s].tax \in Nat
        /\ receivable[s].balance \in Nat
    BY <1>1, BillFacts DEF AccountInv, TypeOK
  <2>2. CASE Live(s)
    BY <2>1, <2>2 DEF SaleOK, SettlementOK, BooksOK
  <2>3. CASE sale[s].status = "NONE"
    BY <2>1, <2>3 DEF SaleOK, UnsoldOK, MoneyHeld, Accounts
  <2>4. CASE sale[s].status = "CANCELLED"
    BY <2>1, <2>4 DEF SaleOK, CancelledOK
  <2> QED BY <2>2, <2>3, <2>4 DEF Live
<1>2. AccountInv => MoneyWithinBill
  BY <1>1 DEF MoneyWithinBill
<1> QED BY <1>2, AccountInvariant, PTL

\* When everything has been returned nothing is owed, held or booked any more.
THEOREM FullReturnsSettle == Spec => []FullReturnSettles
<1>1. ASSUME AccountInv, NEW s \in Sales, returned[s].qty = Bill[s].qty
      PROVE  /\ receivable[s].balance = 0 /\ MoneyHeld(s) = 0
             /\ ledger[s]["4000"] + ledger[s]["5100"] = 0 /\ ledger[s]["2100"] = 0
  <2>1. /\ SaleOK(s) /\ Bill[s].qty > 0 /\ Bill[s].net \in Nat /\ Bill[s].tax \in Nat
        /\ Bill[s].discount \in Nat /\ Grand(s) = Bill[s].net + Bill[s].tax
        /\ sale[s].paidTotal \in Nat /\ returned[s].cash \in Nat
        /\ receivable[s].balance \in Nat
    BY <1>1, BillFacts DEF AccountInv, TypeOK, Grand
  <2>2. Live(s)
    BY <1>1, <2>1 DEF SaleOK, UnsoldOK, CancelledOK, Live, NoReturn
  <2>3. returned[s].net = Bill[s].net /\ returned[s].tax = Bill[s].tax
    BY <1>1, <2>1, <2>2 DEF SaleOK, ReturnsOK
  <2>4. /\ returned[s].cash <= sale[s].paidTotal
        /\ (sale[s].paidTotal - returned[s].cash) + receivable[s].balance = 0
    BY <2>1, <2>2, <2>3 DEF SaleOK, SettlementOK
  <2>5. /\ receivable[s].balance = 0 /\ sale[s].paidTotal - returned[s].cash = 0
    BY <2>1, <2>4
  <2>6. /\ MoneyHeld(s) = sale[s].paidTotal - returned[s].cash
        /\ ledger[s]["5100"] = Bill[s].discount
        /\ ledger[s]["4000"] = Bill[s].net - Bill[s].net - Bill[s].discount
        /\ ledger[s]["2100"] = Bill[s].tax - Bill[s].tax
    BY <2>1, <2>2, <2>3 DEF SaleOK, BooksOK
  <2> QED BY <2>1, <2>5, <2>6
<1>2. AccountInv => FullReturnSettles
  BY <1>1 DEF FullReturnSettles
<1> QED BY <1>2, AccountInvariant, PTL

\* A cancelled sale leaves no account with a balance.
THEOREM CancelledSalesNetToZero == Spec => []CancelledSaleNetsToZero
<1>1. AccountInv => CancelledSaleNetsToZero
  BY DEF AccountInv, SaleOK, CancelledOK, CancelledSaleNetsToZero
<1> QED BY <1>1, AccountInvariant, PTL

----------------------------------------------------------------------------
\* A return reduces the debt by no less than nothing.
LEMMA ReductionIsNatural ==
  ASSUME AccountInv, NEW s \in Sales, Live(s), NEW quantity \in Nat \ {0},
         quantity <= RemainingQty(s), ReturnNet(s, quantity) > 0
  PROVE  ReceivableReduction(s, ReturnNet(s, quantity) + ReturnTax(s, quantity)) \in Nat
<1> DEFINE old == returned[s]
           total == ReturnNet(s, quantity) + ReturnTax(s, quantity)
           cashTarget == RoundRatio((old.net + old.tax + total) * sale[s].initialPaid,
                                    Grand(s))
<1>1. /\ Bill[s].qty \in Nat \ {0} /\ Bill[s].net \in Nat /\ Bill[s].tax \in Nat
      /\ Grand(s) = Bill[s].net + Bill[s].tax
      /\ old.qty \in Nat /\ old.net \in Nat /\ old.tax \in Nat /\ old.cash \in Nat
      /\ receivable[s].balance \in Nat /\ sale[s].initialPaid \in Nat
  BY BillFacts DEF AccountInv, TypeOK, Grand
<1>2. ReturnsOK(s)
  BY DEF AccountInv, SaleOK
<1>3. /\ ReturnNet(s, quantity) \in 0 .. (Bill[s].net - old.net)
      /\ ReturnTax(s, quantity) \in 0 .. (Bill[s].tax - old.tax)
  <2>1. /\ Bill[s].net - old.net \in Nat /\ Bill[s].tax - old.tax \in Nat
        /\ RemainingQty(s) \in Nat
    BY <1>1, <1>2 DEF ReturnsOK, RemainingQty
  <2> QED BY <2>1, AllocateReturnAmountBounds DEF ReturnNet, ReturnTax
<1>4. total \in Nat /\ old.net + old.tax + total \in Nat
      /\ old.net + old.tax + total <= Grand(s) /\ Grand(s) \in Nat \ {0}
  <2> HIDE DEF old
  <2> QED BY <1>1, <1>3
<1>5. ReceivableReduction(s, total) =
        Smaller(Monus(total, Monus(cashTarget, old.cash)), receivable[s].balance)
  BY DEF ReceivableReduction
<1> HIDE DEF total
<1>6. cashTarget \in 0 .. sale[s].initialPaid
  BY <1>1, <1>4, RoundRatioBounds
<1> HIDE DEF cashTarget
<1>7. Monus(cashTarget, old.cash) \in Nat
  BY <1>6, <1>1 DEF Monus
<1>8. Monus(total, Monus(cashTarget, old.cash)) \in Nat
  BY <1>7, <1>4 DEF Monus
<1>9. ReceivableReduction(s, total) \in Nat
  BY <1>8, <1>1, <1>5 DEF Smaller
<1> QED BY <1>9 DEF total

\* The debt of a document that exists: it does not grow, and stays as it is once
\* it has been cancelled.
DebtFallsOf(d) ==
  receivable[d].status # "NONE" =>
    /\ receivable'[d].balance <= receivable[d].balance
    /\ receivable[d].status = "CANCELLED" => receivable'[d] = receivable[d]

\* A document that has a receivable was created before, and not by a transaction
\* that is still at work.
LEMMA CreationKeepsDebt ==
  ASSUME AccountInv, NEW r \in Requests, NEW d \in Docs, NEW row, Creates(r, d),
         pc[r] = "begun", \/ receivable' = receivable
                          \/ receivable' = [receivable EXCEPT ![d] = row]
  PROVE  \A e \in Docs : DebtFallsOf(e)
<1>1. receivable[d].status = "NONE"
  BY CreatorAtWork DEF AccountInv, Exists, SaleOK, UnsoldOK
<1>2. \A e \in Docs : /\ receivable[e].balance \in Nat
                      /\ e # d => receivable'[e] = receivable[e]
  BY DEF AccountInv, TypeOK
<1> QED BY <1>1, <1>2 DEF DebtFallsOf

\* No step lets a debt grow or revives a cancelled one.
LEMMA DebtStep ==
  ASSUME AccountInv, [Next]_vars
  PROVE  \A d \in Docs : DebtFallsOf(d)
<1>0. receivable \in [Docs -> [status : RowStatus, amount : Nat, paidAmount : Nat,
                               balance : Nat]]
  BY DEF AccountInv, TypeOK
<1>1. ASSUME receivable' = receivable PROVE \A d \in Docs : DebtFallsOf(d)
  BY <1>0, <1>1 DEF DebtFallsOf
<1>2. ASSUME NEW r \in Requests, NEW paid \in Payments, NEW customer \in BOOLEAN,
             CompleteSale(r, paid, customer)
      PROVE  \A d \in Docs : DebtFallsOf(d)
  <2>1. /\ job[r].doc \in Docs /\ Creates(r, job[r].doc) /\ pc[r] = "begun"
    <3>1. job[r].doc \in Sales
      BY <1>2 DEF CompleteSale, AccountInv, JobsOK
    <3>2. job[r] = [kind |-> "sale", doc |-> job[r].doc]
      BY <1>2 DEF CompleteSale, AccountInv, TypeOK
    <3> QED BY <1>2, <3>1, <3>2 DEF CompleteSale, Creates, Docs
  <2>2. PICK row : \/ receivable' = receivable
                   \/ receivable' = [receivable EXCEPT ![job[r].doc] = row]
    BY <1>2 DEF CompleteSale
  <2> QED BY <2>1, <2>2, CreationKeepsDebt
<1>3. ASSUME NEW r \in Requests, NEW amount \in Amounts, CreateOpeningEntry(r, amount)
      PROVE  \A d \in Docs : DebtFallsOf(d)
  <2>1. /\ job[r].doc \in Docs /\ Creates(r, job[r].doc) /\ pc[r] = "begun"
    <3>1. job[r].doc \in Openings
      BY <1>3 DEF CreateOpeningEntry, AccountInv, JobsOK
    <3>2. job[r] = [kind |-> "opening", doc |-> job[r].doc]
      BY <1>3 DEF CreateOpeningEntry, AccountInv, TypeOK
    <3> QED BY <1>3, <3>1, <3>2, DocsAssumption DEF CreateOpeningEntry, Creates, Docs
  <2>2. PICK row : receivable' = [receivable EXCEPT ![job[r].doc] = row]
    BY <1>3 DEF CreateOpeningEntry
  <2> QED BY <2>1, <2>2, CreationKeepsDebt
<1>4. ASSUME NEW r \in Requests, RecordPayment(r) PROVE \A d \in Docs : DebtFallsOf(d)
  <2>1. pay[r].alloc \in [Docs -> Nat]
    BY DEF AccountInv, TypeOK
  <2>2. SUFFICES ASSUME NEW d \in Docs PROVE DebtFallsOf(d)
    OBVIOUS
  <2>3. CASE pay[r].alloc[d] > 0
    <3>1. /\ receivable[d].status \in {"OPEN", "PARTIAL"}
          /\ receivable[d].amount = receivable[d].paidAmount + receivable[d].balance
      BY <1>4, <2>3 DEF RecordPayment, AllocationsFit, IsOpen, AccountInv, RowOK
    <3>2. receivable'[d] = SettledRow(receivable[d], pay[r].alloc[d])
      BY <1>4, <2>3 DEF RecordPayment
    <3>3. receivable'[d].balance = receivable[d].balance - pay[r].alloc[d]
      BY <1>0, <2>1, <3>1, <3>2 DEF SettledRow
    <3> QED BY <1>0, <2>1, <3>1, <3>3 DEF DebtFallsOf
  <2>4. CASE ~(pay[r].alloc[d] > 0)
    BY <1>0, <1>4, <2>4 DEF RecordPayment, DebtFallsOf
  <2> QED BY <2>3, <2>4
<1>5. ASSUME NEW r \in Requests, NEW quantity \in Quantities,
             CompleteCustomerReturn(r, quantity)
      PROVE  \A d \in Docs : DebtFallsOf(d)
  <2> DEFINE s == job[r].doc
             reduction == ReceivableReduction(s, ReturnNet(s, quantity)
                                                   + ReturnTax(s, quantity))
             balance == receivable[s].balance - reduction
  <2>1. s \in Sales /\ s \in Docs
    BY <1>5 DEF CompleteCustomerReturn, AccountInv, JobsOK, Docs
  <2>2. /\ ReturnAllowed(s, quantity)
        /\ receivable' = IF receivable[s].status = "NONE" THEN receivable
             ELSE [receivable EXCEPT ![s] = ReturnedRow(receivable[s], balance)]
    BY <1>5, Zenon DEF CompleteCustomerReturn
  <2>3. /\ Live(s) /\ quantity \in Nat \ {0} /\ quantity <= RemainingQty(s)
        /\ ReturnNet(s, quantity) > 0
    <3>1. sale[s].status # "NONE"
      BY <2>1, <2>2 DEF ReturnAllowed, AccountInv, SaleOK, UnsoldOK
    <3>2. quantity \in Nat \ {0}
      BY BillFacts DEF Quantities
    <3> QED BY <2>2, <3>1, <3>2 DEF ReturnAllowed, Live
  <2>4. reduction \in Nat
    BY <2>1, <2>3, ReductionIsNatural
  <2>5. receivable[s].status # "CANCELLED"
    BY <2>1, <2>3 DEF AccountInv, SaleOK, SettlementOK
  <2> HIDE DEF reduction, s
  <2> QED BY <1>0, <2>1, <2>2, <2>4, <2>5 DEF ReturnedRow, DebtFallsOf
<1>6. ASSUME NEW r \in Requests, CancelSale(r) PROVE \A d \in Docs : DebtFallsOf(d)
  <2> DEFINE s == job[r].doc
  <2>1. s \in Sales /\ s \in Docs
    BY <1>6 DEF CancelSale, AccountInv, JobsOK, Docs
  <2>2. /\ CancelAllowed(s)
        /\ receivable' = IF receivable[s].status = "NONE" THEN receivable
             ELSE [receivable EXCEPT ![s] =
                    [status |-> "CANCELLED", amount |-> receivable[s].amount,
                     paidAmount |-> receivable[s].paidAmount, balance |-> 0]]
    BY <1>6, Zenon DEF CancelSale
  <2>3. receivable[s].status # "CANCELLED"
    BY <2>1, <2>2 DEF CancelAllowed, Live, AccountInv, SaleOK, SettlementOK
  <2> HIDE DEF s
  <2> QED BY <1>0, <2>1, <2>2, <2>3 DEF DebtFallsOf
<1>7. ASSUME NEW r \in Requests, Work(r) PROVE \A d \in Docs : DebtFallsOf(d)
  <2>1. CASE \E amount \in Amounts, method \in Methods : ReadOpenRows(r, amount, method)
    BY <2>1, <1>1 DEF ReadOpenRows, rows
  <2>2. CASE \E d \in Docs : Lock(r, d)
    BY <2>2, <1>1 DEF Lock, rows
  <2>3. CASE \E quantity \in Quantities : Reject(r, quantity)
    BY <2>3, <1>1 DEF Reject, rows
  <2> QED BY <1>7, <1>2, <1>3, <1>4, <1>5, <1>6, <2>1, <2>2, <2>3 DEF Work
<1>8. ASSUME NEW r \in Requests, NEW kind \in Kinds, NEW d \in Docs \cup {None},
             Begin(r, kind, d)
      PROVE  receivable' = receivable
  BY <1>8 DEF Begin, rows
<1>9. UNCHANGED vars => receivable' = receivable
  BY DEF vars
<1> QED BY <1>1, <1>7, <1>8, <1>9 DEF Next

\* Whatever commits on a document after it was posted, its debt only falls, and a
\* cancelled receivable is never revived.
THEOREM DebtsOnlyFall == Spec => DebtOnlyFalls
<1>1. AccountInv /\ [Next]_vars =>
        \A d \in Docs : receivable[d].status # "NONE" =>
          /\ receivable'[d].balance <= receivable[d].balance
          /\ receivable[d].status = "CANCELLED" => receivable'[d] = receivable[d]
  BY DebtStep DEF DebtFallsOf
<1> QED BY <1>1, AccountInvariant, PTL DEF Spec, DebtOnlyFalls
----------------------------------------------------------------------------
(* What cancelSale compares.  The payment rows allocated to a customer's   *)
(* sale add up to its paid total (ComparedOK), whatever they are ordered   *)
(* by: so when the row taken for the first is the cash received with the   *)
(* sale, the others add up to what was paid later.                         *)

Committed == {q \in Requests : pc[q] = "done"}
Received(s) == SumFunctionOnSet([q \in Requests |-> pay[q].alloc[s]], IncomingPayments(s))

\* Only a payment has allocations before it commits.
PayOK == \A r \in Requests :
  pc[r] \in {"idle", "begun"} \/ (pc[r] = "locking" /\ job[r].kind # "payment") =>
    \A d \in Docs : pay[r].alloc[d] = 0

ComparedOK(s) ==
  /\ sale[s].status = "NONE" => IncomingPayments(s) = {}
  /\ sale[s].customer => Received(s) = sale[s].paidTotal
  /\ Live(s) /\ returned[s].qty = 0 =>
       sale[s].dueTotal = IF receivable[s].status = "NONE" THEN 0 ELSE receivable[s].balance

CancelInv == IsFiniteSet(Committed) /\ PayOK /\ \A s \in Sales : ComparedOK(s)

LEMMA CancelInit == Init => CancelInv
<1> SUFFICES ASSUME Init PROVE CancelInv
  OBVIOUS
<1>1. Committed = {} /\ \A s \in Sales : IncomingPayments(s) = {}
  BY DEF Init, Committed, IncomingPayments, Allocated
<1>2. PayOK
  BY DEF Init, PayOK, NoPay, NoAlloc
<1>3. \A s \in Sales : ComparedOK(s)
  BY <1>1 DEF Init, ComparedOK, NoSale, Live
<1> QED BY <1>1, <1>2, <1>3, FS_EmptySet DEF CancelInv

\* The payments of a sale are committed requests, and what they allocate is a number.
LEMMA IncomingFacts ==
  ASSUME TypeOK, IsFiniteSet(Committed), NEW s \in Sales
  PROVE  /\ IncomingPayments(s) \subseteq Committed
         /\ IncomingPayments(s) \subseteq Requests
         /\ IsFiniteSet(IncomingPayments(s))
         /\ \A q \in Requests : pay[q].alloc[s] \in Nat
<1>1. IncomingPayments(s) \subseteq Committed /\ IncomingPayments(s) \subseteq Requests
  BY DEF IncomingPayments, Allocated, Committed
<1>2. s \in Docs
  BY DEF Docs
<1> QED BY <1>1, <1>2, FS_Subset DEF TypeOK

\* Nothing is received as long as nobody commits,
LEMMA ReceivedKept ==
  ASSUME TypeOK, IsFiniteSet(Committed), NEW s \in Sales, Committed' = Committed,
         \A q \in Committed : pay'[q] = pay[q]
  PROVE  /\ IncomingPayments(s)' = IncomingPayments(s)
         /\ Received(s)' = Received(s)
<1> DEFINE f == [q \in Requests |-> pay[q].alloc[s]]
           g == [q \in Requests |-> pay'[q].alloc[s]]
<1>1. IncomingPayments(s)' = IncomingPayments(s)
  BY DEF IncomingPayments, Allocated, Committed
<1>2. /\ IncomingPayments(s) \subseteq Committed /\ IncomingPayments(s) \subseteq Requests
      /\ IsFiniteSet(IncomingPayments(s)) /\ \A q \in Requests : pay[q].alloc[s] \in Nat
  BY IncomingFacts
<1>3. \A q \in IncomingPayments(s) : f[q] \in Int /\ f[q] = g[q]
  BY <1>2
<1> HIDE DEF f, g
<1>4. SumFunctionOnSet(f, IncomingPayments(s)) = SumFunctionOnSet(g, IncomingPayments(s))
  BY <1>2, <1>3, SumSame
<1> QED BY <1>1, <1>4 DEF Received, f, g

\* and a request that commits adds what it allocates to the sale.
LEMMA ReceivedGrows ==
  ASSUME TypeOK, IsFiniteSet(Committed), NEW s \in Sales, NEW r \in Requests, pc[r] # "done",
         Finish(r, "done"), \A q \in Requests \ {r} : pay'[q] = pay[q],
         pay'[r].alloc[s] \in Nat
  PROVE  /\ IncomingPayments(s)' = IF pay'[r].alloc[s] > 0 THEN IncomingPayments(s) \cup {r}
                                   ELSE IncomingPayments(s)
         /\ Received(s)' = Received(s) + pay'[r].alloc[s]
         /\ Received(s) \in Nat
<1> DEFINE f == [q \in Requests |-> pay[q].alloc[s]]
           g == [q \in Requests |-> pay'[q].alloc[s]]
           S == IncomingPayments(s)
<1>1. \A q \in Requests : pc'[q] = IF q = r THEN "done" ELSE pc[q]
  BY DEF Finish, TypeOK
<1>2. S' = IF pay'[r].alloc[s] > 0 THEN S \cup {r} ELSE S
  BY <1>1 DEF IncomingPayments, Allocated
<1>3. /\ S \subseteq Committed /\ S \subseteq Requests
      /\ IsFiniteSet(S) /\ \A q \in Requests : pay[q].alloc[s] \in Nat
  BY IncomingFacts
<1>4. r \notin S /\ \A q \in S : f[q] \in Nat /\ f[q] = g[q]
  BY <1>3 DEF Committed
<1>5. g[r] = pay'[r].alloc[s] /\ g[r] \in Nat
  OBVIOUS
<1>6. Received(s) = SumFunctionOnSet(f, S) /\ Received(s)' = SumFunctionOnSet(g, S')
  BY DEF Received
<1> HIDE DEF f, g, S
<1>7. SumFunctionOnSet(f, S) = SumFunctionOnSet(g, S) /\ SumFunctionOnSet(f, S) \in Nat
  BY <1>3, <1>4, SumSame, SumNat
<1>8. SumFunctionOnSet(g, S \cup {r}) = g[r] + SumFunctionOnSet(g, S)
  <2>1. \A q \in S \cup {r} : g[q] \in Int
    BY <1>4, <1>5
  <2> QED BY <1>3, <1>4, <2>1, SumAdd
<1>9. CASE g[r] > 0
  <2>1. S' = S \cup {r}
    BY <1>2, <1>5, <1>9
  <2> QED BY <1>2, <1>5, <1>6, <1>7, <1>8, <2>1 DEF S
<1>10. CASE ~(g[r] > 0)
  <2>1. S' = S /\ g[r] = 0
    BY <1>2, <1>5, <1>10
  <2> QED BY <1>2, <1>5, <1>6, <1>7, <2>1 DEF S
<1> QED BY <1>9, <1>10

\* A step that commits nothing and writes no row.
LEMMA CancelSilent ==
  ASSUME AccountInv, CancelInv, UNCHANGED rows, Committed' = Committed,
         \A q \in Committed : pay'[q] = pay[q], PayOK'
  PROVE  CancelInv'
<1>1. ASSUME NEW s \in Sales PROVE ComparedOK(s)'
  <2>1. IncomingPayments(s)' = IncomingPayments(s) /\ Received(s)' = Received(s)
    BY ReceivedKept DEF AccountInv, CancelInv
  <2>2. ComparedOK(s)
    BY DEF CancelInv
  <2> QED BY <2>1, <2>2 DEF ComparedOK, rows, Live
<1> QED BY <1>1 DEF CancelInv

\* A commit leaves the set of committed requests finite, and PayOK true.
LEMMA CommitKeeps ==
  ASSUME AccountInv, CancelInv, NEW r \in Requests, Finish(r, "done"),
         \A q \in Requests \ {r} : pay'[q] = pay[q]
  PROVE  IsFiniteSet(Committed') /\ PayOK'
<1>1. \A q \in Requests : pc'[q] = IF q = r THEN "done" ELSE pc[q]
  BY DEF Finish, AccountInv, TypeOK
<1>2. Committed' = Committed \cup {r} /\ job' = job
  BY <1>1 DEF Committed, Finish
<1>3. PayOK'
  BY <1>1, <1>2 DEF CancelInv, PayOK
<1> QED BY <1>2, <1>3, FS_AddElement DEF CancelInv

\* A commit that allocates nothing to a sale it leaves as it is, or of which
\* something has been returned, or which it cancels.
LEMMA ComparedKept ==
  ASSUME AccountInv, CancelInv, NEW r \in Requests, pc[r] # "done", Finish(r, "done"),
         \A q \in Requests \ {r} : pay'[q] = pay[q], NEW s \in Sales, pay'[r].alloc[s] = 0,
         \/ sale'[s] = sale[s] /\ receivable'[s] = receivable[s] /\ returned'[s] = returned[s]
         \/ sale'[s] = sale[s] /\ returned'[s].qty # 0
         \/ /\ sale'[s].status = "CANCELLED" /\ sale'[s].customer = sale[s].customer
            /\ sale'[s].paidTotal = sale[s].paidTotal
  PROVE  ComparedOK(s)'
<1>1. TypeOK /\ IsFiniteSet(Committed) /\ ComparedOK(s)
  BY DEF AccountInv, CancelInv
<1>2. /\ IncomingPayments(s)' = IncomingPayments(s)
      /\ Received(s)' = Received(s) + 0 /\ Received(s) \in Nat
  BY <1>1, ReceivedGrows
<1> QED BY <1>1, <1>2 DEF ComparedOK, Live

----------------------------------------------------------------------------
LEMMA CancelCompleteSale ==
  ASSUME AccountInv, CancelInv, NEW r \in Requests, NEW paid \in Payments,
         NEW customer \in BOOLEAN, CompleteSale(r, paid, customer)
  PROVE  CancelInv'
<1>1. PICK s \in Sales : /\ s = job[r].doc /\ s \in Docs
                          /\ pc[r] = "begun" /\ Creates(r, s)
  <2>1. job[r].doc \in Sales
    BY DEF CompleteSale, AccountInv, JobsOK
  <2>2. job[r] = [kind |-> "sale", doc |-> job[r].doc]
    BY DEF CompleteSale, AccountInv, TypeOK
  <2> QED BY <2>1, <2>2 DEF CompleteSale, Creates, Docs
<1>2. sale[s].status = "NONE"
  BY <1>1, CreatorAtWork DEF AccountInv, Exists
<1>3. paid \in 0 .. Grand(s) /\ Grand(s) \in Nat
  BY <1>1, BillFacts DEF CompleteSale
<1>4. /\ \A q \in Requests \ {r} : pay'[q] = pay[q]
      /\ \A d \in Docs \ {s} : pay'[r].alloc[d] = 0
      /\ pay'[r].alloc[s] = IF customer THEN paid ELSE 0
  <2>1. pay \in [Requests -> [amount : Nat, method : Methods, alloc : [Docs -> Nat]]]
    BY DEF AccountInv, TypeOK
  <2>2. \A d \in Docs : pay[r].alloc[d] = 0
    BY <1>1 DEF CancelInv, PayOK
  <2>3. CASE customer /\ paid > 0
    <3>1. pay' = [pay EXCEPT ![r] = [amount |-> paid, method |-> "CASH",
                                     alloc |-> [NoAlloc EXCEPT ![s] = paid]]]
      BY <1>1, <2>3 DEF CompleteSale
    <3> QED BY <1>1, <2>1, <2>3, <3>1 DEF NoAlloc
  <2>4. CASE ~(customer /\ paid > 0)
    <3>1. pay' = pay
      BY <2>4 DEF CompleteSale
    <3> QED BY <1>1, <1>3, <2>2, <2>4, <3>1
  <2> QED BY <2>3, <2>4
<1>5. /\ sale'[s].status # "NONE" /\ sale'[s].paidTotal = paid
      /\ sale'[s].dueTotal = Grand(s) - paid /\ sale'[s].customer = customer
      /\ \A e \in Sales \ {s} : sale'[e] = sale[e] /\ receivable'[e] = receivable[e]
      /\ Grand(s) - paid = 0 => receivable'[s] = receivable[s]
      /\ Grand(s) - paid # 0 => /\ receivable'[s].status # "NONE"
                                /\ receivable'[s].balance = Grand(s) - paid
      /\ returned' = returned /\ Finish(r, "done")
  BY <1>1, <1>3 DEF CompleteSale, AccountInv, TypeOK, Docs
<1>6. receivable[s].status = "NONE"
  BY <1>2 DEF AccountInv, SaleOK, UnsoldOK
<1>7. ASSUME NEW e \in Sales PROVE ComparedOK(e)'
  <2>1. CASE e # s
    <3>1. e \in Docs \ {s}
      BY <2>1 DEF Docs
    <3> QED BY <1>1, <1>4, <1>5, <2>1, <3>1, ComparedKept
  <2>2. CASE e = s
    <3>1. TypeOK /\ IsFiniteSet(Committed) /\ ComparedOK(s)
      BY DEF AccountInv, CancelInv
    <3>2. Received(s) = 0
      BY <1>2, <3>1, SumEmpty DEF ComparedOK, Received
    <3>3. pay'[r].alloc[s] \in Nat
      BY <1>3, <1>4
    <3>4. Received(s)' = Received(s) + pay'[r].alloc[s]
      BY <1>1, <1>4, <1>5, <3>1, <3>3, ReceivedGrows
    <3>5. customer => Received(s)' = paid
      BY <1>3, <1>4, <3>2, <3>4
    <3> QED BY <1>3, <1>5, <1>6, <2>2, <3>5 DEF ComparedOK, Live
  <2> QED BY <2>1, <2>2
<1>8. IsFiniteSet(Committed') /\ PayOK'
  BY <1>4, <1>5, CommitKeeps
<1> QED BY <1>7, <1>8 DEF CancelInv

LEMMA CancelRecordPayment ==
  ASSUME AccountInv, CancelInv, NEW r \in Requests, RecordPayment(r)
  PROVE  CancelInv'
<1> DEFINE alloc == pay[r].alloc
<1>1. /\ TypeOK /\ IsFiniteSet(Committed) /\ pc[r] # "done" /\ Finish(r, "done")
      /\ pay' = pay /\ returned' = returned /\ AllocationsFit(r)
  BY DEF RecordPayment, Ready, AccountInv, CancelInv
<1>2. alloc \in [Docs -> Nat]
  BY <1>1 DEF TypeOK
<1>3. ASSUME NEW s \in Sales PROVE ComparedOK(s)'
  <2>1. s \in Docs /\ alloc[s] \in Nat
    BY <1>2 DEF Docs
  <2>2. CASE alloc[s] = 0
    <3>1. sale'[s] = sale[s] /\ receivable'[s] = receivable[s]
      BY <2>1, <2>2 DEF RecordPayment
    <3> QED BY <1>1, <2>2, <3>1, ComparedKept
  <2>3. CASE alloc[s] > 0
    <3>1. /\ sale[s].status # "CANCELLED" /\ IsOpen(s)
      BY <1>1, <2>1, <2>3 DEF AllocationsFit
    <3>2. /\ receivable[s].status # "NONE" /\ Live(s)
          /\ receivable[s].paidAmount = sale[s].paidTotal
      BY <3>1 DEF IsOpen, AccountInv, SaleOK, UnsoldOK, SettlementOK, Live
    <3> DEFINE row == SettledRow(receivable[s], alloc[s])
    <3>3. receivable'[s] = row /\ sale'[s] = PaidSale(s, row)
      BY <2>1, <2>3 DEF RecordPayment
    <3>4. /\ row.status # "NONE" /\ row.paidAmount = receivable[s].paidAmount + alloc[s]
          /\ PaidSale(s, row).paidTotal = row.paidAmount
          /\ PaidSale(s, row).dueTotal = row.balance
          /\ PaidSale(s, row).customer = sale[s].customer
          /\ PaidSale(s, row).status # "NONE"
      BY DEF SettledRow, PaidSale, SaleWith
    <3> HIDE DEF row
    <3>5. Received(s)' = Received(s) + pay'[r].alloc[s]
      BY <1>1, <2>1, ReceivedGrows
    <3>6. ComparedOK(s)
      BY DEF CancelInv
    <3> QED BY <1>1, <3>2, <3>3, <3>4, <3>5, <3>6 DEF ComparedOK
  <2> QED BY <2>1, <2>2, <2>3
<1>4. IsFiniteSet(Committed') /\ PayOK'
  BY <1>1, CommitKeeps
<1> QED BY <1>3, <1>4 DEF CancelInv

\* An opening entry, a return and a cancellation allocate nothing.
LEMMA CancelOthers ==
  ASSUME AccountInv, CancelInv, NEW r \in Requests,
         \/ \E amount \in Amounts : CreateOpeningEntry(r, amount)
         \/ \E quantity \in Quantities : CompleteCustomerReturn(r, quantity)
         \/ CancelSale(r)
  PROVE  CancelInv'
<1>1. /\ pc[r] = "begun" \/ (pc[r] = "locking" /\ job[r].kind # "payment")
      /\ Finish(r, "done") /\ pay' = pay
  BY DEF CreateOpeningEntry, CompleteCustomerReturn, CancelSale, Ready
<1>2. pc[r] # "done" /\ TypeOK /\ \A d \in Docs : pay'[r].alloc[d] = 0
  BY <1>1 DEF CancelInv, PayOK, AccountInv
<1>3. ASSUME NEW s \in Sales PROVE ComparedOK(s)'
  <2>1. s \in Docs
    BY DEF Docs
  <2>2. ASSUME NEW amount \in Amounts, CreateOpeningEntry(r, amount) PROVE ComparedOK(s)'
    <3>1. job[r].doc \in Openings
      BY <2>2 DEF CreateOpeningEntry, AccountInv, JobsOK
    <3>2. job[r].doc # s /\ job[r].doc \in Docs
      BY <3>1, DocsAssumption DEF Docs
    <3>3. sale' = sale /\ receivable'[s] = receivable[s] /\ returned' = returned
      BY <1>2, <2>1, <2>2, <3>2 DEF CreateOpeningEntry, TypeOK
    <3> QED BY <1>1, <1>2, <2>1, <3>3, ComparedKept
  <2>3. ASSUME NEW quantity \in Quantities, CompleteCustomerReturn(r, quantity)
        PROVE  ComparedOK(s)'
    <3>1. CASE job[r].doc = s
      <4>1. /\ quantity \in Nat \ {0}
            /\ returned[s].qty \in Nat
        BY <1>2, BillFacts DEF Quantities, TypeOK
      <4>2. returned'[s].qty = returned[s].qty + quantity /\ sale' = sale
        BY <1>2, <2>3, <3>1 DEF CompleteCustomerReturn, TypeOK
      <4>3. returned'[s].qty # 0
        BY <4>1, <4>2
      <4> QED BY <1>1, <1>2, <2>1, <4>2, <4>3, ComparedKept
    <3>2. CASE job[r].doc # s
      <4>1. sale' = sale /\ receivable'[s] = receivable[s] /\ returned'[s] = returned[s]
        BY <1>2, <2>1, <2>3, <3>2 DEF CompleteCustomerReturn, TypeOK
      <4> QED BY <1>1, <1>2, <2>1, <4>1, ComparedKept
    <3> QED BY <3>1, <3>2
  <2>4. CASE CancelSale(r)
    <3>1. CASE job[r].doc = s
      <4>1. sale'[s] = SaleWith(s, "CANCELLED", sale[s].paidTotal, sale[s].dueTotal)
        BY <1>2, <2>4, <3>1 DEF CancelSale, TypeOK
      <4>2. /\ sale'[s].status = "CANCELLED" /\ sale'[s].customer = sale[s].customer
            /\ sale'[s].paidTotal = sale[s].paidTotal
        BY <4>1 DEF SaleWith
      <4> QED BY <1>1, <1>2, <2>1, <4>2, ComparedKept
    <3>2. CASE job[r].doc # s
      <4>1. sale'[s] = sale[s] /\ receivable'[s] = receivable[s] /\ returned' = returned
        BY <1>2, <2>1, <2>4, <3>2 DEF CancelSale, TypeOK
      <4> QED BY <1>1, <1>2, <2>1, <4>1, ComparedKept
    <3> QED BY <3>1, <3>2
  <2> QED BY <2>2, <2>3, <2>4
<1>4. IsFiniteSet(Committed') /\ PayOK'
  BY <1>1, CommitKeeps
<1> QED BY <1>3, <1>4 DEF CancelInv

\* The steps before a commit.
LEMMA CancelBefore ==
  ASSUME AccountInv, CancelInv, NEW r \in Requests,
         \/ \E kind \in Kinds, d \in Docs \cup {None} : Begin(r, kind, d)
         \/ \E amount \in Amounts, method \in Methods : ReadOpenRows(r, amount, method)
         \/ \E d \in Docs : Lock(r, d)
         \/ \E quantity \in Quantities : Reject(r, quantity)
  PROVE  CancelInv'
<1>1. TypeOK /\ PayOK
  BY DEF AccountInv, CancelInv
<1>2. UNCHANGED rows
  BY DEF Begin, ReadOpenRows, Lock, Reject
<1>3. ASSUME NEW kind \in Kinds, NEW d \in Docs \cup {None}, Begin(r, kind, d)
      PROVE  Committed' = Committed /\ PayOK' /\ pay' = pay
  <2>1. /\ pc[r] = "idle" /\ pay' = pay /\ pc'[r] \in {"begun", "locking"}
        /\ \A q \in Requests \ {r} : pc'[q] = pc[q] /\ job'[q] = job[q]
    BY <1>1, <1>3 DEF Begin, TypeOK
  <2> QED BY <1>1, <2>1 DEF PayOK, Committed
<1>4. ASSUME NEW amount \in Amounts, NEW method \in Methods, ReadOpenRows(r, amount, method)
      PROVE  /\ Committed' = Committed /\ PayOK'
             /\ \A q \in Committed : pay'[q] = pay[q]
  <2>1. /\ pc[r] = "begun" /\ job[r].kind = "payment" /\ pc'[r] = "locking" /\ job' = job
        /\ \A q \in Requests \ {r} : pc'[q] = pc[q] /\ pay'[q] = pay[q]
    BY <1>1, <1>4 DEF ReadOpenRows, TypeOK
  <2> QED BY <1>1, <2>1 DEF PayOK, Committed
<1>5. ASSUME NEW d \in Docs, Lock(r, d)
      PROVE  Committed' = Committed /\ PayOK' /\ pay' = pay
  BY <1>1, <1>5 DEF Lock, PayOK, Committed
<1>6. ASSUME NEW quantity \in Quantities, Reject(r, quantity)
      PROVE  Committed' = Committed /\ PayOK' /\ pay' = pay
  <2>1. /\ pc[r] = "locking" /\ pc'[r] = "failed" /\ job' = job /\ pay' = pay
        /\ \A q \in Requests \ {r} : pc'[q] = pc[q]
    BY <1>1, <1>6 DEF Reject, Finish, TypeOK
  <2> QED BY <1>1, <2>1 DEF PayOK, Committed
<1>7. Committed' = Committed /\ PayOK' /\ \A q \in Committed : pay'[q] = pay[q]
  BY <1>3, <1>4, <1>5, <1>6
<1> QED BY <1>2, <1>7, CancelSilent

LEMMA CancelNext == AccountInv /\ CancelInv /\ [Next]_vars => CancelInv'
<1> SUFFICES ASSUME AccountInv, CancelInv, [Next]_vars PROVE CancelInv'
  OBVIOUS
<1>1. CASE UNCHANGED vars
  <2>1. UNCHANGED rows /\ Committed' = Committed /\ pay' = pay /\ PayOK'
    BY <1>1 DEF vars, rows, Committed, PayOK, CancelInv
  <2> QED BY <2>1, CancelSilent
<1>2. CASE Next
  BY <1>2, CancelBefore, CancelCompleteSale, CancelRecordPayment, CancelOthers DEF Next, Work
<1> QED BY <1>1, <1>2

\* When the payment row with the smallest createdAt is the cash received with the
\* sale, the rows of cash and of bank after it add up to what was paid later.
LEMMA LaterPaymentsAddUp ==
  ASSUME AccountInv, CancelInv, NEW s \in Sales, sale[s].customer, Live(s),
         InitialPaymentMatches(s)
  PROVE  Refund(s, "CASH") + Refund(s, "BANK") = sale[s].paidTotal - sale[s].initialPaid
<1> DEFINE f == [q \in Requests |-> pay[q].alloc[s]]
           S == IncomingPayments(s)
           L == LaterPayments(s)
           Cash == {q \in L : pay[q].method = "CASH"}
           Bank == {q \in L : pay[q].method = "BANK"}
<1>1. /\ TypeOK /\ IsFiniteSet(Committed)
      /\ sale[s].initialPaid \in Nat /\ sale[s].paidTotal \in Nat
  BY DEF AccountInv, CancelInv, TypeOK
<1>2. S \subseteq Requests /\ IsFiniteSet(S) /\ \A q \in Requests : pay[q].alloc[s] \in Nat
  BY <1>1, IncomingFacts
<1>3. \A q \in S : f[q] \in Int
  BY <1>2
<1>4. SumFunctionOnSet(f, S) = sale[s].paidTotal
  BY DEF CancelInv, ComparedOK, Received
<1>5. SumFunctionOnSet(f, L) = sale[s].paidTotal - sale[s].initialPaid
  <2>1. CASE ~(sale[s].initialPaid > 0)
    <3>1. L = S /\ sale[s].initialPaid = 0
      BY <1>1, <2>1 DEF LaterPayments
    <3> HIDE DEF f, S, L
    <3> QED BY <1>1, <1>4, <3>1
  <2>2. CASE sale[s].initialPaid > 0
    <3>1. S # {} /\ L = S \ {InitialPayment(s)} /\ pay[InitialPayment(s)].alloc[s] = sale[s].initialPaid
      BY <2>2 DEF InitialPaymentMatches, LaterPayments
    <3>2. InitialPayment(s) \in S
      <4> DEFINE Times == {began[q] : q \in S}
      <4>1. Times \subseteq Nat /\ Times # {}
        BY <1>1, <1>2, <3>1 DEF TypeOK
      <4>2. PICK m \in Times : \A n \in Times : m <= n
        <5> HIDE DEF Times
        <5> QED BY <4>1, LeastNumber
      <4>3. \E q \in S : \A p \in S : began[q] <= began[p]
        BY <4>2
      <4> QED BY <4>3 DEF InitialPayment
    <3>3. f[InitialPayment(s)] = sale[s].initialPaid
      BY <1>2, <3>1, <3>2
    <3> HIDE DEF f, S, L
    <3>4. SumFunctionOnSet(f, S) = f[InitialPayment(s)] + SumFunctionOnSet(f, L)
      BY <1>2, <1>3, <3>1, <3>2, SumRemove
    <3>5. IsFiniteSet(L) /\ L \subseteq S
      BY <1>2, <3>1, FS_Subset
    <3>6. SumFunctionOnSet(f, L) \in Int
      BY <1>3, <3>5, SumInt
    <3> QED BY <1>1, <1>4, <3>3, <3>4, <3>6
  <2> QED BY <2>1, <2>2
<1>6. L \subseteq S
  BY DEF LaterPayments
<1>7. Cash \cup Bank = L /\ Cash \cap Bank = {} /\ Cash \subseteq L /\ Bank \subseteq L
  <2>1. \A q \in L : pay[q].method \in {"CASH", "BANK"}
    BY <1>1, <1>2, <1>6 DEF TypeOK, Methods
  <2> QED BY <2>1
<1>8. Refund(s, "CASH") = SumFunctionOnSet(f, Cash) /\ Refund(s, "BANK") = SumFunctionOnSet(f, Bank)
  BY DEF Refund
<1> HIDE DEF f, S, L, Cash, Bank
<1>9. IsFiniteSet(Cash) /\ IsFiniteSet(Bank) /\ \A q \in Cash \cup Bank : f[q] \in Int
  BY <1>2, <1>3, <1>6, <1>7, FS_Subset
<1>10. SumFunctionOnSet(f, Cash \cup Bank) = SumFunctionOnSet(f, Cash) + SumFunctionOnSet(f, Bank)
  BY <1>7, <1>9, SumUnion
<1> QED BY <1>5, <1>7, <1>8, <1>10

\* Whatever commits on a sale and in whatever order, as long as nothing of it was
\* returned, the checks that compare it with its receivable and with the payments
\* after the first find them equal.
THEOREM CancelChecksAlwaysAgree == Spec => []CancelChecksAgree
<1>1. ASSUME AccountInv, CancelInv PROVE CancelChecksAgree
  <2> SUFFICES ASSUME NEW s \in Sales, sale[s].status \notin {"NONE", "CANCELLED"},
                      returned[s].qty = 0, InitialPaymentMatches(s)
               PROVE  PaidTotalMatches(s) /\ ReceivableMatches(s)
    BY DEF CancelChecksAgree
  <2>1. Live(s) /\ SaleOK(s) /\ ComparedOK(s)
    BY <1>1 DEF Live, AccountInv, CancelInv
  <2>2. PaidTotalMatches(s)
    BY <1>1, <2>1, LaterPaymentsAddUp DEF PaidTotalMatches
  <2>3. ReceivableMatches(s)
    BY <2>1 DEF ReceivableMatches, SaleOK, SettlementOK, ComparedOK
  <2> QED BY <2>2, <2>3
<1> QED BY <1>1, CancelInit, CancelNext, AccountInvariant, PTL DEF Spec
=============================================================================
