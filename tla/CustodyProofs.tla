--------------------------- MODULE CustodyProofs ---------------------------
(***************************************************************************)
(* Custody implements StockLedger, its account carries what is held at     *)
(* issue cost, and a key has one effect, for any representatives, goods,   *)
(* requests, keys, orders and costs.                                       *)
(*                                                                         *)
(* An issue writes quantities it read without a lock.  That is sound only  *)
(* because of facts about other requests: the unique indexes leave one     *)
(* issue per representative that has entered or committed (UniqueOK), and  *)
(* nobody has a custody row before that issue commits (RowOK), so the      *)
(* issue has read that there is none (ReadOK).  Sales and write-offs hold *)
(* the lock of every row they have read something from (HeldOK), and go on *)
(* only with enough of it (EnoughOK).                                      *)
(***************************************************************************)
EXTENDS Custody, ArithmeticProofs

\* What has not begun has read nothing, and what has begun names its use case.
BegunOK == \A r \in Requests :
  IF pc[r] = "idle" THEN \A p \in Places : read[r][p] = Unread
  ELSE job[r].kind \in Kinds /\ job[r].rep \in Reps /\ job[r].key \in Keys
\* An issue reads after it has entered, and finds no row; others read a quantity.
ReadOK == \A r \in Requests, p \in Places :
  IF IsIssue(r)
  THEN /\ pc[r] \in {"open", "checked"} => read[r][p] = Unread
       /\ pc[r] = "entered" => read[r][p] \in {None, Unread}
  ELSE read[r][p] \in Nat \cup {Unread}
\* What a sale or a write-off has read is locked and has not changed since.
HeldOK == \A r \in Requests, p \in Places :
  pc[r] \in Open /\ ~IsIssue(r) /\ read[r][p] \in Nat \ {0} =>
    locked[p] = r /\ custody[p] = read[r][p]
EnoughOK == \A r \in Requests : pc[r] = "entered" /\ ~IsIssue(r) =>
  \A p \in Lines(r) : read[r][p] \in Nat /\ read[r][p] >= Asked(r, p)
\* The unique indexes.
UniqueOK == \A q, r \in Requests :
  q # r /\ pc[q] \in {"entered", "done"} /\ pc[r] \in {"entered", "done"} => ~Collide(q, r)
\* A place has a row, and a cost, from the commit of its representative's issue.
RowOK == \A p \in Places :
  /\ custody[p] = None <=> unitCost[p] = None
  /\ custody[p] # None => Assigned(p[1])
  /\ unitCost[p] = None => account[p] = 0

CustodyInv == TypeOK /\ BegunOK /\ ReadOK /\ HeldOK /\ EnoughOK /\ UniqueOK /\ RowOK

LEMMA InitHolds == Init => CustodyInv
<1> SUFFICES ASSUME Init PROVE CustodyInv
  OBVIOUS
<1>1. TypeOK
  <2>1. NoJob \in [kind : Kinds \cup {"none"}, rep : Reps \cup {None},
                   quantity : [Goods -> Nat], key : Keys \cup {None}]
    BY DEF NoJob
  <2>2. cost \in [Goods -> Nat]
    <3>1. cost \in [Goods -> Costs] /\ \A c \in Costs : c \in Nat
      BY CustodyAssumption DEF Init
    <3> QED BY <3>1
  <2>3. /\ locked \in [Places -> Holders] /\ exclusive \in [Reps -> Holders]
        /\ shared \in [Reps -> SUBSET Requests]
    BY DEF Init, Holders
  <2> QED BY <2>1, <2>2, <2>3 DEF Init, TypeOK, Open
<1>2. BegunOK
  BY DEF Init, BegunOK
<1>3. ReadOK /\ HeldOK /\ EnoughOK /\ UniqueOK
  BY CustodyAssumption DEF Init, ReadOK, HeldOK, EnoughOK, UniqueOK, Open, NoJob, IsIssue
<1>4. RowOK
  BY DEF Init, RowOK
<1> QED BY <1>1, <1>2, <1>3, <1>4 DEF CustodyInv

----------------------------------------------------------------------------
\* Ending a transaction frees its own locks and nobody else's.
LEMMA ReleaseFacts ==
  ASSUME TypeOK, NEW r \in Requests, Release(r)
  PROVE  /\ locked' \in [Places -> Holders] /\ exclusive' \in [Reps -> Holders]
         /\ shared' \in [Reps -> SUBSET Requests]
         /\ \A q \in Requests \ {r}, p \in Places : locked[p] = q => locked'[p] = q
  BY DEF TypeOK, Release, Holders

\* An assignment is never lost.
LEMMA AssignedStays ==
  ASSUME NEW rep, Assigned(rep),
         \A q \in Requests : pc[q] = "done" => pc'[q] = "done" /\ job'[q] = job[q]
  PROVE  Assigned(rep)'
  BY DEF Assigned, Done

\* Nothing of a representative without an assignment has a row or a cost.
LEMMA NoRow ==
  ASSUME CustodyInv, NEW r \in Requests, pc[r] = "entered", IsIssue(r), NEW p \in Lines(r)
  PROVE  custody[p] = None /\ unitCost[p] = None /\ account[p] = 0
<1>1. p \in Places /\ p[1] = job[r].rep
  BY CustodyAssumption DEF Lines, Asked
<1>2. ~Assigned(p[1])
  <2> SUFFICES ASSUME NEW q \in Requests, pc[q] = "done", IsIssue(q), job[q].rep = p[1]
               PROVE  FALSE
    BY DEF Assigned, Done, IsIssue
  <2>1. Collide(q, r)
    BY <1>1 DEF Collide
  <2> QED BY <2>1 DEF CustodyInv, UniqueOK
<1> QED BY <1>1, <1>2 DEF CustodyInv, RowOK

----------------------------------------------------------------------------
(* The steps that leave rows, costs and account alone *)

\* A transaction that ends without writing.
LEMMA FailStep ==
  ASSUME CustodyInv, NEW r \in Requests, pc[r] \in Open, Fail(r)
  PROVE  CustodyInv'
<1>1. TypeOK
  BY DEF CustodyInv
<1>2. /\ pc' = [pc EXCEPT ![r] = "failed"]
      /\ UNCHANGED <<job, read, custody, cost, unitCost, account>>
  BY DEF Fail
<1>3. \A q \in Requests : pc'[q] = IF q = r THEN "failed" ELSE pc[q]
  BY <1>1, <1>2 DEF TypeOK
<1>4. TypeOK'
  BY <1>1, <1>2, ReleaseFacts DEF Fail, TypeOK, Holders, Open
<1>5. BegunOK' /\ ReadOK' /\ EnoughOK' /\ UniqueOK'
  <2>1. BegunOK'
    BY <1>2, <1>3 DEF CustodyInv, BegunOK, Open
  <2>2. ReadOK' /\ EnoughOK' /\ UniqueOK'
    BY <1>2, <1>3 DEF CustodyInv, ReadOK, EnoughOK, UniqueOK, IsIssue, Lines, Asked, Collide
  <2> QED BY <2>1, <2>2
<1>6. HeldOK'
  BY <1>1, <1>2, <1>3, ReleaseFacts DEF CustodyInv, HeldOK, Fail, IsIssue, Open
<1>7. RowOK'
  <2>1. \A q \in Requests : pc[q] = "done" => pc'[q] = "done" /\ job'[q] = job[q]
    BY <1>2, <1>3 DEF Open
  <2> QED BY <1>2, <2>1, AssignedStays DEF CustodyInv, RowOK
<1> QED BY <1>4, <1>5, <1>6, <1>7 DEF CustodyInv

LEMMA BeginStep ==
  ASSUME CustodyInv, NEW r \in Requests, NEW kind \in Kinds, NEW rep \in Reps,
         NEW quantity \in Orders, NEW key \in Keys, Begin(r, kind, rep, quantity, key)
  PROVE  CustodyInv'
<1>1. TypeOK /\ pc[r] = "idle"
  BY DEF CustodyInv, Begin
<1>2. Outcome(kind, rep, key) \in {"replayed", "failed", "open"}
  BY DEF Outcome
<1>3. /\ pc' = [pc EXCEPT ![r] = Outcome(kind, rep, key)]
      /\ job' = [job EXCEPT ![r] = [kind |-> kind, rep |-> rep, quantity |-> quantity, key |-> key]]
      /\ UNCHANGED <<read, locked, exclusive, shared, custody, cost, unitCost, account>>
  BY DEF Begin
<1>4. \A q \in Requests : pc'[q] = IF q = r THEN Outcome(kind, rep, key) ELSE pc[q]
  BY <1>1, <1>3 DEF TypeOK
<1>5. /\ \A q \in Requests \ {r} : job'[q] = job[q]
      /\ job'[r] = [kind |-> kind, rep |-> rep, quantity |-> quantity, key |-> key]
  BY <1>1, <1>3 DEF TypeOK
<1>6. quantity \in [Goods -> Nat]
  BY CustodyAssumption
<1>7. TypeOK'
  BY <1>1, <1>2, <1>3, <1>6 DEF TypeOK, Holders, Open
<1>8. \A p \in Places : read[r][p] = Unread
  BY <1>1 DEF CustodyInv, BegunOK
<1>9. BegunOK'
  BY <1>2, <1>3, <1>4, <1>5 DEF CustodyInv, BegunOK
<1>10. ReadOK' /\ HeldOK'
  BY <1>2, <1>3, <1>4, <1>5, <1>8, CustodyAssumption
  DEF CustodyInv, ReadOK, HeldOK, IsIssue, Open
<1>11. EnoughOK' /\ UniqueOK'
  BY <1>2, <1>3, <1>4, <1>5 DEF CustodyInv, EnoughOK, UniqueOK, IsIssue, Lines, Asked, Collide
<1>12. RowOK'
  <2>1. \A q \in Requests : pc[q] = "done" => pc'[q] = "done" /\ job'[q] = job[q]
    BY <1>1, <1>4, <1>5
  <2> QED BY <1>3, <2>1, AssignedStays DEF CustodyInv, RowOK
<1> QED BY <1>7, <1>9, <1>10, <1>11, <1>12 DEF CustodyInv

LEMMA CheckRepStep ==
  ASSUME CustodyInv, NEW r \in Requests, CheckRep(r), ~Assigned(job[r].rep)
  PROVE  CustodyInv'
<1>1. TypeOK /\ pc[r] = "open" /\ IsIssue(r)
  BY DEF CustodyInv, CheckRep
<1>2. /\ pc' = [pc EXCEPT ![r] = "checked"]
      /\ UNCHANGED <<job, read, locked, exclusive, shared, custody, cost, unitCost, account>>
  BY DEF CheckRep
<1>3. \A q \in Requests : pc'[q] = IF q = r THEN "checked" ELSE pc[q]
  BY <1>1, <1>2 DEF TypeOK
<1>4. TypeOK'
  BY <1>1, <1>2 DEF TypeOK, Holders, Open
<1>5. BegunOK' /\ ReadOK' /\ HeldOK'
  BY <1>1, <1>2, <1>3 DEF CustodyInv, BegunOK, ReadOK, HeldOK, IsIssue, Open
<1>6. EnoughOK' /\ UniqueOK'
  BY <1>2, <1>3 DEF CustodyInv, EnoughOK, UniqueOK, IsIssue, Lines, Asked, Collide
<1>7. RowOK'
  <2>1. \A q \in Requests : pc[q] = "done" => pc'[q] = "done" /\ job'[q] = job[q]
    BY <1>1, <1>2, <1>3
  <2> QED BY <1>2, <2>1, AssignedStays DEF CustodyInv, RowOK
<1> QED BY <1>4, <1>5, <1>6, <1>7 DEF CustodyInv

\* The locks of the assignment, which no other part of the invariant speaks of.
LEMMA AssignmentLockStep ==
  ASSUME CustodyInv, NEW r \in Requests, LockAssignment(r) \/ ShareAssignment(r)
  PROVE  CustodyInv'
<1>1. UNCHANGED <<pc, job, read, locked, custody, cost, unitCost, account>>
  BY DEF LockAssignment, ShareAssignment
<1>2. TypeOK'
  <2>1. TypeOK /\ job[r].rep \in Reps
    BY DEF CustodyInv, BegunOK, LockAssignment, ShareAssignment
  <2>2. exclusive' \in [Reps -> Holders]
    BY <2>1 DEF TypeOK, Holders, LockAssignment, ShareAssignment
  <2>3. shared' \in [Reps -> SUBSET Requests]
    <3>1. CASE ShareAssignment(r)
      <4>1. shared[job[r].rep] \cup {r} \in SUBSET Requests
        BY <2>1 DEF TypeOK
      <4> QED BY <2>1, <3>1, <4>1 DEF TypeOK, ShareAssignment
    <3>2. CASE LockAssignment(r)
      BY <2>1, <3>2 DEF TypeOK, LockAssignment
    <3> QED BY <3>1, <3>2
  <2> QED BY <1>1, <2>1, <2>2, <2>3 DEF TypeOK
<1>3. BegunOK' /\ ReadOK' /\ HeldOK' /\ EnoughOK' /\ UniqueOK'
  BY <1>1 DEF CustodyInv, BegunOK, ReadOK, HeldOK, EnoughOK, UniqueOK, IsIssue, Lines, Asked, Collide
<1>4. RowOK'
  BY <1>1, AssignedStays DEF CustodyInv, RowOK
<1> QED BY <1>2, <1>3, <1>4 DEF CustodyInv

\* A sale or a write-off reads a row and, if there is one, holds it.
LEMMA LockRowStep ==
  ASSUME CustodyInv, NEW r \in Requests, NEW p \in Places, LockRow(r, p)
  PROVE  CustodyInv'
<1>1. TypeOK /\ pc[r] = "open" /\ ~IsIssue(r) /\ read[r][p] = Unread /\ locked[p] = None
  BY DEF CustodyInv, LockRow, ToLock
<1>2. /\ locked' = IF custody[p] = None THEN locked ELSE [locked EXCEPT ![p] = r]
      /\ read' = [read EXCEPT ![r][p] = Quantity(custody[p])]
      /\ UNCHANGED <<pc, job, exclusive, shared, custody, cost, unitCost, account>>
  BY DEF LockRow, RowLock
<1>3. Quantity(custody[p]) = (IF custody[p] = None THEN 0 ELSE custody[p]) /\ Quantity(custody[p]) \in Nat
  BY <1>1, CustodyAssumption DEF TypeOK, Quantity
<1>4. \A q \in Requests, s \in Places :
        read'[q][s] = IF q = r /\ s = p THEN Quantity(custody[p]) ELSE read[q][s]
  BY <1>1, <1>2 DEF TypeOK
<1>5. TypeOK'
  BY <1>1, <1>2, <1>3 DEF TypeOK, Holders
<1>6. BegunOK' /\ ReadOK'
  BY <1>1, <1>2, <1>3, <1>4 DEF CustodyInv, BegunOK, ReadOK, IsIssue
<1>7. HeldOK'
  <2> SUFFICES ASSUME NEW q \in Requests, NEW s \in Places,
                      pc[q] \in Open, ~IsIssue(q), read'[q][s] \in Nat \ {0}
               PROVE  locked'[s] = q /\ custody[s] = read'[q][s]
    BY <1>2 DEF HeldOK, IsIssue
  <2>1. CASE q = r /\ s = p
    BY <1>1, <1>2, <1>3, <1>4, <2>1 DEF TypeOK
  <2>2. CASE q # r \/ s # p
    <3>1. read'[q][s] = read[q][s]
      BY <1>4, <2>2
    <3>2. locked[s] = q /\ custody[s] = read[q][s]
      BY <3>1 DEF CustodyInv, HeldOK
    <3>3. s # p
      BY <1>1, <3>2, CustodyAssumption
    <3> QED BY <1>1, <1>2, <3>1, <3>2, <3>3 DEF TypeOK
  <2> QED BY <2>1, <2>2
<1>8. EnoughOK' /\ UniqueOK'
  BY <1>1, <1>2, <1>4 DEF CustodyInv, EnoughOK, UniqueOK, IsIssue, Lines, Asked, Collide
<1>9. RowOK'
  BY <1>2, AssignedStays DEF CustodyInv, RowOK
<1> QED BY <1>5, <1>6, <1>7, <1>8, <1>9 DEF CustodyInv

\* An issue reads a row that is not there.
LEMMA ReadCustodyStep ==
  ASSUME CustodyInv, NEW r \in Requests, NEW p \in Places, ReadCustody(r, p)
  PROVE  CustodyInv'
<1>1. TypeOK /\ pc[r] = "entered" /\ IsIssue(r)
  BY DEF CustodyInv, ReadCustody
<1>2. custody[p] = None
  BY <1>1, NoRow DEF ReadCustody
<1>3. /\ read' = [read EXCEPT ![r][p] = None]
      /\ UNCHANGED <<pc, job, locked, exclusive, shared, custody, cost, unitCost, account>>
  BY <1>2 DEF ReadCustody
<1>4. \A q \in Requests, s \in Places :
        read'[q][s] = IF q = r /\ s = p THEN None ELSE read[q][s]
  BY <1>1, <1>3 DEF TypeOK
<1>5. TypeOK'
  BY <1>1, <1>3 DEF TypeOK, Holders
<1>6. BegunOK' /\ ReadOK' /\ HeldOK' /\ EnoughOK' /\ UniqueOK'
  BY <1>1, <1>3, <1>4
  DEF CustodyInv, BegunOK, ReadOK, HeldOK, EnoughOK, UniqueOK, IsIssue, Lines, Asked, Collide
<1>7. RowOK'
  BY <1>3, AssignedStays DEF CustodyInv, RowOK
<1> QED BY <1>5, <1>6, <1>7 DEF CustodyInv

\* The INSERT that the unique indexes let through.
LEMMA EnterStep ==
  ASSUME CustodyInv, NEW r \in Requests, Enter(r)
  PROVE  CustodyInv'
<1>1. TypeOK /\ pc[r] \in {"open", "checked"} /\ (IsIssue(r) => pc[r] = "checked")
  BY DEF CustodyInv, Enter, ToEnter
<1>2. /\ pc' = [pc EXCEPT ![r] = "entered"]
      /\ UNCHANGED <<job, read, locked, exclusive, shared, custody, cost, unitCost, account>>
  BY DEF Enter
<1>3. \A q \in Requests : pc'[q] = IF q = r THEN "entered" ELSE pc[q]
  BY <1>1, <1>2 DEF TypeOK
<1>4. TypeOK'
  BY <1>1, <1>2 DEF TypeOK, Holders, Open
<1>5. BegunOK' /\ ReadOK'
  BY <1>1, <1>2, <1>3 DEF CustodyInv, BegunOK, ReadOK, IsIssue
<1>6. HeldOK'
  BY <1>1, <1>2, <1>3 DEF CustodyInv, HeldOK, IsIssue, Open
<1>7. EnoughOK'
  <2>1. ~IsIssue(r) => \A p \in Lines(r) : read[r][p] \in Nat /\ read[r][p] >= Asked(r, p)
    <3> SUFFICES ASSUME ~IsIssue(r), NEW p \in Lines(r)
                 PROVE  read[r][p] \in Nat /\ read[r][p] >= Asked(r, p)
      OBVIOUS
    <3>1. read[r][p] # Unread /\ ~(read[r][p] < Asked(r, p)) /\ p \in Places
      BY DEF Enter, ToEnter, AllRead, Short, Lines
    <3>2. read[r][p] # None
      BY <3>1, CustodyAssumption DEF CustodyInv, ReadOK
    <3>3. read[r][p] \in Nat /\ Asked(r, p) \in Nat
      BY <1>1, <3>1, <3>2 DEF TypeOK, Asked, Places
    <3> QED BY <3>1, <3>3
  <2> QED BY <1>2, <1>3, <2>1 DEF CustodyInv, EnoughOK, IsIssue, Lines, Asked
<1>8. UniqueOK'
  <2>1. \A q \in Requests \ {r} : pc[q] \in {"entered", "done"} => ~Collide(q, r) /\ ~Collide(r, q)
    BY DEF Enter, InTheWay, Duplicate, Collide
  <2>2. \A q, s \in Requests : Collide(q, s)' <=> Collide(q, s)
    BY <1>2 DEF Collide, IsIssue
  <2> QED BY <1>3, <2>1, <2>2 DEF CustodyInv, UniqueOK
<1>9. RowOK'
  <2>1. \A q \in Requests : pc[q] = "done" => pc'[q] = "done" /\ job'[q] = job[q]
    BY <1>1, <1>2, <1>3
  <2> QED BY <1>2, <2>1, AssignedStays DEF CustodyInv, RowOK
<1> QED BY <1>4, <1>5, <1>6, <1>7, <1>8, <1>9 DEF CustodyInv

----------------------------------------------------------------------------
(* COMMIT *)

\* A place of a request's lines is its representative's, for a positive quantity.
LEMMA LineFacts ==
  ASSUME CustodyInv, NEW r \in Requests, NEW p \in Places
  PROVE  /\ Asked(r, p) \in Nat /\ (p \notin Lines(r) => Asked(r, p) = 0)
         /\ p \in Lines(r) => Asked(r, p) > 0 /\ p[1] = job[r].rep
<1>1. job[r].quantity[p[2]] \in Nat
  BY DEF CustodyInv, TypeOK, Places
<1>2. Asked(r, p) \in Nat
  BY <1>1 DEF Asked
<1> QED BY <1>2 DEF Lines, Asked

\* What a request finds at COMMIT: an issue no row, a sale or a write-off the rows
\* it holds, as it read them and with enough in them.
LEMMA FoundAtCommit ==
  ASSUME CustodyInv, NEW r \in Requests, Commit(r), NEW p \in Places, p \in Lines(r)
  PROVE  IF IsIssue(r)
         THEN custody[p] = None /\ unitCost[p] = None /\ account[p] = 0 /\ Quantity(read[r][p]) = 0
         ELSE /\ custody[p] = read[r][p] /\ Quantity(read[r][p]) = read[r][p]
              /\ locked[p] = r /\ custody[p] \in Nat /\ custody[p] >= Asked(r, p)
              /\ unitCost[p] \in Nat
<1>1. pc[r] = "entered" /\ read[r][p] # Unread
  BY DEF Commit, AllRead
<1>2. CASE IsIssue(r)
  <2>1. read[r][p] = None
    BY <1>1, <1>2 DEF CustodyInv, ReadOK
  <2> QED BY <1>1, <1>2, <2>1, NoRow DEF Quantity
<1>3. CASE ~IsIssue(r)
  <2>1. read[r][p] \in Nat /\ read[r][p] >= Asked(r, p)
    BY <1>1, <1>3 DEF CustodyInv, EnoughOK
  <2>2. read[r][p] \in Nat \ {0}
    BY <2>1, LineFacts
  <2>3. locked[p] = r /\ custody[p] = read[r][p]
    BY <1>1, <1>3, <2>2 DEF CustodyInv, HeldOK, Open
  <2>4. unitCost[p] \in Nat
    BY <2>1, <2>3, CustodyAssumption DEF CustodyInv, RowOK, TypeOK
  <2> QED BY <1>3, <2>1, <2>3, <2>4, CustodyAssumption DEF Quantity
<1> QED BY <1>2, <1>3

\* A commit moves what is committed by its own movements, and takes away no row.
LEMMA CommitMoves ==
  ASSUME CustodyInv, NEW r \in Requests, Commit(r), NEW p \in Places
  PROVE  /\ Moved(r, p) \in Int
         /\ custody'[p] \in Nat \cup {None}
         /\ Quantity(custody'[p]) = Quantity(custody[p]) + Moved(r, p)
         /\ custody'[p] = None <=> custody[p] = None /\ p \notin Lines(r)
<1>1. custody'[p] = IF p \in Lines(r) THEN Quantity(read[r][p]) + Moved(r, p) ELSE custody[p]
  BY DEF Commit
<1>2. custody[p] \in Nat \cup {None}
  BY DEF CustodyInv, TypeOK
<1>3. Moved(r, p) \in Int /\ (p \notin Lines(r) => Moved(r, p) = 0)
  BY LineFacts DEF Moved
<1>4. CASE p \notin Lines(r)
  BY <1>1, <1>2, <1>3, <1>4, CustodyAssumption DEF Quantity
<1>5. CASE p \in Lines(r) /\ IsIssue(r)
  <2>1. Quantity(read[r][p]) = 0 /\ custody[p] = None /\ Moved(r, p) = Asked(r, p)
    BY <1>5, FoundAtCommit DEF Moved
  <2>2. custody'[p] = Asked(r, p) /\ Asked(r, p) \in Nat
    BY <1>1, <1>5, <2>1, LineFacts
  <2> QED BY <1>3, <1>5, <2>1, <2>2, CustodyAssumption DEF Quantity
<1>6. CASE p \in Lines(r) /\ ~IsIssue(r)
  <2>1. /\ custody[p] \in Nat /\ Quantity(read[r][p]) = custody[p] /\ custody[p] >= Asked(r, p)
        /\ Moved(r, p) = -Asked(r, p) /\ Asked(r, p) \in Nat
    BY <1>6, FoundAtCommit, LineFacts DEF Moved
  <2>2. custody'[p] = custody[p] - Asked(r, p) /\ custody'[p] \in Nat
    BY <1>1, <1>6, <2>1
  <2> QED BY <1>6, <2>1, <2>2, CustodyAssumption DEF Quantity
<1> QED BY <1>4, <1>5, <1>6

\* The cost of a line is the floor of unit cost times quantity.
LEMMA LineCostFacts ==
  ASSUME CustodyInv, NEW r \in Requests, Commit(r), NEW p \in Places, p \in Lines(r)
  PROVE  /\ CostAtIssue(r, p) \in Nat
         /\ LineCost(r, p) \in Nat
         /\ OnAccount(r, p) = IF IsIssue(r) THEN LineCost(r, p) ELSE -LineCost(r, p)
         /\ CostAtIssue(r, p) * Asked(r, p) - MoneyScale * LineCost(r, p) \in 0 .. MoneyScale - 1
<1>1. CostAtIssue(r, p) \in Nat
  <2>1. cost[p[2]] \in Nat
    BY DEF CustodyInv, TypeOK, Places
  <2> QED BY <2>1, FoundAtCommit DEF CostAtIssue
<1> DEFINE total == CostAtIssue(r, p) * Asked(r, p)
<1>2. total \in Nat
  BY <1>1, LineFacts
<1>3. LineCost(r, p) = total \div MoneyScale
  BY DEF LineCost
<1> HIDE DEF total
<1>4. /\ LineCost(r, p) \in Nat
      /\ total = MoneyScale * LineCost(r, p) + (total % MoneyScale)
      /\ total % MoneyScale \in 0 .. MoneyScale - 1
  <2>1. MoneyScale \in Nat \ {0}
    BY MoneyScaleAssumption
  <2> QED BY <1>2, <1>3, <2>1, DivFacts
<1>5. MoneyScale * LineCost(r, p) \in Nat
  BY <1>4, MoneyScaleAssumption
<1>6. total - MoneyScale * LineCost(r, p) \in 0 .. MoneyScale - 1
  BY <1>2, <1>4, <1>5, MoneyScaleAssumption
<1> QED BY <1>1, <1>4, <1>6 DEF total, OnAccount

LEMMA CommitStep ==
  ASSUME CustodyInv, NEW r \in Requests, Commit(r)
  PROVE  CustodyInv'
<1>1. TypeOK /\ pc[r] = "entered"
  BY DEF CustodyInv, Commit
<1>2. /\ pc' = [pc EXCEPT ![r] = "done"]
      /\ UNCHANGED <<job, read, cost>>
  BY DEF Commit
<1>3. \A q \in Requests : pc'[q] = IF q = r THEN "done" ELSE pc[q]
  BY <1>1, <1>2 DEF TypeOK
<1>4. \A p \in Places :
        /\ unitCost'[p] = IF IsIssue(r) /\ p \in Lines(r) THEN cost[p[2]] ELSE unitCost[p]
        /\ account'[p] = IF p \in Lines(r) THEN account[p] + OnAccount(r, p) ELSE account[p]
  BY DEF Commit
<1>5. TypeOK'
  <2>1. custody' \in [Places -> Nat \cup {None}]
    BY CommitMoves DEF Commit
  <2>2. unitCost' \in [Places -> Nat \cup {None}]
    <3>1. \A p \in Places : unitCost'[p] \in Nat \cup {None}
      BY <1>1, <1>4 DEF TypeOK, Places
    <3> QED BY <3>1 DEF Commit
  <2>3. account' \in [Places -> Int]
    <3>1. \A p \in Places : account[p] \in Int /\ (p \in Lines(r) => OnAccount(r, p) \in Int)
      BY <1>1, LineCostFacts DEF TypeOK
    <3>2. \A p \in Places : account'[p] \in Int
      BY <1>4, <3>1
    <3> QED BY <3>2 DEF Commit
  <2> QED BY <1>1, <1>2, <2>1, <2>2, <2>3, ReleaseFacts DEF Commit, TypeOK, Holders, Open
<1>6. BegunOK' /\ ReadOK'
  BY <1>1, <1>2, <1>3 DEF CustodyInv, BegunOK, ReadOK, IsIssue
<1>7. HeldOK'
  <2> SUFFICES ASSUME NEW q \in Requests, NEW p \in Places,
                      pc'[q] \in Open, ~IsIssue(q), read[q][p] \in Nat \ {0}
               PROVE  locked'[p] = q /\ custody'[p] = read[q][p]
    BY <1>2 DEF HeldOK, IsIssue, Open
  <2>1. q # r /\ locked[p] = q /\ custody[p] = read[q][p]
    BY <1>3 DEF CustodyInv, HeldOK, Open
  <2>2. p \notin Lines(r)
    BY <2>1, FoundAtCommit, CustodyAssumption
  <2>3. custody'[p] = custody[p] /\ locked'[p] = q
    BY <1>1, <2>1, <2>2, ReleaseFacts DEF Commit
  <2> QED BY <2>1, <2>3
<1>8. EnoughOK' /\ UniqueOK'
  BY <1>1, <1>2, <1>3 DEF CustodyInv, EnoughOK, UniqueOK, IsIssue, Lines, Asked, Collide
<1>9. RowOK'
  <2> SUFFICES ASSUME NEW p \in Places
               PROVE  /\ custody'[p] = None <=> unitCost'[p] = None
                      /\ custody'[p] # None => Assigned(p[1])'
                      /\ unitCost'[p] = None => account'[p] = 0
    BY DEF RowOK
  <2>1. custody'[p] = None <=> custody[p] = None /\ p \notin Lines(r)
    BY CommitMoves
  <2>2. custody[p] # None => Assigned(p[1])'
    <3>1. \A q \in Requests : pc[q] = "done" => pc'[q] = "done" /\ job'[q] = job[q]
      BY <1>2, <1>3
    <3> QED BY <3>1, AssignedStays DEF CustodyInv, RowOK
  <2>3. CASE p \notin Lines(r)
    BY <1>4, <2>1, <2>2, <2>3 DEF CustodyInv, RowOK
  <2>4. CASE p \in Lines(r) /\ ~IsIssue(r)
    BY <1>4, <2>1, <2>2, <2>4, FoundAtCommit, CustodyAssumption
  <2>5. CASE p \in Lines(r) /\ IsIssue(r)
    <3>1. unitCost'[p] # None
      BY <1>1, <1>4, <2>5, CustodyAssumption DEF TypeOK, Places
    <3>2. Assigned(p[1])'
      <4>1. pc'[r] = "done" /\ job'[r].kind = "issue" /\ job'[r].rep = p[1]
        BY <1>2, <1>3, <2>5, LineFacts DEF IsIssue
      <4> QED BY <4>1 DEF Assigned, Done
    <3> QED BY <2>1, <2>5, <3>1, <3>2
  <2> QED BY <2>3, <2>4, <2>5
<1> QED BY <1>5, <1>6, <1>7, <1>8, <1>9 DEF CustodyInv

----------------------------------------------------------------------------
\* Purchases only change what an issue would cost.
LEMMA ReceiveStep ==
  ASSUME CustodyInv, NEW g \in Goods, ReceivePurchase(g)
  PROVE  CustodyInv'
<1>1. UNCHANGED <<pc, job, read, locked, exclusive, shared, custody, unitCost, account>>
  BY DEF ReceivePurchase
<1>2. cost' \in [Goods -> Nat]
  BY CustodyAssumption DEF ReceivePurchase, CustodyInv, TypeOK
<1>3. TypeOK'
  BY <1>1, <1>2 DEF CustodyInv, TypeOK, Holders
<1>4. BegunOK' /\ ReadOK' /\ HeldOK' /\ EnoughOK' /\ UniqueOK'
  BY <1>1 DEF CustodyInv, BegunOK, ReadOK, HeldOK, EnoughOK, UniqueOK, IsIssue, Lines, Asked, Collide
<1>5. RowOK'
  BY <1>1, AssignedStays DEF CustodyInv, RowOK
<1> QED BY <1>3, <1>4, <1>5 DEF CustodyInv

LEMMA NextStep == CustodyInv /\ [Next]_vars => CustodyInv'
<1> SUFFICES ASSUME CustodyInv, [Next]_vars PROVE CustodyInv'
  OBVIOUS
<1>1. CASE UNCHANGED vars
  <2>1. TypeOK' /\ BegunOK' /\ ReadOK' /\ HeldOK' /\ EnoughOK' /\ UniqueOK'
    BY <1>1 DEF CustodyInv, TypeOK, Holders, BegunOK, ReadOK, HeldOK, EnoughOK, UniqueOK,
                IsIssue, Lines, Asked, Collide, vars
  <2>2. RowOK'
    BY <1>1, AssignedStays DEF CustodyInv, RowOK, vars
  <2> QED BY <2>1, <2>2 DEF CustodyInv
<1>2. ASSUME NEW r \in Requests, Start(r) PROVE CustodyInv'
  BY <1>2, BeginStep DEF Start
<1>3. ASSUME NEW r \in Requests, Work(r) PROVE CustodyInv'
  <2>1. CASE CheckRep(r)
    <3>1. CASE Assigned(job[r].rep)
      BY <2>1, <3>1, FailStep DEF CheckRep, Open
    <3>2. CASE ~Assigned(job[r].rep)
      BY <2>1, <3>2, CheckRepStep
    <3> QED BY <3>1, <3>2
  <2>2. CASE LockAssignment(r) \/ ShareAssignment(r)
    BY <2>2, AssignmentLockStep
  <2>3. ASSUME NEW p \in Places, LockRow(r, p) PROVE CustodyInv'
    BY <2>3, LockRowStep
  <2>4. ASSUME NEW p \in Places, ReadCustody(r, p) PROVE CustodyInv'
    BY <2>4, ReadCustodyStep
  <2>5. CASE Enter(r)
    BY <2>5, EnterStep
  <2>6. CASE Commit(r)
    BY <2>6, CommitStep
  <2>7. CASE Reject(r) \/ Abort(r)
    <3>1. pc[r] \in Open /\ Fail(r)
      BY <2>7 DEF Reject, Abort, ToEnter, Open
    <3> QED BY <3>1, FailStep
  <2> QED BY <1>3, <2>1, <2>2, <2>3, <2>4, <2>5, <2>6, <2>7 DEF Work
<1>4. ASSUME NEW g \in Goods, ReceivePurchase(g) PROVE CustodyInv'
  BY <1>4, ReceiveStep
<1> QED BY <1>1, <1>2, <1>3, <1>4 DEF Next

\* The invariant of every behaviour: who holds which custody row, which of two
\* racing issues has entered, and where there are rows and costs at all.
THEOREM CustodyInvariant == Spec => []CustodyInv
  BY InitHolds, NextStep, PTL DEF Spec

\* Every variable keeps its type: a representative never holds less than nothing,
\* whatever is issued, sold and written off at once.
THEOREM TypeCorrect == Spec => []TypeOK
<1>1. CustodyInv => TypeOK
  BY DEF CustodyInv
<1> QED BY <1>1, CustodyInvariant, PTL

\* An Idempotency-Key has at most one effect, however its requests race.
THEOREM KeysHaveOneEffect == Spec => []OneEffectPerKey
<1>1. CustodyInv => OneEffectPerKey
  BY DEF CustodyInv, UniqueOK, OneEffectPerKey, Collide
<1> QED BY <1>1, CustodyInvariant, PTL

----------------------------------------------------------------------------
(* The refinement: a commit posts, every other step stutters. *)

Balance == [p \in Places |-> Quantity(custody[p])]
Posted == {r \in Requests : pc[r] = "done"}
Movements ==
  [r \in Requests |-> [p \in Places |-> IF pc[r] = "done" THEN Moved(r, p) ELSE 0]]
ledgerVars == <<Balance, Posted, Movements>>

LEMMA InitMaps == Init => Ledger!Init
<1> SUFFICES ASSUME Init PROVE Ledger!Init
  OBVIOUS
<1>1. Balance = [p \in Places |-> 0]
  BY DEF Init, Balance, Quantity
<1>2. Posted = {} /\ Movements = [r \in Requests |-> [p \in Places |-> 0]]
  BY DEF Init, Posted, Movements
<1> QED BY <1>1, <1>2 DEF Ledger!Init, Balance, Posted, Movements

\* A step that changes no row and commits nothing leaves the ledger alone.
LEMMA SilentStep ==
  ASSUME UNCHANGED custody,
         \A r \in Requests : /\ pc'[r] = "done" <=> pc[r] = "done"
                             /\ pc[r] = "done" => job'[r] = job[r]
  PROVE  UNCHANGED ledgerVars
<1>1. Balance' = Balance /\ Posted' = Posted
  BY DEF Balance, Posted, Quantity
<1>2. \A r \in Requests, p \in Places : pc[r] = "done" => Moved(r, p)' = Moved(r, p)
  BY DEF Moved, Asked, IsIssue
<1>3. Movements' = Movements
  BY <1>2 DEF Movements
<1> QED BY <1>1, <1>3 DEF ledgerVars

LEMMA CommitPosts ==
  ASSUME CustodyInv, CustodyInv', NEW r \in Requests, Commit(r)
  PROVE  Ledger!Next
<1>1. TypeOK /\ TypeOK' /\ pc[r] = "entered"
  BY DEF CustodyInv, Commit
<1>2. job' = job /\ \A q \in Requests : pc'[q] = IF q = r THEN "done" ELSE pc[q]
  BY <1>1 DEF Commit, TypeOK
<1>3. r \notin Posted /\ Posted' = Posted \cup {r}
  BY <1>1, <1>2 DEF Posted
<1>4. \A q \in Requests, p \in Places : Moved(q, p)' = Moved(q, p) /\ Moved(q, p) \in Int
  BY <1>2, LineFacts DEF Moved, Asked, IsIssue
<1>5. Movements' \in [Requests -> [Places -> Int]]
  BY <1>4 DEF Movements
<1>6. \A q \in Requests \ {r} : Movements'[q] = Movements[q]
  BY <1>2, <1>4 DEF Movements
<1>7. \A p \in Places : Movements'[r][p] = Moved(r, p)
  BY <1>2, <1>4 DEF Movements
<1>8. Balance' = [p \in Places |-> Balance[p] + Movements'[r][p]]
  BY <1>7, CommitMoves DEF Balance
<1>9. \A p \in Places : Balance'[p] >= 0
  BY <1>1, CustodyAssumption DEF Balance, TypeOK, Quantity
<1> QED BY <1>3, <1>5, <1>6, <1>8, <1>9
        DEF Ledger!Next, Ledger!Post, Balance, Posted, Movements

LEMMA StepMaps ==
  ASSUME CustodyInv, CustodyInv', [Next]_vars
  PROVE  [Ledger!Next]_ledgerVars
<1>1. TypeOK
  BY DEF CustodyInv
<1>2. CASE UNCHANGED vars
  BY <1>2, SilentStep DEF vars
<1>3. ASSUME NEW r \in Requests, Start(r) PROVE UNCHANGED ledgerVars
  <2>1. PICK kind \in Kinds, rep \in Reps, quantity \in Orders, key \in Keys :
          Begin(r, kind, rep, quantity, key)
    BY <1>3 DEF Start
  <2>2. Outcome(kind, rep, key) # "done"
    BY DEF Outcome
  <2>3. /\ pc[r] = "idle" /\ UNCHANGED custody
        /\ \A q \in Requests : /\ pc'[q] = IF q = r THEN Outcome(kind, rep, key) ELSE pc[q]
                               /\ q # r => job'[q] = job[q]
    BY <1>1, <2>1 DEF TypeOK, Begin
  <2> QED BY <2>2, <2>3, SilentStep
<1>4. ASSUME NEW r \in Requests, Work(r) PROVE [Ledger!Next]_ledgerVars
  <2>1. CASE Fail(r) /\ pc[r] \in Open
    <3>1. /\ UNCHANGED <<job, custody>>
          /\ \A q \in Requests : pc'[q] = IF q = r THEN "failed" ELSE pc[q]
      BY <1>1, <2>1 DEF Fail, TypeOK
    <3> QED BY <2>1, <3>1, SilentStep DEF Open
  <2>2. CASE Commit(r)
    BY <2>2, CommitPosts
  <2>3. CASE Enter(r) \/ (CheckRep(r) /\ ~Assigned(job[r].rep))
    <3>1. /\ UNCHANGED <<job, custody>> /\ pc[r] \in Open
          /\ \E to \in {"entered", "checked"} : pc' = [pc EXCEPT ![r] = to]
      BY <2>3 DEF Enter, ToEnter, CheckRep, Open
    <3>2. \A q \in Requests : pc'[q] = "done" <=> pc[q] = "done"
      BY <1>1, <3>1 DEF TypeOK, Open
    <3> QED BY <3>1, <3>2, SilentStep
  <2>4. CASE LockAssignment(r) \/ ShareAssignment(r)
             \/ \E p \in Places : LockRow(r, p) \/ ReadCustody(r, p)
    BY <2>4, SilentStep DEF LockAssignment, ShareAssignment, LockRow, ReadCustody
  <2>5. CASE Reject(r) \/ Abort(r)
    BY <2>1, <2>5 DEF Reject, Abort, ToEnter, Open
  <2>6. CASE CheckRep(r) /\ Assigned(job[r].rep)
    BY <2>1, <2>6 DEF CheckRep, Open
  <2> QED BY <1>4, <2>2, <2>3, <2>4, <2>5, <2>6 DEF Work
<1>5. ASSUME NEW g \in Goods, ReceivePurchase(g) PROVE UNCHANGED ledgerVars
  BY <1>5, SilentStep DEF ReceivePurchase
<1> QED BY <1>2, <1>3, <1>4, <1>5 DEF Next

\* Custody is the sum of its movements: an issue that adds to what it read without a
\* lock, and sales and write-offs that race, each move the committed balance by
\* exactly what they say.
THEOREM CustodyIsALedger == Spec => LedgerSpec
<1>1. Init => Ledger!Init
  BY InitMaps
<1>2. CustodyInv /\ CustodyInv' /\ [Next]_vars => [Ledger!Next]_ledgerVars
  BY StepMaps
<1>3. [][Ledger!Next]_ledgerVars <=> [][Ledger!Next]_<<Balance, Posted, Movements>>
  BY DEF ledgerVars
<1> QED BY <1>1, <1>2, <1>3, CustodyInvariant, PTL
        DEF Spec, LedgerSpec, Ledger!Spec, ledgerVars, Balance, Posted, Movements

----------------------------------------------------------------------------
(* Account 1250: each sale and write-off lets the account drift from what  *)
(* is held by less than one unit, downwards.                               *)

LEMMA Drift ==
  ASSUME NEW u \in Nat, NEW c \in Nat, NEW a \in Nat, NEW balance \in Int, NEW l \in Nat,
         NEW m \in Nat
  PROVE  u * (c - a) - m * (balance - l) = (u * c - m * balance) - (u * a - m * l)
<1>1. u * (c - a) = u * c - u * a
  OBVIOUS
<1>2. m * (balance - l) = m * balance - m * l
  OBVIOUS
<1>3. /\ u * c \in Int /\ u * a \in Int /\ m * balance \in Int /\ m * l \in Int
  OBVIOUS
<1> QED BY <1>1, <1>2, <1>3

LEMMA DriftBound ==
  ASSUME NEW rounding \in Int, NEW m \in Nat \ {0}, NEW d \in 0 .. m - 1, NEW n \in Nat,
         rounding < m, rounding >= 0 \/ -rounding < m * n
  PROVE  /\ rounding - d < m
         /\ rounding - d >= 0 \/ -(rounding - d) < m * (n + 1)
<1>1. m * (n + 1) = m * n + m /\ m * n \in Nat
  OBVIOUS
<1> QED BY <1>1

\* A step that commits nothing leaves the account and what relieved it alone.
LEMMA CarryStays ==
  ASSUME AccountCarriesCustody, UNCHANGED <<custody, unitCost, account>>,
         \A r \in Requests : /\ pc'[r] = "done" <=> pc[r] = "done"
                             /\ pc[r] = "done" => job'[r] = job[r]
  PROVE  AccountCarriesCustody'
<1>1. \A p \in Places : Relieved(p)' = Relieved(p)
  BY DEF Relieved, IsIssue, Lines, Asked
<1> QED BY <1>1 DEF AccountCarriesCustody

LEMMA CommitCarries ==
  ASSUME CustodyInv, AccountCarriesCustody, NEW r \in Requests, Commit(r)
  PROVE  AccountCarriesCustody'
<1> SUFFICES ASSUME NEW p \in Places, unitCost'[p] # None
             PROVE  LET rounding == unitCost'[p] * custody'[p] - MoneyScale * account'[p] IN
                    /\ rounding < MoneyScale
                    /\ rounding >= 0 \/ -rounding < MoneyScale * Cardinality(Relieved(p)')
  BY DEF AccountCarriesCustody
<1>1. TypeOK /\ pc[r] = "entered" /\ UNCHANGED job
  BY DEF CustodyInv, Commit
<1>2. \A q \in Requests : pc'[q] = IF q = r THEN "done" ELSE pc[q]
  BY <1>1 DEF Commit, TypeOK
<1>3. /\ unitCost'[p] = IF IsIssue(r) /\ p \in Lines(r) THEN cost[p[2]] ELSE unitCost[p]
      /\ account'[p] = IF p \in Lines(r) THEN account[p] + OnAccount(r, p) ELSE account[p]
      /\ custody'[p] = IF p \in Lines(r) THEN Quantity(read[r][p]) + Moved(r, p) ELSE custody[p]
  BY DEF Commit
<1>4. Relieved(p)' = IF p \in Lines(r) /\ ~IsIssue(r) THEN Relieved(p) \cup {r} ELSE Relieved(p)
  BY <1>1, <1>2 DEF Relieved, IsIssue, Lines, Asked
<1>5. CASE p \notin Lines(r)
  BY <1>3, <1>4, <1>5 DEF AccountCarriesCustody
<1>6. CASE p \in Lines(r) /\ IsIssue(r)
  <2>1. account[p] = 0 /\ Quantity(read[r][p]) = 0
    BY <1>6, FoundAtCommit
  <2>2. /\ custody'[p] = Asked(r, p) /\ account'[p] = LineCost(r, p)
        /\ unitCost'[p] = CostAtIssue(r, p)
    BY <1>3, <1>6, <2>1, LineFacts, LineCostFacts DEF Moved, CostAtIssue
  <2> DEFINE rounding == unitCost'[p] * custody'[p] - MoneyScale * account'[p]
  <2>3. rounding \in 0 .. MoneyScale - 1
    BY <1>6, <2>2, LineCostFacts
  <2> QED BY <2>3, MoneyScaleAssumption
<1>7. CASE p \in Lines(r) /\ ~IsIssue(r)
  <2> DEFINE u == unitCost[p]
             c == custody[p]
             a == Asked(r, p)
             l == LineCost(r, p)
             rounding == u * c - MoneyScale * account[p]
             d == u * a - MoneyScale * l
             n == Cardinality(Relieved(p))
  <2>1. u \in Nat /\ c \in Nat /\ Quantity(read[r][p]) = c
    BY <1>7, FoundAtCommit
  <2>2. a \in Nat /\ l \in Nat /\ account[p] \in Int
    BY <1>1, <1>7, LineFacts, LineCostFacts DEF TypeOK
  <2>3. custody'[p] = c - a /\ account'[p] = account[p] - l /\ unitCost'[p] = u
    BY <1>3, <1>7, <2>1, <2>2, LineCostFacts DEF Moved
  <2>4. d \in 0 .. MoneyScale - 1
    BY <1>7, LineCostFacts DEF CostAtIssue
  <2>5. rounding < MoneyScale /\ (rounding >= 0 \/ -rounding < MoneyScale * n)
    BY <1>7, <2>1, CustodyAssumption DEF AccountCarriesCustody
  <2>6. n \in Nat /\ Cardinality(Relieved(p)') = n + 1
    <3>1. IsFiniteSet(Relieved(p))
      BY FS_Subset, CustodyAssumption DEF Relieved
    <3>2. r \notin Relieved(p)
      BY <1>1 DEF Relieved
    <3> QED BY <1>4, <1>7, <3>1, <3>2, FS_AddElement, FS_CardinalityType
  <2>7. rounding \in Int
    BY <2>1, <2>2, MoneyScaleAssumption
  <2>8. u * (c - a) - MoneyScale * (account[p] - l) = rounding - d
    BY <2>1, <2>2, MoneyScaleAssumption, Drift
  <2> HIDE DEF u, c, a, l, rounding, d, n
  <2>9. rounding - d < MoneyScale /\ (rounding - d >= 0 \/ -(rounding - d) < MoneyScale * (n + 1))
    BY <2>4, <2>5, <2>6, <2>7, MoneyScaleAssumption, DriftBound
  <2> QED BY <2>3, <2>6, <2>8, <2>9
<1> QED BY <1>5, <1>6, <1>7

LEMMA NextCarries ==
  ASSUME CustodyInv, AccountCarriesCustody, [Next]_vars
  PROVE  AccountCarriesCustody'
<1>1. TypeOK
  BY DEF CustodyInv
<1>2. CASE UNCHANGED vars
  BY <1>2, CarryStays DEF vars
<1>3. ASSUME NEW r \in Requests, Start(r) PROVE AccountCarriesCustody'
  <2>1. PICK kind \in Kinds, rep \in Reps, quantity \in Orders, key \in Keys :
          Begin(r, kind, rep, quantity, key)
    BY <1>3 DEF Start
  <2>2. Outcome(kind, rep, key) # "done"
    BY DEF Outcome
  <2>3. /\ pc[r] = "idle" /\ UNCHANGED <<custody, unitCost, account>>
        /\ \A q \in Requests : /\ pc'[q] = IF q = r THEN Outcome(kind, rep, key) ELSE pc[q]
                               /\ q # r => job'[q] = job[q]
    BY <1>1, <2>1 DEF TypeOK, Begin
  <2> QED BY <2>2, <2>3, CarryStays
<1>4. ASSUME NEW r \in Requests, Work(r) PROVE AccountCarriesCustody'
  <2>1. CASE Commit(r)
    BY <2>1, CommitCarries
  <2>2. CASE Work(r) /\ ~Commit(r)
    <3>1. /\ UNCHANGED <<job, custody, unitCost, account>>
          /\ pc[r] \in Open
          /\ pc' = pc \/ \E to \in {"checked", "entered", "failed"} : pc' = [pc EXCEPT ![r] = to]
      BY <2>2 DEF Work, CheckRep, LockAssignment, ShareAssignment, LockRow, ToLock, ReadCustody,
                  Enter, ToEnter, Reject, Abort, Fail, Open
    <3>2. \A q \in Requests : pc'[q] = "done" <=> pc[q] = "done"
      BY <1>1, <3>1 DEF TypeOK, Open
    <3> QED BY <3>1, <3>2, CarryStays
  <2> QED BY <1>4, <2>1, <2>2
<1>5. ASSUME NEW g \in Goods, ReceivePurchase(g) PROVE AccountCarriesCustody'
  BY <1>5, CarryStays DEF ReceivePurchase
<1> QED BY <1>2, <1>3, <1>4, <1>5 DEF Next

\* Account 1250 carries what representatives hold at issue cost, up to less than one
\* unit for the issue and for every sale and write-off, at any MoneyScale and cost.
THEOREM AccountFollowsCustody == Spec => []AccountCarriesCustody
<1>1. Init => AccountCarriesCustody
  BY DEF Init, AccountCarriesCustody
<1>2. CustodyInv /\ AccountCarriesCustody /\ [Next]_vars => AccountCarriesCustody'
  BY NextCarries
<1> QED BY <1>1, <1>2, CustodyInvariant, PTL DEF Spec
=============================================================================
