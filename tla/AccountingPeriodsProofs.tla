---------------------- MODULE AccountingPeriodsProofs ----------------------
(***************************************************************************)
(* Proofs about AccountingPeriods and Reports, for any requests, keys,     *)
(* days and lines.                                                         *)
(*                                                                         *)
(* The argument: a request that writes holds the tenant's advisory lock,   *)
(* so what it read of the periods is still true when it writes (PlanOK);   *)
(* a close therefore appends to the chain of closed periods, a reopening   *)
(* removes its last link, and a posting is dated outside every link.       *)
(*                                                                         *)
(* The sums: a closing journal carries the negated net of its period, and  *)
(* nothing is posted to the period as long as it is closed (BooksInv).     *)
(* What a balance sheet has read is still in the books, or they have moved *)
(* since; and in books that have not, the parts of a sheet add up unless a *)
(* period was reopened or a journal is dated before all that is closed     *)
(* (SheetInv).                                                             *)
(***************************************************************************)
EXTENDS Reports, ArithmeticProofs

\* Typing, and what the proofs need of the two variables TypeOK leaves open.
TypeInv ==
  /\ TypeOK
  /\ plan = [r \in Requests |-> plan[r]]
  /\ journal = [j \in Requests |-> journal[j]]

\* firstOpenAccountingDate: the day found is in no closed period, and every day
\* it stepped over is in one; that there is such a day at all is part of the claim.
LEMMA FirstOpenDayIsOpen ==
  ASSUME TypeInv, NEW day \in 0 .. LastDay + 1, NEW closed \in SUBSET Requests
  PROVE  LET first == FirstOpenDay(day, closed)
         IN  /\ first \in day .. LastDay + 1
             /\ \A p \in closed : first \notin DaysOf(p)
             /\ \A e \in day .. first - 1 : \E p \in closed : e \in DaysOf(p)
<1> DEFINE T == {d \in Nat : day <= d /\ \A p \in closed : d \notin DaysOf(p)}
<1>1. LastDay \in Nat  BY PeriodAssumption
<1>2. LastDay + 1 \in T
  <2>1. \A p \in closed : period[p].end \in 0 .. LastDay  BY DEF TypeInv, TypeOK
  <2> QED BY <1>1, <2>1 DEF DaysOf
<1>3. PICK m \in T : \A n \in T : m <= n
  <2> HIDE DEF T
  <2>1. T \subseteq Nat  BY DEF T
  <2> QED BY <1>2, <2>1, LeastNumber
<1>4. /\ m \in day .. LastDay + 1
      /\ \A p \in closed : m \notin DaysOf(p)
  BY <1>1, <1>2, <1>3
<1>5. \A e \in day .. m - 1 : \E p \in closed : e \in DaysOf(p)
  BY <1>1, <1>3, <1>4
<1> QED BY <1>4, <1>5 DEF FirstOpenDay

\* Only the holder of the advisory lock is between its reads and its writes.
LockOK == \A r \in Requests : pc[r] = "locked" => advisory = r

\* What a request has read of the periods is still true while it holds the lock.
PlanOK == \A r \in Requests : pc[r] = "locked" =>
  /\ job[r].kind \in {"manual", "expense", "reverse"} => ~InClosedPeriod(plan[r].day)
  /\ job[r].kind = "close" =>
       /\ plan[r].day <= job[r].day
       /\ \A p \in Closed : period[p].end < plan[r].day
       /\ Closed # {} => \E p \in Closed : period[p].end + 1 = plan[r].day
  /\ job[r].kind = "reopen" => job[r].target \in Closed /\ LaterClosed(job[r].target) = {}

\* A request inserts its journal when it commits; only an expense's request posts
\* for an expense, and only journals of committed requests are reversed.
JournalOK == \A j \in Requests :
  /\ pc[j] # "done" => journal[j].type = "NONE"
  /\ job[j].kind = "expense" => journal[j].type \in {"NONE", "EXPENSE"}
  /\ journal[j].type = "REVERSAL" => pc[journal[j].original] = "done"

\* The target of a reversal is a committed expense.
ReverseOK == \A r \in Requests :
  pc[r] \in {"looked", "locked"} /\ job[r].kind = "reverse" =>
    /\ job[r].target \in Requests
    /\ pc[job[r].target] = "done" /\ job[job[r].target].kind = "expense"

\* A period was written by a committed request, and its closing journal is a
\* closing journal dated at its end.
ClosingOK == \A p \in Requests :
  /\ period[p].status # "NONE" => pc[p] = "done"
  /\ period[p].closing # None =>
       /\ pc[period[p].closing] = "done"
       /\ journal[period[p].closing].type = "ACCOUNTING_PERIOD_CLOSE"
       /\ journal[period[p].closing].day = period[p].end

\* The inductive invariant. A write relies on what was read (PlanOK), which stays
\* true because of the lock (LockOK).
IInv ==
  /\ TypeInv /\ LockOK /\ PlanOK /\ JournalOK /\ ReverseOK /\ ClosingOK
  /\ ClosedPeriodsDisjoint /\ ClosedPeriodsContiguous /\ ReopeningStaysInPeriod

\* The initial state satisfies the invariant.
LEMMA Initial == Init => IInv
<1> SUFFICES ASSUME Init PROVE IInv  OBVIOUS
<1>0. LastDay \in Nat /\ None \notin Requests  BY PeriodAssumption
<1>1. TypeInv
  <2>1. NoLines \in [Temporary -> Int]  BY DEF NoLines
  <2> QED BY <1>0, <2>1 DEF Init, TypeInv, TypeOK, NoJob, NoPlan, NoJournal, NoPeriod, JournalTypes
<1>2. Closed = {} /\ Posted = {}
  BY DEF Init, Closed, Posted, NoPeriod, NoJournal
<1>3. LockOK /\ PlanOK /\ ReverseOK  BY DEF Init, LockOK, PlanOK, ReverseOK
<1>4. JournalOK /\ ClosingOK
  BY DEF Init, JournalOK, ClosingOK, NoJournal, NoPeriod, NoJob
<1>5. ClosedPeriodsDisjoint /\ ClosedPeriodsContiguous /\ ReopeningStaysInPeriod
  BY <1>2 DEF ClosedPeriodsDisjoint, ClosedPeriodsContiguous, ReopeningStaysInPeriod
<1> QED BY <1>1, <1>3, <1>4, <1>5 DEF IInv

\* The type of what a request asks for.
JobType == [kind : Kinds \cup {"none"}, key : Keys \cup {None}, day : 0 .. LastDay,
            lines : [Temporary -> Int], target : Requests \cup {None}]

\* The condition of ReverseOK on one job.
ReverseReady(jb) ==
  /\ jb.target \in Requests
  /\ pc[jb.target] = "done" /\ job[jb.target].kind = "expense"

\* Definitions over the periods do not change while the periods do not.
LEMMA SamePeriods ==
  ASSUME period' = period
  PROVE  /\ Closed' = Closed
         /\ \A p : DaysOf(p)' = DaysOf(p)
         /\ \A p : LaterClosed(p)' = LaterClosed(p)
         /\ \A d : InClosedPeriod(d)' = InClosedPeriod(d)
BY DEF Closed, DaysOf, LaterClosed, InClosedPeriod

\* The same of the two invariants of the chain of periods.
LEMMA SameChain ==
  ASSUME period' = period, ClosedPeriodsDisjoint, ClosedPeriodsContiguous
  PROVE  (ClosedPeriodsDisjoint /\ ClosedPeriodsContiguous)'
BY DEF ClosedPeriodsDisjoint, ClosedPeriodsContiguous, Closed, DaysOf, InClosedPeriod

\* A step that ends a request, or sends it to wait for the lock, without writing.
LEMMA QuietStep ==
  ASSUME IInv, NEW r \in Requests, pc[r] # "done",
         NEW x \in {"looked", "done", "failed"}, NEW jb \in JobType,
         pc' = [pc EXCEPT ![r] = x],
         job' = [job EXCEPT ![r] = jb],
         answer' \in [Requests -> Requests \cup {None}],
         advisory' \in {advisory, IF advisory = r THEN None ELSE advisory},
         UNCHANGED <<plan, journal, period>>,
         x = "looked" /\ jb.kind = "reverse" => ReverseReady(jb)
  PROVE  IInv'
<1> USE DEF IInv
<1>0. /\ None \notin Requests
      /\ pc \in [Requests -> {"idle", "looked", "locked", "done", "failed"}]
      /\ job \in [Requests -> JobType]
      /\ advisory \in Requests \cup {None}
  BY PeriodAssumption DEF TypeInv, TypeOK, JobType
<1>1. TypeInv'
  <2>1. pc' \in [Requests -> {"idle", "looked", "locked", "done", "failed"}]  BY <1>0
  <2>2. job' \in [Requests -> JobType]  BY <1>0
  <2>3. advisory' \in Requests \cup {None}  BY <1>0
  <2> QED BY <2>1, <2>2, <2>3 DEF TypeInv, TypeOK, JobType
<1>2. LockOK'  BY <1>0 DEF LockOK
<1>3. PlanOK'
  <2> SUFFICES ASSUME NEW q \in Requests, pc'[q] = "locked"
               PROVE  /\ pc[q] = "locked" /\ job'[q] = job[q] /\ plan'[q] = plan[q]
    BY SamePeriods DEF PlanOK
  <2> QED BY <1>0
<1>4. JournalOK'
  <2> SUFFICES ASSUME NEW j \in Requests
               PROVE  /\ pc'[j] # "done" => journal[j].type = "NONE"
                      /\ job'[j].kind = "expense" => journal[j].type \in {"NONE", "EXPENSE"}
                      /\ journal[j].type = "REVERSAL" => pc'[journal[j].original] = "done"
    BY DEF JournalOK
  <2>1. journal[j].original \in Requests \cup {None}  BY DEF TypeInv, TypeOK
  <2>2. CASE j = r  BY <1>0, <2>1, <2>2 DEF JournalOK
  <2>3. CASE j # r
    <3>1. pc'[j] = pc[j] /\ job'[j] = job[j]  BY <1>0, <2>3
    <3>2. journal[j].type = "REVERSAL" => pc'[journal[j].original] = "done"
      BY <1>0, <2>1 DEF JournalOK
    <3> QED BY <3>1, <3>2 DEF JournalOK
  <2> QED BY <2>2, <2>3
<1>5. ReverseOK'
  <2> SUFFICES ASSUME NEW q \in Requests, pc'[q] \in {"looked", "locked"},
                      job'[q].kind = "reverse"
               PROVE  LET t == job'[q].target
                      IN  t \in Requests /\ pc'[t] = "done" /\ job'[t].kind = "expense"
    BY DEF ReverseOK
  <2> DEFINE t == job'[q].target
  <2>1. t \in Requests /\ pc[t] = "done" /\ job[t].kind = "expense"
    <3>1. CASE q = r  BY <1>0, <3>1 DEF ReverseReady
    <3>2. CASE q # r
      <4>1. pc'[q] = pc[q] /\ job'[q] = job[q]  BY <1>0, <3>2
      <4> QED BY <4>1 DEF ReverseOK
    <3> QED BY <3>1, <3>2
  <2>2. pc'[t] = "done" /\ job'[t] = job[t]  BY <1>0, <2>1
  <2> QED BY <2>1, <2>2
<1>6. ClosingOK'
  <2>1. \A p \in Requests : period[p].closing \in Requests \cup {None}  BY DEF TypeInv, TypeOK
  <2> QED BY <1>0, <2>1 DEF ClosingOK
<1>7. ClosedPeriodsDisjoint' /\ ClosedPeriodsContiguous'  BY SameChain
<1>8. ReopeningStaysInPeriod'
  BY DEF ReopeningStaysInPeriod, Posted, Reversals
<1> QED BY <1>1, <1>2, <1>3, <1>4, <1>5, <1>6, <1>7, <1>8

\* A step that takes the lock with a plan that is true when it does.
LEMMA LockStep ==
  ASSUME IInv, NEW r \in Requests, LockFree(r), pc[r] # "done",
         NEW jb \in JobType, NEW d \in 0 .. LastDay + 1,
         pc' = [pc EXCEPT ![r] = "locked"],
         job' = [job EXCEPT ![r] = jb],
         plan' = [q \in Requests |-> plan'[q]],
         plan'[r].day = d,
         \A q \in Requests \ {r} : plan'[q] = plan[q],
         advisory' = r,
         UNCHANGED <<answer, journal, period>>,
         jb.kind \in {"manual", "expense", "reverse"} => ~InClosedPeriod(d),
         jb.kind = "reverse" => ReverseReady(jb),
         jb.kind = "close" =>
           /\ d <= jb.day
           /\ \A p \in Closed : period[p].end < d
           /\ Closed # {} => \E p \in Closed : period[p].end + 1 = d,
         jb.kind = "reopen" => jb.target \in Closed /\ LaterClosed(jb.target) = {}
  PROVE  IInv'
<1> USE DEF IInv
<1>0. /\ None \notin Requests
      /\ pc \in [Requests -> {"idle", "looked", "locked", "done", "failed"}]
      /\ job \in [Requests -> JobType]
      /\ advisory = None
  BY PeriodAssumption DEF TypeInv, TypeOK, JobType, LockFree
<1>1. TypeInv'
  <2>1. pc' \in [Requests -> {"idle", "looked", "locked", "done", "failed"}]  BY <1>0
  <2>2. job' \in [Requests -> JobType]  BY <1>0
  <2>3. \A q \in Requests : plan'[q].day \in 0 .. LastDay + 1  BY DEF TypeInv, TypeOK
  <2> QED BY <2>1, <2>2, <2>3 DEF TypeInv, TypeOK, JobType
<1>2. \A q \in Requests : pc'[q] = "locked" => q = r  BY <1>0 DEF LockOK
<1>3. LockOK'  BY <1>2 DEF LockOK
<1>4. PlanOK'
  <2>1. job'[r] = jb  BY <1>0
  <2> SUFFICES
        /\ jb.kind \in {"manual", "expense", "reverse"} => ~InClosedPeriod(d)'
        /\ jb.kind = "close" =>
             /\ d <= jb.day
             /\ \A p \in Closed' : period'[p].end < d
             /\ Closed' # {} => \E p \in Closed' : period'[p].end + 1 = d
        /\ jb.kind = "reopen" => jb.target \in Closed' /\ LaterClosed(jb.target)' = {}
    BY <1>2, <2>1 DEF PlanOK, InClosedPeriod, Closed, DaysOf, LaterClosed
  <2> QED BY DEF InClosedPeriod, Closed, DaysOf, LaterClosed
<1>5. JournalOK'
  <2> SUFFICES ASSUME NEW j \in Requests
               PROVE  /\ pc'[j] # "done" => journal[j].type = "NONE"
                      /\ job'[j].kind = "expense" => journal[j].type \in {"NONE", "EXPENSE"}
                      /\ journal[j].type = "REVERSAL" => pc'[journal[j].original] = "done"
    BY DEF JournalOK
  <2>1. journal[j].original \in Requests \cup {None}  BY DEF TypeInv, TypeOK
  <2>2. CASE j = r  BY <1>0, <2>1, <2>2 DEF JournalOK
  <2>3. CASE j # r
    <3>1. pc'[j] = pc[j] /\ job'[j] = job[j]  BY <1>0, <2>3
    <3>2. journal[j].type = "REVERSAL" => pc'[journal[j].original] = "done"
      BY <1>0, <2>1 DEF JournalOK
    <3> QED BY <3>1, <3>2 DEF JournalOK
  <2> QED BY <2>2, <2>3
<1>6. ReverseOK'
  <2> SUFFICES ASSUME NEW q \in Requests, pc'[q] \in {"looked", "locked"},
                      job'[q].kind = "reverse"
               PROVE  LET t == job'[q].target
                      IN  t \in Requests /\ pc'[t] = "done" /\ job'[t].kind = "expense"
    BY DEF ReverseOK
  <2> DEFINE t == job'[q].target
  <2>1. t \in Requests /\ pc[t] = "done" /\ job[t].kind = "expense"
    <3>1. CASE q = r  BY <1>0, <3>1 DEF ReverseReady
    <3>2. CASE q # r
      <4>1. pc'[q] = pc[q] /\ job'[q] = job[q]  BY <1>0, <3>2
      <4> QED BY <4>1 DEF ReverseOK
    <3> QED BY <3>1, <3>2
  <2>2. pc'[t] = "done" /\ job'[t] = job[t]  BY <1>0, <2>1
  <2> QED BY <2>1, <2>2
<1>7. ClosingOK'
  <2>1. \A p \in Requests : period[p].closing \in Requests \cup {None}  BY DEF TypeInv, TypeOK
  <2> QED BY <1>0, <2>1 DEF ClosingOK
<1>8. ClosedPeriodsDisjoint' /\ ClosedPeriodsContiguous'  BY SameChain
<1>9. ReopeningStaysInPeriod'
  BY DEF ReopeningStaysInPeriod, Posted, Reversals
<1> QED BY <1>1, <1>3, <1>4, <1>5, <1>6, <1>7, <1>8, <1>9

\* The part of the invariant that every write restores in the same way.
WriteInv == TypeInv /\ LockOK /\ PlanOK /\ JournalOK /\ ReverseOK

\* A write commits the only request that held the lock, so no plan is left to keep.
LEMMA WriteStep ==
  ASSUME IInv, NEW r \in Requests, pc[r] = "locked",
         Finish(r, "done", r), UNCHANGED <<job, plan>>,
         period' \in [Requests -> [status : {"NONE", "OPEN", "CLOSED"},
                                   start : 0 .. LastDay + 1, end : 0 .. LastDay,
                                   closing : Requests \cup {None}]],
         \A p \in Requests : period'[p].start <= period'[p].end,
         journal' = [j \in Requests |-> journal'[j]],
         \A j \in Requests \ {r} : journal'[j] = journal[j],
         /\ journal'[r].type \in JournalTypes
         /\ journal'[r].day \in 0 .. LastDay + 1
         /\ journal'[r].original \in Requests \cup {None},
         job[r].kind = "expense" => journal'[r].type \in {"NONE", "EXPENSE"},
         journal'[r].type = "REVERSAL" => pc[journal'[r].original] = "done"
  PROVE  WriteInv'
<1> USE DEF IInv
<1>0. /\ None \notin Requests
      /\ pc \in [Requests -> {"idle", "looked", "locked", "done", "failed"}]
      /\ pc' = [pc EXCEPT ![r] = "done"]
      /\ advisory \in Requests \cup {None} /\ advisory = r
  BY PeriodAssumption DEF TypeInv, TypeOK, Finish, LockOK
<1>1. TypeInv'
  <2>1. pc' \in [Requests -> {"idle", "looked", "locked", "done", "failed"}]  BY <1>0
  <2>2. answer' \in [Requests -> Requests \cup {None}] /\ advisory' \in Requests \cup {None}
    BY DEF Finish, TypeInv, TypeOK
  <2>3. \A j \in Requests : /\ journal'[j].type \in JournalTypes
                            /\ journal'[j].day \in 0 .. LastDay + 1
                            /\ journal'[j].original \in Requests \cup {None}
    BY DEF TypeInv, TypeOK
  <2> QED BY <2>1, <2>2, <2>3 DEF TypeInv, TypeOK
<1>2. \A q \in Requests : pc'[q] # "locked"  BY <1>0 DEF LockOK
<1>3. LockOK' /\ PlanOK'  BY <1>2 DEF LockOK, PlanOK
<1>4. JournalOK'
  <2> SUFFICES ASSUME NEW j \in Requests
               PROVE  /\ pc'[j] # "done" => journal'[j].type = "NONE"
                      /\ job[j].kind = "expense" => journal'[j].type \in {"NONE", "EXPENSE"}
                      /\ journal'[j].type = "REVERSAL" => pc'[journal'[j].original] = "done"
    BY DEF JournalOK
  <2>1. journal[j].original \in Requests \cup {None}  BY DEF TypeInv, TypeOK
  <2>2. CASE j = r  BY <1>0, <2>2
  <2>3. CASE j # r
    <3>1. journal'[j] = journal[j] /\ pc'[j] = pc[j]  BY <1>0, <2>3
    <3>2. journal[j].type = "REVERSAL" => pc'[journal[j].original] = "done"
      BY <1>0, <2>1 DEF JournalOK
    <3> QED BY <3>1, <3>2 DEF JournalOK
  <2> QED BY <2>2, <2>3
<1>5. ReverseOK'  BY <1>0 DEF ReverseOK
<1> QED BY <1>1, <1>3, <1>4, <1>5 DEF WriteInv

\* A write of one journal that is not a closing journal.
LEMMA PostStep ==
  ASSUME IInv, NEW r \in Requests, pc[r] = "locked",
         NEW type \in {"MANUAL_ADJUSTMENT", "EXPENSE", "REVERSAL"},
         NEW day \in 0 .. LastDay + 1, NEW lines, NEW key,
         NEW original \in Requests \cup {None},
         Insert(r, type, day, lines, original, key),
         Finish(r, "done", r), UNCHANGED <<job, plan, period>>,
         job[r].kind = "expense" => type = "EXPENSE",
         type = "REVERSAL" => /\ original \in Requests
                              /\ pc[original] = "done" /\ job[original].kind = "expense"
  PROVE  IInv'
<1> USE DEF IInv
<1>0. /\ None \notin Requests
      /\ journal = [j \in Requests |-> journal[j]]
      /\ \A p \in Requests : period[p].closing \in Requests \cup {None}
      /\ pc \in [Requests -> {"idle", "looked", "locked", "done", "failed"}]
      /\ pc' = [pc EXCEPT ![r] = "done"]
  BY PeriodAssumption DEF TypeInv, TypeOK, Finish
<1>1. /\ journal' = [j \in Requests |-> journal'[j]]
      /\ \A j \in Requests \ {r} : journal'[j] = journal[j]
      /\ journal'[r] = [type |-> type, day |-> day, lines |-> lines, original |-> original,
                        key |-> key]
  BY <1>0 DEF Insert
<1>2. WriteInv'
  <2>1. type \in JournalTypes  BY DEF JournalTypes
  <2>2. /\ period' \in [Requests -> [status : {"NONE", "OPEN", "CLOSED"},
                                   start : 0 .. LastDay + 1, end : 0 .. LastDay,
                                   closing : Requests \cup {None}]]
        /\ \A p \in Requests : period'[p].start <= period'[p].end
    BY DEF TypeInv, TypeOK
  <2> QED BY <1>1, <2>1, <2>2, WriteStep
<1>3. ClosingOK'
  <2> SUFFICES ASSUME NEW p \in Requests
               PROVE  /\ period[p].status # "NONE" => pc'[p] = "done"
                      /\ period[p].closing # None =>
                           LET c == period[p].closing
                           IN  pc'[c] = "done" /\ journal'[c] = journal[c]
    BY DEF ClosingOK
  <2> QED BY <1>0, <1>1 DEF ClosingOK
<1>4. ClosedPeriodsDisjoint' /\ ClosedPeriodsContiguous'  BY SameChain
<1>5. ReopeningStaysInPeriod'
  <2> SUFFICES ASSUME NEW p \in Requests, NEW c \in Posted', NEW j \in Reversals(c)',
                      period[p].closing = c
               PROVE  journal'[j].day = journal'[c].day
    BY DEF ReopeningStaysInPeriod
  <2>1. c \in Requests /\ j \in Requests  BY DEF Posted, Reversals
  <2>2. c # None /\ pc[c] = "done" /\ journal[c].type = "ACCOUNTING_PERIOD_CLOSE"
    BY <1>0, <2>1 DEF ClosingOK
  <2>3. c # r /\ journal'[c] = journal[c] /\ c \in Posted  BY <1>1, <2>1, <2>2 DEF Posted
  <2>4. j # r
    BY <1>1, <2>1, <2>2 DEF JournalOK, Reversals
  <2>5. journal'[j] = journal[j] /\ j \in Reversals(c)
    BY <1>1, <2>1, <2>4 DEF Reversals, Posted
  <2> QED BY <2>3, <2>5 DEF ReopeningStaysInPeriod
<1> QED BY <1>2, <1>3, <1>4, <1>5 DEF WriteInv

\* closeAccountingPeriod's write: the new period starts the day after the latest
\* closed one, so the chain stays disjoint and without a gap.
LEMMA WriteCloseKeeps ==
  ASSUME IInv, NEW r \in Requests, WriteClose(r)
  PROVE  IInv'
<1> USE DEF IInv
<1> DEFINE start == plan[r].day
           end == job[r].day
           posts == \E a \in Temporary : plan[r].net[a] # 0
           closed == [status |-> "CLOSED", start |-> start, end |-> end,
                      closing |-> IF posts THEN r ELSE None]
<1>0. /\ LastDay \in Nat /\ None \notin Requests
      /\ pc \in [Requests -> {"idle", "looked", "locked", "done", "failed"}]
      /\ pc[r] = "locked" /\ job[r].kind = "close"
      /\ Finish(r, "done", r)
      /\ pc' = [pc EXCEPT ![r] = "done"]
      /\ start \in 0 .. LastDay + 1 /\ end \in 0 .. LastDay
      /\ UNCHANGED <<job, plan>>
      /\ journal = [j \in Requests |-> journal[j]]
  BY PeriodAssumption DEF WriteClose, Finish, TypeInv, TypeOK
<1>1. PICK p \in Requests :
        /\ IF Reclosed(start, end) # {} THEN p \in Reclosed(start, end) ELSE p = r
        /\ period' = [period EXCEPT ![p] = closed]
  BY DEF WriteClose
<1>p. \A q \in Requests : /\ period[q].start \in Nat /\ period[q].end \in Nat
                          /\ period[q].start <= period[q].end
                          /\ period[q].closing \in Requests \cup {None}
  BY DEF TypeInv, TypeOK
<1>2. /\ p \notin Closed /\ p \in Requests
      /\ \A q \in Requests \ {p} : period'[q] = period[q]
      /\ period'[p] = closed
      /\ Closed' = Closed \cup {p}
  <2>1. p \notin Closed
    BY <1>0, <1>1 DEF Closed, Reclosed, ClosingOK
  <2>2. /\ \A q \in Requests \ {p} : period'[q] = period[q]
        /\ period'[p] = closed
    BY <1>1 DEF TypeInv, TypeOK
  <2> HIDE DEF start, end, posts
  <2> QED BY <2>1, <2>2 DEF Closed
<1>3. /\ start <= end
      /\ \A q \in Closed : period[q].end < start
      /\ Closed # {} => \E q \in Closed : period[q].end + 1 = start
  BY <1>0 DEF PlanOK
<1>4. /\ journal' = [j \in Requests |-> journal'[j]]
      /\ \A j \in Requests \ {r} : journal'[j] = journal[j]
      /\ posts => /\ journal'[r].type = "ACCOUNTING_PERIOD_CLOSE" /\ journal'[r].day = end
                  /\ journal'[r].original = None
      /\ ~posts => journal' = journal
  <2>1. CASE posts
    BY <1>0, <2>1 DEF WriteClose, Insert
  <2>2. CASE ~posts
    <3>1. journal' = journal  BY <2>2 DEF WriteClose
    <3> QED BY <1>0, <2>2, <3>1
  <2> QED BY <2>1, <2>2
<1> HIDE DEF start, end, posts
<1>5. WriteInv'
  <2>1. /\ period' \in [Requests -> [status : {"NONE", "OPEN", "CLOSED"},
                                   start : 0 .. LastDay + 1, end : 0 .. LastDay,
                                   closing : Requests \cup {None}]]
        /\ \A q \in Requests : period'[q].start <= period'[q].end
    <3>1. closed \in [status : {"NONE", "OPEN", "CLOSED"}, start : 0 .. LastDay + 1,
                      end : 0 .. LastDay, closing : Requests \cup {None}]
      BY <1>0
    <3>2. closed.start <= closed.end  BY <1>3
    <3> HIDE DEF closed
    <3> QED BY <1>1, <1>2, <3>1, <3>2 DEF TypeInv, TypeOK
  <2>2. /\ journal'[r].type \in JournalTypes
        /\ journal'[r].day \in 0 .. LastDay + 1
        /\ journal'[r].original \in Requests \cup {None}
    BY <1>0, <1>4 DEF TypeInv, TypeOK, JournalTypes
  <2>3. journal'[r].type # "REVERSAL"
    BY <1>0, <1>4 DEF JournalOK
  <2> QED BY <1>0, <1>4, <2>1, <2>2, <2>3, WriteStep
<1>6. ClosingOK'
  <2> SUFFICES ASSUME NEW q \in Requests
               PROVE  /\ period'[q].status # "NONE" => pc'[q] = "done"
                      /\ period'[q].closing # None =>
                           /\ pc'[period'[q].closing] = "done"
                           /\ journal'[period'[q].closing].type = "ACCOUNTING_PERIOD_CLOSE"
                           /\ journal'[period'[q].closing].day = period'[q].end
    BY DEF ClosingOK
  <2>1. CASE q = p
    <3>1. pc'[p] = "done"  BY <1>0, <1>1 DEF Reclosed, ClosingOK
    <3>2. CASE posts  BY <1>0, <1>2, <1>4, <2>1, <3>1, <3>2
    <3>3. CASE ~posts  BY <1>0, <1>2, <2>1, <3>1, <3>3
    <3> QED BY <3>2, <3>3
  <2>2. CASE q # p
    <3>1. period'[q] = period[q]  BY <1>2, <2>2
    <3>2. period[q].closing # None => pc[period[q].closing] = "done"  BY DEF ClosingOK
    <3>3. period[q].closing # None => period[q].closing \in Requests \ {r}
      BY <1>0, <1>p, <3>2
    <3> QED BY <1>0, <1>4, <3>1, <3>3 DEF ClosingOK
  <2> QED BY <2>1, <2>2
<1>7. ClosedPeriodsDisjoint'
  <2> SUFFICES ASSUME NEW q \in Closed', NEW o \in Closed', q # o, NEW day \in DaysOf(q)'
               PROVE  day \notin DaysOf(o)'
    BY DEF ClosedPeriodsDisjoint
  <2>0. q \in Requests /\ o \in Requests  BY DEF Closed
  <2>1. CASE q # p /\ o # p
    BY <1>2, <2>0, <2>1 DEF ClosedPeriodsDisjoint, DaysOf
  <2>2. CASE q = p
    BY <1>0, <1>2, <1>3, <1>p, <2>0, <2>2 DEF DaysOf
  <2>3. CASE o = p
    BY <1>0, <1>2, <1>3, <1>p, <2>0, <2>3 DEF DaysOf
  <2> QED BY <2>1, <2>2, <2>3
<1>8. ClosedPeriodsContiguous'
  <2> SUFFICES ASSUME NEW q \in Closed', NEW o \in Closed',
                      period'[q].start < period'[o].start,
                      NEW day \in period'[q].start .. period'[o].end
               PROVE  \E e \in Closed' : day \in DaysOf(e)'
    BY DEF ClosedPeriodsContiguous, InClosedPeriod
  <2>0. q \in Requests /\ o \in Requests  BY DEF Closed
  <2>1. \A e \in Closed : e \in Closed' /\ DaysOf(e)' = DaysOf(e)
    BY <1>2 DEF DaysOf, Closed
  <2>2. CASE q # p /\ o # p
    <3>1. period'[q] = period[q] /\ period'[o] = period[o] /\ q \in Closed /\ o \in Closed
      BY <1>2, <2>0, <2>2
    <3>2. \E e \in Closed : day \in DaysOf(e)
      BY <3>1 DEF ClosedPeriodsContiguous, InClosedPeriod
    <3> QED BY <2>1, <3>2
  <2>3. CASE q = p
    BY <1>0, <1>2, <1>3, <1>p, <2>0, <2>3
  <2>4. CASE o = p /\ q # p
    <3>1. q \in Closed /\ period'[q] = period[q] /\ period'[o] = closed
      BY <1>2, <2>0, <2>4
    <3>2. CASE day >= start
      BY <1>0, <1>2, <1>p, <2>4, <3>1, <3>2 DEF DaysOf
    <3>3. CASE day < start
      <4>1. PICK last \in Closed : period[last].end + 1 = start  BY <1>3, <3>1
      <4>2. last \in Requests  BY DEF Closed
      <4>3. day \in period[q].start .. period[last].end
        BY <1>0, <1>p, <2>0, <2>4, <3>1, <3>3, <4>1, <4>2
      <4>4. q # last => period[q].start < period[last].start
        <5> SUFFICES ASSUME q # last, period[q].start >= period[last].start  PROVE FALSE
          BY <1>p, <2>0, <4>2
        <5>1. period[q].end <= period[last].end
          BY <1>0, <1>3, <1>p, <2>0, <3>1, <4>1, <4>2
        <5>2. period[q].start \in DaysOf(q) /\ period[q].start \in DaysOf(last)
          BY <1>p, <2>0, <4>2, <5>1 DEF DaysOf
        <5> QED BY <3>1, <5>2 DEF ClosedPeriodsDisjoint
      <4>5. \E e \in Closed : day \in DaysOf(e)
        BY <3>1, <4>3, <4>4 DEF ClosedPeriodsContiguous, InClosedPeriod, DaysOf
      <4> QED BY <2>1, <4>5
    <3>4. day \in Int /\ start \in Int  BY <1>0, <1>p, <2>0, <3>1
    <3> QED BY <3>2, <3>3, <3>4
  <2> QED BY <2>2, <2>3, <2>4
<1>9. ReopeningStaysInPeriod'
  <2> SUFFICES ASSUME NEW q \in Requests, NEW c \in Posted', NEW j \in Reversals(c)',
                      period'[q].closing = c
               PROVE  journal'[j].day = journal'[c].day
    BY DEF ReopeningStaysInPeriod
  <2>1. c \in Requests /\ j \in Requests /\ c # None  BY <1>0 DEF Posted, Reversals
  <2>2. journal[r].type = "NONE"  BY <1>0 DEF JournalOK
  <2>3. journal'[r].type # "REVERSAL"  BY <1>4, <2>2
  <2>4. j # r /\ journal'[j] = journal[j]  BY <1>4, <2>1, <2>3 DEF Reversals
  <2>5. journal[j].type = "REVERSAL" /\ journal[j].original = c
    BY <2>4 DEF Reversals
  <2>6. pc[c] = "done" /\ c # r  BY <1>0, <2>1, <2>5 DEF JournalOK
  <2>7. q # p  BY <1>0, <1>2, <2>1, <2>6
  <2>8. period[q].closing = c /\ journal'[c] = journal[c]  BY <1>2, <1>4, <2>1, <2>6, <2>7
  <2>9. c \in Posted /\ j \in Reversals(c)
    BY <2>1, <2>4, <2>8 DEF Posted, Reversals
  <2> QED BY <2>4, <2>8, <2>9 DEF ReopeningStaysInPeriod
<1> QED BY <1>5, <1>6, <1>7, <1>8, <1>9 DEF WriteInv

\* A day that is in no closed period is its own first open day.
LEMMA OpenDayIsFirst ==
  ASSUME TypeInv, NEW day \in 0 .. LastDay + 1, NEW closed \in SUBSET Requests,
         \A p \in closed : day \notin DaysOf(p)
  PROVE  FirstOpenDay(day, closed) = day
<1> DEFINE first == FirstOpenDay(day, closed)
<1>0. LastDay \in Nat  BY PeriodAssumption
<1>1. first \in day .. LastDay + 1 /\ \A e \in day .. first - 1 : \E p \in closed : e \in DaysOf(p)
  BY FirstOpenDayIsOpen
<1>2. day \notin day .. first - 1  BY <1>1
<1>3. first = day
  <2> HIDE DEF first
  <2> QED BY <1>0, <1>1, <1>2
<1> QED BY <1>3

\* reopenAccountingPeriod's write: the latest closed period leaves the chain, and
\* its end is open when the reversal of its closing journal is dated.
LEMMA WriteReopenKeeps ==
  ASSUME IInv, NEW r \in Requests, WriteReopen(r)
  PROVE  IInv'
<1> USE DEF IInv
<1> DEFINE p == job[r].target
           closing == period[p].closing
           open == [status |-> "OPEN", start |-> period[p].start, end |-> period[p].end,
                    closing |-> closing]
           day == FirstOpenDay(period[p].end, StillClosed(p))
<1>0. /\ LastDay \in Nat /\ None \notin Requests
      /\ pc \in [Requests -> {"idle", "looked", "locked", "done", "failed"}]
      /\ pc[r] = "locked" /\ job[r].kind = "reopen"
      /\ Finish(r, "done", r)
      /\ pc' = [pc EXCEPT ![r] = "done"]
      /\ UNCHANGED <<job, plan>>
      /\ journal = [j \in Requests |-> journal[j]]
      /\ period' = [period EXCEPT ![p] = open]
      /\ \/ closing = None /\ UNCHANGED journal
         \/ /\ closing # None
            /\ Insert(r, "REVERSAL", day, Negated(journal[closing].lines), closing, job[r].key)
  BY PeriodAssumption DEF WriteReopen, Finish, TypeInv, TypeOK
<1>p. \A q \in Requests : /\ period[q].start \in 0 .. LastDay + 1 /\ period[q].end \in 0 .. LastDay
                          /\ period[q].start <= period[q].end
                          /\ period[q].closing \in Requests \cup {None}
  BY DEF TypeInv, TypeOK
<1>1. p \in Closed /\ p \in Requests /\ LaterClosed(p) = {}
  BY <1>0 DEF PlanOK, Closed
<1>2. /\ \A q \in Requests \ {p} : period'[q] = period[q]
      /\ period'[p] = open
      /\ Closed' = Closed \ {p}
  <2>1. /\ \A q \in Requests \ {p} : period'[q] = period[q]
        /\ period'[p] = open
    BY <1>0, <1>1 DEF TypeInv, TypeOK
  <2> HIDE DEF p, closing, day
  <2> QED BY <2>1, <1>1 DEF Closed
<1>3. day = period[p].end
  <2>1. StillClosed(p) \in SUBSET Requests  BY DEF StillClosed, Closed
  <2>2. \A q \in StillClosed(p) : period[p].end \notin DaysOf(q)
    <3>1. period[p].end \in DaysOf(p)  BY <1>0, <1>1, <1>p DEF DaysOf
    <3> QED BY <1>1, <3>1 DEF StillClosed, ClosedPeriodsDisjoint
  <2>3. period[p].end \in 0 .. LastDay + 1  BY <1>0, <1>1, <1>p
  <2> QED BY <2>1, <2>2, <2>3, OpenDayIsFirst
<1>4. closing # None => pc[closing] = "done" /\ closing \in Requests \ {r}
                        /\ journal[closing].type = "ACCOUNTING_PERIOD_CLOSE"
                        /\ journal[closing].day = period[p].end
  BY <1>0, <1>1, <1>p DEF ClosingOK
<1> HIDE DEF p, day
<1>5. /\ journal' = [j \in Requests |-> journal'[j]]
      /\ \A j \in Requests \ {r} : journal'[j] = journal[j]
      /\ journal[r].type = "NONE"
      /\ closing # None => /\ journal'[r].type = "REVERSAL" /\ journal'[r].day = day
                           /\ journal'[r].original = closing
      /\ closing = None => journal' = journal
  <2>1. journal[r].type = "NONE"  BY <1>0 DEF JournalOK
  <2>2. CASE closing = None
    <3>1. journal' = journal  BY <1>0, <2>2
    <3> QED BY <1>0, <2>1, <2>2, <3>1
  <2>3. CASE closing # None
    BY <1>0, <2>1, <2>3 DEF Insert
  <2> QED BY <2>2, <2>3
<1>6. WriteInv'
  <2>1. /\ period' \in [Requests -> [status : {"NONE", "OPEN", "CLOSED"},
                                   start : 0 .. LastDay + 1, end : 0 .. LastDay,
                                   closing : Requests \cup {None}]]
        /\ \A q \in Requests : period'[q].start <= period'[q].end
    <3>1. open \in [status : {"NONE", "OPEN", "CLOSED"}, start : 0 .. LastDay + 1,
                      end : 0 .. LastDay, closing : Requests \cup {None}]
      BY <1>1, <1>p
    <3>2. open.start <= open.end  BY <1>1, <1>p
    <3> HIDE DEF open
    <3> QED BY <1>0, <1>1, <1>2, <3>1, <3>2 DEF TypeInv, TypeOK
  <2>2. /\ journal'[r].type \in JournalTypes
        /\ journal'[r].day \in 0 .. LastDay + 1
        /\ journal'[r].original \in Requests \cup {None}
    <3>1. CASE closing = None  BY <1>5, <3>1 DEF TypeInv, TypeOK
    <3>2. CASE closing # None
      BY <1>0, <1>1, <1>p, <1>3, <1>4, <1>5, <3>2 DEF JournalTypes
    <3> QED BY <3>1, <3>2
  <2>3. journal'[r].type = "REVERSAL" => pc[journal'[r].original] = "done"
    BY <1>4, <1>5
  <2> HIDE DEF closing
  <2> QED BY <1>0, <1>5, <2>1, <2>2, <2>3, WriteStep
<1>7. ClosingOK'
  <2> SUFFICES ASSUME NEW q \in Requests
               PROVE  /\ period'[q].status # "NONE" => pc'[q] = "done"
                      /\ period'[q].closing # None =>
                           /\ pc'[period'[q].closing] = "done"
                           /\ journal'[period'[q].closing].type = "ACCOUNTING_PERIOD_CLOSE"
                           /\ journal'[period'[q].closing].day = period'[q].end
    BY DEF ClosingOK
  <2>1. period'[q].closing = period[q].closing /\ period'[q].end = period[q].end
    BY <1>1, <1>2
  <2>2. period'[q].status # "NONE" => period[q].status # "NONE"
    BY <1>1, <1>2 DEF Closed
  <2>3. period[q].closing # None => /\ pc[period[q].closing] = "done"
                                    /\ period[q].closing \in Requests \ {r}
    BY <1>0, <1>p DEF ClosingOK
  <2>4. period[q].closing # None =>
          /\ pc'[period[q].closing] = "done"
          /\ journal'[period[q].closing] = journal[period[q].closing]
    BY <1>0, <1>5, <2>3
  <2>5. period[q].status # "NONE" => pc'[q] = "done"
    BY <1>0 DEF ClosingOK
  <2> QED BY <2>1, <2>2, <2>4, <2>5 DEF ClosingOK
<1>8. ClosedPeriodsDisjoint'
  BY <1>2 DEF ClosedPeriodsDisjoint, DaysOf, Closed
<1>9. ClosedPeriodsContiguous'
  <2> SUFFICES ASSUME NEW q \in Closed', NEW o \in Closed',
                      period'[q].start < period'[o].start,
                      NEW d \in period'[q].start .. period'[o].end
               PROVE  \E e \in Closed' : d \in DaysOf(e)'
    BY DEF ClosedPeriodsContiguous, InClosedPeriod
  <2>0. /\ q \in Requests /\ o \in Requests /\ q # p /\ o # p
        /\ q \in Closed /\ o \in Closed
        /\ period'[q] = period[q] /\ period'[o] = period[o]
    BY <1>2 DEF Closed
  <2>1. PICK e \in Closed : d \in DaysOf(e)
    BY <2>0 DEF ClosedPeriodsContiguous, InClosedPeriod
  <2>2. ~(period[p].start < period[o].start) /\ ~(period[o].start > period[p].start)
        /\ period[o].end < period[p].start
    <3>1. ~(period[o].start > period[p].start)  BY <1>1, <2>0 DEF LaterClosed
    <3>2. period[p].start \notin DaysOf(o)
      <4>1. period[p].start \in DaysOf(p)  BY <1>1, <1>p DEF DaysOf
      <4> QED BY <1>1, <2>0, <4>1 DEF ClosedPeriodsDisjoint
    <3> QED BY <1>1, <1>p, <2>0, <3>1, <3>2 DEF DaysOf
  <2>3. e # p
    BY <1>1, <1>p, <2>0, <2>1, <2>2 DEF DaysOf
  <2> QED BY <1>2, <2>1, <2>3 DEF DaysOf, Closed
<1>10. ReopeningStaysInPeriod'
  <2> SUFFICES ASSUME NEW q \in Requests, NEW c \in Posted', NEW j \in Reversals(c)',
                      period'[q].closing = c
               PROVE  journal'[j].day = journal'[c].day
    BY DEF ReopeningStaysInPeriod
  <2>1. c \in Requests /\ j \in Requests /\ c # None  BY <1>0 DEF Posted, Reversals
  <2>2. period[q].closing = c  BY <1>1, <1>2
  <2>3. pc[c] = "done" /\ c # r /\ journal'[c] = journal[c] /\ c \in Posted
    BY <1>0, <1>5, <2>1, <2>2 DEF ClosingOK, Posted
  <2>4. CASE j = r
    <3>1. closing # None /\ closing = c  BY <1>5, <2>1, <2>4 DEF Reversals
    <3> QED BY <1>3, <1>4, <1>5, <2>3, <2>4, <3>1
  <2>5. CASE j # r
    <3>1. journal'[j] = journal[j] /\ j \in Reversals(c)
      BY <1>5, <2>1, <2>5 DEF Reversals, Posted
    <3> QED BY <2>2, <2>3, <3>1 DEF ReopeningStaysInPeriod
  <2> QED BY <2>4, <2>5
<1> QED BY <1>6, <1>7, <1>8, <1>9, <1>10 DEF WriteInv

\* Finish is a quiet step.
LEMMA FinishIsQuiet ==
  ASSUME IInv, NEW r \in Requests, pc[r] # "done",
         NEW x \in {"done", "failed"}, NEW q \in Requests \cup {None},
         NEW jb \in JobType, job' = [job EXCEPT ![r] = jb],
         Finish(r, x, q), UNCHANGED <<plan, journal, period>>
  PROVE  IInv'
<1>1. /\ pc' = [pc EXCEPT ![r] = x]
      /\ answer' \in [Requests -> Requests \cup {None}]
      /\ advisory' \in {advisory, IF advisory = r THEN None ELSE advisory}
  BY DEF IInv, TypeInv, TypeOK, Finish
<1>2. x \in {"looked", "done", "failed"} /\ x # "looked"  OBVIOUS
<1> QED BY <1>1, <1>2, QuietStep

\* Proceed is a quiet step.
LEMMA ProceedIsQuiet ==
  ASSUME IInv, NEW r \in Requests, pc[r] # "done",
         NEW jb \in JobType, job' = [job EXCEPT ![r] = jb],
         Proceed(r), UNCHANGED <<plan, journal, period>>,
         jb.kind = "reverse" => ReverseReady(jb)
  PROVE  IInv'
<1>1. /\ pc' = [pc EXCEPT ![r] = "looked"]
      /\ answer' \in [Requests -> Requests \cup {None}]
      /\ advisory' \in {advisory, IF advisory = r THEN None ELSE advisory}
  BY DEF IInv, TypeInv, TypeOK, Proceed
<1>2. "looked" \in {"looked", "done", "failed"}  OBVIOUS
<1> QED BY <1>1, <1>2, QuietStep

\* Ask gives the request a well-typed job.
LEMMA AskedJob ==
  ASSUME NEW r \in Requests, NEW kind \in Kinds, NEW key \in Keys,
         NEW day \in 0 .. LastDay, NEW lines \in [Temporary -> Int],
         NEW target \in Requests \cup {None}, Ask(r, kind, key, day, lines, target)
  PROVE  \E jb \in JobType :
           /\ job' = [job EXCEPT ![r] = jb] /\ pc[r] = "idle"
           /\ jb = [kind |-> kind, key |-> key, day |-> day, lines |-> lines, target |-> target]
<1>1. [kind |-> kind, key |-> key, day |-> day, lines |-> lines, target |-> target] \in JobType
  BY DEF JobType
<1> QED BY <1>1 DEF Ask

\* The reads by Idempotency-Key write nothing.
LEMMA LookUpKeeps ==
  ASSUME IInv, NEW r \in Requests, NEW key \in Keys,
         \/ \E day \in Days, lines \in ManualLines : LookUpManual(r, key, day, lines)
         \/ \E day \in Days, lines \in ExpenseLines : LookUpExpense(r, key, day, lines)
         \/ \E q \in Requests : LookUpReversal(r, key, q)
  PROVE  IInv'
<1>0. LastDay \in Nat /\ None \notin Requests /\ NoLines \in [Temporary -> Int]
  BY PeriodAssumption DEF NoLines
<1>1. ASSUME NEW day \in Days, NEW lines \in ManualLines, LookUpManual(r, key, day, lines)
      PROVE  IInv'
  <2>1. PICK jb \in JobType :
          /\ job' = [job EXCEPT ![r] = jb] /\ pc[r] = "idle" /\ jb.kind = "manual"
    <3>1. Ask(r, "manual", key, day, lines, None)  BY <1>1 DEF LookUpManual
    <3>2. "manual" \in Kinds /\ day \in 0 .. LastDay /\ lines \in [Temporary -> Int]
      BY <1>0, PeriodAssumption DEF Kinds, Days
    <3> QED BY <3>1, <3>2, AskedJob
  <2>2. /\ UNCHANGED <<plan, journal, period>>
        /\ Proceed(r) \/ \E x \in {"done", "failed"}, q \in Requests \cup {None} : Finish(r, x, q)
    BY <1>1 DEF LookUpManual, PostedWith, Posted
  <2> QED BY <2>1, <2>2, FinishIsQuiet, ProceedIsQuiet
<1>2. ASSUME NEW day \in Days, NEW lines \in ExpenseLines, LookUpExpense(r, key, day, lines)
      PROVE  IInv'
  <2>1. PICK jb \in JobType :
          /\ job' = [job EXCEPT ![r] = jb] /\ pc[r] = "idle" /\ jb.kind = "expense"
    <3>1. Ask(r, "expense", key, day, lines, None)  BY <1>2 DEF LookUpExpense
    <3>2. "expense" \in Kinds /\ day \in 0 .. LastDay /\ lines \in [Temporary -> Int]
      BY <1>0, PeriodAssumption DEF Kinds, Days
    <3> QED BY <3>1, <3>2, AskedJob
  <2>2. /\ UNCHANGED <<plan, journal, period>>
        /\ Proceed(r) \/ \E x \in {"done", "failed"}, q \in Requests \cup {None} : Finish(r, x, q)
    BY <1>2 DEF LookUpExpense, RowsWith, Rows
  <2> QED BY <2>1, <2>2, FinishIsQuiet, ProceedIsQuiet
<1>3. ASSUME NEW q \in Requests, LookUpReversal(r, key, q)
      PROVE  IInv'
  <2>1. PICK jb \in JobType :
          /\ job' = [job EXCEPT ![r] = jb] /\ pc[r] = "idle" /\ jb.kind = "reverse"
          /\ jb.target = q
    <3>1. Ask(r, "reverse", key, 0, NoLines, q)  BY <1>3 DEF LookUpReversal
    <3>2. "reverse" \in Kinds /\ 0 \in 0 .. LastDay
      BY <1>0 DEF Kinds
    <3> QED BY <1>0, <3>1, <3>2, AskedJob
  <2>2. /\ UNCHANGED <<plan, journal, period>>
        /\ Proceed(r) \/ \E x \in {"done", "failed"}, o \in Requests \cup {None} : Finish(r, x, o)
    BY <1>3 DEF LookUpReversal, RowsWith, Rows
  <2>3. ReverseReady(jb)
    BY <1>3, <2>1 DEF LookUpReversal, Rows, ReverseReady
  <2> QED BY <2>1, <2>2, <2>3, FinishIsQuiet, ProceedIsQuiet
<1> QED BY <1>1, <1>2, <1>3

\* The start a close computes is the day after the latest closed period.
LEMMA StartOfNextPeriod ==
  ASSUME TypeInv, Posted # {}
  PROVE  /\ PeriodStart \in 0 .. LastDay + 1
         /\ \A p \in Closed : period[p].end < PeriodStart
         /\ Closed # {} => \E p \in Closed : period[p].end + 1 = PeriodStart
<1>0. /\ LastDay \in Nat
      /\ \A p \in Closed : period[p].end \in 0 .. LastDay
      /\ \A j \in Posted : journal[j].day \in 0 .. LastDay + 1
  BY PeriodAssumption DEF TypeInv, TypeOK, Closed, Posted
<1>1. CASE Closed = {}
  <2> DEFINE T == {journal[j].day : j \in Posted}
  <2>1. T \subseteq Nat /\ T # {}  BY <1>0
  <2>2. PICK m \in T : \A n \in T : m <= n
    <3> HIDE DEF T
    <3> QED BY <2>1, LeastNumber
  <2>3. EarliestDay \in T  BY <2>2 DEF EarliestDay
  <2> QED BY <1>0, <1>1, <2>3 DEF PeriodStart
<1>2. CASE Closed # {}
  <2> DEFINE T == {LastDay - period[p].end : p \in Closed}
  <2>1. T \subseteq Nat /\ T # {}  BY <1>0, <1>2
  <2>2. PICK m \in T : \A n \in T : m <= n
    <3> HIDE DEF T
    <3> QED BY <2>1, LeastNumber
  <2>3. PICK p \in Closed : m = LastDay - period[p].end  OBVIOUS
  <2>4. \A q \in Closed : period[q].end <= period[p].end
    <3> TAKE q \in Closed
    <3>1. m <= LastDay - period[q].end  BY <2>2
    <3> QED BY <1>0, <2>3, <3>1
  <2>5. /\ LatestClosed \in Closed
        /\ \A q \in Closed : period[q].end <= period[LatestClosed].end
    BY <2>4 DEF LatestClosed
  <2> QED BY <1>0, <1>2, <2>5 DEF PeriodStart
<1> QED BY <1>1, <1>2

\* assertAccountingPeriodOpen leaves a plan that is true.
LEMMA LockAndCheckKeeps ==
  ASSUME IInv, NEW r \in Requests, LockAndCheck(r)
  PROVE  IInv'
<1>0. /\ LastDay \in Nat
      /\ job \in [Requests -> JobType] /\ plan = [q \in Requests |-> plan[q]]
      /\ pc[r] = "looked" /\ job[r].kind \in {"manual", "expense"} /\ LockFree(r)
      /\ UNCHANGED <<job, journal, period>>
  BY PeriodAssumption DEF IInv, TypeInv, TypeOK, JobType, LockAndCheck
<1>1. job[r] \in JobType /\ job' = [job EXCEPT ![r] = job[r]]  BY <1>0
<1>2. CASE InClosedPeriod(job[r].day)
  <2>1. Finish(r, "failed", None) /\ UNCHANGED plan  BY <1>2 DEF LockAndCheck
  <2> QED BY <1>0, <1>1, <2>1, FinishIsQuiet
<1>3. CASE ~InClosedPeriod(job[r].day)
  <2>1. /\ pc' = [pc EXCEPT ![r] = "locked"] /\ advisory' = r /\ UNCHANGED answer
        /\ plan' = [plan EXCEPT ![r] = [day |-> job[r].day, net |-> NoLines]]
    BY <1>3 DEF LockAndCheck
  <2>2. /\ plan' = [q \in Requests |-> plan'[q]] /\ plan'[r].day = job[r].day
        /\ \A q \in Requests \ {r} : plan'[q] = plan[q]
    BY <1>0, <2>1
  <2>3. job[r].day \in 0 .. LastDay + 1  BY <1>0, <1>1 DEF JobType
  <2> QED BY <1>0, <1>1, <1>3, <2>1, <2>2, <2>3, LockStep
<1> QED BY <1>2, <1>3

\* So does postReversalJournal.
LEMMA LockAndDateKeeps ==
  ASSUME IInv, NEW r \in Requests, LockAndDate(r)
  PROVE  IInv'
<1> DEFINE original == job[r].target
           day == FirstOpenDay(journal[original].day, Closed)
<1>0. /\ job \in [Requests -> JobType] /\ plan = [q \in Requests |-> plan[q]]
      /\ pc[r] = "looked" /\ job[r].kind = "reverse" /\ LockFree(r)
      /\ pc' = [pc EXCEPT ![r] = "locked"] /\ advisory' = r
      /\ plan' = [plan EXCEPT ![r] = [day |-> day, net |-> NoLines]]
      /\ UNCHANGED <<job, answer, journal, period>>
  BY DEF IInv, TypeInv, TypeOK, JobType, LockAndDate
<1>1. job[r] \in JobType /\ job' = [job EXCEPT ![r] = job[r]]  BY <1>0
<1>2. ReverseReady(job[r])  BY <1>0 DEF IInv, ReverseOK, ReverseReady
<1>3. day \in 0 .. LastDay + 1 /\ ~InClosedPeriod(day)
  <2>1. journal[original].day \in 0 .. LastDay + 1
    BY <1>2 DEF ReverseReady, IInv, TypeInv, TypeOK
  <2>2. Closed \in SUBSET Requests  BY DEF Closed
  <2>3. /\ day \in journal[original].day .. LastDay + 1
        /\ \A p \in Closed : day \notin DaysOf(p)
    BY <2>1, <2>2, FirstOpenDayIsOpen DEF IInv
  <2> HIDE DEF day
  <2> QED BY <2>1, <2>3, PeriodAssumption DEF InClosedPeriod
<1> HIDE DEF day
<1>4. /\ plan' = [q \in Requests |-> plan'[q]] /\ plan'[r].day = day
      /\ \A q \in Requests \ {r} : plan'[q] = plan[q]
  BY <1>0
<1> QED BY <1>0, <1>1, <1>2, <1>3, <1>4, LockStep

\* So do the reads of closeAccountingPeriod.
LEMMA ReadCloseKeeps ==
  ASSUME IInv, NEW r \in Requests, NEW key \in Keys, NEW end \in Days, ReadClose(r, key, end)
  PROVE  IInv'
<1>0. LastDay \in Nat /\ None \notin Requests /\ NoLines \in [Temporary -> Int]
  BY PeriodAssumption DEF NoLines
<1>1. PICK jb \in JobType :
        /\ job' = [job EXCEPT ![r] = jb] /\ pc[r] = "idle" /\ jb.kind = "close"
        /\ jb.day = end
  <2>1. Ask(r, "close", key, end, NoLines, None)  BY DEF ReadClose
  <2>2. "close" \in Kinds /\ end \in 0 .. LastDay  BY <1>0 DEF Kinds, Days
  <2> QED BY <1>0, <2>1, <2>2, AskedJob
<1>2. /\ LockFree(r) /\ UNCHANGED <<journal, period>>
      /\ plan = [q \in Requests |-> plan[q]]
  BY DEF ReadClose, IInv, TypeInv
<1>3. CASE UNCHANGED plan /\ \E x \in {"done", "failed"}, q \in Requests \cup {None} : Finish(r, x, q)
  BY <1>1, <1>2, <1>3, FinishIsQuiet
<1>4. CASE /\ Posted # {} /\ Closable(end)
           /\ plan' = [plan EXCEPT ![r] = [day |-> PeriodStart, net |-> NetOf(PeriodStart, end)]]
           /\ pc' = [pc EXCEPT ![r] = "locked"]
           /\ advisory' = r
           /\ UNCHANGED answer
  <2>1. /\ PeriodStart \in 0 .. LastDay + 1 /\ PeriodStart <= end
        /\ \A p \in Closed : period[p].end < PeriodStart
        /\ Closed # {} => \E p \in Closed : period[p].end + 1 = PeriodStart
    BY <1>4, StartOfNextPeriod DEF Closable, IInv
  <2>2. /\ plan' = [q \in Requests |-> plan'[q]] /\ plan'[r].day = PeriodStart
        /\ \A q \in Requests \ {r} : plan'[q] = plan[q]
    BY <1>2, <1>4
  <2> QED BY <1>1, <1>2, <1>4, <2>1, <2>2, LockStep
<1>5. \/ UNCHANGED plan /\ \E x \in {"done", "failed"}, q \in Requests \cup {None} : Finish(r, x, q)
      \/ /\ Posted # {} /\ Closable(end)
         /\ plan' = [plan EXCEPT ![r] = [day |-> PeriodStart, net |-> NetOf(PeriodStart, end)]]
         /\ pc' = [pc EXCEPT ![r] = "locked"]
         /\ advisory' = r
         /\ UNCHANGED answer
  BY DEF ReadClose, ReplayEvent, RowsWith, Rows
<1> QED BY <1>3, <1>4, <1>5

\* So do the reads of reopenAccountingPeriod.
LEMMA ReadReopenKeeps ==
  ASSUME IInv, NEW r \in Requests, NEW key \in Keys, NEW p \in Requests, ReadReopen(r, key, p)
  PROVE  IInv'
<1>0. LastDay \in Nat /\ None \notin Requests /\ NoLines \in [Temporary -> Int]
  BY PeriodAssumption DEF NoLines
<1>1. PICK jb \in JobType :
        /\ job' = [job EXCEPT ![r] = jb] /\ pc[r] = "idle" /\ jb.kind = "reopen"
        /\ jb.target = p
  <2>1. Ask(r, "reopen", key, 0, NoLines, p)  BY DEF ReadReopen
  <2>2. "reopen" \in Kinds /\ 0 \in 0 .. LastDay  BY <1>0 DEF Kinds
  <2> QED BY <1>0, <2>1, <2>2, AskedJob
<1>2. /\ LockFree(r) /\ UNCHANGED <<plan, journal, period>>
      /\ plan = [q \in Requests |-> plan[q]]
  BY DEF ReadReopen, IInv, TypeInv
<1>3. CASE \E x \in {"done", "failed"}, q \in Requests \cup {None} : Finish(r, x, q)
  BY <1>1, <1>2, <1>3, FinishIsQuiet
<1>4. CASE /\ p \in Closed /\ LaterClosed(p) = {}
           /\ pc' = [pc EXCEPT ![r] = "locked"]
           /\ advisory' = r
           /\ UNCHANGED answer
  <2>1. /\ plan' = [q \in Requests |-> plan'[q]] /\ plan'[r].day \in 0 .. LastDay + 1
        /\ \A q \in Requests \ {r} : plan'[q] = plan[q]
    BY <1>2 DEF IInv, TypeInv, TypeOK
  <2> QED BY <1>1, <1>2, <1>4, <2>1, LockStep
<1>5. \/ \E x \in {"done", "failed"}, q \in Requests \cup {None} : Finish(r, x, q)
      \/ /\ p \in Closed /\ LaterClosed(p) = {}
         /\ pc' = [pc EXCEPT ![r] = "locked"]
         /\ advisory' = r
         /\ UNCHANGED answer
  BY DEF ReadReopen, ReplayEvent, RowsWith, Rows
<1> QED BY <1>3, <1>4, <1>5

\* The three writes of journals under the lock.
LEMMA PostKeeps ==
  ASSUME IInv, NEW r \in Requests, PostManual(r) \/ PostExpense(r) \/ PostReversal(r)
  PROVE  IInv'
<1>0. /\ LastDay \in Nat /\ None \notin Requests
      /\ job \in [Requests -> JobType] /\ job[r] \in JobType
      /\ job' = [job EXCEPT ![r] = job[r]]
      /\ plan[r].day \in 0 .. LastDay + 1
      /\ pc[r] = "locked" /\ UNCHANGED <<job, plan, period>>
  BY PeriodAssumption
     DEF IInv, TypeInv, TypeOK, JobType, PostManual, PostExpense, PostReversal
<1>1. ASSUME UNCHANGED journal, NEW x \in {"done", "failed"}, NEW q \in Requests \cup {None},
             Finish(r, x, q)
      PROVE  IInv'
  BY <1>0, <1>1, FinishIsQuiet
<1>2. ASSUME PostManual(r)  PROVE IInv'
  <2>1. CASE \E j \in PostedWith(job[r].key) : Finish(r, "done", j) /\ UNCHANGED journal
    BY <1>1, <2>1 DEF PostedWith, Posted
  <2>2. CASE /\ Insert(r, "MANUAL_ADJUSTMENT", plan[r].day, job[r].lines, None, job[r].key)
             /\ Finish(r, "done", r)
    <3>1. job[r].kind = "manual"  BY <1>2 DEF PostManual
    <3>2. /\ "MANUAL_ADJUSTMENT" \in {"MANUAL_ADJUSTMENT", "EXPENSE", "REVERSAL"}
          /\ None \in Requests \cup {None}
      OBVIOUS
    <3> QED BY <1>0, <2>2, <3>1, <3>2, PostStep
  <2> QED BY <1>2, <2>1, <2>2 DEF PostManual
<1>3. ASSUME PostExpense(r)  PROVE IInv'
  <2>1. CASE Finish(r, "failed", None) /\ UNCHANGED journal  BY <1>1, <2>1
  <2>2. CASE /\ Insert(r, "EXPENSE", plan[r].day, job[r].lines, None, job[r].key)
             /\ Finish(r, "done", r)
    <3>1. /\ "EXPENSE" \in {"MANUAL_ADJUSTMENT", "EXPENSE", "REVERSAL"}
          /\ None \in Requests \cup {None}
      OBVIOUS
    <3> QED BY <1>0, <2>2, <3>1, PostStep
  <2> QED BY <1>3, <2>1, <2>2 DEF PostExpense
<1>4. ASSUME PostReversal(r)  PROVE IInv'
  <2> DEFINE original == job[r].target
  <2>1. CASE Finish(r, "failed", None) /\ UNCHANGED journal  BY <1>1, <2>1
  <2>2. CASE /\ Insert(r, "REVERSAL", plan[r].day, Negated(journal[original].lines), original, None)
             /\ Finish(r, "done", r)
    <3>1. job[r].kind = "reverse"  BY <1>4 DEF PostReversal
    <3>2. /\ original \in Requests
          /\ pc[original] = "done" /\ job[original].kind = "expense"
      BY <1>0, <3>1 DEF IInv, ReverseOK
    <3>3. "REVERSAL" \in {"MANUAL_ADJUSTMENT", "EXPENSE", "REVERSAL"}  OBVIOUS
    <3> HIDE DEF original
    <3> QED BY <1>0, <2>2, <3>1, <3>2, <3>3, PostStep
  <2> QED BY <1>4, <2>1, <2>2 DEF PostReversal
<1> QED BY <1>2, <1>3, <1>4

\* A stuttering step keeps the invariant.
LEMMA StutterKeeps ==
  ASSUME IInv, UNCHANGED vars
  PROVE  IInv'
<1>1. TypeInv'  BY DEF IInv, vars, TypeInv, TypeOK
<1>2. LockOK' /\ JournalOK' /\ ReverseOK' /\ ClosingOK'
  BY DEF IInv, vars, LockOK, JournalOK, ReverseOK, ClosingOK
<1>3. PlanOK'
  BY SamePeriods DEF IInv, vars, PlanOK
<1>4. (ClosedPeriodsDisjoint /\ ClosedPeriodsContiguous)'  BY SameChain DEF IInv, vars
<1>5. ReopeningStaysInPeriod'
  BY DEF IInv, vars, ReopeningStaysInPeriod, Posted, Reversals
<1> QED BY <1>1, <1>2, <1>3, <1>4, <1>5 DEF IInv

\* Every step keeps the invariant, one case per action.
LEMMA EveryStepKeeps == IInv /\ [Next]_vars => IInv'
<1> SUFFICES ASSUME IInv, [Next]_vars  PROVE IInv'  OBVIOUS
<1>1. CASE UNCHANGED vars  BY <1>1, StutterKeeps
<1>2. ASSUME NEW r \in Requests, NEW key \in Keys, NEW day \in Days,
             \/ \E lines \in ManualLines : LookUpManual(r, key, day, lines)
             \/ \E lines \in ExpenseLines : LookUpExpense(r, key, day, lines)
      PROVE  IInv'
  BY <1>2, LookUpKeeps
<1>3. ASSUME NEW r \in Requests, NEW key \in Keys, NEW day \in Days, ReadClose(r, key, day)
      PROVE  IInv'
  BY <1>3, ReadCloseKeeps
<1>4. ASSUME NEW r \in Requests, NEW key \in Keys, NEW q \in Requests,
             LookUpReversal(r, key, q) \/ ReadReopen(r, key, q)
      PROVE  IInv'
  BY <1>4, LookUpKeeps, ReadReopenKeeps
<1>5. ASSUME NEW r \in Requests, LockAndCheck(r) \/ LockAndDate(r)
      PROVE  IInv'
  BY <1>5, LockAndCheckKeeps, LockAndDateKeeps
<1>6. ASSUME NEW r \in Requests, PostManual(r) \/ PostExpense(r) \/ PostReversal(r)
      PROVE  IInv'
  BY <1>6, PostKeeps
<1>7. ASSUME NEW r \in Requests, WriteClose(r) \/ WriteReopen(r)
      PROVE  IInv'
  BY <1>7, WriteCloseKeeps, WriteReopenKeeps
<1> QED BY <1>1, <1>2, <1>3, <1>4, <1>5, <1>6, <1>7 DEF Next

\* The inductive invariant holds in every reachable state.
THEOREM PeriodInvariant == Spec => []IInv
BY Initial, EveryStepKeeps, PTL DEF Spec

\* Every variable keeps its type, and no period ends before it starts.
THEOREM TypeCorrect == Spec => []TypeOK
<1>1. IInv => TypeOK  BY DEF IInv, TypeInv
<1> QED BY PeriodInvariant, <1>1, PTL

\* Closed periods never overlap, for any number of requests and days.
THEOREM PeriodsNeverOverlap == Spec => []ClosedPeriodsDisjoint
<1>1. IInv => ClosedPeriodsDisjoint  BY DEF IInv
<1> QED BY PeriodInvariant, <1>1, PTL

\* Closed periods never leave a gap between them.
THEOREM PeriodsLeaveNoGap == Spec => []ClosedPeriodsContiguous
<1>1. IInv => ClosedPeriodsContiguous  BY DEF IInv
<1> QED BY PeriodInvariant, <1>1, PTL

\* The reversal of a closing journal is dated as the closing journal is.
THEOREM ReopeningsStayInPeriod == Spec => []ReopeningStaysInPeriod
<1>1. IInv => ReopeningStaysInPeriod  BY DEF IInv
<1> QED BY PeriodInvariant, <1>1, PTL

\* What ClosedBooksAreFrozen says of one step.
FrozenStep == \A p \in Closed : period'[p] = period[p] =>
  \A j \in Requests : journal'[j] # journal[j] => journal'[j].day \notin DaysOf(p)

\* A journal is dated outside the periods that are closed and stay closed: a
\* posting by its plan, a close because it dates after the latest closed period, a
\* reopening by FirstOpenDayIsOpen.
LEMMA StepLeavesBooksFrozen == IInv /\ [Next]_vars => FrozenStep
<1> SUFFICES ASSUME IInv, [Next]_vars, NEW p \in Closed, period'[p] = period[p],
                    NEW j \in Requests, journal'[j] # journal[j]
             PROVE  journal'[j].day \notin DaysOf(p)
  BY DEF FrozenStep
<1>0. /\ LastDay \in Nat /\ p \in Requests
      /\ journal = [i \in Requests |-> journal[i]]
      /\ period[p].start \in 0 .. LastDay + 1 /\ period[p].end \in 0 .. LastDay
  BY PeriodAssumption DEF IInv, TypeInv, TypeOK, Closed
<1>i. ASSUME NEW r \in Requests, NEW type, NEW day, NEW lines, NEW original, NEW key,
             Insert(r, type, day, lines, original, key), day \notin DaysOf(p)
      PROVE  journal'[j].day \notin DaysOf(p)
  BY <1>0, <1>i DEF Insert
<1>1. ASSUME NEW r \in Requests, PostManual(r) \/ PostExpense(r) \/ PostReversal(r)
      PROVE  journal'[j].day \notin DaysOf(p)
  <2>1. pc[r] = "locked" /\ job[r].kind \in {"manual", "expense", "reverse"}
    BY <1>1 DEF PostManual, PostExpense, PostReversal
  <2>2. plan[r].day \notin DaysOf(p)
    BY <2>1 DEF IInv, PlanOK, InClosedPeriod
  <2>3. \E type, lines, original, key : Insert(r, type, plan[r].day, lines, original, key)
    BY <1>1 DEF PostManual, PostExpense, PostReversal
  <2> QED BY <1>i, <2>2, <2>3
<1>2. ASSUME NEW r \in Requests, WriteClose(r)
      PROVE  journal'[j].day \notin DaysOf(p)
  <2>1. /\ pc[r] = "locked" /\ job[r].kind = "close"
        /\ \E lines : Insert(r, "ACCOUNTING_PERIOD_CLOSE", job[r].day, lines, None, job[r].key)
    BY <1>2 DEF WriteClose
  <2>2. /\ period[p].end < plan[r].day /\ plan[r].day <= job[r].day
        /\ plan[r].day \in Int /\ job[r].day \in Int
    BY <1>0, <2>1 DEF IInv, PlanOK, TypeInv, TypeOK
  <2>3. job[r].day \notin DaysOf(p)  BY <1>0, <2>2 DEF DaysOf
  <2> QED BY <1>i, <2>1, <2>3
<1>3. ASSUME NEW r \in Requests, WriteReopen(r)
      PROVE  journal'[j].day \notin DaysOf(p)
  <2> DEFINE q == job[r].target
             day == FirstOpenDay(period[q].end, StillClosed(q))
  <2>1. /\ pc[r] = "locked" /\ job[r].kind = "reopen"
        /\ \E lines, original, key : Insert(r, "REVERSAL", day, lines, original, key)
    BY <1>3 DEF WriteReopen
  <2>2. q \in Closed /\ q \in Requests  BY <2>1 DEF IInv, PlanOK, Closed
  <2>3. p # q
    <3>1. period' = [period EXCEPT ![q] = [status |-> "OPEN", start |-> period[q].start,
                                           end |-> period[q].end, closing |-> period[q].closing]]
      BY <1>3 DEF WriteReopen
    <3>2. period'[q].status = "OPEN"  BY <2>2, <3>1 DEF IInv, TypeInv, TypeOK
    <3>3. period[p].status = "CLOSED"  BY DEF Closed
    <3> QED BY <3>2, <3>3
  <2>4. day \notin DaysOf(p)
    <3>1. period[q].end \in 0 .. LastDay + 1  BY <1>0, <2>2 DEF IInv, TypeInv, TypeOK
    <3>2. StillClosed(q) \in SUBSET Requests /\ p \in StillClosed(q)
      BY <2>3 DEF StillClosed, Closed
    <3> QED BY <3>1, <3>2, FirstOpenDayIsOpen DEF IInv
  <2> HIDE DEF day
  <2> QED BY <1>i, <2>1, <2>4
<1>4. journal' # journal  OBVIOUS
<1>5. ASSUME NEW r \in Requests, NEW key, NEW day, NEW lines, NEW q,
             \/ LookUpManual(r, key, day, lines) \/ LookUpExpense(r, key, day, lines)
             \/ LookUpReversal(r, key, q) \/ ReadClose(r, key, day) \/ ReadReopen(r, key, q)
             \/ LockAndCheck(r) \/ LockAndDate(r)
      PROVE  UNCHANGED journal
  BY <1>5 DEF LookUpManual, LookUpExpense, LookUpReversal, LockAndCheck, LockAndDate,
              ReadClose, ReadReopen
<1>6. Next  BY <1>4 DEF vars
<1>7. \E r \in Requests : \/ PostManual(r) \/ PostExpense(r) \/ PostReversal(r)
                          \/ WriteClose(r) \/ WriteReopen(r)
  BY <1>4, <1>5, <1>6 DEF Next
<1> QED BY <1>1, <1>2, <1>3, <1>7

\* No journal is ever dated in a period that stays closed (INV-ACC-005), however
\* postings, closes and reopenings interleave.
THEOREM BooksStayFrozen == Spec => ClosedBooksAreFrozen
<1>1. IInv /\ [Next]_vars => [FrozenStep]_vars  BY StepLeavesBooksFrozen
<1>2. ClosedBooksAreFrozen <=> [][FrozenStep]_vars
  BY DEF ClosedBooksAreFrozen, FrozenStep
<1> QED BY PeriodInvariant, <1>1, <1>2, PTL DEF Spec
----------------------------------------------------------------------------
(* What is in the books of a closed period.  The net a close has read is    *)
(* still the net when it is written, and the closing journals that were     *)
(* left out of it have been reversed, on their own day.                     *)

\* Every journal has an amount on every income and expense account.
LinesOK == \A j \in Requests : journal[j].lines \in [Temporary -> Int]

\* What a close has read of the journals: the net of its range, and, when nothing is
\* closed, the first day there is anything.
ReadIsTrue(read, end) ==
  /\ read.net = NetOf(read.day, end)
  /\ Closed = {} => \A j \in Posted : read.day <= journal[j].day
\* It stays true while the close holds the lock.
NetOK == \A r \in Requests : pc[r] = "locked" /\ job[r].kind = "close" =>
  ReadIsTrue(plan[r], job[r].day)

\* A closing journal is reversed on its own day, whichever period it belongs to by then.
CloseReversalOK == \A c \in Posted : journal[c].type = "ACCOUNTING_PERIOD_CLOSE" =>
  \A j \in Reversals(c) : journal[j].day = journal[c].day

\* A closing journal that is not reversed is that of a closed period.
CloseHeldOK == \A c \in Posted : journal[c].type = "ACCOUNTING_PERIOD_CLOSE" =>
  Reversals(c) # {} \/ \E p \in Closed : period[p].closing = c

\* What the proof of FirstCloseZeroesOut needs beyond IInv.
BooksInv ==
  /\ IsFiniteSet(Posted) /\ LinesOK /\ NetOK /\ CloseReversalOK /\ CloseHeldOK
  /\ FirstCloseZeroesOut

\* No journal of p's days has a closing journal reversed by it.
NeverReversed(p) == \A c \in Posted : \A j \in Reversals(c) :
  journal[c].type = "ACCOUNTING_PERIOD_CLOSE" => journal[j].day \notin DaysOf(p)
\* What FirstCloseZeroesOut says of one period.
ZeroedOut(p) == NeverReversed(p) => \A a \in Temporary : NetWithin(p, a) = 0

\* At first there is nothing in the books.
LEMMA BooksInitial == Init => BooksInv
<1> SUFFICES ASSUME Init PROVE BooksInv  OBVIOUS
<1>1. Closed = {} /\ Posted = {}
  BY DEF Init, Closed, Posted, NoPeriod, NoJournal
<1>2. IsFiniteSet(Posted)  BY <1>1, FS_EmptySet
<1>3. LinesOK  BY DEF Init, LinesOK, NoJournal, NoLines
<1>4. NetOK  BY DEF Init, NetOK
<1>5. CloseReversalOK /\ CloseHeldOK /\ FirstCloseZeroesOut
  BY <1>1 DEF CloseReversalOK, CloseHeldOK, FirstCloseZeroesOut
<1> QED BY <1>2, <1>3, <1>4, <1>5 DEF BooksInv

\* A step that writes neither a journal nor a period keeps the books; the net it may
\* have read is the net.
LEMMA SameBooks ==
  ASSUME BooksInv, UNCHANGED <<journal, period>>,
         \A q \in Requests : pc'[q] = "locked" /\ job'[q].kind = "close" =>
           ReadIsTrue(plan'[q], job'[q].day)
  PROVE  BooksInv'
<1>1. Posted' = Posted /\ Closed' = Closed /\ (\A c : Reversals(c)' = Reversals(c))
  BY DEF Posted, Closed, Reversals
<1>2. NetOK'
  BY <1>1 DEF NetOK, ReadIsTrue, NetOf, Posted
<1>3. LinesOK' /\ CloseReversalOK' /\ CloseHeldOK'
  BY <1>1 DEF BooksInv, LinesOK, CloseReversalOK, CloseHeldOK
<1>4. FirstCloseZeroesOut'
  BY <1>1 DEF BooksInv, FirstCloseZeroesOut, NetWithin, DaysOf
<1> QED BY <1>1, <1>2, <1>3, <1>4 DEF BooksInv

\* The plans of the requests that already held the lock are as true as they were.
LEMMA QuietBooks ==
  ASSUME BooksInv, UNCHANGED <<journal, period>>,
         \A q \in Requests : pc'[q] = "locked" /\ job'[q].kind = "close" =>
           /\ pc[q] = "locked" /\ job[q].kind = "close"
           /\ plan'[q] = plan[q] /\ job'[q] = job[q]
  PROVE  BooksInv'
<1>1. \A q \in Requests : pc'[q] = "locked" /\ job'[q].kind = "close" =>
        ReadIsTrue(plan'[q], job'[q].day)
  BY DEF BooksInv, NetOK
<1> QED BY <1>1, SameBooks

\* The write of one journal, before what it means for closing journals.  A period
\* that stays closed is as it was, and no plan is left to keep.
LEMMA WrittenBooks ==
  ASSUME IInv, BooksInv, FrozenStep, NEW r \in Requests, pc[r] = "locked",
         pc' = [pc EXCEPT ![r] = "done"],
         \A j \in Requests \ {r} : journal'[j] = journal[j],
         journal'[r].lines \in [Temporary -> Int]
  PROVE  /\ IsFiniteSet(Posted') /\ LinesOK' /\ NetOK'
         /\ Posted \subseteq Posted' /\ Posted' \subseteq Posted \cup {r}
         /\ r \notin Posted
         /\ \A c \in Requests : Reversals(c) \subseteq Reversals(c)'
         /\ \A p \in Closed : period'[p] = period[p] => ZeroedOut(p)'
<1>0. r \notin Posted
  BY DEF IInv, JournalOK, Posted
<1>1. Posted \subseteq Posted' /\ Posted' \subseteq Posted \cup {r}
  BY <1>0 DEF Posted
<1>2. IsFiniteSet(Posted')
  <2>1. IsFiniteSet(Posted \cup {r})
    BY FS_AddElement DEF BooksInv
  <2> QED BY <1>1, <2>1, FS_Subset
<1>3. LinesOK'
  BY DEF BooksInv, LinesOK
<1>4. NetOK'
  BY DEF NetOK, IInv, LockOK, TypeInv, TypeOK
<1>5. \A c \in Requests : Reversals(c) \subseteq Reversals(c)'
  BY <1>0, <1>1 DEF Reversals, Posted
<1>6. ASSUME NEW p \in Closed, period'[p] = period[p], NeverReversed(p)'
      PROVE  \A a \in Temporary : NetWithin(p, a)' = 0
  <2>1. DaysOf(p)' = DaysOf(p)
    BY <1>6 DEF DaysOf
  <2>2. NeverReversed(p)
    <3> SUFFICES ASSUME NEW c \in Posted, NEW j \in Reversals(c),
                        journal[c].type = "ACCOUNTING_PERIOD_CLOSE"
                 PROVE  journal[j].day \notin DaysOf(p)
      BY DEF NeverReversed
    <3>1. c \in Posted' /\ j \in Reversals(c)' /\ c # r /\ j # r /\ c \in Requests /\ j \in Requests
      BY <1>0, <1>1, <1>5 DEF Posted, Reversals
    <3> QED BY <1>6, <2>1, <3>1 DEF NeverReversed
  <2> DEFINE S == {j \in Posted : journal[j].day \in DaysOf(p)}
  <2>3. {j \in Posted : journal[j].day \in DaysOf(p)}' = S
    BY <1>0, <1>1, <1>6, <2>1 DEF FrozenStep, Posted
  <2>4. IsFiniteSet(S)
    BY FS_Subset DEF BooksInv
  <2>5. \A j \in S : j \in Requests /\ j # r /\ journal'[j] = journal[j]
    BY <1>0 DEF Posted
  <2> TAKE a \in Temporary
  <2> DEFINE f == [j \in Requests |-> journal[j].lines[a]]
             g == [j \in Requests |-> journal'[j].lines[a]]
  <2>6. \A j \in S : f[j] = g[j] /\ f[j] \in Int
    BY <2>5 DEF BooksInv, LinesOK
  <2>7. SumFunctionOnSet(f, S) = SumFunctionOnSet(g, S)
    <3> HIDE DEF f, g, S
    <3> QED BY <2>4, <2>6, SumSame
  <2>8. NetWithin(p, a) = SumFunctionOnSet(f, S)
    BY DEF NetWithin
  <2>9. NetWithin(p, a)' = SumFunctionOnSet(g, S)
    BY <2>3 DEF NetWithin
  <2>10. NetWithin(p, a) = 0
    BY <2>2 DEF BooksInv, FirstCloseZeroesOut, NeverReversed
  <2> QED BY <2>7, <2>8, <2>9, <2>10
<1>7. \A p \in Closed : period'[p] = period[p] => ZeroedOut(p)'
  BY <1>6 DEF ZeroedOut
<1> QED BY <1>0, <1>1, <1>2, <1>3, <1>4, <1>5, <1>7
\* A posting is not a closing journal and reverses none.
LEMMA PostBooks ==
  ASSUME IInv, BooksInv, FrozenStep, NEW r \in Requests,
         PostManual(r) \/ PostExpense(r) \/ PostReversal(r)
  PROVE  BooksInv'
<1>0. /\ None \notin Requests
      /\ pc \in [Requests -> {"idle", "looked", "locked", "done", "failed"}]
      /\ job[r] \in JobType /\ job[r].lines \in [Temporary -> Int]
      /\ journal = [j \in Requests |-> journal[j]]
      /\ pc[r] = "locked" /\ UNCHANGED <<job, plan, period>>
      /\ job[r].kind \in {"manual", "expense", "reverse"}
  BY PeriodAssumption
     DEF IInv, TypeInv, TypeOK, JobType, PostManual, PostExpense, PostReversal
<1>1. CASE /\ UNCHANGED journal
           /\ \E q : Finish(r, "done", q) \/ Finish(r, "failed", q)
  <2>1. \A q \in Requests : pc'[q] = "locked" => pc[q] = "locked"
    BY <1>0, <1>1 DEF Finish
  <2> QED BY <1>0, <1>1, <2>1, QuietBooks
<1>2. ASSUME NEW type \in {"MANUAL_ADJUSTMENT", "EXPENSE", "REVERSAL"}, NEW lines \in [Temporary -> Int],
             NEW original, NEW key, NEW day, Insert(r, type, day, lines, original, key),
             Finish(r, "done", r),
             type = "REVERSAL" => job[original].kind = "expense"
      PROVE  BooksInv'
  <2>1. /\ pc' = [pc EXCEPT ![r] = "done"]
        /\ \A j \in Requests \ {r} : journal'[j] = journal[j]
        /\ journal'[r] = [type |-> type, day |-> day, lines |-> lines, original |-> original,
                          key |-> key]
    BY <1>0, <1>2 DEF Finish, Insert
  <2>2. /\ IsFiniteSet(Posted') /\ LinesOK' /\ NetOK'
        /\ Posted \subseteq Posted' /\ Posted' \subseteq Posted \cup {r}
        /\ r \notin Posted
        /\ \A c \in Requests : Reversals(c) \subseteq Reversals(c)'
        /\ \A p \in Closed : period'[p] = period[p] => ZeroedOut(p)'
    <3>1. journal'[r].lines \in [Temporary -> Int]
      BY <1>2, <2>1
    <3> QED BY <1>0, <2>1, <3>1, WrittenBooks
  <2>3. Closed' = Closed /\ FirstCloseZeroesOut'
    <3>1. Closed' = Closed
      BY <1>0 DEF Closed
    <3> QED BY <1>0, <2>2, <3>1 DEF FirstCloseZeroesOut, ZeroedOut, NeverReversed
  <2>4. ASSUME NEW c \in Posted', journal'[c].type = "ACCOUNTING_PERIOD_CLOSE"
        PROVE  c \in Posted /\ c \in Requests /\ journal'[c] = journal[c] /\ Reversals(c)' = Reversals(c)
    <3>1. c # r /\ c \in Requests /\ c \in Posted /\ journal'[c] = journal[c]
      BY <1>2, <2>1, <2>2, <2>4 DEF Posted
    <3>2. r \notin Reversals(c)'
      BY <1>2, <2>1, <2>4, <3>1 DEF Reversals, IInv, JournalOK
    <3> QED BY <2>1, <2>2, <3>1, <3>2 DEF Reversals, Posted
  <2>5. CloseReversalOK'
    <3> SUFFICES ASSUME NEW c \in Posted', journal'[c].type = "ACCOUNTING_PERIOD_CLOSE",
                        NEW j \in Reversals(c)'
                 PROVE  journal'[j].day = journal'[c].day
      BY DEF CloseReversalOK
    <3>1. c \in Posted /\ journal'[c] = journal[c] /\ j \in Reversals(c)
      BY <2>4
    <3>2. j # r /\ j \in Requests
      BY <2>2, <3>1 DEF Reversals, Posted
    <3> QED BY <2>1, <3>1, <3>2 DEF BooksInv, CloseReversalOK
  <2>6. CloseHeldOK'
    BY <1>0, <2>3, <2>4 DEF BooksInv, CloseHeldOK
  <2> QED BY <2>2, <2>3, <2>5, <2>6 DEF BooksInv
<1>3. CASE PostManual(r)
  <2>1. \/ Insert(r, "MANUAL_ADJUSTMENT", plan[r].day, job[r].lines, None, job[r].key)
             /\ Finish(r, "done", r)
        \/ UNCHANGED journal /\ \E q : Finish(r, "done", q)
    BY <1>3 DEF PostManual
  <2> QED BY <1>0, <1>1, <1>2, <2>1
<1>4. CASE PostExpense(r)
  <2>1. \/ Insert(r, "EXPENSE", plan[r].day, job[r].lines, None, job[r].key)
             /\ Finish(r, "done", r)
        \/ UNCHANGED journal /\ Finish(r, "failed", None)
    BY <1>4 DEF PostExpense
  <2> QED BY <1>0, <1>1, <1>2, <2>1
<1>5. CASE PostReversal(r)
  <2> DEFINE original == job[r].target
  <2>1. \/ Insert(r, "REVERSAL", plan[r].day, Negated(journal[original].lines), original, None)
             /\ Finish(r, "done", r)
        \/ UNCHANGED journal /\ Finish(r, "failed", None)
    BY <1>5 DEF PostReversal
  <2>2. original \in Requests /\ job[original].kind = "expense"
    BY <1>0, <1>5 DEF IInv, ReverseOK, PostReversal
  <2>3. Negated(journal[original].lines) \in [Temporary -> Int]
    BY <2>2 DEF BooksInv, LinesOK, Negated
  <2> QED BY <1>0, <1>1, <1>2, <2>1, <2>2, <2>3
<1> QED BY <1>3, <1>4, <1>5

\* A close writes the negated net of its range on the range's last day.  What the net
\* left out are closing journals that have been reversed in the range, since those of
\* closed periods are dated before it.
LEMMA CloseBooks ==
  ASSUME IInv, BooksInv, FrozenStep, IInv', NEW r \in Requests, WriteClose(r)
  PROVE  BooksInv'
<1> DEFINE start == plan[r].day
           end == job[r].day
           net == plan[r].net
           posts == \E a \in Temporary : net[a] # 0
<1>0. /\ None \notin Requests
      /\ pc \in [Requests -> {"idle", "looked", "locked", "done", "failed"}]
      /\ journal = [j \in Requests |-> journal[j]]
      /\ pc[r] = "locked" /\ job[r].kind = "close" /\ UNCHANGED <<job, plan>>
      /\ pc' = [pc EXCEPT ![r] = "done"]
      /\ start \in Int /\ end \in Int /\ start <= end
      /\ \A q \in Closed : period[q].end < start
  BY PeriodAssumption DEF IInv, TypeInv, TypeOK, WriteClose, Finish, PlanOK
<1>p. PICK p \in Requests :
        /\ IF Reclosed(start, end) # {} THEN p \in Reclosed(start, end) ELSE p = r
        /\ period' = [period EXCEPT ![p] =
                [status |-> "CLOSED", start |-> start, end |-> end,
                 closing |-> IF posts THEN r ELSE None]]
  BY DEF WriteClose
<1>1. /\ p \notin Closed
      /\ \A q \in Requests \ {p} : period'[q] = period[q]
      /\ period'[p] = [status |-> "CLOSED", start |-> start, end |-> end,
                       closing |-> IF posts THEN r ELSE None]
  <2>1. p \notin Closed
    BY <1>0, <1>p DEF Closed, Reclosed, IInv, ClosingOK
  <2>2. period = [q \in Requests |-> period[q]]
    BY DEF IInv, TypeInv, TypeOK
  <2> HIDE DEF start, end, posts
  <2> QED BY <1>p, <2>1, <2>2
<1>2. Closed' = Closed \cup {p} /\ DaysOf(p)' = start .. end
  <2> HIDE DEF start, end, posts
  <2> QED BY <1>1 DEF Closed, DaysOf
<1>n. net = NetOf(start, end)
  BY <1>0 DEF BooksInv, NetOK, ReadIsTrue
<1> DEFINE N == {j \in Posted : /\ journal[j].type # "ACCOUNTING_PERIOD_CLOSE"
                                /\ journal[j].day \in start .. end}
           was(a) == [j \in Requests |-> journal[j].lines[a]]
           now(a) == [j \in Requests |-> journal'[j].lines[a]]
<1>s. IsFiniteSet(N) /\ \A a \in Temporary, j \in N : was(a)[j] \in Int
  <2>1. N \subseteq Posted /\ Posted \subseteq Requests
    BY DEF Posted
  <2>2. IsFiniteSet(N)
    BY <2>1, FS_Subset DEF BooksInv
  <2> QED BY <2>1, <2>2 DEF BooksInv, LinesOK
<1>t. \A a \in Temporary : net[a] = SumFunctionOnSet(was(a), N) /\ net[a] \in Int
  <2> TAKE a \in Temporary
  <2>1. net[a] = SumFunctionOnSet(was(a), N)
    BY <1>n DEF NetOf
  <2>2. SumFunctionOnSet(was(a), N) \in Int
    <3> DEFINE f == was(a)
    <3>1. \A j \in N : f[j] \in Int
      BY <1>s
    <3> HIDE DEF f, N
    <3> QED BY <1>s, <3>1, SumInt DEF f
  <2> QED BY <2>1, <2>2
<1>3. /\ \A j \in Requests \ {r} : journal'[j] = journal[j]
      /\ posts => journal'[r] = [type |-> "ACCOUNTING_PERIOD_CLOSE", day |-> end,
                                 lines |-> Negated(net), original |-> None, key |-> job[r].key]
      /\ ~posts => journal' = journal
  <2>1. \/ posts /\ Insert(r, "ACCOUNTING_PERIOD_CLOSE", end, Negated(net), None, job[r].key)
        \/ ~posts /\ UNCHANGED journal
    BY DEF WriteClose
  <2> HIDE DEF start, end, net, posts
  <2> QED BY <1>0, <2>1 DEF Insert
<1>4. journal'[r].lines \in [Temporary -> Int]
  <2>1. Negated(net) \in [Temporary -> Int]
    <3>1. \A a \in Temporary : net[a] \in Int
      BY <1>t
    <3> HIDE DEF net
    <3> QED BY <3>1 DEF Negated
  <2>2. CASE posts
    <3> HIDE DEF start, end, net, posts
    <3> QED BY <1>3, <2>1, <2>2
  <2>3. CASE ~posts
    BY <1>3, <2>3 DEF BooksInv, LinesOK
  <2> QED BY <2>2, <2>3
<1> HIDE DEF N, was, now, start, end, net, posts
<1>5. /\ IsFiniteSet(Posted') /\ LinesOK' /\ NetOK'
      /\ Posted \subseteq Posted' /\ Posted' \subseteq Posted \cup {r}
      /\ r \notin Posted
      /\ \A c \in Requests : Reversals(c) \subseteq Reversals(c)'
      /\ \A q \in Closed : period'[q] = period[q] => ZeroedOut(q)'
  BY <1>0, <1>3, <1>4, WrittenBooks
<1>6. \A c \in Posted : /\ c \in Requests /\ c # r /\ journal'[c] = journal[c]
                        /\ Reversals(c)' = Reversals(c)
  <2> TAKE c \in Posted
  <2>1. c \in Requests /\ c # r
    BY <1>5 DEF Posted
  <2>2. r \notin Reversals(c)'
    <3>1. CASE posts
      BY <1>3, <3>1 DEF Reversals
    <3>2. CASE ~posts
      BY <1>3, <1>5, <3>2 DEF Reversals, Posted
    <3> QED BY <3>1, <3>2
  <2>3. Reversals(c)' = Reversals(c)
    BY <1>3, <1>5, <2>1, <2>2 DEF Reversals, Posted
  <2> QED BY <1>3, <2>1, <2>3
<1>7. posts => Posted' = Posted \cup {r} /\ Reversals(r)' = {}
  <2> SUFFICES ASSUME posts PROVE Posted' = Posted \cup {r} /\ Reversals(r)' = {}
    OBVIOUS
  <2>1. r \in Posted'
    BY <1>3 DEF Posted
  <2>2. \A j \in Requests \ {r} : journal[j].type = "REVERSAL" => journal[j].original # r
    BY <1>0 DEF IInv, JournalOK
  <2>3. Reversals(r)' = {}
    BY <1>3, <2>2 DEF Reversals, Posted
  <2> QED BY <1>5, <2>1, <2>3
<1>8. ~posts => Posted' = Posted
  BY <1>3 DEF Posted
<1>9. CloseReversalOK'
  <2> SUFFICES ASSUME NEW c \in Posted', journal'[c].type = "ACCOUNTING_PERIOD_CLOSE",
                      NEW j \in Reversals(c)'
               PROVE  journal'[j].day = journal'[c].day
    BY DEF CloseReversalOK
  <2>1. c \in Posted
    BY <1>5, <1>7, <1>8
  <2>2. j \in Reversals(c) /\ j \in Posted /\ journal'[c] = journal[c]
    BY <1>6, <2>1 DEF Reversals
  <2>3. journal'[j] = journal[j]
    BY <1>6, <2>2
  <2> QED BY <2>1, <2>2, <2>3 DEF BooksInv, CloseReversalOK
<1>10. CloseHeldOK'
  <2> SUFFICES ASSUME NEW c \in Posted', journal'[c].type = "ACCOUNTING_PERIOD_CLOSE",
                      Reversals(c)' = {}
               PROVE  \E q \in Closed' : period'[q].closing = c
    BY DEF CloseHeldOK
  <2>1. CASE c \in Posted
    <3>1. journal'[c] = journal[c] /\ Reversals(c) = {}
      BY <1>6, <2>1
    <3>2. PICK q \in Closed : period[q].closing = c
      BY <2>1, <3>1 DEF BooksInv, CloseHeldOK
    <3>3. q \in Requests \ {p}
      BY <1>1 DEF Closed
    <3> QED BY <1>1, <1>2, <3>2, <3>3
  <2>2. CASE c = r /\ posts
    BY <1>1, <1>2, <2>2
  <2> QED BY <1>5, <1>7, <1>8, <2>1, <2>2
<1>11. ZeroedOut(p)'
  <2> SUFFICES ASSUME NeverReversed(p)' PROVE \A a \in Temporary : NetWithin(p, a)' = 0
    BY DEF ZeroedOut
  <2> DEFINE S == {j \in Posted : journal[j].day \in DaysOf(p)}'
  <2>1. ASSUME NEW j \in Posted, journal[j].day \in start .. end
        PROVE  journal[j].type # "ACCOUNTING_PERIOD_CLOSE"
    <3> SUFFICES ASSUME journal[j].type = "ACCOUNTING_PERIOD_CLOSE" PROVE FALSE
      OBVIOUS
    <3>1. CASE Reversals(j) # {}
      <4>1. PICK i \in Reversals(j) : TRUE
        BY <3>1
      <4>2. i \in Posted /\ journal[i].day = journal[j].day
        BY <4>1 DEF BooksInv, CloseReversalOK, Reversals
      <4>3. journal'[i] = journal[i] /\ journal'[j] = journal[j] /\ i \in Reversals(j)' /\ j \in Posted'
        BY <1>5, <1>6, <4>2
      <4>4. journal'[i].day \notin DaysOf(p)'
        BY <4>3 DEF NeverReversed
      <4> QED BY <1>2, <2>1, <4>2, <4>3, <4>4
    <3>2. CASE Reversals(j) = {}
      <4>1. PICK q \in Closed : period[q].closing = j
        BY <3>2 DEF BooksInv, CloseHeldOK
      <4>2. q \in Requests /\ j # None
        BY <1>0 DEF Closed, Posted
      <4>3. journal[j].day = period[q].end
        BY <4>1, <4>2 DEF IInv, ClosingOK
      <4>4. period[q].end < start /\ period[q].end \in Int
        BY <1>0, <4>1, <4>2 DEF IInv, TypeInv, TypeOK
      <4> QED BY <1>0, <2>1, <4>3, <4>4
    <3> QED BY <3>1, <3>2
  <2>2. {j \in Posted : journal[j].day \in start .. end} = N
    BY <2>1 DEF N
  <2>3. \A j \in N : j \in Posted /\ j \in Requests /\ j # r /\ journal'[j] = journal[j]
    BY <1>6 DEF N
  <2> TAKE a \in Temporary
  <2>4. NetWithin(p, a)' = SumFunctionOnSet(now(a), S)
    BY DEF NetWithin, now
  <2>5. \A j \in N : was(a)[j] = now(a)[j] /\ was(a)[j] \in Int
    BY <1>s, <2>3 DEF was, now
  <2>6. SumFunctionOnSet(now(a), N) = net[a]
    <3> DEFINE f == was(a)
               g == now(a)
    <3>1. \A j \in N : f[j] = g[j] /\ f[j] \in Int
      BY <2>5
    <3> HIDE DEF f, g
    <3>2. SumFunctionOnSet(f, N) = SumFunctionOnSet(g, N)
      BY <1>s, <3>1, SumSame
    <3> QED BY <1>t, <3>2 DEF f, g
  <2>7. CASE posts
    <3>1. S = N \cup {r}
      <4>1. journal'[r].day \in start .. end
        BY <1>0, <1>3, <2>7
      <4> QED BY <1>2, <1>6, <1>7, <2>2, <2>7, <4>1
    <3>2. r \notin N
      BY <2>3
    <3>3. now(a)[r] = -net[a]
      BY <1>3, <2>7 DEF now, Negated
    <3> DEFINE g == now(a)
    <3>4. \A j \in N \cup {r} : g[j] \in Int
      BY <1>t, <2>5, <3>3
    <3>5. g[r] = -net[a]
      BY <3>3
    <3> HIDE DEF g
    <3>6. SumFunctionOnSet(g, N \cup {r}) = g[r] + SumFunctionOnSet(g, N)
      BY <1>s, <3>2, <3>4, SumAdd
    <3>7. SumFunctionOnSet(g, N) = net[a]
      BY <2>6 DEF g
    <3>8. SumFunctionOnSet(g, N \cup {r}) = 0
      BY <1>t, <3>5, <3>6, <3>7
    <3> QED BY <2>4, <3>1, <3>8 DEF g
  <2>8. CASE ~posts
    <3>1. S = N
      BY <1>2, <1>6, <1>8, <2>2, <2>8
    <3>2. net[a] = 0
      BY <2>8 DEF posts
    <3> QED BY <2>4, <2>6, <3>1, <3>2
  <2> QED BY <2>7, <2>8
<1>12. FirstCloseZeroesOut'
  <2>1. \A q \in Closed' : ZeroedOut(q)'
    <3> TAKE q \in Closed'
    <3>1. CASE q = p
      BY <1>11, <3>1
    <3>2. CASE q # p
      <4>1. q \in Closed /\ period'[q] = period[q]
        BY <1>1, <1>2, <3>2 DEF Closed
      <4> QED BY <1>5, <4>1
    <3> QED BY <3>1, <3>2
  <2> QED BY <2>1 DEF FirstCloseZeroesOut, ZeroedOut, NeverReversed
<1> QED BY <1>5, <1>9, <1>10, <1>12 DEF BooksInv
\* A reopening reverses the closing journal of its period on the day it is dated.
LEMMA ReopenBooks ==
  ASSUME IInv, BooksInv, FrozenStep, NEW r \in Requests, WriteReopen(r)
  PROVE  BooksInv'
<1> DEFINE p == job[r].target
           closing == period[p].closing
           day == FirstOpenDay(period[p].end, StillClosed(p))
<1>0. /\ LastDay \in Nat /\ None \notin Requests
      /\ pc \in [Requests -> {"idle", "looked", "locked", "done", "failed"}]
      /\ journal = [j \in Requests |-> journal[j]]
      /\ pc[r] = "locked" /\ job[r].kind = "reopen" /\ UNCHANGED <<job, plan>>
      /\ pc' = [pc EXCEPT ![r] = "done"]
  BY PeriodAssumption DEF IInv, TypeInv, TypeOK, WriteReopen, Finish
<1>p. \A q \in Requests : /\ period[q].start \in 0 .. LastDay + 1 /\ period[q].end \in 0 .. LastDay
                          /\ period[q].start <= period[q].end
                          /\ period[q].closing \in Requests \cup {None}
  BY DEF IInv, TypeInv, TypeOK
<1>1. p \in Closed /\ p \in Requests /\ LaterClosed(p) = {}
  BY <1>0 DEF IInv, PlanOK, Closed
<1>2. /\ \A q \in Requests \ {p} : period'[q] = period[q]
      /\ Closed' = Closed \ {p}
  <2>1. /\ \A q \in Requests \ {p} : period'[q] = period[q]
        /\ period'[p] = [status |-> "OPEN", start |-> period[p].start,
                         end |-> period[p].end, closing |-> closing]
    BY <1>1 DEF WriteReopen, IInv, TypeInv, TypeOK
  <2> HIDE DEF p, closing, day
  <2> QED BY <1>1, <2>1 DEF Closed
<1>3. day = period[p].end
  <2>1. StillClosed(p) \in SUBSET Requests  BY DEF StillClosed, Closed
  <2>2. \A q \in StillClosed(p) : period[p].end \notin DaysOf(q)
    <3> TAKE q \in StillClosed(p)
    <3>1. q \in Closed /\ q # p  BY DEF StillClosed
    <3>2. DaysOf(p) \cap DaysOf(q) = {}
      BY <1>1, <3>1 DEF IInv, ClosedPeriodsDisjoint
    <3>3. period[p].end \in DaysOf(p)
      BY <1>0, <1>1, <1>p DEF DaysOf
    <3> QED BY <3>2, <3>3
  <2>3. period[p].end \in 0 .. LastDay + 1  BY <1>0, <1>1, <1>p
  <2> QED BY <2>1, <2>2, <2>3, OpenDayIsFirst DEF IInv
<1>4. closing # None => /\ closing \in Requests \ {r} /\ closing \in Posted
                        /\ journal[closing].type = "ACCOUNTING_PERIOD_CLOSE"
                        /\ journal[closing].day = period[p].end
  BY <1>0, <1>1, <1>p DEF IInv, ClosingOK, Posted
<1>5. /\ \A j \in Requests \ {r} : journal'[j] = journal[j]
      /\ closing # None =>
           journal'[r] = [type |-> "REVERSAL", day |-> day, lines |-> Negated(journal[closing].lines),
                          original |-> closing, key |-> job[r].key]
      /\ closing = None => journal' = journal
  <2>1. \/ closing = None /\ UNCHANGED journal
        \/ /\ closing # None
           /\ Insert(r, "REVERSAL", day, Negated(journal[closing].lines), closing, job[r].key)
    BY DEF WriteReopen
  <2> HIDE DEF p, closing, day
  <2> QED BY <1>0, <2>1 DEF Insert
<1>6. journal'[r].lines \in [Temporary -> Int]
  <2>1. CASE closing # None
    <3>1. journal[closing].lines \in [Temporary -> Int]
      BY <1>4, <2>1 DEF BooksInv, LinesOK
    <3>2. Negated(journal[closing].lines) \in [Temporary -> Int]
      BY <3>1 DEF Negated
    <3> HIDE DEF closing, day
    <3> QED BY <1>5, <2>1, <3>2
  <2>2. CASE closing = None
    BY <1>5, <2>2 DEF BooksInv, LinesOK
  <2> QED BY <2>1, <2>2
<1> HIDE DEF p, closing, day
<1>7. /\ IsFiniteSet(Posted') /\ LinesOK' /\ NetOK'
      /\ Posted \subseteq Posted' /\ Posted' \subseteq Posted \cup {r}
      /\ r \notin Posted
      /\ \A c \in Requests : Reversals(c) \subseteq Reversals(c)'
      /\ \A q \in Closed : period'[q] = period[q] => ZeroedOut(q)'
  BY <1>0, <1>5, <1>6, WrittenBooks
<1>8. ASSUME NEW c \in Posted', journal'[c].type = "ACCOUNTING_PERIOD_CLOSE"
      PROVE  /\ c \in Posted /\ c \in Requests /\ journal'[c] = journal[c]
             /\ Reversals(c)' \subseteq Reversals(c) \cup {r}
             /\ r \in Reversals(c)' => closing # None /\ c = closing
             /\ \A j \in Reversals(c) : j \in Posted /\ journal'[j] = journal[j]
  <2>1. c # r
    <3>1. CASE closing # None
      BY <1>5, <1>8, <3>1
    <3>2. CASE closing = None
      BY <1>5, <1>7, <1>8, <3>2 DEF Posted
    <3> QED BY <3>1, <3>2
  <2>2. c \in Posted /\ c \in Requests /\ journal'[c] = journal[c]
    BY <1>5, <1>7, <2>1 DEF Posted
  <2>3. Reversals(c)' \subseteq Reversals(c) \cup {r}
    BY <1>5, <1>7 DEF Reversals, Posted
  <2>4. r \in Reversals(c)' => closing # None /\ c = closing
    <3>1. CASE closing # None
      BY <1>5, <3>1 DEF Reversals
    <3>2. CASE closing = None
      BY <1>5, <1>7, <3>2 DEF Reversals, Posted
    <3> QED BY <3>1, <3>2
  <2>5. \A j \in Reversals(c) : j \in Posted /\ journal'[j] = journal[j]
    BY <1>5, <1>7 DEF Reversals, Posted
  <2> QED BY <2>2, <2>3, <2>4, <2>5
<1>9. CloseReversalOK'
  <2> SUFFICES ASSUME NEW c \in Posted', journal'[c].type = "ACCOUNTING_PERIOD_CLOSE",
                      NEW j \in Reversals(c)'
               PROVE  journal'[j].day = journal'[c].day
    BY DEF CloseReversalOK
  <2>1. CASE j = r
    BY <1>3, <1>4, <1>5, <1>8, <2>1
  <2>2. CASE j # r
    BY <1>8, <2>2 DEF BooksInv, CloseReversalOK
  <2> QED BY <2>1, <2>2
<1>10. CloseHeldOK'
  <2> SUFFICES ASSUME NEW c \in Posted', journal'[c].type = "ACCOUNTING_PERIOD_CLOSE",
                      Reversals(c)' = {}
               PROVE  \E q \in Closed' : period'[q].closing = c
    BY DEF CloseHeldOK
  <2>1. Reversals(c) = {} /\ c \in Posted /\ c \in Requests /\ journal[c].type = "ACCOUNTING_PERIOD_CLOSE"
    BY <1>7, <1>8
  <2>2. PICK q \in Closed : period[q].closing = c
    BY <2>1 DEF BooksInv, CloseHeldOK
  <2>3. q # p
    <3> SUFFICES ASSUME q = p PROVE FALSE
      OBVIOUS
    <3>1. closing = c /\ closing # None
      BY <1>0, <2>1, <2>2 DEF closing
    <3>2. r \in Reversals(c)'
      BY <1>5, <3>1 DEF Reversals, Posted
    <3> QED BY <3>2
  <2> QED BY <1>2, <2>2, <2>3 DEF Closed
<1>11. FirstCloseZeroesOut'
  <2>1. \A q \in Closed' : ZeroedOut(q)'
    BY <1>2, <1>7 DEF Closed
  <2> QED BY <2>1 DEF FirstCloseZeroesOut, ZeroedOut, NeverReversed
<1> QED BY <1>7, <1>9, <1>10, <1>11 DEF BooksInv

\* The day of the first journal, if there is one.
LEMMA EarliestIsFirst ==
  ASSUME TypeInv, NEW j \in Posted
  PROVE  EarliestDay <= journal[j].day
<1> DEFINE T == {journal[i].day : i \in Posted}
<1>1. T \subseteq Nat /\ T # {}
  <2>1. \A i \in Posted : journal[i].day \in 0 .. LastDay + 1
    BY DEF TypeInv, TypeOK, Posted
  <2> QED BY <2>1, PeriodAssumption
<1>2. PICK m \in T : \A n \in T : m <= n
  <2> HIDE DEF T
  <2> QED BY <1>1, LeastNumber
<1>3. \A i \in Posted : EarliestDay <= journal[i].day
  BY <1>2 DEF EarliestDay
<1> QED BY <1>3

\* The reads keep the books, a close's with the net it has read.
LEMMA ReadBooks ==
  ASSUME IInv, BooksInv, NEW r \in Requests, NEW key, NEW day, NEW lines, NEW q,
         \/ LookUpManual(r, key, day, lines) \/ LookUpExpense(r, key, day, lines)
         \/ LookUpReversal(r, key, q) \/ ReadClose(r, key, day) \/ ReadReopen(r, key, q)
         \/ LockAndCheck(r) \/ LockAndDate(r)
  PROVE  BooksInv'
<1>0. /\ pc \in [Requests -> {"idle", "looked", "locked", "done", "failed"}]
      /\ job = [x \in Requests |-> job[x]]
      /\ plan = [x \in Requests |-> plan[x]]
      /\ UNCHANGED <<journal, period>>
  BY DEF IInv, TypeInv, TypeOK, LookUpManual, LookUpExpense, LookUpReversal, LockAndCheck,
         LockAndDate, ReadClose, ReadReopen
<1>1. ASSUME NEW o \in Requests, o # r
      PROVE  /\ pc'[o] = "locked" => pc[o] = "locked"
             /\ plan'[o] = plan[o] /\ job'[o] = job[o]
  <2>1. \/ pc' = [pc EXCEPT ![r] = "locked"] \/ pc' = [pc EXCEPT ![r] = "looked"]
        \/ pc' = [pc EXCEPT ![r] = "done"] \/ pc' = [pc EXCEPT ![r] = "failed"]
    BY DEF LookUpManual, LookUpExpense, LookUpReversal, LockAndCheck, LockAndDate, ReadClose,
           ReadReopen, Proceed, Finish, ReplayEvent
  <2>2. UNCHANGED job \/ \E jb : job' = [job EXCEPT ![r] = jb]
    BY DEF LookUpManual, LookUpExpense, LookUpReversal, LockAndCheck, LockAndDate, ReadClose,
           ReadReopen, Ask
  <2>3. UNCHANGED plan \/ \E pl : plan' = [plan EXCEPT ![r] = pl]
    BY DEF LookUpManual, LookUpExpense, LookUpReversal, LockAndCheck, LockAndDate, ReadClose,
           ReadReopen
  <2> QED BY <1>0, <1>1, <2>1, <2>2, <2>3
<1>2. pc'[r] = "locked" /\ job'[r].kind = "close" => ReadIsTrue(plan'[r], job'[r].day)
  <2> SUFFICES ASSUME pc'[r] = "locked", job'[r].kind = "close"
               PROVE  ReadIsTrue(plan'[r], job'[r].day)
    OBVIOUS
  <2>1. CASE ReadClose(r, key, day)
    <3>1. /\ plan' = [plan EXCEPT ![r] = [day |-> PeriodStart, net |-> NetOf(PeriodStart, day)]]
      BY <1>0, <2>1 DEF ReadClose, Finish, ReplayEvent
    <3>2. job'[r].day = day
      BY <1>0, <2>1 DEF ReadClose, Ask
    <3>3. plan'[r] = [day |-> PeriodStart, net |-> NetOf(PeriodStart, day)]
      BY <1>0, <3>1
    <3>4. Closed = {} => \A j \in Posted : PeriodStart <= journal[j].day
      BY EarliestIsFirst DEF PeriodStart, IInv
    <3> QED BY <3>2, <3>3, <3>4 DEF ReadIsTrue
  <2>2. CASE LookUpManual(r, key, day, lines) \/ LookUpExpense(r, key, day, lines)
             \/ LookUpReversal(r, key, q) \/ ReadReopen(r, key, q)
    <3>1. job'[r].kind # "close"
      BY <1>0, <2>2 DEF LookUpManual, LookUpExpense, LookUpReversal, ReadReopen, Ask
    <3> QED BY <3>1
  <2>3. CASE LockAndCheck(r) \/ LockAndDate(r)
    BY <2>3 DEF LockAndCheck, LockAndDate
  <2> QED BY <2>1, <2>2, <2>3
<1>3. \A o \in Requests : pc'[o] = "locked" /\ job'[o].kind = "close" =>
        ReadIsTrue(plan'[o], job'[o].day)
  BY <1>1, <1>2 DEF BooksInv, NetOK
<1> QED BY <1>0, <1>3, SameBooks

\* Every step keeps the books, one case per action.
LEMMA EveryStepKeepsBooks == IInv /\ IInv' /\ BooksInv /\ [Next]_vars => BooksInv'
<1> SUFFICES ASSUME IInv, IInv', BooksInv, [Next]_vars PROVE BooksInv'
  OBVIOUS
<1>f. FrozenStep  BY StepLeavesBooksFrozen
<1>1. CASE UNCHANGED vars  BY <1>1, QuietBooks DEF vars
<1>2. ASSUME NEW r \in Requests, NEW key, NEW day, NEW lines, NEW q,
             \/ LookUpManual(r, key, day, lines) \/ LookUpExpense(r, key, day, lines)
             \/ LookUpReversal(r, key, q) \/ ReadClose(r, key, day) \/ ReadReopen(r, key, q)
             \/ LockAndCheck(r) \/ LockAndDate(r)
      PROVE  BooksInv'
  BY <1>2, ReadBooks
<1>3. ASSUME NEW r \in Requests, PostManual(r) \/ PostExpense(r) \/ PostReversal(r)
      PROVE  BooksInv'
  BY <1>3, <1>f, PostBooks
<1>4. ASSUME NEW r \in Requests, WriteClose(r) PROVE BooksInv'
  BY <1>4, <1>f, CloseBooks
<1>5. ASSUME NEW r \in Requests, WriteReopen(r) PROVE BooksInv'
  BY <1>5, <1>f, ReopenBooks
<1>6. CASE Next
  BY <1>2, <1>3, <1>4, <1>5, <1>6 DEF Next
<1> QED BY <1>1, <1>6

\* The books are kept in every reachable state.
THEOREM BooksInvariant == Spec => []BooksInv
BY BooksInitial, EveryStepKeepsBooks, PeriodInvariant, PTL DEF Spec

\* The income and expenses of a closed period in which no closing journal was reversed
\* add up to zero, whatever was posted, closed and reopened around it.
THEOREM FirstCloseAlwaysZeroesOut == Spec => []FirstCloseZeroesOut
<1>1. BooksInv => FirstCloseZeroesOut  BY DEF BooksInv
<1> QED BY BooksInvariant, <1>1, PTL
----------------------------------------------------------------------------
(* Balance sheets.  Up to the last closed day the books add up to nothing,  *)
(* period by period, so the balances are what was earned since.             *)

\* The net of a posted journal is a number.
LEMMA NetIsInt ==
  ASSUME BooksInv, NEW j \in Requests
  PROVE  Net(j) \in Int
<1> DEFINE f == journal[j].lines
<1>1. \A a \in Temporary : f[a] \in Int
  BY DEF BooksInv, LinesOK
<1> HIDE DEF f
<1>2. SumFunctionOnSet(f, Temporary) \in Int
  BY <1>1, ReportsAssumption, SumInt
<1> QED BY <1>2 DEF Net, f

\* The journals of a closed period add up to zero over all accounts.
LEMMA ClosedPeriodAddsUpToZero ==
  ASSUME BooksInv, NEW p \in Closed, NeverReversed(p)
  PROVE  SumOfNet({j \in Posted : journal[j].day \in DaysOf(p)}) = 0
<1> DEFINE S == {j \in Posted : journal[j].day \in DaysOf(p)}
           m == [j \in S |-> journal[j].lines]
           rows == [j \in S |-> SumFunctionOnSet(m[j], Temporary)]
           columns == [a \in Temporary |-> SumFunctionOnSet([j \in S |-> m[j][a]], S)]
           f == [j \in Requests |-> Net(j)]
<1>1. IsFiniteSet(S) /\ S \subseteq Posted /\ S \subseteq Requests
  BY FS_Subset DEF BooksInv, Posted
<1>2. \A j \in S : \A a \in Temporary : m[j][a] \in Int
  BY <1>1 DEF BooksInv, LinesOK
<1>3. SumFunctionOnSet(rows, S) = SumFunctionOnSet(columns, Temporary)
  <2> HIDE DEF S, m
  <2> QED BY <1>1, <1>2, ReportsAssumption, SumExchange
<1>4. \A a \in Temporary : columns[a] = 0
  <2> TAKE a \in Temporary
  <2> DEFINE g == [j \in S |-> m[j][a]]
             h == [j \in Requests |-> journal[j].lines[a]]
  <2>1. \A j \in S : g[j] = h[j] /\ g[j] \in Int
    BY <1>1, <1>2
  <2>2. SumFunctionOnSet(h, S) = 0
    BY DEF BooksInv, FirstCloseZeroesOut, NeverReversed, NetWithin
  <2> HIDE DEF S, g, h
  <2>3. SumFunctionOnSet(g, S) = SumFunctionOnSet(h, S)
    BY <1>1, <2>1, SumSame
  <2> QED BY <2>2, <2>3 DEF g
<1>5. SumFunctionOnSet(columns, Temporary) = 0
  <2> HIDE DEF columns
  <2> QED BY <1>4, ReportsAssumption, SumZero
<1>6. \A j \in S : f[j] = rows[j] /\ f[j] \in Int
  BY <1>1, NetIsInt DEF Net
<1>7. SumFunctionOnSet(f, S) = SumFunctionOnSet(rows, S)
  <2> HIDE DEF S, f, rows
  <2> QED BY <1>1, <1>6, SumSame
<1> QED BY <1>3, <1>5, <1>7 DEF SumOfNet

\* A closing journal that no sheet of the day sees reversed is that of a closed period
\* that ends on its day.
LEMMA UnreversedCloseIsHeld ==
  ASSUME IInv, BooksInv, NEW asOf, ~Reopened(asOf),
         NEW c \in Posted, IsClose(c), journal[c].day <= asOf
  PROVE  \E p \in Closed : period[p].end = journal[c].day
<1>1. Reversals(c) = {}
  BY DEF Reopened
<1>2. PICK p \in Closed : period[p].closing = c
  BY <1>1 DEF BooksInv, CloseHeldOK, IsClose
<1>3. p \in Requests /\ c # None
  BY PeriodAssumption DEF Closed, Posted
<1> QED BY <1>2, <1>3 DEF IInv, ClosingOK

\* Up to the end of a closed period everything is in a closed period that ends by then.
LEMMA ClosedUpTo ==
  ASSUME IInv, NEW asOf \in Int, ~BackDated(asOf), NEW q \in Closed, period[q].end <= asOf,
         NEW j \in Posted, journal[j].day <= period[q].end
  PROVE  \E p \in Closed : journal[j].day \in DaysOf(p) /\ period[p].end <= period[q].end
<1>1. /\ \A p \in Closed : /\ period[p].start \in Nat /\ period[p].end \in Nat
                           /\ period[p].start <= period[p].end
      /\ journal[j].day \in Nat
  <2>1. LastDay \in Nat
    BY PeriodAssumption
  <2>2. \A p \in Requests : period[p].start \in 0 .. LastDay + 1 /\ period[p].end \in 0 .. LastDay
                            /\ period[p].start <= period[p].end
    BY DEF IInv, TypeInv, TypeOK
  <2>3. journal[j].day \in 0 .. LastDay + 1
    BY DEF IInv, TypeInv, TypeOK, Posted
  <2> QED BY <2>1, <2>2, <2>3 DEF Closed
<1>2. PICK first \in Closed : \A p \in Closed : period[first].start <= period[p].start
  <2> DEFINE T == {period[p].start : p \in Closed}
  <2>1. T \subseteq Nat /\ T # {}
    BY <1>1
  <2>2. PICK m \in T : \A n \in T : m <= n
    <3> HIDE DEF T
    <3> QED BY <2>1, LeastNumber
  <2> QED BY <2>2
<1>3. \A o, p \in Closed : \A day \in DaysOf(o) \cap DaysOf(p) : o = p
  BY DEF IInv, ClosedPeriodsDisjoint
<1>4. first = q \/ (period[first].end < period[q].start /\ period[first].start < period[q].start)
  <2>1. CASE period[first].end < period[q].start
    BY <1>1, <2>1
  <2>2. CASE period[first].end >= period[q].start
    <3>1. period[q].start \in DaysOf(first) \cap DaysOf(q)
      BY <1>1, <1>2, <2>2 DEF DaysOf
    <3> QED BY <1>3, <3>1
  <2> QED BY <1>1, <2>1, <2>2
<1>5. period[first].end <= asOf
  BY <1>1, <1>4
<1>6. period[first].start <= journal[j].day
  BY <1>1, <1>2, <1>5 DEF BackDated
<1>7. InClosedPeriod(journal[j].day)
  <2>1. CASE first = q
    BY <1>1, <1>6, <2>1 DEF InClosedPeriod, DaysOf
  <2>2. CASE period[first].start < period[q].start
    <3>1. journal[j].day \in period[first].start .. period[q].end
      BY <1>1, <1>6
    <3> QED BY <2>2, <3>1 DEF IInv, ClosedPeriodsContiguous
  <2> QED BY <1>4, <2>1, <2>2
<1>8. PICK p \in Closed : journal[j].day \in DaysOf(p)
  BY <1>7 DEF InClosedPeriod
<1>9. period[p].end <= period[q].end
  <2> SUFFICES ASSUME period[p].end > period[q].end PROVE FALSE
    BY <1>1
  <2>1. period[q].end \in DaysOf(p) \cap DaysOf(q)
    BY <1>1, <1>8 DEF DaysOf
  <2>2. p = q
    BY <1>3, <2>1
  <2> QED BY <1>1, <2>2
<1> QED BY <1>8, <1>9

\* Up to the end of a closed period the books add up to nothing.
LEMMA ClosedBooksAddUpToZero ==
  ASSUME IInv, BooksInv, NEW asOf \in Int, ~Reopened(asOf), ~BackDated(asOf),
         NEW q \in Closed, period[q].end <= asOf
  PROVE  SumOfNet({j \in Posted : journal[j].day <= period[q].end}) = 0
<1> DEFINE S == {j \in Posted : journal[j].day <= period[q].end}
           f == [j \in Requests |-> Net(j)]
           Of(x) == CHOOSE p \in Closed :
                      journal[x].day \in DaysOf(p) /\ period[p].end <= period[q].end
           Block(p) == {j \in Posted : journal[j].day \in DaysOf(p)}
           B == [x \in S |-> Block(Of(x))]
<1>0. /\ \A p \in Closed : period[p].start \in Nat /\ period[p].end \in Nat
      /\ \A j \in Posted : journal[j].day \in Nat
  <2>1. LastDay \in Nat
    BY PeriodAssumption
  <2>2. \A p \in Requests : period[p].start \in 0 .. LastDay + 1 /\ period[p].end \in 0 .. LastDay
    BY DEF IInv, TypeInv, TypeOK
  <2>3. \A j \in Requests : journal[j].day \in 0 .. LastDay + 1
    BY DEF IInv, TypeInv, TypeOK
  <2> QED BY <2>1, <2>2, <2>3 DEF Closed, Posted
<1>1. \A x \in S : /\ Of(x) \in Closed /\ journal[x].day \in DaysOf(Of(x))
                   /\ period[Of(x)].end <= period[q].end
  <2> TAKE x \in S
  <2>1. \E p \in Closed : journal[x].day \in DaysOf(p) /\ period[p].end <= period[q].end
    BY ClosedUpTo
  <2> QED BY <2>1
<1>2. \A o, p \in Closed : \A day \in DaysOf(o) \cap DaysOf(p) : o = p
  BY DEF IInv, ClosedPeriodsDisjoint
<1>3. IsFiniteSet(S) /\ S \subseteq Requests
  BY FS_Subset DEF BooksInv, Posted
<1>4. \A x \in S : f[x] \in Int
  BY <1>3, NetIsInt
<1>5. \A p \in Closed : period[p].end <= period[q].end => NeverReversed(p)
  <2> SUFFICES ASSUME NEW p \in Closed, period[p].end <= period[q].end,
                      NEW c \in Posted, NEW i \in Reversals(c),
                      journal[c].type = "ACCOUNTING_PERIOD_CLOSE"
               PROVE  journal[i].day \notin DaysOf(p)
    BY DEF NeverReversed
  <2>1. journal[i].day = journal[c].day
    BY DEF BooksInv, CloseReversalOK
  <2>2. ~(journal[c].day <= asOf)
    BY DEF Reopened, IsClose
  <2> QED BY <1>0, <2>1, <2>2 DEF DaysOf
<1> HIDE DEF Of
<1>6. ASSUME NEW x \in S
      PROVE  /\ x \in B[x] /\ B[x] \subseteq S
             /\ \A y \in B[x] : B[y] = B[x]
             /\ SumFunctionOnSet(f, B[x]) = 0
  <2>1. Of(x) \in Closed /\ journal[x].day \in DaysOf(Of(x)) /\ period[Of(x)].end <= period[q].end
    BY <1>1
  <2>2. x \in B[x] /\ B[x] \subseteq S
    BY <1>0, <2>1 DEF DaysOf
  <2>3. ASSUME NEW y \in B[x] PROVE B[y] = B[x]
    <3>1. y \in S /\ journal[y].day \in DaysOf(Of(x))
      BY <2>2, <2>3
    <3>2. Of(y) \in Closed /\ journal[y].day \in DaysOf(Of(y))
      BY <1>1, <3>1
    <3>3. Of(y) = Of(x)
      BY <1>2, <2>1, <3>1, <3>2
    <3> QED BY <3>1, <3>3
  <2>4. SumFunctionOnSet(f, B[x]) = 0
    BY <1>5, <2>1, ClosedPeriodAddsUpToZero DEF SumOfNet
  <2> QED BY <2>2, <2>3, <2>4
<1>7. SumFunctionOnSet(f, S) = 0
  <2> HIDE DEF S, f, B
  <2> QED BY <1>3, <1>4, <1>6, SumBlocks
<1> QED BY <1>7 DEF SumOfNet

\* The balance sheet of any day balances, whatever was posted and closed, unless what
\* it covers was reopened or a journal was dated before everything that is closed.
LEMMA SheetOfABookBalances ==
  ASSUME IInv, BooksInv, NEW asOf \in Days, ~Reopened(asOf), ~BackDated(asOf)
  PROVE  NetAssets(asOf) = RetainedEarnings(asOf) + NetProfit(EarningsFrom(asOf), asOf)
<1> DEFINE f == [j \in Requests |-> Net(j)]
           from == EarningsFrom(asOf)
           A == {j \in Upto(asOf) : ~MovesEquity(j)}
           E == {j \in Upto(asOf) : MovesEquity(j)}
           P == {j \in Posted : ~IsClose(j) /\ journal[j].day \in from .. asOf}
           L == {j \in Posted : journal[j].day < from}
           ends == {period[p].end : p \in {q \in Closed : period[q].end <= asOf}}
<1>0. /\ asOf \in Nat
      /\ \A p \in Closed : period[p].end \in Nat
      /\ \A j \in Posted : j \in Requests /\ journal[j].day \in Nat
  <2>1. LastDay \in Nat
    BY PeriodAssumption
  <2>2. \A p \in Requests : period[p].end \in 0 .. LastDay
    BY DEF IInv, TypeInv, TypeOK
  <2>3. \A j \in Requests : journal[j].day \in 0 .. LastDay + 1
    BY DEF IInv, TypeInv, TypeOK
  <2> QED BY <2>1, <2>2, <2>3 DEF Closed, Posted, Days
<1>1. \/ from = 0 /\ ends = {}
      \/ \E q \in Closed : /\ period[q].end <= asOf /\ from = period[q].end + 1
                           /\ \A e \in ends : e <= period[q].end
  <2>1. CASE ends = {}
    BY <2>1 DEF EarningsFrom
  <2>2. CASE ends # {}
    <3> DEFINE T == {asOf - e : e \in ends}
    <3>0. ends \subseteq Nat /\ \A e \in ends : e <= asOf
      BY <1>0
    <3>1. T \subseteq Nat /\ T # {} /\ ends \subseteq Nat
      <4> HIDE DEF ends
      <4>1. \A e \in ends : asOf - e \in Nat
        BY <1>0, <3>0
      <4> QED BY <2>2, <3>0, <4>1
    <3>2. PICK m \in T : \A n \in T : m <= n
      <4> HIDE DEF T
      <4> QED BY <3>1, LeastNumber
    <3>3. PICK e \in ends : m = asOf - e
      OBVIOUS
    <3>4. \A d \in ends : d <= e
      <4> TAKE d \in ends
      <4>1. asOf - e <= asOf - d
        BY <3>2, <3>3
      <4>2. d \in Nat /\ e \in Nat
        BY <3>1
      <4> HIDE DEF ends
      <4> QED BY <1>0, <4>1, <4>2
    <3> DEFINE last == CHOOSE d \in ends : \A d2 \in ends : d2 <= d
    <3>5. last \in ends /\ \A d \in ends : d <= last
      <4> HIDE DEF ends
      <4> QED BY <3>4
    <3>6. from = last + 1
      BY <2>2 DEF EarningsFrom
    <3> HIDE DEF from, last
    <3> QED BY <3>5, <3>6
  <2> QED BY <2>1, <2>2
<1>2. from \in Nat /\ from <= asOf + 1
  <2> HIDE DEF from
  <2> QED BY <1>0, <1>1
<1>3. SumOfNet(L) = 0
  <2>1. CASE from = 0
    <3>1. L = {}
      BY <1>0, <2>1
    <3> HIDE DEF L
    <3> QED BY <3>1, SumEmpty DEF SumOfNet
  <2>2. ASSUME NEW q \in Closed, period[q].end <= asOf, from = period[q].end + 1
        PROVE  SumOfNet(L) = 0
    <3>1. L = {j \in Posted : journal[j].day <= period[q].end}
      <4> HIDE DEF from
      <4>1. \A j \in Posted : journal[j].day < from <=> journal[j].day <= period[q].end
        BY <1>0, <2>2
      <4> QED BY <4>1
    <3>2. SumOfNet({j \in Posted : journal[j].day <= period[q].end}) = 0
      BY <1>0, <2>2, ClosedBooksAddUpToZero
    <3> QED BY <3>1, <3>2
  <2> QED BY <1>1, <2>1, <2>2
<1>4. \A c \in Posted : IsClose(c) /\ journal[c].day <= asOf => journal[c].day < from
  <2> SUFFICES ASSUME NEW c \in Posted, IsClose(c), journal[c].day <= asOf
               PROVE  journal[c].day < from
    OBVIOUS
  <2>1. PICK p \in Closed : period[p].end = journal[c].day
    BY UnreversedCloseIsHeld
  <2>2. period[p].end \in ends
    BY <2>1
  <2> HIDE DEF ends, from
  <2> QED BY <1>0, <1>1, <2>1, <2>2
<1> HIDE DEF from
<1>5. A \cup E = P \cup L /\ A \cap E = {} /\ L \cap P = {}
  <2>1. A \cup E = {j \in Posted : journal[j].day <= asOf}
    BY DEF Upto
  <2>2. P \cup L = {j \in Posted : journal[j].day <= asOf}
    BY <1>0, <1>2, <1>4
  <2>3. L \cap P = {}
    BY <1>0, <1>2
  <2> QED BY <2>1, <2>2, <2>3
<1>6. /\ IsFiniteSet(A) /\ IsFiniteSet(E) /\ IsFiniteSet(P) /\ IsFiniteSet(L)
      /\ \A x \in A \cup E : f[x] \in Int
  <2>1. A \subseteq Posted /\ E \subseteq Posted /\ P \subseteq Posted /\ L \subseteq Posted
    BY DEF Upto
  <2>2. \A x \in Posted : f[x] \in Int
    BY <1>0, NetIsInt
  <2> HIDE DEF A, E, P, L, f
  <2> QED BY <2>1, <2>2, FS_Subset DEF BooksInv
<1> DEFINE sum(S) == SumFunctionOnSet(f, S)
<1>7. sum(A) \in Int /\ sum(E) \in Int /\ sum(P) \in Int
  <2>1. \A x \in P : f[x] \in Int
    BY <1>5, <1>6
  <2> HIDE DEF A, E, P, L, f
  <2> QED BY <1>6, <2>1, SumInt
<1>8. sum(A \cup E) = sum(A) + sum(E)
  <2>1. E \cap A = {}
    BY <1>5
  <2> HIDE DEF A, E, P, L, f
  <2> QED BY <1>6, <2>1, SumUnion
<1>9. sum(P \cup L) = sum(P) + sum(L)
  <2>1. \A x \in P \cup L : f[x] \in Int
    BY <1>5, <1>6
  <2> HIDE DEF A, E, P, L, f
  <2> QED BY <1>5, <1>6, <2>1, SumUnion
<1>10. sum(L) = 0
  BY <1>3 DEF SumOfNet
<1>11. /\ NetAssets(asOf) = sum(A)
       /\ RetainedEarnings(asOf) = -sum(E)
       /\ NetProfit(from, asOf) = sum(P)
  BY DEF NetAssets, RetainedEarnings, NetProfit, SumOfNet
<1>12. sum(A \cup E) = sum(P \cup L)
  BY <1>5
<1> HIDE DEF sum, A, E, P, L, f
<1>13. NetAssets(asOf) = RetainedEarnings(asOf) + NetProfit(from, asOf)
  BY <1>7, <1>8, <1>9, <1>10, <1>11, <1>12
<1> QED BY <1>13 DEF from
\* Journals are only added.
LEMMA JournalsAreKept ==
  ASSUME IInv, [Next]_vars, NEW j \in Requests
  PROVE  journal'[j] = journal[j] \/ (journal[j].type = "NONE" /\ journal'[j].type # "NONE")
<1>0. journal = [i \in Requests |-> journal[i]]
  BY DEF IInv, TypeInv
<1>1. CASE UNCHANGED journal
  BY <1>1
<1>2. ASSUME NEW r \in Requests, pc[r] = "locked", NEW type \in JournalTypes \ {"NONE"}, NEW day,
             NEW lines, NEW original, NEW key, Insert(r, type, day, lines, original, key)
      PROVE  journal'[j] = journal[j] \/ (journal[j].type = "NONE" /\ journal'[j].type # "NONE")
  <2>1. journal[r].type = "NONE"
    BY <1>2 DEF IInv, JournalOK
  <2> QED BY <1>0, <1>2, <2>1 DEF Insert
<1>3. \/ UNCHANGED journal
      \/ \E r \in Requests, type \in JournalTypes \ {"NONE"} : \E day, lines, original, key :
           pc[r] = "locked" /\ Insert(r, type, day, lines, original, key)
  <2>1. ASSUME NEW r \in Requests, NEW key, NEW day, NEW lines, NEW q,
               \/ LookUpManual(r, key, day, lines) \/ LookUpExpense(r, key, day, lines)
               \/ LookUpReversal(r, key, q) \/ ReadClose(r, key, day) \/ ReadReopen(r, key, q)
               \/ LockAndCheck(r) \/ LockAndDate(r)
        PROVE  UNCHANGED journal
    BY <2>1 DEF LookUpManual, LookUpExpense, LookUpReversal, LockAndCheck, LockAndDate,
                ReadClose, ReadReopen
  <2>2. ASSUME NEW r \in Requests,
               \/ PostManual(r) \/ PostExpense(r) \/ PostReversal(r)
               \/ WriteClose(r) \/ WriteReopen(r)
        PROVE  \/ UNCHANGED journal
               \/ \E type \in JournalTypes \ {"NONE"} : \E day, lines, original, key :
                    pc[r] = "locked" /\ Insert(r, type, day, lines, original, key)
    BY <2>2 DEF PostManual, PostExpense, PostReversal, WriteClose, WriteReopen, JournalTypes
  <2> QED BY <2>1, <2>2 DEF Next, vars
<1> QED BY <1>1, <1>2, <1>3

\* What a sheet reads of the journals does not change while they do not.
LEMMA SameJournals ==
  ASSUME journal' = journal
  PROVE  /\ Posted' = Posted
         /\ \A day : NetAssets(day)' = NetAssets(day)
         /\ \A day : RetainedEarnings(day)' = RetainedEarnings(day)
         /\ \A day : Reopened(day)' = Reopened(day)
         /\ \A from, day : NetProfit(from, day)' = NetProfit(from, day)
BY DEF NetAssets, RetainedEarnings, Reopened, NetProfit, SumOfNet, Net, Upto, MovesEquity,
       IsClose, Reversals, Posted

\* Closing and reopening alone leave no journal before the first closed period that was
\* not there before: the first period to be closed starts with the first journal.
LEMMA BackDatedStays ==
  ASSUME IInv, BooksInv, [Next]_vars, journal' = journal, NEW asOf, BackDated(asOf)'
  PROVE  BackDated(asOf)
<1>0. /\ \A q \in Requests : period[q].start \in Nat /\ period[q].end \in Nat
                             /\ period[q].start <= period[q].end
      /\ \A j \in Posted : journal[j].day \in Nat
      /\ Posted' = Posted
  <2>1. LastDay \in Nat
    BY PeriodAssumption
  <2>2. \A q \in Requests : period[q].start \in 0 .. LastDay + 1 /\ period[q].end \in 0 .. LastDay
                            /\ period[q].start <= period[q].end
    BY DEF IInv, TypeInv, TypeOK
  <2>3. \A j \in Requests : journal[j].day \in 0 .. LastDay + 1
    BY DEF IInv, TypeInv, TypeOK
  <2> QED BY <2>1, <2>2, <2>3, SameJournals DEF Posted
<1>1. PICK first \in Closed', j \in Posted :
        /\ \A q \in Closed' : period'[first].start <= period'[q].start
        /\ period'[first].end <= asOf /\ journal[j].day < period'[first].start
  BY <1>0 DEF BackDated
<1>2. CASE UNCHANGED period
  BY <1>1, <1>2 DEF BackDated, Closed
<1>3. ASSUME NEW r \in Requests, WriteClose(r)
      PROVE  BackDated(asOf)
  <2> DEFINE start == plan[r].day
             end == job[r].day
  <2>1. PICK p \in Requests :
          /\ IF Reclosed(start, end) # {} THEN p \in Reclosed(start, end) ELSE p = r
          /\ \E c : period' = [period EXCEPT ![p] =
               [status |-> "CLOSED", start |-> start, end |-> end, closing |-> c]]
    BY <1>3 DEF WriteClose
  <2>2. /\ pc[r] = "locked" /\ job[r].kind = "close"
        /\ start \in Int /\ end \in Int
        /\ \A q \in Closed : period[q].end < start
        /\ Closed = {} => \A i \in Posted : start <= journal[i].day
    <3>1. pc[r] = "locked" /\ job[r].kind = "close"
      BY <1>3 DEF WriteClose
    <3>2. start \in Int /\ end \in Int
      BY PeriodAssumption DEF IInv, TypeInv, TypeOK
    <3>3. \A q \in Closed : period[q].end < start
      BY <3>1 DEF IInv, PlanOK
    <3>4. ReadIsTrue(plan[r], end)
      BY <3>1 DEF BooksInv, NetOK
    <3> QED BY <3>1, <3>2, <3>3, <3>4 DEF ReadIsTrue
  <2>3. /\ p \notin Closed
        /\ \A q \in Requests \ {p} : period'[q] = period[q]
        /\ period'[p].status = "CLOSED" /\ period'[p].start = start
    <3>1. p \notin Closed
      BY <2>1, <2>2 DEF Closed, Reclosed, IInv, ClosingOK
    <3>2. period = [q \in Requests |-> period[q]]
      BY DEF IInv, TypeInv, TypeOK
    <3> HIDE DEF start, end
    <3> QED BY <2>1, <3>1, <3>2
  <2>4. Closed' = Closed \cup {p}
    <3> HIDE DEF start, end
    <3> QED BY <2>3 DEF Closed
  <2> HIDE DEF start, end
  <2>5. Closed # {}
    <3> SUFFICES ASSUME Closed = {} PROVE FALSE
      OBVIOUS
    <3>1. first = p
      BY <2>4
    <3> QED BY <1>0, <1>1, <2>2, <2>3, <3>1
  <2>6. PICK q \in Closed : q \in Requests /\ period'[q] = period[q]
    BY <2>3, <2>5 DEF Closed
  <2>7. first # p
    BY <1>0, <1>1, <2>2, <2>3, <2>4, <2>6
  <2>8. first \in Closed /\ period'[first] = period[first]
    BY <2>3, <2>4, <2>7 DEF Closed
  <2>9. \A o \in Closed : period'[o] = period[o] /\ o \in Closed'
    BY <2>3, <2>4 DEF Closed
  <2> QED BY <1>1, <2>8, <2>9 DEF BackDated
<1>4. ASSUME NEW r \in Requests, WriteReopen(r)
      PROVE  BackDated(asOf)
  <2> DEFINE p == job[r].target
  <2>1. p \in Closed /\ p \in Requests /\ LaterClosed(p) = {}
    BY <1>4 DEF WriteReopen, IInv, PlanOK, Closed
  <2>2. /\ \A q \in Requests \ {p} : period'[q] = period[q]
        /\ period'[p].status = "OPEN"
    BY <1>4, <2>1 DEF WriteReopen, IInv, TypeInv, TypeOK
  <2> HIDE DEF p
  <2>3. Closed' = Closed \ {p}
    BY <2>1, <2>2 DEF Closed
  <2>4. first \in Closed /\ first # p /\ period'[first] = period[first]
    BY <2>2, <2>3 DEF Closed
  <2>5. \A o \in Closed \ {p} : period'[o] = period[o] /\ o \in Closed'
    BY <2>2, <2>3 DEF Closed
  <2>6. ~(period[first].start > period[p].start)
    BY <2>1, <2>4 DEF LaterClosed
  <2>7. \A o \in Closed : period[first].start <= period[o].start
    BY <1>0, <1>1, <2>1, <2>4, <2>5, <2>6 DEF Closed
  <2> QED BY <1>1, <2>4, <2>7 DEF BackDated
<1>5. \/ UNCHANGED period
      \/ \E r \in Requests : WriteClose(r) \/ WriteReopen(r)
  <2>1. ASSUME NEW r \in Requests, NEW key, NEW day, NEW lines, NEW q,
               \/ LookUpManual(r, key, day, lines) \/ LookUpExpense(r, key, day, lines)
               \/ LookUpReversal(r, key, q) \/ ReadClose(r, key, day) \/ ReadReopen(r, key, q)
               \/ LockAndCheck(r) \/ LockAndDate(r)
               \/ PostManual(r) \/ PostExpense(r) \/ PostReversal(r)
        PROVE  UNCHANGED period
    BY <2>1 DEF LookUpManual, LookUpExpense, LookUpReversal, LockAndCheck, LockAndDate,
                ReadClose, ReadReopen, PostManual, PostExpense, PostReversal
  <2> QED BY <2>1 DEF Next, vars
<1> QED BY <1>2, <1>3, <1>4, <1>5

\* What BackDated was in the books of the first read.
SeenBackDated ==
  LET journals == sheet.seen[1]
      periods == sheet.seen[2]
      closed == {p \in Requests : periods[p].status = "CLOSED"}
  IN  \E p \in closed, j \in {i \in Requests : journals[i].type # "NONE"} :
        /\ \A q \in closed : periods[p].start <= periods[q].start
        /\ periods[p].end <= sheet.asOf /\ journals[j].day < periods[p].start

\* A journal has been posted since the first read; journals are kept, so this stays.
Moved == \E j \in Posted : journal[j] # sheet.seen[1][j]

\* While a sheet is read: what it has read is what the books say, or they have moved, or
\* one of the two causes for a refusal was there at the first read.
SheetInv ==
  /\ sheet = [at |-> sheet.at, asOf |-> sheet.asOf, assets |-> sheet.assets,
              equity |-> sheet.equity, from |-> sheet.from, seen |-> sheet.seen,
              overlapped |-> sheet.overlapped]
  /\ sheet.at \in {"balances", "period"} =>
       /\ sheet.asOf \in Days
       /\ \/ Moved
          \/ /\ journal = sheet.seen[1]
             /\ BackDated(sheet.asOf) => SeenBackDated
             /\ sheet.at = "balances" =>
                  /\ sheet.assets = NetAssets(sheet.asOf)
                  /\ sheet.equity = RetainedEarnings(sheet.asOf)
             /\ sheet.at = "period" =>
                  \/ Reopened(sheet.asOf) \/ SeenBackDated
                  \/ sheet.assets = sheet.equity + NetProfit(sheet.from, sheet.asOf)

\* A step of the ledger next to a sheet.
LEMMA LedgerStepKeepsSheet ==
  ASSUME IInv, BooksInv, SheetInv, IInv', [Next]_vars, UNCHANGED sheet
  PROVE  SheetInv'
<1> SUFFICES ASSUME sheet.at \in {"balances", "period"}
             PROVE  \/ Moved'
                    \/ /\ journal' = sheet.seen[1]
                       /\ BackDated(sheet.asOf)' => SeenBackDated'
                       /\ sheet.at = "balances" =>
                            /\ sheet.assets = NetAssets(sheet.asOf)'
                            /\ sheet.equity = RetainedEarnings(sheet.asOf)'
                       /\ sheet.at = "period" =>
                            \/ Reopened(sheet.asOf)' \/ SeenBackDated'
                            \/ sheet.assets = sheet.equity + NetProfit(sheet.from, sheet.asOf)'
  BY DEF SheetInv
<1>1. \A j \in Requests :
        journal'[j] = journal[j] \/ (journal[j].type = "NONE" /\ journal'[j].type # "NONE")
  BY JournalsAreKept
<1>2. CASE Moved
  BY <1>1, <1>2 DEF Moved, Posted
<1>3. CASE ~Moved /\ journal' = journal
  <2>1. BackDated(sheet.asOf)' => BackDated(sheet.asOf)
    <3> DEFINE asOf == sheet.asOf
    <3>1. BackDated(asOf)' <=> BackDated(sheet.asOf)'
      BY DEF BackDated
    <3>2. SUFFICES ASSUME BackDated(sheet.asOf)' PROVE BackDated(sheet.asOf)
      OBVIOUS
    <3> QED BY <1>3, <3>2, BackDatedStays
  <2>2. SeenBackDated' <=> SeenBackDated
    BY DEF SeenBackDated
  <2>3. /\ NetAssets(sheet.asOf)' = NetAssets(sheet.asOf)
        /\ RetainedEarnings(sheet.asOf)' = RetainedEarnings(sheet.asOf)
        /\ Reopened(sheet.asOf)' = Reopened(sheet.asOf)
        /\ NetProfit(sheet.from, sheet.asOf)' = NetProfit(sheet.from, sheet.asOf)
    BY <1>3 DEF NetAssets, RetainedEarnings, Reopened, NetProfit, SumOfNet, Net, Upto,
                MovesEquity, IsClose, Reversals, Posted
  <2> QED BY <1>3, <2>1, <2>2, <2>3 DEF SheetInv
<1>4. CASE ~Moved /\ journal' # journal
  <2>1. journal = [j \in Requests |-> journal[j]] /\ journal' = [j \in Requests |-> journal'[j]]
    BY DEF IInv, TypeInv
  <2>2. PICK j \in Requests : journal'[j] # journal[j]
    BY <1>4, <2>1
  <2>3. journal = sheet.seen[1]
    BY <1>4 DEF SheetInv
  <2> QED BY <1>1, <2>2, <2>3 DEF Moved, Posted
<1> QED BY <1>2, <1>3, <1>4

\* BackDated of the books that were seen.
LEMMA SeenIsBackDated ==
  ASSUME sheet.seen = <<journal, period>>
  PROVE  SeenBackDated <=> BackDated(sheet.asOf)
<1>1. sheet.seen[1] = journal /\ sheet.seen[2] = period
  OBVIOUS
<1> QED BY <1>1 DEF SeenBackDated, BackDated, Closed, Posted

\* The first read of a sheet.
LEMMA ReadBalancesKeeps ==
  ASSUME SheetInv, NEW asOf \in Days, ReadBalances(asOf)
  PROVE  SheetInv'
<1>1. sheet' = [at |-> "balances", asOf |-> asOf, assets |-> NetAssets(asOf),
                equity |-> RetainedEarnings(asOf), from |-> sheet.from,
                seen |-> <<journal, period>>, overlapped |-> sheet.overlapped]
  BY DEF SheetInv, ReadBalances
<1>2. UNCHANGED <<journal, period>>
  BY DEF ReadBalances, vars
<1>3. sheet'.seen[1] = journal /\ sheet'.seen[2] = period /\ sheet'.asOf = asOf
  BY <1>1
<1>4. BackDated(sheet.asOf)' => SeenBackDated'
  BY <1>2, <1>3 DEF SeenBackDated, BackDated, Closed, Posted
<1>5. /\ NetAssets(sheet.asOf)' = NetAssets(asOf)
      /\ RetainedEarnings(sheet.asOf)' = RetainedEarnings(asOf)
  BY <1>2, <1>3 DEF NetAssets, RetainedEarnings, SumOfNet, Net, Upto, MovesEquity,
                    IsClose, Reversals, Posted
<1>6. /\ sheet'.at = "balances" /\ sheet'.assets = NetAssets(asOf)
      /\ sheet'.equity = RetainedEarnings(asOf)
      /\ sheet' = [at |-> sheet'.at, asOf |-> sheet'.asOf, assets |-> sheet'.assets,
                   equity |-> sheet'.equity, from |-> sheet'.from, seen |-> sheet'.seen,
                   overlapped |-> sheet'.overlapped]
  BY <1>1
<1> QED BY <1>2, <1>3, <1>4, <1>5, <1>6 DEF SheetInv

\* The second read: the day it finds is the one from which the sheet balances.
LEMMA ReadLastClosedKeeps ==
  ASSUME IInv, BooksInv, SheetInv, ReadLastClosed
  PROVE  SheetInv'
<1>1. /\ sheet.at = "balances"
      /\ sheet' = [at |-> "period", asOf |-> sheet.asOf, assets |-> sheet.assets,
                   equity |-> sheet.equity, from |-> EarningsFrom(sheet.asOf),
                   seen |-> sheet.seen, overlapped |-> sheet.overlapped]
  BY DEF SheetInv, ReadLastClosed
<1>2. /\ UNCHANGED <<journal, period>> /\ sheet'.asOf = sheet.asOf /\ sheet'.seen = sheet.seen
      /\ sheet'.at = "period" /\ sheet'.from = EarningsFrom(sheet.asOf)
      /\ sheet'.assets = sheet.assets /\ sheet'.equity = sheet.equity
  BY <1>1 DEF ReadLastClosed, vars
<1>3. sheet.asOf \in Days
  BY <1>1 DEF SheetInv
<1>4. /\ Moved' <=> Moved
      /\ SeenBackDated' <=> SeenBackDated
      /\ BackDated(sheet.asOf)' <=> BackDated(sheet.asOf)
      /\ Reopened(sheet.asOf)' <=> Reopened(sheet.asOf)
  BY <1>2 DEF Moved, SeenBackDated, BackDated, Reopened, IsClose, Reversals, Closed, Posted
<1>5. NetProfit(sheet.from, sheet.asOf)' = NetProfit(EarningsFrom(sheet.asOf), sheet.asOf)
  BY <1>2 DEF NetProfit, SumOfNet, Net, IsClose, Posted
<1>6. ASSUME ~Moved
      PROVE  \/ Reopened(sheet.asOf) \/ SeenBackDated
             \/ sheet.assets = sheet.equity + NetProfit(EarningsFrom(sheet.asOf), sheet.asOf)
  <2>1. /\ BackDated(sheet.asOf) => SeenBackDated
        /\ sheet.assets = NetAssets(sheet.asOf)
        /\ sheet.equity = RetainedEarnings(sheet.asOf)
    BY <1>1, <1>6 DEF SheetInv
  <2> QED BY <1>3, <2>1, SheetOfABookBalances
<1>7. sheet' = [at |-> sheet'.at, asOf |-> sheet'.asOf, assets |-> sheet'.assets,
                equity |-> sheet'.equity, from |-> sheet'.from, seen |-> sheet'.seen,
                overlapped |-> sheet'.overlapped]
  BY <1>1
<1>8. ~Moved => journal = sheet.seen[1] /\ (BackDated(sheet.asOf) => SeenBackDated)
  BY <1>1 DEF SheetInv
<1> QED BY <1>2, <1>3, <1>4, <1>5, <1>6, <1>7, <1>8 DEF SheetInv

\* What RefusedOnlyByOverlap says of one step.
RefusalStep == sheet.at = "period" /\ sheet'.at = "refused" =>
  sheet'.overlapped \/ Reopened(sheet.asOf) \/ BackDated(sheet.asOf)

\* The last read keeps the invariant, which says why the sheet is refused.
LEMMA ReadEarningsKeeps ==
  ASSUME SheetInv, ReadEarnings
  PROVE  SheetInv' /\ RefusalStep
<1> DEFINE balanced == sheet.assets = sheet.equity + NetProfit(sheet.from, sheet.asOf)
<1>1. /\ sheet.at = "period"
      /\ sheet' = [at |-> IF balanced THEN "answered" ELSE "refused", asOf |-> sheet.asOf,
                   assets |-> sheet.assets, equity |-> sheet.equity, from |-> sheet.from,
                   seen |-> None, overlapped |-> (sheet.seen # <<journal, period>>)]
  BY DEF SheetInv, ReadEarnings
<1> HIDE DEF balanced
<1>2. /\ sheet' = [at |-> sheet'.at, asOf |-> sheet'.asOf, assets |-> sheet'.assets,
                   equity |-> sheet'.equity, from |-> sheet'.from, seen |-> sheet'.seen,
                   overlapped |-> sheet'.overlapped]
      /\ sheet'.at \in {"answered", "refused"}
      /\ sheet'.at = "refused" => ~balanced
      /\ sheet'.overlapped <=> sheet.seen # <<journal, period>>
  BY <1>1
<1>3. SheetInv'
  BY <1>2 DEF SheetInv
<1>4. RefusalStep
  <2> SUFFICES ASSUME ~balanced, sheet.seen = <<journal, period>>
               PROVE  Reopened(sheet.asOf) \/ BackDated(sheet.asOf)
    BY <1>2 DEF RefusalStep
  <2>1. sheet.seen[1] = journal
    OBVIOUS
  <2>2. ~Moved
    BY <2>1 DEF Moved
  <2>3. Reopened(sheet.asOf) \/ SeenBackDated \/ balanced
    BY <1>1, <2>2 DEF SheetInv, balanced
  <2> QED BY <2>3, SeenIsBackDated
<1> QED BY <1>3, <1>4

\* Every step of the ledger or of the sheet.
LEMMA EveryReportStep ==
  ASSUME IInv, BooksInv, SheetInv, [ReportsNext]_rvars
  PROVE  IInv' /\ BooksInv' /\ SheetInv' /\ RefusalStep
<1>1. [Next]_vars
  BY DEF ReportsNext, rvars, ReadBalances, ReadLastClosed, ReadEarnings
<1>2. IInv' /\ BooksInv'
  BY <1>1, EveryStepKeeps, EveryStepKeepsBooks
<1>3. CASE UNCHANGED sheet
  <2>1. RefusalStep
    BY <1>3 DEF RefusalStep
  <2> QED BY <1>1, <1>2, <1>3, <2>1, LedgerStepKeepsSheet
<1>4. ASSUME NEW asOf \in Days, ReadBalances(asOf) PROVE SheetInv' /\ RefusalStep
  <2>1. RefusalStep
    BY <1>4 DEF ReadBalances, RefusalStep
  <2> QED BY <1>4, <2>1, ReadBalancesKeeps
<1>5. CASE ReadLastClosed
  <2>1. RefusalStep
    BY <1>5 DEF ReadLastClosed, RefusalStep
  <2> QED BY <1>2, <1>5, <2>1, ReadLastClosedKeeps
<1>6. CASE ReadEarnings
  BY <1>2, <1>6, ReadEarningsKeeps
<1> QED BY <1>2, <1>3, <1>4, <1>5, <1>6 DEF ReportsNext, rvars

\* The invariant of a balance sheet read next to the ledger.
THEOREM ReportsInvariant == ReportsSpec => [](IInv /\ BooksInv /\ SheetInv)
<1>1. ReportsInit => IInv /\ BooksInv /\ SheetInv
  <2>1. NoSheet.at = "none"
    BY DEF NoSheet
  <2>2. ReportsInit => SheetInv
    BY DEF ReportsInit, SheetInv, NoSheet
  <2> QED BY <2>2, Initial, BooksInitial DEF ReportsInit
<1>2. IInv /\ BooksInv /\ SheetInv /\ [ReportsNext]_rvars => (IInv /\ BooksInv /\ SheetInv)'
  BY EveryReportStep
<1> QED BY <1>1, <1>2, PTL DEF ReportsSpec

\* A balance sheet is refused only because the books moved while it was read, because a
\* period it covers was reopened, or because a journal is dated before all closed periods.
THEOREM SheetsAreRefusedForACause == ReportsSpec => RefusedOnlyByOverlap
<1>1. IInv /\ BooksInv /\ SheetInv /\ [ReportsNext]_rvars => [RefusalStep]_rvars
  BY EveryReportStep
<1>2. RefusedOnlyByOverlap <=> [][RefusalStep]_rvars
  BY DEF RefusedOnlyByOverlap, RefusalStep
<1> QED BY ReportsInvariant, <1>1, <1>2, PTL DEF ReportsSpec
=============================================================================
