------------------------- MODULE AccountingPeriods -------------------------
(***************************************************************************)
(* The ledger of one tenant and its accounting periods: manual journals,   *)
(* expenses and their reversals, closing a period and reopening it.        *)
(*                                                                         *)
(* Every request is one READ COMMITTED transaction that posts at most one  *)
(* journal, so journals and periods are named by the request that inserts  *)
(* them.  A request first reads what its Idempotency-Key has already done, *)
(* without a lock; then it takes the tenant's advisory lock and reads the  *)
(* closed periods; then it writes and commits, which releases the lock.    *)
(* Closing and reopening take the lock before anything else.               *)
(*                                                                         *)
(* A journal is its lines on the INCOME and EXPENSE accounts (credit       *)
(* positive); the balance-sheet side is minus their sum.  A date is a day. *)
(* No code path leaves a sale or purchase in DRAFT, so the draft warning   *)
(* of a close never occurs.                                                *)
(***************************************************************************)
EXTENDS Integers, FiniteSets, Functions

CONSTANTS
  Requests,      \* API calls, each one transaction
  None,          \* no request, or no key
  Keys,          \* Idempotency-Keys the clients use
  LastDay,       \* bound: the last day anything is dated
  Temporary,     \* INCOME and EXPENSE accounts
  ManualLines,   \* lines of the manual journals
  ExpenseLines   \* lines of the expenses

Days == 1 .. LastDay

ASSUME PeriodAssumption ==
  /\ None \notin Requests \cup Keys
  /\ LastDay \in Nat
  /\ ManualLines \cup ExpenseLines \subseteq [Temporary -> Int]

VARIABLES
  pc,        \* where each request is
  job,       \* what each request asks for
  answer,    \* the request whose record a finished request returns
  advisory,  \* holder of the tenant's advisory lock
  plan,      \* what a request has read under the lock
  journal,   \* core.journals with their entries
  period     \* core.accounting_periods

vars == <<pc, job, answer, advisory, plan, journal, period>>

Kinds == {"manual", "expense", "reverse", "close", "reopen"}
JournalTypes == {"NONE", "MANUAL_ADJUSTMENT", "EXPENSE", "REVERSAL",
                 "ACCOUNTING_PERIOD_CLOSE"}

NoLines == [a \in Temporary |-> 0]
NoJob == [kind |-> "none", key |-> None, day |-> 0, lines |-> NoLines, target |-> None]
NoPlan == [day |-> 0, net |-> NoLines]
NoJournal == [type |-> "NONE", day |-> 0, lines |-> NoLines, original |-> None, key |-> None]
NoPeriod == [status |-> "NONE", start |-> 0, end |-> 0, closing |-> None]

Init ==
  /\ pc = [r \in Requests |-> "idle"]
  /\ job = [r \in Requests |-> NoJob]
  /\ answer = [r \in Requests |-> None]
  /\ advisory = None
  /\ plan = [r \in Requests |-> NoPlan]
  /\ journal = [r \in Requests |-> NoJournal]
  /\ period = [r \in Requests |-> NoPeriod]

----------------------------------------------------------------------------
Posted == {j \in Requests : journal[j].type # "NONE"}
PostedWith(key) == {j \in Posted : journal[j].key = key}
\* The rows requests have inserted: an expense, its reversal, or the event of a
\* close or reopen.
Rows(kinds) == {q \in Requests : job[q].kind \in kinds /\ pc[q] = "done" /\ answer[q] = q}
RowsWith(kinds, key) == {q \in Rows(kinds) : job[q].key = key}
Reversals(j) == {q \in Posted : journal[q].type = "REVERSAL" /\ journal[q].original = j}

Closed == {p \in Requests : period[p].status = "CLOSED"}
DaysOf(p) == period[p].start .. period[p].end
\* getClosedAccountingPeriod
InClosedPeriod(day) == \E p \in Closed : day \in DaysOf(p)
\* firstOpenAccountingDate steps over one closed period after the other.
FirstOpenDay(day, closed) == CHOOSE d \in day .. LastDay + 1 :
  /\ \A p \in closed : d \notin DaysOf(p)
  /\ \A e \in day .. d - 1 : \E p \in closed : e \in DaysOf(p)

NeverWaits(r) == TRUE  \* mutant: the advisory lock is not taken
LockFree(r) == advisory = None
\* COMMIT or ROLLBACK releases the advisory lock.
Finish(r, outcome, record) ==
  /\ pc' = [pc EXCEPT ![r] = outcome]
  /\ answer' = [answer EXCEPT ![r] = record]
  /\ advisory' = IF advisory = r THEN None ELSE advisory
Ask(r, kind, key, day, lines, target) ==
  /\ pc[r] = "idle"
  /\ job' = [job EXCEPT ![r] = [kind |-> kind, key |-> key, day |-> day,
                                lines |-> lines, target |-> target]]
\* The request goes on to post; it does not hold the lock yet.
Proceed(r) ==
  /\ pc' = [pc EXCEPT ![r] = "looked"]
  /\ UNCHANGED <<answer, advisory>>

----------------------------------------------------------------------------
(* The reads by Idempotency-Key, before the lock. *)

SameManual(j, day, lines) ==
  journal[j].type = "MANUAL_ADJUSTMENT" /\ journal[j].day = day /\ journal[j].lines = lines

\* createManualJournal replays the journal of its key if it is the same one.
LookUpManual(r, key, day, lines) ==
  /\ Ask(r, "manual", key, day, lines, None)
  /\ \/ PostedWith(key) = {} /\ Proceed(r)
     \/ \E j \in PostedWith(key) :
          \/ SameManual(j, day, lines) /\ Finish(r, "done", j)
          \/ ~SameManual(j, day, lines) /\ Finish(r, "failed", None)
  /\ UNCHANGED <<plan, journal, period>>

\* recordExpense replays its own row; postJournal then takes a journal that has
\* the key already, whatever posted it, to be the one it was to post.
LookUpExpense(r, key, day, lines) ==
  /\ Ask(r, "expense", key, day, lines, None)
  /\ \/ /\ RowsWith({"expense"}, key) = {}
        /\ \/ PostedWith(key) = {} /\ Proceed(r)
           \/ PostedWith(key) # {} /\ Finish(r, "done", r)
     \/ \E q \in RowsWith({"expense"}, key) :
          \/ job[q].day = day /\ job[q].lines = lines /\ Finish(r, "done", q)
          \/ ~(job[q].day = day /\ job[q].lines = lines) /\ Finish(r, "failed", None)
  /\ UNCHANGED <<plan, journal, period>>

\* reverseExpense; the key of its journal is derived from the request's.
LookUpReversal(r, key, expense) ==
  /\ expense \in Rows({"expense"})
  /\ Ask(r, "reverse", key, 0, NoLines, expense)
  /\ \/ /\ RowsWith({"reverse"}, key) = {}
        /\ \/ Reversals(expense) = {} /\ expense \in Posted /\ Proceed(r)
           \/ Reversals(expense) # {} /\ Finish(r, "failed", None)
           \/ expense \notin Posted /\ Finish(r, "failed", None)
     \/ \E q \in RowsWith({"reverse"}, key) :
          \/ job[q].target = expense /\ Finish(r, "done", q)
          \/ job[q].target # expense /\ Finish(r, "failed", None)
  /\ UNCHANGED <<plan, journal, period>>

\* assertAccountingPeriodOpen: the lock, then the closed period of the day.
LockAndCheck(r) ==
  /\ pc[r] = "looked" /\ job[r].kind \in {"manual", "expense"}
  /\ LockFree(r)
  /\ \/ /\ ~InClosedPeriod(job[r].day)
        /\ pc' = [pc EXCEPT ![r] = "locked"]
        /\ advisory' = r
        /\ plan' = [plan EXCEPT ![r] = [day |-> job[r].day, net |-> NoLines]]
        /\ UNCHANGED answer
     \/ InClosedPeriod(job[r].day) /\ Finish(r, "failed", None) /\ UNCHANGED plan
  /\ UNCHANGED <<job, journal, period>>

\* postReversalJournal: the lock, then the first open day.
LockAndDate(r) ==
  /\ pc[r] = "looked" /\ job[r].kind = "reverse"
  /\ LockFree(r)
  /\ pc' = [pc EXCEPT ![r] = "locked"]
  /\ advisory' = r
  /\ plan' = [plan EXCEPT ![r] = [day |-> FirstOpenDay(journal[job[r].target].day, Closed),
                               net |-> NoLines]]
  /\ UNCHANGED <<job, answer, journal, period>>

----------------------------------------------------------------------------
(* The writes, under the lock. *)

Insert(r, type, day, lines, original, key) ==
  journal' = [journal EXCEPT ![r] = [type |-> type, day |-> day, lines |-> lines,
                                     original |-> original, key |-> key]]
Negated(lines) == [a \in Temporary |-> -lines[a]]

\* postJournal looks for the key again, so a manual journal that lost a race for
\* its key returns the winner's.
PostManual(r) ==
  /\ pc[r] = "locked" /\ job[r].kind = "manual"
  /\ \/ /\ PostedWith(job[r].key) = {}
        /\ Insert(r, "MANUAL_ADJUSTMENT", plan[r].day, job[r].lines, None, job[r].key)
        /\ Finish(r, "done", r)
     \/ /\ \E j \in PostedWith(job[r].key) : Finish(r, "done", j)
        /\ UNCHANGED journal
  /\ UNCHANGED <<job, plan, period>>

\* The unique indexes on the keys of expenses and journals refuse the loser.
PostExpense(r) ==
  /\ pc[r] = "locked" /\ job[r].kind = "expense"
  /\ LET taken == RowsWith({"expense"}, job[r].key) \cup PostedWith(job[r].key)
     IN \/ /\ taken = {}
           /\ Insert(r, "EXPENSE", plan[r].day, job[r].lines, None, job[r].key)
           /\ Finish(r, "done", r)
        \/ taken # {} /\ Finish(r, "failed", None) /\ UNCHANGED journal
  /\ UNCHANGED <<job, plan, period>>

\* One reversal per original and one per key (unique indexes).
PostReversal(r) ==
  LET original == job[r].target
      taken == Reversals(original) \cup RowsWith({"reverse"}, job[r].key)
  IN  /\ pc[r] = "locked" /\ job[r].kind = "reverse"
      /\ \/ /\ taken = {}
            /\ Insert(r, "REVERSAL", plan[r].day, Negated(journal[original].lines),
                      original, None)
            /\ Finish(r, "done", r)
         \/ taken # {} /\ Finish(r, "failed", None) /\ UNCHANGED journal
      /\ UNCHANGED <<job, plan, period>>

----------------------------------------------------------------------------
(* closeAccountingPeriod *)

EarliestDay == CHOOSE d \in {journal[j].day : j \in Posted} :
                 \A j \in Posted : d <= journal[j].day
LatestClosed == CHOOSE p \in Closed : \A q \in Closed : period[q].end <= period[p].end
StartsOnLatestEnd == IF Closed = {} THEN EarliestDay ELSE period[LatestClosed].end  \* mutant
PeriodStart == IF Closed = {} THEN EarliestDay ELSE period[LatestClosed].end + 1
NetWithoutLastDay(start, end) ==  \* mutant: the sum stops before the last day
  [a \in Temporary |->
     SumFunctionOnSet([j \in Requests |-> journal[j].lines[a]],
       {j \in Posted : /\ journal[j].type # "ACCOUNTING_PERIOD_CLOSE"
                       /\ journal[j].day \in start .. end - 1})]
NetOf(start, end) ==
  [a \in Temporary |->
     SumFunctionOnSet([j \in Requests |-> journal[j].lines[a]],
       {j \in Posted : /\ journal[j].type # "ACCOUNTING_PERIOD_CLOSE"
                       /\ journal[j].day \in start .. end})]
Overlaps(start, end) ==
  \E p \in Closed : /\ period[p].start <= end /\ period[p].start < start
                    /\ period[p].end >= start
Closable(end) == PeriodStart <= end /\ ~Overlaps(PeriodStart, end)
\* What a close or reopen checks of its key once it holds the lock.
KeyTaken(key) == RowsWith({"close", "reopen"}, key) \cup PostedWith(key) # {}

\* The event of the key is replayed if it is one of the same requests.
ReplayEvent(r, key, same) ==
  \E q \in RowsWith({"close", "reopen"}, key) :
    \/ q \in same /\ Finish(r, "done", q)
    \/ q \notin same /\ Finish(r, "failed", None)

ReadClose(r, key, end) ==
  /\ Ask(r, "close", key, end, NoLines, None)
  /\ LockFree(r)
  /\ \/ /\ ReplayEvent(r, key, {q \in Requests : job[q].kind = "close" /\ job[q].day = end})
        /\ UNCHANGED plan
     \/ /\ RowsWith({"close", "reopen"}, key) = {}
        /\ \/ PostedWith(key) # {}
           \/ Posted = {}
           \/ Posted # {} /\ ~Closable(end)
        /\ Finish(r, "failed", None)
        /\ UNCHANGED plan
     \/ /\ ~KeyTaken(key)
        /\ Posted # {} /\ Closable(end)
        /\ plan' = [plan EXCEPT ![r] = [day |-> PeriodStart,
                                        net |-> NetOf(PeriodStart, end)]]
        /\ pc' = [pc EXCEPT ![r] = "locked"]
        /\ advisory' = r
        /\ UNCHANGED answer
  /\ UNCHANGED <<journal, period>>

\* A period that was reopened with the same range is closed again in place.
Reclosed(start, end) == {p \in Requests : period[p].status = "OPEN"
                            /\ period[p].start = start /\ period[p].end = end}
WriteClose(r) ==
  LET start == plan[r].day
      end == job[r].day
      posts == \E a \in Temporary : plan[r].net[a] # 0
  IN  /\ pc[r] = "locked" /\ job[r].kind = "close"
      /\ \/ posts /\ Insert(r, "ACCOUNTING_PERIOD_CLOSE", end, Negated(plan[r].net),
                            None, job[r].key)
         \/ ~posts /\ UNCHANGED journal
      /\ \E p \in Requests :
           /\ IF Reclosed(start, end) # {} THEN p \in Reclosed(start, end) ELSE p = r
           /\ period' = [period EXCEPT ![p] =
                [status |-> "CLOSED", start |-> start, end |-> end,
                 closing |-> IF posts THEN r ELSE None]]
      /\ Finish(r, "done", r)
      /\ UNCHANGED <<job, plan>>

(* reopenAccountingPeriod *)
NoLaterClosed(p) == {}  \* mutant: a period is reopened under a later one
LaterClosed(p) == {q \in Closed : period[q].start > period[p].start}

ReadReopen(r, key, p) ==
  /\ period[p].status # "NONE"
  /\ Ask(r, "reopen", key, 0, NoLines, p)
  /\ LockFree(r)
  /\ \/ /\ ReplayEvent(r, key, {q \in Requests : job[q].kind = "reopen" /\ job[q].target = p})
     \/ /\ RowsWith({"close", "reopen"}, key) = {}
        /\ \/ PostedWith(key) # {}
           \/ p \notin Closed
           \/ LaterClosed(p) # {}
        /\ Finish(r, "failed", None)
     \/ /\ ~KeyTaken(key)
        /\ p \in Closed /\ LaterClosed(p) = {}
        /\ pc' = [pc EXCEPT ![r] = "locked"]
        /\ advisory' = r
        /\ UNCHANGED answer
  /\ UNCHANGED <<plan, journal, period>>

AllClosed(p) == Closed  \* mutant: the period is set OPEN after its reversal is dated
StillClosed(p) == Closed \ {p}
\* The period is OPEN before the reversal of its closing journal is dated.
WriteReopen(r) ==
  LET p == job[r].target
      closing == period[p].closing
  IN  /\ pc[r] = "locked" /\ job[r].kind = "reopen"
      /\ period' = [period EXCEPT ![p] = [status |-> "OPEN", start |-> period[p].start,
                                          end |-> period[p].end, closing |-> closing]]
      /\ \/ closing = None /\ UNCHANGED journal
         \/ /\ closing # None
            /\ Insert(r, "REVERSAL", FirstOpenDay(period[p].end, StillClosed(p)),
                      Negated(journal[closing].lines), closing, job[r].key)
      /\ Finish(r, "done", r)
      /\ UNCHANGED <<job, plan>>

Next == \E r \in Requests :
  \/ \E key \in Keys, day \in Days :
       \/ \E lines \in ManualLines : LookUpManual(r, key, day, lines)
       \/ \E lines \in ExpenseLines : LookUpExpense(r, key, day, lines)
       \/ ReadClose(r, key, day)
  \/ \E key \in Keys, q \in Requests : LookUpReversal(r, key, q) \/ ReadReopen(r, key, q)
  \/ LockAndCheck(r) \/ LockAndDate(r)
  \/ PostManual(r) \/ PostExpense(r) \/ PostReversal(r)
  \/ WriteClose(r) \/ WriteReopen(r)

Spec == Init /\ [][Next]_vars

----------------------------------------------------------------------------
\* Every variable holds a value of its column or record type; a period does not end
\* before it starts.
TypeOK ==
  /\ pc \in [Requests -> {"idle", "looked", "locked", "done", "failed"}]
  /\ job \in [Requests -> [kind : Kinds \cup {"none"}, key : Keys \cup {None},
                           day : 0 .. LastDay, lines : [Temporary -> Int],
                           target : Requests \cup {None}]]
  /\ answer \in [Requests -> Requests \cup {None}]
  /\ advisory \in Requests \cup {None}
  /\ \A r \in Requests : plan[r].day \in 0 .. LastDay + 1
  /\ \A j \in Requests :
       /\ journal[j].type \in JournalTypes
       /\ journal[j].day \in 0 .. LastDay + 1
       /\ journal[j].original \in Requests \cup {None}
  /\ period \in [Requests -> [status : {"NONE", "OPEN", "CLOSED"}, start : 0 .. LastDay + 1,
                              end : 0 .. LastDay, closing : Requests \cup {None}]]
  /\ \A p \in Requests : period[p].start <= period[p].end

\* 08 9.4: the ranges of closed periods do not overlap, whatever is closed, reopened
\* and closed again with another end (the database has no constraint for it).
ClosedPeriodsDisjoint ==
  \A p, q \in Closed : p # q => DaysOf(p) \cap DaysOf(q) = {}

\* Closed periods leave no gap between them: periods are closed forward and only
\* reopened backward.
ClosedPeriodsContiguous ==
  \A p, q \in Closed : period[p].start < period[q].start =>
    \A day \in period[p].start .. period[q].end : InClosedPeriod(day)

\* INV-ACC-005: while a period stays closed no journal is dated in it, however a
\* posting, a reversal and the close interleave.
ClosedBooksAreFrozen ==
  [][\A p \in Closed : period'[p] = period[p] =>
       \A j \in Requests : journal'[j] # journal[j] => journal'[j].day \notin DaysOf(p)]_vars

\* The reversal of a closing journal is dated in the period it reopens, so that the
\* two cancel out there (INV-ACC-006 for the period).
ReopeningStaysInPeriod ==
  \A p \in Requests : \A c \in Posted : \A j \in Reversals(c) :
    period[p].closing = c => journal[j].day = journal[c].day

NetWithin(p, a) == SumFunctionOnSet([j \in Requests |-> journal[j].lines[a]],
                                    {j \in Posted : journal[j].day \in DaysOf(p)})
\* 08 9.2, step 3: closing zeroes out the period's income and expenses.
ClosedPeriodsAreZeroedOut ==
  \A p \in Closed : \A a \in Temporary : NetWithin(p, a) = 0
\* It does so the first time a period is closed, whatever is reversed or posted
\* around it; that the period was never reopened is what the code relies on.
FirstCloseZeroesOut ==
  \A p \in Closed :
    (\A c \in Posted : \A j \in Reversals(c) :
       journal[c].type = "ACCOUNTING_PERIOD_CLOSE" => journal[j].day \notin DaysOf(p))
    => \A a \in Temporary : NetWithin(p, a) = 0

\* "Journal in the SAME transaction": every recorded expense has its journal.
EveryExpenseIsPosted == Rows({"expense"}) \subseteq Posted

\* createManualJournal answers a key used for another payload with an error: the
\* journal it returns is the one that was asked for.
ManualAnswersMatch ==
  \A r \in Requests : job[r].kind = "manual" /\ pc[r] = "done" =>
    SameManual(answer[r], job[r].day, job[r].lines)
=============================================================================
