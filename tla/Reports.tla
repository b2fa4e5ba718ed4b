------------------------------- MODULE Reports -------------------------------
(***************************************************************************)
(* The balance sheet of a tenant, read while its ledger and its periods    *)
(* move.  getBalanceSheet reads in three transactions: the balances of the *)
(* asset, liability and equity accounts, the last closed period, and the   *)
(* profit since then (getProfitAndLoss, which other reports also use).  A  *)
(* sheet that does not balance is refused as an integrity incident.        *)
(*                                                                         *)
(* The lines of a journal on INCOME and EXPENSE accounts are balanced by   *)
(* assets and liabilities, those of a closing journal by Retained Earnings *)
(* (3100).  The trial balance and the cash flow read one statement each.   *)
(***************************************************************************)
EXTENDS AccountingPeriods

\* A chart of accounts is finite.
ASSUME ReportsAssumption == IsFiniteSet(Temporary)

VARIABLE sheet   \* the balance sheet being read

rvars == <<vars, sheet>>

NoSheet == [at |-> "none", asOf |-> 0, assets |-> 0, equity |-> 0, from |-> 0,
            seen |-> None, overlapped |-> FALSE]

----------------------------------------------------------------------------
Net(j) == SumFunctionOnSet(journal[j].lines, Temporary)
SumOfNet(set) == SumFunctionOnSet([j \in Requests |-> Net(j)], set)
IsClose(j) == journal[j].type = "ACCOUNTING_PERIOD_CLOSE"
\* The journals that move Retained Earnings: closings and their reversals.
MovesEquity(j) == IsClose(j) \/ \E c \in Posted : IsClose(c) /\ j \in Reversals(c)
Upto(asOf) == {j \in Posted : journal[j].day <= asOf}
NetAssets(asOf) == SumOfNet({j \in Upto(asOf) : ~MovesEquity(j)})
RetainedEarnings(asOf) == -SumOfNet({j \in Upto(asOf) : MovesEquity(j)})

\* Mutant: the day after the last closed one is not skipped to.
FromLastClosedDay(asOf) ==
  LET ends == {period[p].end : p \in {q \in Closed : period[q].end <= asOf}}
  IN  IF ends = {} THEN 0 ELSE CHOOSE e \in ends : \A f \in ends : f <= e
\* The day after the last closed period that ends by the day of the sheet.
EarningsFrom(asOf) ==
  LET ends == {period[p].end : p \in {q \in Closed : period[q].end <= asOf}}
  IN  IF ends = {} THEN 0 ELSE (CHOOSE e \in ends : \A f \in ends : f <= e) + 1

\* getProfitAndLoss: closing journals are left out, reversals are ordinary lines.
NetProfit(from, to) ==
  SumOfNet({j \in Posted : ~IsClose(j) /\ journal[j].day \in from .. to})

----------------------------------------------------------------------------
(* getBalanceSheet.  seen and overlapped are history: the ledger at the     *)
(* first read, and whether it had changed by the last.                      *)
ReadBalances(asOf) ==
  /\ sheet.at = "none"
  /\ sheet' = [sheet EXCEPT !.at = "balances", !.asOf = asOf,
                 !.assets = NetAssets(asOf), !.equity = RetainedEarnings(asOf),
                 !.seen = <<journal, period>>]
  /\ UNCHANGED vars

ReadLastClosed ==
  /\ sheet.at = "balances"
  /\ sheet' = [sheet EXCEPT !.at = "period", !.from = EarningsFrom(sheet.asOf)]
  /\ UNCHANGED vars

ReadEarnings ==
  /\ sheet.at = "period"
  /\ LET balanced == sheet.assets = sheet.equity + NetProfit(sheet.from, sheet.asOf)
     IN  sheet' = [sheet EXCEPT !.at = IF balanced THEN "answered" ELSE "refused",
                     !.seen = None, !.overlapped = (sheet.seen # <<journal, period>>)]
  /\ UNCHANGED vars

ReportsInit == Init /\ sheet = NoSheet
ReportsNext ==
  \/ Next /\ UNCHANGED sheet
  \/ \E asOf \in Days : ReadBalances(asOf)
  \/ ReadLastClosed
  \/ ReadEarnings
ReportsSpec == ReportsInit /\ [][ReportsNext]_rvars

----------------------------------------------------------------------------
Reopened(asOf) ==
  \E c \in Posted : IsClose(c) /\ journal[c].day <= asOf /\ Reversals(c) # {}

\* A journal may be dated before everything that is closed; no close takes it up.
BackDated(asOf) ==
  \E p \in Closed, j \in Posted :
    /\ \A q \in Closed : period[p].start <= period[q].start
    /\ period[p].end <= asOf /\ journal[j].day < period[p].start

\* A balance sheet of any day balances although it is put together from what closing
\* moved to equity and what was earned since: it is refused only when a commit fell
\* between its reads, when a period it covers has been reopened, or when a journal
\* was dated before the first closed period.  It is a property of the last read: a
\* period whose net was zero may later be reopened and leave no trace of it.
RefusedOnlyByOverlap ==
  [][sheet.at = "period" /\ sheet'.at = "refused" =>
       sheet'.overlapped \/ Reopened(sheet.asOf) \/ BackDated(sheet.asOf)]_rvars

\* "Check: Total Assets == Total Liabilities + Total Equity" of a point-in-time snapshot
\* (08 6.3): whatever was posted, closed and reopened before, a sheet that no commit
\* disturbs is answered.
SheetBalances == sheet.at = "refused" => sheet.overlapped
=============================================================================
