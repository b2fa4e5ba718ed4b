----------------------------- MODULE MCReports -----------------------------
(* Instances of Reports for TLC. *)
EXTENDS Reports, MCAccountingPeriods

\* Five requests that move the periods; or three of them, on two days, next to a
\* balance sheet.
NextToASheet ==
  sheet'.at # "none" =>
    pc'[4] = "idle" /\ \A r \in Requests : job'[r].day # 3
=============================================================================
