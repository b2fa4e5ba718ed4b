------------------------ MODULE MCAccountingPeriods ------------------------
(* Instances of AccountingPeriods for TLC. *)
EXTENDS AccountingPeriods, TLC

Income == {[income |-> 1, expense |-> 0]}
Cost == {[income |-> 0, expense |-> -1]}

\* Requests and keys are interchangeable numbers: requests start in order, and a
\* key is used for the first time after the smaller ones.
StartInOrder == \A r \in Requests :
  pc[r] = "idle" /\ pc'[r] # "idle" =>
    /\ \A q \in Requests : q < r => pc[q] # "idle"
    /\ \A k \in Keys : k < job'[r].key => \E q \in Requests : job[q].key = k

\* Only what moves the periods, each request with a key of its own; the first is a
\* manual journal, without which nothing can be closed.
PeriodsOnly == \A r \in Requests :
  /\ job'[r].kind \notin {"expense", "reverse"} /\ job'[r].key \in {None, r}
  /\ r = 1 => job'[r].kind \in {"none", "manual"}
=============================================================================
