-------------------------- MODULE MCSupplierAccount --------------------------
(* Instances of SupplierAccount for TLC. *)
EXTENDS SupplierAccount, TLC

CONSTANTS p1, p2, o1

\* p1 has three units for 4 net and 1 tax, neither of which divides evenly; p2
\* is the smallest purchase there is.
TwoBills == p1 :> [qty |-> 3, net |-> 4, tax |-> 1] @@ p2 :> [qty |-> 1, net |-> 1, tax |-> 0]
OneBill == p1 :> [qty |-> 3, net |-> 4, tax |-> 1]
ThreeDocs == p1 :> 2 @@ p2 :> 3 @@ o1 :> 1
OneDoc == p1 :> 1

\* Requests are interchangeable numbers, so it is enough that they begin in order.
BeginInOrder == \A r \in Requests :
  pc[r] = "idle" /\ pc'[r] # "idle" => \A q \in Requests : q < r => pc[q] # "idle"

\* Either every request is about p1, with its uneven shares, or the documents
\* are several and what is looked at is the order of locks.
OnlyP1 == \A r \in Requests :
  job'[r].doc \in {p1, None} /\ \A d \in Docs \ {p1} : pay'[r].alloc[d] = 0
OrderOfLocks == \A r \in Requests :
  job'[r].kind # "return" /\ pay'[r].method = "CASH" /\ purchase'[p1].initialPaid = 0
EitherScenario == OnlyP1 \/ OrderOfLocks
=============================================================================
