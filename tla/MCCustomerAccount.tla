------------------------- MODULE MCCustomerAccount -------------------------
(* Instances of CustomerAccount for TLC. *)
EXTENDS CustomerAccount, TLC

CONSTANTS s1, o1, r1, r2, r3, r4

\* Three units for 4 net and 1 tax: neither divides evenly, so every partial
\* return rounds.
OneBill == s1 :> [qty |-> 3, net |-> 4, tax |-> 1, discount |-> 1]

OneSaleRank == s1 :> 1

\* The smallest sale next to an opening balance: what remains is the order of locks.
UnitBill == s1 :> [qty |-> 1, net |-> 1, tax |-> 0, discount |-> 0]
SaleAndOpeningRank == s1 :> 2 @@ o1 :> 1

RequestSymmetry == Permutations(Requests)

\* Symmetry is unsound with liveness.  With Requests a set of numbers the same
\* reduction is to let them begin in order: requests are interchangeable.  Both
\* action constraints leave every fair action a way to be taken.
BeginInOrder == \A r \in Requests :
  pc[r] = "idle" /\ pc'[r] # "idle" => \A q \in Requests : q < r => pc[q] # "idle"
\* A return takes the same lock as a cancellation, and every method of payment
\* the same locks.
CashAndNoReturns == \A r \in Requests :
  job'[r].kind # "return" /\ pay'[r].method = "CASH"
=============================================================================
