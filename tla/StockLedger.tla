---------------------------- MODULE StockLedger ----------------------------
(***************************************************************************)
(* What the stock use cases promise together: core.stock_balances is the   *)
(* sum of core.stock_movements.  A request posts its movements at most     *)
(* once, all of them in one step, to the balances as they are at that      *)
(* moment, and no balance falls below zero.                                *)
(***************************************************************************)
EXTENDS Integers

CONSTANTS Positions, Requests, InitialStock

VARIABLES
  balance,  \* quantity on hand of every position
  posted,   \* requests that have posted
  moved     \* the movements of every request

Init ==
  /\ balance = InitialStock
  /\ posted = {}
  /\ moved = [r \in Requests |-> [p \in Positions |-> 0]]

\* A request posts the movements of its choice.
Post(r) ==
  /\ r \notin posted
  /\ posted' = posted \cup {r}
  /\ moved' \in [Requests -> [Positions -> Int]]
  /\ \A q \in Requests \ {r} : moved'[q] = moved[q]
  /\ balance' = [p \in Positions |-> balance[p] + moved'[r][p]]
  /\ \A p \in Positions : balance'[p] >= 0

Next == \E r \in Requests : Post(r)
Spec == Init /\ [][Next]_<<balance, posted, moved>>
=============================================================================
