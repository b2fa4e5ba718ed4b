----------------------------- MODULE MCCustody -----------------------------
(* An instance of Custody for TLC. *)
EXTENDS Custody

CONSTANTS ann, bob, tea, salt

\* An issue of both goods; one or two units of the first, or both goods.
Both == [g \in Goods |-> IF g = tea THEN 3 ELSE 2]
Amounts == {Both, [g \in Goods |-> IF g = tea THEN 1 ELSE 0],
                  [g \in Goods |-> IF g = tea THEN 2 ELSE 1]}

\* Requests are interchangeable numbers and begin in order, the first with an issue to
\* the first representative; the others are about either.  One good gets
\* dearer, once, after the first issue.
Scenario ==
  /\ \A r \in Requests : pc[r] = "idle" /\ pc'[r] # "idle" =>
       /\ \A q \in Requests : q < r => pc[q] # "idle"
       /\ job'[r].kind = "issue" <=> job'[r].quantity = Both
       /\ job'[r].rep = bob => job'[r].kind # "sale"
       /\ r = 1 => job'[r].kind = "issue" /\ job'[r].key = 1 /\ job'[r].rep = ann
  /\ cost'[salt] = 3 /\ cost'[tea] >= cost[tea]
  /\ cost'[tea] > 3 => pc'[1] = "done"
=============================================================================
