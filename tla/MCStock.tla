------------------------------ MODULE MCStock ------------------------------
(* Instances of Stock for TLC. *)
EXTENDS Stock, TLC

CONSTANTS w1, w2, b1, b2, b3, cola, soap

\* An item with three batches, one of which is in two warehouses, and a plain item.
Old == [item |-> cola, warehouse |-> w1, batch |-> b1]
New == [item |-> cola, warehouse |-> w1, batch |-> b2]
Newer == [item |-> cola, warehouse |-> w1, batch |-> b3]
Far == [item |-> cola, warehouse |-> w2, batch |-> b1]
Plain == [item |-> soap, warehouse |-> w1, batch |-> None]
All == {Old, New, Newer, Far, Plain}

\* Batches are numbered against their age.
LockRank == Old :> 3 @@ New :> 2 @@ Newer :> 1 @@ Far :> 4 @@ Plain :> 5
BatchAge == b1 :> 1 @@ b2 :> 2 @@ b3 :> 3

Ask(lines) == [p \in All |-> IF p \in DOMAIN lines THEN lines[p] ELSE 0]
\* One unit of the item with batches; a batch that is not there to begin with, next to a
\* line of an item without a balance row; and two units, of another such batch.
Mixed == {Ask(Old :> 1), Ask(New :> 1 @@ Plain :> 1), Ask(Newer :> 2)}
OneUnit == Old :> 1 @@ New :> None @@ Newer :> None @@ Plain :> None @@ Far :> 1

\* One batch in two warehouses, and two lines that can be taken in either order.
Crossed == {Ask(Old :> 1 @@ Far :> 1), Ask(Old :> 1 @@ Plain :> 1)}
TwoLines == {Ask(Old :> 1 @@ Plain :> 1)}
Stocked == Old :> 2 @@ New :> 1 @@ Newer :> None @@ Plain :> 2 @@ Far :> 1

\* Requests are interchangeable numbers and begin in order.
BeginInOrder == \A r \in Requests :
  pc[r] = "idle" /\ pc'[r] # "idle" => \A q \in Requests : q < r => pc[q] # "idle"
=============================================================================
