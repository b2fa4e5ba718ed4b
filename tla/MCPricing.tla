----------------------------- MODULE MCPricing -----------------------------
(* Instances of Pricing for TLC. *)
EXTENDS Pricing, TLC

CONSTANTS a, b, cashier, owner

\* Item a is kept in three batches, b is not tracked by batch.
Batches == a :> <<2, 1, 3>> @@ b :> <<>>
FirstPrices == a :> 4 @@ b :> 4
FirstRates == a :> 15 @@ b :> 0
RoleCeilings == [byRole |-> cashier :> 40 @@ owner :> Nothing,
                 default |-> Nothing, legacy |-> Nothing]

\* One line or two, alike or not, so that a line may straddle the batches another
\* one has begun.
Entry == [qty : {1, 3}, disc : {0, 1, 5}]
Entries == ({<<l>> : l \in Entry} \cup {<<l, m>> : l \in Entry, m \in {n \in Entry : n.disc < 5}})
             \X {0, 3}

\* A search finds both items, or only the one without tax.
Found == {{a, b}, {b}}

\* The price of a is lowered, its tax is dropped, and either is undone.
ItemUpdates == [item : {a}, price : {4}, rate : {0, 15}] \cup [item : {a}, price : {1}, rate : {15}]
WhileAFormIsOpen ==
  catalog' # catalog => \E c \in Clerks : (draft[c] # Nothing \/ form[c] # Nothing) /\ doc[c] = NoDoc

\* Either the cashier or the owner has a form open, and two answers at most are under
\* way.
OneClerk ==
  /\ \A c, d \in Clerks : c = d \/ \E e \in {c, d} : draft'[e] = Nothing /\ form'[e] = Nothing
  /\ \A c \in Clerks : draft'[c] # Nothing => Cardinality(draft'[c].asked) <= 2
=============================================================================
