------------------------------- MODULE Money -------------------------------
(***************************************************************************)
(* Fixed-point money arithmetic of apps/web/lib/money.ts.  Amounts are     *)
(* integers counted in the smallest unit the numeric(18,4) columns hold;   *)
(* MoneyScale is the number of units in one currency unit (10000 in the    *)
(* code, a small number in the runs so that rounding happens often).       *)
(***************************************************************************)
EXTENDS Integers, Sequences, Functions

CONSTANT MoneyScale
ASSUME MoneyScaleAssumption == MoneyScale \in Nat \ {0}

\* roundRatio: half-up division of non-negative numbers.
RoundRatio(numerator, denominator) ==
  IF (numerator % denominator) * 2 >= denominator
  THEN numerator \div denominator + 1
  ELSE numerator \div denominator

\* multiplyToMoneyUnits: both factors carry MoneyScale.
MultiplyToMoneyUnits(quantity, price) == RoundRatio(quantity * price, MoneyScale)

\* taxForAmount: rate is a percentage that carries MoneyScale.
TaxForAmount(taxable, rate) == RoundRatio(taxable * rate, 100 * MoneyScale)

\* allocateProportionally: each weight in turn takes the floor of its share of
\* what is left, and the last positive weight takes all that is left.
AllocateProportionally(total, weights) ==
  LET n == Len(weights)
      WeightFrom(i) == SumFunctionOnSet(weights, i .. n)
      step[i \in 0 .. n] ==
        IF i = 0
        THEN [remaining |-> total, share |-> 0]
        ELSE LET left == step[i - 1].remaining
                 w == weights[i]
                 share == IF w = 0 \/ total = 0 THEN 0
                          ELSE IF i = n \/ WeightFrom(i) = w THEN left
                          ELSE (left * w) \div WeightFrom(i)
             IN  [remaining |-> left - share, share |-> share]
  IN  [i \in 1 .. n |-> step[i].share]

\* allocateReturnAmount of returns.ts: the share of what is left of a source
\* line that a return of `quantity` takes; the last return takes all of it.
AllocateReturnAmount(total, quantity, remainingQuantity) ==
  IF quantity = remainingQuantity
  THEN total
  ELSE (total * quantity) \div remainingQuantity
=============================================================================
