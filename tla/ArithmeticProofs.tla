--------------------------- MODULE ArithmeticProofs ---------------------------
(***************************************************************************)
(* What the models compute with: the least of a set of numbers, sums over  *)
(* finite sets, and the roundings of Money.                                *)
(*                                                                         *)
(* SumFunctionOnSet folds a recursive function over the set, in an order   *)
(* the library chooses.  The lemmas show that there is such a function,    *)
(* that it is one whatever the set it is defined for, and that the order   *)
(* does not matter (SumRemove); the rest is induction over finite sets.    *)
(* allocateProportionally is a recursion over the lines, and handled alike *)
(* (AllocationFacts).                                                      *)
(***************************************************************************)
EXTENDS Money, FiniteSetTheorems, WellFoundedInduction, TLAPS

\* Every non-empty set of natural numbers has a least element.
LEMMA LeastNumber ==
  ASSUME NEW T, T \subseteq Nat, T # {}
  PROVE  \E m \in T : \A n \in T : m <= n
<1>1. \E m \in T : \A n \in T : ~(<<n, m>> \in OpToRel(<, Nat))
  <2> HIDE DEF OpToRel
  <2> QED BY NatLessThanWellFounded, WFMin
<1>2. PICK m \in T : \A n \in T : ~(<<n, m>> \in OpToRel(<, Nat))
  BY <1>1
<1>3. \A n \in T : ~(n < m)
  BY <1>2 DEF OpToRel
<1> QED BY <1>3

\* Finitely many numbers have a bound: if not, the least k for which the first k
\* have none is not zero, and one less has one.
LEMMA NumbersBounded ==
  ASSUME NEW n \in Nat, NEW g \in [1 .. n -> Nat]
  PROVE  \E top \in Nat : \A i \in 1 .. n : g[i] <= top
<1> DEFINE Bound(top, k) == \A i \in 1 .. k : g[i] <= top
           T == {k \in 0 .. n : \A top \in Nat : ~Bound(top, k)}
<1>1. ASSUME T # {} PROVE FALSE
  <2>1. PICK k \in T : \A j \in T : k <= j
    <3>1. T \subseteq Nat
      OBVIOUS
    <3> HIDE DEF T
    <3> QED BY <1>1, <3>1, LeastNumber
  <2>2. k \in 0 .. n /\ \A top \in Nat : ~Bound(top, k)
    BY <2>1
  <2>3. Bound(0, 0)
    OBVIOUS
  <2>4. k # 0
    <3> HIDE DEF Bound
    <3> QED BY <2>2, <2>3
  <2>5. k - 1 \in 0 .. n /\ ~(k <= k - 1)
    BY <2>2, <2>4
  <2>6. PICK top \in Nat : Bound(top, k - 1)
    <3>1. k - 1 \notin T
      <4> HIDE DEF T
      <4> QED BY <2>1, <2>5
    <3> HIDE DEF Bound
    <3> QED BY <2>5, <3>1
  <2>7. g[k] \in Nat
    BY <2>2, <2>4
  <2>8. PICK more \in Nat : top <= more /\ g[k] <= more
    <3>1. top + g[k] \in Nat /\ top <= top + g[k] /\ g[k] <= top + g[k]
      BY <2>7
    <3> QED BY <3>1
  <2>9. ASSUME NEW i \in 1 .. k PROVE g[i] <= more
    <3>1. CASE i = k
      BY <2>8, <3>1
    <3>2. CASE i # k
      <4>1. i \in 1 .. k - 1 /\ g[i] \in Nat
        BY <2>2, <3>2
      <4> QED BY <2>6, <2>8, <4>1
    <3> QED BY <3>1, <3>2
  <2>10. Bound(more, k)
    BY <2>9
  <2> HIDE DEF Bound
  <2> QED BY <2>2, <2>8, <2>10
<1>2. n \in 0 .. n
  OBVIOUS
<1>3. \E top \in Nat : Bound(top, n)
  <2> HIDE DEF Bound
  <2> QED BY <1>1, <1>2
<1> QED BY <1>3

\* Induction over a set of subsets: what holds the empty set, and with a set that
\* set and one more element, holds a finite set.
LEMMA SubsetInduction ==
  ASSUME NEW S, IsFiniteSet(S), NEW C, {} \in C,
         \A T \in C, x \in S : x \notin T /\ T \subseteq S => T \cup {x} \in C
  PROVE  S \in C
<1> DEFINE Missed == {T \in SUBSET S : T \notin C}
           Sizes == {Cardinality(T) : T \in Missed}
<1>1. \A T \in SUBSET S : IsFiniteSet(T) /\ Cardinality(T) \in Nat
  BY FS_Subset, FS_CardinalityType
<1>2. ASSUME S \notin C PROVE FALSE
  <2>1. Sizes # {} /\ Sizes \subseteq Nat
    BY <1>1, <1>2
  <2>2. PICK n \in Sizes : \A m \in Sizes : n <= m
    <3> HIDE DEF Sizes
    <3> QED BY <2>1, LeastNumber
  <2>3. PICK T \in Missed : Cardinality(T) = n
    BY <2>2
  <2>4. PICK x \in T : x \in S
    BY <2>3
  <2>5. /\ Cardinality(T \ {x}) = Cardinality(T) - 1
        /\ T \ {x} \in SUBSET S
    BY <1>1, <2>3, <2>4, FS_RemoveElement
  <2>6. T \ {x} \in C
    <3> SUFFICES ASSUME T \ {x} \notin C PROVE FALSE
      OBVIOUS
    <3>1. T \ {x} \in Missed
      BY <2>5
    <3>2. Cardinality(T \ {x}) \in Sizes
      BY <3>1
    <3>3. n <= Cardinality(T) - 1 /\ Cardinality(T) = n /\ n \in Nat
      BY <1>1, <2>2, <2>3, <2>5, <3>2
    <3> QED BY <3>3
  <2>7. (T \ {x}) \cup {x} = T
    BY <2>4
  <2> QED BY <2>3, <2>4, <2>5, <2>6, <2>7
<1> QED BY <1>2

-----------------------------------------------------------------------------
\* The function SumFunctionOnSet chooses: the sum of every part of S.
Picked(s) == CHOOSE y \in s : TRUE
IsSums(it, f, S) ==
  it = [s \in SUBSET S |-> IF s = {} THEN 0 ELSE f[Picked(s)] + it[s \ {Picked(s)}]]

\* The sum is what that function says of the whole of S.
LEMMA SumByParts == ASSUME NEW f, NEW S
  PROVE SumFunctionOnSet(f, S) = (CHOOSE it : IsSums(it, f, S))[S]
  BY DEF SumFunctionOnSet, FoldFunctionOnSet, MapThenFoldSet, IsSums, Picked

\* The element picked is one of the set.
LEMMA PickedIn == ASSUME NEW s, s # {}
  PROVE Picked(s) \in s
  BY DEF Picked

\* There is such a function when S is finite: one that is right up to a size gives one
\* that is right up to the next.
LEMMA SumsExist ==
  ASSUME NEW f, NEW S, IsFiniteSet(S)
  PROVE  \E it : IsSums(it, f, S)
<1> DEFINE Upto(n, it) == it = [s \in SUBSET S |->
       IF s = {} \/ Cardinality(s) > n THEN 0 ELSE f[Picked(s)] + it[s \ {Picked(s)}]]
           T == {n \in Nat : \A it : ~Upto(n, it)}
<1>1. \A s \in SUBSET S : IsFiniteSet(s) /\ Cardinality(s) \in 0 .. Cardinality(S)
  BY FS_Subset, FS_CardinalityType
<1>2. \A s \in SUBSET S : s # {} =>
        /\ s \ {Picked(s)} \in SUBSET S
        /\ Cardinality(s \ {Picked(s)}) = Cardinality(s) - 1
  BY <1>1, PickedIn, FS_RemoveElement
<1>3. Cardinality({}) = 0 /\ \A s \in SUBSET S : Cardinality(s) = 0 => s = {}
  BY <1>1, FS_EmptySet
<1>4. Upto(0, [s \in SUBSET S |-> 0])
  BY <1>1, <1>3
<1>5. ASSUME NEW n \in Nat, NEW g, Upto(n, g)
      PROVE  \E h : Upto(n + 1, h)
  <2> DEFINE h == [s \in SUBSET S |->
       IF s = {} \/ Cardinality(s) > n + 1 THEN 0 ELSE f[Picked(s)] + g[s \ {Picked(s)}]]
  <2>1. ASSUME NEW s \in SUBSET S, Cardinality(s) <= n
        PROVE  h[s] = g[s]
    <3>1. ~(Cardinality(s) > n) /\ ~(Cardinality(s) > n + 1)
      BY <1>1, <2>1
    <3> QED BY <1>5, <3>1
  <2>2. ASSUME NEW s \in SUBSET S, s # {}, ~(Cardinality(s) > n + 1)
        PROVE  h[s \ {Picked(s)}] = g[s \ {Picked(s)}]
    <3>1. s \ {Picked(s)} \in SUBSET S /\ Cardinality(s \ {Picked(s)}) <= n
      BY <1>1, <1>2, <2>2
    <3> HIDE DEF h
    <3> QED BY <2>1, <3>1
  <2>3. h = [s \in SUBSET S |->
       IF s = {} \/ Cardinality(s) > n + 1 THEN 0 ELSE f[Picked(s)] + h[s \ {Picked(s)}]]
    BY <2>2
  <2> HIDE DEF h
  <2> QED BY <2>3
<1>6. T = {}
  <2> SUFFICES ASSUME T # {} PROVE FALSE
    OBVIOUS
  <2>1. PICK n \in T : \A m \in T : n <= m
    <3>1. T \subseteq Nat
      OBVIOUS
    <3> HIDE DEF T
    <3> QED BY <3>1, LeastNumber
  <2>2. n \in Nat /\ \A it : ~Upto(n, it)
    BY <2>1
  <2>3. n # 0
    <3> HIDE DEF Upto
    <3> QED BY <1>4, <2>2
  <2>4. n - 1 \in Nat /\ ~(n <= n - 1) /\ (n - 1) + 1 = n
    BY <2>2, <2>3
  <2>5. n - 1 \notin T
    <3> HIDE DEF T
    <3> QED BY <2>1, <2>4
  <2> HIDE DEF Upto
  <2>6. \E it : Upto(n - 1, it)
    BY <2>4, <2>5
  <2> QED BY <1>5, <2>2, <2>4, <2>6
<1>7. Cardinality(S) \in Nat
  BY FS_CardinalityType
<1>8. PICK it : Upto(Cardinality(S), it)
  <2>1. Cardinality(S) \notin T
    BY <1>6
  <2> HIDE DEF Upto
  <2> QED BY <1>7, <2>1
<1>9. \A s \in SUBSET S : ~(Cardinality(s) > Cardinality(S))
  BY <1>1, <1>7
<1>10. IsSums(it, f, S)
  BY <1>8, <1>9 DEF IsSums
<1> QED BY <1>10

\* Two of them agree on the parts they share.
LEMMA SumsAgree ==
  ASSUME NEW f, NEW S, NEW R, IsFiniteSet(S), NEW g, IsSums(g, f, S), NEW h, IsSums(h, f, R),
         S \subseteq R
  PROVE  h[S] = g[S]
<1> DEFINE Missed == {s \in SUBSET S : h[s] # g[s]}
           Sizes == {Cardinality(s) : s \in Missed}
<1>1. \A s \in SUBSET S : IsFiniteSet(s) /\ Cardinality(s) \in Nat
  BY FS_Subset, FS_CardinalityType
<1>2. ASSUME Missed # {} PROVE FALSE
  <2>1. Sizes # {} /\ Sizes \subseteq Nat
    BY <1>1, <1>2
  <2>2. PICK n \in Sizes : \A m \in Sizes : n <= m
    <3> HIDE DEF Sizes
    <3> QED BY <2>1, LeastNumber
  <2>3. PICK s \in Missed : Cardinality(s) = n
    BY <2>2
  <2>4. h[s] = (IF s = {} THEN 0 ELSE f[Picked(s)] + h[s \ {Picked(s)}]) /\ s \in SUBSET R
    BY <2>3 DEF IsSums
  <2>5. g[s] = (IF s = {} THEN 0 ELSE f[Picked(s)] + g[s \ {Picked(s)}])
    BY <2>3 DEF IsSums
  <2>6. s # {}
    BY <2>3, <2>4, <2>5
  <2>7. /\ Cardinality(s \ {Picked(s)}) = Cardinality(s) - 1
        /\ s \ {Picked(s)} \in SUBSET S
    BY <1>1, <2>3, <2>6, PickedIn, FS_RemoveElement
  <2>8. h[s \ {Picked(s)}] = g[s \ {Picked(s)}]
    BY <1>1, <2>2, <2>3, <2>7
  <2> QED BY <2>3, <2>4, <2>5, <2>8
<1> QED BY <1>2

\* A sum is the term of the element the library picks and the sum of the rest.
LEMMA SumPick ==
  ASSUME NEW f, NEW S, IsFiniteSet(S), S # {}
  PROVE  SumFunctionOnSet(f, S) = f[Picked(S)] + SumFunctionOnSet(f, S \ {Picked(S)})
<1> DEFINE R == S \ {Picked(S)}
           g == CHOOSE it : IsSums(it, f, S)
           h == CHOOSE it : IsSums(it, f, R)
<1>1. IsFiniteSet(R) /\ R \subseteq S
  BY FS_Subset
<1>2. IsSums(g, f, S) /\ IsSums(h, f, R)
  BY <1>1, SumsExist
<1> HIDE DEF g, h
<1>3. g[R] = h[R]
  BY <1>1, <1>2, SumsAgree
<1>4. g[S] = f[Picked(S)] + g[R]
  BY <1>2 DEF IsSums
<1>5. SumFunctionOnSet(f, S) = g[S] /\ SumFunctionOnSet(f, R) = h[R]
  BY SumByParts DEF g, h
<1> QED BY <1>3, <1>4, <1>5

\* The empty sum.
LEMMA SumEmpty == ASSUME NEW f PROVE SumFunctionOnSet(f, {}) = 0
<1> DEFINE g == CHOOSE it : IsSums(it, f, {})
<1>1. IsSums(g, f, {})
  BY FS_EmptySet, SumsExist
<1> HIDE DEF g
<1>2. g[{}] = 0
  BY <1>1 DEF IsSums
<1> QED BY <1>2, SumByParts DEF g

\* A sum of integers is an integer.
LEMMA SumInt ==
  ASSUME NEW S, IsFiniteSet(S), NEW f, \A x \in S : f[x] \in Int
  PROVE  SumFunctionOnSet(f, S) \in Int
<1> DEFINE Missed == {T \in SUBSET S : SumFunctionOnSet(f, T) \notin Int}
           Sizes == {Cardinality(T) : T \in Missed}
<1>1. \A T \in SUBSET S : IsFiniteSet(T) /\ Cardinality(T) \in Nat
  BY FS_Subset, FS_CardinalityType
<1>2. ASSUME Sizes # {} PROVE FALSE
  <2>1. PICK n \in Sizes : \A m \in Sizes : n <= m
    <3>1. Sizes \subseteq Nat
      BY <1>1
    <3> HIDE DEF Sizes
    <3> QED BY <1>2, <3>1, LeastNumber
  <2>2. PICK T \in Missed : Cardinality(T) = n
    BY <2>1
  <2>3. T # {} /\ T \in SUBSET S /\ SumFunctionOnSet(f, T) \notin Int
    BY <2>2, SumEmpty
  <2>4. /\ Cardinality(T \ {Picked(T)}) = Cardinality(T) - 1
        /\ T \ {Picked(T)} \in SUBSET S
        /\ Picked(T) \in S
    BY <1>1, <2>3, PickedIn, FS_RemoveElement
  <2>5. SumFunctionOnSet(f, T \ {Picked(T)}) \in Int
    <3> SUFFICES ASSUME T \ {Picked(T)} \in Missed PROVE FALSE
      BY <2>4
    <3>1. Cardinality(T \ {Picked(T)}) \in Sizes
      OBVIOUS
    <3>2. n <= Cardinality(T) - 1 /\ Cardinality(T) = n /\ n \in Nat
      BY <1>1, <2>1, <2>2, <2>3, <2>4, <3>1
    <3> QED BY <3>2
  <2>6. SumFunctionOnSet(f, T) = f[Picked(T)] + SumFunctionOnSet(f, T \ {Picked(T)})
    BY <1>1, <2>3, SumPick
  <2> QED BY <2>3, <2>4, <2>5, <2>6
<1> QED BY <1>2

\* A sum is the term of any one of its elements and the sum of the rest.
LEMMA SumRemove ==
  ASSUME NEW S, IsFiniteSet(S), NEW f, \A x \in S : f[x] \in Int, NEW z \in S
  PROVE  SumFunctionOnSet(f, S) = f[z] + SumFunctionOnSet(f, S \ {z})
<1> DEFINE Splits(T) == \A y \in T : SumFunctionOnSet(f, T) = f[y] + SumFunctionOnSet(f, T \ {y})
           Missed == {T \in SUBSET S : ~Splits(T)}
           Sizes == {Cardinality(T) : T \in Missed}
<1>1. \A T \in SUBSET S : IsFiniteSet(T) /\ Cardinality(T) \in Nat
  BY FS_Subset, FS_CardinalityType
<1>2. \A T \in SUBSET S : SumFunctionOnSet(f, T) \in Int
  BY <1>1, SumInt
<1>3. ASSUME Missed # {} PROVE FALSE
  <2>1. PICK n \in Sizes : \A m \in Sizes : n <= m
    <3>1. Sizes \subseteq Nat /\ Sizes # {}
      BY <1>1, <1>3
    <3> HIDE DEF Sizes
    <3> QED BY <3>1, LeastNumber
  <2>2. PICK T \in Missed : Cardinality(T) = n
    BY <2>1
  <2>3. PICK y \in T : SumFunctionOnSet(f, T) # f[y] + SumFunctionOnSet(f, T \ {y})
    BY <2>2
  <2> DEFINE x == Picked(T)
  <2>4. x \in T /\ T \in SUBSET S
    BY <2>2, <2>3, PickedIn
  <2> HIDE DEF x
  <2>5. SumFunctionOnSet(f, T) = f[x] + SumFunctionOnSet(f, T \ {x})
    BY <1>1, <2>3, <2>4, SumPick DEF x
  <2>6. x # y
    BY <2>3, <2>5
  <2>7. ASSUME NEW u \in T PROVE Splits(T \ {u})
    <3> SUFFICES ASSUME ~Splits(T \ {u}) PROVE FALSE
      OBVIOUS
    <3>1. T \ {u} \in Missed
      BY <2>4
    <3>2. Cardinality(T \ {u}) = Cardinality(T) - 1 /\ Cardinality(T) \in Nat
      BY <1>1, <2>4, FS_RemoveElement
    <3> HIDE DEF Missed
    <3>3. Cardinality(T \ {u}) \in Sizes
      BY <3>1
    <3>4. n <= Cardinality(T) - 1 /\ Cardinality(T) = n
      BY <2>1, <2>2, <3>2, <3>3
    <3> QED BY <3>2, <3>4
  <2>8. SumFunctionOnSet(f, T \ {x}) = f[y] + SumFunctionOnSet(f, (T \ {x}) \ {y})
    BY <2>4, <2>6, <2>7
  <2>9. SumFunctionOnSet(f, T \ {y}) = f[x] + SumFunctionOnSet(f, (T \ {y}) \ {x})
    BY <2>3, <2>4, <2>6, <2>7
  <2>10. (T \ {x}) \ {y} = (T \ {y}) \ {x} /\ (T \ {x}) \ {y} \in SUBSET S
    BY <2>4
  <2>11. f[x] \in Int /\ f[y] \in Int /\ SumFunctionOnSet(f, (T \ {x}) \ {y}) \in Int
    BY <1>2, <2>3, <2>4, <2>10
  <2> DEFINE rest == SumFunctionOnSet(f, (T \ {x}) \ {y})
  <2>12. /\ SumFunctionOnSet(f, T) = f[x] + (f[y] + rest)
         /\ SumFunctionOnSet(f, T \ {y}) = f[x] + rest
    BY <2>5, <2>8, <2>9, <2>10
  <2> HIDE DEF rest, Missed, Sizes
  <2>13. f[x] + (f[y] + rest) = f[y] + (f[x] + rest)
    BY <2>11 DEF rest
  <2> QED BY <2>3, <2>12, <2>13
<1>4. Splits(S)
  BY <1>3
<1> QED BY <1>4

\* One more element adds its term.
LEMMA SumAdd ==
  ASSUME NEW S, IsFiniteSet(S), NEW f, NEW z, z \notin S, \A x \in S \cup {z} : f[x] \in Int
  PROVE  SumFunctionOnSet(f, S \cup {z}) = f[z] + SumFunctionOnSet(f, S)
<1>1. IsFiniteSet(S \cup {z}) /\ (S \cup {z}) \ {z} = S /\ z \in S \cup {z}
  BY FS_AddElement
<1> QED BY <1>1, SumRemove

\* A sum reads its terms and nothing else.
LEMMA SumSame ==
  ASSUME NEW S, IsFiniteSet(S), NEW f, NEW g, \A x \in S : f[x] = g[x] /\ f[x] \in Int
  PROVE  SumFunctionOnSet(f, S) = SumFunctionOnSet(g, S)
<1> DEFINE C == {T \in SUBSET S : SumFunctionOnSet(f, T) = SumFunctionOnSet(g, T)}
<1>1. {} \in C
  BY SumEmpty
<1>2. ASSUME NEW T \in C, NEW x \in S, x \notin T, T \subseteq S PROVE T \cup {x} \in C
  <2>1. IsFiniteSet(T)
    BY <1>2, FS_Subset
  <2> QED BY <1>2, <2>1, SumAdd
<1> HIDE DEF C
<1>3. S \in C
  BY <1>1, <1>2, SubsetInduction
<1> QED BY <1>3 DEF C

\* Sums of natural numbers are natural numbers, and no term exceeds them.
LEMMA SumNat ==
  ASSUME NEW S, IsFiniteSet(S), NEW f, \A x \in S : f[x] \in Nat
  PROVE  /\ SumFunctionOnSet(f, S) \in Nat
         /\ \A x \in S : f[x] <= SumFunctionOnSet(f, S)
<1> DEFINE C == {T \in SUBSET S : SumFunctionOnSet(f, T) \in Nat}
<1>1. {} \in C
  BY SumEmpty
<1>2. ASSUME NEW T \in C, NEW x \in S, x \notin T, T \subseteq S PROVE T \cup {x} \in C
  <2>1. IsFiniteSet(T)
    BY <1>2, FS_Subset
  <2>2. SumFunctionOnSet(f, T \cup {x}) = f[x] + SumFunctionOnSet(f, T)
    <3>1. \A y \in T \cup {x} : f[y] \in Int
      BY <1>2
    <3> QED BY <1>2, <2>1, <3>1, SumAdd
  <2> QED BY <1>2, <2>2
<1>3. ASSUME NEW T \in SUBSET S PROVE SumFunctionOnSet(f, T) \in Nat
  <2>1. T \in C
    <3> DEFINE D == C \cap SUBSET T
    <3>1. IsFiniteSet(T)
      BY FS_Subset
    <3>2. {} \in D
      BY <1>1
    <3>3. ASSUME NEW U \in D, NEW x \in T, x \notin U, U \subseteq T PROVE U \cup {x} \in D
      <4>1. U \cup {x} \in C
        BY <1>2, <3>3
      <4> QED BY <3>3, <4>1
    <3> HIDE DEF D
    <3>4. T \in D
      BY <3>1, <3>2, <3>3, SubsetInduction
    <3> QED BY <3>4 DEF D
  <2> QED BY <2>1
<1>4. ASSUME NEW x \in S PROVE f[x] <= SumFunctionOnSet(f, S)
  <2>1. SumFunctionOnSet(f, S) = f[x] + SumFunctionOnSet(f, S \ {x})
    BY SumRemove
  <2>2. SumFunctionOnSet(f, S \ {x}) \in Nat
    BY <1>3
  <2> QED BY <2>1, <2>2
<1> QED BY <1>3, <1>4

\* The sum of pairwise sums.
LEMMA SumPlus ==
  ASSUME NEW S, IsFiniteSet(S), NEW f, NEW g, NEW h,
         \A x \in S : f[x] \in Int /\ g[x] \in Int /\ h[x] = f[x] + g[x]
  PROVE  SumFunctionOnSet(h, S) = SumFunctionOnSet(f, S) + SumFunctionOnSet(g, S)
<1> DEFINE C == {T \in SUBSET S :
       SumFunctionOnSet(h, T) = SumFunctionOnSet(f, T) + SumFunctionOnSet(g, T)}
<1>1. {} \in C
  BY SumEmpty
<1>2. ASSUME NEW T \in C, NEW x \in S, x \notin T, T \subseteq S PROVE T \cup {x} \in C
  <2>1. IsFiniteSet(T)
    BY <1>2, FS_Subset
  <2>2. /\ SumFunctionOnSet(f, T \cup {x}) = f[x] + SumFunctionOnSet(f, T)
        /\ SumFunctionOnSet(g, T \cup {x}) = g[x] + SumFunctionOnSet(g, T)
        /\ SumFunctionOnSet(h, T \cup {x}) = h[x] + SumFunctionOnSet(h, T)
    <3>1. \A y \in T \cup {x} : f[y] \in Int /\ g[y] \in Int /\ h[y] \in Int
      BY <1>2
    <3> QED BY <1>2, <2>1, <3>1, SumAdd
  <2>3. SumFunctionOnSet(f, T) \in Int /\ SumFunctionOnSet(g, T) \in Int
    BY <1>2, <2>1, SumInt
  <2> QED BY <1>2, <2>2, <2>3
<1> HIDE DEF C
<1>3. S \in C
  BY <1>1, <1>2, SubsetInduction
<1> QED BY <1>3 DEF C

\* A sum over two parts that share nothing.
LEMMA SumUnion ==
  ASSUME NEW S, IsFiniteSet(S), NEW R, IsFiniteSet(R), R \cap S = {}, NEW f,
         \A x \in S \cup R : f[x] \in Int
  PROVE  SumFunctionOnSet(f, S \cup R) = SumFunctionOnSet(f, S) + SumFunctionOnSet(f, R)
<1> DEFINE C == {T \in SUBSET R :
       SumFunctionOnSet(f, S \cup T) = SumFunctionOnSet(f, S) + SumFunctionOnSet(f, T)}
<1>1. {} \in C
  <2>1. S \cup {} = S /\ SumFunctionOnSet(f, S) \in Int
    BY SumInt
  <2> QED BY <2>1, SumEmpty
<1>2. ASSUME NEW T \in C, NEW x \in R, x \notin T, T \subseteq R PROVE T \cup {x} \in C
  <2>1. IsFiniteSet(T) /\ IsFiniteSet(S \cup T) /\ x \notin S \cup T
    BY <1>2, FS_Subset, FS_Union
  <2>2. S \cup (T \cup {x}) = (S \cup T) \cup {x}
    OBVIOUS
  <2>3. /\ SumFunctionOnSet(f, T \cup {x}) = f[x] + SumFunctionOnSet(f, T)
        /\ SumFunctionOnSet(f, (S \cup T) \cup {x}) = f[x] + SumFunctionOnSet(f, S \cup T)
    BY <1>2, <2>1, SumAdd
  <2>4. SumFunctionOnSet(f, T) \in Int /\ SumFunctionOnSet(f, S) \in Int /\ f[x] \in Int
    BY <1>2, <2>1, SumInt
  <2>5. SumFunctionOnSet(f, S \cup T) = SumFunctionOnSet(f, S) + SumFunctionOnSet(f, T)
    BY <1>2
  <2>6. SumFunctionOnSet(f, S \cup (T \cup {x}))
          = SumFunctionOnSet(f, S) + SumFunctionOnSet(f, T \cup {x})
    <3> DEFINE a == SumFunctionOnSet(f, S)
               b == SumFunctionOnSet(f, T)
    <3>1. /\ SumFunctionOnSet(f, S \cup (T \cup {x})) = f[x] + (a + b)
          /\ SumFunctionOnSet(f, T \cup {x}) = f[x] + b
      BY <2>2, <2>3, <2>5
    <3>2. a \in Int /\ b \in Int
      BY <2>4
    <3> HIDE DEF a, b
    <3>3. f[x] + (a + b) = a + (f[x] + b)
      BY <2>4, <3>2
    <3> QED BY <3>1, <3>3 DEF a
  <2> QED BY <1>2, <2>6
<1> HIDE DEF C
<1>3. R \in C
  BY <1>1, <1>2, SubsetInduction
<1> QED BY <1>3 DEF C

\* A sum of no more than another, term by term.
LEMMA SumMono ==
  ASSUME NEW S, IsFiniteSet(S), NEW f, NEW g,
         \A x \in S : f[x] \in Int /\ g[x] \in Int /\ f[x] <= g[x]
  PROVE  SumFunctionOnSet(f, S) <= SumFunctionOnSet(g, S)
<1> DEFINE d == [x \in S |-> g[x] - f[x]]
<1>1. \A x \in S : d[x] \in Nat /\ g[x] = f[x] + d[x]
  OBVIOUS
<1> HIDE DEF d
<1>2. SumFunctionOnSet(d, S) \in Nat
  BY <1>1, SumNat
<1>3. SumFunctionOnSet(g, S) = SumFunctionOnSet(f, S) + SumFunctionOnSet(d, S)
  BY <1>1, SumPlus
<1> QED BY <1>2, <1>3, SumInt

\* A sum of nothing but zeros.
LEMMA SumZero ==
  ASSUME NEW S, IsFiniteSet(S), NEW f, \A x \in S : f[x] = 0
  PROVE  SumFunctionOnSet(f, S) = 0
<1>1. SumFunctionOnSet(f, S) \in Int
  BY SumInt
<1>2. SumFunctionOnSet(f, S) = SumFunctionOnSet(f, S) + SumFunctionOnSet(f, S)
  <2>1. \A x \in S : f[x] \in Int /\ f[x] = f[x] + f[x]
    OBVIOUS
  <2> QED BY <2>1, SumPlus
<1> DEFINE sum == SumFunctionOnSet(f, S)
<1> HIDE DEF sum
<1>3. sum \in Int /\ sum = sum + sum
  BY <1>1, <1>2 DEF sum
<1>4. sum = 0
  BY <1>3
<1> QED BY <1>4 DEF sum

\* Two sums whose terms differ in one element.
LEMMA SumChange ==
  ASSUME NEW S, IsFiniteSet(S), NEW f, NEW g, NEW z \in S,
         \A x \in S : f[x] \in Int /\ g[x] \in Int,
         \A x \in S \ {z} : f[x] = g[x]
  PROVE  SumFunctionOnSet(g, S) = SumFunctionOnSet(f, S) + (g[z] - f[z])
<1>1. IsFiniteSet(S \ {z})
  BY FS_Subset
<1>2. SumFunctionOnSet(f, S \ {z}) = SumFunctionOnSet(g, S \ {z})
  BY <1>1, SumSame
<1>3. SumFunctionOnSet(f, S \ {z}) \in Int
  BY <1>1, SumInt
<1>4. /\ SumFunctionOnSet(f, S) = f[z] + SumFunctionOnSet(f, S \ {z})
      /\ SumFunctionOnSet(g, S) = g[z] + SumFunctionOnSet(g, S \ {z})
  BY SumRemove
<1> QED BY <1>2, <1>3, <1>4

\* A sum whose elements fall into blocks that each add up to nothing.
LEMMA SumBlocks ==
  ASSUME NEW S, IsFiniteSet(S), NEW f, \A x \in S : f[x] \in Int, NEW B,
         \A x \in S : /\ x \in B[x] /\ B[x] \subseteq S
                      /\ \A y \in B[x] : B[y] = B[x]
                      /\ SumFunctionOnSet(f, B[x]) = 0
  PROVE  SumFunctionOnSet(f, S) = 0
<1> DEFINE Whole(T) == \A x \in T : B[x] \subseteq T
           Missed == {T \in SUBSET S : Whole(T) /\ SumFunctionOnSet(f, T) # 0}
           Sizes == {Cardinality(T) : T \in Missed}
<1>1. \A T \in SUBSET S : IsFiniteSet(T) /\ Cardinality(T) \in Nat
  BY FS_Subset, FS_CardinalityType
<1>2. ASSUME S \in Missed PROVE FALSE
  <2>1. PICK n \in Sizes : \A m \in Sizes : n <= m
    <3>1. Sizes \subseteq Nat /\ Sizes # {}
      BY <1>1, <1>2
    <3> HIDE DEF Sizes
    <3> QED BY <3>1, LeastNumber
  <2>2. PICK T \in Missed : Cardinality(T) = n
    BY <2>1
  <2>3. T \in SUBSET S /\ Whole(T) /\ SumFunctionOnSet(f, T) # 0
    BY <2>2
  <2>4. PICK x \in T : TRUE
    BY <2>3, SumEmpty
  <2> DEFINE R == T \ B[x]
  <2>5. B[x] \subseteq T /\ x \in B[x] /\ SumFunctionOnSet(f, B[x]) = 0
    BY <2>3
  <2>6. IsFiniteSet(R) /\ IsFiniteSet(B[x]) /\ R \in SUBSET S /\ R # T
    BY <1>1, <2>3, <2>5
  <2>7. Whole(R)
    BY <2>3
  <2>8. SumFunctionOnSet(f, T) = SumFunctionOnSet(f, R) + SumFunctionOnSet(f, B[x])
    <3>1. R \cup B[x] = T /\ B[x] \cap R = {}
      BY <2>5
    <3>2. \A y \in R \cup B[x] : f[y] \in Int
      BY <2>3, <3>1
    <3> HIDE DEF R
    <3>3. SumFunctionOnSet(f, R \cup B[x]) = SumFunctionOnSet(f, R) + SumFunctionOnSet(f, B[x])
      BY <2>6, <3>1, <3>2, SumUnion
    <3> QED BY <3>1, <3>3
  <2>9. Cardinality(R) < Cardinality(T)
    <3>1. R \subseteq T /\ IsFiniteSet(T)
      BY <1>1, <2>3
    <3> HIDE DEF R
    <3>2. Cardinality(R) <= Cardinality(T) /\ (Cardinality(R) = Cardinality(T) => R = T)
      BY <3>1, FS_Subset
    <3> QED BY <1>1, <2>3, <2>6, <3>2
  <2>10. R \notin Missed
    <3> SUFFICES ASSUME R \in Missed PROVE FALSE
      OBVIOUS
    <3>1. n <= Cardinality(R)
      BY <2>1
    <3> HIDE DEF R
    <3> QED BY <1>1, <2>2, <2>3, <2>6, <2>9, <3>1
  <2>11. SumFunctionOnSet(f, R) = 0
    BY <2>6, <2>7, <2>10
  <2> HIDE DEF R
  <2> QED BY <2>3, <2>5, <2>8, <2>11
<1>3. Whole(S)
  OBVIOUS
<1> QED BY <1>2, <1>3

\* The sum of a table by rows is its sum by columns.
LEMMA SumExchange ==
  ASSUME NEW S, IsFiniteSet(S), NEW A, IsFiniteSet(A), NEW m,
         \A x \in S : \A a \in A : m[x][a] \in Int
  PROVE  SumFunctionOnSet([x \in S |-> SumFunctionOnSet(m[x], A)], S)
         = SumFunctionOnSet([a \in A |-> SumFunctionOnSet([x \in S |-> m[x][a]], S)], A)
<1> DEFINE row(T) == [x \in S |-> SumFunctionOnSet(m[x], T)]
           column == [a \in A |-> SumFunctionOnSet([x \in S |-> m[x][a]], S)]
           C == {T \in SUBSET A : SumFunctionOnSet(row(T), S) = SumFunctionOnSet(column, T)}
<1>1. {} \in C
  <2>1. \A x \in S : row({})[x] = 0
    BY SumEmpty
  <2> DEFINE f == row({})
  <2>2. \A x \in S : f[x] = 0
    BY <2>1
  <2> HIDE DEF f
  <2>3. SumFunctionOnSet(f, S) = 0
    BY <2>2, SumZero
  <2> HIDE DEF column
  <2>4. SumFunctionOnSet(column, {}) = 0
    BY SumEmpty
  <2> QED BY <2>3, <2>4 DEF f
<1>2. \A a \in A : column[a] \in Int
  <2> TAKE a \in A
  <2> DEFINE f == [x \in S |-> m[x][a]]
  <2>1. \A x \in S : f[x] \in Int
    OBVIOUS
  <2> HIDE DEF f
  <2>2. SumFunctionOnSet(f, S) \in Int
    BY <2>1, SumInt
  <2> QED BY <2>2 DEF f
<1>3. ASSUME NEW T \in C, NEW a \in A, a \notin T, T \subseteq A PROVE T \cup {a} \in C
  <2>1. IsFiniteSet(T)
    BY <1>3, FS_Subset
  <2> DEFINE f == row(T)
             g == [x \in S |-> m[x][a]]
             h == row(T \cup {a})
  <2>2. \A x \in S : f[x] \in Int /\ g[x] \in Int /\ h[x] = f[x] + g[x]
    <3> TAKE x \in S
    <3>1. SumFunctionOnSet(m[x], T) \in Int
      BY <1>3, <2>1, SumInt
    <3>2. \A b \in T \cup {a} : m[x][b] \in Int
      BY <1>3
    <3>3. SumFunctionOnSet(m[x], T \cup {a}) = m[x][a] + SumFunctionOnSet(m[x], T)
      BY <1>3, <2>1, <3>2, SumAdd
    <3> QED BY <1>3, <3>1, <3>3
  <2>3. SumFunctionOnSet(g, S) = column[a]
    OBVIOUS
  <2>4. SumFunctionOnSet(f, S) = SumFunctionOnSet(column, T)
    BY <1>3
  <2> HIDE DEF f, g, h, column
  <2>5. SumFunctionOnSet(h, S) = SumFunctionOnSet(f, S) + SumFunctionOnSet(g, S)
    BY <2>2, SumPlus
  <2>6. SumFunctionOnSet(column, T \cup {a}) = column[a] + SumFunctionOnSet(column, T)
    <3>1. \A b \in T \cup {a} : column[b] \in Int
      BY <1>2, <1>3
    <3> QED BY <1>3, <2>1, <3>1, SumAdd
  <2>7. SumFunctionOnSet(f, S) \in Int
    BY <2>2, SumInt
  <2>8. SumFunctionOnSet(h, S) = SumFunctionOnSet(column, T \cup {a})
    BY <1>2, <2>3, <2>4, <2>5, <2>6, <2>7
  <2> QED BY <1>3, <2>8 DEF h
<1> HIDE DEF C
<1>4. A \in C
  BY <1>1, <1>3, SubsetInduction
<1> QED BY <1>4 DEF C

-----------------------------------------------------------------------------
(* Quotients and the roundings of Money. *)

\* Division with remainder.
LEMMA DivFacts ==
  ASSUME NEW n \in Nat, NEW g \in Nat \ {0}
  PROVE  /\ n \div g \in Nat
         /\ n % g \in 0 .. g - 1
         /\ n = g * (n \div g) + (n % g)
  BY SMT

\* Multiplication by a natural number is monotone.
LEMMA MulMono == ASSUME NEW a \in Nat, NEW b \in Nat, NEW c \in Nat, a <= b
  PROVE a * c <= b * c
  BY SMT

\* A quotient is at most i when the dividend is at most i divisors.
LEMMA QuotientBound ==
  ASSUME NEW n \in Nat, NEW g \in Nat \ {0}, NEW i \in Nat, n <= g * i
  PROVE  /\ n \div g <= i
         /\ n \div g = i => n % g = 0
<1> DEFINE k == n \div g
<1>1. k \in Nat /\ n % g \in Nat /\ n = g * k + (n % g)
  BY DivFacts
<1>2. k <= i
  <2> SUFFICES ASSUME k >= i + 1 PROVE FALSE
    BY <1>1
  <2>1. (i + 1) * g <= k * g
    BY <1>1, MulMono
  <2> QED BY <1>1, <2>1, SMT
<1>3. k = i => n % g = 0
  BY <1>1, SMT
<1> QED BY <1>2, <1>3

\* allocateReturnAmount gives a share between nothing and everything that is left.
LEMMA AllocateReturnAmountBounds ==
  ASSUME NEW total \in Nat, NEW quantity \in Nat \ {0}, NEW remaining \in Nat,
         quantity <= remaining
  PROVE  /\ AllocateReturnAmount(total, quantity, remaining) \in 0 .. total
         /\ quantity = remaining => AllocateReturnAmount(total, quantity, remaining) = total
<1>1. total * quantity \in Nat /\ total * quantity <= remaining * total
  BY MulMono
<1>2. (total * quantity) \div remaining \in 0 .. total
  BY <1>1, DivFacts, QuotientBound
<1> QED BY <1>2 DEF AllocateReturnAmount

\* roundRatio of the part x/g of an amount i is at most i.
LEMMA RoundRatioBounds ==
  ASSUME NEW x \in Nat, NEW g \in Nat \ {0}, NEW i \in Nat, x <= g
  PROVE  RoundRatio(x * i, g) \in 0 .. i
<1>1. x * i \in Nat /\ x * i <= g * i
  BY MulMono
<1>2. /\ (x * i) \div g \in 0 .. i
      /\ (x * i) \div g = i => (x * i) % g = 0
  BY <1>1, DivFacts, QuotientBound
<1>3. (x * i) % g \in 0 .. g - 1
  BY <1>1, DivFacts
<1> QED BY <1>2, <1>3 DEF RoundRatio
-----------------------------------------------------------------------------
(* More about sums. *)

\* A multiple of a sum is the sum of the multiples.
LEMMA SumTimes ==
  ASSUME NEW S, IsFiniteSet(S), NEW f, NEW g, NEW c \in Int,
         \A x \in S : f[x] \in Int /\ g[x] = c * f[x]
  PROVE  SumFunctionOnSet(g, S) = c * SumFunctionOnSet(f, S)
<1> DEFINE C == {T \in SUBSET S : SumFunctionOnSet(g, T) = c * SumFunctionOnSet(f, T)}
<1>1. {} \in C
  BY SumEmpty
<1>2. ASSUME NEW T \in C, NEW x \in S, x \notin T, T \subseteq S PROVE T \cup {x} \in C
  <2>1. IsFiniteSet(T)
    BY <1>2, FS_Subset
  <2>2. /\ SumFunctionOnSet(f, T \cup {x}) = f[x] + SumFunctionOnSet(f, T)
        /\ SumFunctionOnSet(g, T \cup {x}) = g[x] + SumFunctionOnSet(g, T)
    <3>1. \A y \in T \cup {x} : f[y] \in Int /\ g[y] \in Int
      BY <1>2
    <3> QED BY <1>2, <2>1, <3>1, SumAdd
  <2>3. SumFunctionOnSet(f, T) \in Int
    BY <1>2, <2>1, SumInt
  <2>4. SumFunctionOnSet(g, T) = c * SumFunctionOnSet(f, T) /\ g[x] = c * f[x] /\ f[x] \in Int
    BY <1>2
  <2>5. c * f[x] + c * SumFunctionOnSet(f, T) = c * (f[x] + SumFunctionOnSet(f, T))
    BY <2>3, <2>4
  <2> QED BY <1>2, <2>2, <2>4, <2>5
<1> HIDE DEF C
<1>3. S \in C
  BY <1>1, <1>2, SubsetInduction
<1> QED BY <1>3 DEF C

\* The sum of one number for every element.
LEMMA SumConstant ==
  ASSUME NEW S, IsFiniteSet(S), NEW f, NEW c \in Int, \A x \in S : f[x] = c
  PROVE  SumFunctionOnSet(f, S) = c * Cardinality(S)
<1> DEFINE C == {T \in SUBSET S : SumFunctionOnSet(f, T) = c * Cardinality(T)}
<1>1. {} \in C
  BY SumEmpty, FS_EmptySet
<1>2. ASSUME NEW T \in C, NEW x \in S, x \notin T, T \subseteq S PROVE T \cup {x} \in C
  <2>1. IsFiniteSet(T) /\ Cardinality(T) \in Nat
    BY <1>2, FS_Subset, FS_CardinalityType
  <2>2. SumFunctionOnSet(f, T \cup {x}) = c + SumFunctionOnSet(f, T)
    <3>1. \A y \in T \cup {x} : f[y] \in Int
      BY <1>2
    <3> QED BY <1>2, <2>1, <3>1, SumAdd
  <2>3. Cardinality(T \cup {x}) = Cardinality(T) + 1
    BY <1>2, <2>1, FS_AddElement
  <2>4. SumFunctionOnSet(f, T) = c * Cardinality(T)
    BY <1>2
  <2>5. c + c * Cardinality(T) = c * (Cardinality(T) + 1)
    BY <2>1
  <2> QED BY <1>2, <2>2, <2>3, <2>4, <2>5
<1> HIDE DEF C
<1>3. S \in C
  BY <1>1, <1>2, SubsetInduction
<1> QED BY <1>3 DEF C

\* A sum of less than another in one term and of no more in the others.
LEMMA SumStrict ==
  ASSUME NEW S, IsFiniteSet(S), NEW f, NEW g, NEW z \in S, f[z] < g[z],
         \A x \in S : f[x] \in Int /\ g[x] \in Int /\ f[x] <= g[x]
  PROVE  SumFunctionOnSet(f, S) < SumFunctionOnSet(g, S)
<1>1. IsFiniteSet(S \ {z})
  BY FS_Subset
<1>2. SumFunctionOnSet(f, S \ {z}) <= SumFunctionOnSet(g, S \ {z})
  BY <1>1, SumMono
<1>3. /\ SumFunctionOnSet(f, S) = f[z] + SumFunctionOnSet(f, S \ {z})
      /\ SumFunctionOnSet(g, S) = g[z] + SumFunctionOnSet(g, S \ {z})
  BY SumRemove
<1>4. SumFunctionOnSet(f, S \ {z}) \in Int /\ SumFunctionOnSet(g, S \ {z}) \in Int
  BY <1>1, SumInt
<1> QED BY <1>2, <1>3, <1>4

\* Terms that are zero may be left out.
LEMMA SumNonZero ==
  ASSUME NEW S, IsFiniteSet(S), NEW f, \A x \in S : f[x] \in Int, NEW T \in SUBSET S,
         \A x \in S \ T : f[x] = 0
  PROVE  SumFunctionOnSet(f, S) = SumFunctionOnSet(f, T)
<1> DEFINE R == S \ T
           whole == T \cup R
<1>1. IsFiniteSet(T) /\ IsFiniteSet(R) /\ R \cap T = {} /\ whole = S
  BY FS_Subset
<1>2. \A x \in T \cup R : f[x] \in Int
  OBVIOUS
<1>3. \A x \in R : f[x] = 0
  OBVIOUS
<1> HIDE DEF R
<1>4. SumFunctionOnSet(f, whole) = SumFunctionOnSet(f, T) + SumFunctionOnSet(f, R)
  BY <1>1, <1>2, SumUnion
<1>5. SumFunctionOnSet(f, R) = 0 /\ SumFunctionOnSet(f, T) \in Int
  BY <1>1, <1>2, <1>3, SumZero, SumInt
<1> HIDE DEF whole
<1> QED BY <1>1, <1>4, <1>5

\* A sum reads its terms under whatever names.
LEMMA SumRenamed ==
  ASSUME NEW S, IsFiniteSet(S), NEW f, NEW e, \A x, y \in S : e[x] = e[y] => x = y,
         \A x \in S : f[e[x]] \in Int
  PROVE  /\ IsFiniteSet({e[x] : x \in S})
         /\ SumFunctionOnSet(f, {e[x] : x \in S})
              = SumFunctionOnSet([x \in S |-> f[e[x]]], S)
<1> DEFINE Image(T) == {e[x] : x \in T}
           g == [x \in S |-> f[e[x]]]
           C == {T \in SUBSET S : /\ IsFiniteSet(Image(T))
                                  /\ SumFunctionOnSet(f, Image(T)) = SumFunctionOnSet(g, T)}
<1>0. \A x \in S : g[x] = f[e[x]] /\ g[x] \in Int
  OBVIOUS
<1> HIDE DEF g
<1>1. {} \in C
  <2>1. Image({}) = {}
    OBVIOUS
  <2> QED BY <2>1, SumEmpty, FS_EmptySet
<1>2. ASSUME NEW T \in C, NEW x \in S, x \notin T, T \subseteq S PROVE T \cup {x} \in C
  <2>1. IsFiniteSet(T) /\ IsFiniteSet(Image(T))
    BY <1>2, FS_Subset
  <2>2. Image(T \cup {x}) = Image(T) \cup {e[x]} /\ e[x] \notin Image(T)
    BY <1>2
  <2>3. \A y \in Image(T) \cup {e[x]} : f[y] \in Int
    BY <1>2
  <2>4. SumFunctionOnSet(f, Image(T)) = SumFunctionOnSet(g, T)
    BY <1>2
  <2> HIDE DEF Image
  <2>5. SumFunctionOnSet(f, Image(T) \cup {e[x]}) = f[e[x]] + SumFunctionOnSet(f, Image(T))
    BY <2>1, <2>2, <2>3, SumAdd
  <2>6. SumFunctionOnSet(g, T \cup {x}) = g[x] + SumFunctionOnSet(g, T)
    <3>1. \A y \in T \cup {x} : g[y] \in Int
      BY <1>0, <1>2
    <3> QED BY <1>2, <2>1, <3>1, SumAdd
  <2>7. IsFiniteSet(Image(T) \cup {e[x]})
    BY <2>1, FS_AddElement
  <2> QED BY <1>0, <1>2, <2>2, <2>4, <2>5, <2>6, <2>7
<1> HIDE DEF C
<1>3. S \in C
  BY <1>1, <1>2, SubsetInduction
<1> QED BY <1>3 DEF C, g

\* A sum taken group by group.
LEMMA SumGrouped ==
  ASSUME NEW S, IsFiniteSet(S), NEW K, IsFiniteSet(K), NEW f, NEW h,
         \A x \in S : f[x] \in Int /\ h[x] \in K
  PROVE  SumFunctionOnSet(f, S)
         = SumFunctionOnSet([k \in K |-> SumFunctionOnSet(f, {x \in S : h[x] = k})], K)
<1> DEFINE Of(T) == {x \in S : h[x] \in T}
           Group(k) == {x \in S : h[x] = k}
           g == [k \in K |-> SumFunctionOnSet(f, Group(k))]
           C == {T \in SUBSET K : SumFunctionOnSet(f, Of(T)) = SumFunctionOnSet(g, T)}
<1>0. /\ \A k \in K : g[k] = SumFunctionOnSet(f, Group(k))
      /\ \A k : IsFiniteSet(Group(k)) /\ \A x \in Group(k) : f[x] \in Int
      /\ \A T : IsFiniteSet(Of(T)) /\ \A x \in Of(T) : f[x] \in Int
  <2>1. \A k : Group(k) \subseteq S
    OBVIOUS
  <2>2. \A T : Of(T) \subseteq S
    OBVIOUS
  <2> HIDE DEF Group, Of
  <2> QED BY <2>1, <2>2, FS_Subset
<1>1. {} \in C
  <2>1. Of({}) = {}
    OBVIOUS
  <2> HIDE DEF Of, g
  <2> QED BY <2>1, SumEmpty
<1>2. ASSUME NEW T \in C, NEW k \in K, k \notin T, T \subseteq K PROVE T \cup {k} \in C
  <2>1. IsFiniteSet(T)
    BY <1>2, FS_Subset
  <2>2. Of(T \cup {k}) = Of(T) \cup Group(k) /\ Group(k) \cap Of(T) = {}
    BY <1>2
  <2>3. SumFunctionOnSet(f, Of(T)) = SumFunctionOnSet(g, T)
    BY <1>2
  <2> HIDE DEF Of, g, Group
  <2>4. \A j \in K : g[j] \in Int
    BY <1>0, SumInt
  <2>5. SumFunctionOnSet(f, Of(T) \cup Group(k))
          = SumFunctionOnSet(f, Of(T)) + SumFunctionOnSet(f, Group(k))
    <3>1. \A x \in Of(T) \cup Group(k) : f[x] \in Int
      BY <1>0
    <3> QED BY <1>0, <2>2, <3>1, SumUnion
  <2>6. SumFunctionOnSet(g, T \cup {k}) = g[k] + SumFunctionOnSet(g, T)
    <3>1. \A y \in T \cup {k} : g[y] \in Int
      BY <1>2, <2>4
    <3> QED BY <1>2, <2>1, <3>1, SumAdd
  <2>7. SumFunctionOnSet(g, T) \in Int /\ g[k] \in Int /\ g[k] = SumFunctionOnSet(f, Group(k))
    BY <1>0, <1>2, <2>1, <2>4, SumInt
  <2>8. SumFunctionOnSet(f, Of(T \cup {k})) = SumFunctionOnSet(g, T \cup {k})
    <3> DEFINE a == SumFunctionOnSet(g, T)
    <3>1. /\ SumFunctionOnSet(f, Of(T \cup {k})) = SumFunctionOnSet(f, Of(T) \cup Group(k))
          /\ SumFunctionOnSet(f, Of(T) \cup Group(k)) = a + g[k]
          /\ SumFunctionOnSet(g, T \cup {k}) = g[k] + a /\ a \in Int
      BY <2>2, <2>3, <2>5, <2>6, <2>7, Zenon
    <3> HIDE DEF a
    <3>2. a + g[k] = g[k] + a
      BY <2>7, <3>1
    <3> QED BY <3>1, <3>2, Zenon
  <2> QED BY <1>2, <2>8 DEF Of, g
<1>3. Of(K) = S
  OBVIOUS
<1> HIDE DEF C
<1>4. K \in C
  BY <1>1, <1>2, SubsetInduction
<1> QED BY <1>3, <1>4 DEF C

\* A sum of differences of neighbours is the difference of the ends: if not, take the
\* first place where it is not.
LEMMA SumTelescope ==
  ASSUME NEW n \in Nat, NEW g, \A i \in 0 .. n : g[i] \in Int,
         NEW f, \A i \in 1 .. n : f[i] = g[i] - g[i - 1]
  PROVE  SumFunctionOnSet(f, 1 .. n) = g[n] - g[0]
<1> DEFINE Holds(k) == SumFunctionOnSet(f, 1 .. k) = g[k] - g[0]
           Missed == {k \in 0 .. n : ~Holds(k)}
<1>1. ASSUME Missed # {} PROVE FALSE
  <2>1. PICK k \in Missed : \A j \in Missed : k <= j
    <3>1. Missed \subseteq Nat
      OBVIOUS
    <3> HIDE DEF Missed
    <3> QED BY <1>1, <3>1, LeastNumber
  <2>2. k \in 0 .. n /\ ~Holds(k)
    BY <2>1
  <2>3. Holds(0)
    <3>1. 1 .. 0 = {} /\ g[0] \in Int
      OBVIOUS
    <3> QED BY <3>1, SumEmpty
  <2>4. k # 0
    <3> HIDE DEF Holds
    <3> QED BY <2>2, <2>3
  <2>5. k - 1 \in 0 .. n /\ ~(k <= k - 1) /\ k \in 1 .. n
    BY <2>2, <2>4
  <2>6. Holds(k - 1)
    <3>1. k - 1 \notin Missed
      <4> HIDE DEF Missed
      <4> QED BY <2>1, <2>5
    <3> HIDE DEF Holds
    <3> QED BY <2>5, <3>1
  <2>7. 1 .. k = (1 .. k - 1) \cup {k} /\ k \notin 1 .. k - 1 /\ IsFiniteSet(1 .. k - 1)
    <3>1. IsFiniteSet(1 .. k - 1)
      BY <2>5, FS_Interval
    <3> HIDE DEF Missed
    <3>2. 1 .. k = (1 .. k - 1) \cup {k} /\ k \notin 1 .. k - 1
      BY <2>5
    <3> QED BY <3>1, <3>2
  <2>8. \A i \in 1 .. k : f[i] \in Int
    <3> HIDE DEF Missed
    <3> TAKE i \in 1 .. k
    <3>1. i \in 1 .. n /\ i \in 0 .. n /\ i - 1 \in 0 .. n
      BY <2>5
    <3>2. g[i] \in Int /\ g[i - 1] \in Int /\ f[i] = g[i] - g[i - 1]
      BY <3>1
    <3> QED BY <3>2
  <2>9. SumFunctionOnSet(f, 1 .. k) = f[k] + SumFunctionOnSet(f, 1 .. k - 1)
    BY <2>7, <2>8, SumAdd
  <2>10. g[k] \in Int /\ g[k - 1] \in Int /\ g[0] \in Int /\ f[k] = g[k] - g[k - 1]
    BY <2>5
  <2> QED BY <2>2, <2>6, <2>9, <2>10
<1>2. n \in 0 .. n
  OBVIOUS
<1> QED BY <1>1, <1>2
-----------------------------------------------------------------------------
(* The split of an amount over weights. *)

\* Taking the floor of a share leaves no more than the other weights can bear.
LEMMA FloorShareFacts ==
  ASSUME NEW left \in Nat, NEW w \in Nat, NEW W \in Nat \ {0}, left <= W, w <= W
  PROVE  /\ (left * w) \div W \in 0 .. w
         /\ (left * w) \div W <= left
         /\ left - (left * w) \div W <= W - w
<1> DEFINE q == (left * w) \div W
           r == (left * w) % W
<1>1. left * w \in Nat /\ left * w <= W * w /\ left * w <= W * left
  <2>1. left * w <= W * w
    BY MulMono
  <2>2. w * left <= W * left
    BY MulMono
  <2> QED BY <2>1, <2>2
<1>2. q \in Nat /\ r \in 0 .. W - 1 /\ left * w = W * q + r
  BY <1>1, DivFacts
<1>3. q <= w /\ q <= left
  BY <1>1, QuotientBound
<1>4. left - q <= W - w
  <2> HIDE DEF q, r
  <2> SUFFICES ASSUME W - w + 1 <= left - q PROVE FALSE
    BY <1>2
  <2>1. W - w + 1 \in Nat /\ left - q \in Nat /\ W - w \in Nat
    BY <1>2, <1>3
  <2>2. (W - w + 1) * W <= (left - q) * W
    BY <2>1, MulMono
  <2>3. left * (W - w) <= W * (W - w)
    BY <2>1, MulMono
  <2>4. (left - q) * W = left * (W - w) + r
    BY <1>2, SMT
  <2>5. (W - w + 1) * W = W * (W - w) + W
    BY <1>2, SMT
  <2>6. left * (W - w) \in Nat /\ W * (W - w) \in Nat
    BY <2>1
  <2> QED BY <1>2, <2>2, <2>3, <2>4, <2>5, <2>6
<1> QED BY <1>2, <1>3, <1>4

\* The recursion of allocateProportionally: what is left before a line, and its share.
WeightFrom(weights, n, i) == SumFunctionOnSet(weights, i .. n)
Allot(total, weights, n, left, i) ==
  LET w == weights[i]
      share == IF w = 0 \/ total = 0 THEN 0
               ELSE IF i = n \/ WeightFrom(weights, n, i) = w THEN left
               ELSE (left * w) \div WeightFrom(weights, n, i)
  IN  [remaining |-> left - share, share |-> share]
AreSteps(step, total, weights, n) ==
  step = [i \in 0 .. n |-> IF i = 0 THEN [remaining |-> total, share |-> 0]
                           ELSE Allot(total, weights, n, step[i - 1].remaining, i)]

LEMMA AllocationByParts ==
  ASSUME NEW total, NEW weights
  PROVE  AllocateProportionally(total, weights)
         = [i \in 1 .. Len(weights) |->
              (CHOOSE step : AreSteps(step, total, weights, Len(weights)))[i].share]
  BY DEF AllocateProportionally, AreSteps, Allot, WeightFrom

\* There is such a function: one that is right up to a line gives one that is right up
\* to the next.
LEMMA StepsExist ==
  ASSUME NEW total, NEW weights, NEW n \in Nat
  PROVE  \E step : AreSteps(step, total, weights, n)
<1> DEFINE base == [remaining |-> total, share |-> 0]
           To(m, it) == it = [i \in 0 .. n |-> IF i = 0 \/ i > m THEN base
                                 ELSE Allot(total, weights, n, it[i - 1].remaining, i)]
           T == {m \in Nat : \A it : ~To(m, it)}
<1> HIDE DEF base
<1>1. To(0, [i \in 0 .. n |-> base])
  OBVIOUS
<1>2. ASSUME NEW m \in Nat, NEW g, To(m, g)
      PROVE  \E h : To(m + 1, h)
  <2> DEFINE h == [i \in 0 .. n |-> IF i = 0 \/ i > m + 1 THEN base
                       ELSE Allot(total, weights, n, g[i - 1].remaining, i)]
  <2>1. ASSUME NEW i \in 0 .. n, i <= m PROVE h[i] = g[i]
    <3>1. (i > m + 1) = FALSE /\ (i > m) = FALSE
      BY <2>1
    <3>2. g[i] = IF i = 0 \/ i > m THEN base ELSE Allot(total, weights, n, g[i - 1].remaining, i)
      BY <1>2
    <3> QED BY <3>1, <3>2
  <2>2. ASSUME NEW i \in 0 .. n, i # 0, ~(i > m + 1) PROVE h[i - 1] = g[i - 1]
    <3>1. i - 1 \in 0 .. n /\ i - 1 <= m
      BY <2>2
    <3> HIDE DEF h
    <3> QED BY <2>1, <3>1
  <2>3. h = [i \in 0 .. n |-> IF i = 0 \/ i > m + 1 THEN base
                       ELSE Allot(total, weights, n, h[i - 1].remaining, i)]
    BY <2>2
  <2> HIDE DEF h
  <2> QED BY <2>3
<1>3. T = {}
  <2> SUFFICES ASSUME T # {} PROVE FALSE
    OBVIOUS
  <2>1. PICK m \in T : \A k \in T : m <= k
    <3>1. T \subseteq Nat
      OBVIOUS
    <3> HIDE DEF T
    <3> QED BY <3>1, LeastNumber
  <2>2. m \in Nat /\ \A it : ~To(m, it)
    BY <2>1
  <2>3. m # 0
    <3> HIDE DEF To
    <3> QED BY <1>1, <2>2
  <2>4. m - 1 \in Nat /\ ~(m <= m - 1) /\ (m - 1) + 1 = m
    BY <2>2, <2>3
  <2>5. m - 1 \notin T
    <3> HIDE DEF T
    <3> QED BY <2>1, <2>4
  <2> HIDE DEF To
  <2>6. \E it : To(m - 1, it)
    BY <2>4, <2>5
  <2> QED BY <1>2, <2>2, <2>4, <2>6
<1>4. PICK it : To(n, it)
  <2>1. n \notin T
    BY <1>3
  <2> HIDE DEF To
  <2> QED BY <2>1
<1>5. \A i \in 0 .. n : ~(i > n)
  OBVIOUS
<1>6. AreSteps(it, total, weights, n)
  BY <1>4, <1>5 DEF AreSteps, base
<1> QED BY <1>6

\* allocateProportionally splits all of an amount the weights can bear, and gives no
\* line more than its weight.
THEOREM AllocationFacts ==
  ASSUME NEW total \in Nat, NEW weights, NEW n \in Nat, Len(weights) = n,
         \A k \in 1 .. n : weights[k] \in Nat,
         total <= SumFunctionOnSet(weights, 1 .. n)
  PROVE  /\ AllocateProportionally(total, weights)
              = [k \in 1 .. n |-> AllocateProportionally(total, weights)[k]]
         /\ \A k \in 1 .. n : AllocateProportionally(total, weights)[k] \in 0 .. weights[k]
         /\ SumFunctionOnSet(AllocateProportionally(total, weights), 1 .. n) = total
<1> DEFINE step == CHOOSE it : AreSteps(it, total, weights, n)
           shares == AllocateProportionally(total, weights)
           W(i) == WeightFrom(weights, n, i)
           Good(i) == /\ step[i].remaining \in Nat /\ step[i].remaining <= W(i + 1)
                      /\ total = 0 => step[i].remaining = 0
                      /\ i # 0 => /\ step[i].share \in 0 .. weights[i]
                                  /\ step[i].remaining = step[i - 1].remaining - step[i].share
           Missed == {i \in 0 .. n : ~Good(i)}
<1>1. AreSteps(step, total, weights, n)
  BY StepsExist
<1>2. shares = [k \in 1 .. n |-> step[k].share]
  BY AllocationByParts
<1> HIDE DEF step, shares
<1>3. step[0].remaining = total /\ step[0].share = 0
  BY <1>1 DEF AreSteps
<1>4. \A i \in 1 .. n : step[i] = Allot(total, weights, n, step[i - 1].remaining, i)
  BY <1>1 DEF AreSteps
<1>5. W(n + 1) = 0
  <2>1. (n + 1) .. n = {}
    OBVIOUS
  <2> QED BY <2>1, SumEmpty DEF WeightFrom
<1>6. ASSUME NEW i \in 1 .. n PROVE W(i) = weights[i] + W(i + 1) /\ W(i + 1) \in Nat
  <2>1. IsFiniteSet((i + 1) .. n)
    BY FS_Interval
  <2>2. i \notin (i + 1) .. n /\ i .. n = ((i + 1) .. n) \cup {i}
    OBVIOUS
  <2>3. \A k \in i .. n : weights[k] \in Nat
    OBVIOUS
  <2> DEFINE later == (i + 1) .. n
             all == i .. n
  <2>4. all = later \cup {i} /\ i \notin later /\ IsFiniteSet(later)
    BY <2>1, <2>2
  <2>5. \A k \in later \cup {i} : weights[k] \in Nat /\ weights[k] \in Int
    BY <2>3, <2>4
  <2> HIDE DEF later, all
  <2>6. SumFunctionOnSet(weights, later \cup {i}) = weights[i] + SumFunctionOnSet(weights, later)
    BY <2>4, <2>5, SumAdd
  <2>7. SumFunctionOnSet(weights, later) \in Nat
    BY <2>4, <2>5, SumNat
  <2> QED BY <2>4, <2>6, <2>7 DEF WeightFrom, later, all
<1>7. Good(0)
  BY <1>3 DEF WeightFrom
<1>8. ASSUME NEW i \in 1 .. n, Good(i - 1) PROVE Good(i)
  <2> DEFINE left == step[i - 1].remaining
  <2>1. left \in Nat /\ left <= W(i) /\ (total = 0 => left = 0)
    BY <1>8
  <2>2. step[i] = Allot(total, weights, n, left, i)
    BY <1>4
  <2>3. weights[i] \in Nat /\ W(i + 1) \in Nat /\ (i = n => W(i + 1) = 0) /\ W(i) = weights[i] + W(i + 1)
    BY <1>5, <1>6
  <2> DEFINE w == weights[i]
             all == WeightFrom(weights, n, i)
             Fits == /\ step[i].share \in 0 .. w /\ step[i].remaining \in Nat
                     /\ step[i].remaining <= all - w
                     /\ total = 0 => step[i].remaining = 0
  <2>4. /\ w \in Nat /\ all \in Nat /\ w <= all /\ left \in Nat /\ left <= all
        /\ i = n => all = w
        /\ total = 0 => left = 0
        /\ all - w = W(i + 1)
    BY <2>1, <2>3
  <2>5. step[i].remaining = left - step[i].share
    BY <2>2 DEF Allot
  <2>6. ASSUME w = 0 \/ total = 0 PROVE Fits
    <3>1. step[i].share = 0
      BY <2>2, <2>6 DEF Allot
    <3> HIDE DEF w, all, left
    <3> QED BY <2>4, <2>5, <2>6, <3>1
  <2>7. ASSUME ~(w = 0 \/ total = 0) /\ (i = n \/ all = w) PROVE Fits
    <3>1. step[i].share = left
      BY <2>2, <2>7 DEF Allot
    <3> HIDE DEF w, all, left
    <3> QED BY <2>4, <2>5, <2>7, <3>1
  <2>8. ASSUME ~(w = 0 \/ total = 0) /\ ~(i = n \/ all = w) PROVE Fits
    <3>1. step[i].share = (left * w) \div all
      BY <2>2, <2>8 DEF Allot
    <3> HIDE DEF w, all, left
    <3>2. all \in Nat \ {0}
      BY <2>4, <2>8
    <3>3. /\ (left * w) \div all \in 0 .. w
          /\ (left * w) \div all <= left
          /\ left - (left * w) \div all <= all - w
      BY <2>4, <3>2, FloorShareFacts
    <3> QED BY <2>4, <2>5, <2>8, <3>1, <3>3
  <2>9. Fits
    BY <2>6, <2>7, <2>8
  <2> HIDE DEF left, all
  <2> QED BY <2>4, <2>5, <2>9 DEF left
<1>9. ASSUME Missed # {} PROVE FALSE
  <2>1. PICK i \in Missed : \A j \in Missed : i <= j
    <3>1. Missed \subseteq Nat
      OBVIOUS
    <3> HIDE DEF Missed
    <3> QED BY <1>9, <3>1, LeastNumber
  <2>2. i \in 0 .. n /\ ~Good(i)
    BY <2>1
  <2>3. i # 0
    <3> HIDE DEF Good
    <3> QED BY <1>7, <2>2
  <2>4. i - 1 \in 0 .. n /\ ~(i <= i - 1) /\ i \in 1 .. n
    BY <2>2, <2>3
  <2>5. Good(i - 1)
    <3>1. i - 1 \notin Missed
      <4> HIDE DEF Missed
      <4> QED BY <2>1, <2>4
    <3> HIDE DEF Good
    <3> QED BY <2>4, <3>1
  <2> HIDE DEF Good
  <2> QED BY <1>8, <2>2, <2>4, <2>5
<1>10. \A i \in 0 .. n : Good(i)
  <2> HIDE DEF Good
  <2> QED BY <1>9
<1>11. SumFunctionOnSet(shares, 1 .. n) = total
  <2> DEFINE g == [i \in 0 .. n |-> 0 - step[i].remaining]
  <2>1. \A i \in 0 .. n : g[i] \in Int
    BY <1>10
  <2>2. ASSUME NEW i \in 1 .. n PROVE shares[i] = g[i] - g[i - 1]
    <3>1. i \in 0 .. n /\ i - 1 \in 0 .. n /\ i # 0
      OBVIOUS
    <3>2. /\ step[i].remaining \in Nat /\ step[i - 1].remaining \in Nat
          /\ step[i].remaining = step[i - 1].remaining - step[i].share
          /\ step[i].share \in 0 .. weights[i] /\ weights[i] \in Nat
      BY <1>10, <3>1
    <3>3. shares[i] = step[i].share
      BY <1>2
    <3>4. g[i] = 0 - step[i].remaining /\ g[i - 1] = 0 - step[i - 1].remaining
      BY <3>1
    <3>5. step[i].share \in Int
      BY <3>2
    <3> HIDE DEF g
    <3> QED BY <3>2, <3>3, <3>4, <3>5
  <2>3. g[n] = 0 /\ g[0] = 0 - total
    <3>1. n \in 0 .. n /\ 0 \in 0 .. n
      OBVIOUS
    <3>2. step[n].remaining \in Nat /\ step[n].remaining <= W(n + 1)
      BY <1>10, <3>1
    <3>3. step[n].remaining = 0
      BY <1>5, <3>2
    <3> QED BY <1>3, <3>1, <3>3
  <2> HIDE DEF g
  <2>4. SumFunctionOnSet(shares, 1 .. n) = g[n] - g[0]
    BY <2>1, <2>2, SumTelescope
  <2> QED BY <2>3, <2>4
<1>12. \A k \in 1 .. n : shares[k] \in 0 .. weights[k]
  BY <1>2, <1>10
<1>13. shares = [k \in 1 .. n |-> shares[k]]
  BY <1>2
<1> QED BY <1>11, <1>12, <1>13 DEF shares
\* The sum of pairwise differences.
LEMMA SumMinus ==
  ASSUME NEW S, IsFiniteSet(S), NEW f, NEW g, NEW h,
         \A x \in S : f[x] \in Int /\ g[x] \in Int /\ h[x] = f[x] - g[x]
  PROVE  SumFunctionOnSet(h, S) = SumFunctionOnSet(f, S) - SumFunctionOnSet(g, S)
<1>1. \A x \in S : h[x] \in Int /\ g[x] \in Int /\ f[x] = h[x] + g[x]
  OBVIOUS
<1>2. SumFunctionOnSet(f, S) = SumFunctionOnSet(h, S) + SumFunctionOnSet(g, S)
  BY <1>1, SumPlus
<1>3. SumFunctionOnSet(h, S) \in Int /\ SumFunctionOnSet(g, S) \in Int
  BY <1>1, SumInt
<1> QED BY <1>2, <1>3

\* A list has as many lines as its domain says.
LEMMA LenOfLines ==
  ASSUME NEW n \in Nat, NEW s, DOMAIN s = 1 .. n, s = [k \in 1 .. n |-> s[k]]
  PROVE  Len(s) = n
<1>1. s \in Seq({s[k] : k \in 1 .. n})
  OBVIOUS
<1> QED BY <1>1

\* roundRatio is right to half a unit.
LEMMA RoundRatioClose ==
  ASSUME NEW n \in Nat, NEW d \in Nat \ {0}
  PROVE  /\ RoundRatio(n, d) \in Nat
         /\ 2 * (RoundRatio(n, d) * d - n) \in -d .. d
<1> DEFINE q == n \div d
           r == n % d
<1>1. q \in Nat /\ r \in 0 .. d - 1 /\ n = d * q + r
  BY DivFacts
<1>2. RoundRatio(n, d) = IF r * 2 >= d THEN q + 1 ELSE q
  BY DEF RoundRatio
<1> HIDE DEF q, r
<1>3. CASE r * 2 >= d
  <2>1. RoundRatio(n, d) = q + 1
    BY <1>2, <1>3
  <2>2. (q + 1) * d - n = d - r
    BY <1>1
  <2> QED BY <1>1, <1>3, <2>1, <2>2
<1>4. CASE ~(r * 2 >= d)
  <2>1. RoundRatio(n, d) = q
    BY <1>2, <1>4
  <2>2. q * d - n = 0 - r
    BY <1>1
  <2> QED BY <1>1, <1>4, <2>1, <2>2
<1> QED BY <1>3, <1>4
\* A sum of one term.
LEMMA SumOne == ASSUME NEW f, NEW z, f[z] \in Int
  PROVE  SumFunctionOnSet(f, {z}) = f[z]
<1>1. SumFunctionOnSet(f, {} \cup {z}) = f[z] + SumFunctionOnSet(f, {})
  <2>1. \A x \in {} \cup {z} : f[x] \in Int
    OBVIOUS
  <2> QED BY <2>1, FS_EmptySet, SumAdd
<1>2. {} \cup {z} = {z}
  OBVIOUS
<1> QED BY <1>1, <1>2, SumEmpty

\* Three floors of shares: their difference is not negative if the difference of the
\* amounts is not, and exceeds its share by less than two.
LEMMA FloorNetFacts ==
  ASSUME NEW a \in Nat, NEW b \in Nat, NEW c \in Nat, b + c <= a,
         NEW q \in Nat, NEW Q \in Nat \ {0}
  PROVE  LET net == (a * q) \div Q - (b * q) \div Q - (c * q) \div Q
         IN  /\ net \in Nat
             /\ Q * net <= (a - b - c) * q + 2 * Q
<1> DEFINE x == (a * q) \div Q
           y == (b * q) \div Q
           z == (c * q) \div Q
           r == (a * q) % Q
           s == (b * q) % Q
           t == (c * q) % Q
           net == x - y - z
<1>1. a * q \in Nat /\ b * q \in Nat /\ c * q \in Nat
  OBVIOUS
<1>2. /\ x \in Nat /\ r \in 0 .. Q - 1 /\ a * q = Q * x + r
      /\ y \in Nat /\ s \in 0 .. Q - 1 /\ b * q = Q * y + s
      /\ z \in Nat /\ t \in 0 .. Q - 1 /\ c * q = Q * z + t
  BY <1>1, DivFacts
<1> HIDE DEF x, y, z, r, s, t
<1>3. net \in Int
  BY <1>2
<1>4. Q * net = Q * x - Q * y - Q * z
  BY <1>2
<1>5. (a - b - c) * q = a * q - b * q - c * q
  OBVIOUS
<1>6. (a - b - c) * q \in Nat
  OBVIOUS
<1> HIDE DEF net
<1>7. Q * net = (a - b - c) * q - r + s + t
  <2>1. Q * x \in Int /\ Q * y \in Int /\ Q * z \in Int
    BY <1>2
  <2> QED BY <1>1, <1>2, <1>4, <1>5, <2>1
<1>8. Q * net <= (a - b - c) * q + 2 * Q
  BY <1>2, <1>6, <1>7
<1>9. net \in Nat
  <2> SUFFICES ASSUME net <= -1 PROVE FALSE
    BY <1>3
  <2>1. Q * net <= -Q
    BY <1>3
  <2> QED BY <1>2, <1>6, <1>7, <2>1
<1> QED BY <1>8, <1>9 DEF net, x, y, z
=============================================================================
