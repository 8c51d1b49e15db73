------------------------------- MODULE SetSums -------------------------------
(***************************************************************************)
(* Facts about SumFunctionOnSet, the sum of natural weights over a finite  *)
(* set, for the proofs about amounts of money.                             *)
(*                                                                         *)
(* The sum is a recursive function over subsets.  It is compared with a    *)
(* count that is not recursive: give each element as many units as it      *)
(* weighs, and count the units.  The facts about sums then follow from     *)
(* those about cardinalities, and induction is needed once, as a set of    *)
(* subsets that has a smallest member.                                     *)
(***************************************************************************)
EXTENDS Integers, FiniteSetTheorems, TLAPS

UnitsOf(w, x) == {x} \X (1..w[x])
Units(w, S) == UNION {UnitsOf(w, x) : x \in S}

----------------------------------------------------------------------------
(* Counting units *)

\* An element has as many units as it weighs.
LEMMA UnitsOfOne ==
  ASSUME NEW w, NEW x, w[x] \in Nat
  PROVE  IsFiniteSet(UnitsOf(w, x)) /\ Cardinality(UnitsOf(w, x)) = w[x]
<1>1. IsFiniteSet({x}) /\ Cardinality({x}) = 1
  BY FS_Singleton
<1>2. IsFiniteSet(1..w[x]) /\ Cardinality(1..w[x]) = w[x]
  BY FS_Interval
<1>3. /\ IsFiniteSet({x} \X (1..w[x]))
      /\ Cardinality({x} \X (1..w[x])) = 1 * w[x]
  BY <1>1, <1>2, FS_Product
<1> QED
  BY <1>3 DEF UnitsOf

LEMMA UnitsMembers ==
  ASSUME NEW w, NEW S
  PROVE  \A u : u \in Units(w, S) <=> \E x \in S : \E k \in 1..w[x] : u = <<x, k>>
BY DEF Units, UnitsOf

\* Finitely many weights make finitely many units.
LEMMA UnitsFinite ==
  ASSUME NEW w, NEW S, IsFiniteSet(S), \A x \in S : w[x] \in Nat
  PROVE  IsFiniteSet(Units(w, S))
<1> DEFINE T == {UnitsOf(w, x) : x \in S}
           f == [x \in S |-> UnitsOf(w, x)]
<1>1. f \in Surjection(S, T)
  BY DEF Surjection
<1>2. IsFiniteSet(T)
  BY <1>1, FS_Surjection
<1>3. \A U \in T : IsFiniteSet(U)
  BY UnitsOfOne
<1> HIDE DEF T
<1>4. IsFiniteSet(UNION T)
  BY <1>2, <1>3, FS_UNION
<1> QED
  BY <1>4 DEF Units, T

\* One more element brings its own units.
LEMMA UnitsAdd ==
  ASSUME NEW w, NEW S, IsFiniteSet(S), \A y \in S : w[y] \in Nat,
         NEW x, x \notin S, w[x] \in Nat
  PROVE  Cardinality(Units(w, S \cup {x})) = w[x] + Cardinality(Units(w, S))
<1>1. Units(w, S \cup {x}) = Units(w, S) \cup UnitsOf(w, x)
  BY DEF Units
<1>2. Units(w, S) \cap UnitsOf(w, x) = {}
  BY UnitsMembers DEF UnitsOf
<1>3. IsFiniteSet(Units(w, S)) /\ IsFiniteSet(UnitsOf(w, x))
  BY UnitsFinite, UnitsOfOne
<1>4. /\ Cardinality(Units(w, S)) \in Nat
      /\ Cardinality(UnitsOf(w, x)) = w[x] /\ Cardinality({}) = 0
  BY <1>3, FS_CardinalityType, FS_EmptySet, UnitsOfOne
<1>5. Cardinality(Units(w, S) \cup UnitsOf(w, x))
        = Cardinality(Units(w, S)) + Cardinality(UnitsOf(w, x)) - Cardinality({})
  BY <1>2, <1>3, FS_Union
<1>6. Cardinality(Units(w, S \cup {x})) = Cardinality(Units(w, S) \cup UnitsOf(w, x))
  BY <1>1, Zenon
<1> HIDE DEF UnitsOf, Units
<1> QED
  BY <1>4, <1>5, <1>6

----------------------------------------------------------------------------
(* The recursive sum is that count *)

Pick(s) == CHOOSE x \in s : TRUE

\* What the definition of the sum says of a function g over the subsets of S.
Sums(g, w, S) ==
  g = [s \in SUBSET S |-> IF s = {} THEN 0 ELSE w[Pick(s)] + g[s \ {Pick(s)}]]

LEMMA CountsAreSums ==
  ASSUME NEW w, NEW S, IsFiniteSet(S), \A x \in S : w[x] \in Nat
  PROVE  Sums([s \in SUBSET S |-> Cardinality(Units(w, s))], w, S)
<1> DEFINE g == [s \in SUBSET S |-> Cardinality(Units(w, s))]
<1>1. ASSUME NEW s \in SUBSET S, s = {} PROVE g[s] = 0
  <2>1. Units(w, {}) = {}
    BY DEF Units
  <2> QED
    BY <1>1, <2>1, FS_EmptySet
<1>2. ASSUME NEW s \in SUBSET S, s # {} PROVE g[s] = w[Pick(s)] + g[s \ {Pick(s)}]
  <2>1. Pick(s) \in s
    BY <1>2 DEF Pick
  <2>2. IsFiniteSet(s \ {Pick(s)})
    BY FS_Subset
  <2>3. (s \ {Pick(s)}) \cup {Pick(s)} = s
    BY <2>1
  <2>4. Cardinality(Units(w, s)) = w[Pick(s)] + Cardinality(Units(w, s \ {Pick(s)}))
    <3> DEFINE r == s \ {Pick(s)}
    <3>1. IsFiniteSet(r) /\ (\A y \in r : w[y] \in Nat) /\ Pick(s) \notin r /\ w[Pick(s)] \in Nat
      BY <2>1, <2>2
    <3> HIDE DEF r
    <3>2. Cardinality(Units(w, r \cup {Pick(s)})) = w[Pick(s)] + Cardinality(Units(w, r))
      BY <3>1, UnitsAdd
    <3> QED
      BY <2>3, <3>2 DEF r
  <2> QED
    BY <2>4
<1>3. g = [s \in SUBSET S |-> IF s = {} THEN 0 ELSE w[Pick(s)] + g[s \ {Pick(s)}]]
  <2> DEFINE h == [s \in SUBSET S |-> IF s = {} THEN 0 ELSE w[Pick(s)] + g[s \ {Pick(s)}]]
  <2>1. \A s \in SUBSET S : g[s] = h[s]
    BY <1>1, <1>2
  <2>2. DOMAIN g = SUBSET S /\ DOMAIN h = SUBSET S
    OBVIOUS
  <2> QED
    BY <2>1, <2>2
<1> QED
  BY <1>3 DEF Sums

\* Any two functions of which the definition speaks agree: a smallest set on
\* which they differ would have an element to take away.
LEMMA SumsAreUnique ==
  ASSUME NEW w, NEW S, IsFiniteSet(S), NEW g, NEW h, Sums(g, w, S), Sums(h, w, S)
  PROVE  g[S] = h[S]
<1> SUFFICES ASSUME g[S] # h[S] PROVE FALSE
  OBVIOUS
<1> DEFINE D == {s \in SUBSET S : g[s] # h[s]}
<1>1. D \subseteq FiniteSubsetsOf(S) /\ D # {}
  BY FS_FiniteSubsetsOfFinite
<1>2. IsWellFoundedOn(StrictSubsetOrdering(S), FiniteSubsetsOf(S))
  BY FS_StrictSubsetOrderingWellFounded
<1> HIDE DEF D
<1>3. PICK s \in D : \A t \in D : <<t, s>> \notin StrictSubsetOrdering(S)
  BY <1>1, <1>2, WFMin
<1> USE DEF D
<1>4. /\ g[s] = IF s = {} THEN 0 ELSE w[Pick(s)] + g[s \ {Pick(s)}]
      /\ h[s] = IF s = {} THEN 0 ELSE w[Pick(s)] + h[s \ {Pick(s)}]
  BY DEF Sums
<1>5. s # {} /\ g[s \ {Pick(s)}] # h[s \ {Pick(s)}]
  BY <1>4
<1>6. Pick(s) \in s
  BY <1>5 DEF Pick
<1>7. <<s \ {Pick(s)}, s>> \in StrictSubsetOrdering(S)
  BY <1>6 DEF StrictSubsetOrdering
<1> QED
  BY <1>3, <1>5, <1>7

\* The sum over a finite set is the number of its units.
LEMMA SumIsCount ==
  ASSUME NEW w, NEW S, IsFiniteSet(S), \A x \in S : w[x] \in Nat
  PROVE  SumFunctionOnSet(w, S) = Cardinality(Units(w, S))
<1> DEFINE f == [s \in SUBSET S |-> Cardinality(Units(w, s))]
           g == CHOOSE g : Sums(g, w, S)
<1>1. Sums(f, w, S)
  BY CountsAreSums
<1>2. Sums(g, w, S)
  BY <1>1
<1>3. SumFunctionOnSet(w, S) = g[S]
  BY DEF SumFunctionOnSet, FoldFunctionOnSet, MapThenFoldSet, Sums, Pick
<1> HIDE DEF g
<1>4. f[S] = g[S]
  BY <1>1, <1>2, SumsAreUnique
<1> QED
  BY <1>3, <1>4

----------------------------------------------------------------------------
(* The facts to cite *)

LEMMA SumType ==
  ASSUME NEW w, NEW S, IsFiniteSet(S), \A x \in S : w[x] \in Nat
  PROVE  SumFunctionOnSet(w, S) \in Nat
BY SumIsCount, UnitsFinite, FS_CardinalityType

\* More elements and heavier ones weigh no less.
LEMMA SumMonotone ==
  ASSUME NEW v, NEW w, NEW T, IsFiniteSet(T), NEW S \in SUBSET T,
         \A x \in T : w[x] \in Nat, \A x \in S : v[x] \in Nat /\ v[x] <= w[x]
  PROVE  SumFunctionOnSet(v, S) <= SumFunctionOnSet(w, T)
<1>1. IsFiniteSet(S)
  BY FS_Subset
<1>2. Units(v, S) \subseteq Units(w, T)
  BY UnitsMembers
<1>3. IsFiniteSet(Units(w, T))
  BY UnitsFinite
<1>4. Cardinality(Units(v, S)) <= Cardinality(Units(w, T))
  BY <1>2, <1>3, FS_Subset
<1> QED
  BY <1>1, <1>4, SumIsCount

\* One more element adds its weight.
LEMMA SumAdd ==
  ASSUME NEW w, NEW S, IsFiniteSet(S), \A y \in S : w[y] \in Nat,
         NEW x, x \notin S, w[x] \in Nat
  PROVE  SumFunctionOnSet(w, S \cup {x}) = w[x] + SumFunctionOnSet(w, S)
<1>1. IsFiniteSet(S \cup {x}) /\ \A y \in S \cup {x} : w[y] \in Nat
  BY FS_AddElement
<1>2. SumFunctionOnSet(w, S \cup {x}) = Cardinality(Units(w, S \cup {x}))
  BY <1>1, SumIsCount
<1> QED
  BY <1>2, SumIsCount, UnitsAdd
=============================================================================
