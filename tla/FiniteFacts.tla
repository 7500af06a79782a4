------------------------------ MODULE FiniteFacts ------------------------------
(***************************************************************************)
(* Facts about natural numbers and finite sets that several proofs need:   *)
(* induction in the form of a least counterexample, and sums over a finite *)
(* set as a number of elements.                                            *)
(***************************************************************************)
EXTENDS Integers, FiniteSetTheorems, FunctionTheorems, WellFoundedInduction, TLAPS

-----------------------------------------------------------------------------
(***************************************************************************)
(* Least counterexamples.                                                  *)
(***************************************************************************)

\* Strict inclusion is well-founded on finite sets: of some finite sets, one
\* includes no other.
LEMMA MinimalSubset ==
  ASSUME NEW D, IsFiniteSet(D), NEW T \in SUBSET (SUBSET D), T # {}
  PROVE  \E s \in T : \A t \in T : t \subseteq s => t = s
<1>1. T \subseteq FiniteSubsetsOf(D)
  BY FS_FiniteSubsetsOfFinite
<1>2. \E s \in T : \A t \in T : ~(<<t, s>> \in StrictSubsetOrdering(D))
  BY <1>1, FS_StrictSubsetOrderingWellFounded, WFMin
<1> QED BY <1>2 DEF StrictSubsetOrdering

\* A set of natural numbers has a least member: intervals are finite, and strict
\* inclusion is well-founded on finite sets.
LEMMA LeastNat ==
  ASSUME NEW S \in SUBSET Nat, S # {}
  PROVE  \E x \in S : \A y \in S : x <= y
<1> DEFINE Below(x) == 0 .. x
           T == {Below(x) : x \in S}
<1>1. \A x \in S : Below(x) \in FiniteSubsetsOf(Nat)
  <2>1. \A x \in S : IsFiniteSet(0 .. x)
    BY FS_Interval
  <2> QED BY <2>1 DEF FiniteSubsetsOf
<1>2. T \subseteq FiniteSubsetsOf(Nat) /\ T # {}
  BY <1>1
<1> HIDE DEF T
<1>3. \E U \in T : \A V \in T : ~(<<V, U>> \in StrictSubsetOrdering(Nat))
  BY <1>2, FS_StrictSubsetOrderingWellFounded, WFMin
<1>4. PICK x \in S : \A y \in S : ~(<<Below(y), Below(x)>> \in StrictSubsetOrdering(Nat))
  BY <1>3 DEF T
<1>5. \A y \in S : x <= y
  <2> SUFFICES ASSUME NEW y \in S, y < x PROVE FALSE
    OBVIOUS
  <2>1. Below(y) \subseteq Below(x) /\ Below(y) # Below(x)
    <3>1. x \in Below(x) /\ x \notin Below(y)
      OBVIOUS
    <3> QED BY <3>1
  <2>2. Below(y) \in SUBSET Nat /\ Below(x) \in SUBSET Nat
    OBVIOUS
  <2> HIDE DEF Below
  <2>3. <<Below(y), Below(x)>> \in StrictSubsetOrdering(Nat)
    BY <2>1, <2>2 DEF StrictSubsetOrdering
  <2> QED BY <1>4, <2>3
<1> QED BY <1>5

\* A set of natural numbers that is bounded has a greatest member.
LEMMA GreatestNat ==
  ASSUME NEW S \in SUBSET Nat, S # {}, NEW n \in Nat, \A y \in S : y <= n
  PROVE  \E x \in S : \A y \in S : y <= x
<1> DEFINE T == {n - y : y \in S}
<1>1. T \in SUBSET Nat /\ T # {}
  <2>1. \A y \in S : y \in Nat /\ n - y \in Nat
    OBVIOUS
  <2> QED BY <2>1
<1> HIDE DEF T
<1>2. PICK z \in T : \A t \in T : z <= t
  BY <1>1, LeastNat
<1>3. PICK x \in S : z = n - x
  BY DEF T
<1>4. \A y \in S : n - x <= n - y
  BY <1>2, <1>3 DEF T
<1>5. \A y \in S : y <= x
  <2> TAKE y \in S
  <2>1. n \in Nat /\ y \in Nat /\ x \in Nat
    OBVIOUS
  <2> QED BY <1>4, <2>1
<1> QED BY <1>5

-----------------------------------------------------------------------------
(***************************************************************************)
(* Sums.  A fold that adds up w over a finite set D takes the members of D *)
(* away one by one; whatever their order, it counts the pairs below.       *)
(***************************************************************************)

Piles(w, s) == UNION {{x} \X (1 .. w[x]) : x \in s}
SumOf(w, s) == Cardinality(Piles(w, s))

Picked(s) == CHOOSE x \in s : TRUE

\* The fold's own recursion.
Adds(f, w, D) ==
  f = [s \in SUBSET D |-> IF s = {} THEN 0 ELSE f[s \ {Picked(s)}] + w[Picked(s)]]

LEMMA PileIsFinite ==
  ASSUME NEW x, NEW n \in Nat
  PROVE  IsFiniteSet({x} \X (1 .. n)) /\ Cardinality({x} \X (1 .. n)) = n
<1>1. IsFiniteSet({x}) /\ Cardinality({x}) = 1
  BY FS_Singleton
<1>2. IsFiniteSet(1 .. n) /\ Cardinality(1 .. n) = n
  BY FS_Interval
<1>3. IsFiniteSet({x} \X (1 .. n)) /\ Cardinality({x} \X (1 .. n)) = 1 * n
  BY <1>1, <1>2, FS_Product
<1> QED BY <1>3

LEMMA PilesAreFinite ==
  ASSUME NEW D, IsFiniteSet(D), NEW w \in [D -> Nat], NEW s \in SUBSET D
  PROVE  IsFiniteSet(Piles(w, s)) /\ SumOf(w, s) \in Nat
<1> DEFINE T == {{x} \X (1 .. w[x]) : x \in s}
           f == [x \in s |-> {x} \X (1 .. w[x])]
<1>1. IsFiniteSet(s)
  BY FS_Subset
<1>2. f \in Surjection(s, T)
  BY DEF Surjection
<1>3. \A y \in T : IsFiniteSet(y)
  <2> SUFFICES ASSUME NEW x \in s PROVE IsFiniteSet({x} \X (1 .. w[x]))
    OBVIOUS
  <2>1. w[x] \in Nat
    OBVIOUS
  <2> QED BY <2>1, PileIsFinite
<1> HIDE DEF T, f
<1>4. IsFiniteSet(T)
  BY <1>1, <1>2, FS_Surjection
<1>5. IsFiniteSet(Piles(w, s))
  BY <1>3, <1>4, FS_UNION DEF Piles, T
<1> QED BY <1>5, FS_CardinalityType DEF SumOf

\* A sum with one more summand.
LEMMA SumWithout ==
  ASSUME NEW D, IsFiniteSet(D), NEW w \in [D -> Nat], NEW s \in SUBSET D, NEW x \in s
  PROVE  SumOf(w, s) = SumOf(w, s \ {x}) + w[x]
<1> DEFINE rest == Piles(w, s \ {x})
           pile == {x} \X (1 .. w[x])
<1>1. Piles(w, s) = rest \cup pile
  BY DEF Piles
<1>2. rest \cap pile = {}
  BY DEF Piles
<1>3. IsFiniteSet(rest) /\ Cardinality(rest) \in Nat
  BY PilesAreFinite DEF SumOf
<1>4. IsFiniteSet(pile) /\ Cardinality(pile) = w[x] /\ w[x] \in Nat
  BY PileIsFinite
<1>5. Cardinality(rest \cap pile) = 0
  BY <1>2, FS_EmptySet
<1> HIDE DEF rest, pile
<1>6. Cardinality(rest \cup pile) = Cardinality(rest) + Cardinality(pile) - 0
  BY <1>3, <1>4, <1>5, FS_Union
<1>7. Cardinality(rest \cup pile) = Cardinality(rest) + w[x]
  BY <1>3, <1>4, <1>6
<1> QED BY <1>1, <1>7 DEF SumOf, rest

LEMMA SumOfNothing == ASSUME NEW w PROVE SumOf(w, {}) = 0
<1>1. Piles(w, {}) = {}
  BY DEF Piles
<1> QED BY <1>1, FS_EmptySet DEF SumOf

\* The fold is a function that exists.
LEMMA FoldExists ==
  ASSUME NEW D, IsFiniteSet(D), NEW w \in [D -> Nat]
  PROVE  \E f : Adds(f, w, D)
<1> DEFINE f == [s \in SUBSET D |-> SumOf(w, s)]
<1>1. ASSUME NEW s \in SUBSET D, s # {}
      PROVE  f[s] = f[s \ {Picked(s)}] + w[Picked(s)]
  <2>1. Picked(s) \in s /\ s \ {Picked(s)} \in SUBSET D
    BY <1>1 DEF Picked
  <2> QED BY <2>1, SumWithout
<1>2. f[{}] = 0
  BY SumOfNothing
<1>3. \A s \in SUBSET D :
        f[s] = IF s = {} THEN 0 ELSE f[s \ {Picked(s)}] + w[Picked(s)]
  BY <1>1, <1>2
<1>4. f = [s \in SUBSET D |-> f[s]]
  OBVIOUS
<1> HIDE DEF f
<1> QED BY <1>3, <1>4 DEF Adds

\* And it counts: a smallest set on which it did not would have a smaller one.
LEMMA FoldCounts ==
  ASSUME NEW D, IsFiniteSet(D), NEW w \in [D -> Nat], NEW f, Adds(f, w, D)
  PROVE  f[D] = SumOf(w, D)
<1> DEFINE Bad == {s \in SUBSET D : f[s] # SumOf(w, s)}
<1>1. \A s \in SUBSET D :
        f[s] = IF s = {} THEN 0 ELSE f[s \ {Picked(s)}] + w[Picked(s)]
  BY DEF Adds
<1>2. Bad = {}
  <2> SUFFICES ASSUME Bad # {} PROVE FALSE
    OBVIOUS
  <2>1. PICK s \in Bad : \A t \in Bad : t \subseteq s => t = s
    <3>1. Bad \in SUBSET (SUBSET D)
      OBVIOUS
    <3> HIDE DEF Bad
    <3> QED BY <3>1, MinimalSubset
  <2>2. s # {}
    BY <1>1, SumOfNothing
  <2>3. Picked(s) \in s
    BY <2>2 DEF Picked
  <2>4. s \ {Picked(s)} \notin Bad
    BY <2>1, <2>3
  <2>5. f[s \ {Picked(s)}] = SumOf(w, s \ {Picked(s)})
    BY <2>4
  <2>6. f[s] = SumOf(w, s \ {Picked(s)}) + w[Picked(s)]
    BY <1>1, <2>2, <2>5
  <2> QED BY <2>3, <2>6, SumWithout
<1> QED BY <1>2
=============================================================================
