----------------------------- MODULE SumTheorems -----------------------------
(* Sums over finite sets: SumFunctionOnSet(f, S) adds f[x] for every x in S,   *)
(* whichever element its definition takes out first.                           *)
(*                                                                             *)
(* The induction is the library's minimal element of a well-founded relation,  *)
(* which speaks of a set of counterexamples and not of a predicate.            *)
EXTENDS Functions, FiniteSetTheorems, TLAPS

-----------------------------------------------------------------------------
(* Induction for sets. *)

LEMMA NaturalsInductive ==
    ASSUME NEW T \in SUBSET Nat, 0 \in T, \A n \in T : n + 1 \in T
    PROVE  T = Nat
<1> DEFINE Less == OpToRel(<, Nat)
<1>1. \A m, n \in Nat : m < n => <<m, n>> \in Less
  BY DEF OpToRel
<1>2. IsWellFoundedOn(Less, Nat)
  BY NatLessThanWellFounded
<1> HIDE DEF Less
<1>3. SUFFICES ASSUME Nat \ T # {} PROVE FALSE
  OBVIOUS
<1>4. PICK n \in Nat \ T : \A m \in Nat \ T : ~ (<<m, n>> \in Less)
  BY <1>2, <1>3, WFMin
<1>5. n - 1 \in Nat /\ n - 1 < n /\ (n - 1) + 1 = n
  BY <1>4
<1>6. n - 1 \in T
  BY <1>1, <1>4, <1>5
<1> QED BY <1>4, <1>5, <1>6

\* A set of subsets that holds every set whose strict subsets it holds.
LEMMA SubsetsInductive ==
    ASSUME NEW S, IsFiniteSet(S), NEW P \in SUBSET (SUBSET S),
           \A T \in SUBSET S : (\A U \in SUBSET T : U # T => U \in P) => T \in P
    PROVE  P = SUBSET S
<1> DEFINE Less == StrictSubsetOrdering(S)
<1>1. \A U, T \in SUBSET S : U \subseteq T /\ U # T => <<U, T>> \in Less
  BY DEF StrictSubsetOrdering
<1>2. IsWellFoundedOn(Less, SUBSET S)
  BY FS_StrictSubsetOrderingWellFounded, FS_FiniteSubsetsOfFinite
<1> HIDE DEF Less
<1>3. SUFFICES ASSUME (SUBSET S) \ P # {} PROVE FALSE
  OBVIOUS
<1>4. PICK Bad : Bad = (SUBSET S) \ P
  OBVIOUS
<1>5. PICK T \in Bad : \A U \in Bad : ~ (<<U, T>> \in Less)
  <2>1. Bad \subseteq SUBSET S /\ Bad # {}
    BY <1>3, <1>4
  <2> QED BY <1>2, <2>1, WFMin
<1>6. ASSUME NEW U \in SUBSET T, U # T PROVE U \in P
  <2>1. T \in SUBSET S /\ U \in SUBSET S
    BY <1>4, <1>5
  <2>2. <<U, T>> \in Less
    BY <1>1, <1>6, <2>1
  <2> QED BY <1>4, <1>5, <2>1, <2>2
<1> QED BY <1>4, <1>5, <1>6

-----------------------------------------------------------------------------
(* The recursion is well defined. *)

First(s) == CHOOSE x \in s : TRUE

SumStep(f, g, s) == IF s = {} THEN 0 ELSE f[First(s)] + g[s \ {First(s)}]

\* g sums f over every set in D.
Sums(f, g, D) == g = [s \in D |-> SumStep(f, g, s)]

SumsSubsets(f, g, S) == Sums(f, g, SUBSET S)

Small(S, n) == {s \in SUBSET S : Cardinality(s) <= n}

LEMMA FirstOf ==
    ASSUME NEW s, s # {}
    PROVE  First(s) \in s /\ s \ {First(s)} \subseteq s /\ s \ {First(s)} # s
BY DEF First

LEMMA SmallSubsets ==
    ASSUME NEW S, IsFiniteSet(S)
    PROVE  /\ Small(S, 0) = {{}}
           /\ Small(S, Cardinality(S)) = SUBSET S
           /\ \A n \in Nat : \A s \in Small(S, n + 1) : \A x \in s : s \ {x} \in Small(S, n)
           /\ \A n \in Nat : Small(S, n) \subseteq Small(S, n + 1)
<1>1. \A s \in SUBSET S : /\ IsFiniteSet(s) /\ Cardinality(s) \in Nat
                          /\ Cardinality(s) <= Cardinality(S)
  BY FS_Subset, FS_CardinalityType
<1>2. Small(S, 0) = {{}}
  BY <1>1, FS_EmptySet DEF Small
<1>3. Small(S, Cardinality(S)) = SUBSET S
  BY <1>1 DEF Small
<1>4. ASSUME NEW n \in Nat, NEW s \in Small(S, n + 1), NEW x \in s
      PROVE  s \ {x} \in Small(S, n)
  <2>1. Cardinality(s \ {x}) = Cardinality(s) - 1
    BY <1>1, FS_RemoveElement DEF Small
  <2>2. s \in SUBSET S /\ Cardinality(s) <= n + 1 /\ Cardinality(s) \in Nat
    BY <1>1 DEF Small
  <2>3. Cardinality(s \ {x}) <= n
    BY <2>1, <2>2
  <2> QED BY <2>2, <2>3 DEF Small
<1>5. ASSUME NEW n \in Nat PROVE Small(S, n) \subseteq Small(S, n + 1)
  BY <1>1 DEF Small
<1> QED BY <1>2, <1>3, <1>4, <1>5

LEMMA SumsExist ==
    ASSUME NEW f, NEW S, IsFiniteSet(S)
    PROVE  \E g : Sums(f, g, SUBSET S)
<1> DEFINE T == {n \in Nat : \E g : Sums(f, g, Small(S, n))}
<1>1. 0 \in T
  <2> DEFINE g == [s \in Small(S, 0) |-> 0]
  <2>1. \A s \in Small(S, 0) : SumStep(f, g, s) = 0
    BY SmallSubsets DEF SumStep
  <2>2. Sums(f, g, Small(S, 0))
    BY <2>1 DEF Sums
  <2> QED BY <2>2
<1>2. ASSUME NEW n \in T PROVE n + 1 \in T
  <2>1. PICK g : Sums(f, g, Small(S, n))
    OBVIOUS
  <2> DEFINE h == [s \in Small(S, n + 1) |-> SumStep(f, g, s)]
  <2>2. ASSUME NEW s \in Small(S, n) PROVE h[s] = g[s]
    BY <2>1, SmallSubsets DEF Sums
  <2>3. ASSUME NEW s \in Small(S, n + 1) PROVE SumStep(f, h, s) = SumStep(f, g, s)
    <3>1. CASE s = {}
      BY <3>1 DEF SumStep
    <3>2. CASE s # {}
      <4>1. s \ {First(s)} \in Small(S, n)
        BY <3>2, FirstOf, SmallSubsets
      <4>2. h[s \ {First(s)}] = g[s \ {First(s)}]
        BY <2>2, <4>1
      <4> HIDE DEF h
      <4> QED BY <3>2, <4>2 DEF SumStep
    <3> QED BY <3>1, <3>2
  <2>4. Sums(f, h, Small(S, n + 1))
    BY <2>3 DEF Sums
  <2> HIDE DEF h
  <2> QED BY <2>4
<1>3. T = Nat
  <2> HIDE DEF T
  <2>1. T \in SUBSET Nat
    BY DEF T
  <2> QED BY <1>1, <1>2, <2>1, NaturalsInductive
<1>4. Cardinality(S) \in T /\ Small(S, Cardinality(S)) = SUBSET S
  BY <1>3, FS_CardinalityType, SmallSubsets
<1> QED BY <1>4

\* Whatever larger set a sum is defined for.
LEMMA SumsAgree ==
    ASSUME NEW S, NEW U, NEW f, NEW g, NEW h, IsFiniteSet(S), U \subseteq S,
           SumsSubsets(f, g, S), SumsSubsets(f, h, U)
    PROVE  g[U] = h[U]
<1> DEFINE P == {s \in SUBSET U : g[s] = h[s]}
<1>1. IsFiniteSet(U)
  BY FS_Subset
<1>2. ASSUME NEW s \in SUBSET U, \A t \in SUBSET s : t # s => t \in P
      PROVE  s \in P
  <2>1. g[s] = SumStep(f, g, s) /\ h[s] = SumStep(f, h, s)
    BY DEF SumsSubsets, Sums
  <2>2. s # {} => g[s \ {First(s)}] = h[s \ {First(s)}]
    BY <1>2, FirstOf
  <2>3. SumStep(f, g, s) = SumStep(f, h, s)
    BY <2>2 DEF SumStep
  <2> QED BY <2>1, <2>3
<1>3. P = SUBSET U
  <2> HIDE DEF P
  <2>1. P \in SUBSET (SUBSET U)
    BY DEF P
  <2> QED BY <1>1, <1>2, <2>1, SubsetsInductive
<1> QED BY <1>3

\* The sum is given by some function that sums the subsets.
LEMMA SumBySums ==
    ASSUME NEW f, NEW S, IsFiniteSet(S)
    PROVE  \E g : SumsSubsets(f, g, S) /\ SumFunctionOnSet(f, S) = g[S]
<1> DEFINE iter == CHOOSE g : Sums(f, g, SUBSET S)
<1>1. SumsSubsets(f, iter, S)
  BY SumsExist DEF SumsSubsets
<1>2. SumFunctionOnSet(f, S) = iter[S]
  BY DEF SumFunctionOnSet, FoldFunctionOnSet, MapThenFoldSet, SumsSubsets, Sums,
     SumStep, First
<1> QED BY <1>1, <1>2

-----------------------------------------------------------------------------
(* Sums over finite sets. *)

LEMMA SumOfNothing ==
    ASSUME NEW f
    PROVE  SumFunctionOnSet(f, {}) = 0
<1>1. PICK g : SumsSubsets(f, g, {}) /\ SumFunctionOnSet(f, {}) = g[{}]
  BY SumBySums, FS_EmptySet
<1> QED BY <1>1 DEF SumsSubsets, Sums, SumStep

LEMMA SumFirst ==
    ASSUME NEW f, NEW S, IsFiniteSet(S), S # {}
    PROVE  SumFunctionOnSet(f, S) =
               f[First(S)] + SumFunctionOnSet(f, S \ {First(S)})
<1>1. PICK U : U = S \ {First(S)}
  OBVIOUS
<1>2. U \subseteq S /\ IsFiniteSet(U)
  BY <1>1, FS_Subset
<1>3. PICK g : SumsSubsets(f, g, S) /\ SumFunctionOnSet(f, S) = g[S]
  BY SumBySums
<1>4. PICK h : SumsSubsets(f, h, U) /\ SumFunctionOnSet(f, U) = h[U]
  BY <1>2, SumBySums
<1>5. g[U] = h[U]
  BY <1>2, <1>3, <1>4, SumsAgree
<1>6. g[S] = f[First(S)] + g[U]
  BY <1>1, <1>3 DEF SumsSubsets, Sums, SumStep
<1> QED BY <1>1, <1>3, <1>4, <1>5, <1>6

\* Naturals add up to a natural.
LEMMA SumIsNatural ==
    ASSUME NEW f, NEW S, IsFiniteSet(S), \A x \in S : f[x] \in Nat
    PROVE  SumFunctionOnSet(f, S) \in Nat
<1> DEFINE P == {T \in SUBSET S : SumFunctionOnSet(f, T) \in Nat}
<1>1. ASSUME NEW T \in SUBSET S, \A U \in SUBSET T : U # T => U \in P
      PROVE  T \in P
  <2>1. CASE T = {}
    BY <2>1, SumOfNothing
  <2>2. CASE T # {}
    <3>1. IsFiniteSet(T) /\ First(T) \in T /\ T \ {First(T)} \in P
      BY <1>1, <2>2, FS_Subset, FirstOf
    <3>2. SumFunctionOnSet(f, T) = f[First(T)] + SumFunctionOnSet(f, T \ {First(T)})
      BY <2>2, <3>1, SumFirst
    <3>3. f[First(T)] \in Nat /\ SumFunctionOnSet(f, T \ {First(T)}) \in Nat
      BY <3>1
    <3>4. SumFunctionOnSet(f, T) \in Nat
      BY <3>2, <3>3
    <3> QED BY <3>4
  <2> QED BY <2>1, <2>2
<1> HIDE DEF P
<1>2. P \in SUBSET (SUBSET S)
  BY DEF P
<1>3. S \in P
  BY <1>1, <1>2, SubsetsInductive
<1> QED BY <1>3 DEF P

\* Only the values on the set count.
LEMMA SumOfSame ==
    ASSUME NEW f, NEW g, NEW S, IsFiniteSet(S), \A x \in S : f[x] = g[x]
    PROVE  SumFunctionOnSet(f, S) = SumFunctionOnSet(g, S)
<1> DEFINE P == {T \in SUBSET S : SumFunctionOnSet(f, T) = SumFunctionOnSet(g, T)}
<1>1. ASSUME NEW T \in SUBSET S, \A U \in SUBSET T : U # T => U \in P
      PROVE  T \in P
  <2>1. CASE T = {}
    BY <2>1, SumOfNothing
  <2>2. CASE T # {}
    <3>1. IsFiniteSet(T) /\ First(T) \in T /\ T \ {First(T)} \in P
      BY <1>1, <2>2, FS_Subset, FirstOf
    <3>2. /\ SumFunctionOnSet(f, T) =
                 f[First(T)] + SumFunctionOnSet(f, T \ {First(T)})
          /\ SumFunctionOnSet(g, T) =
                 g[First(T)] + SumFunctionOnSet(g, T \ {First(T)})
      BY <2>2, <3>1, SumFirst
    <3>3. /\ f[First(T)] = g[First(T)]
          /\ SumFunctionOnSet(f, T \ {First(T)}) = SumFunctionOnSet(g, T \ {First(T)})
      BY <3>1
    <3> QED BY <3>2, <3>3
  <2> QED BY <2>1, <2>2
<1> HIDE DEF P
<1>2. P \in SUBSET (SUBSET S)
  BY DEF P
<1>3. S \in P
  BY <1>1, <1>2, SubsetsInductive
<1> QED BY <1>3 DEF P

\* Any element can be taken out.
LEMMA SumWithout ==
    ASSUME NEW f, NEW S, IsFiniteSet(S), \A x \in S : f[x] \in Nat
    PROVE  \A x \in S :
             SumFunctionOnSet(f, S) = f[x] + SumFunctionOnSet(f, S \ {x})
<1> DEFINE Splits(T) ==
              \A x \in T : SumFunctionOnSet(f, T) = f[x] + SumFunctionOnSet(f, T \ {x})
           P == {T \in SUBSET S : Splits(T)}
<1>1. ASSUME NEW T \in SUBSET S, \A U \in SUBSET T : U # T => U \in P
      PROVE  T \in P
  <2> SUFFICES ASSUME NEW x \in T
               PROVE  SumFunctionOnSet(f, T) = f[x] + SumFunctionOnSet(f, T \ {x})
    OBVIOUS
  <2>1. IsFiniteSet(T) /\ T # {}
    BY FS_Subset
  <2>2. PICK c \in T :
          SumFunctionOnSet(f, T) = f[c] + SumFunctionOnSet(f, T \ {c})
    BY <2>1, FirstOf, SumFirst
  <2>3. CASE c = x
    BY <2>2, <2>3
  <2>4. CASE c # x
    <3> DEFINE U == (T \ {c}) \ {x}
    <3>1. U = (T \ {x}) \ {c}
      OBVIOUS
    <3>2. T \ {c} \in P /\ T \ {x} \in P
      BY <1>1
    <3>3. SumFunctionOnSet(f, T \ {c}) = f[x] + SumFunctionOnSet(f, U)
      BY <2>4, <3>2
    <3>4. SumFunctionOnSet(f, T \ {x}) = f[c] + SumFunctionOnSet(f, U)
      BY <2>4, <3>1, <3>2
    <3>5. IsFiniteSet(U) /\ \A y \in U : f[y] \in Nat
      BY FS_Subset
    <3> HIDE DEF U
    <3>6. SumFunctionOnSet(f, U) \in Nat
      BY <3>5, SumIsNatural
    <3>7. f[c] \in Nat /\ f[x] \in Nat
      OBVIOUS
    <3> QED BY <2>2, <3>3, <3>4, <3>6, <3>7
  <2> QED BY <2>3, <2>4
<1>2. P \in SUBSET (SUBSET S)
  OBVIOUS
<1> HIDE DEF P
<1>3. S \in P
  BY <1>1, <1>2, SubsetsInductive
<1> QED BY <1>3 DEF P

LEMMA SumWith ==
    ASSUME NEW f, NEW S, IsFiniteSet(S), NEW x, x \notin S,
           \A y \in S \cup {x} : f[y] \in Nat
    PROVE  SumFunctionOnSet(f, S \cup {x}) = f[x] + SumFunctionOnSet(f, S)
<1>1. IsFiniteSet(S \cup {x}) /\ x \in S \cup {x} /\ (S \cup {x}) \ {x} = S
  BY FS_AddElement
<1> QED BY <1>1, SumWithout
=============================================================================
