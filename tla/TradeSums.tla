------------------------------ MODULE TradeSums ------------------------------
(***************************************************************************)
(* Sums of the quantities of a set of trades. The properties state them    *)
(* with MapThenSumSet, which adds the elements in an order it chooses; the *)
(* lemmas show that for a finite set the order does not matter. Induction  *)
(* is by the least cardinality of a counterexample.                        *)
(***************************************************************************)
EXTENDS Integers, FiniteSetsExt, FiniteSetTheorems, WellFoundedInduction, TLAPS

QtySum(S) == MapThenSumSet(LAMBDA t : t.qty, S)

(* The function by which the fold is defined on the subsets of S.          *)
First(s) == CHOOSE t \in s : TRUE

Adds(f, S) ==
    f = [s \in SUBSET S |-> IF s = {} THEN 0 ELSE First(s).qty + f[s \ {First(s)}]]

Fold(S) == CHOOSE f : Adds(f, S)

LEMMA SumOfFold == ASSUME NEW S PROVE QtySum(S) = Fold(S)[S]
BY DEF QtySum, Fold, Adds, First, MapThenSumSet, MapThenFoldSet

LEMMA LeastNatural ==
    ASSUME NEW T, T \subseteq Nat, T # {}
    PROVE  \E m \in T : \A k \in T : m <= k
<1> DEFINE R == {ss \in Nat \X Nat : ss[1] < ss[2]}
<1>1. IsWellFoundedOn(R, Nat)
  BY NatLessThanWellFounded DEF OpToRel
<1>2. \E x \in T : \A y \in T : ~ (<<y, x>> \in R)
  BY <1>1, WFMin
<1>3. PICK x \in T : \A y \in T : ~ (<<y, x>> \in R)
  BY <1>2
<1>4. ASSUME NEW y \in T PROVE x <= y
  <2>1. <<y, x>> \in Nat \X Nat
    OBVIOUS
  <2>2. ~ (y < x)
    BY <1>3, <2>1
  <2> QED
    BY <2>2
<1> QED
  BY <1>4

(* Of a set of finite sets, one that is not larger than any of the others. *)
LEMMA SmallestSet ==
    ASSUME NEW B, B # {}, \A s \in B : IsFiniteSet(s)
    PROVE  \E s \in B : \A t \in B : Cardinality(s) <= Cardinality(t)
<1> DEFINE N == {Cardinality(s) : s \in B}
<1>1. N \subseteq Nat /\ N # {}
  BY FS_CardinalityType
<1>2. PICK m \in N : \A k \in N : m <= k
  BY <1>1, LeastNatural
<1> QED
  BY <1>2

LEMMA OneLess ==
    ASSUME NEW s, IsFiniteSet(s), NEW x \in s
    PROVE  /\ IsFiniteSet(s \ {x}) /\ Cardinality(s \ {x}) \in Nat
           /\ Cardinality(s \ {x}) < Cardinality(s)
<1>1. IsFiniteSet(s \ {x}) /\ Cardinality(s \ {x}) = Cardinality(s) - 1
  BY FS_RemoveElement
<1>2. Cardinality(s \ {x}) \in Nat /\ Cardinality(s) \in Nat
  BY <1>1, FS_CardinalityType
<1> QED
  BY <1>1, <1>2

LEMMA FirstIn == ASSUME NEW s, s # {} PROVE First(s) \in s
BY DEF First

LEMMA AddsAt ==
    ASSUME NEW S, NEW f, Adds(f, S), NEW s \in SUBSET S
    PROVE  /\ s = {} => f[s] = 0
           /\ s # {} => f[s] = First(s).qty + f[s \ {First(s)}]
BY DEF Adds

(* Two such functions agree where both are defined.                        *)
LEMMA FoldsAgree ==
    ASSUME NEW S, NEW T, IsFiniteSet(S), NEW f, NEW g, Adds(f, S), Adds(g, T),
           NEW s \in SUBSET S, s \in SUBSET T
    PROVE  f[s] = g[s]
<1> DEFINE B == {u \in SUBSET s : f[u] # g[u]}
<1>1. SUFFICES ASSUME B # {} PROVE FALSE
  OBVIOUS
<1>2. \A u \in SUBSET s : u \in SUBSET S /\ u \in SUBSET T /\ IsFiniteSet(u)
  BY FS_Subset
<1>3. PICK u \in B : \A v \in B : Cardinality(u) <= Cardinality(v)
  BY <1>1, <1>2, SmallestSet
<1>4. u # {}
  BY <1>2, AddsAt
<1> DEFINE x == First(u)
           v == u \ {x}
<1>5. x \in u /\ f[u] = x.qty + f[v] /\ g[u] = x.qty + g[v]
  BY <1>2, <1>4, AddsAt, FirstIn
<1>6. v \in SUBSET s /\ f[v] # g[v]
  BY <1>5
<1>7. Cardinality(v) \in Nat /\ Cardinality(v) < Cardinality(u)
  BY <1>2, <1>5, OneLess
<1>8. Cardinality(u) <= Cardinality(v) /\ Cardinality(u) \in Nat
  BY <1>2, <1>3, <1>6, FS_CardinalityType
<1> QED
  BY <1>7, <1>8

(* The value on s, put together from the values on the smaller sets.       *)
LEMMA FoldStep ==
    ASSUME NEW S, IsFiniteSet(S),
           \A s \in SUBSET S : s # S => \E f : Adds(f, s)
    PROVE  \E f : Adds(f, S)
<1> DEFINE F(s) == Fold(s)[s]
           f == [s \in SUBSET S |-> IF s = {} THEN 0 ELSE First(s).qty + F(s \ {First(s)})]
<1>1. \A s \in SUBSET S : s # S => Adds(Fold(s), s)
  BY DEF Fold
<1>2. ASSUME NEW s \in SUBSET S, s # S PROVE f[s] = F(s)
  <2>1. Adds(Fold(s), s) /\ s \in SUBSET s
    BY <1>1, <1>2
  <2>2. CASE s = {}
    BY <2>1, <2>2, AddsAt
  <2>3. CASE s # {}
    <3> DEFINE u == s \ {First(s)}
    <3>1. First(s) \in s /\ u \in SUBSET S /\ u \in SUBSET s /\ u # S
      BY <1>2, <2>3, FirstIn
    <3>2. F(s) = First(s).qty + Fold(s)[u]
      BY <2>1, <2>3, AddsAt
    <3>3. Adds(Fold(u), u) /\ u \in SUBSET u
      BY <1>1, <3>1
    <3>4. IsFiniteSet(s)
      BY <1>2, FS_Subset
    <3>5. Fold(s)[u] = Fold(u)[u]
      BY <2>1, <3>1, <3>3, <3>4, FoldsAgree
    <3>6. f[s] = First(s).qty + F(u)
      BY <1>2, <2>3
    <3> QED
      BY <3>2, <3>5, <3>6
  <2> QED
    BY <2>2, <2>3
<1>3. ASSUME NEW s \in SUBSET S, s # {} PROVE f[s] = First(s).qty + f[s \ {First(s)}]
  <2> DEFINE u == s \ {First(s)}
  <2>1. First(s) \in s /\ u \in SUBSET S /\ u # S
    BY <1>3, FirstIn
  <2>2. f[u] = F(u)
    BY <1>2, <2>1
  <2>3. f[s] = First(s).qty + F(u)
    BY <1>3
  <2> QED
    BY <2>2, <2>3
<1>4. \A s \in SUBSET S : f[s] = IF s = {} THEN 0 ELSE First(s).qty + f[s \ {First(s)}]
  BY <1>3
<1>5. Adds([s \in SUBSET S |-> f[s]], S)
  <2> DEFINE g == [s \in SUBSET S |-> f[s]]
  <2>1. g = f
    OBVIOUS
  <2> HIDE DEF f
  <2>2. g = [s \in SUBSET S |-> IF s = {} THEN 0 ELSE First(s).qty + f[s \ {First(s)}]]
    BY <1>4
  <2> QED
    BY <2>1, <2>2 DEF Adds
<1> QED
  BY <1>5

LEMMA FoldExists ==
    ASSUME NEW S, IsFiniteSet(S)
    PROVE  Adds(Fold(S), S)
<1> DEFINE B == {s \in SUBSET S : ~\E f : Adds(f, s)}
<1>1. \A s \in SUBSET S : IsFiniteSet(s)
  BY FS_Subset
<1>2. ASSUME B # {} PROVE FALSE
  <2>1. PICK u \in B : \A v \in B : Cardinality(u) <= Cardinality(v)
    BY <1>1, <1>2, SmallestSet
  <2>2. ASSUME NEW s \in SUBSET u, s # u PROVE \E f : Adds(f, s)
    <3>1. IsFiniteSet(s) /\ IsFiniteSet(u) /\ s \in SUBSET S
      BY <1>1, <2>2
    <3>2. Cardinality(s) < Cardinality(u) /\ Cardinality(s) \in Nat /\ Cardinality(u) \in Nat
      <4>1. PICK x \in u : x \notin s
        BY <2>2
      <4>2. s \in SUBSET (u \ {x})
        BY <2>2, <4>1
      <4>3. /\ IsFiniteSet(u \ {x}) /\ Cardinality(u \ {x}) \in Nat
            /\ Cardinality(u \ {x}) < Cardinality(u)
        BY <3>1, OneLess
      <4>4. Cardinality(s) <= Cardinality(u \ {x})
        BY <4>2, <4>3, FS_Subset
      <4>5. Cardinality(s) \in Nat /\ Cardinality(u) \in Nat
        BY <3>1, FS_CardinalityType
      <4> QED
        BY <4>3, <4>4, <4>5
    <3>3. s \notin B
      BY <2>1, <3>2
    <3> QED
      BY <3>1, <3>3
  <2>3. IsFiniteSet(u)
    BY <1>1
  <2> QED
    BY <2>1, <2>2, <2>3, FoldStep
<1>3. \E f : Adds(f, S)
  BY <1>2
<1> QED
  BY <1>3 DEF Fold

(* The order of the elements does not matter.                              *)
LEMMA AnyFirst ==
    ASSUME NEW S, IsFiniteSet(S), \A t \in S : t.qty \in Int,
           NEW f, Adds(f, S), NEW s \in SUBSET S
    PROVE  f[s] \in Int /\ \A x \in s : f[s] = x.qty + f[s \ {x}]
<1> DEFINE P(u) == f[u] \in Int /\ \A x \in u : f[u] = x.qty + f[u \ {x}]
           B == {u \in SUBSET S : ~P(u)}
<1>1. SUFFICES ASSUME B # {} PROVE FALSE
  OBVIOUS
<1>2. \A u \in SUBSET S : IsFiniteSet(u)
  BY FS_Subset
<1>3. PICK u \in B : \A v \in B : Cardinality(u) <= Cardinality(v)
  BY <1>1, <1>2, SmallestSet
<1>7. u \in SUBSET S /\ ~P(u) /\ \A v \in SUBSET S : v \notin B => P(v)
  OBVIOUS
<1> HIDE DEF P, B
<1>4. ASSUME NEW x \in u PROVE P(u \ {x}) /\ u \ {x} \in SUBSET S
  <2>1. Cardinality(u \ {x}) \in Nat /\ Cardinality(u \ {x}) < Cardinality(u) /\ Cardinality(u) \in Nat
    BY <1>2, <1>4, <1>7, OneLess, FS_CardinalityType
  <2>2. u \ {x} \notin B
    BY <1>3, <2>1
  <2> QED
    BY <1>7, <2>2
<1>5. CASE u = {}
  <2>1. f[u] = 0
    BY <1>5, <1>7, AddsAt
  <2>2. P(u)
    BY <1>5, <2>1 DEF P
  <2> QED
    BY <1>7, <2>2
<1>6. CASE u # {}
  <2> DEFINE c == First(u)
  <2>1. c \in u /\ f[u] = c.qty + f[u \ {c}] /\ c.qty \in Int
    BY <1>6, <1>7, AddsAt, FirstIn
  <2> HIDE DEF c
  <2>2. f[u] \in Int
    <3>1. f[u \ {c}] \in Int
      BY <1>4, <2>1 DEF P
    <3> QED
      BY <2>1, <3>1
  <2>3. ASSUME NEW x \in u, x # c PROVE f[u] = x.qty + f[u \ {x}]
    <3>1. f[u \ {c}] = x.qty + f[(u \ {c}) \ {x}]
      BY <1>4, <2>1, <2>3 DEF P
    <3>2. f[u \ {x}] = c.qty + f[(u \ {x}) \ {c}]
      BY <1>4, <2>1, <2>3 DEF P
    <3>3. (u \ {c}) \ {x} = (u \ {x}) \ {c}
      OBVIOUS
    <3>4. x.qty \in Int /\ f[(u \ {x}) \ {c}] \in Int
      <4>1. u \ {x} \in SUBSET S /\ c \in u \ {x} /\ f[u \ {x}] \in Int /\ f[u \ {c}] \in Int
        BY <1>4, <2>1, <2>3 DEF P
      <4>2. (u \ {x}) \ {c} \in SUBSET S
        BY <4>1
      <4>3. Cardinality((u \ {x}) \ {c}) < Cardinality(u) /\ Cardinality((u \ {x}) \ {c}) \in Nat
            /\ Cardinality(u) \in Nat
        <5>1. IsFiniteSet(u) /\ IsFiniteSet(u \ {x})
          BY <1>2, <1>7, <4>1
        <5>2. Cardinality(u \ {x}) < Cardinality(u) /\ Cardinality(u) \in Nat /\ Cardinality(u \ {x}) \in Nat
          BY <5>1, OneLess, FS_CardinalityType
        <5>3. Cardinality((u \ {x}) \ {c}) < Cardinality(u \ {x}) /\ Cardinality((u \ {x}) \ {c}) \in Nat
          BY <4>1, <5>1, OneLess
        <5> QED
          BY <5>2, <5>3
      <4>4. (u \ {x}) \ {c} \notin B
        BY <1>3, <4>3
      <4> QED
        BY <1>7, <4>2, <4>4 DEF P
    <3> DEFINE d == f[(u \ {x}) \ {c}]
    <3>5. f[u] = c.qty + (x.qty + d) /\ f[u \ {x}] = c.qty + d /\ d \in Int
      BY <2>1, <3>1, <3>2, <3>3, <3>4
    <3> HIDE DEF d
    <3> QED
      BY <2>1, <3>4, <3>5
  <2>4. \A x \in u : f[u] = x.qty + f[u \ {x}]
    BY <2>1, <2>3
  <2> QED
    BY <1>7, <2>2, <2>4 DEF P
<1> QED
  BY <1>5, <1>6

LEMMA SumOfNone == QtySum({}) = 0
<1>1. Adds(Fold({}), {})
  BY FS_EmptySet, FoldExists
<1> QED
  BY <1>1, AddsAt, SumOfFold

LEMMA SumType ==
    ASSUME NEW S, IsFiniteSet(S), \A t \in S : t.qty \in Int
    PROVE  QtySum(S) \in Int
<1>1. Adds(Fold(S), S)
  BY FoldExists
<1> QED
  BY <1>1, AnyFirst, SumOfFold

(* One more trade, and one less. *)
LEMMA SumInsert ==
    ASSUME NEW S, IsFiniteSet(S), \A t \in S : t.qty \in Int,
           NEW x, x \notin S, x.qty \in Int
    PROVE  QtySum(S \cup {x}) = QtySum(S) + x.qty
<1> DEFINE T == S \cup {x}
<1>1. IsFiniteSet(T) /\ (\A t \in T : t.qty \in Int) /\ x \in T /\ T \ {x} = S /\ S \in SUBSET T
  BY FS_AddElement
<1> HIDE DEF T
<1>2. Adds(Fold(T), T) /\ Adds(Fold(S), S)
  BY <1>1, FoldExists
<1>3. Fold(T)[T] = x.qty + Fold(T)[S]
  BY <1>1, <1>2, AnyFirst
<1>4. Fold(T)[S] = Fold(S)[S]
  BY <1>1, <1>2, FoldsAgree
<1>5. QtySum(S) \in Int
  BY SumType
<1> QED
  BY <1>3, <1>4, <1>5, SumOfFold DEF T
=============================================================================
