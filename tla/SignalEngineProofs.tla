------------------------- MODULE SignalEngineProofs -------------------------
(***************************************************************************)
(* Theorems about SignalEngine and the model it computes, for all feeds,   *)
(* histories and windows.                                                  *)
(***************************************************************************)
EXTENDS SignalEngine, TradeSums, SequenceTheorems

------------------------------------------------------------------------------
(* Folds along a sequence. FoldLeft takes the greatest index of the set of *)
(* those it has left; from one end to the other these sets are the         *)
(* intervals 1..k.                                                         *)

LEMMA UpTo ==
    ASSUME NEW n \in Nat, NEW G, 0 \in G, \A k \in 1..n : k - 1 \in G => k \in G
    PROVE  \A k \in 0..n : k \in G
<1> DEFINE T == {k \in 0..n : k \notin G}
<1>1. SUFFICES ASSUME T # {} PROVE FALSE
  OBVIOUS
<1>4. T \subseteq Nat /\ T # {}
  BY <1>1
<1>2. PICK m \in T : \A k \in T : m <= k
  <2> HIDE DEF T
  <2> QED
    BY <1>4, LeastNatural
<1>3. m \in 1..n /\ m - 1 \in 0..n /\ m - 1 \notin T
  BY <1>2
<1> QED
  BY <1>2, <1>3

LEMMA MaxIn ==
    ASSUME NEW n \in Nat, NEW t \in SUBSET (1..n), t # {}
    PROVE  Max(t) \in t /\ \A y \in t : y <= Max(t)
<1> DEFINE B == {m \in Nat : \A y \in t : y <= m}
<1>1. n \in B /\ B \subseteq Nat
  OBVIOUS
<1>2. PICK m \in B : \A k \in B : m <= k
  BY <1>1, LeastNatural
<1>3. m \in t
  <2>1. SUFFICES ASSUME m \notin t PROVE FALSE
    OBVIOUS
  <2>3. \A y \in t : y \in 1..n /\ y <= m /\ y # m
    BY <1>2, <2>1
  <2>4. m - 1 \in Nat
    <3>1. PICK z \in t : TRUE
      OBVIOUS
    <3>2. z \in 1..n /\ z <= m /\ m \in Nat
      BY <2>3, <3>1
    <3> QED
      BY <3>2
  <2>2. m - 1 \in B
    BY <1>2, <2>3, <2>4
  <2> QED
    BY <1>2, <2>2
<1>4. \E x \in t : \A y \in t : x >= y
  BY <1>2, <1>3
<1> QED
  BY <1>4 DEF Max

LEMMA MaxIs ==
    ASSUME NEW n \in Nat, NEW t \in SUBSET (1..n), NEW x \in t, \A y \in t : y <= x
    PROVE  Max(t) = x
<1>1. Max(t) \in t /\ x <= Max(t)
  BY MaxIn
<1>2. Max(t) \in 1..n /\ x \in 1..n /\ Max(t) <= x
  BY <1>1
<1> QED
  BY <1>1, <1>2

FoldsBy(f, n, base, F) ==
    f = [t \in SUBSET (1..n) |-> IF t = {} THEN base ELSE F[<<Max(t), f[t \ {Max(t)}]>>]]

LEMMA FoldsByStep ==
    ASSUME NEW n \in Nat, NEW W, NEW base \in W, NEW F \in [Nat \X W -> W],
           NEW f \in [SUBSET (1..n) -> W], FoldsBy(f, n, base, F)
    PROVE  \E g \in [SUBSET (1..(n + 1)) -> W] : FoldsBy(g, n + 1, base, F)
<1> DEFINE g == [t \in SUBSET (1..(n + 1)) |-> IF n + 1 \in t THEN F[<<n + 1, f[t \ {n + 1}]>>] ELSE f[t]]
<1>1. ASSUME NEW t \in SUBSET (1..(n + 1)), n + 1 \in t
      PROVE  Max(t) = n + 1 /\ t \ {n + 1} \in SUBSET (1..n) /\ g[t] \in W
             /\ g[t] = F[<<Max(t), g[t \ {Max(t)}]>>]
  <2>0. n + 1 \in Nat /\ \A y \in t : y <= n + 1
    OBVIOUS
  <2>1. Max(t) = n + 1
    BY <1>1, <2>0, MaxIs
  <2>2. t \ {n + 1} \in SUBSET (1..n)
    OBVIOUS
  <2>3. f[t \ {n + 1}] \in W /\ <<n + 1, f[t \ {n + 1}]>> \in Nat \X W
    BY <2>2
  <2>4. g[t] = F[<<n + 1, f[t \ {n + 1}]>>] /\ g[t] \in W
    BY <1>1, <2>3
  <2>5. g[t \ {n + 1}] = f[t \ {n + 1}]
    BY <2>2
  <2> QED
    BY <2>1, <2>2, <2>4, <2>5
<1>2. ASSUME NEW t \in SUBSET (1..(n + 1)), n + 1 \notin t
      PROVE  t \in SUBSET (1..n) /\ g[t] = f[t] /\ g[t] \in W
  BY <1>2
<1>3. ASSUME NEW t \in SUBSET (1..(n + 1)), n + 1 \notin t, t # {}
      PROVE  g[t] = F[<<Max(t), g[t \ {Max(t)}]>>]
  <2>1. t \ {Max(t)} \in SUBSET (1..(n + 1)) /\ n + 1 \notin t \ {Max(t)}
    BY <1>3
  <2>2. g[t \ {Max(t)}] = f[t \ {Max(t)}] /\ t \in SUBSET (1..n) /\ g[t] = f[t]
    BY <1>2, <1>3, <2>1
  <2>3. f[t] = F[<<Max(t), f[t \ {Max(t)}]>>]
    BY <1>3, <2>2 DEF FoldsBy
  <2> QED
    BY <2>2, <2>3
<1>4. g[{}] = base
  <2>1. {} \in SUBSET (1..n) /\ n + 1 \notin {}
    OBVIOUS
  <2> QED
    BY <2>1 DEF FoldsBy
<1>5. g = [t \in SUBSET (1..(n + 1)) |-> g[t]] /\ g \in [SUBSET (1..(n + 1)) -> W]
  BY <1>1, <1>2
<1>6. \A t \in SUBSET (1..(n + 1)) : g[t] = IF t = {} THEN base ELSE F[<<Max(t), g[t \ {Max(t)}]>>]
  <2> HIDE DEF g
  <2> QED
    BY <1>1, <1>3, <1>4
<1> HIDE DEF g
<1>7. FoldsBy(g, n + 1, base, F)
  BY <1>5, <1>6 DEF FoldsBy
<1> QED
  BY <1>5, <1>7

LEMMA FoldsByExists ==
    ASSUME NEW n \in Nat, NEW W, NEW base \in W, NEW F \in [Nat \X W -> W]
    PROVE  \E f \in [SUBSET (1..n) -> W] : FoldsBy(f, n, base, F)
<1> DEFINE G == {k \in Nat : \E f \in [SUBSET (1..k) -> W] : FoldsBy(f, k, base, F)}
<1>1. 0 \in G
  <2> DEFINE f == [t \in SUBSET (1..0) |-> base]
  <2>1. f \in [SUBSET (1..0) -> W] /\ \A t \in SUBSET (1..0) : t = {}
    OBVIOUS
  <2>2. FoldsBy(f, 0, base, F)
    BY <2>1 DEF FoldsBy
  <2> QED
    BY <2>1, <2>2
<1>2. ASSUME NEW k \in 1..n, k - 1 \in G PROVE k \in G
  <2>1. k - 1 \in Nat /\ (k - 1) + 1 = k
    OBVIOUS
  <2>2. PICK f \in [SUBSET (1..(k - 1)) -> W] : FoldsBy(f, k - 1, base, F)
    BY <1>2
  <2>3. \E g \in [SUBSET (1..((k - 1) + 1)) -> W] : FoldsBy(g, (k - 1) + 1, base, F)
    BY <2>1, <2>2, FoldsByStep
  <2> QED
    BY <2>1, <2>3
<1>3. \A k \in 0..n : k \in G
  <2> HIDE DEF G
  <2> QED
    BY <1>1, <1>2, UpTo
<1>4. n \in G
  <2> HIDE DEF G
  <2> QED
    BY <1>3
<1> QED
  BY <1>4

(* What such a function gives for the intervals, one after the other.      *)
LEMMA AlongIntervals ==
    ASSUME NEW n \in Nat, NEW k \in 1..n
    PROVE  Max(1..k) = k /\ (1..k) \ {k} = 1..(k - 1) /\ 1..k \in SUBSET (1..n) /\ 1..k # {}
<1>1. 1..k \in SUBSET (1..n) /\ k \in 1..k /\ 1..k # {}
  OBVIOUS
<1>2. \A y \in 1..k : y <= k
  OBVIOUS
<1>3. Max(1..k) = k
  BY <1>1, <1>2, MaxIs
<1>4. ASSUME NEW y PROVE y \in (1..k) \ {k} <=> y \in 1..(k - 1)
  OBVIOUS
<1> QED
  BY <1>1, <1>3, <1>4

LEMMA FoldedUp ==
    ASSUME NEW n \in Nat, NEW base, NEW F, NEW f, FoldsBy(f, n, base, F)
    PROVE  /\ f[1..0] = base
           /\ \A k \in 1..n : f[1..k] = F[<<k, f[1..(k - 1)]>>]
<1>1. 1..0 \in SUBSET (1..n) /\ 1..0 = {}
  OBVIOUS
<1>2. f[1..0] = base
  BY <1>1 DEF FoldsBy
<1>3. ASSUME NEW k \in 1..n PROVE f[1..k] = F[<<k, f[1..(k - 1)]>>]
  <2>1. f[1..k] = F[<<Max(1..k), f[(1..k) \ {Max(1..k)}]>>]
    BY AlongIntervals DEF FoldsBy
  <2> QED
    BY <2>1, AlongIntervals
<1> QED
  BY <1>2, <1>3

(* The total, from the sums of the first k entries.                        *)
Sums(h, s) ==
    /\ h \in [0..Len(s) -> Int] /\ h[0] = 0
    /\ \A k \in 1..Len(s) : h[k] = h[k - 1] + s[k]

TotalFold(f, s) ==
    f = [t \in SUBSET DOMAIN s |-> IF t = {} THEN 0 ELSE f[t \ {Max(t)}] + s[Max(t)]]

LEMMA TotalOfFold == ASSUME NEW s PROVE Total(s) = (CHOOSE f : TotalFold(f, s))[DOMAIN s]
BY DEF Total, TotalFold, FoldLeft, MapThenFoldSet

LEMMA TotalFoldExists ==
    ASSUME NEW s \in Seq(Int)
    PROVE  \E f : TotalFold(f, s)
<1> DEFINE n == Len(s)
           F == [p \in Nat \X Int |-> IF p[1] \in 1..n THEN p[2] + s[p[1]] ELSE 0]
<1>1. n \in Nat /\ DOMAIN s = 1..n /\ \A k \in 1..n : s[k] \in Int
  OBVIOUS
<1>2. F \in [Nat \X Int -> Int]
  BY <1>1
<1>3. ASSUME NEW k \in 1..n, NEW x \in Int PROVE F[<<k, x>>] = x + s[k]
  <2>1. <<k, x>> \in Nat \X Int
    BY <1>1
  <2> QED
    BY <2>1
<1> HIDE DEF F, n
<1>4. PICK f \in [SUBSET (1..n) -> Int] : FoldsBy(f, n, 0, F)
  <2>1. 0 \in Int
    OBVIOUS
  <2> QED
    BY <1>1, <1>2, <2>1, FoldsByExists, Zenon
<1>5. ASSUME NEW t \in SUBSET (1..n), t # {}
      PROVE  F[<<Max(t), f[t \ {Max(t)}]>>] = f[t \ {Max(t)}] + s[Max(t)]
  <2>1. Max(t) \in 1..n /\ t \ {Max(t)} \in SUBSET (1..n)
    BY <1>1, <1>5, MaxIn
  <2> QED
    BY <1>3, <2>1
<1>6. TotalFold(f, s)
  <2>1. f = [t \in SUBSET (1..n) |-> IF t = {} THEN 0 ELSE F[<<Max(t), f[t \ {Max(t)}]>>]]
    BY <1>4 DEF FoldsBy
  <2>2. \A t \in SUBSET (1..n) :
            (IF t = {} THEN 0 ELSE F[<<Max(t), f[t \ {Max(t)}]>>])
                = (IF t = {} THEN 0 ELSE f[t \ {Max(t)}] + s[Max(t)])
    BY <1>5
  <2>3. f = [t \in SUBSET (1..n) |-> IF t = {} THEN 0 ELSE f[t \ {Max(t)}] + s[Max(t)]]
    <3>1. [t \in SUBSET (1..n) |-> IF t = {} THEN 0 ELSE F[<<Max(t), f[t \ {Max(t)}]>>]]
            = [t \in SUBSET (1..n) |-> IF t = {} THEN 0 ELSE f[t \ {Max(t)}] + s[Max(t)]]
      BY <2>2, Zenon
    <3> QED
      BY <2>1, <3>1, Zenon
  <2> QED
    BY <1>1, <2>3, Zenon DEF TotalFold
<1> QED
  BY <1>6

(* Two sums of the same entries are the same. *)
LEMMA SumsAgree ==
    ASSUME NEW s \in Seq(Int), NEW h, NEW g, Sums(h, s), Sums(g, s)
    PROVE  \A k \in 0..Len(s) : h[k] = g[k]
<1> DEFINE G == {k \in 0..Len(s) : h[k] = g[k]}
<1>1. Len(s) \in Nat /\ 0 \in G
  BY DEF Sums
<1>2. ASSUME NEW k \in 1..Len(s), k - 1 \in G PROVE k \in G
  BY <1>2 DEF Sums
<1>3. \A k \in 0..Len(s) : k \in G
  <2> HIDE DEF G
  <2> QED
    BY <1>1, <1>2, UpTo
<1> QED
  BY <1>3

LEMMA TotalAsSums ==
    ASSUME NEW s \in Seq(Int)
    PROVE  \E h : Sums(h, s) /\ Total(s) = h[Len(s)]
<1> DEFINE n == Len(s)
           f == CHOOSE g : TotalFold(g, s)
           h == [k \in 0..n |-> f[1..k]]
<1>1. n \in Nat /\ DOMAIN s = 1..n /\ \A k \in 1..n : s[k] \in Int
  OBVIOUS
<1>2. TotalFold(f, s)
  BY TotalFoldExists
<1>3. Total(s) = f[1..n]
  BY <1>1, TotalOfFold
<1> HIDE DEF f, n
<1>4. f[1..0] = 0
  BY <1>1, <1>2 DEF TotalFold
<1>5. ASSUME NEW k \in 1..n PROVE f[1..k] = f[1..(k - 1)] + s[k]
  <2>1. f[1..k] = f[(1..k) \ {Max(1..k)}] + s[Max(1..k)]
    BY <1>1, <1>2, AlongIntervals DEF TotalFold
  <2> QED
    BY <1>1, <2>1, AlongIntervals
<1>6. \A k \in 0..n : f[1..k] \in Int
  <2> DEFINE G == {k \in 0..n : f[1..k] \in Int}
  <2>1. 0 \in G
    BY <1>1, <1>4
  <2>2. ASSUME NEW k \in 1..n, k - 1 \in G PROVE k \in G
    BY <1>1, <1>5, <2>2
  <2>3. \A k \in 0..n : k \in G
    <3> HIDE DEF G
    <3> QED
      BY <1>1, <2>1, <2>2, UpTo
  <2> QED
    BY <2>3
<1>7. Sums(h, s)
  <2>1. h \in [0..n -> Int] /\ h[0] = 0 /\ \A k \in 1..n : h[k] = h[k - 1] + s[k]
    <3>1. \A k \in 1..n : k - 1 \in 0..n /\ k \in 0..n
      BY <1>1
    <3>2. 0 \in 0..n
      BY <1>1
    <3> QED
      BY <1>4, <1>5, <1>6, <3>1, <3>2
  <2> QED
    BY <2>1 DEF Sums, n
<1>8. h[n] = f[1..n]
  BY <1>1
<1> QED
  BY <1>3, <1>7, <1>8 DEF n

LEMMA TotalIs ==
    ASSUME NEW s \in Seq(Int), NEW h, Sums(h, s)
    PROVE  Total(s) = h[Len(s)]
<1>1. PICK g : Sums(g, s) /\ Total(s) = g[Len(s)]
  BY TotalAsSums
<1>2. Len(s) \in 0..Len(s)
  OBVIOUS
<1> QED
  BY <1>1, <1>2, SumsAgree

LEMMA TotalType == ASSUME NEW s \in Seq(Int) PROVE Total(s) \in Int
<1>1. PICK g : Sums(g, s) /\ Total(s) = g[Len(s)]
  BY TotalAsSums
<1>2. Len(s) \in 0..Len(s)
  OBVIOUS
<1> QED
  BY <1>1, <1>2 DEF Sums

LEMMA MinusType ==
    ASSUME NEW s \in Seq(Int)
    PROVE  /\ Minus(s) \in Seq(Int) /\ Len(Minus(s)) = Len(s)
           /\ \A k \in 1..Len(s) : Minus(s)[k] = -s[k]
BY DEF Minus

LEMMA TotalOfMinus ==
    ASSUME NEW s \in Seq(Int)
    PROVE  Total(Minus(s)) = -Total(s)
<1>1. PICK h : Sums(h, s) /\ Total(s) = h[Len(s)]
  BY TotalAsSums
<1> DEFINE g == [k \in 0..Len(s) |-> -h[k]]
<1>2. Sums(g, Minus(s))
  <2>1. Len(s) \in Nat /\ 0 \in 0..Len(s)
    OBVIOUS
  <2>2. g \in [0..Len(s) -> Int] /\ g[0] = 0
    BY <1>1, <2>1 DEF Sums
  <2>3. ASSUME NEW k \in 1..Len(s) PROVE g[k] = g[k - 1] + Minus(s)[k]
    <3>1. k \in 0..Len(s) /\ k - 1 \in 0..Len(s) /\ s[k] \in Int
      BY <2>1
    <3>2. h[k] = h[k - 1] + s[k] /\ h[k - 1] \in Int /\ h[k] \in Int
      BY <1>1, <3>1 DEF Sums
    <3>3. g[k] = -h[k] /\ g[k - 1] = -h[k - 1] /\ Minus(s)[k] = -s[k]
      BY <3>1, MinusType
    <3> QED
      BY <3>1, <3>2, <3>3
  <2> QED
    BY <2>2, <2>3, MinusType DEF Sums
<1>3. Len(s) \in 0..Len(s) /\ g[Len(s)] = -h[Len(s)]
  OBVIOUS
<1>4. Total(Minus(s)) = g[Len(s)]
  BY <1>2, MinusType, TotalIs
<1> QED
  BY <1>1, <1>3, <1>4

------------------------------------------------------------------------------
(* Deviations. With S, Q the sums of the entries and of their squares, the *)
(* squared distances of the entries from x add up to Q - 2 x S + n x x,    *)
(* and n Q - S S is never negative.                                        *)

LEMMA ProductsType ==
    ASSUME NEW s \in Seq(Int), NEW t \in Seq(Int), Len(s) = Len(t)
    PROVE  /\ Products(s, t) \in Seq(Int) /\ Len(Products(s, t)) = Len(s)
           /\ \A k \in 1..Len(s) : Products(s, t)[k] = s[k] * t[k]
<1> DEFINE n == Len(s)
<1>1. \A k \in 1..n : s[k] * t[k] \in Int
  OBVIOUS
<1>2. Products(s, t) = [k \in 1..n |-> s[k] * t[k]] /\ n \in Nat
  BY DEF Products
<1> QED
  BY <1>1, <1>2

LEMMA SquareIsNat == ASSUME NEW x \in Int PROVE x * x >= 0
<1>1. CASE x >= 0
  BY <1>1
<1>2. CASE x < 0
  <2>1. x * x = (-x) * (-x) /\ -x > 0
    BY <1>2
  <2> QED
    BY <1>2, <2>1
<1> QED
  BY <1>1, <1>2

LEMMA OneMoreSquare ==
    ASSUME NEW k \in Int, NEW S \in Int, NEW Q \in Int, NEW a \in Int, NEW x \in Int
    PROVE  (Q + a * a) - 2 * (x * (S + a)) + k * (x * x)
               = (Q - 2 * (x * S) + (k - 1) * (x * x)) + (a - x) * (a - x)
OBVIOUS

LEMMA Distances ==
    ASSUME NEW s \in Seq(Int), NEW h, NEW q, Sums(h, s), Sums(q, Products(s, s)), NEW x \in Int
    PROVE  \A k \in 0..Len(s) : q[k] - 2 * (x * h[k]) + k * (x * x) >= 0
<1> DEFINE D(k) == q[k] - 2 * (x * h[k]) + k * (x * x)
           G == {k \in 0..Len(s) : D(k) >= 0}
<1>1. Len(s) \in Nat /\ 0 \in G
  BY ProductsType DEF Sums
<1>2. ASSUME NEW k \in 1..Len(s), k - 1 \in G PROVE k \in G
  <2> DEFINE a == s[k]
             S == h[k - 1]
             Q == q[k - 1]
             d == (a - x) * (a - x)
             e == Q - 2 * (x * S) + (k - 1) * (x * x)
  <2>1. a \in Int /\ k - 1 \in 0..Len(s) /\ k \in Int /\ a - x \in Int
    OBVIOUS
  <2>2. S \in Int /\ Q \in Int /\ h[k] = S + a /\ q[k] = Q + a * a
    BY <2>1, ProductsType DEF Sums
  <2>3. e >= 0 /\ e \in Int
    <3>1. e >= 0
      BY <1>2
    <3>2. e \in Int
      <4> HIDE DEF S, Q
      <4> QED
        BY <2>1, <2>2
    <3> QED
      BY <3>1, <3>2
  <2>4. d >= 0 /\ d \in Int
    BY <2>1, SquareIsNat
  <2>5. (Q + a * a) - 2 * (x * (S + a)) + k * (x * x) = e + d
    <3> HIDE DEF a, S, Q
    <3> QED
      BY <2>1, <2>2, OneMoreSquare
  <2>6. D(k) = e + d
    BY <2>2, <2>5
  <2> HIDE DEF d, e
  <2>7. e + d >= 0
    BY <2>3, <2>4
  <2>8. D(k) >= 0
    BY <2>6, <2>7
  <2> QED
    BY <2>8
<1>3. \A k \in 0..Len(s) : k \in G
  <2> HIDE DEF G
  <2> QED
    BY <1>1, <1>2, UpTo
<1> QED
  BY <1>3

(* n - 1 entries and a last one x. *)
LEMMA OneMoreEntry ==
    ASSUME NEW n \in Int, NEW S \in Int, NEW Q \in Int, NEW x \in Int
    PROVE  /\ n * (Q + x * x) - (S + x) * (S + x)
                = ((n - 1) * Q - S * S) + (Q - 2 * (x * S) + (n - 1) * (x * x))
           /\ (n - 1) * (n * (Q + x * x) - (S + x) * (S + x)) - (n * x - (S + x)) * (n * x - (S + x))
                = n * ((n - 1) * Q - S * S)
OBVIOUS

LEMMA Dispersion ==
    ASSUME NEW s \in Seq(Int), NEW h, NEW q, Sums(h, s), Sums(q, Products(s, s))
    PROVE  \A k \in 0..Len(s) : k * q[k] - h[k] * h[k] >= 0
<1> DEFINE V(k) == k * q[k] - h[k] * h[k]
           G == {k \in 0..Len(s) : V(k) >= 0}
<1>1. Len(s) \in Nat /\ 0 \in G
  BY ProductsType DEF Sums
<1>2. ASSUME NEW k \in 1..Len(s), k - 1 \in G PROVE k \in G
  <2> DEFINE a == s[k]
             S == h[k - 1]
             Q == q[k - 1]
  <2>1. a \in Int /\ k - 1 \in 0..Len(s) /\ k \in Int
    OBVIOUS
  <2>2. S \in Int /\ Q \in Int /\ h[k] = S + a /\ q[k] = Q + a * a
    BY <2>1, ProductsType DEF Sums
  <2>3. Q - 2 * (a * S) + (k - 1) * (a * a) >= 0
    BY <2>1, Distances
  <2>4. (k - 1) * Q - S * S >= 0
    BY <1>2
  <2>5. V(k) = k * (Q + a * a) - (S + a) * (S + a)
    BY <2>2
  <2> DEFINE v == (k - 1) * Q - S * S
             d == Q - 2 * (a * S) + (k - 1) * (a * a)
  <2>a. k * (Q + a * a) - (S + a) * (S + a) = v + d
    <3> HIDE DEF a, S, Q
    <3> QED
      BY <2>1, <2>2, OneMoreEntry
  <2>6. V(k) = v + d
    BY <2>5, <2>a
  <2>7. v \in Int /\ d \in Int /\ v >= 0 /\ d >= 0
    <3> HIDE DEF a, S, Q
    <3> QED
      BY <2>1, <2>2, <2>3, <2>4
  <2> HIDE DEF v, d
  <2>9. v + d >= 0
    BY <2>7
  <2>8. V(k) >= 0
    BY <2>6, <2>9
  <2> HIDE DEF V
  <2> QED
    BY <2>8
<1>3. \A k \in 0..Len(s) : k \in G
  <2> HIDE DEF G
  <2> QED
    BY <1>1, <1>2, UpTo
<1> QED
  BY <1>3

LEMMA VarianceAsSums ==
    ASSUME NEW s \in Seq(Int), NEW h, NEW q, Sums(h, s), Sums(q, Products(s, s))
    PROVE  /\ Variance(s) = Len(s) * q[Len(s)] - h[Len(s)] * h[Len(s)]
           /\ Total(s) = h[Len(s)] /\ h[Len(s)] \in Int /\ q[Len(s)] \in Int
<1>1. Len(s) \in 0..Len(s)
  OBVIOUS
<1>2. Total(s) = h[Len(s)] /\ Total(Products(s, s)) = q[Len(s)]
  BY TotalIs, ProductsType
<1>3. h[Len(s)] \in Int /\ q[Len(s)] \in Int
  BY <1>1, ProductsType DEF Sums
<1> QED
  BY <1>2, <1>3 DEF Variance, Covariance

LEMMA VarianceIsNat == ASSUME NEW s \in Seq(Int) PROVE Variance(s) \in Nat
<1>1. PICK h : Sums(h, s) /\ Total(s) = h[Len(s)]
  BY TotalAsSums
<1>2. PICK q : Sums(q, Products(s, s))
  BY ProductsType, TotalAsSums
<1>3. Len(s) * q[Len(s)] - h[Len(s)] * h[Len(s)] >= 0
  <2>1. Len(s) \in 0..Len(s)
    OBVIOUS
  <2> QED
    BY <1>1, <1>2, <2>1, Dispersion
<1>4. Len(s) * q[Len(s)] - h[Len(s)] * h[Len(s)] \in Int
  BY <1>1, <1>2, VarianceAsSums
<1> QED
  BY <1>1, <1>2, <1>3, <1>4, VarianceAsSums

(* The deviation of the last of n entries from their mean is at most the   *)
(* standard deviation times the root of n - 1.                             *)
LEMMA LastDeviation ==
    ASSUME NEW s \in Seq(Int), Len(s) > 0
    PROVE  LET a == Len(s) * s[Len(s)] - Total(s)
           IN  a \in Int /\ a * a <= (Len(s) - 1) * Variance(s)
<1> DEFINE n == Len(s)
           x == s[n]
           a == n * x - Total(s)
<1>1. PICK h : Sums(h, s) /\ Total(s) = h[n]
  BY TotalAsSums
<1>2. PICK q : Sums(q, Products(s, s))
  BY ProductsType, TotalAsSums
<1>3. n \in Nat /\ n > 0 /\ n \in 1..n /\ n - 1 \in 0..n /\ x \in Int
  OBVIOUS
<1> DEFINE S == h[n - 1]
           Q == q[n - 1]
<1>4. S \in Int /\ Q \in Int /\ h[n] = S + x /\ q[n] = Q + x * x
  BY <1>1, <1>2, <1>3, ProductsType DEF Sums
<1>5. (n - 1) * Q - S * S >= 0
  BY <1>1, <1>2, <1>3, Dispersion
<1>6. Variance(s) = n * (Q + x * x) - (S + x) * (S + x) /\ a = n * x - (S + x)
  BY <1>1, <1>2, <1>4, VarianceAsSums
<1> HIDE DEF S, Q, n, x
<1>7. (n - 1) * Variance(s) - a * a = n * ((n - 1) * Q - S * S)
  BY <1>3, <1>4, <1>6, OneMoreEntry
<1>8. n * ((n - 1) * Q - S * S) >= 0
  <2>1. (n - 1) * Q - S * S \in Nat
    BY <1>3, <1>4, <1>5
  <2> QED
    BY <1>3, <2>1
<1>9. a \in Int /\ (n - 1) * Variance(s) \in Int /\ a * a \in Int
  BY <1>3, <1>4, <1>6
<1>10. a * a <= (n - 1) * Variance(s)
  <2> HIDE DEF a
  <2> QED
    BY <1>7, <1>8, <1>9
<1> QED
  BY <1>9, <1>10 DEF n, x

------------------------------------------------------------------------------
(* Roots and quotients.                                                    *)

LEMMA RootBelow ==
    ASSUME NEW q \in Nat, NEW cap \in Nat
    PROVE  Root(q, cap) \in 0..cap /\ Root(q, cap) * Root(q, cap) <= q
<1>1. CASE q >= cap * cap
  BY <1>1 DEF Root
<1>2. CASE ~(q >= cap * cap)
  <2> DEFINE B == {m \in Nat : q < (m + 1) * (m + 1)}
  <2>1. q \in B /\ B \subseteq Nat
    <3>1. (q + 1) * (q + 1) = q * q + 2 * q + 1 /\ q * q >= 0
      OBVIOUS
    <3> QED
      BY <3>1
  <2>2. PICK m \in B : \A k \in B : m <= k
    <3> HIDE DEF B
    <3> QED
      BY <2>1, LeastNatural
  <2>3. m \in Nat /\ q < (m + 1) * (m + 1)
    OBVIOUS
  <2>4. m * m <= q
    <3>1. CASE m = 0
      BY <3>1
    <3>2. CASE m # 0
      <4>1. m - 1 \in Nat /\ (m - 1) + 1 = m /\ m - 1 \notin B
        BY <2>2, <2>3, <3>2
      <4>2. m * m \in Int /\ ~(q < m * m)
        BY <4>1
      <4> QED
        BY <4>2
    <3> QED
      BY <3>1, <3>2
  <2>5. m <= cap
    <3>1. CASE cap = 0
      BY <1>2, <3>1
    <3>2. CASE cap # 0
      <4>1. cap - 1 \in Nat /\ (cap - 1) + 1 = cap /\ cap * cap \in Int /\ q < cap * cap
        BY <1>2, <3>2
      <4>2. cap - 1 \in B
        BY <4>1
      <4>3. m <= cap - 1
        BY <2>2, <4>2
      <4> QED
        BY <2>3, <4>1, <4>3
    <3> QED
      BY <3>1, <3>2
  <2>6. \E k \in 0..cap : k * k <= q /\ q < (k + 1) * (k + 1)
    BY <2>3, <2>4, <2>5
  <2> DEFINE r == CHOOSE k \in 0..cap : k * k <= q /\ q < (k + 1) * (k + 1)
  <2>7. r \in 0..cap /\ r * r <= q
    BY <2>6
  <2>8. Root(q, cap) = r
    BY <1>2 DEF Root
  <2> HIDE DEF r
  <2> QED
    BY <2>7, <2>8
<1> QED
  BY <1>1, <1>2

LEMMA DivBelow ==
    ASSUME NEW x \in Nat, NEW v \in Nat, v # 0
    PROVE  x \div v \in Nat /\ (x \div v) * v <= x
OBVIOUS

LEMMA Cancel ==
    ASSUME NEW d \in Nat, NEW m \in Nat, NEW v \in Nat, v # 0, d * v <= m * v
    PROVE  d <= m
<1>1. SUFFICES ASSUME d >= m + 1 PROVE FALSE
  OBVIOUS
<1>2. PICK e \in Nat : d = m + 1 + e
  <2>1. d - m - 1 \in Nat /\ d = m + 1 + (d - m - 1)
    BY <1>1
  <2> QED
    BY <2>1
<1>3. d * v = m * v + v + e * v /\ e * v >= 0
  BY <1>2
<1> QED
  BY <1>3

LEMMA SignTimes ==
    ASSUME NEW a \in Int, NEW r \in Nat
    PROVE  Sign(a) * r \in Int /\ (Sign(a) * r) * (Sign(a) * r) <= r * r
<1>1. r * r >= 0
  OBVIOUS
<1>2. CASE a > 0
  <2>1. Sign(a) * r = r
    BY <1>2 DEF Sign
  <2> QED
    BY <2>1
<1>3. CASE a = 0
  <2>1. Sign(a) * r = 0
    BY <1>3 DEF Sign
  <2> QED
    BY <1>1, <2>1
<1>4. CASE a < 0
  <2>1. Sign(a) * r = -r
    BY <1>4 DEF Sign
  <2>2. (-r) * (-r) = r * r
    OBVIOUS
  <2> QED
    BY <2>1, <2>2
<1> QED
  BY <1>2, <1>3, <1>4

LEMMA RatioBound ==
    ASSUME NEW a \in Int, NEW v \in Nat, v # 0, NEW bound \in Nat, NEW m \in Nat, a * a <= m * v
    PROVE  /\ RatioOfRoots(a, v, bound) \in Int
           /\ RatioOfRoots(a, v, bound) * RatioOfRoots(a, v, bound) <= 10000 * m
<1> DEFINE x == 10000 * a * a
           d == x \div v
           r == Root(d, bound)
<1>1. x \in Nat /\ x <= (10000 * m) * v
  <2>1. a * a >= 0 /\ a * a \in Int /\ m * v \in Int
    BY SquareIsNat
  <2>2. x = 10000 * (a * a) /\ (10000 * m) * v = 10000 * (m * v)
    OBVIOUS
  <2> HIDE DEF x
  <2> QED
    BY <2>1, <2>2
<1> HIDE DEF x
<1>2. d \in Nat /\ d * v <= x
  BY <1>1, DivBelow
<1> HIDE DEF d
<1>3. d <= 10000 * m
  <2>1. d * v \in Int /\ (10000 * m) * v \in Int /\ 10000 * m \in Nat
    BY <1>2
  <2>2. d * v <= (10000 * m) * v
    BY <1>1, <1>2, <2>1
  <2> QED
    BY <1>2, <2>1, <2>2, Cancel
<1>4. r \in Nat /\ r * r <= d
  <2>1. r \in 0..bound /\ r * r <= d
    BY <1>2, RootBelow, Zenon
  <2> HIDE DEF r
  <2> QED
    BY <2>1
<1> HIDE DEF r
<1>5. RatioOfRoots(a, v, bound) = Sign(a) * r
  BY DEF RatioOfRoots, r, d, x
<1>6. Sign(a) * r \in Int /\ (Sign(a) * r) * (Sign(a) * r) <= r * r
  BY <1>4, SignTimes
<1> DEFINE z == Sign(a) * r
<1>7. z \in Int /\ z * z <= r * r
  BY <1>6
<1> HIDE DEF z
<1>8. z * z <= 10000 * m
  <2>1. z * z \in Int /\ r * r \in Int
    BY <1>4, <1>7
  <2> QED
    BY <1>2, <1>3, <1>4, <1>7, <2>1
<1> QED
  BY <1>5, <1>7, <1>8 DEF z

(* The z-score of the last entry of a history.                             *)
LEMMA LastZScore ==
    ASSUME NEW s \in Seq(Int), Len(s) > 0, NEW bound \in Nat
    PROVE  LET z == ZScore(s[Len(s)], s, bound)
           IN  z \in Int /\ z * z <= 10000 * (Len(s) - 1)
<1> DEFINE n == Len(s)
           a == n * s[n] - Total(s)
           v == Variance(s)
<1>1. n - 1 \in Nat /\ v \in Nat
  BY VarianceIsNat
<1>2. a \in Int /\ a * a <= (n - 1) * v
  BY LastDeviation
<1>3. ZScore(s[n], s, bound) = RatioOfRoots(a, v, bound)
  BY DEF ZScore
<1> HIDE DEF n, a, v
<1>4. CASE v = 0
  <2>1. RatioOfRoots(a, v, bound) = 0
    BY <1>4 DEF RatioOfRoots
  <2> QED
    BY <1>1, <1>3, <2>1 DEF n
<1>5. CASE v # 0
  <2>1. /\ RatioOfRoots(a, v, bound) \in Int
        /\ RatioOfRoots(a, v, bound) * RatioOfRoots(a, v, bound) <= 10000 * (n - 1)
    BY <1>1, <1>2, <1>5, RatioBound
  <2> QED
    BY <1>3, <2>1 DEF n
<1> QED
  BY <1>4, <1>5

------------------------------------------------------------------------------
(* What is kept of a sequence.                                             *)

KeptFold(f, s, K) ==
    f = [t \in SUBSET DOMAIN s |->
            IF t = {} THEN <<>>
            ELSE IF s[Max(t)] \in K THEN Append(f[t \ {Max(t)}], s[Max(t)]) ELSE f[t \ {Max(t)}]]

LEMMA KeptOfFold == ASSUME NEW s, NEW K PROVE Kept(s, K) = (CHOOSE f : KeptFold(f, s, K))[DOMAIN s]
BY DEF Kept, KeptFold, FoldLeft, MapThenFoldSet

LEMMA KeptFoldExists ==
    ASSUME NEW S, NEW s \in Seq(S), NEW K
    PROVE  \E f : KeptFold(f, s, K)
<1> DEFINE n == Len(s)
           W == Seq(S)
           F == [p \in Nat \X W |->
                    IF p[1] \in 1..n /\ s[p[1]] \in K THEN Append(p[2], s[p[1]]) ELSE p[2]]
<1>1. n \in Nat /\ DOMAIN s = 1..n /\ <<>> \in W /\ \A k \in 1..n : s[k] \in S
  OBVIOUS
<1>2. F \in [Nat \X W -> W]
  <2> SUFFICES ASSUME NEW p \in Nat \X W
               PROVE (IF p[1] \in 1..n /\ s[p[1]] \in K THEN Append(p[2], s[p[1]]) ELSE p[2]) \in W
    OBVIOUS
  <2>1. p[2] \in W /\ \A k \in 1..n : Append(p[2], s[k]) \in W
    BY <1>1
  <2> QED
    BY <2>1
<1>3. ASSUME NEW k \in 1..n, NEW x \in W
      PROVE  F[<<k, x>>] = IF s[k] \in K THEN Append(x, s[k]) ELSE x
  <2>1. <<k, x>> \in Nat \X W
    BY <1>1
  <2> QED
    BY <2>1
<1> HIDE DEF F, n, W
<1>4. PICK f \in [SUBSET (1..n) -> W] : FoldsBy(f, n, <<>>, F)
  BY <1>1, <1>2, FoldsByExists, Zenon
<1>5. ASSUME NEW t \in SUBSET (1..n), t # {}
      PROVE  F[<<Max(t), f[t \ {Max(t)}]>>]
                 = IF s[Max(t)] \in K THEN Append(f[t \ {Max(t)}], s[Max(t)]) ELSE f[t \ {Max(t)}]
  <2>1. Max(t) \in 1..n /\ t \ {Max(t)} \in SUBSET (1..n)
    BY <1>1, <1>5, MaxIn
  <2>2. f[t \ {Max(t)}] \in W
    BY <2>1
  <2> QED
    BY <1>3, <2>1, <2>2, Zenon
<1> DEFINE R(t) == IF s[Max(t)] \in K THEN Append(f[t \ {Max(t)}], s[Max(t)]) ELSE f[t \ {Max(t)}]
<1>6. \A t \in SUBSET (1..n) : t # {} => F[<<Max(t), f[t \ {Max(t)}]>>] = R(t)
  BY <1>5
<1>7. f = [t \in SUBSET (1..n) |-> IF t = {} THEN <<>> ELSE F[<<Max(t), f[t \ {Max(t)}]>>]]
  BY <1>4 DEF FoldsBy
<1>8. f = [t \in SUBSET (1..n) |-> IF t = {} THEN <<>> ELSE R(t)]
  <2> HIDE DEF R
  <2>1. [t \in SUBSET (1..n) |-> IF t = {} THEN <<>> ELSE F[<<Max(t), f[t \ {Max(t)}]>>]]
          = [t \in SUBSET (1..n) |-> IF t = {} THEN <<>> ELSE R(t)]
    BY <1>6, Zenon
  <2> QED
    BY <1>7, <2>1, Zenon
<1>9. KeptFold(f, s, K)
  BY <1>1, <1>8, Zenon DEF KeptFold
<1> QED
  BY <1>9

(* The first k entries, kept.                                              *)
Keeps(h, s, K) ==
    /\ h[0] = <<>>
    /\ \A k \in 1..Len(s) : h[k] = IF s[k] \in K THEN Append(h[k - 1], s[k]) ELSE h[k - 1]

LEMMA KeptAsKeeps ==
    ASSUME NEW S, NEW s \in Seq(S), NEW K
    PROVE  \E h : Keeps(h, s, K) /\ Kept(s, K) = h[Len(s)]
<1> DEFINE n == Len(s)
           f == CHOOSE g : KeptFold(g, s, K)
           h == [k \in 0..n |-> f[1..k]]
<1>1. n \in Nat /\ DOMAIN s = 1..n /\ n \in 0..n /\ 0 \in 0..n
  OBVIOUS
<1>2. KeptFold(f, s, K)
  BY KeptFoldExists
<1>3. Kept(s, K) = f[1..n]
  BY <1>1, KeptOfFold
<1> HIDE DEF f, n
<1>4. f[1..0] = <<>>
  BY <1>1, <1>2 DEF KeptFold
<1>5. ASSUME NEW k \in 1..n
      PROVE  f[1..k] = IF s[k] \in K THEN Append(f[1..(k - 1)], s[k]) ELSE f[1..(k - 1)]
  <2> DEFINE t == 1..k
             m == Max(t)
  <2>1. m = k /\ t \ {m} = 1..(k - 1) /\ t \in SUBSET DOMAIN s /\ t # {}
    BY <1>1, AlongIntervals
  <2>2. f[t] = IF s[m] \in K THEN Append(f[t \ {m}], s[m]) ELSE f[t \ {m}]
    <3> HIDE DEF t
    <3> QED
      BY <1>2, <2>1 DEF KeptFold
  <2> QED
    BY <2>1, <2>2
<1>6. ASSUME NEW k \in 1..n PROVE h[k] = f[1..k] /\ h[k - 1] = f[1..(k - 1)]
  <2>1. k \in 0..n /\ k - 1 \in 0..n
    BY <1>1
  <2> QED
    BY <2>1
<1>7. h[0] = f[1..0] /\ h[n] = f[1..n]
  BY <1>1
<1> HIDE DEF h
<1>8. Keeps(h, s, K)
  BY <1>4, <1>5, <1>6, <1>7 DEF Keeps, n
<1> QED
  BY <1>3, <1>7, <1>8 DEF n

LEMMA KeptType ==
    ASSUME NEW S, NEW s \in Seq(S), NEW K
    PROVE  Kept(s, K) \in Seq(S \cap K) /\ Len(Kept(s, K)) <= Len(s)
<1>1. PICK h : Keeps(h, s, K) /\ Kept(s, K) = h[Len(s)]
  BY KeptAsKeeps
<1> DEFINE W == Seq(S \cap K)
           G == {k \in 0..Len(s) : h[k] \in W /\ Len(h[k]) <= k}
<1>2. Len(s) \in Nat /\ Len(s) \in 0..Len(s)
  OBVIOUS
<1>3. 0 \in G
  <2>1. <<>> \in W /\ Len(<<>>) <= 0
    OBVIOUS
  <2>2. h[0] = <<>> /\ 0 \in 0..Len(s)
    BY <1>1, <1>2 DEF Keeps
  <2> QED
    BY <2>1, <2>2, Zenon
<1>4. ASSUME NEW k \in 1..Len(s), k - 1 \in G PROVE k \in G
  <2>1. h[k - 1] \in W /\ Len(h[k - 1]) <= k - 1 /\ s[k] \in S /\ k \in 0..Len(s)
    BY <1>4
  <2>2. CASE s[k] \in K
    <3>1. h[k] = Append(h[k - 1], s[k]) /\ s[k] \in S \cap K
      BY <1>1, <2>1, <2>2 DEF Keeps
    <3>2. Append(h[k - 1], s[k]) \in W /\ Len(Append(h[k - 1], s[k])) = Len(h[k - 1]) + 1
      BY <2>1, <3>1
    <3>3. Len(h[k - 1]) \in Nat /\ Len(h[k - 1]) + 1 <= k
      BY <2>1
    <3>4. h[k] \in W
      BY <3>1, <3>2, Zenon
    <3>5. Len(h[k]) <= k
      BY <3>1, <3>2, <3>3
    <3> QED
      BY <2>1, <3>4, <3>5, Zenon
  <2>3. CASE s[k] \notin K
    <3>1. h[k] = h[k - 1]
      BY <1>1, <2>3 DEF Keeps
    <3> DEFINE u == h[k - 1]
    <3>2. Len(u) \in Nat /\ u \in W /\ Len(u) <= k - 1
      BY <2>1
    <3> HIDE DEF u, W
    <3>3. u \in W /\ Len(u) <= k
      BY <3>2
    <3>4. h[k] \in W /\ Len(h[k]) <= k
      BY <3>1, <3>3 DEF u
    <3>5. k \in 0..Len(s)
      BY <2>1
    <3> QED
      BY <3>4, <3>5
  <2> QED
    BY <2>2, <2>3
<1>5. \A k \in 0..Len(s) : k \in G
  <2> HIDE DEF G
  <2> QED
    BY <1>2, <1>3, <1>4, UpTo
<1> QED
  BY <1>1, <1>2, <1>5

LEMMA KeptAll ==
    ASSUME NEW S, NEW s \in Seq(S), NEW K, S \subseteq K
    PROVE  Kept(s, K) = s
<1>1. PICK h : Keeps(h, s, K) /\ Kept(s, K) = h[Len(s)]
  BY KeptAsKeeps
<1> DEFINE G == {k \in 0..Len(s) : /\ h[k] \in Seq(S) /\ Len(h[k]) = k
                                   /\ \A i \in 1..k : h[k][i] = s[i]}
<1>2. Len(s) \in Nat /\ Len(s) \in 0..Len(s)
  OBVIOUS
<1>3. 0 \in G
  <2>1. <<>> \in Seq(S) /\ Len(<<>>) = 0 /\ \A i \in 1..0 : FALSE
    OBVIOUS
  <2>2. h[0] = <<>> /\ 0 \in 0..Len(s)
    BY <1>1, <1>2 DEF Keeps
  <2>3. h[0] \in Seq(S) /\ Len(h[0]) = 0 /\ \A i \in 1..0 : h[0][i] = s[i]
    BY <2>1, <2>2, Zenon
  <2> QED
    BY <2>2, <2>3
<1>4. ASSUME NEW k \in 1..Len(s), k - 1 \in G PROVE k \in G
  <2> DEFINE u == h[k - 1]
  <2>1. u \in Seq(S) /\ Len(u) = k - 1 /\ (\A i \in 1..(k - 1) : u[i] = s[i]) /\ s[k] \in S
        /\ k \in 0..Len(s)
    BY <1>4
  <2>2. h[k] = Append(u, s[k])
    BY <1>1, <2>1 DEF Keeps
  <2> HIDE DEF u
  <2>3. /\ Append(u, s[k]) \in Seq(S) /\ Len(Append(u, s[k])) = k
        /\ \A i \in 1..k : Append(u, s[k])[i] = s[i]
    BY <2>1
  <2> QED
    BY <2>1, <2>2, <2>3
<1>5. \A k \in 0..Len(s) : k \in G
  <2> HIDE DEF G
  <2> QED
    BY <1>2, <1>3, <1>4, UpTo
<1>6. LET t == h[Len(s)] IN t \in Seq(S) /\ Len(t) = Len(s) /\ \A i \in 1..Len(s) : t[i] = s[i]
  BY <1>2, <1>5
<1> QED
  BY <1>1, <1>6

LEMMA SanitizeInts == ASSUME NEW s \in Seq(Int) PROVE Sanitize(s) = s
BY KeptAll DEF Sanitize

------------------------------------------------------------------------------
(* Types.                                                                  *)

LEMMA AbsType == ASSUME NEW x \in Int PROVE Abs(x) \in Nat /\ (x # 0 => Abs(x) # 0) /\ Abs(-x) = Abs(x)
BY DEF Abs

LEMMA SignType == ASSUME NEW x \in Int PROVE Sign(x) \in {-1, 0, 1} /\ Sign(-x) = -Sign(x)
BY DEF Sign

LEMMA QuotientType ==
    ASSUME NEW a \in Int, NEW b \in Nat, b # 0
    PROVE  Quotient(a, b) \in Int
<1>1. Abs(a) \in Nat /\ Sign(a) \in Int
  BY AbsType, SignType
<1> DEFINE q == Abs(a) \div b
<1>2. q \in Nat
  BY <1>1, DivBelow
<1>3. Quotient(a, b) = Sign(a) * q
  BY DEF Quotient
<1> HIDE DEF q
<1> QED
  BY <1>1, <1>2, <1>3

LEMMA ReturnType ==
    ASSUME NEW p \in Int, NEW q \in Int, p # 0
    PROVE  Return(p, q) \in Int
<1>1. Abs(p) \in Nat /\ Abs(p) # 0 /\ Sign(p) \in Int /\ 4 * (q - p) \in Int
  BY AbsType, SignType
<1>2. Quotient(4 * (q - p), Abs(p)) \in Int
  BY <1>1, QuotientType
<1> QED
  BY <1>1, <1>2 DEF Return

LEMMA FactorCases ==
    Factors = {"adx_centered", "ema_spread", "macd_hist", "oi_change_pct", "rsi_centered", "vol_zscore"}
BY DEF Factors, FactorNames

LEMMA SnapshotType ==
    ASSUME NEW t \in Ticks
    PROVE  /\ DOMAIN FactorSnapshot(t) \subseteq Factors
           /\ \A f \in DOMAIN FactorSnapshot(t) : FactorSnapshot(t)[f] \in Int
<1>1. ASSUME NEW f \in DOMAIN FactorSnapshot(t) PROVE f \in Factors
  BY DEF FactorSnapshot
<1>2. ASSUME NEW f \in DOMAIN FactorSnapshot(t) PROVE FactorSnapshot(t)[f] \in Int
  <2>1. f \in Factors
    BY <1>1
  <2>2. CASE f = "ema_spread"
    <3>1. t.ema_slow \in Int /\ t.ema_slow # 0 /\ t.ema_fast \in Int
      BY <2>2 DEF FactorSnapshot, Ticks, Real
    <3>2. FactorSnapshot(t)[f] = Quotient(4 * (t.ema_fast - t.ema_slow), Abs(t.ema_slow))
      BY <2>2 DEF FactorSnapshot
    <3>3. Abs(t.ema_slow) \in Nat /\ Abs(t.ema_slow) # 0 /\ 4 * (t.ema_fast - t.ema_slow) \in Int
      BY <3>1, AbsType
    <3> QED
      BY <3>2, <3>3, QuotientType
  <2>3. CASE f = "rsi_centered"
    BY <2>3 DEF FactorSnapshot, Ticks, Real
  <2>4. CASE f = "adx_centered"
    BY <2>4 DEF FactorSnapshot, Ticks, Real
  <2>5. CASE f = "macd_hist"
    BY <2>5 DEF FactorSnapshot, Ticks, Real
  <2>6. CASE f = "oi_change_pct"
    BY <2>6 DEF FactorSnapshot, Ticks, Real
  <2>7. CASE f = "vol_zscore"
    BY <2>7 DEF FactorSnapshot, Ticks, Real
  <2> QED
    BY <2>1, <2>2, <2>3, <2>4, <2>5, <2>6, <2>7, FactorCases
<1> QED
  BY <1>1, <1>2

LEMMA VolatilityType ==
    ASSUME NEW t \in Ticks, Usable(t)
    PROVE  CurrentVolatility(t) \in Real
<1>1. t.vwap \in Int /\ t.vwap # 0 /\ t.atr \in Real /\ t.vol_zscore \in Real
  BY DEF Usable, Ticks, Real
<1>2. CASE t.atr # NaN
  <2>1. Abs(t.atr) \in Nat /\ Abs(t.vwap) \in Nat /\ Abs(t.vwap) # 0
    BY <1>1, <1>2, AbsType DEF Real
  <2>2. 4 * Abs(t.atr) \in Nat
    BY <2>1
  <2>3. (4 * Abs(t.atr)) \div Abs(t.vwap) \in Nat
    BY <2>1, <2>2, DivBelow
  <2>4. CurrentVolatility(t) = (4 * Abs(t.atr)) \div Abs(t.vwap)
    BY <1>2 DEF CurrentVolatility
  <2> QED
    BY <2>3, <2>4 DEF Real
<1>3. CASE t.atr = NaN /\ t.vol_zscore # NaN
  <2>1. Abs(t.vol_zscore) \in Nat
    BY <1>1, <1>3, AbsType DEF Real
  <2>2. CurrentVolatility(t) = 4 * Abs(t.vol_zscore)
    BY <1>3 DEF CurrentVolatility
  <2> QED
    BY <2>1, <2>2 DEF Real
<1>4. CASE t.atr = NaN /\ t.vol_zscore = NaN
  BY <1>4 DEF CurrentVolatility, Real
<1> QED
  BY <1>2, <1>3, <1>4

LEMMA RecentType ==
    ASSUME NEW S, NEW s \in Seq(S), NEW n \in Nat
    PROVE  LET r == Recent(s, n)
           IN  /\ r \in Seq(S) /\ Len(r) = Smaller(Len(s), n)
               /\ \A i \in 1..Len(r) : r[i] = s[Len(s) - Len(r) + i]
<1> DEFINE m == Larger(1, Len(s) - n + 1)
           r == SubSeq(s, m, Len(s))
<1>1. Len(s) \in Nat /\ m \in 1..(Len(s) + 1) /\ m \in Int
  BY DEF Larger
<1>2. /\ r \in Seq(S)
      /\ Len(r) = IF m <= Len(s) THEN Len(s) - m + 1 ELSE 0
      /\ \A i \in 1..(Len(s) - m + 1) : r[i] = s[m + i - 1]
  <2> HIDE DEF m
  <2> QED
    BY <1>1, SubSeqProperties
<1>3. Len(r) = Len(s) - m + 1
  <2> HIDE DEF m, r
  <2> QED
    BY <1>1, <1>2
<1>4. Len(s) - m + 1 = Smaller(Len(s), n)
  <2>1. CASE Len(s) <= n
    <3>1. m = 1 /\ Smaller(Len(s), n) = Len(s)
      BY <1>1, <2>1 DEF Larger, Smaller
    <3> QED
      BY <1>1, <3>1
  <2>2. CASE Len(s) > n
    <3>1. m = Len(s) - n + 1 /\ Smaller(Len(s), n) = n
      BY <1>1, <2>2 DEF Larger, Smaller
    <3> QED
      BY <1>1, <3>1
  <2> QED
    BY <1>1, <2>1, <2>2
<1>5. \A i \in 1..Len(r) : r[i] = s[Len(s) - Len(r) + i]
  <2> HIDE DEF m, r
  <2>1. \A i \in 1..Len(r) : m + i - 1 = Len(s) - Len(r) + i
    BY <1>1, <1>3
  <2> QED
    BY <1>2, <1>3, <2>1
<1> QED
  BY <1>2, <1>3, <1>4, <1>5 DEF Recent

(* push_capped keeps the capacity, and adds no more than one entry.        *)
LEMMA PushCappedType ==
    ASSUME NEW S, NEW s \in Seq(S), NEW x \in S
    PROVE  LET r == PushCapped(s, x)
           IN  /\ r \in Seq(S) /\ Len(r) = Smaller(Len(s) + 1, HistoryCapacity)
               /\ Len(r) > 0 => r[Len(r)] = x
<1> DEFINE a == Append(s, x)
           r == Recent(a, HistoryCapacity)
<1>1. HistoryCapacity \in Nat
  BY EngineAssumption
<1>2. a \in Seq(S) /\ Len(a) = Len(s) + 1 /\ a[Len(a)] = x
  OBVIOUS
<1> HIDE DEF a
<1>3. /\ r \in Seq(S) /\ Len(r) = Smaller(Len(a), HistoryCapacity)
      /\ \A i \in 1..Len(r) : r[i] = a[Len(a) - Len(r) + i]
  BY <1>1, <1>2, RecentType
<1> HIDE DEF r
<1>4. ASSUME Len(r) > 0 PROVE r[Len(r)] = x
  <2>1. Len(r) \in Nat /\ Len(a) \in Nat /\ Len(r) \in 1..Len(r)
    BY <1>2, <1>3, <1>4
  <2>2. Len(a) - Len(r) + Len(r) = Len(a)
    BY <2>1
  <2> QED
    BY <1>2, <1>3, <2>1, <2>2
<1>5. r = PushCapped(s, x)
  BY DEF PushCapped, r, a
<1> QED
  BY <1>2, <1>3, <1>4, <1>5

(* The memory of a symbol.                                                 *)
StateOk(st) ==
    /\ st.last_vwap \in Real \ {0}
    /\ DOMAIN st.pending \subseteq Factors
    /\ \A f \in DOMAIN st.pending : st.pending[f] \in Int
    /\ st.returns \in Seq(Int) /\ Len(st.returns) <= HistoryCapacity
    /\ st.volatilities \in Seq(Int) /\ Len(st.volatilities) <= HistoryCapacity
    /\ DOMAIN st.histories \subseteq Factors
    /\ \A f \in DOMAIN st.histories :
          st.histories[f] \in Seq(Int) /\ Len(st.histories[f]) <= Len(st.returns)

LEMMA NewStateOk == StateOk(NewState)
<1>1. HistoryCapacity \in Nat /\ NaN \notin Int
  BY EngineAssumption, ModelAssumption
<1>2. DOMAIN <<>> = {} /\ <<>> \in Seq(Int) /\ Len(<<>>) = 0
  OBVIOUS
<1> QED
  BY <1>1, <1>2 DEF StateOk, NewState, Real

LEMMA VolatilitiesOk ==
    ASSUME NEW s \in Seq(Int), Len(s) <= HistoryCapacity, NEW vol \in Real
    PROVE  LET r == PushVolatility(s, vol)
           IN  /\ r \in Seq(Int) /\ Len(r) <= HistoryCapacity
               /\ vol # NaN /\ Len(r) > 0 => r[Len(r)] = vol
<1>1. HistoryCapacity \in Nat
  BY EngineAssumption
<1>2. CASE vol = NaN
  BY <1>2 DEF PushVolatility
<1>3. CASE vol # NaN
  <2>1. vol \in Int /\ PushVolatility(s, vol) = PushCapped(s, vol)
    BY <1>3 DEF PushVolatility, Real
  <2> DEFINE r == PushCapped(s, vol)
  <2>2. /\ r \in Seq(Int) /\ Len(r) = Smaller(Len(s) + 1, HistoryCapacity)
        /\ Len(r) > 0 => r[Len(r)] = vol
    BY <2>1, PushCappedType
  <2> HIDE DEF r
  <2>3. Len(s) \in Nat /\ Smaller(Len(s) + 1, HistoryCapacity) <= HistoryCapacity
    BY <1>1 DEF Smaller
  <2>4. r = PushVolatility(s, vol)
    BY <2>1 DEF r
  <2> QED
    BY <2>2, <2>3, <2>4
<1> QED
  BY <1>2, <1>3

(* The histories after one more tick.                                      *)
LEMMA HistoriesOk ==
    ASSUME NEW h, NEW factors, NEW n \in Nat,
           DOMAIN h \subseteq Factors, DOMAIN factors \subseteq Factors,
           \A f \in DOMAIN h : h[f] \in Seq(Int) /\ Len(h[f]) <= n,
           \A f \in DOMAIN factors : factors[f] \in Int,
           n <= HistoryCapacity
    PROVE  LET g == PushAll(h, factors)
           IN  /\ DOMAIN g \subseteq Factors
               /\ \A f \in DOMAIN g :
                     g[f] \in Seq(Int) /\ Len(g[f]) <= Smaller(n + 1, HistoryCapacity)
<1> DEFINE m == Smaller(n + 1, HistoryCapacity)
<1>1. HistoryCapacity \in Nat
  BY EngineAssumption
<1>2. m \in Nat /\ n <= m
  BY <1>1 DEF Smaller
<1>3. ASSUME NEW s \in Seq(Int), Len(s) <= n, NEW x \in Int
      PROVE  PushCapped(s, x) \in Seq(Int) /\ Len(PushCapped(s, x)) <= m
  <2> DEFINE r == PushCapped(s, x)
  <2>1. r \in Seq(Int) /\ Len(r) = Smaller(Len(s) + 1, HistoryCapacity)
    BY PushCappedType
  <2> HIDE DEF r
  <2>2. Len(s) \in Nat /\ Smaller(Len(s) + 1, HistoryCapacity) <= m
    BY <1>1, <1>3 DEF Smaller
  <2>3. r \in Seq(Int) /\ Len(r) <= m
    BY <2>1, <2>2
  <2> QED
    BY <2>3 DEF r
<1>4. DOMAIN PushAll(h, factors) = DOMAIN h \union DOMAIN factors
  BY DEF PushAll
<1>5. ASSUME NEW f \in DOMAIN PushAll(h, factors)
      PROVE  PushAll(h, factors)[f] \in Seq(Int) /\ Len(PushAll(h, factors)[f]) <= m
  <2> DEFINE s == IF f \in DOMAIN h THEN h[f] ELSE <<>>
  <2>1. CASE f \notin DOMAIN factors
    <3>1. PushAll(h, factors)[f] = h[f] /\ f \in DOMAIN h
      BY <1>4, <2>1 DEF PushAll
    <3>2. h[f] \in Seq(Int) /\ Len(h[f]) <= n
      BY <3>1
    <3> HIDE DEF m
    <3>3. Len(h[f]) <= m
      BY <1>2, <3>2
    <3> QED
      BY <3>1, <3>2, <3>3
  <2>2. CASE f \in DOMAIN factors
    <3>1. PushAll(h, factors)[f] = PushCapped(s, factors[f])
      BY <1>4, <2>2 DEF PushAll
    <3>2. s \in Seq(Int) /\ Len(s) <= n /\ factors[f] \in Int
      <4>1. <<>> \in Seq(Int) /\ Len(<<>>) <= n
        OBVIOUS
      <4> QED
        BY <2>2, <4>1
    <3> HIDE DEF s, m
    <3> QED
      BY <1>3, <3>1, <3>2
  <2> QED
    BY <2>1, <2>2
<1> QED
  BY <1>4, <1>5

LEMMA TakeInOk ==
    ASSUME NEW st, StateOk(st), NEW t \in Ticks, Usable(t)
    PROVE  /\ StateOk(TakeIn(st, t))
           /\ LET v == TakeIn(st, t).volatilities
              IN  CurrentVolatility(t) # NaN /\ Len(v) > 0 => v[Len(v)] = CurrentVolatility(t)
<1> DEFINE v == PushVolatility(st.volatilities, CurrentVolatility(t))
           r == Return(st.last_vwap, t.vwap)
           h == PushAll(st.histories, st.pending)
<1>1. HistoryCapacity \in Nat /\ NaN \notin Int
  BY EngineAssumption, ModelAssumption
<1>2. t.vwap \in Int \ {0}
  BY DEF Usable, Ticks, Real
<1>3. /\ v \in Seq(Int) /\ Len(v) <= HistoryCapacity
      /\ CurrentVolatility(t) # NaN /\ Len(v) > 0 => v[Len(v)] = CurrentVolatility(t)
  BY VolatilityType, VolatilitiesOk DEF StateOk
<1>4. /\ DOMAIN FactorSnapshot(t) \subseteq Factors
      /\ \A f \in DOMAIN FactorSnapshot(t) : FactorSnapshot(t)[f] \in Int
  BY SnapshotType
<1>5. TakeIn(st, t).volatilities = v /\ TakeIn(st, t).last_vwap = t.vwap
      /\ TakeIn(st, t).pending = FactorSnapshot(t)
  BY DEF TakeIn
<1>6. CASE st.last_vwap = NaN
  <2>1. TakeIn(st, t).returns = <<>> /\ TakeIn(st, t).histories = <<>>
    BY <1>6 DEF TakeIn
  <2>2. DOMAIN <<>> = {} /\ <<>> \in Seq(Int) /\ Len(<<>>) = 0
    OBVIOUS
  <2> HIDE DEF v
  <2> QED
    BY <1>1, <1>2, <1>3, <1>4, <1>5, <2>1, <2>2 DEF StateOk, Real
<1>7. CASE st.last_vwap # NaN
  <2> DEFINE q == PushCapped(st.returns, r)
  <2>1. TakeIn(st, t).returns = q /\ TakeIn(st, t).histories = h
    BY <1>7 DEF TakeIn
  <2>2. r \in Int
    BY <1>2, <1>7, ReturnType DEF StateOk, Real
  <2>3. st.returns \in Seq(Int) /\ Len(st.returns) \in Nat /\ Len(st.returns) <= HistoryCapacity
    BY DEF StateOk
  <2>4. q \in Seq(Int) /\ Len(q) = Smaller(Len(st.returns) + 1, HistoryCapacity)
    BY <2>2, <2>3, PushCappedType
  <2>5. Smaller(Len(st.returns) + 1, HistoryCapacity) <= HistoryCapacity
    BY <1>1, <2>3 DEF Smaller
  <2>6. /\ DOMAIN h \subseteq Factors
        /\ \A f \in DOMAIN h :
              h[f] \in Seq(Int) /\ Len(h[f]) <= Smaller(Len(st.returns) + 1, HistoryCapacity)
    BY <2>3, HistoriesOk DEF StateOk
  <2> HIDE DEF v, q, h
  <2> QED
    BY <1>1, <1>2, <1>3, <1>4, <1>5, <2>1, <2>4, <2>5, <2>6 DEF StateOk, Real
<1> QED
  BY <1>6, <1>7

------------------------------------------------------------------------------
(* The process.                                                            *)

(* The counters, and what is being handled.                                *)
Counted ==
    /\ feed \in Seq(Ticks)
    /\ end \in 0 .. Len(feed) /\ pos \in 0 .. end /\ committed \in {NoOffset} \union 0 .. end
    /\ faults \in 0 .. MaxFaults /\ crashes \in 0 .. MaxCrashes
    /\ step \in {"down", "recv", "persist", "log", "publish"}
    /\ IF step \in {"down", "recv"} THEN signal = NoSignal
       ELSE signal.offset = pos /\ pos # 0

Memories ==
    /\ DOMAIN states = Symbols
    /\ \A s \in Symbols : StateOk(states[s])

IInv == Counted /\ Memories

LEMMA InitIInv == Init => IInv
<1> SUFFICES ASSUME Init PROVE IInv
  OBVIOUS
<1>1. {MaxFaults, MaxCrashes} \subseteq Nat /\ feed \in Seq(Ticks)
  BY EngineAssumption DEF Init
<1>2. 0 \in 0 .. 0 /\ 0 \in 0 .. Len(feed) /\ 0 \in 0 .. MaxFaults /\ 0 \in 0 .. MaxCrashes
  BY <1>1
<1>3. Counted
  BY <1>1, <1>2 DEF Counted, Init
<1>4. Memories
  BY NewStateOk DEF Memories, Init
<1> QED
  BY <1>3, <1>4 DEF IInv

(* A tick taken in.                                                        *)
LEMMA ReceiveMemory ==
    ASSUME IInv, Receive
    PROVE  LET t == feed[pos + 1]
               st == TakeIn(states[t.symbol], t)
           IN  /\ pos + 1 \in 1 .. Len(feed) /\ t \in Ticks /\ t.symbol \in Symbols
               /\ states' = [states EXCEPT ![t.symbol] = st] /\ states'[t.symbol] = st
               /\ StateOk(st)
               /\ LET v == st.volatilities
                  IN  CurrentVolatility(t) # NaN /\ Len(v) > 0 => v[Len(v)] = CurrentVolatility(t)
<1> DEFINE t == feed[pos + 1]
           st == TakeIn(states[t.symbol], t)
<1>1. pos \in Nat /\ end \in Nat /\ end <= Len(feed) /\ pos < end /\ feed \in Seq(Ticks)
  BY DEF IInv, Counted, Receive
<1>2. pos + 1 \in 1 .. Len(feed)
  BY <1>1
<1>3. t \in Ticks
  BY <1>1, <1>2
<1>4. t.symbol \in Symbols
  BY <1>3 DEF Ticks
<1>5. states' = [states EXCEPT ![t.symbol] = st] /\ Usable(t)
  BY DEF Receive, Observe
<1>6. StateOk(states[t.symbol]) /\ t.symbol \in DOMAIN states
  BY <1>4 DEF IInv, Memories
<1> HIDE DEF t
<1>7. states'[t.symbol] = st
  BY <1>5, <1>6
<1>8. /\ StateOk(st)
      /\ LET v == st.volatilities
         IN  CurrentVolatility(t) # NaN /\ Len(v) > 0 => v[Len(v)] = CurrentVolatility(t)
  BY <1>3, <1>5, <1>6, TakeInOk
<1> QED
  BY <1>2, <1>3, <1>4, <1>5, <1>7, <1>8 DEF t

LEMMA NextMemories == IInv /\ [Next]_vars => Memories'
<1> SUFFICES ASSUME IInv, [Next]_vars PROVE Memories'
  OBVIOUS
<1>1. CASE Receive
  <2> DEFINE t == feed[pos + 1]
             st == TakeIn(states[t.symbol], t)
  <2>1. t.symbol \in Symbols /\ states' = [states EXCEPT ![t.symbol] = st] /\ StateOk(st)
    BY <1>1, ReceiveMemory
  <2> HIDE DEF st
  <2>2. DOMAIN states = Symbols /\ \A s \in Symbols : StateOk(states[s])
    BY DEF IInv, Memories
  <2>3. DOMAIN states' = Symbols
    BY <2>1, <2>2
  <2>4. ASSUME NEW s \in Symbols PROVE StateOk(states'[s])
    <3>1. states'[s] = IF s = t.symbol THEN st ELSE states[s]
      BY <2>1, <2>2
    <3> QED
      BY <2>1, <2>2, <3>1
  <2> QED
    BY <2>3, <2>4 DEF Memories
<1>2. CASE Crash
  BY <1>2, NewStateOk DEF Memories, Crash
<1>3. CASE UNCHANGED states
  BY <1>3 DEF IInv, Memories
<1>4. Receive \/ Crash \/ UNCHANGED states
  BY DEF Next, Engine, Start, Skip, Persist, WriteStratLog, Publish, Produce, AutoCommit, vars
<1> QED
  BY <1>1, <1>2, <1>3, <1>4

LEMMA NextCounted == IInv /\ [Next]_vars => Counted'
<1> SUFFICES ASSUME IInv, [Next]_vars PROVE Counted'
  OBVIOUS
<1>1. /\ {MaxFaults, MaxCrashes} \subseteq Nat /\ NoOffset = -1
      /\ feed \in Seq(Ticks) /\ Len(feed) \in Nat /\ end \in Nat /\ pos \in Nat /\ faults \in Nat
      /\ crashes \in Nat /\ NoSignal.offset = 0
  BY EngineAssumption DEF IInv, Counted, NoOffset, NoSignal
<1>2. Counted
  BY DEF IInv
<1>3. CASE Produce
  BY <1>1, <1>2, <1>3 DEF Counted, Produce
<1>4. CASE Start
  BY <1>1, <1>2, <1>4 DEF Counted, Start
<1>5. CASE Skip
  BY <1>1, <1>2, <1>5 DEF Counted, Skip
<1>6. CASE Receive
  <2> DEFINE t == feed[pos + 1]
             st == TakeIn(states[t.symbol], t)
  <2>1. /\ pos < end /\ pos' = pos + 1
        /\ UNCHANGED <<cfg, feed, end, committed, faults, crashes, tables>>
        /\ Compute(FactorInputs(st), st, t)
    BY <1>6 DEF Receive, Observe
  <2> HIDE DEF st, t
  <2>2. IF step' \in {"down", "recv"} THEN signal' = NoSignal
        ELSE signal'.offset = pos + 1 /\ step' = "persist"
    BY <2>1 DEF Compute, SignalRecord
  <2>3. step' \in {"down", "recv", "persist", "log", "publish"}
    BY <2>1 DEF Compute
  <2> QED
    BY <1>1, <1>2, <2>1, <2>2, <2>3 DEF Counted
<1>7. CASE Persist
  BY <1>1, <1>2, <1>7 DEF Counted, Persist, Fails
<1>8. CASE WriteStratLog
  BY <1>1, <1>2, <1>8 DEF Counted, WriteStratLog, Fails
<1>9. CASE Publish
  BY <1>1, <1>2, <1>9 DEF Counted, Publish, Fails
<1>10. CASE AutoCommit
  BY <1>1, <1>2, <1>10 DEF Counted, AutoCommit
<1>11. CASE Crash
  BY <1>1, <1>2, <1>11 DEF Counted, Crash
<1>12. CASE UNCHANGED vars
  BY <1>2, <1>12 DEF Counted, vars
<1> QED
  BY <1>3, <1>4, <1>5, <1>6, <1>7, <1>8, <1>9, <1>10, <1>11, <1>12 DEF Next, Engine

(* Of the counters and of every symbol's memory: the offsets, the record   *)
(* in hand and that all a symbol's histories stay finite, typed and within *)
(* the capacity, none of a factor longer than that of the returns.         *)
THEOREM Invariant == Spec => []IInv
<1>1. IInv /\ [Next]_vars => IInv'
  BY NextMemories, NextCounted DEF IInv
<1> QED
  BY InitIInv, <1>1, PTL DEF Spec

(* Every history keeps to its capacity, and no factor has more of it than  *)
(* there are returns, of any number of symbols, factors and ticks          *)
(* (push_capped, main.rs:444-449, and the pairing of main.rs:184-202).     *)
THEOREM TypeCorrect == Spec => []TypeOK
<1>1. IInv => TypeOK
  <2> SUFFICES ASSUME IInv PROVE TypeOK
    OBVIOUS
  <2>1. NoSignal.offset = 0
    BY DEF NoSignal
  <2>2. /\ end \in 0 .. Len(feed) /\ pos \in 0 .. end /\ committed \in {NoOffset} \union 0 .. end
        /\ faults \in 0 .. MaxFaults /\ crashes \in 0 .. MaxCrashes
        /\ step \in {"down", "recv", "persist", "log", "publish"}
        /\ step \in {"down", "recv"} <=> signal = NoSignal
    BY <2>1 DEF IInv, Counted
  <2>3. \A s \in Symbols :
          /\ states[s].returns \in Seq(Int) /\ states[s].volatilities \in Seq(Int)
          /\ Len(states[s].returns) <= HistoryCapacity
          /\ Len(states[s].volatilities) <= HistoryCapacity
          /\ \A f \in DOMAIN states[s].histories :
                Len(states[s].histories[f]) <= Len(states[s].returns)
    BY DEF IInv, Memories, StateOk
  <2> QED
    BY <2>2, <2>3 DEF TypeOK
<1> QED
  BY Invariant, <1>1, PTL

------------------------------------------------------------------------------
(* The volatility gate.                                                    *)

(* The reasons of an answer are those of the two gates and those of having *)
(* nothing to weigh.                                                       *)
LEMMA ReasonsOfSignal ==
    ASSUME NEW factors, NEW mode, NEW regimeGate, NEW volGate
    PROVE  BuildZscoreSignal(factors, mode, regimeGate, volGate).reasons
             \subseteq {regimeGate, volGate, "no_factors", "no_valid_factors_after_filters",
                        "all_factor_weights_zero"}
<1> DEFINE prepared == [i \in DOMAIN factors |-> PrepareFactor(i, factors[i])]
           ranked == Ranked(prepared)
           reasons == {regimeGate, volGate} \ {""}
           reference == Reference(factors, ranked)
           raw == [r \in DOMAIN ranked |->
                      RawWeight(mode, Larger(ranked[r].weight, 0), Abs(ranked[r].correlation), r)]
           contribution == [r \in DOMAIN ranked |-> ranked[r].sign * ranked[r].zscore]
           answer == BuildZscoreSignal(factors, mode, regimeGate, volGate)
<1>1. CASE factors = <<>>
  <2>1. answer.reasons = {"no_factors"}
    BY <1>1 DEF BuildZscoreSignal, NoFactors
  <2> QED
    BY <2>1
<1>2. CASE factors # <<>>
  <2>1. answer = Signal(prepared, ranked, reasons, reference, raw, contribution)
    BY <1>2, Zenon DEF BuildZscoreSignal, Rank, Judge, Combine
  <2> HIDE DEF answer, prepared, ranked, reference, raw, contribution
  <2>2. answer.reasons \subseteq reasons \union {"no_valid_factors_after_filters",
                                                 "all_factor_weights_zero"}
    <3>1. ASSUME NEW r, NEW x, NEW y, NEW z
          PROVE  Result(prepared, ranked, r, x, y, z).reasons = r
      BY DEF Result
    <3>2. CASE Total(raw) = 0
      <4> DEFINE more == {IF ranked = <<>> THEN "no_valid_factors_after_filters"
                          ELSE "all_factor_weights_zero"}
                 weighed == Products(raw, contribution)
      <4>1. answer = Result(prepared, ranked, reasons \union more, reference, 0, weighed)
        BY <2>1, <3>2, Zenon DEF Signal
      <4> HIDE DEF more, weighed
      <4>2. answer.reasons = reasons \union more
        BY <3>1, <4>1
      <4> QED
        BY <4>2 DEF more
    <3>3. CASE Total(raw) # 0
      <4> DEFINE said == IF reasons = {}
                         THEN Quotient(Total(Products(raw, contribution)), Total(raw)) ELSE 0
                 weighed == Products(raw, contribution)
      <4>1. answer = Result(prepared, ranked, reasons, reference, said, weighed)
        BY <2>1, <3>3, Zenon DEF Signal
      <4> HIDE DEF said, weighed
      <4>2. answer.reasons = reasons
        BY <3>1, <4>1
      <4> QED
        BY <4>2
    <3> QED
      BY <3>2, <3>3
  <2> QED
    BY <2>2 DEF answer
<1> QED
  BY <1>1, <1>2

LEMMA RegimeReasons ==
    ASSUME NEW enabled, NEW regime
    PROVE  RegimeGate(enabled, regime) # "vol_z_out_of_range"
BY DEF RegimeGate

(* What a z-score out of the limits says of the number of entries.         *)
LEMMA OutOfLimits ==
    ASSUME NEW z \in Int, NEW q \in Int, z * z <= q, NEW low \in Int, NEW high \in Int,
           low <= 0, 0 <= high, z \notin low .. high
    PROVE  LET limit == Smaller(Abs(low), Abs(high)) IN q >= limit * limit
<1> DEFINE limit == Smaller(Abs(low), Abs(high))
           y == Abs(z)
<1>1. limit \in Nat /\ limit <= -low /\ limit <= high
  BY DEF Abs, Smaller
<1>2. y \in Nat /\ y * y = z * z
  BY DEF Abs
<1>3. limit <= y
  BY <1>1 DEF Abs
<1> HIDE DEF limit, y
<1>4. limit * limit <= limit * y
  BY <1>1, <1>2, <1>3
<1>5. limit * y <= y * y
  BY <1>1, <1>2, <1>3
<1>6. limit * limit \in Int /\ limit * y \in Int /\ y * y \in Int /\ z * z \in Int
  BY <1>1, <1>2
<1>7. q >= limit * limit
  BY <1>2, <1>4, <1>5, <1>6
<1> QED
  BY <1>7 DEF limit

LEMMA GateBound ==
    ASSUME VolMinZ <= 0, 0 <= VolMaxZ,
           NEW s \in Seq(Int), NEW enabled, NEW vol, vol # NaN,
           Len(s) > 0 => s[Len(s)] = vol,
           VolGate(enabled, s, vol) = "vol_z_out_of_range"
    PROVE  LET limit == Smaller(Abs(VolMinZ), Abs(VolMaxZ))
           IN  10000 * (Len(s) - 1) >= limit * limit
<1>1. VolMinZ \in Int /\ VolMaxZ \in Int
  BY ModelAssumption
<1>2. VolGate(enabled, s, vol) = GateOn(s, vol)
  BY SanitizeInts DEF VolGate
<1>3. Len(s) >= 2 /\ ZScore(vol, s, 10000) \notin VolMinZ .. VolMaxZ
  BY <1>2 DEF GateOn
<1> DEFINE z == ZScore(s[Len(s)], s, 10000)
<1>4. Len(s) \in Nat /\ Len(s) > 0 /\ s[Len(s)] = vol
  BY <1>3
<1>5. z \in Int /\ z * z <= 10000 * (Len(s) - 1)
  BY <1>4, LastZScore, SMTT(30)
<1>6. z \notin VolMinZ .. VolMaxZ
  BY <1>3, <1>4
<1> HIDE DEF z
<1>7. 10000 * (Len(s) - 1) \in Int
  BY <1>4
<1> QED
  BY <1>1, <1>5, <1>6, <1>7, OutOfLimits

(* For all ticks, any capacity and any limits that admit a z-score of 0, as *)
(* the defaults of 2.5 on either side do: the gate rejects only with as     *)
(* many entries as its limits call for. With limits on one side of 0 it     *)
(* also rejects a history that does not vary (main.rs:181, 212-230,         *)
(* zscore_model.rs:574-626).                                                *)
THEOREM GateTakesHistory ==
    ASSUME VolMinZ <= 0, 0 <= VolMaxZ
    PROVE  Spec => []GateNeedsHistory
<1>1. Init => GateNeedsHistory
  BY DEF Init, GateNeedsHistory, Handling
<1>2. IInv /\ GateNeedsHistory /\ [Next]_vars => GateNeedsHistory'
  <2> SUFFICES ASSUME IInv, GateNeedsHistory, [Next]_vars PROVE GateNeedsHistory'
    OBVIOUS
  <2>1. CASE Receive
    <3> DEFINE t == feed[pos + 1]
               st == TakeIn(states[t.symbol], t)
               v == st.volatilities
               inputs == FactorInputs(st)
               limit == Smaller(Abs(VolMinZ), Abs(VolMaxZ))
    <3> SUFFICES ASSUME step' = "persist", CurrentVolatility(Tick') # NaN,
                        "vol_z_out_of_range" \in signal'.result.reasons
                 PROVE  10000 * (Len(Memory'.volatilities) - 1) >= limit * limit
      BY DEF GateNeedsHistory, Handling
    <3>1. /\ t.symbol \in Symbols /\ states'[t.symbol] = st /\ StateOk(st)
          /\ CurrentVolatility(t) # NaN /\ Len(v) > 0 => v[Len(v)] = CurrentVolatility(t)
      BY <2>1, ReceiveMemory
    <3>2. Tick' = t /\ Memory' = st
      BY <2>1, <3>1 DEF Tick, Memory, Receive
    <3>3. Compute(inputs, st, t)
      BY <2>1 DEF Receive, Observe
    <3> HIDE DEF t, st, inputs
    <3>4. signal'.result = Answer(inputs, st, t)
      BY <3>3 DEF Compute, SignalRecord
    <3> DEFINE regimeGate == RegimeGate(cfg.regime_filter, RegimeLabel(t.regime))
               volGate == VolGate(cfg.vol_filter, v, CurrentVolatility(t))
    <3>5. volGate = "vol_z_out_of_range"
      <4>1. Answer(inputs, st, t) = BuildZscoreSignal(inputs, cfg.weight_mode, regimeGate, volGate)
        BY DEF Answer
      <4>2. regimeGate # "vol_z_out_of_range"
        BY RegimeReasons
      <4> HIDE DEF regimeGate, volGate
      <4>3. BuildZscoreSignal(inputs, cfg.weight_mode, regimeGate, volGate).reasons
              \subseteq {regimeGate, volGate, "no_factors", "no_valid_factors_after_filters",
                         "all_factor_weights_zero"}
        BY ReasonsOfSignal
      <4> QED
        BY <3>4, <4>1, <4>2, <4>3
    <3>6. v \in Seq(Int) /\ CurrentVolatility(t) # NaN
          /\ (Len(v) > 0 => v[Len(v)] = CurrentVolatility(t))
      BY <3>1, <3>2 DEF StateOk
    <3> HIDE DEF v
    <3>7. 10000 * (Len(v) - 1) >= limit * limit
      BY <3>5, <3>6, GateBound
    <3> QED
      BY <3>2, <3>7 DEF v
  <2>2. CASE step' # "persist"
    BY <2>2 DEF GateNeedsHistory, Handling
  <2>3. CASE UNCHANGED <<feed, pos, states, signal, step>>
    BY <2>3 DEF GateNeedsHistory, Handling, Tick, Memory
  <2>4. Receive \/ step' # "persist" \/ UNCHANGED <<feed, pos, states, signal, step>>
    BY DEF Next, Engine, Start, Skip, Persist, WriteStratLog, Publish, Produce, AutoCommit, Crash,
           vars
  <2> QED
    BY <2>1, <2>2, <2>3, <2>4
<1> QED
  BY Invariant, <1>1, <1>2, PTL DEF Spec

------------------------------------------------------------------------------
(* Turned round: every entry of a series multiplied by 1 or by -1.         *)

Units == {-1, 1}
Times(k, s) == [i \in DOMAIN s |-> k * s[i]]

LEMMA UnitArithmetic ==
    ASSUME NEW j \in Units, NEW k \in Units, NEW x \in Int, NEW y \in Int
    PROVE  /\ j * x \in Int /\ j * k \in Units /\ j * j = 1
           /\ (j * x) * (k * y) = (j * k) * (x * y)
           /\ (j * x) * (j * x) = x * x
           /\ Abs(j * x) = Abs(x) /\ Sign(j * x) = j * Sign(x)
           /\ j * x = 0 <=> x = 0
<1>1. j = 1 \/ j = -1
  BY DEF Units
<1>2. k = 1 \/ k = -1
  BY DEF Units
<1>3. x * y \in Int /\ x * x \in Int /\ (-x) * y = -(x * y) /\ x * (-y) = -(x * y)
      /\ (-x) * (-y) = x * y /\ (-x) * (-x) = x * x
  OBVIOUS
<1>4. CASE j = 1 /\ k = 1
  <2>1. j * x = x /\ k * y = y /\ j * k = 1 /\ j * j = 1 /\ j * Sign(x) = Sign(x)
    BY <1>4, SignType
  <2> QED
    BY <1>3, <2>1 DEF Units
<1>5. CASE j = 1 /\ k = -1
  <2>1. j * x = x /\ k * y = -y /\ j * k = -1 /\ j * j = 1 /\ j * Sign(x) = Sign(x)
    BY <1>5, SignType
  <2> QED
    BY <1>3, <2>1 DEF Units
<1>6. CASE j = -1 /\ k = 1
  <2>1. j * x = -x /\ k * y = y /\ j * k = -1 /\ j * j = 1 /\ j * Sign(x) = -Sign(x)
    BY <1>6, SignType
  <2>2. Abs(-x) = Abs(x) /\ Sign(-x) = -Sign(x) /\ -x \in Int
    BY AbsType, SignType
  <2> QED
    BY <1>3, <2>1, <2>2 DEF Units
<1>7. CASE j = -1 /\ k = -1
  <2>1. j * x = -x /\ k * y = -y /\ j * k = 1 /\ j * j = 1 /\ j * Sign(x) = -Sign(x)
    BY <1>7, SignType
  <2>2. Abs(-x) = Abs(x) /\ Sign(-x) = -Sign(x) /\ -x \in Int
    BY AbsType, SignType
  <2> QED
    BY <1>3, <2>1, <2>2 DEF Units
<1> QED
  BY <1>1, <1>2, <1>4, <1>5, <1>6, <1>7

LEMMA UnitTimes ==
    ASSUME NEW k \in Units, NEW x \in Int
    PROVE  k * x \in Int /\ Abs(k * x) = Abs(x) /\ Sign(k * x) = k * Sign(x)
<1>1. CASE k = 1
  <2>1. k * x = x /\ k * Sign(x) = Sign(x)
    BY <1>1, SignType
  <2> QED
    BY <2>1
<1>2. CASE k = -1
  <2>1. k * x = -x /\ k * Sign(x) = -Sign(x)
    BY <1>2, SignType
  <2>2. Abs(-x) = Abs(x) /\ Sign(-x) = -Sign(x) /\ -x \in Int
    BY AbsType, SignType
  <2> QED
    BY <2>1, <2>2
<1> QED
  BY <1>1, <1>2 DEF Units

LEMMA TimesType ==
    ASSUME NEW k \in Units, NEW s \in Seq(Int)
    PROVE  /\ Times(k, s) \in Seq(Int) /\ Len(Times(k, s)) = Len(s)
           /\ \A i \in 1..Len(s) : Times(k, s)[i] = k * s[i]
<1>1. \A i \in 1..Len(s) : k * s[i] \in Int
  BY UnitArithmetic DEF Units
<1>2. Times(k, s) = [i \in 1..Len(s) |-> k * s[i]] /\ Len(s) \in Nat
  BY DEF Times
<1> QED
  BY <1>1, <1>2

LEMMA SameSequence ==
    ASSUME NEW S, NEW s \in Seq(S), NEW t \in Seq(S), Len(s) = Len(t),
           \A i \in 1..Len(s) : s[i] = t[i]
    PROVE  s = t
OBVIOUS

LEMMA TimesOne == ASSUME NEW s \in Seq(Int) PROVE Times(1, s) = s /\ Times(-1, s) = Minus(s)
<1>1. \A i \in DOMAIN s : 1 * s[i] = s[i] /\ (-1) * s[i] = -s[i]
  OBVIOUS
<1>2. Times(1, s) = [i \in DOMAIN s |-> s[i]]
  BY <1>1 DEF Times
<1>3. Times(-1, s) = [i \in DOMAIN s |-> -s[i]]
  BY <1>1 DEF Times
<1> QED
  BY <1>2, <1>3 DEF Minus

LEMMA TotalOfTimes ==
    ASSUME NEW k \in Units, NEW s \in Seq(Int)
    PROVE  Total(Times(k, s)) = k * Total(s) /\ Total(s) \in Int
<1>1. Total(s) \in Int
  BY TotalType
<1>2. CASE k = 1
  BY <1>1, <1>2, TimesOne
<1>3. CASE k = -1
  BY <1>1, <1>3, TimesOne, TotalOfMinus
<1> QED
  BY <1>1, <1>2, <1>3 DEF Units

LEMMA ProductsOfTimes ==
    ASSUME NEW j \in Units, NEW k \in Units, NEW s \in Seq(Int), NEW t \in Seq(Int), Len(s) = Len(t)
    PROVE  Products(Times(j, s), Times(k, t)) = Times(j * k, Products(s, t))
<1>1. /\ Times(j, s) \in Seq(Int) /\ Len(Times(j, s)) = Len(s)
      /\ Times(k, t) \in Seq(Int) /\ Len(Times(k, t)) = Len(s)
      /\ \A i \in 1..Len(s) : Times(j, s)[i] = j * s[i] /\ Times(k, t)[i] = k * t[i]
  BY TimesType
<1>2. j * k \in Units
  BY UnitArithmetic DEF Units
<1> DEFINE a == Products(Times(j, s), Times(k, t))
           b == Times(j * k, Products(s, t))
<1>3. /\ a \in Seq(Int) /\ Len(a) = Len(s)
      /\ \A i \in 1..Len(s) : a[i] = Times(j, s)[i] * Times(k, t)[i]
  BY <1>1, ProductsType
<1>4. /\ b \in Seq(Int) /\ Len(b) = Len(s)
      /\ \A i \in 1..Len(s) : b[i] = (j * k) * (s[i] * t[i])
  BY <1>2, ProductsType, TimesType
<1> HIDE DEF a, b
<1>5. ASSUME NEW i \in 1..Len(s) PROVE a[i] = b[i]
  <2>1. s[i] \in Int /\ t[i] \in Int
    OBVIOUS
  <2>2. (j * s[i]) * (k * t[i]) = (j * k) * (s[i] * t[i])
    BY <2>1, UnitArithmetic
  <2> QED
    BY <1>1, <1>3, <1>4, <2>2
<1>6. a = b
  BY <1>3, <1>4, <1>5, SameSequence
<1> QED
  BY <1>6 DEF a, b

LEMMA CovarianceOfTimes ==
    ASSUME NEW j \in Units, NEW k \in Units, NEW s \in Seq(Int), NEW t \in Seq(Int), Len(s) = Len(t)
    PROVE  /\ Covariance(s, t) \in Int
           /\ Covariance(Times(j, s), Times(k, t)) = (j * k) * Covariance(s, t)
<1> DEFINE n == Len(s)
           P == Total(Products(s, t))
           S == Total(s)
           T == Total(t)
<1>1. n \in Int /\ P \in Int /\ S \in Int /\ T \in Int /\ j * k \in Units
  <2>1. Products(s, t) \in Seq(Int)
    BY ProductsType
  <2>2. j * k \in Units
    BY UnitArithmetic DEF Units
  <2> QED
    BY <2>1, <2>2, TotalType
<1>2. Total(Products(Times(j, s), Times(k, t))) = (j * k) * P
  <2>1. Products(s, t) \in Seq(Int)
    BY ProductsType
  <2>2. Total(Times(j * k, Products(s, t))) = (j * k) * P
    BY <1>1, <2>1, TotalOfTimes
  <2> QED
    BY <2>2, ProductsOfTimes
<1>3. Total(Times(j, s)) = j * S /\ Total(Times(k, t)) = k * T /\ Len(Times(j, s)) = n
  BY TotalOfTimes, TimesType
<1>4. Covariance(s, t) = n * P - S * T
  BY DEF Covariance
<1>5. Covariance(Times(j, s), Times(k, t)) = n * ((j * k) * P) - (j * S) * (k * T)
  BY <1>2, <1>3 DEF Covariance
<1> HIDE DEF n, P, S, T
<1>6. (j * S) * (k * T) = (j * k) * (S * T)
  BY <1>1, UnitArithmetic
<1> DEFINE u == j * k
<1>7. u = 1 \/ u = -1
  BY <1>1 DEF Units
<1> HIDE DEF u
<1>8. n * P \in Int /\ S * T \in Int /\ n * (u * P) - u * (S * T) = u * (n * P - S * T)
  <2>1. CASE u = 1
    BY <1>1, <2>1
  <2>2. CASE u = -1
    <3>1. n * (-P) = -(n * P) /\ n * P \in Int /\ S * T \in Int
      BY <1>1
    <3>2. u * P = -P /\ u * (S * T) = -(S * T) /\ u * (n * P - S * T) = -(n * P - S * T)
      BY <1>1, <2>2, <3>1
    <3> QED
      BY <3>1, <3>2
  <2> QED
    BY <1>7, <2>1, <2>2
<1>9. Covariance(Times(j, s), Times(k, t)) = u * (n * P - S * T)
  BY <1>5, <1>6, <1>8 DEF u
<1> QED
  BY <1>4, <1>8, <1>9 DEF u

LEMMA VarianceOfTimes ==
    ASSUME NEW k \in Units, NEW s \in Seq(Int)
    PROVE  Variance(Times(k, s)) = Variance(s) /\ Variance(s) \in Nat
<1>1. Covariance(Times(k, s), Times(k, s)) = (k * k) * Covariance(s, s) /\ Covariance(s, s) \in Int
  BY CovarianceOfTimes
<1>2. k * k = 1
  BY UnitArithmetic DEF Units
<1>3. Variance(s) \in Nat
  BY VarianceIsNat
<1> QED
  BY <1>1, <1>2, <1>3 DEF Variance

LEMMA RatioOfTimes ==
    ASSUME NEW k \in Units, NEW a \in Int, NEW v \in Nat, NEW bound \in Nat
    PROVE  /\ RatioOfRoots(a, v, bound) \in Int
           /\ RatioOfRoots(k * a, v, bound) = k * RatioOfRoots(a, v, bound)
<1>1. CASE v = 0
  <2>1. \A b : RatioOfRoots(b, v, bound) = 0
    BY <1>1 DEF RatioOfRoots
  <2>2. k * 0 = 0
    BY DEF Units
  <2> QED
    BY <2>1, <2>2
<1>2. CASE v # 0
  <2> DEFINE x == 10000 * a * a
             r == Root(x \div v, bound)
  <2>1. 10000 * (k * a) * (k * a) = x /\ x \in Nat
    <3>1. (k * a) * (k * a) = a * a /\ k * a \in Int
      BY UnitArithmetic
    <3>2. a * a >= 0 /\ a * a \in Int
      BY SquareIsNat
    <3>3. \A b \in Int : 10000 * b * b = 10000 * (b * b)
      OBVIOUS
    <3>4. 10000 * (k * a) * (k * a) = 10000 * ((k * a) * (k * a))
      BY <3>1, <3>3
    <3>5. x = 10000 * (a * a)
      BY <3>3
    <3> HIDE DEF x
    <3> QED
      BY <3>1, <3>2, <3>4, <3>5
  <2>2. RatioOfRoots(a, v, bound) = Sign(a) * r
    BY <1>2 DEF RatioOfRoots
  <2>3. RatioOfRoots(k * a, v, bound) = Sign(k * a) * r
    BY <1>2, <2>1 DEF RatioOfRoots
  <2> HIDE DEF x
  <2>4. x \div v \in Nat
    BY <1>2, <2>1, DivBelow
  <2>5. r \in 0..bound
    BY <2>4, RootBelow, Zenon
  <2> HIDE DEF r
  <2>6. r \in Int /\ Sign(a) \in Int /\ Sign(k * a) = k * Sign(a)
    BY <2>5, SignType, UnitArithmetic
  <2>7. (k * Sign(a)) * r = k * (Sign(a) * r) /\ Sign(a) * r \in Int
    <3>1. CASE k = 1
      BY <2>6, <3>1
    <3>2. CASE k = -1
      <4>1. (-Sign(a)) * r = -(Sign(a) * r) /\ Sign(a) * r \in Int
        BY <2>6
      <4>2. k * Sign(a) = -Sign(a) /\ k * (Sign(a) * r) = -(Sign(a) * r)
        BY <2>6, <3>2, <4>1
      <4> QED
        BY <4>1, <4>2
    <3> QED
      BY <3>1, <3>2 DEF Units
  <2> QED
    BY <2>2, <2>3, <2>6, <2>7
<1> QED
  BY <1>1, <1>2

LEMMA ZScoreOfTimes ==
    ASSUME NEW k \in Units, NEW s \in Seq(Int), NEW x \in Int, NEW bound \in Nat
    PROVE  /\ ZScore(x, s, bound) \in Int
           /\ ZScore(k * x, Times(k, s), bound) = k * ZScore(x, s, bound)
<1> DEFINE a == Len(s) * x - Total(s)
<1>1. Len(s) \in Int /\ Total(s) \in Int /\ Len(s) * x \in Int /\ a \in Int
  BY TotalType
<1>2. Len(Times(k, s)) * (k * x) - Total(Times(k, s)) = k * a
  <2>1. Len(Times(k, s)) = Len(s) /\ Total(Times(k, s)) = k * Total(s)
    BY TimesType, TotalOfTimes
  <2> DEFINE n == Len(s)
             S == Total(s)
  <2> HIDE DEF n, S
  <2>2. n * (k * x) - k * S = k * (n * x - S)
    <3>0. n \in Int /\ S \in Int
      BY <1>1 DEF n, S
    <3>1. CASE k = 1
      BY <3>0, <3>1
    <3>2. CASE k = -1
      <4>1. n * (-x) = -(n * x) /\ n * x \in Int
        BY <3>0
      <4>2. k * x = -x /\ k * S = -S /\ k * (n * x - S) = -(n * x - S)
        BY <3>0, <3>2, <4>1
      <4> QED
        BY <3>0, <4>1, <4>2
    <3> QED
      BY <3>1, <3>2 DEF Units
  <2> QED
    BY <2>1, <2>2 DEF n, S
<1>3. Variance(Times(k, s)) = Variance(s) /\ Variance(s) \in Nat
  BY VarianceOfTimes
<1>4. ZScore(k * x, Times(k, s), bound) = RatioOfRoots(k * a, Variance(s), bound)
  BY <1>2, <1>3 DEF ZScore
<1>5. ZScore(x, s, bound) = RatioOfRoots(a, Variance(s), bound)
  BY DEF ZScore
<1> HIDE DEF a
<1> QED
  BY <1>1, <1>3, <1>4, <1>5, RatioOfTimes

(* How correlation and sign turn with the covariance a.                    *)
RatioTurns(k, a, v) ==
    /\ RatioOfRoots(a, v, 100) \in Int
    /\ RatioOfRoots(k * a, v, 100) = k * RatioOfRoots(a, v, 100)
    /\ Sign(k * a) = k * Sign(a) /\ Sign(a) \in Int

LEMMA RatioAndSign ==
    ASSUME NEW k \in Units, NEW a \in Int, NEW v \in Nat
    PROVE  RatioTurns(k, a, v)
<1>1. 100 \in Nat
  OBVIOUS
<1>2. Sign(k * a) = k * Sign(a)
  BY UnitArithmetic
<1>3. Sign(a) \in Int
  BY SignType
<1>4. RatioOfRoots(a, v, 100) \in Int
      /\ RatioOfRoots(k * a, v, 100) = k * RatioOfRoots(a, v, 100)
  BY <1>1, RatioOfTimes
<1> QED
  BY <1>2, <1>3, <1>4 DEF RatioTurns

LEMMA CorrelationOfTimes ==
    ASSUME NEW j \in Units, NEW k \in Units, NEW s \in Seq(Int), NEW t \in Seq(Int), Len(s) = Len(t)
    PROVE  /\ Correlation(s, t) \in Int /\ DetectSign(s, t) \in Int
           /\ Correlation(Times(j, s), Times(k, t)) = (j * k) * Correlation(s, t)
           /\ DetectSign(Times(j, s), Times(k, t)) = (j * k) * DetectSign(s, t)
<1> DEFINE u == j * k
           v == Variance(s) * Variance(t)
           c == Covariance(s, t)
<1>1. u \in Units
  BY UnitArithmetic DEF Units
<1>2. /\ Variance(Times(j, s)) = Variance(s) /\ Variance(s) \in Nat
      /\ Variance(Times(k, t)) = Variance(t) /\ Variance(t) \in Nat /\ v \in Nat
  BY VarianceOfTimes
<1>3. c \in Int /\ Covariance(Times(j, s), Times(k, t)) = u * c
  BY CovarianceOfTimes
<1>4. Uncorrelated(Times(j, s), Times(k, t)) = Uncorrelated(s, t)
  BY <1>2, TimesType DEF Uncorrelated
<1>5. u * 0 = 0
  BY <1>1 DEF Units
<1>6. CASE Uncorrelated(s, t)
  BY <1>4, <1>5, <1>6 DEF Correlation, DetectSign
<1>7. CASE ~Uncorrelated(s, t)
  <2>1. Correlation(s, t) = RatioOfRoots(c, v, 100) /\ DetectSign(s, t) = Sign(c)
    BY <1>7 DEF Correlation, DetectSign
  <2>2. /\ Correlation(Times(j, s), Times(k, t)) = RatioOfRoots(u * c, v, 100)
        /\ DetectSign(Times(j, s), Times(k, t)) = Sign(u * c)
    BY <1>2, <1>3, <1>4, <1>7 DEF Correlation, DetectSign
  <2> HIDE DEF u, v, c
  <2>0. u \in Units /\ c \in Int /\ v \in Nat /\ 100 \in Nat
    BY <1>1, <1>2, <1>3
  <2>3. RatioOfRoots(c, v, 100) \in Int /\ RatioOfRoots(u * c, v, 100) = u * RatioOfRoots(c, v, 100)
        /\ Sign(u * c) = u * Sign(c) /\ Sign(c) \in Int
    <3>1. RatioTurns(u, c, v)
      BY <2>0, RatioAndSign
    <3> QED
      BY <3>1 DEF RatioTurns
  <2>5. /\ Correlation(Times(j, s), Times(k, t)) = u * Correlation(s, t)
        /\ DetectSign(Times(j, s), Times(k, t)) = u * DetectSign(s, t)
        /\ Correlation(s, t) \in Int /\ DetectSign(s, t) \in Int
    BY <2>1, <2>2, <2>3
  <2> QED
    BY <2>5 DEF u
<1> QED
  BY <1>6, <1>7

LEMMA RecentOfTimes ==
    ASSUME NEW k \in Units, NEW s \in Seq(Int), NEW n \in Nat
    PROVE  Recent(Times(k, s), n) = Times(k, Recent(s, n)) /\ Recent(s, n) \in Seq(Int)
           /\ Len(Recent(s, n)) = Smaller(Len(s), n)
<1> DEFINE a == Recent(Times(k, s), n)
           r == Recent(s, n)
           b == Times(k, r)
<1>1. /\ r \in Seq(Int) /\ Len(r) = Smaller(Len(s), n)
      /\ \A i \in 1..Len(r) : r[i] = s[Len(s) - Len(r) + i]
  BY RecentType
<1>2. Times(k, s) \in Seq(Int) /\ Len(Times(k, s)) = Len(s)
      /\ \A i \in 1..Len(s) : Times(k, s)[i] = k * s[i]
  BY TimesType
<1>3. /\ a \in Seq(Int) /\ Len(a) = Smaller(Len(s), n)
      /\ \A i \in 1..Len(a) : a[i] = Times(k, s)[Len(s) - Len(a) + i]
  <2> DEFINE t == Times(k, s)
  <2>1. t \in Seq(Int) /\ Len(t) = Len(s)
    BY <1>2
  <2> HIDE DEF t
  <2>2. LET q == Recent(t, n)
        IN  /\ q \in Seq(Int) /\ Len(q) = Smaller(Len(t), n)
            /\ \A i \in 1..Len(q) : q[i] = t[Len(t) - Len(q) + i]
    BY <2>1, RecentType, Zenon
  <2> QED
    BY <2>1, <2>2 DEF t
<1>4. /\ b \in Seq(Int) /\ Len(b) = Len(r)
      /\ \A i \in 1..Len(r) : b[i] = k * r[i]
  BY <1>1, TimesType
<1>5. Len(r) <= Len(s) /\ Len(r) \in Nat /\ Len(s) \in Nat
  BY <1>1 DEF Smaller
<1> HIDE DEF a, b, r
<1>6. ASSUME NEW i \in 1..Len(a) PROVE a[i] = b[i]
  <2>1. Len(a) = Len(r) /\ Len(s) - Len(r) + i \in 1..Len(s) /\ i \in 1..Len(r)
    <3>1. Len(a) = Len(r)
      BY <1>1, <1>3
    <3>2. i \in 1..Len(r)
      BY <3>1
    <3> QED
      BY <1>5, <3>1, <3>2
  <2> QED
    BY <1>1, <1>2, <1>3, <1>4, <2>1
<1>7. a = b
  BY <1>1, <1>3, <1>4, <1>6, SameSequence
<1> QED
  BY <1>1, <1>7 DEF a, b, r

(* Of two finite series of one length nothing is dropped.                  *)
LEMMA PairOfInts ==
    ASSUME NEW s \in Seq(Int), NEW t \in Seq(Int), Len(s) = Len(t)
    PROVE  SanitizePair(s, t) = <<s, t>>
<1> DEFINE n == Len(s)
           p == [i \in 1 .. n |-> <<s[Len(s) - n + i], t[Len(t) - n + i]>>]
<1>1. n \in Nat /\ Smaller(Len(s), Len(t)) = n
  BY DEF Smaller
<1>2. \A i \in 1..n : Len(s) - n + i = i /\ Len(t) - n + i = i
  BY <1>1
<1>3. \A i \in 1..n : p[i] = <<s[i], t[i]>> /\ s[i] \in Int /\ t[i] \in Int
  BY <1>2
<1>4. p \in Seq(Int \X Int) /\ DOMAIN p = 1..n
  <2>1. p \in [1..n -> Int \X Int]
    BY <1>3
  <2> QED
    BY <1>1, <2>1
<1>5. SanitizePair(s, t) = Unzip(Kept(p, Int \X Int))
  BY <1>1 DEF SanitizePair, FinitePairs
<1> HIDE DEF p
<1>6. Kept(p, Int \X Int) = p
  BY <1>4, KeptAll
<1>7. Unzip(p) = <<[i \in 1..n |-> p[i][1]], [i \in 1..n |-> p[i][2]]>>
  BY <1>4 DEF Unzip
<1>8. s = [i \in 1..n |-> s[i]] /\ t = [i \in 1..n |-> t[i]]
  OBVIOUS
<1>9. [i \in 1..n |-> p[i][1]] = s /\ [i \in 1..n |-> p[i][2]] = t
  <2>1. \A i \in 1..n : p[i][1] = s[i] /\ p[i][2] = t[i]
    BY <1>3
  <2>2. [i \in 1..n |-> p[i][1]] = [i \in 1..n |-> s[i]]
    BY <2>1
  <2>3. [i \in 1..n |-> p[i][2]] = [i \in 1..n |-> t[i]]
    BY <2>1
  <2> QED
    BY <1>8, <2>2, <2>3
<1> QED
  BY <1>5, <1>6, <1>7, <1>9

(* One factor, and the same with its series multiplied by j and the returns *)
(* by k.                                                                    *)
InputOk(f) == /\ f.series \in Seq(Int) /\ f.returns \in Seq(Int) /\ f.current \in Int
              /\ f.weight \in Nat

TurnedInput(f, g, j, k) ==
    /\ g.name = f.name /\ g.weight = f.weight /\ g.current = j * f.current
    /\ g.series = Times(j, f.series) /\ g.returns = Times(k, f.returns)

RowOk(p, i, w) ==
    /\ p.index = i /\ p.weight = w
    /\ p.correlation \in Int /\ p.sign \in Int /\ p.zscore \in Int

TurnedRow(p, q, j, k) ==
    /\ q.index = p.index /\ q.weight = p.weight /\ q.reject = p.reject
    /\ q.correlation = (j * k) * p.correlation
    /\ q.sign = (j * k) * p.sign
    /\ q.zscore = j * p.zscore

RowOf(i, n, w, c, d) ==
    [index |-> i, name |-> n, weight |-> w, reject |-> "", correlation |-> c, sign |-> d,
     zscore |-> 0]

LEMMA RejectedRow ==
    ASSUME NEW i, NEW n, NEW w, NEW c, NEW d, NEW why
    PROVE  LET p == Rejected(RowOf(i, n, w, c, d), why)
           IN  /\ p.index = i /\ p.weight = w /\ p.reject = why
               /\ p.correlation = c /\ p.sign = d /\ p.zscore = 0
BY DEF Rejected, RowOf

LEMMA RejectedTurned ==
    ASSUME NEW i, NEW n, NEW w, NEW c \in Int, NEW d \in Int, NEW j \in Units, NEW k \in Units,
           NEW c1, NEW d1, c1 = (j * k) * c, d1 = (j * k) * d, NEW why
    PROVE  LET p == Rejected(RowOf(i, n, w, c, d), why)
               q == Rejected(RowOf(i, n, w, c1, d1), why)
           IN  RowOk(p, i, w) /\ TurnedRow(p, q, j, k)
<1>1. j * 0 = 0
  BY DEF Units
<1> DEFINE p == Rejected(RowOf(i, n, w, c, d), why)
           q == Rejected(RowOf(i, n, w, c1, d1), why)
<1>2. /\ p.index = i /\ p.weight = w /\ p.reject = why
      /\ p.correlation = c /\ p.sign = d /\ p.zscore = 0
  BY RejectedRow
<1>3. /\ q.index = i /\ q.weight = w /\ q.reject = why
      /\ q.correlation = c1 /\ q.sign = d1 /\ q.zscore = 0
  BY RejectedRow
<1> HIDE DEF p, q
<1>4. RowOk(p, i, w)
  BY <1>2 DEF RowOk
<1>5. TurnedRow(p, q, j, k)
  BY <1>1, <1>2, <1>3 DEF TurnedRow
<1> QED
  BY <1>4, <1>5 DEF p, q

LEMMA WindowType == Window \in Nat /\ Window >= 2
<1>1. RollingWindow \in Nat
  BY ModelAssumption
<1> QED
  BY <1>1 DEF Window, Larger

LEMMA CorrelatedTurned ==
    ASSUME NEW i, NEW n, NEW w, NEW c \in Int, NEW d \in Int, NEW j \in Units, NEW k \in Units,
           NEW c1, NEW d1, c1 = (j * k) * c, d1 = (j * k) * d,
           NEW f, NEW g, f.current \in Int, g.current = j * f.current, NEW s \in Seq(Int)
    PROVE  LET p == Correlated(f, RowOf(i, n, w, c, d), s)
               q == Correlated(g, RowOf(i, n, w, c1, d1), Times(j, s))
           IN  RowOk(p, i, w) /\ TurnedRow(p, q, j, k)
<1> DEFINE a == RowOf(i, n, w, c, d)
           b == RowOf(i, n, w, c1, d1)
<1>1. Abs(c1) = Abs(c)
  <2>1. \A u \in Units : Abs(u * c) = Abs(c)
    BY UnitTimes
  <2>2. j * k \in Units
    BY UnitArithmetic DEF Units
  <2> QED
    BY <2>1, <2>2
<1>2. g.current \in Int /\ f.current # NaN /\ g.current # NaN
  <2>1. g.current \in Int
    BY UnitTimes
  <2> QED
    BY <2>1, ModelAssumption
<1>3. a.correlation = c /\ b.correlation = c1
  BY DEF RowOf
<1>4. CASE Abs(c) < MinAbsCorrelation
  <2>1. /\ Correlated(f, a, s) = Rejected(a, "low_predictive_correlation")
        /\ Correlated(g, b, Times(j, s)) = Rejected(b, "low_predictive_correlation")
    BY <1>1, <1>3, <1>4 DEF Correlated
  <2> QED
    BY <2>1, RejectedTurned
<1>5. CASE ~(Abs(c) < MinAbsCorrelation)
  <2> DEFINE z == ZScore(f.current, Recent(s, Window), Winsorize)
             y == ZScore(g.current, Recent(Times(j, s), Window), Winsorize)
             p == [a EXCEPT !.zscore = z]
             q == [b EXCEPT !.zscore = y]
  <2>1. Correlated(f, a, s) = p /\ Correlated(g, b, Times(j, s)) = q
    BY <1>1, <1>2, <1>3, <1>5 DEF Correlated
  <2>2. z \in Int /\ y = j * z
    <3>1. Recent(Times(j, s), Window) = Times(j, Recent(s, Window)) /\ Recent(s, Window) \in Seq(Int)
      BY WindowType, RecentOfTimes
    <3>2. Winsorize \in Nat
      BY ModelAssumption
    <3> DEFINE r == Recent(s, Window)
    <3> HIDE DEF r
    <3>3. /\ ZScore(f.current, r, Winsorize) \in Int
          /\ ZScore(j * f.current, Times(j, r), Winsorize) = j * ZScore(f.current, r, Winsorize)
      BY <3>1, <3>2, ZScoreOfTimes DEF r
    <3> QED
      BY <3>1, <3>3 DEF r
  <2> HIDE DEF z, y
  <2>3. /\ p.index = i /\ p.weight = w /\ p.reject = ""
        /\ p.correlation = c /\ p.sign = d /\ p.zscore = z
    BY DEF RowOf
  <2>4. /\ q.index = i /\ q.weight = w /\ q.reject = ""
        /\ q.correlation = c1 /\ q.sign = d1 /\ q.zscore = y
    BY DEF RowOf
  <2> HIDE DEF p, q, a, b
  <2>5. RowOk(p, i, w)
    BY <2>2, <2>3 DEF RowOk
  <2>6. TurnedRow(p, q, j, k)
    BY <2>2, <2>3, <2>4 DEF TurnedRow
  <2> QED
    BY <2>1, <2>5, <2>6 DEF a, b
<1> QED
  BY <1>4, <1>5

With(a, c, d) == [a EXCEPT !.correlation = c, !.sign = d]

LEMMA RowWith ==
    ASSUME NEW i, NEW n, NEW w, NEW c, NEW d
    PROVE  With(RowOf(i, n, w, 0, 0), c, d) = RowOf(i, n, w, c, d)
<1> DEFINE x == [RowOf(i, n, w, 0, 0) EXCEPT !.correlation = c, !.sign = d]
           y == RowOf(i, n, w, c, d)
           D == {"index", "name", "weight", "reject", "correlation", "sign", "zscore"}
<1>1. DOMAIN x = D /\ DOMAIN y = D
  BY DEF RowOf
<1>2. \A f \in D : x[f] = y[f]
  <2>1. x.index = y.index /\ x.name = y.name /\ x.weight = y.weight /\ x.reject = y.reject
        /\ x.correlation = y.correlation /\ x.sign = y.sign /\ x.zscore = y.zscore
    BY DEF RowOf
  <2> HIDE DEF x, y
  <2> QED
    BY <2>1
<1>3. x = [f \in DOMAIN x |-> x[f]] /\ y = [f \in DOMAIN y |-> y[f]]
  BY DEF RowOf
<1> HIDE DEF x, y, D
<1>4. [f \in D |-> x[f]] = [f \in D |-> y[f]]
  BY <1>2
<1>5. x = y
  BY <1>1, <1>3, <1>4
<1> QED
  BY <1>5 DEF x, y, With

LEMMA AlignedTurned ==
    ASSUME NEW i, NEW n, NEW w, NEW j \in Units, NEW k \in Units,
           NEW f, NEW g, f.current \in Int, g.current = j * f.current, NEW s \in Seq(Int),
           NEW x \in Seq(Int), NEW y \in Seq(Int), Len(x) = Len(y)
    PROVE  LET p == Aligned(f, RowOf(i, n, w, 0, 0), s, <<x, y>>)
               q == Aligned(g, RowOf(i, n, w, 0, 0), Times(j, s), <<Times(j, x), Times(k, y)>>)
           IN  RowOk(p, i, w) /\ TurnedRow(p, q, j, k)
<1> DEFINE a == RowOf(i, n, w, 0, 0)
           p == Aligned(f, a, s, <<x, y>>)
           q == Aligned(g, a, Times(j, s), <<Times(j, x), Times(k, y)>>)
<1>1. Len(Times(j, x)) = Len(x)
  BY TimesType
<1>2. (j * k) * 0 = 0
  BY DEF Units
<1>3. CASE Len(x) < 2
  <2>1. /\ p = Rejected(a, "insufficient_finite_overlap")
        /\ q = Rejected(a, "insufficient_finite_overlap")
    BY <1>1, <1>3 DEF Aligned
  <2>2. \A why : LET r == Rejected(a, why) IN RowOk(r, i, w) /\ TurnedRow(r, r, j, k)
    BY <1>2, RejectedTurned
  <2>3. RowOk(p, i, w) /\ TurnedRow(p, q, j, k)
    <3> HIDE DEF a, p, q
    <3> QED
      BY <2>1, <2>2
  <2> QED
    BY <2>3
<1>4. CASE ~(Len(x) < 2)
  <2> DEFINE c == Correlation(x, y)
             d == DetectSign(x, y)
             c1 == Correlation(Times(j, x), Times(k, y))
             d1 == DetectSign(Times(j, x), Times(k, y))
  <2>1. c \in Int /\ d \in Int /\ c1 = (j * k) * c /\ d1 = (j * k) * d
    BY CorrelationOfTimes
  <2>2. p = Correlated(f, With(a, c, d), s)
    BY <1>4 DEF Aligned, With
  <2>3. q = Correlated(g, With(a, c1, d1), Times(j, s))
    BY <1>1, <1>4 DEF Aligned, With
  <2> HIDE DEF c, d, c1, d1
  <2>4. With(a, c, d) = RowOf(i, n, w, c, d) /\ With(a, c1, d1) = RowOf(i, n, w, c1, d1)
    BY RowWith
  <2> HIDE DEF a, p, q
  <2>5. p = Correlated(f, RowOf(i, n, w, c, d), s)
        /\ q = Correlated(g, RowOf(i, n, w, c1, d1), Times(j, s))
    BY <2>2, <2>3, <2>4
  <2>6. LET r == Correlated(f, RowOf(i, n, w, c, d), s)
            t == Correlated(g, RowOf(i, n, w, c1, d1), Times(j, s))
        IN  RowOk(r, i, w) /\ TurnedRow(r, t, j, k)
    BY <2>1, CorrelatedTurned
  <2> QED
    BY <2>5, <2>6 DEF p, q, a
<1> QED
  BY <1>3, <1>4

LEMMA PreparedTurned ==
    ASSUME NEW i, NEW n, NEW w, NEW j \in Units, NEW k \in Units,
           NEW f, NEW g, f.current \in Int, g.current = j * f.current,
           NEW s \in Seq(Int), NEW t \in Seq(Int)
    PROVE  LET p == Prepared(f, RowOf(i, n, w, 0, 0), s, t)
               q == Prepared(g, RowOf(i, n, w, 0, 0), Times(j, s), Times(k, t))
           IN  RowOk(p, i, w) /\ TurnedRow(p, q, j, k)
<1> DEFINE a == RowOf(i, n, w, 0, 0)
           p == Prepared(f, a, s, t)
           q == Prepared(g, a, Times(j, s), Times(k, t))
           o == Overlap(s, t)
<1>1. Len(Times(j, s)) = Len(s) /\ Len(Times(k, t)) = Len(t)
  BY TimesType
<1>2. Overlap(Times(j, s), Times(k, t)) = o
  BY <1>1 DEF Overlap
<1>3. o \in Nat /\ Smaller(Len(s), o) = o /\ Smaller(Len(t), o) = o
  BY WindowType DEF Overlap, Smaller
<1>4. \A why : LET r == Rejected(a, why) IN RowOk(r, i, w) /\ TurnedRow(r, r, j, k)
  <2>1. (j * k) * 0 = 0
    BY DEF Units
  <2> QED
    BY <2>1, RejectedTurned
<1>5. CASE Len(s) < MinHistory
  <2>1. p = Rejected(a, "insufficient_factor_history") /\ q = Rejected(a, "insufficient_factor_history")
    BY <1>1, <1>5 DEF Prepared
  <2>2. RowOk(p, i, w) /\ TurnedRow(p, q, j, k)
    <3> HIDE DEF a, p, q
    <3> QED
      BY <1>4, <2>1
  <2> QED
    BY <2>2
<1>6. CASE ~(Len(s) < MinHistory) /\ Len(t) < MinHistory
  <2>1. p = Rejected(a, "insufficient_return_history") /\ q = Rejected(a, "insufficient_return_history")
    BY <1>1, <1>6 DEF Prepared
  <2>2. RowOk(p, i, w) /\ TurnedRow(p, q, j, k)
    <3> HIDE DEF a, p, q
    <3> QED
      BY <1>4, <2>1
  <2> QED
    BY <2>2
<1>7. CASE ~(Len(s) < MinHistory) /\ ~(Len(t) < MinHistory) /\ o < 2
  <2>1. p = Rejected(a, "insufficient_overlap") /\ q = Rejected(a, "insufficient_overlap")
    BY <1>1, <1>2, <1>7 DEF Prepared
  <2>2. RowOk(p, i, w) /\ TurnedRow(p, q, j, k)
    <3> HIDE DEF a, p, q
    <3> QED
      BY <1>4, <2>1
  <2> QED
    BY <2>2
<1>8. CASE ~(Len(s) < MinHistory) /\ ~(Len(t) < MinHistory) /\ ~(o < 2)
  <2> DEFINE x == Recent(s, o)
             y == Recent(t, o)
  <2>1. /\ x \in Seq(Int) /\ y \in Seq(Int) /\ Len(x) = o /\ Len(y) = o
        /\ Recent(Times(j, s), o) = Times(j, x) /\ Recent(Times(k, t), o) = Times(k, y)
    <3> HIDE DEF o
    <3> QED
      BY <1>3, RecentOfTimes
  <2>2. SanitizePair(x, y) = <<x, y>> /\ SanitizePair(Times(j, x), Times(k, y)) = <<Times(j, x), Times(k, y)>>
    <3> HIDE DEF o, x, y
    <3>1. /\ Times(j, x) \in Seq(Int) /\ Len(Times(j, x)) = Len(x)
          /\ Times(k, y) \in Seq(Int) /\ Len(Times(k, y)) = Len(y)
      BY <2>1, TimesType
    <3> QED
      BY <2>1, <3>1, PairOfInts
  <2>3. p = Aligned(f, a, s, <<x, y>>)
    BY <1>8, <2>2 DEF Prepared
  <2>4. q = Aligned(g, a, Times(j, s), <<Times(j, x), Times(k, y)>>)
    <3> HIDE DEF o, a
    <3> QED
      BY <1>1, <1>2, <1>8, <2>1, <2>2 DEF Prepared
  <2> HIDE DEF x, y, p, q
  <2>5. LET r == Aligned(f, RowOf(i, n, w, 0, 0), s, <<x, y>>)
            u == Aligned(g, RowOf(i, n, w, 0, 0), Times(j, s), <<Times(j, x), Times(k, y)>>)
        IN  RowOk(r, i, w) /\ TurnedRow(r, u, j, k)
    BY <2>1, AlignedTurned
  <2> QED
    BY <2>3, <2>4, <2>5 DEF p, q
<1> QED
  BY <1>5, <1>6, <1>7, <1>8

LEMMA FactorTurned ==
    ASSUME NEW i, NEW j \in Units, NEW k \in Units, NEW f, NEW g, InputOk(f), TurnedInput(f, g, j, k)
    PROVE  LET p == PrepareFactor(i, f)
               q == PrepareFactor(i, g)
           IN  RowOk(p, i, f.weight) /\ TurnedRow(p, q, j, k)
<1> DEFINE a == RowOf(i, f.name, f.weight, 0, 0)
           s == f.series
           t == f.returns
<1>1. s \in Seq(Int) /\ t \in Seq(Int) /\ f.current \in Int /\ g.current = j * f.current
      /\ g.series = Times(j, s) /\ g.returns = Times(k, t)
      /\ g.name = f.name /\ g.weight = f.weight
  BY DEF InputOk, TurnedInput
<1>2. Sanitize(s) = s /\ Sanitize(t) = t
  BY <1>1, SanitizeInts
<1>3. Sanitize(g.series) = Times(j, s) /\ Sanitize(g.returns) = Times(k, t)
  BY <1>1, TimesType, SanitizeInts
<1>4. PrepareFactor(i, f) = Prepared(f, a, s, t)
  BY <1>2 DEF PrepareFactor, RowOf
<1>5. PrepareFactor(i, g) = Prepared(g, a, Times(j, s), Times(k, t))
  BY <1>1, <1>3 DEF PrepareFactor, RowOf
<1>6. LET p == Prepared(f, a, s, t)
          q == Prepared(g, a, Times(j, s), Times(k, t))
      IN  RowOk(p, i, f.weight) /\ TurnedRow(p, q, j, k)
  BY <1>1, PreparedTurned
<1> QED
  BY <1>4, <1>5, <1>6

------------------------------------------------------------------------------
(* Ranks. Rows are ordered strictly and totally by correlation and index,   *)
(* so that each rank is that of one row, and it is told by its index.       *)

RowsOk(P) == \A i \in DOMAIN P : P[i].index = i /\ P[i].correlation \in Int

Valid(P) == {i \in DOMAIN P : P[i].reject = ""}
Above(P, i) == {j \in Valid(P) : Outranks(P[j], P[i])}

LEMMA OutranksOrders ==
    ASSUME NEW n \in Nat, NEW P, DOMAIN P = 1..n, RowsOk(P)
    PROVE  /\ \A i \in 1..n : ~Outranks(P[i], P[i])
           /\ \A i, j \in 1..n : i # j => Outranks(P[i], P[j]) \/ Outranks(P[j], P[i])
           /\ \A i, j, k \in 1..n :
                 Outranks(P[i], P[j]) /\ Outranks(P[j], P[k]) => Outranks(P[i], P[k])
<1> DEFINE c(i) == Abs(P[i].correlation)
<1>1. \A i \in 1..n : c(i) \in Nat /\ P[i].index = i
  BY AbsType DEF RowsOk
<1>2. \A i, j \in 1..n : Outranks(P[i], P[j]) <=> c(i) > c(j) \/ (c(i) = c(j) /\ i < j)
  BY <1>1 DEF Outranks
<1> HIDE DEF c
<1>3. \A i \in 1..n : ~Outranks(P[i], P[i])
  BY <1>1, <1>2
<1>4. \A i, j \in 1..n : i # j => Outranks(P[i], P[j]) \/ Outranks(P[j], P[i])
  BY <1>1, <1>2
<1>5. ASSUME NEW i \in 1..n, NEW j \in 1..n, NEW k \in 1..n, Outranks(P[i], P[j]), Outranks(P[j], P[k])
      PROVE  Outranks(P[i], P[k])
  BY <1>1, <1>2, <1>5
<1> QED
  BY <1>3, <1>4, <1>5

LEMMA AboveFinite ==
    ASSUME NEW n \in Nat, NEW P, DOMAIN P = 1..n, NEW i
    PROVE  /\ IsFiniteSet(Valid(P)) /\ Cardinality(Valid(P)) \in Nat
           /\ IsFiniteSet(Above(P, i)) /\ Cardinality(Above(P, i)) \in Nat
           /\ Above(P, i) \subseteq Valid(P) /\ Valid(P) \subseteq 1..n
<1>1. Valid(P) \subseteq 1..n /\ Above(P, i) \subseteq Valid(P)
  BY DEF Valid, Above
<1>2. IsFiniteSet(1..n)
  BY FS_Interval
<1>3. IsFiniteSet(Valid(P))
  BY <1>1, <1>2, FS_Subset
<1>4. IsFiniteSet(Above(P, i))
  BY <1>1, <1>3, FS_Subset
<1> QED
  BY <1>1, <1>3, <1>4, FS_CardinalityType

LEMMA RankGrows ==
    ASSUME NEW n \in Nat, NEW P, DOMAIN P = 1..n, RowsOk(P),
           NEW i \in Valid(P), NEW j \in Valid(P), Outranks(P[i], P[j])
    PROVE  Cardinality(Above(P, i)) < Cardinality(Above(P, j))
<1>1. i \in 1..n /\ j \in 1..n /\ Valid(P) \subseteq 1..n
  BY AboveFinite
<1>2. i \notin Above(P, i) /\ i \in Above(P, j)
  BY <1>1, OutranksOrders DEF Above
<1>3. Above(P, i) \subseteq Above(P, j)
  BY <1>1, OutranksOrders DEF Above
<1>4. /\ IsFiniteSet(Above(P, i)) /\ Cardinality(Above(P, i)) \in Nat
      /\ IsFiniteSet(Above(P, j)) /\ Cardinality(Above(P, j)) \in Nat
  BY AboveFinite
<1>5. Cardinality(Above(P, i)) <= Cardinality(Above(P, j))
      /\ (Cardinality(Above(P, j)) = Cardinality(Above(P, i)) => Above(P, j) = Above(P, i))
  BY <1>3, <1>4, FS_Subset
<1> QED
  BY <1>2, <1>4, <1>5

LEMMA RankIsOne ==
    ASSUME NEW n \in Nat, NEW P, DOMAIN P = 1..n, RowsOk(P),
           NEW i \in Valid(P), NEW j \in Valid(P),
           Cardinality(Above(P, i)) = Cardinality(Above(P, j))
    PROVE  i = j
<1> SUFFICES ASSUME i # j PROVE FALSE
  OBVIOUS
<1>1. i \in 1..n /\ j \in 1..n
  BY AboveFinite
<1>2. Outranks(P[i], P[j]) \/ Outranks(P[j], P[i])
  BY <1>1, OutranksOrders
<1>3. Cardinality(Above(P, i)) \in Nat /\ Cardinality(Above(P, j)) \in Nat
  BY AboveFinite
<1>4. CASE Outranks(P[i], P[j])
  BY <1>3, <1>4, RankGrows
<1>5. CASE Outranks(P[j], P[i])
  BY <1>3, <1>5, RankGrows
<1> QED
  BY <1>2, <1>4, <1>5

LEMMA EveryRank ==
    ASSUME NEW n \in Nat, NEW P, DOMAIN P = 1..n, RowsOk(P), NEW r \in 1..Cardinality(Valid(P))
    PROVE  \E i \in Valid(P) : Cardinality(Above(P, i)) = r - 1
<1> DEFINE V == Valid(P)
           m == Cardinality(V)
           T == 0..(m - 1)
           f == [i \in V |-> Cardinality(Above(P, i))]
<1>1. V \subseteq 1..n /\ IsFiniteSet(V) /\ m \in Nat
  BY AboveFinite
<1>2. ASSUME NEW i \in V PROVE Cardinality(Above(P, i)) \in T
  <2>1. /\ Above(P, i) \subseteq V /\ Cardinality(Above(P, i)) \in Nat
    BY AboveFinite
  <2>2. i \notin Above(P, i)
    BY <1>1, OutranksOrders DEF Above
  <2>3. Cardinality(Above(P, i)) <= m /\ (m = Cardinality(Above(P, i)) => V = Above(P, i))
    BY <1>1, <2>1, FS_Subset
  <2> QED
    BY <1>1, <2>1, <2>2, <2>3
<1>3. f \in Injection(V, T)
  <2>1. f \in [V -> T]
    BY <1>2
  <2>2. \A i, j \in V : f[i] = f[j] => i = j
    BY RankIsOne
  <2> HIDE DEF f, V, T
  <2> QED
    BY <2>1, <2>2 DEF Injection, IsInjective
<1>4. IsFiniteSet(T) /\ Cardinality(T) = m
  <2> HIDE DEF m
  <2> QED
    BY <1>1, FS_Interval
<1>5. f \in Surjection(V, T)
  <2> HIDE DEF f, T
  <2> QED
    BY <1>3, <1>4, FS_Injection
<1>6. r - 1 \in T
  BY <1>1
<1>7. \E i \in V : f[i] = r - 1
  <2> HIDE DEF f, V, T
  <2> QED
    BY <1>5, <1>6 DEF Surjection
<1> QED
  BY <1>7

LEMMA RowsCounted ==
    ASSUME NEW n \in Nat, NEW P, DOMAIN P = 1..n, RowsOk(P), NEW S \in SUBSET (1..n)
    PROVE  Cardinality({P[i] : i \in S}) = Cardinality(S)
<1> DEFINE T == {P[i] : i \in S}
           f == [i \in S |-> P[i]]
<1>1. f \in [S -> T] /\ \A t \in T : \E i \in S : f[i] = t
  OBVIOUS
<1>2. ASSUME NEW i \in S, NEW j \in S, f[i] = f[j] PROVE i = j
  <2>1. P[i].index = i /\ P[j].index = j
    BY DEF RowsOk
  <2>2. P[i] = P[j]
    BY <1>2
  <2> QED
    BY <2>1, <2>2
<1>3. f \in Bijection(S, T)
  <2> HIDE DEF f, T
  <2> QED
    BY <1>1, <1>2 DEF Bijection, Injection, Surjection, IsInjective
<1>4. IsFiniteSet(S)
  <2>1. IsFiniteSet(1..n)
    BY FS_Interval
  <2> QED
    BY <2>1, FS_Subset
<1>5. Cardinality(T) = Cardinality(S)
  <2> HIDE DEF f, T
  <2> QED
    BY <1>3, <1>4, FS_Bijection DEF ExistsBijection
<1> QED
  BY <1>5

LEMMA RankedRows ==
    ASSUME NEW n \in Nat, NEW P, DOMAIN P = 1..n, RowsOk(P)
    PROVE  /\ DOMAIN Ranked(P) = 1..Cardinality(Valid(P)) /\ Cardinality(Valid(P)) \in Nat
           /\ \A r \in 1..Cardinality(Valid(P)) :
                 \E i \in Valid(P) : Ranked(P)[r] = P[i] /\ Cardinality(Above(P, i)) = r - 1
<1> DEFINE valid == {p \in Range(P) : p.reject = ""}
           rank(p) == Cardinality({q \in valid : Outranks(q, p)})
<1>1. Ranked(P) = [r \in 1 .. Cardinality(valid) |-> CHOOSE p \in valid : rank(p) = r - 1]
  BY DEF Ranked
<1>2. valid = {P[i] : i \in Valid(P)}
  BY DEF Valid, Range
<1>3. Valid(P) \subseteq 1..n /\ Cardinality(Valid(P)) \in Nat
  BY AboveFinite
<1>4. Cardinality(valid) = Cardinality(Valid(P))
  <2>1. Cardinality({P[i] : i \in Valid(P)}) = Cardinality(Valid(P))
    BY <1>3, RowsCounted
  <2> HIDE DEF valid
  <2> QED
    BY <1>2, <2>1
<1>5. ASSUME NEW i \in Valid(P) PROVE rank(P[i]) = Cardinality(Above(P, i))
  <2>1. {q \in valid : Outranks(q, P[i])} = {P[j] : j \in Above(P, i)}
    BY <1>2 DEF Above
  <2>2. Above(P, i) \subseteq 1..n
    BY AboveFinite
  <2>3. Cardinality({P[j] : j \in Above(P, i)}) = Cardinality(Above(P, i))
    BY <2>2, RowsCounted
  <2> QED
    BY <2>1, <2>3
<1> HIDE DEF valid, rank
<1>6. ASSUME NEW r \in 1..Cardinality(Valid(P))
      PROVE  \E i \in Valid(P) : Ranked(P)[r] = P[i] /\ Cardinality(Above(P, i)) = r - 1
  <2>1. PICK i \in Valid(P) : Cardinality(Above(P, i)) = r - 1
    BY EveryRank
  <2> DEFINE x == CHOOSE p \in valid : rank(p) = r - 1
  <2>2. P[i] \in valid /\ rank(P[i]) = r - 1
    BY <1>2, <1>5, <2>1
  <2>3. x \in valid /\ rank(x) = r - 1
    BY <2>2
  <2>4. Ranked(P)[r] = x
    BY <1>1, <1>4
  <2> HIDE DEF x
  <2>5. PICK j \in Valid(P) : x = P[j]
    BY <1>2, <2>3
  <2>6. Cardinality(Above(P, j)) = r - 1
    BY <1>5, <2>3, <2>5
  <2> QED
    BY <2>4, <2>5, <2>6
<1> QED
  BY <1>1, <1>3, <1>4, <1>6

(* A turned table has the same ranks.                                      *)
TurnedRows(P, Q, n, J, k) ==
    /\ DOMAIN P = 1..n /\ DOMAIN Q = 1..n
    /\ \A i \in 1..n : /\ P[i].index = i
                       /\ P[i].weight \in Nat
                       /\ P[i].correlation \in Int /\ P[i].sign \in Int /\ P[i].zscore \in Int
                       /\ J[i] \in Units /\ TurnedRow(P[i], Q[i], J[i], k)

LEMMA SameRanks ==
    ASSUME NEW n \in Nat, NEW P, NEW Q, NEW J, NEW k \in Units, TurnedRows(P, Q, n, J, k)
    PROVE  \E m \in Nat :
              /\ DOMAIN Ranked(P) = 1..m /\ DOMAIN Ranked(Q) = 1..m
              /\ \A r \in 1..m : \E i \in 1..n : Ranked(P)[r] = P[i] /\ Ranked(Q)[r] = Q[i]
<1>1. ASSUME NEW i \in 1..n
      PROVE  /\ P[i].index = i /\ Q[i].index = i /\ Q[i].reject = P[i].reject
             /\ P[i].correlation \in Int /\ Q[i].correlation \in Int
             /\ Abs(Q[i].correlation) = Abs(P[i].correlation)
  <2>1. /\ P[i].index = i /\ P[i].correlation \in Int /\ J[i] \in Units
        /\ Q[i].index = P[i].index /\ Q[i].reject = P[i].reject
        /\ Q[i].correlation = (J[i] * k) * P[i].correlation
    BY DEF TurnedRows, TurnedRow
  <2>2. J[i] * k \in Units
    BY <2>1 DEF Units
  <2>3. /\ (J[i] * k) * P[i].correlation \in Int
        /\ Abs((J[i] * k) * P[i].correlation) = Abs(P[i].correlation)
    BY <2>1, <2>2, UnitTimes
  <2> QED
    BY <2>1, <2>3
<1>2. DOMAIN P = 1..n /\ DOMAIN Q = 1..n
  BY DEF TurnedRows
<1>3. RowsOk(P) /\ RowsOk(Q)
  BY <1>1, <1>2 DEF RowsOk
<1>4. Valid(Q) = Valid(P) /\ Valid(P) \subseteq 1..n
  BY <1>1, <1>2 DEF Valid
<1>5. ASSUME NEW i \in Valid(P) PROVE Above(Q, i) = Above(P, i)
  <2>1. \A j \in Valid(P) : Outranks(Q[j], Q[i]) <=> Outranks(P[j], P[i])
    BY <1>1, <1>4 DEF Outranks
  <2> QED
    BY <1>4, <2>1 DEF Above
<1> DEFINE m == Cardinality(Valid(P))
<1>6. /\ m \in Nat /\ DOMAIN Ranked(P) = 1..m
      /\ \A r \in 1..m : \E i \in Valid(P) : Ranked(P)[r] = P[i] /\ Cardinality(Above(P, i)) = r - 1
  BY <1>2, <1>3, RankedRows
<1>7. /\ DOMAIN Ranked(Q) = 1..m
      /\ \A r \in 1..m : \E i \in Valid(P) : Ranked(Q)[r] = Q[i] /\ Cardinality(Above(Q, i)) = r - 1
  <2>1. /\ DOMAIN Ranked(Q) = 1..Cardinality(Valid(Q))
        /\ \A r \in 1..Cardinality(Valid(Q)) :
              \E i \in Valid(Q) : Ranked(Q)[r] = Q[i] /\ Cardinality(Above(Q, i)) = r - 1
    BY <1>2, <1>3, RankedRows
  <2> QED
    BY <1>4, <2>1
<1>8. ASSUME NEW r \in 1..m
      PROVE  \E i \in 1..n : Ranked(P)[r] = P[i] /\ Ranked(Q)[r] = Q[i]
  <2>1. PICK i \in Valid(P) : Ranked(P)[r] = P[i] /\ Cardinality(Above(P, i)) = r - 1
    BY <1>6
  <2>2. PICK j \in Valid(P) : Ranked(Q)[r] = Q[j] /\ Cardinality(Above(Q, j)) = r - 1
    BY <1>7
  <2>3. Cardinality(Above(P, i)) = Cardinality(Above(P, j))
    BY <1>5, <2>1, <2>2
  <2>4. i = j
    BY <1>2, <1>3, <2>3, RankIsOne
  <2> QED
    BY <1>4, <2>1, <2>2, <2>4
<1> HIDE DEF m
<1> QED
  BY <1>6, <1>7, <1>8

(* The weights. *)
LEMMA QuotientOfTimes ==
    ASSUME NEW k \in Units, NEW a \in Int, NEW b \in Nat \ {0}
    PROVE  Quotient(k * a, b) = k * Quotient(a, b) /\ Quotient(a, b) \in Int
<1> DEFINE d == Abs(a) \div b
<1>1. Abs(k * a) = Abs(a) /\ Sign(k * a) = k * Sign(a) /\ k * a \in Int
  BY UnitTimes
<1>2. d \in Int /\ Sign(a) \in Int
  BY AbsType, SignType
<1>3. Quotient(k * a, b) = (k * Sign(a)) * d /\ Quotient(a, b) = Sign(a) * d
  BY <1>1 DEF Quotient
<1> HIDE DEF d
<1>4. (k * Sign(a)) * d = k * (Sign(a) * d) /\ Sign(a) * d \in Int
  <2>1. CASE k = 1
    BY <1>2, <2>1
  <2>2. CASE k = -1
    <3>1. (-Sign(a)) * d = -(Sign(a) * d) /\ Sign(a) * d \in Int
      BY <1>2
    <3>2. k * Sign(a) = -Sign(a) /\ k * (Sign(a) * d) = -(Sign(a) * d)
      BY <1>2, <2>2, <3>1
    <3> QED
      BY <3>1, <3>2
  <2> QED
    BY <2>1, <2>2 DEF Units
<1> QED
  BY <1>3, <1>4

LEMMA TotalOfNats ==
    ASSUME NEW s \in Seq(Int), \A i \in 1..Len(s) : s[i] >= 0
    PROVE  Total(s) \in Nat
<1>1. PICK h : Sums(h, s) /\ Total(s) = h[Len(s)]
  BY TotalAsSums
<1> DEFINE G == {i \in 0..Len(s) : h[i] >= 0}
<1>2. Len(s) \in Nat /\ 0 \in G
  BY <1>1 DEF Sums
<1>3. ASSUME NEW i \in 1..Len(s), i - 1 \in G PROVE i \in G
  <2>1. h[i] = h[i - 1] + s[i] /\ h[i - 1] \in Int /\ s[i] \in Int /\ i - 1 \in 0..Len(s)
    BY <1>1 DEF Sums
  <2> QED
    BY <1>3, <2>1
<1>4. \A i \in 0..Len(s) : i \in G
  <2> HIDE DEF G
  <2> QED
    BY <1>2, <1>3, UpTo
<1>5. Len(s) \in 0..Len(s)
  BY <1>2
<1> QED
  BY <1>1, <1>4, <1>5 DEF Sums

DecayFold(f, n) ==
    f = [t \in SUBSET (1..n) |-> IF t = {} THEN 100 ELSE (f[t \ {Max(t)}] * RankDecay) \div 100]

LEMMA DecayOfFold == ASSUME NEW n PROVE Decay(n) = (CHOOSE f : DecayFold(f, n))[1..n]
<1> DEFINE s == [j \in 1..n |-> j]
<1>1. DOMAIN s = 1..n
  OBVIOUS
<1>2. Decay(n) = (CHOOSE f : f = [t \in SUBSET DOMAIN s |->
                      IF t = {} THEN 100 ELSE (f[t \ {Max(t)}] * RankDecay) \div 100])[DOMAIN s]
  BY DEF Decay, FoldLeft, MapThenFoldSet
<1> HIDE DEF s
<1> QED
  BY <1>1, <1>2 DEF DecayFold

LEMMA DecayStep == ASSUME NEW x \in Nat PROVE (x * RankDecay) \div 100 \in Nat
<1>1. RankDecay \in Nat
  BY ModelAssumption
<1>2. x * RankDecay \in Nat
  BY <1>1
<1> QED
  BY <1>2

LEMMA DecayIsNat == ASSUME NEW n \in Nat PROVE Decay(n) \in Nat
<1> DEFINE f == CHOOSE g : DecayFold(g, n)
           F == [p \in Nat \X Nat |-> (p[2] * RankDecay) \div 100]
<1>1. DecayFold(f, n)
  <2>1. F \in [Nat \X Nat -> Nat] /\ 100 \in Nat
    BY DecayStep
  <2>2. PICK g \in [SUBSET (1..n) -> Nat] : FoldsBy(g, n, 100, F)
    <3> HIDE DEF F
    <3> QED
      BY <2>1, FoldsByExists, Zenon
  <2>3. ASSUME NEW t \in SUBSET (1..n), t # {}
        PROVE  F[<<Max(t), g[t \ {Max(t)}]>>] = (g[t \ {Max(t)}] * RankDecay) \div 100
    <3>1. Max(t) \in 1..n /\ t \ {Max(t)} \in SUBSET (1..n)
      BY <2>3, MaxIn
    <3>2. <<Max(t), g[t \ {Max(t)}]>> \in Nat \X Nat
      BY <3>1
    <3> QED
      BY <3>2
  <2> HIDE DEF F
  <2>4. \A t \in SUBSET (1..n) :
            (IF t = {} THEN 100 ELSE F[<<Max(t), g[t \ {Max(t)}]>>])
                = (IF t = {} THEN 100 ELSE (g[t \ {Max(t)}] * RankDecay) \div 100)
    BY <2>3
  <2>5. [t \in SUBSET (1..n) |-> IF t = {} THEN 100 ELSE F[<<Max(t), g[t \ {Max(t)}]>>]]
          = [t \in SUBSET (1..n) |->
                IF t = {} THEN 100 ELSE (g[t \ {Max(t)}] * RankDecay) \div 100]
    BY <2>4, Zenon
  <2>6. DecayFold(g, n)
    BY <2>2, <2>5, Zenon DEF DecayFold, FoldsBy
  <2> QED
    BY <2>6
<1>2. Decay(n) = f[1..n]
  BY DecayOfFold
<1> HIDE DEF f
<1>3. f[1..0] = 100
  <2>1. 1..0 \in SUBSET (1..n) /\ 1..0 = {}
    OBVIOUS
  <2> QED
    BY <1>1, <2>1 DEF DecayFold
<1>4. ASSUME NEW i \in 1..n PROVE f[1..i] = (f[1..(i - 1)] * RankDecay) \div 100
  <2>1. f[1..i] = (f[(1..i) \ {Max(1..i)}] * RankDecay) \div 100
    BY <1>1, AlongIntervals DEF DecayFold
  <2> QED
    BY <2>1, AlongIntervals
<1> DEFINE G == {i \in 0..n : f[1..i] \in Nat}
<1>5. 0 \in G
  BY <1>3
<1>6. ASSUME NEW i \in 1..n, i - 1 \in G PROVE i \in G
  <2> DEFINE x == f[1..(i - 1)]
  <2>1. x \in Nat
    BY <1>6
  <2>2. f[1..i] = (x * RankDecay) \div 100
    BY <1>4
  <2> HIDE DEF x
  <2>3. f[1..i] \in Nat
    BY <2>1, <2>2, DecayStep
  <2> QED
    BY <2>3
<1>7. \A i \in 0..n : i \in G
  <2> HIDE DEF G
  <2> QED
    BY <1>5, <1>6, UpTo
<1>8. n \in 0..n
  OBVIOUS
<1> QED
  BY <1>2, <1>7, <1>8

LEMMA RawWeightIsNat ==
    ASSUME NEW mode \in {"equal", "manual", "correlation", "ranked"},
           NEW w \in Nat, NEW c \in Nat, NEW r \in Nat \ {0}
    PROVE  RawWeight(mode, w, c, r) \in Nat
<1>1. Decay(r - 1) \in Nat
  BY DecayIsNat
<1> DEFINE d == Decay(r - 1)
<1> HIDE DEF d
<1>2. w * c \in Nat /\ w * 100 \in Nat
  OBVIOUS
<1>3. w * c * d \in Nat
  BY <1>1, <1>2 DEF d
<1>4. (w * c * d) \div 100 \in Nat
  BY <1>3
<1>5. CASE mode = "equal"
  BY <1>5 DEF RawWeight
<1>6. CASE mode = "manual"
  BY <1>2, <1>6 DEF RawWeight
<1>7. CASE mode = "correlation"
  BY <1>2, <1>7 DEF RawWeight
<1>8. CASE mode = "ranked"
  <2>1. RawWeight(mode, w, c, r) = (w * c * Decay(r - 1)) \div 100
    BY <1>8 DEF RawWeight
  <2> QED
    BY <1>4, <2>1 DEF d
<1> QED
  BY <1>5, <1>6, <1>7, <1>8

(* The signal itself.                                                      *)
Weighed(reasons, raw, contribution) ==
    IF Total(raw) = 0 \/ reasons # {} THEN 0
    ELSE Quotient(Total(Products(raw, contribution)), Total(raw))

LEMMA SignalIsWeighed ==
    ASSUME NEW prepared, NEW ranked, NEW reasons, NEW reference, NEW raw, NEW contribution
    PROVE  Signal(prepared, ranked, reasons, reference, raw, contribution).signal
             = Weighed(reasons, raw, contribution)
<1>1. ASSUME NEW r, NEW x, NEW y, NEW z PROVE Result(prepared, ranked, r, x, y, z).signal = y
  BY DEF Result
<1>2. CASE Total(raw) = 0
  <2> DEFINE more == {IF ranked = <<>> THEN "no_valid_factors_after_filters"
                      ELSE "all_factor_weights_zero"}
             all == Products(raw, contribution)
  <2>1. Signal(prepared, ranked, reasons, reference, raw, contribution)
          = Result(prepared, ranked, reasons \union more, reference, 0, all)
    BY <1>2, Zenon DEF Signal
  <2> HIDE DEF more, all
  <2> QED
    BY <1>1, <1>2, <2>1 DEF Weighed
<1>3. CASE Total(raw) # 0
  <2> DEFINE said == IF reasons = {}
                     THEN Quotient(Total(Products(raw, contribution)), Total(raw)) ELSE 0
             all == Products(raw, contribution)
  <2>1. Signal(prepared, ranked, reasons, reference, raw, contribution)
          = Result(prepared, ranked, reasons, reference, said, all)
    BY <1>3, Zenon DEF Signal
  <2>2. said = Weighed(reasons, raw, contribution)
    BY <1>3 DEF Weighed
  <2> HIDE DEF said, all
  <2> QED
    BY <1>1, <2>1, <2>2
<1> QED
  BY <1>2, <1>3

LEMMA WeighedTurned ==
    ASSUME NEW k \in Units, NEW reasons, NEW raw \in Seq(Int), NEW c \in Seq(Int),
           Len(raw) = Len(c), \A r \in 1..Len(raw) : raw[r] >= 0
    PROVE  /\ Weighed(reasons, raw, c) \in Int
           /\ Weighed(reasons, raw, Times(k, c)) = k * Weighed(reasons, raw, c)
<1> DEFINE a == Total(Products(raw, c))
           b == Total(raw)
<1>1. b \in Nat
  BY TotalOfNats
<1>2. a \in Int /\ Total(Products(raw, Times(k, c))) = k * a
  <2>1. 1 \in Units /\ 1 * k = k /\ Times(1, raw) = raw
    BY TimesOne DEF Units
  <2>2. Products(Times(1, raw), Times(k, c)) = Times(1 * k, Products(raw, c))
    BY <2>1, ProductsOfTimes
  <2>3. Products(raw, Times(k, c)) = Times(k, Products(raw, c))
    BY <2>1, <2>2
  <2>4. Products(raw, c) \in Seq(Int)
    BY ProductsType
  <2> QED
    BY <2>3, <2>4, TotalOfTimes
<1>3. CASE b = 0 \/ reasons # {}
  <2>1. k * 0 = 0
    BY DEF Units
  <2> QED
    BY <1>3, <2>1 DEF Weighed
<1>4. CASE b # 0 /\ reasons = {}
  <2>1. Weighed(reasons, raw, c) = Quotient(a, b)
    BY <1>4 DEF Weighed
  <2>2. Weighed(reasons, raw, Times(k, c)) = Quotient(k * a, b)
    BY <1>2, <1>4 DEF Weighed
  <2> HIDE DEF a, b
  <2> QED
    BY <1>1, <1>2, <1>4, <2>1, <2>2, QuotientOfTimes
<1> QED
  BY <1>3, <1>4

Raw(T, mode) ==
    [r \in DOMAIN T |-> RawWeight(mode, Larger(T[r].weight, 0), Abs(T[r].correlation), r)]
Contribution(T) == [r \in DOMAIN T |-> T[r].sign * T[r].zscore]

LEMMA ContributionOfTimes ==
    ASSUME NEW j \in Units, NEW k \in Units, NEW x \in Int, NEW y \in Int
    PROVE  x * y \in Int /\ ((j * k) * x) * (j * y) = k * (x * y)
<1> DEFINE u == j * k
<1>1. u \in Units /\ u * j = k
  BY DEF Units
<1> HIDE DEF u
<1>2. (u * x) * (j * y) = (u * j) * (x * y)
  BY <1>1, UnitArithmetic
<1>3. x * y \in Int /\ (u * x) * (j * y) = k * (x * y)
  BY <1>1, <1>2
<1> QED
  BY <1>3 DEF u

LEMMA RowsTurned ==
    ASSUME NEW n \in Nat, NEW P, NEW Q, NEW J, NEW k \in Units, TurnedRows(P, Q, n, J, k),
           NEW mode \in {"equal", "manual", "correlation", "ranked"}
    PROVE  LET R == Ranked(P)
           IN  /\ Raw(R, mode) \in Seq(Int) /\ \A r \in 1..Len(Raw(R, mode)) : Raw(R, mode)[r] >= 0
               /\ Contribution(R) \in Seq(Int) /\ Len(Contribution(R)) = Len(Raw(R, mode))
               /\ Raw(Ranked(Q), mode) = Raw(R, mode)
               /\ Contribution(Ranked(Q)) = Times(k, Contribution(R))
<1> DEFINE R == Ranked(P)
           S == Ranked(Q)
<1>1. PICK m \in Nat :
          /\ DOMAIN R = 1..m /\ DOMAIN S = 1..m
          /\ \A r \in 1..m : \E i \in 1..n : R[r] = P[i] /\ S[r] = Q[i]
  BY SameRanks
<1> HIDE DEF R, S
<1>2. ASSUME NEW r \in 1..m
      PROVE  /\ R[r].sign * R[r].zscore \in Int
             /\ S[r].sign * S[r].zscore = k * (R[r].sign * R[r].zscore)
             /\ Larger(R[r].weight, 0) \in Nat /\ S[r].weight = R[r].weight
             /\ Abs(R[r].correlation) \in Nat /\ Abs(S[r].correlation) = Abs(R[r].correlation)
  <2>1. PICK i \in 1..n : R[r] = P[i] /\ S[r] = Q[i]
    BY <1>1
  <2> DEFINE j == J[i]
             x == R[r].sign
             y == R[r].zscore
             c == R[r].correlation
  <2>2. /\ R[r].weight \in Nat /\ c \in Int /\ x \in Int /\ y \in Int /\ j \in Units
        /\ S[r].weight = R[r].weight /\ S[r].correlation = (j * k) * c
        /\ S[r].sign = (j * k) * x /\ S[r].zscore = j * y
    BY <2>1 DEF TurnedRows, TurnedRow
  <2> HIDE DEF j, x, y, c
  <2>3. x * y \in Int /\ ((j * k) * x) * (j * y) = k * (x * y)
    <3>1. j \in Units /\ x \in Int /\ y \in Int
      BY <2>2
    <3> QED
      BY <3>1, ContributionOfTimes, Zenon
  <2>4. j * k \in Units
    BY <2>2 DEF Units
  <2>5. Abs((j * k) * c) = Abs(c) /\ Abs(c) \in Nat
    BY <2>2, <2>4, UnitTimes, AbsType
  <2>6. Larger(R[r].weight, 0) \in Nat
    BY <2>2 DEF Larger
  <2> QED
    BY <2>2, <2>3, <2>5, <2>6 DEF x, y, c
<1> DEFINE w(T, r) == RawWeight(mode, Larger(T[r].weight, 0), Abs(T[r].correlation), r)
<1>3. ASSUME NEW r \in 1..m PROVE w(R, r) \in Nat /\ w(S, r) = w(R, r)
  <2>1. r \in Nat \ {0}
    OBVIOUS
  <2>2. w(R, r) \in Nat
    BY <1>2, <2>1, RawWeightIsNat
  <2> QED
    BY <1>2, <2>2
<1>4. Raw(R, mode) = [r \in 1..m |-> w(R, r)] /\ Raw(S, mode) = [r \in 1..m |-> w(S, r)]
  BY <1>1 DEF Raw
<1> HIDE DEF w
<1>5. Raw(S, mode) = Raw(R, mode)
  BY <1>3, <1>4
<1>6. /\ Raw(R, mode) \in Seq(Int) /\ Len(Raw(R, mode)) = m
      /\ \A r \in 1..m : Raw(R, mode)[r] >= 0
  BY <1>3, <1>4
<1> DEFINE v(T, r) == T[r].sign * T[r].zscore
<1>7. /\ Contribution(R) = [r \in 1..m |-> v(R, r)] /\ Contribution(S) = [r \in 1..m |-> v(S, r)]
      /\ \A r \in 1..m : v(R, r) \in Int /\ v(S, r) = k * v(R, r)
  BY <1>1, <1>2 DEF Contribution
<1> HIDE DEF v
<1>8. Contribution(R) \in Seq(Int) /\ Len(Contribution(R)) = m
  BY <1>7
<1>9. Contribution(S) = Times(k, Contribution(R))
  <2>1. Times(k, Contribution(R)) = [r \in 1..m |-> k * v(R, r)]
    BY <1>7 DEF Times
  <2> QED
    BY <1>7, <2>1
<1> QED
  BY <1>5, <1>6, <1>8, <1>9 DEF R, S

(* The whole model: with each series multiplied by a J[i] and the returns   *)
(* by k, its signal is multiplied by k.                                     *)
Listed(F, n) == F = [i \in 1..n |-> F[i]]
AllPrepared(F, n) == [i \in 1..n |-> PrepareFactor(i, F[i])]

TurnedInputs(F, G, n, J, k) ==
    /\ Listed(F, n) /\ Listed(G, n)
    /\ \A i \in 1..n : InputOk(F[i]) /\ J[i] \in Units /\ TurnedInput(F[i], G[i], J[i], k)

LEMMA EmptyInputs == ASSUME NEW F, Listed(F, 0) PROVE F = <<>>
<1>0. F = [i \in 1..0 |-> F[i]]
  BY DEF Listed
<1>1. 1..0 = {} /\ DOMAIN F = 1..0
  BY <1>0
<1>2. F \in Seq({})
  BY <1>0, <1>1
<1>3. Len(F) = 0
  BY <1>1, <1>2
<1> QED
  BY <1>2, <1>3

LEMMA ModelOfRows ==
    ASSUME NEW n \in Nat, n # 0, NEW F, Listed(F, n), NEW mode, NEW a, NEW b
    PROVE  LET R == Ranked(AllPrepared(F, n))
           IN  BuildZscoreSignal(F, mode, a, b)
                 = Signal(AllPrepared(F, n), R, {a, b} \ {""}, Reference(F, R),
                          Raw(R, mode), Contribution(R))
<1>1. DOMAIN F = 1..n
  BY DEF Listed
<1>2. F # <<>>
  BY <1>1
<1> DEFINE P == [i \in DOMAIN F |-> PrepareFactor(i, F[i])]
           R == Ranked(P)
<1>3. BuildZscoreSignal(F, mode, a, b)
        = Signal(P, R, {a, b} \ {""}, Reference(F, R),
                 [r \in DOMAIN R |->
                     RawWeight(mode, Larger(R[r].weight, 0), Abs(R[r].correlation), r)],
                 [r \in DOMAIN R |-> R[r].sign * R[r].zscore])
  BY <1>2, Zenon DEF BuildZscoreSignal, Rank, Judge, Combine
<1>4. P = AllPrepared(F, n)
  BY <1>1 DEF AllPrepared
<1> HIDE DEF P
<1>5. BuildZscoreSignal(F, mode, a, b)
        = Signal(P, R, {a, b} \ {""}, Reference(F, R), Raw(R, mode), Contribution(R))
  BY <1>3, Zenon DEF Raw, Contribution
<1> QED
  BY <1>4, <1>5

LEMMA ModelSignal ==
    ASSUME NEW n \in Nat, n # 0, NEW F, Listed(F, n), NEW mode, NEW a, NEW b
    PROVE  BuildZscoreSignal(F, mode, a, b).signal
             = Weighed({a, b} \ {""}, Raw(Ranked(AllPrepared(F, n)), mode),
                       Contribution(Ranked(AllPrepared(F, n))))
<1> DEFINE P == AllPrepared(F, n)
           R == Ranked(P)
           reasons == {a, b} \ {""}
           reference == Reference(F, R)
<1>1. BuildZscoreSignal(F, mode, a, b)
        = Signal(P, R, reasons, reference, Raw(R, mode), Contribution(R))
  BY ModelOfRows, Zenon
<1> HIDE DEF P, reasons, reference
<1>2. Signal(P, R, reasons, reference, Raw(R, mode), Contribution(R)).signal
        = Weighed(reasons, Raw(R, mode), Contribution(R))
  BY SignalIsWeighed
<1>3. BuildZscoreSignal(F, mode, a, b).signal = Weighed(reasons, Raw(R, mode), Contribution(R))
  BY <1>1, <1>2
<1> QED
  BY <1>3 DEF reasons, P

LEMMA ModelTurned ==
    ASSUME NEW n \in Nat, NEW F, NEW G, NEW J, NEW k \in Units, TurnedInputs(F, G, n, J, k),
           NEW mode \in {"equal", "manual", "correlation", "ranked"}, NEW a, NEW b
    PROVE  /\ BuildZscoreSignal(F, mode, a, b).signal \in Int
           /\ BuildZscoreSignal(G, mode, a, b).signal = k * BuildZscoreSignal(F, mode, a, b).signal
<1>1. /\ Listed(F, n) /\ Listed(G, n)
      /\ \A i \in 1..n : InputOk(F[i]) /\ J[i] \in Units /\ TurnedInput(F[i], G[i], J[i], k)
  BY DEF TurnedInputs
<1>2. CASE n = 0
  <2>1. F = <<>> /\ G = <<>>
    BY <1>1, <1>2, EmptyInputs
  <2>2. k * 0 = 0
    BY DEF Units
  <2> QED
    BY <2>1, <2>2 DEF BuildZscoreSignal, NoFactors
<1>3. CASE n # 0
  <2> DEFINE P == AllPrepared(F, n)
             Q == AllPrepared(G, n)
             reasons == {a, b} \ {""}
  <2>1. BuildZscoreSignal(F, mode, a, b).signal
          = Weighed(reasons, Raw(Ranked(P), mode), Contribution(Ranked(P)))
    BY <1>1, <1>3, ModelSignal
  <2>2. BuildZscoreSignal(G, mode, a, b).signal
          = Weighed(reasons, Raw(Ranked(Q), mode), Contribution(Ranked(Q)))
    BY <1>1, <1>3, ModelSignal
  <2>3. DOMAIN P = 1..n /\ DOMAIN Q = 1..n
    BY DEF AllPrepared
  <2>4. ASSUME NEW i \in 1..n
        PROVE  /\ P[i].index = i /\ P[i].weight \in Nat
               /\ P[i].correlation \in Int /\ P[i].sign \in Int /\ P[i].zscore \in Int
               /\ J[i] \in Units /\ TurnedRow(P[i], Q[i], J[i], k)
    <3>1. InputOk(F[i]) /\ J[i] \in Units /\ TurnedInput(F[i], G[i], J[i], k)
      BY <1>1
    <3>2. LET p == PrepareFactor(i, F[i])
              q == PrepareFactor(i, G[i])
          IN  RowOk(p, i, F[i].weight) /\ TurnedRow(p, q, J[i], k)
      BY <3>1, FactorTurned
    <3>3. P[i] = PrepareFactor(i, F[i]) /\ Q[i] = PrepareFactor(i, G[i])
      BY DEF AllPrepared
    <3>4. F[i].weight \in Nat
      BY <3>1 DEF InputOk
    <3> HIDE DEF P, Q
    <3>5. RowOk(P[i], i, F[i].weight) /\ TurnedRow(P[i], Q[i], J[i], k)
      BY <3>2, <3>3
    <3> QED
      BY <3>1, <3>4, <3>5 DEF RowOk
  <2> HIDE DEF P, Q, reasons
  <2>5. TurnedRows(P, Q, n, J, k)
    BY <2>3, <2>4 DEF TurnedRows
  <2> DEFINE raw == Raw(Ranked(P), mode)
             c == Contribution(Ranked(P))
  <2>6. /\ raw \in Seq(Int) /\ \A r \in 1..Len(raw) : raw[r] >= 0
        /\ c \in Seq(Int) /\ Len(c) = Len(raw)
        /\ Raw(Ranked(Q), mode) = raw /\ Contribution(Ranked(Q)) = Times(k, c)
    BY <2>5, RowsTurned
  <2> HIDE DEF raw, c
  <2>7. /\ Weighed(reasons, raw, c) \in Int
        /\ Weighed(reasons, raw, Times(k, c)) = k * Weighed(reasons, raw, c)
    BY <2>6, WeighedTurned
  <2> QED
    BY <2>1, <2>2, <2>6, <2>7 DEF raw, c
<1> QED
  BY <1>2, <1>3

------------------------------------------------------------------------------
(* The inputs the engine makes, and those of Mirrored.                      *)

InputOf(n, w, c, s, r) == [name |-> n, weight |-> w, current |-> c, series |-> s, returns |-> r]

IsInput(x) == InputOk(x) /\ x = InputOf(x.name, x.weight, x.current, x.series, x.returns)

LEMMA WeightIsNat == ASSUME NEW f \in Factors PROVE DefaultWeight[f] \in Nat
BY FactorCases DEF DefaultWeight

LEMMA EnoughType ==
    ASSUME NEW h, NEW now
    PROVE  /\ Enough(h, now) \in Seq(Factors)
           /\ \A i \in 1..Len(Enough(h, now)) :
                 Enough(h, now)[i] \in DOMAIN h \cap DOMAIN now
<1> DEFINE K == {f \in DOMAIN h \intersect DOMAIN now : Len(h[f]) >= MinHistory}
           s == Kept(FactorNames, K)
<1>1. FactorNames \in Seq(Factors)
  BY FactorCases DEF FactorNames
<1>2. s = Enough(h, now)
  BY DEF Enough
<1>3. K \subseteq DOMAIN h \cap DOMAIN now
  OBVIOUS
<1> HIDE DEF K
<1>4. s \in Seq(Factors \cap K)
  BY <1>1, KeptType
<1> HIDE DEF s
<1>5. s \in Seq(Factors) /\ \A i \in 1..Len(s) : s[i] \in K
  BY <1>4
<1> QED
  BY <1>2, <1>3, <1>5

LEMMA InputsOk ==
    ASSUME NEW st, StateOk(st)
    PROVE  \E n \in Nat : /\ Listed(FactorInputs(st), n)
                          /\ \A i \in 1..n : IsInput(FactorInputs(st)[i])
<1>1. CASE Len(st.returns) < MinHistory
  <2>1. FactorInputs(st) = <<>>
    BY <1>1 DEF FactorInputs
  <2>2. Listed(<<>>, 0) /\ 1..0 = {}
    BY DEF Listed
  <2> QED
    BY <2>1, <2>2
<1>2. CASE ~(Len(st.returns) < MinHistory)
  <2> DEFINE names == Enough(st.histories, st.pending)
             n == Len(names)
             row(i) == [name |-> names[i], weight |-> DefaultWeight[names[i]],
                        current |-> st.pending[names[i]], series |-> st.histories[names[i]],
                        returns |-> st.returns]
  <2>1. FactorInputs(st) = Inputs(names, st)
    BY <1>2 DEF FactorInputs
  <2>2. /\ names \in Seq(Factors)
        /\ \A i \in 1..Len(names) : names[i] \in DOMAIN st.histories \cap DOMAIN st.pending
    BY EnoughType
  <2> HIDE DEF names
  <2>3. n \in Nat /\ DOMAIN names = 1..n
    BY <2>2
  <2>4. FactorInputs(st) = [i \in 1..n |-> row(i)]
    BY <2>1, <2>3 DEF Inputs
  <2>5. ASSUME NEW i \in 1..n PROVE IsInput(row(i))
    <3>1. names[i] \in Factors /\ names[i] \in DOMAIN st.histories /\ names[i] \in DOMAIN st.pending
      BY <2>2
    <3> DEFINE f == names[i]
    <3>2. DefaultWeight[f] \in Nat
      BY <3>1, WeightIsNat
    <3>3. st.pending[f] \in Int /\ st.histories[f] \in Seq(Int) /\ st.returns \in Seq(Int)
      BY <3>1 DEF StateOk
    <3> HIDE DEF f
    <3>4. row(i) = InputOf(f, DefaultWeight[f], st.pending[f], st.histories[f], st.returns)
      BY DEF f, InputOf
    <3> HIDE DEF row
    <3> QED
      BY <3>2, <3>3, <3>4 DEF IsInput, InputOk, InputOf
  <2> HIDE DEF row, n
  <2>6. Listed(FactorInputs(st), n) /\ \A i \in 1..n : FactorInputs(st)[i] = row(i)
    BY <2>4 DEF Listed
  <2> QED
    BY <2>3, <2>5, <2>6
<1> QED
  BY <1>1, <1>2

Opposed(x, opposite) == IF opposite THEN [x EXCEPT !.returns = Minus(@)] ELSE x
Turned(x, F, opposite) ==
    IF x.name \in F THEN [Opposed(x, opposite) EXCEPT !.series = Minus(@), !.current = -@]
    ELSE Opposed(x, opposite)

UnitOf(turned) == IF turned THEN -1 ELSE 1

LEMMA OneTurned ==
    ASSUME NEW x, IsInput(x), NEW F, NEW opposite \in BOOLEAN
    PROVE  TurnedInput(x, Turned(x, F, opposite), UnitOf(x.name \in F), UnitOf(opposite))
<1>1. /\ x = InputOf(x.name, x.weight, x.current, x.series, x.returns)
      /\ x.series \in Seq(Int) /\ x.returns \in Seq(Int) /\ x.current \in Int
  BY DEF IsInput, InputOk
<1> DEFINE y == Opposed(x, opposite)
           z == Turned(x, F, opposite)
<1>2. /\ y = InputOf(x.name, x.weight, x.current, x.series, y.returns)
      /\ y.returns = IF opposite THEN Minus(x.returns) ELSE x.returns
  BY <1>1 DEF InputOf, Opposed
<1>3. y.returns = Times(UnitOf(opposite), x.returns)
  BY <1>1, <1>2, TimesOne DEF UnitOf
<1>4. z = IF x.name \in F THEN [y EXCEPT !.series = Minus(@), !.current = -@] ELSE y
  BY DEF Turned
<1> HIDE DEF y, z
<1>5. /\ z.name = x.name /\ z.weight = x.weight /\ z.returns = y.returns
      /\ z.series = IF x.name \in F THEN Minus(x.series) ELSE x.series
      /\ z.current = IF x.name \in F THEN -x.current ELSE x.current
  BY <1>2, <1>4 DEF InputOf
<1>6. z.series = Times(UnitOf(x.name \in F), x.series)
  BY <1>1, <1>5, TimesOne DEF UnitOf
<1>7. z.current = UnitOf(x.name \in F) * x.current
  BY <1>1, <1>5 DEF UnitOf
<1> QED
  BY <1>3, <1>5, <1>6, <1>7 DEF TurnedInput, z

LEMMA InputsTurned ==
    ASSUME NEW st, StateOk(st), NEW F, NEW opposite \in BOOLEAN
    PROVE  LET X == FactorInputs(st)
               Y == [i \in DOMAIN X |-> Turned(X[i], F, opposite)]
           IN  \E n \in Nat : \E J : TurnedInputs(X, Y, n, J, UnitOf(opposite))
<1> DEFINE X == FactorInputs(st)
           Y == [i \in DOMAIN X |-> Turned(X[i], F, opposite)]
<1>1. PICK n \in Nat : Listed(X, n) /\ \A i \in 1..n : IsInput(X[i])
  BY InputsOk
<1> HIDE DEF X
<1>2. DOMAIN X = 1..n
  BY <1>1 DEF Listed
<1> DEFINE J == [i \in 1..n |-> UnitOf(X[i].name \in F)]
<1>3. ASSUME NEW i \in 1..n
      PROVE  InputOk(X[i]) /\ J[i] \in Units /\ TurnedInput(X[i], Y[i], J[i], UnitOf(opposite))
  <2>1. J[i] = UnitOf(X[i].name \in F) /\ Y[i] = Turned(X[i], F, opposite)
    BY <1>2
  <2>2. UnitOf(X[i].name \in F) \in Units
    BY DEF UnitOf, Units
  <2>3. IsInput(X[i])
    BY <1>1
  <2>4. TurnedInput(X[i], Turned(X[i], F, opposite), UnitOf(X[i].name \in F), UnitOf(opposite))
    BY <2>3, OneTurned
  <2> HIDE DEF J, Y
  <2> QED
    BY <2>1, <2>2, <2>3, <2>4 DEF IsInput
<1>4. Listed(Y, n)
  BY <1>2 DEF Listed
<1> HIDE DEF J, Y
<1>5. TurnedInputs(X, Y, n, J, UnitOf(opposite))
  BY <1>1, <1>3, <1>4 DEF TurnedInputs
<1> QED
  BY <1>5 DEF X, Y

(* What is being handled is the model's answer to the memory.              *)
Modes == cfg.weight_mode \in {"equal", "manual", "correlation", "ranked"}
Answered == Handling => /\ StateOk(Memory)
                        /\ signal.result = Answer(FactorInputs(Memory), Memory, Tick)

LEMMA MirroredSignal ==
    ASSUME Modes, StateOk(Memory), NEW F, NEW opposite \in BOOLEAN
    PROVE  /\ Answer(FactorInputs(Memory), Memory, Tick).signal \in Int
           /\ Mirrored(F, opposite).signal
                = UnitOf(opposite) * Answer(FactorInputs(Memory), Memory, Tick).signal
<1> DEFINE X == FactorInputs(Memory)
           Y == [i \in DOMAIN X |-> Turned(X[i], F, opposite)]
           k == UnitOf(opposite)
           a == RegimeGate(cfg.regime_filter, RegimeLabel(Tick.regime))
           b == VolGate(cfg.vol_filter, Memory.volatilities, CurrentVolatility(Tick))
<1>1. Mirrored(F, opposite) = Answer(Y, Memory, Tick)
  BY Zenon DEF Mirrored, Turned, Opposed
<1>2. \E n \in Nat : \E J : TurnedInputs(X, Y, n, J, k)
  BY InputsTurned
<1>3. Answer(X, Memory, Tick) = BuildZscoreSignal(X, cfg.weight_mode, a, b)
  BY Zenon DEF Answer
<1>4. Answer(Y, Memory, Tick) = BuildZscoreSignal(Y, cfg.weight_mode, a, b)
  BY Zenon DEF Answer
<1>5. k \in Units
  BY DEF UnitOf, Units
<1> HIDE DEF X, Y, k, a, b
<1>6. PICK n \in Nat : \E J : TurnedInputs(X, Y, n, J, k)
  BY <1>2
<1>7. PICK J : TurnedInputs(X, Y, n, J, k)
  BY <1>6
<1>8. /\ BuildZscoreSignal(X, cfg.weight_mode, a, b).signal \in Int
      /\ BuildZscoreSignal(Y, cfg.weight_mode, a, b).signal
           = k * BuildZscoreSignal(X, cfg.weight_mode, a, b).signal
  BY <1>5, <1>7, ModelTurned DEF Modes
<1> QED
  BY <1>1, <1>3, <1>4, <1>8 DEF X, k

LEMMA AnsweredAlways == Spec => []Answered
<1>1. Init => Answered
  BY DEF Init, Answered, Handling
<1>2. IInv /\ Answered /\ [Next]_vars => Answered'
  <2> SUFFICES ASSUME IInv, Answered, [Next]_vars PROVE Answered'
    OBVIOUS
  <2>1. CASE Receive
    <3> DEFINE t == feed[pos + 1]
               st == TakeIn(states[t.symbol], t)
               inputs == FactorInputs(st)
    <3> SUFFICES ASSUME step' = "persist"
                 PROVE  /\ StateOk(Memory')
                        /\ signal'.result = Answer(FactorInputs(Memory), Memory, Tick)'
      BY DEF Answered, Handling
    <3>1. t.symbol \in Symbols /\ states'[t.symbol] = st /\ StateOk(st)
      BY <2>1, ReceiveMemory
    <3>2. Tick' = t /\ Memory' = st /\ cfg' = cfg
      BY <2>1, <3>1 DEF Tick, Memory, Receive
    <3>3. Compute(inputs, st, t)
      BY <2>1 DEF Receive, Observe
    <3> HIDE DEF t, st
    <3>4. signal'.result = Answer(inputs, st, t)
      <4> HIDE DEF inputs
      <4> QED
        BY <3>3 DEF Compute, SignalRecord
    <3>5. Answer(FactorInputs(Memory), Memory, Tick)' = Answer(inputs, st, t)
      BY <3>2 DEF Answer
    <3> QED
      BY <3>1, <3>2, <3>4, <3>5
  <2>2. CASE step' # "persist"
    BY <2>2 DEF Answered, Handling
  <2>3. CASE UNCHANGED <<cfg, feed, pos, states, signal, step>>
    BY <2>3 DEF Answered, Handling, Tick, Memory, Answer
  <2>4. Receive \/ step' # "persist" \/ UNCHANGED <<cfg, feed, pos, states, signal, step>>
    BY DEF Next, Engine, Start, Skip, Persist, WriteStratLog, Publish, Produce, AutoCommit, Crash,
           vars
  <2> QED
    BY <2>1, <2>2, <2>3, <2>4
<1> QED
  BY Invariant, <1>1, <1>2, PTL DEF Spec

(* For all ticks, histories, windows and weights: the engine reads the      *)
(* direction of a factor off the data and off nothing else                  *)
(* (zscore_model.rs:185, 267).                                              *)
THEOREM NoDirectionAssumed == Spec => []MirrorImage
<1>1. Init => Modes
  BY EngineAssumption DEF Init, Modes
<1>2. Modes /\ [Next]_vars => Modes'
  BY DEF Modes, Next, Engine, Start, Skip, Receive, Persist, WriteStratLog, Publish, Produce,
         AutoCommit, Crash, vars
<1>3. Spec => []Answered
  BY AnsweredAlways
<1>4. Modes /\ Answered => MirrorImage
  <2> SUFFICES ASSUME Modes, Answered, Handling
               PROVE  /\ Mirrored({}, TRUE).signal = -signal.result.signal
                      /\ \A f \in DOMAIN Memory.histories :
                            Mirrored({f}, FALSE).signal = signal.result.signal
    BY DEF MirrorImage
  <2> DEFINE x == signal.result.signal
  <2>1. StateOk(Memory) /\ signal.result = Answer(FactorInputs(Memory), Memory, Tick)
    BY DEF Answered
  <2>2. Mirrored({}, TRUE).signal = UnitOf(TRUE) * x
    BY <2>1, MirroredSignal
  <2>3. \A f : Mirrored({f}, FALSE).signal = UnitOf(FALSE) * x
    BY <2>1, MirroredSignal
  <2>4. x \in Int
    BY <2>1, MirroredSignal
  <2> HIDE DEF x
  <2>5. UnitOf(TRUE) * x = -x /\ UnitOf(FALSE) * x = x
    BY <2>4 DEF UnitOf
  <2> QED
    BY <2>2, <2>3, <2>5 DEF x
<1> QED
  BY <1>1, <1>2, <1>3, <1>4, PTL DEF Spec

------------------------------------------------------------------------------
(* What a capped history is worth: the last entries of the uncapped one.    *)

LEMMA KeepsType ==
    ASSUME NEW S, NEW s \in Seq(S), NEW K, NEW h, Keeps(h, s, K)
    PROVE  \A k \in 0..Len(s) : h[k] \in Seq(S)
<1> DEFINE G == {k \in 0..Len(s) : h[k] \in Seq(S)}
<1>1. Len(s) \in Nat /\ 0 \in 0..Len(s) /\ <<>> \in Seq(S)
  OBVIOUS
<1>2. 0 \in G
  BY <1>1 DEF Keeps
<1>3. ASSUME NEW k \in 1..Len(s), k - 1 \in G PROVE k \in G
  <2>1. h[k - 1] \in Seq(S) /\ s[k] \in S /\ k \in 0..Len(s)
    BY <1>3
  <2>2. Append(h[k - 1], s[k]) \in Seq(S)
    BY <2>1
  <2>3. h[k] = IF s[k] \in K THEN Append(h[k - 1], s[k]) ELSE h[k - 1]
    BY DEF Keeps
  <2>4. h[k] \in Seq(S)
    BY <2>1, <2>2, <2>3, Zenon
  <2> QED
    BY <2>1, <2>4
<1>4. \A k \in 0..Len(s) : k \in G
  <2> HIDE DEF G
  <2> QED
    BY <1>1, <1>2, <1>3, UpTo
<1> QED
  BY <1>4

LEMMA KeptStep ==
    ASSUME NEW S, NEW s \in Seq(S), NEW x \in S, NEW K
    PROVE  Kept(Append(s, x), K) = IF x \in K THEN Append(Kept(s, K), x) ELSE Kept(s, K)
<1> DEFINE t == Append(s, x)
           n == Len(s)
<1>1. n \in Nat /\ t \in Seq(S) /\ Len(t) = n + 1 /\ t[n + 1] = x /\ \A i \in 1..n : t[i] = s[i]
  OBVIOUS
<1>2. PICK g : Keeps(g, s, K) /\ Kept(s, K) = g[n]
  BY KeptAsKeeps
<1> HIDE DEF t
<1>3. PICK h : Keeps(h, t, K) /\ Kept(t, K) = h[Len(t)]
  BY <1>1, KeptAsKeeps
<1> DEFINE G == {k \in 0..n : h[k] = g[k]}
<1>4. 0 \in G
  BY <1>1, <1>2, <1>3 DEF Keeps
<1>5. ASSUME NEW k \in 1..n, k - 1 \in G PROVE k \in G
  <2>1. h[k - 1] = g[k - 1] /\ k \in 0..n /\ k \in 1..Len(t) /\ t[k] = s[k]
    BY <1>1, <1>5
  <2>2. h[k] = IF s[k] \in K THEN Append(h[k - 1], s[k]) ELSE h[k - 1]
    BY <1>3, <2>1 DEF Keeps
  <2>3. g[k] = IF s[k] \in K THEN Append(g[k - 1], s[k]) ELSE g[k - 1]
    BY <1>2 DEF Keeps
  <2>4. h[k] = g[k]
    BY <2>1, <2>2, <2>3, Zenon
  <2> QED
    BY <2>1, <2>4
<1>6. \A k \in 0..n : k \in G
  <2> HIDE DEF G, n
  <2> QED
    BY <1>1, <1>4, <1>5, UpTo
<1>7. h[n] = g[n]
  BY <1>1, <1>6
<1>8. h[n + 1] = IF x \in K THEN Append(h[n], x) ELSE h[n]
  <2>1. n + 1 \in 1..Len(t) /\ (n + 1) - 1 = n
    BY <1>1
  <2>2. h[n + 1] = IF t[n + 1] \in K THEN Append(h[(n + 1) - 1], t[n + 1]) ELSE h[(n + 1) - 1]
    BY <1>3, <2>1 DEF Keeps
  <2> QED
    BY <1>1, <2>1, <2>2
<1>9. Kept(t, K) = IF x \in K THEN Append(Kept(s, K), x) ELSE Kept(s, K)
  BY <1>1, <1>2, <1>3, <1>7, <1>8
<1> QED
  BY <1>9 DEF t

LEMMA KeptAgrees ==
    ASSUME NEW S, NEW s \in Seq(S), NEW K, NEW L, \A i \in 1..Len(s) : s[i] \in K <=> s[i] \in L
    PROVE  Kept(s, K) = Kept(s, L)
<1> DEFINE n == Len(s)
<1>1. n \in Nat
  OBVIOUS
<1>2. PICK g : Keeps(g, s, K) /\ Kept(s, K) = g[n]
  BY KeptAsKeeps
<1>3. PICK h : Keeps(h, s, L) /\ Kept(s, L) = h[n]
  BY KeptAsKeeps
<1> DEFINE G == {k \in 0..n : h[k] = g[k]}
<1>4. 0 \in G
  BY <1>1, <1>2, <1>3 DEF Keeps
<1>5. ASSUME NEW k \in 1..n, k - 1 \in G PROVE k \in G
  <2>1. h[k - 1] = g[k - 1] /\ k \in 0..n /\ (s[k] \in K <=> s[k] \in L)
    BY <1>5
  <2>2. h[k] = IF s[k] \in L THEN Append(h[k - 1], s[k]) ELSE h[k - 1]
    BY <1>3 DEF Keeps
  <2>3. g[k] = IF s[k] \in K THEN Append(g[k - 1], s[k]) ELSE g[k - 1]
    BY <1>2 DEF Keeps
  <2>4. h[k] = g[k]
    BY <2>1, <2>2, <2>3
  <2> QED
    BY <2>1, <2>4
<1>6. \A k \in 0..n : k \in G
  <2> HIDE DEF G, n
  <2> QED
    BY <1>1, <1>4, <1>5, UpTo
<1> QED
  BY <1>1, <1>2, <1>3, <1>6

LEMMA RecentOfRecent ==
    ASSUME NEW S, NEW s \in Seq(S), NEW n \in Nat, NEW m \in Nat, m <= n
    PROVE  Recent(Recent(s, n), m) = Recent(s, m)
<1> DEFINE r == Recent(s, n)
           a == Recent(r, m)
           b == Recent(s, m)
<1>1. /\ r \in Seq(S) /\ Len(r) = Smaller(Len(s), n)
      /\ \A i \in 1..Len(r) : r[i] = s[Len(s) - Len(r) + i]
  BY RecentType
<1>2. /\ b \in Seq(S) /\ Len(b) = Smaller(Len(s), m)
      /\ \A i \in 1..Len(b) : b[i] = s[Len(s) - Len(b) + i]
  BY RecentType
<1> HIDE DEF r
<1>3. /\ a \in Seq(S) /\ Len(a) = Smaller(Len(r), m)
      /\ \A i \in 1..Len(a) : a[i] = r[Len(r) - Len(a) + i]
  BY <1>1, RecentType
<1> HIDE DEF a, b
<1>4. /\ Len(s) \in Nat /\ Len(r) \in Nat /\ Len(a) \in Nat
      /\ Len(a) = Len(b) /\ Len(a) <= Len(r) /\ Len(r) <= Len(s)
  BY <1>1, <1>2, <1>3 DEF Smaller
<1>5. ASSUME NEW i \in 1..Len(a) PROVE a[i] = b[i]
  <2>1. Len(r) - Len(a) + i \in 1..Len(r)
        /\ Len(s) - Len(r) + (Len(r) - Len(a) + i) = Len(s) - Len(b) + i
    BY <1>4
  <2> QED
    BY <1>1, <1>2, <1>3, <1>4, <2>1
<1>6. a = b
  BY <1>2, <1>3, <1>4, <1>5, SameSequence
<1> QED
  BY <1>6 DEF a, b, r

LEMMA PushCappedRecent ==
    ASSUME NEW S, NEW s \in Seq(S), NEW x \in S
    PROVE  PushCapped(Recent(s, HistoryCapacity), x) = Recent(Append(s, x), HistoryCapacity)
<1> DEFINE n == HistoryCapacity
           r == Recent(s, n)
           t == Append(r, x)
           u == Append(s, x)
           a == Recent(t, n)
           b == Recent(u, n)
<1>0. n \in Nat
  BY EngineAssumption
<1> HIDE DEF n
<1>1. /\ r \in Seq(S) /\ Len(r) = Smaller(Len(s), n)
      /\ \A i \in 1..Len(r) : r[i] = s[Len(s) - Len(r) + i]
  BY <1>0, RecentType
<1> HIDE DEF r
<1>2. /\ u \in Seq(S) /\ Len(u) = Len(s) + 1 /\ u[Len(s) + 1] = x /\ Len(s) \in Nat
      /\ \A i \in 1..Len(s) : u[i] = s[i]
  OBVIOUS
<1>3. /\ t \in Seq(S) /\ Len(t) = Len(r) + 1 /\ t[Len(r) + 1] = x /\ Len(r) \in Nat
      /\ \A i \in 1..Len(r) : t[i] = r[i]
  BY <1>1
<1> HIDE DEF t, u
<1>4. /\ a \in Seq(S) /\ Len(a) = Smaller(Len(t), n)
      /\ \A i \in 1..Len(a) : a[i] = t[Len(t) - Len(a) + i]
  <2>1. t \in Seq(S)
    BY <1>3
  <2> QED
    BY <1>0, <2>1, RecentType, Zenon
<1>5. /\ b \in Seq(S) /\ Len(b) = Smaller(Len(u), n)
      /\ \A i \in 1..Len(b) : b[i] = u[Len(u) - Len(b) + i]
  <2>1. u \in Seq(S)
    BY <1>2
  <2> QED
    BY <1>0, <2>1, RecentType, Zenon
<1> HIDE DEF a, b
<1>6. /\ Len(a) \in Nat /\ Len(a) = Len(b) /\ Len(a) <= Len(r) + 1 /\ Len(r) <= Len(s)
  BY <1>0, <1>1, <1>2, <1>3, <1>4, <1>5 DEF Smaller
<1>7. ASSUME NEW i \in 1..Len(a) PROVE a[i] = b[i]
  <2>1. CASE i = Len(a)
    <3>1. Len(t) - Len(a) + i = Len(r) + 1 /\ Len(u) - Len(b) + i = Len(s) + 1
      BY <1>2, <1>3, <1>6, <2>1
    <3> QED
      BY <1>2, <1>3, <1>4, <1>5, <1>6, <3>1
  <2>2. CASE i # Len(a)
    <3> DEFINE j == Len(t) - Len(a) + i
               k == Len(u) - Len(b) + i
    <3>1. j \in 1..Len(r) /\ k \in 1..Len(s) /\ Len(s) - Len(r) + j = k
      BY <1>2, <1>3, <1>6, <2>2
    <3>2. a[i] = t[j] /\ b[i] = u[k]
      BY <1>4, <1>5, <1>6
    <3> HIDE DEF j, k
    <3> QED
      BY <1>1, <1>2, <1>3, <3>1, <3>2
  <2> QED
    BY <2>1, <2>2
<1>8. a = b
  BY <1>4, <1>5, <1>6, <1>7, SameSequence
<1> QED
  BY <1>8 DEF PushCapped, a, b, t, u, r, n

(* What is kept of entries that are kept is their end.                     *)
LEMMA KeptEnd ==
    ASSUME NEW S, NEW s \in Seq(S), NEW K, NEW n \in 0..Len(s),
           \A i \in (Len(s) - n + 1)..Len(s) : s[i] \in K
    PROVE  Recent(Kept(s, K), n) = Recent(s, n)
<1> DEFINE m == Len(s) - n
<1>1. Len(s) \in Nat /\ n \in Nat /\ m \in Nat /\ m <= Len(s) /\ m + n = Len(s)
  OBVIOUS
<1>2. PICK h : Keeps(h, s, K) /\ Kept(s, K) = h[Len(s)]
  BY KeptAsKeeps
<1>3. \A k \in 0..Len(s) : h[k] \in Seq(S)
  BY <1>2, KeepsType
<1> HIDE DEF m
<1> DEFINE o == Len(h[m])
           G == {j \in 0..n : Len(h[m + j]) = o + j /\ \A i \in 1..j : h[m + j][o + i] = s[m + i]}
<1>4. h[m] \in Seq(S) /\ o \in Nat
  BY <1>1, <1>3
<1>5. 0 \in G
  BY <1>1, <1>4
<1> HIDE DEF o
<1>6. ASSUME NEW j \in 1..n, j - 1 \in G PROVE j \in G
  <2> DEFINE u == h[m + (j - 1)]
             v == h[m + j]
  <2>1. Len(u) = o + (j - 1) /\ (\A i \in 1..(j - 1) : u[o + i] = s[m + i]) /\ j \in 0..n
    <3> DEFINE q == j - 1
    <3>1. q \in G
      BY <1>6
    <3> HIDE DEF q
    <3>2. Len(h[m + q]) = o + q /\ \A i \in 1..q : h[m + q][o + i] = s[m + i]
      BY <3>1
    <3> QED
      BY <3>2 DEF q
  <2>2. /\ m + j \in 1..Len(s) /\ (m + j) - 1 = m + (j - 1) /\ m + (j - 1) \in 0..Len(s)
        /\ m + j \in (Len(s) - n + 1)..Len(s)
    BY <1>1
  <2>3. u \in Seq(S) /\ s[m + j] \in S /\ s[m + j] \in K
    BY <1>3, <2>2
  <2>4. v = Append(u, s[m + j])
    BY <1>2, <2>2, <2>3 DEF Keeps
  <2> HIDE DEF u, v
  <2>5. Len(v) = o + j
    <3>1. Len(v) = Len(u) + 1
      BY <2>3, <2>4
    <3> QED
      BY <1>4, <2>1, <3>1
  <2>6. ASSUME NEW i \in 1..j PROVE v[o + i] = s[m + i]
    <3>1. CASE i = j
      BY <1>4, <2>1, <2>3, <2>4, <3>1
    <3>2. CASE i # j
      <4>1. i \in 1..(j - 1) /\ o + i \in 1..Len(u)
        BY <1>4, <2>1, <3>2
      <4> QED
        BY <2>1, <2>3, <2>4, <4>1
    <3> QED
      BY <3>1, <3>2
  <2> QED
    BY <2>1, <2>5, <2>6 DEF v
<1>7. \A j \in 0..n : j \in G
  <2> HIDE DEF G
  <2> QED
    BY <1>1, <1>5, <1>6, UpTo
<1> DEFINE t == Kept(s, K)
           a == Recent(t, n)
           b == Recent(s, n)
<1>8. t \in Seq(S) /\ Len(t) = o + n /\ \A i \in 1..n : t[o + i] = s[m + i]
  <2>1. n \in G /\ Len(s) \in 0..Len(s)
    <3> HIDE DEF G
    <3> QED
      BY <1>1, <1>7
  <2> QED
    BY <1>1, <1>2, <1>3, <2>1
<1> HIDE DEF t
<1>9. /\ a \in Seq(S) /\ Len(a) = n /\ \A i \in 1..n : a[i] = t[o + i]
  <2>1. /\ a \in Seq(S) /\ Len(a) = Smaller(Len(t), n)
        /\ \A i \in 1..Len(a) : a[i] = t[Len(t) - Len(a) + i]
    BY <1>1, <1>8, RecentType
  <2>2. Len(a) = n /\ Len(t) - Len(a) = o
    BY <1>1, <1>4, <1>8, <2>1 DEF Smaller
  <2> HIDE DEF a
  <2> QED
    BY <2>1, <2>2
<1>10. /\ b \in Seq(S) /\ Len(b) = n /\ \A i \in 1..n : b[i] = s[m + i]
  <2>1. /\ b \in Seq(S) /\ Len(b) = Smaller(Len(s), n)
        /\ \A i \in 1..Len(b) : b[i] = s[Len(s) - Len(b) + i]
    BY <1>1, RecentType
  <2>2. Len(b) = n /\ Len(s) - Len(b) = m
    BY <1>1, <2>1 DEF Smaller
  <2> HIDE DEF b
  <2> QED
    BY <2>1, <2>2
<1> HIDE DEF a, b
<1>11. a = b
  BY <1>8, <1>9, <1>10, SameSequence
<1> QED
  BY <1>11 DEF a, b, t

------------------------------------------------------------------------------
(* What the ticks of a symbol leave in its memory.                          *)

UsableTicks == {t \in Ticks : Usable(t)}

PairOf(p, t) == [factors |-> FactorSnapshot(p), return |-> Return(p.vwap, t.vwap)]
AllPairs(ticks) == [i \in 1 .. Len(ticks) - 1 |-> PairOf(ticks[i], ticks[i + 1])]

PairSet == [factors : {FactorSnapshot(t) : t \in Ticks}, return : Int]
Having(f) == {p \in PairSet : f \in DOMAIN p.factors}

Returns(pairs) == [i \in DOMAIN pairs |-> pairs[i].return]
Values(f, pairs) == [i \in DOMAIN pairs |-> pairs[i].factors[f]]
Volatilities(ticks) == [i \in DOMAIN ticks |-> CurrentVolatility(ticks[i])]

(* st is what the ticks leave behind.                                      *)
RememberedBy(st, ticks) ==
    /\ IF ticks = <<>> THEN st.last_vwap = NaN /\ st.pending = <<>>
       ELSE LET t == ticks[Len(ticks)] IN st.last_vwap = t.vwap /\ st.pending = FactorSnapshot(t)
    /\ st.volatilities = Recent(Sanitize(Volatilities(ticks)), HistoryCapacity)
    /\ st.returns = Recent(Returns(AllPairs(ticks)), HistoryCapacity)
    /\ DOMAIN st.histories = {f \in Factors : Pairs(f, ticks) # <<>>}
    /\ \A f \in DOMAIN st.histories :
          st.histories[f] = Recent(Values(f, Pairs(f, ticks)), HistoryCapacity)

LEMMA UsableVwap == ASSUME NEW t \in UsableTicks PROVE t \in Ticks /\ t.vwap \in Int \ {0}
BY DEF UsableTicks, Usable, Ticks, Real

LEMMA PairType ==
    ASSUME NEW p \in UsableTicks, NEW t \in UsableTicks
    PROVE  /\ PairOf(p, t) \in PairSet
           /\ PairOf(p, t).factors = FactorSnapshot(p) /\ PairOf(p, t).return = Return(p.vwap, t.vwap)
<1>1. /\ p \in Ticks /\ t \in Ticks /\ p.vwap \in Int \ {0} /\ t.vwap \in Int \ {0}
  BY UsableVwap
<1>2. Return(p.vwap, t.vwap) \in Int
  BY <1>1, ReturnType
<1>3. FactorSnapshot(p) \in {FactorSnapshot(x) : x \in Ticks}
  BY <1>1
<1> QED
  BY <1>2, <1>3 DEF PairOf, PairSet

LEMMA AllPairsType ==
    ASSUME NEW ticks \in Seq(UsableTicks)
    PROVE  /\ AllPairs(ticks) \in Seq(PairSet)
           /\ Len(AllPairs(ticks)) = IF ticks = <<>> THEN 0 ELSE Len(ticks) - 1
           /\ \A i \in 1..Len(AllPairs(ticks)) :
                 AllPairs(ticks)[i] = PairOf(ticks[i], ticks[i + 1])
<1> DEFINE n == IF ticks = <<>> THEN 0 ELSE Len(ticks) - 1
<1>1. n \in Nat /\ 1 .. Len(ticks) - 1 = 1..n
  <2>1. Len(ticks) \in Nat /\ (ticks = <<>> <=> Len(ticks) = 0)
    OBVIOUS
  <2>2. CASE Len(ticks) = 0
    BY <2>1, <2>2
  <2>3. CASE Len(ticks) # 0
    BY <2>1, <2>3
  <2> QED
    BY <2>2, <2>3
<1>2. ASSUME NEW i \in 1..n PROVE PairOf(ticks[i], ticks[i + 1]) \in PairSet
  <2>1. i \in 1..Len(ticks) /\ i + 1 \in 1..Len(ticks)
    OBVIOUS
  <2>2. ticks[i] \in UsableTicks /\ ticks[i + 1] \in UsableTicks
    BY <2>1
  <2> QED
    BY <2>2, PairType
<1> HIDE DEF n
<1>3. AllPairs(ticks) = [i \in 1..n |-> PairOf(ticks[i], ticks[i + 1])]
  BY <1>1 DEF AllPairs
<1>4. AllPairs(ticks) \in Seq(PairSet) /\ Len(AllPairs(ticks)) = n
  BY <1>1, <1>2, <1>3
<1>5. \A i \in 1..n : AllPairs(ticks)[i] = PairOf(ticks[i], ticks[i + 1])
  BY <1>3
<1> QED
  BY <1>4, <1>5 DEF n

LEMMA PairsKept ==
    ASSUME NEW ticks \in Seq(UsableTicks), NEW f
    PROVE  Pairs(f, ticks) = Kept(AllPairs(ticks), Having(f))
<1> DEFINE all == AllPairs(ticks)
           K == {p \in Range(all) : f \in DOMAIN p.factors}
<1>1. Pairs(f, ticks) = Kept(all, K)
  BY DEF Pairs, AllPairs, PairOf
<1>2. all \in Seq(PairSet)
  BY AllPairsType
<1> HIDE DEF all
<1>3. \A i \in 1..Len(all) : all[i] \in K <=> all[i] \in Having(f)
  BY <1>2 DEF Having, Range
<1> HIDE DEF K
<1>4. Kept(all, K) = Kept(all, Having(f))
  BY <1>2, <1>3, KeptAgrees
<1> QED
  BY <1>1, <1>4 DEF all

LEMMA PairsType ==
    ASSUME NEW ticks \in Seq(UsableTicks), NEW f
    PROVE  /\ Pairs(f, ticks) \in Seq(Having(f))
           /\ Len(Pairs(f, ticks)) <= Len(AllPairs(ticks))
<1>1. AllPairs(ticks) \in Seq(PairSet)
  BY AllPairsType
<1>2. PairSet \cap Having(f) = Having(f)
  BY DEF Having
<1> QED
  BY <1>1, <1>2, PairsKept, KeptType

(* One more tick.                                                          *)
LEMMA PairsOfFirst ==
    ASSUME NEW t \in UsableTicks
    PROVE  /\ AllPairs(Append(<<>>, t)) = <<>>
           /\ \A f : Pairs(f, Append(<<>>, t)) = <<>>
<1> DEFINE ticks == Append(<<>>, t)
<1>1. ticks \in Seq(UsableTicks) /\ Len(ticks) = 1
  OBVIOUS
<1> HIDE DEF ticks
<1>2. AllPairs(ticks) \in Seq(PairSet) /\ Len(AllPairs(ticks)) = 0
  BY <1>1, AllPairsType
<1>3. AllPairs(ticks) = <<>>
  BY <1>2
<1>4. ASSUME NEW f PROVE Pairs(f, ticks) = <<>>
  <2>1. Pairs(f, ticks) \in Seq(Having(f)) /\ Len(Pairs(f, ticks)) <= 0
    BY <1>1, <1>2, PairsType
  <2> DEFINE q == Pairs(f, ticks)
  <2> HIDE DEF q
  <2>2. q \in Seq(Having(f)) /\ Len(q) <= 0
    BY <2>1 DEF q
  <2>3. q = <<>>
    BY <2>2
  <2> QED
    BY <2>3 DEF q
<1> QED
  BY <1>3, <1>4 DEF ticks

LEMMA AllPairsStep ==
    ASSUME NEW ticks \in Seq(UsableTicks), ticks # <<>>, NEW t \in UsableTicks
    PROVE  LET p == PairOf(ticks[Len(ticks)], t)
           IN  AllPairs(Append(ticks, t)) = Append(AllPairs(ticks), p) /\ p \in PairSet
<1> DEFINE u == Append(ticks, t)
           n == Len(ticks)
           p == PairOf(ticks[n], t)
           a == AllPairs(u)
           b == Append(AllPairs(ticks), p)
<1>1. /\ n \in Nat /\ n # 0 /\ u \in Seq(UsableTicks) /\ Len(u) = n + 1 /\ u # <<>>
      /\ u[n + 1] = t /\ \A i \in 1..n : u[i] = ticks[i]
  OBVIOUS
<1>2. p \in PairSet
  <2>1. ticks[n] \in UsableTicks
    BY <1>1
  <2> QED
    BY <2>1, PairType
<1> HIDE DEF u
<1>3. /\ AllPairs(ticks) \in Seq(PairSet) /\ Len(AllPairs(ticks)) = n - 1
      /\ \A i \in 1..(n - 1) : AllPairs(ticks)[i] = PairOf(ticks[i], ticks[i + 1])
  BY AllPairsType
<1>4. /\ a \in Seq(PairSet) /\ Len(a) = n
      /\ \A i \in 1..n : a[i] = PairOf(u[i], u[i + 1])
  BY <1>1, AllPairsType
<1> HIDE DEF p, n
<1> DEFINE c == AllPairs(ticks)
<1> HIDE DEF c
<1>5. /\ b \in Seq(PairSet) /\ Len(b) = n /\ b[n] = p
      /\ \A i \in 1..(n - 1) : b[i] = c[i]
  <2>1. c \in Seq(PairSet) /\ Len(c) = n - 1
    BY <1>3 DEF c
  <2>2. b = Append(c, p)
    BY DEF c
  <2> HIDE DEF b
  <2> QED
    BY <1>1, <1>2, <2>1, <2>2
<1> HIDE DEF a, b
<1>6. ASSUME NEW i \in 1..n PROVE a[i] = b[i]
  <2>1. CASE i = n
    BY <1>1, <1>4, <1>5, <2>1 DEF p, n
  <2>2. CASE i # n
    <3>1. i \in 1..(n - 1) /\ i + 1 \in 1..n
      BY <1>1, <2>2
    <3> QED
      BY <1>1, <1>3, <1>4, <1>5, <3>1 DEF c
  <2> QED
    BY <2>1, <2>2
<1>7. a = b
  BY <1>4, <1>5, <1>6, SameSequence
<1> QED
  BY <1>2, <1>7 DEF a, b, p, n, u

LEMMA PairsStep ==
    ASSUME NEW ticks \in Seq(UsableTicks), ticks # <<>>, NEW t \in UsableTicks, NEW f
    PROVE  LET l == ticks[Len(ticks)]
               p == PairOf(l, t)
           IN  Pairs(f, Append(ticks, t))
                 = IF f \in DOMAIN FactorSnapshot(l) THEN Append(Pairs(f, ticks), p)
                   ELSE Pairs(f, ticks)
<1> DEFINE l == ticks[Len(ticks)]
           p == PairOf(l, t)
           K == Having(f)
           u == Append(ticks, t)
           all == AllPairs(ticks)
<1>1. AllPairs(u) = Append(all, p) /\ p \in PairSet
  BY AllPairsStep
<1>2. u \in Seq(UsableTicks)
  OBVIOUS
<1>3. l \in UsableTicks
  OBVIOUS
<1>4. p.factors = FactorSnapshot(l)
  BY <1>3, PairType
<1> HIDE DEF u, p, l
<1>5. p \in K <=> f \in DOMAIN FactorSnapshot(l)
  BY <1>1, <1>4 DEF Having
<1>6. Pairs(f, u) = Kept(AllPairs(u), K) /\ Pairs(f, ticks) = Kept(all, K)
  BY <1>2, PairsKept
<1>7. all \in Seq(PairSet)
  BY AllPairsType
<1> HIDE DEF all, K
<1>8. Kept(Append(all, p), K) = IF p \in K THEN Append(Kept(all, K), p) ELSE Kept(all, K)
  BY <1>1, <1>7, KeptStep
<1> QED
  BY <1>1, <1>5, <1>6, <1>8 DEF u, p, l

(* What is read off the pairs, entry by entry.                             *)
LEMMA ReturnsType ==
    ASSUME NEW P \in Seq(PairSet)
    PROVE  /\ Returns(P) \in Seq(Int) /\ Len(Returns(P)) = Len(P)
           /\ \A i \in 1..Len(P) : Returns(P)[i] = P[i].return
<1>1. \A i \in 1..Len(P) : P[i].return \in Int
  <2> SUFFICES ASSUME NEW i \in 1..Len(P) PROVE P[i].return \in Int
    OBVIOUS
  <2>1. P[i] \in PairSet
    OBVIOUS
  <2> QED
    BY <2>1 DEF PairSet
<1>2. Returns(P) = [i \in 1..Len(P) |-> P[i].return] /\ Len(P) \in Nat
  BY DEF Returns
<1> QED
  BY <1>1, <1>2

LEMMA ValuesType ==
    ASSUME NEW f, NEW P \in Seq(Having(f))
    PROVE  /\ Values(f, P) \in Seq(Int) /\ Len(Values(f, P)) = Len(P)
           /\ \A i \in 1..Len(P) : Values(f, P)[i] = P[i].factors[f]
<1>1. ASSUME NEW i \in 1..Len(P) PROVE P[i].factors[f] \in Int
  <2>1. P[i] \in Having(f)
    OBVIOUS
  <2>2. P[i].factors \in {FactorSnapshot(t) : t \in Ticks} /\ f \in DOMAIN P[i].factors
    BY <2>1 DEF Having, PairSet
  <2>3. PICK t \in Ticks : P[i].factors = FactorSnapshot(t)
    BY <2>2
  <2> QED
    BY <2>2, <2>3, SnapshotType
<1>2. Values(f, P) = [i \in 1..Len(P) |-> P[i].factors[f]] /\ Len(P) \in Nat
  BY DEF Values
<1> QED
  BY <1>1, <1>2

LEMMA ReturnsStep ==
    ASSUME NEW P \in Seq(PairSet), NEW p \in PairSet
    PROVE  Returns(Append(P, p)) = Append(Returns(P), p.return) /\ p.return \in Int
<1> DEFINE Q == Append(P, p)
           a == Returns(Q)
           b == Append(Returns(P), p.return)
<1>1. Q \in Seq(PairSet) /\ Len(Q) = Len(P) + 1 /\ Len(P) \in Nat
      /\ Q[Len(P) + 1] = p /\ \A i \in 1..Len(P) : Q[i] = P[i]
  OBVIOUS
<1>2. p.return \in Int
  BY DEF PairSet
<1> HIDE DEF Q
<1>3. a \in Seq(Int) /\ Len(a) = Len(Q) /\ \A i \in 1..Len(Q) : a[i] = Q[i].return
  BY <1>1, ReturnsType
<1>4. Returns(P) \in Seq(Int) /\ Len(Returns(P)) = Len(P)
      /\ \A i \in 1..Len(P) : Returns(P)[i] = P[i].return
  BY ReturnsType
<1>5. b \in Seq(Int) /\ Len(b) = Len(P) + 1 /\ b[Len(P) + 1] = p.return
      /\ \A i \in 1..Len(P) : b[i] = P[i].return
  BY <1>2, <1>4
<1> HIDE DEF a, b
<1>6. ASSUME NEW i \in 1..Len(a) PROVE a[i] = b[i]
  <2>1. CASE i = Len(P) + 1
    BY <1>1, <1>3, <1>5, <2>1
  <2>2. CASE i # Len(P) + 1
    <3>1. i \in 1..Len(P)
      BY <1>1, <1>3, <2>2
    <3> QED
      BY <1>1, <1>3, <1>5, <3>1
  <2> QED
    BY <2>1, <2>2
<1>7. a = b
  BY <1>1, <1>3, <1>5, <1>6, SameSequence
<1> QED
  BY <1>2, <1>7 DEF a, b, Q

LEMMA ValuesStep ==
    ASSUME NEW f, NEW P \in Seq(Having(f)), NEW p \in Having(f)
    PROVE  Values(f, Append(P, p)) = Append(Values(f, P), p.factors[f]) /\ p.factors[f] \in Int
<1> DEFINE Q == Append(P, p)
           a == Values(f, Q)
           b == Append(Values(f, P), p.factors[f])
<1>1. Q \in Seq(Having(f)) /\ Len(Q) = Len(P) + 1 /\ Len(P) \in Nat
      /\ Q[Len(P) + 1] = p /\ \A i \in 1..Len(P) : Q[i] = P[i]
  OBVIOUS
<1> HIDE DEF Q
<1>3. a \in Seq(Int) /\ Len(a) = Len(Q) /\ \A i \in 1..Len(Q) : a[i] = Q[i].factors[f]
  BY <1>1, ValuesType
<1>2. p.factors[f] \in Int
  <2>1. Len(P) + 1 \in 1..Len(a)
    BY <1>1, <1>3
  <2> HIDE DEF a
  <2>2. a[Len(P) + 1] \in Int
    BY <1>3, <2>1
  <2> QED
    BY <1>1, <1>3, <2>1, <2>2
<1>4. Values(f, P) \in Seq(Int) /\ Len(Values(f, P)) = Len(P)
      /\ \A i \in 1..Len(P) : Values(f, P)[i] = P[i].factors[f]
  BY ValuesType
<1>5. b \in Seq(Int) /\ Len(b) = Len(P) + 1 /\ b[Len(P) + 1] = p.factors[f]
      /\ \A i \in 1..Len(P) : b[i] = P[i].factors[f]
  BY <1>2, <1>4
<1> HIDE DEF a, b
<1>6. ASSUME NEW i \in 1..Len(a) PROVE a[i] = b[i]
  <2>1. CASE i = Len(P) + 1
    BY <1>1, <1>3, <1>5, <2>1
  <2>2. CASE i # Len(P) + 1
    <3>1. i \in 1..Len(P)
      BY <1>1, <1>3, <2>2
    <3> QED
      BY <1>1, <1>3, <1>5, <3>1
  <2> QED
    BY <2>1, <2>2
<1>7. a = b
  BY <1>1, <1>3, <1>5, <1>6, SameSequence
<1> QED
  BY <1>2, <1>7 DEF a, b, Q

LEMMA VolatilitiesType ==
    ASSUME NEW ticks \in Seq(UsableTicks)
    PROVE  /\ Volatilities(ticks) \in Seq(Real) /\ Len(Volatilities(ticks)) = Len(ticks)
           /\ \A i \in 1..Len(ticks) : Volatilities(ticks)[i] = CurrentVolatility(ticks[i])
           /\ Sanitize(Volatilities(ticks)) \in Seq(Int)
<1>1. \A i \in 1..Len(ticks) : CurrentVolatility(ticks[i]) \in Real
  <2> SUFFICES ASSUME NEW i \in 1..Len(ticks) PROVE CurrentVolatility(ticks[i]) \in Real
    OBVIOUS
  <2>1. ticks[i] \in Ticks /\ Usable(ticks[i])
    BY DEF UsableTicks
  <2> QED
    BY <2>1, VolatilityType
<1>2. Volatilities(ticks) = [i \in 1..Len(ticks) |-> CurrentVolatility(ticks[i])] /\ Len(ticks) \in Nat
  BY DEF Volatilities
<1>3. /\ Volatilities(ticks) \in Seq(Real) /\ Len(Volatilities(ticks)) = Len(ticks)
      /\ \A i \in 1..Len(ticks) : Volatilities(ticks)[i] = CurrentVolatility(ticks[i])
  BY <1>1, <1>2
<1>4. Sanitize(Volatilities(ticks)) \in Seq(Real \cap Int)
  BY <1>3, KeptType DEF Sanitize
<1>5. Real \cap Int = Int
  BY DEF Real
<1> QED
  BY <1>3, <1>4, <1>5

LEMMA VolatilitiesStep ==
    ASSUME NEW ticks \in Seq(UsableTicks), NEW t \in UsableTicks
    PROVE  Sanitize(Volatilities(Append(ticks, t)))
             = IF CurrentVolatility(t) \in Int
               THEN Append(Sanitize(Volatilities(ticks)), CurrentVolatility(t))
               ELSE Sanitize(Volatilities(ticks))
<1> DEFINE u == Append(ticks, t)
           v == CurrentVolatility(t)
           s == Volatilities(ticks)
           a == Volatilities(u)
           b == Append(s, v)
<1>1. u \in Seq(UsableTicks) /\ Len(u) = Len(ticks) + 1 /\ Len(ticks) \in Nat
      /\ u[Len(ticks) + 1] = t /\ \A i \in 1..Len(ticks) : u[i] = ticks[i]
  OBVIOUS
<1> HIDE DEF u
<1>2. v \in Real
  BY VolatilityType DEF UsableTicks
<1>3. a \in Seq(Real) /\ Len(a) = Len(u) /\ \A i \in 1..Len(u) : a[i] = CurrentVolatility(u[i])
  BY <1>1, VolatilitiesType
<1>4. s \in Seq(Real) /\ Len(s) = Len(ticks)
      /\ \A i \in 1..Len(ticks) : s[i] = CurrentVolatility(ticks[i])
  BY VolatilitiesType
<1> HIDE DEF s
<1>5. b \in Seq(Real) /\ Len(b) = Len(ticks) + 1 /\ b[Len(ticks) + 1] = v
      /\ \A i \in 1..Len(ticks) : b[i] = CurrentVolatility(ticks[i])
  <2> HIDE DEF v
  <2> QED
    BY <1>2, <1>4
<1> HIDE DEF a, b
<1>6. ASSUME NEW i \in 1..Len(a) PROVE a[i] = b[i]
  <2>1. CASE i = Len(ticks) + 1
    BY <1>1, <1>3, <1>5, <2>1
  <2>2. CASE i # Len(ticks) + 1
    <3>1. i \in 1..Len(ticks)
      BY <1>1, <1>3, <2>2
    <3> QED
      BY <1>1, <1>3, <1>5, <3>1
  <2> QED
    BY <2>1, <2>2
<1>7. a = b
  BY <1>1, <1>3, <1>5, <1>6, SameSequence
<1> HIDE DEF v
<1>8. Kept(Append(s, v), Int) = IF v \in Int THEN Append(Kept(s, Int), v) ELSE Kept(s, Int)
  BY <1>2, <1>4, KeptStep
<1> QED
  BY <1>7, <1>8 DEF a, b, u, s, v, Sanitize

LEMMA RecentOfNone == Recent(<<>>, HistoryCapacity) = <<>>
<1> DEFINE e == <<>>
           r == Recent(e, HistoryCapacity)
<1>1. e \in Seq(Int) /\ Len(e) = 0 /\ HistoryCapacity \in Nat
  BY EngineAssumption
<1> HIDE DEF e
<1>2. r \in Seq(Int) /\ Len(r) = Smaller(0, HistoryCapacity)
  BY <1>1, RecentType
<1> HIDE DEF r
<1>3. r = <<>>
  BY <1>1, <1>2 DEF Smaller
<1> QED
  BY <1>3 DEF r, e

(* A tick leaves in the memory what the ticks with it say.                 *)
LEMMA NewRemembers == RememberedBy(NewState, <<>>)
<1> DEFINE e == <<>>
<1>1. e \in Seq(UsableTicks) /\ Len(e) = 0 /\ e = <<>>
  OBVIOUS
<1> HIDE DEF e
<1>2. AllPairs(e) \in Seq(PairSet) /\ Len(AllPairs(e)) = 0
  BY <1>1, AllPairsType
<1>3. AllPairs(e) = <<>>
  BY <1>2
<1>4. ASSUME NEW f PROVE Pairs(f, e) = <<>>
  <2> DEFINE q == Pairs(f, e)
  <2>1. q \in Seq(Having(f)) /\ Len(q) <= 0
    BY <1>1, <1>2, PairsType
  <2> HIDE DEF q
  <2>2. q = <<>>
    BY <2>1
  <2> QED
    BY <2>2 DEF q
<1>5. Returns(AllPairs(e)) = <<>> /\ Volatilities(e) = <<>>
  BY <1>1, <1>3 DEF Returns, Volatilities
<1>6. Sanitize(Volatilities(e)) = <<>>
  <2> DEFINE v == Sanitize(<<>>)
  <2>1. v \in Seq(Int \cap Int) /\ Len(v) <= 0
    <3>1. <<>> \in Seq(Int) /\ Len(<<>>) = 0
      OBVIOUS
    <3> QED
      BY <3>1, KeptType DEF Sanitize
  <2> HIDE DEF v
  <2>2. v = <<>>
    BY <2>1
  <2> QED
    BY <1>5, <2>2 DEF v
<1>7. Recent(<<>>, HistoryCapacity) = <<>>
  BY RecentOfNone
<1>8. {f \in Factors : Pairs(f, e) # <<>>} = {}
  BY <1>4
<1> QED
  BY <1>1, <1>5, <1>6, <1>7, <1>8 DEF RememberedBy, NewState

LEMMA HistoriesRemember ==
    ASSUME NEW ticks \in Seq(UsableTicks), ticks # <<>>, NEW t \in UsableTicks, NEW h,
           DOMAIN h = {f \in Factors : Pairs(f, ticks) # <<>>},
           \A f \in DOMAIN h : h[f] = Recent(Values(f, Pairs(f, ticks)), HistoryCapacity)
    PROVE  LET g == PushAll(h, FactorSnapshot(ticks[Len(ticks)]))
               u == Append(ticks, t)
           IN  /\ DOMAIN g = {f \in Factors : Pairs(f, u) # <<>>}
               /\ \A f \in DOMAIN g : g[f] = Recent(Values(f, Pairs(f, u)), HistoryCapacity)
<1> DEFINE l == ticks[Len(ticks)]
           F == FactorSnapshot(l)
           g == PushAll(h, F)
           u == Append(ticks, t)
           p == PairOf(l, t)
<1>1. l \in UsableTicks
  OBVIOUS
<1>2. l \in Ticks /\ p \in PairSet /\ p.factors = F
  BY <1>1, PairType, UsableVwap
<1>3. DOMAIN F \subseteq Factors
  BY <1>2, SnapshotType
<1>4. \A f : Pairs(f, u) = IF f \in DOMAIN F THEN Append(Pairs(f, ticks), p) ELSE Pairs(f, ticks)
  BY PairsStep
<1>5. \A f : Pairs(f, ticks) \in Seq(Having(f))
  BY PairsType
<1> HIDE DEF u, p, F, l
<1>6. DOMAIN g = DOMAIN h \union DOMAIN F
  BY DEF PushAll
<1>7. \A f : Append(Pairs(f, ticks), p) # <<>>
  <2> SUFFICES ASSUME NEW f PROVE Append(Pairs(f, ticks), p) # <<>>
    OBVIOUS
  <2> DEFINE q == Pairs(f, ticks)
             r == Append(q, p)
  <2>1. q \in Seq(Having(f))
    BY <1>5
  <2> HIDE DEF q
  <2>2. Len(r) = Len(q) + 1 /\ Len(q) \in Nat
    BY <2>1
  <2>3. r # <<>>
    <3> HIDE DEF r
    <3> QED
      BY <2>2
  <2> QED
    BY <2>3 DEF q
<1>8. DOMAIN g = {f \in Factors : Pairs(f, u) # <<>>}
  <2> HIDE DEF g
  <2>1. ASSUME NEW f \in Factors PROVE f \in DOMAIN g <=> Pairs(f, u) # <<>>
    BY <1>4, <1>6, <1>7
  <2> QED
    BY <1>3, <1>6, <2>1
<1>9. ASSUME NEW f \in DOMAIN g
      PROVE  g[f] = Recent(Values(f, Pairs(f, u)), HistoryCapacity)
  <2> DEFINE old == IF f \in DOMAIN h THEN h[f] ELSE <<>>
             q == Pairs(f, ticks)
  <2>1. g[f] = IF f \notin DOMAIN F THEN h[f] ELSE PushCapped(old, F[f])
    BY <1>6 DEF PushAll
  <2>2. CASE f \notin DOMAIN F
    BY <1>4, <1>6, <2>1, <2>2
  <2>3. CASE f \in DOMAIN F
    <3>1. old = Recent(Values(f, q), HistoryCapacity)
      <4>1. CASE f \in DOMAIN h
        BY <4>1
      <4>2. CASE f \notin DOMAIN h
        <5>1. q = <<>>
          BY <1>3, <2>3, <4>2
        <5>2. Values(f, <<>>) = <<>>
          BY DEF Values
        <5> QED
          BY <4>2, <5>1, <5>2, RecentOfNone
      <4> QED
        BY <4>1, <4>2
    <3>2. p \in Having(f) /\ q \in Seq(Having(f))
      BY <1>2, <1>5, <2>3 DEF Having
    <3> HIDE DEF q, old
    <3>3. Values(f, Append(q, p)) = Append(Values(f, q), p.factors[f]) /\ p.factors[f] \in Int
      BY <3>2, ValuesStep
    <3>4. Values(f, q) \in Seq(Int)
      BY <3>2, ValuesType
    <3> DEFINE s == Values(f, q)
               x == p.factors[f]
    <3> HIDE DEF s, x
    <3>5. s \in Seq(Int) /\ x \in Int
      BY <3>3, <3>4 DEF s, x
    <3>6. PushCapped(Recent(s, HistoryCapacity), x) = Recent(Append(s, x), HistoryCapacity)
      BY <3>5, PushCappedRecent
    <3>7. Pairs(f, u) = Append(q, p)
      BY <1>4, <2>3 DEF q
    <3>8. F[f] = x
      BY <1>2 DEF x
    <3> HIDE DEF g
    <3> QED
      BY <2>1, <2>3, <3>1, <3>3, <3>6, <3>7, <3>8 DEF s, x
  <2> QED
    BY <2>2, <2>3
<1> QED
  BY <1>8, <1>9 DEF u, F, l

LEMMA TakeInRemembers ==
    ASSUME NEW st, NEW ticks \in Seq(UsableTicks), RememberedBy(st, ticks), NEW t \in UsableTicks
    PROVE  RememberedBy(TakeIn(st, t), Append(ticks, t))
<1> DEFINE u == Append(ticks, t)
           n == Len(ticks)
           new == TakeIn(st, t)
           C == HistoryCapacity
           v == CurrentVolatility(t)
           w == Sanitize(Volatilities(ticks))
<1>1. n \in Nat /\ u \in Seq(UsableTicks) /\ u # <<>> /\ u[Len(u)] = t
  OBVIOUS
<1>2. /\ new.last_vwap = t.vwap
      /\ new.pending = FactorSnapshot(t)
      /\ new.volatilities = PushVolatility(st.volatilities, v)
      /\ new.returns = IF st.last_vwap = NaN THEN <<>>
                       ELSE PushCapped(st.returns, Return(st.last_vwap, t.vwap))
      /\ new.histories = IF st.last_vwap = NaN THEN <<>> ELSE PushAll(st.histories, st.pending)
  BY DEF TakeIn
<1> HIDE DEF new
<1>3. new.volatilities = Recent(Sanitize(Volatilities(u)), C)
  <2>1. v \in Real /\ w \in Seq(Int)
    BY VolatilityType, VolatilitiesType DEF UsableTicks
  <2>2. Sanitize(Volatilities(u)) = IF v \in Int THEN Append(w, v) ELSE w
    BY VolatilitiesStep
  <2>3. st.volatilities = Recent(w, C)
    BY DEF RememberedBy
  <2> HIDE DEF v, w, u
  <2>4. v \in Int <=> v # NaN
    BY <2>1, ModelAssumption DEF Real
  <2>5. CASE v = NaN
    BY <1>2, <2>2, <2>3, <2>4, <2>5 DEF PushVolatility
  <2>6. CASE v # NaN
    <3>1. PushCapped(Recent(w, C), v) = Recent(Append(w, v), C)
      BY <2>1, <2>4, <2>6, PushCappedRecent
    <3> QED
      BY <1>2, <2>2, <2>3, <2>4, <2>6, <3>1 DEF PushVolatility
  <2> QED
    BY <2>5, <2>6
<1>4. CASE ticks = <<>>
  <2>1. new.returns = <<>> /\ new.histories = <<>>
    BY <1>2, <1>4 DEF RememberedBy
  <2>2. AllPairs(u) = <<>> /\ \A f : Pairs(f, u) = <<>>
    BY <1>4, PairsOfFirst
  <2> HIDE DEF u
  <2>3. Returns(AllPairs(u)) = <<>>
    BY <2>2 DEF Returns
  <2>4. DOMAIN new.histories = {f \in Factors : Pairs(f, u) # <<>>} /\ DOMAIN new.histories = {}
    BY <2>1, <2>2
  <2>5. new.returns = Recent(Returns(AllPairs(u)), C)
    BY <2>1, <2>3, RecentOfNone
  <2>6. RememberedBy(new, u)
    BY <1>1, <1>2, <1>3, <2>4, <2>5 DEF RememberedBy
  <2> QED
    BY <2>6 DEF u, new
<1>5. CASE ticks # <<>>
  <2> DEFINE l == ticks[n]
             P == AllPairs(ticks)
             p == PairOf(l, t)
  <2>1. l \in UsableTicks
    BY <1>1, <1>5
  <2>2. l.vwap \in Int /\ NaN \notin Int
    BY <2>1, UsableVwap, ModelAssumption
  <2>3. st.last_vwap = l.vwap /\ st.pending = FactorSnapshot(l)
    BY <1>5 DEF RememberedBy
  <2>4. p \in PairSet /\ p.return = Return(l.vwap, t.vwap) /\ P \in Seq(PairSet)
    BY <2>1, PairType, AllPairsType
  <2>5. AllPairs(u) = Append(P, p)
    BY <1>5, AllPairsStep
  <2>6. st.returns = Recent(Returns(P), C)
    BY DEF RememberedBy
  <2> DEFINE g == PushAll(st.histories, FactorSnapshot(l))
  <2>7. /\ DOMAIN g = {f \in Factors : Pairs(f, u) # <<>>}
        /\ \A f \in DOMAIN g : g[f] = Recent(Values(f, Pairs(f, u)), C)
    <3>1. /\ DOMAIN st.histories = {f \in Factors : Pairs(f, ticks) # <<>>}
          /\ \A f \in DOMAIN st.histories : st.histories[f] = Recent(Values(f, Pairs(f, ticks)), C)
      BY DEF RememberedBy
    <3> QED
      BY <1>5, <3>1, HistoriesRemember
  <2>8. new.histories = g
    BY <1>2, <2>2, <2>3
  <2> HIDE DEF g, u, P, p, l
  <2>9. new.returns = PushCapped(Recent(Returns(P), C), p.return)
    BY <1>2, <2>2, <2>3, <2>4, <2>6
  <2>10. Returns(Append(P, p)) = Append(Returns(P), p.return) /\ p.return \in Int
    BY <2>4, ReturnsStep
  <2>11. Returns(P) \in Seq(Int)
    BY <2>4, ReturnsType
  <2>12. PushCapped(Recent(Returns(P), C), p.return) = Recent(Append(Returns(P), p.return), C)
    BY <2>10, <2>11, PushCappedRecent
  <2>13. new.returns = Recent(Returns(AllPairs(u)), C)
    BY <2>5, <2>9, <2>10, <2>12
  <2>14. RememberedBy(new, u)
    BY <1>1, <1>2, <1>3, <2>7, <2>8, <2>13 DEF RememberedBy
  <2> QED
    BY <2>14 DEF u, new
<1> QED
  BY <1>4, <1>5

(* What every symbol's memory holds is what the ticks of this incarnation  *)
(* say, and the tick being handled is the last of them.                    *)
ReadOff(topic, offsets) == [i \in DOMAIN offsets |-> topic[offsets[i]]]
TicksOf(s) == ReadOff(feed, seen[s])

Recalls ==
    /\ DOMAIN seen = Symbols
    /\ \A s \in Symbols : /\ seen[s] \in Seq(1 .. Len(feed))
                          /\ TicksOf(s) \in Seq(UsableTicks)
                          /\ RememberedBy(states[s], TicksOf(s))
    /\ Handling => /\ Tick \in UsableTicks
                   /\ seen[Tick.symbol] # <<>>
                   /\ seen[Tick.symbol][Len(seen[Tick.symbol])] = pos

LEMMA ReadOffNone == ASSUME NEW topic PROVE ReadOff(topic, <<>>) = <<>>
BY DEF ReadOff

LEMMA ReadOffStep ==
    ASSUME NEW topic, NEW N, NEW g \in Seq(N), NEW k \in N,
           ReadOff(topic, g) \in Seq(UsableTicks), topic[k] \in UsableTicks
    PROVE  LET h == Append(g, k)
               u == Append(ReadOff(topic, g), topic[k])
           IN  /\ ReadOff(topic, h) = u
               /\ h \in Seq(N) /\ u \in Seq(UsableTicks)
               /\ h # <<>> /\ h[Len(h)] = k
<1> DEFINE h == Append(g, k)
           n == Len(g)
           ticks == ReadOff(topic, g)
           a == ReadOff(topic, h)
           b == Append(ticks, topic[k])
<1>1. /\ h \in Seq(N) /\ Len(h) = n + 1 /\ n \in Nat /\ h[n + 1] = k /\ h # <<>>
      /\ \A i \in 1..n : h[i] = g[i]
  OBVIOUS
<1> HIDE DEF h
<1>2. ticks \in Seq(UsableTicks) /\ Len(ticks) = n /\ \A i \in 1..n : ticks[i] = topic[g[i]]
  BY DEF ReadOff
<1> HIDE DEF ticks
<1>3. b \in Seq(UsableTicks) /\ Len(b) = n + 1 /\ b[n + 1] = topic[k] /\ \A i \in 1..n : b[i] = ticks[i]
  BY <1>1, <1>2
<1> HIDE DEF b
<1>4. DOMAIN h = 1..(n + 1) /\ DOMAIN b = 1..(n + 1)
  BY <1>1, <1>3
<1>5. ASSUME NEW i \in 1..(n + 1) PROVE topic[h[i]] = b[i]
  <2>1. CASE i = n + 1
    BY <1>1, <1>3, <2>1
  <2>2. CASE i # n + 1
    <3>1. i \in 1..n
      BY <1>1, <2>2
    <3> QED
      BY <1>1, <1>2, <1>3, <3>1
  <2> QED
    BY <2>1, <2>2
<1>6. a = [i \in 1..(n + 1) |-> b[i]]
  BY <1>4, <1>5 DEF ReadOff
<1>7. b = [i \in 1..(n + 1) |-> b[i]]
  BY <1>3, <1>4
<1>8. a = b
  BY <1>6, <1>7
<1> QED
  BY <1>1, <1>2, <1>3, <1>8 DEF h, b, ticks

LEMMA InitRecalls == Init => Recalls
<1> SUFFICES ASSUME Init PROVE Recalls
  OBVIOUS
<1>1. DOMAIN seen = Symbols /\ ~Handling
  BY DEF Init, Handling
<1>2. ASSUME NEW s \in Symbols
      PROVE  /\ seen[s] \in Seq(1 .. Len(feed)) /\ TicksOf(s) \in Seq(UsableTicks)
             /\ RememberedBy(states[s], TicksOf(s))
  <2>1. seen[s] = <<>> /\ states[s] = NewState
    BY DEF Init
  <2>2. TicksOf(s) = <<>>
    BY <2>1, ReadOffNone DEF TicksOf
  <2> QED
    BY <2>1, <2>2, NewRemembers
<1> QED
  BY <1>1, <1>2 DEF Recalls

LEMMA NextRecalls == IInv /\ Recalls /\ [Next]_vars => Recalls'
<1> SUFFICES ASSUME IInv, Recalls, [Next]_vars PROVE Recalls'
  OBVIOUS
<1>1. CASE Receive
  <2> DEFINE t == feed[pos + 1]
             z == t.symbol
             st == TakeIn(states[z], t)
  <2>1. /\ pos + 1 \in 1 .. Len(feed) /\ t \in Ticks /\ z \in Symbols
        /\ states' = [states EXCEPT ![z] = st] /\ states'[z] = st
    BY <1>1, ReceiveMemory
  <2>2. /\ t \in UsableTicks /\ feed' = feed /\ pos' = pos + 1
        /\ seen' = [seen EXCEPT ![z] = Append(@, pos + 1)]
    BY <1>1, <2>1 DEF Receive, UsableTicks
  <2>3. feed \in Seq(Ticks) /\ pos \in Nat
    BY DEF IInv, Counted
  <2>4. /\ seen[z] \in Seq(1 .. Len(feed)) /\ TicksOf(z) \in Seq(UsableTicks)
        /\ RememberedBy(states[z], TicksOf(z)) /\ DOMAIN seen = Symbols
    BY <2>1 DEF Recalls
  <2> DEFINE h == Append(seen[z], pos + 1)
             u == Append(TicksOf(z), t)
             N == 1 .. Len(feed)
             k == pos + 1
  <2>5. /\ ReadOff(feed, h) = u /\ h \in Seq(N)
        /\ u \in Seq(UsableTicks) /\ h # <<>> /\ h[Len(h)] = pos + 1
    <3>1. seen[z] \in Seq(N) /\ k \in N /\ feed[k] \in UsableTicks
      BY <2>1, <2>2, <2>4
    <3>2. ReadOff(feed, seen[z]) \in Seq(UsableTicks)
      BY <2>4 DEF TicksOf
    <3> DEFINE g == seen[z]
    <3>3. h = Append(g, k) /\ u = Append(ReadOff(feed, g), feed[k])
      BY DEF TicksOf
    <3>4. k = pos + 1
      OBVIOUS
    <3> HIDE DEF h, u, g, N, k
    <3> QED
      BY <3>1, <3>2, <3>3, <3>4, ReadOffStep DEF g
  <2>6. RememberedBy(st, u)
    BY <2>2, <2>4, TakeInRemembers
  <2>7. seen'[z] = h /\ DOMAIN seen' = Symbols
    BY <2>1, <2>2, <2>4
  <2>8. \A s \in Symbols : TicksOf(s)' = ReadOff(feed, seen'[s])
    BY <2>2 DEF TicksOf
  <2>9. ASSUME NEW s \in Symbols
        PROVE  /\ seen'[s] \in Seq(N) /\ TicksOf(s)' \in Seq(UsableTicks)
               /\ RememberedBy(states'[s], TicksOf(s)')
    <3>1. CASE s = z
      <4>1. TicksOf(s)' = u /\ seen'[s] = h /\ states'[s] = st
        <5> HIDE DEF h, u, st, z, t
        <5> QED
          BY <2>1, <2>5, <2>7, <2>8, <3>1
      <4> HIDE DEF h, u, st, z, t
      <4> QED
        BY <2>5, <2>6, <4>1
    <3>2. CASE s # z
      <4>1. seen'[s] = seen[s] /\ states'[s] = states[s]
        BY <2>1, <2>2, <2>4, <3>2 DEF IInv, Memories
      <4>2. TicksOf(s)' = TicksOf(s)
        BY <2>8, <4>1 DEF TicksOf
      <4> QED
        BY <4>1, <4>2 DEF Recalls
    <3> QED
      BY <3>1, <3>2
  <2>10. Tick' = t /\ Tick'.symbol = z
    BY <2>2 DEF Tick, t, z
  <2> QED
    BY <2>2, <2>5, <2>7, <2>9, <2>10 DEF Recalls, RememberedBy
<1>2. CASE Crash
  <2>1. ASSUME NEW s \in Symbols
        PROVE  /\ seen'[s] \in Seq(1 .. Len(feed)') /\ TicksOf(s)' \in Seq(UsableTicks)
               /\ RememberedBy(states'[s], TicksOf(s)')
    <3>1. seen'[s] = <<>> /\ states'[s] = NewState
      BY <1>2 DEF Crash
    <3>2. TicksOf(s)' = <<>>
      BY <3>1, ReadOffNone DEF TicksOf
    <3> QED
      BY <3>1, <3>2, NewRemembers
  <2>2. DOMAIN seen' = Symbols /\ ~Handling'
    BY <1>2 DEF Crash, Handling
  <2> QED
    BY <2>1, <2>2 DEF Recalls, RememberedBy
<1>3. CASE UNCHANGED <<feed, seen, states>> /\ (step' # "persist" \/ UNCHANGED <<step, pos>>)
  <2>1. ASSUME NEW s \in Symbols
        PROVE  /\ seen'[s] \in Seq(1 .. Len(feed)') /\ TicksOf(s)' \in Seq(UsableTicks)
               /\ RememberedBy(states'[s], TicksOf(s)')
    <3>1. TicksOf(s)' = TicksOf(s)
      BY <1>3 DEF TicksOf
    <3> QED
      BY <1>3, <3>1 DEF Recalls
  <2>2. DOMAIN seen' = Symbols
    BY <1>3 DEF Recalls
  <2>3. Handling' => Handling /\ Tick' = Tick /\ UNCHANGED <<seen, pos>>
    BY <1>3 DEF Handling, Tick
  <2>4. Handling' => /\ Tick' \in UsableTicks
                     /\ seen'[Tick'.symbol] # <<>>
                     /\ seen'[Tick'.symbol][Len(seen'[Tick'.symbol])] = pos'
    BY <2>3 DEF Recalls
  <2> QED
    BY <2>1, <2>2, <2>4 DEF Recalls, RememberedBy
<1>4. Receive \/ Crash
      \/ (UNCHANGED <<feed, seen, states>> /\ (step' # "persist" \/ UNCHANGED <<step, pos>>))
  BY DEF Next, Engine, Start, Skip, Persist, WriteStratLog, Publish, Produce, AutoCommit, vars
<1> QED
  BY <1>1, <1>2, <1>3, <1>4

(* For all ticks: every memory is the end of what the ticks of its symbol  *)
(* since the last start say, pair by pair; neither the capacity nor ticks  *)
(* of other symbols in between change what is remembered                   *)
(* (main.rs:179-230).                                                      *)
THEOREM MemoryIsOfTicks == Spec => []Recalls
BY Invariant, InitRecalls, NextRecalls, PTL DEF Spec

LEMMA ReturnsOfRecent ==
    ASSUME NEW P \in Seq(PairSet), NEW n \in Nat
    PROVE  Recent(Returns(P), n) = Returns(Recent(P, n))
<1> DEFINE r == Returns(P)
           q == Recent(P, n)
           a == Recent(r, n)
           b == Returns(q)
<1>1. r \in Seq(Int) /\ Len(r) = Len(P) /\ (\A i \in 1..Len(P) : r[i] = P[i].return) /\ Len(P) \in Nat
  BY ReturnsType
<1>2. /\ q \in Seq(PairSet) /\ Len(q) = Smaller(Len(P), n)
      /\ \A i \in 1..Len(q) : q[i] = P[Len(P) - Len(q) + i]
  BY RecentType
<1> HIDE DEF r, q
<1>3. /\ a \in Seq(Int) /\ Len(a) = Smaller(Len(r), n)
      /\ \A i \in 1..Len(a) : a[i] = r[Len(r) - Len(a) + i]
  BY <1>1, RecentType
<1>4. b \in Seq(Int) /\ Len(b) = Len(q) /\ \A i \in 1..Len(q) : b[i] = q[i].return
  BY <1>2, ReturnsType
<1> HIDE DEF a, b
<1>5. Len(a) = Len(b) /\ Len(a) \in Nat /\ Len(a) <= Len(P)
  BY <1>1, <1>2, <1>3, <1>4 DEF Smaller
<1>6. ASSUME NEW i \in 1..Len(a) PROVE a[i] = b[i]
  <2>1. Len(P) - Len(q) + i \in 1..Len(P) /\ Len(q) = Len(a)
    BY <1>1, <1>4, <1>5
  <2> QED
    BY <1>1, <1>2, <1>3, <1>4, <2>1
<1>7. a = b
  BY <1>3, <1>4, <1>5, <1>6, SameSequence
<1> QED
  BY <1>7 DEF a, b, r, q

(* Without a gap in the window the returns of the ticks that had a factor  *)
(* end like the returns of all of them.                                    *)
LEMMA ReturnsWithoutGap ==
    ASSUME NEW ticks \in Seq(UsableTicks), ticks # <<>>, NEW f, NoRecentGap(f, ticks)
    PROVE  LET n == Smaller(Len(Pairs(f, ticks)), Window)
           IN  Recent(Returns(Pairs(f, ticks)), n) = Recent(Returns(AllPairs(ticks)), n)
<1> DEFINE P == Pairs(f, ticks)
           A == AllPairs(ticks)
           n == Smaller(Len(P), Window)
           K == Having(f)
           m == Len(ticks)
<1>1. /\ A \in Seq(PairSet) /\ Len(A) = m - 1 /\ m \in Nat /\ m # 0
      /\ \A i \in 1..Len(A) : A[i] = PairOf(ticks[i], ticks[i + 1])
  BY AllPairsType
<1>2. P \in Seq(K) /\ Len(P) <= Len(A) /\ P = Kept(A, K)
  BY PairsType, PairsKept
<1>3. \A i \in m - n .. m - 1 : f \in DOMAIN FactorSnapshot(ticks[i])
  BY DEF NoRecentGap
<1> HIDE DEF P, A, K
<1>4. n \in 0..Len(A) /\ n \in Nat /\ Len(A) \in Nat
  BY <1>1, <1>2, WindowType DEF Smaller
<1> HIDE DEF n
<1>5. ASSUME NEW i \in (Len(A) - n + 1)..Len(A) PROVE A[i] \in K
  <2>1. i \in 1..Len(A) /\ i \in m - n .. m - 1 /\ i \in 1..m /\ i + 1 \in 1..m
    BY <1>1, <1>4
  <2>2. ticks[i] \in UsableTicks /\ ticks[i + 1] \in UsableTicks
    BY <2>1
  <2>3. A[i] = PairOf(ticks[i], ticks[i + 1]) /\ f \in DOMAIN FactorSnapshot(ticks[i])
    BY <1>1, <1>3, <2>1
  <2> QED
    BY <2>2, <2>3, PairType DEF Having, K
<1>6. Recent(Kept(A, K), n) = Recent(A, n)
  BY <1>1, <1>4, <1>5, KeptEnd
<1>7. P \in Seq(PairSet)
  <2>1. K \subseteq PairSet
    BY DEF K, Having
  <2> QED
    BY <1>2, <2>1
<1>8. Recent(Returns(P), n) = Returns(Recent(P, n)) /\ Recent(Returns(A), n) = Returns(Recent(A, n))
  BY <1>1, <1>4, <1>7, ReturnsOfRecent
<1>9. Recent(Returns(P), n) = Recent(Returns(A), n)
  BY <1>2, <1>6, <1>8
<1> QED
  BY <1>9 DEF P, A, n

(* The ends of two pairs of series decide about a factor.                  *)
LEMMA AlignedSame ==
    ASSUME NEW x, NEW y, x.current = y.current, NEW row, NEW pair,
           NEW s, NEW t, Recent(s, Window) = Recent(t, Window)
    PROVE  Aligned(x, row, s, pair) = Aligned(y, row, t, pair)
<1>1. ASSUME NEW r PROVE Correlated(x, r, s) = Correlated(y, r, t)
  <2> DEFINE w == Recent(t, Window)
  <2>1. Correlated(x, r, s)
          = IF Abs(r.correlation) < MinAbsCorrelation THEN Rejected(r, "low_predictive_correlation")
            ELSE IF y.current = NaN THEN Rejected(r, "missing_current_factor_value")
            ELSE [r EXCEPT !.zscore = ZScore(y.current, w, Winsorize)]
    BY Zenon DEF Correlated
  <2> QED
    BY <2>1, Zenon DEF Correlated
<1> QED
  BY <1>1, Zenon DEF Aligned

LEMMA PreparedSame ==
    ASSUME NEW x, NEW y, x.current = y.current, NEW row, NEW C \in Nat, C >= MinHistory, C >= Window,
           NEW V \in Seq(Int), NEW R \in Seq(Int), NEW Q \in Seq(Int),
           Len(Q) = Len(V), Len(V) <= Len(R),
           Recent(Q, Smaller(Len(V), Window)) = Recent(R, Smaller(Len(V), Window))
    PROVE  Prepared(x, row, Recent(V, C), Recent(R, C)) = Prepared(y, row, V, Q)
<1> DEFINE v == Recent(V, C)
           r == Recent(R, C)
           n == Smaller(Len(V), Window)
<1>0. MinHistory \in Nat /\ Window \in Nat /\ Len(V) \in Nat /\ Len(R) \in Nat
  BY ModelAssumption, WindowType
<1>1. v \in Seq(Int) /\ Len(v) = Smaller(Len(V), C) /\ r \in Seq(Int) /\ Len(r) = Smaller(Len(R), C)
  BY RecentType
<1>2. n \in Nat /\ n <= C /\ n <= Window
  BY <1>0 DEF Smaller
<1>3. Recent(v, n) = Recent(V, n) /\ Recent(r, n) = Recent(R, n) /\ Recent(v, Window) = Recent(V, Window)
  BY <1>0, <1>2, RecentOfRecent
<1> HIDE DEF v, r
<1>4. /\ Len(v) < MinHistory <=> Len(V) < MinHistory
      /\ ~(Len(V) < MinHistory) => ~(Len(r) < MinHistory)
      /\ Overlap(v, r) = n /\ Overlap(V, Q) = n
  BY <1>0, <1>1 DEF Smaller, Overlap
<1>5. CASE Len(V) < MinHistory
  <2>1. Prepared(x, row, v, r) = Rejected(row, "insufficient_factor_history")
    BY <1>4, <1>5, Zenon DEF Prepared
  <2>2. Prepared(y, row, V, Q) = Rejected(row, "insufficient_factor_history")
    BY <1>5, Zenon DEF Prepared
  <2>3. Prepared(x, row, v, r) = Prepared(y, row, V, Q)
    BY <2>1, <2>2, Zenon
  <2> QED
    BY <2>3, Zenon DEF v, r
<1>6. CASE ~(Len(V) < MinHistory)
  <2>1. ~(Len(v) < MinHistory) /\ ~(Len(r) < MinHistory) /\ ~(Len(Q) < MinHistory)
    BY <1>4, <1>6, Zenon
  <2> DEFINE pair == SanitizePair(Recent(V, n), Recent(R, n))
  <2> HIDE DEF n
  <2>2. Prepared(x, row, v, r)
          = IF n < 2 THEN Rejected(row, "insufficient_overlap") ELSE Aligned(x, row, v, pair)
    BY <1>3, <1>4, <2>1, Zenon DEF Prepared
  <2>3. Recent(Q, n) = Recent(R, n)
    BY DEF n
  <2>4. Prepared(y, row, V, Q)
          = IF n < 2 THEN Rejected(row, "insufficient_overlap") ELSE Aligned(y, row, V, pair)
    BY <1>4, <1>6, <2>1, <2>3, Zenon DEF Prepared
  <2> HIDE DEF pair
  <2>5. Aligned(x, row, v, pair) = Aligned(y, row, V, pair)
    BY <1>3, AlignedSame
  <2>6. Prepared(x, row, v, r) = Prepared(y, row, V, Q)
    <3>1. CASE n < 2
      BY <2>2, <2>4, <3>1, Zenon
    <3>2. CASE ~(n < 2)
      BY <2>2, <2>4, <2>5, <3>2, Zenon
    <3> QED
      BY <3>1, <3>2
  <2> QED
    BY <2>6, Zenon DEF v, r
<1> QED
  BY <1>5, <1>6

(* The row of a factor is that of its true pairs.                          *)
LEMMA TrueRow ==
    ASSUME NEW ticks \in Seq(UsableTicks), ticks # <<>>, NEW f, NoRecentGap(f, ticks),
           HistoryCapacity >= Larger(MinHistory, Window), NEW st, RememberedBy(st, ticks),
           f \in DOMAIN st.histories, NEW i, NEW w, NEW c
    PROVE  LET P == Pairs(f, ticks)
           IN  PrepareFactor(i, InputOf(f, w, c, st.histories[f], st.returns))
                 = PrepareFactor(i, InputOf(f, w, c, Values(f, P), Returns(P)))
<1> DEFINE P == Pairs(f, ticks)
           A == AllPairs(ticks)
           V == Values(f, P)
           R == Returns(A)
           Q == Returns(P)
           C == HistoryCapacity
           x == InputOf(f, w, c, Recent(V, C), Recent(R, C))
           y == InputOf(f, w, c, V, Q)
           row == [index |-> i, name |-> f, weight |-> w, reject |-> "",
                   correlation |-> 0, sign |-> 0, zscore |-> 0]
<1>1. st.histories[f] = Recent(V, C) /\ st.returns = Recent(R, C)
  BY DEF RememberedBy
<1>2. P \in Seq(Having(f)) /\ Len(P) <= Len(A) /\ A \in Seq(PairSet)
  BY PairsType, AllPairsType
<1>3. P \in Seq(PairSet)
  <2>1. Having(f) \subseteq PairSet
    BY DEF Having
  <2> HIDE DEF P
  <2> QED
    BY <1>2, <2>1
<1>4. Recent(Q, Smaller(Len(P), Window)) = Recent(R, Smaller(Len(P), Window))
  BY ReturnsWithoutGap
<1> HIDE DEF P, A
<1>5. V \in Seq(Int) /\ Len(V) = Len(P)
  BY <1>2, ValuesType
<1>6. R \in Seq(Int) /\ Len(R) = Len(A) /\ Q \in Seq(Int) /\ Len(Q) = Len(P)
  BY <1>2, <1>3, ReturnsType
<1>7. C \in Nat /\ C >= MinHistory /\ C >= Window /\ MinHistory \in Nat
  BY EngineAssumption, ModelAssumption, WindowType DEF Larger
<1> HIDE DEF V, R, Q, C
<1>8. Recent(V, C) \in Seq(Int) /\ Recent(R, C) \in Seq(Int)
  BY <1>5, <1>6, <1>7, RecentType
<1>9. /\ Sanitize(Recent(V, C)) = Recent(V, C) /\ Sanitize(Recent(R, C)) = Recent(R, C)
      /\ Sanitize(V) = V /\ Sanitize(Q) = Q
  BY <1>5, <1>6, <1>8, SanitizeInts
<1>10. /\ x.name = f /\ x.weight = w /\ x.current = c
       /\ x.series = Recent(V, C) /\ x.returns = Recent(R, C)
       /\ y.name = f /\ y.weight = w /\ y.current = c /\ y.series = V /\ y.returns = Q
  BY DEF InputOf
<1> HIDE DEF x, y
<1>11. PrepareFactor(i, x) = Prepared(x, row, Recent(V, C), Recent(R, C))
  BY <1>9, <1>10, Zenon DEF PrepareFactor
<1>12. PrepareFactor(i, y) = Prepared(y, row, V, Q)
  BY <1>9, <1>10, Zenon DEF PrepareFactor
<1> HIDE DEF row
<1>13. Prepared(x, row, Recent(V, C), Recent(R, C)) = Prepared(y, row, V, Q)
  <2>1. Len(Q) = Len(V) /\ Len(V) <= Len(R) /\ x.current = y.current
    BY <1>2, <1>5, <1>6, <1>10
  <2>2. Recent(Q, Smaller(Len(V), Window)) = Recent(R, Smaller(Len(V), Window))
    BY <1>4, <1>5
  <2> QED
    BY <1>5, <1>6, <1>7, <2>1, <2>2, PreparedSame
<1>14. PrepareFactor(i, x) = PrepareFactor(i, y)
  BY <1>11, <1>12, <1>13
<1> QED
  BY <1>1, <1>14 DEF x, y, V, Q, P, R, C, A

(* Equal rows make equal answers, but for the return that is predicted.    *)
Unpredicted(r) == [r EXCEPT !.predicted = 0]

ResultOf(s, p, q, r, u, n, c) ==
    [signal |-> s, predicted |-> p, suppressed |-> q, reasons |-> r, used |-> u, total |-> n,
     contributions |-> c]

LEMMA UnpredictedResult ==
    ASSUME NEW s, NEW p, NEW q, NEW r, NEW u, NEW n, NEW c
    PROVE  Unpredicted(ResultOf(s, p, q, r, u, n, c)) = ResultOf(s, 0, q, r, u, n, c)
<1> DEFINE x == [ResultOf(s, p, q, r, u, n, c) EXCEPT !.predicted = 0]
           y == ResultOf(s, 0, q, r, u, n, c)
           D == {"signal", "predicted", "suppressed", "reasons", "used", "total", "contributions"}
<1>1. DOMAIN x = D /\ DOMAIN y = D
  BY DEF ResultOf
<1>2. \A f \in D : x[f] = y[f]
  <2>1. x.signal = y.signal /\ x.predicted = y.predicted /\ x.suppressed = y.suppressed
        /\ x.reasons = y.reasons /\ x.used = y.used /\ x.total = y.total
        /\ x.contributions = y.contributions
    BY DEF ResultOf
  <2> HIDE DEF x, y
  <2> QED
    BY <2>1
<1>3. x = [f \in DOMAIN x |-> x[f]] /\ y = [f \in DOMAIN y |-> y[f]]
  BY DEF ResultOf
<1> HIDE DEF x, y, D
<1>4. [f \in D |-> x[f]] = [f \in D |-> y[f]]
  BY <1>2
<1>5. x = y
  BY <1>1, <1>3, <1>4
<1> QED
  BY <1>5 DEF x, y, Unpredicted

LEMMA SignalUnpredicted ==
    ASSUME NEW P, NEW T, NEW reasons, NEW a, NEW b, NEW raw, NEW c
    PROVE  Unpredicted(Signal(P, T, reasons, a, raw, c)) = Unpredicted(Signal(P, T, reasons, b, raw, c))
<1>1. ASSUME NEW rs, NEW s, NEW d
      PROVE  Unpredicted(Result(P, T, rs, a, s, d)) = Unpredicted(Result(P, T, rs, b, s, d))
  <2> DEFINE predicted(x) == Mean(x) + Quotient(Std(x) * s, 100)
             q == rs # {}
             rows == [i \in DOMAIN P |->
                        [row |-> P[i],
                         ranked |-> {<<r, d[r]>> : r \in {k \in DOMAIN T : T[k].index = i}}]]
  <2>1. /\ Result(P, T, rs, a, s, d) = ResultOf(s, predicted(a), q, rs, Len(T), Len(P), rows)
        /\ Result(P, T, rs, b, s, d) = ResultOf(s, predicted(b), q, rs, Len(T), Len(P), rows)
    BY Zenon DEF Result, ResultOf
  <2> HIDE DEF predicted, rows, q
  <2> DEFINE x == predicted(a)
             y == predicted(b)
             m == Len(T)
             n == Len(P)
  <2> HIDE DEF x, y, m, n
  <2>2. /\ Unpredicted(ResultOf(s, x, q, rs, m, n, rows)) = ResultOf(s, 0, q, rs, m, n, rows)
        /\ Unpredicted(ResultOf(s, y, q, rs, m, n, rows)) = ResultOf(s, 0, q, rs, m, n, rows)
    BY UnpredictedResult
  <2> QED
    BY <2>1, <2>2, Zenon DEF x, y, m, n
<1>2. CASE Total(raw) = 0
  <2> DEFINE more == {IF T = <<>> THEN "no_valid_factors_after_filters"
                      ELSE "all_factor_weights_zero"}
             all == Products(raw, c)
  <2>1. \A x : Signal(P, T, reasons, x, raw, c) = Result(P, T, reasons \union more, x, 0, all)
    BY <1>2, Zenon DEF Signal
  <2> DEFINE rs == reasons \union more
  <2> HIDE DEF more, rs, all
  <2>2. /\ Signal(P, T, reasons, a, raw, c) = Result(P, T, rs, a, 0, all)
        /\ Signal(P, T, reasons, b, raw, c) = Result(P, T, rs, b, 0, all)
    BY <2>1, Zenon DEF rs
  <2>3. Unpredicted(Result(P, T, rs, a, 0, all)) = Unpredicted(Result(P, T, rs, b, 0, all))
    BY <1>1, Zenon
  <2> QED
    BY <2>2, <2>3, Zenon
<1>3. CASE Total(raw) # 0
  <2> DEFINE said == IF reasons = {} THEN Quotient(Total(Products(raw, c)), Total(raw)) ELSE 0
             all == Products(raw, c)
  <2>1. \A x : Signal(P, T, reasons, x, raw, c) = Result(P, T, reasons, x, said, all)
    BY <1>3, Zenon DEF Signal
  <2> HIDE DEF said, all
  <2> QED
    BY <1>1, <2>1, Zenon
<1> QED
  BY <1>2, <1>3

SameRows(F, G, n) ==
    /\ Listed(F, n) /\ Listed(G, n)
    /\ \A i \in 1..n : PrepareFactor(i, F[i]) = PrepareFactor(i, G[i])

LEMMA SameAnswers ==
    ASSUME NEW n \in Nat, NEW F, NEW G, SameRows(F, G, n), NEW mode, NEW a, NEW b
    PROVE  Unpredicted(BuildZscoreSignal(F, mode, a, b))
             = Unpredicted(BuildZscoreSignal(G, mode, a, b))
<1>1. Listed(F, n) /\ Listed(G, n)
  BY DEF SameRows
<1>2. CASE n = 0
  <2>1. F = <<>> /\ G = <<>>
    BY <1>1, <1>2, EmptyInputs
  <2> QED
    BY <2>1
<1>3. CASE n # 0
  <2> DEFINE P == AllPrepared(F, n)
             R == Ranked(P)
             W == Raw(R, mode)
             D == Contribution(R)
             reasons == {a, b} \ {""}
  <2>1. AllPrepared(G, n) = P
    BY DEF AllPrepared, SameRows
  <2>2. BuildZscoreSignal(F, mode, a, b) = Signal(P, R, reasons, Reference(F, R), W, D)
    BY <1>1, <1>3, ModelOfRows, Zenon
  <2>3. BuildZscoreSignal(G, mode, a, b)
          = Signal(AllPrepared(G, n), Ranked(AllPrepared(G, n)), reasons,
                   Reference(G, Ranked(AllPrepared(G, n))), Raw(Ranked(AllPrepared(G, n)), mode),
                   Contribution(Ranked(AllPrepared(G, n))))
    BY <1>1, <1>3, ModelOfRows, Zenon
  <2>4. BuildZscoreSignal(G, mode, a, b) = Signal(P, R, reasons, Reference(G, R), W, D)
    BY <2>1, <2>3, Zenon
  <2> DEFINE x == Reference(F, R)
             y == Reference(G, R)
  <2> HIDE DEF P, R, W, D, reasons, x, y
  <2>5. Unpredicted(Signal(P, R, reasons, x, W, D)) = Unpredicted(Signal(P, R, reasons, y, W, D))
    BY SignalUnpredicted
  <2> QED
    BY <2>2, <2>4, <2>5, Zenon DEF x, y
<1> QED
  BY <1>2, <1>3

(* The factors that count, in the memory and in the pairs.                 *)
TrueNames(ticks) ==
    Kept(FactorNames, {f \in DOMAIN FactorSnapshot(Tick) :
                          Len(Pairs(f, ticks)) >= Larger(MinHistory, 1)})

LEMMA EnoughIsTrue ==
    ASSUME NEW ticks \in Seq(UsableTicks), ticks # <<>>, Tick = ticks[Len(ticks)],
           HistoryCapacity >= Larger(MinHistory, Window), NEW st, RememberedBy(st, ticks)
    PROVE  /\ st.pending = FactorSnapshot(Tick)
           /\ Enough(st.histories, st.pending) = TrueNames(ticks)
           /\ Len(st.returns) < MinHistory => TrueNames(ticks) = <<>>
<1> DEFINE h == st.histories
           now == FactorSnapshot(Tick)
           C == HistoryCapacity
           K == {f \in DOMAIN h \intersect DOMAIN now : Len(h[f]) >= MinHistory}
           L == {f \in DOMAIN now : Len(Pairs(f, ticks)) >= Larger(MinHistory, 1)}
<1>1. Tick \in Ticks
  <2>1. ticks[Len(ticks)] \in UsableTicks
    OBVIOUS
  <2> QED
    BY <2>1 DEF UsableTicks
<1>2. st.pending = now
  BY DEF RememberedBy
<1>3. DOMAIN now \subseteq Factors
  BY <1>1, SnapshotType
<1>4. C \in Nat /\ MinHistory \in Nat /\ C >= MinHistory
  BY EngineAssumption, ModelAssumption, WindowType DEF Larger
<1>5. ASSUME NEW f
      PROVE  /\ Len(Pairs(f, ticks)) \in Nat /\ (Len(Pairs(f, ticks)) = 0 <=> Pairs(f, ticks) = <<>>)
             /\ f \in DOMAIN h => Len(h[f]) = Smaller(Len(Pairs(f, ticks)), C)
  <2> DEFINE P == Pairs(f, ticks)
  <2>1. P \in Seq(Having(f))
    BY PairsType
  <2>2. f \in DOMAIN h => h[f] = Recent(Values(f, P), C)
    BY DEF RememberedBy
  <2> HIDE DEF P, h
  <2>3. Values(f, P) \in Seq(Int) /\ Len(Values(f, P)) = Len(P)
    BY <2>1, ValuesType
  <2>4. Len(Recent(Values(f, P), C)) = Smaller(Len(P), C)
    BY <1>4, <2>3, RecentType
  <2>5. Len(P) \in Nat /\ (Len(P) = 0 <=> P = <<>>)
    BY <2>1
  <2> QED
    BY <2>2, <2>4, <2>5 DEF P
<1>6. ASSUME NEW f \in DOMAIN now PROVE f \in K <=> f \in L
  <2> DEFINE k == Len(Pairs(f, ticks))
  <2>1. f \in DOMAIN h <=> k # 0
    BY <1>3, <1>5 DEF RememberedBy
  <2>2. k \in Nat /\ (f \in DOMAIN h => Len(h[f]) = Smaller(k, C))
    BY <1>5
  <2>3. f \in K <=> (f \in DOMAIN h /\ Len(h[f]) >= MinHistory)
    OBVIOUS
  <2>4. f \in L <=> k >= Larger(MinHistory, 1)
    OBVIOUS
  <2> HIDE DEF k, h, K, L
  <2>5. f \in DOMAIN h => (Len(h[f]) >= MinHistory <=> k >= MinHistory)
    BY <1>4, <2>2 DEF Smaller
  <2>6. k >= Larger(MinHistory, 1) <=> (k # 0 /\ k >= MinHistory)
    BY <1>4, <2>2 DEF Larger
  <2> QED
    BY <2>1, <2>3, <2>4, <2>5, <2>6
<1>7. K = L
  <2>1. K \subseteq DOMAIN now /\ L \subseteq DOMAIN now
    OBVIOUS
  <2> HIDE DEF K, L
  <2> QED
    BY <1>6, <2>1
<1>8. Enough(st.histories, st.pending) = Kept(FactorNames, K)
  BY <1>2 DEF Enough
<1>9. TrueNames(ticks) = Kept(FactorNames, L)
  BY DEF TrueNames
<1>10. ASSUME Len(st.returns) < MinHistory PROVE TrueNames(ticks) = <<>>
  <2> DEFINE A == AllPairs(ticks)
  <2>1. A \in Seq(PairSet) /\ \A f : Len(Pairs(f, ticks)) <= Len(A)
    BY AllPairsType, PairsType
  <2>2. st.returns = Recent(Returns(A), C)
    BY DEF RememberedBy
  <2> HIDE DEF A
  <2>3. Returns(A) \in Seq(Int) /\ Len(Returns(A)) = Len(A)
    BY <2>1, ReturnsType
  <2>4. Len(st.returns) = Smaller(Len(A), C) /\ Len(A) \in Nat
    BY <1>4, <2>1, <2>2, <2>3, RecentType
  <2>5. Len(A) < MinHistory
    BY <1>4, <1>10, <2>4 DEF Smaller
  <2>6. ASSUME NEW f \in L PROVE FALSE
    <3> DEFINE k == Len(Pairs(f, ticks))
    <3>1. k \in Nat /\ k <= Len(A) /\ k >= Larger(MinHistory, 1)
      BY <1>5, <2>1
    <3> HIDE DEF k
    <3> QED
      BY <1>4, <2>4, <2>5, <3>1 DEF Larger
  <2>7. L = {}
    BY <2>6
  <2>8. FactorNames \in Seq(Factors)
    BY FactorCases DEF FactorNames
  <2> DEFINE names == Kept(FactorNames, {})
  <2>9. names \in Seq(Factors \cap {})
    BY <2>8, KeptType
  <2> HIDE DEF names
  <2>10. names = <<>>
    <3>1. Factors \cap {} = {}
      OBVIOUS
    <3>2. names \in Seq({})
      BY <2>9, <3>1
    <3> QED
      BY <3>2
  <2> QED
    BY <1>9, <2>7, <2>10 DEF names
<1> QED
  BY <1>2, <1>7, <1>8, <1>9, <1>10

LEMMA TrueInputsSame ==
    ASSUME NEW ticks \in Seq(UsableTicks), ticks # <<>>, Tick = ticks[Len(ticks)],
           HistoryCapacity >= Larger(MinHistory, Window), NEW st, RememberedBy(st, ticks),
           \A f \in DOMAIN FactorSnapshot(Tick) : NoRecentGap(f, ticks)
    PROVE  \E n \in Nat : SameRows(FactorInputs(st), TrueInputs(TrueNames(ticks), ticks), n)
<1> DEFINE names == TrueNames(ticks)
           F == FactorInputs(st)
           G == TrueInputs(names, ticks)
<1>1. /\ st.pending = FactorSnapshot(Tick)
      /\ Enough(st.histories, st.pending) = names
      /\ Len(st.returns) < MinHistory => names = <<>>
  BY EnoughIsTrue
<1>2. /\ names \in Seq(Factors)
      /\ \A i \in 1..Len(names) : names[i] \in DOMAIN st.histories \cap DOMAIN st.pending
  BY <1>1, EnoughType
<1> HIDE DEF names
<1>3. CASE Len(st.returns) < MinHistory
  <2>1. F = <<>>
    BY <1>3 DEF FactorInputs
  <2>2. names = <<>>
    BY <1>1, <1>3
  <2>3. G = <<>>
    BY <2>2 DEF TrueInputs
  <2>4. Listed(<<>>, 0) /\ 1..0 = {}
    BY DEF Listed
  <2>5. SameRows(<<>>, <<>>, 0)
    BY <2>4 DEF SameRows
  <2> QED
    BY <2>1, <2>3, <2>5 DEF names
<1>4. CASE ~(Len(st.returns) < MinHistory)
  <2> DEFINE n == Len(names)
             x(i) == InputOf(names[i], DefaultWeight[names[i]], st.pending[names[i]],
                             st.histories[names[i]], st.returns)
             y(i) == InputOf(names[i], DefaultWeight[names[i]], st.pending[names[i]],
                             Values(names[i], Pairs(names[i], ticks)),
                             Returns(Pairs(names[i], ticks)))
  <2>1. n \in Nat /\ DOMAIN names = 1..n
    BY <1>2
  <2>2. F = [i \in 1..n |-> x(i)]
    BY <1>1, <1>4, <2>1, Zenon DEF FactorInputs, Inputs, InputOf
  <2>3. G = [i \in 1..n |-> y(i)]
    BY <1>1, <2>1, Zenon DEF TrueInputs, TrueInput, InputOf, Values, Returns
  <2>4. ASSUME NEW i \in 1..n PROVE PrepareFactor(i, x(i)) = PrepareFactor(i, y(i))
    <3> DEFINE f == names[i]
               w == DefaultWeight[f]
               c == st.pending[f]
    <3>1. f \in DOMAIN st.histories /\ f \in DOMAIN FactorSnapshot(Tick)
      BY <1>1, <1>2
    <3>2. NoRecentGap(f, ticks)
      BY <3>1
    <3> HIDE DEF f, w, c
    <3>3. PrepareFactor(i, InputOf(f, w, c, st.histories[f], st.returns))
            = PrepareFactor(i, InputOf(f, w, c, Values(f, Pairs(f, ticks)), Returns(Pairs(f, ticks))))
      BY <3>1, <3>2, TrueRow
    <3> QED
      BY <3>3, Zenon DEF f, w, c
  <2> HIDE DEF F, G, x, y, n
  <2>5. Listed(F, n) /\ \A i \in 1..n : F[i] = x(i)
    BY <2>2 DEF Listed
  <2>6. Listed(G, n) /\ \A i \in 1..n : G[i] = y(i)
    BY <2>3 DEF Listed
  <2>7. SameRows(F, G, n)
    BY <2>4, <2>5, <2>6 DEF SameRows
  <2> QED
    BY <2>1, <2>7 DEF F, G, names
<1> QED
  BY <1>3, <1>4

(* For all ticks, capacities and windows: a signal is the model's answer to *)
(* the pairs of a tick's factors and the return that followed it, as long   *)
(* as no factor was missing in the window (main.rs:179-230).                *)
THEOREM SignalsAreOfTruePairs == Spec => []SignalOfTruePairs
<1>1. Recalls /\ Answered => SignalOfTruePairs
  <2> SUFFICES ASSUME Recalls, Answered, Handling,
                      HistoryCapacity >= Larger(MinHistory, Window),
                      \A f \in DOMAIN FactorSnapshot(Tick) : NoRecentGap(f, Taken)
               PROVE  Unpredicted(signal.result) = Unpredicted(ModelOf(Taken))
    BY Zenon DEF SignalOfTruePairs, Unpredicted
  <2> DEFINE z == Tick.symbol
             ticks == Taken
             st == Memory
             F == FactorInputs(st)
             G == TrueInputs(TrueNames(ticks), ticks)
             a == RegimeGate(cfg.regime_filter, RegimeLabel(Tick.regime))
             b == VolGate(cfg.vol_filter, st.volatilities, CurrentVolatility(Tick))
  <2>1. z \in Symbols /\ seen[z] # <<>> /\ seen[z][Len(seen[z])] = pos
    BY DEF Recalls, UsableTicks, Ticks
  <2>2. /\ seen[z] \in Seq(1 .. Len(feed)) /\ TicksOf(z) \in Seq(UsableTicks)
        /\ RememberedBy(states[z], TicksOf(z))
    BY <2>1 DEF Recalls
  <2>3. ticks = TicksOf(z) /\ st = states[z]
    BY DEF Taken, TicksOf, ReadOff, Memory
  <2>4. ticks # <<>> /\ Tick = ticks[Len(ticks)]
    <3> DEFINE g == seen[z]
    <3>1. ticks = [i \in DOMAIN g |-> feed[g[i]]]
      BY DEF Taken
    <3>2. g \in Seq(1 .. Len(feed)) /\ g # <<>> /\ g[Len(g)] = pos
      BY <2>1, <2>2
    <3> HIDE DEF g, ticks
    <3>3. DOMAIN g = 1..Len(g) /\ Len(g) \in Nat \ {0}
      BY <3>2
    <3>4. ticks \in Seq(UsableTicks)
      BY <2>2, <2>3
    <3>5. DOMAIN ticks = 1..Len(g)
      BY <3>1, <3>3
    <3>6. Len(ticks) = Len(g)
      BY <3>3, <3>4, <3>5
    <3>7. ticks[Len(g)] = feed[pos]
      BY <3>1, <3>2, <3>3
    <3> QED
      BY <3>3, <3>6, <3>7 DEF Tick
  <2>5. ticks \in Seq(UsableTicks) /\ RememberedBy(st, ticks)
    BY <2>2, <2>3
  <2>6. Remembered(ticks).volatilities = st.volatilities
    <3> HIDE DEF ticks, st
    <3> QED
      BY <2>5 DEF Remembered, RememberedBy, Volatilities
  <2>7. \E n \in Nat : SameRows(F, G, n)
    <3> HIDE DEF st
    <3>1. \A f \in DOMAIN FactorSnapshot(Tick) : NoRecentGap(f, ticks)
      OBVIOUS
    <3> HIDE DEF ticks
    <3> QED
      BY <2>4, <2>5, <3>1, TrueInputsSame
  <2>8. signal.result = BuildZscoreSignal(F, cfg.weight_mode, a, b)
    BY Zenon DEF Answered, Answer
  <2>9. ModelOf(Taken) = BuildZscoreSignal(G, cfg.weight_mode, a, b)
    <3>1. ModelOf(Taken) = Answer(G, Remembered(Taken), Tick)
      BY Zenon DEF ModelOf, TrueNames
    <3> QED
      BY <2>6, <3>1, Zenon DEF Answer
  <2> HIDE DEF F, G, a, b
  <2>10. PICK n \in Nat : SameRows(F, G, n)
    BY <2>7
  <2>11. Unpredicted(BuildZscoreSignal(F, cfg.weight_mode, a, b))
           = Unpredicted(BuildZscoreSignal(G, cfg.weight_mode, a, b))
    BY <2>10, SameAnswers
  <2> QED
    BY <2>8, <2>9, <2>11, Zenon
<1> QED
  BY MemoryIsOfTicks, AnsweredAlways, <1>1, PTL

=============================================================================
