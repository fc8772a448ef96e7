----------------------------- MODULE SlotLemmas -----------------------------
(***************************************************************************)
(* Facts about numbers and slot arrays that the proofs of several          *)
(* components rest on.                                                     *)
(***************************************************************************)
EXTENDS SequencesExt, FiniteSetTheorems, WellFoundedInduction, TLAPS

(* Every non-empty set of naturals has the minimum that Min chooses; the   *)
(* linear searches of find() return that index.                            *)
LEMMA MinOfNaturals ==
  ASSUME NEW I, I \subseteq Nat, I # {}
  PROVE  /\ Min(I) \in I
         /\ \A y \in I : Min(I) <= y
<1> DEFINE LT == { ss \in Nat \X Nat : ss[1] < ss[2] }
<1>1. IsWellFoundedOn(LT, Nat)
  <2>1. OpToRel(<, Nat) = LT
    BY DEF OpToRel
  <2> QED BY <2>1, NatLessThanWellFounded
<1> HIDE DEF LT
<1>2. PICK x \in I : \A y \in I : ~(<<y, x>> \in LT)
  BY <1>1, WFMin
<1>3. \A y \in I : x <= y
  <2> SUFFICES ASSUME NEW y \in I, y < x
               PROVE  FALSE
    OBVIOUS
  <2>1. <<y, x>> \in LT
    BY DEF LT
  <2> QED BY <1>2, <2>1
<1> QED
  BY <1>3 DEF Min

(* What C++ and TLA+ division of naturals have in common. *)
LEMMA DivBound ==
  ASSUME NEW a \in Nat, NEW b \in Nat \ {0}
  PROVE  /\ a \div b \in Nat
         /\ b * (a \div b) <= a
         /\ a - b * (a \div b) <= b - 1
BY SMT

(* Multiplying by a positive number keeps an order, and loses none of it   *)
(* for multiples that are less than one step apart.                        *)
LEMMA ProductOrder ==
  ASSUME NEW a \in Int, NEW b \in Int, NEW n \in Nat \ {0}
  PROVE  /\ a <= b => n * a <= n * b
         /\ n * a <= n * b + n - 1 => a <= b
<1>1. ASSUME a <= b PROVE n * a <= n * b
  <2>1. PICK d \in Nat : b = a + d
    BY <1>1
  <2>2. n * b = n * a + n * d /\ n * d \in Nat
    BY <2>1
  <2> QED BY <2>2
<1>2. ASSUME ~(a <= b) PROVE n * a > n * b + n - 1
  <2>1. PICK d \in Nat : a = b + 1 + d
    <3>1. a - b - 1 \in Nat BY <1>2
    <3> QED BY <3>1
  <2>2. n * a = n * b + n + n * d /\ n * d \in Nat
    BY <2>1
  <2> QED BY <2>2
<1>3. n * a \in Int /\ n * b \in Int
  OBVIOUS
<1> QED BY <1>1, <1>2, <1>3

(* d is a truncated average of n units at a and q units at p: what it      *)
(* loses, and that it stays between any bounds of the two prices.          *)
TruncatedAverage(a, n, p, q, d) ==
  /\ d \in Nat
  /\ d * (n + q) <= a * n + p * q
  /\ (a * n + p * q) - d * (n + q) <= (n + q) - 1
  /\ \A lo, hi \in Int : /\ n > 0 => lo <= a /\ a <= hi
                         /\ lo <= p /\ p <= hi
                         => lo <= d /\ d <= hi

(* The average over one more fill of q shares at p, as the handlers compute it. *)
LEMMA AverageOfFills ==
  ASSUME NEW a \in Nat, NEW n \in Nat, NEW p \in Nat, NEW q \in Nat \ {0}
  PROVE  TruncatedAverage(a, n, p, q, (a * n + p * q) \div (n + q))
<1> DEFINE m == n + q   c == a * n + p * q   d == c \div m
<1>1. c \in Nat /\ m \in Nat \ {0}
  OBVIOUS
<1>2. /\ d \in Nat
      /\ m * d <= c
      /\ c - m * d <= m - 1
  <2> HIDE DEF c, m
  <2> QED BY <1>1, DivBound
<1>3. m * d = d * m
  BY <1>1, <1>2
<1>4. ASSUME NEW lo \in Int, NEW hi \in Int, n > 0 => lo <= a /\ a <= hi, lo <= p, p <= hi
      PROVE  lo <= d /\ d <= hi
  <2>1. n * lo <= n * a /\ n * a <= n * hi
    <3>1. CASE n = 0
      BY <3>1
    <3>2. CASE n > 0
      BY <3>2, <1>4, ProductOrder
    <3> QED BY <3>1, <3>2
  <2>2. q * lo <= q * p /\ q * p <= q * hi
    BY <1>4, ProductOrder
  <2>3. /\ m * lo = n * lo + q * lo
        /\ m * hi = n * hi + q * hi
        /\ c = n * a + q * p
    OBVIOUS
  <2>4. /\ n * lo \in Int /\ n * a \in Int /\ n * hi \in Int
        /\ q * lo \in Int /\ q * p \in Int /\ q * hi \in Int
    OBVIOUS
  <2>5. m * lo <= c /\ c <= m * hi
    <3> HIDE DEF c, m
    <3> QED BY <2>1, <2>2, <2>3, <2>4
  <2> HIDE DEF c, m, d
  <2>6. m * lo \in Int /\ m * hi \in Int /\ m * d \in Int
    BY <1>1, <1>2
  <2>7. m * lo <= m * d + m - 1 /\ m * d <= m * hi + m - 1
    BY <1>1, <1>2, <2>5, <2>6
  <2> QED BY <1>1, <1>2, <2>7, ProductOrder
<1> QED
  <2>1. /\ d \in Nat
        /\ d * m <= c
        /\ c - d * m <= m - 1
    <3> HIDE DEF c, m, d
    <3> QED BY <1>2, <1>3
  <2>2. TruncatedAverage(a, n, p, q, d)
    <3> HIDE DEF d
    <3> QED BY <2>1, <1>4 DEF TruncatedAverage
  <2> QED BY <2>2

-----------------------------------------------------------------------------
(* Induction over the positions of a sequence, with the induction          *)
(* predicate given as the set of the numbers that satisfy it.              *)
LEMMA UpTo ==
  ASSUME NEW n \in Nat, NEW T, 0 \in T, \A k \in 1..n : k - 1 \in T => k \in T
  PROVE  0..n \subseteq T
<1> DEFINE B == (0..n) \ T
<1> SUFFICES ASSUME B # {} PROVE FALSE
  OBVIOUS
<1>1. Min(B) \in B /\ \A y \in B : Min(B) <= y
  BY MinOfNaturals
<1>2. Min(B) # 0
  BY <1>1
<1>3. Min(B) - 1 \in 0..n /\ Min(B) - 1 \notin B
  BY <1>1, <1>2
<1> QED BY <1>1, <1>2, <1>3

(* The maximum that Max chooses, for sets of positions. *)
LEMMA MaxOfPositions ==
  ASSUME NEW n \in Nat, NEW s, s \subseteq 1..n, s # {}
  PROVE  /\ Max(s) \in s
         /\ \A y \in s : y <= Max(s)
<1> DEFINE I == { n - y : y \in s }
<1>1. I \subseteq Nat /\ I # {}
  <2>1. \A y \in s : n - y \in Nat
    OBVIOUS
  <2>2. PICK y : y \in s
    OBVIOUS
  <2> QED BY <2>1, <2>2
<1>2. PICK m \in I : \A z \in I : m <= z
  BY <1>1, MinOfNaturals
<1>3. PICK x \in s : m = n - x
  BY <1>2
<1>4. \A y \in s : n - y \in I
  OBVIOUS
<1>5. \A y \in s : n - x <= n - y
  BY <1>2, <1>3, <1>4
<1>6. \A y \in s : y <= x
  BY <1>5
<1> QED BY <1>6 DEF Max

(* The last position of a prefix. *)
LEMMA MaxOfPrefix ==
  ASSUME NEW k \in Nat \ {0}
  PROVE  Max(1..k) = k /\ (1..k) \ {k} = 1..(k - 1) /\ 1..k # {}
<1>1. 1..k # {} /\ k \in 1..k
  OBVIOUS
<1>2. Max(1..k) \in 1..k /\ k <= Max(1..k)
  BY <1>1, MaxOfPositions
<1> QED BY <1>1, <1>2

(* The recursion behind FoldLeft has a solution: there is a function on    *)
(* the sets of positions that gives base to the empty set and takes one    *)
(* step at the last position of any other.                                 *)
FoldsBy(g, n, base, step) ==
  \A s \in SUBSET (1..n) :
    g[s] = IF s = {} THEN base ELSE step[<<Max(s), g[s \ {Max(s)}]>>]

(* A fold has a solution on every set of indices. *)
LEMMA FoldExists ==
  ASSUME NEW n \in Nat, NEW A, NEW base \in A, NEW step \in [(1..n) \X A -> A]
  PROVE  \E g \in [SUBSET (1..n) -> A] : FoldsBy(g, n, base, step)
<1> DEFINE T == { k \in 0..n : \E g \in [SUBSET (1..k) -> A] : FoldsBy(g, k, base, step) }
<1>1. 0 \in T
  <2> DEFINE g == [s \in SUBSET (1..0) |-> base]
  <2>1. g \in [SUBSET (1..0) -> A]
    OBVIOUS
  <2>2. FoldsBy(g, 0, base, step)
    BY DEF FoldsBy
  <2> QED BY <2>1, <2>2
<1>2. ASSUME NEW k \in 1..n, k - 1 \in T
      PROVE  k \in T
  <2>1. PICK g \in [SUBSET (1..(k - 1)) -> A] : FoldsBy(g, k - 1, base, step)
    BY <1>2
  <2> DEFINE h == [ s \in SUBSET (1..k) |->
                      IF k \in s THEN step[<<k, g[s \ {k}]>>] ELSE g[s] ]
  <2>2. ASSUME NEW s \in SUBSET (1..k), k \in s
        PROVE  s \ {k} \in SUBSET (1..(k - 1)) /\ Max(s) = k
    <3>1. k \in Nat /\ s \subseteq 1..k /\ s # {}
      BY <2>2
    <3>2. Max(s) \in s /\ \A y \in s : y <= Max(s)
      BY <3>1, MaxOfPositions
    <3>3. Max(s) = k
      <4>1. Max(s) \in 1..k /\ k <= Max(s)
        BY <2>2, <3>1, <3>2
      <4> HIDE DEF T, h
      <4> QED BY <4>1
    <3>4. \A y \in s \ {k} : y \in 1..(k - 1)
      BY <3>1
    <3> QED BY <3>3, <3>4
  <2>3. ASSUME NEW s \in SUBSET (1..k), k \notin s
        PROVE  s \in SUBSET (1..(k - 1))
    BY <2>3
  <2>4. h \in [SUBSET (1..k) -> A]
    <3> SUFFICES ASSUME NEW s \in SUBSET (1..k) PROVE h[s] \in A
      OBVIOUS
    <3>1. CASE k \in s
      <4>1. g[s \ {k}] \in A
        BY <2>1, <2>2, <3>1
      <4>2. <<k, g[s \ {k}]>> \in (1..n) \X A
        BY <4>1
      <4> QED BY <3>1, <4>2
    <3>2. CASE k \notin s
      BY <2>1, <2>3, <3>2
    <3> QED BY <3>1, <3>2
  <2>5. FoldsBy(h, k, base, step)
    <3> SUFFICES ASSUME NEW s \in SUBSET (1..k)
                 PROVE  h[s] = IF s = {} THEN base ELSE step[<<Max(s), h[s \ {Max(s)}]>>]
      BY DEF FoldsBy
    <3>1. CASE k \in s
      <4>1. s \ {k} \in SUBSET (1..k) /\ k \notin s \ {k}
        OBVIOUS
      <4>2. h[s \ {k}] = g[s \ {k}]
        BY <4>1
      <4>3. h[s] = step[<<k, g[s \ {k}]>>]
        BY <3>1
      <4> HIDE DEF h
      <4> QED BY <2>2, <3>1, <4>2, <4>3
    <3>2. CASE k \notin s
      <4>1. s \in SUBSET (1..(k - 1))
        BY <2>3, <3>2
      <4>2. h[s] = g[s]
        BY <3>2
      <4>3. g[s] = IF s = {} THEN base ELSE step[<<Max(s), g[s \ {Max(s)}]>>]
        BY <2>1, <4>1 DEF FoldsBy
      <4>4. h[s \ {Max(s)}] = g[s \ {Max(s)}]
        BY <3>2
      <4> HIDE DEF h
      <4> QED BY <4>2, <4>3, <4>4
    <3> QED BY <3>1, <3>2
  <2> HIDE DEF h
  <2> QED BY <2>4, <2>5
<1>3. 0..n \subseteq T
  <2> HIDE DEF T
  <2> QED BY <1>1, <1>2, UpTo
<1>4. n \in T
  <2> HIDE DEF T
  <2> QED BY <1>3
<1> QED BY <1>4

(* Whatever solves the recursion is determined on the prefixes of the      *)
(* sequence.                                                               *)
FoldsWithin(g, n, A, base, step) ==
  /\ g[{}] = base
  /\ \A s \in SUBSET (1..n) :
       s # {} /\ g[s \ {Max(s)}] \in A => g[s] = step[<<Max(s), g[s \ {Max(s)}]>>]

PrefixesFold(g, n, A, step) ==
  /\ \A k \in 0..n : g[1..k] \in A
  /\ \A k \in 1..n : g[1..k] = step[<<k, g[1..(k - 1)]>>]

(* Along the prefixes 1..k a fold is a recursion on k. *)
LEMMA FoldPrefixes ==
  ASSUME NEW n \in Nat, NEW A, NEW base \in A, NEW step \in [(1..n) \X A -> A], NEW g,
         FoldsWithin(g, n, A, base, step)
  PROVE  PrefixesFold(g, n, A, step)
<1> DEFINE T == { k \in 0..n : g[1..k] \in A }
<1>1. ASSUME NEW k \in 1..n, g[1..(k - 1)] \in A
      PROVE  g[1..k] = step[<<k, g[1..(k - 1)]>>] /\ g[1..k] \in A
  <2>1. Max(1..k) = k /\ (1..k) \ {k} = 1..(k - 1) /\ 1..k # {}
    <3>1. k \in Nat \ {0}
      OBVIOUS
    <3> QED BY <3>1, MaxOfPrefix
  <2>2. 1..k \in SUBSET (1..n)
    OBVIOUS
  <2>3. g[1..k] = step[<<k, g[1..(k - 1)]>>]
    BY <1>1, <2>1, <2>2 DEF FoldsWithin
  <2>4. <<k, g[1..(k - 1)]>> \in (1..n) \X A
    BY <1>1
  <2> QED BY <2>3, <2>4
<1>2. 0 \in T
  <2>1. 1..0 = {}
    OBVIOUS
  <2> QED BY <2>1 DEF FoldsWithin
<1>3. 0..n \subseteq T
  <2>1. ASSUME NEW k \in 1..n, k - 1 \in T PROVE k \in T
    <3>1. g[1..(k - 1)] \in A
      BY <2>1
    <3>2. g[1..k] \in A
      BY <1>1, <3>1
    <3> QED BY <3>2
  <2> HIDE DEF T
  <2> QED BY <1>2, <2>1, UpTo
<1>4. \A k \in 0..n : g[1..k] \in A
  BY <1>3
<1>5. \A k \in 1..n : k - 1 \in 0..n
  OBVIOUS
<1> QED BY <1>1, <1>4, <1>5 DEF PrefixesFold

(* The values a fold passes through, one for every prefix of the sequence. *)
IsFold(F, n, A, base, step) ==
  /\ F \in [0..n -> A]
  /\ F[0] = base
  /\ \A k \in 1..n : F[k] = step[<<k, F[k - 1]>>]

ReachedByFold(x, n, A, base, step) == \E F : IsFold(F, n, A, base, step) /\ F[n] = x

(* The prefixes of a fold over sets of positions are these values. *)
LEMMA PrefixesAreFold ==
  ASSUME NEW n \in Nat, NEW A, NEW base \in A, NEW step \in [(1..n) \X A -> A], NEW g,
         FoldsWithin(g, n, A, base, step)
  PROVE  ReachedByFold(g[1..n], n, A, base, step)
<1> DEFINE F == [k \in 0..n |-> g[1..k]]
<1>1. PrefixesFold(g, n, A, step)
  BY FoldPrefixes
<1>2. \A k \in 1..n : k \in 0..n /\ k - 1 \in 0..n
  OBVIOUS
<1>3. F \in [0..n -> A]
  BY <1>1 DEF PrefixesFold
<1>4. F[0] = base
  <2>1. 1..0 = {} /\ 0 \in 0..n
    OBVIOUS
  <2> QED BY <2>1 DEF FoldsWithin
<1>5. \A k \in 1..n : F[k] = step[<<k, F[k - 1]>>]
  BY <1>1, <1>2 DEF PrefixesFold
<1>6. F[n] = g[1..n]
  OBVIOUS
<1> HIDE DEF F
<1> QED BY <1>3, <1>4, <1>5, <1>6 DEF IsFold, ReachedByFold

SameSteps(n, A, r, s) == \A k \in 1..n, a \in A : r[<<k, a>>] = s[<<k, a>>]

(* Folds that take the same steps reach the same value, so that of a       *)
(* longer sequence extends that of its prefix.                             *)
LEMMA FoldsAgree ==
  ASSUME NEW n \in Nat, NEW m \in Nat, n <= m, NEW A, NEW base, NEW r, NEW s,
         NEW F, NEW G, IsFold(F, n, A, base, r), IsFold(G, m, A, base, s),
         SameSteps(n, A, r, s)
  PROVE  F[n] = G[n]
<1> DEFINE T == { k \in 0..n : F[k] = G[k] }
<1>1. 0 \in T
  BY DEF IsFold
<1>2. ASSUME NEW k \in 1..n, k - 1 \in T PROVE k \in T
  <2>1. k \in 1..m /\ k \in 0..n /\ k - 1 \in 0..n
    OBVIOUS
  <2>2. F[k - 1] = G[k - 1] /\ F[k - 1] \in A
    BY <1>2, <2>1 DEF IsFold
  <2>3. F[k] = r[<<k, F[k - 1]>>] /\ G[k] = s[<<k, G[k - 1]>>]
    BY <2>1 DEF IsFold
  <2>4. F[k] = G[k]
    BY <2>2, <2>3 DEF SameSteps
  <2> QED BY <2>1, <2>4
<1>3. n \in 0..n
  OBVIOUS
<1> HIDE DEF T
<1>4. 0..n \subseteq T
  BY <1>1, <1>2, UpTo
<1>5. n \in T
  BY <1>3, <1>4
<1> QED BY <1>5 DEF T

-----------------------------------------------------------------------------
(* The sum of a sequence of integers, by its prefix sums.  The folds of    *)
(* the model that add something up over a sequence are such sums.          *)
IsSums(F, v) ==
  /\ F \in [0..Len(v) -> Int]
  /\ F[0] = 0
  /\ \A k \in 1..Len(v) : F[k] = F[k - 1] + v[k]

SumOf(v) == (CHOOSE F : IsSums(F, v))[Len(v)]

(* A sequence has prefix sums, and they determine its sum. *)
LEMMA SumsUnique ==
  ASSUME NEW v \in Seq(Int), NEW F, NEW G, IsSums(F, v), IsSums(G, v)
  PROVE  F[Len(v)] = G[Len(v)]
<1> DEFINE n == Len(v)   T == { k \in 0..n : F[k] = G[k] }
<1>1. n \in Nat /\ n \in 0..n
  OBVIOUS
<1>2. 0 \in T
  BY <1>1 DEF IsSums
<1>3. ASSUME NEW k \in 1..n, k - 1 \in T PROVE k \in T
  <2>1. F[k - 1] = G[k - 1]
    BY <1>3
  <2>2. F[k] = F[k - 1] + v[k] /\ G[k] = G[k - 1] + v[k]
    BY DEF IsSums
  <2> QED BY <1>1, <2>1, <2>2
<1>4. n \in T
  <2> HIDE DEF T, n
  <2>1. 0..n \subseteq T
    BY <1>1, <1>2, <1>3, UpTo
  <2> QED BY <1>1, <2>1
<1> QED BY <1>4

(* Partial sums are unique, so any of them give the sum. *)
LEMMA SumBy ==
  ASSUME NEW v \in Seq(Int), NEW F, IsSums(F, v)
  PROVE  SumOf(v) = F[Len(v)] /\ SumOf(v) \in Int
<1> DEFINE G == CHOOSE G : IsSums(G, v)
<1>1. IsSums(G, v)
  OBVIOUS
<1>2. SumOf(v) = G[Len(v)]
  BY DEF SumOf
<1> HIDE DEF G
<1>3. G[Len(v)] = F[Len(v)]
  BY <1>1, SumsUnique
<1>4. F[Len(v)] \in Int
  <2>1. Len(v) \in 0..Len(v)
    OBVIOUS
  <2> QED BY <2>1 DEF IsSums
<1> QED BY <1>2, <1>3, <1>4

(* A fold that adds v[i] at position i: the recursion has a solution, and  *)
(* every solution gives the sum.                                           *)
LEMMA SumFoldExists ==
  ASSUME NEW n \in Nat, NEW v \in [1..n -> Int]
  PROVE  \E g \in [SUBSET (1..n) -> Int] :
           \A s \in SUBSET (1..n) :
             g[s] = IF s = {} THEN 0 ELSE g[s \ {Max(s)}] + v[Max(s)]
<1> DEFINE step == [p \in (1..n) \X Int |-> p[2] + v[p[1]]]
<1>1. step \in [(1..n) \X Int -> Int]
  OBVIOUS
<1>2. \A k \in 1..n, a \in Int : step[<<k, a>>] = a + v[k]
  OBVIOUS
<1> HIDE DEF step
<1>3. PICK g \in [SUBSET (1..n) -> Int] : FoldsBy(g, n, 0, step)
  <2>1. 0 \in Int
    OBVIOUS
  <2> QED BY <1>1, <2>1, FoldExists, Zenon
<1>4. ASSUME NEW s \in SUBSET (1..n)
      PROVE  g[s] = IF s = {} THEN 0 ELSE g[s \ {Max(s)}] + v[Max(s)]
  <2>1. CASE s = {}
    BY <1>3, <2>1 DEF FoldsBy
  <2>2. CASE s # {}
    <3>1. Max(s) \in 1..n
      BY <2>2, MaxOfPositions
    <3>2. g[s \ {Max(s)}] \in Int
      BY <1>3
    <3>3. g[s] = step[<<Max(s), g[s \ {Max(s)}]>>]
      BY <1>3, <2>2 DEF FoldsBy
    <3> QED BY <1>2, <2>2, <3>1, <3>2, <3>3
  <2> QED BY <2>1, <2>2
<1> QED BY <1>3, <1>4

(* A fold that adds one value per index is the sum of the values. *)
LEMMA FoldIsSum ==
  ASSUME NEW n \in Nat, NEW v \in [1..n -> Int], NEW g, g[{}] = 0,
         \A s \in SUBSET (1..n) :
            s # {} /\ g[s \ {Max(s)}] \in Int => g[s] = g[s \ {Max(s)}] + v[Max(s)]
  PROVE  g[1..n] = SumOf(v) /\ g[1..n] \in Int
<1> DEFINE step == [p \in (1..n) \X Int |-> p[2] + v[p[1]]]
           F == [k \in 0..n |-> g[1..k]]
<1>1. step \in [(1..n) \X Int -> Int]
  OBVIOUS
<1>2. \A k \in 1..n, a \in Int : step[<<k, a>>] = a + v[k]
  OBVIOUS
<1> HIDE DEF step
<1>3. ASSUME NEW s \in SUBSET (1..n), s # {}, g[s \ {Max(s)}] \in Int
      PROVE  g[s] = step[<<Max(s), g[s \ {Max(s)}]>>]
  <2>1. Max(s) \in 1..n
    BY <1>3, MaxOfPositions
  <2> QED BY <1>2, <1>3, <2>1
<1>4. /\ \A k \in 0..n : g[1..k] \in Int
      /\ \A k \in 1..n : g[1..k] = step[<<k, g[1..(k - 1)]>>]
  <2>1. 0 \in Int
    OBVIOUS
  <2>2. FoldsWithin(g, n, Int, 0, step)
    BY <1>3 DEF FoldsWithin
  <2>3. PrefixesFold(g, n, Int, step)
    BY <1>1, <2>1, <2>2, FoldPrefixes, Zenon
  <2> HIDE DEF F
  <2> QED BY <2>3, Zenon DEF PrefixesFold
<1>5. \A k \in 1..n : k - 1 \in 0..n
  OBVIOUS
<1>6. v \in Seq(Int) /\ Len(v) = n
  OBVIOUS
<1>7. F \in [0..n -> Int] /\ F[n] = g[1..n]
  BY <1>4
<1>8. F[0] = 0
  <2>1. 1..0 = {} /\ 0 \in 0..n
    OBVIOUS
  <2> QED BY <2>1
<1>9. ASSUME NEW k \in 1..n PROVE F[k] = F[k - 1] + v[k]
  <2>1. F[k] = g[1..k] /\ F[k - 1] = g[1..(k - 1)]
    BY <1>5
  <2>2. g[1..(k - 1)] \in Int
    BY <1>4, <1>5
  <2>3. g[1..k] = step[<<k, g[1..(k - 1)]>>]
    BY <1>4
  <2> HIDE DEF F
  <2> QED BY <1>2, <2>1, <2>2, <2>3
<1> HIDE DEF F
<1>10. IsSums(F, v)
  BY <1>6, <1>7, <1>8, <1>9 DEF IsSums
<1> QED BY <1>6, <1>7, <1>10, SumBy

(* A sequence of integers has partial sums. *)
LEMMA SumsExist ==
  ASSUME NEW v \in Seq(Int)
  PROVE  \E F : IsSums(F, v)
<1> DEFINE n == Len(v)
<1>1. n \in Nat /\ v \in [1..n -> Int]
  OBVIOUS
<1> HIDE DEF n
<1>2. PICK g \in [SUBSET (1..n) -> Int] :
        \A s \in SUBSET (1..n) :
          g[s] = IF s = {} THEN 0 ELSE g[s \ {Max(s)}] + v[Max(s)]
  BY <1>1, SumFoldExists
<1> DEFINE F == [k \in 0..n |-> g[1..k]]
<1>3. \A k \in 0..n : 1..k \in SUBSET (1..n)
  BY <1>1
<1>4. F \in [0..n -> Int]
  BY <1>3
<1>5. F[0] = 0
  <2>1. 1..0 = {} /\ 0 \in 0..n /\ {} \in SUBSET (1..n)
    BY <1>1
  <2> QED BY <1>2, <2>1
<1>6. ASSUME NEW k \in 1..n PROVE F[k] = F[k - 1] + v[k]
  <2>1. Max(1..k) = k /\ (1..k) \ {k} = 1..(k - 1) /\ 1..k # {}
    <3>1. k \in Nat \ {0}
      BY <1>1
    <3> QED BY <3>1, MaxOfPrefix
  <2>2. 1..k \in SUBSET (1..n) /\ k \in 0..n /\ k - 1 \in 0..n
    BY <1>1
  <2>3. g[1..k] = g[1..(k - 1)] + v[k]
    BY <1>2, <2>1, <2>2
  <2> QED BY <2>2, <2>3
<1> HIDE DEF F
<1>7. IsSums(F, v)
  BY <1>4, <1>5, <1>6 DEF IsSums, n
<1> QED BY <1>7

(* What a change of the sequence does to its sum. *)
LEMMA SumType ==
  ASSUME NEW v \in Seq(Int)
  PROVE  SumOf(v) \in Int
BY SumsExist, SumBy

(* Zeros sum up to zero. *)
LEMMA SumZero ==
  ASSUME NEW v \in Seq(Int), \A i \in 1..Len(v) : v[i] = 0
  PROVE  SumOf(v) = 0
<1> DEFINE n == Len(v)   F == [k \in 0..n |-> 0]
<1>1. n \in Nat
  OBVIOUS
<1>2. IsSums(F, v)
  BY <1>1 DEF IsSums
<1>3. F[n] = 0
  BY <1>1
<1> HIDE DEF F
<1> QED BY <1>2, <1>3, SumBy

(* The sum after one more value. *)
LEMMA SumAppend ==
  ASSUME NEW v \in Seq(Int), NEW x \in Int
  PROVE  SumOf(Append(v, x)) = SumOf(v) + x
<1> DEFINE n == Len(v)   w == Append(v, x)
<1>1. n \in Nat /\ w \in Seq(Int) /\ Len(w) = n + 1 /\ w[n + 1] = x
      /\ \A k \in 1..n : w[k] = v[k]
  OBVIOUS
<1>2. PICK F : IsSums(F, v)
  BY SumsExist
<1> DEFINE G == [k \in 0..(n + 1) |-> IF k = n + 1 THEN F[n] + x ELSE F[k]]
<1>3. F \in [0..n -> Int] /\ F[0] = 0 /\ \A k \in 1..n : F[k] = F[k - 1] + v[k]
  BY <1>2 DEF IsSums
<1> HIDE DEF w, n
<1>4. G \in [0..(n + 1) -> Int]
  BY <1>1, <1>3
<1>5. G[0] = 0
  BY <1>1, <1>3
<1>6. ASSUME NEW k \in 1..(n + 1) PROVE G[k] = G[k - 1] + w[k]
  <2>1. CASE k = n + 1
    BY <1>1, <2>1
  <2>2. CASE k \in 1..n
    BY <1>1, <1>3, <2>2
  <2> QED BY <1>1, <2>1, <2>2
<1>7. G[n + 1] = F[n] + x
  BY <1>1
<1> HIDE DEF G
<1>8. IsSums(G, w)
  BY <1>1, <1>4, <1>5, <1>6 DEF IsSums
<1>9. SumOf(w) = F[n] + x
  BY <1>1, <1>7, <1>8, SumBy
<1>10. SumOf(v) = F[n]
  BY <1>2, SumBy DEF n
<1> QED BY <1>9, <1>10 DEF w

(* The sum without its first value. *)
LEMMA SumTail ==
  ASSUME NEW v \in Seq(Int), v # << >>
  PROVE  SumOf(v) = v[1] + SumOf(Tail(v))
<1> DEFINE n == Len(v)   w == Tail(v)
<1>1. n \in Nat /\ n > 0 /\ w \in Seq(Int) /\ Len(w) = n - 1 /\ v[1] \in Int
      /\ \A k \in 1..(n - 1) : w[k] = v[k + 1]
  OBVIOUS
<1>2. PICK F : IsSums(F, v)
  BY SumsExist
<1> DEFINE G == [k \in 0..(n - 1) |-> F[k + 1] - v[1]]
<1>3. F \in [0..n -> Int] /\ F[0] = 0 /\ \A k \in 1..n : F[k] = F[k - 1] + v[k]
  BY <1>2 DEF IsSums
<1> HIDE DEF w, n
<1>4. G \in [0..(n - 1) -> Int]
  BY <1>1, <1>3
<1>5. G[0] = 0
  <2>1. F[1] = v[1]
    BY <1>1, <1>3
  <2> QED BY <1>1, <2>1
<1>6. ASSUME NEW k \in 1..(n - 1) PROVE G[k] = G[k - 1] + w[k]
  <2>1. k + 1 \in 1..n /\ k \in 0..n /\ k + 1 \in 0..n /\ (k + 1) - 1 = k
    BY <1>1
  <2>2. F[k + 1] = F[k] + v[k + 1]
    BY <1>3, <2>1
  <2>3. F[k] \in Int /\ F[k + 1] \in Int /\ v[k + 1] \in Int
    <3>1. F[k] \in Int /\ F[k + 1] \in Int
      BY <1>3, <2>1
    <3>2. \A j \in 1..n : v[j] \in Int
      BY DEF n
    <3> QED BY <2>1, <3>1, <3>2
  <2>4. G[k] = F[k + 1] - v[1] /\ G[k - 1] = F[k] - v[1]
    <3>1. k \in 0..(n - 1) /\ k - 1 \in 0..(n - 1) /\ (k - 1) + 1 = k
      BY <1>1
    <3>2. \A j \in 0..(n - 1) : G[j] = F[j + 1] - v[1]
      OBVIOUS
    <3> HIDE DEF G
    <3>3. G[k] = F[k + 1] - v[1]
      BY <3>1, <3>2
    <3>4. G[k - 1] = F[(k - 1) + 1] - v[1]
      BY <3>1, <3>2
    <3> QED BY <3>1, <3>3, <3>4
  <2>5. w[k] = v[k + 1] /\ v[1] \in Int
    BY <1>1
  <2> HIDE DEF G
  <2> QED BY <2>2, <2>3, <2>4, <2>5
<1>7. G[n - 1] = F[n] - v[1] /\ F[n] \in Int
  BY <1>1, <1>3
<1> HIDE DEF G
<1>8. IsSums(G, w)
  BY <1>1, <1>4, <1>5, <1>6 DEF IsSums
<1>9. SumOf(w) = F[n] - v[1]
  BY <1>1, <1>7, <1>8, SumBy
<1>10. SumOf(v) = F[n]
  BY <1>2, SumBy DEF n
<1> QED BY <1>1, <1>7, <1>9, <1>10 DEF w

(* The sum after a change of one value. *)
LEMMA SumExcept ==
  ASSUME NEW v \in Seq(Int), NEW i \in 1..Len(v), NEW x \in Int
  PROVE  SumOf([v EXCEPT ![i] = x]) = (SumOf(v) + x) - v[i]
<1> DEFINE n == Len(v)   w == [v EXCEPT ![i] = x]
<1>1. n \in Nat /\ w \in Seq(Int) /\ Len(w) = n /\ v[i] \in Int /\ w[i] = x
      /\ \A k \in 1..n : v[k] \in Int /\ (k # i => w[k] = v[k])
  OBVIOUS
<1>2. PICK F : IsSums(F, v)
  BY SumsExist
<1>3. i \in 1..n
  OBVIOUS
<1> DEFINE G == [k \in 0..n |-> IF k < i THEN F[k] ELSE (F[k] + x) - v[i]]
<1>4. F \in [0..n -> Int] /\ F[0] = 0 /\ \A k \in 1..n : F[k] = F[k - 1] + v[k]
  BY <1>2 DEF IsSums
<1> HIDE DEF w, n
<1>5. G \in [0..n -> Int] /\ G[0] = 0
  <2>1. ASSUME NEW k \in 0..n PROVE F[k] \in Int /\ (F[k] + x) - v[i] \in Int
    <3>1. F[k] \in Int
      BY <1>4
    <3>2. v[i] \in Int
      BY <1>1
    <3> QED BY <3>1, <3>2
  <2>2. 0 < i /\ 0 \in 0..n
    BY <1>1, <1>3
  <2> QED BY <1>4, <2>1, <2>2
<1>6. ASSUME NEW k \in 1..n PROVE G[k] = G[k - 1] + w[k]
  <2>1. F[k] = F[k - 1] + v[k] /\ F[k] \in Int /\ F[k - 1] \in Int /\ k - 1 \in 0..n /\ k \in 0..n
    <3>1. k - 1 \in 0..n /\ k \in 0..n
      BY <1>1
    <3> QED BY <1>4, <3>1
  <2>2. /\ G[k] = IF k < i THEN F[k] ELSE (F[k] + x) - v[i]
        /\ G[k - 1] = IF k - 1 < i THEN F[k - 1] ELSE (F[k - 1] + x) - v[i]
        /\ v[i] \in Int /\ v[k] \in Int /\ w[i] = x /\ (k # i => w[k] = v[k])
    BY <1>1, <2>1
  <2> HIDE DEF G
  <2>3. CASE k < i
    BY <2>1, <2>2, <2>3
  <2>4. CASE k = i
    BY <2>1, <2>2, <2>4
  <2>5. CASE k > i
    BY <1>3, <2>1, <2>2, <2>5
  <2> QED BY <1>3, <2>3, <2>4, <2>5
<1>7. G[n] = (F[n] + x) - v[i]
  BY <1>1, <1>3
<1> HIDE DEF G
<1>8. IsSums(G, w)
  BY <1>1, <1>5, <1>6 DEF IsSums
<1>9. SumOf(w) = (F[n] + x) - v[i]
  BY <1>1, <1>7, <1>8, SumBy
<1>10. SumOf(v) = F[n]
  BY <1>2, SumBy DEF n
<1> QED BY <1>9, <1>10 DEF w

(* A sum of naturals is one. *)
LEMMA SumOfNaturals ==
  ASSUME NEW v \in Seq(Nat)
  PROVE  v \in Seq(Int) /\ SumOf(v) \in Nat
<1> DEFINE n == Len(v)
<1>1. n \in Nat /\ v \in Seq(Int) /\ \A k \in 1..n : v[k] \in Nat
  OBVIOUS
<1>2. PICK F : IsSums(F, v)
  BY <1>1, SumsExist
<1>3. F \in [0..n -> Int] /\ F[0] = 0 /\ \A k \in 1..n : F[k] = F[k - 1] + v[k]
  BY <1>2 DEF IsSums
<1> HIDE DEF n
<1> DEFINE T == { k \in 0..n : F[k] \in Nat }
<1>4. 0 \in T
  BY <1>1, <1>3
<1>5. ASSUME NEW k \in 1..n, k - 1 \in T PROVE k \in T
  <2>1. F[k - 1] \in Nat /\ v[k] \in Nat /\ F[k] = F[k - 1] + v[k]
    BY <1>1, <1>3, <1>5
  <2> QED BY <1>1, <2>1
<1>6. n \in T
  <2> HIDE DEF T
  <2>1. 0..n \subseteq T
    BY <1>1, <1>4, <1>5, UpTo
  <2> QED BY <1>1, <2>1
<1> QED BY <1>1, <1>2, <1>6, SumBy DEF n

-----------------------------------------------------------------------------
(* Sums over finite sets.  MapThenSumSet takes the elements in an order    *)
(* of its own; the sum does not depend on it.                              *)
PickOf(s) == CHOOSE x \in s : TRUE

SetSum(f, S) == MapThenSumSet(LAMBDA x : f[x], S)

IsSetSums(g, S, f) ==
  /\ g \in [SUBSET S -> Int]
  /\ \A s \in SUBSET S : g[s] = IF s = {} THEN 0 ELSE f[PickOf(s)] + g[s \ {PickOf(s)}]

(* The element to add next is one of the set. *)
LEMMA PickOfMember ==
  ASSUME NEW s, s # {}
  PROVE  PickOf(s) \in s
BY DEF PickOf

(* Without one of its elements a finite set is smaller by one. *)
LEMMA SmallerSet ==
  ASSUME NEW S, IsFiniteSet(S), NEW s \in SUBSET S, NEW x \in s
  PROVE  /\ Cardinality(s) \in Nat \ {0}
         /\ Cardinality(s \ {x}) = Cardinality(s) - 1
         /\ s \ {x} \in SUBSET S
<1>1. IsFiniteSet(s)
  BY FS_Subset
<1>2. Cardinality(s) \in Nat /\ Cardinality(s) # 0
  BY <1>1, FS_CardinalityType, FS_EmptySet
<1>3. Cardinality(s \ {x}) = Cardinality(s) - 1
  BY <1>1, FS_RemoveElement
<1> QED BY <1>2, <1>3

(* The recursion of MapThenSumSet has a solution on the subsets of a       *)
(* finite set, built up by their size.                                     *)
LEMMA SetSumsExist ==
  ASSUME NEW S, IsFiniteSet(S), NEW f, \A x \in S : f[x] \in Int
  PROVE  \E g : IsSetSums(g, S, f)
<1> DEFINE N == Cardinality(S)
           D(k) == { s \in SUBSET S : Cardinality(s) <= k }
           Solves(g, k) == /\ g \in [D(k) -> Int]
                           /\ \A s \in D(k) :
                                g[s] = IF s = {} THEN 0 ELSE f[PickOf(s)] + g[s \ {PickOf(s)}]
           T == { k \in 0..N : \E g : Solves(g, k) }
<1>1. N \in Nat /\ \A s \in SUBSET S : IsFiniteSet(s) /\ Cardinality(s) \in Nat /\ Cardinality(s) <= N
  BY FS_CardinalityType, FS_Subset
<1>2. 0 \in T
  <2> DEFINE g == [s \in D(0) |-> 0]
  <2>1. \A s \in D(0) : s = {}
    BY <1>1, FS_EmptySet
  <2>2. Solves(g, 0)
    BY <2>1
  <2> HIDE DEF g, Solves
  <2> QED BY <1>1, <2>2
<1>3. ASSUME NEW k \in 1..N, k - 1 \in T PROVE k \in T
  <2>1. PICK g : Solves(g, k - 1)
    BY <1>3
  <2> DEFINE h == [ s \in D(k) |-> IF s = {} THEN 0 ELSE f[PickOf(s)] + g[s \ {PickOf(s)}] ]
  <2>2. ASSUME NEW s \in D(k), s # {}
        PROVE  s \ {PickOf(s)} \in D(k - 1) /\ PickOf(s) \in S
    <3>1. PickOf(s) \in s
      BY <2>2, PickOfMember
    <3>2. Cardinality(s) \in Nat \ {0} /\ Cardinality(s \ {PickOf(s)}) = Cardinality(s) - 1
      BY <3>1, SmallerSet
    <3>3. Cardinality(s) <= k /\ k \in Nat
      BY <1>1
    <3>4. Cardinality(s) - 1 <= k - 1
      BY <3>2, <3>3
    <3> QED BY <3>1, <3>2, <3>4
  <2>3. \A s \in D(k - 1) : g[s] \in Int
    BY <2>1
  <2>4. h \in [D(k) -> Int]
    <3> SUFFICES ASSUME NEW s \in D(k) PROVE h[s] \in Int
      OBVIOUS
    <3>1. CASE s = {}
      BY <3>1
    <3>2. CASE s # {}
      <4>1. g[s \ {PickOf(s)}] \in Int /\ f[PickOf(s)] \in Int
        BY <2>2, <2>3, <3>2
      <4> QED BY <3>2, <4>1
    <3> QED BY <3>1, <3>2
  <2>5. ASSUME NEW s \in D(k - 1) PROVE s \in D(k) /\ h[s] = g[s]
    <3>1. s \in D(k)
      BY <1>1
    <3>2. g[s] = IF s = {} THEN 0 ELSE f[PickOf(s)] + g[s \ {PickOf(s)}]
      BY <2>1
    <3> QED BY <3>1, <3>2
  <2>6. ASSUME NEW s \in D(k)
        PROVE  h[s] = IF s = {} THEN 0 ELSE f[PickOf(s)] + h[s \ {PickOf(s)}]
    <3>1. CASE s = {}
      BY <3>1
    <3>2. CASE s # {}
      <4>1. h[s \ {PickOf(s)}] = g[s \ {PickOf(s)}]
        BY <2>2, <2>5, <3>2
      <4>2. h[s] = f[PickOf(s)] + g[s \ {PickOf(s)}]
        BY <3>2
      <4> QED BY <3>2, <4>1, <4>2
    <3> QED BY <3>1, <3>2
  <2> HIDE DEF h
  <2>7. Solves(h, k)
    BY <2>4, <2>6
  <2> HIDE DEF Solves
  <2> QED BY <1>1, <2>7
<1>4. N \in T
  <2> HIDE DEF T, N
  <2>1. 0..N \subseteq T
    BY <1>1, <1>2, <1>3, UpTo
  <2> QED BY <1>1, <2>1
<1>5. D(N) = SUBSET S
  BY <1>1
<1> HIDE DEF D
<1>6. PICK g : Solves(g, N)
  BY <1>4
<1>7. IsSetSums(g, S, f)
  BY <1>5, <1>6 DEF IsSetSums
<1> QED BY <1>7

(* Any element may be taken out first. *)
LEMMA SetSumsRemove ==
  ASSUME NEW S, IsFiniteSet(S), NEW f, \A x \in S : f[x] \in Int, NEW g, IsSetSums(g, S, f)
  PROVE  \A s \in SUBSET S : \A x \in s : g[s] = f[x] + g[s \ {x}]
<1> DEFINE N == Cardinality(S)
           T == { k \in 0..N : \A s \in SUBSET S :
                    Cardinality(s) <= k => \A x \in s : g[s] = f[x] + g[s \ {x}] }
<1>1. N \in Nat /\ \A s \in SUBSET S : Cardinality(s) \in Nat /\ Cardinality(s) <= N
  BY FS_CardinalityType, FS_Subset
<1>2. 0 \in T
  <2>1. ASSUME NEW s \in SUBSET S, Cardinality(s) <= 0, NEW x \in s PROVE FALSE
    <3>1. Cardinality(s) \in Nat \ {0}
      BY SmallerSet
    <3> QED BY <2>1, <3>1
  <2> QED BY <1>1, <2>1
<1>3. ASSUME NEW k \in 1..N, k - 1 \in T PROVE k \in T
  <2> SUFFICES ASSUME NEW s \in SUBSET S, Cardinality(s) <= k, NEW x \in s
               PROVE  g[s] = f[x] + g[s \ {x}]
    BY <1>1
  <2> DEFINE c == PickOf(s)
  <2>1. c \in s
    BY PickOfMember
  <2>2. g[s] = f[c] + g[s \ {c}]
    BY DEF IsSetSums
  <2> HIDE DEF c
  <2>3. CASE x = c
    BY <2>2, <2>3
  <2>4. CASE x # c
    <3>1. /\ s \ {c} \in SUBSET S /\ s \ {x} \in SUBSET S
          /\ Cardinality(s \ {c}) = Cardinality(s) - 1
          /\ Cardinality(s \ {x}) = Cardinality(s) - 1
          /\ Cardinality(s) \in Nat
      BY <2>1, SmallerSet
    <3>2. Cardinality(s \ {c}) <= k - 1 /\ Cardinality(s \ {x}) <= k - 1
      BY <1>1, <3>1
    <3>3. x \in s \ {c} /\ c \in s \ {x}
      BY <2>1, <2>4
    <3>4. g[s \ {c}] = f[x] + g[(s \ {c}) \ {x}]
      BY <1>3, <3>1, <3>2, <3>3
    <3>5. g[s \ {x}] = f[c] + g[(s \ {x}) \ {c}]
      BY <1>3, <3>1, <3>2, <3>3
    <3>6. (s \ {c}) \ {x} = (s \ {x}) \ {c} /\ (s \ {c}) \ {x} \in SUBSET S
      OBVIOUS
    <3>7. g[(s \ {c}) \ {x}] \in Int /\ f[x] \in Int /\ f[c] \in Int
      BY <2>1, <3>6 DEF IsSetSums
    <3> DEFINE rest == g[(s \ {c}) \ {x}]
               fx == f[x]
               fc == f[c]
    <3>8. g[s \ {c}] = fx + rest /\ g[s \ {x}] = fc + rest
      BY <3>4, <3>5, <3>6
    <3>9. g[s] = fc + (fx + rest)
      BY <2>2, <3>8
    <3>10. rest \in Int /\ fx \in Int /\ fc \in Int
      BY <3>7
    <3> HIDE DEF rest, fx, fc
    <3>11. fc + (fx + rest) = fx + (fc + rest)
      BY <3>10
    <3>12. g[s] = fx + g[s \ {x}]
      BY <3>8, <3>9, <3>11, Zenon
    <3> QED BY <3>12 DEF fx
  <2> QED BY <2>3, <2>4
<1>4. N \in T
  <2> HIDE DEF T, N
  <2>1. 0..N \subseteq T
    BY <1>1, <1>2, <1>3, UpTo
  <2> QED BY <1>1, <2>1
<1> QED BY <1>1, <1>4

(* The sums of two functions that agree on a set agree there. *)
LEMMA SetSumsAgree ==
  ASSUME NEW S, NEW R, IsFiniteSet(S), NEW A \in SUBSET S, A \in SUBSET R,
         NEW f, NEW g, IsSetSums(g, S, f), NEW e, NEW h, IsSetSums(h, R, e),
         \A x \in A : f[x] = e[x]
  PROVE  g[A] = h[A]
<1> DEFINE N == Cardinality(S)
           T == { k \in 0..N : \A s \in SUBSET A : Cardinality(s) <= k => g[s] = h[s] }
<1>1. N \in Nat /\ \A s \in SUBSET A : /\ IsFiniteSet(s) /\ Cardinality(s) \in Nat
                                       /\ Cardinality(s) <= N
  <2>1. \A s \in SUBSET A : s \in SUBSET S
    OBVIOUS
  <2> QED BY <2>1, FS_CardinalityType, FS_Subset
<1>2. 0 \in T
  <2>1. ASSUME NEW s \in SUBSET A, Cardinality(s) <= 0 PROVE g[s] = h[s]
    <3>1. s = {}
      BY <1>1, <2>1, FS_EmptySet
    <3> QED BY <3>1 DEF IsSetSums
  <2> QED BY <1>1, <2>1
<1>3. ASSUME NEW k \in 1..N, k - 1 \in T PROVE k \in T
  <2> SUFFICES ASSUME NEW s \in SUBSET A, Cardinality(s) <= k PROVE g[s] = h[s]
    BY <1>1
  <2> DEFINE c == PickOf(s)
  <2>1. s \in SUBSET S /\ s \in SUBSET R
    OBVIOUS
  <2>2. CASE s = {}
    BY <2>2 DEF IsSetSums
  <2>3. CASE s # {}
    <3>1. c \in s
      BY <2>3, PickOfMember
    <3>2. g[s] = f[c] + g[s \ {c}] /\ h[s] = e[c] + h[s \ {c}]
      BY <2>1, <2>3 DEF IsSetSums
    <3> HIDE DEF c
    <3>3. Cardinality(s \ {c}) = Cardinality(s) - 1 /\ Cardinality(s) \in Nat
      BY <2>1, <3>1, SmallerSet
    <3>4. Cardinality(s \ {c}) <= k - 1 /\ s \ {c} \in SUBSET A
      BY <1>1, <3>3
    <3>5. g[s \ {c}] = h[s \ {c}]
      BY <1>3, <3>4
    <3>6. f[c] = e[c]
      BY <3>1
    <3> QED BY <3>2, <3>5, <3>6
  <2> QED BY <2>2, <2>3
<1>4. N \in T
  <2> HIDE DEF T, N
  <2>1. 0..N \subseteq T
    BY <1>1, <1>2, <1>3, UpTo
  <2> QED BY <1>1, <2>1
<1> QED BY <1>1, <1>4

(* A function that satisfies the equation of the sums is integer-valued. *)
SolvesSetSums(g, S, f) ==
  g = [s \in SUBSET S |-> IF s = {} THEN 0 ELSE f[PickOf(s)] + g[s \ {PickOf(s)}]]

(* A solution of the equation of the sums has integer values. *)
LEMMA SetSumsTyped ==
  ASSUME NEW S, IsFiniteSet(S), NEW f, \A x \in S : f[x] \in Int, NEW g, SolvesSetSums(g, S, f)
  PROVE  IsSetSums(g, S, f)
<1>1. \A s \in SUBSET S : g[s] = IF s = {} THEN 0 ELSE f[PickOf(s)] + g[s \ {PickOf(s)}]
  BY DEF SolvesSetSums
<1>2. DOMAIN g = SUBSET S /\ g = [s \in SUBSET S |-> g[s]]
  BY DEF SolvesSetSums
<1> DEFINE N == Cardinality(S)
           T == { k \in 0..N : \A s \in SUBSET S : Cardinality(s) <= k => g[s] \in Int }
<1>3. N \in Nat /\ \A s \in SUBSET S : /\ IsFiniteSet(s) /\ Cardinality(s) \in Nat
                                       /\ Cardinality(s) <= N
  BY FS_CardinalityType, FS_Subset
<1>4. 0 \in T
  <2>1. ASSUME NEW s \in SUBSET S, Cardinality(s) <= 0 PROVE g[s] \in Int
    <3>1. s = {}
      BY <1>3, <2>1, FS_EmptySet
    <3>2. g[s] = 0
      BY <1>1, <3>1
    <3> QED BY <3>2
  <2> QED BY <1>3, <2>1
<1>5. ASSUME NEW k \in 1..N, k - 1 \in T PROVE k \in T
  <2> SUFFICES ASSUME NEW s \in SUBSET S, Cardinality(s) <= k PROVE g[s] \in Int
    BY <1>3
  <2> DEFINE c == PickOf(s)
  <2>1. CASE s = {}
    <3>1. g[s] = 0
      BY <1>1, <2>1
    <3> QED BY <3>1
  <2>2. CASE s # {}
    <3>1. c \in s
      BY <2>2, PickOfMember
    <3>2. g[s] = f[c] + g[s \ {c}]
      BY <1>1, <2>2
    <3> HIDE DEF c
    <3>3. /\ Cardinality(s \ {c}) = Cardinality(s) - 1 /\ Cardinality(s) \in Nat
          /\ s \ {c} \in SUBSET S
      BY <3>1, SmallerSet
    <3>4. Cardinality(s \ {c}) <= k - 1
      BY <1>3, <3>3
    <3>5. g[s \ {c}] \in Int /\ f[c] \in Int
      BY <1>5, <3>1, <3>3, <3>4
    <3> DEFINE a == f[c]
               b == g[s \ {c}]
    <3>6. g[s] = a + b /\ a \in Int /\ b \in Int
      BY <3>2, <3>5
    <3> HIDE DEF a, b, T, N
    <3>7. a + b \in Int
      BY <3>6
    <3> QED BY <3>6, <3>7, Zenon
  <2> QED BY <2>1, <2>2
<1>6. N \in T
  <2> HIDE DEF T, N
  <2>1. 0..N \subseteq T
    BY <1>3, <1>4, <1>5, UpTo
  <2> QED BY <1>3, <2>1
<1>7. \A s \in SUBSET S : g[s] \in Int
  BY <1>3, <1>6
<1> QED BY <1>1, <1>2, <1>7 DEF IsSetSums

(* What MapThenSumSet computes. *)
LEMMA SetSumBy ==
  ASSUME NEW S, IsFiniteSet(S), NEW f, \A x \in S : f[x] \in Int
  PROVE  \E g : IsSetSums(g, S, f) /\ SetSum(f, S) = g[S]
<1> DEFINE It == CHOOSE g : g = [s \in SUBSET S |->
                   IF s = {} THEN 0 ELSE f[CHOOSE x \in s : TRUE] + g[s \ {CHOOSE x \in s : TRUE}]]
<1>1. SetSum(f, S) = It[S]
  BY DEF SetSum, MapThenSumSet, MapThenFoldSet
<1>2. PICK h : IsSetSums(h, S, f)
  BY SetSumsExist
<1>3. h = [s \in SUBSET S |->
             IF s = {} THEN 0 ELSE f[CHOOSE x \in s : TRUE] + h[s \ {CHOOSE x \in s : TRUE}]]
  BY <1>2 DEF IsSetSums, PickOf
<1>4. It = [s \in SUBSET S |->
             IF s = {} THEN 0 ELSE f[CHOOSE x \in s : TRUE] + It[s \ {CHOOSE x \in s : TRUE}]]
  BY <1>3
<1> HIDE DEF It
<1>5. SolvesSetSums(It, S, f)
  BY <1>4 DEF SolvesSetSums, PickOf
<1>6. IsSetSums(It, S, f)
  BY <1>5, SetSumsTyped
<1> QED BY <1>1, <1>6

(* The sum over no element. *)
LEMMA SetSumEmpty ==
  ASSUME NEW f
  PROVE  SetSum(f, {}) = 0
<1>1. IsFiniteSet({}) /\ \A x \in {} : f[x] \in Int
  BY FS_EmptySet
<1>2. PICK g : IsSetSums(g, {}, f) /\ SetSum(f, {}) = g[{}]
  BY <1>1, SetSumBy
<1> QED BY <1>2 DEF IsSetSums

(* The sum of integers over a finite set is one. *)
LEMMA SetSumType ==
  ASSUME NEW S, IsFiniteSet(S), NEW f, \A x \in S : f[x] \in Int
  PROVE  SetSum(f, S) \in Int
<1>1. PICK g : IsSetSums(g, S, f) /\ SetSum(f, S) = g[S]
  BY SetSumBy
<1> QED BY <1>1 DEF IsSetSums

(* The sum depends on the values on the set only. *)
LEMMA SetSumSame ==
  ASSUME NEW S, IsFiniteSet(S), NEW f, NEW e, \A x \in S : f[x] \in Int /\ f[x] = e[x]
  PROVE  SetSum(f, S) = SetSum(e, S)
<1>1. PICK g : IsSetSums(g, S, f) /\ SetSum(f, S) = g[S]
  BY SetSumBy
<1>2. PICK h : IsSetSums(h, S, e) /\ SetSum(e, S) = h[S]
  BY SetSumBy
<1>3. g[S] = h[S]
  <2>1. S \in SUBSET S /\ \A x \in S : f[x] = e[x]
    OBVIOUS
  <2> QED BY <1>1, <1>2, <2>1, SetSumsAgree
<1> QED BY <1>1, <1>2, <1>3

(* Any element can be taken out of a sum first. *)
LEMMA SetSumRemove ==
  ASSUME NEW S, IsFiniteSet(S), NEW f, \A x \in S : f[x] \in Int, NEW x \in S
  PROVE  SetSum(f, S) = f[x] + SetSum(f, S \ {x})
<1> DEFINE R == S \ {x}
<1>1. IsFiniteSet(R) /\ R \in SUBSET S /\ R \in SUBSET R /\ \A y \in R : f[y] \in Int
  BY FS_Subset
<1> HIDE DEF R
<1>2. PICK g : IsSetSums(g, S, f) /\ SetSum(f, S) = g[S]
  BY SetSumBy
<1>3. PICK h : IsSetSums(h, R, f) /\ SetSum(f, R) = h[R]
  BY <1>1, SetSumBy
<1>4. g[R] = h[R]
  BY <1>1, <1>2, <1>3, SetSumsAgree
<1>5. g[S] = f[x] + g[R]
  <2>1. S \in SUBSET S
    OBVIOUS
  <2> QED BY <1>2, <2>1, SetSumsRemove DEF R
<1> QED BY <1>2, <1>3, <1>4, <1>5 DEF R

(* Two sums that differ in one term. *)
OneTermApart(S, R, x, f, g) ==
  /\ IsFiniteSet(S) /\ IsFiniteSet(R) /\ S \ {x} = R \ {x}
  /\ \A y \in S : f[y] \in Int
  /\ \A y \in R : g[y] \in Int
  /\ \A y \in S \ {x} : f[y] = g[y]

TermOf(f, S, x) == IF x \in S THEN f[x] ELSE 0

(* They differ by the difference of that term. *)
LEMMA SetSumOneTerm ==
  ASSUME NEW S, NEW R, NEW x, NEW f, NEW g, OneTermApart(S, R, x, f, g)
  PROVE  /\ SetSum(f, S) \in Int /\ SetSum(g, R) \in Int
         /\ SetSum(f, S) - TermOf(f, S, x) = SetSum(g, R) - TermOf(g, R, x)
<1> DEFINE A == S \ {x}
           B == R \ {x}
           a == SetSum(f, A)
           fx == IF x \in S THEN f[x] ELSE 0
           gx == IF x \in R THEN g[x] ELSE 0
<1> USE DEF OneTermApart
<1>1. IsFiniteSet(A)
  BY FS_Subset
<1>2. a \in Int
  BY <1>1, SetSumType
<1>3. SetSum(g, B) = a
  <2>1. \A y \in A : f[y] \in Int /\ f[y] = g[y]
    OBVIOUS
  <2>2. A = B
    OBVIOUS
  <2> HIDE DEF A, B
  <2>3. SetSum(f, A) = SetSum(g, A)
    BY <1>1, <2>1, SetSumSame
  <2> QED BY <2>2, <2>3
<1>4. SetSum(f, S) = fx + a /\ fx \in Int
  <2>1. CASE x \in S
    BY <2>1, SetSumRemove
  <2>2. CASE x \notin S
    <3>1. A = S /\ fx = 0
      BY <2>2
    <3>2. SetSum(f, S) = a
      BY <3>1
    <3> HIDE DEF a
    <3> QED BY <1>2, <3>1, <3>2
  <2> QED BY <2>1, <2>2
<1>5. SetSum(g, R) = gx + a /\ gx \in Int
  <2>1. CASE x \in R
    <3>1. SetSum(g, R) = g[x] + SetSum(g, B)
      BY <2>1, SetSumRemove
    <3>2. gx = g[x] /\ gx \in Int
      BY <2>1
    <3> HIDE DEF a, B, gx
    <3> QED BY <1>3, <3>1, <3>2
  <2>2. CASE x \notin R
    <3>1. B = R /\ gx = 0
      BY <2>2
    <3>2. SetSum(g, R) = a
      BY <1>3, <3>1
    <3> HIDE DEF a
    <3> QED BY <1>2, <3>1, <3>2
  <2> QED BY <2>1, <2>2
<1> HIDE DEF a, fx, gx
<1>6. SetSum(f, S) - fx = SetSum(g, R) - gx /\ SetSum(f, S) \in Int /\ SetSum(g, R) \in Int
  BY <1>2, <1>4, <1>5
<1> QED BY <1>6 DEF fx, gx, TermOf

(* A sum of zeros. *)
LEMMA SetSumZero ==
  ASSUME NEW S, IsFiniteSet(S), NEW f, \A x \in S : f[x] = 0
  PROVE  SetSum(f, S) = 0
<1> DEFINE g == [s \in SUBSET S |-> 0]
<1>1. IsSetSums(g, S, f)
  <2>1. \A s \in SUBSET S : s # {} => PickOf(s) \in s /\ s \ {PickOf(s)} \in SUBSET S
    BY PickOfMember
  <2> QED BY <2>1 DEF IsSetSums
<1>2. \A x \in S : f[x] \in Int
  OBVIOUS
<1>3. PICK h : IsSetSums(h, S, f) /\ SetSum(f, S) = h[S]
  BY <1>2, SetSumBy
<1>4. g[S] = 0 /\ S \in SUBSET S
  OBVIOUS
<1> HIDE DEF g
<1>5. g[S] = h[S]
  <2>1. S \in SUBSET S /\ \A x \in S : f[x] = f[x]
    OBVIOUS
  <2> QED BY <1>1, <1>3, <2>1, SetSumsAgree
<1> QED BY <1>3, <1>4, <1>5

(* The sum of two sums. *)
LEMMA SetSumAdd ==
  ASSUME NEW S, IsFiniteSet(S), NEW f, NEW g, NEW h,
         \A x \in S : f[x] \in Int /\ g[x] \in Int /\ h[x] = f[x] + g[x]
  PROVE  /\ SetSum(f, S) \in Int /\ SetSum(g, S) \in Int
         /\ SetSum(h, S) = SetSum(f, S) + SetSum(g, S)
<1>1. \A x \in S : f[x] \in Int /\ g[x] \in Int /\ h[x] \in Int
  OBVIOUS
<1>2. PICK a : IsSetSums(a, S, f) /\ SetSum(f, S) = a[S]
  BY <1>1, SetSumBy
<1>3. PICK b : IsSetSums(b, S, g) /\ SetSum(g, S) = b[S]
  BY <1>1, SetSumBy
<1>4. PICK c : IsSetSums(c, S, h) /\ SetSum(h, S) = c[S]
  BY <1>1, SetSumBy
<1> DEFINE d == [s \in SUBSET S |-> a[s] + b[s]]
<1>5. \A s \in SUBSET S : a[s] \in Int /\ b[s] \in Int /\ d[s] = a[s] + b[s]
  BY <1>2, <1>3 DEF IsSetSums
<1>6. IsSetSums(d, S, h)
  <2>1. d \in [SUBSET S -> Int]
    <3>1. ASSUME NEW s \in SUBSET S PROVE a[s] + b[s] \in Int
      <4>1. a[s] \in Int /\ b[s] \in Int
        BY <1>5
      <4> QED BY <4>1
    <3> QED BY <3>1
  <2>2. ASSUME NEW s \in SUBSET S
        PROVE  d[s] = IF s = {} THEN 0 ELSE h[PickOf(s)] + d[s \ {PickOf(s)}]
    <3> DEFINE p == PickOf(s)
               t == s \ {p}
    <3>1. CASE s = {}
      <4>1. a[s] = 0 /\ b[s] = 0
        BY <1>2, <1>3, <3>1 DEF IsSetSums
      <4> QED BY <1>5, <3>1, <4>1
    <3>2. CASE s # {}
      <4>1. p \in S /\ t \in SUBSET S
        BY <3>2, PickOfMember
      <4>2. a[s] = f[p] + a[t] /\ b[s] = g[p] + b[t]
        BY <1>2, <1>3, <3>2 DEF IsSetSums
      <4>3. d[s] = a[s] + b[s] /\ d[t] = a[t] + b[t] /\ a[t] \in Int /\ b[t] \in Int
        BY <1>5, <4>1
      <4>4. f[p] \in Int /\ g[p] \in Int /\ h[p] = f[p] + g[p]
        BY <4>1
      <4> HIDE DEF d, p, t
      <4>5. d[s] = h[p] + d[t]
        BY <4>2, <4>3, <4>4
      <4> QED BY <3>2, <4>5 DEF p, t
    <3> QED BY <3>1, <3>2
  <2> HIDE DEF d
  <2> QED BY <2>1, <2>2 DEF IsSetSums
<1>7. S \in SUBSET S
  OBVIOUS
<1>8. d[S] = c[S]
  <2> HIDE DEF d
  <2>1. \A x \in S : h[x] = h[x]
    OBVIOUS
  <2> QED BY <1>4, <1>6, <1>7, <2>1, SetSumsAgree
<1>9. d[S] = a[S] + b[S] /\ a[S] \in Int /\ b[S] \in Int
  BY <1>5, <1>7
<1> HIDE DEF d
<1> QED BY <1>2, <1>3, <1>4, <1>8, <1>9

(* Zeros may be left out of a sum. *)
LEMMA SetSumWithin ==
  ASSUME NEW S, IsFiniteSet(S), NEW A, A \subseteq S, NEW f,
         \A x \in S : f[x] \in Int, \A x \in S \ A : f[x] = 0
  PROVE  SetSum(f, A) = SetSum(f, S)
<1>1. IsFiniteSet(A) /\ \A x \in A : f[x] \in Int
  BY FS_Subset
<1>2. PICK a : IsSetSums(a, A, f) /\ SetSum(f, A) = a[A]
  BY <1>1, SetSumBy
<1>3. PICK b : IsSetSums(b, S, f) /\ SetSum(f, S) = b[S]
  BY SetSumBy
<1> DEFINE d == [s \in SUBSET S |-> a[s \cap A]]
<1>4. \A s \in SUBSET S : s \cap A \in SUBSET A /\ d[s] = a[s \cap A] /\ a[s \cap A] \in Int
  BY <1>2 DEF IsSetSums
<1>5. \A s \in SUBSET A : \A x \in s : a[s] = f[x] + a[s \ {x}]
  <2> SUFFICES ASSUME NEW s \in SUBSET A, NEW x \in s PROVE a[s] = f[x] + a[s \ {x}]
    OBVIOUS
  <2>1. IsSetSums(a, A, f)
    BY <1>2
  <2> QED BY <1>1, <2>1, SetSumsRemove
<1>6. IsSetSums(d, S, f)
  <2>1. d \in [SUBSET S -> Int]
    BY <1>4
  <2>2. ASSUME NEW s \in SUBSET S
        PROVE  d[s] = IF s = {} THEN 0 ELSE f[PickOf(s)] + d[s \ {PickOf(s)}]
    <3> DEFINE p == PickOf(s)
               t == s \ {p}
    <3>1. CASE s = {}
      <4>1. s \cap A = {} /\ a[{}] = 0
        BY <1>2, <3>1 DEF IsSetSums
      <4> QED BY <1>4, <3>1, <4>1
    <3>2. CASE s # {}
      <4>1. p \in s /\ t \in SUBSET S
        BY <3>2, PickOfMember
      <4>2. d[s] = a[s \cap A] /\ d[t] = a[t \cap A] /\ d[t] \in Int
        BY <1>4, <4>1
      <4>3. CASE p \in A
        <5>1. t \cap A = (s \cap A) \ {p} /\ p \in s \cap A
          BY <4>1, <4>3
        <5>2. a[s \cap A] = f[p] + a[(s \cap A) \ {p}]
          BY <1>4, <1>5, <5>1
        <5> HIDE DEF d, p, t
        <5>3. d[s] = f[p] + d[t]
          BY <4>2, <5>1, <5>2
        <5> QED BY <3>2, <5>3 DEF p, t
      <4>4. CASE p \notin A
        <5>1. t \cap A = s \cap A /\ f[p] = 0
          BY <4>1, <4>4
        <5> HIDE DEF d, p, t
        <5>2. d[s] = d[t]
          BY <4>2, <5>1
        <5>3. d[s] = f[p] + d[t]
          BY <4>2, <5>1, <5>2
        <5> QED BY <3>2, <5>3 DEF p, t
      <4> QED BY <4>3, <4>4
    <3> QED BY <3>1, <3>2
  <2> HIDE DEF d
  <2> QED BY <2>1, <2>2 DEF IsSetSums
<1>7. d[S] = a[A]
  <2>1. S \cap A = A /\ S \in SUBSET S
    OBVIOUS
  <2> QED BY <1>4, <2>1
<1>8. d[S] = b[S]
  <2> HIDE DEF d
  <2>1. S \in SUBSET S /\ \A x \in S : f[x] = f[x]
    OBVIOUS
  <2> QED BY <1>3, <1>6, <2>1, SetSumsAgree
<1> HIDE DEF d
<1> QED BY <1>2, <1>3, <1>7, <1>8

(* Every term of a sum over a set is within a value of its own. *)
WithinSlots(S, f, slot, v) ==
  /\ \A x \in S : /\ f[x] \in Int /\ slot[x] \in 0..Len(v)
                  /\ slot[x] = 0 => f[x] = 0
                  /\ slot[x] # 0 => f[x] <= v[slot[x]]
  /\ \A x, y \in S : slot[x] = slot[y] /\ slot[x] # 0 => x = y

(* A sum over a set, each term of which is within a value of its own in a  *)
(* sequence of naturals, is within the sum of the sequence.                *)
LEMMA SetSumBySlots ==
  ASSUME NEW S, IsFiniteSet(S), NEW f, NEW slot, NEW v \in Seq(Nat), WithinSlots(S, f, slot, v)
  PROVE  SetSum(f, S) \in Int /\ SetSum(f, S) <= SumOf(v)
<1> DEFINE n == Len(v)
           Up(k) == { x \in S : slot[x] <= k }
<1>1. n \in Nat /\ v \in Seq(Int) /\ \A k \in 1..n : v[k] \in Nat
  OBVIOUS
<1>2. PICK F : IsSums(F, v)
  BY <1>1, SumsExist
<1>3. F \in [0..n -> Int] /\ F[0] = 0 /\ \A k \in 1..n : F[k] = F[k - 1] + v[k]
  BY <1>2 DEF IsSums
<1>4. \A k : IsFiniteSet(Up(k)) /\ Up(k) \subseteq S
  BY FS_Subset
<1>5. /\ \A x \in S : f[x] \in Int /\ slot[x] \in 0..n /\ (slot[x] = 0 => f[x] = 0)
                      /\ (slot[x] # 0 => f[x] <= v[slot[x]])
      /\ \A x, y \in S : slot[x] = slot[y] /\ slot[x] # 0 => x = y
  BY DEF WithinSlots
<1> HIDE DEF n
<1>6. \A k : SetSum(f, Up(k)) \in Int
  <2> SUFFICES ASSUME NEW k PROVE SetSum(f, Up(k)) \in Int
    OBVIOUS
  <2>1. \A x \in Up(k) : f[x] \in Int
    BY <1>5
  <2>2. IsFiniteSet(Up(k))
    BY <1>4
  <2> HIDE DEF Up
  <2> QED BY <2>1, <2>2, SetSumType
<1> DEFINE T == { k \in 0..n : SetSum(f, Up(k)) <= F[k] }
<1>7. 0 \in T
  <2>1. \A x \in Up(0) : f[x] = 0
    BY <1>1, <1>5
  <2>2. IsFiniteSet(Up(0))
    BY <1>4
  <2>3. SetSum(f, Up(0)) = 0
    <3> HIDE DEF Up
    <3> QED BY <2>1, <2>2, SetSumZero
  <2> QED BY <1>1, <1>3, <2>3
<1>8. ASSUME NEW k \in 1..n, k - 1 \in T PROVE k \in T
  <2>1. /\ k \in 0..n /\ k - 1 \in 0..n /\ F[k] = F[k - 1] + v[k] /\ v[k] \in Nat
        /\ F[k - 1] \in Int /\ k # 0
    BY <1>1, <1>3
  <2>2. SetSum(f, Up(k - 1)) <= F[k - 1] /\ SetSum(f, Up(k - 1)) \in Int
    BY <1>6, <1>8
  <2>3. SetSum(f, Up(k)) <= F[k]
    <3>1. CASE \E x \in S : slot[x] = k
      <4>1. PICK x \in S : slot[x] = k
        BY <3>1
      <4>2. x \in Up(k) /\ Up(k) \ {x} = Up(k - 1)
        BY <1>1, <1>5, <2>1, <4>1
      <4>3. IsFiniteSet(Up(k)) /\ \A y \in Up(k) : f[y] \in Int
        BY <1>4, <1>5
      <4>4. f[x] <= v[k] /\ f[x] \in Int
        BY <1>5, <2>1, <4>1
      <4> HIDE DEF Up
      <4>5. SetSum(f, Up(k)) = f[x] + SetSum(f, Up(k - 1))
        BY <4>2, <4>3, SetSumRemove
      <4> QED BY <2>1, <2>2, <4>4, <4>5
    <3>2. CASE ~\E x \in S : slot[x] = k
      <4>1. Up(k) = Up(k - 1)
        BY <1>1, <1>5, <2>1, <3>2
      <4> HIDE DEF Up
      <4> QED BY <2>1, <2>2, <4>1
    <3> QED BY <3>1, <3>2
  <2> QED BY <2>1, <2>3
<1>9. n \in T
  <2> HIDE DEF T
  <2>1. 0..n \subseteq T
    BY <1>1, <1>7, <1>8, UpTo
  <2> QED BY <1>1, <2>1
<1>10. Up(n) = S
  BY <1>1, <1>5
<1>11. SumOf(v) = F[n]
  BY <1>1, <1>2, SumBy DEF n
<1> QED BY <1>6, <1>9, <1>10, <1>11

(* A sum of naturals over a set is one. *)
LEMMA SetSumNatural ==
  ASSUME NEW S, IsFiniteSet(S), NEW f, \A x \in S : f[x] \in Nat
  PROVE  SetSum(f, S) \in Nat
<1>1. \A x \in S : f[x] \in Int
  OBVIOUS
<1>2. PICK g : IsSetSums(g, S, f) /\ SetSum(f, S) = g[S]
  BY <1>1, SetSumBy
<1>3. \A s \in SUBSET S : \A x \in s : g[s] = f[x] + g[s \ {x}]
  <2> SUFFICES ASSUME NEW s \in SUBSET S, NEW x \in s PROVE g[s] = f[x] + g[s \ {x}]
    OBVIOUS
  <2>1. IsSetSums(g, S, f)
    BY <1>2
  <2> QED BY <1>1, <2>1, SetSumsRemove
<1>4. g[{}] = 0
  BY <1>2 DEF IsSetSums
<1> DEFINE N == Cardinality(S)
           T == { k \in 0..N : \A s \in SUBSET S : Cardinality(s) <= k => g[s] \in Nat }
<1>5. N \in Nat /\ \A s \in SUBSET S : /\ IsFiniteSet(s) /\ Cardinality(s) \in Nat
                                       /\ Cardinality(s) <= N
  BY FS_CardinalityType, FS_Subset
<1>6. 0 \in T
  <2>1. ASSUME NEW s \in SUBSET S, Cardinality(s) <= 0 PROVE g[s] \in Nat
    <3>1. s = {}
      BY <1>5, <2>1, FS_EmptySet
    <3> QED BY <1>4, <3>1
  <2> QED BY <1>5, <2>1
<1>7. ASSUME NEW k \in 1..N, k - 1 \in T PROVE k \in T
  <2> SUFFICES ASSUME NEW s \in SUBSET S, Cardinality(s) <= k PROVE g[s] \in Nat
    BY <1>5
  <2>1. CASE s = {}
    BY <1>4, <2>1
  <2>2. CASE s # {}
    <3>1. PICK x \in s : TRUE
      BY <2>2
    <3>2. /\ Cardinality(s \ {x}) = Cardinality(s) - 1 /\ Cardinality(s) \in Nat
          /\ s \ {x} \in SUBSET S
      BY SmallerSet
    <3>3. Cardinality(s \ {x}) <= k - 1
      BY <1>5, <3>2
    <3>4. g[s \ {x}] \in Nat /\ f[x] \in Nat
      BY <1>7, <3>2, <3>3
    <3>5. g[s] = f[x] + g[s \ {x}]
      BY <1>3
    <3> HIDE DEF T, N
    <3> QED BY <3>4, <3>5
  <2> QED BY <2>1, <2>2
<1>8. N \in T
  <2> HIDE DEF T, N
  <2>1. 0..N \subseteq T
    BY <1>5, <1>6, <1>7, UpTo
  <2> QED BY <1>5, <2>1
<1>9. g[S] \in Nat
  BY <1>5, <1>8
<1> QED BY <1>2, <1>9

(* Term by term, a smaller set of values has the smaller sum. *)
LEMMA SetSumLess ==
  ASSUME NEW S, IsFiniteSet(S), NEW f, NEW g,
         \A x \in S : f[x] \in Int /\ g[x] \in Int /\ f[x] <= g[x]
  PROVE  SetSum(f, S) \in Int /\ SetSum(g, S) \in Int /\ SetSum(f, S) <= SetSum(g, S)
<1> DEFINE d == [x \in S |-> g[x] - f[x]]
<1>1. ASSUME NEW x \in S
      PROVE  f[x] \in Int /\ d[x] \in Nat /\ d[x] \in Int /\ g[x] = f[x] + d[x]
  <2>1. f[x] \in Int /\ g[x] \in Int /\ f[x] <= g[x] /\ d[x] = g[x] - f[x]
    OBVIOUS
  <2> QED BY <2>1
<1> HIDE DEF d
<1>2. /\ SetSum(f, S) \in Int /\ SetSum(d, S) \in Int
      /\ SetSum(g, S) = SetSum(f, S) + SetSum(d, S)
  BY <1>1, SetSumAdd
<1>3. SetSum(d, S) \in Nat
  BY <1>1, SetSumNatural
<1> QED BY <1>2, <1>3
=============================================================================
