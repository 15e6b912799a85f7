------------------------------ MODULE SumTheorems ------------------------------
(***************************************************************************)
(* Induction over numbers, and what it gives: functions by recursion       *)
(* exist, and FoldLeft over a sequence adds up its elements one by one.    *)
(***************************************************************************)
EXTENDS Integers, SequencesExt, WellFoundedInduction, TLAPS

\* A set of numbers that is not empty has a least one.
LEMMA Least ==
  \A S \in SUBSET Nat : S # {} => \E x \in S : \A y \in S : y >= x
<1> SUFFICES ASSUME NEW S \in SUBSET Nat, S # {}
             PROVE  \E x \in S : \A y \in S : ~(y < x)
  OBVIOUS
<1>1. OpToRel(<, Nat) = {ss \in Nat \X Nat : ss[1] < ss[2]}
  BY DEF OpToRel
<1>2. PICK x \in S : \A y \in S : <<y, x>> \notin OpToRel(<, Nat)
  BY NatLessThanWellFounded, WFMin
<1> QED
  BY <1>1, <1>2

\* A set that has 0 and, with a number, the next one has all numbers.
LEMMA Induction ==
  ASSUME NEW S, 0 \in S, \A n \in Nat : n \in S => n + 1 \in S
  PROVE  Nat \subseteq S
<1> DEFINE T == Nat \ S
<1> SUFFICES ASSUME T # {} PROVE FALSE
  OBVIOUS
<1>1. PICK x \in T : \A y \in T : y >= x
  BY Least
<1>2. x - 1 \in Nat /\ x - 1 \in S
  BY <1>1
<1> QED
  BY <1>1, <1>2

--------------------------------------------------------------------------------
(* Functions by recursion over 0 .. n. *)

\* One value after the other, each computed from the one before by step.
IsIteration(f, n, first, step) ==
  f = [i \in 0 .. n |-> IF i = 0 THEN first ELSE step[i][f[i - 1]]]

\* There is such a function, whatever the step is.
LEMMA IterationExists ==
  ASSUME NEW n \in Nat, NEW S, NEW first \in S, NEW step \in [1 .. n -> [S -> S]]
  PROVE  \E f \in [0 .. n -> S] : IsIteration(f, n, first, step)
<1> DEFINE Exists(k) == \E f \in [0 .. k -> S] : IsIteration(f, k, first, step)
           K == {k \in Nat : k <= n => Exists(k)}
<1>1. Exists(0)
  <2> DEFINE f == [i \in 0 .. 0 |-> first]
  <2>1. f \in [0 .. 0 -> S] /\ IsIteration(f, 0, first, step)
    BY DEF IsIteration
  <2> QED
    BY <2>1
<1>2. ASSUME NEW k \in Nat, k + 1 <= n, Exists(k) PROVE Exists(k + 1)
  <2>1. PICK g \in [0 .. k -> S] : IsIteration(g, k, first, step)
    BY <1>2
  <2> DEFINE f == [i \in 0 .. k + 1 |-> IF i = k + 1 THEN step[k + 1][g[k]] ELSE g[i]]
  <2>2. f \in [0 .. k + 1 -> S]
    BY <1>2
  <2>3. \A i \in 0 .. k + 1 : f[i] = IF i = 0 THEN first ELSE step[i][f[i - 1]]
    <3>1. \A i \in 0 .. k : g[i] = IF i = 0 THEN first ELSE step[i][g[i - 1]]
      BY <2>1 DEF IsIteration
    <3>2. \A i \in 0 .. k : f[i] = g[i]
      OBVIOUS
    <3>3. f[k + 1] = step[k + 1][f[k]]
      BY <3>2
    <3>4. \A i \in 1 .. k : f[i - 1] = g[i - 1]
      BY <3>2
    <3> HIDE DEF f
    <3> QED
      BY <3>1, <3>2, <3>3, <3>4
  <2>4. IsIteration(f, k + 1, first, step)
    BY <2>3 DEF IsIteration
  <2> QED
    BY <2>2, <2>4
<1>3. n \in K
  <2> HIDE DEF Exists
  <2>1. 0 \in K /\ \A k \in Nat : k \in K => k + 1 \in K
    BY <1>1, <1>2
  <2> HIDE DEF K
  <2> QED
    BY <2>1, Induction
<1> QED
  BY <1>3

--------------------------------------------------------------------------------
(* Sums over sequences. *)

\* An element that no other exceeds is what Max chooses.
LEMMA MaxIs ==
  ASSUME NEW S \in SUBSET Int, NEW x \in S, \A y \in S : x >= y
  PROVE  Max(S) = x
<1> DEFINE Top(z) == \A y \in S : z >= y
<1>1. \A z \in S : Top(z) => z = x
  OBVIOUS
<1>2. Top(x)
  OBVIOUS
<1> HIDE DEF Top
<1>3. (CHOOSE z \in S : Top(z)) = x
  BY <1>1, <1>2
<1> QED
  BY <1>3 DEF Max, Top

\* The recursion behind FoldLeft, when it adds up the elements w of a sequence.
IsFold(iter, n, w) ==
  iter = [s \in SUBSET (1 .. n) |-> IF s = {} THEN 0 ELSE iter[s \ {Max(s)}] + w[Max(s)]]

\* A set of indexes has its greatest element.
LEMMA MaxIn ==
  ASSUME NEW n \in Nat, NEW s \in SUBSET (1 .. n), s # {}
  PROVE  Max(s) \in s
<1> DEFINE T == {n - x : x \in s}
<1>1. T \in SUBSET Nat /\ T # {}
  <2>1. \A x \in s : x \in 1 .. n /\ n - x \in Nat
    OBVIOUS
  <2> QED
    BY <2>1, Zenon
<1>2. PICK t \in T : \A y \in T : y >= t
  <2> HIDE DEF T
  <2> QED
    BY <1>1, Least
<1>3. PICK x \in s : t = n - x
  BY <1>2
<1>4. ASSUME NEW y \in s PROVE x >= y
  <2>1. n - y >= n - x
    BY <1>2, <1>3
  <2>2. x \in 1 .. n /\ y \in 1 .. n
    OBVIOUS
  <2> QED
    BY <2>1, <2>2
<1>5. s \in SUBSET Int
  OBVIOUS
<1> QED
  BY <1>4, <1>5, MaxIs

\* The recursion has a solution.
LEMMA FoldExists ==
  ASSUME NEW n \in Nat, NEW w \in [1 .. n -> Int]
  PROVE  \E iter \in [SUBSET (1 .. n) -> Int] : IsFold(iter, n, w)
<1> DEFINE Exists(k) == \E g \in [SUBSET (1 .. k) -> Int] : IsFold(g, k, w)
           K == {k \in Nat : k <= n => Exists(k)}
<1>1. Exists(0)
  <2> DEFINE g == [s \in SUBSET (1 .. 0) |-> 0]
  <2>1. \A s \in SUBSET (1 .. 0) : s = {}
    OBVIOUS
  <2>2. g = [s \in SUBSET (1 .. 0) |-> IF s = {} THEN 0 ELSE g[s \ {Max(s)}] + w[Max(s)]]
    BY <2>1
  <2>3. g \in [SUBSET (1 .. 0) -> Int] /\ IsFold(g, 0, w)
    BY <2>2 DEF IsFold
  <2> QED
    BY <2>3
<1>2. ASSUME NEW k \in Nat, k + 1 <= n, Exists(k) PROVE Exists(k + 1)
  <2>1. PICK g \in [SUBSET (1 .. k) -> Int] : IsFold(g, k, w)
    BY <1>2
  <2> DEFINE h == [s \in SUBSET (1 .. k + 1) |->
                     IF k + 1 \in s THEN g[s \ {k + 1}] + w[k + 1] ELSE g[s]]
  <2>2. \A s \in SUBSET (1 .. k + 1) : k + 1 \notin s => s \in SUBSET (1 .. k)
    OBVIOUS
  <2>3. \A s \in SUBSET (1 .. k + 1) : s \ {k + 1} \in SUBSET (1 .. k)
    OBVIOUS
  <2>4. h \in [SUBSET (1 .. k + 1) -> Int]
    <3>1. w[k + 1] \in Int
      BY <1>2
    <3> QED
      BY <2>2, <2>3, <3>1
  <2>5. ASSUME NEW s \in SUBSET (1 .. k + 1), s # {}
        PROVE  h[s] = h[s \ {Max(s)}] + w[Max(s)]
    <3>1. ASSUME k + 1 \in s PROVE h[s] = h[s \ {Max(s)}] + w[Max(s)]
      <4>1. s \in SUBSET Int /\ \A y \in s : k + 1 >= y
        OBVIOUS
      <4>2. Max(s) = k + 1
        BY <3>1, <4>1, MaxIs
      <4>3. h[s \ {k + 1}] = g[s \ {k + 1}]
        BY <2>3
      <4>4. h[s] = g[s \ {k + 1}] + w[k + 1]
        BY <3>1
      <4> QED
        BY <4>2, <4>3, <4>4
    <3>2. ASSUME k + 1 \notin s PROVE h[s] = h[s \ {Max(s)}] + w[Max(s)]
      <4>1. s \in SUBSET (1 .. k) /\ s \ {Max(s)} \in SUBSET (1 .. k)
        BY <2>2, <3>2
      <4>2. h[s] = g[s] /\ h[s \ {Max(s)}] = g[s \ {Max(s)}]
        BY <3>2, <4>1
      <4>3. g[s] = g[s \ {Max(s)}] + w[Max(s)]
        BY <2>1, <2>5, <4>1 DEF IsFold
      <4> QED
        BY <4>2, <4>3
    <3> QED
      BY <3>1, <3>2
  <2>6. h[{}] = 0
    <3>1. h[{}] = g[{}] /\ {} \in SUBSET (1 .. k)
      OBVIOUS
    <3> QED
      BY <2>1, <3>1 DEF IsFold
  <2>7. \A s \in SUBSET (1 .. k + 1) :
          h[s] = IF s = {} THEN 0 ELSE h[s \ {Max(s)}] + w[Max(s)]
    BY <2>5, <2>6
  <2>8. h = [s \in SUBSET (1 .. k + 1) |-> h[s]]
    OBVIOUS
  <2> HIDE DEF h
  <2>9. IsFold(h, k + 1, w)
    BY <2>7, <2>8 DEF IsFold
  <2> QED
    BY <2>4, <2>9
<1>3. n \in K
  <2> HIDE DEF Exists
  <2>1. 0 \in K /\ \A k \in Nat : k \in K => k + 1 \in K
    BY <1>1, <1>2
  <2> HIDE DEF K
  <2> QED
    BY <2>1, Induction
<1>4. Exists(n)
  <2> HIDE DEF Exists
  <2> QED
    BY <1>3
<1> QED
  BY <1>4

\* The sums of the first elements of a sequence.
IsPartialSums(t, n, w) ==
  t \in [0 .. n -> Int] /\ t[0] = 0 /\ \A i \in 1 .. n : t[i] = t[i - 1] + w[i]

\* Any solution of the recursion adds up the elements.
LEMMA FoldSums ==
  ASSUME NEW n \in Nat, NEW w \in [1 .. n -> Int], NEW iter, IsFold(iter, n, w)
  PROVE  \E t : IsPartialSums(t, n, w) /\ iter[1 .. n] = t[n]
<1> DEFINE t == [i \in 0 .. n |-> iter[1 .. i]]
           K == {k \in Nat : k <= n => t[k] \in Int}
<1>1. t[0] = 0
  <2>1. t[0] = iter[{}] /\ {} \in SUBSET (1 .. n)
    OBVIOUS
  <2> QED
    BY <2>1 DEF IsFold
<1>2. ASSUME NEW i \in 1 .. n PROVE t[i] = t[i - 1] + w[i]
  <2> DEFINE s == 1 .. i
  <2>1. s \in SUBSET Int /\ i \in s /\ \A y \in s : i >= y
    OBVIOUS
  <2>2. Max(s) = i
    <3> HIDE DEF s
    <3> QED
      BY <2>1, MaxIs
  <2>3. s \ {i} = 1 .. i - 1
    OBVIOUS
  <2>4. s \in SUBSET (1 .. n) /\ s # {}
    <3>1. \A y \in s : y \in 1 .. n
      OBVIOUS
    <3> HIDE DEF s
    <3> QED
      BY <2>1, <3>1
  <2>5. iter[s] = iter[s \ {Max(s)}] + w[Max(s)]
    <3> HIDE DEF s
    <3> QED
      BY <2>4 DEF IsFold
  <2>6. t[i] = iter[s] /\ t[i - 1] = iter[1 .. i - 1]
    OBVIOUS
  <2> QED
    BY <2>2, <2>3, <2>5, <2>6
<1> HIDE DEF t
<1>3. Nat \subseteq K
  <2>1. 0 \in K
    BY <1>1
  <2>2. ASSUME NEW k \in Nat, k \in K PROVE k + 1 \in K
    <3> SUFFICES ASSUME k + 1 <= n PROVE t[k + 1] \in Int
      OBVIOUS
    <3>1. t[k] \in Int /\ t[k + 1] = t[k] + w[k + 1] /\ w[k + 1] \in Int
      BY <1>2, <2>2
    <3> QED
      BY <3>1
  <2> HIDE DEF K
  <2> QED
    BY <2>1, <2>2, Induction
<1>4. \A k \in 0 .. n : t[k] \in Int
  BY <1>3
<1>5. t \in [0 .. n -> Int] /\ t[n] = iter[1 .. n]
  BY <1>4 DEF t
<1> QED
  BY <1>1, <1>2, <1>5 DEF IsPartialSums

\* A sum of numbers that are not negative is not negative.
LEMMA SumNat ==
  ASSUME NEW n \in Nat, NEW w \in [1 .. n -> Nat], NEW t, IsPartialSums(t, n, w)
  PROVE  t[n] \in Nat
<1> DEFINE K == {k \in Nat : k <= n => t[k] \in Nat}
<1>1. 0 \in K
  BY DEF IsPartialSums
<1>2. ASSUME NEW k \in Nat, k \in K PROVE k + 1 \in K
  <2> SUFFICES ASSUME k + 1 <= n PROVE t[k + 1] \in Nat
    OBVIOUS
  <2>1. t[k] \in Nat /\ t[k + 1] = t[(k + 1) - 1] + w[k + 1] /\ w[k + 1] \in Nat
    BY <1>2 DEF IsPartialSums
  <2> QED
    BY <2>1
<1>3. Nat \subseteq K
  <2> HIDE DEF K
  <2> QED
    BY <1>1, <1>2, Induction
<1> QED
  BY <1>3

\* One more element moves two sums apart by what the elements differ.
LEMMA ApartStep ==
  ASSUME NEW t \in Int, NEW u \in Int, NEW w \in Int, NEW v \in Int,
         NEW scale \in Int, NEW d \in Int, NEW k \in Nat,
         u - k * d <= scale * t, scale * t <= u + k * d,
         v - d <= scale * w, scale * w <= v + d
  PROVE  /\ (u + v) - (k + 1) * d <= scale * (t + w)
         /\ scale * (t + w) <= (u + v) + (k + 1) * d
  OBVIOUS

\* Two sums, one of them scaled, are as far apart as their elements at most.
LEMMA SumsApart ==
  ASSUME NEW n \in Nat, NEW w \in [1 .. n -> Int], NEW v \in [1 .. n -> Int],
         NEW t, IsPartialSums(t, n, w), NEW u, IsPartialSums(u, n, v),
         NEW scale \in Int, NEW d \in Int,
         \A i \in 1 .. n : v[i] - d <= scale * w[i] /\ scale * w[i] <= v[i] + d
  PROVE  u[n] - n * d <= scale * t[n] /\ scale * t[n] <= u[n] + n * d
<1> DEFINE Near(k) == u[k] - k * d <= scale * t[k] /\ scale * t[k] <= u[k] + k * d
           K == {k \in Nat : k <= n => Near(k)}
<1>1. Near(0)
  BY DEF IsPartialSums
<1>2. ASSUME NEW k \in Nat, k + 1 <= n, Near(k) PROVE Near(k + 1)
  <2>1. k \in 0 .. n /\ k + 1 \in 1 .. n /\ (k + 1) - 1 = k
    BY <1>2
  <2>2. t[k] \in Int /\ u[k] \in Int /\ w[k + 1] \in Int /\ v[k + 1] \in Int
    BY <2>1 DEF IsPartialSums
  <2>3. t[k + 1] = t[k] + w[k + 1] /\ u[k + 1] = u[k] + v[k + 1]
    BY <2>1 DEF IsPartialSums
  <2>4. v[k + 1] - d <= scale * w[k + 1] /\ scale * w[k + 1] <= v[k + 1] + d
    BY <2>1
  <2>5. /\ (u[k] + v[k + 1]) - (k + 1) * d <= scale * (t[k] + w[k + 1])
        /\ scale * (t[k] + w[k + 1]) <= (u[k] + v[k + 1]) + (k + 1) * d
    BY <1>2, <2>2, <2>4, ApartStep
  <2> QED
    BY <2>3, <2>5, Zenon
<1>3. Nat \subseteq K
  <2> HIDE DEF Near
  <2>1. 0 \in K /\ \A k \in Nat : k \in K => k + 1 \in K
    BY <1>1, <1>2
  <2> HIDE DEF K
  <2> QED
    BY <2>1, Induction
<1>4. Near(n)
  <2> HIDE DEF Near
  <2> QED
    BY <1>3
<1> QED
  BY <1>4
================================================================================
