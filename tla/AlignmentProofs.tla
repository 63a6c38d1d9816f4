---------------------------- MODULE AlignmentProofs ----------------------------
(***************************************************************************)
(* For any recordings whose segments begin in their order and any turns: a *)
(* version that is minted has every word that was heard, once and in       *)
(* order, its ids count its segments, its speakers were heard, and a       *)
(* strict run mints no placeholder.  Most of this is about one step, the   *)
(* alignment: the words are shared out without a rest (SplitCountsTotal),  *)
(* the pieces make up the whole (PiecesWhole), every part is given to      *)
(* somebody heard in it (AlignOneGiven), and joining neighbours, which     *)
(* needs that they are in the order of time, keeps all that (MergedKept).  *)
(***************************************************************************)
EXTENDS Alignment, FiniteSetTheorems, SequenceTheorems, TLAPS

-----------------------------------------------------------------------------
(* Induction over numbers, and functions defined by recursion. *)

\* Induction, for a set of numbers.
LEMMA Inductively ==
    ASSUME NEW T, 0 \in T, \A n \in Nat : n \in T => n + 1 \in T
    PROVE  \A n \in Nat : n \in T
<1> DEFINE R == OpToRel(<, Nat)
           U == Nat \ T
<1>1. SUFFICES ASSUME U # {} PROVE FALSE
  OBVIOUS
<1>2. IsWellFoundedOn(R, Nat)
  BY NatLessThanWellFounded, Zenon
<1> HIDE DEF R
<1>3. PICK x \in U : \A y \in U : ~ (<<y, x>> \in R)
  <2>1. U \subseteq Nat
    OBVIOUS
  <2> HIDE DEF U
  <2> QED BY <1>1, <1>2, <2>1, WFMin
<1>4. \A y \in U : ~(y < x)
  BY <1>3 DEF R, OpToRel
<1>5. x # 0 /\ x - 1 \in Nat
  BY <1>3
<1>6. x - 1 \notin U
  BY <1>3, <1>4, <1>5
<1> QED BY <1>3, <1>5, <1>6

\* The same up to N, which is what sequences need.
LEMMA UpTo ==
    ASSUME NEW N \in Nat, NEW T, 0 \in T, \A n \in 1..N : n - 1 \in T => n \in T
    PROVE  \A n \in 0..N : n \in T
<1> DEFINE U == {n \in Nat : n <= N => n \in T}
<1>1. 0 \in U
  OBVIOUS
<1>2. ASSUME NEW n \in Nat, n \in U PROVE n + 1 \in U
  <2>1. SUFFICES ASSUME n + 1 <= N PROVE n + 1 \in T
    OBVIOUS
  <2>2. n + 1 \in 1..N /\ (n + 1) - 1 = n /\ n \in T
    BY <1>2, <2>1
  <2> QED BY <2>2
<1> HIDE DEF U
<1>3. \A n \in Nat : n \in U
  BY <1>1, <1>2, Inductively
<1> QED BY <1>3 DEF U

Unrolls(g, N, c, step) == g[0] = c /\ \A n \in 1..N : g[n] = step[n][g[n - 1]]

\* The steps of a recursion can be taken.
LEMMA Recursion ==
    ASSUME NEW N \in Nat, NEW S, NEW c \in S, NEW step \in [1..N -> [S -> S]]
    PROVE  \E g \in [0..N -> S] : Unrolls(g, N, c, step)
<1> DEFINE T == {k \in Nat : k <= N => \E g \in [0..k -> S] : Unrolls(g, k, c, step)}
<1>1. 0 \in T
  <2> DEFINE g == [i \in 0..0 |-> c]
  <2>1. g \in [0..0 -> S] /\ Unrolls(g, 0, c, step)
    BY DEF Unrolls
  <2> QED BY <2>1
<1>2. ASSUME NEW k \in Nat, k \in T PROVE k + 1 \in T
  <2>1. SUFFICES ASSUME k + 1 <= N PROVE \E h \in [0..(k + 1) -> S] : Unrolls(h, k + 1, c, step)
    OBVIOUS
  <2>2. PICK g \in [0..k -> S] : Unrolls(g, k, c, step)
    BY <1>2, <2>1
  <2> DEFINE v == step[k + 1][g[k]]
             h == [i \in 0..(k + 1) |-> IF i = k + 1 THEN v ELSE g[i]]
  <2>3. v \in S
    BY <2>1, <2>2
  <2> HIDE DEF v
  <2>4. h \in [0..(k + 1) -> S]
    BY <2>2, <2>3
  <2>5. /\ \A i \in 0..k : h[i] = g[i]
        /\ h[k + 1] = v
    OBVIOUS
  <2> HIDE DEF h
  <2>6. Unrolls(h, k + 1, c, step)
    <3>1. h[0] = c
      BY <2>2, <2>5 DEF Unrolls
    <3>2. ASSUME NEW n \in 1..(k + 1) PROVE h[n] = step[n][h[n - 1]]
      <4>1. CASE n = k + 1
        BY <2>5, <4>1 DEF v
      <4>2. CASE n \in 1..k
        BY <2>2, <2>5, <4>2 DEF Unrolls
      <4> QED BY <4>1, <4>2
    <3> QED BY <3>1, <3>2 DEF Unrolls
  <2> QED BY <2>4, <2>6
<1> HIDE DEF T
<1>3. N \in T
  BY <1>1, <1>2, Inductively
<1> QED BY <1>3 DEF T

Stays(s, N, S) ==
    /\ s = [n \in 0..N |-> s[n]] /\ s[0] \in S
    /\ \A n \in 1..N : s[n - 1] \in S => s[n] \in S

\* What each step keeps is kept.
LEMMA StaysIn ==
    ASSUME NEW N \in Nat, NEW S, NEW s, Stays(s, N, S)
    PROVE  s \in [0..N -> S]
<1> DEFINE T == {n \in 0..N : s[n] \in S}
<1>1. 0 \in T /\ \A n \in 1..N : n - 1 \in T => n \in T
  BY DEF Stays
<1> HIDE DEF T
<1>2. \A n \in 0..N : n \in T
  BY <1>1, UpTo
<1> QED BY <1>2 DEF T, Stays

-----------------------------------------------------------------------------
(* Sums and ranks. *)

\* The sums of the first 0, 1, 2, ... of ns, as Sums says.
LEMMA SumsFacts ==
    ASSUME NEW ns \in Seq(Int)
    PROVE  /\ Sums(ns) \in [0..Len(ns) -> Int]
           /\ Sums(ns)[0] = 0
           /\ \A n \in 1..Len(ns) : Sums(ns)[n] = Sums(ns)[n - 1] + ns[n]
<1> DEFINE N == Len(ns)
           step == [n \in 1..N |-> [v \in Int |-> v + ns[n]]]
           Is(g) == g = [n \in 0..N |-> IF n = 0 THEN 0 ELSE g[n - 1] + ns[n]]
           s == Sums(ns)
<1>1. N \in Nat /\ 0 \in Int /\ step \in [1..N -> [Int -> Int]]
  OBVIOUS
<1>2. PICK g \in [0..N -> Int] : Unrolls(g, N, 0, step)
  <2> HIDE DEF step, N
  <2> QED BY <1>1, Recursion
<1>3. Is(g)
  <2>1. ASSUME NEW n \in 1..N PROVE g[n] = g[n - 1] + ns[n]
    <3>1. n - 1 \in 0..N
      BY <1>1
    <3>2. step[n][g[n - 1]] = g[n - 1] + ns[n]
      BY <1>2, <3>1, Zenon
    <3> QED BY <1>2, <3>2 DEF Unrolls
  <2> HIDE DEF N
  <2> QED BY <1>1, <1>2, <2>1 DEF Unrolls
<1>4. s = CHOOSE f : Is(f)
  BY DEF Sums
<1>5. Is(s)
  <2> HIDE DEF Is, s
  <2> QED BY <1>3, <1>4
<1> HIDE DEF s
<1>6. \A n \in 0..N : s[n] = IF n = 0 THEN 0 ELSE s[n - 1] + ns[n]
  BY <1>5, Zenon
<1>7. s = [n \in 0..N |-> s[n]]
  BY <1>5
<1> HIDE DEF Is
<1>8. s[0] = 0 /\ \A n \in 1..N : s[n] = s[n - 1] + ns[n]
  BY <1>1, <1>6
<1>9. s \in [0..N -> Int]
  <2>1. \A n \in 1..N : ns[n] \in Int
    OBVIOUS
  <2> HIDE DEF N
  <2>2. \A n \in 1..N : s[n - 1] \in Int => s[n] \in Int
    BY <1>8, <2>1
  <2>3. s[0] \in Int
    BY <1>8
  <2>4. Stays(s, N, Int)
    BY <1>7, <2>2, <2>3, Zenon DEF Stays
  <2> QED BY <1>1, <2>4, StaysIn
<1> QED BY <1>8, <1>9 DEF s

\* A total of integers is one.
LEMMA TotalInt ==
    ASSUME NEW ns \in Seq(Int)
    PROVE  Total(ns) \in Int
<1>1. Len(ns) \in 0..Len(ns)
  OBVIOUS
<1>2. Sums(ns) \in [0..Len(ns) -> Int]
  BY SumsFacts
<1> QED BY <1>1, <1>2 DEF Total

\* Sums of numbers that are not negative never fall.
LEMMA SumsRise ==
    ASSUME NEW ns \in Seq(Nat)
    PROVE  /\ Sums(ns) \in [0..Len(ns) -> Nat]
           /\ \A i, j \in 0..Len(ns) : i <= j => Sums(ns)[i] <= Sums(ns)[j]
<1> DEFINE N == Len(ns)
           s == Sums(ns)
<1>1. ns \in Seq(Int) /\ N \in Nat /\ \A n \in 1..N : ns[n] \in Nat
  OBVIOUS
<1>2. s \in [0..N -> Int] /\ s[0] = 0 /\ \A n \in 1..N : s[n] = s[n - 1] + ns[n]
  BY <1>1, SumsFacts
<1> HIDE DEF s, N
<1>3. s \in [0..N -> Nat]
  <2>1. s[0] \in Nat
    BY <1>2
  <2>2. ASSUME NEW n \in 1..N, s[n - 1] \in Nat PROVE s[n] \in Nat
    <3>1. s[n] = s[n - 1] + ns[n] /\ ns[n] \in Nat
      BY <1>1, <1>2
    <3> QED BY <2>2, <3>1
  <2>3. s = [n \in 0..N |-> s[n]]
    BY <1>2
  <2>4. Stays(s, N, Nat)
    BY <2>1, <2>2, <2>3, Zenon DEF Stays
  <2> QED BY <1>1, <2>4, StaysIn
<1>4. ASSUME NEW i \in 0..N PROVE \A j \in 0..N : i <= j => s[i] <= s[j]
  <2> DEFINE T == {j \in 0..N : i <= j => s[i] <= s[j]}
  <2>1. 0 \in T
    BY <1>1, <1>3
  <2>2. ASSUME NEW j \in 1..N, j - 1 \in T PROVE j \in T
    <3>1. j - 1 \in 0..N /\ j \in 0..N
      BY <1>1
    <3>2. s[i] \in Nat /\ s[j] \in Nat /\ s[j - 1] \in Nat
      BY <1>3, <3>1
    <3>3. s[j] = s[j - 1] + ns[j] /\ ns[j] \in Nat
      BY <1>1, <1>2
    <3> QED BY <1>1, <2>2, <3>2, <3>3
  <2> HIDE DEF T
  <2>3. \A j \in 0..N : j \in T
    BY <1>1, <2>1, <2>2, UpTo
  <2> QED BY <2>3 DEF T
<1> QED BY <1>3, <1>4 DEF s, N

\* What a sum is made of, step by step, is what two sums are compared by.
LEMMA SumsDiffer ==
    ASSUME NEW ns \in Seq(Int), NEW ms \in Seq(Int), Len(ms) = Len(ns),
           NEW d \in [0..Len(ns) -> Int], d[0] = 0,
           \A n \in 1..Len(ns) : d[n] - d[n - 1] = ms[n] - ns[n]
    PROVE  Total(ms) = Total(ns) + d[Len(ns)]
<1> DEFINE N == Len(ns)
           s == Sums(ns)
           t == Sums(ms)
           T == {n \in 0..N : t[n] = s[n] + d[n]}
<1>1. N \in Nat /\ \A n \in 1..N : ns[n] \in Int /\ ms[n] \in Int
  OBVIOUS
<1>2. s \in [0..N -> Int] /\ s[0] = 0 /\ \A n \in 1..N : s[n] = s[n - 1] + ns[n]
  BY SumsFacts
<1>3. t \in [0..N -> Int] /\ t[0] = 0 /\ \A n \in 1..N : t[n] = t[n - 1] + ms[n]
  BY SumsFacts
<1> HIDE DEF s, t
<1>4. 0 \in T
  BY <1>1, <1>2, <1>3
<1>5. ASSUME NEW n \in 1..N, n - 1 \in T PROVE n \in T
  <2>1. d[n] - d[n - 1] = ms[n] - ns[n]
    BY Zenon
  <2>2. n - 1 \in 0..N /\ n \in 0..N /\ t[n - 1] = s[n - 1] + d[n - 1]
    BY <1>5
  <2>3. s[n] = s[n - 1] + ns[n] /\ t[n] = t[n - 1] + ms[n]
    BY <1>2, <1>3, Zenon
  <2>4. s[n - 1] \in Int /\ d[n - 1] \in Int /\ d[n] \in Int /\ ns[n] \in Int /\ ms[n] \in Int
    BY <1>1, <1>2, <2>2
  <2>5. t[n] = s[n] + d[n]
    <3> DEFINE s0 == s[n - 1]  s1 == s[n]  t0 == t[n - 1]  t1 == t[n]
               d0 == d[n - 1]  d1 == d[n]  x == ns[n]  y == ms[n]
    <3>1. /\ d1 - d0 = y - x /\ t0 = s0 + d0 /\ s1 = s0 + x /\ t1 = t0 + y
          /\ s0 \in Int /\ d0 \in Int /\ d1 \in Int /\ x \in Int /\ y \in Int
      BY <2>1, <2>2, <2>3, <2>4, Zenon
    <3>2. t1 = s1 + d1
      <4> HIDE DEF s0, s1, t0, t1, d0, d1, x, y
      <4> QED BY <3>1
    <3> QED BY <3>2
  <2> QED BY <2>2, <2>5, Zenon
<1> HIDE DEF T
<1>6. \A n \in 0..N : n \in T
  BY <1>1, <1>4, <1>5, UpTo
<1> QED BY <1>1, <1>6 DEF T, Total, s, t

\* One more where A says so is as many more as A has members.
LEMMA SumsOneMore ==
    ASSUME NEW ns \in Seq(Int), NEW ms \in Seq(Int), Len(ms) = Len(ns),
           NEW A \in SUBSET (1..Len(ns)),
           \A n \in 1..Len(ns) : ms[n] = ns[n] + IF n \in A THEN 1 ELSE 0
    PROVE  Total(ms) = Total(ns) + Cardinality(A)
<1> DEFINE N == Len(ns)
           d == [n \in 0..N |-> Cardinality(A \cap (1..n))]
<1>1. N \in Nat
  OBVIOUS
<1>2. \A n \in 0..N : IsFiniteSet(A \cap (1..n)) /\ Cardinality(A \cap (1..n)) \in Nat
  <2> TAKE n \in 0..N
  <2>1. IsFiniteSet(1..n)
    BY FS_Interval
  <2>2. IsFiniteSet(A \cap (1..n))
    BY <2>1, FS_Subset
  <2> QED BY <2>2, FS_CardinalityType
<1>3. d \in [0..N -> Int]
  <2>1. \A v \in Nat : v \in Int
    OBVIOUS
  <2> QED BY <1>2, <2>1, Zenon
<1>4. d[0] = 0
  <2>1. A \cap (1..0) = {} /\ 0 \in 0..N
    BY <1>1
  <2>2. d[0] = Cardinality(A \cap (1..0))
    BY <2>1, Zenon
  <2> QED BY <2>1, <2>2, FS_EmptySet
<1>5. ASSUME NEW n \in 1..N PROVE d[n] - d[n - 1] = ms[n] - ns[n]
  <2>1. n - 1 \in 0..N /\ n \in 0..N
    OBVIOUS
  <2>2. ms[n] \in Int /\ ns[n] \in Int /\ ms[n] - ns[n] = IF n \in A THEN 1 ELSE 0
    OBVIOUS
  <2>3. d[n] = Cardinality(A \cap (1..n)) /\ d[n - 1] = Cardinality(A \cap (1..(n - 1)))
    BY <2>1, Zenon
  <2>4. /\ Cardinality(A \cap (1..n)) \in Nat
        /\ Cardinality(A \cap (1..(n - 1))) \in Nat
    BY <1>2, <2>1
  <2> HIDE DEF d
  <2>5. CASE n \in A
    <3>1. A \cap (1..n) = (A \cap (1..(n - 1))) \cup {n} /\ n \notin A \cap (1..(n - 1))
      BY <2>5
    <3>2. Cardinality(A \cap (1..n)) = Cardinality(A \cap (1..(n - 1))) + 1
      BY <1>2, <2>1, <3>1, FS_AddElement
    <3> QED BY <2>2, <2>3, <2>4, <2>5, <3>2
  <2>6. CASE n \notin A
    <3>1. A \cap (1..n) = A \cap (1..(n - 1))
      BY <2>6
    <3>2. d[n] = d[n - 1] /\ d[n] \in Nat
      BY <2>3, <2>4, <3>1, Zenon
    <3> QED BY <2>2, <2>6, <3>2
  <2> QED BY <2>5, <2>6
<1>6. d[N] = Cardinality(A)
  <2>1. N \in 0..N
    BY <1>1
  <2>2. A \cap (1..N) = A
    BY Zenon
  <2> QED BY <2>1, <2>2, Zenon
<1> HIDE DEF d
<1> QED BY <1>3, <1>4, <1>5, <1>6, SumsDiffer

\* What one entry gives and another takes leaves the sum as it was.
LEMMA SumsGiven ==
    ASSUME NEW ns \in Seq(Int), NEW i \in 1..Len(ns), NEW j \in 1..Len(ns), i # j
    PROVE  Total([ns EXCEPT ![j] = @ - 1, ![i] = @ + 1]) = Total(ns)
<1> DEFINE N == Len(ns)
           ms == [ns EXCEPT ![j] = @ - 1, ![i] = @ + 1]
           d == [n \in 0..N |-> (IF i <= n THEN 1 ELSE 0) - (IF j <= n THEN 1 ELSE 0)]
<1>1. N \in Nat /\ \A n \in 1..N : ns[n] \in Int
  OBVIOUS
<1>2. /\ ms \in Seq(Int) /\ Len(ms) = N
      /\ \A n \in 1..N : ms[n] = IF n = i THEN ns[n] + 1 ELSE IF n = j THEN ns[n] - 1 ELSE ns[n]
  OBVIOUS
<1>3. d \in [0..N -> Int] /\ d[0] = 0 /\ d[N] = 0
  OBVIOUS
<1>4. ASSUME NEW n \in 1..N PROVE d[n] - d[n - 1] = ms[n] - ns[n]
  <2>1. n \in 0..N /\ n - 1 \in 0..N
    OBVIOUS
  <2>2. /\ d[n] = (IF i <= n THEN 1 ELSE 0) - (IF j <= n THEN 1 ELSE 0)
        /\ d[n - 1] = (IF i <= n - 1 THEN 1 ELSE 0) - (IF j <= n - 1 THEN 1 ELSE 0)
    BY <2>1, Zenon
  <2>3. ms[n] = IF n = i THEN ns[n] + 1 ELSE IF n = j THEN ns[n] - 1 ELSE ns[n]
    BY <1>2, Zenon
  <2> HIDE DEF d, ms, N
  <2>4. i \in Nat /\ j \in Nat /\ n \in Nat /\ ns[n] \in Int /\ ms[n] \in Int
    <3>1. i \in 1..N /\ j \in 1..N
      BY DEF N
    <3>2. i \in Nat /\ j \in Nat /\ n \in Nat /\ ns[n] \in Int
      BY <1>1, <3>1
    <3> QED BY <2>3, <3>2
  <2> DEFINE x == d[n]  y == d[n - 1]  u == ms[n]  v == ns[n]
  <2>5. /\ x = (IF i <= n THEN 1 ELSE 0) - (IF j <= n THEN 1 ELSE 0)
        /\ y = (IF i <= n - 1 THEN 1 ELSE 0) - (IF j <= n - 1 THEN 1 ELSE 0)
        /\ u = IF n = i THEN v + 1 ELSE IF n = j THEN v - 1 ELSE v
    BY <2>2, <2>3, Zenon
  <2>6. v \in Int
    BY <2>4
  <2> HIDE DEF x, y, u, v
  <2>7. x - y = u - v
    BY <2>4, <2>5, <2>6
  <2> QED BY <2>7 DEF x, y, u, v
<1> HIDE DEF d, ms
<1>5. Total(ms) = Total(ns) + d[N]
  BY <1>2, <1>3, <1>4, SumsDiffer
<1>6. Total(ns) \in Int
  BY TotalInt
<1> QED BY <1>3, <1>5, <1>6 DEF ms

\* Of numbers in a row there is a largest, and a first that is as large.
LEMMA FirstLargest ==
    ASSUME NEW m \in Nat \ {0}, NEW h \in [1..m -> Int]
    PROVE  \E j \in 1..m : /\ \A i \in 1..m : h[i] <= h[j]
                           /\ \A i \in 1..(j - 1) : h[i] < h[j]
<1> DEFINE Is(j, k) == /\ \A i \in 1..k : h[i] <= h[j]
                       /\ \A i \in 1..(j - 1) : h[i] < h[j]
           T == {n \in 0..(m - 1) : \E j \in 1..(n + 1) : Is(j, n + 1)}
<1>1. 0 \in T
  <2>1. 1 \in 1..(0 + 1) /\ Is(1, 0 + 1)
    OBVIOUS
  <2> QED BY <2>1
<1>2. ASSUME NEW n \in 1..(m - 1), n - 1 \in T PROVE n \in T
  <2>1. PICK j \in 1..n : Is(j, n)
    BY <1>2
  <2>2. \A i \in 1..m : h[i] \in Int
    OBVIOUS
  <2>3. CASE h[n + 1] <= h[j]
    <3>1. Is(j, n + 1)
      BY <2>1, <2>2, <2>3
    <3> QED BY <3>1
  <2>4. CASE h[n + 1] > h[j]
    <3>1. Is(n + 1, n + 1)
      BY <2>1, <2>2, <2>4
    <3> QED BY <3>1
  <2>5. n + 1 \in 1..m /\ j \in 1..m
    OBVIOUS
  <2> QED BY <2>2, <2>3, <2>4, <2>5
<1> HIDE DEF T
<1>3. m - 1 \in Nat /\ m - 1 \in 0..(m - 1) /\ (m - 1) + 1 = m
  OBVIOUS
<1>4. \A n \in 0..(m - 1) : n \in T
  BY <1>1, <1>2, <1>3, UpTo
<1>5. m - 1 \in T
  BY <1>3, <1>4
<1> QED BY <1>3, <1>5 DEF T

\* How many come before each, where what comes before what is settled: each number once.
LEMMA Ranks ==
    ASSUME NEW m \in Nat, NEW P \in [1..m -> SUBSET (1..m)],
           \A i \in 1..m : i \notin P[i] /\ \A j \in P[i] : P[j] \subseteq P[i],
           \A i, j \in 1..m : i = j \/ i \in P[j] \/ j \in P[i]
    PROVE  [i \in 1..m |-> Cardinality(P[i])] \in Bijection(1..m, 0..(m - 1))
<1> DEFINE r == [i \in 1..m |-> Cardinality(P[i])]
<1>1. IsFiniteSet(1..m) /\ Cardinality(1..m) = m
  BY FS_Interval
<1>2. IsFiniteSet(0..(m - 1)) /\ Cardinality(0..(m - 1)) = m
  <2>1. 0 \in Int /\ m - 1 \in Int
    OBVIOUS
  <2>2. /\ IsFiniteSet(0..(m - 1))
        /\ Cardinality(0..(m - 1)) = IF 0 > m - 1 THEN 0 ELSE (m - 1) - 0 + 1
    BY <2>1, FS_Interval, Zenon
  <2> QED BY <2>2
<1>3. \A i \in 1..m : IsFiniteSet(P[i]) /\ Cardinality(P[i]) \in Nat
  <2> TAKE i \in 1..m
  <2>1. P[i] \in SUBSET (1..m)
    OBVIOUS
  <2>2. IsFiniteSet(P[i])
    BY <1>1, <2>1, FS_Subset
  <2> QED BY <2>2, FS_CardinalityType
<1>4. ASSUME NEW i \in 1..m PROVE Cardinality(P[i]) \in 0..(m - 1)
  <2>1. P[i] \in SUBSET (1..m) /\ P[i] # 1..m
    BY Zenon
  <2>2. Cardinality(P[i]) <= m /\ Cardinality(P[i]) # m
    BY <1>1, <2>1, FS_Subset
  <2>3. Cardinality(P[i]) \in Nat
    BY <1>3
  <2> QED BY <2>2, <2>3
<1>5. ASSUME NEW i \in 1..m, NEW j \in 1..m, i \in P[j] PROVE Cardinality(P[i]) # Cardinality(P[j])
  <2>1. P[i] \in SUBSET P[j] /\ P[i] # P[j]
    BY <1>5, Zenon
  <2>2. IsFiniteSet(P[j])
    BY <1>3
  <2> QED BY <2>1, <2>2, FS_Subset
<1>6. r \in [1..m -> 0..(m - 1)]
  BY <1>4, Zenon
<1>7. \A i, j \in 1..m : r[i] = r[j] => i = j
  <2>1. \A i \in 1..m : r[i] = Cardinality(P[i])
    BY Zenon
  <2> HIDE DEF r
  <2> QED BY <1>5, <2>1, Zenon
<1>8. r \in Injection(1..m, 0..(m - 1))
  <2> HIDE DEF r
  <2> QED BY <1>6, <1>7, Zenon DEF Injection, IsInjective
<1> HIDE DEF r
<1>9. r \in Surjection(1..m, 0..(m - 1))
  BY <1>1, <1>2, <1>8, FS_Injection
<1> QED BY <1>8, <1>9 DEF Bijection, r

\* So there is one of each rank, and as many below a rank as it says.
LEMMA OfRank ==
    ASSUME NEW m \in Nat, NEW P \in [1..m -> SUBSET (1..m)],
           \A i \in 1..m : i \notin P[i] /\ \A j \in P[i] : P[j] \subseteq P[i],
           \A i, j \in 1..m : i = j \/ i \in P[j] \/ j \in P[i]
    PROVE  /\ \A k \in 0..(m - 1) : \E i \in 1..m : Cardinality(P[i]) = k
           /\ \A k \in 0..m : Cardinality({i \in 1..m : Cardinality(P[i]) < k}) = k
<1> DEFINE r == [i \in 1..m |-> Cardinality(P[i])]
<1>1. r \in Bijection(1..m, 0..(m - 1))
  <2> DEFINE R == 1..m
  <2> HIDE DEF R
  <2> QED BY Ranks
<1>2. \A i \in 1..m : r[i] = Cardinality(P[i])
  BY Zenon
<1> HIDE DEF r
<1>3. /\ r \in [1..m -> 0..(m - 1)]
      /\ \A i, j \in 1..m : r[i] = r[j] => i = j
      /\ \A k \in 0..(m - 1) : \E i \in 1..m : r[i] = k
  BY <1>1, Zenon DEF Bijection, Injection, Surjection, IsInjective
<1>4. ASSUME NEW k \in 0..m PROVE Cardinality({i \in 1..m : Cardinality(P[i]) < k}) = k
  <2> DEFINE A == {i \in 1..m : r[i] < k}
             f == [i \in A |-> r[i]]
  <2>1. A = {i \in 1..m : Cardinality(P[i]) < k}
    BY <1>2
  <2>2. \A i \in A : r[i] \in 0..(k - 1)
    BY <1>3
  <2>3. \A n \in 0..(k - 1) : n \in 0..(m - 1) /\ \E i \in A : r[i] = n
    <3> TAKE n \in 0..(k - 1)
    <3>1. n \in 0..(m - 1) /\ n < k
      OBVIOUS
    <3> QED BY <1>3, <3>1
  <2>4. f \in Bijection(A, 0..(k - 1))
    <3>1. A \subseteq 1..m
      OBVIOUS
    <3> HIDE DEF A
    <3>2. f \in [A -> 0..(k - 1)] /\ \A i \in A : f[i] = r[i]
      BY <2>2, Zenon
    <3> HIDE DEF f
    <3>3. \A i, j \in A : f[i] = f[j] => i = j
      BY <1>3, <3>1, <3>2, Zenon
    <3> QED BY <2>3, <3>2, <3>3, Zenon DEF Bijection, Injection, Surjection, IsInjective
  <2>5. IsFiniteSet(A)
    <3>1. IsFiniteSet(1..m) /\ A \in SUBSET (1..m)
      BY FS_Interval
    <3> QED BY <3>1, FS_Subset
  <2>6. Cardinality(0..(k - 1)) = k
    BY FS_Interval
  <2> HIDE DEF A, f
  <2>7. Cardinality(0..(k - 1)) = Cardinality(A)
    BY <2>4, <2>5, FS_Bijection DEF ExistsBijection
  <2> QED BY <2>1, <2>6, <2>7
<1> QED BY <1>2, <1>3, <1>4

\* A function on 1, 2, 3, ... is a sequence, and a sequence is such a function.
LEMMA IsSequence ==
    ASSUME NEW N \in Nat, NEW S, NEW f \in [1..N -> S]
    PROVE  f \in Seq(S) /\ Len(f) = N /\ DOMAIN f = 1..N
<1>1. f \in Seq(S)
  BY SeqDef
<1>2. DOMAIN f = 1..N
  OBVIOUS
<1>3. DOMAIN f = 1..Len(f) /\ Len(f) \in Nat
  BY <1>1, LenProperties
<1> QED BY <1>1, <1>2, <1>3

-----------------------------------------------------------------------------
(* How words are shared out by weight. *)

Weights == Nat \ {0}

\* What is left of a number when it is divided.
LEMMA DivMod ==
    ASSUME NEW a \in Nat, NEW W \in Nat, W > 0
    PROVE  /\ a \div W \in Nat /\ a % W \in Nat
           /\ W * (a \div W) <= a /\ a <= W * (a \div W) + W
OBVIOUS

\* A common factor goes.
LEMMA Dividing ==
    ASSUME NEW a \in Int, NEW b \in Int, NEW W \in Nat, W > 0, W * a <= W * b
    PROVE  a <= b
OBVIOUS

\* The bounds of the whole parts of k shares give those of k + 1.
LEMMA OneMoreShare ==
    ASSUME NEW n \in Int, NEW s \in Int, NEW t \in Int, NEW w \in Int, NEW v \in Int,
           NEW W \in Nat, NEW k \in Nat,
           W * t <= n * s, n * s <= W * t + k * W, W * v <= w * n, w * n <= W * v + W
    PROVE  W * (t + v) <= n * (s + w) /\ n * (s + w) <= W * (t + v) + (k + 1) * W
OBVIOUS

\* Weights weigh something together.
LEMMA TotalWeight ==
    ASSUME NEW w \in Seq(Weights), w # <<>>
    PROVE  Total(w) \in Nat /\ Total(w) > 0
<1> DEFINE s == Sums(w)
           N == Len(w)
<1>1. w \in Seq(Nat) /\ w \in Seq(Int) /\ N \in Nat /\ N >= 1 /\ w[1] \in Nat /\ w[1] > 0
  BY DEF Weights
<1>2. s[0] = 0 /\ s[1] = s[0] + w[1]
  <2>1. 1 \in 1..N /\ 1 - 1 = 0
    BY <1>1
  <2> QED BY <1>1, <2>1, SumsFacts
<1>3. s \in [0..N -> Nat] /\ \A i, j \in 0..N : i <= j => s[i] <= s[j]
  BY <1>1, SumsRise
<1> HIDE DEF s, N
<1>4. s[N] \in Nat /\ s[1] <= s[N]
  <2>1. 1 \in 0..N /\ N \in 0..N /\ 1 <= N
    BY <1>1
  <2> QED BY <1>3, <2>1
<1> QED BY <1>1, <1>2, <1>4 DEF Total, s, N

\* What the whole shares leave is no more than a word for each.
LEMMA SharesLeave ==
    ASSUME NEW n \in Nat, NEW w \in Seq(Weights), w # <<>>
    PROVE  /\ Whole(n, w) \in Seq(Nat) /\ Len(Whole(n, w)) = Len(w)
           /\ \A i \in 1..Len(w) : Remainder(n, w, i) \in Nat
           /\ Left(n, w) \in 0..Len(w)
<1> DEFINE N == Len(w)
           W == Total(w)
           v == Whole(n, w)
           s == Sums(w)
           t == Sums(v)
           T == {k \in 0..N : W * t[k] <= n * s[k] /\ n * s[k] <= W * t[k] + k * W}
<1>1. /\ w \in Seq(Int) /\ N \in Nat /\ DOMAIN w = 1..N
      /\ \A i \in 1..N : w[i] \in Nat
  BY DEF Weights
<1>2. W \in Nat /\ W > 0
  BY TotalWeight
<1>3. \A i \in 1..N : v[i] = (w[i] * n) \div W
  BY <1>1 DEF Whole
<1>4. \A i \in 1..N : /\ v[i] \in Nat /\ Remainder(n, w, i) \in Nat
                      /\ W * v[i] <= w[i] * n /\ w[i] * n <= W * v[i] + W
  <2> TAKE i \in 1..N
  <2>1. w[i] * n \in Nat
    BY <1>1
  <2>2. v[i] = (w[i] * n) \div W
    BY <1>3
  <2> HIDE DEF W, v
  <2>3. (w[i] * n) % W \in Nat /\ v[i] \in Nat /\ W * v[i] <= w[i] * n /\ w[i] * n <= W * v[i] + W
    BY <1>2, <2>1, <2>2, DivMod
  <2> QED BY <2>3 DEF Remainder, W
<1>5. v \in Seq(Nat) /\ v \in Seq(Int) /\ Len(v) = N
  <2>1. v = [i \in 1..N |-> v[i]]
    BY <1>1 DEF Whole
  <2>2. \A i \in 1..N : v[i] \in Nat
    BY <1>4
  <2> HIDE DEF v, N
  <2>3. v \in [1..N -> Nat]
    BY <2>1, <2>2, Zenon
  <2>4. v \in Seq(Nat) /\ Len(v) = N
    BY <1>1, <2>3, IsSequence
  <2> QED BY <2>4
<1>6. s \in [0..N -> Int] /\ s[0] = 0 /\ \A k \in 1..N : s[k] = s[k - 1] + w[k]
  BY <1>1, SumsFacts
<1>7. t \in [0..N -> Int] /\ t[0] = 0 /\ \A k \in 1..N : t[k] = t[k - 1] + v[k]
  BY <1>5, SumsFacts
<1>8. W = s[N] /\ Left(n, w) = n - t[N]
  BY <1>5 DEF Left, Total
<1> HIDE DEF s, t, v, W, N
<1>9. 0 \in T
  BY <1>1, <1>2, <1>6, <1>7
<1>10. ASSUME NEW k \in 1..N, k - 1 \in T PROVE k \in T
  <2>1. k - 1 \in Nat /\ k - 1 \in 0..N /\ k \in 0..N
    BY <1>1
  <2>2. s[k - 1] \in Int /\ t[k - 1] \in Int /\ w[k] \in Int /\ v[k] \in Int
    <3>1. s[k - 1] \in Int /\ t[k - 1] \in Int
      BY <1>6, <1>7, <2>1, Zenon
    <3>2. w[k] \in Nat /\ v[k] \in Nat
      BY <1>1, <1>4
    <3> QED BY <3>1, <3>2
  <2>3. /\ W * t[k - 1] <= n * s[k - 1] /\ n * s[k - 1] <= W * t[k - 1] + (k - 1) * W
        /\ W * v[k] <= w[k] * n /\ w[k] * n <= W * v[k] + W
    BY <1>4, <1>10
  <2>4. /\ W * (t[k - 1] + v[k]) <= n * (s[k - 1] + w[k])
        /\ n * (s[k - 1] + w[k]) <= W * (t[k - 1] + v[k]) + ((k - 1) + 1) * W
    <3> DEFINE x == s[k - 1]  y == t[k - 1]  a == w[k]  b == v[k]  j == k - 1
    <3>1. /\ n \in Int /\ x \in Int /\ y \in Int /\ a \in Int /\ b \in Int /\ W \in Nat /\ j \in Nat
          /\ W * y <= n * x /\ n * x <= W * y + j * W /\ W * b <= a * n /\ a * n <= W * b + W
      BY <1>2, <2>1, <2>2, <2>3
    <3>2. W * (y + b) <= n * (x + a) /\ n * (x + a) <= W * (y + b) + (j + 1) * W
      <4> HIDE DEF x, y, a, b, j
      <4> QED BY <3>1, OneMoreShare
    <3> QED BY <3>2
  <2>5. s[k] = s[k - 1] + w[k] /\ t[k] = t[k - 1] + v[k] /\ (k - 1) + 1 = k
    BY <1>6, <1>7
  <2>6. W * t[k] <= n * s[k] /\ n * s[k] <= W * t[k] + k * W
    BY <2>4, <2>5, Zenon
  <2> QED BY <2>1, <2>6
<1> HIDE DEF T
<1>11. N \in 0..N /\ \A k \in 0..N : k \in T
  <2>1. \A k \in 0..N : k \in T
    BY <1>1, <1>9, <1>10, UpTo
  <2> QED BY <1>1, <2>1
<1>12. t[N] \in Int /\ W * t[N] <= n * W /\ n * W <= W * t[N] + N * W
  BY <1>7, <1>8, <1>11 DEF T
<1>13. W * t[N] <= W * n /\ W * n <= W * (t[N] + N)
  BY <1>1, <1>2, <1>12
<1>14. t[N] <= n /\ n <= t[N] + N
  <2>1. n \in Int /\ t[N] + N \in Int /\ t[N] \in Int
    BY <1>1, <1>12
  <2>2. t[N] <= n
    BY <1>2, <1>13, <2>1, Dividing
  <2>3. n <= t[N] + N
    BY <1>2, <1>13, <2>1, Dividing
  <2> QED BY <2>2, <2>3
<1>15. Left(n, w) \in 0..N
  BY <1>1, <1>8, <1>12, <1>14
<1> QED BY <1>4, <1>5, <1>15 DEF N, v

\* The largest remainders take what the whole shares left, a word each.
LEMMA RoundedTotal ==
    ASSUME NEW n \in Nat, NEW w \in Seq(Weights), w # <<>>
    PROVE  /\ Rounded(n, w) \in Seq(Nat) /\ Len(Rounded(n, w)) = Len(w)
           /\ Total(Rounded(n, w)) = n
<1> DEFINE N == Len(w)
           v == Whole(n, w)
           c == Rounded(n, w)
           L == Left(n, w)
           P == [i \in 1..N |-> Before(n, w, i)]
           A == {i \in 1..N : Cardinality(P[i]) < L}
           R(i) == Remainder(n, w, i)
<1>1. N \in Nat /\ DOMAIN w = 1..N
  BY LenProperties
<1>2. /\ v \in Seq(Nat) /\ Len(v) = N /\ \A i \in 1..N : R(i) \in Nat
      /\ L \in 0..N
  BY SharesLeave
<1>3. /\ P \in [1..N -> SUBSET (1..N)]
      /\ \A i \in 1..N : P[i] = {j \in 1..N : R(j) > R(i) \/ (R(j) = R(i) /\ j < i)}
  BY <1>1 DEF Before
<1> HIDE DEF R, P
<1>4. \A i \in 1..N : i \notin P[i] /\ \A j \in P[i] : P[j] \subseteq P[i]
  <2> TAKE i \in 1..N
  <2>1. i \notin P[i]
    BY <1>2, <1>3
  <2>2. ASSUME NEW j \in P[i], NEW k \in P[j] PROVE k \in P[i]
    <3>1. j \in 1..N /\ (R(j) > R(i) \/ (R(j) = R(i) /\ j < i))
      BY <1>3
    <3>2. k \in 1..N /\ (R(k) > R(j) \/ (R(k) = R(j) /\ k < j))
      BY <1>3, <3>1
    <3>3. R(i) \in Nat /\ R(j) \in Nat /\ R(k) \in Nat
      BY <1>2, <3>1, <3>2
    <3>4. R(k) > R(i) \/ (R(k) = R(i) /\ k < i)
      BY <3>1, <3>2, <3>3
    <3> QED BY <1>3, <3>2, <3>4
  <2> QED BY <2>1, <2>2
<1>5. ASSUME NEW i \in 1..N, NEW j \in 1..N PROVE i = j \/ i \in P[j] \/ j \in P[i]
  <2>1. R(i) \in Nat /\ R(j) \in Nat
    BY <1>2
  <2>2. i = j \/ (R(i) > R(j) \/ (R(i) = R(j) /\ i < j)) \/ (R(j) > R(i) \/ (R(j) = R(i) /\ j < i))
    BY <2>1
  <2> QED BY <1>3, <2>2
<1>6. Cardinality(A) = L
  <2>1. \A k \in 0..N : Cardinality({i \in 1..N : Cardinality(P[i]) < k}) = k
    <3> HIDE DEF N
    <3> QED BY <1>1, <1>3, <1>4, <1>5, OfRank
  <2> QED BY <1>2, <2>1
<1>7. ASSUME NEW i \in 1..N
      PROVE  /\ v[i] \in Nat /\ c[i] = v[i] + IF i \in A THEN 1 ELSE 0
             /\ c[i] \in Nat
  <2>1. v[i] \in Nat
    BY <1>2
  <2>2. P[i] = Before(n, w, i)
    BY Zenon DEF P
  <2>3. c[i] = v[i] + IF Cardinality(Before(n, w, i)) < L THEN 1 ELSE 0
    BY <1>1, Zenon DEF Rounded
  <2> HIDE DEF c, v, L
  <2>4. c[i] = v[i] + IF i \in A THEN 1 ELSE 0
    BY <2>2, <2>3
  <2> QED BY <2>1, <2>4
<1>8. c \in [1..N -> Nat]
  <2>1. c = [i \in 1..N |-> c[i]]
    BY <1>1 DEF Rounded
  <2> HIDE DEF c, N
  <2> QED BY <1>7, <2>1, Zenon
<1>9. c \in Seq(Nat) /\ Len(c) = N
  <2> HIDE DEF c, N
  <2> QED BY <1>1, <1>8, IsSequence
<1>10. Total(v) \in Int /\ L = n - Total(v)
  <2>1. v \in Seq(Int)
    BY <1>2
  <2> HIDE DEF v
  <2>2. Total(v) \in Int
    BY <2>1, TotalInt
  <2> QED BY <2>2 DEF Left, v
<1>11. Total(c) = Total(v) + Cardinality(A)
  <2>1. c \in Seq(Int) /\ v \in Seq(Int) /\ A \in SUBSET (1..Len(v)) /\ Len(c) = Len(v)
    BY <1>2, <1>9
  <2>2. \A i \in 1..Len(v) : c[i] = v[i] + IF i \in A THEN 1 ELSE 0
    BY <1>2, <1>7
  <2> HIDE DEF c, v, A
  <2> QED BY <2>1, <2>2, SumsOneMore
<1> HIDE DEF c, v, A, L
<1>12. Total(c) = n
  BY <1>6, <1>10, <1>11
<1> QED BY <1>9, <1>12 DEF c

\* How many words each span may get: of all of them together, n.
Counts(n, N) == {c \in Seq(Nat) : Len(c) = N /\ Total(c) = n}

\* A share of none that takes a word of the largest leaves as many in all.
LEMMA DonatedCounts ==
    ASSUME NEW n \in Nat, NEW N \in Nat, NEW c \in Counts(n, N), NEW i \in 1..N
    PROVE  Donated(n, c, i) \in Counts(n, N)
<1> DEFINE j == Largest(c)
           d == [c EXCEPT ![j] = @ - 1, ![i] = @ + 1]
<1>1. c \in Seq(Nat) /\ Len(c) = N /\ DOMAIN c = 1..N /\ Total(c) = n /\ \A k \in 1..N : c[k] \in Nat
  BY DEF Counts
<1>2. SUFFICES ASSUME c[i] = 0, c[j] > 1 PROVE d \in Counts(n, N)
  BY Zenon DEF Donated
<1>3. j \in 1..N
  <2>1. N \in Nat \ {0} /\ c \in [1..N -> Int]
    BY <1>1
  <2>2. PICK b \in 1..N : (\A k \in 1..N : c[k] <= c[b]) /\ (\A k \in 1..(b - 1) : c[k] < c[b])
    BY <2>1, FirstLargest
  <2>3. \A k \in 1..N : c[k] < c[b] \/ (c[k] = c[b] /\ b <= k)
    BY <1>1, <2>2
  <2>4. \E x \in DOMAIN c : \A k \in DOMAIN c : c[k] < c[x] \/ (c[k] = c[x] /\ x <= k)
    BY <1>1, <2>3
  <2>5. j \in DOMAIN c
    BY <2>4, Zenon DEF Largest
  <2> QED BY <1>1, <2>5
<1> HIDE DEF j
<1>4. i # j
  BY <1>1, <1>2
<1>5. d \in Seq(Nat) /\ Len(d) = N
  BY <1>1, <1>2, <1>3, <1>4
<1>6. Total(d) = Total(c)
  <2>1. c \in Seq(Int) /\ i \in 1..Len(c) /\ j \in 1..Len(c)
    BY <1>1, <1>3
  <2> QED BY <1>4, <2>1, SumsGiven
<1> HIDE DEF d
<1> QED BY <1>1, <1>5, <1>6 DEF Counts

\* Every word is given to one of the weights (align.py:28).
LEMMA SplitCountsTotal ==
    ASSUME NEW n \in Nat, NEW w \in Seq(Weights), w # <<>>
    PROVE  SplitCounts(n, w) \in Counts(n, Len(w))
<1> DEFINE N == Len(w)
           C == Counts(n, N)
           b == Rounded(n, w)
           step == [i \in 1..N |-> [c \in C |-> Donated(n, c, i)]]
           Is(g) == g = [i \in 0..N |-> IF i = 0 THEN b ELSE Donated(n, g[i - 1], i)]
           s == CHOOSE g : Is(g)
<1>1. N \in Nat /\ N \in 0..N
  BY LenProperties
<1>2. b \in C
  BY RoundedTotal DEF Counts
<1>3. step \in [1..N -> [C -> C]] /\ \A i \in 1..N : \A c \in C : step[i][c] = Donated(n, c, i)
  <2> HIDE DEF C, N
  <2>1. \A c \in C, i \in 1..N : Donated(n, c, i) \in C
    BY <1>1, DonatedCounts DEF C
  <2> QED BY <2>1, Zenon
<1> HIDE DEF C, N, step, b
<1>4. PICK g \in [0..N -> C] : Unrolls(g, N, b, step)
  BY <1>1, <1>2, <1>3, Recursion
<1>5. Is(g)
  <2>1. ASSUME NEW i \in 1..N PROVE g[i] = Donated(n, g[i - 1], i)
    <3>1. i - 1 \in 0..N
      BY <1>1
    <3>2. g[i - 1] \in C
      BY <3>1
    <3> QED BY <1>3, <1>4, <3>2, Zenon DEF Unrolls
  <2> QED BY <1>1, <1>4, <2>1 DEF Unrolls
<1>6. Is(s)
  <2> HIDE DEF Is
  <2> QED BY <1>5, Zenon
<1>7. SplitCounts(n, w) = s[N]
  BY DEF SplitCounts, N, b
<1> HIDE DEF s
<1>8. \A i \in 0..N : s[i] = IF i = 0 THEN b ELSE Donated(n, s[i - 1], i)
  BY <1>6, Zenon
<1>9. s = [i \in 0..N |-> s[i]]
  BY <1>6
<1> HIDE DEF Is
<1>10. Stays(s, N, C)
  <2>1. s[0] \in C
    BY <1>1, <1>2, <1>8
  <2>2. ASSUME NEW i \in 1..N, s[i - 1] \in C PROVE s[i] \in C
    <3>1. s[i] = Donated(n, s[i - 1], i)
      BY <1>1, <1>8
    <3> QED BY <1>1, <2>2, <3>1, DonatedCounts DEF C
  <2> QED BY <1>9, <2>1, <2>2, Zenon DEF Stays
<1>11. s \in [0..N -> C]
  BY <1>1, <1>10, StaysIn
<1> QED BY <1>1, <1>7, <1>11 DEF C, N

-----------------------------------------------------------------------------
(* Sequences of sequences, made one. *)

\* g puts the members of ss one behind the other.
Flattens(g, ss) == g[0] = <<>> /\ \A n \in 1..Len(ss) : g[n] = g[n - 1] \o ss[n]

\* A flattened sequence is what its sequences make, one after the other.
LEMMA FlattenRuns ==
    ASSUME NEW S, NEW ss \in Seq(Seq(S))
    PROVE  \E g \in [0..Len(ss) -> Seq(S)] : Flattens(g, ss) /\ FlattenSeq(ss) = g[Len(ss)]
<1> DEFINE N == Len(ss)
           Q == Seq(S)
           step == [n \in 1..N |-> [v \in Q |-> v \o ss[n]]]
           Is(f) == f = [n \in 1..N |-> IF n = 1 THEN ss[n] ELSE f[n - 1] \o ss[n]]
           s == CHOOSE f : Is(f)
<1>1. /\ N \in Nat /\ N \in 0..N /\ <<>> \in Q /\ ss \in [1..N -> Q]
  BY LenProperties, EmptySeq
<1>2. \A u \in Q, v \in Q : u \o v \in Q
  BY ConcatProperties
<1>3. \A v \in Q : <<>> \o v = v
  BY ConcatEmptySeq
<1>4. FlattenSeq(ss) = IF N = 0 THEN ss ELSE s[N]
  BY DEF FlattenSeq
<1>5. N = 0 => ss = <<>>
  BY EmptySeq
<1> HIDE DEF N, Q
<1>6. \A n \in 1..N : ss[n] \in Q
  BY <1>1
<1>7. step \in [1..N -> [Q -> Q]] /\ \A n \in 1..N : \A v \in Q : step[n][v] = v \o ss[n]
  BY <1>2, <1>6, Zenon
<1> HIDE DEF step
<1>8. PICK g \in [0..N -> Q] : Unrolls(g, N, <<>>, step)
  BY <1>1, <1>7, Recursion
<1>9. Flattens(g, ss)
  <2>1. ASSUME NEW n \in 1..N PROVE g[n] = g[n - 1] \o ss[n]
    <3>1. n - 1 \in 0..N
      BY <1>1
    <3>2. g[n - 1] \in Q
      BY <3>1
    <3> QED BY <1>7, <1>8, <3>2, Zenon DEF Unrolls
  <2> QED BY <1>8, <2>1, Zenon DEF Unrolls, Flattens, N
<1>10. Is([n \in 1..N |-> g[n]])
  <2> DEFINE h == [n \in 1..N |-> g[n]]
  <2>1. ASSUME NEW n \in 1..N PROVE h[n] = IF n = 1 THEN ss[n] ELSE h[n - 1] \o ss[n]
    <3>1. h[n] = g[n] /\ g[n] = g[n - 1] \o ss[n]
      BY <1>9, Zenon DEF Flattens, N
    <3>2. CASE n = 1
      <4>1. g[n] = <<>> \o ss[n]
        <5>1. n - 1 = 0
          BY <3>2
        <5> QED BY <1>9, <3>1, <5>1 DEF Flattens
      <4> QED BY <1>3, <1>6, <3>1, <3>2, <4>1
    <3>3. CASE n # 1
      <4>1. n - 1 \in 1..N
        BY <1>1, <3>3
      <4>2. h[n - 1] = g[n - 1]
        BY <4>1, Zenon
      <4> HIDE DEF h
      <4> QED BY <3>1, <3>3, <4>2
    <3> QED BY <3>2, <3>3
  <2> QED BY <2>1, Zenon
<1>11. Is(s)
  <2> HIDE DEF Is
  <2> QED BY <1>10, Zenon
<1> HIDE DEF s
<1>12. \A n \in 1..N : s[n] = IF n = 1 THEN ss[n] ELSE s[n - 1] \o ss[n]
  BY <1>11, Zenon
<1> HIDE DEF Is
<1>13. N # 0 => s[N] = g[N]
  <2> DEFINE T == {n \in 0..N : n = 0 \/ s[n] = g[n]}
  <2>1. 0 \in T
    BY <1>1
  <2>2. ASSUME NEW n \in 1..N, n - 1 \in T PROVE n \in T
    <3>1. g[n] = g[n - 1] \o ss[n]
      BY <1>9, Zenon DEF Flattens, N
    <3>2. n \in 0..N
      BY <1>1
    <3>3. CASE n = 1
      <4>1. g[n - 1] = <<>>
        <5>1. n - 1 = 0
          BY <3>3
        <5> QED BY <1>9, <5>1 DEF Flattens
      <4>2. s[n] = g[n]
        BY <1>3, <1>6, <1>12, <3>1, <3>3, <4>1
      <4> QED BY <3>2, <4>2
    <3>4. CASE n # 1
      <4>1. s[n - 1] = g[n - 1]
        BY <2>2, <3>4
      <4>2. s[n] = g[n]
        BY <1>12, <3>1, <3>4, <4>1
      <4> QED BY <3>2, <4>2
    <3> QED BY <3>3, <3>4
  <2> HIDE DEF T
  <2>3. N \in T
    BY <1>1, <2>1, <2>2, UpTo
  <2> QED BY <2>3 DEF T
<1>14. FlattenSeq(ss) = g[N]
  BY <1>4, <1>5, <1>9, <1>13 DEF Flattens
<1> QED BY <1>9, <1>14 DEF N, Q

\* What is flattened has the elements it had.
LEMMA FlattenTyped ==
    ASSUME NEW S, NEW ss \in Seq(Seq(S))
    PROVE  FlattenSeq(ss) \in Seq(S)
<1>1. PICK g \in [0..Len(ss) -> Seq(S)] : FlattenSeq(ss) = g[Len(ss)]
  BY FlattenRuns
<1>2. Len(ss) \in 0..Len(ss)
  BY LenProperties
<1> QED BY <1>1, <1>2

\* There is one way to put them one behind the other.
LEMMA FlattenIs ==
    ASSUME NEW S, NEW ss \in Seq(Seq(S)), NEW h, Flattens(h, ss)
    PROVE  FlattenSeq(ss) = h[Len(ss)]
<1> DEFINE N == Len(ss)
<1>1. PICK g \in [0..N -> Seq(S)] : Flattens(g, ss) /\ FlattenSeq(ss) = g[N]
  BY FlattenRuns
<1>2. N \in Nat /\ N \in 0..N
  BY LenProperties
<1> DEFINE T == {n \in 0..N : h[n] = g[n]}
<1>3. 0 \in T
  BY <1>1, <1>2 DEF Flattens
<1>4. ASSUME NEW n \in 1..N, n - 1 \in T PROVE n \in T
  <2>1. g[n] = g[n - 1] \o ss[n] /\ h[n] = h[n - 1] \o ss[n]
    BY <1>1, Zenon DEF Flattens
  <2>2. h[n - 1] = g[n - 1]
    BY <1>4, Zenon
  <2>3. n \in 0..N
    BY <1>2
  <2> QED BY <2>1, <2>2, <2>3, Zenon
<1> HIDE DEF T, N
<1>5. \A n \in 0..N : n \in T
  BY <1>2, <1>3, <1>4, UpTo
<1> QED BY <1>1, <1>2, <1>5 DEF T, N

\* Concatenation is associative.
Associative(S) == \A x, y, z \in Seq(S) : (x \o y) \o z = x \o (y \o z)
LEMMA ConcatIsAssociative == ASSUME NEW S PROVE Associative(S)
BY ConcatAssociative DEF Associative

\* Nothing is flattened to nothing,
LEMMA FlattenNone == FlattenSeq(<<>>) = <<>>
BY DEF FlattenSeq

\* one sequence to itself,
LEMMA FlattenOne ==
    ASSUME NEW S, NEW x \in Seq(S)
    PROVE  FlattenSeq(<<x>>) = x
<1> DEFINE h == [n \in 0..1 |-> IF n = 0 THEN <<>> ELSE x]
<1>1. <<x>> \in Seq(Seq(S)) /\ Len(<<x>>) = 1 /\ <<x>>[1] = x
  OBVIOUS
<1>2. h[0] = <<>> /\ h[1] = x
  OBVIOUS
<1> HIDE DEF h
<1>3. Flattens(h, <<x>>)
  <2>1. <<>> \o x = x
    BY ConcatEmptySeq
  <2>2. ASSUME NEW n \in 1..Len(<<x>>) PROVE h[n] = h[n - 1] \o <<x>>[n]
    <3>1. n = 1 /\ n - 1 = 0
      BY <1>1
    <3> QED BY <1>1, <1>2, <2>1, <3>1
  <2> QED BY <1>2, <2>2, Zenon DEF Flattens
<1> QED BY <1>1, <1>2, <1>3, FlattenIs

\* and two after one another to what each of them is flattened to.
LEMMA FlattenBoth ==
    ASSUME NEW S, NEW a \in Seq(Seq(S)), NEW b \in Seq(Seq(S))
    PROVE  FlattenSeq(a \o b) = FlattenSeq(a) \o FlattenSeq(b)
<1> DEFINE L == Len(a)
           M == Len(b)
           ab == a \o b
<1>1. PICK g \in [0..L -> Seq(S)] : Flattens(g, a) /\ FlattenSeq(a) = g[L]
  BY FlattenRuns
<1>2. PICK f \in [0..M -> Seq(S)] : Flattens(f, b) /\ FlattenSeq(b) = f[M]
  BY FlattenRuns
<1>3. L \in Nat /\ M \in Nat
  BY LenProperties
<1>4. /\ ab \in Seq(Seq(S)) /\ Len(ab) = L + M
      /\ \A i \in 1..(L + M) : ab[i] = IF i <= L THEN a[i] ELSE b[i - L]
  BY ConcatProperties
<1> DEFINE h == [n \in 0..(L + M) |-> IF n <= L THEN g[n] ELSE g[L] \o f[n - L]]
<1>5. \A n \in 0..(L + M) : h[n] = IF n <= L THEN g[n] ELSE g[L] \o f[n - L]
  BY Zenon
<1>6. b \in [1..M -> Seq(S)]
  BY LenProperties
<1>7. Associative(S)
  BY ConcatIsAssociative
<1> HIDE DEF h, ab, L, M
<1>8. Flattens(h, ab)
  <2>1. h[0] = <<>>
    <3>1. 0 \in 0..(L + M) /\ 0 <= L
      BY <1>3
    <3> QED BY <1>1, <1>5, <3>1 DEF Flattens
  <2>2. ASSUME NEW n \in 1..(L + M) PROVE h[n] = h[n - 1] \o ab[n]
    <3>1. n \in 0..(L + M) /\ n - 1 \in 0..(L + M)
      BY <1>3
    <3>2. CASE n <= L
      <4>1. n \in 1..L /\ n - 1 <= L
        BY <1>3, <3>2
      <4>2. g[n] = g[n - 1] \o a[n]
        BY <1>1, <4>1, Zenon DEF Flattens, L
      <4> QED BY <1>4, <1>5, <3>1, <3>2, <4>1, <4>2
    <3>3. CASE ~(n <= L)
      <4> DEFINE k == n - L
      <4>1. k \in 1..M /\ k \in 0..M /\ k - 1 \in 0..M /\ L \in 0..L
        BY <1>3, <3>3
      <4>2. f[k] = f[k - 1] \o b[k]
        BY <1>2, <4>1, Zenon DEF Flattens, M
      <4>3. h[n] = g[L] \o f[k] /\ ab[n] = b[k]
        BY <1>4, <1>5, <3>1, <3>3
      <4>4. h[n - 1] = g[L] \o f[k - 1]
        <5>1. CASE n - 1 <= L
          <6>1. n - 1 = L /\ k - 1 = 0
            BY <1>3, <3>3, <5>1
          <6>2. g[L] \in Seq(S)
            BY <4>1
          <6>3. h[n - 1] = g[L]
            BY <1>5, <3>1, <5>1, <6>1
          <6>4. f[k - 1] = <<>>
            BY <1>2, <6>1 DEF Flattens
          <6> QED BY <6>2, <6>3, <6>4, ConcatEmptySeq
        <5>2. CASE ~(n - 1 <= L)
          <6>1. (n - 1) - L = k - 1
            BY <1>3
          <6> QED BY <1>5, <3>1, <5>2, <6>1
        <5> QED BY <5>1, <5>2
      <4>5. g[L] \in Seq(S) /\ f[k - 1] \in Seq(S) /\ b[k] \in Seq(S)
        BY <1>6, <4>1
      <4> HIDE DEF k
      <4>6. (g[L] \o f[k - 1]) \o b[k] = g[L] \o (f[k - 1] \o b[k])
        <5> DEFINE x == g[L]  y == f[k - 1]  z == b[k]
        <5> HIDE DEF x, y, z
        <5>1. x \in Seq(S) /\ y \in Seq(S) /\ z \in Seq(S)
          BY <4>5 DEF x, y, z
        <5>2. (x \o y) \o z = x \o (y \o z)
          BY <1>7, <5>1 DEF Associative
        <5> QED BY <5>2 DEF x, y, z
      <4> QED BY <4>2, <4>3, <4>4, <4>6
    <3> QED BY <3>2, <3>3
  <2> QED BY <1>4, <2>1, <2>2 DEF Flattens
<1>9. FlattenSeq(ab) = h[L + M]
  BY <1>4, <1>8, FlattenIs
<1>10. h[L + M] = g[L] \o f[M]
  <2>1. L + M \in 0..(L + M) /\ L \in 0..L
    BY <1>3
  <2>2. CASE M = 0
    <3>1. L + M <= L /\ L + M = L
      BY <1>3, <2>2
    <3>2. f[M] = <<>> /\ g[L] \in Seq(S)
      BY <1>2, <2>1, <2>2 DEF Flattens
    <3>3. g[L] \o <<>> = g[L]
      BY <3>2, ConcatEmptySeq
    <3> QED BY <1>5, <2>1, <3>1, <3>2, <3>3
  <2>3. CASE M # 0
    <3>1. ~(L + M <= L) /\ (L + M) - L = M
      BY <1>3, <2>3
    <3> QED BY <1>5, <2>1, <3>1
  <2> QED BY <2>2, <2>3
<1> QED BY <1>1, <1>2, <1>9, <1>10 DEF ab

\* The words of segments, segment by segment.
WordLists(segs) == [i \in DOMAIN segs |-> segs[i].words]

\* The words of segments are words, by segment and all together.
LEMMA WordListsTyped ==
    ASSUME NEW segs \in Seq(Speech)
    PROVE  /\ WordLists(segs) \in Seq(Seq(Vocabulary)) /\ Len(WordLists(segs)) = Len(segs)
           /\ \A i \in 1..Len(segs) : WordLists(segs)[i] = segs[i].words
           /\ WordsOf(segs) = FlattenSeq(WordLists(segs)) /\ WordsOf(segs) \in Seq(Vocabulary)
<1> DEFINE N == Len(segs)
           l == WordLists(segs)
           V == Seq(Vocabulary)
<1>1. N \in Nat /\ DOMAIN segs = 1..N /\ \A i \in 1..N : segs[i] \in Speech
  BY LenProperties
<1>2. l = [i \in 1..N |-> segs[i].words]
  BY <1>1 DEF WordLists
<1>3. \A i \in 1..N : segs[i].words \in V
  BY <1>1 DEF Speech
<1> HIDE DEF V, N, l
<1>4. l \in [1..N -> V]
  BY <1>2, <1>3, Zenon
<1>5. l \in Seq(V) /\ Len(l) = N
  BY <1>1, <1>4, IsSequence
<1>6. \A i \in 1..N : l[i] = segs[i].words
  BY <1>2, Zenon
<1>7. WordsOf(segs) = FlattenSeq(l)
  BY DEF WordsOf, WordLists, l
<1>8. FlattenSeq(l) \in Seq(Vocabulary)
  BY <1>5, FlattenTyped DEF V
<1> QED BY <1>5, <1>6, <1>7, <1>8 DEF V, N, l

\* No segments have no words,
LEMMA WordsOfNone == WordsOf(<<>>) = <<>>
<1>1. WordsOf(<<>>) = FlattenSeq(WordLists(<<>>)) /\ WordLists(<<>>) = <<>>
  BY DEF WordsOf, WordLists
<1> QED BY <1>1, FlattenNone

\* one has its own,
LEMMA WordsOfOne ==
    ASSUME NEW s \in Speech
    PROVE  WordsOf(<<s>>) = s.words
<1>1. <<s>> \in Seq(Speech) /\ Len(<<s>>) = 1 /\ <<s>>[1] = s
  OBVIOUS
<1>2. WordLists(<<s>>) = <<s.words>>
  BY DEF WordLists
<1>3. s.words \in Seq(Vocabulary)
  BY DEF Speech
<1> QED BY <1>1, <1>2, <1>3, WordListsTyped, FlattenOne

\* and segments after one another have the words of both.
LEMMA WordsOfBoth ==
    ASSUME NEW a \in Seq(Speech), NEW b \in Seq(Speech)
    PROVE  WordsOf(a \o b) = WordsOf(a) \o WordsOf(b)
<1> DEFINE L == Len(a)
           M == Len(b)
           ab == a \o b
           la == WordLists(a)
           lb == WordLists(b)
           l == WordLists(ab)
           V == Seq(Vocabulary)
<1>1. /\ L \in Nat /\ M \in Nat
      /\ ab \in Seq(Speech) /\ Len(ab) = L + M
      /\ \A i \in 1..(L + M) : ab[i] = IF i <= L THEN a[i] ELSE b[i - L]
  BY ConcatProperties, LenProperties
<1> HIDE DEF ab, V
<1>2. la \in Seq(V) /\ Len(la) = L /\ \A i \in 1..L : la[i] = a[i].words
  BY WordListsTyped DEF V
<1>3. lb \in Seq(V) /\ Len(lb) = M /\ \A i \in 1..M : lb[i] = b[i].words
  BY WordListsTyped DEF V
<1>4. l \in Seq(V) /\ Len(l) = L + M /\ \A i \in 1..(L + M) : l[i] = ab[i].words
  BY <1>1, WordListsTyped DEF V
<1> HIDE DEF la, lb, l, L, M
<1>5. /\ la \o lb \in Seq(V) /\ Len(la \o lb) = L + M
      /\ \A i \in 1..(L + M) : (la \o lb)[i] = IF i <= L THEN la[i] ELSE lb[i - L]
  BY <1>2, <1>3, ConcatProperties
<1>6. ASSUME NEW i \in 1..(L + M) PROVE l[i] = (la \o lb)[i]
  <2>1. CASE i <= L
    <3>1. i \in 1..L
      BY <1>1, <2>1
    <3> QED BY <1>1, <1>2, <1>4, <1>5, <2>1, <3>1
  <2>2. CASE ~(i <= L)
    <3>1. i - L \in 1..M
      BY <1>1, <2>2
    <3> QED BY <1>1, <1>3, <1>4, <1>5, <2>2, <3>1
  <2> QED BY <2>1, <2>2
<1>7. l = la \o lb
  BY <1>4, <1>5, <1>6, SeqEqual
<1>8. FlattenSeq(la \o lb) = FlattenSeq(la) \o FlattenSeq(lb)
  BY <1>2, <1>3, FlattenBoth DEF V
<1> QED BY <1>1, <1>7, <1>8, WordListsTyped DEF la, lb, l, ab

\* The words of segments put one behind the other are their words put one behind the other.
LEMMA WordsOfFlat ==
    ASSUME NEW ss \in Seq(Seq(Speech)), NEW ws \in Seq(Seq(Vocabulary)), Len(ws) = Len(ss),
           \A i \in 1..Len(ss) : ws[i] = WordsOf(ss[i])
    PROVE  WordsOf(FlattenSeq(ss)) = FlattenSeq(ws)
<1> DEFINE N == Len(ss)
           Q == Seq(Speech)
<1>1. N \in Nat /\ N \in 0..N /\ ss \in [1..N -> Q]
  BY LenProperties
<1>2. PICK g \in [0..N -> Q] : Flattens(g, ss) /\ FlattenSeq(ss) = g[N]
  BY FlattenRuns
<1> DEFINE h == [n \in 0..N |-> WordsOf(g[n])]
<1>3. \A n \in 0..N : h[n] = WordsOf(g[n])
  BY Zenon
<1>4. \A n \in 1..N : ws[n] = WordsOf(ss[n])
  OBVIOUS
<1> HIDE DEF h
<1>5. h[0] = <<>>
  <2>1. 0 \in 0..N /\ g[0] = <<>>
    BY <1>1, <1>2 DEF Flattens
  <2> QED BY <1>3, <2>1, WordsOfNone
<1>6. ASSUME NEW n \in 1..N PROVE h[n] = h[n - 1] \o ws[n]
  <2>1. n \in 0..N /\ n - 1 \in 0..N
    BY <1>1
  <2>2. g[n] = g[n - 1] \o ss[n]
    BY <1>2, Zenon DEF Flattens
  <2>3. g[n - 1] \in Q /\ ss[n] \in Q
    <3> HIDE DEF Q, N
    <3> QED BY <1>1, <2>1, Zenon
  <2> DEFINE x == g[n - 1]  y == ss[n]
  <2>4. WordsOf(x \o y) = WordsOf(x) \o WordsOf(y)
    <3>1. x \in Seq(Speech) /\ y \in Seq(Speech)
      BY <2>3
    <3> HIDE DEF x, y
    <3> QED BY <3>1, WordsOfBoth
  <2> HIDE DEF Q, N
  <2> QED BY <1>3, <1>4, <2>1, <2>2, <2>4, Zenon
<1>7. Flattens(h, ws)
  BY <1>5, <1>6, Zenon DEF Flattens
<1>8. FlattenSeq(ws) = h[N]
  BY <1>7, FlattenIs
<1> HIDE DEF N, Q
<1> QED BY <1>1, <1>2, <1>3, <1>8

\* The pieces of a text are the text.
LEMMA PiecesWhole ==
    ASSUME NEW words \in Seq(Vocabulary), NEW w \in Seq(Weights), w # <<>>
    PROVE  /\ Pieces(words, w) \in Seq(Seq(Vocabulary)) /\ Len(Pieces(words, w)) = Len(w)
           /\ FlattenSeq(Pieces(words, w)) = words
<1> DEFINE N == Len(w)
           n == Len(words)
           c == SplitCounts(n, w)
           s == Sums(c)
           p == Pieces(words, w)
           V == Seq(Vocabulary)
<1>1. N \in Nat /\ n \in Nat /\ DOMAIN w = 1..N
  BY LenProperties
<1>2. c \in Seq(Nat) /\ Len(c) = N /\ Total(c) = n
  BY <1>1, SplitCountsTotal DEF Counts
<1>3. p = [i \in 1..N |-> SubSeq(words, s[i - 1] + 1, s[i])]
  BY <1>1 DEF Pieces
<1> HIDE DEF c
<1>4. s[0] = 0
  <2>1. c \in Seq(Int)
    BY <1>2
  <2> QED BY <2>1, SumsFacts
<1>5. s \in [0..N -> Nat] /\ \A i, j \in 0..N : i <= j => s[i] <= s[j]
  BY <1>2, SumsRise
<1>6. s[N] = n
  BY <1>2 DEF Total
<1> HIDE DEF s, p, N, n
<1>7. \A i \in 0..N : s[i] \in 0..n
  <2> TAKE i \in 0..N
  <2>1. N \in 0..N /\ i <= N
    BY <1>1
  <2>2. s[i] \in Nat /\ s[i] <= s[N]
    BY <1>5, <2>1
  <2> QED BY <1>1, <1>6, <2>2
<1> DEFINE h == [i \in 0..N |-> SubSeq(words, 1, s[i])]
<1>8. ASSUME NEW i \in 1..N
      PROVE  /\ p[i] \in V
             /\ SubSeq(words, 1, s[i]) = SubSeq(words, 1, s[i - 1]) \o p[i]
  <2> DEFINE a == s[i - 1]  b == s[i]
  <2>1. i - 1 \in 0..N /\ i \in 0..N
    BY <1>1
  <2>2. a \in 0..n /\ b \in 0..n /\ a <= b
    <3>1. a <= b
      BY <1>1, <1>5, <2>1
    <3> QED BY <1>7, <2>1, <3>1
  <2>3. p[i] = SubSeq(words, a + 1, b)
    BY <1>3, Zenon
  <2> HIDE DEF a, b
  <2>4. SubSeq(words, 1, a) \o SubSeq(words, a + 1, b) = SubSeq(words, 1, b)
    <3>1. 1 \in 1..(n + 1) /\ a \in (1 - 1)..n /\ b \in a..n
      BY <1>1, <2>2
    <3> QED BY <3>1, ConcatAdjacentSubSeq DEF n
  <2>5. SubSeq(words, a + 1, b) \in V
    <3>1. a + 1 \in Int /\ b \in Int
      BY <1>1, <2>2
    <3>2. \A k \in (a + 1)..b : words[k] \in Vocabulary
      <4>1. \A k \in (a + 1)..b : k \in 1..n
        BY <1>1, <2>2
      <4> QED BY <4>1, ElementOfSeq DEF n
    <3> QED BY <3>1, <3>2, SubSeqProperties
  <2> HIDE DEF V
  <2> QED BY <2>3, <2>4, <2>5 DEF a, b
<1>9. p \in Seq(V) /\ Len(p) = N
  <2>1. \A i \in 1..N : p[i] \in V
    BY <1>8
  <2>2. p \in [1..N -> V]
    <3> HIDE DEF V
    <3>1. \A i \in 1..N : p[i] = SubSeq(words, s[i - 1] + 1, s[i])
      BY <1>3, Zenon
    <3>2. \A i \in 1..N : SubSeq(words, s[i - 1] + 1, s[i]) \in V
      BY <2>1, <3>1, Zenon
    <3> QED BY <1>3, <3>2, Zenon
  <2> HIDE DEF V
  <2> QED BY <1>1, <2>2, IsSequence
<1>10. \A i \in 0..N : h[i] = SubSeq(words, 1, s[i])
  BY Zenon
<1> HIDE DEF h
<1>11. Flattens(h, p)
  <2>1. h[0] = <<>>
    <3>1. 0 \in 0..N
      BY <1>1
    <3> QED BY <1>4, <1>10, <3>1, SubSeqEmpty
  <2>2. ASSUME NEW i \in 1..N PROVE h[i] = h[i - 1] \o p[i]
    <3>1. i - 1 \in 0..N /\ i \in 0..N
      BY <1>1
    <3> QED BY <1>8, <1>10, <3>1, Zenon
  <2> QED BY <1>9, <2>1, <2>2, Zenon DEF Flattens
<1>12. FlattenSeq(p) = h[N]
  BY <1>9, <1>11, FlattenIs DEF V
<1>13. h[N] = words
  <2>1. N \in 0..N
    BY <1>1
  <2>2. h[N] = SubSeq(words, 1, n)
    BY <1>6, <1>10, <2>1
  <2> QED BY <2>2, SubSeqFull DEF n
<1> QED BY <1>9, <1>12, <1>13 DEF p, N, V

-----------------------------------------------------------------------------
(* What is given to a speaker. *)

Turn == [who : STRING, from : Int, to : Int]
SpanOfTurns == [who : STRING, from : Int, to : Int, heard : Weights]

\* A speaker is heard while s lasts.
Hears(s, turns) == \E i \in DOMAIN turns : turns[i].who = s.who /\ Overlap(s, turns[i]).heard > 0

\* What is heard of the turns while seg lasts.
Met(seg, turns) ==
    {s \in SpanOfTurns : seg.from <= s.from /\ s.to <= seg.to /\ Hears(s, turns)}

\* Two spans of time share some of it when each begins before the other ends.
LEMMA HeardMeans ==
    ASSUME NEW s, NEW t, s.from \in Int, s.to \in Int, t.from \in Int, t.to \in Int
    PROVE  /\ Overlap(s, t).heard \in Nat
           /\ Overlap(s, t).heard > 0 <=>
                 s.from < s.to /\ t.from < t.to /\ s.from < t.to /\ t.from < s.to
BY DEF Overlap, Span, Later, Sooner

\* Who is heard while s lasts is heard while what holds s lasts.
LEMMA HeardWithin ==
    ASSUME NEW turns \in Seq(Turn), NEW s, NEW t, Hears(s, turns),
           s.from \in Int, s.to \in Int, t.from \in Int, t.to \in Int,
           t.who = s.who, t.from <= s.from, s.to <= t.to
    PROVE  Hears(t, turns)
<1>1. PICK i \in DOMAIN turns : turns[i].who = s.who /\ Overlap(s, turns[i]).heard > 0
  BY DEF Hears
<1>2. turns[i].from \in Int /\ turns[i].to \in Int
  <2>1. turns[i] \in Turn
    BY LenProperties
  <2> QED BY <2>1 DEF Turn
<1>3. Overlap(t, turns[i]).heard > 0
  BY <1>1, <1>2, HeardMeans
<1> QED BY <1>1, <1>3 DEF Hears

\* The overlaps with the turns lie within the segment and where their speaker was heard.
LEMMA OverlapsMet ==
    ASSUME NEW seg \in Speech, NEW turns \in Seq(Turn)
    PROVE  Overlaps(seg, turns) \in Seq(Met(seg, turns))
<1> DEFINE N == Len(turns)
           M == Met(seg, turns)
           part(i) == IF Overlap(seg, turns[i]).heard > 0 THEN <<Overlap(seg, turns[i])>> ELSE <<>>
           ss == [i \in 1..N |-> part(i)]
<1>1. N \in Nat /\ DOMAIN turns = 1..N /\ \A i \in 1..N : turns[i] \in Turn
  BY LenProperties
<1>2. ASSUME NEW i \in 1..N PROVE part(i) \in Seq(M)
  <2> DEFINE t == turns[i]
             o == Overlap(seg, t)
  <2>1. t.who \in STRING /\ t.from \in Int /\ t.to \in Int /\ seg.from \in Int /\ seg.to \in Int
    BY <1>1 DEF Turn, Speech
  <2>2. SUFFICES ASSUME o.heard > 0 PROVE o \in M
    BY EmptySeq
  <2>3. /\ o = [who |-> t.who, from |-> o.from, to |-> o.to, heard |-> o.heard]
        /\ o.from = Later(seg.from, t.from) /\ o.to = Sooner(seg.to, t.to)
    BY DEF Overlap
  <2>4. o.heard \in Nat /\ (seg.from < seg.to /\ t.from < t.to /\ seg.from < t.to /\ t.from < seg.to)
    <3> HIDE DEF t
    <3> QED BY <2>1, <2>2, HeardMeans
  <2>5. o.heard \in Weights
    BY <2>2, <2>4 DEF Weights
  <2>6. /\ o.from \in Int /\ o.to \in Int /\ seg.from <= o.from /\ o.to <= seg.to
        /\ o.from < o.to /\ t.from <= o.from /\ o.to <= t.to
    <3> HIDE DEF t, o
    <3> QED BY <2>1, <2>3, <2>4 DEF Later, Sooner
  <2>7. o \in SpanOfTurns /\ o.who = t.who
    <3> HIDE DEF t, o
    <3> QED BY <2>1, <2>3, <2>5, <2>6 DEF SpanOfTurns
  <2>8. Overlap(o, t).heard > 0
    <3> HIDE DEF t, o
    <3> QED BY <2>1, <2>4, <2>6, HeardMeans
  <2>9. Hears(o, turns)
    <3> HIDE DEF o
    <3> QED BY <1>1, <2>7, <2>8, Zenon DEF Hears
  <2> HIDE DEF t, o
  <2> QED BY <2>6, <2>7, <2>9 DEF Met
<1>3. ss \in [1..N -> Seq(M)]
  <2> HIDE DEF part, M, N
  <2> QED BY <1>2, Zenon
<1>4. ss \in Seq(Seq(M))
  <2> HIDE DEF ss, M, N
  <2> QED BY <1>1, <1>3, IsSequence
<1>5. Overlaps(seg, turns) = FlattenSeq(ss)
  BY <1>1 DEF Overlaps
<1> HIDE DEF ss, M
<1>6. FlattenSeq(ss) \in Seq(M)
  BY <1>4, FlattenTyped
<1> QED BY <1>5, <1>6 DEF M

\* Spans in the order of time are those spans.
LEMMA InTimeOrderTyped ==
    ASSUME NEW M \in SUBSET SpanOfTurns, NEW os \in Seq(M)
    PROVE  InTimeOrder(os) \in Seq(M) /\ Len(InTimeOrder(os)) = Len(os)
<1> DEFINE N == Len(os)
           P == [i \in 1..N |-> Ahead(os, i)]
           t == InTimeOrder(os)
           first(i, j) == Precedes(os[j], os[i]) \/ (~Precedes(os[i], os[j]) /\ j < i)
<1>1. N \in Nat /\ DOMAIN os = 1..N /\ \A i \in 1..N : os[i] \in M
  BY LenProperties
<1>2. \A i \in 1..N : os[i].from \in Int /\ os[i].to \in Int
  BY <1>1 DEF SpanOfTurns
<1>3. P \in [1..N -> SUBSET (1..N)] /\ \A i \in 1..N : P[i] = {j \in 1..N : first(i, j)}
  BY <1>1 DEF Ahead
<1> HIDE DEF P, N
<1>4. \A i \in 1..N : i \notin P[i] /\ \A j \in P[i] : P[j] \subseteq P[i]
  <2> TAKE i \in 1..N
  <2>1. i \notin P[i]
    BY <1>1, <1>2, <1>3 DEF Precedes
  <2>2. ASSUME NEW j \in P[i], NEW k \in P[j] PROVE k \in P[i]
    <3>1. j \in 1..N /\ first(i, j)
      BY <1>3, Zenon
    <3>2. k \in 1..N /\ first(j, k)
      BY <1>3, <3>1, Zenon
    <3>3. first(i, k)
      BY <1>1, <1>2, <3>1, <3>2 DEF Precedes
    <3> QED BY <1>3, <3>2, <3>3, Zenon
  <2> QED BY <2>1, <2>2
<1>5. ASSUME NEW i \in 1..N, NEW j \in 1..N PROVE i = j \/ i \in P[j] \/ j \in P[i]
  <2>1. i = j \/ first(j, i) \/ first(i, j)
    BY <1>1, <1>2 DEF Precedes
  <2> QED BY <1>3, <2>1, Zenon
<1>6. \A k \in 0..(N - 1) : \E i \in 1..N : Cardinality(P[i]) = k
  BY <1>1, <1>3, <1>4, <1>5, OfRank
<1>7. ASSUME NEW k \in 1..N
      PROVE  os[CHOOSE i \in 1..N : Cardinality(Ahead(os, i)) = k - 1] \in M
  <2>1. k - 1 \in 0..(N - 1)
    BY <1>1
  <2>2. PICK i \in 1..N : Cardinality(P[i]) = k - 1
    BY <1>6, <2>1
  <2>3. Cardinality(Ahead(os, i)) = k - 1
    BY <2>2, Zenon DEF P
  <2>4. (CHOOSE x \in 1..N : Cardinality(Ahead(os, x)) = k - 1) \in 1..N
    BY <2>3, Zenon
  <2> QED BY <1>1, <2>4, Zenon
<1>8. t = [k \in 1..N |-> os[CHOOSE i \in 1..N : Cardinality(Ahead(os, i)) = k - 1]]
  BY <1>1 DEF InTimeOrder
<1> HIDE DEF t
<1>9. t \in [1..N -> M]
  BY <1>7, <1>8, Zenon
<1> QED BY <1>1, <1>9, IsSequence DEF t, N

\* Spans of one speaker with little between them, taken together, are such spans.
LEMMA CompactMet ==
    ASSUME NEW seg, seg.from \in Int, seg.to \in Int, NEW turns \in Seq(Turn),
           NEW os \in Seq(Met(seg, turns)), os # <<>>
    PROVE  Compact(os) \in Seq(Met(seg, turns)) /\ Compact(os) # <<>>
<1> DEFINE N == Len(os)
           M == Met(seg, turns)
           Q == Seq(M)
           step == [n \in 1..N |-> [out \in Q |-> Compacted(out, os[n])]]
           Is(g) == g = [n \in 0..N |-> IF n = 0 THEN <<>> ELSE Compacted(g[n - 1], os[n])]
           s == CHOOSE g : Is(g)
<1>1. N \in Nat /\ N \in 0..N /\ N \in 1..N /\ \A n \in 1..N : os[n] \in M
  BY LenProperties, EmptySeq
<1>2. ASSUME NEW out \in Q, NEW o \in M PROVE Compacted(out, o) \in Q /\ Compacted(out, o) # <<>>
  <2>1. CASE Continues(out, o)
    <3> DEFINE p == Last(out)
               q == Spanning(p, o)
    <3>1. out # <<>> /\ p.who = o.who
      BY <2>1 DEF Continues
    <3>2. Front(out) \in Seq(M) /\ p \in M
      <4>1. Len(out) \in 1..Len(out) /\ Len(out) \in Nat
        BY <3>1, EmptySeq
      <4>2. p \in M
        <5> HIDE DEF M
        <5> QED BY <4>1, ElementOfSeq DEF Last
      <4>3. \A i \in 1..(Len(out) - 1) : out[i] \in M
        <5>1. \A i \in 1..(Len(out) - 1) : i \in 1..Len(out)
          BY <4>1
        <5> HIDE DEF M
        <5> QED BY <5>1, ElementOfSeq
      <4>4. Front(out) \in Seq(M)
        <5> HIDE DEF M
        <5> QED BY <4>1, <4>3, SubSeqProperties DEF Front
      <4> QED BY <4>2, <4>4
    <3> HIDE DEF p
    <3>3. /\ p \in SpanOfTurns /\ o \in SpanOfTurns
          /\ seg.from <= p.from /\ p.to <= seg.to /\ o.to <= seg.to /\ Hears(p, turns)
      BY <3>2 DEF Met
    <3>4. /\ q.who = p.who /\ q.from = p.from /\ q.to = Later(p.to, o.to)
          /\ q \in SpanOfTurns
      <4>1. q = [p EXCEPT !.to = Later(p.to, o.to), !.heard = p.heard + o.heard]
        BY DEF Spanning
      <4>2. p.heard + o.heard \in Weights /\ Later(p.to, o.to) \in Int
        BY <3>3 DEF SpanOfTurns, Weights, Later
      <4> HIDE DEF q
      <4> QED BY <3>3, <4>1, <4>2 DEF SpanOfTurns
    <3>5. q.to \in Int /\ p.to <= q.to /\ q.to <= seg.to /\ p.to \in Int /\ p.from \in Int
      BY <3>3, <3>4 DEF SpanOfTurns, Later
    <3> HIDE DEF q
    <3>6. Hears(q, turns)
      <4>1. q.from \in Int /\ q.from <= p.from
        BY <3>4, <3>5
      <4> QED BY <3>3, <3>4, <3>5, <4>1, HeardWithin
    <3>7. q \in M
      BY <3>3, <3>4, <3>5, <3>6 DEF Met
    <3>8. Compacted(out, o) = Append(Front(out), q)
      BY <2>1 DEF Compacted, q, p
    <3> HIDE DEF M
    <3> QED BY <3>2, <3>7, <3>8, AppendProperties
  <2>2. CASE ~Continues(out, o)
    <3>1. Compacted(out, o) = Append(out, o)
      BY <2>2 DEF Compacted
    <3> HIDE DEF M
    <3> QED BY <3>1, AppendProperties
  <2> QED BY <2>1, <2>2
<1>3. <<>> \in Q
  BY EmptySeq
<1> HIDE DEF Q, N, M
<1>4. /\ step \in [1..N -> [Q -> Q]]
      /\ \A n \in 1..N : \A out \in Q : step[n][out] = Compacted(out, os[n])
  BY <1>1, <1>2, Zenon
<1> HIDE DEF step
<1>5. PICK g \in [0..N -> Q] : Unrolls(g, N, <<>>, step)
  BY <1>1, <1>3, <1>4, Recursion
<1>6. Is(g)
  <2>1. ASSUME NEW n \in 1..N PROVE g[n] = Compacted(g[n - 1], os[n])
    <3>1. n - 1 \in 0..N
      BY <1>1
    <3>2. g[n - 1] \in Q
      BY <3>1
    <3> QED BY <1>4, <1>5, <3>2, Zenon DEF Unrolls
  <2> QED BY <1>1, <1>5, <2>1 DEF Unrolls
<1>7. Is(s)
  <2> HIDE DEF Is
  <2> QED BY <1>6, Zenon
<1>8. Compact(os) = s[N]
  BY DEF Compact, N
<1> HIDE DEF s
<1>9. \A n \in 0..N : s[n] = IF n = 0 THEN <<>> ELSE Compacted(s[n - 1], os[n])
  BY <1>7, Zenon
<1>10. s = [n \in 0..N |-> s[n]]
  BY <1>7
<1> HIDE DEF Is
<1>11. Stays(s, N, Q)
  <2>1. s[0] \in Q
    BY <1>1, <1>3, <1>9
  <2>2. ASSUME NEW n \in 1..N, s[n - 1] \in Q PROVE s[n] \in Q
    <3>1. s[n] = Compacted(s[n - 1], os[n])
      BY <1>1, <1>9
    <3> QED BY <1>1, <1>2, <2>2, <3>1
  <2> QED BY <1>10, <2>1, <2>2, Zenon DEF Stays
<1>12. s \in [0..N -> Q]
  BY <1>1, <1>11, StaysIn
<1>13. s[N] \in Q /\ s[N] # <<>>
  <2>1. N - 1 \in 0..N /\ s[N] = Compacted(s[N - 1], os[N])
    BY <1>1, <1>9
  <2>2. s[N - 1] \in Q
    BY <1>12, <2>1
  <2> QED BY <1>1, <1>2, <2>1, <2>2
<1> QED BY <1>8, <1>13 DEF Q, M

\* The best speaker is one of those who were heard.
LEMMA BestIsHeard ==
    ASSUME NEW os \in Seq(SpanOfTurns), os # <<>>
    PROVE  \E i \in DOMAIN os : os[i].who = BestSpeaker(os)
<1> DEFINE N == Len(os)
           h == [i \in 1..N |-> HeardFor(os, os[i].who)]
           best == CHOOSE i \in DOMAIN os :
                      /\ \A j \in DOMAIN os : HeardFor(os, os[j].who) <= HeardFor(os, os[i].who)
                      /\ \A j \in 1..(i - 1) : HeardFor(os, os[j].who) < HeardFor(os, os[i].who)
<1>1. N \in Nat \ {0} /\ DOMAIN os = 1..N /\ \A i \in 1..N : os[i] \in SpanOfTurns
  BY LenProperties, EmptySeq
<1>2. ASSUME NEW who PROVE HeardFor(os, who) \in Int
  <2> DEFINE ns == [i \in 1..N |-> IF os[i].who = who THEN os[i].heard ELSE 0]
  <2>1. \A i \in 1..N : (IF os[i].who = who THEN os[i].heard ELSE 0) \in Int
    BY <1>1 DEF SpanOfTurns, Weights
  <2>2. ns \in [1..N -> Int] /\ N \in Nat
    BY <1>1, <2>1
  <2>3. HeardFor(os, who) = Total(ns)
    BY <1>1 DEF HeardFor
  <2> HIDE DEF ns, N
  <2>4. ns \in Seq(Int)
    BY <2>2, IsSequence
  <2> QED BY <2>3, <2>4, TotalInt
<1>3. h \in [1..N -> Int] /\ \A i \in 1..N : h[i] = HeardFor(os, os[i].who)
  BY <1>2, Zenon
<1> HIDE DEF h
<1>4. PICK i \in 1..N : (\A j \in 1..N : h[j] <= h[i]) /\ (\A j \in 1..(i - 1) : h[j] < h[i])
  BY <1>1, <1>3, FirstLargest
<1>5. /\ \A j \in DOMAIN os : HeardFor(os, os[j].who) <= HeardFor(os, os[i].who)
      /\ \A j \in 1..(i - 1) : HeardFor(os, os[j].who) < HeardFor(os, os[i].who)
  <2>1. \A j \in 1..(i - 1) : j \in 1..N
    BY <1>1
  <2> HIDE DEF N
  <2> QED BY <1>1, <1>3, <1>4, <2>1, Zenon
<1>6. best \in DOMAIN os
  <2> HIDE DEF N
  <2> QED BY <1>1, <1>5, Zenon
<1>7. BestSpeaker(os) = os[best].who
  BY Zenon DEF BestSpeaker
<1> HIDE DEF best
<1> QED BY <1>6, <1>7

\* What may become of a segment: it goes on with its own speaker, from where it began, or
\* parts of it with one that is heard.
Given(seg, turns) ==
    {s \in Speech : /\ seg.from <= s.from
                    /\ \/ s.by = "transcript" /\ s.from = seg.from
                       \/ s.by = "diarization" /\ Hears(s, turns)}

\* Changing one thing of a segment leaves a segment.
LEMMA OneChanged ==
    ASSUME NEW seg \in Speech, NEW id \in Nat, NEW from \in Int, NEW to \in Int,
           NEW who \in STRING, NEW words \in Seq(Vocabulary), NEW by \in Origins
    PROVE  /\ [seg EXCEPT !.id = id] \in Speech /\ [seg EXCEPT !.from = from] \in Speech
           /\ [seg EXCEPT !.to = to] \in Speech /\ [seg EXCEPT !.who = who] \in Speech
           /\ [seg EXCEPT !.words = words] \in Speech /\ [seg EXCEPT !.by = by] \in Speech
<1> DEFINE V == Seq(Vocabulary)
           R == [id : Nat, from : Int, to : Int, who : STRING, words : V, by : Origins]
<1>1. seg \in R /\ words \in V /\ Speech = R
  BY DEF Speech
<1> HIDE DEF V
<1>2. [seg EXCEPT !.id = id] \in R
  BY <1>1
<1>3. [seg EXCEPT !.from = from] \in R
  BY <1>1
<1>4. [seg EXCEPT !.to = to] \in R
  BY <1>1
<1>5. [seg EXCEPT !.who = who] \in R
  BY <1>1
<1>6. [seg EXCEPT !.words = words] \in R
  BY <1>1
<1>7. [seg EXCEPT !.by = by] \in R
  BY <1>1
<1> HIDE DEF R
<1> QED BY <1>1, <1>2, <1>3, <1>4, <1>5, <1>6, <1>7, Zenon

\* The fields of a segment.
LEMMA SegmentFields ==
    ASSUME NEW seg \in Speech
    PROVE  /\ seg.id \in Nat /\ seg.from \in Int /\ seg.to \in Int /\ seg.who \in STRING
           /\ seg.words \in Seq(Vocabulary) /\ seg.by \in Origins
BY DEF Speech

\* What is cut from a segment for a span.
CutFor(seg, span, piece) ==
    [seg EXCEPT !.who = span.who, !.by = "diarization", !.from = span.from,
                !.to = span.to, !.words = piece]

\* It lasts as long as the span and has its speaker and the words of the piece.
LEMMA CutForSpan ==
    ASSUME NEW seg \in Speech, NEW span \in SpanOfTurns, NEW piece \in Seq(Vocabulary)
    PROVE  LET p == CutFor(seg, span, piece)
           IN  /\ p \in Speech /\ p.from = span.from /\ p.to = span.to /\ p.who = span.who
               /\ p.words = piece /\ p.by = "diarization"
<1> DEFINE from == span.from  to == span.to  who == span.who  by == "diarization"
           p == CutFor(seg, span, piece)
           p1 == [seg EXCEPT !.who = who]
           p2 == [p1 EXCEPT !.by = by]
           p3 == [p2 EXCEPT !.from = from]
           p4 == [p3 EXCEPT !.to = to]
           p5 == [p4 EXCEPT !.words = piece]
<1>1. from \in Int /\ to \in Int /\ who \in STRING
  BY DEF SpanOfTurns
<1>2. by \in Origins
  BY DEF Origins
<1>3. p = p5
  BY DEF CutFor
<1>4. p.from = from /\ p.to = to /\ p.who = who /\ p.words = piece /\ p.by = by
  BY DEF Speech, CutFor
<1> HIDE DEF from, to, who, by, p
<1>5. seg.id \in Nat /\ seg.words \in Seq(Vocabulary)
  BY SegmentFields
<1>6. p1 \in Speech
  BY <1>1, <1>2, <1>5, OneChanged
<1> HIDE DEF p1
<1>7. p2 \in Speech
  BY <1>1, <1>2, <1>5, <1>6, OneChanged
<1> HIDE DEF p2
<1>8. p3 \in Speech
  BY <1>1, <1>2, <1>5, <1>7, OneChanged
<1> HIDE DEF p3
<1>9. p4 \in Speech
  BY <1>1, <1>2, <1>5, <1>8, OneChanged
<1> HIDE DEF p4
<1>10. p5 \in Speech
  BY <1>1, <1>2, <1>5, <1>9, OneChanged
<1> QED BY <1>3, <1>4, <1>10 DEF p, from, to, who, by

\* A part is given to who was heard in it, and has the words of its piece.
LEMMA PartGiven ==
    ASSUME NEW seg \in Speech, NEW turns \in Seq(Turn), NEW span \in Met(seg, turns),
           NEW piece \in Seq(Vocabulary)
    PROVE  /\ Part(seg, span, piece) \in Seq(Given(seg, turns))
           /\ WordsOf(Part(seg, span, piece)) = piece
<1> DEFINE p == CutFor(seg, span, piece)
<1>1. CASE piece = <<>>
  BY <1>1, EmptySeq, WordsOfNone DEF Part
<1>2. CASE piece # <<>>
  <2>1. span \in SpanOfTurns /\ seg.from <= span.from /\ Hears(span, turns)
    BY DEF Met
  <2>2. /\ p \in Speech /\ p.from = span.from /\ p.to = span.to /\ p.who = span.who
        /\ p.by = "diarization" /\ p.words = piece
    BY <2>1, CutForSpan
  <2>3. Part(seg, span, piece) = <<p>>
    BY <1>2 DEF Part, CutFor
  <2> HIDE DEF p
  <2>4. Hears(p, turns)
    <3>1. /\ span.from \in Int /\ span.to \in Int /\ p.from \in Int /\ p.to \in Int
          /\ p.from <= span.from /\ span.to <= p.to
      BY <2>1, <2>2 DEF SpanOfTurns
    <3> QED BY <2>1, <2>2, <3>1, HeardWithin
  <2>5. p \in Given(seg, turns)
    BY <2>1, <2>2, <2>4 DEF Given
  <2>6. WordsOf(<<p>>) = piece
    BY <2>2, WordsOfOne
  <2>7. <<p>> \in Seq(Given(seg, turns))
    BY <2>5
  <2> QED BY <2>3, <2>6, <2>7
<1> QED BY <1>1, <1>2

\* Cutting a segment loses no word of it, and its parts have speakers that are heard.
LEMMA SplitGiven ==
    ASSUME NEW seg \in Speech, NEW turns \in Seq(Turn),
           NEW spans \in Seq(Met(seg, turns)), spans # <<>>
    PROVE  /\ Split(seg, spans) \in Seq(Given(seg, turns))
           /\ WordsOf(Split(seg, spans)) = seg.words
<1> DEFINE N == Len(spans)
           M == Met(seg, turns)
           G == Given(seg, turns)
           w == [i \in 1..N |-> spans[i].heard]
           p == Pieces(seg.words, w)
           ss == [i \in 1..N |-> Part(seg, spans[i], p[i])]
<1>1. N \in Nat /\ N > 0 /\ DOMAIN spans = 1..N /\ \A i \in 1..N : spans[i] \in M
  BY LenProperties, EmptySeq
<1>2. Split(seg, spans) = FlattenSeq(ss)
  BY <1>1 DEF Split
<1>3. w \in [1..N -> Weights]
  BY <1>1 DEF Met, SpanOfTurns
<1>4. w \in Seq(Weights) /\ Len(w) = N /\ w # <<>>
  <2> HIDE DEF w, N
  <2>1. w \in Seq(Weights) /\ Len(w) = N
    BY <1>1, <1>3, IsSequence
  <2> QED BY <1>1, <2>1, EmptySeq
<1>5. seg.words \in Seq(Vocabulary)
  BY DEF Speech
<1> HIDE DEF w
<1>6. p \in Seq(Seq(Vocabulary)) /\ Len(p) = N /\ FlattenSeq(p) = seg.words
  BY <1>4, <1>5, PiecesWhole
<1> HIDE DEF p, N, M, G
<1>7. \A i \in 1..N : p[i] \in Seq(Vocabulary)
  BY <1>6, ElementOfSeq
<1>8. ASSUME NEW i \in 1..N
      PROVE  Part(seg, spans[i], p[i]) \in Seq(G) /\ WordsOf(Part(seg, spans[i], p[i])) = p[i]
  <2> DEFINE x == spans[i]  y == p[i]
  <2>1. x \in M /\ y \in Seq(Vocabulary)
    BY <1>1, <1>7
  <2> HIDE DEF x, y
  <2>2. Part(seg, x, y) \in Seq(G) /\ WordsOf(Part(seg, x, y)) = y
    BY <2>1, PartGiven DEF M, G
  <2> QED BY <2>2 DEF x, y
<1>9. ss \in [1..N -> Seq(G)] /\ \A i \in 1..N : ss[i] = Part(seg, spans[i], p[i])
  BY <1>8, Zenon
<1> HIDE DEF ss
<1>10. ss \in Seq(Seq(G)) /\ Len(ss) = N
  BY <1>1, <1>9, IsSequence
<1>11. ss \in Seq(Seq(Speech))
  <2>1. G \subseteq Speech
    BY DEF G, Given
  <2>2. Seq(G) \subseteq Seq(Speech)
    BY <2>1, SeqMonotonic
  <2> HIDE DEF G
  <2> QED BY <1>10, <2>2, SeqMonotonic
<1>12. WordsOf(FlattenSeq(ss)) = FlattenSeq(p)
  BY <1>6, <1>8, <1>9, <1>10, <1>11, WordsOfFlat
<1>13. FlattenSeq(ss) \in Seq(G)
  BY <1>10, FlattenTyped
<1> QED BY <1>2, <1>6, <1>12, <1>13 DEF G

\* Only the speaker of a segment and where he is known from are changed.
LEMMA AsSaid ==
    ASSUME NEW seg \in Speech, NEW who \in STRING, NEW by \in Origins, NEW s, s = As(seg, who, by)
    PROVE  /\ s \in Speech /\ s.who = who /\ s.by = by
           /\ s.from = seg.from /\ s.to = seg.to /\ s.words = seg.words
<1> DEFINE p1 == [seg EXCEPT !.who = who]
           p2 == [p1 EXCEPT !.by = by]
<1>1. s = p2
  BY DEF As
<1>2. p1 \in Speech
  BY SegmentFields, OneChanged
<1>3. p1.who = who /\ p1.from = seg.from /\ p1.to = seg.to /\ p1.words = seg.words
  BY DEF Speech
<1> HIDE DEF p1
<1>4. p2 \in Speech
  BY <1>2, SegmentFields, OneChanged
<1>5. /\ p2.who = p1.who /\ p2.from = p1.from /\ p2.to = p1.to /\ p2.words = p1.words
      /\ p2.by = by
  BY <1>2 DEF Speech
<1> HIDE DEF p2
<1> QED BY <1>1, <1>3, <1>4, <1>5

\* Giving speakers to a segment keeps its words and gives them who was heard (align.py:103).
LEMMA AlignOneGiven ==
    ASSUME NEW seg \in Speech, NEW turns \in Seq(Turn)
    PROVE  /\ AlignOne(seg, turns) \in Seq(Given(seg, turns))
           /\ WordsOf(AlignOne(seg, turns)) = seg.words
<1> DEFINE os == Overlaps(seg, turns)
           M == Met(seg, turns)
           G == Given(seg, turns)
           a == AlignOne(seg, turns)
<1> SUFFICES a \in Seq(G) /\ WordsOf(a) = seg.words
  OBVIOUS
<1>1. os \in Seq(M) /\ seg.from \in Int /\ seg.to \in Int /\ seg.words \in Seq(Vocabulary)
  BY OverlapsMet DEF Speech
<1>2. M \subseteq SpanOfTurns
  BY DEF Met
<1>3. ASSUME NEW s \in G, s.words = seg.words, a = <<s>>
      PROVE  a \in Seq(G) /\ WordsOf(a) = seg.words
  <2>1. s \in Speech
    BY DEF Given
  <2>2. <<s>> \in Seq(G)
    <3> HIDE DEF G
    <3> QED OBVIOUS
  <2>3. WordsOf(<<s>>) = seg.words
    BY <1>3, <2>1, WordsOfOne
  <2> HIDE DEF a, G
  <2> QED BY <1>3, <2>2, <2>3
<1>4. CASE a = <<As(seg, seg.who, "transcript")>>
  <2> DEFINE s == As(seg, seg.who, "transcript")
  <2>1. /\ s \in Speech /\ s.by = "transcript" /\ s.from = seg.from /\ s.words = seg.words
    <3>1. "transcript" \in Origins
      BY DEF Origins
    <3> DEFINE who == seg.who
    <3>2. s = As(seg, who, "transcript")
      BY Zenon
    <3>3. who \in STRING
      BY SegmentFields
    <3> HIDE DEF s, who
    <3> QED BY <3>1, <3>2, <3>3, AsSaid
  <2>2. a = <<s>>
    BY <1>4
  <2> HIDE DEF s
  <2>3. s \in G
    BY <1>1, <2>1 DEF Given
  <2> HIDE DEF G, a
  <2> QED BY <1>3, <2>1, <2>2, <2>3
<1>5. CASE os # <<>> /\ a = <<As(seg, BestSpeaker(os), "diarization")>>
  <2> DEFINE who == BestSpeaker(os)
             s == As(seg, who, "diarization")
  <2>1. os \in Seq(SpanOfTurns)
    BY <1>1, <1>2, SeqMonotonic
  <2> HIDE DEF os
  <2>2. PICK i \in DOMAIN os : os[i].who = who
    BY <1>5, <2>1, BestIsHeard
  <2>3. os[i] \in M
    <3> HIDE DEF M
    <3> QED BY <1>1, LenProperties
  <2> DEFINE o == os[i]
  <2>4. /\ o.who = who /\ o.from \in Int /\ o.to \in Int /\ who \in STRING
        /\ seg.from <= o.from /\ o.to <= seg.to /\ Hears(o, turns)
    BY <2>2, <2>3 DEF Met, SpanOfTurns
  <2> HIDE DEF who, o
  <2>5. /\ s \in Speech /\ s.who = who /\ s.by = "diarization" /\ s.from = seg.from
        /\ s.to = seg.to /\ s.words = seg.words
    <3>1. "diarization" \in Origins
      BY DEF Origins
    <3>2. s = As(seg, who, "diarization")
      BY Zenon
    <3> HIDE DEF s
    <3> QED BY <2>4, <3>1, <3>2, AsSaid
  <2>6. a = <<s>>
    BY <1>5 DEF who
  <2> HIDE DEF s
  <2>7. Hears(s, turns)
    <3>1. s.from \in Int /\ s.to \in Int /\ s.from <= o.from /\ o.to <= s.to
      BY <1>1, <2>4, <2>5
    <3> QED BY <2>4, <2>5, <3>1, HeardWithin
  <2>8. s \in G
    BY <1>1, <2>5, <2>7 DEF Given
  <2> HIDE DEF G, a
  <2> QED BY <1>3, <2>5, <2>6, <2>8
<1>6. CASE os # <<>> /\ a = Split(seg, Compact(InTimeOrder(os)))
  <2> DEFINE t == InTimeOrder(os)
             spans == Compact(t)
  <2>1. t \in Seq(M) /\ t # <<>>
    <3> HIDE DEF os, M
    <3>1. t \in Seq(M) /\ Len(t) = Len(os)
      BY <1>1, <1>2, InTimeOrderTyped
    <3>2. Len(os) \in Nat \ {0}
      BY <1>1, <1>6, EmptySeq
    <3> QED BY <3>1, <3>2, EmptySeq
  <2> HIDE DEF t
  <2>2. spans \in Seq(M) /\ spans # <<>>
    BY <1>1, <2>1, CompactMet
  <2> HIDE DEF spans
  <2>3. Split(seg, spans) \in Seq(G) /\ WordsOf(Split(seg, spans)) = seg.words
    BY <2>2, SplitGiven
  <2>4. a = Split(seg, spans)
    BY <1>6, Zenon DEF spans, t
  <2> HIDE DEF a, G
  <2> QED BY <2>3, <2>4
<1>7. \/ a = <<As(seg, seg.who, "transcript")>>
      \/ os # <<>> /\ a = <<As(seg, BestSpeaker(os), "diarization")>>
      \/ os # <<>> /\ a = Split(seg, Compact(InTimeOrder(os)))
  BY Zenon DEF AlignOne
<1> QED BY <1>4, <1>5, <1>6, <1>7

-----------------------------------------------------------------------------
(* All segments of a transcript. *)

\* A segment that is given out keeps its speaker, or has one that is heard.
Kept(turns) == {s \in Speech : s.by = "diarization" => Hears(s, turns)}

\* What keeps its speaker begins before all that follows.
InOrder(out) == \A i, j \in 1..Len(out) :
                    i <= j /\ out[i].by # "diarization" => out[i].from <= out[j].from
NotBefore(out, from) == \A i \in 1..Len(out) : out[i].by # "diarization" => out[i].from <= from

\* What begins no earlier can be put behind what is in order.
LEMMA InOrderBoth ==
    ASSUME NEW x \in Seq(Speech), NEW y \in Seq(Speech), NEW from \in Int,
           InOrder(x), NotBefore(x, from),
           \A i \in 1..Len(y) : from <= y[i].from /\ (y[i].by # "diarization" => y[i].from = from)
    PROVE  InOrder(x \o y) /\ NotBefore(x \o y, from)
<1> DEFINE L == Len(x)
           M == Len(y)
           xy == x \o y
<1>1. /\ L \in Nat /\ M \in Nat /\ xy \in Seq(Speech) /\ Len(xy) = L + M
      /\ \A i \in 1..(L + M) : xy[i] = IF i <= L THEN x[i] ELSE y[i - L]
  BY ConcatProperties, LenProperties
<1>2. (\A i \in 1..L : x[i].from \in Int) /\ (\A i \in 1..M : y[i].from \in Int)
  <2>1. (\A i \in 1..L : x[i] \in Speech) /\ (\A i \in 1..M : y[i] \in Speech)
    BY ElementOfSeq
  <2> QED BY <2>1, SegmentFields
<1>3. /\ \A i, j \in 1..L : i <= j /\ x[i].by # "diarization" => x[i].from <= x[j].from
      /\ \A i \in 1..L : x[i].by # "diarization" => x[i].from <= from
      /\ \A i \in 1..M : from <= y[i].from /\ (y[i].by # "diarization" => y[i].from = from)
  BY DEF InOrder, NotBefore
<1> HIDE DEF L, M, xy
<1>4. ASSUME NEW i \in 1..(L + M)
      PROVE  \/ i \in 1..L /\ xy[i] = x[i]
             \/ i - L \in 1..M /\ i > L /\ xy[i] = y[i - L]
  BY <1>1
<1>5. NotBefore(xy, from)
  <2> SUFFICES ASSUME NEW i \in 1..(L + M), xy[i].by # "diarization" PROVE xy[i].from <= from
    BY <1>1 DEF NotBefore
  <2>1. CASE i \in 1..L /\ xy[i] = x[i]
    BY <1>3, <2>1
  <2>2. CASE i - L \in 1..M /\ xy[i] = y[i - L]
    <3> DEFINE k == i - L
    <3>1. k \in 1..M /\ y[k].by # "diarization" /\ xy[i] = y[k]
      BY <2>2
    <3> HIDE DEF k
    <3> QED BY <1>2, <1>3, <3>1
  <2> QED BY <1>4, <2>1, <2>2
<1>6. InOrder(xy)
  <2> SUFFICES ASSUME NEW i \in 1..(L + M), NEW j \in 1..(L + M), i <= j, xy[i].by # "diarization"
               PROVE  xy[i].from <= xy[j].from
    BY <1>1 DEF InOrder
  <2>1. CASE j \in 1..L /\ xy[j] = x[j]
    <3>1. i \in 1..L /\ xy[i] = x[i]
      BY <1>1, <1>4, <2>1
    <3> QED BY <1>3, <2>1, <3>1
  <2>2. CASE j - L \in 1..M /\ xy[j] = y[j - L]
    <3> DEFINE k == j - L
    <3>1. k \in 1..M /\ xy[j] = y[k]
      BY <2>2
    <3> HIDE DEF k
    <3>2. from <= xy[j].from /\ xy[j].from \in Int
      BY <1>2, <1>3, <3>1
    <3>3. xy[i].from \in Int
      <4>1. CASE i \in 1..L /\ xy[i] = x[i]
        BY <1>2, <4>1
      <4>2. CASE i - L \in 1..M /\ xy[i] = y[i - L]
        BY <1>2, <4>2
      <4> QED BY <1>4, <4>1, <4>2
    <3>4. xy[i].from <= from
      BY <1>1, <1>5 DEF NotBefore
    <3> QED BY <3>2, <3>3, <3>4
  <2> QED BY <1>4, <2>1, <2>2
<1> QED BY <1>5, <1>6 DEF xy

\* The parts of all segments: in order, with all their words, and speakers that were heard.
LEMMA SharedKept ==
    ASSUME NEW segs \in Seq(Speech), NEW turns \in Seq(Turn),
           \A i \in 1..Len(segs) : \A j \in 1..i : segs[j].from <= segs[i].from
    PROVE  /\ Shared(segs, turns) \in Seq(Kept(turns))
           /\ WordsOf(Shared(segs, turns)) = WordsOf(segs)
           /\ InOrder(Shared(segs, turns))
<1> DEFINE N == Len(segs)
           K == Kept(turns)
           ss == [i \in 1..N |-> AlignOne(segs[i], turns)]
           out == Shared(segs, turns)
<1>1. /\ N \in Nat /\ DOMAIN segs = 1..N /\ \A i \in 1..N : segs[i] \in Speech
      /\ \A i \in 1..N : segs[i].from \in Int
  <2>1. N \in Nat /\ DOMAIN segs = 1..N /\ \A i \in 1..N : segs[i] \in Speech
    BY LenProperties
  <2> QED BY <2>1, SegmentFields
<1>2. out = FlattenSeq(ss)
  BY <1>1 DEF Shared
<1>3. ASSUME NEW seg \in Speech PROVE Given(seg, turns) \subseteq K /\ K \subseteq Speech
  BY DEF Given, Kept
<1>4. ASSUME NEW i \in 1..N
      PROVE  /\ AlignOne(segs[i], turns) \in Seq(Given(segs[i], turns))
             /\ AlignOne(segs[i], turns) \in Seq(K)
             /\ WordsOf(AlignOne(segs[i], turns)) = segs[i].words
  <2> DEFINE seg == segs[i]
  <2>1. seg \in Speech
    BY <1>1
  <2> HIDE DEF seg, K
  <2>2. AlignOne(seg, turns) \in Seq(Given(seg, turns)) /\ WordsOf(AlignOne(seg, turns)) = seg.words
    BY <2>1, AlignOneGiven
  <2>3. AlignOne(seg, turns) \in Seq(K)
    BY <1>3, <2>1, <2>2, SeqMonotonic
  <2> QED BY <2>2, <2>3 DEF seg
<1> HIDE DEF K, N
<1>5. ss \in [1..N -> Seq(K)] /\ \A i \in 1..N : ss[i] = AlignOne(segs[i], turns)
  BY <1>4, Zenon
<1> HIDE DEF ss, out
<1>6. ss \in Seq(Seq(K)) /\ Len(ss) = N
  BY <1>1, <1>5, IsSequence
<1>7. ss \in Seq(Seq(Speech))
  <2>1. \A x \in Seq(K) : x \in Seq(Speech)
    <3>1. K \subseteq Speech
      BY DEF K, Kept
    <3> QED BY <3>1, SeqMonotonic
  <2>2. Seq(K) \subseteq Seq(Speech)
    BY <2>1
  <2> QED BY <1>6, <2>2, SeqMonotonic
<1>8. out \in Seq(K)
  BY <1>2, <1>6, FlattenTyped
<1>9. WordsOf(out) = WordsOf(segs)
  <2> DEFINE ws == WordLists(segs)
  <2>1. /\ ws \in Seq(Seq(Vocabulary)) /\ Len(ws) = N /\ \A i \in 1..N : ws[i] = segs[i].words
        /\ WordsOf(segs) = FlattenSeq(ws)
    BY WordListsTyped DEF N
  <2> HIDE DEF ws
  <2>2. \A i \in 1..Len(ss) : ws[i] = WordsOf(ss[i])
    BY <1>4, <1>5, <1>6, <2>1, Zenon
  <2>3. WordsOf(FlattenSeq(ss)) = FlattenSeq(ws)
    BY <1>6, <1>7, <2>1, <2>2, WordsOfFlat
  <2> QED BY <1>2, <2>1, <2>3
<1>10. PICK g \in [0..N -> Seq(Speech)] : Flattens(g, ss) /\ FlattenSeq(ss) = g[N]
  BY <1>6, <1>7, FlattenRuns
<1>11. InOrder(out)
  <2> DEFINE T == {k \in 0..N : /\ InOrder(g[k])
                              /\ \A m \in 1..N : m >= k => NotBefore(g[k], segs[m].from)}
  <2>1. 0 \in T
    <3>1. g[0] = <<>> /\ Len(<<>>) = 0
      BY <1>10 DEF Flattens
    <3> QED BY <1>1, <3>1 DEF InOrder, NotBefore
  <2>2. ASSUME NEW k \in 1..N, k - 1 \in T PROVE k \in T
    <3> DEFINE x == g[k - 1]  y == ss[k]  seg == segs[k]  from == seg.from
    <3>1. k - 1 \in 0..N /\ k \in 0..N /\ k >= k - 1 /\ k \in Nat
      BY <1>1
    <3>2. g[k] = x \o y
      BY <1>6, <1>10, Zenon DEF Flattens
    <3>3. InOrder(x) /\ NotBefore(x, from)
      BY <2>2, <3>1
    <3>4. seg \in Speech /\ from \in Int
      BY <1>1
    <3>5. x \in Seq(Speech)
      BY <3>1
    <3>6. y \in Seq(Given(seg, turns))
      BY <1>4, <1>5
    <3> HIDE DEF x, y, seg
    <3>7. y \in Seq(Speech)
      <4>1. Given(seg, turns) \subseteq Speech
        BY DEF Given
      <4> QED BY <3>6, <4>1, SeqMonotonic
    <3>8. \A i \in 1..Len(y) : from <= y[i].from /\ (y[i].by # "diarization" => y[i].from = from)
      <4> TAKE i \in 1..Len(y)
      <4>1. y[i] \in Given(seg, turns)
        BY <3>6, ElementOfSeq
      <4> QED BY <4>1 DEF Given
    <3> HIDE DEF from
    <3>9. InOrder(x \o y) /\ NotBefore(x \o y, from)
      BY <3>3, <3>4, <3>5, <3>7, <3>8, InOrderBoth
    <3>10. ASSUME NEW m \in 1..N, m >= k PROVE NotBefore(x \o y, segs[m].from)
      <4>1. from <= segs[m].from /\ segs[m].from \in Int
        <5>1. k \in 1..m
          BY <1>1, <3>10
        <5> QED BY <1>1, <5>1 DEF from, seg, N
      <4> DEFINE z == x \o y
      <4>2. z \in Seq(Speech)
        BY <3>5, <3>7, ConcatProperties
      <4>3. NotBefore(z, from)
        BY <3>9
      <4> HIDE DEF z
      <4>4. \A i \in 1..Len(z) : z[i].from \in Int
        BY <4>2, ElementOfSeq, SegmentFields
      <4>5. NotBefore(z, segs[m].from)
        BY <3>4, <4>1, <4>3, <4>4 DEF NotBefore
      <4> QED BY <4>5 DEF z
    <3> QED BY <3>1, <3>2, <3>9, <3>10
  <2> HIDE DEF T
  <2>3. N \in T
    <3>1. \A k \in 0..N : k \in T
      BY <1>1, <2>1, <2>2, UpTo
    <3> QED BY <1>1, <3>1
  <2> QED BY <1>2, <1>10, <2>3 DEF T
<1> QED BY <1>8, <1>9, <1>11 DEF K, out

\* What is not empty has a last element and those before it.
LEMMA FrontAndLast ==
    ASSUME NEW S, NEW out \in Seq(S), out # <<>>
    PROVE  /\ Front(out) \in Seq(S) /\ Last(out) \in S
           /\ out = Append(Front(out), Last(out))
<1>1. PICK f \in Seq(S), e \in S : out = Append(f, e)
  BY SequenceEmptyOrAppend
<1>2. /\ Len(f) \in Nat /\ Len(out) = Len(f) + 1 /\ out[Len(f) + 1] = e
      /\ \A i \in 1..Len(f) : out[i] = f[i]
  BY <1>1, AppendProperties, LenProperties
<1>3. Last(out) = e
  BY <1>2 DEF Last
<1>4. Front(out) = f
  <2> DEFINE g == SubSeq(out, 1, Len(out) - 1)
  <2>1. Len(out) - 1 = Len(f) /\ \A i \in 1..Len(f) : i \in 1..Len(out)
    BY <1>2
  <2>2. \A i \in 1..(Len(out) - 1) : out[i] \in S
    BY <2>1, ElementOfSeq
  <2>3. g \in Seq(S) /\ Len(g) = Len(f) /\ \A i \in 1..Len(f) : g[i] = out[i]
    <3> DEFINE m == Len(out) - 1
    <3>1. m \in Nat /\ m = Len(f)
      BY <1>2, <2>1
    <3> HIDE DEF m
    <3>2. /\ SubSeq(out, 1, m) \in Seq(S)
          /\ Len(SubSeq(out, 1, m)) = IF 1 <= m THEN m - 1 + 1 ELSE 0
          /\ \A i \in 1..(m - 1 + 1) : SubSeq(out, 1, m)[i] = out[1 + i - 1]
      BY <2>2, <3>1, SubSeqProperties DEF m
    <3>3. Len(SubSeq(out, 1, m)) = m /\ \A i \in 1..m : SubSeq(out, 1, m)[i] = out[i]
      BY <3>1, <3>2
    <3> QED BY <3>1, <3>2, <3>3 DEF m
  <2> HIDE DEF g
  <2>4. g = f
    BY <1>2, <2>3, SeqEqual
  <2> QED BY <2>4 DEF Front, g
<1> QED BY <1>1, <1>3, <1>4

\* What was appended last is last.
LEMMA AppendLast ==
    ASSUME NEW S, NEW out \in Seq(S), NEW s \in S
    PROVE  /\ Append(out, s) \in Seq(S) /\ Append(out, s) # <<>>
           /\ Last(Append(out, s)) = s
<1>1. /\ Append(out, s) \in Seq(S) /\ Append(out, s) # <<>>
      /\ Len(Append(out, s)) = Len(out) + 1 /\ Append(out, s)[Len(out) + 1] = s
  BY AppendProperties
<1> QED BY <1>1 DEF Last

\* A segment that is appended adds its words.
LEMMA WordsOfAppend ==
    ASSUME NEW out \in Seq(Speech), NEW s \in Speech
    PROVE  WordsOf(Append(out, s)) = WordsOf(out) \o s.words
<1>1. Append(out, s) = out \o <<s>> /\ <<s>> \in Seq(Speech)
  BY AppendIsConcat
<1>2. WordsOf(out \o <<s>>) = WordsOf(out) \o WordsOf(<<s>>)
  BY <1>1, WordsOfBoth
<1> QED BY <1>1, <1>2, WordsOfOne

\* Two segments joined have the words of both and last as long as both.
LEMMA JoinedSpeech ==
    ASSUME NEW a \in Speech, NEW b \in Speech
    PROVE  LET q == Joined(a, b)
           IN  /\ q \in Speech /\ q.who = a.who /\ q.from = a.from /\ q.to = Later(a.to, b.to)
               /\ q.words = a.words \o b.words
               /\ q.by = "diarization" <=> a.by = "diarization" \/ b.by = "diarization"
<1> DEFINE words == a.words \o b.words
           to == Later(a.to, b.to)
           by == IF "diarization" \in {a.by, b.by} THEN "diarization" ELSE a.by
           q == Joined(a, b)
           p1 == [a EXCEPT !.words = words]
           p2 == [p1 EXCEPT !.to = to]
           p3 == [p2 EXCEPT !.by = by]
<1>1. q = p3
  BY DEF Joined
<1>2. q.who = a.who /\ q.from = a.from /\ q.to = to /\ q.words = words /\ q.by = by
  BY DEF Speech, Joined
<1>3. /\ a.id \in Nat /\ a.from \in Int /\ a.to \in Int /\ a.who \in STRING
      /\ a.words \in Seq(Vocabulary) /\ a.by \in Origins
      /\ b.to \in Int /\ b.words \in Seq(Vocabulary)
  BY SegmentFields
<1>4. words \in Seq(Vocabulary)
  BY <1>3, ConcatProperties
<1>5. to \in Int
  BY <1>3 DEF Later
<1>6. by \in Origins
  BY <1>3 DEF Origins
<1>7. by = "diarization" <=> a.by = "diarization" \/ b.by = "diarization"
  OBVIOUS
<1> HIDE DEF words, to, by, q
<1>8. p1 \in Speech
  BY <1>3, <1>4, <1>5, <1>6, OneChanged
<1> HIDE DEF p1
<1>9. p2 \in Speech
  BY <1>3, <1>4, <1>5, <1>6, <1>8, OneChanged
<1> HIDE DEF p2
<1>10. p3 \in Speech
  BY <1>3, <1>4, <1>5, <1>6, <1>9, OneChanged
<1> HIDE DEF p3
<1>11. q \in Speech
  BY <1>1, <1>10
<1> QED BY <1>2, <1>7, <1>11 DEF q, to, words

\* Joining neighbours of one speaker loses no word, and the speaker is still heard.
LEMMA MergedKept ==
    ASSUME NEW turns \in Seq(Turn), NEW segs \in Seq(Kept(turns)), InOrder(segs)
    PROVE  Merged(segs) \in Seq(Kept(turns)) /\ WordsOf(Merged(segs)) = WordsOf(segs)
<1> DEFINE N == Len(segs)
           K == Kept(turns)
           Q == Seq(Speech)
           step == [n \in 1..N |-> [out \in Q |-> MergedWith(out, segs[n])]]
           Is(g) == g = [n \in 0..N |-> IF n = 0 THEN <<>> ELSE MergedWith(g[n - 1], segs[n])]
           s == CHOOSE g : Is(g)
<1>1. N \in Nat /\ N \in 0..N /\ \A n \in 1..N : segs[n] \in K /\ segs[n] \in Speech
  <2>1. N \in Nat /\ N \in 0..N /\ \A n \in 1..N : segs[n] \in K
    BY LenProperties
  <2> QED BY <2>1 DEF Kept
<1>2. segs \in Seq(Speech)
  <2>1. K \subseteq Speech
    BY DEF Kept
  <2> QED BY <2>1, SeqMonotonic
<1>3. ASSUME NEW out \in Q, NEW b \in Speech PROVE MergedWith(out, b) \in Q
  <2>1. CASE Continues(out, b)
    <3>1. out # <<>>
      BY <2>1 DEF Continues
    <3>2. Front(out) \in Q /\ Last(out) \in Speech
      BY <3>1, FrontAndLast
    <3>3. Joined(Last(out), b) \in Speech
      BY <3>2, JoinedSpeech
    <3> QED BY <2>1, <3>2, <3>3, AppendProperties DEF MergedWith
  <2>2. CASE ~Continues(out, b)
    BY <2>2, AppendProperties DEF MergedWith
  <2> QED BY <2>1, <2>2
<1>4. <<>> \in Q
  BY EmptySeq
<1> HIDE DEF Q, N, K
<1>5. /\ step \in [1..N -> [Q -> Q]]
      /\ \A n \in 1..N : \A out \in Q : step[n][out] = MergedWith(out, segs[n])
  BY <1>1, <1>3, Zenon
<1> HIDE DEF step
<1>6. PICK g \in [0..N -> Q] : Unrolls(g, N, <<>>, step)
  BY <1>1, <1>4, <1>5, Recursion
<1>7. Is(g)
  <2>1. ASSUME NEW n \in 1..N PROVE g[n] = MergedWith(g[n - 1], segs[n])
    <3>1. n - 1 \in 0..N
      BY <1>1
    <3>2. g[n - 1] \in Q
      BY <3>1
    <3> QED BY <1>5, <1>6, <3>2, Zenon DEF Unrolls
  <2> QED BY <1>1, <1>6, <2>1 DEF Unrolls
<1>8. Is(s)
  <2> HIDE DEF Is
  <2> QED BY <1>7, Zenon
<1>9. Merged(segs) = s[N]
  BY DEF Merged, N
<1> HIDE DEF s
<1>10. \A n \in 0..N : s[n] = IF n = 0 THEN <<>> ELSE MergedWith(s[n - 1], segs[n])
  BY <1>8, Zenon
<1> HIDE DEF Is
<1>11. PICK h \in [0..N -> Seq(Vocabulary)] :
          Flattens(h, WordLists(segs)) /\ FlattenSeq(WordLists(segs)) = h[N]
  <2> DEFINE l == WordLists(segs)
  <2>1. l \in Seq(Seq(Vocabulary)) /\ Len(l) = N
    BY <1>2, WordListsTyped DEF N
  <2> HIDE DEF l
  <2>2. \E f \in [0..Len(l) -> Seq(Vocabulary)] : Flattens(f, l) /\ FlattenSeq(l) = f[Len(l)]
    BY <2>1, FlattenRuns
  <2> QED BY <2>1, <2>2 DEF l
<1>12. WordsOf(segs) = h[N]
  BY <1>2, <1>11, WordListsTyped
<1>13. h[0] = <<>> /\ \A n \in 1..N : h[n] = h[n - 1] \o segs[n].words
  BY <1>2, <1>11, WordListsTyped DEF Flattens, N
<1>14. \A n \in 1..N : \A j \in 1..N :
          n <= j /\ segs[n].by # "diarization" => segs[n].from <= segs[j].from
  BY DEF InOrder, N
<1> DEFINE Fine(out, n) ==
              /\ out \in Seq(K) /\ WordsOf(out) = h[n]
              /\ out # <<>> /\ Last(out).by # "diarization" =>
                    \A j \in 1..N : j > n => Last(out).from <= segs[j].from
           T == {n \in 0..N : Fine(s[n], n)}
<1>15. 0 \in T
  <2>1. s[0] = <<>>
    <3>1. 0 \in 0..N
      BY <1>1
    <3> QED BY <1>10, <3>1, Zenon
  <2>2. <<>> \in Seq(K)
    BY EmptySeq
  <2> QED BY <1>1, <1>13, <2>1, <2>2, WordsOfNone
<1>16. ASSUME NEW n \in 1..N, n - 1 \in T PROVE n \in T
  <2> DEFINE out == s[n - 1]
             b == segs[n]
  <2>1. n - 1 \in 0..N /\ n \in 0..N /\ n \in Nat /\ n # 0
    BY <1>1
  <2>2. s[n] = MergedWith(out, b)
    BY <1>10, <2>1
  <2>3. out \in Seq(K) /\ WordsOf(out) = h[n - 1]
    BY <1>16
  <2>4. out # <<>> /\ Last(out).by # "diarization" => Last(out).from <= b.from /\
            \A j \in 1..N : j > n => Last(out).from <= segs[j].from
    <3>1. \A j \in 1..N : j > n => j > n - 1
      BY <2>1
    <3>2. n > n - 1
      BY <2>1
    <3> QED BY <1>16, <3>1, <3>2
  <2>5. b \in K /\ b \in Speech
    BY <1>1
  <2>6. b.by # "diarization" => \A j \in 1..N : j > n => b.from <= segs[j].from
    <3>1. \A j \in 1..N : j > n => n <= j
      BY <2>1
    <3> QED BY <1>14, <3>1
  <2>7. h[n] = h[n - 1] \o b.words
    BY <1>13
  <2>8. out \in Seq(Speech) /\ K \subseteq Speech
    <3>1. K \subseteq Speech
      BY DEF K, Kept
    <3> QED BY <2>3, <3>1, SeqMonotonic
  <2>9. h[n - 1] \in Seq(Vocabulary)
    BY <2>1
  <2> HIDE DEF out, b, T
  <2>10. Fine(MergedWith(out, b), n)
    <3>1. CASE Continues(out, b)
      <4> DEFINE a == Last(out)
                 f == Front(out)
                 q == Joined(a, b)
      <4>1. out # <<>> /\ a.who = b.who
        BY <3>1 DEF Continues
      <4>2. f \in Seq(K) /\ f \in Seq(Speech) /\ a \in K /\ a \in Speech /\ out = Append(f, a)
        BY <2>3, <2>8, <4>1, FrontAndLast
      <4>3. MergedWith(out, b) = Append(f, q)
        BY <3>1 DEF MergedWith
      <4> HIDE DEF a, f
      <4>4. /\ q \in Speech /\ q.who = a.who /\ q.from = a.from /\ q.to = Later(a.to, b.to)
            /\ q.words = a.words \o b.words
            /\ q.by = "diarization" <=> a.by = "diarization" \/ b.by = "diarization"
        BY <2>5, <4>2, JoinedSpeech
      <4> HIDE DEF q
      <4>5. /\ a.from \in Int /\ a.to \in Int /\ b.from \in Int /\ b.to \in Int
            /\ q.from \in Int /\ q.to \in Int /\ a.to <= q.to /\ b.to <= q.to
        <5>1. /\ a.from \in Int /\ a.to \in Int /\ b.from \in Int /\ b.to \in Int
              /\ q.from \in Int /\ q.to \in Int
          BY <2>5, <4>2, <4>4, SegmentFields
        <5> QED BY <4>4, <5>1 DEF Later
      <4>6. q \in K
        <5> SUFFICES ASSUME q.by = "diarization" PROVE Hears(q, turns)
          BY <4>4 DEF K, Kept
        <5>1. CASE a.by = "diarization"
          <6>1. Hears(a, turns)
            BY <4>2, <5>1 DEF K, Kept
          <6>2. q.from <= a.from
            BY <4>4, <4>5
          <6> QED BY <4>4, <4>5, <6>1, <6>2, HeardWithin
        <5>2. CASE a.by # "diarization" /\ b.by = "diarization"
          <6>1. Hears(b, turns)
            BY <2>5, <5>2 DEF K, Kept
          <6>2. q.from <= b.from /\ q.who = b.who
            BY <2>4, <4>1, <4>4, <5>2 DEF a
          <6> QED BY <4>5, <6>1, <6>2, HeardWithin
        <5> QED BY <4>4, <5>1, <5>2
      <4>7. Append(f, q) \in Seq(K) /\ Append(f, q) # <<>> /\ Last(Append(f, q)) = q
        BY <4>2, <4>6, AppendLast
      <4>8. WordsOf(Append(f, q)) = h[n]
        <5> DEFINE u == WordsOf(f)  v == a.words  w == b.words
        <5>1. u \in Seq(Vocabulary) /\ v \in Seq(Vocabulary) /\ w \in Seq(Vocabulary)
          BY <2>5, <4>2, WordListsTyped, SegmentFields
        <5>2. WordsOf(Append(f, q)) = u \o (v \o w)
          BY <4>2, <4>4, WordsOfAppend
        <5>3. WordsOf(out) = u \o v
          BY <4>2, WordsOfAppend
        <5>4. h[n] = (u \o v) \o w
          BY <2>3, <2>7, <5>3
        <5> HIDE DEF u, v, w
        <5>5. Associative(Vocabulary)
          BY ConcatIsAssociative
        <5>6. (u \o v) \o w = u \o (v \o w)
          BY <5>1, <5>5 DEF Associative
        <5> QED BY <5>2, <5>4, <5>6
      <4>9. q.by # "diarization" => \A j \in 1..N : j > n => q.from <= segs[j].from
        BY <2>4, <4>1, <4>4 DEF a
      <4> QED BY <4>3, <4>7, <4>8, <4>9
    <3>2. CASE ~Continues(out, b)
      <4>1. MergedWith(out, b) = Append(out, b)
        BY <3>2 DEF MergedWith
      <4>2. Append(out, b) \in Seq(K) /\ Append(out, b) # <<>> /\ Last(Append(out, b)) = b
        BY <2>3, <2>5, AppendLast
      <4>3. WordsOf(Append(out, b)) = h[n]
        BY <2>3, <2>5, <2>7, <2>8, WordsOfAppend
      <4> QED BY <2>6, <4>1, <4>2, <4>3
    <3> QED BY <3>1, <3>2
  <2> QED BY <2>1, <2>2, <2>10 DEF T
<1> HIDE DEF T
<1>17. N \in T
  <2>1. \A n \in 0..N : n \in T
    BY <1>1, <1>15, <1>16, UpTo
  <2> QED BY <1>1, <2>1
<1> QED BY <1>9, <1>12, <1>17 DEF T, K

\* Counting the ids again changes nothing else (align.py:102).
LEMMA RenumberedKept ==
    ASSUME NEW turns \in Seq(Turn), NEW segs \in Seq(Kept(turns)), NEW r, r = Renumbered(segs)
    PROVE  /\ r \in Seq(Speech) /\ WordsOf(r) = WordsOf(segs)
           /\ \A i \in DOMAIN r : /\ r[i].id = i - 1
                                  /\ r[i].by = "diarization" => Hears(r[i], turns)
<1> DEFINE N == Len(segs)
<1>1. /\ N \in Nat /\ DOMAIN segs = 1..N /\ \A i \in 1..N : segs[i] \in Kept(turns)
      /\ r = [i \in 1..N |-> [segs[i] EXCEPT !.id = i - 1]]
  BY LenProperties DEF Renumbered
<1> HIDE DEF N
<1>2. ASSUME NEW i \in 1..N
      PROVE  /\ r[i] \in Speech /\ r[i].id = i - 1 /\ r[i].words = segs[i].words
             /\ r[i].by = "diarization" => Hears(r[i], turns)
  <2> DEFINE s == segs[i]
             q == [s EXCEPT !.id = i - 1]
  <2>1. s \in Speech /\ (s.by = "diarization" => Hears(s, turns))
    BY <1>1 DEF Kept
  <2>2. r[i] = q
    BY <1>1, Zenon
  <2> HIDE DEF s
  <2>3. /\ q.id = i - 1 /\ q.words = s.words /\ q.by = s.by /\ q.who = s.who
        /\ q.from = s.from /\ q.to = s.to
    BY <2>1 DEF Speech
  <2>4. i - 1 \in Nat
    OBVIOUS
  <2>5. q \in Speech
    BY <2>1, <2>4, SegmentFields, OneChanged
  <2> HIDE DEF q
  <2>6. s.from \in Int /\ s.to \in Int
    BY <2>1, SegmentFields
  <2>7. s.by = "diarization" => Hears(q, turns)
    <3>1. q.from \in Int /\ q.to \in Int /\ q.from <= s.from /\ s.to <= q.to
      BY <2>3, <2>6
    <3> QED BY <2>1, <2>3, <2>6, <3>1, HeardWithin
  <2> QED BY <2>2, <2>3, <2>5, <2>7 DEF s
<1>3. r \in [1..N -> Speech]
  <2>1. r = [i \in 1..N |-> r[i]]
    BY <1>1
  <2> QED BY <1>2, <2>1, Zenon
<1>4. r \in Seq(Speech) /\ DOMAIN r = 1..N
  BY <1>1, <1>3, IsSequence
<1>5. WordLists(r) = WordLists(segs)
  <2>1. \A i \in 1..N : r[i].words = segs[i].words
    BY <1>2
  <2> QED BY <1>1, <1>4, <2>1, Zenon DEF WordLists
<1>6. WordsOf(r) = WordsOf(segs)
  BY <1>5, Zenon DEF WordsOf, WordLists
<1> QED BY <1>2, <1>4, <1>6

\* Segments that begin one after the other.
Rising(segs) ==
    segs \in Seq(Speech) /\ \A i \in 1..Len(segs) : \A j \in 1..i : segs[j].from <= segs[i].from

\* What giving speakers to the words makes of segments and turns.
LEMMA AlignedKeeps ==
    ASSUME NEW segs, Rising(segs), NEW turns \in Seq(Turn), NEW a, a = Aligned(segs, turns)
    PROVE  /\ a \in Seq(Speech) /\ WordsOf(a) = WordsOf(segs)
           /\ \A i \in DOMAIN a : /\ a[i].id = i - 1
                                  /\ a[i].by = "diarization" => Hears(a[i], turns)
<1> DEFINE s == Shared(segs, turns)
           m == Merged(s)
<1>1. s \in Seq(Kept(turns)) /\ WordsOf(s) = WordsOf(segs) /\ InOrder(s)
  BY SharedKept DEF Rising
<1> HIDE DEF s
<1>2. m \in Seq(Kept(turns)) /\ WordsOf(m) = WordsOf(s)
  BY <1>1, MergedKept
<1>3. a = Renumbered(m)
  BY DEF Aligned, m, s
<1> HIDE DEF m
<1> QED BY <1>1, <1>2, <1>3, RenumberedKept

-----------------------------------------------------------------------------
(* The run. *)

\* What may stand in the files of a run.
MayHear == Recordings \cup {StubText, <<>>}
\* What a stage leaves is there for the next, and a version is what a sound
\* transcript was made of.
AlignInv ==
    /\ AlignTypeOK
    /\ asr.segs \in MayHear /\ diar.segs \in Turns \cup {<<>>}
    /\ alignment.there => alignment.segs = Aligned(asr.segs, diar.segs)
    /\ substage \in {"diarize", "align"} => diarizes
    /\ substage \in {"transcribe", "diarize", "align"} \/ ~diarizes => ~alignment.there
    /\ substage \in {"emit", "emitted"} /\ diarizes => alignment.there
    /\ substage \notin {"transcribe", "failed"} /\ strict => asr.engine # "stub"
    /\ version.there => /\ substage = "emitted" /\ version.segs = Minted(Substrate)
                        /\ IntegrityErrors(Substrate) = {}

\* What a run hears is in order and numbered from 0.
LEMMA RecordingsRise ==
    ASSUME RecordingAssumption, NEW segs \in MayHear
    PROVE  Rising(segs) /\ \A i \in DOMAIN segs : segs[i].id = i - 1
<1>1. CASE segs = <<>>
  <2>1. <<>> \in Seq(Speech) /\ Len(<<>>) = 0 /\ DOMAIN <<>> = {}
    BY EmptySeq
  <2> QED BY <1>1, <2>1 DEF Rising
<1>2. CASE segs \in Recordings \cup {StubText}
  <2>1. /\ segs \in Seq(Speech)
        /\ \A i \in DOMAIN segs : segs[i].id = i - 1 /\ \A j \in 1..i : segs[j].from <= segs[i].from
    BY <1>2 DEF RecordingAssumption
  <2>2. DOMAIN segs = 1..Len(segs)
    BY <2>1, LenProperties
  <2> QED BY <2>1, <2>2 DEF Rising
<1> QED BY <1>1, <1>2 DEF MayHear

\* A run begins without files.
LEMMA AlignInvInit == ASSUME AlignInit PROVE AlignInv
<1>1. ~NoFile.there /\ NoFile.segs = <<>> /\ NoFile.there \in BOOLEAN
  BY DEF NoFile
<1> QED BY <1>1 DEF AlignInit, AlignInv, AlignTypeOK, Stages, MayHear

\* Every step of a run keeps the invariant.
LEMMA AlignInvStep ==
    ASSUME AlignInv, [AlignNext]_alignVars
    PROVE  AlignInv'
<1>1. ASSUME NEW e, NEW s, HasHeard(e, s), substage = "transcribe", s \in MayHear PROVE AlignInv'
  <2>1. asr'.segs = s /\ asr'.engine = e /\ asr'.there = TRUE
    BY <1>1 DEF HasHeard, File
  <2>2. UNCHANGED <<strict, diarizes, diar, alignment, report, version>>
    BY <1>1 DEF HasHeard
  <2>3. \/ substage' = "failed" /\ strict /\ e = "stub"
        \/ ~(strict /\ e = "stub") /\ diarizes /\ substage' = "diarize"
        \/ ~(strict /\ e = "stub") /\ ~diarizes /\ substage' = "emit"
    BY <1>1 DEF HasHeard, Rails, After, AlignInv, AlignTypeOK
  <2>4. ~alignment.there /\ ~version.there
    BY <1>1 DEF AlignInv
  <2> QED BY <1>1, <2>1, <2>2, <2>3, <2>4 DEF AlignInv, AlignTypeOK, Stages
<1>2. CASE Transcribe
  <2>1. \A s \in Recordings : s \in MayHear
    BY DEF MayHear
  <2>2. StubText \in MayHear /\ <<>> \in MayHear
    BY DEF MayHear
  <2> QED BY <1>1, <1>2, <2>1, <2>2 DEF Transcribe
<1>3. CASE Diarize
  <2>1. /\ substage = "diarize" /\ substage' = "align"
        /\ UNCHANGED <<strict, diarizes, asr, alignment, report, version>>
    BY <1>3 DEF Diarize
  <2>2. diar'.segs \in Turns \cup {<<>>} /\ diar'.there = TRUE
    BY <1>3 DEF Diarize, File
  <2> QED BY <2>1, <2>2 DEF AlignInv, AlignTypeOK, Stages
<1>4. CASE AlignTranscript
  <2>1. /\ substage = "align" /\ substage' = "emit"
        /\ UNCHANGED <<strict, diarizes, asr, diar, report, version>>
    BY <1>4 DEF AlignTranscript
  <2>2. alignment'.there = TRUE /\ alignment'.segs = Aligned(asr.segs, diar.segs)
    BY <1>4 DEF AlignTranscript, File
  <2>3. alignment'.segs = Aligned(asr'.segs, diar'.segs)
    BY <2>1, <2>2
  <2> QED BY <2>1, <2>2, <2>3 DEF AlignInv, AlignTypeOK, Stages
<1>5. CASE Emit
  <2>1. /\ substage = "emit" /\ substage' \in {"emitted", "failed"}
        /\ UNCHANGED <<strict, diarizes, asr, diar, alignment>>
    BY <1>5 DEF Emit
  <2>2. Substrate' = Substrate /\ IntegrityErrors(Substrate)' = IntegrityErrors(Substrate)
        /\ Minted(Substrate)' = Minted(Substrate)
    BY <2>1 DEF Substrate, IntegrityErrors, Minted
  <2>3. ~version.there
    BY <2>1 DEF AlignInv
  <2>4. version'.there => /\ substage' = "emitted" /\ version'.segs = Minted(Substrate)
                          /\ IntegrityErrors(Substrate) = {}
    BY <1>5, <2>3 DEF Emit
  <2> QED BY <2>1, <2>2, <2>4 DEF AlignInv, AlignTypeOK, Stages
<1>6. CASE UNCHANGED alignVars
  <2>1. UNCHANGED <<substage, strict, diarizes, asr, diar, alignment, version>>
    BY <1>6 DEF alignVars
  <2>2. Substrate' = Substrate /\ IntegrityErrors(Substrate)' = IntegrityErrors(Substrate)
        /\ Minted(Substrate)' = Minted(Substrate)
    BY <2>1 DEF Substrate, IntegrityErrors, Minted
  <2> QED BY <2>1, <2>2 DEF AlignInv, AlignTypeOK
<1> QED BY <1>2, <1>3, <1>4, <1>5, <1>6 DEF AlignNext

\* Where the invariant holds, a version is what was heard.
LEMMA AlignInvFaithful == ASSUME RecordingAssumption, AlignInv PROVE AlignmentFaithful
<1> DEFINE segs == asr.segs
           turns == diar.segs
           sub == Substrate
           v == version.segs
<1> SUFFICES ASSUME version.there PROVE AlignmentFaithful
  BY DEF AlignmentFaithful, WordsKept, IdsCanonical, SpeakersHeard, StrictNeverPlaceholder
<1>1. Rising(segs) /\ \A i \in DOMAIN segs : segs[i].id = i - 1
  <2>1. segs \in MayHear
    BY DEF AlignInv
  <2> HIDE DEF segs
  <2> QED BY <2>1, RecordingsRise
<1>2. turns \in Seq(Turn)
  <2>1. turns \in Turns \cup {<<>>}
    BY DEF AlignInv
  <2>2. <<>> \in Seq(Turn) /\ Turns \subseteq Seq(Turn)
    BY EmptySeq DEF RecordingAssumption, Turn
  <2> QED BY <2>1, <2>2
<1>3. /\ substage = "emitted" /\ v = Minted(sub) /\ IntegrityErrors(sub) = {}
      /\ diarizes => alignment.there
      /\ strict => asr.engine # "stub"
  BY DEF AlignInv
<1>4. /\ sub \in Seq(Speech) /\ WordsOf(sub) = WordsOf(segs)
      /\ \A i \in DOMAIN sub : sub[i].id = i - 1
      /\ diarizes => \A i \in DOMAIN sub : sub[i].by = "diarization" => Hears(sub[i], turns)
  <2>1. CASE alignment.there
    <3>1. sub = Aligned(segs, turns)
      BY <2>1 DEF Substrate, AlignInv
    <3> HIDE DEF sub, segs, turns
    <3> QED BY <1>1, <1>2, <3>1, AlignedKeeps
  <2>2. CASE ~alignment.there
    <3>1. sub = segs /\ ~diarizes
      BY <1>3, <2>2 DEF Substrate
    <3> HIDE DEF sub, segs, turns
    <3> QED BY <1>1, <3>1 DEF Rising
  <2> QED BY <2>1, <2>2
<1>5. /\ DOMAIN v = DOMAIN sub
      /\ \A i \in DOMAIN v : /\ v[i].words = sub[i].words /\ v[i].id = sub[i].id
                             /\ v[i].from = sub[i].from /\ v[i].to = sub[i].to
      /\ diarizes => v = sub
  <2>1. CASE diarizes
    BY <1>3, <2>1 DEF Minted
  <2>2. CASE ~diarizes
    <3>1. v = [i \in DOMAIN sub |-> [sub[i] EXCEPT !.who = Nobody]]
      BY <1>3, <2>2 DEF Minted
    <3> HIDE DEF sub, v
    <3>2. DOMAIN v = DOMAIN sub /\ \A i \in DOMAIN sub : v[i] = [sub[i] EXCEPT !.who = Nobody]
      BY <3>1, Zenon
    <3>3. \A i \in DOMAIN sub : sub[i] \in Speech
      BY <1>4, LenProperties
    <3>4. ASSUME NEW i \in DOMAIN sub
          PROVE  /\ v[i].words = sub[i].words /\ v[i].id = sub[i].id
                 /\ v[i].from = sub[i].from /\ v[i].to = sub[i].to
      <4>1. v[i] = [sub[i] EXCEPT !.who = Nobody] /\ sub[i] \in Speech
        BY <3>2, <3>3
      <4> QED BY <4>1 DEF Speech
    <3> QED BY <2>2, <3>2, <3>4
  <2> QED BY <2>1, <2>2
<1> HIDE DEF sub, v, segs, turns
<1>6. WordsKept
  <2>1. WordLists(v) = WordLists(sub)
    BY <1>5, Zenon DEF WordLists
  <2>2. WordsOf(v) = WordsOf(sub)
    BY <2>1, Zenon DEF WordsOf, WordLists
  <2> QED BY <1>4, <2>2 DEF WordsKept, v, segs
<1>7. IdsCanonical
  BY <1>4, <1>5 DEF IdsCanonical, v
<1>8. SpeakersHeard
  <2>1. diarizes => \A i \in DOMAIN v : v[i].by = "diarization" => Hears(v[i], turns)
    BY <1>4, <1>5
  <2> QED BY <2>1, Zenon DEF SpeakersHeard, Hears, v, turns
<1>9. StrictNeverPlaceholder
  <2> SUFFICES ASSUME strict, \A i \in DOMAIN v : ~(v[i].to > v[i].from) PROVE FALSE
    BY <1>3 DEF StrictNeverPlaceholder, v
  <2>1. \A i \in DOMAIN sub : sub[i].to \in Int /\ sub[i].from \in Int
    <3>1. \A i \in DOMAIN sub : sub[i] \in Speech
      BY <1>4, LenProperties
    <3> QED BY <3>1, SegmentFields
  <2>2. \A i \in DOMAIN sub : sub[i].to <= sub[i].from
    BY <1>5, <2>1
  <2>3. "strict_requires_positive_duration" \in IntegrityErrors(sub)
    BY <2>2 DEF IntegrityErrors
  <2> QED BY <1>3, <2>3
<1> QED BY <1>6, <1>7, <1>8, <1>9 DEF AlignmentFaithful

\* For any recordings in order and any turns, of an engine or a stub, strict or not: a version
\* that is minted has every word once and in order, counts its segments, gives to diarized
\* ones speakers heard in them, and is no placeholder where that is refused (AlignmentFaithful).
THEOREM AlignmentAlwaysFaithful == ASSUME RecordingAssumption PROVE AlignSpec => []AlignmentFaithful
<1>1. AlignInit => AlignInv
  BY AlignInvInit
<1>2. AlignInv /\ [AlignNext]_alignVars => AlignInv'
  BY AlignInvStep
<1>3. AlignInv => AlignmentFaithful
  BY AlignInvFaithful
<1> QED BY <1>1, <1>2, <1>3, PTL DEF AlignSpec

\* A run goes through its stages with files of their kinds (AlignTypeOK).
THEOREM AlignmentTyped == AlignSpec => []AlignTypeOK
<1>1. AlignInit => AlignInv
  BY AlignInvInit
<1>2. AlignInv /\ [AlignNext]_alignVars => AlignInv'
  BY AlignInvStep
<1>3. AlignInv => AlignTypeOK
  BY DEF AlignInv
<1> QED BY <1>1, <1>2, <1>3, PTL DEF AlignSpec
=============================================================================
