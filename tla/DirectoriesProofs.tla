-------------------------- MODULE DirectoriesProofs --------------------------
(***************************************************************************)
(* What Directories promises, for every set of threads and names, every    *)
(* size of a block and every directory another implementation may have     *)
(* left: the blocks stay tiled, the index stays sound, and the directory   *)
(* is the set of names of NameMap on the conditions of Promised, which the *)
(* code does not see to.  The order is that of the argument:               *)
(* sums and folds, one block, a block that is filled and divided, the      *)
(* index, the directory, the inductive invariant IInv with one lemma for   *)
(* each action, the invariant HInv of the histories, the refinement.       *)
(***************************************************************************)
EXTENDS Directories, SequenceTheorems, FiniteSetTheorems, WellFoundedInduction, TLAPS

\* A set of numbers has a least one; a statement about all numbers is proved by
\* contradiction from the least that fails.
LEMMA LeastExists ==
    ASSUME NEW S \in SUBSET Nat, S # {}
    PROVE  \E n \in S : \A m \in S : n <= m
<1> DEFINE T == {0 .. m : m \in S}
           R == StrictSubsetOrdering(Nat)
<1>1. T \subseteq FiniteSubsetsOf(Nat)
  <2>1. \A m \in Nat : IsFiniteSet(0 .. m) /\ 0 .. m \in SUBSET Nat
    BY FS_Interval
  <2>2. QED
    BY <2>1 DEF FiniteSubsetsOf
<1>2. T # {}
  OBVIOUS
<1>3. IsWellFoundedOn(R, FiniteSubsetsOf(Nat))
  BY FS_StrictSubsetOrderingWellFounded
<1>4. \E x \in T : \A y \in T : <<y, x>> \notin R
  <2> HIDE DEF T, R
  <2>1. QED
    BY <1>1, <1>2, <1>3, WFMin
<1>5. PICK n \in S : \A m \in S : <<0 .. m, 0 .. n>> \notin R
  BY <1>4
<1>6. ASSUME NEW m \in S, m < n
      PROVE  <<0 .. m, 0 .. n>> \in R
  <2>1. m \in Nat /\ n \in Nat
    OBVIOUS
  <2>2. 0 .. m \subseteq 0 .. n /\ n \in 0 .. n /\ n \notin 0 .. m
    BY <1>6, <2>1
  <2>3. 0 .. m \in SUBSET Nat /\ 0 .. n \in SUBSET Nat
    BY <2>1
  <2>4. QED
    BY <2>2, <2>3 DEF StrictSubsetOrdering
<1>7. \A m \in S : ~ (m < n)
  BY <1>5, <1>6
<1>8. QED
  BY <1>7

\* What Min returns.
LEMMA MinIs ==
    ASSUME NEW S \in SUBSET Nat, S # {}
    PROVE  Min(S) \in S /\ \A m \in S : Min(S) <= m
  BY LeastExists DEF Min

\* What Max returns of numbers below a bound.
LEMMA MaxIs ==
    ASSUME NEW b \in Nat, NEW S \in SUBSET (0 .. b), S # {}
    PROVE  Max(S) \in S /\ \A m \in S : m <= Max(S)
<1> DEFINE T == {b - m : m \in S}
<1>1. T \in SUBSET Nat /\ T # {}
  <2>1. \A m \in S : b - m \in Nat
    OBVIOUS
  <2>2. QED
    BY <2>1
<1>2. PICK n \in T : \A m \in T : n <= m
  <2> HIDE DEF T
  <2>1. QED
    BY <1>1, LeastExists
<1>3. PICK x \in S : n = b - x
  OBVIOUS
<1>4. \A m \in S : b - x <= b - m
  BY <1>2, <1>3
<1>5. \A m \in S : x >= m
  BY <1>3, <1>4
<1>6. \E y \in S : \A m \in S : y >= m
  BY <1>5
<1>7. Max(S) \in S /\ \A m \in S : Max(S) >= m
  BY <1>6 DEF Max
<1>8. QED
  BY <1>7

-----------------------------------------------------------------------------
(* Folds over sequences.                                                   *)

\* f is what FoldLeft computes with, for n elements: its value for every set of
\* positions, taken from the greatest down.
Folding(f, base, step, n) ==
    \A s \in SUBSET (1 .. n) : f[s] = IF s = {} THEN base ELSE step[f[s \ {Max(s)}]][Max(s)]

\* Max of a set of positions that has the last one.
LEMMA MaxOfUpTo ==
    ASSUME NEW k \in Nat, NEW s \in SUBSET (1 .. k)
    PROVE  /\ k \in s => Max(s) = k
           /\ s # {} => Max(s) \in s
<1>1. s \in SUBSET (0 .. k) /\ \A m \in s : m \in Nat /\ m <= k
  OBVIOUS
<1>2. ASSUME s # {} PROVE Max(s) \in s /\ \A m \in s : m <= Max(s)
  BY <1>1, <1>2, MaxIs
<1>3. ASSUME k \in s PROVE Max(s) = k
  <2>1. Max(s) \in s /\ k <= Max(s)
    BY <1>2, <1>3
  <2>2. ASSUME NEW x \in s, k <= x PROVE x = k
    BY <1>1, <2>2
  <2>3. QED
    BY <2>1, <2>2
<1>4. QED
  BY <1>2, <1>3

\* Such a function exists for every step and every length.
LEMMA FoldingExists ==
    ASSUME NEW A, NEW base \in A, NEW n \in Nat, NEW step \in [A -> [1 .. n -> A]]
    PROVE  \E f \in [SUBSET (1 .. n) -> A] : Folding(f, base, step, n)
<1> DEFINE Good(k) == \E f \in [SUBSET (1 .. k) -> A] : Folding(f, base, step, k)
           Bad == {k \in 0 .. n : ~ Good(k)}
<1>1. SUFFICES ASSUME Bad # {} PROVE FALSE
  <2>1. n \in 0 .. n
    OBVIOUS
  <2>2. ASSUME Bad = {} PROVE Good(n)
    BY <2>1, <2>2
  <2>3. QED
    BY <2>2
<1>2. PICK k \in Bad : \A m \in Bad : k <= m
  <2>1. Bad \in SUBSET Nat
    OBVIOUS
  <2> HIDE DEF Bad
  <2>2. QED
    BY <1>1, <2>1, LeastExists
<1>3. k \in 0 .. n /\ ~ Good(k)
  OBVIOUS
<1>4. k # 0
  <2>1. SUFFICES ASSUME k = 0 PROVE FALSE
    OBVIOUS
  <2> DEFINE f == [s \in SUBSET (1 .. 0) |-> base]
  <2>2. f \in [SUBSET (1 .. 0) -> A]
    OBVIOUS
  <2>3. \A s \in SUBSET (1 .. 0) : s = {} /\ f[s] = base
    OBVIOUS
  <2>4. Folding(f, base, step, 0)
    BY <2>3 DEF Folding
  <2>5. Good(0)
    BY <2>2, <2>4
  <2>6. QED
    BY <1>3, <2>1, <2>5
<1>5. Good(k - 1)
  <2>1. k - 1 \in 0 .. n /\ ~ (k <= k - 1)
    BY <1>3, <1>4
  <2>2. k - 1 \notin Bad
    BY <1>2, <2>1
  <2>3. QED
    BY <2>1, <2>2
<1>6. PICK g \in [SUBSET (1 .. k - 1) -> A] : Folding(g, base, step, k - 1)
  BY <1>5
<1> DEFINE f == [s \in SUBSET (1 .. k) |-> IF k \in s THEN step[g[s \ {k}]][k] ELSE g[s]]
<1>7. \A s \in SUBSET (1 .. k) :
          /\ k \in s => s \ {k} \in SUBSET (1 .. k - 1) /\ s \ {k} \in SUBSET (1 .. k)
          /\ k \notin s => s \in SUBSET (1 .. k - 1)
  <2>1. k \in Nat /\ \A i \in 1 .. k : i # k => i \in 1 .. k - 1
    BY <1>3
  <2>2. QED
    BY <2>1
<1>8. f \in [SUBSET (1 .. k) -> A]
  <2>1. k \in 1 .. n
    BY <1>3, <1>4
  <2>2. ASSUME NEW s \in SUBSET (1 .. k) PROVE (IF k \in s THEN step[g[s \ {k}]][k] ELSE g[s]) \in A
    BY <1>7, <2>1
  <2>3. QED
    BY <2>2
<1>9. Folding(f, base, step, k)
  <2>1. SUFFICES ASSUME NEW s \in SUBSET (1 .. k)
                 PROVE  f[s] = IF s = {} THEN base ELSE step[f[s \ {Max(s)}]][Max(s)]
    BY DEF Folding
  <2>2. CASE k \in s
    <3>1. Max(s) = k /\ s # {}
      BY <1>3, <2>2, MaxOfUpTo
    <3>2. f[s \ {k}] = g[s \ {k}]
      BY <1>7, <2>2
    <3>3. f[s] = step[g[s \ {k}]][k]
      BY <2>2
    <3> HIDE DEF f
    <3>4. QED
      BY <3>1, <3>2, <3>3
  <2>3. CASE k \notin s
    <3>1. s \in SUBSET (1 .. k - 1) /\ k - 1 \in Nat
      BY <1>3, <1>4, <1>7, <2>3
    <3>2. f[s] = g[s]
      BY <2>3
    <3>3. g[s] = IF s = {} THEN base ELSE step[g[s \ {Max(s)}]][Max(s)]
      BY <1>6, <3>1 DEF Folding
    <3>4. f[s \ {Max(s)}] = g[s \ {Max(s)}]
      BY <2>3
    <3> HIDE DEF f
    <3>5. QED
      BY <3>2, <3>3, <3>4
  <2>4. QED
    BY <2>2, <2>3
<1>10. QED
  <2> HIDE DEF f
  <2>1. QED
    BY <1>3, <1>8, <1>9

\* It goes through the positions one after the other.
LEMMA FoldingWalks ==
    ASSUME NEW f, NEW base, NEW step, NEW n \in Nat, Folding(f, base, step, n)
    PROVE  /\ f[1 .. 0] = base
           /\ \A k \in 1 .. n : f[1 .. k] = step[f[1 .. k - 1]][k]
<1>1. f[1 .. 0] = base
  <2>1. 1 .. 0 = {} /\ 1 .. 0 \in SUBSET (1 .. n)
    OBVIOUS
  <2>2. QED
    BY <2>1 DEF Folding
<1>2. ASSUME NEW k \in 1 .. n PROVE f[1 .. k] = step[f[1 .. k - 1]][k]
  <2>1. 1 .. k \in SUBSET (1 .. n) /\ k \in 1 .. k /\ k \in Nat /\ 1 .. k \in SUBSET (1 .. k) /\ 1 .. k # {}
    OBVIOUS
  <2>2. Max(1 .. k) = k
    BY <2>1, MaxOfUpTo
  <2>3. (1 .. k) \ {k} = 1 .. k - 1
    OBVIOUS
  <2>4. f[1 .. k] = step[f[(1 .. k) \ {Max(1 .. k)}]][Max(1 .. k)]
    BY <2>1 DEF Folding
  <2>5. QED
    BY <2>2, <2>3, <2>4
<1>3. QED
  BY <1>1, <1>2

\* What holds at m and goes on from each number to the next holds up to n.
LEMMA UpTo ==
    ASSUME NEW m \in Nat, NEW n \in Nat, NEW S,
           m \in S, \A k \in m .. n : k < n /\ k \in S => k + 1 \in S
    PROVE  \A k \in m .. n : k \in S
<1> DEFINE Bad == {k \in m .. n : k \notin S}
<1>1. SUFFICES ASSUME Bad # {} PROVE FALSE
  OBVIOUS
<1>2. PICK k \in Bad : \A j \in Bad : k <= j
  <2>1. Bad \in SUBSET Nat
    OBVIOUS
  <2> HIDE DEF Bad
  <2>2. QED
    BY <1>1, <2>1, LeastExists
<1>3. k \in m .. n /\ k \notin S
  OBVIOUS
<1>4. k # m
  BY <1>3
<1>5. k - 1 \in m .. n /\ ~ (k <= k - 1) /\ k - 1 < n /\ (k - 1) + 1 = k
  BY <1>3, <1>4
<1>6. k - 1 \in S
  BY <1>2, <1>5
<1>7. QED
  BY <1>3, <1>5, <1>6

\* g[k] is the sum of the first k numbers of w.
Adds(g, w, n) ==
    /\ g \in [0 .. n -> Int] /\ g[0] = 0
    /\ \A k \in 1 .. n : g[k] = g[k - 1] + w[k]

LEMMA AddsExist ==
    ASSUME NEW n \in Nat, NEW w, \A k \in 1 .. n : w[k] \in Int
    PROVE  \E g : Adds(g, w, n)
<1> DEFINE S == {m \in 0 .. n : \E g : Adds(g, w, m)}
<1>1. 0 \in S
  <2> DEFINE g == [k \in 0 .. 0 |-> 0]
  <2>1. g \in [0 .. 0 -> Int] /\ g[0] = 0 /\ 0 \in 0 .. n
    OBVIOUS
  <2>2. Adds(g, w, 0)
    BY <2>1 DEF Adds
  <2>3. QED
    BY <2>1, <2>2
<1>2. ASSUME NEW m \in 0 .. n, m < n, m \in S PROVE m + 1 \in S
  <2>1. PICK g : Adds(g, w, m)
    BY <1>2
  <2> DEFINE h == [k \in 0 .. m + 1 |-> IF k = m + 1 THEN g[m] + w[m + 1] ELSE g[k]]
  <2>2. m \in Nat /\ m + 1 \in 1 .. n /\ g[m] \in Int /\ w[m + 1] \in Int
    BY <1>2, <2>1 DEF Adds
  <2>3. h \in [0 .. m + 1 -> Int]
    <3>1. ASSUME NEW k \in 0 .. m + 1, k # m + 1 PROVE g[k] \in Int
      BY <2>1, <2>2, <3>1 DEF Adds
    <3>2. QED
      BY <2>2, <3>1
  <2>4. h[0] = 0
    BY <2>1, <2>2 DEF Adds
  <2>5. ASSUME NEW k \in 1 .. m + 1 PROVE h[k] = h[k - 1] + w[k]
    <3>1. CASE k = m + 1
      BY <2>2, <3>1
    <3>2. CASE k # m + 1
      <4>1. k \in 1 .. m /\ k - 1 \in 0 .. m + 1 /\ k - 1 # m + 1
        BY <2>2, <3>2
      <4>2. g[k] = g[k - 1] + w[k]
        BY <2>1, <4>1 DEF Adds
      <4>3. QED
        BY <3>2, <4>1, <4>2
    <3>3. QED
      BY <3>1, <3>2
  <2> HIDE DEF h
  <2>6. Adds(h, w, m + 1)
    BY <2>3, <2>4, <2>5 DEF Adds
  <2>7. QED
    BY <2>2, <2>6
<1> HIDE DEF S
<1>3. n \in S
  <2>1. \A k \in 0 .. n : k \in S
    BY <1>1, <1>2, UpTo
  <2>2. QED
    BY <2>1
<1>4. QED
  BY <1>3 DEF S

\* Smaller numbers have a smaller sum.
LEMMA AddsLess ==
    ASSUME NEW n \in Nat, NEW w, NEW v, NEW g, NEW h, Adds(g, w, n), Adds(h, v, n),
           \A k \in 1 .. n : w[k] \in Int /\ v[k] \in Int /\ w[k] <= v[k]
    PROVE  \A k \in 0 .. n : g[k] <= h[k]
<1> DEFINE S == {k \in 0 .. n : g[k] <= h[k]}
<1>1. 0 \in S
  BY DEF Adds
<1>2. ASSUME NEW k \in 0 .. n, k < n, k \in S PROVE k + 1 \in S
  <2>1. k + 1 \in 1 .. n /\ k + 1 \in 0 .. n /\ (k + 1) - 1 = k /\ g[k] <= h[k]
    BY <1>2
  <2>2. /\ g[k + 1] = g[k] + w[k + 1] /\ h[k + 1] = h[k] + v[k + 1]
        /\ g[k] \in Int /\ h[k] \in Int
    BY <2>1 DEF Adds
  <2>3. w[k + 1] \in Int /\ v[k + 1] \in Int /\ w[k + 1] <= v[k + 1]
    BY <2>1
  <2>4. g[k + 1] <= h[k + 1]
    BY <2>1, <2>2, <2>3
  <2>5. QED
    BY <2>1, <2>4
<1> HIDE DEF S
<1>3. \A k \in 0 .. n : k \in S
  BY <1>1, <1>2, UpTo
<1>4. QED
  BY <1>3 DEF S

\* A sum depends on its numbers only.
LEMMA AddsSame ==
    ASSUME NEW n \in Nat, NEW w, NEW v, NEW g, NEW h, Adds(g, w, n), Adds(h, v, n),
           \A k \in 1 .. n : w[k] \in Int /\ w[k] = v[k]
    PROVE  \A k \in 0 .. n : g[k] = h[k]
<1>1. \A k \in 1 .. n : w[k] \in Int /\ v[k] \in Int /\ w[k] <= v[k] /\ v[k] <= w[k]
  OBVIOUS
<1>2. \A k \in 0 .. n : g[k] <= h[k]
  BY <1>1, AddsLess
<1>3. \A k \in 0 .. n : h[k] <= g[k]
  BY <1>1, AddsLess
<1>4. \A k \in 0 .. n : g[k] \in Int /\ h[k] \in Int
  BY DEF Adds
<1>5. QED
  BY <1>2, <1>3, <1>4

\* The numbers v are those of w, the one at i cut in two.
CutAt(v, w, i, n) ==
    /\ n \in Nat /\ i \in 1 .. n
    /\ \A k \in 1 .. n : w[k] \in Int
    /\ \A k \in 1 .. n + 1 : v[k] \in Int
    /\ \A k \in 1 .. i - 1 : v[k] = w[k]
    /\ v[i] + v[i + 1] = w[i]
    /\ \A k \in i + 1 .. n : v[k + 1] = w[k]

\* A number cut in two leaves the sum.
LEMMA AddsCut ==
    ASSUME NEW n, NEW i, NEW w, NEW v, NEW g, NEW h,
           Adds(g, w, n), Adds(h, v, n + 1), CutAt(v, w, i, n)
    PROVE  h[n + 1] = g[n]
<1> USE DEF CutAt
<1> DEFINE S == {k \in 0 .. n : IF k < i THEN h[k] = g[k] ELSE h[k + 1] = g[k]}
<1>1. 0 \in S
  BY DEF Adds
<1>2. ASSUME NEW k \in 0 .. n, k < n, k \in S PROVE k + 1 \in S
  <2>1. k + 1 \in 1 .. n /\ k + 1 \in 0 .. n /\ (k + 1) - 1 = k /\ k + 1 \in 1 .. n + 1
        /\ k + 2 \in 1 .. n + 1 /\ (k + 2) - 1 = k + 1 /\ k \in Nat
    BY <1>2
  <2>2. /\ g[k + 1] = g[k] + w[k + 1] /\ h[k + 1] = h[k] + v[k + 1]
        /\ h[k + 2] = h[k + 1] + v[k + 2]
        /\ g[k] \in Int /\ h[k] \in Int /\ h[k + 1] \in Int
    <3>1. g[k + 1] = g[(k + 1) - 1] + w[k + 1] /\ g[k] \in Int
      BY <2>1 DEF Adds
    <3>2. h[k + 1] = h[(k + 1) - 1] + v[k + 1] /\ h[k + 2] = h[(k + 2) - 1] + v[k + 2]
      BY <2>1 DEF Adds
    <3>3. h \in [0 .. n + 1 -> Int] /\ k \in 0 .. n + 1 /\ k + 1 \in 0 .. n + 1
      BY <2>1 DEF Adds
    <3>4. QED
      BY <2>1, <3>1, <3>2, <3>3
  <2>3. w[k + 1] \in Int /\ v[k + 1] \in Int /\ v[k + 2] \in Int
    BY <2>1
  <2>4. CASE k + 1 < i
    <3>1. v[k + 1] = w[k + 1] /\ h[k] = g[k]
      BY <1>2, <2>1, <2>4
    <3>2. QED
      BY <2>1, <2>2, <2>3, <2>4, <3>1
  <2>5. CASE k + 1 = i
    <3>1. v[k + 1] + v[k + 2] = w[k + 1] /\ h[k] = g[k]
      <4>1. i + 1 = k + 2
        BY <2>5
      <4>2. QED
        BY <1>2, <2>1, <2>5, <4>1
    <3>2. h[k + 2] = g[k + 1]
      BY <2>2, <2>3, <3>1
    <3>3. QED
      BY <2>1, <2>5, <3>2
  <2>6. CASE k + 1 > i
    <3>1. v[k + 2] = w[k + 1] /\ h[k + 1] = g[k]
      <4>1. k + 1 \in i + 1 .. n /\ ~(k < i) /\ (k + 1) + 1 = k + 2
        BY <2>1, <2>6
      <4>2. QED
        BY <1>2, <4>1
    <3>2. h[k + 2] = g[k + 1]
      BY <2>2, <2>3, <3>1
    <3>3. QED
      BY <2>1, <2>6, <3>2
  <2>7. QED
    BY <2>1, <2>4, <2>5, <2>6
<1> HIDE DEF S
<1>3. \A k \in 0 .. n : k \in S
  BY <1>1, <1>2, UpTo
<1>4. QED
  BY <1>3 DEF S

\* A fold that adds gives the sum.
LEMMA FoldAdds ==
    ASSUME NEW n \in Nat, NEW w, \A k \in 1 .. n : w[k] \in Int, NEW f,
           f = [s \in SUBSET (1 .. n) |-> IF s = {} THEN 0 ELSE f[s \ {Max(s)}] + w[Max(s)]]
    PROVE  \E g : Adds(g, w, n) /\ g[n] = f[1 .. n]
<1>1. f[1 .. 0] = 0
  <2>1. 1 .. 0 = {} /\ 1 .. 0 \in SUBSET (1 .. n)
    OBVIOUS
  <2>2. QED
    BY <2>1
<1>2. ASSUME NEW k \in 1 .. n PROVE f[1 .. k] = f[1 .. k - 1] + w[k]
  <2>1. 1 .. k \in SUBSET (1 .. n) /\ k \in 1 .. k /\ k \in Nat /\ 1 .. k \in SUBSET (1 .. k) /\ 1 .. k # {}
    OBVIOUS
  <2>2. Max(1 .. k) = k
    BY <2>1, MaxOfUpTo
  <2>3. (1 .. k) \ {k} = 1 .. k - 1
    OBVIOUS
  <2>4. f[1 .. k] = f[(1 .. k) \ {Max(1 .. k)}] + w[Max(1 .. k)]
    BY <2>1
  <2>5. QED
    BY <2>2, <2>3, <2>4
<1>3. PICK g : Adds(g, w, n)
  BY AddsExist
<1> DEFINE S == {k \in 0 .. n : g[k] = f[1 .. k]}
<1>4. 0 \in S
  BY <1>1, <1>3 DEF Adds
<1>5. ASSUME NEW k \in 0 .. n, k < n, k \in S PROVE k + 1 \in S
  <2>1. k + 1 \in 1 .. n /\ k + 1 \in 0 .. n /\ (k + 1) - 1 = k /\ g[k] = f[1 .. k]
    <3>1. g[k] = f[1 .. k]
      BY <1>5
    <3>2. k + 1 \in 1 .. n /\ k + 1 \in 0 .. n /\ (k + 1) - 1 = k
      BY <1>5
    <3>3. QED
      BY <3>1, <3>2
  <2>2. g[k + 1] = g[k] + w[k + 1] /\ f[1 .. k + 1] = f[1 .. k] + w[k + 1]
    BY <1>2, <1>3, <2>1 DEF Adds
  <2>3. QED
    BY <2>1, <2>2
<1> HIDE DEF S
<1>6. \A k \in 0 .. n : k \in S
  BY <1>4, <1>5, UpTo
<1>7. g[n] = f[1 .. n]
  <2>1. n \in S
    BY <1>6
  <2>2. QED
    BY <2>1 DEF S
<1>8. QED
  BY <1>3, <1>7

\* There is such a fold.
LEMMA FoldAddsExists ==
    ASSUME NEW n \in Nat, NEW w, \A k \in 1 .. n : w[k] \in Int
    PROVE  \E f : f = [s \in SUBSET (1 .. n) |-> IF s = {} THEN 0 ELSE f[s \ {Max(s)}] + w[Max(s)]]
<1> DEFINE step == [a \in Int |-> [k \in 1 .. n |-> a + w[k]]]
<1>1. step \in [Int -> [1 .. n -> Int]]
  OBVIOUS
<1>2. PICK f \in [SUBSET (1 .. n) -> Int] : Folding(f, 0, step, n)
  <2>1. 0 \in Int
    OBVIOUS
  <2> HIDE DEF step
  <2>2. QED
    BY <1>1, <2>1, FoldingExists
<1>3. ASSUME NEW s \in SUBSET (1 .. n)
      PROVE  f[s] = IF s = {} THEN 0 ELSE f[s \ {Max(s)}] + w[Max(s)]
  <2>1. f[s] = IF s = {} THEN 0 ELSE step[f[s \ {Max(s)}]][Max(s)]
    <3> HIDE DEF step
    <3>1. QED
      BY <1>2 DEF Folding
  <2>2. ASSUME s # {} PROVE Max(s) \in 1 .. n /\ f[s \ {Max(s)}] \in Int
    BY <2>2, MaxOfUpTo
  <2>3. QED
    BY <2>1, <2>2
<1>4. QED
  BY <1>3

\* The lengths of the slots of a block.
LEMMA LensAdd ==
    ASSUME NEW b \in Blocks
    PROVE  \E g : /\ Adds(g, [i \in 1 .. Len(b) |-> b[i].len], Len(b))
                  /\ WellFormed(b) <=> /\ g[Len(b)] = BLK_SIZE
                                       /\ \A i \in DOMAIN b : b[i].len > 0 /\ Slack(b[i]) >= 0
<1> DEFINE n == Len(b)
           w == [i \in 1 .. n |-> b[i].len]
           Is(f) == f = [s \in SUBSET (1 .. n) |->
                           IF s = {} THEN 0 ELSE f[s \ {Max(s)}] + b[Max(s)].len]
<1>1. n \in Nat /\ DOMAIN b = 1 .. n /\ \A i \in 1 .. n : w[i] \in Int /\ w[i] = b[i].len
  <2>1. n \in Nat /\ DOMAIN b = 1 .. n /\ \A i \in 1 .. n : b[i] \in Slot
    BY DEF Blocks
  <2>2. \A s \in Slot : s.len \in Int
    BY DEF Slot
  <2>3. QED
    BY <2>1, <2>2
<1>2. PICK f : f = [s \in SUBSET (1 .. n) |-> IF s = {} THEN 0 ELSE f[s \ {Max(s)}] + w[Max(s)]]
  <2> HIDE DEF n, w
  <2>1. QED
    BY <1>1, FoldAddsExists
<1> HIDE DEF n, w
<1>3. \A s \in SUBSET (1 .. n) : s # {} => w[Max(s)] = b[Max(s)].len
  BY <1>1, MaxOfUpTo
<1>4. ASSUME NEW q, Is(q)
      PROVE  q = [s \in SUBSET (1 .. n) |-> IF s = {} THEN 0 ELSE q[s \ {Max(s)}] + w[Max(s)]]
  BY <1>3, <1>4
<1>5. Is(f)
  BY <1>2, <1>3
<1>6. Is(CHOOSE q : Is(q))
  <2> HIDE DEF Is
  <2>1. QED
    BY <1>5
<1> DEFINE r == CHOOSE q : Is(q)
<1>7. FoldLeft(LAMBDA sum, s : sum + s.len, 0, b) = r[DOMAIN b]
  BY <1>1 DEF FoldLeft, MapThenFoldSet
<1> HIDE DEF r, Is
<1>8. r = [s \in SUBSET (1 .. n) |-> IF s = {} THEN 0 ELSE r[s \ {Max(s)}] + w[Max(s)]]
  BY <1>4, <1>6 DEF r
<1>9. PICK g : Adds(g, w, n) /\ g[n] = r[1 .. n]
  BY <1>1, <1>8, FoldAdds
<1>10. QED
  BY <1>1, <1>7, <1>9 DEF WellFormed, n, w

-----------------------------------------------------------------------------
(* Slots and blocks.                                                       *)

\* What InsertAt returns.
LEMMA InsertAtIs ==
    ASSUME NEW S, NEW s \in Seq(S), NEW e \in S, NEW i \in 1 .. Len(s) + 1
    PROVE  /\ InsertAt(s, i, e) \in Seq(S) /\ Len(InsertAt(s, i, e)) = Len(s) + 1
           /\ \A j \in 1 .. i - 1 : InsertAt(s, i, e)[j] = s[j]
           /\ InsertAt(s, i, e)[i] = e
           /\ \A j \in i .. Len(s) : InsertAt(s, i, e)[j + 1] = s[j]
<1>1. /\ SubSeq(s, 1, i - 1) \in Seq(S) /\ Len(SubSeq(s, 1, i - 1)) = i - 1
      /\ \A j \in 1 .. i - 1 : SubSeq(s, 1, i - 1)[j] = s[j]
  OBVIOUS
<1>2. /\ SubSeq(s, i, Len(s)) \in Seq(S) /\ Len(SubSeq(s, i, Len(s))) = Len(s) - i + 1
      /\ \A j \in 1 .. Len(s) - i + 1 : SubSeq(s, i, Len(s))[j] = s[i + j - 1]
  OBVIOUS
<1> DEFINE a == SubSeq(s, 1, i - 1)
           z == SubSeq(s, i, Len(s))
<1>3. InsertAt(s, i, e) = (a \o <<e>>) \o z
  BY DEF InsertAt
<1> HIDE DEF a, z
<1>4. /\ a \o <<e>> \in Seq(S) /\ Len(a \o <<e>>) = i /\ (a \o <<e>>)[i] = e
      /\ \A j \in 1 .. i - 1 : (a \o <<e>>)[j] = a[j]
  BY <1>1 DEF a
<1>5. QED
  <2> DEFINE p == a \o <<e>>
  <2>1. p \in Seq(S) /\ Len(p) = i /\ z \in Seq(S) /\ Len(z) = Len(s) - i + 1 /\ Len(s) \in Nat
    BY <1>2, <1>4 DEF z
  <2> HIDE DEF p
  <2>2. /\ p \o z \in Seq(S) /\ Len(p \o z) = Len(s) + 1
        /\ \A j \in 1 .. i : (p \o z)[j] = p[j]
        /\ \A j \in 1 .. Len(z) : (p \o z)[i + j] = z[j]
    <3>1. /\ p \o z \in Seq(S) /\ Len(p \o z) = Len(p) + Len(z)
          /\ \A j \in 1 .. Len(p) + Len(z) : (p \o z)[j] = IF j <= Len(p) THEN p[j] ELSE z[j - Len(p)]
      BY <2>1, ConcatProperties
    <3>2. \A j \in 1 .. i : j \in 1 .. Len(p) + Len(z) /\ j <= Len(p)
      BY <2>1
    <3>3. \A j \in 1 .. Len(z) : i + j \in 1 .. Len(p) + Len(z) /\ ~ (i + j <= Len(p)) /\ (i + j) - Len(p) = j
      BY <2>1
    <3>4. Len(p) + Len(z) = Len(s) + 1
      BY <2>1
    <3>5. QED
      BY <3>1, <3>2, <3>3, <3>4
  <2>3. ASSUME NEW j \in i .. Len(s) PROVE (p \o z)[j + 1] = s[j]
    <3>1. j - i + 1 \in 1 .. Len(z) /\ i + (j - i + 1) = j + 1 /\ i + (j - i + 1) - 1 = j
      BY <2>1
    <3>2. (p \o z)[i + (j - i + 1)] = z[j - i + 1]
      BY <2>2, <3>1
    <3>3. QED
      BY <1>2, <2>1, <3>1, <3>2 DEF z
  <2>4. QED
    BY <1>1, <1>3, <1>4, <2>2, <2>3 DEF p, a

\* What RemoveAt returns.
LEMMA RemoveAtIs ==
    ASSUME NEW S, NEW s \in Seq(S), NEW i \in 1 .. Len(s)
    PROVE  /\ RemoveAt(s, i) \in Seq(S) /\ Len(RemoveAt(s, i)) = Len(s) - 1
           /\ \A j \in 1 .. i - 1 : RemoveAt(s, i)[j] = s[j]
           /\ \A j \in i .. Len(s) - 1 : RemoveAt(s, i)[j] = s[j + 1]
<1>1. /\ SubSeq(s, 1, i - 1) \in Seq(S) /\ Len(SubSeq(s, 1, i - 1)) = i - 1
      /\ \A j \in 1 .. i - 1 : SubSeq(s, 1, i - 1)[j] = s[j]
  OBVIOUS
<1>2. /\ SubSeq(s, i + 1, Len(s)) \in Seq(S) /\ Len(SubSeq(s, i + 1, Len(s))) = Len(s) - i
      /\ \A j \in 1 .. Len(s) - i : SubSeq(s, i + 1, Len(s))[j] = s[i + j]
  OBVIOUS
<1> DEFINE a == SubSeq(s, 1, i - 1)
           z == SubSeq(s, i + 1, Len(s))
<1>3. RemoveAt(s, i) = a \o z
  BY DEF RemoveAt
<1> HIDE DEF a, z
<1>4. a \in Seq(S) /\ Len(a) = i - 1 /\ z \in Seq(S) /\ Len(z) = Len(s) - i /\ Len(s) \in Nat
  BY <1>1, <1>2 DEF a, z
<1>5. /\ a \o z \in Seq(S) /\ Len(a \o z) = Len(s) - 1
      /\ \A j \in 1 .. i - 1 : (a \o z)[j] = a[j]
      /\ \A j \in 1 .. Len(z) : (a \o z)[i - 1 + j] = z[j]
  BY <1>4
<1>6. ASSUME NEW j \in i .. Len(s) - 1 PROVE (a \o z)[j] = s[j + 1]
  <2>1. j - i + 1 \in 1 .. Len(z) /\ i - 1 + (j - i + 1) = j /\ i + (j - i + 1) = j + 1
    BY <1>4
  <2>2. (a \o z)[j] = z[j - i + 1]
    BY <1>5, <2>1
  <2>3. QED
    BY <1>2, <1>4, <2>1, <2>2 DEF z
<1>7. QED
  BY <1>1, <1>3, <1>5, <1>6 DEF a

\* An entry has a header of eight bytes, a name, and at most three bytes more.
LEMMA EntrySizes ==
    \A n \in Name \cup {Dot, DotDot} :
        /\ LenOf(n) \in Nat \ {0} /\ EntrySize(n) \in Nat
        /\ LenOf(n) + 8 <= EntrySize(n) /\ EntrySize(n) <= LenOf(n) + 11
<1> TAKE n \in Name \cup {Dot, DotDot}
<1>1. LenOf(n) \in Nat \ {0}
  BY BlockAssumption DEF LenOf
<1>2. ASSUME NEW l \in Nat
      PROVE  /\ ((11 + l) \div 4) * 4 \in Nat
             /\ l + 8 <= ((11 + l) \div 4) * 4 /\ ((11 + l) \div 4) * 4 <= l + 11
  OBVIOUS
<1>3. QED
  BY <1>1, <1>2 DEF EntrySize

LEMMA SlackIs ==
    ASSUME NEW s \in Slot
    PROVE  /\ Slack(s) \in Int /\ s.len \in Nat /\ s.name \in Name \cup {Dot, DotDot, Free}
           /\ s.name = Free => Slack(s) = s.len
           /\ s.name # Free => /\ s.name \in Name \cup {Dot, DotDot}
                               /\ Slack(s) = s.len - EntrySize(s.name)
  BY EntrySizes DEF Slot, Slack

LEMMA NotFree == \A n \in Name : n # Free /\ n # Dot /\ n # DotDot
  BY BlockAssumption

LEMMA BlockIs ==
    ASSUME NEW b \in Blocks
    PROVE  Len(b) \in Nat /\ DOMAIN b = 1 .. Len(b) /\ \A i \in DOMAIN b : b[i] \in Slot
  BY DEF Blocks

\* The slot a name is put into.
LEMMA RoomIs ==
    ASSUME NEW b \in Blocks, NEW n \in Name, Roomy(b, n) # {}
    PROVE  /\ Min(Roomy(b, n)) \in DOMAIN b /\ b[Min(Roomy(b, n))] \in Slot
           /\ Slack(b[Min(Roomy(b, n))]) >= EntrySize(n)
<1>1. Roomy(b, n) \in SUBSET Nat
  BY BlockIs DEF Roomy
<1>2. Min(Roomy(b, n)) \in Roomy(b, n)
  BY <1>1, MinIs
<1>3. QED
  BY <1>2, BlockIs DEF Roomy

\* The block c is b with the name n in the slot i, or behind its entry.
InsertedAt(b, n, i, c) ==
    /\ c \in Blocks
    /\ b[i].name = Free =>
         /\ Len(c) = Len(b)
         /\ \A j \in 1 .. Len(b) : c[j] = IF j = i THEN [name |-> n, len |-> b[i].len] ELSE b[j]
    /\ b[i].name # Free =>
         /\ Len(c) = Len(b) + 1
         /\ \A j \in 1 .. i - 1 : c[j] = b[j]
         /\ c[i] = [name |-> b[i].name, len |-> EntrySize(b[i].name)]
         /\ c[i + 1] = [name |-> n, len |-> Slack(b[i])]
         /\ \A j \in i + 1 .. Len(b) : c[j + 1] = b[j]

\* What insert_entry makes of a free slot, and of the slack behind an entry.
LEMMA InsertShape ==
    ASSUME NEW b \in Blocks, NEW n \in Name, Roomy(b, n) # {},
           NEW i, i = Min(Roomy(b, n)), NEW c, c = insert_entry(b, n)
    PROVE  InsertedAt(b, n, i, c)
<1>1. i \in 1 .. Len(b) /\ b[i] \in Slot /\ Slack(b[i]) >= EntrySize(n) /\ Len(b) \in Nat
      /\ DOMAIN b = 1 .. Len(b) /\ b \in Seq(Slot)
  BY RoomIs, BlockIs DEF Blocks
<1>2. /\ Slack(b[i]) \in Nat /\ b[i].len \in Nat /\ EntrySize(n) \in Nat
      /\ b[i].name \in Name \cup {Dot, DotDot, Free}
  <2>1. EntrySize(n) \in Nat
    BY EntrySizes
  <2>2. QED
    BY <1>1, <2>1, SlackIs
<1>3. CASE b[i].name = Free
  <2>1. c = [b EXCEPT ![i].name = n]
    BY <1>3 DEF insert_entry
  <2>2. [b[i] EXCEPT !.name = n] = [name |-> n, len |-> b[i].len]
    BY <1>1 DEF Slot
  <2>3. [name |-> n, len |-> b[i].len] \in Slot
    BY <1>2 DEF Slot
  <2>4. c = [b EXCEPT ![i] = [name |-> n, len |-> b[i].len]]
    BY <2>1, <2>2
  <2>5. c \in Seq(Slot) /\ Len(c) = Len(b)
    BY <1>1, <2>3, <2>4, ExceptSeq
  <2>6. \A j \in 1 .. Len(b) : c[j] = IF j = i THEN [name |-> n, len |-> b[i].len] ELSE b[j]
    BY <1>1, <2>4
  <2>7. QED
    BY <1>3, <2>5, <2>6 DEF Blocks, InsertedAt
<1>4. CASE b[i].name # Free
  <2> DEFINE own == EntrySize(b[i].name)
             x == [name |-> b[i].name, len |-> own]
             y == [name |-> n, len |-> Slack(b[i])]
             d == [b EXCEPT ![i] = x]
  <2>1. b[i].len - Slack(b[i]) = own /\ own \in Nat
    <3>1. /\ b[i].name \in Name \cup {Dot, DotDot} /\ b[i].len \in Nat
          /\ Slack(b[i]) = b[i].len - own
      BY <1>1, <1>4, SlackIs
    <3>2. own \in Nat
      BY <3>1, EntrySizes
    <3> HIDE DEF own
    <3>3. QED
      BY <3>1, <3>2
  <2>2. [b[i] EXCEPT !.len = own] = x
    BY <1>1 DEF Slot
  <2>3. x \in Slot /\ y \in Slot
    BY <1>2, <2>1 DEF Slot
  <2>4. c = InsertAt(d, i + 1, y)
    BY <1>4, <2>1, <2>2 DEF insert_entry
  <2> HIDE DEF own, x, y
  <2>5. d \in Seq(Slot) /\ Len(d) = Len(b) /\ d[i] = x /\ \A j \in 1 .. Len(b) : j # i => d[j] = b[j]
    BY <1>1, <2>3, ExceptSeq
  <2> HIDE DEF d
  <2>6. i + 1 \in 1 .. Len(d) + 1
    BY <1>1, <2>5
  <2>7. /\ c \in Seq(Slot) /\ Len(c) = Len(d) + 1
        /\ \A j \in 1 .. (i + 1) - 1 : c[j] = d[j]
        /\ c[i + 1] = y
        /\ \A j \in i + 1 .. Len(d) : c[j + 1] = d[j]
    <3> DEFINE k == i + 1
    <3>1. k \in 1 .. Len(d) + 1 /\ c = InsertAt(d, k, y)
      BY <2>4, <2>6
    <3> HIDE DEF k
    <3>2. /\ c \in Seq(Slot) /\ Len(c) = Len(d) + 1
          /\ \A j \in 1 .. k - 1 : c[j] = d[j]
          /\ c[k] = y
          /\ \A j \in k .. Len(d) : c[j + 1] = d[j]
      <4>1. y \in Slot /\ d \in Seq(Slot) /\ k \in 1 .. Len(d) + 1
        BY <2>3, <2>5, <3>1
      <4>2. /\ InsertAt(d, k, y) \in Seq(Slot) /\ Len(InsertAt(d, k, y)) = Len(d) + 1
            /\ \A j \in 1 .. k - 1 : InsertAt(d, k, y)[j] = d[j]
            /\ InsertAt(d, k, y)[k] = y
            /\ \A j \in k .. Len(d) : InsertAt(d, k, y)[j + 1] = d[j]
        BY <4>1, InsertAtIs
      <4>3. QED
        BY <3>1, <4>2
    <3>3. QED
      BY <3>2 DEF k
  <2>8. /\ \A j \in 1 .. i - 1 : c[j] = b[j]
        /\ c[i] = x
        /\ \A j \in i + 1 .. Len(b) : c[j + 1] = b[j]
    <3>1. i \in Nat /\ Len(b) \in Nat /\ 1 <= i /\ i <= Len(b)
      BY <1>1
    <3>2. ASSUME NEW j \in 1 .. i - 1 PROVE c[j] = b[j]
      <4>1. j \in 1 .. (i + 1) - 1 /\ j \in 1 .. Len(b) /\ j # i
        BY <3>1
      <4>2. QED
        BY <2>5, <2>7, <4>1
    <3>3. c[i] = x
      <4>1. i \in 1 .. (i + 1) - 1
        BY <3>1
      <4>2. QED
        BY <2>5, <2>7, <4>1
    <3>4. ASSUME NEW j \in i + 1 .. Len(b) PROVE c[j + 1] = b[j]
      <4>1. j \in i + 1 .. Len(d) /\ j \in 1 .. Len(b) /\ j # i
        BY <2>5, <3>1
      <4>2. QED
        BY <2>5, <2>7, <4>1
    <3>5. QED
      BY <3>2, <3>3, <3>4
  <2>9. QED
    BY <1>4, <2>5, <2>7, <2>8 DEF x, y, own, Blocks, InsertedAt
<1>5. QED
  BY <1>3, <1>4

\* No name is in two slots of a block.
Distinct(b) ==
    \A i, j \in DOMAIN b : b[i].name \in Name /\ b[i].name = b[j].name => i = j

Sound(s) == s.len > 0 /\ Slack(s) >= 0

\* What an entry leaves of the slot it gets.
LEMMA SlotGiven ==
    ASSUME NEW n \in Name, NEW l \in Nat, l >= EntrySize(n), NEW s, s = [name |-> n, len |-> l]
    PROVE  s \in Slot /\ Sound(s) /\ Slack(s) = l - EntrySize(n)
<1>1. s \in Slot /\ s.name = n /\ s.len = l
  BY DEF Slot
<1>2. EntrySize(n) \in Nat /\ EntrySize(n) > 0
  BY EntrySizes
<1>3. Slack(s) = l - EntrySize(n)
  BY <1>1, NotFree, SlackIs
<1>4. QED
  BY <1>1, <1>2, <1>3 DEF Sound

\* A slot cut to what its entry needs.
LEMMA SlotCut ==
    ASSUME NEW m \in Name \cup {Dot, DotDot}, m # Free, NEW s, s = [name |-> m, len |-> EntrySize(m)]
    PROVE  s \in Slot /\ Sound(s) /\ Slack(s) = 0
<1>1. EntrySize(m) \in Nat /\ EntrySize(m) > 0
  BY EntrySizes
<1>2. s \in Slot /\ s.name = m /\ s.len = EntrySize(m)
  BY <1>1 DEF Slot
<1>3. Slack(s) = 0
  BY <1>1, <1>2, SlackIs
<1>4. QED
  BY <1>1, <1>2, <1>3 DEF Sound

\* Well formed: the lengths of the slots add up to a block.
LEMMA TiledIs ==
    ASSUME NEW b \in Blocks, NEW g, Adds(g, [i \in 1 .. Len(b) |-> b[i].len], Len(b))
    PROVE  WellFormed(b) <=> g[Len(b)] = BLK_SIZE /\ \A i \in 1 .. Len(b) : Sound(b[i])
<1>1. PICK h : /\ Adds(h, [i \in 1 .. Len(b) |-> b[i].len], Len(b))
               /\ WellFormed(b) <=> /\ h[Len(b)] = BLK_SIZE
                                    /\ \A i \in DOMAIN b : b[i].len > 0 /\ Slack(b[i]) >= 0
  BY LensAdd
<1> DEFINE w == [i \in 1 .. Len(b) |-> b[i].len]
<1>2. Len(b) \in Nat /\ DOMAIN b = 1 .. Len(b) /\ \A i \in 1 .. Len(b) : w[i] \in Int /\ w[i] = w[i]
  BY BlockIs, SlackIs
<1>3. h[Len(b)] = g[Len(b)]
  <2> HIDE DEF w
  <2>1. \A k \in 0 .. Len(b) : g[k] = h[k]
    BY <1>1, <1>2, AddsSame DEF w
  <2>2. QED
    BY <1>2, <2>1
<1>4. QED
  BY <1>1, <1>2, <1>3 DEF Sound

LEMMA LensExist ==
    ASSUME NEW b \in Blocks
    PROVE  \E g : Adds(g, [i \in 1 .. Len(b) |-> b[i].len], Len(b))
BY LensAdd

\* Slots of the same lengths tile a block as well.
LEMMA SameLens ==
    ASSUME NEW b \in Blocks, NEW c \in Blocks, WellFormed(b), Len(c) = Len(b),
           \A j \in 1 .. Len(b) : c[j].len = b[j].len /\ Sound(c[j])
    PROVE  WellFormed(c)
<1> DEFINE w == [i \in 1 .. Len(b) |-> b[i].len]
           v == [i \in 1 .. Len(c) |-> c[i].len]
           n == Len(b)
<1>1. PICK g : Adds(g, w, n)
  BY LensExist
<1>2. PICK h : Adds(h, v, Len(c))
  BY LensExist
<1>3. n \in Nat /\ \A k \in 1 .. n : w[k] \in Int /\ w[k] = v[k]
  BY BlockIs, SlackIs
<1>4. g[n] = BLK_SIZE
  BY <1>1, TiledIs
<1>5. h[n] = g[n]
  <2>1. Adds(h, v, n)
    BY <1>2
  <2> HIDE DEF w, v, n
  <2>2. \A k \in 0 .. n : g[k] = h[k]
    BY <1>1, <1>3, <2>1, AddsSame
  <2>3. QED
    BY <1>3, <2>2
<1>6. QED
  BY <1>2, <1>4, <1>5, TiledIs

\* A slot cut in two, and two slots made one.
LEMMA CutLens ==
    ASSUME NEW b \in Blocks, NEW c \in Blocks, Len(c) = Len(b) + 1, NEW i \in 1 .. Len(b),
           \A j \in 1 .. i - 1 : c[j].len = b[j].len,
           c[i].len + c[i + 1].len = b[i].len,
           \A j \in i + 1 .. Len(b) : c[j + 1].len = b[j].len
    PROVE  /\ WellFormed(b) /\ (\A j \in 1 .. Len(c) : Sound(c[j])) => WellFormed(c)
           /\ WellFormed(c) /\ (\A j \in 1 .. Len(b) : Sound(b[j])) => WellFormed(b)
<1> DEFINE n == Len(b)
           w == [k \in 1 .. n |-> b[k].len]
           v == [k \in 1 .. n + 1 |-> c[k].len]
<1>1. PICK g : Adds(g, w, n)
  BY LensExist
<1>2. PICK h : Adds(h, v, n + 1)
  BY LensExist
<1>3. /\ n \in Nat /\ i \in 1 .. n
      /\ \A k \in 1 .. n : w[k] \in Int /\ w[k] = b[k].len
      /\ \A k \in 1 .. n + 1 : v[k] \in Int /\ v[k] = c[k].len
  <2>1. n \in Nat /\ DOMAIN b = 1 .. n /\ DOMAIN c = 1 .. n + 1
    BY BlockIs
  <2>2. \A k \in 1 .. n : b[k] \in Slot
    BY <2>1, BlockIs
  <2>3. \A k \in 1 .. n + 1 : c[k] \in Slot
    BY <2>1, BlockIs
  <2>4. \A s \in Slot : s.len \in Int
    BY DEF Slot
  <2>5. QED
    BY <2>1, <2>2, <2>3, <2>4
<1>4. h[n + 1] = g[n]
  <2>1. \A k \in 1 .. i - 1 : v[k] = w[k]
    <3>1. \A k \in 1 .. i - 1 : k \in 1 .. n /\ k \in 1 .. n + 1
      BY <1>3
    <3> HIDE DEF w, v, n
    <3>2. QED
      BY <1>3, <3>1
  <2>2. v[i] + v[i + 1] = w[i]
    <3>1. i \in 1 .. n + 1 /\ i + 1 \in 1 .. n + 1
      BY <1>3
    <3> HIDE DEF w, v, n
    <3>2. QED
      BY <1>3, <3>1
  <2>3. \A k \in i + 1 .. n : v[k + 1] = w[k]
    <3>1. \A k \in i + 1 .. n : k \in 1 .. n /\ k + 1 \in 1 .. n + 1
      BY <1>3
    <3> HIDE DEF w, v
    <3>2. QED
      BY <1>3, <3>1
  <2>4. n \in Nat /\ i \in 1 .. n
    BY <1>3
  <2>5. \A k \in 1 .. n : w[k] \in Int
    BY <1>3
  <2>6. \A k \in 1 .. n + 1 : v[k] \in Int
    BY <1>3
  <2> HIDE DEF w, v, n
  <2>7. CutAt(v, w, i, n)
    BY <2>1, <2>2, <2>3, <2>4, <2>5, <2>6 DEF CutAt
  <2>8. QED
    BY <1>1, <1>2, <2>7, AddsCut
<1>5. WellFormed(b) <=> g[n] = BLK_SIZE /\ \A j \in 1 .. n : Sound(b[j])
  BY <1>1, TiledIs
<1>6. WellFormed(c) <=> h[n + 1] = BLK_SIZE /\ \A j \in 1 .. n + 1 : Sound(c[j])
  BY <1>2, TiledIs
<1>7. QED
  BY <1>4, <1>5, <1>6

LEMMA WellFormedSlots ==
    ASSUME NEW b \in Blocks, WellFormed(b)
    PROVE  \A i \in 1 .. Len(b) : Sound(b[i])
BY LensExist, TiledIs

\* insert_entry keeps a block tiled and adds the name to its entries.
LEMMA InsertIs ==
    ASSUME NEW b \in Blocks, NEW n \in Name, Roomy(b, n) # {}
    PROVE  /\ insert_entry(b, n) \in Blocks
           /\ NamesIn(insert_entry(b, n)) = NamesIn(b) \cup {n}
           /\ WellFormed(b) => WellFormed(insert_entry(b, n))
           /\ Distinct(b) /\ n \notin NamesIn(b) => Distinct(insert_entry(b, n))
<1> DEFINE i == Min(Roomy(b, n))
           c == insert_entry(b, n)
<1>1. i \in 1 .. Len(b) /\ b[i] \in Slot /\ Slack(b[i]) >= EntrySize(n)
      /\ Len(b) \in Nat /\ DOMAIN b = 1 .. Len(b) /\ \A j \in 1 .. Len(b) : b[j] \in Slot
  BY RoomIs, BlockIs
<1>2. EntrySize(n) \in Nat /\ EntrySize(n) > 0 /\ n # Free
  BY EntrySizes, NotFree
<1>3. InsertedAt(b, n, i, c) /\ c \in Blocks
  <2> HIDE DEF i, c
  <2>1. i = Min(Roomy(b, n)) /\ c = insert_entry(b, n)
    BY DEF i, c
  <2>2. QED
    BY <2>1, InsertShape DEF InsertedAt
<1>4. DOMAIN c = 1 .. Len(c)
  <2> HIDE DEF c
  <2>1. QED
    BY <1>3, BlockIs
<1> HIDE DEF i, c
<1>5. CASE b[i].name = Free
  <2>1. Len(c) = Len(b) /\ DOMAIN c = 1 .. Len(b)
    BY <1>3, <1>4, <1>5 DEF InsertedAt
  <2>2. b[i].len \in Nat /\ b[i].len >= EntrySize(n)
    BY <1>1, <1>5, SlackIs
  <2>3. /\ c[i].name = n /\ c[i].len = b[i].len /\ Sound(c[i])
        /\ \A j \in 1 .. Len(b) : j # i => c[j] = b[j]
    BY <1>1, <1>3, <1>5, <2>2, SlotGiven DEF InsertedAt
  <2>4. NamesIn(c) = NamesIn(b) \cup {n}
    <3>1. \A j \in 1 .. Len(b) : j \in Taken(c) <=> j = i \/ j \in Taken(b)
      BY <1>1, <1>2, <2>1, <2>3 DEF Taken
    <3>2. Taken(b) \subseteq 1 .. Len(b) /\ Taken(c) \subseteq 1 .. Len(b) /\ i \notin Taken(b)
      BY <1>1, <1>5, <2>1 DEF Taken
    <3>3. QED
      BY <1>1, <2>3, <3>1, <3>2 DEF NamesIn
  <2>5. WellFormed(b) => WellFormed(c)
    <3>1. SUFFICES ASSUME WellFormed(b) PROVE WellFormed(c)
      OBVIOUS
    <3>2. \A j \in 1 .. Len(b) : c[j].len = b[j].len /\ Sound(c[j])
      BY <2>3, <3>1, WellFormedSlots
    <3>3. QED
      BY <1>3, <2>1, <3>1, <3>2, SameLens
  <2>6. Distinct(b) /\ n \notin NamesIn(b) => Distinct(c)
    <3>1. n \notin NamesIn(b) => \A j \in 1 .. Len(b) : b[j].name # n
      BY <1>1, <1>2 DEF NamesIn, Taken
    <3>2. QED
      BY <1>1, <2>1, <2>3, <3>1 DEF Distinct
  <2>7. QED
    BY <1>3, <2>4, <2>5, <2>6 DEF c
<1>6. CASE b[i].name # Free
  <2>1. /\ Len(c) = Len(b) + 1 /\ DOMAIN c = 1 .. Len(b) + 1
        /\ \A j \in 1 .. i - 1 : c[j] = b[j]
        /\ c[i] = [name |-> b[i].name, len |-> EntrySize(b[i].name)]
        /\ c[i + 1] = [name |-> n, len |-> Slack(b[i])]
        /\ \A j \in i + 1 .. Len(b) : c[j + 1] = b[j]
    BY <1>3, <1>4, <1>6 DEF InsertedAt
  <2>2. /\ b[i].name \in Name \cup {Dot, DotDot} /\ b[i].len \in Nat
        /\ Slack(b[i]) \in Nat /\ EntrySize(b[i].name) + Slack(b[i]) = b[i].len
    <3>1. /\ b[i].name \in Name \cup {Dot, DotDot} /\ b[i].len \in Nat
          /\ Slack(b[i]) \in Int /\ Slack(b[i]) = b[i].len - EntrySize(b[i].name)
      BY <1>1, <1>6, SlackIs
    <3>2. EntrySize(b[i].name) \in Nat
      BY <3>1, EntrySizes
    <3>3. QED
      BY <1>1, <1>2, <3>1, <3>2
  <2>3. /\ c[i].name = b[i].name /\ Sound(c[i]) /\ c[i].len = EntrySize(b[i].name)
        /\ c[i + 1].name = n /\ Sound(c[i + 1]) /\ c[i + 1].len = Slack(b[i])
    BY <1>1, <1>6, <2>1, <2>2, SlotGiven, SlotCut
  <2>4. \A j \in 1 .. Len(b) + 1 :
            \/ j \in 1 .. i - 1 /\ c[j] = b[j]
            \/ j = i \/ j = i + 1
            \/ j - 1 \in i + 1 .. Len(b) /\ c[j] = b[j - 1]
    <3> TAKE j \in 1 .. Len(b) + 1
    <3>1. CASE j \in 1 .. i - 1
      BY <2>1, <3>1
    <3>2. CASE j > i + 1
      <4>1. j - 1 \in i + 1 .. Len(b) /\ (j - 1) + 1 = j
        BY <1>1, <3>2
      <4>2. QED
        BY <2>1, <4>1
    <3>3. QED
      BY <1>1, <3>1, <3>2
  <2>5. NamesIn(c) = NamesIn(b) \cup {n}
    <3>1. ASSUME NEW m \in NamesIn(b) PROVE m \in NamesIn(c)
      <4>1. PICK j \in 1 .. Len(b) : b[j].name = m /\ m # Free
        BY <1>1 DEF NamesIn, Taken
      <4>2. \E k \in 1 .. Len(b) + 1 : c[k].name = m
        <5>1. CASE j \in 1 .. i - 1
          BY <2>1, <4>1, <5>1
        <5>2. CASE j = i
          BY <1>1, <2>3, <4>1, <5>2
        <5>3. CASE j \in i + 1 .. Len(b)
          <6>1. j + 1 \in 1 .. Len(b) + 1
            BY <1>1
          <6>2. QED
            BY <2>1, <4>1, <5>3, <6>1
        <5>4. QED
          BY <1>1, <5>1, <5>2, <5>3
      <4>3. QED
        BY <2>1, <4>1, <4>2 DEF NamesIn, Taken
    <3>2. n \in NamesIn(c)
      <4>1. i + 1 \in 1 .. Len(b) + 1
        BY <1>1
      <4>2. QED
        BY <1>2, <2>1, <2>3, <4>1 DEF NamesIn, Taken
    <3>3. ASSUME NEW m \in NamesIn(c), m # n PROVE m \in NamesIn(b)
      <4>1. PICK j \in 1 .. Len(b) + 1 : c[j].name = m /\ m # Free
        BY <2>1 DEF NamesIn, Taken
      <4>2. \E k \in 1 .. Len(b) : b[k].name = m
        BY <1>1, <2>3, <2>4, <3>3, <4>1
      <4>3. QED
        BY <1>1, <4>1, <4>2 DEF NamesIn, Taken
    <3>4. QED
      BY <3>1, <3>2, <3>3
  <2>6. WellFormed(b) => WellFormed(c)
    <3>1. SUFFICES ASSUME WellFormed(b) PROVE WellFormed(c)
      OBVIOUS
    <3>2. \A j \in 1 .. Len(c) : Sound(c[j])
      <4>1. \A j \in 1 .. Len(b) : Sound(b[j])
        BY <3>1, WellFormedSlots
      <4>2. QED
        BY <1>1, <2>1, <2>3, <2>4, <4>1
    <3>3. /\ \A j \in 1 .. i - 1 : c[j].len = b[j].len
          /\ c[i].len + c[i + 1].len = b[i].len
          /\ \A j \in i + 1 .. Len(b) : c[j + 1].len = b[j].len
      BY <2>1, <2>2, <2>3
    <3>4. QED
      BY <1>1, <1>3, <2>1, <3>1, <3>2, <3>3, CutLens
  <2>7. Distinct(b) /\ n \notin NamesIn(b) => Distinct(c)
    <3>1. SUFFICES ASSUME Distinct(b), n \notin NamesIn(b),
                          NEW j \in 1 .. Len(b) + 1, NEW k \in 1 .. Len(b) + 1,
                          c[j].name \in Name, c[j].name = c[k].name
                   PROVE  j = k
      BY <2>1 DEF Distinct
    <3>2. \A x \in 1 .. Len(b) : b[x].name # n
      BY <1>1, <1>2, <3>1 DEF NamesIn, Taken
    <3>3. \A x, y \in 1 .. Len(b) : b[x].name \in Name /\ b[x].name = b[y].name => x = y
      BY <1>1, <3>1 DEF Distinct
    <3> DEFINE old(x) == IF x <= i THEN x ELSE x - 1
    <3>4. \A x \in 1 .. Len(b) + 1 : x # i + 1 => old(x) \in 1 .. Len(b) /\ c[x].name = b[old(x)].name
      BY <1>1, <2>3, <2>4
    <3>5. j = i + 1 <=> k = i + 1
      BY <2>3, <3>1, <3>2, <3>4
    <3>6. j # i + 1 => old(j) = old(k)
      <4> HIDE DEF old
      <4>1. QED
        BY <3>1, <3>3, <3>4, <3>5
    <3>7. QED
      BY <1>1, <3>5, <3>6
  <2>8. QED
    BY <1>3, <2>5, <2>6, <2>7 DEF c
<1>7. QED
  BY <1>5, <1>6

\* The block c is b with the slot i of the name n given to the slot before.
DestroyedAt(b, n, i, c) ==
    /\ b[i].name = n /\ c \in Blocks
    /\ i = 1 => /\ Len(c) = Len(b)
                /\ c[1] = [name |-> Free, len |-> b[1].len]
                /\ \A j \in 2 .. Len(b) : c[j] = b[j]
    /\ i > 1 => /\ Len(c) = Len(b) - 1
                /\ \A j \in 1 .. i - 2 : c[j] = b[j]
                /\ c[i - 1] = [name |-> b[i - 1].name, len |-> b[i - 1].len + b[i].len]
                /\ \A j \in i .. Len(b) - 1 : c[j] = b[j + 1]

\* What destroy makes of a block: the slot before gets the length.
LEMMA DestroyShape ==
    ASSUME NEW b \in Blocks, NEW n \in Name, n \in NamesIn(b), NEW c, c = destroy(b, n)
    PROVE  \E i \in 1 .. Len(b) : DestroyedAt(b, n, i, c)
<1>1. /\ Len(b) \in Nat /\ DOMAIN b = 1 .. Len(b) /\ b \in Seq(Slot)
      /\ \A j \in 1 .. Len(b) : b[j] \in Slot
  BY BlockIs DEF Blocks
<1>2. \A s \in Slot : s.name \in Name \cup {Dot, DotDot, Free} /\ s.len \in Nat
                      /\ s = [name |-> s.name, len |-> s.len]
  BY DEF Slot
<1> DEFINE i == CHOOSE j \in DOMAIN b : b[j].name = n
<1>3. i \in 1 .. Len(b) /\ b[i].name = n
  BY <1>1 DEF NamesIn, Taken
<1>4. c = IF i = 1 THEN [b EXCEPT ![1].name = Free]
          ELSE RemoveAt([b EXCEPT ![i - 1].len = @ + b[i].len], i)
  BY DEF destroy
<1> HIDE DEF i
<1>5. CASE i = 1
  <2> DEFINE s == [name |-> Free, len |-> b[1].len]
  <2>1. c = [b EXCEPT ![1].name = Free]
    BY <1>4, <1>5
  <2>2. [b[1] EXCEPT !.name = Free] = s
    BY <1>1, <1>2, <1>3, <1>5
  <2>3. c = [b EXCEPT ![1] = s]
    BY <1>1, <2>1, <2>2
  <2>4. s \in Slot
    BY <1>1, <1>2, <1>3, <1>5 DEF Slot
  <2> HIDE DEF s
  <2>5. c \in Seq(Slot) /\ Len(c) = Len(b) /\ c[1] = s /\ \A j \in 2 .. Len(b) : c[j] = b[j]
    BY <1>1, <1>3, <1>5, <2>3, <2>4
  <2>6. QED
    BY <1>3, <1>5, <2>5 DEF Blocks, s, DestroyedAt
<1>6. CASE i # 1
  <2> DEFINE s == [name |-> b[i - 1].name, len |-> b[i - 1].len + b[i].len]
             d == [b EXCEPT ![i - 1] = s]
  <2>1. i - 1 \in 1 .. Len(b) /\ i \in 1 .. Len(b) /\ i > 1
    BY <1>1, <1>3, <1>6
  <2>2. s \in Slot
    BY <1>1, <1>2, <2>1 DEF Slot
  <2>3. [b[i - 1] EXCEPT !.len = b[i - 1].len + b[i].len] = s
    BY <1>1, <1>2, <2>1
  <2>4. c = RemoveAt(d, i)
    BY <1>1, <1>4, <1>6, <2>1, <2>3
  <2>5. d \in Seq(Slot) /\ Len(d) = Len(b) /\ d[i - 1] = s
        /\ \A j \in 1 .. Len(b) : j # i - 1 => d[j] = b[j]
    <3> HIDE DEF s
    <3>1. QED
      BY <1>1, <2>1, <2>2
  <2> HIDE DEF s, d
  <2>6. /\ c \in Seq(Slot) /\ Len(c) = Len(b) - 1
        /\ \A j \in 1 .. i - 1 : c[j] = d[j]
        /\ \A j \in i .. Len(b) - 1 : c[j] = d[j + 1]
    <3>1. i \in 1 .. Len(d) /\ d \in Seq(Slot)
      BY <2>1, <2>5
    <3>2. /\ RemoveAt(d, i) \in Seq(Slot) /\ Len(RemoveAt(d, i)) = Len(d) - 1
          /\ \A j \in 1 .. i - 1 : RemoveAt(d, i)[j] = d[j]
          /\ \A j \in i .. Len(d) - 1 : RemoveAt(d, i)[j] = d[j + 1]
      BY <3>1, RemoveAtIs
    <3>3. QED
      BY <2>4, <2>5, <3>2
  <2>7. \A j \in 1 .. i - 2 : c[j] = b[j]
    BY <1>1, <2>1, <2>5, <2>6
  <2>8. \A j \in i .. Len(b) - 1 : c[j] = b[j + 1]
    <3>1. \A j \in i .. Len(b) - 1 : j + 1 \in 1 .. Len(b) /\ j + 1 # i - 1
      BY <1>1, <2>1
    <3>2. QED
      BY <2>5, <2>6, <3>1
  <2>9. c[i - 1] = s
    BY <1>1, <2>1, <2>5, <2>6
  <2>10. DestroyedAt(b, n, i, c)
    BY <1>3, <2>1, <2>6, <2>7, <2>8, <2>9 DEF Blocks, s, DestroyedAt
  <2>11. QED
    BY <1>3, <2>10
<1>7. QED
  BY <1>5, <1>6

\* destroy keeps a block tiled, takes the name out of it, and takes no room away.
LEMMA DestroyIs ==
    ASSUME NEW b \in Blocks, NEW n \in Name, n \in NamesIn(b), WellFormed(b), Distinct(b)
    PROVE  /\ destroy(b, n) \in Blocks
           /\ WellFormed(destroy(b, n)) /\ Distinct(destroy(b, n))
           /\ NamesIn(destroy(b, n)) = NamesIn(b) \ {n}
           /\ \A m \in Name : Roomy(b, m) # {} => Roomy(destroy(b, n), m) # {}
<1> DEFINE c == destroy(b, n)
<1>1. /\ Len(b) \in Nat /\ DOMAIN b = 1 .. Len(b) /\ \A j \in 1 .. Len(b) : b[j] \in Slot
  BY BlockIs
<1>2. PICK i \in 1 .. Len(b) : DestroyedAt(b, n, i, c)
  <2> HIDE DEF c
  <2>1. c = destroy(b, n)
    BY DEF c
  <2>2. QED
    BY <2>1, DestroyShape
<1> HIDE DEF c
<1>3. DOMAIN c = 1 .. Len(c) /\ (\A j \in 1 .. Len(c) : c[j] \in Slot) /\ c \in Blocks /\ b[i].name = n
  BY <1>2, BlockIs DEF DestroyedAt
<1>4. \A j \in 1 .. Len(b) : Sound(b[j])
  BY WellFormedSlots
<1>5. /\ \A m \in Name : EntrySize(m) \in Nat /\ EntrySize(m) > 0
      /\ \A m \in Name : m # Free
  BY EntrySizes, NotFree
<1>6. \A x, y \in 1 .. Len(b) : b[x].name \in Name /\ b[x].name = b[y].name => x = y
  BY <1>1 DEF Distinct
<1>7. \A s \in Slot : /\ s.name = Free => Slack(s) = s.len
                      /\ s.name # Free => Slack(s) = s.len - EntrySize(s.name)
                                          /\ EntrySize(s.name) \in Nat
                      /\ s.len \in Nat /\ Slack(s) \in Int
  BY SlackIs, EntrySizes
<1>8. CASE i = 1
  <2>1. /\ DOMAIN c = 1 .. Len(b) /\ Len(c) = Len(b) /\ 1 \in 1 .. Len(b)
        /\ c[1].name = Free /\ c[1].len = b[1].len
        /\ \A j \in 1 .. Len(b) : j # 1 => c[j] = b[j]
    <3>1. /\ Len(c) = Len(b) /\ c[1] = [name |-> Free, len |-> b[1].len]
          /\ \A j \in 2 .. Len(b) : c[j] = b[j]
      BY <1>2, <1>8 DEF DestroyedAt
    <3>2. \A j \in 1 .. Len(b) : j # 1 => j \in 2 .. Len(b)
      BY <1>1
    <3>3. QED
      BY <1>1, <1>3, <1>8, <3>1, <3>2
  <2>2. Slack(c[1]) = b[1].len /\ b[1].len \in Nat /\ b[1].len > 0 /\ b[1].len >= Slack(b[1])
        /\ Slack(b[1]) \in Int
    BY <1>1, <1>3, <1>4, <1>7, <2>1 DEF Sound
  <2>3. \A j \in 1 .. Len(b) : c[j].len = b[j].len /\ Sound(c[j])
    BY <1>4, <2>1, <2>2 DEF Sound
  <2>4. WellFormed(c)
    BY <1>3, <2>1, <2>3, SameLens
  <2>5. Distinct(c)
    <3>1. Free \notin Name
      BY <1>5
    <3>2. QED
      BY <1>6, <2>1, <3>1 DEF Distinct
  <2>6. NamesIn(c) = NamesIn(b) \ {n}
    <3>1. \A j \in 1 .. Len(b) : j # 1 => b[j].name # n
      BY <1>3, <1>6, <1>8
    <3>2. \A j \in 1 .. Len(b) : c[j].name # Free <=> j # 1 /\ b[j].name # Free
      BY <2>1
    <3>3. \A x : x \in NamesIn(c) <=> \E j \in 1 .. Len(b) : c[j].name # Free /\ x = c[j].name
      BY <2>1 DEF NamesIn, Taken
    <3>4. \A x : x \in NamesIn(b) <=> \E j \in 1 .. Len(b) : b[j].name # Free /\ x = b[j].name
      BY <1>1 DEF NamesIn, Taken
    <3>5. QED
      BY <1>3, <1>8, <2>1, <3>1, <3>2, <3>3, <3>4
  <2>7. ASSUME NEW m \in Name, Roomy(b, m) # {} PROVE Roomy(c, m) # {}
    <3>1. PICK x \in 1 .. Len(b) : Slack(b[x]) >= EntrySize(m)
      BY <1>1, <2>7 DEF Roomy
    <3>2. Slack(c[x]) >= EntrySize(m)
      BY <1>5, <2>1, <2>2, <3>1
    <3>3. QED
      BY <2>1, <3>1, <3>2 DEF Roomy
  <2>8. QED
    BY <1>3, <2>4, <2>5, <2>6, <2>7 DEF c
<1>9. CASE i > 1
  <2> DEFINE p == i - 1
             l == Len(b) - 1
  <2>1. /\ DOMAIN c = 1 .. l /\ Len(c) = l /\ p \in 1 .. l /\ l \in Nat
        /\ p \in 1 .. Len(b) /\ Len(b) = l + 1 /\ i = p + 1
    <3>1. Len(c) = Len(b) - 1
      BY <1>2, <1>9 DEF DestroyedAt
    <3>2. QED
      BY <1>1, <1>3, <1>9, <3>1
  <2>2. /\ \A j \in 1 .. p - 1 : c[j] = b[j]
        /\ c[p].name = b[p].name /\ c[p].len = b[p].len + b[p + 1].len
        /\ \A j \in p + 1 .. l : c[j] = b[j + 1]
    BY <1>1, <1>2, <1>9 DEF DestroyedAt
  <2>3. \A j \in 1 .. l : j # p => \/ j \in 1 .. p - 1
                                   \/ j \in p + 1 .. l
    BY <2>1
  <2> DEFINE old(j) == IF j <= p THEN j ELSE j + 1
  <2>4. \A j \in 1 .. l : /\ old(j) \in 1 .. Len(b) /\ old(j) # i
                          /\ c[j].name = b[old(j)].name
                          /\ j # p => c[j] = b[old(j)]
    BY <2>1, <2>2, <2>3
  <2>5. \A j, k \in 1 .. l : old(j) = old(k) => j = k
    BY <2>1
  <2>6. \A x \in 1 .. Len(b) : x # i => \E j \in 1 .. l : x = old(j)
    <3> TAKE x \in 1 .. Len(b)
    <3>1. CASE x < i
      <4>1. x \in 1 .. l /\ x = old(x)
        BY <2>1, <3>1
      <4>2. QED
        BY <4>1
    <3>2. CASE x > i
      <4>1. x - 1 \in 1 .. l /\ x = old(x - 1)
        BY <2>1, <3>2
      <4>2. QED
        BY <4>1
    <3>3. QED
      BY <1>2, <3>1, <3>2
  <2>7. old(p) = p
    OBVIOUS
  <2>8. p + 1 \in 1 .. Len(b)
    BY <2>1
  <2> HIDE DEF p, l, old
  <2>9. /\ Slack(c[p]) = Slack(b[p]) + b[i].len /\ Slack(b[p]) >= 0 /\ b[p].len > 0
        /\ b[i].len \in Nat /\ Slack(b[p]) \in Int /\ Slack(b[i]) <= b[i].len
        /\ Slack(b[i]) \in Int /\ b[p].len \in Nat
    <3>1. Slack(b[p]) >= 0 /\ b[p].len > 0 /\ b[p] \in Slot /\ b[i] \in Slot /\ c[p] \in Slot
      BY <1>1, <1>3, <1>4, <2>1, <2>8 DEF Sound
    <3>2. c[p].name = b[p].name /\ c[p].len = b[p].len + b[i].len
      BY <2>1, <2>2
    <3>3. Slack(b[i]) <= b[i].len /\ b[i].len \in Nat /\ b[p].len \in Nat
          /\ Slack(b[p]) \in Int /\ Slack(b[i]) \in Int
      BY <1>7, <3>1
    <3>4. Slack(c[p]) = Slack(b[p]) + b[i].len
      <4>1. CASE b[p].name = Free
        BY <1>7, <3>1, <3>2, <3>3, <4>1
      <4>2. CASE b[p].name # Free
        <5>1. /\ Slack(b[p]) = b[p].len - EntrySize(b[p].name)
              /\ Slack(c[p]) = c[p].len - EntrySize(b[p].name)
              /\ EntrySize(b[p].name) \in Nat
          BY <1>7, <3>1, <3>2, <4>2
        <5>2. QED
          BY <3>2, <3>3, <5>1
      <4>3. QED
        BY <4>1, <4>2
    <3>5. QED
      BY <3>1, <3>3, <3>4
  <2>10. Sound(c[p])
    BY <2>1, <2>2, <2>9 DEF Sound
  <2>11. WellFormed(c)
    <3>1. \A j \in 1 .. l : Sound(c[j])
      BY <1>4, <2>4, <2>10
    <3>2. \A j \in 1 .. p - 1 : b[j].len = c[j].len
      BY <2>2
    <3>3. \A j \in p + 1 .. l : b[j + 1].len = c[j].len
      BY <2>2
    <3>4. b[p].len + b[p + 1].len = c[p].len
      BY <2>2
    <3>5. QED
      BY <1>3, <2>1, <3>1, <3>2, <3>3, <3>4, CutLens
  <2>12. Distinct(c)
    <3>1. SUFFICES ASSUME NEW j \in 1 .. l, NEW k \in 1 .. l, c[j].name \in Name, c[j].name = c[k].name
                   PROVE  j = k
      BY <2>1 DEF Distinct
    <3>2. old(j) = old(k)
      BY <1>6, <2>4, <3>1
    <3>3. QED
      BY <2>5, <3>2
  <2>13. NamesIn(c) = NamesIn(b) \ {n}
    <3>1. \A x : x \in NamesIn(c) <=> \E j \in 1 .. l : c[j].name # Free /\ x = c[j].name
      BY <2>1 DEF NamesIn, Taken
    <3>2. \A x : x \in NamesIn(b) <=> \E j \in 1 .. Len(b) : b[j].name # Free /\ x = b[j].name
      BY <1>1 DEF NamesIn, Taken
    <3>3. ASSUME NEW x \in NamesIn(c) PROVE x \in NamesIn(b) \ {n}
      <4>1. PICK j \in 1 .. l : c[j].name # Free /\ x = c[j].name
        BY <3>1, <3>3
      <4>2. x = b[old(j)].name /\ old(j) \in 1 .. Len(b) /\ old(j) # i
        BY <2>4, <4>1
      <4>3. x # n
        BY <1>3, <1>6, <4>2
      <4>4. QED
        BY <3>2, <4>1, <4>2, <4>3
    <3>4. ASSUME NEW x \in NamesIn(b), x # n PROVE x \in NamesIn(c)
      <4>1. PICK j \in 1 .. Len(b) : b[j].name # Free /\ x = b[j].name
        BY <3>2, <3>4
      <4>2. PICK k \in 1 .. l : j = old(k)
        BY <1>3, <2>6, <3>4, <4>1
      <4>3. QED
        BY <2>4, <3>1, <4>1, <4>2
    <3>5. QED
      BY <3>3, <3>4
  <2>14. ASSUME NEW m \in Name, Roomy(b, m) # {} PROVE Roomy(c, m) # {}
    <3>1. PICK x \in 1 .. Len(b) : Slack(b[x]) >= EntrySize(m)
      BY <1>1, <2>14 DEF Roomy
    <3>2. CASE x = i \/ x = p
      <4>1. Slack(c[p]) >= EntrySize(m)
        BY <1>5, <2>9, <3>1, <3>2
      <4>2. QED
        BY <2>1, <4>1 DEF Roomy
    <3>3. CASE x # i /\ x # p
      <4>1. PICK k \in 1 .. l : x = old(k)
        BY <2>6, <3>3
      <4>2. c[k] = b[x]
        BY <2>4, <2>7, <3>3, <4>1
      <4>3. QED
        BY <2>1, <3>1, <4>2 DEF Roomy
    <3>4. QED
      BY <3>2, <3>3
  <2>15. QED
    BY <1>3, <2>11, <2>12, <2>13, <2>14 DEF c
<1>10. QED
  BY <1>1, <1>8, <1>9

\* A cleared block.
LEMMA ClearedIs ==
    /\ Cleared \in Blocks /\ WellFormed(Cleared) /\ Distinct(Cleared) /\ NamesIn(Cleared) = {}
    /\ \A n \in Name : Roomy(Cleared, n) # {}
<1> DEFINE s == [name |-> Free, len |-> BLK_SIZE]
<1>1. s \in Slot /\ Slack(s) = BLK_SIZE /\ BLK_SIZE \in Nat \ {0} /\ Sound(s) /\ Free \notin Name
  BY BlockAssumption, NotFree DEF Slot, Slack, Sound
<1>2. Cleared = <<s>>
  BY DEF Cleared
<1>3. Cleared \in Blocks /\ Len(Cleared) = 1 /\ DOMAIN Cleared = {1} /\ Cleared[1] = s
  <2> HIDE DEF s
  <2>1. QED
    BY <1>1, <1>2 DEF Blocks
<1>4. WellFormed(Cleared)
  <2>1. PICK g : Adds(g, [i \in 1 .. Len(Cleared) |-> Cleared[i].len], Len(Cleared))
    BY <1>3, LensExist
  <2>2. 1 \in 1 .. 1 /\ 1 - 1 = 0
    OBVIOUS
  <2>3. g[1] = BLK_SIZE
    <3>1. g[1] = g[1 - 1] + [i \in 1 .. Len(Cleared) |-> Cleared[i].len][1] /\ g[0] = 0
      BY <1>3, <2>1, <2>2 DEF Adds
    <3>2. [i \in 1 .. Len(Cleared) |-> Cleared[i].len][1] = BLK_SIZE
      BY <1>3, <2>2
    <3>3. QED
      BY <1>1, <2>2, <3>1, <3>2
  <2>4. \A i \in 1 .. Len(Cleared) : Sound(Cleared[i])
    BY <1>1, <1>3
  <2>5. QED
    BY <1>3, <2>1, <2>3, <2>4, TiledIs
<1>5. ASSUME NEW n \in Name PROVE Roomy(Cleared, n) # {}
  <2>1. NameLen[n] \in Nat /\ NameLen[n] + 11 <= BLK_SIZE /\ LenOf(n) = NameLen[n]
        /\ EntrySize(n) \in Nat /\ EntrySize(n) <= LenOf(n) + 11
    BY BlockAssumption, EntrySizes DEF LenOf
  <2>2. Slack(Cleared[1]) >= EntrySize(n)
    BY <1>1, <1>3, <2>1
  <2>3. QED
    BY <1>3, <2>2 DEF Roomy
<1>6. QED
  <2>1. NamesIn(Cleared) = {} /\ Distinct(Cleared)
    BY <1>3 DEF NamesIn, Taken, Distinct
  <2>2. QED
    BY <1>3, <1>4, <1>5, <2>1

\* Sums of numbers that are not negative grow.
LEMMA AddsGrow ==
    ASSUME NEW n \in Nat, NEW w, NEW g, Adds(g, w, n), \A k \in 1 .. n : w[k] \in Nat,
           NEW m \in 0 .. n
    PROVE  g[m] <= g[n] /\ g[m] \in Nat
<1> DEFINE S == {k \in 0 .. n : g[k] \in Nat /\ (k >= m => g[m] <= g[k])}
<1>1. 0 \in S
  BY DEF Adds
<1>2. ASSUME NEW k \in 0 .. n, k < n, k \in S PROVE k + 1 \in S
  <2>1. k + 1 \in 1 .. n /\ k + 1 \in 0 .. n /\ (k + 1) - 1 = k /\ m \in Nat /\ k \in Nat
    BY <1>2
  <2>2. g[k + 1] = g[(k + 1) - 1] + w[k + 1] /\ w[k + 1] \in Nat
    BY <2>1 DEF Adds
  <2>3. g[k] \in Nat /\ (k >= m => g[m] <= g[k])
    BY <1>2
  <2>4. g[k + 1] = g[k] + w[k + 1] /\ g[k + 1] \in Nat /\ g[k] <= g[k + 1]
    BY <2>1, <2>2, <2>3
  <2>5. k + 1 >= m => g[m] <= g[k + 1]
    <3>1. CASE k >= m
      <4>1. g[m] \in Int
        BY DEF Adds
      <4>2. QED
        BY <2>3, <2>4, <3>1, <4>1
    <3>2. CASE ~ (k >= m)
      <4>1. k + 1 >= m => k + 1 = m
        BY <2>1, <3>2
      <4>2. QED
        BY <2>4, <4>1
    <3>3. QED
      BY <3>1, <3>2
  <2>6. QED
    BY <2>1, <2>4, <2>5
<1> HIDE DEF S
<1>3. \A k \in 0 .. n : k \in S
  BY <1>1, <1>2, UpTo
<1>4. n \in 0 .. n /\ n >= m
  OBVIOUS
<1>5. QED
  BY <1>3, <1>4 DEF S

\* What insert_entry leaves, when it may also find no room.
PutIn(b, n) == IF Roomy(b, n) = {} THEN b ELSE insert_entry(b, n)

LEMMA PutInIs ==
    ASSUME NEW b \in Blocks, NEW n \in Name
    PROVE  PutIn(b, n) \in Blocks
BY InsertIs DEF PutIn

\* r[k] is a cleared block with the first k of the names put in.
Walks(r, es) ==
    /\ r \in [0 .. Len(es) -> Blocks] /\ r[0] = Cleared
    /\ \A k \in 1 .. Len(es) : r[k] = PutIn(r[k - 1], es[k])

LEMMA FilledWalks ==
    ASSUME NEW es \in Seq(Name)
    PROVE  \E r : Walks(r, es) /\ Filled(es) = r[Len(es)]
<1> DEFINE n == Len(es)
           step == [b \in Blocks |-> [k \in 1 .. n |-> PutIn(b, es[k])]]
           Is(f) == f = [s \in SUBSET (1 .. n) |->
                           IF s = {} THEN Cleared
                           ELSE IF Roomy(f[s \ {Max(s)}], es[Max(s)]) = {} THEN f[s \ {Max(s)}]
                                ELSE insert_entry(f[s \ {Max(s)}], es[Max(s)])]
<1>1. n \in Nat /\ DOMAIN es = 1 .. n /\ \A k \in 1 .. n : es[k] \in Name
  OBVIOUS
<1>2. step \in [Blocks -> [1 .. n -> Blocks]]
  BY <1>1, PutInIs
<1>3. PICK f : f \in [SUBSET (1 .. n) -> Blocks] /\ Folding(f, Cleared, step, n)
  <2> HIDE DEF step, n
  <2>1. QED
    BY <1>1, <1>2, ClearedIs, FoldingExists
<1> HIDE DEF n
<1>4. \A q \in [SUBSET (1 .. n) -> Blocks], s \in SUBSET (1 .. n) :
          s # {} => step[q[s \ {Max(s)}]][Max(s)]
                    = IF Roomy(q[s \ {Max(s)}], es[Max(s)]) = {} THEN q[s \ {Max(s)}]
                      ELSE insert_entry(q[s \ {Max(s)}], es[Max(s)])
  <2> TAKE q \in [SUBSET (1 .. n) -> Blocks], s \in SUBSET (1 .. n)
  <2>1. ASSUME s # {} PROVE Max(s) \in 1 .. n /\ q[s \ {Max(s)}] \in Blocks
    BY <1>1, <2>1, MaxOfUpTo
  <2>2. QED
    BY <2>1 DEF PutIn
<1>5. Is(f)
  <2>1. \A s \in SUBSET (1 .. n) : f[s] = IF s = {} THEN Cleared ELSE step[f[s \ {Max(s)}]][Max(s)]
    <3> HIDE DEF step
    <3>1. QED
      BY <1>3 DEF Folding
  <2> HIDE DEF step
  <2>2. QED
    BY <1>3, <1>4, <2>1
<1>6. ASSUME NEW q, Is(q) PROVE q = f
  <2> DEFINE Bad == {k \in 0 .. n : \E s \in SUBSET (1 .. k) : q[s] # f[s]}
  <2>1. SUFFICES ASSUME Bad # {} PROVE FALSE
    <3>1. n \in 0 .. n /\ DOMAIN q = SUBSET (1 .. n) /\ DOMAIN f = SUBSET (1 .. n)
      BY <1>1, <1>3, <1>6
    <3>2. q = [s \in SUBSET (1 .. n) |-> q[s]] /\ f = [s \in SUBSET (1 .. n) |-> f[s]]
      <4> HIDE DEF Is
      <4>1. q = [s \in SUBSET (1 .. n) |-> q[s]]
        BY <1>6 DEF Is
      <4>2. f = [s \in SUBSET (1 .. n) |-> f[s]]
        BY <1>3
      <4>3. QED
        BY <4>1, <4>2
    <3>3. ASSUME Bad = {} PROVE q = f
      <4>1. \A s \in SUBSET (1 .. n) : q[s] = f[s]
        BY <3>1, <3>3
      <4> HIDE DEF Is
      <4>2. QED
        BY <3>2, <4>1
    <3>4. QED
      BY <3>3
  <2>2. PICK k \in Bad : \A j \in Bad : k <= j
    <3>1. Bad \in SUBSET Nat
      BY <1>1
    <3> HIDE DEF Bad
    <3>2. QED
      BY <2>1, <3>1, LeastExists
  <2>3. PICK s \in SUBSET (1 .. k) : q[s] # f[s]
    OBVIOUS
  <2>4. k \in 0 .. n /\ k \in Nat /\ s \in SUBSET (1 .. n)
    BY <1>1
  <2>5. s # {}
    <3>1. q[{}] = Cleared /\ f[{}] = Cleared
      BY <1>5, <1>6
    <3> HIDE DEF Is
    <3>2. QED
      BY <2>3, <3>1
  <2>6. k \in s
    <3>1. SUFFICES ASSUME k \notin s PROVE FALSE
      OBVIOUS
    <3>2. k > 0 /\ k - 1 \in 0 .. n /\ s \in SUBSET (1 .. k - 1)
      <4>1. PICK x \in s : TRUE
        BY <2>5
      <4>2. \A y \in s : y \in 1 .. k /\ y # k
        BY <3>1
      <4>3. \A y \in s : y \in 1 .. k - 1
        BY <2>4, <4>2
      <4>4. k > 0
        BY <2>4, <4>1, <4>2
      <4>5. k - 1 \in 0 .. n
        BY <1>1, <2>4, <4>4
      <4>6. QED
        BY <4>3, <4>4, <4>5
    <3>3. k - 1 \in Bad
      BY <2>3, <3>2
    <3>4. QED
      BY <2>2, <2>4, <3>3
  <2>7. Max(s) = k
    BY <2>4, <2>6, MaxOfUpTo
  <2>8. k - 1 \in 0 .. n /\ s \ {k} \in SUBSET (1 .. k - 1) /\ s \ {k} \in SUBSET (1 .. n)
    <3>1. \A y \in s \ {k} : y \in 1 .. k /\ y # k
      OBVIOUS
    <3>2. \A y \in s \ {k} : y \in 1 .. k - 1
      BY <2>4, <3>1
    <3>3. k \in 1 .. k
      BY <2>6
    <3>4. k - 1 \in 0 .. n
      BY <1>1, <2>4, <3>3
    <3>5. QED
      BY <2>4, <3>2, <3>4
  <2>9. q[s \ {k}] = f[s \ {k}]
    <3>1. SUFFICES ASSUME q[s \ {k}] # f[s \ {k}] PROVE FALSE
      OBVIOUS
    <3>2. k - 1 \in Bad
      BY <2>8, <3>1
    <3>3. QED
      BY <2>2, <2>4, <3>2
  <2>10. /\ q[s] = IF Roomy(q[s \ {Max(s)}], es[Max(s)]) = {} THEN q[s \ {Max(s)}]
                                ELSE insert_entry(q[s \ {Max(s)}], es[Max(s)])
         /\ f[s] = IF Roomy(f[s \ {Max(s)}], es[Max(s)]) = {} THEN f[s \ {Max(s)}]
                                ELSE insert_entry(f[s \ {Max(s)}], es[Max(s)])
    BY <1>5, <1>6, <2>4, <2>5
  <2>11. QED
    BY <2>3, <2>7, <2>9, <2>10
<1> DEFINE r == CHOOSE q : Is(q)
<1>7. Filled(es) = r[DOMAIN es]
  BY <1>1 DEF Filled, FoldLeft, MapThenFoldSet
<1>8. r = f
  <2>1. Is(r)
    <3> HIDE DEF Is
    <3>1. QED
      BY <1>5
  <2> HIDE DEF Is, r
  <2>2. QED
    BY <1>6, <2>1
<1> HIDE DEF r, Is
<1> DEFINE w == [k \in 0 .. n |-> f[1 .. k]]
<1>9. \A k \in 0 .. n : 1 .. k \in SUBSET (1 .. n)
  BY <1>1
<1>10. w \in [0 .. n -> Blocks]
  BY <1>3, <1>9
<1>11. w[0] = Cleared /\ \A k \in 1 .. n : w[k] = PutIn(w[k - 1], es[k])
  <2>1. /\ f[1 .. 0] = Cleared
        /\ \A k \in 1 .. n : f[1 .. k] = step[f[1 .. k - 1]][k]
    <3> HIDE DEF step, w
    <3>1. Folding(f, Cleared, step, n) /\ n \in Nat
      BY <1>1, <1>3
    <3>2. f[1 .. 0] = Cleared
      BY <3>1, FoldingWalks
    <3>3. ASSUME NEW k \in 1 .. n PROVE f[1 .. k] = step[f[1 .. k - 1]][k]
      BY <3>1, FoldingWalks
    <3>4. QED
      BY <3>2, <3>3
  <2>2. \A k \in 1 .. n : k \in 0 .. n /\ k - 1 \in 0 .. n /\ f[1 .. k - 1] \in Blocks
    BY <1>1, <1>3, <1>9
  <2>3. 0 \in 0 .. n
    BY <1>1
  <2>4. QED
    BY <2>1, <2>2, <2>3
<1>12. Walks(w, es)
  <2> HIDE DEF w
  <2>1. QED
    BY <1>10, <1>11 DEF Walks, n
<1>13. Filled(es) = w[Len(es)]
  <2>1. n \in 0 .. n
    BY <1>1
  <2>2. QED
    BY <1>1, <1>7, <1>8, <2>1 DEF n
<1>14. QED
  BY <1>12, <1>13

\* No name comes twice.
Once(es) == \A i, j \in DOMAIN es : es[i] = es[j] => i = j

\* A block filled with names is tiled and has no other name.
LEMMA FilledKeeps ==
    ASSUME NEW es \in Seq(Name), Once(es)
    PROVE  /\ Filled(es) \in Blocks /\ WellFormed(Filled(es)) /\ Distinct(Filled(es))
           /\ NamesIn(Filled(es)) \subseteq {es[k] : k \in DOMAIN es}
<1>1. PICK r : Walks(r, es) /\ Filled(es) = r[Len(es)]
  BY FilledWalks
<1>2. Len(es) \in Nat /\ DOMAIN es = 1 .. Len(es) /\ \A k \in 1 .. Len(es) : es[k] \in Name
  OBVIOUS
<1> DEFINE n == Len(es)
           S == {k \in 0 .. n : /\ WellFormed(r[k]) /\ Distinct(r[k])
                                /\ NamesIn(r[k]) \subseteq {es[j] : j \in 1 .. k}}
<1>3. 0 \in S
  <2>1. 0 \in 0 .. n /\ r[0] = Cleared
    BY <1>1, <1>2 DEF Walks
  <2>2. QED
    BY <2>1, ClearedIs
<1>4. ASSUME NEW k \in 0 .. n, k < n, k \in S PROVE k + 1 \in S
  <2>1. k + 1 \in 1 .. n /\ k + 1 \in 0 .. n /\ (k + 1) - 1 = k
    BY <1>2, <1>4
  <2>2. r[k] \in Blocks /\ r[k + 1] = PutIn(r[k], es[k + 1]) /\ es[k + 1] \in Name
    BY <1>1, <1>2, <2>1 DEF Walks
  <2>3. WellFormed(r[k]) /\ Distinct(r[k]) /\ NamesIn(r[k]) \subseteq {es[j] : j \in 1 .. k}
    BY <1>4
  <2>4. es[k + 1] \notin NamesIn(r[k])
    <3>1. \A j \in 1 .. k : j \in 1 .. n /\ j # k + 1
      BY <1>2, <2>1
    <3>2. \A j \in 1 .. k : es[j] # es[k + 1]
      BY <1>2, <2>1, <3>1 DEF Once
    <3>3. QED
      BY <2>3, <3>2
  <2>5. {es[j] : j \in 1 .. k} \cup {es[k + 1]} \subseteq {es[j] : j \in 1 .. k + 1}
    <3>1. \A j \in 1 .. k : j \in 1 .. k + 1
      BY <2>1
    <3>2. k + 1 \in 1 .. k + 1
      BY <2>1
    <3>3. QED
      BY <3>1, <3>2
  <2>6. /\ WellFormed(r[k + 1]) /\ Distinct(r[k + 1])
        /\ NamesIn(r[k + 1]) \subseteq {es[j] : j \in 1 .. k} \cup {es[k + 1]}
    <3>1. CASE Roomy(r[k], es[k + 1]) = {}
      BY <2>2, <2>3, <3>1 DEF PutIn
    <3>2. CASE Roomy(r[k], es[k + 1]) # {}
      <4>1. r[k + 1] = insert_entry(r[k], es[k + 1])
        BY <2>2, <3>2 DEF PutIn
      <4>2. QED
        BY <2>2, <2>3, <2>4, <3>2, <4>1, InsertIs
    <3>3. QED
      BY <3>1, <3>2
  <2>7. QED
    BY <2>1, <2>5, <2>6
<1> HIDE DEF S
<1>5. \A k \in 0 .. n : k \in S
  BY <1>2, <1>3, <1>4, UpTo
<1>6. n \in S /\ r[n] \in Blocks
  BY <1>1, <1>2, <1>5 DEF Walks
<1>7. QED
  BY <1>1, <1>2, <1>6 DEF S

\* The slots of a block filled with the first k names: each as short as its entry
\* allows, the last one as long as the rest of the block.
Packed(b, es, g, k) ==
    /\ Len(b) = k
    /\ \A j \in 1 .. k : b[j].name = es[j] /\ (j < k => Slack(b[j]) = 0)
    /\ b[k].len = BLK_SIZE - g[k - 1]

\* Names that fit into a block all get there.
LEMMA FilledHolds ==
    ASSUME NEW es \in Seq(Name),
           NEW g, Adds(g, [k \in 1 .. Len(es) |-> EntrySize(es[k])], Len(es)),
           g[Len(es)] <= BLK_SIZE
    PROVE  NamesIn(Filled(es)) = {es[k] : k \in DOMAIN es}
<1>1. PICK r : Walks(r, es) /\ Filled(es) = r[Len(es)]
  BY FilledWalks
<1> DEFINE n == Len(es)
           w == [k \in 1 .. Len(es) |-> EntrySize(es[k])]
<1>2. n \in Nat /\ DOMAIN es = 1 .. n /\ \A k \in 1 .. n : es[k] \in Name
  OBVIOUS
<1>3. \A k \in 1 .. n : w[k] = EntrySize(es[k]) /\ w[k] \in Nat /\ EntrySize(es[k]) > 0
  BY <1>2, EntrySizes
<1>4. \A k \in 0 .. n : g[k] \in Nat /\ g[k] <= BLK_SIZE
  <2>1. g[n] \in Int /\ BLK_SIZE \in Nat
    <3>1. n \in 0 .. n
      BY <1>2
    <3>2. g \in [0 .. n -> Int]
      BY DEF Adds
    <3>3. QED
      BY <3>1, <3>2, BlockAssumption
  <2>2. \A k \in 0 .. n : g[k] <= g[n] /\ g[k] \in Nat
    <3> HIDE DEF w, n
    <3>1. Adds(g, w, n)
      BY DEF w, n
    <3>2. QED
      BY <1>2, <1>3, <3>1, AddsGrow
  <2>3. QED
    BY <2>1, <2>2
<1>5. \A k \in 1 .. n : g[k] = g[k - 1] + EntrySize(es[k])
  <2>1. \A k \in 1 .. n : g[k] = g[k - 1] + w[k]
    BY DEF Adds
  <2>2. QED
    BY <1>3, <2>1
<1> HIDE DEF w
<1>6. CASE n = 0
  <2>1. r[n] = Cleared
    BY <1>1, <1>6 DEF Walks
  <2>2. QED
    BY <1>1, <1>2, <1>6, <2>1, ClearedIs
<1>7. CASE n > 0
  <2> DEFINE S == {k \in 1 .. n : Packed(r[k], es, g, k)}
  <2>1. 1 \in 1 .. n /\ 1 - 1 = 0 /\ 1 \in Nat /\ g[0] = 0 /\ r[0] = Cleared
    BY <1>1, <1>2, <1>7 DEF Adds, Walks
  <2>2. 1 \in S
    <3>1. r[1] = PutIn(Cleared, es[1]) /\ es[1] \in Name
      BY <1>1, <1>2, <2>1 DEF Walks
    <3>2. /\ Roomy(Cleared, es[1]) # {} /\ Cleared \in Blocks /\ Len(Cleared) = 1
          /\ DOMAIN Cleared = {1} /\ Cleared[1].name = Free /\ Cleared[1].len = BLK_SIZE
      BY <3>1, ClearedIs DEF Cleared
    <3>3. Min(Roomy(Cleared, es[1])) = 1
      <4>1. Min(Roomy(Cleared, es[1])) \in DOMAIN Cleared
        BY <3>1, <3>2, RoomIs
      <4>2. QED
        BY <3>2, <4>1
    <3>4. r[1] = [Cleared EXCEPT ![1].name = es[1]]
      BY <3>1, <3>2, <3>3 DEF PutIn, insert_entry
    <3>5. r[1] = <<[name |-> es[1], len |-> BLK_SIZE]>>
      BY <3>4 DEF Cleared
    <3>6. Len(r[1]) = 1 /\ r[1][1].name = es[1] /\ r[1][1].len = BLK_SIZE
      BY <3>5
    <3>7. Packed(r[1], es, g, 1)
      <4>1. \A j \in 1 .. 1 : j = 1 /\ ~ (j < 1)
        OBVIOUS
      <4>2. BLK_SIZE - g[1 - 1] = BLK_SIZE
        BY <2>1, BlockAssumption
      <4>3. QED
        BY <3>6, <4>1, <4>2 DEF Packed
    <3>8. QED
      BY <2>1, <3>7
  <2>3. ASSUME NEW k \in 1 .. n, k < n, k \in S PROVE k + 1 \in S
    <3> DEFINE b == r[k]
               m == es[k + 1]
               c == r[k + 1]
    <3>1. k + 1 \in 1 .. n /\ (k + 1) - 1 = k /\ k \in 0 .. n /\ k - 1 \in 0 .. n /\ k + 1 \in 0 .. n
          /\ k \in Nat /\ k >= 1
      BY <1>2, <2>3
    <3>2. b \in Blocks /\ c = PutIn(b, m) /\ m \in Name /\ es[k] \in Name
      BY <1>1, <1>2, <3>1 DEF Walks
    <3>3. Packed(b, es, g, k)
      BY <2>3
    <3>4. /\ Len(b) = k /\ DOMAIN b = 1 .. k /\ b[k].name = es[k] /\ b[k].len = BLK_SIZE - g[k - 1]
          /\ \A j \in 1 .. k : b[j].name = es[j] /\ (j < k => Slack(b[j]) = 0) /\ b[j] \in Slot
      <4>1. DOMAIN b = 1 .. Len(b) /\ \A j \in DOMAIN b : b[j] \in Slot
        BY <3>2, BlockIs
      <4> HIDE DEF b
      <4>2. QED
        BY <3>1, <3>3, <4>1 DEF Packed
    <3>5. k \in 1 .. k
      BY <3>1
    <3>6. Slack(b[k]) = BLK_SIZE - g[k] /\ BLK_SIZE - g[k] >= EntrySize(m) /\ EntrySize(m) > 0
          /\ EntrySize(m) \in Nat /\ es[k] # Free
      <4>1. es[k] # Free
        BY <3>2, NotFree
      <4>2. Slack(b[k]) = b[k].len - EntrySize(es[k])
        BY <3>4, <4>1 DEF Slack
      <4>3. g[k] = g[k - 1] + EntrySize(es[k]) /\ g[k + 1] = g[k] + EntrySize(m) /\ g[k + 1] <= BLK_SIZE
            /\ g[k] \in Nat /\ g[k - 1] \in Nat /\ EntrySize(m) > 0 /\ EntrySize(es[k]) \in Nat
            /\ EntrySize(m) \in Nat
        BY <1>3, <1>4, <1>5, <3>1
      <4>4. BLK_SIZE \in Nat
        BY BlockAssumption
      <4>5. QED
        <5>1. b[k].len = BLK_SIZE - g[k - 1]
          BY <3>4
        <5>2. Slack(b[k]) = (BLK_SIZE - g[k - 1]) - EntrySize(es[k])
          BY <4>2, <5>1
        <5> HIDE DEF b, m
        <5>3. (BLK_SIZE - g[k - 1]) - EntrySize(es[k]) = BLK_SIZE - g[k]
          BY <4>3, <4>4
        <5>4. BLK_SIZE - g[k] >= EntrySize(m)
          BY <4>3, <4>4
        <5>5. QED
          BY <4>1, <4>3, <5>2, <5>3, <5>4
    <3>7. Roomy(b, m) = {k}
      <4>1. \A j \in 1 .. k : j # k => j < k
        BY <3>1
      <4>2. \A j \in 1 .. k : j # k => ~ (Slack(b[j]) >= EntrySize(m))
        <5> HIDE DEF b, m
        <5>1. QED
          BY <3>4, <3>6, <4>1
      <4>3. Slack(b[k]) >= EntrySize(m)
        BY <3>6
      <4> HIDE DEF b, m
      <4>4. QED
        BY <3>4, <3>5, <4>2, <4>3 DEF Roomy
    <3>8. Min(Roomy(b, m)) = k
      <4>1. Roomy(b, m) # {}
        BY <3>7
      <4>2. {k} \in SUBSET Nat /\ {k} # {}
        BY <3>1
      <4>3. Min({k}) \in {k}
        BY <4>2, MinIs
      <4> HIDE DEF b, m
      <4>4. QED
        BY <3>7, <4>3
    <3>9. c = insert_entry(b, m) /\ Roomy(b, m) # {}
      <4> HIDE DEF b, m, c
      <4>1. QED
        BY <3>2, <3>7 DEF PutIn
    <3> HIDE DEF b, m, c
    <3>10. /\ Len(c) = k + 1
           /\ \A j \in 1 .. k - 1 : c[j] = b[j]
           /\ c[k] = [name |-> es[k], len |-> EntrySize(es[k])]
           /\ c[k + 1] = [name |-> m, len |-> BLK_SIZE - g[k]]
      <4>1. b \in Blocks /\ m \in Name /\ Roomy(b, m) # {} /\ k = Min(Roomy(b, m)) /\ c = insert_entry(b, m)
        BY <3>2, <3>8, <3>9
      <4>2. b[k].name # Free /\ b[k].name = es[k] /\ Len(b) = k /\ Slack(b[k]) = BLK_SIZE - g[k]
        BY <3>4, <3>6
      <4>3. InsertedAt(b, m, k, c)
        BY <4>1, InsertShape
      <4>4. QED
        BY <4>2, <4>3 DEF InsertedAt
    <3>11. Slack(c[k]) = 0 /\ c[k].name = es[k]
      BY <3>2, <3>10, NotFree, SlotCut
    <3>12. Packed(c, es, g, k + 1)
      <4>1. c[k + 1].name = es[k + 1] /\ c[k + 1].len = BLK_SIZE - g[(k + 1) - 1]
        BY <3>1, <3>10 DEF m
      <4>2. \A j \in 1 .. k + 1 : \/ j \in 1 .. k - 1 /\ j \in 1 .. k /\ j < k
                                  \/ j = k
                                  \/ j = k + 1 /\ ~ (j < k + 1)
        BY <3>1
      <4>3. \A j \in 1 .. k + 1 : c[j].name = es[j] /\ (j < k + 1 => Slack(c[j]) = 0)
        BY <3>4, <3>10, <3>11, <4>1, <4>2
      <4>4. QED
        BY <3>10, <4>1, <4>3 DEF Packed
    <3>13. QED
      BY <3>1, <3>12 DEF c
  <2> HIDE DEF S
  <2>4. \A k \in 1 .. n : k \in S
    BY <1>2, <2>1, <2>2, <2>3, UpTo
  <2>5. n \in S /\ r[n] \in Blocks
    BY <1>1, <1>2, <1>7, <2>4 DEF Walks
  <2>6. Packed(r[n], es, g, n)
    BY <2>5 DEF S
  <2>7. DOMAIN r[n] = 1 .. n /\ \A j \in 1 .. n : r[n][j].name = es[j]
    <3>1. DOMAIN r[n] = 1 .. Len(r[n])
      BY <2>5, BlockIs
    <3>2. QED
      BY <2>6, <3>1 DEF Packed
  <2>8. \A j \in 1 .. n : es[j] # Free
    BY <1>2, NotFree
  <2>9. NamesIn(r[n]) = {es[k] : k \in 1 .. n}
    BY <2>7, <2>8 DEF NamesIn, Taken
  <2>10. QED
    BY <1>1, <1>2, <2>9
<1>8. QED
  BY <1>2, <1>6, <1>7

\* The numbers v are those of w, but for a zero at p.
Zeroed(v, w, p, n) ==
    /\ n \in Nat /\ p \in 1 .. n
    /\ \A k \in 1 .. n : w[k] \in Nat /\ v[k] = IF k = p THEN 0 ELSE w[k]

\* A number of a sum put to zero.
LEMMA AddsZeroed ==
    ASSUME NEW n, NEW w, NEW v, NEW p, NEW g, NEW h, Adds(g, w, n), Adds(h, v, n), Zeroed(v, w, p, n)
    PROVE  h[n] = g[n] - w[p]
<1> USE DEF Zeroed
<1> DEFINE S == {k \in 0 .. n : h[k] = IF k < p THEN g[k] ELSE g[k] - w[p]}
<1>1. 0 \in S
  BY DEF Adds
<1>2. ASSUME NEW k \in 0 .. n, k < n, k \in S PROVE k + 1 \in S
  <2>1. k + 1 \in 1 .. n /\ k + 1 \in 0 .. n /\ (k + 1) - 1 = k /\ k \in Nat /\ p \in Nat
    BY <1>2
  <2>2. /\ g[k + 1] = g[k] + w[k + 1] /\ h[k + 1] = h[k] + v[k + 1]
        /\ g[k] \in Int /\ h[k] \in Int /\ w[k + 1] \in Nat /\ w[p] \in Nat
    <3>1. g[k + 1] = g[(k + 1) - 1] + w[k + 1] /\ g[k] \in Int /\ w[k + 1] \in Nat
      BY <2>1 DEF Adds
    <3>2. h[k + 1] = h[(k + 1) - 1] + v[k + 1] /\ h[k] \in Int
      BY <2>1 DEF Adds
    <3>3. QED
      BY <2>1, <3>1, <3>2
  <2>3. h[k] = IF k < p THEN g[k] ELSE g[k] - w[p]
    BY <1>2
  <2>4. v[k + 1] = IF k + 1 = p THEN 0 ELSE w[k + 1]
    BY <2>1
  <2>5. h[k + 1] = IF k + 1 < p THEN g[k + 1] ELSE g[k + 1] - w[p]
    <3>1. CASE k + 1 < p
      BY <2>1, <2>2, <2>3, <2>4, <3>1
    <3>2. CASE k + 1 = p
      <4>1. h[k + 1] = g[k] + 0 /\ g[k + 1] = g[k] + w[p]
        BY <2>1, <2>2, <2>3, <2>4, <3>2
      <4>2. QED
        BY <2>2, <3>2, <4>1
    <3>3. CASE k + 1 > p
      <4>1. h[k + 1] = (g[k] - w[p]) + w[k + 1] /\ g[k + 1] = g[k] + w[k + 1]
        BY <2>1, <2>2, <2>3, <2>4, <3>3
      <4>2. ~ (k + 1 < p)
        BY <2>1, <3>3
      <4>3. QED
        BY <2>2, <4>1, <4>2
    <3>4. QED
      BY <2>1, <3>1, <3>2, <3>3
  <2>6. QED
    BY <2>1, <2>5
<1> HIDE DEF S
<1>3. \A k \in 0 .. n : k \in S
  BY <1>1, <1>2, UpTo
<1>4. h[n] = IF n < p THEN g[n] ELSE g[n] - w[p]
  <2>1. n \in S
    BY <1>3
  <2>2. QED
    BY <2>1 DEF S
<1>5. QED
  BY <1>4

\* Every number of v has a place of its own in w where there is as much.
Into(v, w, at, m, n) ==
    /\ m \in Nat /\ n \in Nat /\ v \in [1 .. m -> Nat] /\ w \in [1 .. n -> Nat]
    /\ \A i \in 1 .. m : v[i] # 0 => at[i] \in 1 .. n /\ v[i] <= w[at[i]]
    /\ \A i, j \in 1 .. m : v[i] # 0 /\ v[j] # 0 /\ at[i] = at[j] => i = j

LEMMA AddsInto ==
    ASSUME NEW m, NEW n, NEW v, NEW w, NEW at, Into(v, w, at, m, n),
           NEW g, NEW h, Adds(g, v, m), Adds(h, w, n)
    PROVE  g[m] <= h[n]
<1> USE DEF Into
<1> DEFINE Fits(k, u) == \A i \in 1 .. k : v[i] # 0 => v[i] <= u[at[i]]
           S == {k \in 0 .. m : \A u \in [1 .. n -> Nat] : \A f \in [0 .. n -> Int] :
                    Adds(f, u, n) /\ Fits(k, u) => g[k] <= f[n]}
<1>1. 0 \in S
  <2>1. g[0] = 0 /\ 0 \in 0 .. m
    BY DEF Adds
  <2>2. ASSUME NEW u \in [1 .. n -> Nat], NEW f, Adds(f, u, n) PROVE f[n] \in Nat
    <3>1. n \in 0 .. n /\ \A k \in 1 .. n : u[k] \in Nat
      OBVIOUS
    <3>2. QED
      BY <2>2, <3>1, AddsGrow
  <2>3. ASSUME NEW u \in [1 .. n -> Nat], NEW f, Adds(f, u, n) PROVE g[0] <= f[n]
    <3>1. f[n] \in Nat
      BY <2>2, <2>3
    <3>2. QED
      BY <2>1, <3>1
  <2> HIDE DEF Fits
  <2>4. QED
    BY <2>1, <2>3
<1>2. ASSUME NEW k \in 0 .. m, k < m, k \in S PROVE k + 1 \in S
  <2>1. k + 1 \in 1 .. m /\ k + 1 \in 0 .. m /\ (k + 1) - 1 = k /\ k \in Nat
    BY <1>2
  <2>2. g[k + 1] = g[k] + v[k + 1] /\ g[k] \in Int /\ v[k + 1] \in Nat
    <3>1. g[k + 1] = g[(k + 1) - 1] + v[k + 1] /\ g[k] \in Int
      BY <2>1 DEF Adds
    <3>2. QED
      BY <2>1, <3>1
  <2>3. \A i \in 1 .. k : i \in 1 .. k + 1 /\ i \in 1 .. m /\ i # k + 1
    BY <2>1
  <2>4. SUFFICES ASSUME NEW u, NEW f, u \in [1 .. n -> Nat], f \in [0 .. n -> Int], Adds(f, u, n),
                        Fits(k + 1, u)
                 PROVE  g[k + 1] <= f[n]
    <3> HIDE DEF Fits
    <3>1. QED
      BY <2>1
  <2>5. Fits(k, u)
    BY <2>3, <2>4
  <2>6. CASE v[k + 1] = 0
    <3>1. g[k] <= f[n]
      <4> HIDE DEF Fits
      <4>1. QED
        BY <1>2, <2>4, <2>5
    <3>2. QED
      BY <2>2, <2>6, <3>1
  <2>7. CASE v[k + 1] # 0
    <3> DEFINE p == at[k + 1]
               z == [u EXCEPT ![p] = 0]
    <3>1. p \in 1 .. n
      BY <2>1, <2>7
    <3>2. z \in [1 .. n -> Nat] /\ \A i \in 1 .. n : i # p => z[i] = u[i]
      BY <2>4, <3>1
    <3>3. Fits(k, z)
      <4>1. \A i \in 1 .. k : v[i] # 0 => at[i] \in 1 .. n /\ at[i] # p
        BY <2>1, <2>3, <2>7
      <4>2. QED
        BY <2>5, <3>2, <4>1
    <3>4. PICK e : Adds(e, z, n)
      <4>1. \A i \in 1 .. n : z[i] \in Int
        BY <3>2
      <4> HIDE DEF z
      <4>2. QED
        BY <4>1, AddsExist
    <3>5. e \in [0 .. n -> Int]
      BY <3>4 DEF Adds
    <3>6. g[k] <= e[n]
      <4> HIDE DEF Fits, z
      <4>1. QED
        BY <1>2, <3>2, <3>3, <3>4, <3>5
    <3>7. e[n] = f[n] - u[p]
      <4>1. Zeroed(z, u, p, n) /\ Adds(f, u, n)
        BY <2>4, <3>1 DEF Zeroed
      <4> HIDE DEF p, z
      <4>2. QED
        BY <3>1, <3>4, <4>1, AddsZeroed
    <3>8. v[k + 1] <= u[p]
      <4>1. k + 1 \in 1 .. k + 1
        BY <2>1
      <4>2. QED
        BY <2>4, <2>7, <4>1
    <3>9. f[n] \in Int /\ e[n] \in Int /\ u[p] \in Nat
      BY <2>4, <3>1, <3>5
    <3> HIDE DEF p, z
    <3>10. QED
      BY <2>2, <3>6, <3>7, <3>8, <3>9
  <2>8. QED
    BY <2>6, <2>7
<1>3. \A k \in 0 .. m : k \in S
  <2> HIDE DEF S
  <2>1. QED
    BY <1>1, <1>2, UpTo
<1>4. m \in S
  <2> HIDE DEF S
  <2>1. QED
    BY <1>3
<1>5. Fits(m, w) /\ h \in [0 .. n -> Int]
  BY DEF Adds
<1> HIDE DEF Fits
<1>6. QED
  BY <1>4, <1>5

\* The bytes entries take in a block.
Bytes(es) == FoldLeft(LAMBDA sum, n : sum + EntrySize(n), 0, es)

LEMMA BytesAdd ==
    ASSUME NEW es \in Seq(Name)
    PROVE  \E g : Adds(g, [k \in 1 .. Len(es) |-> EntrySize(es[k])], Len(es)) /\ g[Len(es)] = Bytes(es)
<1> DEFINE n == Len(es)
           w == [k \in 1 .. n |-> EntrySize(es[k])]
           Is(f) == f = [s \in SUBSET (1 .. n) |->
                           IF s = {} THEN 0 ELSE f[s \ {Max(s)}] + EntrySize(es[Max(s)])]
<1>1. n \in Nat /\ DOMAIN es = 1 .. n /\ \A k \in 1 .. n : w[k] \in Int /\ w[k] = EntrySize(es[k])
  <2>1. n \in Nat /\ DOMAIN es = 1 .. n /\ \A k \in 1 .. n : es[k] \in Name
    OBVIOUS
  <2>2. QED
    BY <2>1, EntrySizes
<1>2. PICK f : f = [s \in SUBSET (1 .. n) |-> IF s = {} THEN 0 ELSE f[s \ {Max(s)}] + w[Max(s)]]
  <2> HIDE DEF n, w
  <2>1. QED
    BY <1>1, FoldAddsExists
<1> HIDE DEF n, w
<1>3. \A s \in SUBSET (1 .. n) : s # {} => w[Max(s)] = EntrySize(es[Max(s)])
  BY <1>1, MaxOfUpTo
<1>4. ASSUME NEW q, Is(q)
      PROVE  q = [s \in SUBSET (1 .. n) |-> IF s = {} THEN 0 ELSE q[s \ {Max(s)}] + w[Max(s)]]
  BY <1>3, <1>4
<1>5. Is(f)
  BY <1>2, <1>3
<1>6. Is(CHOOSE q : Is(q))
  <2> HIDE DEF Is
  <2>1. QED
    BY <1>5
<1> DEFINE r == CHOOSE q : Is(q)
<1>7. Bytes(es) = r[DOMAIN es]
  BY <1>1 DEF Bytes, FoldLeft, MapThenFoldSet
<1> HIDE DEF r, Is
<1>8. r = [s \in SUBSET (1 .. n) |-> IF s = {} THEN 0 ELSE r[s \ {Max(s)}] + w[Max(s)]]
  BY <1>4, <1>6 DEF r
<1>9. PICK g : Adds(g, w, n) /\ g[n] = r[1 .. n]
  BY <1>1, <1>8, FoldAdds
<1>10. QED
  BY <1>1, <1>7, <1>9 DEF n, w

\* The bytes split_data counts.
LEMMA CountAdd ==
    ASSUME NEW es \in Seq(Name)
    PROVE  \E g : /\ Adds(g, [k \in 1 .. Len(es) |-> LenOf(es[k]) + 8], Len(es))
                  /\ g[Len(es)] = FoldLeft(LAMBDA sum, n : sum + (LenOf(n) + 8), 0, es)
<1> DEFINE n == Len(es)
           w == [k \in 1 .. n |-> LenOf(es[k]) + 8]
           Is(f) == f = [s \in SUBSET (1 .. n) |->
                           IF s = {} THEN 0 ELSE f[s \ {Max(s)}] + (LenOf(es[Max(s)]) + 8)]
<1>1. n \in Nat /\ DOMAIN es = 1 .. n /\ \A k \in 1 .. n : w[k] \in Int /\ w[k] = LenOf(es[k]) + 8
  <2>1. n \in Nat /\ DOMAIN es = 1 .. n /\ \A k \in 1 .. n : es[k] \in Name
    OBVIOUS
  <2>2. QED
    BY <2>1, EntrySizes
<1>2. PICK f : f = [s \in SUBSET (1 .. n) |-> IF s = {} THEN 0 ELSE f[s \ {Max(s)}] + w[Max(s)]]
  <2> HIDE DEF n, w
  <2>1. QED
    BY <1>1, FoldAddsExists
<1> HIDE DEF n, w
<1>3. \A s \in SUBSET (1 .. n) : s # {} => w[Max(s)] = LenOf(es[Max(s)]) + 8
  BY <1>1, MaxOfUpTo
<1>4. ASSUME NEW q, Is(q)
      PROVE  q = [s \in SUBSET (1 .. n) |-> IF s = {} THEN 0 ELSE q[s \ {Max(s)}] + w[Max(s)]]
  BY <1>3, <1>4
<1>5. Is(f)
  BY <1>2, <1>3
<1>6. Is(CHOOSE q : Is(q))
  <2> HIDE DEF Is
  <2>1. QED
    BY <1>5
<1> DEFINE r == CHOOSE q : Is(q)
<1>7. FoldLeft(LAMBDA sum, x : sum + (LenOf(x) + 8), 0, es) = r[DOMAIN es]
  BY <1>1 DEF FoldLeft, MapThenFoldSet
<1> HIDE DEF r, Is
<1>8. r = [s \in SUBSET (1 .. n) |-> IF s = {} THEN 0 ELSE r[s \ {Max(s)}] + w[Max(s)]]
  BY <1>4, <1>6 DEF r
<1>9. PICK g : Adds(g, w, n) /\ g[n] = r[1 .. n]
  BY <1>1, <1>8, FoldAdds
<1>10. QED
  BY <1>1, <1>7, <1>9 DEF n, w

\* What fits half a block before it is rounded up fits a block after.
LEMMA FirstFits ==
    ASSUME NEW es \in Seq(Name), NEW k \in 1 .. Len(es), Used(es, k - 1) <= BLK_SIZE \div 2,
           NEW f, f = SubSeq(es, 1, k - 1)
    PROVE  \E g : Adds(g, [i \in 1 .. Len(f) |-> EntrySize(f[i])], Len(f)) /\ g[Len(f)] <= BLK_SIZE
<1>1. f \in Seq(Name) /\ Len(f) = k - 1
  OBVIOUS
<1> DEFINE n == Len(f)
           w == [i \in 1 .. n |-> LenOf(f[i]) + 8]
           v == [i \in 1 .. n |-> EntrySize(f[i])]
<1>2. PICK u : Adds(u, w, n) /\ u[n] = FoldLeft(LAMBDA sum, m : sum + (LenOf(m) + 8), 0, f)
  <2>1. QED
    BY <1>1, CountAdd
<1>3. PICK g : Adds(g, v, n) /\ g[n] = Bytes(f)
  BY <1>1, BytesAdd
<1>4. u[n] <= BLK_SIZE \div 2
  BY <1>2 DEF Used
<1>5. n \in Nat /\ \A i \in 1 .. n : f[i] \in Name
  BY <1>1
<1>6. \A i \in 1 .. n : w[i] \in Nat /\ v[i] \in Nat /\ v[i] <= 2 * w[i]
  <2>1. \A x \in Name : LenOf(x) \in Nat \ {0} /\ EntrySize(x) \in Nat /\ EntrySize(x) <= LenOf(x) + 11
    BY EntrySizes
  <2>2. \A x \in Name : LenOf(x) + 8 \in Nat /\ EntrySize(x) <= 2 * (LenOf(x) + 8)
    <3>1. \A a \in Nat \ {0}, b \in Nat : b <= a + 11 => a + 8 \in Nat /\ b <= 2 * (a + 8)
      OBVIOUS
    <3>2. QED
      BY <2>1, <3>1
  <2>3. QED
    BY <1>5, <2>1, <2>2
<1> HIDE DEF w, v, n
<1> DEFINE S == {i \in 0 .. n : g[i] <= 2 * u[i]}
<1>7. 0 \in S
  <2>1. g[0] = 0
    BY <1>3 DEF Adds
  <2>2. u[0] = 0
    BY <1>2 DEF Adds
  <2>3. 0 \in 0 .. n
    BY <1>5
  <2>4. QED
    BY <2>1, <2>2, <2>3
<1>8. ASSUME NEW i \in 0 .. n, i < n, i \in S PROVE i + 1 \in S
  <2>1. i + 1 \in 1 .. n /\ i + 1 \in 0 .. n /\ (i + 1) - 1 = i
    BY <1>5, <1>8
  <2>2. g[i + 1] = g[(i + 1) - 1] + v[i + 1] /\ g[i] \in Int
    BY <1>3, <2>1 DEF Adds
  <2>3. u[i + 1] = u[(i + 1) - 1] + w[i + 1] /\ u[i] \in Int
    BY <1>2, <2>1 DEF Adds
  <2>4. g[i] <= 2 * u[i] /\ v[i + 1] <= 2 * w[i + 1] /\ v[i + 1] \in Nat /\ w[i + 1] \in Nat
    BY <1>6, <1>8, <2>1
  <2>5. g[i + 1] <= 2 * u[i + 1]
    <3>1. \A a, b \in Int, c, d \in Nat : a <= 2 * b /\ c <= 2 * d => a + c <= 2 * (b + d)
      OBVIOUS
    <3>2. g[i] + v[i + 1] <= 2 * (u[i] + w[i + 1])
      BY <2>2, <2>3, <2>4, <3>1
    <3>3. QED
      BY <2>1, <2>2, <2>3, <3>2
  <2>6. QED
    BY <2>1, <2>5
<1> HIDE DEF S
<1>9. \A i \in 0 .. n : i \in S
  BY <1>5, <1>7, <1>8, UpTo
<1>10. g[n] <= 2 * u[n] /\ n \in 0 .. n
  <2>1. n \in S /\ n \in 0 .. n
    BY <1>5, <1>9
  <2>2. QED
    BY <2>1 DEF S
<1>11. g[n] <= BLK_SIZE
  <2>1. g[n] \in Int /\ u[n] \in Int /\ BLK_SIZE \in Nat
    BY <1>2, <1>3, <1>10, BlockAssumption DEF Adds
  <2>2. 2 * (BLK_SIZE \div 2) <= BLK_SIZE
    BY BlockAssumption
  <2>3. QED
    BY <1>4, <1>10, <2>1, <2>2
<1>12. QED
  BY <1>3, <1>11 DEF v, n

\* One entry never takes half a block: the first half has an entry.
LEMMA CutBehindFirst ==
    ASSUME NEW es \in Seq(Name), NEW k \in SplitPos(es)
    PROVE  k \in 2 .. Len(es)
<1>1. /\ Len(es) \in Nat /\ k \in 1 .. Len(es)
      /\ Used(es, k) > BLK_SIZE \div 2 /\ Used(es, k - 1) <= BLK_SIZE \div 2
  BY DEF SplitPos
<1>2. SUFFICES ASSUME k = 1 PROVE FALSE
  BY <1>1
<1> DEFINE f == SubSeq(es, 1, 1)
<1>3. f \in Seq(Name) /\ Len(f) = 1 /\ f[1] \in Name
  BY <1>1, <1>2
<1>4. Used(es, 1) = FoldLeft(LAMBDA sum, n : sum + (LenOf(n) + 8), 0, f)
  BY DEF Used
<1> HIDE DEF f
<1>5. PICK g : /\ Adds(g, [i \in 1 .. Len(f) |-> LenOf(f[i]) + 8], Len(f))
               /\ g[Len(f)] = FoldLeft(LAMBDA sum, n : sum + (LenOf(n) + 8), 0, f)
  BY <1>3, CountAdd
<1>6. g[1] = LenOf(f[1]) + 8
  <2>1. 1 \in 1 .. Len(f) /\ 1 - 1 = 0
    BY <1>3
  <2>2. g[1] = g[0] + [i \in 1 .. Len(f) |-> LenOf(f[i]) + 8][1] /\ g[0] = 0
    BY <1>5, <2>1 DEF Adds
  <2>3. LenOf(f[1]) \in Nat
    BY <1>3, EntrySizes
  <2>4. QED
    BY <2>1, <2>2, <2>3
<1>7. LenOf(f[1]) + 8 <= BLK_SIZE \div 2
  BY <1>3, DirectoriesAssumption DEF LenOf
<1>8. Used(es, 1) = LenOf(f[1]) + 8 /\ LenOf(f[1]) \in Nat /\ BLK_SIZE \div 2 \in Nat
  <2>1. LenOf(f[1]) \in Nat
    BY <1>3, EntrySizes
  <2>2. BLK_SIZE \div 2 \in Nat
    BY BlockAssumption
  <2>3. Used(es, 1) = g[1]
    BY <1>3, <1>4, <1>5
  <2>4. QED
    BY <1>6, <2>1, <2>2, <2>3
<1>9. QED
  BY <1>1, <1>2, <1>7, <1>8

\* The names of a block, and one more that is not counted, take no more than the block.
LEMMA NamesFit ==
    ASSUME NEW b \in Blocks, WellFormed(b), NEW es \in Seq(Name), Once(es), NEW n \in Name,
           n \in {es[k] : k \in DOMAIN es}, {es[k] : k \in DOMAIN es} \subseteq NamesIn(b) \cup {n}
    PROVE  Bytes(es) - EntrySize(n) <= BLK_SIZE
<1> DEFINE m == Len(es)
           l == Len(b)
           w == [k \in 1 .. m |-> EntrySize(es[k])]
           v == [k \in 1 .. m |-> IF es[k] = n THEN 0 ELSE EntrySize(es[k])]
           s == [j \in 1 .. l |-> b[j].len]
           at == [k \in 1 .. m |-> CHOOSE j \in 1 .. l : b[j].name = es[k]]
<1>1. /\ m \in Nat /\ DOMAIN es = 1 .. m /\ \A k \in 1 .. m : es[k] \in Name
      /\ l \in Nat /\ DOMAIN b = 1 .. l /\ \A j \in 1 .. l : b[j] \in Slot
  BY BlockIs
<1>2. PICK g : Adds(g, w, m) /\ g[m] = Bytes(es)
  BY BytesAdd
<1>3. PICK h : Adds(h, s, l)
  BY LensExist
<1>4. h[l] = BLK_SIZE /\ \A j \in 1 .. l : Sound(b[j])
  BY <1>3, TiledIs
<1>5. PICK f : Adds(f, v, m)
  <2>1. \A k \in 1 .. m : v[k] \in Int
    BY <1>1, EntrySizes
  <2> HIDE DEF v, m
  <2>2. QED
    BY <1>1, <2>1, AddsExist
<1>6. v \in [1 .. m -> Nat] /\ s \in [1 .. l -> Nat]
  <2>1. \A x \in Slot : x.len \in Nat
    BY DEF Slot
  <2>2. QED
    BY <1>1, <2>1, EntrySizes
<1>7. \A k \in 1 .. m : v[k] # 0 =>
          at[k] \in 1 .. l /\ b[at[k]].name = es[k] /\ v[k] <= s[at[k]]
  <2> TAKE k \in 1 .. m
  <2>1. SUFFICES ASSUME v[k] # 0
                 PROVE  at[k] \in 1 .. l /\ b[at[k]].name = es[k] /\ v[k] <= s[at[k]]
    OBVIOUS
  <2>2. es[k] # n /\ v[k] = EntrySize(es[k]) /\ es[k] \in Name
    BY <1>1, <2>1
  <2>3. \E j \in 1 .. l : b[j].name = es[k]
    BY <1>1, <2>2 DEF NamesIn, Taken
  <2> DEFINE j == CHOOSE x \in 1 .. l : b[x].name = es[k]
  <2>4. at[k] = j /\ j \in 1 .. l /\ b[j].name = es[k]
    BY <2>3
  <2> HIDE DEF j, at
  <2>5. Slack(b[j]) >= 0 /\ Slack(b[j]) = b[j].len - EntrySize(es[k]) /\ b[j].len \in Nat
        /\ EntrySize(es[k]) \in Nat /\ s[j] = b[j].len
    <3>1. b[j] \in Slot /\ es[k] # Free
      BY <1>1, <2>2, <2>4, NotFree
    <3>2. QED
      BY <1>4, <2>2, <2>4, <3>1, SlackIs, EntrySizes DEF Sound
  <2>6. QED
    BY <2>2, <2>4, <2>5
<1>8. \A k, i \in 1 .. m : v[k] # 0 /\ v[i] # 0 /\ at[k] = at[i] => k = i
  <2> HIDE DEF v, at
  <2>1. QED
    BY <1>1, <1>7 DEF Once
<1>9. f[m] <= h[l]
  <2>1. \A k \in 1 .. m : v[k] # 0 => at[k] \in 1 .. l /\ v[k] <= s[at[k]]
    BY <1>7
  <2> HIDE DEF v, s, at, m, l
  <2>2. Into(v, s, at, m, l)
    BY <1>1, <1>6, <1>8, <2>1 DEF Into
  <2>3. QED
    BY <1>3, <1>5, <2>2, AddsInto
<1>10. PICK p \in 1 .. m : es[p] = n
  BY <1>1
<1>11. \A k \in 1 .. m : es[k] = n <=> k = p
  BY <1>1, <1>10 DEF Once
<1>12. Zeroed(v, w, p, m)
  BY <1>1, <1>10, <1>11, EntrySizes DEF Zeroed
<1>13. f[m] = g[m] - w[p] /\ w[p] = EntrySize(n)
  <2>1. w[p] = EntrySize(n)
    BY <1>10
  <2> HIDE DEF v, w, m
  <2>2. QED
    BY <1>2, <1>5, <1>12, <2>1, AddsZeroed
<1>14. QED
  BY <1>2, <1>4, <1>9, <1>13

\* No entry takes more than a quarter of a block.
ShortNames == \A n \in Name : EntrySize(n) <= BLK_SIZE \div 4

\* Short entries that are left when half a block is counted fit into a block.
LEMMA RestFits ==
    ASSUME ShortNames, NEW es \in Seq(Name), NEW k \in 2 .. Len(es), Used(es, k) > BLK_SIZE \div 2,
           NEW n \in Name, Bytes(es) - EntrySize(n) <= BLK_SIZE,
           NEW s, s = SubSeq(es, k, Len(es))
    PROVE  Bytes(s) <= BLK_SIZE
<1> DEFINE m == Len(es)
           l == Len(s)
           w == [i \in 1 .. m |-> EntrySize(es[i])]
           v == [i \in 1 .. l |-> EntrySize(s[i])]
           f == SubSeq(es, 1, k)
           c == [i \in 1 .. k |-> LenOf(f[i]) + 8]
           z == [i \in 1 .. k |-> EntrySize(f[i])]
<1>1. /\ m \in Nat /\ k \in 1 .. m /\ k - 1 \in 1 .. m /\ k \in Nat /\ k - 1 \in Nat
      /\ \A i \in 1 .. m : es[i] \in Name
  OBVIOUS
<1>2. /\ s \in Seq(Name) /\ l = m - k + 1 /\ l \in Nat
      /\ \A i \in 1 .. l : s[i] = es[k + i - 1] /\ k + i - 1 \in 1 .. m
  BY <1>1
<1>3. f \in Seq(Name) /\ Len(f) = k /\ \A i \in 1 .. k : f[i] = es[i] /\ i \in 1 .. m
  BY <1>1
<1>4. PICK g : Adds(g, w, m) /\ g[m] = Bytes(es)
  BY BytesAdd
<1>5. PICK h : Adds(h, v, l) /\ h[l] = Bytes(s)
  BY <1>2, BytesAdd
<1>6. PICK u : Adds(u, c, k) /\ u[k] = Used(es, k)
  <2> HIDE DEF f
  <2>1. PICK u : /\ Adds(u, [i \in 1 .. Len(f) |-> LenOf(f[i]) + 8], Len(f))
                 /\ u[Len(f)] = FoldLeft(LAMBDA sum, x : sum + (LenOf(x) + 8), 0, f)
    BY <1>3, CountAdd
  <2>2. QED
    BY <1>3, <2>1 DEF Used, f
<1> DEFINE r == [i \in 0 .. k |-> g[i]]
<1>7. \A i \in 1 .. m : w[i] = EntrySize(es[i]) /\ w[i] \in Int
  <2> TAKE i \in 1 .. m
  <2>1. w[i] = EntrySize(es[i]) /\ es[i] \in Name
    BY <1>1
  <2> HIDE DEF w
  <2>2. EntrySize(es[i]) \in Nat
    BY <2>1, EntrySizes
  <2>3. QED
    BY <2>1, <2>2
<1>8. \A i \in 1 .. k : /\ c[i] \in Int /\ z[i] \in Int /\ c[i] <= z[i] /\ z[i] = w[i]
  <2> HIDE DEF f
  <2> TAKE i \in 1 .. k
  <2>1. c[i] = LenOf(f[i]) + 8 /\ z[i] = EntrySize(f[i]) /\ f[i] \in Name
    BY <1>1, <1>3
  <2>2. w[i] = EntrySize(f[i])
    BY <1>1, <1>3
  <2> HIDE DEF c, z, w
  <2>3. LenOf(f[i]) \in Nat /\ EntrySize(f[i]) \in Nat /\ LenOf(f[i]) + 8 <= EntrySize(f[i])
    BY <2>1, EntrySizes
  <2>4. QED
    BY <2>1, <2>2, <2>3
<1>9. \A i \in 1 .. l : v[i] = w[k + i - 1]
  BY <1>2
<1> HIDE DEF w, v, c, z, f, m, l
<1>10. Adds(r, z, k)
  <2>1. r \in [0 .. k -> Int] /\ r[0] = 0
    BY <1>1, <1>4 DEF Adds
  <2>2. ASSUME NEW i \in 1 .. k PROVE r[i] = r[i - 1] + z[i]
    <3>1. i \in 1 .. m /\ i \in 0 .. k /\ i - 1 \in 0 .. k
      BY <1>1
    <3>2. g[i] = g[i - 1] + w[i]
      BY <1>4, <3>1 DEF Adds
    <3>3. QED
      BY <1>8, <3>1, <3>2
  <2> HIDE DEF r
  <2>3. QED
    BY <2>1, <2>2 DEF Adds
<1>11. u[k] <= g[k]
  <2>1. k \in 0 .. k /\ r[k] = g[k]
    BY <1>1
  <2> HIDE DEF r
  <2>2. \A i \in 0 .. k : u[i] <= r[i]
    BY <1>1, <1>6, <1>8, <1>10, AddsLess
  <2>3. QED
    BY <2>1, <2>2
<1>12. \A i \in 0 .. l : h[i] = g[k + i - 1] - g[k - 1]
  <2> DEFINE S == {i \in 0 .. l : h[i] = g[k + i - 1] - g[k - 1]}
  <2>1. 0 \in S
    <3>1. h[0] = 0 /\ g[k - 1] \in Int /\ k + 0 - 1 = k - 1 /\ 0 \in 0 .. l
      BY <1>1, <1>2, <1>4, <1>5 DEF Adds
    <3>2. QED
      BY <3>1
  <2>2. ASSUME NEW i \in 0 .. l, i < l, i \in S PROVE i + 1 \in S
    <3>1. /\ i + 1 \in 1 .. l /\ i + 1 \in 0 .. l /\ (i + 1) - 1 = i
          /\ k + (i + 1) - 1 = k + i /\ k + i \in 1 .. m /\ (k + i) - 1 = k + i - 1
          /\ k + i - 1 \in 0 .. m /\ k - 1 \in 0 .. m
      BY <1>1, <1>2, <2>2
    <3>2. h[i + 1] = h[i] + v[i + 1] /\ v[i + 1] = w[k + i]
      BY <1>5, <1>9, <3>1 DEF Adds
    <3>3. g[k + i] = g[k + i - 1] + w[k + i] /\ w[k + i] \in Int
      BY <1>4, <1>7, <3>1 DEF Adds
    <3>4. g[k + i - 1] \in Int /\ g[k - 1] \in Int /\ h[i] = g[k + i - 1] - g[k - 1]
      BY <1>4, <2>2, <3>1 DEF Adds
    <3>5. h[i + 1] = g[k + (i + 1) - 1] - g[k - 1]
      BY <3>1, <3>2, <3>3, <3>4
    <3>6. QED
      BY <3>1, <3>5
  <2> HIDE DEF S
  <2>3. \A i \in 0 .. l : i \in S
    BY <1>2, <2>1, <2>2, UpTo
  <2>4. QED
    BY <2>3 DEF S
<1>13. Bytes(s) = Bytes(es) - g[k - 1]
  <2>1. l \in 0 .. l /\ k + l - 1 = m
    BY <1>1, <1>2
  <2>2. QED
    BY <1>4, <1>5, <1>12, <2>1
<1>14. g[k] = g[k - 1] + EntrySize(es[k]) /\ g[k - 1] \in Int /\ g[k] \in Int
  <2>1. k - 1 \in 0 .. m /\ k \in 0 .. m
    BY <1>1
  <2>2. QED
    BY <1>1, <1>4, <1>7, <2>1 DEF Adds
<1>15. /\ EntrySize(es[k]) \in Nat /\ EntrySize(es[k]) <= BLK_SIZE \div 4
       /\ EntrySize(n) \in Nat /\ EntrySize(n) <= BLK_SIZE \div 4
  BY <1>1, EntrySizes DEF ShortNames
<1>16. u[k] \in Int /\ u[k] > BLK_SIZE \div 2
  <2>1. k \in 0 .. k
    BY <1>1
  <2>2. QED
    BY <1>6, <2>1 DEF Adds
<1>17. Bytes(es) \in Int
  <2>1. m \in 0 .. m
    BY <1>1
  <2>2. QED
    BY <1>4, <2>1 DEF Adds
<1>18. BLK_SIZE \in Nat /\ 2 * (BLK_SIZE \div 4) <= BLK_SIZE \div 2
       /\ BLK_SIZE \div 4 \in Nat /\ BLK_SIZE \div 2 \in Nat
  BY BlockAssumption
<1> DEFINE q == BLK_SIZE \div 4
           a == BLK_SIZE \div 2
<1>19. q \in Nat /\ a \in Nat /\ 2 * q <= a
  BY <1>18
<1> HIDE DEF q, a
<1>20. g[k - 1] + q > a
  <2> DEFINE y == EntrySize(es[k])
  <2>1. /\ g[k] = g[k - 1] + y /\ g[k - 1] \in Int /\ g[k] \in Int /\ y \in Nat /\ y <= q
        /\ u[k] \in Int /\ u[k] > a /\ u[k] <= g[k]
    BY <1>11, <1>14, <1>15, <1>16 DEF q, a
  <2> HIDE DEF y
  <2>2. QED
    BY <1>19, <2>1
<1>21. Bytes(es) <= BLK_SIZE + q
  BY <1>15, <1>17, <1>18, <1>19 DEF q
<1>22. QED
  BY <1>13, <1>14, <1>17, <1>18, <1>19, <1>20, <1>21

\* s gives the names of S in the order of their hashes.
Ordered(s, S) ==
    /\ s \in [1 .. Cardinality(S) -> S]
    /\ ToSet(s) = S /\ \A i, j \in DOMAIN s : i < j => Hash[s[i]] < Hash[s[j]]

\* No two names of S have the same hash.
Apart(S) == \A m, n \in S : Hash[m] = Hash[n] => m = n

LEMMA HashIs == \A n \in Name : Hash[n] \in Nat /\ Hash[n] % 2 = 0
  BY DirectoriesAssumption

\* Names with different hashes have an order.
LEMMA OrderExists ==
    ASSUME NEW S \in SUBSET Name, IsFiniteSet(S), Apart(S)
    PROVE  \E s : Ordered(s, S)
<1> DEFINE Bad == {k \in Nat : \E T \in SUBSET Name : /\ IsFiniteSet(T) /\ Apart(T)
                                                      /\ Cardinality(T) = k
                                                      /\ ~ \E s : Ordered(s, T)}
<1>1. SUFFICES ASSUME Bad # {} PROVE FALSE
  <2>1. Cardinality(S) \in Nat
    BY FS_CardinalityType
  <2>2. QED
    BY <2>1
<1>2. PICK k \in Bad : \A j \in Bad : k <= j
  <2>1. Bad \in SUBSET Nat
    OBVIOUS
  <2> HIDE DEF Bad
  <2>2. QED
    BY <1>1, <2>1, LeastExists
<1>3. PICK T \in SUBSET Name : /\ IsFiniteSet(T) /\ Apart(T) /\ Cardinality(T) = k
                               /\ ~ \E s : Ordered(s, T)
  OBVIOUS
<1>4. k \in Nat
  OBVIOUS
<1>5. T # {}
  <2>1. SUFFICES ASSUME T = {} PROVE FALSE
    OBVIOUS
  <2>2. Cardinality(T) = 0
    BY <2>1, FS_EmptySet
  <2>3. Ordered(<<>>, T)
    BY <2>1, <2>2 DEF Ordered, ToSet
  <2>4. QED
    BY <1>3, <2>3
<1>6. PICK x \in T : \A y \in T : Hash[x] <= Hash[y]
  <2> DEFINE H == {Hash[y] : y \in T}
  <2>1. H \in SUBSET Nat /\ H # {}
    BY <1>3, <1>5, HashIs
  <2>2. PICK h \in H : \A g \in H : h <= g
    <3> HIDE DEF H
    <3>1. QED
      BY <2>1, LeastExists
  <2>3. QED
    BY <2>2
<1> DEFINE R == T \ {x}
<1>7. IsFiniteSet(R) /\ Cardinality(R) = k - 1 /\ k - 1 \in Nat /\ R \in SUBSET Name /\ Apart(R)
  <2>1. IsFiniteSet(R) /\ Cardinality(R) = k - 1
    BY <1>3, <1>6, FS_RemoveElement
  <2>2. k - 1 \in Nat
    BY <2>1, FS_CardinalityType
  <2>3. QED
    BY <1>3, <2>1, <2>2 DEF Apart
<1>8. PICK s : Ordered(s, R)
  <2>1. k - 1 \notin Bad
    BY <1>2, <1>4
  <2>2. QED
    BY <1>7, <2>1
<1> DEFINE z == [i \in 1 .. k |-> IF i = 1 THEN x ELSE s[i - 1]]
<1>9. /\ s \in [1 .. k - 1 -> R] /\ ToSet(s) = R /\ DOMAIN s = 1 .. k - 1
      /\ \A i, j \in 1 .. k - 1 : i < j => Hash[s[i]] < Hash[s[j]]
  BY <1>7, <1>8 DEF Ordered
<1>10. \A i \in 1 .. k : i # 1 => i - 1 \in 1 .. k - 1
  BY <1>4
<1>11. z \in [1 .. k -> T]
  BY <1>6, <1>9, <1>10
<1>12. ToSet(z) = T
  <2>1. \A y \in T : \E i \in 1 .. k : z[i] = y
    <3> TAKE y \in T
    <3>1. CASE y = x
      <4>1. 1 \in 1 .. k
        BY <1>7
      <4>2. QED
        BY <3>1, <4>1
    <3>2. CASE y # x
      <4>1. PICK j \in 1 .. k - 1 : s[j] = y
        BY <1>9, <3>2 DEF ToSet
      <4>2. j + 1 \in 1 .. k /\ j + 1 # 1 /\ (j + 1) - 1 = j
        BY <1>4
      <4>3. QED
        BY <4>1, <4>2
    <3>3. QED
      BY <3>1, <3>2
  <2>2. QED
    BY <1>11, <2>1 DEF ToSet
<1>13. ASSUME NEW i \in 1 .. k, NEW j \in 1 .. k, i < j PROVE Hash[z[i]] < Hash[z[j]]
  <2>1. j # 1 /\ j - 1 \in 1 .. k - 1 /\ z[j] = s[j - 1] /\ s[j - 1] \in R
    BY <1>4, <1>9, <1>13
  <2>2. CASE i = 1
    <3>1. z[i] = x /\ Hash[x] <= Hash[s[j - 1]] /\ Hash[x] # Hash[s[j - 1]]
      BY <1>3, <1>6, <2>1, <2>2 DEF Apart
    <3>2. Hash[x] \in Nat /\ Hash[s[j - 1]] \in Nat
      BY <1>3, <2>1, HashIs
    <3> HIDE DEF z, R
    <3>3. QED
      BY <2>1, <3>1, <3>2
  <2>3. CASE i # 1
    <3>1. z[i] = s[i - 1] /\ i - 1 \in 1 .. k - 1 /\ i - 1 < j - 1
      BY <1>10, <1>13, <2>3
    <3>2. Hash[s[i - 1]] < Hash[s[j - 1]]
      BY <1>9, <2>1, <3>1
    <3> HIDE DEF z, R
    <3>3. QED
      BY <2>1, <3>1, <3>2
  <2>4. QED
    BY <2>2, <2>3
<1>14. Ordered(z, T)
  <2>1. DOMAIN z = 1 .. k
    OBVIOUS
  <2> HIDE DEF z
  <2>2. QED
    BY <1>3, <1>11, <1>12, <1>13, <2>1 DEF Ordered
<1>15. QED
  BY <1>3, <1>14

\* What InOrder returns.
LEMMA InOrderIs ==
    ASSUME NEW S \in SUBSET Name, IsFiniteSet(S), Apart(S), NEW es, es = InOrder(S)
    PROVE  /\ es \in Seq(Name) /\ Once(es) /\ {es[k] : k \in DOMAIN es} = S
           /\ \A i, j \in DOMAIN es : i < j => Hash[es[i]] < Hash[es[j]]
<1>1. PICK s : Ordered(s, S)
  BY OrderExists
<1>2. Ordered(es, S)
  <2> DEFINE P(q) == ToSet(q) = S /\ \A i, j \in DOMAIN q : i < j => Hash[q[i]] < Hash[q[j]]
  <2>1. es = CHOOSE q \in [1 .. Cardinality(S) -> S] : P(q)
    BY DEF InOrder
  <2>2. s \in [1 .. Cardinality(S) -> S] /\ P(s)
    BY <1>1 DEF Ordered
  <2>3. es \in [1 .. Cardinality(S) -> S] /\ P(es)
    <3> HIDE DEF P
    <3>1. QED
      BY <2>1, <2>2
  <2>4. QED
    BY <2>3 DEF Ordered
<1>3. Cardinality(S) \in Nat
  BY FS_CardinalityType
<1>4. es \in Seq(Name)
  <2>1. es \in [1 .. Cardinality(S) -> Name]
    BY <1>2 DEF Ordered
  <2>2. QED
    BY <1>3, <2>1
<1>5. DOMAIN es = 1 .. Cardinality(S) /\ \A k \in DOMAIN es : es[k] \in Name
  BY <1>2 DEF Ordered
<1>6. Once(es)
  <2>1. SUFFICES ASSUME NEW i \in DOMAIN es, NEW j \in DOMAIN es, es[i] = es[j], i # j PROVE FALSE
    BY DEF Once
  <2>2. i \in Nat /\ j \in Nat /\ Hash[es[i]] \in Nat
    BY <1>3, <1>5, HashIs
  <2>3. i < j \/ j < i
    BY <2>1, <2>2
  <2>4. Hash[es[i]] < Hash[es[j]] \/ Hash[es[j]] < Hash[es[i]]
    BY <1>2, <2>3 DEF Ordered
  <2>5. QED
    BY <2>1, <2>2, <2>4
<1>7. QED
  BY <1>2, <1>4, <1>6 DEF Ordered, ToSet

\* What split_data keeps of the names of a block.
LEMMA KeptIs ==
    ASSUME NEW b \in Blocks, NamesIn(b) \subseteq Name, NEW n \in Name
    PROVE  /\ Kept(b, n) \in SUBSET Name /\ IsFiniteSet(Kept(b, n)) /\ Apart(Kept(b, n))
           /\ n \in Kept(b, n) /\ Kept(b, n) \subseteq NamesIn(b) \cup {n}
<1> DEFINE J == {i \in Taken(b) : /\ Hash[b[i].name] # Hash[n]
                                  /\ \A j \in Taken(b) : j > i => Hash[b[j].name] # Hash[b[i].name]}
           K == {b[i].name : i \in J}
<1>1. Kept(b, n) = {n} \cup K
  BY DEF Kept
<1>2. J \subseteq Taken(b) /\ Taken(b) \subseteq 1 .. Len(b) /\ Len(b) \in Nat
  BY BlockIs DEF Taken
<1>3. K \subseteq NamesIn(b)
  BY DEF NamesIn
<1>4. IsFiniteSet(K)
  <2>1. IsFiniteSet(J)
    <3>1. IsFiniteSet(1 .. Len(b))
      BY <1>2, FS_Interval
    <3> HIDE DEF J
    <3>2. QED
      BY <1>2, <3>1, FS_Subset
  <2> DEFINE at == [i \in J |-> b[i].name]
  <2>2. at \in Surjection(J, K)
    <3>1. at \in [J -> K] /\ \A x \in K : \E i \in J : at[i] = x
      <4> HIDE DEF J
      <4>1. QED
        OBVIOUS
    <3> HIDE DEF at, J, K
    <3>2. QED
      BY <3>1 DEF Surjection
  <2> HIDE DEF J, K, at
  <2>3. QED
    BY <2>1, <2>2, FS_Surjection
<1>5. IsFiniteSet({n} \cup K)
  <2> HIDE DEF K
  <2>1. QED
    BY <1>4, FS_AddElement
<1>6. Apart({n} \cup K)
  <2>1. ASSUME NEW i \in J, NEW j \in J, Hash[b[i].name] = Hash[b[j].name] PROVE i = j
    <3>1. i \in Taken(b) /\ j \in Taken(b) /\ i \in Nat /\ j \in Nat
      BY <1>2
    <3>2. ~ (j > i) /\ ~ (i > j)
      BY <2>1, <3>1
    <3>3. QED
      BY <3>1, <3>2
  <2>2. \A i \in J : Hash[b[i].name] # Hash[n]
    OBVIOUS
  <2> HIDE DEF J
  <2>3. QED
    BY <2>1, <2>2 DEF Apart
<1>7. QED
  <2> HIDE DEF K
  <2>1. QED
    BY <1>1, <1>3, <1>5, <1>6

\* The entries of a block and a new name go to two blocks: the first es[1 .. k - 1],
\* the second the rest, or what there is room for.
Halves(es, k, f, s) ==
    /\ es \in Seq(Name) /\ Once(es) /\ k \in 2 .. Len(es)
    /\ \A i, j \in 1 .. Len(es) : i < j => Hash[es[i]] < Hash[es[j]]
    /\ f \in Blocks /\ WellFormed(f) /\ Distinct(f) /\ NamesIn(f) = {es[i] : i \in 1 .. k - 1}
    /\ s \in Blocks /\ WellFormed(s) /\ Distinct(s) /\ NamesIn(s) \subseteq {es[i] : i \in k .. Len(es)}
    /\ ShortNames => NamesIn(s) = {es[i] : i \in k .. Len(es)}

LEMMA HalvesAre ==
    ASSUME NEW b \in Blocks, WellFormed(b), NamesIn(b) \subseteq Name, NEW n \in Name,
           NEW es, es = ByHash(b, n), NEW k \in SplitPos(es)
    PROVE  /\ Halves(es, k, Filled(SubSeq(es, 1, k - 1)), Filled(SubSeq(es, k, Len(es))))
           /\ {es[i] : i \in 1 .. Len(es)} = Kept(b, n)
<1> DEFINE S == Kept(b, n)
           f == SubSeq(es, 1, k - 1)
           s == SubSeq(es, k, Len(es))
<1>1. S \in SUBSET Name /\ IsFiniteSet(S) /\ Apart(S) /\ n \in S /\ S \subseteq NamesIn(b) \cup {n}
  BY KeptIs
<1>2. es = InOrder(S)
  BY DEF ByHash
<1> HIDE DEF S
<1>3. /\ es \in Seq(Name) /\ Once(es) /\ {es[i] : i \in DOMAIN es} = S
      /\ \A i, j \in DOMAIN es : i < j => Hash[es[i]] < Hash[es[j]]
  BY <1>1, <1>2, InOrderIs
<1>4. k \in 2 .. Len(es)
  BY <1>3, CutBehindFirst
<1>5. Len(es) \in Nat /\ DOMAIN es = 1 .. Len(es) /\ \A i \in 1 .. Len(es) : es[i] \in Name
  BY <1>3
<1>6. /\ f \in Seq(Name) /\ Len(f) = k - 1 /\ DOMAIN f = 1 .. k - 1
      /\ \A i \in 1 .. k - 1 : f[i] = es[i] /\ i \in 1 .. Len(es)
  BY <1>3, <1>4, <1>5
<1>7. /\ s \in Seq(Name) /\ Len(s) = Len(es) - k + 1 /\ DOMAIN s = 1 .. Len(es) - k + 1
      /\ \A i \in 1 .. Len(es) - k + 1 : s[i] = es[k + i - 1] /\ k + i - 1 \in k .. Len(es)
                                         /\ k + i - 1 \in 1 .. Len(es)
  BY <1>3, <1>4, <1>5
<1> HIDE DEF f, s
<1>8. Once(f)
  BY <1>3, <1>5, <1>6 DEF Once
<1>9. Once(s)
  <2>1. SUFFICES ASSUME NEW i \in DOMAIN s, NEW j \in DOMAIN s, s[i] = s[j] PROVE i = j
    BY DEF Once
  <2>2. k + i - 1 = k + j - 1
    BY <1>3, <1>5, <1>7, <2>1 DEF Once
  <2>3. i \in Nat /\ j \in Nat /\ k \in Nat
    BY <1>4, <1>5, <1>7
  <2>4. QED
    BY <2>2, <2>3
<1>10. {f[i] : i \in DOMAIN f} = {es[i] : i \in 1 .. k - 1}
  BY <1>6
<1>11. {s[i] : i \in DOMAIN s} = {es[i] : i \in k .. Len(es)}
  <2>1. ASSUME NEW i \in k .. Len(es) PROVE es[i] \in {s[j] : j \in DOMAIN s}
    <3>1. i - k + 1 \in 1 .. Len(es) - k + 1 /\ k + (i - k + 1) - 1 = i
      BY <1>4, <1>5
    <3>2. s[i - k + 1] = es[i]
      BY <1>7, <3>1
    <3>3. QED
      BY <1>7, <3>1, <3>2
  <2>2. QED
    BY <1>7, <2>1
<1>12. k \in 1 .. Len(es) /\ Used(es, k - 1) <= BLK_SIZE \div 2
  BY <1>4, <1>5 DEF SplitPos
<1>13. NamesIn(Filled(f)) = {es[i] : i \in 1 .. k - 1}
  <2>1. PICK g : Adds(g, [i \in 1 .. Len(f) |-> EntrySize(f[i])], Len(f)) /\ g[Len(f)] <= BLK_SIZE
    BY <1>3, <1>12, FirstFits DEF f
  <2>2. QED
    BY <1>6, <1>10, <2>1, FilledHolds
<1>14. Bytes(es) - EntrySize(n) <= BLK_SIZE
  BY <1>1, <1>3, NamesFit
<1>15. ShortNames => Bytes(s) <= BLK_SIZE
  <2>1. Used(es, k) > BLK_SIZE \div 2
    BY DEF SplitPos
  <2>2. QED
    BY <1>1, <1>3, <1>4, <1>14, <2>1, RestFits DEF s
<1>16. ASSUME ShortNames PROVE NamesIn(Filled(s)) = {es[i] : i \in k .. Len(es)}
  <2>1. PICK g : Adds(g, [i \in 1 .. Len(s) |-> EntrySize(s[i])], Len(s)) /\ g[Len(s)] = Bytes(s)
    BY <1>7, BytesAdd
  <2>2. g[Len(s)] <= BLK_SIZE
    BY <1>15, <1>16, <2>1
  <2>3. QED
    BY <1>7, <1>11, <2>1, <2>2, FilledHolds
<1>17. Filled(f) \in Blocks /\ WellFormed(Filled(f)) /\ Distinct(Filled(f))
  BY <1>6, <1>8, FilledKeeps
<1>18. /\ Filled(s) \in Blocks /\ WellFormed(Filled(s)) /\ Distinct(Filled(s))
       /\ NamesIn(Filled(s)) \subseteq {es[i] : i \in k .. Len(es)}
  BY <1>7, <1>9, <1>11, FilledKeeps
<1>19. Halves(es, k, Filled(f), Filled(s))
  BY <1>3, <1>4, <1>5, <1>13, <1>16, <1>17, <1>18 DEF Halves
<1>20. QED
  BY <1>3, <1>5, <1>19 DEF f, s, S

\* A sorted index that begins with the hash 0.
Sorted(ix) ==
    /\ ix \in Seq([hash : Nat, block : Nat]) /\ ix # <<>> /\ ix[1].hash = 0
    /\ \A i, j \in 1 .. Len(ix) : i < j => ix[i].hash <= ix[j].hash

LEMMA SortedIs ==
    ASSUME NEW ix, Sorted(ix)
    PROVE  /\ Len(ix) \in Nat /\ Len(ix) >= 1 /\ DOMAIN ix = 1 .. Len(ix) /\ 1 \in 1 .. Len(ix)
           /\ ix[1].hash = 0
           /\ \A i \in 1 .. Len(ix) : ix[i].hash \in Nat /\ ix[i].block \in Nat
<1>1. ix \in Seq([hash : Nat, block : Nat]) /\ ix # <<>> /\ ix[1].hash = 0
  BY DEF Sorted
<1>2. Len(ix) \in Nat /\ DOMAIN ix = 1 .. Len(ix) /\ \A i \in 1 .. Len(ix) : ix[i] \in [hash : Nat, block : Nat]
  <2> DEFINE T == [hash : Nat, block : Nat]
  <2>1. ix \in Seq(T)
    BY <1>1
  <2> HIDE DEF T
  <2>2. Len(ix) \in Nat /\ DOMAIN ix = 1 .. Len(ix) /\ \A i \in 1 .. Len(ix) : ix[i] \in T
    BY <2>1
  <2>3. QED
    BY <2>2 DEF T
<1>3. Len(ix) >= 1
  BY <1>1, <1>2
<1>4. QED
  BY <1>1, <1>2, <1>3

\* The entry f is the last one at or below the hash h.
Begins(ix, h, f) ==
    /\ f \in 1 .. Len(ix) /\ ix[f].hash <= h
    /\ \A i \in f + 1 .. Len(ix) : ix[i].hash > h

\* What from_hash finds.
LEMMA FromHashIs ==
    ASSUME NEW ix, Sorted(ix), NEW h \in Nat
    PROVE  Begins(ix, h, from_hash(ix, h))
<1> DEFINE n == Len(ix)
           S == {1} \cup {i \in DOMAIN ix : i > 1 /\ ix[i].hash <= h}
           f == Max(S)
<1>1. n \in Nat /\ n >= 1 /\ DOMAIN ix = 1 .. n /\ ix[1].hash = 0 /\ \A i \in 1 .. n : ix[i].hash \in Nat
  BY SortedIs
<1>2. S \in SUBSET (0 .. n) /\ S # {}
  BY <1>1
<1>3. f \in S /\ \A i \in S : i <= f
  <2> HIDE DEF S, n
  <2>1. QED
    BY <1>1, <1>2, MaxIs
<1>4. from_hash(ix, h) = f
  BY DEF from_hash
<1> HIDE DEF f
<1>5. f \in 1 .. n /\ ix[f].hash <= h
  BY <1>1, <1>3
<1>6. ASSUME NEW i \in f + 1 .. n PROVE ix[i].hash > h
  <2>1. i \in 1 .. n /\ i > 1 /\ ~ (i <= f)
    BY <1>1, <1>5
  <2>2. i \notin S
    BY <1>3, <2>1
  <2>3. ~ (ix[i].hash <= h)
    BY <1>1, <2>1, <2>2
  <2>4. QED
    BY <1>1, <2>1, <2>3
<1>7. QED
  BY <1>4, <1>5, <1>6 DEF Begins

\* There is only one such entry.
LEMMA BeginsOnce ==
    ASSUME NEW ix, Sorted(ix), NEW h \in Nat, NEW f, Begins(ix, h, f)
    PROVE  from_hash(ix, h) = f
<1> DEFINE n == Len(ix)
           e == from_hash(ix, h)
<1>1. n \in Nat /\ \A i \in 1 .. n : ix[i].hash \in Nat
  BY SortedIs
<1>2. Begins(ix, h, e)
  BY FromHashIs
<1> HIDE DEF e
<1>3. e \in 1 .. n /\ f \in 1 .. n /\ ix[e].hash <= h /\ ix[f].hash <= h
  BY <1>2 DEF Begins
<1>4. ~ (e < f)
  <2>1. SUFFICES ASSUME e < f PROVE FALSE
    OBVIOUS
  <2>2. f \in e + 1 .. n
    BY <1>1, <1>3, <2>1
  <2>3. ix[f].hash > h /\ ix[f].hash \in Nat
    BY <1>1, <1>2, <1>3, <2>2 DEF Begins
  <2>4. QED
    BY <1>3, <2>3
<1>5. ~ (f < e)
  <2>1. SUFFICES ASSUME f < e PROVE FALSE
    OBVIOUS
  <2>2. e \in f + 1 .. n
    BY <1>1, <1>3, <2>1
  <2>3. ix[e].hash > h /\ ix[e].hash \in Nat
    BY <1>1, <1>3, <2>2 DEF Begins
  <2>4. QED
    BY <1>3, <2>3
<1>6. QED
  BY <1>3, <1>4, <1>5 DEF e

\* j is an entry where the cursor that begins at f stops.
Met(ix, h, f, j) ==
    /\ Begins(ix, h, f) /\ j \in f .. Len(ix)
    /\ \A k \in f + 1 .. j : ix[k].hash = h + 1

LEMMA StopsAre ==
    ASSUME NEW ix, Sorted(ix), NEW h \in Nat, NEW j
    PROVE  j \in Stops(ix, h) <=> Met(ix, h, from_hash(ix, h), j)
<1> DEFINE f == from_hash(ix, h)
<1>1. Begins(ix, h, f)
  BY FromHashIs
<1>2. f \in 1 .. Len(ix) /\ DOMAIN ix = 1 .. Len(ix) /\ Len(ix) \in Nat
  BY <1>1, SortedIs DEF Begins
<1> HIDE DEF f
<1>3. Stops(ix, h) = {i \in 1 .. Len(ix) : i >= f /\ \A k \in f + 1 .. i : ix[k].hash = h + 1}
  BY <1>2 DEF Stops, GoesOn, f
<1>4. j \in f .. Len(ix) <=> j \in 1 .. Len(ix) /\ j >= f
  BY <1>2
<1>5. QED
  BY <1>1, <1>3, <1>4 DEF Met, f

\* An entry found to be met is one the cursor stops at.
LEMMA MetStops ==
    ASSUME NEW ix, Sorted(ix), NEW h \in Nat, NEW f, NEW j, Met(ix, h, f, j)
    PROVE  j \in Stops(ix, h)
<1>1. from_hash(ix, h) = f
  BY BeginsOnce DEF Met
<1>2. QED
  BY <1>1, StopsAre

\* The cursor stops at its first entry, goes on without a gap, and ends.
LEMMA StopsWalk ==
    ASSUME NEW ix, Sorted(ix), NEW h \in Nat
    PROVE  /\ from_hash(ix, h) \in Stops(ix, h) /\ Stops(ix, h) \subseteq 1 .. Len(ix)
           /\ \A j \in Stops(ix, h) : j >= from_hash(ix, h)
           /\ \A i \in Stops(ix, h) : i + 1 \in Stops(ix, h) <=>
                                          i + 1 \in DOMAIN ix /\ ix[i + 1].hash = h + 1
           /\ \A i, j \in Stops(ix, h) : i < j => i + 1 \in Stops(ix, h)
<1> DEFINE f == from_hash(ix, h)
           S == Stops(ix, h)
<1>1. Begins(ix, h, f) /\ \A j : j \in S <=> Met(ix, h, f, j)
  BY FromHashIs, StopsAre
<1>2. f \in 1 .. Len(ix) /\ DOMAIN ix = 1 .. Len(ix) /\ Len(ix) \in Nat
  BY <1>1, SortedIs DEF Begins
<1> HIDE DEF f, S
<1>3. \A j : j \in S <=> j \in f .. Len(ix) /\ \A k \in f + 1 .. j : ix[k].hash = h + 1
  BY <1>1 DEF Met
<1>4. f \in S
  BY <1>2, <1>3
<1>5. S \subseteq 1 .. Len(ix) /\ \A j \in S : j >= f
  BY <1>2, <1>3
<1>6. ASSUME NEW i \in S
      PROVE  i + 1 \in S <=> i + 1 \in DOMAIN ix /\ ix[i + 1].hash = h + 1
  <2>1. i \in f .. Len(ix) /\ \A k \in f + 1 .. i : ix[k].hash = h + 1
    BY <1>3
  <2>2. i + 1 \in f .. Len(ix) <=> i + 1 \in 1 .. Len(ix)
    BY <1>2, <2>1
  <2>3. i + 1 \in f + 1 .. i + 1 /\ \A k \in f + 1 .. i + 1 : k = i + 1 \/ k \in f + 1 .. i
    BY <1>2, <2>1
  <2>4. QED
    BY <1>2, <1>3, <2>1, <2>2, <2>3
<1>7. ASSUME NEW i \in S, NEW j \in S, i < j PROVE i + 1 \in S
  <2>1. i \in f .. Len(ix) /\ j \in f .. Len(ix) /\ \A k \in f + 1 .. j : ix[k].hash = h + 1
    BY <1>3
  <2>2. i + 1 \in f .. Len(ix) /\ \A k \in f + 1 .. i + 1 : k \in f + 1 .. j
    BY <1>2, <1>7, <2>1
  <2>3. QED
    BY <1>3, <2>1, <2>2
<1>8. QED
  BY <1>4, <1>5, <1>6, <1>7 DEF f, S

\* The first entry a cursor stops at is in the index.
LEMMA FirstStop ==
    ASSUME NEW ix, Sorted(ix), NEW h \in Nat
    PROVE  from_hash(ix, h) \in 1 .. Len(ix) /\ from_hash(ix, h) \in Stops(ix, h)
<1>1. from_hash(ix, h) \in Stops(ix, h) /\ Stops(ix, h) \subseteq 1 .. Len(ix)
  BY StopsWalk
<1>2. QED
  BY <1>1

\* The index jx is ix with the entry e behind the entry q, where its hash belongs.
Linked(ix, jx, q, e) ==
    /\ Sorted(ix) /\ q \in 1 .. Len(ix) /\ e \in [hash : Nat, block : Nat]
    /\ ix[q].hash <= e.hash /\ (q + 1 \in 1 .. Len(ix) => e.hash < ix[q + 1].hash)
    /\ jx \in Seq([hash : Nat, block : Nat]) /\ Len(jx) = Len(ix) + 1
    /\ \A i \in 1 .. q : jx[i] = ix[i]
    /\ jx[q + 1] = e
    /\ \A i \in q + 1 .. Len(ix) : jx[i + 1] = ix[i]

\* Where an entry is in jx.
LEMMA LinkedPlaces ==
    ASSUME NEW ix, NEW jx, NEW q, NEW e, Linked(ix, jx, q, e)
    PROVE  /\ \A i \in 1 .. Len(ix) + 1 : /\ i <= q => i \in 1 .. q /\ i \in 1 .. Len(ix) /\ jx[i] = ix[i]
                                          /\ i > q + 1 => i - 1 \in q + 1 .. Len(ix) /\ i - 1 \in 1 .. Len(ix)
                                                          /\ jx[i] = ix[i - 1]
           /\ jx[q + 1] = e /\ q \in Nat /\ q >= 1 /\ Len(ix) \in Nat /\ q <= Len(ix) /\ Len(jx) = Len(ix) + 1
<1>1. /\ Len(ix) \in Nat /\ q \in 1 .. Len(ix)
      /\ \A i \in 1 .. q : jx[i] = ix[i]
      /\ \A i \in q + 1 .. Len(ix) : jx[i + 1] = ix[i]
      /\ jx[q + 1] = e /\ Len(jx) = Len(ix) + 1
  BY SortedIs DEF Linked
<1>2. ASSUME NEW i \in 1 .. Len(ix) + 1, i <= q
      PROVE i \in 1 .. q /\ i \in 1 .. Len(ix) /\ jx[i] = ix[i]
  BY <1>1, <1>2
<1>3. ASSUME NEW i \in 1 .. Len(ix) + 1, i > q + 1
      PROVE i - 1 \in q + 1 .. Len(ix) /\ i - 1 \in 1 .. Len(ix) /\ jx[i] = ix[i - 1]
  <2>1. i - 1 \in q + 1 .. Len(ix) /\ i - 1 \in 1 .. Len(ix) /\ (i - 1) + 1 = i
    BY <1>1, <1>3
  <2>2. QED
    BY <1>1, <2>1
<1>4. QED
  BY <1>1, <1>2, <1>3

LEMMA LinkedSorted ==
    ASSUME NEW ix, NEW jx, NEW q, NEW e, Linked(ix, jx, q, e)
    PROVE  Sorted(jx)
<1> DEFINE n == Len(ix)
<1>1. /\ \A i \in 1 .. n + 1 : /\ i <= q => i \in 1 .. q /\ i \in 1 .. n /\ jx[i] = ix[i]
                               /\ i > q + 1 => i - 1 \in q + 1 .. n /\ i - 1 \in 1 .. n
                                               /\ jx[i] = ix[i - 1]
      /\ jx[q + 1] = e /\ q \in Nat /\ q >= 1 /\ n \in Nat /\ q <= n /\ Len(jx) = n + 1
  BY LinkedPlaces
<1>2. /\ \A i \in 1 .. n : ix[i].hash \in Nat
      /\ \A i, j \in 1 .. n : i < j => ix[i].hash <= ix[j].hash
      /\ ix[1].hash = 0 /\ e.hash \in Nat /\ ix[q].hash <= e.hash
      /\ (q + 1 \in 1 .. n => e.hash < ix[q + 1].hash)
      /\ jx \in Seq([hash : Nat, block : Nat])
  <2>1. /\ \A i, j \in 1 .. n : i < j => ix[i].hash <= ix[j].hash
        /\ ix[q].hash <= e.hash /\ (q + 1 \in 1 .. n => e.hash < ix[q + 1].hash)
        /\ jx \in Seq([hash : Nat, block : Nat])
        /\ Sorted(ix) /\ e \in [hash : Nat, block : Nat]
    BY DEF Linked, Sorted
  <2>2. QED
    BY <2>1, SortedIs
<1> HIDE DEF n
<1>3. \A i \in 1 .. n : i <= q => ix[i].hash <= e.hash
  <2> TAKE i \in 1 .. n
  <2>1. CASE i = q
    BY <1>2, <2>1
  <2>2. CASE i < q
    <3>1. q \in 1 .. n
      BY <1>1
    <3>2. ix[i].hash <= ix[q].hash /\ ix[i].hash \in Nat /\ ix[q].hash \in Nat
      BY <1>2, <2>2, <3>1
    <3>3. QED
      BY <1>2, <3>2
  <2>3. QED
    BY <1>1, <2>1, <2>2
<1>4. \A i \in q + 1 .. n : e.hash <= ix[i].hash
  <2> TAKE i \in q + 1 .. n
  <2>1. q + 1 \in 1 .. n /\ i \in 1 .. n
    BY <1>1
  <2>2. e.hash < ix[q + 1].hash /\ ix[q + 1].hash \in Nat /\ ix[i].hash \in Nat
    BY <1>2, <2>1
  <2>3. ix[q + 1].hash <= ix[i].hash
    <3>1. CASE i = q + 1
      BY <2>2, <3>1
    <3>2. CASE i > q + 1
      BY <1>2, <2>1, <3>2
    <3>3. QED
      BY <1>1, <3>1, <3>2
  <2>4. QED
    BY <1>2, <2>2, <2>3
<1>5. ASSUME NEW i \in 1 .. n + 1, NEW j \in 1 .. n + 1, i < j PROVE jx[i].hash <= jx[j].hash
  <2>1. CASE j <= q
    <3>1. jx[i] = ix[i] /\ jx[j] = ix[j] /\ i \in 1 .. n /\ j \in 1 .. n
      BY <1>1, <1>5, <2>1
    <3>2. QED
      BY <1>2, <1>5, <3>1
  <2>2. CASE j = q + 1
    <3>1. jx[i] = ix[i] /\ i \in 1 .. n /\ i <= q /\ jx[j] = e
      BY <1>1, <1>5, <2>2
    <3>2. QED
      BY <1>3, <3>1
  <2>3. CASE j > q + 1
    <3>1. jx[j] = ix[j - 1] /\ j - 1 \in 1 .. n /\ j - 1 \in q + 1 .. n
      BY <1>1, <2>3
    <3>2. CASE i <= q
      <4>1. jx[i] = ix[i] /\ i \in 1 .. n /\ i < j - 1
        BY <1>1, <2>3, <3>2
      <4>2. QED
        BY <1>2, <3>1, <4>1
    <3>3. CASE i = q + 1
      BY <1>1, <1>4, <3>1, <3>3
    <3>4. CASE i > q + 1
      <4>1. jx[i] = ix[i - 1] /\ i - 1 \in 1 .. n /\ i - 1 < j - 1
        BY <1>1, <1>5, <3>4
      <4>2. QED
        BY <1>2, <3>1, <4>1
    <3>5. QED
      BY <1>1, <3>2, <3>3, <3>4
  <2>4. QED
    BY <1>1, <2>1, <2>2, <2>3
<1>6. jx[1].hash = 0 /\ jx # <<>>
  <2>1. 1 \in 1 .. n + 1 /\ 1 <= q
    BY <1>1
  <2>2. QED
    BY <1>1, <1>2, <2>1
<1>7. QED
  BY <1>1, <1>2, <1>5, <1>6 DEF Sorted

\* Where the cursors of a hash stop after the entry was put in.
LEMMA LinkedStops ==
    ASSUME NEW ix, NEW jx, NEW q, NEW e, Linked(ix, jx, q, e), NEW g \in Nat,
           NEW j \in Stops(ix, g)
    PROVE  /\ j < q => j \in Stops(jx, g)
           /\ j = q /\ g < e.hash => q \in Stops(jx, g)
           /\ j = q /\ e.hash <= g => q + 1 \in Stops(jx, g)
           /\ j > q => j + 1 \in Stops(jx, g)
<1> DEFINE n == Len(ix)
           f == from_hash(ix, g)
<1>1. /\ \A i \in 1 .. n + 1 : /\ i <= q => i \in 1 .. q /\ i \in 1 .. n /\ jx[i] = ix[i]
                               /\ i > q + 1 => i - 1 \in q + 1 .. n /\ i - 1 \in 1 .. n
                                               /\ jx[i] = ix[i - 1]
      /\ jx[q + 1] = e /\ q \in Nat /\ q >= 1 /\ n \in Nat /\ q <= n /\ Len(jx) = n + 1
  BY LinkedPlaces
<1>2. Sorted(ix) /\ Sorted(jx)
  BY LinkedSorted DEF Linked
<1>3. Met(ix, g, f, j)
  BY <1>2, StopsAre
<1>4. /\ e.hash \in Nat /\ ix[q].hash <= e.hash /\ (q + 1 \in 1 .. n => e.hash < ix[q + 1].hash)
      /\ \A i \in 1 .. n : ix[i].hash \in Nat
  <2>1. /\ ix[q].hash <= e.hash /\ (q + 1 \in 1 .. n => e.hash < ix[q + 1].hash)
        /\ e \in [hash : Nat, block : Nat]
    BY DEF Linked
  <2>2. QED
    BY <1>2, <2>1, SortedIs
<1> HIDE DEF n, f
<1>5. /\ f \in 1 .. n /\ ix[f].hash <= g /\ j \in f .. n
      /\ \A i \in f + 1 .. n : ix[i].hash > g
      /\ \A k \in f + 1 .. j : ix[k].hash = g + 1
  BY <1>3 DEF Met, Begins, n
\* Entries behind the new one are behind the first as well.
<1>6. f <= q => \A i \in 1 .. n + 1 : i > q + 1 => jx[i].hash > g
  <2>1. SUFFICES ASSUME f <= q, NEW i \in 1 .. n + 1, i > q + 1 PROVE jx[i].hash > g
    OBVIOUS
  <2>2. i - 1 \in f + 1 .. n /\ jx[i] = ix[i - 1]
    BY <1>1, <1>5, <2>1
  <2>3. QED
    BY <1>5, <2>2
<1>7. f <= q /\ e.hash > g => Begins(jx, g, f)
  <2>1. SUFFICES ASSUME f <= q, e.hash > g PROVE Begins(jx, g, f)
    OBVIOUS
  <2>2. f \in 1 .. n + 1 /\ jx[f] = ix[f]
    BY <1>1, <1>5, <2>1
  <2>3. ASSUME NEW i \in f + 1 .. n + 1 PROVE jx[i].hash > g
    <3>1. CASE i <= q
      <4>1. i \in 1 .. n + 1 /\ jx[i] = ix[i] /\ i \in f + 1 .. n
        BY <1>1, <1>5, <3>1
      <4>2. QED
        BY <1>5, <4>1
    <3>2. CASE i = q + 1
      BY <1>1, <2>1, <3>2
    <3>3. CASE i > q + 1
      <4>1. i \in 1 .. n + 1
        BY <1>5
      <4>2. QED
        BY <1>6, <2>1, <3>3, <4>1
    <3>4. QED
      BY <1>1, <1>5, <3>1, <3>2, <3>3
  <2>4. QED
    BY <1>1, <1>5, <2>2, <2>3 DEF Begins
<1>8. f <= q /\ e.hash <= g => Begins(jx, g, q + 1)
  <2>1. SUFFICES ASSUME f <= q, e.hash <= g PROVE Begins(jx, g, q + 1)
    OBVIOUS
  <2>2. q + 1 \in 1 .. n + 1
    BY <1>1
  <2>3. ASSUME NEW i \in (q + 1) + 1 .. n + 1 PROVE jx[i].hash > g
    <3>1. i \in 1 .. n + 1 /\ i > q + 1
      BY <1>1
    <3>2. QED
      BY <1>6, <2>1, <3>1
  <2>4. QED
    BY <1>1, <2>1, <2>2, <2>3 DEF Begins
<1>9. ASSUME j <= q, e.hash > g PROVE j \in Stops(jx, g)
  <2>1. f <= q /\ j \in f .. n + 1
    BY <1>1, <1>5, <1>9
  <2>2. ASSUME NEW k \in f + 1 .. j PROVE jx[k].hash = g + 1
    <3>1. k \in 1 .. n + 1 /\ k <= q
      BY <1>1, <1>5, <1>9
    <3>2. QED
      BY <1>1, <1>5, <3>1
  <2>3. Met(jx, g, f, j)
    BY <1>1, <1>7, <1>9, <2>1, <2>2 DEF Met
  <2>4. QED
    BY <1>2, <2>3, MetStops
<1>10. ASSUME j < q PROVE e.hash > g
  <2>1. q \in f + 1 .. n /\ q \in 1 .. n
    BY <1>1, <1>5, <1>10
  <2>2. ix[q].hash > g /\ ix[q].hash \in Nat
    BY <1>4, <1>5, <2>1
  <2>3. QED
    BY <1>4, <2>2
<1>11. ASSUME j = q, e.hash <= g PROVE q + 1 \in Stops(jx, g)
  <2>1. f <= q
    BY <1>1, <1>5, <1>11
  <2>2. q + 1 \in q + 1 .. n + 1 /\ \A k \in (q + 1) + 1 .. q + 1 : FALSE
    BY <1>1
  <2>3. Met(jx, g, q + 1, q + 1)
    BY <1>1, <1>8, <1>11, <2>1, <2>2 DEF Met
  <2>4. QED
    BY <1>2, <2>3, MetStops
<1>12. ASSUME j > q PROVE j + 1 \in Stops(jx, g)
  <2>1. CASE f <= q
    <3>1. q + 1 \in f + 1 .. j /\ q + 1 \in 1 .. n
      BY <1>1, <1>5, <1>12, <2>1
    <3>2. e.hash <= g
      <4>1. e.hash < g + 1
        BY <1>4, <1>5, <3>1
      <4>2. QED
        BY <1>4, <4>1
    <3>3. Begins(jx, g, q + 1)
      BY <1>8, <2>1, <3>2
    <3>4. j + 1 \in q + 1 .. n + 1
      BY <1>1, <1>5, <1>12
    <3>5. ASSUME NEW k \in (q + 1) + 1 .. j + 1 PROVE jx[k].hash = g + 1
      <4>1. k \in 1 .. n + 1 /\ k > q + 1 /\ k - 1 \in f + 1 .. j
        BY <1>1, <1>5, <2>1
      <4>2. QED
        BY <1>1, <1>5, <4>1
    <3>6. Met(jx, g, q + 1, j + 1)
      BY <1>1, <3>3, <3>4, <3>5 DEF Met
    <3>7. QED
      BY <1>2, <3>6, MetStops
  <2>2. CASE f > q
    <3>1. f + 1 \in 1 .. n + 1 /\ f + 1 > q + 1 /\ (f + 1) - 1 = f /\ j + 1 \in f + 1 .. n + 1
      BY <1>1, <1>5, <2>2
    <3>2. jx[f + 1].hash <= g
      BY <1>1, <1>5, <3>1
    <3>3. ASSUME NEW i \in (f + 1) + 1 .. n + 1 PROVE jx[i].hash > g
      <4>1. i \in 1 .. n + 1 /\ i > q + 1 /\ i - 1 \in f + 1 .. n
        BY <1>1, <1>5, <2>2
      <4>2. QED
        BY <1>1, <1>5, <4>1
    <3>4. ASSUME NEW k \in (f + 1) + 1 .. j + 1 PROVE jx[k].hash = g + 1
      <4>1. k \in 1 .. n + 1 /\ k > q + 1 /\ k - 1 \in f + 1 .. j
        BY <1>1, <1>5, <2>2
      <4>2. QED
        BY <1>1, <1>5, <4>1
    <3>5. Met(jx, g, f + 1, j + 1)
      BY <1>1, <3>1, <3>2, <3>3, <3>4 DEF Met, Begins
    <3>6. QED
      BY <1>2, <3>5, MetStops
  <2>3. QED
    BY <1>1, <1>5, <2>1, <2>2
<1>13. j \in Nat
  BY <1>5
<1>14. j < q => j \in Stops(jx, g)
  BY <1>1, <1>9, <1>10, <1>13
<1>15. j = q /\ g < e.hash => q \in Stops(jx, g)
  BY <1>1, <1>9
<1>16. QED
  BY <1>11, <1>12, <1>14, <1>15

\* Every block is tiled, and no name is in two slots.
Tidy(bs) == Unique(bs) /\ \A i \in DOMAIN bs : WellFormed(bs[i])

\* No name is in two blocks.
Separate(bs) ==
    \A b, c \in DOMAIN bs : b # c => \A m \in Name : ~ (m \in NamesIn(bs[b]) /\ m \in NamesIn(bs[c]))

LEMMA BlocksAre ==
    ASSUME NEW bs \in Seq(Blocks)
    PROVE  Len(bs) \in Nat /\ DOMAIN bs = 1 .. Len(bs) /\ \A i \in DOMAIN bs : bs[i] \in Blocks
<1> HIDE DEF Blocks
<1>1. QED
  OBVIOUS

LEMMA UniqueIs ==
    ASSUME NEW bs
    PROVE  Unique(bs) <=> (\A b \in DOMAIN bs : Distinct(bs[b])) /\ Separate(bs)
<1>1. ASSUME Unique(bs) PROVE (\A b \in DOMAIN bs : Distinct(bs[b])) /\ Separate(bs)
  <2>1. \A b \in DOMAIN bs : Distinct(bs[b])
    BY <1>1 DEF Unique, Distinct
  <2>2. ASSUME NEW b \in DOMAIN bs, NEW c \in DOMAIN bs, b # c, NEW m \in Name,
               m \in NamesIn(bs[b]), m \in NamesIn(bs[c])
        PROVE  FALSE
    <3>1. PICK i \in DOMAIN bs[b] : bs[b][i].name = m
      BY <2>2 DEF NamesIn, Taken
    <3>2. PICK j \in DOMAIN bs[c] : bs[c][j].name = m
      BY <2>2 DEF NamesIn, Taken
    <3>3. QED
      BY <1>1, <2>2, <3>1, <3>2 DEF Unique
  <2>3. QED
    BY <2>1, <2>2 DEF Separate
<1>2. ASSUME \A b \in DOMAIN bs : Distinct(bs[b]), Separate(bs) PROVE Unique(bs)
  <2>1. SUFFICES ASSUME NEW b \in DOMAIN bs, NEW c \in DOMAIN bs,
                        NEW i \in DOMAIN bs[b], NEW j \in DOMAIN bs[c],
                        bs[b][i].name \in Name, bs[b][i].name = bs[c][j].name
                 PROVE  b = c /\ i = j
    BY DEF Unique
  <2>2. bs[b][i].name \in NamesIn(bs[b]) /\ bs[b][i].name \in NamesIn(bs[c])
    <3>1. bs[b][i].name # Free
      BY <2>1, NotFree
    <3>2. QED
      BY <2>1, <3>1 DEF NamesIn, Taken
  <2>3. b = c
    BY <1>2, <2>1, <2>2 DEF Separate
  <2>4. QED
    BY <1>2, <2>1, <2>3 DEF Distinct
<1>3. QED
  BY <1>1, <1>2

\* A block of a directory gets other entries: some of its own, and perhaps one
\* that is in no block.
LEMMA PutTidy ==
    ASSUME NEW bs \in Seq(Blocks), Tidy(bs), NEW i \in DOMAIN bs, NEW c \in Blocks,
           WellFormed(c), Distinct(c), NEW x,
           NamesIn(c) \cap Name \subseteq NamesIn(bs[i]) \cup {x},
           \A b \in DOMAIN bs : x \in Name => x \notin NamesIn(bs[b]),
           NEW cs, cs = [bs EXCEPT ![i] = c]
    PROVE  cs \in Seq(Blocks) /\ DOMAIN cs = DOMAIN bs /\ Len(cs) = Len(bs) /\ Tidy(cs)
<1>1. Len(bs) \in Nat /\ DOMAIN bs = 1 .. Len(bs) /\ \A b \in DOMAIN bs : bs[b] \in Blocks
  BY BlocksAre
<1>2. cs \in Seq(Blocks) /\ Len(cs) = Len(bs) /\ DOMAIN cs = DOMAIN bs
  <2> HIDE DEF Blocks
  <2>1. QED
    BY <1>1
<1>3. cs[i] = c /\ \A b \in DOMAIN bs : b # i => cs[b] = bs[b]
  <2> HIDE DEF Blocks
  <2>1. QED
    BY <1>1
<1>4. (\A b \in DOMAIN bs : Distinct(bs[b])) /\ Separate(bs)
  BY UniqueIs DEF Tidy
<1>5. \A b \in DOMAIN cs : Distinct(cs[b]) /\ WellFormed(cs[b])
  BY <1>2, <1>3, <1>4 DEF Tidy
<1>6. ASSUME NEW b \in DOMAIN bs, b # i, NEW m \in Name, m \in NamesIn(cs[i]), m \in NamesIn(cs[b])
      PROVE  FALSE
  <2>1. m \in NamesIn(bs[i]) \cup {x} /\ m \in NamesIn(bs[b])
    BY <1>3, <1>6
  <2>2. QED
    BY <1>4, <1>6, <2>1 DEF Separate
<1>7. Separate(cs)
  <2>1. SUFFICES ASSUME NEW b \in DOMAIN bs, NEW d \in DOMAIN bs, b # d, NEW m \in Name,
                        m \in NamesIn(cs[b]), m \in NamesIn(cs[d])
                 PROVE  FALSE
    BY <1>2 DEF Separate
  <2>2. CASE b = i
    BY <1>6, <2>1, <2>2
  <2>3. CASE d = i
    BY <1>6, <2>1, <2>3
  <2>4. CASE b # i /\ d # i
    BY <1>3, <1>4, <2>1, <2>4 DEF Separate
  <2>5. QED
    BY <2>2, <2>3, <2>4
<1>8. QED
  BY <1>2, <1>5, <1>7, UniqueIs DEF Tidy

\* A cleared block is put behind the others.
LEMMA AppendTidy ==
    ASSUME NEW bs \in Seq(Blocks), Tidy(bs), NEW cs, cs = Append(bs, Cleared)
    PROVE  /\ cs \in Seq(Blocks) /\ Len(cs) = Len(bs) + 1 /\ Tidy(cs)
           /\ \A b \in DOMAIN bs : cs[b] = bs[b]
           /\ cs[Len(bs) + 1] = Cleared
<1>1. Len(bs) \in Nat /\ DOMAIN bs = 1 .. Len(bs) /\ \A b \in DOMAIN bs : bs[b] \in Blocks
  BY BlocksAre
<1>2. Cleared \in Blocks /\ WellFormed(Cleared) /\ Distinct(Cleared) /\ NamesIn(Cleared) = {}
  BY ClearedIs
<1>3. /\ cs \in Seq(Blocks) /\ Len(cs) = Len(bs) + 1 /\ DOMAIN cs = 1 .. Len(bs) + 1
      /\ cs[Len(bs) + 1] = Cleared /\ \A b \in DOMAIN bs : cs[b] = bs[b]
  <2> HIDE DEF Blocks, Cleared
  <2>1. QED
    BY <1>1, <1>2
<1>4. (\A b \in DOMAIN bs : Distinct(bs[b])) /\ Separate(bs)
  BY UniqueIs DEF Tidy
<1>5. \A b \in DOMAIN cs : b \in DOMAIN bs \/ b = Len(bs) + 1
  BY <1>1, <1>3
<1>6. \A b \in DOMAIN cs : Distinct(cs[b]) /\ WellFormed(cs[b])
  BY <1>2, <1>3, <1>4, <1>5 DEF Tidy
<1>7. Separate(cs)
  <2>1. SUFFICES ASSUME NEW b \in DOMAIN cs, NEW d \in DOMAIN cs, b # d, NEW m \in Name,
                        m \in NamesIn(cs[b]), m \in NamesIn(cs[d])
                 PROVE  FALSE
    BY DEF Separate
  <2>2. b \in DOMAIN bs /\ d \in DOMAIN bs
    BY <1>2, <1>3, <1>5, <2>1
  <2>3. QED
    BY <1>3, <1>4, <2>1, <2>2 DEF Separate
<1>8. QED
  BY <1>3, <1>6, <1>7, UniqueIs DEF Tidy

\* The index of a directory is sorted and has every block once.
LEMMA LeadsIs ==
    ASSUME NEW ix, ix \in Seq([hash : Nat, block : Nat]), NEW bs \in Seq(Blocks), Leads(ix, bs)
    PROVE  /\ Sorted(ix) /\ Len(ix) = Len(bs)
           /\ \A i \in 1 .. Len(ix) : ix[i].block \in DOMAIN bs
           /\ \A i, j \in 1 .. Len(ix) : ix[i].block = ix[j].block => i = j
<1>1. DOMAIN ix = 1 .. Len(ix) /\ Len(ix) \in Nat
  <2> DEFINE T == [hash : Nat, block : Nat]
  <2>1. ix \in Seq(T)
    OBVIOUS
  <2> HIDE DEF T
  <2>2. QED
    BY <2>1
<1>2. Sorted(ix)
  BY <1>1 DEF Leads, Sorted
<1>3. Len(ix) = Len(bs) /\ DOMAIN bs = 1 .. Len(bs) /\ {ix[i].block : i \in 1 .. Len(ix)} = DOMAIN bs
  BY <1>1, BlocksAre DEF Leads
<1> DEFINE n == Len(ix)
           f == [i \in 1 .. n |-> ix[i].block]
<1>4. f \in Surjection(1 .. n, 1 .. n)
  <2>1. f \in [1 .. n -> 1 .. n] /\ \A b \in 1 .. n : \E i \in 1 .. n : f[i] = b
    BY <1>3
  <2> HIDE DEF f, n
  <2>2. QED
    BY <2>1 DEF Surjection
<1>5. IsFiniteSet(1 .. n)
  BY <1>1, FS_Interval
<1>6. f \in Injection(1 .. n, 1 .. n)
  <2> HIDE DEF f, n
  <2>1. QED
    BY <1>4, <1>5, FS_SurjSameCardinalityImpliesInj
<1>7. \A i, j \in 1 .. n : f[i] = f[j] => i = j
  <2> HIDE DEF f, n
  <2>1. QED
    BY <1>6 DEF Injection, IsInjective
<1>8. QED
  BY <1>2, <1>3, <1>7

\* The index leads to the entries that were put into a block as well.
LEMMA PutLeads ==
    ASSUME NEW ix, NEW bs \in Seq(Blocks), Leads(ix, bs), NEW i \in DOMAIN bs, NEW c \in Blocks,
           NEW x, NamesIn(c) \subseteq NamesIn(bs[i]) \cup {x},
           x \in NamesIn(c) => x \in NamesIn(bs[i]) \/ (x \in Name /\ i \in Chain(ix, Hash[x])),
           NEW cs, cs = [bs EXCEPT ![i] = c]
    PROVE  Leads(ix, cs)
<1>1. DOMAIN cs = DOMAIN bs /\ Len(cs) = Len(bs)
  <2>1. DOMAIN bs = 1 .. Len(bs) /\ Len(bs) \in Nat
    BY BlocksAre
  <2> HIDE DEF Blocks
  <2>2. QED
    BY <2>1
<1>2. cs[i] = c /\ \A b \in DOMAIN bs : b # i => cs[b] = bs[b]
  OBVIOUS
<1>3. ASSUME NEW b \in DOMAIN cs, NEW m \in NamesIn(cs[b]) PROVE m \in Name /\ b \in Chain(ix, Hash[m])
  <2>1. CASE b = i
    <3>1. m \in NamesIn(c)
      BY <1>2, <1>3, <2>1
    <3>2. QED
      BY <1>1, <2>1, <3>1 DEF Leads
  <2>2. CASE b # i
    BY <1>1, <1>2, <1>3, <2>2 DEF Leads
  <2>3. QED
    BY <2>1, <2>2
<1>4. QED
  BY <1>1, <1>3 DEF Leads

\* A cursor for the hash of the new name x stops at the entry q, whose block is to
\* be divided at k.
Divides(ix, bs, x, q, es, k) ==
    /\ ix \in Seq([hash : Nat, block : Nat]) /\ bs \in Seq(Blocks)
    /\ Leads(ix, bs) /\ Tidy(bs)
    /\ x \in Name /\ q \in Stops(ix, Hash[x])
    /\ \A b \in DOMAIN bs : x \notin NamesIn(bs[b])
    /\ es = ByHash(bs[ix[q].block], x) /\ k \in SplitPos(es)

\* The hashes of an entry and of those behind it tell about the hash of a cursor
\* that stops there.
LEMMA StopHash ==
    ASSUME NEW ix, Sorted(ix), NEW h \in Nat, NEW j \in Stops(ix, h)
    PROVE  /\ j \in 1 .. Len(ix) /\ ix[j].hash <= h + 1
           /\ \A i \in j + 1 .. Len(ix) : ix[i].hash > h
<1> DEFINE f == from_hash(ix, h)
<1>1. Met(ix, h, f, j) /\ Len(ix) \in Nat /\ \A i \in 1 .. Len(ix) : ix[i].hash \in Nat
  BY StopsAre, SortedIs
<1> HIDE DEF f
<1>2. /\ f \in 1 .. Len(ix) /\ j \in f .. Len(ix) /\ ix[f].hash <= h
      /\ \A i \in f + 1 .. Len(ix) : ix[i].hash > h
      /\ \A k \in f + 1 .. j : ix[k].hash = h + 1
  BY <1>1 DEF Met, Begins
<1>3. ix[j].hash <= h + 1
  <2>1. CASE j = f
    BY <1>1, <1>2, <2>1
  <2>2. CASE j # f
    <3>1. j \in f + 1 .. j
      BY <1>1, <1>2, <2>2
    <3>2. ix[j].hash = h + 1
      BY <1>2, <3>1
    <3>3. QED
      BY <3>2
  <2>3. QED
    BY <2>1, <2>2
<1>4. \A i \in j + 1 .. Len(ix) : i \in f + 1 .. Len(ix)
  BY <1>1, <1>2
<1>5. QED
  BY <1>1, <1>2, <1>3, <1>4

\* What a division is about: every name of the two halves has a cursor that stops
\* at the entry q.
LEMMA DividesIs ==
    ASSUME NEW ix, NEW bs, NEW x, NEW q, NEW es, NEW k, Divides(ix, bs, x, q, es, k)
    PROVE  /\ Sorted(ix) /\ Len(ix) = Len(bs) /\ q \in 1 .. Len(ix)
           /\ ix[q].block \in DOMAIN bs /\ bs[ix[q].block] \in Blocks
           /\ \A i \in 1 .. Len(ix) : ix[i].block = ix[q].block => i = q
           /\ Halves(es, k, Filled(SubSeq(es, 1, k - 1)), Filled(SubSeq(es, k, Len(es))))
           /\ \A i \in 1 .. Len(es) : /\ es[i] \in Name /\ es[i] \in NamesIn(bs[ix[q].block]) \cup {x}
                                      /\ q \in Stops(ix, Hash[es[i]])
<1> DEFINE B == ix[q].block
           T == [hash : Nat, block : Nat]
<1>1. ix \in Seq(T) /\ bs \in Seq(Blocks) /\ Leads(ix, bs) /\ Tidy(bs) /\ x \in Name
  BY DEF Divides
<1>2. /\ Sorted(ix) /\ Len(ix) = Len(bs)
      /\ \A i \in 1 .. Len(ix) : ix[i].block \in DOMAIN bs
      /\ \A i, j \in 1 .. Len(ix) : ix[i].block = ix[j].block => i = j
  BY <1>1, LeadsIs
<1>3. q \in 1 .. Len(ix) /\ q \in Stops(ix, Hash[x]) /\ Hash[x] \in Nat
  <2>1. Hash[x] \in Nat /\ q \in Stops(ix, Hash[x])
    BY <1>1, HashIs DEF Divides
  <2>2. QED
    BY <1>2, <2>1, StopHash
<1> HIDE DEF T
<1>4. B \in DOMAIN bs /\ bs[B] \in Blocks /\ WellFormed(bs[B])
  BY <1>1, <1>2, <1>3, BlocksAre DEF Tidy
<1>5. NamesIn(bs[B]) \subseteq Name
  BY <1>1, <1>4 DEF Leads
<1>6. es = ByHash(bs[B], x) /\ k \in SplitPos(es)
  BY DEF Divides
<1> HIDE DEF B
<1>7. /\ Halves(es, k, Filled(SubSeq(es, 1, k - 1)), Filled(SubSeq(es, k, Len(es))))
      /\ {es[i] : i \in 1 .. Len(es)} = Kept(bs[B], x)
  BY <1>1, <1>4, <1>5, <1>6, HalvesAre
<1>8. Kept(bs[B], x) \subseteq NamesIn(bs[B]) \cup {x}
  BY <1>1, <1>4, <1>5, KeptIs
<1>9. ASSUME NEW m \in NamesIn(bs[B]) PROVE q \in Stops(ix, Hash[m])
  <2>1. B \in Chain(ix, Hash[m]) /\ Hash[m] \in Nat
    BY <1>1, <1>4, <1>5, HashIs DEF Leads
  <2>2. PICK j \in Stops(ix, Hash[m]) : ix[j].block = B
    BY <2>1 DEF Chain
  <2>3. j \in 1 .. Len(ix)
    BY <1>2, <2>1, <2>2, StopHash
  <2>4. j = q
    BY <1>2, <1>3, <2>2, <2>3 DEF B
  <2>5. QED
    BY <2>2, <2>4
<1>10. \A i \in 1 .. Len(es) : es[i] \in NamesIn(bs[B]) \cup {x}
  BY <1>7, <1>8
<1>11. QED
  BY <1>1, <1>2, <1>3, <1>4, <1>5, <1>7, <1>9, <1>10 DEF B

\* The entry of the new block goes behind the one of the old block.
LEMMA NewEntry ==
    ASSUME NEW ix, NEW bs, NEW x, NEW q, NEW es, NEW k, Divides(ix, bs, x, q, es, k),
           NEW e, e = [hash |-> NewHash(es, k), block |-> Len(bs) + 1],
           NEW jx, jx = InsertAt(ix, q + 1, e)
    PROVE  Linked(ix, jx, q, e) /\ e.hash = Hash[es[k]] /\ e.block = Len(bs) + 1
<1> DEFINE T == [hash : Nat, block : Nat]
           f == Filled(SubSeq(es, 1, k - 1))
           s == Filled(SubSeq(es, k, Len(es)))
<1>1. /\ Sorted(ix) /\ Len(ix) = Len(bs) /\ q \in 1 .. Len(ix)
      /\ Halves(es, k, f, s)
      /\ \A i \in 1 .. Len(es) : es[i] \in Name /\ q \in Stops(ix, Hash[es[i]])
  BY DividesIs
<1>2. ix \in Seq(T)
  BY DEF Divides
<1> HIDE DEF f, s, T
<1>3. /\ k \in 2 .. Len(es) /\ Len(es) \in Nat
      /\ \A i, j \in 1 .. Len(es) : i < j => Hash[es[i]] < Hash[es[j]]
  BY <1>1 DEF Halves
<1>4. k - 1 \in 1 .. Len(es) /\ k \in 1 .. Len(es) /\ k - 1 < k /\ k > 1
  BY <1>3
<1>5. Hash[es[k - 1]] < Hash[es[k]] /\ Hash[es[k - 1]] \in Nat /\ Hash[es[k]] \in Nat
  BY <1>1, <1>3, <1>4, HashIs
<1>6. NewHash(es, k) = Hash[es[k]]
  BY <1>5 DEF NewHash
<1>7. e \in T /\ e.hash = Hash[es[k]] /\ e.block = Len(bs) + 1
  <2>1. Len(bs) + 1 \in Nat
    BY <1>1, SortedIs
  <2>2. QED
    BY <1>5, <1>6, <2>1 DEF T
<1>8. Len(ix) \in Nat /\ \A i \in 1 .. Len(ix) : ix[i].hash \in Nat
  BY <1>1, SortedIs
<1>9. ix[q].hash <= e.hash
  <2>1. ix[q].hash <= Hash[es[k - 1]] + 1
    BY <1>1, <1>4, <1>5, StopHash
  <2>2. QED
    BY <1>1, <1>5, <1>7, <1>8, <2>1
<1>10. q + 1 \in 1 .. Len(ix) => e.hash < ix[q + 1].hash
  <2>1. SUFFICES ASSUME q + 1 \in 1 .. Len(ix) PROVE e.hash < ix[q + 1].hash
    OBVIOUS
  <2>2. q + 1 \in q + 1 .. Len(ix)
    BY <2>1
  <2>3. ix[q + 1].hash > Hash[es[k]]
    BY <1>1, <1>4, <1>5, <2>2, StopHash
  <2>4. QED
    BY <1>5, <1>7, <1>8, <2>1, <2>3
<1>11. /\ jx \in Seq(T) /\ Len(jx) = Len(ix) + 1
       /\ \A i \in 1 .. q : jx[i] = ix[i]
       /\ jx[q + 1] = e
       /\ \A i \in q + 1 .. Len(ix) : jx[i + 1] = ix[i]
  <2> DEFINE p == q + 1
  <2>1. p \in 1 .. Len(ix) + 1 /\ p - 1 = q
    BY <1>1, <1>8
  <2>2. jx = InsertAt(ix, p, e) /\ e \in T
    BY <1>7
  <2> HIDE DEF p
  <2>3. LET r == InsertAt(ix, p, e)
        IN  /\ r \in Seq(T) /\ Len(r) = Len(ix) + 1
            /\ \A i \in 1 .. p - 1 : r[i] = ix[i]
            /\ r[p] = e
            /\ \A i \in p .. Len(ix) : r[i + 1] = ix[i]
    BY <1>2, <2>1, <2>2, InsertAtIs
  <2>4. /\ jx \in Seq(T) /\ Len(jx) = Len(ix) + 1
        /\ \A i \in 1 .. p - 1 : jx[i] = ix[i]
        /\ jx[p] = e
        /\ \A i \in p .. Len(ix) : jx[i + 1] = ix[i]
    BY <2>2, <2>3
  <2>5. QED
    BY <2>1, <2>4 DEF p
<1>12. QED
  BY <1>1, <1>7, <1>9, <1>10, <1>11 DEF Linked, T

\* The blocks ds are bs after the division, with the halves f and s.
Divided(ix, bs, q, es, k, f, s, ds) ==
    /\ f = Filled(SubSeq(es, 1, k - 1)) /\ s = Filled(SubSeq(es, k, Len(es)))
    /\ ds = [Append(bs, <<>>) EXCEPT ![ix[q].block] = f, ![Len(bs) + 1] = s]

LEMMA ExceptIs ==
    ASSUME NEW S, NEW a \in Seq(S), NEW i \in 1 .. Len(a), NEW v \in S
    PROVE  /\ [a EXCEPT ![i] = v] \in Seq(S) /\ Len([a EXCEPT ![i] = v]) = Len(a)
           /\ DOMAIN [a EXCEPT ![i] = v] = 1 .. Len(a)
           /\ [a EXCEPT ![i] = v][i] = v
           /\ \A j \in 1 .. Len(a) : j # i => [a EXCEPT ![i] = v][j] = a[j]
OBVIOUS

\* The blocks after the division are tidy.
LEMMA DividedTidy ==
    ASSUME NEW ix, NEW bs, NEW x, NEW q, NEW es, NEW k, Divides(ix, bs, x, q, es, k),
           NEW f, NEW s, NEW ds, Divided(ix, bs, q, es, k, f, s, ds)
    PROVE  /\ Tidy(ds) /\ DOMAIN ds = 1 .. Len(bs) + 1 /\ Len(ds) = Len(bs) + 1
           /\ ds[ix[q].block] = f /\ ds[Len(bs) + 1] = s /\ ix[q].block # Len(bs) + 1
           /\ \A b \in DOMAIN bs : b # ix[q].block => ds[b] = bs[b]
<1> DEFINE B == ix[q].block
           N == Len(bs) + 1
           cs == Append(bs, <<>>)
<1>1. /\ Halves(es, k, f, s) /\ B \in DOMAIN bs
      /\ \A i \in 1 .. Len(es) : es[i] \in Name /\ es[i] \in NamesIn(bs[B]) \cup {x}
  BY DividesIs DEF Divided
<1>2. bs \in Seq(Blocks) /\ Tidy(bs) /\ x \in Name /\ \A b \in DOMAIN bs : x \notin NamesIn(bs[b])
  BY DEF Divides
<1>3. Len(bs) \in Nat /\ DOMAIN bs = 1 .. Len(bs) /\ \A b \in DOMAIN bs : bs[b] \in Blocks
  BY <1>2, BlocksAre
<1>4. B \in 1 .. Len(bs) /\ B # N
  BY <1>1, <1>3
<1> HIDE DEF B
<1>5. /\ cs \in Seq(Blocks) /\ Len(cs) = N /\ DOMAIN cs = 1 .. N
      /\ \A b \in 1 .. Len(bs) : cs[b] = bs[b]
  <2>1. <<>> \in Blocks
    BY DEF Blocks
  <2> HIDE DEF Blocks
  <2>2. QED
    BY <1>2, <1>3, <2>1
<1>6. /\ f \in Blocks /\ WellFormed(f) /\ Distinct(f) /\ NamesIn(f) = {es[i] : i \in 1 .. k - 1}
      /\ s \in Blocks /\ WellFormed(s) /\ Distinct(s)
      /\ NamesIn(s) \subseteq {es[i] : i \in k .. Len(es)}
      /\ k \in 2 .. Len(es) /\ Once(es) /\ Len(es) \in Nat /\ DOMAIN es = 1 .. Len(es)
  BY <1>1 DEF Halves
<1>7. ds = [[cs EXCEPT ![B] = f] EXCEPT ![N] = s]
  BY DEF B, Divided
<1> HIDE DEF cs
<1>8. /\ DOMAIN ds = 1 .. N /\ ds \in Seq(Blocks) /\ Len(ds) = N /\ ds[B] = f /\ ds[N] = s
      /\ \A b \in 1 .. Len(bs) : b # B => ds[b] = bs[b]
  <2>1. N \in 1 .. N /\ B \in 1 .. N /\ \A b \in 1 .. Len(bs) : b \in 1 .. N /\ b # N
    BY <1>3, <1>4
  <2> HIDE DEF Blocks, N
  <2> DEFINE c1 == [cs EXCEPT ![B] = f]
             c2 == [c1 EXCEPT ![N] = s]
  <2>2. /\ c1 \in Seq(Blocks) /\ Len(c1) = N /\ c1[B] = f
        /\ \A b \in 1 .. N : b # B => c1[b] = cs[b]
    BY <1>5, <1>6, <2>1, ExceptIs
  <2> HIDE DEF c1
  <2>3. /\ c2 \in Seq(Blocks) /\ Len(c2) = N /\ DOMAIN c2 = 1 .. N /\ c2[N] = s
        /\ \A b \in 1 .. N : b # N => c2[b] = c1[b]
    BY <1>6, <2>1, <2>2, ExceptIs
  <2>4. ds = c2
    BY <1>7 DEF c1
  <2> HIDE DEF c2
  <2>5. QED
    BY <1>4, <1>5, <2>1, <2>2, <2>3, <2>4
<1>9. /\ NamesIn(f) \subseteq NamesIn(bs[B]) \cup {x} /\ NamesIn(s) \subseteq NamesIn(bs[B]) \cup {x}
      /\ \A m \in NamesIn(f) : m \notin NamesIn(s)
  <2>1. \A i \in 1 .. k - 1 : i \in 1 .. Len(es)
    BY <1>6
  <2>2. \A i \in k .. Len(es) : i \in 1 .. Len(es)
    BY <1>6
  <2>3. \A i \in 1 .. k - 1, j \in k .. Len(es) : i # j
    BY <1>6
  <2>4. \A i \in 1 .. k - 1, j \in k .. Len(es) : es[i] # es[j]
    BY <1>6, <2>1, <2>2, <2>3 DEF Once
  <2>5. QED
    BY <1>1, <1>6, <2>1, <2>2, <2>4
<1>10. (\A b \in DOMAIN bs : Distinct(bs[b])) /\ Separate(bs)
  BY <1>2, UniqueIs DEF Tidy
<1>11. \A b \in 1 .. N : b \in 1 .. Len(bs) \/ b = N
  BY <1>3
<1>12. \A b \in 1 .. N : Distinct(ds[b]) /\ WellFormed(ds[b])
  BY <1>2, <1>3, <1>6, <1>8, <1>10, <1>11 DEF Tidy
<1>13. ASSUME NEW b \in 1 .. Len(bs), b # B, NEW m \in Name, m \in NamesIn(bs[b])
       PROVE  m \notin NamesIn(f) /\ m \notin NamesIn(s)
  <2>1. m \notin NamesIn(bs[B]) /\ m # x
    BY <1>2, <1>3, <1>4, <1>10, <1>13 DEF Separate
  <2>2. QED
    BY <1>9, <2>1
<1>14. Separate(ds)
  <2>1. SUFFICES ASSUME NEW b \in 1 .. N, NEW d \in 1 .. N, b # d, NEW m \in Name,
                        m \in NamesIn(ds[b]), m \in NamesIn(ds[d])
                 PROVE  FALSE
    BY <1>8 DEF Separate
  <2>2. \A c \in 1 .. N : c = B \/ c = N \/ (c \in 1 .. Len(bs) /\ c # B /\ ds[c] = bs[c])
    BY <1>8, <1>11
  <2>3. CASE b = B \/ b = N
    <3>1. m \in NamesIn(f) \/ m \in NamesIn(s)
      BY <1>8, <2>1, <2>3
    <3>2. CASE d = B \/ d = N
      BY <1>8, <1>9, <2>1, <2>3, <3>2
    <3>3. CASE d # B /\ d # N
      <4>1. d \in 1 .. Len(bs) /\ m \in NamesIn(bs[d])
        BY <2>1, <2>2, <3>3
      <4>2. QED
        BY <1>13, <3>1, <3>3, <4>1
    <3>4. QED
      BY <3>2, <3>3
  <2>4. CASE b # B /\ b # N
    <3>1. b \in 1 .. Len(bs) /\ m \in NamesIn(bs[b])
      BY <2>1, <2>2, <2>4
    <3>2. m \notin NamesIn(f) /\ m \notin NamesIn(s)
      BY <1>13, <2>4, <3>1
    <3>3. d # B /\ d # N
      BY <1>8, <2>1, <3>2
    <3>4. d \in 1 .. Len(bs) /\ m \in NamesIn(bs[d])
      BY <2>1, <2>2, <3>3
    <3>5. QED
      BY <1>3, <1>10, <2>1, <3>1, <3>4 DEF Separate
  <2>5. QED
    BY <2>3, <2>4
<1>15. Tidy(ds)
  BY <1>8, <1>12, <1>14, UniqueIs DEF Tidy
<1>16. QED
  BY <1>3, <1>4, <1>8, <1>15 DEF B

\* The index leads to every name after the division.
LEMMA DividedLeads ==
    ASSUME NEW ix, NEW bs, NEW x, NEW q, NEW es, NEW k, Divides(ix, bs, x, q, es, k),
           NEW e, e = [hash |-> NewHash(es, k), block |-> Len(bs) + 1],
           NEW jx, jx = InsertAt(ix, q + 1, e),
           NEW f, NEW s, NEW ds, Divided(ix, bs, q, es, k, f, s, ds)
    PROVE  Leads(jx, ds)
<1> DEFINE B == ix[q].block
           N == Len(bs) + 1
           n == Len(ix)
<1>1. /\ Sorted(ix) /\ n = Len(bs) /\ q \in 1 .. n /\ B \in DOMAIN bs
      /\ \A i \in 1 .. n : ix[i].block = B => i = q
      /\ Halves(es, k, f, s)
      /\ \A i \in 1 .. Len(es) : es[i] \in Name /\ q \in Stops(ix, Hash[es[i]])
  BY DividesIs DEF Divided
<1>2. Linked(ix, jx, q, e) /\ e.hash = Hash[es[k]] /\ e.block = N
  BY NewEntry
<1>3. /\ DOMAIN ds = 1 .. N /\ Len(ds) = N /\ ds[B] = f /\ ds[N] = s /\ B # N
      /\ \A b \in DOMAIN bs : b # B => ds[b] = bs[b]
  BY DividedTidy
<1>4. bs \in Seq(Blocks) /\ Leads(ix, bs)
  BY DEF Divides
<1>5. DOMAIN bs = 1 .. n /\ n \in Nat /\ N = n + 1 /\ DOMAIN ix = 1 .. n
  BY <1>1, <1>4, BlocksAre, SortedIs
<1> HIDE DEF n, N, B
<1>6. Sorted(jx) /\ Len(jx) = N /\ DOMAIN jx = 1 .. N
  BY <1>2, <1>5, LinkedSorted, LinkedPlaces, SortedIs DEF n
<1>7. /\ \A i \in 1 .. N : /\ i <= q => i \in 1 .. n /\ jx[i] = ix[i]
                           /\ i > q + 1 => i - 1 \in 1 .. n /\ jx[i] = ix[i - 1]
      /\ jx[q + 1] = e /\ q + 1 \in 1 .. N
  <2>1. /\ \A i \in 1 .. n + 1 : /\ i <= q => i \in 1 .. q /\ i \in 1 .. n /\ jx[i] = ix[i]
                                 /\ i > q + 1 => i - 1 \in q + 1 .. n /\ i - 1 \in 1 .. n
                                                 /\ jx[i] = ix[i - 1]
        /\ jx[q + 1] = e
    BY <1>2, LinkedPlaces DEF n
  <2>2. q + 1 \in 1 .. N
    BY <1>1, <1>5
  <2>3. QED
    BY <1>5, <2>1, <2>2
<1>8. /\ jx[q].block = B
      /\ \A j \in 1 .. n : /\ j < q => jx[j].block = ix[j].block
                           /\ j > q => jx[j + 1].block = ix[j].block /\ j + 1 \in 1 .. N
  <2>1. q \in 1 .. N /\ q <= q
    BY <1>1, <1>5
  <2>2. jx[q].block = B
    BY <1>7, <2>1 DEF B
  <2>3. ASSUME NEW j \in 1 .. n, j < q PROVE jx[j].block = ix[j].block
    <3>1. j \in 1 .. N /\ j <= q
      BY <1>1, <1>5, <2>3
    <3>2. QED
      BY <1>7, <3>1
  <2>4. ASSUME NEW j \in 1 .. n, j > q PROVE jx[j + 1].block = ix[j].block /\ j + 1 \in 1 .. N
    <3>1. j + 1 \in 1 .. N /\ j + 1 > q + 1 /\ (j + 1) - 1 = j
      BY <1>1, <1>5, <2>4
    <3>2. QED
      BY <1>7, <3>1
  <2>5. QED
    BY <2>2, <2>3, <2>4
<1>9. {jx[i].block : i \in 1 .. N} = 1 .. N
  <2>1. {ix[i].block : i \in 1 .. n} = 1 .. n
    BY <1>4, <1>5 DEF Leads
  <2>2. ASSUME NEW i \in 1 .. N PROVE jx[i].block \in 1 .. N
    <3>1. CASE i = q + 1
      BY <1>2, <1>5, <1>7, <3>1
    <3>2. CASE i # q + 1
      <4>1. i <= q \/ i > q + 1
        BY <1>1, <1>5, <3>2
      <4>4. \E j \in 1 .. n : jx[i] = ix[j]
        BY <1>7, <4>1
      <4>2. jx[i].block \in 1 .. n
        BY <2>1, <4>4
      <4>3. QED
        BY <1>5, <4>2
    <3>3. QED
      BY <3>1, <3>2
  <2>3. ASSUME NEW b \in 1 .. N PROVE \E i \in 1 .. N : jx[i].block = b
    <3>1. CASE b = N
      BY <1>2, <1>7, <3>1
    <3>2. CASE b # N
      <4>6. b \in 1 .. n
        BY <1>5, <3>2
      <4>1. PICK j \in 1 .. n : ix[j].block = b
        BY <2>1, <4>6
      <4>2. CASE j = q
        <5>1. q \in 1 .. N /\ b = B
          BY <1>1, <1>5, <4>1, <4>2 DEF B
        <5>2. QED
          BY <1>8, <5>1
      <4>3. CASE j < q
        <5>1. j \in 1 .. N
          BY <1>5
        <5>2. QED
          BY <1>8, <4>1, <4>3, <5>1
      <4>4. CASE j > q
        BY <1>8, <4>1, <4>4
      <4>5. QED
        BY <1>1, <1>5, <4>2, <4>3, <4>4
    <3>3. QED
      BY <3>1, <3>2
  <2>4. QED
    BY <2>2, <2>3
<1>10. /\ NamesIn(f) = {es[i] : i \in 1 .. k - 1} /\ NamesIn(s) \subseteq {es[i] : i \in k .. Len(es)}
       /\ k \in 2 .. Len(es) /\ Len(es) \in Nat
       /\ \A i, j \in 1 .. Len(es) : i < j => Hash[es[i]] < Hash[es[j]]
  BY <1>1 DEF Halves
<1>11. ASSUME NEW b \in 1 .. N, NEW m \in NamesIn(ds[b])
       PROVE  m \in Name /\ b \in Chain(jx, Hash[m])
  <2>1. CASE b = B
    <3>1. PICK i \in 1 .. k - 1 : m = es[i]
      BY <1>3, <1>10, <1>11, <2>1
    <3>2. i \in 1 .. Len(es) /\ k \in 1 .. Len(es) /\ i < k
      BY <1>10
    <3>3. m \in Name /\ q \in Stops(ix, Hash[m]) /\ Hash[m] < e.hash /\ Hash[m] \in Nat
      BY <1>1, <1>2, <1>10, <3>1, <3>2, HashIs
    <3>4. q \in Stops(jx, Hash[m])
      BY <1>2, <3>3, LinkedStops
    <3>5. QED
      BY <1>8, <2>1, <3>3, <3>4 DEF Chain
  <2>2. CASE b = N
    <3>1. PICK i \in k .. Len(es) : m = es[i]
      BY <1>3, <1>10, <1>11, <2>2
    <3>2. i \in 1 .. Len(es) /\ k \in 1 .. Len(es) /\ (i = k \/ k < i)
      BY <1>10
    <3>3. m \in Name /\ q \in Stops(ix, Hash[m]) /\ Hash[m] \in Nat /\ Hash[es[k]] \in Nat
      BY <1>1, <3>1, <3>2, HashIs
    <3>4. e.hash <= Hash[m]
      BY <1>2, <1>10, <3>1, <3>2, <3>3
    <3>5. q + 1 \in Stops(jx, Hash[m])
      BY <1>2, <3>3, <3>4, LinkedStops
    <3>6. QED
      BY <1>2, <1>7, <2>2, <3>3, <3>5 DEF Chain
  <2>3. CASE b # B /\ b # N
    <3>1. b \in 1 .. n /\ m \in NamesIn(bs[b])
      BY <1>3, <1>5, <1>11, <2>3
    <3>2. m \in Name /\ b \in Chain(ix, Hash[m]) /\ Hash[m] \in Nat
      BY <1>4, <1>5, <3>1, HashIs DEF Leads
    <3>3. PICK j \in Stops(ix, Hash[m]) : ix[j].block = b
      BY <3>2 DEF Chain
    <3>4. j \in 1 .. n
      BY <1>1, <3>2, StopHash DEF n
    <3>5. j # q
      BY <2>3, <3>3 DEF B
    <3>6. CASE j < q
      <4>1. j \in Stops(jx, Hash[m])
        BY <1>2, <3>2, <3>6, LinkedStops
      <4>2. QED
        BY <1>8, <3>2, <3>3, <3>4, <3>6, <4>1 DEF Chain
    <3>7. CASE j > q
      <4>1. j + 1 \in Stops(jx, Hash[m])
        BY <1>2, <3>2, <3>7, LinkedStops
      <4>2. QED
        BY <1>8, <3>2, <3>3, <3>4, <3>7, <4>1 DEF Chain
    <3>8. QED
      BY <1>1, <1>5, <3>4, <3>5, <3>6, <3>7
  <2>4. QED
    BY <2>1, <2>2, <2>3
<1>12. QED
  <2>1. jx # <<>> /\ jx[1].hash = 0 /\ \A i, j \in DOMAIN jx : i < j => jx[i].hash <= jx[j].hash
    BY <1>6 DEF Sorted
  <2>2. Len(jx) = Len(ds) /\ {jx[i].block : i \in DOMAIN jx} = DOMAIN ds
    BY <1>3, <1>6, <1>9
  <2>3. \A b \in DOMAIN ds : \A m \in NamesIn(ds[b]) : m \in Name /\ b \in Chain(jx, Hash[m])
    BY <1>3, <1>11
  <2>4. QED
    BY <2>1, <2>2, <2>3 DEF Leads

-----------------------------------------------------------------------------
(* The inductive invariant.                                                *)

PcSet == {"idle", "visit", "told", "grow", "link", "putOld", "putNew", "panic"}
SplitPc == {"grow", "link", "putOld", "putNew"}

Entry == [hash : Nat, block : Nat]

OpSet ==
    [kind : {"none", "find", "remove", "list", "add"}, name : Name \cup {Free}, at : Nat,
     met : BOOLEAN, got : SUBSET Name, splits : BOOLEAN, block : Nat,
     before : SUBSET (Name \cup {Dot, DotDot}), names : Seq(Name), new : Nat, cut : Nat]

TypeOK ==
    /\ hashed \in BOOLEAN /\ blocks \in Seq(Blocks) /\ index \in Seq(Entry)
    /\ pc \in [Thread -> PcSet] /\ op \in [Thread -> OpSet]
    /\ size = Len(blocks) + (IF hashed THEN 1 ELSE 0)

\* The cursor of an operation is at its first block, or behind one it met.
Follows(ix, o) ==
    LET h == Hash[o.name]
    IN  IF o.met THEN o.at - 1 \in Stops(ix, h) ELSE o.at = from_hash(ix, h)

\* A block with room for the new name is ahead.
RoomAhead(ix, bs, o) ==
    \E j \in Stops(ix, Hash[o.name]) : j >= o.at /\ Roomy(bs[ix[j].block], o.name) # {}

Missing(bs, n) == \A b \in DOMAIN bs : n \notin NamesIn(bs[b])

\* An operation on its way over the blocks.
Entered(o, hd, ix, bs) ==
    /\ o.kind # "none" /\ o.at >= 1
    /\ o.kind # "list" => o.name \in Name /\ (hd => Follows(ix, o))
    /\ o.splits => o.kind = "add"
    /\ o.kind = "add" => hd /\ Missing(bs, o.name) /\ (o.splits \/ RoomAhead(ix, bs, o))

\* A split before the new block is there ...
Gathered(o, hd, ix, bs) ==
    /\ hd /\ o.splits /\ o.name \in Name /\ Missing(bs, o.name)
    /\ o.at - 1 \in Stops(ix, Hash[o.name])
    /\ o.block = ix[o.at - 1].block
    /\ o.names = ByHash(bs[o.block], o.name)

\* ... and what the index and the blocks are to be after it.
LinkedIndex(o, ix) ==
    InsertAt(ix, o.at, [hash |-> NewHash(o.names, o.cut), block |-> o.new])
Final(o, bs) == [bs EXCEPT ![o.block] = Filled(FirstHalf(o)), ![o.new] = Filled(SecondHalf(o))]

Parted(o, hd, bs) ==
    /\ hd /\ o.splits
    /\ o.block \in DOMAIN bs /\ o.new \in DOMAIN bs /\ o.block # o.new
    /\ Final(o, bs) \in Seq(Blocks) /\ Tidy(Final(o, bs))

Unlinked(o, ix, bs) == LinkedIndex(o, ix) \in Seq(Entry) /\ Leads(LinkedIndex(o, ix), Final(o, bs))

\* What is true of a thread at p with the operation o.
Fits(p, o, hd, ix, bs) ==
    /\ p = "visit" => Entered(o, hd, ix, bs)
    /\ p = "grow" => Gathered(o, hd, ix, bs)
    /\ p \in {"link", "putOld", "putNew"} => Parted(o, hd, bs)
    /\ p = "link" => Unlinked(o, ix, bs)
    /\ p \in {"putOld", "putNew"} => Leads(ix, Final(o, bs))
    /\ p = "putNew" => bs[o.block] = Filled(FirstHalf(o))

In(p) == p \notin {"idle", "told"}

\* Who splits is alone, and names are added one after the other.
Alone ==
    \A t, u \in Thread : t # u /\ In(pc[t]) /\ In(pc[u])
        => ~op[t].splits /\ ~(op[t].kind = "add" /\ op[u].kind = "add")

Whole(hd, ix, bs) == Tidy(bs) /\ (hd => Leads(ix, bs))

IInv ==
    /\ TypeOK
    /\ ~Halted =>
        /\ \A t \in Thread : Fits(pc[t], op[t], hashed, index, blocks)
        /\ Alone
        /\ (\A t \in Thread : pc[t] \notin {"link", "putOld", "putNew"}) => Whole(hashed, index, blocks)

-----------------------------------------------------------------------------
(* Who is where.                                                           *)

\* A thread that visits the blocks, or gathers the names of one, finds the directory whole.
LEMMA WholeSeen ==
    ASSUME IInv, ~Halted, NEW t \in Thread, pc[t] \in {"visit", "grow"}
    PROVE  Whole(hashed, index, blocks)
<1>1. SUFFICES ASSUME NEW u \in Thread, pc[u] \in {"link", "putOld", "putNew"} PROVE FALSE
  BY DEF IInv
<1>2. t # u
  BY <1>1
<1>3. op[u].splits
  BY <1>1 DEF IInv, Fits, Parted
<1>4. QED
  BY <1>1, <1>2, <1>3 DEF IInv, Alone, In

\* So does one that is let in.
LEMMA WholeEntered ==
    ASSUME IInv, ~Halted, Disciplined, NEW t \in Thread, pc[t] = "idle", MayEnter(t)
    PROVE  /\ Whole(hashed, index, blocks)
           /\ \A u \in Thread : pc[u] \notin SplitPc
<1>1. ASSUME NEW u \in Thread, pc[u] \in SplitPc PROVE FALSE
  <2>1. op[u].splits
    BY <1>1 DEF IInv, Fits, Parted, Gathered, SplitPc
  <2>2. u \in Others(t) /\ Inside(u)
    BY <1>1 DEF Others, Inside, SplitPc
  <2>3. QED
    BY <2>1, <2>2 DEF MayEnter
<1>2. QED
  BY <1>1 DEF IInv, SplitPc

LEMMA WholeLinear ==
    ASSUME IInv, ~Halted, ~hashed
    PROVE  /\ Whole(hashed, index, blocks) /\ Listing = Live(blocks)
           /\ \A u \in Thread : pc[u] \notin SplitPc /\ (pc[u] = "visit" => op[u].kind # "add")
<1>1. \A u \in Thread : pc[u] \notin SplitPc /\ (pc[u] = "visit" => op[u].kind # "add")
  BY DEF IInv, Fits, Parted, Gathered, Entered, SplitPc
<1>2. QED
  BY <1>1 DEF IInv, SplitPc, Listing

\* What the code reads of the directory where it is whole.
LEMMA WholeIs ==
    ASSUME TypeOK, Whole(hashed, index, blocks)
    PROVE  /\ Len(blocks) \in Nat /\ DOMAIN blocks = 1 .. Len(blocks)
           /\ \A b \in DOMAIN blocks : blocks[b] \in Blocks /\ WellFormed(blocks[b]) /\ Distinct(blocks[b])
           /\ hashed => /\ Sorted(index) /\ Len(index) = Len(blocks)
                        /\ \A i \in 1 .. Len(index) : index[i].block \in DOMAIN blocks
<1>1. blocks \in Seq(Blocks) /\ index \in Seq([hash : Nat, block : Nat]) /\ Tidy(blocks)
  BY DEF TypeOK, Whole, Entry
<1>2. \A b \in DOMAIN blocks : WellFormed(blocks[b]) /\ Distinct(blocks[b])
  BY <1>1, UniqueIs DEF Tidy
<1>3. hashed => /\ Sorted(index) /\ Len(index) = Len(blocks)
                /\ \A i \in 1 .. Len(index) : index[i].block \in DOMAIN blocks
  BY <1>1, LeadsIs DEF Whole
<1>4. QED
  BY <1>1, <1>2, <1>3, BlocksAre

LEMMA StopsNext ==
    ASSUME NEW ix, Sorted(ix), NEW h \in Nat, NEW j \in Nat, j - 1 \in Stops(ix, h)
    PROVE  /\ j \in Stops(ix, h) <=> j \in DOMAIN ix /\ ix[j].hash = h + 1
           /\ \A i \in Stops(ix, h) : i >= j => j \in Stops(ix, h)
<1> DEFINE k == j - 1
<1>1. k \in Stops(ix, h) /\ k + 1 = j
  OBVIOUS
<1>2. Stops(ix, h) \subseteq 1 .. Len(ix) /\ Len(ix) \in Nat
  BY StopsWalk, SortedIs
<1>3. \A i \in Stops(ix, h) : i >= j => k < i
  BY <1>2
<1> HIDE DEF k
<1>4. /\ k + 1 \in Stops(ix, h) <=> k + 1 \in DOMAIN ix /\ ix[k + 1].hash = h + 1
      /\ \A i \in Stops(ix, h) : k < i => k + 1 \in Stops(ix, h)
  BY <1>1, StopsWalk
<1>5. QED
  BY <1>1, <1>3, <1>4

\* The block an operation is at is one of the directory, and a cursor of a name
\* stops there.
LEMMA BlockSeen ==
    ASSUME IInv, ~Halted, NEW t \in Thread, pc[t] = "visit", NEW b \in Block(t)
    PROVE  /\ b \in DOMAIN blocks
           /\ hashed => /\ op[t].at \in DOMAIN index /\ b = index[op[t].at].block
                        /\ op[t].kind # "list" => op[t].at \in Stops(index, Hash[op[t].name])
<1> DEFINE o == op[t]
<1>1. Whole(hashed, index, blocks) /\ TypeOK /\ Entered(o, hashed, index, blocks)
  BY WholeSeen DEF IInv, Fits
<1>2. CASE ~hashed
  BY <1>2 DEF Block, LinearBlock
<1>3. CASE hashed
  <2>1. /\ o.at \in DOMAIN index /\ b = index[o.at].block
        /\ o.kind = "list" \/ ~o.met \/ GoesOn(index, Hash[o.name], o.at)
    BY <1>3 DEF Block, IndexBlock
  <2>2. Sorted(index) /\ DOMAIN index = 1 .. Len(index) /\ b \in DOMAIN blocks
    BY <1>1, <1>3, <2>1, WholeIs, SortedIs
  <2>3. ASSUME o.kind # "list" PROVE o.at \in Stops(index, Hash[o.name])
    <3>1. o.name \in Name /\ Follows(index, o) /\ Hash[o.name] \in Nat /\ o.at \in Nat
      BY <1>1, <1>3, <2>3, HashIs DEF Entered, TypeOK, OpSet
    <3>2. CASE ~o.met
      BY <2>2, <3>1, <3>2, StopsWalk DEF Follows
    <3>3. CASE o.met
      <4>1. o.at - 1 \in Stops(index, Hash[o.name]) /\ (o.at - 1) + 1 = o.at
        BY <3>1, <3>3 DEF Follows
      <4>2. index[o.at].hash = Hash[o.name] + 1
        BY <2>1, <2>3, <3>3 DEF GoesOn
      <4>3. QED
        BY <2>1, <2>2, <3>1, <4>1, <4>2, StopsNext
    <3>4. QED
      BY <3>2, <3>3
  <2>4. QED
    BY <2>1, <2>2, <2>3
<1>4. QED
  BY <1>2, <1>3

-----------------------------------------------------------------------------
(* Steps of one thread.                                                    *)

Moves(t, p, o) ==
    /\ p \in PcSet /\ o \in OpSet
    /\ pc' = [pc EXCEPT ![t] = p] /\ op' = [op EXCEPT ![t] = o]

DirTypes ==
    /\ hashed \in BOOLEAN /\ blocks \in Seq(Blocks) /\ index \in Seq(Entry)
    /\ size = Len(blocks) + (IF hashed THEN 1 ELSE 0)

\* What was true of the others is true of the new directory.
Keeps(t) ==
    \A u \in Others(t) : In(pc[u]) => Fits(pc[u], op[u], hashed', index', blocks')

\* Thread t may be inside together with those who are.
Joins(t, o) ==
    \A u \in Others(t) : In(pc[u])
        => ~o.splits /\ ~op[u].splits /\ ~(o.kind = "add" /\ op[u].kind = "add")

LEMMA Moved ==
    ASSUME IInv, ~Halted, NEW t \in Thread, NEW p, NEW o, Moves(t, p, o), DirTypes',
           p # "panic" =>
               /\ Fits(p, o, hashed', index', blocks') /\ Keeps(t)
               /\ In(p) => Joins(t, o)
               /\ p \notin {"link", "putOld", "putNew"}
                  /\ (\A u \in Others(t) : pc[u] \notin {"link", "putOld", "putNew"})
                  => Whole(hashed', index', blocks')
    PROVE  IInv'
<1>1. /\ pc \in [Thread -> PcSet] /\ op \in [Thread -> OpSet]
      /\ pc' = [pc EXCEPT ![t] = p] /\ op' = [op EXCEPT ![t] = o] /\ p \in PcSet /\ o \in OpSet
  BY DEF IInv, TypeOK, Moves
<1>2. pc'[t] = p /\ op'[t] = o /\ \A u \in Thread : u # t => pc'[u] = pc[u] /\ op'[u] = op[u]
  <2> HIDE DEF PcSet, OpSet
  <2>1. QED
    BY <1>1
<1>3. TypeOK'
  <2>1. pc' \in [Thread -> PcSet] /\ op' \in [Thread -> OpSet]
    <3> HIDE DEF PcSet, OpSet
    <3>1. QED
      BY <1>1
  <2>2. QED
    BY <2>1 DEF TypeOK, DirTypes
<1>4. CASE p = "panic"
  <2>1. Halted'
    BY <1>2, <1>4 DEF Halted
  <2>2. QED
    BY <1>3, <2>1 DEF IInv
<1>5. CASE p # "panic"
  <2>1. /\ Fits(p, o, hashed', index', blocks') /\ Keeps(t)
        /\ In(p) => Joins(t, o)
        /\ p \notin {"link", "putOld", "putNew"}
           /\ (\A u \in Others(t) : pc[u] \notin {"link", "putOld", "putNew"})
           => Whole(hashed', index', blocks')
    BY <1>5
  <2>2. ASSUME NEW u \in Thread PROVE Fits(pc'[u], op'[u], hashed', index', blocks')
    <3>1. CASE u = t
      BY <1>2, <2>1, <3>1
    <3>2. CASE u # t /\ In(pc[u])
      BY <1>2, <2>1, <3>2 DEF Keeps, Others
    <3>3. CASE u # t /\ ~In(pc[u])
      BY <1>2, <3>3 DEF In, Fits
    <3>4. QED
      BY <3>1, <3>2, <3>3
  <2>3. Alone'
    <3>1. SUFFICES ASSUME NEW v \in Thread, NEW u \in Thread, v # u, In(pc'[v]), In(pc'[u])
                   PROVE  ~op'[v].splits /\ ~(op'[v].kind = "add" /\ op'[u].kind = "add")
      BY DEF Alone, In
    <3>2. CASE v = t
      BY <1>2, <2>1, <3>1, <3>2 DEF Joins, Others
    <3>3. CASE u = t
      BY <1>2, <2>1, <3>1, <3>3 DEF Joins, Others
    <3>4. CASE v # t /\ u # t
      BY <1>2, <3>1, <3>4 DEF IInv, Alone
    <3>5. QED
      BY <3>2, <3>3, <3>4
  <2>4. ASSUME \A u \in Thread : pc'[u] \notin {"link", "putOld", "putNew"}
        PROVE  Whole(hashed', index', blocks')
    <3>1. p \notin {"link", "putOld", "putNew"}
      BY <1>2, <2>4
    <3>2. \A u \in Others(t) : pc[u] \notin {"link", "putOld", "putNew"}
      BY <1>2, <2>4 DEF Others
    <3>3. QED
      BY <2>1, <3>1, <3>2
  <2>5. QED
    BY <1>3, <2>2, <2>3, <2>4 DEF IInv
<1>6. QED
  BY <1>4, <1>5

\* A step that leaves the directory alone.
LEMMA MovedInside ==
    ASSUME IInv, ~Halted, NEW t \in Thread, NEW p, NEW o, Moves(t, p, o), UNCHANGED dirVars,
           pc[t] \notin {"link", "putOld", "putNew"}, p \notin {"link", "putOld", "putNew"},
           p # "panic" => Fits(p, o, hashed, index, blocks) /\ (In(p) => Joins(t, o))
    PROVE  IInv'
<1>1. hashed' = hashed /\ index' = index /\ blocks' = blocks /\ size' = size
  BY DEF dirVars
<1>2. DirTypes'
  BY <1>1 DEF DirTypes, IInv, TypeOK
<1>3. Keeps(t)
  BY <1>1 DEF Keeps, Others, IInv
<1>4. (\A u \in Others(t) : pc[u] \notin {"link", "putOld", "putNew"}) => Whole(hashed', index', blocks')
  BY <1>1 DEF Others, IInv
<1>5. QED
  BY <1>1, <1>2, <1>3, <1>4, Moved

\* One that goes out.
LEMMA MovedOut ==
    ASSUME IInv, ~Halted, NEW t \in Thread, NEW p \in {"idle", "told"}, NEW o, Moves(t, p, o),
           UNCHANGED dirVars, pc[t] \notin {"link", "putOld", "putNew"}
    PROVE  IInv'
<1>1. Fits(p, o, hashed, index, blocks) /\ ~In(p)
  BY DEF Fits, In
<1>2. QED
  BY <1>1, MovedInside DEF In

\* One that goes on: who was inside stays with the others who are.
LEMMA StaysJoined ==
    ASSUME IInv, ~Halted, NEW t \in Thread, In(pc[t]), NEW o,
           o.splits = op[t].splits, o.kind = op[t].kind
    PROVE  Joins(t, o)
BY DEF IInv, Alone, Joins, Others

LEMMA ToldIs ==
    ASSUME NEW S \in SUBSET Name
    PROVE  [NoOp EXCEPT !.got = S] \in OpSet /\ NoOp \in OpSet
<1>1. /\ NoOp \in OpSet
  BY DEF NoOp, Op, OpSet
<1>2. [NoOp EXCEPT !.got = S] \in OpSet
  BY <1>1 DEF OpSet
<1>3. QED
  BY <1>1, <1>2

LEMMA WalkedIs ==
    ASSUME NEW o \in OpSet, NEW S \in SUBSET Name,
           NEW w, w = [o EXCEPT !.at = @ + 1, !.met = TRUE, !.got = @ \cup S]
    PROVE  /\ w \in OpSet /\ w.at = o.at + 1 /\ w.met = TRUE
           /\ w.kind = o.kind /\ w.name = o.name /\ w.splits = o.splits
<1>1. w.at = o.at + 1 /\ w.met = TRUE /\ w.got = o.got \cup S
      /\ w.kind = o.kind /\ w.name = o.name /\ w.splits = o.splits
  BY DEF OpSet
<1>2. w \in OpSet
  <2>1. o.at + 1 \in Nat /\ o.got \cup S \in SUBSET Name
    BY DEF OpSet
  <2>2. w = [o EXCEPT !.at = o.at + 1, !.met = TRUE, !.got = o.got \cup S]
    BY DEF OpSet
  <2>3. QED
    BY <2>1, <2>2 DEF OpSet
<1>3. QED
  BY <1>1, <1>2

\* Where the cursor of a name begins.
LEMMA FirstIs ==
    ASSUME IInv, Whole(hashed, index, blocks), NEW n \in Name
    PROVE  First(n) \in Nat /\ First(n) >= 1
<1>1. CASE hashed
  <2>1. Sorted(index) /\ Hash[n] \in Nat
    BY <1>1, WholeIs, HashIs DEF IInv
  <2>2. from_hash(index, Hash[n]) \in Stops(index, Hash[n])
        /\ Stops(index, Hash[n]) \subseteq 1 .. Len(index) /\ Len(index) \in Nat
    BY <2>1, StopsWalk, SortedIs
  <2>3. QED
    BY <1>1, <2>2 DEF First
<1>2. CASE ~hashed
  BY <1>2 DEF First
<1>3. QED
  BY <1>1, <1>2

LEMMA EnterMoves ==
    ASSUME NEW t, NEW o \in OpSet, Enter(t, o)
    PROVE  Moves(t, "visit", o)
BY DEF Enter, Moves, PcSet

-----------------------------------------------------------------------------
(* One lemma for each action.                                              *)

LEMMA StartFindKeeps ==
    ASSUME IInv, Disciplined, NEW t \in Thread, StartFind(t)
    PROVE  IInv'
<1>1. pc[t] = "idle" /\ ~Halted /\ MayEnter(t) /\ UNCHANGED dirVars
  BY DEF StartFind, At
<1>2. PICK n \in Name : Enter(t, Op("find", n, First(n)))
  BY DEF StartFind
<1> DEFINE o == Op("find", n, First(n))
<1>3. Whole(hashed, index, blocks)
  BY <1>1, WholeEntered
<1>4. First(n) \in Nat /\ First(n) >= 1
  BY <1>3, FirstIs
<1>5. /\ o \in OpSet /\ o.kind = "find" /\ o.name = n /\ o.at = First(n)
      /\ o.met = FALSE /\ o.splits = FALSE
  BY <1>4 DEF Op, OpSet
<1>6. Enter(t, o)
  BY <1>2
<1> HIDE DEF o
<1>7. Moves(t, "visit", o)
  BY <1>5, <1>6, EnterMoves
<1>8. Fits("visit", o, hashed, index, blocks)
  BY <1>4, <1>5 DEF Fits, Entered, Follows, First
<1>9. Joins(t, o)
  BY <1>1, <1>5 DEF Joins, MayEnter, Inside, In
<1>10. QED
  BY <1>1, <1>7, <1>8, <1>9, MovedInside

LEMMA StartRemoveKeeps ==
    ASSUME IInv, Disciplined, NEW t \in Thread, StartRemove(t)
    PROVE  IInv'
<1>1. pc[t] = "idle" /\ ~Halted /\ MayEnter(t) /\ UNCHANGED dirVars
  BY DEF StartRemove, At
<1>2. PICK n \in Name : Enter(t, Op("remove", n, First(n)))
  BY DEF StartRemove
<1> DEFINE o == Op("remove", n, First(n))
<1>3. Whole(hashed, index, blocks)
  BY <1>1, WholeEntered
<1>4. First(n) \in Nat /\ First(n) >= 1
  BY <1>3, FirstIs
<1>5. /\ o \in OpSet /\ o.kind = "remove" /\ o.name = n /\ o.at = First(n)
      /\ o.met = FALSE /\ o.splits = FALSE
  BY <1>4 DEF Op, OpSet
<1>6. Enter(t, o)
  BY <1>2
<1> HIDE DEF o
<1>7. Moves(t, "visit", o)
  BY <1>5, <1>6, EnterMoves
<1>8. Fits("visit", o, hashed, index, blocks)
  BY <1>4, <1>5 DEF Fits, Entered, Follows, First
<1>9. Joins(t, o)
  BY <1>1, <1>5 DEF Joins, MayEnter, Inside, In
<1>10. QED
  BY <1>1, <1>7, <1>8, <1>9, MovedInside

LEMMA StartListKeeps ==
    ASSUME IInv, Disciplined, NEW t \in Thread, StartList(t)
    PROVE  IInv'
<1>1. pc[t] = "idle" /\ ~Halted /\ MayEnter(t) /\ UNCHANGED dirVars /\ Enter(t, Op("list", Free, 1))
  BY DEF StartList, At
<1> DEFINE o == Op("list", Free, 1)
<1>2. o \in OpSet /\ o.kind = "list" /\ o.at = 1 /\ o.splits = FALSE
  BY DEF Op, OpSet
<1>3. Enter(t, o)
  BY <1>1
<1> HIDE DEF o
<1>4. Moves(t, "visit", o)
  BY <1>2, <1>3, EnterMoves
<1>5. Fits("visit", o, hashed, index, blocks)
  BY <1>2 DEF Fits, Entered
<1>6. Joins(t, o)
  BY <1>1, <1>2 DEF Joins, MayEnter, Inside, In
<1>7. QED
  BY <1>1, <1>4, <1>5, <1>6, MovedInside

\* Names that are not listed are in no block.
LEMMA MissingIs ==
    ASSUME NEW n \in Name, n \notin Live(blocks)
    PROVE  Missing(blocks, n)
<1>1. SUFFICES ASSUME NEW b \in DOMAIN blocks, n \in NamesIn(blocks[b]) PROVE FALSE
  BY DEF Missing
<1>2. n \in UNION {NamesIn(blocks[i]) : i \in DOMAIN blocks}
  BY <1>1
<1>3. QED
  BY <1>2 DEF Live

LEMMA StartAddKeeps ==
    ASSUME IInv, Disciplined, NEW t \in Thread, StartAdd(t)
    PROVE  IInv'
<1>1. pc[t] = "idle" /\ ~Halted /\ MayEnter(t) /\ UNCHANGED dirVars /\ hashed
  BY DEF StartAdd, At
<1>2. PICK n \in Name \ Listing :
        MayAdd(t, n) /\ op' = [op EXCEPT ![t] = [Op("add", n, First(n)) EXCEPT !.splits = Splits(n)]]
  BY DEF StartAdd
<1>3. PICK p \in {"panic", "visit"} : pc' = [pc EXCEPT ![t] = p]
  BY DEF StartAdd
<1> DEFINE o == [Op("add", n, First(n)) EXCEPT !.splits = Splits(n)]
<1>4. Whole(hashed, index, blocks) /\ \A u \in Thread : pc[u] \notin SplitPc
  BY <1>1, WholeEntered
<1>5. First(n) \in Nat /\ First(n) >= 1
  BY <1>2, <1>4, FirstIs
<1>6. Splits(n) \in BOOLEAN
  BY <1>1 DEF Splits
<1>7. /\ o \in OpSet /\ o.kind = "add" /\ o.name = n /\ o.at = First(n)
      /\ o.met = FALSE /\ o.splits = Splits(n)
  <2> DEFINE a == Op("add", n, First(n))
  <2>1. a \in OpSet /\ a.kind = "add" /\ a.name = n /\ a.at = First(n) /\ a.met = FALSE
    BY <1>2, <1>5 DEF Op, OpSet
  <2>2. o = [a EXCEPT !.splits = Splits(n)]
    OBVIOUS
  <2> HIDE DEF a, o
  <2>3. QED
    BY <1>6, <2>1, <2>2 DEF OpSet
<1>8. op' = [op EXCEPT ![t] = o]
  BY <1>2
<1> HIDE DEF o
<1>9. Moves(t, p, o)
  BY <1>3, <1>7, <1>8 DEF Moves, PcSet
<1>10. Missing(blocks, n)
  <2>1. Listing = Live(blocks)
    BY <1>4 DEF Listing, SplitPc
  <2>2. QED
    BY <1>2, <2>1, MissingIs
<1>11. Fits("visit", o, hashed, index, blocks)
  <2>1. Follows(index, o)
    BY <1>1, <1>7 DEF Follows, First
  <2>2. o.splits \/ RoomAhead(index, blocks, o)
    <3>1. SUFFICES ASSUME ~Splits(n) PROVE RoomAhead(index, blocks, o)
      BY <1>7
    <3>2. PICK j \in Stops(index, Hash[n]) : Roomy(blocks[index[j].block], n) # {}
      BY <1>1, <3>1 DEF Splits, Chain
    <3>3. Sorted(index) /\ Hash[n] \in Nat
      BY <1>1, <1>2, <1>4, WholeIs, HashIs DEF IInv
    <3>4. j >= o.at
      BY <1>1, <1>7, <3>2, <3>3, StopsWalk DEF First
    <3>5. QED
      BY <1>7, <3>2, <3>4 DEF RoomAhead
  <2>3. QED
    BY <1>1, <1>2, <1>5, <1>7, <1>10, <2>1, <2>2 DEF Fits, Entered
<1>12. Joins(t, o)
  BY <1>1, <1>2, <1>7 DEF Joins, MayEnter, MayAdd, Inside, In
<1>13. CASE p = "visit"
  BY <1>1, <1>9, <1>11, <1>12, <1>13, MovedInside
<1>14. CASE p = "panic"
  BY <1>1, <1>9, <1>14, MovedInside
<1>15. QED
  BY <1>13, <1>14

LEMMA ForgetKeeps ==
    ASSUME IInv, NEW t \in Thread, Forget(t)
    PROVE  IInv'
<1>1. pc[t] = "told" /\ ~Halted /\ UNCHANGED dirVars
  BY DEF Forget, At
<1>2. Moves(t, "idle", NoOp)
  BY ToldIs DEF Moves, Forget, PcSet
<1>3. QED
  BY <1>1, <1>2, MovedOut

LEMMA FinishMoves ==
    ASSUME NEW t \in Thread, NEW S \in SUBSET Name, Finish(t, S)
    PROVE  \E p \in {"idle", "told"} : Moves(t, p, [NoOp EXCEPT !.got = S])
<1>1. \E p \in {"idle", "told"} : pc' = [pc EXCEPT ![t] = p]
  BY DEF Finish
<1>2. [NoOp EXCEPT !.got = S] \in OpSet
  BY ToldIs
<1>3. QED
  BY <1>1, <1>2 DEF Finish, Moves, PcSet

LEMMA GoOnMoves ==
    ASSUME IInv, NEW t \in Thread, NEW S \in SUBSET Name, GoOn(t, S), pc[t] = "visit"
    PROVE  \E w \in OpSet : /\ Moves(t, "visit", w)
                            /\ w = [op[t] EXCEPT !.at = @ + 1, !.met = TRUE, !.got = @ \cup S]
<1>1. pc \in [Thread -> PcSet] /\ op \in [Thread -> OpSet]
  BY DEF IInv, TypeOK
<1> DEFINE w == [op[t] EXCEPT !.at = @ + 1, !.met = TRUE, !.got = @ \cup S]
<1>2. w \in OpSet
  BY <1>1, WalkedIs
<1>3. pc' = [pc EXCEPT ![t] = "visit"]
  <2> HIDE DEF PcSet, OpSet
  <2>1. pc' = pc
    BY DEF GoOn
  <2>2. QED
    BY <1>1, <2>1
<1>4. op' = [op EXCEPT ![t] = w]
  BY <1>1 DEF GoOn
<1>5. QED
  BY <1>2, <1>3, <1>4 DEF Moves, PcSet

\* A walk that goes on is behind the block it was at.
LEMMA WalksOn ==
    ASSUME IInv, ~Halted, NEW t \in Thread, pc[t] = "visit", NEW b \in Block(t),
           NEW S \in SUBSET Name, GoOn(t, S), UNCHANGED dirVars,
           op[t].kind = "add" => Roomy(blocks[b], op[t].name) = {}
    PROVE  IInv'
<1>1. PICK w \in OpSet : /\ Moves(t, "visit", w)
                         /\ w = [op[t] EXCEPT !.at = @ + 1, !.met = TRUE, !.got = @ \cup S]
  BY GoOnMoves
<1>2. op[t] \in OpSet /\ TypeOK /\ Entered(op[t], hashed, index, blocks)
  BY DEF IInv, TypeOK, Fits
<1>3. /\ w.at = op[t].at + 1 /\ w.met = TRUE
      /\ w.kind = op[t].kind /\ w.name = op[t].name /\ w.splits = op[t].splits
  BY <1>1, <1>2 DEF OpSet
<1>4. op[t].at \in Nat /\ w.at - 1 = op[t].at
  BY <1>2, <1>3 DEF OpSet
<1>5. hashed => /\ op[t].at \in DOMAIN index /\ b = index[op[t].at].block
                /\ op[t].kind # "list" => op[t].at \in Stops(index, Hash[op[t].name])
  BY BlockSeen
<1>6. w.kind # "list" => w.name \in Name /\ (hashed => Follows(index, w))
  BY <1>2, <1>3, <1>4, <1>5 DEF Entered, Follows
<1>7. ASSUME w.kind = "add" PROVE hashed /\ Missing(blocks, w.name) /\ (w.splits \/ RoomAhead(index, blocks, w))
  <2>1. hashed /\ Missing(blocks, w.name) /\ (op[t].splits \/ RoomAhead(index, blocks, op[t]))
    BY <1>2, <1>3, <1>7 DEF Entered
  <2>2. ASSUME RoomAhead(index, blocks, op[t]) PROVE RoomAhead(index, blocks, w)
    <3>1. PICK j \in Stops(index, Hash[w.name]) :
            j >= op[t].at /\ Roomy(blocks[index[j].block], w.name) # {}
      BY <1>3, <2>2 DEF RoomAhead
    <3>2. j # op[t].at
      BY <1>3, <1>5, <1>7, <2>1, <3>1
    <3>3. j \in Nat
      <4>1. w.name \in Name /\ Hash[w.name] \in Nat /\ Sorted(index)
        BY <1>2, <1>6, <1>7, <2>1, WholeSeen, WholeIs, HashIs
      <4>2. QED
        BY <3>1, <4>1, StopsWalk, SortedIs
    <3>4. j >= w.at
      BY <1>3, <1>4, <3>1, <3>2, <3>3
    <3>5. QED
      BY <3>1, <3>4 DEF RoomAhead
  <2>3. QED
    BY <1>3, <2>1, <2>2
<1>8. Fits("visit", w, hashed, index, blocks)
  BY <1>2, <1>3, <1>4, <1>6, <1>7 DEF Entered, Fits
<1>9. Joins(t, w)
  BY <1>3, StaysJoined DEF In
<1>10. QED
  BY <1>1, <1>8, <1>9, MovedInside

LEMMA FinishesQuietly ==
    ASSUME IInv, ~Halted, NEW t \in Thread, pc[t] = "visit",
           NEW S \in SUBSET Name, Finish(t, S), UNCHANGED dirVars
    PROVE  IInv'
<1>1. PICK p \in {"idle", "told"} : Moves(t, p, [NoOp EXCEPT !.got = S])
  BY FinishMoves
<1>2. QED
  BY <1>1, MovedOut

LEMMA FindInKeeps ==
    ASSUME IInv, NEW t \in Thread, FindIn(t)
    PROVE  IInv'
<1>1. pc[t] = "visit" /\ ~Halted /\ op[t].kind = "find" /\ UNCHANGED dirVars
  BY DEF FindIn, Visits, At
<1>2. PICK b \in Block(t) :
        IF op[t].name \in NamesIn(blocks[b]) THEN Finish(t, {op[t].name}) ELSE GoOn(t, {})
  BY DEF FindIn
<1>3. op[t].name \in Name
  BY <1>1 DEF IInv, Fits, Entered
<1>4. CASE op[t].name \in NamesIn(blocks[b])
  <2>1. Finish(t, {op[t].name}) /\ {op[t].name} \in SUBSET Name
    BY <1>2, <1>3, <1>4
  <2>2. QED
    BY <1>1, <2>1, FinishesQuietly
<1>5. CASE op[t].name \notin NamesIn(blocks[b])
  <2>1. GoOn(t, {}) /\ {} \in SUBSET Name
    BY <1>2, <1>5
  <2>2. QED
    BY <1>1, <2>1, WalksOn
<1>6. QED
  BY <1>4, <1>5

LEMMA ListInKeeps ==
    ASSUME IInv, NEW t \in Thread, ListIn(t)
    PROVE  IInv'
<1>1. pc[t] = "visit" /\ ~Halted /\ op[t].kind = "list" /\ UNCHANGED dirVars
  BY DEF ListIn, Visits, At
<1>2. PICK b \in Block(t) : Finish(t, op[t].got) \/ GoOn(t, Shown(blocks[b]))
  BY DEF ListIn
<1>3. op[t].got \in SUBSET Name
  BY DEF IInv, TypeOK, OpSet
<1>4. CASE Finish(t, op[t].got)
  BY <1>1, <1>3, <1>4, FinishesQuietly
<1>5. CASE GoOn(t, Shown(blocks[b]))
  <2>1. Shown(blocks[b]) \in SUBSET Name
    BY DEF Shown
  <2>2. QED
    BY <1>1, <1>5, <2>1, WalksOn
<1>6. QED
  BY <1>2, <1>4, <1>5

LEMMA EndOfCursorKeeps ==
    ASSUME IInv, NEW t \in Thread, EndOfCursor(t)
    PROVE  IInv'
<1>1. pc[t] = "visit" /\ ~Halted /\ UNCHANGED dirVars /\ Finish(t, op[t].got)
  BY DEF EndOfCursor, At
<1>2. op[t].got \in SUBSET Name
  BY DEF IInv, TypeOK, OpSet
<1>3. QED
  BY <1>1, <1>2, FinishesQuietly

\* Thread t goes out and has given a block other entries; what others expect of the
\* directory stays.
LEMMA MovedOutWith ==
    ASSUME IInv, ~Halted, NEW t \in Thread, pc[t] = "visit", NEW S \in SUBSET Name, Finish(t, S),
           hashed' = hashed, index' = index, size' = size,
           blocks' \in Seq(Blocks), Len(blocks') = Len(blocks),
           Whole(hashed, index, blocks'),
           \A u \in Others(t) : pc[u] = "visit" /\ op[u].kind = "add"
               => /\ Missing(blocks', op[u].name)
                  /\ RoomAhead(index, blocks, op[u]) => RoomAhead(index, blocks', op[u])
    PROVE  IInv'
<1>1. PICK p \in {"idle", "told"} : Moves(t, p, [NoOp EXCEPT !.got = S])
  BY FinishMoves
<1> DEFINE o == [NoOp EXCEPT !.got = S]
<1> HIDE DEF o
<1>2. Moves(t, p, o) /\ Fits(p, o, hashed', index', blocks') /\ ~In(p)
  BY <1>1 DEF Fits, In, o
<1>3. DirTypes'
  BY DEF DirTypes, IInv, TypeOK
<1>4. Keeps(t)
  <2>1. SUFFICES ASSUME NEW u \in Others(t), In(pc[u])
                 PROVE  Fits(pc[u], op[u], hashed, index, blocks')
    BY DEF Keeps
  <2>2. u \in Thread /\ u # t /\ In(pc[t])
    BY DEF Others, In
  <2>3. Fits(pc[u], op[u], hashed, index, blocks)
    BY <2>2 DEF IInv
  <2>4. ~op[u].splits
    BY <2>1, <2>2 DEF IInv, Alone
  <2>5. pc[u] = "visit" => Entered(op[u], hashed, index, blocks')
    BY <2>3, <2>4 DEF Fits, Entered
  <2>6. pc[u] \notin {"grow", "link", "putOld", "putNew"}
    BY <2>3, <2>4 DEF Fits, Gathered, Parted
  <2>7. QED
    BY <2>5, <2>6 DEF Fits
<1>5. QED
  BY <1>2, <1>3, <1>4, Moved

LEMMA RemoveInKeeps ==
    ASSUME IInv, NEW t \in Thread, RemoveIn(t)
    PROVE  IInv'
<1>1. /\ pc[t] = "visit" /\ ~Halted /\ op[t].kind = "remove"
      /\ hashed' = hashed /\ index' = index /\ size' = size
  BY DEF RemoveIn, Visits, At
<1>2. PICK b \in Block(t) :
        IF op[t].name \in NamesIn(blocks[b])
        THEN /\ blocks' = [blocks EXCEPT ![b] = destroy(@, op[t].name)]
             /\ Finish(t, {op[t].name})
        ELSE GoOn(t, {}) /\ UNCHANGED blocks
  BY DEF RemoveIn
<1> DEFINE n == op[t].name
<1>3. n \in Name /\ TypeOK /\ Whole(hashed, index, blocks) /\ b \in DOMAIN blocks
  BY <1>1, <1>2, WholeSeen, BlockSeen DEF IInv, Fits, Entered
<1>4. CASE n \notin NamesIn(blocks[b])
  <2>1. GoOn(t, {}) /\ {} \in SUBSET Name /\ UNCHANGED dirVars
    BY <1>1, <1>2, <1>4 DEF dirVars
  <2>2. QED
    BY <1>1, <2>1, WalksOn
<1>5. CASE n \in NamesIn(blocks[b])
  <2>1. blocks' = [blocks EXCEPT ![b] = destroy(blocks[b], n)] /\ Finish(t, {n}) /\ {n} \in SUBSET Name
    BY <1>2, <1>3, <1>5
  <2> DEFINE c == destroy(blocks[b], n)
  <2>2. /\ blocks \in Seq(Blocks) /\ Tidy(blocks) /\ (hashed => Leads(index, blocks))
        /\ blocks[b] \in Blocks /\ WellFormed(blocks[b]) /\ Distinct(blocks[b])
    BY <1>3, WholeIs DEF TypeOK, Whole
  <2> HIDE DEF n
  <2>3. /\ c \in Blocks /\ WellFormed(c) /\ Distinct(c) /\ NamesIn(c) = NamesIn(blocks[b]) \ {n}
        /\ \A m \in Name : Roomy(blocks[b], m) # {} => Roomy(c, m) # {}
    BY <1>3, <1>5, <2>2, DestroyIs
  <2> HIDE DEF c
  <2>4. blocks' = [blocks EXCEPT ![b] = c]
    BY <2>1 DEF c
  <2>5. blocks' \in Seq(Blocks) /\ Len(blocks') = Len(blocks) /\ DOMAIN blocks' = DOMAIN blocks /\ Tidy(blocks')
    <3>1. /\ NamesIn(c) \cap Name \subseteq NamesIn(blocks[b]) \cup {Free}
          /\ \A d \in DOMAIN blocks : Free \in Name => Free \notin NamesIn(blocks[d])
      BY <2>3, NotFree
    <3>2. QED
      BY <1>3, <2>2, <2>3, <2>4, <3>1, PutTidy
  <2>6. hashed => Leads(index, blocks')
    <3>1. SUFFICES ASSUME hashed PROVE Leads(index, blocks')
      OBVIOUS
    <3>2. /\ NamesIn(c) \subseteq NamesIn(blocks[b]) \cup {n}
          /\ n \in NamesIn(c) => n \in NamesIn(blocks[b]) \/ (n \in Name /\ b \in Chain(index, Hash[n]))
      BY <2>3
    <3>3. QED
      BY <1>3, <2>2, <2>3, <2>4, <3>1, <3>2, PutLeads
  <2>7. blocks'[b] = c /\ \A d \in DOMAIN blocks : d # b => blocks'[d] = blocks[d]
    BY <1>3, <2>4
  <2>8. ASSUME NEW u \in Others(t), pc[u] = "visit", op[u].kind = "add"
        PROVE  /\ Missing(blocks', op[u].name)
               /\ RoomAhead(index, blocks, op[u]) => RoomAhead(index, blocks', op[u])
    <3>1. hashed /\ op[u].name \in Name /\ Missing(blocks, op[u].name)
      BY <1>1, <2>8 DEF Others, IInv, Fits, Entered
    <3>2. Missing(blocks', op[u].name)
      BY <2>3, <2>5, <2>7, <3>1 DEF Missing
    <3>3. ASSUME NEW j \in Stops(index, Hash[op[u].name]),
                 Roomy(blocks[index[j].block], op[u].name) # {}
          PROVE  Roomy(blocks'[index[j].block], op[u].name) # {}
      <4>1. index[j].block \in DOMAIN blocks
        <5>1. Sorted(index) /\ Hash[op[u].name] \in Nat
          BY <1>3, <3>1, WholeIs, HashIs
        <5>2. j \in 1 .. Len(index)
          BY <3>3, <5>1, StopsWalk
        <5>3. QED
          BY <1>3, <3>1, <5>2, WholeIs
      <4>2. QED
        BY <2>3, <2>7, <3>1, <3>3, <4>1
    <3>4. QED
      BY <3>2, <3>3 DEF RoomAhead
  <2>9. Whole(hashed, index, blocks')
    BY <2>5, <2>6 DEF Whole
  <2>10. QED
    BY <1>1, <2>1, <2>5, <2>8, <2>9, MovedOutWith
<1>6. QED
  BY <1>4, <1>5

LEMMA AddInKeeps ==
    ASSUME IInv, NEW t \in Thread, AddIn(t)
    PROVE  IInv'
<1>1. /\ pc[t] = "visit" /\ ~Halted /\ op[t].kind = "add"
      /\ hashed' = hashed /\ index' = index /\ size' = size
  BY DEF AddIn, Visits, At
<1>2. PICK b \in Block(t) :
        IF Roomy(blocks[b], op[t].name) # {}
        THEN /\ blocks' = [blocks EXCEPT ![b] = insert_entry(@, op[t].name)]
             /\ Finish(t, {})
        ELSE GoOn(t, {}) /\ UNCHANGED blocks
  BY DEF AddIn
<1> DEFINE n == op[t].name
<1>3. /\ hashed /\ n \in Name /\ TypeOK /\ Whole(hashed, index, blocks) /\ b \in DOMAIN blocks
      /\ Missing(blocks, n)
  BY <1>1, <1>2, WholeSeen, BlockSeen DEF IInv, Fits, Entered
<1>4. CASE Roomy(blocks[b], n) = {}
  <2>1. GoOn(t, {}) /\ {} \in SUBSET Name /\ UNCHANGED dirVars
    BY <1>1, <1>2, <1>4 DEF dirVars
  <2>2. QED
    BY <1>1, <1>4, <2>1, WalksOn
<1>5. CASE Roomy(blocks[b], n) # {}
  <2>1. blocks' = [blocks EXCEPT ![b] = insert_entry(blocks[b], n)] /\ Finish(t, {}) /\ {} \in SUBSET Name
    BY <1>2, <1>3, <1>5
  <2> DEFINE c == insert_entry(blocks[b], n)
  <2>2. /\ blocks \in Seq(Blocks) /\ Tidy(blocks) /\ Leads(index, blocks)
        /\ blocks[b] \in Blocks /\ WellFormed(blocks[b]) /\ Distinct(blocks[b])
    BY <1>3, WholeIs DEF TypeOK, Whole
  <2>3. b \in Chain(index, Hash[n])
    BY <1>1, <1>3, BlockSeen DEF Chain
  <2> HIDE DEF n
  <2>4. c \in Blocks /\ WellFormed(c) /\ Distinct(c) /\ NamesIn(c) = NamesIn(blocks[b]) \cup {n}
    BY <1>3, <1>5, <2>2, InsertIs DEF Missing
  <2> HIDE DEF c
  <2>5. blocks' = [blocks EXCEPT ![b] = c]
    BY <2>1 DEF c
  <2>6. blocks' \in Seq(Blocks) /\ Len(blocks') = Len(blocks) /\ DOMAIN blocks' = DOMAIN blocks /\ Tidy(blocks')
    <3>1. /\ NamesIn(c) \cap Name \subseteq NamesIn(blocks[b]) \cup {n}
          /\ \A d \in DOMAIN blocks : n \in Name => n \notin NamesIn(blocks[d])
      BY <1>3, <2>4 DEF Missing
    <3>2. QED
      BY <1>3, <2>2, <2>4, <2>5, <3>1, PutTidy
  <2>7. Leads(index, blocks')
    <3>1. /\ NamesIn(c) \subseteq NamesIn(blocks[b]) \cup {n}
          /\ n \in NamesIn(c) => n \in NamesIn(blocks[b]) \/ (n \in Name /\ b \in Chain(index, Hash[n]))
      BY <1>3, <2>3, <2>4
    <3>2. QED
      BY <1>3, <2>2, <2>4, <2>5, <3>1, PutLeads
  <2>8. \A u \in Others(t) : ~(pc[u] = "visit" /\ op[u].kind = "add")
    BY <1>1 DEF Others, IInv, Alone, In
  <2>9. Whole(hashed, index, blocks')
    BY <2>6, <2>7 DEF Whole
  <2>10. QED
    BY <1>1, <2>1, <2>6, <2>8, <2>9, MovedOutWith
<1>6. QED
  BY <1>4, <1>5

\* A split begins where the cursor ends, and only when no block had room.
LEMMA GatherKeeps ==
    ASSUME IInv, NEW t \in Thread, Gather(t)
    PROVE  IInv'
<1> DEFINE o == op[t]
           n == o.name
           b == index[o.at - 1].block
           w == [o EXCEPT !.block = b, !.before = NamesIn(blocks[b]), !.names = ByHash(blocks[b], n)]
<1>1. pc[t] = "visit" /\ ~Halted /\ o.kind = "add" /\ Block(t) = {} /\ UNCHANGED dirVars
  BY DEF Gather, Visits, At
<1>2. /\ TypeOK /\ o \in OpSet /\ Entered(o, hashed, index, blocks) /\ Whole(hashed, index, blocks)
  BY <1>1, WholeSeen DEF IInv, Fits, TypeOK
<1>3. /\ hashed /\ n \in Name /\ Follows(index, o) /\ Missing(blocks, n) /\ o.at \in Nat /\ o.at >= 1
      /\ o.splits \/ RoomAhead(index, blocks, o)
  BY <1>1, <1>2 DEF Entered, OpSet
<1>4. /\ Sorted(index) /\ Hash[n] \in Nat /\ DOMAIN index = 1 .. Len(index) /\ Len(index) \in Nat
      /\ \A i \in 1 .. Len(index) : index[i].block \in DOMAIN blocks /\ index[i].block \in Nat
      /\ \A c \in DOMAIN blocks : blocks[c] \in Blocks
  BY <1>2, <1>3, WholeIs, SortedIs, HashIs
<1>5. ~(o.at \in DOMAIN index /\ (~o.met \/ GoesOn(index, Hash[n], o.at)))
  BY <1>1, <1>3 DEF Block, IndexBlock
<1>6. o.met /\ o.at - 1 \in Stops(index, Hash[n]) /\ o.at \notin Stops(index, Hash[n])
  <2>1. o.met
    <3>1. SUFFICES ASSUME ~o.met PROVE FALSE
      OBVIOUS
    <3>2. o.at \in 1 .. Len(index)
      <4>1. o.at = from_hash(index, Hash[n])
        BY <1>3, <3>1 DEF Follows
      <4>2. QED
        BY <1>4, <4>1, FirstStop
    <3>3. QED
      BY <1>4, <1>5, <3>1, <3>2
  <2>2. o.at - 1 \in Stops(index, Hash[n])
    BY <1>3, <2>1 DEF Follows
  <2>3. o.at \notin Stops(index, Hash[n])
    BY <1>3, <1>4, <1>5, <2>2, StopsNext DEF GoesOn
  <2>4. QED
    BY <2>1, <2>2, <2>3
<1>7. o.splits
  <2>1. SUFFICES ASSUME RoomAhead(index, blocks, o) PROVE FALSE
    BY <1>3
  <2>2. PICK j \in Stops(index, Hash[n]) : j >= o.at
    BY <2>1 DEF RoomAhead
  <2>3. QED
    BY <1>3, <1>4, <1>6, <2>2, StopsNext
<1>8. o.at - 1 \in 1 .. Len(index) /\ b \in DOMAIN blocks /\ b \in Nat /\ blocks[b] \in Blocks
  BY <1>4, <1>6, StopsWalk
<1> HIDE DEF b
<1>9. NamesIn(blocks[b]) \subseteq Name
  BY <1>2, <1>3, <1>8 DEF Whole, Leads
<1>10. ByHash(blocks[b], n) \in Seq(Name)
  <2>1. /\ Kept(blocks[b], n) \in SUBSET Name /\ IsFiniteSet(Kept(blocks[b], n)) /\ Apart(Kept(blocks[b], n))
    BY <1>3, <1>8, <1>9, KeptIs
  <2>2. InOrder(Kept(blocks[b], n)) \in Seq(Name)
    BY <2>1, InOrderIs
  <2>3. QED
    BY <2>2 DEF ByHash
<1>11. /\ w \in OpSet /\ w.block = b /\ w.names = ByHash(blocks[b], n)
       /\ w.at = o.at /\ w.name = n /\ w.splits = o.splits /\ w.kind = o.kind
  BY <1>2, <1>8, <1>9, <1>10 DEF OpSet
<1>12. Moves(t, "grow", w)
  BY <1>11 DEF Moves, PcSet, Gather, b
<1> HIDE DEF w
<1>13. Fits("grow", w, hashed, index, blocks)
  BY <1>3, <1>6, <1>7, <1>11 DEF Fits, Gathered, b
<1>14. Joins(t, w)
  BY <1>1, <1>11, StaysJoined DEF In
<1>15. QED
  BY <1>1, <1>12, <1>13, <1>14, MovedInside

\* Who splits is the only one inside.
LEMMA SplitsAlone ==
    ASSUME IInv, ~Halted, NEW t \in Thread, pc[t] \in SplitPc
    PROVE  op[t].splits /\ \A u \in Others(t) : ~In(pc[u])
<1>1. op[t].splits
  BY DEF IInv, Fits, Gathered, Parted, SplitPc
<1>2. QED
  BY <1>1 DEF IInv, Alone, In, Others, SplitPc

LEMMA MovedSplitting ==
    ASSUME IInv, ~Halted, NEW t \in Thread, pc[t] \in SplitPc, NEW p, NEW o, Moves(t, p, o), DirTypes',
           p # "panic" => /\ Fits(p, o, hashed', index', blocks')
                          /\ p \notin {"link", "putOld", "putNew"} => Whole(hashed', index', blocks')
    PROVE  IInv'
<1>1. \A u \in Others(t) : ~In(pc[u])
  BY SplitsAlone
<1>2. Keeps(t) /\ Joins(t, o)
  BY <1>1 DEF Keeps, Joins
<1>3. QED
  BY <1>2, Moved

\* What a division gives is what Final and LinkedIndex say.
LEMMA GrowKeeps ==
    ASSUME IInv, NEW t \in Thread, Grow(t)
    PROVE  IInv'
<1> DEFINE o == op[t]
           cut == SplitPos(o.names)
<1>1. /\ pc[t] = "grow" /\ ~Halted /\ hashed' = hashed /\ index' = index
      /\ blocks' = Append(blocks, <<>>) /\ size' = size + 1
  BY DEF Grow, At
<1>2. /\ TypeOK /\ o \in OpSet /\ Gathered(o, hashed, index, blocks) /\ Whole(hashed, index, blocks)
  BY <1>1, WholeSeen DEF IInv, Fits, TypeOK
<1>3. /\ blocks \in Seq(Blocks) /\ index \in Seq(Entry) /\ hashed /\ size = Len(blocks) + 1
      /\ Leads(index, blocks) /\ Tidy(blocks) /\ Len(blocks) \in Nat /\ DOMAIN blocks = 1 .. Len(blocks)
  BY <1>2, WholeIs DEF TypeOK, Whole, Gathered
<1>4. /\ blocks' \in Seq(Blocks) /\ Len(blocks') = Len(blocks) + 1
      /\ DOMAIN blocks' = 1 .. Len(blocks) + 1
  <2>1. <<>> \in Blocks
    BY DEF Blocks
  <2> HIDE DEF Blocks
  <2>2. QED
    BY <1>1, <1>3, <2>1
<1>5. DirTypes'
  BY <1>1, <1>3, <1>4 DEF DirTypes
<1>6. CASE cut = {}
  <2>1. pc' = [pc EXCEPT ![t] = "panic"] /\ op' = op
    BY <1>6 DEF Grow
  <2>2. op' = [op EXCEPT ![t] = o]
    <3> HIDE DEF OpSet
    <3>1. op \in [Thread -> OpSet]
      BY <1>2 DEF TypeOK
    <3>2. QED
      BY <2>1, <3>1
  <2>3. Moves(t, "panic", o)
    BY <1>2, <2>1, <2>2 DEF Moves, PcSet
  <2>4. QED
    BY <1>1, <1>5, <2>3, MovedSplitting DEF SplitPc
<1>7. CASE cut # {}
  <2> DEFINE k == Min(cut)
             w == [o EXCEPT !.new = Len(blocks) + 1, !.cut = k]
  <2>1. o.names \in Seq(Name) /\ o.at \in Nat /\ o.block \in Nat
    BY <1>2 DEF OpSet
  <2>2. k \in cut /\ k \in Nat
    <3>1. cut \subseteq 1 .. Len(o.names) /\ Len(o.names) \in Nat
      BY <2>1 DEF SplitPos
    <3>2. cut \subseteq Nat
      BY <3>1
    <3> HIDE DEF cut
    <3>3. k \in cut
      BY <1>7, <3>2, MinIs
    <3>4. QED
      BY <3>2, <3>3
  <2>3. /\ pc' = [pc EXCEPT ![t] = "link"]
        /\ op' = [op EXCEPT ![t].new = Len(blocks) + 1, ![t].cut = k]
    BY <1>7 DEF Grow
  <2> HIDE DEF k, cut
  <2>4. /\ w \in OpSet /\ w.new = Len(blocks) + 1 /\ w.cut = k /\ w.names = o.names
        /\ w.block = o.block /\ w.at = o.at /\ w.splits = o.splits
    <3>1. Len(blocks) + 1 \in Nat /\ o \in OpSet
      BY <1>2, <1>3
    <3>2. QED
      BY <2>2, <3>1 DEF OpSet
  <2>5. Moves(t, "link", w)
    <3>1. op \in [Thread -> OpSet]
      BY <1>2 DEF TypeOK
    <3>2. op' = [op EXCEPT ![t] = w]
      BY <2>3, <3>1
    <3>3. QED
      BY <2>3, <2>4, <3>2 DEF Moves, PcSet
  <2> DEFINE q == o.at - 1
             ix == index
             bs == blocks
             es == o.names
             e == [hash |-> NewHash(es, k), block |-> Len(bs) + 1]
             jx == InsertAt(ix, q + 1, e)
             f == Filled(SubSeq(es, 1, k - 1))
             s == Filled(SubSeq(es, k, Len(es)))
             ds == [Append(bs, <<>>) EXCEPT ![ix[q].block] = f, ![Len(bs) + 1] = s]
  <2> HIDE DEF w
  <2>6. Divides(ix, bs, o.name, q, es, k)
    BY <1>2, <1>3, <2>2 DEF Divides, Entry, Gathered, Missing, cut
  <2>7. Divided(ix, bs, q, es, k, f, s, ds)
    BY DEF Divided
  <2>8. /\ Linked(ix, jx, q, e) /\ ix[q].block \in DOMAIN bs
    BY <2>6, NewEntry, DividesIs
  <2>9. Leads(jx, ds) /\ Tidy(ds) /\ ix[q].block # Len(bs) + 1
    BY <2>6, <2>7, DividedLeads, DividedTidy
  <2>10. ds \in Seq(Blocks)
    <3>1. Halves(es, k, f, s)
      BY <2>6, DividesIs
    <3>2. f \in Blocks /\ s \in Blocks
      BY <3>1 DEF Halves
    <3>3. ix[q].block \in 1 .. Len(bs) + 1 /\ Len(bs) + 1 \in 1 .. Len(bs) + 1
      BY <1>3, <2>8
    <3> HIDE DEF f, s, Blocks
    <3> DEFINE c1 == [Append(bs, <<>>) EXCEPT ![ix[q].block] = f]
    <3>4. c1 \in Seq(Blocks) /\ Len(c1) = Len(bs) + 1
      BY <1>1, <1>4, <3>2, <3>3, ExceptIs
    <3>5. ds = [c1 EXCEPT ![Len(bs) + 1] = s]
      OBVIOUS
    <3> HIDE DEF c1, ds
    <3>6. QED
      BY <3>2, <3>3, <3>4, <3>5, ExceptIs
  <2>11. Final(w, blocks') = ds
    BY <1>1, <1>2, <2>4 DEF Final, FirstHalf, SecondHalf, Gathered
  <2>12. LinkedIndex(w, index') = jx
    BY <1>1, <2>1, <2>4 DEF LinkedIndex
  <2> HIDE DEF ds, jx, e
  <2>13. Parted(w, hashed', blocks')
    <3>1. w.block = ix[q].block /\ w.splits /\ hashed'
      BY <1>1, <1>2, <2>4 DEF Gathered
    <3>2. QED
      BY <1>3, <1>4, <2>4, <2>8, <2>9, <2>10, <2>11, <3>1 DEF Parted
  <2>14. Unlinked(w, index', blocks')
    BY <2>8, <2>9, <2>11, <2>12 DEF Unlinked, Linked, Entry
  <2>15. Fits("link", w, hashed', index', blocks')
    BY <2>13, <2>14 DEF Fits
  <2>16. QED
    BY <1>1, <1>5, <2>5, <2>15, MovedSplitting DEF SplitPc
<1>8. QED
  BY <1>6, <1>7

LEMMA GrowFailsKeeps ==
    ASSUME IInv, NEW t \in Thread, GrowFails(t)
    PROVE  IInv'
<1>1. /\ pc[t] = "grow" /\ ~Halted /\ UNCHANGED dirVars
      /\ pc' = [pc EXCEPT ![t] = "panic"] /\ op' = op
  BY DEF GrowFails, At
<1>2. op \in [Thread -> OpSet]
  BY DEF IInv, TypeOK
<1>3. op[t] \in OpSet /\ op' = [op EXCEPT ![t] = op[t]]
  <2> HIDE DEF OpSet
  <2>1. QED
    BY <1>1, <1>2
<1>4. Moves(t, "panic", op[t])
  BY <1>1, <1>3 DEF Moves, PcSet
<1>5. QED
  BY <1>1, <1>4, MovedInside

LEMMA LinkKeeps ==
    ASSUME IInv, NEW t \in Thread, Link(t)
    PROVE  IInv'
<1> DEFINE o == op[t]
<1>1. /\ pc[t] = "link" /\ ~Halted /\ pc' = [pc EXCEPT ![t] = "putOld"]
      /\ hashed' = hashed /\ blocks' = blocks /\ size' = size /\ op' = op
      /\ index' = LinkedIndex(o, index)
  BY DEF Link, At, LinkedIndex
<1>2. /\ TypeOK /\ op \in [Thread -> OpSet] /\ o \in OpSet
      /\ Parted(o, hashed, blocks) /\ Unlinked(o, index, blocks)
  BY <1>1 DEF IInv, Fits, TypeOK
<1>3. op' = [op EXCEPT ![t] = o]
  <2> HIDE DEF OpSet
  <2>1. QED
    BY <1>1, <1>2
<1>4. Moves(t, "putOld", o)
  BY <1>1, <1>2, <1>3 DEF Moves, PcSet
<1>5. DirTypes'
  BY <1>1, <1>2 DEF DirTypes, Unlinked, TypeOK
<1>6. Fits("putOld", o, hashed', index', blocks')
  BY <1>1, <1>2 DEF Fits, Unlinked
<1>7. QED
  BY <1>1, <1>4, <1>5, <1>6, MovedSplitting DEF SplitPc

LEMMA PutOldKeeps ==
    ASSUME IInv, NEW t \in Thread, PutOld(t)
    PROVE  IInv'
<1> DEFINE o == op[t]
           f == Filled(FirstHalf(o))
           s == Filled(SecondHalf(o))
<1>1. /\ pc[t] = "putOld" /\ ~Halted /\ pc' = [pc EXCEPT ![t] = "putNew"]
      /\ hashed' = hashed /\ index' = index /\ size' = size /\ op' = op
      /\ blocks' = [blocks EXCEPT ![o.block] = f]
  BY DEF PutOld, At
<1>2. /\ TypeOK /\ op \in [Thread -> OpSet] /\ o \in OpSet /\ blocks \in Seq(Blocks)
      /\ Parted(o, hashed, blocks) /\ Leads(index, Final(o, blocks))
  BY <1>1 DEF IInv, Fits, TypeOK
<1>3. op' = [op EXCEPT ![t] = o]
  <2> HIDE DEF OpSet
  <2>1. QED
    BY <1>1, <1>2
<1>4. Moves(t, "putNew", o)
  BY <1>1, <1>2, <1>3 DEF Moves, PcSet
<1>5. /\ DOMAIN blocks = 1 .. Len(blocks) /\ Len(blocks) \in Nat
      /\ o.block \in DOMAIN blocks /\ o.new \in DOMAIN blocks /\ o.block # o.new
      /\ Final(o, blocks) = [blocks EXCEPT ![o.block] = f, ![o.new] = s] /\ Final(o, blocks) \in Seq(Blocks)
  BY <1>2, BlocksAre DEF Parted, Final
<1> HIDE DEF f, s
<1>6. f \in Blocks
  <2> HIDE DEF Blocks
  <2>1. Final(o, blocks)[o.block] = f /\ o.block \in DOMAIN Final(o, blocks)
    BY <1>5
  <2>2. QED
    BY <1>5, <2>1, BlocksAre
<1>7. blocks' \in Seq(Blocks) /\ DOMAIN blocks' = DOMAIN blocks /\ Len(blocks') = Len(blocks) /\ blocks'[o.block] = f
  <2> HIDE DEF Blocks
  <2>1. QED
    BY <1>1, <1>2, <1>5, <1>6, ExceptIs
<1>8. Final(o, blocks') = Final(o, blocks)
  <2>1. Final(o, blocks') = [blocks' EXCEPT ![o.block] = f, ![o.new] = s]
    BY DEF Final, f, s
  <2> HIDE DEF Blocks
  <2>2. [[blocks EXCEPT ![o.block] = f] EXCEPT ![o.block] = f, ![o.new] = s]
        = [blocks EXCEPT ![o.block] = f, ![o.new] = s]
    BY <1>2, <1>5
  <2>3. QED
    BY <1>1, <1>5, <2>1, <2>2
<1>9. DirTypes'
  BY <1>1, <1>2, <1>7 DEF DirTypes, TypeOK
<1>10. Fits("putNew", o, hashed', index', blocks')
  BY <1>1, <1>2, <1>7, <1>8 DEF Fits, Parted, f
<1>11. QED
  BY <1>1, <1>4, <1>9, <1>10, MovedSplitting DEF SplitPc

LEMMA PutNewKeeps ==
    ASSUME IInv, NEW t \in Thread, PutNew(t)
    PROVE  IInv'
<1> DEFINE o == op[t]
           f == Filled(FirstHalf(o))
           s == Filled(SecondHalf(o))
<1>1. /\ pc[t] = "putNew" /\ ~Halted /\ Finish(t, {})
      /\ hashed' = hashed /\ index' = index /\ size' = size
      /\ blocks' = [blocks EXCEPT ![o.new] = s]
  BY DEF PutNew, At
<1>2. /\ TypeOK /\ blocks \in Seq(Blocks) /\ hashed
      /\ Parted(o, hashed, blocks) /\ Leads(index, Final(o, blocks)) /\ blocks[o.block] = f
  BY <1>1 DEF IInv, Fits, TypeOK, Parted
<1>3. PICK p \in {"idle", "told"} : Moves(t, p, [NoOp EXCEPT !.got = {}])
  BY <1>1, FinishMoves
<1> DEFINE w == [NoOp EXCEPT !.got = {}]
<1> HIDE DEF w
<1>4. Moves(t, p, w) /\ Fits(p, w, hashed', index', blocks') /\ ~In(p)
  BY <1>3 DEF Fits, In, w
<1>5. /\ DOMAIN blocks = 1 .. Len(blocks) /\ Len(blocks) \in Nat
      /\ o.block \in DOMAIN blocks /\ o.new \in DOMAIN blocks /\ o.block # o.new
      /\ Final(o, blocks) = [blocks EXCEPT ![o.block] = f, ![o.new] = s]
      /\ Final(o, blocks) \in Seq(Blocks) /\ Tidy(Final(o, blocks))
  BY <1>2, BlocksAre DEF Parted, Final
<1> HIDE DEF f, s
<1>6. blocks' = Final(o, blocks) /\ Len(blocks') = Len(blocks)
  <2> HIDE DEF Blocks
  <2>1. [blocks EXCEPT ![o.block] = f] = blocks
    BY <1>2, <1>5
  <2>2. [blocks EXCEPT ![o.block] = f, ![o.new] = s] = [[blocks EXCEPT ![o.block] = f] EXCEPT ![o.new] = s]
    OBVIOUS
  <2>3. blocks' = Final(o, blocks)
    BY <1>1, <1>5, <2>1, <2>2
  <2>4. Len([blocks EXCEPT ![o.new] = s]) = Len(blocks)
    BY <1>2, <1>5
  <2>5. QED
    BY <1>1, <2>3, <2>4
<1>7. DirTypes'
  BY <1>1, <1>2, <1>5, <1>6 DEF DirTypes, TypeOK
<1>8. Whole(hashed', index', blocks')
  BY <1>1, <1>2, <1>5, <1>6 DEF Whole
<1>9. QED
  BY <1>1, <1>4, <1>7, <1>8, MovedSplitting DEF SplitPc

\* The blocks bs are those of the directory, or have a cleared one behind them, and
\* block i of them has room for the name n, which is in none.
Places(bs, i, n) ==
    /\ bs \in Seq(Blocks) /\ Tidy(bs) /\ i \in DOMAIN bs /\ Roomy(bs[i], n) # {}
    /\ n \in Name /\ \A b \in DOMAIN bs : n \notin NamesIn(bs[b])
    /\ bs = blocks \/ (bs = Append(blocks, Cleared) /\ Len(bs) = Len(blocks) + 1)

\* Where a linear directory puts a name.
LEMMA LinearPlace ==
    ASSUME IInv, NEW t \in Thread, LinearAdd(t)
    PROVE  \E n \in Name \ Listing, bs \in Seq(Blocks) : \E i \in DOMAIN bs :
               /\ Places(bs, i, n) /\ blocks' = [bs EXCEPT ![i] = insert_entry(bs[i], n)]
               /\ size' = IF Len(bs) = Len(blocks) THEN size ELSE size + 1
<1>1. ~hashed /\ ~Halted /\ hashed' = hashed /\ index' = index /\ pc' = pc /\ op' = op
  BY DEF LinearAdd, At
<1>2. /\ TypeOK /\ Whole(hashed, index, blocks) /\ Listing = Live(blocks)
      /\ \A u \in Thread : pc[u] \notin SplitPc /\ (pc[u] = "visit" => op[u].kind # "add")
  BY <1>1, WholeLinear DEF IInv
<1> DEFINE Bs(n) == IF Place(n) > Len(blocks) THEN Append(blocks, Cleared) ELSE blocks
<1>3. PICK n \in Name \ Listing :
        /\ blocks' = [Bs(n) EXCEPT ![Place(n)] = insert_entry(@, n)]
        /\ size' = IF Place(n) > Len(blocks) THEN size + 1 ELSE size
  BY DEF LinearAdd
<1> DEFINE i == Place(n)
           bs == Bs(n)
           R == {j \in DOMAIN blocks : Roomy(blocks[j], n) # {}}
<1>4. /\ blocks \in Seq(Blocks) /\ Tidy(blocks) /\ Len(blocks) \in Nat /\ DOMAIN blocks = 1 .. Len(blocks)
  BY <1>2, WholeIs DEF TypeOK, Whole
<1>5. n \in Name /\ Missing(blocks, n)
  BY <1>2, <1>3, MissingIs
<1>6. i \in R \/ i = Len(blocks) + 1
  <2>1. R \cup {Len(blocks) + 1} \subseteq Nat
    BY <1>4
  <2>2. i = Min(R \cup {Len(blocks) + 1})
    BY DEF Place
  <2> HIDE DEF R, i
  <2>3. QED
    BY <2>1, <2>2, MinIs
<1>7. /\ bs \in Seq(Blocks) /\ Tidy(bs) /\ i \in DOMAIN bs /\ Roomy(bs[i], n) # {}
      /\ (IF i > Len(blocks) THEN Len(bs) = Len(blocks) + 1 /\ bs = Append(blocks, Cleared) ELSE bs = blocks)
      /\ \A b \in DOMAIN bs : n \notin NamesIn(bs[b])
  <2>1. CASE i \in R
    <3>1. i \in 1 .. Len(blocks) /\ Roomy(blocks[i], n) # {}
      BY <1>4, <2>1
    <3>2. ~(i > Len(blocks))
      BY <1>4, <3>1
    <3>3. bs = blocks
      BY <3>2
    <3>4. QED
      BY <1>4, <1>5, <3>1, <3>2, <3>3 DEF Missing
  <2>2. CASE i = Len(blocks) + 1
    <3>1. i > Len(blocks)
      BY <1>4, <2>2
    <3>2. bs = Append(blocks, Cleared)
      BY <3>1
    <3> HIDE DEF i, bs
    <3>3. /\ bs \in Seq(Blocks) /\ Len(bs) = Len(blocks) + 1 /\ Tidy(bs)
          /\ \A b \in DOMAIN blocks : bs[b] = blocks[b]
          /\ bs[Len(blocks) + 1] = Cleared
      BY <1>4, <3>2, AppendTidy
    <3>4. DOMAIN bs = 1 .. Len(blocks) + 1
      BY <3>3, BlocksAre
    <3>5. Roomy(Cleared, n) # {} /\ NamesIn(Cleared) = {}
      BY <1>5, ClearedIs
    <3>6. \A b \in DOMAIN bs : b \in DOMAIN blocks \/ b = Len(blocks) + 1
      BY <1>4, <3>4
    <3>7. \A b \in DOMAIN bs : n \notin NamesIn(bs[b])
      BY <1>5, <3>3, <3>5, <3>6 DEF Missing
    <3>8. i \in DOMAIN bs
      BY <1>4, <2>2, <3>4
    <3>9. QED
      BY <2>2, <3>1, <3>2, <3>3, <3>5, <3>7, <3>8
  <2>3. QED
    BY <1>6, <2>1, <2>2
<1> HIDE DEF i, bs, Bs, R
<1>8. blocks' = [bs EXCEPT ![i] = insert_entry(bs[i], n)]
  BY <1>3, <1>7 DEF bs, i
<1>9. Places(bs, i, n)
  BY <1>5, <1>7 DEF Places
<1>10. size' = IF Len(bs) = Len(blocks) THEN size ELSE size + 1
  BY <1>3, <1>4, <1>7 DEF i
<1>11. QED
  BY <1>7, <1>8, <1>9, <1>10

\* Adding to a linear directory.
LEMMA LinearAddKeeps ==
    ASSUME IInv, NEW t \in Thread, LinearAdd(t)
    PROVE  IInv'
<1>0. PICK n \in Name \ Listing, bs \in Seq(Blocks) : \E i \in DOMAIN bs :
        /\ Places(bs, i, n) /\ blocks' = [bs EXCEPT ![i] = insert_entry(bs[i], n)]
        /\ size' = IF Len(bs) = Len(blocks) THEN size ELSE size + 1
  BY LinearPlace
<1>1. ~hashed /\ ~Halted /\ hashed' = hashed /\ index' = index /\ pc' = pc /\ op' = op
  BY DEF LinearAdd, At
<1>2. /\ TypeOK /\ \A u \in Thread : pc[u] \notin SplitPc /\ (pc[u] = "visit" => op[u].kind # "add")
  BY <1>1, WholeLinear DEF IInv
<1>3. PICK i \in DOMAIN bs :
        /\ Places(bs, i, n) /\ blocks' = [bs EXCEPT ![i] = insert_entry(bs[i], n)]
        /\ size' = IF Len(bs) = Len(blocks) THEN size ELSE size + 1
  BY <1>0
<1>4. size = Len(blocks) /\ Len(blocks) \in Nat
  BY <1>1, <1>2, BlocksAre DEF TypeOK
<1>5. bs \in Seq(Blocks) /\ Tidy(bs) /\ i \in DOMAIN bs /\ Roomy(bs[i], n) # {} /\ n \in Name
      /\ (\A b \in DOMAIN bs : n \notin NamesIn(bs[b])) /\ (Len(bs) = Len(blocks) \/ Len(bs) = Len(blocks) + 1)
  BY <1>3 DEF Places
<1> DEFINE c == insert_entry(bs[i], n)
<1>8. bs[i] \in Blocks /\ WellFormed(bs[i]) /\ Distinct(bs[i])
  BY <1>5, BlocksAre, UniqueIs DEF Tidy
<1>9. c \in Blocks /\ WellFormed(c) /\ Distinct(c) /\ NamesIn(c) = NamesIn(bs[i]) \cup {n}
  BY <1>5, <1>8, InsertIs
<1>10. blocks' = [bs EXCEPT ![i] = c]
  BY <1>3
<1> HIDE DEF c
<1>11. blocks' \in Seq(Blocks) /\ Len(blocks') = Len(bs) /\ Tidy(blocks')
  <2>1. /\ NamesIn(c) \cap Name \subseteq NamesIn(bs[i]) \cup {n}
        /\ \A b \in DOMAIN bs : n \in Name => n \notin NamesIn(bs[b])
    BY <1>5, <1>9
  <2>2. QED
    <3>1. /\ bs \in Seq(Blocks) /\ Tidy(bs) /\ i \in DOMAIN bs /\ c \in Blocks
          /\ WellFormed(c) /\ Distinct(c)
      BY <1>5, <1>9
    <3> HIDE DEF Blocks
    <3>2. QED
      BY <1>10, <2>1, <3>1, PutTidy
<1>12. TypeOK'
  <2>1. size' = Len(blocks') + (IF hashed' THEN 1 ELSE 0)
    <3>1. size' = Len(bs)
      BY <1>3, <1>4, <1>5
    <3>2. Len(blocks') = Len(bs) /\ ~hashed' /\ Len(blocks') \in Nat
      BY <1>1, <1>11, BlocksAre
    <3> HIDE DEF Blocks
    <3>3. QED
      BY <3>1, <3>2
  <2>2. QED
    BY <1>1, <1>2, <1>11, <2>1 DEF TypeOK
<1>13. \A u \in Thread : Fits(pc'[u], op'[u], hashed', index', blocks')
  <2> TAKE u \in Thread
  <2>1. Fits(pc[u], op[u], hashed, index, blocks)
    BY <1>1 DEF IInv
  <2>2. pc[u] \notin {"grow", "link", "putOld", "putNew"} /\ (pc[u] = "visit" => op[u].kind # "add")
    BY <1>2 DEF SplitPc
  <2>3. pc[u] = "visit" => Entered(op[u], hashed, index, blocks')
    BY <1>1, <2>1, <2>2 DEF Fits, Entered
  <2>4. Fits(pc[u], op[u], hashed, index, blocks')
    BY <2>2, <2>3 DEF Fits
  <2>5. QED
    BY <1>1, <2>4
<1>14. Alone'
  BY <1>1 DEF IInv, Alone
<1>15. Whole(hashed', index', blocks')
  BY <1>1, <1>11 DEF Whole
<1>16. QED
  BY <1>12, <1>13, <1>14, <1>15 DEF IInv

-----------------------------------------------------------------------------
(* The directory at the start.                                             *)

LEMMA FreshIs ==
    /\ Fresh.hashed = TRUE /\ Fresh.index \in Seq(Entry) /\ Fresh.blocks \in Seq(Blocks)
    /\ Whole(Fresh.hashed, Fresh.index, Fresh.blocks)
<1> DEFINE ix == <<[hash |-> 0, block |-> 1]>>
           bs == <<Cleared>>
<1>1. Fresh.hashed = TRUE /\ Fresh.index = ix /\ Fresh.blocks = bs
  BY DEF Fresh
<1>2. Cleared \in Blocks /\ WellFormed(Cleared) /\ Distinct(Cleared) /\ NamesIn(Cleared) = {}
  BY ClearedIs
<1>3. ix \in Seq(Entry) /\ Len(ix) = 1 /\ DOMAIN ix = {1} /\ ix[1].hash = 0 /\ ix[1].block = 1 /\ ix # <<>>
  BY DEF Entry
<1>4. bs \in Seq(Blocks) /\ Len(bs) = 1 /\ DOMAIN bs = {1} /\ bs[1] = Cleared
  <2> HIDE DEF Blocks, Cleared
  <2>1. QED
    BY <1>2
<1> HIDE DEF ix, bs
<1>5. Tidy(bs)
  <2>1. Separate(bs)
    BY <1>4 DEF Separate
  <2>2. QED
    BY <1>2, <1>4, <2>1, UniqueIs DEF Tidy
<1>6. Leads(ix, bs)
  <2>1. {ix[i].block : i \in DOMAIN ix} = DOMAIN bs
    BY <1>3, <1>4
  <2>2. \A i, j \in DOMAIN ix : i < j => ix[i].hash <= ix[j].hash
    BY <1>3
  <2>3. QED
    BY <1>2, <1>3, <1>4, <2>1, <2>2 DEF Leads
<1>7. QED
  BY <1>1, <1>3, <1>4, <1>5, <1>6 DEF Whole

LEMMA InitKeeps == Init => IInv
<1>1. SUFFICES ASSUME Init PROVE IInv
  OBVIOUS
<1>2. /\ hashed \in BOOLEAN /\ index \in Seq(Entry) /\ blocks \in Seq(Blocks)
      /\ Whole(hashed, index, blocks)
  <2>1. PICK f \in {Fresh} \cup Foreign : hashed = f.hashed /\ index = f.index /\ blocks = f.blocks
    BY <1>1 DEF Init
  <2>2. CASE f = Fresh
    BY <2>1, <2>2, FreshIs
  <2>3. CASE f \in Foreign
    BY <2>1, <2>3, ForeignAssumption DEF Whole, Tidy, Entry
  <2>4. QED
    BY <2>1, <2>2, <2>3
<1>3. pc = [u \in Thread |-> "idle"] /\ op = [u \in Thread |-> NoOp] /\ NoOp \in OpSet
      /\ size = Len(blocks) + (IF hashed THEN 1 ELSE 0)
  BY <1>1, ToldIs DEF Init
<1>4. TypeOK
  <2>1. pc \in [Thread -> PcSet] /\ op \in [Thread -> OpSet]
    <3>1. "idle" \in PcSet
      BY DEF PcSet
    <3> HIDE DEF PcSet, OpSet, NoOp
    <3>2. QED
      BY <1>3, <3>1
  <2>2. QED
    BY <1>2, <1>3, <2>1 DEF TypeOK
<1>5. \A u \in Thread : pc[u] = "idle"
  BY <1>3
<1>6. QED
  BY <1>2, <1>4, <1>5 DEF IInv, Fits, Alone, In

LEMMA NextKeeps == ASSUME IInv, Disciplined, [Next]_vars PROVE IInv'
<1>1. CASE UNCHANGED vars
  <2>1. /\ hashed' = hashed /\ index' = index /\ blocks' = blocks /\ size' = size
        /\ pc' = pc /\ op' = op
    BY <1>1 DEF vars, dirVars
  <2>2. TypeOK' /\ (Alone <=> Alone') /\ (Halted <=> Halted')
    BY <2>1 DEF IInv, TypeOK, Alone, Halted
  <2>3. QED
    BY <2>1, <2>2 DEF IInv
<1>2. CASE Next
  <2>1. PICK t \in Thread : Start(t) \/ LinearAdd(t) \/ Visit(t) \/ Split(t) \/ Forget(t)
    BY <1>2 DEF Next
  <2>2. CASE Start(t)
    BY <2>2, StartFindKeeps, StartRemoveKeeps, StartListKeeps, StartAddKeeps DEF Start
  <2>3. CASE LinearAdd(t)
    BY <2>3, LinearAddKeeps
  <2>4. CASE Visit(t)
    BY <2>4, FindInKeeps, RemoveInKeeps, ListInKeeps, AddInKeeps, EndOfCursorKeeps DEF Visit
  <2>5. CASE Split(t)
    BY <2>5, GatherKeeps, GrowKeeps, GrowFailsKeeps, LinkKeeps, PutOldKeeps, PutNewKeeps DEF Split
  <2>6. CASE Forget(t)
    BY <2>6, ForgetKeeps
  <2>7. QED
    BY <2>1, <2>2, <2>3, <2>4, <2>5, <2>6
<1>3. QED
  BY <1>1, <1>2

\* The invariant says what the runs check.
LEMMA InvIs ==
    ASSUME IInv
    PROVE  BlocksTiled /\ IndexSound
<1>1. TypeOK
  BY DEF IInv
<1>2. ASSUME ~Splitting PROVE Whole(hashed, index, blocks)
  BY <1>2 DEF IInv, Splitting, Halted
<1>3. BlocksTiled
  BY <1>1, <1>2 DEF BlocksTiled, NamesOnce, TypeOK, PcSet, Whole, Tidy
<1>4. IndexSound
  BY <1>2 DEF IndexSound, Whole
<1>5. QED
  BY <1>3, <1>4

LEMMA Always == Disciplined => (Spec => []IInv)
<1>1. SUFFICES ASSUME Disciplined PROVE Spec => []IInv
  OBVIOUS
<1>2. Init => IInv
  BY InitKeeps
<1>3. IInv /\ [Next]_vars => IInv'
  BY <1>1, NextKeeps
<1>4. QED
  BY <1>2, <1>3, PTL DEF Spec

\* The slots tile every block, no name is in two slots and i_size counts the blocks,
\* whatever the threads do in which order: what insert_entry cuts off, destroy gives
\* back, what split_data divides goes to blocks as tiled, and set_size follows the blocks.
THEOREM BlocksStayTiled == Disciplined => (Spec => []BlocksTiled)
<1>1. IInv => BlocksTiled
  BY InvIs
<1>2. QED
  BY <1>1, Always, PTL

\* The index stays sorted, has every block once, and leads from the hash of every name
\* to its block: what from_hash and next look for, split_data and insert_at leave, also
\* with names of one hash in several blocks.
THEOREM IndexStaysSound == Disciplined => (Spec => []IndexSound)
<1>1. IInv => IndexSound
  BY InvIs
<1>2. QED
  BY <1>1, Always, PTL

-----------------------------------------------------------------------------
(* The histories.                                                          *)

\* No two names have the same hash.
HashesApart == \A m, n \in Name : Hash[m] = Hash[n] => m = n

\* What the callers and the names are to be like for a directory to be a set of names:
\* without each of these the code loses names, or has one twice.
Promised == Disciplined /\ ShortNames /\ HashesApart /\ ~LinearLists

\* A walk for the name n that is at the position i meets the name still.
MetAhead(n, i, hd, ix, bs) ==
    IF hd THEN \E j \in Stops(ix, Hash[n]) : j >= i /\ n \in NamesIn(bs[ix[j].block])
    ELSE \E b \in DOMAIN bs : b >= i /\ n \in NamesIn(bs[b])

ListedAhead(n, i, ix, bs) == \E j \in DOMAIN ix : j >= i /\ n \in NamesIn(bs[ix[j].block])

\* What an operation has seen is what the history of its thread has.
Sees(o, a, e, hd, ix, bs) ==
    /\ o.kind \in {"find", "remove"} =>
        o.got = {} /\ (o.name \in a => MetAhead(o.name, o.at, hd, ix, bs))
    /\ o.kind = "list" =>
        hd /\ o.got \subseteq e /\ \A n \in a \ o.got : ListedAhead(n, o.at, ix, bs)

NamesOf(es) == {es[i] : i \in DOMAIN es}

\* The names of the block before it is divided, and the new one, are on their way to
\* the two halves.
Handed(p, o, bs) ==
    /\ Halves(o.names, o.cut, Filled(FirstHalf(o)), Filled(SecondHalf(o)))
    /\ o.name \in Name /\ o.name \notin o.before /\ o.before \subseteq Name
    /\ NamesOf(o.names) = o.before \cup {o.name}
    /\ o.block \in DOMAIN bs /\ o.new \in DOMAIN bs /\ o.block # o.new
    /\ bs[o.new] = <<>>
    /\ \A c \in DOMAIN bs \ {o.block, o.new} :
        \A m \in NamesIn(bs[c]) : m \notin o.before /\ m # o.name
    /\ p # "putNew" => NamesIn(bs[o.block]) = o.before
    /\ p = "putNew" => bs[o.block] = Filled(FirstHalf(o))

Recalls(t) ==
    /\ always[t] \subseteq Asked(t) \cap Listing /\ Asked(t) \cap Listing \subseteq ever[t]
    /\ ever[t] \subseteq Asked(t)
    /\ pc[t] = "visit" => Sees(op[t], always[t], ever[t], hashed, index, blocks)
    /\ pc[t] = "grow" => op[t].before = NamesIn(blocks[op[t].block])
    /\ pc[t] \in {"link", "putOld", "putNew"} => Handed(pc[t], op[t], blocks)

HInv ==
    /\ always = [t \in Thread |-> always[t]] /\ ever = [t \in Thread |-> ever[t]]
    /\ ~Halted => \A t \in Thread : Recalls(t)

-----------------------------------------------------------------------------
(* What the state of a thread says to NameMap.                             *)

Asks(p, o) ==
    IF p # "visit" \/ o.kind = "add" THEN {} ELSE IF o.kind = "list" THEN Name ELSE {o.name}
Tells(p, o) == IF p = "told" THEN o.got ELSE {}

AskMap == [u \in Thread |-> Asked(u)]
Told(u) == IF pc[u] = "told" THEN op[u].got ELSE {}
ToldMap == [u \in Thread |-> Told(u)]

LEMMA MapMoves ==
    ASSUME TypeOK, NEW t \in Thread, NEW p, NEW o, Moves(t, p, o)
    PROVE  /\ \A u \in Thread : Asked(u)' = IF u = t THEN Asks(p, o) ELSE Asked(u)
           /\ AskMap' = [AskMap EXCEPT ![t] = Asks(p, o)]
           /\ ToldMap' = [ToldMap EXCEPT ![t] = Tells(p, o)]
<1>1. /\ pc \in [Thread -> PcSet] /\ op \in [Thread -> OpSet]
      /\ pc' = [pc EXCEPT ![t] = p] /\ op' = [op EXCEPT ![t] = o]
  BY DEF TypeOK, Moves
<1>2. pc'[t] = p /\ op'[t] = o /\ \A u \in Thread : u # t => pc'[u] = pc[u] /\ op'[u] = op[u]
  <2> HIDE DEF PcSet, OpSet
  <2>1. QED
    BY <1>1
<1>3. ASSUME NEW u \in Thread PROVE Asked(u)' = IF u = t THEN Asks(p, o) ELSE Asked(u)
  BY <1>2 DEF Asked, Asks
<1>4. ASSUME NEW u \in Thread PROVE Told(u)' = IF u = t THEN Tells(p, o) ELSE Told(u)
  BY <1>2 DEF Told, Tells
<1>5. AskMap' = [u \in Thread |-> IF u = t THEN Asks(p, o) ELSE Asked(u)]
  BY <1>3 DEF AskMap
<1>6. ToldMap' = [u \in Thread |-> IF u = t THEN Tells(p, o) ELSE Told(u)]
  BY <1>4 DEF ToldMap
<1>7. AskMap' = [AskMap EXCEPT ![t] = Asks(p, o)]
  BY <1>5 DEF AskMap
<1>8. ToldMap' = [ToldMap EXCEPT ![t] = Tells(p, o)]
  BY <1>6 DEF ToldMap
<1>9. QED
  BY <1>3, <1>7, <1>8

\* What Witness makes of the histories.
LEMMA WitnessIs ==
    ASSUME TypeOK, HInv, ~Halted, Witness, NEW t \in Thread, NEW p, NEW o, Moves(t, p, o),
           Asks(p, o) \subseteq Name
    PROVE  /\ always' = [u \in Thread |->
                IF u # t THEN always[u] \cap Listing'
                ELSE IF Asked(t) = {} THEN Asks(p, o) \cap Listing'
                ELSE Asks(p, o) \cap always[t] \cap Listing']
           /\ ever' = [u \in Thread |->
                IF u # t THEN ever[u] \cup (Listing' \cap Asked(u))
                ELSE Asks(p, o) \cap (Listing' \cup ever[t])]
<1>1. /\ \A u \in Thread : Asked(u)' = IF u = t THEN Asks(p, o) ELSE Asked(u)
  BY MapMoves
<1>2. /\ always' = [u \in Thread |->
            Asked(u)' \cap Listing' \cap (IF Asked(u) = {} THEN Name ELSE always[u])]
      /\ ever' = [u \in Thread |-> Asked(u)' \cap (Listing' \cup ever[u])]
  BY DEF Witness
<1>3. \A u \in Thread : always[u] \subseteq Asked(u) /\ ever[u] \subseteq Asked(u)
  BY DEF HInv, Recalls
<1> DEFINE now == Listing'
<1> HIDE DEF now
<1>4. /\ always' = [u \in Thread |->
            Asked(u)' \cap now \cap (IF Asked(u) = {} THEN Name ELSE always[u])]
      /\ ever' = [u \in Thread |-> Asked(u)' \cap (now \cup ever[u])]
  BY <1>2 DEF now
<1>5. ASSUME NEW u \in Thread
      PROVE  Asked(u)' \cap now \cap (IF Asked(u) = {} THEN Name ELSE always[u])
             = IF u # t THEN always[u] \cap now
               ELSE IF Asked(t) = {} THEN Asks(p, o) \cap now ELSE Asks(p, o) \cap always[t] \cap now
  <2>1. CASE u = t
    BY <1>1, <2>1
  <2>2. CASE u # t
    <3>1. Asked(u)' = Asked(u)
      BY <1>1, <2>2
    <3>2. QED
      BY <1>3, <2>2, <3>1
  <2>3. QED
    BY <2>1, <2>2
<1>6. ASSUME NEW u \in Thread
      PROVE  Asked(u)' \cap (now \cup ever[u])
             = IF u # t THEN ever[u] \cup (now \cap Asked(u)) ELSE Asks(p, o) \cap (now \cup ever[t])
  <2>1. CASE u = t
    BY <1>1, <2>1
  <2>2. CASE u # t
    <3>1. Asked(u)' = Asked(u)
      BY <1>1, <2>2
    <3>2. QED
      BY <1>3, <2>2, <3>1
  <2>3. QED
    BY <2>1, <2>2
<1>7. QED
  BY <1>4, <1>5, <1>6 DEF now

\* A step of thread t that Witness records.
Recorded(t, p, o) ==
    /\ TypeOK /\ HInv /\ ~Halted /\ Witness /\ Moves(t, p, o) /\ hashed' = hashed
    /\ Asks(p, o) \subseteq Name

\* The histories of the others.
LEMMA OthersRecall ==
    ASSUME NEW t \in Thread, NEW p, NEW o, Recorded(t, p, o)
    PROVE  /\ \A u \in Thread : /\ always[u] \subseteq Asked(u) /\ always[u] \subseteq Listing
                                /\ Asked(u) \cap Listing \subseteq ever[u] /\ ever[u] \subseteq Asked(u)
           /\ always = [u \in Thread |-> always[u]] /\ ever = [u \in Thread |-> ever[u]]
           /\ AskMap = [u \in Thread |-> Asked(u)] /\ ToldMap = [u \in Thread |-> Told(u)]
BY DEF Recorded, HInv, Recalls, AskMap, ToldMap

\* A step NameMap does not see.
LEMMA MapStutters ==
    ASSUME NEW t \in Thread, NEW p, NEW o, Recorded(t, p, o), Listing' = Listing,
           Asks(p, o) = Asked(t), Tells(p, o) = Told(t)
    PROVE  UNCHANGED Map!vars
<1>1. /\ always' = [u \in Thread |->
            IF u # t THEN always[u] \cap Listing
            ELSE IF Asked(t) = {} THEN Asked(t) \cap Listing
            ELSE Asked(t) \cap always[t] \cap Listing]
      /\ ever' = [u \in Thread |->
            IF u # t THEN ever[u] \cup (Listing \cap Asked(u))
            ELSE Asked(t) \cap (Listing \cup ever[t])]
  BY WitnessIs DEF Recorded
<1>2. /\ \A u \in Thread : /\ always[u] \subseteq Asked(u) /\ always[u] \subseteq Listing
                           /\ Asked(u) \cap Listing \subseteq ever[u] /\ ever[u] \subseteq Asked(u)
      /\ always = [u \in Thread |-> always[u]] /\ ever = [u \in Thread |-> ever[u]]
      /\ AskMap = [u \in Thread |-> Asked(u)] /\ ToldMap = [u \in Thread |-> Told(u)]
  BY OthersRecall
<1>3. always' = always /\ ever' = ever
  <2>1. always' = [u \in Thread |-> always[u]]
    BY <1>1, <1>2
  <2>2. ever' = [u \in Thread |-> ever[u]]
    BY <1>1, <1>2
  <2>3. QED
    BY <1>2, <2>1, <2>2
<1>4. AskMap' = [AskMap EXCEPT ![t] = Asked(t)] /\ ToldMap' = [ToldMap EXCEPT ![t] = Told(t)]
  BY MapMoves DEF Recorded
<1>5. AskMap' = AskMap /\ ToldMap' = ToldMap
  BY <1>2, <1>4
<1>6. hashed' = hashed
  BY DEF Recorded
<1>7. QED
  BY <1>3, <1>5, <1>6 DEF Map!vars, AskMap, ToldMap, Told

\* A thread asks.
LEMMA MapAsks ==
    ASSUME NEW t \in Thread, NEW p, NEW o, Recorded(t, p, o), Listing' = Listing,
           Asked(t) = {}, Asks(p, o) \in {Name} \cup {{n} : n \in Name}, Tells(p, o) = {}
    PROVE  Map!Ask(t)
<1> DEFINE S == Asks(p, o)
<1> HIDE DEF S
<1>1. /\ always' = [u \in Thread |->
            IF u # t THEN always[u] \cap Listing ELSE S \cap Listing]
      /\ ever' = [u \in Thread |->
            IF u # t THEN ever[u] \cup (Listing \cap Asked(u)) ELSE S \cap (Listing \cup ever[t])]
  BY WitnessIs DEF Recorded, S
<1>2. /\ \A u \in Thread : /\ always[u] \subseteq Asked(u) /\ always[u] \subseteq Listing
                           /\ Asked(u) \cap Listing \subseteq ever[u] /\ ever[u] \subseteq Asked(u)
      /\ always = [u \in Thread |-> always[u]] /\ ever = [u \in Thread |-> ever[u]]
      /\ AskMap = [u \in Thread |-> Asked(u)] /\ ToldMap = [u \in Thread |-> Told(u)]
  BY OthersRecall
<1>3. always' = [always EXCEPT ![t] = Listing \cap S]
  <2>1. always' = [u \in Thread |-> IF u = t THEN Listing \cap S ELSE always[u]]
    BY <1>1, <1>2
  <2>2. QED
    BY <1>2, <2>1
<1>4. ever' = [ever EXCEPT ![t] = Listing \cap S]
  <2>1. ever' = [u \in Thread |-> IF u = t THEN Listing \cap S ELSE ever[u]]
    BY <1>1, <1>2
  <2>2. QED
    BY <1>2, <2>1
<1>5. AskMap' = [AskMap EXCEPT ![t] = S] /\ ToldMap' = [ToldMap EXCEPT ![t] = {}]
  BY MapMoves DEF Recorded, S
<1>6. hashed' = hashed /\ AskMap[t] = {} /\ S \in {Name} \cup {{n} : n \in Name}
  BY <1>2 DEF Recorded, S
<1>7. QED
  BY <1>3, <1>4, <1>5, <1>6 DEF Map!Ask, Map!Asking, AskMap, ToldMap, Told

\* A thread is told.
LEMMA MapTells ==
    ASSUME NEW t \in Thread, NEW p, NEW o, Recorded(t, p, o), Listing' = Listing,
           Asked(t) # {}, Asks(p, o) = {}, NEW S, Tells(p, o) = S, S \subseteq ever[t],
           always[t] \subseteq S
    PROVE  Map!Tell(t)
<1>1. /\ always' = [u \in Thread |-> IF u # t THEN always[u] \cap Listing ELSE {}]
      /\ ever' = [u \in Thread |-> IF u # t THEN ever[u] \cup (Listing \cap Asked(u)) ELSE {}]
  <2>1. /\ always' = [u \in Thread |->
              IF u # t THEN always[u] \cap Listing
              ELSE IF Asked(t) = {} THEN {} \cap Listing ELSE {} \cap always[t] \cap Listing]
        /\ ever' = [u \in Thread |->
              IF u # t THEN ever[u] \cup (Listing \cap Asked(u)) ELSE {} \cap (Listing \cup ever[t])]
    BY WitnessIs DEF Recorded
  <2>2. QED
    BY <2>1
<1>2. /\ \A u \in Thread : /\ always[u] \subseteq Asked(u) /\ always[u] \subseteq Listing
                           /\ Asked(u) \cap Listing \subseteq ever[u] /\ ever[u] \subseteq Asked(u)
      /\ always = [u \in Thread |-> always[u]] /\ ever = [u \in Thread |-> ever[u]]
      /\ AskMap = [u \in Thread |-> Asked(u)] /\ ToldMap = [u \in Thread |-> Told(u)]
  BY OthersRecall
<1>3. always' = [always EXCEPT ![t] = {}]
  <2>1. always' = [u \in Thread |-> IF u = t THEN {} ELSE always[u]]
    BY <1>1, <1>2
  <2>2. QED
    BY <1>2, <2>1
<1>4. ever' = [ever EXCEPT ![t] = {}]
  <2>1. ever' = [u \in Thread |-> IF u = t THEN {} ELSE ever[u]]
    BY <1>1, <1>2
  <2>2. QED
    BY <1>2, <2>1
<1>5. AskMap' = [AskMap EXCEPT ![t] = {}] /\ ToldMap' = [ToldMap EXCEPT ![t] = S]
  BY MapMoves DEF Recorded
<1>6. hashed' = hashed /\ AskMap[t] = Asked(t)
  BY <1>2 DEF Recorded
<1>7. Map!Told(t, S)
  BY <1>3, <1>4, <1>5, <1>6 DEF Map!Told, AskMap, ToldMap, Told
<1>8. Map!Asking(t)
  BY <1>6 DEF Map!Asking, AskMap
<1>9. QED
  BY <1>7, <1>8 DEF Map!Tell

\* A thread forgets what it was told.
LEMMA MapForgets ==
    ASSUME NEW t \in Thread, NEW p, NEW o, Recorded(t, p, o), Listing' = Listing,
           Asked(t) = {}, Asks(p, o) = {}, Tells(p, o) = {}
    PROVE  Map!Forget(t)
<1>1. /\ always' = [u \in Thread |-> IF u # t THEN always[u] \cap Listing ELSE {}]
      /\ ever' = [u \in Thread |-> IF u # t THEN ever[u] \cup (Listing \cap Asked(u)) ELSE {}]
  <2>1. /\ always' = [u \in Thread |->
              IF u # t THEN always[u] \cap Listing
              ELSE IF Asked(t) = {} THEN {} \cap Listing ELSE {} \cap always[t] \cap Listing]
        /\ ever' = [u \in Thread |->
              IF u # t THEN ever[u] \cup (Listing \cap Asked(u)) ELSE {} \cap (Listing \cup ever[t])]
    BY WitnessIs DEF Recorded
  <2>2. QED
    BY <2>1
<1>2. /\ \A u \in Thread : /\ always[u] \subseteq Asked(u) /\ always[u] \subseteq Listing
                           /\ Asked(u) \cap Listing \subseteq ever[u] /\ ever[u] \subseteq Asked(u)
      /\ always = [u \in Thread |-> always[u]] /\ ever = [u \in Thread |-> ever[u]]
      /\ AskMap = [u \in Thread |-> Asked(u)] /\ ToldMap = [u \in Thread |-> Told(u)]
  BY OthersRecall
<1>3. always' = always /\ ever' = ever
  <2>1. always' = [u \in Thread |-> always[u]]
    BY <1>1, <1>2
  <2>2. ever' = [u \in Thread |-> ever[u]]
    BY <1>1, <1>2
  <2>3. QED
    BY <1>2, <2>1, <2>2
<1>4. AskMap' = AskMap /\ ToldMap' = [ToldMap EXCEPT ![t] = {}] /\ hashed' = hashed /\ AskMap[t] = {}
  <2>1. AskMap' = [AskMap EXCEPT ![t] = {}] /\ ToldMap' = [ToldMap EXCEPT ![t] = {}]
    BY MapMoves DEF Recorded
  <2>2. QED
    BY <1>2, <2>1 DEF Recorded
<1>5. QED
  BY <1>3, <1>4 DEF Map!Forget, Map!Asking, AskMap, ToldMap, Told

\* A name comes.
LEMMA MapAdds ==
    ASSUME NEW t \in Thread, NEW p, NEW o, Recorded(t, p, o),
           Asked(t) = {}, Asks(p, o) = {}, Tells(p, o) = Told(t),
           NEW n, n \in Name, n \notin Listing, Listing' = Listing \cup {n}
    PROVE  \E m \in Name : Map!Add(m)
<1> DEFINE now == Listing'
<1> HIDE DEF now
<1>1. /\ always' = [u \in Thread |-> IF u # t THEN always[u] \cap now ELSE {}]
      /\ ever' = [u \in Thread |-> IF u # t THEN ever[u] \cup (now \cap Asked(u)) ELSE {}]
  <2>1. /\ always' = [u \in Thread |->
              IF u # t THEN always[u] \cap now
              ELSE IF Asked(t) = {} THEN {} \cap now ELSE {} \cap always[t] \cap now]
        /\ ever' = [u \in Thread |->
              IF u # t THEN ever[u] \cup (now \cap Asked(u)) ELSE {} \cap (now \cup ever[t])]
    BY WitnessIs DEF Recorded, now
  <2>2. QED
    BY <2>1
<1>2. /\ \A u \in Thread : /\ always[u] \subseteq Asked(u) /\ always[u] \subseteq Listing
                           /\ Asked(u) \cap Listing \subseteq ever[u] /\ ever[u] \subseteq Asked(u)
      /\ always = [u \in Thread |-> always[u]] /\ ever = [u \in Thread |-> ever[u]]
      /\ AskMap = [u \in Thread |-> Asked(u)] /\ ToldMap = [u \in Thread |-> Told(u)]
  BY OthersRecall
<1>3. always' = [u \in Thread |-> always[u] \cap now]
  BY <1>1, <1>2
<1>4. ever' = [u \in Thread |-> ever[u] \cup (now \cap AskMap[u])]
  BY <1>1, <1>2
<1>5. AskMap' = AskMap /\ ToldMap' = ToldMap /\ hashed' = hashed
  <2>1. AskMap' = [AskMap EXCEPT ![t] = {}] /\ ToldMap' = [ToldMap EXCEPT ![t] = Told(t)]
    BY MapMoves DEF Recorded
  <2>2. QED
    BY <1>2, <2>1 DEF Recorded
<1>6. Map!Witness
  BY <1>3, <1>4 DEF Map!Witness, AskMap, now
<1>7. Map!Add(n)
  BY <1>5, <1>6 DEF Map!Add, AskMap, ToldMap, Told
<1>8. QED
  BY <1>7

\* A name goes, and the thread that took it out is told.
LEMMA MapRemoves ==
    ASSUME NEW t \in Thread, NEW p, NEW o, Recorded(t, p, o),
           NEW n, n \in Listing, Asked(t) = {n}, Asks(p, o) = {}, Tells(p, o) = {n},
           Listing' = Listing \ {n}
    PROVE  Map!Remove(t)
<1> DEFINE now == Listing'
<1> HIDE DEF now
<1>1. /\ always' = [u \in Thread |-> IF u # t THEN always[u] \cap now ELSE {}]
      /\ ever' = [u \in Thread |-> IF u # t THEN ever[u] \cup (now \cap Asked(u)) ELSE {}]
  <2>1. /\ always' = [u \in Thread |->
              IF u # t THEN always[u] \cap now
              ELSE IF Asked(t) = {} THEN {} \cap now ELSE {} \cap always[t] \cap now]
        /\ ever' = [u \in Thread |->
              IF u # t THEN ever[u] \cup (now \cap Asked(u)) ELSE {} \cap (now \cup ever[t])]
    BY WitnessIs DEF Recorded, now
  <2>2. QED
    BY <2>1
<1>2. /\ \A u \in Thread : /\ always[u] \subseteq Asked(u) /\ always[u] \subseteq Listing
                           /\ Asked(u) \cap Listing \subseteq ever[u] /\ ever[u] \subseteq Asked(u)
      /\ always = [u \in Thread |-> always[u]] /\ ever = [u \in Thread |-> ever[u]]
      /\ AskMap = [u \in Thread |-> Asked(u)] /\ ToldMap = [u \in Thread |-> Told(u)]
  BY OthersRecall
<1>3. now = Listing \ {n}
  BY DEF now
<1>4. always' = [u \in Thread |-> IF u = t THEN {} ELSE always[u] \cap now]
  BY <1>1
<1>5. ever' = [ever EXCEPT ![t] = {}]
  <2>1. ever' = [u \in Thread |-> IF u = t THEN {} ELSE ever[u]]
    BY <1>1, <1>2, <1>3
  <2>2. QED
    BY <1>2, <2>1
<1>6. AskMap' = [AskMap EXCEPT ![t] = {}] /\ ToldMap' = [ToldMap EXCEPT ![t] = {n}]
      /\ hashed' = hashed /\ AskMap[t] = {n}
  <2>1. AskMap' = [AskMap EXCEPT ![t] = {}] /\ ToldMap' = [ToldMap EXCEPT ![t] = {n}]
    BY MapMoves DEF Recorded
  <2>2. QED
    BY <1>2, <2>1 DEF Recorded
<1>7. QED
  BY <1>4, <1>5, <1>6 DEF Map!Remove, AskMap, ToldMap, Told, now

-----------------------------------------------------------------------------
(* What the others have seen.                                              *)

OthersSee(t) ==
    \A u \in Others(t) : In(pc[u]) =>
        /\ pc[u] = "visit" => Sees(op[u], always'[u], ever'[u], hashed', index', blocks')
        /\ pc[u] = "grow" => op[u].before = NamesIn(blocks'[op[u].block])
        /\ pc[u] \in {"link", "putOld", "putNew"} => Handed(pc[u], op[u], blocks')

LEMMA HistoriesMoved ==
    ASSUME IInv, NEW t \in Thread, NEW p, NEW o, Recorded(t, p, o),
           p # "panic" =>
               /\ p = "visit" => Sees(o, always'[t], ever'[t], hashed', index', blocks')
               /\ p = "grow" => o.before = NamesIn(blocks'[o.block])
               /\ p \in {"link", "putOld", "putNew"} => Handed(p, o, blocks')
               /\ OthersSee(t)
    PROVE  HInv'
<1>1. /\ pc \in [Thread -> PcSet] /\ op \in [Thread -> OpSet]
      /\ pc' = [pc EXCEPT ![t] = p] /\ op' = [op EXCEPT ![t] = o]
  BY DEF Recorded, TypeOK, Moves
<1>2. pc'[t] = p /\ op'[t] = o /\ \A u \in Thread : u # t => pc'[u] = pc[u] /\ op'[u] = op[u]
  <2> HIDE DEF PcSet, OpSet
  <2>1. QED
    BY <1>1
<1>3. /\ always' = [u \in Thread |->
            Asked(u)' \cap Listing' \cap (IF Asked(u) = {} THEN Name ELSE always[u])]
      /\ ever' = [u \in Thread |-> Asked(u)' \cap (Listing' \cup ever[u])]
  BY DEF Recorded, Witness
<1> DEFINE now == Listing'
<1> HIDE DEF now
<1>4. \A u \in Thread : /\ always'[u] \subseteq Asked(u)' \cap now
                        /\ Asked(u)' \cap now \subseteq ever'[u] /\ ever'[u] \subseteq Asked(u)'
  BY <1>3 DEF now
<1>5. always' = [u \in Thread |-> always'[u]] /\ ever' = [u \in Thread |-> ever'[u]]
  BY <1>3
<1>6. ASSUME ~Halted', NEW u \in Thread
      PROVE  /\ pc'[u] = "visit" => Sees(op'[u], always'[u], ever'[u], hashed', index', blocks')
             /\ pc'[u] = "grow" => op'[u].before = NamesIn(blocks'[op'[u].block])
             /\ pc'[u] \in {"link", "putOld", "putNew"} => Handed(pc'[u], op'[u], blocks')
  <2>1. p # "panic"
    BY <1>2, <1>6 DEF Halted
  <2>2. CASE u = t
    BY <1>2, <2>1, <2>2
  <2>3. CASE u # t
    BY <1>2, <2>1, <2>3 DEF OthersSee, Others, In
  <2>4. QED
    BY <2>2, <2>3
<1>7. ~Halted' => \A u \in Thread : Recalls(u)'
  BY <1>4, <1>6 DEF Recalls, now
<1>8. QED
  BY <1>5, <1>7 DEF HInv

LEMMA AloneSee ==
    ASSUME NEW t, \A u \in Others(t) : ~In(pc[u])
    PROVE  OthersSee(t)
BY DEF OthersSee

\* The names of bs that are in the set now are where they were.
StillThere(bs, cs, now) ==
    \A b \in DOMAIN bs : b \in DOMAIN cs /\ \A n \in NamesIn(bs[b]) : n \in now => n \in NamesIn(cs[b])

LEMMA SeesStill ==
    ASSUME NEW o, NEW a, NEW e, NEW hd, NEW ix, NEW bs, Sees(o, a, e, hd, ix, bs),
           NEW cs, NEW now, StillThere(bs, cs, now), NEW d, d = a \cap now,
           NEW f, e \subseteq f, hd => \A j \in DOMAIN ix : ix[j].block \in DOMAIN bs
    PROVE  Sees(o, d, f, hd, ix, cs)
<1>1. ASSUME NEW n, n \in now, NEW i, MetAhead(n, i, hd, ix, bs) PROVE MetAhead(n, i, hd, ix, cs)
  <2>1. CASE hd
    <3>1. PICK j \in Stops(ix, Hash[n]) : j >= i /\ n \in NamesIn(bs[ix[j].block])
      BY <1>1, <2>1 DEF MetAhead
    <3>2. ix[j].block \in DOMAIN bs
      BY <2>1, <3>1 DEF Stops
    <3>3. n \in NamesIn(cs[ix[j].block])
      BY <1>1, <3>1, <3>2 DEF StillThere
    <3>4. QED
      BY <2>1, <3>1, <3>3 DEF MetAhead
  <2>2. CASE ~hd
    BY <1>1, <2>2 DEF MetAhead, StillThere
  <2>3. QED
    BY <2>1, <2>2
<1>2. ASSUME NEW n, n \in now, NEW i, hd, ListedAhead(n, i, ix, bs) PROVE ListedAhead(n, i, ix, cs)
  <2>1. PICK j \in DOMAIN ix : j >= i /\ n \in NamesIn(bs[ix[j].block])
    BY <1>2 DEF ListedAhead
  <2>2. n \in NamesIn(cs[ix[j].block])
    BY <1>2, <2>1 DEF StillThere
  <2>3. QED
    BY <2>1, <2>2 DEF ListedAhead
<1>3. QED
  BY <1>1, <1>2 DEF Sees

LEMMA SeeStill ==
    ASSUME IInv, NEW t \in Thread, NEW p, NEW o, Recorded(t, p, o), index' = index,
           StillThere(blocks, blocks', Listing'),
           \A u \in Others(t) : pc[u] \notin SplitPc
    PROVE  OthersSee(t)
<1>1. SUFFICES ASSUME NEW u \in Thread, u # t, pc[u] = "visit"
               PROVE  Sees(op[u], always'[u], ever'[u], hashed', index', blocks')
  BY DEF OthersSee, Others, SplitPc
<1>2. ~Halted /\ hashed' = hashed
  BY DEF Recorded
<1>3. Sees(op[u], always[u], ever[u], hashed, index, blocks)
  BY <1>1, <1>2 DEF Recorded, HInv, Recalls
<1>4. always'[u] = always[u] \cap Listing' /\ ever[u] \subseteq ever'[u]
  <2>1. /\ always' = [v \in Thread |->
              IF v # t THEN always[v] \cap Listing'
              ELSE IF Asked(t) = {} THEN Asks(p, o) \cap Listing'
              ELSE Asks(p, o) \cap always[t] \cap Listing']
        /\ ever' = [v \in Thread |->
              IF v # t THEN ever[v] \cup (Listing' \cap Asked(v))
              ELSE Asks(p, o) \cap (Listing' \cup ever[t])]
    BY WitnessIs DEF Recorded
  <2> DEFINE now == Listing'
  <2> HIDE DEF now
  <2>2. always'[u] = always[u] \cap now /\ ever'[u] = ever[u] \cup (now \cap Asked(u))
    BY <1>1, <2>1 DEF now
  <2>3. QED
    BY <2>2 DEF now
<1>5. hashed => \A j \in DOMAIN index : index[j].block \in DOMAIN blocks
  <2>1. TypeOK /\ Whole(hashed, index, blocks)
    BY <1>1, <1>2, WholeSeen DEF IInv
  <2>2. QED
    BY <2>1, WholeIs, SortedIs
<1>6. QED
  BY <1>2, <1>3, <1>4, <1>5, SeesStill

\* A step that leaves the directory alone.
LEMMA SeeSame ==
    ASSUME IInv, NEW t \in Thread, NEW p, NEW o, Recorded(t, p, o), UNCHANGED dirVars,
           Listing' = Listing
    PROVE  OthersSee(t)
<1>1. hashed' = hashed /\ index' = index /\ blocks' = blocks
  BY DEF dirVars
<1>2. StillThere(blocks, blocks', Listing')
  BY <1>1 DEF StillThere
<1>3. ~Halted
  BY DEF Recorded
<1>4. CASE \A u \in Others(t) : pc[u] \notin SplitPc
  BY <1>1, <1>2, <1>4, SeeStill
<1>5. CASE \E u \in Others(t) : pc[u] \in SplitPc
  <2>1. PICK u \in Others(t) : pc[u] \in SplitPc
    BY <1>5
  <2>2. u \in Thread /\ \A v \in Others(u) : ~In(pc[v])
    BY <1>3, <2>1, SplitsAlone DEF Others
  <2>3. SUFFICES ASSUME NEW v \in Others(t), In(pc[v])
                 PROVE  /\ pc[v] = "visit" => FALSE
                        /\ pc[v] = "grow" => op[v].before = NamesIn(blocks'[op[v].block])
                        /\ pc[v] \in {"link", "putOld", "putNew"} => Handed(pc[v], op[v], blocks')
    BY DEF OthersSee
  <2>4. v = u
    BY <2>2, <2>3 DEF Others
  <2>5. Recalls(v)
    BY <1>3, <2>2, <2>4 DEF Recorded, HInv
  <2>6. QED
    BY <1>1, <2>1, <2>4, <2>5 DEF Recalls, SplitPc
<1>6. QED
  BY <1>4, <1>5

-----------------------------------------------------------------------------
(* What is listed.                                                         *)

LEMMA LiveIs ==
    ASSUME NEW bs, NEW m
    PROVE  m \in Live(bs) <=> m \in Name /\ \E b \in DOMAIN bs : m \in NamesIn(bs[b])
BY DEF Live

LEMMA ListingIs ==
    ASSUME \A u \in Thread : pc[u] # "putNew"
    PROVE  Listing = Live(blocks)
BY DEF Listing

LEMMA ListingPut ==
    ASSUME NEW t \in Thread, pc[t] = "putNew", \A u \in Others(t) : pc[u] # "putNew"
    PROVE  Listing = (Live(blocks) \ {op[t].name}) \cup op[t].before
<1>1. (CHOOSE u \in Thread : pc[u] = "putNew") = t
  BY DEF Others
<1>2. QED
  BY <1>1 DEF Listing

\* Of a step.
LEMMA ListingMoved ==
    ASSUME TypeOK, NEW t \in Thread, NEW p, NEW o, Moves(t, p, o),
           \A u \in Others(t) : pc[u] # "putNew"
    PROVE  /\ p # "putNew" => Listing' = Live(blocks')
           /\ p = "putNew" => Listing' = (Live(blocks') \ {o.name}) \cup o.before
<1>1. /\ pc \in [Thread -> PcSet] /\ op \in [Thread -> OpSet]
      /\ pc' = [pc EXCEPT ![t] = p] /\ op' = [op EXCEPT ![t] = o]
  BY DEF TypeOK, Moves
<1>2. pc'[t] = p /\ op'[t] = o /\ \A u \in Thread : u # t => pc'[u] = pc[u] /\ op'[u] = op[u]
  <2> HIDE DEF PcSet, OpSet
  <2>1. QED
    BY <1>1
<1>3. ASSUME p # "putNew" PROVE Listing' = Live(blocks')
  <2>1. \A u \in Thread : pc'[u] # "putNew"
    BY <1>2, <1>3 DEF Others
  <2>2. QED
    BY <2>1 DEF Listing, Live
<1>4. ASSUME p = "putNew" PROVE Listing' = (Live(blocks') \ {o.name}) \cup o.before
  <2>1. (CHOOSE u \in Thread : pc'[u] = "putNew") = t
    BY <1>2, <1>4 DEF Others
  <2>2. \E u \in Thread : pc'[u] = "putNew"
    BY <1>2, <1>4
  <2>3. QED
    BY <1>2, <2>1, <2>2 DEF Listing, Live
<1>5. QED
  BY <1>3, <1>4

\* A step of a thread that is let in, or visits the blocks, and leaves the directory alone.
LEMMA ListingStays ==
    ASSUME TypeOK, NEW t \in Thread, NEW p, NEW o, Moves(t, p, o), UNCHANGED dirVars,
           \A u \in Thread : pc[u] # "putNew", p # "putNew"
    PROVE  Listing' = Listing /\ Listing = Live(blocks)
<1>1. blocks' = blocks
  BY DEF dirVars
<1>2. Listing' = Live(blocks')
  BY ListingMoved DEF Others
<1>3. QED
  BY <1>1, <1>2, ListingIs

LEMMA NonePuts ==
    ASSUME IInv, ~Halted, NEW t \in Thread, pc[t] \in {"visit", "grow", "link", "putOld"}
    PROVE  /\ \A u \in Thread : pc[u] # "putNew"
           /\ \A u \in Others(t) : pc[u] \notin SplitPc
<1>1. ASSUME NEW u \in Others(t), pc[u] \in SplitPc PROVE FALSE
  <2>1. u \in Thread /\ t \in Others(u) /\ In(pc[t])
    BY DEF Others, In
  <2>2. QED
    BY <1>1, <2>1, SplitsAlone
<1>2. \A u \in Thread : u # t => u \in Others(t)
  BY DEF Others
<1>3. QED
  BY <1>1, <1>2 DEF SplitPc

-----------------------------------------------------------------------------
(* Steps that leave the directory alone.                                   *)

LEMMA QuietIs ==
    ASSUME IInv, HInv, ~Halted, NEW t \in Thread, NEW p, NEW o, Moves(t, p, o), UNCHANGED dirVars,
           Witness, Asks(p, o) \subseteq Name, \A u \in Thread : pc[u] # "putNew", p # "putNew"
    PROVE  /\ Recorded(t, p, o) /\ Listing' = Listing /\ Listing = Live(blocks) /\ OthersSee(t)
           /\ hashed' = hashed /\ index' = index /\ blocks' = blocks
           /\ always'[t] = IF Asked(t) = {} THEN Asks(p, o) \cap Listing
                           ELSE Asks(p, o) \cap always[t] \cap Listing
           /\ ever'[t] = Asks(p, o) \cap (Listing \cup ever[t])
<1>1. hashed' = hashed /\ index' = index /\ blocks' = blocks /\ TypeOK
  BY DEF dirVars, IInv
<1>2. Recorded(t, p, o)
  BY <1>1 DEF Recorded
<1>3. Listing' = Listing /\ Listing = Live(blocks)
  BY <1>1, ListingStays
<1>4. OthersSee(t)
  BY <1>2, <1>3, SeeSame
<1>5. /\ always' = [u \in Thread |->
              IF u # t THEN always[u] \cap Listing'
              ELSE IF Asked(t) = {} THEN Asks(p, o) \cap Listing'
              ELSE Asks(p, o) \cap always[t] \cap Listing']
      /\ ever' = [u \in Thread |->
              IF u # t THEN ever[u] \cup (Listing' \cap Asked(u))
              ELSE Asks(p, o) \cap (Listing' \cup ever[t])]
  BY <1>1, WitnessIs
<1> DEFINE now == Listing'
<1> HIDE DEF now
<1>6. /\ always'[t] = IF Asked(t) = {} THEN Asks(p, o) \cap now ELSE Asks(p, o) \cap always[t] \cap now
      /\ ever'[t] = Asks(p, o) \cap (now \cup ever[t])
  BY <1>5 DEF now
<1>7. now = Listing
  BY <1>3 DEF now
<1>8. QED
  BY <1>1, <1>2, <1>3, <1>4, <1>6, <1>7

\* What the history of a thread is before its step.
LEMMA HistoryIs ==
    ASSUME HInv, ~Halted, NEW t \in Thread
    PROVE  /\ always[t] \subseteq Asked(t) /\ always[t] \subseteq Listing
           /\ Asked(t) \cap Listing \subseteq ever[t] /\ ever[t] \subseteq Asked(t)
           /\ pc[t] = "visit" => Sees(op[t], always[t], ever[t], hashed, index, blocks)
BY DEF HInv, Recalls

LEMMA AskIs == ASSUME NEW t \in Thread, Map!Ask(t) PROVE Map!Next
BY DEF Map!Next
LEMMA TellIs == ASSUME NEW t \in Thread, Map!Tell(t) PROVE Map!Next
BY DEF Map!Next
LEMMA RemoveIs == ASSUME NEW t \in Thread, Map!Remove(t) PROVE Map!Next
BY DEF Map!Next
LEMMA ForgetIs == ASSUME NEW t \in Thread, Map!Forget(t) PROVE Map!Next
BY DEF Map!Next
LEMMA AddIs == ASSUME NEW t \in Thread, \E m \in Name : Map!Add(m) PROVE Map!Next
BY DEF Map!Next

\* A name of a whole directory is met by a walk from the start.
LEMMA MetFromStart ==
    ASSUME IInv, Whole(hashed, index, blocks), NEW n \in Name, n \in Live(blocks)
    PROVE  /\ MetAhead(n, First(n), hashed, index, blocks)
           /\ hashed => ListedAhead(n, 1, index, blocks)
<1>1. PICK b \in DOMAIN blocks : n \in NamesIn(blocks[b])
  BY LiveIs
<1>2. CASE hashed
  <2>1. Leads(index, blocks) /\ Sorted(index) /\ Hash[n] \in Nat
    BY <1>2, WholeIs, HashIs DEF IInv, Whole
  <2>2. b \in Chain(index, Hash[n])
    BY <1>1, <2>1 DEF Leads
  <2>3. PICK j \in Stops(index, Hash[n]) : index[j].block = b
    BY <2>2 DEF Chain
  <2>4. j \in 1 .. Len(index) /\ j >= from_hash(index, Hash[n]) /\ j \in DOMAIN index
    BY <2>1, <2>3, StopsWalk, SortedIs
  <2>5. j >= 1
    BY <2>1, <2>4, SortedIs
  <2>6. First(n) = from_hash(index, Hash[n])
    BY <1>2 DEF First
  <2>7. QED
    BY <1>1, <1>2, <2>3, <2>4, <2>5, <2>6 DEF MetAhead, ListedAhead
<1>3. CASE ~hashed
  <2>1. First(n) = 1 /\ b \in 1 .. Len(blocks) /\ Len(blocks) \in Nat
    BY <1>1, <1>3, WholeIs DEF First, IInv
  <2>2. b >= First(n)
    BY <2>1
  <2>3. QED
    BY <1>1, <1>3, <2>2 DEF MetAhead
<1>4. QED
  BY <1>2, <1>3

-----------------------------------------------------------------------------
(* Threads that ask.                                                       *)

LEMMA EntersAsking ==
    ASSUME IInv, HInv, Disciplined, NEW t \in Thread, At(t, "idle"), MayEnter(t), UNCHANGED dirVars,
           Witness, NEW o \in OpSet, Enter(t, o), o.got = {},
           \/ o.kind \in {"find", "remove"} /\ o.name \in Name /\ o.at = First(o.name)
           \/ o.kind = "list" /\ o.at = 1 /\ hashed
    PROVE  HInv' /\ Map!Next
<1>1. pc[t] = "idle" /\ ~Halted
  BY DEF At
<1>2. Whole(hashed, index, blocks) /\ \A u \in Thread : pc[u] # "putNew"
  BY <1>1, WholeEntered DEF SplitPc
<1>3. Moves(t, "visit", o)
  BY EnterMoves
<1>4. /\ Asked(t) = {} /\ Tells("visit", o) = {}
      /\ Asks("visit", o) = IF o.kind = "list" THEN Name ELSE {o.name}
      /\ Asks("visit", o) \in {Name} \cup {{n} : n \in Name} /\ Asks("visit", o) \subseteq Name
  BY <1>1 DEF Asked, Asks, Tells
<1>5. /\ Recorded(t, "visit", o) /\ Listing' = Listing /\ Listing = Live(blocks) /\ OthersSee(t)
      /\ hashed' = hashed /\ index' = index /\ blocks' = blocks
      /\ always'[t] = Asks("visit", o) \cap Listing
  BY <1>1, <1>2, <1>3, <1>4, QuietIs
<1>6. Map!Next
  BY <1>4, <1>5, MapAsks, AskIs
<1>7. \A n \in always'[t] : n \in Name /\ n \in Live(blocks)
  BY <1>4, <1>5
<1>8. Sees(o, always'[t], ever'[t], hashed, index, blocks)
  <2>1. \A n \in always'[t] : /\ MetAhead(n, First(n), hashed, index, blocks)
                              /\ hashed => ListedAhead(n, 1, index, blocks)
    BY <1>2, <1>7, MetFromStart
  <2>2. QED
    BY <2>1 DEF Sees
<1>9. HInv'
  BY <1>5, <1>8, HistoriesMoved
<1>10. QED
  BY <1>6, <1>9

LEMMA StartsMap ==
    ASSUME IInv, HInv, Promised, NEW t \in Thread, StartFind(t) \/ StartRemove(t) \/ StartList(t)
    PROVE  HInv' /\ Map!Next
<1>1. /\ At(t, "idle") /\ MayEnter(t) /\ UNCHANGED dirVars /\ Witness /\ pc[t] = "idle" /\ ~Halted
      /\ Disciplined
  BY DEF StartFind, StartRemove, StartList, At, Promised
<1>2. Whole(hashed, index, blocks)
  BY <1>1, WholeEntered
<1>3. ASSUME NEW k \in {"find", "remove"}, NEW n \in Name, Enter(t, Op(k, n, First(n)))
      PROVE  HInv' /\ Map!Next
  <2> DEFINE o == Op(k, n, First(n))
  <2>1. First(n) \in Nat
    BY <1>2, FirstIs
  <2>2. o \in OpSet /\ o.kind = k /\ o.name = n /\ o.at = First(n) /\ o.got = {}
    BY <2>1 DEF Op, OpSet
  <2>3. Enter(t, o)
    BY <1>3
  <2> HIDE DEF o
  <2>4. o.kind \in {"find", "remove"} /\ o.name \in Name /\ o.at = First(o.name)
    BY <2>2
  <2>5. QED
    BY <1>1, <2>2, <2>3, <2>4, EntersAsking
<1>4. ASSUME Enter(t, Op("list", Free, 1)), hashed PROVE HInv' /\ Map!Next
  <2> DEFINE o == Op("list", Free, 1)
  <2>1. o \in OpSet /\ o.kind = "list" /\ o.at = 1 /\ o.got = {}
    BY DEF Op, OpSet
  <2>2. Enter(t, o)
    BY <1>4
  <2> HIDE DEF o
  <2>3. QED
    BY <1>1, <1>4, <2>1, <2>2, EntersAsking
<1>5. CASE StartFind(t)
  BY <1>3, <1>5 DEF StartFind
<1>6. CASE StartRemove(t)
  BY <1>3, <1>6 DEF StartRemove
<1>7. CASE StartList(t)
  BY <1>4, <1>7 DEF StartList, Promised
<1>8. QED
  BY <1>5, <1>6, <1>7

\* A thread that is to add a name asks for none.
LEMMA StartAddMaps ==
    ASSUME IInv, HInv, Disciplined, NEW t \in Thread, StartAdd(t)
    PROVE  HInv' /\ UNCHANGED Map!vars
<1>1. pc[t] = "idle" /\ ~Halted /\ MayEnter(t) /\ UNCHANGED dirVars /\ hashed /\ Witness
  BY DEF StartAdd, At
<1>2. PICK n \in Name \ Listing :
        op' = [op EXCEPT ![t] = [Op("add", n, First(n)) EXCEPT !.splits = Splits(n)]]
  BY DEF StartAdd
<1>3. PICK p \in {"panic", "visit"} : pc' = [pc EXCEPT ![t] = p]
  BY DEF StartAdd
<1> DEFINE o == [Op("add", n, First(n)) EXCEPT !.splits = Splits(n)]
<1>4. Whole(hashed, index, blocks) /\ \A u \in Thread : pc[u] # "putNew"
  BY <1>1, WholeEntered DEF SplitPc
<1>5. First(n) \in Nat /\ First(n) >= 1
  BY <1>2, <1>4, FirstIs
<1>6. Splits(n) \in BOOLEAN
  BY <1>1 DEF Splits
<1>7. o \in OpSet /\ o.kind = "add"
  <2> DEFINE a == Op("add", n, First(n))
  <2>1. a \in OpSet /\ a.kind = "add"
    BY <1>2, <1>5 DEF Op, OpSet
  <2>2. o = [a EXCEPT !.splits = Splits(n)]
    OBVIOUS
  <2> HIDE DEF a, o
  <2>3. QED
    BY <1>6, <2>1, <2>2 DEF OpSet
<1>8. op' = [op EXCEPT ![t] = o]
  BY <1>2
<1> HIDE DEF o
<1>9. Moves(t, p, o)
  BY <1>3, <1>7, <1>8 DEF Moves, PcSet
<1>10. Asks(p, o) = {} /\ Tells(p, o) = {} /\ Asked(t) = {} /\ Told(t) = {}
  BY <1>1, <1>7 DEF Asks, Tells, Asked, Told
<1>11. Recorded(t, p, o) /\ Listing' = Listing /\ OthersSee(t)
  BY <1>1, <1>4, <1>9, <1>10, QuietIs
<1>12. UNCHANGED Map!vars
  BY <1>10, <1>11, MapStutters
<1>13. Sees(o, always'[t], ever'[t], hashed', index', blocks')
  BY <1>7 DEF Sees
<1>14. HInv'
  BY <1>3, <1>11, <1>13, HistoriesMoved
<1>15. QED
  BY <1>12, <1>14

-----------------------------------------------------------------------------
(* Threads on their way.                                                   *)

\* How an operation ends.
LEMMA FinishTells ==
    ASSUME NEW t \in Thread, NEW S \in SUBSET Name, Finish(t, S)
    PROVE  \E p \in {"idle", "told"} : \E o \in OpSet :
               Moves(t, p, o) /\ Asks(p, o) = {} /\ Tells(p, o) = S
<1> DEFINE o == [NoOp EXCEPT !.got = S]
           p == IF S = {} THEN "idle" ELSE "told"
<1>1. o \in OpSet
  BY ToldIs
<1>2. o.got = S
  BY DEF NoOp, Op
<1>3. Asks(p, o) = {} /\ Tells(p, o) = S
  BY <1>2 DEF Asks, Tells
<1>4. pc' = [pc EXCEPT ![t] = p] /\ op' = [op EXCEPT ![t] = o]
  BY DEF Finish
<1>5. p \in {"idle", "told"}
  OBVIOUS
<1> HIDE DEF o, p
<1>6. Moves(t, p, o)
  BY <1>1, <1>4, <1>5 DEF Moves, PcSet
<1>7. QED
  BY <1>1, <1>3, <1>5, <1>6

\* A thread is told what it has seen, and the directory stays.
LEMMA FinishMaps ==
    ASSUME IInv, HInv, ~Halted, NEW t \in Thread, pc[t] = "visit", op[t].kind # "add",
           NEW S \in SUBSET Name, Finish(t, S), UNCHANGED dirVars, Witness, S \subseteq ever[t],
           always[t] \subseteq S
    PROVE  HInv' /\ Map!Next
<1>1. PICK p \in {"idle", "told"}, o \in OpSet :
        Moves(t, p, o) /\ Asks(p, o) = {} /\ Tells(p, o) = S
  BY FinishTells
<1>2. \A u \in Thread : pc[u] # "putNew"
  BY NonePuts
<1>3. Recorded(t, p, o) /\ Listing' = Listing /\ OthersSee(t)
  BY <1>1, <1>2, QuietIs
<1>4. Entered(op[t], hashed, index, blocks)
  BY DEF IInv, Fits
<1>5. Asked(t) = IF op[t].kind = "list" THEN Name ELSE {op[t].name}
  BY DEF Asked
<1>6. Asked(t) # {}
  BY <1>5, NamesAssumption
<1>7. Map!Tell(t)
  BY <1>1, <1>3, <1>6, MapTells
<1>8. HInv'
  BY <1>1, <1>3, HistoriesMoved
<1>9. QED
  BY <1>7, <1>8, TellIs

\* A thread goes on, and has seen what the block it was at shows.
LEMMA GoesOnMaps ==
    ASSUME IInv, HInv, ~Halted, NEW t \in Thread, pc[t] = "visit", NEW b \in Block(t),
           NEW S \in SUBSET Name, GoOn(t, S), UNCHANGED dirVars, Witness,
           S \subseteq NamesIn(blocks[b]),
           op[t].kind # "list" => S = {} /\ (op[t].kind # "add" => op[t].name \notin NamesIn(blocks[b])),
           hashed /\ op[t].kind = "list" => NamesIn(blocks[b]) \cap Name \subseteq S
    PROVE  HInv' /\ UNCHANGED Map!vars
<1> DEFINE o == op[t]
<1>1. PICK w \in OpSet : /\ Moves(t, "visit", w)
                         /\ w = [o EXCEPT !.at = @ + 1, !.met = TRUE, !.got = @ \cup S]
  BY GoOnMoves
<1>2. o \in OpSet /\ TypeOK /\ Entered(o, hashed, index, blocks) /\ Whole(hashed, index, blocks)
  BY WholeSeen DEF IInv, TypeOK, Fits
<1>3. /\ w.at = o.at + 1 /\ w.got = o.got \cup S /\ w.kind = o.kind /\ w.name = o.name /\ o.at \in Nat
  BY <1>1, <1>2 DEF OpSet
<1>4. Asks("visit", w) = Asked(t) /\ Tells("visit", w) = {} /\ Told(t) = {}
  BY <1>3 DEF Asks, Asked, Tells, Told
<1>5. \A u \in Thread : pc[u] # "putNew"
  BY NonePuts
<1>6. /\ always[t] \subseteq Asked(t) /\ always[t] \subseteq Listing
      /\ Asked(t) \cap Listing \subseteq ever[t] /\ ever[t] \subseteq Asked(t)
      /\ Sees(o, always[t], ever[t], hashed, index, blocks)
  BY HistoryIs
<1>7. Asked(t) \subseteq Name
  BY <1>2 DEF Asked, Entered
<1>8. /\ Recorded(t, "visit", w) /\ Listing' = Listing /\ Listing = Live(blocks) /\ OthersSee(t)
      /\ hashed' = hashed /\ index' = index /\ blocks' = blocks
      /\ always'[t] = IF Asked(t) = {} THEN Asked(t) \cap Listing ELSE Asked(t) \cap always[t] \cap Listing
      /\ ever'[t] = Asked(t) \cap (Listing \cup ever[t])
  <2>1. Asks("visit", w) \subseteq Name
    BY <1>4, <1>7
  <2>2. /\ Recorded(t, "visit", w) /\ Listing' = Listing /\ Listing = Live(blocks) /\ OthersSee(t)
        /\ hashed' = hashed /\ index' = index /\ blocks' = blocks
        /\ always'[t] = IF Asked(t) = {} THEN Asks("visit", w) \cap Listing
                        ELSE Asks("visit", w) \cap always[t] \cap Listing
        /\ ever'[t] = Asks("visit", w) \cap (Listing \cup ever[t])
    BY <1>1, <1>5, <2>1, QuietIs
  <2>3. QED
    BY <1>4, <2>2
<1>9. always'[t] = always[t] /\ ever'[t] = ever[t]
  BY <1>6, <1>8
<1>10. UNCHANGED Map!vars
  BY <1>4, <1>8, MapStutters
<1>11. /\ b \in DOMAIN blocks
       /\ hashed => /\ o.at \in DOMAIN index /\ b = index[o.at].block
                    /\ o.kind # "list" => o.at \in Stops(index, Hash[o.name])
  BY BlockSeen
<1>12. ~hashed => b = o.at
  BY DEF Block, LinearBlock
<1>13. hashed => Sorted(index) /\ DOMAIN index \subseteq Nat
  BY <1>2, WholeIs, SortedIs
<1>14. DOMAIN blocks \subseteq Nat
  BY <1>2, WholeIs
<1>15. ASSUME o.kind \in {"find", "remove"}
       PROVE  w.got = {} /\ (w.name \in always[t] => MetAhead(w.name, w.at, hashed, index, blocks))
  <2>1. o.got = {} /\ (o.name \in always[t] => MetAhead(o.name, o.at, hashed, index, blocks))
    BY <1>6, <1>15 DEF Sees
  <2>2. o.name \notin NamesIn(blocks[b]) /\ S = {} /\ o.name \in Name
    BY <1>2, <1>15 DEF Entered
  <2>3. ASSUME MetAhead(o.name, o.at, hashed, index, blocks)
        PROVE  MetAhead(o.name, o.at + 1, hashed, index, blocks)
    <3>1. CASE hashed
      <4>1. PICK j \in Stops(index, Hash[o.name]) : j >= o.at /\ o.name \in NamesIn(blocks[index[j].block])
        BY <2>3, <3>1 DEF MetAhead
      <4>2. j # o.at
        BY <1>11, <2>2, <3>1, <4>1
      <4>3. j \in Nat
        BY <1>13, <3>1, <4>1 DEF Stops
      <4>4. j >= o.at + 1
        BY <1>3, <4>1, <4>2, <4>3
      <4>5. QED
        BY <3>1, <4>1, <4>4 DEF MetAhead
    <3>2. CASE ~hashed
      <4>1. PICK c \in DOMAIN blocks : c >= o.at /\ o.name \in NamesIn(blocks[c])
        BY <2>3, <3>2 DEF MetAhead
      <4>2. c # o.at
        BY <1>12, <2>2, <3>2, <4>1
      <4>3. c >= o.at + 1
        BY <1>3, <1>14, <4>1, <4>2
      <4>4. QED
        BY <3>2, <4>1, <4>3 DEF MetAhead
    <3>3. QED
      BY <3>1, <3>2
  <2>4. QED
    BY <1>3, <2>1, <2>2, <2>3
<1>16. ASSUME o.kind = "list"
       PROVE  /\ hashed /\ w.got \subseteq ever[t]
              /\ \A n \in always[t] \ w.got : ListedAhead(n, w.at, index, blocks)
  <2>1. /\ hashed /\ o.got \subseteq ever[t]
        /\ \A n \in always[t] \ o.got : ListedAhead(n, o.at, index, blocks)
    BY <1>6, <1>16 DEF Sees
  <2>2. S \subseteq ever[t]
    <3>1. \A n \in S : n \in Live(blocks) /\ n \in Asked(t)
      <4>1. Asked(t) = Name
        BY <1>16 DEF Asked
      <4>2. QED
        BY <1>11, <4>1, LiveIs
    <3>2. QED
      BY <1>6, <1>8, <3>1
  <2>3. ASSUME NEW n \in always[t] \ w.got PROVE ListedAhead(n, w.at, index, blocks)
    <3>1. ListedAhead(n, o.at, index, blocks) /\ n \notin S
      BY <1>3, <2>1, <2>3
    <3>2. PICK j \in DOMAIN index : j >= o.at /\ n \in NamesIn(blocks[index[j].block])
      BY <3>1 DEF ListedAhead
    <3>3. n \notin NamesIn(blocks[b])
      BY <1>6, <1>7, <1>16, <2>1, <2>3, <3>1
    <3>4. j # o.at /\ j \in Nat
      BY <1>11, <1>13, <2>1, <3>2, <3>3
    <3>5. j >= w.at
      BY <1>3, <3>2, <3>4
    <3>6. QED
      BY <3>2, <3>5 DEF ListedAhead
  <2>4. QED
    BY <1>3, <2>1, <2>2, <2>3
<1>17. Sees(w, always'[t], ever'[t], hashed', index', blocks')
  <2>1. Sees(w, always[t], ever[t], hashed, index, blocks)
    BY <1>3, <1>15, <1>16 DEF Sees
  <2>2. QED
    BY <1>8, <1>9, <2>1
<1>18. HInv'
  BY <1>8, <1>17, HistoriesMoved
<1>19. QED
  BY <1>10, <1>18

\* At the end of the cursor no name is ahead.
LEMMA NothingAhead ==
    ASSUME IInv, ~Halted, NEW t \in Thread, pc[t] = "visit", Block(t) = {}
    PROVE  /\ op[t].kind # "list" => ~MetAhead(op[t].name, op[t].at, hashed, index, blocks)
           /\ hashed /\ op[t].kind = "list" => \A n : ~ListedAhead(n, op[t].at, index, blocks)
<1> DEFINE o == op[t]
<1>1. o \in OpSet /\ TypeOK /\ Entered(o, hashed, index, blocks) /\ Whole(hashed, index, blocks)
  BY WholeSeen DEF IInv, TypeOK, Fits
<1>2. o.at \in Nat /\ o.at >= 1
  BY <1>1 DEF Entered, OpSet
<1>3. ASSUME o.kind # "list", hashed, MetAhead(o.name, o.at, hashed, index, blocks) PROVE FALSE
  <2>1. o.name \in Name /\ Follows(index, o) /\ Sorted(index) /\ Hash[o.name] \in Nat
        /\ DOMAIN index = 1 .. Len(index)
    BY <1>1, <1>3, WholeIs, SortedIs, HashIs DEF Entered
  <2>2. PICK j \in Stops(index, Hash[o.name]) : j >= o.at
    BY <1>3 DEF MetAhead
  <2>3. ~(o.at \in DOMAIN index /\ (~o.met \/ GoesOn(index, Hash[o.name], o.at)))
    BY <1>3 DEF Block, IndexBlock
  <2>4. CASE ~o.met
    <3>1. o.at \in 1 .. Len(index)
      <4>1. o.at = from_hash(index, Hash[o.name])
        BY <2>1, <2>4 DEF Follows
      <4>2. QED
        BY <2>1, <4>1, FirstStop
    <3>2. QED
      BY <2>1, <2>3, <2>4, <3>1
  <2>5. CASE o.met
    <3>1. o.at - 1 \in Stops(index, Hash[o.name])
      BY <2>1, <2>5 DEF Follows
    <3>2. o.at \in Stops(index, Hash[o.name])
      BY <1>2, <2>1, <2>2, <3>1, StopsNext
    <3>3. o.at \in DOMAIN index /\ index[o.at].hash = Hash[o.name] + 1
      BY <1>2, <2>1, <3>1, <3>2, StopsNext
    <3>4. QED
      BY <2>3, <3>3 DEF GoesOn
  <2>6. QED
    BY <2>4, <2>5
<1>4. ASSUME ~hashed, MetAhead(o.name, o.at, hashed, index, blocks) PROVE FALSE
  <2>1. PICK c \in DOMAIN blocks : c >= o.at
    BY <1>4 DEF MetAhead
  <2>2. DOMAIN blocks = 1 .. Len(blocks) /\ Len(blocks) \in Nat
    BY <1>1, WholeIs
  <2>3. o.at \in DOMAIN blocks
    BY <1>2, <2>1, <2>2
  <2>4. QED
    BY <1>4, <2>3 DEF Block, LinearBlock
<1>5. ASSUME hashed, o.kind = "list", NEW n, ListedAhead(n, o.at, index, blocks) PROVE FALSE
  <2>1. PICK j \in DOMAIN index : j >= o.at
    BY <1>5 DEF ListedAhead
  <2>2. DOMAIN index = 1 .. Len(index) /\ Len(index) \in Nat
    BY <1>1, <1>5, WholeIs, SortedIs
  <2>3. o.at \in DOMAIN index
    BY <1>2, <2>1, <2>2
  <2>4. QED
    BY <1>5, <2>3 DEF Block, IndexBlock
<1>6. QED
  BY <1>3, <1>4, <1>5

LEMMA FindInMaps ==
    ASSUME IInv, HInv, NEW t \in Thread, FindIn(t)
    PROVE  HInv' /\ [Map!Next]_(Map!vars)
<1>1. pc[t] = "visit" /\ ~Halted /\ op[t].kind = "find" /\ UNCHANGED dirVars /\ Witness
  BY DEF FindIn, Visits, At
<1>2. PICK b \in Block(t) :
        IF op[t].name \in NamesIn(blocks[b]) THEN Finish(t, {op[t].name}) ELSE GoOn(t, {})
  BY DEF FindIn
<1> DEFINE n == op[t].name
<1>3. n \in Name /\ Asked(t) = {n} /\ b \in DOMAIN blocks
  BY <1>1, BlockSeen DEF IInv, Fits, Entered, Asked
<1>4. CASE n \in NamesIn(blocks[b])
  <2>1. Finish(t, {n}) /\ {n} \in SUBSET Name
    BY <1>2, <1>3, <1>4
  <2>2. Listing = Live(blocks)
    BY <1>1, NonePuts, ListingIs
  <2>3. n \in Listing
    BY <1>3, <1>4, <2>2, LiveIs
  <2>4. {n} \subseteq ever[t] /\ always[t] \subseteq {n}
    BY <1>1, <1>3, <2>3, HistoryIs
  <2>5. QED
    BY <1>1, <2>1, <2>4, FinishMaps
<1>5. CASE n \notin NamesIn(blocks[b])
  <2>1. GoOn(t, {}) /\ {} \in SUBSET Name
    BY <1>2, <1>5
  <2>2. HInv' /\ UNCHANGED Map!vars
    BY <1>1, <1>5, <2>1, GoesOnMaps
  <2>3. QED
    BY <2>2
<1>6. QED
  BY <1>4, <1>5

LEMMA ListInMaps ==
    ASSUME IInv, HInv, NEW t \in Thread, ListIn(t)
    PROVE  HInv' /\ [Map!Next]_(Map!vars)
<1>1. pc[t] = "visit" /\ ~Halted /\ op[t].kind = "list" /\ UNCHANGED dirVars /\ Witness
  BY DEF ListIn, Visits, At
<1>2. PICK b \in Block(t) :
        IF ~hashed /\ Taken(blocks[b]) = {} THEN Finish(t, op[t].got) ELSE GoOn(t, Shown(blocks[b]))
  BY DEF ListIn
<1>3. hashed
  BY <1>1, HistoryIs DEF Sees
<1>4. GoOn(t, Shown(blocks[b]))
  BY <1>2, <1>3
<1> DEFINE S == Shown(blocks[b])
<1>5. S \in SUBSET Name /\ S \subseteq NamesIn(blocks[b])
  BY DEF Shown, NamesIn
<1>6. NamesIn(blocks[b]) \cap Name \subseteq S
  BY <1>3 DEF Shown, NamesIn, Dropped
<1> HIDE DEF S
<1>7. GoOn(t, S)
  BY <1>4 DEF S
<1>8. HInv' /\ UNCHANGED Map!vars
  BY <1>1, <1>5, <1>6, <1>7, GoesOnMaps
<1>9. QED
  BY <1>8

LEMMA EndOfCursorMaps ==
    ASSUME IInv, HInv, NEW t \in Thread, EndOfCursor(t)
    PROVE  HInv' /\ [Map!Next]_(Map!vars)
<1>1. /\ pc[t] = "visit" /\ ~Halted /\ op[t].kind # "add" /\ UNCHANGED dirVars /\ Witness
      /\ Finish(t, op[t].got) /\ Block(t) = {}
  BY DEF EndOfCursor, At
<1>2. op[t].got \in SUBSET Name /\ op[t].kind \in {"find", "remove", "list"}
  BY <1>1 DEF IInv, TypeOK, OpSet, Fits, Entered
<1>3. always[t] \subseteq Asked(t) /\ Sees(op[t], always[t], ever[t], hashed, index, blocks)
  BY <1>1, HistoryIs
<1>4. /\ op[t].kind # "list" => ~MetAhead(op[t].name, op[t].at, hashed, index, blocks)
      /\ hashed /\ op[t].kind = "list" => \A n : ~ListedAhead(n, op[t].at, index, blocks)
  BY <1>1, NothingAhead
<1>5. op[t].got \subseteq ever[t]
  BY <1>2, <1>3 DEF Sees
<1>6. ASSUME op[t].kind # "list" PROVE always[t] \subseteq op[t].got
  <2>1. Asked(t) = {op[t].name}
    BY <1>1, <1>6 DEF Asked
  <2>2. op[t].name \notin always[t]
    BY <1>2, <1>3, <1>4, <1>6 DEF Sees
  <2>3. QED
    BY <1>3, <2>1, <2>2
<1>7. ASSUME op[t].kind = "list" PROVE always[t] \subseteq op[t].got
  BY <1>3, <1>4, <1>7 DEF Sees
<1>8. always[t] \subseteq op[t].got
  BY <1>6, <1>7
<1>9. QED
  BY <1>1, <1>2, <1>5, <1>8, FinishMaps

-----------------------------------------------------------------------------
(* Blocks that change.                                                     *)

\* The blocks cs are bs, but block i has another name, or one less.
Gains(bs, cs, i, n) ==
    /\ bs \in Seq(Blocks) /\ i \in DOMAIN bs /\ n \in Name
    /\ cs = [bs EXCEPT ![i] = cs[i]] /\ NamesIn(cs[i]) = NamesIn(bs[i]) \cup {n}
Loses(bs, cs, i, n) ==
    /\ bs \in Seq(Blocks) /\ i \in DOMAIN bs /\ n \in Name /\ Separate(bs)
    /\ cs = [bs EXCEPT ![i] = cs[i]] /\ NamesIn(cs[i]) = NamesIn(bs[i]) \ {n}
    /\ n \in NamesIn(bs[i])

\* A block gets one more name.
LEMMA LivePut ==
    ASSUME NEW bs, NEW cs, NEW i, NEW n, Gains(bs, cs, i, n)
    PROVE  /\ \A m : m \in Live(cs) <=> m \in Live(bs) \/ m = n
           /\ \A now : StillThere(bs, cs, now)
<1>1. /\ DOMAIN cs = DOMAIN bs /\ i \in DOMAIN bs /\ n \in Name
      /\ \A b \in DOMAIN bs : b # i => cs[b] = bs[b]
      /\ NamesIn(cs[i]) = NamesIn(bs[i]) \cup {n}
  BY DEF Gains
<1>2. \A b \in DOMAIN bs : NamesIn(cs[b]) = IF b = i THEN NamesIn(bs[b]) \cup {n} ELSE NamesIn(bs[b])
  BY <1>1
<1>3. \A m : m \in Live(cs) <=> m \in Live(bs) \/ m = n
  BY <1>1, <1>2, LiveIs
<1>4. \A now : StillThere(bs, cs, now)
  BY <1>1, <1>2 DEF StillThere
<1>5. QED
  BY <1>3, <1>4

\* A block loses a name that is in no other.
LEMMA LiveTaken ==
    ASSUME NEW bs, NEW cs, NEW i, NEW n, Loses(bs, cs, i, n)
    PROVE  /\ \A m : m \in Live(cs) <=> m \in Live(bs) /\ m # n
           /\ StillThere(bs, cs, Live(cs)) /\ n \in Live(bs)
<1>1. /\ DOMAIN cs = DOMAIN bs /\ i \in DOMAIN bs /\ n \in Name /\ Separate(bs) /\ n \in NamesIn(bs[i])
      /\ \A b \in DOMAIN bs : b # i => cs[b] = bs[b]
      /\ NamesIn(cs[i]) = NamesIn(bs[i]) \ {n}
  BY DEF Loses
<1>2. \A b \in DOMAIN bs : NamesIn(cs[b]) = NamesIn(bs[b]) \ {n}
  <2> TAKE b \in DOMAIN bs
  <2>1. CASE b = i
    BY <1>1, <2>1
  <2>2. CASE b # i
    BY <1>1, <2>2 DEF Separate
  <2>3. QED
    BY <2>1, <2>2
<1>3. \A m : m \in Live(cs) <=> m \in Live(bs) /\ m # n
  BY <1>1, <1>2, LiveIs
<1>4. n \in Live(bs)
  BY <1>1, LiveIs
<1>5. StillThere(bs, cs, Live(cs))
  BY <1>1, <1>2, <1>3 DEF StillThere
<1>6. QED
  BY <1>3, <1>4, <1>5

\* A name comes into a block.
LEMMA AddsMap ==
    ASSUME IInv, HInv, NEW t \in Thread, NEW p \in {"idle", "told"}, NEW o, Recorded(t, p, o),
           \A u \in Thread : pc[u] # "putNew", \A u \in Others(t) : pc[u] \notin SplitPc,
           Asked(t) = {}, Asks(p, o) = {}, Tells(p, o) = Told(t), index' = index,
           NEW n \in Name, n \notin Listing, Live(blocks') = Live(blocks) \cup {n},
           \A now : StillThere(blocks, blocks', now)
    PROVE  HInv' /\ Map!Next
<1>1. Listing = Live(blocks) /\ TypeOK /\ Moves(t, p, o)
  BY ListingIs DEF Recorded
<1>2. Listing' = Live(blocks')
  BY <1>1, ListingMoved DEF Others
<1>3. Listing' = Listing \cup {n}
  BY <1>1, <1>2
<1>4. \E m \in Name : Map!Add(m)
  BY <1>3, MapAdds
<1>5. OthersSee(t)
  BY SeeStill
<1>6. HInv'
  BY <1>5, HistoriesMoved
<1>7. QED
  BY <1>4, <1>6, AddIs

LEMMA RemoveInMaps ==
    ASSUME IInv, HInv, NEW t \in Thread, RemoveIn(t)
    PROVE  HInv' /\ [Map!Next]_(Map!vars)
<1>1. /\ pc[t] = "visit" /\ ~Halted /\ op[t].kind = "remove" /\ Witness
      /\ hashed' = hashed /\ index' = index /\ size' = size
  BY DEF RemoveIn, Visits, At
<1>2. PICK b \in Block(t) :
        IF op[t].name \in NamesIn(blocks[b])
        THEN /\ blocks' = [blocks EXCEPT ![b] = destroy(@, op[t].name)]
             /\ Finish(t, {op[t].name})
        ELSE GoOn(t, {}) /\ UNCHANGED blocks
  BY DEF RemoveIn
<1> DEFINE n == op[t].name
<1>3. n \in Name /\ TypeOK /\ Whole(hashed, index, blocks) /\ b \in DOMAIN blocks /\ Asked(t) = {n}
  BY <1>1, <1>2, WholeSeen, BlockSeen DEF IInv, Fits, Entered, Asked
<1>4. CASE n \notin NamesIn(blocks[b])
  <2>1. GoOn(t, {}) /\ {} \in SUBSET Name /\ UNCHANGED dirVars
    BY <1>1, <1>2, <1>4 DEF dirVars
  <2>2. HInv' /\ UNCHANGED Map!vars
    BY <1>1, <1>4, <2>1, GoesOnMaps
  <2>3. QED
    BY <2>2
<1>5. CASE n \in NamesIn(blocks[b])
  <2>1. blocks' = [blocks EXCEPT ![b] = destroy(blocks[b], n)] /\ Finish(t, {n}) /\ {n} \in SUBSET Name
    BY <1>2, <1>3, <1>5
  <2> DEFINE c == destroy(blocks[b], n)
  <2>2. /\ blocks \in Seq(Blocks) /\ Separate(blocks)
        /\ blocks[b] \in Blocks /\ WellFormed(blocks[b]) /\ Distinct(blocks[b])
    BY <1>3, WholeIs, UniqueIs DEF TypeOK, Whole, Tidy
  <2> HIDE DEF n
  <2>3. NamesIn(c) = NamesIn(blocks[b]) \ {n}
    BY <1>3, <1>5, <2>2, DestroyIs
  <2> HIDE DEF c
  <2>4. Live(blocks') = Live(blocks) \ {n} /\ StillThere(blocks, blocks', Live(blocks')) /\ n \in Live(blocks)
    <3>1. blocks' = [blocks EXCEPT ![b] = c]
      BY <2>1 DEF c
    <3>2. blocks'[b] = c
      BY <1>3, <2>2, <3>1
    <3>3. Loses(blocks, blocks', b, n)
      BY <1>3, <1>5, <2>2, <2>3, <3>1, <3>2 DEF Loses
    <3>4. \A m : m \in Live(blocks') <=> m \in Live(blocks) /\ m # n
      BY <3>3, LiveTaken
    <3>5. QED
      BY <3>3, <3>4, LiveTaken
  <2>5. PICK p \in {"idle", "told"}, o \in OpSet :
          Moves(t, p, o) /\ Asks(p, o) = {} /\ Tells(p, o) = {n}
    BY <2>1, FinishTells
  <2>6. Recorded(t, p, o)
    BY <1>1, <1>3, <2>5 DEF Recorded
  <2>7. (\A u \in Thread : pc[u] # "putNew") /\ (\A u \in Others(t) : pc[u] \notin SplitPc)
    BY <1>1, NonePuts
  <2>8. Listing = Live(blocks) /\ Listing' = Live(blocks')
    BY <1>3, <2>5, <2>7, ListingIs, ListingMoved DEF Others
  <2>9. Map!Remove(t)
    BY <1>3, <2>4, <2>5, <2>6, <2>8, MapRemoves
  <2>10. OthersSee(t)
    BY <1>1, <2>4, <2>6, <2>7, <2>8, SeeStill
  <2>11. HInv'
    BY <2>5, <2>6, <2>10, HistoriesMoved
  <2>12. QED
    BY <2>9, <2>11, RemoveIs
<1>6. QED
  BY <1>4, <1>5

LEMMA AddInMaps ==
    ASSUME IInv, HInv, NEW t \in Thread, AddIn(t)
    PROVE  HInv' /\ [Map!Next]_(Map!vars)
<1>1. /\ pc[t] = "visit" /\ ~Halted /\ op[t].kind = "add" /\ Witness
      /\ hashed' = hashed /\ index' = index /\ size' = size
  BY DEF AddIn, Visits, At
<1>2. PICK b \in Block(t) :
        IF Roomy(blocks[b], op[t].name) # {}
        THEN /\ blocks' = [blocks EXCEPT ![b] = insert_entry(@, op[t].name)]
             /\ Finish(t, {})
        ELSE GoOn(t, {}) /\ UNCHANGED blocks
  BY DEF AddIn
<1> DEFINE n == op[t].name
<1>3. /\ n \in Name /\ TypeOK /\ Whole(hashed, index, blocks) /\ b \in DOMAIN blocks
      /\ Missing(blocks, n) /\ Asked(t) = {} /\ Told(t) = {}
  BY <1>1, <1>2, WholeSeen, BlockSeen DEF IInv, Fits, Entered, Asked, Told
<1>4. CASE Roomy(blocks[b], n) = {}
  <2>1. GoOn(t, {}) /\ {} \in SUBSET Name /\ UNCHANGED dirVars
    BY <1>1, <1>2, <1>4 DEF dirVars
  <2>2. HInv' /\ UNCHANGED Map!vars
    BY <1>1, <2>1, GoesOnMaps
  <2>3. QED
    BY <2>2
<1>5. CASE Roomy(blocks[b], n) # {}
  <2>1. blocks' = [blocks EXCEPT ![b] = insert_entry(blocks[b], n)] /\ Finish(t, {}) /\ {} \in SUBSET Name
    BY <1>2, <1>3, <1>5
  <2> DEFINE c == insert_entry(blocks[b], n)
  <2>2. /\ blocks \in Seq(Blocks) /\ blocks[b] \in Blocks /\ WellFormed(blocks[b]) /\ Distinct(blocks[b])
    BY <1>3, WholeIs DEF TypeOK
  <2> HIDE DEF n
  <2>3. NamesIn(c) = NamesIn(blocks[b]) \cup {n}
    BY <1>3, <1>5, <2>2, InsertIs DEF Missing
  <2> HIDE DEF c
  <2>4. Live(blocks') = Live(blocks) \cup {n} /\ \A now : StillThere(blocks, blocks', now)
    <3>1. blocks' = [blocks EXCEPT ![b] = c]
      BY <2>1 DEF c
    <3>2. blocks'[b] = c
      BY <1>3, <2>2, <3>1
    <3>3. Gains(blocks, blocks', b, n)
      BY <1>3, <2>2, <2>3, <3>1, <3>2 DEF Gains
    <3>4. \A m : m \in Live(blocks') <=> m \in Live(blocks) \/ m = n
      BY <3>3, LivePut
    <3>5. QED
      BY <3>3, <3>4, LivePut
  <2>5. PICK p \in {"idle", "told"}, o \in OpSet :
          Moves(t, p, o) /\ Asks(p, o) = {} /\ Tells(p, o) = {}
    BY <2>1, FinishTells
  <2>6. Recorded(t, p, o)
    BY <1>1, <1>3, <2>5 DEF Recorded
  <2>7. (\A u \in Thread : pc[u] # "putNew") /\ (\A u \in Others(t) : pc[u] \notin SplitPc)
    BY <1>1, NonePuts
  <2>8. n \notin Listing
    BY <1>3, <2>7, ListingIs, LiveIs DEF Missing
  <2>9. QED
    BY <1>1, <1>3, <2>4, <2>5, <2>6, <2>7, <2>8, AddsMap
<1>6. QED
  BY <1>4, <1>5

LEMMA LinearAddMaps ==
    ASSUME IInv, HInv, NEW t \in Thread, LinearAdd(t)
    PROVE  HInv' /\ Map!Next
<1>1. /\ ~hashed /\ ~Halted /\ pc[t] = "idle" /\ Witness
      /\ hashed' = hashed /\ index' = index /\ pc' = pc /\ op' = op
  BY DEF LinearAdd, At
<1>2. TypeOK /\ \A u \in Thread : pc[u] \notin SplitPc
  BY <1>1, WholeLinear DEF IInv
<1>3. PICK n \in Name \ Listing, bs \in Seq(Blocks) : \E i \in DOMAIN bs :
        Places(bs, i, n) /\ blocks' = [bs EXCEPT ![i] = insert_entry(bs[i], n)]
  BY LinearPlace
<1>4. PICK i \in DOMAIN bs : Places(bs, i, n) /\ blocks' = [bs EXCEPT ![i] = insert_entry(bs[i], n)]
  BY <1>3
<1>5. /\ Tidy(bs) /\ Roomy(bs[i], n) # {} /\ n \in Name /\ (\A b \in DOMAIN bs : n \notin NamesIn(bs[b]))
      /\ bs = blocks \/ (bs = Append(blocks, Cleared) /\ Len(bs) = Len(blocks) + 1)
  BY <1>4 DEF Places
<1>6. bs[i] \in Blocks /\ WellFormed(bs[i]) /\ Distinct(bs[i])
  BY <1>5, BlocksAre, UniqueIs DEF Tidy
<1>7. NamesIn(insert_entry(bs[i], n)) = NamesIn(bs[i]) \cup {n}
  BY <1>5, <1>6, InsertIs
<1>8. Live(blocks') = Live(bs) \cup {n} /\ \A now : StillThere(bs, blocks', now)
  <2> DEFINE c == insert_entry(bs[i], n)
  <2>1. blocks' = [bs EXCEPT ![i] = c] /\ NamesIn(c) = NamesIn(bs[i]) \cup {n}
    BY <1>4, <1>7
  <2> HIDE DEF c
  <2>2. blocks'[i] = c
    BY <2>1
  <2>3. Gains(bs, blocks', i, n)
    BY <1>5, <2>1, <2>2 DEF Gains
  <2>4. \A m : m \in Live(blocks') <=> m \in Live(bs) \/ m = n
    BY <2>3, LivePut
  <2>5. QED
    BY <2>3, <2>4, LivePut
<1>9. Live(bs) = Live(blocks) /\ \A b \in DOMAIN blocks : b \in DOMAIN bs /\ bs[b] = blocks[b]
  <2>1. SUFFICES ASSUME bs = Append(blocks, Cleared), Len(bs) = Len(blocks) + 1
                 PROVE  Live(bs) = Live(blocks) /\ \A b \in DOMAIN blocks : b \in DOMAIN bs /\ bs[b] = blocks[b]
    BY <1>5
  <2>2. blocks \in Seq(Blocks) /\ Len(blocks) \in Nat /\ DOMAIN blocks = 1 .. Len(blocks)
        /\ DOMAIN bs = 1 .. Len(bs)
    BY <1>2, BlocksAre DEF TypeOK
  <2> HIDE DEF Cleared, Blocks
  <2>3. /\ \A b \in DOMAIN blocks : b \in DOMAIN bs /\ bs[b] = blocks[b]
        /\ bs[Len(blocks) + 1] = Cleared
    BY <2>1, <2>2
  <2>4. \A b \in DOMAIN bs : b \in DOMAIN blocks \/ b = Len(blocks) + 1
    BY <2>1, <2>2
  <2>5. NamesIn(Cleared) = {}
    BY ClearedIs
  <2>6. \A m : m \in Live(bs) <=> m \in Live(blocks)
    BY <2>3, <2>4, <2>5, LiveIs
  <2>7. QED
    BY <2>3, <2>6
<1>10. Live(blocks') = Live(blocks) \cup {n} /\ \A now : StillThere(blocks, blocks', now)
  BY <1>8, <1>9 DEF StillThere
<1> DEFINE o == op[t]
<1>11. Moves(t, "idle", o) /\ Asks("idle", o) = {} /\ Tells("idle", o) = {} /\ Asked(t) = {} /\ Told(t) = {}
  <2>1. pc \in [Thread -> PcSet] /\ op \in [Thread -> OpSet] /\ "idle" \in PcSet
    BY <1>2 DEF TypeOK, PcSet
  <2>2. Moves(t, "idle", o)
    <3> HIDE DEF PcSet, OpSet
    <3>1. QED
      BY <1>1, <2>1 DEF Moves
  <2>3. QED
    BY <1>1, <2>2 DEF Asks, Tells, Asked, Told
<1>12. Recorded(t, "idle", o)
  BY <1>1, <1>2, <1>11 DEF Recorded
<1>13. (\A u \in Thread : pc[u] # "putNew") /\ (\A u \in Others(t) : pc[u] \notin SplitPc)
  BY <1>2 DEF SplitPc, Others
<1> HIDE DEF o
<1>14. QED
  BY <1>1, <1>5, <1>10, <1>11, <1>12, <1>13, AddsMap

-----------------------------------------------------------------------------
(* A block that is split.                                                  *)

\* Names of different hashes are all kept.
LEMMA KeptAll ==
    ASSUME HashesApart, NEW b \in Blocks, Distinct(b), NamesIn(b) \subseteq Name,
           NEW n \in Name, n \notin NamesIn(b)
    PROVE  Kept(b, n) = NamesIn(b) \cup {n}
<1>1. Taken(b) \subseteq DOMAIN b /\ Taken(b) \subseteq Nat
  BY BlockIs DEF Taken
<1>2. ASSUME NEW m \in NamesIn(b) PROVE m \in Kept(b, n)
  <2>1. PICK i \in Taken(b) : b[i].name = m
    BY DEF NamesIn
  <2>2. m \in Name /\ m # n /\ Hash[m] # Hash[n]
    BY DEF HashesApart
  <2>3. ASSUME NEW j \in Taken(b), j > i PROVE Hash[b[j].name] # Hash[m]
    <3>1. j # i /\ i \in DOMAIN b /\ j \in DOMAIN b
      BY <1>1, <2>1, <2>3
    <3>2. b[j].name \in Name
      BY DEF NamesIn
    <3>3. b[j].name # m
      BY <2>1, <2>2, <3>1 DEF Distinct
    <3>4. QED
      BY <2>2, <3>2, <3>3 DEF HashesApart
  <2>4. QED
    BY <2>1, <2>2, <2>3 DEF Kept
<1>3. Kept(b, n) \subseteq NamesIn(b) \cup {n} /\ n \in Kept(b, n)
  BY KeptIs
<1>4. QED
  BY <1>2, <1>3

LEMMA GatherMaps ==
    ASSUME IInv, HInv, NEW t \in Thread, Gather(t)
    PROVE  HInv' /\ UNCHANGED Map!vars
<1> DEFINE o == op[t]
           b == index[o.at - 1].block
           w == [o EXCEPT !.block = b, !.before = NamesIn(blocks[b]), !.names = ByHash(blocks[b], o.name)]
<1>1. /\ pc[t] = "visit" /\ ~Halted /\ o.kind = "add" /\ UNCHANGED dirVars /\ Witness
      /\ pc' = [pc EXCEPT ![t] = "grow"] /\ op' = [op EXCEPT ![t] = w]
  BY DEF Gather, Visits, At
<1>2. IInv' /\ op \in [Thread -> OpSet] /\ op' \in [Thread -> OpSet] /\ TypeOK
  BY GatherKeeps DEF IInv, TypeOK
<1>3. o \in OpSet /\ w \in OpSet
  <2> HIDE DEF OpSet, w
  <2>1. op'[t] = w
    BY <1>1, <1>2
  <2>2. QED
    BY <1>2, <2>1
<1>4. w.block = b /\ w.before = NamesIn(blocks[b])
  BY <1>3 DEF OpSet
<1> HIDE DEF w
<1>5. Moves(t, "grow", w)
  BY <1>1, <1>3 DEF Moves, PcSet
<1>6. Asks("grow", w) = {} /\ Tells("grow", w) = {} /\ Asked(t) = {} /\ Told(t) = {}
  BY <1>1 DEF Asks, Tells, Asked, Told
<1>7. \A u \in Thread : pc[u] # "putNew"
  BY <1>1, NonePuts
<1>8. /\ Recorded(t, "grow", w) /\ Listing' = Listing /\ OthersSee(t) /\ blocks' = blocks
  BY <1>1, <1>5, <1>6, <1>7, QuietIs
<1>9. UNCHANGED Map!vars
  BY <1>6, <1>8, MapStutters
<1>10. w.before = NamesIn(blocks'[w.block])
  BY <1>4, <1>8
<1>11. HInv'
  BY <1>8, <1>10, HistoriesMoved
<1>12. QED
  BY <1>9, <1>11

\* What thread t does to a block it splits is no matter of others.
LEMMA SplitMaps ==
    ASSUME IInv, HInv, ~Halted, NEW t \in Thread, pc[t] \in SplitPc,
           NEW p \in {"link", "putOld", "putNew", "panic"}, NEW o, Moves(t, p, o), Witness,
           hashed' = hashed, Listing' = Listing,
           p # "panic" => Handed(p, o, blocks')
    PROVE  HInv' /\ UNCHANGED Map!vars
<1>1. Asks(p, o) = {} /\ Tells(p, o) = {} /\ Asked(t) = {} /\ Told(t) = {}
  BY DEF Asks, Tells, Asked, Told, SplitPc
<1>2. Recorded(t, p, o)
  BY <1>1 DEF Recorded, IInv
<1>3. UNCHANGED Map!vars
  BY <1>1, <1>2, MapStutters
<1>4. OthersSee(t)
  BY SplitsAlone, AloneSee
<1>5. HInv'
  BY <1>2, <1>4, HistoriesMoved
<1>6. QED
  BY <1>3, <1>5

LEMMA GrowMaps ==
    ASSUME IInv, HInv, HashesApart, NEW t \in Thread, Grow(t)
    PROVE  HInv' /\ UNCHANGED Map!vars
<1> DEFINE o == op[t]
           cut == SplitPos(o.names)
           c == blocks[o.block]
<1>1. /\ pc[t] = "grow" /\ ~Halted /\ hashed' = hashed /\ Witness
      /\ blocks' = Append(blocks, <<>>)
  BY DEF Grow, At
<1>2. /\ TypeOK /\ op \in [Thread -> OpSet] /\ o \in OpSet /\ Gathered(o, hashed, index, blocks)
      /\ Whole(hashed, index, blocks) /\ o.before = NamesIn(c)
  BY <1>1, WholeSeen DEF IInv, Fits, TypeOK, HInv, Recalls
<1>3. /\ blocks \in Seq(Blocks) /\ Leads(index, blocks) /\ Separate(blocks) /\ Len(blocks) \in Nat
      /\ DOMAIN blocks = 1 .. Len(blocks) /\ hashed /\ o.name \in Name /\ Missing(blocks, o.name)
      /\ o.names = ByHash(c, o.name)
  BY <1>2, WholeIs, UniqueIs DEF TypeOK, Whole, Gathered, Tidy
<1>4. /\ o.block \in DOMAIN blocks /\ c \in Blocks /\ WellFormed(c)
  <2>1. Sorted(index) /\ Hash[o.name] \in Nat /\ o.at - 1 \in Stops(index, Hash[o.name])
        /\ o.block = index[o.at - 1].block
    BY <1>2, <1>3, WholeIs, HashIs DEF Gathered
  <2>2. o.at - 1 \in 1 .. Len(index)
    BY <2>1, StopsWalk
  <2>3. QED
    BY <1>2, <1>3, <2>1, <2>2, WholeIs
<1>5. \A d \in DOMAIN blocks : NamesIn(blocks[d]) \subseteq Name
  BY <1>3 DEF Leads
<1>6. /\ DOMAIN blocks' = 1 .. Len(blocks) + 1 /\ blocks'[Len(blocks) + 1] = <<>>
      /\ \A d \in DOMAIN blocks : d \in DOMAIN blocks' /\ blocks'[d] = blocks[d]
      /\ \A d \in DOMAIN blocks' : d \in DOMAIN blocks \/ d = Len(blocks) + 1
      /\ Len(blocks) + 1 \notin DOMAIN blocks
  <2> HIDE DEF c
  <2>1. QED
    BY <1>1, <1>3
<1>7. Live(blocks') = Live(blocks)
  <2>1. NamesIn(<<>>) = {}
    BY DEF NamesIn, Taken
  <2>2. \A m : m \in Live(blocks') <=> m \in Live(blocks)
    BY <1>6, <2>1, LiveIs
  <2>3. QED
    BY <2>2
<1>8. (\A u \in Thread : pc[u] # "putNew") /\ Listing = Live(blocks)
  BY <1>1, NonePuts, ListingIs
<1>9. ASSUME NEW p \in {"link", "panic"}, NEW w, Moves(t, p, w) PROVE Listing' = Listing
  <2>1. Listing' = Live(blocks')
    BY <1>2, <1>8, <1>9, ListingMoved DEF Others
  <2>2. QED
    BY <1>7, <1>8, <2>1
<1>10. CASE cut = {}
  <2>1. pc' = [pc EXCEPT ![t] = "panic"] /\ op' = op
    BY <1>10 DEF Grow
  <2>2. op' = [op EXCEPT ![t] = o]
    <3> HIDE DEF OpSet
    <3>1. QED
      BY <1>2, <2>1
  <2>3. Moves(t, "panic", o)
    BY <1>2, <2>1, <2>2 DEF Moves, PcSet
  <2>4. QED
    BY <1>1, <1>9, <2>3, SplitMaps DEF SplitPc
<1>11. CASE cut # {}
  <2> DEFINE k == Min(cut)
             w == [o EXCEPT !.new = Len(blocks) + 1, !.cut = k]
  <2>1. o.names \in Seq(Name)
    BY <1>2 DEF OpSet
  <2>2. k \in cut /\ k \in Nat
    <3>1. cut \subseteq 1 .. Len(o.names) /\ Len(o.names) \in Nat
      BY <2>1 DEF SplitPos
    <3>2. cut \subseteq Nat
      BY <3>1
    <3> HIDE DEF cut
    <3>3. k \in cut
      BY <1>11, <3>2, MinIs
    <3>4. QED
      BY <3>2, <3>3
  <2>3. /\ pc' = [pc EXCEPT ![t] = "link"]
        /\ op' = [op EXCEPT ![t].new = Len(blocks) + 1, ![t].cut = k]
    BY <1>11 DEF Grow
  <2> HIDE DEF k, cut
  <2>4. /\ w \in OpSet /\ w.new = Len(blocks) + 1 /\ w.cut = k /\ w.names = o.names
        /\ w.block = o.block /\ w.name = o.name /\ w.before = o.before
    <3>1. Len(blocks) + 1 \in Nat /\ o \in OpSet
      BY <1>2, <1>3
    <3>2. QED
      BY <2>2, <3>1 DEF OpSet
  <2>5. Moves(t, "link", w)
    <3>1. op' = [op EXCEPT ![t] = w]
      BY <1>2, <2>3
    <3>2. QED
      BY <2>3, <2>4, <3>1 DEF Moves, PcSet
  <2> HIDE DEF w
  <2> DEFINE es == o.names
  <2>6. /\ Halves(es, k, Filled(SubSeq(es, 1, k - 1)), Filled(SubSeq(es, k, Len(es))))
        /\ {es[i] : i \in 1 .. Len(es)} = Kept(c, o.name)
    BY <1>3, <1>4, <1>5, <2>2, HalvesAre DEF cut
  <2>7. NamesOf(es) = Kept(c, o.name)
    <3>1. DOMAIN es = 1 .. Len(es)
      BY <2>1
    <3>2. QED
      BY <2>6, <3>1 DEF NamesOf
  <2>8. Distinct(c)
    BY <1>2, <1>4, UniqueIs DEF Whole, Tidy
  <2>9. Kept(c, o.name) = NamesIn(c) \cup {o.name}
    BY <1>3, <1>4, <1>5, <2>8, KeptAll DEF Missing
  <2>10. Halves(w.names, w.cut, Filled(FirstHalf(w)), Filled(SecondHalf(w)))
    BY <2>4, <2>6 DEF FirstHalf, SecondHalf
  <2>11. \A d \in DOMAIN blocks' \ {w.block, w.new} : \A m \in NamesIn(blocks'[d]) :
            m \notin w.before /\ m # w.name
    <3>1. SUFFICES ASSUME NEW d \in DOMAIN blocks, d # o.block, NEW m \in NamesIn(blocks[d])
                   PROVE  m \notin NamesIn(c) /\ m # o.name
      BY <1>2, <1>6, <2>4
    <3>2. m \in Name
      BY <1>5, <3>1
    <3>3. QED
      BY <1>3, <1>4, <3>1, <3>2 DEF Separate, Missing
  <2>12. /\ w.name \in Name /\ w.name \notin w.before /\ w.before \subseteq Name
         /\ w.block \in DOMAIN blocks' /\ w.new \in DOMAIN blocks' /\ w.block # w.new
         /\ blocks'[w.new] = <<>> /\ NamesIn(blocks'[w.block]) = w.before
    BY <1>2, <1>3, <1>4, <1>5, <1>6, <2>4 DEF Missing
  <2>13. NamesOf(w.names) = w.before \cup {w.name}
    BY <1>2, <2>4, <2>7, <2>9
  <2>14. Handed("link", w, blocks')
    BY <2>10, <2>11, <2>12, <2>13 DEF Handed
  <2>15. QED
    BY <1>1, <1>9, <2>5, <2>14, SplitMaps DEF SplitPc
<1>12. QED
  BY <1>10, <1>11

LEMMA GrowFailsMaps ==
    ASSUME IInv, HInv, NEW t \in Thread, GrowFails(t)
    PROVE  HInv' /\ UNCHANGED Map!vars
<1>1. /\ pc[t] = "grow" /\ ~Halted /\ UNCHANGED dirVars /\ Witness
      /\ pc' = [pc EXCEPT ![t] = "panic"] /\ op' = op
  BY DEF GrowFails, At
<1>2. TypeOK /\ op \in [Thread -> OpSet]
  BY DEF IInv, TypeOK
<1>3. op[t] \in OpSet /\ op' = [op EXCEPT ![t] = op[t]]
  <2> HIDE DEF OpSet
  <2>1. QED
    BY <1>1, <1>2
<1>4. Moves(t, "panic", op[t])
  BY <1>1, <1>3 DEF Moves, PcSet
<1>5. Listing' = Listing
  BY <1>1, <1>2, <1>4, NonePuts, ListingStays
<1>6. hashed' = hashed
  BY <1>1 DEF dirVars
<1>7. QED
  BY <1>1, <1>4, <1>5, <1>6, SplitMaps DEF SplitPc

LEMMA LinkMaps ==
    ASSUME IInv, HInv, NEW t \in Thread, Link(t)
    PROVE  HInv' /\ UNCHANGED Map!vars
<1> DEFINE o == op[t]
<1>1. /\ pc[t] = "link" /\ ~Halted /\ pc' = [pc EXCEPT ![t] = "putOld"] /\ Witness
      /\ hashed' = hashed /\ blocks' = blocks /\ op' = op
  BY DEF Link, At
<1>2. TypeOK /\ op \in [Thread -> OpSet] /\ o \in OpSet /\ Handed("link", o, blocks)
  BY <1>1 DEF IInv, TypeOK, HInv, Recalls
<1>3. op' = [op EXCEPT ![t] = o]
  <2> HIDE DEF OpSet
  <2>1. QED
    BY <1>1, <1>2
<1>4. Moves(t, "putOld", o)
  BY <1>1, <1>2, <1>3 DEF Moves, PcSet
<1>5. (\A u \in Thread : pc[u] # "putNew") /\ Listing = Live(blocks)
  BY <1>1, NonePuts, ListingIs
<1>6. Listing' = Live(blocks')
  BY <1>2, <1>4, <1>5, ListingMoved DEF Others
<1>7. Listing' = Listing
  BY <1>1, <1>5, <1>6
<1>8. Handed("putOld", o, blocks')
  BY <1>1, <1>2 DEF Handed
<1>9. QED
  BY <1>1, <1>4, <1>7, <1>8, SplitMaps DEF SplitPc

\* A name of a block that has no part in the split.
Elsewhere(o, bs, m) == \E c \in DOMAIN bs \ {o.block, o.new} : m \in NamesIn(bs[c])

LEMMA LiveParts ==
    ASSUME NEW o, NEW bs, o.block \in DOMAIN bs, o.new \in DOMAIN bs, NEW m
    PROVE  m \in Live(bs) <=>
               /\ m \in Name
               /\ m \in NamesIn(bs[o.block]) \/ m \in NamesIn(bs[o.new]) \/ Elsewhere(o, bs, m)
BY LiveIs DEF Elsewhere

\* The names of both halves are those of the block and the new one.
LEMMA HandedIs ==
    ASSUME ShortNames, NEW p, NEW o, NEW bs, Handed(p, o, bs), NEW f, f = Filled(FirstHalf(o)),
           NEW s, s = Filled(SecondHalf(o))
    PROVE  /\ \A m : m \in NamesIn(f) \/ m \in NamesIn(s) <=> m \in o.before \/ m = o.name
           /\ o.name \in Name /\ o.before \subseteq Name /\ o.name \notin o.before
           /\ \A m : Elsewhere(o, bs, m) => m \notin o.before /\ m # o.name
           /\ o.block \in DOMAIN bs /\ o.new \in DOMAIN bs /\ o.block # o.new
           /\ NamesIn(bs[o.new]) = {}
           /\ p # "putNew" => NamesIn(bs[o.block]) = o.before
           /\ p = "putNew" => bs[o.block] = f
<1> DEFINE es == o.names
           k == o.cut
<1>1. /\ Halves(es, k, f, s) /\ o.name \in Name /\ o.name \notin o.before /\ o.before \subseteq Name
      /\ NamesOf(es) = o.before \cup {o.name}
      /\ o.block \in DOMAIN bs /\ o.new \in DOMAIN bs /\ o.block # o.new
      /\ bs[o.new] = <<>>
      /\ \A c \in DOMAIN bs \ {o.block, o.new} : \A m \in NamesIn(bs[c]) : m \notin o.before /\ m # o.name
      /\ p # "putNew" => NamesIn(bs[o.block]) = o.before
      /\ p = "putNew" => bs[o.block] = f
  BY DEF Handed
<1>2. /\ es \in Seq(Name) /\ k \in 2 .. Len(es)
      /\ NamesIn(f) = {es[i] : i \in 1 .. k - 1} /\ NamesIn(s) = {es[i] : i \in k .. Len(es)}
  BY <1>1 DEF Halves
<1>3. DOMAIN es = 1 .. Len(es) /\ Len(es) \in Nat
  BY <1>2
<1>4. ASSUME NEW m PROVE m \in NamesIn(f) \/ m \in NamesIn(s) <=> m \in NamesOf(es)
  <2> HIDE DEF es, k
  <2>1. ASSUME m \in NamesOf(es) PROVE m \in NamesIn(f) \/ m \in NamesIn(s)
    <3>1. PICK i \in 1 .. Len(es) : m = es[i]
      BY <1>3, <2>1 DEF NamesOf
    <3>2. i \in 1 .. k - 1 \/ i \in k .. Len(es)
      BY <1>2, <1>3, <3>1
    <3>3. QED
      BY <1>2, <3>1, <3>2
  <2>2. ASSUME m \in NamesIn(f) \/ m \in NamesIn(s) PROVE m \in NamesOf(es)
    <3>1. (\E i \in 1 .. k - 1 : m = es[i]) \/ (\E i \in k .. Len(es) : m = es[i])
      BY <1>2, <2>2
    <3>2. \E i \in 1 .. Len(es) : m = es[i]
      BY <1>2, <1>3, <3>1
    <3>3. QED
      BY <1>3, <3>2 DEF NamesOf
  <2>3. QED
    BY <2>1, <2>2
<1>5. \A m : m \in NamesOf(es) <=> m \in o.before \/ m = o.name
  BY <1>1
<1>6. NamesIn(bs[o.new]) = {}
  BY <1>1 DEF NamesIn, Taken
<1>7. \A m : Elsewhere(o, bs, m) => m \notin o.before /\ m # o.name
  BY <1>1 DEF Elsewhere
<1> HIDE DEF es, k
<1>8. QED
  BY <1>1, <1>4, <1>5, <1>6, <1>7

LEMMA PutOldMaps ==
    ASSUME IInv, HInv, ShortNames, NEW t \in Thread, PutOld(t)
    PROVE  HInv' /\ UNCHANGED Map!vars
<1> DEFINE o == op[t]
           f == Filled(FirstHalf(o))
           s == Filled(SecondHalf(o))
<1>1. /\ pc[t] = "putOld" /\ ~Halted /\ pc' = [pc EXCEPT ![t] = "putNew"] /\ Witness
      /\ hashed' = hashed /\ op' = op /\ blocks' = [blocks EXCEPT ![o.block] = f]
  BY DEF PutOld, At
<1>2. TypeOK /\ op \in [Thread -> OpSet] /\ o \in OpSet /\ Handed("putOld", o, blocks)
  BY <1>1 DEF IInv, TypeOK, HInv, Recalls
<1>3. op' = [op EXCEPT ![t] = o]
  <2> HIDE DEF OpSet
  <2>1. QED
    BY <1>1, <1>2
<1>4. Moves(t, "putNew", o)
  BY <1>1, <1>2, <1>3 DEF Moves, PcSet
<1> HIDE DEF f, s
<1>5. /\ \A m : m \in NamesIn(f) \/ m \in NamesIn(s) <=> m \in o.before \/ m = o.name
      /\ o.name \in Name /\ o.before \subseteq Name /\ o.name \notin o.before
      /\ \A m : Elsewhere(o, blocks, m) => m \notin o.before /\ m # o.name
      /\ o.block \in DOMAIN blocks /\ o.new \in DOMAIN blocks /\ o.block # o.new
      /\ NamesIn(blocks[o.new]) = {} /\ NamesIn(blocks[o.block]) = o.before
  BY <1>2, HandedIs DEF f, s
<1>6. /\ DOMAIN blocks' = DOMAIN blocks /\ blocks'[o.block] = f
      /\ \A c \in DOMAIN blocks : c # o.block => blocks'[c] = blocks[c]
  BY <1>1, <1>5
<1>7. \A m : m \in Live(blocks) <=> m \in Name /\ (m \in o.before \/ Elsewhere(o, blocks, m))
  BY <1>5, LiveParts
<1>8. \A m : Elsewhere(o, blocks', m) <=> Elsewhere(o, blocks, m)
  BY <1>5, <1>6 DEF Elsewhere
<1>9. \A m : m \in Live(blocks') <=> m \in Name /\ (m \in NamesIn(f) \/ Elsewhere(o, blocks, m))
  <2>1. o.block \in DOMAIN blocks' /\ o.new \in DOMAIN blocks' /\ blocks'[o.new] = blocks[o.new]
    BY <1>5, <1>6
  <2>2. \A m : m \in Live(blocks') <=>
               /\ m \in Name
               /\ m \in NamesIn(blocks'[o.block]) \/ m \in NamesIn(blocks'[o.new]) \/ Elsewhere(o, blocks', m)
    BY <2>1, LiveParts
  <2>3. QED
    BY <1>5, <1>6, <1>8, <2>1, <2>2
<1>10. (\A u \in Thread : pc[u] # "putNew") /\ Listing = Live(blocks)
  BY <1>1, NonePuts, ListingIs
<1>11. Listing' = (Live(blocks') \ {o.name}) \cup o.before
  BY <1>2, <1>4, <1>10, ListingMoved DEF Others
<1>12. \A m : m \in (Live(blocks') \ {o.name}) \cup o.before <=> m \in Live(blocks)
  BY <1>5, <1>7, <1>9
<1>13. Listing' = Listing
  BY <1>10, <1>11, <1>12
<1>14. Handed("putNew", o, blocks')
  <2>1. \A c \in DOMAIN blocks \ {o.block, o.new} : blocks'[c] = blocks[c]
    BY <1>6
  <2>2. blocks'[o.new] = blocks[o.new]
    BY <1>5, <1>6
  <2>3. QED
    BY <1>2, <1>6, <2>1, <2>2 DEF Handed, f
<1>15. QED
  BY <1>1, <1>4, <1>13, <1>14, SplitMaps DEF SplitPc

\* The new name comes.
LEMMA PutNewMaps ==
    ASSUME IInv, HInv, ShortNames, NEW t \in Thread, PutNew(t)
    PROVE  HInv' /\ Map!Next
<1> DEFINE o == op[t]
           f == Filled(FirstHalf(o))
           s == Filled(SecondHalf(o))
           n == o.name
<1>1. /\ pc[t] = "putNew" /\ ~Halted /\ Finish(t, {}) /\ Witness
      /\ hashed' = hashed /\ blocks' = [blocks EXCEPT ![o.new] = s]
  BY DEF PutNew, At
<1>2. TypeOK /\ Handed("putNew", o, blocks) /\ hashed
  BY <1>1 DEF IInv, HInv, Recalls, Fits, Parted
<1>3. PICK p \in {"idle", "told"}, w \in OpSet : Moves(t, p, w) /\ Asks(p, w) = {} /\ Tells(p, w) = {}
  BY <1>1, FinishTells
<1>4. Recorded(t, p, w) /\ Asked(t) = {} /\ Told(t) = {}
  BY <1>1, <1>2, <1>3 DEF Recorded, Asked, Told
<1>5. (\A u \in Others(t) : ~In(pc[u])) /\ (\A u \in Others(t) : pc[u] # "putNew")
  BY <1>1, SplitsAlone DEF SplitPc, In
<1>6. Listing = (Live(blocks) \ {n}) \cup o.before /\ Listing' = Live(blocks')
  BY <1>1, <1>2, <1>3, <1>5, ListingPut, ListingMoved
<1> HIDE DEF f, s
<1>7. /\ \A m : m \in NamesIn(f) \/ m \in NamesIn(s) <=> m \in o.before \/ m = n
      /\ o.before \subseteq Name /\ n \in Name /\ n \notin o.before
      /\ \A m : Elsewhere(o, blocks, m) => m \notin o.before /\ m # n
      /\ o.block \in DOMAIN blocks /\ o.new \in DOMAIN blocks /\ o.block # o.new
      /\ NamesIn(blocks[o.new]) = {} /\ blocks[o.block] = f
  BY <1>2, HandedIs DEF f, s
<1>8. /\ DOMAIN blocks' = DOMAIN blocks /\ blocks'[o.new] = s
      /\ \A c \in DOMAIN blocks : c # o.new => blocks'[c] = blocks[c]
  BY <1>1, <1>7
<1>9. \A m : m \in Live(blocks) <=> m \in Name /\ (m \in NamesIn(f) \/ Elsewhere(o, blocks, m))
  BY <1>7, LiveParts
<1>10. \A m : Elsewhere(o, blocks', m) <=> Elsewhere(o, blocks, m)
  BY <1>7, <1>8 DEF Elsewhere
<1>11. \A m : m \in Live(blocks') <=> m \in Name /\ (m \in o.before \/ m = n \/ Elsewhere(o, blocks, m))
  <2>1. o.block \in DOMAIN blocks' /\ o.new \in DOMAIN blocks' /\ blocks'[o.block] = f
    BY <1>7, <1>8
  <2>2. \A m : m \in Live(blocks') <=>
               /\ m \in Name
               /\ m \in NamesIn(blocks'[o.block]) \/ m \in NamesIn(blocks'[o.new]) \/ Elsewhere(o, blocks', m)
    BY <2>1, LiveParts
  <2>3. QED
    BY <1>7, <1>8, <1>10, <2>1, <2>2
<1>12. \A m : m \in Listing <=> m \in Name /\ (m \in o.before \/ Elsewhere(o, blocks, m))
  BY <1>6, <1>7, <1>9
<1>13. \A m : m \in Listing' <=> m \in Listing \/ m = n
  BY <1>6, <1>7, <1>11, <1>12
<1>14. n \notin Listing /\ n \in Name
  BY <1>7, <1>12
<1> HIDE DEF n
<1>15. Listing' = Listing \cup {n}
  BY <1>13
<1>16. \E m \in Name : Map!Add(m)
  BY <1>3, <1>4, <1>14, <1>15, MapAdds
<1>17. OthersSee(t)
  BY <1>5, AloneSee
<1>18. HInv'
  BY <1>3, <1>4, <1>17, HistoriesMoved
<1>19. QED
  BY <1>16, <1>18, AddIs

\* Whoever is at the end of a split, the names of the directory stay when another
\* thread that is not inside goes on.
LEMMA ForgetMaps ==
    ASSUME IInv, HInv, NEW t \in Thread, Forget(t)
    PROVE  HInv' /\ Map!Next
<1>1. /\ pc[t] = "told" /\ ~Halted /\ UNCHANGED dirVars /\ Witness
      /\ pc' = [pc EXCEPT ![t] = "idle"] /\ op' = [op EXCEPT ![t] = NoOp]
  BY DEF Forget, At
<1>2. Moves(t, "idle", NoOp) /\ TypeOK
  BY <1>1, ToldIs DEF Moves, PcSet, IInv
<1>3. Asks("idle", NoOp) = {} /\ Tells("idle", NoOp) = {} /\ Asked(t) = {}
  BY <1>1 DEF Asks, Tells, Asked
<1>4. hashed' = hashed /\ blocks' = blocks
  BY <1>1 DEF dirVars
<1>5. Recorded(t, "idle", NoOp)
  BY <1>1, <1>2, <1>3, <1>4 DEF Recorded
<1>6. Listing' = Listing
  <2>1. CASE \A u \in Thread : pc[u] # "putNew"
    BY <1>1, <1>2, <2>1, ListingStays
  <2>2. CASE \E u \in Thread : pc[u] = "putNew"
    <3>1. PICK u \in Thread : pc[u] = "putNew"
      BY <2>2
    <3>2. u # t /\ \A v \in Others(u) : pc[v] # "putNew"
      BY <1>1, <3>1, SplitsAlone DEF SplitPc, In
    <3>3. pc \in [Thread -> PcSet] /\ op \in [Thread -> OpSet]
      BY <1>2 DEF TypeOK
    <3>4. pc'[t] = "idle" /\ \A v \in Thread : v # t => pc'[v] = pc[v] /\ op'[v] = op[v]
      <4> HIDE DEF PcSet, OpSet, NoOp
      <4>1. QED
        BY <1>1, <3>3
    <3>5. Listing = (Live(blocks) \ {op[u].name}) \cup op[u].before
      BY <3>1, <3>2, ListingPut
    <3>6. (CHOOSE v \in Thread : pc'[v] = "putNew") = u /\ \E v \in Thread : pc'[v] = "putNew"
      BY <3>1, <3>2, <3>4 DEF Others
    <3>7. Listing' = (Live(blocks') \ {op'[u].name}) \cup op'[u].before
      BY <3>6 DEF Listing, Live
    <3>8. op'[u] = op[u]
      BY <3>1, <3>2, <3>4
    <3>9. QED
      BY <1>4, <3>5, <3>7, <3>8
  <2>3. QED
    BY <2>1, <2>2
<1>7. Map!Forget(t)
  BY <1>3, <1>5, <1>6, MapForgets
<1>8. OthersSee(t)
  BY <1>1, <1>5, <1>6, SeeSame
<1>9. HInv'
  BY <1>5, <1>8, HistoriesMoved
<1>10. QED
  BY <1>7, <1>9, ForgetIs

-----------------------------------------------------------------------------
(* The directory is a set of names.                                        *)

LEMMA InitMaps == Init => HInv /\ Map!Init
<1>1. SUFFICES ASSUME Init PROVE HInv /\ Map!Init
  OBVIOUS
<1>2. /\ pc = [t \in Thread |-> "idle"] /\ always = [t \in Thread |-> {}] /\ ever = [t \in Thread |-> {}]
  BY <1>1 DEF Init
<1>3. \A t \in Thread : pc[t] = "idle" /\ always[t] = {} /\ ever[t] = {} /\ Asked(t) = {} /\ Told(t) = {}
  BY <1>2 DEF Asked, Told
<1>4. HInv
  BY <1>2, <1>3 DEF HInv, Recalls
<1>5. Listing \in SUBSET Name
  <2>1. Listing = Live(blocks)
    BY <1>3, ListingIs
  <2>2. QED
    BY <2>1 DEF Live
<1>6. AskMap = [t \in Thread |-> {}] /\ ToldMap = [t \in Thread |-> {}]
  BY <1>3 DEF AskMap, ToldMap
<1>7. Map!Init
  BY <1>2, <1>5, <1>6 DEF Map!Init, AskMap, ToldMap, Told
<1>8. QED
  BY <1>4, <1>7

LEMMA NextMaps ==
    ASSUME IInv, HInv, Promised, [Next]_vars
    PROVE  HInv' /\ [Map!Next]_(Map!vars)
<1>1. CASE UNCHANGED vars
  <2>1. /\ hashed' = hashed /\ index' = index /\ blocks' = blocks /\ size' = size
        /\ pc' = pc /\ op' = op /\ always' = always /\ ever' = ever
    BY <1>1 DEF vars, dirVars
  <2>2. Listing' = Listing
    BY <2>1 DEF Listing, Live
  <2>3. \A t \in Thread : Asked(t)' = Asked(t)
    BY <2>1 DEF Asked
  <2>4. (Halted' <=> Halted) /\ \A t \in Thread : Recalls(t) => Recalls(t)'
    BY <2>1, <2>2, <2>3 DEF Halted, Recalls
  <2>5. HInv'
    BY <2>1, <2>4 DEF HInv
  <2>6. AskMap' = AskMap /\ ToldMap' = ToldMap
    BY <2>1, <2>3 DEF AskMap, ToldMap, Told
  <2>7. UNCHANGED Map!vars
    BY <2>1, <2>2, <2>6 DEF Map!vars, AskMap, ToldMap, Told
  <2>8. QED
    BY <2>5, <2>7
<1>2. CASE Next
  <2>1. PICK t \in Thread : Start(t) \/ LinearAdd(t) \/ Visit(t) \/ Split(t) \/ Forget(t)
    BY <1>2 DEF Next
  <2>2. CASE Start(t)
    BY <2>2, StartsMap, StartAddMaps DEF Start, Promised
  <2>3. CASE LinearAdd(t)
    BY <2>3, LinearAddMaps
  <2>4. CASE Visit(t)
    BY <2>4, FindInMaps, RemoveInMaps, ListInMaps, AddInMaps, EndOfCursorMaps DEF Visit
  <2>5. CASE Split(t)
    <3>1. ShortNames /\ HashesApart
      BY DEF Promised
    <3>2. QED
      BY <2>5, <3>1, GatherMaps, GrowMaps, GrowFailsMaps, LinkMaps, PutOldMaps, PutNewMaps DEF Split
  <2>6. CASE Forget(t)
    BY <2>6, ForgetMaps
  <2>7. QED
    BY <2>1, <2>2, <2>3, <2>4, <2>5, <2>6
<1>3. QED
  BY <1>1, <1>2

\* find_entry, remove_entry, fill_dir_from and add_entry of several threads are lookups,
\* removals, listings and additions of one set of names: no name that is there all the
\* time is missed, none that was never there is shown, and a split loses none.  This asks
\* for callers that keep the discipline, entries of at most a quarter of a block, names
\* of different hashes, and no listing of a linear directory; a directory another
\* implementation left with names of one hash, or long ones, is not promised anything.
THEOREM ImplementsNameMap == Promised => (Spec => NameMapSpec)
<1>1. SUFFICES ASSUME Promised PROVE Spec => NameMapSpec
  OBVIOUS
<1>2. Init => IInv /\ HInv /\ Map!Init
  BY InitKeeps, InitMaps
<1>3. IInv /\ HInv /\ [Next]_vars => IInv' /\ HInv' /\ [Map!Next]_(Map!vars)
  <2>1. Disciplined
    BY <1>1 DEF Promised
  <2>2. QED
    BY <1>1, <2>1, NextKeeps, NextMaps
<1>4. QED
  BY <1>2, <1>3, PTL DEF Spec, NameMapSpec, Map!Spec
===============================================================================
