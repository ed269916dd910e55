----------------------------- MODULE BuddyProofs -----------------------------
(***************************************************************************)
(* Theorems about Buddy, for any number of blocks, threads and orders.     *)
(***************************************************************************)
EXTENDS Buddy, FiniteSetTheorems, TLAPS

-----------------------------------------------------------------------------
(* Arithmetic that the size classes (1 << order) and the searches for a    *)
(* smallest or largest one rest on.                                        *)

\* The length of a chunk, 1 << order, as the number of subsets of a set.
LEMMA PowerIsCardinality ==
    ASSUME NEW n \in Nat
    PROVE  IsFiniteSet(SUBSET (1 .. n)) /\ 2 ^ n = Cardinality(SUBSET (1 .. n))
<1>1. IsFiniteSet(1 .. n) /\ Cardinality(1 .. n) = n
  BY FS_Interval
<1>2. IsFiniteSet(SUBSET (1 .. n)) /\ Cardinality(SUBSET (1 .. n)) = 2 ^ Cardinality(1 .. n)
  BY <1>1, FS_SUBSET
<1>3. QED
  BY <1>1, <1>2

\* A chunk has at least one block.
LEMMA PowerPositive ==
    ASSUME NEW n \in Nat
    PROVE  2 ^ n \in Nat \ {0}
<1>1. Cardinality(SUBSET (1 .. n)) \in Nat
  BY PowerIsCardinality, FS_CardinalityType
<1>2. SUBSET (1 .. n) # {}
  OBVIOUS
<1>3. Cardinality(SUBSET (1 .. n)) # 0
  BY PowerIsCardinality, <1>2, FS_EmptySet
<1>4. QED
  BY PowerIsCardinality, <1>1, <1>3

\* A chunk of a larger order is at least as long.
LEMMA PowerGrows ==
    ASSUME NEW m \in Nat, NEW n \in Nat, m <= n
    PROVE  2 ^ m <= 2 ^ n
<1>1. SUBSET (1 .. m) \in SUBSET SUBSET (1 .. n)
  OBVIOUS
<1>2. Cardinality(SUBSET (1 .. m)) <= Cardinality(SUBSET (1 .. n))
  BY PowerIsCardinality, <1>1, FS_Subset
<1>3. QED
  BY PowerIsCardinality, <1>2

\* Every set of numbers has a least one: pop_first of a bucket, the search from
\* one order up to the next, and the induction of the lemmas below.
LEMMA LeastExists ==
    ASSUME NEW S \in SUBSET Nat, S # {}
    PROVE  \E n \in S : \A m \in S : n <= m
<1> DEFINE T == {0 .. m : m \in S}
           R == StrictSubsetOrdering(Nat)
<1>1. T \subseteq FiniteSubsetsOf(Nat)
  <2>1. \A m \in Nat : IsFiniteSet(0 .. m) /\ 0 .. m \in SUBSET Nat
    BY FS_Interval
  <2>2. QED
    BY <2>1 DEF FiniteSubsetsOf
<1>2. T # {}
  OBVIOUS
<1>3. IsWellFoundedOn(R, FiniteSubsetsOf(Nat))
  BY FS_StrictSubsetOrderingWellFounded
<1>4. \E x \in T : \A y \in T : <<y, x>> \notin R
  <2> HIDE DEF T, R
  <2>1. QED
    BY <1>1, <1>2, <1>3, WFMin
<1>5. PICK n \in S : \A m \in S : <<0 .. m, 0 .. n>> \notin R
  BY <1>4
<1>6. ASSUME NEW m \in S, m < n
      PROVE  <<0 .. m, 0 .. n>> \in R
  <2>1. m \in Nat /\ n \in Nat
    OBVIOUS
  <2>2. 0 .. m \subseteq 0 .. n /\ n \in 0 .. n /\ n \notin 0 .. m
    BY <1>6, <2>1
  <2>3. 0 .. m \in SUBSET Nat /\ 0 .. n \in SUBSET Nat
    BY <2>1
  <2>4. QED
    BY <2>2, <2>3 DEF StrictSubsetOrdering
<1>7. \A m \in S : ~ (m < n)
  BY <1>5, <1>6
<1>8. QED
  BY <1>7

\* What Min returns.
LEMMA MinIs ==
    ASSUME NEW S \in SUBSET Nat, S # {}
    PROVE  Min(S) \in S /\ \A m \in S : Min(S) <= m
  BY LeastExists DEF Min

\* What Max returns of numbers below a bound.
LEMMA MaxIs ==
    ASSUME NEW b \in Nat, NEW S \in SUBSET (0 .. b), S # {}
    PROVE  Max(S) \in S /\ \A m \in S : m <= Max(S)
<1> DEFINE T == {b - m : m \in S}
<1>1. T \in SUBSET Nat /\ T # {}
  <2>1. \A m \in S : b - m \in Nat
    OBVIOUS
  <2>2. QED
    BY <2>1
<1>2. PICK n \in T : \A m \in T : n <= m
  <2> HIDE DEF T
  <2>1. QED
    BY <1>1, LeastExists
<1>3. PICK x \in S : n = b - x
  OBVIOUS
<1>4. \A m \in S : b - x <= b - m
  BY <1>2, <1>3
<1>5. \A m \in S : x >= m
  BY <1>3, <1>4
<1>6. \E y \in S : \A m \in S : y >= m
  BY <1>5
<1>7. Max(S) \in S /\ \A m \in S : Max(S) >= m
  BY <1>6 DEF Max
<1>8. QED
  BY <1>7

-----------------------------------------------------------------------------
(* push_chunk: the pieces of a run.                                        *)

\* The loop of push_chunk has a piece for every run that is not empty.
LEMMA PieceOrderIs ==
    ASSUME NEW s \in Nat, NEW n \in Nat \ {0}
    PROVE  LET o == PieceOrder(s, n) IN
           /\ o \in Order
           /\ s % 2 ^ o = 0
           /\ 2 ^ o \in 1 .. n
<1> DEFINE S == {o \in Order : s % 2 ^ o = 0 /\ 2 ^ o <= n}
<1>1. 0 \in S
  <2>1. 2 ^ 0 = 1 /\ s % 1 = 0
    OBVIOUS
  <2>2. QED
    BY <2>1, ConstantsOK DEF ConstantsOK, Order
<1>2. S \in SUBSET (0 .. MaxOrder) /\ MaxOrder \in Nat
  BY ConstantsOK DEF Order, ConstantsOK
<1>3. Max(S) \in S
  <2> HIDE DEF S
  <2>1. QED
    BY <1>1, <1>2, MaxIs
<1>4. PieceOrder(s, n) \in S
  BY <1>3 DEF PieceOrder
<1>5. \A o \in S : 2 ^ o \in Nat \ {0}
  BY PowerPositive DEF Order
<1>6. QED
  BY <1>4, <1>5

\* The recursion of Pieces over a run that ends at end.
Cutting(cut, end, first) ==
    cut = [s \in first .. end |->
             IF s = end THEN {}
             ELSE LET o == PieceOrder(s, end - s)
                  IN  {<<s, o>>} \cup cut[s + 2 ^ o]]

\* The recursion has a solution: the loop of push_chunk always ends, because
\* every piece moves the start of the rest towards the end.
LEMMA CuttingExists ==
    ASSUME NEW end \in Nat, NEW first \in 0 .. end
    PROVE  \E cut : Cutting(cut, end, first)
<1> DEFINE Bad == {k \in Nat : k <= end /\ ~ \E cut : Cutting(cut, end, end - k)}
<1>1. SUFFICES Bad = {}
  <2>1. end - first \notin Bad
    BY <1>1
  <2>2. end - first \in Nat /\ end - first <= end /\ end - (end - first) = first
    OBVIOUS
  <2>3. QED
    BY <2>1, <2>2
<1>2. ASSUME NEW k \in Bad, \A m \in Bad : k <= m
      PROVE  FALSE
  <2>1. k \in Nat /\ k <= end /\ ~ \E cut : Cutting(cut, end, end - k)
    OBVIOUS
  <2>2. CASE k = 0
    <3> DEFINE cut == [s \in end .. end |-> {}]
    <3>1. Cutting(cut, end, end)
      BY DEF Cutting
    <3>2. QED
      BY <2>1, <2>2, <3>1
  <2>3. CASE k # 0
    <3>1. k - 1 \in Nat /\ k - 1 <= end /\ k - 1 \notin Bad
      BY <1>2, <2>1, <2>3
    <3>2. PICK g : Cutting(g, end, end - (k - 1))
      BY <3>1
    <3> DEFINE a == end - k
               body(s) == LET o == PieceOrder(s, end - s)
                          IN  {<<s, o>>} \cup g[s + 2 ^ o]
               cut == [s \in a .. end |-> IF s = a THEN body(a) ELSE g[s]]
    <3>3. a \in Nat /\ a < end /\ end - (k - 1) = a + 1
      BY <2>1, <2>3
    <3>4. \A s \in a .. end - 1 :
             /\ PieceOrder(s, end - s) \in Order
             /\ s + 2 ^ PieceOrder(s, end - s) \in s + 1 .. end
      <4>1. SUFFICES ASSUME NEW s \in a .. end - 1
                     PROVE  /\ PieceOrder(s, end - s) \in Order
                            /\ s + 2 ^ PieceOrder(s, end - s) \in s + 1 .. end
        OBVIOUS
      <4>2. s \in Nat /\ end - s \in Nat \ {0}
        BY <3>3
      <4> DEFINE o == PieceOrder(s, end - s)
      <4>3. o \in Order /\ 2 ^ o \in 1 .. end - s
        BY <4>2, PieceOrderIs
      <4> HIDE DEF o
      <4>4. s + 2 ^ o \in s + 1 .. end
        BY <4>2, <4>3
      <4>5. QED
        BY <4>3, <4>4 DEF o
    <3>5. \A s \in a + 1 .. end :
             g[s] = IF s = end THEN {} ELSE body(s)
      BY <3>2, <3>3 DEF Cutting
    <3>6. \A s \in a .. end :
             cut[s] = IF s = end THEN {}
                      ELSE LET o == PieceOrder(s, end - s)
                           IN  {<<s, o>>} \cup cut[s + 2 ^ o]
      <4>1. \A s \in a + 1 .. end : cut[s] = g[s]
        BY <3>3
      <4>2. cut[a] = body(a)
        BY <3>3
      <4> HIDE DEF cut
      <4>3. ASSUME NEW s \in a .. end, s # end
            PROVE  cut[s] = LET o == PieceOrder(s, end - s)
                            IN  {<<s, o>>} \cup cut[s + 2 ^ o]
        <5>1. s \in a .. end - 1
          BY <3>3, <4>3
        <5>2. s + 2 ^ PieceOrder(s, end - s) \in a + 1 .. end
          BY <3>3, <3>4, <5>1
        <5>3. cut[s + 2 ^ PieceOrder(s, end - s)] = g[s + 2 ^ PieceOrder(s, end - s)]
          BY <4>1, <5>2
        <5>4. cut[s] = body(s)
          <6>1. CASE s = a
            BY <4>2, <6>1
          <6>2. CASE s # a
            <7>1. s \in a + 1 .. end
              BY <3>3, <6>2
            <7>2. QED
              BY <3>5, <4>1, <4>3, <7>1
          <6>3. QED
            BY <6>1, <6>2
        <5>5. QED
          BY <5>3, <5>4
      <4>4. cut[end] = {}
        <5>1. end \in a + 1 .. end
          BY <3>3
        <5>2. QED
          BY <3>5, <4>1, <5>1
      <4>5. QED
        BY <4>3, <4>4
    <3>7. Cutting(cut, end, a)
      <4>1. cut = [s \in a .. end |-> cut[s]]
        OBVIOUS
      <4> HIDE DEF cut
      <4>2. QED
        BY <3>6, <4>1 DEF Cutting
    <3>8. QED
      BY <2>1, <3>7
  <2>4. QED
    BY <2>2, <2>3
<1>3. Bad \in SUBSET Nat
  OBVIOUS
<1>4. QED
  <2> HIDE DEF Bad
  <2>1. QED
    BY <1>2, <1>3, LeastExists

\* Pieces is the value of that recursion at the start of the run.
LEMMA PiecesUnfolds ==
    ASSUME NEW start, NEW len
    PROVE  Pieces(start, len) = (CHOOSE cut : Cutting(cut, start + len, start))[start]
  BY DEF Pieces, Cutting

\* A piece is a first block and an order; two pieces do not touch each other.
Apart(c, d) == c[1] + 2 ^ c[2] <= d[1] \/ d[1] + 2 ^ d[2] <= c[1]

Inside(c, x) == c[1] <= x /\ x < c[1] + 2 ^ c[2]

\* The pieces of chunks are aligned, lie between first and end, do not touch each
\* other and leave nothing out.
Tiles(chunks, first, end) ==
    /\ chunks \subseteq (first .. end - 1) \X Order
    /\ \A c \in chunks : c[1] % 2 ^ c[2] = 0 /\ c[1] + 2 ^ c[2] <= end
    /\ \A c, d \in chunks : c # d => Apart(c, d)
    /\ \A x \in first .. end - 1 : \E c \in chunks : Inside(c, x)

\* One round of the loop of push_chunk: a piece in front of the others.
LEMMA TilesGrow ==
    ASSUME NEW first \in Nat, NEW end \in Nat, NEW o \in Order, NEW chunks,
           first % 2 ^ o = 0, first + 2 ^ o <= end, Tiles(chunks, first + 2 ^ o, end)
    PROVE  Tiles({<<first, o>>} \cup chunks, first, end)
<1> DEFINE piece == <<first, o>>
           next == first + 2 ^ o
<1>1. 2 ^ o \in Nat \ {0} /\ next \in Nat /\ next > first /\ next <= end
  <2>1. 2 ^ o \in Nat \ {0}
    BY PowerPositive, ConstantsOK DEF Order, ConstantsOK
  <2>2. QED
    BY <2>1
<1>2. \A c \in chunks : c \in (next .. end - 1) \X Order
  BY DEF Tiles
<1>3. \A c \in chunks : c[1] \in next .. end - 1 /\ c[2] \in Order
  BY <1>2
<1>4. {piece} \cup chunks \subseteq (first .. end - 1) \X Order
  <2>1. next .. end - 1 \subseteq first .. end - 1 /\ first \in first .. end - 1
    BY <1>1
  <2> HIDE DEF next
  <2>2. QED
    BY <1>2, <2>1
<1>5. \A c \in chunks : Apart(piece, c) /\ Apart(c, piece)
  <2> SUFFICES ASSUME NEW c \in chunks
               PROVE  Apart(piece, c) /\ Apart(c, piece)
    OBVIOUS
  <2>1. next <= c[1]
    BY <1>1, <1>3
  <2>2. piece[1] + 2 ^ piece[2] = next
    OBVIOUS
  <2> HIDE DEF next, piece
  <2>3. QED
    BY <2>1, <2>2 DEF Apart
<1>6. \A c, d \in {piece} \cup chunks : c # d => Apart(c, d)
  <2> HIDE DEF piece
  <2>1. \A c, d \in chunks : c # d => Apart(c, d)
    BY DEF Tiles
  <2>2. QED
    BY <1>5, <2>1
<1>7. \A c \in {piece} \cup chunks : c[1] % 2 ^ c[2] = 0 /\ c[1] + 2 ^ c[2] <= end
  <2>1. piece[1] % 2 ^ piece[2] = 0 /\ piece[1] + 2 ^ piece[2] <= end
    BY Zenon
  <2> HIDE DEF piece
  <2>2. QED
    BY <2>1 DEF Tiles
<1>8. \A x \in first .. end - 1 : \E c \in {piece} \cup chunks : Inside(c, x)
  <2> SUFFICES ASSUME NEW x \in first .. end - 1
               PROVE  \E c \in {piece} \cup chunks : Inside(c, x)
    OBVIOUS
  <2>1. CASE x < next
    <3>1. Inside(piece, x)
      BY <1>1, <2>1 DEF Inside
    <3>2. QED
      BY <3>1
  <2>2. CASE x >= next
    <3>1. x \in next .. end - 1
      BY <1>1, <2>2
    <3>2. QED
      BY <3>1 DEF Tiles
  <2>3. QED
    BY <1>1, <2>1, <2>2
<1> HIDE DEF piece
<1>9. QED
  BY <1>4, <1>6, <1>7, <1>8 DEF Tiles, piece

\* Nothing tiles an empty run.
LEMMA TilesEmpty ==
    ASSUME NEW end \in Nat
    PROVE  Tiles({}, end, end)
  BY DEF Tiles

\* The pieces of push_chunk tile the run it was called with.
LEMMA PiecesTile ==
    ASSUME NEW start \in Nat, NEW len \in Nat
    PROVE  Tiles(Pieces(start, len), start, start + len)
<1> DEFINE end == start + len
<1>1. end \in Nat /\ start \in 0 .. end
  OBVIOUS
<1>2. PICK cut : Cutting(cut, end, start) /\ Pieces(start, len) = cut[start]
  <2> HIDE DEF end
  <2>1. \E cut : Cutting(cut, end, start)
    BY <1>1, CuttingExists
  <2>2. Cutting(CHOOSE cut : Cutting(cut, end, start), end, start)
    BY <2>1
  <2>3. QED
    BY <2>2, PiecesUnfolds DEF end
<1>3. \A s \in start .. end :
         cut[s] = IF s = end THEN {}
                  ELSE LET o == PieceOrder(s, end - s)
                       IN  {<<s, o>>} \cup cut[s + 2 ^ o]
  <2> HIDE DEF end
  <2>1. QED
    BY <1>2 DEF Cutting
<1> HIDE DEF end
<1> DEFINE Bad == {k \in Nat : k <= end - start /\ ~ Tiles(cut[end - k], end - k, end)}
<1>4. ASSUME NEW k \in Bad, \A m \in Bad : k <= m
      PROVE  FALSE
  <2>1. k \in Nat /\ k <= end - start /\ ~ Tiles(cut[end - k], end - k, end)
    OBVIOUS
  <2>2. CASE k = 0
    <3>1. end - k = end /\ end \in start .. end
      BY <1>1, <2>2
    <3>2. cut[end] = {}
      BY <1>3, <3>1
    <3>3. QED
      BY <1>1, <2>1, <3>1, <3>2, TilesEmpty
  <2>3. CASE k # 0
    <3> DEFINE s == end - k
               o == PieceOrder(s, k)
               next == s + 2 ^ o
    <3>1. s \in Nat /\ s \in start .. end /\ s # end /\ end - s = k /\ k \in Nat \ {0}
      BY <1>1, <2>1, <2>3
    <3>2. o \in Order /\ s % 2 ^ o = 0 /\ 2 ^ o \in 1 .. k
      BY <3>1, PieceOrderIs
    <3>3. cut[s] = {<<s, o>>} \cup cut[next]
      <4> HIDE DEF s
      <4>1. QED
        BY <1>3, <3>1
    <3> HIDE DEF o
    <3>4. next \in Nat /\ next <= end
      BY <1>1, <3>1, <3>2
    <3>5. end - next \in Nat /\ end - next < k /\ end - (end - next) = next
      BY <1>1, <3>1, <3>2, <3>4
    <3>6. Tiles(cut[next], next, end)
      <4> HIDE DEF next
      <4>1. end - next \notin Bad
        BY <1>4, <2>1, <3>5
      <4>2. end - next <= end - start
        BY <1>1, <2>1, <3>5
      <4>3. QED
        BY <3>5, <4>1, <4>2
    <3> HIDE DEF s
    <3>7. Tiles({<<s, o>>} \cup cut[next], s, end)
      BY <1>1, <3>1, <3>2, <3>4, <3>6, TilesGrow
    <3>8. QED
      BY <2>1, <3>3, <3>7 DEF s
  <2>4. QED
    BY <2>2, <2>3
<1>5. Bad \in SUBSET Nat
  OBVIOUS
<1>6. Bad = {}
  <2> HIDE DEF Bad
  <2>1. QED
    BY <1>4, <1>5, LeastExists
<1>7. end - start \in Nat /\ end - (end - start) = start
  BY <1>1
<1>8. Tiles(cut[end - (end - start)], end - (end - start), end)
  BY <1>6, <1>7
<1>9. QED
  BY <1>2, <1>7, <1>8 DEF end

-----------------------------------------------------------------------------
(* build_buddy: the chunks of the free runs of the bitmaps at mount.       *)

\* A block is free in the bitmaps at mount.
Zero(used, p) == p \in Lba \ used

\* What build_buddy calls push_chunk with: the runs of zeros, each as long as it
\* can be, so that no two meet.
LEMMA FreeRunsAre ==
    ASSUME NEW used \in SUBSET Lba
    PROVE  /\ \A r \in FreeRuns(used) :
                /\ r[1] \in Lba /\ r[2] \in Nat /\ r[1] + r[2] <= Blocks
                /\ \A x \in r[1] .. r[1] + r[2] - 1 : Zero(used, x)
           /\ \A r, q \in FreeRuns(used) :
                r # q => r[1] + r[2] <= q[1] \/ q[1] + q[2] <= r[1]
           /\ \A x \in Lba \ used : \E r \in FreeRuns(used) :
                x \in r[1] .. r[1] + r[2] - 1
<1> DEFINE Ends(p) == {q \in p .. Blocks : ~ Zero(used, q)}
           End(p) == Min(Ends(p))
           Starts == {q \in Lba : Zero(used, q) /\ ~ Zero(used, q - 1)}
<1>1. FreeRuns(used) = {<<p, End(p) - p>> : p \in Starts}
  BY DEF FreeRuns, Zero
<1>2. ASSUME NEW p \in Lba
      PROVE  /\ End(p) \in p .. Blocks /\ ~ Zero(used, End(p))
             /\ \A x \in p .. End(p) - 1 : Zero(used, x)
  <2>1. Blocks \in Ends(p) /\ Ends(p) \in SUBSET Nat
    BY ConstantsOK DEF Zero, Lba, ConstantsOK
  <2>2. End(p) \in Ends(p) /\ \A m \in Ends(p) : End(p) <= m
    <3> HIDE DEF Ends
    <3>1. QED
      BY <2>1, MinIs
  <2>3. p \in Nat /\ End(p) \in p .. Blocks /\ ~ Zero(used, End(p))
    BY <2>2 DEF Lba
  <2>4. ASSUME NEW x \in p .. End(p) - 1
        PROVE  Zero(used, x)
    <3> HIDE DEF End
    <3>1. x \in p .. Blocks /\ ~ (End(p) <= x)
      BY <2>3, <2>4, ConstantsOK DEF ConstantsOK
    <3>2. x \notin Ends(p)
      BY <2>2, <3>1
    <3>3. QED
      BY <3>1, <3>2
  <2> HIDE DEF Ends, End
  <2>5. QED
    BY <2>3, <2>4
<1> HIDE DEF End
<1>3. \A p \in Starts : p \in Nat /\ p < Blocks /\ End(p) \in Nat /\ End(p) <= Blocks /\ p < End(p)
  <2> SUFFICES ASSUME NEW p \in Starts
               PROVE  p \in Nat /\ p < Blocks /\ End(p) \in Nat /\ End(p) <= Blocks /\ p < End(p)
    OBVIOUS
  <2>1. p \in Lba /\ Zero(used, p)
    OBVIOUS
  <2>2. p # End(p)
    BY <1>2, <2>1
  <2>3. End(p) \in p .. Blocks
    BY <1>2, <2>1
  <2>4. QED
    BY <2>1, <2>2, <2>3, ConstantsOK DEF Lba, ConstantsOK
<1>4. ASSUME NEW r \in FreeRuns(used)
      PROVE  /\ r[1] \in Lba /\ r[2] \in Nat /\ r[1] + r[2] <= Blocks
             /\ \A x \in r[1] .. r[1] + r[2] - 1 : Zero(used, x)
             /\ r[1] \in Starts /\ r[1] + r[2] = End(r[1]) /\ r = <<r[1], End(r[1]) - r[1]>>
  <2>1. PICK p \in Starts : r = <<p, End(p) - p>>
    BY <1>1
  <2>2. r[1] = p /\ r[2] = End(p) - p
    BY <2>1
  <2>3. p + (End(p) - p) = End(p) /\ End(p) - p \in Nat /\ End(p) <= Blocks
    BY <1>3
  <2>4. p \in Lba
    OBVIOUS
  <2>5. \A x \in p .. End(p) - 1 : Zero(used, x)
    BY <1>2, <2>4
  <2>6. r[1] + r[2] = End(p)
    BY <2>2, <2>3
  <2>7. r = <<r[1], End(r[1]) - r[1]>>
    BY <2>1, <2>2
  <2>8. \A x \in r[1] .. r[1] + r[2] - 1 : Zero(used, x)
    <3>1. r[1] .. r[1] + r[2] - 1 = p .. End(p) - 1
      <4>1. p + (End(p) - p) - 1 = End(p) - 1
        BY <1>3
      <4>2. QED
        BY <2>2, <4>1
    <3>2. QED
      BY <2>5, <3>1, Zenon
  <2> HIDE DEF Starts
  <2>9. QED
    BY <2>2, <2>3, <2>4, <2>6, <2>7, <2>8
<1>5. ASSUME NEW p \in Starts, NEW q \in Starts, p < q
      PROVE  End(p) <= q
  <2>1. ~ Zero(used, q - 1) /\ p \in Lba
    OBVIOUS
  <2>2. p \in Nat /\ q \in Nat /\ End(p) \in Nat
    BY <1>3
  <2>3. q - 1 \notin p .. End(p) - 1
    BY <1>2, <2>1
  <2>4. QED
    BY <1>5, <2>2, <2>3
<1>6. ASSUME NEW r \in FreeRuns(used), NEW q \in FreeRuns(used), r # q
      PROVE  r[1] + r[2] <= q[1] \/ q[1] + q[2] <= r[1]
  <2>1. r[1] \in Starts /\ r[1] + r[2] = End(r[1]) /\ q[1] \in Starts /\ q[1] + q[2] = End(q[1])
    BY <1>4
  <2>2. r[1] # q[1]
    BY <1>4, <1>6
  <2>3. r[1] < q[1] \/ q[1] < r[1]
    BY <1>3, <2>1, <2>2
  <2> HIDE DEF Starts
  <2>4. QED
    BY <1>5, <2>1, <2>3
<1>7. ASSUME NEW x \in Lba \ used
      PROVE  \E r \in FreeRuns(used) : x \in r[1] .. r[1] + r[2] - 1
  <2> DEFINE S == {k \in Nat : k <= x + 1 /\ ~ Zero(used, x - k)}
  <2>1. x \in Nat /\ x < Blocks /\ Zero(used, x)
    BY ConstantsOK DEF Lba, Zero, ConstantsOK
  <2>2. x + 1 \in S
    <3>1. ~ Zero(used, x - (x + 1))
      BY <2>1 DEF Zero, Lba
    <3>2. QED
      BY <2>1, <3>1
  <2>3. PICK k \in S : \A m \in S : k <= m
    <3>1. S \in SUBSET Nat
      OBVIOUS
    <3> HIDE DEF S
    <3>2. QED
      BY <2>2, <3>1, LeastExists
  <2>4. k \in Nat /\ k <= x + 1 /\ ~ Zero(used, x - k)
    OBVIOUS
  <2>5. k # 0
    BY <2>1, <2>4
  <2> DEFINE p == x - (k - 1)
  <2>6. k - 1 \in Nat /\ k - 1 <= x /\ ~ (k <= k - 1)
    BY <2>1, <2>4, <2>5
  <2>7. Zero(used, p)
    BY <2>1, <2>3, <2>6
  <2>8. p \in Starts
    <3>1. p - 1 = x - k
      BY <2>1, <2>4
    <3>2. p \in Lba
      BY <2>7 DEF Zero
    <3> HIDE DEF p
    <3>3. QED
      BY <2>4, <2>7, <3>1, <3>2
  <2>9. x < End(p)
    <3>1. \A y \in p .. x : Zero(used, y)
      <4> SUFFICES ASSUME NEW y \in p .. x
                   PROVE  Zero(used, y)
        OBVIOUS
      <4>1. x - y \in Nat /\ x - y <= x + 1 /\ ~ (k <= x - y) /\ x - (x - y) = y
        BY <2>1, <2>6
      <4>2. QED
        BY <2>3, <4>1
    <3> HIDE DEF p
    <3>2. p \in Lba /\ p \in Nat /\ End(p) \in Nat /\ p <= End(p) /\ ~ Zero(used, End(p))
      BY <1>2, <1>3, <2>8
    <3>3. End(p) \notin p .. x
      BY <3>1, <3>2
    <3>4. QED
      BY <2>1, <3>2, <3>3
  <2>10. p <= x /\ p \in Nat
    BY <2>1, <2>6
  <2> HIDE DEF p, Starts
  <2>11. <<p, End(p) - p>> \in FreeRuns(used)
    BY <1>1, <2>8
  <2>12. x \in p .. p + (End(p) - p) - 1
    BY <1>3, <2>1, <2>8, <2>9, <2>10
  <2> DEFINE r == <<p, End(p) - p>>
  <2>13. r[1] = p /\ r[2] = End(p) - p
    OBVIOUS
  <2>14. x \in r[1] .. r[1] + r[2] - 1
    BY <2>12, <2>13
  <2> HIDE DEF r
  <2>15. QED
    BY <2>11, <2>14 DEF r
<1> HIDE DEF Starts
<1>8. QED
  BY <1>4, <1>6, <1>7

\* The chunks that build_buddy makes of the free blocks.
Chunks(used) == UNION {Pieces(r[1], r[2]) : r \in FreeRuns(used)}

\* At mount the chunks are exactly the free blocks, each in one of them.
LEMMA ChunksAtMount ==
    ASSUME NEW used \in SUBSET Lba
    PROVE  /\ Chunks(used) \subseteq Lba \X Order
           /\ \A c \in Chunks(used) : c[1] % 2 ^ c[2] = 0 /\ c[1] + 2 ^ c[2] <= Blocks
           /\ \A c, d \in Chunks(used) : c # d => Apart(c, d)
           /\ \A c \in Chunks(used), x \in Int : Inside(c, x) => x \in Lba \ used
           /\ \A x \in Lba \ used : \E c \in Chunks(used) : Inside(c, x)
<1>1. ASSUME NEW r \in FreeRuns(used)
      PROVE  /\ r[1] \in Nat /\ r[2] \in Nat /\ r[1] + r[2] \in Nat /\ r[1] + r[2] <= Blocks
             /\ Tiles(Pieces(r[1], r[2]), r[1], r[1] + r[2])
  <2>1. r[1] \in Lba /\ r[2] \in Nat /\ r[1] + r[2] <= Blocks
    BY FreeRunsAre
  <2>2. r[1] \in Nat /\ r[1] + r[2] \in Nat
    BY <2>1 DEF Lba
  <2>3. QED
    BY <2>1, <2>2, PiecesTile
<1>2. ASSUME NEW r \in FreeRuns(used), NEW c \in Pieces(r[1], r[2])
      PROVE  /\ c \in Lba \X Order /\ c[1] \in Nat /\ 2 ^ c[2] \in Nat \ {0}
             /\ c[1] % 2 ^ c[2] = 0
             /\ r[1] <= c[1] /\ c[1] + 2 ^ c[2] <= r[1] + r[2]
  <2>1. c \in (r[1] .. r[1] + r[2] - 1) \X Order
    BY <1>1 DEF Tiles
  <2>2. c[1] \in r[1] .. r[1] + r[2] - 1 /\ c[2] \in Order /\ c = <<c[1], c[2]>>
    BY <2>1
  <2>3. c[1] \in Lba /\ c[1] \in Nat /\ r[1] <= c[1]
    BY <1>1, <2>2, ConstantsOK DEF Lba, ConstantsOK
  <2>4. c \in Lba \X Order
    BY <2>2, <2>3
  <2>5. 2 ^ c[2] \in Nat \ {0}
    BY <2>2, PowerPositive, ConstantsOK DEF Order, ConstantsOK
  <2>6. c[1] % 2 ^ c[2] = 0 /\ c[1] + 2 ^ c[2] <= r[1] + r[2]
    BY <1>1 DEF Tiles
  <2>7. QED
    BY <2>3, <2>4, <2>5, <2>6
<1>3. ASSUME NEW c \in Chunks(used)
      PROVE  \E r \in FreeRuns(used) : c \in Pieces(r[1], r[2])
  BY DEF Chunks
<1>4. ASSUME NEW c \in Chunks(used)
      PROVE  c \in Lba \X Order /\ c[1] % 2 ^ c[2] = 0 /\ c[1] + 2 ^ c[2] <= Blocks
  <2>1. PICK r \in FreeRuns(used) : c \in Pieces(r[1], r[2])
    BY <1>3
  <2>2. r[1] + r[2] \in Nat /\ r[1] + r[2] <= Blocks
    BY <1>1
  <2>3. c \in Lba \X Order /\ c[1] \in Nat /\ 2 ^ c[2] \in Nat \ {0}
             /\ c[1] % 2 ^ c[2] = 0 /\ c[1] + 2 ^ c[2] <= r[1] + r[2]
    BY <1>2, <2>1
  <2>4. QED
    BY <2>2, <2>3, ConstantsOK DEF ConstantsOK
<1>5. ASSUME NEW c \in Chunks(used), NEW d \in Chunks(used), c # d
      PROVE  Apart(c, d)
  <2>1. PICK r \in FreeRuns(used) : c \in Pieces(r[1], r[2])
    BY <1>3
  <2>2. PICK q \in FreeRuns(used) : d \in Pieces(q[1], q[2])
    BY <1>3
  <2>3. CASE r = q
    BY <1>1, <1>5, <2>1, <2>2, <2>3 DEF Tiles
  <2>4. CASE r # q
    <3>1. r[1] + r[2] <= q[1] \/ q[1] + q[2] <= r[1]
      BY <2>4, FreeRunsAre
    <3>2. /\ r[1] \in Nat /\ r[1] + r[2] \in Nat /\ q[1] \in Nat /\ q[1] + q[2] \in Nat
      BY <1>1
    <3>3. /\ c[1] \in Nat /\ 2 ^ c[2] \in Nat \ {0}
          /\ r[1] <= c[1] /\ c[1] + 2 ^ c[2] <= r[1] + r[2]
      BY <1>2, <2>1
    <3>4. /\ d[1] \in Nat /\ 2 ^ d[2] \in Nat \ {0}
          /\ q[1] <= d[1] /\ d[1] + 2 ^ d[2] <= q[1] + q[2]
      BY <1>2, <2>2
    <3>5. QED
      BY <3>1, <3>2, <3>3, <3>4 DEF Apart
  <2>5. QED
    BY <2>3, <2>4
<1>6. ASSUME NEW c \in Chunks(used), NEW x \in Int, Inside(c, x)
      PROVE  x \in Lba \ used
  <2>1. PICK r \in FreeRuns(used) : c \in Pieces(r[1], r[2])
    BY <1>3
  <2>2. r[1] \in Nat /\ r[2] \in Nat
    BY <1>1
  <2>3. /\ c[1] \in Nat /\ 2 ^ c[2] \in Nat \ {0}
        /\ r[1] <= c[1] /\ c[1] + 2 ^ c[2] <= r[1] + r[2]
    BY <1>2, <2>1
  <2> DEFINE first == c[1]
             past == c[1] + 2 ^ c[2]
  <2>4. x \in r[1] .. r[1] + r[2] - 1
    <3>1. first \in Nat /\ past \in Nat /\ r[1] <= first /\ past <= r[1] + r[2]
      BY <2>3
    <3>2. first <= x /\ x < past
      BY <1>6 DEF Inside
    <3> HIDE DEF first, past
    <3>3. QED
      BY <2>2, <3>1, <3>2
  <2>5. QED
    BY <2>4, FreeRunsAre DEF Zero
<1>7. ASSUME NEW x \in Lba \ used
      PROVE  \E c \in Chunks(used) : Inside(c, x)
  <2>1. PICK r \in FreeRuns(used) : x \in r[1] .. r[1] + r[2] - 1
    BY FreeRunsAre
  <2>2. PICK c \in Pieces(r[1], r[2]) : Inside(c, x)
    BY <1>1, <2>1 DEF Tiles
  <2>3. c \in Chunks(used)
    BY DEF Chunks
  <2>4. QED
    BY <2>2, <2>3
<1>8. QED
  BY <1>4, <1>5, <1>6, <1>7

-----------------------------------------------------------------------------
(* The inductive invariant.                                                *)

\* No thread pushes while it holds the lock of backref, and waits for itself.
NeverStuck == \A t \in Thread : pc[t] # "stuck"

\* Chunks end on the device.
ChunksFit == Covered \subseteq Lba

IInv == TypeOK /\ NeverStuck /\ ChunksFit /\ IndexesAgree /\ BlocksExclusive

\* The numbers of a chunk.
LEMMA ChunkIs ==
    ASSUME TypeOK, NEW s \in DOMAIN backref
    PROVE  /\ s \in Lba /\ s \in Nat /\ backref[s] \in Order /\ 2 ^ backref[s] \in Nat \ {0}
           /\ Chunk(s) = s .. s + 2 ^ backref[s] - 1 /\ s \in Chunk(s)
<1>1. s \in Lba /\ s \in Nat /\ backref[s] \in Order
  BY DEF TypeOK, Lba
<1>2. 2 ^ backref[s] \in Nat \ {0}
  BY <1>1, PowerPositive, ConstantsOK DEF Order, ConstantsOK
<1>3. Chunk(s) = s .. s + 2 ^ backref[s] - 1
  BY DEF Chunk, Run
<1>4. QED
  BY <1>1, <1>2, <1>3

\* A chunk that fits ends at the end of the device or before.
LEMMA ChunkEnds ==
    ASSUME TypeOK, ChunksFit, NEW s \in DOMAIN backref
    PROVE  s + 2 ^ backref[s] <= Blocks
<1> DEFINE n == 2 ^ backref[s]
<1>1. s \in Nat /\ n \in Nat \ {0} /\ Chunk(s) = s .. s + n - 1
  BY ChunkIs
<1> HIDE DEF n
<1>2. s + n - 1 \in Chunk(s)
  BY <1>1
<1>3. s + n - 1 \in Lba
  BY <1>2 DEF ChunksFit, Covered
<1>4. QED
  BY <1>1, <1>3, ConstantsOK DEF Lba, n, ConstantsOK

\* build_buddy leaves the indexes in agreement, and every free block in one
\* chunk.
LEMMA IInit == Init => IInv /\ Covered = Lba \ held
<1> SUFFICES ASSUME Init
             PROVE  IInv /\ Covered = Lba \ held
  OBVIOUS
<1> DEFINE C == Chunks(held)
<1>1. /\ pc = [t \in Thread |-> "idle"] /\ pend = [t \in Thread |-> Nothing]
      /\ backref = [s \in {c[1] : c \in C} |-> CHOOSE o \in Order : <<s, o>> \in C]
      /\ buddies = [o \in Order |-> {s \in Lba : <<s, o>> \in C}]
      /\ held \in SUBSET Lba
  BY ConstantsOK DEF Init, Chunks, ConstantsOK
<1> HIDE DEF C
<1>2. /\ C \subseteq Lba \X Order
      /\ \A c \in C : c[1] % 2 ^ c[2] = 0 /\ c[1] + 2 ^ c[2] <= Blocks
      /\ \A c, d \in C : c # d => Apart(c, d)
      /\ \A c \in C, x \in Int : Inside(c, x) => x \in Lba \ held
      /\ \A x \in Lba \ held : \E c \in C : Inside(c, x)
  BY <1>1, ChunksAtMount DEF C
<1>3. ASSUME NEW c \in C
      PROVE  /\ c = <<c[1], c[2]>> /\ c[1] \in Lba /\ c[1] \in Nat /\ c[2] \in Order
             /\ 2 ^ c[2] \in Nat \ {0}
  <2>1. c \in Lba \X Order
    BY <1>2
  <2>2. c = <<c[1], c[2]>> /\ c[1] \in Lba /\ c[2] \in Order
    BY <2>1
  <2>3. QED
    BY <2>2, PowerPositive, ConstantsOK DEF Lba, Order, ConstantsOK
<1>4. ASSUME NEW c \in C, NEW d \in C, c[1] = d[1]
      PROVE  c = d
  <2> DEFINE n == 2 ^ c[2]
             m == 2 ^ d[2]
  <2>1. c[1] \in Nat /\ n \in Nat \ {0} /\ m \in Nat \ {0}
    BY <1>3
  <2>2. c # d => c[1] + n <= d[1] \/ d[1] + m <= c[1]
    BY <1>2 DEF Apart
  <2> HIDE DEF n, m
  <2>3. QED
    BY <1>4, <2>1, <2>2
<1>5. DOMAIN backref = {c[1] : c \in C}
  BY <1>1
<1>6. ASSUME NEW c \in C
      PROVE  c[1] \in DOMAIN backref /\ backref[c[1]] = c[2]
  <2>1. c[1] \in DOMAIN backref
    BY <1>5
  <2>2. backref[c[1]] = CHOOSE o \in Order : <<c[1], o>> \in C
    BY <1>1, <2>1
  <2>3. \A o \in Order : <<c[1], o>> \in C <=> o = c[2]
    <3>1. <<c[1], c[2]>> \in C
      BY <1>3
    <3>2. ASSUME NEW o \in Order, <<c[1], o>> \in C
          PROVE  o = c[2]
      <4> DEFINE d == <<c[1], o>>
      <4>1. d \in C /\ d[1] = c[1] /\ d[2] = o
        BY <3>2
      <4> HIDE DEF d
      <4>2. QED
        BY <1>4, <4>1
    <3>3. QED
      BY <3>1, <3>2
  <2>4. QED
    BY <1>3, <2>1, <2>2, <2>3
<1>7. ASSUME NEW s \in DOMAIN backref
      PROVE  <<s, backref[s]>> \in C /\ s \in Lba /\ backref[s] \in Order
  <2>1. PICK c \in C : s = c[1]
    BY <1>5
  <2>2. QED
    BY <1>3, <1>6, <2>1
<1>8. TypeOK
  <2>1. backref \in [DOMAIN backref -> Order] /\ DOMAIN backref \subseteq Lba
    BY <1>1, <1>7
  <2>2. buddies \in [Order -> SUBSET Lba]
    BY <1>1
  <2>3. pend \in [Thread -> [start : 0 .. Blocks, len : 0 .. Blocks]]
    BY <1>1, ConstantsOK DEF Nothing, ConstantsOK
  <2>4. ASSUME NEW t \in Thread
        PROVE  Pending(t) \subseteq Lba /\ (pend[t].len = 0 <=> pc[t] \notin {"push", "give"})
    BY <1>1 DEF Pending, Run, Nothing
  <2>5. QED
    BY <1>1, <2>1, <2>2, <2>3, <2>4 DEF TypeOK
<1>9. \A s \in DOMAIN backref, x \in Int : x \in Chunk(s) <=> Inside(<<s, backref[s]>>, x)
  <2> SUFFICES ASSUME NEW s \in DOMAIN backref, NEW x \in Int
               PROVE  x \in Chunk(s) <=> Inside(<<s, backref[s]>>, x)
    OBVIOUS
  <2> DEFINE n == 2 ^ backref[s]
  <2>1. s \in Nat /\ n \in Nat \ {0} /\ Chunk(s) = s .. s + n - 1
    BY <1>8, ChunkIs
  <2>2. Inside(<<s, backref[s]>>, x) <=> s <= x /\ x < s + n
    BY DEF Inside
  <2> HIDE DEF n
  <2>3. QED
    BY <2>1, <2>2
<1>10. \A s \in DOMAIN backref : Chunk(s) \subseteq Int
  BY <1>8, ChunkIs
<1>11. Covered = Lba \ held
  <2>1. ASSUME NEW x \in Covered
        PROVE  x \in Lba \ held
    <3>1. PICK s \in DOMAIN backref : x \in Chunk(s)
      BY DEF Covered
    <3>2. x \in Int /\ Inside(<<s, backref[s]>>, x) /\ <<s, backref[s]>> \in C
      BY <1>7, <1>9, <1>10, <3>1
    <3>3. QED
      BY <1>2, <3>2
  <2>2. ASSUME NEW x \in Lba \ held
        PROVE  x \in Covered
    <3>1. PICK c \in C : Inside(c, x)
      BY <1>2
    <3>2. c[1] \in DOMAIN backref /\ c = <<c[1], backref[c[1]]>> /\ x \in Int
      BY <1>3, <1>6 DEF Lba
    <3>3. x \in Chunk(c[1])
      BY <1>9, <3>1, <3>2
    <3>4. QED
      BY <3>2, <3>3 DEF Covered
  <2>3. QED
    BY <2>1, <2>2
<1>12. IndexesAgree
  <2>1. ASSUME NEW o \in Order
        PROVE  buddies[o] = {s \in DOMAIN backref : backref[s] = o}
    <3>1. buddies[o] = {s \in Lba : <<s, o>> \in C}
      BY <1>1
    <3>2. ASSUME NEW s \in Lba, <<s, o>> \in C
          PROVE  s \in DOMAIN backref /\ backref[s] = o
      <4> DEFINE c == <<s, o>>
      <4>1. c \in C /\ c[1] = s /\ c[2] = o
        BY <3>2
      <4> HIDE DEF c
      <4>2. QED
        BY <1>6, <4>1
    <3>3. QED
      BY <1>7, <3>1, <3>2
  <2>2. ASSUME NEW s \in DOMAIN backref
        PROVE  s % 2 ^ backref[s] = 0
    <3> DEFINE c == <<s, backref[s]>>
    <3>1. c \in C /\ c[1] = s /\ c[2] = backref[s]
      BY <1>7
    <3>2. c[1] % 2 ^ c[2] = 0
      BY <1>2, <3>1
    <3> HIDE DEF c
    <3>3. QED
      BY <3>1, <3>2
  <2>3. QED
    BY <2>1, <2>2 DEF IndexesAgree
<1>13. BlocksExclusive
  <2>1. ASSUME NEW r \in DOMAIN backref, NEW s \in DOMAIN backref, r # s
        PROVE  Chunk(r) \cap Chunk(s) = {}
    <3> DEFINE n == 2 ^ backref[r]
               m == 2 ^ backref[s]
               c == <<r, backref[r]>>
               d == <<s, backref[s]>>
    <3>1. /\ r \in Nat /\ n \in Nat \ {0} /\ Chunk(r) = r .. r + n - 1
          /\ s \in Nat /\ m \in Nat \ {0} /\ Chunk(s) = s .. s + m - 1
      BY <1>8, ChunkIs
    <3>2. c \in C /\ d \in C /\ c[1] = r /\ d[1] = s /\ c[2] = backref[r] /\ d[2] = backref[s]
      BY <1>7
    <3> HIDE DEF c, d
    <3>3. c # d
      BY <2>1, <3>2
    <3>4. Apart(c, d)
      BY <1>2, <3>2, <3>3
    <3>5. r + n <= s \/ s + m <= r
      BY <3>2, <3>4 DEF Apart
    <3> HIDE DEF n, m
    <3>6. QED
      BY <3>1, <3>5
  <2>2. \A t \in Thread : Pending(t) = {}
    BY <1>1 DEF Pending, Run, Nothing
  <2>3. Covered \cap held = {}
    BY <1>11
  <2>4. QED
    BY <2>1, <2>2, <2>3 DEF BlocksExclusive
<1>14. NeverStuck /\ ChunksFit
  BY <1>1, <1>11 DEF NeverStuck, ChunksFit
<1>15. QED
  BY <1>8, <1>11, <1>12, <1>13, <1>14 DEF IInv

-----------------------------------------------------------------------------
(* Chunks that leave the buddies.                                          *)

\* The blocks of the chunks at starts.
Gone(starts) == UNION {Chunk(s) : s \in starts}

\* backref.remove and the removal from the bucket: the other chunks stay as
\* they are in both indexes.
LEMMA RemoveIs ==
    ASSUME IInv, NEW starts \in SUBSET DOMAIN backref, RemoveChunks(starts)
    PROVE  /\ backref' \in [DOMAIN backref' -> Order] /\ DOMAIN backref' \subseteq Lba
           /\ buddies' \in [Order -> SUBSET Lba]
           /\ IndexesAgree'
           /\ \A r, s \in DOMAIN backref' : r # s => Chunk(r)' \cap Chunk(s)' = {}
           /\ Covered' = Covered \ Gone(starts) /\ Gone(starts) \subseteq Covered
<1>1. TypeOK /\ IndexesAgree /\ BlocksExclusive
  BY DEF IInv
<1>2. /\ backref' = [s \in DOMAIN backref \ starts |-> backref[s]]
      /\ buddies' = [o \in Order |-> buddies[o] \ starts]
  BY DEF RemoveChunks, Restrict
<1>3. DOMAIN backref' = DOMAIN backref \ starts
  BY <1>2
<1>4. \A s \in DOMAIN backref' : s \in DOMAIN backref /\ backref'[s] = backref[s]
  BY <1>2
<1>5. \A s \in DOMAIN backref' : Chunk(s)' = Chunk(s)
  BY <1>4 DEF Chunk
<1>6. backref' \in [DOMAIN backref' -> Order] /\ DOMAIN backref' \subseteq Lba
  BY <1>1, <1>2 DEF TypeOK
<1>7. buddies' \in [Order -> SUBSET Lba]
  BY <1>1, <1>2 DEF TypeOK
<1>8. IndexesAgree'
  <2>1. ASSUME NEW o \in Order
        PROVE  buddies'[o] = {s \in DOMAIN backref' : backref'[s] = o}
    <3>1. buddies'[o] = buddies[o] \ starts
      BY <1>2
    <3>2. buddies[o] = {s \in DOMAIN backref : backref[s] = o}
      BY <1>1 DEF IndexesAgree
    <3>3. QED
      BY <1>3, <1>4, <3>1, <3>2
  <2>2. ASSUME NEW s \in DOMAIN backref'
        PROVE  s % 2 ^ backref'[s] = 0
    BY <1>1, <1>4 DEF IndexesAgree
  <2>3. QED
    BY <2>1, <2>2 DEF IndexesAgree
<1>9. \A r, s \in DOMAIN backref' : r # s => Chunk(r)' \cap Chunk(s)' = {}
  BY <1>1, <1>4, <1>5 DEF BlocksExclusive
<1>10. Gone(starts) \subseteq Covered
  BY DEF Gone, Covered
<1>11. ASSUME NEW x
       PROVE  x \in Covered' <=> x \in Covered /\ x \notin Gone(starts)
  <2>1. x \in Covered' <=> \E s \in DOMAIN backref' : x \in Chunk(s)'
    BY DEF Covered
  <2>2. x \in Covered' <=> \E s \in DOMAIN backref \ starts : x \in Chunk(s)
    BY <1>3, <1>5, <2>1
  <2>3. x \in Covered <=> \E s \in DOMAIN backref : x \in Chunk(s)
    BY DEF Covered
  <2>4. x \in Gone(starts) <=> \E s \in starts : x \in Chunk(s)
    BY DEF Gone
  <2>5. \A r, s \in DOMAIN backref : x \in Chunk(r) /\ x \in Chunk(s) => r = s
    BY <1>1 DEF BlocksExclusive
  <2>6. QED
    BY <2>2, <2>3, <2>4, <2>5
<1>12. QED
  BY <1>6, <1>7, <1>8, <1>9, <1>10, <1>11

\* An allocation gives the caller a part of the chunks it removes and keeps
\* another part, possibly none, to push it.
Takes(t, starts, got, rest) ==
    /\ pc[t] = "idle"
    /\ starts \subseteq DOMAIN backref /\ RemoveChunks(starts)
    /\ got \subseteq Gone(starts) /\ held' = held \cup got
    /\ rest \in [start : 0 .. Blocks, len : 0 .. Blocks]
    /\ pend' = [pend EXCEPT ![t] = rest]
    /\ pc' = [pc EXCEPT ![t] = IF rest.len = 0 THEN "idle" ELSE "push"]
    /\ Run(rest.start, rest.len) \subseteq Gone(starts) \ got

\* Every allocation of that kind keeps the invariant.
LEMMA AllocateKeeps ==
    ASSUME IInv, NEW t \in Thread, NEW starts, NEW got, NEW rest,
           Takes(t, starts, got, rest)
    PROVE  /\ IInv'
           /\ Covered' = Covered \ Gone(starts) /\ Gone(starts) \subseteq Covered
           /\ Pending(t)' = Run(rest.start, rest.len) /\ Pending(t) = {}
           /\ \A u \in Thread \ {t} : Pending(u)' = Pending(u)
<1>0. /\ pc[t] = "idle" /\ starts \in SUBSET DOMAIN backref /\ RemoveChunks(starts)
      /\ held' = held \cup got /\ got \subseteq Gone(starts)
      /\ rest \in [start : 0 .. Blocks, len : 0 .. Blocks]
      /\ pend' = [pend EXCEPT ![t] = rest]
      /\ pc' = [pc EXCEPT ![t] = IF rest.len = 0 THEN "idle" ELSE "push"]
      /\ Run(rest.start, rest.len) \subseteq Gone(starts)
      /\ Run(rest.start, rest.len) \cap got = {}
  BY DEF Takes
<1>1. TypeOK /\ NeverStuck /\ ChunksFit /\ IndexesAgree /\ BlocksExclusive
  BY DEF IInv
<1>2. /\ backref' \in [DOMAIN backref' -> Order] /\ DOMAIN backref' \subseteq Lba
      /\ buddies' \in [Order -> SUBSET Lba]
      /\ IndexesAgree'
      /\ \A r, s \in DOMAIN backref' : r # s => Chunk(r)' \cap Chunk(s)' = {}
      /\ Covered' = Covered \ Gone(starts) /\ Gone(starts) \subseteq Covered
  BY <1>0, RemoveIs
<1>3. /\ pend'[t] = rest /\ \A u \in Thread \ {t} : pend'[u] = pend[u]
      /\ pc'[t] = (IF rest.len = 0 THEN "idle" ELSE "push")
      /\ \A u \in Thread \ {t} : pc'[u] = pc[u]
  BY <1>0, <1>1 DEF TypeOK
<1>4. Pending(t)' = Run(rest.start, rest.len)
  BY <1>3 DEF Pending
<1>5. \A u \in Thread \ {t} : Pending(u)' = Pending(u)
  BY <1>3 DEF Pending
<1>6. Pending(t) = {}
  <2>1. pend[t].len = 0 /\ pend[t].start \in Nat
    BY <1>0, <1>1 DEF TypeOK
  <2>2. QED
    BY <2>1 DEF Pending, Run
<1>7. Gone(starts) \subseteq Lba
  BY <1>1, <1>2 DEF ChunksFit
<1>8. TypeOK'
  <2>1. pend' \in [Thread -> [start : 0 .. Blocks, len : 0 .. Blocks]]
    BY <1>0, <1>1 DEF TypeOK
  <2>2. pc' \in [Thread -> {"idle", "push", "give", "stuck"}]
    BY <1>0, <1>1 DEF TypeOK
  <2>3. held' \subseteq Lba
    BY <1>0, <1>1, <1>7 DEF TypeOK
  <2>4. ASSUME NEW u \in Thread
        PROVE  Pending(u)' \subseteq Lba /\ (pend'[u].len = 0 <=> pc'[u] \notin {"push", "give"})
    <3>1. CASE u = t
      BY <1>0, <1>3, <1>4, <1>7, <3>1
    <3>2. CASE u # t
      BY <1>1, <1>3, <1>5, <3>2 DEF TypeOK
    <3>3. QED
      BY <3>1, <3>2
  <2>5. QED
    BY <1>2, <2>1, <2>2, <2>3, <2>4 DEF TypeOK
<1>9. NeverStuck'
  BY <1>1, <1>3 DEF NeverStuck
<1>10. ChunksFit'
  BY <1>1, <1>2 DEF ChunksFit
<1>11. BlocksExclusive'
  <2>1. Covered \cap held = {}
    BY <1>1 DEF BlocksExclusive
  <2>2. \A u \in Thread : Pending(u) \cap (Covered \cup held) = {}
    BY <1>1 DEF BlocksExclusive
  <2>3. \A u, v \in Thread : u # v => Pending(u) \cap Pending(v) = {}
    BY <1>1 DEF BlocksExclusive
  <2>4. Covered' \cap held' = {}
    BY <1>0, <1>2, <2>1
  <2>5. Pending(t)' \cap (Covered' \cup held') = {}
    BY <1>0, <1>2, <1>4, <2>1
  <2>6. \A u \in Thread \ {t} : Pending(u)' \cap (Covered' \cup held') = {}
    BY <1>0, <1>2, <1>5, <2>2
  <2>7. \A u \in Thread \ {t} : Pending(t)' \cap Pending(u)' = {}
    BY <1>0, <1>2, <1>4, <1>5, <2>2
  <2>8. \A u, v \in Thread : u # v => Pending(u)' \cap Pending(v)' = {}
    BY <1>5, <2>3, <2>7
  <2>9. \A u \in Thread : Pending(u)' \cap (Covered' \cup held') = {}
    BY <2>5, <2>6
  <2>10. QED
    BY <1>2, <2>4, <2>8, <2>9 DEF BlocksExclusive
<1>12. QED
  BY <1>2, <1>4, <1>5, <1>6, <1>8, <1>9, <1>10, <1>11 DEF IInv

-----------------------------------------------------------------------------
(* try_allocate_at: the chain of chunks at the place hoped for.            *)

\* The recursion of ChainAt, from the block at first on.
Chaining(chain, hope, size, first) ==
    chain = [n \in first .. Blocks |->
               IF n < size /\ hope + n \in DOMAIN backref
               THEN chain[n + 2 ^ backref[hope + n]]
               ELSE n]

\* ChainAt is the value of that recursion at its start.
LEMMA ChainUnfolds ==
    ASSUME NEW hope, NEW size
    PROVE  ChainAt(hope, size) = (CHOOSE chain : Chaining(chain, hope, size, 0))[0]
  BY DEF ChainAt, Chaining

\* The search along the chain ends, because every chunk has a block.
LEMMA ChainingExists ==
    ASSUME IInv, NEW hope \in Lba, NEW size \in Nat
    PROVE  \E chain : Chaining(chain, hope, size, 0)
<1> DEFINE Bad == {k \in Nat : k <= Blocks /\ ~ \E chain : Chaining(chain, hope, size, Blocks - k)}
<1>1. Blocks \in Nat /\ Blocks - Blocks = 0 /\ hope \in Nat
  BY ConstantsOK DEF ConstantsOK, Lba
<1>2. SUFFICES Bad = {}
  <2>1. Blocks \notin Bad
    BY <1>2
  <2>2. QED
    BY <1>1, <2>1
<1>3. ASSUME NEW n \in Nat, hope + n \in DOMAIN backref
      PROVE  n + 2 ^ backref[hope + n] \in n + 1 .. Blocks
  <2> DEFINE s == hope + n
             m == 2 ^ backref[s]
  <2>1. m \in Nat \ {0} /\ s + m <= Blocks
    BY <1>3, ChunkIs, ChunkEnds DEF IInv
  <2> HIDE DEF m
  <2>2. n + m \in n + 1 .. Blocks
    BY <1>1, <2>1
  <2>3. QED
    BY <2>2 DEF m
<1>4. ASSUME NEW k \in Bad, \A m \in Bad : k <= m
      PROVE  FALSE
  <2>1. k \in Nat /\ k <= Blocks /\ ~ \E chain : Chaining(chain, hope, size, Blocks - k)
    OBVIOUS
  <2> DEFINE a == Blocks - k
  <2>2. a \in Nat /\ a <= Blocks
    BY <1>1, <2>1
  <2>3. \E g : \A n \in a + 1 .. Blocks :
           g[n] = IF n < size /\ hope + n \in DOMAIN backref
                  THEN g[n + 2 ^ backref[hope + n]]
                  ELSE n
    <3>1. CASE k = 0
      BY <1>1, <3>1
    <3>2. CASE k # 0
      <4>1. k - 1 \in Nat /\ k - 1 <= Blocks /\ k - 1 \notin Bad
        BY <1>1, <1>4, <2>1, <3>2
      <4>2. PICK g : Chaining(g, hope, size, Blocks - (k - 1))
        BY <4>1
      <4>3. Blocks - (k - 1) = a + 1
        BY <1>1, <2>1
      <4> HIDE DEF a
      <4>4. QED
        BY <4>2, <4>3 DEF Chaining
    <3>3. QED
      BY <3>1, <3>2
  <2>4. PICK g : \A n \in a + 1 .. Blocks :
           g[n] = IF n < size /\ hope + n \in DOMAIN backref
                  THEN g[n + 2 ^ backref[hope + n]]
                  ELSE n
    BY <2>3
  <2> HIDE DEF a
  <2> DEFINE body(n) == IF n < size /\ hope + n \in DOMAIN backref
                        THEN g[n + 2 ^ backref[hope + n]]
                        ELSE n
             chain == [n \in a .. Blocks |-> IF n = a THEN body(a) ELSE g[n]]
  <2>5. chain[a] = body(a)
    BY <1>1, <2>2
  <2>6. \A n \in a + 1 .. Blocks : chain[n] = g[n] /\ g[n] = body(n)
    BY <1>1, <2>2, <2>4
  <2>7. chain = [n \in a .. Blocks |-> chain[n]]
    OBVIOUS
  <2> HIDE DEF chain
  <2>8. ASSUME NEW n \in a .. Blocks
        PROVE  chain[n] = IF n < size /\ hope + n \in DOMAIN backref
                          THEN chain[n + 2 ^ backref[hope + n]]
                          ELSE n
    <3>1. chain[n] = body(n)
      <4>1. CASE n = a
        BY <2>5, <4>1
      <4>2. CASE n # a
        <5>1. n \in a + 1 .. Blocks
          BY <1>1, <2>2, <4>2
        <5>2. QED
          BY <2>6, <5>1
      <4>3. QED
        BY <4>1, <4>2
    <3>2. CASE hope + n \in DOMAIN backref
      <4> DEFINE m == n + 2 ^ backref[hope + n]
      <4>1. n \in Nat /\ m \in n + 1 .. Blocks
        BY <1>3, <2>2, <3>2
      <4> HIDE DEF m
      <4>2. m \in a + 1 .. Blocks
        BY <1>1, <2>2, <4>1
      <4>3. chain[m] = g[m]
        BY <2>6, <4>2
      <4>4. QED
        BY <3>1, <4>3 DEF m
    <3>3. CASE hope + n \notin DOMAIN backref
      BY <3>1, <3>3
    <3>4. QED
      BY <3>2, <3>3
  <2>9. Chaining(chain, hope, size, a)
    BY <2>7, <2>8 DEF Chaining
  <2>10. QED
    BY <2>1, <2>9 DEF a
<1>5. Bad \in SUBSET Nat
  OBVIOUS
<1>6. QED
  <2> HIDE DEF Bad
  <2>1. QED
    BY <1>4, <1>5, LeastExists

\* What a chain is made of, from its block n to its block m: every block is in
\* a chunk that begins in the chain, and no chunk that begins in it ends after
\* it.
ChainOf(hope, n, m) ==
    /\ \A x \in hope + n .. hope + m - 1 :
        \E s \in DOMAIN backref : s >= hope + n /\ x \in Chunk(s)
    /\ \A s \in DOMAIN backref :
        s >= hope + n /\ s < hope + m => s + 2 ^ backref[s] <= hope + m

\* One more chunk in front of a chain.
LEMMA ChainGrows ==
    ASSUME IInv, NEW hope \in Nat, NEW n \in Nat, NEW m \in Nat,
           hope + n \in DOMAIN backref, n + 2 ^ backref[hope + n] <= m,
           ChainOf(hope, n + 2 ^ backref[hope + n], m)
    PROVE  ChainOf(hope, n, m)
<1> DEFINE first == hope + n
           len == 2 ^ backref[first]
           next == n + len
<1>1. /\ first \in Nat /\ len \in Nat \ {0} /\ Chunk(first) = first .. first + len - 1
      /\ next \in Nat /\ hope + next = first + len /\ next <= m
      /\ first \in DOMAIN backref
  <2>1. len \in Nat \ {0} /\ Chunk(first) = first .. first + len - 1
    BY ChunkIs DEF IInv
  <2> HIDE DEF len
  <2>2. QED
    BY <2>1 DEF len
<1>2. ChainOf(hope, next, m)
  OBVIOUS
<1> HIDE DEF len, first, next
<1>3. first = hope + n
  BY DEF first
<1>4. ASSUME NEW x \in hope + n .. hope + m - 1
      PROVE  \E s \in DOMAIN backref : s >= hope + n /\ x \in Chunk(s)
  <2>1. CASE x < first + len
    <3>1. x \in Chunk(first) /\ first >= hope + n
      BY <1>1, <1>3, <2>1
    <3>2. QED
      BY <1>1, <3>1
  <2>2. CASE x >= first + len
    <3>1. x \in hope + next .. hope + m - 1
      BY <1>1, <2>2
    <3>2. PICK s \in DOMAIN backref : s >= hope + next /\ x \in Chunk(s)
      BY <1>2, <3>1 DEF ChainOf
    <3>3. s \in Nat
      BY ChunkIs DEF IInv
    <3>4. s >= hope + n
      BY <1>1, <1>3, <3>2, <3>3
    <3>5. QED
      BY <3>2, <3>4
  <2>3. QED
    BY <1>1, <2>1, <2>2
<1>5. ASSUME NEW s \in DOMAIN backref, s >= hope + n, s < hope + m
      PROVE  s + 2 ^ backref[s] <= hope + m
  <2>1. s \in Nat /\ s \in Chunk(s)
    BY ChunkIs DEF IInv
  <2>2. CASE s = first
    <3>1. s + 2 ^ backref[s] = first + len
      BY <2>2 DEF len
    <3>2. QED
      BY <1>1, <3>1
  <2>3. CASE s # first
    <3>1. s \notin Chunk(first)
      BY <1>1, <2>1, <2>3 DEF IInv, BlocksExclusive
    <3>2. s >= hope + next
      BY <1>1, <1>3, <1>5, <2>1, <3>1
    <3>3. QED
      BY <1>2, <1>5, <3>2 DEF ChainOf
  <2>4. QED
    BY <2>2, <2>3
<1>6. QED
  BY <1>4, <1>5 DEF ChainOf

\* The chain the search finds.
LEMMA ChainIs ==
    ASSUME IInv, NEW hope \in Lba, NEW size \in Nat
    PROVE  LET m == ChainAt(hope, size) IN
           /\ m \in Nat
           /\ ChainOf(hope, 0, m)
<1>1. Blocks \in Nat /\ hope \in Nat /\ hope < Blocks
  BY ConstantsOK DEF ConstantsOK, Lba
<1>2. PICK chain : Chaining(chain, hope, size, 0) /\ ChainAt(hope, size) = chain[0]
  <2>1. \E chain : Chaining(chain, hope, size, 0)
    BY ChainingExists
  <2>2. Chaining(CHOOSE chain : Chaining(chain, hope, size, 0), hope, size, 0)
    BY <2>1
  <2>3. QED
    BY <2>2, ChainUnfolds
<1>3. \A n \in 0 .. Blocks :
         chain[n] = IF n < size /\ hope + n \in DOMAIN backref
                    THEN chain[n + 2 ^ backref[hope + n]]
                    ELSE n
  BY <1>2 DEF Chaining
<1> DEFINE Good(n) == chain[n] \in Nat /\ n <= chain[n] /\ ChainOf(hope, n, chain[n])
           Bad == {k \in Nat : k <= Blocks /\ ~ Good(Blocks - k)}
<1>4. ASSUME NEW k \in Bad, \A m \in Bad : k <= m
      PROVE  FALSE
  <2> DEFINE n == Blocks - k
  <2>1. k \in Nat /\ k <= Blocks /\ ~ Good(n)
    OBVIOUS
  <2>2. n \in Nat /\ n \in 0 .. Blocks
    BY <1>1, <2>1
  <2>3. CASE n < size /\ hope + n \in DOMAIN backref
    <3> DEFINE len == 2 ^ backref[hope + n]
               next == n + len
    <3>1. len \in Nat \ {0} /\ hope + n + len <= Blocks
      BY <2>3, ChunkIs, ChunkEnds DEF IInv
    <3>2. chain[n] = chain[next]
      <4> HIDE DEF n
      <4>1. QED
        BY <1>3, <2>2, <2>3
    <3> HIDE DEF len
    <3>3. next \in Nat /\ next <= Blocks /\ n < next
      BY <1>1, <2>2, <3>1
    <3>4. Good(next)
      <4>1. Blocks - next \in Nat /\ Blocks - next <= Blocks /\ ~ (k <= Blocks - next)
            /\ Blocks - (Blocks - next) = next
        BY <1>1, <2>1, <3>3
      <4>2. Blocks - next \notin Bad
        BY <1>4, <4>1
      <4> HIDE DEF next, n
      <4>3. QED
        BY <4>1, <4>2
    <3>5. chain[n] \in Nat /\ n <= chain[n] /\ next <= chain[n]
      <4> HIDE DEF n, next
      <4>1. QED
        BY <2>2, <3>2, <3>3, <3>4
    <3>6. ChainOf(hope, n, chain[n])
      <4>1. ChainOf(hope, n + 2 ^ backref[hope + n], chain[n])
        BY <3>2, <3>4 DEF len
      <4>2. n + 2 ^ backref[hope + n] <= chain[n]
        BY <3>5 DEF len
      <4> HIDE DEF n
      <4>3. QED
        BY <1>1, <2>2, <2>3, <3>5, <4>1, <4>2, ChainGrows
    <3>7. QED
      BY <2>1, <3>5, <3>6
  <2>4. CASE ~ (n < size /\ hope + n \in DOMAIN backref)
    <3> HIDE DEF n
    <3>1. chain[n] = n
      BY <1>3, <2>2, <2>4
    <3>2. ChainOf(hope, n, n)
      <4>1. \A s \in DOMAIN backref : s \in Nat
        BY ChunkIs DEF IInv
      <4>2. QED
        BY <1>1, <2>2, <4>1 DEF ChainOf
    <3>3. QED
      BY <2>1, <2>2, <3>1, <3>2
  <2>5. QED
    BY <2>3, <2>4
<1>5. Bad \in SUBSET Nat
  OBVIOUS
<1>6. Bad = {}
  <2> HIDE DEF Bad
  <2>1. QED
    BY <1>4, <1>5, LeastExists
<1>7. Good(Blocks - Blocks)
  BY <1>1, <1>6
<1>8. Blocks - Blocks = 0
  BY <1>1
<1>9. QED
  BY <1>2, <1>7, <1>8

-----------------------------------------------------------------------------
(* The three ways to allocate.                                             *)

\* A request that has been cut to the largest chunk.
LEMMA AskedIs ==
    ASSUME NEW size \in 1 .. MaxRequest
    PROVE  Asked(size) \in Nat \ {0} /\ Asked(size) <= 2 ^ MaxOrder
<1> DEFINE n == 2 ^ MaxOrder
<1>1. n \in Nat \ {0} /\ size \in Nat \ {0}
  BY PowerPositive, ConstantsOK DEF ConstantsOK
<1> HIDE DEF n
<1>2. {size, n} \in SUBSET Nat /\ {size, n} # {}
  BY <1>1
<1>3. Min({size, n}) \in {size, n} /\ \A m \in {size, n} : Min({size, n}) <= m
  BY <1>2, MinIs
<1>4. QED
  BY <1>1, <1>3 DEF Asked, n

\* The allocation at the place hoped for takes the chain of chunks whole; the
\* branch that would push a rest under the lock of backref is never taken.
LEMMA HopedTakes ==
    ASSUME IInv, NEW t \in Thread, NEW hope \in Lba, NEW size \in Nat \ {0},
           AllocateHoped(t, size, hope)
    PROVE  LET m == ChainAt(hope, size)
               a == Min({m, size})
           IN  /\ Takes(t, DOMAIN backref \cap Run(hope, a), Run(hope, a), pend[t])
               /\ a \in Nat /\ a <= size /\ (a < size => 2 * a > size)
<1> DEFINE m == ChainAt(hope, size)
           a == Min({m, size})
           starts == DOMAIN backref \cap Run(hope, a)
<1>1. /\ pc[t] = "idle" /\ m > size \div 2 /\ RemoveChunks(starts)
      /\ held' = held \cup Run(hope, a) /\ pend' = pend
      /\ pc' = [pc EXCEPT ![t] = IF \A s \in starts : s + 2 ^ backref[s] <= hope + m
                                  THEN "idle" ELSE "stuck"]
  BY DEF AllocateHoped, Hoped
<1>2. m \in Nat /\ ChainOf(hope, 0, m) /\ hope \in Nat
  BY ChainIs DEF Lba
<1> HIDE DEF m
<1>3. a \in {m, size} /\ a <= m /\ a <= size
  <2>1. {m, size} \in SUBSET Nat /\ {m, size} # {}
    BY <1>2
  <2>2. a \in {m, size} /\ \A x \in {m, size} : a <= x
    BY <2>1, MinIs
  <2>3. QED
    BY <2>2
<1>4. a \in Nat /\ a <= size /\ (a < size => 2 * a > size)
  BY <1>1, <1>2, <1>3
<1> HIDE DEF a
<1>5. \A s \in starts : s \in Nat /\ hope <= s /\ s < hope + a
  BY <1>2, <1>4 DEF Run
<1>6. \A s \in starts : s + 2 ^ backref[s] <= hope + m
  <2> SUFFICES ASSUME NEW s \in starts
               PROVE  s + 2 ^ backref[s] <= hope + m
    OBVIOUS
  <2>1. s \in DOMAIN backref /\ s >= hope + 0 /\ s < hope + m
    BY <1>2, <1>3, <1>4, <1>5
  <2>2. QED
    BY <1>2, <2>1 DEF ChainOf
<1>7. Run(hope, a) \subseteq Gone(starts)
  <2> SUFFICES ASSUME NEW x \in Run(hope, a)
               PROVE  x \in Gone(starts)
    OBVIOUS
  <2>1. x \in Int /\ hope <= x /\ x < hope + a
    BY <1>2, <1>4 DEF Run
  <2>2. x \in hope + 0 .. hope + m - 1
    BY <1>2, <1>3, <1>4, <2>1
  <2>3. PICK s \in DOMAIN backref : s >= hope + 0 /\ x \in Chunk(s)
    BY <1>2, <2>2 DEF ChainOf
  <2>4. s \in Nat /\ s <= x
    BY <2>3, ChunkIs DEF IInv
  <2>5. s \in Run(hope, a)
    BY <1>2, <1>4, <2>1, <2>3, <2>4 DEF Run
  <2>6. QED
    BY <2>3, <2>5 DEF Gone
<1>8. /\ pend[t] \in [start : 0 .. Blocks, len : 0 .. Blocks] /\ pend[t].len = 0
      /\ pend' = [pend EXCEPT ![t] = pend[t]]
  BY <1>1 DEF IInv, TypeOK
<1>9. Run(pend[t].start, pend[t].len) = {}
  <2>1. pend[t].start \in Nat
    BY <1>8
  <2>2. QED
    BY <1>8, <2>1 DEF Run
<1>10. pc' = [pc EXCEPT ![t] = IF pend[t].len = 0 THEN "idle" ELSE "push"]
  BY <1>1, <1>6, <1>8
<1>11. Takes(t, starts, Run(hope, a), pend[t])
  <2> HIDE DEF starts
  <2>1. starts \subseteq DOMAIN backref
    BY DEF starts
  <2>2. QED
    BY <1>1, <1>7, <1>8, <1>9, <1>10, <2>1 DEF Takes
<1>12. QED
  BY <1>4, <1>11 DEF a, m

\* The buckets that are not empty hold numbers of blocks, of chunks of their
\* order.
LEMMA BucketFirst ==
    ASSUME IInv, NEW o \in Order, buddies[o] # {}
    PROVE  LET p == Min(buddies[o]) IN
           /\ p \in DOMAIN backref /\ backref[p] = o /\ p \in Nat
           /\ p + 2 ^ o <= Blocks /\ 2 ^ o \in Nat \ {0}
           /\ Gone({p}) = Run(p, 2 ^ o)
<1> DEFINE p == Min(buddies[o])
<1>1. buddies[o] = {s \in DOMAIN backref : backref[s] = o}
  BY DEF IInv, IndexesAgree
<1>2. buddies[o] \in SUBSET Nat
  BY DEF IInv, TypeOK, Lba
<1>3. p \in buddies[o]
  BY <1>2, MinIs
<1> HIDE DEF p
<1>4. p \in DOMAIN backref /\ backref[p] = o
  BY <1>1, <1>3
<1>5. p + 2 ^ o <= Blocks /\ 2 ^ o \in Nat \ {0} /\ p \in Nat
  BY <1>4, ChunkIs, ChunkEnds DEF IInv
<1>6. Gone({p}) = Run(p, 2 ^ o)
  BY <1>4 DEF Gone, Chunk
<1>7. QED
  BY <1>4, <1>5, <1>6 DEF p

\* The order that fits is one whose chunks are long enough, and the smaller
\* ones are too short.
LEMMA FitOrder ==
    ASSUME NEW size \in Nat \ {0}, size <= 2 ^ MaxOrder
    PROVE  /\ MinFitOrder(size) \in Order
           /\ \A o \in Order : o >= MinFitOrder(size) <=> 2 ^ o >= size
<1> DEFINE S == {o \in Order : 2 ^ o >= size}
           k == Min(S)
<1>1. MaxOrder \in Order /\ Order \subseteq Nat
  BY ConstantsOK DEF Order, ConstantsOK
<1>2. \A o \in Order : 2 ^ o \in Nat \ {0}
  BY <1>1, PowerPositive
<1>3. MaxOrder \in S /\ S \in SUBSET Nat
  BY <1>1, <1>2
<1>4. k \in S /\ \A o \in S : k <= o
  <2> HIDE DEF S
  <2>1. QED
    BY <1>3, MinIs
<1>5. MinFitOrder(size) = k
  BY DEF MinFitOrder
<1> HIDE DEF k
<1>6. ASSUME NEW o \in Order, o >= k
      PROVE  2 ^ o >= size
  <2>1. k \in Nat /\ o \in Nat /\ k \in Order /\ 2 ^ k >= size
    BY <1>1, <1>4
  <2>2. 2 ^ k <= 2 ^ o
    BY <1>6, <2>1, PowerGrows
  <2>3. QED
    BY <1>2, <2>1, <2>2
<1>7. QED
  BY <1>4, <1>5, <1>6

\* What a thread that pushes nothing has to push.
LEMMA NothingPending ==
    ASSUME TypeOK, NEW t \in Thread, pc[t] = "idle"
    PROVE  /\ pend[t] \in [start : 0 .. Blocks, len : 0 .. Blocks] /\ pend[t].len = 0
           /\ Run(pend[t].start, pend[t].len) = {}
<1>1. pend[t] \in [start : 0 .. Blocks, len : 0 .. Blocks] /\ pend[t].len = 0
  BY DEF TypeOK
<1>2. pend[t].start \in Nat
  BY <1>1
<1>3. QED
  BY <1>1, <1>2 DEF Run

\* A run is its front and the rest of it.
LEMMA RunSplits ==
    \A p, a, b, len \in Nat : a + b = len =>
        /\ Run(p, a) \cup Run(p + a, b) = Run(p, len)
        /\ Run(p, a) \cap Run(p + a, b) = {}
<1> TAKE p, a, b, len \in Nat
<1> HAVE a + b = len
<1>1. /\ Run(p, a) = p .. p + a - 1 /\ Run(p + a, b) = p + a .. p + a + b - 1
      /\ Run(p, len) = p .. p + len - 1
  BY DEF Run
<1>2. QED
  BY <1>1

\* The allocation of a chunk that fits gives its front and pushes its end.
LEMMA FitTakes ==
    ASSUME IInv, NEW t \in Thread, NEW hope \in Lba, NEW size \in Nat \ {0},
           size <= 2 ^ MaxOrder, AllocateFit(t, size, hope)
    PROVE  \E p \in DOMAIN backref, rest \in [start : 0 .. Blocks, len : 0 .. Blocks] :
              /\ p \in Nat
              /\ Takes(t, {p}, Run(p, size), rest)
              /\ Gone({p}) = Run(p, size) \cup Run(rest.start, rest.len)
<1> DEFINE o == Min(Fitting(size))
           p == Min(buddies[o])
           n == 2 ^ o - size
           rest == IF n = 0 THEN pend[t] ELSE [start |-> p + size, len |-> n]
<1>1. /\ pc[t] = "idle" /\ Fitting(size) # {} /\ RemoveChunks({p})
      /\ held' = held \cup Run(p, size)
      /\ IF n = 0
         THEN pc' = pc /\ pend' = pend
         ELSE /\ pc' = [pc EXCEPT ![t] = "push"]
              /\ pend' = [pend EXCEPT ![t] = [start |-> p + size, len |-> n]]
  BY DEF AllocateFit
<1>2. o \in Order /\ buddies[o] # {} /\ 2 ^ o >= size
  <2>1. Fitting(size) \in SUBSET Nat
    BY ConstantsOK DEF Fitting, Order, ConstantsOK
  <2>2. o \in Fitting(size)
    BY <1>1, <2>1, MinIs
  <2> HIDE DEF o
  <2>3. o \in Order /\ buddies[o] # {} /\ o >= MinFitOrder(size)
    BY <2>2 DEF Fitting
  <2>4. QED
    BY <2>3, FitOrder
<1> HIDE DEF o
<1>3. /\ p \in DOMAIN backref /\ p \in Nat
      /\ p + 2 ^ o <= Blocks /\ 2 ^ o \in Nat \ {0}
      /\ Gone({p}) = Run(p, 2 ^ o)
  BY <1>2, BucketFirst
<1> HIDE DEF p
<1>4. n \in Nat /\ n + size = 2 ^ o
  BY <1>2, <1>3
<1>5. pend[t] \in [start : 0 .. Blocks, len : 0 .. Blocks] /\ pend[t].len = 0
      /\ Run(pend[t].start, pend[t].len) = {}
  BY <1>1, NothingPending DEF IInv
<1>6. CASE n = 0
  <2>1. rest = pend[t] /\ pc' = pc /\ pend' = pend
    BY <1>1, <1>6
  <2>2. size = 2 ^ o
    BY <1>2, <1>3, <1>6
  <2>3. Run(p, size) = Gone({p})
    BY <1>3, <2>2
  <2>4. pend' = [pend EXCEPT ![t] = rest] /\ pc' = [pc EXCEPT ![t] = "idle"]
    BY <1>1, <2>1 DEF IInv, TypeOK
  <2> HIDE DEF rest
  <2>5. Takes(t, {p}, Run(p, size), rest)
    BY <1>1, <1>3, <1>5, <2>1, <2>3, <2>4 DEF Takes
  <2>6. rest \in [start : 0 .. Blocks, len : 0 .. Blocks] /\ Run(rest.start, rest.len) = {}
    BY <1>5, <2>1
  <2>7. Gone({p}) = Run(p, size) \cup Run(rest.start, rest.len)
    BY <1>3, <2>3, <2>6
  <2>8. QED
    BY <1>3, <2>5, <2>6, <2>7, Zenon
<1>7. CASE n # 0
  <2>1. rest = [start |-> p + size, len |-> n]
    BY <1>7
  <2>2. rest.start = p + size /\ rest.len = n
    BY <2>1
  <2>3. pc' = [pc EXCEPT ![t] = "push"] /\ pend' = [pend EXCEPT ![t] = rest]
    BY <1>1, <1>7
  <2>4. rest \in [start : 0 .. Blocks, len : 0 .. Blocks]
    <3>1. p + size \in 0 .. Blocks /\ n \in 0 .. Blocks
      <4> DEFINE len == 2 ^ o
      <4>1. len \in Nat /\ p + len <= Blocks /\ n + size = len
        BY <1>3, <1>4
      <4> HIDE DEF len, n
      <4>2. QED
        BY <1>3, <1>4, <4>1, ConstantsOK DEF ConstantsOK
    <3>2. QED
      BY <2>1, <3>1
  <2>5. /\ Run(p, size) \cup Run(p + size, n) = Run(p, 2 ^ o)
        /\ Run(p, size) \cap Run(p + size, n) = {}
    <3> DEFINE len == 2 ^ o
    <3>1. p \in Nat /\ len \in Nat /\ n \in Nat /\ size \in Nat /\ size + n = len
      BY <1>3, <1>4
    <3> HIDE DEF len, n
    <3>2. \A a, b, c, d \in Nat : b + c = d =>
            /\ Run(a, b) \cup Run(a + b, c) = Run(a, d)
            /\ Run(a, b) \cap Run(a + b, c) = {}
      BY RunSplits, Zenon
    <3> HIDE DEF rest
    <3>3. \A b, c, d \in Nat : b + c = d =>
            /\ Run(p, b) \cup Run(p + b, c) = Run(p, d)
            /\ Run(p, b) \cap Run(p + b, c) = {}
      BY <3>1, <3>2, Zenon
    <3>4. \A c, d \in Nat : size + c = d =>
            /\ Run(p, size) \cup Run(p + size, c) = Run(p, d)
            /\ Run(p, size) \cap Run(p + size, c) = {}
      BY <3>1, <3>3, Zenon
    <3>5. \A d \in Nat : size + n = d =>
            /\ Run(p, size) \cup Run(p + size, n) = Run(p, d)
            /\ Run(p, size) \cap Run(p + size, n) = {}
      BY <3>1, <3>4, Zenon
    <3>6. size + n = len /\ len \in Nat
      BY <3>1, Zenon
    <3>7. /\ Run(p, size) \cup Run(p + size, n) = Run(p, len)
          /\ Run(p, size) \cap Run(p + size, n) = {}
      BY <3>6, <3>5, Zenon
    <3>8. QED
      BY <3>7 DEF len
  <2> HIDE DEF rest
  <2>6. Run(p, size) \cup Run(rest.start, rest.len) = Gone({p})
        /\ Run(p, size) \cap Run(rest.start, rest.len) = {}
    BY <1>3, <2>2, <2>5
  <2>7. rest.len # 0
    BY <1>7, <2>2
  <2>8. Takes(t, {p}, Run(p, size), rest)
    BY <1>1, <1>3, <2>3, <2>4, <2>6, <2>7 DEF Takes
  <2>9. QED
    BY <1>3, <2>4, <2>6, <2>8
<1>8. QED
  BY <1>6, <1>7

\* When no chunk fits, every chunk is too short, and the caller gets a whole one.
LEMMA SmallerTakes ==
    ASSUME IInv, NEW t \in Thread, NEW hope \in Lba, NEW size \in Nat \ {0},
           size <= 2 ^ MaxOrder, AllocateSmaller(t, size, hope)
    PROVE  /\ \E p \in DOMAIN backref :
                /\ p \in Nat
                /\ Takes(t, {p}, Run(p, 2 ^ backref[p]), pend[t])
                /\ Gone({p}) = Run(p, 2 ^ backref[p])
           /\ \A s \in DOMAIN backref : 2 ^ backref[s] < size
<1> DEFINE o == Max(Smaller(size))
           p == Min(buddies[o])
<1>1. /\ pc[t] = "idle" /\ Fitting(size) = {} /\ Smaller(size) # {} /\ RemoveChunks({p})
      /\ held' = held \cup Run(p, 2 ^ o) /\ pc' = pc /\ pend' = pend
  BY DEF AllocateSmaller
<1>2. o \in Order /\ buddies[o] # {}
  <2>1. Smaller(size) \in SUBSET (0 .. MaxOrder) /\ MaxOrder \in Nat
    BY ConstantsOK DEF Smaller, Order, ConstantsOK
  <2>2. o \in Smaller(size)
    BY <1>1, <2>1, MaxIs
  <2> HIDE DEF o
  <2>3. QED
    BY <2>2 DEF Smaller
<1> HIDE DEF o
<1>3. /\ p \in DOMAIN backref /\ backref[p] = o /\ p \in Nat
      /\ Gone({p}) = Run(p, 2 ^ o)
  BY <1>2, BucketFirst
<1> HIDE DEF p
<1>4. pend[t] \in [start : 0 .. Blocks, len : 0 .. Blocks] /\ pend[t].len = 0
      /\ Run(pend[t].start, pend[t].len) = {}
  BY <1>1, NothingPending DEF IInv
<1>5. pend' = [pend EXCEPT ![t] = pend[t]] /\ pc' = [pc EXCEPT ![t] = "idle"]
  BY <1>1 DEF IInv, TypeOK
<1>6. Takes(t, {p}, Run(p, 2 ^ backref[p]), pend[t])
  BY <1>1, <1>3, <1>4, <1>5 DEF Takes
<1>7. ASSUME NEW s \in DOMAIN backref
      PROVE  2 ^ backref[s] < size
  <2>1. backref[s] \in Order /\ 2 ^ backref[s] \in Nat \ {0}
    BY ChunkIs DEF IInv
  <2>2. s \in buddies[backref[s]]
    BY <2>1 DEF IInv, IndexesAgree
  <2>3. backref[s] \notin Fitting(size)
    BY <1>1
  <2>4. ~ (backref[s] >= MinFitOrder(size))
    BY <2>1, <2>2, <2>3 DEF Fitting
  <2>5. ~ (2 ^ backref[s] >= size)
    BY <2>1, <2>4, FitOrder
  <2>6. QED
    BY <2>1, <2>5
<1>8. QED
  BY <1>3, <1>6, <1>7

-----------------------------------------------------------------------------
(* Runs that come back, piece by piece.                                    *)

\* One call of insert: a piece goes from the run of the thread to the chunks.
LEMMA InsertKeeps ==
    ASSUME IInv, NEW t \in Thread, Insert(t)
    PROVE  \E piece \in SUBSET Pending(t) :
              /\ IInv'
              /\ Covered' = Covered \cup piece
              /\ Pending(t)' = Pending(t) \ piece
              /\ (pc'[t] = pc[t] \/ Pending(t)' = {}) /\ pc[t] \in {"push", "give"}
              /\ \A u \in Thread \ {t} : Pending(u)' = Pending(u) /\ pc'[u] = pc[u]
<1>0. PICK s, len, o : s = pend[t].start /\ len = pend[t].len /\ o = PieceOrder(s, len)
  OBVIOUS
<1> DEFINE n == 2 ^ o
           rest == [start |-> s + n, len |-> len - n]
           piece == Run(s, n)
<1>1. TypeOK /\ NeverStuck /\ ChunksFit /\ IndexesAgree /\ BlocksExclusive
  BY DEF IInv
<1>2. /\ pc[t] \in {"push", "give"}
      /\ backref' = [l \in DOMAIN backref \cup {s} |-> IF l = s THEN o ELSE backref[l]]
      /\ buddies' = [buddies EXCEPT ![o] = @ \cup {s}]
      /\ IF rest.len = 0
         THEN pc' = [pc EXCEPT ![t] = "idle"] /\ pend' = [pend EXCEPT ![t] = Nothing]
         ELSE pend' = [pend EXCEPT ![t] = rest] /\ pc' = pc
      /\ held' = held
  BY <1>0 DEF Insert
<1>3. pend[t] \in [start : 0 .. Blocks, len : 0 .. Blocks] /\ len # 0
  BY <1>0, <1>1, <1>2 DEF TypeOK
<1>4. s \in Nat /\ len \in Nat \ {0} /\ len \in 0 .. Blocks /\ s \in 0 .. Blocks
  BY <1>0, <1>3
<1>5. Pending(t) = s .. s + len - 1 /\ Pending(t) \subseteq Lba
  BY <1>0, <1>1 DEF Pending, Run, TypeOK
<1>6. o \in Order /\ s % n = 0 /\ n \in 1 .. len
  BY <1>0, <1>4, PieceOrderIs
<1>7. n \in Nat \ {0} /\ n <= len
  BY <1>4, <1>6
<1>8. piece = s .. s + n - 1
  BY DEF Run
<1> HIDE DEF n
<1>9. /\ piece \subseteq Pending(t) /\ s \in piece /\ s \in Lba
  BY <1>4, <1>5, <1>7, <1>8
<1>10. s \notin DOMAIN backref
  <2>1. s \notin Covered
    BY <1>1, <1>9 DEF BlocksExclusive
  <2>2. QED
    BY <1>1, <2>1, ChunkIs DEF Covered
<1>11. DOMAIN backref' = DOMAIN backref \cup {s}
  BY <1>2
<1>12. backref'[s] = o /\ \A l \in DOMAIN backref : backref'[l] = backref[l]
  BY <1>2, <1>10
<1>13. Chunk(s)' = piece /\ \A l \in DOMAIN backref : Chunk(l)' = Chunk(l)
  BY <1>12 DEF Chunk, n
<1>14. Covered' = Covered \cup piece
  <2>1. Covered' = UNION {Chunk(l)' : l \in DOMAIN backref \cup {s}}
    BY <1>11 DEF Covered
  <2>2. QED
    BY <1>13, <2>1 DEF Covered
<1>15. /\ Pending(t)' = Pending(t) \ piece
       /\ pend'[t] \in [start : 0 .. Blocks, len : 0 .. Blocks]
       /\ pc'[t] = pc[t] \/ (Pending(t)' = {} /\ pc'[t] = "idle")
       /\ pend'[t].len = 0 <=> pc'[t] \notin {"push", "give"}
  <2>1. rest.start = s + n /\ rest.len = len - n
    OBVIOUS
  <2>2. CASE len = n
    <3>1. pc'[t] = "idle" /\ pend'[t] = Nothing
      BY <1>1, <1>2, <1>4, <2>1, <2>2 DEF TypeOK
    <3>2. Pending(t)' = {}
      BY <3>1 DEF Pending, Run, Nothing
    <3>3. Pending(t) \ piece = {}
      BY <1>5, <1>8, <2>2
    <3>4. QED
      BY <3>1, <3>2, <3>3, ConstantsOK DEF Nothing, ConstantsOK
  <2>3. CASE len # n
    <3>1. rest.len # 0
      BY <1>4, <1>7, <2>1, <2>3
    <3>2. pc'[t] = pc[t] /\ pend'[t] = rest
      BY <1>1, <1>2, <3>1 DEF TypeOK
    <3>3. Pending(t)' = s + n .. s + n + (len - n) - 1
      BY <2>1, <3>2 DEF Pending, Run
    <3>4. Pending(t)' = Pending(t) \ piece
      BY <1>4, <1>5, <1>7, <1>8, <3>3
    <3>5. s + n \in 0 .. Blocks /\ len - n \in 0 .. Blocks
      <4>1. s + len - 1 \in Lba
        BY <1>4, <1>5
      <4>2. s + len <= Blocks
        BY <1>4, <4>1, ConstantsOK DEF Lba, ConstantsOK
      <4>3. QED
        BY <1>4, <1>7, <4>2, ConstantsOK DEF ConstantsOK
    <3>6. rest \in [start : 0 .. Blocks, len : 0 .. Blocks]
      BY <3>5
    <3> HIDE DEF rest
    <3>7. QED
      BY <1>2, <3>1, <3>2, <3>4, <3>6
  <2>4. QED
    BY <2>2, <2>3
<1>16. \A u \in Thread \ {t} : pend'[u] = pend[u] /\ pc'[u] = pc[u]
  <2> HIDE DEF rest
  <2>1. QED
    BY <1>1, <1>2 DEF TypeOK
<1>17. \A u \in Thread \ {t} : Pending(u)' = Pending(u)
  BY <1>16 DEF Pending
<1> HIDE DEF piece
<1>18. TypeOK'
  <2>1. backref' \in [DOMAIN backref' -> Order] /\ DOMAIN backref' \subseteq Lba
    BY <1>1, <1>2, <1>6, <1>9 DEF TypeOK
  <2>2. buddies' \in [Order -> SUBSET Lba]
    BY <1>1, <1>2, <1>9 DEF TypeOK
  <2>3. pend' \in [Thread -> [start : 0 .. Blocks, len : 0 .. Blocks]]
    <3>1. \E x : pend' = [pend EXCEPT ![t] = x]
      BY <1>2
    <3>2. PICK x : pend' = [pend EXCEPT ![t] = x]
      BY <3>1
    <3>3. x = pend'[t]
      BY <1>1, <3>2 DEF TypeOK
    <3> HIDE DEF rest
    <3>4. QED
      BY <1>1, <1>15, <3>2, <3>3 DEF TypeOK
  <2>4. pc' \in [Thread -> {"idle", "push", "give", "stuck"}]
    BY <1>1, <1>2 DEF TypeOK
  <2>5. ASSUME NEW u \in Thread
        PROVE  Pending(u)' \subseteq Lba /\ (pend'[u].len = 0 <=> pc'[u] \notin {"push", "give"})
    <3>1. CASE u = t
      BY <1>5, <1>15, <3>1
    <3>2. CASE u # t
      BY <1>1, <1>16, <1>17, <3>2 DEF TypeOK
    <3>3. QED
      BY <3>1, <3>2
  <2>6. held' \subseteq Lba
    BY <1>1, <1>2 DEF TypeOK
  <2>7. QED
    BY <2>1, <2>2, <2>3, <2>4, <2>5, <2>6 DEF TypeOK
<1>19. NeverStuck'
  BY <1>1, <1>2, <1>15, <1>16 DEF NeverStuck
<1>20. ChunksFit'
  BY <1>1, <1>5, <1>9, <1>14 DEF ChunksFit
<1>21. IndexesAgree'
  <2>1. ASSUME NEW k \in Order
        PROVE  buddies'[k] = {l \in DOMAIN backref' : backref'[l] = k}
    <3>1. buddies[k] = {l \in DOMAIN backref : backref[l] = k}
      BY <1>1 DEF IndexesAgree
    <3>2. buddies'[k] = IF k = o THEN buddies[k] \cup {s} ELSE buddies[k]
      BY <1>1, <1>2 DEF TypeOK
    <3>3. QED
      BY <1>10, <1>11, <1>12, <3>1, <3>2
  <2>2. ASSUME NEW l \in DOMAIN backref'
        PROVE  l % 2 ^ backref'[l] = 0
    BY <1>1, <1>6, <1>11, <1>12 DEF IndexesAgree, n
  <2>3. QED
    BY <2>1, <2>2 DEF IndexesAgree
<1>22. BlocksExclusive'
  <2>1. Covered \cap held = {} /\ piece \cap (Covered \cup held) = {}
    BY <1>1, <1>9 DEF BlocksExclusive
  <2>2. ASSUME NEW r \in DOMAIN backref', NEW l \in DOMAIN backref', r # l
        PROVE  Chunk(r)' \cap Chunk(l)' = {}
    <3>1. \A k \in DOMAIN backref : Chunk(k) \cap piece = {}
      BY <2>1 DEF Covered
    <3>2. CASE r # s /\ l # s
      BY <1>1, <1>11, <1>13, <2>2, <3>2 DEF BlocksExclusive
    <3>3. CASE r = s \/ l = s
      BY <1>11, <1>13, <2>2, <3>1, <3>3
    <3>4. QED
      BY <3>2, <3>3
  <2>3. Covered' \cap held' = {}
    BY <1>2, <1>14, <2>1
  <2>4. ASSUME NEW u \in Thread
        PROVE  Pending(u)' \cap (Covered' \cup held') = {}
    <3>1. Pending(u) \cap (Covered \cup held) = {}
      BY <1>1 DEF BlocksExclusive
    <3>2. CASE u = t
      BY <1>2, <1>14, <1>15, <3>1, <3>2
    <3>3. CASE u # t
      <4>1. Pending(u) \cap piece = {}
        BY <1>1, <1>9, <3>3 DEF BlocksExclusive
      <4>2. QED
        BY <1>2, <1>14, <1>17, <3>1, <3>3, <4>1
    <3>4. QED
      BY <3>2, <3>3
  <2>5. ASSUME NEW u \in Thread, NEW v \in Thread, u # v
        PROVE  Pending(u)' \cap Pending(v)' = {}
    <3>1. Pending(u) \cap Pending(v) = {}
      BY <1>1, <2>5 DEF BlocksExclusive
    <3>2. Pending(u)' \subseteq Pending(u) /\ Pending(v)' \subseteq Pending(v)
      BY <1>15, <1>17
    <3>3. QED
      BY <3>1, <3>2
  <2>6. QED
    BY <2>2, <2>3, <2>4, <2>5 DEF BlocksExclusive
<1>23. QED
  BY <1>2, <1>9, <1>14, <1>15, <1>16, <1>17, <1>18, <1>19, <1>20, <1>21, <1>22 DEF IInv

\* A caller gives a run back.
LEMMA GiveKeeps ==
    ASSUME IInv, NEW t \in Thread, NEW start \in Lba, NEW len \in 1 .. Blocks,
           Give(t, start, len)
    PROVE  /\ IInv'
           /\ Covered' = Covered
           /\ Run(start, len) \subseteq held /\ held' = held \ Run(start, len)
           /\ Pending(t) = {} /\ Pending(t)' = Run(start, len) /\ pc'[t] = "give"
           /\ \A u \in Thread \ {t} : Pending(u)' = Pending(u) /\ pc'[u] = pc[u]
<1>1. TypeOK /\ NeverStuck /\ ChunksFit /\ IndexesAgree /\ BlocksExclusive
  BY DEF IInv
<1>2. /\ pc[t] = "idle" /\ Run(start, len) \subseteq held
      /\ held' = held \ Run(start, len)
      /\ pc' = [pc EXCEPT ![t] = "give"]
      /\ pend' = [pend EXCEPT ![t] = [start |-> start, len |-> len]]
      /\ backref' = backref /\ buddies' = buddies
  BY DEF Give
<1>3. /\ pend'[t] = [start |-> start, len |-> len] /\ pc'[t] = "give"
      /\ \A u \in Thread \ {t} : pend'[u] = pend[u] /\ pc'[u] = pc[u]
  BY <1>1, <1>2 DEF TypeOK
<1>4. Pending(t)' = Run(start, len) /\ \A u \in Thread \ {t} : Pending(u)' = Pending(u)
  BY <1>3 DEF Pending
<1>5. Pending(t) = {}
  BY <1>1, <1>2, NothingPending DEF Pending
<1>6. Covered' = Covered /\ \A s \in DOMAIN backref : Chunk(s)' = Chunk(s)
  BY <1>2 DEF Covered, Chunk
<1>7. TypeOK'
  <2>1. [start |-> start, len |-> len] \in [start : 0 .. Blocks, len : 0 .. Blocks]
    <3>1. start \in 0 .. Blocks /\ len \in 0 .. Blocks
      BY ConstantsOK DEF Lba, ConstantsOK
    <3>2. QED
      BY <3>1
  <2>2. pend' \in [Thread -> [start : 0 .. Blocks, len : 0 .. Blocks]]
    BY <1>1, <1>2, <2>1 DEF TypeOK
  <2>3. pc' \in [Thread -> {"idle", "push", "give", "stuck"}]
    BY <1>1, <1>2 DEF TypeOK
  <2>4. Run(start, len) \subseteq Lba
    BY <1>1, <1>2 DEF TypeOK
  <2>5. ASSUME NEW u \in Thread
        PROVE  Pending(u)' \subseteq Lba /\ (pend'[u].len = 0 <=> pc'[u] \notin {"push", "give"})
    <3>1. CASE u = t
      <4>1. pend'[t].len = len /\ len # 0
        BY <1>3
      <4>2. QED
        BY <1>3, <1>4, <2>4, <3>1, <4>1
    <3>2. CASE u # t
      BY <1>1, <1>3, <1>4, <3>2 DEF TypeOK
    <3>3. QED
      BY <3>1, <3>2
  <2>6. QED
    BY <1>1, <1>2, <2>2, <2>3, <2>5 DEF TypeOK
<1>8. NeverStuck' /\ ChunksFit' /\ IndexesAgree'
  BY <1>1, <1>2, <1>3, <1>6 DEF NeverStuck, ChunksFit, IndexesAgree
<1>9. BlocksExclusive'
  <2>1. \A r, s \in DOMAIN backref' : r # s => Chunk(r)' \cap Chunk(s)' = {}
    BY <1>1, <1>2, <1>6 DEF BlocksExclusive
  <2>2. Covered \cap held = {}
    BY <1>1 DEF BlocksExclusive
  <2>3. \A u \in Thread : Pending(u) \cap (Covered \cup held) = {}
    BY <1>1 DEF BlocksExclusive
  <2>4. \A u, v \in Thread : u # v => Pending(u) \cap Pending(v) = {}
    BY <1>1 DEF BlocksExclusive
  <2>5. \A u \in Thread : Pending(u)' \cap (Covered' \cup held') = {}
    BY <1>2, <1>4, <1>6, <2>2, <2>3
  <2>6. \A u, v \in Thread : u # v => Pending(u)' \cap Pending(v)' = {}
    BY <1>2, <1>4, <2>3, <2>4
  <2>7. QED
    BY <1>2, <1>6, <2>1, <2>2, <2>5, <2>6 DEF BlocksExclusive
<1>10. QED
  BY <1>2, <1>3, <1>4, <1>5, <1>6, <1>7, <1>8, <1>9 DEF IInv

-----------------------------------------------------------------------------
(* The steps together, and what they mean.                                 *)

\* Whatever way a call allocates, it takes chunks, gives blocks that follow each
\* other, and answers with less than it was asked for only for a reason; away
\* from the place hoped for it pushes all the rest.
LEMMA AllocateTells ==
    ASSUME IInv, NEW t \in Thread, NEW hope \in Lba, NEW size \in Nat \ {0},
           size <= 2 ^ MaxOrder, Allocate(t, size, hope)
    PROVE  \E starts, rest : \E p, k \in Nat :
              /\ Takes(t, starts, Run(p, k), rest)
              /\ \/ AllocateHoped(t, size, hope)
                 \/ Gone(starts) = Run(p, k) \cup Run(rest.start, rest.len)
              /\ k <= size
              /\ k < size => \/ 2 * k > size
                             \/ \A s \in DOMAIN backref : 2 ^ backref[s] < size
<1>1. CASE AllocateHoped(t, size, hope)
  <2> DEFINE a == Min({ChainAt(hope, size), size})
             starts == DOMAIN backref \cap Run(hope, a)
  <2>1. Takes(t, starts, Run(hope, a), pend[t]) /\ a \in Nat /\ a <= size /\ (a < size => 2 * a > size)
    BY <1>1, HopedTakes
  <2>2. hope \in Nat
    BY DEF Lba
  <2> HIDE DEF a, starts
  <2>3. QED
    BY <1>1, <2>1, <2>2
<1>2. CASE AllocateFit(t, size, hope)
  <2>1. PICK p \in DOMAIN backref, rest \in [start : 0 .. Blocks, len : 0 .. Blocks] :
              /\ p \in Nat
              /\ Takes(t, {p}, Run(p, size), rest)
              /\ Gone({p}) = Run(p, size) \cup Run(rest.start, rest.len)
    BY <1>2, FitTakes
  <2>2. size \in Nat /\ size <= size /\ ~ (size < size)
    OBVIOUS
  <2>3. QED
    BY <2>1, <2>2
<1>3. CASE AllocateSmaller(t, size, hope)
  <2>1. PICK p \in DOMAIN backref :
              /\ p \in Nat
              /\ Takes(t, {p}, Run(p, 2 ^ backref[p]), pend[t])
              /\ Gone({p}) = Run(p, 2 ^ backref[p])
    BY <1>3, SmallerTakes
  <2>2. \A s \in DOMAIN backref : 2 ^ backref[s] < size
    BY <1>3, SmallerTakes
  <2>3. Run(pend[t].start, pend[t].len) = {}
    BY <2>1, NothingPending DEF IInv, Takes
  <2> DEFINE k == 2 ^ backref[p]
  <2>4. k \in Nat /\ k < size
    BY <2>2, ChunkIs DEF IInv
  <2>5. k <= size
    BY <2>4
  <2>6. Takes(t, {p}, Run(p, k), pend[t]) /\ Gone({p}) = Run(p, k) \cup Run(pend[t].start, pend[t].len)
    BY <2>1, <2>3
  <2> HIDE DEF k
  <2>7. QED
    BY <2>1, <2>2, <2>4, <2>5, <2>6
<1>4. QED
  BY <1>1, <1>2, <1>3 DEF Allocate

\* A request of the specification, as the lemmas above take it.
LEMMA AskedTells ==
    ASSUME IInv, NEW t \in Thread, NEW hope \in Lba, NEW size \in 1 .. MaxRequest,
           Allocate(t, Asked(size), hope)
    PROVE  \E starts, rest : \E p, k \in Nat :
              /\ Takes(t, starts, Run(p, k), rest)
              /\ \/ AllocateHoped(t, Asked(size), hope)
                 \/ Gone(starts) = Run(p, k) \cup Run(rest.start, rest.len)
              /\ k <= Asked(size)
              /\ k < Asked(size) => \/ 2 * k > Asked(size)
                                    \/ \A s \in DOMAIN backref : 2 ^ backref[s] < Asked(size)
<1>1. Asked(size) \in Nat \ {0} /\ Asked(size) <= 2 ^ MaxOrder
  BY AskedIs
<1>2. QED
  BY <1>1, AllocateTells

\* Away from the place hoped for, all of the chunk goes to the caller or is
\* pushed.
LEMMA AwayTells ==
    ASSUME IInv, NEW t \in Thread, NEW hope \in Lba, NEW size \in 1 .. MaxRequest,
           Allocate(t, Asked(size), hope)
    PROVE  \E starts, rest, got :
              /\ Takes(t, starts, got, rest)
              /\ \/ AllocateHoped(t, Asked(size), hope)
                 \/ Gone(starts) = got \cup Run(rest.start, rest.len)
<1>1. PICK starts, rest : \E p, k \in Nat :
              /\ Takes(t, starts, Run(p, k), rest)
              /\ \/ AllocateHoped(t, Asked(size), hope)
                 \/ Gone(starts) = Run(p, k) \cup Run(rest.start, rest.len)
              /\ k <= Asked(size)
              /\ k < Asked(size) => \/ 2 * k > Asked(size)
                                    \/ \A s \in DOMAIN backref : 2 ^ backref[s] < Asked(size)
  BY AskedTells, Zenon
<1>2. PICK p, k \in Nat :
              /\ Takes(t, starts, Run(p, k), rest)
              /\ \/ AllocateHoped(t, Asked(size), hope)
                 \/ Gone(starts) = Run(p, k) \cup Run(rest.start, rest.len)
  BY <1>1, Zenon
<1>3. QED
  BY <1>2, Zenon

\* The invariant is kept by every step.
LEMMA IStep == IInv /\ [Next]_vars => IInv'
<1> SUFFICES ASSUME IInv, [Next]_vars
             PROVE  IInv'
  OBVIOUS
<1>1. ASSUME NEW t \in Thread, Insert(t)
      PROVE  IInv'
  BY <1>1, InsertKeeps
<1>2. ASSUME NEW t \in Thread, NEW start \in Lba, NEW len \in 1 .. Blocks, Give(t, start, len)
      PROVE  IInv'
  BY <1>2, GiveKeeps
<1>3. ASSUME NEW t \in Thread, NEW size \in 1 .. MaxRequest, NEW hope \in Lba,
             Allocate(t, Asked(size), hope)
      PROVE  IInv'
  <2>1. PICK starts, rest : \E p, k \in Nat : Takes(t, starts, Run(p, k), rest)
    BY <1>3, AskedTells
  <2>2. QED
    BY <2>1, AllocateKeeps
<1>4. CASE UNCHANGED vars
  <2>1. backref' = backref /\ buddies' = buddies /\ held' = held /\ pc' = pc /\ pend' = pend
    BY <1>4 DEF vars
  <2>2. Covered' = Covered /\ \A s \in DOMAIN backref : Chunk(s)' = Chunk(s)
    BY <2>1 DEF Covered, Chunk
  <2>3. \A t \in Thread : Pending(t)' = Pending(t)
    BY <2>1 DEF Pending
  <2>4. TypeOK' /\ NeverStuck' /\ ChunksFit' /\ IndexesAgree'
    BY <2>1, <2>2, <2>3 DEF IInv, TypeOK, NeverStuck, ChunksFit, IndexesAgree
  <2>5. BlocksExclusive'
    BY <2>1, <2>2, <2>3 DEF IInv, BlocksExclusive
  <2>6. QED
    BY <2>4, <2>5 DEF IInv
<1>5. QED
  BY <1>1, <1>2, <1>3, <1>4 DEF Next

\* The variables of the allocator always have their types, for any number of
\* blocks, any orders, any requests and any bitmaps at mount.
THEOREM TypeCorrect == Spec => []TypeOK
<1>1. IInv => TypeOK
  BY DEF IInv
<1>2. QED
  BY <1>1, IInit, IStep, PTL DEF Spec

\* buddies and backref always describe the same chunks, though the chunks of a
\* run are pushed one by one and other threads allocate in between: the
\* assertion behind backref.remove never fails.
THEOREM SameChunks == Spec => []IndexesAgree
<1>1. IInv => IndexesAgree
  BY DEF IInv
<1>2. QED
  BY <1>1, IInit, IStep, PTL DEF Spec

\* No block is in two chunks, with a caller and in a chunk, or on its way back
\* and in one of them: allocate never answers with a block twice.
THEOREM NoBlockTwice == Spec => []BlocksExclusive
<1>1. IInv => BlocksExclusive
  BY DEF IInv
<1>2. QED
  BY <1>1, IInit, IStep, PTL DEF Spec

\* try_allocate_at never pushes the rest of a chunk while it holds the lock that
\* push_chunk takes: its chain ends where its last chunk ends.
THEOREM NeverWaitsForItself == Spec => []NeverStuck
<1>1. IInv => NeverStuck
  BY DEF IInv
<1>2. QED
  BY <1>1, IInit, IStep, PTL DEF Spec

\* Splitting a chunk, pushing it piece by piece and giving blocks back lose no
\* block, for any number of threads in the middle of it; only try_allocate_at
\* does.
THEOREM OthersLoseNothing == Spec => OnlyHopeLoses
<1> DEFINE Hope == \E t \in Thread, size \in 1 .. MaxRequest, hope \in Lba :
                      AllocateHoped(t, Asked(size), hope)
<1>1. IInv /\ [Next]_vars => [LostBlocks' # LostBlocks => Hope]_vars
  <2> SUFFICES ASSUME IInv, Next, ~ Hope
               PROVE  LostBlocks' = LostBlocks
    OBVIOUS
  <2> DEFINE All == UNION {Pending(u) : u \in Thread}
  <2>1. LostBlocks = Lba \ (Covered \cup held \cup All)
        /\ LostBlocks' = Lba \ (Covered' \cup held' \cup All')
    BY DEF LostBlocks
  <2>2. \A x : x \in All <=> \E u \in Thread : x \in Pending(u)
    OBVIOUS
  <2>3. \A x : x \in All' <=> \E u \in Thread : x \in Pending(u)'
    OBVIOUS
  <2> HIDE DEF All
  <2>4. ASSUME NEW t \in Thread, Insert(t)
        PROVE  LostBlocks' = LostBlocks
    <3>1. PICK piece \in SUBSET Pending(t) :
              /\ Covered' = Covered \cup piece
              /\ Pending(t)' = Pending(t) \ piece
              /\ \A u \in Thread \ {t} : Pending(u)' = Pending(u)
      BY <2>4, InsertKeeps
    <3>2. held' = held
      BY <2>4 DEF Insert
    <3>3. \A x : x \in Covered' \cup held' \cup All' <=> x \in Covered \cup held \cup All
      BY <2>2, <2>3, <3>1, <3>2
    <3>4. QED
      BY <2>1, <3>3
  <2>5. ASSUME NEW t \in Thread, NEW start \in Lba, NEW len \in 1 .. Blocks, Give(t, start, len)
        PROVE  LostBlocks' = LostBlocks
    <3>1. /\ Covered' = Covered /\ Run(start, len) \subseteq held /\ held' = held \ Run(start, len)
          /\ Pending(t) = {} /\ Pending(t)' = Run(start, len)
          /\ \A u \in Thread \ {t} : Pending(u)' = Pending(u)
      BY <2>5, GiveKeeps
    <3>2. \A x : x \in Covered' \cup held' \cup All' <=> x \in Covered \cup held \cup All
      BY <2>2, <2>3, <3>1
    <3>3. QED
      BY <2>1, <3>2
  <2>6. ASSUME NEW t \in Thread, NEW size \in 1 .. MaxRequest, NEW hope \in Lba,
               Allocate(t, Asked(size), hope)
        PROVE  LostBlocks' = LostBlocks
    <3>1. ~ AllocateHoped(t, Asked(size), hope)
      OBVIOUS
    <3>2. PICK starts, rest, got :
              Takes(t, starts, got, rest)
              /\ (\/ AllocateHoped(t, Asked(size), hope)
                  \/ Gone(starts) = got \cup Run(rest.start, rest.len))
      BY <2>6, AwayTells
    <3>3. Takes(t, starts, got, rest) /\ Gone(starts) = got \cup Run(rest.start, rest.len)
      BY <3>1, <3>2
    <3>4. /\ Covered' = Covered \ Gone(starts) /\ Gone(starts) \subseteq Covered
          /\ Pending(t)' = Run(rest.start, rest.len) /\ Pending(t) = {}
          /\ \A u \in Thread \ {t} : Pending(u)' = Pending(u)
      BY <3>3, AllocateKeeps
    <3>5. held' = held \cup got
      BY <3>3 DEF Takes
    <3>6. \A x : x \in Covered' \cup held' \cup All' <=> x \in Covered \cup held \cup All
      BY <2>2, <2>3, <3>3, <3>4, <3>5
    <3>7. QED
      BY <2>1, <3>6
  <2>7. QED
    BY <2>4, <2>5, <2>6 DEF Next
<1> HIDE DEF Hope
<1>2. Spec => [][LostBlocks' # LostBlocks => Hope]_vars
  BY <1>1, IInit, IStep, PTL DEF Spec
<1>3. QED
  BY <1>2 DEF OnlyHopeLoses, Hope

\* A call answers with less than it was asked for only with more than half of it
\* or when no chunk is long enough, and never with more.
THEOREM AnswersShortForAReason == Spec => ShortAnswers
<1> DEFINE Reason ==
        held' \ held # {} =>
            \A t \in Thread, size \in 1 .. MaxRequest, hope \in Lba :
                Allocate(t, Asked(size), hope) =>
                    LET got == Cardinality(held' \ held) IN
                    /\ got <= Asked(size)
                    /\ got < Asked(size) =>
                        \/ 2 * got > Asked(size)
                        \/ \A s \in DOMAIN backref : 2 ^ backref[s] < Asked(size)
<1>1. IInv /\ [Next]_vars => [Reason]_vars
  <2> SUFFICES ASSUME IInv, NEW t \in Thread, NEW size \in 1 .. MaxRequest, NEW hope \in Lba,
                      Allocate(t, Asked(size), hope)
               PROVE  LET got == Cardinality(held' \ held) IN
                      /\ got <= Asked(size)
                      /\ got < Asked(size) =>
                          \/ 2 * got > Asked(size)
                          \/ \A s \in DOMAIN backref : 2 ^ backref[s] < Asked(size)
    OBVIOUS
  <2>1. PICK starts, rest : \E p, k \in Nat :
              /\ Takes(t, starts, Run(p, k), rest)
              /\ k <= Asked(size)
              /\ k < Asked(size) => \/ 2 * k > Asked(size)
                                    \/ \A s \in DOMAIN backref : 2 ^ backref[s] < Asked(size)
    BY AskedTells
  <2>2. PICK p, k \in Nat :
              /\ Takes(t, starts, Run(p, k), rest)
              /\ k <= Asked(size)
              /\ k < Asked(size) => \/ 2 * k > Asked(size)
                                    \/ \A s \in DOMAIN backref : 2 ^ backref[s] < Asked(size)
    BY <2>1
  <2>3. Gone(starts) \subseteq Covered /\ Covered \cap held = {}
    BY <2>2, AllocateKeeps DEF IInv, BlocksExclusive
  <2>4. held' = held \cup Run(p, k) /\ Run(p, k) \subseteq Gone(starts)
    BY <2>2 DEF Takes
  <2>5. held' \ held = Run(p, k)
    BY <2>3, <2>4
  <2>6. Cardinality(p .. p + k - 1) = k
    <3>1. p + k - 1 \in Int /\ p \in Int /\ (p > p + k - 1 => k = 0) /\ p + k - 1 - p + 1 = k
      OBVIOUS
    <3>2. Cardinality(p .. p + k - 1) = IF p > p + k - 1 THEN 0 ELSE p + k - 1 - p + 1
      BY <3>1, FS_Interval
    <3>3. QED
      BY <3>1, <3>2
  <2>7. Cardinality(held' \ held) = k
    BY <2>5, <2>6 DEF Run
  <2>8. QED
    BY <2>2, <2>7
<1> HIDE DEF Reason
<1>2. Spec => [][Reason]_vars
  BY <1>1, IInit, IStep, PTL DEF Spec
<1>3. QED
  BY <1>2 DEF ShortAnswers, Reason

-----------------------------------------------------------------------------
(* The buddies implement BlockOwnership.                                   *)

\* What the status of a block says while no block is in two places.
StatusTells ==
    \A b \in Lba :
        /\ b \in held => Status[b] = "client"
        /\ b \in Covered => Status[b] = "free"
        /\ \A t \in Thread : b \in Pending(t) =>
                Status[b] = IF pc[t] = "push" THEN "free" ELSE "releasing"
        /\ b \in LostBlocks => Status[b] = "lost"

\* A block has the status of the place it is in.
LEMMA StatusIs == IInv => StatusTells
<1> SUFFICES ASSUME IInv, NEW b \in Lba
             PROVE  /\ b \in held => Status[b] = "client"
                    /\ b \in Covered => Status[b] = "free"
                    /\ \A t \in Thread : b \in Pending(t) =>
                            Status[b] = IF pc[t] = "push" THEN "free" ELSE "releasing"
                    /\ b \in LostBlocks => Status[b] = "lost"
  BY DEF StatusTells
<1>1. /\ Covered \cap held = {}
      /\ \A t \in Thread : Pending(t) \cap (Covered \cup held) = {}
      /\ \A t, u \in Thread : t # u => Pending(t) \cap Pending(u) = {}
  BY DEF IInv, BlocksExclusive
<1>2. Status[b] = IF b \in held THEN "client"
                  ELSE IF b \in Covered THEN "free"
                  ELSE IF \E t \in Thread : b \in Pending(t) /\ pc[t] = "push" THEN "free"
                  ELSE IF \E t \in Thread : b \in Pending(t) THEN "releasing"
                  ELSE "lost"
  BY DEF Status
<1>3. ASSUME NEW t \in Thread, b \in Pending(t)
      PROVE  Status[b] = IF pc[t] = "push" THEN "free" ELSE "releasing"
  <2>1. b \notin held /\ b \notin Covered /\ \A u \in Thread : b \in Pending(u) => u = t
    BY <1>1, <1>3
  <2>2. QED
    BY <1>2, <1>3, <2>1
<1>4. b \in LostBlocks => Status[b] = "lost"
  BY <1>2 DEF LostBlocks
<1>5. QED
  BY <1>1, <1>2, <1>3, <1>4

\* The same before and after a step, and the type of the status.
LEMMA StatusStep ==
    ASSUME IInv, IInv'
    PROVE  /\ Status' \in [Lba -> Ownership!Statuses]
           /\ StatusTells
           /\ \A b \in Lba :
                /\ b \in held' => Status'[b] = "client"
                /\ b \in Covered' => Status'[b] = "free"
                /\ \A t \in Thread : b \in Pending(t)' =>
                        Status'[b] = IF pc'[t] = "push" THEN "free" ELSE "releasing"
                /\ b \in LostBlocks' => Status'[b] = "lost"
           /\ \A b \in Lba : b \in held \/ b \in Covered \/ b \in LostBlocks
                                \/ \E t \in Thread : b \in Pending(t)
<1>1. Status' \in [Lba -> Ownership!Statuses]
  BY DEF Status, Ownership!Statuses, Ownership!Free, Ownership!Releasing, Ownership!Lost
<1>2. (IInv => StatusTells)'
  BY StatusIs, PTL
<1>3. StatusTells'
  BY <1>2
<1>4. \A b \in Lba : b \in held \/ b \in Covered \/ b \in LostBlocks
                        \/ \E t \in Thread : b \in Pending(t)
  BY DEF LostBlocks
<1>5. QED
  BY <1>1, <1>3, <1>4, StatusIs DEF StatusTells

\* An allocation: free blocks become the property of the caller; those of a
\* chain that were not asked for are lost.
LEMMA TakesAllocates ==
    ASSUME IInv, NEW t \in Thread, NEW starts, NEW got, NEW rest,
           Takes(t, starts, got, rest)
    PROVE  Ownership!Next
<1>1. /\ IInv'
      /\ Covered' = Covered \ Gone(starts) /\ Gone(starts) \subseteq Covered
      /\ Pending(t)' = Run(rest.start, rest.len) /\ Pending(t) = {}
      /\ \A u \in Thread \ {t} : Pending(u)' = Pending(u)
  BY AllocateKeeps
<1>2. /\ held' = held \cup got /\ got \subseteq Gone(starts)
      /\ pc' = [pc EXCEPT ![t] = IF rest.len = 0 THEN "idle" ELSE "push"]
      /\ Run(rest.start, rest.len) \subseteq Gone(starts)
      /\ rest \in [start : 0 .. Blocks, len : 0 .. Blocks]
  BY DEF Takes
<1>3. /\ \A u \in Thread \ {t} : pc'[u] = pc[u]
      /\ Pending(t)' # {} => pc'[t] = "push"
  <2>1. rest.len = 0 => Run(rest.start, rest.len) = {}
    BY <1>2 DEF Run
  <2>2. QED
    BY <1>1, <1>2, <2>1 DEF IInv, TypeOK
<1>4. /\ Status' \in [Lba -> Ownership!Statuses]
      /\ StatusTells
      /\ \A b \in Lba :
           /\ b \in held' => Status'[b] = "client"
           /\ b \in Covered' => Status'[b] = "free"
           /\ \A u \in Thread : b \in Pending(u)' =>
                   Status'[b] = IF pc'[u] = "push" THEN "free" ELSE "releasing"
           /\ b \in LostBlocks' => Status'[b] = "lost"
      /\ \A b \in Lba : b \in held \/ b \in Covered \/ b \in LostBlocks
                           \/ \E u \in Thread : b \in Pending(u)
  BY <1>1, StatusStep
<1>5. ASSUME NEW b \in Lba, Status'[b] # Status[b]
      PROVE  Status[b] = "free" /\ Status'[b] \in {"client", "lost"}
  <2>1. CASE b \in held
    BY <1>2, <1>4, <1>5, <2>1 DEF StatusTells
  <2>2. CASE b \in Covered \ Gone(starts)
    BY <1>1, <1>4, <1>5, <2>2 DEF StatusTells
  <2>3. CASE b \in Gone(starts)
    <3>1. Status[b] = "free"
      BY <1>1, <1>4, <2>3 DEF StatusTells
    <3>2. CASE b \in got
      BY <1>2, <1>4, <3>1, <3>2
    <3>3. CASE b \in Pending(t)'
      BY <1>3, <1>4, <1>5, <3>1, <3>3
    <3>4. CASE b \notin got /\ b \notin Pending(t)'
      <4>1. b \notin Covered' /\ b \notin held
        BY <1>1, <2>3 DEF IInv, BlocksExclusive
      <4>2. \A u \in Thread \ {t} : b \notin Pending(u)
        BY <1>1, <2>3 DEF IInv, BlocksExclusive
      <4>3. b \in LostBlocks'
        BY <1>1, <1>2, <3>4, <4>1, <4>2 DEF LostBlocks
      <4>4. QED
        BY <1>4, <3>1, <4>3
    <3>5. QED
      BY <3>2, <3>3, <3>4
  <2>4. CASE \E u \in Thread : b \in Pending(u)
    <3>1. PICK u \in Thread : b \in Pending(u)
      BY <2>4
    <3>2. u # t /\ b \in Pending(u)' /\ pc'[u] = pc[u]
      BY <1>1, <1>3, <3>1
    <3>3. QED
      BY <1>4, <1>5, <3>1, <3>2 DEF StatusTells
  <2>5. CASE b \in LostBlocks
    <3>1. b \notin Covered /\ b \notin held /\ \A u \in Thread : b \notin Pending(u)
      BY <2>5 DEF LostBlocks
    <3>2. b \in LostBlocks'
      BY <1>1, <1>2, <3>1 DEF LostBlocks
    <3>3. QED
      BY <1>4, <1>5, <2>5, <3>2 DEF StatusTells
  <2>6. QED
    BY <1>4, <2>1, <2>2, <2>3, <2>4, <2>5
<1>6. Ownership!Allocate("client")
  BY <1>5 DEF Ownership!Allocate, Ownership!Move, Ownership!Free, Ownership!Lost
<1>7. QED
  BY <1>4, <1>6 DEF Ownership!Next

\* A piece that is pushed was free already when it came from a chunk that has
\* been split, and becomes free when it was given back.
LEMMA InsertReclaims ==
    ASSUME IInv, NEW t \in Thread, Insert(t)
    PROVE  Ownership!Next
<1>1. PICK piece \in SUBSET Pending(t) :
              /\ IInv'
              /\ Covered' = Covered \cup piece
              /\ Pending(t)' = Pending(t) \ piece
              /\ (pc'[t] = pc[t] \/ Pending(t)' = {}) /\ pc[t] \in {"push", "give"}
              /\ \A u \in Thread \ {t} : Pending(u)' = Pending(u) /\ pc'[u] = pc[u]
  BY InsertKeeps
<1>2. held' = held
  BY DEF Insert
<1>3. /\ Status' \in [Lba -> Ownership!Statuses]
      /\ StatusTells
      /\ \A b \in Lba :
           /\ b \in held' => Status'[b] = "client"
           /\ b \in Covered' => Status'[b] = "free"
           /\ \A u \in Thread : b \in Pending(u)' =>
                   Status'[b] = IF pc'[u] = "push" THEN "free" ELSE "releasing"
           /\ b \in LostBlocks' => Status'[b] = "lost"
      /\ \A b \in Lba : b \in held \/ b \in Covered \/ b \in LostBlocks
                           \/ \E u \in Thread : b \in Pending(u)
  BY <1>1, StatusStep
<1>4. ASSUME NEW b \in Lba, Status'[b] # Status[b]
      PROVE  Status[b] = "releasing" /\ Status'[b] \in {"free"}
  <2>1. CASE b \in held
    BY <1>2, <1>3, <1>4, <2>1 DEF StatusTells
  <2>2. CASE b \in Covered
    BY <1>1, <1>3, <1>4, <2>2 DEF StatusTells
  <2>3. CASE b \in piece
    <3>1. Status'[b] = "free"
      BY <1>1, <1>3, <2>3
    <3>2. Status[b] = IF pc[t] = "push" THEN "free" ELSE "releasing"
      BY <1>1, <1>3, <2>3 DEF StatusTells
    <3>3. QED
      BY <1>4, <3>1, <3>2
  <2>4. CASE b \notin piece /\ \E u \in Thread : b \in Pending(u)
    <3>1. PICK u \in Thread : b \in Pending(u)
      BY <2>4
    <3>2. b \in Pending(u)' /\ pc'[u] = pc[u]
      BY <1>1, <2>4, <3>1
    <3>3. QED
      BY <1>3, <1>4, <3>1, <3>2 DEF StatusTells
  <2>5. CASE b \in LostBlocks
    <3>1. b \notin Covered /\ b \notin held /\ \A u \in Thread : b \notin Pending(u)
      BY <2>5 DEF LostBlocks
    <3>2. b \in LostBlocks'
      BY <1>1, <1>2, <3>1 DEF LostBlocks
    <3>3. QED
      BY <1>3, <1>4, <2>5, <3>2 DEF StatusTells
  <2>6. QED
    BY <1>3, <2>1, <2>2, <2>3, <2>4, <2>5
<1>5. Ownership!Reclaim
  BY <1>4 DEF Ownership!Reclaim, Ownership!Move, Ownership!Free, Ownership!Releasing
<1>6. QED
  BY <1>3, <1>5 DEF Ownership!Next

\* A caller that gives a run back releases it.
LEMMA GiveReleases ==
    ASSUME IInv, NEW t \in Thread, NEW start \in Lba, NEW len \in 1 .. Blocks,
           Give(t, start, len)
    PROVE  Ownership!Next
<1>1. /\ IInv'
      /\ Covered' = Covered
      /\ Run(start, len) \subseteq held /\ held' = held \ Run(start, len)
      /\ Pending(t) = {} /\ Pending(t)' = Run(start, len) /\ pc'[t] = "give"
      /\ \A u \in Thread \ {t} : Pending(u)' = Pending(u) /\ pc'[u] = pc[u]
  BY GiveKeeps
<1>2. /\ Status' \in [Lba -> Ownership!Statuses]
      /\ StatusTells
      /\ \A b \in Lba :
           /\ b \in held' => Status'[b] = "client"
           /\ b \in Covered' => Status'[b] = "free"
           /\ \A u \in Thread : b \in Pending(u)' =>
                   Status'[b] = IF pc'[u] = "push" THEN "free" ELSE "releasing"
           /\ b \in LostBlocks' => Status'[b] = "lost"
      /\ \A b \in Lba : b \in held \/ b \in Covered \/ b \in LostBlocks
                           \/ \E u \in Thread : b \in Pending(u)
  BY <1>1, StatusStep
<1>3. ASSUME NEW b \in Lba, Status'[b] # Status[b]
      PROVE  Status[b] = "client" /\ Status'[b] \in {"releasing"}
  <2>1. CASE b \in held \ Run(start, len)
    BY <1>1, <1>2, <1>3, <2>1 DEF StatusTells
  <2>2. CASE b \in Run(start, len)
    BY <1>1, <1>2, <2>2 DEF StatusTells
  <2>3. CASE b \in Covered
    BY <1>1, <1>2, <1>3, <2>3 DEF StatusTells
  <2>4. CASE \E u \in Thread : b \in Pending(u)
    <3>1. PICK u \in Thread : b \in Pending(u)
      BY <2>4
    <3>2. u # t /\ b \in Pending(u)' /\ pc'[u] = pc[u]
      BY <1>1, <3>1
    <3>3. QED
      BY <1>2, <1>3, <3>1, <3>2 DEF StatusTells
  <2>5. CASE b \in LostBlocks
    <3>1. b \notin Covered /\ b \notin held /\ \A u \in Thread : b \notin Pending(u)
      BY <2>5 DEF LostBlocks
    <3>2. b \in LostBlocks'
      BY <1>1, <3>1 DEF LostBlocks
    <3>3. QED
      BY <1>2, <1>3, <2>5, <3>2 DEF StatusTells
  <2>6. QED
    BY <1>2, <2>1, <2>2, <2>3, <2>4, <2>5
<1>4. Ownership!Release("client")
  BY <1>3 DEF Ownership!Release, Ownership!Move, Ownership!Releasing
<1>5. QED
  BY <1>2, <1>4 DEF Ownership!Next

\* After build_buddy every block that no bitmap has in use is free.
LEMMA OwnershipInit == Init => Ownership!Init
<1> SUFFICES ASSUME Init
             PROVE  Ownership!Init
  OBVIOUS
<1>1. Covered = Lba \ held
  BY IInit
<1>2. \A b \in Lba : Status[b] \in {"client", "free"}
  BY <1>1 DEF Status
<1>3. Status = [b \in Lba |-> Status[b]]
  BY DEF Status
<1>4. Status \in [Lba -> {"client", "free"}]
  BY <1>2, <1>3
<1>5. QED
  BY <1>4 DEF Ownership!Init, Ownership!Free

\* Every step of the buddies is one of BlockOwnership or none.
LEMMA OwnershipStep == IInv /\ [Next]_vars => [Ownership!Next]_Status
<1> SUFFICES ASSUME IInv, [Next]_vars
             PROVE  [Ownership!Next]_Status
  OBVIOUS
<1>1. ASSUME NEW t \in Thread, Insert(t)
      PROVE  Ownership!Next
  BY <1>1, InsertReclaims
<1>2. ASSUME NEW t \in Thread, NEW start \in Lba, NEW len \in 1 .. Blocks, Give(t, start, len)
      PROVE  Ownership!Next
  BY <1>2, GiveReleases
<1>3. ASSUME NEW t \in Thread, NEW size \in 1 .. MaxRequest, NEW hope \in Lba,
             Allocate(t, Asked(size), hope)
      PROVE  Ownership!Next
  <2>1. PICK starts, rest, got : Takes(t, starts, got, rest)
    BY <1>3, AwayTells
  <2>2. QED
    BY <2>1, TakesAllocates
<1>4. CASE UNCHANGED vars
  BY <1>4 DEF vars, Status, Covered, Chunk, Pending
<1>5. QED
  BY <1>1, <1>2, <1>3, <1>4 DEF Next

\* The buddies keep the promise the transactions build on, though a chunk is
\* split in several steps: a block that somebody holds is never handed out, and
\* one that was given up only once it is back in the buddies.
THEOREM ImplementsOwnership == Spec => OwnershipSpec
<1>1. QED
  BY IInit, IStep, OwnershipInit, OwnershipStep, PTL DEF Spec, OwnershipSpec, Ownership!Spec
=============================================================================
