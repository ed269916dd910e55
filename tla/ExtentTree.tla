----------------------------- MODULE ExtentTree -----------------------------
(***************************************************************************)
(* The extent tree of an inode and the cursors that walk it                *)
(* (src/inode/extent).  A cursor lives under the lock of its inode, so the *)
(* operations on one tree do not interleave; the steps below are the       *)
(* iterations of the loops of one operation.  The block allocator is any   *)
(* allocator that hands out free runs (module Buddy says which ones).      *)
(*                                                                         *)
(* A node keeps all its slots, the ones past `cnt' too: the code moves     *)
(* entries inside the block and a slot that was once used stays readable.  *)
(***************************************************************************)
EXTENDS Integers, FiniteSets, SequencesExt

CONSTANTS
    Root,       \* the node inside the inode
    Blocks,     \* the numbers of the blocks of the device
    RootMax,    \* slots of the root (4 in the code)
    NodeMax,    \* slots of a node block ((BLK_SIZE - 16) / 12 in the code)
    MaxLen,     \* 0x8000: the longest extent, and the mark of an uninitialized one
    Near        \* bound: an allocation starts at one of the Near first free blocks

ASSUME TreeAssumption ==
    /\ Blocks \subseteq Nat \ {0}
    /\ Root \notin Blocks
    /\ RootMax \in Nat \ {0} /\ NodeMax \in Nat \ {0} /\ MaxLen \in Nat \ {0, 1}
    /\ Near \in Nat \ {0}

VARIABLES
    tree,       \* node -> its header and slots
    owned,      \* blocks allocated for the inode
    cache,      \* ExtentTree::cache, the leaf the last cursor stood on
    want,       \* ledger: file block -> block allocated for it and not yet freed
    cur,        \* the cursor of the operation in progress
    pc          \* the loop the operation is in

treeVars == <<tree, owned, cache, want, cur, pc>>

None == -1      \* an absent index
Bad == -2       \* an index whose computation panics

Node(max, d) == [max |-> max, cnt |-> 0, depth |-> d,
                 ent |-> [i \in 0 .. max - 1 |-> [block |-> 0, ptr |-> 0, len |-> 0]]]
Leaf(b, s, l, i) == [block |-> b, start |-> s, len |-> l, init |-> i]
NoLeaf == Leaf(None, None, None, FALSE)
NoCursor == [path |-> <<>>, cache |-> NoLeaf, fba |-> 0, new |-> NoLeaf,
             rem |-> 0, walk |-> FALSE, until |-> 0]

Full(n) == n.cnt = n.max

Covers(l, f) == l.block <= f /\ f < l.block + l.len
Encode(l) == [block |-> l.block, ptr |-> l.start,
              len |-> IF l.init THEN l.len ELSE l.len + MaxLen]

\* The root and the node blocks read the length field differently: MaxLen
\* itself is an uninitialized extent of length 0 in the root and an
\* initialized one of length MaxLen in a node block.
LeafAt(t, a, i) ==
    LET e == t[a].ent[i]
        init == IF a = Root THEN e.len < MaxLen ELSE e.len <= MaxLen
    IN  Leaf(e.block, e.ptr,
             IF a = Root THEN e.len % MaxLen
             ELSE IF init THEN e.len ELSE e.len - MaxLen, init)

replace_at(n, at, e) == [n EXCEPT !.ent[at] = e]

\* The shift loop stops one short: the entry at cnt - 1 is not copied to cnt.
insert_at(n, at, e) ==
    [n EXCEPT !.cnt = @ + 1,
              !.ent = [i \in DOMAIN @ |-> IF i = at THEN e
                                          ELSE IF at < i /\ i < n.cnt THEN @[i - 1]
                                          ELSE @[i]]]

\* Looking for a block below the first entry underflows the upper bound.
BinarySearch(n, f) ==
    LET search[l \in 0 .. n.cnt, r \in -1 .. n.cnt - 1] ==
            IF l > r THEN l - 1
            ELSE LET m == l + (r - l) \div 2
                 IN  IF f >= n.ent[m].block THEN search[m + 1, r]
                     ELSE IF m = 0 THEN Bad ELSE search[l, m - 1]
    IN  IF n.cnt = 0 THEN None ELSE search[0, n.cnt - 1]

LastIndex(n) == n.cnt - 1

-----------------------------------------------------------------------------
(* Paths: from the root down to a leaf node, with an index in each node.   *)

\* With the index that `pick' has for each node on the way.
Descend(t, pick) ==
    LET Down(p, d) ==
            LET e == Last(p)
                a == t[e.at].ent[e.idx].ptr
            IN  IF e.idx < 0 \/ e.idx >= t[e.at].cnt THEN p
                ELSE Append(p, [at |-> a, idx |-> IF a \in DOMAIN t THEN pick[a] ELSE Bad])
    IN  FoldLeft(Down, <<[at |-> Root, idx |-> pick[Root]]>>,
                 [d \in 1 .. t[Root].depth |-> d])

Load(t, f) == Descend(t, [a \in DOMAIN t |-> BinarySearch(t[a], f)])
LoadLast(t) == Descend(t, [a \in DOMAIN t |-> LastIndex(t[a])])

Broken(p) == \E k \in DOMAIN p : p[k].idx = Bad

\* Path::get_leaf: the cached leaf wins over the loaded path.
GetLeaf(t, p, c) ==
    IF c # NoLeaf \/ p = <<>> THEN c
    ELSE LET e == Last(p)
         IN  IF e.idx \in 0 .. t[e.at].cnt - 1 /\ t[e.at].depth = 0
             THEN LeafAt(t, e.at, e.idx) ELSE NoLeaf
LeafOf(t, c) == GetLeaf(t, c.path, c.cache)

\* What a lookup of file block f finds, None for a hole.
Lookup(t, f) ==
    LET p == Load(t, f)
        l == GetLeaf(t, p, NoLeaf)
    IN  IF ~Broken(p) /\ l # NoLeaf /\ l.init /\ Covers(l, f)
        THEN l.start + (f - l.block) ELSE None

-----------------------------------------------------------------------------
(* Opening and closing a cursor.                                           *)

Stop(why) == pc' = why /\ UNCHANGED <<cache, cur>>

\* A cursor that goes away leaves its leaf, if it has one, in the cache of
\* the tree.  A mutable cursor holds the write lock: nobody else is there.
Close(t, c) ==
    /\ pc' = "idle" /\ cur' = NoCursor
    /\ cache' = IF LeafOf(t, c) = NoLeaf THEN cache ELSE LeafOf(t, c)

Resume(t, c, at) ==
    IF Broken(c.path) THEN Stop("panic") ELSE pc' = at /\ cur' = c /\ UNCHANGED cache

\* cursor_last_mut: behind the last mapped block, at 0 in an empty tree.  The
\* number of the last block is computed first: an extent of length 0 at file
\* block 0 has none.
CursorLast ==
    LET p == LoadLast(tree)
        l == GetLeaf(tree, p, NoLeaf)
    IN  IF l = NoLeaf THEN [NoCursor EXCEPT !.path = p]
        ELSE IF l.block + l.len = 0
        THEN [NoCursor EXCEPT !.path = <<[at |-> Root, idx |-> Bad]>>]
        ELSE [NoCursor EXCEPT !.fba = l.block + l.len,
                              !.path = IF Covers(l, l.block + l.len) THEN p
                                       ELSE Load(tree, l.block + l.len)]

\* cursor_from_fba_mut: from the cached leaf when it covers f, the path is
\* then not loaded at all.
CursorFrom(f) ==
    IF Covers(cache, f)
    THEN [NoCursor EXCEPT !.fba = f, !.cache = cache, !.path = <<[at |-> Root, idx |-> None]>>]
    ELSE [NoCursor EXCEPT !.fba = f, !.path = Load(tree, f)]

\* cursor_from_fba: another reader may hold the cache, try_read then fails.
CursorsFrom(f) == {CursorFrom(f), [NoCursor EXCEPT !.fba = f, !.path = Load(tree, f)]}

\* move_next_many of a mutable cursor: load does not forget the cached leaf.
Moved(t, c, n) ==
    LET l == LeafOf(t, c)
        f == c.fba + n
    IN  IF l = NoLeaf THEN c
        ELSE [c EXCEPT !.fba = f, !.path = IF Covers(l, f) THEN @ ELSE Load(t, f)]

\* Mutant of Advance: the number of blocks left is off by one.
AdvanceLess(t, c, n) ==
    LET c1 == Moved(t, [c EXCEPT !.rem = @ - (n - 1), !.new = NoLeaf], n)
    IN  IF c1.rem = 0 THEN Close(t, c1) ELSE pc' = "alloc" /\ cur' = c1 /\ UNCHANGED cache

\* n blocks of the operation are in place.
Advance(t, c, n) ==
    LET c1 == [c EXCEPT !.rem = @ - n, !.new = NoLeaf]
        c2 == IF c1.rem = 0 /\ c.walk THEN c1 ELSE Moved(t, c1, n)
    IN  IF Broken(c2.path) THEN Stop("panic")
        ELSE IF c1.rem = 0 THEN Close(t, c2)
        ELSE pc' = "alloc" /\ cur' = c2 /\ UNCHANGED cache

-----------------------------------------------------------------------------
(* CursorMut::or_allocated_many and Path::insert.                          *)

FreshBlocks == {b \in Blocks \ owned : Cardinality({c \in Blocks \ owned : c < b}) < Near}

\* One call of the allocator gives at most BLK_SIZE * 4 blocks, half an
\* extent with blocks of 4096 bytes.
MaxRun == MaxLen \div 2

Runs(n) == {r \in [start : FreshBlocks, len : 1 .. Min({n, MaxRun})] :
                r.start .. r.start + r.len - 1 \subseteq Blocks \ owned}

AllocateRun(r) ==
    LET new == Leaf(cur.fba, r.start, r.len, TRUE)
    IN  /\ owned' = owned \cup r.start .. r.start + r.len - 1
        /\ want' = [f \in cur.fba .. cur.fba + r.len - 1 |-> r.start + (f - cur.fba)] @@ want
        /\ cur' = [cur EXCEPT !.new = new]
        /\ pc' = "insert"
        /\ UNCHANGED <<tree, cache>>

\* The block to start looking from, when the cursor stands outside extent l,
\* is start + (fba - start) or start - (fba - block) on unsigned numbers.
HopeUnderflows(l, f) ==
    /\ l # NoLeaf
    /\ IF l.block > f THEN f < l.start ELSE l.start < f - l.block

OrAllocatedMany ==
    /\ pc = "alloc"
    /\ LET l == LeafOf(tree, cur)
           size == IF cur.walk THEN 1 ELSE cur.rem
       IN  \/ /\ l # NoLeaf /\ ~l.init
              /\ Stop("panic") /\ UNCHANGED <<tree, owned, want>>
           \/ /\ l # NoLeaf /\ l.init /\ Covers(l, cur.fba)
              /\ Advance(tree, cur, 1) /\ UNCHANGED <<tree, owned, want>>
           \/ /\ l = NoLeaf \/ (l.init /\ ~Covers(l, cur.fba))
              /\ IF HopeUnderflows(l, cur.fba)
                 THEN Stop("panic") /\ UNCHANGED <<tree, owned, want>>
                 ELSE IF Blocks \subseteq owned
                 THEN Stop("error") /\ UNCHANGED <<tree, owned, want>>
                 ELSE \E r \in Runs(size) : AllocateRun(r)

\* After an insertion at position 0 the keys above it change with it.
Rekeyed(t, p, key) ==
    [a \in DOMAIN t |->
        LET ks == {k \in 1 .. Len(p) - 1 : p[k].at = a /\ \A j \in k + 1 .. Len(p) : p[j].idx = 0}
        IN  IF ks = {} THEN t[a]
            ELSE LET i == p[CHOOSE k \in ks : TRUE].idx
                 IN  replace_at(t[a], i, [t[a].ent[i] EXCEPT !.block = key])]

\* Mutants of Mergeable: the end of the new extent is compared; the length is
\* not looked at.
MergeableNever(l, new) ==
    /\ l # NoLeaf /\ l.init
    /\ l.block + l.len = new.block
    /\ l.start + l.len = new.start + new.len

MergeableLong(l, new) ==
    /\ l # NoLeaf /\ l.init
    /\ l.block + l.len = new.block
    /\ l.start + l.len = new.start

Mergeable(l, new) ==
    /\ l # NoLeaf /\ l.init
    /\ l.block + l.len = new.block
    /\ l.start + l.len = new.start
    /\ l.len + new.len <= MaxLen

\* insert_leaf, the first half of an iteration of do_insert.
InsertLeaf ==
    /\ pc = "insert"
    /\ LET l == LeafOf(tree, cur)
           new == cur.new
           e == Last(cur.path)
           n == tree[e.at]
           here == GetLeaf(tree, cur.path, NoLeaf)
           merge == Mergeable(here, new)
           idx == IF l = NoLeaf THEN 0 ELSE IF new.block > l.block THEN e.idx + 1 ELSE e.idx
           path == [cur.path EXCEPT ![Len(cur.path)].idx = idx]
           merged == [tree EXCEPT ![e.at] =
                        replace_at(n, e.idx, Encode([here EXCEPT !.len = @ + new.len]))]
           added == Rekeyed([tree EXCEPT ![e.at] = insert_at(n, idx, Encode(new))],
                            path, new.block)
       IN  \/ /\ l # NoLeaf /\ l.block = new.block
              /\ Stop("error") /\ UNCHANGED tree
           \/ /\ l = NoLeaf \/ l.block # new.block
              /\ \/ merge /\ tree' = merged /\ Advance(merged, cur, new.len)
                 \/ ~merge /\ Full(n) /\ Stop("spill") /\ UNCHANGED tree
                 \/ /\ ~merge /\ ~Full(n)
                    /\ IF (l # NoLeaf /\ e.idx = None) \/ n.depth # 0
                       THEN Stop("panic") /\ UNCHANGED tree
                       ELSE /\ tree' = added
                            /\ Advance(added, [cur EXCEPT !.path = path], new.len)
    /\ UNCHANGED <<owned, want>>

\* grow_extent: the root moves into a new block, one level down.
Grow ==
    /\ pc = "spill"
    /\ \A k \in DOMAIN cur.path : Full(tree[cur.path[k].at])
    /\ \/ \E b \in FreshBlocks :
            LET root == tree[Root]
                raw(i) == IF root.depth = 0 THEN Encode(LeafAt(tree, Root, i)) ELSE root.ent[i]
                node == [Node(NodeMax, root.depth) EXCEPT
                            !.cnt = root.cnt,
                            !.ent = [i \in DOMAIN @ |-> IF i < root.cnt THEN raw(i) ELSE @[i]]]
                top == [root EXCEPT !.cnt = 0, !.depth = @ + 1]
                grown == [tree EXCEPT ![Root] =
                            insert_at(top, 0, [block |-> node.ent[0].block, ptr |-> b, len |-> 0])]
                         @@ (b :> node)
            IN  /\ tree' = grown /\ owned' = owned \cup {b}
                /\ Resume(grown, [cur EXCEPT !.path = Load(grown, cur.new.block)], "insert")
       \/ FreshBlocks = {} /\ Stop("error") /\ UNCHANGED <<tree, owned>>
    /\ UNCHANGED want

\* split_at: half of the leaf node (nothing, when the end is reached) moves
\* to a new node next to it.  Only the split of a leaf right below the root
\* is written; splitting below an inner node is a todo!().
Split ==
    /\ pc = "spill"
    /\ \E k \in DOMAIN cur.path : ~Full(tree[cur.path[k].at])
    /\ LET level == CHOOSE k \in DOMAIN cur.path :
                        /\ ~Full(tree[cur.path[k].at])
                        /\ \A j \in k + 1 .. Len(cur.path) : Full(tree[cur.path[j].at])
           e == Last(cur.path)
           n == tree[e.at]
           key == IF e.idx = n.max - 1 THEN cur.new.block ELSE n.ent[e.idx + 1].block
           at == IF cur.path[1].idx = None THEN 0
                 ELSE IF key > tree[Root].ent[cur.path[1].idx].block
                 THEN cur.path[1].idx + 1 ELSE cur.path[1].idx
           moved == n.cnt - e.idx - 1
       IN  IF Len(cur.path) # 2 \/ level # 1
           THEN /\ Stop(IF level = 1 THEN "error" ELSE "panic")
                /\ UNCHANGED <<tree, owned>>
           ELSE \/ FreshBlocks = {} /\ Stop("error") /\ UNCHANGED <<tree, owned>>
                \/ \E b \in FreshBlocks :
                     LET right == [Node(NodeMax, n.depth) EXCEPT
                                     !.cnt = moved,
                                     !.ent = [i \in DOMAIN @ |->
                                                IF i < moved THEN n.ent[e.idx + 1 + i] ELSE @[i]]]
                         inner == [block |-> key, ptr |-> b, len |-> 0]
                         path == <<[at |-> Root, idx |-> cur.path[1].idx + 1],
                                   [at |-> b, idx |-> moved - 1]>>
                     IN  /\ tree' = [tree EXCEPT ![Root] = insert_at(@, at, inner),
                                                 ![e.at] = [@ EXCEPT !.cnt = e.idx + 1]]
                                    @@ (b :> right)
                         /\ owned' = owned \cup {b}
                         /\ cur' = [cur EXCEPT !.path = IF cur.new.block >= key THEN path ELSE @]
                         /\ pc' = "insert"
                         /\ UNCHANGED cache
    /\ UNCHANGED want

-----------------------------------------------------------------------------
(* CursorMut::remove_after, from the last extent backwards.                *)

\* One iteration: the loop ends on an extent that ends before `until'; one
\* that ends exactly there is cut to its own length again.
TruncateLast ==
    /\ pc = "truncate"
    /\ LET l == LeafOf(tree, cur)
           e == Last(cur.path)
           keep == IF cur.until > l.block THEN cur.until - l.block ELSE 0
           freed == IF l.init THEN l.start + keep .. l.start + l.len - 1 ELSE {}
       IN  IF l = NoLeaf \/ l.block + l.len < cur.until
           THEN Close(tree, cur) /\ UNCHANGED <<tree, owned, want>>
           ELSE /\ owned' = owned \ freed
                /\ want' = Restrict(want, {f \in DOMAIN want : want[f] \notin freed})
                /\ IF keep # 0
                   THEN /\ tree' = [tree EXCEPT ![e.at] =
                                        replace_at(@, e.idx, Encode([l EXCEPT !.len = keep]))]
                        /\ UNCHANGED <<cur, pc>>
                   ELSE /\ tree' = [tree EXCEPT ![e.at].cnt = @ - 1]
                        /\ pc' = "prev" /\ UNCHANGED cur
                /\ UNCHANGED cache

\* Mutant of MovePrev: an empty node is taken off its parent but not freed.
MovePrevKeeps ==
    /\ pc = "prev"
    /\ LET p == cur.path
           e == Last(p)
           gone == e.idx = 0 /\ Len(p) > 1
           parent == p[Len(p) - 1].at
           To(path, at) == cur' = [cur EXCEPT !.path = path] /\ pc' = at
       IN  IF gone
           THEN /\ tree' = [a \in DOMAIN tree \ {e.at} |->
                               IF a = parent THEN [tree[a] EXCEPT !.cnt = @ - 1] ELSE tree[a]]
                /\ To(Front(p), IF tree[parent].cnt = 1 THEN "prev" ELSE "truncate")
           ELSE /\ To([p EXCEPT ![Len(p)].idx = IF @ > 0 THEN @ - 1 ELSE None],
                      IF e.idx = 0 THEN "prev" ELSE "truncate")
                /\ UNCHANGED tree
    /\ UNCHANGED <<owned, cache, want>>

\* move_prev_with_cleanup, one iteration of its loop.  The path was at the
\* last slot everywhere, so a node left at index 0 is empty.  When it is
\* freed and its parent keeps other children, the path stays on the slot of
\* the freed child and has no leaf any more.
MovePrev ==
    /\ pc = "prev"
    /\ LET p == cur.path
           e == Last(p)
           up == Front(p)
           parent == Last(up)
           To(path, at) == cur' = [cur EXCEPT !.path = path] /\ pc' = at
           Here(i) == [p EXCEPT ![Len(p)].idx = i]
       IN  \/ e.idx > 0 /\ To(Here(e.idx - 1), "truncate") /\ UNCHANGED <<tree, owned>>
           \/ e.idx = 0 /\ Len(p) = 1 /\ To(Here(None), "prev") /\ UNCHANGED <<tree, owned>>
           \/ e.idx = None /\ To(p, "truncate") /\ UNCHANGED <<tree, owned>>
           \/ /\ e.idx = 0 /\ Len(p) > 1
              /\ owned' = owned \ {e.at}
              /\ tree' = [a \in DOMAIN tree \ {e.at} |->
                            IF a = parent.at THEN [tree[a] EXCEPT !.cnt = @ - 1] ELSE tree[a]]
              /\ To(up, IF tree[parent.at].cnt = 1 THEN "prev" ELSE "truncate")
    /\ UNCHANGED <<cache, want>>

TreeSteps == OrAllocatedMany \/ InsertLeaf \/ Grow \/ Split \/ TruncateLast \/ MovePrev
=============================================================================
