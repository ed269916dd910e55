-------------------------------- MODULE Files --------------------------------
(***************************************************************************)
(* A file over its extent tree: writing, reading, truncating and dropping  *)
(* (src/file.rs, prealloc and Drop of src/inode/mod.rs, and the callers in *)
(* src/directory that allocate one block at a time).  One handle works on  *)
(* the file; each operation opens a cursor and the steps of ExtentTree run *)
(* its loops.                                                              *)
(***************************************************************************)
EXTENDS ExtentTree

CONSTANTS
    MaxFba,     \* bound: file blocks are 0 .. MaxFba - 1
    BlockSize,  \* bytes in a block (scaled down)
    InOrder     \* TRUE when blocks are asked for one by one in order only

ASSUME FilesAssumption ==
    MaxFba \in Nat \ {0} /\ BlockSize \in Nat \ {0} /\ InOrder \in BOOLEAN

VARIABLES
    size,       \* inode.rw.size, in blocks
    job,        \* end of the write between prealloc and its transfer, or None
    gone,       \* the last handle of the unlinked file is being dropped
    filled      \* history: the root has held an extent of MaxLen blocks

vars == <<tree, owned, cache, want, cur, pc, size, job, gone, filled>>

Ready == pc = "idle" /\ job = None /\ ~gone

Init ==
    /\ tree = (Root :> Node(RootMax, 0)) /\ owned = {} /\ cache = NoLeaf
    /\ want = <<>> /\ cur = NoCursor /\ pc = "idle"
    /\ size = 0 /\ job = None /\ gone = FALSE /\ filled = FALSE

-----------------------------------------------------------------------------
\* Mutant of Prealloc: a size that reaches the target is enough.
PreallocLess(target) ==
    LET c == CursorLast
    IN  IF size >= target THEN UNCHANGED treeVars
        ELSE /\ IF target <= c.fba THEN Close(tree, c)
                ELSE Resume(tree, [c EXCEPT !.rem = target - c.fba], "alloc")
             /\ UNCHANGED <<tree, owned, want>>

\* Inode::prealloc up to file block `target', exclusive: nothing to do when
\* the recorded size says the blocks are there.
Prealloc(target) ==
    LET c == CursorLast
    IN  IF size > target THEN UNCHANGED treeVars
        ELSE /\ IF target <= c.fba THEN Close(tree, c)
                ELSE Resume(tree, [c EXCEPT !.rem = target - c.fba], "alloc")
             /\ UNCHANGED <<tree, owned, want>>

\* File::write_slices of some slices that end at `target', first half.
StartWrite ==
    /\ Ready
    /\ \E target \in 1 .. MaxFba : Prealloc(target) /\ job' = target
    /\ UNCHANGED <<size, gone, filled>>

\* for_each_lba: the mapped blocks from st on, until a hole or n of them.
Visit(st, n, c) ==
    LET at(i) == IF c # NoLeaf /\ Covers(c, st + i) THEN c.start + (st + i - c.block)
                 ELSE Lookup(tree, st + i)
        stops == {i \in 0 .. n - 1 : at(i) = None}
        len == IF stops = {} THEN n ELSE Min(stops)
    IN  [i \in 1 .. len |-> at(i - 1)]

\* Mutant of Requests: the count is not reset when a request is sent.
RequestsGrow(lbas) ==
    LET Take(acc, b) ==
            IF acc # <<>> /\ Last(acc).start + Last(acc).cnt = b
            THEN [acc EXCEPT ![Len(acc)].cnt = @ + 1]
            ELSE Append(acc, [start |-> b, cnt |-> IF acc = <<>> THEN 1 ELSE Last(acc).cnt + 1])
    IN  FoldLeft(Take, <<>>, lbas)

\* How write_slices and read_slices group the blocks visited into requests
\* of the device: a request ends where the next block is not the next number.
Requests(lbas) ==
    LET Take(acc, b) ==
            IF acc # <<>> /\ Last(acc).start + Last(acc).cnt = b
            THEN [acc EXCEPT ![Len(acc)].cnt = @ + 1]
            ELSE Append(acc, [start |-> b, cnt |-> 1])
    IN  FoldLeft(Take, <<>>, lbas)

\* The walk of n blocks from st; its cursor may leave its leaf in the cache.
Transfer(st, n) ==
    \E c \in CursorsFrom(st) :
        LET end == st + Len(Visit(st, n, c.cache))
            l == IF Covers(c.cache, end) THEN c.cache
                 ELSE GetLeaf(tree, Load(tree, end), NoLeaf)
        IN  IF Broken(c.path) THEN pc' = "panic" /\ UNCHANGED cache
            ELSE cache' \in {cache} \cup ({l} \ {NoLeaf}) /\ UNCHANGED pc

\* File::write_slices, second half: the slices go to the blocks visited, as
\* many as there are.  The writer then sets the size to the end of its data.
FinishWrite ==
    /\ pc = "idle" /\ job # None
    /\ \E st \in 0 .. job - 1 : Transfer(st, job - st)
    /\ job' = None /\ size' = job
    /\ UNCHANGED <<tree, owned, want, cur, gone, filled>>

\* File::read_slices.
Read ==
    /\ Ready
    /\ \E st \in 0 .. MaxFba - 1 : Transfer(st, MaxFba - st)
    /\ UNCHANGED <<tree, owned, want, cur, size, job, gone, filled>>

\* for_each_lba_mut, and or_allocated at a given block by the directories.
Walk ==
    /\ Ready
    /\ \E f \in 0 .. MaxFba - 1 :
        /\ InOrder => f <= CursorLast.fba
        /\ Resume(tree, [CursorFrom(f) EXCEPT !.rem = 1, !.walk = TRUE], "alloc")
    /\ UNCHANGED <<tree, owned, want, size, job, gone, filled>>

\* CursorMut::remove_after from a cursor opened at `until'.
RemoveAfter(until) ==
    /\ LET c == CursorFrom(until)
       IN  Resume(tree, [c EXCEPT !.until = until, !.cache = NoLeaf,
                                  !.path = IF Broken(@) THEN @ ELSE LoadLast(tree)], "truncate")
    /\ UNCHANGED <<tree, owned, want>>

\* File::truncate: the byte offset of the next block boundary is passed as
\* a file block number.
Truncate ==
    /\ Ready
    /\ \E bytes \in 0 .. MaxFba * BlockSize :
        /\ RemoveAfter(((bytes + BlockSize) \div BlockSize) * BlockSize)
        /\ size' = bytes \div BlockSize
    /\ UNCHANGED <<job, gone, filled>>

\* Drop of an unlinked inode.
Drop ==
    /\ Ready
    /\ gone' = TRUE
    /\ RemoveAfter(0)
    /\ UNCHANGED <<size, job, filled>>

\* The root reads an extent of MaxLen blocks as an uninitialized one of none.
HoldsFull(t) ==
    t[Root].depth = 0 /\ \E i \in 0 .. t[Root].cnt - 1 : t[Root].ent[i].len = MaxLen

Step == TreeSteps /\ filled' = (filled \/ HoldsFull(tree')) /\ UNCHANGED <<size, job, gone>>

\* A failed operation drops its transaction unfinished, which is a todo!();
\* the dropped inode is gone.
Halted == (pc \in {"panic", "error"} \/ (gone /\ pc = "idle")) /\ UNCHANGED vars

Next == StartWrite \/ FinishWrite \/ Read \/ Walk \/ Truncate \/ Drop \/ Step \/ Halted

Spec == Init /\ [][Next]_vars

-----------------------------------------------------------------------------
(* Properties.                                                             *)

\* The operation in progress, if any, is between two extents.
Settled == pc \in {"idle", "alloc", "truncate", "prev"}

MappedTo(f) == IF f \in DOMAIN want THEN want[f] ELSE None

\* A lookup finds for every file block the block that was allocated for it,
\* and nothing for the others.
LookupExact ==
    Settled => \A f \in 0 .. MaxFba - 1 : Lookup(tree, f) = MappedTo(f)

\* After any sequence of insertions, merges, splits, growths and truncations
\* lookups are exact, as long as no extent of the root has become as long as
\* an extent can be.
MapExact == ~filled => LookupExact

\* The inode owns the blocks given to its data and not given back and those of
\* the nodes of its tree, and no other block: none has two uses.
OwnsExactly ==
    Settled => LET nodes == DOMAIN tree \ {Root}
                   data == Range(want)
               IN  /\ owned = data \cup nodes
                   /\ data \cap nodes = {}
                   /\ IsInjective(want)

\* The cached leaf maps what the tree maps.
Fresh(l) == \A f \in l.block .. l.block + l.len - 1 : MappedTo(f) = l.start + (f - l.block)

\* A transfer goes to the blocks of the file in order, up to the first hole,
\* and the requests sent to the device name these blocks in this order.  As
\* long as the tree is one level deep this holds whatever leaf is cached; the
\* truncation of a deeper one may leave a leaf it removed in the cache.
TransfersAgree ==
    pc = "idle" /\ ~gone /\ ~filled =>
        \A st \in 0 .. MaxFba - 1 :
        \A c \in {d \in CursorsFrom(st) : tree[Root].depth = 0 \/ Fresh(d.cache)} :
            LET lbas == Visit(st, MaxFba - st, c.cache)
                reqs == Requests(lbas)
                blocks(r) == [i \in 1 .. r.cnt |-> r.start + i - 1]
            IN  /\ \A i \in DOMAIN lbas : lbas[i] = MappedTo(st + i - 1)
                /\ st + Len(lbas) < MaxFba => MappedTo(st + Len(lbas)) = None
                /\ FoldLeft(LAMBDA acc, r : acc \o blocks(r), <<>>, reqs) = lbas

\* "If size is big enough, we don't need to extend the inode": when the blocks
\* of a write have been prepared they are all there.
PreparedBlocks == pc = "idle" /\ job # None => 0 .. job - 1 \subseteq DOMAIN want

\* They are, unless the recorded size (after a truncation to a larger size)
\* promised blocks behind the last one of the write.
WriteHasBlocks == size > job \/ PreparedBlocks

\* A write in order goes through ("Failed to write." is what the tests say
\* otherwise) until the file has as many extents as a tree of two levels
\* holds or the device is full.
FailsOnlyWhenFull ==
    pc \in {"panic", "error"} /\ ~filled =>
        \/ owned = Blocks
        \/ Cardinality({f \in DOMAIN want : f - 1 \notin DOMAIN want \/ want[f - 1] # want[f] - 1})
                > RootMax * NodeMax

\* "Truncate to the zero.": a file that is dropped gives all its blocks back.
DropFreesAll == gone /\ pc = "idle" => owned = {}

\* What an operation still has to do: for an allocation the blocks that
\* remain and how far the insertion of the current extent is, for a
\* truncation the blocks, the slots, the nodes and the position on the path.
Remaining ==
    LET full == {k \in DOMAIN cur.path : Full(tree[cur.path[k].at])}
        packed == full = DOMAIN cur.path
        insertion == CASE pc = "alloc" -> 6
                       [] pc = "insert" /\ packed -> 5
                       [] pc = "spill" /\ packed -> 4
                       [] pc = "insert" /\ ~packed /\ Len(cur.path) \in full -> 3
                       [] pc = "spill" /\ ~packed -> 2
                       [] OTHER -> 1
    IN  IF pc \in {"alloc", "insert", "spill"} THEN 7 * cur.rem + insertion
        ELSE 3 * (Cardinality(DOMAIN want) + Cardinality(DOMAIN tree)
                    + MapThenSumSet(LAMBDA a : tree[a].cnt, DOMAIN tree))
             + (IF pc = "truncate" THEN 0 ELSE IF Last(cur.path).idx = None THEN 1 ELSE 2)

\* Every step of an operation brings its end nearer, and there is always a
\* step until it returns or fails (no deadlock): its loops terminate.  The
\* one loop that does not is the truncation to the very end of an extent,
\* whose steps change nothing.
OperationsEnd ==
    [][pc # "idle" /\ pc' \notin {"idle", "panic", "error"} => Remaining' < Remaining]_vars

\* "Truncate file into size of until.  Return truncated size of file.": a
\* truncation returns.
Fair == Spec /\ WF_vars(Step)
TruncateReturns == pc = "truncate" /\ ~gone ~> pc = "idle"
=============================================================================
