------------------------------- MODULE BlockTx -------------------------------
(***************************************************************************)
(* The life of a data block through the allocator, the transaction that    *)
(* uses it, the block cache and the disk.                                  *)
(*                                                                         *)
(* A file operation takes blocks out of the in-memory buddies at once      *)
(* (block/allocator.rs) but only RECORDS what it did in the events of its  *)
(* transaction.  Transaction::done then                                    *)
(*   compress   applies each event to the cached bitmap and adds it to the *)
(*              deltas of the write-back group (event.rs),                 *)
(*   flush      applies deltas and inode operations to the cached blocks   *)
(*              while it holds the lock of the superblock,                 *)
(*   writeback  clones every block it touched, writes the clones, and only *)
(*              then returns freed blocks to the buddies (collector.rs).   *)
(* Several threads run transactions at the same time.                      *)
(***************************************************************************)
EXTENDS Integers, Sequences, FiniteSets, Functions

CONSTANTS
    Thread,          \* threads; each runs one transaction at a time
    Block, File, Group,
    GroupOf,         \* the block group a block lies in
    TableOf,         \* the block of the inode table an inode lies in
    NoThread,        \* nobody holds the lock of the superblock
    MaxEvents,       \* bound: events one transaction records
    IBlocksMod,      \* width of i_blocks, in counted blocks; 1 leaves it out
    ExclusiveFiles,  \* callers never share a file between live transactions
    MayFail          \* the device may refuse a write

ASSUME ConstantsOK ==
    /\ GroupOf \in [Block -> Group]
    /\ DOMAIN TableOf = File
    /\ File \cap {"free", "releasing", "lost"} = {}
    /\ IsFiniteSet(Block)
    /\ NoThread \notin Thread
    /\ MaxEvents \in Nat
    /\ IBlocksMod \in Nat \ {0}
    /\ ExclusiveFiles \in BOOLEAN
    /\ MayFail \in BOOLEAN

VARIABLES
    free,      \* the blocks in the buddies
    memFree,   \* BlockGroup::free_blocks_count
    owned,     \* the blocks the in-memory extents of a file map
    pc,        \* where the transaction of a thread is
    using,     \* the files the transaction of a thread works on
    events,    \* Transaction::events
    delta,     \* WritebackGroup::bg_deltas
    sbDelta,   \* WritebackGroup::sb_delta
    ops,       \* WritebackGroup::inode_ops, as the events that cause them
    tracked,   \* Collector::modifications and is_sb_dirty, as a set of blocks
    bio,       \* the clones handed to write_bios, in order
    post,      \* Collector::postludes
    sbLock,    \* the holder of SuperBlock::manipulator
    cache,     \* the metadata in memory: the block cache and the manipulator
    disk,      \* the metadata on the device
    failed     \* some Transaction::done has returned an error

memVars == <<free, memFree, owned>>
grpVars == <<delta, sbDelta, ops>>
colVars == <<tracked, bio, post>>
vars == <<memVars, pc, using, events, grpVars, colVars, sbLock, cache, disk, failed>>

-----------------------------------------------------------------------------
(* The metadata.  What a piece of it says is a set of data blocks and a    *)
(* number: blks is the blocks in use in a bitmap and the extents of an     *)
(* inode; n is i_blocks in an inode and the free blocks that a group       *)
(* descriptor or the superblock counts.                                    *)

Bitmap(g) == <<"bitmap", g>>
Desc(g)   == <<"desc", g>>
Ino(f)    == <<"inode", f>>
Sb        == <<"sb">>

Slot == {Bitmap(g) : g \in Group} \cup {Desc(g) : g \in Group}
            \cup {Ino(f) : f \in File} \cup {Sb}

BlocksOf(g) == {b \in Block : GroupOf[b] = g}

Content == [blks : SUBSET Block, n : Int]

\* The block of the device a piece of metadata lies in.  Descriptors share
\* one block, and so do the inodes of one block of the inode table.
DeviceBlock(s) ==
    CASE s[1] = "desc"  -> {Desc(g) : g \in Group}
      [] s[1] = "inode" -> {Ino(f) : f \in {h \in File : TableOf[h] = TableOf[s[2]]}}
      [] OTHER          -> {s}

DeviceBlocks == {DeviceBlock(s) : s \in Slot}

\* What write_bios gets of the device block d: a copy of its present content.
Clone(d) == [dev |-> d,
             val |-> [s \in Slot |-> IF s \in d THEN cache[s] ELSE [blks |-> {}, n |-> 0]]]

Event == [kind : {"alloc", "dealloc", "size"}, file : File, grp : Group,
          blks : SUBSET Block]

\* A group none of whose blocks is in use, and files without blocks.
Mounted ==
    [s \in Slot |->
        [blks |-> {},
         n |-> CASE s[1] = "desc" -> Cardinality(BlocksOf(s[2]))
                 [] s[1] = "sb"   -> Cardinality(Block)
                 [] OTHER         -> 0]]

Init ==
    /\ free = Block
    /\ memFree = [g \in Group |-> Cardinality(BlocksOf(g))]
    /\ owned = [f \in File |-> {}]
    /\ pc = [t \in Thread |-> "open"]
    /\ using = [t \in Thread |-> {}]
    /\ events = [t \in Thread |-> <<>>]
    /\ delta = [t \in Thread |-> [g \in Group |-> 0]]
    /\ sbDelta = [t \in Thread |-> 0]
    /\ ops = [t \in Thread |-> <<>>]
    /\ tracked = [t \in Thread |-> {}]
    /\ bio = [t \in Thread |-> <<>>]
    /\ post = [t \in Thread |-> {}]
    /\ sbLock = NoThread
    /\ cache = Mounted
    /\ disk = Mounted
    /\ failed = FALSE

-----------------------------------------------------------------------------
(* Operations on files, inside an open transaction.                        *)

MayUse(t, f) == ExclusiveFiles => \A u \in Thread \ {t} : f \notin using[u]

\* A file operation changes the extents of f to map, recording event e and,
\* with the new size, the new root of the extent tree (Inode::set_size).
\* Writes share the transaction of their caller; File::truncate opens one of
\* its own, for one file.
Record(t, f, e, map) ==
    /\ pc[t] = "open"
    /\ Len(events[t]) + 2 <= MaxEvents
    /\ \A i \in DOMAIN events[t] : events[t][i].kind \in {e.kind, "size"}
    /\ e.kind = "dealloc" => using[t] \subseteq {f}
    /\ MayUse(t, f)
    /\ owned' = [owned EXCEPT ![f] = map]
    /\ using' = [using EXCEPT ![t] = @ \cup {f}]
    /\ events' = [events EXCEPT ![t] =
                    @ \o <<e, [e EXCEPT !.kind = "size", !.blks = map]>>]

\* Mutant of Extend: the allocated blocks stay in the buddies.
ExtendKeepsChunk(t, f, S, lost) ==
    \E g \in Group :
        /\ S # {} /\ S \subseteq free \cap BlocksOf(g)
        /\ lost \subseteq free \ S
        /\ free' = free \ lost
        /\ memFree' = [memFree EXCEPT ![g] = @ - Cardinality(S)]
        /\ Record(t, f, [kind |-> "alloc", file |-> f, grp |-> g, blks |-> S],
                  owned[f] \cup S)
        /\ UNCHANGED <<pc, grpVars, colVars, sbLock, cache, disk, failed>>

\* A write past the end: the blocks S of one group leave the buddies.  The
\* chunks taken at the hoped-for place leave them whole even when the request
\* ends inside the last one, so further free blocks may be lost with them.
Extend(t, f, S, lost) ==
    \E g \in Group :
        /\ S # {} /\ S \subseteq free \cap BlocksOf(g)
        /\ lost \subseteq free \ S
        /\ free' = free \ (S \cup lost)
        /\ memFree' = [memFree EXCEPT ![g] = @ - Cardinality(S)]
        /\ Record(t, f, [kind |-> "alloc", file |-> f, grp |-> g, blks |-> S],
                  owned[f] \cup S)
        /\ UNCHANGED <<pc, grpVars, colVars, sbLock, cache, disk, failed>>

\* Mutants of Truncate: the buddies get the blocks back at once; the extents
\* keep the blocks.
TruncateFreesNow(t, f, S) ==
    \E g \in Group :
        /\ S # {} /\ S \subseteq owned[f] \cap BlocksOf(g)
        /\ free' = free \cup S
        /\ Record(t, f, [kind |-> "dealloc", file |-> f, grp |-> g, blks |-> S],
                  owned[f] \ S)
        /\ UNCHANGED <<memFree, pc, grpVars, colVars, sbLock, cache, disk, failed>>

TruncateKeepsExtents(t, f, S) ==
    \E g \in Group :
        /\ S # {} /\ S \subseteq owned[f] \cap BlocksOf(g)
        /\ Record(t, f, [kind |-> "dealloc", file |-> f, grp |-> g, blks |-> S],
                  owned[f])
        /\ UNCHANGED <<free, memFree, pc, grpVars, colVars, sbLock, cache, disk,
                       failed>>

\* A truncation: f gives up the blocks S of one group, an extent or a part of
\* one.  The buddies do not see them before the write-back.  It gets to done
\* when the extents it keeps end before the cut; else CursorMut::remove_after
\* records the same events and never returns, as if Done(t) did not happen.
Truncate(t, f, S) ==
    \E g \in Group :
        /\ S # {} /\ S \subseteq owned[f] \cap BlocksOf(g)
        /\ Record(t, f, [kind |-> "dealloc", file |-> f, grp |-> g, blks |-> S],
                  owned[f] \ S)
        /\ UNCHANGED <<free, memFree, pc, grpVars, colVars, sbLock, cache, disk,
                       failed>>

Done(t) ==
    /\ pc[t] = "open" /\ events[t] # <<>>
    /\ pc' = [pc EXCEPT ![t] = "compress"]
    /\ UNCHANGED <<memVars, using, events, grpVars, colVars, sbLock, cache, disk,
                   failed>>

-----------------------------------------------------------------------------
(* Events::compress.                                                       *)

\* set_bitmap or unset_bitmap, and the deltas n of the group and superblock.
Apply(t, e, bits, n) ==
    /\ cache' = [cache EXCEPT ![Bitmap(e.grp)].blks = bits]
    /\ delta' = [delta EXCEPT ![t][e.grp] = @ + n]
    /\ sbDelta' = [sbDelta EXCEPT ![t] = @ + n]
    /\ tracked' = [tracked EXCEPT ![t] = @ \cup {{Bitmap(e.grp)}}]

CompressAlloc(t, e) ==
    /\ e.kind = "alloc"
    /\ Apply(t, e, cache[Bitmap(e.grp)].blks \cup e.blks, -Cardinality(e.blks))
    /\ UNCHANGED post

\* Mutants of CompressDealloc: the bits stay set; no postlude is pushed.
CompressKeepsBits(t, e) ==
    /\ e.kind = "dealloc"
    /\ Apply(t, e, cache[Bitmap(e.grp)].blks, Cardinality(e.blks))
    /\ post' = [post EXCEPT ![t] = @ \cup {e.blks}]

CompressNoPostlude(t, e) ==
    /\ e.kind = "dealloc"
    /\ Apply(t, e, cache[Bitmap(e.grp)].blks \ e.blks, Cardinality(e.blks))
    /\ UNCHANGED post

CompressDealloc(t, e) ==
    /\ e.kind = "dealloc"
    /\ Apply(t, e, cache[Bitmap(e.grp)].blks \ e.blks, Cardinality(e.blks))
    /\ post' = [post EXCEPT ![t] = @ \cup {e.blks}]

CompressSize(t, e) ==
    /\ e.kind = "size"
    /\ UNCHANGED <<cache, delta, sbDelta, tracked, post>>

Compress(t) ==
    /\ pc[t] = "compress" /\ events[t] # <<>>
    /\ LET e == Head(events[t]) IN
        \/ CompressAlloc(t, e)
        \/ CompressDealloc(t, e)
        \/ CompressSize(t, e)
    /\ ops' = [ops EXCEPT ![t] = Append(@, Head(events[t]))]
    /\ events' = [events EXCEPT ![t] = Tail(@)]
    /\ UNCHANGED <<memVars, pc, using, bio, sbLock, disk, failed>>

-----------------------------------------------------------------------------
(* WritebackGroup::flush, under the lock of the superblock.                *)

\* Mutant of LockSb: flush begins without waiting for the lock.
LockSbBusy(t) ==
    /\ pc[t] = "compress" /\ events[t] = <<>>
    /\ sbLock' = t
    /\ pc' = [pc EXCEPT ![t] = "flush"]
    /\ UNCHANGED <<memVars, using, events, grpVars, colVars, cache, disk, failed>>

LockSb(t) ==
    /\ pc[t] = "compress" /\ events[t] = <<>>
    /\ sbLock = NoThread
    /\ sbLock' = t
    /\ pc' = [pc EXCEPT ![t] = "flush"]
    /\ UNCHANGED <<memVars, using, events, grpVars, colVars, cache, disk, failed>>

SubmitBlockGroup(t, g) ==
    /\ pc[t] = "flush" /\ delta[t][g] # 0
    /\ cache' = [cache EXCEPT ![Desc(g)].n = @ + delta[t][g]]
    /\ delta' = [delta EXCEPT ![t][g] = 0]
    /\ tracked' = [tracked EXCEPT ![t] = @ \cup {DeviceBlock(Desc(g))}]
    /\ UNCHANGED <<memVars, pc, using, events, sbDelta, ops, bio, post, sbLock, disk,
                   failed>>

\* Mutant of AfterOp: a change of the size leaves the root of the extents alone.
AfterOpKeepsRoot(inode, e) ==
    CASE e.kind = "alloc"   -> [inode EXCEPT !.n =
                                    (@ + Cardinality(e.blks)) % IBlocksMod]
      [] e.kind = "dealloc" -> [inode EXCEPT !.n = (@ - 1) % IBlocksMod]
      [] e.kind = "size"    -> inode

\* The inode after one operation.  A deallocation of any number of blocks
\* takes ONE off the count: compress pushes SetBlock { cnt: -1 }.
AfterOp(inode, e) ==
    CASE e.kind = "alloc"   -> [inode EXCEPT !.n =
                                    (@ + Cardinality(e.blks)) % IBlocksMod]
      [] e.kind = "dealloc" -> [inode EXCEPT !.n = (@ - 1) % IBlocksMod]
      [] e.kind = "size"    -> [inode EXCEPT !.blks = e.blks]

\* Mutant of SubmitInodeOp: the block of the inode is not tracked.
SubmitUntracked(t) ==
    /\ pc[t] = "flush" /\ ops[t] # <<>>
    /\ \A g \in Group : delta[t][g] = 0
    /\ cache' = [cache EXCEPT ![Ino(Head(ops[t]).file)] = AfterOp(@, Head(ops[t]))]
    /\ ops' = [ops EXCEPT ![t] = Tail(@)]
    /\ UNCHANGED <<memVars, pc, using, events, delta, sbDelta, colVars, sbLock, disk,
                   failed>>

SubmitInodeOp(t) ==
    /\ pc[t] = "flush" /\ ops[t] # <<>>
    /\ \A g \in Group : delta[t][g] = 0
    /\ LET e == Head(ops[t]) IN
        /\ cache' = [cache EXCEPT ![Ino(e.file)] = AfterOp(@, e)]
        /\ tracked' = [tracked EXCEPT ![t] = @ \cup {DeviceBlock(Ino(e.file))}]
    /\ ops' = [ops EXCEPT ![t] = Tail(@)]
    /\ UNCHANGED <<memVars, pc, using, events, delta, sbDelta, bio, post, sbLock, disk,
                   failed>>

\* Mutants of SubmitSb: the delta is forgotten; the lock is kept on return.
SubmitSbNoDelta(t) ==
    /\ pc[t] = "flush" /\ ops[t] = <<>>
    /\ \A g \in Group : delta[t][g] = 0
    /\ sbDelta' = [sbDelta EXCEPT ![t] = 0]
    /\ tracked' = [tracked EXCEPT ![t] = @ \cup {{Sb}}]
    /\ sbLock' = NoThread
    /\ pc' = [pc EXCEPT ![t] = "writeback"]
    /\ UNCHANGED <<memVars, using, events, delta, ops, bio, post, cache, disk, failed>>

SubmitSbKeepsLock(t) ==
    /\ pc[t] = "flush" /\ ops[t] = <<>>
    /\ \A g \in Group : delta[t][g] = 0
    /\ cache' = [cache EXCEPT ![Sb].n = @ + sbDelta[t]]
    /\ sbDelta' = [sbDelta EXCEPT ![t] = 0]
    /\ tracked' = [tracked EXCEPT ![t] = @ \cup {{Sb}}]
    /\ pc' = [pc EXCEPT ![t] = "writeback"]
    /\ UNCHANGED <<memVars, using, events, delta, ops, bio, post, sbLock, disk, failed>>

\* Every transaction here records an allocation or a deallocation, so there is
\* always a delta for the superblock, be it zero.
SubmitSb(t) ==
    /\ pc[t] = "flush" /\ ops[t] = <<>>
    /\ \A g \in Group : delta[t][g] = 0
    /\ cache' = [cache EXCEPT ![Sb].n = @ + sbDelta[t]]
    /\ sbDelta' = [sbDelta EXCEPT ![t] = 0]
    /\ tracked' = [tracked EXCEPT ![t] = @ \cup {{Sb}}]
    /\ sbLock' = NoThread
    /\ pc' = [pc EXCEPT ![t] = "writeback"]
    /\ UNCHANGED <<memVars, using, events, delta, ops, bio, post, disk, failed>>

-----------------------------------------------------------------------------
(* Collector::done.                                                        *)

\* The superblock is cloned first, under its lock; then every other block in
\* the order of a hash set.  Nothing stops other transactions in between.
Snapshot(t, d) ==
    /\ pc[t] = "writeback" /\ d \in tracked[t]
    /\ IF d = {Sb} THEN sbLock = NoThread ELSE {Sb} \notin tracked[t]
    /\ bio' = [bio EXCEPT ![t] = Append(@, Clone(d))]
    /\ tracked' = [tracked EXCEPT ![t] = @ \ {d}]
    /\ UNCHANGED <<memVars, pc, using, events, grpVars, post, sbLock, cache, disk,
                   failed>>

Writing(t) == pc[t] = "writeback" /\ tracked[t] = {}

WriteBio(t) ==
    /\ Writing(t) /\ bio[t] # <<>>
    /\ disk' = [s \in Slot |-> IF s \in Head(bio[t]).dev THEN Head(bio[t]).val[s]
                             ELSE disk[s]]
    /\ bio' = [bio EXCEPT ![t] = Tail(@)]
    /\ UNCHANGED <<memVars, pc, using, events, grpVars, tracked, post, sbLock, cache,
                   failed>>

\* Mutant of FailWrite: the postludes run although the write failed.
FailWriteFrees(t) ==
    /\ MayFail /\ Writing(t)
    /\ free' = free \cup UNION post[t]
    /\ bio' = [bio EXCEPT ![t] = <<>>]
    /\ post' = [post EXCEPT ![t] = {}]
    /\ pc' = [pc EXCEPT ![t] = "open"]
    /\ using' = [using EXCEPT ![t] = {}]
    /\ failed' = TRUE
    /\ UNCHANGED <<memFree, owned, events, grpVars, tracked, sbLock, cache, disk>>

\* A write, or the sync after the last one, fails: write_bios returns at once,
\* the clones not yet written and the postludes are dropped, and done returns
\* the error.
FailWrite(t) ==
    /\ MayFail /\ Writing(t)
    /\ bio' = [bio EXCEPT ![t] = <<>>]
    /\ post' = [post EXCEPT ![t] = {}]
    /\ pc' = [pc EXCEPT ![t] = "open"]
    /\ using' = [using EXCEPT ![t] = {}]
    /\ failed' = TRUE
    /\ UNCHANGED <<memVars, events, grpVars, tracked, sbLock, cache, disk>>

\* Mutant of Sync: it does not wait for the writes.
SyncEarly(t) ==
    /\ Writing(t)
    /\ pc' = [pc EXCEPT ![t] = "postlude"]
    /\ UNCHANGED <<memVars, using, events, grpVars, colVars, sbLock, cache, disk, failed>>

Sync(t) ==
    /\ Writing(t) /\ bio[t] = <<>>
    /\ pc' = [pc EXCEPT ![t] = "postlude"]
    /\ UNCHANGED <<memVars, using, events, grpVars, colVars, sbLock, cache, disk, failed>>

\* apply_deallocation_on_core: the buddies get the blocks back, then the
\* counter of the group grows.  Nothing reads that counter, so both are one step.
Postlude(t, S) ==
    /\ pc[t] = "postlude" /\ S \in post[t]
    /\ free' = free \cup S
    /\ memFree' = [g \in Group |-> memFree[g] + Cardinality(S \cap BlocksOf(g))]
    /\ post' = [post EXCEPT ![t] = @ \ {S}]
    /\ UNCHANGED <<owned, pc, using, events, grpVars, tracked, bio, sbLock, cache, disk,
                   failed>>

Finish(t) ==
    /\ pc[t] = "postlude" /\ post[t] = {}
    /\ pc' = [pc EXCEPT ![t] = "open"]
    /\ using' = [using EXCEPT ![t] = {}]
    /\ UNCHANGED <<memVars, events, grpVars, colVars, sbLock, cache, disk, failed>>

-----------------------------------------------------------------------------

FileOp(t) ==
    \E f \in File, S \in SUBSET Block :
        \/ \E lost \in SUBSET Block : Extend(t, f, S, lost)
        \/ Truncate(t, f, S)

Commit(t) ==
    \/ Compress(t)
    \/ LockSb(t)
    \/ \E g \in Group : SubmitBlockGroup(t, g)
    \/ SubmitInodeOp(t)
    \/ SubmitSb(t)
    \/ \E d \in DeviceBlocks : Snapshot(t, d)
    \/ WriteBio(t)
    \/ Sync(t)
    \/ \E S \in SUBSET Block : Postlude(t, S)
    \/ Finish(t)

Next == \E t \in Thread : FileOp(t) \/ Done(t) \/ Commit(t) \/ FailWrite(t)

Spec == Init /\ [][Next]_vars

\* A thread inside done keeps running, and the ticket lock of the superblock
\* is handed over in the order of arrival.
Fairness == \A t \in Thread : SF_vars(Commit(t))

FairSpec == Spec /\ Fairness

-----------------------------------------------------------------------------
(* Properties.                                                             *)

\* Every variable has its type.
TypeOK ==
    /\ free \subseteq Block
    /\ memFree \in [Group -> Int]
    /\ owned \in [File -> SUBSET Block]
    /\ pc \in [Thread -> {"open", "compress", "flush", "writeback", "postlude"}]
    /\ using \in [Thread -> SUBSET File]
    /\ events \in [Thread -> Seq(Event)]
    /\ delta \in [Thread -> [Group -> Int]]
    /\ sbDelta \in [Thread -> Int]
    /\ ops \in [Thread -> Seq(Event)]
    /\ tracked \in [Thread -> SUBSET DeviceBlocks]
    /\ bio \in [Thread -> Seq([dev : DeviceBlocks, val : [Slot -> Content]])]
    /\ post \in [Thread -> SUBSET SUBSET Block]
    /\ sbLock \in Thread \cup {NoThread}
    /\ cache \in [Slot -> Content]
    /\ disk \in [Slot -> Content]
    /\ failed \in BOOLEAN

\* A transaction is worked off stage by stage: the one in flush holds the lock
\* of the superblock and nobody else does, no delta and no inode operation is
\* left behind it, no tracked block and no clone is left behind the sync, and
\* an open transaction starts with an empty group and an empty collector.
WorkedOff ==
    \A t \in Thread :
        /\ sbLock = t <=> pc[t] = "flush"
        /\ pc[t] \in {"open", "writeback", "postlude"} =>
              ops[t] = <<>> /\ sbDelta[t] = 0 /\ \A g \in Group : delta[t][g] = 0
        /\ pc[t] \in {"open", "compress", "flush", "postlude"} => bio[t] = <<>>
        /\ pc[t] \in {"open", "postlude"} => tracked[t] = {}
        /\ pc[t] = "open" => post[t] = {}

\* The blocks a transaction has taken from a file and not yet given back:
\* recorded, or waiting in the postludes.
Recorded(t) ==
    UNION {events[t][i].blks : i \in {j \in DOMAIN events[t] : events[t][j].kind = "dealloc"}}

ReleasedBy(t) == Recorded(t) \cup UNION post[t]

Releasing == UNION {ReleasedBy(t) : t \in Thread}

InUse == UNION {owned[f] : f \in File}

\* No two files, no two transactions and no file and the buddies ever hold the
\* same data block, whatever the threads do: a block given up by a file stays
\* out of the buddies and of every other file until the transaction that gave
\* it up has been written back.
OwnershipExclusive ==
    /\ InUse \cap free = {}
    /\ Releasing \cap (InUse \cup free) = {}
    /\ \A f, g \in File : f # g => owned[f] \cap owned[g] = {}
    /\ \A t, u \in Thread : t # u => ReleasedBy(t) \cap ReleasedBy(u) = {}

\* No block is given up twice: not by two events of a transaction, not by two
\* postludes, and not by an event that is still to come and a postlude.
ReleasedOnce ==
    \A t \in Thread :
        /\ pc[t] \in {"flush", "writeback", "postlude"} => events[t] = <<>>
        /\ \A i, j \in DOMAIN events[t] :
            i # j /\ events[t][i].kind = "dealloc" /\ events[t][j].kind = "dealloc"
                => events[t][i].blks \cap events[t][j].blks = {}
        /\ \A P, Q \in post[t] : P # Q => P \cap Q = {}
        /\ Recorded(t) \cap UNION post[t] = {}

\* The assertions inside set_bitmap and unset_bitmap: no bit is set twice and
\* none is cleared twice, so the order in which transactions reach the bitmap
\* agrees with the order in which blocks changed hands in memory.
BitmapAssertions ==
    \A t \in Thread : pc[t] = "compress" /\ events[t] # <<>> =>
        LET e == Head(events[t])
            used == cache[Bitmap(e.grp)].blks
        IN  /\ e.kind = "alloc" => e.blks \cap used = {}
            /\ e.kind = "dealloc" => e.blks \subseteq used

\* What the cached bitmaps say is what the descriptors and the superblock
\* count, up to the deltas of the transactions that have not submitted them:
\* no interleaving of compress and flush loses or repeats a delta.
CountersConserved ==
    /\ \A g \in Group :
        cache[Desc(g)].n + SumFunction([t \in Thread |-> delta[t][g]])
            = Cardinality(BlocksOf(g) \ cache[Bitmap(g)].blks)
    /\ cache[Sb].n + SumFunction(sbDelta)
        = SumFunction([g \in Group |-> Cardinality(BlocksOf(g) \ cache[Bitmap(g)].blks)])

Idle == \A t \in Thread : pc[t] = "open" /\ events[t] = <<>>

\* When no transaction is live, bitmaps, extents and counters in memory agree,
\* and the buddies hold only blocks the bitmaps leave free.
MemoryAgreesWhenIdle ==
    Idle => /\ \A f \in File : cache[Ino(f)].blks = owned[f]
            /\ \A g \in Group :
                /\ InUse \cap BlocksOf(g) = cache[Bitmap(g)].blks
                /\ free \cap cache[Bitmap(g)].blks = {}
                /\ failed \/ memFree[g] = Cardinality(BlocksOf(g) \ cache[Bitmap(g)].blks)

\* When no transaction is live and none has failed, the device holds what the
\* cache holds: done has made every change permanent.
DurableWhenIdle == Idle /\ ~failed => disk = cache

\* At no point between two writes of a write-back does the device map a block
\* from two files, so neither does it after a crash there.
DiskNoSharing ==
    \A f, g \in File : f # g => disk[Ino(f)].blks \cap disk[Ino(g)].blks = {}

\* A block goes back to the buddies only once no file on the device maps it
\* and the bitmap on the device has it free.
ReuseAfterWriteback ==
    [][\A b \in free' \ free :
        /\ \A f \in File : b \notin disk[Ino(f)].blks
        /\ b \notin disk[Bitmap(GroupOf[b])].blks]_vars

\* i_blocks of a file counts the blocks its extents map.
IBlocksCountsExtents ==
    Idle => \A f \in File :
        cache[Ino(f)].n = Cardinality(cache[Ino(f)].blks) % IBlocksMod

\* done always returns: it takes the lock of the superblock, which is not
\* re-entrant, once to flush and again to clone the superblock.
DoneReturns == \A t \in Thread : pc[t] # "open" ~> pc[t] = "open"

\* A block a file gives up is handed to the buddies in the end, unless a
\* write fails.
ReleasedIsFreed ==
    \A b \in Block, t \in Thread :
        pc[t] # "open" /\ b \in ReleasedBy(t) ~> b \in free \/ failed

\* The ownership that the abstract specification speaks of.
Status ==
    [b \in Block |-> IF b \in free THEN "free"
                     ELSE IF \E f \in File : b \in owned[f]
                          THEN CHOOSE f \in File : b \in owned[f]
                     ELSE IF b \in Releasing THEN "releasing" ELSE "lost"]

Ownership == INSTANCE BlockOwnership WITH status <- Status

\* Allocator, transactions and write-back together keep the abstract promise.
OwnershipSpec == Ownership!Spec
=============================================================================
