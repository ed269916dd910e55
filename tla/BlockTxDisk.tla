------------------------------ MODULE BlockTxDisk ------------------------------
(***************************************************************************)
(* Proofs about what BlockTx leaves on the device, for any blocks, files   *)
(* and groups, when one thread at a time runs transactions: then done      *)
(* makes everything permanent, no two files on the device share a block,   *)
(* and no block is reused before the write-back that frees it.  With two   *)
(* threads this is false: a clone may overwrite a newer one.               *)
(***************************************************************************)
EXTENDS BlockTxMemory

\* What a slot says is on the device, or is on its way there.
OnItsWay(s) ==
    \E t \in Thread : \/ \E d \in tracked[t] : s \in d
                      \/ \E i \in DOMAIN bio[t] : s \in bio[t][i].dev

Settled(s) == disk[s] = cache[s] \/ OnItsWay(s)

\* Clones are made during the write-back and written before its end.
Stages ==
    \A t \in Thread :
        /\ pc[t] \in {"open", "compress", "flush"} => bio[t] = <<>>
        /\ pc[t] \in {"open", "postlude"} => tracked[t] = {} /\ bio[t] = <<>>

\* A clone is not older than the block it was made of.
ClonesCurrent ==
    \A t \in Thread : \A i \in DOMAIN bio[t] : \A s \in Slot :
        s \in bio[t][i].dev => bio[t][i].val[s] = cache[s]

\* As long as no write has failed, nothing is forgotten.
NothingForgotten == failed \/ \A s \in Slot : Settled(s)

\* Even after a failure, a transaction forgets none of its own changes: not
\* to the inodes of its files, not to the bitmaps of the blocks it returns.
OwnSettled ==
    \A t \in Thread :
        /\ \A f \in using[t] :
            Settled(Ino(f)) \/ \E i \in DOMAIN Todo(t) : Todo(t)[i].file = f
        /\ \A b \in UNION post[t] : Settled(Bitmap(GroupOf[b]))

\* A block that the device still maps from a file is not in the buddies and
\* in no other file; a transaction that returns it works on that file.
NoReuse ==
    \A f \in File : \A b \in disk[Ino(f)].blks :
        /\ b \notin free
        /\ \A h \in File : h # f => b \notin owned[h]
        /\ \A t \in Thread : b \in ReleasedBy(t) => f \in using[t]

DRest == Stages /\ ClonesCurrent /\ NothingForgotten /\ OwnSettled /\ NoReuse /\ DiskNoSharing

DInv == MInv /\ DRest
-----------------------------------------------------------------------------
(* What is on its way stays on its way.                                    *)

\* A step that touches neither the cached blocks nor the write-back.
LEMMA SettledSame ==
    ASSUME UNCHANGED <<cache, disk, tracked, bio>>
    PROVE  \A s : Settled(s)' <=> Settled(s)
BY DEF Settled, OnItsWay

\* A step that changes cached blocks tracks those it changes.
LEMMA ChangeSettles ==
    ASSUME TypeOK, NEW t \in Thread, NEW d \in DeviceBlocks,
           disk' = disk, bio' = bio, tracked' = [tracked EXCEPT ![t] = @ \cup {d}],
           \A s \in Slot : s \notin d => cache'[s] = cache[s]
    PROVE  /\ \A s \in Slot : Settled(s) => Settled(s)'
           /\ \A s \in Slot : s \in d => Settled(s)'
<1>1. /\ d \in tracked'[t]
      /\ \A u \in Thread : tracked[u] \subseteq tracked'[u]
  BY DEF TypeOK
<1>2. ASSUME NEW s \in Slot, s \in d PROVE Settled(s)'
  BY <1>1, <1>2 DEF Settled, OnItsWay
<1>3. ASSUME NEW s \in Slot, s \notin d, Settled(s) PROVE Settled(s)'
  BY <1>1, <1>3 DEF Settled, OnItsWay
<1>4. QED
  BY <1>2, <1>3

\* What the operations of a transaction change lies in a block of its own.
LEMMA SlotInBlock ==
    /\ \A g \in Group : Bitmap(g) \in {Bitmap(g)} /\ Desc(g) \in DeviceBlock(Desc(g))
    /\ \A f \in File : Ino(f) \in DeviceBlock(Ino(f))
<1>1. ASSUME NEW g \in Group PROVE Desc(g) \in DeviceBlock(Desc(g))
  BY DEF Desc, DeviceBlock
<1>2. ASSUME NEW f \in File PROVE Ino(f) \in DeviceBlock(Ino(f))
  <2>1. Ino(f)[1] = "inode" /\ Ino(f)[2] = f
    BY DEF Ino
  <2>2. DeviceBlock(Ino(f)) = {Ino(h) : h \in {k \in File : TableOf[k] = TableOf[f]}}
    BY <2>1 DEF DeviceBlock
  <2>3. QED
    BY <2>2
<1>3. QED
  BY <1>1, <1>2

\* No file on the device takes a block of another one, and none that may be
\* handed out, as long as blocks stay where they are.
LEMMA DeviceSame ==
    ASSUME NoReuse, DiskNoSharing, UNCHANGED <<free, owned, using, disk>>,
           \A u \in Thread : ReleasedBy(u)' = ReleasedBy(u)
    PROVE  NoReuse' /\ DiskNoSharing'
<1>1. NoReuse'
  <2>1. ASSUME NEW f \in File, NEW b \in disk'[Ino(f)].blks
        PROVE  /\ b \notin free'
               /\ \A h \in File : h # f => b \notin owned'[h]
               /\ \A t \in Thread : b \in ReleasedBy(t)' => f \in using'[t]
    BY <2>1 DEF NoReuse
  <2>2. QED
    BY <2>1 DEF NoReuse, Ino
<1>2. DiskNoSharing'
  <2>1. \A f, g \in File : f # g => disk'[Ino(f)].blks \cap disk'[Ino(g)].blks = {}
    BY DEF DiskNoSharing
  <2>2. QED
    BY <2>1 DEF DiskNoSharing, Ino
<1>3. QED
  BY <1>1, <1>2

\* What is settled stays so: a transaction forgets nothing.
LEMMA KeepSettled ==
    ASSUME NothingForgotten, OwnSettled, TypeOK, UNCHANGED <<using, failed>>,
           \A s \in Slot : Settled(s) => Settled(s)',
           \A u \in Thread : \A f \in File :
                (\E i \in DOMAIN Todo(u) : Todo(u)[i].file = f)
                => (\E i \in DOMAIN Todo(u)' : Todo(u)'[i].file = f) \/ Settled(Ino(f))',
           \A u \in Thread : \A b \in UNION post'[u] :
                b \in UNION post[u] \/ Settled(Bitmap(GroupOf[b]))'
    PROVE  NothingForgotten' /\ OwnSettled'
<1>1. NothingForgotten'
  BY DEF NothingForgotten, Slot, Bitmap, Desc, Ino, Sb
<1>2. ASSUME NEW u \in Thread, NEW f \in using'[u]
      PROVE  Settled(Ino(f))' \/ \E i \in DOMAIN Todo(u)' : Todo(u)'[i].file = f
  <2>1. f \in using[u] /\ f \in File /\ Ino(f) \in Slot
    BY Slots DEF TypeOK
  <2>2. Settled(Ino(f)) \/ \E i \in DOMAIN Todo(u) : Todo(u)[i].file = f
    BY <2>1 DEF OwnSettled
  <2>3. QED
    BY <2>1, <2>2
<1>3. ASSUME NEW u \in Thread, NEW b \in UNION post'[u]
      PROVE  Settled(Bitmap(GroupOf[b]))'
  <2>1. CASE b \in UNION post[u]
    <3>1. b \in Block
      BY <2>1 DEF TypeOK
    <3>2. Bitmap(GroupOf[b]) \in Slot
      BY <3>1, ConstantsOK, Slots
    <3>3. QED
      BY <2>1, <3>2 DEF OwnSettled
  <2>2. QED
    BY <1>3, <2>1
<1>4. QED
  BY <1>1, <1>2, <1>3 DEF OwnSettled

-----------------------------------------------------------------------------
(* A file operation.                                                       *)

\* Recording changes nothing on the device or on its way there, and the inode
\* of the file is still to be written.
LEMMA RecordDisk ==
    ASSUME DInv, NEW t \in Thread, NEW e \in Event, NEW map \in SUBSET Block,
           Record(t, e.file, e, map),
           UNCHANGED <<ops, pc, post, cache, disk, tracked, bio, failed>>
    PROVE  Stages' /\ ClonesCurrent' /\ NothingForgotten' /\ OwnSettled' /\ DiskNoSharing'
<1> DEFINE f == e.file
<1>1. /\ TypeOK /\ Stages /\ ClonesCurrent /\ NothingForgotten /\ OwnSettled /\ DiskNoSharing
      /\ f \in File
  BY DEF DInv, DRest, MInv, IInv, Event
<1>2. \A s : Settled(s)' <=> Settled(s)
  BY SettledSame
<1>3. Stages' /\ DiskNoSharing'
  BY <1>1 DEF Stages, DiskNoSharing, Ino
<1>4. ClonesCurrent'
  BY <1>1 DEF ClonesCurrent, Slot, Bitmap, Desc, Ino, Sb
<1>5. NothingForgotten'
  BY <1>1, <1>2 DEF NothingForgotten, Slot, Bitmap, Desc, Ino, Sb
<1>6. PICK r \in Event :
        /\ Grown(Todo(t)', Todo(t), e, r)
        /\ \A u \in Thread : u # t => Todo(u)' = Todo(u)
  BY <1>1, RecordGrows
<1>7. /\ \A u \in Thread : u # t => using'[u] = using[u]
      /\ using'[t] = using[t] \cup {f}
  BY <1>1 DEF Record, TypeOK
<1>8. /\ \A i \in DOMAIN Todo(t) : i \in DOMAIN Todo(t)' /\ Todo(t)'[i] = Todo(t)[i]
      /\ \E i \in DOMAIN Todo(t)' : Todo(t)'[i] = e
  <2> DEFINE n == Len(Todo(t))
  <2>1. /\ DOMAIN Todo(t) = 1 .. n /\ n \in Nat
        /\ DOMAIN Todo(t)' = 1 .. n + 2
        /\ \A i \in 1 .. n : Todo(t)'[i] = Todo(t)[i]
        /\ Todo(t)'[n + 1] = e
    BY <1>6 DEF Grown
  <2> HIDE DEF n
  <2>2. n + 1 \in 1 .. n + 2 /\ \A i \in 1 .. n : i \in 1 .. n + 2
    BY <2>1
  <2>3. QED
    BY <2>1, <2>2
<1>9. OwnSettled'
  <2>1. ASSUME NEW u \in Thread, NEW h \in using'[u]
        PROVE  Settled(Ino(h))' \/ \E i \in DOMAIN Todo(u)' : Todo(u)'[i].file = h
    <3>1. CASE h \in using[u]
      <4>1. Settled(Ino(h)) \/ \E i \in DOMAIN Todo(u) : Todo(u)[i].file = h
        BY <1>1, <3>1 DEF OwnSettled
      <4>2. QED
        BY <1>2, <1>6, <1>8, <4>1
    <3>2. CASE h \notin using[u]
      BY <1>7, <1>8, <2>1, <3>2
    <3>3. QED
      BY <3>1, <3>2
  <2>2. \A u \in Thread : \A b \in UNION post'[u] : Settled(Bitmap(GroupOf[b]))'
    BY <1>1, <1>2 DEF OwnSettled
  <2>3. QED
    BY <2>1, <2>2 DEF OwnSettled
<1>10. QED
  BY <1>3, <1>4, <1>5, <1>9

\* An extension takes free blocks: the device maps none of them.
LEMMA ExtendDisk ==
    ASSUME DInv, NEW t \in Thread, NEW f \in File, NEW S \in SUBSET Block,
           NEW lost \in SUBSET Block, Extend(t, f, S, lost)
    PROVE  DRest'
<1>1. PICK g \in Group :
        /\ S \subseteq free
        /\ free' = free \ (S \cup lost)
        /\ Record(t, f, [kind |-> "alloc", file |-> f, grp |-> g, blks |-> S],
                  owned[f] \cup S)
        /\ UNCHANGED <<ops, pc, post, cache, disk, tracked, bio, failed>>
  BY DEF Extend, colVars, grpVars
<1> DEFINE e == [kind |-> "alloc", file |-> f, grp |-> g, blks |-> S]
<1>2. e \in Event /\ e.kind = "alloc" /\ e.file = f
  BY DEF Event
<1>3. Record(t, e.file, e, owned[f] \cup S)
  BY <1>1
<1> HIDE DEF e
<1>4. TypeOK /\ NoReuse /\ owned[f] \cup S \in SUBSET Block
  BY DEF DInv, DRest, MInv, IInv, TypeOK
<1>5. Stages' /\ ClonesCurrent' /\ NothingForgotten' /\ OwnSettled' /\ DiskNoSharing'
  BY <1>1, <1>2, <1>3, <1>4, RecordDisk
<1>6. /\ \A u \in Thread : using[u] \subseteq using'[u]
      /\ \A h \in File : owned'[h] = IF h = f THEN owned[f] \cup S ELSE owned[h]
  BY <1>2, <1>3, <1>4 DEF Record, TypeOK
<1>7. \A u \in Thread : ReleasedBy(u)' = ReleasedBy(u)
  <2>1. PICK r \in Event :
          /\ r.kind = "size"
          /\ Grown(events'[t], events[t], e, r)
          /\ \A u \in Thread : u # t => events'[u] = events[u]
    BY <1>1, <1>2, <1>3, <1>4, RecordGrows
  <2>2. \A u \in Thread : Recorded(u)' = Recorded(u)
    BY <1>2, <2>1, GrownAllocated
  <2>3. QED
    BY <1>1, <2>2 DEF ReleasedBy
<1>8. NoReuse'
  <2>1. ASSUME NEW h \in File, NEW b \in disk'[Ino(h)].blks
        PROVE  /\ b \notin free'
               /\ \A k \in File : k # h => b \notin owned'[k]
               /\ \A u \in Thread : b \in ReleasedBy(u)' => h \in using'[u]
    <3>1. /\ b \notin free
          /\ \A k \in File : k # h => b \notin owned[k]
          /\ \A u \in Thread : b \in ReleasedBy(u) => h \in using[u]
      BY <1>1, <1>4, <2>1 DEF NoReuse
    <3>2. QED
      BY <1>1, <1>6, <1>7, <3>1
  <2>2. QED
    BY <2>1 DEF NoReuse, Ino
<1>9. QED
  BY <1>5, <1>8 DEF DRest

\* A truncation returns blocks of its file: if the device maps one of them, it
\* maps it from that file.
LEMMA TruncateDisk ==
    ASSUME DInv, NEW t \in Thread, NEW f \in File, NEW S \in SUBSET Block,
           Truncate(t, f, S)
    PROVE  DRest'
<1>1. PICK g \in Group :
        /\ S \subseteq owned[f]
        /\ free' = free
        /\ Record(t, f, [kind |-> "dealloc", file |-> f, grp |-> g, blks |-> S],
                  owned[f] \ S)
        /\ UNCHANGED <<ops, pc, post, cache, disk, tracked, bio, failed>>
  BY DEF Truncate, colVars, grpVars
<1> DEFINE e == [kind |-> "dealloc", file |-> f, grp |-> g, blks |-> S]
<1>2. e \in Event /\ e.kind = "dealloc" /\ e.file = f /\ e.blks = S
  BY DEF Event
<1>3. Record(t, e.file, e, owned[f] \ S)
  BY <1>1
<1> HIDE DEF e
<1>4. TypeOK /\ NoReuse /\ owned[f] \ S \in SUBSET Block
  BY DEF DInv, DRest, MInv, IInv, TypeOK
<1>5. Stages' /\ ClonesCurrent' /\ NothingForgotten' /\ OwnSettled' /\ DiskNoSharing'
  BY <1>1, <1>2, <1>3, <1>4, RecordDisk
<1>6. /\ \A u \in Thread : using[u] \subseteq using'[u]
      /\ f \in using'[t]
      /\ \A h \in File : owned'[h] = IF h = f THEN owned[f] \ S ELSE owned[h]
  BY <1>2, <1>3, <1>4 DEF Record, TypeOK
<1>7. /\ ReleasedBy(t)' = ReleasedBy(t) \cup S
      /\ \A u \in Thread : u # t => ReleasedBy(u)' = ReleasedBy(u)
  <2>1. PICK r \in Event :
          /\ r.kind = "size"
          /\ Grown(events'[t], events[t], e, r)
          /\ \A u \in Thread : u # t => events'[u] = events[u]
    BY <1>1, <1>2, <1>3, <1>4, RecordGrows
  <2>2. /\ Recorded(t)' = Recorded(t) \cup S
        /\ \A u \in Thread : u # t => Recorded(u)' = Recorded(u)
    BY <1>2, <2>1, GrownAllocated
  <2>3. QED
    BY <1>1, <2>2 DEF ReleasedBy
<1>8. NoReuse'
  <2>1. ASSUME NEW h \in File, NEW b \in disk'[Ino(h)].blks
        PROVE  /\ b \notin free'
               /\ \A k \in File : k # h => b \notin owned'[k]
               /\ \A u \in Thread : b \in ReleasedBy(u)' => h \in using'[u]
    <3>1. /\ b \notin free
          /\ \A k \in File : k # h => b \notin owned[k]
          /\ \A u \in Thread : b \in ReleasedBy(u) => h \in using[u]
      BY <1>1, <1>4, <2>1 DEF NoReuse
    <3>2. b \in S => h = f
      BY <1>1, <3>1
    <3>3. QED
      BY <1>1, <1>6, <1>7, <3>1, <3>2
  <2>2. QED
    BY <2>1 DEF NoReuse, Ino
<1>9. QED
  BY <1>5, <1>8 DEF DRest

-----------------------------------------------------------------------------
(* compress and flush change cached blocks, and track them.                *)

\* A step that changes a cached block before the write-back.
LEMMA ChangeDisk ==
    ASSUME DInv, OneThread, NEW t \in Thread, NEW d \in DeviceBlocks,
           pc[t] \in {"compress", "flush"}, pc'[t] \in {"compress", "flush", "writeback"},
           UNCHANGED <<free, owned, using, disk, bio, failed>>,
           tracked' = [tracked EXCEPT ![t] = @ \cup {d}],
           \A s \in Slot : s \notin d => cache'[s] = cache[s],
           \A u \in Thread : ReleasedBy(u)' = ReleasedBy(u),
           \A i \in DOMAIN Todo(t) :
                \/ \E j \in DOMAIN Todo(t)' : Todo(t)'[j].file = Todo(t)[i].file
                \/ Ino(Todo(t)[i].file) \in d /\ Todo(t)[i].file \in File,
           \A b \in UNION post'[t] :
                \/ b \in UNION post[t]
                \/ Bitmap(GroupOf[b]) \in d /\ b \in Block
    PROVE  DRest'
<1>1. /\ TypeOK /\ Stages /\ ClonesCurrent /\ NothingForgotten /\ OwnSettled
      /\ NoReuse /\ DiskNoSharing
      /\ \A u \in Thread : u = t
  BY DEF DInv, DRest, MInv, IInv, OneThread
<1>2. /\ \A s \in Slot : Settled(s) => Settled(s)'
      /\ \A s \in Slot : s \in d => Settled(s)'
  BY <1>1, ChangeSettles
<1>3. Stages'
  BY <1>1 DEF Stages
<1>4. \A u \in Thread : bio'[u] = <<>>
  BY <1>1 DEF Stages
<1>5. ClonesCurrent'
  BY <1>4 DEF ClonesCurrent
<1>6. NothingForgotten' /\ OwnSettled'
  <2>1. ASSUME NEW u \in Thread, NEW f \in File,
               \E i \in DOMAIN Todo(u) : Todo(u)[i].file = f
        PROVE  (\E i \in DOMAIN Todo(u)' : Todo(u)'[i].file = f) \/ Settled(Ino(f))'
    <3>1. (\E j \in DOMAIN Todo(u)' : Todo(u)'[j].file = f) \/ Ino(f) \in d
      BY <1>1, <2>1
    <3>2. QED
      BY <1>2, <3>1, Slots
  <2>2. \A u \in Thread : \A b \in UNION post'[u] :
            b \in UNION post[u] \/ Settled(Bitmap(GroupOf[b]))'
    <3>1. \A b \in Block : Bitmap(GroupOf[b]) \in Slot
      BY ConstantsOK, Slots
    <3>2. QED
      BY <1>1, <1>2, <3>1
  <2>3. QED
    BY <1>1, <1>2, <2>1, <2>2, KeepSettled
<1>7. NoReuse' /\ DiskNoSharing'
  BY <1>1, DeviceSame
<1>8. QED
  BY <1>3, <1>5, <1>6, <1>7 DEF DRest

\* compress tracks the bitmap it changes.
LEMMA CompressDisk ==
    ASSUME DInv, OneThread, NEW t \in Thread, Compress(t)
    PROVE  DRest'
<1> DEFINE e == Head(events[t])
<1>1. IInv /\ TypeOK /\ EventsFit /\ Stages /\ NoReuse /\ DiskNoSharing /\ ClonesCurrent
      /\ NothingForgotten /\ OwnSettled
  BY DEF DInv, DRest, MInv, IInv
<1>2. /\ pc[t] = "compress" /\ pc' = pc
      /\ UNCHANGED <<free, owned, using, disk, bio, failed>>
  BY DEF Compress, memVars
<1>3. /\ 1 \in DOMAIN events[t] /\ e = events[t][1] /\ e \in Event
      /\ e.grp \in Group /\ e.blks \in SUBSET Block
      /\ e.kind # "size" => e.blks \subseteq BlocksOf(e.grp)
  <2>1. 1 \in DOMAIN events[t] /\ e = events[t][1] /\ e \in Event
    BY <1>1, CompressWaiting
  <2>2. QED
    BY <1>1, <2>1 DEF EventsFit, Event
<1>4. /\ \A u \in Thread : Todo(u)' = Todo(u)
      /\ \A u \in Thread : ReleasedBy(u)' = ReleasedBy(u)
  BY <1>1, CompressTodo, CompressKeeps
<1> HIDE DEF e
<1>5. ASSUME NEW bits, NEW n, Apply(t, e, bits, n), e.kind # "size",
             \/ post' = post
             \/ post' = [post EXCEPT ![t] = @ \cup {e.blks}]
      PROVE  DRest'
  <2> DEFINE d == {Bitmap(e.grp)}
  <2>1. d \in DeviceBlocks /\ Bitmap(e.grp) \in Slot
    BY <1>3, TrackedBlocks, Slots
  <2>2. /\ tracked' = [tracked EXCEPT ![t] = @ \cup {d}]
        /\ cache' = [cache EXCEPT ![Bitmap(e.grp)].blks = bits]
    BY <1>5 DEF Apply
  <2>3. \A s \in Slot : s \notin d => cache'[s] = cache[s]
    BY <1>1, <2>1, <2>2 DEF TypeOK
  <2>4. \A b \in UNION post'[t] :
            b \in UNION post[t] \/ (Bitmap(GroupOf[b]) \in d /\ b \in Block)
    <3>1. \A b \in e.blks : b \in Block /\ GroupOf[b] = e.grp
      BY <1>3, <1>5 DEF BlocksOf
    <3>2. post'[t] = post[t] \/ post'[t] = post[t] \cup {e.blks}
      BY <1>1, <1>5 DEF TypeOK
    <3>3. QED
      BY <3>1, <3>2
  <2> HIDE DEF d
  <2>5. \A i \in DOMAIN Todo(t) :
            \E j \in DOMAIN Todo(t)' : Todo(t)'[j].file = Todo(t)[i].file
    BY <1>4
  <2>6. QED
    BY <1>2, <1>4, <2>1, <2>2, <2>3, <2>4, <2>5, ChangeDisk
<1>6. CASE CompressAlloc(t, e)
  <2>1. /\ e.kind # "size" /\ post' = post
        /\ Apply(t, e, cache[Bitmap(e.grp)].blks \cup e.blks, -Cardinality(e.blks))
    BY <1>6 DEF CompressAlloc
  <2>2. QED
    BY <1>5, <2>1
<1>7. CASE CompressDealloc(t, e)
  <2>1. /\ e.kind # "size" /\ post' = [post EXCEPT ![t] = @ \cup {e.blks}]
        /\ Apply(t, e, cache[Bitmap(e.grp)].blks \ e.blks, Cardinality(e.blks))
    BY <1>7 DEF CompressDealloc
  <2>2. QED
    BY <1>5, <2>1
<1>8. CASE CompressSize(t, e)
  <2>1. UNCHANGED <<cache, disk, tracked, bio, post>>
    BY <1>2, <1>8 DEF CompressSize
  <2>2. \A s : Settled(s)' <=> Settled(s)
    BY <2>1, SettledSame
  <2>3. NothingForgotten' /\ OwnSettled'
    <3>1. \A u \in Thread : \A f \in File :
            (\E i \in DOMAIN Todo(u) : Todo(u)[i].file = f)
            => (\E i \in DOMAIN Todo(u)' : Todo(u)'[i].file = f) \/ Settled(Ino(f))'
      BY <1>4
    <3>2. \A u \in Thread : \A b \in UNION post'[u] :
            b \in UNION post[u] \/ Settled(Bitmap(GroupOf[b]))'
      BY <2>1
    <3>3. QED
      BY <1>1, <1>2, <2>2, <3>1, <3>2, KeepSettled
  <2>4. Stages'
    BY <1>1, <1>2, <2>1 DEF Stages
  <2>5. ClonesCurrent'
    BY <1>1, <1>2, <2>1 DEF ClonesCurrent, Slot, Bitmap, Desc, Ino, Sb
  <2>6. NoReuse' /\ DiskNoSharing'
    BY <1>1, <1>2, <1>4, DeviceSame
  <2>7. QED
    BY <2>3, <2>4, <2>5, <2>6 DEF DRest
<1>9. CompressAlloc(t, e) \/ CompressDealloc(t, e) \/ CompressSize(t, e)
  BY DEF Compress, e
<1>10. QED
  BY <1>6, <1>7, <1>8, <1>9

\* Each part of the flush tracks the block it changes.
LEMMA FlushDisk ==
    ASSUME DInv, OneThread, NEW t \in Thread,
           \/ \E g \in Group : SubmitBlockGroup(t, g)
           \/ SubmitInodeOp(t)
           \/ SubmitSb(t)
    PROVE  DRest'
<1>1. TypeOK /\ IInv
  BY DEF DInv, MInv, IInv
<1>2. ASSUME UNCHANGED <<events, post>>
      PROVE  \A u \in Thread : ReleasedBy(u)' = ReleasedBy(u)
  BY <1>2 DEF ReleasedBy, Recorded
<1>3. ASSUME NEW g \in Group, SubmitBlockGroup(t, g) PROVE DRest'
  <2> DEFINE d == DeviceBlock(Desc(g))
  <2>1. d \in DeviceBlocks /\ Desc(g) \in Slot /\ Desc(g) \in d
    BY TrackedBlocks, Slots, SlotInBlock
  <2>2. /\ UNCHANGED <<free, owned, using, disk, bio, failed, pc, events, ops, post>>
        /\ pc[t] = "flush"
        /\ cache' = [cache EXCEPT ![Desc(g)].n = @ + delta[t][g]]
        /\ tracked' = [tracked EXCEPT ![t] = @ \cup {d}]
    BY <1>3 DEF SubmitBlockGroup, memVars
  <2> HIDE DEF d
  <2>3. \A s \in Slot : s \notin d => cache'[s] = cache[s]
    BY <1>1, <2>1, <2>2 DEF TypeOK
  <2>4. \A i \in DOMAIN Todo(t) :
            \E j \in DOMAIN Todo(t)' : Todo(t)'[j].file = Todo(t)[i].file
    BY <2>2 DEF Todo
  <2>5. QED
    BY <1>2, <2>1, <2>2, <2>3, <2>4, ChangeDisk
<1>4. CASE SubmitInodeOp(t)
  <2> DEFINE e == Head(ops[t])
             d == DeviceBlock(Ino(e.file))
  <2>1. /\ 1 \in DOMAIN Todo(t) /\ Todo(t)[1] = e /\ e \in Event
        /\ \A i \in DOMAIN Todo(t) : i # 1 =>
                i - 1 \in DOMAIN Todo(t)' /\ Todo(t)'[i - 1] = Todo(t)[i]
    BY <1>1, <1>4, OpDone
  <2>2. e.file \in File
    BY <2>1 DEF Event
  <2>3. d \in DeviceBlocks /\ Ino(e.file) \in Slot /\ Ino(e.file) \in d
    BY <2>2, TrackedBlocks, Slots, SlotInBlock
  <2>4. /\ UNCHANGED <<free, owned, using, disk, bio, failed, pc, events, post>>
        /\ pc[t] = "flush"
        /\ cache' = [cache EXCEPT ![Ino(e.file)] = AfterOp(@, e)]
        /\ tracked' = [tracked EXCEPT ![t] = @ \cup {d}]
    BY <1>4 DEF SubmitInodeOp, memVars
  <2> HIDE DEF d, e
  <2>5. \A s \in Slot : s \notin d => cache'[s] = cache[s]
    BY <1>1, <2>3, <2>4 DEF TypeOK
  <2>6. \A i \in DOMAIN Todo(t) :
            \/ \E j \in DOMAIN Todo(t)' : Todo(t)'[j].file = Todo(t)[i].file
            \/ Ino(Todo(t)[i].file) \in d /\ Todo(t)[i].file \in File
    BY <2>1, <2>2, <2>3
  <2>7. QED
    BY <1>2, <2>3, <2>4, <2>5, <2>6, ChangeDisk
<1>5. CASE SubmitSb(t)
  <2> DEFINE d == {Sb}
  <2>1. d \in DeviceBlocks /\ Sb \in Slot /\ Sb \in d
    BY TrackedBlocks, Slots
  <2>2. /\ UNCHANGED <<free, owned, using, disk, bio, failed, events, ops, post>>
        /\ pc[t] = "flush" /\ pc' = [pc EXCEPT ![t] = "writeback"]
        /\ cache' = [cache EXCEPT ![Sb].n = @ + sbDelta[t]]
        /\ tracked' = [tracked EXCEPT ![t] = @ \cup {d}]
    BY <1>5 DEF SubmitSb, memVars
  <2> HIDE DEF d
  <2>3. \A s \in Slot : s \notin d => cache'[s] = cache[s]
    BY <1>1, <2>1, <2>2 DEF TypeOK
  <2>4. \A i \in DOMAIN Todo(t) :
            \E j \in DOMAIN Todo(t)' : Todo(t)'[j].file = Todo(t)[i].file
    BY <2>2 DEF Todo
  <2>5. pc'[t] = "writeback"
    BY <1>1, <2>2 DEF TypeOK
  <2>6. QED
    BY <1>2, <2>1, <2>2, <2>3, <2>4, <2>5, ChangeDisk
<1>6. QED
  BY <1>3, <1>4, <1>5

-----------------------------------------------------------------------------
(* The write-back.                                                         *)

Request == [dev : DeviceBlocks, val : [Slot -> Content]]

\* What the device says in the end of a transaction about a file is what the
\* file has: nothing is left to do to any inode.
LEMMA RootsWritten ==
    ASSUME DInv, OneThread, NEW t \in Thread, pc[t] \in {"writeback", "postlude"}
    PROVE  /\ \A f \in File : cache[Ino(f)].blks = owned[f]
           /\ \A u \in Thread : u = t /\ events[u] = <<>> /\ ops[u] = <<>>
           /\ \A u \in Thread : DOMAIN Todo(u) = {} /\ Recorded(u) = {}
<1>1. Phases /\ ReleasedOnce /\ RootsTell /\ \A u \in Thread : u = t
  BY DEF DInv, MInv, IInv, OneThread
<1>2. \A u \in Thread : u = t /\ events[u] = <<>> /\ ops[u] = <<>>
  BY <1>1 DEF Phases, ReleasedOnce
<1>3. \A u \in Thread : DOMAIN Todo(u) = {} /\ Recorded(u) = {}
  BY <1>2, NothingToDo DEF Recorded
<1>4. \A u \in Thread, f \in File : ~HasSize(Todo(u), f)
  BY <1>3 DEF HasSize
<1>5. QED
  BY <1>1, <1>2, <1>3, <1>4 DEF RootsTell

\* A clone has the present content, and its block stays on its way.
LEMMA SnapshotDisk ==
    ASSUME DInv, OneThread, NEW t \in Thread, NEW d \in DeviceBlocks, Snapshot(t, d)
    PROVE  DRest'
<1> DEFINE n == Len(bio[t])
<1>1. /\ TypeOK /\ Stages /\ ClonesCurrent /\ NothingForgotten /\ OwnSettled
      /\ NoReuse /\ DiskNoSharing /\ \A u \in Thread : u = t
  BY DEF DInv, DRest, MInv, IInv, OneThread
<1>2. /\ pc[t] = "writeback" /\ d \in tracked[t]
      /\ bio' = [bio EXCEPT ![t] = Append(@, Clone(d))]
      /\ tracked' = [tracked EXCEPT ![t] = @ \ {d}]
      /\ UNCHANGED <<free, owned, pc, using, events, ops, post, cache, disk, failed>>
  BY DEF Snapshot, memVars, grpVars
<1>3. /\ DOMAIN bio[t] = 1 .. n /\ n \in Nat /\ DOMAIN bio'[t] = 1 .. n + 1
      /\ \A i \in 1 .. n : bio'[t][i] = bio[t][i]
      /\ bio'[t][n + 1] = Clone(d)
  <2>1. bio[t] \in Seq(Request) /\ Clone(d) \in Request
    BY <1>1, CloneType DEF TypeOK, Request
  <2>2. bio'[t] = Append(bio[t], Clone(d))
    BY <1>1, <1>2 DEF TypeOK
  <2>3. QED
    BY <2>1, <2>2
<1>4. Clone(d).dev = d /\ \A s \in Slot : s \in d => Clone(d).val[s] = cache[s]
  BY DEF Clone
<1>5. \A s \in Slot : Settled(s) => Settled(s)'
  <2> SUFFICES ASSUME NEW s \in Slot, Settled(s) PROVE Settled(s)'
    OBVIOUS
  <2>1. CASE disk[s] = cache[s]
    BY <1>2, <2>1 DEF Settled
  <2>2. CASE s \in d
    <3>1. n + 1 \in DOMAIN bio'[t] /\ s \in bio'[t][n + 1].dev
      BY <1>3, <1>4, <2>2
    <3>2. QED
      BY <3>1 DEF Settled, OnItsWay
  <2>3. CASE s \notin d /\ \E k \in tracked[t] : s \in k
    <3>1. \E k \in tracked'[t] : s \in k
      BY <1>1, <1>2, <2>3 DEF TypeOK
    <3>2. QED
      BY <3>1 DEF Settled, OnItsWay
  <2>4. CASE \E i \in DOMAIN bio[t] : s \in bio[t][i].dev
    <3>1. \E i \in DOMAIN bio'[t] : s \in bio'[t][i].dev
      <4>1. \A i \in 1 .. n : i \in 1 .. n + 1
        BY <1>3
      <4>2. QED
        BY <1>3, <2>4, <4>1
    <3>2. QED
      BY <3>1 DEF Settled, OnItsWay
  <2>5. QED
    BY <1>1, <2>1, <2>2, <2>3, <2>4 DEF Settled, OnItsWay
<1>6. /\ \A u \in Thread : Todo(u)' = Todo(u)
      /\ \A u \in Thread : ReleasedBy(u)' = ReleasedBy(u)
  BY <1>2 DEF Todo, ReleasedBy, Recorded
<1>7. NothingForgotten' /\ OwnSettled'
  <2>1. \A u \in Thread : \A f \in File :
            (\E i \in DOMAIN Todo(u) : Todo(u)[i].file = f)
            => (\E i \in DOMAIN Todo(u)' : Todo(u)'[i].file = f) \/ Settled(Ino(f))'
    BY <1>6
  <2>2. \A u \in Thread : \A b \in UNION post'[u] :
            b \in UNION post[u] \/ Settled(Bitmap(GroupOf[b]))'
    BY <1>2
  <2>3. QED
    BY <1>1, <1>2, <1>5, <2>1, <2>2, KeepSettled
<1>8. ClonesCurrent'
  <2>1. ASSUME NEW i \in DOMAIN bio'[t], NEW s \in Slot, s \in bio'[t][i].dev
        PROVE  bio'[t][i].val[s] = cache[s]
    <3>1. i \in 1 .. n \/ i = n + 1
      BY <1>3
    <3>2. CASE i \in 1 .. n
      BY <1>1, <1>3, <2>1, <3>2 DEF ClonesCurrent
    <3>3. CASE i = n + 1
      BY <1>3, <1>4, <2>1, <3>3
    <3>4. QED
      BY <3>1, <3>2, <3>3
  <2>2. \A u \in Thread : \A i \in DOMAIN bio'[u] : \A s \in Slot :
            s \in bio'[u][i].dev => bio'[u][i].val[s] = cache'[s]
    BY <1>1, <1>2, <2>1
  <2>3. QED
    BY <2>2 DEF ClonesCurrent, Slot, Bitmap, Desc, Ino, Sb
<1>9. Stages'
  BY <1>1, <1>2 DEF Stages
<1>10. NoReuse' /\ DiskNoSharing'
  BY <1>1, <1>2, <1>6, DeviceSame
<1>11. QED
  BY <1>7, <1>8, <1>9, <1>10 DEF DRest

\* A write brings the device to the present content: of an inode it writes the
\* blocks its file has.
LEMMA WriteDisk ==
    ASSUME DInv, OneThread, NEW t \in Thread, WriteBio(t)
    PROVE  DRest'
<1> DEFINE c == Head(bio[t])
<1>1. /\ TypeOK /\ Stages /\ ClonesCurrent /\ NothingForgotten /\ OwnSettled
      /\ NoReuse /\ DiskNoSharing /\ OwnershipExclusive /\ \A u \in Thread : u = t
  BY DEF DInv, DRest, MInv, IInv, OneThread
<1>2. /\ pc[t] = "writeback" /\ bio[t] # <<>>
      /\ disk' = [s \in Slot |-> IF s \in c.dev THEN c.val[s] ELSE disk[s]]
      /\ bio' = [bio EXCEPT ![t] = Tail(@)]
      /\ UNCHANGED <<free, owned, pc, using, events, ops, tracked, post, cache, failed>>
  BY DEF WriteBio, Writing, memVars, grpVars
<1>3. /\ 1 \in DOMAIN bio[t] /\ bio[t][1] = c
      /\ \A i \in DOMAIN bio[t] : i # 1 =>
            i - 1 \in DOMAIN bio'[t] /\ bio'[t][i - 1] = bio[t][i]
      /\ \A i \in DOMAIN bio'[t] : i + 1 \in DOMAIN bio[t] /\ bio'[t][i] = bio[t][i + 1]
  <2>1. bio[t] \in Seq(Request) /\ bio'[t] = Tail(bio[t])
    BY <1>1, <1>2 DEF TypeOK, Request
  <2> DEFINE n == Len(bio[t])
  <2>2. /\ n \in Nat /\ n > 0 /\ DOMAIN bio[t] = 1 .. n
        /\ DOMAIN Tail(bio[t]) = 1 .. n - 1
        /\ \A i \in 1 .. n - 1 : Tail(bio[t])[i] = bio[t][i + 1]
        /\ bio[t][1] = c
    <3>1. /\ Tail(bio[t]) \in Seq(Request) /\ Len(Tail(bio[t])) = n - 1
          /\ \A i \in 1 .. Len(Tail(bio[t])) : Tail(bio[t])[i] = bio[t][i + 1]
      BY <1>2, <2>1, HeadTailProperties
    <3>2. QED
      BY <1>2, <2>1, <3>1
  <2> HIDE DEF n, c
  <2>3. \A i \in 1 .. n : i # 1 => i - 1 \in 1 .. n - 1 /\ (i - 1) + 1 = i
    BY <2>2
  <2>4. \A i \in 1 .. n - 1 : i + 1 \in 1 .. n
    BY <2>2
  <2>5. 1 \in 1 .. n
    BY <2>2
  <2>6. QED
    BY <2>1, <2>2, <2>3, <2>4, <2>5
<1> HIDE DEF c
<1>4. \A s \in Slot : disk'[s] = IF s \in c.dev THEN cache[s] ELSE disk[s]
  BY <1>1, <1>2, <1>3 DEF ClonesCurrent
<1>5. \A s \in Slot : Settled(s) => Settled(s)'
  <2> SUFFICES ASSUME NEW s \in Slot, Settled(s), s \notin c.dev, disk[s] # cache[s]
               PROVE  OnItsWay(s)'
    BY <1>2, <1>4 DEF Settled
  <2>1. CASE \E d \in tracked[t] : s \in d
    BY <1>2, <2>1 DEF OnItsWay
  <2>2. CASE \E i \in DOMAIN bio[t] : s \in bio[t][i].dev
    <3>1. PICK i \in DOMAIN bio[t] : s \in bio[t][i].dev
      BY <2>2
    <3>2. i # 1
      BY <1>3, <3>1
    <3>3. i - 1 \in DOMAIN bio'[t] /\ s \in bio'[t][i - 1].dev
      BY <1>3, <3>1, <3>2
    <3>4. QED
      BY <3>3 DEF OnItsWay
  <2>3. QED
    BY <1>1, <2>1, <2>2 DEF Settled, OnItsWay
<1>6. /\ \A u \in Thread : Todo(u)' = Todo(u)
      /\ \A u \in Thread : ReleasedBy(u)' = ReleasedBy(u)
  BY <1>2 DEF Todo, ReleasedBy, Recorded
<1>7. NothingForgotten' /\ OwnSettled'
  <2>1. \A u \in Thread : \A f \in File :
            (\E i \in DOMAIN Todo(u) : Todo(u)[i].file = f)
            => (\E i \in DOMAIN Todo(u)' : Todo(u)'[i].file = f) \/ Settled(Ino(f))'
    BY <1>6
  <2>2. \A u \in Thread : \A b \in UNION post'[u] :
            b \in UNION post[u] \/ Settled(Bitmap(GroupOf[b]))'
    BY <1>2
  <2>3. QED
    BY <1>1, <1>2, <1>5, <2>1, <2>2, KeepSettled
<1>8. ClonesCurrent'
  <2>1. \A u \in Thread : \A i \in DOMAIN bio'[u] : \A s \in Slot :
            s \in bio'[u][i].dev => bio'[u][i].val[s] = cache'[s]
    BY <1>1, <1>2, <1>3 DEF ClonesCurrent
  <2>2. QED
    BY <2>1 DEF ClonesCurrent, Slot, Bitmap, Desc, Ino, Sb
<1>9. Stages'
  BY <1>1, <1>2 DEF Stages
<1>10. \A f \in File : disk'[Ino(f)].blks \in {disk[Ino(f)].blks, owned[f]}
  <2>1. \A f \in File : cache[Ino(f)].blks = owned[f] /\ Ino(f) \in Slot
    BY <1>2, RootsWritten, Slots
  <2>2. QED
    BY <1>4, <2>1
<1>11. NoReuse'
  <2>1. ASSUME NEW f \in File, NEW b \in disk'[Ino(f)].blks
        PROVE  /\ b \notin free'
               /\ \A h \in File : h # f => b \notin owned'[h]
               /\ \A u \in Thread : b \in ReleasedBy(u)' => f \in using'[u]
    <3>1. CASE b \in disk[Ino(f)].blks
      BY <1>1, <1>2, <1>6, <3>1 DEF NoReuse
    <3>2. CASE b \in owned[f]
      <4>1. b \notin free /\ \A u \in Thread : b \notin ReleasedBy(u)
        BY <1>1, <3>2 DEF OwnershipExclusive, InUse, Releasing
      <4>2. \A h \in File : h # f => b \notin owned[h]
        BY <1>1, <3>2 DEF OwnershipExclusive
      <4>3. QED
        BY <1>2, <1>6, <4>1, <4>2
    <3>3. QED
      BY <1>10, <2>1, <3>1, <3>2
  <2>2. QED
    BY <2>1 DEF NoReuse, Ino
<1>12. DiskNoSharing'
  <2>1. ASSUME NEW f \in File, NEW h \in File, f # h
        PROVE  disk'[Ino(f)].blks \cap disk'[Ino(h)].blks = {}
    <3>1. disk[Ino(f)].blks \cap disk[Ino(h)].blks = {} /\ owned[f] \cap owned[h] = {}
      BY <1>1, <2>1 DEF DiskNoSharing, OwnershipExclusive
    <3>2. disk[Ino(f)].blks \cap owned[h] = {} /\ disk[Ino(h)].blks \cap owned[f] = {}
      BY <1>1, <2>1 DEF NoReuse
    <3>3. QED
      BY <1>10, <3>1, <3>2
  <2>2. QED
    BY <2>1 DEF DiskNoSharing, Ino
<1>13. QED
  BY <1>7, <1>8, <1>9, <1>11, <1>12 DEF DRest

-----------------------------------------------------------------------------
(* The end of a transaction.                                               *)

\* When a postlude runs, the device maps its blocks from no file, and its
\* bitmap has them free.
LEMMA WrittenBefore ==
    ASSUME DInv, OneThread, NEW t \in Thread, pc[t] = "postlude", NEW b \in UNION post[t]
    PROVE  /\ \A f \in File : b \notin disk[Ino(f)].blks
           /\ b \notin disk[Bitmap(GroupOf[b])].blks
           /\ b \in Block
<1>1. /\ TypeOK /\ Stages /\ OwnSettled /\ NoReuse /\ OwnershipExclusive /\ BitsTell
      /\ \A u \in Thread : u = t
  BY DEF DInv, DRest, MInv, IInv, OneThread
<1>2. /\ \A f \in File : cache[Ino(f)].blks = owned[f]
      /\ \A u \in Thread : DOMAIN Todo(u) = {} /\ Recorded(u) = {}
  BY RootsWritten
<1>3. b \in Block /\ GroupOf[b] \in Group
  BY <1>1, ConstantsOK DEF TypeOK
<1>4. b \in ReleasedBy(t) /\ b \notin InUse
  BY <1>1 DEF ReleasedBy, OwnershipExclusive, Releasing
<1>5. \A s : Settled(s) => disk[s] = cache[s]
  BY <1>1 DEF Settled, OnItsWay, Stages
<1>6. ASSUME NEW f \in File, b \in disk[Ino(f)].blks
      PROVE  FALSE
  <2>1. f \in using[t]
    BY <1>1, <1>4, <1>6 DEF NoReuse
  <2>2. Settled(Ino(f))
    BY <1>1, <1>2, <2>1 DEF OwnSettled
  <2>3. b \in owned[f]
    BY <1>2, <1>5, <1>6, <2>2
  <2>4. QED
    BY <1>4, <2>3 DEF InUse
<1>7. b \notin disk[Bitmap(GroupOf[b])].blks
  <2>1. disk[Bitmap(GroupOf[b])] = cache[Bitmap(GroupOf[b])]
    BY <1>1, <1>5 DEF OwnSettled
  <2>2. b \notin cache[Bitmap(GroupOf[b])].blks
    BY <1>1, <1>2, <1>3, <1>4 DEF BitsTell
  <2>3. QED
    BY <2>1, <2>2
<1>8. QED
  BY <1>3, <1>6, <1>7

\* A postlude frees blocks the device no longer maps.
LEMMA PostludeDisk ==
    ASSUME DInv, OneThread, NEW t \in Thread, NEW S \in SUBSET Block, Postlude(t, S)
    PROVE  DRest'
<1>1. /\ TypeOK /\ Stages /\ ClonesCurrent /\ NothingForgotten /\ OwnSettled
      /\ NoReuse /\ DiskNoSharing
  BY DEF DInv, DRest, MInv, IInv
<1>2. /\ pc[t] = "postlude" /\ S \in post[t] /\ free' = free \cup S
      /\ UNCHANGED <<owned, pc, using, events, ops, tracked, bio, cache, disk, failed>>
      /\ \A u \in Thread : post'[u] \subseteq post[u]
  BY <1>1 DEF Postlude, grpVars, TypeOK
<1>3. \A s : Settled(s)' <=> Settled(s)
  BY <1>2, SettledSame
<1>4. /\ \A u \in Thread : Todo(u)' = Todo(u)
      /\ \A u \in Thread : ReleasedBy(u)' \subseteq ReleasedBy(u)
  BY <1>2 DEF Todo, ReleasedBy, Recorded
<1>5. NothingForgotten' /\ OwnSettled'
  <2>1. \A u \in Thread : \A f \in File :
            (\E i \in DOMAIN Todo(u) : Todo(u)[i].file = f)
            => (\E i \in DOMAIN Todo(u)' : Todo(u)'[i].file = f) \/ Settled(Ino(f))'
    BY <1>4
  <2>2. \A u \in Thread : \A b \in UNION post'[u] :
            b \in UNION post[u] \/ Settled(Bitmap(GroupOf[b]))'
    BY <1>2
  <2>3. QED
    BY <1>1, <1>2, <1>3, <2>1, <2>2, KeepSettled
<1>6. Stages' /\ DiskNoSharing'
  BY <1>1, <1>2 DEF Stages, DiskNoSharing, Ino
<1>7. ClonesCurrent'
  BY <1>1, <1>2 DEF ClonesCurrent, Slot, Bitmap, Desc, Ino, Sb
<1>8. NoReuse'
  <2>1. ASSUME NEW f \in File, NEW b \in disk'[Ino(f)].blks
        PROVE  /\ b \notin free'
               /\ \A h \in File : h # f => b \notin owned'[h]
               /\ \A u \in Thread : b \in ReleasedBy(u)' => f \in using'[u]
    <3>1. /\ b \notin free
          /\ \A h \in File : h # f => b \notin owned[h]
          /\ \A u \in Thread : b \in ReleasedBy(u) => f \in using[u]
      BY <1>1, <1>2, <2>1 DEF NoReuse
    <3>2. b \notin S
      <4>1. b \in disk[Ino(f)].blks
        BY <1>2, <2>1
      <4>2. QED
        BY <1>2, <4>1, WrittenBefore
    <3>3. QED
      BY <1>2, <1>4, <3>1, <3>2
  <2>2. QED
    BY <2>1 DEF NoReuse, Ino
<1>9. QED
  BY <1>5, <1>6, <1>7, <1>8 DEF DRest

\* A transaction that ends, well or with a failed write, works on no file and
\* has nothing to return.
LEMMA EndDisk ==
    ASSUME DInv, OneThread, NEW t \in Thread, Finish(t) \/ FailWrite(t)
    PROVE  DRest'
<1>1. /\ TypeOK /\ Stages /\ ClonesCurrent /\ NothingForgotten /\ OwnSettled
      /\ NoReuse /\ DiskNoSharing /\ \A u \in Thread : u = t
  BY DEF DInv, DRest, MInv, IInv, OneThread
<1>2. /\ pc[t] \in {"writeback", "postlude"} /\ pc'[t] = "open"
      /\ using'[t] = {} /\ post'[t] = {}
      /\ tracked'[t] = {} /\ bio'[t] = <<>>
      /\ UNCHANGED <<free, owned, events, ops, tracked, cache, disk>>
      /\ failed' \/ (failed' = failed /\ bio' = bio)
  BY <1>1 DEF Finish, FailWrite, Writing, Stages, TypeOK, memVars, grpVars, colVars
<1>3. Stages' /\ DiskNoSharing'
  BY <1>1, <1>2 DEF Stages, DiskNoSharing, Ino
<1>4. ClonesCurrent'
  BY <1>1, <1>2 DEF ClonesCurrent
<1>5. OwnSettled'
  BY <1>1, <1>2 DEF OwnSettled
<1>6. NothingForgotten'
  <2>1. CASE failed'
    BY <2>1 DEF NothingForgotten
  <2>2. CASE failed' = failed /\ bio' = bio
    <3>1. \A s : Settled(s)' <=> Settled(s)
      BY <1>2, <2>2, SettledSame
    <3>2. QED
      BY <1>1, <2>2, <3>1 DEF NothingForgotten, Slot, Bitmap, Desc, Ino, Sb
  <2>3. QED
    BY <1>2, <2>1, <2>2
<1>7. \A u \in Thread : ReleasedBy(u)' = {}
  <2>1. \A u \in Thread : Recorded(u) = {}
    BY <1>2, RootsWritten
  <2>2. QED
    BY <1>1, <1>2, <2>1 DEF ReleasedBy, Recorded
<1>8. NoReuse'
  <2>1. ASSUME NEW f \in File, NEW b \in disk'[Ino(f)].blks
        PROVE  /\ b \notin free'
               /\ \A h \in File : h # f => b \notin owned'[h]
               /\ \A u \in Thread : b \in ReleasedBy(u)' => f \in using'[u]
    BY <1>1, <1>2, <1>7, <2>1 DEF NoReuse
  <2>2. QED
    BY <2>1 DEF NoReuse, Ino
<1>9. QED
  BY <1>3, <1>4, <1>5, <1>6, <1>8 DEF DRest

\* Going on to the next stage: no clone is left when the last one is reached.
LEMMA StageDisk ==
    ASSUME DInv, OneThread, NEW t \in Thread, Done(t) \/ LockSb(t) \/ Sync(t)
    PROVE  DRest'
<1>1. /\ TypeOK /\ Stages /\ ClonesCurrent /\ NothingForgotten /\ OwnSettled
      /\ NoReuse /\ DiskNoSharing /\ \A u \in Thread : u = t
  BY DEF DInv, DRest, MInv, IInv, OneThread
<1>2. /\ \/ pc[t] \in {"open", "compress"} /\ pc'[t] \in {"compress", "flush"}
         \/ pc'[t] = "postlude" /\ tracked[t] = {} /\ bio[t] = <<>>
      /\ UNCHANGED <<free, owned, using, events, ops, tracked, bio, post, cache, disk, failed>>
  BY <1>1 DEF Done, LockSb, Sync, Writing, TypeOK, memVars, grpVars, colVars
<1>3. \A s : Settled(s)' <=> Settled(s)
  BY <1>2, SettledSame
<1>4. /\ \A u \in Thread : Todo(u)' = Todo(u)
      /\ \A u \in Thread : ReleasedBy(u)' = ReleasedBy(u)
  BY <1>2 DEF Todo, ReleasedBy, Recorded
<1>5. NothingForgotten' /\ OwnSettled'
  <2>1. \A u \in Thread : \A f \in File :
            (\E i \in DOMAIN Todo(u) : Todo(u)[i].file = f)
            => (\E i \in DOMAIN Todo(u)' : Todo(u)'[i].file = f) \/ Settled(Ino(f))'
    BY <1>4
  <2>2. \A u \in Thread : \A b \in UNION post'[u] :
            b \in UNION post[u] \/ Settled(Bitmap(GroupOf[b]))'
    BY <1>2
  <2>3. QED
    BY <1>1, <1>2, <1>3, <2>1, <2>2, KeepSettled
<1>6. Stages'
  BY <1>1, <1>2 DEF Stages
<1>7. ClonesCurrent'
  BY <1>1, <1>2 DEF ClonesCurrent, Slot, Bitmap, Desc, Ino, Sb
<1>8. NoReuse' /\ DiskNoSharing'
  BY <1>1, <1>2, <1>4, DeviceSame
<1>9. QED
  BY <1>5, <1>6, <1>7, <1>8 DEF DRest

-----------------------------------------------------------------------------
(* The theorems.                                                           *)

\* Mounting reads the cache from the device.
LEMMA DInit == Init => DInv
<1> SUFFICES ASSUME Init PROVE DInv
  OBVIOUS
<1>1. MInv
  BY MInit
<1>2. disk = cache /\ \A f \in File : disk[Ino(f)].blks = {}
  BY Slots DEF Init, Mounted
<1>3. /\ Stages /\ ClonesCurrent /\ NothingForgotten
  BY <1>2 DEF Init, Stages, ClonesCurrent, NothingForgotten, Settled
<1>4. OwnSettled /\ NoReuse /\ DiskNoSharing
  BY <1>2 DEF Init, OwnSettled, NoReuse, DiskNoSharing
<1>5. QED
  BY <1>1, <1>3, <1>4 DEF DInv, DRest

\* Every step keeps the inductive invariant, when there is one thread.
LEMMA DStep == OneThread /\ DInv /\ [Next]_vars => DInv'
<1> SUFFICES ASSUME OneThread, DInv, [Next]_vars PROVE DInv'
  OBVIOUS
<1>1. MInv'
  BY MStep DEF DInv, PrivateFiles
<1>2. ASSUME UNCHANGED vars PROVE DRest'
  <2>1. /\ UNCHANGED <<free, owned, using, events, ops, tracked, bio, post, cache, disk,
                       failed, pc>>
        /\ TypeOK /\ DRest
    BY <1>2 DEF vars, memVars, grpVars, colVars, DInv, MInv, IInv
  <2>2. \A s : Settled(s)' <=> Settled(s)
    BY <2>1, SettledSame
  <2>3. /\ \A u \in Thread : Todo(u)' = Todo(u)
        /\ \A u \in Thread : ReleasedBy(u)' = ReleasedBy(u)
    BY <2>1 DEF Todo, ReleasedBy, Recorded
  <2>4. NothingForgotten' /\ OwnSettled'
    <3>1. \A u \in Thread : \A f \in File :
            (\E i \in DOMAIN Todo(u) : Todo(u)[i].file = f)
            => (\E i \in DOMAIN Todo(u)' : Todo(u)'[i].file = f) \/ Settled(Ino(f))'
      BY <2>3
    <3>2. \A u \in Thread : \A b \in UNION post'[u] :
            b \in UNION post[u] \/ Settled(Bitmap(GroupOf[b]))'
      BY <2>1
    <3>3. QED
      BY <2>1, <2>2, <3>1, <3>2, KeepSettled DEF DRest
  <2>5. Stages'
    BY <2>1 DEF DRest, Stages
  <2>6. ClonesCurrent'
    BY <2>1 DEF DRest, ClonesCurrent, Slot, Bitmap, Desc, Ino, Sb
  <2>7. NoReuse' /\ DiskNoSharing'
    BY <2>1, <2>3, DeviceSame DEF DRest
  <2>8. QED
    BY <2>4, <2>5, <2>6, <2>7 DEF DRest
<1>3. ASSUME NEW t \in Thread, FileOp(t) PROVE DRest'
  BY <1>3, ExtendDisk, TruncateDisk DEF FileOp
<1>4. ASSUME NEW t \in Thread, Commit(t) PROVE DRest'
  BY <1>4, CompressDisk, StageDisk, FlushDisk, SnapshotDisk, WriteDisk, PostludeDisk, EndDisk
     DEF Commit
<1>5. ASSUME NEW t \in Thread, Done(t) \/ FailWrite(t) PROVE DRest'
  BY <1>5, StageDisk, EndDisk
<1>6. DRest'
  BY <1>2, <1>3, <1>4, <1>5 DEF Next
<1>7. QED
  BY <1>1, <1>6 DEF DInv

\* With one thread, done has made every change permanent when it returns
\* without an error, for any blocks, files and groups.
THEOREM Durable == OneThread => (Spec => []DurableWhenIdle)
<1>1. DInv => DurableWhenIdle
  <2> SUFFICES ASSUME DInv, Idle, ~failed PROVE disk = cache
    BY DEF DurableWhenIdle
  <2>1. TypeOK /\ Stages /\ NothingForgotten
    BY DEF DInv, DRest, MInv, IInv
  <2>2. \A s \in Slot : disk[s] = cache[s]
    BY <2>1 DEF NothingForgotten, Settled, OnItsWay, Stages, Idle
  <2>3. QED
    BY <2>1, <2>2 DEF TypeOK
<1> SUFFICES ASSUME OneThread PROVE Spec => []DurableWhenIdle
  OBVIOUS
<1>2. DInv /\ [Next]_vars => DInv'
  BY DStep
<1>3. QED
  BY <1>1, <1>2, DInit, PTL DEF Spec

\* With one thread, no two files on the device ever map one block, between any
\* two writes and after any failure, so a crash there leaves no shared block.
THEOREM NoSharingOnDisk == OneThread => (Spec => []DiskNoSharing)
<1>1. DInv => DiskNoSharing
  BY DEF DInv, DRest
<1> SUFFICES ASSUME OneThread PROVE Spec => []DiskNoSharing
  OBVIOUS
<1>2. DInv /\ [Next]_vars => DInv'
  BY DStep
<1>3. QED
  BY <1>1, <1>2, DInit, PTL DEF Spec

\* With one thread, the postludes return a block to the buddies only once the
\* device maps it from no file and has it free in its bitmap, also after
\* earlier failures.
THEOREM ReusedLate == OneThread => (Spec => ReuseAfterWriteback)
<1> SUFFICES ASSUME OneThread PROVE Spec => ReuseAfterWriteback
  OBVIOUS
<1> DEFINE Reuse == \A b \in free' \ free :
                        /\ \A f \in File : b \notin disk[Ino(f)].blks
                        /\ b \notin disk[Bitmap(GroupOf[b])].blks
<1>1. ASSUME DInv, [Next]_vars PROVE Reuse
  <2>1. ASSUME NEW t \in Thread, NEW S \in SUBSET Block, Postlude(t, S)
        PROVE  Reuse
    <3>1. pc[t] = "postlude" /\ S \in post[t] /\ free' = free \cup S
      BY <2>1 DEF Postlude
    <3>2. QED
      BY <1>1, <3>1, WrittenBefore
  <2>2. ASSUME NEW t \in Thread, FileOp(t) \/ Done(t) \/ FailWrite(t)
        PROVE  free' \subseteq free
    BY <2>2 DEF FileOp, Extend, Truncate, Done, FailWrite, memVars
  <2>3. ASSUME NEW t \in Thread, Commit(t), ~\E S \in SUBSET Block : Postlude(t, S)
        PROVE  free' = free
    BY <2>3 DEF Commit, Compress, LockSb, SubmitBlockGroup, SubmitInodeOp, SubmitSb,
                Snapshot, WriteBio, Sync, Finish, memVars
  <2>4. CASE UNCHANGED vars
    BY <2>4 DEF vars, memVars
  <2>5. QED
    BY <1>1, <2>1, <2>2, <2>3, <2>4 DEF Next
<1>2. DInv /\ [Next]_vars => [Reuse]_vars
  BY <1>1
<1>3. DInv /\ [Next]_vars => DInv'
  BY DStep
<1> HIDE DEF Reuse
<1>4. Spec => [][Reuse]_vars
  BY <1>2, <1>3, DInit, PTL DEF Spec
<1>5. QED
  BY <1>4 DEF ReuseAfterWriteback, Reuse
=============================================================================
