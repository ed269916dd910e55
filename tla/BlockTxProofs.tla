---------------------------- MODULE BlockTxProofs ----------------------------
(***************************************************************************)
(* Proofs about BlockTx, for any threads, blocks, files and groups, shared *)
(* or exclusive files, and failing writes: types, who has which block, and *)
(* that BlockTx implements BlockOwnership, in which a block goes from free *)
(* to a file, from there to being released, to free again, and no other    *)
(* way.                                                                    *)
(***************************************************************************)
EXTENDS BlockTx, FiniteSetTheorems, SequenceTheorems, TLAPS

-----------------------------------------------------------------------------
(* Facts about the metadata.                                               *)

\* A set of blocks has a number of blocks: free blocks can be counted.
LEMMA CardinalityInt ==
    ASSUME NEW S \in SUBSET Block
    PROVE  Cardinality(S) \in Int
BY ConstantsOK, FS_Subset, FS_CardinalityType

\* Each piece of metadata is a slot.
LEMMA Slots ==
    /\ \A g \in Group : Bitmap(g) \in Slot /\ Desc(g) \in Slot
    /\ \A f \in File : Ino(f) \in Slot
    /\ Sb \in Slot
BY DEF Slot

\* The device blocks that transactions track are device blocks.
LEMMA TrackedBlocks ==
    /\ \A g \in Group : {Bitmap(g)} \in DeviceBlocks /\ DeviceBlock(Desc(g)) \in DeviceBlocks
    /\ \A f \in File : DeviceBlock(Ino(f)) \in DeviceBlocks
    /\ {Sb} \in DeviceBlocks
<1>1. ASSUME NEW g \in Group
      PROVE  {Bitmap(g)} = DeviceBlock(Bitmap(g))
  BY DEF Bitmap, DeviceBlock
<1>2. {Sb} = DeviceBlock(Sb)
  BY DEF Sb, DeviceBlock
<1>3. \A s \in Slot : DeviceBlock(s) \in DeviceBlocks
  BY DEF DeviceBlocks
<1>4. QED
  BY <1>1, <1>2, <1>3, Slots

\* Mounting gives every slot a content.
LEMMA MountedType == Mounted \in [Slot -> Content]
<1>1. ASSUME NEW s \in Slot
      PROVE  Mounted[s] \in Content
  <2>1. CASE s[1] = "desc"
    <3>1. BlocksOf(s[2]) \in SUBSET Block
      BY DEF BlocksOf
    <3>2. QED
      BY <2>1, <3>1, CardinalityInt DEF Mounted, Content
  <2>2. CASE s[1] = "sb"
    BY <2>2, CardinalityInt DEF Mounted, Content
  <2>3. CASE s[1] # "desc" /\ s[1] # "sb"
    BY <2>3 DEF Mounted, Content
  <2>4. QED
    BY <2>1, <2>2, <2>3
<1>2. QED
  BY <1>1 DEF Mounted

\* A clone is a request that write_bios takes.
LEMMA CloneType ==
    ASSUME TypeOK, NEW d \in DeviceBlocks
    PROVE  Clone(d) \in [dev : DeviceBlocks, val : [Slot -> Content]]
<1>1. ASSUME NEW s \in Slot
      PROVE  (IF s \in d THEN cache[s] ELSE [blks |-> {}, n |-> 0]) \in Content
  BY DEF TypeOK, Content
<1>2. QED
  BY <1>1 DEF Clone

\* A content may change its set and its number.
LEMMA ContentType ==
    ASSUME NEW c \in Content, NEW bits \in SUBSET Block, NEW n \in Int
    PROVE  [c EXCEPT !.blks = bits] \in Content /\ [c EXCEPT !.n = n] \in Content
BY DEF Content

\* An inode stays an inode, whatever operation is applied to it.
LEMMA AfterOpType ==
    ASSUME NEW inode \in Content, NEW e \in Event
    PROVE  AfterOp(inode, e) \in Content
<1>1. /\ e.blks \in SUBSET Block /\ e.kind \in {"alloc", "dealloc", "size"}
      /\ Cardinality(e.blks) \in Int
      /\ inode.blks \in SUBSET Block /\ inode.n \in Int
      /\ IBlocksMod \in Nat \ {0}
  BY CardinalityInt, ConstantsOK DEF Event, Content
<1>2. /\ (inode.n + Cardinality(e.blks)) % IBlocksMod \in Int
      /\ (inode.n - 1) % IBlocksMod \in Int
  BY <1>1
<1>3. CASE e.kind = "alloc"
  BY <1>1, <1>2, <1>3 DEF AfterOp, Content
<1>4. CASE e.kind = "dealloc"
  BY <1>1, <1>2, <1>4 DEF AfterOp, Content
<1>5. CASE e.kind = "size"
  BY <1>1, <1>5 DEF AfterOp, Content
<1>6. QED
  BY <1>1, <1>3, <1>4, <1>5

-----------------------------------------------------------------------------
(* Type correctness.                                                       *)

\* The initial state is well typed.
LEMMA TypeInit == Init => TypeOK
<1>1. ASSUME NEW g \in Group
      PROVE  Cardinality(BlocksOf(g)) \in Int
  BY CardinalityInt DEF BlocksOf
<1> SUFFICES ASSUME Init PROVE TypeOK
  OBVIOUS
<1>2. memFree \in [Group -> Int]
  BY <1>1 DEF Init
<1>3. /\ events \in [Thread -> Seq(Event)]
      /\ ops \in [Thread -> Seq(Event)]
      /\ bio \in [Thread -> Seq([dev : DeviceBlocks, val : [Slot -> Content]])]
  BY DEF Init
<1>4. /\ delta \in [Thread -> [Group -> Int]] /\ sbDelta \in [Thread -> Int]
      /\ cache \in [Slot -> Content] /\ disk \in [Slot -> Content]
  BY MountedType DEF Init
<1>5. /\ free \subseteq Block /\ owned \in [File -> SUBSET Block]
      /\ pc \in [Thread -> {"open", "compress", "flush", "writeback", "postlude"}]
      /\ using \in [Thread -> SUBSET File]
      /\ tracked \in [Thread -> SUBSET DeviceBlocks]
      /\ post \in [Thread -> SUBSET SUBSET Block]
      /\ sbLock \in Thread \cup {NoThread} /\ failed \in BOOLEAN
  BY DEF Init
<1>6. QED
  BY <1>2, <1>3, <1>4, <1>5 DEF TypeOK

\* Recording an operation adds two events to the transaction.
LEMMA RecordType ==
    ASSUME TypeOK, NEW t \in Thread, NEW f \in File, NEW e \in Event,
           NEW map \in SUBSET Block, Record(t, f, e, map)
    PROVE  /\ owned' \in [File -> SUBSET Block]
           /\ using' \in [Thread -> SUBSET File]
           /\ events' \in [Thread -> Seq(Event)]
<1>1. [e EXCEPT !.kind = "size", !.blks = map] \in Event
  BY DEF Event
<1>2. <<e, [e EXCEPT !.kind = "size", !.blks = map]>> \in Seq(Event)
  BY <1>1
<1>3. events[t] \o <<e, [e EXCEPT !.kind = "size", !.blks = map]>> \in Seq(Event)
  BY <1>2 DEF TypeOK
<1>4. QED
  BY <1>3 DEF TypeOK, Record

\* The file operations keep the types.
LEMMA FileOpType ==
    ASSUME TypeOK, NEW t \in Thread, FileOp(t)
    PROVE  TypeOK'
<1>1. PICK f \in File, S \in SUBSET Block :
        (\E lost \in SUBSET Block : Extend(t, f, S, lost)) \/ Truncate(t, f, S)
  BY DEF FileOp
<1>2. Cardinality(S) \in Int
  BY CardinalityInt
<1>3. CASE \E lost \in SUBSET Block : Extend(t, f, S, lost)
  <2>1. PICK lost \in SUBSET Block, g \in Group :
          /\ free' = free \ (S \cup lost)
          /\ memFree' = [memFree EXCEPT ![g] = @ - Cardinality(S)]
          /\ Record(t, f, [kind |-> "alloc", file |-> f, grp |-> g, blks |-> S],
                    owned[f] \cup S)
          /\ UNCHANGED <<pc, grpVars, colVars, sbLock, cache, disk, failed>>
    BY <1>3 DEF Extend
  <2>2. [kind |-> "alloc", file |-> f, grp |-> g, blks |-> S] \in Event
    BY DEF Event
  <2>3. owned[f] \cup S \in SUBSET Block
    BY DEF TypeOK
  <2>4. /\ owned' \in [File -> SUBSET Block]
        /\ using' \in [Thread -> SUBSET File]
        /\ events' \in [Thread -> Seq(Event)]
    BY <2>1, <2>2, <2>3, RecordType
  <2>5. memFree' \in [Group -> Int] /\ free' \subseteq Block
    BY <1>2, <2>1 DEF TypeOK
  <2>6. QED
    BY <2>1, <2>4, <2>5 DEF TypeOK, grpVars, colVars
<1>4. CASE Truncate(t, f, S)
  <2>1. PICK g \in Group :
          /\ Record(t, f, [kind |-> "dealloc", file |-> f, grp |-> g, blks |-> S],
                    owned[f] \ S)
          /\ UNCHANGED <<free, memFree, pc, grpVars, colVars, sbLock, cache, disk,
                         failed>>
    BY <1>4 DEF Truncate
  <2>2. [kind |-> "dealloc", file |-> f, grp |-> g, blks |-> S] \in Event
    BY DEF Event
  <2>3. owned[f] \ S \in SUBSET Block
    BY DEF TypeOK
  <2>4. /\ owned' \in [File -> SUBSET Block]
        /\ using' \in [Thread -> SUBSET File]
        /\ events' \in [Thread -> Seq(Event)]
    BY <2>1, <2>2, <2>3, RecordType
  <2>5. QED
    BY <2>1, <2>4 DEF TypeOK, grpVars, colVars
<1>5. QED
  BY <1>1, <1>3, <1>4

\* compress keeps the types, whichever event it applies.
LEMMA CompressType ==
    ASSUME TypeOK, NEW t \in Thread, Compress(t)
    PROVE  TypeOK'
<1> DEFINE e == Head(events[t])
<1>1. /\ e \in Event
      /\ Tail(events[t]) \in Seq(Event)
      /\ Append(ops[t], e) \in Seq(Event)
  BY DEF TypeOK, Compress
<1>2. /\ e.blks \in SUBSET Block /\ e.grp \in Group
      /\ Cardinality(e.blks) \in Int
      /\ Bitmap(e.grp) \in Slot /\ {Bitmap(e.grp)} \in DeviceBlocks
  BY <1>1, CardinalityInt, Slots, TrackedBlocks DEF Event
<1>3. /\ ops' \in [Thread -> Seq(Event)] /\ events' \in [Thread -> Seq(Event)]
  BY <1>1 DEF TypeOK, Compress
<1>4. ASSUME NEW bits \in SUBSET Block, NEW n \in Int, Apply(t, e, bits, n)
      PROVE  /\ cache' \in [Slot -> Content] /\ delta' \in [Thread -> [Group -> Int]]
             /\ sbDelta' \in [Thread -> Int] /\ tracked' \in [Thread -> SUBSET DeviceBlocks]
  <2>1. cache' \in [Slot -> Content]
    <3>1. [cache[Bitmap(e.grp)] EXCEPT !.blks = bits] \in Content
      BY <1>2, ContentType DEF TypeOK
    <3>2. cache' = [cache EXCEPT ![Bitmap(e.grp)] =
                        [cache[Bitmap(e.grp)] EXCEPT !.blks = bits]]
      BY <1>2, <1>4 DEF TypeOK, Apply
    <3>3. QED
      BY <1>2, <3>1, <3>2 DEF TypeOK
  <2>2. delta' \in [Thread -> [Group -> Int]] /\ sbDelta' \in [Thread -> Int]
    BY <1>2, <1>4 DEF TypeOK, Apply
  <2>3. tracked' \in [Thread -> SUBSET DeviceBlocks]
    BY <1>2, <1>4 DEF TypeOK, Apply
  <2>4. QED
    BY <2>1, <2>2, <2>3
<1>5. cache[Bitmap(e.grp)].blks \in SUBSET Block
  BY <1>2 DEF TypeOK, Content
<1>6. /\ cache' \in [Slot -> Content] /\ delta' \in [Thread -> [Group -> Int]]
      /\ sbDelta' \in [Thread -> Int] /\ tracked' \in [Thread -> SUBSET DeviceBlocks]
      /\ post' \in [Thread -> SUBSET SUBSET Block]
  <2>1. CASE CompressAlloc(t, e)
    <3>1. /\ cache[Bitmap(e.grp)].blks \cup e.blks \in SUBSET Block
          /\ -Cardinality(e.blks) \in Int
      BY <1>2, <1>5
    <3>2. /\ Apply(t, e, cache[Bitmap(e.grp)].blks \cup e.blks, -Cardinality(e.blks))
          /\ UNCHANGED post
      BY <2>1 DEF CompressAlloc
    <3>3. QED
      BY <1>4, <3>1, <3>2 DEF TypeOK
  <2>2. CASE CompressDealloc(t, e)
    <3>1. /\ cache[Bitmap(e.grp)].blks \ e.blks \in SUBSET Block
          /\ Cardinality(e.blks) \in Int
      BY <1>2, <1>5
    <3>2. /\ Apply(t, e, cache[Bitmap(e.grp)].blks \ e.blks, Cardinality(e.blks))
          /\ post' = [post EXCEPT ![t] = @ \cup {e.blks}]
      BY <2>2 DEF CompressDealloc
    <3>3. post' \in [Thread -> SUBSET SUBSET Block]
      BY <1>2, <3>2 DEF TypeOK
    <3>4. QED
      BY <1>4, <3>1, <3>2, <3>3
  <2>3. CASE CompressSize(t, e)
    BY <2>3 DEF CompressSize, TypeOK
  <2>4. QED
    BY <2>1, <2>2, <2>3 DEF Compress
<1>7. QED
  BY <1>3, <1>6 DEF Compress, TypeOK, memVars

\* Deltas and inode operations are applied to what the types allow.
LEMMA FlushType ==
    ASSUME TypeOK, NEW t \in Thread,
           \/ LockSb(t)
           \/ \E g \in Group : SubmitBlockGroup(t, g)
           \/ SubmitInodeOp(t)
           \/ SubmitSb(t)
    PROVE  TypeOK'
<1>1. CASE LockSb(t)
  BY <1>1 DEF LockSb, TypeOK, memVars, grpVars, colVars
<1>2. ASSUME NEW g \in Group, SubmitBlockGroup(t, g)
      PROVE  TypeOK'
  <2>1. /\ Desc(g) \in Slot /\ DeviceBlock(Desc(g)) \in DeviceBlocks
        /\ cache[Desc(g)] \in Content /\ delta[t][g] \in Int
    BY Slots, TrackedBlocks DEF TypeOK
  <2>2. cache[Desc(g)].n + delta[t][g] \in Int
    BY <2>1 DEF Content
  <2>3. [cache[Desc(g)] EXCEPT !.n = @ + delta[t][g]] \in Content
    BY <2>1, <2>2 DEF Content
  <2>4. cache' \in [Slot -> Content]
    BY <1>2, <2>1, <2>3 DEF SubmitBlockGroup, TypeOK
  <2>5. /\ delta' \in [Thread -> [Group -> Int]]
        /\ tracked' \in [Thread -> SUBSET DeviceBlocks]
    BY <1>2, <2>1 DEF SubmitBlockGroup, TypeOK
  <2>6. QED
    BY <1>2, <2>4, <2>5 DEF SubmitBlockGroup, TypeOK, memVars
<1>3. CASE SubmitInodeOp(t)
  <2> DEFINE e == Head(ops[t])
  <2>1. e \in Event /\ Tail(ops[t]) \in Seq(Event)
    BY <1>3 DEF SubmitInodeOp, TypeOK
  <2>2. e.file \in File
    BY <2>1 DEF Event
  <2>3. /\ Ino(e.file) \in Slot /\ DeviceBlock(Ino(e.file)) \in DeviceBlocks
        /\ AfterOp(cache[Ino(e.file)], e) \in Content
    BY <2>1, <2>2, Slots, TrackedBlocks, AfterOpType DEF TypeOK
  <2>4. /\ cache' \in [Slot -> Content]
        /\ tracked' \in [Thread -> SUBSET DeviceBlocks]
    BY <1>3, <2>3 DEF SubmitInodeOp, TypeOK
  <2>5. ops' \in [Thread -> Seq(Event)]
    BY <1>3, <2>1 DEF SubmitInodeOp, TypeOK
  <2>6. QED
    BY <1>3, <2>4, <2>5 DEF SubmitInodeOp, TypeOK, memVars
<1>4. CASE SubmitSb(t)
  <2>1. Sb \in Slot /\ {Sb} \in DeviceBlocks /\ cache[Sb] \in Content /\ sbDelta[t] \in Int
    BY Slots, TrackedBlocks DEF TypeOK
  <2>2. [cache[Sb] EXCEPT !.n = @ + sbDelta[t]] \in Content
    BY <2>1 DEF Content
  <2>3. cache' \in [Slot -> Content]
    BY <1>4, <2>1, <2>2 DEF SubmitSb, TypeOK
  <2>4. /\ sbDelta' \in [Thread -> Int]
        /\ tracked' \in [Thread -> SUBSET DeviceBlocks]
    <3>1. sbDelta' = [sbDelta EXCEPT ![t] = 0]
      BY <1>4 DEF SubmitSb
    <3>2. tracked' = [tracked EXCEPT ![t] = @ \cup {{Sb}}]
      BY <1>4 DEF SubmitSb
    <3>3. sbDelta' \in [Thread -> Int]
      BY <3>1 DEF TypeOK
    <3>4. tracked' \in [Thread -> SUBSET DeviceBlocks]
      BY <2>1, <3>2 DEF TypeOK
    <3>5. QED
      BY <3>3, <3>4
  <2>5. QED
    BY <1>4, <2>3, <2>4 DEF SubmitSb, TypeOK, memVars
<1>5. QED
  BY <1>1, <1>2, <1>3, <1>4

\* Cloning, writing and the postludes keep the types.
LEMMA WritebackType ==
    ASSUME TypeOK, NEW t \in Thread,
           \/ \E d \in DeviceBlocks : Snapshot(t, d)
           \/ WriteBio(t)
           \/ FailWrite(t)
           \/ Sync(t)
           \/ \E S \in SUBSET Block : Postlude(t, S)
           \/ Finish(t)
    PROVE  TypeOK'
<1> DEFINE Request == [dev : DeviceBlocks, val : [Slot -> Content]]
<1>1. ASSUME NEW d \in DeviceBlocks, Snapshot(t, d)
      PROVE  TypeOK'
  <2>1. Clone(d) \in Request
    BY CloneType
  <2>2. Append(bio[t], Clone(d)) \in Seq(Request)
    <3> HIDE DEF Request
    <3>1. bio[t] \in Seq(Request)
      BY DEF TypeOK, Request
    <3>2. QED
      BY <2>1, <3>1
  <2>3. bio' \in [Thread -> Seq(Request)]
    BY <1>1, <2>2 DEF Snapshot, TypeOK
  <2>4. tracked' \in [Thread -> SUBSET DeviceBlocks]
    BY <1>1 DEF Snapshot, TypeOK
  <2>5. QED
    BY <1>1, <2>3, <2>4 DEF Snapshot, TypeOK, memVars, grpVars
<1>2. CASE WriteBio(t)
  <2>1. Head(bio[t]) \in Request /\ Tail(bio[t]) \in Seq(Request)
    <3> HIDE DEF Request
    <3>1. bio[t] \in Seq(Request) /\ bio[t] # <<>>
      BY <1>2 DEF WriteBio, Writing, TypeOK, Request
    <3>2. QED
      BY <3>1
  <2>2. Head(bio[t]).val \in [Slot -> Content]
    BY <2>1
  <2>3. disk' \in [Slot -> Content]
    BY <1>2, <2>2 DEF WriteBio, TypeOK
  <2>4. bio' \in [Thread -> Seq(Request)]
    BY <1>2, <2>1 DEF WriteBio, TypeOK
  <2>5. QED
    BY <1>2, <2>3, <2>4 DEF WriteBio, TypeOK, memVars, grpVars
<1>3. CASE FailWrite(t)
  <2>1. bio' \in [Thread -> Seq(Request)]
    <3>1. bio' = [bio EXCEPT ![t] = <<>>]
      BY <1>3 DEF FailWrite
    <3>2. bio \in [Thread -> Seq(Request)]
      BY DEF TypeOK
    <3> HIDE DEF Request
    <3>3. QED
      BY <3>1, <3>2
  <2>2. QED
    BY <1>3, <2>1 DEF FailWrite, TypeOK, memVars, grpVars
<1>4. ASSUME NEW S \in SUBSET Block, Postlude(t, S)
      PROVE  TypeOK'
  <2>1. \A g \in Group : memFree[g] + Cardinality(S \cap BlocksOf(g)) \in Int
    <3>1. ASSUME NEW g \in Group
          PROVE  Cardinality(S \cap BlocksOf(g)) \in Int
      BY CardinalityInt
    <3>2. \A g \in Group : memFree[g] \in Int
      BY DEF TypeOK
    <3>3. QED
      BY <3>1, <3>2
  <2>2. memFree' \in [Group -> Int]
    BY <1>4, <2>1 DEF Postlude
  <2>3. free' \subseteq Block /\ post' \in [Thread -> SUBSET SUBSET Block]
    BY <1>4 DEF Postlude, TypeOK
  <2>4. QED
    BY <1>4, <2>2, <2>3 DEF Postlude, TypeOK, grpVars
<1>5. CASE Sync(t) \/ Finish(t)
  BY <1>5 DEF Sync, Finish, TypeOK, memVars, grpVars, colVars
<1>6. QED
  BY <1>1, <1>2, <1>3, <1>4, <1>5

\* Every step keeps the types.
LEMMA TypeStep == TypeOK /\ [Next]_vars => TypeOK'
<1> SUFFICES ASSUME TypeOK, [Next]_vars PROVE TypeOK'
  OBVIOUS
<1>1. CASE UNCHANGED vars
  BY <1>1 DEF vars, memVars, grpVars, colVars, TypeOK
<1>2. ASSUME NEW t \in Thread, FileOp(t) PROVE TypeOK'
  BY <1>2, FileOpType
<1>3. ASSUME NEW t \in Thread, Done(t) PROVE TypeOK'
  BY <1>3 DEF Done, TypeOK, memVars, grpVars, colVars
<1>4. ASSUME NEW t \in Thread, Commit(t) PROVE TypeOK'
  BY <1>4, CompressType, FlushType, WritebackType DEF Commit
<1>5. ASSUME NEW t \in Thread, FailWrite(t) PROVE TypeOK'
  BY <1>5, WritebackType
<1>6. QED
  BY <1>1, <1>2, <1>3, <1>4, <1>5 DEF Next

\* The variables always have their types, for all threads, blocks and files.
THEOREM TypeCorrect == Spec => []TypeOK
BY TypeInit, TypeStep, PTL DEF Spec

-----------------------------------------------------------------------------
(* The stages of a transaction.                                            *)

\* Operations on files, done and compress leave the stages in order.
LEMMA EarlyStages ==
    ASSUME TypeOK, WorkedOff, NEW t \in Thread, FileOp(t) \/ Done(t) \/ Compress(t)
    PROVE  WorkedOff'
<1>1. CASE FileOp(t)
  <2>1. UNCHANGED <<pc, sbLock, ops, delta, sbDelta, bio, tracked, post>>
    BY <1>1 DEF FileOp, Extend, Truncate, grpVars, colVars
  <2>2. QED
    BY <2>1 DEF WorkedOff
<1>2. CASE Done(t)
  <2>1. /\ pc[t] = "open" /\ pc' = [pc EXCEPT ![t] = "compress"]
        /\ UNCHANGED <<sbLock, ops, delta, sbDelta, bio, tracked, post>>
    BY <1>2 DEF Done, grpVars, colVars
  <2>2. QED
    BY <2>1 DEF WorkedOff, TypeOK
<1>3. CASE Compress(t)
  <2>1. /\ pc[t] = "compress"
        /\ UNCHANGED <<pc, sbLock, bio>>
        /\ ops' = [ops EXCEPT ![t] = Append(@, Head(events[t]))]
    BY <1>3 DEF Compress
  <2>2. \A u \in Thread : u # t =>
           /\ delta'[u] = delta[u] /\ sbDelta'[u] = sbDelta[u] /\ tracked'[u] = tracked[u]
           /\ post'[u] = post[u] /\ ops'[u] = ops[u]
    BY <1>3, <2>1 DEF Compress, CompressAlloc, CompressDealloc, CompressSize, Apply, TypeOK
  <2>3. QED
    BY <2>1, <2>2 DEF WorkedOff
<1>4. QED
  BY <1>1, <1>2, <1>3

\* Flush works off the group under the lock of the superblock.
LEMMA FlushStages ==
    ASSUME TypeOK, WorkedOff, NEW t \in Thread,
           LockSb(t) \/ (\E g \in Group : SubmitBlockGroup(t, g)) \/ SubmitInodeOp(t) \/ SubmitSb(t)
    PROVE  WorkedOff'
<1>1. CASE LockSb(t)
  <2>1. /\ pc[t] = "compress" /\ pc' = [pc EXCEPT ![t] = "flush"]
        /\ sbLock = NoThread /\ sbLock' = t
        /\ UNCHANGED <<ops, delta, sbDelta, bio, tracked, post>>
    BY <1>1 DEF LockSb, grpVars, colVars
  <2>2. QED
    BY <2>1, ConstantsOK DEF WorkedOff, TypeOK
<1>2. ASSUME NEW g \in Group, SubmitBlockGroup(t, g)
      PROVE  WorkedOff'
  <2>1. /\ pc[t] = "flush"
        /\ delta' = [delta EXCEPT ![t][g] = 0]
        /\ tracked' = [tracked EXCEPT ![t] = @ \cup {DeviceBlock(Desc(g))}]
        /\ UNCHANGED <<pc, sbLock, ops, sbDelta, bio, post>>
    BY <1>2 DEF SubmitBlockGroup
  <2>2. QED
    BY <2>1 DEF WorkedOff, TypeOK
<1>3. CASE SubmitInodeOp(t)
  <2>1. /\ pc[t] = "flush"
        /\ ops' = [ops EXCEPT ![t] = Tail(@)]
        /\ tracked' = [tracked EXCEPT ![t] = @ \cup {DeviceBlock(Ino(Head(ops[t]).file))}]
        /\ UNCHANGED <<pc, sbLock, delta, sbDelta, bio, post>>
    BY <1>3 DEF SubmitInodeOp
  <2>2. \A u \in Thread : u # t => ops'[u] = ops[u] /\ tracked'[u] = tracked[u]
    BY <2>1 DEF TypeOK
  <2>3. QED
    BY <2>1, <2>2 DEF WorkedOff
<1>4. CASE SubmitSb(t)
  <2>1. /\ pc[t] = "flush" /\ pc' = [pc EXCEPT ![t] = "writeback"]
        /\ ops[t] = <<>> /\ (\A g \in Group : delta[t][g] = 0)
        /\ sbDelta' = [sbDelta EXCEPT ![t] = 0] /\ sbLock' = NoThread
        /\ tracked' = [tracked EXCEPT ![t] = @ \cup {{Sb}}]
        /\ UNCHANGED <<ops, delta, bio, post>>
    BY <1>4 DEF SubmitSb
  <2>2. \A u \in Thread : sbLock' # u
    BY <2>1, ConstantsOK
  <2>3. \A u \in Thread : u # t => /\ pc'[u] = pc[u] /\ sbDelta'[u] = sbDelta[u]
                                    /\ tracked'[u] = tracked[u] /\ pc[u] # "flush"
    BY <2>1 DEF TypeOK, WorkedOff
  <2>4. pc'[t] = "writeback" /\ sbDelta'[t] = 0
    BY <2>1 DEF TypeOK
  <2>5. QED
    BY <2>1, <2>2, <2>3, <2>4 DEF WorkedOff
<1>5. QED
  BY <1>1, <1>2, <1>3, <1>4

\* The write-back works off the collector, also when it fails.
LEMMA LateStages ==
    ASSUME TypeOK, WorkedOff, NEW t \in Thread,
           \/ \E d \in DeviceBlocks : Snapshot(t, d)
           \/ WriteBio(t) \/ FailWrite(t) \/ Sync(t) \/ Finish(t)
           \/ \E S \in SUBSET Block : Postlude(t, S)
    PROVE  WorkedOff'
<1>1. ASSUME NEW d \in DeviceBlocks, Snapshot(t, d)
      PROVE  WorkedOff'
  <2>1. /\ pc[t] = "writeback"
        /\ bio' = [bio EXCEPT ![t] = Append(@, Clone(d))]
        /\ tracked' = [tracked EXCEPT ![t] = @ \ {d}]
        /\ UNCHANGED <<pc, sbLock, ops, delta, sbDelta, post>>
    BY <1>1 DEF Snapshot, grpVars
  <2>2. \A u \in Thread : u # t => bio'[u] = bio[u] /\ tracked'[u] = tracked[u]
    BY <2>1 DEF TypeOK
  <2>3. QED
    BY <2>1, <2>2 DEF WorkedOff
<1>2. CASE WriteBio(t)
  <2>1. /\ pc[t] = "writeback"
        /\ bio' = [bio EXCEPT ![t] = Tail(@)]
        /\ UNCHANGED <<pc, sbLock, ops, delta, sbDelta, tracked, post>>
    BY <1>2 DEF WriteBio, Writing, grpVars
  <2>2. \A u \in Thread : u # t => bio'[u] = bio[u]
    BY <2>1 DEF TypeOK
  <2>3. QED
    BY <2>1, <2>2 DEF WorkedOff
<1>3. CASE FailWrite(t)
  <2>1. /\ pc[t] = "writeback" /\ tracked[t] = {} /\ pc' = [pc EXCEPT ![t] = "open"]
        /\ bio' = [bio EXCEPT ![t] = <<>>] /\ post' = [post EXCEPT ![t] = {}]
        /\ UNCHANGED <<sbLock, ops, delta, sbDelta, tracked>>
    BY <1>3 DEF FailWrite, Writing, grpVars
  <2>2. \A u \in Thread : u # t => bio'[u] = bio[u] /\ post'[u] = post[u] /\ pc'[u] = pc[u]
    BY <2>1 DEF TypeOK
  <2>3. pc'[t] = "open" /\ bio'[t] = <<>> /\ post'[t] = {}
    BY <2>1 DEF TypeOK
  <2>4. QED
    BY <2>1, <2>2, <2>3 DEF WorkedOff
<1>4. CASE Sync(t)
  <2>1. /\ pc[t] = "writeback" /\ tracked[t] = {} /\ bio[t] = <<>>
        /\ pc' = [pc EXCEPT ![t] = "postlude"]
        /\ UNCHANGED <<sbLock, ops, delta, sbDelta, bio, tracked, post>>
    BY <1>4 DEF Sync, Writing, grpVars, colVars
  <2>2. QED
    BY <2>1 DEF WorkedOff, TypeOK
<1>5. CASE Finish(t)
  <2>1. /\ pc[t] = "postlude" /\ post[t] = {} /\ pc' = [pc EXCEPT ![t] = "open"]
        /\ UNCHANGED <<sbLock, ops, delta, sbDelta, bio, tracked, post>>
    BY <1>5 DEF Finish, grpVars, colVars
  <2>2. QED
    BY <2>1 DEF WorkedOff, TypeOK
<1>6. ASSUME NEW S \in SUBSET Block, Postlude(t, S)
      PROVE  WorkedOff'
  <2>1. /\ pc[t] = "postlude" /\ post' = [post EXCEPT ![t] = @ \ {S}]
        /\ UNCHANGED <<pc, sbLock, ops, delta, sbDelta, bio, tracked>>
    BY <1>6 DEF Postlude, grpVars
  <2>2. QED
    BY <2>1 DEF WorkedOff, TypeOK
<1>7. QED
  BY <1>1, <1>2, <1>3, <1>4, <1>5, <1>6

\* Transactions are worked off stage by stage, and at most one is in flush, for
\* any threads, blocks, files and groups, also when writes fail (flush, done).
THEOREM StagesKept == Spec => []WorkedOff
<1>1. Init => WorkedOff
  BY ConstantsOK DEF Init, WorkedOff
<1>2. TypeOK /\ WorkedOff /\ [Next]_vars => WorkedOff'
  <2> SUFFICES ASSUME TypeOK, WorkedOff, [Next]_vars PROVE WorkedOff'
    OBVIOUS
  <2>1. CASE UNCHANGED vars
    BY <2>1 DEF vars, memVars, grpVars, colVars, WorkedOff
  <2>2. ASSUME NEW t \in Thread, FileOp(t) \/ Done(t) \/ Commit(t) \/ FailWrite(t)
        PROVE  WorkedOff'
    BY <2>2, EarlyStages, FlushStages, LateStages DEF Commit
  <2>3. QED
    BY <2>1, <2>2 DEF Next
<1>3. QED
  BY <1>1, <1>2, TypeCorrect, PTL DEF Spec

-----------------------------------------------------------------------------
(* No block has two owners.  OwnershipExclusive is not inductive: to know   *)
(* that a postlude returns blocks nobody else will give up or return, one   *)
(* needs ReleasedOnce, which says where in a transaction a given-up block   *)
(* can be recorded.                                                         *)

IInv == TypeOK /\ OwnershipExclusive /\ ReleasedOnce

\* Nothing is owned by two when nothing is in use initially.
LEMMA IInit == Init => IInv
<1> SUFFICES ASSUME Init PROVE IInv
  OBVIOUS
<1>1. TypeOK
  BY TypeInit
<1>2. \A t \in Thread : Recorded(t) = {} /\ ReleasedBy(t) = {}
  BY DEF Init, Recorded, ReleasedBy
<1>3. InUse = {} /\ Releasing = {}
  BY <1>2 DEF Init, InUse, Releasing
<1>4. OwnershipExclusive
  BY <1>2, <1>3 DEF Init, OwnershipExclusive
<1>5. ReleasedOnce
  BY <1>2 DEF Init, ReleasedOnce
<1>6. QED
  BY <1>1, <1>4, <1>5 DEF IInv

\* A step that gives no file a block and no transaction one to give back, and
\* puts none into the buddies, keeps ownership exclusive.
LEMMA ExclusiveKept ==
    ASSUME OwnershipExclusive,
           owned' = owned, free' = free,
           \A t \in Thread : ReleasedBy(t)' \subseteq ReleasedBy(t)
    PROVE  OwnershipExclusive'
<1>1. InUse' = InUse
  BY DEF InUse
<1>2. Releasing' \subseteq Releasing
  BY DEF Releasing
<1>3. QED
  BY <1>1, <1>2 DEF OwnershipExclusive

\* The steps of a transaction that move no block.
LEMMA PassiveStep ==
    ASSUME OwnershipExclusive, ReleasedOnce, TypeOK, NEW t \in Thread,
           UNCHANGED <<owned, free, events, post>>,
           \E p \in {"open", "compress", "flush", "writeback", "postlude"} :
              /\ pc' = [pc EXCEPT ![t] = p]
              /\ p \in {"flush", "writeback", "postlude"} => events[t] = <<>>
    PROVE  OwnershipExclusive' /\ ReleasedOnce'
<1>1. \A u \in Thread : Recorded(u)' = Recorded(u) /\ ReleasedBy(u)' = ReleasedBy(u)
  BY DEF Recorded, ReleasedBy
<1>2. OwnershipExclusive'
  BY <1>1, ExclusiveKept
<1>3. \A u \in Thread : pc[u]' \in {"flush", "writeback", "postlude"} => events[u] = <<>>
  BY DEF TypeOK, ReleasedOnce
<1>4. ReleasedOnce'
  BY <1>1, <1>3 DEF ReleasedOnce
<1>5. QED
  BY <1>2, <1>4

\* What Record adds to the blocks that t is to give back, and to no other
\* transaction.
LEMMA RecordAdds ==
    ASSUME TypeOK, NEW t \in Thread, NEW f \in File, NEW e \in Event,
           NEW map, Record(t, f, e, map)
    PROVE  /\ Recorded(t)' = Recorded(t) \cup (IF e.kind = "dealloc" THEN e.blks ELSE {})
           /\ \A u \in Thread \ {t} : events'[u] = events[u]
           /\ \A i \in DOMAIN events'[t] :
                \/ i \in DOMAIN events[t] /\ events'[t][i] = events[t][i]
                \/ i = Len(events[t]) + 1 /\ events'[t][i] = e
                \/ events'[t][i].kind = "size"
<1> DEFINE s == events[t]
           r == [e EXCEPT !.kind = "size", !.blks = map]
<1>1. s \in Seq(Event)
  BY DEF TypeOK
<1>2. events' = [events EXCEPT ![t] = s \o <<e, r>>]
  BY DEF Record
<1>3. events'[t] = s \o <<e, r>> /\ \A u \in Thread \ {t} : events'[u] = events[u]
  BY <1>2 DEF TypeOK
<1>4. r.kind = "size"
  BY DEF Event
<1>5. /\ DOMAIN events'[t] = 1 .. Len(s) + 2 /\ DOMAIN s = 1 .. Len(s) /\ Len(s) \in Nat
      /\ \A i \in 1 .. Len(s) : events'[t][i] = s[i]
      /\ events'[t][Len(s) + 1] = e
      /\ events'[t][Len(s) + 2] = r
  <2> HIDE DEF s, r
  <2>1. Len(<<e, r>>) = 2 /\ <<e, r>>[1] = e /\ <<e, r>>[2] = r
    OBVIOUS
  <2>2. events'[t] = s \o <<e, r>> /\ s \in Seq(Event)
    BY <1>1, <1>3
  <2>3. QED
    BY <2>1, <2>2
<1>6. \A i \in DOMAIN events'[t] :
        \/ i \in DOMAIN s /\ events'[t][i] = s[i]
        \/ i = Len(s) + 1 /\ events'[t][i] = e
        \/ events'[t][i].kind = "size"
  <2>1. \A i \in 1 .. Len(s) + 2 : i \in 1 .. Len(s) \/ i = Len(s) + 1 \/ i = Len(s) + 2
    BY <1>5
  <2> HIDE DEF s, r
  <2>2. QED
    BY <1>4, <1>5, <2>1
<1>7. \A b : b \in Recorded(t)' <=>
                b \in Recorded(t) \/ (e.kind = "dealloc" /\ b \in e.blks)
  <2>1. \A b : b \in Recorded(t) <=>
                \E i \in DOMAIN s : s[i].kind = "dealloc" /\ b \in s[i].blks
    BY DEF Recorded
  <2>2. \A b : b \in Recorded(t)' <=>
                \E i \in DOMAIN events'[t] :
                    events'[t][i].kind = "dealloc" /\ b \in events'[t][i].blks
    BY DEF Recorded
  <2>3. \A i \in DOMAIN s : i \in DOMAIN events'[t] /\ events'[t][i] = s[i]
    BY <1>5
  <2>4. Len(s) + 1 \in DOMAIN events'[t] /\ events'[t][Len(s) + 1] = e
    BY <1>5
  <2> HIDE DEF s, r
  <2>5. QED
    BY <1>6, <2>1, <2>2, <2>3, <2>4
<1>8. Recorded(t)' = Recorded(t) \cup (IF e.kind = "dealloc" THEN e.blks ELSE {})
  <2> HIDE DEF s, r
  <2>1. CASE e.kind = "dealloc"
    BY <1>7, <2>1
  <2>2. CASE e.kind # "dealloc"
    BY <1>7, <2>2
  <2>3. QED
    BY <2>1, <2>2
<1>9. QED
  BY <1>3, <1>6, <1>8

\* Extend hands a file free blocks, and nobody anything to give back.
LEMMA ExtendStep ==
    ASSUME IInv, NEW t \in Thread, NEW f \in File, NEW S \in SUBSET Block,
           NEW lost \in SUBSET Block, Extend(t, f, S, lost)
    PROVE  OwnershipExclusive' /\ ReleasedOnce'
<1>1. PICK g \in Group :
        /\ S \subseteq free
        /\ free' = free \ (S \cup lost)
        /\ Record(t, f, [kind |-> "alloc", file |-> f, grp |-> g, blks |-> S],
                  owned[f] \cup S)
        /\ post' = post /\ pc' = pc
  BY DEF Extend, colVars
<1> DEFINE e == [kind |-> "alloc", file |-> f, grp |-> g, blks |-> S]
<1>2. e \in Event /\ e.kind = "alloc"
  BY DEF Event
<1>3. TypeOK /\ OwnershipExclusive /\ ReleasedOnce
  BY DEF IInv
<1>4. /\ owned' = [owned EXCEPT ![f] = @ \cup S]
      /\ pc[t] = "open"
  BY <1>1 DEF Record
<1>5. /\ Recorded(t)' = Recorded(t)
      /\ \A u \in Thread \ {t} : events'[u] = events[u]
      /\ \A i \in DOMAIN events'[t] :
            \/ i \in DOMAIN events[t] /\ events'[t][i] = events[t][i]
            \/ events'[t][i].kind # "dealloc"
  <2> HIDE DEF e
  <2>1. Record(t, f, e, owned[f] \cup S)
    BY <1>1 DEF e
  <2>2. QED
    BY <1>2, <1>3, <2>1, RecordAdds
<1>6. \A u \in Thread : Recorded(u)' = Recorded(u) /\ ReleasedBy(u)' = ReleasedBy(u)
  <2>1. ASSUME NEW u \in Thread PROVE Recorded(u)' = Recorded(u)
    BY <1>5 DEF Recorded
  <2>2. QED
    BY <1>1, <2>1 DEF ReleasedBy
<1>7. Releasing' = Releasing
  BY <1>6 DEF Releasing
<1>8. InUse' = InUse \cup S
  <2>1. \A h \in File : owned'[h] = IF h = f THEN owned[f] \cup S ELSE owned[h]
    BY <1>3, <1>4 DEF TypeOK
  <2>2. QED
    BY <2>1 DEF InUse
<1>9. \A g1, g2 \in File : g1 # g2 => owned'[g1] \cap owned'[g2] = {}
  <2>1. \A h \in File : owned'[h] = IF h = f THEN owned[f] \cup S ELSE owned[h]
    BY <1>3, <1>4 DEF TypeOK
  <2>2. \A h \in File : owned[h] \cap S = {}
    BY <1>1, <1>3 DEF OwnershipExclusive, InUse
  <2>3. QED
    BY <1>3, <2>1, <2>2 DEF OwnershipExclusive
<1>10. OwnershipExclusive'
  BY <1>1, <1>3, <1>6, <1>7, <1>8, <1>9 DEF OwnershipExclusive
<1>11. ReleasedOnce'
  <2>1. \A u \in Thread : pc'[u] \in {"flush", "writeback", "postlude"} => events'[u] = <<>>
    BY <1>1, <1>3, <1>4, <1>5 DEF ReleasedOnce
  <2>2. ASSUME NEW u \in Thread, NEW i \in DOMAIN events'[u], NEW j \in DOMAIN events'[u],
               i # j, events'[u][i].kind = "dealloc", events'[u][j].kind = "dealloc"
        PROVE  events'[u][i].blks \cap events'[u][j].blks = {}
    BY <1>3, <1>5, <2>2 DEF ReleasedOnce
  <2>3. QED
    BY <1>1, <1>3, <1>6, <2>1, <2>2 DEF ReleasedOnce
<1>12. QED
  BY <1>10, <1>11

\* Truncate moves blocks of a file to those its transaction gives back.
LEMMA TruncateStep ==
    ASSUME IInv, NEW t \in Thread, NEW f \in File, NEW S \in SUBSET Block,
           Truncate(t, f, S)
    PROVE  OwnershipExclusive' /\ ReleasedOnce'
<1>1. PICK g \in Group :
        /\ S \subseteq owned[f]
        /\ Record(t, f, [kind |-> "dealloc", file |-> f, grp |-> g, blks |-> S],
                  owned[f] \ S)
        /\ post' = post /\ pc' = pc /\ free' = free
  BY DEF Truncate, colVars
<1> DEFINE e == [kind |-> "dealloc", file |-> f, grp |-> g, blks |-> S]
<1>2. e \in Event /\ e.kind = "dealloc" /\ e.blks = S
  BY DEF Event
<1>3. TypeOK /\ OwnershipExclusive /\ ReleasedOnce
  BY DEF IInv
<1>4. /\ \A h \in File : owned'[h] = IF h = f THEN owned[f] \ S ELSE owned[h]
      /\ pc[t] = "open"
  BY <1>1, <1>3 DEF Record, TypeOK
<1>5. /\ Recorded(t)' = Recorded(t) \cup S
      /\ \A u \in Thread \ {t} : events'[u] = events[u]
      /\ \A i \in DOMAIN events'[t] :
            \/ i \in DOMAIN events[t] /\ events'[t][i] = events[t][i]
            \/ i = Len(events[t]) + 1 /\ events'[t][i].blks = S
            \/ events'[t][i].kind # "dealloc"
  <2> HIDE DEF e
  <2>1. Record(t, f, e, owned[f] \ S)
    BY <1>1 DEF e
  <2>2. QED
    BY <1>2, <1>3, <2>1, RecordAdds
<1>6. \A u \in Thread \ {t} : Recorded(u)' = Recorded(u) /\ ReleasedBy(u)' = ReleasedBy(u)
  BY <1>1, <1>5 DEF Recorded, ReleasedBy
<1>7. ReleasedBy(t)' = ReleasedBy(t) \cup S
  BY <1>1, <1>5 DEF ReleasedBy
<1>8. Releasing' = Releasing \cup S
  BY <1>6, <1>7 DEF Releasing
<1>9. S \subseteq InUse /\ InUse' = InUse \ S
  BY <1>1, <1>3, <1>4 DEF InUse, OwnershipExclusive
<1>10. \A u \in Thread : ReleasedBy(u) \cap S = {}
  BY <1>3, <1>9 DEF OwnershipExclusive, Releasing
<1>11. OwnershipExclusive'
  <2>1. \A h1, h2 \in File : h1 # h2 => owned'[h1] \cap owned'[h2] = {}
    BY <1>3, <1>4 DEF OwnershipExclusive
  <2>2. \A u, v \in Thread : u # v => ReleasedBy(u)' \cap ReleasedBy(v)' = {}
    BY <1>3, <1>6, <1>7, <1>10 DEF OwnershipExclusive
  <2>3. QED
    BY <1>1, <1>3, <1>8, <1>9, <2>1, <2>2 DEF OwnershipExclusive
<1>12. ReleasedOnce'
  <2>1. \A u \in Thread : pc'[u] \in {"flush", "writeback", "postlude"} => events'[u] = <<>>
    BY <1>1, <1>3, <1>4, <1>5 DEF ReleasedOnce
  <2>2. \A i \in DOMAIN events[t] :
            events[t][i].kind = "dealloc" => events[t][i].blks \cap S = {}
    BY <1>10 DEF ReleasedBy, Recorded
  <2>3. ASSUME NEW u \in Thread, NEW i \in DOMAIN events'[u], NEW j \in DOMAIN events'[u],
               i # j, events'[u][i].kind = "dealloc", events'[u][j].kind = "dealloc"
        PROVE  events'[u][i].blks \cap events'[u][j].blks = {}
    BY <1>3, <1>5, <2>2, <2>3 DEF ReleasedOnce
  <2>4. \A u \in Thread : Recorded(u)' \cap UNION post[u] = {}
    <3>1. S \cap UNION post[t] = {}
      BY <1>10 DEF ReleasedBy
    <3>2. QED
      BY <1>3, <1>5, <1>6, <3>1 DEF ReleasedOnce
  <2>5. QED
    BY <1>1, <1>3, <2>1, <2>3, <2>4 DEF ReleasedOnce
<1>13. QED
  BY <1>11, <1>12

\* The first event of a transaction and the others.
LEMMA TailEvents ==
    ASSUME TypeOK, NEW t \in Thread, events[t] # <<>>,
           events' = [events EXCEPT ![t] = Tail(@)]
    PROVE  /\ \A i \in DOMAIN events'[t] :
                /\ i + 1 \in DOMAIN events[t] /\ i + 1 # 1 /\ i \in Nat
                /\ events'[t][i] = events[t][i + 1]
           /\ 1 \in DOMAIN events[t] /\ events[t][1] = Head(events[t])
           /\ \A i \in DOMAIN events[t] : i # 1 =>
                i - 1 \in DOMAIN events'[t] /\ events'[t][i - 1] = events[t][i]
           /\ \A u \in Thread \ {t} : events'[u] = events[u]
<1>1. events[t] \in Seq(Event) /\ events'[t] = Tail(events[t])
  BY DEF TypeOK
<1>2. \A u \in Thread \ {t} : events'[u] = events[u]
  BY DEF TypeOK
<1>3. /\ Len(events[t]) \in Nat /\ Len(events[t]) > 0
      /\ DOMAIN events[t] = 1 .. Len(events[t])
  BY <1>1
<1>4. /\ DOMAIN events'[t] = 1 .. Len(events[t]) - 1
      /\ \A i \in 1 .. Len(events[t]) - 1 : events'[t][i] = events[t][i + 1]
      /\ events[t][1] = Head(events[t])
  <2>1. /\ Tail(events[t]) \in Seq(Event)
        /\ Len(Tail(events[t])) = Len(events[t]) - 1
        /\ \A i \in 1 .. Len(Tail(events[t])) : Tail(events[t])[i] = events[t][i + 1]
    BY <1>1, HeadTailProperties
  <2>2. DOMAIN Tail(events[t]) = 1 .. Len(events[t]) - 1
    BY <2>1
  <2>3. events[t][1] = Head(events[t])
    BY <1>1, <1>3
  <2>4. QED
    BY <1>1, <2>1, <2>2, <2>3
<1>5. \A i \in DOMAIN events'[t] :
        /\ i + 1 \in DOMAIN events[t] /\ i + 1 # 1 /\ i \in Nat
        /\ events'[t][i] = events[t][i + 1]
  BY <1>3, <1>4
<1>6. ASSUME NEW i \in DOMAIN events[t], i # 1
      PROVE  i - 1 \in DOMAIN events'[t] /\ events'[t][i - 1] = events[t][i]
  <2>1. i \in Int /\ i - 1 \in 1 .. Len(events[t]) - 1 /\ (i - 1) + 1 = i
    BY <1>3, <1>6
  <2>2. QED
    BY <1>4, <2>1
<1>7. 1 \in DOMAIN events[t]
  BY <1>3
<1>8. QED
  BY <1>2, <1>4, <1>5, <1>6, <1>7

\* compress moves what a deallocation gives back from the events of the
\* transaction to its postludes.
LEMMA CompressStep ==
    ASSUME IInv, NEW t \in Thread, Compress(t)
    PROVE  OwnershipExclusive' /\ ReleasedOnce'
<1> DEFINE e == Head(events[t])
           back == IF e.kind = "dealloc" THEN {e.blks} ELSE {}
<1>1. TypeOK /\ OwnershipExclusive /\ ReleasedOnce
  BY DEF IInv
<1>2. /\ pc[t] = "compress" /\ events[t] # <<>> /\ pc' = pc
      /\ owned' = owned /\ free' = free
      /\ events' = [events EXCEPT ![t] = Tail(@)]
  BY DEF Compress, memVars
<1>3. e \in Event
  BY <1>1, <1>2 DEF TypeOK
<1>4. /\ post'[t] = post[t] \cup back
      /\ \A u \in Thread \ {t} : post'[u] = post[u]
  <2>1. CASE CompressAlloc(t, e)
    BY <2>1 DEF CompressAlloc
  <2>2. CASE CompressDealloc(t, e)
    BY <1>1, <2>2 DEF CompressDealloc, TypeOK
  <2>3. CASE CompressSize(t, e)
    BY <2>3 DEF CompressSize
  <2>4. QED
    BY <2>1, <2>2, <2>3 DEF Compress
<1>5. /\ \A i \in DOMAIN events'[t] :
            /\ i + 1 \in DOMAIN events[t] /\ i + 1 # 1 /\ i \in Nat
            /\ events'[t][i] = events[t][i + 1]
      /\ 1 \in DOMAIN events[t] /\ events[t][1] = e
      /\ \A u \in Thread \ {t} : events'[u] = events[u]
  BY <1>1, <1>2, TailEvents
<1> HIDE DEF e
<1>6. Recorded(t)' \subseteq Recorded(t)
  BY <1>5 DEF Recorded
<1>7. UNION back \subseteq Recorded(t)
  BY <1>5 DEF Recorded
<1>8. Recorded(t)' \cap UNION back = {}
  <2>1. ASSUME NEW i \in DOMAIN events'[t], events'[t][i].kind = "dealloc",
               e.kind = "dealloc"
        PROVE  events'[t][i].blks \cap e.blks = {}
    BY <1>1, <1>5, <2>1 DEF ReleasedOnce
  <2>2. QED
    BY <2>1 DEF Recorded
<1>9. \A u \in Thread \ {t} : Recorded(u)' = Recorded(u)
  BY <1>5 DEF Recorded
<1> HIDE DEF back
<1>10. \A u \in Thread : ReleasedBy(u)' \subseteq ReleasedBy(u)
  BY <1>4, <1>6, <1>7, <1>9 DEF ReleasedBy
<1>11. OwnershipExclusive'
  BY <1>1, <1>2, <1>10, ExclusiveKept
<1>12. ReleasedOnce'
  <2>1. \A u \in Thread : pc'[u] \in {"flush", "writeback", "postlude"} => events'[u] = <<>>
    BY <1>1, <1>2, <1>5 DEF ReleasedOnce
  <2>2. ASSUME NEW u \in Thread, NEW i \in DOMAIN events'[u], NEW j \in DOMAIN events'[u],
               i # j, events'[u][i].kind = "dealloc", events'[u][j].kind = "dealloc"
        PROVE  events'[u][i].blks \cap events'[u][j].blks = {}
    <3>1. CASE u = t
      <4>1. /\ i + 1 \in DOMAIN events[t] /\ j + 1 \in DOMAIN events[t] /\ i + 1 # j + 1
            /\ events'[t][i] = events[t][i + 1] /\ events'[t][j] = events[t][j + 1]
        BY <1>5, <2>2, <3>1
      <4>2. QED
        BY <1>1, <2>2, <3>1, <4>1 DEF ReleasedOnce
    <3>2. CASE u # t
      <4>1. events'[u] = events[u]
        BY <1>5, <3>2
      <4>2. QED
        BY <1>1, <2>2, <4>1 DEF ReleasedOnce
    <3>3. QED
      BY <3>1, <3>2
  <2>3. \A u \in Thread : Recorded(u)' \cap UNION post'[u] = {}
    BY <1>1, <1>4, <1>6, <1>8, <1>9 DEF ReleasedOnce
  <2>4. ASSUME NEW u \in Thread, NEW P \in post'[u], NEW Q \in post'[u], P # Q
        PROVE  P \cap Q = {}
    <3>1. \A X \in back, Y \in post[t] : X \cap Y = {}
      <4>1. Recorded(t) \cap UNION post[t] = {}
        BY <1>1 DEF ReleasedOnce
      <4>2. \A X \in back : X \subseteq Recorded(t)
        BY <1>7
      <4>3. QED
        BY <4>1, <4>2
    <3>2. \A X, Y \in back : X = Y
      BY DEF back
    <3>3. \A X, Y \in post[u] : X # Y => X \cap Y = {}
      BY <1>1 DEF ReleasedOnce
    <3>4. CASE u # t
      BY <1>4, <2>4, <3>3, <3>4
    <3>5. CASE u = t
      <4>1. P \in post[t] \cup back /\ Q \in post[t] \cup back
        BY <1>4, <2>4, <3>5
      <4>2. CASE P \in back /\ Q \in post[t]
        BY <3>1, <4>2
      <4>3. CASE P \in post[t] /\ Q \in back
        BY <3>1, <4>3
      <4>4. QED
        BY <2>4, <3>2, <3>3, <3>5, <4>1, <4>2, <4>3
    <3>6. QED
      BY <3>4, <3>5
  <2>5. QED
    BY <2>1, <2>2, <2>3, <2>4 DEF ReleasedOnce
<1>13. QED
  BY <1>11, <1>12

\* compress keeps what its transaction is to give back: what leaves the events
\* is in the postludes.
LEMMA CompressKeeps ==
    ASSUME IInv, NEW t \in Thread, Compress(t)
    PROVE  \A u \in Thread : ReleasedBy(u)' = ReleasedBy(u)
<1> DEFINE e == Head(events[t])
           back == IF e.kind = "dealloc" THEN e.blks ELSE {}
<1>1. TypeOK
  BY DEF IInv
<1>2. events[t] # <<>> /\ events' = [events EXCEPT ![t] = Tail(@)]
  BY DEF Compress
<1>3. /\ UNION post'[t] = (UNION post[t]) \cup back
      /\ \A u \in Thread \ {t} : post'[u] = post[u]
  <2>1. CASE CompressAlloc(t, e)
    BY <2>1 DEF CompressAlloc
  <2>2. CASE CompressDealloc(t, e)
    <3>1. e.kind = "dealloc" /\ post' = [post EXCEPT ![t] = @ \cup {e.blks}]
      BY <2>2 DEF CompressDealloc
    <3> HIDE DEF e
    <3>2. /\ post'[t] = post[t] \cup {e.blks}
          /\ \A u \in Thread \ {t} : post'[u] = post[u]
      BY <1>1, <3>1 DEF TypeOK
    <3>3. QED
      BY <3>1, <3>2
  <2>3. CASE CompressSize(t, e)
    BY <2>3 DEF CompressSize
  <2>4. QED
    BY <2>1, <2>2, <2>3 DEF Compress
<1>4. /\ \A i \in DOMAIN events'[t] :
            i + 1 \in DOMAIN events[t] /\ events'[t][i] = events[t][i + 1]
      /\ 1 \in DOMAIN events[t] /\ events[t][1] = e
      /\ \A i \in DOMAIN events[t] : i # 1 =>
            i - 1 \in DOMAIN events'[t] /\ events'[t][i - 1] = events[t][i]
      /\ \A u \in Thread \ {t} : events'[u] = events[u]
  BY <1>1, <1>2, TailEvents
<1> HIDE DEF e
<1>5. \A b : b \in Recorded(t) <=> b \in Recorded(t)' \/ b \in back
  <2>1. \A b : b \in Recorded(t) <=>
                \E i \in DOMAIN events[t] :
                    events[t][i].kind = "dealloc" /\ b \in events[t][i].blks
    BY DEF Recorded
  <2>2. \A b : b \in Recorded(t)' <=>
                \E i \in DOMAIN events'[t] :
                    events'[t][i].kind = "dealloc" /\ b \in events'[t][i].blks
    BY DEF Recorded
  <2>3. ASSUME NEW b \in Recorded(t)' PROVE b \in Recorded(t)
    BY <1>4, <2>1, <2>2
  <2>4. ASSUME NEW b \in back PROVE b \in Recorded(t)
    BY <1>4, <2>1
  <2>5. ASSUME NEW b \in Recorded(t), b \notin back PROVE b \in Recorded(t)'
    <3>1. PICK i \in DOMAIN events[t] :
            events[t][i].kind = "dealloc" /\ b \in events[t][i].blks
      BY <2>1
    <3>2. i # 1
      BY <1>4, <2>5, <3>1
    <3>3. QED
      BY <1>4, <2>2, <3>1, <3>2
  <2>6. QED
    BY <2>3, <2>4, <2>5
<1> HIDE DEF back
<1>6. \A u \in Thread \ {t} : Recorded(u)' = Recorded(u)
  BY <1>4 DEF Recorded
<1>7. ReleasedBy(t)' = ReleasedBy(t)
  BY <1>3, <1>5 DEF ReleasedBy
<1>8. QED
  BY <1>3, <1>6, <1>7 DEF ReleasedBy

\* A postlude moves blocks from those its transaction gives back to the
\* buddies: they are in no other postlude, and no event is left.
LEMMA PostludeStep ==
    ASSUME IInv, NEW t \in Thread, NEW S \in SUBSET Block, Postlude(t, S)
    PROVE  OwnershipExclusive' /\ ReleasedOnce'
<1>1. TypeOK /\ OwnershipExclusive /\ ReleasedOnce
  BY DEF IInv
<1>2. /\ pc[t] = "postlude" /\ S \in post[t]
      /\ free' = free \cup S /\ owned' = owned /\ events' = events /\ pc' = pc
      /\ post'[t] = post[t] \ {S}
      /\ \A u \in Thread \ {t} : post'[u] = post[u]
  BY <1>1 DEF Postlude, TypeOK
<1>3. events[t] = <<>>
  BY <1>1, <1>2 DEF ReleasedOnce
<1>4. Recorded(t) = {} /\ \A u \in Thread : Recorded(u)' = Recorded(u)
  BY <1>2, <1>3 DEF Recorded
<1>5. S \subseteq ReleasedBy(t)
  BY <1>2 DEF ReleasedBy
<1>6. ReleasedBy(t)' \subseteq ReleasedBy(t) \ S
  <2>1. \A P \in post[t] : P # S => P \cap S = {}
    BY <1>1, <1>2 DEF ReleasedOnce
  <2>2. QED
    BY <1>2, <1>4, <2>1 DEF ReleasedBy
<1>7. \A u \in Thread \ {t} : ReleasedBy(u)' = ReleasedBy(u)
  BY <1>2, <1>4 DEF ReleasedBy
<1>8. \A u \in Thread \ {t} : ReleasedBy(u) \cap S = {}
  BY <1>1, <1>5 DEF OwnershipExclusive
<1>9. Releasing' \subseteq Releasing \ S /\ S \subseteq Releasing
  BY <1>5, <1>6, <1>7, <1>8 DEF Releasing
<1>10. InUse' = InUse
  BY <1>2 DEF InUse
<1>11. OwnershipExclusive'
  <2>1. \A u, v \in Thread : u # v => ReleasedBy(u)' \cap ReleasedBy(v)' = {}
    BY <1>1, <1>6, <1>7 DEF OwnershipExclusive
  <2>2. QED
    BY <1>1, <1>2, <1>9, <1>10, <2>1 DEF OwnershipExclusive
<1>12. ReleasedOnce'
  <2>1. \A u \in Thread : post'[u] \subseteq post[u]
    BY <1>2
  <2>2. QED
    BY <1>1, <1>2, <1>4, <2>1 DEF ReleasedOnce
<1>13. QED
  BY <1>11, <1>12

\* A failed write drops the postludes: their blocks are given back to nobody.
LEMMA FailWriteStep ==
    ASSUME IInv, NEW t \in Thread, FailWrite(t)
    PROVE  OwnershipExclusive' /\ ReleasedOnce'
<1>1. TypeOK /\ OwnershipExclusive /\ ReleasedOnce
  BY DEF IInv
<1>2. /\ free' = free /\ owned' = owned /\ events' = events
      /\ post'[t] = {}
      /\ \A u \in Thread \ {t} : post'[u] = post[u] /\ pc'[u] = pc[u]
      /\ pc'[t] = "open"
  BY <1>1 DEF FailWrite, memVars, TypeOK
<1>3. \A u \in Thread : Recorded(u)' = Recorded(u) /\ post'[u] \subseteq post[u]
  BY <1>2 DEF Recorded
<1>4. \A u \in Thread : ReleasedBy(u)' \subseteq ReleasedBy(u)
  BY <1>3 DEF ReleasedBy
<1>5. OwnershipExclusive'
  BY <1>1, <1>2, <1>4, ExclusiveKept
<1>6. ReleasedOnce'
  BY <1>1, <1>2, <1>3 DEF ReleasedOnce
<1>7. QED
  BY <1>5, <1>6

\* Every step keeps the inductive invariant.
LEMMA IStep == IInv /\ [Next]_vars => IInv'
<1> SUFFICES ASSUME IInv, [Next]_vars PROVE IInv'
  OBVIOUS
<1>1. TypeOK /\ OwnershipExclusive /\ ReleasedOnce
  BY DEF IInv
<1>2. TypeOK'
  BY <1>1, TypeStep
<1>3. CASE UNCHANGED vars
  <2>1. /\ owned' = owned /\ free' = free /\ events' = events /\ post' = post /\ pc' = pc
    BY <1>3 DEF vars, memVars, colVars
  <2>2. \A u \in Thread : Recorded(u)' = Recorded(u) /\ ReleasedBy(u)' = ReleasedBy(u)
    BY <2>1 DEF Recorded, ReleasedBy
  <2>3. OwnershipExclusive'
    BY <1>1, <2>1, <2>2, ExclusiveKept
  <2>4. ReleasedOnce'
    BY <1>1, <2>1, <2>2 DEF ReleasedOnce
  <2>5. QED
    BY <1>2, <2>3, <2>4 DEF IInv
<1>4. ASSUME NEW t \in Thread, FileOp(t) PROVE IInv'
  BY <1>2, <1>4, ExtendStep, TruncateStep DEF FileOp, IInv
<1>5. ASSUME NEW t \in Thread,
             \/ Done(t)
             \/ LockSb(t)
             \/ \E g \in Group : SubmitBlockGroup(t, g)
             \/ SubmitInodeOp(t)
             \/ SubmitSb(t)
             \/ \E d \in DeviceBlocks : Snapshot(t, d)
             \/ WriteBio(t)
             \/ Sync(t)
             \/ Finish(t)
      PROVE  IInv'
  <2>1. UNCHANGED <<owned, free, events, post>>
    BY <1>5 DEF Done, LockSb, SubmitBlockGroup, SubmitInodeOp, SubmitSb, Snapshot, WriteBio,
                Sync, Finish, memVars, colVars
  <2>2. pc = [pc EXCEPT ![t] = pc[t]]
    BY <1>1 DEF TypeOK
  <2>3. \E p \in {"open", "compress", "flush", "writeback", "postlude"} :
            /\ pc' = [pc EXCEPT ![t] = p]
            /\ p \in {"flush", "writeback", "postlude"} => events[t] = <<>>
    <3>1. CASE Done(t) \/ LockSb(t) \/ SubmitSb(t) \/ Sync(t) \/ Finish(t)
      BY <1>1, <3>1 DEF Done, LockSb, SubmitSb, Writing, Sync, Finish, ReleasedOnce
    <3>2. CASE \/ \E g \in Group : SubmitBlockGroup(t, g)
               \/ SubmitInodeOp(t)
               \/ \E d \in DeviceBlocks : Snapshot(t, d)
               \/ WriteBio(t)
      <4>1. pc' = pc
        BY <3>2 DEF SubmitBlockGroup, SubmitInodeOp, Snapshot, WriteBio
      <4>2. pc[t] \in {"open", "compress", "flush", "writeback", "postlude"}
        BY <1>1 DEF TypeOK
      <4>3. QED
        BY <1>1, <2>2, <4>1, <4>2 DEF ReleasedOnce
    <3>3. QED
      BY <1>5, <3>1, <3>2
  <2>4. OwnershipExclusive' /\ ReleasedOnce'
    BY <1>1, <2>1, <2>3, PassiveStep
  <2>5. QED
    BY <1>2, <2>4 DEF IInv
<1>6. ASSUME NEW t \in Thread, Compress(t) PROVE IInv'
  BY <1>2, <1>6, CompressStep DEF IInv
<1>7. ASSUME NEW t \in Thread, NEW S \in SUBSET Block, Postlude(t, S) PROVE IInv'
  BY <1>2, <1>7, PostludeStep DEF IInv
<1>8. ASSUME NEW t \in Thread, FailWrite(t) PROVE IInv'
  BY <1>2, <1>8, FailWriteStep DEF IInv
<1>9. QED
  <2>1. ASSUME NEW t \in Thread, Commit(t) PROVE IInv'
    BY <1>5, <1>6, <1>7, <2>1 DEF Commit
  <2>2. QED
    BY <1>3, <1>4, <1>5, <1>8, <2>1 DEF Next

\* No data block ever has two owners: not two files, not a file and the
\* buddies, and none is handed out before the write-back of the transaction
\* that gave it up, for any number of threads, blocks, groups and files.
THEOREM Exclusive == Spec => []OwnershipExclusive
<1>1. IInv => OwnershipExclusive
  BY DEF IInv
<1>2. QED
  BY <1>1, IInit, IStep, PTL DEF Spec

\* No block is given back twice, for any constants.
THEOREM GivenBackOnce == Spec => []ReleasedOnce
<1>1. IInv => ReleasedOnce
  BY DEF IInv
<1>2. QED
  BY <1>1, IInit, IStep, PTL DEF Spec

-----------------------------------------------------------------------------
(* What a block is.                                                        *)

\* While nothing is owned twice, the status of a block says exactly where the
\* block is: in the buddies, in the extents of a file, or with a transaction.
LEMMA StatusIs ==
    OwnershipExclusive =>
        \A b \in Block :
            /\ b \in free => Status[b] = "free"
            /\ \A f \in File : b \in owned[f] => Status[b] = f
            /\ b \in Releasing => Status[b] = "releasing"
            /\ b \notin free \cup InUse \cup Releasing => Status[b] = "lost"
<1> SUFFICES ASSUME OwnershipExclusive, NEW b \in Block
             PROVE  /\ b \in free => Status[b] = "free"
                    /\ \A f \in File : b \in owned[f] => Status[b] = f
                    /\ b \in Releasing => Status[b] = "releasing"
                    /\ b \notin free \cup InUse \cup Releasing => Status[b] = "lost"
  OBVIOUS
<1>1. ASSUME NEW f \in File, b \in owned[f]
      PROVE  Status[b] = f
  <2>1. b \in InUse /\ b \notin free
    BY <1>1 DEF InUse, OwnershipExclusive
  <2>2. \A g \in File : b \in owned[g] => g = f
    BY <1>1 DEF OwnershipExclusive
  <2>3. (CHOOSE g \in File : b \in owned[g]) = f
    BY <1>1, <2>2
  <2>4. QED
    BY <1>1, <2>1, <2>3 DEF Status
<1>2. ASSUME \A f \in File : b \notin owned[f]
      PROVE  Status[b] = IF b \in free THEN "free"
                         ELSE IF b \in Releasing THEN "releasing" ELSE "lost"
  BY <1>2 DEF Status
<1>3. b \in InUse <=> \E f \in File : b \in owned[f]
  BY DEF InUse
<1>4. (b \in free => b \notin InUse /\ b \notin Releasing) /\ (b \in Releasing => b \notin InUse)
  BY DEF OwnershipExclusive
<1>5. QED
  BY <1>1, <1>2, <1>3, <1>4

\* Every block is something.
LEMMA StatusType == OwnershipExclusive => Status \in [Block -> Ownership!Statuses]
<1> SUFFICES ASSUME OwnershipExclusive, NEW b \in Block
             PROVE  Status[b] \in File \cup {"free", "releasing", "lost"}
  BY DEF Ownership!Statuses, Ownership!Free, Ownership!Releasing, Ownership!Lost, Status
<1>1. b \in free \/ b \in Releasing \/ (\E f \in File : b \in owned[f])
        \/ b \notin free \cup InUse \cup Releasing
  BY DEF InUse
<1>2. QED
  BY <1>1, StatusIs

\* Both facts hold before and after a step.
LEMMA StatusStep ==
    ASSUME IInv, IInv'
    PROVE  /\ Status' \in [Block -> Ownership!Statuses]
           /\ \A b \in Block :
                /\ b \in free => Status[b] = "free"
                /\ \A f \in File : b \in owned[f] => Status[b] = f
                /\ b \in Releasing => Status[b] = "releasing"
                /\ b \notin free \cup InUse \cup Releasing => Status[b] = "lost"
           /\ \A b \in Block :
                /\ b \in free' => Status'[b] = "free"
                /\ \A f \in File : b \in owned'[f] => Status'[b] = f
                /\ b \in Releasing' => Status'[b] = "releasing"
                /\ b \notin free' \cup InUse' \cup Releasing' => Status'[b] = "lost"
<1>1. OwnershipExclusive /\ OwnershipExclusive'
  BY DEF IInv
<1>2. (OwnershipExclusive => Status \in [Block -> Ownership!Statuses])'
  BY StatusType, PTL
<1>3. (OwnershipExclusive =>
        \A b \in Block :
            /\ b \in free => Status[b] = "free"
            /\ \A f \in File : b \in owned[f] => Status[b] = f
            /\ b \in Releasing => Status[b] = "releasing"
            /\ b \notin free \cup InUse \cup Releasing => Status[b] = "lost")'
  BY StatusIs, PTL
<1>4. QED
  BY <1>1, <1>2, <1>3, StatusIs

-----------------------------------------------------------------------------
(* The steps.                                                              *)

\* A step that neither the buddies nor the extents see, and after which the
\* transactions have the same to give back, is none of BlockOwnership.
LEMMA NothingMoves ==
    ASSUME IInv, IInv', free' = free, owned' = owned,
           \A t \in Thread : ReleasedBy(t)' = ReleasedBy(t)
    PROVE  Status' = Status
<1>1. Releasing' = Releasing /\ InUse' = InUse
  BY DEF Releasing, InUse
<1>2. ASSUME NEW b \in Block PROVE Status'[b] = Status[b]
  <2>1. b \in free \/ b \in Releasing \/ (\E f \in File : b \in owned[f])
          \/ b \notin free \cup InUse \cup Releasing
    BY DEF InUse
  <2>2. QED
    BY <1>1, <2>1, StatusStep
<1>3. Status = [b \in Block |-> Status[b]] /\ Status' = [b \in Block |-> Status'[b]]
  BY DEF Status
<1>4. QED
  BY <1>2, <1>3

\* Extend gives free blocks to one file; blocks lost with them are nobody's.
LEMMA ExtendAllocates ==
    ASSUME IInv, IInv', NEW t \in Thread, NEW f \in File, NEW S \in SUBSET Block,
           NEW lost \in SUBSET Block, Extend(t, f, S, lost)
    PROVE  Ownership!Allocate(f)
<1>1. PICK g \in Group :
        /\ S \subseteq free /\ lost \subseteq free
        /\ free' = free \ (S \cup lost)
        /\ Record(t, f, [kind |-> "alloc", file |-> f, grp |-> g, blks |-> S],
                  owned[f] \cup S)
        /\ post' = post
  BY DEF Extend, colVars
<1> DEFINE e == [kind |-> "alloc", file |-> f, grp |-> g, blks |-> S]
<1>2. e \in Event /\ e.kind = "alloc"
  BY DEF Event
<1>3. TypeOK /\ OwnershipExclusive
  BY DEF IInv
<1>4. \A h \in File : owned'[h] = IF h = f THEN owned[f] \cup S ELSE owned[h]
  BY <1>1, <1>3 DEF Record, TypeOK
<1>5. \A u \in Thread : Recorded(u)' = Recorded(u)
  <2> HIDE DEF e
  <2>1. Record(t, f, e, owned[f] \cup S)
    BY <1>1 DEF e
  <2>2. /\ Recorded(t)' = Recorded(t)
        /\ \A u \in Thread \ {t} : events'[u] = events[u]
    BY <1>2, <1>3, <2>1, RecordAdds
  <2>3. QED
    BY <2>2 DEF Recorded
<1>6. Releasing' = Releasing
  BY <1>1, <1>5 DEF Releasing, ReleasedBy
<1>7. InUse' = InUse \cup S
  BY <1>4 DEF InUse
<1>8. ASSUME NEW b \in Block, Status'[b] # Status[b]
      PROVE  Status[b] = "free" /\ Status'[b] \in {f, "lost"}
  <2>1. b \in free
    <3>1. b \notin Releasing
      BY <1>6, <1>8, StatusStep
    <3>2. \A h \in File : b \notin owned[h]
      BY <1>4, <1>8, StatusStep
    <3>3. b \notin InUse
      BY <3>2 DEF InUse
    <3>4. SUFFICES ASSUME b \notin free PROVE FALSE
      OBVIOUS
    <3>5. b \notin free' \cup InUse' \cup Releasing'
      BY <1>1, <1>6, <1>7, <3>1, <3>3, <3>4
    <3>6. QED
      BY <1>8, <3>1, <3>3, <3>4, <3>5, StatusStep
  <2>2. b \notin InUse /\ b \notin Releasing
    BY <1>3, <2>1 DEF OwnershipExclusive
  <2>3. b \notin free'
    BY <1>8, <2>1, StatusStep
  <2>4. CASE b \in S
    BY <1>4, <2>1, <2>4, StatusStep
  <2>5. CASE b \notin S
    <3>1. b \notin free' \cup InUse' \cup Releasing'
      BY <1>6, <1>7, <2>2, <2>3, <2>5
    <3>2. QED
      BY <2>1, <3>1, StatusStep
  <2>6. QED
    BY <2>4, <2>5
<1>9. QED
  BY <1>8 DEF Ownership!Allocate, Ownership!Move, Ownership!Free, Ownership!Lost

\* Truncate takes blocks from one file, and its transaction has them to give
\* back.
LEMMA TruncateReleases ==
    ASSUME IInv, IInv', NEW t \in Thread, NEW f \in File, NEW S \in SUBSET Block,
           Truncate(t, f, S)
    PROVE  Ownership!Release(f)
<1>1. PICK g \in Group :
        /\ S \subseteq owned[f]
        /\ Record(t, f, [kind |-> "dealloc", file |-> f, grp |-> g, blks |-> S],
                  owned[f] \ S)
        /\ post' = post /\ free' = free
  BY DEF Truncate, colVars
<1> DEFINE e == [kind |-> "dealloc", file |-> f, grp |-> g, blks |-> S]
<1>2. e \in Event /\ e.kind = "dealloc" /\ e.blks = S
  BY DEF Event
<1>3. TypeOK /\ OwnershipExclusive
  BY DEF IInv
<1>4. \A h \in File : owned'[h] = IF h = f THEN owned[f] \ S ELSE owned[h]
  BY <1>1, <1>3 DEF Record, TypeOK
<1>5. \A u \in Thread : Recorded(u)' = IF u = t THEN Recorded(t) \cup S ELSE Recorded(u)
  <2> HIDE DEF e
  <2>1. Record(t, f, e, owned[f] \ S)
    BY <1>1 DEF e
  <2>2. /\ Recorded(t)' = Recorded(t) \cup S
        /\ \A u \in Thread \ {t} : events'[u] = events[u]
    BY <1>2, <1>3, <2>1, RecordAdds
  <2>3. \A u \in Thread \ {t} : Recorded(u)' = Recorded(u)
    BY <2>2 DEF Recorded
  <2>4. QED
    BY <2>2, <2>3
<1>6. \A u \in Thread : ReleasedBy(u)' = ReleasedBy(u) \cup (IF u = t THEN S ELSE {})
  BY <1>1, <1>5 DEF ReleasedBy
<1>7. Releasing' = Releasing \cup S
  BY <1>6 DEF Releasing
<1>8. InUse' \subseteq InUse
  BY <1>4 DEF InUse
<1>9. ASSUME NEW b \in Block, Status'[b] # Status[b]
      PROVE  Status[b] = f /\ Status'[b] = "releasing"
  <2>1. b \in S
    <3>1. b \notin free /\ b \notin Releasing
      BY <1>1, <1>7, <1>9, StatusStep
    <3>2. SUFFICES ASSUME b \notin S PROVE FALSE
      OBVIOUS
    <3>3. \A h \in File : b \notin owned[h]
      BY <1>4, <1>9, <3>2, StatusStep
    <3>4. b \notin InUse
      BY <3>3 DEF InUse
    <3>5. b \notin free' \cup InUse' \cup Releasing'
      BY <1>1, <1>7, <1>8, <3>1, <3>2, <3>4
    <3>6. QED
      BY <1>9, <3>1, <3>4, <3>5, StatusStep
  <2>2. QED
    BY <1>1, <1>7, <2>1, StatusStep
<1>10. QED
  BY <1>9 DEF Ownership!Release, Ownership!Move, Ownership!Releasing

\* A postlude frees what the transaction had to give back.
LEMMA PostludeFrees ==
    ASSUME IInv, IInv', NEW t \in Thread, NEW S \in SUBSET Block, Postlude(t, S)
    PROVE  Ownership!Move("releasing", {"free"})
<1>1. TypeOK
  BY DEF IInv
<1>2. /\ S \in post[t] /\ free' = free \cup S /\ owned' = owned /\ events' = events
      /\ post'[t] = post[t] \ {S}
      /\ \A u \in Thread \ {t} : post'[u] = post[u]
  BY <1>1 DEF Postlude, TypeOK
<1>3. \A u \in Thread : Recorded(u)' = Recorded(u)
  BY <1>2 DEF Recorded
<1>4. S \subseteq ReleasedBy(t) /\ ReleasedBy(t) \subseteq ReleasedBy(t)' \cup S
  BY <1>2, <1>3 DEF ReleasedBy
<1>5. \A u \in Thread \ {t} : ReleasedBy(u)' = ReleasedBy(u)
  BY <1>2, <1>3 DEF ReleasedBy
<1>6. S \subseteq Releasing /\ Releasing \subseteq Releasing' \cup S
  BY <1>4, <1>5 DEF Releasing
<1>7. Releasing' \subseteq Releasing
  <2>1. ReleasedBy(t)' \subseteq ReleasedBy(t)
    BY <1>2, <1>3 DEF ReleasedBy
  <2>2. QED
    BY <1>5, <2>1 DEF Releasing
<1>8. InUse' = InUse
  BY <1>2 DEF InUse
<1>9. ASSUME NEW b \in Block, Status'[b] # Status[b]
      PROVE  Status[b] = "releasing" /\ Status'[b] = "free"
  <2>1. b \in S
    <3>1. SUFFICES ASSUME b \notin S PROVE FALSE
      OBVIOUS
    <3>2. b \notin free /\ b \notin Releasing
      BY <1>2, <1>6, <1>9, <3>1, StatusStep
    <3>3. \A h \in File : b \notin owned[h]
      BY <1>2, <1>9, StatusStep
    <3>4. b \notin InUse
      BY <3>3 DEF InUse
    <3>5. b \notin free' \cup InUse' \cup Releasing'
      BY <1>2, <1>7, <1>8, <3>1, <3>2, <3>4
    <3>6. QED
      BY <1>9, <3>2, <3>4, <3>5, StatusStep
  <2>2. QED
    BY <1>2, <1>6, <2>1, StatusStep
<1>10. QED
  BY <1>9 DEF Ownership!Move

\* After a failed write, what the transaction had to give back is lost.
LEMMA FailWriteLoses ==
    ASSUME IInv, IInv', NEW t \in Thread, FailWrite(t)
    PROVE  Ownership!Move("releasing", {"lost"})
<1>1. TypeOK
  BY DEF IInv
<1>2. /\ free' = free /\ owned' = owned /\ events' = events
      /\ \A u \in Thread : post'[u] \subseteq post[u]
  BY <1>1 DEF FailWrite, memVars, TypeOK
<1>3. \A u \in Thread : Recorded(u)' = Recorded(u)
  BY <1>2 DEF Recorded
<1>4. \A u \in Thread : ReleasedBy(u)' \subseteq ReleasedBy(u)
  BY <1>2, <1>3 DEF ReleasedBy
<1>5. Releasing' \subseteq Releasing /\ InUse' = InUse
  BY <1>2, <1>4 DEF Releasing, InUse
<1>6. ASSUME NEW b \in Block, Status'[b] # Status[b]
      PROVE  Status[b] = "releasing" /\ Status'[b] = "lost"
  <2>1. b \notin free /\ \A h \in File : b \notin owned[h]
    BY <1>2, <1>6, StatusStep
  <2>2. b \notin InUse
    BY <2>1 DEF InUse
  <2>3. b \notin Releasing'
    BY <1>5, <1>6, StatusStep
  <2>4. Status'[b] = "lost"
    BY <1>2, <1>5, <2>1, <2>2, <2>3, StatusStep
  <2>5. b \in Releasing
    BY <1>6, <2>1, <2>2, <2>4, StatusStep
  <2>6. QED
    BY <2>4, <2>5, StatusStep
<1>7. QED
  BY <1>6 DEF Ownership!Move

\* Every step is one of BlockOwnership, or changes nothing there.
LEMMA OwnershipStep == IInv /\ IInv' /\ [Next]_vars => [Ownership!Next]_Status
<1> SUFFICES ASSUME IInv, IInv', [Next]_vars PROVE [Ownership!Next]_Status
  OBVIOUS
<1>1. Status' \in [Block -> Ownership!Statuses]
  BY StatusStep
<1>2. ASSUME free' = free, owned' = owned, events' = events, post' = post
      PROVE  Status' = Status
  <2>1. \A u \in Thread : ReleasedBy(u)' = ReleasedBy(u)
    BY <1>2 DEF ReleasedBy, Recorded
  <2>2. QED
    BY <1>2, <2>1, NothingMoves
<1>3. CASE UNCHANGED vars
  BY <1>2, <1>3 DEF vars, memVars, colVars
<1>4. ASSUME NEW t \in Thread, FileOp(t) PROVE [Ownership!Next]_Status
  <2>1. PICK f \in File, S \in SUBSET Block :
          (\E lost \in SUBSET Block : Extend(t, f, S, lost)) \/ Truncate(t, f, S)
    BY <1>4 DEF FileOp
  <2>2. Ownership!Allocate(f) \/ Ownership!Release(f)
    BY <2>1, ExtendAllocates, TruncateReleases
  <2>3. QED
    BY <1>1, <2>2 DEF Ownership!Next
<1>5. ASSUME NEW t \in Thread, Done(t) PROVE [Ownership!Next]_Status
  BY <1>2, <1>5 DEF Done, memVars, colVars
<1>6. ASSUME NEW t \in Thread, FailWrite(t) PROVE [Ownership!Next]_Status
  BY <1>1, <1>6, FailWriteLoses
  DEF Ownership!Next, Ownership!Reclaim, Ownership!Releasing, Ownership!Lost
<1>7. ASSUME NEW t \in Thread, Commit(t) PROVE [Ownership!Next]_Status
  <2>1. CASE Compress(t)
    <3>1. free' = free /\ owned' = owned
      BY <2>1 DEF Compress, memVars
    <3>2. QED
      BY <2>1, <3>1, CompressKeeps, NothingMoves
  <2>2. ASSUME NEW S \in SUBSET Block, Postlude(t, S) PROVE [Ownership!Next]_Status
    BY <1>1, <2>2, PostludeFrees
    DEF Ownership!Next, Ownership!Reclaim, Ownership!Releasing, Ownership!Free
  <2>3. CASE \/ LockSb(t)
             \/ \E g \in Group : SubmitBlockGroup(t, g)
             \/ SubmitInodeOp(t)
             \/ SubmitSb(t)
             \/ \E d \in DeviceBlocks : Snapshot(t, d)
             \/ WriteBio(t)
             \/ Sync(t)
             \/ Finish(t)
    <3>1. free' = free /\ owned' = owned /\ events' = events /\ post' = post
      BY <2>3 DEF LockSb, SubmitBlockGroup, SubmitInodeOp, SubmitSb, Snapshot, WriteBio, Sync,
                  Finish, memVars, colVars
    <3>2. QED
      BY <1>2, <3>1
  <2>4. QED
    BY <1>7, <2>1, <2>2, <2>3 DEF Commit
<1>8. QED
  BY <1>3, <1>4, <1>5, <1>6, <1>7 DEF Next

\* At first every block is free.
LEMMA OwnershipInit == Init => Ownership!Init
<1> SUFFICES ASSUME Init PROVE Ownership!Init
  OBVIOUS
<1>1. \A b \in Block : Status[b] = "free"
  BY DEF Init, Status
<1>2. QED
  BY <1>1 DEF Ownership!Init, Ownership!Free, Status

\* The allocator, the transactions and the write-back together keep what the
\* block layer promises: no interleaving and no failed write takes a block from
\* a file to another, or to the buddies, without the write-back between.
THEOREM ImplementsOwnership == Spec => OwnershipSpec
<1>1. IInv /\ [Next]_vars => IInv'
  BY IStep
<1>2. QED
  BY IInit, <1>1, OwnershipInit, OwnershipStep, PTL DEF Spec, OwnershipSpec, Ownership!Spec
================================================================================
