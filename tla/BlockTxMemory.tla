----------------------------- MODULE BlockTxMemory -----------------------------
(***************************************************************************)
(* Proofs about what BlockTx keeps in memory, for any threads, blocks,     *)
(* files and groups, as long as no two live transactions work on the same  *)
(* file: the assertions inside set_bitmap and unset_bitmap hold, the       *)
(* counters are conserved, and when no transaction is live, bitmaps,       *)
(* extents and free counts agree.                                          *)
(***************************************************************************)
EXTENDS BlockTxProofs, WellFoundedInduction

\* No two live transactions work on one file: callers see to it, or there is
\* only one thread.
OneThread == \A t, u \in Thread : t = u

PrivateFiles == ExclusiveFiles \/ OneThread

\* What a transaction has still to do to the inodes, in order.
Todo(t) == ops[t] \o events[t]

\* The blocks a transaction has taken for its files and not yet marked.
Allocated(t) ==
    UNION {events[t][i].blks : i \in {j \in DOMAIN events[t] : events[t][j].kind = "alloc"}}

\* Where a transaction has no work left.
Phases ==
    \A t \in Thread :
        /\ pc[t] \in {"open", "writeback", "postlude"} => ops[t] = <<>>
        /\ pc[t] = "open" => post[t] = {}

\* A transaction works on its own files only.
OwnFiles ==
    /\ \A t, u \in Thread : t # u => using[t] \cap using[u] = {}
    /\ \A t \in Thread : \A i \in DOMAIN Todo(t) : Todo(t)[i].file \in using[t]

\* Of what a transaction has recorded, all of its allocations or all of its
\* deallocations: allocated blocks are different ones, and still the file's.
EventsFit ==
    \A t \in Thread : \A i \in DOMAIN events[t] :
        LET e == events[t][i] IN
        /\ e.kind # "size" => e.blks \subseteq BlocksOf(e.grp)
        /\ e.kind = "alloc" =>
            /\ e.blks \subseteq owned[e.file]
            /\ \A j \in DOMAIN events[t] :
                /\ events[t][j].kind # "dealloc"
                /\ i # j /\ events[t][j].kind = "alloc" => e.blks \cap events[t][j].blks = {}

\* A bit is set for the blocks in use that are not waiting to be marked, and
\* for those that are waiting to be unmarked.
BitsTell ==
    \A g \in Group : \A b \in Block :
        b \in cache[Bitmap(g)].blks <=>
            /\ GroupOf[b] = g
            /\ \/ b \in InUse /\ \A t \in Thread : b \notin Allocated(t)
               \/ \E t \in Thread : b \in Recorded(t)

\* The last root that is still to be written for a file is its present one;
\* when there is none, the inode has it.
IsSize(e, f) == e.kind = "size" /\ e.file = f

HasSize(q, f) == \E i \in DOMAIN q : IsSize(q[i], f)

LastSize(q, i, f) ==
    /\ i \in DOMAIN q /\ IsSize(q[i], f)
    /\ \A j \in DOMAIN q : IsSize(q[j], f) => j <= i

RootsTell ==
    \A f \in File :
        /\ \A t \in Thread : \A i \in DOMAIN Todo(t) :
                LastSize(Todo(t), i, f) => Todo(t)[i].blks = owned[f]
        /\ (\A t \in Thread : ~HasSize(Todo(t), f)) => cache[Ino(f)].blks = owned[f]

\* BlockGroup::free_blocks_count counts what is neither in use nor waiting to
\* be freed, as long as no write has failed.
CountTells ==
    failed \/ \A g \in Group :
        memFree[g] = Cardinality(BlocksOf(g) \ (InUse \cup Releasing))

MInv == IInv /\ Phases /\ OwnFiles /\ EventsFit /\ BitsTell /\ RootsTell /\ CountTells
-----------------------------------------------------------------------------
(* What the steps do to the queues of a transaction.                       *)

\* What is to do is a sequence of events.
LEMMA TodoType == TypeOK => \A t \in Thread : Todo(t) \in Seq(Event) /\ events[t] \in Seq(Event)
BY ConcatProperties DEF TypeOK, Todo

\* What an event speaks of.
LEMMA EventParts ==
    TypeOK => \A t \in Thread : \A i \in DOMAIN events[t] :
        /\ events[t][i] \in Event /\ events[t][i].kind \in {"alloc", "dealloc", "size"}
        /\ events[t][i].file \in File /\ events[t][i].grp \in Group
        /\ events[t][i].blks \in SUBSET Block
<1> SUFFICES ASSUME TypeOK, NEW t \in Thread, NEW i \in DOMAIN events[t]
             PROVE  /\ events[t][i] \in Event
                    /\ events[t][i].kind \in {"alloc", "dealloc", "size"}
                    /\ events[t][i].file \in File /\ events[t][i].grp \in Group
                    /\ events[t][i].blks \in SUBSET Block
  OBVIOUS
<1>1. events[t] \in Seq(Event)
  BY DEF TypeOK
<1>2. events[t][i] \in Event
  BY <1>1
<1>3. QED
  BY <1>2 DEF Event

\* A transaction without events and inode operations has nothing to do.
LEMMA NothingToDo ==
    \A t \in Thread : events[t] = <<>> /\ ops[t] = <<>> => DOMAIN Todo(t) = {}
BY DEF Todo

\* q is s with two events more at the end.
Grown(q, s, e, r) ==
    /\ DOMAIN s = 1 .. Len(s) /\ Len(s) \in Nat
    /\ DOMAIN q = 1 .. Len(s) + 2
    /\ \A i \in 1 .. Len(s) : q[i] = s[i]
    /\ q[Len(s) + 1] = e
    /\ q[Len(s) + 2] = r
    /\ \A i \in 1 .. Len(s) + 2 : i \in 1 .. Len(s) \/ i = Len(s) + 1 \/ i = Len(s) + 2

\* Concatenation with two events.
LEMMA TwoMore ==
    ASSUME NEW s \in Seq(Event), NEW e \in Event, NEW r \in Event
    PROVE  Grown(s \o <<e, r>>, s, e, r)
<1> DEFINE q == s \o <<e, r>>
<1>1. <<e, r>> \in Seq(Event) /\ Len(<<e, r>>) = 2 /\ <<e, r>>[1] = e /\ <<e, r>>[2] = r
  OBVIOUS
<1>2. DOMAIN s = 1 .. Len(s) /\ Len(s) \in Nat
  OBVIOUS
<1>3. /\ q \in Seq(Event) /\ Len(q) = Len(s) + 2
      /\ \A i \in 1 .. Len(q) : q[i] = IF i <= Len(s) THEN s[i] ELSE <<e, r>>[i - Len(s)]
  BY <1>1, ConcatProperties
<1>4. DOMAIN q = 1 .. Len(s) + 2
  BY <1>3
<1>5. /\ \A i \in 1 .. Len(s) : i \in 1 .. Len(q) /\ i <= Len(s)
      /\ \A i \in {Len(s) + 1, Len(s) + 2} :
            i \in 1 .. Len(q) /\ ~(i <= Len(s)) /\ i - Len(s) = IF i = Len(s) + 1 THEN 1 ELSE 2
      /\ Len(s) + 1 # Len(s) + 2
  BY <1>2, <1>3
<1>6. \A i \in 1 .. Len(s) : q[i] = s[i]
  BY <1>3, <1>5
<1>7. q[Len(s) + 1] = e /\ q[Len(s) + 2] = r
  BY <1>1, <1>3, <1>5
<1>8. \A i \in 1 .. Len(s) + 2 : i \in 1 .. Len(s) \/ i = Len(s) + 1 \/ i = Len(s) + 2
  BY <1>2
<1>9. QED
  BY <1>2, <1>4, <1>6, <1>7, <1>8 DEF Grown

\* Recording an operation on f adds an event e, and the new root of f, at the
\* end of what transaction t has recorded and has to do.
LEMMA RecordGrows ==
    ASSUME TypeOK, NEW t \in Thread, NEW f \in File, NEW e \in Event,
           NEW map \in SUBSET Block, Record(t, f, e, map), ops' = ops
    PROVE  \E r \in Event :
            /\ r.kind = "size" /\ r.file = e.file /\ r.blks = map
            /\ Grown(events'[t], events[t], e, r)
            /\ Grown(Todo(t)', Todo(t), e, r)
            /\ \A u \in Thread : u # t => events'[u] = events[u] /\ Todo(u)' = Todo(u)
<1> DEFINE r == [e EXCEPT !.kind = "size", !.blks = map]
<1>1. r \in Event /\ r.kind = "size" /\ r.file = e.file /\ r.blks = map
  BY DEF Event
<1>2. /\ events'[t] = events[t] \o <<e, r>>
      /\ \A u \in Thread : u # t => events'[u] = events[u]
  BY DEF Record, TypeOK
<1> HIDE DEF r
<1>3. /\ events[t] \in Seq(Event) /\ ops[t] \in Seq(Event) /\ Todo(t) \in Seq(Event)
      /\ <<e, r>> \in Seq(Event)
  <2>1. <<e, r>> \in Seq(Event)
    BY <1>1
  <2>2. QED
    BY <2>1, TodoType DEF TypeOK
<1>4. Todo(t)' = Todo(t) \o <<e, r>>
  <2>1. (ops[t] \o events[t]) \o <<e, r>> = ops[t] \o (events[t] \o <<e, r>>)
    <3>1. \A a, b, c \in Seq(Event) : (a \o b) \o c = a \o (b \o c)
      OBVIOUS
    <3>2. QED
      BY <1>3, <3>1
  <2>2. QED
    BY <1>2, <2>1 DEF Todo
<1>5. \A u \in Thread : u # t => Todo(u)' = Todo(u)
  BY <1>2 DEF Todo
<1>6. Grown(events'[t], events[t], e, r)
  BY <1>1, <1>2, <1>3, TwoMore
<1>7. Grown(Todo(t)', Todo(t), e, r)
  BY <1>1, <1>3, <1>4, TwoMore
<1>8. QED
  BY <1>1, <1>2, <1>5, <1>6, <1>7

\* compress moves the first event to the inode operations: what is to do stays.
LEMMA CompressTodo ==
    ASSUME TypeOK, NEW t \in Thread, Compress(t)
    PROVE  \A u \in Thread : Todo(u)' = Todo(u)
<1> DEFINE h == Head(events[t])
<1>1. /\ events[t] # <<>> /\ events' = [events EXCEPT ![t] = Tail(@)]
      /\ ops' = [ops EXCEPT ![t] = Append(@, h)]
  BY DEF Compress
<1>2. ops[t] \in Seq(Event) /\ events[t] \in Seq(Event)
  BY DEF TypeOK
<1>3. \A a, b \in Seq(Event) : b # <<>> => Append(a, Head(b)) \o Tail(b) = a \o b
  OBVIOUS
<1>4. Append(ops[t], h) \o Tail(events[t]) = ops[t] \o events[t]
  BY <1>1, <1>2, <1>3
<1> HIDE DEF h
<1>5. /\ events'[t] = Tail(events[t]) /\ ops'[t] = Append(ops[t], h)
      /\ \A u \in Thread : u # t => events'[u] = events[u] /\ ops'[u] = ops[u]
  BY <1>1 DEF TypeOK
<1>6. QED
  BY <1>4, <1>5 DEF Todo

\* An inode operation that is done was the first of what is to do.
LEMMA OpDone ==
    ASSUME IInv, NEW t \in Thread, SubmitInodeOp(t)
    PROVE  /\ 1 \in DOMAIN Todo(t) /\ Todo(t)[1] = Head(ops[t]) /\ Head(ops[t]) \in Event
           /\ \A i \in DOMAIN Todo(t)' :
                i \in Nat /\ i + 1 \in DOMAIN Todo(t) /\ i + 1 # 1
                /\ Todo(t)'[i] = Todo(t)[i + 1]
           /\ \A i \in DOMAIN Todo(t) : i # 1 =>
                i \in Nat /\ i - 1 \in DOMAIN Todo(t)' /\ Todo(t)'[i - 1] = Todo(t)[i]
           /\ \A u \in Thread : u # t => Todo(u)' = Todo(u)
<1>1. /\ events[t] = <<>> /\ events' = events
      /\ ops[t] # <<>> /\ ops' = [ops EXCEPT ![t] = Tail(@)]
  BY DEF SubmitInodeOp, IInv, ReleasedOnce
<1>2. ops[t] \in Seq(Event) /\ ops'[t] = Tail(ops[t])
      /\ \A u \in Thread : u # t => ops'[u] = ops[u]
  BY <1>1 DEF IInv, TypeOK
<1>3. Tail(ops[t]) \in Seq(Event) /\ Head(ops[t]) \in Event
  BY <1>1, <1>2
<1>4. \A s \in Seq(Event) : s \o <<>> = s
  OBVIOUS
<1>5. Todo(t) = ops[t] /\ Todo(t)' = Tail(ops[t])
  BY <1>1, <1>2, <1>3, <1>4 DEF Todo
<1>6. \A u \in Thread : u # t => Todo(u)' = Todo(u)
  BY <1>1, <1>2 DEF Todo
<1> DEFINE n == Len(ops[t])
<1>7. /\ n \in Nat /\ n > 0 /\ DOMAIN ops[t] = 1 .. n
      /\ DOMAIN Tail(ops[t]) = 1 .. n - 1
      /\ \A i \in 1 .. n - 1 : Tail(ops[t])[i] = ops[t][i + 1]
      /\ ops[t][1] = Head(ops[t])
  <2>1. /\ Len(Tail(ops[t])) = n - 1
        /\ \A i \in 1 .. Len(Tail(ops[t])) : Tail(ops[t])[i] = ops[t][i + 1]
    BY <1>1, <1>2, HeadTailProperties
  <2>2. QED
    BY <1>1, <1>2, <1>3, <2>1
<1> HIDE DEF n
<1>8. \A i \in 1 .. n : i # 1 => i \in Nat /\ i - 1 \in 1 .. n - 1 /\ (i - 1) + 1 = i
  BY <1>7
<1>9. \A i \in 1 .. n - 1 : i \in Nat /\ i + 1 \in 1 .. n /\ i + 1 # 1
  BY <1>7
<1>10. 1 \in 1 .. n
  BY <1>7
<1>11. QED
  BY <1>3, <1>5, <1>6, <1>7, <1>8, <1>9, <1>10

-----------------------------------------------------------------------------
(* What the steps do to the blocks that wait to be marked.                 *)

\* A block waits to be marked when an allocation of the transaction has it,
\* and to be unmarked when a deallocation has it.
LEMMA Waiting ==
    \A t \in Thread : \A b :
        /\ b \in Allocated(t) <=>
            \E i \in DOMAIN events[t] : events[t][i].kind = "alloc" /\ b \in events[t][i].blks
        /\ b \in Recorded(t) <=>
            \E i \in DOMAIN events[t] : events[t][i].kind = "dealloc" /\ b \in events[t][i].blks
BY DEF Allocated, Recorded

\* A block of an allocation belongs to a file the transaction works on.
LEMMA EventFiles ==
    TypeOK /\ OwnFiles =>
        \A t \in Thread : \A i \in DOMAIN events[t] : events[t][i].file \in using[t]
<1> SUFFICES ASSUME TypeOK, OwnFiles, NEW t \in Thread, NEW i \in DOMAIN events[t]
             PROVE  events[t][i].file \in using[t]
  OBVIOUS
<1>1. ops[t] \in Seq(Event) /\ events[t] \in Seq(Event)
  BY DEF TypeOK
<1>2. \A a, b \in Seq(Event) : \A k \in DOMAIN b :
        Len(a) + k \in DOMAIN (a \o b) /\ (a \o b)[Len(a) + k] = b[k]
  <2> SUFFICES ASSUME NEW a \in Seq(Event), NEW b \in Seq(Event), NEW k \in DOMAIN b
               PROVE  Len(a) + k \in DOMAIN (a \o b) /\ (a \o b)[Len(a) + k] = b[k]
    OBVIOUS
  <2>1. /\ a \o b \in Seq(Event) /\ Len(a \o b) = Len(a) + Len(b)
        /\ \A j \in 1 .. Len(a) + Len(b) :
                (a \o b)[j] = IF j <= Len(a) THEN a[j] ELSE b[j - Len(a)]
    BY ConcatProperties
  <2>2. /\ Len(a) \in Nat /\ Len(b) \in Nat /\ k \in 1 .. Len(b)
        /\ DOMAIN (a \o b) = 1 .. Len(a) + Len(b)
    BY <2>1
  <2>3. /\ Len(a) + k \in 1 .. Len(a) + Len(b) /\ ~(Len(a) + k <= Len(a))
        /\ (Len(a) + k) - Len(a) = k
    BY <2>2
  <2>4. QED
    BY <2>1, <2>2, <2>3
<1>3. /\ Len(ops[t]) + i \in DOMAIN (ops[t] \o events[t])
      /\ (ops[t] \o events[t])[Len(ops[t]) + i] = events[t][i]
  BY <1>1, <1>2
<1>4. QED
  BY <1>3 DEF OwnFiles, Todo

\* What two transactions wait to mark is different, and so is what one has
\* taken from a file it works on.
LEMMA AllocatedApart ==
    IInv /\ OwnFiles /\ EventsFit =>
        /\ \A t, u \in Thread : t # u => Allocated(t) \cap Allocated(u) = {}
        /\ \A t \in Thread : Allocated(t) \subseteq InUse
        /\ \A t \in Thread, f \in File : f \notin using[t] => Allocated(t) \cap owned[f] = {}
<1> SUFFICES ASSUME IInv, OwnFiles, EventsFit
             PROVE  /\ \A t, u \in Thread : t # u => Allocated(t) \cap Allocated(u) = {}
                    /\ \A t \in Thread : Allocated(t) \subseteq InUse
                    /\ \A t \in Thread, f \in File :
                            f \notin using[t] => Allocated(t) \cap owned[f] = {}
  OBVIOUS
<1>1. ASSUME NEW t \in Thread, NEW b \in Allocated(t)
      PROVE  \E f \in File : f \in using[t] /\ b \in owned[f]
  <2>1. PICK i \in DOMAIN events[t] : events[t][i].kind = "alloc" /\ b \in events[t][i].blks
    BY Waiting
  <2>2. events[t][i].file \in using[t] /\ using[t] \subseteq File
    BY EventFiles DEF IInv, TypeOK
  <2>3. b \in owned[events[t][i].file]
    BY <2>1 DEF EventsFit
  <2>4. QED
    BY <2>2, <2>3
<1>2. \A f, h \in File : f # h => owned[f] \cap owned[h] = {}
  BY DEF IInv, OwnershipExclusive
<1>3. ASSUME NEW t \in Thread PROVE Allocated(t) \subseteq InUse
  BY <1>1 DEF InUse
<1>4. ASSUME NEW t \in Thread, NEW f \in File, f \notin using[t]
      PROVE  Allocated(t) \cap owned[f] = {}
  BY <1>1, <1>2, <1>4
<1>5. ASSUME NEW t \in Thread, NEW u \in Thread, t # u
      PROVE  Allocated(t) \cap Allocated(u) = {}
  <2>1. using[t] \cap using[u] = {}
    BY <1>5 DEF OwnFiles
  <2>2. QED
    BY <1>1, <1>2, <2>1
<1>6. QED
  BY <1>3, <1>4, <1>5

\* Recording an allocation adds its blocks to those waiting to be marked.
LEMMA GrownAllocated ==
    ASSUME NEW t \in Thread, NEW e, NEW r, r.kind = "size",
           Grown(events'[t], events[t], e, r),
           \A u \in Thread : u # t => events'[u] = events[u]
    PROVE  /\ Allocated(t)' = Allocated(t) \cup (IF e.kind = "alloc" THEN e.blks ELSE {})
           /\ Recorded(t)' = Recorded(t) \cup (IF e.kind = "dealloc" THEN e.blks ELSE {})
           /\ \A u \in Thread : u # t =>
                Allocated(u)' = Allocated(u) /\ Recorded(u)' = Recorded(u)
<1> DEFINE n == Len(events[t])
<1>1. /\ DOMAIN events[t] = 1 .. n /\ n \in Nat
      /\ DOMAIN events'[t] = 1 .. n + 2
      /\ \A i \in 1 .. n : events'[t][i] = events[t][i]
      /\ events'[t][n + 1] = e
      /\ events'[t][n + 2] = r
      /\ \A i \in 1 .. n + 2 : i \in 1 .. n \/ i = n + 1 \/ i = n + 2
  BY DEF Grown
<1> HIDE DEF n
<1>2. n + 1 \in 1 .. n + 2 /\ \A i \in 1 .. n : i \in 1 .. n + 2
  BY <1>1
<1>3. \A b, k : k # "size" =>
        ((\E i \in DOMAIN events'[t] : events'[t][i].kind = k /\ b \in events'[t][i].blks)
         <=> \/ \E i \in DOMAIN events[t] : events[t][i].kind = k /\ b \in events[t][i].blks
             \/ e.kind = k /\ b \in e.blks)
  <2> SUFFICES ASSUME NEW b, NEW k, k # "size"
               PROVE  (\E i \in DOMAIN events'[t] :
                            events'[t][i].kind = k /\ b \in events'[t][i].blks)
                      <=> \/ \E i \in DOMAIN events[t] :
                                events[t][i].kind = k /\ b \in events[t][i].blks
                          \/ e.kind = k /\ b \in e.blks
    OBVIOUS
  <2>1. ASSUME NEW i \in DOMAIN events'[t], events'[t][i].kind = k, b \in events'[t][i].blks
        PROVE  \/ \E j \in DOMAIN events[t] :
                    events[t][j].kind = k /\ b \in events[t][j].blks
               \/ e.kind = k /\ b \in e.blks
    BY <1>1, <2>1
  <2>2. ASSUME NEW i \in DOMAIN events[t], events[t][i].kind = k, b \in events[t][i].blks
        PROVE  \E j \in DOMAIN events'[t] :
                    events'[t][j].kind = k /\ b \in events'[t][j].blks
    BY <1>1, <1>2, <2>2
  <2>3. ASSUME e.kind = k, b \in e.blks
        PROVE  \E j \in DOMAIN events'[t] :
                    events'[t][j].kind = k /\ b \in events'[t][j].blks
    BY <1>1, <1>2, <2>3
  <2>4. QED
    BY <2>1, <2>2, <2>3
<1>4. \A b : b \in Allocated(t)' <=> b \in Allocated(t) \/ (e.kind = "alloc" /\ b \in e.blks)
  <2>1. \A b : b \in Allocated(t)' <=>
            \E i \in DOMAIN events'[t] : events'[t][i].kind = "alloc" /\ b \in events'[t][i].blks
    BY DEF Allocated
  <2>2. QED
    BY <1>3, <2>1, Waiting
<1>5. \A b : b \in Recorded(t)' <=> b \in Recorded(t) \/ (e.kind = "dealloc" /\ b \in e.blks)
  <2>1. \A b : b \in Recorded(t)' <=>
            \E i \in DOMAIN events'[t] :
                events'[t][i].kind = "dealloc" /\ b \in events'[t][i].blks
    BY DEF Recorded
  <2>2. QED
    BY <1>3, <2>1, Waiting
<1>6. \A u \in Thread : u # t => Allocated(u)' = Allocated(u) /\ Recorded(u)' = Recorded(u)
  BY DEF Allocated, Recorded
<1>7. Allocated(t)' = Allocated(t) \cup (IF e.kind = "alloc" THEN e.blks ELSE {})
  BY <1>4
<1>8. Recorded(t)' = Recorded(t) \cup (IF e.kind = "dealloc" THEN e.blks ELSE {})
  BY <1>5
<1>9. QED
  BY <1>6, <1>7, <1>8

-----------------------------------------------------------------------------
(* Steps that leave bits or roots alone.                                   *)

\* The bits agree as long as no bitmap, no file and no event changes.
LEMMA SameBits ==
    ASSUME BitsTell, owned' = owned,
           \A g \in Group : cache'[Bitmap(g)].blks = cache[Bitmap(g)].blks,
           \A u \in Thread : Allocated(u)' = Allocated(u) /\ Recorded(u)' = Recorded(u)
    PROVE  BitsTell'
<1>1. InUse' = InUse
  BY DEF InUse
<1>2. ASSUME NEW h \in Group, NEW b \in Block
      PROVE  b \in cache'[Bitmap(h)].blks <=>
                /\ GroupOf[b] = h
                /\ \/ b \in InUse' /\ \A u \in Thread : b \notin Allocated(u)'
                   \/ \E u \in Thread : b \in Recorded(u)'
  BY <1>1 DEF BitsTell
<1>3. QED
  BY <1>2 DEF BitsTell, Bitmap

\* The roots agree as long as no inode, no file and nothing to do changes.
LEMMA SameRoots ==
    ASSUME RootsTell, owned' = owned,
           \A f \in File : cache'[Ino(f)].blks = cache[Ino(f)].blks,
           \A u \in Thread : Todo(u)' = Todo(u)
    PROVE  RootsTell'
<1>1. ASSUME NEW f \in File, NEW u \in Thread, NEW i \in DOMAIN Todo(u)',
             LastSize(Todo(u)', i, f)
      PROVE  Todo(u)'[i].blks = owned'[f]
  BY <1>1 DEF RootsTell
<1>2. ASSUME NEW f \in File, \A u \in Thread : ~HasSize(Todo(u)', f)
      PROVE  cache'[Ino(f)].blks = owned'[f]
  BY <1>2 DEF RootsTell
<1>3. QED
  BY <1>1, <1>2 DEF RootsTell, Ino

-----------------------------------------------------------------------------
(* A file operation.                                                       *)

\* The new root is the last one of its file; other files keep theirs.
LEMMA GrownSizes ==
    ASSUME NEW q, NEW s, NEW e, NEW r, Grown(q, s, e, r),
           r.kind = "size", r.file = e.file, e.kind # "size"
    PROVE  /\ HasSize(q, e.file)
           /\ \A i \in DOMAIN q : LastSize(q, i, e.file) => q[i] = r
           /\ \A h : h # e.file =>
                /\ HasSize(s, h) => HasSize(q, h)
                /\ \A i \in DOMAIN q : LastSize(q, i, h) =>
                        i \in DOMAIN s /\ LastSize(s, i, h) /\ q[i] = s[i]
<1> DEFINE n == Len(s)
<1>1. /\ DOMAIN s = 1 .. n /\ n \in Nat
      /\ DOMAIN q = 1 .. n + 2
      /\ \A i \in 1 .. n : q[i] = s[i]
      /\ q[n + 1] = e
      /\ q[n + 2] = r
      /\ \A i \in 1 .. n + 2 : i \in 1 .. n \/ i = n + 1 \/ i = n + 2
  BY DEF Grown
<1> HIDE DEF n
<1>2. n + 1 \in DOMAIN q /\ n + 2 \in DOMAIN q /\ \A i \in DOMAIN s : i \in DOMAIN q
  BY <1>1
<1>3. IsSize(q[n + 2], e.file)
  BY <1>1 DEF IsSize
<1>4. \A i \in DOMAIN q : n + 2 <= i => i = n + 2
  BY <1>1
<1>5. ASSUME NEW i \in DOMAIN q, LastSize(q, i, e.file)
      PROVE  q[i] = r
  <2>1. n + 2 <= i
    BY <1>2, <1>3, <1>5, Zenon DEF LastSize
  <2>2. QED
    BY <1>1, <1>4, <2>1
<1>6. ASSUME NEW h, h # e.file, HasSize(s, h)
      PROVE  HasSize(q, h)
  BY <1>1, <1>2, <1>6 DEF HasSize
<1>7. ASSUME NEW h, h # e.file, NEW i \in DOMAIN q, LastSize(q, i, h)
      PROVE  i \in DOMAIN s /\ LastSize(s, i, h) /\ q[i] = s[i]
  <2>1. IsSize(q[i], h) /\ \A j \in DOMAIN q : IsSize(q[j], h) => j <= i
    BY <1>7, Zenon DEF LastSize
  <2>2. q[i] # e /\ q[i] # r
    BY <1>7, <2>1 DEF IsSize
  <2>3. i \in DOMAIN s /\ q[i] = s[i]
    BY <1>1, <2>2
  <2>4. \A j \in DOMAIN s : j \in DOMAIN q /\ q[j] = s[j]
    BY <1>1, <1>2
  <2>5. QED
    BY <2>1, <2>3, <2>4, Zenon DEF LastSize
<1>8. HasSize(q, e.file)
  BY <1>2, <1>3 DEF HasSize
<1>9. QED
  BY <1>5, <1>6, <1>7, <1>8

\* Recording keeps a transaction to its own files and queues the new root.
LEMMA RecordStep ==
    ASSUME MInv, PrivateFiles, NEW t \in Thread, NEW e \in Event,
           NEW map \in SUBSET Block, e.kind # "size", Record(t, e.file, e, map),
           UNCHANGED <<ops, pc, post, cache>>
    PROVE  Phases' /\ OwnFiles' /\ RootsTell'
<1> DEFINE f == e.file
<1>1. TypeOK /\ OwnFiles /\ Phases /\ RootsTell
  BY DEF MInv, IInv
<1>2. f \in File
  BY DEF Event
<1>3. PICK r \in Event :
        /\ r.kind = "size" /\ r.file = e.file /\ r.blks = map
        /\ Grown(Todo(t)', Todo(t), e, r)
        /\ \A u \in Thread : u # t => Todo(u)' = Todo(u)
  BY <1>1, <1>2, RecordGrows
<1>4. /\ \A u \in Thread : u # t => f \notin using[u] /\ using'[u] = using[u]
      /\ using'[t] = using[t] \cup {f}
      /\ \A h \in File : owned'[h] = IF h = f THEN map ELSE owned[h]
  BY <1>1, <1>2 DEF Record, MayUse, PrivateFiles, OneThread, TypeOK
<1>5. \A u \in Thread : u # t => \A i \in DOMAIN Todo(u) : Todo(u)[i].file # f
  BY <1>1, <1>4 DEF OwnFiles
<1> HIDE DEF f
<1>6. OwnFiles'
  <2>1. \A u, v \in Thread : u # v => using'[u] \cap using'[v] = {}
    BY <1>1, <1>4 DEF OwnFiles
  <2>2. ASSUME NEW i \in DOMAIN Todo(t)' PROVE Todo(t)'[i].file \in using'[t]
    <3>1. \/ i \in DOMAIN Todo(t) /\ Todo(t)'[i] = Todo(t)[i]
          \/ Todo(t)'[i] = e \/ Todo(t)'[i] = r
      BY <1>3 DEF Grown
    <3>2. \A j \in DOMAIN Todo(t) : Todo(t)[j].file \in using[t]
      BY <1>1 DEF OwnFiles
    <3>3. QED
      BY <1>3, <1>4, <3>1, <3>2 DEF f
  <2>3. \A u \in Thread : \A i \in DOMAIN Todo(u)' : Todo(u)'[i].file \in using'[u]
    <3>1. \A u \in Thread : \A i \in DOMAIN Todo(u) : Todo(u)[i].file \in using[u]
      BY <1>1 DEF OwnFiles
    <3>2. QED
      BY <1>3, <1>4, <2>2, <3>1
  <2>4. QED
    BY <2>1, <2>3 DEF OwnFiles
<1>7. RootsTell'
  <2>1. ASSUME NEW h \in File, NEW u \in Thread, NEW i \in DOMAIN Todo(u)',
               LastSize(Todo(u)', i, h)
        PROVE  Todo(u)'[i].blks = owned'[h]
    <3>1. CASE u = t /\ h = f
      <4>1. Todo(t)'[i] = r
        BY <1>3, <2>1, <3>1, GrownSizes DEF f
      <4>2. QED
        BY <1>2, <1>3, <1>4, <3>1, <4>1
    <3>2. CASE u = t /\ h # f
      <4>1. i \in DOMAIN Todo(t) /\ LastSize(Todo(t), i, h) /\ Todo(t)'[i] = Todo(t)[i]
        BY <1>3, <2>1, <3>2, GrownSizes DEF f
      <4>2. QED
        BY <1>1, <1>4, <3>2, <4>1 DEF RootsTell
    <3>3. CASE u # t
      <4>1. i \in DOMAIN Todo(u) /\ LastSize(Todo(u), i, h) /\ Todo(u)'[i] = Todo(u)[i]
        BY <1>3, <2>1, <3>3
      <4>2. h # f
        BY <1>5, <3>3, <4>1 DEF LastSize, IsSize
      <4>3. QED
        BY <1>1, <1>4, <4>1, <4>2 DEF RootsTell
    <3>4. QED
      BY <3>1, <3>2, <3>3
  <2>2. ASSUME NEW h \in File, \A u \in Thread : ~HasSize(Todo(u)', h)
        PROVE  cache'[Ino(h)].blks = owned'[h]
    <3>1. h # f
      BY <1>3, <2>2, GrownSizes DEF f
    <3>2. ~HasSize(Todo(t), h)
      BY <1>3, <2>2, <3>1, GrownSizes DEF f
    <3>3. \A u \in Thread : ~HasSize(Todo(u), h)
      BY <1>3, <2>2, <3>2
    <3>4. QED
      BY <1>1, <1>4, <3>1, <3>3 DEF RootsTell
  <2>3. QED
    BY <2>1, <2>2 DEF RootsTell, Ino
<1>8. Phases'
  BY <1>1 DEF Phases
<1>9. QED
  BY <1>6, <1>7, <1>8

\* Counting the blocks of a group without some of them.
LEMMA CountWithout ==
    ASSUME NEW A \in SUBSET Block, NEW S \in SUBSET Block, S \subseteq A
    PROVE  /\ Cardinality(A \ S) = Cardinality(A) - Cardinality(S)
           /\ Cardinality(A) \in Int /\ Cardinality(S) \in Int /\ Cardinality(A \ S) \in Int
<1>1. IsFiniteSet(A) /\ IsFiniteSet(S)
  BY ConstantsOK, FS_Subset
<1>2. Cardinality(A \ S) = Cardinality(A) - Cardinality(A \cap S)
  BY <1>1, FS_Difference
<1>3. A \cap S = S
  OBVIOUS
<1>4. QED
  BY <1>2, <1>3, CardinalityInt

\* The blocks an extension takes were free: no bit was set for them, and none
\* will be before the event is applied.
LEMMA ExtendMemory ==
    ASSUME MInv, PrivateFiles, NEW t \in Thread, NEW f \in File, NEW S \in SUBSET Block,
           NEW lost \in SUBSET Block, Extend(t, f, S, lost)
    PROVE  Phases' /\ OwnFiles' /\ EventsFit' /\ BitsTell' /\ RootsTell' /\ CountTells'
<1>1. PICK g \in Group :
        /\ S \subseteq free \cap BlocksOf(g)
        /\ free' = free \ (S \cup lost)
        /\ memFree' = [memFree EXCEPT ![g] = @ - Cardinality(S)]
        /\ Record(t, f, [kind |-> "alloc", file |-> f, grp |-> g, blks |-> S],
                  owned[f] \cup S)
        /\ post' = post /\ pc' = pc /\ cache' = cache /\ ops' = ops /\ failed' = failed
  BY DEF Extend, colVars, grpVars
<1> DEFINE e == [kind |-> "alloc", file |-> f, grp |-> g, blks |-> S]
<1>2. e \in Event /\ e.kind = "alloc" /\ e.file = f /\ e.blks = S /\ e.grp = g
  BY DEF Event
<1>3. Record(t, e.file, e, owned[f] \cup S)
  BY <1>1
<1> HIDE DEF e
<1>4. /\ TypeOK /\ OwnershipExclusive /\ OwnFiles /\ EventsFit /\ BitsTell /\ CountTells
      /\ owned[f] \cup S \in SUBSET Block
  BY DEF MInv, IInv, TypeOK
<1>5. Phases' /\ OwnFiles' /\ RootsTell'
  BY <1>1, <1>2, <1>3, <1>4, RecordStep
<1>6. PICK r \in Event :
        /\ r.kind = "size"
        /\ Grown(events'[t], events[t], e, r)
        /\ \A u \in Thread : u # t => events'[u] = events[u]
  BY <1>1, <1>2, <1>3, <1>4, RecordGrows
<1>7. /\ Allocated(t)' = Allocated(t) \cup S
      /\ \A u \in Thread : u # t => Allocated(u)' = Allocated(u)
      /\ \A u \in Thread : Recorded(u)' = Recorded(u)
  BY <1>2, <1>6, GrownAllocated
<1>8. /\ \A h \in File : owned'[h] = IF h = f THEN owned[f] \cup S ELSE owned[h]
      /\ \A i \in DOMAIN events[t] : events[t][i].kind \in {"alloc", "size"}
  BY <1>2, <1>3, <1>4 DEF Record, TypeOK
<1>9. InUse' = InUse \cup S
  BY <1>8 DEF InUse
<1>10. \A u \in Thread : ReleasedBy(u)' = ReleasedBy(u)
  BY <1>1, <1>7 DEF ReleasedBy
<1>11. Releasing' = Releasing
  BY <1>10 DEF Releasing
<1>12. S \cap InUse = {} /\ S \cap Releasing = {}
  BY <1>1, <1>4 DEF OwnershipExclusive
<1>13. EventsFit'
  <2>1. ASSUME NEW i \in DOMAIN events'[t]
        PROVE  \/ i \in DOMAIN events[t] /\ events'[t][i] = events[t][i]
               \/ events'[t][i] = e /\ i = Len(events[t]) + 1
               \/ events'[t][i] = r
    BY <1>6 DEF Grown
  <2>2. \A i \in DOMAIN events[t] :
            events[t][i].kind = "alloc" => events[t][i].blks \subseteq owned[events[t][i].file]
    BY <1>4 DEF EventsFit
  <2>3. \A i \in DOMAIN events[t] : events[t][i].file \in File
    BY <1>4, EventParts
  <2>4. \A i \in DOMAIN events[t] : events[t][i].kind = "alloc" => events[t][i].blks \cap S = {}
    BY <1>12, <2>2, <2>3 DEF InUse
  <2>5. ASSUME NEW i \in DOMAIN events'[t]
        PROVE  /\ events'[t][i].kind # "size" =>
                    events'[t][i].blks \subseteq BlocksOf(events'[t][i].grp)
               /\ events'[t][i].kind = "alloc" =>
                    events'[t][i].blks \subseteq owned'[events'[t][i].file]
               /\ events'[t][i].kind # "dealloc"
    <3>1. CASE i \in DOMAIN events[t] /\ events'[t][i] = events[t][i]
      BY <1>4, <1>8, <2>2, <2>3, <3>1 DEF EventsFit
    <3>2. CASE events'[t][i] = e
      BY <1>1, <1>2, <1>8, <3>2
    <3>3. CASE events'[t][i] = r
      BY <1>6, <3>3
    <3>4. QED
      BY <2>1, <3>1, <3>2, <3>3
  <2>6. ASSUME NEW i \in DOMAIN events'[t], NEW j \in DOMAIN events'[t], i # j,
               events'[t][i].kind = "alloc", events'[t][j].kind = "alloc"
        PROVE  events'[t][i].blks \cap events'[t][j].blks = {}
    <3>1. \A k, l \in DOMAIN events[t] :
            k # l /\ events[t][k].kind = "alloc" /\ events[t][l].kind = "alloc"
                => events[t][k].blks \cap events[t][l].blks = {}
      BY <1>4 DEF EventsFit
    <3>2. QED
      BY <1>2, <1>6, <2>1, <2>4, <2>6, <3>1
  <2>7. ASSUME NEW u \in Thread, u # t, NEW i \in DOMAIN events[u]
        PROVE  events[u][i].kind = "alloc" => events[u][i].blks \subseteq owned'[events[u][i].file]
    <3>1. events[u][i].file \in File
      BY <1>4, EventParts
    <3>2. QED
      BY <1>4, <1>8, <3>1 DEF EventsFit
  <2>8. ASSUME NEW u \in Thread, NEW i \in DOMAIN events'[u]
        PROVE  /\ events'[u][i].kind # "size" =>
                    events'[u][i].blks \subseteq BlocksOf(events'[u][i].grp)
               /\ events'[u][i].kind = "alloc" =>
                    /\ events'[u][i].blks \subseteq owned'[events'[u][i].file]
                    /\ \A j \in DOMAIN events'[u] :
                        /\ events'[u][j].kind # "dealloc"
                        /\ i # j /\ events'[u][j].kind = "alloc"
                            => events'[u][i].blks \cap events'[u][j].blks = {}
    <3>1. CASE u = t
      BY <2>5, <2>6, <3>1
    <3>2. CASE u # t
      BY <1>4, <1>6, <2>7, <3>2 DEF EventsFit
    <3>3. QED
      BY <3>1, <3>2
  <2>9. QED
    BY <2>8 DEF EventsFit, BlocksOf
<1>14. BitsTell'
  <2>1. \A b \in S : b \notin InUse /\ \A u \in Thread : b \notin Recorded(u)
    BY <1>12 DEF Releasing, ReleasedBy
  <2>2. ASSUME NEW h \in Group, NEW b \in Block
        PROVE  b \in cache'[Bitmap(h)].blks <=>
                /\ GroupOf[b] = h
                /\ \/ b \in InUse' /\ \A u \in Thread : b \notin Allocated(u)'
                   \/ \E u \in Thread : b \in Recorded(u)'
    <3>1. b \in cache[Bitmap(h)].blks <=>
                /\ GroupOf[b] = h
                /\ \/ b \in InUse /\ \A u \in Thread : b \notin Allocated(u)
                   \/ \E u \in Thread : b \in Recorded(u)
      BY <1>4 DEF BitsTell
    <3>2. CASE b \in S
      BY <1>1, <1>7, <2>1, <3>1, <3>2
    <3>3. CASE b \notin S
      <4>1. \A u \in Thread : b \in Allocated(u)' <=> b \in Allocated(u)
        BY <1>7, <3>3
      <4>2. QED
        BY <1>1, <1>7, <1>9, <3>1, <3>3, <4>1
    <3>4. QED
      BY <3>2, <3>3
  <2>3. QED
    BY <2>2 DEF BitsTell, Bitmap
<1>15. CountTells'
  <2>1. ASSUME ~failed, NEW h \in Group
        PROVE  memFree'[h] = Cardinality(BlocksOf(h) \ (InUse' \cup Releasing'))
    <3> DEFINE A == BlocksOf(h) \ (InUse \cup Releasing)
    <3>1. memFree[h] = Cardinality(A) /\ memFree[h] \in Int /\ A \in SUBSET Block
      BY <1>4, <2>1 DEF CountTells, BlocksOf, TypeOK
    <3>2. BlocksOf(h) \ (InUse' \cup Releasing') = A \ S
      BY <1>9, <1>11
    <3>3. CASE h = g
      <4>1. S \subseteq A
        BY <1>1, <1>12, <3>3
      <4> HIDE DEF A
      <4>2. memFree'[h] = memFree[h] - Cardinality(S)
        BY <1>1, <1>4, <3>3 DEF TypeOK
      <4>3. QED
        BY <3>1, <3>2, <4>1, <4>2, CountWithout
    <3>4. CASE h # g
      <4>1. A \ S = A
        BY <1>1, <3>4 DEF BlocksOf
      <4>2. memFree'[h] = memFree[h]
        BY <1>1, <1>4, <3>4 DEF TypeOK
      <4>3. QED
        BY <3>1, <3>2, <4>1, <4>2
    <3>5. QED
      BY <3>3, <3>4
  <2>2. QED
    BY <1>1, <2>1 DEF CountTells, BlocksOf
<1>16. QED
  BY <1>5, <1>13, <1>14, <1>15

\* The blocks a truncation takes were marked: they belonged to a file no other
\* transaction works on, and this one has allocated none.
LEMMA TruncateMemory ==
    ASSUME MInv, PrivateFiles, NEW t \in Thread, NEW f \in File, NEW S \in SUBSET Block,
           Truncate(t, f, S)
    PROVE  Phases' /\ OwnFiles' /\ EventsFit' /\ BitsTell' /\ RootsTell' /\ CountTells'
<1>1. PICK g \in Group :
        /\ S \subseteq owned[f] \cap BlocksOf(g)
        /\ free' = free /\ memFree' = memFree
        /\ Record(t, f, [kind |-> "dealloc", file |-> f, grp |-> g, blks |-> S],
                  owned[f] \ S)
        /\ post' = post /\ pc' = pc /\ cache' = cache /\ ops' = ops /\ failed' = failed
  BY DEF Truncate, colVars, grpVars
<1> DEFINE e == [kind |-> "dealloc", file |-> f, grp |-> g, blks |-> S]
<1>2. e \in Event /\ e.kind = "dealloc" /\ e.file = f /\ e.blks = S /\ e.grp = g
  BY DEF Event
<1>3. Record(t, e.file, e, owned[f] \ S)
  BY <1>1
<1> HIDE DEF e
<1>4. /\ TypeOK /\ OwnershipExclusive /\ OwnFiles /\ EventsFit /\ BitsTell /\ CountTells
      /\ owned[f] \ S \in SUBSET Block
  BY DEF MInv, IInv, TypeOK
<1>5. Phases' /\ OwnFiles' /\ RootsTell'
  BY <1>1, <1>2, <1>3, <1>4, RecordStep
<1>6. PICK r \in Event :
        /\ r.kind = "size"
        /\ Grown(events'[t], events[t], e, r)
        /\ \A u \in Thread : u # t => events'[u] = events[u]
  BY <1>1, <1>2, <1>3, <1>4, RecordGrows
<1>7. /\ \A u \in Thread : Allocated(u)' = Allocated(u)
      /\ Recorded(t)' = Recorded(t) \cup S
      /\ \A u \in Thread : u # t => Recorded(u)' = Recorded(u)
  BY <1>2, <1>6, GrownAllocated
<1>8. /\ \A h \in File : owned'[h] = IF h = f THEN owned[f] \ S ELSE owned[h]
      /\ \A i \in DOMAIN events[t] : events[t][i].kind \in {"dealloc", "size"}
      /\ \A u \in Thread : u # t => f \notin using[u]
  BY <1>2, <1>3, <1>4 DEF Record, MayUse, PrivateFiles, OneThread, TypeOK
<1>9. S \subseteq InUse /\ InUse' = InUse \ S
  BY <1>1, <1>4, <1>8 DEF InUse, OwnershipExclusive
<1>10. Releasing' = Releasing \cup S
  <2>1. ReleasedBy(t)' = ReleasedBy(t) \cup S
    BY <1>1, <1>7 DEF ReleasedBy
  <2>2. \A u \in Thread : u # t => ReleasedBy(u)' = ReleasedBy(u)
    BY <1>1, <1>7 DEF ReleasedBy
  <2>3. QED
    BY <2>1, <2>2 DEF Releasing
<1>11. \A u \in Thread : Allocated(u) \cap S = {}
  <2>1. Allocated(t) = {}
    BY <1>8 DEF Allocated
  <2>2. ASSUME NEW u \in Thread, u # t PROVE Allocated(u) \cap owned[f] = {}
    BY <1>4, <1>8, <2>2, AllocatedApart DEF MInv
  <2>3. QED
    BY <1>1, <2>1, <2>2
<1>12. EventsFit'
  <2>1. ASSUME NEW i \in DOMAIN events'[t]
        PROVE  /\ events'[t][i].kind # "size" =>
                    events'[t][i].blks \subseteq BlocksOf(events'[t][i].grp)
               /\ events'[t][i].kind # "alloc"
    <3>1. \/ i \in DOMAIN events[t] /\ events'[t][i] = events[t][i]
          \/ events'[t][i] = e
          \/ events'[t][i] = r
      BY <1>6 DEF Grown
    <3>2. CASE i \in DOMAIN events[t] /\ events'[t][i] = events[t][i]
      BY <1>4, <1>8, <3>2 DEF EventsFit
    <3>3. CASE events'[t][i] = e
      BY <1>1, <1>2, <3>3
    <3>4. CASE events'[t][i] = r
      BY <1>6, <3>4
    <3>5. QED
      BY <3>1, <3>2, <3>3, <3>4
  <2>2. ASSUME NEW u \in Thread, u # t, NEW i \in DOMAIN events[u]
        PROVE  events[u][i].kind = "alloc" => events[u][i].blks \subseteq owned'[events[u][i].file]
    <3>1. events[u][i].file \in File /\ events[u][i].file # f
      BY <1>4, <1>8, <2>2, EventParts, EventFiles
    <3>2. QED
      BY <1>4, <1>8, <3>1 DEF EventsFit
  <2>3. ASSUME NEW u \in Thread, NEW i \in DOMAIN events'[u]
        PROVE  /\ events'[u][i].kind # "size" =>
                    events'[u][i].blks \subseteq BlocksOf(events'[u][i].grp)
               /\ events'[u][i].kind = "alloc" =>
                    /\ events'[u][i].blks \subseteq owned'[events'[u][i].file]
                    /\ \A j \in DOMAIN events'[u] :
                        /\ events'[u][j].kind # "dealloc"
                        /\ i # j /\ events'[u][j].kind = "alloc"
                            => events'[u][i].blks \cap events'[u][j].blks = {}
    <3>1. CASE u = t
      BY <2>1, <3>1
    <3>2. CASE u # t
      BY <1>4, <1>6, <2>2, <3>2 DEF EventsFit
    <3>3. QED
      BY <3>1, <3>2
  <2>4. QED
    BY <2>3 DEF EventsFit, BlocksOf
<1>13. BitsTell'
  <2>1. ASSUME NEW h \in Group, NEW b \in Block
        PROVE  b \in cache'[Bitmap(h)].blks <=>
                /\ GroupOf[b] = h
                /\ \/ b \in InUse' /\ \A u \in Thread : b \notin Allocated(u)'
                   \/ \E u \in Thread : b \in Recorded(u)'
    <3>1. b \in cache[Bitmap(h)].blks <=>
                /\ GroupOf[b] = h
                /\ \/ b \in InUse /\ \A u \in Thread : b \notin Allocated(u)
                   \/ \E u \in Thread : b \in Recorded(u)
      BY <1>4 DEF BitsTell
    <3>2. CASE b \in S
      <4>1. b \in InUse /\ \A u \in Thread : b \notin Allocated(u)
        BY <1>9, <1>11, <3>2
      <4>2. \E u \in Thread : b \in Recorded(u)'
        BY <1>7, <3>2
      <4>3. QED
        BY <1>1, <3>1, <4>1, <4>2
    <3>3. CASE b \notin S
      <4>1. \A u \in Thread : b \in Recorded(u)' <=> b \in Recorded(u)
        BY <1>7, <3>3
      <4>2. QED
        BY <1>1, <1>7, <1>9, <3>1, <3>3, <4>1
    <3>4. QED
      BY <3>2, <3>3
  <2>2. QED
    BY <2>1 DEF BitsTell, Bitmap
<1>14. CountTells'
  <2>1. InUse' \cup Releasing' = InUse \cup Releasing
    BY <1>9, <1>10
  <2>2. QED
    BY <1>1, <1>4, <2>1 DEF CountTells, BlocksOf
<1>15. QED
  BY <1>5, <1>12, <1>13, <1>14

-----------------------------------------------------------------------------
(* The transaction is done.                                                *)

\* compress changes the bits of one group, those of the first event.
LEMMA CompressBits ==
    ASSUME TypeOK, NEW t \in Thread, Compress(t), NEW e, e = Head(events[t])
    PROVE  /\ \A f \in File : cache'[Ino(f)] = cache[Ino(f)]
           /\ \A g \in Group : cache'[Bitmap(g)].blks =
                IF g # e.grp \/ e.kind = "size" THEN cache[Bitmap(g)].blks
                ELSE IF e.kind = "alloc" THEN cache[Bitmap(g)].blks \cup e.blks
                ELSE cache[Bitmap(g)].blks \ e.blks
<1>1. e \in Event
  BY DEF Compress, TypeOK
<1>2. e.kind \in {"alloc", "dealloc", "size"} /\ e.grp \in Group
  BY <1>1 DEF Event
<1>3. /\ \A f \in File : Ino(f) \in Slot /\ Ino(f) # Bitmap(e.grp)
      /\ \A g \in Group : Bitmap(g) \in Slot /\ (Bitmap(g) = Bitmap(e.grp) <=> g = e.grp)
  BY <1>2, Slots DEF Ino, Bitmap
<1>4. ASSUME NEW bits, NEW n, Apply(t, e, bits, n)
      PROVE  /\ \A f \in File : cache'[Ino(f)] = cache[Ino(f)]
             /\ \A g \in Group : g # e.grp => cache'[Bitmap(g)] = cache[Bitmap(g)]
             /\ cache'[Bitmap(e.grp)].blks = bits
  <2>1. cache' = [cache EXCEPT ![Bitmap(e.grp)].blks = bits] /\ cache \in [Slot -> Content]
    BY <1>4 DEF Apply, TypeOK
  <2>2. cache[Bitmap(e.grp)] \in Content
    BY <1>2, <1>3, <2>1
  <2>3. /\ \A s \in Slot : s # Bitmap(e.grp) => cache'[s] = cache[s]
        /\ cache'[Bitmap(e.grp)].blks = bits
    BY <1>2, <1>3, <2>1, <2>2 DEF Content
  <2>4. QED
    BY <1>3, <2>3
<1>5. CASE CompressAlloc(t, e)
  <2>1. e.kind = "alloc" /\ Apply(t, e, cache[Bitmap(e.grp)].blks \cup e.blks, -Cardinality(e.blks))
    BY <1>5 DEF CompressAlloc
  <2>2. /\ \A f \in File : cache'[Ino(f)] = cache[Ino(f)]
        /\ \A g \in Group : g # e.grp => cache'[Bitmap(g)] = cache[Bitmap(g)]
        /\ cache'[Bitmap(e.grp)].blks = cache[Bitmap(e.grp)].blks \cup e.blks
    BY <1>4, <2>1
  <2>3. QED
    BY <2>1, <2>2
<1>6. CASE CompressDealloc(t, e)
  <2>1. e.kind = "dealloc" /\ Apply(t, e, cache[Bitmap(e.grp)].blks \ e.blks, Cardinality(e.blks))
    BY <1>6 DEF CompressDealloc
  <2>2. /\ \A f \in File : cache'[Ino(f)] = cache[Ino(f)]
        /\ \A g \in Group : g # e.grp => cache'[Bitmap(g)] = cache[Bitmap(g)]
        /\ cache'[Bitmap(e.grp)].blks = cache[Bitmap(e.grp)].blks \ e.blks
    BY <1>4, <2>1
  <2>3. QED
    BY <2>1, <2>2
<1>7. CASE CompressSize(t, e)
  <2>1. e.kind = "size" /\ cache' = cache
    BY <1>7 DEF CompressSize
  <2>2. /\ \A f \in File : cache'[Ino(f)] = cache[Ino(f)]
        /\ \A g \in Group : cache'[Bitmap(g)].blks = cache[Bitmap(g)].blks
    BY <2>1
  <2>3. QED
    BY <2>1, <2>2
<1>8. CompressAlloc(t, e) \/ CompressDealloc(t, e) \/ CompressSize(t, e)
  BY DEF Compress
<1>9. QED
  BY <1>5, <1>6, <1>7, <1>8

\* compress takes the blocks of the first event, and no others, from those
\* that wait to be marked or unmarked.
LEMMA CompressWaiting ==
    ASSUME IInv, EventsFit, NEW t \in Thread, Compress(t)
    PROVE  LET e == Head(events[t]) IN
           /\ 1 \in DOMAIN events[t] /\ e = events[t][1] /\ e \in Event
           /\ \A b : b \in Allocated(t)' <=>
                b \in Allocated(t) /\ ~(e.kind = "alloc" /\ b \in e.blks)
           /\ \A b : b \in Recorded(t)' <=>
                b \in Recorded(t) /\ ~(e.kind = "dealloc" /\ b \in e.blks)
           /\ e.kind = "alloc" => e.blks \subseteq Allocated(t)
           /\ e.kind = "dealloc" => e.blks \subseteq Recorded(t)
           /\ \A u \in Thread : u # t =>
                /\ events'[u] = events[u]
                /\ Allocated(u)' = Allocated(u) /\ Recorded(u)' = Recorded(u)
<1> DEFINE e == Head(events[t])
<1>1. TypeOK /\ ReleasedOnce
  BY DEF IInv
<1>2. events[t] # <<>> /\ events' = [events EXCEPT ![t] = Tail(@)]
  BY DEF Compress
<1>3. /\ \A i \in DOMAIN events'[t] :
            /\ i + 1 \in DOMAIN events[t] /\ i + 1 # 1 /\ events'[t][i] = events[t][i + 1]
      /\ 1 \in DOMAIN events[t] /\ events[t][1] = e
      /\ \A i \in DOMAIN events[t] : i # 1 =>
            i - 1 \in DOMAIN events'[t] /\ events'[t][i - 1] = events[t][i]
      /\ \A u \in Thread : u # t => events'[u] = events[u]
  BY <1>1, <1>2, TailEvents
<1>4. e \in Event
  BY <1>1, <1>3, EventParts
<1> HIDE DEF e
<1>5. ASSUME NEW k, k \in {"alloc", "dealloc"}
      PROVE  \A b : (\E i \in DOMAIN events'[t] :
                        events'[t][i].kind = k /\ b \in events'[t][i].blks)
                    <=> /\ \E i \in DOMAIN events[t] :
                                events[t][i].kind = k /\ b \in events[t][i].blks
                        /\ ~(e.kind = k /\ b \in e.blks)
  <2>1. \A i, j \in DOMAIN events[t] :
            i # j /\ events[t][i].kind = k /\ events[t][j].kind = k
                => events[t][i].blks \cap events[t][j].blks = {}
    BY <1>1, <1>5 DEF EventsFit, ReleasedOnce
  <2>2. ASSUME NEW b, NEW i \in DOMAIN events'[t],
               events'[t][i].kind = k, b \in events'[t][i].blks
        PROVE  /\ \E j \in DOMAIN events[t] :
                        events[t][j].kind = k /\ b \in events[t][j].blks
               /\ ~(e.kind = k /\ b \in e.blks)
    <3>1. /\ i + 1 \in DOMAIN events[t] /\ i + 1 # 1
          /\ events[t][i + 1].kind = k /\ b \in events[t][i + 1].blks
      BY <1>3, <2>2
    <3>2. ~(e.kind = k /\ b \in e.blks)
      BY <1>3, <2>1, <3>1
    <3>3. QED
      BY <3>1, <3>2
  <2>3. ASSUME NEW b, NEW i \in DOMAIN events[t],
               events[t][i].kind = k, b \in events[t][i].blks, ~(e.kind = k /\ b \in e.blks)
        PROVE  \E j \in DOMAIN events'[t] :
                    events'[t][j].kind = k /\ b \in events'[t][j].blks
    <3>1. i # 1
      BY <1>3, <2>3
    <3>2. QED
      BY <1>3, <2>3, <3>1
  <2>4. QED
    BY <2>2, <2>3
<1>6. /\ \A b : b \in Allocated(t)' <=>
            \E i \in DOMAIN events'[t] : events'[t][i].kind = "alloc" /\ b \in events'[t][i].blks
      /\ \A b : b \in Recorded(t)' <=>
            \E i \in DOMAIN events'[t] :
                events'[t][i].kind = "dealloc" /\ b \in events'[t][i].blks
  BY DEF Allocated, Recorded
<1>7. \A b : b \in Allocated(t)' <=>
            b \in Allocated(t) /\ ~(e.kind = "alloc" /\ b \in e.blks)
  BY <1>5, <1>6, Waiting
<1>8. \A b : b \in Recorded(t)' <=>
            b \in Recorded(t) /\ ~(e.kind = "dealloc" /\ b \in e.blks)
  BY <1>5, <1>6, Waiting
<1>9. /\ e.kind = "alloc" => e.blks \subseteq Allocated(t)
      /\ e.kind = "dealloc" => e.blks \subseteq Recorded(t)
  BY <1>3, Waiting
<1>10. \A u \in Thread : u # t => Allocated(u)' = Allocated(u) /\ Recorded(u)' = Recorded(u)
  BY <1>3 DEF Allocated, Recorded
<1>11. QED
  BY <1>3, <1>4, <1>7, <1>8, <1>9, <1>10 DEF e

\* compress sets the bits of blocks that now only wait to be used, and clears
\* those of blocks that nobody else uses, marks or unmarks.
LEMMA CompressMemory ==
    ASSUME MInv, NEW t \in Thread, Compress(t)
    PROVE  Phases' /\ OwnFiles' /\ EventsFit' /\ BitsTell' /\ RootsTell' /\ CountTells'
<1> DEFINE e == Head(events[t])
<1>1. /\ TypeOK /\ OwnershipExclusive /\ OwnFiles /\ EventsFit /\ BitsTell /\ CountTells
      /\ Phases /\ RootsTell /\ IInv
  BY DEF MInv, IInv
<1>2. /\ events[t] # <<>> /\ events' = [events EXCEPT ![t] = Tail(@)]
      /\ pc[t] = "compress" /\ pc' = pc /\ using' = using /\ owned' = owned
      /\ memFree' = memFree /\ failed' = failed
      /\ \A u \in Thread : u # t => ops'[u] = ops[u] /\ post'[u] = post[u]
  <2>1. \A u \in Thread : u # t => ops'[u] = ops[u]
    BY <1>1 DEF Compress, TypeOK
  <2>2. \A u \in Thread : u # t => post'[u] = post[u]
    BY <1>1 DEF Compress, CompressAlloc, CompressDealloc, CompressSize, TypeOK
  <2>3. QED
    BY <2>1, <2>2 DEF Compress, memVars
<1>3. /\ 1 \in DOMAIN events[t] /\ e = events[t][1] /\ e \in Event
      /\ \A b : b \in Allocated(t)' <=>
            b \in Allocated(t) /\ ~(e.kind = "alloc" /\ b \in e.blks)
      /\ \A b : b \in Recorded(t)' <=>
            b \in Recorded(t) /\ ~(e.kind = "dealloc" /\ b \in e.blks)
      /\ e.kind = "alloc" => e.blks \subseteq Allocated(t)
      /\ e.kind = "dealloc" => e.blks \subseteq Recorded(t)
      /\ \A u \in Thread : u # t =>
            /\ events'[u] = events[u]
            /\ Allocated(u)' = Allocated(u) /\ Recorded(u)' = Recorded(u)
  BY <1>1, CompressWaiting
<1>4. /\ \A f \in File : cache'[Ino(f)] = cache[Ino(f)]
      /\ \A g \in Group : cache'[Bitmap(g)].blks =
            IF g # e.grp \/ e.kind = "size" THEN cache[Bitmap(g)].blks
            ELSE IF e.kind = "alloc" THEN cache[Bitmap(g)].blks \cup e.blks
            ELSE cache[Bitmap(g)].blks \ e.blks
  BY <1>1, CompressBits
<1>5. e.kind # "size" => e.blks \subseteq BlocksOf(e.grp)
  BY <1>1, <1>3 DEF EventsFit
<1>6. e.kind \in {"alloc", "dealloc", "size"} /\ e.grp \in Group
  BY <1>3 DEF Event
<1> HIDE DEF e
<1>7. \A u \in Thread : Todo(u)' = Todo(u)
  BY <1>1, CompressTodo
<1>8. Phases'
  BY <1>1, <1>2 DEF Phases
<1>9. OwnFiles'
  BY <1>1, <1>2, <1>7 DEF OwnFiles
<1>10. EventsFit'
  <2>1. \A i \in DOMAIN events'[t] :
            /\ i + 1 \in DOMAIN events[t] /\ i \in Nat /\ events'[t][i] = events[t][i + 1]
    BY <1>1, <1>2, TailEvents
  <2>2. \A i, j \in DOMAIN events'[t] : i # j => i + 1 # j + 1
    BY <2>1
  <2>3. ASSUME NEW u \in Thread, NEW i \in DOMAIN events'[u]
        PROVE  /\ events'[u][i].kind # "size" =>
                    events'[u][i].blks \subseteq BlocksOf(events'[u][i].grp)
               /\ events'[u][i].kind = "alloc" =>
                    /\ events'[u][i].blks \subseteq owned'[events'[u][i].file]
                    /\ \A j \in DOMAIN events'[u] :
                        /\ events'[u][j].kind # "dealloc"
                        /\ i # j /\ events'[u][j].kind = "alloc"
                            => events'[u][i].blks \cap events'[u][j].blks = {}
    <3>1. CASE u = t
      <4>1. i \in DOMAIN events'[t]
        BY <2>3, <3>1
      <4>2. i + 1 \in DOMAIN events[t] /\ events'[t][i] = events[t][i + 1]
        BY <2>1, <4>1
      <4>3. \A j \in DOMAIN events'[t] :
               /\ j + 1 \in DOMAIN events[t] /\ events'[t][j] = events[t][j + 1]
               /\ i # j => i + 1 # j + 1
        BY <2>1, <2>2, <4>1
      <4>4. owned' = owned
        BY <1>2
      <4>5. QED
        BY <1>1, <3>1, <4>1, <4>2, <4>3, <4>4 DEF EventsFit
    <3>2. CASE u # t
      BY <1>1, <1>2, <1>3, <2>3, <3>2 DEF EventsFit
    <3>3. QED
      BY <3>1, <3>2
  <2>4. QED
    BY <2>3 DEF EventsFit, BlocksOf
<1>11. InUse' = InUse
  BY <1>2 DEF InUse
<1>12. BitsTell'
  <2>1. ASSUME NEW h \in Group, NEW b \in Block
        PROVE  b \in cache'[Bitmap(h)].blks <=>
                /\ GroupOf[b] = h
                /\ \/ b \in InUse' /\ \A u \in Thread : b \notin Allocated(u)'
                   \/ \E u \in Thread : b \in Recorded(u)'
    <3>1. b \in cache[Bitmap(h)].blks <=>
                /\ GroupOf[b] = h
                /\ \/ b \in InUse /\ \A u \in Thread : b \notin Allocated(u)
                   \/ \E u \in Thread : b \in Recorded(u)
      BY <1>1 DEF BitsTell
    <3>2. CASE b \notin e.blks \/ e.kind = "size"
      <4>1. b \in cache'[Bitmap(h)].blks <=> b \in cache[Bitmap(h)].blks
        BY <1>4, <3>2
      <4>2. \A u \in Thread : /\ b \in Allocated(u)' <=> b \in Allocated(u)
                              /\ b \in Recorded(u)' <=> b \in Recorded(u)
        BY <1>3, <3>2
      <4>3. QED
        BY <1>11, <3>1, <4>1, <4>2
    <3>3. CASE b \in e.blks /\ e.kind = "alloc"
      <4>1. GroupOf[b] = e.grp
        BY <1>5, <3>3 DEF BlocksOf
      <4>2. b \in Allocated(t) /\ b \notin Allocated(t)'
        BY <1>3, <3>3
      <4>3. b \in InUse /\ \A u \in Thread : u # t => b \notin Allocated(u)
        BY <1>1, <4>2, AllocatedApart
      <4>4. \A u \in Thread : b \notin Allocated(u)'
        BY <1>3, <4>2, <4>3
      <4>5. \A u \in Thread : b \in Recorded(u)' <=> b \in Recorded(u)
        BY <1>3, <3>3
      <4>6. h = e.grp => b \in cache'[Bitmap(h)].blks
        BY <1>4, <3>3
      <4>7. h # e.grp => b \notin cache'[Bitmap(h)].blks
        BY <1>4, <3>1, <4>1
      <4>8. QED
        BY <1>11, <4>1, <4>3, <4>4, <4>6, <4>7
    <3>4. CASE b \in e.blks /\ e.kind = "dealloc"
      <4>1. GroupOf[b] = e.grp
        BY <1>5, <3>4 DEF BlocksOf
      <4>2. b \in Recorded(t) /\ b \notin Recorded(t)'
        BY <1>3, <3>4
      <4>3. b \notin InUse /\ \A u \in Thread : u # t => b \notin Recorded(u)
        BY <1>1, <4>2 DEF OwnershipExclusive, Releasing, ReleasedBy
      <4>4. \A u \in Thread : b \notin Recorded(u)'
        BY <1>3, <4>2, <4>3
      <4>5. b \notin cache'[Bitmap(h)].blks
        BY <1>4, <3>1, <3>4, <4>1
      <4>6. QED
        BY <1>11, <4>3, <4>4, <4>5
    <3>5. QED
      BY <1>6, <3>2, <3>3, <3>4
  <2>2. QED
    BY <2>1 DEF BitsTell, Bitmap
<1>13. RootsTell'
  BY <1>1, <1>2, <1>4, <1>7, SameRoots
<1>14. CountTells'
  <2>1. \A u \in Thread : ReleasedBy(u)' = ReleasedBy(u)
    BY <1>1, CompressKeeps
  <2>2. Releasing' = Releasing
    BY <2>1 DEF Releasing
  <2>3. QED
    BY <1>1, <1>2, <1>11, <2>2 DEF CountTells, BlocksOf
<1>15. QED
  BY <1>8, <1>9, <1>10, <1>12, <1>13, <1>14

\* An inode operation writes the root it is for, and the last one that is to be
\* written is the one that stays.
LEMMA OpMemory ==
    ASSUME MInv, NEW t \in Thread, SubmitInodeOp(t)
    PROVE  Phases' /\ OwnFiles' /\ EventsFit' /\ BitsTell' /\ RootsTell' /\ CountTells'
<1> DEFINE e == Head(ops[t])
<1>1. /\ TypeOK /\ OwnFiles /\ EventsFit /\ BitsTell /\ CountTells
      /\ Phases /\ RootsTell /\ IInv
  BY DEF MInv, IInv
<1>2. /\ pc[t] = "flush"
      /\ UNCHANGED <<owned, memFree, free, pc, using, events, post, failed>>
      /\ cache' = [cache EXCEPT ![Ino(e.file)] = AfterOp(@, e)]
      /\ \A u \in Thread : u # t => ops'[u] = ops[u]
  BY <1>1 DEF SubmitInodeOp, TypeOK, memVars
<1>3. /\ 1 \in DOMAIN Todo(t) /\ Todo(t)[1] = e /\ e \in Event
      /\ \A i \in DOMAIN Todo(t)' :
            i \in Nat /\ i + 1 \in DOMAIN Todo(t) /\ i + 1 # 1
            /\ Todo(t)'[i] = Todo(t)[i + 1]
      /\ \A i \in DOMAIN Todo(t) : i # 1 =>
            i \in Nat /\ i - 1 \in DOMAIN Todo(t)' /\ Todo(t)'[i - 1] = Todo(t)[i]
      /\ \A u \in Thread : u # t => Todo(u)' = Todo(u)
  BY <1>1, OpDone
<1>4. e.kind \in {"alloc", "dealloc", "size"} /\ e.file \in File /\ e.blks \in SUBSET Block
  BY <1>3 DEF Event
<1> HIDE DEF e
<1>5. /\ \A g \in Group : Bitmap(g) \in Slot /\ Bitmap(g) # Ino(e.file)
      /\ \A f \in File : Ino(f) \in Slot /\ (Ino(f) = Ino(e.file) <=> f = e.file)
  BY <1>4, Slots DEF Ino, Bitmap
<1>6. /\ \A g \in Group : cache'[Bitmap(g)] = cache[Bitmap(g)]
      /\ \A f \in File : f # e.file => cache'[Ino(f)] = cache[Ino(f)]
      /\ cache'[Ino(e.file)] = AfterOp(cache[Ino(e.file)], e)
  BY <1>1, <1>2, <1>4, <1>5 DEF TypeOK
<1>7. /\ e.kind = "size" => cache'[Ino(e.file)].blks = e.blks
      /\ e.kind # "size" => cache'[Ino(e.file)].blks = cache[Ino(e.file)].blks
  <2>1. cache[Ino(e.file)] \in Content
    BY <1>1, <1>4, <1>5 DEF TypeOK
  <2>2. QED
    BY <1>4, <1>6, <2>1 DEF AfterOp, Content
<1>8. Phases'
  BY <1>1, <1>2 DEF Phases
<1>9. OwnFiles'
  <2>1. \A u \in Thread : \A i \in DOMAIN Todo(u)' : Todo(u)'[i].file \in using[u]
    BY <1>1, <1>3 DEF OwnFiles
  <2>2. QED
    BY <1>1, <1>2, <2>1 DEF OwnFiles
<1>10. EventsFit'
  BY <1>1, <1>2 DEF EventsFit, BlocksOf
<1>11. /\ InUse' = InUse
       /\ \A u \in Thread : Allocated(u)' = Allocated(u) /\ Recorded(u)' = Recorded(u)
       /\ Releasing' = Releasing
  BY <1>2 DEF InUse, Allocated, Recorded, Releasing, ReleasedBy
<1>12. BitsTell'
  BY <1>1, <1>2, <1>6, <1>11, SameBits
<1>13. CountTells'
  BY <1>1, <1>2, <1>11 DEF CountTells, BlocksOf
<1>14. RootsTell'
  <2>1. ASSUME NEW h \in File, NEW i \in DOMAIN Todo(t)', LastSize(Todo(t)', i, h)
        PROVE  Todo(t)'[i].blks = owned[h]
    <3>1. IsSize(Todo(t)'[i], h) /\ \A j \in DOMAIN Todo(t)' : IsSize(Todo(t)'[j], h) => j <= i
      BY <2>1, Zenon DEF LastSize
    <3>2. /\ i \in Nat /\ i + 1 \in DOMAIN Todo(t)
          /\ Todo(t)'[i] = Todo(t)[i + 1] /\ IsSize(Todo(t)[i + 1], h)
      BY <1>3, <3>1
    <3>3. ASSUME NEW j \in DOMAIN Todo(t), IsSize(Todo(t)[j], h)
          PROVE  j <= i + 1
      <4>1. CASE j = 1
        BY <3>2, <4>1
      <4>2. CASE j # 1
        <5>1. j \in Nat /\ j - 1 \in DOMAIN Todo(t)' /\ Todo(t)'[j - 1] = Todo(t)[j]
          BY <1>3, <4>2
        <5>2. j - 1 <= i
          BY <3>1, <3>3, <5>1, Zenon
        <5>3. QED
          BY <3>2, <5>1, <5>2
      <4>3. QED
        BY <4>1, <4>2
    <3>4. LastSize(Todo(t), i + 1, h)
      BY <3>2, <3>3, Zenon DEF LastSize
    <3>5. QED
      BY <1>1, <3>2, <3>4 DEF RootsTell
  <2>2. ASSUME NEW h \in File, NEW u \in Thread, NEW i \in DOMAIN Todo(u)',
               LastSize(Todo(u)', i, h)
        PROVE  Todo(u)'[i].blks = owned'[h]
    <3>1. CASE u = t
      BY <1>2, <2>1, <2>2, <3>1
    <3>2. CASE u # t
      BY <1>1, <1>2, <1>3, <2>2, <3>2 DEF RootsTell
    <3>3. QED
      BY <3>1, <3>2
  <2>3. ASSUME NEW h \in File, \A u \in Thread : ~HasSize(Todo(u)', h)
        PROVE  cache'[Ino(h)].blks = owned'[h]
    <3>1. \A j \in DOMAIN Todo(t) : j # 1 => ~IsSize(Todo(t)[j], h)
      BY <1>3, <2>3 DEF HasSize
    <3>2. \A u \in Thread : u # t => ~HasSize(Todo(u), h)
      BY <1>3, <2>3
    <3>3. CASE IsSize(e, h)
      <4>1. e.kind = "size" /\ e.file = h
        BY <3>3 DEF IsSize
      <4>2. \A j \in DOMAIN Todo(t) : IsSize(Todo(t)[j], h) => j <= 1
        <5>1. 1 <= 1
          OBVIOUS
        <5>2. QED
          BY <3>1, <5>1
      <4>3. LastSize(Todo(t), 1, h)
        BY <1>3, <3>3, <4>2, Zenon DEF LastSize
      <4>4. e.blks = owned[h]
        BY <1>1, <1>3, <4>3 DEF RootsTell
      <4>5. QED
        BY <1>2, <1>7, <4>1, <4>4
    <3>4. CASE ~IsSize(e, h)
      <4>1. \A u \in Thread : ~HasSize(Todo(u), h)
        BY <1>3, <3>1, <3>2, <3>4 DEF HasSize
      <4>2. cache[Ino(h)].blks = owned[h]
        BY <1>1, <4>1 DEF RootsTell
      <4>3. cache'[Ino(h)].blks = cache[Ino(h)].blks
        BY <1>6, <1>7, <3>4 DEF IsSize
      <4>4. QED
        BY <1>2, <4>2, <4>3
    <3>5. QED
      BY <3>3, <3>4
  <2>4. QED
    BY <2>2, <2>3 DEF RootsTell, Ino
<1>15. QED
  BY <1>8, <1>9, <1>10, <1>12, <1>13, <1>14

\* A postlude frees blocks that no file has: the counter of their group grows
\* by their number.
LEMMA PostludeMemory ==
    ASSUME MInv, NEW t \in Thread, NEW S \in SUBSET Block, Postlude(t, S)
    PROVE  Phases' /\ OwnFiles' /\ EventsFit' /\ BitsTell' /\ RootsTell' /\ CountTells'
<1>1. /\ TypeOK /\ OwnFiles /\ EventsFit /\ BitsTell /\ CountTells
      /\ Phases /\ RootsTell /\ OwnershipExclusive /\ ReleasedOnce
  BY DEF MInv, IInv
<1>2. /\ pc[t] = "postlude" /\ S \in post[t]
      /\ memFree' = [g \in Group |-> memFree[g] + Cardinality(S \cap BlocksOf(g))]
      /\ UNCHANGED <<owned, pc, using, events, ops, cache, failed>>
      /\ post'[t] = post[t] \ {S}
      /\ \A u \in Thread : u # t => post'[u] = post[u]
  BY <1>1 DEF Postlude, TypeOK, grpVars
<1>3. Phases'
  BY <1>1, <1>2 DEF Phases
<1>4. \A u \in Thread : Todo(u)' = Todo(u)
  BY <1>2 DEF Todo
<1>5. OwnFiles'
  BY <1>1, <1>2, <1>4 DEF OwnFiles
<1>6. EventsFit'
  BY <1>1, <1>2 DEF EventsFit, BlocksOf
<1>7. /\ InUse' = InUse
      /\ \A u \in Thread : Allocated(u)' = Allocated(u) /\ Recorded(u)' = Recorded(u)
  BY <1>2 DEF InUse, Allocated, Recorded
<1>8. BitsTell'
  BY <1>1, <1>2, <1>7, SameBits
<1>9. RootsTell'
  BY <1>1, <1>2, <1>4, SameRoots
<1>10. S \subseteq ReleasedBy(t) /\ ReleasedBy(t)' = ReleasedBy(t) \ S
  <2>1. Recorded(t) = {} /\ S \subseteq UNION post[t]
    BY <1>1, <1>2 DEF ReleasedOnce, Recorded
  <2>2. \A P \in post[t] : P # S => P \cap S = {}
    BY <1>1, <1>2 DEF ReleasedOnce
  <2>3. UNION post'[t] = (UNION post[t]) \ S
    BY <1>2, <2>2
  <2>4. QED
    BY <1>7, <2>1, <2>3 DEF ReleasedBy
<1>11. \A u \in Thread : u # t => ReleasedBy(u)' = ReleasedBy(u) /\ ReleasedBy(u) \cap S = {}
  BY <1>1, <1>2, <1>7, <1>10 DEF ReleasedBy, OwnershipExclusive
<1>12. Releasing' = Releasing \ S /\ S \subseteq Releasing
  BY <1>10, <1>11 DEF Releasing
<1>13. S \cap InUse = {}
  BY <1>1, <1>12 DEF OwnershipExclusive
<1>14. CountTells'
  <2>1. ASSUME ~failed, NEW g \in Group
        PROVE  memFree'[g] = Cardinality(BlocksOf(g) \ (InUse' \cup Releasing'))
    <3> DEFINE A == BlocksOf(g) \ (InUse' \cup Releasing')
               D == S \cap BlocksOf(g)
    <3>1. A \in SUBSET Block /\ D \in SUBSET Block /\ D \subseteq A
      BY <1>7, <1>12, <1>13 DEF BlocksOf
    <3>2. A \ D = BlocksOf(g) \ (InUse \cup Releasing)
      BY <1>7, <1>12 DEF BlocksOf
    <3>3. memFree[g] = Cardinality(A \ D) /\ memFree'[g] = memFree[g] + Cardinality(D)
      BY <1>1, <1>2, <2>1, <3>2 DEF CountTells
    <3> HIDE DEF A, D
    <3>4. memFree'[g] = Cardinality(A)
      BY <3>1, <3>3, CountWithout
    <3>5. QED
      BY <3>4 DEF A
  <2>2. QED
    BY <1>2, <2>1 DEF CountTells, BlocksOf
<1>15. QED
  BY <1>3, <1>5, <1>6, <1>8, <1>9, <1>14

\* The steps of a transaction that change no bit, no root and nothing to do; it
\* leaves the files it worked on only when it has nothing left to do.
LEMMA QuietMemory ==
    ASSUME MInv, NEW t \in Thread,
           UNCHANGED <<memFree, owned, events, ops>>,
           \A g \in Group : cache'[Bitmap(g)].blks = cache[Bitmap(g)].blks,
           \A f \in File : cache'[Ino(f)].blks = cache[Ino(f)].blks,
           \A u \in Thread : u # t => pc'[u] = pc[u] /\ using'[u] = using[u] /\ post'[u] = post[u],
           using'[t] = using[t] \/ (using'[t] = {} /\ ops[t] = <<>> /\ events[t] = <<>>),
           pc'[t] \in {"open", "writeback", "postlude"} => ops[t] = <<>>,
           pc'[t] = "open" => post'[t] = {},
           failed' \/ (~failed /\ post'[t] = post[t])
    PROVE  Phases' /\ OwnFiles' /\ EventsFit' /\ BitsTell' /\ RootsTell' /\ CountTells'
<1>1. /\ OwnFiles /\ EventsFit /\ BitsTell /\ CountTells /\ Phases /\ RootsTell
  BY DEF MInv
<1>2. Phases'
  BY <1>1 DEF Phases
<1>3. \A u \in Thread : Todo(u)' = Todo(u)
  BY DEF Todo
<1>4. OwnFiles'
  <2>1. \A u, v \in Thread : u # v => using'[u] \cap using'[v] = {}
    BY <1>1 DEF OwnFiles
  <2>2. ops[t] = <<>> /\ events[t] = <<>> => DOMAIN Todo(t) = {}
    BY NothingToDo
  <2>3. \A u \in Thread : \A i \in DOMAIN Todo(u) : Todo(u)[i].file \in using'[u]
    <3>1. \A u \in Thread : \A i \in DOMAIN Todo(u) : Todo(u)[i].file \in using[u]
      BY <1>1 DEF OwnFiles
    <3>2. \A i \in DOMAIN Todo(t) : Todo(t)[i].file \in using'[t]
      BY <2>2, <3>1
    <3>3. QED
      BY <3>1, <3>2
  <2>4. \A u \in Thread : \A i \in DOMAIN Todo(u)' : Todo(u)'[i].file \in using'[u]
    BY <1>3, <2>3
  <2>5. QED
    BY <2>1, <2>4 DEF OwnFiles
<1>5. EventsFit'
  BY <1>1 DEF EventsFit, BlocksOf
<1>6. \A u \in Thread : Allocated(u)' = Allocated(u) /\ Recorded(u)' = Recorded(u)
  BY DEF Allocated, Recorded
<1>7. BitsTell'
  BY <1>1, <1>6, SameBits
<1>8. RootsTell'
  BY <1>1, <1>3, SameRoots
<1>9. CountTells'
  <2>1. CASE failed'
    BY <2>1 DEF CountTells
  <2>2. CASE ~failed /\ post'[t] = post[t]
    <3>1. \A u \in Thread : ReleasedBy(u)' = ReleasedBy(u)
      BY <1>6, <2>2 DEF ReleasedBy
    <3>2. Releasing' = Releasing /\ InUse' = InUse
      BY <3>1 DEF Releasing, InUse
    <3>3. QED
      BY <1>1, <2>2, <3>2 DEF CountTells, BlocksOf
  <2>3. QED
    BY <2>1, <2>2
<1>10. QED
  BY <1>2, <1>4, <1>5, <1>7, <1>8, <1>9

\* Submitting a counter changes no bit and no root.
LEMMA CountersOnly ==
    ASSUME TypeOK, NEW s \in {Desc(g) : g \in Group} \cup {Sb}, NEW n,
           cache' = [cache EXCEPT ![s].n = n]
    PROVE  /\ \A g \in Group : cache'[Bitmap(g)].blks = cache[Bitmap(g)].blks
           /\ \A f \in File : cache'[Ino(f)].blks = cache[Ino(f)].blks
<1> USE DEF Bitmap, Desc, Sb, Ino
<1>1. ASSUME NEW g \in Group PROVE Bitmap(g) \in Slot /\ Bitmap(g) # s
  <2>1. Bitmap(g) # Sb /\ \A h \in Group : Bitmap(g) # Desc(h)
    OBVIOUS
  <2>2. QED
    BY <2>1, Slots
<1>2. ASSUME NEW f \in File PROVE Ino(f) \in Slot /\ Ino(f) # s
  <2>1. Ino(f) # Sb /\ \A h \in Group : Ino(f) # Desc(h)
    OBVIOUS
  <2>2. QED
    BY <2>1, Slots
<1>3. QED
  BY <1>1, <1>2 DEF TypeOK

\* Every other step of a transaction is quiet.
LEMMA OtherMemory ==
    ASSUME MInv, NEW t \in Thread,
           \/ Done(t)
           \/ LockSb(t)
           \/ \E g \in Group : SubmitBlockGroup(t, g)
           \/ SubmitSb(t)
           \/ \E d \in DeviceBlocks : Snapshot(t, d)
           \/ WriteBio(t)
           \/ Sync(t)
           \/ Finish(t)
           \/ FailWrite(t)
    PROVE  Phases' /\ OwnFiles' /\ EventsFit' /\ BitsTell' /\ RootsTell' /\ CountTells'
<1>1. TypeOK /\ Phases /\ ReleasedOnce
  BY DEF MInv, IInv
<1>2. failed \in BOOLEAN
  BY <1>1 DEF TypeOK
<1>3. CASE Done(t) \/ LockSb(t)
  <2>1. /\ UNCHANGED <<memFree, owned, events, ops, cache, using, post, failed>>
        /\ pc'[t] \in {"compress", "flush"}
        /\ \A u \in Thread : u # t => pc'[u] = pc[u]
    BY <1>1, <1>3 DEF Done, LockSb, TypeOK, memVars, grpVars, colVars
  <2>2. QED
    BY <1>2, <2>1, QuietMemory
<1>4. ASSUME NEW g \in Group, SubmitBlockGroup(t, g)
      PROVE  Phases' /\ OwnFiles' /\ EventsFit' /\ BitsTell' /\ RootsTell' /\ CountTells'
  <2>1. /\ UNCHANGED <<memFree, owned, events, ops, using, post, failed, pc>>
        /\ pc[t] = "flush"
        /\ cache' = [cache EXCEPT ![Desc(g)].n = @ + delta[t][g]]
    BY <1>4 DEF SubmitBlockGroup, memVars
  <2>2. /\ \A h \in Group : cache'[Bitmap(h)].blks = cache[Bitmap(h)].blks
        /\ \A f \in File : cache'[Ino(f)].blks = cache[Ino(f)].blks
    BY <1>1, <2>1, CountersOnly
  <2>3. QED
    BY <1>2, <2>1, <2>2, QuietMemory
<1>5. CASE SubmitSb(t)
  <2>1. /\ UNCHANGED <<memFree, owned, events, ops, using, post, failed>>
        /\ pc'[t] = "writeback" /\ ops[t] = <<>>
        /\ \A u \in Thread : u # t => pc'[u] = pc[u]
        /\ cache' = [cache EXCEPT ![Sb].n = @ + sbDelta[t]]
    BY <1>1, <1>5 DEF SubmitSb, TypeOK, memVars
  <2>2. /\ \A h \in Group : cache'[Bitmap(h)].blks = cache[Bitmap(h)].blks
        /\ \A f \in File : cache'[Ino(f)].blks = cache[Ino(f)].blks
    BY <1>1, <2>1, CountersOnly
  <2>3. QED
    BY <1>2, <2>1, <2>2, QuietMemory
<1>6. CASE (\E d \in DeviceBlocks : Snapshot(t, d)) \/ WriteBio(t)
  <2>1. /\ UNCHANGED <<memFree, owned, events, ops, cache, using, post, failed, pc>>
        /\ pc[t] = "writeback"
    BY <1>6 DEF Snapshot, WriteBio, Writing, memVars, grpVars
  <2>2. pc[t] = "writeback" => ops[t] = <<>>
    BY <1>1 DEF Phases
  <2>3. QED
    BY <1>2, <2>1, <2>2, QuietMemory
<1>7. CASE Sync(t)
  <2>1. /\ UNCHANGED <<memFree, owned, events, ops, cache, using, post, failed>>
        /\ pc[t] = "writeback" /\ pc'[t] = "postlude"
        /\ \A u \in Thread : u # t => pc'[u] = pc[u]
    BY <1>1, <1>7 DEF Sync, Writing, TypeOK, memVars, grpVars, colVars
  <2>2. ops[t] = <<>>
    BY <1>1, <2>1 DEF Phases
  <2>3. QED
    BY <1>2, <2>1, <2>2, QuietMemory
<1>8. CASE Finish(t) \/ FailWrite(t)
  <2>1. /\ UNCHANGED <<memFree, owned, events, ops, cache>>
        /\ pc[t] \in {"writeback", "postlude"} /\ pc'[t] = "open"
        /\ using'[t] = {} /\ post'[t] = {}
        /\ failed' \/ (~failed /\ post'[t] = post[t])
        /\ \A u \in Thread : u # t =>
                pc'[u] = pc[u] /\ using'[u] = using[u] /\ post'[u] = post[u]
    BY <1>1, <1>2, <1>8 DEF Finish, FailWrite, Writing, TypeOK, memVars, grpVars, colVars
  <2>2. ops[t] = <<>> /\ events[t] = <<>>
    BY <1>1, <2>1 DEF Phases, ReleasedOnce
  <2>3. QED
    BY <2>1, <2>2, QuietMemory
<1>9. QED
  BY <1>3, <1>4, <1>5, <1>6, <1>7, <1>8

-----------------------------------------------------------------------------
(* The theorems.                                                           *)

\* After mounting nothing is in use, and nothing waits.
LEMMA MInit == Init => MInv
<1> SUFFICES ASSUME Init PROVE MInv
  OBVIOUS
<1>1. IInv
  BY IInit
<1>2. \A t \in Thread : /\ DOMAIN Todo(t) = {} /\ DOMAIN events[t] = {}
                        /\ Allocated(t) = {} /\ Recorded(t) = {} /\ ReleasedBy(t) = {}
  <2>1. \A t \in Thread : events[t] = <<>> /\ ops[t] = <<>> /\ post[t] = {}
    BY DEF Init
  <2>2. QED
    BY <2>1, NothingToDo DEF Allocated, Recorded, ReleasedBy
<1>3. InUse = {} /\ Releasing = {} /\ \A f \in File : owned[f] = {}
  BY <1>2 DEF Init, InUse, Releasing
<1>4. \A s \in Slot : cache[s].blks = {}
  BY DEF Init, Mounted
<1>5. Phases
  BY DEF Init, Phases
<1>6. OwnFiles
  BY <1>2 DEF Init, OwnFiles
<1>7. EventsFit
  BY <1>2 DEF EventsFit
<1>8. BitsTell
  BY <1>2, <1>3, <1>4, Slots DEF BitsTell
<1>9. RootsTell
  BY <1>2, <1>3, <1>4, Slots DEF RootsTell
<1>10. CountTells
  BY <1>3 DEF Init, CountTells
<1>11. QED
  BY <1>1, <1>5, <1>6, <1>7, <1>8, <1>9, <1>10 DEF MInv

\* Every step keeps the inductive invariant, when no two live transactions
\* work on one file.
LEMMA MStep == PrivateFiles /\ MInv /\ [Next]_vars => MInv'
<1> SUFFICES ASSUME PrivateFiles, MInv, [Next]_vars PROVE MInv'
  OBVIOUS
<1>1. IInv /\ IInv'
  BY IStep DEF MInv
<1> DEFINE Rest == Phases /\ OwnFiles /\ EventsFit /\ BitsTell /\ RootsTell /\ CountTells
<1>2. CASE UNCHANGED vars
  <2>1. UNCHANGED <<memFree, owned, events, ops, cache, pc, using, post, failed>>
    BY <1>2 DEF vars, memVars, grpVars, colVars
  <2>2. \A u \in Thread : /\ Todo(u)' = Todo(u) /\ Allocated(u)' = Allocated(u)
                          /\ Recorded(u)' = Recorded(u) /\ ReleasedBy(u)' = ReleasedBy(u)
    BY <2>1 DEF Todo, Allocated, Recorded, ReleasedBy
  <2>3. InUse' = InUse /\ Releasing' = Releasing
    BY <2>1, <2>2 DEF InUse, Releasing
  <2>4. Phases' /\ OwnFiles' /\ EventsFit'
    BY <2>1, <2>2 DEF MInv, Phases, OwnFiles, EventsFit, BlocksOf
  <2>5. BitsTell' /\ RootsTell'
    BY <2>1, <2>2, SameBits, SameRoots DEF MInv
  <2>6. CountTells'
    BY <2>1, <2>3 DEF MInv, CountTells, BlocksOf
  <2>7. QED
    BY <1>1, <2>4, <2>5, <2>6 DEF MInv
<1>3. ASSUME NEW t \in Thread, FileOp(t) PROVE Rest'
  BY <1>3, ExtendMemory, TruncateMemory DEF FileOp
<1>4. ASSUME NEW t \in Thread, Commit(t) PROVE Rest'
  BY <1>4, CompressMemory, OpMemory, PostludeMemory, OtherMemory DEF Commit
<1>5. ASSUME NEW t \in Thread, Done(t) \/ FailWrite(t) PROVE Rest'
  BY <1>5, OtherMemory
<1>6. ASSUME Next PROVE Rest'
  BY <1>3, <1>4, <1>5, <1>6 DEF Next
<1>7. QED
  BY <1>1, <1>2, <1>6 DEF MInv

\* The first event of a transaction finds its blocks unmarked or marked, as it
\* expects them.
LEMMA BitsFit == MInv => BitmapAssertions
<1> SUFFICES ASSUME MInv, NEW t \in Thread, pc[t] = "compress", events[t] # <<>>
             PROVE  LET e == Head(events[t])
                        used == cache[Bitmap(e.grp)].blks
                    IN  /\ e.kind = "alloc" => e.blks \cap used = {}
                        /\ e.kind = "dealloc" => e.blks \subseteq used
  BY DEF BitmapAssertions
<1> DEFINE e == Head(events[t])
<1>1. TypeOK /\ OwnershipExclusive /\ BitsTell /\ EventsFit /\ OwnFiles /\ IInv
  BY DEF MInv, IInv
<1>2. 1 \in DOMAIN events[t] /\ events[t][1] = e
  <2>1. events[t] \in Seq(Event)
    BY <1>1 DEF TypeOK
  <2>2. QED
    BY <2>1
<1>3. e.grp \in Group /\ e.blks \in SUBSET Block
  BY <1>1, <1>2, EventParts
<1> HIDE DEF e
<1>4. ASSUME e.kind = "alloc", NEW b \in e.blks
      PROVE  b \notin cache[Bitmap(e.grp)].blks
  <2>1. b \in Allocated(t)
    BY <1>2, <1>4, Waiting
  <2>2. b \in InUse
    BY <1>1, <2>1, AllocatedApart
  <2>3. \A u \in Thread : b \notin Recorded(u)
    BY <1>1, <2>2 DEF OwnershipExclusive, Releasing, ReleasedBy
  <2>4. QED
    BY <1>1, <1>3, <1>4, <2>1, <2>3 DEF BitsTell
<1>5. ASSUME e.kind = "dealloc", NEW b \in e.blks
      PROVE  b \in cache[Bitmap(e.grp)].blks
  <2>1. b \in Recorded(t)
    BY <1>2, <1>5, Waiting
  <2>2. GroupOf[b] = e.grp
    BY <1>1, <1>2, <1>5 DEF EventsFit, BlocksOf
  <2>3. QED
    BY <1>1, <1>3, <1>5, <2>1, <2>2 DEF BitsTell
<1>6. QED
  BY <1>4, <1>5 DEF e

\* As long as no two live transactions work on one file, no bit is
\* ever set twice or cleared twice: the assertions inside set_bitmap and
\* unset_bitmap never fail, however the transactions of any number of threads
\* reach the bitmaps, and for any blocks, groups and files.
THEOREM NoBitTwice == PrivateFiles => (Spec => []BitmapAssertions)
<1> SUFFICES ASSUME PrivateFiles PROVE Spec => []BitmapAssertions
  OBVIOUS
<1>1. MInv /\ [Next]_vars => MInv'
  BY MStep
<1>2. QED
  BY <1>1, MInit, BitsFit, PTL DEF Spec

\* As long as no two live transactions work on one file, bitmaps,
\* extents and the free counts of the groups agree whenever no transaction is
\* live, and the buddies hold only blocks the bitmaps leave free; a failed
\* write may leave the free counts, and nothing else, wrong.
THEOREM MemoryAgrees == PrivateFiles => (Spec => []MemoryAgreesWhenIdle)
<1>1. MInv => MemoryAgreesWhenIdle
  <2> SUFFICES ASSUME MInv, Idle
               PROVE  /\ \A f \in File : cache[Ino(f)].blks = owned[f]
                      /\ \A g \in Group :
                            /\ InUse \cap BlocksOf(g) = cache[Bitmap(g)].blks
                            /\ free \cap cache[Bitmap(g)].blks = {}
                            /\ failed \/ memFree[g] =
                                Cardinality(BlocksOf(g) \ cache[Bitmap(g)].blks)
    BY DEF MemoryAgreesWhenIdle
  <2>1. /\ TypeOK /\ OwnershipExclusive /\ BitsTell /\ RootsTell /\ CountTells /\ Phases
    BY DEF MInv, IInv
  <2>2. \A t \in Thread : events[t] = <<>> /\ ops[t] = <<>> /\ post[t] = {}
    BY <2>1 DEF Idle, Phases
  <2>3. \A t \in Thread : /\ ~\E i \in DOMAIN Todo(t) : TRUE
                          /\ Allocated(t) = {} /\ Recorded(t) = {} /\ ReleasedBy(t) = {}
    BY <2>2, NothingToDo DEF Allocated, Recorded, ReleasedBy
  <2>4. Releasing = {}
    BY <2>3 DEF Releasing
  <2>5. \A f \in File : cache[Ino(f)].blks = owned[f]
    BY <2>1, <2>3 DEF RootsTell, HasSize
  <2>6. ASSUME NEW g \in Group
        PROVE  InUse \cap BlocksOf(g) = cache[Bitmap(g)].blks
    <3>1. cache[Bitmap(g)].blks \in SUBSET Block
      BY <2>1, Slots DEF TypeOK, Content
    <3>2. \A b \in Block : b \in cache[Bitmap(g)].blks <=> GroupOf[b] = g /\ b \in InUse
      BY <2>1, <2>3 DEF BitsTell
    <3>3. QED
      BY <3>1, <3>2 DEF BlocksOf
  <2>7. ASSUME NEW g \in Group, ~failed
        PROVE  memFree[g] = Cardinality(BlocksOf(g) \ cache[Bitmap(g)].blks)
    <3>1. BlocksOf(g) \ (InUse \cup Releasing) = BlocksOf(g) \ cache[Bitmap(g)].blks
      BY <2>4, <2>6
    <3>2. QED
      BY <2>1, <2>7, <3>1 DEF CountTells
  <2>8. \A g \in Group : free \cap cache[Bitmap(g)].blks = {}
    BY <2>1, <2>6 DEF OwnershipExclusive
  <2>9. QED
    BY <2>5, <2>6, <2>7, <2>8
<1> SUFFICES ASSUME PrivateFiles PROVE Spec => []MemoryAgreesWhenIdle
  OBVIOUS
<1>2. MInv /\ [Next]_vars => MInv'
  BY MStep
<1>3. QED
  BY <1>1, <1>2, MInit, PTL DEF Spec

-----------------------------------------------------------------------------
(***************************************************************************)
(* The counters of free blocks, for any finite sets of threads and groups: *)
(* what the descriptors and the superblock count, with the deltas still to *)
(* be submitted, is what the cached bitmaps leave free.                    *)
(***************************************************************************)

\* Counters and deltas are summed over the groups of the device and the
\* threads of the program: there are finitely many of both.
FinitelyMany == IsFiniteSet(Thread) /\ IsFiniteSet(Group)

-----------------------------------------------------------------------------
(* SumFunction takes the elements of the domain one by one, each time the  *)
(* one that CHOOSE gives; r has the sums over all subsets of S.            *)

Pick(s) == CHOOSE x \in s : TRUE

Summing(r, f, S) ==
    r = [s \in SUBSET S |-> IF s = {} THEN 0 ELSE f[Pick(s)] + r[s \ {Pick(s)}]]

\* What is left has an element less.
LEMMA PickIs == \A s : s # {} => Pick(s) \in s /\ s \ {Pick(s)} # s
BY DEF Pick

\* Of sets of subsets of a finite set, one is smallest: what holds of a set
\* when it holds of its parts holds of all.
LEMMA SmallestExists ==
    ASSUME NEW S, IsFiniteSet(S), NEW T \in SUBSET SUBSET S, T # {}
    PROVE  \E s \in T : \A u \in T : u \subseteq s => u = s
<1> DEFINE R == StrictSubsetOrdering(S)
<1>1. T \subseteq FiniteSubsetsOf(S)
  BY FS_Subset DEF FiniteSubsetsOf
<1>2. IsWellFoundedOn(R, FiniteSubsetsOf(S))
  BY FS_StrictSubsetOrderingWellFounded
<1>3. \E s \in T : \A u \in T : <<u, s>> \notin R
  <2> HIDE DEF R
  <2>1. QED
    BY <1>1, <1>2, WFMin
<1>4. QED
  BY <1>3 DEF StrictSubsetOrdering

\* The sum over a part does not depend on the whole.
LEMMA SummingAgrees ==
    ASSUME NEW f, NEW S, NEW U, IsFiniteSet(S),
           NEW r, NEW q, Summing(r, f, S), Summing(q, f, U)
    PROVE  \A s \in SUBSET (S \cap U) : r[s] = q[s]
<1> DEFINE Bad == {s \in SUBSET (S \cap U) : r[s] # q[s]}
<1>1. SUFFICES ASSUME Bad # {} PROVE FALSE
  OBVIOUS
<1>2. Bad \in SUBSET SUBSET S
  OBVIOUS
<1>3. PICK s \in Bad : \A u \in Bad : u \subseteq s => u = s
  <2> HIDE DEF Bad
  <2>1. QED
    BY <1>1, <1>2, SmallestExists
<1>4. s \in SUBSET S /\ s \in SUBSET U /\ r[s] # q[s]
  OBVIOUS
<1>5. /\ r[s] = IF s = {} THEN 0 ELSE f[Pick(s)] + r[s \ {Pick(s)}]
      /\ q[s] = IF s = {} THEN 0 ELSE f[Pick(s)] + q[s \ {Pick(s)}]
  BY <1>4 DEF Summing
<1>6. s # {}
  BY <1>4, <1>5
<1>7. s \ {Pick(s)} \notin Bad
  BY <1>3, <1>6, PickIs
<1>8. r[s \ {Pick(s)}] = q[s \ {Pick(s)}]
  BY <1>4, <1>7
<1>9. QED
  BY <1>4, <1>5, <1>8

\* There are such sums over every finite set.
LEMMA SummingExists ==
    ASSUME NEW f, NEW S, IsFiniteSet(S)
    PROVE  \E r : Summing(r, f, S)
<1> DEFINE Bad == {s \in SUBSET S : ~ \E r : Summing(r, f, s)}
<1>1. SUFFICES ASSUME Bad # {} PROVE FALSE
  OBVIOUS
<1>2. PICK s \in Bad : \A u \in Bad : u \subseteq s => u = s
  <2>1. Bad \in SUBSET SUBSET S
    OBVIOUS
  <2> HIDE DEF Bad
  <2>2. QED
    BY <1>1, <2>1, SmallestExists
<1>3. s \in SUBSET S /\ ~ \E r : Summing(r, f, s)
  OBVIOUS
<1> DEFINE Part(u) == CHOOSE r : Summing(r, f, u)
           sum == [u \in SUBSET s |->
                     IF u = {} THEN 0
                     ELSE f[Pick(u)] + Part(u \ {Pick(u)})[u \ {Pick(u)}]]
<1>4. \A u \in SUBSET s : u # s => Summing(Part(u), f, u)
  <2> TAKE u \in SUBSET s
  <2> HAVE u # s
  <2>1. u \in SUBSET S /\ u \notin Bad
    BY <1>2, <1>3
  <2>2. \E r : Summing(r, f, u)
    BY <2>1
  <2>3. QED
    BY <2>2
<1> HIDE DEF Bad
<1>5. \A u \in SUBSET s : u # s => Part(u)[u] = sum[u]
  <2> TAKE u \in SUBSET s
  <2> HAVE u # s
  <2>1. Summing(Part(u), f, u)
    BY <1>4
  <2>2. Part(u)[u] = IF u = {} THEN 0 ELSE f[Pick(u)] + Part(u)[u \ {Pick(u)}]
    <3> HIDE DEF Part
    <3>1. QED
      BY <2>1 DEF Summing
  <2>3. CASE u = {}
    <3> HIDE DEF Part
    <3>1. QED
      BY <2>2, <2>3
  <2>4. CASE u # {}
    <3> DEFINE v == u \ {Pick(u)}
    <3>1. v \in SUBSET s /\ v # s /\ v \in SUBSET (u \cap v) /\ IsFiniteSet(u)
      BY <1>3, <2>4, PickIs, FS_Subset
    <3>2. Summing(Part(v), f, v)
      BY <1>4, <3>1
    <3> HIDE DEF Part
    <3>3. Part(u)[v] = Part(v)[v]
      <4> HIDE DEF v
      <4>1. QED
        BY <2>1, <3>1, <3>2, SummingAgrees
    <3>4. sum[u] = f[Pick(u)] + Part(v)[v]
      BY <2>4
    <3>5. QED
      BY <2>2, <2>4, <3>3, <3>4
  <2>5. QED
    BY <2>3, <2>4
<1>6. sum = [u \in SUBSET s |-> IF u = {} THEN 0 ELSE f[Pick(u)] + sum[u \ {Pick(u)}]]
  <2>1. ASSUME NEW u \in SUBSET s, u # {}
        PROVE  Part(u \ {Pick(u)})[u \ {Pick(u)}] = sum[u \ {Pick(u)}]
    <3> DEFINE v == u \ {Pick(u)}
    <3>1. v \in SUBSET s /\ v # s
      BY <2>1, PickIs
    <3> HIDE DEF v
    <3>2. Part(v)[v] = sum[v]
      BY <1>5, <3>1
    <3>3. QED
      BY <3>2 DEF v
  <2>2. \A u \in SUBSET s : sum[u] = IF u = {} THEN 0 ELSE f[Pick(u)] + sum[u \ {Pick(u)}]
    <3> TAKE u \in SUBSET s
    <3> HIDE DEF Part
    <3>1. CASE u = {}
      BY <3>1
    <3>2. CASE u # {}
      BY <2>1, <3>2
    <3>3. QED
      BY <3>1, <3>2
  <2>3. sum = [u \in SUBSET s |-> sum[u]]
    OBVIOUS
  <2> HIDE DEF sum
  <2>4. QED
    BY <2>2, <2>3
<1>7. QED
  <2> HIDE DEF sum
  <2>1. QED
    BY <1>3, <1>6 DEF Summing

\* What SumFunction returns.
LEMMA SumIs ==
    ASSUME NEW f, IsFiniteSet(DOMAIN f)
    PROVE  \E r : Summing(r, f, DOMAIN f) /\ SumFunction(f) = r[DOMAIN f]
<1> DEFINE r == CHOOSE q : Summing(q, f, DOMAIN f)
<1>1. Summing(r, f, DOMAIN f)
  BY SummingExists
<1>2. SumFunction(f) = r[DOMAIN f]
  BY DEF SumFunction, SumFunctionOnSet, FoldFunctionOnSet, MapThenFoldSet, Summing, Pick
<1>3. QED
  BY <1>1, <1>2

\* The sum of integers is one.
LEMMA SumType ==
    ASSUME NEW D, IsFiniteSet(D), NEW f \in [D -> Int]
    PROVE  SumFunction(f) \in Int
<1>1. PICK r : Summing(r, f, D) /\ SumFunction(f) = r[D]
  BY SumIs
<1> DEFINE Bad == {s \in SUBSET D : r[s] \notin Int}
<1>2. ASSUME Bad # {} PROVE FALSE
  <2>1. PICK s \in Bad : \A u \in Bad : u \subseteq s => u = s
    <3>1. Bad \in SUBSET SUBSET D
      OBVIOUS
    <3> HIDE DEF Bad
    <3>2. QED
      BY <1>2, <3>1, SmallestExists
  <2>2. s \in SUBSET D /\ r[s] \notin Int
    OBVIOUS
  <2>3. r[s] = IF s = {} THEN 0 ELSE f[Pick(s)] + r[s \ {Pick(s)}]
    BY <1>1, <2>2 DEF Summing
  <2>4. s # {}
    BY <2>2, <2>3
  <2>5. s \ {Pick(s)} \notin Bad /\ Pick(s) \in D
    BY <2>1, <2>2, <2>4, PickIs
  <2>6. r[s \ {Pick(s)}] \in Int /\ f[Pick(s)] \in Int
    BY <2>2, <2>5
  <2>7. QED
    BY <2>2, <2>3, <2>4, <2>6
<1>3. QED
  BY <1>1, <1>2

\* When one of the summands changes, the sum changes by as much.
LEMMA SumChanges ==
    ASSUME NEW D, IsFiniteSet(D), NEW f \in [D -> Int], NEW g \in [D -> Int], NEW d \in D,
           \A x \in D : x # d => g[x] = f[x]
    PROVE  SumFunction(g) = SumFunction(f) - f[d] + g[d]
<1>1. PICK r : Summing(r, f, D) /\ SumFunction(f) = r[D]
  BY SumIs
<1>2. PICK q : Summing(q, g, D) /\ SumFunction(g) = q[D]
  BY SumIs
<1> DEFINE Changed(s) == /\ r[s] \in Int
                         /\ q[s] = IF d \in s THEN r[s] - f[d] + g[d] ELSE r[s]
           Bad == {s \in SUBSET D : ~Changed(s)}
<1>3. ASSUME Bad # {} PROVE FALSE
  <2>1. PICK s \in Bad : \A u \in Bad : u \subseteq s => u = s
    <3>1. Bad \in SUBSET SUBSET D
      OBVIOUS
    <3> HIDE DEF Bad
    <3>2. QED
      BY <1>3, <3>1, SmallestExists
  <2>2. s \in SUBSET D /\ ~Changed(s)
    OBVIOUS
  <2>3. /\ r[s] = IF s = {} THEN 0 ELSE f[Pick(s)] + r[s \ {Pick(s)}]
        /\ q[s] = IF s = {} THEN 0 ELSE g[Pick(s)] + q[s \ {Pick(s)}]
    BY <1>1, <1>2, <2>2 DEF Summing
  <2>4. s # {}
    BY <2>2, <2>3
  <2> DEFINE x == Pick(s)
             u == s \ {x}
  <2>5. u \notin Bad /\ u \in SUBSET D /\ x \in D /\ x \in s /\ x \notin u /\ (d \in s <=> d \in u \/ d = x)
    BY <2>1, <2>2, <2>4, PickIs
  <2>6. Changed(u)
    BY <2>5
  <2>7. r[s] = f[x] + r[u] /\ q[s] = g[x] + q[u]
    BY <2>3, <2>4
  <2>8. f[x] \in Int /\ g[x] \in Int /\ f[d] \in Int /\ g[d] \in Int
    BY <2>5
  <2> HIDE DEF x, u, Bad
  <2>9. CASE x = d
    BY <2>2, <2>5, <2>6, <2>7, <2>8, <2>9
  <2>10. CASE x # d
    <3>1. g[x] = f[x]
      BY <2>5, <2>10
    <3>2. QED
      BY <2>2, <2>5, <2>6, <2>7, <2>8, <2>10, <3>1
  <2>11. QED
    BY <2>9, <2>10
<1>4. Changed(D)
  BY <1>3
<1>5. QED
  BY <1>1, <1>2, <1>4

\* Nothing adds up to nothing.
LEMMA SumOfZeros ==
    ASSUME NEW D, IsFiniteSet(D), NEW f \in [D -> Int], \A x \in D : f[x] = 0
    PROVE  SumFunction(f) = 0
<1>1. PICK r : Summing(r, f, D) /\ SumFunction(f) = r[D]
  BY SumIs
<1> DEFINE Bad == {s \in SUBSET D : r[s] # 0}
<1>2. ASSUME Bad # {} PROVE FALSE
  <2>1. PICK s \in Bad : \A u \in Bad : u \subseteq s => u = s
    <3>1. Bad \in SUBSET SUBSET D
      OBVIOUS
    <3> HIDE DEF Bad
    <3>2. QED
      BY <1>2, <3>1, SmallestExists
  <2>2. s \in SUBSET D /\ r[s] # 0
    OBVIOUS
  <2>3. r[s] = IF s = {} THEN 0 ELSE f[Pick(s)] + r[s \ {Pick(s)}]
    BY <1>1, <2>2 DEF Summing
  <2>4. s # {}
    BY <2>2, <2>3
  <2>5. s \ {Pick(s)} \notin Bad /\ Pick(s) \in D
    BY <2>1, <2>2, <2>4, PickIs
  <2>6. r[s \ {Pick(s)}] = 0 /\ f[Pick(s)] = 0
    BY <2>2, <2>5
  <2>7. QED
    BY <2>2, <2>3, <2>4, <2>6
<1>3. QED
  BY <1>1, <1>2

\* The blocks of two sets that have none in common.
LEMMA BlocksTogether ==
    ASSUME NEW A \in SUBSET Block, NEW B \in SUBSET Block, A \cap B = {}
    PROVE  /\ Cardinality(A \cup B) = Cardinality(A) + Cardinality(B)
           /\ Cardinality(A) \in Nat /\ Cardinality(B) \in Nat
<1>1. IsFiniteSet(A) /\ IsFiniteSet(B)
  BY ConstantsOK, FS_Subset DEF ConstantsOK
<1>2. Cardinality(A) \in Nat /\ Cardinality(B) \in Nat /\ Cardinality(A \cap B) = 0
  BY <1>1, FS_CardinalityType, FS_EmptySet
<1>3. Cardinality(A \cup B) = Cardinality(A) + Cardinality(B) - Cardinality(A \cap B)
  BY <1>1, FS_Union
<1>4. QED
  BY <1>2, <1>3

\* Every block is in one group: the groups have all blocks between them.
LEMMA GroupsPartition ==
    ASSUME IsFiniteSet(Group)
    PROVE  SumFunction([g \in Group |-> Cardinality(BlocksOf(g))]) = Cardinality(Block)
<1> DEFINE f == [g \in Group |-> Cardinality(BlocksOf(g))]
           Of(s) == {b \in Block : GroupOf[b] \in s}
<1>1. PICK r : Summing(r, f, Group) /\ SumFunction(f) = r[Group]
  BY SumIs
<1> DEFINE Bad == {s \in SUBSET Group : r[s] # Cardinality(Of(s))}
<1>2. ASSUME Bad # {} PROVE FALSE
  <2>1. PICK s \in Bad : \A u \in Bad : u \subseteq s => u = s
    <3>1. Bad \in SUBSET SUBSET Group
      OBVIOUS
    <3> HIDE DEF Bad
    <3>2. QED
      BY <1>2, <3>1, SmallestExists
  <2>2. s \in SUBSET Group /\ r[s] # Cardinality(Of(s))
    OBVIOUS
  <2>3. r[s] = IF s = {} THEN 0 ELSE f[Pick(s)] + r[s \ {Pick(s)}]
    BY <1>1, <2>2 DEF Summing
  <2>4. CASE s = {}
    <3>1. Of(s) = {}
      BY <2>4
    <3>2. QED
      BY <2>2, <2>3, <2>4, <3>1, FS_EmptySet
  <2>5. CASE s # {}
    <3> DEFINE x == Pick(s)
               u == s \ {x}
    <3>1. u \notin Bad /\ u \in SUBSET Group /\ x \in Group /\ x \in s
      BY <2>1, <2>2, <2>5, PickIs
    <3>2. r[s] = Cardinality(BlocksOf(x)) + Cardinality(Of(u))
      BY <2>3, <2>5, <3>1
    <3>3. /\ Of(s) = BlocksOf(x) \cup Of(u) /\ BlocksOf(x) \cap Of(u) = {}
          /\ BlocksOf(x) \in SUBSET Block /\ Of(u) \in SUBSET Block
      BY <3>1 DEF BlocksOf
    <3> HIDE DEF x, u, Of
    <3>4. Cardinality(BlocksOf(x) \cup Of(u)) = Cardinality(BlocksOf(x)) + Cardinality(Of(u))
      BY <3>3, BlocksTogether
    <3>5. QED
      BY <2>2, <3>2, <3>3, <3>4
  <2>6. QED
    BY <2>4, <2>5
<1>3. Of(Group) = Block
  BY ConstantsOK DEF ConstantsOK
<1>4. QED
  BY <1>1, <1>2, <1>3

-----------------------------------------------------------------------------
(* Mounting, and the steps that change counters.                           *)

FreeIn(g) == Cardinality(BlocksOf(g) \ cache[Bitmap(g)].blks)

DeltasOf(g) == [t \in Thread |-> delta[t][g]]

\* CountersConserved in these terms.
LEMMA CountersAre ==
    CountersConserved <=>
        /\ \A g \in Group : cache[Desc(g)].n + SumFunction(DeltasOf(g)) = FreeIn(g)
        /\ cache[Sb].n + SumFunction(sbDelta) = SumFunction([g \in Group |-> FreeIn(g)])
BY DEF CountersConserved, FreeIn, DeltasOf

\* The counters of a device just mounted are those of its bitmaps.
LEMMA CountersInit == FinitelyMany /\ Init => CountersConserved
<1> SUFFICES ASSUME FinitelyMany, Init PROVE CountersConserved
  OBVIOUS
<1>1. \A g \in Group : /\ cache[Bitmap(g)].blks = {} /\ cache[Desc(g)].n = Cardinality(BlocksOf(g))
                       /\ FreeIn(g) = Cardinality(BlocksOf(g)) /\ FreeIn(g) \in Int
  <2> TAKE g \in Group
  <2>1. Bitmap(g) \in Slot /\ Desc(g) \in Slot /\ Bitmap(g)[1] = "bitmap" /\ Desc(g)[1] = "desc"
        /\ Desc(g)[2] = g
    BY Slots DEF Bitmap, Desc
  <2>2. cache[Bitmap(g)].blks = {} /\ cache[Desc(g)].n = Cardinality(BlocksOf(g))
    BY <2>1 DEF Init, Mounted
  <2>3. BlocksOf(g) \in SUBSET Block /\ Cardinality(BlocksOf(g)) \in Nat
    BY ConstantsOK, FS_Subset, FS_CardinalityType DEF BlocksOf, ConstantsOK
  <2>4. QED
    BY <2>2, <2>3 DEF FreeIn
<1>2. cache[Sb].n = Cardinality(Block) /\ Cardinality(Block) \in Int
  BY Slots, ConstantsOK, FS_CardinalityType DEF Init, Mounted, Sb, ConstantsOK
<1>3. \A g \in Group : SumFunction(DeltasOf(g)) = 0
  <2> TAKE g \in Group
  <2>1. DeltasOf(g) \in [Thread -> Int] /\ \A t \in Thread : DeltasOf(g)[t] = 0
    BY DEF Init, DeltasOf
  <2>2. QED
    BY <2>1, SumOfZeros DEF FinitelyMany
<1>4. SumFunction(sbDelta) = 0
  <2>1. sbDelta \in [Thread -> Int] /\ \A t \in Thread : sbDelta[t] = 0
    BY DEF Init
  <2>2. QED
    BY <2>1, SumOfZeros DEF FinitelyMany
<1>5. [g \in Group |-> FreeIn(g)] = [g \in Group |-> Cardinality(BlocksOf(g))]
  BY <1>1
<1>6. SumFunction([g \in Group |-> FreeIn(g)]) = Cardinality(Block)
  BY <1>5, GroupsPartition DEF FinitelyMany
<1>7. QED
  BY <1>1, <1>2, <1>3, <1>4, <1>6, CountersAre

\* What counters, deltas and bitmaps are.
LEMMA CounterTypes ==
    ASSUME TypeOK
    PROVE  /\ \A g \in Group : cache[Desc(g)].n \in Int /\ FreeIn(g) \in Int
           /\ \A g \in Group : DeltasOf(g) \in [Thread -> Int]
           /\ sbDelta \in [Thread -> Int] /\ cache[Sb].n \in Int
           /\ [g \in Group |-> FreeIn(g)] \in [Group -> Int]
<1>1. \A s \in Slot : cache[s].n \in Int /\ cache[s].blks \in SUBSET Block
  BY DEF TypeOK, Content
<1>2. \A g \in Group : FreeIn(g) \in Int
  <2> TAKE g \in Group
  <2>1. BlocksOf(g) \ cache[Bitmap(g)].blks \in SUBSET Block
    BY DEF BlocksOf
  <2> DEFINE A == BlocksOf(g) \ cache[Bitmap(g)].blks
  <2>2. Cardinality(A) \in Nat
    <3> HIDE DEF A
    <3>1. QED
      BY <2>1, ConstantsOK, FS_Subset, FS_CardinalityType DEF ConstantsOK, A
  <2>3. QED
    BY <2>2 DEF FreeIn
<1>3. QED
  BY <1>1, <1>2, Slots DEF TypeOK, DeltasOf

\* A step that leaves bitmaps, counters and deltas alone.
LEMMA CountersSame ==
    ASSUME CountersConserved, UNCHANGED <<delta, sbDelta>>, cache'[Sb].n = cache[Sb].n,
           \A g \in Group : /\ cache'[Desc(g)].n = cache[Desc(g)].n
                            /\ cache'[Bitmap(g)].blks = cache[Bitmap(g)].blks
    PROVE  CountersConserved'
<1>1. \A g \in Group : FreeIn(g)' = FreeIn(g) /\ DeltasOf(g)' = DeltasOf(g)
  BY DEF FreeIn, DeltasOf, BlocksOf
<1>2. [g \in Group |-> FreeIn(g)]' = [g \in Group |-> FreeIn(g)]
  BY <1>1
<1>3. (CountersConserved <=>
        /\ \A g \in Group : cache[Desc(g)].n + SumFunction(DeltasOf(g)) = FreeIn(g)
        /\ cache[Sb].n + SumFunction(sbDelta) = SumFunction([g \in Group |-> FreeIn(g)]))'
  BY CountersAre, PTL
<1>4. QED
  BY <1>1, <1>2, <1>3, CountersAre

\* A bitmap changes, and the deltas of its group and of the superblock by as
\* much.
LEMMA CountersApplied ==
    ASSUME FinitelyMany, TypeOK, TypeOK', CountersConserved,
           NEW t \in Thread, NEW h \in Group, NEW n \in Int,
           delta' = [delta EXCEPT ![t][h] = @ + n],
           sbDelta' = [sbDelta EXCEPT ![t] = @ + n],
           cache'[Sb].n = cache[Sb].n,
           \A g \in Group : cache'[Desc(g)].n = cache[Desc(g)].n,
           \A g \in Group : g # h => FreeIn(g)' = FreeIn(g),
           FreeIn(h)' = FreeIn(h) + n
    PROVE  CountersConserved'
<1> DEFINE frees == [g \in Group |-> FreeIn(g)]
<1>1. /\ \A g \in Group : cache[Desc(g)].n \in Int /\ FreeIn(g) \in Int
      /\ \A g \in Group : DeltasOf(g) \in [Thread -> Int]
      /\ sbDelta \in [Thread -> Int] /\ cache[Sb].n \in Int
      /\ frees \in [Group -> Int]
  BY CounterTypes
<1>2. (TypeOK =>
        /\ \A g \in Group : DeltasOf(g) \in [Thread -> Int]
        /\ sbDelta \in [Thread -> Int]
        /\ frees \in [Group -> Int])'
  BY CounterTypes, PTL
<1>3. /\ \A g \in Group : DeltasOf(g)' \in [Thread -> Int]
      /\ sbDelta' \in [Thread -> Int]
      /\ frees' \in [Group -> Int]
  BY <1>2
<1>4. \A g \in Group : cache'[Desc(g)].n + SumFunction(DeltasOf(g)') = FreeIn(g)'
  <2> TAKE g \in Group
  <2>1. cache[Desc(g)].n + SumFunction(DeltasOf(g)) = FreeIn(g)
    BY CountersAre
  <2>2. CASE g # h
    <3>1. \A u \in Thread : delta'[u][g] = delta[u][g]
      BY <2>2 DEF TypeOK
    <3>2. DeltasOf(g)' = DeltasOf(g)
      BY <3>1 DEF DeltasOf
    <3>3. QED
      BY <2>1, <2>2, <3>2
  <2>3. CASE g = h
    <3>1. /\ DeltasOf(h)'[t] = DeltasOf(h)[t] + n
          /\ \A u \in Thread : u # t => DeltasOf(h)'[u] = DeltasOf(h)[u]
      BY DEF DeltasOf, TypeOK
    <3>2. SumFunction(DeltasOf(h)') = SumFunction(DeltasOf(h)) - DeltasOf(h)[t] + DeltasOf(h)'[t]
      <4> DEFINE d == DeltasOf(h)
                 e == DeltasOf(h)'
      <4>1. /\ d \in [Thread -> Int] /\ e \in [Thread -> Int]
            /\ \A u \in Thread : u # t => e[u] = d[u]
        BY <1>1, <1>3, <3>1
      <4> HIDE DEF d, e
      <4>2. SumFunction(e) = SumFunction(d) - d[t] + e[t]
        BY <4>1, SumChanges DEF FinitelyMany
      <4>3. QED
        BY <4>2 DEF d, e
    <3>3. SumFunction(DeltasOf(h)) \in Int /\ DeltasOf(h)[t] \in Int
      BY <1>1, SumType DEF FinitelyMany
    <3>4. QED
      BY <1>1, <2>1, <2>3, <3>1, <3>2, <3>3
  <2>4. QED
    BY <2>2, <2>3
<1>5. SumFunction(sbDelta') = SumFunction(sbDelta) + n
  <2>1. sbDelta'[t] = sbDelta[t] + n /\ \A u \in Thread : u # t => sbDelta'[u] = sbDelta[u]
    BY <1>1
  <2>2. SumFunction(sbDelta') = SumFunction(sbDelta) - sbDelta[t] + sbDelta'[t]
    <3> DEFINE d == sbDelta
               e == sbDelta'
    <3>1. /\ d \in [Thread -> Int] /\ e \in [Thread -> Int]
          /\ \A u \in Thread : u # t => e[u] = d[u]
      BY <1>1, <1>3, <2>1
    <3> HIDE DEF d, e
    <3>2. SumFunction(e) = SumFunction(d) - d[t] + e[t]
      BY <3>1, SumChanges DEF FinitelyMany
    <3>3. QED
      BY <3>2 DEF d, e
  <2>3. SumFunction(sbDelta) \in Int /\ sbDelta[t] \in Int
    BY <1>1, SumType DEF FinitelyMany
  <2>4. QED
    BY <2>1, <2>2, <2>3
<1>6. SumFunction(frees') = SumFunction(frees) + n
  <2>1. frees'[h] = frees[h] + n /\ \A g \in Group : g # h => frees'[g] = frees[g]
    OBVIOUS
  <2>2. SumFunction(frees') = SumFunction(frees) - frees[h] + frees'[h]
    <3> DEFINE d == frees
               e == frees'
    <3>1. /\ d \in [Group -> Int] /\ e \in [Group -> Int]
          /\ \A g \in Group : g # h => e[g] = d[g]
      BY <1>1, <1>3, <2>1
    <3> HIDE DEF d, e
    <3>2. SumFunction(e) = SumFunction(d) - d[h] + e[h]
      BY <3>1, SumChanges DEF FinitelyMany
    <3>3. QED
      BY <3>2 DEF d, e
  <2>3. SumFunction(frees) \in Int /\ frees[h] \in Int
    <3> HIDE DEF frees
    <3>1. QED
      BY <1>1, SumType DEF FinitelyMany
  <2> HIDE DEF frees
  <2>4. QED
    BY <2>1, <2>2, <2>3
<1>7. cache'[Sb].n + SumFunction(sbDelta') = SumFunction(frees')
  <2>1. cache[Sb].n + SumFunction(sbDelta) = SumFunction(frees)
    BY CountersAre
  <2>2. SumFunction(sbDelta) \in Int
    BY <1>1, SumType DEF FinitelyMany
  <2> HIDE DEF frees
  <2>3. QED
    BY <1>1, <1>5, <1>6, <2>1, <2>2
<1>8. (CountersConserved <=>
        /\ \A g \in Group : cache[Desc(g)].n + SumFunction(DeltasOf(g)) = FreeIn(g)
        /\ cache[Sb].n + SumFunction(sbDelta) = SumFunction([g \in Group |-> FreeIn(g)]))'
  BY CountersAre, PTL
<1>9. QED
  BY <1>4, <1>7, <1>8

\* BlockGroup's free count and its delta: what the descriptor gains, the
\* transaction has submitted.
LEMMA SubmitGroupCounters ==
    ASSUME FinitelyMany, TypeOK, TypeOK', CountersConserved, NEW t \in Thread, NEW h \in Group,
           SubmitBlockGroup(t, h)
    PROVE  CountersConserved'
<1>1. /\ cache' = [cache EXCEPT ![Desc(h)].n = @ + delta[t][h]]
      /\ delta' = [delta EXCEPT ![t][h] = 0] /\ sbDelta' = sbDelta
  BY DEF SubmitBlockGroup
<1>2. /\ \A g \in Group : cache'[Bitmap(g)].blks = cache[Bitmap(g)].blks
      /\ \A g \in Group : cache'[Desc(g)].n =
            IF g = h THEN cache[Desc(h)].n + delta[t][h] ELSE cache[Desc(g)].n
      /\ cache'[Sb].n = cache[Sb].n
  <2>1. \A g \in Group : cache'[Bitmap(g)].blks = cache[Bitmap(g)].blks
    BY <1>1, CountersOnly
  <2>2. /\ cache \in [Slot -> Content]
        /\ Desc(h) \in Slot /\ Sb \in Slot /\ Sb # Desc(h)
        /\ \A g \in Group : Desc(g) \in Slot /\ (Desc(g) = Desc(h) <=> g = h)
    BY Slots DEF TypeOK, Desc, Sb
  <2>3. cache[Desc(h)] \in Content
    BY <2>2
  <2>4. /\ \A s \in Slot : s # Desc(h) => cache'[s] = cache[s]
        /\ cache'[Desc(h)].n = cache[Desc(h)].n + delta[t][h]
    BY <1>1, <2>2, <2>3 DEF Content
  <2>5. QED
    BY <2>1, <2>2, <2>4
<1>3. \A g \in Group : FreeIn(g)' = FreeIn(g)
  BY <1>2 DEF FreeIn, BlocksOf
<1>4. [g \in Group |-> FreeIn(g)]' = [g \in Group |-> FreeIn(g)]
  BY <1>3
<1>5. \A g \in Group : cache'[Desc(g)].n + SumFunction(DeltasOf(g)') = FreeIn(g)'
  <2> TAKE g \in Group
  <2>1. cache[Desc(g)].n + SumFunction(DeltasOf(g)) = FreeIn(g)
    BY CountersAre
  <2>2. CASE g # h
    <3>1. \A u \in Thread : delta'[u][g] = delta[u][g]
      BY <1>1, <2>2 DEF TypeOK
    <3>2. DeltasOf(g)' = DeltasOf(g)
      BY <3>1 DEF DeltasOf
    <3>3. QED
      BY <1>2, <1>3, <2>1, <2>2, <3>2
  <2>3. CASE g = h
    <3> DEFINE d == DeltasOf(h)
               e == DeltasOf(h)'
    <3>1. d \in [Thread -> Int] /\ cache[Desc(h)].n \in Int
      BY CounterTypes
    <3>2. /\ d[t] = delta[t][h] /\ e[t] = 0
          /\ \A u \in Thread : u # t => e[u] = d[u]
      BY <1>1 DEF DeltasOf, TypeOK
    <3>3. e \in [Thread -> Int]
      <4>1. \A u \in Thread : delta'[u][h] \in Int
        BY DEF TypeOK
      <4>2. QED
        BY <4>1 DEF DeltasOf
    <3>4. cache[Desc(h)].n + SumFunction(d) = FreeIn(h)
      BY <2>1, <2>3
    <3>5. cache'[Desc(h)].n = cache[Desc(h)].n + d[t]
      BY <1>2, <3>2
    <3>6. cache'[Desc(h)].n + SumFunction(e) = FreeIn(h)
      <4> HIDE DEF d, e
      <4>1. SumFunction(e) = SumFunction(d) - d[t] + e[t]
        BY <3>1, <3>2, <3>3, SumChanges DEF FinitelyMany
      <4>2. SumFunction(d) \in Int /\ d[t] \in Int
        BY <3>1, SumType DEF FinitelyMany
      <4>3. QED
        BY <3>1, <3>2, <3>4, <3>5, <4>1, <4>2
    <3>7. QED
      BY <1>3, <2>3, <3>6
  <2>4. QED
    BY <2>2, <2>3
<1>6. cache'[Sb].n + SumFunction(sbDelta') = SumFunction([g \in Group |-> FreeIn(g)]')
  BY <1>1, <1>2, <1>4, CountersAre
<1>7. (CountersConserved <=>
        /\ \A g \in Group : cache[Desc(g)].n + SumFunction(DeltasOf(g)) = FreeIn(g)
        /\ cache[Sb].n + SumFunction(sbDelta) = SumFunction([g \in Group |-> FreeIn(g)]))'
  BY CountersAre, PTL
<1>8. QED
  BY <1>5, <1>6, <1>7

\* The superblock, likewise.
LEMMA SubmitSbCounters ==
    ASSUME FinitelyMany, TypeOK, TypeOK', CountersConserved, NEW t \in Thread, SubmitSb(t)
    PROVE  CountersConserved'
<1>1. /\ cache' = [cache EXCEPT ![Sb].n = @ + sbDelta[t]]
      /\ sbDelta' = [sbDelta EXCEPT ![t] = 0] /\ delta' = delta
  BY DEF SubmitSb
<1>2. /\ \A g \in Group : cache'[Bitmap(g)].blks = cache[Bitmap(g)].blks
      /\ \A g \in Group : cache'[Desc(g)].n = cache[Desc(g)].n
      /\ cache'[Sb].n = cache[Sb].n + sbDelta[t]
  <2>1. \A g \in Group : cache'[Bitmap(g)].blks = cache[Bitmap(g)].blks
    BY <1>1, CountersOnly
  <2>2. /\ cache \in [Slot -> Content] /\ Sb \in Slot
        /\ \A g \in Group : Desc(g) \in Slot /\ Desc(g) # Sb
    BY Slots DEF TypeOK, Desc, Sb
  <2>3. cache[Sb] \in Content
    BY <2>2
  <2>4. /\ \A s \in Slot : s # Sb => cache'[s] = cache[s]
        /\ cache'[Sb].n = cache[Sb].n + sbDelta[t]
    BY <1>1, <2>2, <2>3 DEF Content
  <2>5. QED
    BY <2>1, <2>2, <2>4
<1>3. \A g \in Group : FreeIn(g)' = FreeIn(g) /\ DeltasOf(g)' = DeltasOf(g)
  BY <1>1, <1>2 DEF FreeIn, BlocksOf, DeltasOf
<1>4. [g \in Group |-> FreeIn(g)]' = [g \in Group |-> FreeIn(g)]
  BY <1>3
<1>5. \A g \in Group : cache'[Desc(g)].n + SumFunction(DeltasOf(g)') = FreeIn(g)'
  BY <1>2, <1>3, CountersAre
<1>6. cache'[Sb].n + SumFunction(sbDelta') = SumFunction([g \in Group |-> FreeIn(g)]')
  <2> DEFINE d == sbDelta
             e == sbDelta'
             all == SumFunction([g \in Group |-> FreeIn(g)])
  <2>1. d \in [Thread -> Int] /\ e \in [Thread -> Int] /\ cache[Sb].n \in Int
    BY CounterTypes DEF TypeOK
  <2>2. e[t] = 0 /\ \A u \in Thread : u # t => e[u] = d[u]
    BY <1>1, <2>1
  <2>3. cache[Sb].n + SumFunction(d) = all /\ cache'[Sb].n = cache[Sb].n + d[t]
    BY <1>2, CountersAre
  <2>4. cache'[Sb].n + SumFunction(e) = all
    <3> HIDE DEF d, e, all
    <3>1. SumFunction(e) = SumFunction(d) - d[t] + e[t]
      BY <2>1, <2>2, SumChanges DEF FinitelyMany
    <3>2. SumFunction(d) \in Int /\ d[t] \in Int
      BY <2>1, SumType DEF FinitelyMany
    <3>3. QED
      BY <2>1, <2>2, <2>3, <3>1, <3>2
  <2>5. QED
    BY <1>4, <2>4
<1>7. (CountersConserved <=>
        /\ \A g \in Group : cache[Desc(g)].n + SumFunction(DeltasOf(g)) = FreeIn(g)
        /\ cache[Sb].n + SumFunction(sbDelta) = SumFunction([g \in Group |-> FreeIn(g)]))'
  BY CountersAre, PTL
<1>8. QED
  BY <1>5, <1>6, <1>7

\* A bitmap is changed, and the deltas by as many blocks as the bits it has
\* gained or lost.
LEMMA ApplyCounters ==
    ASSUME FinitelyMany, TypeOK, TypeOK', CountersConserved, NEW t \in Thread, NEW e,
           NEW h \in Group, h = e.grp, NEW bits \in SUBSET Block, NEW n \in Int, Apply(t, e, bits, n),
           Cardinality(BlocksOf(h) \ bits) = Cardinality(BlocksOf(h) \ cache[Bitmap(h)].blks) + n
    PROVE  CountersConserved'
<1>1. /\ cache' = [cache EXCEPT ![Bitmap(h)].blks = bits]
      /\ delta' = [delta EXCEPT ![t][h] = @ + n]
      /\ sbDelta' = [sbDelta EXCEPT ![t] = @ + n]
  BY DEF Apply
<1>2. /\ cache \in [Slot -> Content] /\ Bitmap(h) \in Slot
      /\ Sb \in Slot /\ Sb # Bitmap(h)
      /\ \A g \in Group : /\ Desc(g) \in Slot /\ Desc(g) # Bitmap(h)
                          /\ Bitmap(g) \in Slot /\ (Bitmap(g) = Bitmap(h) <=> g = h)
  BY Slots DEF TypeOK, Desc, Sb, Bitmap
<1>3. cache[Bitmap(h)] \in Content
  BY <1>2
<1>4. /\ \A s \in Slot : s # Bitmap(h) => cache'[s] = cache[s]
      /\ cache'[Bitmap(h)].blks = bits
  BY <1>1, <1>2, <1>3 DEF Content
<1>5. /\ cache'[Sb].n = cache[Sb].n
      /\ \A g \in Group : cache'[Desc(g)].n = cache[Desc(g)].n
      /\ \A g \in Group : g # h => cache'[Bitmap(g)] = cache[Bitmap(g)]
  BY <1>2, <1>4
<1>6. \A g \in Group : g # h => FreeIn(g)' = FreeIn(g)
  BY <1>5 DEF FreeIn, BlocksOf
<1>7. FreeIn(h)' = FreeIn(h) + n
  <2>1. FreeIn(h) = Cardinality(BlocksOf(h) \ cache[Bitmap(h)].blks)
    BY DEF FreeIn
  <2>2. FreeIn(h)' = Cardinality(BlocksOf(h) \ bits)
    BY <1>4 DEF FreeIn, BlocksOf
  <2>3. QED
    BY <2>1, <2>2
<1>8. QED
  BY <1>1, <1>5, <1>6, <1>7, CountersApplied

\* compress: the bits change by the blocks of the event, and nothing else.
LEMMA CompressCounters ==
    ASSUME FinitelyMany, MInv, MInv', CountersConserved, NEW t \in Thread, Compress(t)
    PROVE  CountersConserved'
<1>1. /\ TypeOK /\ TypeOK' /\ BitmapAssertions /\ EventsFit
      /\ pc[t] = "compress" /\ events[t] # <<>>
  BY BitsFit DEF MInv, IInv, Compress
<1>2. PICK e \in Event : e = Head(events[t]) /\ 1 \in DOMAIN events[t] /\ events[t][1] = e
  <2>1. events[t] \in Seq(Event)
    BY <1>1 DEF TypeOK
  <2>2. QED
    BY <1>1, <2>1
<1>3. PICK h \in Group : h = e.grp
  BY DEF Event
<1> DEFINE used == cache[Bitmap(h)].blks
<1>4. e.blks \in SUBSET Block /\ used \in SUBSET Block
  <2>1. Bitmap(h) \in Slot
    BY Slots
  <2>2. cache[Bitmap(h)] \in Content
    BY <1>1, <2>1 DEF TypeOK
  <2>3. QED
    BY <2>2 DEF Event, Content
<1>5. /\ e.kind # "size" => e.blks \subseteq BlocksOf(h)
      /\ e.kind = "alloc" => e.blks \cap used = {}
      /\ e.kind = "dealloc" => e.blks \subseteq used
  BY <1>1, <1>2, <1>3 DEF BitmapAssertions, EventsFit
<1>6. CASE CompressAlloc(t, e)
  <2>1. e.kind = "alloc" /\ Apply(t, e, used \cup e.blks, -Cardinality(e.blks))
    BY <1>3, <1>6 DEF CompressAlloc
  <2>2. /\ BlocksOf(h) \ used = (BlocksOf(h) \ (used \cup e.blks)) \cup e.blks
        /\ (BlocksOf(h) \ (used \cup e.blks)) \cap e.blks = {}
        /\ BlocksOf(h) \ (used \cup e.blks) \in SUBSET Block
    BY <1>4, <1>5, <2>1 DEF BlocksOf
  <2>3. /\ Cardinality(BlocksOf(h) \ used) =
                Cardinality(BlocksOf(h) \ (used \cup e.blks)) + Cardinality(e.blks)
        /\ Cardinality(BlocksOf(h) \ (used \cup e.blks)) \in Nat /\ Cardinality(e.blks) \in Nat
    <3> DEFINE A == BlocksOf(h) \ (used \cup e.blks)
    <3>1. A \in SUBSET Block /\ e.blks \in SUBSET Block /\ A \cap e.blks = {}
          /\ BlocksOf(h) \ used = A \cup e.blks
      BY <1>4, <2>2
    <3> HIDE DEF A
    <3>2. /\ Cardinality(BlocksOf(h) \ used) = Cardinality(A) + Cardinality(e.blks)
          /\ Cardinality(A) \in Nat /\ Cardinality(e.blks) \in Nat
      BY <3>1, BlocksTogether
    <3>3. QED
      BY <3>2 DEF A
  <2>4. Cardinality(BlocksOf(h) \ (used \cup e.blks)) =
            Cardinality(BlocksOf(h) \ used) + (-Cardinality(e.blks))
        /\ -Cardinality(e.blks) \in Int
    BY <2>3
  <2>5. used \cup e.blks \in SUBSET Block
    BY <1>4
  <2>6. QED
    BY <1>1, <1>3, <2>1, <2>4, <2>5, ApplyCounters
<1>7. CASE CompressDealloc(t, e)
  <2>1. e.kind = "dealloc" /\ Apply(t, e, used \ e.blks, Cardinality(e.blks))
    BY <1>3, <1>7 DEF CompressDealloc
  <2>2. /\ BlocksOf(h) \ (used \ e.blks) = (BlocksOf(h) \ used) \cup e.blks
        /\ (BlocksOf(h) \ used) \cap e.blks = {}
        /\ BlocksOf(h) \ used \in SUBSET Block
    BY <1>4, <1>5, <2>1 DEF BlocksOf
  <2>3. /\ Cardinality(BlocksOf(h) \ (used \ e.blks)) =
                Cardinality(BlocksOf(h) \ used) + Cardinality(e.blks)
        /\ Cardinality(e.blks) \in Nat
    <3> DEFINE A == BlocksOf(h) \ used
    <3>1. A \in SUBSET Block /\ e.blks \in SUBSET Block /\ A \cap e.blks = {}
          /\ BlocksOf(h) \ (used \ e.blks) = A \cup e.blks
      BY <1>4, <2>2
    <3> HIDE DEF A
    <3>2. /\ Cardinality(BlocksOf(h) \ (used \ e.blks)) = Cardinality(A) + Cardinality(e.blks)
          /\ Cardinality(e.blks) \in Nat
      BY <3>1, BlocksTogether
    <3>3. QED
      BY <3>2 DEF A
  <2>4. used \ e.blks \in SUBSET Block /\ Cardinality(e.blks) \in Int
    BY <1>4, <2>3
  <2>5. QED
    BY <1>1, <1>3, <2>1, <2>3, <2>4, ApplyCounters
<1>8. CASE CompressSize(t, e)
  <2>1. UNCHANGED <<cache, delta, sbDelta>>
    BY <1>8 DEF CompressSize
  <2>2. QED
    BY <2>1, CountersSame
<1>9. QED
  BY <1>2, <1>6, <1>7, <1>8 DEF Compress

\* The other steps leave counters, deltas and bitmaps alone.
LEMMA OtherCounters ==
    ASSUME TypeOK, CountersConserved, NEW t \in Thread,
           FileOp(t) \/ Done(t) \/ LockSb(t) \/ SubmitInodeOp(t) \/ WriteBio(t) \/ FailWrite(t)
             \/ Sync(t) \/ Finish(t) \/ (\E d \in DeviceBlocks : Snapshot(t, d))
             \/ (\E S \in SUBSET Block : Postlude(t, S))
    PROVE  CountersConserved'
<1>1. CASE SubmitInodeOp(t)
  <2>1. /\ cache' = [cache EXCEPT ![Ino(Head(ops[t]).file)] = AfterOp(@, Head(ops[t]))]
        /\ UNCHANGED <<delta, sbDelta>>
    BY <1>1 DEF SubmitInodeOp
  <2>2. PICK s : s = Ino(Head(ops[t]).file)
    OBVIOUS
  <2>3. s # Sb /\ \A g \in Group : s # Desc(g) /\ s # Bitmap(g)
    BY <2>2 DEF Ino, Sb, Desc, Bitmap
  <2>4. \A r \in Slot : r # s => cache'[r] = cache[r]
    BY <2>1, <2>2 DEF TypeOK
  <2>5. /\ cache'[Sb] = cache[Sb]
        /\ \A g \in Group : cache'[Desc(g)] = cache[Desc(g)] /\ cache'[Bitmap(g)] = cache[Bitmap(g)]
    BY <2>3, <2>4, Slots
  <2>6. QED
    BY <2>1, <2>5, CountersSame
<1>2. CASE FileOp(t)
  <2>1. UNCHANGED <<cache, delta, sbDelta>>
    BY <1>2 DEF FileOp, Extend, Truncate, grpVars
  <2>2. QED
    BY <2>1, CountersSame
<1>3. CASE Done(t) \/ LockSb(t) \/ WriteBio(t) \/ FailWrite(t) \/ Sync(t) \/ Finish(t)
  <2>1. UNCHANGED <<cache, delta, sbDelta>>
    BY <1>3 DEF Done, LockSb, WriteBio, FailWrite, Sync, Finish, grpVars
  <2>2. QED
    BY <2>1, CountersSame
<1>4. CASE (\E d \in DeviceBlocks : Snapshot(t, d)) \/ (\E S \in SUBSET Block : Postlude(t, S))
  <2>1. UNCHANGED <<cache, delta, sbDelta>>
    BY <1>4 DEF Snapshot, Postlude, grpVars
  <2>2. QED
    BY <2>1, CountersSame
<1>5. QED
  BY <1>1, <1>2, <1>3, <1>4

LEMMA CountersStep ==
    FinitelyMany /\ MInv /\ MInv' /\ CountersConserved /\ [Next]_vars => CountersConserved'
<1> SUFFICES ASSUME FinitelyMany, MInv, MInv', CountersConserved, [Next]_vars
             PROVE  CountersConserved'
  OBVIOUS
<1>1. TypeOK /\ TypeOK'
  BY DEF MInv, IInv
<1>2. CASE UNCHANGED vars
  <2>1. UNCHANGED <<cache, delta, sbDelta>>
    BY <1>2 DEF vars, grpVars
  <2>2. QED
    BY <2>1, CountersSame
<1>3. ASSUME NEW t \in Thread, FileOp(t) \/ Done(t) \/ FailWrite(t)
      PROVE  CountersConserved'
  BY <1>1, <1>3, OtherCounters
<1>4. ASSUME NEW t \in Thread, Commit(t)
      PROVE  CountersConserved'
  BY <1>1, <1>4, OtherCounters, CompressCounters, SubmitGroupCounters, SubmitSbCounters DEF Commit
<1>5. QED
  BY <1>2, <1>3, <1>4 DEF Next

-----------------------------------------------------------------------------
(* The theorem.                                                            *)

\* As long as no two live transactions work on one file, the free counts in
\* the descriptors and in the superblock are those of the bitmaps, up to the
\* deltas of the transactions that have not submitted them yet: no interleaving
\* of compress and flush loses a delta or submits one twice, for any number
\* of threads, groups and blocks.
THEOREM CountersRight == FinitelyMany /\ PrivateFiles => (Spec => []CountersConserved)
<1> SUFFICES ASSUME FinitelyMany, PrivateFiles PROVE Spec => []CountersConserved
  OBVIOUS
<1>1. Init => MInv /\ CountersConserved
  BY MInit, CountersInit
<1>2. MInv /\ CountersConserved /\ [Next]_vars => (MInv /\ CountersConserved)'
  BY MStep, CountersStep
<1>3. QED
  BY <1>1, <1>2, PTL DEF Spec
=============================================================================
