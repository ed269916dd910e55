------------------------------- MODULE Inodes -------------------------------
(***************************************************************************)
(* The life of an inode: its number comes from the allocator               *)
(* (src/inode/allocator.rs), its object lives in the weak cache of the     *)
(* manager (src/inode/manager.rs, src/cache.rs), names and link counts     *)
(* come and go with the operations of a directory (src/directory/mod.rs),  *)
(* an inode whose last name went is on the orphan list until its last      *)
(* object is dropped (Drop of src/inode/mod.rs), and only then is its      *)
(* number free again.  Transactions record events and apply them when they *)
(* are done (src/transaction); BlockTx has the interleavings inside done,  *)
(* which is one step and a postlude here.                                  *)
(***************************************************************************)
EXTENDS Integers, Sequences, FiniteSets, SequencesExt, FiniteSetsExt, Functions

CONSTANTS
    Thread, Name,
    Inodes,      \* number of inodes; the numbers are 1 .. Inodes
    PerGroup,    \* inodes_per_group
    MaxEvents,   \* bound: an operation starts with fewer recorded events
    OwnNames,    \* unfinished transactions touch different names (Mine)
    QuietDrops   \* last references are dropped between operations (Alone)

ASSUME InodesAssumption ==
    /\ Inodes \in Nat \ {0} /\ PerGroup \in Nat \ {0}
    /\ MaxEvents \in Nat \ {0} /\ OwnNames \in BOOLEAN /\ QuietDrops \in BOOLEAN

Ino == 1 .. Inodes
Root == Inodes + 1     \* the root directory, never freed
None == 0              \* no inode
GroupOf(i) == (i - 1) \div PerGroup
Groups == {GroupOf(i) : i \in Ino}
InGroup(g) == {i \in Ino : GroupOf(i) = g}

VARIABLES
    bits,     \* Allocator::bitmap: the numbers in use
    sbFree,   \* SuperBlock::free_inodes_count
    bgFree,   \* BlockGroup::free_inodes_count
    lastBg,   \* Allocator::last_inode_bg_id
    objs,     \* the Inode objects that exist, by number and incarnation
    weak,     \* WeakCache: from a number to an object, dead or alive
    handles,  \* the objects users hold
    entry,    \* the entries of every directory
    orphan,   \* SuperBlock::orphaned_inode: number to neighbours
    meta,     \* cached metadata: inode table, bitmap, counters, last_orphan
    pc,       \* where the operation of a thread is
    op,       \* its arguments
    events,   \* Transaction::events of the open transaction
    keep,     \* the objects the operations of the transaction hold
    using,    \* the names the transaction has touched
    drops,    \* the objects the thread released last, still to be dropped
    lost      \* history: inodes whose entry an operation took before it failed

memVars == <<bits, sbFree, bgFree, lastBg>>
objVars == <<objs, weak, handles>>
txVars == <<events, keep, using>>
vars == <<memVars, objVars, entry, orphan, meta, pc, op, txVars, drops, lost>>

NoOp == [ino |-> None]
Empty == [n \in Name |-> None]

Init ==
    /\ bits = {} /\ sbFree = Inodes /\ lastBg = 0
    /\ bgFree = [g \in Groups |-> Cardinality(InGroup(g))]
    /\ objs = <<>> /\ weak = <<>> /\ handles = {}
    /\ entry = [d \in Ino \cup {Root} |-> Empty]
    /\ orphan = <<>>
    /\ meta = [table |-> [i \in Ino \cup {Root} |->
                             [links |-> IF i = Root THEN 2 ELSE 0, next |-> None,
                              kind |-> IF i = Root THEN "dir" ELSE "none"]],
               bits |-> {}, sb |-> Inodes, bg |-> bgFree, head |-> None, ok |-> TRUE]
    /\ pc = [t \in Thread |-> "open"] /\ op = [t \in Thread |-> NoOp]
    /\ events = [t \in Thread |-> <<>>] /\ keep = [t \in Thread |-> {}]
    /\ using = [t \in Thread |-> {}]
    /\ drops = [t \in Thread |-> {}]
    /\ lost = <<>>

-----------------------------------------------------------------------------
(* The discipline of the callers, in two parts that the code does not      *)
(* enforce: two unfinished transactions do not touch one name, and the     *)
(* last reference to an inode is not dropped while another thread is       *)
(* inside an operation.                                                    *)

Others(t) == Thread \ {t}
Mine(t, d, n) ==
    OwnNames => \A u \in Others(t) :
        <<d, n>> \notin using[u] /\ \A p \in using[u] : entry[p[1]][p[2]] # d
MyDir(t, d) == OwnNames => \A u \in Others(t), n \in Name : <<d, n>> \notin using[u]
Alone(t) == QuietDrops => \A u \in Others(t) : pc[u] \in {"open", "release"}
NoDrop(t) == QuietDrops => \A u \in Others(t) : drops[u] = {}

\* An object that some operation or user holds.
Held(o) == o \in handles \/ \E t \in Thread : o \in keep[t]

-----------------------------------------------------------------------------
(* The metadata when the events of a transaction are applied to it.        *)

\* The function f with the value v for x.
With(f, x, v) == [y \in DOMAIN f \cup {x} |-> IF y = x THEN v ELSE f[y]]

WithBit(m, i, use) ==
    [m EXCEPT !.ok = @ /\ (i \in m.bits) # use,
              !.bits = IF use THEN @ \cup {i} ELSE @ \ {i},
              !.bg[GroupOf(i)] = IF use THEN @ - 1 ELSE @ + 1]

\* Mutant of RmLink: the successor does not learn its new predecessor.
RmLinkNoPrev(m, i) ==
    LET left == m.table[i].links - 1
        n == [m EXCEPT !.ok = @ /\ left >= 0, !.table[i].links = left]
        map == With(m.orphan, i, <<None, m.head>>)
    IN  IF left # 0 THEN n
        ELSE [n EXCEPT !.head = i, !.table[i].next = m.head, !.orphan = map]

\* InodeOps::RmLink: an inode without links goes to the head of the list of
\* orphans, its deletion time becomes the link to the next one.
RmLink(m, i) ==
    LET left == m.table[i].links - 1
        n == [m EXCEPT !.ok = @ /\ left >= 0, !.table[i].links = left]
        prev == [j \in DOMAIN m.orphan |->
                    IF j = m.head THEN <<i, m.orphan[j][2]>> ELSE m.orphan[j]]
    IN  IF left # 0 THEN n
        ELSE [n EXCEPT !.head = i, !.table[i].next = m.head,
                       !.orphan = With(prev, i, <<None, m.head>>)]

\* InodeOps::UpdateOrphanLink.
UpdateOrphanLink(m, pred, succ) ==
    IF pred = None THEN [m EXCEPT !.head = succ] ELSE [m EXCEPT !.table[pred].next = succ]

\* Manipulator::init of an inode just allocated.
Blank(kind) == [links |-> 0, next |-> None, kind |-> kind]

Apply(m, e) ==
    CASE e.do = "alloc" ->
            [WithBit(m, e.ino, TRUE) EXCEPT !.table[e.ino] = Blank(e.kind)]
      [] e.do = "dealloc" -> WithBit(m, e.ino, FALSE)
      [] e.do = "dec" -> [m EXCEPT !.sb = @ - 1]
      [] e.do = "inc" -> [m EXCEPT !.sb = @ + 1]
      [] e.do = "add" -> [m EXCEPT !.table[e.ino].links = @ + 1]
      [] e.do = "rm" -> RmLink(m, e.ino)
      [] e.do = "orphan" -> UpdateOrphanLink(m, e.ino, e.succ)

Ev(do, i) == [do |-> do, ino |-> i]
AllocEv(i, kind) == [do |-> "alloc", ino |-> i, kind |-> kind]
OrphanEv(pred, succ) == [do |-> "orphan", ino |-> pred, succ |-> succ]

\* apply_on_disk of the events of a transaction: the new metadata, with the
\* orphans in memory beside it while it is computed.
Applied(es) == FoldLeft(Apply, With(meta, "orphan", orphan), es)

\* Transaction::done up to the postludes.
Flush(es) ==
    LET m == Applied(es)
    IN  /\ orphan' = m.orphan
        /\ meta' = [f \in DOMAIN meta |-> m[f]]

-----------------------------------------------------------------------------
(* Objects and the weak cache.                                             *)

\* Mutant of Cached: the weak reference is never upgraded.
CachedNever(s, i) == {}

\* The object WeakCache::get finds for a number, if one is alive.
Cached(s, i) == IF i \in DOMAIN s.weak /\ Held(s.weak[i]) THEN {s.weak[i]} ELSE {}

Insert(s, i, links, kind) ==
    LET k == Min({k \in 1 .. Cardinality(DOMAIN s.objs) + 1 : <<i, k>> \notin DOMAIN s.objs})
    IN  [objs |-> With(s.objs, <<i, k>>, [links |-> links, kind |-> kind]),
         weak |-> With(s.weak, i, <<i, k>>)]

Objects == [objs |-> objs, weak |-> weak]

\* Inode::new; create_entry counts the "." of a directory at once.
NewObject(s, i, kind) == Insert(s, i, IF kind = "dir" THEN 2 ELSE 1, kind)

\* Inode::from_bytes.
FromTable(s, i) == Insert(s, i, meta.table[i].links, meta.table[i].kind)

\* inodes.get: the object in the cache, or one read from the inode table.
Get(s, i) == IF Cached(s, i) # {} THEN s ELSE FromTable(s, i)

SetLinks(s, i, links) == [s EXCEPT !.objs[s.weak[i]].links = links]

\* A directory a caller can work on: the root, or one it holds.
DirObject(d) == {o \in handles : o[1] = d /\ objs[o].kind = "dir"}
Dirs == {Root} \cup {d \in Ino : DirObject(d) # {}}

Ready(t) == pc[t] = "open" /\ drops[t] = {} /\ NoDrop(t) /\ Len(events[t]) < MaxEvents

-----------------------------------------------------------------------------
(* Operations.                                                             *)

\* create_entry and Allocator::allocate up to the scan: the directory is not
\* removed and the name is free; no free inode counted is an error.
StartCreate(t) ==
    /\ Ready(t)
    /\ \E d \in Dirs, n \in Name, kind \in {"file", "dir"} :
        /\ Mine(t, d, n) /\ entry[d][n] = None
        /\ \A o \in DirObject(d) : objs[o].links # 0
        /\ op' = [op EXCEPT ![t] = [ino |-> None, dir |-> d, name |-> n, kind |-> kind,
                                    from |-> lastBg, seen |-> 0]]
        /\ using' = [using EXCEPT ![t] = @ \cup {<<d, n>>}]
        /\ keep' = [keep EXCEPT ![t] = @ \cup DirObject(d)]
    /\ pc' = [pc EXCEPT ![t] = IF sbFree = 0 THEN "err" ELSE "scan"]
    /\ UNCHANGED <<memVars, objVars, entry, orphan, meta, events, drops, lost>>

\* get_free_ino: the numbers of group g whose bit is clear.
ScanFrom(g) == InGroup(g) \ bits

\* The group the scan of a creation looks at next.
Visited(a) == (a.from + a.seen) % Cardinality(Groups)

\* One group of the scan: the first clear bit is set, if the group counts a
\* free inode.
Scan(t) ==
    /\ pc[t] = "scan"
    /\ LET a == op[t]
           g == Visited(a)
           i == Min(ScanFrom(g))
       IN  IF a.seen = Cardinality(Groups)
           THEN pc' = [pc EXCEPT ![t] = "err"] /\ UNCHANGED <<bits, op>>
           ELSE IF bgFree[g] > 0 /\ ScanFrom(g) # {}
           THEN /\ bits' = bits \cup {i}
                /\ op' = [op EXCEPT ![t].ino = i] /\ pc' = [pc EXCEPT ![t] = "count"]
           ELSE op' = [op EXCEPT ![t].seen = @ + 1] /\ UNCHANGED <<bits, pc>>
    /\ UNCHANGED <<sbFree, bgFree, lastBg, objVars, entry, orphan, meta, txVars, drops, lost>>

\* The counters follow the bit, and the events are recorded.
Count(t) ==
    /\ pc[t] = "count"
    /\ LET i == op[t].ino
       IN  /\ bgFree' = [bgFree EXCEPT ![GroupOf(i)] = @ - 1]
           /\ sbFree' = sbFree - 1 /\ lastBg' = GroupOf(i)
           /\ events' = [events EXCEPT ![t] = @ \o <<AllocEv(i, op[t].kind), Ev("dec", None)>>]
    /\ pc' = [pc EXCEPT ![t] = "make"]
    /\ UNCHANGED <<bits, objVars, entry, orphan, meta, op, keep, using, drops, lost>>

\* Mutant of LinkEvents: the parent does not count the new directory.
LinkEventsChild(i, d, kind) ==
    (IF kind = "dir" THEN <<Ev("add", i)>> ELSE <<>>) \o <<Ev("add", i)>>

\* The links create_entry records: a directory counts its own "." and its
\* parent's count rises for its "..".
LinkEvents(i, d, kind) ==
    (IF kind = "dir" THEN <<Ev("add", i), Ev("add", d)>> ELSE <<>>) \o <<Ev("add", i)>>

\* The rest of create_entry: the object of the number is made, unless an
\* older one is still alive, and the name is added, unless the directory
\* needs a block and there is none.
Create(t) ==
    /\ pc[t] = "make"
    /\ LET a == op[t]
           s == NewObject(Objects, a.ino, a.kind)
           stale == Cached(Objects, a.ino) # {}
       IN  /\ IF stale THEN UNCHANGED <<objs, weak, keep>>
              ELSE /\ objs' = s.objs /\ weak' = s.weak
                   /\ keep' = [keep EXCEPT ![t] = @ \cup {s.weak[a.ino]}]
           /\ \/ /\ ~stale
                 /\ entry' = [entry EXCEPT ![a.dir][a.name] = a.ino]
                 /\ events' = [events EXCEPT ![t] = @ \o LinkEvents(a.ino, a.dir, a.kind)]
                 /\ pc' = [pc EXCEPT ![t] = "open"]
              \/ pc' = [pc EXCEPT ![t] = "err"] /\ UNCHANGED <<entry, events>>
    /\ op' = [op EXCEPT ![t] = NoOp]
    /\ UNCHANGED <<memVars, handles, orphan, meta, using, drops, lost>>

\* Directory::open_entry: the name is looked up, then the inode is fetched.
LookupEntry(t) ==
    /\ Ready(t)
    /\ \E d \in Dirs, n \in Name :
        /\ Mine(t, d, n) /\ entry[d][n] # None
        /\ op' = [op EXCEPT ![t] = [ino |-> entry[d][n]]]
    /\ pc' = [pc EXCEPT ![t] = "get"]
    /\ UNCHANGED <<memVars, objVars, entry, orphan, meta, txVars, drops>>

OpenEntry(t) ==
    /\ pc[t] = "get" /\ NoDrop(t)
    /\ LET s == Get(Objects, op[t].ino)
       IN  objs' = s.objs /\ weak' = s.weak /\ handles' = handles \cup {s.weak[op[t].ino]}
    /\ pc' = [pc EXCEPT ![t] = "open"] /\ op' = [op EXCEPT ![t] = NoOp]
    /\ UNCHANGED <<memVars, entry, orphan, meta, txVars, drops>>

\* Mutant of RemoveEvents: a directory loses one link only.
RemoveEventsOne(i, d, kind) ==
    (IF kind = "dir" THEN <<Ev("rm", d)>> ELSE <<>>) \o <<Ev("rm", i)>>

\* What do_remove_entry records.
RemoveEvents(i, d, kind) ==
    (IF kind = "dir" THEN <<Ev("rm", i), Ev("rm", d)>> ELSE <<>>) \o <<Ev("rm", i)>>

\* The link counts with which do_remove_entry goes on.
Removable(o) == IF o.kind = "dir" THEN o.links = 2 ELSE o.links # 0

\* Mutant of LinksLeft: a directory loses one link only.
LinksLeftOne(o) == o.links - 1

\* What is left of the link count: "." counts in a directory.
LinksLeft(o) == IF o.kind = "dir" THEN o.links - 2 ELSE o.links - 1

\* unlinkat: a directory with entries is refused; then do_remove_entry takes
\* the entry away before it looks at the link count, and may return an error.
Unlink(t) ==
    /\ Ready(t)
    /\ \E d \in Dirs, n \in Name :
        LET i == entry[d][n]
            s == Get(Objects, i)
            o == s.objs[s.weak[i]]
        IN  /\ i # None /\ Mine(t, d, n) /\ MyDir(t, i) /\ entry[i] = Empty
            /\ entry' = [entry EXCEPT ![d][n] = None]
            /\ weak' = s.weak
            /\ keep' = [keep EXCEPT ![t] = @ \cup {s.weak[i]}]
            /\ using' = [using EXCEPT ![t] = @ \cup {<<d, n>>}]
            /\ IF Removable(o)
               THEN /\ objs' = SetLinks(s, i, LinksLeft(o)).objs
                    /\ events' = [events EXCEPT ![t] = @ \o RemoveEvents(i, d, o.kind)]
                    /\ UNCHANGED <<pc, lost>>
               ELSE /\ objs' = s.objs /\ pc' = [pc EXCEPT ![t] = "err"]
                    /\ lost' = With(lost, i, [dir |-> d, by |-> "remove"])
                    /\ UNCHANGED events
    /\ UNCHANGED <<memVars, handles, orphan, meta, op, drops>>

\* Directory::rename of d/n to d2/m, in a transaction of its own: the entry
\* goes, a file called m in the OLD directory goes as by remove_entry, and the
\* new entry is added, unless its directory needs a block and there is none.
\* Callers rename onto no directory and onto no name of
\* another directory, take no directory elsewhere, and move nothing into a
\* directory that was removed, which this operation does not notice.
Rename(t) ==
    /\ Ready(t) /\ events[t] = <<>> /\ keep[t] = {}
    /\ \E d \in Dirs, d2 \in Dirs, n \in Name, m \in Name :
        LET i == entry[d][n]
            e == [entry EXCEPT ![d][n] = None]
            j == e[d][m]
            s1 == IF j = None THEN Objects ELSE Get(Objects, j)
            s2 == Get(s1, i)
            old == s1.objs[s1.weak[j]]
        IN  /\ i # None
            /\ Mine(t, d, n) /\ Mine(t, d, m) /\ Mine(t, d2, m)
            /\ \A o \in DirObject(d2) : objs[o].links # 0
            /\ d2 # d => entry[d2][m] = None /\ meta.table[i].kind = "file"
            /\ j # None => meta.table[j].kind = "file"
            /\ \/ /\ entry' = [e EXCEPT ![d][m] = None, ![d2][m] = i]
                  /\ pc' = [pc EXCEPT ![t] = "done"] /\ UNCHANGED lost
               \/ /\ entry' = [e EXCEPT ![d][m] = None]
                  /\ pc' = [pc EXCEPT ![t] = "err"]
                  /\ lost' = With(lost, i, [dir |-> d, by |-> "rename"])
            /\ objs' = IF j = None THEN s2.objs ELSE SetLinks(s2, j, LinksLeft(old)).objs
            /\ weak' = s2.weak
            /\ keep' = [keep EXCEPT ![t] = {s2.weak[i]} \cup (IF j = None THEN {} ELSE {s2.weak[j]})]
            /\ using' = [using EXCEPT ![t] = {<<d, n>>, <<d, m>>, <<d2, m>>}]
            /\ events' = [events EXCEPT ![t] = IF j = None THEN <<>> ELSE RemoveEvents(j, d, "file")]
    /\ UNCHANGED <<memVars, handles, orphan, meta, op, drops>>

\* An operation that failed ends that of its caller, and the transaction is
\* dropped: at once when it has no events, with a todo!() otherwise.
Abandon(t) ==
    /\ pc[t] = "err"
    /\ pc' = [pc EXCEPT ![t] = IF events[t] = <<>> THEN "release" ELSE "todo"]
    /\ op' = [op EXCEPT ![t] = NoOp]
    /\ UNCHANGED <<memVars, objVars, entry, orphan, meta, txVars, drops, lost>>

\* Transaction::done.
Done(t) ==
    /\ pc[t] = "done" \/ (pc[t] = "open" /\ using[t] # {})
    /\ drops[t] = {} /\ NoDrop(t)
    /\ Flush(events[t])
    /\ events' = [events EXCEPT ![t] = <<>>]
    /\ pc' = [pc EXCEPT ![t] = "release"]
    /\ UNCHANGED <<memVars, objVars, entry, op, keep, using, drops>>

\* The operations give up the objects they held until done returned; their
\* callers may go on holding some (a file just created).
Release(t) ==
    /\ pc[t] = "release" /\ NoDrop(t)
    /\ \E S \in SUBSET (keep[t] \ handles) :
        LET last == {o \in keep[t] \ (S \cup handles) : \A u \in Others(t) : o \notin keep[u]}
        IN  /\ handles' = handles \cup S
            /\ drops' = [drops EXCEPT ![t] = last]
            /\ last # {} => Alone(t)
    /\ keep' = [keep EXCEPT ![t] = {}] /\ using' = [using EXCEPT ![t] = {}]
    /\ pc' = [pc EXCEPT ![t] = "open"]
    /\ UNCHANGED <<memVars, objs, weak, entry, orphan, meta, op, events>>

\* A user gives up an object.
Close(t) ==
    /\ pc[t] = "open" /\ drops[t] = {} /\ NoDrop(t)
    /\ \E o \in handles :
        LET last == {o} \ UNION {keep[u] : u \in Thread}
        IN  /\ handles' = handles \ {o}
            /\ drops' = [drops EXCEPT ![t] = last]
            /\ last # {} => Alone(t)
    /\ UNCHANGED <<memVars, objs, weak, entry, orphan, meta, pc, op, txVars>>

-----------------------------------------------------------------------------
(* Drop of the last reference to an object.                                *)

\* remove_orphan: the neighbours of i in memory become neighbours.
Unlinked(i) ==
    [j \in DOMAIN orphan \ {i} |->
        <<IF j = orphan[i][2] THEN orphan[i][1] ELSE orphan[j][1],
          IF j = orphan[i][1] THEN orphan[i][2] ELSE orphan[j][2]>>]

\* An inode without links is truncated, its number given up and its place on
\* the list of orphans removed, in a transaction of the drop.
DropLast(t) ==
    /\ pc[t] = "open"
    /\ \E o \in drops[t] :
        LET i == o[1]
        IN  IF objs[o].links # 0
            THEN /\ pc' = [pc EXCEPT ![t] = "forget"]
                 /\ op' = [op EXCEPT ![t] = [ino |-> i, obj |-> o]]
                 /\ UNCHANGED <<entry, orphan>>
            ELSE IF i \notin bits \/ i \notin DOMAIN orphan
            THEN /\ pc' = [pc EXCEPT ![t] = "panic"]
                 /\ UNCHANGED <<entry, orphan, op>>
            ELSE /\ entry' = [entry EXCEPT ![i] = Empty]
                 /\ orphan' = Unlinked(i)
                 /\ op' = [op EXCEPT ![t] =
                       [ino |-> i, obj |-> o,
                        events |-> <<Ev("dealloc", i), Ev("inc", None),
                                     OrphanEv(orphan[i][1], orphan[i][2])>>]]
                 /\ pc' = [pc EXCEPT ![t] = "drop"]
    /\ UNCHANGED <<memVars, objVars, meta, txVars, drops>>

DropDone(t) ==
    /\ pc[t] = "drop"
    /\ Flush(op[t].events)
    /\ pc' = [pc EXCEPT ![t] = "free"]
    /\ UNCHANGED <<memVars, objVars, entry, op, txVars, drops>>

\* apply_deallocation_on_core, the postlude of that transaction: the bit ...
Free(t) ==
    /\ pc[t] = "free"
    /\ LET i == op[t].ino
       IN  /\ bits' = bits \ {i}
           /\ pc' = [pc EXCEPT ![t] = IF i \in bits THEN "uncount" ELSE "panic"]
    /\ UNCHANGED <<sbFree, bgFree, lastBg, objVars, entry, orphan, meta, op, txVars, drops, lost>>

\* Mutant of Uncount: the group does not count the number given back.
UncountSb(t) ==
    /\ pc[t] = "uncount"
    /\ sbFree' = sbFree + 1
    /\ pc' = [pc EXCEPT ![t] = "forget"]
    /\ UNCHANGED <<bits, bgFree, lastBg, objVars, entry, orphan, meta, op, txVars, drops, lost>>

\* ... and the counters.
Uncount(t) ==
    /\ pc[t] = "uncount"
    /\ sbFree' = sbFree + 1
    /\ bgFree' = [bgFree EXCEPT ![GroupOf(op[t].ino)] = @ + 1]
    /\ pc' = [pc EXCEPT ![t] = "forget"]
    /\ UNCHANGED <<bits, lastBg, objVars, entry, orphan, meta, op, txVars, drops, lost>>

\* Manager::remove takes whatever object the cache has for the number.
Forgotten(i) == Restrict(weak, DOMAIN weak \ {i})

Forget(t) ==
    /\ pc[t] = "forget"
    /\ weak' = Forgotten(op[t].ino)
    /\ objs' = Restrict(objs, DOMAIN objs \ {op[t].obj})
    /\ drops' = [drops EXCEPT ![t] = @ \ {op[t].obj}]
    /\ op' = [op EXCEPT ![t] = NoOp] /\ pc' = [pc EXCEPT ![t] = "open"]
    /\ UNCHANGED <<memVars, handles, entry, orphan, meta, txVars>>

\* An assertion that fails, when events are applied or before, or a todo!():
\* the program is gone.
Stopped == ~meta.ok \/ \E t \in Thread : pc[t] \in {"panic", "todo"}
Halted == Stopped /\ UNCHANGED vars

Drop(t) ==
    /\ ~Stopped
    /\ \/ /\ DropLast(t) \/ DropDone(t) \/ Forget(t)
          /\ UNCHANGED lost
       \/ Free(t) \/ Uncount(t)

Operation(t) ==
    /\ ~Stopped
    /\ \/ StartCreate(t) \/ Scan(t) \/ Count(t) \/ Create(t) \/ Unlink(t) \/ Rename(t)
       \/ Abandon(t)
       \/ /\ LookupEntry(t) \/ OpenEntry(t) \/ Done(t) \/ Release(t) \/ Close(t)
          /\ UNCHANGED lost

Next == (\E t \in Thread : Operation(t) \/ Drop(t)) \/ Halted

\* The thread that gave up the last reference runs the drop to its end.
Fairness == \A t \in Thread : WF_vars(Drop(t))
Spec == Init /\ [][Next]_vars /\ Fairness

-----------------------------------------------------------------------------
(* Properties.                                                             *)

Quiet ==
    /\ ~Stopped
    /\ \A t \in Thread : pc[t] = "open" /\ using[t] = {} /\ drops[t] = {}

\* The orphans a recovery finds by following last_orphan and the deletion
\* times, as a sequence; no number comes twice before it ends.
Chain ==
    LET f[k \in 0 .. Inodes + 1] ==
            IF k = 0 THEN <<meta.head>>
            ELSE LET c == f[k - 1]
                 IN  IF Last(c) = None THEN c ELSE Append(c, meta.table[Last(c)].next)
    IN  f[Inodes + 1]

\* Between any two transactions the chain of orphans in the metadata ends,
\* has no number twice and holds exactly the inodes that are in use without a
\* link; a crash would leave nothing else to reclaim.  The neighbours kept in
\* memory are those of the chain, but for the inode a thread is dropping.
OrphanListComplete ==
    LET list == Front(Chain)
        nodrop == \A t \in Thread : pc[t] # "drop"
        at(k) == IF k \in DOMAIN list THEN list[k] ELSE None
    IN  /\ Last(Chain) = None
        /\ IsInjective(list)
        /\ Range(list) = {i \in meta.bits : meta.table[i].links = 0}
        /\ nodrop => /\ DOMAIN orphan = Range(list)
                     /\ \A k \in DOMAIN list : orphan[list[k]] = <<at(k - 1), at(k + 1)>>

\* An inode number has one object: the one the cache finds is the one that
\* every holder has, and nobody holds an object whose number is free.
OneObject ==
    \A o \in {p \in DOMAIN objs : Held(p)} : o[1] \in bits /\ o[1] \in DOMAIN weak /\ weak[o[1]] = o

LinksOf(i) ==
    LET named == {p \in (Ino \cup {Root}) \X Name : entry[p[1]][p[2]] = i}
        sub == {n \in Name : entry[i][n] # None /\ meta.table[entry[i][n]].kind = "dir"}
        kin == {j \in DOMAIN lost : lost[j].dir = i /\ meta.table[j].kind = "dir"}
        alive == named # {} \/ i \in DOMAIN lost \cup {Root}
    IN  (IF alive THEN 1 ELSE 0) + Cardinality(kin)
        + (IF alive /\ meta.table[i].kind = "dir" THEN 1 + Cardinality(sub) ELSE 0)

\* When no transaction is under way the link count of every inode in use is
\* the number of entries that name it, "." and ".." included, and one more
\* for the entry a failed operation took; the bitmap and the counters agree in
\* memory and metadata, and count the free numbers.
CountsAgree ==
    Quiet =>
        /\ \A i \in bits \cup {Root} : meta.table[i].links = LinksOf(i)
        /\ bits = meta.bits
        /\ sbFree = Inodes - Cardinality(bits) /\ meta.sb = sbFree
        /\ \A g \in Groups : bgFree[g] = Cardinality(InGroup(g) \ bits) /\ meta.bg[g] = bgFree[g]

\* At any moment, whichever threads are between a bit and its counters when
\* they create or free, the free inodes counted are the clear bits and those
\* whose count is still to follow: no counter passes zero, and no number is
\* counted twice.
CountersFollow ==
    LET late(at, g) == Cardinality({t \in Thread : pc[t] = at /\ GroupOf(op[t].ino) = g})
    IN  \A g \in Groups :
            /\ bgFree[g] = Cardinality(ScanFrom(g)) + late("count", g) - late("uncount", g)
            /\ bgFree[g] >= 0 /\ sbFree >= bgFree[g]

\* No assertion on bitmaps, link counts or the list of orphans fails, unless
\* a failed operation took a directory out of another one that can itself be
\* removed.
NeverPanics ==
    (\A i \in DOMAIN lost : lost[i].dir = Root \/ meta.table[i].kind = "file")
        => meta.ok /\ \A t \in Thread : pc[t] # "panic"

\* An inode in use that has no name, that nobody makes or holds and whose name
\* no failed operation took has an object without links that a thread is about
\* to drop: no number is forgotten, whatever order names, events and references
\* go in (do_remove_entry, Drop of Inode).
NothingForgotten ==
    LET unnamed(i) == \A d \in DOMAIN entry, n \in Name : entry[d][n] # i
        made(i) == \E t \in Thread : pc[t] \in {"count", "make"} /\ op[t].ino = i
        held(i) == \E o \in DOMAIN objs : o[1] = i /\ Held(o)
        dropped(i) == \E t \in Thread : \E o \in drops[t] : o[1] = i /\ objs[o].links = 0
    IN  Stopped \/ \A i \in bits \ DOMAIN lost :
            unnamed(i) => made(i) \/ held(i) \/ dropped(i)

\* The drop then gives the number back.
Reclaimed ==
    \A i \in Ino :
        (i \in bits \ DOMAIN lost /\ (\A d \in DOMAIN entry, n \in Name : entry[d][n] # i)
            /\ (\A o \in DOMAIN objs : o[1] = i => ~Held(o))
            /\ (\A t \in Thread : pc[t] \in {"count", "make"} => op[t].ino # i))
        ~> (i \notin bits \/ Stopped)

\* "Hardlink is not permitted on directory.": an empty directory is refused
\* removal for its link count only if it has a second name, which none has as
\* long as no renaming fails halfway.
RemovalsGoThrough ==
    LET failed(by) == {i \in DOMAIN lost : lost[i].by = by}
    IN  failed("rename") = {} => failed("remove") = {}

\* An operation that fails, for want of an inode or a block ("File system is
\* full."), returns its error to the caller of the driver.
ErrorsReturn == \A t \in Thread : pc[t] # "todo"
=============================================================================
