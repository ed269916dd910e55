----------------------------- MODULE Directories -----------------------------
(***************************************************************************)
(* The entries of one directory, used by several threads.  A linear        *)
(* directory (src/directory/linear.rs) is searched block by block; a       *)
(* hashed one (src/directory/htree) has a root with the hash at which each *)
(* block begins, and splits the block a new name does not fit into.  The   *)
(* entries "." and ".." of a hashed directory are in its root and are left *)
(* out, as are roots with more than one level, which the code refuses with *)
(* todo!().  Looking a name up, taking one out and listing go block by     *)
(* block; NameMap says what they promise.                                  *)
(***************************************************************************)
EXTENDS DirectoryBlock

CONSTANTS
    Thread,
    Hash,         \* hash_of every name; the hasher clears the lowest bit
    REntries,     \* R_ENTRIES: an index with so many entries is not split
    Foreign,      \* directories another implementation may have left
    MaxBlocks,    \* bound: a linear directory does not grow beyond
    LinearLists,  \* linear directories are listed
    Disciplined   \* callers keep to the discipline stated at MayAdd

\* Names have at most 255 bytes and blocks at least 1024, so that no entry takes
\* more than half a block.
ASSUME DirectoriesAssumption ==
    /\ Hash \in [Name -> Nat] /\ \A n \in Name : Hash[n] % 2 = 0
    /\ \A n \in Name : NameLen[n] + 8 <= BLK_SIZE \div 2
    /\ REntries \in Nat \ {0} /\ MaxBlocks \in Nat
    /\ LinearLists \in BOOLEAN /\ Disciplined \in BOOLEAN

\* There is more than one name a listing asks for.
ASSUME NamesAssumption == \E m, n \in Name : m # n

-----------------------------------------------------------------------------
(* The index and its cursor.                                               *)

\* Mutant of from_hash: the last entry below the hash is taken.
FromHashBelow(ix, h) == Max({1} \cup {i \in DOMAIN ix : i > 1 /\ ix[i].hash < h})

\* HTreeCursor::from_hash: the last entry at or below the hash, as its
\* binary search finds it in an index that is sorted.
from_hash(ix, h) == Max({1} \cup {i \in DOMAIN ix : i > 1 /\ ix[i].hash <= h})

\* HTreeCursor::next: after the first block only blocks that go on with the
\* same hash, marked by its lowest bit.
GoesOn(ix, h, i) == ix[i].hash = h + 1

\* The entries of the index a cursor for hash h stops at, and their blocks.
Stops(ix, h) ==
    {j \in DOMAIN ix : j >= from_hash(ix, h)
                       /\ \A k \in from_hash(ix, h) + 1 .. j : GoesOn(ix, h, k)}
Chain(ix, h) == {ix[j].block : j \in Stops(ix, h)}

\* The index is sorted, has every block once, and every entry is in a block
\* the cursor of its hash meets.
Leads(ix, bs) ==
    /\ ix # <<>> /\ ix[1].hash = 0
    /\ \A i, j \in DOMAIN ix : i < j => ix[i].hash <= ix[j].hash
    /\ Len(ix) = Len(bs) /\ {ix[i].block : i \in DOMAIN ix} = DOMAIN bs
    /\ \A b \in DOMAIN bs : \A n \in NamesIn(bs[b]) : n \in Name /\ b \in Chain(ix, Hash[n])

\* No name is in two slots.
Unique(bs) ==
    \A b, c \in DOMAIN bs : \A i \in DOMAIN bs[b], j \in DOMAIN bs[c] :
        bs[b][i].name \in Name /\ bs[b][i].name = bs[c][j].name => b = c /\ i = j

\* What others left is a directory.
ASSUME ForeignAssumption ==
    \A f \in Foreign :
        /\ f.hashed \in BOOLEAN /\ Len(f.index) <= REntries
        /\ f.index \in Seq([hash : Nat, block : Nat]) /\ f.blocks \in Seq(Blocks)
        /\ \A b \in DOMAIN f.blocks : WellFormed(f.blocks[b])
        /\ Unique(f.blocks) /\ (f.hashed => Leads(f.index, f.blocks))

-----------------------------------------------------------------------------
VARIABLES
    hashed,   \* get_scheme: the inode has the INDEX flag
    index,    \* the entries of the root: hash and block of each
    blocks,   \* the blocks of entries, block 0 of a hashed one not counted
    size,     \* i_size in blocks
    pc, op,   \* where the operation of a thread is, and its arguments
    always,   \* history: the names asked for that were there all the time
    ever      \* history: the names asked for that were there at some time

dirVars == <<hashed, index, blocks, size>>
vars == <<dirVars, pc, op, always, ever>>

Op(kind, n, at) ==
    [kind |-> kind, name |-> n, at |-> at, met |-> FALSE, got |-> {}, splits |-> FALSE,
     block |-> 0, before |-> {}, names |-> <<>>, new |-> 0, cut |-> 0]

NoOp == Op("none", Free, 0)

\* init: a root with one entry, for a cleared block.
Fresh ==
    [hashed |-> TRUE, index |-> <<[hash |-> 0, block |-> 1]>>, blocks |-> <<Cleared>>]

Init ==
    /\ \E f \in {Fresh} \cup Foreign :
        hashed = f.hashed /\ index = f.index /\ blocks = f.blocks
    /\ size = Len(blocks) + (IF hashed THEN 1 ELSE 0)
    /\ pc = [t \in Thread |-> "idle"] /\ op = [t \in Thread |-> NoOp]
    /\ always = [t \in Thread |-> {}] /\ ever = [t \in Thread |-> {}]

-----------------------------------------------------------------------------
(* The blocks an operation looks at.                                       *)

\* The block thread t is to look at now: of a linear directory the next one
\* up to the hole behind the last, of a hashed one where the cursor is.
LinearBlock(t) == {op[t].at} \cap DOMAIN blocks

IndexBlock(t) ==
    LET o == op[t]
    IN  {index[i].block : i \in {j \in DOMAIN index :
            j = o.at /\ (o.kind = "list" \/ ~o.met \/ GoesOn(index, Hash[o.name], j))}}

Block(t) == IF hashed THEN IndexBlock(t) ELSE LinearBlock(t)

-----------------------------------------------------------------------------
(* What others may see.                                                    *)

Live(bs) == (UNION {NamesIn(bs[i]) : i \in DOMAIN bs}) \cap Name

\* The names of the directory; a block that is split counts as it was until
\* both halves are written.
Listing ==
    IF \E t \in Thread : pc[t] = "putNew"
    THEN LET o == op[CHOOSE t \in Thread : pc[t] = "putNew"]
         IN  (Live(blocks) \ {o.name}) \cup o.before
    ELSE Live(blocks)

Asked(t) ==
    IF pc[t] # "visit" \/ op[t].kind = "add" THEN {}
    ELSE IF op[t].kind = "list" THEN Name ELSE {op[t].name}

\* How the history goes on in every step.
Witness ==
    LET now == Listing'
    IN  /\ always' = [t \in Thread |->
              Asked(t)' \cap now \cap (IF Asked(t) = {} THEN Name ELSE always[t])]
        /\ ever' = [t \in Thread |-> Asked(t)' \cap (now \cup ever[t])]

-----------------------------------------------------------------------------
(* The discipline of the callers, which the code does not enforce: a name  *)
(* is added or taken out by one thread at a time, names are added one      *)
(* after the other, and while a block is split nobody else is inside.      *)

Others(t) == Thread \ {t}
Inside(t) == pc[t] \notin {"idle", "told"}
Mine(t, n) ==
    \A u \in Others(t) : Inside(u) /\ op[u].kind \in {"add", "remove"} => op[u].name # n
MayEnter(t) == Disciplined => \A u \in Others(t) : Inside(u) => ~op[u].splits
Splits(n) == hashed /\ \A b \in Chain(index, Hash[n]) : Roomy(blocks[b], n) = {}
MayAdd(t, n) ==
    Disciplined =>
        /\ Mine(t, n)
        /\ \A u \in Others(t) : Inside(u) => op[u].kind # "add" /\ ~Splits(n)

-----------------------------------------------------------------------------
(* Operations.                                                             *)

\* Bound: lookups and listings change nothing, so that one at a time meets
\* all that others do.
OneReader(t) == \A u \in Others(t) : Inside(u) => op[u].kind \notin {"find", "list"}

\* A panic in the middle of a transaction ends the program: the transaction
\* is dropped before it is done, and that panics too.
Halted == \E t \in Thread : pc[t] = "panic"

At(t, p) == pc[t] = p /\ ~Halted

Enter(t, o) == op' = [op EXCEPT ![t] = o] /\ pc' = [pc EXCEPT ![t] = "visit"]

First(n) == IF hashed THEN from_hash(index, Hash[n]) ELSE 1

\* find_entry, remove_entry and fill_dir_from with a caller that takes all.
StartFind(t) ==
    /\ At(t, "idle") /\ MayEnter(t) /\ OneReader(t)
    /\ \E n \in Name : Enter(t, Op("find", n, First(n)))
    /\ UNCHANGED dirVars /\ Witness

StartRemove(t) ==
    /\ At(t, "idle") /\ MayEnter(t)
    /\ \E n \in Name :
        /\ Disciplined => Mine(t, n)
        /\ Enter(t, Op("remove", n, First(n)))
    /\ UNCHANGED dirVars /\ Witness

StartList(t) ==
    /\ At(t, "idle") /\ MayEnter(t) /\ OneReader(t)
    /\ hashed \/ LinearLists
    /\ Enter(t, Op("list", Free, 1))
    /\ UNCHANGED dirVars /\ Witness

\* try_split panics on a full index.
IndexFull == Len(index) = REntries

\* add_entry of a hashed directory, after create_entry found the name free.
StartAdd(t) ==
    /\ hashed /\ At(t, "idle") /\ MayEnter(t)
    /\ \E n \in Name \ Listing :
        /\ MayAdd(t, n)
        /\ op' = [op EXCEPT ![t] = [Op("add", n, First(n)) EXCEPT !.splits = Splits(n)]]
    /\ pc' = [pc EXCEPT ![t] = IF IndexFull THEN "panic" ELSE "visit"]
    /\ UNCHANGED dirVars /\ Witness

\* The threads that hold the lock of the inode while they walk: a lookup and
\* a removal in a linear directory.
Walking == {t \in Thread : pc[t] = "visit" /\ op[t].kind \in {"find", "remove"}}

\* The block a linear directory puts a name into: the first with room, or a
\* new one behind the last.
Place(n) ==
    Min({i \in DOMAIN blocks : Roomy(blocks[i], n) # {}} \cup {Len(blocks) + 1})

\* LinearScheme::add_entry, under the lock of the inode for writing.
LinearAdd(t) ==
    /\ ~hashed /\ At(t, "idle") /\ Walking = {}
    /\ \E n \in Name \ Listing :
        LET i == Place(n)
            grown == i > Len(blocks)
            bs == IF grown THEN Append(blocks, Cleared) ELSE blocks
        IN  /\ i <= MaxBlocks
            /\ blocks' = [bs EXCEPT ![i] = insert_entry(@, n)]
            /\ size' = IF grown THEN size + 1 ELSE size
    /\ UNCHANGED <<hashed, index, pc, op>> /\ Witness

Finish(t, S) ==
    /\ pc' = [pc EXCEPT ![t] = IF S = {} THEN "idle" ELSE "told"]
    /\ op' = [op EXCEPT ![t] = [NoOp EXCEPT !.got = S]]

\* The cursor goes on to the next block.
GoOn(t, S) ==
    /\ op' = [op EXCEPT ![t].at = @ + 1, ![t].met = TRUE, ![t].got = @ \cup S]
    /\ UNCHANGED pc

\* A block that was appended and is not yet filled has entries of length 0; whoever
\* meets one panics ("assert_ne!(entry.get_entry_len(), 0)"), which is left out: it
\* takes callers without discipline.
Visits(t, kind) ==
    At(t, "visit") /\ op[t].kind = kind /\ \A b \in Block(t) : blocks[b] # <<>>

FindIn(t) ==
    /\ Visits(t, "find")
    /\ \E b \in Block(t) :
        IF op[t].name \in NamesIn(blocks[b]) THEN Finish(t, {op[t].name}) ELSE GoOn(t, {})
    /\ UNCHANGED dirVars /\ Witness

RemoveIn(t) ==
    /\ Visits(t, "remove")
    /\ \E b \in Block(t) :
        IF op[t].name \in NamesIn(blocks[b])
        THEN /\ blocks' = [blocks EXCEPT ![b] = destroy(@, op[t].name)]
             /\ Finish(t, {op[t].name})
        ELSE GoOn(t, {}) /\ UNCHANGED blocks
    /\ UNCHANGED <<hashed, index, size>> /\ Witness

\* The entries of a block a listing shows: a linear one reads the second
\* entry to find out where it stands, and drops it.
Dropped(b) ==
    {i \in Taken(b) : ~hashed /\ Cardinality({j \in Taken(b) : j < i}) = 1}
Shown(b) == {b[i].name : i \in Taken(b) \ Dropped(b)} \cap Name

\* A linear listing ends at a block without entries.
ListIn(t) ==
    /\ Visits(t, "list")
    /\ \E b \in Block(t) :
        IF ~hashed /\ Taken(blocks[b]) = {}
        THEN Finish(t, op[t].got)
        ELSE GoOn(t, Shown(blocks[b]))
    /\ UNCHANGED dirVars /\ Witness

\* find_entry and remove_entry answer NoEntry, fill_dir_from is at the end.
EndOfCursor(t) ==
    /\ At(t, "visit") /\ op[t].kind # "add" /\ Block(t) = {}
    /\ Finish(t, op[t].got)
    /\ UNCHANGED dirVars /\ Witness

AddIn(t) ==
    /\ Visits(t, "add")
    /\ \E b \in Block(t) :
        IF Roomy(blocks[b], op[t].name) # {}
        THEN /\ blocks' = [blocks EXCEPT ![b] = insert_entry(@, op[t].name)]
             /\ Finish(t, {})
        ELSE GoOn(t, {}) /\ UNCHANGED blocks
    /\ UNCHANGED <<hashed, index, size>> /\ Witness

-----------------------------------------------------------------------------
(* split_data: the last block of the cursor and the new name go to two     *)
(* blocks.                                                                 *)

\* The BTreeMap of split_data: of each hash it keeps the name that came last, the
\* new one last of all ...
Kept(b, n) ==
    {n} \cup {b[i].name : i \in {i \in Taken(b) :
        /\ Hash[b[i].name] # Hash[n]
        /\ \A j \in Taken(b) : j > i => Hash[b[j].name] # Hash[b[i].name]}}

\* ... and gives them in the order of the hashes.
InOrder(S) ==
    CHOOSE s \in [1 .. Cardinality(S) -> S] :
        ToSet(s) = S /\ \A i, j \in DOMAIN s : i < j => Hash[s[i]] < Hash[s[j]]

ByHash(b, n) == InOrder(Kept(b, n))

\* The bytes of the first k entries, not rounded up.
Used(es, k) == FoldLeft(LAMBDA sum, n : sum + (LenOf(n) + 8), 0, SubSeq(es, 1, k))

\* The first entry that no longer fits into half a block, if there is one.
SplitPos(es) == {k \in DOMAIN es : Used(es, k) > BLK_SIZE \div 2
                                   /\ Used(es, k - 1) <= BLK_SIZE \div 2}

\* Mutant of NewHash: the hash of the last entry.
NewHashLast(es, k) == Hash[es[Len(es)]]

\* The hash of the first entry of the new block, marked when the entry
\* before it has the same.
NewHash(es, k) ==
    IF k > 1 /\ Hash[es[k - 1]] = Hash[es[k]] THEN Hash[es[k]] + 1 ELSE Hash[es[k]]

Gather(t) ==
    /\ Visits(t, "add") /\ Block(t) = {}
    /\ LET b == index[op[t].at - 1].block
       IN  op' = [op EXCEPT ![t].block = b, ![t].before = NamesIn(blocks[b]),
                            ![t].names = ByHash(blocks[b], op[t].name)]
    /\ pc' = [pc EXCEPT ![t] = "grow"]
    /\ UNCHANGED dirVars /\ Witness

\* A block is appended, not yet written, and the entries are divided; unwrap
\* panics if together they take no more than half a block.
Grow(t) ==
    /\ At(t, "grow")
    /\ blocks' = Append(blocks, <<>>) /\ size' = size + 1
    /\ LET cut == SplitPos(op[t].names)
       IN  IF cut = {} THEN pc' = [pc EXCEPT ![t] = "panic"] /\ UNCHANGED op
           ELSE /\ op' = [op EXCEPT ![t].new = Len(blocks) + 1, ![t].cut = Min(cut)]
                /\ pc' = [pc EXCEPT ![t] = "link"]
    /\ UNCHANGED <<hashed, index>> /\ Witness

\* No block can be allocated: or_allocated fails, and unwrap panics.
GrowFails(t) ==
    /\ At(t, "grow")
    /\ pc' = [pc EXCEPT ![t] = "panic"]
    /\ UNCHANGED <<dirVars, op>> /\ Witness

\* insert_at: the new block comes after the last one the cursor met.
Link(t) ==
    /\ At(t, "link")
    /\ index' = InsertAt(index, op[t].at,
                         [hash |-> NewHash(op[t].names, op[t].cut), block |-> op[t].new])
    /\ pc' = [pc EXCEPT ![t] = "putOld"]
    /\ UNCHANGED <<hashed, blocks, size, op>> /\ Witness

FirstHalf(o) == SubSeq(o.names, 1, o.cut - 1)
SecondHalf(o) == SubSeq(o.names, o.cut, Len(o.names))

PutOld(t) ==
    /\ At(t, "putOld")
    /\ blocks' = [blocks EXCEPT ![op[t].block] = Filled(FirstHalf(op[t]))]
    /\ pc' = [pc EXCEPT ![t] = "putNew"]
    /\ UNCHANGED <<hashed, index, size, op>> /\ Witness

PutNew(t) ==
    /\ At(t, "putNew")
    /\ blocks' = [blocks EXCEPT ![op[t].new] = Filled(SecondHalf(op[t]))]
    /\ Finish(t, {})
    /\ UNCHANGED <<hashed, index, size>> /\ Witness

\* The caller has used the answer.
Forget(t) ==
    /\ At(t, "told")
    /\ pc' = [pc EXCEPT ![t] = "idle"] /\ op' = [op EXCEPT ![t] = NoOp]
    /\ UNCHANGED dirVars /\ Witness

Start(t) == StartFind(t) \/ StartRemove(t) \/ StartList(t) \/ StartAdd(t)
Visit(t) == FindIn(t) \/ RemoveIn(t) \/ ListIn(t) \/ AddIn(t) \/ EndOfCursor(t)
Split(t) == Gather(t) \/ Grow(t) \/ GrowFails(t) \/ Link(t) \/ PutOld(t) \/ PutNew(t)

Next ==
    \E t \in Thread : Start(t) \/ LinearAdd(t) \/ Visit(t) \/ Split(t) \/ Forget(t)

Spec == Init /\ [][Next]_vars

-----------------------------------------------------------------------------
(* Properties.                                                             *)

Splitting == \E t \in Thread : pc[t] \in {"link", "putOld", "putNew", "panic"}

\* No name is in two slots: "File Exist." is the answer to adding it again.
NamesOnce == ~Splitting => Unique(blocks)

\* The slots tile every block, no entry runs into the next slot, no name is
\* in two slots, and i_size counts the blocks (insert_entry, destroy, set_size).
BlocksTiled ==
    /\ size = Len(blocks) + (IF hashed THEN 1 ELSE 0)
    /\ ~Splitting => \A i \in DOMAIN blocks : WellFormed(blocks[i])
    /\ pc \in [Thread -> {"idle", "visit", "told", "grow", "link", "putOld", "putNew", "panic"}]
    /\ NamesOnce

\* The index is sorted, has every block once, and every name is in a block
\* the cursor of its hash meets, also after blocks were split, emptied and
\* filled again (from_hash, split_data, insert_at).
IndexSound == hashed /\ ~Splitting => Leads(index, blocks)

\* What the two halves of a block are to hold is what it held and the new
\* name: "Gather and sort the entries in the last block", "Handle hash
\* collision" and "Put remainder into new block" of split_data.
SplitKeepsNames ==
    \A t \in Thread : pc[t] = "link" =>
        NamesIn(Filled(FirstHalf(op[t]))) \cup NamesIn(Filled(SecondHalf(op[t])))
            = op[t].before \cup {op[t].name}

\* A listing that has seen every block has every name that was there all the
\* time (fill_dir_from).
ListsAll ==
    \A t \in Thread :
        pc[t] = "visit" /\ op[t].kind = "list" /\ Block(t) = {} => always[t] \subseteq op[t].got

\* A lookup that has seen every block its cursor leads to has found a name that was
\* there all the time: what it answers is "No such entry." (find_entry).
FindsAll ==
    \A t \in Thread :
        pc[t] = "visit" /\ op[t].kind = "find" /\ Block(t) = {} => always[t] = {}

\* When nobody is inside, a lookup finds every name of the directory: it answers "No
\* such entry." for no name that was added (create_entry, find_entry).
AddedIsFound ==
    hashed /\ (\A t \in Thread : ~Inside(t)) =>
        \A n \in Live(blocks) : \E b \in Chain(index, Hash[n]) : n \in NamesIn(blocks[b])

Map == INSTANCE NameMap WITH
    entries <- Listing,
    ask <- [t \in Thread |-> Asked(t)],
    answer <- [t \in Thread |-> IF pc[t] = "told" THEN op[t].got ELSE {}]

\* Lookups, removals, listings and additions of several threads are those of
\* a set of names, when callers keep the discipline, no two names have one
\* hash, entries are short and linear directories are not listed.
NameMapSpec == Map!Spec
=============================================================================
