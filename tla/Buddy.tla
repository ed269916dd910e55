-------------------------------- MODULE Buddy --------------------------------
(***************************************************************************)
(* The buddies of block/allocator.rs: the free blocks as chunks of 2^order *)
(* blocks, found by their order (buddies) or by their first block          *)
(* (backref).  Chunks are split and never merged.                          *)
(*                                                                         *)
(* The lock of backref is taken first by every operation and kept until    *)
(* the chunks have been removed, so the search of try_allocate_at is one   *)
(* step.  The rest of a chunk goes back in later steps, one per piece,     *)
(* each under the lock again; until then nobody can see it.                *)
(***************************************************************************)
EXTENDS Integers, FiniteSets, FiniteSetsExt, Functions

CONSTANTS
    Thread,
    Blocks,        \* the number of blocks
    MaxOrder,      \* the order of the largest chunk; requests are cut to it
    MaxRequest,    \* bound: blocks asked for in one call
    UsedAtMount    \* the sets of blocks the bitmaps may show in use at mount

Lba == 0 .. Blocks - 1

ASSUME ConstantsOK ==
    /\ Blocks \in Nat \ {0}
    /\ MaxOrder \in Nat
    /\ MaxRequest \in Nat \ {0}
    /\ UsedAtMount \subseteq SUBSET Lba

VARIABLES
    backref,   \* BlockGroupBuddy::backref, from the first block to the order
    buddies,   \* BlockGroupBuddy::buddies, from the order to the first blocks
    held,      \* the blocks with the callers: extents and their nodes
    pc,        \* where the call of a thread is
    pend       \* the run a thread still has to push

vars == <<backref, buddies, held, pc, pend>>

Order == 0 .. MaxOrder

Run(start, len) == start .. start + len - 1

Chunk(start) == Run(start, 2 ^ backref[start])

Covered == UNION {Chunk(s) : s \in DOMAIN backref}

Nothing == [start |-> 0, len |-> 0]

-----------------------------------------------------------------------------
(* push_chunk.                                                             *)

\* The first piece of a run: the largest aligned chunk at its start.
PieceOrder(start, len) == Max({o \in Order : start % 2 ^ o = 0 /\ 2 ^ o <= len})

\* The pieces push_chunk cuts a run into.
Pieces(start, len) ==
    LET end == start + len
        cut[s \in start .. end] ==
            IF s = end THEN {}
            ELSE LET o == PieceOrder(s, end - s)
                 IN  {<<s, o>>} \cup cut[s + 2 ^ o]
    IN  cut[start]

\* build_buddy: the maximal runs of zeros of a bitmap, from pos on.
FreeRuns(used) ==
    LET Zero(p) == p \in Lba \ used
        End(p)  == Min({q \in p .. Blocks : ~Zero(q)})
    IN  {<<p, End(p) - p>> : p \in {q \in Lba : Zero(q) /\ ~Zero(q - 1)}}

Init ==
    /\ pc = [t \in Thread |-> "idle"]
    /\ pend = [t \in Thread |-> Nothing]
    /\ held \in UsedAtMount
    /\ LET chunks == UNION {Pieces(r[1], r[2]) : r \in FreeRuns(held)} IN
        /\ backref = [s \in {c[1] : c \in chunks} |->
                        CHOOSE o \in Order : <<s, o>> \in chunks]
        /\ buddies = [o \in Order |-> {s \in Lba : <<s, o>> \in chunks}]

\* A thread that pushes while it holds the lock of backref waits for itself,
\* and everybody else waits for it.
BackrefFree == \A t \in Thread : pc[t] # "stuck"

\* Mutants of Insert: the loop does not end; backref is not told; the loop ends
\* after the first piece.
InsertNoEnd(t) ==
    /\ pc[t] \in {"push", "give"} /\ BackrefFree
    /\ LET s == pend[t].start
           o == PieceOrder(s, pend[t].len)
       IN
        /\ backref' = [l \in DOMAIN backref \cup {s} |-> IF l = s THEN o ELSE backref[l]]
        /\ buddies' = [buddies EXCEPT ![o] = @ \cup {s}]
        /\ pend' = [pend EXCEPT ![t] = [start |-> s + 2 ^ o, len |-> @.len - 2 ^ o]]
    /\ UNCHANGED <<held, pc>>

InsertNoBackref(t) ==
    /\ pc[t] \in {"push", "give"} /\ BackrefFree
    /\ \E o \in Order :
        /\ o = PieceOrder(pend[t].start, pend[t].len)
        /\ buddies' = [buddies EXCEPT ![o] = @ \cup {pend[t].start}]
    /\ pc' = [pc EXCEPT ![t] = "idle"]
    /\ pend' = [pend EXCEPT ![t] = Nothing]
    /\ UNCHANGED <<backref, held>>

InsertOnce(t) ==
    /\ pc[t] \in {"push", "give"} /\ BackrefFree
    /\ LET s == pend[t].start
           o == PieceOrder(s, pend[t].len)
       IN
        /\ backref' = [l \in DOMAIN backref \cup {s} |-> IF l = s THEN o ELSE backref[l]]
        /\ buddies' = [buddies EXCEPT ![o] = @ \cup {s}]
    /\ pc' = [pc EXCEPT ![t] = "idle"]
    /\ pend' = [pend EXCEPT ![t] = Nothing]
    /\ UNCHANGED held

Insert(t) ==
    /\ pc[t] \in {"push", "give"} /\ BackrefFree
    /\ LET s == pend[t].start
           o == PieceOrder(s, pend[t].len)
           rest == [start |-> s + 2 ^ o, len |-> pend[t].len - 2 ^ o]
       IN
        /\ backref' = [l \in DOMAIN backref \cup {s} |-> IF l = s THEN o ELSE backref[l]]
        /\ buddies' = [buddies EXCEPT ![o] = @ \cup {s}]
        /\ IF rest.len = 0
           THEN pc' = [pc EXCEPT ![t] = "idle"] /\ pend' = [pend EXCEPT ![t] = Nothing]
           ELSE pend' = [pend EXCEPT ![t] = rest] /\ UNCHANGED pc
    /\ UNCHANGED held

\* A postlude of Collector::done: a run of blocks that a caller gave up.
Give(t, start, len) ==
    /\ pc[t] = "idle"
    /\ len > 0 /\ Run(start, len) \subseteq held
    /\ held' = held \ Run(start, len)
    /\ pc' = [pc EXCEPT ![t] = "give"]
    /\ pend' = [pend EXCEPT ![t] = [start |-> start, len |-> len]]
    /\ UNCHANGED <<backref, buddies>>

-----------------------------------------------------------------------------
(* try_allocate_at.                                                        *)

Asked(size) == Min({size, 2 ^ MaxOrder})

\* The length of the chain of chunks that begins at hope, chunk by chunk until
\* it is long enough or has a gap.
ChainAt(hope, size) ==
    LET chain[n \in 0 .. Blocks] ==
            IF n < size /\ hope + n \in DOMAIN backref
            THEN chain[n + 2 ^ backref[hope + n]]
            ELSE n
    IN  chain[0]

\* Mutant of Hoped: any chunk at the place hoped for will do.
HopedAny(hope, size) == ChainAt(hope, size) > 0

Hoped(hope, size) == ChainAt(hope, size) > size \div 2

\* Mutant of RemoveChunks: the chunks stay in the buddies.
RemoveBackref(starts) ==
    /\ backref' = Restrict(backref, DOMAIN backref \ starts)
    /\ UNCHANGED buddies

RemoveChunks(starts) ==
    /\ backref' = Restrict(backref, DOMAIN backref \ starts)
    /\ buddies' = [o \in Order |-> buddies[o] \ starts]

\* Mutant of AllocateHoped: the chain is cut to what was asked for, so the end of
\* the last chunk is pushed where backref is locked.
AllocateHopedCut(t, size, hope) ==
    LET allocated == Min({ChainAt(hope, size), size})
        starts    == DOMAIN backref \cap Run(hope, allocated)
    IN
    /\ pc[t] = "idle" /\ BackrefFree /\ Hoped(hope, size)
    /\ RemoveChunks(starts)
    /\ held' = held \cup Run(hope, allocated)
    /\ pc' = [pc EXCEPT ![t] =
                IF \A s \in starts : s + 2 ^ backref[s] <= hope + allocated
                THEN "idle" ELSE "stuck"]
    /\ UNCHANGED pend

\* Allocation at the place hoped for.  Chunks leave the buddies whole.  The
\* branch that would push the end of the last one compares with the length of
\* the chain, not with what was asked for; it would wait for its own lock.
AllocateHoped(t, size, hope) ==
    LET chain     == ChainAt(hope, size)
        allocated == Min({chain, size})
        starts    == DOMAIN backref \cap Run(hope, allocated)
    IN
    /\ pc[t] = "idle" /\ BackrefFree /\ Hoped(hope, size)
    /\ RemoveChunks(starts)
    /\ held' = held \cup Run(hope, allocated)
    /\ pc' = [pc EXCEPT ![t] =
                IF \A s \in starts : s + 2 ^ backref[s] <= hope + chain
                THEN "idle" ELSE "stuck"]
    /\ UNCHANGED pend

MinFitOrder(size) == Min({o \in Order : 2 ^ o >= size})

Fitting(size) == {o \in Order : o >= MinFitOrder(size) /\ buddies[o] # {}}
Smaller(size) == {o \in Order : o < MinFitOrder(size) /\ buddies[o] # {}}

\* Mutant of AllocateFit: the run pushed begins where the chunk does.
AllocateFitStart(t, size, hope) ==
    /\ pc[t] = "idle" /\ BackrefFree /\ ~Hoped(hope, size)
    /\ \E o \in Fitting(size) :
        /\ o = Min(Fitting(size)) /\ 2 ^ o > size
        /\ RemoveChunks({Min(buddies[o])})
        /\ held' = held \cup Run(Min(buddies[o]), size)
        /\ pend' = [pend EXCEPT ![t] = [start |-> Min(buddies[o]), len |-> 2 ^ o - size]]
    /\ pc' = [pc EXCEPT ![t] = "push"]

\* The first chunk of the smallest order that fits; its end is pushed later.
AllocateFit(t, size, hope) ==
    /\ pc[t] = "idle" /\ BackrefFree /\ ~Hoped(hope, size)
    /\ Fitting(size) # {}
    /\ LET o == Min(Fitting(size))
           p == Min(buddies[o])
           rest == 2 ^ o - size
       IN
        /\ RemoveChunks({p})
        /\ held' = held \cup Run(p, size)
        /\ IF rest = 0
           THEN UNCHANGED <<pc, pend>>
           ELSE /\ pc' = [pc EXCEPT ![t] = "push"]
                /\ pend' = [pend EXCEPT ![t] = [start |-> p + size, len |-> rest]]

\* Nothing fits: the first chunk of the largest order there is.
AllocateSmaller(t, size, hope) ==
    /\ pc[t] = "idle" /\ BackrefFree /\ ~Hoped(hope, size)
    /\ Fitting(size) = {} /\ Smaller(size) # {}
    /\ LET o == Max(Smaller(size))
           p == Min(buddies[o])
       IN  RemoveChunks({p}) /\ held' = held \cup Run(p, 2 ^ o)
    /\ UNCHANGED <<pc, pend>>

\* allocate answers FsFull when every order is empty.
Full == \A o \in Order : buddies[o] = {}

Allocate(t, size, hope) ==
    \/ AllocateHoped(t, size, hope)
    \/ AllocateFit(t, size, hope)
    \/ AllocateSmaller(t, size, hope)

Next ==
    \E t \in Thread :
        \/ Insert(t)
        \/ \E start \in Lba, len \in 1 .. Blocks : Give(t, start, len)
        \/ \E size \in 1 .. MaxRequest, hope \in Lba : Allocate(t, Asked(size), hope)

Spec == Init /\ [][Next]_vars

\* Whoever has to push goes on pushing: no call waits but for a lock.
FairSpec == Spec /\ \A t \in Thread : WF_vars(Insert(t))

-----------------------------------------------------------------------------
(* Properties.                                                             *)

Pending(t) == Run(pend[t].start, pend[t].len)

\* Every variable has its type.
TypeOK ==
    /\ backref \in [DOMAIN backref -> Order] /\ DOMAIN backref \subseteq Lba
    /\ buddies \in [Order -> SUBSET Lba]
    /\ held \subseteq Lba
    /\ pc \in [Thread -> {"idle", "push", "give", "stuck"}]
    /\ pend \in [Thread -> [start : 0 .. Blocks, len : 0 .. Blocks]]
    /\ \A t \in Thread :
        /\ Pending(t) \subseteq Lba
        /\ pend[t].len = 0 <=> pc[t] \notin {"push", "give"}

\* The two indexes describe the same chunks, or the assertion after
\* backref.remove would fail, and chunks are aligned to their length.
IndexesAgree ==
    /\ \A o \in Order : buddies[o] = {s \in DOMAIN backref : backref[s] = o}
    /\ \A s \in DOMAIN backref : s % 2 ^ backref[s] = 0

\* No block is in two chunks, in a chunk and with a caller, or in one of them
\* and in the hands of a thread that pushes.
BlocksExclusive ==
    /\ \A r, s \in DOMAIN backref : r # s => Chunk(r) \cap Chunk(s) = {}
    /\ Covered \cap held = {}
    /\ \A t \in Thread : Pending(t) \cap (Covered \cup held) = {}
    /\ \A t, u \in Thread : t # u => Pending(t) \cap Pending(u) = {}

Idle == \A t \in Thread : pc[t] = "idle"

\* A block that is neither free, nor with a caller, nor on its way back.
LostBlocks == Lba \ (Covered \cup held \cup UNION {Pending(t) : t \in Thread})

\* Only an allocation at the place hoped for loses blocks; splitting a chunk,
\* pushing it piece by piece and giving blocks back lose none.
OnlyHopeLoses ==
    [][LostBlocks' # LostBlocks =>
        \E t \in Thread, size \in 1 .. MaxRequest, hope \in Lba :
            AllocateHoped(t, Asked(size), hope)]_vars

\* A call comes back with less than it asked for only with more than half of
\* it, or when no chunk is as long as what was asked for.
ShortAnswers ==
    [][held' \ held # {} =>
        \A t \in Thread, size \in 1 .. MaxRequest, hope \in Lba :
            Allocate(t, Asked(size), hope) =>
                LET got == Cardinality(held' \ held) IN
                /\ got <= Asked(size)
                /\ got < Asked(size) =>
                    \/ 2 * got > Asked(size)
                    \/ \A s \in DOMAIN backref : 2 ^ backref[s] < Asked(size)]_vars

\* No call waits for ever: none pushes a piece while it holds the lock it
\* needs for that, and all pushing ends.
CallsReturn == \A t \in Thread : pc[t] # "idle" ~> pc[t] = "idle"

\* FsFull means what its documentation says: when no call is under way and
\* there is no chunk to allocate from, every block is with a caller.
FullMeansFull == Idle /\ Full => held = Lba

\* What the users of the allocator are promised, with one file for all of them.
Status ==
    [b \in Lba |-> IF b \in held THEN "client"
                   ELSE IF b \in Covered THEN "free"
                   ELSE IF \E t \in Thread : b \in Pending(t) /\ pc[t] = "push" THEN "free"
                   ELSE IF \E t \in Thread : b \in Pending(t) THEN "releasing"
                   ELSE "lost"]

Ownership == INSTANCE BlockOwnership
    WITH Block <- Lba, File <- {"client"}, status <- Status

\* The buddies keep the abstract promise about free blocks that the
\* transactions build on, though a chunk is split in several steps.
OwnershipSpec == Ownership!Spec
=============================================================================
