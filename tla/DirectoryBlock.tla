---------------------------- MODULE DirectoryBlock ----------------------------
(***************************************************************************)
(* A block of a directory (src/directory/block.rs, src/directory/entry.rs) *)
(* is tiled by slots: each has a length and holds one entry or none.  A    *)
(* name is put into a free slot or into the slack behind an entry; a name  *)
(* taken out gives its slot to the slot before it.  The inode number and   *)
(* the type of an entry go with its name and are left out, and so is the   *)
(* checksum slot at the end of the blocks of some foreign images.          *)
(***************************************************************************)
EXTENDS Integers, Sequences, FiniteSets, SequencesExt, FiniteSetsExt, Functions

CONSTANTS
    Name,
    NameLen,     \* the length in bytes of every name
    BLK_SIZE

Dot == "."
DotDot == ".."
Free == "no entry"     \* inode 0

ASSUME BlockAssumption ==
    /\ NameLen \in [Name -> Nat \ {0}]
    /\ BLK_SIZE \in Nat \ {0} /\ BLK_SIZE % 4 = 0
    /\ \A n \in Name : NameLen[n] + 11 <= BLK_SIZE
    /\ Name \cap {Dot, DotDot, Free} = {}

LenOf(n) == IF n \in Name THEN NameLen[n] ELSE IF n = Dot THEN 1 ELSE 2

\* The bytes an entry needs: eight of header and the name, rounded up.
EntrySize(n) == ((11 + LenOf(n)) \div 4) * 4

Slot == [name : Name \cup {Dot, DotDot, Free}, len : Nat]
Blocks == Seq(Slot)

\* clear: one free slot as long as the block.
Cleared == <<[name |-> Free, len |-> BLK_SIZE]>>

\* The slots a reader of the block stops at; it skips the free ones.
Taken(b) == {i \in DOMAIN b : b[i].name # Free}

NamesIn(b) == {b[i].name : i \in Taken(b)}

\* The length of the slot without what its own entry needs.
Slack(s) == IF s.name = Free THEN s.len ELSE s.len - EntrySize(s.name)

Roomy(b, n) == {i \in DOMAIN b : Slack(b[i]) >= EntrySize(n)}

\* insert_entry takes the first slot with room: a free slot becomes the entry
\* with its whole length, a used slot is split behind its own entry.
insert_entry(b, n) ==
    LET i == Min(Roomy(b, n))
        s == b[i]
        own == s.len - Slack(s)
    IN  IF s.name = Free
        THEN [b EXCEPT ![i].name = n]
        ELSE InsertAt([b EXCEPT ![i].len = own], i + 1, [name |-> n, len |-> Slack(s)])

\* Mutant of destroy: the slot before does not get the length.
DestroyShort(b, n) ==
    LET i == CHOOSE j \in DOMAIN b : b[j].name = n
    IN  IF i = 1 THEN [b EXCEPT ![1].name = Free] ELSE RemoveAt(b, i)

\* destroy: the slot goes to the slot before it; the first one is only freed.
destroy(b, n) ==
    LET i == CHOOSE j \in DOMAIN b : b[j].name = n
    IN  IF i = 1 THEN [b EXCEPT ![1].name = Free]
        ELSE RemoveAt([b EXCEPT ![i - 1].len = @ + b[i].len], i)

\* A cleared block with names put into it one after the other; a name without
\* room is dropped, as split_data ignores what insert_entry says.
Filled(names) ==
    FoldLeft(LAMBDA b, n : IF Roomy(b, n) = {} THEN b ELSE insert_entry(b, n),
             Cleared, names)

WellFormed(b) ==
    /\ FoldLeft(LAMBDA sum, s : sum + s.len, 0, b) = BLK_SIZE
    /\ \A i \in DOMAIN b : b[i].len > 0 /\ Slack(b[i]) >= 0
=============================================================================
