--------------------------- MODULE MCDirectories ---------------------------
(* Instances of Directories for TLC. *)
EXTENDS Directories

CONSTANTS na, nb, nc, nd

\* What f gives the names of the instance.
Of(f) == [n \in Name |-> f[n]]

\* Three lengths in blocks of 48 bytes: nb and nd take half a block.
MCLen == Of((na :> 5) @@ (nb :> 16) @@ (nc :> 1) @@ (nd :> 12))

\* Entries of a quarter and of a third of a block of 48 bytes: whatever block
\* is split, both halves have room for what they are to hold.
MCShort == Of((na :> 5) @@ (nb :> 8) @@ (nc :> 1) @@ (nd :> 4))

\* Entries of half a block of 48 bytes.
MCHalf == [n \in Name |-> 16]

\* A short name, two that take half a block, and a short one again.
MCLong == Of((na :> 1) @@ (nb :> 16) @@ (nc :> 16) @@ (nd :> 1))

\* nb and nc have one hash.
MCHash == Of((na :> 2) @@ (nb :> 4) @@ (nc :> 4) @@ (nd :> 6))

\* Every name has a hash of its own.
MCHashes == Of((na :> 2) @@ (nb :> 4) @@ (nc :> 6) @@ (nd :> 8))

One(n) == [name |-> n, len |-> BLK_SIZE]

\* A linear directory ...
MCLinear ==
    [hashed |-> FALSE, index |-> <<>>,
     blocks |-> <<<<[name |-> Dot, len |-> 12], [name |-> DotDot, len |-> BLK_SIZE - 12]>>>>]

\* ... a hashed one whose second block goes on with the hash of nb, as left when
\* another name of that hash is gone ...
MCOn ==
    [hashed |-> TRUE, index |-> <<[hash |-> 0, block |-> 1], [hash |-> 5, block |-> 2]>>,
     blocks |-> <<<<One(na)>>, <<[name |-> nb, len |-> 16], [name |-> nc, len |-> 32]>>>>]

\* ... one where two names of one hash are in two blocks ...
MCChain ==
    [hashed |-> TRUE, index |-> <<[hash |-> 0, block |-> 1], [hash |-> 5, block |-> 2]>>,
     blocks |-> <<<<One(nb)>>, <<One(nc)>>>>]

\* ... and one with a full block.
MCFull ==
    [hashed |-> TRUE, index |-> <<[hash |-> 0, block |-> 1]>>,
     blocks |-> <<[i \in 1 .. 3 |-> [name |-> <<na, nb, nc>>[i], len |-> 16]]>>]

MCForeign == {MCLinear, MCChain}
MCForeignShort == {MCLinear, MCFull, MCOn}
MCNoForeign == {}

Symmetric == Permutations(Thread)
=============================================================================
