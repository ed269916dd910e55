--------------------------- MODULE BlockOwnership ---------------------------
(***************************************************************************)
(* What the block layer promises its clients, without buddies, bitmaps,    *)
(* transactions or a disk: a data block is free, or belongs to one file,   *)
(* or has been given up by its file and waits for the write-back of the    *)
(* transaction that gave it up.  A block never goes from one file to       *)
(* another in one step, and one that was given up is not handed out before *)
(* it has been freed.  A block may be lost: it stays marked in use and is  *)
(* never handed out again before the next mount.                           *)
(***************************************************************************)
CONSTANTS Block, File

\* What a block can be besides the property of a file.
Free      == "free"
Releasing == "releasing"
Lost      == "lost"

VARIABLE status        \* what each block is used for

Statuses == File \cup {Free, Releasing, Lost}

Init == status \in [Block -> File \cup {Free}]

\* Some blocks change their status, all from from to a status in to.
Move(from, to) ==
    \A b \in Block : status'[b] # status[b] => status[b] = from /\ status'[b] \in to

\* A file receives free blocks; the allocator may lose others with them.
Allocate(f) == Move(Free, {f, Lost})

\* A file gives blocks up.
Release(f) == Move(f, {Releasing})

\* The write-back is over: the blocks are free, or lost when it has failed.
Reclaim == Move(Releasing, {Free}) \/ Move(Releasing, {Lost})

Next ==
    /\ status' \in [Block -> Statuses]
    /\ \/ \E f \in File : Allocate(f) \/ Release(f)
       \/ Reclaim

Spec == Init /\ [][Next]_status
=============================================================================
