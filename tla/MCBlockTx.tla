------------------------------ MODULE MCBlockTx ------------------------------
(* Small instances of BlockTx.                                              *)
EXTENDS BlockTx, TLC

CONSTANTS t1, t2, b1, b2, b3, g1, g2, f1, f2, f3

\* b1 and b2 lie in the first group, b3 in the second.
MCGroupOf == [b \in Block |-> IF b = b3 THEN g2 ELSE g1]

\* f1 and f2 share a block of the inode table, f3 lies in another.
MCTableOf == [f \in File |-> IF f = f3 THEN 2 ELSE 1]

\* Threads are alike, and so are files in one block of the inode table.
Symmetric == Permutations(Thread) \cup Permutations(File)
=============================================================================
