------------------------------ MODULE MCInodes ------------------------------
(* Instances of Inodes for TLC. *)
EXTENDS Inodes

\* Threads are alike, and so are names.
Alike == Permutations(Thread) \cup Permutations(Name)

\* Nothing has gone wrong yet with the objects or with an operation: TLC does
\* not go on behind a state where this fails.
SoFar == OneObject /\ lost = <<>>
=============================================================================
