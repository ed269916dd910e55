------------------------------- MODULE MCFiles -------------------------------
(* Instances of Files for TLC. *)
EXTENDS Files

MCBlocks == 11 .. 19
MCFew == 11 .. 14
MCLow == 1 .. 9
=============================================================================
