------------------------------- MODULE MCBuddy -------------------------------
(* Small instances of Buddy.                                                *)
EXTENDS Buddy, TLC

CONSTANTS t1, t2

\* An empty device, one with its first block in use and a fragmented one.
MCUsedAtMount == {{}, {0}, {0, 3}}
=============================================================================
