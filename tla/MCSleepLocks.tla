---------------------------- MODULE MCSleepLocks ----------------------------
(* An instance of SleepLocks for TLC: one thread calls once, the others twice. *)
EXTENDS SleepLocks

CONSTANTS t1, t2, t3

MCCalls == [t \in Thread |-> IF t = t3 THEN 1 ELSE 2]
=============================================================================
