---------------------------- MODULE MCTicketLock ----------------------------
(* Small instances of TicketLock.                                           *)
EXTENDS TicketLock

CONSTANTS t1, t2, t3
=============================================================================
