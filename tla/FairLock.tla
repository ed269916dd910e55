------------------------------ MODULE FairLock ------------------------------
(***************************************************************************)
(* What TicketLock promises: whoever asks for the lock is put at the end   *)
(* of a queue, the head of the queue gets it, and an attempt without       *)
(* waiting succeeds only when nobody holds the lock or waits for it.       *)
(***************************************************************************)
EXTENDS Sequences

CONSTANT Thread

VARIABLES
    queue,   \* the threads that hold the lock or wait for it, in order
    held     \* the head of the queue holds the lock

vars == <<queue, held>>

Init == queue = <<>> /\ held = FALSE

Enqueue(t) == queue' = Append(queue, t) /\ UNCHANGED held

Enter == queue # <<>> /\ ~held /\ held' = TRUE /\ UNCHANGED queue

TryEnter(t) == queue = <<>> /\ queue' = <<t>> /\ held' = TRUE

Leave == held /\ queue' = Tail(queue) /\ held' = FALSE

Next == Enter \/ Leave \/ \E t \in Thread : Enqueue(t) \/ TryEnter(t)

Safety == Init /\ [][Next]_vars

Spec == Safety /\ WF_vars(Enter)
=============================================================================
