---------------------------- MODULE ReadersWriters ----------------------------
(***************************************************************************)
(* What the locks that sleep promise: any number of readers or one writer. *)
(***************************************************************************)
CONSTANT Thread

VARIABLES
    readers,   \* the threads that hold the lock for reading
    writers    \* the threads that hold it for writing

vars == <<readers, writers>>

Init == readers = {} /\ writers = {}

Read(t) == writers = {} /\ readers' = readers \cup {t} /\ UNCHANGED writers

Write(t) == readers = {} /\ writers = {} /\ writers' = {t} /\ UNCHANGED readers

Upgrade(t) == readers = {t} /\ readers' = {} /\ writers' = {t}

Downgrade(t) == writers = {t} /\ readers' = {t} /\ writers' = {}

Leave(t) ==
    /\ t \in readers \cup writers
    /\ readers' = readers \ {t} /\ writers' = writers \ {t}

Next == \E t \in Thread : Read(t) \/ Write(t) \/ Upgrade(t) \/ Downgrade(t) \/ Leave(t)

Spec == Init /\ [][Next]_vars
=============================================================================
