------------------------------ MODULE SleepLocks ------------------------------
(***************************************************************************)
(* The two locks of lib/synchronizations whose callers sleep: RwLock       *)
(* (rwlock.rs), where one word counts the readers and one of its bits is   *)
(* the writer's, and SimpleLock (simple_lock.rs), where the word is a      *)
(* flag.  One step per atomic operation, as if all of them were            *)
(* sequentially consistent.  Sleeping and waking are the part of a         *)
(* Dreamer, which the library leaves to the system around it: here sleep   *)
(* looks at the word once more, may return for no reason, and returns      *)
(* after the next waking_up, which wakes everybody.                        *)
(***************************************************************************)
EXTENDS Integers, FiniteSets

CONSTANTS
    Thread,
    WRITER_LOCKED,   \* STATE_WRITER_LOCKED, 2^62 in the code
    MaxCalls,        \* bound: how often each thread asks for the lock or upgrades
    Disciplined      \* one thread upgrades at a time

ASSUME SleepLocksAssumption ==
    /\ WRITER_LOCKED \in Nat \ {0} /\ MaxCalls \in [Thread -> Nat] /\ Disciplined \in BOOLEAN
    /\ IsFiniteSet(Thread) /\ Cardinality(Thread) < WRITER_LOCKED

VARIABLES
    simple,   \* the lock is a SimpleLock
    state,    \* the word of the lock
    pc,       \* where the call of a thread is
    ask,      \* what it asks for: to read or write, and whether it waits
    prev,     \* the word as the thread has read it, before it swaps
    calls     \* how many calls a thread has left

vars == <<simple, state, pc, ask, prev, calls>>

NoAsk == [mode |-> "none", waits |-> FALSE, trying |-> FALSE]

Init ==
    /\ simple \in BOOLEAN /\ state = 0
    /\ pc = [t \in Thread |-> "idle"] /\ ask = [t \in Thread |-> NoAsk]
    /\ prev = [t \in Thread |-> 0] /\ calls = MaxCalls

is_write_locked(b) == (b \div WRITER_LOCKED) % 2 = 1

\* Mutant of Blocked: a writer does not mind readers.
BlockedByWriter(mode, b) == is_write_locked(b)

\* Who may not enter: a reader while the bit is set, a writer while the word
\* is not 0.
Blocked(mode, b) == IF mode = "read" THEN is_write_locked(b) ELSE b > 0

Granted(mode, b) == IF mode = "read" THEN b + 1 ELSE b + WRITER_LOCKED

Holding(mode) == IF mode = "read" THEN "reading" ELSE "writing"

Goto(t, p) == pc' = [pc EXCEPT ![t] = p]

-----------------------------------------------------------------------------
(* Asking for the lock.                                                    *)

\* Where an attempt begins: a SimpleLock swaps without looking.
Attempt == IF simple THEN "swap" ELSE "load"

\* read, write, lock, and their try_ forms; all of them try first.
Call(t) ==
    /\ pc[t] = "idle" /\ calls[t] > 0
    /\ \E mode \in {"read", "write"}, waits \in BOOLEAN :
        /\ simple => mode = "write"
        /\ ask' = [ask EXCEPT ![t] = [mode |-> mode, waits |-> waits, trying |-> TRUE]]
    /\ calls' = [calls EXCEPT ![t] = @ - 1]
    /\ Goto(t, Attempt)
    /\ UNCHANGED <<simple, state, prev>>

\* The lock is taken by others: try_ forms give up, the others begin to wait.
GiveUp(t) ==
    IF ask[t].waits
    THEN /\ ask' = [ask EXCEPT ![t].trying = FALSE]
         /\ Goto(t, IF simple THEN "sleep" ELSE "load")
    ELSE Goto(t, "idle") /\ ask' = [ask EXCEPT ![t] = NoAsk]

Load(t) ==
    /\ pc[t] = "load"
    /\ IF ~Blocked(ask[t].mode, state)
       THEN prev' = [prev EXCEPT ![t] = state] /\ Goto(t, "swap") /\ UNCHANGED ask
       ELSE /\ UNCHANGED prev
            /\ IF ask[t].trying THEN GiveUp(t) ELSE Goto(t, "sleep") /\ UNCHANGED ask
    /\ UNCHANGED <<simple, state, calls>>

\* compare_exchange succeeds.
Acquire(t) ==
    /\ pc[t] = "swap" /\ state = prev[t]
    /\ state' = Granted(ask[t].mode, state)
    /\ Goto(t, Holding(ask[t].mode))
    /\ prev' = [prev EXCEPT ![t] = 0] /\ ask' = [ask EXCEPT ![t] = NoAsk]
    /\ UNCHANGED <<simple, calls>>

\* It fails: a RwLock looks again, a SimpleLock gives up or sleeps.
Miss(t) ==
    /\ pc[t] = "swap" /\ state # prev[t]
    /\ IF ~simple THEN Goto(t, "load") /\ UNCHANGED ask
       ELSE IF ask[t].trying THEN GiveUp(t)
       ELSE Goto(t, "sleep") /\ UNCHANGED ask
    /\ prev' = [prev EXCEPT ![t] = 0]
    /\ UNCHANGED <<simple, state, calls>>

\* Dreamer::sleeping goes to sleep only when the word still says so.
Sleep(t) ==
    /\ pc[t] = "sleep"
    /\ Goto(t, IF Blocked(ask[t].mode, state) THEN "asleep" ELSE Attempt)
    /\ UNCHANGED <<simple, state, ask, prev, calls>>

\* It may return for no reason.
Stir(t) ==
    /\ pc[t] = "asleep" /\ Goto(t, Attempt)
    /\ UNCHANGED <<simple, state, ask, prev, calls>>

-----------------------------------------------------------------------------
(* Holding the lock and letting it go.                                     *)

\* Mutant of Wakes: only writers wake others.
WakesWriter(t) == pc[t] = "writing"

\* A guard that is dropped wakes the sleepers, the last of several readers.
Wakes(t) == pc[t] = "writing" \/ state = 1

\* Drop of the guards, up to the atomic operation.
Release(t) ==
    /\ pc[t] \in {"reading", "writing"}
    /\ state' = IF pc[t] = "reading" THEN state - 1 ELSE state - WRITER_LOCKED
    /\ Goto(t, IF Wakes(t) THEN "wake" ELSE "idle")
    /\ UNCHANGED <<simple, ask, prev, calls>>

waking_up(t) ==
    /\ pc[t] = "wake"
    /\ pc' = [u \in Thread |->
                 IF u = t THEN "idle" ELSE IF pc[u] = "asleep" THEN Attempt ELSE pc[u]]
    /\ UNCHANGED <<simple, state, ask, prev, calls>>

\* RwLockReadGuard::upgrade spins until its reader is the only one; two that
\* upgrade at once would wait for each other.
StartUpgrade(t) ==
    /\ pc[t] = "reading" /\ calls[t] > 0
    /\ Disciplined => \A u \in Thread : pc[u] # "upgrade"
    /\ calls' = [calls EXCEPT ![t] = @ - 1]
    /\ Goto(t, "upgrade")
    /\ UNCHANGED <<simple, state, ask, prev>>

Upgrade(t) ==
    /\ pc[t] = "upgrade" /\ state = 1
    /\ state' = WRITER_LOCKED
    /\ Goto(t, "writing")
    /\ UNCHANGED <<simple, ask, prev, calls>>

\* RwLockWriteGuard::downgrade wakes nobody.
Downgrade(t) ==
    /\ ~simple /\ pc[t] = "writing" /\ state = WRITER_LOCKED
    /\ state' = 1
    /\ Goto(t, "reading")
    /\ UNCHANGED <<simple, ask, prev, calls>>

Run(t) ==
    \/ Load(t) \/ Acquire(t) \/ Miss(t) \/ Sleep(t)
    \/ Release(t) \/ waking_up(t) \/ Upgrade(t)

Next == \E t \in Thread : Call(t) \/ Run(t) \/ Stir(t) \/ StartUpgrade(t) \/ Downgrade(t)

\* A thread inside a call runs on, and whoever holds the lock releases it.
Spec == Init /\ [][Next]_vars /\ \A t \in Thread : WF_vars(Run(t))

-----------------------------------------------------------------------------
(* Properties.                                                             *)

\* When the calls are finite, each of them ends: no wake-up is lost, although
\* the word is read, the sleep begins and the lock is released in any order,
\* only the last reader wakes anybody, and downgrade does not (read_lock,
\* write_lock, SimpleLock::acquire, the drops of the guards).
CallsReturn == \A t \in Thread : pc[t] # "idle" ~> pc[t] = "idle"

RW == INSTANCE ReadersWriters WITH
    readers <- {t \in Thread : pc[t] \in {"reading", "upgrade"}},
    writers <- {t \in Thread : pc[t] = "writing"}

\* Readers and writers exclude each other (the word of RwLock and SimpleLock).
ReadersWritersSpec == RW!Spec
=============================================================================
