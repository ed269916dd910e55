------------------------------ MODULE TicketLock ------------------------------
(***************************************************************************)
(* The ticket lock of lib/synchronizations/src/ticket_lock.rs, one step    *)
(* per atomic operation.  Two counters of fixed width: next is the ticket  *)
(* that the next caller draws, owner the ticket that is served; both wrap. *)
(* The steps are interleaved as if every operation were sequentially       *)
(* consistent; what the Relaxed orderings allow beyond that is not here.   *)
(***************************************************************************)
EXTENDS Integers, Sequences, FiniteSets

CONSTANTS
    Thread,
    Modulus     \* 2^32 in the code

ASSUME ConstantsOK ==
    /\ Modulus \in Nat \ {0}
    /\ IsFiniteSet(Thread)
    /\ Cardinality(Thread) < Modulus   \* a thread holds one ticket at most

VARIABLES
    next, owner,
    pc,          \* where the call of a thread is
    ticket       \* the ticket a thread has drawn, or hopes to draw in try_lock

vars == <<next, owner, pc, ticket>>

Counter == 0 .. Modulus - 1

Init ==
    /\ next = 0 /\ owner = 0
    /\ pc = [t \in Thread |-> "idle"]
    /\ ticket = [t \in Thread |-> 0]

\* lock: draw a ticket.
Draw(t) ==
    /\ pc[t] = "idle"
    /\ ticket' = [ticket EXCEPT ![t] = next]
    /\ next' = (next + 1) % Modulus
    /\ pc' = [pc EXCEPT ![t] = "check"]
    /\ UNCHANGED owner

\* lock: look once whether the ticket is served.
Check(t) ==
    /\ pc[t] = "check"
    /\ pc' = [pc EXCEPT ![t] = IF owner = ticket[t] THEN "held" ELSE "wait"]
    /\ UNCHANGED <<next, owner, ticket>>

\* Mutant of Acquire: whoever wakes up takes the lock.
AcquireAnyway(t) ==
    /\ pc[t] = "wait"
    /\ pc' = [pc EXCEPT ![t] = "held"]
    /\ UNCHANGED <<next, owner, ticket>>

\* acquire: sleep until the ticket is served.
Acquire(t) ==
    /\ pc[t] = "wait" /\ owner = ticket[t]
    /\ pc' = [pc EXCEPT ![t] = "held"]
    /\ UNCHANGED <<next, owner, ticket>>

\* try_lock: read the ticket served.
TryLoad(t) ==
    /\ pc[t] = "idle"
    /\ ticket' = [ticket EXCEPT ![t] = owner]
    /\ pc' = [pc EXCEPT ![t] = "try"]
    /\ UNCHANGED <<next, owner>>

\* Mutant of TrySwap: only the served ticket is compared.
TrySwapOwner(t) ==
    /\ pc[t] = "try"
    /\ IF owner = ticket[t]
       THEN next' = (next + 1) % Modulus /\ pc' = [pc EXCEPT ![t] = "held"]
       ELSE pc' = [pc EXCEPT ![t] = "idle"] /\ UNCHANGED next
    /\ UNCHANGED <<owner, ticket>>

\* try_lock: draw that ticket if it is still served and not yet drawn.
TrySwap(t) ==
    /\ pc[t] = "try"
    /\ IF owner = ticket[t] /\ next = ticket[t]
       THEN next' = (next + 1) % Modulus /\ pc' = [pc EXCEPT ![t] = "held"]
       ELSE pc' = [pc EXCEPT ![t] = "idle"] /\ UNCHANGED next
    /\ UNCHANGED <<owner, ticket>>

\* Mutants of Unlock: the counter is one bit wider; the counter stays.
UnlockNoWrap(t) ==
    /\ pc[t] = "held"
    /\ owner' = owner + 1
    /\ pc' = [pc EXCEPT ![t] = "idle"]
    /\ UNCHANGED <<next, ticket>>

UnlockSilently(t) ==
    /\ pc[t] = "held"
    /\ pc' = [pc EXCEPT ![t] = "idle"]
    /\ UNCHANGED <<next, owner, ticket>>

\* The guard is dropped: the next ticket is served.
Unlock(t) ==
    /\ pc[t] = "held"
    /\ owner' = (owner + 1) % Modulus
    /\ pc' = [pc EXCEPT ![t] = "idle"]
    /\ UNCHANGED <<next, ticket>>

Go(t) == Check(t) \/ Acquire(t) \/ TrySwap(t) \/ Unlock(t)

Next == \E t \in Thread : Draw(t) \/ TryLoad(t) \/ Go(t)

Spec == Init /\ [][Next]_vars

\* A thread inside a call runs on, and whoever holds the lock releases it.
FairSpec == Spec /\ \A t \in Thread : WF_vars(Go(t))

-----------------------------------------------------------------------------
(* Properties.                                                             *)

\* Every variable has its type.
TypeOK ==
    /\ next \in Counter /\ owner \in Counter
    /\ pc \in [Thread -> {"idle", "check", "wait", "try", "held"}]
    /\ ticket \in [Thread -> Counter]

Active == {t \in Thread : pc[t] \in {"check", "wait", "held"}}

\* How many turns are before the ticket of t.
Turns(t) == (ticket[t] - owner) % Modulus

\* The tickets of those who hold the lock or wait for it are the ones between
\* owner and next, one each, also when the counters have wrapped; only the
\* ticket that is served holds the lock.
TicketsInWindow ==
    /\ Cardinality(Active) = (next - owner) % Modulus
    /\ {Turns(t) : t \in Active} = 0 .. Cardinality(Active) - 1
    /\ \A t \in Thread : pc[t] = "held" => Turns(t) = 0

\* Who has drawn a ticket is served in the end.
LockReturns == \A t \in Thread : pc[t] = "check" ~> pc[t] = "held"

\* Those who hold the lock or wait for it, in the order of their turns.
Queue ==
    CHOOSE q \in [1 .. Cardinality(Active) -> Active] :
        \A i, j \in DOMAIN q : i < j => Turns(q[i]) < Turns(q[j])

Fair == INSTANCE FairLock
    WITH queue <- Queue, held <- \E t \in Thread : pc[t] = "held"

\* The two counters implement a queue: mutual exclusion, first come first
\* served, and try_lock succeeds on a free lock only.
FairLockSpec == Fair!Spec
=============================================================================
