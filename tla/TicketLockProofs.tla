--------------------------- MODULE TicketLockProofs ---------------------------
(***************************************************************************)
(* Proofs about TicketLock, for any threads and any width of the counters  *)
(* that has more tickets than there are threads.                           *)
(***************************************************************************)
EXTENDS TicketLock, FiniteSetTheorems, SequenceTheorems, TLAPS

-----------------------------------------------------------------------------
(* Counters that wrap.                                                     *)

\* What has not reached the modulus is not changed by wrapping.
LEMMA NoWrap == \A a \in Int : 0 <= a /\ a < Modulus => a % Modulus = a
<1> SUFFICES ASSUME NEW a \in Int, 0 <= a, a < Modulus PROVE a % Modulus = a
  OBVIOUS
<1>1. Modulus \in Nat \ {0}
  BY ConstantsOK
<1>2. QED
  BY <1>1, SMT

\* What is below 0 by at most the modulus wraps once.
LEMMA WrapBelow == \A a \in Int : -Modulus <= a /\ a < 0 => a % Modulus = a + Modulus
<1> SUFFICES ASSUME NEW a \in Int, -Modulus <= a, a < 0 PROVE a % Modulus = a + Modulus
  OBVIOUS
<1>1. Modulus \in Nat \ {0}
  BY ConstantsOK
<1>2. QED
  BY <1>1, SMT

\* fetch_add: the counter that reaches the modulus starts again.
LEMMA WrapAdd ==
    \A a \in Counter : (a + 1) % Modulus = IF a = Modulus - 1 THEN 0 ELSE a + 1
<1> SUFFICES ASSUME NEW a \in Counter
             PROVE  (a + 1) % Modulus = IF a = Modulus - 1 THEN 0 ELSE a + 1
  OBVIOUS
<1>1. Modulus \in Nat \ {0}
  BY ConstantsOK
<1>2. CASE a = Modulus - 1
  <2>1. Modulus % Modulus = 0
    BY <1>1, SMT
  <2>2. QED
    BY <1>1, <1>2, <2>1
<1>3. CASE a # Modulus - 1
  BY <1>1, <1>3, NoWrap DEF Counter
<1>4. QED
  BY <1>2, <1>3

\* How far a counter is ahead of another.
LEMMA WrapMinus ==
    \A a, b \in Counter : (a - b) % Modulus = IF a >= b THEN a - b ELSE a - b + Modulus
<1> SUFFICES ASSUME NEW a \in Counter, NEW b \in Counter
             PROVE  (a - b) % Modulus = IF a >= b THEN a - b ELSE a - b + Modulus
  OBVIOUS
<1>1. Modulus \in Nat \ {0}
  BY ConstantsOK
<1>2. QED
  BY <1>1, NoWrap, WrapBelow DEF Counter
-----------------------------------------------------------------------------
(* The window between owner and next.  TicketsInWindow says which tickets   *)
(* there are; that Unlock serves nobody else's ticket needs that no two     *)
(* threads have the same.                                                  *)

OneEach == \A t, u \in Active : Turns(t) = Turns(u) => t = u

IInv == TypeOK /\ TicketsInWindow /\ OneEach

\* Nobody asks twice at the same time, so tickets do not run out.
LEMMA ActiveFinite == IsFiniteSet(Active) /\ Cardinality(Active) \in Nat /\ Active \subseteq Thread
BY ConstantsOK, FS_Subset, FS_CardinalityType DEF Active

\* The same after a step.
LEMMA ActiveFiniteNext ==
    IsFiniteSet(Active') /\ Cardinality(Active') \in Nat /\ Active' \subseteq Thread
BY ConstantsOK, FS_Subset, FS_CardinalityType DEF Active

\* A thread more still has a ticket of its own.
LEMMA RoomForAll ==
    ASSUME NEW t \in Thread, t \notin Active
    PROVE  /\ Cardinality(Active \cup {t}) = Cardinality(Active) + 1
           /\ Cardinality(Active) + 1 < Modulus
<1>1. Cardinality(Active \cup {t}) = Cardinality(Active) + 1
  BY ActiveFinite, FS_AddElement
<1>2. Cardinality(Active \cup {t}) <= Cardinality(Thread) /\ Cardinality(Thread) \in Nat
  BY ConstantsOK, ActiveFinite, FS_Subset, FS_CardinalityType
<1>3. QED
  BY <1>1, <1>2, ActiveFinite, ConstantsOK

\* The lock is free and no ticket is drawn.
LEMMA IInit == Init => IInv
<1> SUFFICES ASSUME Init PROVE IInv
  OBVIOUS
<1>1. Modulus \in Nat \ {0}
  BY ConstantsOK
<1>2. TypeOK
  BY <1>1 DEF Init, TypeOK, Counter
<1>3. Active = {} /\ \A t \in Thread : pc[t] # "held"
  BY DEF Init, Active
<1>4. Cardinality(Active) = 0
  BY <1>3, FS_EmptySet
<1>5. (next - owner) % Modulus = 0
  BY <1>1, NoWrap DEF Init
<1>6. {Turns(t) : t \in Active} = 0 .. Cardinality(Active) - 1
  BY <1>3, <1>4
<1>7. QED
  BY <1>2, <1>3, <1>4, <1>5, <1>6 DEF IInv, TicketsInWindow, OneEach

\* A ticket is drawn, by lock or by a try_lock that succeeds: the thread comes
\* after all the others.
LEMMA TicketDrawn ==
    ASSUME IInv, NEW t \in Thread, t \notin Active,
           next' = (next + 1) % Modulus, owner' = owner, ticket'[t] = next,
           \A u \in Thread : u # t => ticket'[u] = ticket[u],
           Active' = Active \cup {t}
    PROVE  /\ Cardinality(Active') = (next' - owner') % Modulus
           /\ {Turns(u)' : u \in Active'} = 0 .. Cardinality(Active') - 1
           /\ OneEach'
           /\ \A u \in Active : Turns(u)' = Turns(u)
           /\ Turns(t)' = Cardinality(Active)
<1> DEFINE n == Cardinality(Active)
<1>1. next \in Counter /\ owner \in Counter /\ Modulus \in Nat \ {0}
  BY ConstantsOK DEF IInv, TypeOK
<1>2. /\ n \in Nat /\ Cardinality(Active') = n + 1 /\ n + 1 < Modulus
      /\ n = (next - owner) % Modulus
  BY RoomForAll, ActiveFinite DEF IInv, TicketsInWindow
<1>3. (next' - owner') % Modulus = n + 1
  <2>1. next' = (IF next = Modulus - 1 THEN 0 ELSE next + 1) /\ next' \in Counter
    BY <1>1, WrapAdd DEF Counter
  <2>2. n = IF next >= owner THEN next - owner ELSE next - owner + Modulus
    BY <1>1, <1>2, WrapMinus
  <2>3. (next' - owner') % Modulus
            = IF next' >= owner THEN next' - owner ELSE next' - owner + Modulus
    BY <1>1, <2>1, WrapMinus
  <2> HIDE DEF n
  <2>4. QED
    BY <1>1, <1>2, <2>1, <2>2, <2>3 DEF Counter
<1>4. \A u \in Active : Turns(u)' = Turns(u)
  BY ActiveFinite DEF Turns
<1>5. Turns(t)' = n
  BY <1>2 DEF Turns
<1> HIDE DEF n
<1>6. \A u \in Active : Turns(u) \in 0 .. n - 1
  BY DEF IInv, TicketsInWindow, n
<1>7. \A k \in 0 .. n - 1 : \E u \in Active : Turns(u) = k
  BY DEF IInv, TicketsInWindow, n
<1>8. {Turns(u)' : u \in Active'} = 0 .. n
  <2>1. \A u \in Active' : Turns(u)' \in 0 .. n
    BY <1>2, <1>4, <1>5, <1>6
  <2>2. ASSUME NEW k \in 0 .. n PROVE \E u \in Active' : Turns(u)' = k
    <3>1. CASE k = n
      BY <1>5, <3>1
    <3>2. CASE k # n
      <4>1. k \in 0 .. n - 1
        BY <1>2, <3>2
      <4>2. QED
        BY <1>4, <1>7, <4>1
    <3>3. QED
      BY <3>1, <3>2
  <2>3. QED
    BY <2>1, <2>2
<1>9. OneEach'
  <2>1. ASSUME NEW u \in Active', NEW v \in Active', Turns(u)' = Turns(v)'
        PROVE  u = v
    <3>1. \A w \in Active : Turns(w)' # n
      BY <1>2, <1>4, <1>6
    <3>2. CASE u = t \/ v = t
      BY <1>5, <2>1, <3>1, <3>2
    <3>3. CASE u # t /\ v # t
      BY <1>4, <2>1, <3>3 DEF IInv, OneEach
    <3>4. QED
      BY <3>2, <3>3
  <2>2. QED
    BY <2>1 DEF OneEach
<1>10. Cardinality(Active') - 1 = n
  BY <1>2
<1>11. QED
  BY <1>2, <1>3, <1>4, <1>5, <1>8, <1>9, <1>10 DEF n

\* A step that moves threads among the places with a ticket.
LEMMA SameWindow ==
    ASSUME IInv, next' = next, owner' = owner, Active' = Active,
           \A u \in Active : ticket'[u] = ticket[u]
    PROVE  /\ Cardinality(Active') = (next' - owner') % Modulus
           /\ {Turns(u)' : u \in Active'} = 0 .. Cardinality(Active') - 1
           /\ OneEach'
           /\ \A u \in Active : Turns(u)' = Turns(u)
<1>1. \A u \in Active : Turns(u)' = Turns(u)
  BY DEF Turns
<1>2. {Turns(u)' : u \in Active'} = {Turns(u) : u \in Active}
  BY <1>1
<1>3. QED
  BY <1>1, <1>2 DEF IInv, TicketsInWindow, OneEach

\* The drop of the guard: the ticket served was the thread's own, and all the
\* others come one turn nearer.
LEMMA TicketServed ==
    ASSUME IInv, NEW t \in Thread, pc[t] = "held",
           next' = next, owner' = (owner + 1) % Modulus, ticket' = ticket,
           Active' = Active \ {t}
    PROVE  /\ Cardinality(Active') = (next' - owner') % Modulus
           /\ {Turns(u)' : u \in Active'} = 0 .. Cardinality(Active') - 1
           /\ OneEach'
           /\ \A u \in Active' : Turns(u)' = Turns(u) - 1
<1> DEFINE n == Cardinality(Active)
<1>1. /\ next \in Counter /\ owner \in Counter /\ Modulus \in Nat \ {0}
      /\ \A u \in Thread : ticket[u] \in Counter
  BY ConstantsOK DEF IInv, TypeOK
<1>2. t \in Active /\ Turns(t) = 0
  BY DEF Active, IInv, TicketsInWindow
<1>3. n \in Nat /\ Cardinality(Active') = n - 1 /\ n = (next - owner) % Modulus
  BY <1>2, ActiveFinite, FS_RemoveElement DEF IInv, TicketsInWindow
<1> HIDE DEF n
<1>4. \A u \in Active : Turns(u) \in 0 .. n - 1
  BY DEF IInv, TicketsInWindow, n
<1>5. \A k \in 0 .. n - 1 : \E u \in Active : Turns(u) = k
  BY DEF IInv, TicketsInWindow, n
<1>6. n >= 1
  BY <1>2, <1>3, <1>4
<1>7. owner' = (IF owner = Modulus - 1 THEN 0 ELSE owner + 1) /\ owner' \in Counter
  BY <1>1, WrapAdd DEF Counter
<1>8. \A c \in Counter : (c - owner) % Modulus >= 1 =>
            (c - owner') % Modulus = ((c - owner) % Modulus) - 1
  <2> SUFFICES ASSUME NEW c \in Counter, (c - owner) % Modulus >= 1
               PROVE  (c - owner') % Modulus = ((c - owner) % Modulus) - 1
    OBVIOUS
  <2>1. (c - owner) % Modulus = IF c >= owner THEN c - owner ELSE c - owner + Modulus
    BY <1>1, WrapMinus
  <2>2. (c - owner') % Modulus = IF c >= owner' THEN c - owner' ELSE c - owner' + Modulus
    BY <1>7, WrapMinus
  <2>3. QED
    BY <1>1, <1>7, <2>1, <2>2 DEF Counter
<1>9. (next' - owner') % Modulus = n - 1
  BY <1>1, <1>3, <1>6, <1>8
<1>10. \A u \in Active' : Turns(u) >= 1
  <2>1. \A u \in Active' : Turns(u) # 0 /\ Turns(u) \in 0 .. n - 1
    BY <1>2, <1>4 DEF IInv, OneEach
  <2>2. QED
    BY <1>3, <2>1
<1>11. \A u \in Active' : Turns(u)' = Turns(u) - 1
  BY <1>1, <1>8, <1>10, ActiveFinite DEF Turns
<1>12. {Turns(u)' : u \in Active'} = 0 .. n - 2
  <2>1. ASSUME NEW u \in Active' PROVE Turns(u)' \in 0 .. n - 2
    BY <1>3, <1>4, <1>10, <1>11
  <2>2. ASSUME NEW k \in 0 .. n - 2 PROVE \E u \in Active' : Turns(u)' = k
    <3>1. k + 1 \in 0 .. n - 1 /\ k + 1 # 0 /\ k = (k + 1) - 1
      BY <1>3
    <3>2. PICK u \in Active : Turns(u) = k + 1
      BY <1>5, <3>1
    <3>3. u \in Active'
      BY <1>2, <3>1, <3>2
    <3>4. QED
      BY <1>11, <3>1, <3>2, <3>3
  <2>3. QED
    BY <2>1, <2>2
<1>13. OneEach'
  <2>1. ASSUME NEW u \in Active', NEW v \in Active', Turns(u)' = Turns(v)'
        PROVE  u = v
    <3>1. Turns(u) = Turns(v)
      <4>1. Turns(u) \in 0 .. n - 1 /\ Turns(v) \in 0 .. n - 1
        BY <1>4
      <4>2. QED
        BY <1>3, <1>11, <2>1, <4>1
    <3>2. QED
      BY <3>1 DEF IInv, OneEach
  <2>2. QED
    BY <2>1 DEF OneEach
<1>14. (n - 1) - 1 = n - 2
  BY <1>3
<1>15. QED
  BY <1>3, <1>9, <1>11, <1>12, <1>13, <1>14

\* The ticket that is served has no turn before it.
LEMMA ServedNow == \A t \in Thread : ticket[t] = owner /\ owner \in Counter => Turns(t) = 0
<1>1. Modulus \in Nat \ {0}
  BY ConstantsOK
<1>2. QED
  BY <1>1, WrapMinus DEF Turns, Counter

\* Counters stay counters.
LEMMA CounterType == \A a \in Counter : (a + 1) % Modulus \in Counter
<1>1. Modulus \in Nat \ {0}
  BY ConstantsOK
<1>2. QED
  BY <1>1, WrapAdd DEF Counter

-----------------------------------------------------------------------------
(* The steps.                                                              *)

\* Every step keeps the types.
LEMMA TypeStep == TypeOK /\ [Next]_vars => TypeOK'
<1> SUFFICES ASSUME TypeOK, [Next]_vars PROVE TypeOK'
  OBVIOUS
<1>1. (next + 1) % Modulus \in Counter /\ (owner + 1) % Modulus \in Counter
  BY CounterType DEF TypeOK
<1>2. CASE UNCHANGED vars
  BY <1>2 DEF vars, TypeOK
<1>3. ASSUME NEW t \in Thread, Draw(t) \/ TryLoad(t) PROVE TypeOK'
  BY <1>1, <1>3 DEF Draw, TryLoad, TypeOK
<1>4. ASSUME NEW t \in Thread, Go(t) PROVE TypeOK'
  BY <1>1, <1>4 DEF Go, Check, Acquire, TrySwap, Unlock, TypeOK
<1>5. QED
  BY <1>2, <1>3, <1>4 DEF Next

\* lock draws a ticket: the thread waits behind all the others.
LEMMA DrawStep == \A t \in Thread : IInv /\ Draw(t) => TicketsInWindow' /\ OneEach'
<1> SUFFICES ASSUME NEW t \in Thread, IInv, Draw(t) PROVE TicketsInWindow' /\ OneEach'
  OBVIOUS
<1>1. /\ pc[t] = "idle" /\ pc' = [pc EXCEPT ![t] = "check"]
      /\ next' = (next + 1) % Modulus /\ owner' = owner
      /\ ticket' = [ticket EXCEPT ![t] = next]
  BY DEF Draw
<1>2. t \notin Active /\ Active' = Active \cup {t}
  BY <1>1 DEF Active, IInv, TypeOK
<1>3. ticket'[t] = next /\ \A u \in Thread : u # t => ticket'[u] = ticket[u]
  BY <1>1 DEF IInv, TypeOK
<1>4. /\ Cardinality(Active') = (next' - owner') % Modulus
      /\ {Turns(u)' : u \in Active'} = 0 .. Cardinality(Active') - 1
      /\ OneEach'
      /\ \A u \in Active : Turns(u)' = Turns(u)
  BY <1>1, <1>2, <1>3, TicketDrawn
<1>5. \A u \in Thread : pc'[u] = "held" => Turns(u)' = 0
  <2>1. \A u \in Thread : pc'[u] = "held" => u \in Active /\ pc[u] = "held"
    BY <1>1 DEF Active, IInv, TypeOK
  <2>2. QED
    BY <1>4, <2>1 DEF IInv, TicketsInWindow
<1>6. QED
  BY <1>4, <1>5 DEF TicketsInWindow

\* lock sees that its ticket is served, or waits; try_lock looks, or fails.
LEMMA LookStep ==
    \A t \in Thread :
        IInv /\ (Check(t) \/ Acquire(t) \/ TryLoad(t)) => TicketsInWindow' /\ OneEach'
<1> SUFFICES ASSUME NEW t \in Thread, IInv, Check(t) \/ Acquire(t) \/ TryLoad(t)
             PROVE  TicketsInWindow' /\ OneEach'
  OBVIOUS
<1>1. next' = next /\ owner' = owner
  BY DEF Check, Acquire, TryLoad
<1>2. Active' = Active
  BY DEF Check, Acquire, TryLoad, Active, IInv, TypeOK
<1>3. \A u \in Active : ticket'[u] = ticket[u]
  BY DEF Check, Acquire, TryLoad, Active, IInv, TypeOK
<1>4. /\ Cardinality(Active') = (next' - owner') % Modulus
      /\ {Turns(u)' : u \in Active'} = 0 .. Cardinality(Active') - 1
      /\ OneEach'
      /\ \A u \in Active : Turns(u)' = Turns(u)
  BY <1>1, <1>2, <1>3, SameWindow
<1>5. ASSUME NEW u \in Thread, pc'[u] = "held" PROVE Turns(u)' = 0
  <2>1. u \in Active /\ (pc[u] = "held" \/ ticket[u] = owner)
    BY <1>5 DEF Check, Acquire, TryLoad, Active, IInv, TypeOK
  <2>2. Turns(u) = 0
    BY <2>1, ServedNow DEF IInv, TicketsInWindow, TypeOK
  <2>3. QED
    BY <1>4, <2>1, <2>2
<1>6. QED
  BY <1>4, <1>5 DEF TicketsInWindow

\* try_lock succeeds only when the next ticket is the one served: nobody else
\* has one.
LEMMA TrySwapStep == \A t \in Thread : IInv /\ TrySwap(t) => TicketsInWindow' /\ OneEach'
<1> SUFFICES ASSUME NEW t \in Thread, IInv, TrySwap(t) PROVE TicketsInWindow' /\ OneEach'
  OBVIOUS
<1>0. /\ pc[t] = "try" /\ owner' = owner /\ ticket' = ticket /\ t \notin Active
      /\ next \in Counter /\ owner \in Counter /\ Modulus \in Nat \ {0}
  BY ConstantsOK DEF TrySwap, Active, IInv, TypeOK
<1>1. CASE owner = ticket[t] /\ next = ticket[t]
  <2>1. next' = (next + 1) % Modulus /\ pc' = [pc EXCEPT ![t] = "held"]
    BY <1>1 DEF TrySwap
  <2>2. Active' = Active \cup {t}
    BY <2>1 DEF Active, IInv, TypeOK
  <2>3. /\ Cardinality(Active') = (next' - owner') % Modulus
        /\ {Turns(u)' : u \in Active'} = 0 .. Cardinality(Active') - 1
        /\ OneEach'
        /\ Turns(t)' = Cardinality(Active)
    BY <1>0, <1>1, <2>1, <2>2, TicketDrawn
  <2>4. Active = {}
    <3>1. Cardinality(Active) = 0
      BY <1>0, <1>1, WrapMinus DEF IInv, TicketsInWindow, Counter
    <3>2. QED
      BY <3>1, ActiveFinite, FS_EmptySet
  <2>5. \A u \in Thread : pc'[u] = "held" => u = t
    BY <2>1, <2>4 DEF Active, IInv, TypeOK
  <2>6. Turns(t)' = 0
    BY <2>3, <2>4, FS_EmptySet
  <2>7. QED
    BY <2>3, <2>5, <2>6 DEF TicketsInWindow
<1>2. CASE ~(owner = ticket[t] /\ next = ticket[t])
  <2>1. pc' = [pc EXCEPT ![t] = "idle"] /\ next' = next
    BY <1>2 DEF TrySwap
  <2>2. Active' = Active
    BY <1>0, <2>1 DEF Active, IInv, TypeOK
  <2>3. /\ Cardinality(Active') = (next' - owner') % Modulus
        /\ {Turns(u)' : u \in Active'} = 0 .. Cardinality(Active') - 1
        /\ OneEach'
        /\ \A u \in Active : Turns(u)' = Turns(u)
    BY <1>0, <2>1, <2>2, SameWindow
  <2>4. \A u \in Thread : pc'[u] = "held" => u \in Active /\ pc[u] = "held"
    BY <2>1 DEF Active, IInv, TypeOK
  <2>5. QED
    BY <2>3, <2>4 DEF IInv, TicketsInWindow
<1>3. QED
  BY <1>1, <1>2

\* The guard is dropped: nobody holds the lock until the next ticket is seen.
LEMMA UnlockStep == \A t \in Thread : IInv /\ Unlock(t) => TicketsInWindow' /\ OneEach'
<1> SUFFICES ASSUME NEW t \in Thread, IInv, Unlock(t) PROVE TicketsInWindow' /\ OneEach'
  OBVIOUS
<1>1. /\ pc[t] = "held" /\ pc' = [pc EXCEPT ![t] = "idle"]
      /\ next' = next /\ owner' = (owner + 1) % Modulus /\ ticket' = ticket
  BY DEF Unlock
<1>2. t \in Active /\ Active' = Active \ {t}
  BY <1>1 DEF Active, IInv, TypeOK
<1>3. /\ Cardinality(Active') = (next' - owner') % Modulus
      /\ {Turns(u)' : u \in Active'} = 0 .. Cardinality(Active') - 1
      /\ OneEach'
  BY <1>1, <1>2, TicketServed
<1>4. \A u \in Thread : pc'[u] # "held"
  <2>1. ASSUME NEW u \in Thread, pc'[u] = "held" PROVE FALSE
    <3>1. pc[u] = "held" /\ u # t /\ u \in Active
      BY <1>1, <2>1 DEF Active, IInv, TypeOK
    <3>2. Turns(u) = 0 /\ Turns(t) = 0
      BY <1>1, <3>1 DEF IInv, TicketsInWindow
    <3>3. QED
      BY <1>2, <3>1, <3>2 DEF IInv, OneEach
  <2>2. QED
    BY <2>1
<1>5. QED
  BY <1>3, <1>4 DEF TicketsInWindow

\* Every step keeps the window.
LEMMA IStep == IInv /\ [Next]_vars => IInv'
<1> SUFFICES ASSUME IInv, [Next]_vars PROVE IInv'
  OBVIOUS
<1>1. TypeOK'
  BY TypeStep DEF IInv
<1>2. CASE UNCHANGED vars
  <2>1. Active' = Active /\ \A u \in Thread : Turns(u)' = Turns(u)
    BY <1>2 DEF vars, Active, Turns
  <2>2. \A u \in Active : ticket'[u] = ticket[u]
    BY <1>2 DEF vars
  <2>3. next' = next /\ owner' = owner /\ pc' = pc
    BY <1>2 DEF vars
  <2>4. TicketsInWindow' /\ OneEach'
    BY <2>1, <2>2, <2>3, SameWindow DEF IInv, TicketsInWindow
  <2>5. QED
    BY <1>1, <2>4 DEF IInv
<1>3. ASSUME NEW t \in Thread, Draw(t) \/ TryLoad(t) \/ Go(t) PROVE IInv'
  BY <1>1, <1>3, DrawStep, LookStep, TrySwapStep, UnlockStep DEF Go, IInv
<1>4. QED
  BY <1>2, <1>3 DEF Next

-----------------------------------------------------------------------------

\* Counters, tickets and calls always have their types, for any width of the
\* counters.
THEOREM TypeCorrect == Spec => []TypeOK
<1>1. IInv => TypeOK
  BY DEF IInv
<1>2. QED
  BY <1>1, IInit, IStep, PTL DEF Spec

\* For any number of threads below the number of tickets, the tickets drawn and
\* not yet served are those from owner to next, one for each thread that holds
\* the lock or waits, however often the counters have wrapped.
THEOREM WindowHolds == Spec => []TicketsInWindow
<1>1. IInv => TicketsInWindow
  BY DEF IInv
<1>2. QED
  BY <1>1, IInit, IStep, PTL DEF Spec

\* The lock excludes: two threads that hold it would have the same ticket.
THEOREM MutualExclusion ==
    Spec => [](\A t, u \in Thread : pc[t] = "held" /\ pc[u] = "held" => t = u)
<1>1. IInv => \A t, u \in Thread : pc[t] = "held" /\ pc[u] = "held" => t = u
  BY DEF IInv, TicketsInWindow, OneEach, Active
<1>2. QED
  BY <1>1, IInit, IStep, PTL DEF Spec
-----------------------------------------------------------------------------
(* The two counters implement the queue of FairLock.                       *)

\* Numbers between others, as the proof below needs them.
LEMMA Between ==
    /\ \A a, b, n \in Nat : (a < b \/ b = a) /\ b <= n - 1 => b \in a .. n - 1
    /\ \A a, b \in Nat : (b < a \/ b = a) => b \in 0 .. a
    /\ \A n, i \in Nat : \A j, k \in 1 .. i : i <= n /\ j # k =>
            j \in 1 .. n /\ k \in 1 .. n /\ (j < k \/ k < j)
    /\ \A n, i \in Nat : \A j, k \in i .. n : 1 <= i /\ j # k =>
            j \in 1 .. n /\ k \in 1 .. n /\ (j < k \/ k < j)
    /\ \A n, i \in Nat : \A j \in 1 .. i : i <= n => j \in 1 .. n /\ (j < i \/ j = i)
    /\ \A n, i \in Nat : \A j \in i .. n : 1 <= i => j \in 1 .. n /\ (i < j \/ j = i)
  OBVIOUS

\* An increasing sequence of the turns 0 .. n - 1, one for each place, has the
\* turn i - 1 at place i: there are no more turns below it, nor above it.
LEMMA IncreasingTurns ==
    ASSUME NEW n \in Nat, NEW h \in [1 .. n -> 0 .. n - 1],
           \A i, j \in 1 .. n : i < j => h[i] < h[j],
           NEW i \in 1 .. n
    PROVE  h[i] = i - 1
<1>0. \A j \in 1 .. n : h[j] \in Nat /\ h[j] <= n - 1
  OBVIOUS
<1>1. i \in Nat /\ h[i] \in Nat /\ 1 <= i /\ i <= n /\ h[i] <= n - 1
  BY <1>0
<1>2. i <= h[i] + 1
  <2> SUFFICES ASSUME h[i] + 1 < i PROVE FALSE
    BY <1>1
  <2> DEFINE below == [j \in 1 .. i |-> h[j]]
  <2>1. below \in [1 .. i -> 0 .. h[i]]
    <3>1. ASSUME NEW j \in 1 .. i PROVE h[j] \in 0 .. h[i]
      <4>1. j \in 1 .. n /\ (j < i \/ j = i)
        BY <1>1, Between, Zenon
      <4>2. h[j] < h[i] \/ h[j] = h[i]
        BY <4>1, Zenon
      <4>3. h[j] \in Nat /\ h[i] \in Nat
        BY <1>0, <4>1
      <4>4. QED
        BY <4>2, <4>3, Between, Zenon
    <3>2. QED
      BY <3>1
  <2>2. /\ IsFiniteSet(1 .. i) /\ Cardinality(1 .. i) = i
        /\ IsFiniteSet(0 .. h[i]) /\ Cardinality(0 .. h[i]) = h[i] + 1
    BY <1>1, FS_Interval
  <2>3. Cardinality(0 .. h[i]) < Cardinality(1 .. i)
    BY <2>2
  <2>4. PICK j, k \in 1 .. i : j # k /\ below[j] = below[k]
    <3> HIDE DEF below
    <3>1. QED
      BY <2>1, <2>2, <2>3, FS_PigeonHole
  <2>5. h[j] = h[k]
    <3>1. below[j] = h[j] /\ below[k] = h[k]
      BY Zenon
    <3> HIDE DEF below
    <3>2. QED
      BY <2>4, <3>1, Zenon
  <2> HIDE DEF below
  <2>6. j \in 1 .. n /\ k \in 1 .. n /\ (j < k \/ k < j)
    BY <1>1, <2>4, Between, Zenon
  <2>7. h[j] < h[k] \/ h[k] < h[j]
    BY <2>6
  <2>8. QED
    BY <1>0, <2>5, <2>6, <2>7
<1>3. h[i] <= i - 1
  <2> SUFFICES ASSUME i - 1 < h[i] PROVE FALSE
    BY <1>1
  <2> DEFINE above == [j \in i .. n |-> h[j]]
  <2>1. above \in [i .. n -> h[i] .. n - 1]
    <3>1. ASSUME NEW j \in i .. n PROVE h[j] \in h[i] .. n - 1
      <4>1. j \in 1 .. n /\ (i < j \/ j = i)
        BY <1>1, Between, Zenon
      <4>2. h[i] < h[j] \/ h[j] = h[i]
        BY <4>1, Zenon
      <4>3. h[j] \in Nat /\ h[j] <= n - 1
        BY <1>0, <4>1
      <4>4. QED
        BY <1>1, <4>2, <4>3, Between, Zenon
    <3>2. QED
      BY <3>1
  <2>2. /\ IsFiniteSet(i .. n) /\ Cardinality(i .. n) = n - i + 1
        /\ IsFiniteSet(h[i] .. n - 1) /\ Cardinality(h[i] .. n - 1) = (n - 1) - h[i] + 1
    <3>1. n - 1 \in Int /\ h[i] \in Int /\ ~(i > n) /\ ~(h[i] > n - 1)
      BY <1>1
    <3>2. IsFiniteSet(i .. n) /\ Cardinality(i .. n) = n - i + 1
      BY <1>1, <3>1, FS_Interval
    <3>3. IsFiniteSet(h[i] .. n - 1) /\ Cardinality(h[i] .. n - 1) = (n - 1) - h[i] + 1
      BY <3>1, FS_Interval
    <3>4. QED
      BY <3>2, <3>3
  <2>3. Cardinality(h[i] .. n - 1) < Cardinality(i .. n)
    BY <1>1, <2>2
  <2>4. PICK j, k \in i .. n : j # k /\ above[j] = above[k]
    <3> HIDE DEF above
    <3>1. QED
      BY <2>1, <2>2, <2>3, FS_PigeonHole
  <2>5. h[j] = h[k]
    <3>1. above[j] = h[j] /\ above[k] = h[k]
      BY Zenon
    <3> HIDE DEF above
    <3>2. QED
      BY <2>4, <3>1, Zenon
  <2> HIDE DEF above
  <2>6. j \in 1 .. n /\ k \in 1 .. n /\ (j < k \/ k < j)
    BY <1>1, <2>4, Between, Zenon
  <2>7. h[j] < h[k] \/ h[k] < h[j]
    BY <2>6
  <2>8. QED
    BY <1>0, <2>5, <2>6, <2>7
<1>4. QED
  BY <1>1, <1>2, <1>3

\* The queue has each thread at the place its turn gives it.
LEMMA QueueIs ==
    IInv => /\ Queue \in [1 .. Cardinality(Active) -> Active]
            /\ \A i \in 1 .. Cardinality(Active) : Turns(Queue[i]) = i - 1
<1> SUFFICES ASSUME IInv
             PROVE  /\ Queue \in [1 .. Cardinality(Active) -> Active]
                    /\ \A i \in 1 .. Cardinality(Active) : Turns(Queue[i]) = i - 1
  OBVIOUS
<1> DEFINE n == Cardinality(Active)
           Sorted(q) == \A i, j \in DOMAIN q : i < j => Turns(q[i]) < Turns(q[j])
           place == [i \in 1 .. n |-> CHOOSE t \in Active : Turns(t) = i - 1]
<1>1. n \in Nat
  BY ActiveFinite
<1>2. {Turns(t) : t \in Active} = 0 .. n - 1
  BY DEF IInv, TicketsInWindow
<1>3. Queue = CHOOSE q \in [1 .. n -> Active] : Sorted(q)
  BY DEF Queue
<1> HIDE DEF n
<1>4. \A i \in 1 .. n : place[i] \in Active /\ Turns(place[i]) = i - 1
  <2>1. ASSUME NEW i \in 1 .. n PROVE \E t \in Active : Turns(t) = i - 1
    <3>1. i - 1 \in 0 .. n - 1
      BY <1>1
    <3>2. QED
      BY <1>2, <3>1
  <2>2. QED
    BY <2>1
<1>5. place \in [1 .. n -> Active] /\ Sorted(place)
  <2>1. place \in [1 .. n -> Active]
    BY <1>4
  <2>2. DOMAIN place = 1 .. n
    OBVIOUS
  <2> HIDE DEF place
  <2>3. QED
    BY <1>1, <1>4, <2>1, <2>2
<1>6. Queue \in [1 .. n -> Active] /\ Sorted(Queue)
  <2> HIDE DEF Sorted, place
  <2>1. QED
    BY <1>3, <1>5
<1>7. \A i \in 1 .. n : Turns(Queue[i]) = i - 1
  <2> DEFINE h == [i \in 1 .. n |-> Turns(Queue[i])]
  <2>1. h \in [1 .. n -> 0 .. n - 1]
    BY <1>2, <1>6
  <2>2. \A i, j \in 1 .. n : i < j => h[i] < h[j]
    BY <1>6
  <2>3. \A i \in 1 .. n : h[i] = i - 1
    <3> HIDE DEF h
    <3>1. QED
      BY <1>1, <2>1, <2>2, IncreasingTurns
  <2>4. QED
    BY <2>3
<1>8. QED
  BY <1>6, <1>7 DEF n

\* The queue before and after a step.
LEMMA QueueStep ==
    ASSUME IInv, IInv'
    PROVE  /\ Queue \in Seq(Thread) /\ Len(Queue) = Cardinality(Active)
           /\ Queue \in [1 .. Cardinality(Active) -> Active]
           /\ \A i \in 1 .. Cardinality(Active) : Turns(Queue[i]) = i - 1
           /\ Queue' \in Seq(Thread) /\ Len(Queue') = Cardinality(Active')
           /\ Queue' \in [1 .. Cardinality(Active') -> Active']
           /\ \A i \in 1 .. Cardinality(Active') : Turns(Queue[i])' = i - 1
<1>1. /\ Queue \in [1 .. Cardinality(Active) -> Active]
      /\ \A i \in 1 .. Cardinality(Active) : Turns(Queue[i]) = i - 1
  BY QueueIs
<1>2. (IInv => /\ Queue \in [1 .. Cardinality(Active) -> Active]
               /\ \A i \in 1 .. Cardinality(Active) : Turns(Queue[i]) = i - 1)'
  BY QueueIs, PTL
<1>3. /\ Queue' \in [1 .. Cardinality(Active') -> Active']
      /\ \A i \in 1 .. Cardinality(Active') : Turns(Queue[i])' = i - 1
  BY <1>2
<1>4. \A q, n, S : n \in Nat /\ S \subseteq Thread /\ q \in [1 .. n -> S]
                        => q \in Seq(Thread) /\ Len(q) = n
  <2> SUFFICES ASSUME NEW q, NEW n \in Nat, NEW S \in SUBSET Thread, q \in [1 .. n -> S]
               PROVE  q \in Seq(Thread) /\ Len(q) = n
    OBVIOUS
  <2>1. q \in [1 .. n -> Thread]
    OBVIOUS
  <2>2. QED
    BY <2>1
<1>5. QED
  BY <1>1, <1>3, <1>4, ActiveFinite, ActiveFiniteNext

\* Some thread holds the lock.
Held == \E t \in Thread : pc[t] = "held"

FairStep == [Fair!Next]_(Fair!vars)

\* The thread that holds the lock is the only one, and has no turn before it.
LEMMA HeldFirst ==
    ASSUME IInv, NEW t \in Thread, pc[t] \in {"check", "wait", "held"}, owner = ticket[t]
    PROVE  /\ t \in Active /\ Turns(t) = 0
           /\ \A u \in Thread : pc[u] = "held" => u = t
<1>1. t \in Active /\ Turns(t) = 0
  BY ServedNow DEF Active, IInv, TypeOK
<1>2. ASSUME NEW u \in Thread, pc[u] = "held" PROVE u = t
  <2>1. u \in Active /\ Turns(u) = 0
    BY <1>2 DEF Active, IInv, TicketsInWindow
  <2>2. QED
    BY <1>1, <2>1 DEF IInv, OneEach
<1>3. QED
  BY <1>1, <1>2

\* When the same threads have the same turns, the queue is the same.
LEMMA SameQueue ==
    ASSUME IInv, IInv', Active' = Active, \A u \in Active : Turns(u)' = Turns(u)
    PROVE  Queue' = Queue
<1> DEFINE n == Cardinality(Active)
<1>1. /\ Queue \in [1 .. n -> Active] /\ Queue' \in [1 .. n -> Active]
      /\ \A i \in 1 .. n : Turns(Queue[i]) = i - 1
      /\ \A i \in 1 .. n : Turns(Queue[i])' = i - 1
  BY QueueStep
<1> HIDE DEF n
<1>2. \A i \in 1 .. n : Turns(Queue'[i]) = i - 1
  <2>1. ASSUME NEW i \in 1 .. n PROVE Turns(Queue'[i]) = i - 1
    <3>1. PICK u \in Active : u = Queue'[i]
      BY <1>1
    <3>2. Turns(u)' = i - 1
      <4>1. Turns(Queue[i])' = i - 1
        BY <1>1
      <4>2. QED
        BY <3>1, <4>1 DEF Turns
    <3>3. QED
      BY <3>1, <3>2
  <2>2. QED
    BY <2>1
<1>3. \A i \in 1 .. n : Queue'[i] = Queue[i]
  BY <1>1, <1>2 DEF IInv, OneEach
<1>4. /\ Queue \in Seq(Thread) /\ Queue' \in Seq(Thread)
      /\ Len(Queue) = n /\ Len(Queue') = n
  BY QueueStep DEF n
<1>5. QED
  BY <1>3, <1>4, SeqEqual

\* lock: the thread comes to the end of the queue.
LEMMA DrawEnqueues ==
    \A t \in Thread : IInv /\ IInv' /\ Draw(t) => Fair!Enqueue(t)
<1> SUFFICES ASSUME NEW t \in Thread, IInv, IInv', Draw(t) PROVE Fair!Enqueue(t)
  OBVIOUS
<1> DEFINE n == Cardinality(Active)
<1>1. /\ pc[t] = "idle" /\ pc' = [pc EXCEPT ![t] = "check"]
      /\ next' = (next + 1) % Modulus /\ owner' = owner
      /\ ticket'[t] = next /\ \A u \in Thread : u # t => ticket'[u] = ticket[u]
  BY DEF Draw, IInv, TypeOK
<1>2. t \notin Active /\ Active' = Active \cup {t}
  BY <1>1 DEF Active, IInv, TypeOK
<1>3. /\ \A u \in Active : Turns(u)' = Turns(u)
      /\ Turns(t)' = n
  BY <1>1, <1>2, TicketDrawn
<1>4. n \in Nat /\ Cardinality(Active') = n + 1
  BY <1>2, ActiveFinite, RoomForAll
<1>5. /\ Queue \in Seq(Thread) /\ Len(Queue) = n /\ Queue \in [1 .. n -> Active]
      /\ \A i \in 1 .. n : Turns(Queue[i]) = i - 1
      /\ Queue' \in Seq(Thread) /\ Len(Queue') = n + 1 /\ Queue' \in [1 .. n + 1 -> Active']
      /\ \A i \in 1 .. n + 1 : Turns(Queue[i])' = i - 1
  BY <1>4, QueueStep
<1> HIDE DEF n
<1>6. \A i \in 1 .. n + 1 : Queue'[i] = IF i = n + 1 THEN t ELSE Queue[i]
  <2> SUFFICES ASSUME NEW i \in 1 .. n + 1
               PROVE  Queue'[i] = IF i = n + 1 THEN t ELSE Queue[i]
    OBVIOUS
  <2>1. PICK u \in Active' : u = Queue'[i]
    BY <1>5
  <2>2. Turns(u)' = i - 1
    <3>1. Turns(Queue[i])' = i - 1
      BY <1>5
    <3>2. QED
      BY <2>1, <3>1 DEF Turns
  <2>3. CASE i = n + 1
    <3>1. Turns(u)' = Turns(t)' /\ t \in Active'
      BY <1>2, <1>3, <1>4, <2>2, <2>3
    <3>2. u = t
      BY <3>1 DEF IInv, OneEach
    <3>3. QED
      BY <2>1, <2>3, <3>2
  <2>4. CASE i # n + 1
    <3>1. i \in 1 .. n
      BY <1>4, <2>4
    <3>2. Queue[i] \in Active /\ Turns(Queue[i]) = i - 1
      BY <1>5, <3>1
    <3>3. PICK v \in Active : v = Queue[i] /\ Turns(v) = i - 1
      BY <3>2
    <3>4. Turns(u)' = Turns(v)' /\ v \in Active'
      BY <1>2, <1>3, <2>2, <3>3
    <3>5. u = v
      BY <3>4 DEF IInv, OneEach
    <3>6. QED
      BY <2>1, <2>4, <3>3, <3>5
  <2>5. QED
    BY <2>3, <2>4
<1>7. Queue' = Append(Queue, t)
  <2>1. /\ Append(Queue, t) \in Seq(Thread) /\ Len(Append(Queue, t)) = n + 1
        /\ \A i \in 1 .. n + 1 : Append(Queue, t)[i] = IF i = n + 1 THEN t ELSE Queue[i]
    BY <1>4, <1>5
  <2>2. QED
    BY <1>5, <1>6, <2>1, SeqEqual
<1>8. Held' = Held
  BY <1>1 DEF Held, IInv, TypeOK
<1>9. QED
  BY <1>7, <1>8 DEF Fair!Enqueue, Held

\* The head of the queue sees that its ticket is served, or its caller looks
\* in vain, and the queue stays.
LEMMA LookEnters ==
    \A t \in Thread :
        IInv /\ IInv' /\ (Check(t) \/ Acquire(t) \/ TryLoad(t)) => FairStep
<1> SUFFICES ASSUME NEW t \in Thread, IInv, IInv', Check(t) \/ Acquire(t) \/ TryLoad(t)
             PROVE  FairStep
  OBVIOUS
<1>1. next' = next /\ owner' = owner
  BY DEF Check, Acquire, TryLoad
<1>2. Active' = Active
  BY DEF Check, Acquire, TryLoad, Active, IInv, TypeOK
<1>3. \A u \in Active : ticket'[u] = ticket[u]
  BY DEF Check, Acquire, TryLoad, Active, IInv, TypeOK
<1>4. \A u \in Active : Turns(u)' = Turns(u)
  BY <1>1, <1>2, <1>3, SameWindow
<1>5. Queue' = Queue
  BY <1>2, <1>4, SameQueue
<1>6. CASE pc'[t] = "held"
  <2>1. pc[t] \in {"check", "wait"} /\ owner = ticket[t] /\ pc' = [pc EXCEPT ![t] = "held"]
    BY <1>6 DEF Check, Acquire, TryLoad, IInv, TypeOK
  <2>2. t \in Active /\ ~Held
    BY <2>1, HeldFirst DEF Held
  <2>3. Held'
    BY <1>6 DEF Held
  <2>4. Queue # <<>>
    <3>1. Cardinality(Active) # 0
      BY <2>2, ActiveFinite, FS_EmptySet
    <3>2. Len(Queue) # 0
      BY <3>1, QueueStep
    <3>3. QED
      BY <3>2
  <2>5. Fair!Enter
    BY <1>5, <2>2, <2>3, <2>4 DEF Fair!Enter, Held
  <2>6. QED
    BY <2>5 DEF FairStep, Fair!Next
<1>7. CASE pc'[t] # "held"
  <2>1. Held' = Held
    BY <1>7 DEF Held, Check, Acquire, TryLoad, IInv, TypeOK
  <2>2. QED
    BY <1>5, <2>1 DEF FairStep, Fair!vars, Held
<1>8. QED
  BY <1>6, <1>7

\* try_lock succeeds only when nobody is in the queue.
LEMMA TrySwapEnters == \A t \in Thread : IInv /\ IInv' /\ TrySwap(t) => FairStep
<1> SUFFICES ASSUME NEW t \in Thread, IInv, IInv', TrySwap(t) PROVE FairStep
  OBVIOUS
<1>0. /\ pc[t] = "try" /\ owner' = owner /\ ticket' = ticket /\ t \notin Active
      /\ next \in Counter /\ owner \in Counter /\ Modulus \in Nat \ {0}
  BY ConstantsOK DEF TrySwap, Active, IInv, TypeOK
<1>1. CASE owner = ticket[t] /\ next = ticket[t]
  <2>1. pc' = [pc EXCEPT ![t] = "held"]
    BY <1>1 DEF TrySwap
  <2>2. Cardinality(Active) = 0
    BY <1>0, <1>1, WrapMinus DEF IInv, TicketsInWindow, Counter
  <2>3. Active = {} /\ Active' = {t}
    <3>1. Active = {}
      BY <2>2, ActiveFinite, FS_EmptySet
    <3>2. Active' = Active \cup {t}
      BY <2>1 DEF Active, IInv, TypeOK
    <3>3. QED
      BY <3>1, <3>2
  <2>4. Queue = <<>>
    <3>1. Queue \in Seq(Thread) /\ Len(Queue) = 0
      BY <2>2, QueueStep
    <3>2. QED
      BY <3>1, EmptySeq
  <2>5. Queue' = <<t>>
    <3>1. Cardinality(Active') = 1
      BY <2>3, FS_Singleton
    <3>2. Queue' \in Seq(Thread) /\ Len(Queue') = 1 /\ Queue' \in [1 .. 1 -> {t}]
      BY <2>3, <3>1, QueueStep
    <3>3. Queue'[1] = t
      BY <3>2
    <3>4. QED
      BY <3>2, <3>3
  <2>6. Held'
    BY <2>1 DEF Held, IInv, TypeOK
  <2>7. Fair!TryEnter(t)
    BY <2>4, <2>5, <2>6 DEF Fair!TryEnter, Held
  <2>8. QED
    BY <2>7 DEF FairStep, Fair!Next
<1>2. CASE ~(owner = ticket[t] /\ next = ticket[t])
  <2>1. pc' = [pc EXCEPT ![t] = "idle"] /\ next' = next
    BY <1>2 DEF TrySwap
  <2>2. Active' = Active
    BY <1>0, <2>1 DEF Active, IInv, TypeOK
  <2>3. \A u \in Active : Turns(u)' = Turns(u)
    BY <1>0, <2>1, <2>2, SameWindow
  <2>4. Queue' = Queue
    BY <2>2, <2>3, SameQueue
  <2>5. Held' = Held
    BY <1>0, <2>1 DEF Held, IInv, TypeOK
  <2>6. QED
    BY <2>4, <2>5 DEF FairStep, Fair!vars, Held
<1>3. QED
  BY <1>1, <1>2

\* The drop of the guard: the head leaves the queue, and every other thread
\* comes one place nearer.
LEMMA UnlockLeaves == \A t \in Thread : IInv /\ IInv' /\ Unlock(t) => Fair!Leave
<1> SUFFICES ASSUME NEW t \in Thread, IInv, IInv', Unlock(t) PROVE Fair!Leave
  OBVIOUS
<1> DEFINE n == Cardinality(Active)
<1>1. /\ pc[t] = "held" /\ pc' = [pc EXCEPT ![t] = "idle"]
      /\ next' = next /\ owner' = (owner + 1) % Modulus /\ ticket' = ticket
  BY DEF Unlock
<1>2. t \in Active /\ Active' = Active \ {t} /\ Turns(t) = 0
  BY <1>1 DEF Active, IInv, TypeOK, TicketsInWindow
<1>3. \A u \in Active' : Turns(u)' = Turns(u) - 1
  BY <1>1, <1>2, TicketServed
<1>4. n \in Nat /\ n >= 1 /\ Cardinality(Active') = n - 1
  <2>1. Cardinality(Active') = n - 1 /\ n - 1 \in Nat /\ n \in Nat
    BY <1>2, ActiveFinite, ActiveFiniteNext, FS_RemoveElement
  <2>2. QED
    BY <2>1
<1>5. /\ Queue \in Seq(Thread) /\ Len(Queue) = n /\ Queue \in [1 .. n -> Active]
      /\ \A i \in 1 .. n : Turns(Queue[i]) = i - 1
      /\ Queue' \in Seq(Thread) /\ Len(Queue') = n - 1 /\ Queue' \in [1 .. n - 1 -> Active']
      /\ \A i \in 1 .. n - 1 : Turns(Queue[i])' = i - 1
  BY <1>4, QueueStep
<1> HIDE DEF n
<1>6. ASSUME NEW i \in 1 .. n - 1
      PROVE  Queue'[i] = Queue[i + 1]
  <2>1. PICK u \in Active' : u = Queue'[i]
    BY <1>5
  <2>2. Turns(u)' = i - 1
    <3>1. Turns(Queue[i])' = i - 1
      BY <1>5
    <3>2. QED
      BY <2>1, <3>1 DEF Turns
  <2>3. i + 1 \in 1 .. n /\ (i + 1) - 1 = i
    BY <1>4
  <2>4. PICK v \in Active : v = Queue[i + 1] /\ Turns(v) = i
    BY <1>5, <2>3
  <2>5. Turns(u) = i
    <3>1. Turns(u) - 1 = i - 1
      BY <1>3, <2>2
    <3>2. Turns(u) \in Int
      <4>1. ticket[u] - owner \in Int /\ Modulus \in Nat \ {0}
        BY ConstantsOK, ActiveFiniteNext DEF IInv, TypeOK, Counter
      <4>2. QED
        BY <4>1 DEF Turns
    <3>3. QED
      BY <3>1, <3>2
  <2>6. u = v
    BY <1>2, <2>4, <2>5 DEF IInv, OneEach
  <2>7. QED
    BY <2>1, <2>4, <2>6
<1>7. Queue' = Tail(Queue)
  <2>1. Queue # <<>>
    BY <1>4, <1>5
  <2>2. /\ Tail(Queue) \in Seq(Thread) /\ Len(Tail(Queue)) = n - 1
        /\ \A i \in 1 .. n - 1 : Tail(Queue)[i] = Queue[i + 1]
    BY <1>5, <2>1, HeadTailProperties
  <2>3. QED
    BY <1>5, <1>6, <2>2, SeqEqual
<1>8. Held /\ ~Held'
  <2>1. ASSUME NEW u \in Thread, pc'[u] = "held" PROVE FALSE
    <3>1. pc[u] = "held" /\ u # t /\ u \in Active
      BY <1>1, <2>1 DEF Active, IInv, TypeOK
    <3>2. Turns(u) = 0
      BY <3>1 DEF IInv, TicketsInWindow
    <3>3. QED
      BY <1>2, <3>1, <3>2 DEF IInv, OneEach
  <2>2. QED
    BY <1>1, <2>1 DEF Held
<1>9. QED
  BY <1>7, <1>8 DEF Fair!Leave, Held

\* At first nobody is in the queue.
LEMMA FairInit == Init => Fair!Init
<1> SUFFICES ASSUME Init PROVE Fair!Init
  OBVIOUS
<1>1. Active = {} /\ ~Held
  BY DEF Init, Active, Held
<1>2. Cardinality(Active) = 0
  BY <1>1, FS_EmptySet
<1>3. Queue \in [1 .. 0 -> Active]
  BY <1>2, IInit, QueueIs
<1>4. Queue = <<>>
  BY <1>3
<1>5. QED
  BY <1>1, <1>4 DEF Fair!Init, Held

\* Every step is a step of the queue, or changes nothing there.
LEMMA EveryFairStep == IInv /\ IInv' /\ [Next]_vars => FairStep
<1> SUFFICES ASSUME IInv, IInv', [Next]_vars PROVE FairStep
  OBVIOUS
<1>1. CASE UNCHANGED vars
  <2>1. Active' = Active /\ \A u \in Thread : Turns(u)' = Turns(u)
    BY <1>1 DEF vars, Active, Turns
  <2>2. Queue' = Queue
    BY <2>1, ActiveFinite, SameQueue
  <2>3. Held' = Held
    BY <1>1 DEF vars, Held
  <2>4. QED
    BY <2>2, <2>3 DEF FairStep, Fair!vars, Held
<1>2. ASSUME NEW t \in Thread, Draw(t) \/ Unlock(t) PROVE FairStep
  <2>1. Fair!Enqueue(t) \/ Fair!Leave
    BY <1>2, DrawEnqueues, UnlockLeaves
  <2>2. QED
    BY <2>1 DEF FairStep, Fair!Next
<1>3. ASSUME NEW t \in Thread, TryLoad(t) \/ Check(t) \/ Acquire(t) \/ TrySwap(t)
      PROVE  FairStep
  BY <1>3, LookEnters, TrySwapEnters
<1>4. QED
  BY <1>1, <1>2, <1>3 DEF Next, Go

\* The lock is first come first served and excludes, and try_lock succeeds on a
\* free lock only, for any number of threads below the number of tickets: the
\* safety part of FairLockSpec.
THEOREM ImplementsQueue == Spec => Fair!Safety
<1>1. IInv /\ [Next]_vars => IInv'
  BY IStep
<1>2. IInv /\ IInv' /\ [Next]_vars => [Fair!Next]_(Fair!vars)
  BY EveryFairStep DEF FairStep
<1>3. QED
  BY IInit, <1>1, <1>2, FairInit, PTL DEF Spec, Fair!Safety
=============================================================================
