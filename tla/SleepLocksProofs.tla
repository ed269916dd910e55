--------------------------- MODULE SleepLocksProofs ---------------------------
(***************************************************************************)
(* Proofs about SleepLocks, for any threads, any position of the writer's  *)
(* bit above their number, any number of calls, and both locks: the word   *)
(* of the lock says who holds it, and the lock implements ReadersWriters.  *)
(***************************************************************************)
EXTENDS SleepLocks, FiniteSetTheorems, TLAPS

Readers == {t \in Thread : pc[t] \in {"reading", "upgrade"}}
Writers == {t \in Thread : pc[t] = "writing"}

Places == {"idle", "load", "swap", "sleep", "asleep", "reading", "writing", "upgrade", "wake"}

Asks == [mode : {"none", "read", "write"}, waits : BOOLEAN, trying : BOOLEAN]

\* A thread that asks for the lock.
Asking(t) == pc[t] \in {"load", "swap", "sleep", "asleep"}

\* The parts of the state the word does not speak of: who asks, asks for
\* something, and of a SimpleLock for writing; what a thread swaps against
\* did not stop it when it was read.
Typed ==
    /\ simple \in BOOLEAN /\ state \in Int
    /\ pc \in [Thread -> Places]
    /\ ask \in [Thread -> Asks]
    /\ prev \in [Thread -> Int]

Asked ==
    \A t \in Thread :
        /\ Asking(t) => ask[t].mode # "none" /\ (simple => ask[t].mode = "write")
        /\ pc[t] = "swap" => ~Blocked(ask[t].mode, prev[t])
        /\ pc[t] # "swap" => prev[t] = 0

\* The word counts the readers, or says that there is one writer.
WordCounts ==
    \/ Writers = {} /\ state = Cardinality(Readers)
    \/ Readers = {} /\ state = WRITER_LOCKED /\ \E t \in Thread : Writers = {t}

IInv == Typed /\ Asked /\ WordCounts

-----------------------------------------------------------------------------

\* The readers are finitely many.
LEMMA ReadersFinite == IsFiniteSet(Readers) /\ Cardinality(Readers) \in Nat
BY SleepLocksAssumption, FS_Subset, FS_CardinalityType DEF Readers

\* The bit of the writer is seen in the word it sets.
LEMMA WriterSeen == is_write_locked(WRITER_LOCKED)
<1>1. WRITER_LOCKED \in Nat \ {0}
  BY SleepLocksAssumption
<1>2. WRITER_LOCKED \div WRITER_LOCKED = 1
  BY <1>1, Z3
<1>3. QED
  BY <1>2 DEF is_write_locked

\* A word that is 0 stops nobody.
LEMMA ZeroFree == \A mode \in {"none", "read", "write"} : ~Blocked(mode, 0)
<1>1. WRITER_LOCKED \in Nat \ {0}
  BY SleepLocksAssumption
<1>2. 0 \div WRITER_LOCKED = 0
  BY <1>1, Z3
<1>3. QED
  BY <1>2 DEF Blocked, is_write_locked

\* The lock is free at first.
LEMMA IInit == Init => IInv
<1> SUFFICES ASSUME Init PROVE IInv
  OBVIOUS
<1>1. Readers = {} /\ Writers = {}
  BY DEF Init, Readers, Writers
<1>2. WordCounts
  BY <1>1, FS_EmptySet DEF WordCounts, Init
<1>3. Typed /\ Asked
  BY DEF Init, Typed, Asked, Asking, NoAsk, Places, Asks
<1>4. QED
  BY <1>2, <1>3 DEF IInv

-----------------------------------------------------------------------------
(* What a step does to the holders.                                        *)

\* A thread that moves between places that hold nothing leaves the holders as
\* they are: asking, sleeping, and a drop that has still to wake others.
LEMMA SameHolders ==
    ASSUME IInv, NEW t \in Thread, NEW p \in Places, Goto(t, p),
           pc[t] \notin {"reading", "upgrade", "writing"},
           p \notin {"reading", "upgrade", "writing"}
    PROVE  Readers' = Readers /\ Writers' = Writers
BY DEF IInv, Typed, Goto, Readers, Writers, Places

\* A reader is counted when it comes: compare_exchange of a reader that saw no
\* writer.
LEMMA ReaderComes ==
    ASSUME IInv, NEW t \in Thread, t \notin Readers, Writers = {}
    PROVE  /\ state = Cardinality(Readers)
           /\ Cardinality(Readers \cup {t}) = state + 1
<1>1. state = Cardinality(Readers)
  <2>1. \A u \in Thread : {} # {u}
    OBVIOUS
  <2>2. QED
    BY <2>1 DEF IInv, WordCounts
<1>2. QED
  BY <1>1, ReadersFinite, FS_AddElement

\* A reader is no longer counted when it leaves: the drop of a read guard.
LEMMA ReaderLeaves ==
    ASSUME IInv, NEW t \in Readers
    PROVE  /\ state = Cardinality(Readers) /\ Writers = {}
           /\ Cardinality(Readers \ {t}) = state - 1
<1>1. state = Cardinality(Readers) /\ Writers = {}
  BY DEF IInv, WordCounts
<1>2. QED
  BY <1>1, ReadersFinite, FS_RemoveElement

\* While a thread writes, it is the only holder.
LEMMA WriterAlone ==
    ASSUME IInv, NEW t \in Writers
    PROVE  Readers = {} /\ Writers = {t} /\ state = WRITER_LOCKED
BY DEF IInv, WordCounts

\* A reader that a word does not stop sees no writer; a writer that a word does
\* not stop sees nobody.
LEMMA Unblocked ==
    ASSUME IInv, NEW mode \in {"read", "write"}, ~Blocked(mode, state)
    PROVE  /\ Writers = {}
           /\ mode = "write" => Readers = {} /\ state = 0
<1>1. state # WRITER_LOCKED
  <2>1. WRITER_LOCKED > 0
    BY SleepLocksAssumption
  <2>2. Blocked(mode, WRITER_LOCKED)
    BY <2>1, WriterSeen DEF Blocked
  <2>3. QED
    BY <2>2
<1>2. Writers = {} /\ state = Cardinality(Readers)
  BY <1>1 DEF IInv, WordCounts
<1>3. mode = "write" => Readers = {} /\ state = 0
  <2> HAVE mode = "write"
  <2>1. ~(state > 0)
    BY DEF Blocked
  <2>2. state = 0
    BY <1>2, <2>1, ReadersFinite
  <2>3. QED
    BY <1>2, <2>2, ReadersFinite, FS_EmptySet
<1>4. QED
  BY <1>2, <1>3

-----------------------------------------------------------------------------
(* The steps.  Each keeps the invariant, and is a step of ReadersWriters or  *)
(* changes nothing there.                                                  *)

\* A step of this module as ReadersWriters sees it.
Serves == [RW!Next]_(RW!vars)

\* A step that leaves the holders alone is none of ReadersWriters.
LEMMA Unseen ==
    ASSUME Readers' = Readers, Writers' = Writers
    PROVE  Serves
BY DEF Serves, RW!vars, Readers, Writers

\* A step that leaves the holders and the word alone leaves the count right.
LEMMA SameCount ==
    ASSUME IInv, Readers' = Readers, Writers' = Writers, state' = state
    PROVE  WordCounts'
BY DEF IInv, WordCounts

\* Of what is asked, only what thread t asks may change, and if it goes to p to
\* wait it asks for the same.
AsksOn(t, p) ==
    /\ ask' \in [Thread -> Asks]
    /\ \A u \in Thread : u # t => ask'[u] = ask[u]
    /\ p # "idle" => ask'[t].mode = ask[t].mode

\* Where an attempt begins, nothing has been read yet.
LEMMA AttemptPlace == Attempt \in {"load", "swap"}
BY DEF Attempt

\* A call begins: it asks for something, and has read nothing.
LEMMA CallStep == \A t \in Thread : IInv /\ Call(t) => IInv' /\ Serves
<1> SUFFICES ASSUME NEW t \in Thread, IInv, Call(t) PROVE IInv' /\ Serves
  OBVIOUS
<1>1. Readers' = Readers /\ Writers' = Writers
  BY SameHolders, AttemptPlace DEF Call, Places
<1>2. PICK mode \in {"read", "write"}, waits \in BOOLEAN :
        /\ simple => mode = "write"
        /\ ask' = [ask EXCEPT ![t] = [mode |-> mode, waits |-> waits, trying |-> TRUE]]
  BY DEF Call
<1>3. Typed'
  BY <1>2, AttemptPlace DEF IInv, Typed, Call, Goto, Places, Asks
<1>4. Asked'
  BY <1>2, AttemptPlace, ZeroFree DEF IInv, Typed, Asked, Asking, Call, Goto
<1>5. QED
  BY <1>1, <1>3, <1>4, SameCount, Unseen DEF IInv, Call

\* What the thread does whose attempt failed: it waits, asking for what it asked
\* for, or its call ends.
LEMMA GivingUp ==
    ASSUME IInv, NEW t \in Thread, Asking(t), GiveUp(t)
    PROVE  \E p \in {"sleep", "load", "idle"} : Goto(t, p) /\ AsksOn(t, p)
<1>1. CASE ask[t].waits
  <2> DEFINE r == [ask[t] EXCEPT !.trying = FALSE]
  <2>1. ask[t] \in Asks
    BY DEF IInv, Typed
  <2>2. r \in Asks /\ r.mode = ask[t].mode
    BY <2>1 DEF Asks
  <2>3. ask' = [ask EXCEPT ![t] = r]
    BY <1>1 DEF GiveUp
  <2> HIDE DEF r
  <2>4. \A p \in {"sleep", "load"} : AsksOn(t, p)
    BY <2>2, <2>3 DEF IInv, Typed, AsksOn
  <2>5. QED
    BY <1>1, <2>4 DEF GiveUp
<1>2. CASE ~ask[t].waits
  <2>1. Goto(t, "idle") /\ ask' = [ask EXCEPT ![t] = NoAsk]
    BY <1>2 DEF GiveUp
  <2>2. NoAsk \in Asks
    BY DEF NoAsk, Asks
  <2>3. AsksOn(t, "idle")
    BY <2>1, <2>2 DEF IInv, Typed, AsksOn
  <2>4. QED
    BY <2>1, <2>3
<1>3. QED
  BY <1>1, <1>2

\* The word is read: a thread goes on to swap only against a word that does
\* not stop it.
LEMMA LoadStep == \A t \in Thread : IInv /\ Load(t) => IInv' /\ Serves
<1> SUFFICES ASSUME NEW t \in Thread, IInv, Load(t) PROVE IInv' /\ Serves
  OBVIOUS
<1>0. pc[t] = "load" /\ state' = state /\ simple' = simple
  BY DEF Load
<1>1. CASE ~Blocked(ask[t].mode, state)
  <2>1. prev' = [prev EXCEPT ![t] = state] /\ Goto(t, "swap") /\ ask' = ask
    BY <1>1 DEF Load
  <2>2. Readers' = Readers /\ Writers' = Writers
    BY <1>0, <2>1, SameHolders DEF Places
  <2>3. Typed'
    BY <1>0, <2>1 DEF IInv, Typed, Goto, Places
  <2>4. Asked'
    BY <1>0, <1>1, <2>1 DEF IInv, Typed, Asked, Asking, Goto
  <2>5. QED
    BY <1>0, <2>2, <2>3, <2>4, SameCount, Unseen DEF IInv
<1>2. CASE Blocked(ask[t].mode, state)
  <2>1. prev' = prev
    BY <1>2 DEF Load
  <2>2. PICK p \in {"sleep", "load", "idle"} : Goto(t, p) /\ AsksOn(t, p)
    BY <1>0, <1>2, GivingUp DEF Load, Asking, AsksOn, IInv, Typed
  <2>3. Readers' = Readers /\ Writers' = Writers
    BY <1>0, <2>2, SameHolders DEF Places
  <2>4. Typed'
    BY <1>0, <2>1, <2>2 DEF IInv, Typed, Goto, Places, AsksOn
  <2>5. Asked'
    BY <1>0, <2>1, <2>2 DEF IInv, Typed, Asked, Asking, Goto, AsksOn
  <2>6. QED
    BY <1>0, <2>3, <2>4, <2>5, SameCount, Unseen DEF IInv
<1>3. QED
  BY <1>1, <1>2

\* The word has changed since it was read: the thread looks again, sleeps or
\* gives up.
LEMMA MissStep == \A t \in Thread : IInv /\ Miss(t) => IInv' /\ Serves
<1> SUFFICES ASSUME NEW t \in Thread, IInv, Miss(t) PROVE IInv' /\ Serves
  OBVIOUS
<1>0. pc[t] = "swap" /\ state' = state /\ simple' = simple
  BY DEF Miss
<1>1. prev' = [prev EXCEPT ![t] = 0]
  BY DEF Miss
<1>2. PICK p \in {"sleep", "load", "idle"} : Goto(t, p) /\ AsksOn(t, p)
  BY <1>0, GivingUp DEF Miss, Asking, AsksOn, IInv, Typed
<1>3. Readers' = Readers /\ Writers' = Writers
  BY <1>0, <1>2, SameHolders DEF Places
<1>4. Typed'
  BY <1>0, <1>1, <1>2 DEF IInv, Typed, Goto, Places, AsksOn
<1>5. Asked'
  BY <1>0, <1>1, <1>2 DEF IInv, Typed, Asked, Asking, Goto, AsksOn
<1>6. QED
  BY <1>0, <1>3, <1>4, <1>5, SameCount, Unseen DEF IInv

\* Dreamer::sleeping: the thread sleeps, or tries again.
LEMMA SleepStep == \A t \in Thread : IInv /\ (Sleep(t) \/ Stir(t)) => IInv' /\ Serves
<1> SUFFICES ASSUME NEW t \in Thread, IInv, Sleep(t) \/ Stir(t) PROVE IInv' /\ Serves
  OBVIOUS
<1>1. PICK p \in {"asleep", "load", "swap"} : Goto(t, p)
  BY AttemptPlace DEF Sleep, Stir
<1>2. /\ pc[t] \in {"sleep", "asleep"}
      /\ UNCHANGED <<simple, state, ask, prev>>
  BY DEF Sleep, Stir
<1>3. Readers' = Readers /\ Writers' = Writers
  BY <1>1, <1>2, SameHolders DEF Places
<1>4. Typed'
  BY <1>1, <1>2 DEF IInv, Typed, Goto, Places
<1>5. Asked'
  <2>1. ~Blocked(ask[t].mode, 0)
    BY ZeroFree DEF IInv, Typed, Asks
  <2>2. QED
    BY <1>1, <1>2, <2>1 DEF IInv, Typed, Asked, Asking, Goto, Blocked
<1>6. QED
  BY <1>2, <1>3, <1>4, <1>5, SameCount, Unseen DEF IInv

\* A place that holds nothing is not swapped against.
LEMMA Settled ==
    ASSUME IInv, NEW t \in Thread, NEW p \in Places, pc[t] # "swap", Goto(t, p),
           p \notin {"load", "swap", "sleep", "asleep"},
           simple' = simple, ask' = ask, prev' = prev
    PROVE  Asked'
BY DEF IInv, Typed, Asked, Asking, Goto, Places

\* compare_exchange succeeds: the word is what did not stop the thread, so a
\* reader enters among readers, and a writer alone.
LEMMA AcquireStep == \A t \in Thread : IInv /\ Acquire(t) => IInv' /\ Serves
<1> SUFFICES ASSUME NEW t \in Thread, IInv, Acquire(t) PROVE IInv' /\ Serves
  OBVIOUS
<1> DEFINE mode == ask[t].mode
<1>1. mode \in {"read", "write"} /\ ~Blocked(mode, state)
  BY DEF Acquire, IInv, Typed, Asked, Asking, Asks
<1>2. /\ Writers = {}
      /\ mode = "write" => Readers = {} /\ state = 0
  BY <1>1, Unblocked
<1>3. /\ simple' = simple /\ state' = Granted(mode, state) /\ Goto(t, Holding(mode))
      /\ prev' = [prev EXCEPT ![t] = 0] /\ ask' = [ask EXCEPT ![t] = NoAsk]
      /\ pc[t] = "swap"
  BY DEF Acquire
<1> HIDE DEF mode
<1>4. state' \in Int
  BY <1>3, SleepLocksAssumption DEF Granted, IInv, Typed
<1>5. Typed' /\ Asked'
  BY <1>1, <1>3, <1>4 DEF IInv, Typed, Asked, Asking, Asks, NoAsk, Goto, Holding, Places
<1>6. CASE mode = "read"
  <2>1. t \notin Readers
    BY <1>3 DEF Readers
  <2>2. pc' = [pc EXCEPT ![t] = "reading"] /\ state' = state + 1
    BY <1>3, <1>6 DEF Goto, Holding, Granted
  <2>3. Readers' = Readers \cup {t} /\ Writers' = {}
    BY <1>2, <2>2 DEF IInv, Typed, Readers, Writers
  <2>4. WordCounts'
    BY <1>2, <2>1, <2>2, <2>3, ReaderComes DEF WordCounts
  <2>5. RW!Read(t)
    BY <1>2, <2>3 DEF RW!Read, Readers, Writers
  <2>6. QED
    BY <1>5, <2>4, <2>5 DEF IInv, Serves, RW!Next
<1>7. CASE mode = "write"
  <2>1. pc' = [pc EXCEPT ![t] = "writing"] /\ state' = WRITER_LOCKED
    BY <1>2, <1>3, <1>7, SleepLocksAssumption DEF Goto, Holding, Granted
  <2>2. Readers' = {} /\ Writers' = {t}
    BY <1>2, <1>7, <2>1 DEF IInv, Typed, Readers, Writers
  <2>3. WordCounts'
    BY <2>1, <2>2 DEF WordCounts
  <2>4. RW!Write(t)
    BY <1>2, <1>7, <2>2 DEF RW!Write, Readers, Writers
  <2>5. QED
    BY <1>5, <2>3, <2>4 DEF IInv, Serves, RW!Next
<1>8. QED
  BY <1>1, <1>6, <1>7

\* The drop of a guard: a reader takes itself off the count, the writer its bit
\* off the word.
LEMMA ReleaseStep == \A t \in Thread : IInv /\ Release(t) => IInv' /\ Serves
<1> SUFFICES ASSUME NEW t \in Thread, IInv, Release(t) PROVE IInv' /\ Serves
  OBVIOUS
<1>1. PICK p \in {"wake", "idle"} : Goto(t, p)
  BY DEF Release
<1>2. simple' = simple /\ ask' = ask /\ prev' = prev /\ pc[t] \in {"reading", "writing"}
  BY DEF Release
<1>3. Asked'
  BY <1>1, <1>2, Settled DEF Places
<1>4. CASE pc[t] = "reading"
  <2>1. t \in Readers
    BY <1>4 DEF Readers
  <2>2. state' = state - 1
    BY <1>4 DEF Release
  <2>3. Readers' = Readers \ {t} /\ Writers' = Writers
    BY <1>1, <1>4 DEF IInv, Typed, Goto, Readers, Writers
  <2>4. Writers = {} /\ state' = Cardinality(Readers')
    BY <2>1, <2>2, <2>3, ReaderLeaves
  <2>5. Typed'
    BY <1>1, <1>2, <2>2 DEF IInv, Typed, Goto, Places
  <2>6. RW!Leave(t)
    BY <2>1, <2>3, <2>4 DEF RW!Leave, Readers, Writers
  <2>7. QED
    BY <1>3, <2>3, <2>4, <2>5, <2>6 DEF IInv, WordCounts, Serves, RW!Next
<1>5. CASE pc[t] = "writing"
  <2>1. t \in Writers
    BY <1>5 DEF Writers
  <2>2. Readers = {} /\ Writers = {t} /\ state = WRITER_LOCKED
    BY <2>1, WriterAlone
  <2>3. state' = 0
    BY <1>5, <2>2, SleepLocksAssumption DEF Release
  <2>4. Readers' = {} /\ Writers' = {}
    BY <1>1, <2>2 DEF IInv, Typed, Goto, Readers, Writers
  <2>5. Typed'
    BY <1>1, <1>2, <2>3 DEF IInv, Typed, Goto, Places
  <2>6. RW!Leave(t)
    BY <2>2, <2>4 DEF RW!Leave, Readers, Writers
  <2>7. QED
    BY <1>3, <2>3, <2>4, <2>5, <2>6, FS_EmptySet DEF IInv, WordCounts, Serves, RW!Next
<1>6. QED
  BY <1>2, <1>4, <1>5

\* Dreamer::waking_up: whoever slept tries again, and nobody holds more.
LEMMA WakingStep == \A t \in Thread : IInv /\ waking_up(t) => IInv' /\ Serves
<1> SUFFICES ASSUME NEW t \in Thread, IInv, waking_up(t) PROVE IInv' /\ Serves
  OBVIOUS
<1>1. /\ UNCHANGED <<simple, state, ask, prev>> /\ pc[t] = "wake"
      /\ pc' = [u \in Thread |->
                  IF u = t THEN "idle" ELSE IF pc[u] = "asleep" THEN Attempt ELSE pc[u]]
  BY DEF waking_up
<1>2. Readers' = Readers /\ Writers' = Writers
  BY <1>1, AttemptPlace DEF Readers, Writers
<1>3. Typed'
  BY <1>1, AttemptPlace DEF IInv, Typed, Places
<1>4. Asked'
  <2>1. \A u \in Thread : ~Blocked(ask[u].mode, 0)
    BY ZeroFree DEF IInv, Typed, Asks
  <2>2. QED
    BY <1>1, <2>1, AttemptPlace DEF IInv, Typed, Asked, Asking, Blocked
<1>5. QED
  BY <1>1, <1>2, <1>3, <1>4, SameCount, Unseen DEF IInv

\* upgrade begins: the thread still reads.
LEMMA StartUpgradeStep == \A t \in Thread : IInv /\ StartUpgrade(t) => IInv' /\ Serves
<1> SUFFICES ASSUME NEW t \in Thread, IInv, StartUpgrade(t) PROVE IInv' /\ Serves
  OBVIOUS
<1>1. pc[t] = "reading" /\ Goto(t, "upgrade") /\ UNCHANGED <<simple, state, ask, prev>>
  BY DEF StartUpgrade
<1>2. Readers' = Readers /\ Writers' = Writers
  BY <1>1 DEF IInv, Typed, Goto, Readers, Writers
<1>3. Typed'
  BY <1>1 DEF IInv, Typed, Goto, Places
<1>4. Asked'
  BY <1>1, Settled DEF Places
<1>5. QED
  BY <1>1, <1>2, <1>3, <1>4, SameCount, Unseen DEF IInv

\* upgrade ends: a count of 1 is the thread itself, so nobody else reads when it
\* becomes the writer.
LEMMA UpgradeStep == \A t \in Thread : IInv /\ Upgrade(t) => IInv' /\ Serves
<1> SUFFICES ASSUME NEW t \in Thread, IInv, Upgrade(t) PROVE IInv' /\ Serves
  OBVIOUS
<1>1. /\ pc[t] = "upgrade" /\ state = 1 /\ state' = WRITER_LOCKED /\ Goto(t, "writing")
      /\ UNCHANGED <<simple, ask, prev>>
  BY DEF Upgrade
<1>2. t \in Readers
  BY <1>1 DEF Readers
<1>3. Writers = {} /\ Cardinality(Readers) = 1
  BY <1>1, <1>2, ReaderLeaves
<1>4. Readers = {t}
  <2>1. \E u : Readers = {u}
    BY <1>3, ReadersFinite, FS_Singleton
  <2>2. QED
    BY <1>2, <2>1
<1>5. Readers' = {} /\ Writers' = {t}
  BY <1>1, <1>3, <1>4 DEF IInv, Typed, Goto, Readers, Writers
<1>6. Typed'
  BY <1>1, SleepLocksAssumption DEF IInv, Typed, Goto, Places
<1>7. Asked'
  BY <1>1, Settled DEF Places
<1>8. RW!Upgrade(t)
  BY <1>4, <1>5 DEF RW!Upgrade, Readers, Writers
<1>9. QED
  BY <1>1, <1>5, <1>6, <1>7, <1>8 DEF IInv, WordCounts, Serves, RW!Next

\* downgrade: the writer becomes the only reader.
LEMMA DowngradeStep == \A t \in Thread : IInv /\ Downgrade(t) => IInv' /\ Serves
<1> SUFFICES ASSUME NEW t \in Thread, IInv, Downgrade(t) PROVE IInv' /\ Serves
  OBVIOUS
<1>1. /\ pc[t] = "writing" /\ state' = 1 /\ Goto(t, "reading")
      /\ UNCHANGED <<simple, ask, prev>>
  BY DEF Downgrade
<1>2. Readers = {} /\ Writers = {t}
  BY <1>1, WriterAlone DEF Writers
<1>3. Readers' = {t} /\ Writers' = {}
  BY <1>1, <1>2 DEF IInv, Typed, Goto, Readers, Writers
<1>4. Typed'
  BY <1>1 DEF IInv, Typed, Goto, Places
<1>5. Asked'
  BY <1>1, Settled DEF Places
<1>6. WordCounts'
  BY <1>1, <1>3, FS_Singleton DEF WordCounts
<1>7. RW!Downgrade(t)
  BY <1>2, <1>3 DEF RW!Downgrade, Readers, Writers
<1>8. QED
  BY <1>4, <1>5, <1>6, <1>7 DEF IInv, Serves, RW!Next

\* A step that changes nothing.
LEMMA IdleStep == IInv /\ UNCHANGED vars => IInv' /\ Serves
<1> SUFFICES ASSUME IInv, UNCHANGED vars PROVE IInv' /\ Serves
  OBVIOUS
<1>1. Readers' = Readers /\ Writers' = Writers
  BY DEF vars, Readers, Writers
<1>2. Typed' /\ Asked'
  BY DEF vars, IInv, Typed, Asked, Asking
<1>3. QED
  BY <1>1, <1>2, SameCount, Unseen DEF vars, IInv

\* Every step, of any thread.
LEMMA EveryStep == IInv /\ [Next]_vars => IInv' /\ Serves
<1> SUFFICES ASSUME IInv, [Next]_vars PROVE IInv' /\ Serves
  OBVIOUS
<1>1. CASE UNCHANGED vars
  BY <1>1, IdleStep
<1>2. CASE Next
  <2>1. PICK t \in Thread :
          Call(t) \/ Run(t) \/ Stir(t) \/ StartUpgrade(t) \/ Downgrade(t)
    BY <1>2 DEF Next
  <2>2. CASE Run(t)
    BY <2>2, LoadStep, AcquireStep, MissStep, SleepStep, ReleaseStep, WakingStep, UpgradeStep
    DEF Run
  <2>3. QED
    BY <2>1, <2>2, CallStep, SleepStep, StartUpgradeStep, DowngradeStep
<1>3. QED
  BY <1>1, <1>2

-----------------------------------------------------------------------------

\* The word of the lock always counts the readers, or says that one writer and
\* nobody else holds it: for any number of threads below the writer's bit, in
\* RwLock and SimpleLock, whatever upgrades and downgrades there are.
THEOREM WordSaysWho == Spec => []IInv
<1>1. IInv /\ [Next]_vars => IInv'
  BY EveryStep
<1>2. QED
  BY IInit, <1>1, PTL DEF Spec

\* RwLock and SimpleLock let in any number of readers or one writer, and turn a
\* reader into the writer only when it is alone (read_lock, write_lock,
\* upgrade, downgrade, the drops of the guards).
THEOREM ExcludesWriters == Spec => ReadersWritersSpec
<1>1. Init => RW!Init
  BY DEF Init, RW!Init
<1>2. IInv /\ [Next]_vars => [RW!Next]_(RW!vars)
  BY EveryStep DEF Serves
<1>3. QED
  BY WordSaysWho, <1>1, <1>2, PTL DEF Spec, ReadersWritersSpec, RW!Spec
=============================================================================
