------------------------------- MODULE NameMap -------------------------------
(***************************************************************************)
(* What a directory promises to threads that use it together: it is a set  *)
(* of names.  A name is added or taken out at one instant and no other     *)
(* comes or goes with it; a lookup or a listing takes time, and its answer *)
(* has every name asked for that was there all the time and none that was  *)
(* never there.                                                            *)
(***************************************************************************)
EXTENDS Naturals

CONSTANTS Thread, Name

VARIABLES
    entries,   \* the names of the directory
    ask,       \* the names a thread asks for, {} when it asks for none
    always,    \* of these, the ones there ever since it asked
    ever,      \* of these, the ones there at some time since
    answer     \* what a thread was told last

vars == <<entries, ask, always, ever, answer>>

Init ==
    /\ entries \in SUBSET Name
    /\ ask = [t \in Thread |-> {}]
    /\ always = [t \in Thread |-> {}] /\ ever = [t \in Thread |-> {}]
    /\ answer = [t \in Thread |-> {}]

Asking(t) == ask[t] # {}

\* Every thread that asks sees the entries change.
Witness ==
    /\ always' = [t \in Thread |-> always[t] \cap entries']
    /\ ever' = [t \in Thread |-> ever[t] \cup (entries' \cap ask[t])]

Ask(t) ==
    /\ ~Asking(t)
    /\ \E S \in {Name} \cup {{n} : n \in Name} :
        /\ ask' = [ask EXCEPT ![t] = S]
        /\ always' = [always EXCEPT ![t] = entries \cap S]
        /\ ever' = [ever EXCEPT ![t] = entries \cap S]
    /\ answer' = [answer EXCEPT ![t] = {}]
    /\ UNCHANGED entries

Told(t, S) ==
    /\ answer' = [answer EXCEPT ![t] = S] /\ ask' = [ask EXCEPT ![t] = {}]
    /\ always' = [always EXCEPT ![t] = {}] /\ ever' = [ever EXCEPT ![t] = {}]
    /\ UNCHANGED entries

Tell(t) ==
    /\ Asking(t)
    /\ \E S \in SUBSET ever[t] : always[t] \subseteq S /\ Told(t, S)

Add(n) ==
    /\ n \notin entries /\ entries' = entries \cup {n}
    /\ Witness
    /\ UNCHANGED <<ask, answer>>

\* The name a thread asked for goes, and it is told so.
Remove(t) ==
    /\ \E n \in entries :
        /\ ask[t] = {n} /\ entries' = entries \ {n}
        /\ answer' = [answer EXCEPT ![t] = {n}]
    /\ ask' = [ask EXCEPT ![t] = {}]
    /\ always' = [u \in Thread |-> IF u = t THEN {} ELSE always[u] \cap entries']
    /\ ever' = [ever EXCEPT ![t] = {}]

Forget(t) ==
    /\ ~Asking(t) /\ answer' = [answer EXCEPT ![t] = {}]
    /\ UNCHANGED <<entries, ask, always, ever>>

Next == \E t \in Thread : Ask(t) \/ Tell(t) \/ Remove(t) \/ Forget(t) \/ \E n \in Name : Add(n)

Spec == Init /\ [][Next]_vars
=============================================================================
