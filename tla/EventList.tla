------------------------------ MODULE EventList ------------------------------
(***************************************************************************)
(* The std::list operations of EventQueueBase, as operators on sequences   *)
(* of events without repetition.  Nothing here is recursive, so that the   *)
(* modules that use them can be reasoned about with the proof system.      *)
(***************************************************************************)
EXTENDS Integers, Sequences, FiniteSets

\* The events of a list.
Members(s) == {s[i] : i \in DOMAIN s}

\* Positions of the elements that stay when those of X are erased.
Kept(s, X) == {i \in DOMAIN s : s[i] \notin X}

\* The k-th kept position, counting from the front.
KeptAt(s, X, k) ==
    CHOOSE i \in Kept(s, X) : Cardinality({j \in Kept(s, X) : j <= i}) = k

\* list::remove_if, and every pop: erase the elements of X, keep the order of the rest.
RemoveIf(s, X) == [k \in 1 .. Cardinality(Kept(s, X)) |-> s[KeptAt(s, X, k)]]

\* std::find_if: the first element that lies in X (used only when there is one).
FirstIn(s, X) ==
    s[CHOOSE i \in DOMAIN s : s[i] \in X /\ \A j \in DOMAIN s : s[j] \in X => i <= j]

\* Insert e behind the first k elements.
InsertBehind(s, k, e) == SubSeq(s, 1, k) \o <<e>> \o SubSeq(s, k + 1, Len(s))

\* Mutant of NotLaterPrefix: an event goes before those of its own handle time.
EarlierPrefix(s, e, time) ==
    CHOOSE k \in 0 .. Len(s) :
        /\ k # 0 => time[s[k]] < time[e]
        /\ \A j \in (k + 1) .. Len(s) : time[s[j]] >= time[e]

(***************************************************************************)
(* The AT_END scan of InsertEventsLocked: it walks from the back over the  *)
(* events later than e and stops behind the last one that is not later.    *)
(***************************************************************************)
NotLaterPrefix(s, e, time) ==
    CHOOSE k \in 0 .. Len(s) :
        /\ k # 0 => time[s[k]] <= time[e]
        /\ \A j \in (k + 1) .. Len(s) : time[s[j]] > time[e]

\* Is s in the order of handle time?
InTimeOrder(s, time) ==
    \A i, j \in DOMAIN s : i < j => time[s[i]] <= time[s[j]]
=============================================================================
