---------------------------- MODULE EventDispatch ----------------------------
(***************************************************************************)
(* What the event queues promise to the handlers that post to them,        *)
(* whatever they keep the events in: a posted event waits until its runner *)
(* distributes it, once, or until it is removed, on behalf of its own      *)
(* handler unless the whole queue is cancelled; a runner distributes one   *)
(* event at a time; and no event is distributed whose handler is gone.     *)
(* A queue that implements this also says which of its steps are removals  *)
(* and cancellations that somebody asks for: all others are Serving, in    *)
(* which no event of a living handler is lost.                             *)
(***************************************************************************)
CONSTANTS
    RunnerOf,   \* per handler
    Cancellable \* the runners whose queue can be cancelled as a whole

VARIABLES
    posted,  \* events that wait, each with its owner
    running, \* events that are being distributed, each with its owner
    expired  \* handlers that are gone

vars == <<posted, running, expired>>

Init == posted = {} /\ running = {} /\ expired = {}

Post(p) ==
    /\ p.owner \notin expired
    /\ \A q \in posted \union running : q.event # p.event
    /\ posted' = posted \union {p}
    /\ UNCHANGED <<running, expired>>

\* A handler removes some of its events.
Remove(S) ==
    /\ \A p, q \in S : p.owner = q.owner
    /\ posted' = posted \ S
    /\ UNCHANGED <<running, expired>>

\* The queue drops events whose handlers are gone.
Discard(S) ==
    /\ \A p \in S : p.owner \in expired
    /\ posted' = posted \ S
    /\ UNCHANGED <<running, expired>>

\* All events of a queue are cancelled.
Cancel(r) ==
    /\ r \in Cancellable
    /\ posted' = {p \in posted : RunnerOf[p.owner] # r}
    /\ UNCHANGED <<running, expired>>

Distribute(p) ==
    /\ p.owner \notin expired
    /\ \A q \in running : RunnerOf[q.owner] # RunnerOf[p.owner]
    /\ posted' = posted \ {p}
    /\ running' = running \union {p}
    /\ UNCHANGED expired

\* The distribution may have been what kept the handler.
Return(p) ==
    /\ running' = running \ {p}
    /\ expired' \in {expired, expired \union {p.owner}}
    /\ UNCHANGED posted

Expire(h) ==
    /\ \A p \in running : p.owner # h
    /\ expired' = expired \union {h}
    /\ UNCHANGED <<posted, running>>

Serving ==
    \/ \E p \in posted' : Post(p)
    \/ \E S \in SUBSET posted : Discard(S)
    \/ \E p \in posted : Distribute(p)
    \/ \E p \in running : Return(p)
    \/ \E h \in expired' : Expire(h)

Next ==
    \/ Serving
    \/ \E S \in SUBSET posted : Remove(S)
    \/ \E p \in posted : Cancel(RunnerOf[p.owner])

Spec == Init /\ [][Next]_vars
=============================================================================
