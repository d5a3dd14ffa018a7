----------------------------- MODULE WaitNotify -----------------------------
(***************************************************************************)
(* What IoWaiter::WaitFor and NotifyOne/NotifyAll promise to the one       *)
(* thread that waits and to the threads that notify it, and all that       *)
(* EventQueue relies on: its "waiting" and "notified" are asleep and told. *)
(***************************************************************************)
VARIABLES
    asleep, \* the waiting thread has given up the lock and not got it back yet
    told    \* it has been notified since

vars == <<asleep, told>>

Init == asleep = FALSE /\ told = FALSE

Sleep == ~asleep /\ asleep' = TRUE /\ told' = FALSE

\* A notification counts if the thread is asleep. It is remembered until the thread wakes.
Tell == asleep /\ told' = TRUE /\ UNCHANGED asleep

\* The thread wakes on a notification, on a time-out, on IO, or for no reason.
Wake == asleep /\ asleep' = FALSE /\ told' = FALSE

Next == Sleep \/ Tell \/ Wake

Safety == Init /\ [][Next]_vars

\* A notified thread wakes.
Spec == Safety /\ WF_vars(Wake /\ told)
=============================================================================
