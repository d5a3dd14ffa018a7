------------------------------ MODULE IoWaiter ------------------------------
(***************************************************************************)
(* NoneIoWaiter and EpollIoWaiter at the granularity of their locks: how   *)
(* the runner's thread falls asleep (EventQueue::WaitUntilLocked), how     *)
(* others wake it, how the queue changes its waiter while the thread may   *)
(* be asleep on the old one (EnsureIoWaiterLocked), and what happens when  *)
(* waiting fails.                                                          *)
(*                                                                         *)
(* queueLock_ is explicit. What the runner does from taking it to giving   *)
(* it up is one step; a notifier needs two when it writes to awakenFd_.    *)
(***************************************************************************)
EXTENDS Integers

CONSTANTS
    Clients,  \* threads that insert events, finish the queue or add listeners
    Waiters,  \* waiter objects; one nobody refers to any more may be allocated anew
    NoWaiter, \* the runner holds none
    Runner,   \* the runner's thread, as the owner of queueLock_
    Free      \* nobody owns queueLock_

ASSUME WaiterAssumption ==
    /\ NoWaiter \notin Waiters
    /\ Runner \notin Clients
    /\ Free \notin Clients \union {Runner}

VARIABLES
    lock,         \* the owner of queueLock_
    ioWaiter,     \* ioWaiter_
    supportsFd,   \* per waiter: SupportListeningFileDescriptor(), an EpollIoWaiter
    pred,         \* NoneIoWaiter::pred_
    waitingCount, \* EpollIoWaiter::waitingCount_
    awaken,       \* is there something to read in awakenFd_
    pc,           \* where the runner is
    holder,       \* ioWaiterHolder in WaitUntilLocked
    drains,       \* epoll_wait has reported awakenFd_
    failed,       \* epoll_wait has failed
    client,       \* per client: what it is about to do with queueLock_ held
    told          \* auxiliary: notified since the runner fell asleep

waiterVars == <<ioWaiter, supportsFd, pred, waitingCount, awaken>>
runnerVars == <<pc, holder, drains, failed>>
vars == <<lock, waiterVars, runnerVars, client, told>>

\* The runner has given up queueLock_ in WaitFor and not got it back yet.
Asleep == pc # "running"

\* A waiter object that a make_shared may return.
Unused(w) == w \notin {ioWaiter, holder}

-----------------------------------------------------------------------------
(* The runner *)

\* Mutant of StartWaiting: the count is left alone.
StartWaitingUncounted ==
    /\ pc = "running"
    /\ lock = Free
    /\ holder' = ioWaiter
    /\ pc' = "unlocked"
    /\ told' = FALSE
    /\ UNCHANGED <<lock, waiterVars, drains, failed, client>>

\* WaitUntilLocked up to the unlock: "Increasment of waiting count MUST be done before unlock."
StartWaiting ==
    /\ pc = "running"
    /\ lock = Free
    /\ holder' = ioWaiter
    /\ waitingCount' = [waitingCount EXCEPT ![ioWaiter] = IF supportsFd[ioWaiter] THEN @ + 1 ELSE @]
    /\ pc' = "unlocked"
    /\ told' = FALSE
    /\ UNCHANGED <<lock, ioWaiter, supportsFd, pred, awaken, drains, failed, client>>

\* condition_.wait returns: pred_ holds.
NoneNotified ==
    /\ pc = "unlocked"
    /\ ~supportsFd[holder]
    /\ pred[holder]
    /\ pc' = "relock"
    /\ UNCHANGED <<lock, waiterVars, holder, drains, failed, client, told>>

\* condition_.wait_for gives up.
NoneTimeout ==
    /\ pc = "unlocked"
    /\ ~supportsFd[holder]
    /\ pc' = "relock"
    /\ UNCHANGED <<lock, waiterVars, holder, drains, failed, client, told>>

\* epoll_wait reports awakenFd_.
EpollNotified ==
    /\ pc = "unlocked"
    /\ supportsFd[holder]
    /\ awaken[holder]
    /\ pc' = "returned"
    /\ drains' = TRUE
    /\ UNCHANGED <<lock, waiterVars, holder, failed, client, told>>

\* epoll_wait returns for another reason: a time-out, a descriptor, an error.
EpollReturn ==
    /\ pc = "unlocked"
    /\ supportsFd[holder]
    /\ failed' \in BOOLEAN
    /\ pc' = "returned"
    /\ UNCHANGED <<lock, waiterVars, holder, drains, client, told>>

\* "Decrease waiting count after block at once."
DecreaseCount ==
    /\ pc = "returned"
    /\ waitingCount' = [waitingCount EXCEPT ![holder] = @ - 1]
    /\ pc' = IF failed THEN "relock" ELSE "handle"
    /\ UNCHANGED <<lock, ioWaiter, supportsFd, pred, awaken>>
    /\ UNCHANGED <<holder, drains, failed, client, told>>

\* A ready descriptor: HandleFileDescriptorEvent inserts an event, under queueLock_; its
\* NotifyOne finds that nobody waits.
Callback ==
    /\ pc = "handle"
    /\ lock = Free
    /\ told' = TRUE
    /\ UNCHANGED <<lock, waiterVars, runnerVars, client>>

\* DrainAwakenPipe, and the end of the loop over the events.
Drain ==
    /\ pc = "handle"
    /\ awaken' = [awaken EXCEPT ![holder] = @ /\ ~drains]
    /\ pc' = "relock"
    /\ UNCHANGED <<lock, ioWaiter, supportsFd, pred, waitingCount>>
    /\ UNCHANGED <<holder, drains, failed, client, told>>

\* externLock.lock(); NoneIoWaiter resets pred_; WaitUntilLocked replaces a failed waiter.
Relock ==
    /\ pc = "relock"
    /\ lock = Free
    /\ pc' = "running"
    /\ told' = FALSE
    /\ holder' = NoWaiter
    /\ drains' = FALSE
    /\ failed' = FALSE
    /\ IF failed
       THEN \E w \in Waiters :
                /\ Unused(w)
                /\ ioWaiter' = w
                /\ supportsFd' = [supportsFd EXCEPT ![w] = FALSE]
                /\ pred' = [pred EXCEPT ![w] = FALSE]
       ELSE /\ pred' = [pred EXCEPT ![holder] = @ /\ supportsFd[holder]]
            /\ UNCHANGED <<ioWaiter, supportsFd>>
    /\ UNCHANGED <<lock, waitingCount, awaken, client>>

-----------------------------------------------------------------------------
(* The others *)

Unlock(c) ==
    /\ lock' = Free
    /\ client' = [client EXCEPT ![c] = "idle"]
    /\ told' = (told \/ Asleep)

\* Insert, Finish or AddFileDescriptorListener takes queueLock_.
Lock(c, op) ==
    /\ client[c] = "idle"
    /\ lock = Free
    /\ lock' = c
    /\ client' = [client EXCEPT ![c] = op]
    /\ UNCHANGED <<waiterVars, runnerVars, told>>

\* NoneIoWaiter::NotifyOne and NotifyAll.
NotifyNone(c) ==
    /\ client[c] = "notify"
    /\ ~supportsFd[ioWaiter]
    /\ pred' = [pred EXCEPT ![ioWaiter] = TRUE]
    /\ Unlock(c)
    /\ UNCHANGED <<ioWaiter, supportsFd, waitingCount, awaken, runnerVars>>

\* Mutant of NotifyEpoll: it takes one waiting thread for none.
NotifyEpollOffByOne(c) ==
    /\ client[c] = "notify"
    /\ supportsFd[ioWaiter]
    /\ IF waitingCount[ioWaiter] <= 1
       THEN Unlock(c)
       ELSE client' = [client EXCEPT ![c] = "write"] /\ UNCHANGED <<lock, told>>
    /\ UNCHANGED <<waiterVars, runnerVars>>

\* EpollIoWaiter::NotifyAll: "Not waiting, so nothing to do."
NotifyEpoll(c) ==
    /\ client[c] = "notify"
    /\ supportsFd[ioWaiter]
    /\ IF waitingCount[ioWaiter] = 0
       THEN Unlock(c)
       ELSE client' = [client EXCEPT ![c] = "write"] /\ UNCHANGED <<lock, told>>
    /\ UNCHANGED <<waiterVars, runnerVars>>

WriteAwaken(c) ==
    /\ client[c] = "write"
    /\ awaken' = [awaken EXCEPT ![ioWaiter] = TRUE]
    /\ Unlock(c)
    /\ UNCHANGED <<ioWaiter, supportsFd, pred, waitingCount, runnerVars>>

\* A new EpollIoWaiter w becomes the queue's waiter.
Install(w) ==
    /\ Unused(w)
    /\ ioWaiter' = w
    /\ supportsFd' = [supportsFd EXCEPT ![w] = TRUE]
    /\ waitingCount' = [waitingCount EXCEPT ![w] = 0]
    /\ awaken' = [awaken EXCEPT ![w] = FALSE]

\* Mutant of EnsureIoWaiterLocked: the old waiter is not notified.
EnsureIoWaiterSilently(c) ==
    /\ client[c] = "listen"
    /\ \/ ~supportsFd[ioWaiter] /\ \E w \in Waiters : Install(w) /\ UNCHANGED pred
       \/ UNCHANGED waiterVars
    /\ Unlock(c)
    /\ UNCHANGED runnerVars

\* The old waiter, a NoneIoWaiter, is notified first. The new one's Init may fail.
EnsureIoWaiterLocked(c) ==
    /\ client[c] = "listen"
    /\ \/ /\ ~supportsFd[ioWaiter]
          /\ \E w \in Waiters : Install(w) /\ pred' = [pred EXCEPT ![ioWaiter] = TRUE, ![w] = FALSE]
          /\ Unlock(c)
       \/ /\ lock' = Free
          /\ client' = [client EXCEPT ![c] = "idle"]
          /\ UNCHANGED <<waiterVars, told>>
    /\ UNCHANGED runnerVars

Init ==
    /\ lock = Free
    /\ ioWaiter \in Waiters
    /\ supportsFd \in [Waiters -> BOOLEAN]
    /\ pred = [w \in Waiters |-> FALSE]
    /\ waitingCount = [w \in Waiters |-> 0]
    /\ awaken = [w \in Waiters |-> FALSE]
    /\ pc = "running"
    /\ holder = NoWaiter
    /\ drains = FALSE
    /\ failed = FALSE
    /\ client = [c \in Clients |-> "idle"]
    /\ told = FALSE

Sleeper ==
    \/ StartWaiting \/ NoneNotified \/ NoneTimeout \/ EpollNotified \/ EpollReturn
    \/ DecreaseCount \/ Callback \/ Drain \/ Relock

Notifier(c) ==
    \/ Lock(c, "notify") \/ Lock(c, "listen")
    \/ NotifyNone(c) \/ NotifyEpoll(c) \/ WriteAwaken(c) \/ EnsureIoWaiterLocked(c)

Next == Sleeper \/ \E c \in Clients : Notifier(c)

\* A thread that can go on does, a notified wait returns, and whoever wants queueLock_
\* gets it in the end. A wait may last as long as it likes without a notification.
Fairness ==
    /\ WF_vars(NoneNotified)
    /\ WF_vars(EpollNotified)
    /\ WF_vars(DecreaseCount)
    /\ WF_vars(Drain)
    /\ SF_vars(Relock)
    /\ \A c \in Clients :
           WF_vars(NotifyNone(c) \/ NotifyEpoll(c) \/ WriteAwaken(c) \/ EnsureIoWaiterLocked(c))

Spec == Init /\ [][Next]_vars

FairSpec == Spec /\ Fairness

-----------------------------------------------------------------------------
(* Properties *)

\* Types, and how often a waiter counts the one thread: never below zero, which the code
\* logs as an error, nor above one.
TypeOK ==
    /\ lock \in Clients \union {Free}
    /\ ioWaiter \in Waiters
    /\ supportsFd \in [Waiters -> BOOLEAN]
    /\ pred \in [Waiters -> BOOLEAN]
    /\ waitingCount \in [Waiters -> {0, 1}]
    /\ awaken \in [Waiters -> BOOLEAN]
    /\ pc \in {"running", "unlocked", "returned", "handle", "relock"}
    /\ holder \in Waiters \union {NoWaiter}
    /\ drains \in BOOLEAN
    /\ failed \in BOOLEAN
    /\ client \in [Clients -> {"idle", "notify", "write", "listen"}]
    /\ told \in BOOLEAN

\* What wakes a thread that is about to block, or blocked, in the waiter it holds.
Signalled == IF supportsFd[holder] THEN awaken[holder] ELSE pred[holder]

\* A notification is never lost, neither between the decision to sleep and the sleep, nor
\* when another thread replaces the waiter, nor because the count is zero at that moment.
NotificationIsKept == told /\ pc = "unlocked" => Signalled

\* The two waiters, and their replacement while in use, keep the promise EventQueue relies on.
WN == INSTANCE WaitNotify WITH asleep <- Asleep, told <- told

ImplementsWaitNotify == WN!Spec
=============================================================================
