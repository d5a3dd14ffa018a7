--------------------------- MODULE IoWaiterProofs ---------------------------
(***************************************************************************)
(* Proofs about IoWaiter, for any number of clients and waiter objects.    *)
(***************************************************************************)
EXTENDS IoWaiter, TLAPS

\* The count says exactly whether the runner is between its increment and its decrement.
CountIsExact ==
    \A w \in Waiters :
        waitingCount[w] = IF w = holder /\ supportsFd[w] /\ pc \in {"unlocked", "returned"}
                          THEN 1 ELSE 0

\* A runner about to block does so in the queue's waiter, or has been notified in the old one.
HolderIsCurrent == pc = "unlocked" => holder = ioWaiter \/ (~supportsFd[holder] /\ pred[holder])

HolderWhileAsleep == Asleep <=> holder # NoWaiter

\* Only epoll_wait leads to the decrement.
EpollWhileReturned == pc = "returned" => supportsFd[holder]

\* A client acts with the lock held, and writes to an EpollIoWaiter only.
ClientsOwnLock ==
    \A c \in Clients :
        /\ client[c] # "idle" => lock = c
        /\ client[c] = "write" => supportsFd[ioWaiter]

\* The inductive invariant.
WaiterInv ==
    /\ TypeOK
    /\ CountIsExact
    /\ HolderIsCurrent
    /\ HolderWhileAsleep
    /\ EpollWhileReturned
    /\ ClientsOwnLock
    /\ NotificationIsKept

LEMMA InitWaiterInv == Init => WaiterInv
<1> SUFFICES ASSUME Init PROVE WaiterInv
  OBVIOUS
<1>1. TypeOK
  BY DEF Init, TypeOK
<1>2. CountIsExact /\ HolderIsCurrent /\ HolderWhileAsleep /\ EpollWhileReturned
  BY WaiterAssumption DEF Init, CountIsExact, HolderIsCurrent, HolderWhileAsleep, Asleep,
                          EpollWhileReturned
<1>3. ClientsOwnLock /\ NotificationIsKept
  BY DEF Init, ClientsOwnLock, NotificationIsKept
<1> QED
  BY <1>1, <1>2, <1>3 DEF WaiterInv

\* The steps of the runner, one by one.
LEMMA SleeperStep == WaiterInv /\ Sleeper => WaiterInv'
<1> SUFFICES ASSUME WaiterInv, Sleeper PROVE WaiterInv'
  OBVIOUS
<1> USE WaiterAssumption DEF waiterVars, runnerVars
<1>1. TypeOK /\ CountIsExact /\ HolderIsCurrent /\ HolderWhileAsleep /\ EpollWhileReturned
      /\ ClientsOwnLock /\ NotificationIsKept
  BY DEF WaiterInv
<1>2. CASE StartWaiting
  <2>1. TypeOK'
    <3>1. waitingCount[ioWaiter] = 0
      BY <1>1, <1>2 DEF StartWaiting, CountIsExact, TypeOK
    <3>2. waitingCount' \in [Waiters -> {0, 1}]
      BY <1>1, <1>2, <3>1 DEF StartWaiting, TypeOK
    <3> QED
      BY <1>1, <1>2, <3>2 DEF StartWaiting, TypeOK
  <2>2. CountIsExact'
    BY <1>1, <1>2 DEF StartWaiting, CountIsExact, TypeOK
  <2>3. HolderIsCurrent' /\ HolderWhileAsleep' /\ EpollWhileReturned' /\ ClientsOwnLock'
        /\ NotificationIsKept'
    BY <1>1, <1>2 DEF StartWaiting, HolderIsCurrent, HolderWhileAsleep,
                      EpollWhileReturned, ClientsOwnLock, NotificationIsKept, Asleep, TypeOK
  <2> QED
    BY <2>1, <2>2, <2>3 DEF WaiterInv
<1>3. CASE NoneNotified
  BY <1>1, <1>3 DEF NoneNotified, WaiterInv, TypeOK, CountIsExact, HolderIsCurrent,
                    HolderWhileAsleep, EpollWhileReturned, ClientsOwnLock,
                    NotificationIsKept, Asleep
<1>4. CASE NoneTimeout
  BY <1>1, <1>4 DEF NoneTimeout, WaiterInv, TypeOK, CountIsExact, HolderIsCurrent,
                    HolderWhileAsleep, EpollWhileReturned, ClientsOwnLock,
                    NotificationIsKept, Asleep
<1>5. CASE EpollNotified
  BY <1>1, <1>5 DEF EpollNotified, WaiterInv, TypeOK, CountIsExact, HolderIsCurrent,
                    HolderWhileAsleep, EpollWhileReturned, ClientsOwnLock,
                    NotificationIsKept, Asleep
<1>6. CASE EpollReturn
  BY <1>1, <1>6 DEF EpollReturn, WaiterInv, TypeOK, CountIsExact, HolderIsCurrent,
                    HolderWhileAsleep, EpollWhileReturned, ClientsOwnLock,
                    NotificationIsKept, Asleep
<1>7. CASE DecreaseCount
  <2>1. holder \in Waiters
    BY <1>1, <1>7 DEF DecreaseCount, HolderWhileAsleep, Asleep, TypeOK
  <2>2. CountIsExact'
    <3>1. SUFFICES ASSUME NEW w \in Waiters
                   PROVE  waitingCount'[w] = 0
      BY <1>7 DEF DecreaseCount, CountIsExact
    <3>2. waitingCount[w] = IF w = holder /\ supportsFd[w] THEN 1 ELSE 0
      BY <1>1, <1>7 DEF DecreaseCount, CountIsExact
    <3>3. supportsFd[holder]
      BY <1>1, <1>7 DEF DecreaseCount, EpollWhileReturned
    <3> QED
      BY <1>1, <1>7, <3>2, <3>3 DEF DecreaseCount, TypeOK
  <2>3. waitingCount' \in [Waiters -> {0, 1}]
    BY <1>1, <1>7, <2>1, <2>2 DEF DecreaseCount, CountIsExact, TypeOK
  <2>4. TypeOK'
    BY <1>1, <1>7, <2>3 DEF DecreaseCount, TypeOK
  <2>5. HolderIsCurrent' /\ HolderWhileAsleep' /\ EpollWhileReturned' /\ ClientsOwnLock'
        /\ NotificationIsKept'
    BY <1>1, <1>7 DEF DecreaseCount, HolderIsCurrent, HolderWhileAsleep,
                      EpollWhileReturned, ClientsOwnLock, NotificationIsKept, Asleep
  <2> QED
    BY <2>2, <2>4, <2>5 DEF WaiterInv
<1>8. CASE Callback
  BY <1>1, <1>8 DEF Callback, WaiterInv, TypeOK, CountIsExact, HolderIsCurrent,
                    HolderWhileAsleep, EpollWhileReturned, ClientsOwnLock,
                    NotificationIsKept, Asleep
<1>9. CASE Drain
  BY <1>1, <1>9 DEF Drain, WaiterInv, TypeOK, CountIsExact, HolderIsCurrent,
                    HolderWhileAsleep, EpollWhileReturned, ClientsOwnLock,
                    NotificationIsKept, Asleep
<1>10. CASE Relock
  <2>1. TypeOK'
    BY <1>1, <1>10 DEF Relock, TypeOK
  <2>2. CountIsExact'
    BY <1>1, <1>10 DEF Relock, CountIsExact, TypeOK
  <2>3. ClientsOwnLock'
    BY <1>1, <1>10 DEF Relock, ClientsOwnLock, TypeOK
  <2>4. HolderIsCurrent' /\ HolderWhileAsleep' /\ EpollWhileReturned' /\ NotificationIsKept'
    BY <1>1, <1>10 DEF Relock, HolderIsCurrent, HolderWhileAsleep, EpollWhileReturned,
                       NotificationIsKept, Asleep
  <2> QED
    BY <2>1, <2>2, <2>3, <2>4 DEF WaiterInv
<1> QED
  BY <1>2, <1>3, <1>4, <1>5, <1>6, <1>7, <1>8, <1>9, <1>10 DEF Sleeper

\* The steps of a client, one by one.
LEMMA NotifierStep == ASSUME NEW c \in Clients, WaiterInv, Notifier(c) PROVE WaiterInv'
<1> USE WaiterAssumption DEF waiterVars, runnerVars
<1>1. TypeOK /\ CountIsExact /\ HolderIsCurrent /\ HolderWhileAsleep /\ EpollWhileReturned
      /\ ClientsOwnLock /\ NotificationIsKept
  BY DEF WaiterInv
<1>2. ASSUME NEW op \in {"notify", "listen"}, Lock(c, op) PROVE WaiterInv'
  BY <1>1, <1>2 DEF Lock, WaiterInv, TypeOK, CountIsExact, HolderIsCurrent,
                    HolderWhileAsleep, EpollWhileReturned, ClientsOwnLock,
                    NotificationIsKept, Signalled, Asleep
<1>3. CASE NotifyNone(c)
  <2>1. TypeOK' /\ CountIsExact' /\ HolderWhileAsleep' /\ EpollWhileReturned'
    BY <1>1, <1>3 DEF NotifyNone, Unlock, TypeOK, CountIsExact, HolderWhileAsleep,
                      EpollWhileReturned, Asleep
  <2>2. HolderIsCurrent'
    BY <1>1, <1>3 DEF NotifyNone, HolderIsCurrent, TypeOK
  <2>3. ClientsOwnLock'
    BY <1>1, <1>3 DEF NotifyNone, Unlock, ClientsOwnLock, TypeOK
  <2>4. NotificationIsKept'
    BY <1>1, <1>3 DEF NotifyNone, NotificationIsKept, Signalled, HolderIsCurrent, TypeOK
  <2> QED
    BY <2>1, <2>2, <2>3, <2>4 DEF WaiterInv
<1>4. CASE NotifyEpoll(c)
  <2>1. /\ TypeOK' /\ CountIsExact' /\ HolderWhileAsleep'
        /\ EpollWhileReturned' /\ HolderIsCurrent'
    BY <1>1, <1>4 DEF NotifyEpoll, Unlock, TypeOK, CountIsExact, HolderWhileAsleep,
                      EpollWhileReturned, HolderIsCurrent, Asleep
  <2>2. ClientsOwnLock'
    BY <1>1, <1>4 DEF NotifyEpoll, Unlock, ClientsOwnLock, TypeOK
  <2>3. pc = "unlocked" /\ waitingCount[ioWaiter] = 0 => Signalled
    BY <1>1, <1>4 DEF NotifyEpoll, CountIsExact, HolderIsCurrent, Signalled, TypeOK
  <2>4. NotificationIsKept'
    BY <1>1, <1>4, <2>3 DEF NotifyEpoll, Unlock, NotificationIsKept, Signalled, Asleep
  <2> QED
    BY <2>1, <2>2, <2>4 DEF WaiterInv
<1>5. CASE WriteAwaken(c)
  <2>1. /\ TypeOK' /\ CountIsExact' /\ HolderWhileAsleep'
        /\ EpollWhileReturned' /\ HolderIsCurrent'
    BY <1>1, <1>5 DEF WriteAwaken, Unlock, TypeOK, CountIsExact, HolderWhileAsleep,
                      EpollWhileReturned, HolderIsCurrent, Asleep
  <2>2. ClientsOwnLock'
    BY <1>1, <1>5 DEF WriteAwaken, Unlock, ClientsOwnLock, TypeOK
  <2>3. NotificationIsKept'
    BY <1>1, <1>5 DEF WriteAwaken, NotificationIsKept, Signalled, HolderIsCurrent,
                      ClientsOwnLock, TypeOK
  <2> QED
    BY <2>1, <2>2, <2>3 DEF WaiterInv
<1>6. CASE EnsureIoWaiterLocked(c)
  <2>1. CASE UNCHANGED <<waiterVars, told>> /\ lock' = Free
             /\ client' = [client EXCEPT ![c] = "idle"]
    BY <1>1, <1>6, <2>1 DEF EnsureIoWaiterLocked, WaiterInv, TypeOK, CountIsExact,
                            HolderIsCurrent,
            HolderWhileAsleep, EpollWhileReturned, ClientsOwnLock, NotificationIsKept,
            Signalled, Asleep
  <2>2. ASSUME NEW w \in Waiters, ~supportsFd[ioWaiter], Install(w), Unlock(c),
               pred' = [pred EXCEPT ![ioWaiter] = TRUE, ![w] = FALSE]
        PROVE  WaiterInv'
    <3>1. w # holder /\ w # ioWaiter /\ client[c] = "listen" /\ UNCHANGED runnerVars
      BY <1>6, <2>2 DEF Install, Unused, EnsureIoWaiterLocked
    <3>2. TypeOK'
      BY <1>1, <2>2, <3>1 DEF Install, Unlock, TypeOK
    <3>3. CountIsExact'
      BY <1>1, <2>2, <3>1 DEF Install, CountIsExact, TypeOK
    <3>4. HolderIsCurrent' /\ HolderWhileAsleep' /\ EpollWhileReturned'
      BY <1>1, <2>2, <3>1 DEF Install, HolderIsCurrent, HolderWhileAsleep, EpollWhileReturned,
                              Asleep, TypeOK
    <3>5. ClientsOwnLock'
      BY <1>1, <2>2, <3>1 DEF Install, Unlock, ClientsOwnLock, TypeOK
    <3>6. NotificationIsKept'
      BY <1>1, <2>2, <3>1 DEF Install, NotificationIsKept, Signalled, HolderIsCurrent,
                              HolderWhileAsleep, Asleep, TypeOK
    <3> QED
      BY <3>2, <3>3, <3>4, <3>5, <3>6 DEF WaiterInv
  <2> QED
    BY <1>6, <2>1, <2>2 DEF EnsureIoWaiterLocked
<1> QED
  BY <1>2, <1>3, <1>4, <1>5, <1>6 DEF Notifier

LEMMA StutterKeepsWaiterInv == WaiterInv /\ UNCHANGED vars => WaiterInv'
BY DEF vars, waiterVars, runnerVars, WaiterInv, TypeOK, CountIsExact, HolderIsCurrent,
       HolderWhileAsleep, EpollWhileReturned, ClientsOwnLock, NotificationIsKept, Signalled,
       Asleep

LEMMA WaiterInvHolds == Spec => []WaiterInv
<1>1. WaiterInv /\ [Next]_vars => WaiterInv'
  BY SleeperStep, NotifierStep, StutterKeepsWaiterInv DEF Next
<1> QED
  BY InitWaiterInv, <1>1, PTL DEF Spec

\* Types, and the waiting count is never negative (EpollIoWaiter::WaitFor would log it).
THEOREM WaiterTypes == Spec => []TypeOK
<1>1. WaiterInv => TypeOK
  BY DEF WaiterInv
<1> QED
  BY <1>1, WaiterInvHolds, PTL

\* No notification is lost between WaitFor and NotifyOne/NotifyAll, whatever the waiter and
\* however often it is replaced.
THEOREM NotificationsAreKept == Spec => []NotificationIsKept
<1>1. WaiterInv => NotificationIsKept
  BY DEF WaiterInv
<1> QED
  BY <1>1, WaiterInvHolds, PTL

\* Every step of the two waiters is a step of WaitNotify or leaves its variables alone. (That
\* a notified thread does wake is a matter of fairness, left to the model checker.)
THEOREM WaitersImplementWaitNotify == Spec => WN!Safety
<1>1. Init => WN!Init
  BY DEF Init, WN!Init, Asleep
<1>2. TypeOK /\ Next => [WN!Next]_(WN!vars)
  <2> SUFFICES ASSUME TypeOK, Next PROVE [WN!Next]_(WN!vars)
    OBVIOUS
  <2> USE DEF runnerVars, WN!Next, WN!vars, Asleep
  <2>1. CASE Sleeper
    BY <2>1 DEF Sleeper, StartWaiting, NoneNotified, NoneTimeout, EpollNotified, EpollReturn,
                DecreaseCount, Callback, Drain, Relock, WN!Sleep, WN!Tell, WN!Wake
  <2>2. ASSUME NEW c \in Clients, Notifier(c) PROVE [WN!Next]_(WN!vars)
    <3>1. UNCHANGED pc /\ (UNCHANGED told \/ told' = (told \/ Asleep))
      BY <2>2 DEF Notifier, Lock, NotifyNone, NotifyEpoll, WriteAwaken,
                  EnsureIoWaiterLocked, Unlock
    <3>2. told \in BOOLEAN
      BY DEF TypeOK
    <3> QED
      BY <3>1, <3>2 DEF WN!Tell
  <2> QED
    BY <2>1, <2>2 DEF Next
<1>3. UNCHANGED vars => UNCHANGED WN!vars
  BY DEF vars, runnerVars, WN!vars, Asleep
<1> QED
  BY <1>1, <1>2, <1>3, WaiterTypes, PTL DEF Spec, WN!Safety
=============================================================================
