------------------------ MODULE EventQueueProperties ------------------------
(***************************************************************************)
(* What EventQueueBase promises to the handlers that post to it and to the *)
(* thread it serves.                                                       *)
(***************************************************************************)
EXTENDS EventQueue

\* The times at which a list can become due: TimeMax stands for an empty one.
Times == (0 .. Far) \union {TimeMax}

ListTypes ==
    /\ queue \in [Queues -> Seq(Events)]
    /\ handleTime \in [Events -> 0 .. Far]
    /\ sendTime \in [Events -> {NotSent} \union (0 .. MaxTime)]
    /\ frontEventHandleTime \in [SubQueues -> Times]

PickTypes ==
    /\ handledEventsCount \in [SubQueues -> 0 .. MaxHandledCount]
    /\ passed \in [SubQueues -> Nat]
    /\ wakeUpTime \in 0 .. TimeMax
    /\ isIdle \in BOOLEAN
    /\ idleTimeStamp \in 0 .. MaxTime

VsyncTypes ==
    /\ sumOfPendingVsync \in -128 .. 127
    /\ needEpoll \in BOOLEAN
    /\ isLazyMode \in BOOLEAN
    /\ isBarrierMode \in BOOLEAN

RunTypes ==
    /\ pc \in {"stopped", "getEvent", "waiting", "polling", "execute",
               "vsyncLoad", "vsyncStore", "vsyncBarrier", "callback"}
    /\ current \in Events \union {NoEvent}
    /\ pc \in {"execute", "polling", "vsyncLoad", "vsyncStore", "vsyncBarrier", "callback"}
          <=> current # NoEvent
    /\ loaded \in -128 .. 127

\* Types: every variable of the queue ranges over what its C++ member can hold, and the
\* runner holds an event exactly while it is between GetEvent and the end of the callback.
TypeOK ==
    /\ now \in 0 .. MaxTime
    /\ ListTypes
    /\ PickTypes
    /\ VsyncTypes
    /\ RunTypes
    /\ finished \in BOOLEAN
    /\ notified \in BOOLEAN
    /\ alive \subseteq Handlers
    /\ dying \subseteq Handlers \ alive

\* Every list stays in the order of handle time, whatever mixture of AT_END and AT_FRONT
\* posts, delays, removals and pops built it: the scans of PickEventLocked look at the
\* heads only and stop at the first event that is not due.
ListsInTimeOrder == \A p \in Queues : InTimeOrder(queue[p], handleTime)

\* An event is held in one place: in one list, once, or by the runner. No interleaving of
\* posts, removals and pops loses track of the unique_ptr or distributes an event twice.
HeldOnce ==
    /\ \A p, q \in Queues : \A i \in DOMAIN queue[p], j \in DOMAIN queue[q] :
           queue[p][i] = queue[q][j] => p = q /\ i = j
    /\ ~Queued(current)

\* A queued event has an owner that lives, or whose destructor is still to clean up, however
\* the releases of several handlers, their posts and their clean-ups interleave. So the
\* RemoveAll of ~EventRunnerImpl, which runs when no handler refers to the runner any more,
\* finds the lists empty.
OrphansAreRemoved == \A e \in Events : Queued(e) => OwnerOf[e] \in alive \union dying

\* No wake-up is lost: while the runner sleeps and nobody has told it of anything, its
\* wake-up time is no later than the earliest queued event plus what the BEFORE_WAITING
\* observer was allowed to add, and it does not sleep over a pending vsync event.
NoLostWakeUp ==
    Waiting /\ ~notified =>
        \A p \in SubQueues : \A e \in Members(queue[p]) :
            /\ e \notin VsyncEvents
            /\ \E cost \in ObserverCosts : wakeUpTime <= handleTime[e] + cost

\* Starvation is bounded (DEFAULT_MAX_HANDLED_EVENT_COUNT): an event at the head of
\* priority p that could be taken is passed over by at most (M + 1)^p - 1 events of the
\* priorities above it in a row, M being the credit of each of these.
OvertakingBound(p) ==
    LET m == MaxHandledCount + 1
    IN  CASE p = VIP -> 0
          [] p = IMMEDIATE -> m - 1
          [] p = HIGH -> m * m - 1
          [] p = LOW -> m * m * m - 1

BoundedOvertaking == \A p \in SubQueues : passed[p] <= OvertakingBound(p)

\* Why: the credits the priorities above p have used up, read as the digits of a number,
\* count every overtaking of p. A pick that passes p over adds one to its own digit and
\* resets only the digits below, as a carry does.
CreditSpent(p) ==
    LET m == MaxHandledCount + 1
        c == handledEventsCount
    IN  CASE p = VIP -> 0
          [] p = IMMEDIATE -> c[VIP]
          [] p = HIGH -> c[VIP] + m * c[IMMEDIATE]
          [] p = LOW -> c[VIP] + m * c[IMMEDIATE] + m * m * c[HIGH]

CreditCovers == \A p \in SubQueues : passed[p] <= CreditSpent(p)

\* The cached head time that HasPendingHigherEvent reads without the lock
\* (GetQueueFirstEventHandleTime) is that of the head, but for the vsync event GetEvent
\* takes without refreshing it: such a head is never a normal one.
FrontTimesCoherent ==
    \A p \in SubQueues :
        \/ frontEventHandleTime[p] = HeadTime(queue[p], handleTime)
        \/ p = VIP /\ frontEventHandleTime[p] = Far /\ HeadTime(queue[p], handleTime) >= Far

\* The runner holds a vsync event whose decrement has not been stored yet.
InFlight == current \in VsyncEvents /\ pc \in {"execute", "vsyncLoad", "vsyncStore"}

\* sumOfPendingVsync_ never falls below the vsync events still to be run, though the
\* runner decrements it without the lock that orphan removal holds: a vsync event is
\* queued for 49 days ahead, and only a count above zero gets it distributed.
PendingVsyncCovers ==
    sumOfPendingVsync >= Cardinality(QueuedVsync) + (IF InFlight THEN 1 ELSE 0)

\* Barrier mode, in which ordinary events are held back, lasts only while vsync is thought
\* to be pending; above all the runner never falls asleep in it.
BarrierNeedsVsync ==
    isBarrierMode => sumOfPendingVsync # 0 \/ pc = "vsyncBarrier"

-----------------------------------------------------------------------------
(* Action properties *)

\* The place of an event in a list.
Position(s, e) == CHOOSE i \in DOMAIN s : s[i] = e

\* Order among equals: two events that stay in a list keep their order, and an event
\* posted AT_END for a time t goes behind everything that is due by t.
KeepsOrder ==
    \A p \in Queues : \A e, f \in Members(queue'[p]) :
        /\ e \in Members(queue[p]) /\ f \in Members(queue[p])
              /\ Position(queue[p], e) < Position(queue[p], f)
           => Position(queue'[p], e) < Position(queue'[p], f)
        /\ e \in Members(queue[p]) /\ f \notin Members(queue[p])
              /\ f \notin FrontEvents /\ handleTime[e] <= handleTime'[f]
           => Position(queue'[p], e) < Position(queue'[p], f)

OrderKept == [][KeepsOrder]_vars

\* The runner takes e in this step.
Takes(e) == current = NoEvent /\ current' = e

\* Priority::IDLE: "Event that should be distributed only if no other event right now".
\* An idle event is taken only when no event of another priority is due, outside barrier
\* mode; nor is it taken, or any event but vsync, ahead of its time.
IdleTakenLast ==
    \A e \in Events : Takes(e) =>
        /\ e \notin VsyncEvents => handleTime[e] <= now
        /\ e \in Members(queue[IDLE]) /\ ~isBarrierMode' =>
               \A p \in SubQueues : \A f \in Members(queue[p]) : handleTime[f] > now

IdleOnlyWhenNothingDue == [][IdleTakenLast]_vars

\* All the queue asks of its IO waiter is what WaitNotify promises, and IoWaiter keeps: the
\* runner's sleep and its notifications, under any posts, removals and clean-ups.
QN == INSTANCE WaitNotify WITH asleep <- Waiting, told <- notified

\* To its handlers the queue is EventDispatch. An event the runner has taken waits until
\* Execute finds its owner: what happens while TryEpollFd has given the lock up neither loses
\* nor repeats it, and no callback of a handler that is gone is run. An event of a living
\* handler leaves the queue for its callback only, unless the handler calls Remove.
Entries(S) == {[event |-> e, owner |-> OwnerOf[e]] : e \in S}
Executing == pc \in {"vsyncLoad", "vsyncStore", "vsyncBarrier", "callback"}
Pending == {e \in Events : Queued(e) \/ (e = current /\ ~Executing)}
InHand == {e \in Events : e = current /\ Executing}

ED == INSTANCE EventDispatch WITH
          RunnerOf    <- [h \in Handlers |-> "runner"],
          Cancellable <- {},
          posted      <- Entries(Pending),
          running     <- Entries(InHand),
          expired     <- Handlers \ alive

ImplementsEventDispatch == ED!Spec /\ [][ED!Serving \/ Remove]_(ED!vars)

-----------------------------------------------------------------------------
(* Liveness *)

\* An event posted with a priority other than IDLE is taken once its time has come, or
\* removed, unless the loop is finished first, for any order of the posts, removals and
\* barrier modes (each event is posted once: see LowIsServed for an endless stream). A
\* vsync event does not wait for its handle time.
EventsAreServed ==
    \A e \in Events :
        (/\ \E p \in SubQueues : e \in Members(queue[p])
         /\ e \in VsyncEvents \/ handleTime[e] <= MaxTime)
            ~> (finished \/ ~Queued(e))

\* Finish gets the runner out of GetEvent, wherever it is, unless Run is called again.
FinishIsObeyed == finished ~> (pc = "stopped" \/ ~finished)

-----------------------------------------------------------------------------
(* What the documentation says *)

\* event_queue_base.h: "To avoid starvation of lower priority event queue, give a chance to
\* process lower priority events, after continuous processing several higher priority
\* events."  So while the LOW queue has an event that is due, and older than whatever is
\* posted from now on, the runner goes on taking events from it.
LowIsReady == queue[LOW] # <<>> /\ handleTime[queue[LOW][1]] < now

LowIsServed ==
    \/ []<>(finished \/ ~LowIsReady)
    \/ []<><<\E e \in Members(queue[LOW]) : current' = e>>_vars
=============================================================================
