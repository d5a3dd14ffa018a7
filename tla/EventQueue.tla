----------------------------- MODULE EventQueue -----------------------------
(***************************************************************************)
(* EventQueueBase: the priority queues behind every EventRunner, and the   *)
(* loop of the one thread that serves them (GetEvent, ExecuteEventHandler).*)
(*                                                                         *)
(* Everything the code does under queueLock_ is one action.  The three     *)
(* places where the runner touches the queue without the lock are steps of *)
(* their own: waiting (WaitUntilLocked), polling for vsync (TryEpollFd)    *)
(* and the counter a vsync task decrements as it starts to run.            *)
(*                                                                         *)
(* Time is a bounded clock.  The vsync timing conditions (the delay before *)
(* barrier mode, its timeout, the poll period) compare the clock with      *)
(* values the display system supplies, so either outcome is possible.      *)
(***************************************************************************)
EXTENDS EventList

CONSTANTS
    Events,          \* event objects that handlers post
    VsyncEvents,     \* those posted by a vsync file descriptor listener
    BarrierTasks,    \* those MarkBarrierTaskIfNeed marks
    FrontEvents,     \* those posted with EventInsertType::AT_FRONT
    Handlers,        \* the EventHandlers that own events
    OwnerOf,         \* the owner of each event
    Priorities,      \* the priorities handlers post with
    Delays,          \* the delays handlers post with
    Lags,            \* how long a poster may wait for queueLock_ after reading the clock
    MaxHandledCount, \* DEFAULT_MAX_HANDLED_EVENT_COUNT
    MaxTime,         \* the last instant of the clock
    Far,             \* the handle time of a vsync event, UINT32_MAX ms ahead
    TimeMax,         \* InnerEvent::TimePoint::max()
    ObserverCosts,   \* how long the BEFORE_WAITING observer may take
    MaxPending,      \* bound on sumOfPendingVsync for a further vsync event to be posted
    LazyModes,       \* the arguments of SetVsyncLazyMode
    ForceWindows,    \* may SetVsyncFirstForceEnableTime be in force
    Reuse,           \* may a consumed event be posted again (bounds the run)
    NoEvent          \* the null InnerEvent::Pointer

VIP == 0
IMMEDIATE == 1
HIGH == 2
LOW == 3
IDLE == 4
SubQueues == VIP .. LOW
Queues == VIP .. IDLE

ASSUME EventAssumption ==
    /\ VsyncEvents \subseteq Events
    /\ BarrierTasks \subseteq Events \ VsyncEvents
    /\ FrontEvents \subseteq Events \ VsyncEvents
    /\ OwnerOf \in [Events -> Handlers]
    /\ NoEvent \notin Events

ASSUME ParameterAssumption ==
    /\ Priorities \subseteq Queues
    /\ MaxHandledCount \in Nat \ {0}
    /\ LazyModes \subseteq BOOLEAN
    /\ ForceWindows \subseteq BOOLEAN
    /\ Reuse \in BOOLEAN

ASSUME TimeAssumption ==
    /\ MaxTime \in Nat
    /\ Far \in Nat
    /\ TimeMax \in Nat
    /\ Far < TimeMax
    /\ Delays \subseteq Nat
    /\ Lags \subseteq Nat
    /\ ObserverCosts \subseteq Nat
    /\ 0 \in ObserverCosts
    /\ \A d \in Delays : MaxTime + d < Far
    /\ \A c \in ObserverCosts : Far + c <= TimeMax

ASSUME VsyncAssumption ==
    /\ IsFiniteSet(VsyncEvents)
    /\ MaxPending \in 0 .. 127

VARIABLES
    now,                  \* InnerEvent::Clock
    queue,                \* subEventQueues_[p].queue, and idleEvents_ at IDLE
    handleTime,           \* per event
    sendTime,             \* per event
    frontEventHandleTime, \* subEventQueues_[p].frontEventHandleTime
    handledEventsCount,   \* subEventQueues_[p].handledEventsCount
    wakeUpTime,           \* wakeUpTime_
    isIdle,               \* EventQueueBase::isIdle_
    idleTimeStamp,        \* idleTimeStamp_
    finished,             \* finished_
    sumOfPendingVsync,    \* sumOfPendingVsync_, an int8_t
    needEpoll,            \* needEpoll_
    isLazyMode,           \* isLazyMode_
    isBarrierMode,        \* isBarrierMode_
    pc,                   \* where the runner's thread is
    current,              \* the event it holds
    loaded,               \* sumOfPendingVsync_ as the vsync task has read it
    notified,             \* a notification the waiting runner has not seen yet
    alive,                \* handlers that still exist
    dying,                \* handlers whose destructor has not cleaned up yet
    passed                \* auxiliary: see NextPassed

listVars  == <<queue, handleTime, sendTime, frontEventHandleTime>>
pickVars  == <<handledEventsCount, wakeUpTime, isIdle, idleTimeStamp, passed>>
vsyncVars == <<sumOfPendingVsync, needEpoll, isLazyMode, isBarrierMode>>
runVars   == <<pc, current, loaded>>
ownerVars == <<alive, dying>>
vars == <<now, listVars, pickVars, finished, vsyncVars, runVars, notified, ownerVars>>

-----------------------------------------------------------------------------
(* Helpers *)

NotSent == -1

Int8(x) == ((x + 128) % 256) - 128

Queued(e) == \E p \in Queues : e \in Members(queue[p])

OwnedBy(h) == {e \in Events : OwnerOf[e] = h}

\* An event object that a handler can fill in and post.
Fresh(e) == ~Queued(e) /\ e # current /\ sendTime[e] = NotSent

HeadTime(s, time) == IF s = <<>> THEN TimeMax ELSE time[s[1]]

FrontTimes(q, time) == [p \in SubQueues |-> HeadTime(q[p], time)]

\* What becomes of the time stamps of events that have been consumed.
Forget(S) ==
    /\ sendTime' = [e \in Events |->
                        IF e \notin S THEN sendTime[e] ELSE IF Reuse THEN NotSent ELSE 0]
    /\ handleTime' = [e \in Events |-> IF e \in S THEN 0 ELSE handleTime[e]]

Waiting == pc = "waiting"

-----------------------------------------------------------------------------
(* Insert, called by EventHandler::SendEvent, PostTaskAtFront, PostTaskAtTail *)

\* Mutant of InsertTime: an AT_FRONT event keeps the time it was posted for.
InsertTimeAsPosted(e, p, t) == t

\* InsertEventsLocked: the handle time an AT_FRONT event gets, and its place.
InsertTime(e, p, t) ==
    IF e \in FrontEvents /\ queue[p] # <<>> /\ handleTime[queue[p][1]] < t
    THEN handleTime[queue[p][1]] ELSE t

InsertEventsLocked(e, p, t) ==
    LET time == [handleTime EXCEPT ![e] = InsertTime(e, p, t)]
        k == IF e \in FrontEvents THEN 0 ELSE NotLaterPrefix(queue[p], e, time)
    IN  /\ handleTime' = time
        /\ queue' = [queue EXCEPT ![p] = InsertBehind(queue[p], k, e)]

\* Mutant of NeedNotify: wakeUpTime_ is only looked at for being in the past.
NeedNotifyLateOnly(e, p, t) == p # IDLE /\ (wakeUpTime < now \/ e \in VsyncEvents)

\* Is the runner told of an event of priority p for time t?
NeedNotify(e, p, t) ==
    p # IDLE /\ (t < wakeUpTime \/ wakeUpTime < now \/ e \in VsyncEvents)

\* DispatchVsyncTaskNotify
DispatchVsyncTaskNotify ==
    /\ sumOfPendingVsync' = Int8(sumOfPendingVsync + 1)
    /\ needEpoll' = TRUE
    /\ UNCHANGED <<isLazyMode, isBarrierMode>>

Insert(e, p, sent, t) ==
    /\ Fresh(e)
    /\ OwnerOf[e] \in alive
    /\ InsertEventsLocked(e, p, t)
    /\ sendTime' = [sendTime EXCEPT ![e] = sent]
    /\ frontEventHandleTime' =
           [q \in SubQueues |-> IF q = p THEN HeadTime(queue'[p], handleTime')
                                ELSE frontEventHandleTime[q]]
    /\ notified' = (notified \/ (Waiting /\ NeedNotify(e, p, t)))
    /\ IF e \in VsyncEvents THEN DispatchVsyncTaskNotify ELSE UNCHANGED vsyncVars
    /\ UNCHANGED <<now, pickVars, finished, runVars, ownerVars>>

\* A handler posts from any thread, or from the callback the runner executes.
SendEvent ==
    \E e \in Events \ VsyncEvents, p \in Priorities, d \in Delays, lag \in Lags :
        /\ lag <= now
        /\ e \in FrontEvents => d = 0
        /\ Insert(e, p, now - lag, now - lag + d)

\* HandleFileDescriptorEvent, PostTaskForVsync: the runner's own epoll wait finds the
\* vsync descriptor readable and posts at VIP, with a handle time out of reach.
PostVsync ==
    /\ pc \in {"waiting", "polling"}
    /\ sumOfPendingVsync < MaxPending
    /\ \E e \in VsyncEvents : Insert(e, VIP, now, Far)

-----------------------------------------------------------------------------
(* Removal *)

\* Mutant of Erase: the cached head times are not refreshed.
EraseKeepsTimes(S) ==
    /\ queue' = [p \in Queues |-> RemoveIf(queue[p], S)]
    /\ UNCHANGED frontEventHandleTime
    /\ Forget({e \in S : Queued(e)})

Erase(S) ==
    /\ queue' = [p \in Queues |-> RemoveIf(queue[p], S)]
    /\ frontEventHandleTime' = FrontTimes(queue', handleTime)
    /\ Forget({e \in S : Queued(e)})

\* The overloads of Remove: every filter selects among the events of one owner.
Remove ==
    /\ \E h \in alive : \E S \in SUBSET OwnedBy(h) :
           (\E e \in S : Queued(e)) /\ Erase(S)
    /\ UNCHANGED <<now, pickVars, finished, vsyncVars, runVars, notified, ownerVars>>

\* The last reference to a handler goes; the runner holds one while it distributes.
ReleaseHandler(h) ==
    /\ h \in alive
    /\ pc \in {"vsyncLoad", "vsyncStore", "vsyncBarrier", "callback"} => OwnerOf[current] # h
    /\ alive' = alive \ {h}
    /\ dying' = dying \union {h}
    /\ UNCHANGED <<now, listVars, pickVars, finished, vsyncVars, runVars, notified>>

\* Mutant of RemoveOrphan: the idle events are left in their list.
RemoveOrphanNotIdle(h) ==
    LET orphans == {e \in Events : OwnerOf[e] \notin alive} \ Members(queue[IDLE])
    IN  /\ h \in dying
        /\ dying' = dying \ {h}
        /\ Erase(orphans)
        /\ UNCHANGED <<now, pickVars, finished, vsyncVars, runVars, notified, alive>>

\* ~EventHandler: RemoveOrphan, which also takes back the vsync notifications.
RemoveOrphan(h) ==
    LET orphans == {e \in Events : OwnerOf[e] \notin alive}
        vsync == {e \in orphans \intersect VsyncEvents : Queued(e)}
    IN  /\ h \in dying
        /\ dying' = dying \ {h}
        /\ Erase(orphans)
        /\ sumOfPendingVsync' = Int8(sumOfPendingVsync - Cardinality(vsync))
        /\ isBarrierMode' = (isBarrierMode /\ vsync = {})
        /\ needEpoll' = (needEpoll /\ vsync = {})
        /\ UNCHANGED <<now, pickVars, finished, isLazyMode, runVars, notified, alive>>

-----------------------------------------------------------------------------
(* Picking an event *)

\* CheckEventInListLocked down the priorities: due, and earlier than every head above.
EligibleQueues ==
    {p \in SubQueues :
        /\ queue[p] # <<>>
        /\ handleTime[queue[p][1]] <= now
        /\ \A q \in SubQueues : q < p => handleTime[queue[p][1]] < HeadTime(queue[q], handleTime)}

\* CheckBarrierTaskInListLocked: a barrier task among the events that are due.
BarrierQueues ==
    {p \in SubQueues : \E i \in DOMAIN queue[p] :
        /\ queue[p][i] \in BarrierTasks
        /\ \A j \in 1 .. i : handleTime[queue[p][j]] <= now}

Candidates(barrier) == IF barrier THEN BarrierQueues ELSE EligibleQueues

\* Mutant of IsChosen: the credit is counted but never checked.
IsChosenAnyCredit(E, p) == p \in E /\ \A q \in E : p <= q

\* The queue PickEventLocked stops at: the first candidate that still has credit, else the last.
IsChosen(E, p) ==
    /\ p \in E
    /\ handledEventsCount[p] < MaxHandledCount \/ \A q \in E : q <= p
    /\ \A q \in E : q < p => handledEventsCount[q] >= MaxHandledCount

Chosen(E) == CHOOSE p \in E : IsChosen(E, p)

\* It stopped because of a candidate below, which costs the chosen queue one credit.
Contended(E) == \E q \in E : q > Chosen(E)

QueuedVsync == {e \in VsyncEvents : e \in Members(queue[VIP])}

\* A vsync event goes before HIGH and LOW once the descriptor has been polled.
VsyncOvertakes(E) ==
    /\ E = {} \/ Chosen(E) >= HIGH
    /\ sumOfPendingVsync # 0 /\ ~needEpoll
    /\ QueuedVsync # {}

PickEventLocked(barrier) ==
    LET E == Candidates(barrier)
    IN  IF VsyncOvertakes(E) THEN FirstIn(queue[VIP], VsyncEvents)
        ELSE IF E = {} THEN NoEvent
        ELSE IF barrier THEN FirstIn(queue[Chosen(E)], BarrierTasks)
        ELSE queue[Chosen(E)][1]

\* Mutant of NextHandledCount: the reset reaches the chosen queue too (<= for <).
NextHandledCountResetOwn(E) ==
    [p \in SubQueues |-> IF E # {} /\ p <= Chosen(E) THEN 0 ELSE handledEventsCount[p]]

NextHandledCount(E) ==
    [p \in SubQueues |->
        IF E = {} THEN handledEventsCount[p]
        ELSE IF p = Chosen(E) /\ Contended(E) THEN handledEventsCount[p] + 1
        ELSE IF p < Chosen(E) /\ ~VsyncOvertakes(E) THEN 0
        ELSE handledEventsCount[p]]

\* wakeUpTime_ after the scan: the earliest head of the queues it has looked at.
ScannedHeads(E) ==
    {HeadTime(queue[p], handleTime) : p \in
        {p \in SubQueues : E = {} \/ ~Contended(E)
                            \/ \A q \in E : q > Chosen(E) => p <= q}}

Earliest(E) == CHOOSE t \in ScannedHeads(E) : \A u \in ScannedHeads(E) : t <= u

(***************************************************************************)
(* passed[p]: how many events of higher priority have been taken in a row  *)
(* while the head of p was a candidate too.                                *)
(***************************************************************************)
NextPassed(E) ==
    [p \in SubQueues |->
        IF p \notin E THEN 0
        ELSE IF VsyncOvertakes(E) THEN passed[p]
        ELSE IF Chosen(E) < p THEN passed[p] + 1
        ELSE 0]

\* Mutant of IdleCandidates: the handle time of an idle event is not looked at.
IdleCandidatesAnyTime(barrier, stamp) ==
    LET s == queue[IDLE]
    IN  IF s # <<>> /\ sendTime[s[1]] <= stamp THEN {s[1]} ELSE {}

\* The idle events GetExpiredEventLocked may take when nothing else can be: the front
\* one, or the barrier tasks, sent before the queue went idle and due.
IdleCandidates(barrier, stamp) ==
    LET s == queue[IDLE]
        ready(e) == sendTime[e] <= stamp /\ handleTime[e] <= now
    IN  IF barrier THEN {e \in Members(s) \intersect BarrierTasks : ready(e)}
        ELSE IF s # <<>> /\ ready(s[1]) THEN {s[1]} ELSE {}

\* The stamp in force once this call has found nothing to distribute.
IdleStamp == IF isIdle THEN idleTimeStamp ELSE now

\* What GetExpiredEventLocked returns.
ExpiredEvent(barrier) ==
    LET picked == PickEventLocked(barrier)
        idle == IdleCandidates(barrier, IdleStamp)
    IN  IF picked # NoEvent THEN picked
        ELSE IF idle # {} THEN FirstIn(queue[IDLE], idle)
        ELSE NoEvent

\* The state GetExpiredEventLocked leaves, but for the lists.
GetExpiredEventLocked(barrier) ==
    LET E == Candidates(barrier)
        picked == PickEventLocked(barrier)
    IN  /\ handledEventsCount' = NextHandledCount(E)
        /\ passed' = NextPassed(E)
        /\ isIdle' = (picked = NoEvent)
        /\ idleTimeStamp' = IF picked = NoEvent THEN IdleStamp ELSE idleTimeStamp

\* The event leaves its list; only a picked one refreshes its priority's cached time.
Pop(e, refresh) ==
    /\ queue' = [p \in Queues |-> RemoveIf(queue[p], {e})]
    /\ frontEventHandleTime' =
           [p \in SubQueues |-> IF refresh /\ e \in Members(queue[p])
                                THEN HeadTime(queue'[p], handleTime)
                                ELSE frontEventHandleTime[p]]
    /\ UNCHANGED <<handleTime, sendTime>>
    /\ current' = e

-----------------------------------------------------------------------------
(* The runner's thread *)

\* CheckBarrierMode, with the outcome of its time conditions.
LazyAfterForce(forced) == isLazyMode /\ ~forced

\* Mutant of EntersBarrier: barrier mode without a pending vsync.
EntersBarrierFreely(lazy, elapsed) == ~lazy /\ ~isBarrierMode /\ elapsed

EntersBarrier(lazy, elapsed) ==
    ~lazy /\ ~isBarrierMode /\ sumOfPendingVsync # 0 /\ elapsed

LeavesBarrier(lazy, elapsed) ==
    isBarrierMode /\ needEpoll /\ elapsed

CheckBarrierMode(forced, elapsed) ==
    LET lazy == LazyAfterForce(forced)
    IN  IF EntersBarrier(lazy, elapsed) THEN [barrier |-> TRUE, lazy |-> lazy]
        ELSE IF LeavesBarrier(lazy, elapsed) THEN [barrier |-> FALSE, lazy |-> TRUE]
        ELSE [barrier |-> isBarrierMode, lazy |-> lazy]

\* EventRunnerImpl::Run: Prepare, then the loop over GetEvent.
Run ==
    /\ pc = "stopped"
    /\ finished' = FALSE
    /\ pc' = "getEvent"
    /\ UNCHANGED <<now, listVars, pickVars, vsyncVars, current, loaded, notified, ownerVars>>

\* while (!finished_) ends: GetEvent returns nullptr and the loop is left.
ExitLoop ==
    /\ pc = "getEvent"
    /\ finished
    /\ pc' = "stopped"
    /\ UNCHANGED <<now, listVars, pickVars, finished, vsyncVars, current, loaded, notified, ownerVars>>

\* An event is due: return it, or first poll the descriptors for vsync (TryEpollFd).
TakeExpired(mode) ==
    /\ ExpiredEvent(mode.barrier) # NoEvent
    /\ GetExpiredEventLocked(mode.barrier)
    /\ Pop(ExpiredEvent(mode.barrier), PickEventLocked(mode.barrier) # NoEvent)
    /\ wakeUpTime' = Earliest(Candidates(mode.barrier))
    /\ \E pollDue \in BOOLEAN :
           pc' = IF ~mode.lazy /\ sumOfPendingVsync = 0 /\ (needEpoll \/ pollDue)
                 THEN "polling" ELSE "execute"
    /\ UNCHANGED <<now, needEpoll, sumOfPendingVsync>>

\* Nothing is due but vsync is pending: take it, whatever its handle time.
TakePendingVsync(mode) ==
    /\ ExpiredEvent(mode.barrier) = NoEvent
    /\ sumOfPendingVsync # 0
    /\ QueuedVsync # {}
    /\ GetExpiredEventLocked(mode.barrier)
    /\ Pop(FirstIn(queue[VIP], VsyncEvents), FALSE)
    /\ wakeUpTime' = Earliest(Candidates(mode.barrier))
    /\ pc' = "execute"
    /\ UNCHANGED <<now, needEpoll, sumOfPendingVsync>>

\* Mutant of ResetPendingVsync: the count is reset whatever is queued.
ResetAnyPendingVsync(mode) ==
    /\ ExpiredEvent(mode.barrier) = NoEvent
    /\ sumOfPendingVsync # 0
    /\ GetExpiredEventLocked(mode.barrier)
    /\ wakeUpTime' = Earliest(Candidates(mode.barrier))
    /\ sumOfPendingVsync' = 0
    /\ UNCHANGED <<now, listVars, needEpoll, pc, current>>

\* The count says vsync is pending but none is queued: reset it and try again.
ResetPendingVsync(mode) ==
    /\ ExpiredEvent(mode.barrier) = NoEvent
    /\ sumOfPendingVsync # 0
    /\ QueuedVsync = {}
    /\ GetExpiredEventLocked(mode.barrier)
    /\ wakeUpTime' = Earliest(Candidates(mode.barrier))
    /\ sumOfPendingVsync' = 0
    /\ UNCHANGED <<now, listVars, needEpoll, pc, current>>

\* Nothing at all: run the BEFORE_WAITING observer, then wait. What the observer took is
\* added to the time at which the wait ends.
StartWaiting(mode) ==
    /\ ExpiredEvent(mode.barrier) = NoEvent
    /\ sumOfPendingVsync = 0
    /\ GetExpiredEventLocked(mode.barrier)
    /\ \E cost \in ObserverCosts :
           /\ now + cost <= MaxTime
           /\ now' = now + cost
           /\ LET t == Earliest(Candidates(mode.barrier))
              IN  wakeUpTime' = IF t < TimeMax THEN t + cost ELSE t
    /\ pc' = "waiting"
    /\ UNCHANGED <<listVars, needEpoll, sumOfPendingVsync, current>>

\* One round of the loop in GetEvent, all under queueLock_.
GetEvent ==
    /\ pc = "getEvent"
    /\ ~finished
    /\ \E forced \in ForceWindows, elapsed \in BOOLEAN :
           LET mode == CheckBarrierMode(forced, elapsed)
           IN  /\ isLazyMode' = mode.lazy
               /\ \/ TakeExpired(mode) /\ isBarrierMode' = mode.barrier
                  \/ TakePendingVsync(mode) /\ isBarrierMode' = mode.barrier
                  \/ ResetPendingVsync(mode) /\ isBarrierMode' = FALSE
                  \/ StartWaiting(mode) /\ isBarrierMode' = mode.barrier
    /\ UNCHANGED <<finished, loaded, notified, ownerVars>>

\* WaitUntilLocked returns: on a notification, at the time asked for, or for no reason.
WakeUp ==
    /\ Waiting
    /\ pc' = "getEvent"
    /\ needEpoll' = FALSE
    /\ notified' = FALSE
    /\ UNCHANGED <<now, listVars, pickVars, finished, sumOfPendingVsync, isLazyMode,
                   isBarrierMode, current, loaded, ownerVars>>

\* Mutant of EndPoll: the event is forgotten over the wait.
EndPollLosing ==
    /\ pc = "polling"
    /\ needEpoll' = (needEpoll /\ sumOfPendingVsync # 0)
    /\ pc' = "getEvent"
    /\ current' = NoEvent
    /\ Forget({current})
    /\ UNCHANGED <<now, queue, frontEventHandleTime, pickVars, finished, sumOfPendingVsync,
                   isLazyMode, isBarrierMode, loaded, notified, ownerVars>>

\* TryEpollFd after its wait; GetEvent then returns the event it had already taken.
EndPoll ==
    /\ pc = "polling"
    /\ needEpoll' = (needEpoll /\ sumOfPendingVsync # 0)
    /\ pc' = "execute"
    /\ UNCHANGED <<now, listVars, pickVars, finished, sumOfPendingVsync, isLazyMode,
                   isBarrierMode, current, loaded, notified, ownerVars>>

\* ExecuteEventHandler: an event that has lost its owner is dropped.
Execute ==
    /\ pc = "execute"
    /\ IF OwnerOf[current] \notin alive
       THEN /\ pc' = "getEvent"
            /\ current' = NoEvent
            /\ Forget({current})
       ELSE /\ pc' = IF current \in VsyncEvents THEN "vsyncLoad" ELSE "callback"
            /\ UNCHANGED <<current, sendTime, handleTime>>
    /\ UNCHANGED <<now, queue, frontEventHandleTime, pickVars, finished,
                   vsyncVars, loaded, notified, ownerVars>>

\* A vsync task starts with --sumOfPendingVsync_ and SetBarrierMode(false), unlocked.
LoadPendingVsync ==
    /\ pc = "vsyncLoad"
    /\ loaded' = sumOfPendingVsync
    /\ pc' = "vsyncStore"
    /\ UNCHANGED <<now, listVars, pickVars, finished, vsyncVars, current, notified, ownerVars>>

StorePendingVsync ==
    /\ pc = "vsyncStore"
    /\ sumOfPendingVsync' = Int8(loaded - 1)
    /\ loaded' = 0
    /\ pc' = "vsyncBarrier"
    /\ UNCHANGED <<now, listVars, pickVars, finished, needEpoll, isLazyMode, isBarrierMode,
                   current, notified, ownerVars>>

ClearBarrier ==
    /\ pc = "vsyncBarrier"
    /\ isBarrierMode' = FALSE
    /\ pc' = "callback"
    /\ UNCHANGED <<now, listVars, pickVars, finished, sumOfPendingVsync, needEpoll, isLazyMode,
                   current, loaded, notified, ownerVars>>

\* The callback returns and the event is released.
EndCallback ==
    /\ pc = "callback"
    /\ pc' = "getEvent"
    /\ current' = NoEvent
    /\ Forget({current})
    /\ UNCHANGED <<now, queue, frontEventHandleTime, pickVars, finished,
                   vsyncVars, loaded, notified, ownerVars>>

-----------------------------------------------------------------------------
(* Everyone else *)

\* Mutant of Finish: the flag is set and nobody is told.
FinishSilently ==
    /\ ~finished
    /\ finished' = TRUE
    /\ UNCHANGED <<now, listVars, pickVars, vsyncVars, runVars, notified, ownerVars>>

\* EventRunner::Stop, ~EventRunner and the thread collector call Finish.
Finish ==
    /\ ~finished
    /\ finished' = TRUE
    /\ notified' = (notified \/ Waiting)
    /\ UNCHANGED <<now, listVars, pickVars, vsyncVars, runVars, ownerVars>>

SetVsyncLazyMode ==
    /\ isLazyMode' \in LazyModes
    /\ UNCHANGED <<now, listVars, pickVars, finished, sumOfPendingVsync, needEpoll,
                   isBarrierMode, runVars, notified, ownerVars>>

Tick ==
    /\ now < MaxTime
    /\ now' = now + 1
    /\ UNCHANGED <<listVars, pickVars, finished, vsyncVars, runVars, notified, ownerVars>>

Init ==
    /\ now = 0
    /\ queue = [p \in Queues |-> <<>>]
    /\ handleTime = [e \in Events |-> 0]
    /\ sendTime = [e \in Events |-> NotSent]
    /\ frontEventHandleTime = [p \in SubQueues |-> TimeMax]
    /\ handledEventsCount = [p \in SubQueues |-> 0]
    /\ passed = [p \in SubQueues |-> 0]
    /\ wakeUpTime = TimeMax
    /\ isIdle = TRUE
    /\ idleTimeStamp = 0
    /\ finished = TRUE
    /\ sumOfPendingVsync = 0
    /\ needEpoll = FALSE
    /\ isLazyMode = TRUE
    /\ isBarrierMode = FALSE
    /\ pc = "stopped"
    /\ current = NoEvent
    /\ loaded = 0
    /\ notified = FALSE
    /\ alive = Handlers
    /\ dying = {}

Runner ==
    \/ Run \/ ExitLoop \/ GetEvent \/ WakeUp \/ EndPoll \/ Execute
    \/ LoadPendingVsync \/ StorePendingVsync \/ ClearBarrier \/ EndCallback

Clients ==
    \/ SendEvent \/ PostVsync \/ Remove \/ Finish \/ SetVsyncLazyMode \/ Tick
    \/ \E h \in Handlers : ReleaseHandler(h) \/ RemoveOrphan(h)

Next == Runner \/ Clients

\* The scheduler runs the runner's thread, a wait ends when it has been notified or its
\* time has come, and the clock advances. Nothing obliges a client to act.
Fairness ==
    /\ WF_vars(GetEvent \/ ExitLoop \/ EndPoll \/ Execute)
    /\ WF_vars(LoadPendingVsync \/ StorePendingVsync \/ ClearBarrier \/ EndCallback)
    /\ WF_vars(WakeUp /\ (notified \/ wakeUpTime <= now))
    /\ WF_vars(Tick)

Spec == Init /\ [][Next]_vars

FairSpec == Spec /\ Fairness
=============================================================================
