-------------------------- MODULE EventQueueProofs --------------------------
(***************************************************************************)
(* What is proved of the event queue for all values of the constants: its  *)
(* types and its bound on overtaking; that events are held once and in the *)
(* order of time, that a pending vsync event is always accounted for, that *)
(* no wake-up is lost and nothing is left behind by a dead handler.        *)
(***************************************************************************)
EXTENDS EventQueueProperties, EventListProofs

Assumptions == EventAssumption /\ ParameterAssumption /\ TimeAssumption /\ VsyncAssumption

LEMMA AssumptionsHold == Assumptions
BY EventAssumption, ParameterAssumption, TimeAssumption, VsyncAssumption DEF Assumptions

-----------------------------------------------------------------------------
(* The helpers return what their names say. *)

LEMMA QueuesAre == SubQueues = {0, 1, 2, 3} /\ Queues = {0, 1, 2, 3, 4}
BY DEF SubQueues, Queues, VIP, LOW, IDLE

LEMMA Int8Type == ASSUME NEW x \in Int PROVE Int8(x) \in -128 .. 127
BY DEF Int8

LEMMA Int8Exact == ASSUME NEW x \in -128 .. 127 PROVE Int8(x) = x
BY DEF Int8

LEMMA HeadTimeType ==
    ASSUME NEW s \in Seq(Events), NEW time \in [Events -> 0 .. Far]
    PROVE  HeadTime(s, time) \in Times
<1>1. CASE s = <<>>
  BY <1>1 DEF HeadTime, Times
<1>2. CASE s # <<>>
  <2>1. s[1] \in Events
    BY <1>2
  <2> QED
    BY <1>2, <2>1 DEF HeadTime, Times
<1> QED
  BY <1>1, <1>2

\* PickEventLocked stops at a queue that has something to take.
LEMMA ChosenProperties ==
    ASSUME NEW E \in SUBSET SubQueues, E # {},
           handledEventsCount \in [SubQueues -> 0 .. MaxHandledCount]
    PROVE  IsChosen(E, Chosen(E))
<1> DEFINE C == {p \in E : handledEventsCount[p] < MaxHandledCount}
<1>1. E \in SUBSET Nat /\ \A p \in E : p <= 3
  BY QueuesAre
<1>a. MaxHandledCount \in Int /\ \A p \in E : handledEventsCount[p] \in Int
  BY ParameterAssumption
<1>2. \E p \in E : IsChosen(E, p)
  <2>1. CASE C = {}
    <3>1. PICK p \in E : \A q \in E : q <= p
      BY <1>1, GreatestNat
    <3> QED
      BY <1>1, <1>a, <2>1, <3>1 DEF IsChosen
  <2>2. CASE C # {}
    <3>1. PICK p \in C : \A q \in C : p <= q
      BY <1>1, <2>2, LeastNat
    <3> QED
      BY <1>1, <1>a, <3>1 DEF IsChosen
  <2> QED
    BY <2>1, <2>2
<1> QED
  BY <1>2 DEF Chosen

LEMMA CandidatesAreQueues == \A b : Candidates(b) \in SUBSET SubQueues
BY DEF Candidates, EligibleQueues, BarrierQueues

LEMMA ForgetType ==
    ASSUME ListTypes, NEW S, Forget(S)
    PROVE  /\ handleTime' \in [Events -> 0 .. Far]
           /\ sendTime' \in [Events -> {NotSent} \union (0 .. MaxTime)]
BY TimeAssumption DEF Forget, ListTypes

LEMMA FrontTimesType ==
    ASSUME NEW q \in [Queues -> Seq(Events)], NEW time \in [Events -> 0 .. Far]
    PROVE  FrontTimes(q, time) \in [SubQueues -> Times]
<1>1. \A p \in SubQueues : q[p] \in Seq(Events)
  BY QueuesAre
<1> QED
  BY <1>1, HeadTimeType DEF FrontTimes

LEMMA EraseType ==
    ASSUME ListTypes, NEW S, Erase(S)
    PROVE  ListTypes'
<1>1. queue' \in [Queues -> Seq(Events)]
  BY RemoveIfProperties DEF Erase, ListTypes
<1>2. frontEventHandleTime' \in [SubQueues -> Times]
  BY <1>1, FrontTimesType DEF Erase, ListTypes
<1> QED
  BY <1>1, <1>2, ForgetType DEF Erase, ListTypes

LEMMA PopType ==
    ASSUME ListTypes, NEW e, NEW r, Pop(e, r)
    PROVE  ListTypes'
<1>1. queue' \in [Queues -> Seq(Events)]
  BY RemoveIfProperties DEF Pop, ListTypes
<1>2. ASSUME NEW p \in SubQueues
      PROVE  frontEventHandleTime'[p] \in Times
  <2>1. HeadTime(queue'[p], handleTime) \in Times
    BY <1>1, HeadTimeType, QueuesAre DEF ListTypes
  <2> QED
    BY <2>1 DEF Pop, ListTypes
<1>3. frontEventHandleTime' \in [SubQueues -> Times]
  BY <1>2 DEF Pop
<1> QED
  BY <1>1, <1>3 DEF Pop, ListTypes

\* Where an event goes, and for which time.
LEMMA InsertPlace ==
    ASSUME ListTypes, NEW e \in Events, NEW p \in Queues, NEW t \in 0 .. Far,
           NEW time, time = [handleTime EXCEPT ![e] = InsertTime(e, p, t)],
           NEW k, k = IF e \in FrontEvents THEN 0 ELSE NotLaterPrefix(queue[p], e, time)
    PROVE  /\ InsertTime(e, p, t) \in 0 .. Far
           /\ time \in [Events -> 0 .. Far]
           /\ k \in 0 .. Len(queue[p])
           /\ e \notin FrontEvents =>
                 /\ k # 0 => time[queue[p][k]] <= time[e]
                 /\ \A j \in (k + 1) .. Len(queue[p]) : time[queue[p][j]] > time[e]
<1>1. queue[p] \in Seq(Events) /\ Far \in Nat
  BY TimeAssumption DEF ListTypes
<1>2. InsertTime(e, p, t) \in 0 .. Far
  <2>1. queue[p] # <<>> => queue[p][1] \in Events
    BY <1>1
  <2> QED
    BY <2>1 DEF InsertTime, ListTypes
<1>3. time \in [Events -> 0 .. Far] /\ time \in [Events -> Int]
  BY <1>1, <1>2 DEF ListTypes
<1>4. CASE e \in FrontEvents
  BY <1>1, <1>2, <1>3, <1>4
<1>5. CASE e \notin FrontEvents
  BY <1>1, <1>2, <1>3, <1>5, NotLaterPrefixProperties
<1> QED
  BY <1>4, <1>5

LEMMA InsertType ==
    ASSUME ListTypes, NEW e \in Events, NEW p \in Queues, NEW sent \in 0 .. MaxTime,
           NEW t \in 0 .. Far, Insert(e, p, sent, t)
    PROVE  ListTypes'
<1> DEFINE time == [handleTime EXCEPT ![e] = InsertTime(e, p, t)]
           k == IF e \in FrontEvents THEN 0 ELSE NotLaterPrefix(queue[p], e, time)
<1>1. queue' = [queue EXCEPT ![p] = InsertBehind(queue[p], k, e)] /\ handleTime' = time
  BY DEF Insert, InsertEventsLocked
<1>2. time \in [Events -> 0 .. Far] /\ k \in 0 .. Len(queue[p])
  BY InsertPlace
<1>3. InsertBehind(queue[p], k, e) \in Seq(Events)
  <2>1. queue[p] \in Seq(Events)
    BY DEF ListTypes
  <2> HIDE DEF k
  <2> QED
    BY <1>2, <2>1, InsertBehindProperties
<1>4. queue' \in [Queues -> Seq(Events)]
  BY <1>1, <1>3 DEF ListTypes
<1>5. frontEventHandleTime' \in [SubQueues -> Times]
  <2>1. \A q \in SubQueues : HeadTime(queue'[q], handleTime') \in Times
    BY <1>1, <1>2, <1>4, HeadTimeType, QueuesAre
  <2> QED
    BY <2>1 DEF Insert, ListTypes
<1>6. sendTime' \in [Events -> {NotSent} \union (0 .. MaxTime)]
  BY DEF Insert, ListTypes
<1> QED
  BY <1>1, <1>2, <1>4, <1>5, <1>6 DEF ListTypes

-----------------------------------------------------------------------------
(* What GetExpiredEventLocked picks, and what it leaves. *)

LEMMA EarliestProperties ==
    ASSUME ListTypes, NEW E \in SUBSET SubQueues
    PROVE  /\ Earliest(E) \in Times
           /\ \A u \in ScannedHeads(E) : Earliest(E) <= u
<1>1. ScannedHeads(E) \in SUBSET Times
  BY HeadTimeType, QueuesAre DEF ScannedHeads, ListTypes
<1>2. Times \in SUBSET Nat
  BY TimeAssumption DEF Times
<1>3. ScannedHeads(E) # {}
  <2>1. HeadTime(queue[0], handleTime) \in ScannedHeads(E)
    BY QueuesAre DEF ScannedHeads
  <2> QED
    BY <2>1
<1>4. \E t \in ScannedHeads(E) : \A u \in ScannedHeads(E) : t <= u
  BY <1>1, <1>2, <1>3, LeastNat
<1> QED
  BY <1>1, <1>4 DEF Earliest

LEMMA PickEventType ==
    ASSUME ListTypes, PickTypes, NEW b \in BOOLEAN
    PROVE  /\ PickEventLocked(b) \in Events \union {NoEvent}
           /\ PickEventLocked(b) # NoEvent =>
                 \E p \in SubQueues : PickEventLocked(b) \in Members(queue[p])
           /\ PickEventLocked(b) = NoEvent => Candidates(b) = {}
<1> DEFINE E == Candidates(b)
<1>1. E \in SUBSET SubQueues
  BY CandidatesAreQueues
<1>2. \A p \in Queues : queue[p] \in Seq(Events) /\ Members(queue[p]) \subseteq Events
  BY DEF ListTypes, Members
<1>3. CASE VsyncOvertakes(E)
  <2>1. PickEventLocked(b) = FirstIn(queue[VIP], VsyncEvents)
    BY <1>3 DEF PickEventLocked
  <2>2. Members(queue[VIP]) \intersect VsyncEvents # {}
    BY <1>3 DEF VsyncOvertakes, QueuedVsync
  <2>3. queue[VIP] \in Seq(Events) /\ VIP \in SubQueues /\ VIP \in Queues
    BY <1>2, QueuesAre DEF VIP
  <2>4. FirstIn(queue[VIP], VsyncEvents) \in Members(queue[VIP])
    BY <2>2, <2>3, FirstInProperties
  <2> QED
    BY <1>2, <2>1, <2>3, <2>4, EventAssumption
<1>4. CASE ~VsyncOvertakes(E) /\ E = {}
  BY <1>4 DEF PickEventLocked
<1>5. CASE ~VsyncOvertakes(E) /\ E # {}
  <2> DEFINE p == Chosen(E)
  <2>1. p \in E /\ p \in SubQueues /\ p \in Queues
    BY <1>1, <1>5, ChosenProperties, QueuesAre DEF IsChosen, PickTypes
  <2> HIDE DEF p
  <2>2. CASE b
    <3>1. PickEventLocked(b) = FirstIn(queue[p], BarrierTasks)
      BY <1>5, <2>2 DEF PickEventLocked, p
    <3>2. Members(queue[p]) \intersect BarrierTasks # {}
      BY <2>1, <2>2 DEF Candidates, BarrierQueues, Members
    <3>3. FirstIn(queue[p], BarrierTasks) \in Members(queue[p])
      BY <1>2, <2>1, <3>2, FirstInProperties
    <3> QED
      BY <1>2, <2>1, <3>1, <3>3, EventAssumption
  <2>3. CASE ~b
    <3>1. PickEventLocked(b) = queue[p][1]
      BY <1>5, <2>3 DEF PickEventLocked, p
    <3>2. queue[p] # <<>>
      BY <2>1, <2>3 DEF Candidates, EligibleQueues
    <3>3. queue[p][1] \in Members(queue[p])
      BY <1>2, <2>1, <3>2 DEF Members
    <3> QED
      BY <1>2, <2>1, <3>1, <3>3, EventAssumption
  <2> QED
    BY <2>2, <2>3
<1> QED
  BY <1>3, <1>4, <1>5

LEMMA ExpiredEventType ==
    ASSUME ListTypes, PickTypes, NEW b \in BOOLEAN
    PROVE  /\ ExpiredEvent(b) \in Events \union {NoEvent}
           /\ ExpiredEvent(b) # NoEvent =>
                 \E p \in Queues : ExpiredEvent(b) \in Members(queue[p])
<1>1. SubQueues \subseteq Queues /\ IDLE \in Queues
  BY QueuesAre DEF IDLE
<1>2. queue[IDLE] \in Seq(Events) /\ Members(queue[IDLE]) \subseteq Events
  BY <1>1 DEF ListTypes, Members
<1> DEFINE I == IdleCandidates(b, IdleStamp)
<1>3. CASE PickEventLocked(b) # NoEvent
  BY <1>1, <1>3, PickEventType DEF ExpiredEvent
<1>4. CASE PickEventLocked(b) = NoEvent /\ I # {}
  <2>1. I \subseteq Members(queue[IDLE])
    <3>1. queue[IDLE] # <<>> => queue[IDLE][1] \in Members(queue[IDLE])
      BY <1>2 DEF Members
    <3> QED
      BY <3>1 DEF IdleCandidates
  <2>2. Members(queue[IDLE]) \intersect I # {}
    BY <1>4, <2>1
  <2> HIDE DEF I
  <2>3. FirstIn(queue[IDLE], I) \in Members(queue[IDLE])
    BY <1>2, <2>2, FirstInProperties
  <2>4. ExpiredEvent(b) = FirstIn(queue[IDLE], I)
    BY <1>4 DEF ExpiredEvent, I
  <2> QED
    BY <1>1, <1>2, <2>3, <2>4
<1>5. CASE PickEventLocked(b) = NoEvent /\ I = {}
  BY <1>5 DEF ExpiredEvent
<1> QED
  BY <1>3, <1>4, <1>5

\* The chosen queue pays a credit only if it has one left.
LEMMA HandledCountType ==
    ASSUME PickTypes, NEW E \in SUBSET SubQueues
    PROVE  NextHandledCount(E) \in [SubQueues -> 0 .. MaxHandledCount]
<1>1. MaxHandledCount \in Nat
  BY ParameterAssumption
<1>2. ASSUME E # {}, Contended(E)
      PROVE  handledEventsCount[Chosen(E)] < MaxHandledCount
  <2>1. IsChosen(E, Chosen(E))
    BY <1>2, ChosenProperties DEF PickTypes
  <2>2. E \subseteq Int /\ Chosen(E) \in E
    BY <2>1, QueuesAre DEF IsChosen
  <2>3. PICK q \in E : q > Chosen(E)
    BY <1>2 DEF Contended
  <2>4. q \in Int /\ Chosen(E) \in Int
    BY <2>2
  <2>5. ~ (q <= Chosen(E))
    BY <2>3, <2>4
  <2> QED
    BY <2>1, <2>5 DEF IsChosen
<1> QED
  BY <1>1, <1>2 DEF NextHandledCount, PickTypes

LEMMA GetExpiredEventType ==
    ASSUME TypeOK, NEW b \in BOOLEAN, GetExpiredEventLocked(b)
    PROVE  /\ handledEventsCount' \in [SubQueues -> 0 .. MaxHandledCount]
           /\ passed' \in [SubQueues -> Nat]
           /\ isIdle' \in BOOLEAN
           /\ idleTimeStamp' \in 0 .. MaxTime
<1>1. handledEventsCount' \in [SubQueues -> 0 .. MaxHandledCount]
  BY CandidatesAreQueues, HandledCountType DEF GetExpiredEventLocked, TypeOK
<1>2. passed' \in [SubQueues -> Nat]
  BY DEF GetExpiredEventLocked, NextPassed, TypeOK, PickTypes
<1>3. isIdle' \in BOOLEAN
  BY DEF GetExpiredEventLocked
<1>4. idleTimeStamp' \in 0 .. MaxTime
  BY DEF GetExpiredEventLocked, IdleStamp, TypeOK, PickTypes
<1> QED
  BY <1>1, <1>2, <1>3, <1>4

-----------------------------------------------------------------------------
(* Type correctness *)

LEMMA InitType == Init => TypeOK
<1> SUFFICES ASSUME Init PROVE TypeOK
  OBVIOUS
<1>1. 0 \in 0 .. MaxTime /\ 0 \in 0 .. Far /\ TimeMax \in 0 .. TimeMax /\ MaxHandledCount \in Nat
  BY TimeAssumption, ParameterAssumption
<1>2. ListTypes
  BY <1>1 DEF Init, ListTypes, Times, NotSent
<1>3. PickTypes
  BY <1>1 DEF Init, PickTypes
<1>4. VsyncTypes
  <2>1. sumOfPendingVsync \in -128 .. 127
    BY DEF Init
  <2>2. needEpoll \in BOOLEAN /\ isLazyMode \in BOOLEAN /\ isBarrierMode \in BOOLEAN
    BY DEF Init
  <2> QED
    BY <2>1, <2>2 DEF VsyncTypes
<1>5. RunTypes
  BY DEF Init, RunTypes
<1> QED
  BY <1>1, <1>2, <1>3, <1>4, <1>5 DEF Init, TypeOK

\* The three groups of variables that most actions leave alone.
LEMMA UnchangedTypes ==
    /\ ListTypes /\ UNCHANGED listVars => ListTypes'
    /\ PickTypes /\ UNCHANGED pickVars => PickTypes'
    /\ VsyncTypes /\ UNCHANGED vsyncVars => VsyncTypes'
    /\ RunTypes /\ UNCHANGED runVars => RunTypes'
BY DEF ListTypes, listVars, PickTypes, pickVars, VsyncTypes, vsyncVars, RunTypes, runVars

LEMMA InsertTypeOK ==
    ASSUME TypeOK, NEW e \in Events, NEW p \in Queues, NEW sent \in 0 .. MaxTime,
           NEW t \in 0 .. Far, Insert(e, p, sent, t)
    PROVE  TypeOK'
<1>1. ListTypes'
  BY InsertType DEF TypeOK
<1>2. VsyncTypes'
  <2>1. CASE e \in VsyncEvents
    BY <2>1, Int8Type DEF Insert, DispatchVsyncTaskNotify, VsyncTypes, TypeOK
  <2>2. CASE e \notin VsyncEvents
    BY <2>2, UnchangedTypes DEF Insert, TypeOK
  <2> QED
    BY <2>1, <2>2
<1>3. notified' \in BOOLEAN
  BY DEF Insert
<1> QED
  BY <1>1, <1>2, <1>3, UnchangedTypes DEF Insert, TypeOK, ownerVars

LEMMA GetEventType == TypeOK /\ GetEvent => TypeOK'
<1> SUFFICES ASSUME TypeOK, GetEvent PROVE TypeOK'
  OBVIOUS
<1>1. PICK forced \in ForceWindows, elapsed \in BOOLEAN :
        LET mode == CheckBarrierMode(forced, elapsed)
        IN  /\ isLazyMode' = mode.lazy
            /\ \/ TakeExpired(mode) /\ isBarrierMode' = mode.barrier
               \/ TakePendingVsync(mode) /\ isBarrierMode' = mode.barrier
               \/ ResetPendingVsync(mode) /\ isBarrierMode' = FALSE
               \/ StartWaiting(mode) /\ isBarrierMode' = mode.barrier
  BY DEF GetEvent
<1> DEFINE mode == CheckBarrierMode(forced, elapsed)
<1>2. mode.barrier \in BOOLEAN /\ mode.lazy \in BOOLEAN
  BY ParameterAssumption
     DEF CheckBarrierMode, LazyAfterForce, EntersBarrier, LeavesBarrier, TypeOK, VsyncTypes
<1>3. pc = "getEvent" /\ UNCHANGED <<finished, loaded, notified, ownerVars>>
  BY DEF GetEvent
<1> HIDE DEF mode
<1>4. isLazyMode' \in BOOLEAN /\ isBarrierMode' \in BOOLEAN
  BY <1>1, <1>2 DEF mode
<1>5. Earliest(Candidates(mode.barrier)) \in Times
  BY CandidatesAreQueues, EarliestProperties DEF TypeOK
<1>6. Times \subseteq 0 .. TimeMax /\ Far \in Nat /\ TimeMax \in Nat
  BY TimeAssumption DEF Times
<1>7. CASE TakeExpired(mode)
  <2>1. ListTypes' /\ current' = ExpiredEvent(mode.barrier)
    BY <1>7, PopType DEF TakeExpired, TypeOK, Pop
  <2>2. current' \in Events /\ current' # NoEvent
    BY <1>2, <1>7, <2>1, ExpiredEventType, EventAssumption DEF TakeExpired, TypeOK
  <2>3. PickTypes'
    BY <1>2, <1>5, <1>6, <1>7, GetExpiredEventType DEF TakeExpired, PickTypes
  <2>4. VsyncTypes'
    BY <1>4, <1>7 DEF TakeExpired, VsyncTypes, TypeOK
  <2>5. RunTypes'
    BY <1>3, <1>7, <2>2 DEF TakeExpired, RunTypes, TypeOK
  <2> QED
    BY <1>3, <1>7, <2>1, <2>3, <2>4, <2>5 DEF TakeExpired, TypeOK, ownerVars
<1>8. CASE TakePendingVsync(mode)
  <2>1. ListTypes' /\ current' = FirstIn(queue[VIP], VsyncEvents)
    BY <1>8, PopType DEF TakePendingVsync, TypeOK, Pop
  <2>2. current' \in Events /\ current' # NoEvent
    <3>1. queue[VIP] \in Seq(Events)
      BY QueuesAre DEF TypeOK, ListTypes, VIP
    <3>2. Members(queue[VIP]) \intersect VsyncEvents # {}
      BY <1>8 DEF TakePendingVsync, QueuedVsync
    <3> QED
      BY <2>1, <3>1, <3>2, FirstInProperties, EventAssumption
  <2>3. PickTypes'
    BY <1>2, <1>5, <1>6, <1>8, GetExpiredEventType DEF TakePendingVsync, PickTypes
  <2>4. VsyncTypes'
    BY <1>4, <1>8 DEF TakePendingVsync, VsyncTypes, TypeOK
  <2>5. RunTypes'
    BY <1>3, <1>8, <2>2 DEF TakePendingVsync, RunTypes, TypeOK
  <2> QED
    BY <1>3, <1>8, <2>1, <2>3, <2>4, <2>5 DEF TakePendingVsync, TypeOK, ownerVars
<1>9. CASE ResetPendingVsync(mode)
  <2>1. ListTypes'
    BY <1>9, UnchangedTypes DEF ResetPendingVsync, TypeOK
  <2>2. PickTypes'
    BY <1>2, <1>5, <1>6, <1>9, GetExpiredEventType DEF ResetPendingVsync, PickTypes
  <2>3. VsyncTypes'
    BY <1>4, <1>9 DEF ResetPendingVsync, VsyncTypes, TypeOK
  <2>4. RunTypes'
    BY <1>3, <1>9 DEF ResetPendingVsync, RunTypes, TypeOK
  <2> QED
    BY <1>3, <1>9, <2>1, <2>2, <2>3, <2>4 DEF ResetPendingVsync, TypeOK, ownerVars
<1>10. CASE StartWaiting(mode)
  <2>1. PICK cost \in ObserverCosts :
           /\ now + cost <= MaxTime
           /\ now' = now + cost
           /\ LET t == Earliest(Candidates(mode.barrier))
              IN  wakeUpTime' = IF t < TimeMax THEN t + cost ELSE t
    BY <1>10 DEF StartWaiting
  <2>2. cost \in Nat /\ Far + cost <= TimeMax /\ MaxTime \in Nat
    BY TimeAssumption
  <2>3. now' \in 0 .. MaxTime
    BY <2>1, <2>2 DEF TypeOK
  <2>4. wakeUpTime' \in 0 .. TimeMax
    BY <1>5, <1>6, <2>1, <2>2 DEF Times
  <2>5. ListTypes'
    BY <1>10, UnchangedTypes DEF StartWaiting, TypeOK
  <2>6. PickTypes'
    BY <1>2, <1>10, <2>4, GetExpiredEventType DEF StartWaiting, PickTypes
  <2>7. VsyncTypes'
    BY <1>4, <1>10 DEF StartWaiting, VsyncTypes, TypeOK
  <2>8. RunTypes'
    BY <1>3, <1>10 DEF StartWaiting, RunTypes, TypeOK
  <2> QED
    BY <1>3, <2>3, <2>5, <2>6, <2>7, <2>8 DEF TypeOK, ownerVars
<1> QED
  BY <1>1, <1>7, <1>8, <1>9, <1>10 DEF mode

LEMMA OrphansAreFinite ==
    ASSUME NEW S
    PROVE  /\ IsFiniteSet(S \intersect VsyncEvents)
           /\ Cardinality(S \intersect VsyncEvents) \in Nat
BY VsyncAssumption, FS_Intersection, FS_CardinalityType

LEMMA ClientType ==
    ASSUME TypeOK, Clients
    PROVE  TypeOK'
<1> USE DEF TypeOK, ownerVars
<1>1. CASE SendEvent
  <2>1. PICK e \in Events \ VsyncEvents, p \in Priorities, d \in Delays, lag \in Lags :
           lag <= now /\ Insert(e, p, now - lag, now - lag + d)
    BY <1>1 DEF SendEvent
  <2>2. now - lag \in 0 .. MaxTime /\ now - lag + d \in 0 .. Far /\ p \in Queues
    <3>1. lag \in Nat /\ d \in Nat /\ MaxTime \in Nat /\ Far \in Nat /\ MaxTime + d < Far
      BY TimeAssumption
    <3> QED
      BY <2>1, <3>1, ParameterAssumption
  <2> QED
    BY <2>1, <2>2, InsertTypeOK
<1>2. CASE PostVsync
  <2>1. PICK e \in VsyncEvents : Insert(e, VIP, now, Far)
    BY <1>2 DEF PostVsync
  <2>2. e \in Events /\ VIP \in Queues /\ Far \in 0 .. Far
    BY EventAssumption, TimeAssumption, QueuesAre DEF VIP
  <2> QED
    BY <2>1, <2>2, InsertTypeOK
<1>3. CASE Remove
  <2>1. ListTypes'
    BY <1>3, EraseType DEF Remove
  <2> QED
    BY <1>3, <2>1, UnchangedTypes DEF Remove
<1>4. CASE Finish
  BY <1>4, UnchangedTypes DEF Finish
<1>5. CASE SetVsyncLazyMode
  BY <1>5, UnchangedTypes, ParameterAssumption DEF SetVsyncLazyMode, VsyncTypes
<1>6. CASE Tick
  BY <1>6, UnchangedTypes, TimeAssumption DEF Tick
<1>7. ASSUME NEW h \in Handlers, ReleaseHandler(h)
      PROVE  TypeOK'
  BY <1>7, UnchangedTypes DEF ReleaseHandler
<1>8. ASSUME NEW h \in Handlers, RemoveOrphan(h)
      PROVE  TypeOK'
  <2>1. ListTypes'
    BY <1>8, EraseType DEF RemoveOrphan
  <2>2. VsyncTypes'
    <3> DEFINE orphans == {e \in Events : OwnerOf[e] \notin alive}
               vsync == {e \in orphans \intersect VsyncEvents : Queued(e)}
    <3>1. vsync = {e \in orphans : Queued(e)} \intersect VsyncEvents
      OBVIOUS
    <3>2. Cardinality(vsync) \in Nat
      BY <3>1, OrphansAreFinite
    <3>3. sumOfPendingVsync' \in -128 .. 127
      <4>1. sumOfPendingVsync' = Int8(sumOfPendingVsync - Cardinality(vsync))
        BY <1>8 DEF RemoveOrphan
      <4>2. sumOfPendingVsync - Cardinality(vsync) \in Int
        BY <3>2 DEF VsyncTypes
      <4> QED
        BY <4>1, <4>2, Int8Type
    <3> QED
      BY <1>8, <3>3 DEF RemoveOrphan, VsyncTypes
  <2> QED
    BY <1>8, <2>1, <2>2, UnchangedTypes DEF RemoveOrphan
<1> QED
  BY <1>1, <1>2, <1>3, <1>4, <1>5, <1>6, <1>7, <1>8 DEF Clients

LEMMA RunnerType ==
    ASSUME TypeOK, Runner
    PROVE  TypeOK'
<1> USE DEF TypeOK, ownerVars
<1>1. CASE Run
  BY <1>1, UnchangedTypes DEF Run, RunTypes
<1>2. CASE ExitLoop
  BY <1>2, UnchangedTypes DEF ExitLoop, RunTypes
<1>3. CASE GetEvent
  BY <1>3, GetEventType
<1>4. CASE WakeUp
  BY <1>4, UnchangedTypes DEF WakeUp, Waiting, RunTypes, VsyncTypes
<1>5. CASE EndPoll
  BY <1>5, UnchangedTypes DEF EndPoll, RunTypes, VsyncTypes
<1>6. CASE Execute
  <2>1. ListTypes'
    BY <1>6, ForgetType DEF Execute, ListTypes
  <2>2. RunTypes'
    BY <1>6, EventAssumption DEF Execute, RunTypes
  <2> QED
    BY <1>6, <2>1, <2>2, UnchangedTypes DEF Execute
<1>7. CASE LoadPendingVsync
  BY <1>7, UnchangedTypes DEF LoadPendingVsync, RunTypes, VsyncTypes
<1>8. CASE StorePendingVsync
  <2>1. sumOfPendingVsync' \in -128 .. 127
    BY <1>8, Int8Type DEF StorePendingVsync, RunTypes
  <2> QED
    BY <1>8, <2>1, UnchangedTypes DEF StorePendingVsync, RunTypes, VsyncTypes
<1>9. CASE ClearBarrier
  BY <1>9, UnchangedTypes DEF ClearBarrier, RunTypes, VsyncTypes
<1>10. CASE EndCallback
  <2>1. ListTypes'
    BY <1>10, ForgetType DEF EndCallback, ListTypes
  <2> QED
    BY <1>10, <2>1, UnchangedTypes DEF EndCallback, RunTypes
<1> QED
  BY <1>1, <1>2, <1>3, <1>4, <1>5, <1>6, <1>7, <1>8, <1>9, <1>10 DEF Runner

LEMMA StutterType == TypeOK /\ UNCHANGED vars => TypeOK'
BY UnchangedTypes DEF TypeOK, vars, ownerVars

\* Every variable keeps its type, and the runner holds an event exactly between GetEvent
\* and the end of the callback, for all values of the constants.
THEOREM TypeCorrect == Spec => []TypeOK
<1>1. TypeOK /\ [Next]_vars => TypeOK'
  BY ClientType, RunnerType, StutterType DEF Next
<1> QED
  BY InitType, <1>1, PTL DEF Spec

-----------------------------------------------------------------------------
(* Overtaking is bounded *)

\* A number of digits below m stays below the power of m that follows.
LEMMA DigitBounds ==
    ASSUME NEW m \in Nat, NEW a \in 0 .. m - 1, NEW b \in 0 .. m - 1, NEW c \in 0 .. m - 1
    PROVE  /\ m * a \in Nat /\ m * b \in Nat /\ m * m * c \in Nat /\ m * m \in Nat
           /\ m * m * m \in Nat
           /\ m * b <= m * m - m
           /\ m * m * c <= m * m * m - m * m
           /\ m * (b + 1) = m * b + m
           /\ m * m * (c + 1) = m * m * c + m * m
<1>1. /\ m * a \in Nat /\ m * b \in Nat /\ m * m \in Nat
  OBVIOUS
<1>2. m * b <= m * (m - 1)
  OBVIOUS
<1>3. m * (m - 1) = m * m - m
  OBVIOUS
<1>4. \A n \in Nat : n * c \in Nat /\ n * m \in Nat /\ n * c <= n * (m - 1)
                     /\ n * (m - 1) = n * m - n /\ n * (c + 1) = n * c + n
  OBVIOUS
<1>5. /\ m * m * c \in Nat /\ m * m * m \in Nat /\ m * m * c <= m * m * m - m * m
      /\ m * m * (c + 1) = m * m * c + m * m
  BY <1>1, <1>4
<1> QED
  BY <1>1, <1>2, <1>3, <1>5

\* CreditSpent of the counts c.
Digits(c, p) ==
    LET m == MaxHandledCount + 1
    IN  CASE p = VIP -> 0
          [] p = IMMEDIATE -> c[VIP]
          [] p = HIGH -> c[VIP] + m * c[IMMEDIATE]
          [] p = LOW -> c[VIP] + m * c[IMMEDIATE] + m * m * c[HIGH]

LEMMA DigitCases ==
    ASSUME NEW c
    PROVE  LET m == MaxHandledCount + 1
           IN  /\ Digits(c, 0) = 0
               /\ Digits(c, 1) = c[0]
               /\ Digits(c, 2) = c[0] + m * c[1]
               /\ Digits(c, 3) = c[0] + m * c[1] + m * m * c[2]
BY DEF Digits, VIP, IMMEDIATE, HIGH, LOW

\* Spending one credit of q and resetting those above it adds at least one for all below.
LEMMA SpendingCounts ==
    ASSUME NEW c \in [SubQueues -> 0 .. MaxHandledCount],
           NEW d \in [SubQueues -> 0 .. MaxHandledCount],
           NEW q \in SubQueues, d[q] = c[q] + 1,
           \A r \in SubQueues : r < q => d[r] = 0,
           \A r \in SubQueues : r > q => d[r] = c[r],
           NEW p \in SubQueues, q < p
    PROVE  Digits(d, p) >= Digits(c, p) + 1
<1> DEFINE m == MaxHandledCount + 1
<1>1. m \in Nat /\ 0 .. MaxHandledCount = 0 .. m - 1
  BY ParameterAssumption
<1>2. /\ c[0] \in 0 .. m - 1 /\ c[1] \in 0 .. m - 1 /\ c[2] \in 0 .. m - 1
      /\ d[0] \in 0 .. m - 1 /\ d[1] \in 0 .. m - 1 /\ d[2] \in 0 .. m - 1
  BY <1>1, QueuesAre
<1> DEFINE A == m * c[1]
           B == m * m * c[2]
           M == m * m
<1> HIDE DEF m
<1>3. /\ A \in Nat /\ B \in Nat /\ M \in Nat
      /\ A <= M - m
      /\ m * (c[1] + 1) = A + m
      /\ m * m * (c[2] + 1) = B + M
  BY <1>1, <1>2, DigitBounds
<1>4. m * 0 = 0
  BY <1>1
<1>5. /\ Digits(c, 1) = c[0] /\ Digits(d, 1) = d[0]
      /\ Digits(c, 2) = c[0] + A /\ Digits(d, 2) = d[0] + m * d[1]
      /\ Digits(c, 3) = c[0] + A + B
      /\ Digits(d, 3) = d[0] + m * d[1] + m * m * d[2]
  BY DigitCases DEF m
<1>6. q \in {0, 1, 2} /\ p \in {1, 2, 3}
  BY QueuesAre
<1>7. CASE q = 0
  <2>1. d[0] = c[0] + 1 /\ d[1] = c[1] /\ d[2] = c[2]
    BY <1>7, QueuesAre
  <2>2. Digits(d, 2) = d[0] + A /\ Digits(d, 3) = d[0] + A + B
    BY <1>5, <2>1
  <2> HIDE DEF A, B, M
  <2> QED
    BY <1>2, <1>3, <1>5, <1>6, <2>1, <2>2
<1>8. CASE q = 1
  <2>1. d[0] = 0 /\ d[1] = c[1] + 1 /\ d[2] = c[2] /\ p \in {2, 3}
    BY <1>6, <1>8, QueuesAre
  <2>2. m * d[1] = A + m
    BY <1>3, <2>1
  <2>3. Digits(d, 2) = A + m /\ Digits(d, 3) = A + m + B
    <3>1. Digits(d, 2) = 0 + (A + m) /\ Digits(d, 3) = 0 + (A + m) + B
      BY <1>5, <2>1, <2>2
    <3> HIDE DEF A, B, M
    <3> QED
      BY <1>1, <1>3, <3>1
  <2>4. Digits(c, 2) = c[0] + A /\ Digits(c, 3) = c[0] + A + B
    BY <1>5
  <2>5. A \in Nat /\ B \in Nat /\ m \in Nat /\ c[0] \in Int /\ c[0] <= m - 1
    <3>1. A \in Nat /\ B \in Nat
      BY <1>3
    <3>2. m \in Nat /\ c[0] \in 0 .. m - 1
      BY <1>1, <1>2
    <3> QED
      BY <3>1, <3>2
  <2> HIDE DEF A, B, M
  <2>6. CASE p = 2
    BY <2>3, <2>4, <2>5, <2>6
  <2>7. CASE p = 3
    BY <2>3, <2>4, <2>5, <2>7
  <2> QED
    BY <2>1, <2>6, <2>7
<1>9. CASE q = 2
  <2>1. d[0] = 0 /\ d[1] = 0 /\ d[2] = c[2] + 1 /\ p = 3
    BY <1>6, <1>9, QueuesAre
  <2>2. m * m * d[2] = B + M /\ m * d[1] = 0
    BY <1>3, <1>4, <2>1
  <2>3. Digits(d, 3) = B + M
    <3>1. Digits(d, 3) = 0 + 0 + (B + M)
      BY <1>5, <2>1, <2>2
    <3> HIDE DEF A, B, M
    <3> QED
      BY <1>3, <3>1
  <2>4. Digits(c, 2) = c[0] + A /\ Digits(c, 3) = c[0] + A + B
    BY <1>5
  <2>5. A \in Nat /\ B \in Nat /\ M \in Nat /\ A <= M - m
    BY <1>3
  <2> HIDE DEF A, B, M
  <2> QED
    BY <1>1, <1>2, <2>1, <2>3, <2>4, <2>5
<1> QED
  BY <1>6, <1>7, <1>8, <1>9

\* Without a reset the digits only grow.
LEMMA DigitsMonotone ==
    ASSUME NEW c \in [SubQueues -> 0 .. MaxHandledCount],
           NEW d \in [SubQueues -> 0 .. MaxHandledCount],
           \A r \in SubQueues : c[r] <= d[r],
           NEW p \in SubQueues
    PROVE  Digits(c, p) <= Digits(d, p)
<1> DEFINE m == MaxHandledCount + 1
<1>1. m \in Nat
  BY ParameterAssumption
<1>2. /\ c[0] \in Nat /\ c[1] \in Nat /\ c[2] \in Nat
      /\ d[0] \in Nat /\ d[1] \in Nat /\ d[2] \in Nat
      /\ c[0] <= d[0] /\ c[1] <= d[1] /\ c[2] <= d[2]
  BY QueuesAre, ParameterAssumption
<1>3. \A n, a, b \in Nat : a <= b => n * a \in Nat /\ n * b \in Nat /\ n * a <= n * b
  OBVIOUS
<1>4. m * c[1] \in Nat /\ m * d[1] \in Nat /\ m * c[1] <= m * d[1] /\ m * m \in Nat
  BY <1>1, <1>2, <1>3
<1>5. m * m * c[2] \in Nat /\ m * m * d[2] \in Nat /\ m * m * c[2] <= m * m * d[2]
  BY <1>2, <1>3, <1>4
<1>6. p \in {0, 1, 2, 3}
  BY QueuesAre
<1> QED
  BY <1>2, <1>4, <1>5, <1>6, DigitCases

\* Digits lie between 0 and the bound.
LEMMA DigitsRange ==
    ASSUME NEW c \in [SubQueues -> 0 .. MaxHandledCount], NEW p \in SubQueues
    PROVE  Digits(c, p) \in Nat /\ Digits(c, p) <= OvertakingBound(p)
<1> DEFINE m == MaxHandledCount + 1
<1>1. m \in Nat /\ 0 .. MaxHandledCount = 0 .. m - 1
  BY ParameterAssumption
<1>2. c[0] \in 0 .. m - 1 /\ c[1] \in 0 .. m - 1 /\ c[2] \in 0 .. m - 1
  BY <1>1, QueuesAre
<1> DEFINE A == m * c[1]
           B == m * m * c[2]
           M == m * m
           N == m * m * m
<1> HIDE DEF m
<1>3. /\ A \in Nat /\ B \in Nat /\ M \in Nat /\ N \in Nat
      /\ A <= M - m
      /\ B <= N - M
  BY <1>1, <1>2, DigitBounds
<1>4. /\ Digits(c, 0) = 0 /\ Digits(c, 1) = c[0] /\ Digits(c, 2) = c[0] + A
      /\ Digits(c, 3) = c[0] + A + B
  BY DigitCases DEF m
<1>5. /\ OvertakingBound(0) = 0 /\ OvertakingBound(1) = m - 1
      /\ OvertakingBound(2) = M - 1 /\ OvertakingBound(3) = N - 1
  BY DEF OvertakingBound, m, VIP, IMMEDIATE, HIGH, LOW
<1>6. p \in {0, 1, 2, 3}
  BY QueuesAre
<1>7. m \in Nat /\ c[0] \in Nat /\ c[0] <= m - 1
  BY <1>1, <1>2
<1> HIDE DEF A, B, M, N
<1>8. CASE p = 0
  BY <1>4, <1>5, <1>8
<1>9. CASE p = 1
  BY <1>4, <1>5, <1>7, <1>9
<1>10. CASE p = 2
  BY <1>3, <1>4, <1>5, <1>7, <1>10
<1>11. CASE p = 3
  BY <1>3, <1>4, <1>5, <1>7, <1>11
<1> QED
  BY <1>6, <1>8, <1>9, <1>10, <1>11

LEMMA PickKeepsCredit ==
    ASSUME TypeOK, CreditCovers, NEW b \in BOOLEAN, GetExpiredEventLocked(b), TypeOK'
    PROVE  CreditCovers'
<1> DEFINE E == Candidates(b)
           c == handledEventsCount
           d == handledEventsCount'
           q == Chosen(E)
<1>1. /\ c \in [SubQueues -> 0 .. MaxHandledCount] /\ d \in [SubQueues -> 0 .. MaxHandledCount]
      /\ E \in SUBSET SubQueues /\ d = NextHandledCount(E) /\ passed' = NextPassed(E)
      /\ passed \in [SubQueues -> Nat]
  BY CandidatesAreQueues DEF TypeOK, PickTypes, GetExpiredEventLocked
<1>2. \A p \in SubQueues : CreditSpent(p) = Digits(c, p) /\ CreditSpent(p)' = Digits(d, p)
  BY DEF CreditSpent, Digits
<1>3. \A p \in SubQueues : passed[p] <= Digits(c, p)
  BY <1>2 DEF CreditCovers
<1>4. \A p \in SubQueues : Digits(c, p) \in Nat /\ Digits(d, p) \in Nat
  BY <1>1, DigitsRange
<1>5. SUFFICES ASSUME NEW p \in SubQueues PROVE passed'[p] <= Digits(d, p)
  BY <1>2 DEF CreditCovers
<1>6. CASE passed'[p] = 0
  BY <1>4, <1>6
<1>7. CASE passed'[p] # 0
  <2>1. p \in E /\ E # {}
    BY <1>1, <1>7 DEF NextPassed
  <2>2. q \in E /\ q \in SubQueues /\ IsChosen(E, q)
    BY <1>1, <2>1, ChosenProperties DEF IsChosen
  <2>3. SubQueues \subseteq Int
    BY QueuesAre
  <2> HIDE DEF c, d, E, q
  <2>4. CASE VsyncOvertakes(E)
    <3>1. passed'[p] = passed[p]
      BY <1>1, <2>1, <2>4 DEF NextPassed
    <3>2. \A r \in SubQueues : c[r] <= d[r]
      <4> TAKE r \in SubQueues
      <4>1. d[r] = IF r = q /\ Contended(E) THEN c[r] + 1 ELSE c[r]
        BY <1>1, <2>1, <2>4 DEF NextHandledCount, c, q
      <4> QED
        BY <1>1, <4>1, ParameterAssumption
    <3>3. Digits(c, p) <= Digits(d, p)
      BY <1>1, <3>2, DigitsMonotone
    <3> QED
      BY <1>1, <1>3, <1>4, <3>1, <3>3
  <2>5. CASE ~VsyncOvertakes(E)
    <3>1. q < p /\ passed'[p] = passed[p] + 1
      BY <1>1, <1>7, <2>1, <2>5 DEF NextPassed, q
    <3>2. Contended(E)
      BY <2>1, <2>3, <3>1, <2>2 DEF Contended, q
    <3>3. d[q] = c[q] + 1
      BY <1>1, <2>1, <2>2, <3>2 DEF NextHandledCount, c, q
    <3>4. \A r \in SubQueues : r < q => d[r] = 0
      BY <1>1, <2>1, <2>2, <2>3, <2>5 DEF NextHandledCount, c, q
    <3>5. ASSUME NEW r \in SubQueues, r > q PROVE d[r] = c[r]
      <4>1. ~ (r < q) /\ r # q
        BY <2>2, <2>3, <3>5
      <4> QED
        BY <1>1, <2>1, <4>1 DEF NextHandledCount, c, q
    <3>6. Digits(d, p) >= Digits(c, p) + 1
      BY <1>1, <2>2, <3>1, <3>3, <3>4, <3>5, SpendingCounts
    <3> QED
      BY <1>1, <1>3, <1>4, <3>1, <3>6
  <2> QED
    BY <2>4, <2>5
<1> QED
  BY <1>6, <1>7

\* GetEvent is the only action that picks.
LEMMA OnlyGetEventPicks ==
    ASSUME [Next]_vars, ~GetEvent
    PROVE  UNCHANGED <<handledEventsCount, passed>>
BY DEF Next, Runner, Clients, vars, pickVars, Run, ExitLoop, WakeUp, EndPoll, Execute,
       LoadPendingVsync, StorePendingVsync, ClearBarrier, EndCallback, SendEvent, PostVsync,
       Insert, Remove, Finish, SetVsyncLazyMode, Tick, ReleaseHandler, RemoveOrphan

LEMMA GetEventPicks ==
    ASSUME TypeOK, GetEvent
    PROVE  \E b \in BOOLEAN : GetExpiredEventLocked(b)
<1>1. PICK forced \in ForceWindows, elapsed \in BOOLEAN :
        \/ TakeExpired(CheckBarrierMode(forced, elapsed))
        \/ TakePendingVsync(CheckBarrierMode(forced, elapsed))
        \/ ResetPendingVsync(CheckBarrierMode(forced, elapsed))
        \/ StartWaiting(CheckBarrierMode(forced, elapsed))
  BY DEF GetEvent
<1>2. CheckBarrierMode(forced, elapsed).barrier \in BOOLEAN
  BY ParameterAssumption
     DEF CheckBarrierMode, LazyAfterForce, EntersBarrier, LeavesBarrier, TypeOK, VsyncTypes
<1>3. GetExpiredEventLocked(CheckBarrierMode(forced, elapsed).barrier)
  BY <1>1 DEF TakeExpired, TakePendingVsync, ResetPendingVsync, StartWaiting
<1> QED
  BY <1>2, <1>3

\* The credits spent above a priority count every time it has been overtaken.
THEOREM CreditInvariant == Spec => []CreditCovers
<1>1. Init => CreditCovers
  <2> SUFFICES ASSUME Init PROVE CreditCovers
    OBVIOUS
  <2>1. TypeOK
    BY InitType
  <2>2. \A p \in SubQueues : CreditSpent(p) = Digits(handledEventsCount, p) /\ passed[p] = 0
    BY DEF Init, CreditSpent, Digits
  <2>3. \A p \in SubQueues : Digits(handledEventsCount, p) \in Nat
    BY <2>1, DigitsRange DEF TypeOK, PickTypes
  <2> QED
    BY <2>2, <2>3 DEF CreditCovers
<1>2. TypeOK /\ TypeOK' /\ CreditCovers /\ [Next]_vars => CreditCovers'
  <2> SUFFICES ASSUME TypeOK, TypeOK', CreditCovers, [Next]_vars PROVE CreditCovers'
    OBVIOUS
  <2>1. CASE GetEvent
    BY <2>1, GetEventPicks, PickKeepsCredit
  <2>2. CASE ~GetEvent
    <3>1. UNCHANGED <<handledEventsCount, passed>>
      BY <2>2, OnlyGetEventPicks
    <3> QED
      BY <3>1 DEF CreditCovers, CreditSpent
  <2> QED
    BY <2>1, <2>2
<1> QED
  BY <1>1, <1>2, TypeCorrect, PTL DEF Spec

\* An event that could be taken is passed over by at most (M + 1)^p - 1 events in a row,
\* whatever the handlers post and however long they go on.
THEOREM OvertakingIsBounded == Spec => []BoundedOvertaking
<1>1. TypeOK /\ CreditCovers => BoundedOvertaking
  <2> SUFFICES ASSUME TypeOK, CreditCovers PROVE BoundedOvertaking
    OBVIOUS
  <2>1. SUFFICES ASSUME NEW p \in SubQueues PROVE passed[p] <= OvertakingBound(p)
    BY DEF BoundedOvertaking
  <2>2. passed[p] <= Digits(handledEventsCount, p) /\ passed[p] \in Nat
    BY DEF CreditCovers, CreditSpent, Digits, TypeOK, PickTypes
  <2>3. /\ Digits(handledEventsCount, p) \in Nat
        /\ Digits(handledEventsCount, p) <= OvertakingBound(p)
    BY DigitsRange DEF TypeOK, PickTypes
  <2>4. OvertakingBound(p) \in Int
    BY QueuesAre, ParameterAssumption DEF OvertakingBound, VIP, IMMEDIATE, HIGH, LOW
  <2> QED
    BY <2>2, <2>3, <2>4
<1> QED
  BY <1>1, TypeCorrect, CreditInvariant, PTL

-----------------------------------------------------------------------------
(* What the actions do to the lists. *)

\* Some events leave the lists; those that stay keep their handle time.
Erased(X) ==
    /\ queue' = [p \in Queues |-> RemoveIf(queue[p], X)]
    /\ \A e \in Events : e \notin X => handleTime'[e] = handleTime[e]

\* Nothing enters or leaves; only the event the runner holds may lose its time.
ListsKept ==
    /\ queue' = queue
    /\ \A e \in Events : e # current => handleTime'[e] = handleTime[e]

LEMMA EraseErases == ASSUME NEW S, Erase(S) PROVE Erased(S)
BY DEF Erase, Erased, Forget

LEMMA PopErases == ASSUME NEW e, NEW r, Pop(e, r) PROVE Erased({e})
BY DEF Pop, Erased

LEMMA KeptWhenUnchanged == UNCHANGED listVars => ListsKept
BY DEF ListsKept, listVars

LEMMA MembersAreEvents ==
    ASSUME ListTypes, NEW p \in Queues
    PROVE  /\ queue[p] \in Seq(Events)
           /\ Members(queue[p]) \subseteq Events
           /\ \A i \in DOMAIN queue[p] : queue[p][i] \in Members(queue[p])
BY DEF ListTypes, Members

LEMMA ErasedMembers ==
    ASSUME ListTypes, NEW X, Erased(X), NEW p \in Queues
    PROVE  /\ queue'[p] = RemoveIf(queue[p], X)
           /\ Members(queue'[p]) \subseteq Members(queue[p]) \ X
           /\ \A e \in Members(queue'[p]) : handleTime'[e] = handleTime[e]
<1>1. queue[p] \in Seq(Events) /\ queue'[p] = RemoveIf(queue[p], X)
  BY DEF ListTypes, Erased
<1>2. Members(queue'[p]) \subseteq Members(queue[p]) \ X
  BY <1>1, RemoveIfProperties
<1> QED
  BY <1>1, <1>2, MembersAreEvents DEF Erased

LEMMA InsertedLists ==
    ASSUME ListTypes, NEW e \in Events, NEW p \in Queues, NEW sent, NEW t \in 0 .. Far,
           Insert(e, p, sent, t)
    PROVE  /\ ~Queued(e) /\ e # current
           /\ handleTime' = [handleTime EXCEPT ![e] = InsertTime(e, p, t)]
           /\ \E k \in 0 .. Len(queue[p]) :
                 /\ queue' = [queue EXCEPT ![p] = InsertBehind(queue[p], k, e)]
                 /\ k # 0 => handleTime'[queue[p][k]] <= handleTime'[e]
                 /\ k # Len(queue[p]) => handleTime'[e] <= handleTime'[queue[p][k + 1]]
           /\ Members(queue'[p]) = Members(queue[p]) \union {e}
           /\ \A q \in Queues : q # p => queue'[q] = queue[q]
<1> DEFINE time == [handleTime EXCEPT ![e] = InsertTime(e, p, t)]
           k == IF e \in FrontEvents THEN 0 ELSE NotLaterPrefix(queue[p], e, time)
<1>1. queue' = [queue EXCEPT ![p] = InsertBehind(queue[p], k, e)] /\ handleTime' = time
  BY DEF Insert, InsertEventsLocked
<1>2. ~Queued(e) /\ e # current
  BY DEF Insert, Fresh
<1>3. /\ time \in [Events -> 0 .. Far] /\ k \in 0 .. Len(queue[p])
      /\ e \notin FrontEvents =>
            /\ k # 0 => time[queue[p][k]] <= time[e]
            /\ \A j \in (k + 1) .. Len(queue[p]) : time[queue[p][j]] > time[e]
  BY InsertPlace
<1>4. queue[p] \in Seq(Events) /\ \A i \in DOMAIN queue[p] : queue[p][i] # e
  BY <1>2, MembersAreEvents DEF Queued
<1>5. Far \in Nat
  BY TimeAssumption
<1>6. k # Len(queue[p]) => time[e] <= time[queue[p][k + 1]]
  <2>1. CASE e \in FrontEvents /\ queue[p] # <<>>
    <3>1. k = 0 /\ time[e] = InsertTime(e, p, t) /\ time[queue[p][1]] = handleTime[queue[p][1]]
      BY <1>4, <2>1 DEF ListTypes
    <3>2. InsertTime(e, p, t) <= handleTime[queue[p][1]]
      <4>1. queue[p][1] \in Events
        BY <1>4, <2>1
      <4>2. handleTime[queue[p][1]] \in 0 .. Far
        BY <4>1 DEF ListTypes
      <4> QED
        BY <1>5, <2>1, <4>2 DEF InsertTime
    <3> QED
      BY <3>1, <3>2
  <2>2. CASE e \in FrontEvents /\ queue[p] = <<>>
    BY <2>2
  <2>3. CASE e \notin FrontEvents
    <3> HIDE DEF k, time
    <3>1. SUFFICES ASSUME k # Len(queue[p]) PROVE time[e] <= time[queue[p][k + 1]]
      OBVIOUS
    <3>2. k + 1 \in (k + 1) .. Len(queue[p]) /\ k + 1 \in DOMAIN queue[p]
      BY <1>3, <1>4, <3>1
    <3>3. time[queue[p][k + 1]] > time[e]
      BY <1>3, <2>3, <3>2
    <3>4. time[queue[p][k + 1]] \in Int /\ time[e] \in Int
      BY <1>3, <1>4, <1>5, <3>2
    <3> QED
      BY <3>3, <3>4
  <2> QED
    BY <2>1, <2>2, <2>3
<1>7. k # 0 => time[queue[p][k]] <= time[e]
  BY <1>3
<1>8. Members(InsertBehind(queue[p], k, e)) = Members(queue[p]) \union {e}
  <2> HIDE DEF k
  <2> QED
    BY <1>3, <1>4, InsertBehindProperties
<1>9. queue'[p] = InsertBehind(queue[p], k, e) /\ \A q \in Queues : q # p => queue'[q] = queue[q]
  BY <1>1 DEF ListTypes
<1> HIDE DEF k, time
<1> QED
  BY <1>1, <1>2, <1>3, <1>6, <1>7, <1>8, <1>9 DEF time

\* The three things a step can do to the lists and to the event the runner holds.
ListStep ==
    \/ \E X \in SUBSET Events : Erased(X) /\ (current' = current \/ current' \in X)
    \/ ListsKept /\ (current' = current \/ current' = NoEvent)
    \/ \E e \in Events, p \in Queues, sent \in 0 .. MaxTime, t \in 0 .. Far :
           /\ Insert(e, p, sent, t) /\ current' = current
           /\ SendEvent \/ PostVsync
           /\ e \in VsyncEvents => PostVsync /\ p = VIP

LEMMA SendEventInserts ==
    ASSUME TypeOK, SendEvent
    PROVE  \E e \in Events \ VsyncEvents, p \in Queues, sent \in 0 .. MaxTime, t \in 0 .. Far :
               Insert(e, p, sent, t)
<1>1. PICK e \in Events \ VsyncEvents, p \in Priorities, d \in Delays, lag \in Lags :
        lag <= now /\ Insert(e, p, now - lag, now - lag + d)
  BY DEF SendEvent
<1>2. /\ now \in 0 .. MaxTime /\ MaxTime \in Nat /\ Far \in Nat /\ lag \in Nat /\ d \in Nat
      /\ MaxTime + d < Far
  BY TimeAssumption DEF TypeOK
<1>3. now - lag \in 0 .. MaxTime /\ now - lag + d \in 0 .. Far
  BY <1>1, <1>2
<1>4. p \in Queues
  BY ParameterAssumption
<1> QED
  BY <1>1, <1>3, <1>4

LEMMA PostVsyncInserts ==
    ASSUME TypeOK, PostVsync
    PROVE  \E e \in VsyncEvents : e \in Events /\ Insert(e, VIP, now, Far)
BY EventAssumption DEF PostVsync

LEMMA GetEventListStep ==
    ASSUME TypeOK, GetEvent
    PROVE  ListStep
<1>1. PICK forced \in ForceWindows, elapsed \in BOOLEAN :
        \/ TakeExpired(CheckBarrierMode(forced, elapsed))
        \/ TakePendingVsync(CheckBarrierMode(forced, elapsed))
        \/ ResetPendingVsync(CheckBarrierMode(forced, elapsed))
        \/ StartWaiting(CheckBarrierMode(forced, elapsed))
  BY DEF GetEvent
<1> DEFINE mode == CheckBarrierMode(forced, elapsed)
<1>2. mode.barrier \in BOOLEAN
  BY ParameterAssumption
     DEF CheckBarrierMode, LazyAfterForce, EntersBarrier, LeavesBarrier, TypeOK, VsyncTypes
<1> HIDE DEF mode
<1>3. ASSUME NEW e \in Events, NEW r, Pop(e, r) PROVE ListStep
  <2>1. Erased({e}) /\ current' \in {e} /\ {e} \in SUBSET Events
    BY <1>3, PopErases DEF Pop
  <2> QED
    BY <2>1 DEF ListStep
<1>4. CASE TakeExpired(mode)
  <2>1. ExpiredEvent(mode.barrier) \in Events
    BY <1>2, <1>4, ExpiredEventType DEF TakeExpired, TypeOK
  <2> QED
    BY <1>3, <1>4, <2>1 DEF TakeExpired
<1>5. CASE TakePendingVsync(mode)
  <2>1. queue[VIP] \in Seq(Events) /\ Members(queue[VIP]) \intersect VsyncEvents # {}
    BY <1>5, QueuesAre DEF TakePendingVsync, QueuedVsync, TypeOK, ListTypes, VIP
  <2>2. FirstIn(queue[VIP], VsyncEvents) \in VsyncEvents
    BY <2>1, FirstInProperties
  <2> QED
    BY <1>3, <1>5, <2>2, EventAssumption DEF TakePendingVsync
<1>6. CASE ResetPendingVsync(mode)
  BY <1>6, KeptWhenUnchanged DEF ResetPendingVsync, ListStep
<1>7. CASE StartWaiting(mode)
  BY <1>7, KeptWhenUnchanged DEF StartWaiting, ListStep
<1> QED
  BY <1>1, <1>4, <1>5, <1>6, <1>7 DEF mode

LEMMA EveryListStep ==
    ASSUME TypeOK, [Next]_vars
    PROVE  ListStep
<1>1. ASSUME NEW S \in SUBSET Events, Erase(S), UNCHANGED current PROVE ListStep
  BY <1>1, EraseErases DEF ListStep
<1>2. ASSUME UNCHANGED listVars, UNCHANGED current PROVE ListStep
  BY <1>2, KeptWhenUnchanged DEF ListStep
<1>3. CASE SendEvent
  <2>1. UNCHANGED current
    BY <1>3 DEF SendEvent, Insert, runVars
  <2> QED
    BY <1>3, <2>1, SendEventInserts DEF ListStep
<1>4. CASE PostVsync
  <2>1. PICK e \in VsyncEvents : e \in Events /\ Insert(e, VIP, now, Far)
    BY <1>4, PostVsyncInserts
  <2>2. VIP \in Queues /\ now \in 0 .. MaxTime /\ Far \in 0 .. Far
    BY QueuesAre, TimeAssumption DEF VIP, TypeOK
  <2>3. UNCHANGED current
    BY <2>1 DEF Insert, runVars
  <2> QED
    BY <1>4, <2>1, <2>2, <2>3 DEF ListStep
<1>5. CASE Remove
  BY <1>1, <1>5 DEF Remove, OwnedBy, runVars
<1>7. CASE \E h \in Handlers : RemoveOrphan(h)
  BY <1>1, <1>7 DEF RemoveOrphan, runVars
<1>8. CASE \E h \in Handlers : ReleaseHandler(h)
  BY <1>2, <1>8 DEF ReleaseHandler, runVars
<1>9. CASE Finish \/ SetVsyncLazyMode \/ Tick \/ UNCHANGED vars
  BY <1>2, <1>9 DEF Finish, SetVsyncLazyMode, Tick, vars, runVars
<1>10. CASE GetEvent
  BY <1>10, GetEventListStep
<1>11. CASE \/ Run \/ ExitLoop \/ WakeUp \/ EndPoll
            \/ LoadPendingVsync \/ StorePendingVsync \/ ClearBarrier
  BY <1>2, <1>11 DEF Run, ExitLoop, WakeUp, EndPoll,
                     LoadPendingVsync, StorePendingVsync, ClearBarrier
<1>12. CASE Execute \/ EndCallback
  <2>1. /\ queue' = queue
        /\ \/ current' = current /\ handleTime' = handleTime
           \/ current' = NoEvent /\ Forget({current})
    BY <1>12 DEF Execute, EndCallback
  <2> QED
    BY <2>1 DEF ListStep, ListsKept, Forget
<1> QED
  BY <1>3, <1>4, <1>5, <1>7, <1>8, <1>9, <1>10, <1>11, <1>12 DEF Next, Runner, Clients

-----------------------------------------------------------------------------
(* Events are held once, in the order of time. *)

LEMMA ErasedKeepsOrder ==
    ASSUME TypeOK, ListsInTimeOrder, NEW X \in SUBSET Events, Erased(X)
    PROVE  ListsInTimeOrder'
<1>1. SUFFICES ASSUME NEW p \in Queues PROVE InTimeOrder(queue'[p], handleTime')
  BY DEF ListsInTimeOrder
<1>2. /\ queue[p] \in Seq(Events) /\ queue'[p] = RemoveIf(queue[p], X)
      /\ \A e \in Members(queue'[p]) : handleTime'[e] = handleTime[e]
  BY ErasedMembers DEF TypeOK, ListTypes
<1>3. InTimeOrder(queue'[p], handleTime)
  BY <1>2, RemoveIfInTimeOrder DEF ListsInTimeOrder
<1> QED
  BY <1>2, <1>3 DEF InTimeOrder, Members

LEMMA ErasedHoldsOnce ==
    ASSUME TypeOK, HeldOnce, NEW X \in SUBSET Events, Erased(X),
           current' = current \/ current' \in X
    PROVE  HeldOnce'
<1>1. ASSUME NEW p \in Queues
      PROVE  /\ queue[p] \in Seq(Events) /\ queue'[p] = RemoveIf(queue[p], X)
             /\ queue'[p] \in Seq(Events)
             /\ Members(queue'[p]) \subseteq Members(queue[p]) \ X
  BY ErasedMembers, RemoveIfProperties DEF TypeOK, ListTypes
<1>2. ASSUME NEW p \in Queues, NEW q \in Queues,
             NEW i \in DOMAIN queue'[p], NEW j \in DOMAIN queue'[q],
             queue'[p][i] = queue'[q][j]
      PROVE  p = q /\ i = j
  <2>1. queue'[p][i] \in Members(queue[p]) /\ queue'[q][j] \in Members(queue[q])
    BY <1>1 DEF Members
  <2>2. p = q
    BY <1>2, <2>1 DEF HeldOnce, Members
  <2>3. ASSUME NEW a \in DOMAIN queue'[p], NEW b \in DOMAIN queue'[p], a < b
        PROVE  queue'[p][a] # queue'[p][b]
    <3> DEFINE s == queue[p]
    <3>a. s \in Seq(Events) /\ queue'[p] = RemoveIf(s, X)
      BY <1>1
    <3> HIDE DEF s
    <3>b. \A m, n \in DOMAIN RemoveIf(s, X) : m < n =>
             \E k, l \in DOMAIN s : /\ k < l
                                    /\ RemoveIf(s, X)[m] = s[k]
                                    /\ RemoveIf(s, X)[n] = s[l]
      BY <3>a, RemoveIfProperties
    <3>1. PICK k, l \in DOMAIN queue[p] :
             k < l /\ queue'[p][a] = queue[p][k] /\ queue'[p][b] = queue[p][l]
      BY <2>3, <3>a, <3>b DEF s
    <3>2. k # l
      BY <1>1, <3>1
    <3> QED
      BY <3>1, <3>2 DEF HeldOnce
  <2>4. i \in Nat /\ j \in Nat /\ i \in DOMAIN queue'[p] /\ j \in DOMAIN queue'[p]
    BY <1>1, <2>2
  <2>5. ~ (i < j) /\ ~ (j < i)
    BY <1>2, <2>2, <2>3, <2>4
  <2> QED
    BY <2>2, <2>4, <2>5
<1>3. ~Queued(current)'
  BY <1>1 DEF HeldOnce, Queued
<1> QED
  BY <1>2, <1>3 DEF HeldOnce

LEMMA KeptHoldsOnce ==
    ASSUME TypeOK, HeldOnce, ListsKept, current' = current \/ current' = NoEvent
    PROVE  HeldOnce'
<1>1. ~Queued(NoEvent)
  BY MembersAreEvents, EventAssumption DEF Queued, TypeOK
<1> QED
  BY <1>1 DEF HeldOnce, Queued, ListsKept

LEMMA KeptKeepsOrder ==
    ASSUME TypeOK, HeldOnce, ListsInTimeOrder, ListsKept
    PROVE  ListsInTimeOrder'
<1>1. ASSUME NEW p \in Queues, NEW i \in DOMAIN queue[p]
      PROVE  queue[p][i] \in Events /\ queue[p][i] # current
  <2>1. queue[p][i] \in Members(queue[p]) /\ Members(queue[p]) \subseteq Events
    BY MembersAreEvents DEF TypeOK
  <2> QED
    BY <2>1 DEF HeldOnce, Queued
<1> QED
  BY <1>1 DEF ListsInTimeOrder, InTimeOrder, ListsKept

LEMMA InsertKeepsOrder ==
    ASSUME TypeOK, ListsInTimeOrder, NEW e \in Events, NEW p \in Queues,
           NEW sent \in 0 .. MaxTime, NEW t \in 0 .. Far, Insert(e, p, sent, t)
    PROVE  ListsInTimeOrder'
<1>1. SUFFICES ASSUME NEW q \in Queues PROVE InTimeOrder(queue'[q], handleTime')
  BY DEF ListsInTimeOrder
<1>2. PICK k \in 0 .. Len(queue[p]) :
         /\ queue' = [queue EXCEPT ![p] = InsertBehind(queue[p], k, e)]
         /\ k # 0 => handleTime'[queue[p][k]] <= handleTime'[e]
         /\ k # Len(queue[p]) => handleTime'[e] <= handleTime'[queue[p][k + 1]]
  BY InsertedLists DEF TypeOK
<1>3. ~Queued(e) /\ handleTime' = [handleTime EXCEPT ![e] = InsertTime(e, p, t)]
  BY InsertedLists DEF TypeOK
<1>4. queue[q] \in Seq(Events) /\ handleTime' \in [Events -> Int]
  <2>1. handleTime' \in [Events -> 0 .. Far]
    BY InsertType DEF TypeOK, ListTypes
  <2> QED
    BY <2>1, TimeAssumption DEF TypeOK, ListTypes
<1>5. InTimeOrder(queue[q], handleTime')
  <2>1. \A i \in DOMAIN queue[q] : queue[q][i] \in Events /\ queue[q][i] # e
    BY <1>3, MembersAreEvents DEF Queued, TypeOK
  <2>2. \A i \in DOMAIN queue[q] : handleTime'[queue[q][i]] = handleTime[queue[q][i]]
    BY <1>3, <2>1 DEF TypeOK, ListTypes
  <2> QED
    BY <2>2 DEF ListsInTimeOrder, InTimeOrder
<1>6. CASE q = p
  <2>1. queue'[q] = InsertBehind(queue[p], k, e)
    BY <1>2, <1>6 DEF TypeOK, ListTypes
  <2> QED
    BY <1>2, <1>4, <1>5, <1>6, <2>1, InsertBehindInTimeOrder
<1>7. CASE q # p
  BY <1>2, <1>5, <1>7 DEF TypeOK, ListTypes
<1> QED
  BY <1>6, <1>7

LEMMA InsertHoldsOnce ==
    ASSUME TypeOK, HeldOnce, NEW e \in Events, NEW p \in Queues,
           NEW sent \in 0 .. MaxTime, NEW t \in 0 .. Far, Insert(e, p, sent, t),
           current' = current
    PROVE  HeldOnce'
<1>1. ~Queued(e) /\ e # current
  BY InsertedLists DEF TypeOK
<1>2. PICK k \in 0 .. Len(queue[p]) : queue' = [queue EXCEPT ![p] = InsertBehind(queue[p], k, e)]
  BY InsertedLists DEF TypeOK
<1>3. queue \in [Queues -> Seq(Events)]
  BY DEF TypeOK, ListTypes
<1>4. /\ queue'[p] = InsertBehind(queue[p], k, e)
      /\ Members(queue'[p]) = Members(queue[p]) \union {e}
  BY <1>2, <1>3, InsertedLists DEF TypeOK
<1>5. \A q \in Queues : q # p => queue'[q] = queue[q]
  BY <1>2, <1>3
<1>6. \A q \in Queues : e \notin Members(queue[q])
  BY <1>1 DEF Queued
<1>7. ASSUME NEW a \in DOMAIN queue'[p], NEW b \in DOMAIN queue'[p], queue'[p][a] = queue'[p][b]
      PROVE  a = b
  <2>1. \A i, j \in DOMAIN queue[p] : queue[p][i] = queue[p][j] => i = j
    BY DEF HeldOnce
  <2> QED
    BY <1>3, <1>4, <1>6, <1>7, <2>1, InsertBehindDistinct
<1>8. ASSUME NEW a \in DOMAIN queue'[p], NEW q \in Queues, q # p, NEW j \in DOMAIN queue[q]
      PROVE  queue'[p][a] # queue[q][j]
  <2>1. queue'[p][a] \in Members(queue[p]) \union {e} /\ queue[q][j] \in Members(queue[q])
    BY <1>4 DEF Members
  <2>2. queue[q][j] \notin Members(queue[p])
    BY <1>8 DEF HeldOnce, Members
  <2> QED
    BY <1>6, <2>1, <2>2
<1>9. ASSUME NEW q1 \in Queues, NEW q2 \in Queues,
             NEW i \in DOMAIN queue'[q1], NEW j \in DOMAIN queue'[q2],
             queue'[q1][i] = queue'[q2][j]
      PROVE  q1 = q2 /\ i = j
  <2>1. CASE q1 = p /\ q2 = p
    BY <1>7, <1>9, <2>1
  <2>2. CASE q1 = p /\ q2 # p
    BY <1>5, <1>8, <1>9, <2>2
  <2>3. CASE q1 # p /\ q2 = p
    BY <1>5, <1>8, <1>9, <2>3
  <2>4. CASE q1 # p /\ q2 # p
    BY <1>5, <1>9, <2>4 DEF HeldOnce
  <2> QED
    BY <2>1, <2>2, <2>3, <2>4
<1>10. ~Queued(current)'
  <2>1. \A q \in Queues : current \notin Members(queue[q])
    BY DEF HeldOnce, Queued
  <2>2. \A q \in Queues : current \notin Members(queue'[q])
    BY <1>1, <1>4, <1>5, <2>1
  <2> QED
    BY <2>2 DEF Queued
<1> QED
  BY <1>9, <1>10 DEF HeldOnce

ListsInv == TypeOK /\ HeldOnce /\ ListsInTimeOrder

LEMMA ListsInvStep == ListsInv /\ [Next]_vars /\ TypeOK' => ListsInv'
<1> SUFFICES ASSUME TypeOK, HeldOnce, ListsInTimeOrder, [Next]_vars, TypeOK'
             PROVE  HeldOnce' /\ ListsInTimeOrder'
  BY DEF ListsInv
<1>1. ListStep
  BY EveryListStep
<1>2. CASE \E X \in SUBSET Events : Erased(X) /\ (current' = current \/ current' \in X)
  BY <1>2, ErasedKeepsOrder, ErasedHoldsOnce
<1>3. CASE ListsKept /\ (current' = current \/ current' = NoEvent)
  BY <1>3, KeptKeepsOrder, KeptHoldsOnce
<1>4. CASE \E e \in Events, p \in Queues, sent \in 0 .. MaxTime, t \in 0 .. Far :
               Insert(e, p, sent, t) /\ current' = current
  BY <1>4, InsertKeepsOrder, InsertHoldsOnce
<1> QED
  BY <1>1, <1>2, <1>3, <1>4 DEF ListStep

LEMMA ListsInvHolds == Spec => []ListsInv
<1>1. Init => ListsInv
  <2> SUFFICES ASSUME Init PROVE ListsInv
    OBVIOUS
  <2>1. \A p \in Queues : queue[p] = <<>> /\ DOMAIN queue[p] = {} /\ Members(queue[p]) = {}
    BY DEF Init, Members
  <2> QED
    BY <2>1, InitType DEF ListsInv, HeldOnce, Queued, ListsInTimeOrder, InTimeOrder
<1> QED
  BY <1>1, ListsInvStep, TypeCorrect, PTL DEF Spec

\* An event is in one list once, or with the runner: none is lost or distributed twice.
THEOREM EventsAreHeldOnce == Spec => []HeldOnce
<1>1. ListsInv => HeldOnce
  BY DEF ListsInv
<1> QED
  BY <1>1, ListsInvHolds, PTL

\* Every list is in the order of handle time, whatever was posted, removed and taken.
THEOREM ListsStayInTimeOrder == Spec => []ListsInTimeOrder
<1>1. ListsInv => ListsInTimeOrder
  BY DEF ListsInv
<1> QED
  BY <1>1, ListsInvHolds, PTL

-----------------------------------------------------------------------------
(* A pending vsync event is always accounted for. *)

\* Vsync events are posted at VIP only.
VsyncAtVip == \A p \in Queues : p # VIP => Members(queue[p]) \intersect VsyncEvents = {}

\* What the vsync task has read still counts itself and the events queued.
LoadedCovers == pc = "vsyncStore" => loaded >= Cardinality(QueuedVsync) + 1

\* What the runner holds where it matters; it polls only while no vsync is pending.
HeldVsync ==
    /\ pc \in {"vsyncLoad", "vsyncStore"} => current \in VsyncEvents
    /\ pc = "polling" => current \notin VsyncEvents

VsyncInv == VsyncAtVip /\ LoadedCovers /\ HeldVsync /\ PendingVsyncCovers /\ BarrierNeedsVsync

LEMMA QueuedVsyncFinite ==
    /\ IsFiniteSet(QueuedVsync) /\ Cardinality(QueuedVsync) \in Nat
    /\ \A S \in SUBSET VsyncEvents : IsFiniteSet(S) /\ Cardinality(S) \in Nat
    /\ \A S, T \in SUBSET VsyncEvents : S \subseteq T => Cardinality(S) <= Cardinality(T)
<1>1. \A S \in SUBSET VsyncEvents : IsFiniteSet(S) /\ Cardinality(S) \in Nat
  BY VsyncAssumption, FS_Subset, FS_CardinalityType
<1>2. \A S, T \in SUBSET VsyncEvents : S \subseteq T => Cardinality(S) <= Cardinality(T)
  BY <1>1, FS_Subset
<1>3. QueuedVsync \in SUBSET VsyncEvents
  BY DEF QueuedVsync
<1> QED
  BY <1>1, <1>2, <1>3

\* Only PostVsync adds to the vsync events queued.
LEMMA QueuedVsyncShrinks ==
    ASSUME TypeOK, VsyncAtVip, [Next]_vars, ~PostVsync
    PROVE  /\ VsyncAtVip'
           /\ QueuedVsync' \subseteq QueuedVsync
           /\ Cardinality(QueuedVsync') <= Cardinality(QueuedVsync)
           /\ Cardinality(QueuedVsync') \in Nat /\ Cardinality(QueuedVsync) \in Nat
<1>1. ASSUME NEW p \in Queues
      PROVE  Members(queue'[p]) \intersect VsyncEvents \subseteq Members(queue[p])
  <2>1. CASE \E X \in SUBSET Events : Erased(X)
    BY <2>1, ErasedMembers DEF TypeOK
  <2>2. CASE ListsKept
    BY <2>2 DEF ListsKept
  <2>3. CASE \E e \in Events \ VsyncEvents, q \in Queues, sent \in 0 .. MaxTime, t \in 0 .. Far :
               Insert(e, q, sent, t)
    <3>1. PICK e \in Events \ VsyncEvents, q \in Queues, sent \in 0 .. MaxTime, t \in 0 .. Far :
               Insert(e, q, sent, t)
      BY <2>3
    <3>2. Members(queue'[q]) = Members(queue[q]) \union {e}
          /\ \A r \in Queues : r # q => queue'[r] = queue[r]
      BY <3>1, InsertedLists DEF TypeOK
    <3> QED
      BY <3>2
  <2>4. ListStep
    BY EveryListStep
  <2> QED
    BY <2>1, <2>2, <2>3, <2>4 DEF ListStep
<1>2. VsyncAtVip'
  BY <1>1 DEF VsyncAtVip
<1>3. QueuedVsync' \subseteq QueuedVsync /\ QueuedVsync' \in SUBSET VsyncEvents
      /\ QueuedVsync \in SUBSET VsyncEvents
  BY <1>1, QueuesAre DEF QueuedVsync, VIP
<1> QED
  BY <1>2, <1>3, QueuedVsyncFinite

LEMMA PostVsyncCounts ==
    ASSUME TypeOK, VsyncInv, PostVsync
    PROVE  VsyncInv'
<1>1. PICK e \in VsyncEvents : e \in Events /\ Insert(e, VIP, now, Far)
  BY PostVsyncInserts
<1>2. VIP \in Queues /\ now \in 0 .. MaxTime /\ Far \in 0 .. Far
  BY QueuesAre, TimeAssumption DEF VIP, TypeOK
<1>3. /\ Members(queue'[VIP]) = Members(queue[VIP]) \union {e}
      /\ \A q \in Queues : q # VIP => queue'[q] = queue[q]
      /\ ~Queued(e)
  BY <1>1, <1>2, InsertedLists DEF TypeOK
<1>4. /\ sumOfPendingVsync' = Int8(sumOfPendingVsync + 1)
      /\ UNCHANGED <<pc, current, loaded, isBarrierMode>>
  BY <1>1 DEF Insert, DispatchVsyncTaskNotify, runVars
<1>5. pc \in {"waiting", "polling"} /\ sumOfPendingVsync \in -128 .. 126
  BY VsyncAssumption DEF PostVsync, TypeOK, VsyncTypes
<1>6. sumOfPendingVsync' = sumOfPendingVsync + 1
  <2>1. sumOfPendingVsync + 1 \in -128 .. 127
    BY <1>5
  <2> QED
    BY <1>4, <2>1, Int8Exact
<1>7. QueuedVsync' = QueuedVsync \union {e} /\ e \notin QueuedVsync
  BY <1>1, <1>2, <1>3 DEF QueuedVsync, Queued
<1>8. Cardinality(QueuedVsync') = Cardinality(QueuedVsync) + 1 /\ Cardinality(QueuedVsync) \in Nat
  BY <1>7, QueuedVsyncFinite, FS_AddElement
<1>9. ~InFlight /\ ~InFlight'
  BY <1>4, <1>5 DEF InFlight
<1>10. sumOfPendingVsync >= Cardinality(QueuedVsync)
  BY <1>5, <1>8, <1>9 DEF VsyncInv, PendingVsyncCovers
<1>11. sumOfPendingVsync' >= Cardinality(QueuedVsync') /\ sumOfPendingVsync' # 0
  BY <1>5, <1>6, <1>8, <1>10
<1>12. PendingVsyncCovers'
  <2>1. PendingVsyncCovers' <=>
          sumOfPendingVsync' >= Cardinality(QueuedVsync') + (IF InFlight' THEN 1 ELSE 0)
    BY DEF PendingVsyncCovers
  <2> QED
    BY <1>5, <1>6, <1>8, <1>9, <1>11, <2>1
<1>13. BarrierNeedsVsync'
  BY <1>11 DEF BarrierNeedsVsync
<1>14. VsyncAtVip' /\ LoadedCovers' /\ HeldVsync'
  BY <1>3, <1>4, <1>5 DEF VsyncInv, VsyncAtVip, LoadedCovers, HeldVsync
<1> QED
  BY <1>12, <1>13, <1>14 DEF VsyncInv

\* An orphan's vsync notifications are taken back exactly.
LEMMA RemoveOrphanCounts ==
    ASSUME TypeOK, VsyncInv, [Next]_vars, NEW h \in Handlers, RemoveOrphan(h), ~PostVsync
    PROVE  VsyncInv'
<1> DEFINE orphans == {e \in Events : OwnerOf[e] \notin alive}
           taken == {e \in orphans \intersect VsyncEvents : Queued(e)}
<1>1. /\ Erase(orphans)
      /\ sumOfPendingVsync' = Int8(sumOfPendingVsync - Cardinality(taken))
      /\ isBarrierMode' = (isBarrierMode /\ taken = {})
      /\ UNCHANGED <<pc, current, loaded>>
  BY DEF RemoveOrphan, runVars
<1>2. Members(queue'[VIP]) \subseteq Members(queue[VIP]) \ orphans
  BY <1>1, EraseErases, ErasedMembers, QueuesAre DEF TypeOK, VIP
<1>3. taken = QueuedVsync \intersect orphans /\ taken \in SUBSET VsyncEvents
  BY QueuesAre, EventAssumption DEF VsyncInv, VsyncAtVip, Queued, QueuedVsync, VIP
<1> HIDE DEF orphans, taken
<1>4. QueuedVsync' \subseteq QueuedVsync \ taken
  BY <1>2, <1>3 DEF QueuedVsync
<1>5. /\ Cardinality(QueuedVsync \ taken) = Cardinality(QueuedVsync) - Cardinality(taken)
      /\ Cardinality(taken) \in Nat
      /\ Cardinality(QueuedVsync) \in Nat
  <2>1. QueuedVsync \intersect taken = taken /\ IsFiniteSet(QueuedVsync)
    BY <1>3, QueuedVsyncFinite
  <2> QED
    BY <1>3, <2>1, QueuedVsyncFinite, FS_Difference
<1>6. /\ Cardinality(QueuedVsync') <= Cardinality(QueuedVsync) - Cardinality(taken)
      /\ Cardinality(QueuedVsync') \in Nat
  <2>1. QueuedVsync' \in SUBSET VsyncEvents /\ QueuedVsync \ taken \in SUBSET VsyncEvents
    BY <1>4 DEF QueuedVsync
  <2> QED
    BY <1>4, <1>5, <2>1, QueuedVsyncFinite
<1>7. InFlight' <=> InFlight
  BY <1>1 DEF InFlight
<1> DEFINE flying == IF InFlight THEN 1 ELSE 0
           flyingNext == IF InFlight' THEN 1 ELSE 0
<1>8. sumOfPendingVsync >= Cardinality(QueuedVsync) + flying
  BY DEF VsyncInv, PendingVsyncCovers
<1>9. flyingNext = flying /\ flying \in {0, 1}
  BY <1>7
<1>a. PendingVsyncCovers' <=> sumOfPendingVsync' >= Cardinality(QueuedVsync') + flyingNext
  BY DEF PendingVsyncCovers
<1> HIDE DEF flying, flyingNext
<1>10. sumOfPendingVsync \in -128 .. 127
  BY DEF TypeOK, VsyncTypes
<1>11. sumOfPendingVsync - Cardinality(taken) \in -128 .. 127
  <2>1. \A s \in -128 .. 127 : \A c, n, m \in Nat : \A f \in {0, 1} :
            s >= n + f /\ m <= n - c => s - c \in -128 .. 127
    OBVIOUS
  <2> QED
    BY <1>5, <1>6, <1>8, <1>9, <1>10, <2>1
<1>12. sumOfPendingVsync' = sumOfPendingVsync - Cardinality(taken)
  BY <1>1, <1>11, Int8Exact
<1>13. sumOfPendingVsync' >= Cardinality(QueuedVsync') + flyingNext
  BY <1>5, <1>6, <1>8, <1>9, <1>10, <1>12
<1>14. BarrierNeedsVsync'
  <2>1. SUFFICES ASSUME isBarrierMode' PROVE sumOfPendingVsync' # 0 \/ pc' = "vsyncBarrier"
    BY DEF BarrierNeedsVsync
  <2>2. isBarrierMode /\ taken = {}
    BY <1>1, <2>1
  <2>3. sumOfPendingVsync' = sumOfPendingVsync
    BY <1>10, <1>12, <2>2, FS_EmptySet
  <2> QED
    BY <1>1, <2>2, <2>3 DEF VsyncInv, BarrierNeedsVsync
<1>15. LoadedCovers'
  <2>1. SUFFICES ASSUME pc' = "vsyncStore" PROVE loaded' >= Cardinality(QueuedVsync') + 1
    BY DEF LoadedCovers
  <2>2. loaded' = loaded /\ loaded >= Cardinality(QueuedVsync) + 1 /\ loaded \in Int
    BY <1>1, <2>1 DEF VsyncInv, LoadedCovers, TypeOK, RunTypes
  <2> QED
    BY <1>5, <1>6, <2>2
<1>16. VsyncAtVip' /\ HeldVsync'
  BY <1>1, QueuedVsyncShrinks DEF VsyncInv, HeldVsync
<1> QED
  BY <1>a, <1>13, <1>14, <1>15, <1>16 DEF VsyncInv

\* Whatever leaves the count alone keeps the invariant, if it makes no vsync in flight.
LEMMA CountKept ==
    ASSUME TypeOK, VsyncInv, [Next]_vars, ~PostVsync,
           sumOfPendingVsync' = sumOfPendingVsync, loaded' = loaded,
           isBarrierMode' => isBarrierMode,
           pc = "vsyncBarrier" => pc' = "vsyncBarrier" \/ ~isBarrierMode',
           pc' = "vsyncStore" => pc = "vsyncStore",
           InFlight' => InFlight,
           HeldVsync'
    PROVE  VsyncInv'
<1>1. /\ VsyncAtVip'
      /\ Cardinality(QueuedVsync') <= Cardinality(QueuedVsync)
      /\ Cardinality(QueuedVsync') \in Nat /\ Cardinality(QueuedVsync) \in Nat
  BY QueuedVsyncShrinks DEF VsyncInv
<1>2. PendingVsyncCovers'
  <2> DEFINE flying == IF InFlight THEN 1 ELSE 0
             flyingNext == IF InFlight' THEN 1 ELSE 0
  <2>1. /\ sumOfPendingVsync >= Cardinality(QueuedVsync) + flying
        /\ PendingVsyncCovers' <=> sumOfPendingVsync' >= Cardinality(QueuedVsync') + flyingNext
    BY DEF VsyncInv, PendingVsyncCovers
  <2>2. flyingNext <= flying /\ flying \in {0, 1} /\ flyingNext \in {0, 1}
    OBVIOUS
  <2>3. sumOfPendingVsync \in Int
    BY DEF TypeOK, VsyncTypes
  <2> HIDE DEF flying, flyingNext
  <2>4. sumOfPendingVsync' >= Cardinality(QueuedVsync') + flyingNext
    BY <1>1, <2>1, <2>2, <2>3
  <2> QED
    BY <2>1, <2>4
<1>3. LoadedCovers'
  <2>1. SUFFICES ASSUME pc' = "vsyncStore" PROVE loaded' >= Cardinality(QueuedVsync') + 1
    BY DEF LoadedCovers
  <2>2. loaded' = loaded /\ loaded >= Cardinality(QueuedVsync) + 1 /\ loaded \in Int
    BY <2>1 DEF VsyncInv, LoadedCovers, TypeOK, RunTypes
  <2> QED
    BY <1>1, <2>2
<1>4. BarrierNeedsVsync'
  BY DEF VsyncInv, BarrierNeedsVsync
<1> QED
  BY <1>1, <1>2, <1>3, <1>4 DEF VsyncInv

\* The event that starts to run stops counting as it stores the decrement.
LEMMA VsyncRuns ==
    ASSUME TypeOK, VsyncInv, [Next]_vars, ~PostVsync, LoadPendingVsync \/ StorePendingVsync
    PROVE  VsyncInv'
<1>1. /\ VsyncAtVip'
      /\ Cardinality(QueuedVsync') <= Cardinality(QueuedVsync)
      /\ Cardinality(QueuedVsync') \in Nat /\ Cardinality(QueuedVsync) \in Nat
  BY QueuedVsyncShrinks DEF VsyncInv
<1>2. sumOfPendingVsync \in -128 .. 127 /\ loaded \in -128 .. 127
  BY DEF TypeOK, VsyncTypes, RunTypes
<1>3. CASE LoadPendingVsync
  <2>1. /\ pc = "vsyncLoad" /\ pc' = "vsyncStore" /\ loaded' = sumOfPendingVsync
        /\ UNCHANGED <<sumOfPendingVsync, isBarrierMode, current>>
    BY <1>3 DEF LoadPendingVsync, vsyncVars
  <2>2. InFlight /\ InFlight'
    BY <2>1 DEF VsyncInv, HeldVsync, InFlight
  <2>3. sumOfPendingVsync >= Cardinality(QueuedVsync) + 1
    BY <2>2 DEF VsyncInv, PendingVsyncCovers
  <2>4. sumOfPendingVsync >= Cardinality(QueuedVsync') + 1
    BY <1>1, <1>2, <2>3
  <2>5. PendingVsyncCovers' /\ LoadedCovers'
    BY <2>1, <2>2, <2>4 DEF PendingVsyncCovers, LoadedCovers
  <2>6. HeldVsync' /\ BarrierNeedsVsync'
    BY <2>1 DEF VsyncInv, HeldVsync, BarrierNeedsVsync
  <2> QED
    BY <1>1, <2>5, <2>6 DEF VsyncInv
<1>4. CASE StorePendingVsync
  <2>1. /\ pc = "vsyncStore" /\ pc' = "vsyncBarrier"
        /\ sumOfPendingVsync' = Int8(loaded - 1)
    BY <1>4 DEF StorePendingVsync
  <2>2. loaded >= Cardinality(QueuedVsync) + 1
    BY <2>1 DEF VsyncInv, LoadedCovers
  <2>3. loaded - 1 \in -128 .. 127
    BY <1>1, <1>2, <2>2
  <2>4. sumOfPendingVsync' = loaded - 1
    BY <2>1, <2>3, Int8Exact
  <2>5. sumOfPendingVsync' >= Cardinality(QueuedVsync') /\ ~InFlight'
    BY <1>1, <1>2, <2>1, <2>2, <2>4 DEF InFlight
  <2>6. PendingVsyncCovers'
    <3>1. PendingVsyncCovers' <=> sumOfPendingVsync' >= Cardinality(QueuedVsync') + 0
      BY <2>5 DEF PendingVsyncCovers
    <3> QED
      BY <1>1, <2>5, <3>1
  <2>7. LoadedCovers' /\ HeldVsync' /\ BarrierNeedsVsync'
    BY <2>1 DEF LoadedCovers, HeldVsync, BarrierNeedsVsync
  <2> QED
    BY <1>1, <2>6, <2>7 DEF VsyncInv
<1> QED
  BY <1>3, <1>4

\* Barrier mode is entered, or kept, only while vsync is pending.
LEMMA BarrierModePending ==
    ASSUME TypeOK, VsyncInv, pc = "getEvent", NEW forced \in ForceWindows, NEW elapsed \in BOOLEAN,
           CheckBarrierMode(forced, elapsed).barrier
    PROVE  sumOfPendingVsync # 0
BY DEF CheckBarrierMode, EntersBarrier, VsyncInv, BarrierNeedsVsync

LEMMA TakingVsync ==
    ASSUME TypeOK, VsyncInv, NEW e \in VsyncEvents, NEW r, Pop(e, r), Queued(e)
    PROVE  /\ Cardinality(QueuedVsync') + 1 <= Cardinality(QueuedVsync)
           /\ Cardinality(QueuedVsync') \in Nat /\ Cardinality(QueuedVsync) \in Nat
<1>1. e \in QueuedVsync
  BY DEF VsyncInv, VsyncAtVip, Queued, QueuedVsync
<1>2. Members(queue'[VIP]) \subseteq Members(queue[VIP]) \ {e}
  BY PopErases, ErasedMembers, QueuesAre DEF TypeOK, VIP
<1>3. QueuedVsync' \subseteq QueuedVsync \ {e} /\ QueuedVsync' \in SUBSET VsyncEvents
      /\ QueuedVsync \ {e} \in SUBSET VsyncEvents
  BY <1>2 DEF QueuedVsync
<1>4. Cardinality(QueuedVsync \ {e}) = Cardinality(QueuedVsync) - 1
  BY <1>1, QueuedVsyncFinite, FS_RemoveElement
<1>5. Cardinality(QueuedVsync') <= Cardinality(QueuedVsync) - 1 /\ Cardinality(QueuedVsync') \in Nat
  BY <1>3, <1>4, QueuedVsyncFinite
<1>6. Cardinality(QueuedVsync) \in Nat
  BY QueuedVsyncFinite
<1> QED
  BY <1>5, <1>6

LEMMA GetEventCounts ==
    ASSUME TypeOK, VsyncInv, [Next]_vars, ~PostVsync, GetEvent
    PROVE  VsyncInv'
<1>1. PICK forced \in ForceWindows, elapsed \in BOOLEAN :
        LET mode == CheckBarrierMode(forced, elapsed)
        IN  /\ isLazyMode' = mode.lazy
            /\ \/ TakeExpired(mode) /\ isBarrierMode' = mode.barrier
               \/ TakePendingVsync(mode) /\ isBarrierMode' = mode.barrier
               \/ ResetPendingVsync(mode) /\ isBarrierMode' = FALSE
               \/ StartWaiting(mode) /\ isBarrierMode' = mode.barrier
  BY DEF GetEvent
<1> DEFINE mode == CheckBarrierMode(forced, elapsed)
<1>2. mode.barrier \in BOOLEAN
  BY ParameterAssumption
     DEF CheckBarrierMode, LazyAfterForce, EntersBarrier, LeavesBarrier, TypeOK, VsyncTypes
<1>3. pc = "getEvent" /\ loaded' = loaded /\ ~InFlight
  BY DEF GetEvent, InFlight
<1>4. mode.barrier => sumOfPendingVsync # 0
  BY <1>3, BarrierModePending
<1> HIDE DEF mode
<1>5. /\ VsyncAtVip'
      /\ Cardinality(QueuedVsync') <= Cardinality(QueuedVsync)
      /\ Cardinality(QueuedVsync') \in Nat /\ Cardinality(QueuedVsync) \in Nat
  BY QueuedVsyncShrinks DEF VsyncInv
<1>6. sumOfPendingVsync >= Cardinality(QueuedVsync) /\ sumOfPendingVsync \in Int
  <2>1. sumOfPendingVsync >= Cardinality(QueuedVsync) + 0 /\ sumOfPendingVsync \in Int
    BY <1>3 DEF VsyncInv, PendingVsyncCovers, TypeOK, VsyncTypes
  <2> QED
    BY <1>5, <2>1
<1>7. ASSUME NEW e \in VsyncEvents, NEW r, Pop(e, r), Queued(e),
             pc' \in {"execute", "polling"}, sumOfPendingVsync # 0 => pc' = "execute",
             sumOfPendingVsync' = sumOfPendingVsync
      PROVE  VsyncInv'
  <2>1. Cardinality(QueuedVsync') + 1 <= Cardinality(QueuedVsync)
    BY <1>7, TakingVsync
  <2>2. sumOfPendingVsync' >= Cardinality(QueuedVsync') + 1 /\ sumOfPendingVsync' # 0
    BY <1>5, <1>6, <1>7, <2>1
  <2>3. pc' = "execute" /\ InFlight'
    BY <1>7, <2>2 DEF Pop, InFlight
  <2>4. PendingVsyncCovers' /\ BarrierNeedsVsync' /\ LoadedCovers' /\ HeldVsync'
    BY <2>2, <2>3 DEF PendingVsyncCovers, BarrierNeedsVsync, LoadedCovers, HeldVsync
  <2> QED
    BY <1>5, <2>4 DEF VsyncInv
<1>8. ASSUME ~InFlight', sumOfPendingVsync' >= Cardinality(QueuedVsync'), sumOfPendingVsync' \in Int,
             isBarrierMode' => sumOfPendingVsync' # 0,
             pc' \in {"getEvent", "waiting", "execute", "polling"},
             pc' = "polling" => current' \notin VsyncEvents
      PROVE  VsyncInv'
  <2>1. sumOfPendingVsync' >= Cardinality(QueuedVsync') + 0
    BY <1>5, <1>8
  <2>2. PendingVsyncCovers'
    BY <1>8, <2>1 DEF PendingVsyncCovers
  <2>3. BarrierNeedsVsync' /\ LoadedCovers' /\ HeldVsync'
    BY <1>8 DEF BarrierNeedsVsync, LoadedCovers, HeldVsync
  <2> QED
    BY <1>5, <2>2, <2>3 DEF VsyncInv
<1>9. CASE TakeExpired(mode) /\ isBarrierMode' = mode.barrier
  <2> DEFINE e == ExpiredEvent(mode.barrier)
             r == PickEventLocked(mode.barrier) # NoEvent
  <2>1. /\ Pop(e, r) /\ sumOfPendingVsync' = sumOfPendingVsync
        /\ pc' \in {"execute", "polling"}
        /\ sumOfPendingVsync # 0 => pc' = "execute"
    BY <1>9 DEF TakeExpired
  <2>2. Queued(e)
    BY <1>2, <1>9, ExpiredEventType DEF TakeExpired, TypeOK, Queued
  <2>3. current' = e
    BY <2>1 DEF Pop
  <2> HIDE DEF e, r
  <2>4. CASE e \in VsyncEvents
    BY <1>7, <2>1, <2>2, <2>4
  <2>5. CASE e \notin VsyncEvents
    <3>1. ~InFlight' /\ current' \notin VsyncEvents
      BY <2>3, <2>5 DEF InFlight
    <3>2. sumOfPendingVsync' >= Cardinality(QueuedVsync') /\ sumOfPendingVsync' \in Int
      BY <1>5, <1>6, <2>1
    <3>3. isBarrierMode' => sumOfPendingVsync' # 0
      BY <1>4, <1>9, <2>1
    <3> QED
      BY <1>8, <2>1, <3>1, <3>2, <3>3
  <2> QED
    BY <2>4, <2>5
<1>10. CASE TakePendingVsync(mode)
  <2> DEFINE e == FirstIn(queue[VIP], VsyncEvents)
  <2>1. Pop(e, FALSE) /\ sumOfPendingVsync' = sumOfPendingVsync /\ pc' = "execute"
    BY <1>10 DEF TakePendingVsync
  <2>2. VIP \in Queues /\ queue[VIP] \in Seq(Events) /\ Members(queue[VIP]) \intersect VsyncEvents # {}
    BY <1>10, QueuesAre DEF TakePendingVsync, QueuedVsync, TypeOK, ListTypes, VIP
  <2>3. e \in VsyncEvents /\ Queued(e)
    BY <2>2, FirstInProperties DEF Queued
  <2> HIDE DEF e
  <2> QED
    BY <1>7, <2>1, <2>3
<1>11. CASE ResetPendingVsync(mode) /\ isBarrierMode' = FALSE
  <2>1. /\ QueuedVsync = {} /\ sumOfPendingVsync' = 0 /\ pc' = "getEvent"
    BY <1>3, <1>11 DEF ResetPendingVsync
  <2>2. Cardinality(QueuedVsync) = 0
    BY <2>1, FS_EmptySet
  <2>3. sumOfPendingVsync' >= Cardinality(QueuedVsync') /\ sumOfPendingVsync' \in Int
    BY <1>5, <2>1, <2>2
  <2> QED
    BY <1>8, <1>11, <2>1, <2>3 DEF InFlight
<1>12. CASE StartWaiting(mode) /\ isBarrierMode' = mode.barrier
  <2>1. sumOfPendingVsync = 0 /\ sumOfPendingVsync' = sumOfPendingVsync /\ pc' = "waiting"
    BY <1>12 DEF StartWaiting
  <2>2. sumOfPendingVsync' >= Cardinality(QueuedVsync') /\ sumOfPendingVsync' \in Int
    BY <1>5, <1>6, <2>1
  <2> QED
    BY <1>4, <1>8, <1>12, <2>1, <2>2 DEF InFlight
<1> QED
  BY <1>1, <1>9, <1>10, <1>11, <1>12 DEF mode

LEMMA VsyncInvStep == TypeOK /\ VsyncInv /\ [Next]_vars => VsyncInv'
<1> SUFFICES ASSUME TypeOK, VsyncInv, [Next]_vars PROVE VsyncInv'
  OBVIOUS
<1>1. CASE PostVsync
  BY <1>1, PostVsyncCounts
<1> SUFFICES ASSUME ~PostVsync PROVE VsyncInv'
  BY <1>1
<1>2. CASE \E h \in Handlers : RemoveOrphan(h)
  BY <1>2, RemoveOrphanCounts
<1>3. CASE GetEvent
  BY <1>3, GetEventCounts
<1>4. CASE LoadPendingVsync \/ StorePendingVsync
  BY <1>4, VsyncRuns
<1>5. CASE Execute
  <2>1. /\ UNCHANGED <<sumOfPendingVsync, isBarrierMode, loaded>> /\ pc = "execute"
        /\ \/ pc' = "getEvent"
           \/ pc' \in {"vsyncLoad", "callback"} /\ current' = current
        /\ pc' = "vsyncLoad" => current \in VsyncEvents
    BY <1>5 DEF Execute, vsyncVars
  <2>2. HeldVsync' /\ (InFlight' => InFlight)
    BY <2>1 DEF HeldVsync, InFlight
  <2> QED
    BY <2>1, <2>2, CountKept
<1>6. CASE EndPoll
  <2>1. /\ UNCHANGED <<sumOfPendingVsync, isBarrierMode, loaded, current>>
        /\ pc = "polling" /\ pc' = "execute"
    BY <1>6 DEF EndPoll
  <2>2. HeldVsync' /\ ~InFlight'
    BY <2>1 DEF VsyncInv, HeldVsync, InFlight
  <2> QED
    BY <2>1, <2>2, CountKept
<1>7. CASE Run \/ ExitLoop \/ WakeUp \/ ClearBarrier \/ EndCallback
  <2>1. /\ UNCHANGED <<sumOfPendingVsync, loaded>>
        /\ isBarrierMode' => isBarrierMode
        /\ pc' \in {"getEvent", "stopped", "callback"}
        /\ pc = "vsyncBarrier" => ~isBarrierMode'
    BY <1>7 DEF Run, ExitLoop, WakeUp, Waiting, ClearBarrier, EndCallback, vsyncVars
  <2>2. HeldVsync' /\ ~InFlight'
    BY <2>1 DEF HeldVsync, InFlight
  <2> QED
    BY <2>1, <2>2, CountKept
<1>8. CASE \/ SendEvent \/ Remove \/ Finish \/ SetVsyncLazyMode \/ Tick
           \/ \E h \in Handlers : ReleaseHandler(h)
           \/ UNCHANGED vars
  <2>1. UNCHANGED <<sumOfPendingVsync, isBarrierMode, loaded, pc, current>>
    BY <1>8 DEF SendEvent, Insert, Remove, Finish, SetVsyncLazyMode, Tick,
                ReleaseHandler, vars, vsyncVars, runVars
  <2>2. HeldVsync' /\ (InFlight' => InFlight)
    BY <2>1 DEF VsyncInv, HeldVsync, InFlight
  <2> QED
    BY <2>1, <2>2, CountKept
<1> QED
  BY <1>2, <1>3, <1>4, <1>5, <1>6, <1>7, <1>8 DEF Next, Runner, Clients

LEMMA VsyncInvHolds == Spec => []VsyncInv
<1>1. Init => VsyncInv
  <2> SUFFICES ASSUME Init PROVE VsyncInv
    OBVIOUS
  <2>1. \A p \in Queues : Members(queue[p]) = {}
    BY DEF Init, Members
  <2>2. QueuedVsync = {} /\ ~InFlight
    BY <2>1, QueuesAre DEF Init, QueuedVsync, InFlight, VIP
  <2>3. Cardinality(QueuedVsync) = 0
    BY <2>2, FS_EmptySet
  <2>4. PendingVsyncCovers
    BY <2>2, <2>3 DEF Init, PendingVsyncCovers
  <2>5. VsyncAtVip /\ LoadedCovers /\ HeldVsync /\ BarrierNeedsVsync
    BY <2>1 DEF Init, VsyncAtVip, LoadedCovers, HeldVsync, BarrierNeedsVsync
  <2> QED
    BY <2>4, <2>5 DEF VsyncInv
<1> QED
  BY <1>1, VsyncInvStep, TypeCorrect, PTL DEF Spec

\* The count the runner decrements without the lock never falls below what is still to run.
THEOREM PendingVsyncIsCovered == Spec => []PendingVsyncCovers
<1>1. VsyncInv => PendingVsyncCovers
  BY DEF VsyncInv
<1> QED
  BY <1>1, VsyncInvHolds, PTL

\* Barrier mode never outlives the vsync events it waits for.
THEOREM BarrierModeEnds == Spec => []BarrierNeedsVsync
<1>1. VsyncInv => BarrierNeedsVsync
  BY DEF VsyncInv
<1> QED
  BY <1>1, VsyncInvHolds, PTL

-----------------------------------------------------------------------------
(* The times read without the lock are those of the heads. *)

\* A queued vsync event waits for a time no other event has.
VsyncAtFar == \A p \in Queues : \A e \in Members(queue[p]) : e \in VsyncEvents => handleTime[e] = Far

FrontInv == VsyncAtFar /\ FrontTimesCoherent

LEMMA InsertedTimes ==
    ASSUME TypeOK, NEW e \in Events, NEW p \in Queues, NEW sent, NEW t \in 0 .. Far,
           Insert(e, p, sent, t), NEW q \in Queues
    PROVE  \A f \in Members(queue[q]) : f # e /\ handleTime'[f] = handleTime[f]
<1>1. ~Queued(e) /\ handleTime' = [handleTime EXCEPT ![e] = InsertTime(e, p, t)]
  BY InsertedLists DEF TypeOK
<1>2. Members(queue[q]) \subseteq Events
  BY MembersAreEvents DEF TypeOK
<1> QED
  BY <1>1, <1>2 DEF Queued, TypeOK, ListTypes

LEMMA VsyncStaysFar ==
    ASSUME ListsInv, VsyncAtFar, [Next]_vars
    PROVE  VsyncAtFar'
<1> USE DEF ListsInv
<1>1. CASE PostVsync
  <2>1. PICK e \in VsyncEvents : e \in Events /\ Insert(e, VIP, now, Far)
    BY <1>1, PostVsyncInserts
  <2>2. VIP \in Queues /\ Far \in 0 .. Far /\ e \notin FrontEvents
    BY QueuesAre, TimeAssumption, EventAssumption DEF VIP
  <2>3. handleTime'[e] = Far
    BY <2>1, <2>2, InsertedLists DEF InsertTime, TypeOK, ListTypes
  <2> QED
    BY <2>1, <2>2, <2>3, InsertedLists, InsertedTimes DEF VsyncAtFar, TypeOK
<1>2. CASE \E X \in SUBSET Events : Erased(X)
  BY <1>2, ErasedMembers DEF VsyncAtFar, TypeOK
<1>3. CASE ListsKept
  <2>1. \A p \in Queues : \A e \in Members(queue[p]) : e \in Events /\ e # current
    BY MembersAreEvents DEF HeldOnce, Queued, TypeOK
  <2> QED
    BY <1>3, <2>1 DEF VsyncAtFar, ListsKept
<1>4. CASE \E e \in Events \ VsyncEvents, p \in Queues, sent \in 0 .. MaxTime, t \in 0 .. Far :
               Insert(e, p, sent, t)
  BY <1>4, InsertedLists, InsertedTimes DEF VsyncAtFar, TypeOK
<1>5. ListStep
  BY EveryListStep
<1> QED
  BY <1>1, <1>2, <1>3, <1>4, <1>5 DEF ListStep

\* A list keeps its head unless that is erased.
LEMMA HeadStays ==
    ASSUME TypeOK, NEW p \in Queues, NEW X, Erased(X), queue[p] # <<>> => queue[p][1] \notin X
    PROVE  HeadTime(queue'[p], handleTime') = HeadTime(queue[p], handleTime)
<1>1. queue[p] \in Seq(Events) /\ queue'[p] = RemoveIf(queue[p], X)
  BY ErasedMembers DEF TypeOK, ListTypes
<1>2. CASE queue[p] = <<>>
  BY <1>1, <1>2, RemoveIfHead DEF HeadTime
<1>3. CASE queue[p] # <<>>
  <2>1. queue'[p] # <<>> /\ queue'[p][1] = queue[p][1] /\ queue[p][1] \in Events
    BY <1>1, <1>3, RemoveIfHead
  <2> QED
    BY <1>3, <2>1 DEF HeadTime, Erased
<1> QED
  BY <1>2, <1>3

\* Behind a head at Far nothing is earlier.
LEMMA FarHead ==
    ASSUME ListsInv, NEW p \in Queues, NEW X \in SUBSET Events, Erased(X),
           HeadTime(queue[p], handleTime) >= Far
    PROVE  HeadTime(queue'[p], handleTime') >= Far
<1> USE DEF ListsInv
<1>1. /\ queue[p] \in Seq(Events) /\ queue'[p] = RemoveIf(queue[p], X)
      /\ Members(queue'[p]) \subseteq Members(queue[p])
      /\ \A e \in Members(queue'[p]) : handleTime'[e] = handleTime[e]
  BY ErasedMembers DEF TypeOK, ListTypes
<1>2. Far \in Nat /\ TimeMax \in Nat /\ Far < TimeMax
  BY TimeAssumption
<1>3. CASE queue'[p] = <<>>
  BY <1>2, <1>3 DEF HeadTime
<1>4. CASE queue'[p] # <<>>
  <2>1. queue'[p] \in Seq(Events)
    BY <1>1, RemoveIfProperties
  <2>2. queue'[p][1] \in Members(queue'[p])
    BY <1>4, <2>1 DEF Members
  <2>3. PICK i \in DOMAIN queue[p] : queue'[p][1] = queue[p][i]
    BY <1>1, <2>2 DEF Members
  <2>4. queue[p] # <<>> /\ 1 \in DOMAIN queue[p] /\ i \in 1 .. Len(queue[p])
    BY <1>1, <2>3
  <2>5. handleTime[queue[p][1]] \in 0 .. Far /\ handleTime[queue[p][i]] \in 0 .. Far
    BY <1>1, <2>4 DEF TypeOK, ListTypes
  <2>6. handleTime[queue[p][1]] <= handleTime[queue[p][i]]
    <3>1. CASE i = 1
      BY <1>2, <2>5, <3>1
    <3>2. CASE i # 1
      BY <2>4, <3>2 DEF ListsInTimeOrder, InTimeOrder
    <3> QED
      BY <3>1, <3>2
  <2>7. HeadTime(queue[p], handleTime) = handleTime[queue[p][1]]
    BY <2>4 DEF HeadTime
  <2>8. HeadTime(queue'[p], handleTime') = handleTime[queue[p][i]]
    BY <1>1, <1>4, <2>2, <2>3 DEF HeadTime
  <2> QED
    BY <1>2, <2>5, <2>6, <2>7, <2>8
<1> QED
  BY <1>3, <1>4

\* An event taken without a refresh leaves its list's time right, if it is a vsync event.
LEMMA PopKeepsFront ==
    ASSUME ListsInv, FrontInv, NEW e \in Events, NEW refresh \in BOOLEAN, Pop(e, refresh),
           \A p \in SubQueues : e \in Members(queue[p]) /\ ~refresh => p = VIP /\ e \in VsyncEvents
    PROVE  FrontTimesCoherent'
<1> USE DEF ListsInv
<1>1. SUFFICES ASSUME NEW p \in SubQueues
               PROVE  \/ frontEventHandleTime'[p] = HeadTime(queue'[p], handleTime')
                      \/ /\ p = VIP /\ frontEventHandleTime'[p] = Far
                         /\ HeadTime(queue'[p], handleTime') >= Far
  BY DEF FrontTimesCoherent
<1>2. /\ Erased({e}) /\ {e} \in SUBSET Events /\ handleTime' = handleTime
      /\ frontEventHandleTime' =
             [q \in SubQueues |-> IF refresh /\ e \in Members(queue[q])
                                  THEN HeadTime(queue'[q], handleTime)
                                  ELSE frontEventHandleTime[q]]
  BY PopErases DEF Pop
<1>3. p \in Queues /\ queue[p] \in Seq(Events)
  BY QueuesAre DEF TypeOK, ListTypes
<1>4. CASE refresh /\ e \in Members(queue[p])
  BY <1>2, <1>4
<1>5. CASE ~ (refresh /\ e \in Members(queue[p]))
  <2>1. frontEventHandleTime'[p] = frontEventHandleTime[p]
    BY <1>2, <1>5
  <2>2. CASE queue[p] # <<>> => queue[p][1] # e
    <3>1. HeadTime(queue'[p], handleTime') = HeadTime(queue[p], handleTime)
      BY <1>2, <1>3, <2>2, HeadStays
    <3> QED
      BY <2>1, <3>1 DEF FrontInv, FrontTimesCoherent
  <2>3. CASE queue[p] # <<>> /\ queue[p][1] = e
    <3>1. e \in Members(queue[p])
      BY <1>3, <2>3 DEF Members
    <3>2. p = VIP /\ e \in VsyncEvents
      BY <1>5, <3>1
    <3>3. HeadTime(queue[p], handleTime) = Far
      BY <1>3, <2>3, <3>1, <3>2 DEF FrontInv, VsyncAtFar, HeadTime
    <3>4. HeadTime(queue[p], handleTime) >= Far /\ frontEventHandleTime[p] = Far
      BY <3>3, TimeAssumption DEF FrontInv, FrontTimesCoherent
    <3>5. HeadTime(queue'[p], handleTime') >= Far
      BY <1>2, <1>3, <3>4, FarHead
    <3> QED
      BY <2>1, <3>2, <3>4, <3>5
  <2> QED
    BY <2>2, <2>3
<1> QED
  BY <1>4, <1>5

LEMMA GetEventFront ==
    ASSUME ListsInv, FrontInv, GetEvent
    PROVE  FrontTimesCoherent'
<1> USE DEF ListsInv
<1>1. PICK forced \in ForceWindows, elapsed \in BOOLEAN :
        \/ TakeExpired(CheckBarrierMode(forced, elapsed))
        \/ TakePendingVsync(CheckBarrierMode(forced, elapsed))
        \/ ResetPendingVsync(CheckBarrierMode(forced, elapsed))
        \/ StartWaiting(CheckBarrierMode(forced, elapsed))
  BY DEF GetEvent
<1> DEFINE mode == CheckBarrierMode(forced, elapsed)
<1>2. mode.barrier \in BOOLEAN
  BY ParameterAssumption
     DEF CheckBarrierMode, LazyAfterForce, EntersBarrier, LeavesBarrier, TypeOK, VsyncTypes
<1> HIDE DEF mode
<1>3. CASE TakeExpired(mode)
  <2> DEFINE e == ExpiredEvent(mode.barrier)
             refresh == PickEventLocked(mode.barrier) # NoEvent
  <2>1. e \in Events /\ Pop(e, refresh) /\ refresh \in BOOLEAN
    BY <1>2, <1>3, ExpiredEventType DEF TakeExpired, TypeOK
  <2>2. ASSUME NEW p \in SubQueues, e \in Members(queue[p]), ~refresh
        PROVE  FALSE
    <3>1. IDLE \in Queues /\ p \in Queues /\ p # IDLE
      BY QueuesAre DEF IDLE
    <3> DEFINE I == IdleCandidates(mode.barrier, IdleStamp)
    <3>2. I # {} /\ e = FirstIn(queue[IDLE], I)
      BY <1>3, <2>2 DEF TakeExpired, ExpiredEvent
    <3>3. queue[IDLE] \in Seq(Events) /\ I \subseteq Members(queue[IDLE])
      <4>1. queue[IDLE] \in Seq(Events)
        BY <3>1 DEF TypeOK, ListTypes
      <4>2. queue[IDLE] # <<>> => queue[IDLE][1] \in Members(queue[IDLE])
        BY <4>1 DEF Members
      <4> QED
        BY <4>1, <4>2 DEF IdleCandidates
    <3> HIDE DEF I
    <3>4. e \in Members(queue[IDLE])
      <4>1. Members(queue[IDLE]) \intersect I # {}
        BY <3>2, <3>3
      <4>2. FirstIn(queue[IDLE], I) \in Members(queue[IDLE])
        BY <3>3, <4>1, FirstInProperties
      <4> QED
        BY <3>2, <4>2
    <3> QED
      BY <2>2, <3>1, <3>4 DEF HeldOnce, Members
  <2> HIDE DEF e, refresh
  <2> QED
    BY <2>1, <2>2, PopKeepsFront
<1>4. CASE TakePendingVsync(mode)
  <2>1. queue[VIP] \in Seq(Events) /\ Members(queue[VIP]) \intersect VsyncEvents # {}
    BY <1>4, QueuesAre DEF TakePendingVsync, QueuedVsync, TypeOK, ListTypes, VIP
  <2> DEFINE e == FirstIn(queue[VIP], VsyncEvents)
  <2>2. e \in VsyncEvents /\ e \in Events /\ e \in Members(queue[VIP]) /\ Pop(e, FALSE)
    BY <1>4, <2>1, FirstInProperties, EventAssumption DEF TakePendingVsync
  <2> HIDE DEF e
  <2>3. \A p \in SubQueues : e \in Members(queue[p]) => p = VIP
    <3>1. VIP \in Queues /\ SubQueues \subseteq Queues
      BY QueuesAre DEF VIP
    <3> QED
      BY <2>2, <3>1 DEF HeldOnce, Members
  <2> QED
    BY <2>2, <2>3, PopKeepsFront
<1>5. CASE ResetPendingVsync(mode) \/ StartWaiting(mode)
  BY <1>5 DEF ResetPendingVsync, StartWaiting, listVars, FrontInv, FrontTimesCoherent
<1> QED
  BY <1>1, <1>3, <1>4, <1>5 DEF mode

LEMMA FrontStep == ListsInv /\ FrontInv /\ [Next]_vars => FrontInv'
<1> SUFFICES ASSUME ListsInv, FrontInv, [Next]_vars PROVE FrontTimesCoherent'
  BY VsyncStaysFar DEF FrontInv
<1> USE DEF ListsInv
<1>1. CASE SendEvent \/ PostVsync
  <2>1. PICK e \in Events, p \in Queues, sent \in 0 .. MaxTime, t \in 0 .. Far :
           Insert(e, p, sent, t)
    BY <1>1, SendEventInserts, PostVsyncInserts, QueuesAre, TimeAssumption DEF TypeOK, VIP
  <2>2. /\ frontEventHandleTime' =
               [q \in SubQueues |-> IF q = p THEN HeadTime(queue'[p], handleTime')
                                    ELSE frontEventHandleTime[q]]
        /\ \A q \in Queues : q # p => queue'[q] = queue[q]
    BY <2>1, InsertedLists DEF Insert, TypeOK
  <2>3. ASSUME NEW q \in SubQueues, q # p
        PROVE  HeadTime(queue'[q], handleTime') = HeadTime(queue[q], handleTime)
    <3>1. q \in Queues /\ queue[q] \in Seq(Events) /\ queue'[q] = queue[q]
      BY <2>2, <2>3, QueuesAre DEF TypeOK, ListTypes
    <3>2. queue[q] # <<>> => queue[q][1] \in Members(queue[q])
      BY <3>1 DEF Members
    <3>3. queue[q] # <<>> => handleTime'[queue[q][1]] = handleTime[queue[q][1]]
      BY <2>1, <3>1, <3>2, InsertedTimes
    <3> QED
      BY <3>1, <3>3 DEF HeadTime
  <2> QED
    BY <2>2, <2>3 DEF FrontInv, FrontTimesCoherent
<1>2. ASSUME NEW S \in SUBSET Events, Erase(S) PROVE FrontTimesCoherent'
  <2>1. Erased(S) /\ frontEventHandleTime' = FrontTimes(queue', handleTime)
    BY <1>2, EraseErases DEF Erase
  <2>2. ASSUME NEW p \in SubQueues
        PROVE  HeadTime(queue'[p], handleTime') = HeadTime(queue'[p], handleTime)
    <3>1. /\ queue'[p] \in Seq(Events)
          /\ \A e \in Members(queue'[p]) : handleTime'[e] = handleTime[e]
      BY <2>1, QueuesAre, ErasedMembers, RemoveIfProperties DEF TypeOK, ListTypes
    <3>2. queue'[p] # <<>> => queue'[p][1] \in Members(queue'[p])
      BY <3>1 DEF Members
    <3> QED
      BY <3>1, <3>2 DEF HeadTime
  <2> QED
    BY <2>1, <2>2 DEF FrontTimesCoherent, FrontTimes
<1>3. CASE Remove \/ \E h \in Handlers : RemoveOrphan(h)
  BY <1>2, <1>3 DEF Remove, RemoveOrphan, OwnedBy
<1>4. CASE GetEvent
  BY <1>4, GetEventFront
<1>5. CASE Execute \/ EndCallback
  <2>1. queue' = queue /\ frontEventHandleTime' = frontEventHandleTime
    BY <1>5 DEF Execute, EndCallback
  <2>2. ASSUME NEW e, e # current, e \in Events PROVE handleTime'[e] = handleTime[e]
    BY <1>5, <2>2 DEF Execute, EndCallback, Forget
  <2>3. ASSUME NEW p \in SubQueues
        PROVE  HeadTime(queue'[p], handleTime') = HeadTime(queue[p], handleTime)
    <3>1. p \in Queues /\ queue[p] \in Seq(Events)
      BY QueuesAre DEF TypeOK, ListTypes
    <3>2. queue[p] # <<>> => queue[p][1] \in Events /\ queue[p][1] # current
      BY <3>1 DEF HeldOnce, Queued, Members
    <3> QED
      BY <2>1, <2>2, <3>2 DEF HeadTime
  <2> QED
    BY <2>1, <2>3 DEF FrontInv, FrontTimesCoherent
<1>6. CASE UNCHANGED listVars
  BY <1>6 DEF listVars, FrontInv, FrontTimesCoherent
<1>7. CASE \/ Run \/ ExitLoop \/ WakeUp \/ EndPoll
           \/ LoadPendingVsync \/ StorePendingVsync \/ ClearBarrier
           \/ Finish \/ SetVsyncLazyMode \/ Tick \/ UNCHANGED vars
           \/ \E h \in Handlers : ReleaseHandler(h)
  <2>1. UNCHANGED listVars
    BY <1>7 DEF Run, ExitLoop, WakeUp, EndPoll, LoadPendingVsync, StorePendingVsync,
                ClearBarrier, Finish, SetVsyncLazyMode, Tick, ReleaseHandler, vars
  <2> QED
    BY <1>6, <2>1
<1> QED
  BY <1>1, <1>3, <1>4, <1>5, <1>7 DEF Next, Runner, Clients

\* What HasPendingHigherEvent reads without the lock is the time of the head, but for a
\* head that no list of ordinary events has.
THEOREM FrontTimesStayCoherent == Spec => []FrontTimesCoherent
<1>1. Init => FrontInv
  <2> SUFFICES ASSUME Init PROVE FrontInv
    OBVIOUS
  <2>1. \A p \in Queues : queue[p] = <<>> /\ Members(queue[p]) = {}
    BY DEF Init, Members
  <2>2. \A p \in SubQueues : frontEventHandleTime[p] = TimeMax /\ p \in Queues
    BY QueuesAre DEF Init
  <2> QED
    BY <2>1, <2>2 DEF FrontInv, VsyncAtFar, FrontTimesCoherent, HeadTime
<1>2. FrontInv => FrontTimesCoherent
  BY DEF FrontInv
<1> QED
  BY <1>1, <1>2, FrontStep, ListsInvHolds, PTL DEF Spec

-----------------------------------------------------------------------------
(* No wake-up is lost. *)

\* Soon(e): the runner asked to be woken no later than the observer lets it be late for e.
Soon(e) == \E cost \in ObserverCosts : wakeUpTime <= handleTime[e] + cost

\* What is neither posted nor removed while the runner sleeps is still known to it.
LEMMA StillSoon ==
    ASSUME TypeOK, HeldOnce, NoLostWakeUp, Waiting, ~notified, wakeUpTime' = wakeUpTime,
           NEW p \in SubQueues, NEW e \in Members(queue[p]), handleTime'[e] = handleTime[e]
    PROVE  e \notin VsyncEvents /\ Soon(e)'
BY DEF NoLostWakeUp, Soon

LEMMA ErasedWhileWaiting ==
    ASSUME TypeOK, HeldOnce, NoLostWakeUp, Waiting, ~notified, wakeUpTime' = wakeUpTime,
           (\E X \in SUBSET Events : Erased(X)) \/ ListsKept
    PROVE  NoLostWakeUp'
<1>1. SUFFICES ASSUME NEW p \in SubQueues, NEW e \in Members(queue'[p])
               PROVE  e \notin VsyncEvents /\ Soon(e)'
  BY DEF NoLostWakeUp, Soon
<1>2. p \in Queues
  BY QueuesAre
<1>3. e \in Members(queue[p]) /\ handleTime'[e] = handleTime[e]
  <2>1. CASE \E X \in SUBSET Events : Erased(X)
    BY <1>2, <2>1, ErasedMembers DEF TypeOK
  <2>2. CASE ListsKept
    <3>1. e \in Members(queue[p]) /\ e \in Events /\ e # current
      BY <1>2, <2>2, MembersAreEvents DEF ListsKept, HeldOnce, Queued, TypeOK
    <3> QED
      BY <2>2, <3>1 DEF ListsKept
  <2> QED
    BY <2>1, <2>2
<1> QED
  BY <1>3, StillSoon

LEMMA InsertedWhileWaiting ==
    ASSUME TypeOK, TypeOK', HeldOnce, NoLostWakeUp, Waiting, ~notified, ~notified',
           NEW e \in Events, NEW p \in Queues, NEW sent \in 0 .. MaxTime, NEW t \in 0 .. Far,
           Insert(e, p, sent, t)
    PROVE  NoLostWakeUp'
<1>1. SUFFICES ASSUME NEW q \in SubQueues, NEW f \in Members(queue'[q])
               PROVE  f \notin VsyncEvents /\ Soon(f)'
  BY DEF NoLostWakeUp, Soon
<1>2. q \in Queues
  BY QueuesAre
<1>3. wakeUpTime' = wakeUpTime /\ ~NeedNotify(e, p, t)
  BY DEF Insert, pickVars
<1>4. /\ ~Queued(e)
      /\ handleTime' = [handleTime EXCEPT ![e] = InsertTime(e, p, t)]
      /\ Members(queue'[p]) = Members(queue[p]) \union {e}
      /\ \A r \in Queues : r # p => queue'[r] = queue[r]
  BY InsertedLists DEF TypeOK
<1>5. CASE f # e
  <2>1. f \in Members(queue[q]) /\ f \in Events
    BY <1>2, <1>4, <1>5, MembersAreEvents DEF TypeOK
  <2>2. handleTime'[f] = handleTime[f]
    BY <1>4, <1>5, <2>1 DEF TypeOK, ListTypes
  <2> QED
    BY <1>3, <2>1, <2>2, StillSoon
<1>6. CASE f = e
  <2>1. p = q
    BY <1>2, <1>4, <1>6 DEF Queued
  <2>2. p # IDLE
    BY <2>1, QueuesAre DEF IDLE
  <2>3. e \notin VsyncEvents /\ ~ (t < wakeUpTime)
    BY <1>3, <2>2 DEF NeedNotify
  <2>4. wakeUpTime \in Int /\ wakeUpTime' \in Int /\ t \in Int /\ 0 \in ObserverCosts
    BY <1>3, TimeAssumption DEF TypeOK, PickTypes
  <2>5. handleTime'[e] = InsertTime(e, p, t)
    BY <1>4 DEF TypeOK, ListTypes
  <2>6. CASE InsertTime(e, p, t) = t
    <3>1. wakeUpTime' <= handleTime'[e] + 0
      BY <1>3, <2>3, <2>4, <2>5, <2>6
    <3> QED
      BY <1>6, <2>3, <2>4, <3>1 DEF Soon
  <2>7. CASE InsertTime(e, p, t) # t
    <3>1. queue[p] # <<>> /\ handleTime'[e] = handleTime[queue[p][1]]
      BY <2>5, <2>7 DEF InsertTime
    <3>2. queue[p][1] \in Members(queue[p])
      BY <3>1, MembersAreEvents DEF TypeOK
    <3>3. \E cost \in ObserverCosts : wakeUpTime <= handleTime[queue[p][1]] + cost
      BY <2>1, <3>2 DEF NoLostWakeUp
    <3> QED
      BY <1>3, <1>6, <2>3, <3>1, <3>3 DEF Soon
  <2> QED
    BY <2>6, <2>7
<1> QED
  BY <1>5, <1>6

LEMMA StartWaitingIsSoon ==
    ASSUME ListsInv, VsyncInv, TypeOK', GetEvent, Waiting'
    PROVE  NoLostWakeUp'
<1>1. PICK forced \in ForceWindows, elapsed \in BOOLEAN :
        \/ TakeExpired(CheckBarrierMode(forced, elapsed))
        \/ TakePendingVsync(CheckBarrierMode(forced, elapsed))
        \/ ResetPendingVsync(CheckBarrierMode(forced, elapsed))
        \/ StartWaiting(CheckBarrierMode(forced, elapsed))
  BY DEF GetEvent
<1> DEFINE mode == CheckBarrierMode(forced, elapsed)
           t == Earliest(Candidates(mode.barrier))
<1>2. mode.barrier \in BOOLEAN
  BY ParameterAssumption
     DEF CheckBarrierMode, LazyAfterForce, EntersBarrier, LeavesBarrier, ListsInv, TypeOK, VsyncTypes
<1>3. StartWaiting(mode)
  BY <1>1 DEF TakeExpired, TakePendingVsync, ResetPendingVsync, GetEvent, Waiting
<1> HIDE DEF mode
<1>4. PICK cost \in ObserverCosts : wakeUpTime' = IF t < TimeMax THEN t + cost ELSE t
  BY <1>3 DEF StartWaiting
<1>5. UNCHANGED <<queue, handleTime>> /\ sumOfPendingVsync = 0 /\ pc = "getEvent"
  BY <1>3 DEF StartWaiting, listVars, GetEvent
<1>6. Candidates(mode.barrier) = {}
  <2>1. PickEventLocked(mode.barrier) = NoEvent
    BY <1>3 DEF StartWaiting, ExpiredEvent
  <2> QED
    BY <1>2, <2>1, PickEventType DEF ListsInv, TypeOK
<1>7. QueuedVsync = {}
  <2>1. /\ sumOfPendingVsync >= Cardinality(QueuedVsync) + 0
        /\ Cardinality(QueuedVsync) \in Nat /\ IsFiniteSet(QueuedVsync)
    BY <1>5, QueuedVsyncFinite DEF VsyncInv, PendingVsyncCovers, InFlight
  <2>2. Cardinality(QueuedVsync) = 0
    BY <1>5, <2>1
  <2> QED
    BY <2>1, <2>2, FS_EmptySet
<1>8. SUFFICES ASSUME NEW p \in SubQueues, NEW e \in Members(queue[p])
               PROVE  e \notin VsyncEvents /\ Soon(e)'
  BY <1>5 DEF NoLostWakeUp, Soon
<1>9. p \in Queues /\ queue[p] \in Seq(Events)
  BY QueuesAre DEF ListsInv, TypeOK, ListTypes
<1>10. e \notin VsyncEvents
  BY <1>7, <1>9 DEF VsyncInv, VsyncAtVip, QueuedVsync
<1>11. PICK i \in DOMAIN queue[p] : e = queue[p][i]
  BY DEF Members
<1>12. /\ queue[p] # <<>> /\ 1 \in DOMAIN queue[p] /\ i \in 1 .. Len(queue[p])
       /\ queue[p][1] \in Events /\ e \in Events
  BY <1>9, <1>11
<1>13. handleTime[queue[p][1]] \in 0 .. Far /\ handleTime[e] \in 0 .. Far
  BY <1>12 DEF ListsInv, TypeOK, ListTypes
<1>14. Far \in Nat /\ TimeMax \in Nat /\ Far < TimeMax /\ cost \in Nat
  BY TimeAssumption
<1>15. handleTime[queue[p][1]] <= handleTime[e]
  <2>1. CASE i = 1
    BY <1>11, <1>13, <1>14, <2>1
  <2>2. CASE i # 1
    BY <1>9, <1>11, <1>12, <2>2 DEF ListsInv, ListsInTimeOrder, InTimeOrder
  <2> QED
    BY <2>1, <2>2
<1>16. t <= handleTime[queue[p][1]] /\ t \in Times
  <2>1. handleTime[queue[p][1]] \in ScannedHeads(Candidates(mode.barrier))
    BY <1>6, <1>12 DEF ScannedHeads, HeadTime
  <2> QED
    BY <1>6, <2>1, EarliestProperties DEF ListsInv, TypeOK
<1> HIDE DEF t
<1>17. t \in Int
  BY <1>14, <1>16 DEF Times
<1>18. t < TimeMax /\ wakeUpTime' = t + cost
  BY <1>4, <1>13, <1>14, <1>16, <1>17
<1>19. wakeUpTime' <= handleTime[e] + cost
  BY <1>13, <1>14, <1>15, <1>16, <1>17, <1>18
<1> QED
  BY <1>5, <1>10, <1>19 DEF Soon

LEMMA WakeUpStep ==
    ListsInv /\ VsyncInv /\ NoLostWakeUp /\ [Next]_vars /\ TypeOK' => NoLostWakeUp'
<1> SUFFICES ASSUME ListsInv, VsyncInv, NoLostWakeUp, [Next]_vars, TypeOK', Waiting', ~notified'
             PROVE  NoLostWakeUp'
  BY DEF NoLostWakeUp
<1>1. CASE GetEvent
  BY <1>1, StartWaitingIsSoon
<1>2. CASE ~GetEvent
  <2>1. Waiting /\ ~notified /\ wakeUpTime' = wakeUpTime
    <3>1. CASE \/ Run \/ ExitLoop \/ WakeUp \/ EndPoll \/ Execute
               \/ LoadPendingVsync \/ StorePendingVsync \/ ClearBarrier \/ EndCallback
      BY <3>1 DEF Waiting, Run, ExitLoop, WakeUp, EndPoll, Execute, LoadPendingVsync,
                  StorePendingVsync, ClearBarrier, EndCallback
    <3>2. CASE SendEvent \/ PostVsync
      <4>1. PICK e \in Events, p \in Queues, sent \in 0 .. MaxTime, u \in 0 .. Far :
               Insert(e, p, sent, u)
        BY <3>2, SendEventInserts, PostVsyncInserts, QueuesAre, TimeAssumption
           DEF ListsInv, TypeOK, VIP
      <4>2. UNCHANGED <<pc, wakeUpTime>>
        BY <4>1 DEF Insert, runVars, pickVars
      <4>3. notified => notified'
        BY <4>1 DEF Insert
      <4> QED
        BY <4>2, <4>3 DEF Waiting
    <3>3. CASE Finish
      <4>1. UNCHANGED <<pc, wakeUpTime>>
        BY <3>3 DEF Finish, runVars, pickVars
      <4>2. notified => notified'
        BY <3>3 DEF Finish
      <4> QED
        BY <4>1, <4>2 DEF Waiting
    <3>4. CASE \/ Remove \/ SetVsyncLazyMode \/ Tick \/ UNCHANGED vars
               \/ \E h \in Handlers : ReleaseHandler(h) \/ RemoveOrphan(h)
      <4>1. UNCHANGED <<pc, wakeUpTime, notified>>
        BY <3>4 DEF vars, pickVars, runVars, Remove, SetVsyncLazyMode, Tick,
                    ReleaseHandler, RemoveOrphan
      <4> QED
        BY <4>1 DEF Waiting
    <3> QED
      BY <1>2, <3>1, <3>2, <3>3, <3>4 DEF Next, Runner, Clients
  <2>2. ListStep /\ TypeOK /\ HeldOnce
    BY EveryListStep DEF ListsInv
  <2> QED
    BY <2>1, <2>2, ErasedWhileWaiting, InsertedWhileWaiting DEF ListStep
<1> QED
  BY <1>1, <1>2

\* The runner never sleeps past an event, whatever was posted or removed since it began to.
THEOREM WakeUpsAreNotLost == Spec => []NoLostWakeUp
<1>1. Init => NoLostWakeUp
  BY DEF Init, NoLostWakeUp, Waiting
<1> QED
  BY <1>1, WakeUpStep, ListsInvHolds, VsyncInvHolds, TypeCorrect, PTL DEF Spec

-----------------------------------------------------------------------------
(* No orphan stays queued. *)

LEMMA OrphansStep == TypeOK /\ OrphansAreRemoved /\ [Next]_vars => OrphansAreRemoved'
<1> SUFFICES ASSUME TypeOK, OrphansAreRemoved, [Next]_vars,
                    NEW e \in Events, Queued(e)'
             PROVE  OwnerOf[e] \in alive' \union dying'
  BY DEF OrphansAreRemoved
<1>1. PICK p \in Queues : e \in Members(queue'[p])
  BY DEF Queued
<1>2. CASE SendEvent \/ PostVsync
  <2>1. PICK f \in Events, q \in Queues, sent \in 0 .. MaxTime, t \in 0 .. Far :
           Insert(f, q, sent, t)
    BY <1>2, SendEventInserts, PostVsyncInserts, QueuesAre, TimeAssumption DEF TypeOK, VIP
  <2>2. OwnerOf[f] \in alive /\ UNCHANGED <<alive, dying>>
    BY <2>1 DEF Insert, ownerVars
  <2>3. e = f \/ e \in Members(queue[p])
    BY <1>1, <2>1, InsertedLists DEF TypeOK
  <2> QED
    BY <2>2, <2>3 DEF OrphansAreRemoved, Queued
<1>3. CASE \E h \in Handlers : RemoveOrphan(h)
  <2>1. PICK h \in Handlers : RemoveOrphan(h)
    BY <1>3
  <2> DEFINE orphans == {f \in Events : OwnerOf[f] \notin alive}
  <2>2. Erased(orphans) /\ alive' = alive
    BY <2>1, EraseErases DEF RemoveOrphan
  <2>3. e \notin orphans
    BY <1>1, <2>2, ErasedMembers DEF TypeOK
  <2> QED
    BY <2>2, <2>3
<1>4. CASE ~SendEvent /\ ~PostVsync /\ ~(\E h \in Handlers : RemoveOrphan(h))
  <2>1. e \in Members(queue[p])
    <3>1. CASE \E X \in SUBSET Events : Erased(X)
      BY <1>1, <3>1, ErasedMembers DEF TypeOK
    <3>2. CASE ListsKept
      BY <1>1, <3>2 DEF ListsKept
    <3> QED
      BY <1>4, <3>1, <3>2, EveryListStep DEF ListStep
  <2>2. OwnerOf[e] \in alive \union dying
    BY <2>1 DEF OrphansAreRemoved, Queued
  <2>3. alive \union dying \subseteq alive' \union dying'
    <3>1. CASE \E h \in Handlers : ReleaseHandler(h)
      BY <3>1 DEF ReleaseHandler
    <3>2. CASE Remove \/ Finish \/ SetVsyncLazyMode \/ Tick \/ UNCHANGED vars
      BY <3>2 DEF Remove, Finish, SetVsyncLazyMode, Tick, vars, ownerVars
    <3>3. CASE Runner
      BY <3>3 DEF Runner, Run, ExitLoop, GetEvent, WakeUp, EndPoll, Execute, LoadPendingVsync,
                  StorePendingVsync, ClearBarrier, EndCallback, ownerVars
    <3> QED
      BY <1>4, <3>1, <3>2, <3>3 DEF Next, Clients
  <2> QED
    BY <2>2, <2>3
<1> QED
  BY <1>2, <1>3, <1>4

\* What a released handler has queued is gone once its destructor has run.
THEOREM NoOrphanStays == Spec => []OrphansAreRemoved
<1>1. Init => OrphansAreRemoved
  <2> SUFFICES ASSUME Init PROVE OrphansAreRemoved
    OBVIOUS
  <2>1. \A p \in Queues : Members(queue[p]) = {}
    BY DEF Init, Members
  <2> QED
    BY <2>1 DEF OrphansAreRemoved, Queued
<1> QED
  BY <1>1, OrphansStep, TypeCorrect, PTL DEF Spec

-----------------------------------------------------------------------------
(* The waiter *)

AwakeIsUntold == ~Waiting => ~notified

\* A step of the queue is one of its waiter, or does not concern it.
LEMMA WaiterStep ==
    TypeOK /\ AwakeIsUntold /\ [Next]_vars => AwakeIsUntold' /\ [QN!Next]_(QN!vars)
<1> SUFFICES ASSUME TypeOK, AwakeIsUntold, [Next]_vars
             PROVE  AwakeIsUntold' /\ [QN!Next]_(QN!vars)
  OBVIOUS
<1> USE DEF AwakeIsUntold, Waiting, QN!Next, QN!vars
<1>1. notified \in BOOLEAN
  BY DEF TypeOK
<1>2. CASE SendEvent \/ PostVsync \/ Finish
  <2>1. UNCHANGED pc /\ (notified => notified') /\ (notified' => notified \/ Waiting)
    <3>1. CASE SendEvent \/ PostVsync
      <4>1. PICK e \in Events, p \in Queues, sent \in 0 .. MaxTime, u \in 0 .. Far :
               Insert(e, p, sent, u)
        BY <3>1, SendEventInserts, PostVsyncInserts, QueuesAre, TimeAssumption
           DEF TypeOK, VIP
      <4> QED
        BY <1>1, <4>1 DEF Insert, runVars
    <3>2. CASE Finish
      BY <1>1, <3>2 DEF Finish, runVars
    <3> QED
      BY <1>2, <3>1, <3>2
  <2>2. notified' \in BOOLEAN
    <3>1. CASE SendEvent \/ PostVsync
      <4>1. PICK e \in Events, p \in Queues, sent \in 0 .. MaxTime, u \in 0 .. Far :
               Insert(e, p, sent, u)
        BY <3>1, SendEventInserts, PostVsyncInserts, QueuesAre, TimeAssumption
           DEF TypeOK, VIP
      <4> QED
        BY <1>1, <4>1 DEF Insert
    <3> QED
      BY <1>1, <1>2, <3>1 DEF Finish
  <2> QED
    BY <1>1, <2>1, <2>2 DEF QN!Tell
<1>3. CASE GetEvent
  <2>1. UNCHANGED notified /\ pc = "getEvent"
    BY <1>3 DEF GetEvent
  <2> QED
    BY <1>1, <2>1 DEF QN!Sleep
<1>4. CASE WakeUp
  BY <1>1, <1>4 DEF WakeUp, QN!Wake
<1>5. CASE \/ Run \/ ExitLoop \/ EndPoll \/ Execute
           \/ LoadPendingVsync \/ StorePendingVsync \/ ClearBarrier \/ EndCallback
  BY <1>5 DEF Run, ExitLoop, EndPoll, Execute, LoadPendingVsync, StorePendingVsync,
              ClearBarrier, EndCallback
<1>6. CASE \/ Remove \/ SetVsyncLazyMode \/ Tick \/ UNCHANGED vars
           \/ \E h \in Handlers : ReleaseHandler(h) \/ RemoveOrphan(h)
  <2>1. UNCHANGED <<pc, notified>>
    BY <1>6 DEF vars, runVars, Remove, SetVsyncLazyMode, Tick, ReleaseHandler, RemoveOrphan
  <2> QED
    BY <2>1
<1> QED
  BY <1>2, <1>3, <1>4, <1>5, <1>6 DEF Next, Runner, Clients

\* Asleep and notified, the runner behaves as WaitNotify allows: each of its sleeps begins
\* without a notification, and none is left over for the next one.
THEOREM QueueUsesWaitNotify == Spec => QN!Safety
<1>1. Init => AwakeIsUntold /\ QN!Init
  BY DEF Init, AwakeIsUntold, Waiting, QN!Init
<1> QED
  BY <1>1, WaiterStep, TypeCorrect, PTL DEF Spec, QN!Safety

-----------------------------------------------------------------------------
(* Order among equals. *)

Distinct(s) == \A i, j \in DOMAIN s : s[i] = s[j] => i = j

LEMMA PositionIs ==
    ASSUME NEW s, Distinct(s), NEW i \in DOMAIN s
    PROVE  Position(s, s[i]) = i
BY DEF Position, Distinct

\* Erasing keeps the order of what stays.
LEMMA RemoveIfKeepsOrder ==
    ASSUME NEW S, NEW s \in Seq(S), NEW X, Distinct(s), Distinct(RemoveIf(s, X)),
           NEW e \in Members(RemoveIf(s, X)), NEW f \in Members(RemoveIf(s, X)),
           Position(s, e) < Position(s, f)
    PROVE  Position(RemoveIf(s, X), e) < Position(RemoveIf(s, X), f)
<1> DEFINE r == RemoveIf(s, X)
<1>1. /\ r \in Seq(S)
      /\ \A a, b \in DOMAIN r : a < b =>
            \E i, j \in DOMAIN s : i < j /\ r[a] = s[i] /\ r[b] = s[j]
  BY RemoveIfProperties
<1>2. e \in Members(r) /\ f \in Members(r) /\ Distinct(r)
  OBVIOUS
<1> HIDE DEF r
<1>3. PICK a, b \in DOMAIN r : r[a] = e /\ r[b] = f
  BY <1>2 DEF Members
<1>4. Position(r, e) = a /\ Position(r, f) = b
  BY <1>2, <1>3, PositionIs
<1>5. a # b
  <2>1. e \in Members(s)
    BY RemoveIfProperties
  <2>2. PICK i \in DOMAIN s : e = s[i]
    BY <2>1 DEF Members
  <2>3. Position(s, e) = i /\ i \in Int
    BY <2>2, PositionIs
  <2> QED
    BY <1>3, <2>3
<1>6. ~(b < a)
  <2> SUFFICES ASSUME b < a PROVE FALSE
    OBVIOUS
  <2>1. PICK i, j \in DOMAIN s : i < j /\ r[b] = s[i] /\ r[a] = s[j]
    BY <1>1
  <2>2. Position(s, f) = i /\ Position(s, e) = j
    BY <1>3, <2>1, PositionIs
  <2>3. i \in Int /\ j \in Int
    OBVIOUS
  <2> QED
    BY <2>1, <2>2, <2>3
<1>7. a \in Int /\ b \in Int
  BY <1>1
<1>8. Position(r, e) < Position(r, f)
  BY <1>4, <1>5, <1>6, <1>7
<1> QED
  BY <1>8 DEF r

\* Inserting moves what is behind the new element by one place.
LEMMA InsertBehindPositions ==
    ASSUME NEW S, NEW s \in Seq(S), NEW k \in 0 .. Len(s), NEW x \in S,
           Distinct(InsertBehind(s, k, x))
    PROVE  /\ Position(InsertBehind(s, k, x), x) = k + 1
           /\ \A i \in DOMAIN s :
                 Position(InsertBehind(s, k, x), s[i]) = IF i <= k THEN i ELSE i + 1
<1> DEFINE r == InsertBehind(s, k, x)
<1>1. /\ r \in Seq(S) /\ Len(r) = Len(s) + 1
      /\ \A i \in 1 .. Len(s) + 1 :
            r[i] = IF i <= k THEN s[i] ELSE IF i = k + 1 THEN x ELSE s[i - 1]
  BY InsertBehindProperties
<1>2. Distinct(r)
  OBVIOUS
<1> HIDE DEF r
<1>3. DOMAIN r = 1 .. Len(s) + 1 /\ DOMAIN s = 1 .. Len(s) /\ Len(s) \in Nat /\ k \in Nat
  BY <1>1
<1>4. k + 1 \in DOMAIN r /\ r[k + 1] = x
  BY <1>1, <1>3
<1>5. ASSUME NEW i \in DOMAIN s
      PROVE  Position(r, s[i]) = IF i <= k THEN i ELSE i + 1
  <2>1. CASE i <= k
    <3>1. i \in DOMAIN r /\ r[i] = s[i]
      BY <1>1, <1>3, <2>1
    <3> QED
      BY <1>2, <2>1, <3>1, PositionIs
  <2>2. CASE ~(i <= k)
    <3>1. i + 1 \in DOMAIN r /\ ~(i + 1 <= k) /\ i + 1 # k + 1 /\ (i + 1) - 1 = i
      BY <1>3, <2>2
    <3>2. r[i + 1] = s[i]
      BY <1>1, <1>3, <3>1
    <3> QED
      BY <1>2, <2>2, <3>1, <3>2, PositionIs
  <2> QED
    BY <2>1, <2>2
<1>6. Position(r, x) = k + 1
  BY <1>2, <1>4, PositionIs
<1> QED
  BY <1>5, <1>6 DEF r

LEMMA ListsAreDistinct == HeldOnce => \A p \in Queues : Distinct(queue[p])
BY DEF HeldOnce, Distinct

\* Where an event posted AT_END goes.
LEMMA InsertedAtEnd ==
    ASSUME TypeOK, NEW x \in Events, NEW p \in Queues, NEW sent, NEW t \in 0 .. Far,
           Insert(x, p, sent, t)
    PROVE  \E k \in 0 .. Len(queue[p]) :
               /\ queue'[p] = InsertBehind(queue[p], k, x)
               /\ x \notin FrontEvents =>
                     \A j \in (k + 1) .. Len(queue[p]) :
                         handleTime[queue[p][j]] > handleTime'[x]
<1> DEFINE time == [handleTime EXCEPT ![x] = InsertTime(x, p, t)]
           k == IF x \in FrontEvents THEN 0 ELSE NotLaterPrefix(queue[p], x, time)
<1>1. queue' = [queue EXCEPT ![p] = InsertBehind(queue[p], k, x)] /\ handleTime' = time
  BY DEF Insert, InsertEventsLocked
<1>2. /\ k \in 0 .. Len(queue[p])
      /\ x \notin FrontEvents => \A j \in (k + 1) .. Len(queue[p]) : time[queue[p][j]] > time[x]
  BY InsertPlace DEF TypeOK
<1>3. queue'[p] = InsertBehind(queue[p], k, x)
  BY <1>1 DEF TypeOK, ListTypes
<1>4. \A j \in DOMAIN queue[p] : queue[p][j] \in Events /\ queue[p][j] # x
  BY MembersAreEvents, InsertedLists DEF TypeOK, Queued
<1>5. \A j \in DOMAIN queue[p] : time[queue[p][j]] = handleTime[queue[p][j]]
  BY <1>4 DEF TypeOK, ListTypes
<1>6. DOMAIN queue[p] = 1 .. Len(queue[p]) /\ Len(queue[p]) \in Nat
  BY MembersAreEvents DEF TypeOK
<1> HIDE DEF k, time
<1>7. \A j \in (k + 1) .. Len(queue[p]) : j \in DOMAIN queue[p]
  BY <1>2, <1>6
<1> QED
  BY <1>1, <1>2, <1>3, <1>5, <1>7

LEMMA InsertKeepsPlaces ==
    ASSUME TypeOK, HeldOnce, HeldOnce', NEW x \in Events, NEW p \in Queues, NEW sent,
           NEW t \in 0 .. Far, Insert(x, p, sent, t)
    PROVE  KeepsOrder
<1>1. PICK k \in 0 .. Len(queue[p]) :
         /\ queue'[p] = InsertBehind(queue[p], k, x)
         /\ x \notin FrontEvents =>
               \A j \in (k + 1) .. Len(queue[p]) : handleTime[queue[p][j]] > handleTime'[x]
  BY InsertedAtEnd
<1>2. /\ Members(queue'[p]) = Members(queue[p]) \union {x}
      /\ \A q \in Queues : q # p => queue'[q] = queue[q]
      /\ handleTime'[x] \in 0 .. Far
  <2>1. handleTime' \in [Events -> 0 .. Far]
    BY InsertPlace DEF Insert, InsertEventsLocked, TypeOK
  <2> QED
    BY <2>1, InsertedLists DEF TypeOK
<1>3. /\ queue[p] \in Seq(Events) /\ Distinct(queue'[p]) /\ Distinct(queue[p])
      /\ DOMAIN queue[p] = 1 .. Len(queue[p]) /\ Len(queue[p]) \in Nat
  BY ListsAreDistinct, MembersAreEvents DEF TypeOK, HeldOnce, Distinct
<1>4. /\ Position(queue'[p], x) = k + 1
      /\ \A i \in DOMAIN queue[p] :
            Position(queue'[p], queue[p][i]) = IF i <= k THEN i ELSE i + 1
  BY <1>1, <1>3, InsertBehindPositions
<1>5. ASSUME NEW e \in Members(queue[p]), NEW f \in Members(queue[p]),
             Position(queue[p], e) < Position(queue[p], f)
      PROVE  Position(queue'[p], e) < Position(queue'[p], f)
  <2>1. PICK i, j \in DOMAIN queue[p] : e = queue[p][i] /\ f = queue[p][j]
    BY DEF Members
  <2>2. i < j
    BY <1>3, <1>5, <2>1, PositionIs
  <2>3. Position(queue'[p], e) = (IF i <= k THEN i ELSE i + 1)
        /\ Position(queue'[p], f) = (IF j <= k THEN j ELSE j + 1)
    BY <1>4, <2>1
  <2>4. i \in Int /\ j \in Int /\ k \in Int
    BY <1>3
  <2> QED
    BY <2>2, <2>3, <2>4
<1>6. ASSUME NEW e \in Members(queue[p]), x \notin FrontEvents, handleTime[e] <= handleTime'[x]
      PROVE  Position(queue'[p], e) < Position(queue'[p], x)
  <2>1. PICK i \in DOMAIN queue[p] : e = queue[p][i]
    BY DEF Members
  <2>2. i <= k
    <3> SUFFICES ASSUME ~(i <= k) PROVE FALSE
      OBVIOUS
    <3>1. i \in (k + 1) .. Len(queue[p])
      BY <1>3
    <3>2. handleTime[e] > handleTime'[x]
      BY <1>1, <1>6, <2>1, <3>1
    <3>3. handleTime[e] \in Int /\ handleTime'[x] \in Int
      <4>1. handleTime[e] \in 0 .. Far /\ Far \in Nat
        BY MembersAreEvents, TimeAssumption DEF TypeOK, ListTypes
      <4> QED
        BY <1>2, <4>1
    <3> QED
      BY <1>6, <3>2, <3>3
  <2> QED
    BY <1>3, <1>4, <2>1, <2>2
<1>7. ASSUME NEW q \in Queues, NEW e \in Members(queue'[q]), NEW f \in Members(queue'[q])
      PROVE  /\ e \in Members(queue[q]) /\ f \in Members(queue[q])
                    /\ Position(queue[q], e) < Position(queue[q], f)
                => Position(queue'[q], e) < Position(queue'[q], f)
             /\ e \in Members(queue[q]) /\ f \notin Members(queue[q])
                    /\ f \notin FrontEvents /\ handleTime[e] <= handleTime'[f]
                => Position(queue'[q], e) < Position(queue'[q], f)
  <2>1. CASE q # p
    BY <1>2, <1>7, <2>1
  <2>2. CASE q = p
    <3>1. f \in Members(queue[p]) \/ f = x
      BY <1>2, <1>7, <2>2
    <3> QED
      BY <1>5, <1>6, <2>2, <3>1
  <2> QED
    BY <2>1, <2>2
<1> QED
  BY <1>7 DEF KeepsOrder

LEMMA OrderStep == ListsInv /\ ListsInv' /\ [Next]_vars => KeepsOrder
<1> SUFFICES ASSUME TypeOK, HeldOnce, HeldOnce', [Next]_vars PROVE KeepsOrder
  BY DEF ListsInv
<1>1. ListStep
  BY EveryListStep
<1>2. ASSUME NEW X \in SUBSET Events, Erased(X) PROVE KeepsOrder
  <2>1. SUFFICES ASSUME NEW p \in Queues, NEW e \in Members(queue'[p]), NEW f \in Members(queue'[p])
                 PROVE  /\ f \in Members(queue[p])
                        /\ Position(queue[p], e) < Position(queue[p], f)
                              => Position(queue'[p], e) < Position(queue'[p], f)
    BY DEF KeepsOrder
  <2>2. /\ queue[p] \in Seq(Events) /\ queue'[p] = RemoveIf(queue[p], X)
        /\ Members(queue'[p]) \subseteq Members(queue[p])
    BY <1>2, ErasedMembers, MembersAreEvents DEF TypeOK
  <2>3. Distinct(queue[p]) /\ Distinct(queue'[p])
    BY DEF HeldOnce, Distinct
  <2> QED
    BY <2>2, <2>3, RemoveIfKeepsOrder
<1>3. CASE ListsKept
  BY <1>3 DEF ListsKept, KeepsOrder
<1>4. CASE \E e \in Events, p \in Queues, sent \in 0 .. MaxTime, t \in 0 .. Far :
               Insert(e, p, sent, t)
  BY <1>4, InsertKeepsPlaces
<1> QED
  BY <1>1, <1>2, <1>3, <1>4 DEF ListStep

\* Events that stay keep their order, and one posted AT_END goes behind all that are due
\* by its time, whatever was removed, taken or posted AT_FRONT.
THEOREM OrderIsKept == Spec => OrderKept
<1>1. ListsInv /\ ListsInv' /\ [Next]_vars => [KeepsOrder]_vars
  BY OrderStep
<1> QED
  BY <1>1, ListsInvHolds, PTL DEF Spec, OrderKept

-----------------------------------------------------------------------------
(* Idle events are taken last. *)

\* What PickEventLocked takes is due, unless it is a vsync event.
LEMMA PickedIsDue ==
    ASSUME TypeOK, NEW b \in BOOLEAN, PickEventLocked(b) # NoEvent,
           PickEventLocked(b) \notin VsyncEvents
    PROVE  handleTime[PickEventLocked(b)] <= now
<1> DEFINE E == Candidates(b)
           c == Chosen(E)
<1>1. ~VsyncOvertakes(E)
  <2> SUFFICES ASSUME VsyncOvertakes(E) PROVE FALSE
    OBVIOUS
  <2>1. PickEventLocked(b) = FirstIn(queue[VIP], VsyncEvents)
    BY DEF PickEventLocked
  <2>2. queue[VIP] \in Seq(Events) /\ Members(queue[VIP]) \intersect VsyncEvents # {}
    BY QueuesAre DEF VsyncOvertakes, QueuedVsync, TypeOK, ListTypes, VIP
  <2> QED
    BY <2>1, <2>2, FirstInProperties
<1>2. E # {} /\ PickEventLocked(b) = IF b THEN FirstIn(queue[c], BarrierTasks) ELSE queue[c][1]
  BY <1>1 DEF PickEventLocked
<1>3. c \in E /\ c \in Queues
  <2>1. E \in SUBSET SubQueues
    BY CandidatesAreQueues
  <2>2. IsChosen(E, c)
    BY <1>2, <2>1, ChosenProperties DEF TypeOK, PickTypes
  <2> QED
    BY <2>1, <2>2, QueuesAre DEF IsChosen
<1> HIDE DEF c
<1>4. CASE ~b
  BY <1>2, <1>3, <1>4 DEF Candidates, EligibleQueues
<1>5. CASE b
  <2>1. PICK m \in DOMAIN queue[c] : /\ queue[c][m] \in BarrierTasks
                                     /\ \A j \in 1 .. m : handleTime[queue[c][j]] <= now
    BY <1>3, <1>5 DEF Candidates, BarrierQueues
  <2>2. queue[c] \in Seq(Events) /\ Members(queue[c]) \intersect BarrierTasks # {}
    BY <1>3, <2>1 DEF TypeOK, ListTypes, Members
  <2>3. PICK i \in DOMAIN queue[c] :
           /\ FirstIn(queue[c], BarrierTasks) = queue[c][i]
           /\ \A j \in DOMAIN queue[c] : queue[c][j] \in BarrierTasks => i <= j
    BY <2>2, FirstInIsFirst
  <2>4. i \in 1 .. m
    BY <2>1, <2>2, <2>3
  <2> QED
    BY <1>2, <1>5, <2>1, <2>3, <2>4
<1> QED
  BY <1>4, <1>5

\* An empty scan outside barrier mode means that no event is due.
LEMMA NothingIsDue ==
    ASSUME TypeOK, ListsInTimeOrder, Candidates(FALSE) = {},
           NEW p \in SubQueues, NEW f \in Members(queue[p])
    PROVE  handleTime[f] > now
<1>1. ASSUME NEW q \in SubQueues
      PROVE  /\ queue[q] \in Seq(Events)
             /\ \A i \in DOMAIN queue[q] : queue[q][i] \in Events
             /\ q \in Queues
  BY QueuesAre, MembersAreEvents DEF TypeOK
<1>2. /\ handleTime \in [Events -> 0 .. Far] /\ now \in Int /\ Far \in Nat /\ TimeMax \in Nat
      /\ Far < TimeMax
  BY TimeAssumption DEF TypeOK, ListTypes
<1> DEFINE T == {q \in SubQueues : queue[q] # <<>> /\ handleTime[queue[q][1]] <= now}
<1>3. T = {}
  <2> SUFFICES ASSUME T # {} PROVE FALSE
    OBVIOUS
  <2>1. T \in SUBSET Nat
    BY QueuesAre
  <2>2. PICK m \in T : \A q \in T : m <= q
    BY <2>1, LeastNat
  <2>3. queue[m][1] \in Events
    BY <1>1, <2>2
  <2>4. handleTime[queue[m][1]] \in 0 .. Far
    BY <1>2, <2>3
  <2>5. ASSUME NEW q \in SubQueues, q < m
        PROVE  handleTime[queue[m][1]] < HeadTime(queue[q], handleTime)
    <3>1. CASE queue[q] = <<>>
      BY <1>2, <2>4, <3>1 DEF HeadTime
    <3>2. CASE queue[q] # <<>>
      <4>1. q \notin T
        BY <2>1, <2>2, <2>5, QueuesAre
      <4>2. queue[q][1] \in Events
        BY <1>1, <3>2
      <4>3. handleTime[queue[q][1]] \in 0 .. Far /\ ~(handleTime[queue[q][1]] <= now)
        BY <1>2, <3>2, <4>1, <4>2
      <4>4. handleTime[queue[m][1]] <= now
        BY <2>2
      <4>5. handleTime[queue[m][1]] < handleTime[queue[q][1]]
        BY <1>2, <2>4, <4>3, <4>4
      <4> QED
        BY <3>2, <4>5 DEF HeadTime
    <3> QED
      BY <3>1, <3>2
  <2>6. m \in EligibleQueues
    BY <2>2, <2>5 DEF EligibleQueues
  <2> QED
    BY <2>6 DEF Candidates
<1>4. PICK i \in DOMAIN queue[p] : f = queue[p][i]
  BY DEF Members
<1>5. queue[p] # <<>> /\ 1 \in DOMAIN queue[p] /\ i \in Nat /\ 1 <= i
  BY <1>1, <1>4
<1>6. /\ handleTime[queue[p][1]] \in 0 .. Far /\ handleTime[f] \in 0 .. Far
      /\ ~(handleTime[queue[p][1]] <= now)
  <2>1. queue[p][1] \in Events /\ f \in Events
    BY <1>1, <1>4, <1>5
  <2> QED
    BY <1>2, <1>3, <1>5, <2>1
<1>7. handleTime[queue[p][1]] <= handleTime[f]
  <2>1. CASE i = 1
    BY <1>2, <1>4, <1>6, <2>1
  <2>2. CASE i # 1
    BY <1>1, <1>4, <1>5, <2>2 DEF ListsInTimeOrder, InTimeOrder
  <2> QED
    BY <2>1, <2>2
<1> QED
  BY <1>2, <1>6, <1>7

LEMMA IdleCandidatesAreDue ==
    ASSUME TypeOK, NEW b \in BOOLEAN, NEW stamp
    PROVE  /\ IdleCandidates(b, stamp) \subseteq Members(queue[IDLE])
           /\ \A e \in IdleCandidates(b, stamp) : handleTime[e] <= now
<1>1. queue[IDLE] \in Seq(Events)
  BY QueuesAre DEF TypeOK, ListTypes, IDLE
<1>2. queue[IDLE] # <<>> => queue[IDLE][1] \in Members(queue[IDLE])
  BY <1>1 DEF Members
<1>3. CASE b
  BY <1>3 DEF IdleCandidates
<1>4. CASE ~b
  BY <1>2, <1>4 DEF IdleCandidates
<1> QED
  BY <1>3, <1>4

\* What the runner takes when events are due.
LEMMA ExpiredIsDue ==
    ASSUME ListsInv, NEW b \in BOOLEAN, NEW e, e = ExpiredEvent(b), e # NoEvent
    PROVE  /\ e \notin VsyncEvents => handleTime[e] <= now
           /\ e \in Members(queue[IDLE]) /\ ~b =>
                  \A p \in SubQueues : \A f \in Members(queue[p]) : handleTime[f] > now
<1> USE DEF ListsInv
<1>1. CASE PickEventLocked(b) # NoEvent
  <2>1. e = PickEventLocked(b)
    BY <1>1 DEF ExpiredEvent
  <2>2. e \notin VsyncEvents => handleTime[e] <= now
    BY <1>1, <2>1, PickedIsDue
  <2>3. PICK p \in SubQueues : e \in Members(queue[p])
    BY <1>1, <2>1, PickEventType DEF TypeOK
  <2>4. p \in Queues /\ IDLE \in Queues /\ p # IDLE
    BY QueuesAre DEF IDLE
  <2>5. e \notin Members(queue[IDLE])
    BY <2>3, <2>4 DEF HeldOnce, Members
  <2> QED
    BY <2>2, <2>5
<1>2. CASE PickEventLocked(b) = NoEvent
  <2> DEFINE I == IdleCandidates(b, IdleStamp)
  <2>1. I # {} /\ e = FirstIn(queue[IDLE], I)
    BY <1>2 DEF ExpiredEvent
  <2>2. I \subseteq Members(queue[IDLE]) /\ \A f \in I : handleTime[f] <= now
    BY IdleCandidatesAreDue
  <2>3. queue[IDLE] \in Seq(Events)
    BY QueuesAre DEF TypeOK, ListTypes, IDLE
  <2> HIDE DEF I
  <2>4. e \in I
    BY <2>1, <2>2, <2>3, FirstInProperties
  <2>5. Candidates(b) = {}
    BY <1>2, PickEventType DEF TypeOK
  <2>6. ~b => \A p \in SubQueues : \A f \in Members(queue[p]) : handleTime[f] > now
    BY <2>5, NothingIsDue
  <2> QED
    BY <2>2, <2>4, <2>6
<1> QED
  BY <1>1, <1>2

LEMMA OnlyGetEventTakes ==
    ASSUME [Next]_vars, NEW e \in Events, Takes(e)
    PROVE  GetEvent
<1>1. current' # current
  BY EventAssumption DEF Takes
<1>2. ~(SendEvent \/ PostVsync)
  BY <1>1 DEF SendEvent, PostVsync, Insert, runVars
<1>3. ~(Remove \/ \E h \in Handlers : ReleaseHandler(h) \/ RemoveOrphan(h))
  BY <1>1 DEF Remove, ReleaseHandler, RemoveOrphan, runVars
<1>4. ~(Finish \/ SetVsyncLazyMode \/ Tick \/ UNCHANGED vars)
  BY <1>1 DEF Finish, SetVsyncLazyMode, Tick, vars, runVars
<1>5. ~(Run \/ ExitLoop \/ WakeUp \/ EndPoll \/ LoadPendingVsync \/ StorePendingVsync
          \/ ClearBarrier)
  BY <1>1 DEF Run, ExitLoop, WakeUp, EndPoll, LoadPendingVsync, StorePendingVsync, ClearBarrier
<1>6. ~(Execute \/ EndCallback)
  BY <1>1 DEF Takes, Execute, EndCallback
<1> QED
  BY <1>2, <1>3, <1>4, <1>5, <1>6 DEF Next, Runner, Clients

LEMMA IdleStep == ListsInv /\ [Next]_vars => IdleTakenLast
<1> SUFFICES ASSUME ListsInv, [Next]_vars, NEW e \in Events, Takes(e)
             PROVE  /\ e \notin VsyncEvents => handleTime[e] <= now
                    /\ e \in Members(queue[IDLE]) /\ ~isBarrierMode' =>
                          \A p \in SubQueues : \A f \in Members(queue[p]) : handleTime[f] > now
  BY DEF IdleTakenLast
<1>1. TypeOK /\ HeldOnce
  BY DEF ListsInv
<1>2. e # NoEvent /\ current = NoEvent /\ current' = e
  BY EventAssumption DEF Takes
<1>3. GetEvent
  BY OnlyGetEventTakes
<1>4. PICK forced \in ForceWindows, elapsed \in BOOLEAN :
        LET mode == CheckBarrierMode(forced, elapsed)
        IN  \/ TakeExpired(mode) /\ isBarrierMode' = mode.barrier
            \/ TakePendingVsync(mode)
            \/ ResetPendingVsync(mode)
            \/ StartWaiting(mode)
  BY <1>3 DEF GetEvent
<1> DEFINE mode == CheckBarrierMode(forced, elapsed)
<1>5. mode.barrier \in BOOLEAN
  BY <1>1, ParameterAssumption
     DEF CheckBarrierMode, LazyAfterForce, EntersBarrier, LeavesBarrier, TypeOK, VsyncTypes
<1> HIDE DEF mode
<1>6. CASE TakeExpired(mode) /\ isBarrierMode' = mode.barrier
  <2>1. e = ExpiredEvent(mode.barrier)
    BY <1>2, <1>6 DEF TakeExpired, Pop
  <2> QED
    BY <1>2, <1>5, <1>6, <2>1, ExpiredIsDue
<1>7. CASE TakePendingVsync(mode)
  <2>1. queue[VIP] \in Seq(Events) /\ Members(queue[VIP]) \intersect VsyncEvents # {}
    BY <1>1, <1>7, QueuesAre DEF TakePendingVsync, QueuedVsync, TypeOK, ListTypes, VIP
  <2>2. e = FirstIn(queue[VIP], VsyncEvents)
    BY <1>2, <1>7 DEF TakePendingVsync, Pop
  <2>3. e \in Members(queue[VIP]) /\ e \in VsyncEvents
    BY <2>1, <2>2, FirstInProperties
  <2>4. VIP \in Queues /\ IDLE \in Queues /\ VIP # IDLE
    BY QueuesAre DEF VIP, IDLE
  <2>5. e \notin Members(queue[IDLE])
    BY <1>1, <2>3, <2>4 DEF HeldOnce, Members
  <2> QED
    BY <2>3, <2>5
<1>8. CASE ResetPendingVsync(mode) \/ StartWaiting(mode)
  BY <1>2, <1>8 DEF ResetPendingVsync, StartWaiting
<1> QED
  BY <1>4, <1>6, <1>7, <1>8 DEF mode

\* No event but vsync is taken ahead of its time, and outside barrier mode an idle event only
\* when no other is due.
THEOREM IdleIsLast == Spec => IdleOnlyWhenNothingDue
<1>1. ListsInv /\ [Next]_vars => [IdleTakenLast]_vars
  BY IdleStep
<1> QED
  BY <1>1, ListsInvHolds, PTL DEF Spec, IdleOnlyWhenNothingDue

-----------------------------------------------------------------------------
(* The queue is an EventDispatch. *)

LEMMA EntriesAre ==
    ASSUME NEW A, NEW B
    PROVE  /\ Entries(A \ B) = Entries(A) \ Entries(B)
           /\ Entries(A \union B) = Entries(A) \union Entries(B)
           /\ A \subseteq B => Entries(A) \subseteq Entries(B)
           /\ \A p \in Entries(A) : p.event \in A /\ p.owner = OwnerOf[p.event]
BY DEF Entries

LEMMA EntryOf ==
    ASSUME NEW e
    PROVE  Entries({e}) = {[event |-> e, owner |-> OwnerOf[e]]}
BY DEF Entries

\* What is queued once some events have left the lists.
LEMMA ErasedQueued ==
    ASSUME ListTypes, NEW X, Erased(X), NEW e
    PROVE  (Queued(e) /\ e \notin X) <=> Queued(e)'
<1>1. ASSUME NEW p \in Queues
      PROVE  Members(queue'[p]) = Members(queue[p]) \ X
  <2>1. queue[p] \in Seq(Events) /\ queue'[p] = RemoveIf(queue[p], X)
    BY DEF ListTypes, Erased
  <2> QED
    BY <2>1, RemoveIfMembers
<1> QED
  BY <1>1 DEF Queued

\* One handler's events, or those of dead handlers, are dropped.
LEMMA ErasingDispatch ==
    ASSUME ListTypes, HeldOnce, NEW S \in SUBSET Events, Erase(S), UNCHANGED <<pc, current, alive>>,
           \/ \A e, f \in S : OwnerOf[e] = OwnerOf[f]
           \/ \A e \in S : OwnerOf[e] \in Handlers \ alive
    PROVE  ED!Next /\ ((\A e \in S : OwnerOf[e] \in Handlers \ alive) => ED!Serving)
<1> DEFINE D == {e \in S : Queued(e)}
<1>1. Erased(S)
  BY EraseErases
<1>2. Pending' = Pending \ D /\ InHand' = InHand /\ D \subseteq Pending
  <2>1. \A e \in Events : Queued(e)' <=> Queued(e) /\ e \notin S
    BY <1>1, ErasedQueued
  <2>2. Executing' <=> Executing
    BY DEF Executing
  <2>3. ~Queued(current)
    BY DEF HeldOnce
  <2> QED
    BY <2>1, <2>2, <2>3 DEF Pending, InHand
<1>3. Entries(Pending)' = Entries(Pending) \ Entries(D) /\ Entries(D) \in SUBSET Entries(Pending)
  <2>1. Entries(Pending)' = Entries(Pending \ D)
    BY <1>2 DEF Entries
  <2> QED
    BY <1>2, <2>1, EntriesAre
<1>4. UNCHANGED <<Entries(InHand), Handlers \ alive>>
  BY <1>2 DEF Entries
<1>5. \A p \in Entries(D) : p.event \in S /\ p.owner = OwnerOf[p.event]
  BY EntriesAre
<1> HIDE DEF D
<1>6. ASSUME \A e, f \in S : OwnerOf[e] = OwnerOf[f]
      PROVE  ED!Next
  <2>1. \A p, q \in Entries(D) : p.owner = q.owner
    BY <1>5, <1>6
  <2>2. ED!Remove(Entries(D))
    BY <1>3, <1>4, <2>1 DEF ED!Remove
  <2> QED
    BY <1>3, <2>2 DEF ED!Next
<1>7. ASSUME \A e \in S : OwnerOf[e] \in Handlers \ alive
      PROVE  ED!Serving
  <2>1. \A p \in Entries(D) : p.owner \in Handlers \ alive
    BY <1>5, <1>7
  <2>2. ED!Discard(Entries(D))
    BY <1>3, <1>4, <2>1 DEF ED!Discard
  <2> QED
    BY <1>3, <2>2 DEF ED!Serving
<1> QED
  BY <1>6, <1>7 DEF ED!Next

LEMMA InsertDispatch ==
    ASSUME TypeOK, NEW e \in Events, NEW p \in Queues, NEW sent, NEW t \in 0 .. Far,
           Insert(e, p, sent, t)
    PROVE  ED!Serving
<1>1. /\ ~Queued(e) /\ e # current
      /\ Members(queue'[p]) = Members(queue[p]) \union {e}
      /\ \A q \in Queues : q # p => queue'[q] = queue[q]
  BY InsertedLists DEF TypeOK
<1>2. UNCHANGED <<pc, current, alive>> /\ OwnerOf[e] \in alive
  BY DEF Insert, runVars, ownerVars
<1>3. \A f \in Events : Queued(f)' <=> Queued(f) \/ f = e
  BY <1>1 DEF Queued
<1>4. Pending' = Pending \union {e} /\ InHand' = InHand /\ e \notin Pending \union InHand
  BY <1>1, <1>2, <1>3 DEF Pending, InHand, Executing
<1> DEFINE q == [event |-> e, owner |-> OwnerOf[e]]
<1>5. Entries(Pending)' = Entries(Pending) \union {q}
  BY <1>4, EntriesAre, EntryOf DEF Entries
<1>6. UNCHANGED <<Entries(InHand), Handlers \ alive>>
  BY <1>2, <1>4 DEF Entries
<1>7. \A r \in Entries(Pending) \union Entries(InHand) : r.event # q.event
  <2>1. \A r \in Entries(Pending) : r.event \in Pending
    BY EntriesAre
  <2>2. \A r \in Entries(InHand) : r.event \in InHand
    BY EntriesAre
  <2> QED
    BY <1>4, <2>1, <2>2
<1>8. q.owner \notin Handlers \ alive /\ q \in Entries(Pending)'
  BY <1>2, <1>5
<1>9. ED!Post(q)
  BY <1>5, <1>6, <1>7, <1>8 DEF ED!Post
<1> QED
  BY <1>8, <1>9 DEF ED!Serving

LEMMA GetEventDispatch ==
    ASSUME TypeOK, HeldOnce, GetEvent
    PROVE  UNCHANGED ED!vars
<1>1. PICK forced \in ForceWindows, elapsed \in BOOLEAN :
        \/ TakeExpired(CheckBarrierMode(forced, elapsed))
        \/ TakePendingVsync(CheckBarrierMode(forced, elapsed))
        \/ ResetPendingVsync(CheckBarrierMode(forced, elapsed))
        \/ StartWaiting(CheckBarrierMode(forced, elapsed))
  BY DEF GetEvent
<1> DEFINE mode == CheckBarrierMode(forced, elapsed)
<1>2. mode.barrier \in BOOLEAN
  BY ParameterAssumption
     DEF CheckBarrierMode, LazyAfterForce, EntersBarrier, LeavesBarrier, TypeOK, VsyncTypes
<1> HIDE DEF mode
<1>3. UNCHANGED alive /\ pc = "getEvent" /\ current = NoEvent /\ ~Executing
  BY DEF GetEvent, ownerVars, TypeOK, RunTypes, Executing
<1>4. UNCHANGED <<Pending, InHand>> => UNCHANGED ED!vars
  BY <1>3 DEF ED!vars, Entries
<1>5. ASSUME NEW e \in Events, Queued(e), NEW r, Pop(e, r), pc' \in {"polling", "execute"}
      PROVE  UNCHANGED <<Pending, InHand>>
  <2>1. \A f \in Events : Queued(f)' <=> Queued(f) /\ f # e
    BY <1>5, PopErases, ErasedQueued DEF TypeOK
  <2>2. current' = e /\ ~Executing' /\ NoEvent \notin Events
    BY <1>5, EventAssumption DEF Pop, Executing
  <2> QED
    BY <1>3, <1>5, <2>1, <2>2 DEF Pending, InHand
<1>6. ASSUME UNCHANGED <<listVars, current>>, pc' \in {"getEvent", "waiting"}
      PROVE  UNCHANGED <<Pending, InHand>>
  BY <1>3, <1>6 DEF Pending, InHand, Queued, Executing, listVars
<1>7. CASE TakeExpired(mode)
  <2>1. ExpiredEvent(mode.barrier) \in Events /\ Queued(ExpiredEvent(mode.barrier))
    BY <1>2, <1>7, ExpiredEventType DEF TakeExpired, TypeOK, Queued
  <2> QED
    BY <1>4, <1>5, <1>7, <2>1 DEF TakeExpired
<1>8. CASE TakePendingVsync(mode)
  <2>1. queue[VIP] \in Seq(Events) /\ Members(queue[VIP]) \intersect VsyncEvents # {}
        /\ VIP \in Queues
    BY <1>8, QueuesAre DEF TakePendingVsync, QueuedVsync, TypeOK, ListTypes, VIP
  <2>2. FirstIn(queue[VIP], VsyncEvents) \in VsyncEvents \intersect Members(queue[VIP])
    BY <2>1, FirstInProperties
  <2>3. Queued(FirstIn(queue[VIP], VsyncEvents))
    BY <2>1, <2>2 DEF Queued
  <2> QED
    BY <1>4, <1>5, <1>8, <2>2, <2>3, EventAssumption DEF TakePendingVsync
<1>9. CASE ResetPendingVsync(mode)
  BY <1>3, <1>4, <1>6, <1>9 DEF ResetPendingVsync
<1>10. CASE StartWaiting(mode)
  BY <1>4, <1>6, <1>10 DEF StartWaiting
<1> QED
  BY <1>1, <1>7, <1>8, <1>9, <1>10 DEF mode

LEMMA RunnerDispatch ==
    ASSUME TypeOK, HeldOnce, Execute \/ EndCallback
    PROVE  ED!Serving
<1> DEFINE p == [event |-> current, owner |-> OwnerOf[current]]
<1>1. /\ current \in Events /\ ~Queued(current) /\ OwnerOf[current] \in Handlers
      /\ NoEvent \notin Events
  BY EventAssumption DEF Execute, EndCallback, TypeOK, RunTypes, HeldOnce
<1>2. UNCHANGED alive /\ \A e : Queued(e)' <=> Queued(e)
  BY DEF Execute, EndCallback, ownerVars, Queued
<1>3. Entries({current}) = {p} /\ Entries({}) = {}
  BY EntryOf DEF Entries
<1>4. UNCHANGED (Handlers \ alive)
  BY <1>2
<1>5. CASE Execute /\ OwnerOf[current] \notin alive
  <2>1. Pending' = Pending \ {current} /\ InHand' = InHand /\ current \in Pending
    BY <1>1, <1>2, <1>5 DEF Execute, Pending, InHand, Executing
  <2>2. Entries(Pending)' = Entries(Pending) \ {p} /\ p \in Entries(Pending)
    BY <1>3, <2>1, EntriesAre DEF Entries
  <2>3. ED!Discard({p})
    BY <1>1, <1>4, <1>5, <2>1, <2>2 DEF ED!Discard, Entries
  <2>4. {p} \in SUBSET Entries(Pending)
    BY <2>2
  <2> QED
    BY <2>3, <2>4 DEF ED!Serving
<1>6. CASE Execute /\ OwnerOf[current] \in alive
  <2>1. Pending' = Pending \ {current} /\ InHand = {} /\ InHand' = {current} /\ current \in Pending
    BY <1>1, <1>2, <1>6 DEF Execute, Pending, InHand, Executing
  <2>2. Entries(Pending)' = Entries(Pending) \ {p} /\ p \in Entries(Pending)
    BY <1>3, <2>1, EntriesAre DEF Entries
  <2>3. Entries(InHand) = {} /\ Entries(InHand)' = {p}
    BY <1>3, <2>1 DEF Entries
  <2>4. ED!Distribute(p)
    BY <1>4, <1>6, <2>2, <2>3 DEF ED!Distribute
  <2> QED
    BY <2>2, <2>4 DEF ED!Serving
<1>7. CASE EndCallback
  <2>1. Pending' = Pending /\ InHand = {current} /\ InHand' = {}
    BY <1>1, <1>2, <1>7 DEF EndCallback, Pending, InHand, Executing
  <2>2. UNCHANGED Entries(Pending) /\ Entries(InHand) = {p} /\ Entries(InHand)' = {}
    BY <1>3, <2>1 DEF Entries
  <2>3. ED!Return(p)
    BY <1>4, <2>2 DEF ED!Return
  <2> QED
    BY <2>2, <2>3 DEF ED!Serving
<1> QED
  BY <1>5, <1>6, <1>7

LEMMA DispatchStep ==
    ListsInv /\ [Next]_vars => [ED!Next]_(ED!vars) /\ [ED!Serving \/ Remove]_(ED!vars)
<1> SUFFICES ASSUME ListsInv, [Next]_vars
             PROVE  ED!Serving \/ (ED!Next /\ Remove) \/ UNCHANGED ED!vars
  BY DEF ED!Next
<1>1. TypeOK /\ HeldOnce /\ ListTypes
  BY DEF ListsInv, TypeOK
<1>2. ASSUME UNCHANGED <<listVars, pc, current, alive>>
      PROVE  UNCHANGED ED!vars
  BY <1>2 DEF ED!vars, Entries, Pending, InHand, Queued, Executing, listVars
<1>3. CASE SendEvent
  BY <1>1, <1>3, SendEventInserts, InsertDispatch
<1>4. CASE PostVsync
  <2>1. VIP \in Queues /\ Far \in 0 .. Far
    BY QueuesAre, TimeAssumption DEF VIP
  <2> QED
    BY <1>1, <1>4, <2>1, PostVsyncInserts, InsertDispatch
<1>5. CASE Remove
  <2>1. PICK h \in alive : \E S \in SUBSET OwnedBy(h) : Erase(S)
    BY <1>5 DEF Remove
  <2>2. PICK S \in SUBSET OwnedBy(h) : Erase(S)
    BY <2>1
  <2>3. S \in SUBSET Events /\ \A e, f \in S : OwnerOf[e] = OwnerOf[f]
    BY <2>2 DEF OwnedBy
  <2>4. UNCHANGED <<pc, current, alive>>
    BY <1>5 DEF Remove, runVars, ownerVars
  <2>5. ED!Next
    BY <1>1, <2>2, <2>3, <2>4, ErasingDispatch
  <2> QED
    BY <1>5, <2>5
<1>6. CASE \E h \in Handlers : RemoveOrphan(h)
  <2> DEFINE S == {e \in Events : OwnerOf[e] \notin alive}
  <2>1. Erase(S) /\ UNCHANGED <<pc, current, alive>>
    BY <1>6 DEF RemoveOrphan, runVars
  <2>2. S \in SUBSET Events /\ \A e \in S : OwnerOf[e] \in Handlers \ alive
    BY EventAssumption
  <2> QED
    BY <1>1, <2>1, <2>2, ErasingDispatch
<1>7. CASE \E h \in Handlers : ReleaseHandler(h)
  <2>1. PICK h \in Handlers : ReleaseHandler(h)
    BY <1>7
  <2>2. UNCHANGED <<listVars, pc, current>> /\ (Executing => OwnerOf[current] # h)
    BY <2>1 DEF ReleaseHandler, runVars, Executing
  <2>3. UNCHANGED <<Pending, InHand>> /\ \A e \in InHand : OwnerOf[e] # h
    BY <2>2 DEF Pending, InHand, Queued, Executing, listVars
  <2>4. Handlers \ alive' = (Handlers \ alive) \union {h}
    BY <2>1 DEF ReleaseHandler
  <2>5. UNCHANGED <<Entries(Pending), Entries(InHand)>> /\ \A p \in Entries(InHand) : p.owner # h
    BY <2>3, EntriesAre DEF Entries
  <2>6. ED!Expire(h) /\ h \in Handlers \ alive'
    BY <2>4, <2>5 DEF ED!Expire
  <2> QED
    BY <2>6 DEF ED!Serving
<1>8. CASE GetEvent
  BY <1>1, <1>8, GetEventDispatch
<1>9. CASE Execute \/ EndCallback
  BY <1>1, <1>9, RunnerDispatch
<1>10. CASE \/ Run \/ ExitLoop \/ WakeUp \/ EndPoll
            \/ LoadPendingVsync \/ StorePendingVsync \/ ClearBarrier
  <2>1. UNCHANGED <<listVars, current, alive>> /\ (Executing' <=> Executing)
    BY <1>10 DEF Run, ExitLoop, WakeUp, EndPoll, LoadPendingVsync, StorePendingVsync,
                 ClearBarrier, Executing, Waiting, ownerVars
  <2> QED
    BY <2>1 DEF ED!vars, Entries, Pending, InHand, Queued, listVars
<1>11. CASE Finish \/ SetVsyncLazyMode \/ Tick \/ UNCHANGED vars
  BY <1>2, <1>11 DEF Finish, SetVsyncLazyMode, Tick, vars, runVars, ownerVars
<1> QED
  BY <1>3, <1>4, <1>5, <1>6, <1>7, <1>8, <1>9, <1>10, <1>11 DEF Next, Runner, Clients

\* The queue keeps what EventDispatch promises: an event posted to it is distributed once,
\* while its owner exists, only one at a time; and it leaves the queue in no other way, unless its
\* owner removes it or is gone.
THEOREM QueueImplementsEventDispatch == Spec => ImplementsEventDispatch
<1>1. Init => ED!Init
  <2> SUFFICES ASSUME Init PROVE ED!Init
    OBVIOUS
  <2>1. Pending = {} /\ InHand = {} /\ Handlers \ alive = {}
    BY EventAssumption DEF Init, Pending, InHand, Queued, Members, Executing
  <2> QED
    BY <2>1 DEF ED!Init, Entries
<1> QED
  BY <1>1, DispatchStep, ListsInvHolds, PTL DEF Spec, ImplementsEventDispatch, ED!Spec
=============================================================================
