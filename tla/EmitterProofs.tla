---------------------------- MODULE EmitterProofs ----------------------------
(***************************************************************************)
(* Proofs about Emitter: the types, and that a listener is called with no  *)
(* event it is no longer due and stays until something takes it out. For   *)
(* any number of ids, objects, threads, workers, listeners and events.     *)
(* EventListProofs is there for GreatestNat.                               *)
(***************************************************************************)
EXTENDS Emitter, EventListProofs

Attributes == [env : Envs, id : Ids, callback : Callbacks, once : BOOLEAN, isDeleted : BOOLEAN]

Event(n) == [id : Ids, priority : Priorities, isEnhanced : BOOLEAN,
             hasData : BOOLEAN, readers : SUBSET {"napi", "ani"}, heardBy : 0 .. n]

-----------------------------------------------------------------------------
(* Operators *)

LEMMA SeqGrows == ASSUME NEW S, NEW T, S \subseteq T PROVE Seq(S) \subseteq Seq(T)
  OBVIOUS

LEMMA Bounds == MaxListeners \in Nat /\ MaxEvents \in Nat /\ Never \in Nat /\ MaxEvents < Never
  BY EmitterAssumption DEF Never

LEMMA UnusedIsNone == Unused \notin Attributes
  BY EmitterAssumption DEF Unused, Attributes, Envs

\* The listeners that have been registered are those with attributes.
LEMMA RegisteredOnes ==
    ASSUME ListenerTypes
    PROVE  /\ created \in Nat /\ 1 .. created \subseteq Listeners
           /\ \A l \in 1 .. created : l \in Listeners /\ listener[l] \in Attributes
           /\ \A l \in Listeners : l > created => listener[l] = Unused
           /\ \A l \in Listeners : listener[l].env \in Envs => l \in 1 .. created
<1>1. created \in Nat /\ 1 .. created \subseteq Listeners
  BY Bounds DEF ListenerTypes, Listeners
<1>2. \A l \in 1 .. created : l \in Listeners /\ listener[l] \in Attributes
  BY <1>1 DEF ListenerTypes, Attributes
<1>3. \A l \in Listeners : l > created => listener[l] = Unused
  BY <1>1, Bounds DEF ListenerTypes, Listeners
<1>4. ASSUME NEW l \in Listeners, listener[l].env \in Envs
      PROVE  l \in 1 .. created
  <2>1. listener[l] # Unused
    BY <1>4, EmitterAssumption DEF Unused, Envs
  <2> QED
    BY <1>1, <2>1 DEF ListenerTypes, Listeners
<1> QED
  BY <1>1, <1>2, <1>3, <1>4

LEMMA MarkedListeners ==
    ASSUME ListenerTypes, NEW ls \in SUBSET (1 .. created)
    PROVE  /\ Marked(ls) \in [Listeners -> Attributes \union {Unused}]
           /\ \A l \in Listeners :
                 /\ l <= created <=> Marked(ls)[l] # Unused
                 /\ Marked(ls)[l].env = listener[l].env
                 /\ Marked(ls)[l].id = listener[l].id
                 /\ Marked(ls)[l].callback = listener[l].callback
                 /\ Marked(ls)[l].once = listener[l].once
                 /\ Marked(ls)[l].isDeleted <=> l \in ls \/ Deleted(l)
<1>1. \A l \in Listeners : Marked(ls)[l] = IF l \in ls
                                           THEN [listener[l] EXCEPT !.isDeleted = TRUE]
                                           ELSE listener[l]
  BY DEF Marked
<1>2. ASSUME NEW l \in Listeners
      PROVE  /\ Marked(ls)[l] \in Attributes \union {Unused}
             /\ l <= created <=> Marked(ls)[l] # Unused
             /\ Marked(ls)[l].env = listener[l].env
             /\ Marked(ls)[l].id = listener[l].id
             /\ Marked(ls)[l].callback = listener[l].callback
             /\ Marked(ls)[l].once = listener[l].once
             /\ Marked(ls)[l].isDeleted <=> l \in ls \/ Deleted(l)
  <2>1. CASE l \in ls
    <3>1. l \in 1 .. created /\ listener[l] \in Attributes
      BY <2>1, RegisteredOnes
    <3>2. Marked(ls)[l] = [listener[l] EXCEPT !.isDeleted = TRUE]
      BY <1>1, <2>1
    <3>3. /\ Marked(ls)[l] \in Attributes
          /\ Marked(ls)[l].env = listener[l].env
          /\ Marked(ls)[l].id = listener[l].id
          /\ Marked(ls)[l].callback = listener[l].callback
          /\ Marked(ls)[l].once = listener[l].once
          /\ Marked(ls)[l].isDeleted = TRUE
      BY <3>1, <3>2 DEF Attributes
    <3>4. Marked(ls)[l] # Unused
      BY <3>3, UnusedIsNone
    <3> QED
      BY <2>1, <3>1, <3>3, <3>4
  <2>2. CASE l \notin ls
    <3>1. Marked(ls)[l] = listener[l]
      BY <1>1, <2>2
    <3> QED
      BY <2>2, <3>1 DEF ListenerTypes, Attributes, Deleted
  <2> QED
    BY <2>1, <2>2
<1>3. Marked(ls) \in [Listeners -> Attributes \union {Unused}]
  <2>1. Marked(ls) = [l \in Listeners |-> Marked(ls)[l]]
    BY DEF Marked
  <2> QED
    BY <1>2, <2>1
<1> QED
  BY <1>2, <1>3

\* Marking nothing.
LEMMA NoneMarked == ListenerTypes => Marked({}) = listener
  BY DEF ListenerTypes, Marked

-----------------------------------------------------------------------------
(* Types *)

\* The parts of the state that a step leaves alone keep their types.
LEMMA ListenersUntouched ==
    ASSUME ListenerTypes, UNCHANGED <<listener, created, subscribed, aniIds, dueUpTo>>
    PROVE  ListenerTypes'
  BY DEF ListenerTypes, Listeners

LEMMA EventsUntouched ==
    ASSUME EventTypes, created \in Nat, created' \in Nat, created <= created',
           enhanced' \in BOOLEAN, UNCHANGED <<events, queue, stage, handling, todo, scenario>>
    PROVE  EventTypes'
<1>1. Event(created) \subseteq Event(created')
  BY DEF Event
<1>2. events' \in Seq(Event(created'))
  BY <1>1, SeqGrows DEF EventTypes, Event
<1> QED
  BY <1>2 DEF EventTypes, Event, Emitted

LEMMA CallsGrow ==
    ASSUME created \in Nat, created' \in Nat, created <= created', Emitted \in Nat,
           Emitted' \in Nat, Emitted <= Emitted'
    PROVE  /\ Call \subseteq Call' /\ Seq(Call) \subseteq Seq(Call')
           /\ Seq(1 .. Emitted) \subseteq Seq(1 .. Emitted')
<1>1. Call \subseteq Call' /\ 1 .. Emitted \subseteq 1 .. Emitted'
  BY DEF Call
<1> QED
  BY <1>1, SeqGrows

LEMMA EmittedNat == EventTypes => Emitted \in Nat
  BY DEF EventTypes, Emitted

LEMMA CallsUntouched ==
    ASSUME CallTypes, created \in Nat, created' \in Nat, created <= created', Emitted \in Nat,
           Emitted' \in Nat, Emitted <= Emitted', taskRunning' \in BOOLEAN,
           UNCHANGED <<calls, taskData, needNotify, everRun, worker, aniQueue, inCall, reached>>
    PROVE  CallTypes'
<1>1. /\ Call \subseteq Call' /\ Seq(Call) \subseteq Seq(Call')
      /\ Seq(1 .. Emitted) \subseteq Seq(1 .. Emitted')
  BY CallsGrow
<1>2. /\ calls' \in [Listeners -> Seq(1 .. Emitted')]
      /\ taskData' \in Seq(Call')
  BY <1>1 DEF CallTypes
<1>3. worker' \in [Threads -> [at : Places, task : Call' \union {NoCall}]]
  BY <1>1 DEF CallTypes
<1>4. /\ aniQueue' \in [AniEnvs -> Seq(Call')]
      /\ running' \in [Envs -> Call' \union {NoCall}]
      /\ passed' \in [JsEnvs -> Call' \union {NoCall}]
  BY <1>1 DEF CallTypes, inCall
<1>5. reached' \subseteq (1 .. created') \X (1 .. Emitted')
  BY DEF CallTypes
<1> QED
  BY <1>2, <1>3, <1>4, <1>5 DEF CallTypes, NoCall, Listeners

LEMMA LeaveType ==
    ASSUME ListenerTypes, EventTypes, NEW ls, Leave(ls)
    PROVE  dueUpTo' \in [Listeners -> 0 .. Never]
<1>1. Emitted \in 0 .. Never /\ 0 \in 0 .. Never
  BY Bounds, EmittedNat DEF EventTypes
<1> QED
  BY <1>1 DEF Leave, ListenerTypes

LEMMA LeaveWithType ==
    ASSUME ListenerTypes, NEW ls, NEW n \in 0 .. Never, LeaveWith(ls, n)
    PROVE  dueUpTo' \in [Listeners -> 0 .. Never]
  BY DEF LeaveWith, ListenerTypes

\* Some listeners are marked, some leave their container.
LEMMA ListenersMarked ==
    ASSUME ListenerTypes, NEW gone \in SUBSET (1 .. created), listener' = Marked(gone),
           created' = created, subscribed' \subseteq subscribed, aniIds' \subseteq aniIds,
           dueUpTo' \in [Listeners -> 0 .. Never]
    PROVE  ListenerTypes'
<1>1. /\ listener' \in [Listeners -> Attributes \union {Unused}]
      /\ \A l \in Listeners : l <= created <=> listener'[l] # Unused
  BY MarkedListeners
<1> QED
  BY <1>1 DEF ListenerTypes, Attributes, Listeners

\* The functions that take listeners out: gone leave the container and are marked; those
\* that have left before have been told so, or are marked.
Retire(gone, left) ==
    /\ gone \subseteq subscribed /\ gone \subseteq left /\ left \subseteq 1 .. created
    /\ left \intersect subscribed \subseteq gone
    /\ listener' = Marked(gone)
    /\ subscribed' = subscribed \ gone
    /\ aniIds' \subseteq aniIds
    /\ Leave(left)
    /\ taskRunning' \in BOOLEAN
    /\ UNCHANGED <<enhanced, created, events, queue, handover, calls, taskData, needNotify,
                   worker, everRun, aniQueue, passed, running, reached, scenario>>

Retires == \E gone, left : Retire(gone, left)

LEMMA RetireTypes ==
    ASSUME TypeOK, NEW gone, NEW left, Retire(gone, left)
    PROVE  TypeOK'
<1> USE DEF TypeOK, handover, inCall
<1>1. gone \in SUBSET (1 .. created) /\ created \in Nat /\ Emitted \in Nat
  BY RegisteredOnes, EmittedNat DEF Retire, ListenerTypes
<1>2. dueUpTo' \in [Listeners -> 0 .. Never]
  BY LeaveType DEF Retire
<1>3. ListenerTypes'
  BY <1>1, <1>2, ListenersMarked DEF Retire
<1>4. EventTypes'
  BY <1>1, EventsUntouched DEF Retire, EventTypes
<1>5. CallTypes'
  BY <1>1, CallsUntouched DEF Retire, Emitted
<1> QED
  BY <1>3, <1>4, <1>5

-----------------------------------------------------------------------------
(* The invariant *)

\* The same function for the same id on the same thread.
Same(k, l) ==
    /\ listener[k].env = listener[l].env
    /\ listener[k].id = listener[l].id
    /\ listener[k].callback = listener[l].callback

\* A listener in its container is deleted exactly if it may not be called for ever, a
\* dynamic one never is; one outside is deleted, or used up by a plain event.
MarksInv ==
    /\ \A l \in subscribed : Deleted(l) <=> dueUpTo[l] # Never
    /\ \A l \in subscribed : IsNapi(l) => ~Deleted(l)
    /\ \A l \in (1 .. created) \ subscribed : Deleted(l) \/ dueUpTo[l] # Never
    /\ \A l \in Listeners : l > created => dueUpTo[l] = Never
    /\ ~enhanced => \A l \in 1 .. created : IsNapi(l)
    /\ \A k, l \in subscribed : IsNapi(k) /\ Same(k, l) => k = l

\* x is on its way to a static worker.
Carried(x) ==
    \/ \E i \in DOMAIN taskData : taskData[i] = x
    \/ \E t \in Threads : worker[t].task = x
    \/ \E w \in AniEnvs : \E i \in DOMAIN aniQueue[w] : aniQueue[w][i] = x

\* What is where: the listeners of a snapshot are of the runtime whose turn it is, and what
\* is under way has been taken from the queue.
PlaceInv ==
    /\ handling \notin queue
    /\ stage = "napi" => \A l \in todo : IsNapi(l)
    /\ stage \in {"ani", "start"} => \A l \in todo : IsAni(l)
    /\ \A e \in JsEnvs : running[e] # NoCall => listener[running[e].listener].env = e
    /\ \A e \in JsEnvs : passed[e] # NoCall => listener[passed[e].listener].env = e
    /\ \A x \in Call : Carried(x) => IsAni(x.listener) /\ x.event \notin queue

\* Every call that may still start is due.
DueInv ==
    /\ \A x \in Call : Carried(x) => x.event <= dueUpTo[x.listener]
    /\ \A l \in todo : handling <= dueUpTo[l] \/ (IsNapi(l) /\ Deleted(l))
    /\ \A l \in 1 .. created : IsNapi(l) /\ ~Deleted(l) =>
           \A i \in DOMAIN calls[l] : calls[l][i] <= dueUpTo[l]

EmitterInv == TypeOK /\ MarksInv /\ PlaceInv /\ DueInv

-----------------------------------------------------------------------------
(* Off and the collection of Emitter objects *)

LEMMA DeleteRetires ==
    ASSUME TypeOK, NEW found, NEW meant, found \subseteq subscribed, found \subseteq meant,
           meant \subseteq 1 .. created, DeleteCallbackInfo(found, meant)
    PROVE  Retires
<1> USE DEF TypeOK
<1>1. CASE found = {} /\ UNCHANGED <<listener, subscribed>>
  <2>1. Retire({}, meant \ subscribed)
    BY <1>1, NoneMarked DEF DeleteCallbackInfo, Retire, manager, inCall, CallTypes
  <2> QED
    BY <2>1 DEF Retires
<1>2. ASSUME NEW l \in found, listener' = Marked({l}), subscribed' = subscribed \ {l}
      PROVE  Retires
  <2>1. Retire({l}, meant \ subscribed')
    BY <1>2 DEF DeleteCallbackInfo, Retire, manager, inCall, CallTypes
  <2> QED
    BY <2>1 DEF Retires
<1> QED
  BY <1>1, <1>2 DEF DeleteCallbackInfo

LEMMA OffRetires ==
    ASSUME TypeOK, MarksInv,
           \/ \E id \in Ids : JS_Off(id) \/ AniOff(id)
           \/ \E id \in Ids, cb \in Callbacks : AniOffCallback(id, cb)
           \/ \E id \in Ids, cb \in Callbacks, e \in JsEnvs : OffCallback(e, id, cb)
           \/ \E o \in Objects : DeleteEmitterInstance(o) \/ AniCleanCallbackInfo(o)
    PROVE  Retires
<1> USE DEF TypeOK, containers, inCall
<1>1. subscribed \subseteq 1 .. created
  BY DEF ListenerTypes
<1>2. ASSUME NEW id \in Ids, OffPlain(id) PROVE Retires
  <2>1. Registered(id) \intersect subscribed \subseteq Napi(id)
    BY <1>2, <1>1 DEF OffPlain, MarksInv, Registered, Napi
  <2>2. Napi(id) \subseteq Registered(id) /\ Registered(id) \subseteq 1 .. created
    BY <1>1 DEF Registered, Napi
  <2>3. Retire(Napi(id), Registered(id))
    BY <1>2, <2>1, <2>2 DEF OffPlain, Retire, manager, CallTypes, Napi
  <2> QED
    BY <2>3 DEF Retires
<1>3. ASSUME NEW id \in Ids, DeleteCallbackInfoByEventId(id) PROVE Retires
  <2>1. Registered(id) \intersect subscribed \subseteq Ani(id) \union Napi(id)
    <3>1. \A l \in 1 .. created : IsNapi(l) \/ IsAni(l)
      BY RegisteredOnes DEF Attributes, Envs, IsNapi, IsAni
    <3> QED
      BY <1>1, <3>1 DEF Registered, Napi, Ani
  <2>2. Ani(id) \union Napi(id) \subseteq Registered(id) /\ Registered(id) \subseteq 1 .. created
    BY <1>1 DEF Registered, Napi, Ani
  <2>3. Retire(Ani(id) \union Napi(id), Registered(id))
    BY <1>3, <2>1, <2>2 DEF DeleteCallbackInfoByEventId, Retire, manager, CallTypes, Napi, Ani
  <2> QED
    BY <2>3 DEF Retires
<1>4. ASSUME NEW id \in Ids, NEW cb \in Callbacks, NEW e \in JsEnvs, OffCallback(e, id, cb)
      PROVE  Retires
  <2> DEFINE found == {l \in Napi(id) : listener[l].env = e /\ listener[l].callback = cb}
             meant == {l \in Registered(id) : listener[l].env = e /\ listener[l].callback = cb}
  <2>1. found \subseteq subscribed /\ found \subseteq meant /\ meant \subseteq 1 .. created
    BY <1>1 DEF Napi, Registered
  <2>2. DeleteCallbackInfo(found, meant)
    BY <1>4 DEF OffCallback
  <2> QED
    BY <2>1, <2>2, DeleteRetires
<1>5. ASSUME NEW id \in Ids, NEW cb \in Callbacks, AniDeleteCallbackInfo(id, cb)
      PROVE  Retires
  <2> DEFINE found == {l \in Ani(id) : IsAni(l) /\ listener[l].callback = cb}
             meant == {l \in Registered(id) : IsAni(l) /\ listener[l].callback = cb}
  <2>1. found \subseteq subscribed /\ found \subseteq meant /\ meant \subseteq 1 .. created
    BY <1>1 DEF Ani, Registered
  <2>2. DeleteCallbackInfo(found, meant)
    BY <1>5 DEF AniDeleteCallbackInfo
  <2> QED
    BY <2>1, <2>2, DeleteRetires
<1>6. ASSUME NEW o \in Objects, DeleteEmitterInstance(o) PROVE Retires
  <2> DEFINE gone == {l \in OfObject(o) : IsNapi(l)}
  <2>1. gone \subseteq subscribed
    BY DEF OfObject
  <2>2. Retire(gone, gone)
    BY <1>1, <1>6, <2>1 DEF DeleteEmitterInstance, Retire, manager, CallTypes
  <2> QED
    BY <2>2 DEF Retires
<1>7. ASSUME NEW o \in Objects, AniCleanCallbackInfo(o) PROVE Retires
  <2> DEFINE gone == {l \in OfObject(o) : IsAni(l)}
  <2>1. gone \subseteq subscribed
    BY DEF OfObject
  <2>2. Retire(gone, gone)
    BY <1>1, <1>7, <2>1 DEF AniCleanCallbackInfo, Retire, manager, CallTypes
  <2> QED
    BY <2>2 DEF Retires
<1> QED
  BY <1>2, <1>3, <1>4, <1>5, <1>6, <1>7
  DEF JS_Off, AniOff, OffEnhanced, AniOffCallback

LEMMA RetiredListeners ==
    ASSUME TypeOK, NEW gone, NEW left, Retire(gone, left)
    PROVE  /\ \A l \in Listeners : /\ listener'[l].env = listener[l].env
                                   /\ listener'[l].id = listener[l].id
                                   /\ listener'[l].callback = listener[l].callback
                                   /\ Deleted(l)' <=> l \in gone \/ Deleted(l)
           /\ \A l \in Listeners :
                 dueUpTo'[l] = IF l \notin left \/ dueUpTo[l] # Never THEN dueUpTo[l]
                               ELSE IF IsAni(l) THEN Emitted ELSE 0
           /\ Emitted < Never /\ 0 < Never /\ Emitted \in Nat
<1>1. gone \in SUBSET (1 .. created)
  BY DEF Retire, TypeOK, ListenerTypes
<1>2. Emitted < Never /\ 0 < Never /\ Emitted \in Nat
  BY Bounds, EmittedNat DEF TypeOK, EventTypes
<1>3. \A l \in Listeners : /\ listener'[l].env = listener[l].env
                           /\ listener'[l].id = listener[l].id
                           /\ listener'[l].callback = listener[l].callback
                           /\ Deleted(l)' <=> l \in gone \/ Deleted(l)
  BY <1>1, MarkedListeners DEF Retire, Deleted, TypeOK
<1> QED
  BY <1>2, <1>3 DEF Retire, Leave

LEMMA RetireStep ==
    ASSUME EmitterInv, NEW gone, NEW left, Retire(gone, left)
    PROVE  EmitterInv'
<1> USE DEF EmitterInv, handover, inCall
<1>1. TypeOK'
  BY RetireTypes
<1>2. /\ 1 .. created \subseteq Listeners /\ subscribed \subseteq 1 .. created
      /\ created' = created /\ subscribed' = subscribed \ gone
      /\ gone \subseteq left /\ left \subseteq 1 .. created
      /\ left \intersect subscribed \subseteq gone
      /\ UNCHANGED <<enhanced, events, queue, stage, handling, todo, calls, taskData, worker,
                     aniQueue, passed, running>>
  BY RegisteredOnes DEF Retire, TypeOK, ListenerTypes
<1>3. \A l \in Listeners : (IsNapi(l)' <=> IsNapi(l)) /\ (IsAni(l)' <=> IsAni(l))
  BY RetiredListeners DEF IsNapi, IsAni
<1>4. MarksInv'
  <2>1. \A l \in subscribed' : Deleted(l)' <=> dueUpTo'[l] # Never
    BY <1>2, RetiredListeners DEF MarksInv
  <2>2. \A l \in subscribed' : IsNapi(l)' => ~Deleted(l)'
    BY <1>2, <1>3, RetiredListeners DEF MarksInv
  <2>3. \A l \in (1 .. created') \ subscribed' : Deleted(l)' \/ dueUpTo'[l] # Never
    BY <1>2, RetiredListeners DEF MarksInv
  <2>4. \A l \in Listeners : l > created' => dueUpTo'[l] = Never
    <3> SUFFICES ASSUME NEW l \in Listeners, l > created PROVE dueUpTo'[l] = Never
      BY <1>2
    <3>1. l \notin left
      BY <1>2, RegisteredOnes, Bounds DEF TypeOK, Listeners
    <3> QED
      BY <3>1, RetiredListeners DEF MarksInv
  <2>5. ~enhanced' => \A l \in 1 .. created' : IsNapi(l)'
    BY <1>2, <1>3 DEF MarksInv
  <2>6. \A k, l \in subscribed' : IsNapi(k)' /\ Same(k, l)' => k = l
    BY <1>2, <1>3, RetiredListeners DEF MarksInv, Same
  <2> QED
    BY <2>1, <2>2, <2>3, <2>4, <2>5, <2>6 DEF MarksInv
<1>5. Call' = Call /\ \A x : Carried(x)' <=> Carried(x)
  BY <1>2 DEF Call, Carried, Emitted
<1>6. PlaceInv'
  <2>1. /\ \A e \in JsEnvs : running[e] # NoCall => running[e].listener \in Listeners
        /\ \A e \in JsEnvs : passed[e] # NoCall => passed[e].listener \in Listeners
    BY <1>2 DEF TypeOK, CallTypes, Call, Envs
  <2>2. \A x \in Call : x.listener \in Listeners
    BY <1>2 DEF Call
  <2>3. todo \subseteq Listeners
    BY <1>2 DEF TypeOK, EventTypes
  <2> QED
    BY <1>2, <1>3, <1>5, <2>1, <2>2, <2>3, RetiredListeners DEF PlaceInv
<1>7. DueInv'
  <2>1. ASSUME NEW x \in Call, Carried(x) PROVE x.event <= dueUpTo'[x.listener]
    <3>1. /\ x.listener \in Listeners /\ x.event \in 1 .. Emitted /\ IsAni(x.listener)
          /\ x.event <= dueUpTo[x.listener]
      BY <1>2, <2>1 DEF Call, PlaceInv, DueInv
    <3> QED
      BY <3>1, RetiredListeners
  <2>2. ASSUME NEW l \in 1 .. created, IsNapi(l), dueUpTo'[l] # dueUpTo[l] PROVE Deleted(l)'
    BY <1>2, <2>2, RetiredListeners DEF MarksInv
  <2>3. ASSUME NEW l \in todo
        PROVE  handling <= dueUpTo'[l] \/ (IsNapi(l)' /\ Deleted(l)')
    <3>1. l \in 1 .. created /\ l \in Listeners /\ handling \in 0 .. Emitted
      BY <1>2 DEF TypeOK, EventTypes
    <3>2. IsNapi(l) \/ IsAni(l)
      BY <3>1, RegisteredOnes DEF TypeOK, Attributes, Envs, IsNapi, IsAni
    <3>3. handling <= dueUpTo[l] \/ (IsNapi(l) /\ Deleted(l))
      BY DEF DueInv
    <3>4. CASE IsNapi(l)
      BY <1>3, <2>2, <3>1, <3>3, <3>4, RetiredListeners
    <3>5. CASE ~IsNapi(l)
      BY <3>1, <3>2, <3>3, <3>5, RetiredListeners
    <3> QED
      BY <3>4, <3>5
  <2>4. ASSUME NEW l \in 1 .. created, IsNapi(l)', ~Deleted(l)'
        PROVE  \A i \in DOMAIN calls[l] : calls[l][i] <= dueUpTo'[l]
    <3>1. l \in Listeners /\ IsNapi(l) /\ ~Deleted(l) /\ dueUpTo'[l] = dueUpTo[l]
      BY <1>2, <1>3, <2>2, <2>4, RetiredListeners
    <3> QED
      BY <3>1 DEF DueInv
  <2> QED
    BY <1>2, <1>5, <2>1, <2>3, <2>4 DEF DueInv
<1> QED
  BY <1>1, <1>4, <1>6, <1>7

-----------------------------------------------------------------------------
(* Steps that leave the containers and the queue alone *)

\* Only calls and threads move: nothing new is carried, called or listened to.
LEMMA OnlyMoves ==
    ASSUME EmitterInv, TypeOK',
           UNCHANGED <<listener, created, subscribed, dueUpTo, events, queue>>,
           enhanced => enhanced',
           \A x \in Call : Carried(x)' => Carried(x),
           handling' \in {handling, 0}, todo' \subseteq todo,
           stage' = "napi" => stage = "napi",
           stage' \in {"ani", "start"} => stage \in {"ani", "start"},
           \A e \in JsEnvs : running'[e] # NoCall => listener[running'[e].listener].env = e,
           \A e \in JsEnvs : passed'[e] # NoCall => listener[passed'[e].listener].env = e,
           \A l \in 1 .. created : IsNapi(l) /\ ~Deleted(l) =>
               \A i \in DOMAIN calls'[l] : calls'[l][i] <= dueUpTo[l]
    PROVE  EmitterInv'
<1> USE DEF EmitterInv
<1>1. Call' = Call /\ \A l : (IsNapi(l)' <=> IsNapi(l)) /\ (IsAni(l)' <=> IsAni(l))
                             /\ (Deleted(l)' <=> Deleted(l))
  BY DEF Call, Emitted, IsNapi, IsAni, Deleted
<1>2. MarksInv'
  BY <1>1 DEF MarksInv, Same
<1>3. queue \subseteq 1 .. Emitted /\ 0 \notin queue
  BY DEF TypeOK, EventTypes
<1>4. PlaceInv'
  BY <1>1, <1>3 DEF PlaceInv
<1>5. \A l \in todo : 0 <= dueUpTo[l]
  BY RegisteredOnes DEF TypeOK, EventTypes, ListenerTypes
<1>6. DueInv'
  BY <1>1, <1>5 DEF DueInv
<1> QED
  BY <1>2, <1>4, <1>6

\* The types of a step that leaves the listeners and the events alone.
LEMMA MovesTypes ==
    ASSUME TypeOK, UNCHANGED <<listener, created, subscribed, aniIds, dueUpTo, events, scenario>>,
           enhanced' \in BOOLEAN, queue' \subseteq queue,
           stage' \in {"idle", "napi", "ani", "start"},
           handling' \in 0 .. Emitted, stage' = "idle" <=> handling' = 0,
           todo' \subseteq 1 .. created, CallTypes'
    PROVE  TypeOK'
<1>1. ListenerTypes'
  BY ListenersUntouched DEF TypeOK
<1>2. EventTypes'
  BY DEF TypeOK, EventTypes, Emitted
<1> QED
  BY <1>1, <1>2 DEF TypeOK

LEMMA NatFacts ==
    ASSUME TypeOK
    PROVE  /\ created \in Nat /\ Emitted \in Nat
           /\ taskData \in Seq(Call) /\ \A w \in AniEnvs : aniQueue[w] \in Seq(Call)
           /\ NoCall \notin Call
<1>1. created \in Nat /\ Emitted \in Nat
  BY RegisteredOnes, EmittedNat DEF TypeOK
<1>2. NoCall \notin Call
  <2>1. NoCall.listener = 0 /\ \A x \in Call : x.listener # 0
    BY <1>1 DEF Call, NoCall
  <2> QED
    BY <2>1
<1>3. taskData \in Seq(Call) /\ \A w \in AniEnvs : aniQueue[w] \in Seq(Call)
  BY DEF TypeOK, CallTypes
<1> QED
  BY <1>1, <1>2, <1>3

LEMMA ScenarioBounds ==
    ASSUME TypeOK
    PROVE  scenario.events \in Nat /\ scenario.events <= MaxEvents /\ scenario.data \subseteq BOOLEAN
  BY EmitterAssumption DEF TypeOK, EventTypes

LEMMA AgentInitStep == ASSUME EmitterInv, AgentInit PROVE EmitterInv'
<1> USE DEF EmitterInv, AgentInit, containers, handover, manager, history, inCall
<1>1. CallTypes'
  BY NatFacts, CallsUntouched DEF TypeOK, Emitted, CallTypes
<1>2. TypeOK'
  BY <1>1, MovesTypes DEF TypeOK, EventTypes
<1>3. \A x \in Call : Carried(x)' => Carried(x)
  BY DEF Carried
<1> QED
  BY <1>2, <1>3, OnlyMoves DEF PlaceInv, DueInv

LEMMA CallThreadsafeFunctionStep ==
    ASSUME EmitterInv, NEW l \in todo, CallThreadsafeFunction(l) PROVE EmitterInv'
<1> USE DEF EmitterInv, containers, manager, history, inCall
<1>1. /\ stage = "napi" /\ todo' = todo \ {l}
      /\ calls' = IF Deleted(l) THEN calls ELSE [calls EXCEPT ![l] = Append(@, handling)]
      /\ UNCHANGED <<enhanced, listener, created, subscribed, aniIds, dueUpTo, events, queue,
                     stage, handling, taskData, taskRunning, needNotify, worker, everRun,
                     aniQueue, passed, running, reached, scenario>>
  BY DEF CallThreadsafeFunction
<1>2. l \in 1 .. created /\ l \in Listeners /\ handling \in 1 .. Emitted /\ IsNapi(l)
  BY <1>1, RegisteredOnes, NatFacts DEF TypeOK, EventTypes, PlaceInv
<1>3. /\ calls \in [Listeners -> Seq(1 .. Emitted)]
      /\ calls' \in [Listeners -> Seq(1 .. Emitted)]
  BY <1>1, <1>2 DEF TypeOK, CallTypes
<1>4. CallTypes'
  <2>1. Call' = Call /\ Emitted' = Emitted /\ Listeners' = Listeners
    BY <1>1 DEF Call, Emitted, Listeners
  <2> QED
    BY <1>1, <1>3, <2>1 DEF TypeOK, CallTypes, NoCall
<1>5. TypeOK'
  BY <1>1, <1>4, MovesTypes DEF TypeOK, EventTypes
<1>6. \A x \in Call : Carried(x)' => Carried(x)
  BY <1>1 DEF Carried
<1>7. ASSUME NEW k \in 1 .. created, IsNapi(k), ~Deleted(k), NEW i \in DOMAIN calls'[k]
      PROVE  calls'[k][i] <= dueUpTo[k]
  <2>1. k \in Listeners /\ calls[k] \in Seq(1 .. Emitted)
    BY <1>3, RegisteredOnes DEF TypeOK
  <2>2. CASE calls'[k] = calls[k]
    BY <1>7, <2>2 DEF DueInv
  <2>3. CASE k = l /\ calls'[k] = Append(calls[k], handling)
    <3>1. handling <= dueUpTo[k]
      BY <1>7, <2>3 DEF DueInv
    <3>2. CASE i = Len(calls[k]) + 1
      BY <2>1, <2>3, <3>1, <3>2
    <3>3. CASE i # Len(calls[k]) + 1
      <4>1. i \in DOMAIN calls[k] /\ calls'[k][i] = calls[k][i]
        BY <1>7, <2>1, <2>3, <3>3
      <4> QED
        BY <1>7, <4>1 DEF DueInv
    <3> QED
      BY <3>2, <3>3
  <2> QED
    BY <1>1, <1>2, <1>3, <2>1, <2>2, <2>3
<1> QED
  BY <1>1, <1>5, <1>6, <1>7, OnlyMoves DEF PlaceInv

LEMMA EndOfEventStep == ASSUME EmitterInv, EndOfEvent PROVE EmitterInv'
<1> USE DEF EmitterInv, EndOfEvent, containers, manager, history, inCall
<1>1. CallTypes'
  BY NatFacts, CallsUntouched DEF TypeOK, Emitted, CallTypes
<1>2. TypeOK'
  BY <1>1, NatFacts, MovesTypes DEF TypeOK, EventTypes
<1>3. \A x \in Call : Carried(x)' => Carried(x)
  BY DEF Carried
<1> QED
  BY <1>2, <1>3, OnlyMoves DEF PlaceInv, DueInv

\* What a thread is at changes, not what it carries.
LEMMA WorkerAt ==
    ASSUME TypeOK, NEW t \in Threads,
           NEW at \in Places \ {"send"},
           worker' = [worker EXCEPT ![t].at = at]
    PROVE  /\ worker' \in [Threads -> [at : Places, task : Call \union {NoCall}]]
           /\ \A u \in Threads : worker'[u].task = worker[u].task
           /\ \A u \in Threads : worker'[u].at = "send" => worker'[u].task # NoCall
<1>1. worker \in [Threads -> [at : Places, task : Call \union {NoCall}]]
  BY DEF TypeOK, CallTypes
<1>2. worker' = [worker EXCEPT ![t] = [at |-> at, task |-> worker[t].task]]
  <2>1. [worker[t] EXCEPT !.at = at] = [at |-> at, task |-> worker[t].task]
    BY <1>1
  <2>2. worker' = [worker EXCEPT ![t] = [worker[t] EXCEPT !.at = at]]
    OBVIOUS
  <2> QED
    BY <2>1, <2>2
<1>3. \A u \in Threads : worker'[u] = IF u = t THEN [at |-> at, task |-> worker[t].task]
                                      ELSE worker[u]
  BY <1>1, <1>2
<1>4. worker' \in [Threads -> [at : Places, task : Call \union {NoCall}]]
  BY <1>1, <1>2
<1> QED
  BY <1>3, <1>4 DEF TypeOK, CallTypes

\* A step of which no more is known than that threads go elsewhere.
LEMMA ThreadsMove ==
    ASSUME EmitterInv, UNCHANGED <<enhanced, containers, events, queue, handling, todo, calls,
                                   taskData, everRun, aniQueue, inCall, history, scenario>>,
           taskRunning' \in BOOLEAN, needNotify' \in BOOLEAN,
           stage' = stage \/ (stage = "start" /\ stage' = "ani"),
           \/ worker' = worker
           \/ \E t \in Threads, at \in Places \ {"send"} :
                  worker' = [worker EXCEPT ![t].at = at]
    PROVE  EmitterInv'
<1> USE DEF EmitterInv, containers, history, inCall
<1>1. /\ worker' \in [Threads -> [at : Places, task : Call \union {NoCall}]]
      /\ \A u \in Threads : worker'[u].task = worker[u].task
      /\ \A u \in Threads : worker'[u].at = "send" => worker'[u].task # NoCall
  BY WorkerAt DEF TypeOK, CallTypes
<1>2. CallTypes'
  <2>1. Call' = Call /\ Emitted' = Emitted /\ Listeners' = Listeners
    BY DEF Call, Emitted, Listeners
  <2> QED
    BY <1>1, <2>1 DEF TypeOK, CallTypes, NoCall
<1>3. TypeOK'
  BY <1>2, MovesTypes DEF TypeOK, EventTypes
<1>4. \A x \in Call : Carried(x)' => Carried(x)
  BY <1>1 DEF Carried
<1> QED
  BY <1>3, <1>4, OnlyMoves DEF PlaceInv, DueInv

LEMMA StartThreadStep == ASSUME EmitterInv, StartThread PROVE EmitterInv'
<1>1. /\ taskRunning' \in BOOLEAN /\ stage = "start" /\ stage' = "ani"
      /\ \/ worker' = worker
         \/ \E t \in Threads, at \in Places \ {"send"} :
                worker' = [worker EXCEPT ![t].at = at]
  BY DEF StartThread, Places, EmitterInv, TypeOK, CallTypes
<1> QED
  BY <1>1, ThreadsMove DEF StartThread, EmitterInv, TypeOK, CallTypes

LEMMA LoopStep ==
    ASSUME EmitterInv, NEW t \in Threads,
           AttachCurrentThread(t) \/ Loop(t) \/ WaitForTask(t) \/ AfterSend(t)
    PROVE  EmitterInv'
<1> USE DEF handover, inCall
<1>1. \E at \in Places \ {"send"} :
          worker' = [worker EXCEPT ![t].at = at]
  BY DEF AttachCurrentThread, Loop, WaitForTask, AfterSend, Places
<1>2. /\ taskRunning' \in BOOLEAN /\ needNotify' \in BOOLEAN /\ stage' = stage
      /\ UNCHANGED <<enhanced, containers, events, queue, handling, todo, calls,
                     taskData, everRun, aniQueue, passed, running, history, scenario>>
  BY DEF AttachCurrentThread, Loop, WaitForTask, AfterSend, EmitterInv, TypeOK, CallTypes
<1> QED
  BY <1>1, <1>2, ThreadsMove

LEMMA HeadAndTail ==
    ASSUME NEW S, NEW s \in Seq(S), s # <<>>
    PROVE  /\ Head(s) \in S /\ 1 \in DOMAIN s /\ Head(s) = s[1]
           /\ Tail(s) \in Seq(S)
           /\ \A i \in DOMAIN Tail(s) : i + 1 \in DOMAIN s /\ Tail(s)[i] = s[i + 1]
  OBVIOUS

LEMMA PopTaskDataStep ==
    ASSUME EmitterInv, NEW t \in Threads, PopTaskData(t) PROVE EmitterInv'
<1> USE DEF EmitterInv, containers, handover, history, inCall
<1>1. /\ taskData # <<>>
      /\ worker' = [worker EXCEPT ![t] = [at |-> "send", task |-> Head(taskData)]]
      /\ taskData' = Tail(taskData) /\ needNotify' = FALSE
      /\ UNCHANGED <<enhanced, listener, created, subscribed, aniIds, dueUpTo, events, queue,
                     stage, handling, todo, calls, taskRunning, everRun, aniQueue, passed,
                     running, reached, scenario>>
  BY DEF PopTaskData
<1>2. /\ Head(taskData) \in Call /\ 1 \in DOMAIN taskData /\ Head(taskData) = taskData[1]
      /\ Tail(taskData) \in Seq(Call)
      /\ \A i \in DOMAIN Tail(taskData) :
             i + 1 \in DOMAIN taskData /\ Tail(taskData)[i] = taskData[i + 1]
  BY <1>1, NatFacts, HeadAndTail
<1>3. /\ worker' \in [Threads -> [at : Places, task : Call \union {NoCall}]]
      /\ \A u \in Threads : u # t => worker'[u] = worker[u]
      /\ worker'[t].task = Head(taskData)
      /\ \A u \in Threads : worker'[u].at = "send" => worker'[u].task # NoCall
  BY <1>1, <1>2, NatFacts DEF TypeOK, CallTypes, Places
<1>4. CallTypes'
  <2>1. Call' = Call /\ Emitted' = Emitted /\ Listeners' = Listeners
    BY <1>1 DEF Call, Emitted, Listeners
  <2> QED
    BY <1>1, <1>2, <1>3, <2>1 DEF TypeOK, CallTypes, NoCall
<1>5. TypeOK'
  BY <1>1, <1>4, MovesTypes DEF TypeOK, EventTypes
<1>6. ASSUME NEW x, Carried(x)' PROVE Carried(x)
  BY <1>1, <1>2, <1>3, <1>6 DEF Carried
<1> QED
  BY <1>1, <1>5, <1>6, OnlyMoves DEF PlaceInv, DueInv

LEMMA SendEventDataStep ==
    ASSUME EmitterInv, NEW t \in Threads, SendEventData(t) PROVE EmitterInv'
<1> USE DEF EmitterInv, containers, handover, history, inCall
<1> DEFINE task == worker[t].task
           w == listener[worker[t].task.listener].env
<1>1. /\ worker[t].at = "send"
      /\ aniQueue' = [aniQueue EXCEPT ![w] = Append(@, task)]
      /\ worker' = [worker EXCEPT ![t] = [at |-> "sent", task |-> NoCall]]
      /\ UNCHANGED <<enhanced, listener, created, subscribed, aniIds, dueUpTo, events, queue,
                     stage, handling, todo, calls, taskData, taskRunning, needNotify, everRun,
                     passed, running, reached, scenario>>
  BY DEF SendEventData
<1>2. task \in Call /\ Carried(task)
  BY <1>1 DEF TypeOK, CallTypes, Carried
<1>3. w \in AniEnvs
  BY <1>2 DEF PlaceInv, IsAni
<1> HIDE DEF task, w
<1>4. /\ aniQueue[w] \in Seq(Call) /\ aniQueue' \in [AniEnvs -> Seq(Call)]
      /\ aniQueue'[w] = Append(aniQueue[w], task)
      /\ \A v \in AniEnvs : v # w => aniQueue'[v] = aniQueue[v]
  BY <1>1, <1>2, <1>3, NatFacts DEF TypeOK, CallTypes
<1>5. /\ worker' \in [Threads -> [at : Places, task : Call \union {NoCall}]]
      /\ \A u \in Threads : u # t => worker'[u] = worker[u]
      /\ worker'[t] = [at |-> "sent", task |-> NoCall]
      /\ \A u \in Threads : worker'[u].at = "send" => worker'[u].task # NoCall
  BY <1>1 DEF TypeOK, CallTypes, Places
<1>6. CallTypes'
  <2>1. Call' = Call /\ Emitted' = Emitted /\ Listeners' = Listeners
    BY <1>1 DEF Call, Emitted, Listeners
  <2> QED
    BY <1>1, <1>4, <1>5, <2>1 DEF TypeOK, CallTypes, NoCall
<1>7. TypeOK'
  BY <1>1, <1>6, MovesTypes DEF TypeOK, EventTypes
<1>8. ASSUME NEW x \in Call, Carried(x)' PROVE Carried(x)
  <2>1. CASE \E i \in DOMAIN taskData' : taskData'[i] = x
    BY <1>1, <2>1 DEF Carried
  <2>2. CASE \E u \in Threads : worker'[u].task = x
    BY <1>5, <2>2, NatFacts DEF Carried
  <2>3. ASSUME NEW v \in AniEnvs, NEW i \in DOMAIN aniQueue'[v], aniQueue'[v][i] = x
        PROVE  Carried(x)
    <3>1. CASE v # w
      BY <1>4, <2>3, <3>1 DEF Carried
    <3>2. CASE v = w
      <4>1. \/ i = Len(aniQueue[w]) + 1 /\ x = task
            \/ i \in DOMAIN aniQueue[w] /\ aniQueue[w][i] = x
        BY <1>4, <2>3, <3>2
      <4> QED
        BY <1>2, <1>3, <4>1 DEF Carried
    <3> QED
      BY <3>1, <3>2
  <2> QED
    BY <1>8, <2>1, <2>2, <2>3 DEF Carried
<1> QED
  BY <1>1, <1>7, <1>8, OnlyMoves DEF PlaceInv, DueInv

LEMMA WorkFunctionStep ==
    ASSUME EmitterInv, NEW w \in AniEnvs, WorkFunction(w) PROVE EmitterInv'
<1> USE DEF EmitterInv, containers, handover, manager, inCall
<1> DEFINE task == Head(aniQueue[w])
<1>1. /\ aniQueue[w] # <<>> /\ aniQueue' = [aniQueue EXCEPT ![w] = Tail(@)] /\ everRun' = TRUE
      /\ \/ running' = [running EXCEPT ![w] = task]
            /\ reached' = reached \union {<<task.listener, task.event>>}
         \/ UNCHANGED <<running, reached>>
      /\ UNCHANGED <<enhanced, listener, created, subscribed, aniIds, dueUpTo, events, queue,
                     stage, handling, todo, calls, taskData, taskRunning, needNotify, worker,
                     passed, scenario>>
  BY DEF WorkFunction
<1>2. /\ task \in Call /\ Tail(aniQueue[w]) \in Seq(Call)
      /\ \A i \in DOMAIN Tail(aniQueue[w]) :
             i + 1 \in DOMAIN aniQueue[w] /\ Tail(aniQueue[w])[i] = aniQueue[w][i + 1]
  BY <1>1, NatFacts, HeadAndTail
<1> HIDE DEF task
<1>3. /\ aniQueue' \in [AniEnvs -> Seq(Call)]
      /\ \A v \in AniEnvs : aniQueue'[v] = IF v = w THEN Tail(aniQueue[w]) ELSE aniQueue[v]
  BY <1>1, <1>2 DEF TypeOK, CallTypes
<1>4. /\ running' \in [Envs -> Call \union {NoCall}]
      /\ \A e \in Envs : e # w => running'[e] = running[e]
      /\ reached' \subseteq (1 .. created) \X (1 .. Emitted)
  <2>1. w \in Envs /\ <<task.listener, task.event>> \in (1 .. created) \X (1 .. Emitted)
    BY <1>2 DEF Envs, Call
  <2>2. /\ running \in [Envs -> Call \union {NoCall}]
        /\ reached \subseteq (1 .. created) \X (1 .. Emitted)
    BY DEF TypeOK, CallTypes
  <2>3. CASE UNCHANGED <<running, reached>>
    BY <2>2, <2>3
  <2>4. CASE /\ running' = [running EXCEPT ![w] = task]
             /\ reached' = reached \union {<<task.listener, task.event>>}
    BY <1>2, <2>1, <2>2, <2>4
  <2> QED
    BY <1>1, <2>3, <2>4
<1>5. CallTypes'
  <2>1. Call' = Call /\ Emitted' = Emitted /\ Listeners' = Listeners
    BY <1>1 DEF Call, Emitted, Listeners
  <2> QED
    BY <1>1, <1>3, <1>4, <2>1 DEF TypeOK, CallTypes, NoCall
<1>6. TypeOK'
  BY <1>1, <1>5, MovesTypes DEF TypeOK, EventTypes
<1>7. ASSUME NEW x, Carried(x)' PROVE Carried(x)
  BY <1>1, <1>2, <1>3, <1>7 DEF Carried
<1>8. \A e \in JsEnvs : e \in Envs /\ e # w
  BY EmitterAssumption DEF Envs
<1> QED
  BY <1>1, <1>4, <1>6, <1>7, <1>8, OnlyMoves DEF PlaceInv, DueInv

LEMMA WorkFunctionReturnsStep ==
    ASSUME EmitterInv, NEW w \in AniEnvs, WorkFunctionReturns(w) PROVE EmitterInv'
<1> USE DEF EmitterInv, containers, handover, manager, history, inCall
<1>1. /\ running' = [running EXCEPT ![w] = NoCall]
      /\ UNCHANGED <<enhanced, listener, created, subscribed, aniIds, dueUpTo, events, queue,
                     stage, handling, todo, calls, taskData, taskRunning, needNotify, worker,
                     everRun, aniQueue, passed, reached, scenario>>
  BY DEF WorkFunctionReturns
<1>2. /\ running' \in [Envs -> Call \union {NoCall}]
      /\ \A e \in Envs : e # w => running'[e] = running[e]
  BY <1>1 DEF TypeOK, CallTypes
<1>3. CallTypes'
  <2>1. Call' = Call /\ Emitted' = Emitted /\ Listeners' = Listeners
    BY <1>1 DEF Call, Emitted, Listeners
  <2> QED
    BY <1>1, <1>2, <2>1 DEF TypeOK, CallTypes, NoCall
<1>4. TypeOK'
  BY <1>1, <1>3, MovesTypes DEF TypeOK, EventTypes
<1>5. \A x \in Call : Carried(x)' => Carried(x)
  BY <1>1 DEF Carried
<1>6. \A e \in JsEnvs : e \in Envs /\ e # w
  BY EmitterAssumption DEF Envs
<1> QED
  BY <1>1, <1>2, <1>4, <1>5, <1>6, OnlyMoves DEF PlaceInv, DueInv

LEMMA ThreadSafeCallbackStep ==
    ASSUME EmitterInv, NEW e \in JsEnvs, ThreadSafeCallback(e) PROVE EmitterInv'
<1> USE DEF EmitterInv, containers, handover, manager, history
<1>1. PICK l \in Listeners :
          /\ listener[l].env = e /\ calls[l] # <<>>
          /\ \/ passed' = passed
             \/ passed' = [passed EXCEPT ![e] = [listener |-> l, event |-> Head(calls[l])]]
          /\ calls' = [calls EXCEPT ![l] = Tail(@)]
  BY DEF ThreadSafeCallback
<1>2. UNCHANGED <<enhanced, listener, created, subscribed, aniIds, dueUpTo, events, queue,
                  stage, handling, todo, taskData, taskRunning, needNotify, worker, everRun,
                  aniQueue, running, reached, scenario>>
  BY DEF ThreadSafeCallback
<1>3. e \in Envs /\ l \in 1 .. created
  BY <1>1, RegisteredOnes DEF Envs, TypeOK
<1>4. /\ Head(calls[l]) \in 1 .. Emitted /\ Tail(calls[l]) \in Seq(1 .. Emitted)
      /\ \A i \in DOMAIN Tail(calls[l]) :
             i + 1 \in DOMAIN calls[l] /\ Tail(calls[l])[i] = calls[l][i + 1]
  <2>1. calls[l] \in Seq(1 .. Emitted)
    BY DEF TypeOK, CallTypes
  <2>2. calls[l] # <<>>
    BY <1>1
  <2> QED
    BY <2>1, <2>2, HeadAndTail
<1>5. /\ calls' \in [Listeners -> Seq(1 .. Emitted)]
      /\ \A k \in Listeners : calls'[k] = IF k = l THEN Tail(calls[l]) ELSE calls[k]
  BY <1>1, <1>4 DEF TypeOK, CallTypes
<1>6. /\ passed' \in [JsEnvs -> Call \union {NoCall}]
      /\ \A f \in JsEnvs : passed'[f] # passed[f] => f = e /\ passed'[f].listener = l
  <2>1. [listener |-> l, event |-> Head(calls[l])] \in Call
    BY <1>3, <1>4 DEF Call
  <2>2. passed \in [JsEnvs -> Call \union {NoCall}]
    BY DEF TypeOK, CallTypes
  <2>3. CASE passed' = passed
    BY <2>2, <2>3
  <2>4. CASE passed' = [passed EXCEPT ![e] = [listener |-> l, event |-> Head(calls[l])]]
    BY <2>1, <2>2, <2>4
  <2> QED
    BY <1>1, <2>3, <2>4
<1>7. CallTypes'
  <2>1. Call' = Call /\ Emitted' = Emitted /\ Listeners' = Listeners
    BY <1>2 DEF Call, Emitted, Listeners
  <2> QED
    BY <1>2, <1>5, <1>6, <2>1 DEF TypeOK, CallTypes, NoCall
<1>8. TypeOK'
  BY <1>2, <1>7, MovesTypes DEF TypeOK, EventTypes
<1>9. \A x \in Call : Carried(x)' => Carried(x)
  BY <1>2 DEF Carried
<1>10. \A f \in JsEnvs : passed'[f] # NoCall => listener[passed'[f].listener].env = f
  BY <1>1, <1>6 DEF PlaceInv
<1>11. ASSUME NEW k \in 1 .. created, IsNapi(k), ~Deleted(k), NEW i \in DOMAIN calls'[k]
       PROVE  calls'[k][i] <= dueUpTo[k]
  <2>1. k \in Listeners
    BY RegisteredOnes DEF TypeOK
  <2>2. \A j \in DOMAIN calls[k] : calls[k][j] <= dueUpTo[k]
    BY <1>11 DEF DueInv
  <2>3. CASE k = l
    BY <1>4, <1>5, <1>11, <2>1, <2>2, <2>3
  <2>4. CASE k # l
    BY <1>5, <1>11, <2>1, <2>2, <2>4
  <2> QED
    BY <2>3, <2>4
<1> QED
  BY <1>2, <1>8, <1>9, <1>10, <1>11, OnlyMoves DEF PlaceInv

LEMMA CallFunctionStep ==
    ASSUME EmitterInv, NEW e \in JsEnvs, CallFunction(e) PROVE EmitterInv'
<1> USE DEF EmitterInv, containers, handover, manager
<1> DEFINE call == passed[e]
<1>1. /\ call # NoCall /\ passed' = [passed EXCEPT ![e] = NoCall]
      /\ \/ running' = [running EXCEPT ![e] = call]
            /\ reached' = reached \union {<<call.listener, call.event>>}
         \/ UNCHANGED <<running, reached>>
      /\ UNCHANGED <<enhanced, listener, created, subscribed, aniIds, dueUpTo, events, queue,
                     stage, handling, todo, calls, taskData, taskRunning, needNotify, worker,
                     everRun, aniQueue, scenario>>
  BY DEF CallFunction
<1>2. /\ call \in Call /\ listener[call.listener].env = e /\ e \in Envs
      /\ <<call.listener, call.event>> \in (1 .. created) \X (1 .. Emitted)
  BY <1>1 DEF PlaceInv, TypeOK, CallTypes, Call, Envs
<1> HIDE DEF call
<1>3. /\ passed' \in [JsEnvs -> Call \union {NoCall}]
      /\ \A f \in JsEnvs : passed'[f] # NoCall => passed'[f] = passed[f]
  BY <1>1 DEF TypeOK, CallTypes
<1>4. /\ running' \in [Envs -> Call \union {NoCall}]
      /\ reached' \subseteq (1 .. created) \X (1 .. Emitted)
      /\ \A f \in JsEnvs : f \in Envs /\ (running'[f] # running[f] => f = e /\ running'[f] = call)
  <2>1. /\ running \in [Envs -> Call \union {NoCall}]
        /\ reached \subseteq (1 .. created) \X (1 .. Emitted)
        /\ JsEnvs \subseteq Envs
    BY DEF TypeOK, CallTypes, Envs
  <2>2. CASE UNCHANGED <<running, reached>>
    BY <2>1, <2>2
  <2>3. CASE /\ running' = [running EXCEPT ![e] = call]
             /\ reached' = reached \union {<<call.listener, call.event>>}
    BY <1>2, <2>1, <2>3
  <2> QED
    BY <1>1, <2>2, <2>3
<1>5. CallTypes'
  <2>1. Call' = Call /\ Emitted' = Emitted /\ Listeners' = Listeners
    BY <1>1 DEF Call, Emitted, Listeners
  <2> QED
    BY <1>1, <1>3, <1>4, <2>1 DEF TypeOK, CallTypes, NoCall
<1>6. TypeOK'
  BY <1>1, <1>5, MovesTypes DEF TypeOK, EventTypes
<1>7. \A x \in Call : Carried(x)' => Carried(x)
  BY <1>1 DEF Carried
<1>8. /\ \A f \in JsEnvs : running'[f] # NoCall => listener[running'[f].listener].env = f
      /\ \A f \in JsEnvs : passed'[f] # NoCall => listener[passed'[f].listener].env = f
  BY <1>2, <1>3, <1>4 DEF PlaceInv
<1> QED
  BY <1>1, <1>6, <1>7, <1>8, OnlyMoves DEF DueInv

-----------------------------------------------------------------------------
(* On, once and emit *)

LEMMA Elements == ASSUME NEW S, NEW s \in Seq(S), NEW i \in DOMAIN s PROVE s[i] \in S
  OBVIOUS

\* What is carried is a call there is.
LEMMA CarriedOnes == ASSUME TypeOK, NEW x, Carried(x), x # NoCall PROVE x \in Call
<1>1. CASE \E i \in DOMAIN taskData : taskData[i] = x
  BY <1>1, NatFacts
<1>2. CASE \E t \in Threads : worker[t].task = x
  BY <1>2 DEF TypeOK, CallTypes
<1>3. CASE \E w \in AniEnvs : \E i \in DOMAIN aniQueue[w] : aniQueue[w][i] = x
  BY <1>3, NatFacts
<1> QED
  BY <1>1, <1>2, <1>3 DEF Carried

\* A new listener, or a new event: what was under way still is, and is still due.
LEMMA Grows ==
    ASSUME EmitterInv, TypeOK', MarksInv',
           created <= created', Emitted <= Emitted',
           queue' = queue \/ queue' = queue \union {Emitted + 1},
           \A l \in 1 .. created :
               /\ listener'[l].env = listener[l].env
               /\ listener'[l].isDeleted <=> listener[l].isDeleted,
           UNCHANGED <<stage, handling, todo, calls, taskData, worker, aniQueue, inCall, dueUpTo>>
    PROVE  EmitterInv'
<1> USE DEF EmitterInv
<1>1. \A l \in 1 .. created : /\ IsNapi(l)' <=> IsNapi(l)
                              /\ IsAni(l)' <=> IsAni(l)
                              /\ Deleted(l)' <=> Deleted(l)
  BY DEF IsNapi, IsAni, Deleted
<1>2. ASSUME NEW x \in Call', Carried(x)' PROVE x \in Call /\ Carried(x)
  <2>1. Carried(x)
    BY <1>2 DEF Carried
  <2>2. x # NoCall
    BY <1>2, NatFacts DEF Call, NoCall, TypeOK, ListenerTypes
  <2> QED
    BY <2>1, <2>2, CarriedOnes
<1>3. \A x \in Call : x.listener \in 1 .. created /\ x.event \in 1 .. Emitted
  BY DEF Call
<1>4. todo \subseteq 1 .. created /\ handling \in 0 .. Emitted
  BY DEF TypeOK, EventTypes
<1>5. /\ \A e \in JsEnvs : running[e] # NoCall => running[e].listener \in 1 .. created
      /\ \A e \in JsEnvs : passed[e] # NoCall => passed[e].listener \in 1 .. created
  BY <1>3 DEF TypeOK, CallTypes, Envs
<1>6. PlaceInv'
  <2>1. handling' \notin queue'
    BY <1>4, NatFacts DEF PlaceInv
  <2>2. /\ \A e \in JsEnvs : running'[e] # NoCall => listener'[running'[e].listener].env = e
        /\ \A e \in JsEnvs : passed'[e] # NoCall => listener'[passed'[e].listener].env = e
    BY <1>5 DEF PlaceInv, inCall
  <2>3. \A x \in Call' : Carried(x)' => IsAni(x.listener)' /\ x.event \notin queue'
    BY <1>1, <1>2, <1>3, NatFacts DEF PlaceInv
  <2> QED
    BY <1>1, <1>4, <2>1, <2>2, <2>3 DEF PlaceInv
<1>7. DueInv'
  <2>1. ASSUME NEW l \in 1 .. created', IsNapi(l)', ~Deleted(l)', NEW i \in DOMAIN calls[l]
        PROVE  calls[l][i] <= dueUpTo[l]
    <3>1. CASE l \in 1 .. created
      BY <1>1, <2>1, <3>1 DEF DueInv
    <3>2. CASE l \notin 1 .. created
      <4>1. l \in Listeners /\ l > created
        <5>1. created' \in 0 .. MaxListeners /\ created \in Nat /\ l \in 1 .. created'
          BY <2>1, NatFacts DEF TypeOK, ListenerTypes
        <5> QED
          BY <3>2, <5>1, Bounds DEF Listeners
      <4>2. dueUpTo[l] = Never /\ calls[l] \in Seq(1 .. Emitted)
        BY <4>1 DEF MarksInv, TypeOK, CallTypes
      <4>3. calls[l][i] \in 1 .. Emitted
        BY <2>1, <4>2, Elements
      <4> QED
        BY <4>2, <4>3, Bounds, NatFacts DEF TypeOK, EventTypes
    <3> QED
      BY <3>1, <3>2
  <2>2. \A l \in todo : handling <= dueUpTo[l] \/ (IsNapi(l)' /\ Deleted(l)')
    BY <1>1, <1>4 DEF DueInv
  <2>3. \A x \in Call' : Carried(x)' => x.event <= dueUpTo[x.listener]
    BY <1>2 DEF DueInv
  <2> QED
    BY <2>1, <2>2, <2>3 DEF DueInv
<1> QED
  BY <1>6, <1>7

LEMMA RegisterStep ==
    ASSUME EmitterInv, NEW e \in Envs, NEW id \in Ids, NEW cb \in Callbacks, NEW once \in BOOLEAN,
           Register(e, id, cb, once), e \in AniEnvs => enhanced,
           e \in JsEnvs => Known(e, id, cb) = {}, aniIds' \subseteq Ids,
           UNCHANGED <<enhanced, events, queue, handover, calls, manager, aniQueue, inCall, history,
                       scenario>>
    PROVE  EmitterInv'
<1> USE DEF EmitterInv, handover, manager, history, inCall
<1> DEFINE new == [env |-> e, id |-> id, callback |-> cb, once |-> once, isDeleted |-> FALSE]
<1>1. /\ created \in Nat /\ created < MaxListeners /\ created' = created + 1
      /\ created + 1 \in Listeners /\ created + 1 \notin subscribed
      /\ subscribed \subseteq 1 .. created /\ 1 .. created \subseteq Listeners
      /\ subscribed' = subscribed \union {created + 1}
  BY NatFacts, Bounds DEF Register, TypeOK, ListenerTypes, Listeners
<1>2. /\ new \in Attributes /\ new # Unused
  <2>1. new \in Attributes
    BY DEF Attributes
  <2> HIDE DEF new
  <2> QED
    BY <2>1, UnusedIsNone
<1>3. listener' = [listener EXCEPT ![created + 1] = new]
  BY DEF Register
<1>4. new.env = e /\ new.id = id /\ new.callback = cb /\ new.isDeleted = FALSE
  OBVIOUS
<1> HIDE DEF new
<1>5. \A l \in Listeners : listener'[l] = IF l = created + 1 THEN new ELSE listener[l]
  BY <1>3 DEF TypeOK, ListenerTypes
<1>6. ListenerTypes'
  <2>1. listener' \in [Listeners -> Attributes \union {Unused}]
    BY <1>2, <1>3 DEF TypeOK, ListenerTypes, Attributes
  <2>2. \A l \in Listeners : l <= created + 1 <=> listener'[l] # Unused
    BY <1>1, <1>2, <1>5 DEF TypeOK, ListenerTypes, Listeners
  <2> QED
    BY <1>1, <2>1, <2>2, Bounds DEF TypeOK, ListenerTypes, Attributes, Listeners
<1>7. Emitted' = Emitted /\ Emitted \in Nat
  BY NatFacts DEF Emitted
<1>8. EventTypes'
  BY <1>1, EventsUntouched DEF TypeOK, EventTypes
<1>9. CallTypes'
  BY <1>1, <1>7, CallsUntouched DEF TypeOK, CallTypes
<1>10. /\ listener'[created + 1] = new
       /\ \A l \in 1 .. created : listener'[l] = listener[l]
  <2>1. ASSUME NEW l \in 1 .. created PROVE l \in Listeners /\ l # created + 1
    BY <1>1
  <2> QED
    BY <1>1, <1>5, <2>1
<1>11. \A l \in 1 .. created : /\ IsNapi(l)' <=> IsNapi(l)
                               /\ IsAni(l)' <=> IsAni(l)
                               /\ Deleted(l)' <=> Deleted(l)
  BY <1>10 DEF IsNapi, IsAni, Deleted
<1>12. \A l \in Listeners : l = created + 1 => ~Deleted(l)' /\ (IsNapi(l)' <=> e \in JsEnvs)
  BY <1>10, <1>4 DEF IsNapi, Deleted
<1>13. 1 .. created' = 1 .. created \union {created + 1}
  BY <1>1
<1>14. MarksInv'
  <2>1. dueUpTo[created + 1] = Never
    BY <1>1 DEF MarksInv
  <2>2. \A l \in subscribed' : Deleted(l)' <=> dueUpTo[l] # Never
    <3>1. \A l \in subscribed : Deleted(l)' <=> dueUpTo[l] # Never
      BY <1>1, <1>11 DEF MarksInv
    <3> QED
      BY <1>1, <1>12, <2>1, <3>1
  <2>3. \A l \in subscribed' : IsNapi(l)' => ~Deleted(l)'
    <3>1. \A l \in subscribed : IsNapi(l)' => ~Deleted(l)'
      BY <1>1, <1>11 DEF MarksInv
    <3> QED
      BY <1>1, <1>12, <3>1
  <2>4. \A l \in (1 .. created') \ subscribed' : Deleted(l)' \/ dueUpTo[l] # Never
    BY <1>1, <1>11 DEF MarksInv
  <2>5. \A l \in Listeners : l > created' => dueUpTo[l] = Never
    BY <1>1 DEF MarksInv, Listeners
  <2>6. ~enhanced => \A l \in 1 .. created' : IsNapi(l)'
    <3>1. ~enhanced => \A l \in 1 .. created : IsNapi(l)'
      BY <1>11 DEF MarksInv
    <3> QED
      BY <1>1, <1>13, <1>12, <3>1 DEF Envs
  <2>7. ASSUME NEW k \in subscribed, e \in JsEnvs, listener[k].env = e, listener[k].id = id,
               listener[k].callback = cb
        PROVE  FALSE
    <3>1. IsNapi(k) /\ ~Deleted(k)
      BY <2>7 DEF IsNapi, MarksInv
    <3> QED
      BY <2>7, <3>1 DEF Known, Live, Napi
  <2>8. ASSUME NEW k \in subscribed', NEW l \in subscribed', IsNapi(k)', Same(k, l)'
        PROVE  k = l
    <3>1. CASE k \in subscribed /\ l \in subscribed
      BY <1>1, <1>10, <1>11, <2>8, <3>1 DEF MarksInv, Same
    <3>2. CASE k = created + 1 /\ l \in subscribed
      BY <1>1, <1>10, <1>4, <1>12, <2>7, <2>8, <3>2 DEF Same, IsNapi
    <3>3. CASE l = created + 1 /\ k \in subscribed
      BY <1>1, <1>10, <1>11, <1>4, <1>12, <2>7, <2>8, <3>3 DEF Same, IsNapi
    <3> QED
      BY <1>1, <2>8, <3>1, <3>2, <3>3
  <2> QED
    BY <2>2, <2>3, <2>4, <2>5, <2>6, <2>8 DEF MarksInv
<1> QED
  BY <1>1, <1>6, <1>7, <1>8, <1>9, <1>10, <1>14, Grows DEF TypeOK

LEMMA UpdateOnceFlagStep ==
    ASSUME EmitterInv, NEW l \in subscribed, NEW once \in BOOLEAN, UpdateOnceFlag(l, once),
           UNCHANGED <<enhanced, aniIds, events, queue, handover, calls, manager, aniQueue, inCall,
                       history, scenario>>
    PROVE  EmitterInv'
<1> USE DEF EmitterInv, handover, manager, history, inCall
<1>1. l \in 1 .. created /\ l \in Listeners /\ listener[l] \in Attributes
  BY RegisteredOnes DEF TypeOK, ListenerTypes
<1>2. /\ listener' = [listener EXCEPT ![l] = [listener[l] EXCEPT !.once = once]]
      /\ created' = created /\ subscribed' = subscribed
  BY DEF UpdateOnceFlag
<1>3. \A k \in Listeners : /\ listener'[k] \in Attributes \union {Unused}
                           /\ listener'[k] # Unused <=> listener[k] # Unused
                           /\ listener'[k].env = listener[k].env
                           /\ listener'[k].id = listener[k].id
                           /\ listener'[k].callback = listener[k].callback
                           /\ listener'[k].isDeleted = listener[k].isDeleted
  <2>1. \A k \in Listeners : listener'[k] = IF k = l THEN [listener[l] EXCEPT !.once = once]
                                            ELSE listener[k]
    BY <1>2 DEF TypeOK, ListenerTypes
  <2>2. /\ listener'[l] \in Attributes
        /\ listener'[l].env = listener[l].env /\ listener'[l].id = listener[l].id
        /\ listener'[l].callback = listener[l].callback
        /\ listener'[l].isDeleted = listener[l].isDeleted
    BY <1>1, <2>1 DEF Attributes
  <2> QED
    BY <1>1, <2>1, <2>2, UnusedIsNone DEF TypeOK, ListenerTypes, Attributes
<1>4. ListenerTypes'
  <2>1. listener' = [k \in Listeners |-> listener'[k]]
    BY <1>2 DEF TypeOK, ListenerTypes
  <2>2. listener' \in [Listeners -> Attributes \union {Unused}]
    BY <1>3, <2>1
  <2> QED
    BY <1>2, <1>3, <2>2 DEF TypeOK, ListenerTypes, Attributes, Listeners
<1>5. created \in Nat /\ Emitted \in Nat /\ Emitted' = Emitted
  BY NatFacts DEF Emitted
<1>6. EventTypes' /\ CallTypes'
  BY <1>2, <1>5, EventsUntouched, CallsUntouched DEF TypeOK, EventTypes, CallTypes
<1>7. MarksInv'
  <2>1. \A k \in Listeners : (Deleted(k)' <=> Deleted(k)) /\ (IsNapi(k)' <=> IsNapi(k))
    BY <1>3 DEF Deleted, IsNapi
  <2>2. subscribed \subseteq Listeners /\ 1 .. created \subseteq Listeners
    BY RegisteredOnes DEF TypeOK, ListenerTypes
  <2> QED
    BY <1>2, <1>3, <2>1, <2>2 DEF MarksInv, Same
<1>8. \A k \in 1 .. created : /\ listener'[k].env = listener[k].env
                              /\ listener'[k].isDeleted <=> listener[k].isDeleted
  BY <1>3, RegisteredOnes DEF TypeOK
<1> QED
  BY <1>2, <1>4, <1>5, <1>6, <1>7, <1>8, Grows DEF TypeOK

LEMMA OnOrOnceStep ==
    ASSUME EmitterInv, NEW id \in Ids, NEW cb \in Callbacks, NEW once \in BOOLEAN, NEW e \in Envs,
           \/ e \in JsEnvs /\ OnOrOnce(e, id, cb, once)
           \/ e \in AniEnvs /\ AniOnOrOnce(e, id, cb, once)
    PROVE  EmitterInv'
<1>1. CASE e \in JsEnvs /\ OnOrOnce(e, id, cb, once)
  <2>1. e \notin AniEnvs /\ aniIds' = aniIds /\ aniIds \subseteq Ids
    BY <1>1, EmitterAssumption DEF OnOrOnce, EmitterInv, TypeOK, ListenerTypes
  <2>2. CASE Known(e, id, cb) = {} /\ Register(e, id, cb, once)
    BY <1>1, <2>1, <2>2, RegisterStep DEF OnOrOnce
  <2>3. ASSUME NEW l \in Known(e, id, cb), UpdateOnceFlag(l, once) PROVE EmitterInv'
    <3>1. l \in subscribed
      BY DEF Known, Live, Napi
    <3> QED
      BY <1>1, <2>3, <3>1, UpdateOnceFlagStep DEF OnOrOnce
  <2> QED
    BY <1>1, <2>2, <2>3 DEF OnOrOnce
<1>2. CASE e \in AniEnvs /\ AniOnOrOnce(e, id, cb, once)
  <2>1. e \notin JsEnvs /\ enhanced /\ aniIds \subseteq Ids
    BY <1>2, EmitterAssumption DEF AniOnOrOnce, EmitterInv, TypeOK, ListenerTypes
  <2>2. CASE Register(e, id, cb, once) /\ aniIds' = aniIds \union {id}
    BY <1>2, <2>1, <2>2, RegisterStep DEF AniOnOrOnce, AniInsertCallbackInfo
  <2>3. ASSUME NEW l \in AniKnown(id, cb), UpdateOnceFlag(l, once), aniIds' = aniIds
        PROVE  EmitterInv'
    <3>1. l \in subscribed
      BY DEF AniKnown, Live, Ani
    <3> QED
      BY <1>2, <2>3, <3>1, UpdateOnceFlagStep DEF AniOnOrOnce, AniInsertCallbackInfo
  <2> QED
    BY <1>2, <2>2, <2>3 DEF AniOnOrOnce, AniInsertCallbackInfo
<1> QED
  BY <1>1, <1>2

LEMMA SendStep ==
    ASSUME EmitterInv, NEW id \in Ids, NEW priority \in Priorities, NEW isEnhanced \in BOOLEAN,
           NEW hasData \in BOOLEAN, NEW readers \in SUBSET {"napi", "ani"},
           Send(id, priority, isEnhanced, hasData, readers)
    PROVE  EmitterInv'
<1> USE DEF EmitterInv, containers, handover, manager, history, inCall
<1> DEFINE new == [id |-> id, priority |-> priority, isEnhanced |-> isEnhanced,
                   hasData |-> hasData, readers |-> readers, heardBy |-> created]
<1>1. /\ Emitted < scenario.events
      /\ events' = Append(events, new) /\ queue' = queue \union {Emitted + 1}
      /\ UNCHANGED <<enhanced, listener, created, subscribed, aniIds, dueUpTo, stage, handling,
                     todo, calls, taskData, taskRunning, needNotify, worker, everRun, aniQueue,
                     passed, running, reached, scenario>>
  BY DEF Send
<1>2. created \in Nat /\ Emitted \in Nat /\ Emitted < MaxEvents
  <2>1. created \in Nat /\ Emitted \in Nat
    BY NatFacts
  <2>2. scenario.events \in Nat /\ scenario.events <= MaxEvents
    BY ScenarioBounds
  <2> QED
    BY <1>1, <2>1, <2>2, Bounds
<1>3. new \in Event(created)
  BY <1>2 DEF Event
<1> HIDE DEF new
<1>4. events' \in Seq(Event(created)) /\ Emitted' = Emitted + 1
  BY <1>1, <1>3 DEF TypeOK, EventTypes, Event, Emitted
<1>5. ListenerTypes'
  BY <1>1, ListenersUntouched DEF TypeOK
<1>6. EventTypes'
  BY <1>1, <1>2, <1>4, Bounds DEF TypeOK, EventTypes, Event
<1>7. CallTypes'
  BY <1>1, <1>2, <1>4, CallsUntouched DEF TypeOK, CallTypes
<1>8. MarksInv'
  BY <1>1 DEF MarksInv, Same, IsNapi, Deleted, Listeners
<1> QED
  BY <1>1, <1>2, <1>4, <1>5, <1>6, <1>7, <1>8, Grows DEF TypeOK

LEMMA EmitStep ==
    ASSUME EmitterInv, NEW id \in Ids, NEW priority \in Priorities,
           JS_Emit(id, priority) \/ AniEmit(id, priority)
    PROVE  EmitterInv'
<1>1. /\ \A runtime, hasData : Serialized(id, runtime, hasData) \in SUBSET {"napi", "ani"}
      /\ scenario.data \subseteq BOOLEAN
  BY ScenarioBounds DEF Serialized, EmitterInv
<1>2. CASE EmitPlain(id, priority)
  BY <1>2, SendStep DEF EmitPlain
<1>3. CASE EmitEnhanced(id, priority)
  BY <1>1, <1>3, SendStep DEF EmitEnhanced, EmitWithEventData
<1>4. CASE AniEmit(id, priority)
  BY <1>1, <1>4, SendStep DEF AniEmit, EmitWithEventId
<1> QED
  BY <1>2, <1>3, <1>4 DEF JS_Emit

-----------------------------------------------------------------------------
(* The task of the FFRT queue *)

\* Deleted listeners are dropped, and a snapshot of the others may be taken.
LEMMA SnapshotStep ==
    ASSUME EmitterInv, UNCHANGED <<enhanced, listener, created, aniIds, events, calls, manager,
                                   aniQueue, passed, running, history, scenario>>,
           subscribed' \subseteq subscribed, \A l \in subscribed \ subscribed' : Deleted(l),
           \/ UNCHANGED <<queue, handover>>
           \/ /\ queue' \subseteq queue /\ handling' \in (1 .. Emitted) \ queue'
              /\ stage' \in {"napi", "ani"} /\ todo' \subseteq Live(subscribed)
              /\ stage' = "napi" => \A l \in todo' : IsNapi(l)
              /\ stage' = "ani" => \A l \in todo' : IsAni(l)
    PROVE  EmitterInv'
<1> USE DEF EmitterInv, handover, manager, history, inCall
<1>1. /\ Call' = Call /\ Emitted' = Emitted /\ created \in Nat /\ Emitted \in Nat
      /\ Emitted < Never /\ subscribed \subseteq 1 .. created
  BY NatFacts, Bounds DEF Call, Emitted, TypeOK, EventTypes, ListenerTypes
<1>2. \A l : (IsNapi(l)' <=> IsNapi(l)) /\ (IsAni(l)' <=> IsAni(l)) /\ (Deleted(l)' <=> Deleted(l))
  BY DEF IsNapi, IsAni, Deleted
<1>3. ListenerTypes'
  BY DEF TypeOK, ListenerTypes, Listeners
<1>4. todo' \subseteq 1 .. created
  BY <1>1 DEF Live, TypeOK, EventTypes
<1>5. EventTypes'
  <2>1. /\ queue' \subseteq 1 .. Emitted /\ handling' \in 0 .. Emitted
        /\ stage' \in {"idle", "napi", "ani", "start"} /\ (stage' = "idle" <=> handling' = 0)
    <3>1. CASE UNCHANGED <<queue, handover>>
      BY <3>1 DEF TypeOK, EventTypes
    <3>2. CASE /\ queue' \subseteq queue /\ handling' \in 1 .. Emitted
               /\ stage' \in {"napi", "ani"}
      BY <1>1, <3>2 DEF TypeOK, EventTypes
    <3> QED
      BY <3>1, <3>2
  <2> QED
    BY <1>1, <1>4, <2>1 DEF TypeOK, EventTypes
<1>6. CallTypes'
  BY <1>1, CallsUntouched DEF TypeOK, CallTypes
<1>7. MarksInv'
  BY <1>2 DEF MarksInv, Same, Listeners
<1>8. \A x \in Call : Carried(x)' => Carried(x)
  BY DEF Carried
<1>9. PlaceInv'
  BY <1>1, <1>2, <1>8 DEF PlaceInv
<1>10. \A l \in todo' : handling' <= dueUpTo[l] \/ (IsNapi(l) /\ Deleted(l))
  <2>1. CASE UNCHANGED <<queue, handover>>
    BY <2>1 DEF DueInv
  <2>2. CASE handling' \in 1 .. Emitted /\ todo' \subseteq Live(subscribed)
    <3>1. \A l \in todo' : dueUpTo[l] = Never
      BY <2>2 DEF Live, MarksInv
    <3> QED
      BY <1>1, <2>2, <3>1, Bounds
  <2> QED
    BY <2>1, <2>2
<1>11. DueInv'
  BY <1>1, <1>2, <1>8, <1>10 DEF DueInv
<1> QED
  BY <1>3, <1>5, <1>6, <1>7, <1>9, <1>11 DEF TypeOK

LEMMA GetListenerCountStep ==
    ASSUME EmitterInv, NEW id \in Ids, GetListenerCount(id) PROVE EmitterInv'
<1>1. subscribed' \subseteq subscribed /\ \A l \in subscribed \ subscribed' : Deleted(l)
  BY DEF GetListenerCount, Live
<1> QED
  BY <1>1, SnapshotStep DEF GetListenerCount, inCall

LEMMA ProcessEventStep == ASSUME EmitterInv, ProcessEvent PROVE EmitterInv'
<1>1. PICK n \in queue : /\ queue' = queue \ {n} /\ handling' = n /\ stage' = "napi"
                         /\ todo' = Live(Napi(events[n].id))
                         /\ subscribed' = subscribed \ (Napi(events[n].id) \ todo')
  BY DEF ProcessEvent
<1>2. subscribed' \subseteq subscribed /\ \A l \in subscribed \ subscribed' : Deleted(l)
  BY <1>1 DEF Live
<1>3. handling' \in (1 .. Emitted) \ queue' /\ queue' \subseteq queue
  BY <1>1 DEF EmitterInv, TypeOK, EventTypes
<1>4. todo' \subseteq Live(subscribed) /\ \A l \in todo' : IsNapi(l)
  BY <1>1 DEF Live, Napi
<1> QED
  BY <1>1, <1>2, <1>3, <1>4, SnapshotStep DEF ProcessEvent, inCall

LEMMA AniGetAsyncCallbackInfoStep == ASSUME EmitterInv, AniGetAsyncCallbackInfo PROVE EmitterInv'
<1> DEFINE id == events[handling].id
<1>1. /\ stage = "napi" /\ stage' = "ani" /\ todo' = Live(Ani(id)) /\ UNCHANGED <<queue, handling>>
      /\ subscribed' = subscribed \ (Ani(id) \ todo')
  BY DEF AniGetAsyncCallbackInfo
<1>2. subscribed' \subseteq subscribed /\ \A l \in subscribed \ subscribed' : Deleted(l)
  BY <1>1 DEF Live
<1>3. handling' \in (1 .. Emitted) \ queue' /\ queue' \subseteq queue
  BY <1>1, NatFacts DEF EmitterInv, TypeOK, EventTypes, PlaceInv
<1>4. todo' \subseteq Live(subscribed) /\ \A l \in todo' : IsAni(l)
  BY <1>1 DEF Live, Ani
<1> QED
  BY <1>1, <1>2, <1>3, <1>4, SnapshotStep DEF AniGetAsyncCallbackInfo, inCall

\* The last event that has been handled, while one is handled.
LEMMA LastOfHandled ==
    ASSUME EmitterInv, handling # 0
    PROVE  LastHandled \in Handled /\ \A n \in Handled : n <= LastHandled
<1>1. Handled \in SUBSET Nat /\ \A n \in Handled : n <= Emitted
  BY NatFacts DEF Handled, EmitterInv
<1>2. handling \in Handled
  BY NatFacts DEF Handled, EmitterInv, TypeOK, EventTypes, PlaceInv
<1>3. \E n \in Handled : \A m \in Handled : m <= n
  BY <1>1, <1>2, GreatestNat, NatFacts DEF EmitterInv
<1> QED
  BY <1>3 DEF LastHandled

LEMMA PushTaskDataTypes ==
    ASSUME TypeOK, NEW task \in Call, PushTaskData(task)
    PROVE  /\ taskData' \in Seq(Call)
           /\ worker' \in [Threads -> [at : Places, task : Call \union {NoCall}]]
           /\ \A t \in Threads : worker'[t].at = "send" => worker'[t].task # NoCall
           /\ \A i \in DOMAIN taskData' : taskData'[i] = task \/ Carried(taskData'[i])
           /\ \A t \in Threads : worker'[t].task = worker[t].task
<1>1. taskData' = Append(taskData, task) /\ taskData \in Seq(Call)
  BY NatFacts DEF PushTaskData
<1>2. ASSUME NEW i \in DOMAIN taskData'
      PROVE  taskData'[i] = task \/ Carried(taskData'[i])
  <2>1. \/ i = Len(taskData) + 1 /\ taskData'[i] = task
        \/ i \in DOMAIN taskData /\ taskData'[i] = taskData[i]
    BY <1>1, <1>2
  <2> QED
    BY <2>1 DEF Carried
<1>3. CASE worker' = worker
  BY <1>1, <1>2, <1>3 DEF TypeOK, CallTypes
<1>4. ASSUME NEW t \in Threads, worker' = [worker EXCEPT ![t].at = "woken"]
      PROVE  /\ worker' \in [Threads -> [at : Places, task : Call \union {NoCall}]]
             /\ \A u \in Threads : worker'[u].at = "send" => worker'[u].task # NoCall
             /\ \A u \in Threads : worker'[u].task = worker[u].task
  BY <1>4, WorkerAt DEF Places
<1> QED
  BY <1>1, <1>2, <1>3, <1>4 DEF PushTaskData

LEMMA AniDoCallbackStep == ASSUME EmitterInv, NEW l \in todo, AniDoCallback(l) PROVE EmitterInv'
<1> USE DEF EmitterInv
<1> DEFINE task == [listener |-> l, event |-> handling]
           used == IF listener[l].once THEN {l} ELSE {}
           last == LastHandled
<1>1. /\ stage = "ani" /\ stage' = "start" /\ todo' = todo \ {l}
      /\ LeaveWith(used, last) /\ PushTaskData(task)
      /\ UNCHANGED <<enhanced, created, subscribed, aniIds, events, queue, handling, calls,
                     taskRunning, needNotify, everRun, aniQueue, passed, running, reached,
                     scenario>>
  BY DEF AniDoCallback, inCall
<1>2. listener' = Marked(used)
  BY NoneMarked DEF AniDoCallback, TypeOK
<1>3. /\ l \in 1 .. created /\ IsAni(l) /\ handling \in 1 .. Emitted /\ handling \notin queue
      /\ 1 .. created \subseteq Listeners /\ Emitted \in Nat /\ created \in Nat
      /\ subscribed \subseteq 1 .. created
  BY <1>1, RegisteredOnes, NatFacts DEF TypeOK, EventTypes, PlaceInv, ListenerTypes
<1>4. last \in 1 .. Emitted /\ last < Never /\ last \in 0 .. Never
      /\ \A n \in (1 .. Emitted) \ queue : n <= last
  BY <1>3, LastOfHandled, Bounds DEF Handled, TypeOK, EventTypes
<1>5. task \in Call /\ used \in SUBSET (1 .. created) /\ task.listener = l /\ task.event = handling
  BY <1>3 DEF Call
<1> HIDE DEF task, last
<1>6. /\ taskData' \in Seq(Call)
      /\ worker' \in [Threads -> [at : Places, task : Call \union {NoCall}]]
      /\ \A t \in Threads : worker'[t].at = "send" => worker'[t].task # NoCall
      /\ \A i \in DOMAIN taskData' : taskData'[i] = task \/ Carried(taskData'[i])
      /\ \A t \in Threads : worker'[t].task = worker[t].task
  BY <1>1, <1>5, PushTaskDataTypes
<1>7. /\ \A k \in Listeners : /\ listener'[k].env = listener[k].env
                              /\ listener'[k].id = listener[k].id
                              /\ listener'[k].callback = listener[k].callback
                              /\ Deleted(k)' <=> k \in used \/ Deleted(k)
      /\ \A k \in Listeners : dueUpTo'[k] = IF k \in used /\ dueUpTo[k] = Never THEN last
                                            ELSE dueUpTo[k]
  BY <1>1, <1>2, <1>5, MarkedListeners DEF Deleted, LeaveWith, TypeOK
<1>8. ListenerTypes'
  <2>1. dueUpTo' \in [Listeners -> 0 .. Never]
    BY <1>1, <1>4, LeaveWithType DEF TypeOK
  <2> QED
    BY <1>1, <1>2, <1>5, <2>1, ListenersMarked DEF TypeOK
<1>9. EventTypes'
  BY <1>1, <1>3 DEF TypeOK, EventTypes, Emitted
<1>10. CallTypes'
  <2>1. Call' = Call /\ Emitted' = Emitted /\ Listeners' = Listeners
    BY <1>1 DEF Call, Emitted, Listeners
  <2> QED
    BY <1>1, <1>6, <2>1 DEF TypeOK, CallTypes, NoCall
<1> HIDE DEF used
<1>11. \A k \in Listeners : (IsNapi(k)' <=> IsNapi(k)) /\ (IsAni(k)' <=> IsAni(k))
  BY <1>7 DEF IsNapi, IsAni
<1>12. \A k \in Listeners : k \in used => k = l /\ ~IsNapi(k)
  BY <1>3, EmitterAssumption DEF used, IsNapi, IsAni
<1>13. MarksInv'
  <2>1. \A k \in Listeners : dueUpTo'[k] # Never <=> k \in used \/ dueUpTo[k] # Never
    BY <1>4, <1>7, Bounds
  <2>2. \A k \in subscribed : Deleted(k)' <=> dueUpTo'[k] # Never
    BY <1>3, <1>7, <2>1 DEF MarksInv
  <2>3. \A k \in subscribed : IsNapi(k)' => ~Deleted(k)'
    BY <1>3, <1>7, <1>11, <1>12 DEF MarksInv
  <2>4. \A k \in (1 .. created) \ subscribed : Deleted(k)' \/ dueUpTo'[k] # Never
    BY <1>3, <1>7, <2>1 DEF MarksInv
  <2>5. \A k \in Listeners : k > created => dueUpTo'[k] = Never
    BY <1>3, <1>7, <1>12 DEF MarksInv
  <2>6. ~enhanced => \A k \in 1 .. created : IsNapi(k)'
    BY <1>3, <1>11 DEF MarksInv
  <2>7. ASSUME NEW j \in subscribed, NEW k \in subscribed, IsNapi(j)', Same(j, k)'
        PROVE  j = k
    <3>1. j \in Listeners /\ k \in Listeners
      BY <1>3
    <3>2. IsNapi(j)
      BY <1>11, <2>7, <3>1
    <3>3. Same(j, k)
      BY <1>7, <2>7, <3>1 DEF Same
    <3> QED
      BY <3>2, <3>3 DEF MarksInv
  <2>8. Listeners' = Listeners
    BY DEF Listeners
  <2> QED
    BY <1>1, <2>2, <2>3, <2>4, <2>5, <2>6, <2>7, <2>8 DEF MarksInv
<1>14. Call' = Call /\ \A x \in Call : Carried(x)' => Carried(x) \/ x = task
  BY <1>1, <1>6 DEF Call, Emitted, Carried
<1>15. \A x \in Call : x.listener \in Listeners /\ x.event \in 1 .. Emitted
  BY <1>3 DEF Call
<1>16. PlaceInv'
  <2>1. \A x \in Call : Carried(x)' => IsAni(x.listener)' /\ x.event \notin queue
    BY <1>3, <1>5, <1>11, <1>14, <1>15 DEF PlaceInv
  <2>2. /\ \A e \in JsEnvs : running[e] # NoCall => running[e].listener \in Listeners
        /\ \A e \in JsEnvs : passed[e] # NoCall => passed[e].listener \in Listeners
    BY <1>15 DEF TypeOK, CallTypes, Envs
  <2>3. \A k \in todo' : k \in Listeners /\ IsAni(k)
    BY <1>1, <1>3 DEF PlaceInv, TypeOK, EventTypes
  <2> QED
    BY <1>1, <1>7, <1>11, <1>14, <2>1, <2>2, <2>3 DEF PlaceInv
<1>17. DueInv'
  <2>1. ASSUME NEW x \in Call, Carried(x)' PROVE x.event <= dueUpTo'[x.listener]
    <3>1. x.listener \in Listeners /\ x.event \in (1 .. Emitted) \ queue
      BY <1>3, <1>5, <1>14, <1>15, <2>1 DEF PlaceInv
    <3>2. x.event <= last
      BY <1>4, <3>1
    <3>3. x.event <= dueUpTo[x.listener]
      <4>1. CASE Carried(x)
        BY <4>1 DEF DueInv
      <4>2. CASE x = task
        BY <1>3, <1>5, <4>2, EmitterAssumption DEF DueInv, IsNapi, IsAni
      <4> QED
        BY <1>14, <2>1, <4>1, <4>2
    <3> QED
      BY <1>7, <3>1, <3>2, <3>3
  <2>2. ASSUME NEW k \in todo' PROVE handling <= dueUpTo'[k] \/ (IsNapi(k)' /\ Deleted(k)')
    <3>1. k \in todo /\ k # l /\ k \in Listeners
      BY <1>1, <1>3, <2>2 DEF TypeOK, EventTypes
    <3> QED
      BY <1>7, <1>11, <1>12, <3>1 DEF DueInv
  <2>3. ASSUME NEW k \in 1 .. created, IsNapi(k)', ~Deleted(k)'
        PROVE  \A i \in DOMAIN calls[k] : calls[k][i] <= dueUpTo'[k]
    BY <1>3, <1>7, <1>11, <1>12, <2>3 DEF DueInv
  <2> QED
    BY <1>1, <1>14, <2>1, <2>2, <2>3 DEF DueInv
<1> QED
  BY <1>8, <1>9, <1>10, <1>13, <1>16, <1>17 DEF TypeOK

-----------------------------------------------------------------------------
(* The end of a call on a JavaScript thread *)

\* The listener leaves with the event last if it is a once-listener; gone is marked.
LEMMA CallReturns ==
    ASSUME EmitterInv, NEW e \in JsEnvs, running[e] # NoCall,
           NEW gone \in SUBSET (1 .. created), listener' = Marked(gone),
           subscribed' \subseteq subscribed, gone \intersect subscribed' = {},
           NEW left, left = IF listener[running[e].listener].once THEN {running[e].listener} ELSE {},
           NEW last \in 0 .. Emitted, LeaveWith(left, last),
           subscribed \ subscribed' \subseteq gone \union left, left \intersect subscribed' = {},
           dueUpTo[running[e].listener] # Never \/ last = Emitted
               \/ (left # {} => listener'[running[e].listener].isDeleted),
           running' = [running EXCEPT ![e] = NoCall],
           UNCHANGED <<enhanced, created, aniIds, events, queue, handover, calls, manager, aniQueue,
                       passed, reached, scenario>>
    PROVE  EmitterInv'
<1> USE DEF EmitterInv, handover, manager
<1> DEFINE l == running[e].listener
<1>1. /\ l \in 1 .. created /\ listener[l].env = e
      /\ 1 .. created \subseteq Listeners /\ Emitted \in Nat /\ created \in Nat
      /\ subscribed \subseteq 1 .. created /\ e \in Envs
  BY RegisteredOnes, NatFacts DEF TypeOK, CallTypes, Call, Envs, PlaceInv, ListenerTypes
<1>2. IsNapi(l) /\ ~IsAni(l) /\ left \subseteq {l}
  BY <1>1, EmitterAssumption DEF IsNapi, IsAni
<1>3. last < Never /\ last \in 0 .. Never /\ Emitted < Never
  BY <1>1, Bounds DEF TypeOK, EventTypes
<1>4. /\ \A k \in Listeners : /\ listener'[k].env = listener[k].env
                              /\ listener'[k].id = listener[k].id
                              /\ listener'[k].callback = listener[k].callback
                              /\ Deleted(k)' <=> k \in gone \/ Deleted(k)
      /\ \A k \in Listeners : dueUpTo'[k] = IF k \in left /\ dueUpTo[k] = Never THEN last
                                            ELSE dueUpTo[k]
  BY MarkedListeners DEF Deleted, LeaveWith, TypeOK
<1>5. \A k \in Listeners : (IsNapi(k)' <=> IsNapi(k)) /\ (IsAni(k)' <=> IsAni(k))
  BY <1>4 DEF IsNapi, IsAni
<1>6. Call' = Call /\ Emitted' = Emitted /\ Listeners' = Listeners
      /\ \A x : Carried(x)' <=> Carried(x)
  BY DEF Call, Emitted, Listeners, Carried
<1>7. TypeOK'
  <2>1. dueUpTo' \in [Listeners -> 0 .. Never]
    BY <1>3, LeaveWithType DEF TypeOK
  <2>2. ListenerTypes'
    BY <2>1, ListenersMarked DEF TypeOK
  <2>3. EventTypes'
    BY <1>6 DEF TypeOK, EventTypes
  <2>4. CallTypes'
    BY <1>6 DEF TypeOK, CallTypes, NoCall
  <2> QED
    BY <2>2, <2>3, <2>4 DEF TypeOK
<1> HIDE DEF l
<1>8. \A k \in Listeners : dueUpTo'[k] # Never <=> k \in left \/ dueUpTo[k] # Never
  BY <1>3, <1>4, Bounds
<1>9. MarksInv'
  <2>1. \A k \in subscribed' : Deleted(k)' <=> dueUpTo'[k] # Never
    BY <1>1, <1>4, <1>8 DEF MarksInv
  <2>2. \A k \in subscribed' : IsNapi(k)' => ~Deleted(k)'
    BY <1>1, <1>4, <1>5 DEF MarksInv
  <2>3. \A k \in (1 .. created) \ subscribed' : Deleted(k)' \/ dueUpTo'[k] # Never
    BY <1>1, <1>4, <1>8 DEF MarksInv
  <2>4. \A k \in Listeners : k > created => dueUpTo'[k] = Never
    BY <1>1, <1>2, <1>4 DEF MarksInv
  <2>5. ~enhanced => \A k \in 1 .. created : IsNapi(k)'
    BY <1>1, <1>5 DEF MarksInv
  <2>6. \A j, k \in subscribed' : IsNapi(j)' /\ Same(j, k)' => j = k
    BY <1>1, <1>4, <1>5 DEF MarksInv, Same
  <2> QED
    BY <1>6, <2>1, <2>2, <2>3, <2>4, <2>5, <2>6 DEF MarksInv
<1>10. \A x \in Call : x.listener \in Listeners
  BY <1>1 DEF Call
<1>11. /\ \A f \in JsEnvs : running'[f] # NoCall => running[f] # NoCall /\ running'[f] = running[f]
       /\ \A f \in JsEnvs : running[f] # NoCall => running[f].listener \in Listeners
       /\ \A f \in JsEnvs : passed[f] # NoCall => passed[f].listener \in Listeners
  BY <1>1, <1>10 DEF TypeOK, CallTypes, Envs
<1>12. todo \subseteq Listeners
  BY <1>1 DEF TypeOK, EventTypes
<1>13. PlaceInv'
  BY <1>4, <1>5, <1>6, <1>10, <1>11, <1>12 DEF PlaceInv
<1>14. DueInv'
  <2>1. \A k \in Listeners : k # l => dueUpTo'[k] = dueUpTo[k]
    BY <1>2, <1>4
  <2>2. dueUpTo'[l] = dueUpTo[l] \/ dueUpTo'[l] = Emitted \/ listener'[l].isDeleted
    BY <1>1, <1>4 DEF l
  <2>3. \A x \in Call : Carried(x) => x.event <= dueUpTo'[x.listener]
    BY <1>2, <1>10, <2>1 DEF DueInv, PlaceInv
  <2>4. \A k \in todo : handling <= dueUpTo'[k] \/ (IsNapi(k)' /\ Deleted(k)')
    <3>1. handling <= Emitted
      BY <1>1 DEF TypeOK, EventTypes
    <3>2. ASSUME NEW k \in todo, k # l
          PROVE  handling <= dueUpTo'[k] \/ (IsNapi(k)' /\ Deleted(k)')
      BY <1>4, <1>5, <1>12, <2>1, <3>2 DEF DueInv
    <3>3. ASSUME NEW k \in todo, k = l
          PROVE  handling <= dueUpTo'[k] \/ (IsNapi(k)' /\ Deleted(k)')
      <4>1. IsNapi(k)' /\ (Deleted(k)' <=> listener'[k].isDeleted)
        BY <1>2, <1>5, <1>12, <3>3 DEF Deleted
      <4> QED
        BY <1>4, <1>12, <2>2, <3>1, <3>3, <4>1 DEF DueInv
    <3> QED
      BY <3>2, <3>3
  <2>5. ASSUME NEW k \in 1 .. created, IsNapi(k)', ~Deleted(k)', NEW i \in DOMAIN calls[k]
        PROVE  calls[k][i] <= dueUpTo'[k]
    <3>1. k \in Listeners /\ IsNapi(k) /\ ~Deleted(k)
      BY <1>1, <1>4, <1>5, <2>5
    <3>2. calls[k] \in Seq(1 .. Emitted) /\ calls[k][i] <= dueUpTo[k]
      BY <2>5, <3>1 DEF TypeOK, CallTypes, DueInv
    <3>3. calls[k][i] \in 1 .. Emitted
      BY <2>5, <3>2, Elements
    <3>4. Deleted(k)' <=> listener'[k].isDeleted
      BY DEF Deleted
    <3> QED
      BY <1>1, <2>1, <2>2, <2>5, <3>1, <3>2, <3>3, <3>4
  <2> QED
    BY <1>6, <2>3, <2>4, <2>5 DEF DueInv
<1> QED
  BY <1>7, <1>9, <1>13, <1>14

LEMMA ProcessCallbackStep ==
    ASSUME EmitterInv, NEW e \in JsEnvs, ProcessCallback(e) PROVE EmitterInv'
<1> DEFINE left == IF listener[running[e].listener].once THEN {running[e].listener} ELSE {}
<1>1. listener' = Marked({}) /\ Emitted \in 0 .. Emitted
  BY NoneMarked, NatFacts DEF ProcessCallback, EmitterInv, TypeOK
<1>2. /\ running[e] # NoCall /\ subscribed' = subscribed \ left /\ LeaveWith(left, Emitted)
      /\ running' = [running EXCEPT ![e] = NoCall]
      /\ UNCHANGED <<enhanced, created, aniIds, events, queue, handover, calls, manager, aniQueue,
                     passed, reached, scenario>>
  BY DEF ProcessCallback, UsedUp
<1> HIDE DEF left
<1> QED
  BY <1>1, <1>2, CallReturns DEF left

\* What an enhanced call takes out of the containers when it returns.
LEMMA CallbackTakesOut ==
    ASSUME EmitterInv, NEW e \in JsEnvs, ProcessCallbackEnhanced(e)
    PROVE  LET l == running[e].listener
               left == IF listener[l].once THEN {l} ELSE {}
           IN  /\ running[e] # NoCall /\ running[e].event \in 0 .. Emitted
               /\ LeaveWith(left, running[e].event)
               /\ l \in subscribed => left \intersect subscribed' = {}
               /\ \E gone \in SUBSET (1 .. created) :
                      /\ listener' = Marked(gone) /\ subscribed' = subscribed \ gone
                      /\ left # {} => listener'[l].isDeleted \/ dueUpTo[l] # Never
                      /\ gone # {} => left # {}
                      /\ \A k \in gone : listener[k].callback = listener[l].callback
<1> USE DEF EmitterInv
<1> DEFINE l == running[e].listener
           left == IF listener[l].once THEN {l} ELSE {}
           same == {k \in Napi(listener[l].id) :
                       listener[k].env = e /\ listener[k].callback = listener[l].callback}
<1>1. /\ running[e] # NoCall /\ LeaveWith(left, running[e].event)
      /\ \/ (listener[l].once => same = {}) /\ UNCHANGED <<listener, subscribed>>
         \/ /\ listener[l].once
            /\ \E k \in same : listener' = Marked({k}) /\ subscribed' = subscribed \ {k}
  BY DEF ProcessCallbackEnhanced, UsedUp
<1>2. /\ l \in 1 .. created /\ listener[l].env = e /\ running[e].event \in 0 .. Emitted
      /\ subscribed \subseteq 1 .. created /\ IsNapi(l) /\ l \in Listeners
  BY <1>1, RegisteredOnes, NatFacts
  DEF TypeOK, CallTypes, Call, Envs, PlaceInv, ListenerTypes, IsNapi
<1>3. l \in subscribed => l \in same
  BY <1>2 DEF Napi
<1>4. same \subseteq subscribed /\ \A k \in same : IsNapi(k) /\ Same(k, l)
  BY <1>2 DEF Napi, Same
<1>5. l \in subscribed => \A k \in same : k = l
  BY <1>4 DEF MarksInv
<1>6. l \notin subscribed => Deleted(l) \/ dueUpTo[l] # Never
  BY <1>2 DEF MarksInv
<1>7. CASE (listener[l].once => same = {}) /\ UNCHANGED <<listener, subscribed>>
  <2>1. listener' = Marked({}) /\ subscribed' = subscribed \ {}
    BY <1>7, NoneMarked DEF TypeOK
  <2>2. left # {} => l \notin subscribed
    BY <1>3, <1>7
  <2>3. listener'[l].isDeleted <=> Deleted(l)
    BY <1>7 DEF Deleted
  <2> QED
    BY <1>1, <1>2, <1>6, <2>1, <2>2, <2>3
<1>8. ASSUME listener[l].once, NEW k \in same, listener' = Marked({k}), subscribed' = subscribed \ {k}
      PROVE  /\ l \in subscribed => left \intersect subscribed' = {}
             /\ listener'[l].isDeleted \/ dueUpTo[l] # Never
             /\ {k} \in SUBSET (1 .. created)
             /\ listener[k].callback = listener[l].callback
  <2>1. {k} \in SUBSET (1 .. created)
    BY <1>2, <1>4
  <2>2. \A j \in Listeners : Marked({k})[j].isDeleted <=> j \in {k} \/ Deleted(j)
    BY <2>1, MarkedListeners DEF TypeOK
  <2>3. listener'[l].isDeleted <=> l = k \/ Deleted(l)
    BY <1>2, <1>8, <2>2
  <2> QED
    BY <1>5, <1>6, <1>8, <2>1, <2>3
<1>9. CASE /\ listener[l].once
           /\ \E k \in same : listener' = Marked({k}) /\ subscribed' = subscribed \ {k}
  <2>1. PICK k \in same : listener' = Marked({k}) /\ subscribed' = subscribed \ {k}
    BY <1>9
  <2> HIDE DEF same
  <2> QED
    BY <1>1, <1>2, <1>8, <1>9, <2>1
<1> QED
  BY <1>1, <1>7, <1>9

LEMMA ProcessCallbackEnhancedStep ==
    ASSUME EmitterInv, NEW e \in JsEnvs, ProcessCallbackEnhanced(e) PROVE EmitterInv'
<1> DEFINE l == running[e].listener
           left == IF listener[l].once THEN {l} ELSE {}
<1>1. /\ running[e] # NoCall /\ running[e].event \in 0 .. Emitted
      /\ LeaveWith(left, running[e].event)
      /\ l \in subscribed => left \intersect subscribed' = {}
      /\ \E gone \in SUBSET (1 .. created) :
             /\ listener' = Marked(gone) /\ subscribed' = subscribed \ gone
             /\ left # {} => listener'[l].isDeleted \/ dueUpTo[l] # Never
  BY CallbackTakesOut
<1>2. PICK gone \in SUBSET (1 .. created) :
             /\ listener' = Marked(gone) /\ subscribed' = subscribed \ gone
             /\ left # {} => listener'[l].isDeleted \/ dueUpTo[l] # Never
  BY <1>1
<1>3. /\ running' = [running EXCEPT ![e] = NoCall]
      /\ UNCHANGED <<enhanced, created, aniIds, events, queue, handover, calls, manager, aniQueue,
                     passed, reached, scenario>>
  BY DEF ProcessCallbackEnhanced
<1>4. left \intersect subscribed' = {}
  BY <1>1, <1>2
<1> HIDE DEF left
<1>5. dueUpTo[l] # Never \/ running[e].event = Emitted \/ (left # {} => listener'[l].isDeleted)
  BY <1>2
<1> QED
  BY <1>1, <1>2, <1>3, <1>4, <1>5, CallReturns DEF left

-----------------------------------------------------------------------------
(* The theorems *)

LEMMA InitInv == Init => EmitterInv
<1> SUFFICES ASSUME Init PROVE EmitterInv
  OBVIOUS
<1>1. \A l \in Listeners : l > 0 /\ listener[l] = Unused
  BY Bounds DEF Init, Listeners
<1>2. Emitted = 0
  BY DEF Init, Emitted
<1>3. ListenerTypes
  BY <1>1, Bounds DEF Init, ListenerTypes, Listeners
<1>4. EventTypes
  <2>1. events = <<>> /\ created = 0 /\ queue = {} /\ todo = {} /\ handling = 0 /\ stage = "idle"
        /\ enhanced = FALSE
    BY DEF Init
  <2>2. <<>> \in Seq(Event(created))
    OBVIOUS
  <2>3. events \in Seq([id : Ids, priority : Priorities, isEnhanced : BOOLEAN,
                        hasData : BOOLEAN, readers : SUBSET {"napi", "ani"},
                        heardBy : 0 .. created])
    BY <2>1, <2>2 DEF Event
  <2>4. Emitted <= MaxEvents /\ handling \in 0 .. Emitted
    BY <1>2, <2>1, Bounds
  <2>5. (stage = "idle" <=> handling = 0) /\ stage \in {"idle", "napi", "ani", "start"}
    BY <2>1
  <2>6. /\ queue \subseteq 1 .. Emitted /\ todo \subseteq 1 .. created
        /\ enhanced \in BOOLEAN /\ scenario \in Scenarios
    BY <2>1 DEF Init
  <2> QED
    BY <2>3, <2>4, <2>5, <2>6 DEF EventTypes
<1>5. CallTypes
  <2>1. \A S : <<>> \in Seq(S)
    OBVIOUS
  <2>2. /\ calls \in [Listeners -> Seq(1 .. Emitted)] /\ taskData \in Seq(Call)
        /\ aniQueue \in [AniEnvs -> Seq(Call)]
    BY <2>1 DEF Init
  <2>3. /\ running \in [Envs -> Call \union {NoCall}]
        /\ passed \in [JsEnvs -> Call \union {NoCall}]
        /\ worker \in [Threads -> [at : Places, task : Call \union {NoCall}]]
        /\ \A t \in Threads : worker[t].at = "none"
    BY DEF Init, Places
  <2>4. taskRunning = FALSE /\ needNotify = FALSE /\ everRun = FALSE /\ reached = {}
    BY DEF Init
  <2> QED
    BY <2>2, <2>3, <2>4 DEF CallTypes
<1>6. ASSUME NEW x, Carried(x) PROVE x = NoCall
  BY <1>6 DEF Carried, Init
<1>7. \A x \in Call : x # NoCall
  BY <1>3, <1>4, <1>5, NatFacts DEF TypeOK
<1>8. MarksInv
  BY DEF Init, MarksInv
<1>9. PlaceInv
  BY <1>6, <1>7 DEF Init, PlaceInv, Envs
<1>10. DueInv
  BY <1>6, <1>7 DEF Init, DueInv
<1> QED
  BY <1>3, <1>4, <1>5, <1>8, <1>9, <1>10 DEF EmitterInv, TypeOK

LEMMA NextInv == EmitterInv /\ [Next]_vars => EmitterInv'
<1> SUFFICES ASSUME EmitterInv, [Next]_vars PROVE EmitterInv'
  OBVIOUS
<1>1. CASE UNCHANGED vars
  <2>1. UNCHANGED <<enhanced, containers, events, queue, handover, calls, manager, aniQueue, inCall,
                    history, scenario>>
    BY <1>1 DEF vars
  <2> QED
    BY <2>1, SnapshotStep DEF containers, inCall
<1>2. CASE AgentInit
  BY <1>2, AgentInitStep
<1>3. CASE Function
  <2>1. ASSUME NEW id \in Ids,
               \/ JS_Off(id) \/ AniOff(id) \/ GetListenerCount(id)
               \/ \E priority \in Priorities : JS_Emit(id, priority) \/ AniEmit(id, priority)
        PROVE  EmitterInv'
    <3>1. CASE JS_Off(id) \/ AniOff(id)
      BY <3>1, OffRetires, RetireStep DEF Retires, EmitterInv
    <3> QED
      BY <2>1, <3>1, GetListenerCountStep, EmitStep
  <2>2. ASSUME NEW id \in Ids, NEW cb \in Callbacks,
               \/ AniOffCallback(id, cb)
               \/ \E e \in JsEnvs : OffCallback(e, id, cb)
        PROVE  EmitterInv'
    BY <2>2, OffRetires, RetireStep DEF Retires, EmitterInv
  <2>3. ASSUME NEW id \in Ids, NEW cb \in Callbacks, NEW once \in BOOLEAN,
               \/ \E e \in JsEnvs : OnOrOnce(e, id, cb, once)
               \/ \E w \in AniEnvs : AniOnOrOnce(w, id, cb, once)
        PROVE  EmitterInv'
    BY <2>3, OnOrOnceStep DEF Envs
  <2>4. ASSUME NEW o \in Objects, DeleteEmitterInstance(o) \/ AniCleanCallbackInfo(o)
        PROVE  EmitterInv'
    BY <2>4, OffRetires, RetireStep DEF Retires, EmitterInv
  <2> QED
    BY <1>3, <2>1, <2>2, <2>3, <2>4 DEF Function, JsFunction, AniFunction
<1>4. CASE FfrtTask
  <2>1. ASSUME NEW l \in todo, ProcessEventCallbacks(l) \/ NapiDoCallback(l) \/ AniDoCallback(l)
        PROVE  EmitterInv'
    BY <2>1, CallThreadsafeFunctionStep, AniDoCallbackStep DEF ProcessEventCallbacks, NapiDoCallback
  <2> QED
    BY <1>4, <2>1, ProcessEventStep, AniGetAsyncCallbackInfoStep, StartThreadStep, EndOfEventStep
    DEF FfrtTask
<1>5. ASSUME NEW t \in Threads, WorkTheadFunction(t) PROVE EmitterInv'
  BY <1>5, LoopStep, PopTaskDataStep, SendEventDataStep DEF WorkTheadFunction
<1>6. ASSUME NEW e \in Envs, Callback(e) PROVE EmitterInv'
  BY <1>6, WorkFunctionStep, WorkFunctionReturnsStep, ThreadSafeCallbackStep, CallFunctionStep,
     ProcessCallbackStep, ProcessCallbackEnhancedStep DEF Callback
<1> QED
  BY <1>1, <1>2, <1>3, <1>4, <1>5, <1>6 DEF Next

THEOREM Invariance == Spec => []EmitterInv
  BY InitInv, NextInv, PTL DEF Spec

\* The types: every call in flight is of a listener and an event there are, through every
\* handover from emit to the listener (AsyncCallbackManager, AniAsyncCallbackManager).
THEOREM TypesHold == Spec => []TypeOK
<1>1. EmitterInv => TypeOK
  BY DEF EmitterInv
<1> QED
  BY <1>1, Invariance, PTL

\* A call is prepared, and starts, on the thread it is for, and nowhere else.
LEMMA WhoCalls ==
    ASSUME EmitterInv, [Next]_vars, ~UNCHANGED <<passed, reached>>
    PROVE  \/ \E w \in AniEnvs : WorkFunction(w)
           \/ \E e \in JsEnvs : ThreadSafeCallback(e) \/ CallFunction(e)
<1>1. CASE UNCHANGED vars \/ AgentInit
  BY <1>1 DEF vars, history, inCall, AgentInit
<1>2. CASE Function
  <2>1. CASE Retires
    BY <2>1 DEF Retires, Retire
  <2>2. ASSUME NEW id \in Ids, GetListenerCount(id) PROVE FALSE
    BY <2>2 DEF GetListenerCount, history, inCall
  <2>3. ASSUME NEW id \in Ids, NEW priority \in Priorities,
               JS_Emit(id, priority) \/ AniEmit(id, priority)
        PROVE  FALSE
    BY <2>3 DEF JS_Emit, EmitPlain, EmitEnhanced, EmitWithEventData, AniEmit, EmitWithEventId, Send,
                history, inCall
  <2>4. ASSUME NEW id \in Ids, NEW cb \in Callbacks, NEW once \in BOOLEAN,
               \/ \E e \in JsEnvs : OnOrOnce(e, id, cb, once)
               \/ \E w \in AniEnvs : AniOnOrOnce(w, id, cb, once)
        PROVE  FALSE
    BY <2>4 DEF OnOrOnce, AniOnOrOnce, AniInsertCallbackInfo, history, inCall
  <2> QED
    BY <1>2, <2>1, <2>2, <2>3, <2>4, OffRetires
    DEF Function, JsFunction, AniFunction, EmitterInv
<1>3. CASE FfrtTask
  <2>1. ASSUME ProcessEvent \/ AniGetAsyncCallbackInfo \/ StartThread \/ EndOfEvent PROVE FALSE
    BY <2>1 DEF ProcessEvent, AniGetAsyncCallbackInfo, StartThread, EndOfEvent, history, inCall
  <2>2. ASSUME NEW l \in todo, CallThreadsafeFunction(l) \/ AniDoCallback(l) PROVE FALSE
    BY <2>2 DEF CallThreadsafeFunction, AniDoCallback, history, inCall
  <2> QED
    BY <1>3, <2>1, <2>2 DEF FfrtTask, ProcessEventCallbacks, NapiDoCallback
<1>4. ASSUME NEW t \in Threads, WorkTheadFunction(t) PROVE FALSE
  BY <1>4 DEF WorkTheadFunction, AttachCurrentThread, Loop, WaitForTask, PopTaskData, SendEventData,
              AfterSend, history, inCall
<1>5. ASSUME NEW e \in Envs, Callback(e)
      PROVE  \/ e \in AniEnvs /\ WorkFunction(e)
             \/ e \in JsEnvs /\ (ThreadSafeCallback(e) \/ CallFunction(e))
  BY <1>5 DEF Callback, WorkFunctionReturns, ProcessCallback, ProcessCallbackEnhanced, history
<1> QED
  BY <1>1, <1>2, <1>3, <1>4, <1>5 DEF Next

\* The calls that start in a step are due before it, or were found to be when they were
\* prepared.
LEMMA StartedIsDue ==
    ASSUME EmitterInv, [Next]_vars, NEW l \in Listeners, NEW n \in Numbers,
           <<l, n>> \in reached' \ reached
    PROVE  Prepared(l, n) \/ n <= dueUpTo[l]
<1> USE DEF EmitterInv
<1>1. \/ \E w \in AniEnvs : WorkFunction(w)
      \/ \E e \in JsEnvs : ThreadSafeCallback(e) \/ CallFunction(e)
  BY WhoCalls
<1>2. ASSUME NEW w \in AniEnvs, WorkFunction(w) PROVE n <= dueUpTo[l]
  <2>1. /\ aniQueue[w] # <<>>
        /\ l = Head(aniQueue[w]).listener /\ n = Head(aniQueue[w]).event
    BY <1>2 DEF WorkFunction
  <2>2. Head(aniQueue[w]) \in Call /\ Carried(Head(aniQueue[w]))
    BY <1>2, <2>1, NatFacts, HeadAndTail DEF Carried
  <2> QED
    BY <2>1, <2>2 DEF DueInv
<1>3. ASSUME NEW e \in JsEnvs, CallFunction(e) PROVE Prepared(l, n)
  <2>1. passed[e] # NoCall /\ <<l, n>> = <<passed[e].listener, passed[e].event>>
    BY <1>3 DEF CallFunction
  <2>2. passed[e] \in Call
    BY <2>1 DEF TypeOK, CallTypes
  <2>3. passed[e] = [listener |-> l, event |-> n]
    BY <2>1, <2>2 DEF Call
  <2> QED
    BY <2>3 DEF Prepared
<1>4. ASSUME NEW e \in JsEnvs, ThreadSafeCallback(e) PROVE FALSE
  BY <1>4 DEF ThreadSafeCallback, history
<1> QED
  BY <1>1, <1>2, <1>3, <1>4

\* A call that a step starts to prepare is due.
LEMMA PreparedIsDue ==
    ASSUME EmitterInv, [Next]_vars, NEW l \in Listeners, NEW n \in Numbers,
           Prepared(l, n)', ~Prepared(l, n)
    PROVE  n <= dueUpTo[l]
<1> USE DEF EmitterInv
<1>1. PICK e \in JsEnvs : passed'[e] = [listener |-> l, event |-> n]
  BY DEF Prepared
<1>2. passed'[e] # passed[e] /\ passed'[e] # NoCall
  BY <1>1, Bounds DEF Prepared, NoCall, Listeners
<1>3. \/ \E w \in AniEnvs : WorkFunction(w)
      \/ \E f \in JsEnvs : ThreadSafeCallback(f) \/ CallFunction(f)
  BY <1>2, WhoCalls
<1>4. ASSUME NEW f \in JsEnvs, ThreadSafeCallback(f) PROVE n <= dueUpTo[l]
  <2>1. PICK k \in Listeners :
            /\ listener[k].env = f /\ calls[k] # <<>>
            /\ passed' = IF Deleted(k) THEN passed
                         ELSE [passed EXCEPT ![f] = [listener |-> k, event |-> Head(calls[k])]]
    BY <1>4 DEF ThreadSafeCallback
  <2>2. ~Deleted(k) /\ passed'[e] = [listener |-> k, event |-> Head(calls[k])]
    BY <1>2, <2>1 DEF TypeOK, CallTypes
  <2>3. l = k /\ n = Head(calls[k])
    BY <1>1, <2>2
  <2>4. calls[k] \in Seq(1 .. Emitted)
    BY DEF TypeOK, CallTypes
  <2>5. 1 \in DOMAIN calls[k] /\ Head(calls[k]) = calls[k][1]
    BY <2>1, <2>4, HeadAndTail
  <2>6. k \in 1 .. created /\ IsNapi(k)
    BY <2>1, RegisteredOnes DEF IsNapi, TypeOK, Envs
  <2> QED
    BY <2>2, <2>3, <2>5, <2>6 DEF DueInv
<1>5. ASSUME NEW f \in JsEnvs, CallFunction(f) PROVE FALSE
  BY <1>2, <1>5 DEF CallFunction, TypeOK, CallTypes
<1>6. ASSUME NEW w \in AniEnvs, WorkFunction(w) PROVE FALSE
  BY <1>2, <1>6 DEF WorkFunction
<1> QED
  BY <1>3, <1>4, <1>5, <1>6

\* No listener is called with an event it is no longer due, whoever calls off and when: a
\* dynamic one is called after off at most with the call for which its thread had looked at
\* isDeleted before (ThreadSafeCallback), whatever is queued for it; a static one only with
\* earlier events; a used-up once-listener not again.
THEOREM CallsStayDue == Spec => CallsAreDue
<1>1. EmitterInv /\ [Next]_vars =>
          [/\ \A l \in Listeners, n \in Numbers :
                 <<l, n>> \in reached' \ reached => Prepared(l, n) \/ n <= dueUpTo[l]
           /\ \A l \in Listeners, n \in Numbers :
                 Prepared(l, n)' /\ ~Prepared(l, n) => n <= dueUpTo[l]]_vars
  BY StartedIsDue, PreparedIsDue
<1> QED
  BY <1>1, Invariance, PTL DEF Spec, CallsAreDue

\* Listeners that go out of the container leave, or are replaced.
Stays(l) == dueUpTo'[l] # Never \/ Replaced(l)

LEMMA RetiredLeave ==
    ASSUME EmitterInv, NEW gone, NEW left, Retire(gone, left), NEW l \in subscribed \ subscribed'
    PROVE  Stays(l)
<1>1. l \in left /\ l \in Listeners
  BY RegisteredOnes DEF Retire, EmitterInv, TypeOK, ListenerTypes
<1> QED
  BY <1>1, RetiredListeners, Bounds DEF EmitterInv, Stays

LEMMA DroppedLeave ==
    ASSUME EmitterInv, NEW l \in subscribed \ subscribed', Deleted(l), UNCHANGED history
    PROVE  Stays(l)
  BY DEF EmitterInv, MarksInv, Stays, history

LEMMA CalledLeave ==
    ASSUME EmitterInv, NEW e \in JsEnvs, ProcessCallback(e) \/ ProcessCallbackEnhanced(e),
           NEW k \in subscribed \ subscribed'
    PROVE  Stays(k)
<1> USE DEF EmitterInv
<1> DEFINE l == running[e].listener
           left == IF listener[l].once THEN {l} ELSE {}
<1>1. running[e] # NoCall
  BY DEF ProcessCallback, ProcessCallbackEnhanced
<1>2. /\ l \in 1 .. created /\ l \in Listeners /\ l # 0 /\ running[e].event \in 1 .. Emitted
      /\ Emitted < Never /\ Emitted \in Nat
  <2>1. running[e] \in Call /\ 1 .. created \subseteq Listeners
    BY <1>1, RegisteredOnes DEF TypeOK, CallTypes, Envs
  <2>2. l \in 1 .. created /\ running[e].event \in 1 .. Emitted
    BY <2>1 DEF Call
  <2>3. Emitted < Never /\ Emitted \in Nat
    BY NatFacts, Bounds DEF TypeOK, EventTypes
  <2> QED
    BY <2>1, <2>2, <2>3
<1>3. ASSUME k \in left, NEW n \in 0 .. Emitted, LeaveWith(left, n) PROVE Stays(k)
  <2>1. dueUpTo'[k] = IF dueUpTo[k] = Never THEN n ELSE dueUpTo[k]
    BY <1>2, <1>3 DEF LeaveWith
  <2> QED
    BY <1>2, <1>3, <2>1, Bounds DEF Stays
<1>4. CASE ProcessCallback(e)
  <2>1. subscribed' = subscribed \ left /\ LeaveWith(left, Emitted) /\ Emitted \in 0 .. Emitted
    BY <1>2, <1>4 DEF ProcessCallback, UsedUp
  <2> QED
    BY <1>3, <2>1
<1>5. CASE ProcessCallbackEnhanced(e)
  <2>1. LeaveWith(left, running[e].event) /\ running[e].event \in 0 .. Emitted
    BY <1>5, CallbackTakesOut
  <2>2. left # {} /\ listener[k].callback = listener[l].callback
    BY <1>5, CallbackTakesOut
  <2>3. CASE k = l
    BY <1>3, <2>1, <2>2, <2>3
  <2>4. CASE k # l
    BY <1>2, <2>2, <2>4 DEF Stays, Replaced
  <2> QED
    BY <2>3, <2>4
<1> QED
  BY <1>4, <1>5

LEMMA LeaversLeave ==
    ASSUME EmitterInv, [Next]_vars, NEW l \in subscribed \ subscribed' PROVE Stays(l)
<1>1. CASE UNCHANGED vars \/ AgentInit
  BY <1>1 DEF vars, containers, AgentInit
<1>2. CASE Function
  <2>1. CASE Retires
    BY <2>1, RetiredLeave DEF Retires
  <2>2. ASSUME NEW id \in Ids, GetListenerCount(id) PROVE Stays(l)
    BY <2>2, DroppedLeave DEF GetListenerCount, Live, history
  <2>3. ASSUME NEW id \in Ids, NEW priority \in Priorities,
               JS_Emit(id, priority) \/ AniEmit(id, priority)
        PROVE  FALSE
    BY <2>3 DEF JS_Emit, EmitPlain, EmitEnhanced, EmitWithEventData, AniEmit, EmitWithEventId, Send,
                containers
  <2>4. ASSUME NEW id \in Ids, NEW cb \in Callbacks, NEW once \in BOOLEAN,
               \/ \E e \in JsEnvs : OnOrOnce(e, id, cb, once)
               \/ \E w \in AniEnvs : AniOnOrOnce(w, id, cb, once)
        PROVE  FALSE
    BY <2>4 DEF OnOrOnce, AniOnOrOnce, AniInsertCallbackInfo, Register, UpdateOnceFlag
  <2> QED
    BY <1>2, <2>1, <2>2, <2>3, <2>4, OffRetires
    DEF Function, JsFunction, AniFunction, EmitterInv
<1>3. CASE FfrtTask
  <2>1. ProcessEvent \/ AniGetAsyncCallbackInfo
    BY <1>3 DEF FfrtTask, StartThread, EndOfEvent, ProcessEventCallbacks, NapiDoCallback,
                CallThreadsafeFunction, AniDoCallback, containers
  <2>2. Deleted(l) /\ UNCHANGED history
    BY <2>1 DEF ProcessEvent, AniGetAsyncCallbackInfo, Live
  <2> QED
    BY <2>2, DroppedLeave
<1>4. ASSUME NEW t \in Threads, WorkTheadFunction(t) PROVE FALSE
  BY <1>4 DEF WorkTheadFunction, AttachCurrentThread, Loop, WaitForTask, PopTaskData, SendEventData,
              AfterSend, containers
<1>5. ASSUME NEW e \in Envs, Callback(e) PROVE Stays(l)
  <2>1. CASE e \in AniEnvs /\ (WorkFunction(e) \/ WorkFunctionReturns(e))
    BY <2>1 DEF WorkFunction, WorkFunctionReturns, containers
  <2>2. CASE e \in JsEnvs /\ (ThreadSafeCallback(e) \/ CallFunction(e))
    BY <2>2 DEF ThreadSafeCallback, CallFunction, containers
  <2> QED
    BY <1>5, <2>1, <2>2, CalledLeave DEF Callback
<1> QED
  BY <1>1, <1>2, <1>3, <1>4, <1>5 DEF Next

\* A listener stays in its container until off, the collection of its object or its own use
\* takes it out (DeleteCallbackInfo..., GetAsyncCallbackInfo, ProcessCallback), or one that
\* re-registers itself during its last call is taken out in its stead.
THEOREM ListenersDoStay == Spec => ListenersStay
<1>1. EmitterInv /\ [Next]_vars =>
          [\A l \in subscribed \ subscribed' : dueUpTo'[l] # Never \/ Replaced(l)]_vars
  BY LeaversLeave DEF Stays
<1> QED
  BY <1>1, Invariance, PTL DEF Spec, ListenersStay

=============================================================================
