------------------------------ MODULE Emitter ------------------------------
(***************************************************************************)
(* The emitter: listeners of the dynamic runtime (Node-API, "napi") and of *)
(* the static one ("ani"), the events emitted to them, and the threads     *)
(* that carry a call to its listener (frameworks/napi, frameworks/emitter).*)
(*                                                                         *)
(* A listener is one AsyncCallbackInfo or AniAsyncCallbackInfo.  An event  *)
(* goes through the serial FFRT queue of EventHandlerInstance.  Its task   *)
(* takes a snapshot of the listeners and hands a call of each to its       *)
(* JavaScript thread (a threadsafe function), or, through taskData_ and a  *)
(* thread of the manager, to the static worker that registered it.         *)
(*                                                                         *)
(* Until the static emitter is loaded (AgentInit) events are of the plain  *)
(* kind, which reach the dynamic runtime only; later ones are enhanced.    *)
(***************************************************************************)
EXTENDS Naturals, Sequences, FiniteSets

CONSTANTS
    Ids,            \* composite event ids
    Objects,        \* Emitter objects (emitterId # 0)
    ObjectOf,       \* the object an id belongs to, None for the module's own functions
    JsEnvs,         \* JavaScript threads
    AniEnvs,        \* workers of the static runtime
    Callbacks,      \* function objects
    Priorities,     \* priorities of emit
    MaxListeners,   \* bound: registrations
    MaxEvents,      \* bound: emitted events
    Threads,        \* bound: threads the manager may have alive at a time
    Scenarios,      \* bound: who calls the functions, and the number of events, with data or
                    \* without, in one behaviour
    AttachMayFail,  \* the static runtime may refuse a thread of the manager
    NullIsRead,     \* napi_deserialize_hybrid takes missing data for undefined
    None

ASSUME EmitterAssumption ==
    /\ ObjectOf \in [Ids -> Objects \union {None}]
    /\ JsEnvs \intersect AniEnvs = {}
    /\ MaxListeners \in Nat /\ MaxEvents \in Nat
    /\ Scenarios \subseteq [envs : SUBSET (JsEnvs \union AniEnvs), events : 0 .. MaxEvents,
                            data : SUBSET BOOLEAN]
    /\ AttachMayFail \in BOOLEAN /\ NullIsRead \in BOOLEAN
    /\ None \notin JsEnvs \union AniEnvs \union Ids \union Callbacks \union Objects

VARIABLES
    enhanced,       \* GetEmitterEnhancedApiRegister().IsInit()
    listener,       \* the listeners' attributes
    created,        \* listeners 1 .. created have been registered
    subscribed,     \* those that are in one of the two containers
    aniIds,         \* the keys of aniAsyncCallbackContainer_
    events,         \* the emitted events, by number
    queue,          \* the numbers of those queued in the FFRT queue
    stage,          \* what the task of the FFRT queue does
    handling,       \* the event it handles (0: none)
    todo,           \* the part of its snapshot not handed over yet
    calls,          \* per listener: events in its threadsafe function
    taskData,       \* taskData_: listener and event
    taskRunning,    \* taskRunning_
    needNotify,     \* needNotify_
    worker,         \* the manager's threads
    everRun,        \* g_taskRunning
    aniQueue,       \* per static worker: work functions sent to it
    passed,         \* per JavaScript thread: the call it prepares, its listener was not deleted
    running,        \* per environment: the call it is in
    reached,        \* history: the calls that started
    dueUpTo,        \* history: the last event a listener may still be called with
    scenario        \* the bounds of this behaviour

containers == <<listener, created, subscribed, aniIds>>
handover == <<stage, handling, todo>>
manager == <<taskData, taskRunning, needNotify, worker, everRun>>
history == <<reached, dueUpTo>>
inCall == <<passed, running>>
vars == <<enhanced, containers, events, queue, handover, calls, manager, aniQueue,
          inCall, history, scenario>>

Envs == JsEnvs \union AniEnvs
Listeners == 1 .. MaxListeners
Numbers == 1 .. MaxEvents
Never == MaxEvents + 1
NoCall == [listener |-> 0, event |-> 0]
Unused == [env |-> None, id |-> None, callback |-> None, once |-> FALSE, isDeleted |-> FALSE]

Emitted == Len(events)
Handled == (1 .. Emitted) \ queue
IsNapi(l) == listener[l].env \in JsEnvs
IsAni(l) == listener[l].env \in AniEnvs
Napi(id) == {l \in subscribed : IsNapi(l) /\ listener[l].id = id}
Ani(id) == {l \in subscribed : IsAni(l) /\ listener[l].id = id}
Deleted(l) == listener[l].isDeleted
Live(ls) == {l \in ls : ~Deleted(l)}

\* The listeners in ls marked as deleted.
Marked(ls) == [l \in Listeners |->
                  IF l \in ls THEN [listener[l] EXCEPT !.isDeleted = TRUE] ELSE listener[l]]

\* History: the listeners in ls leave, unless they left before; n is the last event each
\* of them may still be called with.
LeaveWith(ls, n) == dueUpTo' = [l \in Listeners |->
                           IF l \in ls /\ dueUpTo[l] = Never THEN n ELSE dueUpTo[l]]

\* A call of off or clean: static listeners still get what was emitted before.
Leave(ls) == dueUpTo' = [l \in Listeners |->
                 IF l \notin ls \/ dueUpTo[l] # Never THEN dueUpTo[l]
                 ELSE IF IsAni(l) THEN Emitted ELSE 0]

Init ==
    /\ enhanced = FALSE
    /\ listener = [l \in Listeners |-> Unused]
    /\ created = 0
    /\ subscribed = {}
    /\ aniIds = {}
    /\ events = <<>>
    /\ queue = {}
    /\ stage = "idle" /\ handling = 0 /\ todo = {}
    /\ calls = [l \in Listeners |-> <<>>]
    /\ taskData = <<>>
    /\ taskRunning = FALSE
    /\ needNotify = FALSE
    /\ worker = [t \in Threads |-> [at |-> "none", task |-> NoCall]]
    /\ everRun = FALSE
    /\ aniQueue = [w \in AniEnvs |-> <<>>]
    /\ passed = [e \in JsEnvs |-> NoCall]
    /\ running = [e \in Envs |-> NoCall]
    /\ reached = {}
    /\ dueUpTo = [l \in Listeners |-> Never]
    /\ scenario \in Scenarios

\* The static emitter is loaded: the dynamic functions delegate to the enhanced ones.
AgentInit ==
    /\ ~enhanced
    /\ enhanced' = TRUE
    /\ UNCHANGED <<containers, events, queue, handover, calls, manager, aniQueue, inCall,
                   history, scenario>>

-----------------------------------------------------------------------------
(* on, once, off, getListenerCount *)

\* A new listener is put into its container.
Register(e, id, cb, once) ==
    /\ created < MaxListeners
    /\ created' = created + 1
    /\ listener' = [listener EXCEPT ![created + 1] =
           [env |-> e, id |-> id, callback |-> cb, once |-> once, isDeleted |-> FALSE]]
    /\ subscribed' = subscribed \union {created + 1}

\* The listener found is switched between on and once instead.
UpdateOnceFlag(l, once) ==
    /\ listener' = [listener EXCEPT ![l].once = once]
    /\ UNCHANGED <<created, subscribed>>

\* What SearchCallbackInfo looks for: a listener of that callback that is not deleted.
Known(e, id, cb) ==
    {l \in Live(Napi(id)) : listener[l].env = e /\ listener[l].callback = cb}

OnOrOnce(e, id, cb, once) ==
    /\ \/ Known(e, id, cb) = {} /\ Register(e, id, cb, once)
       \/ \E l \in Known(e, id, cb) : UpdateOnceFlag(l, once)
    /\ UNCHANGED <<enhanced, aniIds, events, queue, handover, calls, manager, aniQueue,
                   inCall, history, scenario>>

\* The static runtime compares the callbacks alone.
AniKnown(id, cb) == {l \in Live(Ani(id)) : listener[l].callback = cb}

AniInsertCallbackInfo(w, id, cb, once) ==
    /\ \/ AniKnown(id, cb) = {} /\ Register(w, id, cb, once) /\ aniIds' = aniIds \union {id}
       \/ \E l \in AniKnown(id, cb) : UpdateOnceFlag(l, once) /\ UNCHANGED aniIds
    /\ UNCHANGED <<enhanced, events, queue, handover, calls, manager, aniQueue, inCall,
                   history, scenario>>

AniOnOrOnce(w, id, cb, once) == enhanced /\ AniInsertCallbackInfo(w, id, cb, once)

\* The listeners a caller of off means: registered at any time, in a container or not.
Registered(id) == {l \in 1 .. created : listener[l].id = id}

\* Mutant of DeleteCallbackInfo: isDeleted is not set.
DeleteCallbackInfoUnmarked(found, meant) ==
    /\ \/ found = {} /\ UNCHANGED subscribed
       \/ \E l \in found : subscribed' = subscribed \ {l}
    /\ Leave(meant \ subscribed')
    /\ UNCHANGED <<enhanced, listener, created, aniIds, events, queue, handover, calls,
                   manager, aniQueue, inCall, reached, scenario>>

\* off(id, callback): the first listener of the callback that the set yields is deleted.
DeleteCallbackInfo(found, meant) ==
    /\ \/ found = {} /\ UNCHANGED <<listener, subscribed>>
       \/ \E l \in found : listener' = Marked({l}) /\ subscribed' = subscribed \ {l}
    /\ Leave(meant \ subscribed')
    /\ UNCHANGED <<enhanced, created, aniIds, events, queue, handover, calls, manager,
                   aniQueue, inCall, reached, scenario>>

OffCallback(e, id, cb) ==
    LET Same(l) == listener[l].env = e /\ listener[l].callback = cb
    IN  DeleteCallbackInfo({l \in Napi(id) : Same(l)}, {l \in Registered(id) : Same(l)})

AniDeleteCallbackInfo(id, cb) ==
    LET Same(l) == IsAni(l) /\ listener[l].callback = cb
    IN  DeleteCallbackInfo({l \in Ani(id) : Same(l)}, {l \in Registered(id) : Same(l)})

AniOffCallback(id, cb) == enhanced /\ AniDeleteCallbackInfo(id, cb)

\* off(id) before the static emitter is loaded: the dynamic container only.
OffPlain(id) ==
    /\ ~enhanced
    /\ listener' = Marked(Napi(id))
    /\ subscribed' = subscribed \ Napi(id)
    /\ Leave(Registered(id))
    /\ UNCHANGED <<enhanced, created, aniIds, events, queue, handover, calls, manager,
                   aniQueue, inCall, reached, scenario>>

\* off(id) after it: both containers; the manager's thread is told to stop when nothing is
\* left in the static one.
DeleteCallbackInfoByEventId(id) ==
    /\ listener' = Marked(Ani(id) \union Napi(id))
    /\ subscribed' = subscribed \ (Ani(id) \union Napi(id))
    /\ aniIds' = aniIds \ {id}
    /\ taskRunning' = (taskRunning /\ aniIds' # {})
    /\ Leave(Registered(id))
    /\ UNCHANGED <<enhanced, created, events, queue, handover, calls, taskData, needNotify,
                   worker, everRun, aniQueue, inCall, reached, scenario>>

OffEnhanced(id) == enhanced /\ DeleteCallbackInfoByEventId(id)

JS_Off(id) == OffPlain(id) \/ OffEnhanced(id)

AniOff(id) == enhanced /\ DeleteCallbackInfoByEventId(id)

\* An Emitter object is collected: its listeners go, those of the other runtime stay.
OfObject(o) == {l \in subscribed : ObjectOf[listener[l].id] = o}

DeleteEmitterInstance(o) ==
    LET gone == {l \in OfObject(o) : IsNapi(l)}
    IN  /\ gone # {}
        /\ listener' = Marked(gone)
        /\ subscribed' = subscribed \ gone
        /\ Leave(gone)
        /\ UNCHANGED <<enhanced, created, aniIds, events, queue, handover, calls, manager,
                       aniQueue, inCall, reached, scenario>>

AniCleanCallbackInfo(o) ==
    LET gone == {l \in OfObject(o) : IsAni(l)}
    IN  /\ \E id \in aniIds : ObjectOf[id] = o
        /\ listener' = Marked(gone)
        /\ subscribed' = subscribed \ gone
        /\ aniIds' = {id \in aniIds : ObjectOf[id] # o}
        /\ Leave(gone)
        /\ UNCHANGED <<enhanced, created, events, queue, handover, calls, manager, aniQueue,
                       inCall, reached, scenario>>

\* getListenerCount drops what is marked.
GetListenerCount(id) ==
    /\ enhanced
    /\ subscribed' = subscribed \ (Registered(id) \ Live(Registered(id)))
    /\ UNCHANGED <<enhanced, listener, created, aniIds, events, queue, handover, calls,
                   manager, aniQueue, inCall, history, scenario>>

-----------------------------------------------------------------------------
(* emit *)

IsExistValidCallback(id) == Napi(id) \union Ani(id) # {}

\* Whether the other runtime listens, when the event is emitted.
IsCrossRuntime(id, runtime) == IF runtime = "napi" THEN Ani(id) # {} ELSE Napi(id) # {}

\* Who can read the data: the runtime that emits, and the other one if it listens; the
\* dynamic one, which deserialises for itself too, only if there is any or it takes a null.
Serialized(id, runtime, hasData) ==
    {r \in {"napi", "ani"} :
        /\ r = runtime \/ IsCrossRuntime(id, runtime) \/ (r = "napi" /\ NullIsRead)
        /\ r = "napi" => hasData \/ NullIsRead}

\* EventHandlerInstance::SendEvent.
Send(id, priority, isEnhanced, hasData, readers) ==
    /\ Emitted < scenario.events
    /\ events' = Append(events,
           [id |-> id, priority |-> priority, isEnhanced |-> isEnhanced, hasData |-> hasData,
            readers |-> readers, heardBy |-> created])
    /\ queue' = queue \union {Emitted + 1}
    /\ UNCHANGED <<enhanced, containers, handover, calls, manager, aniQueue, inCall,
                   history, scenario>>

EmitPlain(id, priority) ==
    /\ ~enhanced
    /\ Napi(id) # {}
    /\ Send(id, priority, FALSE, TRUE, {"napi"})

\* Data that cannot be serialised is left out, and the event is sent all the same.
EmitWithEventData(id, priority) ==
    \E hasData \in scenario.data :
        Send(id, priority, TRUE, hasData, Serialized(id, "napi", hasData))

EmitEnhanced(id, priority) ==
    enhanced /\ IsExistValidCallback(id) /\ EmitWithEventData(id, priority)

JS_Emit(id, priority) == EmitPlain(id, priority) \/ EmitEnhanced(id, priority)

\* In the static runtime the event is dropped then.
EmitWithEventId(id, priority) ==
    /\ IsExistValidCallback(id)
    /\ \E hasData \in scenario.data :
           Send(id, priority, TRUE, hasData, Serialized(id, "ani", hasData))

AniEmit(id, priority) == enhanced /\ EmitWithEventId(id, priority)

-----------------------------------------------------------------------------
(* The task of the FFRT queue: EventHandlerInstance::ProcessEvent *)

\* An event is taken, in order within a priority, and the snapshot of the dynamic
\* listeners.
ProcessEvent ==
    /\ stage = "idle" /\ queue # {}
    /\ \E n \in queue :
          /\ \A m \in queue : events[m].priority = events[n].priority => n <= m
          /\ queue' = queue \ {n}
          /\ handling' = n
          /\ todo' = Live(Napi(events[n].id))
          /\ subscribed' = subscribed \ (Napi(events[n].id) \ todo')
    /\ stage' = "napi"
    /\ UNCHANGED <<enhanced, listener, created, aniIds, events, calls, manager, aniQueue,
                   inCall, history, scenario>>

\* A call goes into the threadsafe function of one of them, unless it was deleted since.
CallThreadsafeFunction(l) ==
    /\ stage = "napi" /\ l \in todo
    /\ todo' = todo \ {l}
    /\ calls' = IF Deleted(l) THEN calls
                ELSE [calls EXCEPT ![l] = Append(@, handling)]
    /\ UNCHANGED <<enhanced, containers, events, queue, stage, handling, manager, aniQueue,
                   inCall, history, scenario>>

\* ... by the plain emitter, or by the enhanced one.
ProcessEventCallbacks(l) ==
    stage = "napi" /\ ~events[handling].isEnhanced /\ CallThreadsafeFunction(l)

NapiDoCallback(l) ==
    stage = "napi" /\ events[handling].isEnhanced /\ CallThreadsafeFunction(l)

\* The snapshot of the static listeners, if the event is an enhanced one.
AniGetAsyncCallbackInfo ==
    /\ stage = "napi" /\ todo = {} /\ events[handling].isEnhanced
    /\ stage' = "ani"
    /\ todo' = Live(Ani(events[handling].id))
    /\ subscribed' = subscribed \ (Ani(events[handling].id) \ todo')
    /\ UNCHANGED <<enhanced, listener, created, aniIds, events, queue, handling, calls,
                   manager, aniQueue, inCall, history, scenario>>

\* The last of the events that have been handled.
LastHandled == CHOOSE n \in Handled : \A m \in Handled : m <= n

\* A task for the manager's threads: one that has asked is woken.
PushTaskData(task) ==
    LET asleep == {t \in Threads : worker[t].at = "waiting"}
    IN  /\ taskData' = Append(taskData, task)
        /\ \/ needNotify /\ \E t \in asleep : worker' = [worker EXCEPT ![t].at = "woken"]
           \/ (~needNotify \/ asleep = {}) /\ UNCHANGED worker

\* A static listener's turn; a once-listener is used up.
AniDoCallback(l) ==
    /\ stage = "ani" /\ l \in todo
    /\ todo' = todo \ {l}
    /\ listener' = IF listener[l].once THEN Marked({l}) ELSE listener
    /\ LeaveWith(IF listener[l].once THEN {l} ELSE {}, LastHandled)
    /\ PushTaskData([listener |-> l, event |-> handling])
    /\ stage' = "start"
    /\ UNCHANGED <<enhanced, created, subscribed, aniIds, events, queue, handling, calls,
                   taskRunning, needNotify, everRun, aniQueue, inCall, reached, scenario>>

\* A thread is started unless one is thought to run.
StartThread ==
    /\ stage = "start"
    /\ stage' = "ani"
    /\ \/ taskRunning /\ UNCHANGED <<taskRunning, worker>>
       \/ /\ ~taskRunning
          /\ taskRunning' = TRUE
          /\ \E t \in Threads :
                /\ worker[t].at \in {"none", "failed"}
                /\ worker' = [worker EXCEPT ![t].at = "born"]
    /\ UNCHANGED <<enhanced, containers, events, queue, handling, todo, calls, taskData,
                   needNotify, everRun, aniQueue, inCall, history, scenario>>

\* Mutant of EndOfEvent: the event is still the one handled.
EndOfEventHolding ==
    /\ todo = {}
    /\ stage = "ani" \/ (stage = "napi" /\ ~events[handling].isEnhanced)
    /\ stage' = "idle"
    /\ UNCHANGED <<enhanced, containers, events, queue, handling, todo, calls, manager,
                   aniQueue, inCall, history, scenario>>

EndOfEvent ==
    /\ todo = {}
    /\ \/ stage = "ani"
       \/ stage = "napi" /\ ~events[handling].isEnhanced
    /\ stage' = "idle" /\ handling' = 0
    /\ UNCHANGED <<enhanced, containers, events, queue, todo, calls, manager, aniQueue,
                   inCall, history, scenario>>

FfrtTask ==
    \/ ProcessEvent \/ AniGetAsyncCallbackInfo \/ StartThread \/ EndOfEvent
    \/ \E l \in todo : ProcessEventCallbacks(l) \/ NapiDoCallback(l) \/ AniDoCallback(l)

-----------------------------------------------------------------------------
(* The manager's threads: WorkTheadFunction *)

\* A thread of the manager becomes one of the static runtime; if that fails it ends, and
\* taskRunning_ stays.
AttachCurrentThread(t) ==
    /\ worker[t].at = "born"
    /\ \E at \in {"loop"} \union (IF AttachMayFail THEN {"failed"} ELSE {}) :
           worker' = [worker EXCEPT ![t].at = at]
    /\ UNCHANGED <<enhanced, containers, events, queue, handover, calls, taskData,
                   taskRunning, needNotify, everRun, aniQueue, inCall, history, scenario>>

Loop(t) ==
    /\ worker[t].at = "loop"
    /\ worker' = [worker EXCEPT ![t].at = IF taskRunning THEN "pop" ELSE "none"]
    /\ UNCHANGED <<enhanced, containers, events, queue, handover, calls, taskData,
                   taskRunning, needNotify, everRun, aniQueue, inCall, history, scenario>>

\* Mutant of WaitForTask: the thread does not ask to be notified.
WaitForTaskUnasked(t) ==
    /\ worker[t].at \in {"pop", "woken"} /\ taskData = <<>>
    /\ worker' = [worker EXCEPT ![t].at = "waiting"]
    /\ UNCHANGED <<enhanced, containers, events, queue, handover, calls, taskData,
                   taskRunning, needNotify, everRun, aniQueue, inCall, history, scenario>>

\* PopTaskData waits for a task, having asked to be notified ...
WaitForTask(t) ==
    /\ worker[t].at \in {"pop", "woken"} /\ taskData = <<>>
    /\ worker' = [worker EXCEPT ![t].at = "waiting"]
    /\ needNotify' = (needNotify \/ worker[t].at = "pop")
    /\ UNCHANGED <<enhanced, containers, events, queue, handover, calls, taskData,
                   taskRunning, everRun, aniQueue, inCall, history, scenario>>

\* ... and takes it.
PopTaskData(t) ==
    /\ worker[t].at \in {"pop", "woken"} /\ taskData # <<>>
    /\ worker' = [worker EXCEPT ![t] = [at |-> "send", task |-> Head(taskData)]]
    /\ taskData' = Tail(taskData)
    /\ needNotify' = FALSE
    /\ UNCHANGED <<enhanced, containers, events, queue, handover, calls, taskRunning,
                   everRun, aniQueue, inCall, history, scenario>>

\* SendEventData: to the static worker that registered the listener.
SendEventData(t) ==
    /\ worker[t].at = "send"
    /\ LET w == listener[worker[t].task.listener].env
       IN  aniQueue' = [aniQueue EXCEPT ![w] = Append(@, worker[t].task)]
    /\ worker' = [worker EXCEPT ![t] = [at |-> "sent", task |-> NoCall]]
    /\ UNCHANGED <<enhanced, containers, events, queue, handover, calls, taskData,
                   taskRunning, needNotify, everRun, inCall, history, scenario>>

\* The thread needs g_taskMutex, which a static callback holds, and g_taskRunning.
TaskMutexFree == \A w \in AniEnvs : running[w] = NoCall

AfterSend(t) ==
    /\ worker[t].at = "sent" /\ TaskMutexFree /\ everRun
    /\ worker' = [worker EXCEPT ![t].at = "loop"]
    /\ UNCHANGED <<enhanced, containers, events, queue, handover, calls, taskData,
                   taskRunning, needNotify, everRun, aniQueue, inCall, history, scenario>>

WorkTheadFunction(t) ==
    \/ AttachCurrentThread(t) \/ Loop(t)
    \/ WaitForTask(t) \/ PopTaskData(t) \/ SendEventData(t) \/ AfterSend(t)

-----------------------------------------------------------------------------
(* The calls *)

\* Whether a runtime can read the data of an event.
GetCallbackArgs(n) == "ani" \in events[n].readers
Deserialized(n) == "napi" \in events[n].readers

\* A static worker runs its next work function, which calls the listener if the data can
\* be read, whatever has become of the listener meanwhile.
WorkFunction(w) ==
    /\ running[w] = NoCall /\ TaskMutexFree /\ aniQueue[w] # <<>>
    /\ LET task == Head(aniQueue[w])
       IN  IF GetCallbackArgs(task.event)
           THEN /\ running' = [running EXCEPT ![w] = task]
                /\ reached' = reached \union {<<task.listener, task.event>>}
           ELSE UNCHANGED <<running, reached>>
    /\ aniQueue' = [aniQueue EXCEPT ![w] = Tail(@)]
    /\ everRun' = TRUE
    /\ UNCHANGED <<enhanced, containers, events, queue, handover, calls, taskData,
                   taskRunning, needNotify, worker, passed, dueUpTo, scenario>>

WorkFunctionReturns(w) ==
    /\ running[w] # NoCall
    /\ running' = [running EXCEPT ![w] = NoCall]
    /\ UNCHANGED <<enhanced, containers, events, queue, handover, calls, manager, aniQueue,
                   passed, history, scenario>>

\* ThreadSafeCallback on the JavaScript thread: a deleted listener is not called ...
ThreadSafeCallback(e) ==
    /\ running[e] = NoCall /\ passed[e] = NoCall
    /\ \E l \in Listeners :
          /\ listener[l].env = e /\ calls[l] # <<>>
          /\ passed' = IF Deleted(l) THEN passed
                       ELSE [passed EXCEPT ![e] = [listener |-> l, event |-> Head(calls[l])]]
          /\ calls' = [calls EXCEPT ![l] = Tail(@)]
    /\ UNCHANGED <<enhanced, containers, events, queue, handover, manager, aniQueue, running,
                   history, scenario>>

\* ... nor one that cannot read the data, but one that was deleted since the test is.
CallFunction(e) ==
    /\ passed[e] # NoCall
    /\ passed' = [passed EXCEPT ![e] = NoCall]
    /\ IF Deserialized(passed[e].event)
       THEN /\ running' = [running EXCEPT ![e] = passed[e]]
            /\ reached' = reached \union {<<passed[e].listener, passed[e].event>>}
       ELSE UNCHANGED <<running, reached>>
    /\ UNCHANGED <<enhanced, containers, events, queue, handover, calls, manager, aniQueue,
                   dueUpTo, scenario>>

\* Mutant of UsedUp: every listener is taken out after its call.
UsedUpAlways(l) == TRUE

UsedUp(l) == listener[l].once

\* The function has returned.  A plain call takes a once-listener out of the container.
ProcessCallback(e) ==
    /\ running[e] # NoCall /\ ~events[running[e].event].isEnhanced
    /\ running' = [running EXCEPT ![e] = NoCall]
    /\ LET l == running[e].listener
           used == IF UsedUp(l) THEN {l} ELSE {}
       IN  /\ subscribed' = subscribed \ used
           /\ LeaveWith(IF listener[l].once THEN {l} ELSE {}, Emitted)
    /\ UNCHANGED <<enhanced, listener, created, aniIds, events, queue, handover, calls,
                   manager, aniQueue, passed, reached, scenario>>

\* An enhanced one calls off with the callback for it.
ProcessCallbackEnhanced(e) ==
    LET l == running[e].listener
        n == running[e].event
        same == {k \in Napi(listener[l].id) :
                    listener[k].env = e /\ listener[k].callback = listener[l].callback}
    IN  /\ running[e] # NoCall /\ events[n].isEnhanced
        /\ running' = [running EXCEPT ![e] = NoCall]
        /\ \/ (UsedUp(l) => same = {}) /\ UNCHANGED <<listener, subscribed>>
           \/ /\ UsedUp(l)
              /\ \E k \in same : listener' = Marked({k}) /\ subscribed' = subscribed \ {k}
        /\ LeaveWith(IF listener[l].once THEN {l} ELSE {}, n)
        /\ UNCHANGED <<enhanced, created, aniIds, events, queue, handover, calls, manager,
                       aniQueue, passed, reached, scenario>>

-----------------------------------------------------------------------------
\* A JavaScript thread calls a function from its loop or from a callback, not while it
\* prepares a call.
JsFunction(e) ==
    /\ e \in scenario.envs /\ passed[e] = NoCall
    /\ \E id \in Ids :
          \/ JS_Off(id)
          \/ \E priority \in Priorities : JS_Emit(id, priority)
          \/ \E cb \in Callbacks :
                \/ OffCallback(e, id, cb)
                \/ \E once \in BOOLEAN : OnOrOnce(e, id, cb, once)

AniFunction(w) ==
    /\ w \in scenario.envs
    /\ \E id \in Ids :
          \/ AniOff(id)
          \/ \E priority \in Priorities : AniEmit(id, priority)
          \/ \E cb \in Callbacks :
                \/ AniOffCallback(id, cb)
                \/ \E once \in BOOLEAN : AniOnOrOnce(w, id, cb, once)

\* The functions of the emitter; a count may come from either runtime, a collection at any
\* time.
Function ==
    \/ \E e \in JsEnvs : JsFunction(e)
    \/ \E w \in AniEnvs : AniFunction(w)
    \/ \E id \in Ids : GetListenerCount(id)
    \/ \E o \in Objects : DeleteEmitterInstance(o) \/ AniCleanCallbackInfo(o)

\* The calls of the listeners.
Callback(e) ==
    \/ e \in AniEnvs /\ (WorkFunction(e) \/ WorkFunctionReturns(e))
    \/ /\ e \in JsEnvs
       /\ \/ ThreadSafeCallback(e) \/ CallFunction(e)
          \/ ProcessCallback(e) \/ ProcessCallbackEnhanced(e)

Next ==
    \/ AgentInit
    \/ Function
    \/ FfrtTask
    \/ \E t \in Threads : WorkTheadFunction(t)
    \/ \E e \in Envs : Callback(e)

Spec == Init /\ [][Next]_vars

\* The FFRT queue runs its tasks, the threads run, and callbacks return.
Fairness ==
    /\ WF_vars(FfrtTask)
    /\ \A t \in Threads : WF_vars(WorkTheadFunction(t))
    /\ \A e \in Envs : WF_vars(Callback(e))

FairSpec == Spec /\ Fairness

-----------------------------------------------------------------------------
(* Properties *)

Places == {"none", "born", "failed", "loop", "pop", "waiting", "woken", "send", "sent"}

Call == [listener : 1 .. created, event : 1 .. Emitted]

ListenerTypes ==
    /\ created \in 0 .. MaxListeners
    /\ listener \in [Listeners -> [env : Envs, id : Ids, callback : Callbacks, once : BOOLEAN,
                                   isDeleted : BOOLEAN] \union {Unused}]
    /\ \A l \in Listeners : l <= created <=> listener[l] # Unused
    /\ subscribed \subseteq 1 .. created
    /\ aniIds \subseteq Ids
    /\ dueUpTo \in [Listeners -> 0 .. Never]

EventTypes ==
    /\ enhanced \in BOOLEAN
    /\ events \in Seq([id : Ids, priority : Priorities, isEnhanced : BOOLEAN,
                       hasData : BOOLEAN, readers : SUBSET {"napi", "ani"}, heardBy : 0 .. created])
    /\ Emitted <= MaxEvents
    /\ queue \subseteq 1 .. Emitted
    /\ stage \in {"idle", "napi", "ani", "start"}
    /\ handling \in 0 .. Emitted /\ (stage = "idle" <=> handling = 0)
    /\ todo \subseteq 1 .. created
    /\ scenario \in Scenarios

CallTypes ==
    /\ calls \in [Listeners -> Seq(1 .. Emitted)]
    /\ taskData \in Seq(Call)
    /\ taskRunning \in BOOLEAN /\ needNotify \in BOOLEAN /\ everRun \in BOOLEAN
    /\ worker \in [Threads -> [at : Places, task : Call \union {NoCall}]]
    /\ \A t \in Threads : worker[t].at = "send" => worker[t].task # NoCall
    /\ aniQueue \in [AniEnvs -> Seq(Call)]
    /\ passed \in [JsEnvs -> Call \union {NoCall}]
    /\ running \in [Envs -> Call \union {NoCall}]
    /\ reached \subseteq (1 .. created) \X (1 .. Emitted)

\* Types: an event is handled except between events, and every call in flight, wherever it
\* is, is of a listener and an event there are.
TypeOK == ListenerTypes /\ EventTypes /\ CallTypes

\* A listener is called with no event later than the last one it may still be called with:
\* once off has returned a dynamic listener gets no call out of what is queued for it, a
\* static one only what was emitted before; and a once-listener is called once, unless
\* several plain events were on their way to it.  The one exception is the call that a
\* JavaScript thread was preparing, for which the listener was found alive: it is still
\* made, although off, called from another thread, may have returned before it starts.
Prepared(l, n) == \E e \in JsEnvs : passed[e] = [listener |-> l, event |-> n]

CallsAreDue ==
    [][/\ \A l \in Listeners, n \in Numbers :
             <<l, n>> \in reached' \ reached => Prepared(l, n) \/ n <= dueUpTo[l]
       /\ \A l \in Listeners, n \in Numbers :
             Prepared(l, n)' /\ ~Prepared(l, n) => n <= dueUpTo[l]]_vars

\* A listener goes out of its container only when off, a collected object or its own use
\* as a once-listener takes it out.  The exception is a function that re-registers
\* itself during its call as a once-listener: the end of the call removes the new one.
Replaced(l) ==
    \E e \in JsEnvs : LET k == running[e].listener
                      IN  k \notin {0, l} /\ listener[k].once
                          /\ listener[k].callback = listener[l].callback

ListenersStay ==
    [][\A l \in subscribed \ subscribed' : dueUpTo'[l] # Never \/ Replaced(l)]_vars

\* No thread takes the tasks any more: taskRunning_ has stayed although the thread that
\* should, could not become one of the static runtime.
Stuck ==
    /\ taskRunning
    /\ \A t \in Threads : worker[t].at \in {"none", "failed"}
    /\ \E t \in Threads : worker[t].at = "failed"

\* An event reaches every listener there was when it was emitted (heardBy is the number of
\* the last one), in either runtime, unless the listener leaves: no task is left in
\* taskData_ with no thread to take it.  The exceptions are those the code has: a thread
\* that failed to attach, and an event without data for a dynamic listener.
EveryEventArrives ==
    \A n \in Numbers, l \in Listeners :
        (n \in queue /\ l \in Live(subscribed) /\ l <= events[n].heardBy
                      /\ listener[l].id = events[n].id
                      /\ (IsNapi(l) => events[n].hasData))
            ~> (<<l, n>> \in reached \/ l \notin Live(subscribed) \/ (IsAni(l) /\ Stuck))
=============================================================================
