------------------------------ MODULE FfrtQueue ------------------------------
(***************************************************************************)
(* EventQueueFFRT: the queue of a runner created with ThreadMode::FFRT.    *)
(* Its events are tasks in a queue of the FFRT library, which runs them    *)
(* one at a time on a thread of its own; which task is next (priority,     *)
(* delay, AT_FRONT) is its affair. What the library can be asked about a   *)
(* task is its name, so the queue puts the data of the event into it,      *)
(*     handler id | has task | inner event id | param | task name          *)
(* and looks for events by regular expressions that match whole names.     *)
(*                                                                         *)
(* A name is a sequence of characters; a handler id, which no other id     *)
(* begins with up to the bar, counts as one. RemoveTask puts the name it   *)
(* is given into the pattern as it is, so that it is an expression of its  *)
(* own: a dot in it is any character. Of what else it could be, as an      *)
(* alternative, a repetition or an escape, nothing is said: RemoveTask is  *)
(* modelled for Expressions, names without such characters. The tasks that *)
(* are queued may have any names without a line break.                     *)
(***************************************************************************)
EXTENDS Integers, Sequences, FiniteSets, SequencesExt

CONSTANTS
    Runners,   \* FFRT runners
    Handlers,
    RunnerOf,  \* per handler
    Clients,   \* ordinary threads
    Events,    \* the objects in use at a time
    Ids,       \* inner event ids
    Params,
    Names,     \* that tasks have
    Priorities,
    MaxCalls,  \* bound on the calls nested in a thread
    None

NoName == <<>>

\* The characters, but the dot, that are operators of a regular expression.
Operators == {"|", "*", "+", "?", "(", ")", "[", "]", "{", "}", "^", "$", "\\"}

\* What RemoveTask is asked for.
Expressions == {name \in Names : \A i \in DOMAIN name : name[i] \notin Operators}

ASSUME FfrtAssumption ==
    /\ RunnerOf \in [Handlers -> Runners]
    /\ Clients \intersect Runners = {}
    /\ Ids \subseteq Nat
    /\ Params \subseteq Int
    /\ NoName \in Names
    /\ Names \subseteq Seq(STRING)
    /\ \A name \in Names : \A i \in DOMAIN name : name[i] # "\n"
    /\ "." \notin Handlers
    /\ None \notin [owner : Handlers, hasTask : BOOLEAN, innerEventId : Ids \union {0},
                    param : Params \union {0}, name : Names, idle : BOOLEAN]
    /\ Priorities \subseteq {"VIP", "IMMEDIATE", "HIGH", "LOW", "IDLE"}
    /\ MaxCalls \in Nat

VARIABLES
    data,    \* per event: what its sender has put into it, None while it is not in use
    tasks,   \* per runner: the events whose task waits in ffrtQueue_
    calls,   \* per thread: its stack of calls, the innermost last; a runner's thread is
             \* the one FFRT runs its current task on
    held,    \* handlers that clients hold
    cleaned  \* handlers whose destructor is through

vars == <<data, tasks, calls, held, cleaned>>

Threads == Clients \union Runners

-----------------------------------------------------------------------------
(* Task names *)

\* std::to_string.
Digit(n) == <<"0", "1", "2", "3", "4", "5", "6", "7", "8", "9">>[(n % 10) + 1]

Digits[n \in Nat] == IF n < 10 THEN <<Digit(n)>> ELSE Append(Digits[n \div 10], Digit(n))

Decimal(n) == IF n < 0 THEN <<"-">> \o Digits[-n] ELSE Digits[n]

Bar == <<"|">>

Begin(h, hasTask) == <<h, "|", IF hasTask THEN "1" ELSE "0", "|">>

\* The name InsertEvent gives to the task of an event.
TaskName(d) ==
    Begin(d.owner, d.hasTask)
        \o (Decimal(d.innerEventId) \o (Bar \o (Decimal(d.param) \o (Bar \o d.name))))

\* Does the text stand in the name behind its first k characters? A dot fits any.
OccursAt(text, name, k) ==
    /\ k + Len(text) <= Len(name)
    /\ \A i \in DOMAIN text : text[i] \in {".", name[k + i]}

\* A pattern is the sequence of the texts between its ".*": the first begins the name, the last
\* ends it, and at says where those between them stand.
Place(pattern, name, at, i) ==
    IF i = 1 THEN 0 ELSE IF i = Len(pattern) THEN Len(name) - Len(pattern[i]) ELSE at[i]

\* std::regex_match.
Matches(pattern, name) ==
    \E at \in [2 .. Len(pattern) - 1 -> 0 .. Len(name)] :
        \A i \in DOMAIN pattern :
            LET k == Place(pattern, name, at, i)
            IN  /\ i > 1 => Place(pattern, name, at, i - 1) + Len(pattern[i - 1]) <= k
                /\ OccursAt(pattern[i], name, k)

\* The events of h's queue whose task matches the pattern.
Found(h, pattern) == {e \in tasks[RunnerOf[h]] : Matches(pattern, TaskName(data[e]))}

OwnerPattern(h) == <<<<h, "|">>, <<>>>>
IdPattern(h, id) == <<Begin(h, FALSE) \o (Decimal(id) \o Bar), <<>>>>
IdParamPattern(h, id, param) ==
    <<Begin(h, FALSE) \o (Decimal(id) \o (Bar \o (Decimal(param) \o Bar))), <<>>>>

\* Mutant of NamePattern: the bar before the name is forgotten.
NamePatternOpen(h, name) == <<Begin(h, TRUE), name>>

\* The name may be preceded by anything, so this finds the names that end in a bar and it, too.
NamePattern(h, name) == <<Begin(h, TRUE), Bar \o name>>

\* The param may be preceded by anything, so this finds it at the end of a longer number,
\* and in the place of the id as well.
ParamPattern(h, param) == <<Begin(h, FALSE), Decimal(param) \o Bar, <<>>>>

-----------------------------------------------------------------------------
(* Threads, handlers, events *)

Call == [op : {"task", "wait"}, event : Events]
        \union [op : {"in place"}, handler : Handlers]
        \union [op : {"drain"}, runner : Runners]

Top(t) == Last(calls[t])

In(t, op) == calls[t] # <<>> /\ Top(t).op = op

\* t runs code of a client, that may call the framework.
InClient(t) ==
    /\ IF calls[t] = <<>> THEN t \in Clients ELSE Top(t).op \in {"task", "in place"}
    /\ Len(calls[t]) < MaxCalls

Push(t, call) == calls' = [calls EXCEPT ![t] = Append(@, call)]
Pop(t) == calls' = [calls EXCEPT ![t] = Front(@)]

Queued == UNION {tasks[r] : r \in Runners}

\* A distribution holds the handler, and so does who waits for it.
Expired(h) ==
    /\ h \notin held
    /\ \A t \in Threads : \A i \in DOMAIN calls[t] :
           /\ calls[t][i].op = "in place" => calls[t][i].handler # h
           /\ calls[t][i].op \in {"task", "wait"} => data[calls[t][i].event].owner # h

\* Whom FFRT has been told of by ffrt_queue_set_eventhandler: the owner of the task, even
\* while an event of another handler is distributed in place.
CurrentRunner(t) == IF t \in Runners THEN t ELSE None

\* Objects that are in no queue and in no call any more are free.
Recycled(D, T, C) ==
    [e \in Events |->
        IF \/ \E r \in Runners : e \in T[r]
           \/ \E t \in Threads : \E i \in DOMAIN C[t] :
                  C[t][i].op \in {"task", "wait"} /\ C[t][i].event = e
        THEN D[e] ELSE None]

Recycle == data' = Recycled(data, tasks', calls')

-----------------------------------------------------------------------------
Init ==
    /\ data = [e \in Events |-> None]
    /\ tasks = [r \in Runners |-> {}]
    /\ calls = [t \in Threads |-> <<>>]
    /\ held = Handlers
    /\ cleaned = {}

(* Sending *)

\* InnerEvent::Get of an id, with or without a param and an object; of a callback.
InnerEvents == [hasTask : {FALSE}, innerEventId : Ids, param : Params, name : {NoName}]
TaskEvents == [hasTask : {TRUE}, innerEventId : {0}, param : {0}, name : Names]

\* Its only effect on what the queue says is that IsQueueEmpty passes over idle tasks.
TransferInnerPriority(priority) ==
    IF priority = "IDLE" THEN "ffrt_inner_queue_priority_idle" ELSE "ffrt_inner_queue_priority"

\* Mutant of InsertEvent: the synchronous path, which fills the event itself, forgets its owner.
InsertEventUnowned(h, e, content, priority) ==
    /\ data[e] = None
    /\ data' = [data EXCEPT ![e] =
           [owner |-> None, hasTask |-> content.hasTask, innerEventId |-> content.innerEventId,
            param |-> content.param, name |-> content.name, idle |-> priority = "IDLE"]]
    /\ tasks' = [tasks EXCEPT ![RunnerOf[h]] = @ \union {e}]
    /\ UNCHANGED <<held, cleaned>>

\* The object e is filled and its task submitted, at the end or at the head.
InsertEvent(h, e, content, priority) ==
    /\ data[e] = None
    /\ data' = [data EXCEPT ![e] =
           [owner |-> h, hasTask |-> content.hasTask, innerEventId |-> content.innerEventId,
            param |-> content.param, name |-> content.name,
            idle |-> TransferInnerPriority(priority) = "ffrt_inner_queue_priority_idle"]]
    /\ tasks' = [tasks EXCEPT ![RunnerOf[h]] = @ \union {e}]
    /\ UNCHANGED <<held, cleaned>>

Post(h, content, priority) ==
    /\ ~Expired(h)
    /\ \E e \in Events : InsertEvent(h, e, content, priority)
    /\ UNCHANGED calls

SendEvent(h) ==
    \E content \in InnerEvents \union TaskEvents, p \in Priorities : Post(h, content, p)

SendImmediateEvent(h) == \E content \in InnerEvents : Post(h, content, "IMMEDIATE")

SendHighPriorityEvent(h) == \E content \in InnerEvents : Post(h, content, "HIGH")

SendTimingEvent(h) == \E content \in InnerEvents, p \in Priorities : Post(h, content, p)

PostTask(h) == \E content \in TaskEvents, p \in Priorities : Post(h, content, p)

PostTimingTask(h) == \E content \in TaskEvents, p \in Priorities : Post(h, content, p)

\* PostTaskAtFront and PostTaskAtTail.
PostTaskAt(h) == \E content \in TaskEvents, p \in Priorities : Post(h, content, p)

PostImmediateTask(h) == \E content \in TaskEvents : Post(h, content, "IMMEDIATE")

PostHighPriorityTask(h) == \E content \in TaskEvents : Post(h, content, "HIGH")

PostIdleTask(h) == \E content \in TaskEvents : Post(h, content, "IDLE")

\* The event is distributed here when the caller is a task of the same runner; unless
\* sameRunnerOnly is set, when it is a task of any FFRT runner. Else t waits for the task.
SendSync(t, h, content, priority, sameRunnerOnly) ==
    /\ InClient(t)
    /\ ~Expired(h)
    /\ priority # "IDLE"
    /\ IF CurrentRunner(t) = RunnerOf[h] \/ (~sameRunnerOnly /\ t \in Runners)
       THEN /\ Push(t, [op |-> "in place", handler |-> h])
            /\ UNCHANGED <<data, tasks, held, cleaned>>
       ELSE \E e \in Events : /\ InsertEvent(h, e, content, priority)
                              /\ Push(t, [op |-> "wait", event |-> e])

SendSyncEvent(t, h) ==
    \E content \in InnerEvents, p \in Priorities, only \in BOOLEAN : SendSync(t, h, content, p, only)

PostSyncTask(t, h) ==
    \E content \in TaskEvents, p \in Priorities, only \in BOOLEAN : SendSync(t, h, content, p, only)

-----------------------------------------------------------------------------
(* Running *)

\* Mutant of RunTask: the event is distributed though its owner is gone.
RunTaskUnowned(r) ==
    \E e \in tasks[r] :
        /\ calls[r] = <<>>
        /\ tasks' = [tasks EXCEPT ![r] = @ \ {e}]
        /\ Push(r, [op |-> "task", event |-> e])
        /\ Recycle
        /\ UNCHANGED <<held, cleaned>>

\* FFRT starts the next task of a queue. An event whose owner is gone is dropped.
RunTask(r) ==
    \E e \in tasks[r] :
        /\ calls[r] = <<>>
        /\ tasks' = [tasks EXCEPT ![r] = @ \ {e}]
        /\ IF Expired(data[e].owner) THEN UNCHANGED calls
           ELSE Push(r, [op |-> "task", event |-> e])
        /\ Recycle
        /\ UNCHANGED <<held, cleaned>>

\* DistributeEvent returns.
EndDistribution(t) ==
    /\ In(t, "task") \/ In(t, "in place")
    /\ Pop(t)
    /\ UNCHANGED <<tasks, held, cleaned>>
    /\ Recycle

\* ffrtQueue_->wait returns once the task has run or has been cancelled.
ReturnFromWait(t) ==
    /\ In(t, "wait")
    /\ Top(t).event \notin Queued
    /\ \A u \in Threads : \A i \in DOMAIN calls[u] :
           calls[u][i].op = "task" => calls[u][i].event # Top(t).event
    /\ Pop(t)
    /\ UNCHANGED <<tasks, held, cleaned>>
    /\ Recycle

-----------------------------------------------------------------------------
(* Removing and asking *)

\* ffrt_queue_cancel_by_name on the queue of h.
CancelByName(h, pattern) ==
    /\ tasks' = [tasks EXCEPT ![RunnerOf[h]] = @ \ Found(h, pattern)]
    /\ UNCHANGED <<calls, held>>
    /\ Recycle

RemoveAllEvents(h) ==
    ~Expired(h) /\ CancelByName(h, OwnerPattern(h)) /\ UNCHANGED cleaned

RemoveEvent(h, id) ==
    ~Expired(h) /\ CancelByName(h, IdPattern(h, id)) /\ UNCHANGED cleaned

RemoveEventParam(h, id, param) ==
    ~Expired(h) /\ CancelByName(h, IdParamPattern(h, id, param)) /\ UNCHANGED cleaned

RemoveTask(h, name) ==
    ~Expired(h) /\ CancelByName(h, NamePattern(h, name)) /\ UNCHANGED cleaned

\* Questions: they change nothing.
HasInnerEvent(h, id) == Found(h, IdPattern(h, id)) # {}

HasInnerEventParam(h, param) == Found(h, ParamPattern(h, param)) # {}

\* The loop over the priorities ends before IDLE.
IsQueueEmpty(r) == \A e \in tasks[r] : data[e].idle

\* TaskCancelAndWait: the queue is emptied, then the task that runs is waited for.
CancelAndWait(t, h) ==
    /\ InClient(t)
    /\ ~Expired(h)
    /\ tasks' = [tasks EXCEPT ![RunnerOf[h]] = {}]
    /\ Push(t, [op |-> "drain", runner |-> RunnerOf[h]])
    /\ Recycle
    /\ UNCHANGED <<held, cleaned>>

ReturnFromCancel(t) ==
    /\ In(t, "drain")
    /\ calls[Top(t).runner] = <<>>
    /\ Pop(t)
    /\ UNCHANGED <<data, tasks, held, cleaned>>

\* Clients let go of the handler.
ReleaseHandler(h) ==
    /\ h \in held
    /\ held' = held \ {h}
    /\ UNCHANGED <<data, tasks, calls, cleaned>>

\* ~EventHandler.
RemoveOrphanByHandlerId(h) ==
    /\ Expired(h)
    /\ h \notin cleaned
    /\ CancelByName(h, OwnerPattern(h))
    /\ cleaned' = cleaned \union {h}

-----------------------------------------------------------------------------
Send(h) ==
    \/ SendEvent(h) \/ SendImmediateEvent(h) \/ SendHighPriorityEvent(h) \/ SendTimingEvent(h)
    \/ PostTask(h) \/ PostTimingTask(h) \/ PostTaskAt(h) \/ PostImmediateTask(h)
    \/ PostHighPriorityTask(h) \/ PostIdleTask(h)

Next ==
    \/ \E h \in Handlers :
           \/ Send(h) \/ RemoveAllEvents(h)
           \/ ReleaseHandler(h) \/ RemoveOrphanByHandlerId(h)
           \/ \E id \in Ids : RemoveEvent(h, id)
           \/ \E id \in Ids, param \in Params : RemoveEventParam(h, id, param)
           \/ \E name \in Expressions : RemoveTask(h, name)
           \/ \E t \in Threads : \/ SendSyncEvent(t, h) \/ PostSyncTask(t, h)
                                 \/ CancelAndWait(t, h)
    \/ \E r \in Runners : RunTask(r)
    \/ \E t \in Threads : EndDistribution(t) \/ ReturnFromWait(t) \/ ReturnFromCancel(t)

Spec == Init /\ [][Next]_vars

-----------------------------------------------------------------------------
(* Properties *)

Content == [owner : Handlers, hasTask : BOOLEAN, innerEventId : Ids \union {0},
            param : Params \union {0}, name : Names, idle : BOOLEAN]

\* The variables keep their shapes; an object in use is in one place: in its owner's
\* queue, or taken out by that queue's thread; and it has its sender's data.
TypeOK ==
    /\ data \in [Events -> Content \union {None}]
    /\ tasks \in [Runners -> SUBSET Events]
    /\ \A r \in Runners : \A e \in tasks[r] : data[e] # None /\ RunnerOf[data[e].owner] = r
    /\ \A t \in Threads : \A i \in DOMAIN calls[t] :
           LET c == calls[t][i]
           IN  /\ c \in Call
               /\ c.op = "task" => /\ i = 1 /\ t = RunnerOf[data[c.event].owner]
                                  /\ c.event \notin Queued
    /\ held \subseteq Handlers /\ cleaned \subseteq Handlers \ held

\* The filters of EventQueueBase, over the events of h's queue.
Filtered(h, hasTask) ==
    {e \in tasks[RunnerOf[h]] : data[e].owner = h /\ data[e].hasTask = hasTask}
FilteredById(h, id) == {e \in Filtered(h, FALSE) : data[e].innerEventId = id}
FilteredByParam(h, param) == {e \in Filtered(h, FALSE) : data[e].param = param}
FilteredByName(h, name) == {e \in Filtered(h, TRUE) : data[e].name = name}

\* The last part of a task's name, behind a bar of its own.
FilteredByNamePart(h, name) ==
    {e \in Filtered(h, TRUE) :
        LET long == data[e].name IN
            Len(name) < Len(long) /\ SubSeq(long, Len(long) - Len(name), Len(long)) = Bar \o name}

Dotless(name) == \A i \in DOMAIN name : name[i] # "."

\* Every call on an FFRT runner takes, or finds, the events that the same call would on a
\* runner with an EventQueueBase: no name of another event matches its pattern, and none of
\* its own is missed. Three calls do not promise that. RemoveTask misses no task, and takes no
\* event of another handler or without a task, but it also removes the tasks whose names end in a
\* bar and the name it is given, and, if there is a dot in that, some others of the handler; nor
\* does it refuse an empty name, as EventQueueBase does. HasInnerEvent(param) misses no event but
\* may find others. IsQueueEmpty overlooks idle events, but no others.
PatternsAreFilters ==
    /\ \A h \in Handlers :
           /\ Found(h, OwnerPattern(h)) = Filtered(h, FALSE) \union Filtered(h, TRUE)
           /\ \A id \in Ids : /\ Found(h, IdPattern(h, id)) = FilteredById(h, id)
                              /\ HasInnerEvent(h, id) <=> FilteredById(h, id) # {}
           /\ \A id \in Ids, param \in Params :
                  Found(h, IdParamPattern(h, id, param))
                      = FilteredById(h, id) \intersect FilteredByParam(h, param)
           /\ \A name \in Expressions :
                  LET asked == FilteredByName(h, name) \union FilteredByNamePart(h, name)
                      found == Found(h, NamePattern(h, name))
                  IN  /\ asked \subseteq found /\ found \subseteq Filtered(h, TRUE)
                      /\ Dotless(name) => found = asked
           /\ \A param \in Params : FilteredByParam(h, param) # {} => HasInnerEventParam(h, param)
    /\ \A r \in Runners :
           IsQueueEmpty(r) <=> \A h \in Handlers : RunnerOf[h] = r =>
               \A e \in Filtered(h, FALSE) \union Filtered(h, TRUE) : data[e].idle

\* To its handlers an FFRT queue is EventDispatch too, a synchronous event that is posted
\* included; only CancelAndWait takes events of others with it, and nothing is lost but by that
\* and the removals. Who waits for an event, or distributes one in place, keeps the handler: none
\* that is gone comes back.
Entries(content, S) == {[event |-> e, owner |-> content[e].owner] : e \in S}

Distributed ==
    {e \in Events : \E t \in Threads : \E i \in DOMAIN calls[t] :
                       calls[t][i].op = "task" /\ calls[t][i].event = e}

Gone == {h \in Handlers : Expired(h)}

ED == INSTANCE EventDispatch WITH
          Cancellable <- Runners,
          posted      <- Entries(data, Queued),
          running     <- Entries(data, Distributed),
          expired     <- Gone

Removal ==
    \E h \in Handlers :
        \/ RemoveAllEvents(h)
        \/ \E id \in Ids : RemoveEvent(h, id)
        \/ \E id \in Ids, param \in Params : RemoveEventParam(h, id, param)
        \/ \E name \in Expressions : RemoveTask(h, name)
        \/ \E t \in Threads : CancelAndWait(t, h)

ImplementsEventDispatch == ED!Spec /\ [][ED!Serving \/ Removal]_(ED!vars)
=============================================================================
