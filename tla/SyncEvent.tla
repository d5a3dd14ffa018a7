------------------------------ MODULE SyncEvent ------------------------------
(***************************************************************************)
(* Synchronous events: a thread sends an event to a handler and waits on   *)
(* the event's WaiterImp until the event is recycled. The thread may itself *)
(* be a runner's, in the middle of a callback, or lend itself to a runner. *)
(*                                                                         *)
(* What a thread is doing is a stack of calls: loops of runners, callbacks *)
(* of handlers, synchronous sends. Deposited runners have a thread of      *)
(* their own from the start; the others are run by whoever calls Run. FFRT *)
(* runners are left out. A handler lives while somebody sends to it.       *)
(***************************************************************************)
EXTENDS Integers, Sequences

CONSTANTS
    Threads,
    Runners,
    Home,         \* deposited runner -> its thread
    Handlers,
    RunnerOf,     \* per handler
    Events,       \* one for each send
    None,
    MaxCalls      \* bound on the calls nested in a thread

Deposited == DOMAIN Home

\* InnerEvent's WaiterImp; woken: condition_ has been notified since the sleeper began to wait.
Waiter == [finished : BOOLEAN, waitingCount : 0 .. 1, woken : BOOLEAN]

ASSUME SyncAssumption ==
    /\ Deposited \subseteq Runners
    /\ Home \in [Deposited -> Threads]
    /\ \A r, s \in Deposited : Home[r] = Home[s] => r = s
    /\ RunnerOf \in [Handlers -> Runners]
    /\ None \notin Runners \union Handlers \union Waiter
    /\ MaxCalls \in Nat

VARIABLES
    calls,         \* per thread: its stack of calls, the innermost last
    currentRunner, \* per thread: currentEventRunner
    running,       \* runners with running_ set
    finished,      \* runners whose queue has finished_ set
    queue,         \* per runner: queued events
    target,        \* per event: its owner, None before it is sent
    waiter         \* per event: its WaiterImp, or None

vars == <<calls, currentRunner, running, finished, queue, target, waiter>>

-----------------------------------------------------------------------------
Call == [op : {"prepare", "loop", "leave"}, runner : Runners, saved : Runners \union {None}]
        \union [op : {"callback", "callback in place"}, event : Events]
        \union [op : {"insert", "wait", "asleep"}, event : Events]

Top(t) == calls[t][Len(calls[t])]

\* Is t in a call of kind op.
In(t, op) == calls[t] # <<>> /\ Top(t).op = op

InCallback(t) == In(t, "callback") \/ In(t, "callback in place")

\* t runs code of a client, that may call the framework.
Free(t) == calls[t] = <<>> \/ InCallback(t)

Enter(t, c) == calls' = [calls EXCEPT ![t] = Append(@, c)]
Return(t) == calls' = [calls EXCEPT ![t] = SubSeq(@, 1, Len(@) - 1)]
Proceed(t, op) == calls' = [calls EXCEPT ![t][Len(calls[t])].op = op]

NewWaiter == [finished |-> FALSE, waitingCount |-> 0, woken |-> FALSE]

\* Mutant of Notified: finished_ is set only for those who wait already.
NotifiedIfWaiting(w) ==
    IF w # None /\ w.waitingCount > 0 THEN [w EXCEPT !.finished = TRUE, !.woken = TRUE] ELSE w

\* ClearEvent, when the event is recycled: WaiterImp::Notify if somebody may wait.
Notified(w) == IF w = None THEN w ELSE [w EXCEPT !.finished = TRUE, !.woken = @ \/ w.waitingCount > 0]

-----------------------------------------------------------------------------
(* Runners *)

IsRunning(r) == r \in Deposited \/ r \in running

\* Mutant of Run: no look at running_.
RunAnyway(t, r) ==
    /\ Free(t) /\ Len(calls[t]) < MaxCalls
    /\ r \notin Deposited
    /\ running' = running \union {r}
    /\ Enter(t, [op |-> "prepare", runner |-> r, saved |-> None])
    /\ UNCHANGED <<currentRunner, finished, queue, target, waiter>>

\* EventRunner::Run up to the exchange of running_.
Run(t, r) ==
    /\ Free(t) /\ Len(calls[t]) < MaxCalls
    /\ r \notin Deposited \union running
    /\ running' = running \union {r}
    /\ Enter(t, [op |-> "prepare", runner |-> r, saved |-> None])
    /\ UNCHANGED <<currentRunner, finished, queue, target, waiter>>

\* EventRunnerImpl::Run up to the loop: a Stop before is forgotten.
Prepare(t) ==
    /\ In(t, "prepare")
    /\ LET r == Top(t).runner IN
       /\ finished' = finished \ {r}
       /\ calls' = [calls EXCEPT ![t][Len(calls[t])] =
                        [op |-> "loop", runner |-> r, saved |-> currentRunner[t]]]
       /\ currentRunner' = [currentRunner EXCEPT ![t] = r]
    /\ UNCHANGED <<running, queue, target, waiter>>

\* Mutant of TakeEvent: the event stays in the queue while it is distributed.
TakeEventLeaving(t, e) ==
    /\ In(t, "loop")
    /\ Top(t).runner \notin finished
    /\ e \in queue[Top(t).runner]
    /\ Enter(t, [op |-> "callback", event |-> e])
    /\ UNCHANGED <<currentRunner, running, finished, queue, target, waiter>>

\* GetEvent returns an event (any: the priorities differ), whose owner distributes it.
TakeEvent(t, e) ==
    /\ In(t, "loop")
    /\ LET r == Top(t).runner IN
       /\ r \notin finished
       /\ e \in queue[r]
       /\ queue' = [queue EXCEPT ![r] = @ \ {e}]
    /\ Enter(t, [op |-> "callback", event |-> e])
    /\ UNCHANGED <<currentRunner, running, finished, target, waiter>>

\* Mutant of LeaveLoop: the old runner is not restored.
LeaveLoopForgetting(t) ==
    /\ In(t, "loop")
    /\ Top(t).runner \in finished
    /\ Proceed(t, "leave")
    /\ UNCHANGED <<currentRunner, running, finished, queue, target, waiter>>

\* GetEvent returns none; the old runner becomes the current one again.
LeaveLoop(t) ==
    /\ In(t, "loop")
    /\ Top(t).runner \in finished
    /\ currentRunner' = [currentRunner EXCEPT ![t] = Top(t).saved]
    /\ Proceed(t, "leave")
    /\ UNCHANGED <<running, finished, queue, target, waiter>>

\* running_ is reset only now: senders may still rely on it.
ReturnFromRun(t) ==
    /\ In(t, "leave")
    /\ running' = running \ {Top(t).runner}
    /\ Return(t)
    /\ UNCHANGED <<currentRunner, finished, queue, target, waiter>>

\* Any thread may stop a runner that is not deposited.
Stop(r) ==
    /\ r \in running
    /\ finished' = finished \union {r}
    /\ UNCHANGED <<calls, currentRunner, running, queue, target, waiter>>

-----------------------------------------------------------------------------
(* Sending *)

\* SendEvent by any thread, without waiting.
PostEvent(h, e) ==
    /\ target[e] = None
    /\ target' = [target EXCEPT ![e] = h]
    /\ queue' = [queue EXCEPT ![RunnerOf[h]] = @ \union {e}]
    /\ UNCHANGED <<calls, currentRunner, running, finished, waiter>>

\* SendSyncEvent up to SendEvent: within the runner's own loop the event is distributed here.
SendSyncEvent(t, h, e) ==
    /\ Free(t) /\ Len(calls[t]) < MaxCalls
    /\ target[e] = None
    /\ IsRunning(RunnerOf[h])
    /\ target' = [target EXCEPT ![e] = h]
    /\ IF RunnerOf[h] = currentRunner[t]
       THEN /\ Enter(t, [op |-> "callback in place", event |-> e])
            /\ UNCHANGED waiter
       ELSE /\ Enter(t, [op |-> "insert", event |-> e])
            /\ waiter' = [waiter EXCEPT ![e] = NewWaiter]
    /\ UNCHANGED <<currentRunner, running, finished, queue>>

\* SendEvent: the runner may have stopped meanwhile.
SendEvent(t) ==
    /\ In(t, "insert")
    /\ LET e == Top(t).event IN
       queue' = [queue EXCEPT ![RunnerOf[target[e]]] = @ \union {e}]
    /\ Proceed(t, "wait")
    /\ UNCHANGED <<currentRunner, running, finished, target, waiter>>

\* WaiterImp::Wait: the test of finished_, under the waiter's mutex.
Wait(t) ==
    /\ In(t, "wait")
    /\ LET e == Top(t).event IN
       IF waiter[e].finished
       THEN Return(t) /\ UNCHANGED waiter
       ELSE /\ waiter' = [waiter EXCEPT ![e].waitingCount = @ + 1]
            /\ Proceed(t, "asleep")
    /\ UNCHANGED <<currentRunner, running, finished, queue, target>>

\* Mutant of WakeUp: the condition is not tested again.
WakeUpOnce(t) ==
    /\ In(t, "asleep")
    /\ LET e == Top(t).event IN
       waiter' = [waiter EXCEPT ![e].waitingCount = @ - 1, ![e].woken = FALSE]
    /\ Return(t)
    /\ UNCHANGED <<currentRunner, running, finished, queue, target>>

\* Mutant of WakeUp: waitingCount_ is not taken back.
WakeUpCounted(t) ==
    /\ In(t, "asleep")
    /\ waiter' = [waiter EXCEPT ![Top(t).event].woken = FALSE]
    /\ Proceed(t, "wait")
    /\ UNCHANGED <<currentRunner, running, finished, queue, target>>

\* condition_.wait returns, perhaps without a notification; the loop tests again.
WakeUp(t) ==
    /\ In(t, "asleep")
    /\ LET e == Top(t).event IN
       waiter' = [waiter EXCEPT ![e].waitingCount = @ - 1, ![e].woken = FALSE]
    /\ Proceed(t, "wait")
    /\ UNCHANGED <<currentRunner, running, finished, queue, target>>

\* The callback returns: an event from the queue is recycled (ClearEvent), which notifies the
\* waiter; after a distribution in place SendSyncEvent returns.
EndCallback(t) ==
    /\ InCallback(t)
    /\ Return(t)
    /\ LET e == Top(t).event IN
       IF In(t, "callback")
       THEN waiter' = [waiter EXCEPT ![e] = Notified(@)]
       ELSE UNCHANGED waiter
    /\ UNCHANGED <<currentRunner, running, finished, queue, target>>

\* Anybody removes events of h, by any filter; their senders return.
RemoveEvent(h, events) ==
    LET r == RunnerOf[h] IN
    /\ events # {}
    /\ events \subseteq {e \in queue[r] : target[e] = h}
    /\ queue' = [queue EXCEPT ![r] = @ \ events]
    /\ waiter' = [e \in Events |-> IF e \in events THEN Notified(waiter[e]) ELSE waiter[e]]
    /\ UNCHANGED <<calls, currentRunner, running, finished, target>>

-----------------------------------------------------------------------------
DepositedLoop(r) == [op |-> "loop", runner |-> r, saved |-> None]

Init ==
    /\ calls = [t \in Threads |-> IF \E r \in Deposited : Home[r] = t
                                  THEN <<DepositedLoop(CHOOSE r \in Deposited : Home[r] = t)>>
                                  ELSE <<>>]
    /\ currentRunner = [t \in Threads |-> IF \E r \in Deposited : Home[r] = t
                                          THEN CHOOSE r \in Deposited : Home[r] = t
                                          ELSE None]
    /\ running = {}
    /\ finished = {}
    /\ queue = [r \in Runners |-> {}]
    /\ target = [e \in Events |-> None]
    /\ waiter = [e \in Events |-> None]

\* What the framework does in thread t.
Step(t) ==
    \/ Prepare(t) \/ LeaveLoop(t) \/ ReturnFromRun(t)
    \/ \E e \in Events : TakeEvent(t, e)
    \/ SendEvent(t) \/ Wait(t) \/ WakeUp(t) \/ EndCallback(t)

Next ==
    \/ \E t \in Threads :
           \/ Step(t)
           \/ \E r \in Runners : Run(t, r)
           \/ \E h \in Handlers, e \in Events : SendSyncEvent(t, h, e)
    \/ \E r \in Runners : Stop(r)
    \/ \E h \in Handlers :
           \/ \E e \in Events : PostEvent(h, e)
           \/ \E events \in SUBSET Events : RemoveEvent(h, events)

\* Threads go on, a notified thread wakes, a callback ends though it may run other runners, and
\* a runner takes events though it may be stopped and run again. Nobody is obliged to send, run,
\* stop or remove anything.
Fairness ==
    \A t \in Threads :
        /\ WF_vars(Prepare(t) \/ LeaveLoop(t) \/ ReturnFromRun(t) \/ SendEvent(t) \/ Wait(t))
        /\ WF_vars(WakeUp(t) /\ waiter[Top(t).event].woken)
        /\ SF_vars(EndCallback(t) \/ \E e \in Events : TakeEvent(t, e))

Spec == Init /\ [][Next]_vars

FairSpec == Spec /\ Fairness

-----------------------------------------------------------------------------
(* Properties *)

\* The type invariant; a thread waits in its innermost call only, and a waiter counts it.
TypeOK ==
    /\ calls \in [Threads -> Seq(Call)]
    /\ \A t \in Threads : \A i \in 1 .. Len(calls[t]) - 1 :
           calls[t][i].op \in {"loop", "callback", "callback in place"}
    /\ currentRunner \in [Threads -> Runners \union {None}]
    /\ running \subseteq Runners \ Deposited
    /\ finished \subseteq Runners \ Deposited
    /\ queue \in [Runners -> SUBSET Events]
    /\ target \in [Events -> Handlers \union {None}]
    /\ waiter \in [Events -> {None} \union Waiter]

\* Is call i of t a callback of handler h; or a loop of runner r.
IsCallback(t, i, h) ==
    calls[t][i].op \in {"callback", "callback in place"} /\ target[calls[t][i].event] = h
IsLoop(t, i, r) == calls[t][i].op = "loop" /\ calls[t][i].runner = r

\* A handler's callback runs directly in the loop of the handler's own runner, also when it is
\* called from SendSyncEvent: the loop is the innermost one of the thread, however runners are
\* run from within callbacks of others.
HandledInItsLoop ==
    \A t \in Threads, h \in Handlers : \A i \in 1 .. Len(calls[t]) :
        IsCallback(t, i, h) =>
            \E j \in 1 .. i - 1 :
                /\ IsLoop(t, j, RunnerOf[h])
                /\ \A k \in j + 1 .. i - 1 : calls[t][k].op # "loop"

\* Callbacks of one runner never run in two threads, though anybody may run and stop runners.
CallbacksAreSerial ==
    \A t, u \in Threads, g, h \in Handlers :
        \A i \in 1 .. Len(calls[t]), j \in 1 .. Len(calls[u]) :
            IsCallback(t, i, g) /\ IsCallback(u, j, h) /\ RunnerOf[g] = RunnerOf[h] => t = u

\* Is somebody in SendSyncEvent with e, waiting for its handling.
HasSender(e) ==
    \E t \in Threads : calls[t] # <<>> /\ Top(t).op \in {"insert", "wait", "asleep"} /\ Top(t).event = e

\* event_handler.h: "Send an event, and wait until this event has been handled." While an event
\* with a waiter is queued or handled by its runner, its sender has not returned and has not been
\* notified.
ReturnsAfterHandling ==
    \A e \in Events :
        waiter[e] # None /\ (\/ \E r \in Runners : e \in queue[r]
         \/ \E t \in Threads : \E i \in 1 .. Len(calls[t]) :
                calls[t][i] = [op |-> "callback", event |-> e])
        => HasSender(e) /\ ~waiter[e].finished

\* Events with their owners, as EventDispatch sees them. An event that is distributed in place is
\* none of the queue's.
Entries(owner, S) == {[event |-> e, owner |-> owner[e]] : e \in S}

Queued == UNION {queue[r] : r \in Runners}

Distributed ==
    {e \in Events : \E t \in Threads : \E i \in 1 .. Len(calls[t]) :
                       calls[t][i] = [op |-> "callback", event |-> e]}

ED == INSTANCE EventDispatch WITH
          Cancellable <- {},
          posted      <- Entries(target, Queued),
          running     <- Entries(target, Distributed),
          expired     <- {}

\* To its handlers all this is EventDispatch: whoever runs the runners, from whatever callbacks,
\* and however often they are stopped, an event is distributed by its runner at most once, one
\* at a time; and it leaves the queue in no other way than that, unless RemoveEvent takes it.
Removal == \E h \in Handlers, events \in SUBSET Events : RemoveEvent(h, events)

ImplementsEventDispatch == ED!Spec /\ [][ED!Serving \/ Removal]_(ED!vars)

-----------------------------------------------------------------------------
(* Liveness *)

Waits(t) == In(t, "wait") \/ In(t, "asleep")

\* t belongs to threads each of which waits for another one of them, or for a runner that
\* nobody serves: it is stopped, or not run, or another loop is run from within its callback.
Stuck(t) ==
    \E ts \in SUBSET Threads :
        /\ t \in ts
        /\ \A u \in ts :
               /\ Waits(u)
               /\ LET r == RunnerOf[target[Top(u).event]] IN
                  r \in finished \/ \A v \in Threads \ ts : currentRunner[v] # r

\* A sender that waits for ever is stuck for ever: nothing else keeps it, neither the event's
\* removal nor a notification before it sleeps, nor a Stop and a later Run.
OnlyTheStuckWait ==
    \A t \in Threads : <>[]Waits(t) => <>[]Stuck(t)
=============================================================================
