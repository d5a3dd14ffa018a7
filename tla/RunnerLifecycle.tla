--------------------------- MODULE RunnerLifecycle ---------------------------
(***************************************************************************)
(* EventRunner from Create to its destructor, for runners with threads of  *)
(* their own (deposit_): these threads, and the ThreadCollector, which     *)
(* joins them while the process lives (on a thread of its own) and when it *)
(* exits (Stop).                                                           *)
(*                                                                         *)
(* What is done under collectorLock_ or queueLock_ is one step, or one for *)
(* each turn of a loop; threadLock_, which is held across a join, is       *)
(* explicit. The loop that dispatches is EventQueue's matter: here it ends *)
(* once the queue is finished.                                             *)
(***************************************************************************)
EXTENDS Sequences, Integers

CONSTANTS
    Runners,
    KindOf,   \* "deposited": its own thread, mode DEFAULT; "noWait": a thread for each Run
    Threads,  \* thread ids, used again after a join
    Clients,  \* threads that create, run and release runners
    NoRunner, NoThread,
    Exit,     \* the thread on which the process exits
    Free,     \* nobody owns threadLock_
    MaxRuns   \* how often Run is called for a runner

ASSUME LifecycleAssumption ==
    /\ KindOf \in [Runners -> {"deposited", "noWait"}]
    /\ NoRunner \notin Runners
    /\ NoThread \notin Threads
    /\ Exit \notin Threads
    /\ Free \notin Threads \union {Exit}
    /\ MaxRuns \in Nat

VARIABLES
    life,       \* per runner: "none", "alive", "expired" (no references left), "gone" (destroyed)
    finished,   \* per runner: finished_ of its queue
    running,    \* per runner: EventRunner::running_
    runs,       \* per runner: how often Run has been called
    pc,         \* per thread: where it is; "unused" before its creation and after the join
    of,         \* per thread: its runner
    does,       \* per client: what it is in the middle of
    uses,       \* per client: the runner it holds a reference to meanwhile
    owns,       \* per client: the std::thread it holds meanwhile
    destroying, \* destroying_
    reclaims,   \* reclaims_
    deposit,    \* the keys of depositMap_
    threadLock, \* the owner of threadLock_
    needCreateThread, \* needCreateThread_
    collector,  \* where the collector's thread is; "none" before its creation
    collecting, \* the thread it joins
    told,       \* its condition_ has been notified
    exit,       \* where ThreadCollector::Stop is
    exiting     \* the thread it stops and joins

runnerVars == <<life, finished, running, runs>>
threadVars == <<pc, of>>
clientVars == <<does, uses, owns>>
tableVars == <<destroying, reclaims, deposit>>
collectorVars == <<collector, collecting, told>>
exitVars == <<exit, exiting>>
workVars == <<threadLock, needCreateThread, collectorVars, exitVars>>
poolVars == <<tableVars, workVars>>
vars == <<runnerVars, threadVars, clientVars, poolVars>>

-----------------------------------------------------------------------------
(* Clients *)

\* Mutant of Idle: the thread stays with the client.
IdleOwning(c) ==
    /\ does' = [does EXCEPT ![c] = "idle"]
    /\ uses' = [uses EXCEPT ![c] = NoRunner]
    /\ UNCHANGED owns

Idle(c) ==
    /\ does' = [does EXCEPT ![c] = "idle"]
    /\ uses' = [uses EXCEPT ![c] = NoRunner]
    /\ owns' = [owns EXCEPT ![c] = NoThread]

\* Client c starts a thread for r and goes on to deposit it.
Spawn(c, r) ==
    /\ does' = [does EXCEPT ![c] = "attach"]
    /\ uses' = [uses EXCEPT ![c] = r]
    /\ \E t \in Threads :
           /\ pc[t] = "unused"
           /\ pc' = [pc EXCEPT ![t] = "born"]
           /\ of' = [of EXCEPT ![t] = r]
           /\ owns' = [owns EXCEPT ![c] = t]

Create(c, r) ==
    /\ does[c] = "idle"
    /\ life[r] = "none"
    /\ life' = [life EXCEPT ![r] = "alive"]
    /\ IF KindOf[r] = "deposited"
       THEN Spawn(c, r)
       ELSE UNCHANGED <<threadVars, clientVars>>
    /\ UNCHANGED <<finished, running, runs, poolVars>>

\* ThreadCollector::Deposit; NO_WAIT's Run returns right after it.
Attach(c) ==
    /\ does[c] = "attach"
    /\ IF destroying
       THEN /\ does' = [does EXCEPT ![c] = "abandon"]
            /\ UNCHANGED <<uses, owns, deposit, running>>
       ELSE /\ deposit' = deposit \union {owns[c]}
            /\ running' = [running EXCEPT ![uses[c]] = FALSE]
            /\ Idle(c)
    /\ UNCHANGED <<life, finished, runs, threadVars, destroying, reclaims, workVars>>

\* "Failed to attach thread, maybe process is exiting": stop it and join it here.
Abandon(c) ==
    /\ does[c] = "abandon"
    /\ finished' = [finished EXCEPT ![uses[c]] = TRUE]
    /\ does' = [does EXCEPT ![c] = "join"]
    /\ UNCHANGED <<life, running, runs, threadVars, uses, owns, poolVars>>

JoinAbandoned(c) ==
    /\ does[c] = "join"
    /\ pc[owns[c]] = "ended"
    /\ pc' = [pc EXCEPT ![owns[c]] = "unused"]
    /\ running' = [running EXCEPT ![uses[c]] = FALSE]
    /\ Idle(c)
    /\ UNCHANGED <<life, finished, runs, of, poolVars>>

\* EventRunner::Run, not permitted to deposited runners, if running_ was not set.
Run(c, r) ==
    /\ does[c] = "idle"
    /\ life[r] = "alive"
    /\ KindOf[r] = "noWait"
    /\ ~running[r]
    /\ runs[r] < MaxRuns
    /\ runs' = [runs EXCEPT ![r] = @ + 1]
    /\ running' = [running EXCEPT ![r] = TRUE]
    /\ Spawn(c, r)
    /\ UNCHANGED <<life, finished, poolVars>>

\* The last reference goes: weak references expire before ~EventRunner begins.
Release(r) ==
    /\ life[r] = "alive"
    /\ \A c \in Clients : uses[c] # r
    /\ life' = [life EXCEPT ![r] = "expired"]
    /\ UNCHANGED <<finished, running, runs, threadVars, clientVars, poolVars>>

\* ~EventRunner: Stop, as deposit_ is set; then innerRunner_ goes.
Destroy(r) ==
    /\ life[r] = "expired"
    /\ life' = [life EXCEPT ![r] = "gone"]
    /\ finished' = [finished EXCEPT ![r] = TRUE]
    /\ UNCHANGED <<running, runs, threadVars, clientVars, poolVars>>

-----------------------------------------------------------------------------
(* The threads of the runners *)

\* ThreadMain: wp.lock() fails if the runner has been destroyed before, unless another
\* thread of a NO_WAIT runner, not ended yet, still holds innerRunner_.
ThreadMain(t) ==
    /\ pc[t] = "born"
    /\ \/ /\ \/ life[of[t]] # "gone"
             \/ \E u \in Threads : of[u] = of[t] /\ pc[u] \notin {"unused", "born", "ended"}
          /\ pc' = [pc EXCEPT ![t] = "prepare"]
       \/ /\ life[of[t]] = "gone"
          /\ pc' = [pc EXCEPT ![t] = "reclaim"]
    /\ UNCHANGED <<runnerVars, of, clientVars, poolVars>>

\* EventRunnerImpl::Run: Prepare comes first, ...
Prepare(t) ==
    /\ pc[t] = "prepare"
    /\ finished' = [finished EXCEPT ![of[t]] = FALSE]
    /\ pc' = [pc EXCEPT ![t] = "check"]
    /\ UNCHANGED <<life, running, runs, of, clientVars, poolVars>>

\* Mutant of CheckOwner: the owner is not checked.
EnterLoop(t) ==
    /\ pc[t] = "check"
    /\ pc' = [pc EXCEPT ![t] = "loop"]
    /\ UNCHANGED <<runnerVars, of, clientVars, poolVars>>

\* ... then "Make sure instance of 'EventRunner' exists."
CheckOwner(t) ==
    /\ pc[t] = "check"
    /\ pc' = [pc EXCEPT ![t] = IF life[of[t]] = "alive" THEN "loop" ELSE "reclaim"]
    /\ UNCHANGED <<runnerVars, of, clientVars, poolVars>>

\* The default loop ends when the queue is finished, that of NO_WAIT by itself.
LeaveLoop(t) ==
    /\ pc[t] = "loop"
    /\ KindOf[of[t]] = "noWait" \/ finished[of[t]]
    /\ pc' = [pc EXCEPT ![t] = "reclaim"]
    /\ UNCHANGED <<runnerVars, of, clientVars, poolVars>>

\* Mutant of ReclaimCurrentThread: the waiting collector is not notified.
ReclaimSilently(t) ==
    /\ pc[t] = "reclaim"
    /\ pc' = [pc EXCEPT ![t] = IF destroying THEN "ended" ELSE "tryLock"]
    /\ reclaims' = IF destroying THEN reclaims ELSE Append(reclaims, t)
    /\ UNCHANGED <<runnerVars, of, clientVars, destroying, deposit, workVars>>

\* ReclaimCurrentThread under collectorLock_.
ReclaimCurrentThread(t) ==
    /\ pc[t] = "reclaim"
    /\ IF destroying
       THEN /\ pc' = [pc EXCEPT ![t] = "ended"]
            /\ UNCHANGED <<reclaims, told>>
       ELSE /\ pc' = [pc EXCEPT ![t] = "tryLock"]
            /\ reclaims' = Append(reclaims, t)
            /\ told' = (told \/ collector = "waiting")
    /\ UNCHANGED <<runnerVars, of, clientVars, destroying, deposit, threadLock,
                   needCreateThread, collector, collecting, exitVars>>

\* Mutant of TryLock: the thread waits for threadLock_.
WaitForLock(t) ==
    /\ pc[t] = "tryLock"
    /\ threadLock = Free
    /\ threadLock' = t
    /\ pc' = [pc EXCEPT ![t] = "create"]
    /\ UNCHANGED <<runnerVars, of, clientVars, tableVars, needCreateThread, collectorVars,
                   exitVars>>

\* threadLock_.try_lock()
TryLock(t) ==
    /\ pc[t] = "tryLock"
    /\ IF threadLock = Free
       THEN threadLock' = t /\ pc' = [pc EXCEPT ![t] = "create"]
       ELSE pc' = [pc EXCEPT ![t] = "ended"] /\ UNCHANGED threadLock
    /\ UNCHANGED <<runnerVars, of, clientVars, tableVars, needCreateThread, collectorVars,
                   exitVars>>

\* Mutant of CreateCollector: needCreateThread_ is not looked at.
CreateAlways(t) ==
    /\ pc[t] = "create"
    /\ pc' = [pc EXCEPT ![t] = "ended"]
    /\ threadLock' = Free
    /\ collector' = IF collector = "none" THEN "start" ELSE collector
    /\ UNCHANGED <<runnerVars, of, clientVars, tableVars, needCreateThread, collecting, told,
                   exitVars>>

\* "Start daemon thread to collect finished threads, if not exist."
CreateCollector(t) ==
    /\ pc[t] = "create"
    /\ pc' = [pc EXCEPT ![t] = "ended"]
    /\ threadLock' = Free
    /\ collector' = IF collector = "none" /\ needCreateThread THEN "start" ELSE collector
    /\ UNCHANGED <<runnerVars, of, clientVars, tableVars, needCreateThread, collecting, told,
                   exitVars>>

-----------------------------------------------------------------------------
(* ThreadCollector::Run *)

\* At the outer loop if not destroying_, or in the inner loop.
Collecting == collector = "inner" \/ (collector = "start" /\ ~destroying)

\* Mutant of Collect: any deposited thread is taken.
CollectAny ==
    /\ Collecting
    /\ reclaims # <<>>
    /\ reclaims' = SubSeq(reclaims, 1, Len(reclaims) - 1)
    /\ \E t \in deposit :
           /\ deposit' = deposit \ {t}
           /\ collector' = "joining"
           /\ collecting' = t
    /\ UNCHANGED <<runnerVars, threadVars, clientVars, destroying, threadLock,
                   needCreateThread, told, exitVars>>

\* Takes the last id; DoReclaimLocked does nothing for one that is not deposited.
Collect ==
    /\ Collecting
    /\ reclaims # <<>>
    /\ reclaims' = SubSeq(reclaims, 1, Len(reclaims) - 1)
    /\ LET t == reclaims[Len(reclaims)]
       IN  IF t \in deposit
           THEN /\ deposit' = deposit \ {t}
                /\ collector' = "joining"
                /\ collecting' = t
           ELSE /\ collector' = "inner"
                /\ UNCHANGED <<deposit, collecting>>
    /\ UNCHANGED <<runnerVars, threadVars, clientVars, destroying, threadLock,
                   needCreateThread, told, exitVars>>

JoinCollected ==
    /\ collector = "joining"
    /\ pc[collecting] = "ended"
    /\ pc' = [pc EXCEPT ![collecting] = "unused"]
    /\ collector' = "inner"
    /\ collecting' = NoThread
    /\ UNCHANGED <<runnerVars, of, clientVars, tableVars, threadLock, needCreateThread, told,
                   exitVars>>

\* Nothing to reclaim: wait, or leave if destroying_.
CollectorWaits ==
    /\ Collecting
    /\ reclaims = <<>>
    /\ collector' = IF destroying THEN "done" ELSE "waiting"
    /\ UNCHANGED <<runnerVars, threadVars, clientVars, tableVars, threadLock,
                   needCreateThread, collecting, told, exitVars>>

CollectorLeaves ==
    /\ collector = "start"
    /\ destroying
    /\ collector' = "done"
    /\ UNCHANGED <<runnerVars, threadVars, clientVars, tableVars, threadLock,
                   needCreateThread, collecting, told, exitVars>>

\* condition_.wait returns, notified or not.
CollectorWakes ==
    /\ collector = "waiting"
    /\ collector' = "start"
    /\ told' = FALSE
    /\ UNCHANGED <<runnerVars, threadVars, clientVars, tableVars, threadLock,
                   needCreateThread, collecting, exitVars>>

-----------------------------------------------------------------------------
(* ThreadCollector::Stop, when the process exits *)

BeginStop ==
    /\ exit = "none"
    /\ exit' = "lock"
    /\ destroying' = TRUE
    /\ told' = (told \/ collector = "waiting")
    /\ UNCHANGED <<runnerVars, threadVars, clientVars, reclaims, deposit, threadLock,
                   needCreateThread, collector, collecting, exiting>>

LockThread ==
    /\ exit = "lock"
    /\ threadLock = Free
    /\ threadLock' = Exit
    /\ exit' = "joinCollector"
    /\ UNCHANGED <<runnerVars, threadVars, clientVars, tableVars, needCreateThread,
                   collectorVars, exiting>>

\* "Wait utils collect thread finished, if exists."
JoinCollector ==
    /\ exit = "joinCollector"
    /\ collector \in {"none", "done"}
    /\ needCreateThread' = FALSE
    /\ threadLock' = Free
    /\ exit' = "reclaimAll"
    /\ UNCHANGED <<runnerVars, threadVars, clientVars, tableVars, collectorVars, exiting>>

\* Mutant of ReclaimAll: the thread stays in the map.
ReclaimKeeping ==
    /\ exit = "reclaimAll"
    /\ exit' = "finish"
    /\ exiting' \in deposit
    /\ UNCHANGED <<runnerVars, threadVars, clientVars, tableVars, threadLock,
                   needCreateThread, collectorVars>>

\* "All thread deposited need to stop one by one."
ReclaimAll ==
    /\ exit = "reclaimAll"
    /\ IF deposit = {}
       THEN /\ exit' = "exited"
            /\ UNCHANGED <<deposit, exiting>>
       ELSE /\ exit' = "finish"
            /\ exiting' \in deposit
            /\ deposit' = deposit \ {exiting'}
    /\ UNCHANGED <<runnerVars, threadVars, clientVars, destroying, reclaims, threadLock,
                   needCreateThread, collectorVars>>

\* "Call exit callback to stop loop in thread."
ThreadExit ==
    /\ exit = "finish"
    /\ finished' = [finished EXCEPT ![of[exiting]] = TRUE]
    /\ exit' = "join"
    /\ UNCHANGED <<life, running, runs, threadVars, clientVars, tableVars, threadLock,
                   needCreateThread, collectorVars, exiting>>

JoinExiting ==
    /\ exit = "join"
    /\ pc[exiting] = "ended"
    /\ pc' = [pc EXCEPT ![exiting] = "unused"]
    /\ exit' = "reclaimAll"
    /\ exiting' = NoThread
    /\ UNCHANGED <<runnerVars, of, clientVars, tableVars, threadLock, needCreateThread,
                   collectorVars>>

-----------------------------------------------------------------------------
Init ==
    /\ life = [r \in Runners |-> "none"]
    /\ finished = [r \in Runners |-> TRUE]
    /\ running = [r \in Runners |-> FALSE]
    /\ runs = [r \in Runners |-> 0]
    /\ pc = [t \in Threads |-> "unused"]
    /\ of = [t \in Threads |-> NoRunner]
    /\ does = [c \in Clients |-> "idle"]
    /\ uses = [c \in Clients |-> NoRunner]
    /\ owns = [c \in Clients |-> NoThread]
    /\ destroying = FALSE
    /\ reclaims = <<>>
    /\ deposit = {}
    /\ threadLock = Free
    /\ needCreateThread = TRUE
    /\ collector = "none"
    /\ collecting = NoThread
    /\ told = FALSE
    /\ exit = "none"
    /\ exiting = NoThread

Client(c) ==
    \/ \E r \in Runners : Create(c, r) \/ Run(c, r)
    \/ Attach(c) \/ Abandon(c) \/ JoinAbandoned(c)

Thread(t) ==
    \/ ThreadMain(t) \/ Prepare(t) \/ CheckOwner(t) \/ LeaveLoop(t)
    \/ ReclaimCurrentThread(t) \/ TryLock(t) \/ CreateCollector(t)

Collector ==
    \/ Collect \/ JoinCollected \/ CollectorWaits \/ CollectorLeaves \/ CollectorWakes

Process == BeginStop \/ LockThread \/ JoinCollector \/ ReclaimAll \/ ThreadExit \/ JoinExiting

Next ==
    \/ \E c \in Clients : Client(c)
    \/ \E r \in Runners : Release(r) \/ Destroy(r)
    \/ \E t \in Threads : Thread(t)
    \/ Collector
    \/ Process

\* Threads that can go on do, and who has begun an operation ends it. Nobody is obliged to
\* create, run or release a runner, nor the process to exit. A condition variable
\* may wake its thread for no reason, but need not.
Fairness ==
    /\ \A c \in Clients : WF_vars(Attach(c) \/ Abandon(c) \/ JoinAbandoned(c))
    /\ \A r \in Runners : WF_vars(Destroy(r))
    /\ \A t \in Threads : WF_vars(Thread(t))
    /\ WF_vars(Collect \/ JoinCollected \/ CollectorWaits \/ CollectorLeaves)
    /\ WF_vars(CollectorWakes /\ told)
    /\ SF_vars(LockThread)
    /\ WF_vars(JoinCollector \/ ReclaimAll \/ ThreadExit \/ JoinExiting)

Spec == Init /\ [][Next]_vars

FairSpec == Spec /\ Fairness

-----------------------------------------------------------------------------
(* Properties *)

\* Past its loop, on the way out of ThreadMain.
Ending == {"tryLock", "create", "ended"}

\* Types; a client holds a runner and a thread exactly while its operation needs them.
TypeOK ==
    /\ life \in [Runners -> {"none", "alive", "expired", "gone"}]
    /\ finished \in [Runners -> BOOLEAN]
    /\ running \in [Runners -> BOOLEAN]
    /\ runs \in [Runners -> 0 .. MaxRuns]
    /\ pc \in [Threads -> {"unused", "born", "prepare", "check", "loop", "reclaim"} \union Ending]
    /\ of \in [Threads -> Runners \union {NoRunner}]
    /\ \A t \in Threads : pc[t] # "unused" => of[t] \in Runners
    /\ does \in [Clients -> {"idle", "attach", "abandon", "join"}]
    /\ uses \in [Clients -> Runners \union {NoRunner}]
    /\ owns \in [Clients -> Threads \union {NoThread}]
    /\ \A c \in Clients :
           /\ does[c] = "idle" <=> uses[c] = NoRunner
           /\ does[c] = "idle" <=> owns[c] = NoThread
    /\ destroying \in BOOLEAN
    /\ reclaims \in Seq(Threads)
    /\ deposit \in SUBSET Threads
    /\ threadLock \in Threads \union {Exit, Free}
    /\ needCreateThread \in BOOLEAN
    /\ collector \in {"none", "start", "inner", "joining", "waiting", "done"}
    /\ collecting \in Threads \union {NoThread}
    /\ collector = "joining" <=> collecting # NoThread
    /\ told \in BOOLEAN
    /\ exit \in {"none", "lock", "joinCollector", "reclaimAll", "finish", "join", "exited"}
    /\ exiting \in Threads \union {NoThread}
    /\ exit \in {"finish", "join"} <=> exiting # NoThread

\* Who holds the std::thread of t.
Holders(t) ==
    {c \in Clients : owns[c] = t}
        \union {x \in {"map"} : t \in deposit}
        \union {x \in {"collector"} : collecting = t}
        \union {x \in {"exit"} : exiting = t}

\* From its creation to its join a thread is held in one place, by its creator, the map,
\* the collector or the exiting process: none is joined twice and none is dropped, however
\* Deposit, reclaims and Stop interleave.
EveryThreadIsHeld ==
    \A t \in Threads :
        /\ pc[t] # "unused" <=> Holders(t) # {}
        /\ \A x, y \in Holders(t) : x = y

\* The collector joins a thread on its way out, never one still in its loop: an id in
\* reclaims_ never names a new thread that got the id of an old one.
CollectorJoinsEnding == collector = "joining" => pc[collecting] \in Ending

\* A thread that asked to be reclaimed is not forgotten: the collector does not sleep over
\* it, and somebody will start the collector if there is none, even when two threads end
\* together and one fails to get threadLock_.
NoStrandedReclaim ==
    reclaims # <<>> =>
        /\ collector = "waiting" => told
        /\ collector = "none" => destroying \/ \E t \in Threads : pc[t] \in {"tryLock", "create"}

\* Stop joins the collector's thread once and for all, though threads that end at that
\* moment would start one.
NoCollectorAfterStop ==
    exit \in {"reclaimAll", "finish", "join", "exited"} => collector \in {"none", "done"}

\* The thread of a released runner is joined while the process lives, whether the release
\* comes before, during or after the start of its loop: Prepare, which clears finished_, is
\* followed by a look at the owner, and the owner expires before its destructor calls Stop.
ReleasedThreadsAreJoined ==
    \A t \in Threads :
        pc[t] # "unused" /\ KindOf[of[t]] = "deposited" /\ life[of[t]] = "gone"
            ~> (pc[t] = "unused" \/ destroying)

\* The exit callback was called before the thread's Prepare, which undid it.
StopWasLost == exit = "join" /\ pc[exiting] = "loop" /\ ~finished[of[exiting]]

\* The process exits: Stop does not wait for a collector that waits for a thread that waits
\* for threadLock_, and every deposited thread ends, unless a Stop is lost on a thread whose
\* runner lives and that has not come to Prepare yet.
ExitStopsAll == destroying ~> (exit = "exited" \/ StopWasLost)

=============================================================================
