----------------------------- MODULE FdListeners -----------------------------
(***************************************************************************)
(* File descriptor listeners: the map listeners_ of each queue, the map    *)
(* and the kernel's interest set of each EpollIoWaiter and of the          *)
(* DeamonIoWaiter that all queues share, and the way from input on a       *)
(* descriptor to the call of OnReadable.                                   *)
(*                                                                         *)
(* Listeners are added and removed under the queueLock_ of one queue; the  *)
(* DeamonIoWaiter has no lock around its map and its epoll set together,   *)
(* so that the calls of several queues interleave there: each of its steps *)
(* is a step here. A queue's own waiter is only touched under the queue's  *)
(* lock, in one step; it calls back without the lock: it looks up its map, *)
(* then the queue looks up listeners_; anything may happen in between.     *)
(* Descriptor numbers are used again after a close. WRITABLE, SHUTDOWN and *)
(* EXCEPTION events go the same way as READABLE ones.                      *)
(***************************************************************************)
EXTENDS Integers

CONSTANTS
    Queues,
    Main,            \* the queue of the main runner
    UsesDeamon,      \* useDeamonIoWaiter_: the queues of FFRT runners
    Deamon,          \* the DeamonIoWaiter
    Handlers,
    Mortal,          \* the handlers that clients may let go of (a bound)
    QueueOf,         \* per handler
    Listeners,
    OwnerOf,         \* per listener: the handler it is added with
    VsyncListeners,  \* IsVsyncListener(), added with the task name "vSyncTask"
    DeamonListeners, \* GetIsDeamonWaiter() with MONITOR_FLAG set; else empty
    Fds,             \* descriptor numbers
    None,
    AddMayFail,      \* EPOLL_CTL_ADD may fail (EPERM, ENOSPC)
    Scenarios,       \* sets of listeners: those one behaviour uses (a bound)
    TidyClients      \* descriptors are closed only when no queue has a listener for them

ASSUME ListenerAssumption ==
    /\ Main \in Queues
    /\ UsesDeamon \subseteq Queues \ {Main}
    /\ Deamon \notin Queues
    /\ QueueOf \in [Handlers -> Queues]
    /\ OwnerOf \in [Listeners -> Handlers]
    /\ VsyncListeners \subseteq Listeners
    /\ DeamonListeners \subseteq Listeners
    /\ None \notin Listeners \union Fds
    /\ Scenarios \subseteq SUBSET Listeners
    /\ AddMayFail \in BOOLEAN /\ TidyClients \in BOOLEAN

Waiters == Queues \union {Deamon}

VARIABLES
    open,      \* per descriptor: is it a file
    readable,  \* per descriptor: input nobody has read yet
    edges,     \* descriptors the DeamonIoWaiter has still to report (EPOLLET)
    alive,     \* handlers that have not expired
    dying,     \* handlers that have expired and not been cleaned up after
    listeners, \* per queue and descriptor: listeners_
    io,        \* per waiter: fileDescriptorMap_ ("known") and the kernel's set ("watched")
    supportsFd,\* waiters with an epoll descriptor
    hand,      \* per waiter: the event it is about to deal with
    tasks,     \* tasks posted to call listeners
    work,      \* per queue: what the thread that holds queueLock_ has still to do
    overlapped,\* history: descriptors in two queues' calls of the DeamonIoWaiter at once
    used       \* the listeners clients use in this behaviour

fileVars == <<open, readable, edges>>
handlerVars == <<alive, dying>>
waiterVars == <<io, supportsFd>>
lockVars == <<work, overlapped>>
vars == <<fileVars, handlerVars, listeners, waiterVars, hand, tasks, lockVars, used>>

-----------------------------------------------------------------------------
(* The two kinds of waiters: the map and the kernel *)

Empty == [known |-> [fd \in Fds |-> None], watched |-> {}]

\* An entry of fileDescriptorMap_ determines the task's name and priority.
PriorityOf(l) == IF l \in VsyncListeners THEN "VIP" ELSE "HIGH"

\* The map entry stays if EPOLL_CTL_DEL fails.
RemoveFileDescriptor(w, fds) ==
    [known |-> [fd \in Fds |-> IF fd \in fds \intersect w.watched THEN None ELSE w.known[fd]],
     watched |-> w.watched \ fds]

\* EPOLL_CTL_ADD fails if fd is closed or watched already.
Added(w, fd, ok) == ok /\ open[fd] /\ fd \notin w.watched

\* emplace does not overwrite.
Inserted(w, fd, l) == IF w.known[fd] = None THEN [w EXCEPT !.known[fd] = l] ELSE w

AddFileDescriptor(w, fd, l, ok) ==
    IF Added(w, fd, ok)
    THEN [Inserted(w, fd, l) EXCEPT !.watched = @ \union {fd}]
    ELSE RemoveFileDescriptor(Inserted(w, fd, l), {fd})

\* What epoll_ctl may answer.
Answers == IF AddMayFail THEN BOOLEAN ELSE {TRUE}

-----------------------------------------------------------------------------
(* Under queueLock_ *)

\* Where the holder of the lock is: "visit" goes through listeners_; "ctlAdd", "ctlDel" and
\* "erase" are inside the DeamonIoWaiter; "own" is the call of the queue's own waiter. A
\* listener is there while one is added; a dying caller is ~EventHandler.
Idle == [at |-> "idle", fd |-> None, listener |-> None, todo |-> {}, caller |-> None]

Adding(at, fd, l, h) == [at |-> at, fd |-> fd, listener |-> l, todo |-> {}, caller |-> h]

Removing(at, fd, todo, h) ==
    [at |-> at, fd |-> fd, listener |-> None, todo |-> todo, caller |-> h]

InDeamon(w) == w.at \in {"ctlAdd", "ctlDel", "erase"}

Unlocked(q) == work[q] = Idle

Go(q, w) ==
    /\ work' = [work EXCEPT ![q] = w]
    /\ overlapped' = IF InDeamon(w) /\ \E p \in Queues \ {q} : InDeamon(work[p]) /\ work[p].fd = w.fd
                     THEN overlapped \union {w.fd}
                     ELSE overlapped

\* A removal goes on, or is over, and with it the destructor of a dying caller.
Proceed(q, w) ==
    IF w.at = "visit" /\ w.todo = {}
    THEN Go(q, Idle) /\ dying' = dying \ {w.caller}
    ELSE Go(q, w) /\ dying' = dying

\* Does the queue register l with the DeamonIoWaiter, with it as well, or not.
OnlyDeamon(q, l) == q \in UsesDeamon \/ (l \in DeamonListeners /\ l \notin VsyncListeners)
AlsoDeamon(q, l) == ~OnlyDeamon(q, l) /\ l \in VsyncListeners /\ q = Main

\* The DeamonIoWaiter gets its epoll descriptor and its thread when first needed.
StartEpollIoWaiter(q, l) == IF q \in UsesDeamon \/ l \in DeamonListeners THEN {Deamon} ELSE {}

\* The waiters that have an epoll descriptor afterwards.
EnsureIoWaiterLocked(q, l) == supportsFd \union {q} \union StartEpollIoWaiter(q, l)

\* Handler h begins to add listener l; refused if the queue has a listener for fd already.
\* The DeamonIoWaiter, if it is concerned, enters l in its map.
AddFileDescriptorListener(h, fd, l) ==
    LET q == QueueOf[h]
        toDeamon == /\ Deamon \in supportsFd'
                    /\ OnlyDeamon(q, l) \/ AlsoDeamon(q, l)
    IN
    /\ h \in alive
    /\ OwnerOf[l] = h /\ l \in used
    /\ open[fd]
    /\ Unlocked(q)
    /\ listeners[q][fd] = None
    /\ supportsFd' = EnsureIoWaiterLocked(q, l)
    /\ io' = IF toDeamon THEN [io EXCEPT ![Deamon] = Inserted(@, fd, l)] ELSE io
    /\ Go(q, Adding(IF toDeamon THEN "ctlAdd" ELSE "own", fd, l, h))
    /\ UNCHANGED <<fileVars, handlerVars, listeners, hand, tasks, used>>

\* The DeamonIoWaiter's call is over: a listener of its alone needs nothing else.
AfterDeamon(q) ==
    IF work[q].listener # None /\ OnlyDeamon(q, work[q].listener)
    THEN Idle
    ELSE [work[q] EXCEPT !.at = "own"]

\* DeamonIoWaiter::AddFileDescriptor goes on with EPOLL_CTL_ADD; if it fails it calls
\* RemoveFileDescriptor. Success decides for a listener of the DeamonIoWaiter alone.
EpollCtlAdd(q) ==
    LET fd == work[q].fd
        l == work[q].listener
    IN
    /\ work[q].at = "ctlAdd"
    /\ \E ok \in Answers :
           \/ /\ Added(io[Deamon], fd, ok)
              /\ io' = [io EXCEPT ![Deamon].watched = @ \union {fd}]
              /\ edges' = IF readable[fd] THEN edges \union {fd} ELSE edges
              /\ listeners' = IF OnlyDeamon(q, l) THEN [listeners EXCEPT ![q][fd] = l] ELSE listeners
              /\ Go(q, AfterDeamon(q))
           \/ /\ ~Added(io[Deamon], fd, ok)
              /\ Go(q, [work[q] EXCEPT !.at = "ctlDel"])
              /\ UNCHANGED <<io, edges, listeners>>
    /\ UNCHANGED <<open, readable, handlerVars, supportsFd, hand, tasks, used>>

\* DeamonIoWaiter::RemoveFileDescriptor: it gives up if EPOLL_CTL_DEL fails.
EpollCtlDel(q) ==
    LET fd == work[q].fd IN
    /\ work[q].at = "ctlDel"
    /\ io' = [io EXCEPT ![Deamon].watched = @ \ {fd}]
    /\ edges' = edges \ {fd}
    /\ Go(q, IF fd \in io[Deamon].watched THEN [work[q] EXCEPT !.at = "erase"] ELSE AfterDeamon(q))
    /\ UNCHANGED <<open, readable, handlerVars, listeners, supportsFd, hand, tasks, used>>

EraseFileDescriptorMap(q) ==
    /\ work[q].at = "erase"
    /\ io' = [io EXCEPT ![Deamon].known[work[q].fd] = None]
    /\ Go(q, AfterDeamon(q))
    /\ UNCHANGED <<fileVars, handlerVars, listeners, supportsFd, hand, tasks, used>>

\* The queue's own waiter adds the listener, and its answer decides.
AddToOwnWaiter(q) ==
    LET fd == work[q].fd
        l == work[q].listener
    IN
    /\ work[q].at = "own" /\ l # None
    /\ \E ok \in Answers :
           /\ io' = [io EXCEPT ![q] = AddFileDescriptor(@, fd, l, ok)]
           /\ listeners' = IF Added(io[q], fd, ok)
                           THEN [listeners EXCEPT ![q][fd] = l]
                           ELSE listeners
    /\ Go(q, Idle)
    /\ UNCHANGED <<fileVars, handlerVars, supportsFd, hand, tasks, used>>

\* Mutant of Unregister: the queue's own waiter is not told.
UnregisterSilently(q) ==
    /\ work[q].at = "own" /\ work[q].listener = None
    /\ listeners' = [listeners EXCEPT ![q][work[q].fd] = None]
    /\ Proceed(q, Removing("visit", None, work[q].todo, work[q].caller))
    /\ UNCHANGED <<fileVars, alive, io, supportsFd, hand, tasks, used>>

\* The queue's own waiter and listeners_ forget the descriptor.
Unregister(q) ==
    /\ work[q].at = "own" /\ work[q].listener = None
    /\ io' = [io EXCEPT ![q] = RemoveFileDescriptor(@, {work[q].fd})]
    /\ listeners' = [listeners EXCEPT ![q][work[q].fd] = None]
    /\ Proceed(q, Removing("visit", None, work[q].todo, work[q].caller))
    /\ UNCHANGED <<fileVars, alive, supportsFd, hand, tasks, used>>

\* The filters of RemoveListenerByOwner and, for a caller that is gone, of
\* RemoveInvalidFileDescriptor.
Filter(l, h) == IF h \in alive THEN OwnerOf[l] = h ELSE OwnerOf[l] \notin alive

\* RemoveFileDescriptorListenerLocked, one descriptor of listeners_.
RemoveFileDescriptorListenerLocked(q, fd) ==
    LET l == listeners[q][fd]
        h == work[q].caller
        left == work[q].todo \ {fd}
        at == IF q \in UsesDeamon \/ l \in DeamonListeners THEN "ctlDel" ELSE "own"
    IN
    /\ work[q].at = "visit" /\ fd \in work[q].todo
    /\ Proceed(q, IF Filter(l, h) THEN Removing(at, fd, left, h) ELSE Removing("visit", None, left, h))
    /\ UNCHANGED <<fileVars, alive, listeners, waiterVars, hand, tasks, used>>

VisitListeners(q, h) ==
    /\ Unlocked(q)
    /\ Proceed(q, Removing("visit", None, {fd \in Fds : listeners[q][fd] # None}, h))

RemoveListenerByOwner(h) ==
    /\ h \in alive
    /\ VisitListeners(QueueOf[h], h)
    /\ UNCHANGED <<fileVars, alive, listeners, waiterVars, hand, tasks, used>>

\* Handler h removes the listener of fd, whoever has added it. The vsync listener of the main
\* runner is removed from the DeamonIoWaiter as well, if that knows fd for it.
RemoveListenerByFd(h, fd) ==
    LET q == QueueOf[h]
        l == listeners[q][fd]
        atDeamon == \/ q \in UsesDeamon
                    \/ l \in DeamonListeners
                    \/ /\ io[Deamon].known[fd] \in VsyncListeners
                       /\ OwnerOf[l] \in alive
                       /\ q = Main
    IN
    /\ h \in alive
    /\ Unlocked(q)
    /\ l # None
    /\ Go(q, Removing(IF atDeamon THEN "ctlDel" ELSE "own", fd, {}, h))
    /\ UNCHANGED <<fileVars, handlerVars, listeners, waiterVars, hand, tasks, used>>

\* The last reference to h goes; whoever calls it holds one.
ReleaseHandler(h) ==
    /\ h \in alive \intersect Mortal
    /\ \A q \in Queues : work[q].caller # h
    /\ alive' = alive \ {h}
    /\ dying' = dying \union {h}
    /\ UNCHANGED <<fileVars, listeners, waiterVars, hand, tasks, lockVars, used>>

\* Mutant of RemoveInvalidFileDescriptor: only the events go.
RemoveOrphanEvents(h) ==
    /\ h \in dying
    /\ Unlocked(QueueOf[h])
    /\ dying' = dying \ {h}
    /\ tasks' = {t \in tasks : OwnerOf[t.listener] \in alive}
    /\ UNCHANGED <<fileVars, alive, listeners, waiterVars, hand, lockVars, used>>

\* RemoveOrphan drops the tasks of expired owners, RemoveInvalidFileDescriptor the listeners.
RemoveInvalidFileDescriptor(h) ==
    /\ h \in dying
    /\ tasks' = {t \in tasks : OwnerOf[t.listener] \in alive}
    /\ VisitListeners(QueueOf[h], h)
    /\ UNCHANGED <<fileVars, alive, listeners, waiterVars, hand, used>>

-----------------------------------------------------------------------------
(* The waiters *)

\* Mutant of WaitFails: the failing waiter is still used.
WaitFailsInPlace(q) ==
    /\ q \in supportsFd \ UsesDeamon
    /\ Unlocked(q)
    /\ hand[q] = None
    /\ supportsFd' = supportsFd \ {q}
    /\ listeners' = [listeners EXCEPT ![q] = Empty.known]
    /\ UNCHANGED <<fileVars, handlerVars, io, hand, tasks, lockVars, used>>

\* WaitFor fails: a NoneIoWaiter takes over, and listeners_ is cleared.
WaitFails(q) ==
    /\ q \in supportsFd \ UsesDeamon
    /\ Unlocked(q)
    /\ hand[q] = None
    /\ supportsFd' = supportsFd \ {q}
    /\ listeners' = [listeners EXCEPT ![q] = Empty.known]
    /\ io' = [io EXCEPT ![q] = Empty]
    /\ UNCHANGED <<fileVars, handlerVars, hand, tasks, lockVars, used>>

\* epoll_wait reports fd: again and again while there is input, to the DeamonIoWaiter once.
EpollWait(w, fd) ==
    /\ hand[w] = None
    /\ fd \in io[w].watched
    /\ IF w = Deamon THEN fd \in edges ELSE readable[fd]
    /\ edges' = IF w = Deamon THEN edges \ {fd} ELSE edges
    /\ hand' = [hand EXCEPT ![w] = [fd |-> fd, prio |-> None]]
    /\ UNCHANGED <<open, readable, handlerVars, listeners, waiterVars, tasks, lockVars, used>>

Reported(q, fd) == hand[q] = [fd |-> fd, prio |-> None]

\* WaitFor looks up its map; a poll for vsync only (TryEpollFd) passes over other listeners.
PassOver(q, fd) ==
    /\ Reported(q, fd)
    /\ io[q].known[fd] \notin VsyncListeners
    /\ hand' = [hand EXCEPT ![q] = None]
    /\ UNCHANGED <<fileVars, handlerVars, listeners, waiterVars, tasks, lockVars, used>>

\* Mutant of LookUp: as if every wait were a poll for vsync.
LookUpVsync(q, fd) ==
    /\ Reported(q, fd)
    /\ hand' = [hand EXCEPT ![q] = IF io[q].known[fd] \notin VsyncListeners
                                   THEN None
                                   ELSE [fd |-> fd, prio |-> "VIP"]]
    /\ UNCHANGED <<fileVars, handlerVars, listeners, waiterVars, tasks, lockVars, used>>

LookUp(q, fd) ==
    /\ Reported(q, fd)
    /\ hand' = [hand EXCEPT ![q] = IF io[q].known[fd] = None
                                   THEN None
                                   ELSE [fd |-> fd, prio |-> PriorityOf(io[q].known[fd])]]
    /\ UNCHANGED <<fileVars, handlerVars, listeners, waiterVars, tasks, lockVars, used>>

\* The queue's HandleFileDescriptorEvent: the listener comes from listeners_, the priority
\* from the waiter's map. A vsync task gets a handle time 49 days ahead.
HandleFileDescriptorEvent(q) ==
    /\ hand[q] # None
    /\ hand[q].prio # None
    /\ Unlocked(q)
    /\ hand' = [hand EXCEPT ![q] = None]
    /\ LET l == listeners[q][hand[q].fd] IN
       tasks' = IF l # None /\ OwnerOf[l] \in alive
                THEN tasks \union {[fd |-> hand[q].fd, listener |-> l, prio |-> hand[q].prio,
                                    vsync |-> l \in VsyncListeners]}
                ELSE tasks
    /\ UNCHANGED <<fileVars, handlerVars, listeners, waiterVars, lockVars, used>>

\* DeamonIoWaiter::HandleFileDescriptorEvent: the listener comes from its map; for the vsync
\* task, which the queue posts, it only reports to the frame scheduler.
DeamonHandleFileDescriptorEvent ==
    /\ hand[Deamon] # None
    /\ hand' = [hand EXCEPT ![Deamon] = None]
    /\ LET l == io[Deamon].known[hand[Deamon].fd] IN
       tasks' = IF l # None /\ OwnerOf[l] \in alive /\ l \notin VsyncListeners
                THEN tasks \union {[fd |-> hand[Deamon].fd, listener |-> l, prio |-> PriorityOf(l),
                                    vsync |-> FALSE]}
                ELSE tasks
    /\ UNCHANGED <<fileVars, handlerVars, listeners, waiterVars, lockVars, used>>

\* Referred to by a queue or a waiter; otherwise its client may have dropped the listener.
Held(l) ==
    \/ \E q \in Queues, fd \in Fds : listeners[q][fd] = l
    \/ \E w \in Waiters, fd \in Fds : io[w].known[fd] = l

\* The runner's thread, not in the waiter, takes a task; OnReadable reads all there is. A
\* vsync task is taken out of order from the VIP list only.
RunTask(t) ==
    /\ t \in tasks
    /\ hand[QueueOf[OwnerOf[t.listener]]] = None
    /\ t.vsync => t.prio = "VIP"
    /\ tasks' = tasks \ {t}
    /\ \/ /\ OwnerOf[t.listener] \in alive
          /\ readable' = [readable EXCEPT ![t.fd] = FALSE]
          /\ edges' = edges \ {t.fd}
       \/ /\ OwnerOf[t.listener] \notin alive \/ ~Held(t.listener)
          /\ UNCHANGED <<readable, edges>>
    /\ UNCHANGED <<open, handlerVars, listeners, waiterVars, hand, lockVars, used>>

-----------------------------------------------------------------------------
(* Descriptors *)

Open(fd) ==
    /\ ~open[fd]
    /\ open' = [open EXCEPT ![fd] = TRUE]
    /\ UNCHANGED <<readable, edges, handlerVars, listeners, waiterVars, hand, tasks, lockVars, used>>

\* The kernel forgets the descriptor, the maps do not.
Close(fd) ==
    /\ open[fd]
    /\ TidyClients => \A q \in Queues : listeners[q][fd] = None
    /\ open' = [open EXCEPT ![fd] = FALSE]
    /\ readable' = [readable EXCEPT ![fd] = FALSE]
    /\ edges' = edges \ {fd}
    /\ io' = [w \in Waiters |-> [io[w] EXCEPT !.watched = @ \ {fd}]]
    /\ overlapped' = IF \E q \in Queues : InDeamon(work[q]) /\ work[q].fd = fd
                     THEN overlapped
                     ELSE overlapped \ {fd}
    /\ UNCHANGED <<handlerVars, listeners, supportsFd, hand, tasks, work, used>>

Input(fd) ==
    /\ open[fd]
    /\ readable' = [readable EXCEPT ![fd] = TRUE]
    /\ edges' = edges \union ({fd} \intersect io[Deamon].watched)
    /\ UNCHANGED <<open, handlerVars, listeners, waiterVars, hand, tasks, lockVars, used>>

-----------------------------------------------------------------------------
Init ==
    /\ open = [fd \in Fds |-> FALSE]
    /\ readable = [fd \in Fds |-> FALSE]
    /\ edges = {}
    /\ alive = Handlers
    /\ dying = {}
    /\ listeners = [q \in Queues |-> Empty.known]
    /\ io = [w \in Waiters |-> Empty]
    /\ supportsFd = {}
    /\ hand = [w \in Waiters |-> None]
    /\ tasks = {}
    /\ work = [q \in Queues |-> Idle]
    /\ overlapped = {}
    /\ used \in Scenarios

Tasks == [fd : Fds, listener : Listeners, prio : {"VIP", "HIGH"}, vsync : BOOLEAN]

\* The holder of queueLock_ goes on.
GoOn(q) ==
    \/ EpollCtlAdd(q) \/ EpollCtlDel(q) \/ EraseFileDescriptorMap(q)
    \/ AddToOwnWaiter(q) \/ Unregister(q)
    \/ \E fd \in Fds : RemoveFileDescriptorListenerLocked(q, fd)

Next ==
    \/ \E h \in Handlers :
           \/ \E fd \in Fds, l \in Listeners : AddFileDescriptorListener(h, fd, l)
           \/ \E fd \in Fds : RemoveListenerByFd(h, fd)
           \/ RemoveListenerByOwner(h)
           \/ ReleaseHandler(h) \/ RemoveInvalidFileDescriptor(h)
    \/ \E w \in Waiters, fd \in Fds : EpollWait(w, fd)
    \/ \E q \in Queues, fd \in Fds : PassOver(q, fd) \/ LookUp(q, fd)
    \/ \E q \in Queues : GoOn(q) \/ HandleFileDescriptorEvent(q) \/ WaitFails(q)
    \/ DeamonHandleFileDescriptorEvent
    \/ \E t \in tasks : RunTask(t)
    \/ \E fd \in Fds : Open(fd) \/ Close(fd) \/ Input(fd)

\* The listeners whose callback is a plain task of a runner with a waiter of its own.
PlainListeners ==
    {l \in Listeners \ (VsyncListeners \union DeamonListeners) :
        QueueOf[OwnerOf[l]] \notin UsesDeamon}

Serves(fd, l) == \E t \in tasks : t.fd = fd /\ t.listener = l /\ RunTask(t)

\* What is done for the plain listeners: a runner's waiting goes on, epoll_wait reports every
\* descriptor in turn, not every wait is a poll for vsync, and the runner serves their tasks.
\* Nobody is obliged to add, remove, open or close anything, but a destructor ends. Who holds
\* queueLock_ goes on, and who waits for it gets it at last.
PlainFairness ==
    /\ \A q \in Queues : WF_vars(GoOn(q))
    /\ \A h \in Mortal : SF_vars(RemoveInvalidFileDescriptor(h))
    /\ \A q \in Queues \ UsesDeamon, fd \in Fds :
           SF_vars(EpollWait(q, fd)) /\ SF_vars(LookUp(q, fd))
    /\ \A q \in Queues \ UsesDeamon : SF_vars(HandleFileDescriptorEvent(q))
    /\ \A fd \in Fds, l \in PlainListeners : SF_vars(Serves(fd, l))

\* The daemon goes on too, and the tasks of all listeners are served.
Fairness ==
    /\ PlainFairness
    /\ WF_vars(DeamonHandleFileDescriptorEvent \/ \E fd \in Fds : EpollWait(Deamon, fd))
    /\ \A fd \in Fds, l \in Listeners \ PlainListeners : SF_vars(Serves(fd, l))

Spec == Init /\ [][Next]_vars

PlainFairSpec == Spec /\ PlainFairness

FairSpec == Spec /\ Fairness

-----------------------------------------------------------------------------
(* Properties *)

\* What the holder of queueLock_ may be at.
Works ==
    {Idle}
    \union [at : {"visit"}, fd : {None}, listener : {None}, todo : SUBSET Fds, caller : Handlers]
    \union [at : {"ctlDel", "erase", "own"}, fd : Fds, listener : {None}, todo : SUBSET Fds,
            caller : Handlers]
    \union [at : {"ctlAdd", "ctlDel", "erase", "own"}, fd : Fds, listener : Listeners,
            todo : {{}}, caller : Handlers]

\* Types; only a waiter with an epoll descriptor watches descriptors, and only open ones; the
\* DeamonIoWaiter reports what it watches and somebody could read.
TypeOK ==
    /\ open \in [Fds -> BOOLEAN]
    /\ readable \in [Fds -> BOOLEAN]
    /\ \A fd \in Fds : readable[fd] => open[fd]
    /\ edges \subseteq {fd \in io[Deamon].watched : readable[fd]}
    /\ alive \subseteq Handlers
    /\ dying \subseteq Handlers \ alive
    /\ listeners \in [Queues -> [Fds -> Listeners \union {None}]]
    /\ io \in [Waiters -> [known : [Fds -> Listeners \union {None}],
                           watched : SUBSET {fd \in Fds : open[fd]}]]
    /\ supportsFd \subseteq Waiters
    /\ \A w \in Waiters \ supportsFd : io[w] = Empty
    /\ hand \in [Waiters -> [fd : Fds, prio : {"VIP", "HIGH", None}] \union {None}]
    /\ tasks \subseteq Tasks
    /\ work \in [Queues -> Works]
    /\ \A q \in Queues : work[q].listener # None => q \in supportsFd
    /\ \A q \in Queues : work[q].at = "ctlAdd" => Deamon \in supportsFd
    /\ overlapped \subseteq Fds
    /\ used \in Scenarios

\* A descriptor that a runner's own waiter watches has a listener in listeners_, and every
\* watched descriptor is known to its waiter, however additions fail and whenever descriptors
\* are closed and handlers die: epoll_wait never reports for ever what nobody handles. The
\* DeamonIoWaiter may lose the entry of a file, and nothing else, if two queues were in its
\* code for that number at once: one's EPOLL_CTL_DEL, the other's addition, one's erase.
WatchedIsRegistered ==
    /\ \A q \in Queues : \A fd \in io[q].watched :
           io[q].known[fd] # None /\ listeners[q][fd] # None
    /\ \A fd \in io[Deamon].watched \ overlapped : io[Deamon].known[fd] # None

\* No listener stays behind whose owner is gone and has been cleaned up after: nobody else
\* would remove it, and the descriptor could not be listened to again.
OrphanListenersAreRemoved ==
    \A q \in Queues, fd \in Fds :
        listeners[q][fd] # None => OwnerOf[listeners[q][fd]] \in alive \union dying

\* Input on fd is read if l stays its listener.
Handles(fd, l) ==
    LET registered == \E q \in Queues : listeners[q][fd] = l
    IN  (readable[fd] /\ registered) ~> (~readable[fd] \/ ~registered)

\* A watched descriptor's listener is called for its input, unless the input goes, or the
\* listener, or the watching: for listeners that are neither vsync nor the DeamonIoWaiter's.
\* Stale map entries, removals between report and callback, polls for vsync only and failing waits
\* do not lose the event.
PlainEventsAreHandled ==
    \A fd \in Fds, l \in PlainListeners :
        LET q == QueueOf[OwnerOf[l]]
            watched == listeners[q][fd] = l /\ fd \in io[q].watched
        IN  (readable[fd] /\ watched) ~> (~readable[fd] \/ ~watched)


=============================================================================
