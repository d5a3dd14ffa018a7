-------------------------- MODULE FdListenersProofs --------------------------
(***************************************************************************)
(* Proofs about FdListeners: types; what is watched is known and           *)
(* registered, but for the race of two queues in the DeamonIoWaiter; no    *)
(* listener of an owner long gone stays behind. For any number of queues,  *)
(* handlers, listeners and descriptors, whether additions fail or not and  *)
(* whenever clients close their descriptors.                               *)
(***************************************************************************)
EXTENDS FdListeners, TLAPS

Maps == [Fds -> Listeners \union {None}]

\* The states of a waiter that watches open descriptors only.
OpenState == [known : Maps, watched : SUBSET {fd \in Fds : open[fd]}]

IoTypes ==
    /\ listeners \in [Queues -> Maps]
    /\ io \in [Waiters -> OpenState]
    /\ supportsFd \subseteq Waiters
    /\ \A w \in Waiters \ supportsFd : io[w] = Empty

FileTypes ==
    /\ open \in [Fds -> BOOLEAN]
    /\ readable \in [Fds -> BOOLEAN]
    /\ \A fd \in Fds : readable[fd] => open[fd]
    /\ edges \subseteq {fd \in io[Deamon].watched : readable[fd]}

HandlerTypes ==
    /\ alive \subseteq Handlers
    /\ dying \subseteq Handlers \ alive

EventTypes ==
    /\ hand \in [Waiters -> [fd : Fds, prio : {"VIP", "HIGH", None}] \union {None}]
    /\ tasks \subseteq Tasks
    /\ used \in Scenarios

WorkTypes ==
    /\ work \in [Queues -> Works]
    /\ \A q \in Queues : work[q].listener # None => q \in supportsFd
    /\ \A q \in Queues : work[q].at = "ctlAdd" => Deamon \in supportsFd
    /\ overlapped \subseteq Fds

LEMMA TypeParts ==
    TypeOK <=> IoTypes /\ FileTypes /\ HandlerTypes /\ EventTypes /\ WorkTypes
  BY DEF TypeOK, IoTypes, FileTypes, HandlerTypes, EventTypes, WorkTypes, OpenState, Maps

LEMMA TypePartsNext ==
    IoTypes' /\ FileTypes' /\ HandlerTypes' /\ EventTypes' /\ WorkTypes' => TypeOK'
  BY DEF TypeOK, IoTypes, FileTypes, HandlerTypes, EventTypes, WorkTypes, OpenState, Maps

-----------------------------------------------------------------------------
(* The waiters *)

LEMMA EmptyState == Empty \in OpenState /\ Empty.known \in Maps /\ Empty.watched = {}
  BY DEF Empty, OpenState, Maps

LEMMA RecordStates ==
    ASSUME NEW w \in OpenState, NEW S, NEW m
    PROVE  /\ [w EXCEPT !.watched = S] = [known |-> w.known, watched |-> S]
           /\ [w EXCEPT !.known = m] = [known |-> m, watched |-> w.watched]
  BY DEF OpenState

LEMMA EmptyRemains ==
    ASSUME NEW fds PROVE RemoveFileDescriptor(Empty, fds) = Empty
<1>1. /\ [fd \in Fds |-> IF fd \in fds \intersect Empty.watched THEN None ELSE Empty.known[fd]]
             = Empty.known
      /\ Empty.watched \ fds = {}
  BY DEF Empty
<1> QED
  BY <1>1 DEF RemoveFileDescriptor, Empty

LEMMA InsertedState ==
    ASSUME NEW w \in OpenState, NEW fd \in Fds, NEW l \in Listeners
    PROVE  /\ Inserted(w, fd, l) \in OpenState
           /\ Inserted(w, fd, l).watched = w.watched
           /\ Inserted(w, fd, l).known[fd] # None
           /\ \A f \in Fds : f # fd => Inserted(w, fd, l).known[f] = w.known[f]
<1>1. CASE w.known[fd] = None
  <2>1. Inserted(w, fd, l) = [known |-> [w.known EXCEPT ![fd] = l], watched |-> w.watched]
    BY <1>1 DEF Inserted, OpenState
  <2> QED
    BY <2>1, ListenerAssumption DEF OpenState, Maps
<1>2. CASE w.known[fd] # None
  BY <1>2 DEF Inserted
<1> QED
  BY <1>1, <1>2

LEMMA RemovedState ==
    ASSUME NEW w \in OpenState, NEW fd \in Fds
    PROVE  /\ RemoveFileDescriptor(w, {fd}) \in OpenState
           /\ RemoveFileDescriptor(w, {fd}).watched = w.watched \ {fd}
           /\ \A f \in Fds : f # fd => RemoveFileDescriptor(w, {fd}).known[f] = w.known[f]
  BY DEF RemoveFileDescriptor, OpenState, Maps

LEMMA AddedState ==
    ASSUME NEW w \in OpenState, NEW fd \in Fds, NEW l \in Listeners, NEW ok \in BOOLEAN
    PROVE  /\ AddFileDescriptor(w, fd, l, ok) \in OpenState
           /\ \A f \in Fds : f # fd => /\ AddFileDescriptor(w, fd, l, ok).known[f] = w.known[f]
                                       /\ f \in AddFileDescriptor(w, fd, l, ok).watched
                                              <=> f \in w.watched
           /\ fd \in AddFileDescriptor(w, fd, l, ok).watched =>
                  /\ AddFileDescriptor(w, fd, l, ok).known[fd] # None
                  /\ Added(w, fd, ok)
<1> DEFINE inserted == Inserted(w, fd, l)
<1>1. /\ inserted \in OpenState /\ inserted.watched = w.watched /\ inserted.known[fd] # None
      /\ \A f \in Fds : f # fd => inserted.known[f] = w.known[f]
  BY InsertedState
<1>2. CASE Added(w, fd, ok)
  <2>1. AddFileDescriptor(w, fd, l, ok) = [inserted EXCEPT !.watched = @ \union {fd}]
    BY <1>2 DEF AddFileDescriptor
  <2> HIDE DEF inserted
  <2>2. AddFileDescriptor(w, fd, l, ok)
            = [known |-> inserted.known, watched |-> w.watched \union {fd}]
    BY <2>1, <1>1 DEF OpenState
  <2> QED
    BY <2>2, <1>1, <1>2 DEF OpenState, Added
<1>3. CASE ~Added(w, fd, ok)
  <2>1. AddFileDescriptor(w, fd, l, ok) = RemoveFileDescriptor(inserted, {fd})
    BY <1>3 DEF AddFileDescriptor
  <2> HIDE DEF inserted
  <2> QED
    BY <2>1, <1>1, RemovedState
<1> QED
  BY <1>2, <1>3

\* One waiter gets a new state; the files stay open.
LEMMA OneWaiter ==
    ASSUME IoTypes, open' = open, NEW x \in Waiters, NEW v \in OpenState,
           io' = [io EXCEPT ![x] = v],
           x \notin supportsFd' => v = Empty,
           supportsFd \subseteq supportsFd', supportsFd' \subseteq Waiters,
           listeners' \in [Queues -> Maps]
    PROVE  IoTypes'
<1>1. OpenState' = OpenState
  BY DEF OpenState
<1> QED
  BY <1>1 DEF IoTypes

-----------------------------------------------------------------------------
(* The holders of queueLock_ *)

LEMMA WorkShape ==
    ASSUME NEW w \in Works
    PROVE  /\ w = [at |-> w.at, fd |-> w.fd, listener |-> w.listener, todo |-> w.todo,
                   caller |-> w.caller]
           /\ w.at \in {"idle", "visit", "ctlAdd", "ctlDel", "erase", "own"}
           /\ w.at = "idle" => w = Idle
           /\ w.at # "idle" => w.caller \in Handlers
           /\ w.at = "visit" => w.fd = None /\ w.listener = None
           /\ w.at \in {"ctlAdd", "ctlDel", "erase", "own"} => w.fd \in Fds
           /\ w.at = "ctlAdd" => w.listener \in Listeners
           /\ w.listener \in Listeners \union {None}
           /\ w.listener # None => w.todo = {}
           /\ w.todo \subseteq Fds
  BY DEF Works, Idle

LEMMA InDeamonShape ==
    ASSUME NEW w \in Works, InDeamon(w)
    PROVE  w.fd \in Fds
  BY WorkShape DEF InDeamon

\* Where the holder of a lock may go.
LEMMA NextWorks ==
    ASSUME NEW w \in Works
    PROVE  /\ w.at \in {"ctlAdd", "ctlDel", "erase"} => [w EXCEPT !.at = "own"] \in Works
           /\ w.at = "ctlAdd" => [w EXCEPT !.at = "ctlDel"] \in Works
           /\ w.at = "ctlDel" => [w EXCEPT !.at = "erase"] \in Works
<1>1. /\ w = [at |-> w.at, fd |-> w.fd, listener |-> w.listener, todo |-> w.todo,
              caller |-> w.caller]
      /\ w.at # "idle" => w.caller \in Handlers
      /\ w.todo \subseteq Fds /\ w.listener \in Listeners \union {None}
      /\ w.at \in {"ctlAdd", "ctlDel", "erase", "own"} => w.fd \in Fds
      /\ w.listener # None => w.todo = {}
  BY WorkShape
<1>2. ASSUME NEW p \in {"ctlDel", "erase", "own"}
      PROVE  [w EXCEPT !.at = p] = [at |-> p, fd |-> w.fd, listener |-> w.listener,
                                    todo |-> w.todo, caller |-> w.caller]
  BY <1>1
<1>3. ASSUME NEW p \in {"ctlDel", "erase", "own"}, w.at \in {"ctlAdd", "ctlDel", "erase", "own"}
      PROVE  [at |-> p, fd |-> w.fd, listener |-> w.listener, todo |-> w.todo,
              caller |-> w.caller] \in Works
  BY <1>1, <1>3 DEF Works
<1> QED
  BY <1>2, <1>3

LEMMA AddingWork ==
    ASSUME NEW fd \in Fds, NEW l \in Listeners, NEW h \in Handlers, NEW p \in {"ctlAdd", "own"}
    PROVE  Adding(p, fd, l, h) \in Works
  BY DEF Works, Adding

LEMMA RemovingWork ==
    ASSUME NEW fd \in Fds, NEW h \in Handlers, NEW todo \in SUBSET Fds,
           NEW p \in {"ctlDel", "own"}
    PROVE  Removing(p, fd, todo, h) \in Works
  BY DEF Works, Removing

LEMMA VisitWork ==
    ASSUME NEW h \in Handlers, NEW todo \in SUBSET Fds
    PROVE  /\ Removing("visit", None, todo, h) \in Works
           /\ ~InDeamon(Removing("visit", None, todo, h))
  BY DEF Works, Removing, InDeamon

LEMMA IdleWork == Idle \in Works /\ Idle.at = "idle" /\ Idle.listener = None
                  /\ ~InDeamon(Idle) /\ Idle.todo = {} /\ Idle.fd = None
  BY DEF Works, Idle, InDeamon

LEMMA GoTypes ==
    ASSUME WorkTypes, NEW q \in Queues, NEW w \in Works, Go(q, w),
           supportsFd \subseteq supportsFd',
           w.listener # None => q \in supportsFd',
           w.at = "ctlAdd" => Deamon \in supportsFd'
    PROVE  WorkTypes'
<1>1. overlapped' \subseteq Fds
  BY InDeamonShape DEF Go, WorkTypes
<1> QED
  BY <1>1 DEF Go, WorkTypes

\* A removal goes on to w or is over.
LEMMA ProceedTypes ==
    ASSUME WorkTypes, HandlerTypes, NEW q \in Queues, NEW w \in Works, Proceed(q, w),
           w.listener = None, w.at # "ctlAdd", supportsFd' = supportsFd, alive' = alive
    PROVE  WorkTypes' /\ HandlerTypes'
<1>1. PICK v \in {w, Idle} : Go(q, v)
  BY DEF Proceed
<1>2. WorkTypes'
  BY <1>1, IdleWork, GoTypes
<1>3. dying' \subseteq dying
  BY DEF Proceed
<1> QED
  BY <1>2, <1>3 DEF HandlerTypes

-----------------------------------------------------------------------------
(* Types *)

LEMMA AddTypes ==
    ASSUME TypeOK, NEW h \in Handlers, NEW fd \in Fds, NEW l \in Listeners,
           AddFileDescriptorListener(h, fd, l)
    PROVE  TypeOK'
<1> USE TypeParts, TypePartsNext DEF fileVars, handlerVars
<1> DEFINE q == QueueOf[h]
           toDeamon == /\ Deamon \in supportsFd'
                       /\ OnlyDeamon(q, l) \/ AlsoDeamon(q, l)
           place == IF toDeamon THEN "ctlAdd" ELSE "own"
<1>1. /\ q \in Queues /\ q \in Waiters /\ Deamon \in Waiters
      /\ io \in [Waiters -> OpenState]
  BY ListenerAssumption DEF Waiters, IoTypes
<1>2. /\ supportsFd \subseteq supportsFd' /\ q \in supportsFd' /\ supportsFd' \subseteq Waiters
      /\ UNCHANGED <<open, readable, edges, alive, dying, listeners, hand, tasks, used>>
      /\ io' = IF toDeamon THEN [io EXCEPT ![Deamon] = Inserted(@, fd, l)] ELSE io
      /\ Go(q, Adding(place, fd, l, h))
  BY <1>1 DEF AddFileDescriptorListener, EnsureIoWaiterLocked, StartEpollIoWaiter, IoTypes
<1> HIDE DEF q
<1>3. /\ Adding(place, fd, l, h) \in Works
      /\ Adding(place, fd, l, h).at = place
  BY AddingWork DEF Adding
<1>4. WorkTypes'
  BY <1>1, <1>2, <1>3, GoTypes
<1>5. PICK v \in OpenState : /\ io' = [io EXCEPT ![Deamon] = v]
                             /\ Deamon \notin supportsFd' => v = Empty
                             /\ v.watched = io[Deamon].watched
  <2>1. CASE toDeamon
    <3> DEFINE v == Inserted(io[Deamon], fd, l)
    <3>1. v \in OpenState /\ v.watched = io[Deamon].watched
      BY <1>1, InsertedState
    <3>2. io' = [io EXCEPT ![Deamon] = v]
      BY <1>2, <2>1
    <3> QED
      BY <2>1, <3>1, <3>2
  <2>2. CASE ~toDeamon
    BY <1>1, <1>2, <2>2 DEF IoTypes
  <2> QED
    BY <2>1, <2>2
<1>6. IoTypes'
  BY <1>1, <1>2, <1>5, OneWaiter DEF IoTypes
<1>7. FileTypes'
  BY <1>1, <1>2, <1>5 DEF FileTypes
<1> QED
  BY <1>2, <1>4, <1>6, <1>7 DEF HandlerTypes, EventTypes

\* Inside the DeamonIoWaiter.
LEMMA DeamonCallTypes ==
    ASSUME TypeOK, NEW q \in Queues,
           EpollCtlAdd(q) \/ EpollCtlDel(q) \/ EraseFileDescriptorMap(q)
    PROVE  TypeOK'
<1> USE TypeParts, TypePartsNext DEF fileVars, handlerVars
<1> DEFINE fd == work[q].fd
           l == work[q].listener
           d == io[Deamon]
<1>1. /\ work[q] \in Works /\ work[q].at \in {"ctlAdd", "ctlDel", "erase"}
      /\ Deamon \in Waiters /\ d \in OpenState
      /\ UNCHANGED <<open, readable, alive, dying, supportsFd, hand, tasks, used>>
      /\ d = [known |-> d.known, watched |-> d.watched]
  BY DEF EpollCtlAdd, EpollCtlDel, EraseFileDescriptorMap, IoTypes, WorkTypes, Waiters, OpenState
<1>2. fd \in Fds /\ l \in Listeners \union {None} /\ (work[q].at = "ctlAdd" => l \in Listeners)
  BY <1>1, WorkShape
<1>3. PICK w : /\ Go(q, w)
               /\ w \in {AfterDeamon(q), [work[q] EXCEPT !.at = "ctlDel"],
                         [work[q] EXCEPT !.at = "erase"]}
               /\ w = [work[q] EXCEPT !.at = "ctlDel"] => work[q].at = "ctlAdd"
               /\ w = [work[q] EXCEPT !.at = "erase"] => work[q].at = "ctlDel"
  <2>1. work[q].at \in {"ctlAdd", "ctlDel", "erase"}
    BY <1>1
  <2>2. AfterDeamon(q).at \in {"idle", "own"}
    BY <1>1, IdleWork, WorkShape DEF AfterDeamon
  <2>3. [work[q] EXCEPT !.at = "ctlDel"].at = "ctlDel" /\ [work[q] EXCEPT !.at = "erase"].at = "erase"
    BY <1>1, WorkShape
  <2> QED
    BY <2>1, <2>2, <2>3 DEF EpollCtlAdd, EpollCtlDel, EraseFileDescriptorMap
<1>4. w \in Works /\ w.at # "ctlAdd" /\ (w.listener # None => l # None)
  <2>1. /\ [work[q] EXCEPT !.at = "own"].listener = l /\ [work[q] EXCEPT !.at = "own"].at = "own"
        /\ [work[q] EXCEPT !.at = "ctlDel"].listener = l /\ [work[q] EXCEPT !.at = "ctlDel"].at = "ctlDel"
        /\ [work[q] EXCEPT !.at = "erase"].listener = l /\ [work[q] EXCEPT !.at = "erase"].at = "erase"
    BY <1>1, WorkShape
  <2> QED
    BY <1>1, <1>3, <2>1, NextWorks, IdleWork DEF AfterDeamon
<1>5. WorkTypes'
  BY <1>1, <1>3, <1>4, GoTypes DEF WorkTypes
<1>6. \E v \in OpenState :
          /\ io' = [io EXCEPT ![Deamon] = v]
          /\ Deamon \notin supportsFd => v = Empty
          /\ edges' \subseteq {f \in v.watched : readable[f]}
  <2>1. edges \subseteq {f \in d.watched : readable[f]}
    BY DEF FileTypes
  <2>2. Deamon \notin supportsFd => d = Empty
    BY <1>1 DEF IoTypes
  <2>3. CASE work[q].at = "ctlAdd" /\ io' # io
    <3>1. /\ io' = [io EXCEPT ![Deamon].watched = @ \union {fd}]
          /\ edges' = IF readable[fd] THEN edges \union {fd} ELSE edges
          /\ open[fd]
      BY <2>3 DEF EpollCtlAdd, EpollCtlDel, EraseFileDescriptorMap, Added
    <3> DEFINE v == [known |-> d.known, watched |-> d.watched \union {fd}]
    <3>2. v \in OpenState /\ io' = [io EXCEPT ![Deamon] = v]
      <4>1. v \in OpenState
        BY <1>1, <1>2, <3>1 DEF OpenState, Maps
      <4>2. [d EXCEPT !.watched = @ \union {fd}] = v
        BY <1>1, RecordStates
      <4> QED
        BY <3>1, <4>1, <4>2
    <3>3. edges' \subseteq {f \in v.watched : readable[f]}
      BY <2>1, <3>1
    <3>4. Deamon \in supportsFd
      BY <2>3 DEF WorkTypes
    <3> QED
      BY <3>2, <3>3, <3>4
  <2>4. CASE work[q].at = "ctlAdd" /\ io' = io
    <3>1. edges' \subseteq {f \in d.watched : readable[f]}
      <4>1. CASE edges' = edges
        BY <2>1, <4>1
      <4>2. CASE io' = [io EXCEPT ![Deamon].watched = @ \union {fd}]
                 /\ edges' = (IF readable[fd] THEN edges \union {fd} ELSE edges)
        <5>1. io'[Deamon].watched = d.watched \union {fd}
          BY <1>1, <4>2 DEF IoTypes, OpenState
        <5> QED
          BY <2>1, <2>4, <4>2, <5>1
      <4> QED
        BY <2>4, <4>1, <4>2 DEF EpollCtlAdd, EpollCtlDel, EraseFileDescriptorMap
    <3>2. io' = [io EXCEPT ![Deamon] = d]
      BY <1>1, <2>4 DEF IoTypes
    <3> QED
      BY <1>1, <2>2, <3>1, <3>2
  <2>5. CASE EpollCtlDel(q)
    <3>1. io' = [io EXCEPT ![Deamon].watched = @ \ {fd}] /\ edges' = edges \ {fd}
      BY <2>5 DEF EpollCtlDel
    <3> DEFINE v == [known |-> d.known, watched |-> d.watched \ {fd}]
    <3>2. v \in OpenState /\ io' = [io EXCEPT ![Deamon] = v]
      <4>1. v \in OpenState
        BY <1>1, <1>2, <3>1 DEF OpenState, Maps
      <4>2. [d EXCEPT !.watched = @ \ {fd}] = v
        BY <1>1, RecordStates
      <4> QED
        BY <3>1, <4>1, <4>2
    <3>3. edges' \subseteq {f \in v.watched : readable[f]}
      BY <2>1, <3>1
    <3>4. d = Empty => v = Empty
      BY DEF Empty
    <3> QED
      BY <2>2, <3>2, <3>3, <3>4
  <2>6. CASE EraseFileDescriptorMap(q)
    <3>1. io' = [io EXCEPT ![Deamon].known[fd] = None] /\ edges' = edges
      BY <2>6 DEF EraseFileDescriptorMap
    <3> DEFINE v == [known |-> [d.known EXCEPT ![fd] = None], watched |-> d.watched]
    <3>2. v \in OpenState /\ io' = [io EXCEPT ![Deamon] = v]
      <4>1. v \in OpenState
        BY <1>1, <1>2, <3>1 DEF OpenState, Maps
      <4>2. [d EXCEPT !.known[fd] = None] = v
        BY <1>1, RecordStates
      <4> QED
        BY <3>1, <4>1, <4>2
    <3>3. edges' \subseteq {f \in v.watched : readable[f]}
      BY <2>1, <3>1
    <3>4. d = Empty => v = Empty
      BY <1>1 DEF Empty, OpenState, Maps
    <3> QED
      BY <2>2, <3>2, <3>3, <3>4
  <2> QED
    BY <2>3, <2>4, <2>5, <2>6 DEF EpollCtlAdd
<1>7. listeners' \in [Queues -> Maps]
  <2>1. listeners \in [Queues -> Maps] /\ (listeners' = listeners
            \/ (work[q].at = "ctlAdd" /\ listeners' = [listeners EXCEPT ![q][fd] = l]))
    BY DEF EpollCtlAdd, EpollCtlDel, EraseFileDescriptorMap, IoTypes
  <2> QED
    BY <1>2, <2>1 DEF Maps
<1>8. IoTypes'
  BY <1>1, <1>6, <1>7, OneWaiter DEF IoTypes
<1>9. FileTypes'
  BY <1>1, <1>6 DEF FileTypes, IoTypes
<1> QED
  BY <1>1, <1>5, <1>8, <1>9 DEF HandlerTypes, EventTypes

\* In the queue's own waiter, and in listeners_.
LEMMA OwnWaiterTypes ==
    ASSUME TypeOK, NEW q \in Queues, AddToOwnWaiter(q) \/ Unregister(q)
    PROVE  TypeOK'
<1> USE TypeParts, TypePartsNext DEF fileVars, handlerVars
<1> DEFINE fd == work[q].fd
           l == work[q].listener
<1>1. /\ work[q] \in Works /\ work[q].at = "own"
      /\ q \in Waiters /\ io \in [Waiters -> OpenState] /\ Deamon # q
      /\ UNCHANGED <<open, readable, edges, alive, supportsFd, hand, tasks, used>>
      /\ listeners \in [Queues -> Maps] /\ Deamon \in Waiters
  BY ListenerAssumption DEF AddToOwnWaiter, Unregister, IoTypes, WorkTypes, Waiters
<1>2. /\ fd \in Fds /\ l \in Listeners \union {None} /\ work[q].caller \in Handlers
      /\ work[q].todo \in SUBSET Fds
  BY <1>1, WorkShape
<1>3. CASE AddToOwnWaiter(q)
  <2>1. PICK ok \in BOOLEAN :
            /\ io' = [io EXCEPT ![q] = AddFileDescriptor(@, fd, l, ok)]
            /\ listeners' \in {listeners, [listeners EXCEPT ![q][fd] = l]}
    BY <1>3 DEF AddToOwnWaiter, Answers
  <2>2. l \in Listeners /\ q \in supportsFd /\ Go(q, Idle) /\ dying' = dying
    BY <1>2, <1>3 DEF AddToOwnWaiter, WorkTypes
  <2>3. listeners' \in [Queues -> Maps]
    BY <1>1, <1>2, <2>1 DEF Maps
  <2>4. AddFileDescriptor(io[q], fd, l, ok) \in OpenState
    BY <1>1, <1>2, <2>2, AddedState
  <2>5. IoTypes'
    BY <1>1, <2>1, <2>2, <2>3, <2>4, OneWaiter DEF IoTypes
  <2>6. FileTypes'
    BY <1>1, <2>1 DEF FileTypes
  <2>7. WorkTypes'
    BY <1>1, <2>2, IdleWork, GoTypes
  <2> QED
    BY <1>1, <2>2, <2>5, <2>6, <2>7 DEF HandlerTypes, EventTypes
<1>4. CASE Unregister(q)
  <2>1. /\ io' = [io EXCEPT ![q] = RemoveFileDescriptor(@, {fd})]
        /\ listeners' = [listeners EXCEPT ![q][fd] = None]
        /\ Proceed(q, Removing("visit", None, work[q].todo, work[q].caller))
    BY <1>4 DEF Unregister
  <2>2. listeners' \in [Queues -> Maps]
    BY <1>1, <1>2, <2>1 DEF Maps
  <2>3. RemoveFileDescriptor(io[q], {fd}) \in OpenState
        /\ (io[q] = Empty => RemoveFileDescriptor(io[q], {fd}) = Empty)
    BY <1>1, <1>2, RemovedState, EmptyRemains
  <2>4. IoTypes'
    BY <1>1, <2>1, <2>2, <2>3, OneWaiter DEF IoTypes
  <2>5. FileTypes'
    BY <1>1, <2>1 DEF FileTypes
  <2>6. WorkTypes' /\ HandlerTypes'
    <3>1. /\ Removing("visit", None, work[q].todo, work[q].caller) \in Works
          /\ Removing("visit", None, work[q].todo, work[q].caller).listener = None
          /\ Removing("visit", None, work[q].todo, work[q].caller).at = "visit"
      BY <1>2, VisitWork DEF Removing
    <3> QED
      BY <1>1, <2>1, <3>1, ProceedTypes
  <2> QED
    BY <1>1, <2>4, <2>5, <2>6 DEF EventTypes
<1> QED
  BY <1>3, <1>4

\* The waiters stay as they are; a file may be read.
LEMMA SameWaiters ==
    ASSUME TypeOK, UNCHANGED <<open, listeners, waiterVars>>,
           HandlerTypes', EventTypes', WorkTypes',
           readable' \in [Fds -> BOOLEAN],
           \A fd \in Fds : readable'[fd] => readable[fd],
           edges' \subseteq {fd \in edges : readable'[fd]}
    PROVE  TypeOK'
<1>1. OpenState' = OpenState
  BY DEF OpenState
<1> QED
  BY <1>1, TypeParts, TypePartsNext DEF IoTypes, FileTypes, waiterVars

\* The steps of a removal that touch no waiter.
LEMMA RemovalTypes ==
    ASSUME TypeOK, NEW q \in Queues, NEW w \in Works, w.listener = None, w.at # "ctlAdd",
           (Go(q, w) /\ dying' = dying) \/ Proceed(q, w),
           tasks' \subseteq tasks,
           UNCHANGED <<fileVars, alive, listeners, waiterVars, hand, used>>
    PROVE  TypeOK'
<1> USE TypeParts DEF fileVars, waiterVars
<1>1. WorkTypes' /\ HandlerTypes'
  <2>1. CASE Go(q, w) /\ dying' = dying
    BY <2>1, GoTypes DEF HandlerTypes
  <2>2. CASE Proceed(q, w)
    BY <2>2, ProceedTypes
  <2> QED
    BY <2>1, <2>2
<1>2. EventTypes'
  BY DEF EventTypes
<1> QED
  BY <1>1, <1>2, SameWaiters DEF FileTypes, IoTypes

LEMMA RemoveTypes ==
    ASSUME TypeOK, NEW h \in Handlers,
           \/ RemoveListenerByOwner(h)
           \/ \E fd \in Fds : RemoveListenerByFd(h, fd)
           \/ RemoveInvalidFileDescriptor(h)
    PROVE  TypeOK'
<1> DEFINE q == QueueOf[h]
<1>1. q \in Queues
  BY ListenerAssumption
<1> HIDE DEF q
<1>2. CASE RemoveListenerByOwner(h) \/ RemoveInvalidFileDescriptor(h)
  <2> DEFINE w == Removing("visit", None, {fd \in Fds : listeners[q][fd] # None}, h)
  <2>1. Proceed(q, w) /\ tasks' \subseteq tasks
        /\ UNCHANGED <<fileVars, alive, listeners, waiterVars, hand, used>>
    BY <1>2 DEF RemoveListenerByOwner, RemoveInvalidFileDescriptor, VisitListeners, q
  <2>2. w \in Works /\ w.listener = None /\ w.at = "visit"
    BY VisitWork DEF Removing
  <2> HIDE DEF w
  <2> QED
    BY <1>1, <2>1, <2>2, RemovalTypes
<1>3. ASSUME NEW fd \in Fds, RemoveListenerByFd(h, fd) PROVE TypeOK'
  <2>1. PICK p \in {"ctlDel", "own"} : Go(q, Removing(p, fd, {}, h))
    BY <1>3 DEF RemoveListenerByFd, q
  <2>2. /\ Removing(p, fd, {}, h) \in Works
        /\ Removing(p, fd, {}, h).listener = None /\ Removing(p, fd, {}, h).at # "ctlAdd"
    BY RemovingWork DEF Removing
  <2>3. /\ tasks' \subseteq tasks /\ dying' = dying
        /\ UNCHANGED <<fileVars, alive, listeners, waiterVars, hand, used>>
    BY <1>3 DEF RemoveListenerByFd, handlerVars
  <2> QED
    BY <1>1, <2>1, <2>2, <2>3, RemovalTypes
<1> QED
  BY <1>2, <1>3

LEMMA VisitTypes ==
    ASSUME TypeOK, NEW q \in Queues, NEW fd \in Fds, RemoveFileDescriptorListenerLocked(q, fd)
    PROVE  TypeOK'
<1> DEFINE h == work[q].caller
           left == work[q].todo \ {fd}
<1>1. h \in Handlers /\ left \in SUBSET Fds
  <2>1. work[q] \in Works /\ work[q].at = "visit"
    BY TypeParts DEF RemoveFileDescriptorListenerLocked, WorkTypes
  <2> QED
    BY <2>1, WorkShape
<1>2. PICK p \in {"ctlDel", "own"} :
          Proceed(q, Removing(p, fd, left, h)) \/ Proceed(q, Removing("visit", None, left, h))
  BY DEF RemoveFileDescriptorListenerLocked
<1>3. /\ tasks' \subseteq tasks
      /\ UNCHANGED <<fileVars, alive, listeners, waiterVars, hand, used>>
  BY DEF RemoveFileDescriptorListenerLocked
<1> HIDE DEF h, left
<1>4. /\ Removing(p, fd, left, h) \in Works /\ Removing("visit", None, left, h) \in Works
      /\ Removing(p, fd, left, h).listener = None /\ Removing(p, fd, left, h).at # "ctlAdd"
      /\ Removing("visit", None, left, h).listener = None
      /\ Removing("visit", None, left, h).at = "visit"
  BY <1>1, RemovingWork, VisitWork DEF Removing
<1> QED
  BY <1>2, <1>3, <1>4, RemovalTypes

LEMMA FileStepTypes ==
    ASSUME TypeOK, NEW fd \in Fds, Open(fd) \/ Close(fd) \/ Input(fd)
    PROVE  TypeOK'
<1> USE TypeParts, TypePartsNext DEF handlerVars, lockVars
<1>1. /\ supportsFd' = supportsFd /\ listeners' = listeners
      /\ io \in [Waiters -> OpenState] /\ Deamon \in Waiters
      /\ UNCHANGED <<alive, dying, hand, tasks, work, used>>
      /\ overlapped' \subseteq overlapped
  BY DEF Open, Close, Input, waiterVars, IoTypes, Waiters
<1>2. HandlerTypes' /\ EventTypes' /\ WorkTypes'
  BY <1>1 DEF HandlerTypes, EventTypes, WorkTypes
<1>3. CASE Open(fd)
  <2>1. /\ open' = [open EXCEPT ![fd] = TRUE] /\ readable' = readable /\ edges' = edges /\ io' = io
    BY <1>3 DEF Open, waiterVars
  <2>2. FileTypes' /\ {f \in Fds : open[f]} \subseteq {f \in Fds : open'[f]}
    BY <2>1 DEF FileTypes
  <2>3. OpenState \subseteq OpenState'
    BY <2>2 DEF OpenState
  <2> QED
    BY <1>1, <1>2, <2>1, <2>2, <2>3 DEF IoTypes
<1>4. CASE Close(fd)
  <2>1. /\ open' = [open EXCEPT ![fd] = FALSE]
        /\ readable' = [readable EXCEPT ![fd] = FALSE]
        /\ edges' = edges \ {fd}
        /\ io' = [w \in Waiters |-> [io[w] EXCEPT !.watched = @ \ {fd}]]
    BY <1>4 DEF Close
  <2>2. ASSUME NEW w \in Waiters
        PROVE  /\ io'[w] \in OpenState'
               /\ io'[w].watched = io[w].watched \ {fd}
               /\ io[w] = Empty => io'[w] = Empty
    <3>1. /\ io[w] \in OpenState
          /\ io'[w] = [known |-> io[w].known, watched |-> io[w].watched \ {fd}]
      BY <1>1, <2>1 DEF OpenState
    <3>2. \A f \in io[w].watched \ {fd} : f \in Fds /\ open'[f]
      BY <3>1, <2>1 DEF OpenState, FileTypes
    <3>3. io'[w] \in OpenState'
      BY <3>1, <3>2 DEF OpenState
    <3> QED
      BY <3>1, <3>3 DEF Empty
  <2>3. IoTypes'
    BY <1>1, <2>1, <2>2 DEF IoTypes
  <2>4. FileTypes'
    <3>1. \A f \in edges : f \in Fds /\ readable[f]
      BY <1>1 DEF FileTypes, OpenState
    <3> QED
      BY <1>1, <2>1, <2>2, <3>1 DEF FileTypes
  <2> QED
    BY <1>2, <2>3, <2>4
<1>5. CASE Input(fd)
  <2>1. /\ open[fd] /\ open' = open /\ readable' = [readable EXCEPT ![fd] = TRUE] /\ io' = io
        /\ edges' = edges \union ({fd} \intersect io[Deamon].watched)
    BY <1>5 DEF Input, waiterVars
  <2>2. FileTypes'
    BY <2>1 DEF FileTypes
  <2>3. OpenState' = OpenState
    BY <2>1 DEF OpenState
  <2> QED
    BY <1>1, <1>2, <2>1, <2>2, <2>3 DEF IoTypes
<1> QED
  BY <1>3, <1>4, <1>5

LEMMA RunTaskTypes ==
    ASSUME TypeOK, NEW t \in tasks, RunTask(t)
    PROVE  TypeOK'
<1> USE TypeParts, TypePartsNext DEF handlerVars, lockVars
<1>1. t.fd \in Fds
  BY DEF EventTypes, Tasks
<1>2. EventTypes' /\ HandlerTypes' /\ WorkTypes'
  BY DEF RunTask, EventTypes, HandlerTypes, WorkTypes, waiterVars
<1>3. /\ readable' \in [Fds -> BOOLEAN]
      /\ \A fd \in Fds : readable'[fd] => readable[fd]
      /\ edges' \subseteq {fd \in edges : readable'[fd]}
  <2>1. \/ readable' = [readable EXCEPT ![t.fd] = FALSE] /\ edges' = edges \ {t.fd}
        \/ readable' = readable /\ edges' = edges
    BY DEF RunTask
  <2>2. edges \subseteq Fds /\ \A fd \in edges : readable[fd]
    BY DEF FileTypes, IoTypes, OpenState, Waiters
  <2> QED
    BY <1>1, <2>1, <2>2 DEF FileTypes
<1> QED
  BY <1>2, <1>3, SameWaiters DEF RunTask

LEMMA EventStepTypes ==
    ASSUME TypeOK,
           \/ \E w \in Waiters, fd \in Fds : EpollWait(w, fd)
           \/ \E q \in Queues, fd \in Fds : PassOver(q, fd) \/ LookUp(q, fd)
           \/ \E q \in Queues : HandleFileDescriptorEvent(q)
           \/ DeamonHandleFileDescriptorEvent
           \/ \E h \in Handlers : ReleaseHandler(h)
    PROVE  TypeOK'
<1> USE TypeParts, TypePartsNext DEF fileVars, handlerVars, lockVars
<1>1. /\ UNCHANGED <<open, readable, listeners, waiterVars, lockVars>>
      /\ edges' \subseteq edges
  BY DEF EpollWait, PassOver, LookUp, HandleFileDescriptorEvent, DeamonHandleFileDescriptorEvent,
         ReleaseHandler
<1>2. \A l : PriorityOf(l) \in {"VIP", "HIGH"}
  BY DEF PriorityOf
<1>3. EventTypes'
  <2>1. ASSUME NEW w \in Waiters, NEW fd \in Fds, EpollWait(w, fd) PROVE EventTypes'
    BY <2>1 DEF EpollWait, EventTypes
  <2>2. ASSUME NEW q \in Queues, NEW fd \in Fds, PassOver(q, fd) \/ LookUp(q, fd)
        PROVE  EventTypes'
    <3>1. PICK v \in [fd : Fds, prio : {"VIP", "HIGH", None}] \union {None} :
              hand' = [hand EXCEPT ![q] = v]
      BY <1>2, <2>2 DEF PassOver, LookUp
    <3>2. hand' \in [Waiters -> [fd : Fds, prio : {"VIP", "HIGH", None}] \union {None}]
      BY <3>1 DEF EventTypes
    <3>3. UNCHANGED <<tasks, used>>
      BY <2>2 DEF PassOver, LookUp
    <3> QED
      BY <3>2, <3>3 DEF EventTypes
  <2>3. ASSUME NEW q \in Queues, HandleFileDescriptorEvent(q) PROVE EventTypes'
    <3>1. hand[q].fd \in Fds /\ hand[q].prio \in {"VIP", "HIGH"}
      BY <2>3 DEF HandleFileDescriptorEvent, EventTypes, Waiters
    <3>2. listeners[q][hand[q].fd] \in Listeners \union {None}
      BY <3>1 DEF IoTypes, Maps
    <3>3. tasks' \subseteq Tasks
      <4>1. \A l \in Listeners : [fd |-> hand[q].fd, listener |-> l, prio |-> hand[q].prio,
                                   vsync |-> l \in VsyncListeners] \in Tasks
        BY <3>1 DEF Tasks
      <4> QED
        BY <2>3, <3>2, <4>1 DEF HandleFileDescriptorEvent, EventTypes
    <3> QED
      BY <2>3, <3>3 DEF HandleFileDescriptorEvent, EventTypes
  <2>4. CASE DeamonHandleFileDescriptorEvent
    <3>1. Deamon \in Waiters /\ io[Deamon].known \in [Fds -> Listeners \union {None}]
      BY DEF Waiters, IoTypes, OpenState, Maps
    <3>2. hand[Deamon].fd \in Fds
      BY <2>4, <3>1 DEF DeamonHandleFileDescriptorEvent, EventTypes
    <3>3. tasks' \subseteq Tasks
      <4>1. \A l \in Listeners : [fd |-> hand[Deamon].fd, listener |-> l, prio |-> PriorityOf(l),
                                   vsync |-> FALSE] \in Tasks
        BY <1>2, <3>2 DEF Tasks
      <4> QED
        BY <2>4, <3>1, <3>2, <4>1 DEF DeamonHandleFileDescriptorEvent, EventTypes
    <3> QED
      BY <2>4, <3>3 DEF DeamonHandleFileDescriptorEvent, EventTypes
  <2>5. ASSUME NEW h \in Handlers, ReleaseHandler(h) PROVE EventTypes'
    BY <2>5 DEF ReleaseHandler, EventTypes
  <2> QED
    BY <2>1, <2>2, <2>3, <2>4, <2>5
<1>4. WorkTypes'
  BY <1>1 DEF WorkTypes, waiterVars
<1>5. HandlerTypes'
  BY DEF EpollWait, PassOver, LookUp, HandleFileDescriptorEvent, DeamonHandleFileDescriptorEvent,
         ReleaseHandler, HandlerTypes
<1>6. /\ readable' \in [Fds -> BOOLEAN]
      /\ \A fd \in Fds : readable'[fd] => readable[fd]
      /\ edges' \subseteq {fd \in edges : readable'[fd]}
  BY <1>1 DEF FileTypes
<1> QED
  BY <1>1, <1>3, <1>4, <1>5, <1>6, SameWaiters

LEMMA WaitFailsTypes ==
    ASSUME TypeOK, NEW q \in Queues, WaitFails(q)
    PROVE  TypeOK'
<1> USE TypeParts, TypePartsNext DEF fileVars, handlerVars, lockVars
<1>1. /\ UNCHANGED <<open, readable, edges, alive, dying, hand, tasks, used, work, overlapped>>
      /\ supportsFd' = supportsFd \ {q}
      /\ listeners' = [listeners EXCEPT ![q] = Empty.known]
      /\ io' = [io EXCEPT ![q] = Empty]
      /\ q \in Waiters /\ q # Deamon /\ work[q] = Idle
  BY ListenerAssumption DEF WaitFails, Waiters, Unlocked
<1>2. Empty \in OpenState /\ Empty.known \in Maps
  BY EmptyState
<1>3. OpenState' = OpenState
  BY <1>1 DEF OpenState
<1>4. IoTypes'
  BY <1>1, <1>2, <1>3 DEF IoTypes
<1>5. FileTypes' /\ EventTypes' /\ HandlerTypes'
  BY <1>1 DEF FileTypes, EventTypes, HandlerTypes, IoTypes, Waiters
<1>6. WorkTypes'
  BY <1>1, IdleWork DEF WorkTypes
<1> QED
  BY <1>4, <1>5, <1>6

LEMMA TypesInit == Init => TypeOK
<1> SUFFICES ASSUME Init PROVE TypeOK
  OBVIOUS
<1>1. IoTypes
  BY EmptyState DEF Init, IoTypes
<1>2. WorkTypes
  BY IdleWork DEF Init, WorkTypes
<1> QED
  BY <1>1, <1>2, TypeParts DEF Init, FileTypes, HandlerTypes, EventTypes

LEMMA TypesStep == TypeOK /\ [Next]_vars => TypeOK'
<1> SUFFICES ASSUME TypeOK, [Next]_vars PROVE TypeOK'
  OBVIOUS
<1>1. CASE UNCHANGED vars
  <2>1. OpenState' = OpenState
    BY <1>1 DEF vars, fileVars, OpenState
  <2> QED
    BY <1>1, <2>1, TypeParts, TypePartsNext
    DEF vars, fileVars, handlerVars, waiterVars, lockVars, IoTypes, FileTypes, HandlerTypes,
        EventTypes, WorkTypes
<1>2. ASSUME NEW q \in Queues, GoOn(q) PROVE TypeOK'
  BY <1>2, DeamonCallTypes, OwnWaiterTypes, VisitTypes DEF GoOn
<1>3. CASE Next
  BY <1>2, <1>3, AddTypes, RemoveTypes, FileStepTypes, RunTaskTypes, EventStepTypes, WaitFailsTypes
  DEF Next
<1> QED
  BY <1>1, <1>3

\* Every variable keeps its type: whatever fails, closes or is removed, only a waiter with
\* an epoll descriptor watches descriptors, they are open, and the DeamonIoWaiter reports
\* only what it watches and somebody could read; who adds a listener has the waiters it needs.
THEOREM TypesAreKept == Spec => []TypeOK
  BY TypesInit, TypesStep, PTL DEF Spec

-----------------------------------------------------------------------------
(* The invariant *)

\* The holder of q's lock is in the DeamonIoWaiter for fd.
Busy(q, fd) == InDeamon(work[q]) /\ work[q].fd = fd

OwnInv ==
    \A q \in Queues : \A fd \in io[q].watched :
        io[q].known[fd] # None /\ listeners[q][fd] # None

\* A queue that is alone in the DeamonIoWaiter with a descriptor finds it as it has left it.
DeamonInv ==
    \A fd \in Fds \ overlapped :
        /\ fd \in io[Deamon].watched => io[Deamon].known[fd] # None
        /\ \A q \in Queues : Busy(q, fd) =>
               /\ \A p \in Queues \ {q} : ~Busy(p, fd)
               /\ work[q].at = "erase" => fd \notin io[Deamon].watched
               /\ work[q].at = "ctlAdd" => io[Deamon].known[fd] # None

\* A destructor under way still has its handler's listeners before it.
OrphanInv ==
    \A q \in Queues, fd \in Fds :
        LET h == OwnerOf[listeners[q][fd]] IN
        listeners[q][fd] # None =>
            /\ QueueOf[h] = q
            /\ h \in alive \union dying
            /\ work[q].at # "idle" /\ work[q].caller = h /\ h \notin alive =>
                   fd \in work[q].todo \/ fd = work[q].fd

\* Who holds a queue's lock calls for a handler of the queue; who adds a listener is its owner,
\* and is held by its caller.
CallInv ==
    \A q \in Queues :
        work[q].at # "idle" =>
            /\ QueueOf[work[q].caller] = q
            /\ work[q].listener # None =>
                   OwnerOf[work[q].listener] = work[q].caller /\ work[q].caller \in alive

ListenersInv == OwnInv /\ DeamonInv /\ OrphanInv /\ CallInv

LEMMA InitListeners == Init => ListenersInv
<1> SUFFICES ASSUME Init PROVE ListenersInv
  OBVIOUS
<1>1. \A fd \in Fds : Empty.known[fd] = None
  BY DEF Empty
<1>2. OwnInv /\ OrphanInv /\ CallInv
  BY <1>1, EmptyState, IdleWork DEF Init, OwnInv, OrphanInv, CallInv, Waiters
<1>3. DeamonInv
  BY EmptyState, IdleWork DEF Init, DeamonInv, Busy, Waiters
<1> QED
  BY <1>2, <1>3 DEF ListenersInv

LEMMA TypeFacts ==
    ASSUME TypeOK
    PROVE  /\ listeners \in [Queues -> Maps] /\ io \in [Waiters -> OpenState]
           /\ work \in [Queues -> Works]
           /\ \A q \in Queues : q \in Waiters /\ q # Deamon
           /\ Deamon \in Waiters
           /\ alive \subseteq Handlers /\ dying \subseteq Handlers \ alive
           /\ \A w \in Waiters : io[w] \in OpenState /\ io[w].known \in Maps
                                 /\ io[w].watched \subseteq Fds
  BY TypeParts, ListenerAssumption
  DEF IoTypes, WorkTypes, HandlerTypes, Waiters, OpenState

-----------------------------------------------------------------------------
(* The DeamonIoWaiter *)

\* What is left to show when the holder of q's lock goes on to w.
LEMMA DeamonGo ==
    ASSUME TypeOK, DeamonInv, NEW q \in Queues, NEW w \in Works, Go(q, w),
           \A fd \in Fds \ overlapped' :
               /\ fd \in io'[Deamon].watched => io'[Deamon].known[fd] # None
               /\ \A p \in Queues \ {q} : Busy(p, fd) =>
                      /\ work[p].at = "erase" => fd \notin io'[Deamon].watched
                      /\ work[p].at = "ctlAdd" => io'[Deamon].known[fd] # None
               /\ InDeamon(w) /\ w.fd = fd =>
                      /\ w.at = "erase" => fd \notin io'[Deamon].watched
                      /\ w.at = "ctlAdd" => io'[Deamon].known[fd] # None
    PROVE  DeamonInv'
<1> SUFFICES ASSUME NEW fd \in Fds \ overlapped', NEW p \in Queues, Busy(p, fd)'
             PROVE  /\ \A o \in Queues \ {p} : ~Busy(o, fd)'
                    /\ work'[p].at = "erase" => fd \notin io'[Deamon].watched
                    /\ work'[p].at = "ctlAdd" => io'[Deamon].known[fd] # None
  BY DEF DeamonInv
<1>1. /\ work'[q] = w /\ \A o \in Queues \ {q} : work'[o] = work[o]
      /\ fd \notin overlapped
      /\ InDeamon(w) /\ w.fd = fd => \A o \in Queues \ {q} : ~Busy(o, fd)
  BY TypeFacts DEF Go, Busy
<1>2. \A o \in Queues \ {q} : Busy(o, fd)' <=> Busy(o, fd)
  BY <1>1 DEF Busy, InDeamon
<1>3. CASE p = q
  BY <1>1, <1>2, <1>3 DEF Busy, InDeamon
<1>4. CASE p # q
  <2>1. Busy(p, fd) /\ work'[p] = work[p]
    BY <1>1, <1>2, <1>4
  <2>2. ~Busy(q, fd)'
    BY <1>1, <1>4, <2>1 DEF Busy, InDeamon
  <2>3. \A o \in Queues \ {p} : ~Busy(o, fd)
    BY <1>1, <2>1 DEF DeamonInv
  <2>4. \A o \in Queues \ {p} : ~Busy(o, fd)'
    <3> TAKE o \in Queues \ {p}
    <3>1. CASE o = q
      BY <2>2, <3>1
    <3>2. CASE o # q
      BY <1>2, <2>3, <3>2
    <3> QED
      BY <3>1, <3>2
  <2>5. /\ work[p].at = "erase" => fd \notin io'[Deamon].watched
        /\ work[p].at = "ctlAdd" => io'[Deamon].known[fd] # None
    BY <1>4, <2>1
  <2> QED
    BY <2>1, <2>4, <2>5
<1> QED
  BY <1>3, <1>4

\* The DeamonIoWaiter stays as it is.
LEMMA DeamonSame ==
    ASSUME TypeOK, DeamonInv, NEW q \in Queues, NEW w \in Works, Go(q, w),
           io'[Deamon] = io[Deamon], w.at \notin {"ctlAdd", "erase"}
    PROVE  DeamonInv'
<1>1. overlapped \subseteq overlapped'
  BY DEF Go
<1> QED
  BY <1>1, DeamonGo DEF DeamonInv

LEMMA AddDeamon ==
    ASSUME TypeOK, DeamonInv, NEW h \in Handlers, NEW fd \in Fds, NEW l \in Listeners,
           AddFileDescriptorListener(h, fd, l)
    PROVE  DeamonInv'
<1> DEFINE q == QueueOf[h]
<1>1. q \in Queues
  BY ListenerAssumption
<1>2. CASE io' = [io EXCEPT ![Deamon] = Inserted(@, fd, l)] /\ Go(q, Adding("ctlAdd", fd, l, h))
  <2> DEFINE w == Adding("ctlAdd", fd, l, h)
  <2>1. w \in Works /\ w.at = "ctlAdd" /\ w.fd = fd /\ overlapped \subseteq overlapped'
    BY <1>2, AddingWork DEF Adding, Go
  <2>2. /\ io'[Deamon].watched = io[Deamon].watched
        /\ io'[Deamon].known[fd] # None
        /\ \A f \in Fds : f # fd => io'[Deamon].known[f] = io[Deamon].known[f]
    BY <1>2, TypeFacts, InsertedState
  <2>3. \A f \in Fds : io[Deamon].known[f] # None => io'[Deamon].known[f] # None
    BY <2>2
  <2> HIDE DEF w, q
  <2>4. Go(q, w)
    BY <1>2 DEF w
  <2> QED
    BY <1>1, <2>1, <2>2, <2>3, <2>4, DeamonGo DEF DeamonInv
<1>3. CASE io' = io /\ Go(q, Adding("own", fd, l, h))
  BY <1>1, <1>3, AddingWork, DeamonSame DEF Adding
<1> QED
  BY <1>2, <1>3 DEF AddFileDescriptorListener

LEMMA AfterDeamonWork ==
    ASSUME TypeOK, NEW q \in Queues, work[q].at \in {"ctlAdd", "ctlDel", "erase"}
    PROVE  /\ AfterDeamon(q) \in Works /\ AfterDeamon(q).at \in {"idle", "own"}
           /\ work[q] \in Works /\ work[q].fd \in Fds /\ InDeamon(work[q])
           /\ [work[q] EXCEPT !.at = "own"]
                  = [at |-> "own", fd |-> work[q].fd, listener |-> work[q].listener,
                     todo |-> work[q].todo, caller |-> work[q].caller]
           /\ [work[q] EXCEPT !.at = "ctlDel"]
                  = [at |-> "ctlDel", fd |-> work[q].fd, listener |-> work[q].listener,
                     todo |-> work[q].todo, caller |-> work[q].caller]
           /\ [work[q] EXCEPT !.at = "erase"]
                  = [at |-> "erase", fd |-> work[q].fd, listener |-> work[q].listener,
                     todo |-> work[q].todo, caller |-> work[q].caller]
<1>1. work[q] \in Works
  BY TypeFacts
<1>2. /\ work[q] = [at |-> work[q].at, fd |-> work[q].fd, listener |-> work[q].listener,
                    todo |-> work[q].todo, caller |-> work[q].caller]
      /\ work[q].fd \in Fds
  BY <1>1, WorkShape
<1>3. \A p \in {"own", "ctlDel", "erase"} :
          [work[q] EXCEPT !.at = p]
              = [at |-> p, fd |-> work[q].fd, listener |-> work[q].listener,
                 todo |-> work[q].todo, caller |-> work[q].caller]
  BY <1>2
<1>4. AfterDeamon(q) \in Works /\ AfterDeamon(q).at \in {"idle", "own"}
  BY <1>1, <1>3, NextWorks, IdleWork DEF AfterDeamon
<1> QED
  BY <1>1, <1>2, <1>3, <1>4 DEF InDeamon

LEMMA CallDeamon ==
    ASSUME TypeOK, DeamonInv, NEW q \in Queues,
           EpollCtlAdd(q) \/ EpollCtlDel(q) \/ EraseFileDescriptorMap(q)
    PROVE  DeamonInv'
<1> DEFINE fd == work[q].fd
           d == io[Deamon]
<1>1. /\ work[q].at \in {"ctlAdd", "ctlDel", "erase"}
      /\ AfterDeamon(q) \in Works /\ AfterDeamon(q).at \in {"idle", "own"}
      /\ fd \in Fds /\ Busy(q, fd) /\ d \in OpenState /\ d.known \in Maps
      /\ io \in [Waiters -> OpenState] /\ Deamon \in Waiters
      /\ overlapped \subseteq overlapped'
  BY TypeFacts, AfterDeamonWork
  DEF EpollCtlAdd, EpollCtlDel, EraseFileDescriptorMap, Busy, Go
<1>2. fd \in Fds \ overlapped => \A p \in Queues \ {q} : ~Busy(p, fd)
  BY <1>1 DEF DeamonInv
<1>3. CASE io' = [io EXCEPT ![Deamon].watched = @ \union {fd}] /\ EpollCtlAdd(q)
           /\ Go(q, AfterDeamon(q))
  <2>1. io'[Deamon].known = d.known /\ io'[Deamon].watched = d.watched \union {fd}
    BY <1>1, <1>3, RecordStates
  <2>2. fd \notin overlapped => d.known[fd] # None
    BY <1>1, <1>3 DEF DeamonInv, EpollCtlAdd
  <2> HIDE DEF fd, d
  <2> QED
    BY <1>1, <1>2, <1>3, <2>1, <2>2, DeamonGo DEF DeamonInv, InDeamon, d
<1>4. CASE io' = io /\ EpollCtlAdd(q) /\ Go(q, [work[q] EXCEPT !.at = "ctlDel"])
  <2>1. [work[q] EXCEPT !.at = "ctlDel"] \in Works /\ [work[q] EXCEPT !.at = "ctlDel"].at = "ctlDel"
    BY <1>1, <1>4, AfterDeamonWork, NextWorks DEF EpollCtlAdd
  <2> QED
    BY <1>4, <2>1, DeamonSame
<1>5. CASE EpollCtlDel(q)
  <2> DEFINE e == [work[q] EXCEPT !.at = "erase"]
  <2>1. PICK w \in {AfterDeamon(q), e} : Go(q, w)
    BY <1>5 DEF EpollCtlDel
  <2>2. w \in Works /\ w.at # "ctlAdd" /\ (InDeamon(w) => w.fd = fd)
    <3>1. CASE w = AfterDeamon(q)
      BY <1>1, <3>1 DEF InDeamon
    <3>2. CASE w = e
      <4>1. e = [at |-> "erase", fd |-> fd, listener |-> work[q].listener,
                 todo |-> work[q].todo, caller |-> work[q].caller]
        BY <1>1, AfterDeamonWork
      <4>2. e \in Works
        BY <1>1, <1>5, <4>1, AfterDeamonWork, NextWorks DEF EpollCtlDel
      <4> HIDE DEF e
      <4>3. e.at = "erase" /\ e.fd = fd
        BY <4>1
      <4> QED
        BY <3>2, <4>2, <4>3
    <3> QED
      BY <3>1, <3>2
  <2>3. io'[Deamon].known = d.known /\ io'[Deamon].watched = d.watched \ {fd}
    BY <1>1, <1>5, RecordStates DEF EpollCtlDel
  <2> HIDE DEF fd, d
  <2> QED
    BY <1>1, <1>2, <2>1, <2>2, <2>3, DeamonGo DEF DeamonInv, d
<1>6. CASE EraseFileDescriptorMap(q)
  <2>1. /\ io'[Deamon].watched = d.watched
        /\ \A f \in Fds : f # fd => io'[Deamon].known[f] = d.known[f]
    <3>1. [d EXCEPT !.known[fd] = None] = [known |-> [d.known EXCEPT ![fd] = None],
                                           watched |-> d.watched]
      BY <1>1, RecordStates
    <3>2. io' = [io EXCEPT ![Deamon] = [d EXCEPT !.known[fd] = None]]
      BY <1>6 DEF EraseFileDescriptorMap
    <3> QED
      BY <1>1, <3>1, <3>2 DEF Maps
  <2>2. fd \notin overlapped => fd \notin d.watched
    BY <1>1, <1>6 DEF DeamonInv, EraseFileDescriptorMap
  <2>3. Go(q, AfterDeamon(q))
    BY <1>6 DEF EraseFileDescriptorMap
  <2> HIDE DEF fd, d
  <2> QED
    BY <1>1, <1>2, <2>1, <2>2, <2>3, DeamonGo DEF DeamonInv, InDeamon, d
<1> QED
  BY <1>3, <1>4, <1>5, <1>6 DEF EpollCtlAdd

-----------------------------------------------------------------------------
(* The listeners *)

\* The own waiters watch no more than before.
LEMMA OwnSame ==
    ASSUME OwnInv, listeners' = listeners,
           \A q \in Queues : io'[q].known = io[q].known /\ io'[q].watched \subseteq io[q].watched
    PROVE  OwnInv'
  BY DEF OwnInv

LEMMA GoCalls ==
    ASSUME TypeOK, CallInv, NEW q \in Queues, NEW w \in Works, Go(q, w), alive' = alive,
           w.at # "idle" => QueueOf[w.caller] = q,
           w.listener # None => OwnerOf[w.listener] = w.caller /\ w.caller \in alive
    PROVE  CallInv'
<1>1. work'[q] = w /\ \A p \in Queues \ {q} : work'[p] = work[p]
  BY TypeFacts DEF Go
<1> QED
  BY <1>1 DEF CallInv

\* The holder of q's lock goes on to w; at most it has registered one of q's listeners.
LEMMA GoOrphans ==
    ASSUME TypeOK, OrphanInv, NEW q \in Queues, NEW w \in Works, Go(q, w),
           alive' = alive, dying' = dying,
           \A p \in Queues, f \in Fds :
               listeners'[p][f] # None =>
                   \/ listeners'[p][f] = listeners[p][f]
                   \/ /\ p = q
                      /\ OwnerOf[listeners'[p][f]] \in alive
                      /\ QueueOf[OwnerOf[listeners'[p][f]]] = q,
           w.at # "idle" /\ w.caller \notin alive =>
               \A f \in Fds : listeners'[q][f] # None /\ OwnerOf[listeners'[q][f]] = w.caller =>
                   f \in w.todo \/ f = w.fd
    PROVE  OrphanInv'
<1>1. work'[q] = w /\ \A p \in Queues \ {q} : work'[p] = work[p]
  BY TypeFacts DEF Go
<1> SUFFICES ASSUME NEW p \in Queues, NEW f \in Fds, listeners'[p][f] # None
             PROVE  LET h == OwnerOf[listeners'[p][f]] IN
                    /\ QueueOf[h] = p
                    /\ h \in alive \union dying
                    /\ work'[p].at # "idle" /\ work'[p].caller = h /\ h \notin alive =>
                           f \in work'[p].todo \/ f = work'[p].fd
  BY DEF OrphanInv
<1>2. CASE p = q
  BY <1>1, <1>2 DEF OrphanInv
<1>3. CASE p # q
  BY <1>1, <1>3 DEF OrphanInv
<1> QED
  BY <1>2, <1>3

\* A removal for a handler of q goes on to w, or is over.
LEMMA ProceedOrphans ==
    ASSUME TypeOK, OrphanInv, NEW q \in Queues, NEW w \in Works, Proceed(q, w), alive' = alive,
           QueueOf[w.caller] = q, w.at # "idle", w.at = "visit" => w.fd = None,
           \A p \in Queues, f \in Fds :
               listeners'[p][f] # None => listeners'[p][f] = listeners[p][f],
           w.caller \notin alive =>
               \A f \in Fds : listeners'[q][f] # None /\ OwnerOf[listeners'[q][f]] = w.caller =>
                   f \in w.todo \/ f = w.fd
    PROVE  OrphanInv'
<1>1. CASE ~(w.at = "visit" /\ w.todo = {})
  <2>1. Go(q, w) /\ dying' = dying
    BY <1>1 DEF Proceed
  <2> QED
    BY <2>1, GoOrphans
<1>2. CASE w.at = "visit" /\ w.todo = {}
  <2>1. Go(q, Idle) /\ dying' = dying \ {w.caller} /\ w.fd = None
    BY <1>2 DEF Proceed
  <2>2. work'[q] = Idle /\ \A p \in Queues \ {q} : work'[p] = work[p]
    BY <2>1, TypeFacts DEF Go
  <2> SUFFICES ASSUME NEW p \in Queues, NEW f \in Fds, listeners'[p][f] # None
               PROVE  LET h == OwnerOf[listeners'[p][f]] IN
                      /\ QueueOf[h] = p
                      /\ h \in alive \union dying'
                      /\ work'[p].at # "idle" /\ work'[p].caller = h /\ h \notin alive =>
                             f \in work'[p].todo \/ f = work'[p].fd
    BY DEF OrphanInv
  <2>3. /\ listeners'[p][f] = listeners[p][f]
        /\ QueueOf[OwnerOf[listeners[p][f]]] = p
        /\ OwnerOf[listeners[p][f]] \in alive \union dying
    BY DEF OrphanInv
  <2>4. f # None
    BY ListenerAssumption
  <2>5. p = q => w.caller \in alive \/ OwnerOf[listeners[p][f]] # w.caller
    BY <1>2, <2>1, <2>3, <2>4
  <2>6. w.caller \in alive => dying' = dying
    BY <2>1, TypeFacts
  <2>7. OwnerOf[listeners[p][f]] \in alive \union dying'
    BY <2>1, <2>3, <2>5, <2>6
  <2>8. p # q => /\ work'[p] = work[p]
    BY <2>2
  <2>9. CASE p = q
    BY <2>2, <2>3, <2>7, <2>9, IdleWork
  <2>10. CASE p # q
    BY <2>3, <2>7, <2>8, <2>10 DEF OrphanInv
  <2> QED
    BY <2>9, <2>10
<1> QED
  BY <1>1, <1>2

LEMMA AddInv ==
    ASSUME TypeOK, ListenersInv, NEW h \in Handlers, NEW fd \in Fds, NEW l \in Listeners,
           AddFileDescriptorListener(h, fd, l)
    PROVE  ListenersInv'
<1> USE DEF ListenersInv
<1> DEFINE q == QueueOf[h]
<1>1. q \in Queues
  BY ListenerAssumption
<1>2. /\ h \in alive /\ OwnerOf[l] = h
      /\ UNCHANGED <<alive, dying, listeners>>
      /\ io' \in {io, [io EXCEPT ![Deamon] = Inserted(@, fd, l)]}
  BY DEF AddFileDescriptorListener, handlerVars
<1>3. PICK w \in Works : /\ Go(q, w) /\ w.at # "idle"
                         /\ w.caller = h /\ w.listener = l
  <2>1. PICK p \in {"ctlAdd", "own"} : Go(q, Adding(p, fd, l, h))
    BY DEF AddFileDescriptorListener
  <2>2. Adding(p, fd, l, h) \in Works
    BY AddingWork
  <2>3. /\ Adding(p, fd, l, h).at # "idle" /\ Adding(p, fd, l, h).caller = h
        /\ Adding(p, fd, l, h).listener = l
    BY DEF Adding
  <2> HIDE DEF q
  <2> QED
    BY <2>1, <2>2, <2>3
<1>4. \A p \in Queues : io'[p] = io[p]
  BY <1>2, TypeFacts
<1>5. OwnInv'
  BY <1>2, <1>4, OwnSame
<1>6. DeamonInv'
  BY AddDeamon
<1>7. CallInv'
  <2> HIDE DEF q
  <2>1. QueueOf[h] = q
    BY DEF q
  <2> QED
    BY <1>1, <1>2, <1>3, <2>1, GoCalls
<1>8. OrphanInv'
  BY <1>1, <1>2, <1>3, GoOrphans
<1> QED
  BY <1>5, <1>6, <1>7, <1>8

\* Where a call of the DeamonIoWaiter goes on, and for whom.
LEMMA CallGoes ==
    ASSUME TypeOK, NEW q \in Queues,
           EpollCtlAdd(q) \/ EpollCtlDel(q) \/ EraseFileDescriptorMap(q)
    PROVE  \E w \in Works :
               /\ Go(q, w)
               /\ \/ w = Idle /\ work[q].listener # None
                  \/ /\ w.at # "idle" /\ w.fd = work[q].fd /\ w.todo = work[q].todo
                     /\ w.caller = work[q].caller /\ w.listener = work[q].listener
<1>1. work[q].at \in {"ctlAdd", "ctlDel", "erase"}
  BY DEF EpollCtlAdd, EpollCtlDel, EraseFileDescriptorMap
<1>2. PICK w : /\ Go(q, w)
               /\ \/ w = AfterDeamon(q)
                  \/ w = [work[q] EXCEPT !.at = "ctlDel"] /\ work[q].at = "ctlAdd"
                  \/ w = [work[q] EXCEPT !.at = "erase"] /\ work[q].at = "ctlDel"
  BY DEF EpollCtlAdd, EpollCtlDel, EraseFileDescriptorMap
<1>3. w \in Works
  <2>1. work[q] \in Works /\ AfterDeamon(q) \in Works
    BY <1>1, AfterDeamonWork
  <2>2. /\ work[q].at = "ctlAdd" => [work[q] EXCEPT !.at = "ctlDel"] \in Works
        /\ work[q].at = "ctlDel" => [work[q] EXCEPT !.at = "erase"] \in Works
    BY <2>1, NextWorks
  <2> QED
    BY <1>2, <2>1, <2>2
<1>4. PICK p \in {"own", "ctlDel", "erase"} :
          \/ w = Idle /\ work[q].listener # None
          \/ w = [at |-> p, fd |-> work[q].fd, listener |-> work[q].listener,
                  todo |-> work[q].todo, caller |-> work[q].caller]
  <2>1. CASE w = AfterDeamon(q)
    BY <1>1, <2>1, AfterDeamonWork DEF AfterDeamon
  <2>2. CASE w # AfterDeamon(q)
    BY <1>1, <1>2, <2>2, AfterDeamonWork
  <2> QED
    BY <2>1, <2>2
<1> QED
  BY <1>2, <1>3, <1>4

LEMMA CallInDeamonInv ==
    ASSUME TypeOK, ListenersInv, NEW q \in Queues,
           EpollCtlAdd(q) \/ EpollCtlDel(q) \/ EraseFileDescriptorMap(q)
    PROVE  ListenersInv'
<1> USE DEF ListenersInv
<1> DEFINE fd == work[q].fd
           l == work[q].listener
<1>1. PICK w \in Works :
          /\ Go(q, w)
          /\ \/ w = Idle /\ l # None
             \/ /\ w.at # "idle" /\ w.fd = fd /\ w.todo = work[q].todo
                /\ w.caller = work[q].caller /\ w.listener = l
  BY CallGoes
<1>2. /\ work[q] \in Works /\ work[q].at \in {"ctlAdd", "ctlDel", "erase"} /\ fd \in Fds
      /\ work[q].at = "ctlAdd" => l \in Listeners
      /\ UNCHANGED <<alive, dying>>
  BY TypeFacts, WorkShape, AfterDeamonWork
  DEF EpollCtlAdd, EpollCtlDel, EraseFileDescriptorMap, handlerVars
<1>3. /\ QueueOf[work[q].caller] = q
      /\ l # None => OwnerOf[l] = work[q].caller /\ work[q].caller \in alive
  BY <1>2 DEF CallInv
<1>4. /\ \A p \in Queues : io'[p] = io[p]
      /\ \/ listeners' = listeners
         \/ l \in Listeners /\ listeners' = [listeners EXCEPT ![q][fd] = l]
  BY <1>2, TypeFacts DEF EpollCtlAdd, EpollCtlDel, EraseFileDescriptorMap
<1>5. /\ l # None => None # l
      /\ \A p \in Queues, f \in Fds : \/ listeners'[p][f] = listeners[p][f]
                                      \/ p = q /\ listeners'[p][f] = l /\ l # None
  BY <1>2, <1>4, TypeFacts, ListenerAssumption DEF Maps
<1>6. OwnInv'
  BY <1>4, <1>5, TypeFacts DEF OwnInv
<1>7. DeamonInv'
  BY CallDeamon
<1> HIDE DEF l, fd
<1>8. CallInv'
  BY <1>1, <1>2, <1>3, IdleWork, GoCalls
<1>9. OrphanInv'
  <2>1. \A p \in Queues, f \in Fds :
            listeners'[p][f] # None =>
                \/ listeners'[p][f] = listeners[p][f]
                \/ /\ p = q
                   /\ OwnerOf[listeners'[p][f]] \in alive
                   /\ QueueOf[OwnerOf[listeners'[p][f]]] = q
    BY <1>3, <1>5
  <2>2. ASSUME w.at # "idle", w.caller \notin alive,
               NEW f \in Fds, listeners'[q][f] # None, OwnerOf[listeners'[q][f]] = w.caller
        PROVE  f \in w.todo \/ f = w.fd
    <3>1. w.fd = fd /\ w.todo = work[q].todo /\ w.caller = work[q].caller
      BY <1>1, <2>2, IdleWork
    <3>2. l = None
      BY <1>3, <2>2, <3>1
    <3>3. listeners'[q][f] = listeners[q][f]
      BY <1>5, <3>2
    <3> QED
      BY <1>2, <2>2, <3>1, <3>3 DEF OrphanInv, fd
  <2> QED
    BY <1>1, <1>2, <2>1, <2>2, GoOrphans
<1> QED
  BY <1>6, <1>7, <1>8, <1>9

LEMMA AddToOwnInv ==
    ASSUME TypeOK, ListenersInv, NEW q \in Queues, AddToOwnWaiter(q)
    PROVE  ListenersInv'
<1> USE DEF ListenersInv
<1> DEFINE fd == work[q].fd
           l == work[q].listener
<1>1. /\ work[q].at = "own" /\ l # None /\ Go(q, Idle) /\ UNCHANGED <<alive, dying>>
      /\ fd \in Fds /\ l \in Listeners
      /\ QueueOf[work[q].caller] = q /\ OwnerOf[l] = work[q].caller /\ work[q].caller \in alive
  BY TypeFacts, WorkShape DEF AddToOwnWaiter, handlerVars, CallInv
<1>2. PICK ok \in BOOLEAN :
          /\ io' = [io EXCEPT ![q] = AddFileDescriptor(@, fd, l, ok)]
          /\ listeners' = IF Added(io[q], fd, ok)
                          THEN [listeners EXCEPT ![q][fd] = l]
                          ELSE listeners
  BY DEF AddToOwnWaiter, Answers
<1>3. /\ io'[q] = AddFileDescriptor(io[q], fd, l, ok)
      /\ \A w \in Waiters : w # q => io'[w] = io[w]
  BY <1>2, TypeFacts
<1>4. /\ \A f \in Fds : f # fd => /\ io'[q].known[f] = io[q].known[f]
                                  /\ f \in io'[q].watched <=> f \in io[q].watched
      /\ fd \in io'[q].watched => io'[q].known[fd] # None /\ Added(io[q], fd, ok)
      /\ io'[q].watched \subseteq Fds
  BY <1>1, <1>3, TypeFacts, AddedState DEF OpenState
<1>5. /\ \A p \in Queues, f \in Fds : \/ listeners'[p][f] = listeners[p][f]
                                      \/ p = q /\ f = fd /\ listeners'[p][f] = l
      /\ Added(io[q], fd, ok) => listeners'[q][fd] = l
  BY <1>1, <1>2, TypeFacts DEF Maps
<1> HIDE DEF fd, l
<1>6. OwnInv'
  <2> SUFFICES ASSUME NEW p \in Queues, NEW f \in io'[p].watched
               PROVE  io'[p].known[f] # None /\ listeners'[p][f] # None
    BY DEF OwnInv
  <2>1. CASE p = q /\ f = fd
    BY <1>1, <1>4, <1>5, <2>1
  <2>2. CASE p = q /\ f # fd
    BY <1>4, <1>5, <2>2 DEF OwnInv
  <2>3. CASE p # q
    BY <1>3, <1>5, <2>3, TypeFacts DEF OwnInv
  <2> QED
    BY <2>1, <2>2, <2>3
<1>7. DeamonInv'
  BY <1>1, <1>3, TypeFacts, IdleWork, DeamonSame
<1>8. CallInv'
  BY <1>1, IdleWork, GoCalls
<1>9. OrphanInv'
  <2>1. \A p \in Queues, f \in Fds :
            listeners'[p][f] # None =>
                \/ listeners'[p][f] = listeners[p][f]
                \/ /\ p = q
                   /\ OwnerOf[listeners'[p][f]] \in alive
                   /\ QueueOf[OwnerOf[listeners'[p][f]]] = q
    BY <1>1, <1>5
  <2> QED
    BY <1>1, <2>1, IdleWork, GoOrphans
<1> QED
  BY <1>6, <1>7, <1>8, <1>9

LEMMA UnregisterInv ==
    ASSUME TypeOK, ListenersInv, NEW q \in Queues, Unregister(q)
    PROVE  ListenersInv'
<1> USE DEF ListenersInv
<1> DEFINE fd == work[q].fd
           w == Removing("visit", None, work[q].todo, work[q].caller)
<1>1. /\ work[q].at = "own" /\ fd \in Fds /\ alive' = alive /\ Proceed(q, w)
      /\ work[q].caller \in Handlers /\ work[q].todo \in SUBSET Fds
      /\ QueueOf[work[q].caller] = q
  BY TypeFacts, WorkShape DEF Unregister, CallInv
<1>2. /\ io' = [io EXCEPT ![q] = RemoveFileDescriptor(@, {fd})]
      /\ listeners' = [listeners EXCEPT ![q][fd] = None]
  BY DEF Unregister
<1>3. /\ io'[q] = RemoveFileDescriptor(io[q], {fd})
      /\ \A x \in Waiters : x # q => io'[x] = io[x]
  BY <1>2, TypeFacts
<1>4. /\ \A f \in Fds : f # fd => io'[q].known[f] = io[q].known[f]
      /\ io'[q].watched = io[q].watched \ {fd}
      /\ io[q].watched \subseteq Fds
  BY <1>1, <1>3, TypeFacts, RemovedState DEF OpenState
<1>5. \A p \in Queues, f \in Fds :
          listeners'[p][f] = IF p = q /\ f = fd THEN None ELSE listeners[p][f]
  BY <1>1, <1>2, TypeFacts DEF Maps
<1>6. OwnInv'
  <2> HIDE DEF fd
  <2> SUFFICES ASSUME NEW p \in Queues, NEW f \in io'[p].watched
               PROVE  io'[p].known[f] # None /\ listeners'[p][f] # None
    BY DEF OwnInv
  <2>1. CASE p = q
    BY <1>4, <1>5, <2>1 DEF OwnInv
  <2>2. CASE p # q
    BY <1>3, <1>5, <2>2, TypeFacts DEF OwnInv
  <2> QED
    BY <2>1, <2>2
<1>7. /\ w \in Works /\ w.at = "visit" /\ w.caller = work[q].caller /\ w.fd = None
      /\ w.todo = work[q].todo /\ w.listener = None
  BY <1>1, VisitWork DEF Removing
<1> HIDE DEF w
<1>8. PICK v \in {w, Idle} : Go(q, v)
  BY <1>1 DEF Proceed
<1>9. v \in Works /\ v.listener = None /\ v.at \notin {"ctlAdd", "erase"}
      /\ (v.at # "idle" => v.caller = work[q].caller)
  BY <1>7, <1>8, IdleWork
<1>10. DeamonInv'
  BY <1>3, <1>8, <1>9, TypeFacts, DeamonSame
<1>11. CallInv'
  BY <1>1, <1>8, <1>9, GoCalls
<1>12. OrphanInv'
  <2> HIDE DEF fd
  <2>1. ASSUME w.caller \notin alive, NEW f \in Fds,
               listeners'[q][f] # None, OwnerOf[listeners'[q][f]] = w.caller
        PROVE  f \in w.todo
    <3>1. f # fd /\ listeners'[q][f] = listeners[q][f]
      BY <1>5, <2>1
    <3> QED
      BY <1>1, <1>7, <2>1, <3>1 DEF OrphanInv, fd
  <2> QED
    BY <1>1, <1>5, <1>7, <2>1, ProceedOrphans
<1> QED
  BY <1>6, <1>10, <1>11, <1>12

\* A step of a removal for a handler of q that touches no waiter.
LEMMA RemovalInv ==
    ASSUME TypeOK, ListenersInv, NEW q \in Queues, NEW w \in Works,
           (Go(q, w) /\ dying' = dying) \/ Proceed(q, w),
           w.listener = None, w.at \notin {"idle", "ctlAdd", "erase"}, QueueOf[w.caller] = q,
           UNCHANGED <<alive, listeners, io>>,
           w.at = "visit" => w.fd = None,
           w.caller \notin alive =>
               \A f \in Fds : listeners[q][f] # None /\ OwnerOf[listeners[q][f]] = w.caller =>
                   f \in w.todo \/ f = w.fd
    PROVE  ListenersInv'
<1> USE DEF ListenersInv
<1>1. PICK v \in {w, Idle} : Go(q, v)
  BY DEF Proceed
<1>2. v \in Works /\ v.listener = None /\ v.at \notin {"ctlAdd", "erase"}
      /\ (v.at # "idle" => v.caller = w.caller)
  BY <1>1, IdleWork
<1>3. OwnInv'
  BY OwnSame
<1>4. DeamonInv'
  BY <1>1, <1>2, DeamonSame
<1>5. CallInv'
  BY <1>1, <1>2, GoCalls
<1>6. OrphanInv'
  <2>1. CASE Go(q, w) /\ dying' = dying
    BY <2>1, GoOrphans
  <2>2. CASE Proceed(q, w)
    BY <2>2, ProceedOrphans
  <2> QED
    BY <2>1, <2>2
<1> QED
  BY <1>3, <1>4, <1>5, <1>6

LEMMA RemoveInv ==
    ASSUME TypeOK, ListenersInv, NEW h \in Handlers,
           \/ RemoveListenerByOwner(h)
           \/ \E fd \in Fds : RemoveListenerByFd(h, fd)
           \/ RemoveInvalidFileDescriptor(h)
    PROVE  ListenersInv'
<1> DEFINE q == QueueOf[h]
<1>1. q \in Queues /\ QueueOf[h] = q
  BY ListenerAssumption
<1>2. UNCHANGED <<alive, listeners, io>>
  <2>1. CASE RemoveListenerByOwner(h) \/ RemoveInvalidFileDescriptor(h)
    BY <2>1 DEF RemoveListenerByOwner, RemoveInvalidFileDescriptor, waiterVars
  <2>2. ASSUME NEW fd \in Fds, RemoveListenerByFd(h, fd) PROVE UNCHANGED <<alive, listeners, io>>
    BY <2>2 DEF RemoveListenerByFd, waiterVars, handlerVars
  <2> QED
    BY <2>1, <2>2
<1> HIDE DEF q
<1>3. CASE RemoveListenerByOwner(h) \/ RemoveInvalidFileDescriptor(h)
  <2> DEFINE w == Removing("visit", None, {fd \in Fds : listeners[q][fd] # None}, h)
  <2>1. Proceed(q, w)
    BY <1>1, <1>3 DEF RemoveListenerByOwner, RemoveInvalidFileDescriptor, VisitListeners
  <2>2. /\ w \in Works /\ w.listener = None /\ w.at = "visit" /\ w.caller = h /\ w.fd = None
        /\ w.todo = {fd \in Fds : listeners[q][fd] # None}
    BY VisitWork DEF Removing
  <2> HIDE DEF w
  <2> QED
    BY <1>1, <1>2, <2>1, <2>2, RemovalInv
<1>4. ASSUME NEW fd \in Fds, RemoveListenerByFd(h, fd) PROVE ListenersInv'
  <2>1. PICK p \in {"ctlDel", "own"} : Go(q, Removing(p, fd, {}, h))
    BY <1>1, <1>4 DEF RemoveListenerByFd
  <2>2. /\ Removing(p, fd, {}, h) \in Works /\ Removing(p, fd, {}, h).at = p
        /\ Removing(p, fd, {}, h).listener = None /\ Removing(p, fd, {}, h).caller = h
    BY RemovingWork DEF Removing
  <2>3. h \in alive /\ dying' = dying
    BY <1>4 DEF RemoveListenerByFd, handlerVars
  <2> QED
    BY <1>1, <1>2, <2>1, <2>2, <2>3, RemovalInv
<1> QED
  BY <1>3, <1>4

LEMMA VisitInv ==
    ASSUME TypeOK, ListenersInv, NEW q \in Queues, NEW fd \in Fds,
           RemoveFileDescriptorListenerLocked(q, fd)
    PROVE  ListenersInv'
<1> DEFINE h == work[q].caller
           left == work[q].todo \ {fd}
<1>1. /\ h \in Handlers /\ left \in SUBSET Fds /\ QueueOf[h] = q
      /\ work[q].at = "visit" /\ work[q].fd = None
      /\ UNCHANGED <<alive, listeners, io>>
  <2>1. work[q] \in Works /\ work[q].at = "visit" /\ UNCHANGED <<alive, listeners, io>>
    BY TypeFacts DEF RemoveFileDescriptorListenerLocked, waiterVars
  <2> QED
    BY <2>1, WorkShape DEF ListenersInv, CallInv
<1>2. PICK p \in {"ctlDel", "own"} :
          IF Filter(listeners[q][fd], h)
          THEN Proceed(q, Removing(p, fd, left, h))
          ELSE Proceed(q, Removing("visit", None, left, h))
  BY DEF RemoveFileDescriptorListenerLocked
<1>3. \A f \in Fds : listeners[q][f] # None /\ OwnerOf[listeners[q][f]] = h /\ h \notin alive =>
          f \in left \/ f = fd
  BY <1>1, ListenerAssumption DEF ListenersInv, OrphanInv
<1>4. h \notin alive /\ ~Filter(listeners[q][fd], h) =>
          listeners[q][fd] = None \/ OwnerOf[listeners[q][fd]] # h
  BY DEF Filter
<1> HIDE DEF h, left
<1>5. CASE Filter(listeners[q][fd], h)
  <2> DEFINE w == Removing(p, fd, left, h)
  <2>1. /\ w \in Works /\ w.listener = None /\ w.at = p /\ w.caller = h /\ w.fd = fd
        /\ w.todo = left
    BY <1>1, RemovingWork DEF Removing
  <2>2. Proceed(q, w)
    BY <1>2, <1>5
  <2> HIDE DEF w
  <2> QED
    BY <1>1, <1>3, <2>1, <2>2, RemovalInv
<1>6. CASE ~Filter(listeners[q][fd], h)
  <2> DEFINE w == Removing("visit", None, left, h)
  <2>1. /\ w \in Works /\ w.listener = None /\ w.at = "visit" /\ w.caller = h /\ w.fd = None
        /\ w.todo = left
    BY <1>1, VisitWork DEF Removing
  <2>2. Proceed(q, w)
    BY <1>2, <1>6
  <2>3. h \notin alive =>
            \A f \in Fds : listeners[q][f] # None /\ OwnerOf[listeners[q][f]] = h => f \in left
    BY <1>3, <1>4, <1>6
  <2> HIDE DEF w
  <2> QED
    BY <1>1, <2>1, <2>2, <2>3, RemovalInv
<1> QED
  BY <1>5, <1>6

\* No caller holds the last reference.
LEMMA ReleaseInv ==
    ASSUME TypeOK, ListenersInv, NEW h \in Handlers, ReleaseHandler(h)
    PROVE  ListenersInv'
<1> USE DEF ListenersInv, lockVars, waiterVars
<1>1. /\ h \in alive /\ \A q \in Queues : work[q].caller # h
      /\ alive' = alive \ {h} /\ dying' = dying \union {h}
      /\ UNCHANGED <<listeners, io, work, overlapped>>
  BY DEF ReleaseHandler
<1>2. OwnInv' /\ DeamonInv'
  BY <1>1 DEF OwnInv, DeamonInv, Busy, InDeamon
<1>3. CallInv'
  BY <1>1 DEF CallInv
<1>4. OrphanInv'
  BY <1>1 DEF OrphanInv
<1> QED
  BY <1>2, <1>3, <1>4

LEMMA WaitFailsInv ==
    ASSUME TypeOK, ListenersInv, NEW q \in Queues, WaitFails(q)
    PROVE  ListenersInv'
<1> USE DEF ListenersInv, lockVars, handlerVars
<1>1. /\ listeners' = [listeners EXCEPT ![q] = Empty.known]
      /\ io' = [io EXCEPT ![q] = Empty]
      /\ UNCHANGED <<alive, dying, work, overlapped>>
  BY DEF WaitFails
<1>2. /\ listeners'[q] = Empty.known /\ \A p \in Queues \ {q} : listeners'[p] = listeners[p]
      /\ io'[q] = Empty /\ \A w \in Waiters \ {q} : io'[w] = io[w]
      /\ Empty.watched = {} /\ \A fd \in Fds : Empty.known[fd] = None
  BY <1>1, TypeFacts DEF Empty
<1>3. OwnInv'
  <2> SUFFICES ASSUME NEW p \in Queues, NEW f \in io'[p].watched
               PROVE  io'[p].known[f] # None /\ listeners'[p][f] # None
    BY DEF OwnInv
  <2>1. p # q
    BY <1>2
  <2> QED
    BY <1>2, <2>1, TypeFacts DEF OwnInv
<1>4. DeamonInv'
  <2>1. io'[Deamon] = io[Deamon]
    BY <1>2, TypeFacts
  <2> QED
    BY <1>1, <2>1 DEF DeamonInv, Busy, InDeamon
<1>5. CallInv'
  BY <1>1 DEF CallInv
<1>6. OrphanInv'
  <2>1. \A p \in Queues, f \in Fds : listeners'[p][f] # None => listeners'[p][f] = listeners[p][f]
    BY <1>2
  <2> QED
    BY <1>1, <2>1 DEF OrphanInv
<1> QED
  BY <1>3, <1>4, <1>5, <1>6

\* A closed descriptor is watched by nobody; its history is over unless a call is under way.
LEMMA CloseInv ==
    ASSUME TypeOK, ListenersInv, NEW fd \in Fds, Close(fd)
    PROVE  ListenersInv'
<1> USE DEF ListenersInv, handlerVars
<1>1. /\ io' = [w \in Waiters |-> [io[w] EXCEPT !.watched = @ \ {fd}]]
      /\ overlapped' = IF \E q \in Queues : InDeamon(work[q]) /\ work[q].fd = fd
                       THEN overlapped
                       ELSE overlapped \ {fd}
      /\ UNCHANGED <<alive, dying, listeners, work>>
  BY DEF Close
<1>2. ASSUME NEW w \in Waiters
      PROVE  io'[w].known = io[w].known /\ io'[w].watched = io[w].watched \ {fd}
  <2>1. io'[w] = [io[w] EXCEPT !.watched = io[w].watched \ {fd}] /\ io[w] \in OpenState
    BY <1>1, TypeFacts
  <2> QED
    BY <2>1, RecordStates
<1>3. OwnInv'
  BY <1>1, <1>2, TypeFacts, OwnSame
<1>4. DeamonInv'
  <2> SUFFICES ASSUME NEW f \in Fds \ overlapped'
               PROVE  /\ f \in io'[Deamon].watched => io'[Deamon].known[f] # None
                      /\ \A q \in Queues : Busy(q, f)' =>
                             /\ \A p \in Queues \ {q} : ~Busy(p, f)'
                             /\ work'[q].at = "erase" => f \notin io'[Deamon].watched
                             /\ work'[q].at = "ctlAdd" => io'[Deamon].known[f] # None
    BY DEF DeamonInv
  <2>1. \A q \in Queues : Busy(q, f)' <=> Busy(q, f)
    BY <1>1 DEF Busy, InDeamon
  <2>2. CASE f \notin overlapped
    BY <1>1, <1>2, <2>1, <2>2, TypeFacts DEF DeamonInv
  <2>3. CASE f \in overlapped
    <3>1. f = fd /\ \A q \in Queues : ~Busy(q, f)
      BY <1>1, <2>3 DEF Busy
    <3> QED
      BY <1>2, <2>1, <3>1, TypeFacts
  <2> QED
    BY <2>2, <2>3
<1>5. CallInv' /\ OrphanInv'
  BY <1>1 DEF CallInv, OrphanInv
<1> QED
  BY <1>3, <1>4, <1>5

LEMMA SameInv ==
    ASSUME TypeOK, ListenersInv,
           UNCHANGED <<alive, dying, listeners, io, work, overlapped>>
    PROVE  ListenersInv'
  BY DEF ListenersInv, OwnInv, DeamonInv, OrphanInv, CallInv, Busy, InDeamon

LEMMA ListenersStep == TypeOK /\ ListenersInv /\ [Next]_vars => ListenersInv'
<1> SUFFICES ASSUME TypeOK, ListenersInv, [Next]_vars PROVE ListenersInv'
  OBVIOUS
<1> USE DEF handlerVars, waiterVars, lockVars
<1>1. CASE UNCHANGED vars
  BY <1>1, SameInv DEF vars
<1>2. ASSUME NEW q \in Queues, GoOn(q) PROVE ListenersInv'
  BY <1>2, CallInDeamonInv, AddToOwnInv, UnregisterInv, VisitInv DEF GoOn
<1>3. ASSUME NEW w \in Waiters, NEW fd \in Fds, EpollWait(w, fd) PROVE ListenersInv'
  BY <1>3, SameInv DEF EpollWait
<1>4. ASSUME NEW q \in Queues, NEW fd \in Fds, PassOver(q, fd) \/ LookUp(q, fd)
      PROVE  ListenersInv'
  BY <1>4, SameInv DEF PassOver, LookUp
<1>5. ASSUME NEW q \in Queues, HandleFileDescriptorEvent(q) PROVE ListenersInv'
  BY <1>5, SameInv DEF HandleFileDescriptorEvent
<1>6. CASE DeamonHandleFileDescriptorEvent
  BY <1>6, SameInv DEF DeamonHandleFileDescriptorEvent
<1>7. ASSUME NEW t \in tasks, RunTask(t) PROVE ListenersInv'
  BY <1>7, SameInv DEF RunTask
<1>8. ASSUME NEW fd \in Fds, Open(fd) \/ Input(fd) PROVE ListenersInv'
  BY <1>8, SameInv DEF Open, Input
<1>9. CASE Next
  BY <1>2, <1>3, <1>4, <1>5, <1>6, <1>7, <1>8, <1>9, AddInv, RemoveInv, ReleaseInv,
     WaitFailsInv, CloseInv
  DEF Next
<1> QED
  BY <1>1, <1>9

\* Whatever the runner's own waiter watches has an entry in its map and a listener in
\* listeners_, and whatever the DeamonIoWaiter watches has an entry in its map, unless two
\* queues were in the DeamonIoWaiter's code for that number at the same time.
THEOREM WatchedStaysRegistered == Spec => []WatchedIsRegistered
<1>1. TypeOK /\ ListenersInv => WatchedIsRegistered
  <2> SUFFICES ASSUME TypeOK, ListenersInv PROVE WatchedIsRegistered
    OBVIOUS
  <2>1. io[Deamon].watched \subseteq Fds
    BY TypeFacts
  <2> QED
    BY <2>1 DEF ListenersInv, OwnInv, DeamonInv, WatchedIsRegistered
<1> QED
  BY <1>1, InitListeners, ListenersStep, TypesAreKept, PTL DEF Spec

\* A listener of a queue belongs to a handler that is alive or whose destructor has not yet
\* been through listeners_, however destructors, additions and failing waits interleave.
THEOREM NoListenerOutlivesItsOwner == Spec => []OrphanListenersAreRemoved
<1>1. ListenersInv => OrphanListenersAreRemoved
  BY DEF ListenersInv, OrphanInv, OrphanListenersAreRemoved
<1> QED
  BY <1>1, InitListeners, ListenersStep, TypesAreKept, PTL DEF Spec

=============================================================================
