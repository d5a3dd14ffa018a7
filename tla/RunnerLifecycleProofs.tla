----------------------- MODULE RunnerLifecycleProofs -----------------------
(***************************************************************************)
(* Proofs about RunnerLifecycle, for any number of runners, threads and    *)
(* clients.                                                                *)
(***************************************************************************)
EXTENDS RunnerLifecycle, TLAPS

\* The part of TypeOK that is about the clients.
ClientTypeOK ==
    /\ does \in [Clients -> {"idle", "attach", "abandon", "join"}]
    /\ uses \in [Clients -> Runners \union {NoRunner}]
    /\ owns \in [Clients -> Threads \union {NoThread}]
    /\ \A c \in Clients :
           /\ does[c] = "idle" <=> uses[c] = NoRunner
           /\ does[c] = "idle" <=> owns[c] = NoThread

LEMMA InitTypeOK == Init => TypeOK
<1> SUFFICES ASSUME Init PROVE TypeOK
  OBVIOUS
<1>1. runs \in [Runners -> 0 .. MaxRuns]
  BY LifecycleAssumption DEF Init
<1>2. ClientTypeOK
  BY DEF Init, ClientTypeOK
<1>3. /\ pc \in [Threads -> {"unused", "born", "prepare", "check", "loop", "reclaim"} \union Ending]
      /\ of \in [Threads -> Runners \union {NoRunner}]
      /\ \A t \in Threads : pc[t] # "unused" => of[t] \in Runners
  BY DEF Init
<1>4. /\ life \in [Runners -> {"none", "alive", "expired", "gone"}]
      /\ finished \in [Runners -> BOOLEAN]
      /\ running \in [Runners -> BOOLEAN]
  BY DEF Init
<1>5. /\ destroying = FALSE
      /\ reclaims \in Seq(Threads)
      /\ deposit \in SUBSET Threads
      /\ threadLock \in Threads \union {Exit, Free}
      /\ needCreateThread = TRUE
      /\ collector = "none" /\ collecting = NoThread
      /\ told = FALSE
      /\ exit = "none" /\ exiting = NoThread
  BY DEF Init
<1> QED
  BY <1>1, <1>2, <1>3, <1>4, <1>5 DEF TypeOK, ClientTypeOK

\* A sequence with one more element.
LEMMA Longer ==
    ASSUME NEW S, NEW s \in Seq(S), NEW e \in S
    PROVE  /\ Append(s, e) \in Seq(S)
           /\ Len(Append(s, e)) = Len(s) + 1
           /\ Len(s) \in Nat
           /\ \A i \in 1 .. Len(s) : Append(s, e)[i] = s[i]
           /\ Append(s, e)[Len(s) + 1] = e
  OBVIOUS

\* A sequence without its last element.
LEMMA Shorter ==
    ASSUME NEW S, NEW s \in Seq(S), s # <<>>
    PROVE  /\ Len(s) \in Nat \ {0}
           /\ s[Len(s)] \in S
           /\ SubSeq(s, 1, Len(s) - 1) \in Seq(S)
           /\ Len(SubSeq(s, 1, Len(s) - 1)) = Len(s) - 1
           /\ \A i \in 1 .. Len(s) - 1 : SubSeq(s, 1, Len(s) - 1)[i] = s[i]
<1>1. Len(s) \in Nat /\ Len(s) # 0
  OBVIOUS
<1>2. s[Len(s)] \in S
  BY <1>1
<1> DEFINE n == Len(s) - 1
<1>3. n \in Nat /\ n <= Len(s)
  BY <1>1
<1>4. \A i \in 1 .. n : s[i] \in S
  BY <1>1, <1>3
<1>5. SubSeq(s, 1, n) = [i \in 1 .. n |-> s[i]]
  BY <1>3
<1> HIDE DEF n
<1>6. [i \in 1 .. n |-> s[i]] \in Seq(S)
  BY <1>3, <1>4
<1>7. Len([i \in 1 .. n |-> s[i]]) = n
  BY <1>3
<1> QED
  BY <1>1, <1>2, <1>5, <1>6, <1>7 DEF n

\* Types: the operations of the clients.
LEMMA ClientTypes ==
    ASSUME NEW c \in Clients, TypeOK, Client(c)
    PROVE  TypeOK'
<1> USE LifecycleAssumption DEF runnerVars, threadVars, clientVars, tableVars, collectorVars,
                                exitVars, workVars, poolVars, Ending
<1>1. ASSUME NEW r \in Runners, Create(c, r) PROVE TypeOK'
  <2>1. CASE KindOf[r] = "deposited"
    <3>1. PICK t \in Threads : pc' = [pc EXCEPT ![t] = "born"] /\ of' = [of EXCEPT ![t] = r]
                                /\ owns' = [owns EXCEPT ![c] = t]
                                /\ does' = [does EXCEPT ![c] = "attach"]
                                /\ uses' = [uses EXCEPT ![c] = r]
      BY <1>1, <2>1 DEF Create, Spawn
    <3>2. /\ pc' \in [Threads -> {"unused", "born", "prepare", "check", "loop", "reclaim"}
                                       \union Ending]
          /\ of' \in [Threads -> Runners \union {NoRunner}]
          /\ \A u \in Threads : pc'[u] # "unused" => of'[u] \in Runners
      BY <3>1 DEF TypeOK
    <3>3. ClientTypeOK'
      <4>1. does' \in [Clients -> {"idle", "attach", "abandon", "join"}]
        BY <3>1 DEF TypeOK
      <4>2. /\ uses' \in [Clients -> Runners \union {NoRunner}]
            /\ owns' \in [Clients -> Threads \union {NoThread}]
        BY <3>1 DEF TypeOK
      <4>3. ASSUME NEW d \in Clients
           PROVE  /\ does'[d] = "idle" <=> uses'[d] = NoRunner
                  /\ does'[d] = "idle" <=> owns'[d] = NoThread
        BY <3>1 DEF TypeOK
      <4> QED
        BY <4>1, <4>2, <4>3 DEF ClientTypeOK
    <3> QED
      BY <1>1, <2>1, <3>2, <3>3 DEF Create, TypeOK, ClientTypeOK
  <2>2. CASE KindOf[r] # "deposited"
    BY <1>1, <2>2 DEF Create, TypeOK
  <2> QED
    BY <2>1, <2>2
<1>2. ASSUME NEW r \in Runners, Run(c, r) PROVE TypeOK'
  <2>1. runs' \in [Runners -> 0 .. MaxRuns]
    BY <1>2 DEF Run, TypeOK
  <2>2. PICK t \in Threads : pc' = [pc EXCEPT ![t] = "born"] /\ of' = [of EXCEPT ![t] = r]
                              /\ owns' = [owns EXCEPT ![c] = t]
                              /\ does' = [does EXCEPT ![c] = "attach"]
                              /\ uses' = [uses EXCEPT ![c] = r]
    BY <1>2 DEF Run, Spawn
  <2>3. /\ pc' \in [Threads -> {"unused", "born", "prepare", "check", "loop", "reclaim"}
                                     \union Ending]
        /\ of' \in [Threads -> Runners \union {NoRunner}]
        /\ \A u \in Threads : pc'[u] # "unused" => of'[u] \in Runners
    BY <2>2 DEF TypeOK
  <2>4. ClientTypeOK'
    <3>1. does' \in [Clients -> {"idle", "attach", "abandon", "join"}]
      BY <2>2 DEF TypeOK
    <3>2. /\ uses' \in [Clients -> Runners \union {NoRunner}]
          /\ owns' \in [Clients -> Threads \union {NoThread}]
      BY <2>2 DEF TypeOK
    <3>3. ASSUME NEW d \in Clients
          PROVE  /\ does'[d] = "idle" <=> uses'[d] = NoRunner
                 /\ does'[d] = "idle" <=> owns'[d] = NoThread
      BY <2>2 DEF TypeOK
    <3> QED
      BY <3>1, <3>2, <3>3 DEF ClientTypeOK
  <2>5. running' \in [Runners -> BOOLEAN]
    BY <1>2 DEF Run, TypeOK
  <2> QED
    BY <1>2, <2>1, <2>3, <2>4, <2>5 DEF Run, TypeOK, ClientTypeOK
<1>3. CASE Attach(c)
  <2>1. owns[c] \in Threads /\ uses[c] \in Runners
    BY <1>3 DEF Attach, TypeOK
  <2>2. CASE destroying
    <3>1. does' = [does EXCEPT ![c] = "abandon"] /\ uses' = uses /\ owns' = owns
      BY <1>3, <2>2 DEF Attach
    <3>2. ClientTypeOK'
      BY <1>3, <3>1 DEF Attach, TypeOK, ClientTypeOK
    <3> QED
      BY <1>3, <2>2, <3>2 DEF Attach, TypeOK, ClientTypeOK
  <2>3. CASE ~destroying
    <3>1. deposit' \in SUBSET Threads
      BY <1>3, <2>1, <2>3 DEF Attach, TypeOK
    <3>2. running' \in [Runners -> BOOLEAN]
      BY <1>3, <2>1, <2>3 DEF Attach, TypeOK
    <3>3. ClientTypeOK'
      <4>0. /\ does' = [does EXCEPT ![c] = "idle"]
            /\ uses' = [uses EXCEPT ![c] = NoRunner]
            /\ owns' = [owns EXCEPT ![c] = NoThread]
        BY <1>3, <2>3 DEF Attach, Idle
      <4>1. does' \in [Clients -> {"idle", "attach", "abandon", "join"}]
        BY <4>0 DEF TypeOK
      <4>2. /\ uses' \in [Clients -> Runners \union {NoRunner}]
            /\ owns' \in [Clients -> Threads \union {NoThread}]
        BY <4>0 DEF TypeOK
      <4>3. ASSUME NEW d \in Clients
           PROVE  /\ does'[d] = "idle" <=> uses'[d] = NoRunner
                  /\ does'[d] = "idle" <=> owns'[d] = NoThread
        BY <4>0 DEF TypeOK
      <4> QED
        BY <4>1, <4>2, <4>3 DEF ClientTypeOK
    <3> QED
      BY <1>3, <2>3, <3>1, <3>2, <3>3 DEF Attach, TypeOK, ClientTypeOK
  <2> QED
    BY <2>2, <2>3
<1>4. CASE Abandon(c)
  BY <1>4 DEF Abandon, TypeOK
<1>5. CASE JoinAbandoned(c)
  BY <1>5 DEF JoinAbandoned, Idle, TypeOK
<1> QED
  BY <1>1, <1>2, <1>3, <1>4, <1>5 DEF Client

\* Types: the threads of the runners.
LEMMA ThreadTypes ==
    ASSUME NEW t \in Threads, TypeOK, Thread(t)
    PROVE  TypeOK'
<1> USE LifecycleAssumption DEF runnerVars, threadVars, clientVars, tableVars, collectorVars,
                                exitVars, workVars, poolVars, Ending
<1>1. CASE ThreadMain(t)
  <2>1. /\ \/ pc' = [pc EXCEPT ![t] = "prepare"]
           \/ pc' = [pc EXCEPT ![t] = "reclaim"]
        /\ pc[t] = "born" /\ of' = of
    BY <1>1 DEF ThreadMain
  <2>2. /\ pc' \in [Threads -> {"unused", "born", "prepare", "check", "loop", "reclaim"}
                                 \union Ending]
        /\ \A u \in Threads : pc'[u] # "unused" => pc[u] # "unused"
    <3>1. pc \in [Threads -> {"unused", "born", "prepare", "check", "loop", "reclaim"} \union Ending]
      BY DEF TypeOK
    <3> HIDE DEF Ending
    <3> QED
      BY <2>1, <3>1
  <2> QED
    BY <1>1, <2>1, <2>2 DEF ThreadMain, TypeOK
<1>2. CASE Prepare(t)
  BY <1>2 DEF Prepare, TypeOK
<1>3. CASE CheckOwner(t)
  BY <1>3 DEF CheckOwner, TypeOK
<1>4. CASE LeaveLoop(t)
  BY <1>4 DEF LeaveLoop, TypeOK
<1>5. CASE ReclaimCurrentThread(t)
  <2>1. reclaims' \in Seq(Threads)
    <3>1. Append(reclaims, t) \in Seq(Threads)
      BY Longer DEF TypeOK
    <3> QED
      BY <1>5, <3>1 DEF ReclaimCurrentThread, TypeOK
  <2>2. told' \in BOOLEAN
    BY <1>5 DEF ReclaimCurrentThread, TypeOK
  <2>3. pc' \in [Threads -> {"unused", "born", "prepare", "check", "loop", "reclaim"}
                                 \union Ending]
        /\ (\A u \in Threads : pc'[u] # "unused" => of'[u] \in Runners)
    <3>1. /\ pc' = [pc EXCEPT ![t] = IF destroying THEN "ended" ELSE "tryLock"]
          /\ of' = of /\ of[t] \in Runners
      BY <1>5 DEF ReclaimCurrentThread, TypeOK
    <3> QED
      BY <3>1 DEF TypeOK
  <2> QED
    BY <1>5, <2>1, <2>2, <2>3 DEF ReclaimCurrentThread, TypeOK
<1>6. CASE TryLock(t)
  <2>1. \/ pc' = [pc EXCEPT ![t] = "create"] /\ threadLock' = t
        \/ pc' = [pc EXCEPT ![t] = "ended"] /\ threadLock' = threadLock
    BY <1>6 DEF TryLock
  <2>2. /\ threadLock' \in Threads \union {Exit, Free}
        /\ pc' \in [Threads -> {"unused", "born", "prepare", "check", "loop", "reclaim"}
                                 \union Ending]
    <3>1. "create" \in Ending /\ "ended" \in Ending
      BY DEF Ending
    <3>2. CASE pc' = [pc EXCEPT ![t] = "create"] /\ threadLock' = t
      BY <3>1, <3>2 DEF TypeOK
    <3>3. CASE pc' = [pc EXCEPT ![t] = "ended"] /\ threadLock' = threadLock
      BY <3>1, <3>3 DEF TypeOK
    <3> QED
      BY <2>1, <3>2, <3>3
  <2>3. of' = of /\ (\A u \in Threads : pc'[u] # "unused" => pc[u] # "unused")
    BY <1>6, <2>1 DEF TryLock, TypeOK
  <2> QED
    BY <1>6, <2>2, <2>3 DEF TryLock, TypeOK
<1>7. CASE CreateCollector(t)
  BY <1>7 DEF CreateCollector, TypeOK
<1> QED
  BY <1>1, <1>2, <1>3, <1>4, <1>5, <1>6, <1>7 DEF Thread

\* Types: the collector.
LEMMA CollectorTypes == TypeOK /\ Collector => TypeOK'
<1> SUFFICES ASSUME TypeOK, Collector PROVE TypeOK'
  OBVIOUS
<1> USE LifecycleAssumption DEF runnerVars, threadVars, clientVars, tableVars, collectorVars,
                                exitVars, workVars, poolVars, Ending
<1>1. CASE Collect
  <2>1. /\ reclaims[Len(reclaims)] \in Threads
        /\ SubSeq(reclaims, 1, Len(reclaims) - 1) \in Seq(Threads)
    BY <1>1, Shorter DEF Collect, TypeOK
  <2> QED
    BY <1>1, <2>1 DEF Collect, Collecting, TypeOK
<1>2. CASE JoinCollected
  BY <1>2 DEF JoinCollected, TypeOK
<1>3. CASE CollectorWaits
  BY <1>3 DEF CollectorWaits, Collecting, TypeOK
<1>4. CASE CollectorLeaves
  BY <1>4 DEF CollectorLeaves, TypeOK
<1>5. CASE CollectorWakes
  BY <1>5 DEF CollectorWakes, TypeOK
<1> QED
  BY <1>1, <1>2, <1>3, <1>4, <1>5 DEF Collector

\* Types: the exit of the process.
LEMMA ProcessTypes == TypeOK /\ Process => TypeOK'
<1> SUFFICES ASSUME TypeOK, Process PROVE TypeOK'
  OBVIOUS
<1> USE LifecycleAssumption DEF runnerVars, threadVars, clientVars, tableVars, collectorVars,
                                exitVars, workVars, poolVars, Ending
<1>1. CASE BeginStop
  BY <1>1 DEF BeginStop, TypeOK
<1>2. CASE LockThread
  BY <1>2 DEF LockThread, TypeOK
<1>3. CASE JoinCollector
  BY <1>3 DEF JoinCollector, TypeOK
<1>4. CASE ReclaimAll
  BY <1>4 DEF ReclaimAll, TypeOK
<1>5. CASE ThreadExit
  BY <1>5 DEF ThreadExit, TypeOK
<1>6. CASE JoinExiting
  BY <1>6 DEF JoinExiting, TypeOK
<1> QED
  BY <1>1, <1>2, <1>3, <1>4, <1>5, <1>6 DEF Process

LEMMA TypeStep == TypeOK /\ [Next]_vars => TypeOK'
<1> SUFFICES ASSUME TypeOK, [Next]_vars PROVE TypeOK'
  OBVIOUS
<1>1. ASSUME NEW r \in Runners, Release(r) PROVE TypeOK'
  BY <1>1 DEF Release, TypeOK, runnerVars, threadVars, clientVars, tableVars, collectorVars,
              exitVars, workVars, poolVars
<1>2. ASSUME NEW r \in Runners, Destroy(r) PROVE TypeOK'
  BY <1>2 DEF Destroy, TypeOK, runnerVars, threadVars, clientVars, tableVars, collectorVars,
              exitVars, workVars, poolVars
<1>3. CASE UNCHANGED vars
  BY <1>3 DEF TypeOK, vars, runnerVars, threadVars, clientVars, tableVars, collectorVars,
              exitVars, workVars, poolVars
<1> QED
  BY <1>1, <1>2, <1>3, ClientTypes, ThreadTypes, CollectorTypes, ProcessTypes DEF Next

\* Every variable keeps its type, and a client holds a runner and a thread exactly while its
\* operation needs them, for any number of runners, threads and clients.
THEOREM TypesAreKept == Spec => []TypeOK
  BY TypeStep, InitTypeOK, PTL DEF Spec

-----------------------------------------------------------------------------
(* The inductive invariant *)

\* EveryThreadIsHeld, holder by holder.
Holding ==
    \A t \in Threads :
        /\ pc[t] # "unused" <=> \/ \E c \in Clients : owns[c] = t
                                \/ t \in deposit
                                \/ collecting = t
                                \/ exiting = t
        /\ \A c, d \in Clients : owns[c] = t /\ owns[d] = t => c = d
        /\ \A c \in Clients : owns[c] = t => t \notin deposit /\ collecting # t /\ exiting # t
        /\ t \in deposit => collecting # t /\ exiting # t
        /\ collecting = t => exiting # t

\* Stop's phases, and who owns threadLock_.
StopOrder ==
    /\ exit # "none" <=> destroying
    /\ needCreateThread <=> exit \in {"none", "lock", "joinCollector"}
    /\ threadLock = Exit <=> exit = "joinCollector"
    /\ \A t \in Threads : threadLock = t <=> pc[t] = "create"
    /\ \A c \in Clients : does[c] \in {"abandon", "join"} => destroying
    /\ NoCollectorAfterStop

\* Until Stop begins, reclaims_ names threads on their way out, each once; afterwards ids may
\* be used again, but not those of deposited threads.
ReclaimsEnding ==
    /\ \A i \in 1 .. Len(reclaims) :
           /\ destroying /\ reclaims[i] \in deposit => pc[reclaims[i]] \in Ending
           /\ ~destroying =>
                  /\ pc[reclaims[i]] \in Ending
                  /\ reclaims[i] # collecting
                  /\ \A j \in 1 .. Len(reclaims) : reclaims[i] = reclaims[j] => i = j
    /\ CollectorJoinsEnding

LifecycleInv ==
    /\ TypeOK
    /\ Holding
    /\ StopOrder
    /\ ReclaimsEnding
    /\ NoStrandedReclaim

LEMMA InitLifecycleInv == Init => LifecycleInv
<1> SUFFICES ASSUME Init PROVE LifecycleInv
  OBVIOUS
<1>1. Holding /\ StopOrder
  BY LifecycleAssumption DEF Init, Holding, StopOrder, NoCollectorAfterStop
<1>2. ReclaimsEnding /\ NoStrandedReclaim
  BY DEF Init, ReclaimsEnding, CollectorJoinsEnding, NoStrandedReclaim
<1> QED
  BY <1>1, <1>2, InitTypeOK DEF LifecycleInv

\* Holding: threads change hands, and are born and joined in their holder's hands.
LEMMA HoldingStep ==
    ASSUME LifecycleInv, Next
    PROVE  Holding'
<1> USE LifecycleAssumption DEF runnerVars, threadVars, clientVars, tableVars, collectorVars,
                                exitVars, workVars, poolVars
<1>0. TypeOK /\ Holding
  BY DEF LifecycleInv
<1>1. ASSUME NEW c \in Clients, NEW r \in Runners, Create(c, r) PROVE Holding'
  <2>1. CASE KindOf[r] = "deposited"
    <3>1. PICK t \in Threads : /\ pc[t] = "unused" /\ pc' = [pc EXCEPT ![t] = "born"]
                                /\ owns' = [owns EXCEPT ![c] = t]
                                /\ of' = [of EXCEPT ![t] = r]
                                /\ does' = [does EXCEPT ![c] = "attach"]
                                /\ uses' = [uses EXCEPT ![c] = r]
      BY <1>1, <2>1 DEF Create, Spawn
    <3>2. /\ deposit' = deposit /\ collecting' = collecting /\ exiting' = exiting
          /\ owns[c] = NoThread
      BY <1>0, <1>1 DEF Create, TypeOK
    <3>3. ASSUME NEW u \in Threads
          PROVE  /\ pc'[u] # "unused" <=> u = t \/ pc[u] # "unused"
                 /\ \A d \in Clients : owns'[d] = u <=> IF d = c THEN u = t ELSE owns[d] = u
      BY <1>0, <3>1 DEF TypeOK
    <3>4. \A d \in Clients : owns[d] # t
      BY <1>0, <3>1 DEF Holding
    <3> QED
      BY <1>0, <3>1, <3>2, <3>3, <3>4 DEF Holding
  <2>2. CASE KindOf[r] # "deposited"
    BY <1>0, <1>1, <2>2 DEF Create, Holding, TypeOK
  <2> QED
    BY <2>1, <2>2
<1>2. ASSUME NEW c \in Clients, NEW r \in Runners, Run(c, r) PROVE Holding'
  <2>1. PICK t \in Threads : /\ pc[t] = "unused" /\ pc' = [pc EXCEPT ![t] = "born"]
                              /\ owns' = [owns EXCEPT ![c] = t]
                              /\ of' = [of EXCEPT ![t] = r]
                              /\ does' = [does EXCEPT ![c] = "attach"]
                              /\ uses' = [uses EXCEPT ![c] = r]
    BY <1>2 DEF Run, Spawn
  <2>2. /\ deposit' = deposit /\ collecting' = collecting /\ exiting' = exiting
        /\ owns[c] = NoThread
    BY <1>0, <1>2 DEF Run, TypeOK
  <2>3. ASSUME NEW u \in Threads
        PROVE  /\ pc'[u] # "unused" <=> u = t \/ pc[u] # "unused"
               /\ \A d \in Clients : owns'[d] = u <=> IF d = c THEN u = t ELSE owns[d] = u
    BY <1>0, <2>1 DEF TypeOK
  <2>4. \A d \in Clients : owns[d] # t
    BY <1>0, <2>1 DEF Holding
  <2> QED
    BY <1>0, <2>1, <2>2, <2>3, <2>4 DEF Holding
<1>3. ASSUME NEW c \in Clients, Attach(c) PROVE Holding'
  <2>1. /\ pc' = pc /\ collecting' = collecting /\ exiting' = exiting
    BY <1>3 DEF Attach
  <2>2. CASE destroying
    <3>1. owns' = owns /\ deposit' = deposit
      BY <1>3, <2>2 DEF Attach
    <3> QED
      BY <1>0, <2>1, <3>1 DEF Holding
  <2>3. CASE ~destroying
    <3>1. /\ deposit' = deposit \union {owns[c]}
          /\ \A d \in Clients : owns'[d] = IF d = c THEN NoThread ELSE owns[d]
      BY <1>0, <1>3, <2>3 DEF Attach, Idle, TypeOK
    <3>2. owns[c] \in Threads
      BY <1>0, <1>3 DEF Attach, TypeOK
    <3>3. NoThread \notin Threads
      BY LifecycleAssumption
    <3> QED
      BY <1>0, <2>1, <3>1, <3>2, <3>3 DEF Holding
  <2> QED
    BY <2>2, <2>3
<1>4. ASSUME NEW c \in Clients, Abandon(c) PROVE Holding'
  BY <1>0, <1>4 DEF Abandon, Holding, TypeOK
<1>5. ASSUME NEW c \in Clients, JoinAbandoned(c) PROVE Holding'
  BY <1>0, <1>5 DEF JoinAbandoned, Idle, Holding, TypeOK
<1>6. ASSUME NEW r \in Runners, Release(r) PROVE Holding'
  BY <1>0, <1>6 DEF Release, Holding, TypeOK
<1>7. ASSUME NEW r \in Runners, Destroy(r) PROVE Holding'
  BY <1>0, <1>7 DEF Destroy, Holding, TypeOK
<1>8. ASSUME NEW t \in Threads, ThreadMain(t) PROVE Holding'
  <2>1. UNCHANGED <<owns, deposit, collecting, exiting>>
    BY <1>8 DEF ThreadMain, runnerVars, clientVars, poolVars
  <2>2. DOMAIN pc = Threads /\ pc[t] = "born"
        /\ (pc' = [pc EXCEPT ![t] = "prepare"] \/ pc' = [pc EXCEPT ![t] = "reclaim"])
    <3>1. DOMAIN pc = Threads
      BY <1>0 DEF TypeOK
    <3> QED
      BY <1>8, <3>1 DEF ThreadMain
  <2>3. \A u \in Threads : pc'[u] # "unused" <=> pc[u] # "unused"
    BY <2>2
  <2> QED
    BY <1>0, <2>1, <2>3 DEF Holding
<1>9. ASSUME NEW t \in Threads, Prepare(t) PROVE Holding'
  BY <1>0, <1>9 DEF Prepare, Holding, TypeOK
<1>10. ASSUME NEW t \in Threads, CheckOwner(t) PROVE Holding'
  BY <1>0, <1>10 DEF CheckOwner, Holding, TypeOK
<1>11. ASSUME NEW t \in Threads, LeaveLoop(t) PROVE Holding'
  BY <1>0, <1>11 DEF LeaveLoop, Holding, TypeOK
<1>12. ASSUME NEW t \in Threads, ReclaimCurrentThread(t) PROVE Holding'
  <2>1. /\ owns' = owns
        /\ deposit' = deposit /\ collecting' = collecting /\ exiting' = exiting
    BY <1>12 DEF ReclaimCurrentThread
  <2>2. \A u \in Threads : pc'[u] # "unused" <=> pc[u] # "unused"
    BY <1>0, <1>12 DEF ReclaimCurrentThread, TypeOK
  <2> QED
    BY <1>0, <2>1, <2>2 DEF Holding
<1>13. ASSUME NEW t \in Threads, TryLock(t) PROVE Holding'
  <2>1. /\ owns' = owns
        /\ deposit' = deposit /\ collecting' = collecting /\ exiting' = exiting
    BY <1>13 DEF TryLock
  <2>2. \A u \in Threads : pc'[u] # "unused" <=> pc[u] # "unused"
    BY <1>0, <1>13 DEF TryLock, TypeOK
  <2> QED
    BY <1>0, <2>1, <2>2 DEF Holding
<1>14. ASSUME NEW t \in Threads, CreateCollector(t) PROVE Holding'
  BY <1>0, <1>14 DEF CreateCollector, Holding, TypeOK
<1>15. CASE Collect
  BY <1>0, <1>15 DEF Collect, Collecting, Holding, TypeOK
<1>16. CASE JoinCollected
  BY <1>0, <1>16 DEF JoinCollected, Holding, TypeOK
<1>17. CASE CollectorWaits
  BY <1>0, <1>17 DEF CollectorWaits, Collecting, Holding, TypeOK
<1>18. CASE CollectorLeaves
  BY <1>0, <1>18 DEF CollectorLeaves, Holding, TypeOK
<1>19. CASE CollectorWakes
  BY <1>0, <1>19 DEF CollectorWakes, Holding, TypeOK
<1>20. CASE BeginStop
  BY <1>0, <1>20 DEF BeginStop, Holding, TypeOK
<1>21. CASE LockThread
  BY <1>0, <1>21 DEF LockThread, Holding, TypeOK
<1>22. CASE JoinCollector
  BY <1>0, <1>22 DEF JoinCollector, Holding, TypeOK
<1>23. CASE ReclaimAll
  BY <1>0, <1>23 DEF ReclaimAll, Holding, TypeOK
<1>24. CASE ThreadExit
  BY <1>0, <1>24 DEF ThreadExit, Holding, TypeOK
<1>25. CASE JoinExiting
  BY <1>0, <1>25 DEF JoinExiting, Holding, TypeOK
<1> QED
  BY <1>1, <1>2, <1>3, <1>4, <1>5, <1>6, <1>7, <1>8, <1>9, <1>10, <1>11, <1>12, <1>13,
     <1>14, <1>15, <1>16, <1>17, <1>18, <1>19, <1>20, <1>21, <1>22, <1>23, <1>24, <1>25
     DEF Next, Client, Thread, Collector, Process

\* StopOrder: threadLock_ is given up by its owner only, and Stop's phases follow one another.
LEMMA StopOrderStep ==
    ASSUME LifecycleInv, Next
    PROVE  StopOrder'
<1> USE LifecycleAssumption DEF runnerVars, threadVars, clientVars, tableVars, collectorVars,
                                exitVars, workVars, poolVars
<1>0. TypeOK /\ StopOrder
  BY DEF LifecycleInv
<1>1. ASSUME NEW c \in Clients, NEW r \in Runners, Create(c, r) PROVE StopOrder'
  BY <1>0, <1>1 DEF Create, Spawn, StopOrder, NoCollectorAfterStop, TypeOK
<1>2. ASSUME NEW c \in Clients, NEW r \in Runners, Run(c, r) PROVE StopOrder'
  BY <1>0, <1>2 DEF Run, Spawn, StopOrder, NoCollectorAfterStop, TypeOK
<1>3. ASSUME NEW c \in Clients, Attach(c) PROVE StopOrder'
  BY <1>0, <1>3 DEF Attach, Idle, StopOrder, NoCollectorAfterStop, TypeOK
<1>4. ASSUME NEW c \in Clients, Abandon(c) PROVE StopOrder'
  BY <1>0, <1>4 DEF Abandon, StopOrder, NoCollectorAfterStop, TypeOK
<1>5. ASSUME NEW c \in Clients, JoinAbandoned(c) PROVE StopOrder'
  BY <1>0, <1>5 DEF JoinAbandoned, Idle, StopOrder, NoCollectorAfterStop, TypeOK
<1>6. ASSUME NEW r \in Runners, Release(r) PROVE StopOrder'
  BY <1>0, <1>6 DEF Release, StopOrder, NoCollectorAfterStop, TypeOK
<1>7. ASSUME NEW r \in Runners, Destroy(r) PROVE StopOrder'
  BY <1>0, <1>7 DEF Destroy, StopOrder, NoCollectorAfterStop, TypeOK
<1>8. ASSUME NEW t \in Threads, ThreadMain(t) PROVE StopOrder'
  BY <1>0, <1>8 DEF ThreadMain, StopOrder, NoCollectorAfterStop, TypeOK
<1>9. ASSUME NEW t \in Threads, Prepare(t) PROVE StopOrder'
  BY <1>0, <1>9 DEF Prepare, StopOrder, NoCollectorAfterStop, TypeOK
<1>10. ASSUME NEW t \in Threads, CheckOwner(t) PROVE StopOrder'
  BY <1>0, <1>10 DEF CheckOwner, StopOrder, NoCollectorAfterStop, TypeOK
<1>11. ASSUME NEW t \in Threads, LeaveLoop(t) PROVE StopOrder'
  BY <1>0, <1>11 DEF LeaveLoop, StopOrder, NoCollectorAfterStop, TypeOK
<1>12. ASSUME NEW t \in Threads, ReclaimCurrentThread(t) PROVE StopOrder'
  BY <1>0, <1>12 DEF ReclaimCurrentThread, StopOrder, NoCollectorAfterStop, TypeOK
<1>13. ASSUME NEW t \in Threads, TryLock(t) PROVE StopOrder'
  BY <1>0, <1>13 DEF TryLock, StopOrder, NoCollectorAfterStop, TypeOK
<1>14. ASSUME NEW t \in Threads, CreateCollector(t) PROVE StopOrder'
  BY <1>0, <1>14 DEF CreateCollector, StopOrder, NoCollectorAfterStop, TypeOK
<1>15. CASE Collect
  BY <1>0, <1>15 DEF Collect, Collecting, StopOrder, NoCollectorAfterStop, TypeOK
<1>16. CASE JoinCollected
  BY <1>0, <1>16 DEF JoinCollected, StopOrder, NoCollectorAfterStop, TypeOK
<1>17. CASE CollectorWaits
  BY <1>0, <1>17 DEF CollectorWaits, Collecting, StopOrder, NoCollectorAfterStop, TypeOK
<1>18. CASE CollectorLeaves
  BY <1>0, <1>18 DEF CollectorLeaves, StopOrder, NoCollectorAfterStop, TypeOK
<1>19. CASE CollectorWakes
  BY <1>0, <1>19 DEF CollectorWakes, StopOrder, NoCollectorAfterStop, TypeOK
<1>20. CASE BeginStop
  BY <1>0, <1>20 DEF BeginStop, StopOrder, NoCollectorAfterStop, TypeOK
<1>21. CASE LockThread
  BY <1>0, <1>21 DEF LockThread, StopOrder, NoCollectorAfterStop, TypeOK
<1>22. CASE JoinCollector
  BY <1>0, <1>22 DEF JoinCollector, StopOrder, NoCollectorAfterStop, TypeOK
<1>23. CASE ReclaimAll
  BY <1>0, <1>23 DEF ReclaimAll, StopOrder, NoCollectorAfterStop, TypeOK
<1>24. CASE ThreadExit
  BY <1>0, <1>24 DEF ThreadExit, StopOrder, NoCollectorAfterStop, TypeOK
<1>25. CASE JoinExiting
  BY <1>0, <1>25 DEF JoinExiting, StopOrder, NoCollectorAfterStop, TypeOK
<1> QED
  BY <1>1, <1>2, <1>3, <1>4, <1>5, <1>6, <1>7, <1>8, <1>9, <1>10, <1>11, <1>12, <1>13,
     <1>14, <1>15, <1>16, <1>17, <1>18, <1>19, <1>20, <1>21, <1>22, <1>23, <1>24, <1>25
     DEF Next, Client, Thread, Collector, Process

\* ReclaimsEnding: a thread that is joined or born is named by no entry that counts.
LEMMA ReclaimsStep ==
    ASSUME LifecycleInv, Next
    PROVE  ReclaimsEnding'
<1> USE LifecycleAssumption DEF runnerVars, threadVars, clientVars, tableVars, collectorVars,
                                exitVars, workVars, poolVars
<1>0. TypeOK /\ Holding /\ StopOrder /\ ReclaimsEnding
  BY DEF LifecycleInv
<1>1. ASSUME NEW c \in Clients, NEW r \in Runners, Create(c, r) PROVE ReclaimsEnding'
  <2>1. CASE KindOf[r] = "deposited"
    <3>1. PICK t \in Threads : /\ pc[t] = "unused" /\ pc' = [pc EXCEPT ![t] = "born"]
                                /\ owns' = [owns EXCEPT ![c] = t]
                                /\ of' = [of EXCEPT ![t] = r]
                                /\ does' = [does EXCEPT ![c] = "attach"]
                                /\ uses' = [uses EXCEPT ![c] = r]
      BY <1>1, <2>1 DEF Create, Spawn
    <3>2. /\ reclaims' = reclaims /\ deposit' = deposit /\ collecting' = collecting
          /\ collector' = collector /\ destroying' = destroying
      BY <1>1 DEF Create
    <3>3. t \notin deposit /\ collecting # t
      BY <1>0, <3>1 DEF Holding
    <3>4. \A u \in Threads : u # t => pc'[u] = pc[u]
      BY <1>0, <3>1 DEF TypeOK
    <3>5. \A i \in 1 .. Len(reclaims) : reclaims[i] \in Threads
      BY <1>0 DEF TypeOK
    <3> QED
      BY <1>0, <3>1, <3>2, <3>3, <3>4, <3>5 DEF ReclaimsEnding, CollectorJoinsEnding, Ending, TypeOK
  <2>2. CASE KindOf[r] # "deposited"
    BY <1>0, <1>1, <2>2 DEF Create, ReclaimsEnding, CollectorJoinsEnding, TypeOK
  <2> QED
    BY <2>1, <2>2
<1>2. ASSUME NEW c \in Clients, NEW r \in Runners, Run(c, r) PROVE ReclaimsEnding'
  <2>1. PICK t \in Threads : /\ pc[t] = "unused" /\ pc' = [pc EXCEPT ![t] = "born"]
                              /\ owns' = [owns EXCEPT ![c] = t]
                              /\ of' = [of EXCEPT ![t] = r]
                              /\ does' = [does EXCEPT ![c] = "attach"]
                              /\ uses' = [uses EXCEPT ![c] = r]
    BY <1>2 DEF Run, Spawn
  <2>2. /\ reclaims' = reclaims /\ deposit' = deposit /\ collecting' = collecting
        /\ collector' = collector /\ destroying' = destroying
    BY <1>2 DEF Run
  <2>3. t \notin deposit /\ collecting # t
    BY <1>0, <2>1 DEF Holding
  <2>4. \A u \in Threads : u # t => pc'[u] = pc[u]
    BY <1>0, <2>1 DEF TypeOK
  <2>5. \A i \in 1 .. Len(reclaims) : reclaims[i] \in Threads
    BY <1>0 DEF TypeOK
  <2> QED
    BY <1>0, <2>1, <2>2, <2>3, <2>4, <2>5 DEF ReclaimsEnding, CollectorJoinsEnding, Ending, TypeOK
<1>3. ASSUME NEW c \in Clients, Attach(c) PROVE ReclaimsEnding'
  BY <1>0, <1>3 DEF Attach, Idle, ReclaimsEnding, CollectorJoinsEnding, Ending, TypeOK
<1>4. ASSUME NEW c \in Clients, Abandon(c) PROVE ReclaimsEnding'
  BY <1>0, <1>4 DEF Abandon, ReclaimsEnding, CollectorJoinsEnding, Ending, TypeOK
<1>5. ASSUME NEW c \in Clients, JoinAbandoned(c) PROVE ReclaimsEnding'
  <2>1. owns[c] \in Threads
    BY <1>0, <1>5 DEF JoinAbandoned, TypeOK
  <2>2. owns[c] \notin deposit /\ collecting # owns[c] /\ destroying
    BY <1>0, <1>5, <2>1 DEF JoinAbandoned, Holding, StopOrder
  <2>3. \A u \in Threads : u # owns[c] => pc'[u] = pc[u]
    BY <1>0, <1>5 DEF JoinAbandoned, TypeOK
  <2>4. \A i \in 1 .. Len(reclaims) : reclaims[i] \in Threads
    BY <1>0 DEF TypeOK
  <2>5. /\ reclaims' = reclaims /\ deposit' = deposit /\ collecting' = collecting
        /\ collector' = collector /\ destroying' = destroying
    BY <1>5 DEF JoinAbandoned
  <2>6. collector = "joining" => collecting \in Threads
    BY <1>0 DEF TypeOK
  <2>7. ReclaimsEnding
    BY <1>0
  <2>8. ASSUME NEW i \in 1 .. Len(reclaims), reclaims[i] \in deposit
        PROVE  pc'[reclaims[i]] \in Ending
    BY <2>2, <2>3, <2>4, <2>7, <2>8 DEF ReclaimsEnding
  <2>9. CollectorJoinsEnding'
    BY <2>2, <2>3, <2>5, <2>6, <2>7 DEF ReclaimsEnding, CollectorJoinsEnding
  <2> QED
    BY <2>2, <2>5, <2>8, <2>9 DEF ReclaimsEnding
<1>6. ASSUME NEW r \in Runners, Release(r) PROVE ReclaimsEnding'
  BY <1>0, <1>6 DEF Release, ReclaimsEnding, CollectorJoinsEnding, Ending, TypeOK
<1>7. ASSUME NEW r \in Runners, Destroy(r) PROVE ReclaimsEnding'
  BY <1>0, <1>7 DEF Destroy, ReclaimsEnding, CollectorJoinsEnding, Ending, TypeOK
<1>8. ASSUME NEW t \in Threads, ThreadMain(t) PROVE ReclaimsEnding'
  <2>1. /\ reclaims' = reclaims /\ deposit' = deposit /\ collecting' = collecting
        /\ collector' = collector /\ destroying' = destroying
    BY <1>8 DEF ThreadMain
  <2>2. \A u \in Threads : pc[u] \in Ending => pc'[u] \in Ending
    BY <1>0, <1>8 DEF ThreadMain, TypeOK, Ending
  <2>3. \A i \in 1 .. Len(reclaims) : reclaims[i] \in Threads
    BY <1>0 DEF TypeOK
  <2> QED
    BY <1>0, <2>1, <2>2, <2>3 DEF ReclaimsEnding, CollectorJoinsEnding, TypeOK
<1>9. ASSUME NEW t \in Threads, Prepare(t) PROVE ReclaimsEnding'
  BY <1>0, <1>9 DEF Prepare, ReclaimsEnding, CollectorJoinsEnding, Ending, TypeOK
<1>10. ASSUME NEW t \in Threads, CheckOwner(t) PROVE ReclaimsEnding'
  BY <1>0, <1>10 DEF CheckOwner, ReclaimsEnding, CollectorJoinsEnding, Ending, TypeOK
<1>11. ASSUME NEW t \in Threads, LeaveLoop(t) PROVE ReclaimsEnding'
  BY <1>0, <1>11 DEF LeaveLoop, ReclaimsEnding, CollectorJoinsEnding, Ending, TypeOK
<1>12. ASSUME NEW t \in Threads, ReclaimCurrentThread(t) PROVE ReclaimsEnding'
  <2>1. /\ deposit' = deposit /\ collecting' = collecting
        /\ collector' = collector /\ destroying' = destroying
    BY <1>12 DEF ReclaimCurrentThread
  <2>2. /\ pc[t] = "reclaim" /\ pc'[t] \in Ending
        /\ \A u \in Threads : pc[u] \in Ending => pc'[u] \in Ending
    BY <1>0, <1>12 DEF ReclaimCurrentThread, TypeOK, Ending
  <2>3. \A i \in 1 .. Len(reclaims) : reclaims[i] \in Threads
    BY <1>0 DEF TypeOK
  <2>4. CASE destroying
    BY <1>0, <1>12, <2>1, <2>2, <2>3, <2>4
       DEF ReclaimCurrentThread, ReclaimsEnding, CollectorJoinsEnding, TypeOK
  <2>5. CASE ~destroying
    <3>1. collecting # t /\ \A i \in 1 .. Len(reclaims) : reclaims[i] # t
      BY <1>0, <2>2, <2>5 DEF ReclaimsEnding, CollectorJoinsEnding, Ending, TypeOK
    <3>2. reclaims' = Append(reclaims, t)
      BY <1>12, <2>5 DEF ReclaimCurrentThread
    <3>3. /\ Len(reclaims) \in Nat /\ Len(reclaims') = Len(reclaims) + 1
          /\ \A i \in 1 .. Len(reclaims) : reclaims'[i] = reclaims[i]
          /\ reclaims'[Len(reclaims) + 1] = t
      BY <1>0, <3>2, Longer DEF TypeOK
    <3>4. CollectorJoinsEnding'
      BY <1>0, <2>1, <2>2 DEF ReclaimsEnding, CollectorJoinsEnding, TypeOK
    <3>5. ASSUME NEW i \in 1 .. Len(reclaims')
          PROVE  /\ pc'[reclaims'[i]] \in Ending
                 /\ reclaims'[i] # collecting
                 /\ \A j \in 1 .. Len(reclaims') : reclaims'[i] = reclaims'[j] => i = j
      <4>1. \A k \in 1 .. Len(reclaims') : k = Len(reclaims) + 1 \/ k \in 1 .. Len(reclaims)
        BY <3>3
      <4>2. CASE i = Len(reclaims) + 1
        BY <2>2, <3>1, <3>3, <4>1, <4>2
      <4>3. CASE i \in 1 .. Len(reclaims)
        BY <1>0, <2>2, <2>3, <2>5, <3>1, <3>3, <4>1, <4>3 DEF ReclaimsEnding
      <4> QED
        BY <4>1, <4>2, <4>3
    <3> QED
      BY <2>1, <2>5, <3>4, <3>5 DEF ReclaimsEnding
  <2> QED
    BY <2>4, <2>5
<1>13. ASSUME NEW t \in Threads, TryLock(t) PROVE ReclaimsEnding'
  <2>1. /\ reclaims' = reclaims /\ deposit' = deposit /\ collecting' = collecting
        /\ collector' = collector /\ destroying' = destroying
    BY <1>13 DEF TryLock
  <2>2. \A u \in Threads : pc[u] \in Ending => pc'[u] \in Ending
    BY <1>0, <1>13 DEF TryLock, TypeOK, Ending
  <2>3. \A i \in 1 .. Len(reclaims) : reclaims[i] \in Threads
    BY <1>0 DEF TypeOK
  <2> QED
    BY <1>0, <2>1, <2>2, <2>3 DEF ReclaimsEnding, CollectorJoinsEnding, TypeOK
<1>14. ASSUME NEW t \in Threads, CreateCollector(t) PROVE ReclaimsEnding'
  BY <1>0, <1>14 DEF CreateCollector, ReclaimsEnding, CollectorJoinsEnding, Ending, TypeOK
<1>15. CASE Collect
  BY <1>0, <1>15 DEF Collect, Collecting, ReclaimsEnding, CollectorJoinsEnding, Ending, TypeOK
<1>16. CASE JoinCollected
  <2>1. collecting \in Threads /\ collecting \notin deposit
    BY <1>0, <1>16 DEF JoinCollected, Holding, TypeOK
  <2>2. \A u \in Threads : u # collecting => pc'[u] = pc[u]
    BY <1>0, <1>16 DEF JoinCollected, TypeOK
  <2>3. \A i \in 1 .. Len(reclaims) : reclaims[i] \in Threads
    BY <1>0 DEF TypeOK
  <2>4. /\ reclaims' = reclaims /\ deposit' = deposit /\ destroying' = destroying
        /\ collector' = "inner" /\ collecting' = NoThread
    BY <1>16 DEF JoinCollected
  <2> QED
    BY <1>0, <2>1, <2>2, <2>3, <2>4 DEF ReclaimsEnding, CollectorJoinsEnding
<1>17. CASE CollectorWaits
  BY <1>0, <1>17 DEF CollectorWaits, Collecting, ReclaimsEnding, CollectorJoinsEnding, Ending,
                TypeOK
<1>18. CASE CollectorLeaves
  BY <1>0, <1>18 DEF CollectorLeaves, ReclaimsEnding, CollectorJoinsEnding, Ending, TypeOK
<1>19. CASE CollectorWakes
  BY <1>0, <1>19 DEF CollectorWakes, ReclaimsEnding, CollectorJoinsEnding, Ending, TypeOK
<1>20. CASE BeginStop
  BY <1>0, <1>20 DEF BeginStop, ReclaimsEnding, CollectorJoinsEnding, Ending, TypeOK
<1>21. CASE LockThread
  BY <1>0, <1>21 DEF LockThread, ReclaimsEnding, CollectorJoinsEnding, Ending, TypeOK
<1>22. CASE JoinCollector
  BY <1>0, <1>22 DEF JoinCollector, ReclaimsEnding, CollectorJoinsEnding, Ending, TypeOK
<1>23. CASE ReclaimAll
  BY <1>0, <1>23 DEF ReclaimAll, ReclaimsEnding, CollectorJoinsEnding, Ending, TypeOK
<1>24. CASE ThreadExit
  BY <1>0, <1>24 DEF ThreadExit, ReclaimsEnding, CollectorJoinsEnding, Ending, TypeOK
<1>25. CASE JoinExiting
  <2>1. exiting \in Threads
    BY <1>0, <1>25 DEF JoinExiting, TypeOK
  <2>2. exiting \notin deposit /\ collecting # exiting /\ destroying
    BY <1>0, <1>25, <2>1 DEF JoinExiting, Holding, StopOrder
  <2>3. \A u \in Threads : u # exiting => pc'[u] = pc[u]
    BY <1>0, <1>25 DEF JoinExiting, TypeOK
  <2>4. \A i \in 1 .. Len(reclaims) : reclaims[i] \in Threads
    BY <1>0 DEF TypeOK
  <2>5. /\ reclaims' = reclaims /\ deposit' = deposit /\ collecting' = collecting
        /\ collector' = collector /\ destroying' = destroying
    BY <1>25 DEF JoinExiting
  <2>6. collector = "joining" => collecting \in Threads
    BY <1>0 DEF TypeOK
  <2>7. ReclaimsEnding
    BY <1>0
  <2>8. ASSUME NEW i \in 1 .. Len(reclaims), reclaims[i] \in deposit
        PROVE  pc'[reclaims[i]] \in Ending
    BY <2>2, <2>3, <2>4, <2>7, <2>8 DEF ReclaimsEnding
  <2>9. CollectorJoinsEnding'
    BY <2>2, <2>3, <2>5, <2>6, <2>7 DEF ReclaimsEnding, CollectorJoinsEnding
  <2> QED
    BY <2>2, <2>5, <2>8, <2>9 DEF ReclaimsEnding
<1> QED
  BY <1>1, <1>2, <1>3, <1>4, <1>5, <1>6, <1>7, <1>8, <1>9, <1>10, <1>11, <1>12, <1>13,
     <1>14, <1>15, <1>16, <1>17, <1>18, <1>19, <1>20, <1>21, <1>22, <1>23, <1>24, <1>25
     DEF Next, Client, Thread, Collector, Process

\* NoStrandedReclaim: whoever fails to get threadLock_ leaves it to the owner.
LEMMA StrandedStep ==
    ASSUME LifecycleInv, Next
    PROVE  NoStrandedReclaim'
<1> USE LifecycleAssumption DEF runnerVars, threadVars, clientVars, tableVars, collectorVars,
                                exitVars, workVars, poolVars
<1>0. TypeOK /\ StopOrder /\ NoStrandedReclaim
  BY DEF LifecycleInv
<1>1. ASSUME NEW c \in Clients, NEW r \in Runners, Create(c, r) PROVE NoStrandedReclaim'
  BY <1>0, <1>1 DEF Create, Spawn, NoStrandedReclaim, TypeOK
<1>2. ASSUME NEW c \in Clients, NEW r \in Runners, Run(c, r) PROVE NoStrandedReclaim'
  BY <1>0, <1>2 DEF Run, Spawn, NoStrandedReclaim, TypeOK
<1>3. ASSUME NEW c \in Clients, Attach(c) PROVE NoStrandedReclaim'
  BY <1>0, <1>3 DEF Attach, Idle, NoStrandedReclaim, TypeOK
<1>4. ASSUME NEW c \in Clients, Abandon(c) PROVE NoStrandedReclaim'
  BY <1>0, <1>4 DEF Abandon, NoStrandedReclaim, TypeOK
<1>5. ASSUME NEW c \in Clients, JoinAbandoned(c) PROVE NoStrandedReclaim'
  BY <1>0, <1>5 DEF JoinAbandoned, Idle, NoStrandedReclaim, TypeOK
<1>6. ASSUME NEW r \in Runners, Release(r) PROVE NoStrandedReclaim'
  BY <1>0, <1>6 DEF Release, NoStrandedReclaim, TypeOK
<1>7. ASSUME NEW r \in Runners, Destroy(r) PROVE NoStrandedReclaim'
  BY <1>0, <1>7 DEF Destroy, NoStrandedReclaim, TypeOK
<1>8. ASSUME NEW t \in Threads, ThreadMain(t) PROVE NoStrandedReclaim'
  BY <1>0, <1>8 DEF ThreadMain, NoStrandedReclaim, TypeOK
<1>9. ASSUME NEW t \in Threads, Prepare(t) PROVE NoStrandedReclaim'
  BY <1>0, <1>9 DEF Prepare, NoStrandedReclaim, TypeOK
<1>10. ASSUME NEW t \in Threads, CheckOwner(t) PROVE NoStrandedReclaim'
  BY <1>0, <1>10 DEF CheckOwner, NoStrandedReclaim, TypeOK
<1>11. ASSUME NEW t \in Threads, LeaveLoop(t) PROVE NoStrandedReclaim'
  BY <1>0, <1>11 DEF LeaveLoop, NoStrandedReclaim, TypeOK
<1>12. ASSUME NEW t \in Threads, ReclaimCurrentThread(t) PROVE NoStrandedReclaim'
  BY <1>0, <1>12 DEF ReclaimCurrentThread, NoStrandedReclaim, TypeOK
<1>13. ASSUME NEW t \in Threads, TryLock(t) PROVE NoStrandedReclaim'
  <2>1. reclaims' = reclaims /\ collector' = collector /\ told' = told /\ destroying' = destroying
    BY <1>13 DEF TryLock
  <2>2. CASE threadLock = Free
    <3>1. pc'[t] = "create"
      BY <1>0, <1>13, <2>2 DEF TryLock, TypeOK
    <3> QED
      BY <1>0, <2>1, <3>1 DEF NoStrandedReclaim
  <2>3. CASE threadLock = Exit
    BY <1>0, <2>1, <2>3 DEF StopOrder, NoStrandedReclaim
  <2>4. CASE threadLock \in Threads
    <3>1. pc[threadLock] = "create" /\ pc'[threadLock] = "create"
      BY <1>0, <1>13, <2>4 DEF TryLock, StopOrder, TypeOK
    <3> QED
      BY <1>0, <2>1, <2>4, <3>1 DEF NoStrandedReclaim
  <2> QED
    BY <1>0, <2>2, <2>3, <2>4 DEF TypeOK
<1>14. ASSUME NEW t \in Threads, CreateCollector(t) PROVE NoStrandedReclaim'
  <2>1. collector = "none" => collector' = "start" \/ destroying
    BY <1>0, <1>14 DEF CreateCollector, StopOrder, TypeOK
  <2>2. collector # "none" => collector' = collector
    BY <1>14 DEF CreateCollector
  <2>3. reclaims' = reclaims /\ told' = told /\ destroying' = destroying
    BY <1>14 DEF CreateCollector
  <2>4. reclaims # <<>> /\ collector' = "waiting" => told
    BY <1>0, <2>1, <2>2, <1>14 DEF CreateCollector, NoStrandedReclaim
  <2>5. collector' = "none" => destroying
    BY <2>1, <2>2, <1>14 DEF CreateCollector
  <2> QED
    BY <2>3, <2>4, <2>5 DEF NoStrandedReclaim
<1>15. CASE Collect
  BY <1>0, <1>15 DEF Collect, Collecting, NoStrandedReclaim, TypeOK
<1>16. CASE JoinCollected
  BY <1>0, <1>16 DEF JoinCollected, NoStrandedReclaim, TypeOK
<1>17. CASE CollectorWaits
  BY <1>0, <1>17 DEF CollectorWaits, Collecting, NoStrandedReclaim, TypeOK
<1>18. CASE CollectorLeaves
  BY <1>0, <1>18 DEF CollectorLeaves, NoStrandedReclaim, TypeOK
<1>19. CASE CollectorWakes
  BY <1>0, <1>19 DEF CollectorWakes, NoStrandedReclaim, TypeOK
<1>20. CASE BeginStop
  BY <1>0, <1>20 DEF BeginStop, NoStrandedReclaim, TypeOK
<1>21. CASE LockThread
  BY <1>0, <1>21 DEF LockThread, NoStrandedReclaim, TypeOK
<1>22. CASE JoinCollector
  BY <1>0, <1>22 DEF JoinCollector, NoStrandedReclaim, TypeOK
<1>23. CASE ReclaimAll
  BY <1>0, <1>23 DEF ReclaimAll, NoStrandedReclaim, TypeOK
<1>24. CASE ThreadExit
  BY <1>0, <1>24 DEF ThreadExit, NoStrandedReclaim, TypeOK
<1>25. CASE JoinExiting
  BY <1>0, <1>25 DEF JoinExiting, NoStrandedReclaim, TypeOK
<1> QED
  BY <1>1, <1>2, <1>3, <1>4, <1>5, <1>6, <1>7, <1>8, <1>9, <1>10, <1>11, <1>12, <1>13,
     <1>14, <1>15, <1>16, <1>17, <1>18, <1>19, <1>20, <1>21, <1>22, <1>23, <1>24, <1>25
     DEF Next, Client, Thread, Collector, Process

\* A stuttering step keeps the invariant.
LEMMA StutterStep == LifecycleInv /\ UNCHANGED vars => LifecycleInv'
  BY DEF LifecycleInv, Holding, StopOrder, NoCollectorAfterStop, ReclaimsEnding,
         CollectorJoinsEnding, NoStrandedReclaim, TypeOK, vars,
         runnerVars, threadVars, clientVars, tableVars, collectorVars, exitVars, workVars, poolVars

LEMMA LifecycleInvariant == Spec => []LifecycleInv
<1>1. TypeOK /\ [Next]_vars => TypeOK'
  BY TypeStep
<1>2. LifecycleInv /\ [Next]_vars => LifecycleInv'
  BY <1>1, StutterStep, HoldingStep, StopOrderStep, ReclaimsStep, StrandedStep
     DEF LifecycleInv
<1> QED
  BY <1>2, InitLifecycleInv, PTL DEF Spec

\* However creation, Deposit, reclaims and the exit interleave, a thread is held by one of its
\* creator, the map, the collector and the exit, from its creation to its join.
THEOREM ThreadsAreHeld == Spec => []EveryThreadIsHeld
<1>1. LifecycleInv => EveryThreadIsHeld
  <2> SUFFICES ASSUME LifecycleInv, NEW t \in Threads
               PROVE  /\ pc[t] # "unused" <=> Holders(t) # {}
                      /\ \A x, y \in Holders(t) : x = y
    BY DEF EveryThreadIsHeld
  <2> QED
    BY DEF LifecycleInv, Holding, Holders
<1> QED
  BY <1>1, LifecycleInvariant, PTL

\* The collector joins threads on their way out only, although ids are used again.
THEOREM CollectorNeverWaitsForALoop == Spec => []CollectorJoinsEnding
<1>1. LifecycleInv => CollectorJoinsEnding
  BY DEF LifecycleInv, ReclaimsEnding
<1> QED
  BY <1>1, LifecycleInvariant, PTL

\* No thread's wish to be reclaimed is overlooked by a sleeping or a missing collector.
THEOREM ReclaimsAreNotStranded == Spec => []NoStrandedReclaim
<1>1. LifecycleInv => NoStrandedReclaim
  BY DEF LifecycleInv
<1> QED
  BY <1>1, LifecycleInvariant, PTL

\* Once Stop has joined the collector no thread starts another one.
THEOREM StopIsFinal == Spec => []NoCollectorAfterStop
<1>1. LifecycleInv => NoCollectorAfterStop
  BY DEF LifecycleInv, StopOrder
<1> QED
  BY <1>1, LifecycleInvariant, PTL
=============================================================================
