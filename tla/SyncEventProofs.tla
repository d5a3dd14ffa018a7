--------------------------- MODULE SyncEventProofs ---------------------------
(***************************************************************************)
(* The safety properties of SyncEvent, for all sets of threads, runners,   *)
(* handlers and events and any depth of calls: by one inductive invariant, *)
(* SyncInv.                                                                *)
(***************************************************************************)
EXTENDS SyncEvent, TLAPS

SenderOps == {"insert", "wait", "asleep"}
RunnerOps == {"prepare", "loop", "leave"}
CallbackOps == {"callback", "callback in place"}

-----------------------------------------------------------------------------
(* The invariant *)

\* r is the runner of the innermost loop below call i of the stack s.
IsCurrent(s, i, r) ==
    \/ r = None /\ \A k \in 1 .. i - 1 : s[k].op # "loop"
    \/ \E j \in 1 .. i - 1 :
           /\ s[j].op = "loop"
           /\ s[j].runner = r
           /\ \A k \in j + 1 .. i - 1 : s[k].op # "loop"

\* currentEventRunner is the runner of the innermost loop, each loop has saved the one around it,
\* and a callback runs in the loop of its handler's runner.
StackOK(s, current, owner) ==
    /\ IsCurrent(s, Len(s) + 1, current)
    /\ \A i \in 1 .. Len(s) :
           /\ s[i].op = "loop" => IsCurrent(s, i, s[i].saved)
           /\ s[i].op \in CallbackOps =>
                  /\ owner[s[i].event] \in Handlers
                  /\ IsCurrent(s, i, RunnerOf[owner[s[i].event]])

StacksOK == \A t \in Threads : StackOK(calls[t], currentRunner[t], target)

\* Call i of t runs r.
RunBy(t, i, r) ==
    i \in 1 .. Len(calls[t]) /\ calls[t][i].op \in RunnerOps /\ calls[t][i].runner = r

\* A runner is run once at a time: a deposited one by its thread only, another while it is running.
OneRun ==
    \A t \in Threads, i \in Nat, r \in Runners : RunBy(t, i, r) =>
        /\ r \in Deposited \union running
        /\ r \in Deposited => t = Home[r] /\ i = 1 /\ calls[t][i].op = "loop"
        /\ \A u \in Threads, j \in Nat : RunBy(u, j, r) => t = u /\ i = j

Handles(t, i, e) ==
    i \in 1 .. Len(calls[t]) /\ calls[t][i] = [op |-> "callback", event |-> e]

Sends(t, e) == calls[t] # <<>> /\ Top(t).op \in SenderOps /\ Top(t).event = e

\* An event is queued or handled, in one place.
OnePlace ==
    /\ \A r \in Runners : \A e \in queue[r] : target[e] \in Handlers /\ RunnerOf[target[e]] = r
    /\ \A t \in Threads, i \in Nat, e \in Events : Handles(t, i, e) =>
           /\ \A r \in Runners : e \notin queue[r]
           /\ \A u \in Threads, j \in Nat : Handles(u, j, e) => t = u /\ i = j

\* A waiter belongs to one sender, who is counted while asleep; an event that is not inserted yet
\* is nowhere else.
OneSender ==
    /\ \A e \in Events : target[e] = None => waiter[e] = None
    /\ \A t \in Threads, e \in Events : Sends(t, e) =>
           /\ waiter[e] # None
           /\ waiter[e].waitingCount = IF Top(t).op = "asleep" THEN 1 ELSE 0
           /\ \A u \in Threads : Sends(u, e) => t = u
           /\ Top(t).op = "insert" =>
                  /\ ~waiter[e].finished
                  /\ \A r \in Runners : e \notin queue[r]
                  /\ \A u \in Threads, i \in Nat : ~Handles(u, i, e)

\* ReturnsAfterHandling, in these terms.
SenderWaits ==
    \A e \in Events :
        /\ waiter[e] # None
        /\ (\E r \in Runners : e \in queue[r]) \/ (\E t \in Threads, i \in Nat : Handles(t, i, e))
        => (\E t \in Threads : Sends(t, e)) /\ ~waiter[e].finished

SyncInv == TypeOK /\ StacksOK /\ OneRun /\ OnePlace /\ OneSender /\ SenderWaits

-----------------------------------------------------------------------------
(* Stacks *)

LEMMA CallShape ==
    ASSUME NEW c \in Call
    PROVE  \/ /\ c.op \in RunnerOps /\ c.runner \in Runners /\ c.saved \in Runners \union {None}
              /\ c = [op |-> c.op, runner |-> c.runner, saved |-> c.saved]
           \/ /\ c.op \in CallbackOps \union SenderOps /\ c.event \in Events
              /\ c = [op |-> c.op, event |-> c.event]
  BY DEF Call, RunnerOps, CallbackOps, SenderOps

\* Pushing, popping and replacing the innermost call.
LEMMA Pushed ==
    ASSUME NEW s \in Seq(Call), NEW c \in Call
    PROVE  /\ Append(s, c) \in Seq(Call) /\ Append(s, c) # <<>>
           /\ Len(Append(s, c)) = Len(s) + 1
           /\ \A i \in 1 .. Len(s) : Append(s, c)[i] = s[i]
           /\ Append(s, c)[Len(s) + 1] = c
  OBVIOUS

LEMMA Prefix ==
    ASSUME NEW s \in Seq(Call), NEW m \in Nat, m <= Len(s)
    PROVE  /\ SubSeq(s, 1, m) \in Seq(Call)
           /\ Len(SubSeq(s, 1, m)) = m
           /\ \A i \in 1 .. m : SubSeq(s, 1, m)[i] = s[i]
<1>1. \A i \in 1 .. m : s[i] \in Call
  OBVIOUS
<1>2. SubSeq(s, 1, m) = [i \in 1 .. m |-> s[i]]
  BY <1>1
<1> QED
  BY <1>1, <1>2

LEMMA Popped ==
    ASSUME NEW s \in Seq(Call), s # <<>>
    PROVE  /\ SubSeq(s, 1, Len(s) - 1) \in Seq(Call)
           /\ Len(SubSeq(s, 1, Len(s) - 1)) = Len(s) - 1
           /\ \A i \in 1 .. Len(s) - 1 : SubSeq(s, 1, Len(s) - 1)[i] = s[i]
           /\ Len(s) \in Nat \ {0}
<1>1. Len(s) \in Nat \ {0}
  OBVIOUS
<1>2. Len(s) - 1 \in Nat /\ Len(s) - 1 <= Len(s)
  BY <1>1
<1> QED
  BY <1>1, <1>2, Prefix, Zenon

LEMMA Replaced ==
    ASSUME NEW s \in Seq(Call), s # <<>>, NEW c \in Call
    PROVE  /\ [s EXCEPT ![Len(s)] = c] \in Seq(Call) /\ [s EXCEPT ![Len(s)] = c] # <<>>
           /\ Len([s EXCEPT ![Len(s)] = c]) = Len(s)
           /\ \A i \in 1 .. Len(s) - 1 : [s EXCEPT ![Len(s)] = c][i] = s[i]
           /\ [s EXCEPT ![Len(s)] = c][Len(s)] = c
           /\ Len(s) \in Nat \ {0}
  OBVIOUS

\* What is current below call i depends on the calls below i.
LEMMA CurrentBelow ==
    ASSUME NEW s, NEW z, NEW i \in Nat, NEW r, \A k \in 1 .. i - 1 : z[k] = s[k],
           IsCurrent(s, i, r)
    PROVE  IsCurrent(z, i, r)
  BY DEF IsCurrent

\* A call that is not a loop changes nothing for those above it.
LEMMA CurrentAbove ==
    ASSUME NEW s, NEW i \in Nat \ {0}, NEW r, s[i].op # "loop"
    PROVE  IsCurrent(s, i, r) <=> IsCurrent(s, i + 1, r)
<1>1. ASSUME IsCurrent(s, i, r) PROVE IsCurrent(s, i + 1, r)
  <2>1. CASE r = None /\ \A k \in 1 .. i - 1 : s[k].op # "loop"
    BY <2>1 DEF IsCurrent
  <2>2. CASE \E j \in 1 .. i - 1 : /\ s[j].op = "loop"
                                   /\ s[j].runner = r
                                   /\ \A k \in j + 1 .. i - 1 : s[k].op # "loop"
    <3>1. PICK j \in 1 .. i - 1 : /\ s[j].op = "loop"
                                  /\ s[j].runner = r
                                  /\ \A k \in j + 1 .. i - 1 : s[k].op # "loop"
      BY <2>2
    <3>2. \A k \in j + 1 .. (i + 1) - 1 : s[k].op # "loop"
      BY <3>1
    <3>3. j \in 1 .. (i + 1) - 1
      OBVIOUS
    <3> QED
      BY <3>1, <3>2, <3>3 DEF IsCurrent
  <2> QED
    BY <1>1, <2>1, <2>2 DEF IsCurrent
<1>2. ASSUME IsCurrent(s, i + 1, r) PROVE IsCurrent(s, i, r)
  <2>1. CASE r = None /\ \A k \in 1 .. i : s[k].op # "loop"
    BY <2>1 DEF IsCurrent
  <2>2. CASE \E j \in 1 .. i : /\ s[j].op = "loop"
                               /\ s[j].runner = r
                               /\ \A k \in j + 1 .. i : s[k].op # "loop"
    <3>1. PICK j \in 1 .. i : /\ s[j].op = "loop"
                              /\ s[j].runner = r
                              /\ \A k \in j + 1 .. i : s[k].op # "loop"
      BY <2>2
    <3>2. j \in 1 .. i - 1
      BY <3>1
    <3> QED
      BY <3>1, <3>2 DEF IsCurrent
  <2> QED
    BY <1>2, <2>1, <2>2 DEF IsCurrent
<1> QED
  BY <1>1, <1>2

\* The loop on top is the current one.
LEMMA CurrentLoop ==
    ASSUME NEW s, NEW i \in Nat \ {0}, s[i].op = "loop"
    PROVE  IsCurrent(s, i + 1, s[i].runner)
  BY DEF IsCurrent

\* There is one current runner.
LEMMA CurrentUnique ==
    ASSUME NEW s, NEW i \in Nat, NEW r \in Runners, NEW q, IsCurrent(s, i, r), IsCurrent(s, i, q)
    PROVE  q = r
<1>1. r # None
  BY SyncAssumption
<1>2. PICK j \in 1 .. i - 1 : /\ s[j].op = "loop"
                              /\ s[j].runner = r
                              /\ \A k \in j + 1 .. i - 1 : s[k].op # "loop"
  BY <1>1 DEF IsCurrent
<1>3. PICK k \in 1 .. i - 1 : /\ s[k].op = "loop"
                              /\ s[k].runner = q
                              /\ \A l \in k + 1 .. i - 1 : s[l].op # "loop"
  BY <1>2 DEF IsCurrent
<1>4. ~(j < k) /\ ~(k < j)
  BY <1>2, <1>3
<1> QED
  BY <1>2, <1>3, <1>4

\* Calling something that is not a loop; a callback for a handler of the current runner.
LEMMA PushOK ==
    ASSUME NEW s \in Seq(Call), NEW c \in Call, NEW r, NEW owner, StackOK(s, r, owner),
           c.op # "loop",
           c.op \in CallbackOps => owner[c.event] \in Handlers /\ RunnerOf[owner[c.event]] = r
    PROVE  StackOK(Append(s, c), r, owner)
<1> DEFINE z == Append(s, c)
           n == Len(s)
<1>1. /\ z \in Seq(Call) /\ Len(z) = n + 1 /\ n \in Nat
      /\ \A i \in 1 .. n : z[i] = s[i]
      /\ z[n + 1] = c
  BY Pushed
<1> HIDE DEF z, n
<1>2. /\ IsCurrent(s, n + 1, r)
      /\ \A i \in 1 .. n :
             /\ s[i].op = "loop" => IsCurrent(s, i, s[i].saved)
             /\ s[i].op \in CallbackOps =>
                    owner[s[i].event] \in Handlers /\ IsCurrent(s, i, RunnerOf[owner[s[i].event]])
  BY DEF StackOK, n
<1>3. IsCurrent(z, n + 1, r)
  BY <1>1, <1>2, CurrentBelow
<1>4. IsCurrent(z, Len(z) + 1, r)
  BY <1>1, <1>3, CurrentAbove
<1>5. ASSUME NEW i \in 1 .. Len(z)
      PROVE  /\ z[i].op = "loop" => IsCurrent(z, i, z[i].saved)
             /\ z[i].op \in CallbackOps =>
                    owner[z[i].event] \in Handlers /\ IsCurrent(z, i, RunnerOf[owner[z[i].event]])
  <2>1. CASE i \in 1 .. n
    <3>1. z[i] = s[i] /\ i \in Nat /\ \A k \in 1 .. i - 1 : z[k] = s[k]
      BY <1>1, <2>1
    <3> QED
      BY <1>2, <2>1, <3>1, CurrentBelow
  <2>2. CASE i = n + 1
    BY <1>1, <1>3, <2>2 DEF CallbackOps
  <2> QED
    BY <1>1, <2>1, <2>2
<1> QED
  BY <1>4, <1>5 DEF StackOK, z

\* Returning from something that is not a loop.
LEMMA PopOK ==
    ASSUME NEW s \in Seq(Call), s # <<>>, NEW r, NEW owner, StackOK(s, r, owner),
           s[Len(s)].op # "loop"
    PROVE  StackOK(SubSeq(s, 1, Len(s) - 1), r, owner)
<1> DEFINE z == SubSeq(s, 1, Len(s) - 1)
           n == Len(s)
<1>1. /\ z \in Seq(Call) /\ Len(z) = n - 1 /\ n \in Nat \ {0}
      /\ \A i \in 1 .. n - 1 : z[i] = s[i]
  BY Popped
<1>2. /\ IsCurrent(s, n + 1, r) /\ s[n].op # "loop"
      /\ \A i \in 1 .. n :
             /\ s[i].op = "loop" => IsCurrent(s, i, s[i].saved)
             /\ s[i].op \in CallbackOps =>
                    owner[s[i].event] \in Handlers /\ IsCurrent(s, i, RunnerOf[owner[s[i].event]])
  BY DEF StackOK
<1> HIDE DEF z, n
<1>3. IsCurrent(s, n, r)
  BY <1>1, <1>2, CurrentAbove
<1>4. IsCurrent(z, Len(z) + 1, r)
  BY <1>1, <1>3, CurrentBelow
<1>5. ASSUME NEW i \in 1 .. Len(z)
      PROVE  /\ z[i].op = "loop" => IsCurrent(z, i, z[i].saved)
             /\ z[i].op \in CallbackOps =>
                    owner[z[i].event] \in Handlers /\ IsCurrent(z, i, RunnerOf[owner[z[i].event]])
  <2>1. z[i] = s[i] /\ i \in Nat /\ i \in 1 .. n /\ \A k \in 1 .. i - 1 : z[k] = s[k]
    BY <1>1
  <2> QED
    BY <1>2, <2>1, CurrentBelow
<1> QED
  BY <1>4, <1>5 DEF StackOK, z

\* Replacing the innermost call by c, which is no callback; q is the current runner afterwards.
LEMMA ReplaceOK ==
    ASSUME NEW s \in Seq(Call), s # <<>>, NEW c \in Call, NEW r, NEW q, NEW owner,
           StackOK(s, r, owner), c.op \notin CallbackOps,
           \/ s[Len(s)].op # "loop" /\ c.op # "loop" /\ q = r
           \/ s[Len(s)].op # "loop" /\ c.op = "loop" /\ c.saved = r /\ q = c.runner
           \/ s[Len(s)].op = "loop" /\ c.op # "loop" /\ q = s[Len(s)].saved
    PROVE  StackOK([s EXCEPT ![Len(s)] = c], q, owner)
<1> DEFINE z == [s EXCEPT ![Len(s)] = c]
           n == Len(s)
<1>1. /\ z \in Seq(Call) /\ Len(z) = n /\ n \in Nat \ {0}
      /\ \A i \in 1 .. n - 1 : z[i] = s[i]
      /\ z[n] = c
  BY Replaced
<1>2. /\ IsCurrent(s, n + 1, r)
      /\ \A i \in 1 .. n :
             /\ s[i].op = "loop" => IsCurrent(s, i, s[i].saved)
             /\ s[i].op \in CallbackOps =>
                    owner[s[i].event] \in Handlers /\ IsCurrent(s, i, RunnerOf[owner[s[i].event]])
  BY DEF StackOK
<1>3. \/ s[n].op # "loop" /\ c.op # "loop" /\ q = r
      \/ s[n].op # "loop" /\ c.op = "loop" /\ c.saved = r /\ q = c.runner
      \/ s[n].op = "loop" /\ c.op # "loop" /\ q = s[n].saved
  OBVIOUS
<1> HIDE DEF z, n
<1>4. s[n].op # "loop" => IsCurrent(z, n, r)
  <2>1. s[n].op # "loop" => IsCurrent(s, n, r)
    BY <1>1, <1>2, CurrentAbove
  <2> QED
    BY <1>1, <2>1, CurrentBelow
<1>5. s[n].op = "loop" => IsCurrent(z, n, s[n].saved)
  <2>1. s[n].op = "loop" => IsCurrent(s, n, s[n].saved)
    BY <1>1, <1>2
  <2> QED
    BY <1>1, <2>1, CurrentBelow
<1>6. IsCurrent(z, n + 1, q)
  BY <1>1, <1>3, <1>4, <1>5, CurrentAbove, CurrentLoop
<1>7. ASSUME NEW i \in 1 .. n
      PROVE  /\ z[i].op = "loop" => IsCurrent(z, i, z[i].saved)
             /\ z[i].op \in CallbackOps =>
                    owner[z[i].event] \in Handlers /\ IsCurrent(z, i, RunnerOf[owner[z[i].event]])
  <2>1. CASE i = n
    BY <1>1, <1>3, <1>4, <2>1
  <2>2. CASE i # n
    <3>1. z[i] = s[i] /\ i \in Nat /\ \A k \in 1 .. i - 1 : z[k] = s[k]
      BY <1>1, <2>2
    <3> QED
      BY <1>2, <3>1, CurrentBelow
  <2> QED
    BY <2>1, <2>2
<1> QED
  BY <1>1, <1>6, <1>7 DEF StackOK, z

\* Sending an event that has no owner yet.
LEMMA RetargetOK ==
    ASSUME NEW s \in Seq(Call), NEW r, NEW owner, NEW owner2, StackOK(s, r, owner),
           \A e \in Events : owner[e] \in Handlers => owner2[e] = owner[e]
    PROVE  StackOK(s, r, owner2)
<1>1. ASSUME NEW i \in 1 .. Len(s), s[i].op \in CallbackOps PROVE s[i].event \in Events
  <2>1. s[i] \in Call
    OBVIOUS
  <2> QED
    BY <1>1, <2>1, CallShape DEF CallbackOps, RunnerOps
<1> QED
  BY <1>1 DEF StackOK

-----------------------------------------------------------------------------
(* What calling, returning and proceeding do to the state *)

\* A call c by t.
LEMMA Entering ==
    ASSUME TypeOK, NEW t \in Threads, NEW c \in Call, Enter(t, c)
    PROVE  /\ calls' \in [Threads -> Seq(Call)]
           /\ calls'[t] = Append(calls[t], c)
           /\ \A u \in Threads : u # t => calls'[u] = calls[u]
           /\ Top(t)' = c /\ calls'[t] # <<>>
           /\ \A u \in Threads, i \in Nat, r \in Runners : RunBy(u, i, r)' =>
                  \/ RunBy(u, i, r) /\ calls'[u][i] = calls[u][i]
                  \/ u = t /\ i = Len(calls[t]) + 1 /\ c.op \in RunnerOps /\ c.runner = r
           /\ \A u \in Threads, i \in Nat, e \in Events : Handles(u, i, e)' =>
                  \/ Handles(u, i, e)
                  \/ u = t /\ i = Len(calls[t]) + 1 /\ c.op = "callback" /\ c.event = e
           /\ \A u \in Threads : u # t => Top(u)' = Top(u)
           /\ \A u \in Threads, e \in Events : u # t => (Sends(u, e)' <=> Sends(u, e))
           /\ \A e \in Events : Sends(t, e)' <=> c.op \in SenderOps /\ c.event = e
<1> DEFINE s == calls[t]
           z == calls'[t]
           n == Len(s)
<1>1. calls' \in [Threads -> Seq(Call)] /\ z = Append(s, c) /\ s \in Seq(Call)
      /\ \A u \in Threads : u # t => calls'[u] = calls[u]
  <2>1. s \in Seq(Call)
    BY DEF TypeOK
  <2>2. Append(s, c) \in Seq(Call)
    BY <2>1, Pushed
  <2> QED
    BY <2>1, <2>2 DEF TypeOK, Enter
<1>2. /\ z # <<>> /\ Len(z) = n + 1 /\ n \in Nat
      /\ \A i \in 1 .. n : z[i] = s[i]
      /\ z[n + 1] = c
  BY <1>1, Pushed
<1>3. Top(t)' = c
  BY <1>2 DEF Top
<1>4. \A u \in Threads : u # t => Top(u)' = Top(u)
  BY <1>1 DEF Top
<1>5. ASSUME NEW u \in Threads, NEW i \in Nat, NEW r \in Runners, RunBy(u, i, r)'
      PROVE  \/ RunBy(u, i, r) /\ calls'[u][i] = calls[u][i]
             \/ u = t /\ i = n + 1 /\ c.op \in RunnerOps /\ c.runner = r
  <2>1. CASE u # t
    BY <1>1, <1>5, <2>1 DEF RunBy
  <2>2. CASE u = t
    BY <1>2, <1>5, <2>2 DEF RunBy
  <2> QED
    BY <2>1, <2>2
<1>6. ASSUME NEW u \in Threads, NEW i \in Nat, NEW e \in Events, Handles(u, i, e)'
      PROVE  \/ Handles(u, i, e)
             \/ u = t /\ i = n + 1 /\ c.op = "callback" /\ c.event = e
  <2>1. CASE u # t
    BY <1>1, <1>6, <2>1 DEF Handles
  <2>2. CASE u = t
    BY <1>2, <1>6, <2>2 DEF Handles
  <2> QED
    BY <2>1, <2>2
<1>7. \A u \in Threads, e \in Events : u # t => (Sends(u, e)' <=> Sends(u, e))
  BY <1>1, <1>4 DEF Sends
<1>8. \A e \in Events : Sends(t, e)' <=> c.op \in SenderOps /\ c.event = e
  BY <1>2, <1>3 DEF Sends
<1> QED
  BY <1>1, <1>2, <1>3, <1>4, <1>5, <1>6, <1>7, <1>8

\* t's return from its innermost call.
LEMMA Returning ==
    ASSUME TypeOK, NEW t \in Threads, calls[t] # <<>>, Return(t)
    PROVE  /\ calls' \in [Threads -> Seq(Call)]
           /\ calls'[t] = SubSeq(calls[t], 1, Len(calls[t]) - 1)
           /\ \A u \in Threads : u # t => calls'[u] = calls[u]
           /\ \A u \in Threads, i \in Nat, r \in Runners : RunBy(u, i, r)' =>
                  RunBy(u, i, r) /\ calls'[u][i] = calls[u][i] /\ ~(u = t /\ i = Len(calls[t]))
           /\ \A u \in Threads, i \in Nat, e \in Events : Handles(u, i, e)' =>
                  Handles(u, i, e) /\ ~(u = t /\ i = Len(calls[t]))
           /\ \A u \in Threads : u # t => Top(u)' = Top(u)
           /\ \A u \in Threads, e \in Events : u # t => (Sends(u, e)' <=> Sends(u, e))
           /\ \A e \in Events : ~Sends(t, e)'
<1> DEFINE s == calls[t]
           z == calls'[t]
           n == Len(s)
<1>1. calls' \in [Threads -> Seq(Call)] /\ z = SubSeq(s, 1, n - 1)
      /\ \A u \in Threads : u # t => calls'[u] = calls[u]
  <2>1. SubSeq(s, 1, n - 1) \in Seq(Call)
    BY Popped DEF TypeOK
  <2> QED
    BY <2>1 DEF TypeOK, Return
<1>2. /\ Len(z) = n - 1 /\ n \in Nat \ {0}
      /\ \A i \in 1 .. n - 1 : z[i] = s[i]
  BY <1>1, Popped DEF TypeOK
<1>4. \A u \in Threads : u # t => Top(u)' = Top(u)
  BY <1>1 DEF Top
<1>5. ASSUME NEW u \in Threads, NEW i \in Nat, NEW r \in Runners, RunBy(u, i, r)'
      PROVE  RunBy(u, i, r) /\ calls'[u][i] = calls[u][i] /\ ~(u = t /\ i = n)
  <2>1. CASE u # t
    BY <1>1, <1>5, <2>1 DEF RunBy
  <2>2. CASE u = t
    BY <1>2, <1>5, <2>2 DEF RunBy
  <2> QED
    BY <2>1, <2>2
<1>6. ASSUME NEW u \in Threads, NEW i \in Nat, NEW e \in Events, Handles(u, i, e)'
      PROVE  Handles(u, i, e) /\ ~(u = t /\ i = n)
  <2>1. CASE u # t
    BY <1>1, <1>6, <2>1 DEF Handles
  <2>2. CASE u = t
    BY <1>2, <1>6, <2>2 DEF Handles
  <2> QED
    BY <2>1, <2>2
<1>7. \A u \in Threads, e \in Events : u # t => (Sends(u, e)' <=> Sends(u, e))
  BY <1>1, <1>4 DEF Sends
<1>8. ASSUME NEW e \in Events, Sends(t, e)'
      PROVE  FALSE
  <2>1. z # <<>> /\ z[Len(z)].op \in SenderOps
    BY <1>8 DEF Sends, Top
  <2>2. n - 1 \in 1 .. n - 1
    BY <1>1, <1>2, <2>1
  <2>3. s[n - 1].op \in {"loop", "callback", "callback in place"}
    BY <2>2 DEF TypeOK
  <2> QED
    BY <1>2, <2>1, <2>2, <2>3 DEF SenderOps
<1> QED
  BY <1>1, <1>4, <1>5, <1>6, <1>7, <1>8

\* t's innermost call becomes c.
LEMMA Replacing ==
    ASSUME TypeOK, NEW t \in Threads, calls[t] # <<>>, NEW c \in Call,
           calls' = [calls EXCEPT ![t] = [@ EXCEPT ![Len(calls[t])] = c]]
    PROVE  /\ calls' \in [Threads -> Seq(Call)]
           /\ calls'[t] = [calls[t] EXCEPT ![Len(calls[t])] = c]
           /\ \A u \in Threads : u # t => calls'[u] = calls[u]
           /\ Top(t)' = c /\ calls'[t] # <<>>
           /\ \A u \in Threads, i \in Nat, r \in Runners : RunBy(u, i, r)' =>
                  \/ RunBy(u, i, r) /\ calls'[u][i] = calls[u][i]
                  \/ u = t /\ i = Len(calls[t]) /\ c.op \in RunnerOps /\ c.runner = r
           /\ \A u \in Threads, i \in Nat, e \in Events : Handles(u, i, e)' =>
                  \/ Handles(u, i, e)
                  \/ u = t /\ i = Len(calls[t]) /\ c.op = "callback" /\ c.event = e
           /\ \A u \in Threads : u # t => Top(u)' = Top(u)
           /\ \A u \in Threads, e \in Events : u # t => (Sends(u, e)' <=> Sends(u, e))
           /\ \A e \in Events : Sends(t, e)' <=> c.op \in SenderOps /\ c.event = e
<1> DEFINE s == calls[t]
           z == calls'[t]
           n == Len(s)
<1>1. calls' \in [Threads -> Seq(Call)] /\ z = [s EXCEPT ![n] = c] /\ s \in Seq(Call)
      /\ \A u \in Threads : u # t => calls'[u] = calls[u]
  <2>1. s \in Seq(Call)
    BY DEF TypeOK
  <2>2. [s EXCEPT ![n] = c] \in Seq(Call)
    BY <2>1, Replaced
  <2> QED
    BY <2>1, <2>2 DEF TypeOK
<1>2. /\ z # <<>> /\ Len(z) = n /\ n \in Nat \ {0}
      /\ \A i \in 1 .. n - 1 : z[i] = s[i]
      /\ z[n] = c
  BY <1>1, Replaced
<1>3. Top(t)' = c
  BY <1>2 DEF Top
<1>4. \A u \in Threads : u # t => Top(u)' = Top(u)
  BY <1>1 DEF Top
<1>5. ASSUME NEW u \in Threads, NEW i \in Nat, NEW r \in Runners, RunBy(u, i, r)'
      PROVE  \/ RunBy(u, i, r) /\ calls'[u][i] = calls[u][i]
             \/ u = t /\ i = n /\ c.op \in RunnerOps /\ c.runner = r
  <2>1. CASE u # t
    BY <1>1, <1>5, <2>1 DEF RunBy
  <2>2. CASE u = t
    BY <1>2, <1>5, <2>2 DEF RunBy
  <2> QED
    BY <2>1, <2>2
<1>6. ASSUME NEW u \in Threads, NEW i \in Nat, NEW e \in Events, Handles(u, i, e)'
      PROVE  \/ Handles(u, i, e)
             \/ u = t /\ i = n /\ c.op = "callback" /\ c.event = e
  <2>1. CASE u # t
    BY <1>1, <1>6, <2>1 DEF Handles
  <2>2. CASE u = t
    BY <1>2, <1>6, <2>2 DEF Handles
  <2> QED
    BY <2>1, <2>2
<1>7. \A u \in Threads, e \in Events : u # t => (Sends(u, e)' <=> Sends(u, e))
  BY <1>1, <1>4 DEF Sends
<1>8. \A e \in Events : Sends(t, e)' <=> c.op \in SenderOps /\ c.event = e
  BY <1>2, <1>3 DEF Sends
<1> QED
  BY <1>1, <1>2, <1>3, <1>4, <1>5, <1>6, <1>7, <1>8

\* A call of another kind in place of the innermost one, with the same event or runner.
LEMMA Proceeding ==
    ASSUME TypeOK, NEW t \in Threads, calls[t] # <<>>, NEW op, Proceed(t, op),
           [Top(t) EXCEPT !.op = op] \in Call
    PROVE  calls' = [calls EXCEPT ![t] = [@ EXCEPT ![Len(calls[t])] = [Top(t) EXCEPT !.op = op]]]
  BY DEF Proceed, Top

-----------------------------------------------------------------------------
(* The invariant holds initially *)

LEMMA InitSyncInv == Init => SyncInv
<1> SUFFICES ASSUME Init PROVE SyncInv
  OBVIOUS
<1>1. ASSUME NEW t \in Threads
      PROVE  \/ calls[t] = <<>> /\ currentRunner[t] = None
             \/ \E r \in Deposited : /\ Home[r] = t
                                     /\ currentRunner[t] = r
                                     /\ calls[t] = <<DepositedLoop(r)>>
  BY DEF Init
<1>2. ASSUME NEW r \in Deposited
      PROVE  /\ r \in Runners /\ <<DepositedLoop(r)>> \in Seq(Call)
             /\ Len(<<DepositedLoop(r)>>) = 1 /\ <<DepositedLoop(r)>>[1] = DepositedLoop(r)
             /\ DepositedLoop(r).op = "loop" /\ DepositedLoop(r).runner = r
             /\ DepositedLoop(r).saved = None
  <2>1. r \in Runners
    BY SyncAssumption
  <2>2. DepositedLoop(r) \in Call
    BY <2>1 DEF DepositedLoop, Call
  <2>3. /\ <<DepositedLoop(r)>> \in Seq(Call)
        /\ Len(<<DepositedLoop(r)>>) = 1 /\ <<DepositedLoop(r)>>[1] = DepositedLoop(r)
    BY <2>2
  <2>4. /\ DepositedLoop(r).op = "loop" /\ DepositedLoop(r).runner = r
        /\ DepositedLoop(r).saved = None
    BY DEF DepositedLoop
  <2> QED
    BY <2>1, <2>3, <2>4
<1>3. ASSUME NEW t \in Threads
      PROVE  /\ calls[t] \in Seq(Call) /\ currentRunner[t] \in Runners \union {None}
             /\ Len(calls[t]) \in {0, 1}
  <2>1. CASE calls[t] = <<>> /\ currentRunner[t] = None
    BY <2>1
  <2>2. CASE \E r \in Deposited : currentRunner[t] = r /\ calls[t] = <<DepositedLoop(r)>>
    BY <1>2, <2>2
  <2> QED
    BY <1>1, <2>1, <2>2
<1>4. TypeOK
  <2>1. calls \in [Threads -> Seq(Call)] /\ currentRunner \in [Threads -> Runners \union {None}]
    BY <1>3 DEF Init
  <2>2. \A t \in Threads : \A i \in 1 .. Len(calls[t]) - 1 :
            calls[t][i].op \in {"loop", "callback", "callback in place"}
    <3> SUFFICES ASSUME NEW t \in Threads PROVE 1 .. Len(calls[t]) - 1 = {}
      OBVIOUS
    <3>1. CASE Len(calls[t]) = 0
      BY <3>1
    <3>2. CASE Len(calls[t]) = 1
      BY <3>2
    <3> QED
      BY <1>3, <3>1, <3>2
  <2> QED
    BY <2>1, <2>2 DEF Init, TypeOK
<1>5. ASSUME NEW t \in Threads, NEW i \in 1 .. Len(calls[t])
      PROVE  /\ i = 1 /\ Len(calls[t]) = 1
             /\ \E r \in Deposited : /\ calls[t][1] = DepositedLoop(r)
                                     /\ Home[r] = t /\ currentRunner[t] = r
  <2>1. calls[t] # <<>>
    OBVIOUS
  <2>2. PICK r \in Deposited : /\ Home[r] = t /\ currentRunner[t] = r
                               /\ calls[t] = <<DepositedLoop(r)>>
    BY <1>1, <2>1
  <2> QED
    BY <1>2, <2>2
<1>6. StacksOK
  <2> SUFFICES ASSUME NEW t \in Threads PROVE StackOK(calls[t], currentRunner[t], target)
    BY DEF StacksOK
  <2>1. CASE calls[t] = <<>> /\ currentRunner[t] = None
    BY <2>1 DEF StackOK, IsCurrent
  <2>2. CASE calls[t] # <<>>
    <3>1. PICK r \in Deposited : calls[t] = <<DepositedLoop(r)>> /\ currentRunner[t] = r
      BY <1>1, <2>2
    <3>2. /\ Len(calls[t]) = 1
          /\ calls[t][1].op = "loop" /\ calls[t][1].runner = r /\ calls[t][1].saved = None
      BY <1>2, <3>1
    <3>3. IsCurrent(calls[t], 1 + 1, currentRunner[t])
      BY <3>1, <3>2, CurrentLoop
    <3>4. IsCurrent(calls[t], 1, None)
      BY DEF IsCurrent
    <3>5. \A i \in 1 .. Len(calls[t]) : i = 1
      BY <3>2
    <3> QED
      BY <3>2, <3>3, <3>4, <3>5 DEF StackOK, CallbackOps
  <2> QED
    BY <1>1, <2>1, <2>2
<1>7. OneRun
  <2>1. ASSUME NEW t \in Threads, NEW i \in Nat, NEW r \in Runners, RunBy(t, i, r)
        PROVE  r \in Deposited /\ t = Home[r] /\ i = 1 /\ calls[t][i].op = "loop"
    <3>1. i \in 1 .. Len(calls[t]) /\ calls[t][i].runner = r
      BY <2>1 DEF RunBy
    <3>2. i = 1 /\ \E q \in Deposited : calls[t][1] = DepositedLoop(q) /\ Home[q] = t
      BY <1>5, <3>1
    <3> QED
      BY <1>2, <3>1, <3>2
  <2> QED
    BY <2>1 DEF OneRun
<1>8. \A t \in Threads, i \in Nat, e \in Events : ~Handles(t, i, e)
  <2> SUFFICES ASSUME NEW t \in Threads, NEW i \in Nat, NEW e \in Events, Handles(t, i, e)
               PROVE  FALSE
    OBVIOUS
  <2>1. i \in 1 .. Len(calls[t]) /\ calls[t][i].op = "callback"
    BY DEF Handles
  <2>2. i = 1 /\ \E q \in Deposited : calls[t][1] = DepositedLoop(q)
    BY <1>5, <2>1
  <2> QED
    BY <1>2, <2>1, <2>2
<1>9. \A t \in Threads, e \in Events : ~Sends(t, e)
  <2> SUFFICES ASSUME NEW t \in Threads, NEW e \in Events, Sends(t, e) PROVE FALSE
    OBVIOUS
  <2>1. calls[t] # <<>> /\ Top(t).op \in SenderOps
    BY DEF Sends
  <2>2. PICK r \in Deposited : calls[t] = <<DepositedLoop(r)>>
    BY <1>1, <2>1
  <2> QED
    BY <2>1, <2>2 DEF Top, DepositedLoop, SenderOps
<1>10. OnePlace /\ OneSender /\ SenderWaits
  BY <1>8, <1>9 DEF Init, OnePlace, OneSender, SenderWaits
<1> QED
  BY <1>4, <1>6, <1>7, <1>10 DEF SyncInv

-----------------------------------------------------------------------------
(* What most steps leave alone *)

\* The stacks of the other threads, and the runners they run.
LEMMA OtherStacks ==
    ASSUME StacksOK, NEW t \in Threads, target' = target,
           \A u \in Threads : u # t => calls'[u] = calls[u] /\ currentRunner'[u] = currentRunner[u],
           StackOK(calls'[t], currentRunner'[t], target)
    PROVE  StacksOK'
<1>1. \A u \in Threads : StackOK(calls'[u], currentRunner'[u], target)
  BY DEF StacksOK
<1> QED
  BY <1>1, Zenon DEF StacksOK

LEMMA SameRuns ==
    ASSUME OneRun, running' = running,
           \A u \in Threads, i \in Nat, r \in Runners :
               RunBy(u, i, r)' => RunBy(u, i, r) /\ calls'[u][i] = calls[u][i]
    PROVE  OneRun'
  BY DEF OneRun

\* A step that is neither sending nor handling.
LEMMA SameEvents ==
    ASSUME OnePlace, OneSender, SenderWaits,
           queue' = queue, target' = target, waiter' = waiter,
           \A u \in Threads, i \in Nat, e \in Events : Handles(u, i, e)' => Handles(u, i, e),
           \A u \in Threads, e \in Events : Sends(u, e)' <=> Sends(u, e),
           \A u \in Threads, e \in Events : Sends(u, e)' => Top(u)' = Top(u)
    PROVE  OnePlace' /\ OneSender' /\ SenderWaits'
<1>1. OnePlace'
  BY DEF OnePlace
<1>2. OneSender'
  BY DEF OneSender
<1>3. SenderWaits'
  BY DEF SenderWaits
<1> QED
  BY <1>1, <1>2, <1>3

\* A step of no thread.
LEMMA SameCalls ==
    ASSUME calls' = calls
    PROVE  /\ \A u : Top(u)' = Top(u)
           /\ \A u, i, r : RunBy(u, i, r)' <=> RunBy(u, i, r)
           /\ \A u, i, e : Handles(u, i, e)' <=> Handles(u, i, e)
           /\ \A u, e : Sends(u, e)' <=> Sends(u, e)
  BY DEF Top, RunBy, Handles, Sends

\* The part of TypeOK on the calls below the innermost one.
Below(s) == \A i \in 1 .. Len(s) - 1 : s[i].op \in {"loop", "callback", "callback in place"}

\* Code that may call.
MayCall(s) == s = <<>> \/ s[Len(s)].op \in {"loop", "callback", "callback in place"}

LEMMA BelowPushed ==
    ASSUME NEW s \in Seq(Call), NEW c \in Call, Below(s), MayCall(s)
    PROVE  Below(Append(s, c))
<1> DEFINE n == Len(s)
           z == Append(s, c)
<1>1. /\ Len(z) = n + 1
      /\ \A i \in 1 .. n : z[i] = s[i]
  BY Pushed, Zenon
<1>0. n \in Nat
  OBVIOUS
<1>2. n = 0 \/ s[n].op \in {"loop", "callback", "callback in place"}
  <2>1. s = <<>> => n = 0
    OBVIOUS
  <2> QED
    BY <2>1, Zenon DEF MayCall
<1>3. \A i \in 1 .. n - 1 : s[i].op \in {"loop", "callback", "callback in place"}
  BY Zenon DEF Below
<1> SUFFICES \A i \in 1 .. Len(z) - 1 : z[i].op \in {"loop", "callback", "callback in place"}
  BY Zenon DEF Below
<1> HIDE DEF n, z
<1>4. ASSUME NEW i \in 1 .. Len(z) - 1
      PROVE  z[i].op \in {"loop", "callback", "callback in place"}
  <2>1. i \in 1 .. n /\ n # 0 /\ z[i] = s[i]
    BY <1>0, <1>1
  <2>2. CASE i = n
    BY <1>2, <2>1, <2>2
  <2>3. CASE i # n
    <3>1. i \in 1 .. n - 1
      BY <1>0, <2>1, <2>3
    <3> QED
      BY <1>3, <2>1, <3>1
  <2> QED
    BY <2>2, <2>3
<1> QED
  BY <1>4

LEMMA BelowPopped ==
    ASSUME NEW s \in Seq(Call), s # <<>>, Below(s)
    PROVE  Below(SubSeq(s, 1, Len(s) - 1))
<1> DEFINE n == Len(s)
           z == SubSeq(s, 1, Len(s) - 1)
<1>1. /\ Len(z) = n - 1 /\ n \in Nat \ {0}
      /\ \A i \in 1 .. n - 1 : z[i] = s[i]
  BY Popped
<1>2. \A i \in 1 .. n - 1 : s[i].op \in {"loop", "callback", "callback in place"}
  BY Zenon DEF Below
<1> SUFFICES \A i \in 1 .. Len(z) - 1 : z[i].op \in {"loop", "callback", "callback in place"}
  BY Zenon DEF Below
<1> HIDE DEF n, z
<1>3. \A i \in 1 .. Len(z) - 1 : i \in 1 .. n - 1
  BY <1>1
<1> QED
  BY <1>1, <1>2, <1>3

LEMMA BelowReplaced ==
    ASSUME NEW s \in Seq(Call), s # <<>>, NEW c \in Call, Below(s)
    PROVE  Below([s EXCEPT ![Len(s)] = c])
<1> DEFINE n == Len(s)
           z == [s EXCEPT ![Len(s)] = c]
<1>1. /\ Len(z) = n
      /\ \A i \in 1 .. n - 1 : z[i] = s[i]
  BY Replaced
<1>2. \A i \in 1 .. n - 1 : s[i].op \in {"loop", "callback", "callback in place"}
  BY Zenon DEF Below
<1> SUFFICES \A i \in 1 .. Len(z) - 1 : z[i].op \in {"loop", "callback", "callback in place"}
  BY Zenon DEF Below
<1> HIDE DEF n, z
<1> QED
  BY <1>1, <1>2

\* The part of TypeOK on calls, when t alone has made a call or returned.
CallsOK == calls \in [Threads -> Seq(Call)] /\ \A t \in Threads : Below(calls[t])

LEMMA OtherCalls ==
    ASSUME CallsOK, NEW t \in Threads, calls' \in [Threads -> Seq(Call)],
           \A u \in Threads : u # t => calls'[u] = calls[u],
           Below(calls'[t])
    PROVE  CallsOK'
<1>1. \A u \in Threads : Below(calls'[u])
  BY DEF CallsOK
<1> QED
  BY <1>1, Zenon DEF CallsOK, Below

LEMMA CallsTyped == TypeOK => CallsOK
  BY DEF TypeOK, CallsOK, Below

\* The innermost call of a thread.
LEMMA TopTyped ==
    ASSUME TypeOK, NEW t \in Threads, calls[t] # <<>>
    PROVE  /\ Top(t) \in Call /\ calls[t] \in Seq(Call) /\ Len(calls[t]) \in Nat \ {0}
           /\ calls[t][Len(calls[t])] = Top(t)
<1>1. calls[t] \in Seq(Call)
  BY DEF TypeOK
<1> QED
  BY <1>1 DEF Top

LEMMA FreeThread ==
    ASSUME NEW t \in Threads, Free(t)
    PROVE  MayCall(calls[t]) /\ \A e : ~Sends(t, e)
  BY DEF Free, InCallback, In, Top, MayCall, Sends, SenderOps

LEMMA CallsEntered ==
    ASSUME TypeOK, NEW t \in Threads, NEW c \in Call, Enter(t, c), MayCall(calls[t])
    PROVE  CallsOK'
<1>1. /\ calls' \in [Threads -> Seq(Call)] /\ calls'[t] = Append(calls[t], c)
      /\ \A u \in Threads : u # t => calls'[u] = calls[u]
  BY Entering
<1>2. CallsOK /\ Below(calls[t]) /\ calls[t] \in Seq(Call)
  BY CallsTyped DEF CallsOK
<1>3. Below(calls'[t])
  BY <1>1, <1>2, BelowPushed
<1> QED
  BY <1>1, <1>2, <1>3, OtherCalls

LEMMA CallsReturned ==
    ASSUME TypeOK, NEW t \in Threads, calls[t] # <<>>, Return(t)
    PROVE  CallsOK'
<1>1. /\ calls' \in [Threads -> Seq(Call)]
      /\ calls'[t] = SubSeq(calls[t], 1, Len(calls[t]) - 1)
      /\ \A u \in Threads : u # t => calls'[u] = calls[u]
  BY Returning
<1>2. CallsOK /\ Below(calls[t]) /\ calls[t] \in Seq(Call)
  BY CallsTyped DEF CallsOK
<1>3. Below(calls'[t])
  BY <1>1, <1>2, BelowPopped, Zenon
<1> QED
  BY <1>1, <1>2, <1>3, OtherCalls

LEMMA CallsReplaced ==
    ASSUME TypeOK, NEW t \in Threads, calls[t] # <<>>, NEW c \in Call,
           calls' = [calls EXCEPT ![t] = [@ EXCEPT ![Len(calls[t])] = c]]
    PROVE  CallsOK'
<1>1. /\ calls' \in [Threads -> Seq(Call)]
      /\ calls'[t] = [calls[t] EXCEPT ![Len(calls[t])] = c]
      /\ \A u \in Threads : u # t => calls'[u] = calls[u]
  BY Replacing
<1>2. CallsOK /\ Below(calls[t]) /\ calls[t] \in Seq(Call)
  BY CallsTyped DEF CallsOK
<1>3. Below(calls'[t])
  BY <1>1, <1>2, BelowReplaced, Zenon
<1> QED
  BY <1>1, <1>2, <1>3, OtherCalls

LEMMA TypedAgain ==
    ASSUME CallsOK',
           currentRunner' \in [Threads -> Runners \union {None}],
           running' \subseteq Runners \ Deposited,
           finished' \subseteq Runners \ Deposited,
           queue' \in [Runners -> SUBSET Events],
           target' \in [Events -> Handlers \union {None}],
           waiter' \in [Events -> {None} \union Waiter]
    PROVE  TypeOK'
  BY DEF TypeOK, CallsOK, Below

-----------------------------------------------------------------------------
(* Runners are run and stopped *)

LEMMA RunKeeps ==
    ASSUME SyncInv, NEW t \in Threads, NEW r \in Runners, Run(t, r)
    PROVE  SyncInv'
<1> DEFINE c == [op |-> "prepare", runner |-> r, saved |-> None]
<1>1. /\ TypeOK /\ Free(t) /\ Enter(t, c) /\ r \notin Deposited \union running
      /\ running' = running \union {r}
      /\ UNCHANGED <<currentRunner, finished, queue, target, waiter>>
  BY DEF SyncInv, Run
<1>2. c \in Call /\ c.op = "prepare" /\ c.runner = r
  BY DEF Call
<1> HIDE DEF c
<1>3. CallsOK'
  BY <1>1, <1>2, FreeThread, CallsEntered
<1>4. TypeOK'
  BY <1>1, <1>3, TypedAgain DEF TypeOK
<1>5. StacksOK'
  <2>1. StackOK(calls[t], currentRunner[t], target) /\ calls[t] \in Seq(Call)
    BY <1>1 DEF SyncInv, StacksOK, TypeOK
  <2>2. StackOK(Append(calls[t], c), currentRunner[t], target)
    BY <1>2, <2>1, PushOK DEF CallbackOps
  <2>3. /\ calls'[t] = Append(calls[t], c)
        /\ \A u \in Threads : u # t => calls'[u] = calls[u]
    BY <1>1, <1>2, Entering
  <2> QED
    BY <1>1, <2>2, <2>3, OtherStacks DEF SyncInv
<1>6. OneRun'
  <2>1. ASSUME NEW u \in Threads, NEW i \in Nat, NEW q \in Runners, RunBy(u, i, q)'
        PROVE  \/ RunBy(u, i, q) /\ calls'[u][i] = calls[u][i]
               \/ u = t /\ i = Len(calls[t]) + 1 /\ q = r
    BY <1>1, <1>2, <2>1, Entering
  <2>2. \A u \in Threads, i \in Nat : ~RunBy(u, i, r)
    BY <1>1 DEF SyncInv, OneRun
  <2>3. ASSUME NEW u \in Threads, NEW i \in Nat, NEW q \in Runners, RunBy(u, i, q)'
        PROVE  /\ q \in Deposited \union running'
               /\ q \in Deposited => u = Home[q] /\ i = 1 /\ calls'[u][i].op = "loop"
    BY <1>1, <2>1, <2>2, <2>3 DEF SyncInv, OneRun
  <2>4. ASSUME NEW u \in Threads, NEW i \in Nat, NEW q \in Runners, RunBy(u, i, q)',
               NEW v \in Threads, NEW j \in Nat, RunBy(v, j, q)'
        PROVE  u = v /\ i = j
    BY <2>1, <2>2, <2>4 DEF SyncInv, OneRun
  <2> QED
    BY <2>3, <2>4 DEF OneRun
<1>7. OnePlace' /\ OneSender' /\ SenderWaits'
  <2>1. \A e \in Events : ~Sends(t, e) /\ ~Sends(t, e)'
    BY <1>1, <1>2, FreeThread, Entering DEF SenderOps
  <2>2. \A u \in Threads, e \in Events : Sends(u, e)' <=> Sends(u, e)
    BY <1>1, <1>2, <2>1, Entering
  <2>3. \A u \in Threads, e \in Events : Sends(u, e)' => Top(u)' = Top(u)
    <3>1. \A u \in Threads : u # t => Top(u)' = Top(u)
      BY <1>1, <1>2, Entering
    <3> QED
      BY <2>1, <3>1
  <2>4. \A u \in Threads, i \in Nat, e \in Events : Handles(u, i, e)' => Handles(u, i, e)
    BY <1>1, <1>2, Entering
  <2> QED
    BY <1>1, <2>2, <2>3, <2>4, SameEvents DEF SyncInv
<1> QED
  BY <1>4, <1>5, <1>6, <1>7 DEF SyncInv

LEMMA PrepareKeeps ==
    ASSUME SyncInv, NEW t \in Threads, Prepare(t)
    PROVE  SyncInv'
<1> DEFINE r == Top(t).runner
           n == Len(calls[t])
           c == [op |-> "loop", runner |-> r, saved |-> currentRunner[t]]
<1>1. /\ TypeOK /\ calls[t] # <<>> /\ Top(t).op = "prepare"
      /\ finished' = finished \ {r}
      /\ calls' = [calls EXCEPT ![t] = [@ EXCEPT ![Len(calls[t])] = c]]
      /\ currentRunner' = [currentRunner EXCEPT ![t] = r]
      /\ UNCHANGED <<running, queue, target, waiter>>
  BY DEF SyncInv, Prepare, In
<1>2. /\ Top(t) \in Call /\ calls[t] \in Seq(Call) /\ n \in Nat \ {0}
      /\ calls[t][n] = Top(t)
  BY <1>1, TopTyped
<1>3. r \in Runners
  BY <1>1, <1>2, CallShape DEF RunnerOps, CallbackOps, SenderOps
<1>4. c \in Call /\ c.op = "loop" /\ c.runner = r /\ c.saved = currentRunner[t]
  BY <1>1, <1>3 DEF Call, TypeOK
<1>5. RunBy(t, n, r)
  BY <1>1, <1>2 DEF RunBy, RunnerOps
<1> HIDE DEF c, n, r
<1>6. CallsOK'
  BY <1>1, <1>4, CallsReplaced
<1>7. TypeOK'
  BY <1>1, <1>3, <1>6, TypedAgain DEF TypeOK
<1>8. StacksOK'
  <2>1. StackOK(calls[t], currentRunner[t], target)
    BY DEF SyncInv, StacksOK
  <2>2. /\ calls'[t] = [calls[t] EXCEPT ![Len(calls[t])] = c]
        /\ \A u \in Threads : u # t => calls'[u] = calls[u]
    BY <1>1, <1>4, Replacing
  <2>3. currentRunner'[t] = r /\ \A u \in Threads : u # t => currentRunner'[u] = currentRunner[u]
    BY <1>1 DEF TypeOK
  <2>4. StackOK([calls[t] EXCEPT ![Len(calls[t])] = c], r, target)
    BY <1>1, <1>2, <1>4, <2>1, ReplaceOK DEF CallbackOps, n
  <2> QED
    BY <1>1, <2>2, <2>3, <2>4, OtherStacks DEF SyncInv
<1>9. OneRun'
  <2>1. ASSUME NEW u \in Threads, NEW i \in Nat, NEW q \in Runners, RunBy(u, i, q)'
        PROVE  \/ RunBy(u, i, q) /\ calls'[u][i] = calls[u][i]
               \/ RunBy(u, i, q) /\ u = t /\ i = n /\ q = r
    <3>1. \A v \in Threads, j \in Nat, w \in Runners : RunBy(v, j, w)' =>
              \/ RunBy(v, j, w) /\ calls'[v][j] = calls[v][j]
              \/ v = t /\ j = Len(calls[t]) /\ c.op \in RunnerOps /\ c.runner = w
      BY <1>1, <1>4, Replacing
    <3> QED
      BY <1>4, <1>5, <2>1, <3>1 DEF n
  <2>2. r \notin Deposited
    BY <1>1, <1>2, <1>3, <1>5 DEF SyncInv, OneRun
  <2>3. ASSUME NEW u \in Threads, NEW i \in Nat, NEW q \in Runners, RunBy(u, i, q)'
        PROVE  /\ q \in Deposited \union running'
               /\ q \in Deposited => u = Home[q] /\ i = 1 /\ calls'[u][i].op = "loop"
    BY <1>1, <2>1, <2>2, <2>3 DEF SyncInv, OneRun
  <2>4. ASSUME NEW u \in Threads, NEW i \in Nat, NEW q \in Runners, RunBy(u, i, q)',
               NEW v \in Threads, NEW j \in Nat, RunBy(v, j, q)'
        PROVE  u = v /\ i = j
    BY <2>1, <2>4 DEF SyncInv, OneRun
  <2> QED
    BY <2>3, <2>4 DEF OneRun
<1>10. OnePlace' /\ OneSender' /\ SenderWaits'
  <2>1. \A e \in Events : ~Sends(t, e) /\ ~Sends(t, e)'
    BY <1>1, <1>4, Replacing DEF Sends, SenderOps
  <2>2. \A u \in Threads, e \in Events : Sends(u, e)' <=> Sends(u, e)
    <3>1. \A u \in Threads, e \in Events : u # t => (Sends(u, e)' <=> Sends(u, e))
      BY <1>1, <1>4, Replacing
    <3> QED
      BY <2>1, <3>1
  <2>3. \A u \in Threads, e \in Events : Sends(u, e)' => Top(u)' = Top(u)
    <3>1. \A u \in Threads : u # t => Top(u)' = Top(u)
      BY <1>1, <1>4, Replacing
    <3> QED
      BY <2>1, <3>1
  <2>4. \A u \in Threads, i \in Nat, e \in Events : Handles(u, i, e)' => Handles(u, i, e)
    BY <1>1, <1>4, Replacing
  <2> QED
    BY <1>1, <2>2, <2>3, <2>4, SameEvents DEF SyncInv
<1> QED
  BY <1>7, <1>8, <1>9, <1>10 DEF SyncInv

LEMMA LeaveLoopKeeps ==
    ASSUME SyncInv, NEW t \in Threads, LeaveLoop(t)
    PROVE  SyncInv'
<1> DEFINE r == Top(t).runner
           n == Len(calls[t])
           c == [Top(t) EXCEPT !.op = "leave"]
<1>1. /\ TypeOK /\ calls[t] # <<>> /\ Top(t).op = "loop" /\ r \in finished
      /\ Proceed(t, "leave")
      /\ currentRunner' = [currentRunner EXCEPT ![t] = Top(t).saved]
      /\ UNCHANGED <<running, finished, queue, target, waiter>>
  BY DEF SyncInv, LeaveLoop, In
<1>2. /\ Top(t) \in Call /\ calls[t] \in Seq(Call) /\ n \in Nat \ {0}
      /\ calls[t][n] = Top(t)
  BY <1>1, TopTyped
<1>3. /\ r \in Runners /\ Top(t).saved \in Runners \union {None}
      /\ Top(t) = [op |-> "loop", runner |-> r, saved |-> Top(t).saved]
  BY <1>1, <1>2, CallShape DEF RunnerOps, CallbackOps, SenderOps
<1>4. c \in Call /\ c.op = "leave" /\ c.runner = r
  BY <1>3 DEF Call
<1>5. calls' = [calls EXCEPT ![t] = [@ EXCEPT ![Len(calls[t])] = c]]
  BY <1>1, <1>4, Proceeding
<1>6. RunBy(t, n, r) /\ r \notin Deposited
  <2>1. RunBy(t, n, r)
    BY <1>1, <1>2 DEF RunBy, RunnerOps
  <2> QED
    BY <1>1, <2>1 DEF TypeOK
<1> HIDE DEF c, n, r
<1>7. CallsOK'
  BY <1>1, <1>4, <1>5, CallsReplaced
<1>8. TypeOK'
  BY <1>1, <1>3, <1>7, TypedAgain DEF TypeOK
<1>9. StacksOK'
  <2>1. StackOK(calls[t], currentRunner[t], target)
    BY DEF SyncInv, StacksOK
  <2>2. /\ calls'[t] = [calls[t] EXCEPT ![Len(calls[t])] = c]
        /\ \A u \in Threads : u # t => calls'[u] = calls[u]
    BY <1>1, <1>4, <1>5, Replacing
  <2>3. /\ currentRunner'[t] = Top(t).saved
        /\ \A u \in Threads : u # t => currentRunner'[u] = currentRunner[u]
    BY <1>1 DEF TypeOK
  <2>4. StackOK([calls[t] EXCEPT ![Len(calls[t])] = c], Top(t).saved, target)
    BY <1>1, <1>2, <1>4, <2>1, ReplaceOK DEF CallbackOps, n
  <2> QED
    BY <1>1, <2>2, <2>3, <2>4, OtherStacks DEF SyncInv
<1>10. OneRun'
  <2>1. ASSUME NEW u \in Threads, NEW i \in Nat, NEW q \in Runners, RunBy(u, i, q)'
        PROVE  \/ RunBy(u, i, q) /\ calls'[u][i] = calls[u][i]
               \/ RunBy(u, i, q) /\ u = t /\ i = n /\ q = r
    <3>1. \A v \in Threads, j \in Nat, w \in Runners : RunBy(v, j, w)' =>
              \/ RunBy(v, j, w) /\ calls'[v][j] = calls[v][j]
              \/ v = t /\ j = Len(calls[t]) /\ c.op \in RunnerOps /\ c.runner = w
      BY <1>1, <1>4, <1>5, Replacing
    <3> QED
      BY <1>4, <1>6, <2>1, <3>1 DEF n
  <2>3. ASSUME NEW u \in Threads, NEW i \in Nat, NEW q \in Runners, RunBy(u, i, q)'
        PROVE  /\ q \in Deposited \union running'
               /\ q \in Deposited => u = Home[q] /\ i = 1 /\ calls'[u][i].op = "loop"
    BY <1>1, <1>6, <2>1, <2>3 DEF SyncInv, OneRun
  <2>4. ASSUME NEW u \in Threads, NEW i \in Nat, NEW q \in Runners, RunBy(u, i, q)',
               NEW v \in Threads, NEW j \in Nat, RunBy(v, j, q)'
        PROVE  u = v /\ i = j
    BY <2>1, <2>4 DEF SyncInv, OneRun
  <2> QED
    BY <2>3, <2>4 DEF OneRun
<1>11. OnePlace' /\ OneSender' /\ SenderWaits'
  <2>1. \A e \in Events : ~Sends(t, e) /\ ~Sends(t, e)'
    BY <1>1, <1>4, <1>5, Replacing DEF Sends, SenderOps
  <2>2. \A u \in Threads, e \in Events : Sends(u, e)' <=> Sends(u, e)
    <3>1. \A u \in Threads, e \in Events : u # t => (Sends(u, e)' <=> Sends(u, e))
      BY <1>1, <1>4, <1>5, Replacing
    <3> QED
      BY <2>1, <3>1
  <2>3. \A u \in Threads, e \in Events : Sends(u, e)' => Top(u)' = Top(u)
    <3>1. \A u \in Threads : u # t => Top(u)' = Top(u)
      BY <1>1, <1>4, <1>5, Replacing
    <3> QED
      BY <2>1, <3>1
  <2>4. \A u \in Threads, i \in Nat, e \in Events : Handles(u, i, e)' => Handles(u, i, e)
    BY <1>1, <1>4, <1>5, Replacing
  <2> QED
    BY <1>1, <2>2, <2>3, <2>4, SameEvents DEF SyncInv
<1> QED
  BY <1>8, <1>9, <1>10, <1>11 DEF SyncInv

LEMMA ReturnFromRunKeeps ==
    ASSUME SyncInv, NEW t \in Threads, ReturnFromRun(t)
    PROVE  SyncInv'
<1> DEFINE r == Top(t).runner
           n == Len(calls[t])
<1>1. /\ TypeOK /\ calls[t] # <<>> /\ Top(t).op = "leave"
      /\ running' = running \ {r}
      /\ Return(t)
      /\ UNCHANGED <<currentRunner, finished, queue, target, waiter>>
  BY DEF SyncInv, ReturnFromRun, In
<1>2. /\ Top(t) \in Call /\ calls[t] \in Seq(Call) /\ n \in Nat \ {0}
      /\ calls[t][n] = Top(t)
  BY <1>1, TopTyped
<1>3. r \in Runners
  BY <1>1, <1>2, CallShape DEF RunnerOps, CallbackOps, SenderOps
<1>4. RunBy(t, n, r)
  BY <1>1, <1>2 DEF RunBy, RunnerOps
<1> HIDE DEF n, r
<1>5. CallsOK'
  BY <1>1, CallsReturned
<1>6. TypeOK'
  BY <1>1, <1>5, TypedAgain DEF TypeOK
<1>7. StacksOK'
  <2>1. StackOK(calls[t], currentRunner[t], target)
    BY DEF SyncInv, StacksOK
  <2>2. /\ calls'[t] = SubSeq(calls[t], 1, Len(calls[t]) - 1)
        /\ \A u \in Threads : u # t => calls'[u] = calls[u]
    BY <1>1, Returning
  <2>3. StackOK(SubSeq(calls[t], 1, Len(calls[t]) - 1), currentRunner[t], target)
    BY <1>1, <1>2, <2>1, PopOK DEF n
  <2> QED
    BY <1>1, <2>2, <2>3, OtherStacks DEF SyncInv
<1>8. OneRun'
  <2>1. ASSUME NEW u \in Threads, NEW i \in Nat, NEW q \in Runners, RunBy(u, i, q)'
        PROVE  RunBy(u, i, q) /\ calls'[u][i] = calls[u][i] /\ q # r
    <3>1. RunBy(u, i, q) /\ calls'[u][i] = calls[u][i] /\ ~(u = t /\ i = n)
      BY <1>1, <2>1, Returning DEF n
    <3>2. q = r => u = t /\ i = n
      BY <1>2, <1>3, <1>4, <3>1 DEF SyncInv, OneRun
    <3> QED
      BY <3>1, <3>2
  <2>3. ASSUME NEW u \in Threads, NEW i \in Nat, NEW q \in Runners, RunBy(u, i, q)'
        PROVE  /\ q \in Deposited \union running'
               /\ q \in Deposited => u = Home[q] /\ i = 1 /\ calls'[u][i].op = "loop"
    <3>1. RunBy(u, i, q) /\ calls'[u][i] = calls[u][i] /\ q # r
      BY <2>1, <2>3
    <3>2. /\ q \in Deposited \union running
          /\ q \in Deposited => u = Home[q] /\ i = 1 /\ calls[u][i].op = "loop"
      BY <3>1 DEF SyncInv, OneRun
    <3> QED
      BY <1>1, <3>1, <3>2
  <2>4. ASSUME NEW u \in Threads, NEW i \in Nat, NEW q \in Runners, RunBy(u, i, q)',
               NEW v \in Threads, NEW j \in Nat, RunBy(v, j, q)'
        PROVE  u = v /\ i = j
    BY <2>1, <2>4 DEF SyncInv, OneRun
  <2> QED
    BY <2>3, <2>4 DEF OneRun
<1>9. OnePlace' /\ OneSender' /\ SenderWaits'
  <2>1. \A e \in Events : ~Sends(t, e) /\ ~Sends(t, e)'
    BY <1>1, Returning DEF Sends, SenderOps
  <2>2. \A u \in Threads, e \in Events : Sends(u, e)' <=> Sends(u, e)
    BY <1>1, <2>1, Returning
  <2>3. \A u \in Threads, e \in Events : Sends(u, e)' => Top(u)' = Top(u)
    <3>1. \A u \in Threads : u # t => Top(u)' = Top(u)
      BY <1>1, Returning
    <3> QED
      BY <2>1, <3>1
  <2>4. \A u \in Threads, i \in Nat, e \in Events : Handles(u, i, e)' => Handles(u, i, e)
    BY <1>1, Returning
  <2> QED
    BY <1>1, <2>2, <2>3, <2>4, SameEvents DEF SyncInv
<1> QED
  BY <1>6, <1>7, <1>8, <1>9 DEF SyncInv

LEMMA StopKeeps ==
    ASSUME SyncInv, NEW r \in Runners, Stop(r)
    PROVE  SyncInv'
<1>1. /\ r \in running /\ finished' = finished \union {r}
      /\ UNCHANGED <<calls, currentRunner, running, queue, target, waiter>>
  BY DEF Stop
<1>2. TypeOK'
  BY <1>1 DEF SyncInv, TypeOK
<1>3. StacksOK'
  BY <1>1, Zenon DEF SyncInv, StacksOK
<1>4. OneRun'
  BY <1>1, SameCalls, SameRuns DEF SyncInv
<1>5. OnePlace' /\ OneSender' /\ SenderWaits'
  BY <1>1, SameCalls, SameEvents DEF SyncInv
<1> QED
  BY <1>2, <1>3, <1>4, <1>5 DEF SyncInv

-----------------------------------------------------------------------------
(* Events are sent and removed *)

\* An event that is not sent yet is nowhere.
LEMMA Unsent ==
    ASSUME SyncInv, NEW e \in Events, target[e] = None
    PROVE  /\ waiter[e] = None
           /\ \A r \in Runners : e \notin queue[r]
           /\ \A t \in Threads : ~Sends(t, e)
           /\ \A t \in Threads, i \in Nat : ~Handles(t, i, e)
<1>1. target[e] \notin Handlers
  BY SyncAssumption
<1>2. waiter[e] = None
  BY DEF SyncInv, OneSender
<1>3. \A r \in Runners : e \notin queue[r]
  BY <1>1 DEF SyncInv, OnePlace
<1>4. \A t \in Threads : ~Sends(t, e)
  BY <1>2 DEF SyncInv, OneSender
<1>5. ASSUME NEW t \in Threads, NEW i \in Nat, Handles(t, i, e) PROVE FALSE
  <2>1. i \in 1 .. Len(calls[t]) /\ calls[t][i].op = "callback" /\ calls[t][i].event = e
    BY <1>5 DEF Handles
  <2>2. StackOK(calls[t], currentRunner[t], target)
    BY DEF SyncInv, StacksOK
  <2> QED
    BY <1>1, <2>1, <2>2 DEF StackOK, CallbackOps
<1> QED
  BY <1>2, <1>3, <1>4, <1>5

LEMMA Sending ==
    ASSUME SyncInv, NEW h \in Handlers, NEW e \in Events, target[e] = None,
           target' = [target EXCEPT ![e] = h]
    PROVE  /\ target' \in [Events -> Handlers \union {None}]
           /\ target'[e] = h
           /\ \A x \in Events : x # e => target'[x] = target[x]
           /\ \A t \in Threads : StackOK(calls[t], currentRunner[t], target')
<1>1. /\ target' \in [Events -> Handlers \union {None}]
      /\ target'[e] = h
      /\ \A x \in Events : x # e => target'[x] = target[x]
  BY DEF SyncInv, TypeOK
<1>2. \A x \in Events : target[x] \in Handlers => target'[x] = target[x]
  BY <1>1, SyncAssumption
<1>3. ASSUME NEW t \in Threads PROVE StackOK(calls[t], currentRunner[t], target')
  <2>1. StackOK(calls[t], currentRunner[t], target) /\ calls[t] \in Seq(Call)
    BY DEF SyncInv, StacksOK, TypeOK
  <2> QED
    BY <1>2, <2>1, RetargetOK
<1> QED
  BY <1>1, <1>3

LEMMA PostEventKeeps ==
    ASSUME SyncInv, NEW h \in Handlers, NEW e \in Events, PostEvent(h, e)
    PROVE  SyncInv'
<1>1. /\ target[e] = None
      /\ target' = [target EXCEPT ![e] = h]
      /\ queue' = [queue EXCEPT ![RunnerOf[h]] = @ \union {e}]
      /\ UNCHANGED <<calls, currentRunner, running, finished, waiter>>
  BY DEF PostEvent
<1>2. /\ target' \in [Events -> Handlers \union {None}]
      /\ target'[e] = h
      /\ \A x \in Events : x # e => target'[x] = target[x]
      /\ \A t \in Threads : StackOK(calls[t], currentRunner[t], target')
  BY <1>1, Sending
<1>3. /\ waiter[e] = None
      /\ \A t \in Threads : ~Sends(t, e)
      /\ \A t \in Threads, i \in Nat : ~Handles(t, i, e)
  BY <1>1, Unsent
<1>4. \A r \in Runners, x \in Events : x \in queue'[r] <=> x \in queue[r] \/ (x = e /\ r = RunnerOf[h])
  BY <1>1, SyncAssumption DEF SyncInv, TypeOK
<1>5. TypeOK'
  <2>1. queue' \in [Runners -> SUBSET Events]
    BY <1>1 DEF SyncInv, TypeOK
  <2> QED
    BY <1>1, <1>2, <2>1 DEF SyncInv, TypeOK
<1>6. StacksOK'
  BY <1>1, <1>2, Zenon DEF StacksOK
<1>7. OneRun'
  BY <1>1, SameCalls, SameRuns DEF SyncInv
<1>8. /\ \A u \in Threads : Top(u)' = Top(u)
      /\ \A u \in Threads, i \in Nat, x \in Events : Handles(u, i, x)' <=> Handles(u, i, x)
      /\ \A u \in Threads, x \in Events : Sends(u, x)' <=> Sends(u, x)
  BY <1>1, SameCalls
<1>9. OnePlace'
  <2>1. ASSUME NEW r \in Runners, NEW x \in queue'[r]
        PROVE  target'[x] \in Handlers /\ RunnerOf[target'[x]] = r
    <3>1. x \in Events
      BY <1>5 DEF TypeOK
    <3>2. CASE x = e
      BY <1>2, <1>3, <1>4, <3>2, <1>1, Unsent
    <3>3. CASE x # e
      BY <1>2, <1>4, <3>1, <3>3 DEF SyncInv, OnePlace
    <3> QED
      BY <3>2, <3>3
  <2>2. ASSUME NEW t \in Threads, NEW i \in Nat, NEW x \in Events, Handles(t, i, x)'
        PROVE  /\ \A r \in Runners : x \notin queue'[r]
               /\ \A u \in Threads, j \in Nat : Handles(u, j, x)' => t = u /\ i = j
    BY <1>3, <1>4, <1>8, <2>2 DEF SyncInv, OnePlace
  <2> QED
    BY <2>1, <2>2 DEF OnePlace
<1>10. OneSender'
  <2>1. \A x \in Events : target'[x] = None => waiter'[x] = None
    BY <1>1, <1>2, <1>3 DEF SyncInv, OneSender
  <2>2. ASSUME NEW t \in Threads, NEW x \in Events, Sends(t, x)'
        PROVE  /\ waiter'[x] # None
               /\ waiter'[x].waitingCount = IF Top(t)'.op = "asleep" THEN 1 ELSE 0
               /\ \A u \in Threads : Sends(u, x)' => t = u
               /\ Top(t)'.op = "insert" =>
                      /\ ~waiter'[x].finished
                      /\ \A r \in Runners : x \notin queue'[r]
                      /\ \A u \in Threads, i \in Nat : ~Handles(u, i, x)'
    <3>1. Sends(t, x) /\ x # e /\ Top(t)' = Top(t)
      BY <1>3, <1>8, <2>2
    <3> QED
      BY <1>1, <1>4, <1>8, <3>1 DEF SyncInv, OneSender
  <2> QED
    BY <2>1, <2>2, Zenon DEF OneSender
<1>11. SenderWaits'
  BY <1>1, <1>3, <1>4, <1>8 DEF SyncInv, SenderWaits
<1> QED
  BY <1>5, <1>6, <1>7, <1>9, <1>10, <1>11 DEF SyncInv

\* Notify wakes; it neither creates a waiter nor counts.
LEMMA NotifiedWaiter ==
    ASSUME NEW w \in {None} \union Waiter
    PROVE  /\ Notified(w) \in {None} \union Waiter
           /\ Notified(w) = None <=> w = None
           /\ w # None => Notified(w).waitingCount = w.waitingCount
<1>1. None \notin Waiter
  BY SyncAssumption
<1>2. CASE w = None
  BY <1>2 DEF Notified
<1>3. CASE w \in Waiter
  <2>1. w # None
    BY <1>1, <1>3
  <2>2. Notified(w) = [w EXCEPT !.finished = TRUE, !.woken = w.woken \/ w.waitingCount > 0]
    BY <2>1 DEF Notified
  <2>3. /\ w = [finished |-> w.finished, waitingCount |-> w.waitingCount, woken |-> w.woken]
        /\ w.waitingCount \in 0 .. 1 /\ w.woken \in BOOLEAN
    BY <1>3 DEF Waiter
  <2>4. (w.woken \/ w.waitingCount > 0) \in BOOLEAN
    OBVIOUS
  <2>5. Notified(w) \in Waiter /\ Notified(w).waitingCount = w.waitingCount
    BY <2>2, <2>3, <2>4 DEF Waiter
  <2> QED
    BY <1>1, <2>1, <2>5
<1> QED
  BY <1>2, <1>3

LEMMA RemoveEventKeeps ==
    ASSUME SyncInv, NEW h \in Handlers, NEW events \in SUBSET Events, RemoveEvent(h, events)
    PROVE  SyncInv'
<1> DEFINE r == RunnerOf[h]
<1>1. /\ events \subseteq {e \in queue[r] : target[e] = h}
      /\ queue' = [queue EXCEPT ![r] = @ \ events]
      /\ waiter' = [e \in Events |-> IF e \in events THEN Notified(waiter[e]) ELSE waiter[e]]
      /\ UNCHANGED <<calls, currentRunner, running, finished, target>>
  BY DEF RemoveEvent
<1>2. r \in Runners
  BY SyncAssumption
<1> HIDE DEF r
<1>3. \A q \in Runners, x \in Events : x \in queue'[q] => x \in queue[q] /\ x \notin events
  <2> SUFFICES ASSUME NEW q \in Runners, NEW x \in Events, x \in queue'[q]
               PROVE  x \in queue[q] /\ x \notin events
    OBVIOUS
  <2>1. x \in queue[q] /\ (q = r => x \notin events)
    BY <1>1, <1>2 DEF SyncInv, TypeOK
  <2>2. x \in events => q = r
    <3>1. x \in events => x \in queue[r]
      BY <1>1
    <3> QED
      BY <1>2, <2>1, <3>1 DEF SyncInv, OnePlace
  <2> QED
    BY <2>1, <2>2
<1>4. ASSUME NEW x \in Events
      PROVE  /\ waiter'[x] \in {None} \union Waiter
             /\ waiter'[x] = None <=> waiter[x] = None
             /\ waiter[x] # None => waiter'[x].waitingCount = waiter[x].waitingCount
             /\ x \notin events => waiter'[x] = waiter[x]
  <2>1. waiter[x] \in {None} \union Waiter
    BY DEF SyncInv, TypeOK
  <2> QED
    BY <1>1, <2>1, NotifiedWaiter
<1>5. TypeOK'
  <2>1. queue' \in [Runners -> SUBSET Events]
    BY <1>1 DEF SyncInv, TypeOK
  <2>2. waiter' \in [Events -> {None} \union Waiter]
    BY <1>1, <1>4
  <2> QED
    BY <1>1, <2>1, <2>2 DEF SyncInv, TypeOK
<1>6. StacksOK'
  BY <1>1, Zenon DEF SyncInv, StacksOK
<1>7. OneRun'
  BY <1>1, SameCalls, SameRuns DEF SyncInv
<1>8. /\ \A u \in Threads : Top(u)' = Top(u)
      /\ \A u \in Threads, i \in Nat, x \in Events : Handles(u, i, x)' <=> Handles(u, i, x)
      /\ \A u \in Threads, x \in Events : Sends(u, x)' <=> Sends(u, x)
  BY <1>1, SameCalls
<1>9. OnePlace'
  <2>1. ASSUME NEW q \in Runners, NEW x \in queue'[q]
        PROVE  target'[x] \in Handlers /\ RunnerOf[target'[x]] = q
    <3>1. x \in Events
      BY <1>5 DEF TypeOK
    <3> QED
      BY <1>1, <1>3, <3>1 DEF SyncInv, OnePlace
  <2>2. ASSUME NEW t \in Threads, NEW i \in Nat, NEW x \in Events, Handles(t, i, x)'
        PROVE  /\ \A q \in Runners : x \notin queue'[q]
               /\ \A u \in Threads, j \in Nat : Handles(u, j, x)' => t = u /\ i = j
    BY <1>3, <1>8, <2>2 DEF SyncInv, OnePlace
  <2> QED
    BY <2>1, <2>2 DEF OnePlace
<1>10. OneSender'
  <2>1. \A x \in Events : target'[x] = None => waiter'[x] = None
    BY <1>1, <1>4 DEF SyncInv, OneSender
  <2>2. ASSUME NEW t \in Threads, NEW x \in Events, Sends(t, x)'
        PROVE  /\ waiter'[x] # None
               /\ waiter'[x].waitingCount = IF Top(t)'.op = "asleep" THEN 1 ELSE 0
               /\ \A u \in Threads : Sends(u, x)' => t = u
    <3>1. Sends(t, x) /\ Top(t)' = Top(t)
      BY <1>8, <2>2
    <3> QED
      BY <1>4, <1>8, <3>1 DEF SyncInv, OneSender
  <2>3. ASSUME NEW t \in Threads, NEW x \in Events, Sends(t, x)', Top(t)'.op = "insert"
        PROVE  /\ ~waiter'[x].finished
               /\ \A q \in Runners : x \notin queue'[q]
               /\ \A u \in Threads, i \in Nat : ~Handles(u, i, x)'
    <3>1. Sends(t, x) /\ Top(t).op = "insert"
      BY <1>8, <2>3
    <3>2. x \notin events
      BY <1>1, <1>2, <3>1 DEF SyncInv, OneSender
    <3> QED
      BY <1>3, <1>4, <1>8, <3>1, <3>2 DEF SyncInv, OneSender
  <2> QED
    BY <2>1, <2>2, <2>3, Zenon DEF OneSender
<1>11. SenderWaits'
  <2> SUFFICES ASSUME NEW x \in Events, waiter'[x] # None,
                      \/ \E q \in Runners : x \in queue'[q]
                      \/ \E t \in Threads, i \in Nat : Handles(t, i, x)'
               PROVE  (\E t \in Threads : Sends(t, x)') /\ ~waiter'[x].finished
    BY DEF SenderWaits
  <2>1. /\ x \notin events
        /\ \/ \E q \in Runners : x \in queue[q]
           \/ \E t \in Threads, i \in Nat : Handles(t, i, x)
    <3>1. CASE \E q \in Runners : x \in queue'[q]
      BY <1>3, <3>1
    <3>2. CASE \E t \in Threads, i \in Nat : Handles(t, i, x)'
      BY <1>1, <1>2, <1>8, <3>2 DEF SyncInv, OnePlace
    <3> QED
      BY <3>1, <3>2
  <2> QED
    BY <1>4, <1>8, <2>1 DEF SyncInv, SenderWaits
<1> QED
  BY <1>5, <1>6, <1>7, <1>9, <1>10, <1>11 DEF SyncInv

\* An event distributed in place.
LEMMA InPlaceKeeps ==
    ASSUME SyncInv, NEW t \in Threads, NEW h \in Handlers, NEW e \in Events,
           SendSyncEvent(t, h, e), RunnerOf[h] = currentRunner[t]
    PROVE  SyncInv'
<1> DEFINE c == [op |-> "callback in place", event |-> e]
<1>1. /\ TypeOK /\ Free(t) /\ target[e] = None /\ Enter(t, c)
      /\ target' = [target EXCEPT ![e] = h]
      /\ UNCHANGED <<currentRunner, running, finished, queue, waiter>>
  BY DEF SyncInv, SendSyncEvent
<1>2. c \in Call /\ c.op = "callback in place" /\ c.event = e
  BY DEF Call
<1> HIDE DEF c
<1>3. /\ target' \in [Events -> Handlers \union {None}]
      /\ target'[e] = h
      /\ \A x \in Events : x # e => target'[x] = target[x]
      /\ \A u \in Threads : StackOK(calls[u], currentRunner[u], target')
  BY <1>1, Sending
<1>4. /\ waiter[e] = None
      /\ \A r \in Runners : e \notin queue[r]
      /\ \A u \in Threads : ~Sends(u, e)
      /\ \A u \in Threads, i \in Nat : ~Handles(u, i, e)
  BY <1>1, Unsent
<1>5. TypeOK'
  BY <1>1, <1>2, <1>3, FreeThread, CallsEntered, TypedAgain DEF TypeOK
<1>6. StacksOK'
  <2>1. calls[t] \in Seq(Call) /\ StackOK(calls[t], currentRunner[t], target')
    BY <1>1, <1>3 DEF TypeOK
  <2>2. StackOK(Append(calls[t], c), currentRunner[t], target')
    <3>1. RunnerOf[target'[c.event]] = currentRunner[t] /\ target'[c.event] \in Handlers
      BY <1>2, <1>3
    <3> QED
      BY <1>2, <2>1, <3>1, PushOK
  <2>3. /\ calls'[t] = Append(calls[t], c)
        /\ \A u \in Threads : u # t => calls'[u] = calls[u]
    BY <1>1, <1>2, Entering
  <2>4. \A u \in Threads : StackOK(calls'[u], currentRunner'[u], target')
    BY <1>1, <1>3, <2>2, <2>3
  <2> QED
    BY <2>4, Zenon DEF StacksOK
<1>7. OneRun'
  BY <1>1, <1>2, Entering, SameRuns DEF SyncInv, RunnerOps
<1>8. /\ \A u \in Threads, i \in Nat, x \in Events : Handles(u, i, x)' => Handles(u, i, x)
      /\ \A u \in Threads, x \in Events : Sends(u, x)' <=> Sends(u, x)
      /\ \A u \in Threads, x \in Events : Sends(u, x)' => Top(u)' = Top(u)
  <2>1. \A x \in Events : ~Sends(t, x) /\ ~Sends(t, x)'
    BY <1>1, <1>2, FreeThread, Entering DEF SenderOps
  <2>2. \A u \in Threads, i \in Nat, x \in Events : Handles(u, i, x)' => Handles(u, i, x)
    BY <1>1, <1>2, Entering
  <2>3. /\ \A u \in Threads : u # t => Top(u)' = Top(u)
        /\ \A u \in Threads, x \in Events : u # t => (Sends(u, x)' <=> Sends(u, x))
    BY <1>1, <1>2, Entering
  <2> QED
    BY <2>1, <2>2, <2>3
<1>9. OnePlace'
  <2>1. ASSUME NEW q \in Runners, NEW x \in queue'[q]
        PROVE  target'[x] \in Handlers /\ RunnerOf[target'[x]] = q
    <3>1. x \in Events /\ x # e
      BY <1>1, <1>4, <1>5 DEF TypeOK
    <3> QED
      BY <1>1, <1>3, <3>1 DEF SyncInv, OnePlace
  <2>2. ASSUME NEW u \in Threads, NEW i \in Nat, NEW x \in Events, Handles(u, i, x)'
        PROVE  /\ \A q \in Runners : x \notin queue'[q]
               /\ \A v \in Threads, j \in Nat : Handles(v, j, x)' => u = v /\ i = j
    BY <1>1, <1>8, <2>2 DEF SyncInv, OnePlace
  <2> QED
    BY <2>1, <2>2 DEF OnePlace
<1>10. OneSender'
  <2>1. \A x \in Events : target'[x] = None => waiter'[x] = None
    BY <1>1, <1>3, <1>4 DEF SyncInv, OneSender
  <2>2. ASSUME NEW u \in Threads, NEW x \in Events, Sends(u, x)'
        PROVE  /\ waiter'[x] # None
               /\ waiter'[x].waitingCount = IF Top(u)'.op = "asleep" THEN 1 ELSE 0
               /\ \A v \in Threads : Sends(v, x)' => u = v
               /\ Top(u)'.op = "insert" =>
                      /\ ~waiter'[x].finished
                      /\ \A r \in Runners : x \notin queue'[r]
                      /\ \A v \in Threads, i \in Nat : ~Handles(v, i, x)'
    <3>1. Sends(u, x) /\ Top(u)' = Top(u)
      BY <1>8, <2>2
    <3> QED
      BY <1>1, <1>8, <3>1 DEF SyncInv, OneSender
  <2> QED
    BY <2>1, <2>2, Zenon DEF OneSender
<1>11. SenderWaits'
  BY <1>1, <1>8 DEF SyncInv, SenderWaits
<1> QED
  BY <1>5, <1>6, <1>7, <1>9, <1>10, <1>11 DEF SyncInv

\* A send that will wait.
LEMMA InsertKeeps ==
    ASSUME SyncInv, NEW t \in Threads, NEW h \in Handlers, NEW e \in Events,
           SendSyncEvent(t, h, e), RunnerOf[h] # currentRunner[t]
    PROVE  SyncInv'
<1> DEFINE c == [op |-> "insert", event |-> e]
<1>1. /\ TypeOK /\ Free(t) /\ target[e] = None /\ Enter(t, c)
      /\ target' = [target EXCEPT ![e] = h]
      /\ waiter' = [waiter EXCEPT ![e] = NewWaiter]
      /\ UNCHANGED <<currentRunner, running, finished, queue>>
  BY DEF SyncInv, SendSyncEvent
<1>2. c \in Call /\ c.op = "insert" /\ c.event = e
  BY DEF Call
<1> HIDE DEF c
<1>3. /\ target' \in [Events -> Handlers \union {None}]
      /\ target'[e] = h
      /\ \A x \in Events : x # e => target'[x] = target[x]
      /\ \A u \in Threads : StackOK(calls[u], currentRunner[u], target')
  BY <1>1, Sending
<1>4. /\ waiter[e] = None
      /\ \A r \in Runners : e \notin queue[r]
      /\ \A u \in Threads : ~Sends(u, e)
      /\ \A u \in Threads, i \in Nat : ~Handles(u, i, e)
  BY <1>1, Unsent
<1>5. /\ waiter'[e] = NewWaiter /\ NewWaiter \in Waiter /\ NewWaiter # None
      /\ NewWaiter.waitingCount = 0 /\ ~NewWaiter.finished
      /\ \A x \in Events : x # e => waiter'[x] = waiter[x]
      /\ waiter' \in [Events -> {None} \union Waiter]
  <2>1. NewWaiter \in Waiter /\ NewWaiter.waitingCount = 0 /\ ~NewWaiter.finished
    BY DEF NewWaiter, Waiter
  <2> QED
    BY <1>1, <2>1, SyncAssumption DEF TypeOK
<1>6. TypeOK'
  BY <1>1, <1>2, <1>3, <1>5, FreeThread, CallsEntered, TypedAgain DEF TypeOK
<1>7. StacksOK'
  <2>1. calls[t] \in Seq(Call) /\ StackOK(calls[t], currentRunner[t], target')
    BY <1>1, <1>3 DEF TypeOK
  <2>2. StackOK(Append(calls[t], c), currentRunner[t], target')
    BY <1>2, <2>1, PushOK DEF CallbackOps
  <2>3. /\ calls'[t] = Append(calls[t], c)
        /\ \A u \in Threads : u # t => calls'[u] = calls[u]
    BY <1>1, <1>2, Entering
  <2>4. \A u \in Threads : StackOK(calls'[u], currentRunner'[u], target')
    BY <1>1, <1>3, <2>2, <2>3
  <2> QED
    BY <2>4, Zenon DEF StacksOK
<1>8. OneRun'
  BY <1>1, <1>2, Entering, SameRuns DEF SyncInv, RunnerOps
<1>9. /\ \A u \in Threads, i \in Nat, x \in Events : Handles(u, i, x)' => Handles(u, i, x)
      /\ \A u \in Threads : u # t => Top(u)' = Top(u)
      /\ \A u \in Threads, x \in Events : u # t => (Sends(u, x)' <=> Sends(u, x))
      /\ \A x \in Events : ~Sends(t, x) /\ (Sends(t, x)' <=> x = e)
      /\ Top(t)' = c
  <2>1. \A x \in Events : ~Sends(t, x) /\ (Sends(t, x)' <=> x = e)
    BY <1>1, <1>2, FreeThread, Entering DEF SenderOps
  <2>2. \A u \in Threads, i \in Nat, x \in Events : Handles(u, i, x)' => Handles(u, i, x)
    BY <1>1, <1>2, Entering
  <2>3. /\ \A u \in Threads : u # t => Top(u)' = Top(u)
        /\ \A u \in Threads, x \in Events : u # t => (Sends(u, x)' <=> Sends(u, x))
        /\ Top(t)' = c
    BY <1>1, <1>2, Entering
  <2> QED
    BY <2>1, <2>2, <2>3
<1>10. OnePlace'
  <2>1. ASSUME NEW q \in Runners, NEW x \in queue'[q]
        PROVE  target'[x] \in Handlers /\ RunnerOf[target'[x]] = q
    <3>1. x \in Events /\ x # e
      BY <1>1, <1>4, <1>6 DEF TypeOK
    <3> QED
      BY <1>1, <1>3, <3>1 DEF SyncInv, OnePlace
  <2>2. ASSUME NEW u \in Threads, NEW i \in Nat, NEW x \in Events, Handles(u, i, x)'
        PROVE  /\ \A q \in Runners : x \notin queue'[q]
               /\ \A v \in Threads, j \in Nat : Handles(v, j, x)' => u = v /\ i = j
    BY <1>1, <1>9, <2>2 DEF SyncInv, OnePlace
  <2> QED
    BY <2>1, <2>2 DEF OnePlace
<1>11. OneSender'
  <2>1. \A x \in Events : target'[x] = None => waiter'[x] = None
    <3>1. target'[e] # None
      BY <1>3, SyncAssumption
    <3> QED
      BY <1>3, <1>5, <3>1 DEF SyncInv, OneSender
  <2>2. ASSUME NEW u \in Threads, NEW x \in Events, Sends(u, x)'
        PROVE  /\ waiter'[x] # None
               /\ waiter'[x].waitingCount = IF Top(u)'.op = "asleep" THEN 1 ELSE 0
               /\ \A v \in Threads : Sends(v, x)' => u = v
               /\ Top(u)'.op = "insert" =>
                      /\ ~waiter'[x].finished
                      /\ \A r \in Runners : x \notin queue'[r]
                      /\ \A v \in Threads, i \in Nat : ~Handles(v, i, x)'
    <3>1. CASE u = t
      <4>1. x = e /\ Top(u)'.op = "insert"
        BY <1>2, <1>9, <2>2, <3>1
      <4>2. \A v \in Threads : Sends(v, x)' => u = v
        BY <1>4, <1>9, <3>1, <4>1
      <4> QED
        BY <1>1, <1>4, <1>5, <1>9, <4>1, <4>2
    <3>2. CASE u # t
      <4>1. Sends(u, x) /\ Top(u)' = Top(u) /\ x # e
        BY <1>4, <1>9, <2>2, <3>2
      <4>2. waiter'[x] = waiter[x] /\ \A v \in Threads : Sends(v, x)' => Sends(v, x)
        BY <1>5, <1>9, <4>1
      <4> QED
        BY <1>1, <1>9, <4>1, <4>2 DEF SyncInv, OneSender
    <3> QED
      BY <3>1, <3>2
  <2> QED
    BY <2>1, <2>2, Zenon DEF OneSender
<1>12. SenderWaits'
  <2> SUFFICES ASSUME NEW x \in Events, waiter'[x] # None,
                      \/ \E q \in Runners : x \in queue'[q]
                      \/ \E u \in Threads, i \in Nat : Handles(u, i, x)'
               PROVE  (\E u \in Threads : Sends(u, x)') /\ ~waiter'[x].finished
    BY DEF SenderWaits
  <2>1. x # e
    BY <1>1, <1>4, <1>9
  <2> QED
    BY <1>1, <1>5, <1>9, <2>1 DEF SyncInv, SenderWaits
<1> QED
  BY <1>6, <1>7, <1>8, <1>10, <1>11, <1>12 DEF SyncInv

-----------------------------------------------------------------------------
(* Events are inserted and waited for *)

LEMMA SendEventKeeps ==
    ASSUME SyncInv, NEW t \in Threads, SendEvent(t)
    PROVE  SyncInv'
<1> DEFINE e == Top(t).event
           q == RunnerOf[target[e]]
           c == [Top(t) EXCEPT !.op = "wait"]
<1>1. /\ TypeOK /\ calls[t] # <<>> /\ Top(t).op = "insert"
      /\ queue' = [queue EXCEPT ![q] = @ \union {e}]
      /\ Proceed(t, "wait")
      /\ UNCHANGED <<currentRunner, running, finished, target, waiter>>
  BY DEF SyncInv, SendEvent, In
<1>2. /\ Top(t) \in Call /\ calls[t] \in Seq(Call)
      /\ calls[t][Len(calls[t])] = Top(t)
  BY <1>1, TopTyped
<1>3. e \in Events /\ Top(t) = [op |-> "insert", event |-> e]
  BY <1>1, <1>2, CallShape DEF RunnerOps
<1>4. c \in Call /\ c.op = "wait" /\ c.event = e
  BY <1>3 DEF Call
<1>5. calls' = [calls EXCEPT ![t] = [@ EXCEPT ![Len(calls[t])] = c]]
  BY <1>1, <1>4, Proceeding
<1>6. Sends(t, e)
  BY <1>1 DEF Sends, SenderOps
<1> HIDE DEF c, e, q
<1>7. /\ waiter[e] # None /\ waiter[e].waitingCount = 0 /\ ~waiter[e].finished
      /\ \A r \in Runners : e \notin queue[r]
      /\ \A u \in Threads, i \in Nat : ~Handles(u, i, e)
      /\ \A u \in Threads : Sends(u, e) => u = t
  BY <1>1, <1>3, <1>6 DEF SyncInv, OneSender
<1>8. target[e] \in Handlers /\ q \in Runners
  <2>1. target[e] \in Handlers
    BY <1>3, <1>7 DEF SyncInv, OneSender, TypeOK
  <2> QED
    BY <2>1, SyncAssumption DEF q
<1>9. \A r \in Runners, x \in Events : x \in queue'[r] <=> x \in queue[r] \/ (x = e /\ r = q)
  BY <1>1, <1>8 DEF TypeOK
<1>10. TypeOK'
  <2>1. queue' \in [Runners -> SUBSET Events]
    BY <1>1, <1>3 DEF TypeOK
  <2>2. CallsOK'
    BY <1>1, <1>4, <1>5, CallsReplaced
  <2> QED
    BY <1>1, <2>1, <2>2, TypedAgain DEF TypeOK
<1>11. StacksOK'
  <2>1. StackOK(calls[t], currentRunner[t], target)
    BY DEF SyncInv, StacksOK
  <2>2. /\ calls'[t] = [calls[t] EXCEPT ![Len(calls[t])] = c]
        /\ \A u \in Threads : u # t => calls'[u] = calls[u]
    BY <1>1, <1>4, <1>5, Replacing
  <2>3. StackOK([calls[t] EXCEPT ![Len(calls[t])] = c], currentRunner[t], target)
    BY <1>1, <1>2, <1>4, <2>1, ReplaceOK DEF CallbackOps
  <2> QED
    BY <1>1, <2>2, <2>3, OtherStacks DEF SyncInv
<1>12. OneRun'
  BY <1>1, <1>4, <1>5, Replacing, SameRuns DEF SyncInv, RunnerOps
<1>13. /\ \A u \in Threads, i \in Nat, x \in Events : Handles(u, i, x)' => Handles(u, i, x)
       /\ \A u \in Threads : u # t => Top(u)' = Top(u)
       /\ \A u \in Threads, x \in Events : Sends(u, x)' <=> Sends(u, x)
       /\ Top(t)' = c
  <2>1. \A x \in Events : Sends(t, x) <=> x = e
    BY <1>1 DEF Sends, SenderOps, e
  <2>2. \A x \in Events : Sends(t, x)' <=> x = e
    <3>1. \A x \in Events : Sends(t, x)' <=> c.op \in SenderOps /\ c.event = x
      BY <1>1, <1>4, <1>5, Replacing
    <3> QED
      BY <1>4, <3>1 DEF SenderOps
  <2>3. \A u \in Threads, i \in Nat, x \in Events : Handles(u, i, x)' => Handles(u, i, x)
    BY <1>1, <1>4, <1>5, Replacing
  <2>4. /\ \A u \in Threads : u # t => Top(u)' = Top(u)
        /\ \A u \in Threads, x \in Events : u # t => (Sends(u, x)' <=> Sends(u, x))
        /\ Top(t)' = c
    BY <1>1, <1>4, <1>5, Replacing
  <2> QED
    BY <2>1, <2>2, <2>3, <2>4
<1>14. OnePlace'
  <2>1. ASSUME NEW r \in Runners, NEW x \in queue'[r]
        PROVE  target'[x] \in Handlers /\ RunnerOf[target'[x]] = r
    <3>1. x \in Events
      BY <1>10 DEF TypeOK
    <3>2. CASE x = e /\ r = q
      BY <1>1, <1>8, <3>2 DEF q
    <3>3. CASE x \in queue[r]
      BY <1>1, <3>3 DEF SyncInv, OnePlace
    <3> QED
      BY <1>9, <3>1, <3>2, <3>3
  <2>2. ASSUME NEW u \in Threads, NEW i \in Nat, NEW x \in Events, Handles(u, i, x)'
        PROVE  /\ \A r \in Runners : x \notin queue'[r]
               /\ \A v \in Threads, j \in Nat : Handles(v, j, x)' => u = v /\ i = j
    BY <1>7, <1>9, <1>13, <2>2 DEF SyncInv, OnePlace
  <2> QED
    BY <2>1, <2>2 DEF OnePlace
<1>15. OneSender'
  <2>1. \A x \in Events : target'[x] = None => waiter'[x] = None
    BY <1>1 DEF SyncInv, OneSender
  <2>2. ASSUME NEW u \in Threads, NEW x \in Events, Sends(u, x)'
        PROVE  /\ waiter'[x] # None
               /\ waiter'[x].waitingCount = IF Top(u)'.op = "asleep" THEN 1 ELSE 0
               /\ \A v \in Threads : Sends(v, x)' => u = v
               /\ Top(u)'.op = "insert" =>
                      /\ ~waiter'[x].finished
                      /\ \A r \in Runners : x \notin queue'[r]
                      /\ \A v \in Threads, i \in Nat : ~Handles(v, i, x)'
    <3>1. Sends(u, x) /\ \A v \in Threads : Sends(v, x)' => Sends(v, x)
      BY <1>13, <2>2
    <3>2. CASE u = t
      <4>1. x = e
        BY <1>1, <3>1, <3>2 DEF Sends, e
      <4>2. Top(u)'.op = "wait"
        BY <1>4, <1>13, <3>2
      <4> QED
        BY <1>1, <1>7, <3>1, <3>2, <4>1, <4>2
    <3>3. CASE u # t
      <4>1. Top(u)' = Top(u) /\ x # e
        BY <1>7, <1>13, <3>1, <3>3
      <4> QED
        BY <1>1, <1>9, <1>13, <3>1, <4>1 DEF SyncInv, OneSender
    <3> QED
      BY <3>2, <3>3
  <2> QED
    BY <2>1, <2>2, Zenon DEF OneSender
<1>16. SenderWaits'
  <2> SUFFICES ASSUME NEW x \in Events, waiter'[x] # None,
                      \/ \E r \in Runners : x \in queue'[r]
                      \/ \E u \in Threads, i \in Nat : Handles(u, i, x)'
               PROVE  (\E u \in Threads : Sends(u, x)') /\ ~waiter'[x].finished
    BY DEF SenderWaits
  <2>1. CASE x = e
    BY <1>1, <1>3, <1>6, <1>7, <1>13, <2>1
  <2>2. CASE x # e
    BY <1>1, <1>9, <1>13, <2>2 DEF SyncInv, SenderWaits
  <2> QED
    BY <2>1, <2>2
<1> QED
  BY <1>10, <1>11, <1>12, <1>14, <1>15, <1>16 DEF SyncInv

\* A sender goes to sleep or wakes up, w is its waiter then.
LEMMA WaitingKeeps ==
    ASSUME SyncInv, NEW t \in Threads, calls[t] # <<>>, Top(t).op \in {"wait", "asleep"},
           NEW op \in {"wait", "asleep"}, Proceed(t, op),
           NEW w \in Waiter, waiter' = [waiter EXCEPT ![Top(t).event] = w],
           w.finished = waiter[Top(t).event].finished,
           w.waitingCount = IF op = "asleep" THEN 1 ELSE 0,
           UNCHANGED <<currentRunner, running, finished, queue, target>>
    PROVE  SyncInv'
<1> DEFINE e == Top(t).event
           c == [Top(t) EXCEPT !.op = op]
<1>1. /\ TypeOK /\ calls[t] # <<>> /\ Top(t).op \in {"wait", "asleep"}
      /\ waiter' = [waiter EXCEPT ![e] = w]
      /\ w.finished = waiter[e].finished
  BY DEF SyncInv
<1>2. /\ Top(t) \in Call /\ calls[t] \in Seq(Call)
      /\ calls[t][Len(calls[t])] = Top(t)
  BY <1>1, TopTyped
<1>3. e \in Events /\ Top(t) = [op |-> Top(t).op, event |-> e]
  BY <1>1, <1>2, CallShape DEF RunnerOps
<1>4. c \in Call /\ c.op = op /\ c.event = e
  BY <1>3 DEF Call
<1>5. calls' = [calls EXCEPT ![t] = [@ EXCEPT ![Len(calls[t])] = c]]
  BY <1>1, <1>4, Proceeding
<1>6. Sends(t, e)
  BY <1>1 DEF Sends, SenderOps
<1> HIDE DEF c, e
<1>7. waiter[e] # None /\ \A u \in Threads : Sends(u, e) => u = t
  BY <1>3, <1>6 DEF SyncInv, OneSender
<1>8. /\ waiter'[e] = w /\ w # None
      /\ \A x \in Events : x # e => waiter'[x] = waiter[x]
      /\ waiter' \in [Events -> {None} \union Waiter]
  <2>1. w # None
    BY SyncAssumption
  <2>2. waiter \in [Events -> {None} \union Waiter]
    BY <1>1 DEF TypeOK
  <2> QED
    BY <1>1, <1>3, <2>1, <2>2
<1>9. TypeOK'
  <2>1. CallsOK'
    BY <1>1, <1>4, <1>5, CallsReplaced
  <2> QED
    BY <1>1, <1>8, <2>1, TypedAgain DEF TypeOK
<1>10. StacksOK'
  <2>1. StackOK(calls[t], currentRunner[t], target)
    BY DEF SyncInv, StacksOK
  <2>2. /\ calls'[t] = [calls[t] EXCEPT ![Len(calls[t])] = c]
        /\ \A u \in Threads : u # t => calls'[u] = calls[u]
    BY <1>1, <1>4, <1>5, Replacing
  <2>3. StackOK([calls[t] EXCEPT ![Len(calls[t])] = c], currentRunner[t], target)
    <3>1. c.op \notin CallbackOps /\ c.op # "loop" /\ calls[t][Len(calls[t])].op # "loop"
      BY <1>1, <1>2, <1>4 DEF CallbackOps
    <3> QED
      BY <1>1, <1>2, <1>4, <2>1, <3>1, ReplaceOK
  <2> QED
    BY <1>1, <2>2, <2>3, OtherStacks DEF SyncInv
<1>11. OneRun'
  BY <1>1, <1>4, <1>5, Replacing, SameRuns DEF SyncInv, RunnerOps
<1>12. /\ \A u \in Threads, i \in Nat, x \in Events : Handles(u, i, x)' => Handles(u, i, x)
       /\ \A u \in Threads : u # t => Top(u)' = Top(u)
       /\ \A u \in Threads, x \in Events : Sends(u, x)' <=> Sends(u, x)
       /\ Top(t)' = c
  <2>1. \A x \in Events : Sends(t, x) <=> x = e
    BY <1>1 DEF Sends, SenderOps, e
  <2>2. \A x \in Events : Sends(t, x)' <=> x = e
    <3>1. c.op \in SenderOps
      BY <1>4 DEF SenderOps
    <3>2. \A x \in Events : Sends(t, x)' <=> c.op \in SenderOps /\ c.event = x
      BY <1>1, <1>4, <1>5, Replacing
    <3> QED
      BY <1>4, <3>1, <3>2
  <2>3. \A u \in Threads, i \in Nat, x \in Events : Handles(u, i, x)' => Handles(u, i, x)
    BY <1>1, <1>4, <1>5, Replacing
  <2>4. /\ \A u \in Threads : u # t => Top(u)' = Top(u)
        /\ \A u \in Threads, x \in Events : u # t => (Sends(u, x)' <=> Sends(u, x))
        /\ Top(t)' = c
    BY <1>1, <1>4, <1>5, Replacing
  <2> QED
    BY <2>1, <2>2, <2>3, <2>4
<1>13. OnePlace'
  BY <1>12 DEF SyncInv, OnePlace
<1>14. OneSender'
  <2>1. \A x \in Events : target'[x] = None => waiter'[x] = None
    BY <1>7, <1>8 DEF SyncInv, OneSender
  <2>2. ASSUME NEW u \in Threads, NEW x \in Events, Sends(u, x)'
        PROVE  /\ waiter'[x] # None
               /\ waiter'[x].waitingCount = IF Top(u)'.op = "asleep" THEN 1 ELSE 0
               /\ \A v \in Threads : Sends(v, x)' => u = v
               /\ Top(u)'.op = "insert" =>
                      /\ ~waiter'[x].finished
                      /\ \A r \in Runners : x \notin queue'[r]
                      /\ \A v \in Threads, i \in Nat : ~Handles(v, i, x)'
    <3>1. Sends(u, x) /\ \A v \in Threads : Sends(v, x)' => Sends(v, x)
      BY <1>12, <2>2
    <3>2. CASE u = t
      <4>1. x = e
        BY <1>1, <3>1, <3>2 DEF Sends, e
      <4>2. Top(u)'.op = op
        BY <1>4, <1>12, <3>2
      <4> QED
        BY <1>7, <1>8, <3>1, <3>2, <4>1, <4>2
    <3>3. CASE u # t
      <4>1. Top(u)' = Top(u) /\ x # e
        BY <1>7, <1>12, <3>1, <3>3
      <4> QED
        BY <1>1, <1>8, <1>12, <3>1, <4>1 DEF SyncInv, OneSender
    <3> QED
      BY <3>2, <3>3
  <2> QED
    BY <2>1, <2>2, Zenon DEF OneSender
<1>15. SenderWaits'
  <2> SUFFICES ASSUME NEW x \in Events, waiter'[x] # None,
                      \/ \E r \in Runners : x \in queue'[r]
                      \/ \E u \in Threads, i \in Nat : Handles(u, i, x)'
               PROVE  (\E u \in Threads : Sends(u, x)') /\ ~waiter'[x].finished
    BY DEF SenderWaits
  <2>1. (\E u \in Threads : Sends(u, x)) /\ ~waiter[x].finished
    <3>1. waiter[x] # None
      BY <1>7, <1>8
    <3> QED
      BY <1>1, <1>12, <3>1 DEF SyncInv, SenderWaits
  <2>2. waiter'[x].finished = waiter[x].finished
    BY <1>1, <1>8
  <2> QED
    BY <1>12, <2>1, <2>2
<1> QED
  BY <1>9, <1>10, <1>11, <1>13, <1>14, <1>15 DEF SyncInv

\* The waiter of a sender.
LEMMA WaiterShape ==
    ASSUME SyncInv, NEW t \in Threads, calls[t] # <<>>, Top(t).op \in {"wait", "asleep"}
    PROVE  /\ Top(t).event \in Events
           /\ LET w == waiter[Top(t).event] IN
              /\ w \in Waiter
              /\ w = [finished |-> w.finished, waitingCount |-> w.waitingCount, woken |-> w.woken]
              /\ w.finished \in BOOLEAN /\ w.woken \in BOOLEAN
              /\ w.waitingCount = IF Top(t).op = "asleep" THEN 1 ELSE 0
<1> DEFINE e == Top(t).event
<1>1. Top(t) \in Call
  BY TopTyped DEF SyncInv
<1>2. e \in Events
  BY <1>1, CallShape DEF RunnerOps
<1>3. Sends(t, e)
  BY DEF Sends, SenderOps
<1> HIDE DEF e
<1>4. waiter[e] # None /\ waiter[e].waitingCount = IF Top(t).op = "asleep" THEN 1 ELSE 0
  BY <1>2, <1>3 DEF SyncInv, OneSender
<1>5. waiter[e] \in Waiter
  BY <1>2, <1>4 DEF SyncInv, TypeOK
<1>6. /\ waiter[e] = [finished |-> waiter[e].finished, waitingCount |-> waiter[e].waitingCount,
                      woken |-> waiter[e].woken]
      /\ waiter[e].finished \in BOOLEAN /\ waiter[e].woken \in BOOLEAN
  BY <1>5 DEF Waiter
<1> QED
  BY <1>2, <1>4, <1>5, <1>6 DEF e

LEMMA WakeUpKeeps ==
    ASSUME SyncInv, NEW t \in Threads, WakeUp(t)
    PROVE  SyncInv'
<1> DEFINE o == waiter[Top(t).event]
           w == [o EXCEPT !.waitingCount = o.waitingCount - 1, !.woken = FALSE]
<1>1. /\ calls[t] # <<>> /\ Top(t).op = "asleep" /\ Proceed(t, "wait")
      /\ waiter' = [waiter EXCEPT ![Top(t).event].waitingCount = @ - 1,
                                  ![Top(t).event].woken = FALSE]
      /\ UNCHANGED <<currentRunner, running, finished, queue, target>>
  BY DEF WakeUp, In
<1>2. /\ Top(t).event \in Events
      /\ o = [finished |-> o.finished, waitingCount |-> o.waitingCount, woken |-> o.woken]
      /\ o.finished \in BOOLEAN /\ o.woken \in BOOLEAN /\ o.waitingCount = 1
  BY <1>1, WaiterShape
<1>3. waiter' = [waiter EXCEPT ![Top(t).event] = w]
  BY <1>1, <1>2 DEF SyncInv, TypeOK
<1>4. w \in Waiter /\ w.finished = o.finished /\ w.waitingCount = 0
  <2> HIDE DEF o
  <2>1. o.waitingCount - 1 = 0
    BY <1>2
  <2> DEFINE v == [o EXCEPT !.waitingCount = 0]
  <2>2. w = [v EXCEPT !.woken = FALSE]
    BY <1>2, <2>1
  <2>3. v \in Waiter /\ v.finished = o.finished /\ v.waitingCount = 0
    BY <1>2 DEF Waiter
  <2> HIDE DEF v
  <2> QED
    BY <2>2, <2>3 DEF Waiter
<1> HIDE DEF w
<1> QED
  BY <1>1, <1>3, <1>4, WaitingKeeps

LEMMA FallAsleepKeeps ==
    ASSUME SyncInv, NEW t \in Threads, Wait(t), ~waiter[Top(t).event].finished
    PROVE  SyncInv'
<1> DEFINE o == waiter[Top(t).event]
           w == [o EXCEPT !.waitingCount = o.waitingCount + 1]
<1>1. /\ calls[t] # <<>> /\ Top(t).op = "wait" /\ Proceed(t, "asleep")
      /\ waiter' = [waiter EXCEPT ![Top(t).event].waitingCount = @ + 1]
      /\ UNCHANGED <<currentRunner, running, finished, queue, target>>
  BY DEF Wait, In
<1>2. /\ Top(t).event \in Events
      /\ o = [finished |-> o.finished, waitingCount |-> o.waitingCount, woken |-> o.woken]
      /\ o.finished \in BOOLEAN /\ o.woken \in BOOLEAN /\ o.waitingCount = 0
  BY <1>1, WaiterShape
<1>3. waiter' = [waiter EXCEPT ![Top(t).event] = w]
  BY <1>1, <1>2 DEF SyncInv, TypeOK
<1>4. w \in Waiter /\ w.finished = o.finished /\ w.waitingCount = 1
  BY <1>2 DEF Waiter
<1> HIDE DEF w
<1> QED
  BY <1>1, <1>3, <1>4, WaitingKeeps

\* SendSyncEvent returns.
LEMMA ReturnFromWaitKeeps ==
    ASSUME SyncInv, NEW t \in Threads, Wait(t), waiter[Top(t).event].finished
    PROVE  SyncInv'
<1> DEFINE e == Top(t).event
<1>1. /\ TypeOK /\ calls[t] # <<>> /\ Top(t).op = "wait" /\ Return(t)
      /\ UNCHANGED <<currentRunner, running, finished, queue, target, waiter>>
  BY DEF SyncInv, Wait, In
<1>2. calls[t] \in Seq(Call) /\ calls[t][Len(calls[t])] = Top(t)
  BY <1>1, TopTyped
<1>3. e \in Events
  BY <1>1, WaiterShape
<1>4. Sends(t, e)
  BY <1>1 DEF Sends, SenderOps
<1>5. waiter[e] # None /\ waiter[e].finished
  BY <1>3, <1>4 DEF SyncInv, OneSender
<1>6. \A x \in Events : Sends(t, x) => x = e
  BY DEF Sends
<1> HIDE DEF e
<1>7. /\ \A r \in Runners : e \notin queue[r]
      /\ \A u \in Threads, i \in Nat : ~Handles(u, i, e)
  BY <1>3, <1>5 DEF SyncInv, SenderWaits
<1>8. TypeOK'
  <2>1. CallsOK'
    BY <1>1, CallsReturned
  <2> QED
    BY <1>1, <2>1, TypedAgain DEF TypeOK
<1>9. StacksOK'
  <2>1. StackOK(calls[t], currentRunner[t], target)
    BY DEF SyncInv, StacksOK
  <2>2. /\ calls'[t] = SubSeq(calls[t], 1, Len(calls[t]) - 1)
        /\ \A u \in Threads : u # t => calls'[u] = calls[u]
    BY <1>1, Returning
  <2>3. StackOK(SubSeq(calls[t], 1, Len(calls[t]) - 1), currentRunner[t], target)
    BY <1>1, <1>2, <2>1, PopOK
  <2> QED
    BY <1>1, <2>2, <2>3, OtherStacks DEF SyncInv
<1>10. OneRun'
  BY <1>1, Returning, SameRuns DEF SyncInv
<1>11. /\ \A u \in Threads, i \in Nat, x \in Events : Handles(u, i, x)' => Handles(u, i, x)
       /\ \A u \in Threads : u # t => Top(u)' = Top(u)
       /\ \A u \in Threads, x \in Events : u # t => (Sends(u, x)' <=> Sends(u, x))
       /\ \A x \in Events : ~Sends(t, x)'
  BY <1>1, Returning
<1>12. OnePlace'
  BY <1>1, <1>11 DEF SyncInv, OnePlace
<1>13. OneSender'
  <2>1. \A x \in Events : target'[x] = None => waiter'[x] = None
    BY <1>1 DEF SyncInv, OneSender
  <2>2. ASSUME NEW u \in Threads, NEW x \in Events, Sends(u, x)'
        PROVE  /\ waiter'[x] # None
               /\ waiter'[x].waitingCount = IF Top(u)'.op = "asleep" THEN 1 ELSE 0
               /\ \A v \in Threads : Sends(v, x)' => u = v
               /\ Top(u)'.op = "insert" =>
                      /\ ~waiter'[x].finished
                      /\ \A r \in Runners : x \notin queue'[r]
                      /\ \A v \in Threads, i \in Nat : ~Handles(v, i, x)'
    <3>1. Sends(u, x) /\ Top(u)' = Top(u) /\ \A v \in Threads : Sends(v, x)' => Sends(v, x)
      BY <1>11, <2>2
    <3> QED
      BY <1>1, <1>11, <3>1 DEF SyncInv, OneSender
  <2> QED
    BY <2>1, <2>2, Zenon DEF OneSender
<1>14. SenderWaits'
  <2> SUFFICES ASSUME NEW x \in Events, waiter'[x] # None,
                      \/ \E r \in Runners : x \in queue'[r]
                      \/ \E u \in Threads, i \in Nat : Handles(u, i, x)'
               PROVE  (\E u \in Threads : Sends(u, x)') /\ ~waiter'[x].finished
    BY DEF SenderWaits
  <2>1. x # e
    BY <1>1, <1>7, <1>11
  <2>2. (\E u \in Threads : Sends(u, x)) /\ ~waiter[x].finished
    BY <1>1, <1>11 DEF SyncInv, SenderWaits
  <2> QED
    BY <1>1, <1>6, <1>11, <2>1, <2>2
<1> QED
  BY <1>8, <1>9, <1>10, <1>12, <1>13, <1>14 DEF SyncInv

-----------------------------------------------------------------------------
(* Events are handled *)

LEMMA TakeEventKeeps ==
    ASSUME SyncInv, NEW t \in Threads, NEW e \in Events, TakeEvent(t, e)
    PROVE  SyncInv'
<1> DEFINE r == Top(t).runner
           n == Len(calls[t])
           c == [op |-> "callback", event |-> e]
<1>1. /\ TypeOK /\ calls[t] # <<>> /\ Top(t).op = "loop" /\ e \in queue[r]
      /\ queue' = [queue EXCEPT ![r] = @ \ {e}]
      /\ Enter(t, c)
      /\ UNCHANGED <<currentRunner, running, finished, target, waiter>>
  BY DEF SyncInv, TakeEvent, In
<1>2. /\ Top(t) \in Call /\ calls[t] \in Seq(Call) /\ n \in Nat \ {0}
      /\ calls[t][n] = Top(t)
  BY <1>1, TopTyped
<1>3. r \in Runners
  BY <1>1, <1>2, CallShape DEF RunnerOps, CallbackOps, SenderOps
<1>4. c \in Call /\ c.op = "callback" /\ c.event = e
  BY DEF Call
<1> HIDE DEF c, n, r
<1>5. /\ target[e] \in Handlers /\ RunnerOf[target[e]] = r
      /\ \A u \in Threads, i \in Nat : ~Handles(u, i, e)
  BY <1>1, <1>3 DEF SyncInv, OnePlace
<1>6. \A q \in Runners, x \in Events : x \in queue'[q] <=> x \in queue[q] /\ x # e
  <2>1. ASSUME NEW q \in Runners, e \in queue[q] PROVE q = r
    BY <1>5, <2>1 DEF SyncInv, OnePlace
  <2> QED
    BY <1>1, <1>3, <2>1 DEF TypeOK
<1>7. TypeOK'
  <2>1. MayCall(calls[t])
    BY <1>1, <1>2 DEF MayCall, n
  <2>2. CallsOK'
    BY <1>1, <1>4, <2>1, CallsEntered
  <2>3. queue' \in [Runners -> SUBSET Events]
    BY <1>1 DEF TypeOK
  <2> QED
    BY <1>1, <2>2, <2>3, TypedAgain DEF TypeOK
<1>8. StacksOK'
  <2>1. StackOK(calls[t], currentRunner[t], target)
    BY DEF SyncInv, StacksOK
  <2>2. IsCurrent(calls[t], n + 1, currentRunner[t])
    BY <2>1 DEF StackOK, n
  <2>3. IsCurrent(calls[t], n + 1, r)
    BY <1>1, <1>2, CurrentLoop DEF r
  <2>4. currentRunner[t] = r
    <3>1. n + 1 \in Nat
      BY <1>2
    <3> QED
      BY <1>3, <2>2, <2>3, <3>1, CurrentUnique
  <2>5. StackOK(Append(calls[t], c), currentRunner[t], target)
    BY <1>2, <1>4, <1>5, <2>1, <2>4, PushOK
  <2>6. /\ calls'[t] = Append(calls[t], c)
        /\ \A u \in Threads : u # t => calls'[u] = calls[u]
    BY <1>1, <1>4, Entering
  <2> QED
    BY <1>1, <2>5, <2>6, OtherStacks DEF SyncInv
<1>9. OneRun'
  BY <1>1, <1>4, Entering, SameRuns DEF SyncInv, RunnerOps
<1>10. \A u \in Threads, i \in Nat, x \in Events : Handles(u, i, x)' =>
           \/ Handles(u, i, x) /\ x # e
           \/ u = t /\ i = Len(calls[t]) + 1 /\ x = e
  <2>1. \A u \in Threads, i \in Nat, x \in Events : Handles(u, i, x)' =>
            \/ Handles(u, i, x)
            \/ u = t /\ i = Len(calls[t]) + 1 /\ c.op = "callback" /\ c.event = x
    BY <1>1, <1>4, Entering
  <2> QED
    BY <1>4, <1>5, <2>1
<1>11. /\ \A u \in Threads, x \in Events : Sends(u, x)' <=> Sends(u, x)
       /\ \A u \in Threads, x \in Events : Sends(u, x)' => Top(u)' = Top(u)
  <2>1. \A x \in Events : ~Sends(t, x) /\ ~Sends(t, x)'
    <3>1. \A x \in Events : Sends(t, x)' <=> c.op \in SenderOps /\ c.event = x
      BY <1>1, <1>4, Entering
    <3> QED
      BY <1>1, <1>4, <3>1 DEF Sends, SenderOps
  <2>2. /\ \A u \in Threads : u # t => Top(u)' = Top(u)
        /\ \A u \in Threads, x \in Events : u # t => (Sends(u, x)' <=> Sends(u, x))
    BY <1>1, <1>4, Entering
  <2> QED
    BY <2>1, <2>2
<1>12. OnePlace'
  <2>1. ASSUME NEW q \in Runners, NEW x \in queue'[q]
        PROVE  target'[x] \in Handlers /\ RunnerOf[target'[x]] = q
    <3>1. x \in Events
      BY <1>7 DEF TypeOK
    <3> QED
      BY <1>1, <1>6, <3>1 DEF SyncInv, OnePlace
  <2>2. ASSUME NEW u \in Threads, NEW i \in Nat, NEW x \in Events, Handles(u, i, x)'
        PROVE  /\ \A q \in Runners : x \notin queue'[q]
               /\ \A v \in Threads, j \in Nat : Handles(v, j, x)' => u = v /\ i = j
    <3>1. CASE x = e
      BY <1>6, <1>10, <2>2, <3>1
    <3>2. CASE x # e
      BY <1>6, <1>10, <2>2, <3>2 DEF SyncInv, OnePlace
    <3> QED
      BY <3>1, <3>2
  <2> QED
    BY <2>1, <2>2 DEF OnePlace
<1>13. OneSender'
  <2>1. \A x \in Events : target'[x] = None => waiter'[x] = None
    BY <1>1 DEF SyncInv, OneSender
  <2>2. ASSUME NEW u \in Threads, NEW x \in Events, Sends(u, x)'
        PROVE  /\ waiter'[x] # None
               /\ waiter'[x].waitingCount = IF Top(u)'.op = "asleep" THEN 1 ELSE 0
               /\ \A v \in Threads : Sends(v, x)' => u = v
    BY <1>1, <1>11, <2>2 DEF SyncInv, OneSender
  <2>3. ASSUME NEW u \in Threads, NEW x \in Events, Sends(u, x)', Top(u)'.op = "insert"
        PROVE  /\ ~waiter'[x].finished
               /\ \A q \in Runners : x \notin queue'[q]
               /\ \A v \in Threads, i \in Nat : ~Handles(v, i, x)'
    <3>1. Sends(u, x) /\ Top(u).op = "insert"
      BY <1>11, <2>3
    <3>2. x # e
      BY <1>1, <1>3, <3>1 DEF SyncInv, OneSender
    <3> QED
      BY <1>1, <1>6, <1>10, <3>1, <3>2 DEF SyncInv, OneSender
  <2> QED
    BY <2>1, <2>2, <2>3, Zenon DEF OneSender
<1>14. SenderWaits'
  <2> SUFFICES ASSUME NEW x \in Events, waiter'[x] # None,
                      \/ \E q \in Runners : x \in queue'[q]
                      \/ \E u \in Threads, i \in Nat : Handles(u, i, x)'
               PROVE  (\E u \in Threads : Sends(u, x)') /\ ~waiter'[x].finished
    BY DEF SenderWaits
  <2>1. \/ \E q \in Runners : x \in queue[q]
        \/ \E u \in Threads, i \in Nat : Handles(u, i, x)
    BY <1>1, <1>3, <1>6, <1>10
  <2> QED
    BY <1>1, <1>11, <2>1 DEF SyncInv, SenderWaits
<1> QED
  BY <1>7, <1>8, <1>9, <1>12, <1>13, <1>14 DEF SyncInv

LEMMA EndCallbackKeeps ==
    ASSUME SyncInv, NEW t \in Threads, EndCallback(t)
    PROVE  SyncInv'
<1> DEFINE e == Top(t).event
           n == Len(calls[t])
<1>1. /\ TypeOK /\ calls[t] # <<>> /\ Top(t).op \in CallbackOps
      /\ Return(t)
      /\ UNCHANGED <<currentRunner, running, finished, queue, target>>
      /\ Top(t).op = "callback" => waiter' = [waiter EXCEPT ![e] = Notified(@)]
      /\ Top(t).op # "callback" => waiter' = waiter
  BY DEF SyncInv, EndCallback, InCallback, In, CallbackOps
<1>2. /\ Top(t) \in Call /\ calls[t] \in Seq(Call) /\ n \in Nat \ {0}
      /\ calls[t][n] = Top(t)
  BY <1>1, TopTyped
<1>3. e \in Events /\ Top(t) = [op |-> Top(t).op, event |-> e]
  BY <1>1, <1>2, CallShape DEF RunnerOps, CallbackOps
<1>4. Top(t).op = "callback" => Handles(t, n, e)
  BY <1>2, <1>3 DEF Handles
<1> HIDE DEF e, n
<1>5. ASSUME NEW x \in Events
      PROVE  /\ waiter'[x] \in {None} \union Waiter
             /\ waiter'[x] = None <=> waiter[x] = None
             /\ waiter[x] # None => waiter'[x].waitingCount = waiter[x].waitingCount
             /\ x # e \/ Top(t).op # "callback" => waiter'[x] = waiter[x]
  <2>1. waiter \in [Events -> {None} \union Waiter] /\ waiter[x] \in {None} \union Waiter
    BY <1>1 DEF TypeOK
  <2>2. \/ waiter'[x] = waiter[x]
        \/ waiter'[x] = Notified(waiter[x]) /\ x = e /\ Top(t).op = "callback"
    BY <1>1, <1>3, <2>1
  <2> QED
    BY <2>1, <2>2, NotifiedWaiter
<1>6. TypeOK'
  <2>1. CallsOK'
    BY <1>1, CallsReturned
  <2>2. waiter' \in [Events -> {None} \union Waiter]
    <3>1. waiter' = [x \in Events |-> waiter'[x]]
      BY <1>1 DEF TypeOK
    <3> QED
      BY <1>5, <3>1
  <2> QED
    BY <1>1, <2>1, <2>2, TypedAgain DEF TypeOK
<1>7. StacksOK'
  <2>1. StackOK(calls[t], currentRunner[t], target)
    BY DEF SyncInv, StacksOK
  <2>2. /\ calls'[t] = SubSeq(calls[t], 1, Len(calls[t]) - 1)
        /\ \A u \in Threads : u # t => calls'[u] = calls[u]
    BY <1>1, Returning
  <2>3. StackOK(SubSeq(calls[t], 1, Len(calls[t]) - 1), currentRunner[t], target)
    BY <1>1, <1>2, <2>1, PopOK DEF CallbackOps, n
  <2> QED
    BY <1>1, <2>2, <2>3, OtherStacks DEF SyncInv
<1>8. OneRun'
  BY <1>1, Returning, SameRuns DEF SyncInv
<1>9. \A u \in Threads, i \in Nat, x \in Events : Handles(u, i, x)' =>
          Handles(u, i, x) /\ ~(u = t /\ i = n)
  BY <1>1, Returning DEF n
<1>10. /\ \A u \in Threads, x \in Events : Sends(u, x)' <=> Sends(u, x)
       /\ \A u \in Threads, x \in Events : Sends(u, x)' => Top(u)' = Top(u)
  <2>1. \A x \in Events : ~Sends(t, x) /\ ~Sends(t, x)'
    BY <1>1, Returning DEF Sends, SenderOps, CallbackOps
  <2>2. /\ \A u \in Threads : u # t => Top(u)' = Top(u)
        /\ \A u \in Threads, x \in Events : u # t => (Sends(u, x)' <=> Sends(u, x))
    BY <1>1, Returning
  <2> QED
    BY <2>1, <2>2
<1>11. OnePlace'
  BY <1>1, <1>9 DEF SyncInv, OnePlace
<1>12. OneSender'
  <2>1. \A x \in Events : target'[x] = None => waiter'[x] = None
    BY <1>1, <1>5 DEF SyncInv, OneSender
  <2>2. ASSUME NEW u \in Threads, NEW x \in Events, Sends(u, x)'
        PROVE  /\ waiter'[x] # None
               /\ waiter'[x].waitingCount = IF Top(u)'.op = "asleep" THEN 1 ELSE 0
               /\ \A v \in Threads : Sends(v, x)' => u = v
    <3>1. Sends(u, x) /\ Top(u)' = Top(u)
      BY <1>10, <2>2
    <3> QED
      BY <1>5, <1>10, <3>1 DEF SyncInv, OneSender
  <2>3. ASSUME NEW u \in Threads, NEW x \in Events, Sends(u, x)', Top(u)'.op = "insert"
        PROVE  /\ ~waiter'[x].finished
               /\ \A q \in Runners : x \notin queue'[q]
               /\ \A v \in Threads, i \in Nat : ~Handles(v, i, x)'
    <3>1. Sends(u, x) /\ Top(u).op = "insert"
      BY <1>10, <2>3
    <3>2. x # e \/ Top(t).op # "callback"
      BY <1>2, <1>4, <3>1 DEF SyncInv, OneSender
    <3> QED
      BY <1>1, <1>5, <1>9, <3>1, <3>2 DEF SyncInv, OneSender
  <2> QED
    BY <2>1, <2>2, <2>3, Zenon DEF OneSender
<1>13. SenderWaits'
  <2> SUFFICES ASSUME NEW x \in Events, waiter'[x] # None,
                      \/ \E q \in Runners : x \in queue'[q]
                      \/ \E u \in Threads, i \in Nat : Handles(u, i, x)'
               PROVE  (\E u \in Threads : Sends(u, x)') /\ ~waiter'[x].finished
    BY DEF SenderWaits
  <2>1. \/ \E q \in Runners : x \in queue[q]
        \/ \E u \in Threads, i \in Nat : Handles(u, i, x)
    BY <1>1, <1>9
  <2>2. x # e \/ Top(t).op # "callback"
    <3> SUFFICES ASSUME Handles(t, n, e) PROVE x # e
      BY <1>4
    <3>1. /\ \A q \in Runners : e \notin queue[q]
          /\ \A u \in Threads, i \in Nat : Handles(u, i, e) => u = t /\ i = n
      BY <1>2, <1>3 DEF SyncInv, OnePlace
    <3> QED
      BY <1>1, <1>9, <3>1
  <2>3. waiter'[x] = waiter[x]
    BY <1>5, <2>2
  <2> QED
    BY <1>10, <2>1, <2>3 DEF SyncInv, SenderWaits
<1> QED
  BY <1>6, <1>7, <1>8, <1>11, <1>12, <1>13 DEF SyncInv

-----------------------------------------------------------------------------
(* The invariant holds always *)

LEMMA NextSyncInv == SyncInv /\ [Next]_vars => SyncInv'
<1> SUFFICES ASSUME SyncInv, [Next]_vars PROVE SyncInv'
  OBVIOUS
<1>1. ASSUME NEW t \in Threads, Step(t) PROVE SyncInv'
  <2>1. CASE Prepare(t)
    BY <2>1, PrepareKeeps
  <2>2. CASE LeaveLoop(t)
    BY <2>2, LeaveLoopKeeps
  <2>3. CASE ReturnFromRun(t)
    BY <2>3, ReturnFromRunKeeps
  <2>4. CASE \E e \in Events : TakeEvent(t, e)
    BY <2>4, TakeEventKeeps
  <2>5. CASE SendEvent(t)
    BY <2>5, SendEventKeeps
  <2>6. CASE Wait(t)
    BY <2>6, FallAsleepKeeps, ReturnFromWaitKeeps
  <2>7. CASE WakeUp(t)
    BY <2>7, WakeUpKeeps
  <2>8. CASE EndCallback(t)
    BY <2>8, EndCallbackKeeps
  <2> QED
    BY <1>1, <2>1, <2>2, <2>3, <2>4, <2>5, <2>6, <2>7, <2>8 DEF Step
<1>2. ASSUME NEW t \in Threads, NEW r \in Runners, Run(t, r) PROVE SyncInv'
  BY <1>2, RunKeeps
<1>3. ASSUME NEW t \in Threads, NEW h \in Handlers, NEW e \in Events, SendSyncEvent(t, h, e)
      PROVE  SyncInv'
  BY <1>3, InPlaceKeeps, InsertKeeps
<1>4. ASSUME NEW r \in Runners, Stop(r) PROVE SyncInv'
  BY <1>4, StopKeeps
<1>5. ASSUME NEW h \in Handlers, NEW e \in Events, PostEvent(h, e) PROVE SyncInv'
  BY <1>5, PostEventKeeps
<1>6. ASSUME NEW h \in Handlers, NEW events \in SUBSET Events, RemoveEvent(h, events)
      PROVE  SyncInv'
  BY <1>6, RemoveEventKeeps
<1>7. ASSUME UNCHANGED vars PROVE SyncInv'
  <2>1. calls' = calls
    BY <1>7 DEF vars
  <2>2. TypeOK' /\ StacksOK'
    BY <1>7 DEF vars, SyncInv, TypeOK, StacksOK
  <2>3. OneRun'
    BY <1>7, <2>1, SameCalls, SameRuns DEF vars, SyncInv
  <2>4. OnePlace' /\ OneSender' /\ SenderWaits'
    BY <1>7, <2>1, SameCalls, SameEvents DEF vars, SyncInv
  <2> QED
    BY <2>2, <2>3, <2>4 DEF SyncInv
<1> QED
  BY <1>1, <1>2, <1>3, <1>4, <1>5, <1>6, <1>7 DEF Next

THEOREM SyncInvariant == Spec => []SyncInv
<1> QED
  BY InitSyncInv, NextSyncInv, PTL DEF Spec

-----------------------------------------------------------------------------
(* What follows from it *)

\* Calls are of their types, a thread waits in its innermost call only, and a waiter counts it at
\* most once, whatever the threads and the depth of their calls.
THEOREM SyncTypes == Spec => []TypeOK
<1>1. SyncInv => TypeOK
  BY DEF SyncInv
<1> QED
  BY <1>1, SyncInvariant, PTL

\* A callback of a handler runs directly in the loop of the handler's runner, from the queue or
\* in place.
THEOREM CallbacksRunInTheirLoop == Spec => []HandledInItsLoop
<1>1. SyncInv => HandledInItsLoop
  <2> SUFFICES ASSUME SyncInv, NEW t \in Threads, NEW h \in Handlers, NEW i \in 1 .. Len(calls[t]),
                      IsCallback(t, i, h)
               PROVE  \E j \in 1 .. i - 1 :
                          /\ IsLoop(t, j, RunnerOf[h])
                          /\ \A k \in j + 1 .. i - 1 : calls[t][k].op # "loop"
    BY DEF HandledInItsLoop
  <2>1. calls[t][i].op \in CallbackOps /\ target[calls[t][i].event] = h
    BY DEF IsCallback, CallbackOps
  <2>2. StackOK(calls[t], currentRunner[t], target)
    BY DEF SyncInv, StacksOK
  <2>3. IsCurrent(calls[t], i, RunnerOf[h])
    BY <2>1, <2>2 DEF StackOK
  <2>4. RunnerOf[h] # None
    BY SyncAssumption
  <2> QED
    BY <2>3, <2>4 DEF IsCurrent, IsLoop
<1> QED
  BY <1>1, SyncInvariant, PTL

\* Callbacks of one runner never run in two threads: a runner has one run at a time, and its
\* callbacks are in it.
THEOREM CallbacksNeverRunInParallel == Spec => []CallbacksAreSerial
<1>1. SyncInv => CallbacksAreSerial
  <2> SUFFICES ASSUME SyncInv,
                      NEW t \in Threads, NEW u \in Threads, NEW g \in Handlers, NEW h \in Handlers,
                      NEW i \in 1 .. Len(calls[t]), NEW j \in 1 .. Len(calls[u]),
                      IsCallback(t, i, g), IsCallback(u, j, h), RunnerOf[g] = RunnerOf[h]
               PROVE  t = u
    BY DEF CallbacksAreSerial
  <2>1. ASSUME NEW v \in Threads, NEW f \in Handlers, NEW k \in 1 .. Len(calls[v]), IsCallback(v, k, f)
        PROVE  \E l \in Nat : RunBy(v, l, RunnerOf[f])
    <3>1. calls[v][k].op \in CallbackOps /\ target[calls[v][k].event] = f
      BY <2>1 DEF IsCallback, CallbackOps
    <3>2. StackOK(calls[v], currentRunner[v], target) /\ calls[v] \in Seq(Call)
      BY DEF SyncInv, StacksOK, TypeOK
    <3>3. IsCurrent(calls[v], k, RunnerOf[f])
      BY <3>1, <3>2 DEF StackOK
    <3>4. RunnerOf[f] # None
      BY SyncAssumption
    <3>5. PICK l \in 1 .. k - 1 : calls[v][l].op = "loop" /\ calls[v][l].runner = RunnerOf[f]
      BY <3>3, <3>4 DEF IsCurrent
    <3>6. l \in 1 .. Len(calls[v]) /\ l \in Nat
      BY <3>2
    <3> QED
      BY <3>5, <3>6 DEF RunBy, RunnerOps
  <2>2. PICK l \in Nat : RunBy(t, l, RunnerOf[g])
    BY <2>1
  <2>3. PICK m \in Nat : RunBy(u, m, RunnerOf[g])
    BY <2>1
  <2>4. RunnerOf[g] \in Runners
    BY SyncAssumption
  <2> QED
    BY <2>2, <2>3, <2>4 DEF SyncInv, OneRun
<1> QED
  BY <1>1, SyncInvariant, PTL

\* Nobody returns from SendSyncEvent, and nobody is notified, while the event is queued or handled.
THEOREM SendersWaitForTheHandling == Spec => []ReturnsAfterHandling
<1>1. SyncInv => ReturnsAfterHandling
  <2> SUFFICES ASSUME SyncInv, NEW e \in Events, waiter[e] # None,
                      \/ \E r \in Runners : e \in queue[r]
                      \/ \E t \in Threads : \E i \in 1 .. Len(calls[t]) :
                             calls[t][i] = [op |-> "callback", event |-> e]
               PROVE  HasSender(e) /\ ~waiter[e].finished
    BY DEF ReturnsAfterHandling
  <2>1. \/ \E r \in Runners : e \in queue[r]
        \/ \E t \in Threads, i \in Nat : Handles(t, i, e)
    BY DEF Handles
  <2>2. (\E t \in Threads : Sends(t, e)) /\ ~waiter[e].finished
    BY <2>1 DEF SyncInv, SenderWaits
  <2> QED
    BY <2>2 DEF HasSender, Sends, SenderOps
<1> QED
  BY <1>1, SyncInvariant, PTL

-----------------------------------------------------------------------------
(* SyncEvent implements EventDispatch *)

\* The entries of the events A, whose owners are given by D.
LEMMA EntriesAre ==
    ASSUME NEW D, NEW A, NEW B
    PROVE  /\ Entries(D, A \ B) = Entries(D, A) \ Entries(D, B)
           /\ A \subseteq B => Entries(D, A) \subseteq Entries(D, B)
  BY DEF Entries

LEMMA EntriesBut ==
    ASSUME NEW D, NEW A, NEW e
    PROVE  Entries(D, A \ {e}) = Entries(D, A) \ {[event |-> e, owner |-> D[e]]}
  BY DEF Entries

LEMMA EntriesAnd ==
    ASSUME NEW D, NEW A, NEW e
    PROVE  Entries(D, A \union {e}) = Entries(D, A) \union {[event |-> e, owner |-> D[e]]}
  BY DEF Entries

LEMMA EntriesKept ==
    ASSUME NEW D, NEW E, NEW A, \A e \in A : E[e] = D[e]
    PROVE  Entries(E, A) = Entries(D, A)
  BY DEF Entries

\* Calls that stay where they are.
LEMMA HandledStill ==
    ASSUME NEW t \in Threads, NEW m \in Nat, m <= Len(calls'[t]), Len(calls'[t]) \in Nat,
           \A u \in Threads : u # t => calls'[u] = calls[u],
           \A i \in 1 .. m : calls'[t][i] = calls[t][i]
    PROVE  \A u \in Threads, i \in Nat, x \in Events :
               Handles(u, i, x) /\ (u = t => i <= m) => Handles(u, i, x)'
<1> SUFFICES ASSUME NEW u \in Threads, NEW i \in Nat, NEW x \in Events,
                    Handles(u, i, x), u = t => i <= m
             PROVE  Handles(u, i, x)'
  OBVIOUS
<1>1. CASE u = t
  <2>1. i \in 1 .. m /\ calls[t][i] = [op |-> "callback", event |-> x]
    BY <1>1 DEF Handles
  <2>2. i \in 1 .. Len(calls'[t]) /\ calls'[t][i] = calls[t][i]
    BY <2>1
  <2> QED
    BY <1>1, <2>1, <2>2 DEF Handles
<1>2. CASE u # t
  BY <1>2 DEF Handles
<1> QED
  BY <1>1, <1>2

\* The events that are being distributed, in terms of the calls that handle them.
DistributedIsHandled ==
    \A e : e \in Distributed <=> e \in Events /\ \E t \in Threads, i \in Nat : Handles(t, i, e)

LEMMA DistributedAre == DistributedIsHandled /\ DistributedIsHandled'
  BY DEF DistributedIsHandled, Distributed, Handles

LEMMA SameDistributed ==
    ASSUME \A u \in Threads, i \in Nat, x \in Events : Handles(u, i, x)' <=> Handles(u, i, x)
    PROVE  Distributed' = Distributed
<1>1. \A e : e \in Distributed' <=> e \in Events /\ \E t \in Threads, i \in Nat : Handles(t, i, e)'
  BY DistributedAre DEF DistributedIsHandled
<1> QED
  BY <1>1, DistributedAre DEF DistributedIsHandled

\* A call that distributes nothing; one that distributes an event.
LEMMA EnterDistributes ==
    ASSUME TypeOK, NEW t \in Threads, NEW c \in Call, Enter(t, c)
    PROVE  /\ c.op # "callback" => Distributed' = Distributed
           /\ \A e \in Events :
                  c = [op |-> "callback", event |-> e] => Distributed' = Distributed \union {e}
<1> PICK n : n = Len(calls[t])
  OBVIOUS
<1>1. /\ calls'[t] = Append(calls[t], c) /\ \A u \in Threads : u # t => calls'[u] = calls[u]
      /\ \A u \in Threads, i \in Nat, x \in Events : Handles(u, i, x)' =>
             \/ Handles(u, i, x)
             \/ u = t /\ i = n + 1 /\ c.op = "callback" /\ c.event = x
  BY Entering
<1>2. /\ n \in Nat /\ Len(calls'[t]) = n + 1 /\ calls'[t][n + 1] = c
      /\ \A i \in 1 .. n : calls'[t][i] = calls[t][i]
  <2>1. calls[t] \in Seq(Call)
    BY DEF TypeOK
  <2> QED
    BY <1>1, <2>1, Pushed
<1>3. \A u \in Threads, i \in Nat, x \in Events : Handles(u, i, x) => (u = t => i <= n)
  BY <1>2 DEF Handles
<1>4. \A u \in Threads, i \in Nat, x \in Events : Handles(u, i, x) => Handles(u, i, x)'
  <2>1. n <= Len(calls'[t]) /\ Len(calls'[t]) \in Nat
    BY <1>2
  <2>2. \A u \in Threads, i \in Nat, x \in Events :
            Handles(u, i, x) /\ (u = t => i <= n) => Handles(u, i, x)'
    BY <1>1, <1>2, <2>1, HandledStill
  <2> QED
    BY <1>3, <2>2
<1>5. c.op # "callback" => Distributed' = Distributed
  BY <1>1, <1>4, SameDistributed
<1>6. ASSUME NEW e \in Events, c = [op |-> "callback", event |-> e]
      PROVE  Distributed' = Distributed \union {e}
  <2>1. Handles(t, n + 1, e)' /\ n + 1 \in Nat
    BY <1>2, <1>6 DEF Handles
  <2>2. \A u \in Threads, i \in Nat, x \in Events : Handles(u, i, x)' => Handles(u, i, x) \/ x = e
    BY <1>1, <1>6
  <2>3. \A x : x \in Distributed' <=> x \in Events /\ \E u \in Threads, i \in Nat : Handles(u, i, x)'
    BY DistributedAre DEF DistributedIsHandled
  <2>4. \A x : x \in Distributed' => x \in Distributed \/ x = e
    BY <2>2, <2>3, DistributedAre DEF DistributedIsHandled
  <2>5. \A x : x \in Distributed \/ x = e => x \in Distributed'
    <3>1. e \in Distributed'
      BY <2>1, <2>3
    <3>2. \A x : x \in Distributed => x \in Distributed'
      BY <1>4, <2>3, DistributedAre DEF DistributedIsHandled
    <3> QED
      BY <3>1, <3>2
  <2> QED
    BY <2>4, <2>5
<1> QED
  BY <1>5, <1>6

\* The return from a call that distributes nothing; from one that distributes an event.
LEMMA ReturnDistributes ==
    ASSUME SyncInv, NEW t \in Threads, calls[t] # <<>>, Return(t)
    PROVE  /\ Top(t).op # "callback" => Distributed' = Distributed
           /\ \A e \in Events :
                  Top(t) = [op |-> "callback", event |-> e]
                      => e \in Distributed /\ Distributed' = Distributed \ {e}
<1> PICK n : n = Len(calls[t])
  OBVIOUS
<1>1. /\ TypeOK /\ calls'[t] = SubSeq(calls[t], 1, n - 1)
      /\ \A u \in Threads : u # t => calls'[u] = calls[u]
      /\ \A u \in Threads, i \in Nat, x \in Events : Handles(u, i, x)' =>
             Handles(u, i, x) /\ ~(u = t /\ i = n)
  BY Returning DEF SyncInv
<1>2. /\ n \in Nat \ {0} /\ Len(calls'[t]) = n - 1 /\ calls[t][n] = Top(t)
      /\ \A i \in 1 .. n - 1 : calls'[t][i] = calls[t][i]
  <2>1. calls[t] \in Seq(Call) /\ calls[t][n] = Top(t)
    BY <1>1, TopTyped
  <2> QED
    BY <1>1, <2>1, Popped
<1>3. \A u \in Threads, i \in Nat, x \in Events : Handles(u, i, x) => (u = t => i <= n - 1 \/ i = n)
  BY <1>2 DEF Handles
<1>4. n - 1 \in Nat /\ n \in 1 .. n
  BY <1>2
<1>5. \A u \in Threads, i \in Nat, x \in Events :
          Handles(u, i, x) /\ ~(u = t /\ i = n) => Handles(u, i, x)'
  <2>1. \A u \in Threads, i \in Nat, x \in Events :
            Handles(u, i, x) /\ (u = t => i <= n - 1) => Handles(u, i, x)'
    BY <1>1, <1>2, <1>4, HandledStill
  <2> QED
    BY <1>3, <2>1
<1>6. ASSUME Top(t).op # "callback" PROVE Distributed' = Distributed
  <2>1. \A i \in Nat, x \in Events : Handles(t, i, x) => i # n
    BY <1>2, <1>6 DEF Handles
  <2>2. \A u \in Threads, i \in Nat, x \in Events : Handles(u, i, x)' <=> Handles(u, i, x)
    BY <1>1, <1>5, <2>1
  <2> QED
    BY <2>2, SameDistributed
<1>7. ASSUME NEW e \in Events, Top(t) = [op |-> "callback", event |-> e]
      PROVE  e \in Distributed /\ Distributed' = Distributed \ {e}
  <2>1. Handles(t, n, e)
    BY <1>2, <1>4, <1>7 DEF Handles
  <2>2. \A u \in Threads, i \in Nat : Handles(u, i, e) => u = t /\ i = n
    BY <1>2, <2>1 DEF SyncInv, OnePlace
  <2>3. \A x : x \in Distributed' <=> x \in Events /\ \E u \in Threads, i \in Nat : Handles(u, i, x)'
    BY DistributedAre DEF DistributedIsHandled
  <2>4. e \in Distributed
    BY <1>2, <2>1, DistributedAre DEF DistributedIsHandled
  <2>5. \A i \in Nat, x \in Events : Handles(t, i, x) /\ i = n => x = e
    BY <1>2, <1>7 DEF Handles
  <2>6. \A x : x \in Distributed' => x \in Distributed /\ x # e
    BY <1>1, <2>2, <2>3, DistributedAre DEF DistributedIsHandled
  <2>7. \A x : x \in Distributed /\ x # e => x \in Distributed'
    BY <1>5, <2>3, <2>5, DistributedAre DEF DistributedIsHandled
  <2> QED
    BY <2>4, <2>6, <2>7
<1> QED
  BY <1>6, <1>7

\* Another kind of call in place of one that distributes nothing.
LEMMA ReplaceDistributes ==
    ASSUME TypeOK, NEW t \in Threads, calls[t] # <<>>, NEW c \in Call,
           calls' = [calls EXCEPT ![t] = [@ EXCEPT ![Len(calls[t])] = c]],
           Top(t).op # "callback", c.op # "callback"
    PROVE  Distributed' = Distributed
<1> PICK n : n = Len(calls[t])
  OBVIOUS
<1>1. /\ calls'[t] = [calls[t] EXCEPT ![n] = c]
      /\ \A u \in Threads : u # t => calls'[u] = calls[u]
      /\ \A u \in Threads, i \in Nat, x \in Events : Handles(u, i, x)' => Handles(u, i, x)
  BY Replacing
<1>2. /\ n \in Nat \ {0} /\ Len(calls'[t]) = n /\ calls[t][n] = Top(t)
      /\ \A i \in 1 .. n - 1 : calls'[t][i] = calls[t][i]
  <2>1. calls[t] \in Seq(Call) /\ calls[t][n] = Top(t)
    BY TopTyped
  <2> QED
    BY <1>1, <2>1, Replaced
<1>3. \A u \in Threads, i \in Nat, x \in Events : Handles(u, i, x) => (u = t => i <= n - 1)
  BY <1>2 DEF Handles
<1>4. n - 1 \in Nat /\ n - 1 <= n
  BY <1>2
<1>5. \A u \in Threads, i \in Nat, x \in Events : Handles(u, i, x) => Handles(u, i, x)'
  BY <1>1, <1>2, <1>3, <1>4, HandledStill
<1> QED
  BY <1>1, <1>5, SameDistributed

\* An event is queued or distributed, not both, and has an owner then.
LEMMA InUse ==
    ASSUME SyncInv
    PROVE  /\ \A e \in Queued : e \in Events /\ target[e] \in Handlers /\ e \notin Distributed
           /\ \A e \in Distributed : e \in Events /\ target[e] \in Handlers
<1>1. ASSUME NEW e \in Queued
      PROVE  e \in Events /\ target[e] \in Handlers /\ e \notin Distributed
  <2>1. PICK r \in Runners : e \in queue[r]
    BY DEF Queued
  <2>2. e \in Events
    BY <2>1 DEF SyncInv, TypeOK
  <2>3. target[e] \in Handlers /\ \A t \in Threads, i \in Nat : ~Handles(t, i, e)
    BY <2>1, <2>2 DEF SyncInv, OnePlace
  <2> QED
    BY <2>2, <2>3, DistributedAre DEF DistributedIsHandled
<1>2. ASSUME NEW e \in Distributed
      PROVE  e \in Events /\ target[e] \in Handlers
  <2>1. e \in Events /\ \E t \in Threads, i \in Nat : Handles(t, i, e)
    BY DistributedAre DEF DistributedIsHandled
  <2>2. PICK t \in Threads, i \in Nat : Handles(t, i, e)
    BY <2>1
  <2>3. StackOK(calls[t], currentRunner[t], target)
    BY DEF SyncInv, StacksOK
  <2>4. i \in 1 .. Len(calls[t]) /\ calls[t][i].op \in CallbackOps /\ calls[t][i].event = e
    BY <2>2 DEF Handles, CallbackOps
  <2> QED
    BY <2>1, <2>3, <2>4 DEF StackOK
<1> QED
  BY <1>1, <1>2

LEMMA SameQueued ==
    ASSUME queue' = queue
    PROVE  Queued' = Queued
  BY DEF Queued

LEMMA OneMoreQueued ==
    ASSUME TypeOK, NEW r \in Runners, NEW e, queue' = [queue EXCEPT ![r] = @ \union {e}]
    PROVE  Queued' = Queued \union {e}
<1>1. \A q \in Runners : \A x : x \in queue'[q] <=> x \in queue[q] \/ (x = e /\ q = r)
  BY DEF TypeOK
<1>2. \A x : x \in Queued' <=> \E q \in Runners : x \in queue'[q]
  BY DEF Queued
<1>3. \A x : x \in Queued <=> \E q \in Runners : x \in queue[q]
  BY DEF Queued
<1> QED
  BY <1>1, <1>2, <1>3

\* Nothing that concerns the handlers.
LEMMA DispatchKept ==
    ASSUME UNCHANGED <<Queued, Distributed>>,
           \A e \in Queued \union Distributed : target'[e] = target[e]
    PROVE  UNCHANGED ED!vars
  BY EntriesKept DEF ED!vars

\* An event that was nowhere is queued.
LEMMA InsertDispatch ==
    ASSUME SyncInv, NEW e \in Events, e \notin Queued, e \notin Distributed,
           Queued' = Queued \union {e}, Distributed' = Distributed,
           \A x \in Queued \union Distributed : target'[x] = target[x]
    PROVE  ED!Serving
<1> PICK p : p = [event |-> e, owner |-> target'[e]]
  OBVIOUS
<1>1. Entries(target, Queued)' = Entries(target, Queued) \union {p}
  <2>1. Entries(target', Queued \union {e})
            = Entries(target', Queued) \union {[event |-> e, owner |-> target'[e]]}
    BY EntriesAnd
  <2>2. Entries(target', Queued) = Entries(target, Queued)
    BY EntriesKept
  <2> QED
    BY <2>1, <2>2
<1>2. Entries(target, Distributed)' = Entries(target, Distributed)
  BY EntriesKept
<1>3. \A q \in Entries(target, Queued) \union Entries(target, Distributed) : q.event # p.event
  BY DEF Entries
<1>4. ED!Post(p)
  BY <1>1, <1>2, <1>3 DEF ED!Post
<1> QED
  BY <1>1, <1>4 DEF ED!Serving

\* The asynchronous call.
LEMMA PostEventDispatch ==
    ASSUME SyncInv, NEW h \in Handlers, NEW e \in Events, PostEvent(h, e)
    PROVE  ED!Serving
<1>1. /\ target[e] = None /\ target' = [target EXCEPT ![e] = h] /\ calls' = calls
      /\ queue' = [queue EXCEPT ![RunnerOf[h]] = @ \union {e}]
  BY DEF PostEvent
<1>2. e \notin Queued \union Distributed
  BY <1>1, InUse, SyncAssumption
<1>3. \A x \in Events : x # e => target'[x] = target[x]
  BY <1>1, Sending
<1>4. Queued' = Queued \union {e}
  <2>1. RunnerOf[h] \in Runners
    BY SyncAssumption
  <2> QED
    BY <1>1, <2>1, OneMoreQueued DEF SyncInv
<1>5. Distributed' = Distributed
  BY <1>1 DEF Distributed
<1> QED
  BY <1>2, <1>3, <1>4, <1>5, InUse, InsertDispatch

\* A synchronous call is nothing to the queue until its event is inserted.
LEMMA SendSyncEventDispatch ==
    ASSUME SyncInv, NEW t \in Threads, NEW h \in Handlers, NEW e \in Events, SendSyncEvent(t, h, e)
    PROVE  UNCHANGED ED!vars
<1>1. PICK op \in {"callback in place", "insert"} : Enter(t, [op |-> op, event |-> e])
  BY DEF SendSyncEvent
<1>2. target[e] = None /\ target' = [target EXCEPT ![e] = h] /\ queue' = queue /\ TypeOK
  BY DEF SendSyncEvent, SyncInv
<1> PICK c : c = [op |-> op, event |-> e]
  OBVIOUS
<1>3. c \in Call /\ c.op # "callback" /\ Enter(t, c)
  BY <1>1 DEF Call
<1>4. Distributed' = Distributed
  BY <1>2, <1>3, EnterDistributes
<1>5. e \notin Queued \union Distributed
  BY <1>2, InUse, SyncAssumption
<1>6. \A x \in Events : x # e => target'[x] = target[x]
  BY <1>2, Sending
<1> QED
  BY <1>2, <1>4, <1>5, <1>6, InUse, SameQueued, DispatchKept

LEMMA SendEventDispatch ==
    ASSUME SyncInv, NEW t \in Threads, SendEvent(t)
    PROVE  ED!Serving
<1> PICK e : e = Top(t).event
  OBVIOUS
<1>1. /\ TypeOK /\ calls[t] # <<>> /\ Top(t).op = "insert"
      /\ queue' = [queue EXCEPT ![RunnerOf[target[e]]] = @ \union {e}]
      /\ Proceed(t, "wait") /\ target' = target
  BY DEF SyncInv, SendEvent, In
<1>2. e \in Events /\ Top(t) = [op |-> "insert", event |-> e] /\ Sends(t, e)
  BY <1>1, TopTyped, CallShape DEF RunnerOps, Sends, SenderOps
<1>3. /\ waiter[e] # None
      /\ \A r \in Runners : e \notin queue[r]
      /\ \A u \in Threads, i \in Nat : ~Handles(u, i, e)
  BY <1>1, <1>2 DEF SyncInv, OneSender
<1>4. e \notin Queued /\ e \notin Distributed
  BY <1>3, DistributedAre DEF Queued, DistributedIsHandled
<1>5. RunnerOf[target[e]] \in Runners
  BY <1>2, <1>3, SyncAssumption DEF SyncInv, OneSender, TypeOK
<1>6. Queued' = Queued \union {e}
  BY <1>1, <1>5, OneMoreQueued
<1>7. Distributed' = Distributed
  <2> PICK c : c = [Top(t) EXCEPT !.op = "wait"]
    OBVIOUS
  <2>1. c \in Call /\ c.op = "wait"
    BY <1>2 DEF Call
  <2>2. calls' = [calls EXCEPT ![t] = [@ EXCEPT ![Len(calls[t])] = c]]
    BY <1>1, <2>1, Proceeding
  <2> QED
    BY <1>1, <2>1, <2>2, ReplaceDistributes
<1> QED
  BY <1>1, <1>2, <1>4, <1>6, <1>7, InsertDispatch

\* Events of one handler are removed.
LEMMA RemoveEventDispatch ==
    ASSUME SyncInv, NEW h \in Handlers, NEW events \in SUBSET Events, RemoveEvent(h, events)
    PROVE  ED!Next
<1> PICK r : r = RunnerOf[h]
  OBVIOUS
<1>1. /\ events \subseteq queue[r] /\ \A e \in events : target[e] = h
      /\ queue' = [queue EXCEPT ![r] = @ \ events]
      /\ UNCHANGED <<calls, target>> /\ r \in Runners
  BY SyncAssumption DEF RemoveEvent
<1>2. Queued' = Queued \ events
  <2>1. \A q \in Runners, e \in events : e \in queue[q] => q = r
    BY <1>1 DEF SyncInv, OnePlace
  <2>2. queue'[r] = queue[r] \ events /\ \A q \in Runners : q # r => queue'[q] = queue[q]
    BY <1>1 DEF SyncInv, TypeOK
  <2> QED
    BY <1>1, <2>1, <2>2 DEF Queued
<1>3. Distributed' = Distributed
  BY <1>1 DEF Distributed
<1>4. Entries(target, Queued)' = Entries(target, Queued) \ Entries(target, events)
  <2>1. Entries(target', Queued') = Entries(target, Queued \ events)
    BY <1>1, <1>2
  <2>2. Entries(target, Queued \ events) = Entries(target, Queued) \ Entries(target, events)
    BY EntriesAre
  <2> QED
    BY <2>1, <2>2
<1>5. Entries(target, Distributed)' = Entries(target, Distributed)
  BY <1>1, <1>3
<1>6. \A p, q \in Entries(target, events) : p.owner = q.owner
  BY <1>1 DEF Entries
<1>7. ED!Remove(Entries(target, events))
  BY <1>4, <1>5, <1>6 DEF ED!Remove
<1>8. Entries(target, events) \in SUBSET Entries(target, Queued)
  <2>1. events \subseteq Queued
    BY <1>1 DEF Queued
  <2> QED
    BY <2>1, EntriesAre
<1> QED
  BY <1>7, <1>8 DEF ED!Next

\* A runner takes an event, while it distributes none: a callback of it would be in its loop, and
\* its only loop is the innermost call of t.
LEMMA TakeEventDispatch ==
    ASSUME SyncInv, NEW t \in Threads, NEW e \in Events, TakeEvent(t, e)
    PROVE  ED!Serving
<1> PICK r : r = Top(t).runner
  OBVIOUS
<1> PICK n : n = Len(calls[t])
  OBVIOUS
<1> PICK p : p = [event |-> e, owner |-> target[e]]
  OBVIOUS
<1>1. /\ TypeOK /\ calls[t] # <<>> /\ Top(t).op = "loop" /\ e \in queue[r]
      /\ queue' = [queue EXCEPT ![r] = @ \ {e}]
      /\ Enter(t, [op |-> "callback", event |-> e])
      /\ target' = target
  BY DEF SyncInv, TakeEvent, In
<1>2. Top(t) \in Call /\ calls[t] \in Seq(Call) /\ n \in Nat \ {0} /\ calls[t][n] = Top(t)
  BY <1>1, TopTyped
<1>3. r \in Runners /\ RunBy(t, n, r)
  <2>1. r \in Runners
    BY <1>1, <1>2, CallShape DEF RunnerOps, CallbackOps, SenderOps
  <2> QED
    BY <1>1, <1>2, <2>1 DEF RunBy, RunnerOps
<1>4. target[e] \in Handlers /\ RunnerOf[target[e]] = r /\ e \in Queued
  BY <1>1, <1>3 DEF SyncInv, OnePlace, Queued
<1>5. Queued' = Queued \ {e}
  <2>1. \A q \in Runners : e \in queue[q] => q = r
    BY <1>1, <1>3 DEF SyncInv, OnePlace
  <2>2. queue'[r] = queue[r] \ {e} /\ \A q \in Runners : q # r => queue'[q] = queue[q]
    BY <1>1, <1>3 DEF TypeOK
  <2> QED
    BY <1>3, <2>1, <2>2 DEF Queued
<1>6. Distributed' = Distributed \union {e}
  <2> PICK c : c = [op |-> "callback", event |-> e]
    OBVIOUS
  <2>1. c \in Call /\ Enter(t, c)
    BY <1>1 DEF Call
  <2> QED
    BY <1>1, <2>1, EnterDistributes
<1>7. ASSUME NEW x \in Distributed PROVE RunnerOf[target[x]] # r
  <2>1. PICK u \in Threads, i \in Nat : Handles(u, i, x)
    BY DistributedAre DEF DistributedIsHandled
  <2>2. StackOK(calls[u], currentRunner[u], target) /\ calls[u] \in Seq(Call)
    BY <1>1 DEF SyncInv, StacksOK, TypeOK
  <2>3. i \in 1 .. Len(calls[u]) /\ calls[u][i].op \in CallbackOps /\ calls[u][i].event = x
    BY <2>1 DEF Handles, CallbackOps
  <2>4. IsCurrent(calls[u], i, RunnerOf[target[x]])
    BY <2>2, <2>3 DEF StackOK
  <2> SUFFICES ASSUME RunnerOf[target[x]] = r PROVE FALSE
    OBVIOUS
  <2>5. PICK j \in 1 .. i - 1 : calls[u][j].op = "loop" /\ calls[u][j].runner = r
    BY <1>3, <2>4, SyncAssumption DEF IsCurrent
  <2>6. j \in Nat /\ RunBy(u, j, r)
    BY <2>2, <2>3, <2>5 DEF RunBy, RunnerOps
  <2>7. t = u /\ n = j
    BY <1>2, <1>3, <2>6 DEF SyncInv, OneRun
  <2> QED
    BY <2>3, <2>5, <2>7
<1>8. Entries(target, Queued)' = Entries(target, Queued) \ {p}
  <2>1. Entries(target', Queued') = Entries(target, Queued \ {e})
    BY <1>1, <1>5
  <2>2. Entries(target, Queued \ {e})
            = Entries(target, Queued) \ {[event |-> e, owner |-> target[e]]}
    BY EntriesBut
  <2> QED
    BY <2>1, <2>2
<1>9. Entries(target, Distributed)' = Entries(target, Distributed) \union {p}
  <2>1. Entries(target', Distributed') = Entries(target, Distributed \union {e})
    BY <1>1, <1>6
  <2>2. Entries(target, Distributed \union {e})
            = Entries(target, Distributed) \union {[event |-> e, owner |-> target[e]]}
    BY EntriesAnd
  <2> QED
    BY <2>1, <2>2
<1>10. \A q \in Entries(target, Distributed) : RunnerOf[q.owner] # RunnerOf[p.owner]
  BY <1>4, <1>7 DEF Entries
<1>11. ED!Distribute(p)
  BY <1>8, <1>9, <1>10 DEF ED!Distribute
<1>12. p \in Entries(target, Queued)
  BY <1>4 DEF Entries
<1> QED
  BY <1>11, <1>12 DEF ED!Serving

\* A callback returns: of an event that was queued, or in place.
LEMMA EndCallbackDispatch ==
    ASSUME SyncInv, NEW t \in Threads, EndCallback(t)
    PROVE  ED!Serving \/ UNCHANGED ED!vars
<1> PICK e : e = Top(t).event
  OBVIOUS
<1>1. /\ TypeOK /\ calls[t] # <<>> /\ Top(t).op \in CallbackOps /\ Return(t)
      /\ queue' = queue /\ target' = target
  BY DEF SyncInv, EndCallback, InCallback, In, CallbackOps
<1>2. e \in Events /\ Top(t) = [op |-> Top(t).op, event |-> e]
  BY <1>1, TopTyped, CallShape DEF RunnerOps, CallbackOps
<1>3. Queued' = Queued
  BY <1>1, SameQueued
<1>4. CASE Top(t).op = "callback"
  <2> PICK p : p = [event |-> e, owner |-> target[e]]
    OBVIOUS
  <2>1. e \in Distributed /\ Distributed' = Distributed \ {e}
    BY <1>1, <1>2, <1>4, ReturnDistributes
  <2>2. Entries(target, Queued)' = Entries(target, Queued)
    BY <1>1, <1>3
  <2>3. Entries(target, Distributed)' = Entries(target, Distributed) \ {p}
    <3>1. Entries(target', Distributed') = Entries(target, Distributed \ {e})
      BY <1>1, <2>1
    <3>2. Entries(target, Distributed \ {e})
              = Entries(target, Distributed) \ {[event |-> e, owner |-> target[e]]}
      BY EntriesBut
    <3> QED
      BY <3>1, <3>2
  <2>4. p \in Entries(target, Distributed)
    BY <2>1 DEF Entries
  <2>5. ED!Return(p)
    BY <2>2, <2>3 DEF ED!Return
  <2> QED
    BY <2>4, <2>5 DEF ED!Serving
<1>5. CASE Top(t).op # "callback"
  <2>1. Distributed' = Distributed
    BY <1>1, <1>5, ReturnDistributes
  <2> QED
    BY <1>1, <1>3, <2>1, DispatchKept
<1> QED
  BY <1>4, <1>5

\* The other steps of a thread: it runs a runner, leaves its loop, or waits.
LEMMA SilentStep ==
    ASSUME SyncInv, NEW t \in Threads,
           \/ \E r \in Runners : Run(t, r)
           \/ Prepare(t) \/ LeaveLoop(t) \/ ReturnFromRun(t) \/ Wait(t) \/ WakeUp(t)
    PROVE  UNCHANGED ED!vars
<1>1. TypeOK /\ queue' = queue /\ target' = target
  BY DEF SyncInv, Run, Prepare, LeaveLoop, ReturnFromRun, Wait, WakeUp
<1>2. ASSUME NEW r \in Runners, Run(t, r) PROVE Distributed' = Distributed
  <2> PICK c : c = [op |-> "prepare", runner |-> r, saved |-> None]
    OBVIOUS
  <2>1. c \in Call /\ c.op # "callback" /\ Enter(t, c)
    BY <1>2 DEF Call, Run
  <2> QED
    BY <1>1, <2>1, EnterDistributes
<1>3. ASSUME Prepare(t) PROVE Distributed' = Distributed
  <2> PICK c : c = [op |-> "loop", runner |-> Top(t).runner, saved |-> currentRunner[t]]
    OBVIOUS
  <2>1. /\ calls[t] # <<>> /\ Top(t).op = "prepare"
        /\ calls' = [calls EXCEPT ![t] = [@ EXCEPT ![Len(calls[t])] = c]]
    BY <1>1, <1>3 DEF Prepare, In, TypeOK
  <2>2. Top(t).runner \in Runners
    BY <1>1, <2>1, TopTyped, CallShape DEF RunnerOps, CallbackOps, SenderOps
  <2>3. c \in Call /\ c.op # "callback"
    BY <1>1, <2>2 DEF Call, TypeOK
  <2> QED
    BY <1>1, <2>1, <2>3, ReplaceDistributes
<1>4. ASSUME NEW op \in {"leave", "wait", "asleep"}, calls[t] # <<>>, Proceed(t, op),
             \/ Top(t).op = "loop" /\ op = "leave"
             \/ Top(t).op \in {"wait", "asleep"} /\ op \in {"wait", "asleep"}
      PROVE  Distributed' = Distributed
  <2> PICK c : c = [Top(t) EXCEPT !.op = op]
    OBVIOUS
  <2>1. Top(t) \in Call
    BY <1>1, <1>4, TopTyped
  <2>2. c \in Call /\ c.op # "callback"
    <3>1. CASE Top(t).op = "loop"
      <4>1. Top(t) = [op |-> "loop", runner |-> Top(t).runner, saved |-> Top(t).saved]
            /\ Top(t).runner \in Runners /\ Top(t).saved \in Runners \union {None}
        BY <2>1, <3>1, CallShape DEF CallbackOps, SenderOps
      <4> QED
        BY <1>4, <3>1, <4>1 DEF Call
    <3>2. CASE Top(t).op # "loop"
      <4>1. Top(t) = [op |-> Top(t).op, event |-> Top(t).event] /\ Top(t).event \in Events
        BY <1>4, <2>1, <3>2, CallShape DEF RunnerOps
      <4> QED
        BY <1>4, <3>2, <4>1 DEF Call
    <3> QED
      BY <3>1, <3>2
  <2>3. calls' = [calls EXCEPT ![t] = [@ EXCEPT ![Len(calls[t])] = c]]
    BY <1>1, <1>4, <2>2, Proceeding
  <2> QED
    BY <1>1, <1>4, <2>2, <2>3, ReplaceDistributes
<1>5. ASSUME calls[t] # <<>>, Top(t).op \in {"leave", "wait"}, Return(t)
      PROVE  Distributed' = Distributed
  BY <1>5, ReturnDistributes
<1>6. Distributed' = Distributed
  <2>1. CASE LeaveLoop(t)
    BY <1>4, <2>1 DEF LeaveLoop, In
  <2>2. CASE ReturnFromRun(t)
    BY <1>5, <2>2 DEF ReturnFromRun, In
  <2>3. CASE Wait(t)
    BY <1>4, <1>5, <2>3 DEF Wait, In
  <2>4. CASE WakeUp(t)
    BY <1>4, <2>4 DEF WakeUp, In
  <2> QED
    BY <1>2, <1>3, <2>1, <2>2, <2>3, <2>4
<1> QED
  BY <1>1, <1>6, SameQueued, DispatchKept

\* Every step is a step of EventDispatch, or does not concern the handlers.
LEMMA DispatchStep ==
    SyncInv /\ [Next]_vars => [ED!Next]_(ED!vars) /\ [ED!Serving \/ Removal]_(ED!vars)
<1> SUFFICES ASSUME SyncInv, [Next]_vars
             PROVE  ED!Serving \/ (ED!Next /\ Removal) \/ UNCHANGED ED!vars
  BY DEF ED!Next
<1>1. ASSUME NEW t \in Threads, Step(t) PROVE ED!Serving \/ UNCHANGED ED!vars
  <2>1. CASE Prepare(t) \/ LeaveLoop(t) \/ ReturnFromRun(t) \/ Wait(t) \/ WakeUp(t)
    BY <2>1, SilentStep
  <2>2. CASE \E e \in Events : TakeEvent(t, e)
    BY <2>2, TakeEventDispatch
  <2>3. CASE SendEvent(t)
    BY <2>3, SendEventDispatch
  <2>4. CASE EndCallback(t)
    BY <2>4, EndCallbackDispatch
  <2> QED
    BY <1>1, <2>1, <2>2, <2>3, <2>4 DEF Step
<1>2. ASSUME NEW t \in Threads, NEW r \in Runners, Run(t, r) PROVE UNCHANGED ED!vars
  BY <1>2, SilentStep
<1>3. ASSUME NEW t \in Threads, NEW h \in Handlers, NEW e \in Events, SendSyncEvent(t, h, e)
      PROVE  UNCHANGED ED!vars
  BY <1>3, SendSyncEventDispatch
<1>4. ASSUME NEW h \in Handlers, NEW e \in Events, PostEvent(h, e) PROVE ED!Serving
  BY <1>4, PostEventDispatch
<1>5. ASSUME NEW h \in Handlers, NEW events \in SUBSET Events, RemoveEvent(h, events)
      PROVE  ED!Next /\ Removal
  BY <1>5, RemoveEventDispatch DEF Removal
<1>6. CASE (\E r \in Runners : Stop(r)) \/ UNCHANGED vars
  <2>1. UNCHANGED <<calls, queue, target>>
    BY <1>6 DEF Stop, vars
  <2>2. Queued' = Queued /\ Distributed' = Distributed
    BY <2>1 DEF Queued, Distributed
  <2> QED
    BY <2>1, <2>2, DispatchKept
<1> QED
  BY <1>1, <1>2, <1>3, <1>4, <1>5, <1>6 DEF Next

\* Synchronous and asynchronous sends keep what EventDispatch promises, whichever threads run the
\* runners, from within whatever callbacks, and however often the runners are stopped: an event
\* is queued by one send, distributed once by its owner's runner, one at a time, and lost to none
\* but RemoveEvent.
THEOREM SyncImplementsEventDispatch == Spec => ImplementsEventDispatch
<1>1. Init => ED!Init
  <2> SUFFICES ASSUME Init PROVE ED!Init
    OBVIOUS
  <2>1. Queued = {}
    BY DEF Init, Queued
  <2>2. Distributed = {}
    <3>1. \A t \in Threads, i \in Nat, e \in Events : ~Handles(t, i, e)
      BY DEF Init, Handles, DepositedLoop
    <3> QED
      BY <3>1, DistributedAre DEF DistributedIsHandled
  <2> QED
    BY <2>1, <2>2 DEF ED!Init, Entries
<1> QED
  BY <1>1, DispatchStep, SyncInvariant, PTL DEF Spec, ImplementsEventDispatch, ED!Spec
=============================================================================
