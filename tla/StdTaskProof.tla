---------------------------- MODULE StdTaskProof ----------------------------
(***************************************************************************)
(* Tasks and their handles, for any number of tasks and workers.           *)
(*                                                                         *)
(* Holding a handle and waiting through it make the tasks a forest: every  *)
(* task hangs from at most one thread, and a new task takes its place      *)
(* between the thread that spawns it and the tasks whose handles it is     *)
(* given.  A ring of waits would be a cycle of it.                         *)
(***************************************************************************)
EXTENDS TLAPS, FiniteSetTheorems, StdTask

TaskTypes ==
  /\ state \in [Tasks -> {"unborn", "queued", "running"} \cup Ended]
  /\ queue \in Seq(Tasks)
  /\ aborted \subseteq Tasks
  /\ owner \in [Tasks -> Threads \cup {None}]
  /\ waitsFor \in [Threads -> Tasks \cup {None}]
  /\ verdict \in [Tasks -> {"ok", "cancelled", "panicked", None}]
  /\ doing \in [Threads -> {"free", "receiving"} \cup Ch!Sending]
  /\ waiting \in Seq(Threads)

Unborn(k) == state[k] = "unborn"

\* Numbers are given in order.
BornInOrder == \E n \in 0..MaxTasks : \A k \in Tasks : Unborn(k) <=> k > n

\* The queue of the pool holds queued tasks, each once.
QueueIsQueued ==
  /\ \A i \in 1..Len(queue) : state[queue[i]] = "queued"
  /\ \A i, j \in 1..Len(queue) : queue[i] = queue[j] => i = j

\* Only the main thread and running tasks are in a call, and those not yet
\* spawned have no part in anything.
Active(t) == t = Main \/ state[t] = "running"

OnlyActiveAct ==
  /\ \A t \in Threads : doing[t] # "free" \/ waitsFor[t] # None => Active(t)
  /\ \A k \in Tasks : Unborn(k) =>
       /\ owner[k] = None /\ k \notin aborted
       /\ \A j \in Tasks : owner[j] # k
       /\ \A u \in Threads : waitsFor[u] # k

\* The queue for permits of the channel holds threads that wait, each once.
WaitersWait ==
  /\ \A i \in 1..Len(waiting) : doing[waiting[i]] = "waiting"
  /\ \A i, j \in 1..Len(waiting) : waiting[i] = waiting[j] => i = j
  /\ receiver = None => waiting = <<>>

\* To wait is to give the handle up.
HandlesAreUnique ==
  /\ \A u \in Threads : waitsFor[u] # None => owner[waitsFor[u]] = None
  /\ \A u, v \in Threads : waitsFor[u] # None /\ waitsFor[u] = waitsFor[v] => u = v

HangsFrom(k, u) == (k \in Tasks /\ owner[k] = u) \/ waitsFor[u] = k

\* Every group of threads has one that hangs from none of them.
HandlesFormAForest ==
  \A S \in (SUBSET Threads) \ {{}} : \E t \in S : \A u \in S : ~HangsFrom(t, u)

\* What is known of an abort and of a verdict.
VerdictsAreKept ==
  \A k \in Tasks :
    /\ state[k] = "cancelled" => k \in aborted
    /\ k \in aborted => state[k] \in {"queued", "cancelled"}
    /\ verdict[k] # None => state[k] \in Ended /\ verdict[k] = Verdict(k)

Inv ==
  /\ TaskTypes
  /\ BornInOrder
  /\ QueueIsQueued
  /\ OnlyActiveAct
  /\ WaitersWait
  /\ HandlesAreUnique
  /\ HandlesFormAForest
  /\ VerdictsAreKept

----------------------------------------------------------------------------
\* Threads are the tasks and the main thread, finitely many.
LEMMA ThreadFacts ==
  /\ IsFiniteSet(Threads) /\ IsFiniteSet(Tasks)
  /\ Main \in Threads /\ Main \notin Tasks /\ Tasks \subseteq Threads /\ Tasks \subseteq Nat
  /\ None \notin Threads /\ MaxTasks \in Nat
<1>1. IsFiniteSet(1..MaxTasks)
  BY TaskAssumption, FS_Interval
<1>2. IsFiniteSet(1..MaxTasks \cup {Main})
  BY <1>1, FS_AddElement
<1> QED BY <1>1, <1>2, TaskAssumption DEF Threads, Tasks

\* The next task to be spawned is the first of those that are not.
LEMMA NewestIsLast ==
  ASSUME BornInOrder, NEW k \in Tasks, k = Newest + 1
  PROVE  \A j \in Tasks : Unborn(j) <=> j >= k
<1>1. PICK n \in 0..MaxTasks : \A j \in Tasks : Unborn(j) <=> j > n
  BY DEF BornInOrder
<1>2. {j \in Tasks : state[j] # "unborn"} = 1..n
  BY <1>1, TaskAssumption DEF Tasks, Unborn
<1>3. Cardinality(1..n) = n
  BY <1>1, FS_Interval
<1>4. k = n + 1
  BY <1>2, <1>3 DEF Newest
<1> QED BY <1>1, <1>4, TaskAssumption DEF Tasks

LEMMA InitEstablishesInv == ASSUME Init PROVE Inv
<1> USE DEF Init, Ch!ChInit
<1>1. TaskTypes
  <2>1. <<>> \in Seq(Tasks) /\ <<>> \in Seq(Threads)
    OBVIOUS
  <2> QED BY <2>1 DEF TaskTypes
<1>2. BornInOrder
  <2>1. 0 \in 0..MaxTasks /\ \A k \in Tasks : k > 0
    BY TaskAssumption DEF Tasks
  <2> QED BY <2>1 DEF BornInOrder, Unborn
<1>3. QueueIsQueued /\ OnlyActiveAct /\ WaitersWait /\ HandlesAreUnique
  BY ThreadFacts DEF QueueIsQueued, OnlyActiveAct, WaitersWait, HandlesAreUnique, Active, Unborn
<1>4. HandlesFormAForest
  <2>1. \A t, u \in Threads : ~HangsFrom(t, u)
    BY ThreadFacts DEF HangsFrom
  <2> QED BY <2>1 DEF HandlesFormAForest
<1>5. VerdictsAreKept
  BY DEF VerdictsAreKept
<1> QED BY <1>1, <1>2, <1>3, <1>4, <1>5 DEF Inv

----------------------------------------------------------------------------
\* What the steps do to the tasks and to the channel.  A thread that may act is
\* one that is born.
LEMMA IdleFacts ==
  ASSUME Inv, NEW t, Idle(t)
  PROVE  /\ t \in Threads /\ Active(t) /\ doing[t] = "free" /\ waitsFor[t] = None
         /\ t \in Tasks => ~Unborn(t) /\ t \notin aborted
BY ThreadFacts DEF Idle, Running, Active, Unborn, Inv, VerdictsAreKept

\* Removing edges keeps the forest.
LEMMA FewerEdges ==
  ASSUME HandlesFormAForest,
         \A t, u \in Threads : HangsFrom(t, u)' => HangsFrom(t, u)
  PROVE  HandlesFormAForest'
BY DEF HandlesFormAForest, Threads, Tasks

\* A new task takes its place in the forest.
LEMMA LaunchKeepsForest ==
  ASSUME Inv, NEW t, NEW k \in Tasks, NEW gives \in SUBSET Owned(t), Idle(t), k = Newest + 1,
         owner' = [j \in Tasks |-> IF j = k THEN t ELSE IF j \in gives THEN k ELSE owner[j]],
         waitsFor' = waitsFor
  PROVE  HandlesFormAForest'
<1>1. /\ t \in Threads /\ t # k /\ k \in Threads
      /\ Unborn(k) /\ owner[k] = None
      /\ \A j \in Tasks : owner[j] # k
      /\ \A u \in Threads : waitsFor[u] # k
      /\ waitsFor[k] = None /\ k # None /\ k # Main
  <2>1. k \in Nat /\ Unborn(k)
    BY NewestIsLast, ThreadFacts DEF Inv
  <2> QED BY <2>1, IdleFacts, ThreadFacts DEF Inv, OnlyActiveAct, Active, Unborn
<1>2. \A r, u \in Threads : HangsFrom(r, u)' =>
        IF r = k THEN u = t ELSE IF r \in gives THEN u = k ELSE HangsFrom(r, u)
  <2> SUFFICES ASSUME NEW r \in Threads, NEW u \in Threads, HangsFrom(r, u)'
               PROVE  IF r = k THEN u = t ELSE IF r \in gives THEN u = k ELSE HangsFrom(r, u)
    OBVIOUS
  <2>1. CASE r \in Tasks /\ owner'[r] = u
    BY <2>1 DEF HangsFrom
  <2>2. CASE waitsFor[u] = r
    <3>1. r # k
      BY <1>1, <2>2
    <3>2. r \notin gives
      BY <2>2, ThreadFacts, IdleFacts DEF Inv, HandlesAreUnique, Owned, TaskTypes
    <3> QED BY <2>2, <3>1, <3>2 DEF HangsFrom
  <2> QED BY <2>1, <2>2 DEF HangsFrom, Tasks
<1>3. \A r \in gives : HangsFrom(r, t)
  BY DEF Owned, HangsFrom
<1>4. \A r \in Threads : ~HangsFrom(r, k)
  BY <1>1, ThreadFacts DEF HangsFrom
<1> SUFFICES ASSUME NEW S \in SUBSET Threads, S # {}
             PROVE  \E r \in S : \A u \in S : ~HangsFrom(r, u)'
  BY DEF HandlesFormAForest, Threads, Tasks
<1>5. CASE k \notin S
  <2>1. PICK r \in S : \A u \in S : ~HangsFrom(r, u)
    BY DEF Inv, HandlesFormAForest
  <2> QED BY <1>2, <1>5, <2>1
<1>6. CASE k \in S
  <2> DEFINE S2 == (S \ {k}) \cup {t}
  <2>1. PICK r \in S2 : \A u \in S2 : ~HangsFrom(r, u)
    <3>1. S2 \in SUBSET Threads /\ S2 # {}
      BY <1>1
    <3> HIDE DEF S2
    <3> QED BY <3>1 DEF Inv, HandlesFormAForest
  <2>2. r # k /\ r \notin gives
    BY <1>1, <1>3, <2>1
  <2>3. CASE r \in S
    <3>1. ASSUME NEW u \in S PROVE ~HangsFrom(r, u)'
      BY <1>2, <1>4, <2>1, <2>2, <2>3
    <3> QED BY <2>3, <3>1
  <2>4. CASE r \notin S
    <3>1. r = t
      BY <2>4
    <3>2. \A u \in S : ~HangsFrom(k, u)'
      BY <1>1, <1>2, <2>4, <3>1
    <3> QED BY <1>6, <3>2
  <2> QED BY <2>3, <2>4
<1> QED BY <1>5, <1>6

\* Nobody waits for nobody, so the waits of a ring would be a cycle of handles.
LEMMA ForestHasNoRing == ASSUME Inv PROVE WaitsNeverFormARing
<1> SUFFICES ASSUME NEW group \in SUBSET Threads, group # {},
                    \A t \in group : waitsFor[t] \in group
             PROVE  FALSE
  BY DEF WaitsNeverFormARing
<1> DEFINE f == [t \in group |-> waitsFor[t]]
<1>1. IsFiniteSet(group)
  BY ThreadFacts, FS_Subset
<1>2. f \in Injection(group, group)
  <2>1. \A t \in group : waitsFor[t] # None
    BY ThreadFacts
  <2>2. \A t, u \in group : waitsFor[t] = waitsFor[u] => t = u
    BY <2>1 DEF Inv, HandlesAreUnique
  <2> QED BY <2>2 DEF Injection, IsInjective
<1>3. f \in Surjection(group, group)
  BY <1>1, <1>2, FS_Injection
<1>4. \A t \in group : \E u \in group : waitsFor[u] = t
  BY <1>3 DEF Surjection
<1>5. PICK t \in group : \A u \in group : ~HangsFrom(t, u)
  BY DEF Inv, HandlesFormAForest
<1> QED BY <1>4, <1>5 DEF HangsFrom

----------------------------------------------------------------------------
\* A step in which only active threads enter a call, and threads join and leave
\* the queue for permits in order.
Orderly ==
  /\ doing' \in [Threads -> {"free", "receiving"} \cup Ch!Sending]
  /\ waiting' \in Seq(Threads)
  /\ WaitersWait'
  /\ \A u \in Threads : doing'[u] # "free" => Active(u)

\* One thread enters, leaves or moves on in its call, without the queue.
LEMMA OneMovesOn ==
  ASSUME Inv, NEW t \in Threads, Active(t),
         NEW d \in {"free", "receiving"} \cup Ch!Sending,
         doing' = [doing EXCEPT ![t] = d], waiting' = waiting, receiver' = receiver,
         doing[t] # "waiting" \/ receiver = None
  PROVE  Orderly
<1>1. \A i \in 1..Len(waiting) : waiting[i] # t
  BY DEF Inv, WaitersWait
<1>2. \A i \in 1..Len(waiting) : doing'[waiting[i]] = "waiting"
  BY <1>1 DEF Inv, WaitersWait, TaskTypes
<1>3. WaitersWait'
  BY <1>2 DEF Inv, WaitersWait
<1>4. \A u \in Threads : doing'[u] # "free" => Active(u)
  BY DEF Inv, OnlyActiveAct, TaskTypes
<1>5. doing' \in [Threads -> {"free", "receiving"} \cup Ch!Sending] /\ waiting' \in Seq(Threads)
  BY DEF Inv, TaskTypes
<1> QED BY <1>3, <1>4, <1>5 DEF Orderly

\* Ends of the channel are handed over or dropped.
LEMMA EndsAreMoved ==
  ASSUME Inv, doing' = doing,
         \/ waiting' = waiting /\ (receiver' = None => receiver = None)
         \/ waiting' = <<>>
  PROVE  Orderly
<1>1. waiting' \in Seq(Threads)
  <2>1. <<>> \in Seq(Threads)
    OBVIOUS
  <2> QED BY <2>1 DEF Inv, TaskTypes
<1>2. WaitersWait'
  BY DEF Inv, WaitersWait
<1> QED BY <1>1, <1>2 DEF Inv, TaskTypes, OnlyActiveAct, Orderly

LEMMA EnqueueIsOrderly ==
  ASSUME Inv, NEW t \in Threads, Active(t), Ch!Enqueue(t)
  PROVE  Orderly
<1>1. /\ doing[t] = "free" /\ doing' = [doing EXCEPT ![t] = "waiting"]
      /\ waiting' = Append(waiting, t) /\ receiver' = receiver /\ receiver # None
  BY DEF Ch!Enqueue, Ch!Begin
<1>2. /\ waiting \in Seq(Threads) /\ doing \in [Threads -> {"free", "receiving"} \cup Ch!Sending]
      /\ \A i \in 1..Len(waiting) : doing[waiting[i]] = "waiting"
  BY DEF Inv, TaskTypes, WaitersWait
<1>3. /\ waiting' \in Seq(Threads) /\ Len(waiting) \in Nat /\ Len(waiting') = Len(waiting) + 1
      /\ \A i \in 1..Len(waiting) : waiting'[i] = waiting[i] /\ waiting[i] \in Threads
      /\ waiting'[Len(waiting) + 1] = t
  BY <1>1, <1>2
<1>4. doing' \in [Threads -> {"free", "receiving"} \cup Ch!Sending]
  BY <1>1, <1>2 DEF Ch!Sending
<1>5. \A i \in 1..Len(waiting) : waiting[i] # t /\ doing'[waiting[i]] = "waiting"
  BY <1>1, <1>2, <1>3
<1>6. doing'[t] = "waiting" /\ \A u \in Threads : u # t => doing'[u] = doing[u]
  BY <1>1, <1>2
<1>7. WaitersWait'
  <2>1. \A i \in 1..Len(waiting') : i \in 1..Len(waiting) \/ i = Len(waiting) + 1
    BY <1>3
  <2>2. \A i \in 1..Len(waiting') : doing'[waiting'[i]] = "waiting"
    BY <1>3, <1>5, <1>6, <2>1
  <2>3. \A i, j \in 1..Len(waiting') : waiting'[i] = waiting'[j] => i = j
    BY <1>3, <1>5, <2>1 DEF Inv, WaitersWait
  <2> QED BY <1>1, <2>2, <2>3 DEF WaitersWait
<1> QED BY <1>3, <1>4, <1>6, <1>7 DEF Orderly, Inv, OnlyActiveAct

LEMMA TakeIsOrderly ==
  ASSUME Inv, NEW t \in Threads, Active(t), Ch!Take(t)
  PROVE  Orderly
<1>1. receiver = t /\ receiver' = receiver /\ doing[t] \in {"free", "receiving"}
  BY DEF Ch!Take
<1>2. CASE waiting = <<>>
  BY <1>1, <1>2, OneMovesOn DEF Ch!Take
<1>3. CASE waiting # <<>>
  <2>1. /\ doing' = [doing EXCEPT ![t] = "free", ![Head(waiting)] = "assigned"]
        /\ waiting' = Tail(waiting)
    BY <1>3 DEF Ch!Take
  <2>2. /\ waiting \in Seq(Threads)
        /\ doing \in [Threads -> {"free", "receiving"} \cup Ch!Sending]
        /\ \A i \in 1..Len(waiting) : doing[waiting[i]] = "waiting"
        /\ \A i, j \in 1..Len(waiting) : waiting[i] = waiting[j] => i = j
        /\ \A u \in Threads : doing[u] # "free" => Active(u)
    BY DEF Inv, TaskTypes, WaitersWait, OnlyActiveAct
  <2>3. /\ Len(waiting) \in Nat \ {0} /\ Head(waiting) = waiting[1] /\ Len(waiting') = Len(waiting) - 1
        /\ waiting' \in Seq(Threads) /\ \A i \in 1..Len(waiting) : waiting[i] \in Threads
        /\ \A i \in 1..Len(waiting') : waiting'[i] = waiting[i + 1]
    BY <1>3, <2>1, <2>2
  <2>4. PICK h \in Threads : h = Head(waiting) /\ doing[h] = "waiting" /\ h # t
    BY <1>1, <2>2, <2>3
  <2>5. /\ doing' \in [Threads -> {"free", "receiving"} \cup Ch!Sending]
        /\ doing'[h] = "assigned" /\ doing'[t] = "free"
        /\ \A u \in Threads : u # t /\ u # h => doing'[u] = doing[u]
    BY <2>1, <2>2, <2>4 DEF Ch!Sending
  <2>6. \A i \in 1..Len(waiting') : i + 1 \in 1..Len(waiting) /\ i + 1 # 1 /\ i \in Nat
    BY <2>3
  <2>7. WaitersWait'
    <3>1. ASSUME NEW i \in 1..Len(waiting') PROVE doing'[waiting'[i]] = "waiting"
      <4>1. PICK k \in 1..Len(waiting) : k = i + 1 /\ k # 1
        BY <2>6
      <4>2. waiting[k] # h /\ waiting[k] # t /\ waiting[k] \in Threads
        BY <1>1, <2>2, <2>3, <2>4, <4>1
      <4> QED BY <2>2, <2>3, <2>5, <4>1, <4>2
    <3>2. \A i, j \in 1..Len(waiting') : waiting'[i] = waiting'[j] => i = j
      BY <2>2, <2>3, <2>6
    <3> QED BY <1>1, <3>1, <3>2, ThreadFacts DEF WaitersWait
  <2>8. \A u \in Threads : doing'[u] # "free" => Active(u)
    BY <2>2, <2>4, <2>5
  <2> QED BY <2>3, <2>5, <2>7, <2>8 DEF Orderly
<1> QED BY <1>2, <1>3

\* A step of the channel.
LEMMA ChannelIsOrderly ==
  ASSUME Inv,
         \/ \E t \in Threads : Idle(t) /\ Ch!Call(t)
         \/ \E t \in Threads : Ch!Proceed(t)
  PROVE  Orderly
<1>1. PICK t \in Threads : Active(t) /\ (Ch!Call(t) \/ Ch!Proceed(t))
  BY IdleFacts DEF Ch!Proceed, Inv, OnlyActiveAct
<1> USE DEF Ch!Sending, Ch!Queued
<1>2. CASE Ch!Acquire(t)
  <2>1. /\ doing[t] = "free" /\ doing' = [doing EXCEPT ![t] = "holding"]
        /\ waiting' = waiting /\ receiver' = receiver
    BY <1>2 DEF Ch!Acquire, Ch!Begin
  <2> QED BY <1>1, <2>1, OneMovesOn
<1>3. CASE Ch!RecvBegin(t) \/ Ch!TakeEnd(t)
  <2>1. PICK d \in {"free", "receiving"} :
          /\ doing[t] \in {"free", "receiving"} /\ doing' = [doing EXCEPT ![t] = d]
          /\ waiting' = waiting /\ receiver' = receiver
    BY <1>3 DEF Ch!RecvBegin, Ch!TakeEnd
  <2> QED BY <1>1, <2>1, OneMovesOn
<1>4. CASE Ch!Wake(t) \/ Ch!Push(t) \/ Ch!Refuse(t)
  <2>1. PICK d \in {"free", "holding"} :
          /\ doing[t] # "waiting" \/ receiver = None
          /\ doing' = [doing EXCEPT ![t] = d]
          /\ waiting' = waiting /\ receiver' = receiver
    BY <1>4 DEF Ch!Wake, Ch!Push, Ch!Refuse
  <2> QED BY <1>1, <2>1, OneMovesOn
<1>5. CASE Ch!DropSender(t) \/ Ch!DropReceiver(t)
  BY <1>5, EndsAreMoved DEF Ch!DropSender, Ch!DropReceiver, Ch!Drop
<1> QED BY <1>1, <1>2, <1>3, <1>4, <1>5, EnqueueIsOrderly, TakeIsOrderly DEF Ch!Call, Ch!Proceed

LEMMA DropIsOrderly ==
  ASSUME Inv, NEW t, Ch!Drop(t, TRUE, TRUE)
  PROVE  Orderly
BY EndsAreMoved DEF Ch!Drop

LEMMA EntrustIsOrderly ==
  ASSUME Inv, NEW t \in Threads, NEW u \in Threads, NEW tx, NEW rx, Ch!Entrust(t, u, tx, rx)
  PROVE  Orderly
BY EndsAreMoved, ThreadFacts DEF Ch!Entrust

----------------------------------------------------------------------------
\* The oldest task of the queue is taken out.
LEMMA HeadLeaves ==
  ASSUME Inv, queue # <<>>, queue' = Tail(queue)
  PROVE  /\ Head(queue) \in Tasks /\ state[Head(queue)] = "queued"
         /\ queue' \in Seq(Tasks)
         /\ \A i \in 1..Len(queue') :
              queue'[i] \in Tasks /\ state[queue'[i]] = "queued" /\ queue'[i] # Head(queue)
         /\ \A i, j \in 1..Len(queue') : queue'[i] = queue'[j] => i = j
<1>1. /\ queue \in Seq(Tasks)
      /\ \A i \in 1..Len(queue) : state[queue[i]] = "queued"
      /\ \A i, j \in 1..Len(queue) : queue[i] = queue[j] => i = j
  BY DEF Inv, TaskTypes, QueueIsQueued
<1>2. /\ Len(queue) \in Nat \ {0} /\ Head(queue) = queue[1] /\ Len(queue') = Len(queue) - 1
      /\ queue' \in Seq(Tasks) /\ \A i \in 1..Len(queue) : queue[i] \in Tasks
      /\ \A i \in 1..Len(queue') : queue'[i] = queue[i + 1]
  BY <1>1
<1>3. \A i \in 1..Len(queue') : i + 1 \in 1..Len(queue) /\ i + 1 # 1 /\ i \in Nat
  BY <1>2
<1>4. 1 \in 1..Len(queue)
  BY <1>2
<1>5. ASSUME NEW i \in 1..Len(queue')
      PROVE  queue'[i] \in Tasks /\ state[queue'[i]] = "queued" /\ queue'[i] # Head(queue)
  <2>1. PICK m \in 1..Len(queue) : m = i + 1 /\ m # 1
    BY <1>3
  <2> QED BY <1>1, <1>2, <1>4, <2>1
<1>6. \A i, j \in 1..Len(queue') : queue'[i] = queue'[j] => i = j
  BY <1>1, <1>2, <1>3
<1> QED BY <1>1, <1>2, <1>4, <1>5, <1>6

\* The state of one task that is born changes to another that is not "unborn".
LEMMA BirthsAreKept ==
  ASSUME Inv, NEW k \in Tasks, ~Unborn(k), NEW s, s # "unborn", state' = [state EXCEPT ![k] = s]
  PROVE  /\ BornInOrder'
         /\ \A j \in Tasks : Unborn(j)' <=> Unborn(j)
<1>1. \A j \in Tasks : Unborn(j)' <=> Unborn(j)
  BY DEF Unborn, Inv, TaskTypes
<1> QED BY <1>1 DEF Inv, BornInOrder

\* A worker takes a task, or drops it.
LEMMA StartKeepsInv == ASSUME Inv, NEW k \in Tasks, Start(k) PROVE Inv'
<1>1. /\ queue # <<>> /\ k = Head(queue) /\ queue' = Tail(queue)
      /\ UNCHANGED <<aborted, waitsFor, verdict>>
  BY DEF Start
<1>2. PICK s \in {"running", "cancelled"} :
        state' = [state EXCEPT ![k] = s] /\ (s = "cancelled" <=> k \in aborted)
  BY DEF Start
<1>3. doing' = doing /\ Orderly
  <2>1. CASE k \in aborted
    BY <2>1, DropIsOrderly DEF Start, Ch!Drop
  <2>2. CASE k \notin aborted
    BY <2>2, EndsAreMoved DEF Start, chVars
  <2> QED BY <2>1, <2>2
<1>4. /\ owner' \in [Tasks -> Threads \cup {None}]
      /\ \A j \in Tasks : owner'[j] = owner[j] \/ owner'[j] = None
  BY DEF Start, Inv, TaskTypes
<1>5. state[k] = "queued" /\ state'[k] = s /\ \A j \in Tasks : j # k => state'[j] = state[j]
  BY <1>1, <1>2, HeadLeaves DEF Inv, TaskTypes
<1>6. BornInOrder' /\ \A j \in Tasks : Unborn(j)' <=> Unborn(j)
  BY <1>2, <1>5, BirthsAreKept DEF Unborn
<1>7. TaskTypes'
  BY <1>1, <1>2, <1>3, <1>4, HeadLeaves DEF Inv, TaskTypes, Orderly, Ended
<1>8. QueueIsQueued'
  BY <1>1, <1>5, HeadLeaves DEF QueueIsQueued
<1>9. OnlyActiveAct'
  <2>1. \A t \in Threads : Active(t) => Active(t)'
    BY <1>5 DEF Active, Threads
  <2>2. \A t \in Threads : doing'[t] # "free" \/ waitsFor'[t] # None => Active(t)'
    BY <1>1, <1>3, <2>1 DEF Inv, OnlyActiveAct
  <2>3. \A j \in Tasks : Unborn(j)' =>
           /\ owner'[j] = None /\ j \notin aborted'
           /\ \A i \in Tasks : owner'[i] # j
           /\ \A u \in Threads : waitsFor'[u] # j
    BY <1>1, <1>4, <1>6, ThreadFacts DEF Inv, OnlyActiveAct
  <2> QED BY <2>2, <2>3 DEF OnlyActiveAct
<1>10. HandlesAreUnique'
  BY <1>1, <1>4 DEF Inv, HandlesAreUnique, TaskTypes
<1>11. HandlesFormAForest'
  <2>1. \A t, u \in Threads : HangsFrom(t, u)' => HangsFrom(t, u)
    BY <1>1, <1>4, ThreadFacts DEF HangsFrom
  <2> QED BY <2>1, FewerEdges DEF Inv
<1>12. VerdictsAreKept'
  <2>1. ASSUME NEW j \in Tasks
        PROVE  /\ state'[j] = "cancelled" => j \in aborted'
               /\ j \in aborted' => state'[j] \in {"queued", "cancelled"}
               /\ verdict'[j] # None => state'[j] \in Ended /\ verdict'[j] = Verdict(j)'
    BY <1>1, <1>2, <1>5 DEF Inv, VerdictsAreKept, Verdict, Ended
  <2> QED BY <2>1 DEF VerdictsAreKept
<1> QED BY <1>3, <1>6, <1>7, <1>8, <1>9, <1>10, <1>11, <1>12 DEF Inv, Orderly

\* A closure ends between two calls.
LEMMA EndKeepsInv == ASSUME Inv, NEW k \in Tasks, End(k) PROVE Inv'
<1>1. /\ state[k] = "running" /\ Idle(k) /\ doing[k] = "free" /\ waitsFor[k] = None
      /\ UNCHANGED <<queue, aborted, waitsFor, verdict>>
      /\ doing' = doing
  BY DEF End, Running, Idle, Ch!Drop
<1>2. PICK s \in {"returned", "panicked"} : state' = [state EXCEPT ![k] = s]
  BY DEF End
<1>3. Orderly
  BY DropIsOrderly DEF End
<1>4. /\ owner' \in [Tasks -> Threads \cup {None}]
      /\ \A j \in Tasks : owner'[j] = owner[j] \/ owner'[j] = None
  BY DEF End, Inv, TaskTypes
<1>5. state'[k] = s /\ \A j \in Tasks : j # k => state'[j] = state[j]
  BY <1>2 DEF Inv, TaskTypes
<1>6. BornInOrder' /\ \A j \in Tasks : Unborn(j)' <=> Unborn(j)
  BY <1>1, <1>2, BirthsAreKept DEF Unborn
<1>7. TaskTypes'
  BY <1>1, <1>2, <1>3, <1>4 DEF Inv, TaskTypes, Orderly, Ended
<1>8. QueueIsQueued'
  <2>1. \A i \in 1..Len(queue) : queue[i] \in Tasks
    BY DEF Inv, TaskTypes
  <2> QED BY <1>1, <1>5, <2>1 DEF Inv, QueueIsQueued
<1>9. OnlyActiveAct'
  <2>1. \A t \in Threads : t # k /\ Active(t) => Active(t)'
    BY <1>5 DEF Active, Threads
  <2>2. \A t \in Threads : doing'[t] # "free" \/ waitsFor'[t] # None => Active(t)'
    BY <1>1, <2>1 DEF Inv, OnlyActiveAct
  <2>3. \A j \in Tasks : Unborn(j)' =>
           /\ owner'[j] = None /\ j \notin aborted'
           /\ \A i \in Tasks : owner'[i] # j
           /\ \A u \in Threads : waitsFor'[u] # j
    BY <1>1, <1>4, <1>6, ThreadFacts DEF Inv, OnlyActiveAct
  <2> QED BY <2>2, <2>3 DEF OnlyActiveAct
<1>10. HandlesAreUnique'
  BY <1>1, <1>4 DEF Inv, HandlesAreUnique, TaskTypes
<1>11. HandlesFormAForest'
  <2>1. \A t, u \in Threads : HangsFrom(t, u)' => HangsFrom(t, u)
    BY <1>1, <1>4, ThreadFacts DEF HangsFrom
  <2> QED BY <2>1, FewerEdges DEF Inv
<1>12. VerdictsAreKept'
  <2>1. ASSUME NEW j \in Tasks
        PROVE  /\ state'[j] = "cancelled" => j \in aborted'
               /\ j \in aborted' => state'[j] \in {"queued", "cancelled"}
               /\ verdict'[j] # None => state'[j] \in Ended /\ verdict'[j] = Verdict(j)'
    BY <1>1, <1>2, <1>5 DEF Inv, VerdictsAreKept, Verdict, Ended
  <2> QED BY <2>1 DEF VerdictsAreKept
<1> QED BY <1>3, <1>6, <1>7, <1>8, <1>9, <1>10, <1>11, <1>12 DEF Inv, Orderly

\* A task is spawned.
LEMMA LaunchKeepsInv ==
  ASSUME Inv, NEW t \in Threads, NEW k \in Tasks, NEW gives \in SUBSET Owned(t),
         NEW tx \in BOOLEAN, NEW rx \in BOOLEAN, Launch(t, k, gives, tx, rx)
  PROVE  Inv'
<1>1. /\ Idle(t) /\ k = Newest + 1
      /\ state' = [state EXCEPT ![k] = "queued"] /\ queue' = Append(queue, k)
      /\ owner' = [j \in Tasks |-> IF j = k THEN t ELSE IF j \in gives THEN k ELSE owner[j]]
      /\ Ch!Entrust(t, k, tx, rx) /\ doing' = doing
      /\ UNCHANGED <<aborted, waitsFor, verdict>>
  BY DEF Launch, Ch!Entrust
<1>2. /\ k \in Nat /\ \A j \in Tasks : Unborn(j) <=> j >= k
      /\ Unborn(k) /\ k \in Threads /\ k # None /\ k # Main
  BY <1>1, NewestIsLast, ThreadFacts DEF Inv
<1>3. /\ owner[k] = None /\ k \notin aborted
      /\ \A j \in Tasks : owner[j] # k
      /\ \A u \in Threads : waitsFor[u] # k
      /\ doing[k] = "free" /\ waitsFor[k] = None
  BY <1>2 DEF Inv, OnlyActiveAct, Active, Unborn
<1>4. t # k /\ t \in Threads /\ (t \in Tasks => ~Unborn(t))
  BY <1>1, <1>2, IdleFacts
<1>5. state'[k] = "queued" /\ \A j \in Tasks : j # k => state'[j] = state[j]
  BY <1>1 DEF Inv, TaskTypes
<1>6. Orderly
  BY <1>1, <1>2, EntrustIsOrderly
<1>7. owner' \in [Tasks -> Threads \cup {None}]
  BY <1>1, <1>2 DEF Inv, TaskTypes
<1>8. TaskTypes'
  <2>1. queue' \in Seq(Tasks)
    BY <1>1 DEF Inv, TaskTypes
  <2>2. state' \in [Tasks -> {"unborn", "queued", "running"} \cup Ended]
    BY <1>1 DEF Inv, TaskTypes
  <2> QED BY <1>1, <1>6, <1>7, <2>1, <2>2 DEF Inv, TaskTypes, Orderly
<1>9. BornInOrder'
  <2>1. k \in 0..MaxTasks
    BY ThreadFacts DEF Tasks
  <2>2. \A j \in Tasks : Unborn(j)' <=> j > k
    BY <1>2, <1>5, ThreadFacts DEF Unborn
  <2> QED BY <2>1, <2>2 DEF BornInOrder
<1>10. QueueIsQueued'
  <2>1. /\ Len(queue) \in Nat /\ Len(queue') = Len(queue) + 1
        /\ \A i \in 1..Len(queue) : queue'[i] = queue[i] /\ queue[i] \in Tasks
        /\ queue'[Len(queue) + 1] = k
        /\ \A i \in 1..Len(queue') : i \in 1..Len(queue) \/ i = Len(queue) + 1
    BY <1>1 DEF Inv, TaskTypes
  <2>2. \A i \in 1..Len(queue) : queue[i] # k
    BY <1>2 DEF Inv, QueueIsQueued, Unborn
  <2>3. \A i \in 1..Len(queue') : state'[queue'[i]] = "queued"
    BY <1>5, <2>1, <2>2 DEF Inv, QueueIsQueued
  <2>4. \A i, j \in 1..Len(queue') : queue'[i] = queue'[j] => i = j
    BY <2>1, <2>2 DEF Inv, QueueIsQueued
  <2> QED BY <2>3, <2>4 DEF QueueIsQueued
<1>11. OnlyActiveAct'
  <2>1. \A u \in Threads : doing'[u] # "free" \/ waitsFor'[u] # None => Active(u)'
    <3>1. \A u \in Threads : u # k /\ Active(u) => Active(u)'
      BY <1>5 DEF Active, Threads
    <3> QED BY <1>1, <1>3, <3>1 DEF Inv, OnlyActiveAct
  <2>2. \A j \in Tasks : Unborn(j)' => Unborn(j) /\ j # k /\ j # t
    BY <1>4, <1>5 DEF Unborn
  <2>3. \A j \in gives : owner[j] = t /\ j \in Tasks
    BY DEF Owned
  <2>4. ASSUME NEW j \in Tasks, Unborn(j)'
        PROVE  /\ owner'[j] = None /\ j \notin aborted'
               /\ \A i \in Tasks : owner'[i] # j
               /\ \A u \in Threads : waitsFor'[u] # j
    <3>1. /\ owner[j] = None /\ j \notin aborted
          /\ \A i \in Tasks : owner[i] # j
          /\ \A u \in Threads : waitsFor[u] # j
      BY <2>2, <2>4 DEF Inv, OnlyActiveAct
    <3>2. j \notin gives
      BY <2>3, <3>1, ThreadFacts
    <3> QED BY <1>1, <2>2, <2>4, <3>1, <3>2
  <2> QED BY <2>1, <2>4 DEF OnlyActiveAct
<1>12. HandlesAreUnique'
  <2>1. ASSUME NEW u \in Threads, waitsFor[u] # None PROVE owner'[waitsFor[u]] = None
    <3>1. /\ waitsFor[u] \in Tasks /\ owner[waitsFor[u]] = None /\ waitsFor[u] # k
      BY <1>3, <2>1 DEF Inv, HandlesAreUnique, TaskTypes
    <3>2. waitsFor[u] \notin gives
      BY <3>1, ThreadFacts DEF Owned
    <3> QED BY <1>1, <3>1, <3>2
  <2> QED BY <1>1, <2>1 DEF Inv, HandlesAreUnique
<1>13. HandlesFormAForest'
  BY <1>1, LaunchKeepsForest
<1>14. VerdictsAreKept'
  <2>1. ASSUME NEW j \in Tasks
        PROVE  /\ state'[j] = "cancelled" => j \in aborted'
               /\ j \in aborted' => state'[j] \in {"queued", "cancelled"}
               /\ verdict'[j] # None => state'[j] \in Ended /\ verdict'[j] = Verdict(j)'
    BY <1>1, <1>2, <1>5 DEF Inv, VerdictsAreKept, Verdict, Ended, Unborn
  <2> QED BY <2>1 DEF VerdictsAreKept
<1> QED BY <1>6, <1>8, <1>9, <1>10, <1>11, <1>12, <1>13, <1>14 DEF Inv, Orderly

\* A handle is used: the tasks and the channel stay as they are, and no edge is new.
LEMMA HandleKeepsInv ==
  ASSUME Inv, NEW t \in Threads, NEW k \in Tasks,
         Cancel(t, k) \/ Detach(t, k) \/ WaitBegin(t, k)
  PROVE  Inv'
<1>1. /\ Active(t) /\ doing[t] = "free" /\ waitsFor[t] = None /\ owner[k] = t
      /\ UNCHANGED <<chVars, state, queue, verdict>>
  BY IdleFacts DEF Cancel, Detach, WaitBegin
<1>2. ~Unborn(k) /\ \A u \in Threads : waitsFor[u] # k
  BY <1>1, ThreadFacts DEF Inv, OnlyActiveAct, HandlesAreUnique
<1>3. /\ aborted' \subseteq Tasks
      /\ \A j \in Tasks : j \in aborted' => j \in aborted \/ (j = k /\ state[k] = "queued")
      /\ \A j \in aborted : j \in aborted'
  BY DEF Cancel, Detach, WaitBegin, Inv, TaskTypes
<1>4. /\ owner' \in [Tasks -> Threads \cup {None}]
      /\ \A j \in Tasks : owner'[j] = owner[j] \/ owner'[j] = None
  BY DEF Cancel, Detach, WaitBegin, Inv, TaskTypes
<1>5. /\ waitsFor' \in [Threads -> Tasks \cup {None}]
      /\ \A u \in Threads : waitsFor'[u] = waitsFor[u] \/ (u = t /\ waitsFor'[u] = k)
      /\ waitsFor'[t] = k => owner'[k] = None
  BY <1>2 DEF Cancel, Detach, WaitBegin, Inv, TaskTypes
<1>6. Orderly
  BY <1>1, EndsAreMoved DEF chVars
<1>7. TaskTypes'
  BY <1>1, <1>3, <1>4, <1>5 DEF Inv, TaskTypes, chVars
<1>8. BornInOrder' /\ QueueIsQueued' /\ \A j \in Tasks : Unborn(j)' <=> Unborn(j)
  BY <1>1 DEF Inv, BornInOrder, QueueIsQueued, Unborn
<1>9. OnlyActiveAct'
  <2>1. \A u \in Threads : Active(u)' <=> Active(u)
    BY <1>1 DEF Active
  <2>2. \A u \in Threads : doing'[u] # "free" \/ waitsFor'[u] # None => Active(u)'
    BY <1>1, <1>5, <2>1 DEF Inv, OnlyActiveAct, chVars
  <2>3. \A j \in Tasks : Unborn(j)' =>
           /\ owner'[j] = None /\ j \notin aborted'
           /\ \A i \in Tasks : owner'[i] # j
           /\ \A u \in Threads : waitsFor'[u] # j
    BY <1>2, <1>3, <1>4, <1>5, <1>8, ThreadFacts DEF Inv, OnlyActiveAct
  <2> QED BY <2>2, <2>3 DEF OnlyActiveAct
<1>10. HandlesAreUnique'
  <2>1. \A u \in Threads : waitsFor'[u] # None => owner'[waitsFor'[u]] = None
    BY <1>4, <1>5 DEF Inv, HandlesAreUnique, TaskTypes
  <2>2. \A u, v \in Threads : waitsFor'[u] # None /\ waitsFor'[u] = waitsFor'[v] => u = v
    BY <1>2, <1>5 DEF Inv, HandlesAreUnique
  <2> QED BY <2>1, <2>2 DEF HandlesAreUnique
<1>11. HandlesFormAForest'
  <2>1. \A r, u \in Threads : HangsFrom(r, u)' => HangsFrom(r, u)
    BY <1>1, <1>4, <1>5, ThreadFacts DEF HangsFrom
  <2> QED BY <2>1, FewerEdges DEF Inv
<1>12. VerdictsAreKept'
  BY <1>1, <1>3 DEF Inv, VerdictsAreKept, Verdict
<1> QED BY <1>6, <1>7, <1>8, <1>9, <1>10, <1>11, <1>12 DEF Inv, Orderly

\* A thread learns what became of the task it waited for.
LEMMA WaitEndKeepsInv == ASSUME Inv, NEW t \in Threads, WaitEnd(t) PROVE Inv'
<1>1. PICK k \in Tasks : k = waitsFor[t] /\ state[k] \in Ended
  BY DEF WaitEnd, Inv, TaskTypes
<1>2. /\ verdict' = [verdict EXCEPT ![k] = Verdict(k)]
      /\ waitsFor' = [waitsFor EXCEPT ![t] = None]
      /\ UNCHANGED <<chVars, state, queue, aborted, owner>>
  BY <1>1 DEF WaitEnd
<1>3. /\ waitsFor' \in [Threads -> Tasks \cup {None}]
      /\ \A u \in Threads : waitsFor'[u] = waitsFor[u] \/ waitsFor'[u] = None
  BY <1>2 DEF Inv, TaskTypes
<1>4. /\ verdict' \in [Tasks -> {"ok", "cancelled", "panicked", None}]
      /\ verdict'[k] = Verdict(k) /\ \A j \in Tasks : j # k => verdict'[j] = verdict[j]
  BY <1>1, <1>2 DEF Inv, TaskTypes, Verdict, Ended
<1>5. Orderly
  BY <1>2, EndsAreMoved DEF chVars
<1>6. TaskTypes'
  BY <1>2, <1>3, <1>4 DEF Inv, TaskTypes, chVars
<1>7. BornInOrder' /\ QueueIsQueued' /\ \A j \in Tasks : Unborn(j)' <=> Unborn(j)
  BY <1>2 DEF Inv, BornInOrder, QueueIsQueued, Unborn
<1>8. OnlyActiveAct'
  <2>1. \A u \in Threads : Active(u)' <=> Active(u)
    BY <1>2 DEF Active
  <2>2. \A u \in Threads : doing'[u] # "free" \/ waitsFor'[u] # None => Active(u)'
    BY <1>2, <1>3, <2>1 DEF Inv, OnlyActiveAct, chVars
  <2>3. \A j \in Tasks : Unborn(j)' =>
           /\ owner'[j] = None /\ j \notin aborted'
           /\ \A i \in Tasks : owner'[i] # j
           /\ \A u \in Threads : waitsFor'[u] # j
    BY <1>2, <1>3, <1>7, ThreadFacts DEF Inv, OnlyActiveAct
  <2> QED BY <2>2, <2>3 DEF OnlyActiveAct
<1>9. HandlesAreUnique'
  BY <1>2, <1>3 DEF Inv, HandlesAreUnique
<1>10. HandlesFormAForest'
  <2>1. \A r, u \in Threads : HangsFrom(r, u)' => HangsFrom(r, u)
    BY <1>2, <1>3, ThreadFacts DEF HangsFrom
  <2> QED BY <2>1, FewerEdges DEF Inv
<1>11. VerdictsAreKept'
  <2>1. ASSUME NEW j \in Tasks
        PROVE  /\ state'[j] = "cancelled" => j \in aborted'
               /\ j \in aborted' => state'[j] \in {"queued", "cancelled"}
               /\ verdict'[j] # None => state'[j] \in Ended /\ verdict'[j] = Verdict(j)'
    BY <1>1, <1>2, <1>4 DEF Inv, VerdictsAreKept, Verdict
  <2> QED BY <2>1 DEF VerdictsAreKept
<1> QED BY <1>5, <1>6, <1>7, <1>8, <1>9, <1>10, <1>11 DEF Inv, Orderly

\* Steps that leave the tasks alone: the channel, the scope, and no step at all.
LEMMA OthersKeepInv ==
  ASSUME Inv, Orderly, UNCHANGED <<state, queue, aborted, owner, waitsFor, verdict>>
  PROVE  Inv'
<1>1. TaskTypes' /\ BornInOrder' /\ QueueIsQueued'
  BY DEF Inv, TaskTypes, BornInOrder, QueueIsQueued, Unborn, Orderly
<1>2. OnlyActiveAct'
  BY DEF Inv, OnlyActiveAct, Orderly, Active, Unborn
<1>3. HandlesAreUnique' /\ VerdictsAreKept'
  BY DEF Inv, HandlesAreUnique, VerdictsAreKept, Verdict
<1>4. HandlesFormAForest'
  BY FewerEdges DEF Inv, HangsFrom
<1> QED BY <1>1, <1>2, <1>3, <1>4 DEF Inv, Orderly

LEMMA StepKeepsInv == ASSUME Inv, [Next]_vars PROVE Inv'
<1>1. CASE \E k \in Tasks : Start(k)
  BY <1>1, StartKeepsInv
<1>2. CASE \E k \in Tasks : End(k)
  BY <1>2, EndKeepsInv
<1>3. CASE \E k \in Tasks : ScopeSpawn(k)
  BY <1>3, LaunchKeepsInv, ThreadFacts DEF ScopeSpawn
<1>4. CASE ScopeEnter \/ ScopeLeave
  BY <1>4, EndsAreMoved, OthersKeepInv DEF ScopeEnter, ScopeLeave, chVars
<1>5. CASE \E t \in Threads, k \in Tasks : Spawn(t, k)
  BY <1>5, LaunchKeepsInv DEF Spawn
<1>6. CASE \E t \in Threads, k \in Tasks : Cancel(t, k) \/ Detach(t, k) \/ WaitBegin(t, k)
  BY <1>6, HandleKeepsInv
<1>7. CASE \E t \in Threads : WaitEnd(t)
  BY <1>7, WaitEndKeepsInv
<1>8. CASE \E t \in Threads : ChannelCall(t) \/ ChannelProceed(t)
  BY <1>8, ChannelIsOrderly, OthersKeepInv DEF ChannelCall, ChannelProceed, taskVars
<1>9. CASE UNCHANGED vars
  BY <1>9, EndsAreMoved, OthersKeepInv DEF vars
<1> QED BY <1>1, <1>2, <1>3, <1>4, <1>5, <1>6, <1>7, <1>8, <1>9 DEF Next

\* The inductive invariant of the tasks.
THEOREM TaskInv == Spec => []Inv
<1>1. Init => Inv
  BY InitEstablishesInv
<1>2. Inv /\ [Next]_vars => Inv'
  BY StepKeepsInv
<1> QED BY <1>1, <1>2, PTL DEF Spec

----------------------------------------------------------------------------
\* No group of threads ever waits for its own members: JoinHandle::wait
\* consumes a handle that was moved only to younger tasks.
THEOREM NeverARing == Spec => []WaitsNeverFormARing
<1>1. Inv => WaitsNeverFormARing
  BY ForestHasNoRing
<1> QED BY <1>1, TaskInv, PTL

\* JoinHandle::wait returns a value if and only if the closure ran to its end,
\* and Cancelled exactly when an abort reached it in the queue.
THEOREM VerdictsAreTrue == Spec => []WaitTellsWhatRan
<1>1. ASSUME Inv PROVE WaitTellsWhatRan
  <2>1. ASSUME NEW k \in Tasks
        PROVE  /\ verdict[k] = "cancelled" <=> verdict[k] # None /\ k \in aborted
               /\ verdict[k] = "ok" => state[k] = "returned"
               /\ k \in aborted => state[k] \in {"queued", "cancelled"}
    BY <1>1, TaskAssumption DEF Inv, VerdictsAreKept, Verdict, Ended
  <2> QED BY <2>1 DEF WaitTellsWhatRan
<1> QED BY <1>1, TaskInv, PTL

\* spawn moves ends of a channel to a task that is not spawned yet, and a task
\* drops its ends outside of any call: to the channel, both are steps that its
\* protocol allows, and the rest are calls of its own or none.
THEOREM TasksObeyTheChannel == Spec => ImplementsChannel
<1> USE DEF Ch!chVars
<1>1. Init => Ch!ChInit
  BY DEF Init
<1>2. ASSUME Inv, [Next]_vars PROVE [Ch!ChNext]_(Ch!chVars)
  <2>1. ASSUME NEW k \in Tasks, Start(k) PROVE [Ch!ChNext]_(Ch!chVars)
    <3>1. CASE k \in aborted
      <4>1. k \in Threads /\ doing[k] = "free"
        <5>1. state[k] = "queued"
          BY <2>1, <1>2, HeadLeaves DEF Start
        <5> QED BY <1>2, <5>1, ThreadFacts DEF Inv, OnlyActiveAct, Active
      <4> QED BY <2>1, <3>1, <4>1 DEF Start, Ch!ChNext, Ch!HandOver
    <3>2. CASE k \notin aborted
      BY <2>1, <3>2 DEF Start, chVars
    <3> QED BY <3>1, <3>2
  <2>2. ASSUME NEW k \in Tasks, End(k) PROVE [Ch!ChNext]_(Ch!chVars)
    BY <2>2, ThreadFacts DEF End, Idle, Ch!ChNext, Ch!HandOver
  <2>3. ASSUME NEW t \in Threads, NEW k \in Tasks, NEW gives, NEW tx \in BOOLEAN,
               NEW rx \in BOOLEAN, Launch(t, k, gives, tx, rx)
        PROVE  [Ch!ChNext]_(Ch!chVars)
    <3>1. Idle(t) /\ k = Newest + 1 /\ Ch!Entrust(t, k, tx, rx)
      BY <2>3 DEF Launch
    <3>2. Unborn(k) /\ k \in Threads
      BY <1>2, <3>1, NewestIsLast, ThreadFacts DEF Inv
    <3>3. t # k /\ doing[t] = "free"
      BY <1>2, <3>1, <3>2, IdleFacts
    <3> QED BY <3>1, <3>2, <3>3 DEF Ch!ChNext, Ch!HandOver
  <2>4. ASSUME NEW k \in Tasks, ScopeSpawn(k) PROVE [Ch!ChNext]_(Ch!chVars)
    BY <2>3, <2>4, ThreadFacts DEF ScopeSpawn
  <2>5. ASSUME NEW t \in Threads, NEW k \in Tasks, Spawn(t, k)
        PROVE  [Ch!ChNext]_(Ch!chVars)
    BY <2>3, <2>5 DEF Spawn
  <2>6. ASSUME NEW t \in Threads, ChannelCall(t) \/ ChannelProceed(t)
        PROVE  [Ch!ChNext]_(Ch!chVars)
    BY <2>6 DEF ChannelCall, ChannelProceed, Ch!ChNext
  <2>7. CASE \/ ScopeEnter \/ ScopeLeave \/ UNCHANGED vars
             \/ \E t \in Threads, k \in Tasks :
                  Cancel(t, k) \/ Detach(t, k) \/ WaitBegin(t, k)
    BY <2>7 DEF ScopeEnter, ScopeLeave, Cancel, Detach, WaitBegin, chVars, vars
  <2>8. ASSUME NEW t \in Threads, WaitEnd(t) PROVE [Ch!ChNext]_(Ch!chVars)
    BY <2>8 DEF WaitEnd, chVars
  <2> QED BY <1>2, <2>1, <2>2, <2>4, <2>5, <2>6, <2>7, <2>8 DEF Next
<1> QED BY <1>1, <1>2, TaskInv, PTL DEF Spec, ImplementsChannel
=============================================================================
