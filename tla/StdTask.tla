------------------------------ MODULE StdTask -------------------------------
(***************************************************************************)
(* Tasks of the standard library, crates/cobrust-stdlib/src/task.rs over   *)
(* tokio's blocking pool, composed with a channel that the tasks and the   *)
(* thread that spawns them share (StdChannel).                             *)
(*                                                                         *)
(* A spawned closure is queued for a worker thread of a bounded pool.  A   *)
(* JoinHandle has one owner; it may be waited on, cancelled, moved into    *)
(* another closure, or dropped.  Closures are any program: between two     *)
(* calls they may return or panic at any time, or never.                   *)
(***************************************************************************)
EXTENDS Integers, Sequences, FiniteSets, FiniteSetsExt

CONSTANTS
  MaxTasks,   \* bound: calls of spawn; tasks are numbered as they are spawned
  Main,       \* the thread of the program, which opens a scope
  PoolSize,   \* tokio's limit on blocking threads
  Capacity, MaxMessages, None   \* as in StdChannel

ASSUME TaskAssumption ==
  /\ MaxTasks \in Nat
  /\ Main \notin 1..MaxTasks /\ None \notin 1..MaxTasks \cup {Main}
  /\ None \notin {"ok", "cancelled", "panicked"}
  /\ PoolSize \in Nat \ {0}

Tasks == 1..MaxTasks
Threads == Tasks \cup {Main}

VARIABLES
  holders, receiver, permits, waiting, buffer, doing, hand, next,
  accepted, received, ended,   \* the channel, see StdChannel
  state,      \* state[k]: of task k
  queue,      \* tasks waiting for a worker, in order of spawn
  flag,       \* tasks whose cancel_flag is set
  aborted,    \* tasks abort() reached in the queue; later it has no effect
  owner,      \* owner[k]: the thread that holds the JoinHandle of k, or None
  waitsFor,   \* waitsFor[t]: the task thread t blocks on in wait, or None
  verdict,    \* verdict[k]: what wait returned for k, or None
  scope,      \* the scope that Main opens: "new", "open" or "left"
  children    \* tasks spawned through it

chVars == <<holders, receiver, permits, waiting, buffer, doing, hand, next,
            accepted, received, ended>>
taskVars == <<state, queue, flag, aborted, owner, waitsFor, verdict, scope, children>>
vars == <<holders, receiver, permits, waiting, buffer, doing, hand, next,
          accepted, received, ended,
          state, queue, flag, aborted, owner, waitsFor, verdict, scope, children>>

Ch == INSTANCE StdChannel WITH First <- Main

Ended == {"returned", "panicked", "cancelled"}

TypeOK ==
  /\ Ch!ChTypeOK
  /\ state \in [Tasks -> {"unborn", "queued", "running"} \cup Ended]
  /\ queue \in Seq(Tasks)
  /\ flag \subseteq Tasks /\ aborted \subseteq Tasks
  /\ owner \in [Tasks -> Threads \cup {None}]
  /\ waitsFor \in [Threads -> Tasks \cup {None}]
  /\ verdict \in [Tasks -> {"ok", "cancelled", "panicked", None}]
  /\ scope \in {"new", "open", "left"}
  /\ children \subseteq Tasks

Init ==
  /\ Ch!ChInit
  /\ state = [k \in Tasks |-> "unborn"]
  /\ queue = <<>>
  /\ flag = {} /\ aborted = {}
  /\ owner = [k \in Tasks |-> None]
  /\ waitsFor = [t \in Threads |-> None]
  /\ verdict = [k \in Tasks |-> None]
  /\ scope = "new" /\ children = {}

Running == {k \in Tasks : state[k] = "running"}
Newest == Cardinality({k \in Tasks : state[k] # "unborn"})
Owned(t) == {k \in Tasks : owner[k] = t}

\* Thread t is in the program's own code, outside of any call.
Idle(t) == (t = Main \/ t \in Running) /\ doing[t] = "free" /\ waitsFor[t] = None

----------------------------------------------------------------------------
(* The pool *)

\* Mutant of Start: an aborted task is passed over and stays in the queue.
StartUnlessAborted(k) ==
  /\ queue # <<>> /\ k = Head(queue) /\ k \notin aborted
  /\ Cardinality(Running) < PoolSize
  /\ queue' = Tail(queue)
  /\ state' = [state EXCEPT ![k] = "running"]
  /\ UNCHANGED <<chVars, flag, aborted, owner, waitsFor, verdict, scope, children>>

\* A worker takes the oldest task.  An aborted one is dropped unstarted, with
\* what its closure captured.
Start(k) ==
  /\ queue # <<>> /\ k = Head(queue)
  /\ Cardinality(Running) < PoolSize
  /\ queue' = Tail(queue)
  /\ IF k \in aborted
       THEN /\ state' = [state EXCEPT ![k] = "cancelled"]
            /\ owner' = [j \in Tasks |-> IF owner[j] = k THEN None ELSE owner[j]]
            /\ Ch!Drop(k, TRUE, TRUE)
       ELSE state' = [state EXCEPT ![k] = "running"] /\ UNCHANGED <<chVars, owner>>
  /\ UNCHANGED <<flag, aborted, waitsFor, verdict, scope, children>>

\* Mutant of End: an abort tears down a closure in the middle of a call.
EndAnywhere(k) ==
  /\ k \in Running
  /\ k \in flag \/ Idle(k)
  /\ \E how \in {"returned", "panicked"} : state' = [state EXCEPT ![k] = how]
  /\ owner' = [j \in Tasks |-> IF owner[j] = k THEN None ELSE owner[j]]
  /\ Ch!Drop(k, TRUE, TRUE)
  /\ UNCHANGED <<queue, flag, aborted, waitsFor, verdict, scope, children>>

\* The closure returns or panics; its handles are dropped, which detaches the
\* tasks it owned.
End(k) ==
  /\ k \in Running /\ Idle(k)
  /\ \E how \in {"returned", "panicked"} : state' = [state EXCEPT ![k] = how]
  /\ owner' = [j \in Tasks |-> IF owner[j] = k THEN None ELSE owner[j]]
  /\ Ch!Drop(k, TRUE, TRUE)
  /\ UNCHANGED <<queue, flag, aborted, waitsFor, verdict, scope, children>>

----------------------------------------------------------------------------
(* spawn, Scope::spawn *)

\* t spawns k, whose closure captures the handles in gives and ends of the channel.
Launch(t, k, gives, tx, rx) ==
  /\ Idle(t) /\ k = Newest + 1
  /\ state' = [state EXCEPT ![k] = "queued"]
  /\ queue' = Append(queue, k)
  /\ owner' = [j \in Tasks |-> IF j = k THEN t ELSE IF j \in gives THEN k ELSE owner[j]]
  /\ Ch!Entrust(t, k, tx, rx)
  /\ UNCHANGED <<flag, aborted, waitsFor, verdict>>

\* Mutant of Spawn: the new task is handed a handle of itself.
SpawnWithOwnHandle(t, k) ==
  /\ Idle(t) /\ k = Newest + 1
  /\ state' = [state EXCEPT ![k] = "queued"]
  /\ queue' = Append(queue, k)
  /\ owner' = [owner EXCEPT ![k] = k]
  /\ \E tx, rx \in BOOLEAN : Ch!Entrust(t, k, tx, rx)
  /\ UNCHANGED <<flag, aborted, waitsFor, verdict, scope, children>>

Spawn(t, k) ==
  /\ \E gives \in SUBSET Owned(t), tx, rx \in BOOLEAN : Launch(t, k, gives, tx, rx)
  /\ UNCHANGED <<scope, children>>

\* The scope keeps the flag of its child, and no handle of the task.
ScopeSpawn(k) ==
  /\ scope = "open"
  /\ \E gives \in SUBSET Owned(Main), tx, rx \in BOOLEAN : Launch(Main, k, gives, tx, rx)
  /\ children' = children \cup {k}
  /\ UNCHANGED scope

ScopeEnter ==
  /\ Idle(Main) /\ scope = "new"
  /\ scope' = "open"
  /\ UNCHANGED <<chVars, state, queue, flag, aborted, owner, waitsFor, verdict, children>>

\* The body returns or panics: the flags of the children are set.  inner is
\* None in every TypedChild, so that there is nothing to abort or to await.
ScopeLeave ==
  /\ Idle(Main) /\ scope = "open"
  /\ scope' = "left"
  /\ flag' = flag \cup children
  /\ UNCHANGED <<chVars, state, queue, aborted, owner, waitsFor, verdict, children>>

----------------------------------------------------------------------------
(* JoinHandle *)

Cancel(t, k) ==
  /\ Idle(t) /\ owner[k] = t
  /\ flag' = flag \cup {k}
  /\ aborted' = IF state[k] = "queued" THEN aborted \cup {k} ELSE aborted
  /\ UNCHANGED <<chVars, state, queue, owner, waitsFor, verdict, scope, children>>

Detach(t, k) ==
  /\ Idle(t) /\ owner[k] = t
  /\ owner' = [owner EXCEPT ![k] = None]
  /\ UNCHANGED <<chVars, state, queue, flag, aborted, waitsFor, verdict, scope, children>>

\* wait consumes the handle and blocks.
WaitBegin(t, k) ==
  /\ Idle(t) /\ owner[k] = t
  /\ owner' = [owner EXCEPT ![k] = None]
  /\ waitsFor' = [waitsFor EXCEPT ![t] = k]
  /\ UNCHANGED <<chVars, state, queue, flag, aborted, verdict, scope, children>>

\* Mutant of Verdict: a task that ignored the request counts as cancelled.
VerdictByFlag(k) ==
  IF k \in flag THEN "cancelled"
  ELSE IF state[k] = "returned" THEN "ok" ELSE state[k]

\* The value whenever there is one, even if cancel was requested.
Verdict(k) == IF state[k] = "returned" THEN "ok" ELSE state[k]

WaitEnd(t) ==
  /\ waitsFor[t] # None
  /\ state[waitsFor[t]] \in Ended
  /\ verdict' = [verdict EXCEPT ![waitsFor[t]] = Verdict(waitsFor[t])]
  /\ waitsFor' = [waitsFor EXCEPT ![t] = None]
  /\ UNCHANGED <<chVars, state, queue, flag, aborted, owner, scope, children>>

----------------------------------------------------------------------------
ChannelCall(t) == Idle(t) /\ Ch!Call(t) /\ UNCHANGED taskVars
ChannelProceed(t) == Ch!Proceed(t) /\ UNCHANGED taskVars

Next ==
  \/ \E k \in Tasks : Start(k) \/ End(k) \/ ScopeSpawn(k)
  \/ ScopeEnter \/ ScopeLeave
  \/ \E t \in Threads, k \in Tasks :
       Spawn(t, k) \/ Cancel(t, k) \/ Detach(t, k) \/ WaitBegin(t, k)
  \/ \E t \in Threads : WaitEnd(t) \/ ChannelCall(t) \/ ChannelProceed(t)

\* Workers take tasks while they can, and a thread is woken when what it waits
\* for is there.  The program owes nothing: a closure may run for ever.
Fairness ==
  /\ \A k \in Tasks : WF_vars(Start(k))
  /\ \A t \in Threads : WF_vars(WaitEnd(t)) /\ WF_vars(ChannelProceed(t))

Spec == Init /\ [][Next]_vars /\ Fairness

----------------------------------------------------------------------------
(* Properties *)

\* wait tells what happened to the closure: a value if and only if it ran to
\* its end, Cancelled only if it never ran, because it was told to stop before
\* a worker took it; and then always.
WaitTellsWhatRan ==
  \A k \in Tasks :
    /\ verdict[k] = "cancelled" <=> verdict[k] # None /\ k \in aborted
    /\ verdict[k] = "ok" => state[k] = "returned"
    /\ k \in aborted => state[k] \in {"queued", "cancelled"}

\* Handles cannot be copied and only go to younger tasks, so no group of
\* threads waits for its own members: in every group some thread does not.
\* Waiting alone never deadlocks, unless the pool has no worker left.
WaitsNeverFormARing ==
  \A group \in (SUBSET Threads) \ {{}} : \E t \in group : waitsFor[t] \notin group

\* A task is left in the queue only while every worker is taken: whenever
\* one comes free again and again, the task is started.
QueuedTasksAreServed ==
  \A k \in Tasks :
    ([]<>(Cardinality(Running) < PoolSize)) => (state[k] = "queued" ~> state[k] # "queued")

\* The threads of the pool use the channel as its protocol demands, and all
\* that StdChannel promises of any threads holds of them.
ImplementsChannel == Ch!ChInit /\ [][Ch!ChNext]_(Ch!chVars)

\* task.rs:288 "The scope blocks until every child terminates before
\* returning."
ScopeJoinsChildren ==
  scope = "left" => \A k \in children : state[k] \in Ended
=============================================================================
