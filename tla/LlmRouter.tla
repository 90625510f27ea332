----------------------------- MODULE LlmRouter -----------------------------
(***************************************************************************)
(* Router::dispatch of crates/cobrust-llm-router/src/router.rs, composed   *)
(* with the cache files of LlmCache and the token ledger.                  *)
(*                                                                         *)
(* A dispatch under the strategies quality, cost and latency is one worker *)
(* that walks an order of (provider, model) entries until one answers; a   *)
(* consensus dispatch spawns one worker for each of the first n entries,   *)
(* joins them all and votes.  A worker runs try_provider: cache lookup,    *)
(* then calls with retries, then cache store, then ledger entry.           *)
(*                                                                         *)
(* Workers interleave at their await points.  What they do between two of  *)
(* them is one step here.  Time is abstract: a transient failure may or    *)
(* may not find the elapsed-time budget exhausted, and back-off sleeps and *)
(* EWMA values are not represented, only the orders they can produce.      *)
(***************************************************************************)
EXTENDS Naturals, Sequences, FiniteSets, FiniteSetsExt, Functions

CONSTANTS
  Dispatches,    \* concurrent calls of Router::dispatch
  Scenarios,     \* sets of dispatches that are made together
  Failing,       \* dispatches whose system calls and ledger appends may fail
  Route,         \* Route[d]: [strategy, preferred, n, request, max_attempts]
  Entries,       \* (provider, model) pairs of the routing table
  Texts,         \* completions a provider may return
  HashRank,      \* HashRank[x]: place of the hash of x in lexicographic order
  Echoing,       \* entries whose provider reports the model name it was asked for
  Inodes, None   \* as in LlmCache

Strategies == {"quality", "cost", "latency", "consensus"}
Errors == {"error_transient", "error_permanent"}

MaxAttempts(d) == Route[d].max_attempts

IsConsensus(d) == Route[d].strategy = "consensus"

\* The shards of a dispatch: preferred[..take_n], or the one sequential walk.
Shards(d) ==
  IF IsConsensus(d) THEN 1..Min({Route[d].n, Len(Route[d].preferred)}) ELSE {1}

WorkersOf(d) == {<<d, i>> : i \in Shards(d)}
Workers == UNION {WorkersOf(d) : d \in Dispatches}

Keys == Entries \X {Route[d].request : d \in Dispatches}

ASSUME RouterAssumption ==
  /\ \A d \in Dispatches :
       /\ Route[d].strategy \in Strategies
       /\ Route[d].preferred \in Seq(Entries) /\ Route[d].preferred # <<>>
       /\ Route[d].max_attempts \in Nat   \* RetryPolicy of its router
       /\ Route[d].strategy = "consensus" =>
            Route[d].n \in 2..Len(Route[d].preferred)
  /\ Scenarios \subseteq SUBSET Dispatches /\ Failing \subseteq Dispatches
  /\ HashRank \in [Texts -> Nat]

\* A completion is neither an outcome of a call nor the state of a file, and a
\* missing value is nothing else.
ASSUME NamesAreApart ==
  /\ Texts \cap ({"ok", "empty", "torn", "stored", "failed", "miss", "poisoned"} \cup Errors) = {}
  /\ None \notin Texts \cup {"empty", "torn", "stored", "failed", "miss", "poisoned"}
  /\ None \notin Keys /\ None \notin Inodes /\ None \notin Workers

VARIABLES
  tmp, pub, data, pc, key, text, fd, out,   \* the cache, see LlmCache
  phase,     \* phase[d]: how far the dispatch is
  order,     \* order[d]: the entries in the order they are tried
  answer,    \* answer[d]: the worker whose completion is returned, or None
  step,      \* step[w]: next await point of try_provider
  at,        \* at[w]: position in order[d] of the entry being tried
  attempt,   \* attempt[w]: number of the next or current call, from 1
  result,    \* result[w]: completion in hand, or None
  calls,     \* history: every call a provider has answered
  ledger,    \* entries of ledger.jsonl
  seen       \* entries with a latency observation

cacheVars == <<tmp, pub, data, pc, key, text, fd, out>>
vars == <<tmp, pub, data, pc, key, text, fd, out,
          phase, order, answer, step, at, attempt, result, calls, ledger, seen>>

\* Nothing keeps two workers from storing under one key at the same time.
Cache == INSTANCE LlmCache WITH Tasks <- Workers, OverlappingPuts <- TRUE,
                                IoFaults <- TRUE

Decided == {"answered", "all_failed", "quorum_lost"}
Steps == {"off", "lookup", "reading", "log_hit", "call", "storing", "log_ok",
          "log_err", "done_ok", "done_err"}

Call == [worker : Workers, at : Nat, attempt : Nat, outcome : Texts \cup Errors]
LedgerEntry == [worker : Workers, at : Nat, attempt : Nat, cache_hit : BOOLEAN,
                outcome : {"ok"} \cup Errors]

\* In particular, the walk of dispatch_ordered never passes the end of the list.
TypeOK ==
  /\ Cache!TypeOK
  /\ phase \in [Dispatches -> {"unasked", "new", "running"} \cup Decided]
  /\ order \in [Dispatches -> Seq(Entries)]
  /\ answer \in [Dispatches -> Workers \cup {None}]
  /\ step \in [Workers -> Steps]
  /\ at \in [Workers -> Nat \ {0}]
  /\ \A w \in Workers : at[w] <= Len(Route[w[1]].preferred)
  /\ attempt \in [Workers -> Nat]
  /\ result \in [Workers -> Texts \cup {None}]
  /\ calls \subseteq Call
  /\ ledger \subseteq LedgerEntry
  /\ seen \subseteq Entries

Init ==
  /\ Cache!Init
  /\ \E S \in Scenarios :
       phase = [d \in Dispatches |-> IF d \in S THEN "new" ELSE "unasked"]
  /\ order = [d \in Dispatches |-> <<>>]
  /\ answer = [d \in Dispatches |-> None]
  /\ step = [w \in Workers |-> "off"]
  /\ at = [w \in Workers |-> w[2]]
  /\ attempt = [w \in Workers |-> 1]
  /\ result = [w \in Workers |-> None]
  /\ calls = {}
  /\ ledger = {}
  /\ seen = {}

----------------------------------------------------------------------------
\* The entry worker w is trying, and the cache key of its request there.
EntryAt(w, i) == order[w[1]][i]
Entry(w) == EntryAt(w, at[w])

\* Mutant of KeyOf: the key leaves the provider and the model out.
KeyOfRequestOnly(w) == <<CHOOSE e \in Entries : TRUE, Route[w[1]].request>>

KeyOf(w) == <<Entry(w), Route[w[1]].request>>

\* order_preferred.  A latency-ordered list is some permutation of the
\* preferred entries in which those never observed come last, as listed.
Orders(d) ==
  LET listed == Route[d].preferred
      Places == DOMAIN listed
      Unseen(i) == listed[i] \notin seen
  IN  IF Route[d].strategy # "latency" THEN {listed}
      ELSE {[i \in Places |-> listed[p[i]]] :
              p \in {q \in Bijection(Places, Places) :
                       \A i, j \in Places : i < j /\ Unseen(q[i]) =>
                         Unseen(q[j]) /\ q[i] < q[j]}}

Start(d) ==
  /\ phase[d] = "new"
  /\ phase' = [phase EXCEPT ![d] = "running"]
  /\ \E o \in Orders(d) : order' = [order EXCEPT ![d] = o]
  /\ step' = [w \in Workers |-> IF w[1] = d THEN "lookup" ELSE step[w]]
  /\ UNCHANGED <<cacheVars, answer, at, attempt, result, calls, ledger, seen>>

----------------------------------------------------------------------------
\* try_provider.  Advance moves on inside it; Fail leaves it with an error.

Advance(w, next) ==
  /\ step' = [step EXCEPT ![w] = next]
  /\ UNCHANGED <<phase, order, answer, at, attempt>>

\* Mutant of Fail: the walk goes on past the last entry.
FailOffByOne(w) ==
  LET more == ~IsConsensus(w[1]) /\ at[w] <= Len(order[w[1]]) IN
    /\ step' = [step EXCEPT ![w] = IF more THEN "lookup" ELSE "done_err"]
    /\ at' = [at EXCEPT ![w] = IF more THEN @ + 1 ELSE @]
    /\ attempt' = [attempt EXCEPT ![w] = IF more THEN 1 ELSE @]
    /\ result' = [result EXCEPT ![w] = None]
    /\ UNCHANGED <<phase, order, answer>>

\* dispatch_ordered goes on to the next entry; a consensus shard has only one.
Fail(w) ==
  LET more == ~IsConsensus(w[1]) /\ at[w] < Len(order[w[1]]) IN
    /\ step' = [step EXCEPT ![w] = IF more THEN "lookup" ELSE "done_err"]
    /\ at' = [at EXCEPT ![w] = IF more THEN @ + 1 ELSE @]
    /\ attempt' = [attempt EXCEPT ![w] = IF more THEN 1 ELSE @]
    /\ result' = [result EXCEPT ![w] = None]
    /\ UNCHANGED <<phase, order, answer>>

LookupMiss(w) ==
  /\ step[w] = "lookup"
  /\ Cache!GetMiss(w, KeyOf(w))
  /\ Advance(w, "call")
  /\ UNCHANGED <<result, calls, ledger, seen>>

LookupOpen(w) ==
  /\ step[w] = "lookup"
  /\ Cache!GetOpen(w, KeyOf(w))
  /\ Advance(w, "reading")
  /\ UNCHANGED <<result, calls, ledger, seen>>

\* An entry that cannot be read or parsed ends the attempt at this provider,
\* without a ledger entry.
LookupRead(w) ==
  /\ step[w] = "reading"
  /\ Cache!GetRead(w) \/ (w[1] \in Failing /\ Cache!GetFail(w))
  /\ IF out'[w] \in Texts
       THEN /\ Advance(w, "log_hit")
            /\ result' = [result EXCEPT ![w] = out'[w]]
       ELSE Fail(w)
  /\ UNCHANGED <<calls, ledger, seen>>

Answered(w, outcome) ==
  calls' = calls \cup
    {[worker |-> w, at |-> at[w], attempt |-> attempt[w], outcome |-> outcome]}

\* provider.complete returns a completion; cache.put begins.
CallSucceeds(w) ==
  /\ step[w] = "call"
  /\ \E x \in Texts :
       /\ Answered(w, x)
       /\ Cache!PutBegin(w, KeyOf(w), x)
       /\ result' = [result EXCEPT ![w] = x]
  /\ Advance(w, "storing")
  /\ UNCHANGED <<ledger, seen>>

CallFails(w) ==
  /\ step[w] = "call"
  /\ \E e \in Errors : Answered(w, e)
  /\ Advance(w, "log_err")
  /\ UNCHANGED <<cacheVars, result, ledger, seen>>

\* One step of cache.put.  When it returns an error the completion is given up.
Storing(w) ==
  /\ step[w] = "storing"
  /\ Cache!Continue(w) \/ (w[1] \in Failing /\ Cache!PutFail(w))
  /\ \/ pc'[w] # "idle" /\ Advance(w, "storing") /\ UNCHANGED <<result, seen>>
     \/ /\ pc'[w] = "idle" /\ out'[w] = "stored"
        /\ Advance(w, "log_ok")
        /\ seen' = seen \cup {Entry(w)}
        /\ UNCHANGED result
     \/ pc'[w] = "idle" /\ out'[w] = "failed" /\ Fail(w) /\ UNCHANGED seen
  /\ UNCHANGED <<calls, ledger>>

AppendEntry(w, hit, outcome) ==
  ledger' = ledger \cup
    {[worker |-> w, at |-> at[w], attempt |-> attempt[w], cache_hit |-> hit,
      outcome |-> outcome]}

\* Mutant of LogAnswer: a hit is billed like a completion.
LogAnswerAsMiss(w) ==
  /\ step[w] \in {"log_hit", "log_ok"}
  /\ AppendEntry(w, FALSE, "ok")
  /\ Advance(w, "done_ok")
  /\ UNCHANGED <<cacheVars, result, calls, seen>>

LogAnswer(w) ==
  /\ step[w] \in {"log_hit", "log_ok"}
  /\ AppendEntry(w, step[w] = "log_hit", "ok")
  /\ Advance(w, "done_ok")
  /\ UNCHANGED <<cacheVars, result, calls, seen>>

LastOutcome(w) ==
  (CHOOSE c \in calls : c.worker = w /\ c.at = at[w] /\ c.attempt = attempt[w]).outcome

\* A permanent error, the last attempt, or too much time gone: give up here.
LogErrorFinal(w) ==
  /\ step[w] = "log_err"
  /\ AppendEntry(w, FALSE, LastOutcome(w))
  /\ Fail(w)
  /\ UNCHANGED <<cacheVars, calls, seen>>

Retry(w, next) ==
  /\ attempt' = [attempt EXCEPT ![w] = next]
  /\ step' = [step EXCEPT ![w] = "call"]
  /\ UNCHANGED <<cacheVars, phase, order, answer, at, result, calls, seen>>

MayRetry(w) ==
  /\ step[w] = "log_err"
  /\ LastOutcome(w) = "error_transient"

\* Mutants of LogErrorRetry: one call too many; an attempt that is not
\* recorded; attempts that are not counted.
LogErrorRetryOffByOne(w) ==
  /\ MayRetry(w)
  /\ attempt[w] <= MaxAttempts(w[1])
  /\ AppendEntry(w, FALSE, LastOutcome(w))
  /\ Retry(w, attempt[w] + 1)

RetryUnrecorded(w) ==
  /\ MayRetry(w)
  /\ attempt[w] < MaxAttempts(w[1])
  /\ Retry(w, attempt[w] + 1)
  /\ UNCHANGED ledger

LogErrorRetryUncounted(w) ==
  /\ MayRetry(w)
  /\ attempt[w] < MaxAttempts(w[1])
  /\ AppendEntry(w, FALSE, LastOutcome(w))
  /\ Retry(w, attempt[w])

LogErrorRetry(w) ==
  /\ MayRetry(w)
  /\ attempt[w] < MaxAttempts(w[1])
  /\ AppendEntry(w, FALSE, LastOutcome(w))
  /\ Retry(w, attempt[w] + 1)

\* An append that fails turns the outcome of the attempt into an error.
LogFails(w) ==
  /\ w[1] \in Failing
  /\ step[w] \in {"log_hit", "log_ok", "log_err"}
  /\ Fail(w)
  /\ UNCHANGED <<cacheVars, calls, ledger, seen>>

----------------------------------------------------------------------------
\* dispatch_consensus: quorum and consensus_pick.

Successes(d) == {w \in WorkersOf(d) : step[w] = "done_ok"}
TakeN(d) == Cardinality(Shards(d))

\* Mutant of NeedQuorum: the quorum is rounded down.
NeedQuorumRoundedDown(d) == TakeN(d) \div 2

NeedQuorum(d) == (TakeN(d) \div 2) + (TakeN(d) % 2)

VotesFor(d, x) == {w \in Successes(d) : result[w] = x}

\* The largest group; on a tie the one with the smallest hash.
WinningText(d) ==
  CHOOSE x \in Texts : \A y \in Texts :
    \/ Cardinality(VotesFor(d, x)) > Cardinality(VotesFor(d, y))
    \/ /\ Cardinality(VotesFor(d, x)) = Cardinality(VotesFor(d, y))
       /\ HashRank[x] <= HashRank[y]

\* preferred_index looks the answer's provider and model up in the list; a
\* provider that reports another model name is not found there.
PreferredIndex(w) ==
  IF Entry(w) \in Echoing
    THEN Min({i \in DOMAIN Route[w[1]].preferred : Route[w[1]].preferred[i] = Entry(w)})
    ELSE Len(Route[w[1]].preferred) + 1

Pick(d) ==
  LET group == VotesFor(d, WinningText(d)) IN
    CHOOSE w \in group : \A v \in group :
      \/ PreferredIndex(w) < PreferredIndex(v)
      \/ PreferredIndex(w) = PreferredIndex(v) /\ w[2] <= v[2]

Finish(d) ==
  /\ phase[d] = "running"
  /\ \A w \in WorkersOf(d) : step[w] \in {"done_ok", "done_err"}
  /\ IF IsConsensus(d)
       THEN IF Cardinality(Successes(d)) < NeedQuorum(d)
              THEN phase' = [phase EXCEPT ![d] = "quorum_lost"] /\ UNCHANGED answer
              ELSE /\ phase' = [phase EXCEPT ![d] = "answered"]
                   /\ answer' = [answer EXCEPT ![d] = Pick(d)]
       ELSE IF Successes(d) = {}
              THEN phase' = [phase EXCEPT ![d] = "all_failed"] /\ UNCHANGED answer
              ELSE /\ phase' = [phase EXCEPT ![d] = "answered"]
                   /\ answer' = [answer EXCEPT ![d] = <<d, 1>>]
  /\ UNCHANGED <<cacheVars, order, step, at, attempt, result, calls, ledger, seen>>

----------------------------------------------------------------------------
WorkerStep(w) ==
  \/ LookupMiss(w) \/ LookupOpen(w) \/ LookupRead(w)
  \/ CallSucceeds(w) \/ CallFails(w)
  \/ Storing(w)
  \/ LogAnswer(w) \/ LogErrorFinal(w) \/ LogErrorRetry(w) \/ LogFails(w)

\* The router has come to rest when every dispatch is decided.
Resting == (\A d \in Dispatches : phase[d] \in Decided \cup {"unasked"}) /\ UNCHANGED vars

Next ==
  \/ \E d \in Dispatches : Start(d) \/ Finish(d)
  \/ \E w \in Workers : WorkerStep(w)
  \/ Resting

\* Every task the runtime has spawned keeps being polled, and every provider
\* call and system call returns.
Fairness ==
  /\ \A w \in Workers : WF_vars(WorkerStep(w))
  /\ \A d \in Dispatches : WF_vars(Finish(d))

Spec == Init /\ [][Next]_vars /\ Fairness

----------------------------------------------------------------------------
(* Safety *)

CallsOf(w, i) == {c \in calls : c.worker = w /\ c.at = i}
LedgerOf(w, i) == {e \in ledger : e.worker = w /\ e.at = i}

\* Every completion in a worker's hands, from the network or from the cache,
\* is one that the entry it is trying returned for this very request, even
\* while other workers write and rename the same cache files.
CompletionsAreGenuine ==
  \A w \in Workers : result[w] # None =>
    \E c \in calls :
      /\ c.outcome = result[w]
      /\ EntryAt(c.worker, c.at) = Entry(w)
      /\ Route[c.worker[1]].request = Route[w[1]].request

\* An answer is paid for in the ledger exactly once: as a cache hit when no
\* call was made for it, as a completion with the number of its last call
\* otherwise.
AnswersAreAccounted ==
  \A w \in Workers : step[w] = "done_ok" =>
    LET spent == {c \in CallsOf(w, at[w]) : c.outcome \in Texts}
        oks == {e \in LedgerOf(w, at[w]) : e.outcome = "ok"}
    IN  /\ Cardinality(oks) = 1
        /\ \A e \in oks :
             IF spent = {} THEN e.cache_hit /\ CallsOf(w, at[w]) = {}
             ELSE ~e.cache_hit /\ {c.attempt : c \in spent} = {e.attempt}

\* Retries follow transient errors only, within the budget, one call at a
\* time, and nothing is called again after it answered or failed for good.
RetriesAreJustified ==
  \A w \in Workers : \A i \in 1..at[w] :
    /\ \A c \in CallsOf(w, i) :
         /\ c.attempt <= Max({1, MaxAttempts(w[1])})
         /\ \A a \in 1..(c.attempt - 1) :
              {b.outcome : b \in {b \in CallsOf(w, i) : b.attempt = a}}
                = {"error_transient"}
    /\ i < at[w] => \A e \in LedgerOf(w, i) : e.outcome # "ok"

\* router.rs:303 "writes one ledger entry per attempt".  Where system calls and
\* appends succeed, a call that its worker has left behind without a ledger
\* entry is one thing only: a completion whose store was defeated by a store of
\* the same key that was going on, and then it is returned to nobody.
AttemptsAreLedgered ==
  \A c \in calls :
    LET w == c.worker
        Busy == at[w] = c.at /\ attempt[w] = c.attempt
                  /\ step[w] \in {"storing", "log_ok", "log_err"}
    IN  \/ w[1] \in Failing \/ Busy
        \/ \E e \in LedgerOf(w, c.at) :
             e.attempt = c.attempt /\ ~e.cache_hit /\ (e.outcome = "ok" <=> c.outcome \in Texts)
        \/ /\ c.outcome \in Texts
           /\ at[w] > c.at \/ step[w] = "done_err"
           /\ \E v \in Workers : v # w /\ \E b \in calls :
                /\ b.worker = v /\ b.outcome \in Texts
                /\ EntryAt(v, b.at) = EntryAt(w, c.at)
                /\ Route[v[1]].request = Route[w[1]].request

\* How often the list repeats an entry among its first n.
Repeated(d) == TakeN(d) - Cardinality({order[d][i] : i \in Shards(d)})

\* A dispatch is answered with the completion that most of the successful
\* shards agree on, and only if at least half of the shards succeeded, of
\* distinct entries except for those the list repeats; it fails only if too
\* few did.
ConsensusIsJustified ==
  \A d \in Dispatches : IsConsensus(d) =>
    /\ phase[d] = "answered" =>
         /\ 2 * Cardinality(Successes(d)) >= TakeN(d)
         /\ answer[d] \in Successes(d)
         /\ \A x \in Texts : Cardinality(VotesFor(d, x))
                               <= Cardinality(VotesFor(d, result[answer[d]]))
         /\ Cardinality({Entry(w) : w \in Successes(d)}) + Repeated(d) >= NeedQuorum(d)
    /\ phase[d] = "quorum_lost" => 2 * Cardinality(Successes(d)) < TakeN(d)

\* A store that cannot rename its temporary file any more has lost it to a store
\* that published an entry for the same key: the failure it reports costs the
\* caller a completion the cache nevertheless holds an alternative for.
LostStoresArePublished ==
  \A w \in Workers : pc[w] \in {"chmod", "rename"} /\ tmp[key[w]] = None
    => pub[key[w]] # None

----------------------------------------------------------------------------
(* Liveness *)

\* No dispatch waits for ever: neither retries, nor fall-through, nor cache
\* files taken away by another worker, nor the join of all shards hold it.
DispatchesReturn ==
  \A d \in Dispatches : phase[d] = "running" ~> phase[d] \in Decided
=============================================================================
