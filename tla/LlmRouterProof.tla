--------------------------- MODULE LlmRouterProof ---------------------------
(***************************************************************************)
(* The safety properties of the router, for any number of dispatches and   *)
(* entries, any retry policy and any interleaving of the workers, whose    *)
(* cache files may be shared and written at the same time.                 *)
(*                                                                         *)
(* The invariant is in layers, each proved with the help of those before:  *)
(* where a worker is and what it has in hand; whose completions the cache  *)
(* files hold; which calls and ledger entries a worker has behind it.      *)
(***************************************************************************)
EXTENDS TLAPS, FiniteSetTheorems, WellFoundedInduction, LlmRouter

Started(d) == phase[d] \in {"running"} \cup Decided

\* An order is the list of the dispatch, in another order at most.
OrdersAreLists ==
  \A d \in Dispatches : Started(d) =>
    /\ Len(order[d]) = Len(Route[d].preferred)
    /\ IsConsensus(d) => order[d] = Route[d].preferred

InHand == {"log_hit", "storing", "log_ok", "done_ok"}

\* Where worker w is in its walk and in its call of the cache.
IsAt(w) ==
  /\ step[w] # "off" <=> Started(w[1])
  /\ phase[w[1]] \in Decided => step[w] \in {"done_ok", "done_err"}
  /\ w[2] <= at[w]
  /\ IsConsensus(w[1]) => at[w] = w[2]
  /\ step[w] = "reading" <=> pc[w] = "read"
  /\ step[w] = "storing" <=> pc[w] \in Cache!PutSteps
  /\ step[w] = "storing" => key[w] = KeyOf(w) /\ text[w] = result[w]
  /\ result[w] # None <=> step[w] \in InHand
  /\ fd[w] # None <=> pc[w] \in {"read", "write"}

Control ==
  /\ TypeOK
  /\ OrdersAreLists
  /\ \A w \in Workers : IsAt(w)

KeyOfCall(c) == <<EntryAt(c.worker, c.at), Route[c.worker[1]].request>>
Returned(x, k) == \E c \in calls : c.outcome = x /\ KeyOfCall(c) = k

\* Inode i is reachable for the key k: by a name, or through an open file.
InUse(i, k) ==
  tmp[k] = i \/ pub[k] = i \/ \E w \in Workers : fd[w] = i /\ KeyOf(w) = k

FilesAreOfOneKey ==
  \A i \in Inodes, j, k \in Keys : InUse(i, j) /\ InUse(i, k) => j = k

FilesAreGenuine ==
  \A i \in Inodes, k \in Keys : InUse(i, k) /\ data[i] \in Texts => Returned(data[i], k)

ResultsAreGenuine == \A w \in Workers : result[w] # None => Returned(result[w], KeyOf(w))

CallsAreBehind ==
  \A c \in calls : Started(c.worker[1]) /\ c.at \in 1..at[c.worker]

\* A worker whose temporary file is gone has lost it to another that stored a
\* completion of the same entry.
LosersHaveWinners ==
  \A w \in Workers : pc[w] \in {"write", "chmod", "rename"} /\ tmp[key[w]] = None =>
    /\ pub[key[w]] # None
    /\ \E v \in Workers \ {w} : \E b \in calls :
         b.worker = v /\ b.outcome \in Texts /\ KeyOfCall(b) = key[w]

Files ==
  /\ FilesAreOfOneKey /\ FilesAreGenuine /\ ResultsAreGenuine
  /\ CallsAreBehind /\ LosersHaveWinners

Budget(w) == Max({1, MaxAttempts(w[1])})
IsCall(c, w, i, a) == c.worker = w /\ c.at = i /\ c.attempt = a

\* What is known of the calls of worker w, made one after the other.
Retried(w, i, a) ==
  \A b \in 1..(a - 1) : \E c \in calls : IsCall(c, w, i, b) /\ c.outcome = "error_transient"

CallsOfAreCounted(w) ==
  /\ attempt[w] \in 1..Budget(w)
  /\ Retried(w, at[w], attempt[w])
  /\ step[w] \in {"off", "lookup", "reading", "log_hit"} => CallsOf(w, at[w]) = {}
  /\ step[w] \in {"storing", "log_ok"} =>
       \E c \in calls : IsCall(c, w, at[w], attempt[w]) /\ c.outcome = result[w]
  /\ step[w] = "log_err" =>
       \E c \in calls : IsCall(c, w, at[w], attempt[w]) /\ c.outcome \in Errors
  /\ step[w] = "done_ok" =>
       \/ CallsOf(w, at[w]) = {}
       \/ \E c \in calls : IsCall(c, w, at[w], attempt[w]) /\ c.outcome = result[w]

CallIsCounted(c) ==
  /\ c.attempt \in 1..Budget(c.worker)
  /\ Retried(c.worker, c.at, c.attempt)
  /\ c.at = at[c.worker] => c.attempt <= attempt[c.worker]
  /\ c.at = at[c.worker] /\ c.attempt = attempt[c.worker] => step[c.worker] # "call"

CallsAreUnique ==
  \A b, c \in calls : b.worker = c.worker /\ b.at = c.at /\ b.attempt = c.attempt => b = c

OksAreLast ==
  \A e \in ledger :
    /\ e.at \in 1..at[e.worker]
    /\ e.outcome = "ok" =>
         /\ step[e.worker] = "done_ok"
         /\ e.at = at[e.worker] /\ e.attempt = attempt[e.worker]
         /\ e.cache_hit <=> CallsOf(e.worker, e.at) = {}

AnswersHaveOks ==
  \A w \in Workers : step[w] = "done_ok" => \E e \in LedgerOf(w, at[w]) : e.outcome = "ok"

History ==
  /\ \A w \in Workers : CallsOfAreCounted(w)
  /\ \A c \in calls : CallIsCounted(c)
  /\ CallsAreUnique
  /\ OksAreLast
  /\ AnswersHaveOks

Inv == Control /\ Files /\ History

----------------------------------------------------------------------------
\* A set of natural numbers has a least element, which Min finds.
LEMMA LeastNatural ==
  ASSUME NEW S \in SUBSET Nat, S # {}
  PROVE  Min(S) \in S /\ \A n \in S : Min(S) <= n
<1>1. PICK m \in S : \A n \in S : ~(<<n, m>> \in OpToRel(<, Nat))
  BY NatLessThanWellFounded, WFMin
<1>2. \A n \in S : ~(n < m)
  BY <1>1 DEF OpToRel
<1>3. \E x \in S : \A n \in S : x <= n
  BY <1>2
<1> QED BY <1>3 DEF Min

\* The shards of a dispatch are positions of its list.
LEMMA ShardFacts ==
  ASSUME NEW d \in Dispatches
  PROVE  /\ Len(Route[d].preferred) \in Nat \ {0}
         /\ Shards(d) \subseteq 1..Len(Route[d].preferred)
         /\ IsConsensus(d) => Route[d].n \in Nat /\ Route[d].n >= 2 /\ Shards(d) = 1..Route[d].n
         /\ ~IsConsensus(d) => Shards(d) = {1}
         /\ MaxAttempts(d) \in Nat
<1>1. /\ Route[d].preferred \in Seq(Entries) /\ Route[d].preferred # <<>>
      /\ Route[d].max_attempts \in Nat
      /\ IsConsensus(d) => Route[d].n \in 2..Len(Route[d].preferred)
  BY RouterAssumption DEF IsConsensus
<1>2. Len(Route[d].preferred) \in Nat \ {0}
  BY <1>1
<1>3. CASE IsConsensus(d)
  <2> DEFINE S == {Route[d].n, Len(Route[d].preferred)}
  <2>1. Min(S) \in S /\ \A n \in S : Min(S) <= n
    <3>1. S \in SUBSET Nat /\ S # {}
      BY <1>1, <1>2, <1>3
    <3> HIDE DEF S
    <3> QED BY <3>1, LeastNatural
  <2>2. Min(S) = Route[d].n
    BY <1>1, <1>2, <1>3, <2>1
  <2> QED BY <1>1, <1>2, <1>3, <2>2 DEF Shards, MaxAttempts
<1>4. CASE ~IsConsensus(d)
  BY <1>1, <1>2, <1>4 DEF Shards, MaxAttempts
<1> QED BY <1>3, <1>4

\* A worker belongs to one dispatch and one shard.
LEMMA WorkerFacts ==
  /\ \A w \in Workers : /\ w[1] \in Dispatches /\ w[2] \in Shards(w[1])
                        /\ w[2] \in Nat \ {0} /\ w[2] <= Len(Route[w[1]].preferred)
                        /\ w \in WorkersOf(w[1])
                        /\ w = <<w[1], w[2]>>
  /\ \A d \in Dispatches : \A v \in WorkersOf(d) : v \in Workers /\ v[1] = d
<1>1. \A v : v \in Workers <=> \E d \in Dispatches : \E i \in Shards(d) : v = <<d, i>>
  BY DEF Workers, WorkersOf
<1>2. ASSUME NEW w \in Workers
      PROVE  /\ w[1] \in Dispatches /\ w[2] \in Shards(w[1])
             /\ w[2] \in Nat \ {0} /\ w[2] <= Len(Route[w[1]].preferred)
             /\ w \in WorkersOf(w[1])
             /\ w = <<w[1], w[2]>>
  <2>0. PICK d \in Dispatches : \E i \in Shards(d) : w = <<d, i>>
    BY <1>1
  <2>1. PICK i \in Shards(d) : w = <<d, i>>
    BY <2>0
  <2>2. w[1] = d /\ w[2] = i
    BY <2>1
  <2>3. i \in 1..Len(Route[d].preferred) /\ Len(Route[d].preferred) \in Nat
    BY ShardFacts
  <2> QED BY <2>1, <2>2, <2>3 DEF WorkersOf
<1>3. \A d \in Dispatches : \A v \in WorkersOf(d) : v \in Workers /\ v[1] = d
  BY <1>1 DEF WorkersOf
<1> QED BY <1>2, <1>3

\* order_preferred rearranges a list.
LEMMA OrderFacts ==
  ASSUME NEW d \in Dispatches, NEW o \in Orders(d)
  PROVE  /\ o \in Seq(Entries) /\ Len(o) = Len(Route[d].preferred)
         /\ IsConsensus(d) => o = Route[d].preferred
<1> DEFINE listed == Route[d].preferred
<1>1. listed \in Seq(Entries)
  BY RouterAssumption
<1>2. CASE Route[d].strategy # "latency"
  BY <1>1, <1>2 DEF Orders
<1>3. CASE Route[d].strategy = "latency"
  <2>1. PICK p \in Bijection(DOMAIN listed, DOMAIN listed) :
          o = [i \in DOMAIN listed |-> listed[p[i]]]
    BY <1>3 DEF Orders
  <2>2. p \in [1..Len(listed) -> 1..Len(listed)]
    <3>1. p \in [DOMAIN listed -> DOMAIN listed]
      BY <2>1 DEF Bijection, Injection
    <3>2. DOMAIN listed = 1..Len(listed)
      BY <1>1
    <3> QED BY <3>1, <3>2
  <2>3. \A i \in 1..Len(listed) : listed[p[i]] \in Entries
    BY <1>1, <2>2
  <2>4. o = [i \in 1..Len(listed) |-> listed[p[i]]] /\ Len(listed) \in Nat
    BY <1>1, <2>1
  <2>5. o \in Seq(Entries) /\ Len(o) = Len(listed)
    BY <2>3, <2>4
  <2> QED BY <1>3, <2>5 DEF IsConsensus
<1> QED BY <1>2, <1>3

----------------------------------------------------------------------------
\* How a step of put goes on: there is more of it to do; the completion is stored;
\* the store has lost its file to another; a system call fails.
StoreGoesOn(w) ==
  /\ \/ Cache!PutOpenOld(w) \/ Cache!PutOpenNew(w) \/ Cache!PutWrite(w)
     \/ /\ pc[w] = "chmod" /\ tmp[key[w]] # None
        /\ pc' = [pc EXCEPT ![w] = "rename"]
        /\ UNCHANGED <<tmp, pub, data, key, text, fd, out>>
  /\ pc'[w] \in {"write", "chmod", "rename"}
  /\ Advance(w, "storing") /\ UNCHANGED <<result, seen>>

StoreIsDone(w) ==
  /\ pc[w] = "rename" /\ tmp[key[w]] # None
  /\ pub' = [pub EXCEPT ![key[w]] = tmp[key[w]]]
  /\ tmp' = [tmp EXCEPT ![key[w]] = None]
  /\ Cache!Return(w, "stored") /\ UNCHANGED data
  /\ Advance(w, "log_ok") /\ seen' = seen \cup {Entry(w)} /\ UNCHANGED result

StoreIsLost(w) ==
  /\ pc[w] \in {"chmod", "rename"} /\ tmp[key[w]] = None
  /\ Cache!Return(w, "failed") /\ UNCHANGED <<tmp, pub, data>>
  /\ Fail(w) /\ UNCHANGED seen

StoreFails(w) ==
  /\ w[1] \in Failing
  /\ Cache!CutOff(w) /\ Cache!Return(w, "failed")
  /\ Fail(w) /\ UNCHANGED seen

LEMMA StoringCases ==
  ASSUME TypeOK, NEW w \in Workers, IsAt(w), Storing(w)
  PROVE  /\ step[w] = "storing" /\ pc[w] \in Cache!PutSteps
         /\ UNCHANGED <<calls, ledger>>
         /\ StoreGoesOn(w) \/ StoreIsDone(w) \/ StoreIsLost(w) \/ StoreFails(w)
<1>1. step[w] = "storing" /\ pc[w] \in Cache!PutSteps
  BY DEF IsAt, Storing
<1>2. UNCHANGED <<calls, ledger>>
  BY DEF Storing
<1>3. \/ pc'[w] # "idle" /\ Advance(w, "storing") /\ UNCHANGED <<result, seen>>
      \/ pc'[w] = "idle" /\ out'[w] = "stored" /\ Advance(w, "log_ok")
           /\ seen' = seen \cup {Entry(w)} /\ UNCHANGED result
      \/ pc'[w] = "idle" /\ out'[w] = "failed" /\ Fail(w) /\ UNCHANGED seen
  BY DEF Storing
<1> USE DEF TypeOK, Cache!TypeOK, Cache!Return, Cache!Goto, Cache!TmpOf, Cache!PutSteps
<1>4. CASE Cache!PutOpenOld(w) \/ Cache!PutOpenNew(w) \/ Cache!PutWrite(w)
  <2>1. pc'[w] \in {"write", "chmod"}
    BY <1>4 DEF Cache!PutOpenOld, Cache!PutOpenNew, Cache!PutWrite
  <2> QED BY <1>3, <1>4, <2>1, <1>1, <1>2 DEF StoreGoesOn
<1>5. CASE Cache!PutChmod(w)
  <2>1. CASE tmp[key[w]] # None
    <3>1. /\ pc[w] = "chmod" /\ pc' = [pc EXCEPT ![w] = "rename"] /\ pc'[w] = "rename"
          /\ UNCHANGED <<tmp, pub, data, key, text, fd, out>>
      BY <1>5, <2>1 DEF Cache!PutChmod
    <3> QED BY <1>1, <1>2, <1>3, <2>1, <3>1 DEF StoreGoesOn
  <2>2. CASE tmp[key[w]] = None
    <3>1. /\ pc[w] = "chmod" /\ Cache!Return(w, "failed") /\ UNCHANGED <<tmp, pub, data>>
          /\ pc'[w] = "idle" /\ out'[w] = "failed"
      BY <1>5, <2>2 DEF Cache!PutChmod
    <3> QED BY <1>1, <1>2, <1>3, <2>2, <3>1 DEF StoreIsLost
  <2> QED BY <2>1, <2>2
<1>6. CASE Cache!PutRename(w)
  <2>1. CASE tmp[key[w]] # None
    <3>1. /\ pc[w] = "rename"
          /\ pub' = [pub EXCEPT ![key[w]] = tmp[key[w]]]
          /\ tmp' = [tmp EXCEPT ![key[w]] = None]
          /\ Cache!Return(w, "stored") /\ UNCHANGED data
          /\ pc'[w] = "idle" /\ out'[w] = "stored"
      BY <1>6, <2>1 DEF Cache!PutRename
    <3> QED BY <1>1, <1>2, <1>3, <2>1, <3>1 DEF StoreIsDone
  <2>2. CASE tmp[key[w]] = None
    <3>1. /\ pc[w] = "rename" /\ Cache!Return(w, "failed") /\ UNCHANGED <<tmp, pub, data>>
          /\ pc'[w] = "idle" /\ out'[w] = "failed"
      BY <1>6, <2>2 DEF Cache!PutRename
    <3> QED BY <1>1, <1>2, <1>3, <2>2, <3>1 DEF StoreIsLost
  <2> QED BY <2>1, <2>2
<1>7. CASE w[1] \in Failing /\ Cache!PutFail(w)
  <2>1. /\ Cache!CutOff(w) /\ Cache!Return(w, "failed")
        /\ pc'[w] = "idle" /\ out'[w] = "failed"
    BY <1>7 DEF Cache!PutFail
  <2> QED BY <1>1, <1>2, <1>3, <1>7, <2>1 DEF StoreFails
<1> QED BY <1>1, <1>4, <1>5, <1>6, <1>7 DEF Storing, Cache!Continue, Cache!GetRead

\* What a step of one worker leaves alone.
LEMMA WorkerFrame ==
  ASSUME TypeOK, NEW w \in Workers, IsAt(w), WorkerStep(w)
  PROVE  /\ UNCHANGED <<phase, order, answer>>
         /\ \A v \in Workers : v # w =>
              /\ step'[v] = step[v] /\ at'[v] = at[v] /\ attempt'[v] = attempt[v]
              /\ result'[v] = result[v]
              /\ pc'[v] = pc[v] /\ key'[v] = key[v] /\ text'[v] = text[v]
              /\ fd'[v] = fd[v] /\ out'[v] = out[v]
         /\ step[w] \notin {"off", "done_ok", "done_err"}
<1> USE DEF TypeOK, Cache!TypeOK, Cache!Return, Cache!Goto, Advance, Fail, Retry
<1>1. CASE LookupMiss(w)
  BY <1>1 DEF LookupMiss, Cache!GetMiss
<1>2. CASE LookupOpen(w)
  BY <1>2 DEF LookupOpen, Cache!GetOpen
<1>3. CASE LookupRead(w)
  BY <1>3 DEF LookupRead, Cache!GetRead, Cache!GetFail
<1>4. CASE CallSucceeds(w)
  BY <1>4 DEF CallSucceeds, Cache!PutBegin
<1>5. CASE CallFails(w)
  BY <1>5 DEF CallFails, cacheVars
<1>6. CASE Storing(w)
  <2>1. CASE StoreGoesOn(w)
    BY <1>6, <2>1, StoringCases DEF StoreGoesOn, Cache!PutOpenOld, Cache!PutOpenNew, Cache!PutWrite
  <2>2. CASE StoreIsDone(w) \/ StoreIsLost(w) \/ StoreFails(w)
    BY <1>6, <2>2, StoringCases DEF StoreIsDone, StoreIsLost, StoreFails, Cache!CutOff
  <2> QED BY <1>6, <2>1, <2>2, StoringCases
<1>7. CASE LogAnswer(w) \/ LogErrorFinal(w) \/ LogErrorRetry(w) \/ LogFails(w)
  BY <1>7 DEF LogAnswer, LogErrorFinal, LogErrorRetry, MayRetry, LogFails, cacheVars
<1> QED BY <1>1, <1>2, <1>3, <1>4, <1>5, <1>6, <1>7 DEF WorkerStep

----------------------------------------------------------------------------
\* Layer 1: control.

\* A worker that has started is at an entry of the table.
LEMMA EntryFacts ==
  ASSUME Control, NEW w \in Workers, step[w] # "off"
  PROVE  /\ Started(w[1]) /\ order[w[1]] \in Seq(Entries)
         /\ Len(order[w[1]]) = Len(Route[w[1]].preferred)
         /\ \A i \in 1..at[w] : EntryAt(w, i) \in Entries
         /\ Entry(w) \in Entries /\ KeyOf(w) \in Keys
         /\ at[w] \in 1..Len(order[w[1]]) /\ attempt[w] \in Nat
<1>1. /\ Started(w[1]) /\ at[w] \in Nat \ {0} /\ at[w] <= Len(Route[w[1]].preferred)
      /\ order[w[1]] \in Seq(Entries) /\ w[1] \in Dispatches /\ attempt[w] \in Nat
  BY WorkerFacts DEF Control, IsAt, TypeOK
<1>2. Len(order[w[1]]) = Len(Route[w[1]].preferred)
  BY <1>1 DEF Control, OrdersAreLists
<1>3. Len(order[w[1]]) \in Nat /\ \A i \in 1..Len(order[w[1]]) : order[w[1]][i] \in Entries
  BY <1>1
<1>4. \A i \in 1..at[w] : EntryAt(w, i) \in Entries
  BY <1>1, <1>2, <1>3 DEF EntryAt
<1>5. Entry(w) \in Entries
  BY <1>1, <1>4 DEF Entry
<1> QED BY <1>1, <1>2, <1>3, <1>4, <1>5 DEF KeyOf, Keys

\* What the next entry leaves to be tried.
LEMMA FailFacts ==
  ASSUME Control, NEW w \in Workers, step[w] \notin {"off", "done_ok", "done_err"}, Fail(w)
  PROVE  /\ step' \in [Workers -> Steps] /\ step'[w] \in {"lookup", "done_err"}
         /\ at' \in [Workers -> Nat \ {0}]
         /\ \A v \in Workers : at'[v] <= Len(Route[v[1]].preferred)
         /\ attempt' \in [Workers -> Nat]
         /\ result' \in [Workers -> Texts \cup {None}] /\ result'[w] = None
         /\ w[2] <= at'[w] /\ at[w] <= at'[w]
         /\ IsConsensus(w[1]) => at'[w] = at[w]
         /\ step'[w] = "lookup" => at'[w] = at[w] + 1 /\ attempt'[w] = 1
         /\ step'[w] = "done_err" => at'[w] = at[w] /\ attempt'[w] = attempt[w]
         /\ UNCHANGED <<phase, order, answer>>
<1> DEFINE more == ~IsConsensus(w[1]) /\ at[w] < Len(order[w[1]])
<1>1. /\ step' = [step EXCEPT ![w] = IF more THEN "lookup" ELSE "done_err"]
      /\ at' = [at EXCEPT ![w] = IF more THEN @ + 1 ELSE @]
      /\ attempt' = [attempt EXCEPT ![w] = IF more THEN 1 ELSE @]
      /\ result' = [result EXCEPT ![w] = None]
      /\ UNCHANGED <<phase, order, answer>>
  BY DEF Fail
<1>2. /\ step \in [Workers -> Steps] /\ at \in [Workers -> Nat \ {0}]
      /\ \A v \in Workers : at[v] <= Len(Route[v[1]].preferred)
      /\ attempt \in [Workers -> Nat] /\ result \in [Workers -> Texts \cup {None}]
      /\ w[2] <= at[w]
  BY DEF Control, TypeOK, IsAt
<1>3. Len(order[w[1]]) = Len(Route[w[1]].preferred) /\ Len(order[w[1]]) \in Nat
      /\ w[2] \in Nat
  BY EntryFacts, WorkerFacts, ShardFacts
<1>4. more => at[w] + 1 <= Len(Route[w[1]].preferred)
  BY <1>2, <1>3
<1>5. more \in BOOLEAN /\ (IsConsensus(w[1]) => ~more)
  BY DEF IsConsensus
<1> HIDE DEF more
<1>6. at' \in [Workers -> Nat \ {0}] /\ \A v \in Workers : at'[v] <= Len(Route[v[1]].preferred)
  BY <1>1, <1>2, <1>3, <1>4
<1>7. step' \in [Workers -> Steps] /\ attempt' \in [Workers -> Nat]
      /\ result' \in [Workers -> Texts \cup {None}]
  BY <1>1, <1>2 DEF Steps
<1>8. /\ step'[w] = (IF more THEN "lookup" ELSE "done_err")
      /\ at'[w] = (IF more THEN at[w] + 1 ELSE at[w])
      /\ attempt'[w] = (IF more THEN 1 ELSE attempt[w])
      /\ result'[w] = None
  BY <1>1, <1>2
<1>9. w[2] <= at'[w] /\ at[w] <= at'[w]
  BY <1>2, <1>3, <1>8
<1> QED BY <1>1, <1>5, <1>6, <1>7, <1>8, <1>9

\* The error of the last call is on record.
LEMMA LastOutcomeFacts ==
  ASSUME Inv, NEW w \in Workers, step[w] = "log_err"
  PROVE  /\ LastOutcome(w) \in Errors
         /\ \E c \in calls : IsCall(c, w, at[w], attempt[w]) /\ c.outcome = LastOutcome(w)
<1>1. \E c \in calls : IsCall(c, w, at[w], attempt[w]) /\ c.outcome \in Errors
  BY DEF Inv, History, CallsOfAreCounted
<1>2. PICK c \in calls : IsCall(c, w, at[w], attempt[w]) /\ c.outcome \in Errors
  BY <1>1
<1>3. \A b \in calls : b.worker = w /\ b.at = at[w] /\ b.attempt = attempt[w] => b = c
  BY <1>2 DEF Inv, History, CallsAreUnique, IsCall
<1> DEFINE b == CHOOSE b \in calls : b.worker = w /\ b.at = at[w] /\ b.attempt = attempt[w]
<1>4. b \in calls /\ b.worker = w /\ b.at = at[w] /\ b.attempt = attempt[w]
  BY <1>2 DEF IsCall
<1>5. b = c
  BY <1>3, <1>4
<1> QED BY <1>2, <1>5 DEF LastOutcome

----------------------------------------------------------------------------
\* Counting the workers of a dispatch.

\* A function has no more values than arguments.
LEMMA ImageFacts ==
  ASSUME NEW S, IsFiniteSet(S), NEW f, S \subseteq DOMAIN f
  PROVE  IsFiniteSet({f[x] : x \in S}) /\ Cardinality({f[x] : x \in S}) <= Cardinality(S)
<1> DEFINE T == {f[x] : x \in S}
           g == [x \in S |-> f[x]]
<1>1. g \in Surjection(S, T)
  BY DEF Surjection
<1> HIDE DEF g, T
<1>2. IsFiniteSet(T) /\ Cardinality(T) <= Cardinality(S)
  BY <1>1, FS_Surjection
<1> QED BY <1>2 DEF T

\* One worker for each shard.
LEMMA WorkersAreCounted ==
  ASSUME NEW d \in Dispatches
  PROVE  /\ IsFiniteSet(Shards(d)) /\ TakeN(d) \in Nat \ {0}
         /\ IsFiniteSet(WorkersOf(d)) /\ Cardinality(WorkersOf(d)) = TakeN(d)
<1>1. IsFiniteSet(Shards(d)) /\ TakeN(d) \in Nat \ {0}
  <2>1. CASE IsConsensus(d)
    <3>1. Route[d].n \in Nat /\ Route[d].n >= 2 /\ Shards(d) = 1..Route[d].n
      BY <2>1, ShardFacts
    <3>2. /\ IsFiniteSet(1..Route[d].n)
          /\ Cardinality(1..Route[d].n) = IF 1 > Route[d].n THEN 0 ELSE Route[d].n - 1 + 1
      <4>1. 1 \in Int /\ Route[d].n \in Int
        BY <3>1
      <4> QED BY <4>1, FS_Interval
    <3> QED BY <3>1, <3>2 DEF TakeN
  <2>2. CASE ~IsConsensus(d)
    <3>1. Shards(d) = {1} /\ TakeN(d) = Cardinality({1})
      BY <2>2, ShardFacts DEF TakeN
    <3>2. IsFiniteSet({1}) /\ Cardinality({1}) = 1
      BY FS_Singleton
    <3> QED BY <3>1, <3>2
  <2> QED BY <2>1, <2>2
<1> DEFINE g == [i \in Shards(d) |-> <<d, i>>]
<1>2. g \in Bijection(Shards(d), WorkersOf(d))
  <2>1. g \in [Shards(d) -> WorkersOf(d)] /\ \A i \in Shards(d) : g[i] = <<d, i>>
    BY DEF WorkersOf
  <2>2. \A w \in WorkersOf(d) : \E i \in Shards(d) : g[i] = w
    BY DEF WorkersOf
  <2>3. \A i, j \in Shards(d) : g[i] = g[j] => i = j
    BY <2>1
  <2> HIDE DEF g
  <2> QED BY <2>1, <2>2, <2>3 DEF Bijection, Injection, Surjection, IsInjective
<1>3. ExistsBijection(Shards(d), WorkersOf(d))
  BY <1>2 DEF ExistsBijection
<1> QED BY <1>1, <1>3, FS_Bijection DEF TakeN

\* The groups of a vote, and what consensus_pick finds among them.
LEMMA VotesAreCounted ==
  ASSUME NEW d \in Dispatches
  PROVE  /\ IsFiniteSet(Successes(d)) /\ Cardinality(Successes(d)) \in Nat
         /\ \A x : /\ IsFiniteSet(VotesFor(d, x)) /\ Cardinality(VotesFor(d, x)) \in Nat
                   /\ Cardinality(VotesFor(d, x)) <= Cardinality(Successes(d))
<1>1. IsFiniteSet(WorkersOf(d)) /\ Successes(d) \in SUBSET WorkersOf(d)
  BY WorkersAreCounted DEF Successes
<1>2. IsFiniteSet(Successes(d)) /\ Cardinality(Successes(d)) \in Nat
  BY <1>1, FS_Subset, FS_CardinalityType
<1>3. ASSUME NEW x
      PROVE  /\ IsFiniteSet(VotesFor(d, x)) /\ Cardinality(VotesFor(d, x)) \in Nat
             /\ Cardinality(VotesFor(d, x)) <= Cardinality(Successes(d))
  <2>1. VotesFor(d, x) \in SUBSET Successes(d)
    BY DEF VotesFor
  <2> QED BY <1>2, <2>1, FS_Subset, FS_CardinalityType
<1> QED BY <1>2, <1>3

LEMMA LargestGroup ==
  ASSUME NEW d \in Dispatches, Texts # {}
  PROVE  /\ WinningText(d) \in Texts
         /\ \A y \in Texts :
              Cardinality(VotesFor(d, y)) <= Cardinality(VotesFor(d, WinningText(d)))
<1> DEFINE votes == [x \in Texts |-> Cardinality(VotesFor(d, x))]
           all == Cardinality(Successes(d))
           Rest == {n \in Nat : \E x \in Texts : n = all - votes[x]}
<1>1. \A x \in Texts : votes[x] \in Nat /\ votes[x] <= all /\ all - votes[x] \in Nat
  BY VotesAreCounted
<1> HIDE DEF votes, all
<1>2. Rest \in SUBSET Nat /\ Rest # {}
  BY <1>1
<1>3. Min(Rest) \in Rest /\ \A n \in Rest : Min(Rest) <= n
  BY <1>2, LeastNatural
<1>4. PICK z \in Texts : Min(Rest) = all - votes[z]
  BY <1>3
<1>5. \A y \in Texts : votes[y] <= votes[z]
  <2> SUFFICES ASSUME NEW y \in Texts PROVE votes[y] <= votes[z]
    OBVIOUS
  <2>1. all - votes[y] \in Rest
    BY <1>1
  <2>2. all \in Nat
    BY VotesAreCounted DEF all
  <2> QED BY <1>1, <1>3, <1>4, <2>1, <2>2
<1> DEFINE Ranks == {n \in Nat : \E x \in Texts : votes[x] = votes[z] /\ n = HashRank[x]}
<1>6. Ranks \in SUBSET Nat /\ Ranks # {}
  BY RouterAssumption
<1>7. Min(Ranks) \in Ranks /\ \A n \in Ranks : Min(Ranks) <= n
  BY <1>6, LeastNatural
<1>8. PICK x \in Texts : votes[x] = votes[z] /\ Min(Ranks) = HashRank[x]
  BY <1>7
<1>9. \A y \in Texts : \/ votes[x] > votes[y]
                       \/ votes[x] = votes[y] /\ HashRank[x] <= HashRank[y]
  <2> SUFFICES ASSUME NEW y \in Texts
               PROVE  \/ votes[x] > votes[y]
                      \/ votes[x] = votes[y] /\ HashRank[x] <= HashRank[y]
    OBVIOUS
  <2>1. votes[y] = votes[z] => HashRank[y] \in Ranks
    BY RouterAssumption
  <2> QED BY <1>1, <1>5, <1>7, <1>8, <2>1
<1> DEFINE Better(u, y) ==
             \/ Cardinality(VotesFor(d, u)) > Cardinality(VotesFor(d, y))
             \/ /\ Cardinality(VotesFor(d, u)) = Cardinality(VotesFor(d, y))
                /\ HashRank[u] <= HashRank[y]
<1>10. \A y \in Texts : Better(x, y)
  BY <1>9 DEF votes
<1>11. WinningText(d) \in Texts /\ \A y \in Texts : Better(WinningText(d), y)
  BY <1>10 DEF WinningText
<1> QED BY <1>11, VotesAreCounted

\* In a consensus, the place of a worker's entry in the list, or one past its end.
LEMMA IndexFacts ==
  ASSUME Control, NEW w \in Workers, IsConsensus(w[1]), step[w] # "off"
  PROVE  PreferredIndex(w) \in Nat
<1> DEFINE listed == Route[w[1]].preferred
           Found == {i \in DOMAIN listed : listed[i] = Entry(w)}
<1>1. w[1] \in Dispatches /\ order[w[1]] \in Seq(Entries) /\ at[w] \in 1..Len(order[w[1]])
  BY EntryFacts, WorkerFacts
<1>2. order[w[1]] = listed
  BY <1>1, EntryFacts DEF Control, OrdersAreLists
<1>3. Found \in SUBSET Nat /\ at[w] \in Found
  BY <1>1, <1>2 DEF Entry, EntryAt
<1>4. Min(Found) \in Found
  BY <1>3, LeastNatural
<1> HIDE DEF Found
<1>5. Len(listed) \in Nat
  BY <1>1, ShardFacts
<1> HIDE DEF listed
<1>6. Min(Found) \in Nat
  BY <1>3, <1>4, Zenon
<1>7. Len(listed) + 1 \in Nat
  BY <1>5
<1> QED BY <1>6, <1>7 DEF PreferredIndex, Found, listed

\* What consensus_pick returns is in the largest group.
LEMMA PickFacts ==
  ASSUME Control, NEW d \in Dispatches, IsConsensus(d),
         Cardinality(Successes(d)) >= NeedQuorum(d)
  PROVE  /\ Pick(d) \in Successes(d) /\ Pick(d) \in Workers
         /\ result[Pick(d)] = WinningText(d) /\ WinningText(d) \in Texts
         /\ \A y \in Texts :
              Cardinality(VotesFor(d, y)) <= Cardinality(VotesFor(d, WinningText(d)))
<1>1. \A w \in Successes(d) : /\ w \in Workers /\ w[1] = d /\ step[w] # "off"
                              /\ result[w] \in Texts
  BY WorkerFacts DEF Successes, Control, TypeOK, IsAt, InHand
<1>2. PICK u \in Successes(d) : TRUE
  <2>1. NeedQuorum(d) \in Nat /\ NeedQuorum(d) >= 1
    <3>1. TakeN(d) \in Nat \ {0}
      BY WorkersAreCounted
    <3> HIDE DEF TakeN
    <3> QED BY <3>1 DEF NeedQuorum
  <2>2. Cardinality(Successes(d)) # 0
    BY <2>1, VotesAreCounted
  <2> QED BY <2>2, FS_EmptySet
<1>3. Texts # {} /\ result[u] \in Texts
  BY <1>1, <1>2
<1>4. /\ WinningText(d) \in Texts
      /\ \A y \in Texts :
           Cardinality(VotesFor(d, y)) <= Cardinality(VotesFor(d, WinningText(d)))
  BY <1>3, LargestGroup
<1> DEFINE group == VotesFor(d, WinningText(d))
<1>5. PICK g \in group : TRUE
  <2>1. u \in VotesFor(d, result[u])
    BY <1>2 DEF VotesFor
  <2>2. Cardinality(VotesFor(d, result[u])) # 0
    BY <2>1, VotesAreCounted, FS_EmptySet
  <2>3. Cardinality(VotesFor(d, result[u])) <= Cardinality(group)
    BY <1>3, <1>4
  <2>4. Cardinality(group) # 0
    BY <2>2, <2>3, VotesAreCounted
  <2> QED BY <2>4, FS_EmptySet
<1>6. \A w \in group : /\ w \in Successes(d) /\ result[w] = WinningText(d)
                       /\ PreferredIndex(w) \in Nat /\ w[2] \in Nat
  <2> TAKE w \in group
  <2>1. w \in Successes(d) /\ result[w] = WinningText(d)
    BY DEF VotesFor
  <2>2. w \in Workers /\ w[1] = d /\ step[w] # "off"
    BY <1>1, <2>1
  <2> QED BY <2>1, <2>2, IndexFacts, WorkerFacts
<1> HIDE DEF group
<1> DEFINE First == {n \in Nat : \E w \in group : n = PreferredIndex(w)}
<1>7. First \in SUBSET Nat /\ First # {}
  BY <1>5, <1>6
<1>8. Min(First) \in First /\ \A n \in First : Min(First) <= n
  BY <1>7, LeastNatural
<1>9. PICK p \in group : Min(First) = PreferredIndex(p)
  BY <1>8
<1> DEFINE Shard == {n \in Nat : \E w \in group : PreferredIndex(w) = PreferredIndex(p) /\ n = w[2]}
<1>10. Shard \in SUBSET Nat /\ Shard # {}
  BY <1>6, <1>9
<1>11. Min(Shard) \in Shard /\ \A n \in Shard : Min(Shard) <= n
  BY <1>10, LeastNatural
<1>12. PICK w \in group : PreferredIndex(w) = PreferredIndex(p) /\ Min(Shard) = w[2]
  BY <1>11
<1> DEFINE Before(a, v) ==
             \/ PreferredIndex(a) < PreferredIndex(v)
             \/ PreferredIndex(a) = PreferredIndex(v) /\ a[2] <= v[2]
<1>13. \A v \in group : Before(w, v)
  <2> SUFFICES ASSUME NEW v \in group PROVE Before(w, v)
    OBVIOUS
  <2>1. PreferredIndex(v) \in First
    BY <1>6
  <2>2. PreferredIndex(v) = PreferredIndex(w) => v[2] \in Shard
    BY <1>6, <1>12
  <2>3. PreferredIndex(w) <= PreferredIndex(v)
    BY <1>8, <1>9, <1>12, <2>1
  <2>4. PreferredIndex(v) = PreferredIndex(w) => w[2] <= v[2]
    BY <1>11, <1>12, <2>2
  <2> HIDE DEF First, Shard
  <2>5. PreferredIndex(v) \in Nat /\ PreferredIndex(w) \in Nat
    BY <1>6
  <2> QED BY <2>3, <2>4, <2>5
<1>14. Pick(d) = CHOOSE a \in group : \A v \in group : Before(a, v)
  BY DEF Pick, group
<1>15. Pick(d) \in group
  BY <1>13, <1>14
<1> QED BY <1>1, <1>4, <1>6, <1>15

----------------------------------------------------------------------------
\* Every step of a worker leaves it where the layer expects it.
LEMMA StepIsInControl ==
  ASSUME Inv, NEW w \in Workers, WorkerStep(w)
  PROVE  TypeOK' /\ IsAt(w)'
<1>0. TypeOK /\ IsAt(w) /\ Control
  BY DEF Inv, Control
<1>1. /\ UNCHANGED <<phase, order, answer>> /\ step[w] \notin {"off", "done_ok", "done_err"}
      /\ phase[w[1]] \notin Decided /\ Started(w[1]) /\ Started(w[1])'
  BY <1>0, WorkerFrame DEF IsAt, Started
<1>2. Entry(w) \in Entries /\ KeyOf(w) \in Keys /\ at[w] \in Nat /\ attempt[w] \in Nat
  BY <1>0, <1>1, EntryFacts
<1>3. None \notin Texts /\ None \notin Inodes /\ None \notin {"stored", "failed", "miss", "poisoned"}
  BY NamesAreApart
<1>4. ASSUME Fail(w), pc' = [pc EXCEPT ![w] = "idle"], fd' = [fd EXCEPT ![w] = None],
             Cache!TypeOK', calls' = calls, ledger' \subseteq LedgerEntry, seen' = seen
      PROVE  TypeOK' /\ IsAt(w)'
  <2>1. /\ step' \in [Workers -> Steps] /\ step'[w] \in {"lookup", "done_err"}
        /\ at' \in [Workers -> Nat \ {0}]
        /\ \A v \in Workers : at'[v] <= Len(Route[v[1]].preferred)
        /\ attempt' \in [Workers -> Nat]
        /\ result' \in [Workers -> Texts \cup {None}] /\ result'[w] = None
        /\ w[2] <= at'[w]
        /\ IsConsensus(w[1]) => at'[w] = at[w]
    BY <1>0, <1>1, <1>4, FailFacts
  <2>2. TypeOK'
    BY <1>0, <1>1, <1>4, <2>1 DEF TypeOK
  <2>3. pc'[w] = "idle" /\ fd'[w] = None
    BY <1>0, <1>4 DEF TypeOK, Cache!TypeOK
  <2>4. IsAt(w)'
    BY <1>0, <1>1, <2>1, <2>3 DEF IsAt, InHand, Cache!PutSteps
  <2> QED BY <2>2, <2>4
<1> USE <1>0, <1>1, <1>2, <1>3
    DEF TypeOK, Cache!TypeOK, Cache!Return, Cache!Goto, Advance
<1>5. CASE LookupMiss(w)
  <2>1. TypeOK'
    BY <1>5 DEF LookupMiss, Cache!GetMiss, Steps, Cache!Results
  <2> QED BY <1>5, <2>1 DEF LookupMiss, Cache!GetMiss, IsAt, InHand, Cache!PutSteps
<1>6. CASE LookupOpen(w)
  <2>1. TypeOK'
    BY <1>6 DEF LookupOpen, Cache!GetOpen, Steps, Cache!Results
  <2> QED BY <1>6, <2>1 DEF LookupOpen, Cache!GetOpen, IsAt, InHand, Cache!PutSteps
<1>7. CASE LookupRead(w)
  <2>1. /\ step[w] = "reading" /\ Cache!TypeOK' /\ out' \in [Workers -> Cache!Results]
        /\ pc' = [pc EXCEPT ![w] = "idle"] /\ fd' = [fd EXCEPT ![w] = None]
        /\ UNCHANGED <<calls, ledger, seen>>
    BY <1>7 DEF LookupRead, Cache!GetRead, Cache!GetFail, Cache!Results
  <2>2. CASE out'[w] \in Texts
    <3>1. Advance(w, "log_hit") /\ result' = [result EXCEPT ![w] = out'[w]]
      BY <1>7, <2>2 DEF LookupRead
    <3>2. /\ step'[w] = "log_hit" /\ pc'[w] = "idle" /\ fd'[w] = None
          /\ result'[w] = out'[w]
      BY <2>1, <3>1
    <3>3. at' = at /\ attempt' = attempt /\ phase' = phase /\ order' = order /\ answer' = answer
      BY <3>1
    <3>4. step' \in [Workers -> Steps] /\ result' \in [Workers -> Texts \cup {None}]
      BY <2>2, <3>1 DEF Steps
    <3>5. TypeOK'
      BY <2>1, <3>3, <3>4
    <3> HIDE DEF TypeOK
    <3> QED BY <2>2, <3>2, <3>3, <3>5, NamesAreApart DEF IsAt, InHand, Cache!PutSteps
  <2>3. CASE out'[w] \notin Texts
    <3>1. Fail(w) /\ ledger' \subseteq LedgerEntry
      BY <1>7, <2>1, <2>3 DEF LookupRead
    <3> QED BY <1>4, <2>1, <3>1
  <2> QED BY <2>2, <2>3
<1>8. CASE CallSucceeds(w)
  <2>1. PICK x \in Texts : /\ Answered(w, x) /\ Cache!PutBegin(w, KeyOf(w), x)
                           /\ result' = [result EXCEPT ![w] = x]
    BY <1>8 DEF CallSucceeds
  <2>2. calls' \subseteq Call
    BY <2>1 DEF Answered, Call
  <2>3. TypeOK'
    BY <1>8, <2>1, <2>2 DEF CallSucceeds, Cache!PutBegin, Steps, Cache!PutSteps, Cache!Results
  <2>4. KeyOf(w)' = KeyOf(w)
    BY <1>8 DEF CallSucceeds, KeyOf, Entry, EntryAt
  <2>5. /\ step'[w] = "storing" /\ pc'[w] = "open" /\ key'[w] = KeyOf(w) /\ text'[w] = x
        /\ result'[w] = x /\ at' = at /\ fd'[w] = None
    BY <1>8, <2>1 DEF CallSucceeds, Cache!PutBegin, IsAt
  <2> HIDE DEF TypeOK
  <2> QED BY <2>3, <2>4, <2>5 DEF IsAt, InHand, Cache!PutSteps
<1>9. CASE CallFails(w)
  <2>1. calls' \subseteq Call
    BY <1>9 DEF CallFails, Answered, Call
  <2>2. TypeOK'
    BY <1>9, <2>1 DEF CallFails, cacheVars, Steps
  <2> QED BY <1>9, <2>2 DEF CallFails, cacheVars, IsAt, InHand, Cache!PutSteps
<1>10. CASE LogAnswer(w) \/ LogErrorFinal(w) \/ LogErrorRetry(w) \/ LogFails(w)
  <2>1. ledger' \subseteq LedgerEntry
    <3>1. \A hit \in BOOLEAN, r \in {"ok"} \cup Errors :
            AppendEntry(w, hit, r) => ledger' \subseteq LedgerEntry
      BY DEF AppendEntry, LedgerEntry
    <3>2. step[w] = "log_err" => LastOutcome(w) \in Errors
      BY LastOutcomeFacts
    <3> QED BY <1>10, <3>1, <3>2
            DEF LogAnswer, LogErrorFinal, LogErrorRetry, MayRetry, LogFails
  <2>2. UNCHANGED cacheVars /\ calls' = calls /\ seen' = seen
    BY <1>10 DEF LogAnswer, LogErrorFinal, LogErrorRetry, Retry, LogFails
  <2>3. step[w] \in {"log_hit", "log_ok", "log_err"} /\ pc[w] = "idle" /\ fd[w] = None
    BY <1>10 DEF LogAnswer, LogErrorFinal, LogErrorRetry, MayRetry, LogFails, IsAt, Cache!PutSteps
  <2>4. CASE LogAnswer(w)
    <3>1. TypeOK'
      BY <2>1, <2>2, <2>4 DEF LogAnswer, cacheVars, Steps
    <3> QED BY <2>2, <2>3, <2>4, <3>1 DEF LogAnswer, cacheVars, IsAt, InHand, Cache!PutSteps
  <2>5. CASE LogErrorRetry(w)
    <3>1. TypeOK'
      BY <2>1, <2>2, <2>5 DEF LogErrorRetry, Retry, cacheVars, Steps
    <3> QED BY <2>2, <2>3, <2>5, <3>1
            DEF LogErrorRetry, MayRetry, Retry, cacheVars, IsAt, InHand, Cache!PutSteps
  <2>6. CASE Fail(w)
    <3>1. pc' = [pc EXCEPT ![w] = "idle"] /\ fd' = [fd EXCEPT ![w] = None] /\ Cache!TypeOK'
      BY <2>2, <2>3 DEF cacheVars
    <3> QED BY <1>4, <2>1, <2>2, <2>6, <3>1
  <2> QED BY <1>10, <2>4, <2>5, <2>6 DEF LogErrorFinal, LogFails
<1>11. CASE Storing(w)
  <2>0. key[w] \in Keys /\ text[w] \in Texts
    BY <1>11 DEF IsAt, Storing, InHand
  <2>1. CASE StoreGoesOn(w)
    <3>1. Cache!TypeOK'
      <4>1. CASE Cache!PutOpenNew(w)
        <5>1. PICK i : i = (CHOOSE j \in Cache!Free : TRUE)
          OBVIOUS
        <5>2. i \in Inodes
          BY <4>1, <5>1 DEF Cache!PutOpenNew, Cache!Free
        <5> QED BY <2>0, <4>1, <5>1, <5>2
                DEF Cache!PutOpenNew, Cache!TmpOf, Cache!PutSteps, Cache!Contents
      <4>2. CASE Cache!PutWrite(w)
        <5>1. PICK c \in Cache!Overwritten(data[fd[w]], text[w]) :
                data' = [data EXCEPT ![fd[w]] = c]
          BY <4>2 DEF Cache!PutWrite
        <5>2. c \in Cache!Contents
          BY <2>0, <5>1 DEF Cache!Overwritten, Cache!Contents
        <5> QED BY <4>2, <5>1, <5>2 DEF Cache!PutWrite, Cache!PutSteps
      <4>3. CASE Cache!PutOpenOld(w)
        BY <2>0, <4>3 DEF Cache!PutOpenOld, Cache!TmpOf, Cache!PutSteps, Cache!Contents
      <4>4. CASE pc' = [pc EXCEPT ![w] = "rename"] /\ UNCHANGED <<tmp, pub, data, key, text, fd, out>>
        BY <4>4 DEF Cache!PutSteps
      <4> QED BY <2>1, <4>1, <4>2, <4>3, <4>4 DEF StoreGoesOn
    <3>2. UNCHANGED <<calls, ledger, seen, result, step, at, attempt, key, text>>
      BY <1>11, <2>1, StoringCases
         DEF StoreGoesOn, Storing, Cache!PutOpenOld, Cache!PutOpenNew, Cache!PutWrite
    <3>3. TypeOK'
      BY <3>1, <3>2
    <3>4. pc'[w] \in {"write", "chmod", "rename"} /\ (fd'[w] # None <=> pc'[w] = "write")
      <4>1. CASE Cache!PutOpenNew(w)
        <5>1. PICK i : i = (CHOOSE j \in Cache!Free : TRUE)
          OBVIOUS
        <5>2. i \in Inodes
          BY <4>1, <5>1 DEF Cache!PutOpenNew, Cache!Free
        <5> QED BY <4>1, <5>1, <5>2 DEF Cache!PutOpenNew
      <4>2. CASE Cache!PutWrite(w) \/ Cache!PutOpenOld(w)
        BY <2>0, <4>2 DEF Cache!PutWrite, Cache!PutOpenOld, Cache!TmpOf
      <4>3. CASE /\ pc[w] = "chmod"
                 /\ pc' = [pc EXCEPT ![w] = "rename"]
                 /\ UNCHANGED <<tmp, pub, data, key, text, fd, out>>
        BY <4>3 DEF IsAt
      <4> QED BY <2>1, <4>1, <4>2, <4>3 DEF StoreGoesOn
    <3>5. KeyOf(w)' = KeyOf(w)
      BY <3>2 DEF KeyOf, Entry, EntryAt
    <3> HIDE DEF TypeOK
    <3> QED BY <1>11, <3>2, <3>3, <3>4, <3>5 DEF Storing, IsAt, InHand, Cache!PutSteps
  <2>2. CASE StoreIsDone(w)
    <3>1. TypeOK'
      BY <1>11, <2>0, <2>2, StoringCases DEF StoreIsDone, Steps, Cache!Results
    <3> QED BY <1>11, <2>2, <3>1, StoringCases DEF StoreIsDone, IsAt, InHand, Cache!PutSteps
  <2>3. CASE StoreIsLost(w)
    <3>1. Cache!TypeOK'
      BY <2>3 DEF StoreIsLost, Cache!Results
    <3> QED BY <1>4, <1>11, <2>3, <3>1, StoringCases DEF StoreIsLost
  <2>4. CASE StoreFails(w)
    <3>1. data' \in [Inodes -> Cache!Contents]
      <4>1. CASE pc[w] = "write"
        <5>1. PICK c \in Cache!CutShort(data[fd[w]], text[w]) :
                data' = [data EXCEPT ![fd[w]] = c]
          BY <2>4, <4>1 DEF StoreFails, Cache!CutOff
        <5>2. fd[w] \in Inodes
          BY <4>1 DEF IsAt
        <5> QED BY <2>0, <5>1, <5>2 DEF Cache!CutShort, Cache!Contents
      <4>2. CASE pc[w] # "write"
        BY <2>4, <4>2 DEF StoreFails, Cache!CutOff
      <4> QED BY <4>1, <4>2
    <3>2. Cache!TypeOK'
      BY <2>4, <3>1 DEF StoreFails, Cache!CutOff, Cache!Results
    <3> QED BY <1>4, <1>11, <2>4, <3>2, StoringCases DEF StoreFails
  <2> QED BY <1>11, <2>1, <2>2, <2>3, <2>4, StoringCases
<1> QED BY <1>5, <1>6, <1>7, <1>8, <1>9, <1>10, <1>11 DEF WorkerStep

\* What the steps of one worker leave of the others.
LEMMA OthersStay ==
  ASSUME Control, NEW w \in Workers, WorkerStep(w), NEW v \in Workers, v # w
  PROVE  KeyOf(v)' = KeyOf(v) /\ IsAt(v)'
<1>1. IsAt(w) /\ IsAt(v) /\ TypeOK
  BY DEF Control
<1>2. /\ UNCHANGED <<phase, order, answer>>
      /\ step'[v] = step[v] /\ at'[v] = at[v] /\ result'[v] = result[v]
      /\ pc'[v] = pc[v] /\ key'[v] = key[v] /\ text'[v] = text[v] /\ fd'[v] = fd[v]
  BY <1>1, WorkerFrame
<1>3. KeyOf(v)' = KeyOf(v)
  BY <1>2 DEF KeyOf, Entry, EntryAt
<1> QED BY <1>1, <1>2, <1>3 DEF IsAt, Started

LEMMA StartKeepsControl ==
  ASSUME Control, NEW d \in Dispatches, Start(d)
  PROVE  Control'
<1>1. PICK o \in Orders(d) : order' = [order EXCEPT ![d] = o]
  BY DEF Start
<1>2. /\ o \in Seq(Entries) /\ Len(o) = Len(Route[d].preferred)
      /\ IsConsensus(d) => o = Route[d].preferred
  BY OrderFacts
<1>3. /\ phase[d] = "new" /\ phase' = [phase EXCEPT ![d] = "running"]
      /\ step' = [w \in Workers |-> IF w[1] = d THEN "lookup" ELSE step[w]]
      /\ UNCHANGED <<cacheVars, answer, at, attempt, result, calls, ledger, seen>>
  BY DEF Start
<1>4. TypeOK /\ OrdersAreLists
  BY DEF Control
<1>5. TypeOK'
  BY <1>1, <1>2, <1>3, <1>4 DEF TypeOK, Cache!TypeOK, cacheVars, Steps
<1>6. OrdersAreLists'
  BY <1>1, <1>2, <1>3, <1>4 DEF TypeOK, OrdersAreLists, Started, Decided
<1>7. ASSUME NEW w \in Workers PROVE IsAt(w)'
  <2>1. IsAt(w) /\ w[1] \in Dispatches
    BY WorkerFacts DEF Control
  <2>2. CASE w[1] = d
    <3>1. step[w] = "off" /\ step'[w] = "lookup" /\ phase'[w[1]] = "running"
      BY <1>3, <1>4, <2>1, <2>2 DEF IsAt, Started, Decided, TypeOK
    <3> QED BY <1>3, <2>1, <3>1 DEF IsAt, Started, Decided, cacheVars, InHand, Cache!PutSteps
  <2>3. CASE w[1] # d
    <3>1. step'[w] = step[w] /\ phase'[w[1]] = phase[w[1]] /\ order'[w[1]] = order[w[1]]
      BY <1>1, <1>3, <1>4, <2>1, <2>3 DEF TypeOK
    <3>2. KeyOf(w)' = KeyOf(w)
      BY <1>3, <3>1 DEF KeyOf, Entry, EntryAt
    <3> QED BY <1>3, <2>1, <3>1, <3>2 DEF IsAt, Started, cacheVars
  <2> QED BY <2>2, <2>3
<1> QED BY <1>5, <1>6, <1>7 DEF Control

LEMMA FinishKeepsControl ==
  ASSUME Control, NEW d \in Dispatches, Finish(d)
  PROVE  Control'
<1>1. /\ phase[d] = "running"
      /\ \A w \in WorkersOf(d) : step[w] \in {"done_ok", "done_err"}
      /\ \E p \in Decided : phase' = [phase EXCEPT ![d] = p]
      /\ UNCHANGED <<cacheVars, order, step, at, attempt, result, calls, ledger, seen>>
  BY DEF Finish, Decided
<1>2. TypeOK /\ OrdersAreLists
  BY DEF Control
<1>3. answer' \in [Dispatches -> Workers \cup {None}]
  <2>1. IsConsensus(d) /\ Cardinality(Successes(d)) >= NeedQuorum(d) => Pick(d) \in Workers
    BY PickFacts
  <2>2. ~IsConsensus(d) => <<d, 1>> \in Workers
    <3>1. ~IsConsensus(d) => <<d, 1>> \in WorkersOf(d)
      BY DEF WorkersOf, Shards
    <3> QED BY <3>1, WorkerFacts
  <2>3. /\ Cardinality(Successes(d)) \in Nat /\ NeedQuorum(d) \in Nat
    <3>1. TakeN(d) \in Nat
      BY WorkersAreCounted
    <3> QED BY <3>1, VotesAreCounted DEF NeedQuorum
  <2>4. ~(Cardinality(Successes(d)) < NeedQuorum(d)) => Cardinality(Successes(d)) >= NeedQuorum(d)
    BY <2>3
  <2> QED BY <1>2, <2>1, <2>2, <2>4 DEF Finish, TypeOK
<1>4. TypeOK'
  BY <1>1, <1>2, <1>3 DEF TypeOK, Cache!TypeOK, cacheVars
<1>5. OrdersAreLists'
  BY <1>1, <1>2 DEF TypeOK, OrdersAreLists, Started, Decided
<1>6. ASSUME NEW w \in Workers PROVE IsAt(w)'
  <2>1. IsAt(w) /\ w[1] \in Dispatches /\ w \in WorkersOf(w[1])
    BY WorkerFacts DEF Control
  <2>2. KeyOf(w)' = KeyOf(w)
    BY <1>1 DEF KeyOf, Entry, EntryAt
  <2>3. Started(w[1])' <=> Started(w[1])
    BY <1>1, <1>2, <2>1 DEF TypeOK, Started
  <2>4. phase'[w[1]] \in Decided => step[w] \in {"done_ok", "done_err"}
    BY <1>1, <1>2, <2>1 DEF TypeOK, IsAt
  <2> QED BY <1>1, <2>1, <2>2, <2>3, <2>4 DEF IsAt, cacheVars
<1> QED BY <1>4, <1>5, <1>6 DEF Control

LEMMA WorkerKeepsControl ==
  ASSUME Inv, NEW w \in Workers, WorkerStep(w)
  PROVE  Control'
<1>1. TypeOK' /\ IsAt(w)'
  BY StepIsInControl
<1>2. Control /\ IsAt(w) /\ TypeOK
  BY DEF Inv, Control
<1>3. OrdersAreLists'
  BY <1>2, WorkerFrame DEF Control, OrdersAreLists, Started
<1>4. \A v \in Workers : IsAt(v)'
  BY <1>1, <1>2, OthersStay
<1> QED BY <1>1, <1>3, <1>4 DEF Control

----------------------------------------------------------------------------
\* Layer 2: files.

\* What every step of a worker has in common: calls are only added, one at a
\* time and by the worker that makes it; a walk only goes forward.
LEMMA StepFacts ==
  ASSUME Inv, NEW w \in Workers, WorkerStep(w)
  PROVE  /\ calls \subseteq calls'
         /\ \/ calls' = calls
            \/ /\ step[w] = "call" /\ at' = at /\ attempt' = attempt
               /\ CallSucceeds(w) \/ CallFails(w)
               /\ \E r \in Texts \cup Errors : Answered(w, r)
         /\ \A v \in Workers : at[v] \in Nat \ {0} /\ at'[v] \in Nat \ {0} /\ at[v] <= at'[v]
         /\ \/ at' = at /\ KeyOf(w)' = KeyOf(w)
            \/ at'[w] = at[w] + 1 /\ Fail(w) /\ step'[w] = "lookup"
         /\ \A c \in calls : KeyOfCall(c)' = KeyOfCall(c)
         /\ \A x, k : Returned(x, k) => \E c \in calls' : c.outcome = x /\ KeyOfCall(c)' = k
<1>1. Control /\ IsAt(w) /\ TypeOK /\ Control' /\ TypeOK'
  BY WorkerKeepsControl DEF Inv, Control
<1>2. /\ UNCHANGED <<phase, order, answer>> /\ step[w] \notin {"off", "done_ok", "done_err"}
      /\ \A v \in Workers : v # w => at'[v] = at[v]
  BY <1>1, WorkerFrame
<1>3. \/ calls' = calls
      \/ /\ step[w] = "call" /\ at' = at /\ attempt' = attempt
         /\ CallSucceeds(w) \/ CallFails(w)
         /\ \E r \in Texts \cup Errors : Answered(w, r)
  <2>1. CASE CallSucceeds(w) \/ CallFails(w)
    BY <2>1 DEF CallSucceeds, CallFails, Advance
  <2>2. CASE ~(CallSucceeds(w) \/ CallFails(w))
    BY <2>2 DEF WorkerStep, LookupMiss, LookupOpen, LookupRead, Storing, LogAnswer,
       LogErrorFinal, LogErrorRetry, Retry, LogFails
  <2> QED BY <2>1, <2>2
<1>4. calls \subseteq calls'
  BY <1>3 DEF Answered
<1>5. at' = at \/ (at'[w] = at[w] + 1 /\ Fail(w) /\ step'[w] = "lookup")
  <2>1. CASE Fail(w)
    <3>1. /\ step'[w] \in {"lookup", "done_err"}
          /\ step'[w] = "lookup" => at'[w] = at[w] + 1
          /\ step'[w] = "done_err" => at'[w] = at[w]
      BY <1>1, <1>2, <2>1, FailFacts
    <3>2. at \in [Workers -> Nat \ {0}] /\ at' \in [Workers -> Nat \ {0}]
      BY <1>1 DEF TypeOK
    <3> QED BY <1>2, <2>1, <3>1, <3>2
  <2>2. CASE ~Fail(w)
    BY <2>2 DEF WorkerStep, LookupMiss, LookupOpen, LookupRead, CallSucceeds, CallFails,
       Storing, LogAnswer, LogErrorFinal, LogErrorRetry, Retry, LogFails, Advance
  <2> QED BY <2>1, <2>2
<1>6. \A v \in Workers : at[v] \in Nat \ {0} /\ at'[v] \in Nat \ {0} /\ at[v] <= at'[v]
  <2>1. at \in [Workers -> Nat \ {0}] /\ at' \in [Workers -> Nat \ {0}]
    BY <1>1 DEF TypeOK
  <2> QED BY <1>2, <1>5, <2>1
<1>7. at' = at => KeyOf(w)' = KeyOf(w)
  BY <1>2 DEF KeyOf, Entry, EntryAt
<1>8. \A c \in calls : KeyOfCall(c)' = KeyOfCall(c)
  BY <1>2 DEF KeyOfCall, EntryAt
<1>9. \A x, k : Returned(x, k) => \E c \in calls' : c.outcome = x /\ KeyOfCall(c)' = k
  BY <1>4, <1>8 DEF Returned
<1> QED BY <1>3, <1>4, <1>5, <1>6, <1>7, <1>8, <1>9

\* A step brings no file into reach of a key but a new one, of the worker's own
\* key, and writes nothing but the worker's completion to the file it has open.
FilesMove(w) ==
  /\ \A i \in Inodes, k \in Keys : InUse(i, k)' =>
       \/ InUse(i, k)
       \/ /\ k = KeyOf(w) /\ data'[i] \notin Texts
          /\ \A j \in Keys : ~InUse(i, j)
  /\ \A i \in Inodes : data'[i] \in Texts =>
       \/ data'[i] = data[i]
       \/ data'[i] = text[w] /\ fd[w] = i /\ pc[w] = "write"

LEMMA StepMovesFiles ==
  ASSUME Inv, NEW w \in Workers, WorkerStep(w)
  PROVE  FilesMove(w)
<1>0. Control /\ IsAt(w) /\ TypeOK /\ Cache!TypeOK
  BY DEF Inv, Control, TypeOK
<1>1. /\ \A v \in Workers : v # w => KeyOf(v)' = KeyOf(v) /\ fd'[v] = fd[v]
      /\ UNCHANGED order /\ step[w] # "off"
  BY <1>0, OthersStay, WorkerFrame
<1>2. KeyOf(w) \in Keys
  BY <1>0, <1>1, EntryFacts
<1>3. None \notin Inodes /\ "empty" \notin Texts /\ "torn" \notin Texts
  BY NamesAreApart
<1>4. ASSUME \A k \in Keys : tmp'[k] = tmp[k] \/ tmp'[k] \notin Inodes,
             \A k \in Keys : pub'[k] = pub[k] \/ pub'[k] = tmp[k],
             \/ fd'[w] = None
             \/ /\ fd'[w] \in {fd[w], tmp[KeyOf(w)], pub[KeyOf(w)]}
                /\ KeyOf(w)' = KeyOf(w),
             NEW i \in Inodes, NEW k \in Keys, InUse(i, k)'
      PROVE  InUse(i, k)
  BY <1>1, <1>3, <1>4 DEF InUse
<1>5. at' = at => KeyOf(w)' = KeyOf(w)
  BY <1>1 DEF KeyOf, Entry, EntryAt
<1> USE <1>0, <1>2, <1>3 DEF Cache!TypeOK, Cache!Return
<1>6. CASE LookupMiss(w)
  BY <1>4, <1>6 DEF LookupMiss, Cache!GetMiss, FilesMove
<1>7. CASE LookupOpen(w)
  BY <1>4, <1>5, <1>7 DEF LookupOpen, Cache!GetOpen, Advance, FilesMove
<1>8. CASE LookupRead(w)
  BY <1>4, <1>8 DEF LookupRead, Cache!GetRead, Cache!GetFail, FilesMove
<1>9. CASE CallSucceeds(w)
  BY <1>4, <1>5, <1>9 DEF CallSucceeds, Cache!PutBegin, Advance, FilesMove
<1>10. CASE CallFails(w)
  BY <1>4, <1>5, <1>10 DEF CallFails, cacheVars, Advance, FilesMove
<1>11. CASE LogAnswer(w) \/ LogErrorFinal(w) \/ LogErrorRetry(w) \/ LogFails(w)
  <2>1. UNCHANGED cacheVars /\ fd[w] = None
    BY <1>11 DEF LogAnswer, LogErrorFinal, LogErrorRetry, MayRetry, Retry, LogFails, IsAt,
       Cache!PutSteps
  <2> QED BY <1>4, <2>1 DEF cacheVars, FilesMove
<1>12. CASE Storing(w)
  <2>0. /\ key[w] = KeyOf(w)
        /\ StoreGoesOn(w) \/ StoreIsDone(w) \/ StoreIsLost(w) \/ StoreFails(w)
    BY <1>12, StoringCases DEF IsAt, Storing
  <2>1. CASE StoreGoesOn(w)
    <3>0. KeyOf(w)' = KeyOf(w)
      BY <1>5, <2>1 DEF StoreGoesOn, Advance
    <3>1. CASE Cache!PutOpenOld(w)
      BY <1>4, <2>0, <3>0, <3>1 DEF Cache!PutOpenOld, Cache!TmpOf, FilesMove
    <3>2. CASE Cache!PutOpenNew(w)
      <4>1. PICK i : i = (CHOOSE j \in Cache!Free : TRUE)
        OBVIOUS
      <4>2. i \in Cache!Free
        BY <3>2, <4>1 DEF Cache!PutOpenNew
      <4>3. i \in Inodes /\ \A j \in Keys : ~InUse(i, j)
        BY <4>2 DEF Cache!Free, InUse
      <4>4. /\ tmp' = [tmp EXCEPT ![KeyOf(w)] = i] /\ data' = [data EXCEPT ![i] = "empty"]
            /\ fd' = [fd EXCEPT ![w] = i] /\ pub' = pub
        BY <2>0, <3>2, <4>1 DEF Cache!PutOpenNew, Cache!TmpOf
      <4>5. ASSUME NEW j \in Inodes, NEW k \in Keys, InUse(j, k)'
            PROVE  InUse(j, k) \/ (j = i /\ k = KeyOf(w))
        <5>0. /\ tmp'[k] = (IF k = KeyOf(w) THEN i ELSE tmp[k]) /\ pub'[k] = pub[k]
              /\ fd'[w] = i
          BY <4>4
        <5>1. CASE tmp'[k] = j \/ pub'[k] = j
          BY <5>0, <5>1 DEF InUse
        <5>2. CASE \E v \in Workers : fd'[v] = j /\ KeyOf(v)' = k
          <6>1. PICK v \in Workers : fd'[v] = j /\ KeyOf(v)' = k
            BY <5>2
          <6>2. CASE v = w
            BY <3>0, <5>0, <6>1, <6>2
          <6>3. CASE v # w
            BY <1>1, <6>1, <6>3 DEF InUse
          <6> QED BY <6>2, <6>3
        <5> QED BY <4>5, <5>1, <5>2 DEF InUse
      <4>6. \A j \in Inodes : data'[j] \in Texts => data'[j] = data[j]
        BY <4>3, <4>4
      <4>7. data'[i] \notin Texts
        BY <4>3, <4>4
      <4> QED BY <4>3, <4>5, <4>6, <4>7 DEF FilesMove
    <3>3. CASE Cache!PutWrite(w)
      <4>1. PICK c \in Cache!Overwritten(data[fd[w]], text[w]) :
              data' = [data EXCEPT ![fd[w]] = c]
        BY <3>3 DEF Cache!PutWrite
      <4>2. c \in Texts => c = text[w]
        BY <4>1 DEF Cache!Overwritten
      <4> QED BY <1>4, <3>0, <3>3, <4>1, <4>2 DEF Cache!PutWrite, FilesMove
    <3>4. CASE UNCHANGED <<tmp, pub, data, key, text, fd, out>>
      BY <1>4, <3>0, <3>4 DEF FilesMove
    <3> QED BY <2>1, <3>1, <3>2, <3>3, <3>4 DEF StoreGoesOn
  <2>2. CASE StoreIsDone(w)
    BY <1>4, <2>2 DEF StoreIsDone, FilesMove
  <2>3. CASE StoreIsLost(w)
    BY <1>4, <2>3 DEF StoreIsLost, FilesMove
  <2>4. CASE StoreFails(w)
    <3>1. \A i \in Inodes : data'[i] \in Texts =>
            data'[i] = data[i] \/ (data'[i] = text[w] /\ fd[w] = i /\ pc[w] = "write")
      BY <2>4 DEF StoreFails, Cache!CutOff, Cache!CutShort
    <3> QED BY <1>4, <2>4, <3>1 DEF StoreFails, Cache!CutOff, FilesMove
  <2> QED BY <2>0, <2>1, <2>2, <2>3, <2>4
<1> QED BY <1>6, <1>7, <1>8, <1>9, <1>10, <1>11, <1>12 DEF WorkerStep

LEMMA WorkerKeepsFiles ==
  ASSUME Inv, NEW w \in Workers, WorkerStep(w)
  PROVE  FilesAreOfOneKey' /\ FilesAreGenuine' /\ ResultsAreGenuine' /\ CallsAreBehind'
<1>0. Control /\ IsAt(w) /\ TypeOK /\ Cache!TypeOK /\ Files
  BY DEF Inv, Control, TypeOK
<1>1. FilesMove(w)
  BY StepMovesFiles
<1>2. /\ calls \subseteq calls'
      /\ \A c \in calls : KeyOfCall(c)' = KeyOfCall(c)
      /\ \A x, k : Returned(x, k) => \E c \in calls' : c.outcome = x /\ KeyOfCall(c)' = k
      /\ \A v \in Workers : at[v] \in Nat \ {0} /\ at'[v] \in Nat \ {0} /\ at[v] <= at'[v]
  BY StepFacts
<1>3. /\ UNCHANGED <<phase, order, answer>> /\ step[w] \notin {"off", "done_ok", "done_err"}
      /\ \A v \in Workers : v # w => result'[v] = result[v] /\ KeyOf(v)' = KeyOf(v)
  BY <1>0, WorkerFrame, OthersStay
<1>4. KeyOf(w) \in Keys /\ Started(w[1])
  BY <1>0, <1>3, EntryFacts
<1>5. FilesAreOfOneKey'
  BY <1>0, <1>1 DEF FilesMove, Files, FilesAreOfOneKey
<1>6. FilesAreGenuine'
  <2> SUFFICES ASSUME NEW i \in Inodes, NEW k \in Keys, InUse(i, k)', data'[i] \in Texts
               PROVE  \E c \in calls' : c.outcome = data'[i] /\ KeyOfCall(c)' = k
    BY DEF FilesAreGenuine, Returned
  <2>1. InUse(i, k)
    BY <1>1 DEF FilesMove
  <2>2. CASE data'[i] = data[i]
    BY <1>0, <1>2, <2>1, <2>2 DEF Files, FilesAreGenuine
  <2>3. CASE data'[i] = text[w] /\ fd[w] = i /\ pc[w] = "write"
    <3>1. step[w] = "storing" /\ text[w] = result[w] /\ result[w] # None
      BY <1>0, <2>3 DEF IsAt, InHand, Cache!PutSteps
    <3>2. k = KeyOf(w)
      BY <1>0, <1>4, <2>1, <2>3 DEF InUse, Files, FilesAreOfOneKey
    <3> QED BY <1>0, <1>2, <2>3, <3>1, <3>2 DEF Files, ResultsAreGenuine
  <2> QED BY <1>1, <2>2, <2>3 DEF FilesMove
<1>7. CallsAreBehind'
  <2> SUFFICES ASSUME NEW c \in calls'
               PROVE  Started(c.worker[1])' /\ c.at \in 1..at'[c.worker]
    BY DEF CallsAreBehind
  <2>0. \A v \in Workers : Started(v[1])' <=> Started(v[1])
    BY <1>3 DEF Started
  <2>1. CASE c \in calls
    <3>1. c.worker \in Workers /\ c.at \in Nat
      BY <1>0, <2>1 DEF TypeOK, Call
    <3>2. Started(c.worker[1]) /\ c.at \in 1..at[c.worker]
      BY <1>0, <2>1 DEF Files, CallsAreBehind
    <3> QED BY <1>2, <2>0, <3>1, <3>2
  <2>2. CASE c \notin calls
    <3>1. c.worker = w /\ c.at = at[w] /\ at' = at
      BY <2>2, StepFacts DEF Answered
    <3> QED BY <1>2, <1>4, <2>0, <3>1
  <2> QED BY <2>1, <2>2
<1>8. ResultsAreGenuine'
  <2> SUFFICES ASSUME NEW v \in Workers, result'[v] # None
               PROVE  \E c \in calls' : c.outcome = result'[v] /\ KeyOfCall(c)' = KeyOf(v)'
    BY DEF ResultsAreGenuine, Returned
  <2>1. CASE v # w
    BY <1>0, <1>2, <1>3, <2>1 DEF Files, ResultsAreGenuine
  <2>2. CASE v = w
    <3>1. KeyOf(w)' = KeyOf(w)
      <4>1. Fail(w) => result'[w] = None
        BY <1>0, <1>3, FailFacts
      <4> QED BY <2>2, <4>1, StepFacts
    <3>2. CASE result'[w] = result[w]
      BY <1>0, <1>2, <2>2, <3>1, <3>2 DEF Files, ResultsAreGenuine
    <3>3. CASE LookupRead(w)
      <4>1. out'[w] \in Texts /\ result' = [result EXCEPT ![w] = out'[w]] /\ step[w] = "reading"
        <5>1. Fail(w) => result'[w] = None
          BY <1>0, <1>3, FailFacts
        <5> QED BY <2>2, <3>3, <5>1 DEF LookupRead
      <4>2. out'[w] = data[fd[w]] /\ fd[w] \in Inodes
        <5>1. fd[w] \in Inodes
          BY <1>0, <4>1 DEF IsAt, Cache!TypeOK
        <5>2. "poisoned" \notin Texts /\ "failed" \notin Texts
          BY NamesAreApart
        <5> QED BY <1>0, <3>3, <4>1, <5>1, <5>2
                DEF LookupRead, Cache!GetRead, Cache!GetFail, Cache!Return, Cache!TypeOK
      <4>3. InUse(fd[w], KeyOf(w))
        BY DEF InUse
      <4>4. Returned(data[fd[w]], KeyOf(w))
        BY <1>0, <1>4, <4>1, <4>2, <4>3 DEF Files, FilesAreGenuine
      <4>5. result'[w] = data[fd[w]]
        BY <1>0, <4>1, <4>2 DEF TypeOK
      <4> QED BY <1>2, <2>2, <3>1, <4>4, <4>5
    <3>4. CASE CallSucceeds(w)
      <4>1. PICK x \in Texts : Answered(w, x) /\ result' = [result EXCEPT ![w] = x]
        BY <3>4 DEF CallSucceeds
      <4>2. \E c \in calls' : c.outcome = x /\ c.worker = w /\ c.at = at[w]
        <5>1. [worker |-> w, at |-> at[w], attempt |-> attempt[w], outcome |-> x] \in calls'
          BY <4>1 DEF Answered
        <5> QED BY <5>1
      <4>3. PICK c \in calls' : c.outcome = x /\ c.worker = w /\ c.at = at[w]
        BY <4>2
      <4>4. result'[w] = x
        BY <1>0, <4>1 DEF TypeOK
      <4>5. KeyOfCall(c)' = KeyOf(w)
        BY <1>3, <4>3 DEF KeyOfCall, KeyOf, Entry, EntryAt
      <4> QED BY <2>2, <3>1, <4>3, <4>4, <4>5
    <3>5. CASE CallFails(w) \/ Storing(w) \/ LookupMiss(w) \/ LookupOpen(w) \/ LogAnswer(w)
                 \/ LogErrorFinal(w) \/ LogErrorRetry(w) \/ LogFails(w)
      <4>1. Fail(w) => result'[w] = None
        BY <1>0, <1>3, FailFacts
      <4> QED BY <2>2, <3>2, <3>5, <4>1
              DEF CallFails, Storing, LookupMiss, LookupOpen, LogAnswer, LogErrorFinal,
                  LogErrorRetry, Retry, LogFails
    <3> QED BY <3>3, <3>4, <3>5 DEF WorkerStep
  <2> QED BY <2>1, <2>2
<1> QED BY <1>5, <1>6, <1>7, <1>8

\* The step that takes a temporary file away from other workers publishes it, and
\* the worker that makes it has a completion of that key.
LEMMA WorkerKeepsLosers ==
  ASSUME Inv, NEW w \in Workers, WorkerStep(w)
  PROVE  LosersHaveWinners'
<1>0. Control /\ IsAt(w) /\ TypeOK /\ Cache!TypeOK /\ LosersHaveWinners
  BY DEF Inv, Control, TypeOK, Files
<1>1. /\ \A v \in Workers : v # w => pc'[v] = pc[v] /\ key'[v] = key[v]
      /\ step[w] \notin {"off", "done_ok", "done_err"}
  BY <1>0, WorkerFrame
<1>2. calls \subseteq calls' /\ \A c \in calls : KeyOfCall(c)' = KeyOfCall(c)
  BY StepFacts
<1>3. None \notin Inodes /\ None \notin Keys /\ KeyOf(w) \in Keys
  BY <1>0, <1>1, EntryFacts, NamesAreApart
<1> USE <1>0, <1>3 DEF Cache!TypeOK, Cache!Return, Cache!Goto
<1> SUFFICES ASSUME NEW v \in Workers, pc'[v] \in {"write", "chmod", "rename"},
                    tmp'[key'[v]] = None
             PROVE  /\ pub'[key'[v]] # None
                    /\ \E u \in Workers \ {v} : \E b \in calls' :
                         b.worker = u /\ b.outcome \in Texts /\ KeyOfCall(b)' = key'[v]
  BY DEF LosersHaveWinners
<1>4. CASE /\ pc[v] \in {"write", "chmod", "rename"} /\ tmp[key[v]] = None /\ key'[v] = key[v]
           /\ pub[key[v]] # None => pub'[key[v]] # None
  <2>1. PICK u \in Workers \ {v} : \E b \in calls :
          b.worker = u /\ b.outcome \in Texts /\ KeyOfCall(b) = key[v]
    BY <1>4 DEF LosersHaveWinners
  <2>2. PICK b \in calls : b.worker = u /\ b.outcome \in Texts /\ KeyOfCall(b) = key[v]
    BY <2>1
  <2>3. b \in calls' /\ KeyOfCall(b)' = key'[v]
    BY <1>2, <1>4, <2>2
  <2>4. pub'[key'[v]] # None
    BY <1>4 DEF LosersHaveWinners
  <2> QED BY <2>1, <2>2, <2>3, <2>4
<1>5. CASE StoreIsDone(w) /\ Storing(w)
  <2>1. /\ pc[w] = "rename" /\ tmp[key[w]] # None
        /\ pub' = [pub EXCEPT ![key[w]] = tmp[key[w]]]
        /\ tmp' = [tmp EXCEPT ![key[w]] = None]
        /\ pc'[w] = "idle" /\ key[w] = KeyOf(w) /\ text[w] = result[w] /\ result[w] \in Texts
    BY <1>5 DEF StoreIsDone, Storing, IsAt, TypeOK, InHand
  <2>2. v # w /\ pc'[v] = pc[v] /\ key'[v] = key[v]
    BY <1>1, <2>1
  <2>3. CASE key[v] # key[w]
    <3>1. tmp[key[v]] = None /\ pub'[key[v]] = pub[key[v]]
      BY <2>1, <2>2, <2>3
    <3> QED BY <1>4, <2>2, <3>1
  <2>4. CASE key[v] = key[w]
    <3>1. pub'[key'[v]] # None
      BY <2>1, <2>2, <2>4
    <3>2. PICK c \in calls : IsCall(c, w, at[w], attempt[w]) /\ c.outcome = result[w]
      BY <1>5 DEF Inv, History, CallsOfAreCounted, Storing
    <3>3. KeyOfCall(c) = key[w]
      BY <2>1, <3>2 DEF IsCall, KeyOfCall, KeyOf, Entry
    <3> QED BY <1>2, <2>1, <2>2, <2>4, <3>1, <3>2, <3>3 DEF IsCall
  <2> QED BY <2>3, <2>4
<1>6. CASE StoreGoesOn(w) /\ Storing(w)
  <2>1. key' = key /\ pub' = pub /\ key[w] \in Keys
    BY <1>6 DEF StoreGoesOn, Storing, IsAt, Cache!PutOpenOld, Cache!PutOpenNew, Cache!PutWrite
  <2>2. \A k \in Keys : tmp'[k] = tmp[k] \/ tmp'[k] \in Inodes
    <3>1. CASE Cache!PutOpenNew(w)
      <4>1. PICK i : i = (CHOOSE j \in Cache!Free : TRUE)
        OBVIOUS
      <4>2. i \in Inodes
        BY <3>1, <4>1 DEF Cache!PutOpenNew, Cache!Free
      <4> QED BY <2>1, <3>1, <4>1, <4>2 DEF Cache!PutOpenNew, Cache!TmpOf
    <3> QED BY <1>6, <3>1 DEF StoreGoesOn, Cache!PutOpenOld, Cache!PutWrite
  <2>3. CASE v # w
    <3>1. key[v] \in Keys => tmp[key[v]] = None
      BY <2>1, <2>2
    <3>2. key[v] \in Keys
      <4>1. IsAt(v) /\ pc[v] \in Cache!PutSteps
        BY <1>1, <2>3 DEF Control, Cache!PutSteps
      <4>2. key[v] = KeyOf(v) /\ step[v] # "off"
        BY <4>1 DEF IsAt
      <4> QED BY <4>2, EntryFacts
    <3> QED BY <1>1, <1>4, <2>1, <2>3, <3>1, <3>2
  <2>4. CASE v = w
    <3>1. pc[w] = "write" /\ tmp' = tmp
      <4>1. CASE Cache!PutOpenOld(w)
        BY <2>1, <2>4, <4>1 DEF Cache!PutOpenOld, Cache!TmpOf
      <4>2. CASE Cache!PutOpenNew(w)
        <5>1. PICK i : i = (CHOOSE j \in Cache!Free : TRUE)
          OBVIOUS
        <5>2. i \in Inodes
          BY <4>2, <5>1 DEF Cache!PutOpenNew, Cache!Free
        <5>3. tmp' = [tmp EXCEPT ![key[w]] = i]
          BY <4>2, <5>1 DEF Cache!PutOpenNew, Cache!TmpOf
        <5> QED BY <2>1, <2>4, <5>2, <5>3
      <4>3. CASE Cache!PutWrite(w)
        BY <4>3 DEF Cache!PutWrite
      <4>4. CASE tmp[key[w]] # None /\ UNCHANGED <<tmp, key>>
        BY <2>4, <4>4
      <4> QED BY <1>6, <4>1, <4>2, <4>3, <4>4 DEF StoreGoesOn
    <3> QED BY <1>4, <2>1, <2>4, <3>1
  <2> QED BY <2>3, <2>4
<1>7. CASE /\ UNCHANGED <<tmp, pub>>
           /\ pc'[w] \notin {"write", "chmod", "rename"} \/ UNCHANGED <<pc, key>>
  BY <1>1, <1>4, <1>7
<1>8. CASE Storing(w)
  <2>1. StoreIsLost(w) \/ StoreFails(w) => UNCHANGED <<tmp, pub>> /\ pc'[w] = "idle"
    BY DEF StoreIsLost, StoreFails, Cache!CutOff
  <2> QED BY <1>5, <1>6, <1>7, <1>8, <2>1, StoringCases
<1>9. CASE ~Storing(w)
  BY <1>7, <1>9 DEF WorkerStep, LookupMiss, LookupOpen, LookupRead, CallSucceeds, CallFails,
     LogAnswer, LogErrorFinal, LogErrorRetry, Retry, LogFails, cacheVars, Cache!GetMiss,
     Cache!GetOpen, Cache!GetRead, Cache!GetFail, Cache!PutBegin
<1> QED BY <1>8, <1>9

\* A dispatch that starts has no calls and no open files yet, and one that ends
\* changes none.
LEMMA DispatchKeepsFiles ==
  ASSUME Inv, NEW d \in Dispatches, Start(d) \/ Finish(d)
  PROVE  Files'
<1>1. Control /\ Files /\ TypeOK
  BY DEF Inv, Control
<1>2. /\ UNCHANGED <<cacheVars, at, attempt, result, calls, ledger, seen>>
      /\ phase[d] \in {"new", "running"}
      /\ \A e \in Dispatches : order'[e] = order[e] \/ (e = d /\ phase[d] = "new")
  BY <1>1 DEF Start, Finish, TypeOK
<1>3. \A e \in Dispatches : Started(e) => Started(e)' /\ order'[e] = order[e]
  BY <1>1, <1>2 DEF Start, Finish, TypeOK, Started, Decided
<1>4. ASSUME NEW w \in Workers, step[w] # "off" PROVE KeyOf(w)' = KeyOf(w)
  <2>1. Started(w[1]) /\ w[1] \in Dispatches
    BY <1>1, <1>4, EntryFacts, WorkerFacts
  <2> QED BY <1>2, <1>3, <2>1 DEF KeyOf, Entry, EntryAt
<1>5. ASSUME NEW c \in calls
      PROVE  KeyOfCall(c)' = KeyOfCall(c) /\ Started(c.worker[1])' /\ c.at \in 1..at[c.worker]
  <2>1. Started(c.worker[1]) /\ c.worker[1] \in Dispatches /\ c.at \in 1..at[c.worker]
    BY <1>1, <1>5, WorkerFacts DEF Files, CallsAreBehind, TypeOK, Call
  <2> QED BY <1>2, <1>3, <2>1 DEF KeyOfCall, EntryAt
<1>6. \A x, k : Returned(x, k) => \E c \in calls' : c.outcome = x /\ KeyOfCall(c)' = k
  BY <1>2, <1>5 DEF Returned
<1>7. None \notin Inodes
  BY NamesAreApart
<1>8. \A w \in Workers : fd[w] # None \/ result[w] # None => step[w] # "off"
  BY <1>1 DEF Control, IsAt, InHand, Cache!PutSteps
<1>9. ASSUME NEW i \in Inodes, NEW k \in Keys, InUse(i, k)' PROVE InUse(i, k)
  BY <1>2, <1>4, <1>7, <1>8, <1>9 DEF InUse, cacheVars
<1>10. FilesAreOfOneKey'
  BY <1>1, <1>9 DEF Files, FilesAreOfOneKey
<1>11. FilesAreGenuine'
  <2> SUFFICES ASSUME NEW i \in Inodes, NEW k \in Keys, InUse(i, k)', data'[i] \in Texts
               PROVE  \E c \in calls' : c.outcome = data'[i] /\ KeyOfCall(c)' = k
    BY DEF FilesAreGenuine, Returned
  <2>1. InUse(i, k) /\ data'[i] = data[i]
    BY <1>2, <1>9 DEF cacheVars
  <2>2. Returned(data[i], k)
    BY <1>1, <2>1 DEF Files, FilesAreGenuine
  <2> QED BY <1>6, <2>1, <2>2
<1>12. ResultsAreGenuine'
  <2> SUFFICES ASSUME NEW w \in Workers, result'[w] # None
               PROVE  \E c \in calls' : c.outcome = result'[w] /\ KeyOfCall(c)' = KeyOf(w)'
    BY DEF ResultsAreGenuine, Returned
  <2>1. result'[w] = result[w] /\ KeyOf(w)' = KeyOf(w)
    BY <1>2, <1>4, <1>8
  <2>2. Returned(result[w], KeyOf(w))
    BY <1>1, <2>1 DEF Files, ResultsAreGenuine
  <2> QED BY <1>6, <2>1, <2>2
<1>13. CallsAreBehind'
  BY <1>2, <1>5 DEF CallsAreBehind
<1>14. LosersHaveWinners'
  BY <1>1, <1>2, <1>5 DEF Files, LosersHaveWinners, cacheVars
<1> QED BY <1>10, <1>11, <1>12, <1>13, <1>14 DEF Files

----------------------------------------------------------------------------
\* Layer 3: history.

\* The retry policy allows one call at least.
LEMMA BudgetFacts ==
  ASSUME NEW w \in Workers
  PROVE  Budget(w) \in Nat /\ 1 <= Budget(w) /\ MaxAttempts(w[1]) <= Budget(w)
<1>1. MaxAttempts(w[1]) \in Nat
  BY WorkerFacts, ShardFacts
<1> DEFINE m == IF MaxAttempts(w[1]) < 1 THEN 1 ELSE MaxAttempts(w[1])
           S == {1, MaxAttempts(w[1])}
<1>2. m \in S /\ m \in Nat /\ 1 <= m /\ MaxAttempts(w[1]) <= m
  BY <1>1
<1>3. \E x \in S : \A n \in S : x >= n
  BY <1>1, <1>2
<1>4. Max(S) \in S /\ \A n \in S : Max(S) >= n
  BY <1>3 DEF Max
<1> QED BY <1>1, <1>4 DEF Budget

\* The places a worker's step can take it to: the same call, a retry of it, the
\* next entry.
Stays(w) == at'[w] = at[w] /\ attempt'[w] = attempt[w]

Retries(w) ==
  /\ step[w] = "log_err" /\ step'[w] = "call" /\ LastOutcome(w) = "error_transient"
  /\ attempt[w] < MaxAttempts(w[1])
  /\ at'[w] = at[w] /\ attempt'[w] = attempt[w] + 1

FallsThrough(w) == step'[w] = "lookup" /\ at'[w] = at[w] + 1 /\ attempt'[w] = 1

LEMMA StepPlaces ==
  ASSUME Inv, NEW w \in Workers, WorkerStep(w)
  PROVE  Stays(w) \/ Retries(w) \/ FallsThrough(w)
<1>1. Control /\ IsAt(w) /\ TypeOK /\ step[w] \notin {"off", "done_ok", "done_err"}
  <2>1. Control /\ IsAt(w) /\ TypeOK
    BY DEF Inv, Control
  <2> QED BY <2>1, WorkerFrame
<1>2. CASE Fail(w)
  BY <1>1, <1>2, FailFacts DEF Stays, FallsThrough
<1>3. CASE LogErrorRetry(w)
  BY <1>1, <1>3 DEF LogErrorRetry, MayRetry, Retry, Retries, TypeOK
<1>4. CASE ~Fail(w) /\ ~LogErrorRetry(w)
  BY <1>4 DEF WorkerStep, LookupMiss, LookupOpen, LookupRead, CallSucceeds, CallFails,
     Storing, LogAnswer, LogErrorFinal, LogFails, Advance, Stays
<1> QED BY <1>2, <1>3, <1>4

\* What a worker has just done is told by where it is.
LEMMA StepOrigins ==
  ASSUME Inv, NEW w \in Workers, WorkerStep(w)
  PROVE  /\ step'[w] # "off"
         /\ step'[w] = "call" => LookupMiss(w) \/ Retries(w)
         /\ step'[w] \in {"reading", "log_hit"} => LookupOpen(w) \/ LookupRead(w)
         /\ step'[w] \in {"storing", "log_ok"} =>
              CallSucceeds(w) \/ (Storing(w) /\ result' = result)
         /\ step'[w] = "log_err" => CallFails(w)
         /\ step'[w] = "done_ok" => LogAnswer(w)
         /\ step'[w] = "lookup" => FallsThrough(w)
<1>1. Control /\ IsAt(w) /\ TypeOK /\ step[w] \notin {"off", "done_ok", "done_err"}
  <2>1. Control /\ IsAt(w) /\ TypeOK
    BY DEF Inv, Control
  <2> QED BY <2>1, WorkerFrame
<1>2. CASE Fail(w)
  BY <1>1, <1>2, FailFacts DEF FallsThrough
<1>3. CASE LogErrorRetry(w)
  BY <1>1, <1>3 DEF LogErrorRetry, MayRetry, Retry, Retries, TypeOK
<1>4. CASE ~Fail(w) /\ ~LogErrorRetry(w)
  BY <1>1, <1>4 DEF WorkerStep, LookupMiss, LookupOpen, LookupRead, CallSucceeds, CallFails,
     Storing, LogAnswer, LogErrorFinal, LogFails, Advance, TypeOK
<1> QED BY <1>2, <1>3, <1>4

\* The calls of the other workers are untouched, and so are their ledger entries.
LEMMA OthersHistory ==
  ASSUME Inv, NEW w \in Workers, WorkerStep(w), NEW v \in Workers, v # w
  PROVE  /\ \A c \in calls' : c.worker = v => c \in calls
         /\ \A e \in ledger' : e.worker = v => e \in ledger
<1>1. calls' = calls \/ \E r \in Texts \cup Errors : Answered(w, r)
  BY StepFacts
<1>2. ledger' = ledger \/ \E hit, r : AppendEntry(w, hit, r)
  BY DEF WorkerStep, LookupMiss, LookupOpen, LookupRead, CallSucceeds, CallFails, Storing,
     LogAnswer, LogErrorFinal, LogErrorRetry, LogFails
<1> QED BY <1>1, <1>2 DEF Answered, AppendEntry

LEMMA WorkerKeepsCounts ==
  ASSUME Inv, NEW w \in Workers, WorkerStep(w)
  PROVE  \A v \in Workers : CallsOfAreCounted(v)'
<1>0. Control /\ IsAt(w) /\ TypeOK /\ TypeOK'
  BY WorkerKeepsControl DEF Inv, Control
<1>1. /\ calls \subseteq calls'
      /\ \A v \in Workers : at[v] \in Nat \ {0} /\ at'[v] \in Nat \ {0}
                            /\ attempt[v] \in Nat /\ attempt'[v] \in Nat
  BY <1>0, StepFacts DEF TypeOK
<1>2. \A v \in Workers : CallsOfAreCounted(v)
  BY DEF Inv, History
<1>3. ASSUME NEW v \in Workers, v # w PROVE CallsOfAreCounted(v)'
  <2>1. /\ step'[v] = step[v] /\ at'[v] = at[v] /\ attempt'[v] = attempt[v]
        /\ result'[v] = result[v]
    BY <1>0, <1>3, WorkerFrame
  <2>2. CallsOf(v, at[v])' = {c \in calls' : c.worker = v /\ c.at = at'[v]}
    BY DEF CallsOf
  <2>3. {c \in calls' : c.worker = v /\ c.at = at[v]} = CallsOf(v, at[v])
    BY <1>1, <1>3, OthersHistory DEF CallsOf
  <2>4. CallsOf(v, at[v])' = CallsOf(v, at[v])
    BY <2>1, <2>2, <2>3
  <2>5. Retried(v, at[v], attempt[v])'
    BY <1>1, <1>2, <2>1 DEF CallsOfAreCounted, Retried, IsCall
  <2> QED BY <1>1, <1>2, <2>1, <2>4, <2>5 DEF CallsOfAreCounted, Budget, IsCall
<1>4. CallsOfAreCounted(w)
  BY <1>2
<1>5. attempt'[w] \in 1..Budget(w) /\ Retried(w, at[w], attempt[w])'
  <2>1. attempt[w] \in 1..Budget(w) /\ Retried(w, at[w], attempt[w])
    BY <1>4 DEF CallsOfAreCounted
  <2>2. CASE Stays(w)
    BY <1>1, <2>1, <2>2 DEF Stays, Retried, IsCall
  <2>3. CASE Retries(w)
    <3>1. attempt'[w] = attempt[w] + 1 /\ at'[w] = at[w] /\ attempt'[w] \in 1..Budget(w)
      BY <1>0, <1>1, <2>3, BudgetFacts, WorkerFacts, ShardFacts DEF Retries
    <3>2. \E c \in calls : IsCall(c, w, at[w], attempt[w]) /\ c.outcome = "error_transient"
      BY <2>3, LastOutcomeFacts DEF Retries
    <3>3. ASSUME NEW b \in 1..(attempt'[w] - 1)
          PROVE  \E c \in calls : IsCall(c, w, at[w], b) /\ c.outcome = "error_transient"
      <4>1. b \in 1..(attempt[w] - 1) \/ b = attempt[w]
        BY <1>1, <3>1
      <4> QED BY <2>1, <3>2, <4>1 DEF Retried
    <3> QED BY <1>1, <3>1, <3>3 DEF Retried, IsCall
  <2>4. CASE FallsThrough(w)
    BY <2>4, BudgetFacts DEF FallsThrough, Retried
  <2> QED BY <2>2, <2>3, <2>4, StepPlaces
<1>6. ASSUME step'[w] \in {"off", "lookup", "reading", "log_hit"}
      PROVE  \A c \in calls' : ~(c.worker = w /\ c.at = at'[w])
  <2>1. CASE FallsThrough(w)
    <3>1. calls' = calls
      BY <2>1, StepFacts DEF FallsThrough
    <3>2. \A c \in calls : c.worker = w => c.at \in 1..at[w]
      BY DEF Inv, Files, CallsAreBehind
    <3> QED BY <1>1, <2>1, <3>1, <3>2 DEF FallsThrough
  <2>2. CASE LookupOpen(w) \/ LookupRead(w)
    <3>1. calls' = calls /\ step[w] \in {"lookup", "reading"}
      BY <2>2 DEF LookupOpen, LookupRead
    <3>2. CASE FallsThrough(w)
      BY <2>1, <3>2
    <3>3. CASE Stays(w)
      BY <1>4, <3>1, <3>3 DEF CallsOfAreCounted, CallsOf, Stays
    <3> QED BY <3>1, <3>2, <3>3, StepPlaces DEF Retries
  <2> QED BY <1>6, <2>1, <2>2, StepOrigins
<1>7. ASSUME step'[w] \in {"storing", "log_ok"}
      PROVE  \E c \in calls' : IsCall(c, w, at'[w], attempt'[w]) /\ c.outcome = result'[w]
  <2>1. CASE CallSucceeds(w)
    <3>1. PICK x \in Texts : Answered(w, x) /\ result' = [result EXCEPT ![w] = x]
      BY <2>1 DEF CallSucceeds
    <3>2. result'[w] = x /\ at' = at /\ attempt' = attempt
      BY <1>0, <2>1, <3>1 DEF TypeOK, CallSucceeds, Advance
    <3>3. [worker |-> w, at |-> at[w], attempt |-> attempt[w], outcome |-> x] \in calls'
      BY <3>1 DEF Answered
    <3> QED BY <3>2, <3>3 DEF IsCall
  <2>2. CASE Storing(w) /\ result' = result
    <3>1. step[w] = "storing" /\ calls' = calls /\ Stays(w)
      <4>1. step[w] = "storing" /\ calls' = calls
        BY <2>2 DEF Storing
      <4> QED BY <1>7, <4>1, StepPlaces DEF Retries, FallsThrough
    <3> QED BY <1>4, <2>2, <3>1 DEF CallsOfAreCounted, Stays
  <2> QED BY <1>7, <2>1, <2>2, StepOrigins
<1>8. ASSUME step'[w] = "log_err"
      PROVE  \E c \in calls' : IsCall(c, w, at'[w], attempt'[w]) /\ c.outcome \in Errors
  <2>1. PICK e \in Errors : Answered(w, e) /\ at' = at /\ attempt' = attempt
    BY <1>8, StepOrigins DEF CallFails, Advance
  <2>2. [worker |-> w, at |-> at[w], attempt |-> attempt[w], outcome |-> e] \in calls'
    BY <2>1 DEF Answered
  <2> QED BY <2>1, <2>2 DEF IsCall
<1>9. ASSUME step'[w] = "done_ok"
      PROVE  \/ \A c \in calls' : ~(c.worker = w /\ c.at = at'[w])
             \/ \E c \in calls' : IsCall(c, w, at'[w], attempt'[w]) /\ c.outcome = result'[w]
  <2>1. /\ step[w] \in {"log_hit", "log_ok"} /\ calls' = calls
        /\ at' = at /\ attempt' = attempt /\ result' = result
    BY <1>9, StepOrigins DEF LogAnswer, Advance
  <2> QED BY <1>4, <2>1 DEF CallsOfAreCounted, CallsOf
<1>10. CallsOfAreCounted(w)'
  BY <1>5, <1>6, <1>7, <1>8, <1>9 DEF CallsOfAreCounted, CallsOf, Budget
<1> QED BY <1>3, <1>10

LEMMA WorkerKeepsCalls ==
  ASSUME Inv, NEW w \in Workers, WorkerStep(w)
  PROVE  (\A c \in calls : CallIsCounted(c))' /\ CallsAreUnique'
<1>0. Control /\ IsAt(w) /\ TypeOK /\ TypeOK'
  BY WorkerKeepsControl DEF Inv, Control
<1>1. /\ calls \subseteq calls'
      /\ \A v \in Workers : at[v] \in Nat \ {0} /\ at'[v] \in Nat \ {0} /\ at[v] <= at'[v]
                            /\ attempt[v] \in Nat /\ attempt'[v] \in Nat
  BY <1>0, StepFacts DEF TypeOK
<1>2. /\ \A c \in calls : CallIsCounted(c) /\ c.worker \in Workers /\ c.at \in Nat
                          /\ c.attempt \in Nat
      /\ CallsOfAreCounted(w)
  BY <1>0 DEF Inv, History, TypeOK, Call
<1>3. ASSUME NEW c \in calls PROVE CallIsCounted(c)'
  <2>1. c.attempt \in 1..Budget(c.worker) /\ Retried(c.worker, c.at, c.attempt)'
    BY <1>1, <1>2 DEF CallIsCounted, Retried, IsCall
  <2>2. CASE c.worker # w
    <3>1. /\ step'[c.worker] = step[c.worker] /\ at'[c.worker] = at[c.worker]
          /\ attempt'[c.worker] = attempt[c.worker]
      BY <1>0, <1>2, <2>2, WorkerFrame
    <3> QED BY <1>2, <2>1, <3>1 DEF CallIsCounted, Budget
  <2>3. CASE c.worker = w
    <3>1. c.at = at'[w] => c.at = at[w] /\ c.attempt <= attempt[w] /\ attempt[w] <= attempt'[w]
      <4>1. c.at \in 1..at[w]
        BY <2>3 DEF Inv, Files, CallsAreBehind
      <4>2. c.at = at[w] => c.attempt <= attempt[w]
        BY <1>2, <2>3 DEF CallIsCounted
      <4> QED BY <1>1, <4>1, <4>2, StepPlaces DEF Stays, Retries, FallsThrough
    <3>2. c.at = at'[w] /\ c.attempt = attempt'[w] => step'[w] # "call"
      <4>1. CASE Retries(w)
        BY <1>1, <1>2, <3>1, <4>1 DEF Retries
      <4>2. CASE LookupMiss(w)
        <5>1. step[w] = "lookup"
          BY <4>2 DEF LookupMiss
        <5>2. c.at # at[w]
          BY <1>2, <2>3, <5>1 DEF CallsOfAreCounted, CallsOf
        <5> QED BY <3>1, <5>2
      <4> QED BY <4>1, <4>2, StepOrigins
    <3> QED BY <1>1, <1>2, <2>1, <2>3, <3>1, <3>2 DEF CallIsCounted, Budget
  <2> QED BY <2>2, <2>3
<1>4. ASSUME NEW c \in calls', c \notin calls
      PROVE  /\ CallIsCounted(c)'
             /\ IsCall(c, w, at[w], attempt[w])
             /\ \A b \in calls' : b \notin calls => b = c
             /\ \A b \in calls : ~IsCall(b, w, at[w], attempt[w])
  <2>1. PICK r \in Texts \cup Errors : Answered(w, r)
    BY <1>4, StepFacts
  <2>2. c = [worker |-> w, at |-> at[w], attempt |-> attempt[w], outcome |-> r]
    BY <1>4, <2>1 DEF Answered
  <2>3. IsCall(c, w, at[w], attempt[w])
    BY <2>2 DEF IsCall
  <2>4. step[w] = "call" /\ at' = at /\ attempt' = attempt
    BY <1>4, StepFacts
  <2>5. step'[w] # "call"
    BY <2>4, StepOrigins DEF Retries, LookupMiss
  <2>6. attempt[w] \in 1..Budget(w) /\ Retried(w, at[w], attempt[w])
    BY <1>2 DEF CallsOfAreCounted
  <2>7. Retried(w, c.at, c.attempt)'
    BY <1>1, <2>3, <2>6 DEF Retried, IsCall
  <2>8. CallIsCounted(c)'
    BY <1>1, <2>3, <2>4, <2>5, <2>6, <2>7 DEF CallIsCounted, IsCall, Budget
  <2>9. \A b \in calls' : b \notin calls => b = c
    BY <2>1, <2>2 DEF Answered
  <2>10. \A b \in calls : ~IsCall(b, w, at[w], attempt[w])
    BY <1>2, <2>4 DEF CallIsCounted, IsCall
  <2> QED BY <2>3, <2>8, <2>9, <2>10
<1>5. (\A c \in calls : CallIsCounted(c))'
  BY <1>3, <1>4
<1>6. CallsAreUnique'
  <2> SUFFICES ASSUME NEW b \in calls', NEW c \in calls', b.worker = c.worker, b.at = c.at,
                      b.attempt = c.attempt
               PROVE  b = c
    BY DEF CallsAreUnique
  <2>1. CASE b \in calls /\ c \in calls
    BY <2>1 DEF Inv, History, CallsAreUnique
  <2>2. CASE c \notin calls
    BY <1>4, <2>2 DEF IsCall
  <2>3. CASE b \notin calls
    BY <1>4, <2>3 DEF IsCall
  <2> QED BY <2>1, <2>2, <2>3
<1> QED BY <1>5, <1>6

LEMMA WorkerKeepsLedger ==
  ASSUME Inv, NEW w \in Workers, WorkerStep(w)
  PROVE  OksAreLast' /\ AnswersHaveOks'
<1>0. Control /\ IsAt(w) /\ TypeOK /\ TypeOK'
  BY WorkerKeepsControl DEF Inv, Control
<1>1. /\ \A v \in Workers : at[v] \in Nat \ {0} /\ at'[v] \in Nat \ {0} /\ at[v] <= at'[v]
      /\ \A v \in Workers : v # w =>
            step'[v] = step[v] /\ at'[v] = at[v] /\ attempt'[v] = attempt[v]
      /\ step[w] \notin {"off", "done_ok", "done_err"}
      /\ calls \subseteq calls'
  BY <1>0, StepFacts, WorkerFrame
<1>2. \A e \in ledger : e.worker \in Workers /\ e.at \in Nat
  BY <1>0 DEF TypeOK, LedgerEntry
<1>3. \/ ledger' = ledger
      \/ \E hit \in BOOLEAN, r \in {"ok"} \cup Errors :
           AppendEntry(w, hit, r) /\ (r = "ok" => LogAnswer(w) /\ hit = (step[w] = "log_hit"))
  <2>1. step[w] = "log_err" => LastOutcome(w) \in Errors /\ LastOutcome(w) # "ok"
    BY LastOutcomeFacts DEF Errors
  <2>2. CASE LogAnswer(w)
    BY <2>2 DEF LogAnswer
  <2>3. CASE LogErrorFinal(w) \/ LogErrorRetry(w)
    BY <2>1, <2>3 DEF LogErrorFinal, LogErrorRetry, MayRetry
  <2> QED BY <2>2, <2>3 DEF WorkerStep, LookupMiss, LookupOpen, LookupRead, CallSucceeds,
          CallFails, Storing, LogFails
<1>4. ASSUME NEW e \in ledger
      PROVE  /\ e \in ledger' /\ e.at \in 1..at'[e.worker]
             /\ e.outcome = "ok" =>
                  /\ step'[e.worker] = "done_ok"
                  /\ e.at = at'[e.worker] /\ e.attempt = attempt'[e.worker]
                  /\ e.cache_hit <=> \A c \in calls' : ~(c.worker = e.worker /\ c.at = e.at)
  <2>1. e \in ledger'
    BY <1>3 DEF AppendEntry
  <2>2. e.at \in 1..at[e.worker]
    BY DEF Inv, History, OksAreLast
  <2>3. e.outcome = "ok" =>
          /\ step[e.worker] = "done_ok"
          /\ e.at = at[e.worker] /\ e.attempt = attempt[e.worker]
          /\ e.cache_hit <=> CallsOf(e.worker, e.at) = {}
    BY DEF Inv, History, OksAreLast
  <2>4. e.outcome = "ok" => e.worker # w
    BY <1>1, <2>3
  <2>5. e.worker # w => (CallsOf(e.worker, e.at) = {}
                           <=> \A c \in calls' : ~(c.worker = e.worker /\ c.at = e.at))
    BY <1>1, <1>2, OthersHistory DEF CallsOf
  <2> QED BY <1>1, <1>2, <2>1, <2>2, <2>3, <2>4, <2>5
<1>5. ASSUME NEW e \in ledger', e \notin ledger
      PROVE  /\ e.at \in 1..at'[e.worker]
             /\ e.outcome = "ok" =>
                  /\ step'[e.worker] = "done_ok"
                  /\ e.at = at'[e.worker] /\ e.attempt = attempt'[e.worker]
                  /\ e.cache_hit <=> \A c \in calls' : ~(c.worker = e.worker /\ c.at = e.at)
  <2>1. PICK hit \in BOOLEAN, r \in {"ok"} \cup Errors :
           AppendEntry(w, hit, r) /\ (r = "ok" => LogAnswer(w) /\ hit = (step[w] = "log_hit"))
    BY <1>3, <1>5
  <2>2. e = [worker |-> w, at |-> at[w], attempt |-> attempt[w], cache_hit |-> hit,
             outcome |-> r]
    BY <1>5, <2>1 DEF AppendEntry
  <2>3. e.worker = w /\ e.at = at[w] /\ e.attempt = attempt[w] /\ e.cache_hit = hit
        /\ e.outcome = r
    BY <2>2
  <2>4. ASSUME r = "ok"
        PROVE  /\ step'[w] = "done_ok" /\ at' = at /\ attempt' = attempt /\ calls' = calls
               /\ hit <=> CallsOf(w, at[w]) = {}
    <3>1. /\ LogAnswer(w) /\ hit = (step[w] = "log_hit") /\ step[w] \in {"log_hit", "log_ok"}
      BY <2>1, <2>4 DEF LogAnswer
    <3>2. step'[w] = "done_ok" /\ at' = at /\ attempt' = attempt /\ calls' = calls
      BY <1>0, <3>1 DEF LogAnswer, Advance, TypeOK
    <3>3. CallsOfAreCounted(w)
      BY DEF Inv, History
    <3>4. step[w] = "log_hit" => CallsOf(w, at[w]) = {}
      BY <3>3 DEF CallsOfAreCounted
    <3>5. step[w] = "log_ok" => CallsOf(w, at[w]) # {}
      BY <3>3 DEF CallsOfAreCounted, CallsOf, IsCall
    <3> QED BY <3>1, <3>2, <3>4, <3>5
  <2> QED BY <1>1, <2>3, <2>4 DEF CallsOf
<1>6. OksAreLast'
  BY <1>4, <1>5 DEF OksAreLast, CallsOf
<1>7. AnswersHaveOks'
  <2> SUFFICES ASSUME NEW v \in Workers, step'[v] = "done_ok"
               PROVE  \E e \in ledger' : e.worker = v /\ e.at = at'[v] /\ e.outcome = "ok"
    BY DEF AnswersHaveOks, LedgerOf
  <2>1. CASE v # w
    BY <1>1, <1>4, <2>1 DEF Inv, History, AnswersHaveOks, LedgerOf
  <2>2. CASE v = w
    <3>1. AppendEntry(w, step[w] = "log_hit", "ok") /\ at' = at
      BY <2>2, StepOrigins DEF LogAnswer, Advance
    <3>2. [worker |-> w, at |-> at[w], attempt |-> attempt[w],
           cache_hit |-> (step[w] = "log_hit"), outcome |-> "ok"] \in ledger'
      BY <3>1 DEF AppendEntry
    <3> QED BY <2>2, <3>1, <3>2
  <2> QED BY <2>1, <2>2
<1> QED BY <1>6, <1>7

\* The start and the end of a dispatch belong to no call and no ledger entry.
LEMMA DispatchKeepsHistory ==
  ASSUME Inv, NEW d \in Dispatches, Start(d) \/ Finish(d)
  PROVE  History'
<1>1. Control /\ History /\ TypeOK /\ Files
  BY DEF Inv, Control
<1>2. UNCHANGED <<at, attempt, result, calls, ledger>>
  BY DEF Start, Finish
<1>3. \A w \in Workers : step'[w] = step[w] \/ (step[w] = "off" /\ step'[w] = "lookup")
  <2>1. CASE Finish(d)
    BY <2>1 DEF Finish
  <2>2. CASE Start(d)
    <3>1. \A w \in Workers : w[1] = d => step[w] = "off"
      BY <1>1, <2>2 DEF Control, IsAt, Start, Started, Decided
    <3> QED BY <2>2, <3>1 DEF Start
  <2> QED BY <2>1, <2>2
<1>4. \A w \in Workers : CallsOfAreCounted(w)'
  BY <1>1, <1>2, <1>3 DEF History, CallsOfAreCounted, Retried, CallsOf, IsCall, Budget
<1>5. \A c \in calls : c.worker \in Workers
  BY <1>1 DEF TypeOK, Call
<1>6. \A e \in ledger : e.worker \in Workers
  BY <1>1 DEF TypeOK, LedgerEntry
<1>7. (\A c \in calls : CallIsCounted(c))'
  BY <1>1, <1>2, <1>3, <1>5 DEF History, CallIsCounted, Retried, IsCall, Budget
<1>8. CallsAreUnique'
  BY <1>1, <1>2 DEF History, CallsAreUnique
<1>9. OksAreLast' /\ AnswersHaveOks'
  BY <1>1, <1>2, <1>3, <1>6 DEF History, OksAreLast, AnswersHaveOks, CallsOf, LedgerOf
<1> QED BY <1>4, <1>7, <1>8, <1>9 DEF History

----------------------------------------------------------------------------
\* The invariant.

LEMMA InitEstablishesInv == ASSUME Init PROVE Inv
<1>1. \A w \in Workers : /\ w[1] \in Dispatches /\ w[2] \in Nat \ {0}
                         /\ w[2] <= Len(Route[w[1]].preferred)
  BY WorkerFacts
<1> USE DEF Init, Cache!Init
<1>2. /\ phase \in [Dispatches -> {"unasked", "new"}]
      /\ \A d \in Dispatches : ~Started(d)
  BY DEF Started, Decided
<1>3. TypeOK
  <2>1. order \in [Dispatches -> Seq(Entries)]
    BY <1>1
  <2>2. Cache!TypeOK
    BY DEF Cache!TypeOK, Cache!Contents, Cache!Results
  <2>3. at \in [Workers -> Nat \ {0}] /\ \A w \in Workers : at[w] <= Len(Route[w[1]].preferred)
    BY <1>1
  <2>4. phase \in [Dispatches -> {"unasked", "new", "running"} \cup Decided]
    BY <1>2
  <2>5. answer \in [Dispatches -> Workers \cup {None}] /\ step \in [Workers -> Steps]
        /\ attempt \in [Workers -> Nat] /\ result \in [Workers -> Texts \cup {None}]
    BY DEF Steps
  <2> QED BY <2>1, <2>2, <2>3, <2>4, <2>5 DEF TypeOK
<1>4. OrdersAreLists
  BY <1>2 DEF OrdersAreLists
<1>5. \A w \in Workers : IsAt(w)
  BY <1>1, <1>2 DEF IsAt, InHand, Cache!PutSteps, Decided
<1>6. None \notin Inodes
  BY NamesAreApart
<1>7. \A i \in Inodes, k \in Keys : ~InUse(i, k)
  BY <1>6 DEF InUse
<1>8. Files
  BY <1>7 DEF Files, FilesAreOfOneKey, FilesAreGenuine, ResultsAreGenuine, CallsAreBehind,
     LosersHaveWinners
<1>9. History
  <2>1. \A w \in Workers : CallsOfAreCounted(w)
    <3> SUFFICES ASSUME NEW w \in Workers PROVE CallsOfAreCounted(w)
      OBVIOUS
    <3>1. attempt[w] = 1 /\ step[w] = "off" /\ 1 \in 1..Budget(w)
      BY BudgetFacts
    <3>2. Retried(w, at[w], attempt[w])
      BY <3>1 DEF Retried
    <3> QED BY <3>1, <3>2 DEF CallsOfAreCounted, CallsOf
  <2> QED BY <2>1 DEF History, CallsAreUnique, OksAreLast, AnswersHaveOks
<1> QED BY <1>3, <1>4, <1>5, <1>8, <1>9 DEF Inv, Control

LEMMA StepKeepsInv ==
  ASSUME Inv, [Next]_vars
  PROVE  Inv'
<1>1. ASSUME NEW w \in Workers, WorkerStep(w) PROVE Inv'
  <2>1. Control'
    BY <1>1, WorkerKeepsControl
  <2>2. Files'
    BY <1>1, WorkerKeepsFiles, WorkerKeepsLosers DEF Files
  <2>3. History'
    BY <1>1, WorkerKeepsCounts, WorkerKeepsCalls, WorkerKeepsLedger DEF History
  <2> QED BY <2>1, <2>2, <2>3 DEF Inv
<1>2. ASSUME NEW d \in Dispatches, Start(d) \/ Finish(d) PROVE Inv'
  BY <1>2, StartKeepsControl, FinishKeepsControl, DispatchKeepsFiles, DispatchKeepsHistory
     DEF Inv
<1>3. CASE UNCHANGED vars
  <2> USE <1>3 DEF vars
  <2>1. Control'
    BY DEF Inv, Control, TypeOK, Cache!TypeOK, OrdersAreLists, IsAt, Started, KeyOf, Entry, EntryAt
  <2>2. Files'
    BY DEF Inv, Files, FilesAreOfOneKey, FilesAreGenuine, ResultsAreGenuine, CallsAreBehind,
       LosersHaveWinners, InUse, Returned, KeyOfCall, KeyOf, Entry, EntryAt, Started
  <2>3. (\A w \in Workers : CallsOfAreCounted(w))'
    BY DEF Inv, History, CallsOfAreCounted, Retried, IsCall, CallsOf, Budget
  <2>4. (\A c \in calls : CallIsCounted(c))' /\ CallsAreUnique'
    BY DEF Inv, History, CallIsCounted, CallsAreUnique, Retried, IsCall, Budget
  <2>5. OksAreLast' /\ AnswersHaveOks'
    BY DEF Inv, History, OksAreLast, AnswersHaveOks, CallsOf, LedgerOf
  <2> QED BY <2>1, <2>2, <2>3, <2>4, <2>5 DEF Inv, History
<1> QED BY <1>1, <1>2, <1>3 DEF Next, Resting

LEMMA InvHolds == Spec => []Inv
  BY InitEstablishesInv, StepKeepsInv, PTL DEF Spec

\* The walk of dispatch_ordered never passes the end of its list, a worker waits
\* at one await point at a time, and whatever the router hands on is an answer
\* of a provider.
THEOREM RouterTypeOK == Spec => []TypeOK
<1>1. Inv => TypeOK
  BY DEF Inv, Control
<1> QED BY <1>1, InvHolds, PTL

\* A file that a worker reads, whatever other workers do to it meanwhile, holds
\* completions of the worker's own entry and request only, if it parses at all.
THEOREM RouterReturnsGenuineCompletions == Spec => []CompletionsAreGenuine
<1>1. ASSUME Inv PROVE CompletionsAreGenuine
  <2> SUFFICES ASSUME NEW w \in Workers, result[w] # None
               PROVE  \E c \in calls :
                        /\ c.outcome = result[w]
                        /\ EntryAt(c.worker, c.at) = Entry(w)
                        /\ Route[c.worker[1]].request = Route[w[1]].request
    BY DEF CompletionsAreGenuine
  <2>1. PICK c \in calls : c.outcome = result[w] /\ KeyOfCall(c) = KeyOf(w)
    BY <1>1 DEF Inv, Files, ResultsAreGenuine, Returned
  <2>2. EntryAt(c.worker, c.at) = Entry(w) /\ Route[c.worker[1]].request = Route[w[1]].request
    BY <2>1 DEF KeyOfCall, KeyOf
  <2> QED BY <2>1, <2>2
<1> QED BY <1>1, InvHolds, PTL

\* A rename or chmod that finds no temporary file finds a published entry.
THEOREM RouterPublishesLostStores == Spec => []LostStoresArePublished
<1>1. Inv => LostStoresArePublished
  BY DEF Inv, Files, LosersHaveWinners, LostStoresArePublished
<1> QED BY <1>1, InvHolds, PTL

\* The retry loop of try_provider never exceeds max_attempts, never repeats a
\* call that succeeded or failed for good, and dispatch_ordered never goes on
\* after an entry that has answered.
THEOREM RouterJustifiesRetries == Spec => []RetriesAreJustified
<1>1. ASSUME Inv PROVE RetriesAreJustified
  <2> SUFFICES ASSUME NEW w \in Workers, NEW i \in 1..at[w]
               PROVE  /\ \A c \in CallsOf(w, i) :
                           /\ c.attempt <= Budget(w)
                           /\ \A a \in 1..(c.attempt - 1) :
                                {b.outcome : b \in {b \in CallsOf(w, i) : b.attempt = a}}
                                  = {"error_transient"}
                      /\ i < at[w] => \A e \in LedgerOf(w, i) : e.outcome # "ok"
    BY DEF RetriesAreJustified, Budget
  <2>1. ASSUME NEW c \in CallsOf(w, i) PROVE c.attempt <= Budget(w)
    <3>1. c \in calls /\ c.worker = w
      BY DEF CallsOf
    <3> QED BY <1>1, <3>1 DEF Inv, History, CallIsCounted
  <2>2. ASSUME NEW c \in CallsOf(w, i), NEW a \in 1..(c.attempt - 1)
        PROVE  {b.outcome : b \in {b \in CallsOf(w, i) : b.attempt = a}} = {"error_transient"}
    <3>1. c \in calls /\ c.worker = w /\ c.at = i
      BY DEF CallsOf
    <3>2. PICK b \in calls : IsCall(b, w, i, a) /\ b.outcome = "error_transient"
      BY <1>1, <2>2, <3>1 DEF Inv, History, CallIsCounted, Retried
    <3>3. \A x \in CallsOf(w, i) : x.attempt = a => x = b
      BY <1>1, <3>2 DEF Inv, History, CallsAreUnique, CallsOf, IsCall
    <3>4. b \in CallsOf(w, i) /\ b.attempt = a
      BY <3>2 DEF CallsOf, IsCall
    <3>5. {x \in CallsOf(w, i) : x.attempt = a} = {b}
      BY <3>3, <3>4
    <3> QED BY <3>2, <3>5
  <2>3. ASSUME i < at[w], NEW e \in LedgerOf(w, i) PROVE e.outcome # "ok"
    <3>1. e \in ledger /\ e.worker = w /\ e.at = i
      BY DEF LedgerOf
    <3>2. at[w] \in Nat
      BY <1>1 DEF Inv, Control, TypeOK
    <3>3. e.outcome = "ok" => e.at = at[w]
      BY <1>1, <3>1 DEF Inv, History, OksAreLast
    <3> QED BY <2>3, <3>1, <3>2, <3>3
  <2> QED BY <2>1, <2>2, <2>3
<1> QED BY <1>1, InvHolds, PTL

\* Every answer has one ledger entry with outcome "ok": a hit if no provider was
\* called for it, and otherwise the completion of the last call.
THEOREM RouterAccountsForAnswers == Spec => []AnswersAreAccounted
<1>1. ASSUME Inv PROVE AnswersAreAccounted
  <2> SUFFICES ASSUME NEW w \in Workers, step[w] = "done_ok"
               PROVE  LET spent == {c \in CallsOf(w, at[w]) : c.outcome \in Texts}
                          oks == {e \in LedgerOf(w, at[w]) : e.outcome = "ok"}
                      IN  /\ Cardinality(oks) = 1
                          /\ \A e \in oks :
                               IF spent = {} THEN e.cache_hit /\ CallsOf(w, at[w]) = {}
                               ELSE ~e.cache_hit /\ {c.attempt : c \in spent} = {e.attempt}
    BY DEF AnswersAreAccounted
  <2> DEFINE spent == {c \in CallsOf(w, at[w]) : c.outcome \in Texts}
             oks == {e \in LedgerOf(w, at[w]) : e.outcome = "ok"}
  <2>1. PICK o \in ledger : o.worker = w /\ o.at = at[w] /\ o.outcome = "ok"
    BY <1>1 DEF Inv, History, AnswersHaveOks, LedgerOf
  <2>2. \A e \in oks : /\ e \in ledger /\ e.worker = w /\ e.at = at[w] /\ e.outcome = "ok"
                       /\ e.attempt = attempt[w] /\ e.cache_hit \in BOOLEAN
                       /\ e.cache_hit <=> CallsOf(w, at[w]) = {}
    BY <1>1 DEF Inv, History, OksAreLast, LedgerOf, Control, TypeOK, LedgerEntry
  <2>3. oks = {o}
    <3>1. o \in oks
      BY <2>1 DEF LedgerOf
    <3>2. ASSUME NEW e \in oks PROVE e = o
      <4>1. e \in LedgerEntry /\ o \in LedgerEntry
        BY <1>1, <2>1, <2>2 DEF Inv, Control, TypeOK
      <4>2. /\ e.worker = o.worker /\ e.at = o.at /\ e.attempt = o.attempt
            /\ e.cache_hit = o.cache_hit /\ e.outcome = o.outcome
        BY <2>2, <3>1, <3>2
      <4> QED BY <4>1, <4>2 DEF LedgerEntry
    <3> QED BY <3>1, <3>2
  <2>4. result[w] \in Texts /\ attempt[w] \in Nat
    BY <1>1 DEF Inv, Control, TypeOK, IsAt, InHand
  <2>5. \/ CallsOf(w, at[w]) = {}
        \/ \E c \in calls : IsCall(c, w, at[w], attempt[w]) /\ c.outcome = result[w]
    BY <1>1 DEF Inv, History, CallsOfAreCounted
  <2>6. CASE CallsOf(w, at[w]) = {}
    BY <2>2, <2>3, <2>6, FS_Singleton
  <2>7. CASE CallsOf(w, at[w]) # {}
    <3>1. PICK b \in calls : IsCall(b, w, at[w], attempt[w]) /\ b.outcome = result[w]
      BY <2>5, <2>7
    <3>2. b \in spent /\ b.attempt = attempt[w]
      BY <2>4, <3>1 DEF IsCall, CallsOf
    <3>3. ASSUME NEW c \in spent PROVE c.attempt = attempt[w]
      <4>1. /\ c \in calls /\ c.worker = w /\ c.at = at[w] /\ c.attempt \in Nat
            /\ c.outcome \in Texts
        BY <1>1 DEF CallsOf, Inv, Control, TypeOK, Call
      <4>2. c.attempt <= attempt[w] /\ c.attempt >= 1
        BY <1>1, <4>1 DEF Inv, History, CallIsCounted
      <4>3. ASSUME c.attempt < attempt[w] PROVE FALSE
        <5>1. c.attempt \in 1..(attempt[w] - 1)
          BY <2>4, <4>1, <4>2, <4>3
        <5>2. PICK x \in calls : IsCall(x, w, at[w], c.attempt) /\ x.outcome = "error_transient"
          BY <1>1, <5>1 DEF Inv, History, CallsOfAreCounted, Retried
        <5>3. x = c
          BY <1>1, <4>1, <5>2 DEF Inv, History, CallsAreUnique, IsCall
        <5> QED BY <4>1, <5>2, <5>3, NamesAreApart DEF Errors
      <4> QED BY <2>4, <4>1, <4>2, <4>3
    <3>4. {c.attempt : c \in spent} = {attempt[w]}
      BY <3>2, <3>3
    <3> HIDE DEF spent, oks
    <3>5. Cardinality(oks) = 1
      BY <2>3, FS_Singleton
    <3>6. spent # {}
      BY <3>2
    <3> QED BY <2>2, <2>7, <3>4, <3>5, <3>6 DEF spent, oks
  <2> QED BY <2>6, <2>7
<1> QED BY <1>1, InvHolds, PTL

----------------------------------------------------------------------------
\* One ledger entry per attempt.

\* What AttemptsAreLedgered says of one call.
Recorded(c) ==
  \E e \in LedgerOf(c.worker, c.at) :
    e.attempt = c.attempt /\ ~e.cache_hit /\ (e.outcome = "ok" <=> c.outcome \in Texts)

Underway(c) ==
  /\ at[c.worker] = c.at /\ attempt[c.worker] = c.attempt
  /\ step[c.worker] \in {"storing", "log_ok", "log_err"}

Defeated(c) ==
  /\ c.outcome \in Texts
  /\ at[c.worker] > c.at \/ step[c.worker] = "done_err"
  /\ \E v \in Workers : v # c.worker /\ \E b \in calls :
       /\ b.worker = v /\ b.outcome \in Texts
       /\ EntryAt(v, b.at) = EntryAt(c.worker, c.at)
       /\ Route[v[1]].request = Route[c.worker[1]].request

IsLedgered(c) == c.worker[1] \in Failing \/ Underway(c) \/ Recorded(c) \/ Defeated(c)

LEMMA AttemptsAreLedgeredOneByOne == AttemptsAreLedgered <=> \A c \in calls : IsLedgered(c)
  BY DEF AttemptsAreLedgered, IsLedgered, Underway, Recorded, Defeated

\* A call that has its entry, or has lost its completion, stays that way.
LEMMA LedgeredStays ==
  ASSUME Inv, NEW w \in Workers, WorkerStep(w), NEW c \in calls,
         Recorded(c) \/ Defeated(c)
  PROVE  IsLedgered(c)'
<1>0. /\ Control /\ IsAt(w) /\ TypeOK /\ c.worker \in Workers /\ c.at \in Nat
  BY DEF Inv, Control, TypeOK, Call
<1>1. /\ calls \subseteq calls' /\ UNCHANGED order
      /\ \A v \in Workers : at[v] \in Nat /\ at'[v] \in Nat /\ at[v] <= at'[v]
      /\ \A v \in Workers : v # w => step'[v] = step[v]
      /\ step[w] # "done_err"
  BY <1>0, StepFacts, WorkerFrame
<1>2. ledger \subseteq ledger'
  BY DEF WorkerStep, LookupMiss, LookupOpen, LookupRead, CallSucceeds, CallFails, Storing,
     LogAnswer, LogErrorFinal, LogErrorRetry, LogFails, AppendEntry
<1>3. CASE Recorded(c)
  BY <1>2, <1>3 DEF Recorded, LedgerOf, IsLedgered
<1>4. CASE Defeated(c)
  <2>1. at'[c.worker] > c.at \/ step'[c.worker] = "done_err"
    BY <1>0, <1>1, <1>4 DEF Defeated
  <2>2. PICK v \in Workers : v # c.worker /\ \E b \in calls :
          /\ b.worker = v /\ b.outcome \in Texts
          /\ EntryAt(v, b.at) = EntryAt(c.worker, c.at)
          /\ Route[v[1]].request = Route[c.worker[1]].request
    BY <1>4 DEF Defeated
  <2>3. PICK b \in calls :
          /\ b.worker = v /\ b.outcome \in Texts
          /\ EntryAt(v, b.at) = EntryAt(c.worker, c.at)
          /\ Route[v[1]].request = Route[c.worker[1]].request
    BY <2>2
  <2>4. b \in calls' /\ EntryAt(v, b.at)' = EntryAt(c.worker, c.at)'
    BY <1>1, <2>3 DEF EntryAt
  <2> QED BY <1>4, <2>1, <2>2, <2>3, <2>4 DEF Defeated, IsLedgered
<1> QED BY <1>3, <1>4

\* A call that is under way ends with its entry, or loses its store to another.
LEMMA UnderwayIsLedgered ==
  ASSUME Inv, NEW w \in Workers, WorkerStep(w), NEW c \in calls, Underway(c)
  PROVE  IsLedgered(c)'
<1>0. /\ Control /\ IsAt(w) /\ TypeOK /\ c.worker \in Workers /\ c.at \in Nat
  BY DEF Inv, Control, TypeOK, Call
<1>1. CASE c.worker # w
  BY <1>0, <1>1, WorkerFrame DEF IsLedgered, Underway
<1>2. CASE c.worker = w /\ w \notin {v \in Workers : v[1] \in Failing}
  <2>0. /\ c.worker = w /\ w[1] \notin Failing
        /\ at[w] = c.at /\ attempt[w] = c.attempt
        /\ step[w] \in {"storing", "log_ok", "log_err"}
        /\ calls \subseteq calls'
    BY <1>2, StepFacts DEF Underway
  <2>1. \A b \in calls : IsCall(b, w, at[w], attempt[w]) => b = c
    BY <2>0 DEF Inv, History, CallsAreUnique, IsCall
  <2>2. CASE step[w] = "storing"
    <3>1. Storing(w)
      BY <2>2 DEF WorkerStep, LookupMiss, LookupOpen, LookupRead, CallSucceeds, CallFails,
         LogAnswer, LogErrorFinal, LogErrorRetry, MayRetry, LogFails
    <3>2. StoreGoesOn(w) \/ StoreIsDone(w) \/ StoreIsLost(w)
      BY <1>0, <2>0, <3>1, StoringCases DEF StoreFails
    <3>3. CASE StoreGoesOn(w) \/ StoreIsDone(w)
      <4>1. at' = at /\ attempt' = attempt /\ step'[w] \in {"storing", "log_ok"}
        BY <1>0, <3>3 DEF StoreGoesOn, StoreIsDone, Advance, TypeOK
      <4> QED BY <2>0, <4>1 DEF IsLedgered, Underway
    <3>4. CASE StoreIsLost(w)
      <4>1. /\ pc[w] \in {"chmod", "rename"} /\ tmp[key[w]] = None /\ Fail(w)
            /\ key[w] = KeyOf(w)
        BY <1>0, <2>2, <3>4 DEF StoreIsLost, IsAt
      <4>2. PICK v \in Workers \ {w} : \E b \in calls :
              b.worker = v /\ b.outcome \in Texts /\ KeyOfCall(b) = key[w]
        BY <4>1 DEF Inv, Files, LosersHaveWinners
      <4>3. PICK b \in calls : b.worker = v /\ b.outcome \in Texts /\ KeyOfCall(b) = key[w]
        BY <4>2
      <4>4. /\ EntryAt(v, b.at) = EntryAt(w, c.at)
            /\ Route[v[1]].request = Route[w[1]].request
        BY <2>0, <4>1, <4>3 DEF KeyOfCall, KeyOf, Entry
      <4>5. UNCHANGED order /\ (at'[w] = at[w] + 1 \/ step'[w] = "done_err")
        BY <1>0, <2>2, <4>1, FailFacts
      <4>6. at'[w] > c.at \/ step'[w] = "done_err"
        BY <1>0, <2>0, <4>5
      <4>7. c.outcome \in Texts
        <5>1. PICK x \in calls : IsCall(x, w, at[w], attempt[w]) /\ x.outcome = result[w]
          BY <2>2 DEF Inv, History, CallsOfAreCounted
        <5>2. result[w] \in Texts
          BY <1>0, <2>2 DEF IsAt, InHand, TypeOK
        <5> QED BY <2>1, <5>1, <5>2
      <4>8. EntryAt(v, b.at)' = EntryAt(w, c.at)'
        BY <4>4, <4>5 DEF EntryAt
      <4> QED BY <2>0, <4>2, <4>3, <4>4, <4>6, <4>7, <4>8 DEF IsLedgered, Defeated
    <3> QED BY <3>2, <3>3, <3>4
  <2>3. CASE step[w] = "log_ok"
    <3>1. AppendEntry(w, FALSE, "ok")
      BY <2>0, <2>3 DEF WorkerStep, LookupMiss, LookupOpen, LookupRead, CallSucceeds, CallFails,
         Storing, LogAnswer, LogErrorFinal, LogErrorRetry, MayRetry, LogFails
    <3>2. c.outcome \in Texts
      <4>1. PICK x \in calls : IsCall(x, w, at[w], attempt[w]) /\ x.outcome = result[w]
        BY <2>3 DEF Inv, History, CallsOfAreCounted
      <4>2. result[w] \in Texts
        BY <1>0, <2>3 DEF IsAt, InHand, TypeOK
      <4> QED BY <2>1, <4>1, <4>2
    <3>3. PICK e : e = [worker |-> w, at |-> at[w], attempt |-> attempt[w],
                        cache_hit |-> FALSE, outcome |-> "ok"]
      OBVIOUS
    <3>4. /\ e \in ledger' /\ e.worker = w /\ e.at = at[w] /\ e.attempt = attempt[w]
          /\ e.cache_hit = FALSE /\ e.outcome = "ok"
      BY <3>1, <3>3 DEF AppendEntry
    <3> QED BY <2>0, <3>2, <3>4 DEF IsLedgered, Recorded, LedgerOf
  <2>4. CASE step[w] = "log_err"
    <3>1. AppendEntry(w, FALSE, LastOutcome(w))
      BY <2>0, <2>4 DEF WorkerStep, LookupMiss, LookupOpen, LookupRead, CallSucceeds, CallFails,
         Storing, LogAnswer, LogErrorFinal, LogErrorRetry, MayRetry, LogFails
    <3>2. c.outcome = LastOutcome(w) /\ c.outcome \in Errors
      BY <2>1, <2>4, LastOutcomeFacts
    <3>3. c.outcome \notin Texts /\ c.outcome # "ok"
      BY <3>2, NamesAreApart DEF Errors
    <3>4. PICK e : e = [worker |-> w, at |-> at[w], attempt |-> attempt[w],
                        cache_hit |-> FALSE, outcome |-> LastOutcome(w)]
      OBVIOUS
    <3>5. /\ e \in ledger' /\ e.worker = w /\ e.at = at[w] /\ e.attempt = attempt[w]
          /\ e.cache_hit = FALSE /\ e.outcome = LastOutcome(w)
      BY <3>1, <3>4 DEF AppendEntry
    <3> QED BY <2>0, <3>2, <3>3, <3>5 DEF IsLedgered, Recorded, LedgerOf
  <2> QED BY <2>0, <2>2, <2>3, <2>4
<1>3. CASE c.worker = w /\ w[1] \in Failing
  BY <1>3 DEF IsLedgered
<1> QED BY <1>1, <1>2, <1>3

LEMMA StepKeepsLedgered ==
  ASSUME Inv, AttemptsAreLedgered, [Next]_vars
  PROVE  AttemptsAreLedgered'
<1>1. \A c \in calls : IsLedgered(c) /\ c.worker \in Workers
  BY AttemptsAreLedgeredOneByOne DEF Inv, Control, TypeOK, Call
<1>2. ASSUME NEW w \in Workers, WorkerStep(w), NEW c \in calls' PROVE IsLedgered(c)'
  <2>1. CASE c \in calls
    BY <1>1, <1>2, <2>1, LedgeredStays, UnderwayIsLedgered DEF IsLedgered
  <2>2. CASE c \notin calls
    <3>1. /\ \E r \in Texts \cup Errors : Answered(w, r)
          /\ at' = at /\ attempt' = attempt /\ (CallSucceeds(w) \/ CallFails(w))
      BY <1>2, <2>2, StepFacts
    <3>2. step'[w] \in {"storing", "log_err"}
      BY <3>1 DEF CallSucceeds, CallFails, Advance, Inv, Control, TypeOK
    <3>3. c.worker = w /\ c.at = at[w] /\ c.attempt = attempt[w]
      BY <2>2, <3>1 DEF Answered
    <3> QED BY <3>1, <3>2, <3>3 DEF IsLedgered, Underway
  <2> QED BY <2>1, <2>2
<1>3. ASSUME NEW d \in Dispatches, Start(d) \/ Finish(d), NEW c \in calls'
      PROVE  IsLedgered(c)'
  <2>1. UNCHANGED <<at, attempt, calls, ledger>> /\ c \in calls
    BY <1>3 DEF Start, Finish
  <2>2. \A w \in Workers : step[w] # "off" => step'[w] = step[w]
    <3>1. CASE Finish(d)
      BY <3>1 DEF Finish
    <3>2. CASE Start(d)
      <4>1. \A w \in Workers : w[1] = d => step[w] = "off"
        BY <3>2 DEF Inv, Control, IsAt, Start, Started, Decided
      <4> QED BY <3>2, <4>1 DEF Start
    <3> QED BY <1>3, <3>1, <3>2
  <2>3. \A b \in calls : EntryAt(b.worker, b.at)' = EntryAt(b.worker, b.at)
    <3>1. ASSUME NEW b \in calls PROVE order'[b.worker[1]] = order[b.worker[1]]
      <4>1. Started(b.worker[1]) /\ b.worker[1] \in Dispatches
        BY WorkerFacts DEF Inv, Files, CallsAreBehind, Control, TypeOK, Call
      <4> QED BY <1>3, <4>1 DEF Start, Finish, Started, Decided, Inv, Control, TypeOK
    <3> QED BY <3>1 DEF EntryAt
  <2>4. c.worker[1] \in Failing => IsLedgered(c)'
    BY DEF IsLedgered
  <2>5. Underway(c) => Underway(c)'
    BY <1>1, <2>1, <2>2 DEF Underway
  <2>6. Recorded(c) => Recorded(c)'
    BY <2>1 DEF Recorded, LedgerOf
  <2>7. Defeated(c) => Defeated(c)'
    <3>1. CASE Defeated(c)
      <4>1. PICK v \in Workers : v # c.worker /\ \E b \in calls :
              /\ b.worker = v /\ b.outcome \in Texts
              /\ EntryAt(v, b.at) = EntryAt(c.worker, c.at)
              /\ Route[v[1]].request = Route[c.worker[1]].request
        BY <3>1 DEF Defeated
      <4>2. PICK b \in calls :
              /\ b.worker = v /\ b.outcome \in Texts
              /\ EntryAt(v, b.at) = EntryAt(c.worker, c.at)
              /\ Route[v[1]].request = Route[c.worker[1]].request
        BY <4>1
      <4>3. EntryAt(v, b.at)' = EntryAt(c.worker, c.at)'
        BY <2>1, <2>3, <4>2
      <4>4. at'[c.worker] > c.at \/ step'[c.worker] = "done_err"
        BY <1>1, <2>1, <2>2, <3>1 DEF Defeated
      <4> QED BY <2>1, <3>1, <4>1, <4>2, <4>3, <4>4 DEF Defeated
    <3> QED BY <3>1
  <2> QED BY <1>1, <2>1, <2>4, <2>5, <2>6, <2>7 DEF IsLedgered
<1>4. CASE UNCHANGED vars
  BY <1>4 DEF vars, AttemptsAreLedgered, LedgerOf, EntryAt
<1>5. (\A w \in Workers : ~WorkerStep(w)) /\ (\A d \in Dispatches : ~Start(d) /\ ~Finish(d))
        => UNCHANGED vars
  BY DEF Next, Resting
<1>6. (\A c \in calls : IsLedgered(c))' => AttemptsAreLedgered'
  BY DEF AttemptsAreLedgered, IsLedgered, Underway, Recorded, Defeated
<1> QED BY <1>2, <1>3, <1>4, <1>5, <1>6

\* Unless a system call or an append fails, no call that a provider answered is
\* missing from the ledger, except for a completion whose store was taken over by
\* a store of the same entry; and that completion is returned to nobody.
THEOREM RouterLedgersAttempts == Spec => []AttemptsAreLedgered
<1>1. Init => AttemptsAreLedgered
  BY DEF Init, AttemptsAreLedgered
<1> QED BY <1>1, StepKeepsLedgered, InvHolds, PTL DEF Spec

----------------------------------------------------------------------------
\* Consensus.

\* The successful shards of a consensus stand for as many entries as there are of
\* them, less those the list repeats.
LEMMA DistinctEntries ==
  ASSUME Control, NEW d \in Dispatches, IsConsensus(d), Started(d)
  PROVE  Cardinality({Entry(w) : w \in Successes(d)}) + Repeated(d) >= Cardinality(Successes(d))
<1> DEFINE S == Successes(d)
           T == Shards(d)
           U == {w[2] : w \in S}
           f == order[d]
<1>1. \A w \in S : /\ w \in Workers /\ w[1] = d /\ w[2] \in T /\ w = <<d, w[2]>>
                   /\ Entry(w) = f[w[2]]
  <2> SUFFICES ASSUME NEW w \in S
               PROVE  /\ w \in Workers /\ w[1] = d /\ w[2] \in T /\ w = <<d, w[2]>>
                      /\ Entry(w) = f[w[2]]
    OBVIOUS
  <2>1. w \in Workers /\ w[1] = d
    BY WorkerFacts DEF Successes
  <2>2. at[w] = w[2]
    BY <2>1 DEF Control, IsAt
  <2> QED BY <2>1, <2>2, WorkerFacts DEF Entry, EntryAt
<1>2. IsFiniteSet(T) /\ Cardinality(T) \in Nat /\ IsFiniteSet(S) /\ TakeN(d) = Cardinality(T)
  BY WorkersAreCounted, VotesAreCounted, FS_CardinalityType DEF TakeN
<1>3. T \subseteq DOMAIN f
  <2>1. f \in Seq(Entries) /\ Len(f) = Len(Route[d].preferred)
    BY DEF Control, TypeOK, OrdersAreLists
  <2>2. DOMAIN f = 1..Len(Route[d].preferred)
    BY <2>1
  <2> QED BY <2>2, ShardFacts
<1>4. U \in SUBSET T
  BY <1>1
<1>5. IsFiniteSet(U) /\ Cardinality(U) = Cardinality(S)
  <2> DEFINE g == [w \in S |-> w[2]]
  <2>1. g \in [S -> U] /\ \A w \in S : g[w] = w[2]
    OBVIOUS
  <2>2. \A i \in U : \E w \in S : g[w] = i
    OBVIOUS
  <2>3. \A v, w \in S : g[v] = g[w] => v = w
    BY <1>1, <2>1
  <2> HIDE DEF g, U, S
  <2>4. g \in Bijection(S, U)
    BY <2>1, <2>2, <2>3 DEF Bijection, Injection, Surjection, IsInjective
  <2>5. ExistsBijection(S, U)
    BY <2>4 DEF ExistsBijection
  <2> QED BY <1>2, <2>5, FS_Bijection
<1> DEFINE fU == {f[i] : i \in U}
           fR == {f[i] : i \in T \ U}
           fT == {f[i] : i \in T}
<1>6. {Entry(w) : w \in Successes(d)} = fU /\ fT = fU \cup fR
  BY <1>1, <1>4
<1>7. Repeated(d) = Cardinality(T) - Cardinality(fT)
  BY <1>2 DEF Repeated
<1> HIDE DEF S, T, U, f
<1>8. IsFiniteSet(T \ U) /\ Cardinality(T \ U) = Cardinality(T) - Cardinality(U)
  <2>1. IsFiniteSet(T \ U) /\ Cardinality(T \ U) = Cardinality(T) - Cardinality(T \cap U)
    BY <1>2, FS_Difference
  <2>2. T \cap U = U
    BY <1>4
  <2> QED BY <2>1, <2>2
<1>9. IsFiniteSet(fU) /\ IsFiniteSet(fR) /\ Cardinality(fR) <= Cardinality(T \ U)
  <2>1. U \subseteq DOMAIN f /\ T \ U \subseteq DOMAIN f
    BY <1>3, <1>4
  <2> QED BY <1>5, <1>8, <2>1, ImageFacts
<1> HIDE DEF fU, fR, fT
<1>10. Cardinality(fT) = Cardinality(fU) + Cardinality(fR) - Cardinality(fU \cap fR)
  BY <1>6, <1>9, FS_Union
<1>11. /\ Cardinality(fU) \in Nat /\ Cardinality(fR) \in Nat /\ Cardinality(fU \cap fR) \in Nat
       /\ Cardinality(U) \in Nat /\ Cardinality(T) \in Nat
  BY <1>2, <1>5, <1>9, FS_CardinalityType, FS_Intersection
<1>12. Cardinality(fU) + Repeated(d) >= Cardinality(S)
  <2>1. Cardinality(fT) <= Cardinality(fU) + Cardinality(fR)
    BY <1>10, <1>11
  <2>2. Cardinality(fR) <= Cardinality(T) - Cardinality(S)
    BY <1>5, <1>8, <1>9
  <2>3. Cardinality(fT) \in Int /\ Cardinality(S) \in Nat
    BY <1>5, <1>10, <1>11
  <2> QED BY <1>7, <1>11, <2>1, <2>2, <2>3
<1> QED BY <1>6, <1>12 DEF S

\* What ConsensusIsJustified says of one dispatch.
Justified(d) ==
  /\ phase[d] = "answered" =>
       /\ 2 * Cardinality(Successes(d)) >= TakeN(d)
       /\ answer[d] \in Successes(d)
       /\ \A x \in Texts : Cardinality(VotesFor(d, x))
                             <= Cardinality(VotesFor(d, result[answer[d]]))
       /\ Cardinality({Entry(w) : w \in Successes(d)}) + Repeated(d) >= NeedQuorum(d)
  /\ phase[d] = "quorum_lost" => 2 * Cardinality(Successes(d)) < TakeN(d)

\* A dispatch whose shards are all joined votes on what they have.
LEMMA Frozen ==
  ASSUME NEW d \in Dispatches,
         \A w \in WorkersOf(d) : step'[w] = step[w] /\ at'[w] = at[w] /\ result'[w] = result[w],
         order'[d] = order[d]
  PROVE  /\ Successes(d)' = Successes(d)
         /\ \A x : VotesFor(d, x)' = VotesFor(d, x)
         /\ {Entry(w) : w \in Successes(d)}' = {Entry(w) : w \in Successes(d)}
         /\ Repeated(d)' = Repeated(d)
<1>1. \A w \in WorkersOf(d) : w[1] = d /\ Entry(w)' = Entry(w)
  BY WorkerFacts DEF Entry, EntryAt
<1>2. Successes(d)' = Successes(d)
  BY DEF Successes
<1>3. ASSUME NEW x PROVE VotesFor(d, x)' = VotesFor(d, x)
  BY <1>2 DEF VotesFor, Successes
<1>4. {Entry(w) : w \in Successes(d)}' = {Entry(w) : w \in Successes(d)}
  BY <1>1, <1>2 DEF Successes
<1>5. Repeated(d)' = Repeated(d)
  BY DEF Repeated
<1> QED BY <1>2, <1>3, <1>4, <1>5

LEMMA DecidedStays ==
  ASSUME Inv, NEW d \in Dispatches, phase[d] \in Decided, Justified(d), phase'[d] = phase[d],
         answer'[d] = answer[d], order'[d] = order[d],
         \A w \in WorkersOf(d) : step'[w] = step[w] /\ at'[w] = at[w] /\ result'[w] = result[w]
  PROVE  Justified(d)'
<1>1. /\ Successes(d)' = Successes(d)
      /\ \A x : VotesFor(d, x)' = VotesFor(d, x)
      /\ {Entry(w) : w \in Successes(d)}' = {Entry(w) : w \in Successes(d)}
      /\ Repeated(d)' = Repeated(d)
  BY Frozen
<1>2. CASE phase[d] = "answered"
  <2>1. answer[d] \in Successes(d) /\ answer[d] \in WorkersOf(d)
    BY <1>2 DEF Justified, Successes
  <2>2. PICK y : y = result[answer[d]]
    OBVIOUS
  <2>3. (result[answer[d]])' = y
    BY <2>1, <2>2
  <2>4. VotesFor(d, y)' = VotesFor(d, y)
    BY <1>1
  <2>5. VotesFor(d, result[answer[d]])' = VotesFor(d, y)
    BY <2>3, <2>4 DEF VotesFor
  <2>6. VotesFor(d, result[answer[d]]) = VotesFor(d, y)
    BY <2>2
  <2>7. \A x \in Texts : Cardinality(VotesFor(d, x)') <= Cardinality(VotesFor(d, result[answer[d]])')
    BY <1>1, <1>2, <2>5, <2>6 DEF Justified
  <2> QED BY <1>1, <1>2, <2>1, <2>7 DEF Justified
<1>3. CASE phase[d] # "answered"
  BY <1>1, <1>3 DEF Justified
<1> QED BY <1>2, <1>3

\* The vote itself.
LEMMA VoteIsJustified ==
  ASSUME Inv, NEW d \in Dispatches, IsConsensus(d), Finish(d)
  PROVE  Justified(d)'
<1>1. Control /\ TypeOK /\ Started(d)
  BY DEF Inv, Control, Finish, Started
<1>2. /\ UNCHANGED <<order, step, at, result>>
      /\ IF Cardinality(Successes(d)) < NeedQuorum(d)
           THEN phase'[d] = "quorum_lost"
           ELSE phase'[d] = "answered" /\ answer'[d] = Pick(d)
  BY <1>1 DEF Finish, TypeOK
<1>3. /\ Successes(d)' = Successes(d)
      /\ \A x : VotesFor(d, x)' = VotesFor(d, x)
      /\ {Entry(w) : w \in Successes(d)}' = {Entry(w) : w \in Successes(d)}
      /\ Repeated(d)' = Repeated(d)
  BY <1>2, Frozen
<1> DEFINE k == Cardinality(Successes(d))
           n == TakeN(d)
<1>4. k \in Nat /\ n \in Nat
  BY VotesAreCounted, WorkersAreCounted
<1>5. NeedQuorum(d) = (n \div 2) + (n % 2)
  BY DEF NeedQuorum
<1>6. CASE k < NeedQuorum(d)
  <2>1. 2 * k < n
    <3> HIDE DEF k, n
    <3> QED BY <1>4, <1>5, <1>6
  <2> QED BY <1>2, <1>3, <1>6, <2>1 DEF Justified
<1>7. CASE ~(k < NeedQuorum(d))
  <2>1. k >= NeedQuorum(d) /\ 2 * k >= n /\ NeedQuorum(d) \in Nat
    <3> HIDE DEF k, n
    <3> QED BY <1>4, <1>5, <1>7
  <2>2. /\ Pick(d) \in Successes(d) /\ result[Pick(d)] = WinningText(d)
        /\ \A y \in Texts :
             Cardinality(VotesFor(d, y)) <= Cardinality(VotesFor(d, WinningText(d)))
    BY <1>1, <2>1, PickFacts
  <2>3. PICK y : y = WinningText(d)
    OBVIOUS
  <2>4. answer'[d] = Pick(d) /\ phase'[d] = "answered" /\ result' = result
    BY <1>2, <1>7
  <2>5. (result[answer[d]])' = y
    BY <2>2, <2>3, <2>4
  <2>6. VotesFor(d, result[answer[d]])' = VotesFor(d, y)
    <3>1. VotesFor(d, y)' = VotesFor(d, y)
      BY <1>3
    <3> QED BY <2>5, <3>1 DEF VotesFor
  <2>7. \A x \in Texts : Cardinality(VotesFor(d, x)') <= Cardinality(VotesFor(d, result[answer[d]])')
    BY <1>3, <2>2, <2>3, <2>6
  <2>8. Cardinality({Entry(w) : w \in Successes(d)}) + Repeated(d) >= k
    BY <1>1, DistinctEntries
  <2>9. /\ Cardinality({Entry(w) : w \in Successes(d)}) + Repeated(d) \in Int
    <3>1. IsFiniteSet(Successes(d)) /\ IsFiniteSet({Entry(w) : w \in Successes(d)})
      <4> DEFINE g == [w \in Successes(d) |-> Entry(w)]
      <4>1. Successes(d) \subseteq DOMAIN g /\ {Entry(w) : w \in Successes(d)} = {g[w] : w \in Successes(d)}
        OBVIOUS
      <4> HIDE DEF g
      <4> QED BY <4>1, VotesAreCounted, ImageFacts
    <3>2. Cardinality({Entry(w) : w \in Successes(d)}) \in Nat
      BY <3>1, FS_CardinalityType
    <3>3. Repeated(d) \in Int
      <4> DEFINE f == order[d]
      <4>1. f \in Seq(Entries) /\ Len(f) = Len(Route[d].preferred)
        BY <1>1 DEF Control, TypeOK, OrdersAreLists
      <4>2. DOMAIN f = 1..Len(Route[d].preferred)
        BY <4>1
      <4>3. Shards(d) \subseteq DOMAIN f
        BY <4>2, ShardFacts
      <4> HIDE DEF f
      <4>4. IsFiniteSet({f[i] : i \in Shards(d)})
        BY <4>3, WorkersAreCounted, ImageFacts
      <4>5. Cardinality({f[i] : i \in Shards(d)}) \in Nat
        BY <4>4, FS_CardinalityType
      <4> QED BY <1>4, <4>5 DEF Repeated, f
    <3> QED BY <3>2, <3>3
  <2>10. Cardinality({Entry(w) : w \in Successes(d)}) + Repeated(d) >= NeedQuorum(d)
    <3> DEFINE m == Cardinality({Entry(w) : w \in Successes(d)}) + Repeated(d)
    <3> HIDE DEF m, k
    <3>1. m \in Int /\ m >= k /\ k >= NeedQuorum(d)
      BY <2>1, <2>8, <2>9 DEF m, k
    <3>2. m >= NeedQuorum(d)
      BY <1>4, <2>1, <3>1
    <3> QED BY <3>2 DEF m
  <2> QED BY <1>3, <2>1, <2>2, <2>4, <2>7, <2>10 DEF Justified, NeedQuorum
<1> QED BY <1>6, <1>7

LEMMA StepKeepsConsensus ==
  ASSUME Inv, ConsensusIsJustified, [Next]_vars
  PROVE  ConsensusIsJustified'
<1> SUFFICES ASSUME NEW d \in Dispatches, IsConsensus(d) PROVE Justified(d)'
  BY DEF ConsensusIsJustified, Justified, IsConsensus
<1>0. Control /\ TypeOK /\ Justified(d)
  BY DEF Inv, Control, ConsensusIsJustified, Justified
<1>1. ASSUME NEW w \in Workers, WorkerStep(w) PROVE Justified(d)'
  <2>1. /\ UNCHANGED <<phase, order, answer>> /\ step[w] \notin {"done_ok", "done_err"}
        /\ \A v \in Workers : v # w =>
              step'[v] = step[v] /\ at'[v] = at[v] /\ result'[v] = result[v]
    BY <1>0, <1>1, WorkerFrame DEF Control
  <2>2. CASE phase[d] \in Decided
    <3>1. \A v \in WorkersOf(d) : v \in Workers /\ v # w
      BY <1>0, <2>1, <2>2, WorkerFacts DEF Control, IsAt
    <3> QED BY <1>0, <2>1, <2>2, <3>1, DecidedStays
  <2>3. CASE phase[d] \notin Decided
    BY <2>1, <2>3 DEF Justified, Decided
  <2> QED BY <2>2, <2>3
<1>2. ASSUME NEW e \in Dispatches, Start(e) \/ Finish(e), ~(e = d /\ Finish(e))
      PROVE  Justified(d)'
  <2>1. CASE phase[d] \in Decided
    <3>1. e # d
      BY <1>2, <2>1 DEF Start, Decided
    <3>2. /\ phase'[d] = phase[d] /\ order'[d] = order[d] /\ answer'[d] = answer[d]
          /\ at' = at /\ result' = result
      BY <1>0, <1>2, <3>1 DEF Start, Finish, TypeOK
    <3>3. \A w \in WorkersOf(d) : step'[w] = step[w]
      BY <1>2, <3>1, WorkerFacts DEF Start, Finish
    <3> QED BY <1>0, <2>1, <3>2, <3>3, DecidedStays
  <2>2. CASE phase[d] \notin Decided
    <3>1. phase'[d] \notin Decided
      BY <1>0, <1>2, <2>2 DEF Start, Finish, TypeOK, Decided
    <3> QED BY <3>1 DEF Justified, Decided
  <2> QED BY <2>1, <2>2
<1>3. CASE Finish(d)
  BY <1>3, VoteIsJustified
<1>4. CASE UNCHANGED vars
  BY <1>0, <1>4 DEF vars, Justified, Successes, VotesFor, Repeated, Entry, EntryAt
<1> QED BY <1>1, <1>2, <1>3, <1>4 DEF Next, Resting

\* dispatch_consensus answers with a largest group of at least half of its shards,
\* and gives up only when fewer than half of them have answered.
THEOREM RouterJustifiesConsensus == Spec => []ConsensusIsJustified
<1>1. Init => ConsensusIsJustified
  BY DEF Init, ConsensusIsJustified
<1> QED BY <1>1, StepKeepsConsensus, InvHolds, PTL DEF Spec
=============================================================================
