----------------------------- MODULE LspDocSync -----------------------------
(***************************************************************************)
(* Document synchronisation and debounced diagnostics of the language      *)
(* server: did_open, did_change and did_close of                           *)
(* crates/cobrust-lsp/src/lib.rs with the tokens of debounce.rs.           *)
(*                                                                         *)
(* The editor's notifications are handled one after the other, in the      *)
(* order they were sent.  A did_change spawns a task that sleeps for the   *)
(* debounce window, asks whether its version is still the latest, compiles *)
(* the text it captured and publishes the diagnostics.  Those tasks run on *)
(* other threads of the runtime, between any two lock regions of a handler *)
(* and of each other.                                                      *)
(*                                                                         *)
(* Abstractions.  The n-th text the editor sends is the number n.          *)
(* Diagnostics and type rows are named by the text they were computed      *)
(* from.  The window has no length: a task may wake at any time.           *)
(***************************************************************************)
EXTENDS Integers

CONSTANTS
  Uris,      \* documents
  MaxTexts   \* bound: how many texts the editor sends in all

ASSUME LspAssumption == Uris # {} /\ MaxTexts \in Nat

Texts == 1..MaxTexts
NoText == 0

VARIABLES
  sent,      \* number of texts sent so far
  closed,    \* history: documents that have been closed at least once
  raced,     \* history: documents a version of which was recorded while a task
             \* of an earlier version was between its check and its publication
  version,   \* version[u]: the editor's version of u, 0 if u is not open
  docs,      \* docs[u]: text in the server's store, or NoText
  ctx,       \* ctx[u]: text whose type rows are in the session context
  latest,    \* latest[u]: version recorded in the debounce tokens, 0 if none
  handler,   \* notification being handled: kind, document and its text
  task,      \* task[n]: debounce task of text n
  shown      \* shown[u]: text whose diagnostics the editor shows for u

vars == <<sent, closed, raced, version, docs, ctx, latest, handler, task, shown>>

Resting == [kind |-> "none", uri |-> CHOOSE u \in Uris : TRUE, text |-> NoText]
NoTask == [stage |-> "none", uri |-> CHOOSE u \in Uris : TRUE, version |-> 0]
Stages == {"none", "waiting", "checked", "compiled", "published", "skipped"}

\* Every text, version and task stays within what the editor has sent.
TypeOK ==
  /\ sent \in 0..MaxTexts
  /\ closed \subseteq Uris
  /\ raced \subseteq Uris
  /\ version \in [Uris -> 0..MaxTexts]
  /\ docs \in [Uris -> {NoText} \cup Texts]
  /\ ctx \in [Uris -> {NoText} \cup Texts]
  /\ latest \in [Uris -> 0..MaxTexts]
  /\ handler \in [kind : {"none", "open", "change", "close"}, uri : Uris,
                  text : {NoText} \cup Texts]
  /\ task \in [Texts -> [stage : Stages, uri : Uris, version : 0..MaxTexts]]
  /\ shown \in [Uris -> {NoText} \cup Texts]

Init ==
  /\ sent = 0
  /\ closed = {}
  /\ raced = {}
  /\ version = [u \in Uris |-> 0]
  /\ docs = [u \in Uris |-> NoText]
  /\ ctx = [u \in Uris |-> NoText]
  /\ latest = [u \in Uris |-> 0]
  /\ handler = Resting
  /\ task = [n \in Texts |-> NoTask]
  /\ shown = [u \in Uris |-> NoText]

----------------------------------------------------------------------------
\* Handlers.  Each has two lock regions; a handler starts when the one before
\* it has ended.

Handle(kind, u, n) ==
  /\ handler.kind = "none"
  /\ handler' = [kind |-> kind, uri |-> u, text |-> n]

Handled(kind) ==
  /\ handler.kind = kind
  /\ handler' = Resting

\* did_open compiles at once, under the context lock...
OpenCompile(u) ==
  /\ version[u] = 0
  /\ sent < MaxTexts
  /\ Handle("open", u, sent + 1)
  /\ sent' = sent + 1
  /\ version' = [version EXCEPT ![u] = 1]
  /\ ctx' = [ctx EXCEPT ![u] = sent + 1]
  /\ UNCHANGED <<closed, raced, docs, latest, task, shown>>

\* ... then stores the text and publishes.
OpenPublish ==
  /\ Handled("open")
  /\ docs' = [docs EXCEPT ![handler.uri] = handler.text]
  /\ shown' = [shown EXCEPT ![handler.uri] = handler.text]
  /\ UNCHANGED <<sent, closed, raced, version, ctx, latest, task>>

\* did_change splices the change into the store...
ChangeStore(u) ==
  /\ version[u] > 0
  /\ sent < MaxTexts
  /\ Handle("change", u, sent + 1)
  /\ sent' = sent + 1
  /\ version' = [version EXCEPT ![u] = @ + 1]
  /\ docs' = [docs EXCEPT ![u] = sent + 1]
  /\ UNCHANGED <<closed, raced, ctx, latest, task, shown>>

Spawned(n, u, v) ==
  task' = [task EXCEPT ![n] = [stage |-> "waiting", uri |-> u, version |-> v]]

\* History: u, if one of its tasks is past its check.
Racing(u) == {v \in {u} : \E n \in Texts : /\ task[n].uri = v
                                          /\ task[n].stage \in {"checked", "compiled"}}

\* Mutants of ChangeSchedule: the version the next change will have is
\* recorded; none is.
ChangeScheduleAhead ==
  LET u == handler.uri IN
    /\ Handled("change")
    /\ latest' = [latest EXCEPT ![u] = version[u] + 1]
    /\ Spawned(handler.text, u, version[u])
    /\ UNCHANGED <<sent, closed, raced, version, docs, ctx, shown>>

ChangeScheduleUnrecorded ==
  /\ Handled("change")
  /\ Spawned(handler.text, handler.uri, version[handler.uri])
  /\ UNCHANGED <<sent, closed, raced, version, docs, ctx, latest, shown>>

\* ... then records the version and spawns the task.
ChangeSchedule ==
  LET u == handler.uri IN
    /\ Handled("change")
    /\ latest' = [latest EXCEPT ![u] = version[u]]
    /\ Spawned(handler.text, u, version[u])
    /\ raced' = raced \cup Racing(u)
    /\ UNCHANGED <<sent, closed, version, docs, ctx, shown>>

\* did_close drops the text...
CloseForget(u) ==
  /\ version[u] > 0
  /\ Handle("close", u, NoText)
  /\ version' = [version EXCEPT ![u] = 0]
  /\ closed' = closed \cup {u}
  /\ docs' = [docs EXCEPT ![u] = NoText]
  /\ UNCHANGED <<sent, raced, ctx, latest, task, shown>>

\* ... then its type rows; the recorded version stays.
CloseInvalidate ==
  /\ Handled("close")
  /\ ctx' = [ctx EXCEPT ![handler.uri] = NoText]
  /\ UNCHANGED <<sent, closed, raced, version, docs, latest, task, shown>>

----------------------------------------------------------------------------
\* The debounce task of text n.

Enter(n, stage) == task' = [task EXCEPT ![n].stage = stage]

\* Mutants of IsLatest: every version passes; only an overtaking one passes.
IsAny(u, v) == TRUE
IsAhead(u, v) == latest[u] < v

IsLatest(u, v) == latest[u] = v

Wake(n) ==
  /\ task[n].stage = "waiting"
  /\ Enter(n, IF IsLatest(task[n].uri, task[n].version) THEN "checked" ELSE "skipped")
  /\ UNCHANGED <<sent, closed, raced, version, docs, ctx, latest, handler, shown>>

Compile(n) ==
  /\ task[n].stage = "checked"
  /\ ctx' = [ctx EXCEPT ![task[n].uri] = n]
  /\ Enter(n, "compiled")
  /\ UNCHANGED <<sent, closed, raced, version, docs, latest, handler, shown>>

Publish(n) ==
  /\ task[n].stage = "compiled"
  /\ shown' = [shown EXCEPT ![task[n].uri] = n]
  /\ Enter(n, "published")
  /\ UNCHANGED <<sent, closed, raced, version, docs, ctx, latest, handler>>

HandlerEnds == OpenPublish \/ ChangeSchedule \/ CloseInvalidate
TaskStep(n) == Wake(n) \/ Compile(n) \/ Publish(n)

\* The editor sends nothing more.
Idle == handler.kind = "none" /\ UNCHANGED vars

Next ==
  \/ \E u \in Uris : OpenCompile(u) \/ ChangeStore(u) \/ CloseForget(u)
  \/ HandlerEnds
  \/ \E n \in Texts : TaskStep(n)
  \/ Idle

\* The runtime keeps polling handlers and spawned tasks; the editor owes nothing.
Fairness == WF_vars(HandlerEnds) /\ \A n \in Texts : WF_vars(TaskStep(n))

Spec == Init /\ [][Next]_vars /\ Fairness

----------------------------------------------------------------------------
(* Properties *)

Quiet == /\ handler.kind = "none"
         /\ \A n \in Texts : task[n].stage \in {"none", "published", "skipped"}

\* Debouncing drops a text only when the store no longer holds it: whatever the
\* interleaving, the last change of a document is never the one that is skipped.
SkippedMeansSuperseded ==
  \A n \in Texts : task[n].stage = "skipped" => docs[task[n].uri] # n

IsCurrent(u) == docs[u] # NoText => shown[u] = docs[u] /\ ctx[u] = docs[u]

\* A server with nothing left to do shows, and answers from, the text it holds:
\* only a change handled between a task's check and its publication, or a
\* reopened document, can leave it stale.
QuietServerIsCurrent == Quiet => \A u \in Uris \ (raced \cup closed) : IsCurrent(u)

\* "stale entries are harmless (every new event re-keys them)": closing and
\* opening a document again leaves it as current as it was.
StaleEntriesAreHarmless == Quiet => \A u \in Uris \ raced : IsCurrent(u)

\* Every text that stays in the store has its diagnostics published.
LastTextIsPublished ==
  \A n \in Texts : task[n].stage = "waiting" ~>
    (task[n].stage = "published" \/ docs[task[n].uri] # n)
=============================================================================
