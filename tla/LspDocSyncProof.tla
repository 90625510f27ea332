-------------------------- MODULE LspDocSyncProof --------------------------
(***************************************************************************)
(* Debouncing never skips the last change of a document, and a server at   *)
(* rest shows the text it holds: for every number of documents and texts,  *)
(* and every interleaving of handlers and tasks.                           *)
(*                                                                         *)
(* A text has no task before its handler has recorded its version, and the *)
(* handler that records another version has replaced the text in the store *)
(* before.  So while the store holds a text that has a task, the recorded  *)
(* version is that of the task, and the task is not skipped.               *)
(***************************************************************************)
EXTENDS TLAPS, LspDocSync

\* Versions count the texts of one document.
VersionsAreSent == \A u \in Uris : version[u] <= sent

\* The text being handled is the last one sent, and has no task yet.
HandledIsNew ==
  handler.kind \in {"open", "change"} =>
    /\ handler.text = sent
    /\ sent \in Texts

TasksAreOld ==
  \A n \in Texts : task[n].stage # "none" =>
    /\ n <= sent
    /\ handler.kind \in {"open", "change"} => n # sent

ChangeIsStored == handler.kind = "change" => docs[handler.uri] = handler.text

StoredTaskIsLatest ==
  \A n \in Texts :
    task[n].stage # "none" /\ docs[task[n].uri] = n => latest[task[n].uri] = task[n].version

Inv ==
  /\ TypeOK
  /\ VersionsAreSent
  /\ HandledIsNew
  /\ TasksAreOld
  /\ ChangeIsStored
  /\ StoredTaskIsLatest
  /\ SkippedMeansSuperseded

\* A resting handler and an absent task are typed: there is a document.
LEMMA RestingType ==
  /\ Resting \in [kind : {"none", "open", "change", "close"}, uri : Uris,
                  text : {NoText} \cup Texts]
  /\ NoTask \in [stage : Stages, uri : Uris, version : 0..MaxTexts]
BY LspAssumption DEF Resting, NoTask, Stages

\* The server starts without documents and without tasks.
LEMMA InitEstablishesInv == ASSUME Init PROVE Inv
<1>1. TypeOK
  BY LspAssumption, RestingType DEF Init, TypeOK
<1>2. handler.kind = "none" /\ \A n \in Texts : task[n].stage = "none"
  BY DEF Init, Resting, NoTask
<1>3. VersionsAreSent
  BY DEF Init, VersionsAreSent
<1> QED BY <1>1, <1>2, <1>3
  DEF Inv, HandledIsNew, TasksAreOld, ChangeIsStored, StoredTaskIsLatest,
      SkippedMeansSuperseded

HandlerType == [kind : {"none", "open", "change", "close"}, uri : Uris,
                text : {NoText} \cup Texts]
TaskType == [stage : Stages, uri : Uris, version : 0..MaxTexts]

\* The next text and version of a document are within bounds.
LEMMA NextTextIsTyped ==
  ASSUME TypeOK, VersionsAreSent, sent < MaxTexts, NEW u \in Uris
  PROVE  /\ sent + 1 \in Texts
         /\ sent + 1 \in 0..MaxTexts
         /\ 1 \in 0..MaxTexts
         /\ version[u] + 1 \in 0..MaxTexts
<1>1. sent \in 0..MaxTexts /\ version[u] \in 0..MaxTexts /\ version[u] <= sent
  BY DEF TypeOK, VersionsAreSent
<1> QED BY <1>1, LspAssumption DEF Texts

\* did_open sends a text no task was ever spawned for.
LEMMA OpenCompileKeepsInv == ASSUME Inv, NEW u \in Uris, OpenCompile(u) PROVE Inv'
<1>1. TypeOK /\ VersionsAreSent /\ TasksAreOld
  BY DEF Inv
<1>2. /\ sent + 1 \in Texts
      /\ sent + 1 \in 0..MaxTexts
      /\ 1 \in 0..MaxTexts
  BY <1>1, NextTextIsTyped DEF OpenCompile
<1>3. handler' = [kind |-> "open", uri |-> u, text |-> sent + 1]
  BY DEF OpenCompile, Handle
<1>4. sent' = sent + 1 /\ sent \in 0..MaxTexts
  BY <1>1 DEF OpenCompile, TypeOK
<1>5. UNCHANGED <<closed, raced, docs, latest, task, shown>>
  BY DEF OpenCompile
<1>6. TypeOK'
  <2>1. handler' \in HandlerType
    BY <1>2, <1>3 DEF HandlerType
  <2>2. version' \in [Uris -> 0..MaxTexts] /\ ctx' \in [Uris -> {NoText} \cup Texts]
    BY <1>1, <1>2 DEF OpenCompile, TypeOK
  <2> QED BY <1>1, <1>2, <1>4, <1>5, <2>1, <2>2 DEF TypeOK, HandlerType
<1>7. VersionsAreSent'
  <2> SUFFICES ASSUME NEW w \in Uris PROVE version'[w] <= sent'
    BY DEF VersionsAreSent
  <2>1. version[w] <= sent /\ version[w] \in 0..MaxTexts
    BY <1>1 DEF VersionsAreSent, TypeOK
  <2>2. version'[w] = IF w = u THEN 1 ELSE version[w]
    BY <1>1 DEF OpenCompile, TypeOK
  <2> QED BY <1>4, <2>1, <2>2, LspAssumption
<1>8. HandledIsNew' /\ ChangeIsStored'
  BY <1>2, <1>3, <1>4 DEF HandledIsNew, ChangeIsStored
<1>9. TasksAreOld'
  <2> SUFFICES ASSUME NEW n \in Texts, task[n].stage # "none"
               PROVE  n <= sent' /\ n # sent'
    BY <1>5 DEF TasksAreOld
  <2>1. n <= sent /\ n \in 1..MaxTexts
    BY <1>1 DEF TasksAreOld, Texts
  <2> QED BY <1>4, <2>1, LspAssumption
<1>10. StoredTaskIsLatest' /\ SkippedMeansSuperseded'
  BY <1>5 DEF Inv, StoredTaskIsLatest, SkippedMeansSuperseded
<1> QED BY <1>6, <1>7, <1>8, <1>9, <1>10 DEF Inv

\* did_change puts a text without a task in the store: no task holds the text of
\* its document any more.
LEMMA ChangeStoreKeepsInv == ASSUME Inv, NEW u \in Uris, ChangeStore(u) PROVE Inv'
<1>1. TypeOK /\ VersionsAreSent /\ TasksAreOld
  BY DEF Inv
<1>2. /\ sent + 1 \in Texts
      /\ sent + 1 \in 0..MaxTexts
      /\ version[u] + 1 \in 0..MaxTexts
  BY <1>1, NextTextIsTyped DEF ChangeStore
<1>3. handler' = [kind |-> "change", uri |-> u, text |-> sent + 1]
  BY DEF ChangeStore, Handle
<1>4. sent' = sent + 1 /\ sent \in 0..MaxTexts
  BY <1>1 DEF ChangeStore, TypeOK
<1>5. UNCHANGED <<closed, raced, ctx, latest, task, shown>>
  BY DEF ChangeStore
<1>6. \A w \in Uris : docs'[w] = IF w = u THEN sent + 1 ELSE docs[w]
  BY <1>1 DEF ChangeStore, TypeOK
<1>7. TypeOK'
  <2>1. handler' \in HandlerType
    BY <1>2, <1>3 DEF HandlerType
  <2>2. version' \in [Uris -> 0..MaxTexts] /\ docs' \in [Uris -> {NoText} \cup Texts]
    BY <1>1, <1>2 DEF ChangeStore, TypeOK
  <2> QED BY <1>1, <1>2, <1>4, <1>5, <2>1, <2>2 DEF TypeOK, HandlerType
<1>8. VersionsAreSent'
  <2> SUFFICES ASSUME NEW w \in Uris PROVE version'[w] <= sent'
    BY DEF VersionsAreSent
  <2>1. version[w] <= sent /\ version[w] \in 0..MaxTexts
    BY <1>1 DEF VersionsAreSent, TypeOK
  <2>2. version'[w] = IF w = u THEN version[w] + 1 ELSE version[w]
    BY <1>1 DEF ChangeStore, TypeOK
  <2> QED BY <1>4, <2>1, <2>2, LspAssumption
<1>9. HandledIsNew' /\ ChangeIsStored'
  BY <1>2, <1>3, <1>4, <1>6 DEF HandledIsNew, ChangeIsStored
<1>10. \A n \in Texts : task[n].stage # "none" => n <= sent' /\ n # sent + 1
  <2> SUFFICES ASSUME NEW n \in Texts, task[n].stage # "none"
               PROVE  n <= sent' /\ n # sent + 1
    OBVIOUS
  <2>1. n <= sent /\ n \in 1..MaxTexts
    BY <1>1 DEF TasksAreOld, Texts
  <2> QED BY <1>4, <2>1, LspAssumption
<1>11. TasksAreOld'
  BY <1>4, <1>5, <1>10 DEF TasksAreOld
<1>12. \A n \in Texts : task[n].stage # "none" /\ docs'[task[n].uri] = n =>
                          docs[task[n].uri] = n
  BY <1>1, <1>6, <1>10 DEF TypeOK
<1>13. StoredTaskIsLatest'
  BY <1>5, <1>12 DEF Inv, StoredTaskIsLatest
<1>14. SkippedMeansSuperseded'
  BY <1>5, <1>12 DEF Inv, SkippedMeansSuperseded
<1> QED BY <1>7, <1>8, <1>9, <1>11, <1>13, <1>14 DEF Inv

\* did_close leaves no text of the document in the store.
LEMMA CloseForgetKeepsInv == ASSUME Inv, NEW u \in Uris, CloseForget(u) PROVE Inv'
<1>1. TypeOK /\ VersionsAreSent /\ TasksAreOld
  BY DEF Inv
<1>2. handler' = [kind |-> "close", uri |-> u, text |-> NoText]
  BY DEF CloseForget, Handle
<1>3. UNCHANGED <<sent, raced, ctx, latest, task, shown>>
  BY DEF CloseForget
<1>4. \A w \in Uris : docs'[w] = IF w = u THEN 0 ELSE docs[w]
  BY <1>1 DEF CloseForget, TypeOK, NoText
<1>5. TypeOK'
  <2>1. handler' \in HandlerType
    BY <1>2 DEF HandlerType
  <2>2. 0 \in 0..MaxTexts
    BY LspAssumption
  <2>3. version' \in [Uris -> 0..MaxTexts] /\ docs' \in [Uris -> {NoText} \cup Texts]
    BY <1>1, <2>2 DEF CloseForget, TypeOK
  <2>4. closed' \subseteq Uris
    BY <1>1 DEF CloseForget, TypeOK
  <2> QED BY <1>1, <1>3, <2>1, <2>3, <2>4 DEF TypeOK, HandlerType
<1>6. VersionsAreSent'
  <2> SUFFICES ASSUME NEW w \in Uris PROVE version'[w] <= sent'
    BY DEF VersionsAreSent
  <2>1. version[w] <= sent /\ sent \in 0..MaxTexts
    BY <1>1 DEF VersionsAreSent, TypeOK
  <2>2. version'[w] = IF w = u THEN 0 ELSE version[w]
    BY <1>1 DEF CloseForget, TypeOK
  <2> QED BY <1>3, <2>1, <2>2, LspAssumption
<1>7. HandledIsNew' /\ ChangeIsStored'
  BY <1>2 DEF HandledIsNew, ChangeIsStored
<1>8. TasksAreOld'
  BY <1>1, <1>2, <1>3 DEF TasksAreOld
<1>9. \A n \in Texts : docs'[task[n].uri] = n => docs[task[n].uri] = n
  <2> SUFFICES ASSUME NEW n \in Texts, docs'[task[n].uri] = n PROVE docs[task[n].uri] = n
    OBVIOUS
  <2>1. n # 0
    BY LspAssumption DEF Texts
  <2>2. task[n].uri \in Uris
    BY <1>1 DEF TypeOK
  <2> QED BY <1>4, <2>1, <2>2
<1>10. StoredTaskIsLatest'
  BY <1>3, <1>9 DEF Inv, StoredTaskIsLatest
<1>11. SkippedMeansSuperseded'
  BY <1>3, <1>9 DEF Inv, SkippedMeansSuperseded
<1> QED BY <1>5, <1>6, <1>7, <1>8, <1>10, <1>11 DEF Inv

\* did_open stores the text it sent, for which there is no task.
LEMMA OpenPublishKeepsInv == ASSUME Inv, OpenPublish PROVE Inv'
<1>1. TypeOK /\ VersionsAreSent /\ TasksAreOld
  BY DEF Inv
<1>2. /\ handler.uri \in Uris
      /\ handler.text = sent
      /\ sent \in Texts
      /\ handler.kind = "open"
  BY DEF OpenPublish, Handled, Inv, HandledIsNew, TypeOK
<1>3. handler' \in HandlerType /\ handler'.kind = "none"
  BY RestingType DEF OpenPublish, Handled, HandlerType, Resting
<1>4. UNCHANGED <<sent, closed, raced, version, ctx, latest, task>>
  BY DEF OpenPublish
<1>5. \A w \in Uris : docs'[w] = IF w = handler.uri THEN sent ELSE docs[w]
  BY <1>1, <1>2 DEF OpenPublish, TypeOK
<1>6. TypeOK'
  <2>1. docs' \in [Uris -> {NoText} \cup Texts] /\ shown' \in [Uris -> {NoText} \cup Texts]
    BY <1>1, <1>2 DEF OpenPublish, TypeOK
  <2> QED BY <1>1, <1>3, <1>4, <2>1 DEF TypeOK, HandlerType
<1>7. VersionsAreSent' /\ HandledIsNew' /\ ChangeIsStored' /\ TasksAreOld'
  BY <1>1, <1>3, <1>4
    DEF VersionsAreSent, HandledIsNew, ChangeIsStored, TasksAreOld
<1>8. \A n \in Texts : task[n].stage # "none" /\ docs'[task[n].uri] = n =>
                         docs[task[n].uri] = n
  BY <1>1, <1>2, <1>5 DEF TypeOK, TasksAreOld
<1>9. StoredTaskIsLatest'
  BY <1>4, <1>8 DEF Inv, StoredTaskIsLatest
<1>10. SkippedMeansSuperseded'
  BY <1>4, <1>8 DEF Inv, SkippedMeansSuperseded
<1> QED BY <1>6, <1>7, <1>9, <1>10 DEF Inv

\* did_change records the version of the task it spawns; the store holds that
\* task's text, so no other task of the document holds one.
LEMMA ChangeScheduleKeepsInv == ASSUME Inv, ChangeSchedule PROVE Inv'
<1> DEFINE u == handler.uri
           k == handler.text
           new == [stage |-> "waiting", uri |-> u, version |-> version[u]]
<1>1. TypeOK /\ VersionsAreSent /\ TasksAreOld
  BY DEF Inv
<1>2. u \in Uris /\ k \in Texts /\ k = sent /\ docs[u] = k /\ handler.kind = "change"
  BY DEF ChangeSchedule, Handled, Inv, HandledIsNew, ChangeIsStored, TypeOK
<1>3. handler' \in HandlerType /\ handler'.kind = "none"
  BY RestingType DEF ChangeSchedule, Handled, HandlerType, Resting
<1>4. UNCHANGED <<sent, closed, version, docs, ctx, shown>>
  BY DEF ChangeSchedule
<1>5. version[u] \in 0..MaxTexts
  BY <1>1, <1>2 DEF TypeOK
<1>6. new \in TaskType
  BY <1>2, <1>5 DEF TaskType, Stages
<1>7. task' = [task EXCEPT ![k] = new] /\ latest' = [latest EXCEPT ![u] = version[u]]
  BY DEF ChangeSchedule, Spawned
<1>8. TypeOK'
  <2>1. task' \in [Texts -> TaskType]
    BY <1>1, <1>6, <1>7 DEF TypeOK, TaskType
  <2>2. latest' \in [Uris -> 0..MaxTexts]
    BY <1>1, <1>5, <1>7 DEF TypeOK
  <2>3. raced' \subseteq Uris
    BY <1>1, <1>2 DEF ChangeSchedule, Racing, TypeOK
  <2> QED BY <1>1, <1>3, <1>4, <2>1, <2>2, <2>3 DEF TypeOK, HandlerType, TaskType
<1>9. VersionsAreSent' /\ HandledIsNew' /\ ChangeIsStored'
  BY <1>1, <1>3, <1>4 DEF VersionsAreSent, HandledIsNew, ChangeIsStored
<1>10. \A n \in Texts : task'[n] = IF n = k THEN new ELSE task[n]
  BY <1>1, <1>7 DEF TypeOK
<1>11. \A w \in Uris : latest'[w] = IF w = u THEN version[u] ELSE latest[w]
  BY <1>1, <1>7 DEF TypeOK
<1>12. TasksAreOld'
  <2>1. k <= sent
    BY <1>1, <1>2, LspAssumption DEF TypeOK
  <2> QED BY <1>1, <1>2, <1>3, <1>4, <1>10, <2>1 DEF TasksAreOld
<1>13. StoredTaskIsLatest'
  <2> SUFFICES ASSUME NEW n \in Texts, task'[n].stage # "none", docs[task'[n].uri] = n
               PROVE  latest'[task'[n].uri] = task'[n].version
    BY <1>4 DEF StoredTaskIsLatest
  <2>1. CASE n = k
    BY <1>2, <1>10, <1>11, <2>1
  <2>2. CASE n # k
    <3>1. task'[n] = task[n] /\ task[n].uri \in Uris
      BY <1>1, <1>10, <2>2 DEF TypeOK
    <3>2. task[n].uri # u
      BY <1>2, <2>2, <3>1
    <3>3. latest[task[n].uri] = task[n].version
      BY <3>1 DEF Inv, StoredTaskIsLatest
    <3> QED BY <1>11, <3>1, <3>2, <3>3
  <2> QED BY <2>1, <2>2
<1>14. SkippedMeansSuperseded'
  BY <1>4, <1>10 DEF Inv, SkippedMeansSuperseded
<1> QED BY <1>8, <1>9, <1>12, <1>13, <1>14 DEF Inv

\* did_close drops type rows only.
LEMMA CloseInvalidateKeepsInv == ASSUME Inv, CloseInvalidate PROVE Inv'
<1>1. TypeOK /\ VersionsAreSent /\ TasksAreOld
  BY DEF Inv
<1>2. handler' \in HandlerType /\ handler'.kind = "none"
  BY RestingType DEF CloseInvalidate, Handled, HandlerType, Resting
<1>3. UNCHANGED <<sent, closed, raced, version, docs, latest, task, shown>>
  BY DEF CloseInvalidate
<1>4. ctx' \in [Uris -> {NoText} \cup Texts]
  BY <1>1 DEF CloseInvalidate, TypeOK
<1>5. TypeOK'
  BY <1>1, <1>2, <1>3, <1>4 DEF TypeOK, HandlerType
<1> QED BY <1>1, <1>2, <1>3, <1>5
  DEF Inv, VersionsAreSent, HandledIsNew, TasksAreOld, ChangeIsStored,
      StoredTaskIsLatest, SkippedMeansSuperseded

\* What a task that advances leaves alone.
LEMMA EnterMovesOneTask ==
  ASSUME TypeOK, NEW n \in Texts, NEW s \in Stages, Enter(n, s)
  PROVE  /\ task' \in [Texts -> TaskType]
         /\ \A m \in Texts : task'[m].uri = task[m].uri /\ task'[m].version = task[m].version
         /\ \A m \in Texts : task'[m].stage = IF m = n THEN s ELSE task[m].stage
<1>1. [task[n] EXCEPT !.stage = s] \in TaskType
  BY DEF TypeOK, TaskType
<1>2. task' = [task EXCEPT ![n] = [task[n] EXCEPT !.stage = s]]
  BY DEF Enter
<1>3. task' \in [Texts -> TaskType]
  BY <1>1, <1>2 DEF TypeOK, TaskType
<1>4. \A m \in Texts : task'[m] = IF m = n THEN [task[m] EXCEPT !.stage = s] ELSE task[m]
  BY <1>2 DEF TypeOK
<1> QED BY <1>3, <1>4 DEF TypeOK

\* A task is skipped only for a version that is not the recorded one, hence not
\* that of the text in the store.
LEMMA TaskStepKeepsInv == ASSUME Inv, NEW n \in Texts, TaskStep(n) PROVE Inv'
<1>1. TypeOK /\ VersionsAreSent /\ TasksAreOld /\ StoredTaskIsLatest
  BY DEF Inv
<1>2. UNCHANGED <<sent, closed, raced, version, docs, latest, handler>>
  BY DEF TaskStep, Wake, Compile, Publish
<1>3. ctx' \in [Uris -> {NoText} \cup Texts] /\ shown' \in [Uris -> {NoText} \cup Texts]
  BY <1>1 DEF TaskStep, Wake, Compile, Publish, TypeOK
<1>4. task[n].stage # "none"
  BY DEF TaskStep, Wake, Compile, Publish
<1>5. PICK s \in Stages \ {"none"} :
        /\ Enter(n, s)
        /\ s = "skipped" => latest[task[n].uri] # task[n].version
  BY DEF TaskStep, Wake, Compile, Publish, IsLatest, Stages
<1>6. /\ task' \in [Texts -> TaskType]
      /\ \A m \in Texts : task'[m].uri = task[m].uri /\ task'[m].version = task[m].version
      /\ \A m \in Texts : task'[m].stage = IF m = n THEN s ELSE task[m].stage
  BY <1>1, <1>5, EnterMovesOneTask
<1>7. TypeOK'
  BY <1>1, <1>2, <1>3, <1>6 DEF TypeOK, TaskType
<1>8. \A m \in Texts : task'[m].stage = "none" <=> task[m].stage = "none"
  BY <1>4, <1>5, <1>6
<1>9. VersionsAreSent' /\ HandledIsNew' /\ ChangeIsStored'
  BY <1>2 DEF Inv, VersionsAreSent, HandledIsNew, ChangeIsStored
<1>10. TasksAreOld'
  BY <1>1, <1>2, <1>8 DEF TasksAreOld
<1>11. StoredTaskIsLatest'
  BY <1>1, <1>2, <1>6, <1>8 DEF StoredTaskIsLatest
<1>12. SkippedMeansSuperseded'
  <2> SUFFICES ASSUME NEW m \in Texts, task'[m].stage = "skipped"
               PROVE  docs[task[m].uri] # m
    BY <1>2, <1>6 DEF SkippedMeansSuperseded
  <2>1. CASE m = n
    BY <1>1, <1>4, <1>5, <1>6, <2>1 DEF StoredTaskIsLatest
  <2>2. CASE m # n
    BY <1>6, <2>2 DEF Inv, SkippedMeansSuperseded
  <2> QED BY <2>1, <2>2
<1> QED BY <1>7, <1>9, <1>10, <1>11, <1>12 DEF Inv

\* Every step of the server and the editor keeps the invariant.
LEMMA StepKeepsInv == ASSUME Inv, [Next]_vars PROVE Inv'
<1>1. CASE UNCHANGED vars
  BY <1>1 DEF vars, Inv, TypeOK, VersionsAreSent, HandledIsNew, TasksAreOld,
              ChangeIsStored, StoredTaskIsLatest, SkippedMeansSuperseded
<1>2. ASSUME NEW u \in Uris, OpenCompile(u) \/ ChangeStore(u) \/ CloseForget(u)
      PROVE  Inv'
  BY <1>2, OpenCompileKeepsInv, ChangeStoreKeepsInv, CloseForgetKeepsInv
<1>3. CASE HandlerEnds
  BY <1>3, OpenPublishKeepsInv, ChangeScheduleKeepsInv, CloseInvalidateKeepsInv
    DEF HandlerEnds
<1>4. ASSUME NEW n \in Texts, TaskStep(n) PROVE Inv'
  BY <1>4, TaskStepKeepsInv
<1> QED BY <1>1, <1>2, <1>3, <1>4 DEF Next, Idle

\* The store, the tokens and the tasks keep their types.
THEOREM DocSyncTypeOK == Spec => []TypeOK
<1>1. Inv => TypeOK
  BY DEF Inv
<1> QED BY <1>1, InitEstablishesInv, StepKeepsInv, PTL DEF Spec

\* is_latest of debounce.rs never makes did_change's task drop a text that the
\* store still holds, for every interleaving of handlers and tasks.
THEOREM LastChangeIsNeverSkipped == Spec => []SkippedMeansSuperseded
<1>1. Inv => SkippedMeansSuperseded
  BY DEF Inv
<1> QED BY <1>1, InitEstablishesInv, StepKeepsInv, PTL DEF Spec

----------------------------------------------------------------------------
\* What a server at rest shows.  A document that was not closed has its versions
\* in the order of its texts, and no two tasks of one version.  If moreover no
\* version of it was recorded while a task was past its check, such a task is of
\* the recorded version: that of the text in the store.  So nothing replaces the
\* rows and the diagnostics of that text.

TasksOf(u) == {n \in Texts : task[n].stage # "none" /\ task[n].uri = u}

Handling(kind, u) == handler.kind = kind /\ handler.uri = u

ClosingIsClosed == \A u \in Uris : Handling("close", u) => u \in closed

Ordered(u) ==
  /\ latest[u] <= version[u]
  /\ version[u] = 0 => docs[u] = NoText
  /\ \A n \in TasksOf(u) : task[n].version \in 1..latest[u]
  /\ \A m, n \in TasksOf(u) : task[m].version = task[n].version => m = n
  /\ Handling("change", u) => latest[u] < version[u]
  /\ Handling("open", u) =>
       latest[u] = 0 /\ version[u] # 0 /\ docs[u] = NoText /\ ctx[u] = handler.text

\* The text in the store is that of the only did_open, shown by it, or has a task.
StoreIsFollowed(u) ==
  \/ latest[u] = 0 /\ shown[u] = docs[u] /\ ctx[u] = docs[u]
  \/ \E n \in TasksOf(u) :
       /\ docs[u] = n
       /\ task[n].stage \in {"compiled", "published"} => ctx[u] = n
       /\ task[n].stage = "published" => shown[u] = n

Followed(u) ==
  /\ \A n \in TasksOf(u) :
       task[n].stage \in {"checked", "compiled"} => task[n].version = latest[u]
  /\ docs[u] # NoText /\ ~Handling("change", u) => StoreIsFollowed(u)

CurrentInv ==
  /\ ClosingIsClosed
  /\ \A u \in Uris \ closed : Ordered(u)
  /\ \A u \in Uris \ (raced \cup closed) : Followed(u)

LEMMA InitEstablishesCurrentInv == ASSUME Init PROVE CurrentInv
<1>1. handler.kind = "none" /\ \A n \in Texts : task[n].stage = "none"
  BY DEF Init, Resting, NoTask
<1>2. \A u \in Uris : TasksOf(u) = {} /\ \A kind \in {"open", "change", "close"} : ~Handling(kind, u)
  BY <1>1 DEF TasksOf, Handling
<1>3. \A u \in Uris : latest[u] = 0 /\ version[u] = 0 /\ docs[u] = NoText
  BY DEF Init
<1> QED BY <1>2, <1>3 DEF CurrentInv, ClosingIsClosed, Ordered, Followed

\* A step on another document.
LEMMA OthersStay ==
  ASSUME NEW u \in Uris,
         version'[u] = version[u], docs'[u] = docs[u], latest'[u] = latest[u],
         ctx'[u] = ctx[u], shown'[u] = shown[u],
         TasksOf(u)' = TasksOf(u), \A n \in TasksOf(u) : task'[n] = task[n],
         \A kind \in {"open", "change"} : Handling(kind, u)' <=> Handling(kind, u),
         Handling("open", u) => handler'.text = handler.text
  PROVE  (Ordered(u) => Ordered(u)') /\ (Followed(u) => Followed(u)')
<1>1. Ordered(u) => Ordered(u)'
  BY DEF Ordered
<1>2. StoreIsFollowed(u) => StoreIsFollowed(u)'
  BY DEF StoreIsFollowed
<1> QED BY <1>1, <1>2 DEF Followed

\* did_open of a document that is not open: it has no task and no text.
LEMMA OpenCompileKeepsCurrent ==
  ASSUME Inv, CurrentInv, NEW u \in Uris, OpenCompile(u) PROVE CurrentInv'
<1>1. TypeOK
  BY DEF Inv
<1>2. /\ handler.kind = "none" /\ handler' = [kind |-> "open", uri |-> u, text |-> sent + 1]
      /\ UNCHANGED <<closed, raced, docs, latest, task, shown>> /\ version[u] = 0
      /\ \A w \in Uris : /\ version'[w] = IF w = u THEN 1 ELSE version[w]
                         /\ ctx'[w] = IF w = u THEN sent + 1 ELSE ctx[w]
  BY <1>1 DEF OpenCompile, Handle, TypeOK
<1>3. \A w \in Uris : TasksOf(w)' = TasksOf(w)
  BY <1>2 DEF TasksOf
<1>4. ASSUME NEW w \in Uris, w # u
      PROVE  (Ordered(w) => Ordered(w)') /\ (Followed(w) => Followed(w)')
  <2>1. \A kind \in {"open", "change"} : Handling(kind, w)' <=> Handling(kind, w)
    BY <1>2, <1>4 DEF Handling
  <2>2. ~Handling("open", w)
    BY <1>2 DEF Handling
  <2> QED BY <1>2, <1>3, <1>4, <2>1, <2>2, OthersStay
<1>5. ASSUME u \notin closed PROVE Ordered(u)' /\ Followed(u)'
  <2>1. Ordered(u) /\ latest[u] \in Nat
    BY <1>1, <1>5, LspAssumption DEF CurrentInv, TypeOK
  <2>2. latest[u] = 0 /\ docs[u] = NoText
    BY <1>2, <2>1 DEF Ordered
  <2>3. TasksOf(u) = {}
    BY <2>1, <2>2 DEF Ordered
  <2>4. Ordered(u)'
    BY <1>2, <1>3, <2>2, <2>3 DEF Ordered, Handling
  <2> QED BY <1>2, <1>3, <2>2, <2>3, <2>4 DEF Followed
<1>6. ClosingIsClosed'
  BY <1>2 DEF ClosingIsClosed, Handling
<1> QED BY <1>2, <1>4, <1>5, <1>6 DEF CurrentInv

\* did_open stores the text whose rows it has put in the context.
LEMMA OpenPublishKeepsCurrent == ASSUME Inv, CurrentInv, OpenPublish PROVE CurrentInv'
<1>1. TypeOK
  BY DEF Inv
<1>0. PICK u \in Uris : u = handler.uri
  BY <1>1 DEF TypeOK
<1>2. /\ handler.kind = "open" /\ handler'.kind = "none"
      /\ UNCHANGED <<closed, raced, version, ctx, latest, task>>
      /\ \A w \in Uris : /\ docs'[w] = IF w = u THEN handler.text ELSE docs[w]
                         /\ shown'[w] = IF w = u THEN handler.text ELSE shown[w]
  BY <1>0, <1>1 DEF OpenPublish, Handled, TypeOK, Resting
<1>3. \A w \in Uris : /\ TasksOf(w)' = TasksOf(w)
                      /\ \A kind \in {"open", "change", "close"} : ~Handling(kind, w)'
  BY <1>2 DEF TasksOf, Handling
<1>4. ASSUME NEW w \in Uris, w # u
      PROVE  (Ordered(w) => Ordered(w)') /\ (Followed(w) => Followed(w)')
  <2>1. ~Handling("open", w) /\ ~Handling("change", w)
    BY <1>0, <1>2, <1>4 DEF Handling
  <2> QED BY <1>2, <1>3, <1>4, <2>1, OthersStay
<1>5. ASSUME u \notin closed PROVE Ordered(u)' /\ Followed(u)'
  <2>1. Ordered(u) /\ Handling("open", u)
    BY <1>0, <1>2, <1>5 DEF CurrentInv, Handling
  <2>2. /\ latest[u] = 0 /\ version[u] # 0 /\ ctx[u] = handler.text
        /\ \A n \in TasksOf(u) : task[n].version \in 1..latest[u]
    BY <2>1 DEF Ordered
  <2>3. TasksOf(u) = {}
    BY <2>2
  <2>4. Ordered(u)'
    BY <1>1, <1>2, <1>3, <2>1, <2>2, <2>3 DEF Ordered
  <2>5. StoreIsFollowed(u)'
    BY <1>1, <1>2, <2>2 DEF StoreIsFollowed
  <2> QED BY <1>1, <1>3, <2>3, <2>4, <2>5 DEF Followed
<1>6. ClosingIsClosed'
  BY <1>3 DEF ClosingIsClosed
<1> QED BY <1>2, <1>4, <1>5, <1>6 DEF CurrentInv

\* did_change counts the version on before it records it.
LEMMA ChangeStoreKeepsCurrent ==
  ASSUME Inv, CurrentInv, NEW u \in Uris, ChangeStore(u) PROVE CurrentInv'
<1>1. TypeOK
  BY DEF Inv
<1>2. /\ handler.kind = "none" /\ handler' = [kind |-> "change", uri |-> u, text |-> sent + 1]
      /\ UNCHANGED <<closed, raced, ctx, latest, task, shown>> /\ version[u] > 0
      /\ \A w \in Uris : /\ version'[w] = IF w = u THEN version[w] + 1 ELSE version[w]
                         /\ docs'[w] = IF w = u THEN sent + 1 ELSE docs[w]
  BY <1>1 DEF ChangeStore, Handle, TypeOK
<1>3. \A w \in Uris : TasksOf(w)' = TasksOf(w)
  BY <1>2 DEF TasksOf
<1>4. ASSUME NEW w \in Uris, w # u
      PROVE  (Ordered(w) => Ordered(w)') /\ (Followed(w) => Followed(w)')
  <2>1. \A kind \in {"open", "change"} : Handling(kind, w)' <=> Handling(kind, w)
    BY <1>2, <1>4 DEF Handling
  <2>2. ~Handling("open", w)
    BY <1>2 DEF Handling
  <2> QED BY <1>2, <1>3, <1>4, <2>1, <2>2, OthersStay
<1>5. Ordered(u) => Ordered(u)'
  <2>1. latest[u] \in Nat /\ version[u] \in Nat
    BY <1>1, LspAssumption DEF TypeOK
  <2>2. latest[u] <= version[u] => latest[u] < version[u] + 1 /\ latest[u] <= version[u] + 1 /\ version[u] + 1 # 0
    BY <1>2, <2>1
  <2>3. version'[u] = version[u] + 1 /\ latest'[u] = latest[u] /\ ~Handling("open", u)'
    BY <1>2 DEF Handling
  <2> QED BY <1>2, <1>3, <2>2, <2>3 DEF Ordered
<1>6. Followed(u) => Followed(u)'
  <2>1. Handling("change", u)'
    BY <1>2 DEF Handling
  <2> QED BY <1>2, <1>3, <2>1 DEF Followed
<1>7. ClosingIsClosed'
  BY <1>2 DEF ClosingIsClosed, Handling
<1> QED BY <1>2, <1>4, <1>5, <1>6, <1>7 DEF CurrentInv

\* did_change records a version no task of the document has.  If a task was past
\* its check, the document counts as raced from here on.
LEMMA ChangeScheduleKeepsCurrent == ASSUME Inv, CurrentInv, ChangeSchedule PROVE CurrentInv'
<1>1. TypeOK
  BY DEF Inv
<1>2. PICK u \in Uris : u = handler.uri
  BY <1>1 DEF TypeOK
<1>3. PICK k \in Texts : k = handler.text /\ docs[u] = k /\ task[k].stage = "none"
  <2>1. handler.kind = "change" /\ handler.text = sent /\ sent \in Texts /\ docs[u] = handler.text
    BY <1>2 DEF ChangeSchedule, Handled, Inv, HandledIsNew, ChangeIsStored
  <2>2. task[sent].stage = "none"
    BY <2>1 DEF Inv, TasksAreOld
  <2> QED BY <2>1, <2>2
<1>4. /\ handler.kind = "change" /\ handler'.kind = "none"
      /\ UNCHANGED <<closed, version, docs, ctx, shown>> /\ raced' = raced \cup Racing(u)
      /\ \A w \in Uris : latest'[w] = IF w = u THEN version[u] ELSE latest[w]
      /\ \A n \in Texts : task'[n] = IF n = k THEN [stage |-> "waiting", uri |-> u, version |-> version[u]]
                                              ELSE task[n]
  BY <1>1, <1>2, <1>3 DEF ChangeSchedule, Handled, Spawned, TypeOK, Resting
<1>5. \A w \in Uris : TasksOf(w)' = IF w = u THEN TasksOf(u) \cup {k} ELSE TasksOf(w)
  BY <1>3, <1>4 DEF TasksOf
<1>6. \A w \in Uris, kind \in {"open", "change", "close"} : ~Handling(kind, w)'
  BY <1>4 DEF Handling
<1>7. ASSUME NEW w \in Uris, w # u
      PROVE  (Ordered(w) => Ordered(w)') /\ (Followed(w) => Followed(w)')
  <2>1. ~Handling("open", w) /\ ~Handling("change", w)
    BY <1>2, <1>4, <1>7 DEF Handling
  <2>2. \A n \in TasksOf(w) : task'[n] = task[n]
    BY <1>3, <1>4 DEF TasksOf
  <2> QED BY <1>4, <1>5, <1>6, <1>7, <2>1, <2>2, OthersStay
<1>8. ASSUME u \notin closed PROVE Ordered(u)'
  <2>1. /\ Ordered(u) /\ Handling("change", u)
        /\ latest[u] \in Nat /\ version[u] \in Nat
    BY <1>1, <1>2, <1>4, <1>8, LspAssumption DEF CurrentInv, Handling, TypeOK
  <2>2. /\ latest[u] < version[u] /\ version[u] \in 1..version[u]
        /\ \A n \in TasksOf(u) : task[n].version \in 1..latest[u]
        /\ \A m, n \in TasksOf(u) : task[m].version = task[n].version => m = n
        /\ version[u] = 0 => docs[u] = NoText
    BY <2>1 DEF Ordered
  <2>3. \A v \in 1..latest[u] : v \in 1..version[u] /\ v # version[u]
    BY <2>1, <2>2
  <2>4. \A n \in TasksOf(u) : task'[n] = task[n] /\ task[n].version \in 1..version[u]
                              /\ task[n].version # version[u]
    BY <1>3, <1>4, <2>2, <2>3 DEF TasksOf
  <2>5. task'[k].version = version[u] /\ latest'[u] = version[u] /\ version'[u] = version[u]
    BY <1>4
  <2>6. \A n \in TasksOf(u)' : task'[n].version \in 1..latest'[u]
    BY <1>5, <2>2, <2>4, <2>5
  <2>7. \A m, n \in TasksOf(u)' : task'[m].version = task'[n].version => m = n
    BY <1>5, <2>2, <2>4, <2>5
  <2>8. latest'[u] <= version'[u]
    BY <2>1, <2>5
  <2> QED BY <1>4, <1>6, <2>2, <2>5, <2>6, <2>7, <2>8 DEF Ordered
<1>9. ASSUME u \notin raced' PROVE Followed(u)'
  <2>1. \A n \in TasksOf(u) : task[n].stage \notin {"checked", "compiled"}
    BY <1>4, <1>9 DEF TasksOf, Racing
  <2>2. \A n \in TasksOf(u)' : task'[n].stage \notin {"checked", "compiled"}
    <3> SUFFICES ASSUME NEW n \in TasksOf(u) \cup {k} PROVE task'[n].stage \notin {"checked", "compiled"}
      BY <1>5
    <3>1. n \in Texts
      BY DEF TasksOf
    <3> QED BY <1>4, <2>1, <3>1
  <2>3. k \in TasksOf(u)' /\ docs'[u] = k /\ task'[k].stage = "waiting"
    BY <1>3, <1>4, <1>5
  <2>4. StoreIsFollowed(u)'
    BY <2>3 DEF StoreIsFollowed
  <2> QED BY <2>2, <2>4 DEF Followed
<1>10. ClosingIsClosed'
  BY <1>6 DEF ClosingIsClosed
<1> QED BY <1>4, <1>7, <1>8, <1>9, <1>10 DEF CurrentInv

\* did_close of a document: from here on it counts as closed.
LEMMA CloseForgetKeepsCurrent ==
  ASSUME Inv, CurrentInv, NEW u \in Uris, CloseForget(u) PROVE CurrentInv'
<1>1. TypeOK
  BY DEF Inv
<1>2. /\ handler.kind = "none" /\ handler' = [kind |-> "close", uri |-> u, text |-> NoText]
      /\ UNCHANGED <<sent, raced, ctx, latest, task, shown>> /\ closed' = closed \cup {u}
      /\ \A w \in Uris : w # u => version'[w] = version[w] /\ docs'[w] = docs[w]
  BY <1>1 DEF CloseForget, Handle, TypeOK
<1>3. \A w \in Uris : TasksOf(w)' = TasksOf(w)
  BY <1>2 DEF TasksOf
<1>4. ASSUME NEW w \in Uris, w # u
      PROVE  (Ordered(w) => Ordered(w)') /\ (Followed(w) => Followed(w)')
  <2>1. \A kind \in {"open", "change"} : ~Handling(kind, w)' /\ ~Handling(kind, w)
    BY <1>2, <1>4 DEF Handling
  <2> QED BY <1>2, <1>3, <1>4, <2>1, OthersStay
<1>5. ClosingIsClosed'
  BY <1>2 DEF ClosingIsClosed, Handling
<1> QED BY <1>2, <1>4, <1>5 DEF CurrentInv

\* did_close drops the rows of a document that counts as closed.
LEMMA CloseInvalidateKeepsCurrent == ASSUME Inv, CurrentInv, CloseInvalidate PROVE CurrentInv'
<1>1. TypeOK
  BY DEF Inv
<1>2. PICK u \in Uris : u = handler.uri
  BY <1>1 DEF TypeOK
<1>3. /\ handler.kind = "close" /\ handler'.kind = "none"
      /\ UNCHANGED <<sent, closed, raced, version, docs, latest, task, shown>>
      /\ \A w \in Uris : w # u => ctx'[w] = ctx[w]
  BY <1>1, <1>2 DEF CloseInvalidate, Handled, TypeOK, Resting
<1>4. \A w \in Uris : /\ TasksOf(w)' = TasksOf(w)
                      /\ \A kind \in {"open", "change", "close"} : ~Handling(kind, w)'
                      /\ \A kind \in {"open", "change"} : ~Handling(kind, w)
  BY <1>3 DEF TasksOf, Handling
<1>5. ASSUME NEW w \in Uris, w # u
      PROVE  (Ordered(w) => Ordered(w)') /\ (Followed(w) => Followed(w)')
  BY <1>3, <1>4, <1>5, OthersStay
<1>6. u \in closed
  BY <1>2, <1>3 DEF CurrentInv, ClosingIsClosed, Handling
<1>7. ClosingIsClosed'
  BY <1>4 DEF ClosingIsClosed
<1> QED BY <1>3, <1>5, <1>6, <1>7 DEF CurrentInv

\* A task past its check is that of the text in the store, or there is none in it.
LEMMA CheckedTaskIsStored ==
  ASSUME Inv, NEW n \in Texts, NEW u \in Uris, Ordered(u), Followed(u),
         task[n].uri = u, task[n].stage \in {"checked", "compiled"}, StoreIsFollowed(u)
  PROVE  docs[u] = n
<1>1. n \in TasksOf(u) /\ task[n].version = latest[u] /\ latest[u] # 0
  BY DEF TasksOf, Ordered, Followed
<1>2. PICK m \in TasksOf(u) : docs[u] = m
  BY <1>1 DEF StoreIsFollowed
<1>3. latest[u] = task[m].version
  BY <1>2 DEF TasksOf, Inv, StoredTaskIsLatest
<1> QED BY <1>1, <1>2, <1>3 DEF Ordered

\* A task that advances.
LEMMA TaskStepKeepsCurrent ==
  ASSUME Inv, CurrentInv, NEW n \in Texts, TaskStep(n) PROVE CurrentInv'
<1>1. TypeOK
  BY DEF Inv
<1>2. PICK u \in Uris : u = task[n].uri
  BY <1>1 DEF TypeOK
<1>3. /\ UNCHANGED <<sent, closed, raced, version, docs, latest, handler>>
      /\ \A w \in Uris : w # u => ctx'[w] = ctx[w] /\ shown'[w] = shown[w]
  BY <1>1, <1>2 DEF TaskStep, Wake, Compile, Publish, TypeOK
<1>4. PICK s \in Stages \ {"none"} :
        /\ Enter(n, s)
        /\ \/ task[n].stage = "waiting" /\ UNCHANGED <<ctx, shown>>
              /\ s \in {"checked", "skipped"} /\ (s = "checked" => latest[u] = task[n].version)
           \/ s = "compiled" /\ task[n].stage = "checked" /\ ctx'[u] = n /\ UNCHANGED shown
           \/ s = "published" /\ task[n].stage = "compiled" /\ shown'[u] = n /\ UNCHANGED ctx
  BY <1>1, <1>2 DEF TaskStep, Wake, Compile, Publish, IsLatest, Stages, TypeOK
<1>5. /\ \A m \in Texts : task'[m].uri = task[m].uri /\ task'[m].version = task[m].version
      /\ \A m \in Texts : task'[m].stage = IF m = n THEN s ELSE task[m].stage
  BY <1>1, <1>4, EnterMovesOneTask
<1>6. task[n].stage # "none" /\ \A w \in Uris : TasksOf(w)' = TasksOf(w)
  BY <1>4, <1>5 DEF TasksOf
<1>7. \A w \in Uris, kind \in {"open", "change", "close"} : Handling(kind, w)' <=> Handling(kind, w)
  BY <1>3 DEF Handling
<1>8. ASSUME NEW w \in Uris, w # u
      PROVE  (Ordered(w) => Ordered(w)') /\ (Followed(w) => Followed(w)')
  <2>1. \A m \in TasksOf(w) : m # n /\ task'[m] = task[m]
    BY <1>1, <1>2, <1>4, <1>8 DEF TasksOf, Enter, TypeOK
  <2> QED BY <1>3, <1>6, <1>7, <1>8, <2>1, OthersStay
<1>9. n \in TasksOf(u) /\ \A m \in TasksOf(u) : m \in Texts
  BY <1>2, <1>6 DEF TasksOf
<1>10. ASSUME Ordered(u) PROVE Ordered(u)'
  <2>1. Handling("open", u) => ctx' = ctx
    <3>1. Handling("open", u) => TasksOf(u) = {}
      BY <1>10 DEF Ordered
    <3> QED BY <1>9, <3>1
  <2> QED BY <1>3, <1>5, <1>6, <1>7, <1>9, <1>10, <2>1 DEF Ordered
<1>11. ASSUME Ordered(u), Followed(u) PROVE Followed(u)'
  <2>1. \A m \in TasksOf(u) :
          task'[m].stage \in {"checked", "compiled"} => task'[m].version = latest[u]
    BY <1>4, <1>5, <1>9, <1>11 DEF Followed
  <2>2. ASSUME docs[u] # NoText, ~Handling("change", u) PROVE StoreIsFollowed(u)'
    <3>1. StoreIsFollowed(u)
      BY <1>11, <2>2 DEF Followed
    <3>2. CASE task[n].stage = "waiting"
      BY <1>3, <1>4, <1>5, <1>6, <1>9, <3>1, <3>2 DEF StoreIsFollowed
    <3>3. CASE task[n].stage # "waiting"
      <4>1. task[n].stage \in {"checked", "compiled"}
        BY <1>4, <3>3
      <4>2. docs[u] = n
        BY <1>2, <1>11, <3>1, <4>1, CheckedTaskIsStored
      <4>3. latest[u] # 0
        BY <1>9, <1>11 DEF Ordered
      <4>4. task[n].stage = "compiled" => ctx[u] = n
        BY <1>9, <3>1, <4>2, <4>3 DEF StoreIsFollowed
      <4>5. task'[n].stage \in {"compiled", "published"} => ctx'[u] = n
        BY <1>4, <1>5, <3>3, <4>4
      <4>6. task'[n].stage = "published" => shown'[u] = n
        BY <1>4, <1>5, <3>3
      <4> QED BY <1>3, <1>6, <1>9, <4>2, <4>5, <4>6 DEF StoreIsFollowed
    <3> QED BY <3>2, <3>3
  <2> QED BY <1>3, <1>6, <1>7, <2>1, <2>2 DEF Followed
<1>12. ClosingIsClosed'
  BY <1>3, <1>7 DEF CurrentInv, ClosingIsClosed
<1> QED BY <1>3, <1>8, <1>10, <1>11, <1>12 DEF CurrentInv

LEMMA StepKeepsCurrentInv == ASSUME Inv, CurrentInv, [Next]_vars PROVE CurrentInv'
<1>1. CASE UNCHANGED vars
  BY <1>1 DEF vars, CurrentInv, ClosingIsClosed, Ordered, Followed, StoreIsFollowed,
              Handling, TasksOf
<1>2. ASSUME NEW u \in Uris, OpenCompile(u) \/ ChangeStore(u) \/ CloseForget(u)
      PROVE  CurrentInv'
  BY <1>2, OpenCompileKeepsCurrent, ChangeStoreKeepsCurrent, CloseForgetKeepsCurrent
<1>3. CASE HandlerEnds
  BY <1>3, OpenPublishKeepsCurrent, ChangeScheduleKeepsCurrent, CloseInvalidateKeepsCurrent
    DEF HandlerEnds
<1>4. ASSUME NEW n \in Texts, TaskStep(n) PROVE CurrentInv'
  BY <1>4, TaskStepKeepsCurrent
<1> QED BY <1>1, <1>2, <1>3, <1>4 DEF Next, Idle

\* At rest the task of the text in the store has published it.
LEMMA CurrentWhenQuiet == ASSUME Inv, CurrentInv PROVE QuietServerIsCurrent
<1> SUFFICES ASSUME Quiet, NEW u \in Uris \ (raced \cup closed), docs[u] # NoText
             PROVE  shown[u] = docs[u] /\ ctx[u] = docs[u]
  BY DEF QuietServerIsCurrent, IsCurrent
<1>1. StoreIsFollowed(u)
  BY DEF CurrentInv, Followed, Quiet, Handling
<1>2. ASSUME NEW n \in TasksOf(u), docs[u] = n PROVE task[n].stage = "published"
  BY <1>2 DEF Quiet, TasksOf, Inv, SkippedMeansSuperseded
<1> QED BY <1>1, <1>2 DEF StoreIsFollowed

\* did_open, did_change and the debounce tasks leave a server that has nothing left
\* to do with the rows and diagnostics of the text it holds, except for documents
\* that were closed or had a version recorded while a task was past its check.
THEOREM QuietServersAreCurrent == Spec => []QuietServerIsCurrent
BY InitEstablishesInv, StepKeepsInv, InitEstablishesCurrentInv, StepKeepsCurrentInv,
   CurrentWhenQuiet, PTL DEF Spec
=============================================================================
