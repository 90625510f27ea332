----------------------------- MODULE Translator -----------------------------
(***************************************************************************)
(* The translation pipeline of crates/cobrust-translator: pipeline.rs,     *)
(* translate.rs, repair.rs and manifest.rs.                                *)
(*                                                                         *)
(* A run reads the specification, asks a model for every function, takes   *)
(* each emission through the behaviour gate and the performance gate, asks *)
(* again with the diagnostic of a rejection, and writes the crate and then *)
(* its manifest.  Runs follow one another over one output directory and    *)
(* one completion cache; a run may die, or fail, at every await point and  *)
(* between any two writes.                                                 *)
(*                                                                         *)
(* An emission is a value of which the gates know whether it is wrong or   *)
(* slow; the text of prompts is the fields they are formatted from.        *)
(***************************************************************************)
EXTENDS Integers, Sequences, FiniteSets, FiniteSetsExt

CONSTANTS
  Entries,     \* what spec.toml may say of a function
  Specs,       \* versions of spec.toml, each a sequence of entries
  Compared,    \* entries whose tier asks for a comparison with the oracle
  Emissions,   \* texts the model may answer with
  Wrong, Slow, \* those the oracle, and those the benchmark objects to
  Threshold,   \* escalation_threshold
  MaxRuns,     \* bound: calls of translate
  None, Torn

ASSUME TranslatorAssumption ==
  /\ Specs \subseteq Seq(Entries) /\ Compared \subseteq Entries
  /\ Wrong \subseteq Emissions /\ Slow \subseteq Emissions
  /\ Threshold \in Nat /\ MaxRuns \in Nat

Gates == {"behavior", "perf"}

VARIABLES
  spec,      \* spec.toml as it is now
  cache,     \* the completion cache: a set of [prompt, text]
  phase,     \* next await point or write of the run, "idle" between runs
  wired,     \* the gates with a verifier that is not a no-op
  plan,      \* the specification this run has read
  units,     \* functions translated so far: text and decision id of each
  idx,       \* the function being dispatched or checked
  attempt,   \* its attempt, from 1
  failure,   \* the rejection in hand, or None
  divergences,  \* rendered rejections of the behaviour gate, in this run
  faulted,   \* history: has the oracle failed in this run?
  crate,     \* src/parser.rs: the emissions, or None
  manifest,  \* PROVENANCE.toml: None, Torn, or what it records
  report,    \* failure_report.md: the function it names, or None
  files,     \* files in diagnostics/, as pairs of function and attempt
  runs,      \* calls of translate so far
  finished   \* history: what successful runs have returned

vars == <<spec, cache, phase, wired, plan, units, idx, attempt, failure,
          divergences, faulted, crate, manifest, report, files, runs, finished>>
disk == <<crate, manifest, report, files>>

Functions == 1..Max({Len(s) : s \in Specs} \cup {0})

Rejection == [fn : Functions, attempt : Nat, gate : Gates,
              text : Emissions \cup {None}]
Prompt == [fn : Functions, attempt : Nat, about : Entries \cup Rejection]
Unit == [text : Emissions, id : Prompt \cup [fn : Functions, attempt : {1}]]
Record == [units : Seq(Unit), divergences : Seq(Rejection), wired : SUBSET Gates]
\* A manifest that was cut short records nothing.
ASSUME TornIsNoRecord == Torn \notin Record

Phases == {"idle", "l1", "gate", "repair", "write", "manifest", "sealing", "validate"}

TypeOK ==
  /\ spec \in Specs
  /\ phase \in Phases
  /\ wired \subseteq Gates
  /\ plan \in Specs
  /\ units \in Seq(Unit)
  /\ idx \in Nat \ {0} /\ attempt \in Nat \ {0}
  /\ failure \in Rejection \cup {None}
  /\ divergences \in Seq(Rejection)
  /\ crate \in Seq(Emissions) \cup {None}
  /\ manifest \in Record \cup {None, Torn}
  /\ report \in Functions \cup {None}
  /\ files \subseteq Functions \X Nat
  /\ \A e \in cache : e.prompt \in Prompt /\ e.text \in Emissions

Init ==
  /\ spec \in Specs
  /\ cache = {}
  /\ phase = "idle" /\ wired = {} /\ plan = spec /\ units = <<>>
  /\ idx = 1 /\ attempt = 1 /\ failure = None
  /\ divergences = <<>> /\ faulted = FALSE
  /\ crate = None /\ manifest = None /\ report = None /\ files = {}
  /\ runs = 0 /\ finished = {}

----------------------------------------------------------------------------
(* The world around a run *)

EditSpec ==
  /\ spec' \in Specs \ {spec}
  /\ UNCHANGED <<cache, phase, wired, plan, units, idx, attempt, failure,
                 divergences, faulted, disk, runs, finished>>

\* The run ends: everything it held in memory is gone.
Leave ==
  /\ phase' = "idle" /\ units' = <<>> /\ idx' = 1 /\ attempt' = 1
  /\ failure' = None /\ divergences' = <<>> /\ faulted' = FALSE
  /\ wired' = {}
  /\ UNCHANGED plan

\* A dispatch or a write fails and the error is returned, or the process dies.
Abort ==
  /\ phase # "idle"
  /\ Leave
  /\ UNCHANGED <<spec, cache, disk, runs, finished>>

\* Mutant of Answer: the cache is filled and never asked.
AnswerAfresh(prompt, text) == cache' = cache \cup {[prompt |-> prompt, text |-> text]}

\* Router::dispatch over one provider (build_router registers the synthetic one
\* under every name): a prompt that was answered before is answered from the
\* cache with the same text.
Answer(prompt, text) ==
  /\ \A e \in cache : e.prompt = prompt => e.text = text
  /\ cache' = cache \cup {[prompt |-> prompt, text |-> text]}

----------------------------------------------------------------------------
(* L0 and L1 *)

\* translate reads the specification; the caller has chosen the verifiers.
Begin ==
  /\ phase = "idle" /\ runs < MaxRuns
  /\ plan' = spec
  /\ wired' \in SUBSET Gates
  /\ phase' = IF spec = <<>> THEN "write" ELSE "l1"
  /\ runs' = runs + 1
  /\ UNCHANGED <<spec, cache, units, idx, attempt, failure, divergences,
                 faulted, disk, finished>>

\* router_request_for_id: the decision id of a first attempt hashes a request
\* with an empty body, not the one that was sent.
FirstId(f) == [fn |-> f, attempt |-> 1]

FirstPrompt(f) == [fn |-> f, attempt |-> 1, about |-> plan[f]]

Dispatch ==
  /\ phase = "l1"
  /\ \E text \in Emissions :
       /\ Answer(FirstPrompt(idx), text)
       /\ units' = Append(units, [text |-> text, id |-> FirstId(idx)])
  /\ IF idx < Len(plan) THEN idx' = idx + 1 /\ UNCHANGED phase
                        ELSE idx' = 1 /\ phase' = "gate"
  /\ UNCHANGED <<spec, wired, plan, attempt, failure, divergences, faulted,
                 disk, runs, finished>>

----------------------------------------------------------------------------
(* L2: gates and repair *)

\* TierVerifier asks the oracle only about entries of a comparing tier.
AsksOracle(f) == "behavior" \in wired /\ plan[f] \in Compared

\* Mutant of Objections: a function that was repaired is not compared again.
ObjectionsOnce(f) ==
  IF AsksOracle(f) /\ units[f].text \in Wrong /\ attempt = 1 THEN {"behavior"}
  ELSE IF "perf" \in wired /\ units[f].text \in Slow THEN {"perf"}
  ELSE {}

\* The performance gate is asked only about what the behaviour gate accepts.
Objections(f) ==
  IF AsksOracle(f) /\ units[f].text \in Wrong THEN {"behavior"}
  ELSE IF "perf" \in wired /\ units[f].text \in Slow THEN {"perf"}
  ELSE {}

NextFunction ==
  IF idx < Len(plan)
    THEN idx' = idx + 1 /\ attempt' = 1 /\ UNCHANGED phase
    ELSE phase' = "write" /\ UNCHANGED <<idx, attempt>>

\* Both gates accept.
Accept ==
  /\ phase = "gate" /\ Objections(idx) = {}
  /\ NextFunction
  /\ UNCHANGED <<spec, cache, wired, plan, units, failure, divergences, faulted,
                 disk, runs, finished>>

\* The oracle has no observation to offer: accepted unseen.
AcceptUnseen ==
  /\ phase = "gate" /\ AsksOracle(idx)
  /\ ~("perf" \in wired /\ units[idx].text \in Slow)
  /\ faulted' = TRUE
  /\ NextFunction
  /\ UNCHANGED <<spec, cache, wired, plan, units, failure, divergences,
                 disk, runs, finished>>

\* Mutant of Rendered: every rejection counts as a divergence.
RenderedAlways(r) == Append(divergences, r)

\* Only what the behaviour gate saw is a divergence.
Rendered(r) == IF r.gate = "behavior" THEN Append(divergences, r) ELSE divergences

Exhausted == attempt >= Threshold

\* The diagnostic is written; the run then escalates, with a report, or asks
\* for another emission.
Reject(gate, seen) ==
  LET r == [fn |-> idx, attempt |-> attempt + 1, gate |-> gate, text |-> seen]
  IN  /\ phase = "gate"
      /\ files' = files \cup {<<idx, attempt + 1>>}
      /\ IF Exhausted
           THEN Leave /\ report' = idx
           ELSE /\ failure' = r /\ phase' = "repair"
                /\ divergences' = Rendered(r)
                /\ faulted' = (faulted \/ seen = None)
                /\ UNCHANGED <<wired, plan, units, idx, attempt, report>>
      /\ UNCHANGED <<spec, cache, crate, manifest, runs, finished>>

\* An oracle that fails is a rejection like any other, of an emission that
\* nobody has run.
Object ==
  \/ phase = "gate" /\ \E gate \in Objections(idx) : Reject(gate, units[idx].text)
  \/ phase = "gate" /\ AsksOracle(idx) /\ Reject("behavior", None)

RepairPrompt == [fn |-> failure.fn, attempt |-> failure.attempt, about |-> failure]

\* Mutant of Repair: the loop forgets which attempt it is in.
RepairInPlace ==
  /\ phase = "repair"
  /\ \E text \in Emissions :
       /\ Answer(RepairPrompt, text)
       /\ units' = [units EXCEPT ![idx] = [text |-> text, id |-> RepairPrompt]]
  /\ failure' = None /\ phase' = "gate"
  /\ UNCHANGED <<spec, wired, plan, idx, attempt, divergences, faulted, disk, runs, finished>>

\* Mutant of Repair: the decision id of the first attempt is kept.
RepairKeepingId ==
  /\ phase = "repair"
  /\ \E text \in Emissions :
       /\ Answer(RepairPrompt, text)
       /\ units' = [units EXCEPT ![idx].text = text]
  /\ attempt' = attempt + 1
  /\ failure' = None /\ phase' = "gate"
  /\ UNCHANGED <<spec, wired, plan, idx, divergences, faulted, disk, runs, finished>>

\* repair_translation_with_task; the new emission replaces the old one, and
\* the decision id is that of the prompt that was sent.
Repair ==
  /\ phase = "repair"
  /\ \E text \in Emissions :
       /\ Answer(RepairPrompt, text)
       /\ units' = [units EXCEPT ![idx] = [text |-> text, id |-> RepairPrompt]]
  /\ attempt' = attempt + 1
  /\ failure' = None /\ phase' = "gate"
  /\ UNCHANGED <<spec, wired, plan, idx, divergences, faulted, disk, runs, finished>>

----------------------------------------------------------------------------
(* Writing *)

\* Mutant of Texts: the last function is left out.
TextsButOne == [i \in 1..(Len(units) - 1) |-> units[i].text]

Texts == [i \in DOMAIN units |-> units[i].text]

\* write_crate: files of an earlier run are overwritten, none is removed.
WriteCrate ==
  /\ phase = "write"
  /\ crate' = Texts
  /\ phase' = "manifest"
  /\ UNCHANGED <<spec, cache, wired, plan, units, idx, attempt, failure, divergences,
                 faulted, manifest, report, files, runs, finished>>

\* std::fs::write truncates, then writes.
TruncateManifest ==
  /\ phase = "manifest"
  /\ manifest' = Torn
  /\ phase' = "sealing"
  /\ UNCHANGED <<spec, cache, wired, plan, units, idx, attempt, failure, divergences,
                 faulted, crate, report, files, runs, finished>>

WriteManifest ==
  /\ phase = "sealing"
  /\ manifest' = [units |-> units, divergences |-> divergences, wired |-> wired]
  /\ phase' = "validate"
  /\ UNCHANGED <<spec, cache, wired, plan, units, idx, attempt, failure, divergences,
                 faulted, crate, report, files, runs, finished>>

\* deterministic_id: a digest of the decision ids, in no particular order.
DeterministicId(us) == {us[i].id : i \in DOMAIN us}

\* validate refuses a manifest without emissions, which is then on disk.
Return ==
  /\ phase = "validate"
  /\ finished' = IF units = <<>> THEN finished
                 ELSE finished \cup {[plan |-> plan, wired |-> wired, units |-> units,
                                      divergences |-> divergences, faulted |-> faulted]}
  /\ Leave
  /\ UNCHANGED <<spec, cache, disk, runs>>

Step ==
  \/ Dispatch \/ Accept \/ AcceptUnseen \/ Object \/ Repair
  \/ WriteCrate \/ TruncateManifest \/ WriteManifest \/ Return

Next == EditSpec \/ Begin \/ Abort \/ Step

\* A run goes on until it returns: the provider, the oracle and the file
\* system answer.  Nobody has to start one.
Spec == Init /\ [][Next]_vars /\ WF_vars(Step)

----------------------------------------------------------------------------
(* Properties *)

\* What a successful run ships has passed the gates that were wired, in the
\* form in which it is shipped: neither the repair of one function, nor its
\* second gate, lets an emission through that the other gate would reject.
ShippedCodePassedTheGates ==
  \A r \in finished : \A i \in DOMAIN r.units :
    /\ "perf" \in r.wired => r.units[i].text \notin Slow
    /\ "behavior" \in r.wired /\ r.plan[i] \in Compared /\ ~r.faulted =>
         r.units[i].text \notin Wrong

\* docs/agent/adr/0082: one record per behaviour rejection that was repaired,
\* none for the others.  So the records of a function are as many as its
\* repairs unless the performance gate has caused some of them.
DivergencesExplainRepairs ==
  \A r \in finished : \A i \in DOMAIN r.units :
    LET records == {k \in DOMAIN r.divergences : r.divergences[k].fn = i}
        repairs == r.units[i].id.attempt - 1
    IN  /\ Cardinality(records) <= repairs
        /\ "perf" \notin r.wired => Cardinality(records) = repairs
        /\ "behavior" \notin r.wired => records = {}
        /\ \A k \in records : r.divergences[k].text \in Wrong \cup {None}

\* An earlier run's manifest is replaced only by a run in which every function
\* was accepted, and then together with the code: at rest, or after a crash,
\* a whole manifest beside other code than it describes means that a run got
\* as far as the crate and no further.
ManifestsFollowAcceptance ==
  [][/\ manifest' \in Record => manifest' = manifest
          \/ crate = [i \in DOMAIN manifest'.units |-> manifest'.units[i].text]
     /\ crate' # crate => Len(crate') = Len(plan) /\ report' = report
     /\ report' # report => crate' = crate /\ manifest' = manifest]_vars

\* The run repeats: with the same specification and the same gates, an oracle
\* that does not fail, and the completion cache kept, a later run returns the
\* same crate, the same identifier and the same divergences.
RunsAreReproducible ==
  \A r, q \in finished :
    r.plan = q.plan /\ r.wired = q.wired /\ ~r.faulted /\ ~q.faulted =>
      r.units = q.units /\ r.divergences = q.divergences

\* Every run ends.
RunsEnd == phase # "idle" ~> phase = "idle"

\* docs/agent/adr/0007:113 and :408: the identifier is "the load-bearing
\* reproducibility token" and "makes 'did the translation change?' a one-grep
\* question".  As long as the specification is the same, it does, whichever
\* gates were wired and whatever they found: with the same identifier, the same
\* code was shipped.
IdsIdentifyTranslations ==
  \A r, q \in finished :
    r.plan = q.plan /\ DeterministicId(r.units) = DeterministicId(q.units) =>
      \A i \in DOMAIN r.units : r.units[i].text = q.units[i].text
=============================================================================
