-------------------------- MODULE TranslatorProof --------------------------
(***************************************************************************)
(* What the translation pipeline ships, for any specifications, emissions, *)
(* gates, threshold and number of runs.                                    *)
(*                                                                         *)
(* Functions before the one at the gate are accepted as they are, later    *)
(* ones have not been repaired, and the one at the gate has been repaired  *)
(* once per attempt; a rejection in hand is one record and one repair that *)
(* is still owed.                                                          *)
(*                                                                         *)
(* Runs are compared through the completion cache, which has one text for  *)
(* each prompt.                                                            *)
(***************************************************************************)
EXTENDS TLAPS, FiniteSetTheorems, WellFoundedInduction, Translator

\* Types without the bounds on the number of functions.
SomeRejection == [fn : Nat, attempt : Nat, gate : Gates, text : Emissions \cup {None}]
SomeId == [fn : Nat, attempt : Nat] \cup [fn : Nat, attempt : Nat, about : SomeRejection]
SomeUnit == [text : Emissions, id : SomeId]

RunTypes ==
  /\ spec \in Seq(Entries) /\ plan \in Seq(Entries)
  /\ wired \subseteq Gates
  /\ phase \in Phases
  /\ units \in Seq(SomeUnit)
  /\ idx \in Nat \ {0} /\ attempt \in Nat \ {0}
  /\ divergences \in Seq(SomeRejection)

\* Where the run is tells how much of the library there is.
Progress ==
  /\ phase = "idle" => units = <<>> /\ idx = 1 /\ attempt = 1 /\ divergences = <<>>
  /\ phase = "l1" =>
       /\ Len(units) = idx - 1 /\ idx <= Len(plan)
       /\ attempt = 1 /\ divergences = <<>>
       /\ \A i \in 1..Len(units) : units[i].id.attempt = 1
  /\ phase \in {"gate", "repair"} =>
       /\ Len(units) = Len(plan) /\ idx <= Len(plan)
       /\ units[idx].id.attempt = attempt
       /\ \A i \in 1..Len(units) : i > idx => units[i].id.attempt = 1
  /\ phase = "repair" => failure \in SomeRejection /\ failure.attempt = attempt + 1
  /\ phase \in {"write", "manifest", "sealing", "validate"} => Len(units) = Len(plan)

\* A function that the wired gates have let through.
LetThrough(i) ==
  /\ "perf" \in wired => units[i].text \notin Slow
  /\ "behavior" \in wired /\ plan[i] \in Compared /\ ~faulted => units[i].text \notin Wrong

AcceptedSoFar ==
  /\ phase \in {"gate", "repair"} => \A i \in 1..Len(units) : i < idx => LetThrough(i)
  /\ phase \in {"write", "manifest", "sealing", "validate"} =>
       \A i \in 1..Len(units) : LetThrough(i)

Records(ds, i) == {k \in DOMAIN ds : ds[k].fn = i}

\* Repairs made, and the one that is owed.
Due(i) == units[i].id.attempt - 1 + (IF phase = "repair" /\ i = idx THEN 1 ELSE 0)

\* What the records of function i may say, when n repairs were caused.
Explains(ds, gates, i, n) ==
  /\ IsFiniteSet(Records(ds, i))
  /\ Cardinality(Records(ds, i)) <= n
  /\ "perf" \notin gates => Cardinality(Records(ds, i)) = n
  /\ "behavior" \notin gates => Records(ds, i) = {}
  /\ \A k \in Records(ds, i) : ds[k].text \in Wrong \cup {None}

RepairsAreExplained ==
  \A i \in 1..Len(units) : Explains(divergences, wired, i, Due(i))

\* Once the crate is written it is what the run holds.
CrateIsCurrent ==
  phase \in {"manifest", "sealing", "validate"} => crate = Texts

Inv ==
  /\ RunTypes
  /\ Progress
  /\ AcceptedSoFar
  /\ RepairsAreExplained
  /\ CrateIsCurrent
  /\ ShippedCodePassedTheGates
  /\ DivergencesExplainRepairs

runVars == <<phase, wired, plan, units, idx, attempt, failure, divergences, faulted>>

----------------------------------------------------------------------------
\* Sequences, as far as they are needed.
LEMMA SeqFacts ==
  ASSUME NEW S, NEW s \in Seq(S)
  PROVE  /\ Len(s) \in Nat /\ DOMAIN s = 1..Len(s)
         /\ \A i \in 1..Len(s) : s[i] \in S
         /\ \A e \in S :
              /\ Append(s, e) \in Seq(S) /\ Len(Append(s, e)) = Len(s) + 1
              /\ Append(s, e)[Len(s) + 1] = e
              /\ \A i \in 1..Len(s) : Append(s, e)[i] = s[i]
         /\ \A e \in S, i \in 1..Len(s) :
              /\ [s EXCEPT ![i] = e] \in Seq(S) /\ Len([s EXCEPT ![i] = e]) = Len(s)
OBVIOUS

\* A unit has a text and the attempt that brought it.
LEMMA UnitFacts ==
  ASSUME NEW us \in Seq(SomeUnit), NEW i \in 1..Len(us)
  PROVE  us[i].text \in Emissions /\ us[i].id.attempt \in Nat
<1>1. us[i] \in SomeUnit
  OBVIOUS
<1>2. us[i].id \in SomeId /\ us[i].text \in Emissions
  BY <1>1 DEF SomeUnit
<1>3. us[i].id.attempt \in Nat
  BY <1>2 DEF SomeId
<1> QED BY <1>2, <1>3

\* There are no records before the first rejection.
LEMMA NoRecords ==
  ASSUME NEW gates, NEW i
  PROVE  Explains(<<>>, gates, i, 0)
<1>1. Records(<<>>, i) = {}
  BY DEF Records
<1> QED BY <1>1, FS_EmptySet DEF Explains

\* One more record is one more repair of its function.
LEMMA OneMoreRecord ==
  ASSUME NEW ds \in Seq(SomeRejection), NEW r \in SomeRejection, NEW gates,
         NEW i, NEW n \in Nat, Explains(ds, gates, i, n),
         "behavior" \in gates, r.text \in Wrong \cup {None}
  PROVE  Explains(Append(ds, r), gates, i, IF r.fn = i THEN n + 1 ELSE n)
<1> DEFINE more == Append(ds, r)
<1>1. /\ Len(ds) \in Nat /\ DOMAIN ds = 1..Len(ds)
      /\ DOMAIN more = 1..(Len(ds) + 1) /\ more[Len(ds) + 1] = r
      /\ \A k \in 1..Len(ds) : more[k] = ds[k]
  OBVIOUS
<1> HIDE DEF more
<1>2. CASE r.fn # i
  <2>1. Records(more, i) = Records(ds, i)
    BY <1>1, <1>2 DEF Records
  <2>2. \A k \in Records(ds, i) : more[k] = ds[k]
    BY <1>1 DEF Records
  <2> QED BY <1>2, <2>1, <2>2 DEF Explains, more
<1>3. CASE r.fn = i
  <2>1. Records(more, i) = Records(ds, i) \cup {Len(ds) + 1} /\ Len(ds) + 1 \notin Records(ds, i)
    BY <1>1, <1>3 DEF Records
  <2>2. IsFiniteSet(Records(ds, i)) /\ Cardinality(Records(ds, i)) \in Nat
    BY FS_CardinalityType DEF Explains
  <2>3. /\ IsFiniteSet(Records(more, i))
        /\ Cardinality(Records(more, i)) = Cardinality(Records(ds, i)) + 1
    BY <2>1, <2>2, FS_AddElement
  <2>4. \A k \in Records(more, i) : more[k].text \in Wrong \cup {None}
    BY <1>1, <2>1 DEF Explains, Records
  <2>5. /\ Cardinality(Records(more, i)) <= n + 1
        /\ "perf" \notin gates => Cardinality(Records(more, i)) = n + 1
    BY <2>2, <2>3 DEF Explains
  <2> QED BY <1>3, <2>3, <2>4, <2>5 DEF Explains, more
<1> QED BY <1>2, <1>3

\* A repair by the performance gate needs no record.
LEMMA OneMoreRepair ==
  ASSUME NEW ds, NEW gates, NEW i, NEW n \in Nat,
         Explains(ds, gates, i, n), "perf" \in gates
  PROVE  Explains(ds, gates, i, n + 1)
<1>1. Cardinality(Records(ds, i)) \in Nat
  BY FS_CardinalityType DEF Explains
<1> QED BY <1>1 DEF Explains

----------------------------------------------------------------------------
\* Nothing has been asked and nothing is on disk.
LEMMA InitEstablishesInv == ASSUME Init PROVE Inv
<1>1. spec \in Seq(Entries) /\ plan \in Seq(Entries)
  BY TranslatorAssumption DEF Init
<1>2. RunTypes
  BY <1>1 DEF Init, RunTypes, Phases
<1>3. Progress /\ AcceptedSoFar /\ RepairsAreExplained /\ CrateIsCurrent
  BY DEF Init, Progress, AcceptedSoFar, RepairsAreExplained, CrateIsCurrent
<1>4. ShippedCodePassedTheGates /\ DivergencesExplainRepairs
  BY DEF Init, ShippedCodePassedTheGates, DivergencesExplainRepairs
<1> QED BY <1>2, <1>3, <1>4 DEF Inv

\* What has been returned stays so.
LEMMA ReturnedStays ==
  ASSUME Inv, finished' = finished
  PROVE  ShippedCodePassedTheGates' /\ DivergencesExplainRepairs'
BY DEF Inv, ShippedCodePassedTheGates, DivergencesExplainRepairs

\* A step that is not of the run.
LEMMA RunUntouched ==
  ASSUME Inv, UNCHANGED runVars, spec' \in Seq(Entries), crate' = crate, finished' = finished
  PROVE  Inv'
<1> USE DEF runVars
<1>1. RunTypes'
  BY DEF Inv, RunTypes
<1>2. Progress' /\ AcceptedSoFar' /\ CrateIsCurrent'
  BY DEF Inv, Progress, AcceptedSoFar, LetThrough, CrateIsCurrent, Texts
<1>3. RepairsAreExplained'
  BY DEF Inv, RepairsAreExplained, Due
<1> QED BY <1>1, <1>2, <1>3, ReturnedStays DEF Inv

\* A run that ends leaves nothing behind but the disk.
LEMMA LeaveIsIdle ==
  ASSUME Inv, Leave, spec' = spec
  PROVE  RunTypes' /\ Progress' /\ AcceptedSoFar' /\ RepairsAreExplained' /\ CrateIsCurrent'
<1>1. RunTypes'
  BY DEF Inv, RunTypes, Leave, Phases
<1>2. Progress' /\ AcceptedSoFar' /\ RepairsAreExplained' /\ CrateIsCurrent'
  BY DEF Leave, Progress, AcceptedSoFar, RepairsAreExplained, CrateIsCurrent
<1> QED BY <1>1, <1>2

LEMMA BeginKeepsInv == ASSUME Inv, Begin PROVE Inv'
<1>0. /\ phase = "idle" /\ units = <<>> /\ idx = 1 /\ attempt = 1 /\ divergences = <<>>
      /\ units' = units /\ idx' = idx /\ attempt' = attempt /\ divergences' = divergences
      /\ plan' = spec /\ wired' \subseteq Gates /\ spec' = spec /\ spec \in Seq(Entries)
      /\ phase' = IF spec = <<>> THEN "write" ELSE "l1"
  BY DEF Inv, Progress, Begin, RunTypes
<1>1. RunTypes'
  BY <1>0 DEF Inv, RunTypes, Phases
<1>2. Progress'
  BY <1>0 DEF Progress
<1>3. AcceptedSoFar' /\ RepairsAreExplained' /\ CrateIsCurrent'
  BY <1>0 DEF AcceptedSoFar, RepairsAreExplained, CrateIsCurrent
<1> QED BY <1>1, <1>2, <1>3, ReturnedStays DEF Inv, Begin

LEMMA DispatchKeepsInv == ASSUME Inv, Dispatch PROVE Inv'
<1>1. PICK text \in Emissions : units' = Append(units, [text |-> text, id |-> FirstId(idx)])
  BY DEF Dispatch
<1> DEFINE u == [text |-> text, id |-> FirstId(idx)]
<1>2. /\ phase = "l1" /\ Len(units) = idx - 1 /\ idx <= Len(plan) /\ attempt = 1
      /\ divergences = <<>> /\ \A i \in 1..Len(units) : units[i].id.attempt = 1
      /\ units \in Seq(SomeUnit) /\ idx \in Nat \ {0} /\ plan \in Seq(Entries)
  BY DEF Inv, Progress, RunTypes, Dispatch
<1>3. u \in SomeUnit /\ u.id.attempt = 1
  BY <1>2 DEF SomeUnit, SomeId, FirstId
<1> HIDE DEF u
<1>4. /\ units' \in Seq(SomeUnit) /\ Len(units') = idx
      /\ \A i \in 1..Len(units') : units'[i].id.attempt = 1
  <2>1. /\ units' \in Seq(SomeUnit) /\ Len(units') = Len(units) + 1
        /\ units'[Len(units) + 1] = u
        /\ \A i \in 1..Len(units) : units'[i] = units[i]
    BY <1>1, <1>2, <1>3, SeqFacts DEF u
  <2> QED BY <1>2, <1>3, <2>1
<1>5. /\ plan' = plan /\ attempt' = attempt /\ divergences' = divergences /\ wired' = wired
      /\ spec' = spec /\ finished' = finished
      /\ \/ idx < Len(plan) /\ idx' = idx + 1 /\ phase' = "l1"
         \/ idx = Len(plan) /\ idx' = 1 /\ phase' = "gate"
  <2>1. Len(plan) \in Nat
    BY <1>2
  <2> QED BY <1>2, <2>1 DEF Dispatch
<1>6. RunTypes'
  BY <1>2, <1>4, <1>5 DEF Inv, RunTypes, Phases
<1>7. Progress'
  BY <1>2, <1>4, <1>5 DEF Progress
<1>8. AcceptedSoFar' /\ CrateIsCurrent'
  BY <1>4, <1>5 DEF AcceptedSoFar, CrateIsCurrent
<1>9. RepairsAreExplained'
  <2>1. \A i \in 1..Len(units') : Due(i)' = 0
    BY <1>4, <1>5 DEF Due
  <2>2. divergences' = <<>>
    BY <1>2, <1>5
  <2> QED BY <2>1, <2>2, NoRecords DEF RepairsAreExplained
<1> QED BY <1>5, <1>6, <1>7, <1>8, <1>9, ReturnedStays DEF Inv

\* The function at the gate is let through, with or without having been seen.
LEMMA AcceptanceKeepsInv ==
  ASSUME Inv, phase = "gate", NextFunction,
         UNCHANGED <<spec, wired, plan, units, divergences, finished>>,
         NEW f, f = idx, LetThrough(f)', faulted => faulted'
  PROVE  Inv'
<1>1. /\ Len(units) = Len(plan) /\ idx <= Len(plan) /\ units[idx].id.attempt = attempt
      /\ \A i \in 1..Len(units) : i > idx => units[i].id.attempt = 1
      /\ \A i \in 1..Len(units) : i < idx => LetThrough(i)
      /\ idx \in Nat \ {0} /\ attempt \in Nat \ {0} /\ Len(units) \in Nat
      /\ units \in Seq(SomeUnit)
  BY SeqFacts DEF Inv, Progress, AcceptedSoFar, RunTypes
<1>2. \/ idx < Len(plan) /\ idx' = idx + 1 /\ attempt' = 1 /\ phase' = "gate"
      \/ idx = Len(plan) /\ phase' = "write" /\ idx' = idx /\ attempt' = attempt
  BY <1>1 DEF NextFunction
<1>3. \A i \in 1..Len(units) : i <= idx => LetThrough(i)'
  <2>1. \A i \in 1..Len(units) : LetThrough(i) => LetThrough(i)'
    BY DEF LetThrough
  <2>2. \A i \in 1..Len(units) : i <= idx => i < idx \/ i = f
    BY <1>1
  <2> QED BY <1>1, <2>1, <2>2
<1>4. RunTypes'
  BY <1>1, <1>2 DEF Inv, RunTypes, Phases
<1>5. Progress'
  BY <1>1, <1>2 DEF Progress
<1>6. AcceptedSoFar' /\ CrateIsCurrent'
  <2>1. CASE phase' = "gate"
    <3>1. \A i \in 1..Len(units) : i < idx' => i <= idx
      BY <1>1, <1>2, <2>1
    <3> QED BY <1>3, <2>1, <3>1 DEF AcceptedSoFar, CrateIsCurrent
  <2>2. CASE phase' = "write"
    BY <1>1, <1>2, <1>3, <2>2 DEF AcceptedSoFar, CrateIsCurrent
  <2> QED BY <1>2, <2>1, <2>2
<1>7. RepairsAreExplained'
  <2>1. \A i \in 1..Len(units) : Due(i)' = Due(i)
    BY <1>2 DEF Due
  <2> QED BY <2>1 DEF Inv, RepairsAreExplained
<1> QED BY <1>4, <1>5, <1>6, <1>7, ReturnedStays DEF Inv

LEMMA AcceptKeepsInv == ASSUME Inv, Accept PROVE Inv'
<1> PICK f : f = idx
  OBVIOUS
<1>1. /\ "perf" \in wired => units[f].text \notin Slow
      /\ "behavior" \in wired /\ plan[f] \in Compared => units[f].text \notin Wrong
  BY DEF Accept, Objections, AsksOracle
<1>2. LetThrough(f)'
  BY <1>1 DEF Accept, LetThrough
<1> QED BY <1>2, AcceptanceKeepsInv DEF Accept

LEMMA AcceptUnseenKeepsInv == ASSUME Inv, AcceptUnseen PROVE Inv'
<1> PICK f : f = idx
  OBVIOUS
<1>1. LetThrough(f)'
  BY DEF AcceptUnseen, LetThrough
<1> QED BY <1>1, AcceptanceKeepsInv DEF AcceptUnseen

----------------------------------------------------------------------------
\* A rejection that is not the last one becomes the one in hand.
LEMMA RejectKeepsInv ==
  ASSUME Inv, NEW gate \in Gates, NEW seen \in Emissions \cup {None}, Reject(gate, seen),
         gate \in wired, gate = "behavior" => seen \in Wrong \cup {None}
  PROVE  Inv'
<1>1. phase = "gate" /\ spec' = spec /\ crate' = crate /\ finished' = finished
  BY DEF Reject
<1>2. CASE Exhausted
  BY <1>1, <1>2, LeaveIsIdle, ReturnedStays DEF Reject, Inv
<1>3. CASE ~Exhausted
  <2> DEFINE r == [fn |-> idx, attempt |-> attempt + 1, gate |-> gate, text |-> seen]
  <2>1. /\ failure' = r /\ phase' = "repair" /\ divergences' = Rendered(r)
        /\ wired' = wired /\ plan' = plan /\ units' = units /\ idx' = idx
        /\ attempt' = attempt /\ (faulted => faulted')
    BY <1>3 DEF Reject
  <2>2. /\ Len(units) = Len(plan) /\ idx <= Len(plan) /\ units[idx].id.attempt = attempt
        /\ \A i \in 1..Len(units) : i > idx => units[i].id.attempt = 1
        /\ \A i \in 1..Len(units) : i < idx => LetThrough(i)
        /\ idx \in Nat \ {0} /\ attempt \in Nat \ {0} /\ Len(units) \in Nat
        /\ units \in Seq(SomeUnit) /\ divergences \in Seq(SomeRejection)
    BY <1>1, SeqFacts DEF Inv, Progress, AcceptedSoFar, RunTypes
  <2>3. /\ r \in SomeRejection /\ r.attempt = attempt + 1 /\ r.fn = idx
        /\ r.gate = gate /\ r.text = seen
    BY <2>2 DEF SomeRejection
  <2> HIDE DEF r
  <2>4. divergences' \in Seq(SomeRejection)
    BY <2>1, <2>2, <2>3 DEF Rendered
  <2>5. RunTypes'
    BY <1>1, <2>1, <2>4 DEF Inv, RunTypes, Phases
  <2>6. Progress'
    BY <2>1, <2>2, <2>3 DEF Progress
  <2>7. AcceptedSoFar' /\ CrateIsCurrent'
    <3>1. \A i \in 1..Len(units) : LetThrough(i) => LetThrough(i)'
      BY <2>1 DEF LetThrough
    <3> QED BY <2>1, <2>2, <3>1 DEF AcceptedSoFar, CrateIsCurrent
  <2>8. RepairsAreExplained'
    <3>1. ASSUME NEW i \in 1..Len(units) PROVE Explains(divergences', wired, i, Due(i)')
      <4>1. /\ Due(i) = units[i].id.attempt - 1
            /\ Due(i)' = IF i = idx THEN Due(i) + 1 ELSE Due(i)
        <5>1. Due(i) = units[i].id.attempt - 1 + 0
          BY <1>1 DEF Due
        <5>2. Due(i)' = units[i].id.attempt - 1 + (IF i = idx THEN 1 ELSE 0)
          BY <2>1 DEF Due
        <5>3. units[i].id.attempt \in Nat
          BY <2>2, UnitFacts
        <5> QED BY <5>1, <5>2, <5>3
      <4>2. Explains(divergences, wired, i, Due(i))
        BY DEF Inv, RepairsAreExplained
      <4>3. Due(i) \in Nat
        <5>1. units[i].id.attempt \in Nat
          BY <2>2, UnitFacts
        <5>2. Cardinality(Records(divergences, i)) \in Nat
          BY <4>2, FS_CardinalityType DEF Explains
        <5>3. Cardinality(Records(divergences, i)) <= Due(i)
          BY <4>2 DEF Explains
        <5> QED BY <4>1, <5>1, <5>2, <5>3
      <4>4. CASE gate = "behavior"
        <5>1. divergences' = Append(divergences, r)
          BY <2>1, <2>3, <4>4 DEF Rendered
        <5>2. Explains(Append(divergences, r), wired, i, IF r.fn = i THEN Due(i) + 1 ELSE Due(i))
          BY <2>2, <2>3, <4>2, <4>3, <4>4, OneMoreRecord
        <5> QED BY <2>3, <4>1, <5>1, <5>2
      <4>5. CASE gate # "behavior"
        <5>1. divergences' = divergences /\ "perf" \in wired
          BY <2>1, <2>3, <4>5 DEF Rendered, Gates
        <5> QED BY <4>1, <4>2, <4>3, <5>1, OneMoreRepair
      <4> QED BY <4>4, <4>5
    <3> QED BY <2>1, <3>1 DEF RepairsAreExplained
  <2> QED BY <1>1, <2>5, <2>6, <2>7, <2>8, ReturnedStays DEF Inv
<1> QED BY <1>2, <1>3

LEMMA ObjectKeepsInv == ASSUME Inv, Object PROVE Inv'
<1>1. CASE phase = "gate" /\ \E gate \in Objections(idx) : Reject(gate, units[idx].text)
  <2>1. PICK gate \in Objections(idx) : Reject(gate, units[idx].text)
    BY <1>1
  <2>2. /\ gate \in Gates /\ gate \in wired
        /\ gate = "behavior" => units[idx].text \in Wrong
    BY DEF Objections, AsksOracle, Gates
  <2>3. units[idx].text \in Emissions
    <3>1. idx \in 1..Len(units) /\ units \in Seq(SomeUnit)
      BY <1>1 DEF Inv, Progress, RunTypes
    <3> QED BY <3>1, UnitFacts
  <2> QED BY <2>1, <2>2, <2>3, RejectKeepsInv
<1>2. CASE phase = "gate" /\ AsksOracle(idx) /\ Reject("behavior", None)
  BY <1>2, RejectKeepsInv DEF AsksOracle, Gates
<1> QED BY <1>1, <1>2 DEF Object

\* A repair pays what was owed.
LEMMA RepairKeepsInv == ASSUME Inv, Repair PROVE Inv'
<1>1. PICK text \in Emissions :
        units' = [units EXCEPT ![idx] = [text |-> text, id |-> RepairPrompt]]
  BY DEF Repair
<1> DEFINE u == [text |-> text, id |-> RepairPrompt]
<1>2. /\ phase = "repair" /\ phase' = "gate" /\ attempt' = attempt + 1
      /\ UNCHANGED <<spec, wired, plan, idx, divergences, faulted, crate, finished>>
  BY DEF Repair, disk
<1>3. /\ Len(units) = Len(plan) /\ idx <= Len(plan) /\ units[idx].id.attempt = attempt
      /\ \A i \in 1..Len(units) : i > idx => units[i].id.attempt = 1
      /\ \A i \in 1..Len(units) : i < idx => LetThrough(i)
      /\ idx \in Nat \ {0} /\ attempt \in Nat \ {0} /\ Len(units) \in Nat
      /\ units \in Seq(SomeUnit) /\ failure \in SomeRejection /\ failure.attempt = attempt + 1
  BY <1>2, SeqFacts DEF Inv, Progress, AcceptedSoFar, RunTypes
<1>4. u \in SomeUnit /\ u.id.attempt = attempt + 1
  BY <1>3 DEF SomeUnit, SomeId, RepairPrompt, SomeRejection
<1> HIDE DEF u
<1>5. /\ units' \in Seq(SomeUnit) /\ Len(units') = Len(units)
      /\ units'[idx] = u
      /\ \A i \in 1..Len(units) : i # idx => units'[i] = units[i]
  <2>1. units' = [units EXCEPT ![idx] = u] /\ idx \in 1..Len(units)
    BY <1>1, <1>3 DEF u
  <2>2. DOMAIN units = 1..Len(units)
    BY <1>3, SeqFacts
  <2> QED BY <1>3, <1>4, <2>1, <2>2, SeqFacts
<1>6. RunTypes'
  BY <1>2, <1>3, <1>5 DEF Inv, RunTypes, Phases
<1>7. Progress'
  <2>1. \A i \in 1..Len(units) : i > idx => units'[i].id.attempt = 1
    BY <1>3, <1>5
  <2> QED BY <1>2, <1>3, <1>4, <1>5, <2>1 DEF Progress
<1>8. AcceptedSoFar' /\ CrateIsCurrent'
  <2>1. \A i \in 1..Len(units) : i < idx => LetThrough(i)'
    <3>1. ASSUME NEW i \in 1..Len(units), i < idx PROVE LetThrough(i)'
      <4>1. LetThrough(i) /\ units'[i] = units[i]
        BY <1>3, <1>5, <3>1
      <4> QED BY <1>2, <4>1 DEF LetThrough
    <3> QED BY <3>1
  <2> QED BY <1>2, <1>5, <2>1 DEF AcceptedSoFar, CrateIsCurrent
<1>9. RepairsAreExplained'
  <2>1. ASSUME NEW i \in 1..Len(units) PROVE Due(i)' = Due(i)
    <3>1. CASE i = idx
      BY <1>2, <1>3, <1>4, <1>5, <3>1 DEF Due
    <3>2. CASE i # idx
      BY <1>2, <1>5, <3>2 DEF Due
    <3> QED BY <3>1, <3>2
  <2> QED BY <1>2, <1>5, <2>1 DEF Inv, RepairsAreExplained
<1> QED BY <1>2, <1>6, <1>7, <1>8, <1>9, ReturnedStays DEF Inv

----------------------------------------------------------------------------
\* Writing changes nothing that the run holds.
LEMMA WritingKeepsInv ==
  ASSUME Inv, WriteCrate \/ TruncateManifest \/ WriteManifest
  PROVE  Inv'
<1>1. /\ phase \in {"write", "manifest", "sealing"}
      /\ phase' \in {"manifest", "sealing", "validate"}
      /\ UNCHANGED <<spec, wired, plan, units, idx, attempt, divergences, faulted, finished>>
      /\ crate' = Texts
  BY DEF Inv, CrateIsCurrent, WriteCrate, TruncateManifest, WriteManifest
<1>2. RunTypes'
  BY <1>1 DEF Inv, RunTypes, Phases
<1>3. Progress'
  BY <1>1 DEF Inv, Progress
<1>4. AcceptedSoFar'
  BY <1>1 DEF Inv, AcceptedSoFar, LetThrough
<1>5. CrateIsCurrent'
  BY <1>1 DEF CrateIsCurrent, Texts
<1>6. RepairsAreExplained'
  BY <1>1 DEF Inv, RepairsAreExplained, Due
<1> QED BY <1>1, <1>2, <1>3, <1>4, <1>5, <1>6, ReturnedStays DEF Inv

\* What is returned was let through, and its repairs are explained.
LEMMA ReturnKeepsInv == ASSUME Inv, Return PROVE Inv'
<1> DEFINE q == [plan |-> plan, wired |-> wired, units |-> units,
                 divergences |-> divergences, faulted |-> faulted]
<1>1. phase = "validate" /\ finished' \subseteq finished \cup {q} /\ Leave /\ spec' = spec
  BY DEF Return
<1>2. /\ DOMAIN units = 1..Len(units)
      /\ \A i \in 1..Len(units) : LetThrough(i)
      /\ \A i \in 1..Len(units) : Explains(divergences, wired, i, Due(i))
  BY <1>1, SeqFacts DEF Inv, RunTypes, AcceptedSoFar, RepairsAreExplained
<1>3. ShippedCodePassedTheGates'
  BY <1>1, <1>2 DEF Inv, ShippedCodePassedTheGates, LetThrough
<1>4. DivergencesExplainRepairs'
  <2>1. ASSUME NEW i \in DOMAIN units
        PROVE  LET records == {k \in DOMAIN divergences : divergences[k].fn = i}
                   repairs == units[i].id.attempt - 1
               IN  /\ Cardinality(records) <= repairs
                   /\ "perf" \notin wired => Cardinality(records) = repairs
                   /\ "behavior" \notin wired => records = {}
                   /\ \A k \in records : divergences[k].text \in Wrong \cup {None}
    <3>1. units[i].id.attempt \in Nat
      BY <1>2, UnitFacts DEF Inv, RunTypes
    <3>2. Due(i) = units[i].id.attempt - 1
      BY <1>1, <3>1 DEF Due
    <3>3. Explains(divergences, wired, i, units[i].id.attempt - 1)
      BY <1>2, <3>2
    <3> QED BY <3>3 DEF Explains, Records
  <2>2. \A r \in finished' : r \in finished \/ r = q
    BY <1>1
  <2>3. /\ q.units = units /\ q.divergences = divergences /\ q.wired = wired
    OBVIOUS
  <2> HIDE DEF q
  <2>4. ASSUME NEW r \in finished', NEW i \in DOMAIN r.units
        PROVE  LET records == {k \in DOMAIN r.divergences : r.divergences[k].fn = i}
                   repairs == r.units[i].id.attempt - 1
               IN  /\ Cardinality(records) <= repairs
                   /\ "perf" \notin r.wired => Cardinality(records) = repairs
                   /\ "behavior" \notin r.wired => records = {}
                   /\ \A k \in records : r.divergences[k].text \in Wrong \cup {None}
    <3>1. CASE r \in finished
      BY <3>1 DEF Inv, DivergencesExplainRepairs
    <3>2. CASE r = q
      BY <2>1, <2>3, <3>2
    <3> QED BY <2>2, <3>1, <3>2
  <2> QED BY <2>4 DEF DivergencesExplainRepairs
<1> QED BY <1>1, <1>3, <1>4, LeaveIsIdle DEF Inv

----------------------------------------------------------------------------
LEMMA StepKeepsInv == ASSUME Inv, [Next]_vars PROVE Inv'
<1>1. CASE EditSpec
  <2>1. spec' \in Seq(Entries)
    BY <1>1, TranslatorAssumption DEF EditSpec
  <2> QED BY <1>1, <2>1, RunUntouched DEF EditSpec, runVars, disk
<1>2. CASE Abort
  BY <1>2, LeaveIsIdle, ReturnedStays DEF Abort, Inv
<1>3. CASE Step
  BY <1>3, DispatchKeepsInv, AcceptKeepsInv, AcceptUnseenKeepsInv, ObjectKeepsInv,
     RepairKeepsInv, WritingKeepsInv, ReturnKeepsInv DEF Step
<1>4. CASE UNCHANGED vars
  BY <1>4, RunUntouched DEF vars, runVars, disk, Inv, RunTypes
<1> QED BY <1>1, <1>2, <1>3, <1>4, BeginKeepsInv DEF Next

THEOREM InvHolds == Spec => []Inv
BY InitEstablishesInv, StepKeepsInv, PTL DEF Spec

\* A library that is shipped consists of emissions that every wired gate has
\* accepted, whatever was repaired, however often and by which gate.
THEOREM ShippedCodeIsChecked == Spec => []ShippedCodePassedTheGates
<1>1. Inv => ShippedCodePassedTheGates
  BY DEF Inv
<1> QED BY <1>1, InvHolds, PTL

\* The behaviour rejections on record are the repairs they caused.
THEOREM RecordsAreRepairs == Spec => []DivergencesExplainRepairs
<1>1. Inv => DivergencesExplainRepairs
  BY DEF Inv
<1> QED BY <1>1, InvHolds, PTL

\* Crate, manifest and report are each replaced only by a run that has come
\* to the end that calls for it.
LEMMA StepFollowsAcceptance ==
  ASSUME Inv, [Next]_vars
  PROVE  /\ manifest' \in Record => manifest' = manifest
             \/ crate = [i \in DOMAIN manifest'.units |-> manifest'.units[i].text]
         /\ crate' # crate => Len(crate') = Len(plan) /\ report' = report
         /\ report' # report => crate' = crate /\ manifest' = manifest
<1>1. CASE WriteCrate
  <2>1. /\ units \in Seq(SomeUnit) /\ Len(units) = Len(plan)
        /\ crate' = Texts /\ manifest' = manifest /\ report' = report
    BY <1>1 DEF Inv, RunTypes, Progress, WriteCrate
  <2>2. Len(Texts) = Len(units)
    BY <2>1 DEF Texts
  <2> QED BY <2>1, <2>2
<1>2. CASE TruncateManifest
  BY <1>2, TornIsNoRecord DEF TruncateManifest
<1>3. CASE WriteManifest
  BY <1>3 DEF Inv, CrateIsCurrent, Texts, WriteManifest
<1>4. CASE Object
  BY <1>4 DEF Object, Reject, disk
<1>5. CASE EditSpec \/ Begin \/ Abort \/ Dispatch \/ Accept \/ AcceptUnseen \/ Repair
           \/ Return \/ UNCHANGED vars
  BY <1>5 DEF EditSpec, Begin, Abort, Dispatch, Accept, AcceptUnseen, Repair, Return, vars, disk
<1> QED BY <1>1, <1>2, <1>3, <1>4, <1>5 DEF Next, Step

\* The disk never shows a whole manifest beside code that it does not describe,
\* unless a run has got as far as the crate and no further.
THEOREM DiskFollowsAcceptance == Spec => ManifestsFollowAcceptance
<1>1. Inv /\ [Next]_vars =>
        [/\ manifest' \in Record => manifest' = manifest
             \/ crate = [i \in DOMAIN manifest'.units |-> manifest'.units[i].text]
         /\ crate' # crate => Len(crate') = Len(plan) /\ report' = report
         /\ report' # report => crate' = crate /\ manifest' = manifest]_vars
  BY StepFollowsAcceptance
<1> QED BY <1>1, InvHolds, PTL DEF Spec, ManifestsFollowAcceptance

----------------------------------------------------------------------------
\* What identifies a translation.  The completion cache has one text for each
\* prompt and forgets nothing.  The id of a unit names its function, and the
\* prompt that brought it: that of a repair is the prompt, that of a first attempt
\* is the prompt up to the entry of the specification.

CacheIsFunction == \A e, f \in cache : e.prompt = f.prompt => e.text = f.text

PromptOf(entries, i, id) ==
  IF id.attempt = 1 THEN [fn |-> i, attempt |-> 1, about |-> entries[i]] ELSE id

\* The unit us[i] was answered to the prompt its id stands for.
Answered(known, entries, us, i) ==
  /\ us[i].id.fn = i /\ (us[i].id.attempt = 1 => us[i].id = FirstId(i))
  /\ [prompt |-> PromptOf(entries, i, us[i].id), text |-> us[i].text] \in known

IdInv ==
  /\ CacheIsFunction
  /\ phase # "idle" => \A i \in 1..Len(units) : Answered(cache, plan, units, i)
  /\ phase = "repair" => failure.fn = idx
  /\ \A r \in finished : /\ DOMAIN r.units = DOMAIN r.plan
                         /\ \A i \in DOMAIN r.units : Answered(cache, r.plan, r.units, i)

LEMMA AnswerKeepsFunction ==
  ASSUME CacheIsFunction, NEW prompt, NEW text, Answer(prompt, text)
  PROVE  /\ CacheIsFunction' /\ cache \subseteq cache'
         /\ [prompt |-> prompt, text |-> text] \in cache'
<1>1. /\ \A e \in cache : e.prompt = prompt => e.text = text
      /\ cache' = cache \cup {[prompt |-> prompt, text |-> text]}
  BY DEF Answer
<1> DEFINE new == [prompt |-> prompt, text |-> text]
<1>2. new.prompt = prompt /\ new.text = text
  OBVIOUS
<1> HIDE DEF new
<1>3. \A e \in cache' : e \in cache \/ e = new
  BY <1>1 DEF new
<1> QED BY <1>1, <1>2, <1>3 DEF CacheIsFunction, new

\* A cache that grows answers what it has answered.
LEMMA AnsweredStays ==
  ASSUME cache \subseteq cache', NEW entries, NEW us, NEW i, Answered(cache, entries, us, i)
  PROVE  Answered(cache', entries, us, i)
BY DEF Answered

LEMMA InitEstablishesIdInv == ASSUME Init PROVE IdInv
BY DEF Init, IdInv, CacheIsFunction

LEMMA StepKeepsIdInv == ASSUME Inv, Inv', IdInv, [Next]_vars PROVE IdInv'
<1>1. CASE Dispatch
  <2>1. PICK text \in Emissions :
          /\ Answer(FirstPrompt(idx), text)
          /\ units' = Append(units, [text |-> text, id |-> FirstId(idx)])
    BY <1>1 DEF Dispatch
  <2>2. PICK u : u = [text |-> text, id |-> FirstId(idx)]
    OBVIOUS
  <2>3. /\ phase = "l1" /\ phase' # "repair" /\ UNCHANGED <<plan, finished>>
        /\ units \in Seq(SomeUnit) /\ Len(units) = idx - 1 /\ idx \in Nat \ {0}
    BY <1>1 DEF Dispatch, Inv, RunTypes, Progress
  <2>4. /\ CacheIsFunction' /\ cache \subseteq cache'
        /\ [prompt |-> FirstPrompt(idx), text |-> text] \in cache'
    BY <2>1, AnswerKeepsFunction DEF IdInv
  <2>5. u \in SomeUnit
    BY <2>2, <2>3 DEF SomeUnit, SomeId, FirstId
  <2>6. /\ Len(units') = idx /\ units'[idx] = u
        /\ \A i \in 1..(idx - 1) : units'[i] = units[i]
    BY <2>1, <2>2, <2>3, <2>5, SeqFacts
  <2>7. ASSUME NEW i \in 1..Len(units') PROVE Answered(cache', plan, units', i)
    <3>1. CASE i = idx
      <4>1. u.id = FirstId(idx) /\ u.text = text
        BY <2>2
      <4>2. u.id.fn = idx /\ u.id.attempt = 1
        BY <4>1 DEF FirstId
      <4> QED BY <2>4, <2>6, <3>1, <4>1, <4>2 DEF Answered, PromptOf, FirstPrompt
    <3>2. CASE i # idx
      <4>1. i \in 1..Len(units) /\ units'[i] = units[i]
        BY <2>3, <2>6, <3>2
      <4>2. Answered(cache, plan, units, i)
        BY <2>3, <4>1 DEF IdInv
      <4> QED BY <2>4, <4>1, <4>2 DEF Answered
    <3> QED BY <3>1, <3>2
  <2> QED BY <2>3, <2>4, <2>7, AnsweredStays DEF IdInv, Answered
<1>2. CASE Repair
  <2>1. PICK text \in Emissions :
          /\ Answer(RepairPrompt, text)
          /\ units' = [units EXCEPT ![idx] = [text |-> text, id |-> RepairPrompt]]
    BY <1>2 DEF Repair
  <2>2. PICK u : u = [text |-> text, id |-> RepairPrompt]
    OBVIOUS
  <2>3. /\ phase = "repair" /\ phase' = "gate" /\ UNCHANGED <<plan, finished, idx>>
        /\ units \in Seq(SomeUnit) /\ failure.attempt = attempt + 1
        /\ attempt \in Nat \ {0} /\ failure.fn = idx
    BY <1>2 DEF Repair, Inv, RunTypes, Progress, IdInv
  <2>4. /\ CacheIsFunction' /\ cache \subseteq cache'
        /\ [prompt |-> RepairPrompt, text |-> text] \in cache'
    BY <2>1, AnswerKeepsFunction DEF IdInv
  <2>5. /\ Len(units') = Len(units)
        /\ \A i \in 1..Len(units) : units'[i] = IF i = idx THEN u ELSE units[i]
    BY <2>1, <2>2, <2>3
  <2>6. ASSUME NEW i \in 1..Len(units') PROVE Answered(cache', plan, units', i)
    <3>1. CASE i = idx
      <4>1. u.id = RepairPrompt /\ u.text = text
        BY <2>2
      <4>2. u.id.fn = idx /\ u.id.attempt # 1
        BY <2>3, <4>1 DEF RepairPrompt
      <4>3. units'[i] = u
        BY <2>5, <3>1
      <4> QED BY <2>4, <4>3, <3>1, <4>1, <4>2 DEF Answered, PromptOf
    <3>2. CASE i # idx
      <4>1. i \in 1..Len(units) /\ units'[i] = units[i]
        BY <2>5, <3>2
      <4>2. Answered(cache, plan, units, i)
        BY <2>3, <4>1 DEF IdInv
      <4> QED BY <2>4, <4>1, <4>2 DEF Answered
    <3> QED BY <3>1, <3>2
  <2> QED BY <2>3, <2>4, <2>6, AnsweredStays DEF IdInv, Answered
<1>3. CASE Return
  <2> DEFINE q == [plan |-> plan, wired |-> wired, units |-> units,
                   divergences |-> divergences, faulted |-> faulted]
  <2>1. /\ phase = "validate" /\ phase' = "idle" /\ cache' = cache
        /\ finished' \subseteq finished \cup {q}
    BY <1>3 DEF Return, Leave
  <2>2. /\ DOMAIN units = DOMAIN plan /\ DOMAIN units = 1..Len(units)
        /\ \A i \in 1..Len(units) : Answered(cache, plan, units, i)
    BY <2>1 DEF Inv, RunTypes, Progress, IdInv
  <2>3. q.plan = plan /\ q.units = units
    OBVIOUS
  <2> HIDE DEF q
  <2>4. ASSUME NEW r \in finished'
        PROVE  DOMAIN r.units = DOMAIN r.plan /\ \A i \in DOMAIN r.units : Answered(cache, r.plan, r.units, i)
    <3>1. r \in finished \/ r = q
      BY <2>1
    <3> QED BY <2>2, <2>3, <3>1 DEF IdInv
  <2> QED BY <2>1, <2>4 DEF IdInv, CacheIsFunction, Answered
<1>4. CASE Begin
  BY <1>4 DEF Begin, Inv, Progress, IdInv, CacheIsFunction, Answered
<1>5. CASE Object
  <2>1. PICK gate, seen : Reject(gate, seen)
    BY <1>5 DEF Object
  <2>2. phase = "gate" /\ cache' = cache /\ finished' = finished
    BY <2>1 DEF Reject
  <2>3. \/ phase' = "idle"
        \/ phase' = "repair" /\ units' = units /\ plan' = plan /\ failure'.fn = idx'
    BY <2>1 DEF Reject, Leave
  <2> QED BY <2>2, <2>3 DEF IdInv, CacheIsFunction, Answered
<1>6. CASE Abort
  BY <1>6 DEF Abort, Leave, IdInv, CacheIsFunction, Answered
<1>7. CASE Accept \/ AcceptUnseen \/ WriteCrate \/ TruncateManifest \/ WriteManifest
           \/ EditSpec \/ UNCHANGED vars
  <2>1. /\ UNCHANGED <<cache, plan, units, finished>>
        /\ phase' = "repair" => phase = "repair" /\ idx' = idx /\ failure' = failure
        /\ phase' # "idle" => phase # "idle"
    BY <1>7 DEF Accept, AcceptUnseen, NextFunction, WriteCrate, TruncateManifest,
                WriteManifest, EditSpec, vars
  <2> QED BY <2>1 DEF IdInv, CacheIsFunction, Answered
<1> QED BY <1>1, <1>2, <1>3, <1>4, <1>5, <1>6, <1>7 DEF Next, Step

\* Equal sets of ids are equal ids, function by function.
LEMMA IdsTellUnits ==
  ASSUME IdInv, NEW r \in finished, NEW q \in finished, r.plan = q.plan,
         DeterministicId(r.units) = DeterministicId(q.units), NEW i \in DOMAIN r.units
  PROVE  r.units[i].text = q.units[i].text
<1>1. i \in DOMAIN q.units /\ DOMAIN q.units = DOMAIN r.units
  BY DEF IdInv
<1>2. Answered(cache, r.plan, r.units, i) /\ \A j \in DOMAIN q.units : Answered(cache, q.plan, q.units, j)
  BY <1>1 DEF IdInv
<1>3. PICK j \in DOMAIN q.units : q.units[j].id = r.units[i].id
  BY DEF DeterministicId
<1>4. j = i
  BY <1>2, <1>3 DEF Answered
<1>5. /\ [prompt |-> PromptOf(r.plan, i, r.units[i].id), text |-> r.units[i].text] \in cache
      /\ [prompt |-> PromptOf(r.plan, i, r.units[i].id), text |-> q.units[i].text] \in cache
  BY <1>2, <1>3, <1>4 DEF Answered
<1> QED BY <1>5 DEF IdInv, CacheIsFunction

\* deterministic_id of manifest.rs identifies what was shipped: with the same
\* specification and the same identifier, two runs return the same code.
THEOREM IdsIdentifyCode == Spec => []IdsIdentifyTranslations
<1>1. IdInv => IdsIdentifyTranslations
  BY IdsTellUnits DEF IdsIdentifyTranslations
<1>2. Spec => []IdInv
  BY InvHolds, InitEstablishesIdInv, StepKeepsIdInv, PTL DEF Spec
<1> QED BY <1>1, <1>2, PTL

----------------------------------------------------------------------------
\* What a run repeats.  With an oracle that does not fail, what a run holds in
\* memory changes from one dispatch or verdict to the next as the specification,
\* the gates and the cache say.  So two runs with the same three go the same way,
\* up to the end of both.

Held(ph, us, i, a, r, ds) ==
  [phase |-> ph, units |-> us, idx |-> i, attempt |-> a, failure |-> r, divergences |-> ds]

\* Nothing that is held changes while the run writes.
Holds == Held(IF phase \in {"manifest", "sealing", "validate"} THEN "write" ELSE phase,
              units, idx, attempt, failure, divergences)

Start(entries) == Held(IF entries = <<>> THEN "write" ELSE "l1", <<>>, 1, 1, None, <<>>)

Against(entries, gates, c) ==
  IF "behavior" \in gates /\ entries[c.idx] \in Compared /\ c.units[c.idx].text \in Wrong
    THEN {"behavior"}
  ELSE IF "perf" \in gates /\ c.units[c.idx].text \in Slow THEN {"perf"}
  ELSE {}

Dispatches(entries, known, c, d) ==
  /\ c.phase = "l1"
  /\ \E text \in Emissions :
       LET us == Append(c.units, [text |-> text, id |-> FirstId(c.idx)])
       IN  /\ [prompt |-> [fn |-> c.idx, attempt |-> 1, about |-> entries[c.idx]],
               text |-> text] \in known
           /\ d = IF c.idx < Len(entries)
                    THEN Held("l1", us, c.idx + 1, c.attempt, c.failure, c.divergences)
                    ELSE Held("gate", us, 1, c.attempt, c.failure, c.divergences)

Accepts(entries, gates, c, d) ==
  /\ c.phase = "gate" /\ Against(entries, gates, c) = {}
  /\ d = IF c.idx < Len(entries)
           THEN Held("gate", c.units, c.idx + 1, 1, c.failure, c.divergences)
           ELSE Held("write", c.units, c.idx, c.attempt, c.failure, c.divergences)

Objects(entries, gates, c, d) ==
  /\ c.phase = "gate"
  /\ \E gate \in Against(entries, gates, c) :
       LET r == [fn |-> c.idx, attempt |-> c.attempt + 1, gate |-> gate,
                 text |-> c.units[c.idx].text]
       IN  d = Held("repair", c.units, c.idx, c.attempt, r,
                    IF gate = "behavior" THEN Append(c.divergences, r) ELSE c.divergences)

Repairs(known, c, d) ==
  /\ c.phase = "repair"
  /\ \E text \in Emissions :
       LET prompt == [fn |-> c.failure.fn, attempt |-> c.failure.attempt, about |-> c.failure]
       IN  /\ [prompt |-> prompt, text |-> text] \in known
           /\ d = Held("gate", [c.units EXCEPT ![c.idx] = [text |-> text, id |-> prompt]],
                       c.idx, c.attempt + 1, None, c.divergences)

Moves(entries, gates, known, c, d) ==
  \/ Dispatches(entries, known, c, d) \/ Accepts(entries, gates, c, d)
  \/ Objects(entries, gates, c, d) \/ Repairs(known, c, d)

\* The n moves of t from the start of a run.
Retraces(entries, gates, known, t, n) ==
  /\ n \in Nat /\ t[0] = Start(entries)
  /\ \A k \in 0..(n - 1) : Moves(entries, gates, known, t[k], t[k + 1])

Reaches(entries, gates, known, c) ==
  \E t, n : Retraces(entries, gates, known, t, n) /\ t[n] = c

RepeatInv ==
  /\ phase = "idle" => failure = None
  /\ phase # "idle" /\ ~faulted => Reaches(plan, wired, cache, Holds)
  /\ \A r \in finished : ~r.faulted =>
       \E c : /\ Reaches(r.plan, r.wired, cache, c) /\ c.phase = "write"
              /\ c.units = r.units /\ c.divergences = r.divergences

\* A cache that has one text for a prompt leaves no choice.
LEMMA MovesAreDetermined ==
  ASSUME CacheIsFunction, NEW entries, NEW gates, NEW c, NEW d, NEW e,
         Moves(entries, gates, cache, c, d), Moves(entries, gates, cache, c, e)
  PROVE  d = e
<1>1. \A prompt, x, y : [prompt |-> prompt, text |-> x] \in cache
                          /\ [prompt |-> prompt, text |-> y] \in cache => x = y
  BY DEF CacheIsFunction
<1>2. CASE c.phase = "l1"
  <2>1. Dispatches(entries, cache, c, d) /\ Dispatches(entries, cache, c, e)
    BY <1>2 DEF Moves, Accepts, Objects, Repairs
  <2> QED BY <1>1, <2>1 DEF Dispatches
<1>3. CASE c.phase = "gate"
  <2>1. \A g, h \in Against(entries, gates, c) : g = h
    BY DEF Against
  <2>2. \/ Accepts(entries, gates, c, d) /\ Accepts(entries, gates, c, e)
        \/ Objects(entries, gates, c, d) /\ Objects(entries, gates, c, e)
    BY <1>3 DEF Moves, Dispatches, Accepts, Objects, Repairs
  <2> QED BY <2>1, <2>2 DEF Accepts, Objects
<1>4. CASE c.phase = "repair"
  BY <1>1, <1>4 DEF Moves, Dispatches, Accepts, Objects, Repairs
<1> QED BY <1>2, <1>3, <1>4 DEF Moves, Dispatches, Accepts, Objects, Repairs

LEMMA MovesStay ==
  ASSUME NEW entries, NEW gates, NEW known, NEW more, known \subseteq more, NEW c, NEW d,
         Moves(entries, gates, known, c, d)
  PROVE  Moves(entries, gates, more, c, d)
BY DEF Moves, Dispatches, Repairs

LEMMA ReachesStays ==
  ASSUME NEW entries, NEW gates, NEW known, NEW more, known \subseteq more, NEW c,
         Reaches(entries, gates, known, c)
  PROVE  Reaches(entries, gates, more, c)
<1>1. PICK t, n : Retraces(entries, gates, known, t, n) /\ t[n] = c
  BY DEF Reaches
<1>2. Retraces(entries, gates, more, t, n)
  BY <1>1, MovesStay DEF Retraces
<1> QED BY <1>1, <1>2 DEF Reaches

LEMMA ReachesOn ==
  ASSUME NEW entries, NEW gates, NEW known, NEW c, NEW d,
         Reaches(entries, gates, known, c), Moves(entries, gates, known, c, d)
  PROVE  Reaches(entries, gates, known, d)
<1>1. PICK t, n : Retraces(entries, gates, known, t, n) /\ t[n] = c
  BY DEF Reaches
<1>2. n \in Nat /\ t[0] = Start(entries)
        /\ \A k \in 0..(n - 1) : Moves(entries, gates, known, t[k], t[k + 1])
  BY <1>1 DEF Retraces
<1> DEFINE u == [k \in 0..(n + 1) |-> IF k = n + 1 THEN d ELSE t[k]]
<1>3. u[n + 1] = d /\ \A k \in 0..n : u[k] = t[k]
  BY <1>2
<1> HIDE DEF u
<1>4. ASSUME NEW k \in 0..n PROVE Moves(entries, gates, known, u[k], u[k + 1])
  <2>1. CASE k = n
    BY <1>1, <1>2, <1>3, <2>1
  <2>2. CASE k # n
    <3>1. k \in 0..(n - 1) /\ k + 1 \in 0..n
      BY <1>2, <2>2
    <3> QED BY <1>2, <1>3, <3>1
  <2> QED BY <2>1, <2>2
<1>5. n + 1 \in Nat /\ (n + 1) - 1 = n /\ 0 \in 0..n
  BY <1>2
<1>6. Retraces(entries, gates, known, u, n + 1)
  BY <1>2, <1>3, <1>4, <1>5 DEF Retraces
<1> QED BY <1>3, <1>6 DEF Reaches

LEMMA LeastNatural ==
  ASSUME NEW T \in SUBSET Nat, T # {}
  PROVE  \E m \in T : \A n \in T : m <= n
<1>1. PICK m \in T : \A n \in T : ~(<<n, m>> \in OpToRel(<, Nat))
  BY NatLessThanWellFounded, WFMin
<1>2. \A n \in T : ~(n < m)
  BY <1>1 DEF OpToRel
<1> QED BY <1>2

\* A run that is writing moves no further, so what it holds then is told by the
\* specification, the gates and the cache.
LEMMA ReachesOneEnd ==
  ASSUME CacheIsFunction, NEW entries, NEW gates, NEW c, NEW d,
         Reaches(entries, gates, cache, c), c.phase = "write",
         Reaches(entries, gates, cache, d), d.phase = "write"
  PROVE  c = d
<1>1. PICK t, n : Retraces(entries, gates, cache, t, n) /\ t[n] = c
  BY DEF Reaches
<1>2. PICK u, m : Retraces(entries, gates, cache, u, m) /\ u[m] = d
  BY DEF Reaches
<1>3. /\ n \in Nat /\ t[0] = Start(entries)
      /\ \A k \in 0..(n - 1) : Moves(entries, gates, cache, t[k], t[k + 1])
  BY <1>1 DEF Retraces
<1>4. /\ m \in Nat /\ u[0] = Start(entries)
      /\ \A k \in 0..(m - 1) : Moves(entries, gates, cache, u[k], u[k + 1])
  BY <1>2 DEF Retraces
<1>5. \A k \in Nat : k <= n /\ k <= m => t[k] = u[k]
  <2> SUFFICES ASSUME NEW j \in Nat, j <= n, j <= m, t[j] # u[j] PROVE FALSE
    OBVIOUS
  <2> DEFINE Apart == {k \in Nat : k <= n /\ k <= m /\ t[k] # u[k]}
  <2>1. PICK k \in Apart : \A i \in Apart : k <= i
    <3>1. Apart \in SUBSET Nat /\ Apart # {}
      OBVIOUS
    <3> HIDE DEF Apart
    <3> QED BY <3>1, LeastNatural
  <2>2. k # 0
    BY <1>3, <1>4
  <2>3. k - 1 \in Nat /\ k - 1 \in 0..(n - 1) /\ k - 1 \in 0..(m - 1) /\ (k - 1) + 1 = k
        /\ k - 1 <= n /\ k - 1 <= m /\ ~(k <= k - 1)
    BY <1>3, <1>4, <2>2
  <2>4. t[k - 1] = u[k - 1]
    BY <2>1, <2>3
  <2>5. /\ Moves(entries, gates, cache, t[k - 1], t[k])
        /\ Moves(entries, gates, cache, t[k - 1], u[k])
    BY <1>3, <1>4, <2>3, <2>4
  <2> QED BY <2>1, <2>5, MovesAreDetermined
<1>6. \A e, f : Moves(entries, gates, cache, e, f) => e.phase # "write"
  BY DEF Moves, Dispatches, Accepts, Objects, Repairs
<1>7. CASE n = m
  BY <1>1, <1>2, <1>3, <1>5, <1>7
<1>8. CASE n < m
  <2>1. t[n] = u[n] /\ n \in 0..(m - 1)
    BY <1>3, <1>4, <1>5, <1>8
  <2> QED BY <1>1, <1>4, <1>6, <2>1
<1>9. CASE m < n
  <2>1. t[m] = u[m] /\ m \in 0..(n - 1)
    BY <1>3, <1>4, <1>5, <1>9
  <2> QED BY <1>2, <1>3, <1>6, <2>1
<1> QED BY <1>3, <1>4, <1>7, <1>8, <1>9

LEMMA InitEstablishesRepeatInv == ASSUME Init PROVE RepeatInv
BY DEF Init, RepeatInv

\* A run that moves on.
LEMMA HoldsOn ==
  ASSUME RepeatInv, phase # "idle", plan' = plan, wired' = wired, cache \subseteq cache',
         ~faulted' => ~faulted /\ Moves(plan, wired, cache', Holds, Holds')
  PROVE  ~faulted' => Reaches(plan', wired', cache', Holds')
<1>1. PICK more : more = cache'
  OBVIOUS
<1>2. PICK c, d : c = Holds /\ d = Holds'
  OBVIOUS
<1>3. SUFFICES ASSUME ~faulted' PROVE Reaches(plan, wired, more, d)
  BY <1>1, <1>2
<1>4. Reaches(plan, wired, cache, c) /\ cache \subseteq more /\ Moves(plan, wired, more, c, d)
  BY <1>1, <1>2, <1>3 DEF RepeatInv
<1>5. Reaches(plan, wired, more, c)
  BY <1>4, ReachesStays
<1> QED BY <1>4, <1>5, ReachesOn

\* What was returned can still be retraced.
LEMMA ReturnedIsRetraced ==
  ASSUME RepeatInv, cache \subseteq cache', NEW r \in finished, ~r.faulted
  PROVE  \E c : /\ Reaches(r.plan, r.wired, cache', c) /\ c.phase = "write"
                /\ c.units = r.units /\ c.divergences = r.divergences
<1>1. PICK c : /\ Reaches(r.plan, r.wired, cache, c) /\ c.phase = "write"
               /\ c.units = r.units /\ c.divergences = r.divergences
  BY DEF RepeatInv
<1>2. Reaches(r.plan, r.wired, cache', c)
  <2>1. PICK more, e, g : more = cache' /\ e = r.plan /\ g = r.wired
    OBVIOUS
  <2>2. Reaches(e, g, more, c)
    BY <1>1, <2>1, ReachesStays
  <2> QED BY <2>1, <2>2
<1> QED BY <1>1, <1>2

LEMMA DispatchMoves ==
  ASSUME Inv, CacheIsFunction, Dispatch
  PROVE  cache \subseteq cache' /\ Moves(plan, wired, cache', Holds, Holds')
<1>1. PICK text \in Emissions :
        /\ Answer(FirstPrompt(idx), text)
        /\ units' = Append(units, [text |-> text, id |-> FirstId(idx)])
  BY DEF Dispatch
<1>2. cache \subseteq cache' /\ [prompt |-> FirstPrompt(idx), text |-> text] \in cache'
  BY <1>1, AnswerKeepsFunction
<1>3. /\ phase = "l1" /\ UNCHANGED <<plan, attempt, failure, divergences>>
      /\ IF idx < Len(plan) THEN idx' = idx + 1 /\ phase' = phase ELSE idx' = 1 /\ phase' = "gate"
  BY DEF Dispatch
<1>4. /\ Holds = Held("l1", units, idx, attempt, failure, divergences)
      /\ Holds' = Held(phase', units', idx', attempt, failure, divergences)
  BY <1>3 DEF Holds, Held
<1>5. Dispatches(plan, cache', Holds, Holds')
  BY <1>1, <1>2, <1>3, <1>4 DEF Dispatches, Held, FirstPrompt
<1> QED BY <1>2, <1>5 DEF Moves

LEMMA AcceptMoves ==
  ASSUME Accept PROVE Moves(plan, wired, cache', Holds, Holds')
<1>1. /\ phase = "gate" /\ UNCHANGED <<units, failure, divergences>> /\ Objections(idx) = {}
      /\ IF idx < Len(plan) THEN idx' = idx + 1 /\ attempt' = 1 /\ phase' = phase
                            ELSE phase' = "write" /\ idx' = idx /\ attempt' = attempt
  BY DEF Accept, NextFunction
<1>2. /\ Holds = Held("gate", units, idx, attempt, failure, divergences)
      /\ Holds' = Held(phase', units, idx', attempt', failure, divergences)
  BY <1>1 DEF Holds, Held
<1>3. Against(plan, wired, Holds) = {}
  BY <1>1, <1>2 DEF Against, Held, Objections, AsksOracle
<1>4. Accepts(plan, wired, Holds, Holds')
  BY <1>1, <1>2, <1>3 DEF Accepts, Held
<1> QED BY <1>4 DEF Moves

LEMMA ObjectMoves ==
  ASSUME Inv, Object, phase' # "idle", ~faulted'
  PROVE  /\ ~faulted /\ plan' = plan /\ wired' = wired
         /\ Moves(plan, wired, cache', Holds, Holds')
<1>1. PICK gate, seen : /\ Reject(gate, seen) /\ phase = "gate"
                        /\ \/ seen = None
                           \/ gate \in Objections(idx) /\ seen = units[idx].text
  BY DEF Object
<1>2. PICK r : r = [fn |-> idx, attempt |-> attempt + 1, gate |-> gate, text |-> seen]
  OBVIOUS
<1>3. /\ UNCHANGED <<plan, wired, units, idx, attempt>> /\ phase' = "repair" /\ failure' = r
      /\ divergences' = Rendered(r) /\ faulted' = (faulted \/ seen = None)
  BY <1>1, <1>2 DEF Reject, Leave
<1>4. ~faulted /\ gate \in Objections(idx) /\ seen = units[idx].text
  BY <1>1, <1>3
<1>5. /\ Holds = Held("gate", units, idx, attempt, failure, divergences)
      /\ Holds' = Held("repair", units, idx, attempt, r, divergences')
  BY <1>1, <1>3 DEF Holds, Held
<1>6. gate \in Against(plan, wired, Holds)
  BY <1>4, <1>5 DEF Against, Held, Objections, AsksOracle
<1>7. divergences' = IF gate = "behavior" THEN Append(divergences, r) ELSE divergences
  BY <1>2, <1>3 DEF Rendered
<1>8. Objects(plan, wired, Holds, Holds')
  BY <1>2, <1>4, <1>5, <1>6, <1>7 DEF Objects, Held
<1> QED BY <1>3, <1>4, <1>8 DEF Moves

LEMMA RepairMoves ==
  ASSUME CacheIsFunction, Repair
  PROVE  cache \subseteq cache' /\ Moves(plan, wired, cache', Holds, Holds')
<1>1. PICK text \in Emissions :
        /\ Answer(RepairPrompt, text)
        /\ units' = [units EXCEPT ![idx] = [text |-> text, id |-> RepairPrompt]]
  BY DEF Repair
<1>2. cache \subseteq cache' /\ [prompt |-> RepairPrompt, text |-> text] \in cache'
  BY <1>1, AnswerKeepsFunction
<1>3. /\ phase = "repair" /\ UNCHANGED <<idx, divergences>> /\ attempt' = attempt + 1
      /\ failure' = None /\ phase' = "gate"
  BY DEF Repair
<1>4. /\ Holds = Held("repair", units, idx, attempt, failure, divergences)
      /\ Holds' = Held("gate", units', idx, attempt + 1, None, divergences)
  BY <1>3 DEF Holds, Held
<1>5. Repairs(cache', Holds, Holds')
  BY <1>1, <1>2, <1>4 DEF Repairs, Held, RepairPrompt
<1> QED BY <1>2, <1>5 DEF Moves

LEMMA StepKeepsRepeatInv == ASSUME Inv, IdInv, RepeatInv, [Next]_vars PROVE RepeatInv'
<1>0. CacheIsFunction
  BY DEF IdInv
<1>1. CASE Dispatch
  <2>1. cache \subseteq cache' /\ Moves(plan, wired, cache', Holds, Holds')
    BY <1>0, <1>1, DispatchMoves
  <2>2. phase = "l1" /\ phase' # "idle" /\ UNCHANGED <<plan, wired, faulted, finished>>
    BY <1>1 DEF Dispatch
  <2> QED BY <2>1, <2>2, HoldsOn, ReturnedIsRetraced DEF RepeatInv
<1>2. CASE Accept
  <2>1. Moves(plan, wired, cache', Holds, Holds')
    BY <1>2, AcceptMoves
  <2>2. phase = "gate" /\ phase' # "idle" /\ UNCHANGED <<plan, wired, faulted, finished, cache>>
    BY <1>2 DEF Accept, NextFunction
  <2> QED BY <2>1, <2>2, HoldsOn, ReturnedIsRetraced DEF RepeatInv
<1>3. CASE AcceptUnseen
  <2>1. faulted' /\ phase' # "idle" /\ UNCHANGED <<finished, cache>>
    BY <1>3 DEF AcceptUnseen, NextFunction
  <2> QED BY <2>1, ReturnedIsRetraced DEF RepeatInv
<1>4. CASE Object
  <2>1. phase = "gate" /\ UNCHANGED <<finished, cache>> /\ (phase' = "idle" => failure' = None)
    BY <1>4 DEF Object, Reject, Leave
  <2>2. CASE phase' = "idle"
    BY <2>1, <2>2, ReturnedIsRetraced DEF RepeatInv
  <2>3. CASE phase' # "idle"
    BY <1>4, <2>1, <2>3, ObjectMoves, HoldsOn, ReturnedIsRetraced DEF RepeatInv
  <2> QED BY <2>2, <2>3
<1>5. CASE Repair
  <2>1. cache \subseteq cache' /\ Moves(plan, wired, cache', Holds, Holds')
    BY <1>0, <1>5, RepairMoves
  <2>2. phase = "repair" /\ phase' # "idle" /\ UNCHANGED <<plan, wired, faulted, finished>>
    BY <1>5 DEF Repair
  <2> QED BY <2>1, <2>2, HoldsOn, ReturnedIsRetraced DEF RepeatInv
<1>6. CASE WriteCrate \/ TruncateManifest \/ WriteManifest
  <2>1. /\ Holds' = Holds /\ phase # "idle" /\ phase' # "idle"
        /\ UNCHANGED <<plan, wired, faulted, finished, cache>>
    BY <1>6 DEF WriteCrate, TruncateManifest, WriteManifest, Holds
  <2> QED BY <2>1 DEF RepeatInv
<1>7. CASE Return
  <2> DEFINE q == [plan |-> plan, wired |-> wired, units |-> units,
                   divergences |-> divergences, faulted |-> faulted]
  <2>1. /\ phase = "validate" /\ phase' = "idle" /\ failure' = None /\ cache' = cache
        /\ finished' \subseteq finished \cup {q}
    BY <1>7 DEF Return, Leave
  <2>2. /\ q.plan = plan /\ q.wired = wired /\ q.units = units
        /\ q.divergences = divergences /\ q.faulted = faulted
    OBVIOUS
  <2> HIDE DEF q
  <2>3. Holds.phase = "write" /\ Holds.units = units /\ Holds.divergences = divergences
    BY <2>1 DEF Holds, Held
  <2>4. ~faulted => Reaches(plan, wired, cache, Holds)
    BY <2>1 DEF RepeatInv
  <2>5. ASSUME NEW r \in finished', ~r.faulted
        PROVE  \E c : /\ Reaches(r.plan, r.wired, cache, c) /\ c.phase = "write"
                      /\ c.units = r.units /\ c.divergences = r.divergences
    <3>1. CASE r \in finished
      BY <2>5, <3>1 DEF RepeatInv
    <3>2. CASE r = q
      BY <2>2, <2>3, <2>4, <2>5, <3>2
    <3> QED BY <2>1, <3>1, <3>2
  <2> QED BY <2>1, <2>5 DEF RepeatInv
<1>8. CASE Begin
  <2>1. /\ phase = "idle" /\ units = <<>> /\ idx = 1 /\ attempt = 1 /\ divergences = <<>>
        /\ failure = None
    BY <1>8 DEF Begin, Inv, Progress, RepeatInv
  <2>2. /\ UNCHANGED <<units, idx, attempt, divergences, failure, cache, finished>>
        /\ plan' = spec /\ phase' = IF spec = <<>> THEN "write" ELSE "l1"
    BY <1>8 DEF Begin
  <2>3. Holds' = Start(plan')
    BY <2>1, <2>2 DEF Holds, Start, Held
  <2>4. Reaches(plan', wired', cache', Start(plan'))
    <3> SUFFICES ASSUME NEW entries, NEW gates, NEW known
                 PROVE  Reaches(entries, gates, known, Start(entries))
      OBVIOUS
    <3>1. Retraces(entries, gates, known, [k \in {0} |-> Start(entries)], 0)
      BY DEF Retraces
    <3> QED BY <3>1 DEF Reaches
  <2> QED BY <2>2, <2>3, <2>4, ReturnedIsRetraced DEF RepeatInv
<1>9. CASE Abort
  BY <1>9 DEF Abort, Leave, RepeatInv
<1>10. CASE EditSpec \/ UNCHANGED vars
  <2>1. /\ UNCHANGED <<cache, phase, wired, plan, faulted, failure, finished>> /\ Holds' = Holds
    BY <1>10 DEF EditSpec, vars, Holds
  <2> QED BY <2>1 DEF RepeatInv
<1> QED BY <1>1, <1>2, <1>3, <1>4, <1>5, <1>6, <1>7, <1>8, <1>9, <1>10 DEF Next, Step

LEMMA RunsRepeat == ASSUME IdInv, RepeatInv PROVE RunsAreReproducible
<1> SUFFICES ASSUME NEW r \in finished, NEW q \in finished, r.plan = q.plan,
                    r.wired = q.wired, ~r.faulted, ~q.faulted
             PROVE  r.units = q.units /\ r.divergences = q.divergences
  BY DEF RunsAreReproducible
<1>1. PICK c : /\ Reaches(r.plan, r.wired, cache, c) /\ c.phase = "write"
               /\ c.units = r.units /\ c.divergences = r.divergences
  BY DEF RepeatInv
<1>2. PICK d : /\ Reaches(q.plan, q.wired, cache, d) /\ d.phase = "write"
               /\ d.units = q.units /\ d.divergences = q.divergences
  BY DEF RepeatInv
<1>3. c = d
  BY <1>1, <1>2, ReachesOneEnd DEF IdInv
<1> QED BY <1>1, <1>2, <1>3

\* translate of pipeline.rs repeats itself: with the same specification, gates and
\* completion cache, and an oracle that answers, it returns the same units with the
\* same ids, and the same divergences.
THEOREM RunsRepeatThemselves == Spec => []RunsAreReproducible
<1>1. Spec => []IdInv
  BY InvHolds, InitEstablishesIdInv, StepKeepsIdInv, PTL DEF Spec
<1>2. Spec => []RepeatInv
  BY InvHolds, <1>1, InitEstablishesRepeatInv, StepKeepsRepeatInv, PTL DEF Spec
<1> QED BY <1>1, <1>2, RunsRepeat, PTL
=============================================================================
