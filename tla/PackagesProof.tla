---------------------------- MODULE PackagesProof ----------------------------
(***************************************************************************)
(* What a registry and the lockfiles of any number of workspaces hold, for *)
(* every set of packages, dependencies, builds and edits.                  *)
(*                                                                         *)
(* An entry is whole as long as one build at a time inserts its tree: the  *)
(* staging directory then holds just the files that build has unpacked.    *)
(* A lockfile is complete because the walk owes nothing when it ends: what *)
(* a package in the graph depends on is in the graph too, or is still to   *)
(* be walked on some level of the stack.                                   *)
(*                                                                         *)
(* A finished walk is also determined by where the trees stand: a walk     *)
(* goes one way only and on until it owes nothing, and a build that no     *)
(* edit of a package disturbs follows it step by step.                     *)
(***************************************************************************)
EXTENDS TLAPS, SequenceTheorems, WellFoundedInduction, Packages

Insertion == {"look", "clear", "unpack", "publish", "read"}

TypeInv ==
  /\ at \in [Places -> Trees]
  /\ entry \in [Trees -> (SUBSET Range(Files)) \cup {None}]
  /\ staging \in [Trees -> (SUBSET Range(Files)) \cup {None}]
  /\ phase \in [Workspaces -> Phases]
  /\ root \in [Workspaces -> Trees]
  /\ path \in [Workspaces -> Seq(Names)]
  /\ todo \in [Workspaces -> Seq(Seq(Dependency))]
  /\ graph \in [Workspaces -> Graph]
  /\ hand \in [Workspaces -> Trees \cup {None}]
  /\ unpacked \in [Workspaces -> 0..Len(Files)]
  /\ lock \in [Workspaces -> [root : Trees, graph : Graph] \cup {None}]
  /\ overlapped \subseteq Trees
  /\ undisturbed \in [Workspaces -> BOOLEAN]
  /\ builds \in 0..MaxBuilds /\ edits \in 0..MaxEdits

\* What a build holds in each of its phases.
StageIsKept(w) ==
  /\ Len(path[w]) = Len(todo[w])
  /\ phase[w] = "idle" => graph[w] = <<>>
  /\ phase[w] \in {"idle", "save"} <=> todo[w] = <<>>
  /\ phase[w] \in Insertion => Level(w) # <<>> /\ hand[w] \in Trees
  /\ phase[w] = "unpack" => unpacked[w] < Len(Files)
  /\ phase[w] = "read" => entry[hand[w]] # None

\* What is in a graph has been read from the registry.
Installed(g) ==
  \A n \in DOMAIN g : entry[g[n].tree] # None /\ Files[1] \in entry[g[n].tree]

\* A name the build will lock, if it comes to its end.
Promised(w, name) ==
  \/ name \in DOMAIN graph[w]
  \/ \E k \in DOMAIN todo[w] : \E j \in DOMAIN todo[w][k] : todo[w][k][j].name = name

TreesOf(r, g) == {r} \cup {g[n].tree : n \in DOMAIN g}

NothingIsForgotten(w) ==
  phase[w] # "idle" =>
    \A t \in TreesOf(root[w], graph[w]) : \A i \in DOMAIN Needs[t] : Promised(w, Needs[t][i].name)

\* Off the overlapped trees one build inserts, and the staging is its own.
InsertsAlone ==
  \A v, w \in Workspaces :
    /\ phase[v] \in {"unpack", "publish"} /\ phase[w] \in {"unpack", "publish"}
    /\ hand[v] = hand[w] /\ hand[v] \notin overlapped
    => v = w

StagingIsOwn(w) ==
  hand[w] \notin overlapped =>
    /\ phase[w] = "unpack" => staging[hand[w]] = {Files[i] : i \in 1..unpacked[w]}
    /\ phase[w] = "publish" => staging[hand[w]] = Range(Files)

RegistryInv ==
  /\ InsertsAlone
  /\ \A w \in Workspaces : StagingIsOwn(w)
  /\ EntriesAreWhole

WalkInv(w) == StageIsKept(w) /\ Installed(graph[w]) /\ NothingIsForgotten(w)

Inv ==
  /\ TypeInv
  /\ RegistryInv
  /\ \A w \in Workspaces : WalkInv(w)
  /\ LocksAreInstalled

----------------------------------------------------------------------------
(* Sequences, and the two files *)

\* What Front and Last of a sequence that is not empty are.
LEMMA FrontAndLast ==
  ASSUME NEW S, NEW s \in Seq(S), s # <<>>
  PROVE  /\ Len(s) \in Nat \ {0}
         /\ Front(s) \in Seq(S) /\ Len(Front(s)) = Len(s) - 1
         /\ \A i \in 1..(Len(s) - 1) : Front(s)[i] = s[i]
         /\ Last(s) \in S /\ Last(s) = s[Len(s)]
<1>1. Len(s) \in Nat \ {0}
  OBVIOUS
<1>2. 1 \in Int /\ Len(s) - 1 \in Int /\ \A i \in 1..(Len(s) - 1) : s[i] \in S
  BY <1>1
<1>3. Front(s) \in Seq(S)
  BY <1>2, SubSeqProperties DEF Front
<1>4. Len(Front(s)) = Len(s) - 1
  <2> DEFINE n == Len(s) - 1
             f == SubSeq(s, 1, n)
  <2>1. Len(f) = IF 1 <= n THEN n - 1 + 1 ELSE 0
    BY <1>2, SubSeqProperties
  <2>2. Front(s) = f /\ n \in Nat
    BY <1>1 DEF Front
  <2> HIDE DEF n, f
  <2>3. Len(Front(s)) = n
    BY <2>1, <2>2
  <2> QED BY <2>3 DEF n
<1>5. \A i \in 1..(Len(s) - 1) : Front(s)[i] = s[i]
  <2>1. \A i \in 1..(Len(s) - 1 - 1 + 1) : Front(s)[i] = s[1 + i - 1]
    BY <1>2, SubSeqProperties DEF Front
  <2> QED BY <1>1, <2>1
<1>6. Last(s) \in S /\ Last(s) = s[Len(s)]
  BY <1>1 DEF Last
<1> QED BY <1>1, <1>3, <1>4, <1>5, <1>6

\* Length and domain of a sequence.
LEMMA SeqFacts ==
  ASSUME NEW S, NEW s \in Seq(S)
  PROVE  Len(s) \in Nat /\ DOMAIN s = 1..Len(s) /\ (s = <<>> <=> Len(s) = 0)
OBVIOUS

\* The files of the model.
LEMMA FilesType ==
  /\ Len(Files) = 2 /\ DOMAIN Files = 1..2
  /\ Range(Files) = {Files[1], Files[2]}
  /\ None \notin SUBSET Range(Files)
<1>1. Len(Files) = 2 /\ DOMAIN Files = 1..2
  BY DEF Files
<1>2. Range(Files) = {Files[i] : i \in 1..2}
  BY <1>1 DEF Range
<1>3. Range(Files) = {Files[1], Files[2]}
  BY <1>2
<1>4. None \notin SUBSET Range(Files)
  BY PackagesAssumption
<1> QED BY <1>1, <1>3, <1>4

\* A graph with one name more.
LEMMA GraphGrows ==
  ASSUME NEW g \in Graph, NEW n \in Names, NEW d \in Node
  PROVE  [m \in DOMAIN g \cup {n} |-> IF m \in DOMAIN g THEN g[m] ELSE d] \in Graph
<1>1. PICK S \in SUBSET Names : g \in [S -> Node]
  BY DEF Graph
<1>2. DOMAIN g = S /\ S \cup {n} \in SUBSET Names
  BY <1>1
<1>3. [m \in DOMAIN g \cup {n} |-> IF m \in DOMAIN g THEN g[m] ELSE d] \in [S \cup {n} -> Node]
  BY <1>1, <1>2
<1> QED BY <1>2, <1>3 DEF Graph

\* The empty graph.
LEMMA EmptyGraph == <<>> \in Graph /\ DOMAIN <<>> = {}
<1>1. DOMAIN <<>> = {}
  OBVIOUS
<1>2. <<>> \in [{} -> Node]
  OBVIOUS
<1> QED BY <1>1, <1>2 DEF Graph

\* The innermost level of the walk, and the stack without its first dependency.
LEMMA WantedType ==
  ASSUME TypeInv, NEW w \in Workspaces, todo[w] # <<>>, Level(w) # <<>>
  PROVE  /\ Level(w) \in Seq(Dependency) /\ Len(Level(w)) \in Nat \ {0}
         /\ Level(w) = todo[w][Len(todo[w])] /\ Len(todo[w]) \in Nat \ {0}
         /\ Wanted(w) \in Dependency /\ Wanted(w) = Level(w)[1]
         /\ Without(w) \in Seq(Seq(Dependency)) /\ Len(Without(w)) = Len(todo[w])
         /\ \A k \in 1..(Len(todo[w]) - 1) : Without(w)[k] = todo[w][k]
         /\ Len(Without(w)[Len(todo[w])]) = Len(Level(w)) - 1
         /\ \A j \in 1..(Len(Level(w)) - 1) : Without(w)[Len(todo[w])][j] = Level(w)[j + 1]
<1>1. todo[w] \in Seq(Seq(Dependency))
  BY DEF TypeInv
<1>2. /\ Len(todo[w]) \in Nat \ {0}
      /\ Front(todo[w]) \in Seq(Seq(Dependency)) /\ Len(Front(todo[w])) = Len(todo[w]) - 1
      /\ Level(w) \in Seq(Dependency) /\ Level(w) = todo[w][Len(todo[w])]
  BY <1>1, FrontAndLast DEF Level
<1>3. \A k \in 1..(Len(todo[w]) - 1) : Front(todo[w])[k] = todo[w][k]
  BY <1>1, FrontAndLast
<1> DEFINE l == Level(w)
<1>4. /\ l \in Seq(Dependency) /\ l # <<>>
  BY <1>2
<1> HIDE DEF l
<1>5. /\ Len(l) \in Nat \ {0} /\ Head(l) \in Dependency /\ Head(l) = l[1]
      /\ Tail(l) \in Seq(Dependency) /\ Len(Tail(l)) = Len(l) - 1
      /\ \A j \in 1..(Len(l) - 1) : Tail(l)[j] = l[j + 1]
  BY <1>4
<1> DEFINE f == Front(todo[w])
           m == Tail(l)
<1>6. Without(w) = Append(f, m)
  BY DEF Without, l
<1>7. f \in Seq(Seq(Dependency)) /\ m \in Seq(Dependency) /\ Len(f) = Len(todo[w]) - 1
  BY <1>2, <1>5
<1> HIDE DEF f, m
<1>8. /\ Append(f, m) \in Seq(Seq(Dependency)) /\ Len(Append(f, m)) = Len(f) + 1
      /\ Append(f, m)[Len(f) + 1] = m
      /\ \A k \in 1..Len(f) : Append(f, m)[k] = f[k]
  BY <1>7
<1>9. /\ Without(w) \in Seq(Seq(Dependency)) /\ Len(Without(w)) = Len(todo[w])
      /\ Without(w)[Len(todo[w])] = m
      /\ \A k \in 1..(Len(todo[w]) - 1) : Without(w)[k] = todo[w][k]
  BY <1>2, <1>3, <1>6, <1>7, <1>8 DEF f
<1> QED BY <1>2, <1>5, <1>9 DEF l, m, Wanted

----------------------------------------------------------------------------
(* What a step leaves alone *)

EntriesStay == \A t \in Trees : entry[t] # None => entry'[t] = entry[t]

RowIsKept(w) ==
  /\ phase'[w] = phase[w] /\ root'[w] = root[w] /\ path'[w] = path[w] /\ todo'[w] = todo[w]
  /\ graph'[w] = graph[w] /\ hand'[w] = hand[w] /\ unpacked'[w] = unpacked[w]

Build(w) ==
  \/ Begin(w) \/ Stop(w) \/ Ascend(w) \/ Known(w) \/ Archive(w)
  \/ Look(w) \/ Clear(w) \/ Unpack(w) \/ Publish(w) \/ Read(w) \/ Save(w)

\* An entry is never written again.
LEMMA EntriesAreNeverRewritten ==
  ASSUME TypeInv, NEW w \in Workspaces, Build(w) PROVE EntriesStay
<1>1. CASE Publish(w)
  BY <1>1 DEF Publish, TypeInv, EntriesStay
<1>2. CASE entry' = entry
  BY <1>2 DEF EntriesStay
<1> QED BY <1>1, <1>2 DEF Build, Begin, Stop, Ascend, Known, Archive, Look, Clear, Unpack,
                          Read, Save, disk

\* The step of a build is no step of another.
LEMMA OthersRest ==
  ASSUME TypeInv, NEW w \in Workspaces, Build(w), NEW v \in Workspaces, v # w
  PROVE  RowIsKept(v)
<1> USE DEF TypeInv, RowIsKept, disk
<1>1. CASE Begin(w) \/ Stop(w)
  BY <1>1 DEF Begin, Stop
<1>2. CASE Ascend(w) \/ Known(w) \/ Archive(w) \/ Look(w)
  BY <1>2 DEF Ascend, Known, Archive, Look
<1>3. CASE Clear(w) \/ Unpack(w) \/ Publish(w)
  BY <1>3 DEF Clear, Unpack, Publish
<1>4. CASE Read(w) \/ Save(w)
  BY <1>4 DEF Read, Save
<1> QED BY <1>1, <1>2, <1>3, <1>4 DEF Build

\* What is installed stays installed.
LEMMA InstalledStays ==
  ASSUME EntriesStay, NEW g \in Graph, Installed(g) PROVE Installed(g)'
<1>1. \A n \in DOMAIN g : g[n].tree \in Trees
  BY DEF Graph, Node
<1> QED BY <1>1 DEF EntriesStay, Installed

\* A build that rests keeps what it has.
LEMMA RestKeepsWalk ==
  ASSUME TypeInv, EntriesStay, NEW w \in Workspaces, WalkInv(w), RowIsKept(w)
  PROVE  WalkInv(w)'
<1>1. StageIsKept(w)'
  BY DEF WalkInv, StageIsKept, RowIsKept, EntriesStay, Level, Insertion
<1>2. Installed(graph[w])'
  BY InstalledStays DEF TypeInv, WalkInv, RowIsKept, Installed
<1>3. NothingIsForgotten(w)'
  BY DEF WalkInv, NothingIsForgotten, RowIsKept, Promised, TreesOf
<1> QED BY <1>1, <1>2, <1>3 DEF WalkInv

----------------------------------------------------------------------------
(* The registry *)

\* Steps that neither touch the registry nor begin or go on with an insertion.
LEMMA QuietKeepsRegistry ==
  ASSUME RegistryInv, UNCHANGED <<entry, staging, overlapped>>,
         \A v \in Workspaces : phase'[v] \in {"unpack", "publish"} =>
           phase'[v] = phase[v] /\ hand'[v] = hand[v] /\ unpacked'[v] = unpacked[v]
  PROVE  RegistryInv'
<1>1. InsertsAlone'
  BY DEF RegistryInv, InsertsAlone
<1>2. ASSUME NEW v \in Workspaces PROVE StagingIsOwn(v)'
  BY DEF RegistryInv, StagingIsOwn
<1>3. EntriesAreWhole'
  BY DEF RegistryInv, EntriesAreWhole
<1> QED BY <1>1, <1>2, <1>3 DEF RegistryInv

\* An insertion begins: with an empty directory, or beside another one.
LEMMA ClearKeepsRegistry ==
  ASSUME Inv, NEW w \in Workspaces, Clear(w) PROVE RegistryInv'
<1> DEFINE t == hand[w]
<1>1. /\ phase[w] = "clear" /\ entry' = entry /\ hand' = hand
      /\ staging' = [staging EXCEPT ![t] = {}]
      /\ unpacked' = [unpacked EXCEPT ![w] = 0]
      /\ phase' = [phase EXCEPT ![w] = "unpack"]
      /\ overlapped' = IF \E v \in Workspaces : Inserting(v, t) THEN overlapped \cup {t}
                                                                ELSE overlapped
  BY DEF Clear
<1>2. TypeInv /\ RegistryInv /\ t \in Trees
  BY <1>1 DEF Inv, WalkInv, StageIsKept, Insertion
<1>3. /\ phase'[w] = "unpack" /\ unpacked'[w] = 0 /\ staging'[t] = {}
      /\ \A v \in Workspaces : v # w => phase'[v] = phase[v] /\ unpacked'[v] = unpacked[v]
      /\ \A u \in Trees : u # t => staging'[u] = staging[u]
      /\ overlapped \subseteq overlapped'
  BY <1>1, <1>2 DEF TypeInv
<1>4. ASSUME NEW v \in Workspaces, v # w, phase[v] \in {"unpack", "publish"}, hand[v] = t
      PROVE  t \in overlapped'
  BY <1>1, <1>4 DEF Inserting
<1>5. InsertsAlone'
  BY <1>1, <1>2, <1>3, <1>4 DEF RegistryInv, InsertsAlone
<1>6. ASSUME NEW v \in Workspaces, hand'[v] \notin overlapped' PROVE StagingIsOwn(v)'
  <2>1. CASE v = w
    <3>1. {Files[i] : i \in 1..0} = {}
      OBVIOUS
    <3> QED BY <1>1, <1>3, <2>1, <3>1 DEF StagingIsOwn
  <2>2. CASE v # w /\ phase[v] \in {"unpack", "publish"}
    <3>1. hand[v] # t /\ hand[v] \notin overlapped
      BY <1>1, <1>3, <1>4, <1>6, <2>2
    <3>2. hand[v] \in Trees
      BY <2>2 DEF Inv, WalkInv, StageIsKept, Insertion
    <3> QED BY <1>1, <1>2, <1>3, <2>2, <3>1, <3>2 DEF RegistryInv, StagingIsOwn
  <2>3. CASE v # w /\ phase[v] \notin {"unpack", "publish"}
    BY <1>3, <2>3 DEF StagingIsOwn
  <2> QED BY <2>1, <2>2, <2>3
<1>7. \A v \in Workspaces : StagingIsOwn(v)'
  BY <1>6 DEF StagingIsOwn
<1>8. EntriesAreWhole'
  BY <1>1, <1>2, <1>3 DEF RegistryInv, EntriesAreWhole
<1> QED BY <1>5, <1>7, <1>8 DEF RegistryInv

\* The next file joins those this build has unpacked.
LEMMA UnpackKeepsRegistry ==
  ASSUME Inv, NEW w \in Workspaces, Unpack(w) PROVE RegistryInv'
<1> DEFINE t == hand[w]
           there == IF staging[t] = None THEN {} ELSE staging[t]
           n == unpacked[w]
<1>1. /\ phase[w] = "unpack" /\ entry' = entry /\ hand' = hand /\ overlapped' = overlapped
      /\ staging' = [staging EXCEPT ![t] = there \cup {Files[n + 1]}]
      /\ unpacked' = [unpacked EXCEPT ![w] = n + 1]
      /\ phase' = [phase EXCEPT ![w] = IF n + 1 = Len(Files) THEN "publish" ELSE "unpack"]
  BY DEF Unpack
<1>2. TypeInv /\ RegistryInv /\ t \in Trees /\ n \in 0..1
  BY <1>1, FilesType DEF Inv, TypeInv, WalkInv, StageIsKept, Insertion
<1>3. /\ phase'[w] \in {"unpack", "publish"} /\ phase'[w] = "publish" <=> n + 1 = 2
      /\ unpacked'[w] = n + 1
      /\ staging'[t] = there \cup {Files[n + 1]}
      /\ \A v \in Workspaces : v # w => phase'[v] = phase[v] /\ unpacked'[v] = unpacked[v]
      /\ \A u \in Trees : u # t => staging'[u] = staging[u]
  BY <1>1, <1>2, FilesType DEF TypeInv
<1>4. ASSUME NEW v \in Workspaces, v # w, phase[v] \in {"unpack", "publish"}, hand[v] = t
      PROVE  t \in overlapped
  BY <1>1, <1>2, <1>4 DEF RegistryInv, InsertsAlone
<1>5. InsertsAlone'
  BY <1>1, <1>2, <1>3 DEF RegistryInv, InsertsAlone
<1>6. ASSUME NEW v \in Workspaces, hand'[v] \notin overlapped' PROVE StagingIsOwn(v)'
  <2>1. CASE v = w
    <3>1. staging[t] = {Files[i] : i \in 1..n}
      BY <1>1, <1>2, <1>6, <2>1 DEF RegistryInv, StagingIsOwn
    <3>2. staging[t] \in SUBSET Range(Files)
      BY <1>2, <3>1, FilesType
    <3>3. staging'[t] = {Files[i] : i \in 1..n} \cup {Files[n + 1]}
      BY <1>3, <3>1, <3>2, FilesType
    <3>4. staging'[t] = {Files[i] : i \in 1..(n + 1)}
      BY <1>2, <3>3
    <3>5. n = 1 => staging'[t] = Range(Files)
      BY <3>3, FilesType
    <3> QED BY <1>1, <1>2, <1>3, <2>1, <3>4, <3>5 DEF StagingIsOwn
  <2>2. CASE v # w /\ phase[v] \in {"unpack", "publish"}
    <3>1. hand[v] # t /\ hand[v] \notin overlapped
      BY <1>1, <1>4, <1>6, <2>2
    <3>2. hand[v] \in Trees
      BY <2>2 DEF Inv, WalkInv, StageIsKept, Insertion
    <3>3. /\ phase'[v] = phase[v] /\ hand'[v] = hand[v] /\ unpacked'[v] = unpacked[v]
          /\ staging'[hand[v]] = staging[hand[v]]
      BY <1>1, <1>3, <2>2, <3>1, <3>2
    <3>4. StagingIsOwn(v)
      BY <1>2 DEF RegistryInv
    <3> QED BY <3>1, <3>3, <3>4 DEF StagingIsOwn
  <2>3. CASE v # w /\ phase[v] \notin {"unpack", "publish"}
    BY <1>3, <2>3 DEF StagingIsOwn
  <2> QED BY <2>1, <2>2, <2>3
<1>7. \A v \in Workspaces : StagingIsOwn(v)'
  BY <1>6 DEF StagingIsOwn
<1>8. EntriesAreWhole'
  BY <1>1, <1>2 DEF RegistryInv, EntriesAreWhole
<1> QED BY <1>5, <1>7, <1>8 DEF RegistryInv

\* What is published is all this build has unpacked.
LEMMA PublishKeepsRegistry ==
  ASSUME Inv, NEW w \in Workspaces, Publish(w) PROVE RegistryInv'
<1> DEFINE t == hand[w]
<1>1. /\ phase[w] = "publish" /\ hand' = hand /\ overlapped' = overlapped /\ unpacked' = unpacked
      /\ entry' = [entry EXCEPT ![t] = staging[t]]
      /\ staging' = [staging EXCEPT ![t] = None]
      /\ phase' = [phase EXCEPT ![w] = "read"]
  BY DEF Publish
<1>2. TypeInv /\ RegistryInv /\ t \in Trees
  BY <1>1 DEF Inv, WalkInv, StageIsKept, Insertion
<1>3. /\ phase'[w] = "read" /\ entry'[t] = staging[t]
      /\ \A v \in Workspaces : v # w => phase'[v] = phase[v]
      /\ \A u \in Trees : u # t => staging'[u] = staging[u] /\ entry'[u] = entry[u]
  BY <1>1, <1>2 DEF TypeInv
<1>4. InsertsAlone'
  BY <1>1, <1>2, <1>3 DEF RegistryInv, InsertsAlone
<1>5. ASSUME NEW v \in Workspaces PROVE StagingIsOwn(v)'
  <2>1. CASE v = w
    BY <1>3, <2>1 DEF StagingIsOwn
  <2>2. CASE v # w /\ phase[v] \in {"unpack", "publish"} /\ hand[v] \notin overlapped
    <3>1. hand[v] # t
      BY <1>1, <1>2, <2>2 DEF RegistryInv, InsertsAlone
    <3>2. hand[v] \in Trees
      BY <2>2 DEF Inv, WalkInv, StageIsKept, Insertion
    <3>3. /\ phase'[v] = phase[v] /\ hand'[v] = hand[v] /\ unpacked'[v] = unpacked[v]
          /\ staging'[hand[v]] = staging[hand[v]]
      BY <1>1, <1>3, <2>2, <3>1, <3>2
    <3>4. StagingIsOwn(v)
      BY <1>2 DEF RegistryInv
    <3> QED BY <2>2, <3>3, <3>4 DEF StagingIsOwn
  <2>3. CASE v # w /\ (phase[v] \notin {"unpack", "publish"} \/ hand[v] \in overlapped)
    BY <1>1, <1>3, <2>3 DEF StagingIsOwn
  <2> QED BY <2>1, <2>2, <2>3
<1>6. t \notin overlapped => staging[t] = Range(Files)
  BY <1>1, <1>2 DEF RegistryInv, StagingIsOwn
<1>7. EntriesAreWhole'
  BY <1>1, <1>2, <1>3, <1>6 DEF RegistryInv, EntriesAreWhole
<1> QED BY <1>4, <1>5, <1>7 DEF RegistryInv

\* Every step of a build keeps the registry in order.
LEMMA BuildKeepsRegistry ==
  ASSUME Inv, NEW w \in Workspaces, Build(w) PROVE RegistryInv'
<1>1. CASE Clear(w) \/ Unpack(w) \/ Publish(w)
  BY <1>1, ClearKeepsRegistry, UnpackKeepsRegistry, PublishKeepsRegistry
<1> USE DEF Inv, TypeInv, disk
<1>2. CASE Begin(w) \/ Stop(w)
  BY <1>2, QuietKeepsRegistry DEF Begin, Stop
<1>3. CASE Ascend(w) \/ Known(w) \/ Archive(w) \/ Look(w)
  BY <1>3, QuietKeepsRegistry DEF Ascend, Known, Archive, Look
<1>4. CASE Read(w) \/ Save(w)
  BY <1>4, QuietKeepsRegistry DEF Read, Save
<1> QED BY <1>1, <1>2, <1>3, <1>4 DEF Build

----------------------------------------------------------------------------
(* One build *)

\* The dependencies of a tree.
LEMMA NeedsType == ASSUME NEW t \in Trees PROVE Needs[t] \in Seq(Dependency)
BY PackagesAssumption DEF Dependency

\* A build begins with what its own workspace needs.
LEMMA BeginKeepsWalk ==
  ASSUME Inv, NEW w \in Workspaces, Begin(w) PROVE TypeInv' /\ WalkInv(w)'
<1>1. /\ phase[w] = "idle" /\ builds < MaxBuilds /\ builds' = builds + 1
      /\ phase' = [phase EXCEPT ![w] = "walk"]
      /\ root' = [root EXCEPT ![w] = at[w]]
      /\ path' = [path EXCEPT ![w] = <<RootName>>]
      /\ todo' = [todo EXCEPT ![w] = <<Needs[at[w]]>>]
      /\ undisturbed' = [undisturbed EXCEPT ![w] = TRUE]
      /\ UNCHANGED <<at, entry, staging, lock, overlapped, edits, graph, hand, unpacked>>
  BY DEF Begin
<1>2. TypeInv /\ WalkInv(w) /\ at[w] \in Trees
  BY PackagesAssumption DEF Inv, TypeInv
<1>3. Needs[at[w]] \in Seq(Dependency)
  BY <1>2, NeedsType
<1> DEFINE d == Needs[at[w]]
<1> HIDE DEF d
<1>4. d \in Seq(Dependency) /\ todo' = [todo EXCEPT ![w] = <<d>>]
  BY <1>1, <1>3 DEF d
<1>5. <<RootName>> \in Seq(Names) /\ <<d>> \in Seq(Seq(Dependency))
      /\ Len(<<RootName>>) = 1 /\ Len(<<d>>) = 1 /\ <<d>> # <<>> /\ <<d>>[1] = d
  BY <1>4, PackagesAssumption
<1>6. TypeInv'
  <2>1. phase' \in [Workspaces -> Phases] /\ root' \in [Workspaces -> Trees]
        /\ undisturbed' \in [Workspaces -> BOOLEAN] /\ builds' \in 0..MaxBuilds
    BY <1>1, <1>2, PackagesAssumption DEF TypeInv, Phases
  <2>2. path' \in [Workspaces -> Seq(Names)] /\ todo' \in [Workspaces -> Seq(Seq(Dependency))]
    BY <1>1, <1>2, <1>4, <1>5 DEF TypeInv
  <2> QED BY <1>1, <1>2, <2>1, <2>2 DEF TypeInv
<1>7. /\ phase'[w] = "walk" /\ root'[w] = at[w] /\ path'[w] = <<RootName>> /\ todo'[w] = <<d>>
      /\ graph'[w] = <<>>
  BY <1>1, <1>2, <1>4 DEF TypeInv, WalkInv, StageIsKept
<1>8. StageIsKept(w)'
  BY <1>5, <1>7 DEF StageIsKept, Insertion
<1>9. Installed(graph[w])'
  BY <1>7, EmptyGraph DEF Installed
<1>10. NothingIsForgotten(w)'
  <2>1. TreesOf(root'[w], graph'[w]) = {at[w]}
    BY <1>7, EmptyGraph DEF TreesOf
  <2>2. ASSUME NEW i \in DOMAIN d
        PROVE  \E k \in DOMAIN todo'[w] : \E j \in DOMAIN todo'[w][k] :
                 todo'[w][k][j].name = d[i].name
    <3>1. DOMAIN <<d>> = 1..1 /\ 1 \in DOMAIN <<d>>
      OBVIOUS
    <3>2. 1 \in DOMAIN todo'[w] /\ todo'[w][1] = d
      BY <1>5, <1>7, <3>1
    <3>3. \E j \in DOMAIN todo'[w][1] : todo'[w][1][j].name = d[i].name
      BY <2>2, <3>2
    <3> QED BY <3>2, <3>3
  <2>3. \A t \in {at[w]} : Needs[t] = d
    BY DEF d
  <2> QED BY <2>1, <2>2, <2>3 DEF NothingIsForgotten, Promised
<1> QED BY <1>6, <1>8, <1>9, <1>10 DEF WalkInv

\* A build that stops has nothing left.
LEMMA StopKeepsWalk ==
  ASSUME Inv, NEW w \in Workspaces, Stop(w) PROVE TypeInv' /\ WalkInv(w)'
<1>1. /\ phase' = [phase EXCEPT ![w] = "idle"]
      /\ path' = [path EXCEPT ![w] = <<>>] /\ todo' = [todo EXCEPT ![w] = <<>>]
      /\ graph' = [graph EXCEPT ![w] = <<>>]
      /\ hand' = [hand EXCEPT ![w] = None] /\ unpacked' = [unpacked EXCEPT ![w] = 0]
      /\ undisturbed' = [undisturbed EXCEPT ![w] = FALSE]
      /\ UNCHANGED <<at, entry, staging, lock, overlapped, builds, edits, root>>
  BY DEF Stop, disk
<1>2. TypeInv
  BY DEF Inv
<1>3. <<>> \in Seq(Names) /\ <<>> \in Seq(Seq(Dependency)) /\ Len(<<>>) = 0
  OBVIOUS
<1>4. TypeInv'
  <2>1. /\ phase' \in [Workspaces -> Phases] /\ undisturbed' \in [Workspaces -> BOOLEAN]
        /\ hand' \in [Workspaces -> Trees \cup {None}]
        /\ unpacked' \in [Workspaces -> 0..Len(Files)]
    BY <1>1, <1>2, FilesType DEF TypeInv, Phases
  <2>2. path' \in [Workspaces -> Seq(Names)] /\ todo' \in [Workspaces -> Seq(Seq(Dependency))]
    BY <1>1, <1>2, <1>3 DEF TypeInv
  <2>3. graph' \in [Workspaces -> Graph]
    BY <1>1, <1>2, EmptyGraph DEF TypeInv
  <2> QED BY <1>1, <1>2, <2>1, <2>2, <2>3 DEF TypeInv
<1>5. phase'[w] = "idle" /\ path'[w] = <<>> /\ todo'[w] = <<>> /\ graph'[w] = <<>>
  BY <1>1, <1>2 DEF TypeInv
<1>6. StageIsKept(w)' /\ NothingIsForgotten(w)'
  BY <1>3, <1>5 DEF StageIsKept, NothingIsForgotten, Insertion
<1>7. Installed(graph[w])'
  BY <1>5, EmptyGraph DEF Installed
<1> QED BY <1>4, <1>6, <1>7 DEF WalkInv

\* Where graph and entries are left alone, what is promised and installed stays.
LEMMA PromisesStay ==
  ASSUME Inv, NEW w \in Workspaces, EntriesStay, phase[w] # "idle",
         root'[w] = root[w], graph'[w] = graph[w],
         \A name : Promised(w, name) => Promised(w, name)'
  PROVE  Installed(graph[w])' /\ NothingIsForgotten(w)'
<1>1. graph[w] \in Graph /\ WalkInv(w)
  BY DEF Inv, TypeInv
<1>2. Installed(graph[w])'
  BY <1>1, InstalledStays DEF WalkInv, Installed
<1>3. NothingIsForgotten(w)'
  BY <1>1 DEF WalkInv, NothingIsForgotten
<1> QED BY <1>2, <1>3

\* An innermost package without dependencies left promises nothing.
LEMMA AscendKeepsWalk ==
  ASSUME Inv, NEW w \in Workspaces, Ascend(w) PROVE TypeInv' /\ WalkInv(w)'
<1> DEFINE p == path[w]
           s == todo[w]
<1>1. /\ phase[w] = "walk" /\ Level(w) = <<>>
      /\ path' = [path EXCEPT ![w] = Front(p)] /\ todo' = [todo EXCEPT ![w] = Front(s)]
      /\ phase' = [phase EXCEPT ![w] = IF Len(p) = 1 THEN "save" ELSE "walk"]
      /\ UNCHANGED <<at, entry, staging, lock, overlapped, builds, edits, root, graph, hand,
                     unpacked, undisturbed>>
  BY DEF Ascend, disk
<1>2. TypeInv /\ WalkInv(w)
  BY DEF Inv
<1>3. /\ p \in Seq(Names) /\ s \in Seq(Seq(Dependency)) /\ s # <<>> /\ Len(p) = Len(s)
  BY <1>1, <1>2 DEF TypeInv, WalkInv, StageIsKept
<1>4. p # <<>>
  BY <1>3
<1>5. /\ Len(s) \in Nat \ {0} /\ Len(Front(s)) = Len(s) - 1 /\ Len(Front(p)) = Len(s) - 1
      /\ Front(s) \in Seq(Seq(Dependency)) /\ Front(p) \in Seq(Names)
      /\ \A k \in 1..(Len(s) - 1) : Front(s)[k] = s[k]
      /\ s[Len(s)] = <<>>
  BY <1>1, <1>3, <1>4, FrontAndLast DEF Level
<1>6. TypeInv'
  <2>1. phase' \in [Workspaces -> Phases]
    BY <1>1, <1>2 DEF TypeInv, Phases
  <2>2. path' \in [Workspaces -> Seq(Names)] /\ todo' \in [Workspaces -> Seq(Seq(Dependency))]
    BY <1>1, <1>2, <1>5 DEF TypeInv
  <2> QED BY <1>1, <1>2, <2>1, <2>2 DEF TypeInv
<1>7. /\ phase'[w] = IF Len(s) = 1 THEN "save" ELSE "walk"
      /\ path'[w] = Front(p) /\ todo'[w] = Front(s) /\ graph'[w] = graph[w]
  BY <1>1, <1>2, <1>3 DEF TypeInv
<1>8. todo'[w] = <<>> <=> Len(s) = 1
  <2>1. Front(s) = <<>> <=> Len(Front(s)) = 0
    BY <1>5, SeqFacts
  <2> QED BY <1>5, <1>7, <2>1
<1>9. StageIsKept(w)'
  BY <1>5, <1>7, <1>8 DEF StageIsKept, Insertion
<1>10. ASSUME NEW name, Promised(w, name) PROVE Promised(w, name)'
  <2>1. CASE name \in DOMAIN graph[w]
    BY <1>7, <2>1 DEF Promised
  <2>2. CASE \E k \in DOMAIN s : \E j \in DOMAIN s[k] : s[k][j].name = name
    <3>0. PICK k \in DOMAIN s : \E j \in DOMAIN s[k] : s[k][j].name = name
      BY <2>2
    <3>1. PICK j \in DOMAIN s[k] : s[k][j].name = name
      BY <3>0
    <3>2. k \in 1..Len(s) /\ k # Len(s)
      <4>1. DOMAIN s[Len(s)] = {}
        BY <1>5, EmptyGraph
      <4> QED BY <1>3, <3>1, <4>1, SeqFacts
    <3>3. k \in DOMAIN Front(s) /\ Front(s)[k] = s[k]
      <4>1. DOMAIN Front(s) = 1..(Len(s) - 1)
        BY <1>5, SeqFacts
      <4> QED BY <1>5, <3>2, <4>1
    <3> QED BY <1>7, <3>1, <3>3 DEF Promised
  <2> QED BY <1>10, <2>1, <2>2 DEF Promised
<1>11. Installed(graph[w])' /\ NothingIsForgotten(w)'
  BY <1>1, <1>10, PromisesStay DEF EntriesStay
<1> QED BY <1>6, <1>9, <1>11 DEF WalkInv

\* With the first dependency of the innermost package off the stack, what was
\* promised still is, but for the name of that dependency.
LEMMA WithoutKeepsPromises ==
  ASSUME TypeInv, NEW w \in Workspaces, todo[w] # <<>>, Level(w) # <<>>, NEW name,
         Promised(w, name)
  PROVE  \/ name \in DOMAIN graph[w] \/ name = Wanted(w).name
         \/ \E k \in DOMAIN Without(w) : \E j \in DOMAIN Without(w)[k] :
              Without(w)[k][j].name = name
<1> DEFINE s == todo[w]
           l == Level(w)
           r == Without(w)
<1>1. /\ s \in Seq(Seq(Dependency)) /\ l \in Seq(Dependency) /\ r \in Seq(Seq(Dependency))
      /\ l = s[Len(s)] /\ Len(r) = Len(s) /\ Len(s) \in Nat \ {0} /\ Len(l) \in Nat \ {0}
      /\ Wanted(w) = l[1]
      /\ Len(r[Len(s)]) = Len(l) - 1
  BY WantedType DEF TypeInv
<1>2. /\ \A k \in 1..(Len(s) - 1) : r[k] = s[k]
      /\ \A j \in 1..(Len(l) - 1) : r[Len(s)][j] = l[j + 1]
  BY WantedType
<1>3. DOMAIN s = 1..Len(s) /\ DOMAIN r = 1..Len(s) /\ DOMAIN l = 1..Len(l)
  BY <1>1, SeqFacts
<1>4. r[Len(s)] \in Seq(Dependency)
  BY <1>1
<1>5. DOMAIN r[Len(s)] = 1..(Len(l) - 1)
  BY <1>1, <1>4, SeqFacts
<1> HIDE DEF s, l, r
<1>6. CASE \E k \in DOMAIN s : \E j \in DOMAIN s[k] : s[k][j].name = name
  <2>1. PICK k \in DOMAIN s : \E j \in DOMAIN s[k] : s[k][j].name = name
    BY <1>6
  <2>2. PICK j \in DOMAIN s[k] : s[k][j].name = name
    BY <2>1
  <2>3. CASE k # Len(s)
    <3>1. k \in DOMAIN r /\ r[k] = s[k]
      <4>1. k \in 1..(Len(s) - 1)
        BY <1>1, <1>3, <2>3
      <4>2. k \in DOMAIN r
        BY <1>1, <1>3
      <4> QED BY <1>2, <4>1, <4>2
    <3>2. \E i \in DOMAIN r[k] : r[k][i].name = name
      BY <2>2, <3>1
    <3> QED BY <3>1, <3>2 DEF r
  <2>4. CASE k = Len(s) /\ j = 1
    BY <1>1, <2>2, <2>4
  <2>5. CASE k = Len(s) /\ j # 1
    <3>1. j \in 1..Len(l)
      BY <1>1, <1>3, <2>2, <2>5
    <3>2. j - 1 \in 1..(Len(l) - 1) /\ r[k][j - 1] = l[j]
      BY <1>1, <1>2, <2>5, <3>1
    <3>3. k \in DOMAIN r /\ j - 1 \in DOMAIN r[k] /\ r[k][j - 1].name = name
      BY <1>1, <1>3, <1>5, <2>2, <2>5, <3>2
    <3> QED BY <3>3 DEF r
  <2> QED BY <2>3, <2>4, <2>5
<1> QED BY <1>6 DEF Promised, s

\* A name in the graph already need not be walked.
LEMMA KnownKeepsWalk ==
  ASSUME Inv, NEW w \in Workspaces, Known(w) PROVE TypeInv' /\ WalkInv(w)'
<1>1. /\ phase[w] = "walk" /\ Level(w) # <<>> /\ Wanted(w).name \in DOMAIN graph[w]
      /\ todo' = [todo EXCEPT ![w] = Without(w)]
      /\ UNCHANGED <<at, entry, staging, lock, overlapped, builds, edits, phase, root, path, graph,
                     hand, unpacked, undisturbed>>
  BY DEF Known, disk
<1>2. TypeInv /\ WalkInv(w) /\ todo[w] # <<>>
  BY <1>1 DEF Inv, WalkInv, StageIsKept
<1>3. Without(w) \in Seq(Seq(Dependency)) /\ Len(Without(w)) = Len(todo[w])
      /\ Len(todo[w]) \in Nat \ {0}
  BY <1>1, <1>2, WantedType
<1>4. TypeInv' /\ todo'[w] = Without(w)
  BY <1>1, <1>2, <1>3 DEF TypeInv
<1>5. todo'[w] # <<>>
  BY <1>3, <1>4, SeqFacts
<1>6. StageIsKept(w)'
  BY <1>1, <1>2, <1>3, <1>4, <1>5 DEF WalkInv, StageIsKept, Insertion
<1>7. ASSUME NEW name, Promised(w, name) PROVE Promised(w, name)'
  BY <1>1, <1>2, <1>4, <1>7, WithoutKeepsPromises DEF Promised
<1>8. Installed(graph[w])' /\ NothingIsForgotten(w)'
  BY <1>1, <1>7, PromisesStay DEF EntriesStay
<1> QED BY <1>4, <1>6, <1>8 DEF WalkInv

\* Steps of the insertion leave the walk where it is.
LEMMA InsertionKeepsWalk ==
  ASSUME Inv, NEW w \in Workspaces,
         Archive(w) \/ Look(w) \/ Clear(w) \/ Unpack(w) \/ Publish(w)
  PROVE  TypeInv' /\ WalkInv(w)'
<1>1. /\ UNCHANGED <<at, root, path, todo, graph, lock, undisturbed, builds, edits>>
      /\ phase[w] \in {"walk", "look", "clear", "unpack", "publish"}
      /\ phase[w] = "walk" => Level(w) # <<>>
  BY DEF Archive, Look, Clear, Unpack, Publish, disk
<1>2. TypeInv /\ WalkInv(w) /\ todo[w] # <<>> /\ Level(w) # <<>>
  BY <1>1 DEF Inv, WalkInv, StageIsKept, Insertion
<1>3. phase[w] # "walk" => hand[w] \in Trees
  BY <1>1, <1>2 DEF WalkInv, StageIsKept, Insertion
<1>4. CASE Archive(w)
  <2>1. Wanted(w).place \in Places
    BY <1>2, WantedType DEF Dependency
  <2>2. /\ hand' = [hand EXCEPT ![w] = at[Wanted(w).place]]
        /\ phase' = [phase EXCEPT ![w] = "look"]
        /\ UNCHANGED <<entry, staging, overlapped, unpacked>>
    BY <1>4 DEF Archive, disk
  <2>3. at[Wanted(w).place] \in Trees
    BY <1>2, <2>1 DEF TypeInv
  <2>4. TypeInv'
    BY <1>1, <1>2, <2>2, <2>3 DEF TypeInv, Phases
  <2>5. phase'[w] = "look" /\ hand'[w] \in Trees
    BY <1>2, <2>2, <2>3 DEF TypeInv
  <2>6. StageIsKept(w)'
    BY <1>1, <1>2, <2>5 DEF WalkInv, StageIsKept, Insertion, Level
  <2> QED BY <1>1, <2>2, <2>4, <2>6, PromisesStay, <1>2 DEF WalkInv, Promised, EntriesStay
<1>5. CASE Look(w)
  <2>1. /\ phase' = [phase EXCEPT ![w] = IF entry[hand[w]] # None THEN "read" ELSE "clear"]
        /\ UNCHANGED <<entry, staging, overlapped, unpacked, hand>>
        /\ phase[w] = "look"
    BY <1>5 DEF Look, disk
  <2>2. TypeInv'
    BY <1>1, <1>2, <2>1 DEF TypeInv, Phases
  <2>3. phase'[w] = IF entry[hand[w]] # None THEN "read" ELSE "clear"
    BY <1>2, <2>1 DEF TypeInv
  <2>4. StageIsKept(w)'
    BY <1>1, <1>2, <1>3, <2>1, <2>3 DEF WalkInv, StageIsKept, Insertion, Level
  <2> QED BY <1>1, <2>1, <2>2, <2>4, PromisesStay, <1>2 DEF WalkInv, Promised, EntriesStay
<1>6. CASE Clear(w)
  <2>1. /\ phase' = [phase EXCEPT ![w] = "unpack"] /\ unpacked' = [unpacked EXCEPT ![w] = 0]
        /\ staging' = [staging EXCEPT ![hand[w]] = {}]
        /\ overlapped' \in {overlapped, overlapped \cup {hand[w]}}
        /\ UNCHANGED <<entry, hand>> /\ phase[w] = "clear"
    BY <1>6 DEF Clear
  <2>2. TypeInv'
    BY <1>1, <1>2, <1>3, <2>1, FilesType DEF TypeInv, Phases
  <2>3. phase'[w] = "unpack" /\ unpacked'[w] = 0
    BY <1>2, <2>1 DEF TypeInv
  <2>4. StageIsKept(w)'
    BY <1>1, <1>2, <1>3, <2>1, <2>3, FilesType DEF WalkInv, StageIsKept, Insertion, Level
  <2> QED BY <1>1, <2>1, <2>2, <2>4, PromisesStay, <1>2 DEF WalkInv, Promised, EntriesStay
<1>7. CASE Unpack(w)
  <2> DEFINE there == IF staging[hand[w]] = None THEN {} ELSE staging[hand[w]]
  <2>1. /\ phase' = [phase EXCEPT ![w] =
                       IF unpacked[w] + 1 = Len(Files) THEN "publish" ELSE "unpack"]
        /\ unpacked' = [unpacked EXCEPT ![w] = unpacked[w] + 1]
        /\ staging' = [staging EXCEPT ![hand[w]] = there \cup {Files[unpacked[w] + 1]}]
        /\ UNCHANGED <<entry, hand, overlapped>> /\ phase[w] = "unpack"
    BY <1>7 DEF Unpack
  <2>2. unpacked[w] \in 0..1
    BY <1>2, <2>1, FilesType DEF TypeInv, WalkInv, StageIsKept
  <2>3. there \cup {Files[unpacked[w] + 1]} \in SUBSET Range(Files)
    <3>1. there \in SUBSET Range(Files)
      <4>1. staging[hand[w]] \in (SUBSET Range(Files)) \cup {None}
        BY <1>2, <1>3, <2>1 DEF TypeInv
      <4>2. CASE staging[hand[w]] = None
        BY <4>2
      <4>3. CASE staging[hand[w]] # None
        BY <4>1, <4>3
      <4> QED BY <4>2, <4>3
    <3>2. Files[unpacked[w] + 1] \in Range(Files)
      BY <2>2, FilesType
    <3> QED BY <3>1, <3>2
  <2> HIDE DEF there
  <2>4. TypeInv'
    <3>1. staging' \in [Trees -> (SUBSET Range(Files)) \cup {None}]
      BY <1>2, <2>1, <2>3 DEF TypeInv
    <3>2. phase' \in [Workspaces -> Phases]
      BY <1>2, <2>1 DEF TypeInv, Phases
    <3>3. unpacked' \in [Workspaces -> 0..Len(Files)]
      BY <1>2, <2>1, <2>2, FilesType DEF TypeInv
    <3> QED BY <1>1, <1>2, <2>1, <3>1, <3>2, <3>3 DEF TypeInv
  <2>5. /\ phase'[w] \in {"unpack", "publish"} /\ phase'[w] = "unpack" => unpacked[w] # 1
        /\ unpacked'[w] = unpacked[w] + 1
    BY <1>2, <2>1, FilesType DEF TypeInv
  <2>6. StageIsKept(w)'
    BY <1>1, <1>2, <1>3, <2>1, <2>2, <2>5, FilesType DEF WalkInv, StageIsKept, Insertion, Level
  <2> QED BY <1>1, <2>1, <2>4, <2>6, PromisesStay, <1>2 DEF WalkInv, Promised, EntriesStay
<1>8. CASE Publish(w)
  <2>1. /\ staging[hand[w]] # None
        /\ entry' = [entry EXCEPT ![hand[w]] = staging[hand[w]]]
        /\ staging' = [staging EXCEPT ![hand[w]] = None]
        /\ phase' = [phase EXCEPT ![w] = "read"]
        /\ UNCHANGED <<hand, unpacked, overlapped>> /\ phase[w] = "publish"
    BY <1>8 DEF Publish
  <2>2. TypeInv'
    <3> DEFINE F == (SUBSET Range(Files)) \cup {None}
    <3>1. /\ hand[w] \in Trees /\ None \in F
          /\ entry \in [Trees -> F] /\ staging \in [Trees -> F]
      <4>1. hand[w] \in Trees /\ None \in F
        BY <1>3, <2>1
      <4> HIDE DEF F
      <4>2. entry \in [Trees -> F] /\ staging \in [Trees -> F]
        BY <1>2 DEF TypeInv, F
      <4> QED BY <4>1, <4>2
    <3> HIDE DEF F
    <3>2. entry' \in [Trees -> F] /\ staging' \in [Trees -> F]
      BY <2>1, <3>1
    <3>3. phase' \in [Workspaces -> Phases]
      BY <1>2, <2>1 DEF TypeInv, Phases
    <3> QED BY <1>1, <1>2, <2>1, <3>2, <3>3 DEF TypeInv, F
  <2>3. phase'[w] = "read" /\ entry'[hand[w]] # None
    BY <1>2, <1>3, <2>1 DEF TypeInv
  <2>4. StageIsKept(w)'
    BY <1>1, <1>2, <1>3, <2>1, <2>3 DEF WalkInv, StageIsKept, Insertion, Level
  <2>5. EntriesStay
    BY <1>2, <1>8, EntriesAreNeverRewritten DEF Build
  <2> QED BY <1>1, <2>1, <2>2, <2>4, <2>5, PromisesStay, <1>2 DEF WalkInv, Promised
<1> QED BY <1>4, <1>5, <1>6, <1>7, <1>8

\* What is read is in the graph; what it needs is on the stack.
LEMMA ReadKeepsWalk ==
  ASSUME Inv, NEW w \in Workspaces, Read(w) PROVE TypeInv' /\ WalkInv(w)'
<1> DEFINE g == graph[w]
           n == Wanted(w).name
           t == hand[w]
           d == Found(w)
           g2 == [m \in DOMAIN g \cup {n} |-> IF m \in DOMAIN g THEN g[m] ELSE d]
           needs == Needs[t]
           s2 == Append(Without(w), needs)
           p2 == Append(path[w], n)
<1>1. /\ phase[w] = "read" /\ Files[1] \in entry[t]
      /\ graph' = [graph EXCEPT ![w] = g2]
      /\ path' = [path EXCEPT ![w] = p2]
      /\ todo' = [todo EXCEPT ![w] = s2]
      /\ phase' = [phase EXCEPT ![w] = "walk"]
      /\ hand' = [hand EXCEPT ![w] = None] /\ unpacked' = [unpacked EXCEPT ![w] = 0]
      /\ UNCHANGED <<at, entry, staging, lock, overlapped, builds, edits, root, undisturbed>>
  BY DEF Read, disk
<1>2. TypeInv /\ WalkInv(w) /\ todo[w] # <<>> /\ Level(w) # <<>> /\ t \in Trees /\ entry[t] # None
  BY <1>1 DEF Inv, WalkInv, StageIsKept, Insertion
<1>3. n \in Names /\ Wanted(w).place \in Places
  BY <1>2, WantedType DEF Dependency
<1>4. g \in Graph /\ d \in Node /\ d.tree = t
  BY <1>2, <1>3 DEF TypeInv, Found, Node
<1>5. g2 \in Graph
  BY <1>3, <1>4, GraphGrows
<1>6. /\ DOMAIN g2 = DOMAIN g \cup {n}
      /\ \A m \in DOMAIN g : g2[m] = g[m]
      /\ n \notin DOMAIN g => g2[n] = d
  OBVIOUS
<1>7. needs \in Seq(Dependency)
  BY <1>2, NeedsType
<1>8. /\ Without(w) \in Seq(Seq(Dependency)) /\ Len(Without(w)) = Len(todo[w])
      /\ Len(todo[w]) \in Nat \ {0} /\ Len(path[w]) = Len(todo[w]) /\ path[w] \in Seq(Names)
  BY <1>2, WantedType DEF WalkInv, StageIsKept, TypeInv
<1> HIDE DEF needs
<1>9. /\ s2 \in Seq(Seq(Dependency)) /\ Len(s2) = Len(todo[w]) + 1
      /\ s2[Len(s2)] = needs
      /\ \A k \in 1..Len(todo[w]) : s2[k] = Without(w)[k]
  BY <1>7, <1>8
<1>10. p2 \in Seq(Names) /\ Len(p2) = Len(todo[w]) + 1
  BY <1>3, <1>8
<1>11. DOMAIN s2 = 1..(Len(todo[w]) + 1) /\ DOMAIN Without(w) = 1..Len(todo[w]) /\ s2 # <<>>
  <2>1. DOMAIN s2 = 1..Len(s2) /\ (s2 = <<>> <=> Len(s2) = 0)
    BY <1>9, SeqFacts
  <2>2. DOMAIN Without(w) = 1..Len(Without(w))
    BY <1>8, SeqFacts
  <2> HIDE DEF s2
  <2> QED BY <1>8, <1>9, <2>1, <2>2
<1> HIDE DEF g, n, t, d, g2, s2, p2
<1>12. TypeInv'
  <2>1. phase' \in [Workspaces -> Phases] /\ hand' \in [Workspaces -> Trees \cup {None}]
        /\ unpacked' \in [Workspaces -> 0..Len(Files)]
    BY <1>1, <1>2, FilesType DEF TypeInv, Phases
  <2>2. path' \in [Workspaces -> Seq(Names)] /\ todo' \in [Workspaces -> Seq(Seq(Dependency))]
    BY <1>1, <1>2, <1>9, <1>10 DEF TypeInv
  <2>3. graph' \in [Workspaces -> Graph]
    BY <1>1, <1>2, <1>5 DEF TypeInv
  <2> QED BY <1>1, <1>2, <2>1, <2>2, <2>3 DEF TypeInv
<1>13. /\ phase'[w] = "walk" /\ path'[w] = p2 /\ todo'[w] = s2 /\ graph'[w] = g2
       /\ root'[w] = root[w]
  BY <1>1, <1>2 DEF TypeInv
<1>14. StageIsKept(w)'
  BY <1>9, <1>10, <1>11, <1>13 DEF StageIsKept, Insertion
<1>15. ASSUME NEW m \in DOMAIN g2 PROVE g2[m].tree = t \/ (m \in DOMAIN g /\ g2[m] = g[m])
  <2>1. CASE m \in DOMAIN g
    BY <1>6, <2>1
  <2>2. CASE m \notin DOMAIN g
    <3>1. m = n /\ g2[m] = d
      BY <1>6, <2>2
    <3> QED BY <1>4, <3>1
  <2> QED BY <2>1, <2>2
<1>16. Installed(graph[w])'
  <2>1. Installed(g)
    BY <1>2 DEF WalkInv, g
  <2>2. \A m \in DOMAIN g2 : entry'[g2[m].tree] # None /\ Files[1] \in entry'[g2[m].tree]
    BY <1>1, <1>2, <1>15, <2>1 DEF Installed
  <2> QED BY <1>13, <2>2 DEF Installed
<1>17. ASSUME NEW name, Promised(w, name)
       PROVE  \/ name \in DOMAIN g2
              \/ \E k \in DOMAIN s2 : \E j \in DOMAIN s2[k] : s2[k][j].name = name
  <2>1. CASE name \in DOMAIN g \/ name = n
    BY <1>6, <2>1
  <2>2. CASE \E k \in DOMAIN Without(w) : \E j \in DOMAIN Without(w)[k] :
               Without(w)[k][j].name = name
    <3>1. PICK k \in DOMAIN Without(w) : \E j \in DOMAIN Without(w)[k] :
                 Without(w)[k][j].name = name
      BY <2>2
    <3>2. k \in DOMAIN s2 /\ s2[k] = Without(w)[k]
      BY <1>8, <1>9, <1>11, <3>1
    <3> QED BY <3>1, <3>2
  <2> QED BY <1>2, <1>17, <2>1, <2>2, WithoutKeepsPromises DEF g, n
<1>18. ASSUME NEW i \in DOMAIN needs
       PROVE  \E k \in DOMAIN s2 : \E j \in DOMAIN s2[k] : s2[k][j].name = needs[i].name
  <2>1. Len(s2) \in DOMAIN s2
    BY <1>8, <1>9, <1>11
  <2>2. \E j \in DOMAIN s2[Len(s2)] : s2[Len(s2)][j].name = needs[i].name
    BY <1>9
  <2> QED BY <2>1, <2>2
<1>19. NothingIsForgotten(w)'
  <2> SUFFICES ASSUME NEW u \in TreesOf(root'[w], graph'[w]), NEW i \in DOMAIN Needs[u]
               PROVE  Promised(w, Needs[u][i].name)'
    BY DEF NothingIsForgotten
  <2>1. CASE u = t
    BY <1>13, <1>18, <2>1 DEF Promised, needs
  <2>2. CASE u # t
    <3>1. u \in TreesOf(root[w], g)
      BY <1>13, <1>15, <2>2 DEF TreesOf
    <3>2. Promised(w, Needs[u][i].name)
      BY <1>1, <1>2, <3>1 DEF WalkInv, NothingIsForgotten, g
    <3> QED BY <1>13, <1>17, <3>2 DEF Promised
  <2> QED BY <2>1, <2>2
<1> QED BY <1>12, <1>14, <1>16, <1>19 DEF WalkInv

\* A build that saves has walked everything.
LEMMA SaveKeepsWalk ==
  ASSUME Inv, NEW w \in Workspaces, Save(w)
  PROVE  TypeInv' /\ WalkInv(w)' /\ LocksAreInstalled'
<1> DEFINE saved == [root |-> root[w], graph |-> graph[w]]
<1>1. /\ phase[w] = "save"
      /\ lock' = [lock EXCEPT ![w] = saved]
      /\ phase' = [phase EXCEPT ![w] = "idle"]
      /\ graph' = [graph EXCEPT ![w] = <<>>]
      /\ undisturbed' = [undisturbed EXCEPT ![w] = FALSE]
      /\ UNCHANGED <<at, entry, staging, root, path, todo, hand, unpacked, overlapped, builds, edits>>
  BY DEF Save
<1>2. TypeInv /\ WalkInv(w) /\ todo[w] = <<>> /\ LocksAreInstalled
  BY <1>1 DEF Inv, WalkInv, StageIsKept
<1>3. /\ saved \in [root : Trees, graph : Graph]
      /\ saved.root = root[w] /\ saved.graph = graph[w]
  BY <1>2 DEF TypeInv
<1> HIDE DEF saved
<1>4. TypeInv'
  <2>1. phase' \in [Workspaces -> Phases] /\ undisturbed' \in [Workspaces -> BOOLEAN]
    BY <1>1, <1>2 DEF TypeInv, Phases
  <2>2. graph' \in [Workspaces -> Graph]
    BY <1>1, <1>2, EmptyGraph DEF TypeInv
  <2>3. lock' \in [Workspaces -> [root : Trees, graph : Graph] \cup {None}]
    BY <1>1, <1>2, <1>3 DEF TypeInv
  <2> QED BY <1>1, <1>2, <2>1, <2>2, <2>3 DEF TypeInv
<1>5. /\ phase'[w] = "idle" /\ graph'[w] = <<>> /\ path'[w] = path[w] /\ todo'[w] = todo[w]
      /\ lock'[w] = saved
      /\ \A v \in Workspaces : v # w => lock'[v] = lock[v]
  BY <1>1, <1>2 DEF TypeInv
<1>6. StageIsKept(w)' /\ NothingIsForgotten(w)'
  BY <1>2, <1>5 DEF WalkInv, StageIsKept, NothingIsForgotten, Insertion
<1>7. Installed(graph[w])'
  BY <1>5, EmptyGraph DEF Installed
<1>8. \A name : Promised(w, name) => name \in DOMAIN graph[w]
  BY <1>2, EmptyGraph DEF Promised
<1>9. LocksAreInstalled'
  <2> SUFFICES ASSUME NEW v \in Locked'
               PROVE  /\ \A n \in DOMAIN lock'[v].graph :
                           /\ entry'[lock'[v].graph[n].tree] # None
                           /\ Files[1] \in entry'[lock'[v].graph[n].tree]
                      /\ \A t \in {lock'[v].root} \cup
                                  {lock'[v].graph[n].tree : n \in DOMAIN lock'[v].graph} :
                           \A i \in DOMAIN Needs[t] : Needs[t][i].name \in DOMAIN lock'[v].graph
    BY DEF LocksAreInstalled
  <2>1. CASE v = w
    <3>1. \A n \in DOMAIN graph[w] : entry'[graph[w][n].tree] # None
                                     /\ Files[1] \in entry'[graph[w][n].tree]
      BY <1>1, <1>2 DEF WalkInv, Installed
    <3>2. \A t \in {root[w]} \cup {graph[w][n].tree : n \in DOMAIN graph[w]} :
            \A i \in DOMAIN Needs[t] : Needs[t][i].name \in DOMAIN graph[w]
      BY <1>1, <1>2, <1>8 DEF WalkInv, NothingIsForgotten, TreesOf
    <3>3. lock'[v].graph = graph[w] /\ lock'[v].root = root[w]
      BY <1>3, <1>5, <2>1
    <3> QED BY <3>1, <3>2, <3>3
  <2>2. CASE v # w
    <3>1. v \in Locked /\ lock'[v] = lock[v] /\ entry' = entry
      BY <1>1, <1>5, <2>2 DEF Locked
    <3> QED BY <1>2, <3>1 DEF LocksAreInstalled
  <2> QED BY <2>1, <2>2
<1> QED BY <1>4, <1>6, <1>7, <1>9 DEF WalkInv

----------------------------------------------------------------------------
(* All of it *)

\* Lockfiles that are not written stay true while the registry only grows.
LEMMA LocksStay ==
  ASSUME TypeInv, EntriesStay, LocksAreInstalled, lock' = lock PROVE LocksAreInstalled'
<1> SUFFICES ASSUME NEW v \in Locked
             PROVE  \A n \in DOMAIN lock[v].graph :
                      /\ entry'[lock[v].graph[n].tree] # None
                      /\ Files[1] \in entry'[lock[v].graph[n].tree]
  BY DEF LocksAreInstalled, Locked
<1>1. lock[v].graph \in Graph
  BY DEF TypeInv, Locked
<1>2. Installed(lock[v].graph)
  BY DEF LocksAreInstalled, Installed
<1> QED BY <1>1, <1>2, InstalledStays DEF Installed

\* Every step of a build keeps the invariant.
LEMMA BuildKeepsInv == ASSUME Inv, NEW w \in Workspaces, Build(w) PROVE Inv'
<1>1. TypeInv /\ EntriesStay /\ RegistryInv'
  BY EntriesAreNeverRewritten, BuildKeepsRegistry DEF Inv
<1>2. TypeInv' /\ WalkInv(w)'
  BY BeginKeepsWalk, StopKeepsWalk, AscendKeepsWalk, KnownKeepsWalk, InsertionKeepsWalk,
     ReadKeepsWalk, SaveKeepsWalk DEF Build
<1>3. ASSUME NEW v \in Workspaces PROVE WalkInv(v)'
  <2>1. CASE v = w
    BY <1>2, <2>1
  <2>2. CASE v # w
    BY <1>1, <2>2, OthersRest, RestKeepsWalk DEF Inv
  <2> QED BY <2>1, <2>2
<1>4. LocksAreInstalled'
  <2>1. CASE Save(w)
    BY <2>1, SaveKeepsWalk
  <2>2. CASE ~Save(w)
    <3>1. lock' = lock
      BY <2>2 DEF Build, Begin, Stop, Ascend, Known, Archive, Look, Clear, Unpack, Publish, Read,
                  disk
    <3> QED BY <1>1, <3>1, LocksStay DEF Inv
  <2> QED BY <2>1, <2>2
<1> QED BY <1>1, <1>2, <1>3, <1>4 DEF Inv

\* The user changes what a build will find, not what it holds.
LEMMA EditKeepsInv == ASSUME Inv, NEW p \in Places, Edit(p) PROVE Inv'
<1>1. PICK t \in MayHold[p] : at' = [at EXCEPT ![p] = t]
  BY DEF Edit
<1>2. /\ edits < MaxEdits /\ edits' = edits + 1
      /\ undisturbed' = [w \in Workspaces |-> FALSE]
      /\ UNCHANGED <<entry, staging, phase, root, path, todo, graph, hand, unpacked, lock,
                     overlapped, builds>>
  BY DEF Edit
<1>3. TypeInv /\ t \in Trees
  BY PackagesAssumption DEF Inv
<1>4. TypeInv'
  BY <1>1, <1>2, <1>3, PackagesAssumption DEF TypeInv
<1>5. RegistryInv'
  BY <1>2, QuietKeepsRegistry DEF Inv
<1>6. EntriesStay
  BY <1>2 DEF EntriesStay
<1>7. ASSUME NEW w \in Workspaces PROVE WalkInv(w)'
  BY <1>2, <1>3, <1>6, RestKeepsWalk DEF Inv, RowIsKept
<1>8. LocksAreInstalled'
  BY <1>2, <1>3, <1>6, LocksStay DEF Inv
<1> QED BY <1>4, <1>5, <1>7, <1>8 DEF Inv

\* An empty registry, and no build.
LEMMA InitEstablishesInv == ASSUME Init PROVE Inv
<1>1. TypeInv
  <2>1. at \in [Places -> Trees]
    BY PackagesAssumption DEF Init
  <2>2. entry \in [Trees -> (SUBSET Range(Files)) \cup {None}]
        /\ staging \in [Trees -> (SUBSET Range(Files)) \cup {None}]
    BY DEF Init
  <2>3. phase \in [Workspaces -> Phases] /\ root \in [Workspaces -> Trees]
        /\ hand \in [Workspaces -> Trees \cup {None}]
        /\ unpacked \in [Workspaces -> 0..Len(Files)]
        /\ undisturbed \in [Workspaces -> BOOLEAN]
    BY <2>1, PackagesAssumption, FilesType DEF Init, Phases
  <2>4. <<>> \in Seq(Names) /\ <<>> \in Seq(Seq(Dependency))
    OBVIOUS
  <2>5. path \in [Workspaces -> Seq(Names)] /\ todo \in [Workspaces -> Seq(Seq(Dependency))]
    BY <2>4 DEF Init
  <2>6. graph \in [Workspaces -> Graph]
    BY EmptyGraph DEF Init
  <2>7. lock \in [Workspaces -> [root : Trees, graph : Graph] \cup {None}]
    BY DEF Init
  <2> QED BY <2>1, <2>2, <2>3, <2>5, <2>6, <2>7, PackagesAssumption DEF Init, TypeInv
<1>2. RegistryInv
  BY DEF Init, RegistryInv, InsertsAlone, StagingIsOwn, EntriesAreWhole
<1>3. ASSUME NEW w \in Workspaces PROVE WalkInv(w)
  <2>1. phase[w] = "idle" /\ graph[w] = <<>> /\ todo[w] = <<>> /\ path[w] = <<>>
    BY DEF Init
  <2> QED BY <2>1, EmptyGraph DEF WalkInv, StageIsKept, Installed, NothingIsForgotten, Insertion
<1>4. LocksAreInstalled
  BY DEF Init, LocksAreInstalled, Locked
<1> QED BY <1>1, <1>2, <1>3, <1>4 DEF Inv

\* Every step of the users and the builds keeps the invariant.
LEMMA StepKeepsInv == ASSUME Inv, [Next]_vars PROVE Inv'
<1>1. CASE UNCHANGED vars
  <2>1. TypeInv' /\ RegistryInv' /\ LocksAreInstalled'
    BY <1>1 DEF vars, Inv, TypeInv, RegistryInv, InsertsAlone, StagingIsOwn, EntriesAreWhole,
                LocksAreInstalled, Locked
  <2>2. ASSUME NEW w \in Workspaces PROVE WalkInv(w)'
    BY <1>1, RestKeepsWalk DEF vars, Inv, RowIsKept, EntriesStay
  <2> QED BY <2>1, <2>2 DEF Inv
<1>2. ASSUME NEW p \in Places, Edit(p) PROVE Inv'
  BY <1>2, EditKeepsInv
<1>3. ASSUME NEW w \in Workspaces, Build(w) PROVE Inv'
  BY <1>3, BuildKeepsInv
<1> QED BY <1>1, <1>2, <1>3 DEF Next, Build

\* The invariant holds in every state of every behaviour.
LEMMA InvHolds == Spec => []Inv
BY InitEstablishesInv, StepKeepsInv, PTL DEF Spec

\* The registry, the builds and the lockfiles keep their types.
THEOREM PackagesTypeOK == Spec => []TypeOK
<1>1. Inv => TypeOK
  <2> SUFFICES ASSUME Inv PROVE TypeOK
    OBVIOUS
  <2>1. ASSUME NEW w \in Workspaces
        PROVE  DOMAIN graph[w] \subseteq Names /\ Range(graph[w]) \subseteq Node
    <3>1. PICK S \in SUBSET Names : graph[w] \in [S -> Node]
      BY DEF Inv, TypeInv, Graph
    <3> QED BY <3>1 DEF Range
  <2> QED BY <2>1 DEF Inv, TypeInv, TypeOK, WalkInv, StageIsKept
<1> QED BY <1>1, InvHolds, PTL

\* Only builds that insert the same tree at the same time can leave an entry
\* without all its files, wherever builds fail or are killed.
THEOREM RegistryEntriesAreWhole == Spec => []EntriesAreWhole
<1>1. Inv => EntriesAreWhole
  BY DEF Inv, RegistryInv
<1> QED BY <1>1, InvHolds, PTL

\* A lockfile names everything its packages depend on, and all of it can be
\* read from the registry.
THEOREM LockfilesAreInstalled == Spec => []LocksAreInstalled
<1>1. Inv => LocksAreInstalled
  BY DEF Inv
<1> QED BY <1>1, InvHolds, PTL

----------------------------------------------------------------------------
(* No cycles *)

\* The packages whose dependencies are all walked.
Done(g, p) == DOMAIN g \ Range(p)

NeedsOf(g, m) == {Needs[g[m].tree][i].name : i \in DOMAIN Needs[g[m].tree]}
LeftOn(s, k) == {s[k][j].name : j \in DOMAIN s[k]}

\* The walk is depth first: what is done needs only what is done, and what is
\* on the path needs that, what is left on its level, and its successor.
InOrder(g, p, s) ==
  /\ \A i, j \in DOMAIN p : p[i] = p[j] => i = j
  /\ \A k \in DOMAIN p : p[k] \in DOMAIN g <=> k # 1
  /\ \A m \in Done(g, p) : NeedsOf(g, m) \subseteq Done(g, p)
  /\ \A k \in DOMAIN p : k # 1 => \A n \in NeedsOf(g, p[k]) :
       n \in Done(g, p) \/ n \in LeftOn(s, k) \/ (k + 1 \in DOMAIN p /\ n = p[k + 1])
  /\ \A S \in SUBSET Done(g, p) : S # {} => \E m \in S : NeedsOf(g, m) \cap S = {}

\* A cycle, and a package already found, is seen before anything is read.
OrderInv(w) ==
  /\ InOrder(graph[w], path[w], todo[w])
  /\ phase[w] \in Insertion => Wanted(w).name \notin Range(path[w]) \cup DOMAIN graph[w]

\* The names of a sequence without its last.
LEMMA RangeOfFront ==
  ASSUME NEW S, NEW p \in Seq(S), p # <<>>, \A i, j \in DOMAIN p : p[i] = p[j] => i = j
  PROVE  Range(Front(p)) = Range(p) \ {p[Len(p)]} /\ DOMAIN Front(p) = DOMAIN p \ {Len(p)}
<1>1. /\ Len(p) \in Nat \ {0} /\ Front(p) \in Seq(S) /\ Len(Front(p)) = Len(p) - 1
      /\ \A i \in 1..(Len(p) - 1) : Front(p)[i] = p[i]
  BY FrontAndLast
<1>2. DOMAIN p = 1..Len(p) /\ DOMAIN Front(p) = 1..(Len(p) - 1)
  BY <1>1, SeqFacts
<1>3. DOMAIN Front(p) = DOMAIN p \ {Len(p)}
  BY <1>1, <1>2
<1>4. Range(p) = {p[i] : i \in DOMAIN p} /\ Range(Front(p)) = {Front(p)[i] : i \in DOMAIN Front(p)}
  BY DEF Range
<1>5. \A i \in DOMAIN Front(p) : Front(p)[i] = p[i] /\ p[i] # p[Len(p)]
  <2> TAKE i \in DOMAIN Front(p)
  <2>1. i \in DOMAIN p /\ Len(p) \in DOMAIN p /\ i # Len(p)
    BY <1>1, <1>2
  <2> QED BY <1>1, <1>2, <2>1
<1> QED BY <1>3, <1>4, <1>5

\* The innermost package has nothing left to walk: it is done.
LEMMA AscendInOrder ==
  ASSUME NEW g, NEW p \in Seq(Names), NEW s \in Seq(Seq(Dependency)), InOrder(g, p, s),
         s # <<>>, Len(p) = Len(s), s[Len(s)] = <<>>
  PROVE  InOrder(g, Front(p), Front(s))
<1> DEFINE n == Len(p)
           x == p[n]
           fp == Front(p)
           fs == Front(s)
           D == Done(g, p)
           D2 == Done(g, fp)
<1>1. /\ n \in Nat \ {0} /\ n \in DOMAIN p /\ DOMAIN p = 1..n /\ p # <<>>
      /\ Range(fp) = Range(p) \ {x} /\ DOMAIN fp = DOMAIN p \ {n}
      /\ \A i \in DOMAIN fp : fp[i] = p[i]
  <2>1. p # <<>> /\ n \in Nat \ {0} /\ DOMAIN p = 1..n
    BY SeqFacts
  <2>2. \A i \in 1..(n - 1) : fp[i] = p[i]
    BY <2>1, FrontAndLast
  <2>3. Range(fp) = Range(p) \ {x} /\ DOMAIN fp = DOMAIN p \ {n}
    BY <2>1, RangeOfFront DEF InOrder
  <2>4. n \in DOMAIN p /\ \A i \in DOMAIN p \ {n} : i \in 1..(n - 1)
    BY <2>1
  <2> HIDE DEF fp, n, x
  <2> QED BY <2>1, <2>2, <2>3, <2>4
<1>2. \A i \in DOMAIN fp : LeftOn(fs, i) = LeftOn(s, i)
  <2>1. \A i \in 1..(n - 1) : fs[i] = s[i]
    BY FrontAndLast
  <2>2. \A i \in DOMAIN fp : i \in 1..(n - 1)
    BY <1>1
  <2> HIDE DEF fs, fp, n
  <2> QED BY <2>1, <2>2 DEF LeftOn
<1>3. LeftOn(s, n) = {}
  BY EmptyGraph DEF LeftOn
<1>4. x \in Range(p) /\ \A i \in DOMAIN p : p[i] \in Range(p)
  BY <1>1 DEF Range
<1>5. D2 = D \cup (DOMAIN g \cap {x})
  BY <1>1, <1>4 DEF Done
<1>6. x \notin D
  BY <1>4 DEF Done
<1>7. x \in DOMAIN g => NeedsOf(g, x) \subseteq D
  <2>1. n + 1 \notin DOMAIN p
    BY <1>1
  <2> QED BY <1>1, <1>3, <2>1 DEF InOrder
<1> HIDE DEF D, D2, fp, fs, x
<1>8. \A m \in D2 : NeedsOf(g, m) \subseteq D
  BY <1>5, <1>7 DEF InOrder, D
<1>9. \A m \in D2 : NeedsOf(g, m) \subseteq D2
  BY <1>5, <1>8
<1>10. /\ \A i, j \in DOMAIN fp : fp[i] = fp[j] => i = j
       /\ \A k \in DOMAIN fp : fp[k] \in DOMAIN g <=> k # 1
  BY <1>1 DEF InOrder
<1>11. ASSUME NEW k \in DOMAIN fp, k # 1, NEW m \in NeedsOf(g, fp[k])
       PROVE  m \in D2 \/ m \in LeftOn(fs, k) \/ (k + 1 \in DOMAIN fp /\ m = fp[k + 1])
  <2>1. k \in DOMAIN p /\ k # n /\ fp[k] = p[k] /\ LeftOn(fs, k) = LeftOn(s, k)
    BY <1>1, <1>2
  <2>2. m \in D \/ m \in LeftOn(s, k) \/ (k + 1 \in DOMAIN p /\ m = p[k + 1])
    BY <1>11, <2>1 DEF InOrder, D
  <2>3. CASE k + 1 \in DOMAIN p /\ m = p[k + 1] /\ k + 1 = n
    <3>1. n # 1
      BY <1>1, <1>11, <2>1, <2>3
    <3>2. x \in DOMAIN g
      BY <1>1, <3>1 DEF InOrder, x
    <3> QED BY <1>5, <2>3, <3>2 DEF x
  <2>4. CASE k + 1 \in DOMAIN p /\ m = p[k + 1] /\ k + 1 # n
    BY <1>1, <2>4
  <2> QED BY <1>5, <2>1, <2>2, <2>3, <2>4
<1>12. ASSUME NEW S \in SUBSET D2, S # {} PROVE \E m \in S : NeedsOf(g, m) \cap S = {}
  <2>1. CASE S \ {x} = {}
    <3>1. S = {x} /\ NeedsOf(g, x) \subseteq D
      BY <1>8, <1>12, <2>1
    <3> QED BY <1>6, <3>1
  <2>2. CASE S \ {x} # {}
    <3>1. S \ {x} \in SUBSET D
      BY <1>5, <1>12
    <3>2. PICK m \in S \ {x} : NeedsOf(g, m) \cap (S \ {x}) = {}
      BY <2>2, <3>1 DEF InOrder, D
    <3>3. x \notin NeedsOf(g, m)
      BY <1>6, <1>8, <3>2
    <3> QED BY <3>2, <3>3
  <2> QED BY <2>1, <2>2
<1> QED BY <1>9, <1>10, <1>11, <1>12 DEF InOrder, D2, fp, fs

\* Only the innermost level loses a name.
LEMMA WithoutLeavesTheRest ==
  ASSUME TypeInv, NEW w \in Workspaces, todo[w] # <<>>, Level(w) # <<>>,
         Len(path[w]) = Len(todo[w]), NEW k \in DOMAIN path[w]
  PROVE  LeftOn(todo[w], k) \subseteq
           LeftOn(Without(w), k) \cup (IF k = Len(path[w]) THEN {Wanted(w).name} ELSE {})
<1> DEFINE s == todo[w]
           l == Level(w)
           r == Without(w)
<1>1. /\ l \in Seq(Dependency) /\ r \in Seq(Seq(Dependency))
      /\ l = s[Len(s)] /\ Len(r) = Len(s) /\ Len(s) \in Nat \ {0} /\ Len(l) \in Nat \ {0}
      /\ Wanted(w) = l[1] /\ Len(r[Len(s)]) = Len(l) - 1
  BY WantedType
<1>2. /\ \A i \in 1..(Len(s) - 1) : r[i] = s[i]
      /\ \A j \in 1..(Len(l) - 1) : r[Len(s)][j] = l[j + 1]
  BY WantedType
<1>3. r[Len(s)] \in Seq(Dependency)
  BY <1>1
<1>4. DOMAIN l = 1..Len(l) /\ DOMAIN r[Len(s)] = 1..(Len(l) - 1)
  BY <1>1, <1>3, SeqFacts
<1>5. k \in 1..Len(s)
  BY SeqFacts DEF TypeInv
<1> HIDE DEF s, l, r
<1>6. CASE k # Len(s)
  <2>1. r[k] = s[k]
    BY <1>1, <1>2, <1>5, <1>6
  <2> QED BY <2>1 DEF LeftOn, r, s
<1>7. CASE k = Len(s)
  <2> SUFFICES ASSUME NEW j \in DOMAIN l PROVE l[j].name \in LeftOn(r, k) \cup {Wanted(w).name}
    BY <1>1, <1>7 DEF LeftOn, r, s
  <2>1. CASE j = 1
    BY <1>1, <2>1
  <2>2. CASE j # 1
    <3>1. j - 1 \in DOMAIN r[k] /\ r[k][j - 1] = l[j]
      BY <1>1, <1>2, <1>4, <1>7, <2>2
    <3> QED BY <3>1 DEF LeftOn
  <2> QED BY <2>1, <2>2
<1> QED BY <1>6, <1>7

\* A dependency that is done comes off the level.
LEMMA KnownInOrder ==
  ASSUME NEW g, NEW p \in Seq(Names), NEW s, NEW r, NEW name \in Done(g, p), InOrder(g, p, s),
         \A k \in DOMAIN p : LeftOn(s, k) \subseteq LeftOn(r, k) \cup {name}
  PROVE  InOrder(g, p, r)
BY DEF InOrder

\* A package is found: it is the innermost, and has all of its dependencies left.
LEMMA ReadInOrder ==
  ASSUME NEW g, NEW p \in Seq(Names), NEW s, InOrder(g, p, s),
         NEW n \in Names, n \notin Range(p) \cup DOMAIN g, p # <<>>,
         NEW g2, DOMAIN g2 = DOMAIN g \cup {n}, \A m \in DOMAIN g : g2[m] = g[m],
         NEW s2,
         \A k \in DOMAIN p : LeftOn(s, k) \subseteq LeftOn(s2, k) \cup (IF k = Len(p) THEN {n} ELSE {}),
         NeedsOf(g2, n) \subseteq LeftOn(s2, Len(p) + 1)
  PROVE  InOrder(g2, Append(p, n), s2)
<1> DEFINE p2 == Append(p, n)
           D == Done(g, p)
           e == Len(p)
<1>1. /\ e \in Nat \ {0} /\ DOMAIN p = 1..e /\ DOMAIN p2 = 1..(e + 1)
      /\ p2[e + 1] = n /\ \A i \in 1..e : p2[i] = p[i]
  BY SeqFacts
<1> HIDE DEF p2
<1>2. Range(p2) = Range(p) \cup {n} /\ \A i \in DOMAIN p : p[i] \in Range(p)
  <2>1. DOMAIN p2 = DOMAIN p \cup {e + 1}
    BY <1>1
  <2> QED BY <1>1, <2>1 DEF Range
<1>3. Done(g2, p2) = D
  BY <1>2 DEF Done
<1>4. \A m \in DOMAIN g : NeedsOf(g2, m) = NeedsOf(g, m)
  BY DEF NeedsOf
<1>5. D \subseteq DOMAIN g
  BY DEF Done
<1>6. /\ \A m \in D : NeedsOf(g2, m) \subseteq D
      /\ \A S \in SUBSET D : S # {} => \E m \in S : NeedsOf(g2, m) \cap S = {}
  BY <1>4, <1>5 DEF InOrder
<1>7. ASSUME NEW i \in DOMAIN p2, NEW j \in DOMAIN p2, p2[i] = p2[j] PROVE i = j
  <2>1. i \in DOMAIN p \/ i = e + 1
    BY <1>1
  <2>2. j \in DOMAIN p \/ j = e + 1
    BY <1>1
  <2> QED BY <1>1, <1>2, <1>7, <2>1, <2>2 DEF InOrder
<1>8. ASSUME NEW k \in DOMAIN p2 PROVE p2[k] \in DOMAIN g2 <=> k # 1
  <2>1. CASE k = e + 1
    BY <1>1, <2>1
  <2>2. CASE k # e + 1
    <3>1. k \in DOMAIN p /\ p2[k] = p[k] /\ p[k] # n
      BY <1>1, <1>2, <2>2
    <3> QED BY <3>1 DEF InOrder
  <2> QED BY <2>1, <2>2
<1>9. ASSUME NEW k \in DOMAIN p2, k # 1, NEW m \in NeedsOf(g2, p2[k])
      PROVE  m \in D \/ m \in LeftOn(s2, k) \/ (k + 1 \in DOMAIN p2 /\ m = p2[k + 1])
  <2>1. CASE k = e + 1
    BY <1>1, <1>9, <2>1
  <2>2. CASE k # e + 1
    <3>1. k \in DOMAIN p /\ p2[k] = p[k] /\ p[k] \in DOMAIN g /\ k \in 1..e
      BY <1>1, <1>9, <2>2 DEF InOrder
    <3>2. m \in NeedsOf(g, p[k])
      BY <1>4, <1>9, <3>1
    <3>3. m \in D \/ m \in LeftOn(s, k) \/ (k + 1 \in DOMAIN p /\ m = p[k + 1])
      BY <1>9, <3>1, <3>2 DEF InOrder
    <3>4. CASE m \in LeftOn(s, k)
      <4>1. CASE k = e
        BY <1>1, <3>1, <3>4, <4>1
      <4>2. CASE k # e
        BY <3>1, <3>4, <4>2
      <4> QED BY <4>1, <4>2
    <3>5. CASE k + 1 \in DOMAIN p /\ m = p[k + 1]
      BY <1>1, <3>5
    <3> QED BY <3>3, <3>4, <3>5
  <2> QED BY <2>1, <2>2
<1> QED BY <1>3, <1>6, <1>7, <1>8, <1>9 DEF InOrder, p2

\* Steps that leave the graph, the path and the stack of a build alone.
LEMMA RestKeepsOrder ==
  ASSUME NEW w \in Workspaces, OrderInv(w),
         graph'[w] = graph[w], path'[w] = path[w], todo'[w] = todo[w],
         \/ phase'[w] \in Insertion => phase[w] \in Insertion
         \/ Wanted(w).name \notin Range(path[w]) \cup DOMAIN graph[w]
  PROVE  OrderInv(w)'
<1>1. Wanted(w)' = Wanted(w)
  BY DEF Wanted, Level
<1> QED BY <1>1 DEF OrderInv

\* No package, and no package on the way.
LEMMA NothingInOrder ==
  ASSUME NEW p, NEW s, DOMAIN p \subseteq {1} PROVE InOrder(<<>>, p, s)
<1>1. Done(<<>>, p) = {}
  BY EmptyGraph DEF Done
<1> QED BY <1>1, EmptyGraph DEF InOrder

\* A build keeps the order in all its steps.
LEMMA BuildKeepsOrder ==
  ASSUME Inv, NEW w \in Workspaces, OrderInv(w), Build(w) PROVE OrderInv(w)'
<1>1. /\ TypeInv /\ StageIsKept(w)
      /\ path[w] \in Seq(Names) /\ todo[w] \in Seq(Seq(Dependency)) /\ Len(path[w]) = Len(todo[w])
      /\ InOrder(graph[w], path[w], todo[w])
  BY DEF Inv, TypeInv, WalkInv, StageIsKept, OrderInv
<1>2. CASE Begin(w)
  <2>1. phase'[w] = "walk" /\ path'[w] = <<RootName>> /\ graph'[w] = <<>>
    BY <1>1, <1>2 DEF Begin, TypeInv, StageIsKept
  <2>2. DOMAIN <<RootName>> = {1}
    OBVIOUS
  <2> QED BY <2>1, <2>2, NothingInOrder DEF OrderInv, Insertion
<1>3. CASE Stop(w)
  <2>1. phase'[w] = "idle" /\ path'[w] = <<>> /\ graph'[w] = <<>>
    BY <1>1, <1>3 DEF Stop, TypeInv
  <2> QED BY <2>1, EmptyGraph, NothingInOrder DEF OrderInv, Insertion
<1>4. CASE Ascend(w)
  <2>1. /\ phase'[w] \notin Insertion /\ graph'[w] = graph[w]
        /\ path'[w] = Front(path[w]) /\ todo'[w] = Front(todo[w])
        /\ phase[w] = "walk" /\ Level(w) = <<>>
    BY <1>1, <1>4 DEF Ascend, TypeInv, Insertion
  <2>2. todo[w] # <<>> /\ todo[w][Len(todo[w])] = <<>>
    BY <1>1, <2>1 DEF StageIsKept, Level, Last
  <2>3. InOrder(graph[w], Front(path[w]), Front(todo[w]))
    BY <1>1, <2>2, AscendInOrder
  <2> QED BY <2>1, <2>3 DEF OrderInv
<1>5. CASE Known(w)
  <2>1. /\ phase'[w] = "walk" /\ graph'[w] = graph[w] /\ path'[w] = path[w]
        /\ todo'[w] = Without(w)
        /\ Wanted(w).name \in Done(graph[w], path[w])
        /\ todo[w] # <<>> /\ Level(w) # <<>>
    BY <1>1, <1>5 DEF Known, TypeInv, Done, StageIsKept
  <2>2. \A k \in DOMAIN path[w] :
          LeftOn(todo[w], k) \subseteq LeftOn(Without(w), k) \cup {Wanted(w).name}
    BY <1>1, <2>1, WithoutLeavesTheRest
  <2>3. InOrder(graph[w], path[w], Without(w))
    BY <1>1, <2>1, <2>2, KnownInOrder
  <2> QED BY <2>1, <2>3 DEF OrderInv, Insertion
<1>6. CASE Archive(w)
  <2>1. /\ graph'[w] = graph[w] /\ path'[w] = path[w] /\ todo'[w] = todo[w]
        /\ Wanted(w).name \notin Range(path[w]) \cup DOMAIN graph[w]
    BY <1>6 DEF Archive, disk
  <2> QED BY <2>1, RestKeepsOrder
<1>7. CASE Look(w) \/ Clear(w) \/ Unpack(w) \/ Publish(w)
  <2>1. /\ graph'[w] = graph[w] /\ path'[w] = path[w] /\ todo'[w] = todo[w]
        /\ phase[w] \in Insertion
    BY <1>7 DEF Look, Clear, Unpack, Publish, disk, Insertion
  <2> QED BY <2>1, RestKeepsOrder
<1>8. CASE Read(w)
  <2> DEFINE g == graph[w]
             n == Wanted(w).name
             g2 == [m \in DOMAIN g \cup {n} |-> IF m \in DOMAIN g THEN g[m] ELSE Found(w)]
             needs == Needs[hand[w]]
             s2 == Append(Without(w), needs)
  <2>1. /\ phase[w] = "read" /\ phase'[w] = "walk"
        /\ graph'[w] = g2 /\ path'[w] = Append(path[w], n) /\ todo'[w] = s2
    BY <1>1, <1>8 DEF Read, TypeInv
  <2>2. todo[w] # <<>> /\ Level(w) # <<>> /\ hand[w] \in Trees
    BY <1>1, <2>1 DEF StageIsKept, Insertion
  <2>3. n \notin Range(path[w]) \cup DOMAIN g
    BY <2>1 DEF OrderInv, Insertion
  <2>4. n \in Names
    BY <1>1, <2>2, WantedType DEF Dependency
  <2>5. DOMAIN g2 = DOMAIN g \cup {n} /\ (\A m \in DOMAIN g : g2[m] = g[m]) /\ g2[n] = Found(w)
    BY <2>3
  <2>6. needs \in Seq(Dependency)
    BY <2>2, NeedsType
  <2>7. /\ Without(w) \in Seq(Seq(Dependency)) /\ Len(Without(w)) = Len(path[w])
        /\ Len(path[w]) \in Nat \ {0} /\ DOMAIN path[w] = 1..Len(path[w])
    BY <1>1, <2>2, WantedType, SeqFacts
  <2> HIDE DEF needs
  <2>8. /\ s2[Len(path[w]) + 1] = needs
        /\ \A k \in DOMAIN path[w] : s2[k] = Without(w)[k]
    BY <2>6, <2>7
  <2>9. NeedsOf(g2, n) \subseteq LeftOn(s2, Len(path[w]) + 1)
    <3>1. g2[n].tree = hand[w]
      BY <2>5 DEF Found
    <3> HIDE DEF s2, g2, n
    <3> QED BY <2>8, <3>1 DEF NeedsOf, LeftOn, needs
  <2>10. \A k \in DOMAIN path[w] :
           LeftOn(todo[w], k) \subseteq LeftOn(s2, k) \cup (IF k = Len(path[w]) THEN {n} ELSE {})
    <3>1. \A k \in DOMAIN path[w] : LeftOn(s2, k) = LeftOn(Without(w), k)
      BY <2>8 DEF LeftOn
    <3>2. \A k \in DOMAIN path[w] : LeftOn(todo[w], k) \subseteq
            LeftOn(Without(w), k) \cup (IF k = Len(path[w]) THEN {n} ELSE {})
      BY <1>1, <2>2, WithoutLeavesTheRest
    <3> HIDE DEF s2, n
    <3> QED BY <3>1, <3>2
  <2>11. path[w] # <<>>
    BY <1>1, <2>7, SeqFacts
  <2> HIDE DEF g2, n, g, s2
  <2>12. InOrder(g2, Append(path[w], n), s2)
    BY <1>1, <2>3, <2>4, <2>5, <2>9, <2>10, <2>11, ReadInOrder DEF g
  <2> QED BY <2>1, <2>12 DEF OrderInv, Insertion
<1>9. CASE Save(w)
  <2>1. phase'[w] = "idle" /\ graph'[w] = <<>> /\ path'[w] = path[w] /\ todo[w] = <<>>
    BY <1>1, <1>9 DEF Save, TypeInv, StageIsKept
  <2>2. DOMAIN path[w] = {}
    BY <1>1, <2>1, SeqFacts
  <2> QED BY <2>1, <2>2, NothingInOrder DEF OrderInv, Insertion
<1> QED BY <1>2, <1>3, <1>4, <1>5, <1>6, <1>7, <1>8, <1>9 DEF Build

OrderedInv == (\A w \in Workspaces : OrderInv(w)) /\ LocksAreAcyclic

\* What is done when the walk has ended is all of the graph.
LEMMA SaveIsAcyclic ==
  ASSUME Inv, OrderedInv, NEW w \in Workspaces, Save(w) PROVE LocksAreAcyclic'
<1> SUFFICES ASSUME NEW v \in Locked', NEW S \in SUBSET DOMAIN lock'[v].graph, S # {}
             PROVE  \E m \in S : \A n \in S : ~Uses(lock'[v].graph, m, n)
  BY DEF LocksAreAcyclic, Uses
<1>1. /\ v \in Workspaces
      /\ v = w => lock'[v].graph = graph[w]
      /\ v # w => lock'[v] = lock[v]
      /\ phase[w] = "save"
  BY DEF Save, Inv, TypeInv, Locked
<1>2. CASE v = w
  <2>1. Len(path[w]) = Len(todo[w]) /\ todo[w] = <<>> /\ path[w] \in Seq(Names)
    BY <1>1 DEF Inv, WalkInv, StageIsKept, TypeInv
  <2>2. DOMAIN path[w] = {}
    BY <2>1, SeqFacts
  <2>3. Done(graph[w], path[w]) = DOMAIN graph[w]
    BY <2>2 DEF Done, Range
  <2>4. PICK m \in S : NeedsOf(graph[w], m) \cap S = {}
    BY <1>1, <1>2, <2>3 DEF OrderedInv, OrderInv, InOrder
  <2>5. \A n \in S : ~Uses(graph[w], m, n)
    BY <2>4 DEF NeedsOf, Uses
  <2> QED BY <1>1, <1>2, <2>4, <2>5
<1>3. CASE v # w
  BY <1>1, <1>3 DEF OrderedInv, LocksAreAcyclic, Locked
<1> QED BY <1>2, <1>3

\* Lockfiles that are not written get no cycle.
LEMMA LocksRest == ASSUME LocksAreAcyclic, lock' = lock PROVE LocksAreAcyclic'
<1> SUFFICES ASSUME NEW v \in Locked', NEW S \in SUBSET DOMAIN lock'[v].graph, S # {}
             PROVE  \E m \in S : \A n \in S : ~Uses(lock'[v].graph, m, n)
  BY DEF LocksAreAcyclic, Uses
<1>1. v \in Locked /\ lock'[v].graph = lock[v].graph
  BY DEF Locked
<1>2. PICK m \in S : \A n \in S : ~Uses(lock[v].graph, m, n)
  BY <1>1 DEF LocksAreAcyclic
<1> QED BY <1>1, <1>2

\* Every step keeps the order of every walk, and the lockfiles without cycles.
LEMMA StepKeepsOrder == ASSUME Inv, OrderedInv, [Next]_vars PROVE OrderedInv'
<1>1. CASE UNCHANGED vars
  <2>1. ASSUME NEW w \in Workspaces PROVE OrderInv(w)'
    BY <1>1, RestKeepsOrder DEF vars, OrderedInv
  <2>2. LocksAreAcyclic'
    BY <1>1, LocksRest DEF vars, OrderedInv
  <2> QED BY <2>1, <2>2 DEF OrderedInv
<1>2. ASSUME NEW p \in Places, Edit(p) PROVE OrderedInv'
  <2>1. UNCHANGED <<phase, path, todo, graph, lock>>
    BY <1>2 DEF Edit
  <2>2. ASSUME NEW w \in Workspaces PROVE OrderInv(w)'
    BY <2>1, RestKeepsOrder DEF OrderedInv
  <2>3. LocksAreAcyclic'
    BY <2>1, LocksRest DEF OrderedInv
  <2> QED BY <2>2, <2>3 DEF OrderedInv
<1>3. ASSUME NEW w \in Workspaces, Build(w) PROVE OrderedInv'
  <2>1. ASSUME NEW v \in Workspaces PROVE OrderInv(v)'
    <3>1. CASE v = w
      BY <1>3, <3>1, BuildKeepsOrder DEF OrderedInv
    <3>2. CASE v # w
      <4>1. RowIsKept(v)
        BY <1>3, <3>2, OthersRest DEF Inv
      <4> QED BY <4>1, RestKeepsOrder DEF RowIsKept, OrderedInv
    <3> QED BY <3>1, <3>2
  <2>2. CASE Save(w)
    BY <2>1, <2>2, SaveIsAcyclic DEF OrderedInv
  <2>3. CASE ~Save(w)
    <3>1. lock' = lock
      BY <1>3, <2>3 DEF Build, Begin, Stop, Ascend, Known, Archive, Look, Clear, Unpack, Publish,
                        Read, disk
    <3>2. LocksAreAcyclic'
      BY <3>1, LocksRest DEF OrderedInv
    <3> QED BY <2>1, <3>2 DEF OrderedInv
  <2> QED BY <2>2, <2>3
<1> QED BY <1>1, <1>2, <1>3 DEF Next, Build

\* Before the first build there is nothing to order.
LEMMA InitIsOrdered == ASSUME Init PROVE OrderedInv
<1>1. ASSUME NEW w \in Workspaces PROVE OrderInv(w)
  <2>1. phase[w] = "idle" /\ graph[w] = <<>> /\ path[w] = <<>>
    BY DEF Init
  <2> QED BY <2>1, EmptyGraph, NothingInOrder DEF OrderInv, Insertion
<1>2. LocksAreAcyclic
  BY DEF Init, LocksAreAcyclic, Locked
<1> QED BY <1>1, <1>2 DEF OrderedInv

\* The cycle check of walk_dep is complete, whatever the user edits during the
\* walk: no lockfile has a package that depends on itself.
THEOREM LockfilesAreAcyclic == Spec => []LocksAreAcyclic
<1>1. OrderedInv => LocksAreAcyclic
  BY DEF OrderedInv
<1>2. Inv /\ OrderedInv /\ [Next]_vars => OrderedInv'
  BY StepKeepsOrder
<1> QED BY <1>1, <1>2, InitIsOrdered, InvHolds, PTL DEF Spec

----------------------------------------------------------------------------
\* What a lockfile follows from.  As long as nobody edits a place, the walk goes
\* from one dependency to the next as the trees say, whatever the registry holds.
\* It goes one way only, and ends nowhere but where nothing is to be walked.

Walking(p, s, g) == [path |-> p, todo |-> s, graph |-> g]

Asked(c) == Head(Last(c.todo))
Rest(s) == Append(Front(s), Tail(Last(s)))

GoesUp(c, d) ==
  /\ c.todo # <<>> /\ Last(c.todo) = <<>>
  /\ d = Walking(Front(c.path), Front(c.todo), c.graph)

GoesOn(c, d) ==
  /\ c.todo # <<>> /\ Last(c.todo) # <<>>
  /\ Asked(c).name \notin Range(c.path) /\ Asked(c).name \in DOMAIN c.graph
  /\ d = Walking(c.path, Rest(c.todo), c.graph)

GoesDown(seen, c, d) ==
  LET n == Asked(c).name
      node == [tree |-> seen[Asked(c).place], place |-> Asked(c).place]
  IN  /\ c.todo # <<>> /\ Last(c.todo) # <<>> /\ n \notin Range(c.path) \cup DOMAIN c.graph
      /\ d = Walking(Append(c.path, n), Append(Rest(c.todo), Needs[node.tree]),
                     [m \in DOMAIN c.graph \cup {n} |->
                        IF m \in DOMAIN c.graph THEN c.graph[m] ELSE node])

Goes(seen, c, d) == GoesUp(c, d) \/ GoesOn(c, d) \/ GoesDown(seen, c, d)

Start(r) == Walking(<<RootName>>, <<Needs[r]>>, <<>>)

\* The trees seen lead from the root r to c.
WalksTo(seen, r, c) ==
  \E n \in Nat : \E t : /\ t[0] = Start(r) /\ t[n] = c
                        /\ \A k \in 0..(n - 1) : Goes(seen, t[k], t[k + 1])

\* The graph they lead to.
LockOf(seen, r) == (CHOOSE c : WalksTo(seen, r, c) /\ c.todo = <<>>).graph

SeenInv(w) ==
  undisturbed[w] /\ phase[w] # "idle" =>
    /\ WalksTo(at, root[w], Walking(path[w], todo[w], graph[w]))
    /\ phase[w] \in Insertion =>
         /\ hand[w] = at[Wanted(w).place]
         /\ Wanted(w).name \notin Range(path[w]) \cup DOMAIN graph[w]

LEMMA LeastNatural ==
  ASSUME NEW T \in SUBSET Nat, T # {}
  PROVE  \E m \in T : \A n \in T : m <= n
<1>1. PICK m \in T : \A n \in T : ~(<<n, m>> \in OpToRel(<, Nat))
  BY NatLessThanWellFounded, WFMin
<1>2. \A n \in T : ~(n < m)
  BY <1>1 DEF OpToRel
<1> QED BY <1>2

LEMMA OneWay ==
  ASSUME NEW seen, NEW c, NEW d, NEW e, Goes(seen, c, d), Goes(seen, c, e)
  PROVE  d = e
BY DEF Goes, GoesUp, GoesOn, GoesDown

LEMMA OneEnd ==
  ASSUME NEW seen, NEW r, NEW c, NEW d, WalksTo(seen, r, c), c.todo = <<>>,
         WalksTo(seen, r, d), d.todo = <<>>
  PROVE  c = d
<1>1. PICK n \in Nat : \E t : /\ t[0] = Start(r) /\ t[n] = c
                              /\ \A k \in 0..(n - 1) : Goes(seen, t[k], t[k + 1])
  BY DEF WalksTo
<1>2. PICK t : /\ t[0] = Start(r) /\ t[n] = c
               /\ \A k \in 0..(n - 1) : Goes(seen, t[k], t[k + 1])
  BY <1>1
<1>3. PICK m \in Nat : \E u : /\ u[0] = Start(r) /\ u[m] = d
                              /\ \A k \in 0..(m - 1) : Goes(seen, u[k], u[k + 1])
  BY DEF WalksTo
<1>4. PICK u : /\ u[0] = Start(r) /\ u[m] = d
               /\ \A k \in 0..(m - 1) : Goes(seen, u[k], u[k + 1])
  BY <1>3
<1>5. \A k \in Nat : k <= n /\ k <= m => t[k] = u[k]
  <2> SUFFICES ASSUME NEW j \in Nat, j <= n, j <= m, t[j] # u[j] PROVE FALSE
    OBVIOUS
  <2> DEFINE Apart == {k \in Nat : k <= n /\ k <= m /\ t[k] # u[k]}
  <2>1. PICK k \in Apart : \A i \in Apart : k <= i
    <3>1. Apart \in SUBSET Nat /\ Apart # {}
      OBVIOUS
    <3> HIDE DEF Apart
    <3> QED BY <3>1, LeastNatural
  <2>2. k # 0
    BY <1>2, <1>4
  <2>3. k - 1 \in Nat /\ k - 1 \in 0..(n - 1) /\ k - 1 \in 0..(m - 1) /\ (k - 1) + 1 = k
        /\ k - 1 <= n /\ k - 1 <= m /\ ~(k <= k - 1)
    BY <2>2
  <2>4. t[k - 1] = u[k - 1]
    BY <2>1, <2>3
  <2>5. Goes(seen, t[k - 1], t[k]) /\ Goes(seen, t[k - 1], u[k])
    BY <1>2, <1>4, <2>3, <2>4
  <2> QED BY <2>1, <2>5, OneWay
<1>6. \A e, f : Goes(seen, e, f) => e.todo # <<>>
  BY DEF Goes, GoesUp, GoesOn, GoesDown
<1>7. CASE n = m
  BY <1>2, <1>4, <1>5, <1>7
<1>8. CASE n < m
  <2>1. t[n] = u[n] /\ n \in 0..(m - 1)
    BY <1>5, <1>8
  <2> QED BY <1>2, <1>4, <1>6, <2>1
<1>9. CASE m < n
  <2>1. t[m] = u[m] /\ m \in 0..(n - 1)
    BY <1>5, <1>9
  <2> QED BY <1>2, <1>4, <1>6, <2>1
<1> QED BY <1>7, <1>8, <1>9

LEMMA WalksOn ==
  ASSUME NEW seen, NEW r, NEW c, NEW d, WalksTo(seen, r, c), Goes(seen, c, d)
  PROVE  WalksTo(seen, r, d)
<1>1. PICK n \in Nat : \E t : /\ t[0] = Start(r) /\ t[n] = c
                              /\ \A k \in 0..(n - 1) : Goes(seen, t[k], t[k + 1])
  BY DEF WalksTo
<1>2. PICK t : /\ t[0] = Start(r) /\ t[n] = c
               /\ \A k \in 0..(n - 1) : Goes(seen, t[k], t[k + 1])
  BY <1>1
<1> DEFINE u == [k \in 0..(n + 1) |-> IF k = n + 1 THEN d ELSE t[k]]
<1>3. u[n + 1] = d /\ \A k \in 0..n : u[k] = t[k]
  OBVIOUS
<1> HIDE DEF u
<1>4. ASSUME NEW k \in 0..n PROVE Goes(seen, u[k], u[k + 1])
  <2>1. CASE k = n
    BY <1>2, <1>3, <2>1
  <2>2. CASE k # n
    <3>1. k \in 0..(n - 1) /\ k + 1 \in 0..n
      BY <2>2
    <3> QED BY <1>2, <1>3, <3>1
  <2> QED BY <2>1, <2>2
<1>5. n + 1 \in Nat /\ (n + 1) - 1 = n /\ 0 \in 0..n
  OBVIOUS
<1>6. /\ u[0] = Start(r) /\ u[n + 1] = d
      /\ \A k \in 0..((n + 1) - 1) : Goes(seen, u[k], u[k + 1])
  BY <1>2, <1>3, <1>4, <1>5
<1> QED BY <1>5, <1>6 DEF WalksTo

LEMMA StartWalks == ASSUME NEW seen, NEW r PROVE WalksTo(seen, r, Start(r))
<1> DEFINE t == [k \in {0} |-> Start(r)]
<1>1. t[0] = Start(r) /\ 0 \in Nat /\ 0..(0 - 1) = {}
  OBVIOUS
<1> HIDE DEF t
<1> QED BY <1>1 DEF WalksTo

LEMMA LockIsWhereItEnds ==
  ASSUME NEW seen, NEW r, NEW c, WalksTo(seen, r, c), c.todo = <<>>
  PROVE  c.graph = LockOf(seen, r)
<1>1. PICK d : d = CHOOSE e : WalksTo(seen, r, e) /\ e.todo = <<>>
  OBVIOUS
<1>2. WalksTo(seen, r, d) /\ d.todo = <<>>
  BY <1>1
<1>3. c = d
  BY <1>2, OneEnd
<1> QED BY <1>1, <1>3 DEF LockOf

\* The steps of a build that nobody disturbs, before the lockfile.
LEMMA BuildIsSeen ==
  ASSUME Inv, NEW w \in Workspaces, SeenInv(w), Build(w) PROVE SeenInv(w)'
<1>0. /\ TypeInv /\ at' = at
      /\ phase[w] \in Insertion => todo[w] # <<>> /\ Level(w) # <<>>
      /\ phase[w] = "walk" => todo[w] # <<>>
  BY DEF Inv, WalkInv, StageIsKept, Insertion, Build, Begin, Stop, Ascend, Known, Archive, Look,
         Clear, Unpack, Publish, Read, Save, disk
<1>1. PICK c : c = Walking(path[w], todo[w], graph[w])
  OBVIOUS
<1>2. /\ c.path = path[w] /\ c.todo = todo[w] /\ c.graph = graph[w]
      /\ Last(c.todo) = Level(w) /\ Asked(c) = Wanted(w) /\ Rest(c.todo) = Without(w)
  BY <1>1 DEF Walking, Level, Wanted, Asked, Rest, Without
<1>3. CASE Begin(w)
  <2>1. graph[w] = <<>>
    BY <1>3 DEF Begin, Inv, WalkInv, StageIsKept
  <2>2. /\ root'[w] = at[w] /\ path'[w] = <<RootName>> /\ todo'[w] = <<Needs[at[w]]>>
        /\ graph'[w] = <<>> /\ phase'[w] = "walk"
    BY <1>0, <1>3, <2>1 DEF Begin, TypeInv
  <2>3. WalksTo(at, root'[w], Start(root'[w]))
    BY StartWalks
  <2> QED BY <1>0, <2>2, <2>3 DEF SeenInv, Start, Insertion
<1>4. CASE Ascend(w)
  <2>1. /\ path'[w] = Front(path[w]) /\ todo'[w] = Front(todo[w]) /\ graph'[w] = graph[w]
        /\ root'[w] = root[w] /\ phase[w] = "walk" /\ phase'[w] \in {"save", "walk"}
        /\ undisturbed' = undisturbed /\ Level(w) = <<>>
    BY <1>0, <1>4 DEF Ascend, TypeInv
  <2>2. PICK d : d = Walking(path'[w], todo'[w], graph'[w])
    OBVIOUS
  <2>3. Goes(at, c, d)
    BY <1>0, <1>2, <2>1, <2>2 DEF Goes, GoesUp
  <2>4. undisturbed[w] => WalksTo(at, root[w], d)
    BY <1>1, <2>1, <2>3, WalksOn DEF SeenInv
  <2> QED BY <1>0, <2>1, <2>2, <2>4 DEF SeenInv, Insertion
<1>5. CASE Known(w)
  <2>1. /\ path'[w] = path[w] /\ todo'[w] = Without(w) /\ graph'[w] = graph[w]
        /\ root'[w] = root[w] /\ phase[w] = "walk" /\ phase'[w] = "walk"
        /\ undisturbed' = undisturbed /\ Level(w) # <<>>
        /\ Wanted(w).name \notin Range(path[w]) /\ Wanted(w).name \in DOMAIN graph[w]
    BY <1>0, <1>5 DEF Known, TypeInv
  <2>2. PICK d : d = Walking(path'[w], todo'[w], graph'[w])
    OBVIOUS
  <2>3. Goes(at, c, d)
    BY <1>0, <1>2, <2>1, <2>2 DEF Goes, GoesOn
  <2>4. undisturbed[w] => WalksTo(at, root[w], d)
    BY <1>1, <2>1, <2>3, WalksOn DEF SeenInv
  <2> QED BY <1>0, <2>1, <2>2, <2>4 DEF SeenInv, Insertion
<1>6. CASE Archive(w)
  <2>1. /\ UNCHANGED <<path, todo, graph, root, undisturbed>> /\ phase[w] = "walk"
        /\ hand'[w] = at[Wanted(w).place]
        /\ Wanted(w).name \notin Range(path[w]) \cup DOMAIN graph[w]
    BY <1>0, <1>6 DEF Archive, TypeInv
  <2> QED BY <1>0, <2>1 DEF SeenInv, Wanted, Level
<1>7. CASE Look(w) \/ Clear(w) \/ Unpack(w) \/ Publish(w)
  <2>1. /\ UNCHANGED <<path, todo, graph, root, undisturbed, hand>>
        /\ phase[w] \in Insertion
    BY <1>7 DEF Look, Clear, Unpack, Publish, Insertion
  <2> QED BY <1>0, <2>1 DEF SeenInv, Wanted, Level, Insertion
<1>8. CASE Read(w)
  <2>1. /\ path'[w] = Append(path[w], Wanted(w).name)
        /\ todo'[w] = Append(Without(w), Needs[hand[w]])
        /\ graph'[w] = [n \in DOMAIN graph[w] \cup {Wanted(w).name} |->
                          IF n \in DOMAIN graph[w] THEN graph[w][n] ELSE Found(w)]
        /\ root'[w] = root[w] /\ phase[w] = "read" /\ phase'[w] = "walk"
        /\ undisturbed' = undisturbed
    BY <1>0, <1>8 DEF Read, TypeInv
  <2>2. PICK d : d = Walking(path'[w], todo'[w], graph'[w])
    OBVIOUS
  <2>3. ASSUME undisturbed[w] PROVE Goes(at, c, d)
    <3>1. /\ hand[w] = at[Wanted(w).place]
          /\ Wanted(w).name \notin Range(path[w]) \cup DOMAIN graph[w]
          /\ Level(w) # <<>> /\ todo[w] # <<>>
      BY <1>0, <2>1, <2>3 DEF SeenInv, Insertion
    <3>2. Found(w) = [tree |-> at[Wanted(w).place], place |-> Wanted(w).place]
      BY <3>1 DEF Found
    <3> QED BY <1>2, <2>1, <2>2, <3>1, <3>2 DEF Goes, GoesDown
  <2>4. undisturbed[w] => WalksTo(at, root[w], d)
    BY <1>1, <2>1, <2>3, WalksOn DEF SeenInv
  <2> QED BY <1>0, <2>1, <2>2, <2>4 DEF SeenInv, Insertion
<1>9. CASE Stop(w) \/ Save(w)
  <2>1. phase'[w] = "idle"
    BY <1>0, <1>9 DEF Stop, Save, TypeInv
  <2> QED BY <2>1 DEF SeenInv
<1> QED BY <1>3, <1>4, <1>5, <1>6, <1>7, <1>8, <1>9 DEF Build

\* A build that rests, while no place changes.
LEMMA RestIsSeen ==
  ASSUME NEW w, SeenInv(w), RowIsKept(w), at' = at, undisturbed'[w] = undisturbed[w]
  PROVE  SeenInv(w)'
BY DEF SeenInv, RowIsKept, Wanted, Level

LEMMA StepIsSeen ==
  ASSUME Inv, \A w \in Workspaces : SeenInv(w), [Next]_vars
  PROVE  \A w \in Workspaces : SeenInv(w)'
<1>1. CASE UNCHANGED vars
  BY <1>1, RestIsSeen DEF vars, RowIsKept
<1>2. ASSUME NEW p \in Places, Edit(p), NEW w \in Workspaces PROVE SeenInv(w)'
  BY <1>2 DEF Edit, SeenInv
<1>3. ASSUME NEW w \in Workspaces, Build(w), NEW v \in Workspaces PROVE SeenInv(v)'
  <2>1. CASE v = w
    BY <1>3, <2>1, BuildIsSeen
  <2>2. CASE v # w
    <3>1. RowIsKept(v)
      BY <1>3, <2>2, OthersRest DEF Inv
    <3>2. at' = at /\ undisturbed'[v] = undisturbed[v]
      BY <1>3, <2>2 DEF Inv, TypeInv, Build, Begin, Stop, Ascend, Known, Archive, Look, Clear,
                        Unpack, Publish, Read, Save, disk
    <3> QED BY <3>1, <3>2, RestIsSeen
  <2> QED BY <2>1, <2>2
<1> QED BY <1>1, <1>2, <1>3 DEF Next, Build

\* A lockfile that changes is what the trees lead to.
LEMMA SaveIsSeen ==
  ASSUME Inv, \A w \in Workspaces : SeenInv(w), [Next]_vars
  PROVE  \A w \in Workspaces :
           lock'[w] # lock[w] /\ undisturbed[w] => lock'[w].graph = LockOf(at, root[w])
<1> SUFFICES ASSUME NEW w \in Workspaces, lock'[w] # lock[w], undisturbed[w]
             PROVE  lock'[w].graph = LockOf(at, root[w])
  OBVIOUS
<1>1. PICK v \in Workspaces : Save(v)
  BY DEF Next, Edit, Begin, Stop, Ascend, Known, Archive, Look, Clear, Unpack, Publish, Read,
         disk, vars
<1>2. v = w /\ lock'[w].graph = graph[w] /\ phase[w] = "save"
  BY <1>1 DEF Save, Inv, TypeInv
<1>3. todo[w] = <<>>
  BY <1>2 DEF Inv, WalkInv, StageIsKept
<1>4. PICK c : c = Walking(path[w], todo[w], graph[w])
  OBVIOUS
<1>5. WalksTo(at, root[w], c)
  BY <1>2, <1>4 DEF SeenInv
<1>6. c.todo = <<>> /\ c.graph = graph[w]
  BY <1>3, <1>4 DEF Walking
<1>7. c.graph = LockOf(at, root[w])
  <2>1. PICK seen, r : seen = at /\ r = root[w]
    OBVIOUS
  <2>2. WalksTo(seen, r, c)
    BY <1>5, <2>1
  <2> QED BY <1>6, <2>1, <2>2, LockIsWhereItEnds
<1> QED BY <1>2, <1>6, <1>7

\* "Same (manifest, registry-state) MUST emit byte-identical lockfile bytes",
\* lockfile.rs:11: what is cached, by whom, and which builds died does not show in
\* the lockfile that a build saves; only the trees do.
LocksFollowTheTrees ==
  [][\A w \in Workspaces :
       lock'[w] # lock[w] /\ undisturbed[w] => lock'[w].graph = LockOf(at, root[w])]_vars

\* A lockfile saved while nobody edits is that to which the trees lead from the
\* root of the workspace: two builds that see the same trees lock the same.
THEOREM LockfilesFollowTheTrees == Spec => LocksFollowTheTrees
<1>1. Init => \A w \in Workspaces : SeenInv(w)
  BY DEF Init, SeenInv
<1>2. Inv /\ (\A w \in Workspaces : SeenInv(w)) /\ [Next]_vars
        => (\A w \in Workspaces : SeenInv(w))'
  BY StepIsSeen
<1>3. Inv /\ (\A w \in Workspaces : SeenInv(w)) /\ [Next]_vars =>
        [\A w \in Workspaces :
           lock'[w] # lock[w] /\ undisturbed[w] => lock'[w].graph = LockOf(at, root[w])]_vars
  BY SaveIsSeen
<1> QED BY <1>1, <1>2, <1>3, InvHolds, PTL DEF Spec, LocksFollowTheTrees
=============================================================================
