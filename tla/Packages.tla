------------------------------ MODULE Packages ------------------------------
(***************************************************************************)
(* Dependency resolution and the content-addressed registry of             *)
(* crates/cobrust-pkg: resolver.rs, sources.rs, registry.rs, tarball.rs    *)
(* and lockfile.rs, as `cobrust build` and `test` use them.                *)
(*                                                                         *)
(* One build at a time runs in a workspace; builds of different workspaces *)
(* share the registry under the user's home directory and nothing excludes *)
(* one from the other.  A build may fail or be killed at every step.       *)
(*                                                                         *)
(* A tree is the content of a directory and its own hash.  Of its files    *)
(* the model tells apart the ones in Files, in the order in which they are *)
(* unpacked; the first is cobrust.toml.                                    *)
(***************************************************************************)
EXTENDS Naturals, Sequences, FiniteSets, SequencesExt, Functions

CONSTANTS
  Workspaces,   \* places where builds run
  Places,       \* directories: workspaces and path dependencies
  Trees,        \* contents of directories
  Names,        \* keys of [dependencies]
  Needs,        \* [dependencies] of each tree, in the order of its keys
  MayHold,      \* what the user may put in each place
  RootName,     \* [package] name of the workspaces
  MaxBuilds,    \* bound: builds started
  MaxEdits,     \* bound: changes the user makes
  None

Files == <<"cobrust.toml", "src">>

ASSUME PackagesAssumption ==
  /\ Workspaces \subseteq Places
  /\ Needs \in [Trees -> Seq([name : Names, place : Places])]
  /\ MayHold \in [Places -> SUBSET Trees]
  /\ RootName \in Names /\ None \notin Trees /\ \A S \in SUBSET Range(Files) : S # None
  /\ MaxBuilds \in Nat /\ MaxEdits \in Nat

Dependency == [name : Names, place : Places]
Node == [tree : Trees, place : Places]
Graph == UNION {[S -> Node] : S \in SUBSET Names}

VARIABLES
  at,        \* what each place holds now
  entry,     \* blake3/<hex>: the files in it, or None
  staging,   \* blake3/.staging-<hex>: the files in it, or None
  phase,     \* of the build in each workspace
  root,      \* the tree whose manifest the build has parsed
  path,      \* on_path
  todo,      \* dependencies not walked yet, one sequence for each name on path
  graph,     \* the nodes found so far
  hand,      \* the tarball being inserted
  unpacked,  \* how many of its files have been unpacked
  lock,      \* cobrust.lock of each workspace: root and graph, or None
  overlapped,  \* history: trees two builds have been inserting at a time
  undisturbed, \* history: has no place changed since the build began?
  builds, edits   \* how many there have been

vars == <<at, entry, staging, phase, root, path, todo, graph, hand, unpacked,
          lock, overlapped, undisturbed, builds, edits>>
disk == <<at, entry, staging, lock, overlapped, builds, edits>>

Phases == {"idle", "walk", "look", "clear", "unpack", "publish", "read", "save"}

TypeOK ==
  /\ at \in [Places -> Trees]
  /\ entry \in [Trees -> (SUBSET Range(Files)) \cup {None}]
  /\ staging \in [Trees -> (SUBSET Range(Files)) \cup {None}]
  /\ phase \in [Workspaces -> Phases]
  /\ root \in [Workspaces -> Trees]
  /\ hand \in [Workspaces -> Trees \cup {None}]
  /\ unpacked \in [Workspaces -> 0..Len(Files)]
  /\ overlapped \subseteq Trees
  /\ undisturbed \in [Workspaces -> BOOLEAN]
  /\ builds \in 0..MaxBuilds /\ edits \in 0..MaxEdits
  /\ \A w \in Workspaces :
       /\ path[w] \in Seq(Names) /\ todo[w] \in Seq(Seq(Dependency))
       /\ Len(path[w]) = Len(todo[w])
       /\ DOMAIN graph[w] \subseteq Names /\ Range(graph[w]) \subseteq Node

Init ==
  /\ at \in {f \in [Places -> Trees] : \A p \in Places : f[p] \in MayHold[p]}
  /\ entry = [t \in Trees |-> None]
  /\ staging = [t \in Trees |-> None]
  /\ phase = [w \in Workspaces |-> "idle"]
  /\ root = [w \in Workspaces |-> at[w]]
  /\ path = [w \in Workspaces |-> <<>>]
  /\ todo = [w \in Workspaces |-> <<>>]
  /\ graph = [w \in Workspaces |-> <<>>]
  /\ hand = [w \in Workspaces |-> None]
  /\ unpacked = [w \in Workspaces |-> 0]
  /\ lock = [w \in Workspaces |-> None]
  /\ overlapped = {}
  /\ undisturbed = [w \in Workspaces |-> FALSE]
  /\ builds = 0 /\ edits = 0

----------------------------------------------------------------------------
(* The user *)

Edit(p) ==
  /\ edits < MaxEdits /\ edits' = edits + 1
  /\ \E t \in MayHold[p] \ {at[p]} : at' = [at EXCEPT ![p] = t]
  /\ undisturbed' = [w \in Workspaces |-> FALSE]
  /\ UNCHANGED <<entry, staging, phase, root, path, todo, graph, hand, unpacked,
                 lock, overlapped, builds>>

----------------------------------------------------------------------------
(* resolve: the walk over the dependencies *)

Begin(w) ==
  /\ phase[w] = "idle"
  /\ builds < MaxBuilds /\ builds' = builds + 1
  /\ phase' = [phase EXCEPT ![w] = "walk"]
  /\ root' = [root EXCEPT ![w] = at[w]]
  /\ path' = [path EXCEPT ![w] = <<RootName>>]
  /\ todo' = [todo EXCEPT ![w] = <<Needs[at[w]]>>]
  /\ undisturbed' = [undisturbed EXCEPT ![w] = TRUE]
  /\ UNCHANGED <<at, entry, staging, lock, overlapped, edits, graph, hand, unpacked>>

\* The build fails, or is killed: what it holds in memory is gone.  It may at
\* every step; it must, where no step of this module is open to it: at a cycle,
\* a place that cannot be read, an entry without a manifest, a rename refused.
Stop(w) ==
  /\ phase[w] # "idle"
  /\ phase' = [phase EXCEPT ![w] = "idle"]
  /\ path' = [path EXCEPT ![w] = <<>>]
  /\ todo' = [todo EXCEPT ![w] = <<>>]
  /\ graph' = [graph EXCEPT ![w] = <<>>]
  /\ hand' = [hand EXCEPT ![w] = None]
  /\ unpacked' = [unpacked EXCEPT ![w] = 0]
  /\ undisturbed' = [undisturbed EXCEPT ![w] = FALSE]
  /\ UNCHANGED <<disk, root>>

Level(w) == Last(todo[w])
Wanted(w) == Head(Level(w))
Without(w) == Append(Front(todo[w]), Tail(Level(w)))

\* Mutant of Ascend: the end of a package's dependencies ends the walk.
AscendOut(w) ==
  /\ phase[w] = "walk" /\ Level(w) = <<>>
  /\ path' = [path EXCEPT ![w] = <<>>]
  /\ todo' = [todo EXCEPT ![w] = <<>>]
  /\ phase' = [phase EXCEPT ![w] = "save"]
  /\ UNCHANGED <<disk, root, graph, hand, unpacked, undisturbed>>

\* All dependencies of the innermost package are walked.
Ascend(w) ==
  /\ phase[w] = "walk" /\ Level(w) = <<>>
  /\ path' = [path EXCEPT ![w] = Front(@)]
  /\ todo' = [todo EXCEPT ![w] = Front(@)]
  /\ phase' = [phase EXCEPT ![w] = IF Len(path[w]) = 1 THEN "save" ELSE "walk"]
  /\ UNCHANGED <<disk, root, graph, hand, unpacked, undisturbed>>

\* Mutant of Known: the early return comes before the cycle check.
KnownFirst(w) ==
  /\ phase[w] = "walk" /\ Level(w) # <<>>
  /\ Wanted(w).name \in DOMAIN graph[w]
  /\ todo' = [todo EXCEPT ![w] = Without(w)]
  /\ UNCHANGED <<disk, phase, root, path, graph, hand, unpacked, undisturbed>>

\* A name on the path is a cycle; a name in the graph is not walked again,
\* whatever source this dependency names.
Known(w) ==
  /\ phase[w] = "walk" /\ Level(w) # <<>>
  /\ Wanted(w).name \notin Range(path[w])
  /\ Wanted(w).name \in DOMAIN graph[w]
  /\ todo' = [todo EXCEPT ![w] = Without(w)]
  /\ UNCHANGED <<disk, phase, root, path, graph, hand, unpacked, undisturbed>>

\* Tarball::build of the place.
Archive(w) ==
  /\ phase[w] = "walk" /\ Level(w) # <<>>
  /\ Wanted(w).name \notin Range(path[w]) \cup DOMAIN graph[w]
  /\ hand' = [hand EXCEPT ![w] = at[Wanted(w).place]]
  /\ phase' = [phase EXCEPT ![w] = "look"]
  /\ UNCHANGED <<disk, root, path, todo, graph, unpacked, undisturbed>>

----------------------------------------------------------------------------
(* insert_tarball *)

\* A directory of that name is taken for the entry, unseen.
Look(w) ==
  /\ phase[w] = "look"
  /\ phase' = [phase EXCEPT ![w] = IF entry[hand[w]] # None THEN "read" ELSE "clear"]
  /\ UNCHANGED <<disk, root, path, todo, graph, hand, unpacked, undisturbed>>

Inserting(w, t) == phase[w] \in {"unpack", "publish"} /\ hand[w] = t

\* What an earlier build has left there is removed, and the directory made anew.
Clear(w) ==
  /\ phase[w] = "clear"
  /\ staging' = [staging EXCEPT ![hand[w]] = {}]
  /\ unpacked' = [unpacked EXCEPT ![w] = 0]
  /\ phase' = [phase EXCEPT ![w] = "unpack"]
  /\ overlapped' = IF \E v \in Workspaces : Inserting(v, hand[w])
                     THEN overlapped \cup {hand[w]} ELSE overlapped
  /\ UNCHANGED <<at, entry, root, path, todo, graph, hand, lock, undisturbed,
                 builds, edits>>

\* Mutant of Unpack: published as soon as the manifest is there.
UnpackFirst(w) ==
  /\ phase[w] = "unpack"
  /\ staging' = [staging EXCEPT ![hand[w]] = {Files[1]}]
  /\ unpacked' = [unpacked EXCEPT ![w] = 1]
  /\ phase' = [phase EXCEPT ![w] = "publish"]
  /\ UNCHANGED <<at, entry, root, path, todo, graph, hand, lock, overlapped, undisturbed,
                 builds, edits>>

\* The next file is written into the directory of that name, whoever made it.
\* The tar library may make a directory that is gone again, or fail.
Unpack(w) ==
  LET t == hand[w]
      there == IF staging[t] = None THEN {} ELSE staging[t]
  IN  /\ phase[w] = "unpack"
      /\ staging' = [staging EXCEPT ![t] = there \cup {Files[unpacked[w] + 1]}]
      /\ unpacked' = [unpacked EXCEPT ![w] = @ + 1]
      /\ phase' = [phase EXCEPT ![w] = IF unpacked[w] + 1 = Len(Files) THEN "publish"
                                                                    ELSE "unpack"]
      /\ UNCHANGED <<at, entry, root, path, todo, graph, hand, lock, overlapped,
                     undisturbed, builds, edits>>

\* rename fails where the entry exists or the staging directory does not.
Publish(w) ==
  LET t == hand[w]
  IN  /\ phase[w] = "publish"
      /\ staging[t] # None /\ entry[t] = None
      /\ entry' = [entry EXCEPT ![t] = staging[t]]
      /\ staging' = [staging EXCEPT ![t] = None]
      /\ phase' = [phase EXCEPT ![w] = "read"]
      /\ UNCHANGED <<at, root, path, todo, graph, hand, unpacked, lock, overlapped,
                     undisturbed, builds, edits>>

----------------------------------------------------------------------------
(* The node, and the lockfile *)

Found(w) == [tree |-> hand[w], place |-> Wanted(w).place]

\* Mutant of Read: the dependencies of a dependency are walked last.
ReadBreadthFirst(w) ==
  /\ phase[w] = "read" /\ Files[1] \in entry[hand[w]]
  /\ graph' = [graph EXCEPT ![w] =
                 [n \in DOMAIN @ \cup {Wanted(w).name} |->
                    IF n \in DOMAIN @ THEN @[n] ELSE Found(w)]]
  /\ todo' = [todo EXCEPT ![w] = Append(Front(@), Tail(Level(w)) \o Needs[hand[w]])]
  /\ phase' = [phase EXCEPT ![w] = "walk"]
  /\ hand' = [hand EXCEPT ![w] = None] /\ unpacked' = [unpacked EXCEPT ![w] = 0]
  /\ UNCHANGED <<disk, root, path, undisturbed>>

\* Mutant of Read: the name is not put on the path.
ReadOffPath(w) ==
  /\ phase[w] = "read" /\ Files[1] \in entry[hand[w]]
  /\ graph' = [graph EXCEPT ![w] =
                 [n \in DOMAIN @ \cup {Wanted(w).name} |->
                    IF n \in DOMAIN @ THEN @[n] ELSE Found(w)]]
  /\ todo' = [todo EXCEPT ![w] = Append(Without(w), Needs[hand[w]])]
  /\ phase' = [phase EXCEPT ![w] = "walk"]
  /\ hand' = [hand EXCEPT ![w] = None] /\ unpacked' = [unpacked EXCEPT ![w] = 0]
  /\ UNCHANGED <<disk, root, path, undisturbed>>

\* The manifest is read from the entry; the node is in the graph before its
\* dependencies are walked.
Read(w) ==
  /\ phase[w] = "read" /\ Files[1] \in entry[hand[w]]
  /\ graph' = [graph EXCEPT ![w] =
                 [n \in DOMAIN @ \cup {Wanted(w).name} |->
                    IF n \in DOMAIN @ THEN @[n] ELSE Found(w)]]
  /\ path' = [path EXCEPT ![w] = Append(@, Wanted(w).name)]
  /\ todo' = [todo EXCEPT ![w] = Append(Without(w), Needs[hand[w]])]
  /\ phase' = [phase EXCEPT ![w] = "walk"]
  /\ hand' = [hand EXCEPT ![w] = None] /\ unpacked' = [unpacked EXCEPT ![w] = 0]
  /\ UNCHANGED <<disk, root, undisturbed>>

\* The lockfile is written beside the old one and renamed over it.
Save(w) ==
  /\ phase[w] = "save"
  /\ lock' = [lock EXCEPT ![w] = [root |-> root[w], graph |-> graph[w]]]
  /\ phase' = [phase EXCEPT ![w] = "idle"]
  /\ graph' = [graph EXCEPT ![w] = <<>>]
  /\ undisturbed' = [undisturbed EXCEPT ![w] = FALSE]
  /\ UNCHANGED <<at, entry, staging, root, path, todo, hand, unpacked, overlapped,
                 builds, edits>>

Next ==
  \/ \E p \in Places : Edit(p)
  \/ \E w \in Workspaces :
       \/ Begin(w) \/ Stop(w) \/ Ascend(w) \/ Known(w) \/ Archive(w)
       \/ Look(w) \/ Clear(w) \/ Unpack(w) \/ Publish(w) \/ Read(w) \/ Save(w)

Spec == Init /\ [][Next]_vars

----------------------------------------------------------------------------
(* Properties *)

Locked == {w \in Workspaces : lock[w] # None}

\* registry.rs:150: "Extract atomically".  An entry has all its files, unless
\* two builds were inserting the same tree: they share the staging directory,
\* and what one has removed under the other is missing for ever.
EntriesAreWhole ==
  \A t \in Trees : entry[t] \notin {None, Range(Files)} => t \in overlapped

\* What a lockfile names is in the registry, with its manifest, and every name
\* that a locked package or the root depends on is locked: a build that was
\* refused, killed or overtaken leaves no lockfile that says otherwise.
LocksAreInstalled ==
  \A w \in Locked :
    LET g == lock[w].graph
    IN  /\ \A n \in DOMAIN g : entry[g[n].tree] # None /\ Files[1] \in entry[g[n].tree]
        /\ \A t \in {lock[w].root} \cup {g[n].tree : n \in DOMAIN g} :
             \A i \in DOMAIN Needs[t] : Needs[t][i].name \in DOMAIN g

Uses(g, m, n) == \E i \in DOMAIN Needs[g[m].tree] : Needs[g[m].tree][i].name = n

\* No locked package depends on itself, however long the way round: in every
\* set of locked packages one uses none of the others, nor itself.
LocksAreAcyclic ==
  \A w \in Locked : \A S \in SUBSET DOMAIN lock[w].graph :
    S # {} => \E m \in S : \A n \in S : ~Uses(lock[w].graph, m, n)

\* resolver.rs:3-7: the highest version "satisfying every requirement targeting
\* that package"; conflicts surface as an error.  So a package is locked from
\* the source that every dependant of it names.
EveryDependantAgrees ==
  \A w \in Locked :
    LET g == lock[w].graph
    IN  \A t \in {lock[w].root} \cup {g[n].tree : n \in DOMAIN g} : \A i \in DOMAIN Needs[t] :
          g[Needs[t][i].name].place = Needs[t][i].place
=============================================================================
