----------------------------- MODULE MCPackages -----------------------------
(* Two workspaces over three packages: w1 asks for a and b, w2 for a alone;   *)
(* a asks for b from another place, or for c, which may ask for a again.      *)
EXTENDS Packages

CONSTANTS w1, w2, pa, pb, pc, W1, W2, A1, A2, B1, C1, C2, a, b, c, app

MCPlaces == {w1, w2, pa, pb, pc}
MCTrees == {W1, W2, A1, A2, B1, C1, C2}
Dep(n, p) == [name |-> n, place |-> p]

MCNeeds == [t \in MCTrees |->
  CASE t = W1 -> <<Dep(a, pa), Dep(b, pb)>>
    [] t = W2 -> <<Dep(a, pa)>>
    [] t = A1 -> <<Dep(b, pc)>>
    [] t = A2 -> <<Dep(b, pb), Dep(c, pc)>>
    [] t = C1 -> <<Dep(a, pa)>>
    [] OTHER -> <<>>]

MCMayHold == [p \in MCPlaces |->
  CASE p = w1 -> {W1} [] p = w2 -> {W2} [] p = pa -> {A1, A2}
    [] p = pb -> {B1} [] p = pc -> {C1, C2}]

\* walk_dep as a pure function of the trees: the graph, or None at a cycle.
RECURSIVE Walk(_, _, _, _)
Walk(seen, deps, onPath, g) ==
  IF deps = <<>> \/ g = None THEN g
  ELSE LET d == Head(deps)
           t == seen[d.place]
           more == [n \in DOMAIN g \cup {d.name} |->
                      IF n = d.name THEN [tree |-> t, place |-> d.place] ELSE g[n]]
           below == IF d.name \in onPath THEN None
                    ELSE IF d.name \in DOMAIN g THEN g
                    ELSE Walk(seen, Needs[t], onPath \cup {d.name}, more)
       IN  Walk(seen, Tail(deps), onPath, below)

\* lockfile.rs:11: "Same (manifest, registry-state) MUST emit byte-identical
\* lockfile bytes".  Unless the user edited a place meanwhile, the lockfile a
\* build saves is a function of the trees: what is cached, by whom, and which
\* builds died does not show in it.
LocksFollowFromTheTrees ==
  [][\A w \in Workspaces : lock'[w] # lock[w] /\ undisturbed[w] =>
       lock'[w].graph = Walk(at, Needs[root[w]], {RootName}, <<>>)]_vars
=============================================================================
