------------------------------ MODULE MirBody ------------------------------
(***************************************************************************)
(* The control-flow graphs of crates/cobrust-mir (tree.rs), what the       *)
(* borrow checker (borrow.rs) knows of one instruction, and what the       *)
(* drop-schedule pass (drop.rs) makes of a whole body.                     *)
(*                                                                         *)
(* Places are represented by their root local, the only part of them both  *)
(* passes look at.  Types are represented by the set Eligible.             *)
(***************************************************************************)
EXTENDS Naturals, Sequences, FiniteSets

CONSTANTS
  Locals,    \* locals of a body
  Eligible,  \* those of non-Copy type that are neither parameters nor _return
  NoLocal    \* no destination

ASSUME MirAssumption == /\ Eligible \subseteq Locals /\ NoLocal \notin Locals
                        /\ IsFiniteSet(Locals)

\* Block b of a lowered body is <<b, 0>>, the entry <<1, 0>>; <<b, j>> is the j-th
\* block of the chain of drops in front of block b.
Ids == Nat \X Nat
Entry == <<1, 0>>

\* An operand, or the place of a Ref rvalue or of a Drop terminator.
Modes == {"copy", "move", "shared", "mut", "drop"}
Operand == [local : Locals, mode : Modes]

\* Assignments by rvalue: Use, Ref, and those that combine operands (binary,
\* unary, cast, aggregate).
StatementOps == {"use", "combine", "ref"}
TerminatorOps == {"goto", "switch", "call", "assert", "drop", "return", "unreachable"}
Ends == {"return", "unreachable"}

Statement == [op : StatementOps, dst : Locals, args : Seq(Operand)]
Terminator == [op : TerminatorOps, dst : Locals \cup {NoLocal},
               args : Seq(Operand), to : Seq(Ids)]
Block == [stmts : Seq(Statement), term : Terminator]

Succs(body, b) == {body[b].term.to[i] : i \in DOMAIN body[b].term.to}

IsBody(body) ==
  /\ body \in [DOMAIN body -> Block]
  /\ DOMAIN body \subseteq Ids /\ IsFiniteSet(DOMAIN body)
  /\ Entry \in DOMAIN body
  /\ \A b \in DOMAIN body : Succs(body, b) \subseteq DOMAIN body

\* The i-th instruction of block b: a statement or, after the last, the
\* terminator.
Instr(body, b, i) ==
  IF i <= Len(body[b].stmts) THEN body[b].stmts[i] ELSE body[b].term

----------------------------------------------------------------------------
\* One instruction.

Named(x, modes) ==
  {x.args[i].local : i \in {j \in DOMAIN x.args : x.args[j].mode \in modes}}

Reads(x) == Named(x, {"copy", "move"})
Moves(x) == Named(x, {"move"})
Drops(x) == Named(x, {"drop"})

\* An argument of a call that an earlier argument has moved.
ReadsItsOwnMove(x) ==
  /\ x.op = "call"
  /\ \E i, j \in DOMAIN x.args :
       /\ i < j
       /\ x.args[i].mode = "move"
       /\ x.args[j].mode \in {"copy", "move"}
       /\ x.args[i].local = x.args[j].local

\* Moves into an aggregate or an operator are clones at run time: only a plain
\* move and an argument give the value away.
Consumes(x) == IF x.op \in {"use", "call"} THEN Moves(x) ELSE {}

\* The checker's moved and dropped sets after x.  A plain move is recorded
\* after its destination is cleared, an argument before.
MovedAfter(x, moved) ==
  IF x.op = "use" THEN (moved \ {x.dst}) \cup Consumes(x)
                  ELSE (moved \cup Consumes(x)) \ {x.dst}
DroppedAfter(x, dropped) == dropped \cup Drops(x)

\* Borrows are pairs <<local, kind>>, kept within one block.
BorrowsOf(x) ==
  {<<x.args[i].local, x.args[i].mode>> :
     i \in {j \in DOMAIN x.args : x.args[j].mode \in {"shared", "mut"}}}
Conflict(x, borrows) ==
  \E new \in BorrowsOf(x), old \in borrows :
    new[1] = old[1] /\ "mut" \in {new[2], old[2]}

Allowed(x, moved, dropped, borrows) ==
  /\ Reads(x) \cap (moved \cup dropped) = {}
  /\ ~ReadsItsOwnMove(x)
  /\ ~Conflict(x, borrows)

\* Before drops are scheduled: the lowering emits none, and a return, which has
\* no target, names no local.
IsLowered(body) ==
  /\ IsBody(body)
  /\ \A b \in DOMAIN body :
       /\ b[2] = 0 /\ body[b].term.op # "drop"
       /\ \A i \in 1..(Len(body[b].stmts) + 1) : Drops(Instr(body, b, i)) = {}
       /\ body[b].term.op = "return" =>
            Succs(body, b) = {} /\ body[b].term.dst = NoLocal

----------------------------------------------------------------------------
\* compute_drop_schedule.

\* Every Operand::Move of an rvalue or of a call's arguments, in any block.
GloballyMoved(body) ==
  UNION {(UNION {Moves(Instr(body, b, i)) : i \in 1..Len(body[b].stmts)})
           \cup IF body[b].term.op = "call" THEN Moves(body[b].term) ELSE {}
           : b \in DOMAIN body}

\* Mutant of ToDrop: locals moved out are dropped like the others.
AllEligible(body) == Eligible

ToDrop(body) == Eligible \ GloballyMoved(body)

\* Mutant of IsReturn: an assertion, which may not come back, counts as one.
IsReturnOrAssert(body, b) == body[b].term.op \in {"return", "assert"}

IsReturn(body, b) == body[b].term.op = "return"

\* build_drop_chain: the j-th of the drops in front of ret.
DropBlock(order, ret, j) ==
  [stmts |-> <<>>,
   term |-> [op |-> "drop", dst |-> NoLocal,
             args |-> <<[local |-> order[j], mode |-> "drop"]>>,
             to |-> <<IF j = Len(order) THEN ret ELSE <<ret[1], j + 1>> >>]]

\* Mutant of Rewired: the edges of a switch are forgotten.
RewiredButSwitch(body, term) ==
  IF term.op \in {"drop", "switch"} THEN term
  ELSE [term EXCEPT !.to =
          [i \in DOMAIN term.to |->
             IF IsReturn(body, term.to[i]) THEN <<term.to[i][1], 1>> ELSE term.to[i]]]

\* rewire_predecessors: every edge to a return now leads to its first drop.
Rewired(body, term) ==
  IF term.op = "drop" THEN term
  ELSE [term EXCEPT !.to =
          [i \in DOMAIN term.to |->
             IF IsReturn(body, term.to[i]) THEN <<term.to[i][1], 1>> ELSE term.to[i]]]

\* The body with the locals of `order` dropped, in that order, on the way to
\* every return.
Chains(body, order) ==
  {<<ret[1], j>> : ret \in {b \in DOMAIN body : IsReturn(body, b)}, j \in DOMAIN order}
Scheduled(body, order) ==
  IF order = <<>> THEN body
  ELSE [b \in DOMAIN body \cup Chains(body, order) |->
          IF b \in DOMAIN body
            THEN [body[b] EXCEPT !.term = Rewired(body, @)]
            ELSE DropBlock(order, <<b[1], 0>>, b[2])]

\* The blocks a path from b reaches, b among them.
Reachable(body, b) ==
  LET within[n \in Nat] ==
        IF n = 0 THEN {b}
        ELSE LET nearer == within[n - 1]
             IN  nearer \cup UNION {Succs(body, c) : c \in nearer}
  IN  within[Cardinality(DOMAIN body)]

\* verify_drops: the same local is dropped twice on some path from the entry.
DropsTwice(body) ==
  \E b \in Reachable(body, Entry) : \E s \in Succs(body, b) : \E c \in Reachable(body, s) :
    Drops(body[b].term) \cap Drops(body[c].term) # {}
=============================================================================
