---------------------------- MODULE MirPipeline ----------------------------
(***************************************************************************)
(* What crates/cobrust-mir does to a body after lowering it (lower.rs,     *)
(* `lower`): borrow check, drop schedule, borrow check again.  A body that *)
(* passes is then executed, so that what the static passes conclude can be *)
(* compared with what happens.                                             *)
(*                                                                         *)
(* Executing is the business of the code generator.  Here a local owns a   *)
(* value from its assignment until the value is moved out or dropped, and  *)
(* every edge of a switch or an assertion may be taken.                    *)
(***************************************************************************)
EXTENDS MirBody

CONSTANT Bodies   \* bodies the lowering may produce

ASSUME BodiesAssumption == \A b \in Bodies : IsLowered(b)

VARIABLES
  body,     \* the body in hand
  stage,    \* "check", "rejected", "run", "returned" or "halted"
  pass,     \* which of the two borrow checks
  work,     \* the checker's work-list
  visited,  \* blocks the checker has walked or is walking
  entry,    \* entry[b]: moved and dropped locals on entry to block b
  cur,      \* instruction being looked at: <<block, place in the block>>
  now,      \* [moved, dropped, borrows] before that instruction
  owned,    \* execution: locals that hold a value of theirs
  gone,     \* execution: locals whose value was moved out
  freed     \* execution: locals that have been dropped

checker == <<pass, work, visited, entry, now>>
machine == <<owned, gone, freed>>
vars == <<body, stage, pass, work, visited, entry, cur, now, owned, gone, freed>>

Nowhere == << <<0, 0>>, 0>>
Fresh == [moved |-> {}, dropped |-> {}]
NoState == [moved |-> {}, dropped |-> {}, borrows |-> {}]

\* In particular, what the drop schedule makes is a body: every edge, rewired ones
\* included, leads to a block.
TypeOK ==
  /\ IsBody(body)
  /\ stage \in {"check", "rejected", "run", "returned", "halted"}
  /\ pass \in {1, 2}
  /\ work \subseteq DOMAIN body
  /\ visited \subseteq DOMAIN body
  /\ entry \in [DOMAIN body -> [moved : SUBSET Locals, dropped : SUBSET Locals]]
  /\ cur \in Ids \X Nat
  /\ cur # Nowhere => /\ cur[1] \in DOMAIN body
                      /\ cur[2] \in 1..(Len(body[cur[1]].stmts) + 1)
  /\ now \in [moved : SUBSET Locals, dropped : SUBSET Locals,
              borrows : SUBSET (Locals \X {"shared", "mut"})]
  /\ owned \subseteq Locals /\ gone \subseteq Locals /\ freed \subseteq Locals

Init ==
  /\ body \in Bodies
  /\ stage = "check"
  /\ pass = 1
  /\ work = {Entry}
  /\ visited = {}
  /\ entry = [b \in DOMAIN body |-> Fresh]
  /\ cur = Nowhere
  /\ now = NoState
  /\ owned = {} /\ gone = {} /\ freed = {}

Current == Instr(body, cur[1], cur[2])
AtTerminator == cur[2] = Len(body[cur[1]].stmts) + 1

----------------------------------------------------------------------------
\* borrow_check.  The order in which the work-list is emptied is left open.

Pop(b) ==
  /\ stage = "check" /\ cur = Nowhere
  /\ b \in work
  /\ work' = work \ {b}
  /\ visited' = visited \cup {b}
  /\ cur' = <<b, 1>>
  /\ now' = [moved |-> entry[b].moved, dropped |-> entry[b].dropped, borrows |-> {}]
  /\ UNCHANGED <<body, stage, pass, entry, machine>>

Walking == stage = "check" /\ cur # Nowhere

Passes == Allowed(Current, now.moved, now.dropped, now.borrows)

Reject ==
  /\ Walking
  /\ ~Passes
  /\ stage' = "rejected"
  /\ UNCHANGED <<body, cur, checker, machine>>

After == [moved |-> MovedAfter(Current, now.moved),
          dropped |-> DroppedAfter(Current, now.dropped)]

\* Mutant of CheckStatement: the terminator is taken for one more statement.
CheckStatementPastEnd ==
  /\ Walking
  /\ Passes
  /\ now' = [moved |-> After.moved, dropped |-> After.dropped,
             borrows |-> now.borrows \cup BorrowsOf(Current)]
  /\ cur' = <<cur[1], cur[2] + 1>>
  /\ UNCHANGED <<body, stage, pass, work, visited, entry, machine>>

CheckStatement ==
  /\ Walking /\ ~AtTerminator
  /\ Passes
  /\ now' = [moved |-> After.moved, dropped |-> After.dropped,
             borrows |-> now.borrows \cup BorrowsOf(Current)]
  /\ cur' = <<cur[1], cur[2] + 1>>
  /\ UNCHANGED <<body, stage, pass, work, visited, entry, machine>>

\* Mutants of NeedsWalk: a block once walked is done; every block is walked again.
NeverWalked(s) == s \notin visited
Always(s) == TRUE

\* A successor is walked, or walked again, when it never was or when its entry
\* state grew.
NeedsWalk(s) == s \notin visited \/ entry'[s] # entry[s]

CheckTerminator ==
  /\ Walking /\ AtTerminator
  /\ Passes
  /\ entry' = [b \in DOMAIN body |->
                 IF b \in Succs(body, cur[1])
                   THEN [moved |-> entry[b].moved \cup After.moved,
                         dropped |-> entry[b].dropped \cup After.dropped]
                   ELSE entry[b]]
  /\ work' = work \cup {s \in Succs(body, cur[1]) : NeedsWalk(s)}
  /\ cur' = Nowhere
  /\ now' = NoState
  /\ UNCHANGED <<body, stage, pass, visited, machine>>

Checked == stage = "check" /\ cur = Nowhere /\ work = {}

----------------------------------------------------------------------------
\* compute_drop_schedule, then the second check starts.  The locals to drop are
\* taken from a hash set: in any order.

Orders == {o \in [1..Cardinality(ToDrop(body)) -> ToDrop(body)] :
             \A l \in ToDrop(body) : \E i \in DOMAIN o : o[i] = l}

Schedule ==
  /\ Checked /\ pass = 1
  /\ \E order \in Orders : body' = Scheduled(body, order)
  /\ pass' = 2
  /\ stage' = IF DropsTwice(body') THEN "rejected" ELSE "check"
  /\ work' = {Entry}
  /\ visited' = {}
  /\ entry' = [b \in DOMAIN body' |-> Fresh]
  /\ UNCHANGED <<cur, now, machine>>

----------------------------------------------------------------------------
\* Execution.

Begin ==
  /\ Checked /\ pass = 2
  /\ stage' = "run"
  /\ cur' = <<Entry, 1>>
  /\ UNCHANGED <<body, checker, machine>>

\* The effect of the current instruction on the values the locals hold.
Effect ==
  /\ owned' = ((owned \ Consumes(Current)) \ Drops(Current))
                \cup (IF Current.dst = NoLocal THEN {} ELSE {Current.dst})
  /\ gone' = (gone \cup Consumes(Current)) \ {Current.dst}
  /\ freed' = (freed \ {Current.dst}) \cup Drops(Current)

RunStatement ==
  /\ stage = "run" /\ ~AtTerminator
  /\ Effect
  /\ cur' = <<cur[1], cur[2] + 1>>
  /\ UNCHANGED <<body, stage, checker>>

RunTerminator ==
  /\ stage = "run" /\ AtTerminator
  /\ Effect
  /\ \E t \in Succs(body, cur[1]) : cur' = <<t, 1>>
  /\ UNCHANGED <<body, stage, checker>>

\* A return, dead code, or an assertion that does not hold.
Stop ==
  /\ stage = "run" /\ AtTerminator
  /\ Current.op \in Ends \cup {"assert"}
  /\ stage' = IF Current.op = "return" THEN "returned" ELSE "halted"
  /\ UNCHANGED <<body, cur, checker, machine>>

Check == (\E b \in DOMAIN body : Pop(b)) \/ Reject \/ CheckStatement \/ CheckTerminator
Run == Begin \/ RunStatement \/ RunTerminator \/ Stop

Next == Check \/ Schedule \/ Run

\* The compiler runs to its end.
Spec == Init /\ [][Next]_vars /\ WF_vars(Check \/ Schedule \/ Begin)

----------------------------------------------------------------------------
(* Properties *)

\* The borrow checker is sound: no execution of a body it accepts reads a local
\* whose value has been moved out or dropped on the way, round loops included.
NoStaleRead ==
  stage = "run" => /\ Reads(Current) \cap (gone \cup freed) = {}
                   /\ ~ReadsItsOwnMove(Current)

\* No execution of an accepted body drops a value twice or drops one that has
\* been given away.
NoDoubleDrop == stage = "run" => Drops(Current) \cap (gone \cup freed) = {}

\* A value still owned when its function returns is one the body moves on some
\* other path, or was assigned by the very block that returns, or the function
\* is a single block.
AssignedIn(b) == {body[b].stmts[i].dst : i \in DOMAIN body[b].stmts}
LeaksAreConfined ==
  stage = "returned" =>
    \/ cur[1] = Entry
    \/ owned \cap Eligible \subseteq GloballyMoved(body) \cup AssignedIn(cur[1])

\* verify_drops never finds fault with a schedule, and drops make the second
\* check fail only where a block that returns reads a local: the rest of an
\* accepted body stays accepted.
DropsBreakOnlyReturns ==
  stage = "rejected" /\ pass = 2 =>
    /\ cur # Nowhere
    /\ body[cur[1]].term.op = "return"
    /\ Reads(Current) \cap ToDrop(body) # {}

\* The work-list of the checker drains: every body is accepted or rejected.
EveryBodyIsDecided == <>(stage # "check")
=============================================================================
