-------------------------- MODULE MirPipelineProof --------------------------
(***************************************************************************)
(* The borrow checker of cobrust-mir is sound for every set of bodies.     *)
(*                                                                         *)
(* While the checker runs, some labelling L records the state with which   *)
(* each instruction was last checked.  A walked block that is not waiting  *)
(* to be walked again is settled: its labels start from its entry state,   *)
(* follow from one another, allow every read, and are within the entry     *)
(* states of its successors.  When the work-list is empty every block that *)
(* can be executed is settled, and an execution stays below the labels.    *)
(***************************************************************************)
EXTENDS MirPipeline, FiniteSetTheorems, WellFoundedInduction, TLAPS

Known == [moved : SUBSET Locals, dropped : SUBSET Locals]
Labels == [Ids \X Nat -> Known]

Last(b) == Len(body[b].stmts) + 1

Clear(L, b, i) ==
  /\ Reads(Instr(body, b, i)) \cap (L[<<b, i>>].moved \cup L[<<b, i>>].dropped) = {}
  /\ ~ReadsItsOwnMove(Instr(body, b, i))

Within(L, b, i, known) ==
  /\ MovedAfter(Instr(body, b, i), L[<<b, i>>].moved) \subseteq known.moved
  /\ DroppedAfter(Instr(body, b, i), L[<<b, i>>].dropped) \subseteq known.dropped

Settled(L, b) ==
  /\ L[<<b, 1>>] = entry[b]
  /\ \A i \in 1..Last(b) : Clear(L, b, i)
  /\ \A i \in 1..Len(body[b].stmts) : Within(L, b, i, L[<<b, i + 1>>])
  /\ \A s \in Succs(body, b) : s \in visited \cup work /\ Within(L, b, Last(b), entry[s])

Underway(L) ==
  /\ cur[1] \in visited \ work
  /\ L[<<cur[1], 1>>] = entry[cur[1]]
  /\ L[cur] = [moved |-> now.moved, dropped |-> now.dropped]
  /\ \A i \in 1..(cur[2] - 1) :
       Clear(L, cur[1], i) /\ Within(L, cur[1], i, L[<<cur[1], i + 1>>])

CheckInv(L) ==
  /\ Entry \in visited \cup work
  /\ \A b \in visited \ work : cur = Nowhere \/ b # cur[1] => Settled(L, b)
  /\ cur # Nowhere => Underway(L)

RunInv(L) ==
  /\ work = {}
  /\ \A b \in visited : Settled(L, b)
  /\ cur # Nowhere /\ cur[1] \in visited
  /\ gone \subseteq L[cur].moved
  /\ freed \subseteq L[cur].dropped

Inv ==
  /\ TypeOK
  /\ stage = "check" /\ pass = 1 => IsLowered(body)
  /\ stage = "check" => /\ gone = {} /\ freed = {}
                        /\ \E L \in Labels : CheckInv(L)
  /\ stage = "run" => \E L \in Labels : RunInv(L)

----------------------------------------------------------------------------
\* What an instruction names are locals.
LEMMA InstrType ==
  ASSUME NEW bd, IsBody(bd), NEW b \in DOMAIN bd, NEW i \in 1..(Len(bd[b].stmts) + 1)
  PROVE  /\ Reads(Instr(bd, b, i)) \subseteq Locals
         /\ Moves(Instr(bd, b, i)) \subseteq Locals
         /\ Drops(Instr(bd, b, i)) \subseteq Locals
         /\ BorrowsOf(Instr(bd, b, i)) \subseteq Locals \X {"shared", "mut"}
         /\ Instr(bd, b, i).dst \in Locals \cup {NoLocal}
         /\ Len(bd[b].stmts) \in Nat
<1> DEFINE x == Instr(bd, b, i)
<1>1. bd[b].stmts \in Seq(Statement) /\ bd[b].term \in Terminator
  BY DEF IsBody, Block
<1>2. Len(bd[b].stmts) \in Nat /\ x \in Statement \cup Terminator
  BY <1>1 DEF Instr
<1> HIDE DEF x
<1>3. x.args \in Seq(Operand) /\ x.dst \in Locals \cup {NoLocal}
  <2>1. CASE x \in Statement
    BY <2>1 DEF Statement
  <2>2. CASE x \in Terminator
    BY <2>2 DEF Terminator
  <2> QED BY <1>2, <2>1, <2>2
<1>4. \A j \in DOMAIN x.args : x.args[j] \in Operand
  BY <1>3
<1>5. \A modes : Named(x, modes) \subseteq Locals
  BY <1>4 DEF Named, Operand
<1>6. BorrowsOf(x) \subseteq Locals \X {"shared", "mut"}
  BY <1>4 DEF BorrowsOf, Operand
<1> QED BY <1>2, <1>3, <1>5, <1>6 DEF x, Reads, Moves, Drops

\* The checker's transfer functions yield sets of locals.
LEMMA AfterType ==
  ASSUME NEW x, Moves(x) \subseteq Locals, Drops(x) \subseteq Locals,
         NEW moved \in SUBSET Locals, NEW dropped \in SUBSET Locals
  PROVE  MovedAfter(x, moved) \subseteq Locals /\ DroppedAfter(x, dropped) \subseteq Locals
  BY DEF MovedAfter, DroppedAfter, Consumes

\* An execution that has moved and dropped no more than the checker knows of
\* still has not after the next instruction.
LEMMA EffectIsBelow ==
  ASSUME NEW x, NEW moved, NEW dropped, NEW g, NEW f, g \subseteq moved, f \subseteq dropped
  PROVE  /\ (g \cup Consumes(x)) \ {x.dst} \subseteq MovedAfter(x, moved)
         /\ (f \ {x.dst}) \cup Drops(x) \subseteq DroppedAfter(x, dropped)
  BY DEF MovedAfter, DroppedAfter

----------------------------------------------------------------------------
\* Every return gets a chain of as many blocks as the order is long.
LEMMA ChainsAreFinite ==
  ASSUME NEW bd, IsFiniteSet(DOMAIN bd), NEW n \in Nat, NEW order, DOMAIN order = 1..n
  PROVE  IsFiniteSet(Chains(bd, order))
<1> DEFINE P == (DOMAIN bd) \X (1..n)
           Q == {<<b[1], j>> : b \in DOMAIN bd, j \in 1..n}
           f == [p \in P |-> <<p[1][1], p[2]>>]
<1>1. IsFiniteSet(P)
  <2>1. IsFiniteSet(1..n)
    BY FS_Interval
  <2> QED BY <2>1, FS_Product
<1>2. f \in Surjection(P, Q)
  <2>1. f \in [P -> Q]
    OBVIOUS
  <2>2. ASSUME NEW q \in Q PROVE \E p \in P : f[p] = q
    <3>1. PICK b \in DOMAIN bd, j \in 1..n : q = <<b[1], j>>
      OBVIOUS
    <3>2. <<b, j>> \in P /\ f[<<b, j>>] = q
      BY <3>1
    <3> QED BY <3>2
  <2> HIDE DEF P, Q, f
  <2> QED BY <2>1, <2>2 DEF Surjection
<1>3. IsFiniteSet(Q)
  <2> HIDE DEF P, Q, f
  <2> QED BY <1>1, <1>2, FS_Surjection
<1>4. Chains(bd, order) \subseteq Q
  BY DEF Chains
<1> HIDE DEF Q
<1> QED BY <1>3, <1>4, FS_Subset

\* The drop schedule of a lowered body is a body: its new edges lead to drops
\* or to the return they stand in front of.
LEMMA ScheduledIsBody ==
  ASSUME NEW bd, IsLowered(bd), NEW n \in Nat, NEW order \in [1..n -> Locals]
  PROVE  IsBody(Scheduled(bd, order))
<1> DEFINE new == Scheduled(bd, order)
           ids == DOMAIN bd \cup Chains(bd, order)
<1>1. CASE order = <<>>
  BY <1>1 DEF Scheduled, IsLowered
<1>2. CASE order # <<>>
  <2>1. new = [b \in ids |-> IF b \in DOMAIN bd
                               THEN [bd[b] EXCEPT !.term = Rewired(bd, bd[b].term)]
                               ELSE DropBlock(order, <<b[1], 0>>, b[2])]
    BY <1>2 DEF Scheduled
  <2>2. Len(order) = n /\ DOMAIN order = 1..n /\ 1 \in DOMAIN order
    BY <1>2
  <2>3. IsBody(bd) /\ \A b \in DOMAIN bd : b \in Ids /\ b[2] = 0
    BY DEF IsLowered, IsBody
  <2>4. ids \subseteq Ids
    BY <2>2, <2>3 DEF Chains, Ids
  <2>5. ASSUME NEW b \in DOMAIN bd
        PROVE  new[b] \in Block /\ Succs(new, b) \subseteq ids
    <3> DEFINE t == bd[b].term
               to == [i \in DOMAIN t.to |->
                        IF IsReturn(bd, t.to[i]) THEN <<t.to[i][1], 1>> ELSE t.to[i]]
    <3>1. bd[b] \in Block /\ t \in Terminator /\ t.to \in Seq(Ids)
      BY <2>3 DEF IsBody, Block, Terminator
    <3>2. \A i \in DOMAIN t.to : t.to[i] \in DOMAIN bd
      BY <2>3 DEF IsBody, Succs
    <3>3. new[b] = [bd[b] EXCEPT !.term = Rewired(bd, t)]
      BY <2>1
    <3>4. CASE t.op = "drop"
      <4>1. Rewired(bd, t) = t
        BY <3>4 DEF Rewired
      <4>2. new[b] = bd[b]
        BY <3>1, <3>3, <4>1 DEF Block
      <4> QED BY <2>3, <3>1, <4>2 DEF IsBody, Succs
    <3>5. CASE t.op # "drop"
      <4>1. Rewired(bd, t) = [t EXCEPT !.to = to]
        BY <3>5 DEF Rewired
      <4>2. DOMAIN t.to = 1..Len(t.to) /\ Len(t.to) \in Nat
        BY <3>1
      <4>3. \A i \in DOMAIN t.to : to[i] \in ids
        <5> SUFFICES ASSUME NEW i \in DOMAIN t.to PROVE to[i] \in ids
          OBVIOUS
        <5>1. CASE IsReturn(bd, t.to[i])
          <6>1. to[i] = <<t.to[i][1], 1>>
            BY <5>1
          <6> QED BY <2>2, <3>2, <5>1, <6>1 DEF Chains
        <5>2. CASE ~IsReturn(bd, t.to[i])
          BY <3>2, <5>2
        <5> QED BY <5>1, <5>2
      <4>4. to \in Seq(Ids) /\ DOMAIN to = DOMAIN t.to
        <5>1. to \in [1..Len(t.to) -> Ids] /\ DOMAIN to = DOMAIN t.to
          BY <2>4, <4>2, <4>3
        <5> HIDE DEF to
        <5> QED BY <4>2, <5>1
      <4> HIDE DEF to, t
      <4>5. [t EXCEPT !.to = to] \in Terminator
        BY <3>1, <4>4 DEF Terminator
      <4>6. /\ new[b] \in Block
            /\ new[b].term.to = to
        BY <3>1, <3>3, <4>1, <4>5 DEF Block, Terminator
      <4> QED BY <4>3, <4>4, <4>6 DEF Succs
    <3> QED BY <3>4, <3>5
  <2>6. ASSUME NEW b \in ids, b \notin DOMAIN bd
        PROVE  new[b] \in Block /\ Succs(new, b) \subseteq ids
    <3>1. PICK ret \in DOMAIN bd, j \in 1..n : IsReturn(bd, ret) /\ b = <<ret[1], j>>
      BY <2>2, <2>6 DEF Chains
    <3>2. <<b[1], 0>> = ret
      BY <2>3, <3>1 DEF Ids
    <3>3. new[b] = DropBlock(order, ret, j)
      BY <2>1, <2>6, <3>1, <3>2
    <3> DEFINE target == IF j = Len(order) THEN ret ELSE <<ret[1], j + 1>>
    <3>4. target \in ids
      <4>1. CASE j = n
        BY <2>2, <4>1
      <4>2. CASE j # n
        BY <2>2, <3>1, <4>2 DEF Chains
      <4> QED BY <4>1, <4>2
    <3>5. order[j] \in Locals
      OBVIOUS
    <3> HIDE DEF target
    <3>6. new[b].term.to = <<target>>
      BY <3>3 DEF DropBlock, target
    <3>7. Succs(new, b) \subseteq ids
      BY <3>4, <3>6 DEF Succs
    <3>8. new[b] \in Block
      <4>1. [local |-> order[j], mode |-> "drop"] \in Operand
        BY <3>5 DEF Operand, Modes
      <4>2. new[b].term \in Terminator
        BY <2>4, <3>3, <3>4, <4>1 DEF DropBlock, Terminator, TerminatorOps, target
      <4>3. new[b] = [stmts |-> <<>>, term |-> new[b].term]
        BY <3>3 DEF DropBlock
      <4> HIDE DEF new
      <4>4. <<>> \in Seq(Statement)
        OBVIOUS
      <4>5. \A t \in Terminator : [stmts |-> <<>>, term |-> t] \in Block
        BY <4>4 DEF Block
      <4> QED BY <4>2, <4>3, <4>5, Zenon
    <3> QED BY <3>7, <3>8
  <2>7. new \in [ids -> Block] /\ DOMAIN new = ids
    BY <2>1, <2>5, <2>6
  <2>8. Entry \in ids
    BY <2>3 DEF IsBody
  <2>9. IsFiniteSet(ids)
    BY <2>2, <2>3, ChainsAreFinite, FS_Union DEF IsBody
  <2> QED BY <2>4, <2>5, <2>6, <2>7, <2>8, <2>9 DEF IsBody
<1> QED BY <1>1, <1>2

----------------------------------------------------------------------------
\* A body fresh from lowering, with an empty set of walked blocks.
LEMMA InitEstablishesInv == ASSUME Init PROVE Inv
<1>1. IsLowered(body) /\ IsBody(body)
  BY BodiesAssumption DEF Init, IsLowered
<1>2. TypeOK
  <2>1. cur \in Ids \X Nat /\ cur = Nowhere
    BY DEF Init, Nowhere, Ids
  <2>2. Entry \in DOMAIN body
    BY <1>1 DEF IsBody
  <2> QED BY <1>1, <2>1, <2>2 DEF Init, TypeOK, Fresh, NoState
<1> DEFINE L == [p \in Ids \X Nat |-> Fresh]
<1>3. L \in Labels
  BY DEF Labels, Known, Fresh
<1>4. CheckInv(L)
  BY DEF Init, CheckInv
<1> QED BY <1>1, <1>2, <1>3, <1>4 DEF Init, Inv

\* The instruction being looked at exists and names locals.
LEMMA CurrentType ==
  ASSUME TypeOK, cur # Nowhere
  PROVE  /\ cur[1] \in DOMAIN body /\ cur[1] \in Ids
         /\ cur[2] \in 1..Last(cur[1])
         /\ Last(cur[1]) \in Nat /\ Len(body[cur[1]].stmts) \in Nat
         /\ cur = <<cur[1], cur[2]>>
         /\ Moves(Current) \subseteq Locals /\ Drops(Current) \subseteq Locals
         /\ BorrowsOf(Current) \subseteq Locals \X {"shared", "mut"}
         /\ Current.dst \in Locals \cup {NoLocal}
         /\ Consumes(Current) \subseteq Locals
<1>1. /\ IsBody(body)
      /\ cur[1] \in DOMAIN body
      /\ cur[2] \in 1..(Len(body[cur[1]].stmts) + 1)
      /\ cur = <<cur[1], cur[2]>>
  BY DEF TypeOK
<1>2. cur[1] \in Ids
  BY <1>1 DEF IsBody
<1> QED BY <1>1, <1>2, InstrType DEF Current, Last, Consumes

\* Every step keeps the types; for Schedule this is ScheduledIsBody.
LEMMA TypeStep ==
  ASSUME Inv, [Next]_vars
  PROVE  TypeOK'
<1> USE DEF Inv
<1>1. ASSUME NEW b \in DOMAIN body, Pop(b) PROVE TypeOK'
  <2>1. Len(body[b].stmts) \in Nat /\ entry[b] \in Known /\ b \in Ids
    BY DEF TypeOK, IsBody, Block, Known
  <2> QED BY <1>1, <2>1 DEF Pop, TypeOK, machine, Known
<1>2. CASE Reject
  BY <1>2 DEF Reject, TypeOK, checker, machine
<1>3. CASE CheckStatement \/ CheckTerminator
  <2>1. cur # Nowhere /\ now.moved \in SUBSET Locals /\ now.dropped \in SUBSET Locals
    BY <1>3 DEF CheckStatement, CheckTerminator, Walking, TypeOK
  <2>2. After \in Known
    BY <2>1, CurrentType, AfterType DEF After, Known
  <2>3. CASE CheckStatement
    <3>1. cur[2] \in 1..Len(body[cur[1]].stmts)
      BY <2>1, <2>3, CurrentType DEF CheckStatement, AtTerminator, Last
    <3>2. cur' \in Ids \X Nat /\ cur'[1] \in DOMAIN body
            /\ cur'[2] \in 1..(Len(body[cur[1]].stmts) + 1) /\ cur'[1] = cur[1]
      BY <2>1, <2>3, <3>1, CurrentType DEF CheckStatement
    <3>3. now' \in [moved : SUBSET Locals, dropped : SUBSET Locals,
                    borrows : SUBSET (Locals \X {"shared", "mut"})]
      BY <2>1, <2>2, <2>3, CurrentType DEF CheckStatement, TypeOK, Known
    <3> QED BY <2>3, <3>2, <3>3 DEF CheckStatement, TypeOK, machine
  <2>4. CASE CheckTerminator
    <3>1. Succs(body, cur[1]) \subseteq DOMAIN body
      BY <2>1, CurrentType DEF TypeOK, IsBody
    <3>2. entry' \in [DOMAIN body -> [moved : SUBSET Locals, dropped : SUBSET Locals]]
      BY <2>2, <2>4 DEF CheckTerminator, TypeOK, Known
    <3>3. work' \subseteq DOMAIN body
      BY <2>4, <3>1 DEF CheckTerminator, TypeOK
    <3> QED
      BY <2>4, <3>2, <3>3 DEF CheckTerminator, TypeOK, machine, Nowhere, NoState, Ids
  <2> QED BY <1>3, <2>3, <2>4
<1>4. CASE Schedule
  <2>1. PICK order \in Orders : body' = Scheduled(body, order)
    BY <1>4 DEF Schedule
  <2>2. Cardinality(ToDrop(body)) \in Nat
    BY MirAssumption, FS_Subset, FS_CardinalityType DEF ToDrop
  <2>3. order \in [1..Cardinality(ToDrop(body)) -> Locals]
    BY MirAssumption DEF Orders, ToDrop
  <2>4. IsLowered(body)
    BY <1>4 DEF Schedule, Checked
  <2>5. IsBody(body')
    BY <2>1, <2>2, <2>3, <2>4, ScheduledIsBody
  <2>6. Entry \in DOMAIN body'
    BY <2>5 DEF IsBody
  <2>7. cur = Nowhere
    BY <1>4 DEF Schedule, Checked
  <2> QED BY <1>4, <2>5, <2>6, <2>7 DEF Schedule, TypeOK, machine, Fresh
<1>5. CASE Begin \/ Stop
  <2>1. Entry \in DOMAIN body /\ Len(body[Entry].stmts) \in Nat /\ Entry \in Ids
    BY DEF TypeOK, IsBody, Block
  <2> QED BY <1>5, <2>1 DEF Begin, Stop, TypeOK, checker, machine
<1>6. CASE RunStatement \/ RunTerminator
  <2>1. cur # Nowhere
    BY <1>6 DEF RunStatement, RunTerminator, RunInv
  <2>2. owned' \subseteq Locals /\ gone' \subseteq Locals /\ freed' \subseteq Locals
    BY <1>6, <2>1, CurrentType DEF RunStatement, RunTerminator, Effect, TypeOK
  <2>3. CASE RunStatement
    <3>1. cur[2] \in 1..Len(body[cur[1]].stmts)
      BY <2>1, <2>3, CurrentType DEF RunStatement, AtTerminator, Last
    <3>2. cur' \in Ids \X Nat /\ cur'[1] \in DOMAIN body
            /\ cur'[2] \in 1..(Len(body[cur[1]].stmts) + 1) /\ cur'[1] = cur[1]
      BY <2>1, <2>3, <3>1, CurrentType DEF RunStatement
    <3> QED BY <2>2, <2>3, <3>2 DEF RunStatement, TypeOK, checker
  <2>4. CASE RunTerminator
    <3>1. PICK t \in Succs(body, cur[1]) : cur' = <<t, 1>>
      BY <2>4 DEF RunTerminator
    <3>2. t \in DOMAIN body /\ t \in Ids /\ Len(body[t].stmts) \in Nat
      BY <2>1, CurrentType DEF TypeOK, IsBody, Block
    <3> QED BY <2>2, <2>4, <3>1, <3>2 DEF RunTerminator, TypeOK, checker
  <2> QED BY <1>6, <2>3, <2>4
<1>7. CASE UNCHANGED vars
  BY <1>7 DEF vars, TypeOK
<1> QED BY <1>1, <1>2, <1>3, <1>4, <1>5, <1>6, <1>7 DEF Next, Check, Run

----------------------------------------------------------------------------
\* One lemma for each step of the checker: how the labelling it leaves behind
\* is obtained from the one before.

\* A settled block stays settled while its entry state stays and those of its
\* successors only grow.
LEMMA SettledFrame ==
  ASSUME NEW L, NEW M, NEW c, Settled(L, c), Len(body[c].stmts) \in Nat,
         \A i \in Nat : M[<<c, i>>] = L[<<c, i>>],
         body' = body, entry'[c] = entry[c],
         \A s \in Succs(body, c) : /\ entry[s].moved \subseteq entry'[s].moved
                                  /\ entry[s].dropped \subseteq entry'[s].dropped,
         visited \cup work \subseteq visited' \cup work'
  PROVE  Settled(M, c)'
<1>1. Last(c) \in Nat /\ Last(c)' = Last(c) /\ 1 \in Nat
  BY DEF Last
<1>2. M[<<c, 1>>] = entry'[c]
  BY DEF Settled
<1>3. ASSUME NEW i \in 1..Last(c) PROVE Clear(M, c, i)'
  BY <1>1, <1>3 DEF Settled, Clear
<1>4. ASSUME NEW i \in 1..Len(body[c].stmts) PROVE Within(M, c, i, M[<<c, i + 1>>])'
  BY <1>4 DEF Settled, Within
<1>5. ASSUME NEW s \in Succs(body, c)
      PROVE  s \in visited' \cup work' /\ Within(M, c, Last(c), entry[s])'
  BY <1>1, <1>5 DEF Settled, Within
<1> QED BY <1>1, <1>2, <1>3, <1>4, <1>5 DEF Settled

\* What is left to show of a labelling once a step has put the checker in a block.
LEMMA CheckInvFromParts ==
  ASSUME NEW M, Entry \in visited' \cup work', cur' # Nowhere,
         \A c \in visited' \ work' : c # cur'[1] => Settled(M, c)',
         Underway(M)'
  PROVE  CheckInv(M)'
<1>1. SUFFICES ASSUME NEW c \in visited' \ work', c # cur'[1] \/ cur' = Nowhere
               PROVE  Settled(M, c)'
  BY DEF CheckInv
<1> QED BY <1>1

\* A block taken from the work-list is labelled anew from its entry state.
LEMMA PopKeepsLabels ==
  ASSUME TypeOK, NEW L \in Labels, CheckInv(L), NEW b \in DOMAIN body, Pop(b)
  PROVE  \E M \in Labels : CheckInv(M)'
<1>1. entry[b] \in Known /\ <<b, 1>> \in Ids \X Nat
  BY DEF TypeOK, IsBody, Known
<1>2. PICK M \in Labels : M = [L EXCEPT ![<<b, 1>>] = entry[b]]
  BY <1>1 DEF Labels
<1>3. /\ UNCHANGED <<body, entry>>
      /\ cur = Nowhere /\ b \in work
      /\ work' = work \ {b} /\ visited' = visited \cup {b}
      /\ cur' = <<b, 1>>
      /\ now' = [moved |-> entry[b].moved, dropped |-> entry[b].dropped, borrows |-> {}]
  BY DEF Pop
<1>4. M[<<b, 1>>] = entry[b] /\ \A c \in Ids, i \in Nat : c # b => M[<<c, i>>] = L[<<c, i>>]
  BY <1>1, <1>2 DEF Labels
<1>5. ASSUME NEW c \in visited' \ work', c # b PROVE Settled(M, c)'
  <2>1. Settled(L, c)
    BY <1>3, <1>5 DEF CheckInv
  <2>2. c \in Ids /\ Len(body[c].stmts) \in Nat
    BY <1>3, <1>5 DEF TypeOK, IsBody, Block
  <2>3. \A i \in Nat : M[<<c, i>>] = L[<<c, i>>]
    BY <1>4, <1>5, <2>2
  <2> QED BY <1>3, <2>1, <2>2, <2>3, SettledFrame
<1>6. Underway(M)'
  <2>1. M[cur'] = [moved |-> now'.moved, dropped |-> now'.dropped]
    BY <1>1, <1>3, <1>4 DEF Known
  <2> QED BY <1>3, <1>4, <2>1 DEF Underway
<1>7. Entry \in visited' \cup work'
  BY <1>3 DEF CheckInv
<1>8. cur' # Nowhere /\ cur'[1] = b
  BY <1>3 DEF Pop, Nowhere
<1> QED BY <1>5, <1>6, <1>7, <1>8, CheckInvFromParts

\* A statement that passes labels the instruction after it.
LEMMA StatementKeepsLabels ==
  ASSUME TypeOK, NEW L \in Labels, CheckInv(L), CheckStatement
  PROVE  \E M \in Labels : CheckInv(M)'
<1>1. /\ cur # Nowhere /\ now.moved \in SUBSET Locals /\ now.dropped \in SUBSET Locals
  BY DEF CheckStatement, Walking, TypeOK
<1>2. /\ cur[1] \in DOMAIN body /\ cur[1] \in Ids
      /\ cur[2] \in 1..Len(body[cur[1]].stmts)
      /\ Len(body[cur[1]].stmts) \in Nat
      /\ cur = <<cur[1], cur[2]>>
      /\ After \in Known
  BY <1>1, CurrentType, AfterType
  DEF CheckStatement, AtTerminator, Last, After, Known
<1>3. /\ UNCHANGED <<body, entry, work, visited>>
      /\ cur' = <<cur[1], cur[2] + 1>>
      /\ now'.moved = After.moved /\ now'.dropped = After.dropped
      /\ Passes
  BY DEF CheckStatement
<1>4. PICK b \in Ids, i \in Nat, known \in Known :
        b = cur[1] /\ i = cur[2] /\ known = After
  BY <1>2
<1>5. PICK M \in Labels : M = [L EXCEPT ![<<b, i + 1>>] = known]
  BY DEF Labels
<1>6. Underway(L)
  BY <1>1 DEF CheckInv
<1>0. /\ M[<<b, i + 1>>] = known
      /\ \A c \in Ids, j \in Nat : c # b \/ j # i + 1 => M[<<c, j>>] = L[<<c, j>>]
  BY <1>5 DEF Labels
<1>7. ASSUME NEW c \in visited \ work, c # b PROVE Settled(M, c)'
  <2>1. Settled(L, c)
    BY <1>4, <1>7 DEF CheckInv
  <2>2. c \in Ids /\ Len(body[c].stmts) \in Nat
    BY <1>7 DEF TypeOK, IsBody, Block
  <2>3. \A j \in Nat : M[<<c, j>>] = L[<<c, j>>]
    BY <1>0, <1>7, <2>2
  <2> QED BY <1>3, <2>1, <2>2, <2>3, SettledFrame
<1>8. Clear(M, b, i) /\ Within(M, b, i, M[<<b, i + 1>>])
  <2>1. M[<<b, i>>] = [moved |-> now.moved, dropped |-> now.dropped]
    BY <1>0, <1>2, <1>4, <1>6 DEF Underway
  <2>2. Current = Instr(body, b, i)
    BY <1>4 DEF Current
  <2>3. Clear(M, b, i)
    BY <1>3, <2>1, <2>2 DEF Passes, Allowed, Clear
  <2> QED BY <1>0, <1>4, <2>1, <2>2, <2>3 DEF Within, After
<1>9. ASSUME NEW j \in 1..(i - 1)
      PROVE  Clear(M, b, j) /\ Within(M, b, j, M[<<b, j + 1>>])
  <2>1. Clear(L, b, j) /\ Within(L, b, j, L[<<b, j + 1>>])
    BY <1>4, <1>6 DEF Underway
  <2>2. M[<<b, j>>] = L[<<b, j>>] /\ M[<<b, j + 1>>] = L[<<b, j + 1>>]
    BY <1>0, <1>2, <1>4
  <2> QED BY <2>1, <2>2 DEF Clear, Within
<1>10. Underway(M)'
  <2>1. b \in visited \ work /\ M[<<b, 1>>] = entry[b]
    BY <1>0, <1>2, <1>4, <1>6 DEF Underway
  <2>2. M[cur'] = [moved |-> now'.moved, dropped |-> now'.dropped]
    BY <1>0, <1>3, <1>4 DEF After
  <2>3. ASSUME NEW j \in 1..(cur'[2] - 1)
        PROVE  Clear(M, b, j)' /\ Within(M, b, j, M[<<b, j + 1>>])'
    <3>1. j = i \/ j \in 1..(i - 1)
      BY <1>2, <1>3, <1>4
    <3>2. Clear(M, b, j) /\ Within(M, b, j, M[<<b, j + 1>>])
      BY <1>8, <1>9, <3>1
    <3> QED BY <1>3, <3>2 DEF Clear, Within
  <2> QED BY <1>3, <1>4, <2>1, <2>2, <2>3 DEF Underway
<1>11. cur'[1] = b /\ cur' # Nowhere /\ Entry \in visited' \cup work'
  BY <1>3, <1>4 DEF CheckInv, Nowhere
<1> QED BY <1>3, <1>7, <1>10, <1>11, CheckInvFromParts

\* A terminator that passes settles its block: successors whose entry state
\* grew go back to the work-list.
LEMMA TerminatorKeepsLabels ==
  ASSUME TypeOK, NEW L \in Labels, CheckInv(L), CheckTerminator
  PROVE  CheckInv(L)'
<1>1. /\ cur # Nowhere /\ now.moved \in SUBSET Locals /\ now.dropped \in SUBSET Locals
  BY DEF CheckTerminator, Walking, TypeOK
<1>2. /\ cur[1] \in DOMAIN body /\ cur[1] \in Ids
      /\ cur[2] = Last(cur[1])
      /\ Len(body[cur[1]].stmts) \in Nat
      /\ cur = <<cur[1], cur[2]>>
      /\ After \in Known
  BY <1>1, CurrentType, AfterType
  DEF CheckTerminator, AtTerminator, Last, After, Known
<1>3. PICK b \in Ids, known \in Known : b = cur[1] /\ known = After
  BY <1>2
<1>4. /\ UNCHANGED <<body, visited>>
      /\ cur' = Nowhere
      /\ work' = work \cup {s \in Succs(body, b) : s \notin visited \/ entry'[s] # entry[s]}
      /\ Passes
  BY <1>3 DEF CheckTerminator, NeedsWalk
<1>5. /\ \A s \in Succs(body, b) :
           /\ entry'[s].moved = entry[s].moved \cup known.moved
           /\ entry'[s].dropped = entry[s].dropped \cup known.dropped
      /\ \A s \in DOMAIN body \ Succs(body, b) : entry'[s] = entry[s]
      /\ \A c \in DOMAIN body : Succs(body, c) \subseteq DOMAIN body
      /\ entry \in [DOMAIN body -> Known]
  BY <1>2, <1>3 DEF CheckTerminator, TypeOK, IsBody, Known
<1>6. \A s \in DOMAIN body : /\ entry[s].moved \subseteq entry'[s].moved
                             /\ entry[s].dropped \subseteq entry'[s].dropped
  <2> SUFFICES ASSUME NEW s \in DOMAIN body
               PROVE  /\ entry[s].moved \subseteq entry'[s].moved
                      /\ entry[s].dropped \subseteq entry'[s].dropped
    OBVIOUS
  <2>1. CASE s \in Succs(body, b)
    BY <1>5, <2>1
  <2>2. CASE s \notin Succs(body, b)
    BY <1>5, <2>2
  <2> QED BY <2>1, <2>2
<1>7. visited \cup work \subseteq visited' \cup work'
  BY <1>4
<1>8. Underway(L)
  BY <1>1 DEF CheckInv
<1>10. ASSUME NEW c \in visited' \ work' PROVE Settled(L, c)'
  <2>1. c \in DOMAIN body /\ c \in Ids /\ Len(body[c].stmts) \in Nat
    BY <1>4, <1>10 DEF TypeOK, IsBody, Block
  <2>2. entry'[c] = entry[c]
    BY <1>4, <1>5, <1>10, <2>1
  <2>3. CASE c # b
    <3>1. Settled(L, c)
      BY <1>3, <1>4, <1>10, <2>3 DEF CheckInv
    <3>2. Succs(body, c) \subseteq DOMAIN body
      BY <1>5, <2>1
    <3> QED BY <1>4, <1>6, <1>7, <2>1, <2>2, <3>1, <3>2, SettledFrame
  <2>4. CASE c = b
    <3>1. /\ L[<<b, 1>>] = entry[b]
          /\ L[<<b, Last(b)>>] = [moved |-> now.moved, dropped |-> now.dropped]
      BY <1>2, <1>3, <1>8 DEF Underway
    <3>2. Current = Instr(body, b, Last(b)) /\ Last(b) \in Nat /\ Last(b) = Last(b)'
      BY <1>2, <1>3, <1>4 DEF Current, Last
    <3>3. Clear(L, b, Last(b)) /\ Within(L, b, Last(b), known)
      BY <1>3, <1>4, <3>1, <3>2 DEF Passes, Allowed, Clear, Within, After
    <3>4. ASSUME NEW i \in 1..Last(b) PROVE Clear(L, b, i)'
      <4>1. Clear(L, b, i)
        <5>1. CASE i = Last(b)
          BY <3>3, <5>1
        <5>2. CASE i # Last(b)
          <6>1. i \in 1..(cur[2] - 1)
            BY <1>2, <1>3, <3>2, <3>4, <5>2
          <6> QED BY <1>3, <1>8, <6>1 DEF Underway
        <5> QED BY <5>1, <5>2
      <4> QED BY <1>4, <4>1 DEF Clear
    <3>5. ASSUME NEW i \in 1..Len(body[b].stmts) PROVE Within(L, b, i, L[<<b, i + 1>>])'
      <4>1. Within(L, b, i, L[<<b, i + 1>>])
        BY <1>2, <1>3, <1>8, <3>2, <3>5 DEF Underway, Last
      <4> QED BY <1>4, <4>1 DEF Within
    <3>6. ASSUME NEW s \in Succs(body, b)
          PROVE  s \in visited' \cup work' /\ Within(L, b, Last(b), entry[s])'
      <4>1. s \in visited' \cup work'
        BY <1>4, <3>6
      <4>2. known.moved \subseteq entry'[s].moved /\ known.dropped \subseteq entry'[s].dropped
        BY <1>5, <3>6
      <4> QED BY <1>4, <3>2, <3>3, <4>1, <4>2 DEF Within
    <3> QED BY <1>4, <2>2, <2>4, <3>1, <3>2, <3>4, <3>5, <3>6 DEF Settled
  <2> QED BY <2>3, <2>4
<1>11. Entry \in visited' \cup work'
  BY <1>7 DEF CheckInv
<1> QED BY <1>4, <1>10, <1>11 DEF CheckInv

----------------------------------------------------------------------------
\* An empty work-list leaves every walked block settled: execution starts below
\* the labels.
LEMMA BeginEstablishesRun ==
  ASSUME NEW L \in Labels, CheckInv(L), gone = {}, freed = {}, Begin
  PROVE  RunInv(L)'
<1>1. /\ work = {} /\ cur = Nowhere /\ cur' = <<Entry, 1>>
      /\ UNCHANGED <<body, work, visited, entry, gone, freed>>
  BY DEF Begin, Checked, checker, machine
<1>2. \A b \in visited : Settled(L, b)'
  BY <1>1 DEF CheckInv, Settled, Clear, Within, Last
<1>3. Entry \in visited' /\ cur' # Nowhere
  BY <1>1 DEF CheckInv, Nowhere
<1> QED BY <1>1, <1>2, <1>3 DEF RunInv

\* An execution step stays below the labels, within a block and from a block to
\* its successors.
LEMMA RunStaysBelow ==
  ASSUME TypeOK, NEW L \in Labels, RunInv(L), RunStatement \/ RunTerminator
  PROVE  RunInv(L)'
<1>1. /\ UNCHANGED <<body, work, visited, entry>>
      /\ gone' = (gone \cup Consumes(Current)) \ {Current.dst}
      /\ freed' = (freed \ {Current.dst}) \cup Drops(Current)
      /\ cur # Nowhere
  BY DEF RunStatement, RunTerminator, Effect, checker, RunInv
<1>2. /\ cur[1] \in DOMAIN body /\ cur[1] \in Ids
      /\ cur[2] \in 1..Last(cur[1])
      /\ Len(body[cur[1]].stmts) \in Nat
      /\ cur = <<cur[1], cur[2]>>
  BY <1>1, CurrentType
<1>3. PICK b \in Ids, i \in Nat : b = cur[1] /\ i = cur[2]
  BY <1>2 DEF Last
<1>4. \A c \in visited : Settled(L, c)'
  BY <1>1 DEF RunInv, Settled, Clear, Within, Last
<1>5. Settled(L, b) /\ b \in visited /\ work = {}
  BY <1>3 DEF RunInv
<1>6. /\ gone' \subseteq MovedAfter(Instr(body, b, i), L[<<b, i>>].moved)
      /\ freed' \subseteq DroppedAfter(Instr(body, b, i), L[<<b, i>>].dropped)
  <2>1. gone \subseteq L[<<b, i>>].moved /\ freed \subseteq L[<<b, i>>].dropped
    BY <1>2, <1>3 DEF RunInv
  <2> QED BY <1>1, <1>3, <2>1, EffectIsBelow DEF Current
<1>7. CASE RunStatement
  <2>1. cur' = <<b, i + 1>> /\ i \in 1..Len(body[b].stmts)
    BY <1>2, <1>3, <1>7 DEF RunStatement, AtTerminator, Last
  <2>2. Within(L, b, i, L[<<b, i + 1>>])
    BY <1>5, <2>1 DEF Settled
  <2>3. gone' \subseteq L[cur'].moved /\ freed' \subseteq L[cur'].dropped
    BY <1>6, <2>1, <2>2 DEF Within
  <2>4. cur' # Nowhere /\ cur'[1] \in visited'
    BY <1>1, <1>5, <2>1 DEF Nowhere
  <2> QED BY <1>1, <1>4, <1>5, <2>3, <2>4 DEF RunInv
<1>8. CASE RunTerminator
  <2>1. PICK t \in Succs(body, b) : cur' = <<t, 1>>
    BY <1>3, <1>8 DEF RunTerminator
  <2>2. t \in visited /\ Within(L, b, i, entry[t])
    BY <1>2, <1>3, <1>5, <1>8, <2>1 DEF Settled, RunTerminator, AtTerminator, Last
  <2>3. L[<<t, 1>>] = entry[t]
    BY <2>2 DEF RunInv, Settled
  <2>4. gone' \subseteq L[cur'].moved /\ freed' \subseteq L[cur'].dropped
    BY <1>6, <2>1, <2>2, <2>3 DEF Within
  <2>5. cur' # Nowhere /\ cur'[1] \in visited'
    BY <1>1, <2>1, <2>2 DEF Nowhere
  <2> QED BY <1>1, <1>4, <1>5, <2>4, <2>5 DEF RunInv
<1> QED BY <1>7, <1>8

----------------------------------------------------------------------------
\* Every step of the pipeline keeps the invariant.
LEMMA StepKeepsInv ==
  ASSUME Inv, [Next]_vars
  PROVE  Inv'
<1>1. TypeOK /\ TypeOK'
  BY TypeStep DEF Inv
<1>2. CASE Check
  <2>1. stage = "check" /\ UNCHANGED <<body, pass, gone, freed>> /\ stage' \in {"check", "rejected"}
    BY <1>2 DEF Check, Pop, Reject, CheckStatement, CheckTerminator, Walking, checker, machine
  <2>2. PICK L \in Labels : CheckInv(L)
    BY <2>1 DEF Inv
  <2>3. stage' = "check" => \E M \in Labels : CheckInv(M)'
    <3>1. ASSUME NEW b \in DOMAIN body, Pop(b) PROVE \E M \in Labels : CheckInv(M)'
      BY <1>1, <2>2, <3>1, PopKeepsLabels
    <3>2. CASE Reject
      BY <3>2 DEF Reject
    <3>3. CASE CheckStatement
      BY <1>1, <2>2, <3>3, StatementKeepsLabels
    <3>4. CASE CheckTerminator
      BY <1>1, <2>2, <3>4, TerminatorKeepsLabels
    <3> QED BY <1>2, <3>1, <3>2, <3>3, <3>4 DEF Check
  <2>4. gone' = {} /\ freed' = {} /\ (pass' = 1 => IsLowered(body'))
    BY <2>1 DEF Inv
  <2> QED BY <1>1, <2>1, <2>3, <2>4 DEF Inv
<1>3. CASE Schedule
  <2>1. /\ work' = {Entry} /\ visited' = {} /\ cur' = Nowhere /\ pass' = 2
        /\ stage' \in {"check", "rejected"}
        /\ gone' = {} /\ freed' = {}
    BY <1>3 DEF Schedule, Checked, machine, Inv
  <2>2. PICK L \in Labels : CheckInv(L)
    BY <1>3 DEF Schedule, Checked, Inv
  <2>3. CheckInv(L)'
    BY <2>1 DEF CheckInv
  <2> QED BY <1>1, <2>1, <2>3 DEF Inv
<1>4. CASE Run
  <2>1. CASE Begin
    <3>1. PICK L \in Labels : CheckInv(L)
      BY <2>1 DEF Begin, Checked, Inv
    <3>2. RunInv(L)'
      BY <2>1, <3>1, BeginEstablishesRun DEF Begin, Checked, Inv
    <3> QED BY <1>1, <2>1, <3>2 DEF Begin, Inv
  <2>2. CASE RunStatement \/ RunTerminator
    <3>1. PICK L \in Labels : RunInv(L)
      BY <2>2 DEF RunStatement, RunTerminator, Inv
    <3>2. RunInv(L)' /\ stage' = "run"
      BY <1>1, <2>2, <3>1, RunStaysBelow DEF RunStatement, RunTerminator
    <3> QED BY <1>1, <3>2 DEF Inv
  <2>3. CASE Stop
    BY <1>1, <2>3 DEF Stop, Inv
  <2> QED BY <1>4, <2>1, <2>2, <2>3 DEF Run
<1>5. CASE UNCHANGED vars
  <2>1. ASSUME NEW L \in Labels PROVE CheckInv(L)' = CheckInv(L) /\ RunInv(L)' = RunInv(L)
    BY <1>5 DEF vars, CheckInv, RunInv, Settled, Underway, Clear, Within, Last
  <2>2. stage = "check" => \E L \in Labels : CheckInv(L)'
    BY <2>1 DEF Inv
  <2>3. stage = "run" => \E L \in Labels : RunInv(L)'
    BY <2>1 DEF Inv
  <2>4. UNCHANGED <<body, stage, pass, gone, freed>>
    BY <1>5 DEF vars
  <2> QED BY <1>1, <2>2, <2>3, <2>4 DEF Inv
<1> QED BY <1>2, <1>3, <1>4, <1>5 DEF Next

\* Below the labels no instruction reads what is gone or freed.
LEMMA InvImpliesNoStaleRead == ASSUME Inv PROVE NoStaleRead
<1> SUFFICES ASSUME stage = "run" PROVE Reads(Current) \cap (gone \cup freed) = {}
                                     /\ ~ReadsItsOwnMove(Current)
  BY DEF NoStaleRead
<1>1. PICK L \in Labels : RunInv(L)
  BY DEF Inv
<1>2. cur[2] \in 1..Last(cur[1]) /\ cur = <<cur[1], cur[2]>>
  BY <1>1, CurrentType DEF Inv, RunInv
<1>3. Clear(L, cur[1], cur[2])
  BY <1>1, <1>2 DEF RunInv, Settled
<1>4. gone \subseteq L[<<cur[1], cur[2]>>].moved /\ freed \subseteq L[<<cur[1], cur[2]>>].dropped
  BY <1>1, <1>2 DEF RunInv
<1> QED BY <1>3, <1>4 DEF Clear, Current

\* The pipeline keeps its types, whatever bodies it is given: in particular the
\* drop schedule makes a well-formed body of every lowered one.
THEOREM PipelineTypeOK == Spec => []TypeOK
<1>1. Inv => TypeOK
  BY DEF Inv
<1> QED BY <1>1, InitEstablishesInv, StepKeepsInv, PTL DEF Spec

\* borrow_check is sound: no execution of a body it accepts reads a local that
\* was moved out or dropped before, for every set of bodies, loops included.
THEOREM BorrowCheckIsSound == Spec => []NoStaleRead
BY InitEstablishesInv, StepKeepsInv, InvImpliesNoStaleRead, PTL DEF Spec

(***************************************************************************)
(* What the drop schedule does to values: nothing is dropped twice or      *)
(* after it was given away, and what a return leaks is confined.           *)
(*                                                                         *)
(* A scheduled body is laid out in plain blocks, which drop nothing, and   *)
(* chains, which drop the locals of an order one after another; a chain is *)
(* entered at its first drop and leads to its return, which has no other   *)
(* way in.                                                                 *)
(***************************************************************************)

\* No local is in the order twice, and those left out are moved somewhere.
IsOrder(bd, order) ==
  /\ order \in Seq(Locals)
  /\ \A i, j \in 1..Len(order) : order[i] = order[j] => i = j
  /\ \A i \in 1..Len(order) : order[i] \notin GloballyMoved(bd)
  /\ \A l \in Eligible \ GloballyMoved(bd) : \E i \in 1..Len(order) : order[i] = l

PlainBlock(bd, b, order) ==
  /\ \A i \in 1..(Len(bd[b].stmts) + 1) : Drops(Instr(bd, b, i)) = {}
  /\ \A s \in Succs(bd, b) :
       s[2] = 1 \/ (s[2] = 0 /\ (IsReturn(bd, s) => order = <<>>))
  /\ IsReturn(bd, b) => Succs(bd, b) = {} /\ bd[b].term.dst = NoLocal

ChainBlock(bd, b, order) ==
  /\ b[2] \in 1..Len(order)
  /\ bd[b].stmts = <<>> /\ ~IsReturn(bd, b)
  /\ Drops(bd[b].term) = {order[b[2]]} /\ Consumes(bd[b].term) = {}
  /\ bd[b].term.dst = NoLocal
  /\ \A s \in Succs(bd, b) :
       IF b[2] = Len(order) THEN s[2] = 0 /\ IsReturn(bd, s) ELSE s[2] = b[2] + 1

LaidOut(bd, order) ==
  /\ IsOrder(bd, order)
  /\ \A b \in DOMAIN bd : IF b[2] = 0 THEN PlainBlock(bd, b, order)
                                      ELSE ChainBlock(bd, b, order)

\* The first n locals of the order.
Upto(order, n) == {order[k] : k \in 1..n}

\* An execution has dropped what the chain it is in has behind it, and nothing
\* outside of chains; and it has moved out what some instruction moves.
RunDrops(order) ==
  /\ gone \subseteq GloballyMoved(body)
  /\ cur[1][2] = 0 /\ ~IsReturn(body, cur[1]) => freed = {}
  /\ cur[1][2] # 0 => /\ freed \subseteq Upto(order, cur[1][2] - 1)
                      /\ owned \cap Upto(order, cur[1][2] - 1) = {}
  /\ cur[1][2] = 0 /\ IsReturn(body, cur[1]) /\ cur[1] # Entry =>
       owned \cap Upto(order, Len(order)) \subseteq AssignedIn(cur[1])

DropInv ==
  /\ stage = "check" /\ pass = 2 => \E order \in Seq(Locals) : LaidOut(body, order)
  /\ stage = "run" => \E order \in Seq(Locals) : LaidOut(body, order) /\ RunDrops(order)
  /\ LeaksAreConfined

----------------------------------------------------------------------------
\* What an instruction gives away is moved by the body.
LEMMA ConsumedIsMoved ==
  ASSUME NEW bd, NEW b \in DOMAIN bd, Len(bd[b].stmts) \in Nat,
         NEW i \in 1..(Len(bd[b].stmts) + 1),
         i = Len(bd[b].stmts) + 1 => bd[b].term.op # "use"
  PROVE  Consumes(Instr(bd, b, i)) \subseteq GloballyMoved(bd)
<1> DEFINE S(c) == UNION {Moves(Instr(bd, c, k)) : k \in 1..Len(bd[c].stmts)}
           T(c) == IF bd[c].term.op = "call" THEN Moves(bd[c].term) ELSE {}
           M(c) == (UNION {Moves(Instr(bd, c, k)) : k \in 1..Len(bd[c].stmts)})
                     \cup IF bd[c].term.op = "call" THEN Moves(bd[c].term) ELSE {}
<1>1. M(b) \subseteq GloballyMoved(bd)
  <2>1. \A l : l \in GloballyMoved(bd) <=> \E c \in DOMAIN bd : l \in M(c)
    BY DEF GloballyMoved
  <2> HIDE DEF M
  <2> QED BY <2>1
<1>2. CASE i \in 1..Len(bd[b].stmts)
  <2>1. Moves(Instr(bd, b, i)) \subseteq M(b)
    BY <1>2
  <2> QED BY <1>1, <2>1 DEF Consumes
<1>3. CASE i = Len(bd[b].stmts) + 1
  <2>1. Instr(bd, b, i) = bd[b].term
    BY <1>3 DEF Instr
  <2>2. CASE bd[b].term.op = "call"
    <3>1. T(b) = Moves(bd[b].term)
      BY <2>2
    <3>2. T(b) \subseteq M(b)
      <4>1. M(b) = S(b) \cup T(b)
        OBVIOUS
      <4> HIDE DEF M, S, T
      <4> QED BY <4>1
    <3> HIDE DEF M, T
    <3> QED BY <1>1, <2>1, <3>1, <3>2 DEF Consumes
  <2>3. CASE bd[b].term.op # "call"
    BY <1>3, <2>1, <2>3 DEF Consumes
  <2> QED BY <2>2, <2>3
<1> QED BY <1>2, <1>3

\* What the schedule makes of a block that was there before.
LEMMA BlockIsRewired ==
  ASSUME NEW bd, IsLowered(bd), NEW order, NEW b \in DOMAIN bd, order # <<>>
  PROVE  /\ b \in DOMAIN Scheduled(bd, order)
         /\ Scheduled(bd, order)[b].stmts = bd[b].stmts
         /\ Scheduled(bd, order)[b].term = Rewired(bd, bd[b].term)
<1>1. bd[b] \in [stmts : Seq(Statement), term : Terminator]
  BY DEF IsLowered, IsBody, Block
<1>2. b \in DOMAIN bd \cup Chains(bd, order)
  OBVIOUS
<1>3. Scheduled(bd, order)[b] = [bd[b] EXCEPT !.term = Rewired(bd, bd[b].term)]
  BY <1>2 DEF Scheduled
<1>4. b \in DOMAIN Scheduled(bd, order)
  BY <1>2 DEF Scheduled
<1> QED BY <1>1, <1>3, <1>4

\* Rewiring changes where a terminator leads, and nothing else.
LEMMA RewiredTerminator ==
  ASSUME NEW bd, NEW t \in Terminator, t.op # "drop"
  PROVE  /\ Rewired(bd, t).op = t.op
         /\ Rewired(bd, t).dst = t.dst
         /\ Rewired(bd, t).args = t.args
         /\ Rewired(bd, t).to =
              [i \in DOMAIN t.to |->
                 IF IsReturn(bd, t.to[i]) THEN <<t.to[i][1], 1>> ELSE t.to[i]]
<1> DEFINE to == [i \in DOMAIN t.to |->
                    IF IsReturn(bd, t.to[i]) THEN <<t.to[i][1], 1>> ELSE t.to[i]]
<1>1. Rewired(bd, t) = [t EXCEPT !.to = to]
  BY DEF Rewired
<1>2. t \in [op : TerminatorOps, dst : Locals \cup {NoLocal}, args : Seq(Operand),
             to : Seq(Ids)]
  BY DEF Terminator
<1> HIDE DEF to
<1>3. /\ Rewired(bd, t).op = t.op /\ Rewired(bd, t).dst = t.dst
      /\ Rewired(bd, t).args = t.args /\ Rewired(bd, t).to = to
  BY <1>1, <1>2
<1> QED BY <1>3 DEF to

LEMMA BlockStays ==
  ASSUME NEW bd, IsLowered(bd), NEW order, NEW b \in DOMAIN bd, order # <<>>
  PROVE  /\ b \in DOMAIN Scheduled(bd, order)
         /\ Scheduled(bd, order)[b].stmts = bd[b].stmts
         /\ Scheduled(bd, order)[b].term.op = bd[b].term.op
         /\ Scheduled(bd, order)[b].term.dst = bd[b].term.dst
         /\ Scheduled(bd, order)[b].term.args = bd[b].term.args
<1>1. bd[b].term \in Terminator /\ bd[b].term.op # "drop"
  BY DEF IsLowered, IsBody, Block
<1>2. /\ Rewired(bd, bd[b].term).op = bd[b].term.op
      /\ Rewired(bd, bd[b].term).dst = bd[b].term.dst
      /\ Rewired(bd, bd[b].term).args = bd[b].term.args
  BY <1>1, RewiredTerminator
<1> QED BY <1>2, BlockIsRewired

LEMMA BlockLeads ==
  ASSUME NEW bd, IsLowered(bd), NEW order, NEW b \in DOMAIN bd, order # <<>>,
         NEW s \in Succs(Scheduled(bd, order), b)
  PROVE  \E r \in Succs(bd, b) : s = IF IsReturn(bd, r) THEN <<r[1], 1>> ELSE r
<1>1. bd[b].term \in Terminator /\ bd[b].term.op # "drop"
  BY DEF IsLowered, IsBody, Block
<1>2. Scheduled(bd, order)[b].term.to =
              [i \in DOMAIN bd[b].term.to |->
                 IF IsReturn(bd, bd[b].term.to[i]) THEN <<bd[b].term.to[i][1], 1>>
                 ELSE bd[b].term.to[i]]
  BY <1>1, RewiredTerminator, BlockIsRewired
<1> QED BY <1>2 DEF Succs

\* What the schedule adds are chains of drops.
LEMMA ChainIsAdded ==
  ASSUME NEW bd, IsLowered(bd), NEW order \in Seq(Locals),
         NEW b \in DOMAIN Scheduled(bd, order), b \notin DOMAIN bd
  PROVE  /\ order # <<>> /\ b[2] \in 1..Len(order)
         /\ <<b[1], 0>> \in DOMAIN bd /\ IsReturn(bd, <<b[1], 0>>)
         /\ Scheduled(bd, order)[b] = DropBlock(order, <<b[1], 0>>, b[2])
<1>1. order # <<>>
  BY DEF Scheduled
<1>2. DOMAIN Scheduled(bd, order) = DOMAIN bd \cup Chains(bd, order)
  BY <1>1 DEF Scheduled
<1>3. PICK ret \in DOMAIN bd, j \in DOMAIN order : IsReturn(bd, ret) /\ b = <<ret[1], j>>
  BY <1>2 DEF Chains
<1>4. ret = <<b[1], 0>>
  <2>1. ret \in Nat \X Nat /\ ret[2] = 0
    BY DEF IsLowered, IsBody, Ids
  <2> QED BY <1>3, <2>1
<1>5. Scheduled(bd, order)[b] = DropBlock(order, <<b[1], 0>>, b[2])
  BY <1>1, <1>2 DEF Scheduled
<1> QED BY <1>1, <1>3, <1>4, <1>5

\* The schedule moves nothing that was not moved before, and everything that was.
LEMMA MovesStay ==
  ASSUME NEW bd, IsLowered(bd), NEW order \in Seq(Locals)
  PROVE  GloballyMoved(Scheduled(bd, order)) = GloballyMoved(bd)
<1> DEFINE new == Scheduled(bd, order)
           M(bb, c) == (UNION {Moves(Instr(bb, c, k)) : k \in 1..Len(bb[c].stmts)})
                            \cup IF bb[c].term.op = "call" THEN Moves(bb[c].term) ELSE {}
<1>1. CASE order = <<>>
  BY <1>1 DEF Scheduled
<1>2. CASE order # <<>>
  <2>1. ASSUME NEW b \in DOMAIN bd PROVE b \in DOMAIN new /\ M(new, b) = M(bd, b)
    <3>1. /\ b \in DOMAIN new /\ new[b].stmts = bd[b].stmts
          /\ new[b].term.op = bd[b].term.op /\ new[b].term.args = bd[b].term.args
      BY <1>2, BlockStays
    <3>2. \A k \in 1..Len(bd[b].stmts) : Instr(new, b, k) = Instr(bd, b, k)
      <4>1. Len(bd[b].stmts) \in Nat
        BY DEF IsLowered, IsBody, Block
      <4> QED BY <3>1, <4>1 DEF Instr
    <3>3. Moves(new[b].term) = Moves(bd[b].term)
      BY <3>1 DEF Moves, Named
    <3> QED BY <3>1, <3>2, <3>3
  <2>2. ASSUME NEW b \in DOMAIN new, b \notin DOMAIN bd PROVE M(new, b) = {}
    <3>1. new[b] = DropBlock(order, <<b[1], 0>>, b[2])
      BY <2>2, ChainIsAdded
    <3>2. new[b].stmts = <<>> /\ new[b].term.op = "drop"
      BY <3>1 DEF DropBlock
    <3> HIDE DEF new
    <3> QED BY <3>2
  <2>3. \A l : l \in GloballyMoved(new) <=> \E b \in DOMAIN new : l \in M(new, b)
    BY DEF GloballyMoved
  <2>4. \A l : l \in GloballyMoved(bd) <=> \E b \in DOMAIN bd : l \in M(bd, b)
    BY DEF GloballyMoved
  <2>5. GloballyMoved(new) = GloballyMoved(bd)
    <3> HIDE DEF new, M
    <3> QED BY <2>1, <2>2, <2>3, <2>4
  <2> QED BY <2>5
<1> QED BY <1>1, <1>2

\* The order is one of all the locals to drop, none twice.
LEMMA OrdersAreOrders ==
  ASSUME NEW order \in Orders
  PROVE  IsOrder(body, order)
<1> DEFINE D == ToDrop(body)
           n == Cardinality(D)
<1>1. IsFiniteSet(D) /\ n \in Nat /\ D \subseteq Locals
  BY MirAssumption, FS_Subset, FS_CardinalityType DEF ToDrop
<1>2. order \in [1..n -> D] /\ \A l \in D : \E i \in 1..n : order[i] = l
  BY <1>1 DEF Orders
<1> HIDE DEF n, D
<1>3. order \in Seq(Locals) /\ Len(order) = n
  BY <1>1, <1>2
<1>4. \A i, j \in 1..n : order[i] = order[j] => i = j
  <2>1. order \in Surjection(1..n, D)
    BY <1>2 DEF Surjection
  <2>2. IsFiniteSet(1..n) /\ Cardinality(1..n) = n
    BY <1>1, FS_Interval
  <2>3. order \in Injection(1..n, D)
    BY <2>1, <2>2, FS_SurjSameCardinalityImpliesInj DEF n
  <2> QED BY <2>3 DEF Injection, IsInjective
<1>5. D = Eligible \ GloballyMoved(body)
  BY DEF D, ToDrop
<1> QED BY <1>2, <1>3, <1>4, <1>5 DEF IsOrder

\* A scheduled body is laid out in plain blocks and chains.
LEMMA ScheduledIsLaidOut ==
  ASSUME NEW bd, IsLowered(bd), NEW order, IsOrder(bd, order)
  PROVE  LaidOut(Scheduled(bd, order), order)
<1> DEFINE new == Scheduled(bd, order)
<1>0. order \in Seq(Locals)
  BY DEF IsOrder
<1>1. IsOrder(new, order)
  BY <1>0, MovesStay DEF IsOrder
<1>2. CASE order = <<>>
  <2>1. new = bd
    BY <1>2 DEF Scheduled
  <2>2. ASSUME NEW b \in DOMAIN bd PROVE b[2] = 0 /\ PlainBlock(bd, b, order)
    <3>1. Succs(bd, b) \subseteq DOMAIN bd
      BY DEF IsLowered, IsBody
    <3> QED BY <1>2, <3>1 DEF IsLowered, PlainBlock, IsReturn
  <2> QED BY <1>1, <2>1, <2>2 DEF LaidOut
<1>3. CASE order # <<>>
  <2>1. ASSUME NEW b \in DOMAIN bd PROVE b[2] = 0 /\ PlainBlock(new, b, order)
    <3>1. /\ b \in DOMAIN new /\ new[b].stmts = bd[b].stmts
          /\ new[b].term.op = bd[b].term.op /\ new[b].term.args = bd[b].term.args
          /\ new[b].term.dst = bd[b].term.dst
      BY <1>3, BlockStays
    <3>2. Len(bd[b].stmts) \in Nat /\ b[2] = 0 /\ Succs(bd, b) \subseteq DOMAIN bd
      BY DEF IsLowered, IsBody, Block
    <3>3. ASSUME NEW i \in 1..(Len(bd[b].stmts) + 1) PROVE Drops(Instr(new, b, i)) = {}
      <4>1. Drops(Instr(bd, b, i)) = {}
        BY DEF IsLowered
      <4>2. Instr(new, b, i).args = Instr(bd, b, i).args
        BY <3>1 DEF Instr
      <4> QED BY <4>1, <4>2 DEF Drops, Named
    <3>4. ASSUME NEW s \in Succs(new, b) PROVE s[2] = 1 \/ (s[2] = 0 /\ ~IsReturn(new, s))
      <4>1. PICK r \in Succs(bd, b) : s = IF IsReturn(bd, r) THEN <<r[1], 1>> ELSE r
        BY <1>3, BlockLeads
      <4>2. r \in DOMAIN bd /\ r[2] = 0
        BY <3>2 DEF IsLowered
      <4>3. CASE IsReturn(bd, r)
        BY <4>1, <4>3
      <4>4. CASE ~IsReturn(bd, r)
        <5>1. s = r
          BY <4>1, <4>4
        <5>2. new[r].term.op = bd[r].term.op
          BY <1>3, <4>2, BlockStays
        <5> QED BY <4>2, <4>4, <5>1, <5>2 DEF IsReturn
      <4> QED BY <4>3, <4>4
    <3>5. IsReturn(new, b) => Succs(new, b) = {} /\ new[b].term.dst = NoLocal
      <4>1. IsReturn(new, b) => Succs(bd, b) = {} /\ bd[b].term.dst = NoLocal
        BY <3>1 DEF IsReturn, IsLowered
      <4>2. Succs(bd, b) = {} => Succs(new, b) = {}
        BY <1>3, BlockLeads
      <4> QED BY <3>1, <4>1, <4>2
    <3> HIDE DEF new
    <3> QED BY <3>1, <3>2, <3>3, <3>4, <3>5 DEF PlainBlock
  <2>2. ASSUME NEW b \in DOMAIN new, b \notin DOMAIN bd
        PROVE  ChainBlock(new, b, order)
    <3>1. /\ b[2] \in 1..Len(order) /\ <<b[1], 0>> \in DOMAIN bd /\ IsReturn(bd, <<b[1], 0>>)
          /\ new[b] = DropBlock(order, <<b[1], 0>>, b[2])
      BY <1>0, <2>2, ChainIsAdded
    <3>2. IsReturn(new, <<b[1], 0>>)
      BY <1>3, <3>1, BlockStays DEF IsReturn
    <3> DEFINE t == [op |-> "drop", dst |-> NoLocal,
                     args |-> <<[local |-> order[b[2]], mode |-> "drop"]>>,
                     to |-> <<IF b[2] = Len(order) THEN <<b[1], 0>>
                              ELSE <<b[1], b[2] + 1>> >>]
    <3>3. new[b].stmts = <<>> /\ new[b].term = t
      BY <3>1 DEF DropBlock
    <3>4. Drops(t) = {order[b[2]]} /\ Consumes(t) = {}
      BY DEF Drops, Named, Consumes
    <3>5. Succs(new, b) = {IF b[2] = Len(order) THEN <<b[1], 0>> ELSE <<b[1], b[2] + 1>>}
      BY <3>3 DEF Succs
    <3>6. \A s \in Succs(new, b) :
            IF b[2] = Len(order) THEN s[2] = 0 /\ IsReturn(new, s) ELSE s[2] = b[2] + 1
      BY <3>2, <3>5
    <3>7. ~IsReturn(new, b) /\ t.dst = NoLocal
      BY <3>3 DEF IsReturn
    <3> HIDE DEF new, t
    <3> QED BY <3>1, <3>3, <3>4, <3>6, <3>7 DEF ChainBlock
  <2>3. \A b \in DOMAIN new : b \notin DOMAIN bd => b[2] # 0
    BY <2>2 DEF ChainBlock
  <2>4. LaidOut(new, order)
    <3> HIDE DEF new
    <3> QED BY <1>1, <2>1, <2>2, <2>3 DEF LaidOut
  <2> QED BY <2>4
<1> QED BY <1>2, <1>3

----------------------------------------------------------------------------
\* One step of an execution of a body that is laid out.

\* What an instruction of either kind of block does to the values.
LEMMA RunKeepsDrops ==
  ASSUME TypeOK, NEW order, LaidOut(body, order), RunDrops(order), cur # Nowhere,
         RunStatement \/ RunTerminator
  PROVE  RunDrops(order)'
<1>0. /\ body' = body
      /\ gone' = (gone \cup Consumes(Current)) \ {Current.dst}
      /\ freed' = (freed \ {Current.dst}) \cup Drops(Current)
      /\ owned' = ((owned \ Consumes(Current)) \ Drops(Current))
                    \cup (IF Current.dst = NoLocal THEN {} ELSE {Current.dst})
  BY DEF RunStatement, RunTerminator, Effect
<1>1. /\ cur[1] \in DOMAIN body /\ cur[2] \in 1..(Len(body[cur[1]].stmts) + 1)
      /\ Len(body[cur[1]].stmts) \in Nat /\ cur = <<cur[1], cur[2]>>
      /\ body' = body
      /\ gone' \subseteq gone \cup Consumes(Current)
      /\ freed' \subseteq freed \cup Drops(Current)
      /\ owned' \subseteq owned \cup {Current.dst}
      /\ Current.dst = NoLocal => owned' = (owned \ Consumes(Current)) \ Drops(Current)
      /\ DOMAIN body \subseteq Ids
  <2>1. /\ cur[1] \in DOMAIN body /\ cur[2] \in 1..(Len(body[cur[1]].stmts) + 1)
        /\ Len(body[cur[1]].stmts) \in Nat /\ cur = <<cur[1], cur[2]>>
    BY CurrentType DEF Last
  <2>2. DOMAIN body \subseteq Ids
    BY DEF TypeOK, IsBody
  <2> QED BY <1>0, <2>1, <2>2
<1>2. gone' \subseteq GloballyMoved(body)
  <2>1. cur[2] = Len(body[cur[1]].stmts) + 1 => body[cur[1]].term.op # "use"
    BY <1>1 DEF TypeOK, IsBody, Block, Terminator, TerminatorOps
  <2> QED BY <1>1, <2>1, ConsumedIsMoved DEF RunDrops, Current
<1>3. PICK b \in DOMAIN body, i \in Nat : b = cur[1] /\ i = cur[2]
  BY <1>1
<1>4. b[2] \in Nat
  BY <1>1, <1>3 DEF Ids
<1>5. CASE b[2] = 0
  <2>1. PlainBlock(body, b, order) /\ Drops(Current) = {}
    BY <1>1, <1>3, <1>5 DEF LaidOut, PlainBlock, Current
  <2>2. CASE RunStatement
    <3>1. cur'[1] = b /\ i \in 1..Len(body[b].stmts) /\ Current = body[b].stmts[i]
      BY <1>1, <1>3, <2>2 DEF RunStatement, AtTerminator, Current, Instr
    <3>2. ~IsReturn(body, b) => freed' = {}
      BY <1>1, <1>3, <1>5, <2>1 DEF RunDrops
    <3>3. Current.dst \in AssignedIn(b)
      <4>1. i \in DOMAIN body[b].stmts
        BY <3>1 DEF TypeOK, IsBody, Block
      <4> QED BY <3>1, <4>1 DEF AssignedIn
    <3>4. IsReturn(body, b) /\ b # Entry =>
            owned' \cap Upto(order, Len(order)) \subseteq AssignedIn(b)
      BY <1>1, <1>3, <1>5, <3>3 DEF RunDrops
    <3> QED BY <1>1, <1>2, <1>5, <3>1, <3>2, <3>4 DEF RunDrops, IsReturn, AssignedIn
  <2>3. CASE RunTerminator
    <3>1. PICK t \in Succs(body, b) : cur' = <<t, 1>>
      BY <1>3, <2>3 DEF RunTerminator
    <3>2. ~IsReturn(body, b)
      BY <2>1, <3>1 DEF PlainBlock
    <3>3. freed' = {}
      BY <1>1, <1>3, <1>5, <2>1, <3>2 DEF RunDrops
    <3>4. CASE t[2] = 1
      <4>1. Upto(order, t[2] - 1) = {}
        BY <3>4 DEF Upto
      <4> QED BY <1>1, <1>2, <3>1, <3>3, <3>4, <4>1 DEF RunDrops, Upto
    <3>5. CASE t[2] = 0 /\ (IsReturn(body, t) => order = <<>>)
      <4>1. order = <<>> => Upto(order, Len(order)) = {}
        BY DEF Upto
      <4> QED BY <1>1, <1>2, <3>1, <3>3, <3>5, <4>1 DEF RunDrops, Upto, IsReturn
    <3> QED BY <2>1, <3>1, <3>4, <3>5 DEF PlainBlock
  <2> QED BY <2>2, <2>3
<1>6. CASE b[2] # 0
  <2>1. ChainBlock(body, b, order)
    BY <1>6 DEF LaidOut
  <2>2. i = 1 /\ AtTerminator /\ Current = body[b].term
    BY <1>1, <1>3, <2>1 DEF ChainBlock, AtTerminator, Current, Instr
  <2>3. PICK t \in Succs(body, b) : cur' = <<t, 1>>
    BY <1>3, <2>2 DEF RunStatement, RunTerminator
  <2>4. /\ freed' \subseteq Upto(order, b[2])
        /\ owned' \cap Upto(order, b[2]) = {}
    <3>1. Upto(order, b[2]) = Upto(order, b[2] - 1) \cup {order[b[2]]}
      <4>1. b[2] \in Nat \ {0}
        BY <1>4, <1>6
      <4>2. 1..b[2] = 1..(b[2] - 1) \cup {b[2]}
        BY <4>1
      <4> QED BY <4>2 DEF Upto
    <3>2. /\ Drops(Current) = {order[b[2]]} /\ Consumes(Current) = {}
          /\ Current.dst = NoLocal
      BY <2>1, <2>2 DEF ChainBlock
    <3>3. /\ freed \subseteq Upto(order, b[2] - 1)
          /\ owned \cap Upto(order, b[2] - 1) = {}
      BY <1>3, <1>6 DEF RunDrops
    <3> QED BY <1>1, <3>1, <3>2, <3>3
  <2>5. CASE b[2] = Len(order)
    <3>1. t[2] = 0 /\ IsReturn(body, t)
      BY <2>1, <2>3, <2>5 DEF ChainBlock
    <3> QED BY <1>1, <1>2, <2>3, <2>4, <2>5, <3>1 DEF RunDrops, Upto, IsReturn, AssignedIn
  <2>6. CASE b[2] # Len(order)
    <3>1. t[2] = b[2] + 1
      BY <2>1, <2>3, <2>6 DEF ChainBlock
    <3>2. t[2] - 1 = b[2] /\ t[2] # 0
      BY <1>4, <3>1
    <3> QED BY <1>1, <1>2, <2>3, <2>4, <3>2 DEF RunDrops, Upto
  <2> QED BY <2>5, <2>6
<1> QED BY <1>3, <1>5, <1>6

\* What a return finds still owned.
LEMMA ReturnLeaks ==
  ASSUME TypeOK, NEW order, LaidOut(body, order), RunDrops(order), cur # Nowhere,
         AtTerminator, Current.op = "return"
  PROVE  cur[1] = Entry \/ owned \cap Eligible \subseteq GloballyMoved(body) \cup AssignedIn(cur[1])
<1>1. cur[1] \in DOMAIN body /\ Len(body[cur[1]].stmts) \in Nat
  BY CurrentType
<1>2. IsReturn(body, cur[1])
  BY <1>1 DEF AtTerminator, Current, Instr, IsReturn
<1>3. cur[1][2] = 0
  BY <1>1, <1>2 DEF LaidOut, ChainBlock
<1>4. Eligible \subseteq GloballyMoved(body) \cup Upto(order, Len(order))
  BY DEF LaidOut, IsOrder, Upto
<1> QED BY <1>2, <1>3, <1>4 DEF RunDrops

\* A drop finds its local neither gone nor freed.
LEMMA DropsAreSingle ==
  ASSUME TypeOK, NEW order, LaidOut(body, order), RunDrops(order), cur # Nowhere
  PROVE  Drops(Current) \cap (gone \cup freed) = {}
<1>1. /\ cur[1] \in DOMAIN body /\ cur[2] \in 1..(Len(body[cur[1]].stmts) + 1)
      /\ Len(body[cur[1]].stmts) \in Nat
  BY CurrentType DEF Last
<1>2. CASE cur[1][2] = 0
  BY <1>1, <1>2 DEF LaidOut, PlainBlock, Current
<1>3. CASE cur[1][2] # 0
  <2>1. ChainBlock(body, cur[1], order) /\ IsOrder(body, order)
    BY <1>1, <1>3 DEF LaidOut
  <2>2. Current = body[cur[1]].term
    BY <1>1, <2>1 DEF ChainBlock, Current, Instr
  <2>3. PICK j \in 1..Len(order) : j = cur[1][2]
    BY <2>1 DEF ChainBlock
  <2>4. Drops(Current) = {order[j]} /\ order[j] \notin GloballyMoved(body)
    BY <2>1, <2>2, <2>3 DEF ChainBlock, IsOrder
  <2>5. order[j] \notin Upto(order, j - 1)
    <3>1. Len(order) \in Nat
      BY <2>1 DEF IsOrder
    <3>2. \A k \in 1..(j - 1) : k \in 1..Len(order) /\ k # j
      BY <2>3, <3>1
    <3> QED BY <2>1, <2>3, <3>2 DEF IsOrder, Upto
  <2>6. freed \subseteq Upto(order, j - 1) /\ gone \subseteq GloballyMoved(body)
    BY <1>3, <2>3 DEF RunDrops
  <2> QED BY <2>4, <2>5, <2>6
<1> QED BY <1>2, <1>3

----------------------------------------------------------------------------
LEMMA InitEstablishesDropInv == ASSUME Init PROVE DropInv
BY DEF Init, DropInv, LeaksAreConfined

LEMMA StepKeepsDropInv ==
  ASSUME Inv, DropInv, [Next]_vars
  PROVE  DropInv'
<1>1. CASE Check
  <2>1. UNCHANGED <<body, pass>> /\ stage = "check" /\ stage' \in {"check", "rejected"}
    BY <1>1 DEF Check, Pop, Reject, CheckStatement, CheckTerminator, Walking, checker
  <2> QED BY <2>1 DEF DropInv, LeaksAreConfined
<1>2. CASE Schedule
  <2>1. PICK order \in Orders : body' = Scheduled(body, order)
    BY <1>2 DEF Schedule
  <2>2. IsLowered(body) /\ IsOrder(body, order)
    BY <1>2, OrdersAreOrders DEF Schedule, Checked, Inv
  <2>3. LaidOut(body', order) /\ order \in Seq(Locals)
    BY <2>1, <2>2, ScheduledIsLaidOut DEF IsOrder
  <2>4. stage' \in {"check", "rejected"}
    BY <1>2 DEF Schedule
  <2> QED BY <2>3, <2>4 DEF DropInv, LeaksAreConfined
<1>3. CASE Begin
  <2>1. PICK order \in Seq(Locals) : LaidOut(body, order)
    BY <1>3 DEF Begin, Checked, DropInv
  <2>2. gone' = {} /\ freed' = {} /\ body' = body /\ cur' = <<Entry, 1>> /\ stage' = "run"
    BY <1>3 DEF Begin, Checked, machine, Inv
  <2>3. LaidOut(body', order)
    BY <2>1, <2>2
  <2>4. RunDrops(order)'
    BY <2>2 DEF RunDrops, Entry
  <2> QED BY <2>2, <2>3, <2>4 DEF DropInv, LeaksAreConfined
<1>4. CASE RunStatement \/ RunTerminator
  <2>1. stage = "run" /\ stage' = "run" /\ body' = body
    BY <1>4 DEF RunStatement, RunTerminator
  <2>2. PICK order \in Seq(Locals) : LaidOut(body, order) /\ RunDrops(order)
    BY <2>1 DEF DropInv
  <2>3. RunDrops(order)'
    BY <1>4, <2>1, <2>2, RunKeepsDrops DEF Inv, RunInv
  <2> QED BY <2>1, <2>2, <2>3 DEF DropInv, LeaksAreConfined
<1>5. CASE Stop
  <2>1. PICK order \in Seq(Locals) : LaidOut(body, order) /\ RunDrops(order)
    BY <1>5 DEF Stop, DropInv
  <2>2. cur # Nowhere /\ TypeOK
    BY <1>5 DEF Stop, Inv, RunInv
  <2>3. /\ UNCHANGED <<body, cur, owned>> /\ AtTerminator
        /\ stage' = IF Current.op = "return" THEN "returned" ELSE "halted"
    BY <1>5 DEF Stop, machine
  <2>4. Current.op = "return" =>
          cur[1] = Entry \/ owned \cap Eligible \subseteq GloballyMoved(body) \cup AssignedIn(cur[1])
    BY <2>1, <2>2, <2>3, ReturnLeaks
  <2> QED BY <2>3, <2>4 DEF DropInv, LeaksAreConfined, AssignedIn
<1>6. CASE UNCHANGED vars
  BY <1>6 DEF vars, DropInv, LeaksAreConfined, RunDrops, AssignedIn
<1> QED BY <1>1, <1>2, <1>3, <1>4, <1>5, <1>6 DEF Next, Run

LEMMA DropInvHolds == Spec => []DropInv /\ []Inv
BY InitEstablishesDropInv, StepKeepsDropInv, InitEstablishesInv, StepKeepsInv, PTL DEF Spec

\* compute_drop_schedule is safe: no execution of an accepted body drops a value
\* twice or one that was given away, for every set of bodies and every order in
\* which the locals to drop come out of the hash set.
THEOREM DropsAreSafe == Spec => []NoDoubleDrop
<1>1. Inv /\ DropInv => NoDoubleDrop
  <2> SUFFICES ASSUME Inv, DropInv, stage = "run"
               PROVE  Drops(Current) \cap (gone \cup freed) = {}
    BY DEF NoDoubleDrop
  <2>1. PICK order \in Seq(Locals) : LaidOut(body, order) /\ RunDrops(order)
    BY DEF DropInv
  <2>2. cur # Nowhere /\ TypeOK
    BY DEF Inv, RunInv
  <2> QED BY <2>1, <2>2, DropsAreSingle
<1> QED BY <1>1, DropInvHolds, PTL

\* What a function still owns when it returns is moved on some other path, or was
\* assigned in the block that returns, or the function is a single block.
THEOREM LeaksHaveTheirReasons == Spec => []LeaksAreConfined
<1>1. DropInv => LeaksAreConfined
  BY DEF DropInv
<1> QED BY <1>1, DropInvHolds, PTL

(***************************************************************************)
(* What the drop schedule does to the second borrow check: verify_drops    *)
(* finds no fault with it, and the check fails only in a block that        *)
(* returns.  What the first check has found out about the lowered body     *)
(* approves of the scheduled one, too, but for reads in such a block; and  *)
(* the second check finds nothing that is not foreseen there.              *)
(***************************************************************************)

LEMMA LeastNatural ==
  ASSUME NEW T \in SUBSET Nat, T # {}
  PROVE  \E m \in T : \A n \in T : m <= n
<1>1. PICK m \in T : \A n \in T : ~(<<n, m>> \in OpToRel(<, Nat))
  BY NatLessThanWellFounded, WFMin
<1>2. \A n \in T : ~(n < m)
  BY <1>1 DEF OpToRel
<1> QED BY <1>2

\* The recursion of Reachable is well defined: its n-th set holds the ends of
\* the paths of up to n edges.
LEMMA ReachableIsDefined ==
  ASSUME NEW bd, IsBody(bd), NEW b \in DOMAIN bd
  PROVE  \E w : /\ Reachable(bd, b) = w[Cardinality(DOMAIN bd)]
                /\ w = [n \in Nat |-> IF n = 0 THEN {b}
                                      ELSE w[n - 1] \cup UNION {Succs(bd, c) : c \in w[n - 1]}]
<1> DEFINE D == DOMAIN bd
           Goes(c, d) == d = c \/ d \in Succs(bd, c)
           Paths(n) == {p \in [0..n -> D] : /\ p[0] = b
                                            /\ \A i \in 0..(n - 1) : Goes(p[i], p[i + 1])}
           f == [n \in Nat |-> {p[n] : p \in Paths(n)}]
<1>0. \A c \in D : Succs(bd, c) \subseteq D
  BY DEF IsBody
<1>1. f[0] = {b}
  <2>1. \A x : x \in f[0] <=> \E p \in Paths(0) : x = p[0]
    OBVIOUS
  <2>2. [i \in 0..0 |-> b] \in Paths(0)
    OBVIOUS
  <2>3. \A p \in Paths(0) : p[0] = b
    OBVIOUS
  <2>4. [i \in 0..0 |-> b][0] = b
    OBVIOUS
  <2> HIDE DEF f, Paths
  <2> QED BY <2>1, <2>2, <2>3, <2>4
<1>2. ASSUME NEW n \in Nat \ {0}
      PROVE  f[n] = f[n - 1] \cup UNION {Succs(bd, c) : c \in f[n - 1]}
  <2>0. /\ n - 1 \in Nat /\ \A x : x \in f[n] <=> \E p \in Paths(n) : x = p[n]
        /\ \A x : x \in f[n - 1] <=> \E p \in Paths(n - 1) : x = p[n - 1]
    OBVIOUS
  <2>1. ASSUME NEW p \in Paths(n)
        PROVE  \E q \in Paths(n - 1) : Goes(q[n - 1], p[n])
    <3>1. PICK q : q = [i \in 0..(n - 1) |-> p[i]]
      OBVIOUS
    <3>2. q \in [0..(n - 1) -> D] /\ q[0] = b /\ q[n - 1] = p[n - 1]
      BY <2>0, <3>1
    <3>3. \A i \in 0..((n - 1) - 1) : Goes(q[i], q[i + 1])
      <4>1. \A i \in 0..((n - 1) - 1) : i \in 0..(n - 1) /\ i + 1 \in 0..(n - 1)
        BY <2>0
      <4>2. \A i \in 0..((n - 1) - 1) : q[i] = p[i] /\ q[i + 1] = p[i + 1]
        BY <3>1, <4>1
      <4> QED BY <4>1, <4>2
    <3>4. Goes(p[n - 1], p[(n - 1) + 1]) /\ (n - 1) + 1 = n
      OBVIOUS
    <3>5. q \in Paths(n - 1)
      BY <3>2, <3>3
    <3> HIDE DEF Paths, Goes
    <3> QED BY <3>2, <3>4, <3>5
  <2>2. ASSUME NEW q \in Paths(n - 1), NEW d, Goes(q[n - 1], d)
        PROVE  \E p \in Paths(n) : p[n] = d
    <3>1. q \in [0..(n - 1) -> D] /\ d \in D
      BY <1>0, <2>0, <2>2
    <3>2. PICK p : p = [i \in 0..n |-> IF i = n THEN d ELSE q[i]]
      OBVIOUS
    <3>3. \A i \in 0..(n - 1) : i \in 0..n /\ i # n /\ i + 1 \in 0..n
      OBVIOUS
    <3>4. p \in [0..n -> D] /\ p[0] = b /\ p[n] = d
      BY <3>1, <3>2
    <3>5. ASSUME NEW i \in 0..(n - 1) PROVE Goes(p[i], p[i + 1])
      <4>1. CASE i = n - 1
        <5>1. p[i] = q[n - 1] /\ p[i + 1] = d
          BY <3>2, <3>3, <4>1
        <5> HIDE DEF Goes
        <5> QED BY <2>2, <5>1
      <4>2. CASE i # n - 1
        <5>1. i \in 0..((n - 1) - 1) /\ i + 1 # n
          BY <4>2
        <5>2. p[i] = q[i] /\ p[i + 1] = q[i + 1]
          BY <3>2, <3>3, <5>1
        <5>3. Goes(q[i], q[i + 1])
          BY <5>1
        <5> HIDE DEF Goes
        <5> QED BY <5>2, <5>3
      <4> QED BY <4>1, <4>2
    <3> HIDE DEF Goes
    <3> QED BY <3>4, <3>5
  <2> HIDE DEF f, Paths
  <2>3. \A x : x \in f[n] <=> \E c \in f[n - 1] : Goes(c, x)
    <3> HIDE DEF Goes
    <3> QED BY <2>0, <2>1, <2>2
  <2> QED BY <2>3
<1>3. f = [n \in Nat |-> IF n = 0 THEN {b}
                         ELSE f[n - 1] \cup UNION {Succs(bd, c) : c \in f[n - 1]}]
  <2>1. f = [n \in Nat |-> f[n]]
    OBVIOUS
  <2> HIDE DEF f
  <2> QED BY <1>1, <1>2, <2>1
<1> HIDE DEF f
<1> DEFINE w == CHOOSE g : g = [n \in Nat |-> IF n = 0 THEN {b}
                                 ELSE g[n - 1] \cup UNION {Succs(bd, c) : c \in g[n - 1]}]
<1>4. Reachable(bd, b) = w[Cardinality(DOMAIN bd)]
  BY DEF Reachable
<1>5. w = [n \in Nat |-> IF n = 0 THEN {b}
                         ELSE w[n - 1] \cup UNION {Succs(bd, c) : c \in w[n - 1]}]
  BY <1>3
<1> QED BY <1>4, <1>5

\* A set that no edge leaves holds what is reached from its members.
LEMMA ReachedStaysIn ==
  ASSUME NEW bd, IsBody(bd), NEW b \in DOMAIN bd,
         NEW S, b \in S, \A c \in S : Succs(bd, c) \subseteq S
  PROVE  Reachable(bd, b) \subseteq S
<1>1. PICK w : /\ Reachable(bd, b) = w[Cardinality(DOMAIN bd)]
               /\ w = [n \in Nat |-> IF n = 0 THEN {b}
                                     ELSE w[n - 1] \cup UNION {Succs(bd, c) : c \in w[n - 1]}]
  BY ReachableIsDefined
<1>2. w[0] = {b} /\ \A n \in Nat \ {0} :
                      w[n] = w[n - 1] \cup UNION {Succs(bd, c) : c \in w[n - 1]}
  BY <1>1
<1> DEFINE T == {n \in Nat : ~(w[n] \subseteq S)}
<1>3. T = {}
  <2> SUFFICES ASSUME T # {} PROVE FALSE
    OBVIOUS
  <2>1. PICK m \in T : \A n \in T : m <= n
    BY LeastNatural
  <2>2. m # 0 /\ m \in Nat /\ ~(w[m] \subseteq S)
    BY <1>2, <2>1
  <2>3. m - 1 \in Nat /\ m - 1 \notin T
    BY <2>1, <2>2
  <2>4. w[m - 1] \subseteq S
    BY <2>3
  <2>5. w[m] = w[m - 1] \cup UNION {Succs(bd, c) : c \in w[m - 1]}
    BY <1>2, <2>2
  <2> QED BY <2>2, <2>4, <2>5
<1>4. Cardinality(DOMAIN bd) \in Nat
  BY FS_CardinalityType DEF IsBody
<1> QED BY <1>1, <1>3, <1>4

\* verify_drops finds no fault: behind a drop there are only drops of locals
\* later in the order, and returns.
LEMMA NeverDropsTwice ==
  ASSUME NEW bd, IsBody(bd), NEW order, LaidOut(bd, order)
  PROVE  ~DropsTwice(bd)
<1> SUFFICES ASSUME NEW b \in Reachable(bd, Entry), NEW s \in Succs(bd, b),
                    NEW c \in Reachable(bd, s), NEW l,
                    l \in Drops(bd[b].term) \cap Drops(bd[c].term)
             PROVE  FALSE
  BY DEF DropsTwice
<1>0. /\ \A d \in DOMAIN bd : Succs(bd, d) \subseteq DOMAIN bd
      /\ \A d \in DOMAIN bd : Len(bd[d].stmts) \in Nat
      /\ Entry \in DOMAIN bd /\ DOMAIN bd \subseteq Ids
  BY DEF IsBody, Block
<1>1. b \in DOMAIN bd /\ s \in DOMAIN bd
  BY <1>0, ReachedStaysIn
<1>2. ASSUME NEW d \in DOMAIN bd, d[2] = 0 PROVE Drops(bd[d].term) = {}
  <2>1. Drops(Instr(bd, d, Len(bd[d].stmts) + 1)) = {}
    BY <1>0, <1>2 DEF LaidOut, PlainBlock
  <2> QED BY <1>0, <2>1 DEF Instr
<1>3. ASSUME NEW d \in DOMAIN bd, d[2] # 0
      PROVE  ChainBlock(bd, d, order) /\ d[2] \in 1..Len(order) /\ Drops(bd[d].term) = {order[d[2]]}
  BY <1>3 DEF LaidOut, ChainBlock
<1>4. b[2] # 0 /\ b[2] \in Nat /\ Len(order) \in Nat
  <2>1. b[2] # 0
    BY <1>1, <1>2
  <2>2. order \in Seq(Locals)
    BY DEF LaidOut, IsOrder
  <2> QED BY <1>0, <1>1, <2>1, <2>2 DEF Ids
<1> DEFINE S == {d \in DOMAIN bd : d[2] > b[2] \/ (d[2] = 0 /\ IsReturn(bd, d))}
<1>5. ASSUME NEW d \in DOMAIN bd, d[2] >= b[2] \/ (d[2] = 0 /\ IsReturn(bd, d))
      PROVE  Succs(bd, d) \subseteq S
  <2> SUFFICES ASSUME NEW t \in Succs(bd, d) PROVE t \in S
    OBVIOUS
  <2>1. t \in DOMAIN bd /\ d[2] \in Nat
    BY <1>0 DEF Ids
  <2>2. CASE d[2] = 0
    BY <1>4, <1>5, <2>2 DEF LaidOut, PlainBlock
  <2>3. CASE d[2] # 0
    <3>1. IF d[2] = Len(order) THEN t[2] = 0 /\ IsReturn(bd, t) ELSE t[2] = d[2] + 1
      BY <1>3, <2>3 DEF ChainBlock
    <3>2. d[2] >= b[2]
      BY <1>5, <2>3
    <3> QED BY <1>4, <2>1, <3>1, <3>2
  <2> QED BY <2>2, <2>3
<1>6. s \in S
  BY <1>1, <1>4, <1>5
<1>7. \A d \in S : d \in DOMAIN bd /\ Succs(bd, d) \subseteq S
  <2> SUFFICES ASSUME NEW d \in S PROVE Succs(bd, d) \subseteq S
    OBVIOUS
  <2>1. d \in DOMAIN bd /\ (d[2] >= b[2] \/ (d[2] = 0 /\ IsReturn(bd, d)))
    BY <1>0, <1>4 DEF Ids
  <2> HIDE DEF S
  <2> QED BY <1>5, <2>1
<1>8. c \in S
  <2> HIDE DEF S
  <2> QED BY <1>1, <1>6, <1>7, ReachedStaysIn
<1>9. c \in DOMAIN bd /\ c[2] > b[2] /\ c[2] # 0
  BY <1>2, <1>4, <1>8
<1>10. order[b[2]] = order[c[2]] /\ b[2] \in 1..Len(order) /\ c[2] \in 1..Len(order)
  BY <1>1, <1>3, <1>4, <1>9
<1>11. b[2] = c[2]
  BY <1>10 DEF LaidOut, IsOrder
<1> QED BY <1>4, <1>9, <1>11

----------------------------------------------------------------------------
End(bd, b) == Len(bd[b].stmts) + 1

\* The borrows on record in front of the i-th instruction of b.
BorrowsBefore(bd, b, i) == UNION {BorrowsOf(Instr(bd, b, k)) : k \in 1..(i - 1)}

\* With no more than m moved and dropped, the check objects to an instruction only
\* for a read of a dropped local in a block that returns.
Fits(bd, b, i, m) ==
  /\ Reads(Instr(bd, b, i)) \cap m.moved = {}
  /\ ~ReadsItsOwnMove(Instr(bd, b, i))
  /\ ~Conflict(Instr(bd, b, i), BorrowsBefore(bd, b, i))
  /\ Reads(Instr(bd, b, i)) \cap m.dropped # {} => IsReturn(bd, b) /\ m.dropped \subseteq ToDrop(bd)

Flows(x, m, n) ==
  MovedAfter(x, m.moved) \subseteq n.moved /\ DroppedAfter(x, m.dropped) \subseteq n.dropped

\* The labels M approve of the blocks V of a body, which no edge leaves.
Approves(bd, M, V) ==
  /\ Entry \in V /\ V \subseteq DOMAIN bd
  /\ \A b \in V :
       /\ \A i \in 1..End(bd, b) : Fits(bd, b, i, M[<<b, i>>])
       /\ \A i \in 1..Len(bd[b].stmts) : Flows(Instr(bd, b, i), M[<<b, i>>], M[<<b, i + 1>>])
       /\ \A s \in Succs(bd, b) :
            s \in V /\ Flows(Instr(bd, b, End(bd, b)), M[<<b, End(bd, b)>>], M[<<s, 1>>])

\* Borrows are those of the block so far, and no walked instruction conflicts
\* with them.
Peaceful ==
  /\ \A b \in visited : cur = Nowhere \/ b # cur[1] =>
       \A i \in 1..End(body, b) : ~Conflict(Instr(body, b, i), BorrowsBefore(body, b, i))
  /\ cur # Nowhere =>
       /\ now.borrows = BorrowsBefore(body, cur[1], cur[2])
       /\ \A i \in 1..(cur[2] - 1) :
            ~Conflict(Instr(body, cur[1], i), BorrowsBefore(body, cur[1], i))

\* The check stays in V and below the labels M.
Foreseen(M, V) ==
  /\ visited \cup work \subseteq V
  /\ \A b \in V : /\ entry[b].moved \subseteq M[<<b, 1>>].moved
                  /\ entry[b].dropped \subseteq M[<<b, 1>>].dropped
  /\ cur # Nowhere => /\ cur[1] \in V
                      /\ now.moved \subseteq M[cur].moved
                      /\ now.dropped \subseteq M[cur].dropped

ReturnInv ==
  /\ stage = "check" => Peaceful
  /\ stage = "check" /\ pass = 2 =>
       \E M \in Labels : \E V \in SUBSET Ids : Approves(body, M, V) /\ Foreseen(M, V)
  /\ DropsBreakOnlyReturns

\* What an instruction does is told by its operator, destination and arguments.
LEMMA SameEffect ==
  ASSUME NEW x, NEW y, x.op = y.op, x.dst = y.dst, x.args = y.args
  PROVE  /\ Reads(x) = Reads(y) /\ Drops(x) = Drops(y) /\ BorrowsOf(x) = BorrowsOf(y)
         /\ ReadsItsOwnMove(x) <=> ReadsItsOwnMove(y)
         /\ \A m : MovedAfter(x, m) = MovedAfter(y, m)
<1>1. \A modes : Named(x, modes) = Named(y, modes)
  BY DEF Named
<1>2. Reads(x) = Reads(y) /\ Moves(x) = Moves(y) /\ Drops(x) = Drops(y)
  BY <1>1 DEF Reads, Moves, Drops
<1>3. BorrowsOf(x) = BorrowsOf(y)
  BY DEF BorrowsOf
<1>4. ReadsItsOwnMove(x) <=> ReadsItsOwnMove(y)
  BY DEF ReadsItsOwnMove
<1>5. \A m : MovedAfter(x, m) = MovedAfter(y, m)
  BY <1>2 DEF MovedAfter, Consumes
<1> QED BY <1>2, <1>3, <1>4, <1>5

\* The schedule leaves the instructions of a lowered block alone.
LEMMA InstrStays ==
  ASSUME NEW bd, IsLowered(bd), NEW order \in Seq(Locals), NEW b \in DOMAIN bd
  PROVE  /\ b \in DOMAIN Scheduled(bd, order)
         /\ Scheduled(bd, order)[b].stmts = bd[b].stmts
         /\ IsReturn(Scheduled(bd, order), b) <=> IsReturn(bd, b)
         /\ \A i \in 1..End(bd, b) :
              LET x == Instr(Scheduled(bd, order), b, i)
                  y == Instr(bd, b, i)
              IN  /\ Reads(x) = Reads(y) /\ Drops(x) = {}
                  /\ ReadsItsOwnMove(x) <=> ReadsItsOwnMove(y)
                  /\ \A m : MovedAfter(x, m) = MovedAfter(y, m)
                  /\ BorrowsOf(x) = BorrowsOf(y)
                  /\ BorrowsBefore(Scheduled(bd, order), b, i) = BorrowsBefore(bd, b, i)
<1> DEFINE new == Scheduled(bd, order)
<1>1. /\ b \in DOMAIN new /\ new[b].stmts = bd[b].stmts
      /\ new[b].term.op = bd[b].term.op /\ new[b].term.args = bd[b].term.args
      /\ new[b].term.dst = bd[b].term.dst
  <2>1. CASE order = <<>>
    BY <2>1 DEF Scheduled
  <2>2. CASE order # <<>>
    BY <2>2, BlockStays
  <2> QED BY <2>1, <2>2
<1>2. Len(bd[b].stmts) \in Nat
  BY DEF IsLowered, IsBody, Block
<1> HIDE DEF new
<1>3. \A k \in 1..Len(bd[b].stmts) : Instr(new, b, k) = Instr(bd, b, k)
  BY <1>1, <1>2 DEF Instr
<1>4. ASSUME NEW i \in 1..End(bd, b)
      PROVE  /\ Reads(Instr(new, b, i)) = Reads(Instr(bd, b, i)) /\ Drops(Instr(new, b, i)) = {}
             /\ ReadsItsOwnMove(Instr(new, b, i)) <=> ReadsItsOwnMove(Instr(bd, b, i))
             /\ \A m : MovedAfter(Instr(new, b, i), m) = MovedAfter(Instr(bd, b, i), m)
             /\ BorrowsOf(Instr(new, b, i)) = BorrowsOf(Instr(bd, b, i))
             /\ BorrowsBefore(new, b, i) = BorrowsBefore(bd, b, i)
  <2>1. /\ Instr(new, b, i).op = Instr(bd, b, i).op
        /\ Instr(new, b, i).dst = Instr(bd, b, i).dst
        /\ Instr(new, b, i).args = Instr(bd, b, i).args
    BY <1>1 DEF Instr
  <2>2. Drops(Instr(bd, b, i)) = {}
    BY DEF IsLowered, End
  <2>3. \A k \in 1..(i - 1) : Instr(new, b, k) = Instr(bd, b, k)
    <3>1. \A k \in 1..(i - 1) : k \in 1..Len(bd[b].stmts)
      BY <1>2 DEF End
    <3> QED BY <1>3, <3>1
  <2>4. BorrowsBefore(new, b, i) = BorrowsBefore(bd, b, i)
    BY <2>3 DEF BorrowsBefore
  <2> QED BY <2>1, <2>2, <2>4, SameEffect
<1>5. IsReturn(new, b) <=> IsReturn(bd, b)
  BY <1>1 DEF IsReturn
<1> QED BY <1>1, <1>4, <1>5 DEF new

\* Every edge leads where it led before, or to the chain in front of it.
LEMMA EdgesStay ==
  ASSUME NEW bd, IsLowered(bd), NEW order \in Seq(Locals), NEW b \in DOMAIN bd,
         NEW s \in Succs(Scheduled(bd, order), b)
  PROVE  <<s[1], 0>> \in Succs(bd, b)
<1>1. PICK r \in Succs(bd, b) : s = r \/ s = <<r[1], 1>>
  <2>1. CASE order = <<>>
    BY <2>1 DEF Scheduled
  <2>2. CASE order # <<>>
    BY <2>2, BlockLeads
  <2> QED BY <2>1, <2>2
<1>2. r \in Nat \X Nat /\ r[2] = 0
  BY DEF IsLowered, IsBody, Ids
<1> QED BY <1>1, <1>2

----------------------------------------------------------------------------
\* What approves of a lowered body approves of the scheduled one: a chain moves
\* nothing, and drops before its return what is in the order.
LEMMA ApprovalStays ==
  ASSUME NEW bd, IsLowered(bd), NEW order, IsOrder(bd, order), IsBody(Scheduled(bd, order)),
         Upto(order, Len(order)) \subseteq ToDrop(bd),
         NEW L \in Labels, NEW V, Approves(bd, L, V)
  PROVE  \E M \in Labels : \E W \in SUBSET Ids : Approves(Scheduled(bd, order), M, W)
<1> DEFINE new == Scheduled(bd, order)
           U == Upto(order, Len(order))
           before(b) == IF b[2] # 0 THEN Upto(order, b[2] - 1)
                        ELSE IF b \in DOMAIN new /\ IsReturn(new, b) THEN U ELSE {}
           W == {b \in DOMAIN new : <<b[1], 0>> \in V}
<1>0. order \in Seq(Locals)
  BY DEF IsOrder
<1>1. LaidOut(new, order)
  BY ScheduledIsLaidOut
<1>2. /\ DOMAIN bd \subseteq DOMAIN new /\ DOMAIN new \subseteq Ids
      /\ \A b \in DOMAIN bd : b[2] = 0 /\ b = <<b[1], 0>>
      /\ \A b \in DOMAIN new : Succs(new, b) \subseteq DOMAIN new /\ b[1] \in Nat /\ b[2] \in Nat
      /\ \A b \in DOMAIN bd : Len(bd[b].stmts) \in Nat
  <2>1. DOMAIN bd \subseteq DOMAIN new
    BY <1>0, InstrStays
  <2>2. \A b \in DOMAIN bd : b \in Nat \X Nat /\ b[2] = 0
    BY DEF IsLowered, IsBody, Ids
  <2>3. /\ DOMAIN new \subseteq Ids
        /\ \A b \in DOMAIN new : Succs(new, b) \subseteq DOMAIN new /\ b[1] \in Nat /\ b[2] \in Nat
    BY DEF IsBody, Ids
  <2>4. \A b \in DOMAIN bd : Len(bd[b].stmts) \in Nat
    BY DEF IsLowered, IsBody, Block
  <2> HIDE DEF new
  <2> QED BY <2>1, <2>2, <2>3, <2>4
<1>3. ToDrop(new) = ToDrop(bd)
  BY <1>0, MovesStay DEF ToDrop
<1>4. \A b \in DOMAIN new : b \notin DOMAIN bd =>
        /\ ChainBlock(new, b, order) /\ b[2] # 0
        /\ IsReturn(new, <<b[1], 0>>)
        /\ new[b] = DropBlock(order, <<b[1], 0>>, b[2])
  <2> SUFFICES ASSUME NEW b \in DOMAIN new, b \notin DOMAIN bd
               PROVE  /\ ChainBlock(new, b, order) /\ b[2] # 0
                      /\ IsReturn(new, <<b[1], 0>>)
                      /\ new[b] = DropBlock(order, <<b[1], 0>>, b[2])
    OBVIOUS
  <2>1. /\ b[2] \in 1..Len(order) /\ <<b[1], 0>> \in DOMAIN bd /\ IsReturn(bd, <<b[1], 0>>)
        /\ new[b] = DropBlock(order, <<b[1], 0>>, b[2])
    BY <1>0, ChainIsAdded
  <2>2. IsReturn(new, <<b[1], 0>>)
    BY <1>0, <2>1, InstrStays
  <2>3. b[2] # 0
    BY <2>1
  <2> HIDE DEF new
  <2> QED BY <1>1, <2>1, <2>2, <2>3 DEF LaidOut
<1> DEFINE at(b, i) == << <<b[1], 0>>, IF b[2] = 0 THEN i ELSE 1>>
<1>5. PICK M \in Labels : \A b \in Ids, i \in Nat :
        M[<<b, i>>].moved = L[at(b, i)].moved /\ M[<<b, i>>].dropped = before(b) \cap Locals
  <2>1. \A b \in Ids, i \in Nat : at(b, i) \in Ids \X Nat
    BY DEF Ids
  <2> DEFINE N == [p \in Ids \X Nat |-> [moved |-> L[at(p[1], p[2])].moved,
                                         dropped |-> before(p[1]) \cap Locals]]
  <2>2. N \in Labels
    <3>1. \A p \in Ids \X Nat : L[at(p[1], p[2])].moved \in SUBSET Locals
      BY <2>1 DEF Labels, Known
    <3> HIDE DEF before, at
    <3> QED BY <3>1 DEF Labels, Known
  <2>3. \A b \in Ids, i \in Nat :
          N[<<b, i>>].moved = L[at(b, i)].moved /\ N[<<b, i>>].dropped = before(b) \cap Locals
    <3> HIDE DEF before, at
    <3> QED OBVIOUS
  <2> HIDE DEF N
  <2> QED BY <2>2, <2>3
<1>6. U \subseteq Locals /\ \A n \in 0..Len(order) : Upto(order, n) \subseteq Locals
  BY <1>0 DEF Upto
<1>7. \A b \in DOMAIN bd, i \in Nat :
        M[<<b, i>>].moved = L[<<b, i>>].moved /\ M[<<b, i>>].dropped = IF IsReturn(new, b) THEN U ELSE {}
  <2> SUFFICES ASSUME NEW b \in DOMAIN bd, NEW i \in Nat
               PROVE  /\ M[<<b, i>>].moved = L[<<b, i>>].moved
                      /\ M[<<b, i>>].dropped = IF IsReturn(new, b) THEN U ELSE {}
    OBVIOUS
  <2>1. b \in Ids /\ b \in DOMAIN new /\ b[2] = 0 /\ at(b, i) = <<b, i>>
    BY <1>2
  <2>2. before(b) = IF IsReturn(new, b) THEN U ELSE {}
    BY <2>1
  <2> HIDE DEF before, at, U
  <2> QED BY <1>5, <1>6, <2>1, <2>2
<1>8. \A b \in DOMAIN new, i \in Nat : b \notin DOMAIN bd =>
        /\ M[<<b, i>>].moved = L[<< <<b[1], 0>>, 1>>].moved
        /\ M[<<b, i>>].dropped = Upto(order, b[2] - 1)
  <2> SUFFICES ASSUME NEW b \in DOMAIN new, NEW i \in Nat, b \notin DOMAIN bd
               PROVE  /\ M[<<b, i>>].moved = L[<< <<b[1], 0>>, 1>>].moved
                      /\ M[<<b, i>>].dropped = Upto(order, b[2] - 1)
    OBVIOUS
  <2>0. b \in DOMAIN new /\ b \notin DOMAIN bd
    OBVIOUS
  <2>1. b \in Ids /\ b[2] # 0 /\ at(b, i) = << <<b[1], 0>>, 1>> /\ before(b) = Upto(order, b[2] - 1)
    BY <1>2, <1>4
  <2>2. b[2] - 1 \in 0..Len(order)
    <3> HIDE DEF new
    <3>1. ChainBlock(new, b, order)
      BY <1>4, <2>0
    <3>2. Len(order) \in Nat
      BY <1>0
    <3> QED BY <3>1, <3>2 DEF ChainBlock
  <2> HIDE DEF before, at
  <2> QED BY <1>5, <1>6, <2>1, <2>2
<1> HIDE DEF before, at, new, U
<1>9. W \subseteq Ids /\ Entry \in W
  <2>1. Entry \in V /\ V \subseteq DOMAIN bd
    BY DEF Approves
  <2> QED BY <1>2, <2>1 DEF Entry
<1>10. ASSUME NEW b \in W, b \in DOMAIN bd
       PROVE  /\ \A i \in 1..End(new, b) : Fits(new, b, i, M[<<b, i>>])
              /\ \A i \in 1..Len(new[b].stmts) :
                   Flows(Instr(new, b, i), M[<<b, i>>], M[<<b, i + 1>>])
              /\ \A s \in Succs(new, b) :
                   s \in W /\ Flows(Instr(new, b, End(new, b)), M[<<b, End(new, b)>>], M[<<s, 1>>])
  <2>1. b \in V /\ Len(bd[b].stmts) \in Nat
    BY <1>2, <1>10
  <2>2. new[b].stmts = bd[b].stmts /\ End(new, b) = End(bd, b)
    BY <1>0, <1>10, InstrStays DEF End, new
  <2>3. \A i \in 1..End(bd, b) :
           /\ Reads(Instr(new, b, i)) = Reads(Instr(bd, b, i)) /\ Drops(Instr(new, b, i)) = {}
           /\ ReadsItsOwnMove(Instr(new, b, i)) <=> ReadsItsOwnMove(Instr(bd, b, i))
           /\ \A m : MovedAfter(Instr(new, b, i), m) = MovedAfter(Instr(bd, b, i), m)
           /\ BorrowsOf(Instr(new, b, i)) = BorrowsOf(Instr(bd, b, i))
           /\ BorrowsBefore(new, b, i) = BorrowsBefore(bd, b, i)
    BY <1>0, <1>10, InstrStays DEF new
  <2>4. ASSUME NEW i \in 1..End(bd, b) PROVE Fits(new, b, i, M[<<b, i>>])
    <3>0. i \in Nat
      BY <2>1 DEF End
    <3>1. Fits(bd, b, i, L[<<b, i>>])
      BY <2>1 DEF Approves
    <3>2. /\ Reads(Instr(new, b, i)) \cap M[<<b, i>>].moved = {}
          /\ ~ReadsItsOwnMove(Instr(new, b, i))
          /\ ~Conflict(Instr(new, b, i), BorrowsBefore(new, b, i))
      BY <1>7, <1>10, <2>3, <3>0, <3>1 DEF Fits, Conflict
    <3>3. M[<<b, i>>].dropped # {} => IsReturn(new, b) /\ M[<<b, i>>].dropped \subseteq ToDrop(new)
      BY <1>3, <1>7, <1>10, <3>0 DEF U
    <3> QED BY <3>2, <3>3 DEF Fits
  <2>5. ASSUME NEW i \in 1..Len(bd[b].stmts)
        PROVE  Flows(Instr(new, b, i), M[<<b, i>>], M[<<b, i + 1>>])
    <3>1. Flows(Instr(bd, b, i), L[<<b, i>>], L[<<b, i + 1>>])
      BY <2>1 DEF Approves
    <3>2. i \in Nat /\ i + 1 \in Nat /\ i \in 1..End(bd, b)
      BY <2>1 DEF End
    <3>3. /\ M[<<b, i>>].moved = L[<<b, i>>].moved
          /\ M[<<b, i + 1>>].moved = L[<<b, i + 1>>].moved
          /\ M[<<b, i>>].dropped = M[<<b, i + 1>>].dropped
      BY <1>7, <1>10, <3>2
    <3> QED BY <2>3, <3>1, <3>2, <3>3 DEF Flows, DroppedAfter
  <2>6. ASSUME NEW s \in Succs(new, b)
        PROVE  s \in W /\ Flows(Instr(new, b, End(new, b)), M[<<b, End(new, b)>>], M[<<s, 1>>])
    <3>1. <<s[1], 0>> \in Succs(bd, b) /\ s \in DOMAIN new
      BY <1>0, <1>2, <1>10, EdgesStay DEF new
    <3>2. /\ <<s[1], 0>> \in V
          /\ Flows(Instr(bd, b, End(bd, b)), L[<<b, End(bd, b)>>], L[<< <<s[1], 0>>, 1>>])
      BY <2>1, <3>1 DEF Approves
    <3>3. M[<<s, 1>>].moved = L[<< <<s[1], 0>>, 1>>].moved
      <4>1. CASE s \in DOMAIN bd
        <5>1. s = <<s[1], 0>>
          BY <1>2, <4>1
        <5> QED BY <1>7, <4>1, <5>1
      <4>2. CASE s \notin DOMAIN bd
        BY <1>8, <3>1, <4>2
      <4> QED BY <4>1, <4>2
    <3>4. ~IsReturn(new, b)
      BY <1>1, <1>2, <1>10, <3>1 DEF LaidOut, PlainBlock
    <3>5. End(bd, b) \in 1..End(bd, b) /\ End(bd, b) \in Nat
      BY <2>1 DEF End
    <3>6. M[<<b, End(bd, b)>>].moved = L[<<b, End(bd, b)>>].moved /\ M[<<b, End(bd, b)>>].dropped = {}
      BY <1>7, <1>10, <3>4, <3>5
    <3>7. Flows(Instr(new, b, End(bd, b)), M[<<b, End(bd, b)>>], M[<<s, 1>>])
      BY <2>3, <3>2, <3>3, <3>5, <3>6 DEF Flows, DroppedAfter
    <3> QED BY <2>2, <3>1, <3>2, <3>7
  <2> HIDE DEF W
  <2> QED BY <2>2, <2>4, <2>5, <2>6
<1>11. ASSUME NEW b \in W, b \notin DOMAIN bd
       PROVE  /\ \A i \in 1..End(new, b) : Fits(new, b, i, M[<<b, i>>])
              /\ \A i \in 1..Len(new[b].stmts) :
                   Flows(Instr(new, b, i), M[<<b, i>>], M[<<b, i + 1>>])
              /\ \A s \in Succs(new, b) :
                   s \in W /\ Flows(Instr(new, b, End(new, b)), M[<<b, End(new, b)>>], M[<<s, 1>>])
  <2>0. b \in DOMAIN new /\ <<b[1], 0>> \in V /\ <<b[1], 0>> \in DOMAIN bd
    BY DEF Approves
  <2>1. /\ b[2] \in 1..Len(order) /\ b[2] \in Nat /\ b[2] # 0 /\ new[b].stmts = <<>>
        /\ Drops(new[b].term) = {order[b[2]]} /\ Consumes(new[b].term) = {}
        /\ new[b].term.dst = NoLocal
        /\ IsReturn(new, <<b[1], 0>>)
        /\ new[b] = DropBlock(order, <<b[1], 0>>, b[2])
    BY <1>2, <1>4, <1>11, <2>0 DEF ChainBlock
  <2>2. PICK x : x = new[b].term
    OBVIOUS
  <2>3. /\ x.op = "drop" /\ x.args = <<[local |-> order[b[2]], mode |-> "drop"]>>
        /\ x.to = <<IF b[2] = Len(order) THEN <<b[1], 0>> ELSE <<b[1], b[2] + 1>> >>
    BY <2>1, <2>2 DEF DropBlock
  <2>4. /\ Reads(x) = {} /\ ~ReadsItsOwnMove(x) /\ BorrowsOf(x) = {}
    BY <2>3 DEF Reads, Named, ReadsItsOwnMove, BorrowsOf
  <2>5. End(new, b) = 1 /\ Len(new[b].stmts) = 0 /\ Instr(new, b, 1) = x
    BY <2>1, <2>2 DEF End, Instr
  <2>6. Fits(new, b, 1, M[<<b, 1>>])
    BY <2>4, <2>5 DEF Fits, Conflict
  <2>7. ASSUME NEW s \in Succs(new, b)
        PROVE  s \in W /\ Flows(x, M[<<b, 1>>], M[<<s, 1>>])
    <3>1. s \in DOMAIN new /\ s = IF b[2] = Len(order) THEN <<b[1], 0>> ELSE <<b[1], b[2] + 1>>
      <4>1. PICK t : t = IF b[2] = Len(order) THEN <<b[1], 0>> ELSE <<b[1], b[2] + 1>>
        OBVIOUS
      <4>2. new[b].term.to = <<t>>
        BY <2>2, <2>3, <4>1
      <4>3. Succs(new, b) = {t}
        BY <4>2 DEF Succs
      <4> QED BY <1>2, <2>0, <4>1, <4>3
    <3>2. s[1] = b[1]
      BY <3>1
    <3>3. /\ M[<<b, 1>>].moved = L[<< <<b[1], 0>>, 1>>].moved
          /\ M[<<b, 1>>].dropped = Upto(order, b[2] - 1)
      BY <1>8, <1>11, <2>0
    <3>4. /\ M[<<s, 1>>].moved = L[<< <<b[1], 0>>, 1>>].moved
          /\ M[<<s, 1>>].dropped = Upto(order, b[2])
      <4>1. CASE b[2] = Len(order)
        BY <1>7, <2>0, <2>1, <3>1, <4>1 DEF U
      <4>2. CASE b[2] # Len(order)
        <5>1. s[2] = b[2] + 1 /\ s[2] - 1 = b[2] /\ s[2] # 0
          BY <2>1, <3>1, <4>2
        <5>2. s \notin DOMAIN bd
          BY <1>2, <5>1
        <5> QED BY <1>8, <3>1, <3>2, <5>1, <5>2
      <4> QED BY <4>1, <4>2
    <3>5. Upto(order, b[2] - 1) \cup {order[b[2]]} \subseteq Upto(order, b[2])
      <4>1. 1..(b[2] - 1) \subseteq 1..b[2] /\ b[2] \in 1..b[2]
        BY <2>1
      <4> QED BY <4>1 DEF Upto
    <3>6. Flows(x, M[<<b, 1>>], M[<<s, 1>>])
      BY <2>1, <2>2, <2>3, <3>3, <3>4, <3>5 DEF Flows, MovedAfter, DroppedAfter
    <3> QED BY <2>0, <3>1, <3>2, <3>6
  <2> HIDE DEF W
  <2> QED BY <2>5, <2>6, <2>7
<1>12. Approves(new, M, W)
  <2>1. W \subseteq DOMAIN new
    OBVIOUS
  <2> HIDE DEF W
  <2> QED BY <1>9, <1>10, <1>11, <2>1 DEF Approves
<1> QED BY <1>9, <1>12 DEF new

\* A first check that has come to its end approves of what it has walked.
LEMMA FirstCheckApproves ==
  ASSUME TypeOK, NEW L \in Labels, CheckInv(L), Peaceful, work = {}, cur = Nowhere
  PROVE  Approves(body, L, visited)
<1>1. /\ Entry \in visited /\ visited \subseteq DOMAIN body
      /\ \A b \in visited : Settled(L, b)
      /\ \A b \in visited : Len(body[b].stmts) \in Nat
  BY DEF CheckInv, TypeOK, IsBody, Block
<1>2. ASSUME NEW b \in visited
      PROVE  /\ \A i \in 1..End(body, b) : Fits(body, b, i, L[<<b, i>>])
             /\ \A i \in 1..Len(body[b].stmts) :
                  Flows(Instr(body, b, i), L[<<b, i>>], L[<<b, i + 1>>])
             /\ \A s \in Succs(body, b) :
                  /\ s \in visited
                  /\ Flows(Instr(body, b, End(body, b)), L[<<b, End(body, b)>>], L[<<s, 1>>])
  <2>1. Settled(L, b) /\ End(body, b) = Last(b)
    BY <1>1 DEF End, Last
  <2>2. ASSUME NEW i \in 1..End(body, b) PROVE Fits(body, b, i, L[<<b, i>>])
    <3>1. Clear(L, b, i)
      BY <2>1 DEF Settled
    <3>2. ~Conflict(Instr(body, b, i), BorrowsBefore(body, b, i))
      BY DEF Peaceful
    <3> QED BY <3>1, <3>2 DEF Clear, Fits
  <2>3. ASSUME NEW i \in 1..Len(body[b].stmts)
        PROVE  Flows(Instr(body, b, i), L[<<b, i>>], L[<<b, i + 1>>])
    BY <2>1 DEF Settled, Within, Flows
  <2>4. ASSUME NEW s \in Succs(body, b)
        PROVE  /\ s \in visited
               /\ Flows(Instr(body, b, End(body, b)), L[<<b, End(body, b)>>], L[<<s, 1>>])
    <3>1. s \in visited /\ Within(L, b, Last(b), entry[s])
      BY <2>1 DEF Settled
    <3>2. L[<<s, 1>>] = entry[s]
      BY <1>1, <3>1 DEF Settled
    <3> QED BY <2>1, <3>1, <3>2 DEF Within, Flows
  <2> QED BY <2>2, <2>3, <2>4
<1> QED BY <1>1, <1>2 DEF Approves

\* The borrows on record are those of the instructions walked.
LEMMA CheckIsPeaceful ==
  ASSUME TypeOK, Peaceful, Check, stage' = "check"
  PROVE  Peaceful'
<1>0. body' = body
  BY DEF Check, Pop, Reject, CheckStatement, CheckTerminator
<1>1. ASSUME NEW b \in DOMAIN body, Pop(b) PROVE Peaceful'
  <2>1. /\ cur = Nowhere /\ visited' = visited \cup {b} /\ cur' = <<b, 1>>
        /\ now'.borrows = {} /\ cur'[1] = b /\ cur'[2] = 1
    BY <1>1 DEF Pop
  <2>2. BorrowsBefore(body, b, 1) = {}
    BY DEF BorrowsBefore
  <2>3. \A c \in visited' : c # b =>
          \A i \in 1..End(body, c) : ~Conflict(Instr(body, c, i), BorrowsBefore(body, c, i))
    BY <2>1 DEF Peaceful
  <2>4. cur' # Nowhere
    BY <2>1 DEF Nowhere, TypeOK
  <2>5. 1..(cur'[2] - 1) = {}
    BY <2>1
  <2> QED BY <1>0, <2>1, <2>2, <2>3, <2>4, <2>5 DEF Peaceful, End
<1>2. ASSUME CheckStatement \/ CheckTerminator
      PROVE  /\ cur # Nowhere /\ UNCHANGED visited
             /\ cur[2] \in 1..End(body, cur[1]) /\ End(body, cur[1]) \in Nat
             /\ ~Conflict(Instr(body, cur[1], cur[2]), BorrowsBefore(body, cur[1], cur[2]))
             /\ \A i \in 1..(cur[2] - 1) :
                  ~Conflict(Instr(body, cur[1], i), BorrowsBefore(body, cur[1], i))
             /\ now.borrows = BorrowsBefore(body, cur[1], cur[2])
  <2>1. cur # Nowhere /\ UNCHANGED visited /\ Passes
    BY <1>2 DEF CheckStatement, CheckTerminator, Walking
  <2>2. cur[2] \in 1..End(body, cur[1]) /\ End(body, cur[1]) \in Nat
    BY <2>1, CurrentType DEF End, Last
  <2> QED BY <2>1, <2>2 DEF Peaceful, Passes, Allowed, Current
<1>3. CASE CheckStatement
  <2>1. /\ cur' = <<cur[1], cur[2] + 1>> /\ cur'[1] = cur[1] /\ cur'[2] = cur[2] + 1
        /\ now'.borrows = now.borrows \cup BorrowsOf(Current)
    BY <1>3 DEF CheckStatement
  <2>2. BorrowsBefore(body, cur[1], cur[2] + 1)
          = BorrowsBefore(body, cur[1], cur[2]) \cup BorrowsOf(Current)
    <3>1. 1..((cur[2] + 1) - 1) = 1..(cur[2] - 1) \cup {cur[2]}
      BY <1>2, <1>3
    <3> QED BY <3>1 DEF BorrowsBefore, Current
  <2>3. \A i \in 1..(cur'[2] - 1) :
          ~Conflict(Instr(body, cur[1], i), BorrowsBefore(body, cur[1], i))
    <3>1. \A i \in 1..(cur'[2] - 1) : i = cur[2] \/ i \in 1..(cur[2] - 1)
      BY <1>2, <1>3, <2>1
    <3> QED BY <1>2, <1>3, <3>1
  <2>4. cur' # Nowhere
    BY <1>2, <1>3, <2>1 DEF Nowhere
  <2>5. \A b \in visited' : b # cur'[1] =>
          \A i \in 1..End(body, b) : ~Conflict(Instr(body, b, i), BorrowsBefore(body, b, i))
    BY <1>2, <1>3, <2>1 DEF Peaceful
  <2> QED BY <1>0, <1>2, <1>3, <2>1, <2>2, <2>3, <2>4, <2>5 DEF Peaceful, End
<1>4. CASE CheckTerminator
  <2>1. cur' = Nowhere /\ cur[2] = End(body, cur[1])
    BY <1>4 DEF CheckTerminator, AtTerminator, End
  <2>2. \A i \in 1..End(body, cur[1]) : i = cur[2] \/ i \in 1..(cur[2] - 1)
    BY <1>2, <1>4, <2>1
  <2>3. \A b \in visited' :
          \A i \in 1..End(body, b) : ~Conflict(Instr(body, b, i), BorrowsBefore(body, b, i))
    <3> SUFFICES ASSUME NEW b \in visited, NEW i \in 1..End(body, b)
                 PROVE  ~Conflict(Instr(body, b, i), BorrowsBefore(body, b, i))
      BY <1>2, <1>4
    <3>1. CASE b = cur[1]
      BY <1>2, <1>4, <2>2, <3>1
    <3>2. CASE b # cur[1]
      BY <3>2 DEF Peaceful
    <3> QED BY <3>1, <3>2
  <2> QED BY <1>0, <2>1, <2>3 DEF Peaceful, End
<1>5. CASE Reject
  BY <1>5 DEF Reject
<1> QED BY <1>1, <1>3, <1>4, <1>5 DEF Check

\* The check finds no more than is foreseen.
LEMMA FlowsAreMonotone ==
  ASSUME NEW x, NEW m, NEW n, Flows(x, m, n), NEW moved, NEW dropped,
         moved \subseteq m.moved, dropped \subseteq m.dropped
  PROVE  MovedAfter(x, moved) \subseteq n.moved /\ DroppedAfter(x, dropped) \subseteq n.dropped
BY DEF Flows, MovedAfter, DroppedAfter

LEMMA CheckIsForeseen ==
  ASSUME TypeOK, NEW M \in Labels, NEW V \in SUBSET Ids, Approves(body, M, V), Foreseen(M, V),
         Check, stage' = "check"
  PROVE  Foreseen(M, V)'
<1>1. ASSUME NEW b \in DOMAIN body, Pop(b) PROVE Foreseen(M, V)'
  <2>1. /\ b \in work /\ work' = work \ {b} /\ visited' = visited \cup {b} /\ cur' = <<b, 1>>
        /\ now'.moved = entry[b].moved /\ now'.dropped = entry[b].dropped /\ entry' = entry
    BY <1>1 DEF Pop
  <2>2. b \in V /\ cur'[1] = b
    BY <2>1 DEF Foreseen
  <2> QED BY <2>1, <2>2 DEF Foreseen
<1>2. ASSUME CheckStatement \/ CheckTerminator
      PROVE  /\ cur[1] \in V /\ cur[2] \in 1..End(body, cur[1]) /\ cur = <<cur[1], cur[2]>>
             /\ Len(body[cur[1]].stmts) \in Nat
             /\ now.moved \subseteq M[<<cur[1], cur[2]>>].moved
             /\ now.dropped \subseteq M[<<cur[1], cur[2]>>].dropped
  <2>1. cur # Nowhere
    BY <1>2 DEF CheckStatement, CheckTerminator, Walking
  <2>2. cur[2] \in 1..End(body, cur[1]) /\ cur = <<cur[1], cur[2]>> /\ Len(body[cur[1]].stmts) \in Nat
    BY <2>1, CurrentType DEF End, Last
  <2> QED BY <2>1, <2>2 DEF Foreseen
<1>3. CASE CheckStatement
  <2>1. /\ cur' = <<cur[1], cur[2] + 1>> /\ UNCHANGED <<entry, work, visited>>
        /\ now'.moved = After.moved /\ now'.dropped = After.dropped
        /\ cur[2] # End(body, cur[1])
    BY <1>3 DEF CheckStatement, AtTerminator, End
  <2>2. cur[2] \in 1..Len(body[cur[1]].stmts)
    BY <1>2, <1>3, <2>1 DEF End
  <2>3. Flows(Current, M[<<cur[1], cur[2]>>], M[<<cur[1], cur[2] + 1>>])
    BY <1>2, <1>3, <2>2 DEF Approves, Current
  <2>4. now'.moved \subseteq M[cur'].moved /\ now'.dropped \subseteq M[cur'].dropped
    BY <1>2, <1>3, <2>1, <2>3, FlowsAreMonotone DEF After
  <2>5. cur'[1] \in V
    BY <1>2, <1>3, <2>1
  <2> QED BY <2>1, <2>4, <2>5 DEF Foreseen
<1>4. CASE CheckTerminator
  <2>1. /\ cur' = Nowhere /\ visited' = visited /\ cur[2] = End(body, cur[1])
        /\ work' \subseteq work \cup Succs(body, cur[1])
        /\ entry' = [b \in DOMAIN body |->
                 IF b \in Succs(body, cur[1])
                   THEN [moved |-> entry[b].moved \cup After.moved,
                         dropped |-> entry[b].dropped \cup After.dropped]
                   ELSE entry[b]]
    BY <1>4 DEF CheckTerminator, AtTerminator, End
  <2>2. Current = Instr(body, cur[1], End(body, cur[1]))
    BY <2>1 DEF Current
  <2>3. \A s \in Succs(body, cur[1]) :
          /\ s \in V
          /\ After.moved \subseteq M[<<s, 1>>].moved /\ After.dropped \subseteq M[<<s, 1>>].dropped
    <3> SUFFICES ASSUME NEW s \in Succs(body, cur[1])
                 PROVE  /\ s \in V
                        /\ After.moved \subseteq M[<<s, 1>>].moved
                        /\ After.dropped \subseteq M[<<s, 1>>].dropped
      OBVIOUS
    <3>0. cur[1] \in V /\ End(body, cur[1]) = cur[2]
      BY <1>2, <1>4, <2>1
    <3>1. s \in V /\ Flows(Current, M[<<cur[1], cur[2]>>], M[<<s, 1>>])
      BY <2>2, <3>0 DEF Approves
    <3>2. /\ now.moved \subseteq M[<<cur[1], cur[2]>>].moved
          /\ now.dropped \subseteq M[<<cur[1], cur[2]>>].dropped
      BY <1>2, <1>4
    <3>3. /\ MovedAfter(Current, now.moved) \subseteq M[<<s, 1>>].moved
          /\ DroppedAfter(Current, now.dropped) \subseteq M[<<s, 1>>].dropped
      <4>1. PICK x, m, n, moved, dropped :
              /\ x = Current /\ m = M[<<cur[1], cur[2]>>] /\ n = M[<<s, 1>>]
              /\ moved = now.moved /\ dropped = now.dropped
        OBVIOUS
      <4>2. Flows(x, m, n) /\ moved \subseteq m.moved /\ dropped \subseteq m.dropped
        BY <3>1, <3>2, <4>1
      <4>3. MovedAfter(x, moved) \subseteq n.moved /\ DroppedAfter(x, dropped) \subseteq n.dropped
        BY <4>2, FlowsAreMonotone
      <4> QED BY <4>1, <4>3
    <3> QED BY <3>1, <3>3 DEF After
  <2>4. ASSUME NEW b \in V
        PROVE  /\ entry'[b].moved \subseteq M[<<b, 1>>].moved
               /\ entry'[b].dropped \subseteq M[<<b, 1>>].dropped
    <3>1. b \in DOMAIN body /\ entry[b].moved \subseteq M[<<b, 1>>].moved
            /\ entry[b].dropped \subseteq M[<<b, 1>>].dropped
      BY DEF Approves, Foreseen
    <3>2. CASE b \in Succs(body, cur[1])
      <4>1. /\ entry'[b].moved = entry[b].moved \cup After.moved
            /\ entry'[b].dropped = entry[b].dropped \cup After.dropped
        BY <2>1, <3>1, <3>2
      <4> QED BY <2>3, <3>1, <3>2, <4>1
    <3>3. CASE b \notin Succs(body, cur[1])
      BY <2>1, <3>1, <3>3
    <3> QED BY <3>2, <3>3
  <2>5. visited' \cup work' \subseteq V
    BY <2>1, <2>3 DEF Foreseen
  <2> QED BY <2>1, <2>4, <2>5 DEF Foreseen
<1>5. CASE Reject
  BY <1>5 DEF Reject
<1> QED BY <1>1, <1>3, <1>4, <1>5 DEF Check

\* What is foreseen is rejected only for a read in a block that returns.
LEMMA RejectedInReturn ==
  ASSUME TypeOK, Peaceful, NEW M \in Labels, NEW V \in SUBSET Ids,
         Approves(body, M, V), Foreseen(M, V), Reject
  PROVE  /\ cur # Nowhere /\ IsReturn(body, cur[1])
         /\ Reads(Current) \cap ToDrop(body) # {}
<1>1. cur # Nowhere /\ ~Passes
  BY DEF Reject, Walking
<1>2. /\ cur[1] \in V /\ cur[2] \in 1..End(body, cur[1]) /\ cur = <<cur[1], cur[2]>>
  BY <1>1, CurrentType DEF End, Last, Foreseen
<1>3. Fits(body, cur[1], cur[2], M[<<cur[1], cur[2]>>])
  BY <1>2 DEF Approves
<1>4. /\ now.moved \subseteq M[<<cur[1], cur[2]>>].moved
      /\ now.dropped \subseteq M[<<cur[1], cur[2]>>].dropped
      /\ now.borrows = BorrowsBefore(body, cur[1], cur[2])
  BY <1>1, <1>2 DEF Foreseen, Peaceful
<1>5. Reads(Current) \cap now.dropped # {}
  BY <1>1, <1>3, <1>4 DEF Passes, Allowed, Fits, Current
<1> QED BY <1>1, <1>3, <1>4, <1>5 DEF Fits, Current

LEMMA InitEstablishesReturnInv == ASSUME Init PROVE ReturnInv
BY DEF Init, ReturnInv, Peaceful, DropsBreakOnlyReturns

LEMMA StepKeepsReturnInv ==
  ASSUME Inv, ReturnInv, [Next]_vars
  PROVE  ReturnInv'
<1>0. TypeOK /\ TypeOK'
  BY TypeStep DEF Inv
<1>1. CASE Check
  <2>1. /\ stage = "check" /\ stage' \in {"check", "rejected"} /\ UNCHANGED <<body, pass>>
        /\ stage' = "rejected" => Reject /\ cur' = cur
    BY <1>1 DEF Check, Pop, Reject, CheckStatement, CheckTerminator, Walking, checker
  <2>2. stage' = "check" => Peaceful'
    BY <1>0, <1>1, <2>1, CheckIsPeaceful DEF ReturnInv
  <2>3. CASE pass = 1
    BY <2>1, <2>2, <2>3 DEF ReturnInv, DropsBreakOnlyReturns
  <2>4. CASE pass = 2
    <3>1. PICK M \in Labels : \E V \in SUBSET Ids : Approves(body, M, V) /\ Foreseen(M, V)
      BY <2>1, <2>4 DEF ReturnInv
    <3>2. PICK V \in SUBSET Ids : Approves(body, M, V) /\ Foreseen(M, V)
      BY <3>1
    <3>3. stage' = "check" => Approves(body', M, V) /\ Foreseen(M, V)'
      BY <1>0, <1>1, <2>1, <3>2, CheckIsForeseen
    <3>4. stage' = "rejected" =>
            cur # Nowhere /\ IsReturn(body, cur[1]) /\ Reads(Current) \cap ToDrop(body) # {}
      BY <1>0, <2>1, <3>2, RejectedInReturn DEF ReturnInv
    <3>5. DropsBreakOnlyReturns'
      BY <2>1, <3>4 DEF DropsBreakOnlyReturns, Current, IsReturn
    <3>6. stage' = "check" =>
            (\E N \in Labels : \E W \in SUBSET Ids : Approves(body, N, W) /\ Foreseen(N, W))'
      BY <2>1, <3>3
    <3> QED BY <2>2, <3>5, <3>6 DEF ReturnInv
  <2>5. pass \in {1, 2}
    BY <1>0 DEF TypeOK
  <2> QED BY <2>3, <2>4, <2>5
<1>2. CASE Schedule
  <2>1. PICK order \in Orders : body' = Scheduled(body, order)
    BY <1>2 DEF Schedule
  <2>2. /\ stage = "check" /\ pass = 1 /\ work = {} /\ cur = Nowhere /\ cur' = cur
        /\ pass' = 2 /\ stage' = IF DropsTwice(body') THEN "rejected" ELSE "check"
        /\ work' = {Entry} /\ visited' = {} /\ entry' = [b \in DOMAIN body' |-> Fresh]
    BY <1>2 DEF Schedule, Checked
  <2>3. IsLowered(body) /\ IsOrder(body, order)
    BY <2>2, OrdersAreOrders DEF Inv
  <2>4. IsBody(body') /\ LaidOut(body', order)
    BY <1>0, <2>1, <2>3, ScheduledIsLaidOut DEF TypeOK
  <2>5. stage' = "check"
    BY <2>2, <2>4, NeverDropsTwice
  <2>6. PICK L \in Labels : CheckInv(L)
    BY <2>2 DEF Inv
  <2>7. Approves(body, L, visited)
    BY <1>0, <2>2, <2>6, FirstCheckApproves DEF ReturnInv
  <2>8. Upto(order, Len(order)) \subseteq ToDrop(body)
    <3>1. Cardinality(ToDrop(body)) \in Nat
      BY MirAssumption, FS_Subset, FS_CardinalityType DEF ToDrop
    <3> QED BY <3>1 DEF Orders, Upto
  <2>9. PICK M \in Labels : \E V \in SUBSET Ids : Approves(body', M, V)
    BY <2>1, <2>3, <2>4, <2>6, <2>7, <2>8, ApprovalStays
  <2>10. PICK V \in SUBSET Ids : Approves(body', M, V)
    BY <2>9
  <2>11. Foreseen(M, V)'
    <3>1. Entry \in V /\ V \subseteq DOMAIN body'
      BY <2>10 DEF Approves
    <3> QED BY <2>2, <3>1 DEF Foreseen, Fresh
  <2>12. Peaceful'
    BY <2>2 DEF Peaceful
  <2> QED BY <2>2, <2>5, <2>10, <2>11, <2>12 DEF ReturnInv, DropsBreakOnlyReturns
<1>3. CASE Run
  BY <1>3 DEF Run, Begin, RunStatement, RunTerminator, Stop, ReturnInv, DropsBreakOnlyReturns
<1>4. CASE UNCHANGED vars
  <2>1. Peaceful' <=> Peaceful
    BY <1>4 DEF vars, Peaceful, End
  <2>2. ASSUME NEW M \in Labels, NEW V \in SUBSET Ids PROVE Foreseen(M, V)' <=> Foreseen(M, V)
    BY <1>4 DEF vars, Foreseen
  <2>3. (\E M \in Labels : \E V \in SUBSET Ids : Approves(body, M, V) /\ Foreseen(M, V))
          => (\E M \in Labels : \E V \in SUBSET Ids : Approves(body, M, V) /\ Foreseen(M, V))'
    BY <1>4, <2>2 DEF vars
  <2>4. DropsBreakOnlyReturns'
    BY <1>4 DEF vars, DropsBreakOnlyReturns, Current, ReturnInv
  <2> QED BY <1>4, <2>1, <2>3, <2>4 DEF vars, ReturnInv
<1> QED BY <1>1, <1>2, <1>3, <1>4 DEF Next

\* A scheduled body is never found to drop a local twice, and drops make the
\* second borrow check fail only in a block that returns, and there only for a
\* read of a local that the chain in front of it drops.
THEOREM DropsBreakReturnsOnly == Spec => []DropsBreakOnlyReturns
<1>1. ReturnInv => DropsBreakOnlyReturns
  BY DEF ReturnInv
<1>2. Spec => []ReturnInv
  BY InitEstablishesInv, StepKeepsInv, InitEstablishesReturnInv, StepKeepsReturnInv, PTL DEF Spec
<1> QED BY <1>1, <1>2, PTL
=============================================================================
