--------------------------- MODULE MCMirPipeline ---------------------------
EXTENDS MirPipeline

(***************************************************************************)
(* Bodies for TLC: every body of five shapes (a single block, a call, an   *)
(* if without else, a loop, early returns with an assertion and dead code) *)
(* whose blocks are filled from ten lists of statements.                   *)
(***************************************************************************)
CONSTANTS x, y, n

Op(local, mode) == [local |-> local, mode |-> mode]
Do(op, dst, args) == [op |-> op, dst |-> dst, args |-> args]
\* x and y own their values; n does not.
Statements == {
  <<>>,
  <<Do("use", x, <<>>)>>,
  <<Do("use", y, <<Op(x, "move")>>)>>,
  <<Do("use", x, <<Op(y, "move")>>)>>,
  <<Do("combine", n, <<Op(x, "copy")>>)>>,
  <<Do("combine", y, <<Op(x, "move")>>)>>,
  <<Do("use", x, <<>>), Do("use", y, <<Op(x, "move")>>)>>,
  <<Do("use", y, <<Op(x, "move")>>), Do("use", x, <<>>)>>,
  <<Do("use", y, <<>>), Do("combine", n, <<Op(y, "copy"), Op(x, "copy")>>)>>,
  <<Do("ref", n, <<Op(x, "shared")>>), Do("ref", n, <<Op(x, "mut")>>)>> }

End(op) == [op |-> op, dst |-> NoLocal, args |-> <<>>, to |-> <<>>]
Jump(op, to) == [op |-> op, dst |-> NoLocal, args |-> <<>>, to |-> to]
Calls(to) ==
  {[op |-> "call", dst |-> x, args |-> args, to |-> <<to>>] :
     args \in {<<>>, <<Op(x, "move")>>, <<Op(x, "move"), Op(y, "move")>>,
               <<Op(y, "copy"), Op(y, "move")>>, <<Op(y, "move"), Op(y, "copy")>>}}

Bb(stmts, term) == [stmts |-> stmts, term |-> term]

SingleBlock == {<<Bb(s, End("return"))>> : s \in Statements}

AfterCall == {<<Bb(s1, c), Bb(s2, End("return"))>> :
                s1, s2 \in Statements, c \in Calls(2)}

Diamond == {<<Bb(s1, Jump("switch", <<2, 3>>)), Bb(s2, Jump("goto", <<4>>)),
              Bb(<<>>, Jump("goto", <<4>>)), Bb(s4, End("return"))>> :
              s1, s2, s4 \in Statements}

Loop == {<<Bb(s1, Jump("goto", <<2>>)), Bb(<<>>, Jump("switch", <<3, 4>>)),
           Bb(s3, Jump("goto", <<2>>)), Bb(s4, End("return"))>> :
           s1, s3, s4 \in Statements}

EarlyReturn == {<<Bb(s1, Jump("switch", <<2, 3, 5>>)), Bb(s2, End("return")),
                  Bb(s3, Jump("assert", <<4>>)), Bb(<<>>, End("return")),
                  Bb(<<>>, End("unreachable"))>> :
                  s1, s2, s3 \in Statements}

\* Locals are assigned before they are read: x at the entry, y there too unless
\* only blocks that assign it themselves read it.
NeedsY(list) ==
  \E b \in DOMAIN list :
    \/ list[b].stmts = <<Do("use", x, <<Op(y, "move")>>)>>
    \/ y \in Reads(list[b].term)

FromEntry(list, locals) ==
  [list EXCEPT ![1].stmts = [i \in DOMAIN locals |-> Do("use", locals[i], <<>>)] \o @]

Initialised(list) ==
  {FromEntry(list, <<x, y>>)} \cup IF NeedsY(list) THEN {} ELSE {FromEntry(list, <<x>>)}

\* The i-th block of a list is <<i, 0>>.
Identified(list) ==
  [b \in {<<i, 0>> : i \in DOMAIN list} |->
     [list[b[1]] EXCEPT !.term.to = [i \in DOMAIN @ |-> <<@[i], 0>>]]]

MCBodies ==
  {Identified(list) : list \in UNION {Initialised(list) :
     list \in SingleBlock \cup AfterCall \cup Diamond \cup Loop \cup EarlyReturn}}
=============================================================================
