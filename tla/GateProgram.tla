----------------------------- MODULE GateProgram -----------------------------
(***************************************************************************)
(* The programs scripts/check-stack-array-sizing.py reads, as its lexer    *)
(* and parser leave them.  An expression is a tuple that starts with its   *)
(* operator.  A body is a sequence of statements in source order, a block  *)
(* being what lies between an "if" or a "while" and its "end": the script  *)
(* works on positions in the token list, this module on positions in the   *)
(* body.                                                                   *)
(***************************************************************************)
EXTENDS Intervals, Sequences, SequencesExt

Num(n) == <<"num", n>>
Ref(x) == <<"ref", x>>
AddressOf(x) == <<"addr", x>>
Opaque == <<"opaque">>         \* a call's result, a load: nothing the gate resolves
Bin(op, a, b) == <<op, a, b>>

Leaf(e) == e[1] \in {"num", "ref", "addr", "opaque"}

RECURSIVE Leaves(_)
Leaves(e) == IF Leaf(e) THEN {e} ELSE Leaves(e[2]) \cup Leaves(e[3])

RECURSIVE Conjuncts(_)
Conjuncts(e) ==
  IF e[1] = "&&" THEN Conjuncts(e[2]) \o Conjuncts(e[3]) ELSE <<e>>

\* substitute: parameters replaced by the caller's argument expressions.
RECURSIVE Substitute(_, _)
Substitute(e, map) ==
  CASE e[1] = "ref" -> IF e[2] \in DOMAIN map THEN map[e[2]] ELSE e
    [] Leaf(e) -> e
    [] OTHER -> <<e[1], Substitute(e[2], map), Substitute(e[3], map)>>

-----------------------------------------------------------------------------
(* Statements.                                                             *)

Statement(op, x, e, width, args) == [op |-> op, x |-> x, e |-> e, width |-> width, args |-> args]

TypedArray(x, size, width) == <<Statement("array", x, size, width, <<>>)>>
Array(x, size) == TypedArray(x, size, 1)
Let(x, e) == <<Statement("let", x, e, 8, <<>>)>>
Assign(x, e) == <<Statement("set", x, e, 8, <<>>)>>
Call(f, args) == <<Statement("call", f, Num(0), 0, args)>>
Return == <<Statement("return", "", Num(0), 0, <<>>)>>
End == <<Statement("end", "", Num(0), 0, <<>>)>>
If(c, body) == <<Statement("if", "", c, 0, <<>>)>> \o body \o End
IfElse(c, body, other) ==
  <<Statement("if", "", c, 0, <<>>)>> \o body
    \o <<Statement("else", "", Num(0), 0, <<>>)>> \o other \o End
While(c, body) == <<Statement("while", "", c, 0, <<>>)>> \o body \o End

Function(name, params, body) == [name |-> name, params |-> params, body |-> body]

Opens(s) == s.op \in {"if", "while"}

\* Blocks open in front of position k.
Depth(b, k) ==
  Cardinality({j \in 1 .. k - 1 : Opens(b[j])}) - Cardinality({j \in 1 .. k - 1 : b[j].op = "end"})

\* match_close: where the block opened at k closes, an "else" closing the first branch.
Close(b, k) ==
  Min({j \in k + 1 .. Len(b) : b[j].op \in {"else", "end"} /\ Depth(b, j) = Depth(b, k) + 1})

HasElse(b, k) == b[Close(b, k)].op = "else"

\* if_extent: the end of an if, behind its else when it has one.
EndOf(b, k) ==
  Min({j \in k + 1 .. Len(b) : b[j].op = "end" /\ Depth(b, j) = Depth(b, k) + 1})

Positions(b, ops) == {k \in DOMAIN b : b[k].op \in ops}
=============================================================================
