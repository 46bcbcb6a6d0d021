------------------------------- MODULE MCWave -------------------------------
(***************************************************************************)
(* Selected lists for TLC: every filling of a few control-flow shapes with *)
(* a few instructions.  Ids: 1 a constant, 2 the byte offset (an extracted *)
(* LocalInvocationId), 3 .. 6 results, 7 a phi result, 8 .. 11 labels, 12  *)
(* and 13 the LocalInvocationId and WorkgroupId builtins.                  *)
(***************************************************************************)
EXTENDS Wave

CONSTANTS
  Shapes, Kinds, VgprCaps,
  WideMoves   \* 64-bit values may be carried by phis

One == 1
Offset == 2
Phi == 7
Lid == 12
Wgid == 13

Ins(op, dst, a, b) == Select(op, dst, a, b, 0, {}, 0)
Label(l) == <<Ins("LABEL", 0, l, 0)>>
Goto(l) == <<Ins("S_BRANCH", 0, l, 0)>>
Unless(l) == <<Select("S_CMP", 0, One, One, 0, {}, 0), Select("S_CBRANCH", 0, 0, 0, l, {}, 0)>>
IfLanes(x, l) == <<Ins("V_CMP", 0, One, x), Ins("S_SAVEEXEC", 0, 0, 0),
                   Select("S_CBRANCH_EXECZ", 0, 0, 0, l, {}, 0)>>
Copy(x) == <<Ins("V_MOV", Phi, x, 0)>>
Begin == <<Select("EXTRACT", Offset, Lid, 0, 0, {"c"}, 0)>>
End == <<Ins("S_ENDPGM", 0, 0, 0)>>

\* What slot d can hold when the values of A may be read.
Fill(d, A) ==
  {<<ins>> : ins \in {i \in
    {Select("LOAD", d, Offset, 0, 0, {"b"}, 0), Select("LOAD_X2", d, Offset, 0, 0, {"b"}, 0),
     Select("EXTRACT", d, Wgid, 0, 0, {"c"}, 0)}
    \cup {Ins("V_ADD", d, x, One) : x \in A} \cup {Ins("V_ADD_F64", d, x, x) : x \in A}
    \cup {Ins("S_ADD", d, x, One) : x \in A}
    \cup {Select("STORE", 0, Offset, 0, x, {"b"}, 0) : x \in A \cup {One}}
    \cup {Select("STORE_X2", 0, Offset, 0, x, {"b"}, 0) : x \in A} : i.op \in Kinds}}

\* A store of one of the values of A.
Out(A) == {s \in Fill(NoId, A) : s[1].op \in Stores}

\* The values of the slots so far.
Defined(s) == {s[1].dst} \ {NoId}

Straight ==
  UNION {UNION {UNION {{Begin \o s1 \o s2 \o s3 \o s4 \o End :
      s4 \in Out(Defined(s1) \cup Defined(s2) \cup Defined(s3))} :
      s3 \in Fill(5, Defined(s1) \cup Defined(s2))} :
      s2 \in Fill(4, Defined(s1) \cup {Offset})} : s1 \in Fill(3, {Offset})}

\* if (c) { s2 } s3 s4, on a scalar or on a per-lane condition.
If ==
  UNION {UNION {UNION {UNION {
      {Begin \o s1 \o Unless(8) \o s2 \o Goto(8) \o Label(8) \o s3 \o s4 \o End,
       Begin \o s1 \o IfLanes(Offset, 8) \o s2 \o Goto(8) \o Label(8)
         \o <<Ins("S_OR_EXEC", 0, 0, 0)>> \o s3 \o s4 \o End} :
      s4 \in Out(Defined(s1) \cup Defined(s3))} :
      s3 \in Fill(5, Defined(s1))} :
      s2 \in Fill(4, Defined(s1))} : s1 \in Fill(3, {Offset})}

\* for (p = s1; c; p = next) { s2 } s3 with next the last value of the body.
Loop ==
  UNION {UNION {UNION {
      {Begin \o s1 \o Copy(s1[1].dst) \o Goto(8) \o Label(8) \o Unless(9) \o s2
         \o Copy(x) \o Goto(8) \o Label(9) \o s3 \o End :
         x \in Defined(s2) \cup {s1[1].dst}} :
      s3 \in Out(Defined(s1) \cup {Phi})} :
      s2 \in Fill(4, Defined(s1) \cup {Phi})} :
      s1 \in {s \in Fill(3, {Offset}) : s[1].dst # NoId}}

\* A loop whose body holds a loop over s2, s3 before the inner one.
Nested ==
  UNION {UNION {UNION {
      {Begin \o s1 \o Copy(Offset) \o Goto(8) \o Label(8) \o Unless(9) \o s3
         \o Goto(10) \o Label(10) \o Unless(11) \o s2 \o Copy(Phi) \o Goto(10) \o Label(11)
         \o Goto(8) \o Label(9) \o s4 \o End :
         s4 \in Out(Defined(s1) \cup {Phi})} :
      s3 \in Fill(5, {Offset})} :
      s2 \in Fill(4, Defined(s1) \cup {Phi})} : s1 \in Fill(3, {Offset})}

\* A loop whose body returns on a scalar condition before it touches memory.
Return ==
  UNION {{Begin \o Goto(8) \o Label(8) \o Unless(9) \o Unless(10) \o Label(11) \o End
            \o Label(10) \o s1 \o Goto(8) \o Label(9) \o s2 \o End :
            s2 \in Out({})} : s1 \in Fill(3, {Offset})}

ShapeOf(name) ==
  CASE name = "straight" -> Straight [] name = "if" -> If
    [] name = "loop" -> Loop [] name = "nested" -> Nested
    [] name = "return" -> Return

\* A branch to a block that is not in the list.
Dangling == {Begin \o Goto(8) \o End}

\* _signed_prep of a uniform value or a constant: the sign mask, and the two
\* operations that take the magnitude with it (S_ADD for the exclusive or).
SignPrep(x) ==
  <<Select("S_ASHR", 3, x, 31, 0, {"b"}, 0), Ins("S_ADD", 4, x, 3), Ins("S_SUB", 5, 4, 3)>>
Signed ==
  {Begin \o <<Select("EXTRACT", 6, Wgid, 0, 0, {"c"}, 0)>> \o SignPrep(x)
     \o <<Select("STORE", 0, Offset, 0, One, {"b"}, 0)>> \o End : x \in {6, One}}

DefinerOf(list, v) == {i \in 1 .. Len(list) : list[i].dst = v}

\* A phi has the width of what it carries.
Wide(list, v) ==
  LET wides == {i \in 1 .. Len(list) : list[i].op \in {"LOAD_X2", "V_ADD_F64"}}
  IN \E i \in DefinerOf(list, v) :
       i \in wides \/ (list[i].op = "V_MOV" /\ DefinerOf(list, list[i].a) \cap wides # {})

ValueOf(list, v) ==
  LET defs == {list[i] : i \in DefinerOf(list, v)}
      wide == Wide(list, v)
      scalar == \E i \in defs : i.op \in Sop2 \/ (i.op = "EXTRACT" /\ i.a = Wgid)
  IN CASE v = One -> [NoValue EXCEPT !.kind = "CONST", !.type = "U32", !.payload = 7]
       [] v \in {Lid, Wgid} -> [NoValue EXCEPT !.kind = "BUILTIN", !.type = "U32",
                                                !.payload = v - Lid]
       [] defs # {} -> [NoValue EXCEPT !.kind = "SSA", !.type = IF wide THEN "F64" ELSE "U32",
                          !.unif = IF scalar THEN "UNIFORM" ELSE "DIVERGENT"]
       [] OTHER -> NoValue

\* Operands have the width their instruction reads.
WellTyped(list) ==
  \A i \in 1 .. Len(list) :
    LET wide(v) == Wide(list, v)
        x == list[i]
    IN /\ x.op \in {"V_ADD", "S_ADD"} => ~ wide(x.a)
       /\ x.op = "V_MOV" => (wide(x.a) <=> wide(x.dst)) /\ (wide(x.a) => WideMoves)
       /\ x.op = "V_ADD_F64" => wide(x.a)
       /\ x.op = "STORE" => ~ wide(x.c)
       /\ x.op = "STORE_X2" => wide(x.c)

Lists == Dangling \cup Signed \cup {l \in UNION {ShapeOf(s) : s \in Shapes} : WellTyped(l)}

MCInit ==
  /\ code \in Lists
  /\ vals = [v \in Ids |-> ValueOf(code, v)]
  /\ files \in {[f \in FileNames |-> IF f = "v" THEN [base |-> 1, cap |-> c]
                                     ELSE [base |-> 3, cap |-> 5]] : c \in VgprCaps}
  /\ (Structured /\ SignMasksRead /\ ExtractsFiled /\ (MovesFit \/ WideMoves)
       /\ LoadsBeforeReads) = TRUE    \* taken as one value
  /\ RegAllocInit /\ BackendInit /\ WaveInit

MCSpec == MCInit /\ [][Next]_vars
=============================================================================
