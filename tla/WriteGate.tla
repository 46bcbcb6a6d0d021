------------------------------- MODULE WriteGate -------------------------------
(***************************************************************************)
(* scripts/check-program-write-lengths.py: a write of a string literal     *)
(* must not carry a length counted by hand (programs/), or must carry the  *)
(* right one (everywhere else).  A function that passes two of its         *)
(* parameters on to a write is a wrapper, and a call of it a write too:    *)
(* for every file the wrappers are collected from the file and from src/   *)
(* until a pass finds no more, then the calls of the file are judged.      *)
(*                                                                         *)
(* A file is [strict, lib, fns, texts]: under programs/, under src/, its   *)
(* functions in source order, and the string literals that are no          *)
(* argument.  A function is [name, params, calls], a call [callee, args].  *)
(***************************************************************************)
EXTENDS Integers, Sequences, FiniteSets, SequencesExt

CONSTANT Trees        \* the trees scanned: sequences of files in path order

IsList(s) == Len(s) \in Nat /\ DOMAIN s = 1 .. Len(s)

VARIABLES
  tree,       \* what is scanned; never changes
  file,       \* the file at hand
  step,       \* "wrappers", "judge" or "done"
  table,      \* table being walked: 0 is the file's own, j that of file j
  place,      \* next function of it
  wrappers,   \* name -> positions of buffer and length among its parameters
  grew,       \* this pass added a wrapper
  problems,   \* what is reported: <<file, what, where>>
  status      \* exit status, -1 before the end

writeVars == <<tree, file, step, table, place, wrappers, grew, problems, status>>

-----------------------------------------------------------------------------
(* Arguments and literals, as lex leaves them.                             *)

Name(x) == [kind |-> "id", x |-> x]
Digits(n) == [kind |-> "num", n |-> n, plain |-> TRUE]
Literal(pieces, tally) == [kind |-> "str", pieces |-> pieces, tally |-> tally]
Computed == [kind |-> "expr"]             \* more than one token
\* A number that is not all digits, 0x2: the program writes n bytes, the script cannot read it.
HexDigits(n) == [kind |-> "num", n |-> n, plain |-> FALSE]

\* A piece of a literal: a character, \n and the like, \xHH, \u, or none of them.
\* bytes is what the compiler makes of it.
Piece(form, code, bytes) == [form |-> form, code |-> code, bytes |-> bytes]

Utf8Width(code) ==
  CASE code < 128 -> 1
    [] 128 <= code /\ code < 2048 -> 2
    [] 2048 <= code /\ code < 65536 -> 3
    [] OTHER -> 4

Encodable(p) ==
  /\ p.form # "malformed"
  /\ p.form = "unicode" => p.code \notin 55296 .. 57343 /\ p.code <= 1114111

\* Mutant: an escape stands for one byte.
PieceWidthEscapesOne(p) == IF p.form = "char" THEN Utf8Width(p.code) ELSE 1

PieceWidth(p) == IF p.form \in {"simple", "hex"} THEN 1 ELSE Utf8Width(p.code)

Total(widths) == FoldLeft(+, 0, widths)

\* decode: None when an escape is malformed, the bytes of the pieces otherwise.
Decodable(lit) == \A i \in DOMAIN lit.pieces : Encodable(lit.pieces[i])
DecodedLength(lit) == Total([i \in DOMAIN lit.pieces |-> PieceWidth(lit.pieces[i])])

-----------------------------------------------------------------------------
(* functions and find_wrappers.                                            *)

\* The tables of file f of tree t, [fns] + src_tables.
FileAt(t, f, j) == IF j = 0 THEN t[f] ELSE t[j]
Searched(t, j) == j # 0 => t[j].lib

\* setdefault: the first definition of a name in a file is the one that counts.
Counts(fl, i) == \A j \in 1 .. i - 1 : fl.fns[j].name # fl.fns[i].name

IsSysWrite(arg) == arg = Digits(1) \/ arg = Name("SYS_WRITE")

NoWrite == <<0, 0>>

\* Mutant: the arguments a wrapper takes are swapped on the way.
WriteShapeSwapped(call, wraps) ==
  CASE call.callee = "syscall" /\ Len(call.args) = 4 /\ IsSysWrite(call.args[1]) -> <<3, 4>>
    [] call.callee = "sys_write" /\ Len(call.args) = 3 -> <<2, 3>>
    [] call.callee \in DOMAIN wraps /\ Len(call.args) >= 2 -> <<1, 2>>
    [] OTHER -> NoWrite

\* write_shape: where buffer and length are among the arguments of a call, NoWrite for no write.
WriteShape(call, wraps) ==
  CASE call.callee = "syscall" /\ Len(call.args) = 4 /\ IsSysWrite(call.args[1]) -> <<3, 4>>
    [] call.callee = "sys_write" /\ Len(call.args) = 3 -> <<2, 3>>
    [] call.callee \in DOMAIN wraps ->
         LET pair == wraps[call.callee]
         IN IF pair[1] <= Len(call.args) /\ pair[2] <= Len(call.args) THEN pair ELSE NoWrite
    [] OTHER -> NoWrite

\* params.index.
IsParameter(f, arg) == arg.kind = "id" /\ \E i \in DOMAIN f.params : f.params[i] = arg.x
ParameterAt(f, arg) ==
  CHOOSE i \in DOMAIN f.params : f.params[i] = arg.x /\ \A j \in 1 .. i - 1 : f.params[j] # arg.x

\* Call k of f hands two parameters of f to a write.
Forwards(f, k, wraps) ==
  LET shape == WriteShape(f.calls[k], wraps)
  IN /\ shape # NoWrite
     /\ IsParameter(f, f.calls[k].args[shape[1]]) /\ IsParameter(f, f.calls[k].args[shape[2]])

PairOf(f, k, wraps) ==
  LET shape == WriteShape(f.calls[k], wraps)
  IN <<ParameterAt(f, f.calls[k].args[shape[1]]), ParameterAt(f, f.calls[k].args[shape[2]])>>

\* The first such call settles what f is.
FirstForward(f, wraps) ==
  CHOOSE k \in DOMAIN f.calls : Forwards(f, k, wraps) /\ \A j \in 1 .. k - 1 : ~Forwards(f, j, wraps)

IsWrapper(f, wraps) == \E k \in DOMAIN f.calls : Forwards(f, k, wraps)

With(wraps, x, pair) == [y \in DOMAIN wraps \cup {x} |-> IF y = x THEN pair ELSE wraps[y]]

Here == FileAt(tree, file, table)
InTable == table <= Len(tree) /\ Searched(tree, table) /\ place <= Len(Here.fns)

Adds(i) ==
  LET f == Here.fns[i]
  IN Counts(Here, i) /\ f.name \notin DOMAIN wrappers /\ IsWrapper(f, wrappers)

\* One turn of the inner loop of find_wrappers.
VisitFunction ==
  /\ step = "wrappers" /\ InTable
  /\ LET f == Here.fns[place]
     IN /\ wrappers' = IF Adds(place) THEN With(wrappers, f.name, PairOf(f, FirstForward(f, wrappers), wrappers))
                       ELSE wrappers
        /\ grew' = (grew \/ Adds(place))
  /\ place' = place + 1
  /\ UNCHANGED <<tree, file, step, table, problems, status>>

NextTable ==
  /\ step = "wrappers" /\ table <= Len(tree) /\ ~InTable
  /\ table' = table + 1 /\ place' = 1
  /\ UNCHANGED <<tree, file, step, wrappers, grew, problems, status>>

\* Mutants: a pass that found something is the last one; a wrapper counts as found again.
PassAgainNever == FALSE
PassAgainAlways == DOMAIN wrappers # {}

PassAgain == grew

EndPass ==
  /\ step = "wrappers" /\ table > Len(tree)
  /\ step' = IF PassAgain THEN "wrappers" ELSE "judge"
  /\ table' = 0 /\ place' = 1 /\ grew' = FALSE
  /\ UNCHANGED <<tree, file, wrappers, problems, status>>

-----------------------------------------------------------------------------
(* run.                                                                    *)

\* The literal and the number a call writes, if it writes a literal with a number.
CountedWrite(call, wraps) ==
  LET shape == WriteShape(call, wraps)
  IN /\ shape # NoWrite
     /\ call.args[shape[1]].kind = "str" /\ call.args[shape[2]].kind = "num"

WrongCount(call, wraps) ==
  LET shape == WriteShape(call, wraps)
      lit == call.args[shape[1]]
      n == call.args[shape[2]]
  IN ~Decodable(lit) \/ ~n.plain \/ n.n # DecodedLength(lit)

\* Every literal of a file, whether an argument or not.
LiteralsIn(fl) ==
  {fl.texts[i] : i \in DOMAIN fl.texts} \cup
  UNION {UNION {{a \in {c.args[i] : i \in DOMAIN c.args} : a.kind = "str"} :
                c \in {fl.fns[j].calls[k] : k \in DOMAIN fl.fns[j].calls}} : j \in DOMAIN fl.fns}

CallsIn(fl) == UNION {{<<i, k>> : k \in DOMAIN fl.fns[i].calls} : i \in DOMAIN fl.fns}
CallAt(fl, p) == fl.fns[p[1]].calls[p[2]]

ProblemsOf(f) ==
  {<<f, "count", p>> : p \in
     {q \in CallsIn(tree[f]) :
        /\ CountedWrite(CallAt(tree[f], q), wrappers)
        /\ tree[f].strict \/ WrongCount(CallAt(tree[f], q), wrappers)}}
  \cup {<<f, "tally", lit>> : lit \in
          {l \in LiteralsIn(tree[f]) : tree[f].strict /\ l.tally /\ Decodable(l)}}

\* The calls of the file at hand are judged, and the next file starts without wrappers.
JudgeFile ==
  /\ step = "judge"
  /\ problems' = problems \cup ProblemsOf(file)
  /\ wrappers' = <<>>
  /\ IF file < Len(tree)
     THEN file' = file + 1 /\ step' = "wrappers" /\ UNCHANGED status
     ELSE file' = file /\ step' = "done" /\ status' = IF problems' = {} THEN 0 ELSE 1
  /\ UNCHANGED <<tree, table, place, grew>>

WriteInit ==
  /\ tree \in Trees
  /\ file = 1 /\ step = "wrappers" /\ table = 0 /\ place = 1
  /\ wrappers = <<>> /\ grew = FALSE /\ problems = {} /\ status = -1

WriteNext == VisitFunction \/ NextTable \/ EndPass \/ JudgeFile

WriteSpec == WriteInit /\ [][WriteNext]_writeVars

-----------------------------------------------------------------------------
(* What the trees are: lists throughout, and literals in UTF-8.            *)

\* The code points of 1, 2, 3 and 4 bytes lie below these.
Utf8Limits == <<128, 2048, 65536, 1114112>>

\* The compiler makes one byte of a simple or hexadecimal escape, and of a character the fewest
\* bytes its code point fits in.
WellCounted(p) ==
  IF p.form \in {"simple", "hex"} THEN p.bytes = 1
  ELSE /\ p.code \in Nat /\ p.bytes \in 1 .. 4 /\ p.code < Utf8Limits[p.bytes]
       /\ \A b \in 1 .. p.bytes - 1 : Utf8Limits[b] <= p.code

ListsOfCalls(fn) ==
  IsList(fn.params) /\ IsList(fn.calls) /\ \A k \in DOMAIN fn.calls : IsList(fn.calls[k].args)

ASSUME TreesAssumption ==
  \A t \in Trees :
    /\ IsList(t) /\ Len(t) # 0
    /\ \A f \in 1 .. Len(t) :
         /\ IsList(t[f].fns) /\ \A i \in 1 .. Len(t[f].fns) : ListsOfCalls(t[f].fns[i])
         /\ \A lit \in LiteralsIn(t[f]) : \A i \in DOMAIN lit.pieces :
              Encodable(lit.pieces[i]) => WellCounted(lit.pieces[i])

-----------------------------------------------------------------------------
(* What really is a write: a function writes <<i, j>> when a call of it    *)
(* hands its parameters i and j to a write, directly or through functions  *)
(* that do.                                                                *)

Triple(f, pair) == <<f.name, pair>>

Direct(call) == {s \in {<<3, 4>>, <<2, 3>>} : s = WriteShape(call, <<>>)}

\* Where a call writes, when its callees write S.
WritesAt(call, S) ==
  {s \in Direct(call) \cup {u[2] : u \in {v \in S : v[1] = call.callee}} :
     s[1] <= Len(call.args) /\ s[2] <= Len(call.args)}

\* The functions a call in file f may mean.
InScope(f) ==
  UNION {{FileAt(tree, f, j).fns[i] : i \in {k \in DOMAIN FileAt(tree, f, j).fns : Counts(FileAt(tree, f, j), k)}} :
         j \in {k \in 0 .. Len(tree) : Searched(tree, k)}}

\* Triples of a set of functions through one call more than those of S.
OneMoreCall(fns, S) ==
  LET handed(g, c) == {<<ParameterAt(g, c.args[s[1]]), ParameterAt(g, c.args[s[2]])>> :
                         s \in {u \in WritesAt(c, S) :
                                  IsParameter(g, c.args[u[1]]) /\ IsParameter(g, c.args[u[2]])}}
  IN UNION {UNION {{Triple(g, pair) : pair \in handed(g, g.calls[k])} : k \in DOMAIN g.calls} : g \in fns}

\* Those of at most n calls, one for each function at most.
CallChains(fns) ==
  LET within[n \in 0 .. Cardinality(fns)] == IF n = 0 THEN {} ELSE OneMoreCall(fns, within[n - 1])
  IN within

Writers(f) == CallChains(InScope(f))[Cardinality(InScope(f))]

-----------------------------------------------------------------------------
(* Properties.                                                             *)

\* When the calls of a file are judged, no function of its tables that hands its parameters to
\* a write is missing, whatever the order of the functions and the files: find_wrappers stops
\* only at its fixed point.
ForwardersFound ==
  step = "judge" =>
    \A j \in 0 .. Len(tree) : Searched(tree, j) =>
      LET fl == FileAt(tree, file, j)
      IN \A i \in 1 .. Len(fl.fns) :
           Counts(fl, i) /\ IsWrapper(fl.fns[i], wrappers) => fl.fns[i].name \in DOMAIN wrappers

\* A wrapper really writes through the two parameters noted for it.
WrappersWrite ==
  step = "judge" =>
    LET truth == Writers(file)
    IN \A x \in DOMAIN wrappers : <<x, wrappers[x]>> \in truth

\* The names of the tables are different, none is that of a system call, and none writes two
\* pairs of its parameters.
Unambiguous(f, truth) ==
  /\ \A g, h \in InScope(f) : g.name = h.name => g = h
  /\ \A g \in InScope(f) : g.name \notin {"syscall", "sys_write"}
  /\ \A a, b \in truth : a[1] = b[1] => a = b

BytesOf(lit) == Total([i \in DOMAIN lit.pieces |-> lit.pieces[i].bytes])

\* A call that writes a literal with a typed length at the end of whatever chain of functions.
CountedInTruth(f, call, truth) ==
  \E s \in WritesAt(call, truth) :
    LET lit == call.args[s[1]]  n == call.args[s[2]]
    IN /\ lit.kind = "str" /\ n.kind = "num"
       /\ \/ tree[f].strict
          \/ ~Decodable(lit)
          \/ n.n # BytesOf(lit)

\* The same with a count the script cannot read, right or wrong.
UnreadableCount(call, truth) ==
  \E s \in WritesAt(call, truth) :
    LET n == call.args[s[2]]
    IN call.args[s[1]].kind = "str" /\ n.kind = "num" /\ ~n.plain

\* Every hand count under programs/ and every count elsewhere that is not the bytes the literal
\* has is reported at the end, however many functions lie between, and what is reported beyond
\* them is a count the script cannot read: 0x2 in front of two bytes is reported too.
CountsReported ==
  step = "done" =>
    \A f \in DOMAIN tree :
      LET truth == Writers(f)
      IN Unambiguous(f, truth) =>
           \A p \in CallsIn(tree[f]) :
             LET call == CallAt(tree[f], p)
             IN <<f, "count", p>> \in problems <=>
                  CountedInTruth(f, call, truth) \/ UnreadableCount(call, truth)
=============================================================================
