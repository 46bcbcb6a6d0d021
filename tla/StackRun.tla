------------------------------- MODULE StackRun -------------------------------
(***************************************************************************)
(* The scanned program itself, run from its function t once the gate has   *)
(* reported: what its calls really write is compared with what the gate    *)
(* said of them.  The language is not under src/: a function-local         *)
(* `var NAME[N]` is N bytes, a scalar 8, a global array N * 8, arguments   *)
(* are evaluated by the caller, and an opaque expression may be anything   *)
(* the constant Inputs holds.  A write past an object is recorded and the  *)
(* run goes on as if it had hit nothing.                                   *)
(***************************************************************************)
EXTENDS StackGate

CONSTANT Inputs       \* values of opaque expressions

ASSUME InputsAssumption == Inputs \subseteq Int /\ Inputs # {}

VARIABLES
  stack,     \* frames [f, pc, env, id], the running one last
  frames,    \* frames ever pushed
  globals,   \* constants some function has assigned
  hits       \* what was written: object, bytes, and the call sites on the way

runVars == <<stack, frames, globals, hits>>

\* A value is an integer (obj = <<>>) or a pointer into <<frame, name>>.
Integer(n) == [obj |-> <<>>, n |-> n]
AsInteger(v) == IF v.obj = <<>> THEN v.n ELSE AddressTop

Arithmetic(op, a, b) ==
  CASE op \in {"+", "-"} /\ a.obj # <<>> -> [a EXCEPT !.n = Apply(op, @, b.n)]
    [] op = "+" /\ b.obj # <<>> -> [b EXCEPT !.n = @ + a.n]
    [] OTHER -> Integer(Apply(op, AsInteger(a), AsInteger(b)))

RECURSIVE ValueOf(_, _, _)
ValueOf(fr, e, in) ==
  CASE e[1] = "num" -> Integer(e[2])
    [] e[1] = "opaque" -> Integer(in)
    [] e[1] = "addr" -> [obj |-> <<fr.id, e[2]>>, n |-> 0]
    [] e[1] = "iocsize" -> Integer(OutSize(ValueOf(fr, e[2], in).n))
    [] e[1] = "ref" ->
         IF e[2] \in DOMAIN fr.env THEN fr.env[e[2]]
         ELSE IF e[2] \in DOMAIN globals THEN globals[e[2]]
         ELSE LET home == SelectSeq(SearchOrder(fr.f[1]), LAMBDA j : e[2] \in DOMAIN mods[j].consts)
              IN ValueOf(fr, mods[home[1]].consts[e[2]], in)
    [] OTHER -> Arithmetic(e[1], ValueOf(fr, e[2], in), ValueOf(fr, e[3], in))

Running == phase = "reported" /\ stack # <<>>
Frame == stack[Len(stack)]
\* Falling off the end of a body returns.
Stmt == LET b == Body(Frame.f) IN IF Frame.pc <= Len(b) THEN b[Frame.pc] ELSE Return[1]

\* What an opaque part of the statement can be.
Draws ==
  IF Opaque \in Leaves(Stmt.e) \cup UNION {Leaves(Stmt.args[i]) : i \in DOMAIN Stmt.args}
  THEN Inputs ELSE {0}

Goto(pc) == stack' = [stack EXCEPT ![Len(stack)].pc = pc]

Declare ==
  /\ Running /\ Stmt.op = "array"
  /\ Goto(Frame.pc + 1)
  /\ UNCHANGED <<frames, globals, hits>>

Bind ==
  /\ Running /\ Stmt.op \in {"let", "set"}
  /\ \E in \in Draws :
       LET v == ValueOf(Frame, Stmt.e, in)
           local == Stmt.op = "let" \/ Stmt.x \in DOMAIN Frame.env
       IN /\ stack' = [stack EXCEPT ![Len(stack)].pc = @ + 1,
                                    ![Len(stack)].env = IF local THEN Stmt.x :> v @@ @ ELSE @]
          /\ globals' = IF local THEN globals ELSE Stmt.x :> v @@ globals
  /\ UNCHANGED <<frames, hits>>

Branch ==
  /\ Running /\ Stmt.op \in {"if", "while"}
  /\ \E in \in Draws :
       Goto(IF AsInteger(ValueOf(Frame, Stmt.e, in)) # 0 THEN Frame.pc + 1
            ELSE Close(Body(Frame.f), Frame.pc) + 1)
  /\ UNCHANGED <<frames, globals, hits>>

\* The end of a first branch jumps over the other, the end of a loop back to its head.
EndBlock ==
  /\ Running /\ Stmt.op \in {"else", "end"}
  /\ LET b == Body(Frame.f)
         loop == {k \in Positions(b, {"while"}) : Close(b, k) = Frame.pc}
     IN Goto(CASE Stmt.op = "else" ->
                    Min({EndOf(b, k) : k \in {i \in Positions(b, {"if"}) : Close(b, i) = Frame.pc}}) + 1
               [] loop # {} -> Min(loop)
               [] OTHER -> Frame.pc + 1)
  /\ UNCHANGED <<frames, globals, hits>>

Callee == ResolveFn(Frame.f[1], Stmt.x)
SystemCall == IF Stmt.x = "syscall"
              THEN Point(ValueOf(Frame, Stmt.args[1], 0).n) ELSE None
Primitive == PrimitiveWrite(Stmt, SystemCall)

Enter ==
  /\ Running /\ Stmt.op = "call" /\ Primitive = None /\ Callee # None
  /\ \E in \in Draws :
       LET params == Fn(Callee).params
           env == [x \in {params[i] : i \in DOMAIN params} |->
                     LET i == Min({j \in DOMAIN params : params[j] = x})
                     IN IF i <= Len(Stmt.args) THEN ValueOf(Frame, Stmt.args[i], in) ELSE Integer(0)]
       IN stack' = Append([stack EXCEPT ![Len(stack)].pc = @ + 1],
                          [f |-> Callee, pc |-> 1, env |-> env, id |-> frames + 1])
  /\ frames' = frames + 1
  /\ UNCHANGED <<globals, hits>>

\* A suspended frame waits behind its call.
SiteOf(i) == IF i = Len(stack) THEN stack[i].pc ELSE stack[i].pc - 1

Hit(owner, x, lo, hi) ==
  [f |-> stack[owner].f, site |-> SiteOf(owner), x |-> x, lo |-> lo, hi |-> hi,
   path |-> {<<stack[i].f, SiteOf(i)>> : i \in owner .. Len(stack)}]

\* A primitive writes; the scalar it hits holds what a store64 put there, or anything.
Write ==
  /\ Running /\ Stmt.op = "call" /\ (Primitive # None \/ Callee = None)
  /\ \E in \in Draws :
       LET p == ValueOf(Frame, Primitive[1], in)
           n == ValueOf(Frame, Primitive[2], in).n
           owner == Min({i \in DOMAIN stack : stack[i].id = p.obj[1]})
           writes == Primitive # None /\ p.obj # <<>> /\ n > 0
           scalar == writes /\ p.obj[2] \in DOMAIN stack[owner].env
           left == IF Stmt.x = "store64" /\ p.n = 0 THEN {ValueOf(Frame, Stmt.args[2], in)}
                   ELSE {Integer(v) : v \in Inputs}
           moved == [stack EXCEPT ![Len(stack)].pc = @ + 1]
       IN /\ hits' = IF writes THEN hits \cup {Hit(owner, p.obj[2], p.n, p.n + n)} ELSE hits
          /\ IF scalar THEN \E v \in left : stack' = [moved EXCEPT ![owner].env[p.obj[2]] = v]
             ELSE stack' = moved
  /\ UNCHANGED <<frames, globals>>

Finish ==
  /\ Running /\ Stmt.op = "return"
  /\ stack' = SubSeq(stack, 1, Len(stack) - 1)
  /\ UNCHANGED <<frames, globals, hits>>

Main == LET m == Len(mods) IN <<m, Min({i \in DOMAIN mods[m].fns : mods[m].fns[i].name = "t"})>>

RunInit ==
  /\ stack = <<[f |-> Main, pc |-> 1, env |-> <<>>, id |-> 1]>>
  /\ frames = 1 /\ globals = <<>> /\ hits = {}

RunNext ==
  /\ Declare \/ Bind \/ Branch \/ EndBlock \/ Enter \/ Write \/ Finish
  /\ UNCHANGED gateVars

StackInit == GateInit /\ RunInit
StackNext == (GateNext /\ UNCHANGED runVars) \/ RunNext

-----------------------------------------------------------------------------
(* Properties.                                                             *)

EntryOf(f, p, e) ==
  /\ e.off # None /\ e.width # None
  /\ \A l \in Leaves(e.off) \cup Leaves(e.width) : l[1] # "opaque"

\* Types, and what the summaries are made of: every parameter has at most MaxEntries
\* entries, all different, and nothing opaque is ever passed up to a caller.
StackTypeOK ==
  /\ phase \in {"summaries", "check", "reported"}
  /\ turn \in 1 .. Len(Fns) + 1 /\ round \in 0 .. MaxDepth /\ changed \in BOOLEAN
  /\ exit \in {-1, 0, 1}
  /\ \A f \in DOMAIN summary : \A p \in DOMAIN summary[f] :
       /\ Len(summary[f][p]) <= MaxEntries
       /\ IsInjective(summary[f][p])
       /\ \A j \in DOMAIN summary[f][p] : EntryOf(f, p, summary[f][p][j])
  /\ \A w \in judged : w.hi > w.lo \/ ~w.sure

Resolved(h) == h.path \cap skipped = {} /\ mods[h.f[1]].kind # "lib"

\* Every write the program makes into an object was compared for that call, to its last byte
\* and from its first when that lies in front of the object, unless the gate had given up on a
\* call on the way: no write was taken for unreachable, lost between two functions or cut short.
ExecutedIsJudged ==
  \A h \in hits : Resolved(h) =>
    LET seen == {w \in judged : w.f = h.f /\ w.site = h.site /\ w.x = h.x}
    IN /\ \E w \in seen : h.hi <= w.hi
       /\ h.lo < 0 => \E w \in seen : w.lo <= h.lo

SizeOf(h) == ObjectSize(h.f, h.x, h.site)
Escapes(h) == h.lo < 0 \/ (SizeOf(h) # None /\ h.hi > SizeOf(h)[1])

\* Exit 0 with nothing allowlisted is a promise: no call the gate resolved writes outside
\* the object it was given.
CleanExitInBounds ==
  exit = 0 /\ project.allow = {} => \A h \in hits : Resolved(h) => ~Escapes(h)

\* Nothing in the program is beyond the gate: no opaque value, no constant that is assigned.
Plain ==
  \A j \in DOMAIN Fns : \A k \in DOMAIN Body(Fns[j]) :
    LET s == Body(Fns[j])[k]
        read == Leaves(s.e) \cup UNION {Leaves(s.args[i]) : i \in DOMAIN s.args}
    IN \A l \in read : l # Opaque /\ ~(l[1] = "ref" /\ l[2] \in GlobalAssigned /\
                                        \E m \in DOMAIN mods : l[2] \in DOMAIN mods[m].consts)

\* In a program the gate can read throughout, a finding whose conditions are all decided is a
\* write the program makes when it is run to the end: the gate does not cry wolf.
FindingsAreReal ==
  phase = "reported" /\ stack = <<>> /\ Plain =>
    \A w \in Findings : w.sure =>
      \E h \in hits : h.f = w.f /\ h.site = w.site /\ h.x = w.x /\ Escapes(h)
=============================================================================
