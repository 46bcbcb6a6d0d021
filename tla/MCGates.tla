------------------------------- MODULE MCGates -------------------------------
(***************************************************************************)
(* What the three source gates of the Makefile are run on, and the         *)
(* specification that runs one of them.                                    *)
(***************************************************************************)
EXTENDS StackRun, WriteGate, SizingGate

CONSTANTS
  Scripts,     \* the gates run, of "stack", "write" and "sizing"
  Families     \* of programs for the stack gate

-----------------------------------------------------------------------------
(* Programs for the stack gate: a function w that writes through its       *)
(* parameter, a function f that may stand between it and its caller, and   *)
(* the caller t, each filled from a short list of forms.                   *)

P == Ref("p")
N == Ref("n")
Plus(a, b) == Bin("+", a, b)
Times(a, b) == Bin("*", a, b)
Eq(a, b) == Bin("==", a, b)
Clear(p, n) == Call("memset", <<p, Num(0), n>>)
Store64(p) == Call("store64", <<p, Num(1)>>)

Kernel ==
  [kind |-> "lib", fns |-> <<>>, arrays |-> <<>>,
   consts |-> "SYS_READ" :> Num(0) @@ "SYS_IOCTL" :> Plus(Ref("SYS_READ"), Num(16))
              @@ "CLOCK_GETTIME" :> Num(228)]

\* Returns in front of the write of w.
GuardForms ==
  {<<>>,
   If(Eq(N, Num(0)), Return), If(Bin(">", N, Num(4)), Return),
   If(Bin("||", Eq(P, Num(0)), Bin("<", N, Num(4))), Return),
   If(Eq(N, Ref("LIMIT")), Return)}

Forms ==
  [memset |-> Clear(P, N),
   store |-> Store64(Plus(P, N)),
   either |-> IfElse(Bin("<=", N, Num(4)), Clear(P, Num(8)), Store64(Plus(P, Num(8)))),
   upto |-> Let("i", Num(0)) \o While(Bin("<", Ref("i"), N),
              Call("store32", <<Plus(P, Ref("i")), Num(0)>>) \o Assign("i", Plus(Ref("i"), Num(4)))),
   pair |-> Let("i", Num(0)) \o While(Bin("<", Ref("i"), Num(2)),
              Store64(Plus(P, Times(Ref("i"), Num(8)))) \o Assign("i", Plus(Ref("i"), Num(1)))),
   alias |-> Let("q", Plus(P, Num(8))) \o Store64(Plus(Ref("q"), N)),
   clock |-> Call("syscall", <<Ref("CLOCK_GETTIME"), Num(1), P>>),
   ioctl |-> Call("syscall", <<Ref("SYS_IOCTL"), Num(3), N, P>>),
   read |-> Call("syscall", <<Ref("SYS_READ"), Num(0), P, N>>),
   named |-> Clear(P, Ref("SIZE")),
   regrown |-> Assign("n", Plus(N, Num(4))) \o Clear(P, N)]

W(guard, form) == Function("w", <<"p", "n">>, guard \o Forms[form])

CallW(p, n) == Call("w", <<p, n>>)

Forwarders ==
  {CallW(P, N), If(Eq(N, Num(8)), CallW(P, N)),
   Let("m", Plus(N, Num(4))) \o CallW(Plus(P, Num(4)), Ref("m")),
   IfElse(Eq(N, Num(0)), CallW(P, Num(8)), CallW(Plus(P, N), Num(4))),
   CallW(P, N) \o CallW(Plus(P, Num(8)), N),
   If(Bin(">=", N, Num(8)), Return) \o CallW(P, Num(4)) \o Return}

\* The caller: how the object and the number reach the call of g.
Callers(g, n) ==
  LET a == Array("a", Num(16))
      to(p) == Call(g, <<p, n>>)
      i == Ref("i")
      advance(k) == Assign("i", Plus(i, Num(k)))
  IN [direct |-> a \o to(AddressOf("a")),
      alias |-> a \o Let("q", Plus(AddressOf("a"), Num(8))) \o to(Ref("q")),
      loop |-> a \o Let("i", Num(0)) \o While(Bin("<", i, Num(2)),
                 to(Plus(AddressOf("a"), Times(i, Num(8)))) \o advance(1)),
      counted |-> a \o Let("i", Num(0)) \o While(Bin("<", i, Num(10)),
                 advance(4) \o Call(g, <<AddressOf("a"), i>>)),
      branch |-> a \o IfElse(Eq(n, Num(8)), to(Plus(AddressOf("a"), Num(8))), to(AddressOf("a"))),
      scalar |-> Let("r", Num(0)) \o to(AddressOf("r")),
      below |-> a \o to(Bin("-", AddressOf("a"), Num(4))),
      guarded |-> a \o If(Bin("<", n, Num(8)), Return) \o to(AddressOf("a")),
      chosen |-> a \o Let("k", n) \o If(Bin("&&", Ref("k"), Bin("<=", Ref("k"), Num(8))),
                 Call(g, <<AddressOf("a"), Ref("k")>>)),
      typed |-> TypedArray("b", Num(2), 8) \o to(AddressOf("b")),
      global |-> to(AddressOf("A"))]

\* src/ holds w and f in either order, a constant and one that some function changes.
Library(fns) ==
  [kind |-> "src", arrays |-> <<>>,
   fns |-> fns \o <<Function("tune", <<>>, Assign("LIMIT", Num(8)))>>,
   consts |-> "SIZE" :> Num(20) @@ "LIMIT" :> Num(4)]

Test(body) ==
  [kind |-> "tests", fns |-> <<Function("t", <<>>, body)>>, consts |-> <<>>,
   arrays |-> "A" :> [e |-> Num(2), width |-> 8]]

Project(fns, body) == [mods |-> <<Kernel, Library(fns), Test(body)>>, allow |-> {}]

Numbers == {Num(0), Num(4), Num(8), Num(16), Opaque}
Requests == {Num(24), Num(ReadFlag + 8), Num(ReadFlag + 24), Opaque}

Written(form) == IF form = "ioctl" THEN Requests ELSE Numbers

\* Every form behind every guard, called straight away.
Guarded ==
  UNION {{Project(<<W(g, form)>>, Callers("w", n).direct) : g \in GuardForms, n \in Written(form)} :
         form \in DOMAIN Forms}

\* Every form through every forwarder, declared before or behind it.
Forwarded ==
  UNION {UNION {LET w == W(<<>>, form)
                    f == Function("f", <<"p", "n">>, fwd)
                IN {Project(fns, Callers("f", n).direct) : fns \in {<<w, f>>, <<f, w>>}, n \in Written(form)} :
                form \in DOMAIN Forms} : fwd \in Forwarders}

\* A few forms called in every way.
Called ==
  UNION {{Project(<<W(g, form)>>, Callers("w", n)[style]) :
           g \in {<<>>, If(Bin(">", N, Num(4)), Return)}, n \in Numbers, form \in {"memset", "store", "alias"}} :
         style \in DOMAIN Callers("w", Num(0))}

\* A known finding on the list, and a listed key that may find nothing.
Listed ==
  {[Project(<<W(<<>>, "memset")>>, Callers("w", n).direct) EXCEPT !.allow = {<<<<3, 1>>, "a", "w">>}] :
     n \in {Num(16), Num(20)}}

\* A write inside the block of a guard that returns.
Early ==
  {Project(<<W(If(Eq(N, Num(64)), Clear(P, N) \o Return), "store")>>, Callers("w", n).direct) :
     n \in {Num(8), Num(64)}}

Family(name) ==
  CASE name = "guarded" -> Guarded
    [] name = "forwarded" -> Forwarded
    [] name = "called" -> Called
    [] name = "listed" -> Listed
    [] name = "early" -> Early

AllProjects == UNION {Family(name) : name \in Families}

-----------------------------------------------------------------------------
(* Trees for the write gate: a chain top -> mid -> out -> write over one   *)
(* or several files in every order, or one write of a literal.             *)

Char(code, bytes) == Piece("char", code, bytes)
A == Char(97, 1)
CallOf(f, args) == [callee |-> f, args |-> args]
Fun(name, params, calls) == [name |-> name, params |-> params, calls |-> calls]
SourceFile(strict, lib, fns) == [strict |-> strict, lib |-> lib, fns |-> fns, texts |-> <<>>]

Literals ==
  {<<>>, <<A, Piece("simple", 10, 1)>>, <<Char(233, 2)>>, <<Char(8364, 3)>>,
   <<Piece("hex", 65, 1), A>>, <<Piece("unicode", 65, 1)>>, <<Piece("unicode", 233, 2)>>,
   <<Piece("unicode", 128512, 4), A>>, <<A, Piece("malformed", 0, 0)>>}

Counted == {Digits(n) : n \in 0 .. 5} \cup {HexDigits(2), Computed, Name("n")}

Writes ==
  {CallOf("syscall", <<Digits(1), Digits(2), Name("s"), Name("n")>>),
   CallOf("syscall", <<Name("SYS_WRITE"), Digits(1), Name("n"), Name("s")>>),
   CallOf("syscall", <<Digits(0), Digits(1), Name("s"), Name("n")>>),
   CallOf("sys_write", <<Digits(1), Name("s"), Name("n")>>),
   CallOf("sys_write", <<Digits(1), Name("s"), Computed>>)}

Through(f, params) ==
  CallOf(f, [i \in DOMAIN params |-> IF params[i] = "x" THEN Computed ELSE Name(params[i])])

Word == Literal(<<A, A>>, FALSE)

ChainTrees(p, q, r, write) ==
  LET out == Fun("out", p, <<write>>)
      mid == Fun("mid", q, <<CallOf("strlen", <<Name("s")>>), Through("out", p)>>)
      top == Fun("top", r, <<Through("mid", q)>>)
      use == Fun("main", <<>>, <<CallOf("top", <<Word, Digits(2)>>), CallOf("mid", <<Word, Digits(3)>>)>>)
  IN {<<SourceFile(TRUE, FALSE, <<use, top, mid, out>>)>>,
      <<SourceFile(FALSE, FALSE, <<use, top, mid, out>>)>>,
      <<SourceFile(TRUE, FALSE, <<out, mid, top, use>>)>>,
      <<[SourceFile(TRUE, FALSE, <<top, use>>) EXCEPT !.texts = <<Literal(<<A>>, TRUE)>>],
        SourceFile(FALSE, TRUE, <<mid, out>>)>>,
      <<SourceFile(FALSE, TRUE, <<mid>>), SourceFile(FALSE, TRUE, <<out, top>>),
        SourceFile(FALSE, FALSE, <<use>>)>>}

Orders == {<<"s", "n">>, <<"n", "s">>}
AllTrees ==
  UNION {ChainTrees(p, q, r, w) : p \in Orders \cup {<<"x", "s", "n">>, <<"s">>}, q \in Orders, r \in Orders, w \in Writes}
  \cup {<<SourceFile(strict, ~strict,
          <<Fun("main", <<>>, <<CallOf("sys_write", <<Digits(1), Literal(l, FALSE), n>>)>>)>>)>> :
          l \in Literals, n \in Counted, strict \in BOOLEAN}

-----------------------------------------------------------------------------
(* Files for the sizing gate: one or two functions that declare buffers in *)
(* front of or behind the call, broken over lines or not.                  *)

Blank == [header |-> FALSE, decls |-> <<>>, frags |-> <<>>, asserts |-> FALSE, cap |-> -1, store |-> <<>>]
FnLine == [Blank EXCEPT !.header = TRUE]
Decl(x, n) == [Blank EXCEPT !.decls = <<<<x, n>>>>]
CallLine(frags) == [Blank EXCEPT !.frags = frags]
Asserted(frags) == [CallLine(frags) EXCEPT !.asserts = TRUE]

MirCall(bound, ids) ==
  [vals |-> "vals", instrs |-> "instrs", ptrs |-> "ptrs",
   capInstrs |-> 2, capPtrs |-> 1, idBound |-> bound, capIds |-> ids]

Broken(c) ==
  {<<CallLine(Entire(c))>>, <<Blank, CallLine(Entire(c))>>, <<CallLine(Opening(c)), CallLine(Closing(c))>>,
   <<Blank, CallLine(Opening(c)), CallLine(Closing(c))>>, <<Asserted(Entire(c)), Blank>>,
   <<Blank, Asserted(Entire(c)), Blank>>}

Buffers(v, i) == <<[Blank EXCEPT !.decls = <<<<"vals", v>>, <<"instrs", i>>>>], Decl("ptrs", 32)>>

Wired ==
  {<<[Blank EXCEPT !.cap = cap], [Blank EXCEPT !.store = <<s[1], "buf">>], Decl("buf", s[2])>> :
     cap \in {2, 6},
     s \in {<<"CC_ALLOC", 32>>, <<"CC_ALLOC", 64>>, <<"CC_ALLOC", 96>>, <<"CC_TYPES", 48>>, <<"CC_TYPES", 144>>,
            <<"CC_OUTBI", 32>>, <<"CC_OUTBI", 48>>, <<"CC_ISEL", 12288>>, <<"CC_ISEL2", 12000>>, <<"CC_ABI", 8>>}}

Alone ==
  {<<FnLine>> \o Buffers(v, i) \o call \o wired :
     v \in {159, 160}, i \in {63, 64}, call \in Broken(MirCall(4, 4)) \cup Broken(MirCall(5, 4)), wired \in {<<>>} \cup Wired}
DeclaredBehind ==
  {<<FnLine, Blank>> \o call \o Buffers(v, 64) : v \in {159, 160}, call \in Broken(MirCall(4, 4))}
Neighbours ==
  {<<FnLine>> \o Buffers(v, 64) \o one \o <<FnLine>> \o pre \o <<Blank>> \o two \o post :
     v \in {120, 160}, one \in Broken(MirCall(4, 4)), two \in Broken(MirCall(5, 5)),
     pre \in {<<>>, Buffers(200, 64)}, post \in {<<>>, Buffers(199, 64)}}

AllSources ==
  {<<f>> : f \in Alone \cup DeclaredBehind \cup Neighbours}
  \cup {<<f, g>> : f \in DeclaredBehind, g \in DeclaredBehind}

-----------------------------------------------------------------------------
(* One script is run; the others have nothing to do.                       *)

VARIABLE script

Vars == <<script, gateVars, runVars, writeVars, sizingVars>>

StackIdle ==
  /\ project = [mods |-> <<>>, allow |-> {}] /\ phase = "reported" /\ turn = 1 /\ round = 0 /\ changed = FALSE
  /\ summary = <<>> /\ judged = {} /\ skipped = {} /\ exit = -1
  /\ stack = <<>> /\ frames = 0 /\ globals = <<>> /\ hits = {}
WriteIdle ==
  /\ tree = <<>> /\ file = 1 /\ step = "done" /\ table = 0 /\ place = 1
  /\ wrappers = <<>> /\ grew = FALSE /\ problems = {} /\ status = -1
SizingIdle ==
  /\ listing = <<>> /\ doc = 1 /\ row = 1 /\ consumed = {} /\ sites = 0 /\ deficits = {} /\ outcome = 0

Init ==
  /\ script \in Scripts
  /\ IF script = "stack" THEN StackInit ELSE StackIdle
  /\ IF script = "write" THEN WriteInit ELSE WriteIdle
  /\ IF script = "sizing" THEN SizingInit ELSE SizingIdle

StackTurn == StackNext /\ UNCHANGED <<script, writeVars, sizingVars>>
WriteTurn == WriteNext /\ UNCHANGED <<script, gateVars, runVars, sizingVars>>
SizingTurn == SizingNext /\ UNCHANGED <<script, gateVars, runVars, writeVars>>

Next == StackTurn \/ WriteTurn \/ SizingTurn

Ended ==
  /\ phase = "reported" /\ stack = <<>> /\ step = "done" /\ outcome # -1
  /\ UNCHANGED Vars

\* A script runs until it ends.
Spec == Init /\ [][Next \/ Ended]_Vars /\ WF_Vars(WriteTurn) /\ WF_Vars(SizingTurn)

\* The write gate and the sizing gate come to their report: looking for wrappers again as long
\* as a pass finds one does not go on for ever, in whatever order the files call each other.
GatesReport == <>(step = "done" /\ outcome # -1)
=============================================================================
