------------------------------ MODULE StackGate ------------------------------
(***************************************************************************)
(* scripts/check-stack-array-sizing.py: no write may land outside the      *)
(* array or scalar whose address it was given.  Each function is           *)
(* summarised by the writes it makes through its parameters, its callees'  *)
(* summaries included, until nothing changes; then every write that        *)
(* reaches an object is compared with the object's size.                   *)
(*                                                                         *)
(* A project is a sequence of modules in the order they are loaded.  Which *)
(* function is summarised or checked next is the order of the module list. *)
(***************************************************************************)
EXTENDS GateProgram

CONSTANTS
  Projects,     \* [mods, allow]: the modules scanned and the ALLOWLIST
  MaxDepth,     \* MAX_DEPTH: alias hops, lookups, summary rounds
  MaxEntries,   \* MAX_ENTRIES_PER_PARAM
  AddressTop    \* upper end of ADDR, 2^62 in the script

ASSUME DepthAssumption ==
  MaxDepth \in Nat \ {0} /\ MaxEntries \in Nat \ {0} /\ AddressTop \in Nat \ {0}

VARIABLES
  project,    \* what is scanned; never changes
  phase,      \* "summaries", "check" or "reported"
  turn,       \* position in the list of functions
  round,      \* summary rounds finished
  changed,    \* this round added an entry
  summary,    \* function -> parameter -> entries
  judged,     \* the writes compared with an object, and how
  skipped,    \* where a write was given up as not resolvable (history)
  exit        \* exit status, -1 before the report

gateVars == <<project, phase, turn, round, changed, summary, judged, skipped, exit>>

mods == project.mods
Fn(f) == mods[f[1]].fns[f[2]]
Body(f) == Fn(f).body
Fns == FlattenSeq([m \in DOMAIN mods |-> [i \in DOMAIN mods[m].fns |-> <<m, i>>]])
IsParam(f, x) == \E i \in DOMAIN Fn(f).params : Fn(f).params[i] = x

-----------------------------------------------------------------------------
(* analyse_fn: what a function says about its own names.                   *)

At(f, ops, x) == {k \in Positions(Body(f), ops) : Body(f)[k].x = x}

\* An array counts as two assignments: it is never a constant.
AssignCount(f, x) == 2 * Cardinality(At(f, {"array"}, x)) + Cardinality(At(f, {"let", "set"}, x))

SingleInit(f, x) == AssignCount(f, x) = 1 /\ At(f, {"let"}, x) # {}
InitOf(f, x) == Body(f)[Min(At(f, {"let"}, x))].e

\* Top-level `if (C) { ... return }` without an else.
Guards(b) ==
  {k \in Positions(b, {"if"}) :
     /\ Depth(b, k) = 0 /\ ~HasElse(b, k)
     /\ \E j \in k + 1 .. Close(b, k) - 1 : b[j].op = "return" /\ Depth(b, j) = 1}

\* path_conds: <<condition, required truth>> for control to reach a site.
PathConds(b, site) ==
  {<<b[k].e, FALSE>> : k \in {g \in Guards(b) : g < site}}
  \cup {<<b[k].e, TRUE>> : k \in {i \in Positions(b, {"if"}) : i < site /\ site < Close(b, i)}}
  \cup {<<b[k].e, FALSE>> : k \in {i \in Positions(b, {"if"}) :
          HasElse(b, i) /\ Close(b, i) <= site /\ site <= EndOf(b, i)}}

-----------------------------------------------------------------------------
(* Ctx and Parser: the value of an expression at a site.  A scope is       *)
(* [m, i, site]; i = 0 is the top level of module m.                       *)

Scope(f, k) == [m |-> f[1], i |-> f[2], site |-> k]
TopLevel(m) == [m |-> m, i |-> 0, site |-> 0]

OfKind(kind) == SelectSeq([j \in DOMAIN mods |-> j], LAMBDA j : mods[j].kind = kind)

\* The module itself, then src/, then lib/.
SearchOrder(m) == <<m>> \o OfKind("src") \o OfKind("lib")

\* Names assigned in some function, which are no constants anywhere.
GlobalAssigned ==
  UNION {{Body(Fns[j])[k].x : k \in Positions(Body(Fns[j]), {"set"})} : j \in DOMAIN Fns}

RECURSIVE Eval(_, _, _)

ConstValue(m, x, d) ==
  LET found == SelectSeq(SearchOrder(m), LAMBDA j : x \in DOMAIN mods[j].consts)
  IN IF d > MaxDepth \/ x \in GlobalAssigned \/ found = <<>> THEN None
     ELSE Eval(TopLevel(found[1]), mods[found[1]].consts[x], d + 1)

LargestInside(op, v) ==
  IF v = None THEN None ELSE Point(v[2] - (IF op = "<" THEN 1 ELSE 0))

\* The last conjunct of a loop's condition that bounds x, as the greatest x inside.
LoopBound(scope, cond, x, d) ==
  LET bounding == SelectSeq(Conjuncts(cond), LAMBDA c : c[1] \in {"<", "<="} /\ c[2] = Ref(x))
      inside == [j \in DOMAIN bounding |->
                   LargestInside(bounding[j][1], Eval(scope, bounding[j][3], d + 1))]
      known == SelectSeq(inside, LAMBDA v : v # None)
  IN IF known = <<>> THEN None ELSE Last(known)

IsStep(e, x) == Len(e) = 3 /\ e[1] = "+" /\ e[2] = Ref(x) /\ e[3][1] = "num" /\ e[3][2] > 0

Gcd(S) == Max({g \in 1 .. Max(S) : \A s \in S : s % g = 0})

\* Mutant: increments between the loop head and the site are not counted.
NoStepBefore(b, steps, k, site) == 0

StepsBefore(b, steps, k, site) ==
  FoldSet(LAMBDA j, n : n + b[j].e[3][2], 0, {j \in steps : k < j /\ j < site})

\* The values at a site of loop k of a counter that starts in start and stays up to top there.
CounterRange(b, steps, k, site, start, top) ==
  LET last == LastCount(start, top, Gcd({b[s].e[3][2] : s \in steps}))
  IN <<start[1], last + StepsBefore(b, steps, k, site)>>

\* bound: what each loop around the site says of x.
CounterAt(b, x, site, inits, steps, bound, start) ==
  LET usable == {k \in DOMAIN bound : bound[k] # None}
      counts == /\ usable # {} /\ Cardinality(inits) = 1 /\ steps # {}
                /\ \A s \in steps : IsStep(b[s].e, x)
  IN IF ~counts \/ start = None THEN None
     ELSE CounterRange(b, steps, Min(usable), site, start, bound[Min(usable)][1])

\* loop_counter: `var i = C; while (i < E) { ... i = i + K; }`, at a site inside.
LoopCounter(scope, x, d) ==
  LET f == <<scope.m, scope.i>>
      b == Body(f)
      loops == {k \in Positions(b, {"while"}) : k < scope.site /\ scope.site < Close(b, k)}
  IN CounterAt(b, x, scope.site, At(f, {"let"}, x), At(f, {"set"}, x),
               [k \in loops |-> LoopBound(scope, b[k].e, x, d)], Eval(scope, InitOf(f, x), d + 1))

Lookup(scope, x, d) ==
  LET f == <<scope.m, scope.i>>
  IN CASE scope.i = 0 -> ConstValue(scope.m, x, d + 1)
       [] SingleInit(f, x) -> Eval(scope, InitOf(f, x), d + 1)
       [] AssignCount(f, x) > 0 -> LoopCounter(scope, x, d)
       [] IsParam(f, x) -> None
       [] OTHER -> ConstValue(scope.m, x, d + 1)

Eval(scope, e, d) ==
  CASE d > MaxDepth \/ e[1] \in {"opaque", "iocsize"} -> None
    [] e[1] = "num" -> Point(e[2])
    [] e[1] = "addr" -> <<1, AddressTop>>
    [] e[1] = "ref" -> Lookup(scope, e[2], d + 1)
    [] OTHER -> Combine(e[1], Eval(scope, e[2], d), Eval(scope, e[3], d))

\* reachable: no condition is decided against what the site needs.
Reachable(scope, conds) ==
  \A c \in conds : Truth(Eval(scope, c[1], 0)) # (IF c[2] THEN "no" ELSE "yes")

-----------------------------------------------------------------------------
(* Pointers: decompose_ptr and resolve_base.                               *)

RECURSIVE PointerHead(_), PointerOffset(_)
PointerHead(e) == IF e[1] \in {"+", "-"} THEN PointerHead(e[2]) ELSE e
PointerOffset(e) == IF e[1] \in {"+", "-"} THEN Bin(e[1], PointerOffset(e[2]), e[3]) ELSE Num(0)

Decomposable(e) ==
  /\ PointerHead(e)[1] \in {"ref", "addr"}
  /\ \A l \in Leaves(PointerOffset(e)) : l[1] # "addr"

\* <<head, offset>> behind single-assignment aliases, or None.
RECURSIVE ResolveBase(_, _, _, _)
ResolveBase(f, e, extra, hops) ==
  LET head == PointerHead(e)
      off == Bin("+", PointerOffset(e), extra)
      alias == head[1] = "ref" /\ ~IsParam(f, head[2]) /\ SingleInit(f, head[2])
  IN CASE ~Decomposable(e) -> None
       [] alias /\ hops < MaxDepth -> ResolveBase(f, InitOf(f, head[2]), off, hops + 1)
       [] OTHER -> <<head, off>>

-----------------------------------------------------------------------------
(* fn_effects: every write a function makes.                               *)

StoreWidth == [store8 |-> 1, store16 |-> 2, store32 |-> 4, store64 |-> 8]

\* The bytes an ioctl copies back: the size field of a request that reads.
ReadFlag == 64
OutSize(request) == IF (request \div ReadFlag) % 2 = 1 THEN request % ReadFlag ELSE 0
IoctlSize(request) == <<"iocsize", request, Num(0)>>

\* <<pointer, width>> a system call writes through, x86_64 numbers.
KernelWrite(nr, a) ==
  CASE nr \in {0, 17} /\ Len(a) >= 4 -> <<a[3], a[4]>>              \* read, pread64
    [] nr = 318 /\ Len(a) >= 3 -> <<a[2], a[3]>>                    \* getrandom
    [] nr \in {228, 35} /\ Len(a) >= 3 -> <<a[3], Num(16)>>         \* clock_gettime, nanosleep
    [] nr = 96 /\ Len(a) >= 2 -> <<a[2], Num(16)>>                  \* gettimeofday
    [] nr = 16 /\ Len(a) >= 4 -> <<a[4], IoctlSize(a[3])>>          \* ioctl
    [] OTHER -> None

\* <<pointer, width>> a primitive writes through; nr is a system call's number.
PrimitiveWrite(s, nr) ==
  CASE s.x \in {"memset", "memcpy", "memmove"} /\ Len(s.args) = 3 -> <<s.args[1], s.args[3]>>
    [] s.x \in DOMAIN StoreWidth /\ Len(s.args) = 2 -> <<s.args[1], Num(StoreWidth[s.x])>>
    [] s.x = "syscall" /\ nr # None -> IF nr[1] = nr[2] THEN KernelWrite(nr[1], s.args) ELSE None
    [] OTHER -> None

\* resolve_fn: the module itself, then src/, then lib/.
ResolveFn(m, name) ==
  LET named(j) == {i \in DOMAIN mods[j].fns : mods[j].fns[i].name = name}
      found == SelectSeq(SearchOrder(m), LAMBDA j : named(j) # {})
  IN IF found = <<>> THEN None ELSE <<found[1], Min(named(found[1]))>>

Effect(k, ptr, extra, width, how, conds) ==
  [site |-> k, ptr |-> ptr, extra |-> extra, width |-> width, how |-> how, conds |-> conds]

\* The arguments of a call by the names of g's parameters.
Arguments(g, args) ==
  [x \in {Fn(g).params[j] : j \in DOMAIN Fn(g).params} |->
     LET j == Min({i \in DOMAIN Fn(g).params : Fn(g).params[i] = x})
     IN IF j <= Len(args) THEN args[j] ELSE Num(0)]

\* Mutant: the conditions a callee's write depends on are left behind.
ReexpressedWithoutConds(k, name, map, ptr, entry) ==
  Effect(k, ptr, Substitute(entry.off, map), Substitute(entry.width, map), name, {})

\* A callee's entry in the caller's arguments.
Reexpressed(k, name, map, ptr, entry) ==
  Effect(k, ptr, Substitute(entry.off, map), Substitute(entry.width, map), name,
         {<<Substitute(c[1], map), c[2]>> : c \in entry.conds})

CalleeEffects(k, g, args) ==
  FlattenSeq([p \in 1 .. Least(Len(args), Len(Fn(g).params)) |->
    [j \in DOMAIN summary[g][p] |->
       Reexpressed(k, Fn(g).name, Arguments(g, args), args[p], summary[g][p][j])]])

\* Call s at position k, which writes as direct says or is a call of g.
EffectsOf(k, s, direct, g) ==
  CASE direct # None -> <<Effect(k, direct[1], Num(0), direct[2], s.x, {})>>
    [] s.x = "syscall" \/ g = None -> <<>>
    [] OTHER -> CalleeEffects(k, g, s.args)

EffectsAt(f, k) ==
  LET s == Body(f)[k]
      nr == IF s.x = "syscall" /\ s.args # <<>> THEN Eval(Scope(f, k), s.args[1], 0) ELSE None
  IN EffectsOf(k, s, PrimitiveWrite(s, nr), ResolveFn(f[1], s.x))

FnEffects(f) ==
  FlattenSeq([k \in DOMAIN Body(f) |-> IF Body(f)[k].op = "call" THEN EffectsAt(f, k) ELSE <<>>])

-----------------------------------------------------------------------------
(* build_summaries.                                                        *)

\* expand_locals: single-assignment locals by their initialisers.
RECURSIVE Expand(_, _, _)
Expand(f, e, d) ==
  CASE d > MaxDepth -> None
    [] e[1] = "ref" /\ ~IsParam(f, e[2]) /\ SingleInit(f, e[2]) -> Expand(f, InitOf(f, e[2]), d + 1)
    [] Leaf(e) -> e
    [] OTHER -> LET a == Expand(f, e[2], d)  b == Expand(f, e[3], d)
                IN IF a = None \/ b = None THEN None ELSE <<e[1], a, b>>

\* An expanded expression over parameters that are never reassigned, or else its value v.
ParamExpr(f, full, v, keepUpper) ==
  LET leaves == Leaves(full)
      names == {l[2] : l \in {n \in leaves : n[1] \in {"ref", "addr"}}}
      params == {x \in names : IsParam(f, x) /\ AssignCount(f, x) = 0}
  IN CASE full = None -> None
       [] params = {} -> IF v = None \/ (~keepUpper /\ v[1] # v[2]) THEN None ELSE Num(v[2])
       [] OTHER -> IF Opaque \in leaves \/ \E x \in names \ params : ConstValue(f[1], x, 1) = None
                   THEN None ELSE full

\* to_param_expr.
ToParamExpr(f, k, e, keepUpper) ==
  ParamExpr(f, Expand(f, e, 0), Eval(Scope(f, k), e, 0), keepUpper)

WithRequest(request) == IF request = None THEN None ELSE IoctlSize(request)

ToParamWidth(f, k, e) ==
  IF e[1] = "iocsize" THEN WithRequest(ToParamExpr(f, k, e[2], FALSE))
  ELSE ToParamExpr(f, k, e, TRUE)

KeptConds(f, k, conds) ==
  {<<c, want>> \in {<<ToParamExpr(f, k, d[1], FALSE), d[2]>> : d \in conds} :
     c # None /\ \E l \in Leaves(c) : l[1] \in {"ref", "addr"}}

ParamIndex(f, x) == Min({i \in DOMAIN Fn(f).params : Fn(f).params[i] = x})

\* Where an effect of f goes: an entry of parameter p, nowhere, or given up.
Nowhere == [p |-> 0, skip |-> FALSE, entry |-> <<>>]
GivenUp == [p |-> 0, skip |-> TRUE, entry |-> <<>>]

OutcomeAt(f, k, base, conds, width) ==
  LET off == ToParamExpr(f, k, base[2], TRUE)
      bytes == ToParamWidth(f, k, width)
  IN CASE base = None -> GivenUp
       [] base[1][1] = "addr" -> Nowhere
       [] ~IsParam(f, base[1][2]) \/ AssignCount(f, base[1][2]) > 0 -> GivenUp
       [] ~Reachable(Scope(f, k), conds) -> Nowhere
       [] off = None \/ bytes = None -> GivenUp
       [] OTHER -> [p |-> ParamIndex(f, base[1][2]), skip |-> FALSE,
                    entry |-> [off |-> off, width |-> bytes, conds |-> KeptConds(f, k, conds)]]

Outcome(f, eff) ==
  OutcomeAt(f, eff.site, ResolveBase(f, eff.ptr, eff.extra, 0),
            eff.conds \cup PathConds(Body(f), eff.site), eff.width)

\* Mutant: an entry is added again each round.
KnownNever(entries, e) == FALSE

Known(entries, e) == \E j \in DOMAIN entries : entries[j] = e

\* One outcome merged into what the round has of a function so far.
Merge(acc, at, o) ==
  CASE o.p = 0 -> [acc EXCEPT !.skips = @ \cup (IF o.skip THEN {at} ELSE {})]
    [] Known(acc.params[o.p], o.entry) -> acc
    [] Len(acc.params[o.p]) >= MaxEntries -> [acc EXCEPT !.skips = @ \cup {at}]
    [] OTHER -> [acc EXCEPT !.params[o.p] = Append(@, o.entry), !.changed = TRUE]

\* One turn of the inner loop of build_summaries.
Summarise ==
  /\ phase = "summaries" /\ turn <= Len(Fns)
  /\ LET f == Fns[turn]
         after == FoldLeft(LAMBDA acc, eff : Merge(acc, <<f, eff.site>>, Outcome(f, eff)),
                           [params |-> summary[f], skips |-> {}, changed |-> changed], FnEffects(f))
     IN /\ summary' = [summary EXCEPT ![f] = after.params]
        /\ changed' = after.changed
        /\ skipped' = skipped \cup after.skips
  /\ turn' = turn + 1
  /\ UNCHANGED <<project, phase, round, judged, exit>>

\* Mutant: one round is taken to be enough.
OneMoreRoundNever == FALSE

AnotherRound == changed /\ round + 1 < MaxDepth

EndRound ==
  /\ phase = "summaries" /\ turn > Len(Fns)
  /\ round' = round + 1
  /\ changed' = FALSE
  /\ phase' = IF AnotherRound THEN "summaries" ELSE "check"
  /\ turn' = 1
  /\ UNCHANGED <<project, summary, judged, skipped, exit>>

-----------------------------------------------------------------------------
(* check and run.                                                          *)

SizeOfArray(count, width) ==
  IF count = None \/ count[1] # count[2] THEN None ELSE Point(count[1] * width)

\* object_for: the bytes of the object `&x` names at a site, or None.
ObjectSize(f, x, site) ==
  LET decls == At(f, {"array", "let"}, x)
      earlier == {k \in decls : k < site}
      k == IF earlier = {} THEN Min(decls) ELSE Max(earlier)
      global == mods[f[1]].arrays[x]
  IN CASE decls # {} /\ Body(f)[k].op = "let" -> Point(8)
       [] decls # {} -> SizeOfArray(Eval(Scope(f, k), Body(f)[k].e, 0), Body(f)[k].width)
       [] IsParam(f, x) \/ x \notin DOMAIN mods[f[1]].arrays -> None
       [] OTHER -> SizeOfArray(Eval(TopLevel(f[1]), global.e, 0), global.width)

\* eval_width.
OutSizeOf(request) ==
  IF request = None THEN None
  ELSE IF request[1] # request[2] THEN None ELSE Point(OutSize(request[1]))

EvalWidth(scope, e) ==
  IF e[1] = "iocsize" THEN OutSizeOf(Eval(scope, e[2], 0)) ELSE Eval(scope, e, 0)

\* The writes that check compares (none or one), and whether it gave up.
Compared(writes) == [writes |-> writes, skip |-> FALSE]
NotCompared == [writes |-> {}, skip |-> TRUE]

\* A write of w bytes at offset o from base into an object of the given size.
JudgeAt(f, eff, base, conds, size, o, w) ==
  LET scope == Scope(f, eff.site)
      sure == \A c \in conds : Truth(Eval(scope, c[1], 0)) # "maybe"
  IN CASE base = None -> NotCompared
       [] base[1][1] # "addr" -> Compared({})
       [] size = None -> NotCompared
       [] ~Reachable(scope, conds) -> Compared({})
       [] o = None \/ w = None -> NotCompared
       [] w[2] <= 0 -> Compared({})
       [] OTHER -> Compared({[f |-> f, site |-> eff.site, x |-> base[1][2], callee |-> eff.how,
                              lo |-> o[1], hi |-> o[2] + w[2], size |-> size[1], sure |-> sure]})

Judge(f, eff) ==
  LET scope == Scope(f, eff.site)
      base == ResolveBase(f, eff.ptr, eff.extra, 0)
  IN JudgeAt(f, eff, base, eff.conds \cup PathConds(Body(f), eff.site),
             ObjectSize(f, base[1][2], eff.site), Eval(scope, base[2], 0), EvalWidth(scope, eff.width))

Check ==
  /\ phase = "check" /\ turn <= Len(Fns)
  /\ LET f == Fns[turn]
         effs == IF mods[f[1]].kind = "lib" THEN <<>> ELSE FnEffects(f)
         verdicts == [j \in DOMAIN effs |-> Judge(f, effs[j])]
     IN /\ judged' = judged \cup UNION {verdicts[j].writes : j \in DOMAIN effs}
        /\ skipped' = skipped \cup {<<f, effs[j].site>> : j \in {i \in DOMAIN effs : verdicts[i].skip}}
  /\ turn' = turn + 1
  /\ UNCHANGED <<project, phase, round, changed, summary, exit>>

OutOfBounds(w) == w.lo < 0 \/ w.hi > w.size

Findings == {w \in judged : OutOfBounds(w)}
Key(w) == <<w.f, w.x, w.callee>>

\* An unlisted finding fails the gate, and so does a listed key that finds nothing.
Report ==
  /\ phase = "check" /\ turn > Len(Fns)
  /\ phase' = "reported"
  /\ exit' = IF /\ \A w \in Findings : Key(w) \in project.allow
                /\ \A key \in project.allow : \E w \in Findings : Key(w) = key
             THEN 0 ELSE 1
  /\ UNCHANGED <<project, turn, round, changed, summary, judged, skipped>>

GateInit ==
  /\ project \in Projects
  /\ phase = "summaries" /\ turn = 1 /\ round = 0 /\ changed = FALSE
  /\ summary = [f \in {Fns[j] : j \in DOMAIN Fns} |-> [p \in DOMAIN Fn(f).params |-> <<>>]]
  /\ judged = {} /\ skipped = {} /\ exit = -1

GateNext == Summarise \/ EndRound \/ Check \/ Report
=============================================================================
