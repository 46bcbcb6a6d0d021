------------------------------ MODULE SizingGate ------------------------------
(***************************************************************************)
(* scripts/check-compiler-buffer-sizing.py: the scratch buffers a caller   *)
(* of the compiler declares hold what the compiler writes into them for    *)
(* the capacities it is told.  The script reads lines: it looks for a call *)
(* of mir_mod_init on a line or across a line and the next, takes the      *)
(* lines between two `fn` headers for the function around it, and compares *)
(* the buffers declared there with the capacities of the call and of the   *)
(* compile context wired there.                                            *)
(*                                                                         *)
(* A line is [header, decls, frags, asserts, cap, store]: an `fn` header,  *)
(* the arrays it declares, the calls or parts of calls on it, the word     *)
(* "assert", the number stored as CC_CAP_IDS (-1: none), and the slot and  *)
(* buffer stored in a compile context (<<>>: none).                        *)
(***************************************************************************)
EXTENDS Integers, Sequences, FiniteSets, FiniteSetsExt

CONSTANT Sources      \* what is scanned: sequences of files, a file a sequence of lines

VARIABLES
  listing,    \* the files; never changes
  doc,        \* the file at hand
  row,        \* its next line
  consumed,   \* lines whose call was counted with the line before
  sites,      \* calls checked
  deficits,   \* what is reported
  outcome     \* exit status, -1 before the end

sizingVars == <<listing, doc, row, consumed, sites, deficits, outcome>>

lines == listing[doc]

Slots == {"CC_TYPES", "CC_CONSTS", "CC_DECO", "CC_OUTBI", "CC_ALLOC", "CC_ISEL", "CC_ISEL2",
          "CC_HW", "CC_ABI"}
Calls == [vals : STRING, instrs : STRING, ptrs : STRING,
          capInstrs : Nat, capPtrs : Nat, idBound : Nat, capIds : Nat]
Lines == [header : BOOLEAN, decls : Seq(STRING \X Nat),
          frags : Seq([part : {"entire", "opening", "closing"}, call : Calls]),
          asserts : BOOLEAN, cap : Nat \cup {-1}, store : {<<>>} \cup (Slots \X STRING)]

-----------------------------------------------------------------------------
(* A call and its parts.                                                   *)

Entire(c) == <<[part |-> "entire", call |-> c]>>
Opening(c) == <<[part |-> "opening", call |-> c]>>
Closing(c) == <<[part |-> "closing", call |-> c]>>

FirstOf(S) == {k \in S : \A j \in S : k <= j}

\* CALL.search: the first complete call of a line, as a set of at most one.
OnLine(ln) ==
  {ln.frags[k].call : k \in FirstOf({j \in DOMAIN ln.frags : ln.frags[j].part = "entire"})}

\* Of a line without one and the next: a call broken between them, or the first of the next line.
Across(ln, next) ==
  LET broken == /\ ln.frags # <<>> /\ ln.frags[Len(ln.frags)].part = "opening"
                /\ next.frags # <<>> /\ next.frags[1].part = "closing"
  IN IF broken THEN {next.frags[1].call} ELSE OnLine(next)

-----------------------------------------------------------------------------
(* enclosing_fn and decls_in_fn.                                           *)

\* Mutant: everything in front of the call.
EnclosingFnBackwards(ls, i) == 1 .. i

\* The lines of the function line i is in.
EnclosingFn(ls, i) ==
  Max({1} \cup {j \in 1 .. i : ls[j].header}) ..
  Min({Len(ls)} \cup {j - 1 : j \in {k \in i + 1 .. Len(ls) : ls[k].header}})

SizesIn(ls, range, name) ==
  UNION {{ls[j].decls[k][2] : k \in {d \in DOMAIN ls[j].decls : ls[j].decls[d][1] = name}} : j \in range}

-----------------------------------------------------------------------------
(* What a call site needs.                                                 *)

\* The record sizes the script mirrors.
Record ==
  [vals |-> 40, instrs |-> 32, ptrs |-> 32, CC_TYPES |-> 24, CC_CONSTS |-> 16, CC_DECO |-> 16,
   CC_OUTBI |-> 8, CC_ALLOC |-> 16, CC_ISEL |-> 48, CC_ISEL2 |-> 48]

IselCap == 256

\* The last literal capacity stored in the function, or the one of the call.
DeclaredCap(ls, range, call) ==
  LET stored == {j \in range : ls[j].cap >= 0}
  IN IF stored = {} THEN call.capIds ELSE ls[Max(stored)].cap

\* Mutant: the context's capacity sizes every buffer of it.
NeedOfSlotByContext(ls, range, call, slot) == DeclaredCap(ls, range, call) * Record[slot]

NeedOfSlot(ls, range, call, slot) ==
  CASE slot \in {"CC_ISEL", "CC_ISEL2"} -> IselCap * Record[slot]
    [] slot = "CC_ALLOC" -> call.capIds * Record[slot]
    [] OTHER -> DeclaredCap(ls, range, call) * Record[slot]

\* <<buffer, bytes>> that check is asked about.
Needs(ls, range, call) ==
  {<<call.vals, call.capIds * Record.vals>>, <<call.instrs, call.capInstrs * Record.instrs>>,
   <<call.ptrs, call.capPtrs * Record.ptrs>>}
  \cup {<<ls[j].store[2], NeedOfSlot(ls, range, call, ls[j].store[1])>> :
          j \in {k \in range : ls[k].store # <<>> /\ ls[k].store[1] \in DOMAIN Record}}

\* A buffer declared elsewhere is left alone; of two declarations the larger one counts.
Deficits(i, call) ==
  LET range == EnclosingFn(lines, i)
      have(name) == SizesIn(lines, range, name)
  IN {[doc |-> doc, row |-> i, name |-> n[1], have |-> Max(have(n[1])), need |-> n[2]] :
        n \in {m \in Needs(lines, range, call) : have(m[1]) # {} /\ Max(have(m[1])) < m[2]}}
     \cup {[doc |-> doc, row |-> i, name |-> "id_bound", have |-> call.capIds, need |-> b] :
             b \in {call.idBound} \cap (call.capIds + 1 .. call.idBound)}

-----------------------------------------------------------------------------
(* main.                                                                   *)

\* Mutant: a call that was found across two lines is found again.
ConsumesNothing(i) == {}

Consumes(i) == {i + 1}

\* What is found at line i: the call, the lines it was found on.
Probe(i) ==
  LET direct == OnLine(lines[i])
      next == IF i < Len(lines) THEN Across(lines[i], lines[i + 1]) ELSE {}
  IN IF direct # {} THEN [calls |-> direct, rows |-> {i}, eats |-> {}]
     ELSE [calls |-> next, rows |-> {i, i + 1} \cap DOMAIN lines,
           eats |-> IF next = {} THEN {} ELSE Consumes(i)]

\* One turn of the loop over the lines; a call inside an assertion is skipped.
ScanLine ==
  /\ outcome = -1 /\ row <= Len(lines)
  /\ LET p == Probe(row)
         found == IF row \in consumed THEN {} ELSE p.calls
         checked == {c \in found : \A j \in p.rows : ~lines[j].asserts}
     IN /\ consumed' = IF row \in consumed THEN consumed ELSE consumed \cup p.eats
        /\ sites' = sites + Cardinality(checked)
        /\ deficits' = deficits \cup UNION {Deficits(row, c) : c \in checked}
  /\ row' = row + 1
  /\ UNCHANGED <<listing, doc, outcome>>

NextFile ==
  /\ outcome = -1 /\ row > Len(lines)
  /\ IF doc < Len(listing)
     THEN doc' = doc + 1 /\ row' = 1 /\ UNCHANGED outcome
     ELSE doc' = doc /\ row' = row /\ outcome' = IF deficits = {} THEN 0 ELSE 1
  /\ consumed' = {}
  /\ UNCHANGED <<listing, sites, deficits>>

SizingInit ==
  /\ listing \in Sources
  /\ doc = 1 /\ row = 1 /\ consumed = {} /\ sites = 0 /\ deficits = {} /\ outcome = -1

SizingNext == ScanLine \/ NextFile

SizingSpec == SizingInit /\ [][SizingNext]_sizingVars

-----------------------------------------------------------------------------
(* The functions as the compiler sees them, and what they write when they  *)
(* run the pipeline.                                                       *)

BodyFrom(ls, h) == {j \in h .. Len(ls) : \A k \in h + 1 .. j : ~ls[k].header}

CallsFrom(ls, body) ==
  UNION {{ls[j].frags[k].call : k \in {i \in DOMAIN ls[j].frags : ls[j].frags[i].part # "closing"}} :
         j \in {i \in body : ~ls[i].asserts}}

\* The capacity in the compile context of a function.
ContextCap(ls, body) == Max({ls[j].cap : j \in body})

\* Bytes per id of the tables that are filled up to the capacity of the context.
TableStride == [CC_TYPES |-> 24, CC_CONSTS |-> 16, CC_DECO |-> 16, CC_OUTBI |-> 8]

\* mir_mod_init clears the values, lowering appends instructions and pointers.
ModuleWrites(c) == {<<c.vals, c.capIds * 40>>, <<c.instrs, c.capInstrs * 32>>, <<c.ptrs, c.capPtrs * 32>>}

\* gfx9_compile: the tables, the two instruction lists, and the allocation, which has one record
\* for every id of the module header.  The fixed-size slots (CC_HW, CC_ABI) are left out.
SlotBytes(ls, body, c, slot) ==
  CASE slot \in DOMAIN TableStride -> ContextCap(ls, body) * TableStride[slot]
    [] slot = "CC_ALLOC" -> c.capIds * 16
    [] slot \in {"CC_ISEL", "CC_ISEL2"} -> 256 * 48
    [] OTHER -> 0

ContextWrites(ls, body, c) ==
  {<<ls[j].store[2], SlotBytes(ls, body, c, ls[j].store[1])>> : j \in {k \in body : ls[k].store # <<>>}}

\* <<call, buffer, bytes>> of everything the functions of a file may write.
PipelineWrites(ls) ==
  UNION {LET body == BodyFrom(ls, h)
         IN UNION {{<<h, w[1], w[2]>> : w \in ModuleWrites(c) \cup ContextWrites(ls, body, c)} :
                   c \in CallsFrom(ls, body)} : h \in {j \in DOMAIN ls : ls[j].header}}

DeclaredSizes(ls, h, name) == SizesIn(ls, BodyFrom(ls, h), name)

-----------------------------------------------------------------------------
(* The form of the sources.  The script reads lines where the compiler     *)
(* reads text; what it says holds for files that keep to this form, as     *)
(* every literal call in the repository does.                              *)

HoldsPart(ln, part) == ln.frags # <<>> /\ ln.frags[1].part = part

\* At most one call, or part of one, to a line, below the header of its function.
CallsInFunctions(ls) ==
  \A j \in DOMAIN ls : ls[j].frags # <<>> =>
    Len(ls[j].frags) = 1 /\ ~ls[j].header /\ \E h \in 1 .. j : ls[h].header

\* A broken call ends on the next line, which does not alone assert.
CallsEndNext(ls) ==
  \A j \in DOMAIN ls :
    /\ HoldsPart(ls[j], "opening") =>
         /\ j + 1 \in DOMAIN ls /\ ls[j + 1].frags = Closing(ls[j].frags[1].call)
         /\ ls[j + 1].asserts => ls[j].asserts
    /\ HoldsPart(ls[j], "closing") => j - 1 \in DOMAIN ls /\ HoldsPart(ls[j - 1], "opening")

\* The word "assert" stands with the call it is about, not in a line before one.
AssertsWithCall(ls) ==
  \A j \in DOMAIN ls :
    ls[j].asserts /\ ls[j].frags = <<>> /\ j + 1 \in DOMAIN ls => ~HoldsPart(ls[j + 1], "entire")

\* A function stores one capacity, if it wires a table.
OneCapacity(ls) ==
  \A h \in DOMAIN ls : ls[h].header =>
    /\ \A i, j \in BodyFrom(ls, h) : ls[i].cap >= 0 /\ ls[j].cap >= 0 => ls[i].cap = ls[j].cap
    /\ \A i \in BodyFrom(ls, h) : ls[i].store # <<>> /\ ls[i].store[1] \in DOMAIN TableStride =>
         \E j \in BodyFrom(ls, h) : ls[j].cap >= 0

ASSUME SourcesAssumption ==
  \A files \in Sources : files \in Seq(Seq(Lines)) \ {<<>>} /\ \A d \in DOMAIN files :
    /\ CallsInFunctions(files[d]) /\ CallsEndNext(files[d])
    /\ AssertsWithCall(files[d]) /\ OneCapacity(files[d])

-----------------------------------------------------------------------------
(* Properties.                                                             *)

\* Exit 0: no function writes past the end of a buffer it declares (once), wherever in it the
\* declarations, the call and the wiring of the context stand.
CleanExitSized ==
  outcome = 0 =>
    \A d \in DOMAIN listing : \A w \in PipelineWrites(listing[d]) :
      \A size \in DeclaredSizes(listing[d], w[1], w[2]) :
        Cardinality(DeclaredSizes(listing[d], w[1], w[2])) = 1 => w[3] <= size

\* A deficit names a buffer of the function that makes the call, at its size, and bytes that
\* function writes: the buffers of the functions around it are not held against it.
DeficitsAreReal ==
  \A p \in deficits : p.name # "id_bound" =>
    \E w \in PipelineWrites(listing[p.doc]) :
      /\ w[2] = p.name /\ w[3] = p.need
      /\ p.have \in DeclaredSizes(listing[p.doc], w[1], p.name)
      /\ \A size \in DeclaredSizes(listing[p.doc], w[1], p.name) : size < p.need

SitesOf(ls) ==
  UNION {{<<j, k>> : k \in {i \in DOMAIN ls[j].frags : ls[j].frags[i].part # "closing"}} :
         j \in {i \in DOMAIN ls : ~ls[i].asserts}}

\* Every call outside an assertion is counted once, however it is broken over lines.
EverySiteOnce ==
  outcome # -1 => sites = Cardinality(UNION {{<<d, s>> : s \in SitesOf(listing[d])} : d \in DOMAIN listing})
=============================================================================
