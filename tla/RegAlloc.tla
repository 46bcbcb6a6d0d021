------------------------------ MODULE RegAlloc ------------------------------
(***************************************************************************)
(* gfx9_regalloc (src/src/gfx9_regalloc.cyr): the linear scan that gives   *)
(* every SSA value of a selected instruction list a physical register, or  *)
(* an even-aligned pair for a 64-bit value, in the scalar or the vector    *)
(* file.  Three passes over the list: live intervals, their extension over *)
(* loops until a round changes nothing, and the allocation.                *)
(*                                                                         *)
(* Positions are 1 .. Len(code) where the source counts steps from 0.      *)
(***************************************************************************)
EXTENDS ShaderIR

VARIABLES
  code,      \* the selected list (isel)
  vals,      \* the value table (m)
  files,     \* first allocatable register and ceiling of each file
  pass,      \* "intervals", "loops", "assign", "done" or an error
  at,        \* the loop counter of the pass
  lastUse,   \* last use of every <id>, 0 if none
  changed,   \* a round of the loop pass has extended an interval
  rounds,    \* rounds of the loop pass completed
  reg,       \* the register of every <id>
  freeAt,    \* per file and register, the position its occupant is dead from
  hw         \* high-water mark of each file

raInputs == <<code, vals, files>>
raVars == <<code, vals, files, pass, at, lastUse, changed, rounds, reg, freeAt, hw>>

FileNames == {"s", "v"}
Regs == 0 .. MaxRegs - 1
NoReg == -1
FileSpecs == [base : Nat, cap : 0 .. MaxRegs]

RegAllocTypeOK ==
  /\ code \in Seq(Selected)
  /\ vals \in [Ids -> Values]
  /\ files \in [FileNames -> FileSpecs]
  /\ pass \in {"intervals", "loops", "assign", "done", "SGPR_OVERFLOW", "VGPR_OVERFLOW"}
  /\ at \in Nat \ {0}
  /\ lastUse \in [Ids -> Nat]
  /\ changed \in BOOLEAN
  /\ rounds \in Nat
  /\ reg \in [Ids -> Regs \cup {NoReg}]
  /\ freeAt \in [FileNames -> [Regs -> Nat]]
  /\ hw \in [FileNames -> Nat]

Steps == 1 .. Len(code)
Tracked(v) == v \in Ids /\ vals[v].kind = "SSA"

\* The SSA values instruction i defines and reads.
Defines(i, v) == Tracked(v) /\ code[i].dst = v
Reads(i, v) == Tracked(v) /\ v \in IdOperands(code[i])

\* The label a branch of the loop pass names: S_BRANCH keeps it in a,
\* S_CBRANCH in c.  S_CBRANCH_EXECZ is not looked at.
TargetLabel(i) == IF code[i].op = "S_CBRANCH" THEN code[i].c ELSE code[i].a

\* t is the first LABEL with that name and precedes the branch at i.
BackEdge(t, i) ==
  /\ t \in Steps /\ i \in Steps /\ t < i
  /\ code[i].op \in {"S_BRANCH", "S_CBRANCH"}
  /\ code[t].op = "LABEL" /\ code[t].a = TargetLabel(i)
  /\ \A j \in 1 .. t - 1 : ~ (code[j].op = "LABEL" /\ code[j].a = TargetLabel(i))

FileOf(i) == IF ResultIsVgpr(vals, code[i]) THEN "v" ELSE "s"
Width(v) == IF vals[v].type = "F64" THEN 2 ELSE 1

RegAllocInit ==
  /\ pass = "intervals" /\ at = 1
  /\ lastUse = [v \in Ids |-> 0]
  /\ changed = FALSE /\ rounds = 0
  /\ reg = [v \in Ids |-> NoReg]
  /\ freeAt = [f \in FileNames |-> [r \in Regs |-> 0]]
  /\ hw = [f \in FileNames |-> files[f].base]

-----------------------------------------------------------------------------
(* Pass 1: an interval reaches the last definition or use in the text.     *)

\* Mutant: a use does not extend the interval past the definition.
TouchDefOnly(i) == [v \in Ids |-> IF Defines(i, v) THEN i ELSE lastUse[v]]

\* The interval ends after instruction i is scanned (_ra_use).
Touch(i) == [v \in Ids |-> IF Defines(i, v) \/ Reads(i, v) THEN i ELSE lastUse[v]]

ScanIntervals ==
  /\ pass = "intervals" /\ at \in Steps
  /\ lastUse' = Touch(at)
  /\ at' = at + 1
  /\ UNCHANGED <<raInputs, pass, changed, rounds, reg, freeAt, hw>>

IntervalsScanned ==
  /\ pass = "intervals" /\ at \notin Steps
  /\ pass' = IF code = <<>> THEN "assign" ELSE "loops"
  /\ at' = 1
  /\ UNCHANGED <<raInputs, lastUse, changed, rounds, reg, freeAt, hw>>

-----------------------------------------------------------------------------
(* Loop pass: a value whose interval ends inside a loop lives to its end.  *)

\* Mutant: an interval that reaches past the loop is cut back to its end.
CutBack(v, t, i) == t <= lastUse[v]

\* The values the back edge t <- i extends.
EndsInLoop(v, t, i) == t <= lastUse[v] /\ lastUse[v] < i

\* Mutant: the interval stops before the branch that closes the loop.
ExtendedShort(i) ==
  LET starts == {t \in Steps : BackEdge(t, i)}
  IN [v \in Ids |-> IF \E t \in starts : EndsInLoop(v, t, i) THEN i - 1 ELSE lastUse[v]]

\* The intervals after the branch at i is looked at.
Extended(i) ==
  LET starts == {t \in Steps : BackEdge(t, i)}
  IN [v \in Ids |-> IF \E t \in starts : EndsInLoop(v, t, i) THEN i ELSE lastUse[v]]

ExtendOverLoop ==
  /\ pass = "loops" /\ at \in Steps
  /\ lastUse' = Extended(at)
  /\ changed' = (changed \/ lastUse' # lastUse)
  /\ at' = at + 1
  /\ UNCHANGED <<raInputs, pass, rounds, reg, freeAt, hw>>

\* Another round only after one that changed something, at most Len(code).
RoundEnds ==
  /\ pass = "loops" /\ at \notin Steps
  /\ at' = 1 /\ changed' = FALSE /\ rounds' = rounds + 1
  /\ pass' = IF changed /\ rounds + 1 < Len(code) THEN "loops" ELSE "assign"
  /\ UNCHANGED <<raInputs, lastUse, reg, freeAt, hw>>

-----------------------------------------------------------------------------
(* Pass 2: the lowest register, or aligned pair, that is free.             *)

\* Mutant: a pair may start at an odd register.
UnalignedClaim(f, w, i, r) ==
  /\ r >= files[f].base /\ r + w <= files[f].cap
  /\ \A k \in 0 .. w - 1 : freeAt[f][r + k] <= i

\* Mutant: only the low half of a pair is checked.
LowHalfClaim(f, w, i, r) ==
  /\ r >= files[f].base /\ r + w <= files[f].cap
  /\ w = 2 => r % 2 = 0
  /\ freeAt[f][r] <= i

\* Register r (and r + 1) of file f can be claimed at i.
Claimable(f, w, i, r) ==
  /\ r >= files[f].base /\ r + w <= files[f].cap
  /\ w = 2 => r % 2 = 0
  /\ \A k \in 0 .. w - 1 : freeAt[f][r + k] <= i

\* _ra_claim and _ra_claim_pair: the lowest claimable register.
Claims(f, w, i, r) ==
  Claimable(f, w, i, r) /\ \A q \in Regs : Claimable(f, w, i, q) => r <= q

\* Instruction i is the first to define a value.
NeedsRegister(i) == \E v \in Ids : Defines(i, v) /\ reg[v] = NoReg

Assign(r) ==
  /\ pass = "assign" /\ at \in Steps /\ NeedsRegister(at)
  /\ LET v == code[at].dst
         f == FileOf(at)
     IN /\ Claims(f, Width(v), at, r)
        /\ reg' = [reg EXCEPT ![v] = r]
        /\ freeAt' = [freeAt EXCEPT ![f] =
             [q \in Regs |-> IF q \in r .. r + Width(v) - 1 THEN lastUse[v] + 1
                             ELSE freeAt[f][q]]]
        /\ hw' = [hw EXCEPT ![f] = IF r + Width(v) > @ THEN r + Width(v) ELSE @]
  /\ at' = at + 1
  /\ UNCHANGED <<raInputs, pass, lastUse, changed, rounds>>

\* A value that has its register already, or no result to hold.
Skip ==
  /\ pass = "assign" /\ at \in Steps /\ ~ NeedsRegister(at)
  /\ at' = at + 1
  /\ UNCHANGED <<raInputs, pass, lastUse, changed, rounds, reg, freeAt, hw>>

\* No spilling: an exhausted file fails the compilation.
Exhausted ==
  /\ pass = "assign" /\ at \in Steps /\ NeedsRegister(at)
  /\ \A r \in Regs : ~ Claimable(FileOf(at), Width(code[at].dst), at, r)
  /\ pass' = IF FileOf(at) = "v" THEN "VGPR_OVERFLOW" ELSE "SGPR_OVERFLOW"
  /\ UNCHANGED <<raInputs, at, lastUse, changed, rounds, reg, freeAt, hw>>

Assigned ==
  /\ pass = "assign" /\ at \notin Steps
  /\ pass' = "done"
  /\ UNCHANGED <<raInputs, at, lastUse, changed, rounds, reg, freeAt, hw>>

RegAllocNext ==
  \/ ScanIntervals \/ IntervalsScanned
  \/ ExtendOverLoop \/ RoundEnds
  \/ \E r \in Regs : Assign(r)
  \/ Skip \/ Exhausted \/ Assigned

\* Every definition of a value writes the same file: only a phi result is
\* defined more than once, and its copies are all vector moves
\* (_spirv_emit_phi_moves).
CopiesAgree ==
  \A i, j \in Steps, v \in Ids : Defines(i, v) /\ Defines(j, v) => FileOf(i) = FileOf(j)

RegAllocInputs ==
  /\ code \in Seq(Selected) /\ vals \in [Ids -> Values]
  /\ files \in [FileNames -> FileSpecs]
  /\ CopiesAgree

RegAllocSpec == RegAllocInputs /\ RegAllocInit /\ [][RegAllocNext]_raVars

-----------------------------------------------------------------------------
(* What the passes promise.                                                *)

\* The values that have a register; the registers of v, and the positions
\* between its first definition and the end of its interval.
Placed == {v \in Ids : reg[v] # NoReg}
RegsOf(v) == reg[v] .. reg[v] + Width(v) - 1
InFile(v, f) == \E i \in Steps : Defines(i, v) /\ FileOf(i) = f
LiveAt(v, p) == (\E d \in Steps : Defines(d, v) /\ d <= p) /\ p <= lastUse[v]

\* Two values that hold a common register of one file are never live at the
\* same instruction (the free-at discipline of _ra_claim).
NoRegisterSharedWhileLive ==
  \A u, v \in Placed :
    (/\ u # v /\ RegsOf(u) \cap RegsOf(v) # {}
     /\ \E f \in FileNames : InFile(u, f) /\ InFile(v, f))
    => \A p \in Steps : ~ (LiveAt(u, p) /\ LiveAt(v, p))

\* Once the loop pass is over no interval ends inside a loop, and every
\* interval covers its textual definitions and uses.
IntervalsCoverLoops ==
  pass \in {"assign", "done"} =>
    /\ \A t, i \in Steps : BackEdge(t, i) => \A v \in Ids : ~ EndsInLoop(v, t, i)
    /\ \A i \in Steps : \A v \in {code[i].dst} \cup IdOperands(code[i]) :
         Tracked(v) => i <= lastUse[v]

\* A round of the loop pass after the first changes nothing: visiting the
\* back edges in text order closes nested loops in one round, so the bound on
\* the rounds is never what ends the pass.
OneRoundCloses == rounds >= 1 => ~ changed

\* Every allocated register lies between the base and the ceiling of a file,
\* below its high-water mark, and pairs are aligned.
AllocatedInFile ==
  pass \in {"assign", "done"} =>
    \A i \in Steps : i < at /\ Tracked(code[i].dst) =>
      LET v == code[i].dst
          f == FileOf(i)
      IN /\ v \in Placed
         /\ Width(v) = 2 => reg[v] % 2 = 0
         /\ files[f].base <= reg[v]
         /\ reg[v] + Width(v) <= files[f].cap
         /\ reg[v] + Width(v) <= hw[f]
=============================================================================
