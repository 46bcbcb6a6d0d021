--------------------------- MODULE RegAllocProofs ---------------------------
(***************************************************************************)
(* The register allocator is correct for every instruction list, value     *)
(* table and register budget: types, coverage of intervals, the one-round  *)
(* fixed point of the loop pass, and the allocation itself.                *)
(***************************************************************************)
EXTENDS RegAlloc, SequenceTheorems, TLAPS

-----------------------------------------------------------------------------
(* The inductive invariant.                                                *)

Allocating == pass \notin {"intervals", "loops"}

\* The part of the text the interval pass has seen.
Scanned(i) == pass = "intervals" => i < at

Covered ==
  \A i \in Steps, v \in Ids :
    Scanned(i) /\ (Defines(i, v) \/ Reads(i, v)) => i <= lastUse[v]

\* The branches the loop pass has looked at; a second round finds them all so.
Visited(b) == Allocating \/ (pass = "loops" /\ (rounds >= 1 \/ b < at))

LoopsClosed ==
  /\ \A t, b \in Steps, v \in Ids : BackEdge(t, b) /\ Visited(b) => ~ EndsInLoop(v, t, b)
  /\ rounds >= 1 => ~ changed
  /\ pass = "intervals" => rounds = 0

\* Nothing is placed before the last pass; then, exactly what it has passed.
DefinedIsPlaced ==
  /\ ~ Allocating => Placed = {}
  /\ Allocating => \A i \in Steps, v \in Ids : i < at /\ Defines(i, v) => v \in Placed

\* A placed value lies in its file, and its registers are claimed to its end.
PlacedInFile ==
  \A v \in Placed :
    /\ \E d \in Steps : Defines(d, v)
    /\ Width(v) = 2 => reg[v] % 2 = 0
    /\ \A d \in Steps : Defines(d, v) =>
         /\ files[FileOf(d)].base <= reg[v]
         /\ reg[v] + Width(v) <= files[FileOf(d)].cap
         /\ reg[v] + Width(v) <= hw[FileOf(d)]
         /\ \A q \in RegsOf(v) : lastUse[v] < freeAt[FileOf(d)][q]

\* v is only ever defined after the interval of u has ended.
Precedes(u, v) == \A d \in Steps : Defines(d, v) => lastUse[u] < d

SharersOrdered ==
  \A u, v \in Placed :
    (/\ u # v /\ RegsOf(u) \cap RegsOf(v) # {}
     /\ \E f \in FileNames : InFile(u, f) /\ InFile(v, f))
    => Precedes(u, v) \/ Precedes(v, u)

RegAllocInv ==
  /\ RegAllocTypeOK /\ CopiesAgree
  /\ Covered /\ LoopsClosed
  /\ DefinedIsPlaced /\ PlacedInFile /\ SharersOrdered

-----------------------------------------------------------------------------
(* Facts about the operators.                                              *)

LEMMA StepFacts ==
  ASSUME code \in Seq(Selected), NEW i \in Steps
  PROVE  /\ i \in Nat \ {0} /\ i <= Len(code)
         /\ code[i] \in Selected
         /\ code[i].dst \in Ids \cup {NoId}
<1>1. i \in Nat \ {0} /\ i <= Len(code) /\ i \in 1 .. Len(code)
  BY DEF Steps
<1>2. code[i] \in Selected
  BY <1>1, ElementOfSeq
<1>3. code[i].dst \in Ids \cup {NoId}
  BY <1>2 DEF Selected
<1>. QED BY <1>1, <1>2, <1>3

LEMMA WidthFact == \A v : Width(v) \in {1, 2}
BY DEF Width

LEMMA FileFact == \A i : FileOf(i) \in FileNames
BY DEF FileOf, FileNames

\* The inputs and what is computed from them alone stay as they are.
LEMMA InputsStay ==
  ASSUME raInputs' = raInputs
  PROVE  /\ Steps' = Steps
         /\ \A i, v : /\ Defines(i, v)' <=> Defines(i, v)
                      /\ Reads(i, v)' <=> Reads(i, v)
         /\ \A t, b : BackEdge(t, b)' <=> BackEdge(t, b)
         /\ \A i : FileOf(i)' = FileOf(i)
         /\ \A v : Width(v)' = Width(v)
         /\ \A v, f : InFile(v, f)' <=> InFile(v, f)
         /\ CopiesAgree' <=> CopiesAgree
BY DEF raInputs, Steps, Defines, Reads, Tracked, BackEdge, TargetLabel, FileOf,
       Width, InFile, CopiesAgree

LEMMA StepKeepsInputs ==
  ASSUME [RegAllocNext]_raVars
  PROVE  raInputs' = raInputs
BY DEF RegAllocNext, raVars, raInputs, ScanIntervals, IntervalsScanned, ExtendOverLoop,
       RoundEnds, Assign, Skip, Exhausted, Assigned

-----------------------------------------------------------------------------
(* Types.                                                                  *)

LEMMA TypeInit ==
  ASSUME RegAllocInputs, RegAllocInit
  PROVE  RegAllocTypeOK
<1>1. hw \in [FileNames -> Nat]
  <2>1. \A f \in FileNames : files[f].base \in Nat
    BY DEF RegAllocInputs, FileSpecs
  <2>. QED BY <2>1 DEF RegAllocInit
<1>2. freeAt \in [FileNames -> [Regs -> Nat]]
  BY DEF RegAllocInit
<1>3. reg \in [Ids -> Regs \cup {NoReg}] /\ lastUse \in [Ids -> Nat]
  BY DEF RegAllocInit
<1>4. changed \in BOOLEAN
  BY Zenon DEF RegAllocInit
<1>. QED BY <1>1, <1>2, <1>3, <1>4 DEF RegAllocInputs, RegAllocInit, RegAllocTypeOK

LEMMA TypeStep ==
  ASSUME RegAllocTypeOK, [RegAllocNext]_raVars
  PROVE  RegAllocTypeOK'
<1> USE DEF RegAllocTypeOK
<1>0. code' = code /\ vals' = vals /\ files' = files
  BY StepKeepsInputs DEF raInputs
<1>1. CASE ScanIntervals
  <2>1. Touch(at) \in [Ids -> Nat]
    BY DEF Touch
  <2>. QED BY <1>0, <1>1, <2>1 DEF ScanIntervals
<1>2. CASE IntervalsScanned
  BY <1>0, <1>2 DEF IntervalsScanned
<1>3. CASE ExtendOverLoop
  <2>1. Extended(at) \in [Ids -> Nat]
    BY DEF Extended
  <2>. QED BY <1>0, <1>3, <2>1 DEF ExtendOverLoop
<1>4. CASE RoundEnds
  <2>1. pass' \in {"loops", "assign"}
    BY <1>4 DEF RoundEnds
  <2>2. at' = 1 /\ rounds' = rounds + 1 /\ lastUse' = lastUse
        /\ reg' = reg /\ freeAt' = freeAt /\ hw' = hw
    BY <1>4 DEF RoundEnds
  <2>3. changed' \in BOOLEAN
    BY <1>4, Zenon DEF RoundEnds
  <2>. QED BY <1>0, <2>1, <2>2, <2>3
<1>5. ASSUME NEW r \in Regs, Assign(r) PROVE RegAllocTypeOK'
  <2> DEFINE v == code[at].dst
             f == FileOf(at)
  <2>1. v \in Ids
    BY <1>5 DEF Assign, NeedsRegister, Defines
  <2>2. f \in FileNames /\ Width(v) \in {1, 2} /\ r \in Nat /\ lastUse[v] \in Nat
    BY <2>1, FileFact, WidthFact, ShaderCapsAssumption DEF Regs
  <2>3. reg' \in [Ids -> Regs \cup {NoReg}]
    BY <1>5, <2>1 DEF Assign
  <2>4. freeAt' \in [FileNames -> [Regs -> Nat]]
    <3>1. freeAt' = [freeAt EXCEPT ![f] =
             [q \in Regs |-> IF q \in r .. r + Width(v) - 1 THEN lastUse[v] + 1
                             ELSE freeAt[f][q]]]
      BY <1>5 DEF Assign
    <3>2. [q \in Regs |-> IF q \in r .. r + Width(v) - 1 THEN lastUse[v] + 1
                          ELSE freeAt[f][q]] \in [Regs -> Nat]
      BY <2>2
    <3>. QED BY <2>2, <3>1, <3>2
  <2>5. hw' \in [FileNames -> Nat]
    <3>1. hw' = [hw EXCEPT ![f] = IF r + Width(v) > hw[f] THEN r + Width(v) ELSE hw[f]]
      BY <1>5 DEF Assign
    <3>. QED BY <2>2, <3>1
  <2>. QED BY <1>0, <1>5, <2>3, <2>4, <2>5 DEF Assign
<1>6. CASE Skip
  BY <1>0, <1>6 DEF Skip
<1>7. CASE Exhausted
  BY <1>0, <1>7 DEF Exhausted
<1>8. CASE Assigned
  BY <1>0, <1>8 DEF Assigned
<1>9. CASE UNCHANGED raVars
  BY <1>9 DEF raVars
<1>. QED BY <1>1, <1>2, <1>3, <1>4, <1>5, <1>6, <1>7, <1>8, <1>9 DEF RegAllocNext

\* Every variable of the allocator stays in its type: gfx9_regalloc hands out
\* no register beyond the file it is given, for any list and any budget.
THEOREM RegAllocTypeCorrect == RegAllocSpec => []RegAllocTypeOK
<1>1. RegAllocInputs /\ RegAllocInit => RegAllocTypeOK
  BY TypeInit
<1>2. RegAllocTypeOK /\ [RegAllocNext]_raVars => RegAllocTypeOK'
  BY TypeStep
<1>. QED BY <1>1, <1>2, PTL DEF RegAllocSpec
-----------------------------------------------------------------------------
(* The intervals.                                                          *)

LEMMA InvInit ==
  ASSUME RegAllocInputs, RegAllocInit
  PROVE  RegAllocInv
<1>1. RegAllocTypeOK /\ CopiesAgree
  BY TypeInit DEF RegAllocInputs
<1>2. Covered
  BY DEF RegAllocInit, Covered, Scanned, Steps
<1>3. LoopsClosed
  BY DEF RegAllocInit, LoopsClosed, Visited, Allocating
<1>4. Placed = {}
  BY DEF RegAllocInit, Placed
<1>5. DefinedIsPlaced /\ PlacedInFile /\ SharersOrdered
  BY <1>4 DEF RegAllocInit, DefinedIsPlaced, PlacedInFile, SharersOrdered, Allocating
<1>. QED BY <1>1, <1>2, <1>3, <1>5 DEF RegAllocInv

\* Intervals only grow once they are scanned.
LEMMA ExtendedGrows ==
  ASSUME RegAllocTypeOK, NEW i \in Steps, NEW v \in Ids
  PROVE  /\ lastUse[v] <= Extended(i)[v]
         /\ Extended(i)[v] # lastUse[v] => Extended(i)[v] = i
         /\ \A t \in Steps : BackEdge(t, i) /\ EndsInLoop(v, t, i) => Extended(i)[v] = i
BY DEF Extended, EndsInLoop, RegAllocTypeOK, Steps

LEMMA CoveredStep ==
  ASSUME RegAllocTypeOK, Covered, [RegAllocNext]_raVars
  PROVE  Covered'
<1>0. raInputs' = raInputs
  BY StepKeepsInputs
<1>1. SUFFICES ASSUME NEW i \in Steps, NEW v \in Ids, Scanned(i)',
                      Defines(i, v) \/ Reads(i, v)
               PROVE  i <= lastUse'[v]
  BY <1>0, InputsStay DEF Covered
<1>2. Scanned(i) => i <= lastUse[v]
  BY <1>1 DEF Covered
<1>3. i \in Nat /\ at \in Nat /\ lastUse[v] \in Nat
  BY StepFacts DEF RegAllocTypeOK
<1>4. CASE ScanIntervals
  <2>1. i <= at /\ lastUse'[v] = IF Defines(at, v) \/ Reads(at, v) THEN at ELSE lastUse[v]
    BY <1>1, <1>3, <1>4 DEF ScanIntervals, Touch, Scanned
  <2>2. CASE i = at
    BY <1>1, <1>3, <2>1, <2>2
  <2>3. CASE i < at
    BY <1>2, <1>3, <2>1, <2>3 DEF Scanned
  <2>. QED BY <1>3, <2>1, <2>2, <2>3
<1>5. CASE IntervalsScanned
  <2>1. i < at
    BY <1>1, <1>3, <1>5 DEF IntervalsScanned, Steps, RegAllocTypeOK
  <2>. QED BY <1>2, <1>5, <2>1 DEF IntervalsScanned, Scanned
<1>6. CASE ExtendOverLoop
  <2>1. at \in Steps /\ lastUse' = Extended(at) /\ Scanned(i)
    BY <1>6 DEF ExtendOverLoop, Scanned
  <2>2. lastUse[v] <= lastUse'[v] /\ lastUse'[v] \in Nat
    BY <1>3, <2>1, ExtendedGrows
  <2>. QED BY <1>2, <1>3, <2>1, <2>2
<1>7. CASE lastUse' = lastUse /\ pass # "intervals"
  BY <1>2, <1>7 DEF Scanned
<1>8. CASE UNCHANGED raVars
  BY <1>1, <1>2, <1>8 DEF raVars, Scanned
<1>. QED
  BY <1>4, <1>5, <1>6, <1>7, <1>8
     DEF RegAllocNext, RoundEnds, Assign, Skip, Exhausted, Assigned

-----------------------------------------------------------------------------
(* The loop pass.                                                          *)

LEMMA LoopsClosedStep ==
  ASSUME RegAllocTypeOK, LoopsClosed, [RegAllocNext]_raVars
  PROVE  LoopsClosed'
<1>0. raInputs' = raInputs
  BY StepKeepsInputs
<1>1. at \in Nat \ {0} /\ rounds \in Nat /\ lastUse \in [Ids -> Nat]
  BY DEF RegAllocTypeOK
<1>2. \A b \in Steps : b \in Nat \ {0} /\ b <= Len(code)
  BY StepFacts DEF RegAllocTypeOK
<1>3. ASSUME lastUse' = lastUse,
             \A t, b \in Steps : BackEdge(t, b) /\ Visited(b)' => Visited(b),
             rounds' >= 1 => ~ changed',
             pass' = "intervals" => rounds' = 0
      PROVE  LoopsClosed'
  BY <1>0, <1>3, InputsStay DEF LoopsClosed, EndsInLoop
<1>4. CASE ScanIntervals
  <2>1. /\ pass = "intervals" /\ pass' = "intervals" /\ rounds = 0 /\ rounds' = 0
    BY <1>4 DEF ScanIntervals, LoopsClosed
  <2>. QED BY <2>1 DEF LoopsClosed, Visited, Allocating
<1>5. CASE IntervalsScanned
  <2>1. lastUse' = lastUse /\ rounds = 0 /\ rounds' = 0 /\ pass' # "intervals" /\ at' = 1
    BY <1>5 DEF IntervalsScanned, LoopsClosed
  <2>2. \A b \in Steps : ~ Visited(b)'
    <3>1. CASE code = <<>>
      BY <1>2, <3>1 DEF Steps
    <3>2. CASE code # <<>>
      BY <1>2, <1>5, <2>1, <3>2 DEF IntervalsScanned, Visited, Allocating
    <3>. QED BY <3>1, <3>2
  <2>. QED BY <1>3, <2>1, <2>2
<1>6. CASE ExtendOverLoop
  <2>0. /\ at \in Steps /\ pass = "loops" /\ pass' = "loops" /\ at' = at + 1
        /\ rounds' = rounds /\ lastUse' = Extended(at)
        /\ changed' = (changed \/ lastUse' # lastUse)
    BY <1>6 DEF ExtendOverLoop
  <2>1. ASSUME NEW t \in Steps, NEW b \in Steps, NEW v \in Ids,
               BackEdge(t, b), Visited(b)', EndsInLoop(v, t, b)'
        PROVE  FALSE
    <3>1. t <= lastUse'[v] /\ lastUse'[v] < b
      BY <2>1 DEF EndsInLoop
    <3>2. Visited(b) \/ b = at
      BY <1>1, <1>2, <2>0, <2>1 DEF Visited, Allocating
    <3>3. lastUse[v] <= lastUse'[v] /\ (lastUse'[v] # lastUse[v] => lastUse'[v] = at)
      BY <2>0, ExtendedGrows
    <3>4. EndsInLoop(v, t, at) /\ b = at => lastUse'[v] = at
      BY <2>0, <2>1, ExtendedGrows
    <3>5. Visited(b) => ~ (t <= lastUse[v] /\ lastUse[v] < b)
      BY <2>1 DEF LoopsClosed, EndsInLoop
    <3>6. rounds >= 1 \/ b < at \/ b = at
      BY <1>1, <1>2, <2>0, <3>2 DEF Visited, Allocating
    <3>7. lastUse'[v] = lastUse[v]
      <4>1. CASE b <= at
        BY <1>1, <1>2, <3>1, <3>3, <4>1
      <4>2. CASE rounds >= 1
        <5>1. \A x \in Steps : BackEdge(x, at) => ~ EndsInLoop(v, x, at)
          BY <2>0, <4>2 DEF LoopsClosed, Visited
        <5>. QED BY <2>0, <5>1 DEF Extended
      <4>. QED BY <1>1, <1>2, <3>6, <4>1, <4>2
    <3>8. CASE b = at
      BY <1>1, <1>2, <3>1, <3>4, <3>7, <3>8 DEF EndsInLoop
    <3>9. CASE Visited(b)
      BY <3>1, <3>5, <3>7, <3>9
    <3>. QED BY <3>2, <3>8, <3>9
  <2>2. rounds' >= 1 => ~ changed'
    <3>1. SUFFICES ASSUME rounds >= 1 PROVE ~ changed'
      BY <2>0
    <3>2. \A x \in Steps, v \in Ids : BackEdge(x, at) => ~ EndsInLoop(v, x, at)
      BY <2>0, <3>1 DEF LoopsClosed, Visited
    <3>3. Extended(at) = [v \in Ids |-> lastUse[v]]
      BY <3>2 DEF Extended
    <3>4. Extended(at) = lastUse
      BY <1>1, <3>3
    <3>5. ~ changed
      BY <3>1 DEF LoopsClosed
    <3>. QED BY <2>0, <3>4, <3>5
  <2>3. pass' # "intervals"
    BY <2>0
  <2>. QED BY <1>0, <2>1, <2>2, <2>3, InputsStay DEF LoopsClosed
<1>7. CASE RoundEnds
  <2>1. lastUse' = lastUse /\ ~ changed' /\ pass' # "intervals" /\ pass = "loops"
    BY <1>7 DEF RoundEnds
  <2>2. \A b \in Steps : Visited(b)
    BY <1>1, <1>2, <1>7 DEF RoundEnds, Steps, Visited
  <2>. QED BY <1>3, <2>1, <2>2
<1>8. CASE /\ lastUse' = lastUse /\ rounds' = rounds /\ changed' = changed
           /\ pass \notin {"intervals", "loops"} /\ pass' # "intervals"
  <2>1. \A b \in Steps : Visited(b)
    BY <1>8 DEF Visited, Allocating
  <2>2. rounds' >= 1 => ~ changed'
    BY <1>8 DEF LoopsClosed
  <2>. QED BY <1>3, <1>8, <2>1, <2>2
<1>9. CASE UNCHANGED raVars
  <2>1. lastUse' = lastUse /\ rounds' = rounds /\ changed' = changed /\ pass' = pass /\ at' = at
    BY <1>9 DEF raVars
  <2>2. \A b \in Steps : Visited(b)' => Visited(b)
    BY <2>1 DEF Visited, Allocating
  <2>3. (rounds' >= 1 => ~ changed') /\ (pass' = "intervals" => rounds' = 0)
    BY <2>1 DEF LoopsClosed
  <2>. QED BY <1>3, <2>1, <2>2, <2>3
<1>10. CASE (\E r \in Regs : Assign(r)) \/ Skip \/ Exhausted \/ Assigned
  <2>1. /\ lastUse' = lastUse /\ rounds' = rounds /\ changed' = changed
        /\ pass \notin {"intervals", "loops"} /\ pass' # "intervals"
    BY <1>10 DEF Assign, Skip, Exhausted, Assigned
  <2>. QED BY <1>8, <2>1
<1>. QED BY <1>4, <1>5, <1>6, <1>7, <1>9, <1>10 DEF RegAllocNext
-----------------------------------------------------------------------------
(* The allocation.                                                         *)

\* What a step that assigns a register changes.
LEMMA AssignFacts ==
  ASSUME RegAllocInv, NEW r \in Regs, Assign(r),
         NEW v, v = code[at].dst, NEW f, f = FileOf(at)
  PROVE  /\ at \in Steps /\ Allocating /\ Allocating' /\ at' = at + 1
         /\ v \in Ids /\ Defines(at, v) /\ reg[v] = NoReg /\ v \notin Placed
         /\ f \in FileNames /\ r \in Nat /\ at <= lastUse[v]
         /\ \A d \in Steps : Defines(d, v) => at <= d /\ FileOf(d) = f
         /\ lastUse' = lastUse
         /\ reg'[v] = r /\ \A u \in Ids : u # v => reg'[u] = reg[u]
         /\ Placed' = Placed \cup {v}
<1>1. /\ at \in Steps /\ pass = "assign" /\ pass' = "assign" /\ at' = at + 1
      /\ lastUse' = lastUse /\ reg' = [reg EXCEPT ![v] = r]
  BY DEF Assign
<1>2. Allocating /\ Allocating'
  BY <1>1 DEF Allocating
<1>3. v \in Ids /\ Defines(at, v) /\ reg[v] = NoReg
  BY DEF Assign, NeedsRegister, Defines
<1>4. v \notin Placed
  BY <1>3 DEF Placed
<1>5. f \in FileNames /\ r \in Nat /\ r # NoReg
  BY FileFact, ShaderCapsAssumption DEF Regs, NoReg
<1>6. at <= lastUse[v]
  BY <1>1, <1>3 DEF RegAllocInv, Covered, Scanned
<1>7. \A d \in Steps : Defines(d, v) => at <= d /\ FileOf(d) = f
  <2>1. SUFFICES ASSUME NEW d \in Steps, Defines(d, v)
                 PROVE  at <= d /\ FileOf(d) = f
    OBVIOUS
  <2>2. FileOf(d) = f
    BY <1>1, <1>3, <2>1 DEF RegAllocInv, CopiesAgree
  <2>3. ~ (d < at)
    BY <1>2, <1>3, <1>4, <2>1 DEF RegAllocInv, DefinedIsPlaced
  <2>4. d \in Nat /\ at \in Nat
    BY <1>1, StepFacts DEF RegAllocInv, RegAllocTypeOK
  <2>. QED BY <2>2, <2>3, <2>4
<1>8. reg \in [Ids -> Regs \cup {NoReg}]
  BY DEF RegAllocInv, RegAllocTypeOK
<1>9. reg'[v] = r /\ \A u \in Ids : u # v => reg'[u] = reg[u]
  BY <1>1, <1>3, <1>8
<1>10. Placed' = Placed \cup {v}
  BY <1>3, <1>5, <1>9 DEF Placed
<1>. QED BY <1>1, <1>2, <1>3, <1>4, <1>5, <1>6, <1>7, <1>9, <1>10

\* What the step does to the files.
LEMMA ClaimFacts ==
  ASSUME RegAllocInv, NEW r \in Regs, Assign(r),
         NEW v, v = code[at].dst, NEW f, f = FileOf(at)
  PROVE  /\ files[f].base <= r /\ r + Width(v) <= files[f].cap
         /\ Width(v) = 2 => r % 2 = 0
         /\ r + Width(v) <= hw'[f] /\ \A g \in FileNames : hw[g] <= hw'[g]
         /\ \A q \in r .. r + Width(v) - 1 :
              q \in Regs /\ freeAt[f][q] <= at /\ freeAt'[f][q] = lastUse[v] + 1
         /\ \A g \in FileNames, q \in Regs :
              freeAt'[g][q] = freeAt[g][q]
              \/ (g = f /\ q \in r .. r + Width(v) - 1)
<1>1. Claimable(f, Width(v), at, r)
  BY DEF Assign, Claims
<1>2. /\ files[f].base <= r /\ r + Width(v) <= files[f].cap
      /\ Width(v) = 2 => r % 2 = 0
      /\ \A k \in 0 .. Width(v) - 1 : freeAt[f][r + k] <= at
  BY <1>1 DEF Claimable
<1>3. f \in FileNames /\ Width(v) \in {1, 2} /\ r \in Nat /\ v \in Ids
  BY AssignFacts, WidthFact
<1>4. files[f].cap \in 0 .. MaxRegs /\ hw \in [FileNames -> Nat] /\ at \in Nat
      /\ freeAt \in [FileNames -> [Regs -> Nat]] /\ lastUse[v] \in Nat
  BY <1>3 DEF RegAllocInv, RegAllocTypeOK, FileSpecs
<1>5. hw' = [hw EXCEPT ![f] = IF r + Width(v) > hw[f] THEN r + Width(v) ELSE hw[f]]
  BY DEF Assign
<1>6. r + Width(v) <= hw'[f] /\ \A g \in FileNames : hw[g] <= hw'[g]
  BY <1>3, <1>4, <1>5
<1>7. freeAt' = [freeAt EXCEPT ![f] =
        [q \in Regs |-> IF q \in r .. r + Width(v) - 1 THEN lastUse[v] + 1 ELSE freeAt[f][q]]]
  BY DEF Assign
<1>8. ASSUME NEW q \in r .. r + Width(v) - 1
      PROVE  q \in Regs /\ freeAt[f][q] <= at /\ freeAt'[f][q] = lastUse[v] + 1
  <2>1. q \in Regs
    BY <1>2, <1>3, <1>4, ShaderCapsAssumption DEF Regs
  <2>2. q - r \in 0 .. Width(v) - 1 /\ r + (q - r) = q
    BY <1>3
  <2>3. freeAt[f][q] <= at
    BY <1>2, <2>2
  <2>4. freeAt'[f][q] = lastUse[v] + 1
    BY <1>3, <1>4, <1>7, <2>1
  <2>. QED BY <2>1, <2>3, <2>4
<1>9. \A g \in FileNames, q \in Regs :
        freeAt'[g][q] = freeAt[g][q] \/ (g = f /\ q \in r .. r + Width(v) - 1)
  BY <1>3, <1>4, <1>7
<1>. QED BY <1>2, <1>6, <1>8, <1>9

\* A register of a placed value stays claimed to the end of its interval.
LEMMA ClaimsLast ==
  ASSUME RegAllocInv, NEW r \in Regs, Assign(r),
         NEW g \in FileNames, NEW q \in Regs
  PROVE  freeAt[g][q] <= freeAt'[g][q]
<1> DEFINE v == code[at].dst
           f == FileOf(at)
<1>1. v \in Ids /\ f \in FileNames /\ at <= lastUse[v]
  BY AssignFacts
<1>2. at \in Nat /\ lastUse[v] \in Nat /\ freeAt[g][q] \in Nat
  BY <1>1 DEF RegAllocInv, RegAllocTypeOK
<1>3. freeAt'[g][q] = freeAt[g][q] \/ (g = f /\ q \in r .. r + Width(v) - 1)
  BY ClaimFacts
<1>4. CASE g = f /\ q \in r .. r + Width(v) - 1
  <2>1. freeAt[f][q] <= at /\ freeAt'[f][q] = lastUse[v] + 1
    BY <1>4, ClaimFacts
  <2>. QED BY <1>1, <1>2, <1>4, <2>1
<1>. QED BY <1>2, <1>3, <1>4
\* The last pass goes over the text once.
LEMMA DefinedIsPlacedStep ==
  ASSUME RegAllocInv, [RegAllocNext]_raVars
  PROVE  DefinedIsPlaced'
<1>0. raInputs' = raInputs
  BY StepKeepsInputs
<1>1. at \in Nat \ {0} /\ \A i \in Steps : i \in Nat
  BY StepFacts DEF RegAllocInv, RegAllocTypeOK
<1>2. ASSUME reg' = reg, Allocating' => Allocating,
             \A i \in Steps, v \in Ids : Defines(i, v) /\ i < at' => i < at \/ v \in Placed
      PROVE  DefinedIsPlaced'
  <2>1. Placed' = Placed
    BY <1>2 DEF Placed
  <2>2. ~ Allocating' => ~ Allocating \/ Placed = {}
    BY <1>0 DEF Allocating, RegAllocInv, DefinedIsPlaced, RegAllocNext, raVars, ScanIntervals,
       IntervalsScanned, ExtendOverLoop, RoundEnds, Assign, Skip, Exhausted, Assigned
  <2>. QED BY <1>0, <1>2, <2>1, <2>2, InputsStay DEF RegAllocInv, DefinedIsPlaced
<1>3. CASE ScanIntervals \/ IntervalsScanned \/ ExtendOverLoop \/ RoundEnds
  <2>1. reg' = reg /\ ~ Allocating /\ (Allocating' => at' = 1)
    BY <1>3 DEF ScanIntervals, IntervalsScanned, ExtendOverLoop, RoundEnds, Allocating
  <2>2. Placed' = {}
    BY <2>1 DEF Placed, RegAllocInv, DefinedIsPlaced
  <2>3. \A i \in Steps : ~ (i < 1)
    BY StepFacts DEF RegAllocInv, RegAllocTypeOK
  <2>. QED BY <1>0, <2>1, <2>2, <2>3, InputsStay DEF DefinedIsPlaced
<1>4. ASSUME NEW r \in Regs, Assign(r) PROVE DefinedIsPlaced'
  <2> DEFINE v == code[at].dst
  <2>1. /\ Allocating /\ Allocating' /\ at' = at + 1 /\ Placed' = Placed \cup {v}
        /\ at \in Steps
    BY <1>4, AssignFacts
  <2>2. ASSUME NEW i \in Steps, NEW u \in Ids, i < at', Defines(i, u)
        PROVE  u \in Placed'
    <3>1. CASE i = at
      BY <2>1, <2>2, <3>1 DEF Defines
    <3>2. CASE i < at
      BY <2>1, <2>2, <3>2 DEF RegAllocInv, DefinedIsPlaced
    <3>. QED BY <1>1, <2>1, <2>2, <3>1, <3>2
  <2>. QED BY <1>0, <2>1, <2>2, InputsStay DEF DefinedIsPlaced
<1>5. CASE Skip
  <2>1. at' = at + 1 /\ reg' = reg /\ Allocating /\ ~ NeedsRegister(at)
    BY <1>5 DEF Skip, Allocating
  <2>2. \A v \in Ids : Defines(at, v) => v \in Placed
    BY <2>1 DEF NeedsRegister, Placed
  <2>3. \A i \in Steps : i < at' => i < at \/ i = at
    BY <1>1, <2>1
  <2>. QED BY <1>2, <2>1, <2>2, <2>3
<1>6. CASE Exhausted \/ Assigned \/ UNCHANGED raVars
  <2>1. reg' = reg /\ at' = at /\ (Allocating' => Allocating)
    BY <1>6 DEF Exhausted, Assigned, raVars, Allocating
  <2>. QED BY <1>2, <2>1
<1>. QED BY <1>3, <1>4, <1>5, <1>6 DEF RegAllocNext

\* A step that assigns nothing, or one before the last pass.
LEMMA OtherSteps ==
  ASSUME RegAllocInv, [RegAllocNext]_raVars, \A r \in Regs : ~ Assign(r)
  PROVE  \/ Placed' = {}
         \/ reg' = reg /\ lastUse' = lastUse /\ freeAt' = freeAt /\ hw' = hw
<1>1. CASE ScanIntervals \/ ExtendOverLoop
  <2>1. reg' = reg /\ ~ Allocating
    BY <1>1 DEF ScanIntervals, ExtendOverLoop, Allocating
  <2>. QED BY <2>1 DEF Placed, RegAllocInv, DefinedIsPlaced
<1>2. CASE ~ (ScanIntervals \/ ExtendOverLoop)
  BY <1>2 DEF RegAllocNext, raVars, IntervalsScanned, RoundEnds, Skip, Exhausted, Assigned
<1>. QED BY <1>1, <1>2

LEMMA PlacedInFileStep ==
  ASSUME RegAllocInv, [RegAllocNext]_raVars
  PROVE  PlacedInFile'
<1>0. raInputs' = raInputs /\ files' = files
  BY StepKeepsInputs DEF raInputs
<1>1. CASE \A r \in Regs : ~ Assign(r)
  <2>1. CASE Placed' = {}
    BY <2>1 DEF PlacedInFile
  <2>2. CASE reg' = reg /\ lastUse' = lastUse /\ freeAt' = freeAt /\ hw' = hw
    <3>1. Placed' = Placed /\ \A v : RegsOf(v)' = RegsOf(v)
      BY <1>0, <2>2, InputsStay DEF Placed, RegsOf
    <3>. QED BY <1>0, <2>2, <3>1, InputsStay DEF RegAllocInv, PlacedInFile
  <2>. QED BY <1>1, <2>1, <2>2, OtherSteps
<1>2. ASSUME NEW r \in Regs, Assign(r) PROVE PlacedInFile'
  <2> DEFINE v == code[at].dst
             f == FileOf(at)
  <2>1. /\ v \in Ids /\ at \in Steps /\ Defines(at, v) /\ v \notin Placed
        /\ \A d \in Steps : Defines(d, v) => FileOf(d) = f
        /\ reg'[v] = r /\ (\A u \in Ids : u # v => reg'[u] = reg[u])
        /\ lastUse' = lastUse /\ Placed' = Placed \cup {v}
    BY <1>2, AssignFacts
  <2>2. /\ files[f].base <= r /\ r + Width(v) <= files[f].cap
        /\ Width(v) = 2 => r % 2 = 0
        /\ r + Width(v) <= hw'[f] /\ \A g \in FileNames : hw[g] <= hw'[g]
        /\ \A q \in r .. r + Width(v) - 1 : freeAt'[f][q] = lastUse[v] + 1
    BY <1>2, ClaimFacts
  <2>3. ASSUME NEW u \in Placed'
        PROVE  /\ \E d \in Steps : Defines(d, u)
               /\ Width(u) = 2 => reg'[u] % 2 = 0
               /\ \A d \in Steps : Defines(d, u) =>
                    /\ files[FileOf(d)].base <= reg'[u]
                    /\ reg'[u] + Width(u) <= files[FileOf(d)].cap
                    /\ reg'[u] + Width(u) <= hw'[FileOf(d)]
                    /\ \A q \in reg'[u] .. reg'[u] + Width(u) - 1 :
                         lastUse[u] < freeAt'[FileOf(d)][q]
    <3>1. CASE u = v
      <4>1. lastUse[v] < lastUse[v] + 1
        BY <2>1 DEF RegAllocInv, RegAllocTypeOK
      <4>. QED BY <2>1, <2>2, <3>1, <4>1
    <3>2. CASE u # v
      <4>1. u \in Placed /\ u \in Ids /\ reg'[u] = reg[u]
        BY <2>1, <3>2 DEF Placed
      <4>2. /\ \E d \in Steps : Defines(d, u)
            /\ Width(u) = 2 => reg[u] % 2 = 0
        BY <4>1 DEF RegAllocInv, PlacedInFile
      <4>3. ASSUME NEW d \in Steps, Defines(d, u)
            PROVE  /\ files[FileOf(d)].base <= reg[u]
                   /\ reg[u] + Width(u) <= files[FileOf(d)].cap
                   /\ reg[u] + Width(u) <= hw'[FileOf(d)]
                   /\ \A q \in reg[u] .. reg[u] + Width(u) - 1 :
                        lastUse[u] < freeAt'[FileOf(d)][q]
        <5> DEFINE g == FileOf(d)
        <5>1. /\ files[g].base <= reg[u] /\ reg[u] + Width(u) <= files[g].cap
              /\ reg[u] + Width(u) <= hw[g]
              /\ \A q \in reg[u] .. reg[u] + Width(u) - 1 : lastUse[u] < freeAt[g][q]
          BY <4>1, <4>3 DEF RegAllocInv, PlacedInFile, RegsOf
        <5>2. g \in FileNames /\ Width(u) \in {1, 2} /\ reg[u] \in Nat
              /\ files[g].cap \in 0 .. MaxRegs /\ hw[g] \in Nat /\ lastUse[u] \in Nat
          BY <4>1, FileFact, WidthFact, ShaderCapsAssumption
             DEF RegAllocInv, RegAllocTypeOK, FileSpecs, Placed, Regs
        <5>3. hw'[g] \in Nat /\ hw[g] <= hw'[g]
          BY <2>2, <5>2, TypeStep DEF RegAllocInv, RegAllocTypeOK
        <5>4. \A q \in reg[u] .. reg[u] + Width(u) - 1 :
                /\ q \in Regs /\ freeAt[g][q] \in Nat /\ freeAt'[g][q] \in Nat
                /\ freeAt[g][q] <= freeAt'[g][q]
          <6>1. \A q \in reg[u] .. reg[u] + Width(u) - 1 : q \in Regs
            BY <5>1, <5>2, ShaderCapsAssumption DEF Regs
          <6>. QED BY <1>2, <5>2, <6>1, TypeStep, ClaimsLast DEF RegAllocInv, RegAllocTypeOK
        <5>. QED BY <5>1, <5>2, <5>3, <5>4
      <4>. QED BY <4>1, <4>2, <4>3
    <3>. QED BY <3>1, <3>2
  <2>. QED BY <1>0, <2>1, <2>3, InputsStay DEF PlacedInFile, RegsOf
<1>. QED BY <1>1, <1>2

\* The newcomer's register was free: whoever held it is dead for good.
LEMMA SharersOrderedStep ==
  ASSUME RegAllocInv, [RegAllocNext]_raVars
  PROVE  SharersOrdered'
<1>0. raInputs' = raInputs
  BY StepKeepsInputs
<1>1. CASE \A r \in Regs : ~ Assign(r)
  <2>1. CASE Placed' = {}
    BY <2>1 DEF SharersOrdered
  <2>2. CASE reg' = reg /\ lastUse' = lastUse
    <3>1. Placed' = Placed /\ \A v : RegsOf(v)' = RegsOf(v)
      BY <1>0, <2>2, InputsStay DEF Placed, RegsOf
    <3>2. \A u, v : Precedes(u, v)' <=> Precedes(u, v)
      BY <1>0, <2>2, InputsStay DEF Precedes
    <3>. QED BY <1>0, <3>1, <3>2, InputsStay DEF RegAllocInv, SharersOrdered
  <2>. QED BY <1>1, <2>1, <2>2, OtherSteps
<1>2. ASSUME NEW r \in Regs, Assign(r) PROVE SharersOrdered'
  <2> DEFINE v == code[at].dst
             f == FileOf(at)
             next(x) == reg'[x] .. reg'[x] + Width(x) - 1
  <2>1. /\ v \in Ids /\ at \in Steps
        /\ \A d \in Steps : Defines(d, v) => at <= d /\ FileOf(d) = f
        /\ reg'[v] = r /\ (\A u \in Ids : u # v => reg'[u] = reg[u])
        /\ lastUse' = lastUse /\ Placed' = Placed \cup {v}
    BY <1>2, AssignFacts
  <2>2. \A u, w : Precedes(u, w)' <=> Precedes(u, w)
    BY <1>0, <2>1, InputsStay DEF Precedes
  <2>3. ASSUME NEW u \in Placed, u # v,
               next(u) \cap next(v) # {},
               NEW g \in FileNames, InFile(u, g), InFile(v, g)
        PROVE  Precedes(u, v)
    <3>1. u \in Ids /\ reg'[u] = reg[u] /\ Width(u) \in {1, 2} /\ reg[u] \in Nat
      BY <2>1, <2>3, WidthFact, ShaderCapsAssumption
         DEF RegAllocInv, RegAllocTypeOK, Placed, Regs
    <3>2. PICK q : q \in RegsOf(u) /\ q \in r .. r + Width(v) - 1
      BY <2>1, <2>3, <3>1 DEF RegsOf
    <3>3. g = f
      BY <2>1, <2>3 DEF InFile
    <3>4. PICK d \in Steps : Defines(d, u) /\ FileOf(d) = f
      BY <2>3, <3>3 DEF InFile
    <3>5. lastUse[u] < freeAt[f][q]
      BY <2>3, <3>2, <3>4 DEF RegAllocInv, PlacedInFile
    <3>6. q \in Regs /\ freeAt[f][q] <= at
      BY <1>2, <3>2, ClaimFacts
    <3>7. freeAt[f][q] \in Nat /\ lastUse[u] \in Nat /\ at \in Nat
      BY <3>1, <3>6, FileFact DEF RegAllocInv, RegAllocTypeOK
    <3>8. lastUse[u] < at
      BY <3>5, <3>6, <3>7
    <3>9. \A e \in Steps : e \in Nat
      BY StepFacts DEF RegAllocInv, RegAllocTypeOK
    <3>. QED BY <2>1, <3>7, <3>8, <3>9 DEF Precedes
  <2>4. ASSUME NEW u \in Placed, NEW w \in Placed, u # v, w # v, u # w,
               next(u) \cap next(w) # {},
               NEW g \in FileNames, InFile(u, g), InFile(w, g)
        PROVE  Precedes(u, w) \/ Precedes(w, u)
    <3>1. next(u) = RegsOf(u) /\ next(w) = RegsOf(w)
      BY <2>1, <2>4 DEF RegsOf, Placed
    <3>. QED BY <2>4, <3>1 DEF RegAllocInv, SharersOrdered
  <2>5. ASSUME NEW u \in Placed', NEW w \in Placed', u # w,
               next(u) \cap next(w) # {},
               NEW g \in FileNames, InFile(u, g), InFile(w, g)
        PROVE  Precedes(u, w) \/ Precedes(w, u)
    <3>1. CASE w = v
      BY <2>1, <2>3, <2>5, <3>1
    <3>2. CASE u = v
      BY <2>1, <2>3, <2>5, <3>2
    <3>3. CASE u # v /\ w # v
      BY <2>1, <2>4, <2>5, <3>3
    <3>. QED BY <3>1, <3>2, <3>3
  <2>6. \A x : RegsOf(x)' = next(x)
    BY <1>0, InputsStay DEF RegsOf
  <2>. QED BY <1>0, <2>2, <2>5, <2>6, InputsStay DEF SharersOrdered
<1>. QED BY <1>1, <1>2
-----------------------------------------------------------------------------
(* The theorems.                                                           *)

LEMMA InvStep ==
  ASSUME RegAllocInv, [RegAllocNext]_raVars
  PROVE  RegAllocInv'
<1>1. RegAllocTypeOK'
  BY TypeStep DEF RegAllocInv
<1>2. CopiesAgree'
  BY StepKeepsInputs, InputsStay DEF RegAllocInv
<1>3. Covered' /\ LoopsClosed'
  BY CoveredStep, LoopsClosedStep DEF RegAllocInv
<1>4. DefinedIsPlaced' /\ PlacedInFile' /\ SharersOrdered'
  BY DefinedIsPlacedStep, PlacedInFileStep, SharersOrderedStep
<1>. QED BY <1>1, <1>2, <1>3, <1>4 DEF RegAllocInv

LEMMA InvHolds == RegAllocSpec => []RegAllocInv
<1>1. RegAllocInputs /\ RegAllocInit => RegAllocInv
  BY InvInit
<1>2. RegAllocInv /\ [RegAllocNext]_raVars => RegAllocInv'
  BY InvStep
<1>. QED BY <1>1, <1>2, PTL DEF RegAllocSpec

\* Loop liveness: after the loop pass no interval ends inside a loop, however
\* deep the loops are nested, and every interval covers its definitions and uses.
THEOREM LoopsCovered == RegAllocSpec => []IntervalsCoverLoops
<1>1. RegAllocInv => IntervalsCoverLoops
  <2>1. SUFFICES ASSUME RegAllocInv, pass \in {"assign", "done"}
                 PROVE  IntervalsCoverLoops
    BY DEF IntervalsCoverLoops
  <2>2. Allocating /\ pass # "intervals"
    BY <2>1 DEF Allocating
  <2>3. \A t, i \in Steps : BackEdge(t, i) => \A v \in Ids : ~ EndsInLoop(v, t, i)
    BY <2>1, <2>2 DEF RegAllocInv, LoopsClosed, Visited
  <2>4. ASSUME NEW i \in Steps, NEW v \in {code[i].dst} \cup IdOperands(code[i]), Tracked(v)
        PROVE  i <= lastUse[v]
    <3>1. v \in Ids /\ (Defines(i, v) \/ Reads(i, v))
      BY <2>4 DEF Tracked, Defines, Reads
    <3>. QED BY <2>1, <2>2, <3>1 DEF RegAllocInv, Covered, Scanned
  <2>. QED BY <2>3, <2>4 DEF IntervalsCoverLoops
<1>. QED BY <1>1, InvHolds, PTL

\* The fixed point: the first round of the loop pass closes every loop, so the
\* second changes nothing and the bound on the rounds never cuts the pass short.
THEOREM OneRoundSuffices == RegAllocSpec => []OneRoundCloses
<1>1. RegAllocInv => OneRoundCloses
  BY DEF RegAllocInv, LoopsClosed, OneRoundCloses
<1>. QED BY <1>1, InvHolds, PTL

\* No clobbering: two values that hold a common register of a file are never
\* live at the same instruction, 64-bit pairs and reuse included.
THEOREM AllocationDisjoint == RegAllocSpec => []NoRegisterSharedWhileLive
<1>1. RegAllocInv => NoRegisterSharedWhileLive
  <2>1. SUFFICES ASSUME RegAllocInv, NEW u \in Placed, NEW v \in Placed,
                        u # v, RegsOf(u) \cap RegsOf(v) # {},
                        \E f \in FileNames : InFile(u, f) /\ InFile(v, f),
                        NEW p \in Steps, LiveAt(u, p), LiveAt(v, p)
                 PROVE  FALSE
    BY DEF NoRegisterSharedWhileLive
  <2>2. Precedes(u, v) \/ Precedes(v, u)
    BY <2>1 DEF RegAllocInv, SharersOrdered
  <2>3. lastUse[u] \in Nat /\ lastUse[v] \in Nat /\ \A d \in Steps : d \in Nat
    BY <2>1, StepFacts DEF RegAllocInv, RegAllocTypeOK, Placed
  <2>4. CASE Precedes(u, v)
    BY <2>1, <2>3, <2>4 DEF Precedes, LiveAt
  <2>5. CASE Precedes(v, u)
    BY <2>1, <2>3, <2>5 DEF Precedes, LiveAt
  <2>. QED BY <2>2, <2>4, <2>5
<1>. QED BY <1>1, InvHolds, PTL

\* Every result has its register inside the file, aligned if it is a pair, and
\* below the high-water mark that the program descriptor is sized by.
THEOREM AllocationInFile == RegAllocSpec => []AllocatedInFile
<1>1. RegAllocInv => AllocatedInFile
  <2>1. SUFFICES ASSUME RegAllocInv, pass \in {"assign", "done"},
                        NEW i \in Steps, i < at, Tracked(code[i].dst)
                 PROVE  LET v == code[i].dst
                            f == FileOf(i)
                        IN /\ v \in Placed
                           /\ Width(v) = 2 => reg[v] % 2 = 0
                           /\ files[f].base <= reg[v]
                           /\ reg[v] + Width(v) <= files[f].cap
                           /\ reg[v] + Width(v) <= hw[f]
    BY DEF AllocatedInFile
  <2> DEFINE v == code[i].dst
  <2>2. v \in Ids /\ Defines(i, v) /\ Allocating
    BY <2>1 DEF Tracked, Defines, Allocating
  <2>3. v \in Placed
    BY <2>1, <2>2 DEF RegAllocInv, DefinedIsPlaced
  <2>. QED BY <2>1, <2>2, <2>3 DEF RegAllocInv, PlacedInFile
<1>. QED BY <1>1, InvHolds, PTL
=============================================================================
