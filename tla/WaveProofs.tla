----------------------------- MODULE WaveProofs -----------------------------
(***************************************************************************)
(* From the allocator to the wave: whatever list is compiled, and whatever *)
(* way its branches go, an instruction finds in its registers the values   *)
(* it names.                                                               *)
(***************************************************************************)
EXTENDS Wave, RegAllocProofs, WellFoundedInduction

-----------------------------------------------------------------------------
(* The compiler run contains a run of the allocator.                       *)

LEMMA AllocatorStep ==
  ASSUME [Next]_vars
  PROVE  [RegAllocNext]_raVars
BY DEF Next, vars, BackendNext, Splice, SpliceFull, Spliced, EmitProgram, EmitRejected,
       Unresolved, WaveNext, Execute, Jump, EndProgram, LoadReturns, StoreCompletes

\* The back end is built on the allocator as it is: every behaviour of the
\* whole is one of the allocator, so its theorems hold here as well.
THEOREM ContainsAllocator == Spec => RegAllocSpec
<1>1. Init => RegAllocInputs /\ RegAllocInit
  BY DEF Init
<1>2. [Next]_vars => [RegAllocNext]_raVars
  BY AllocatorStep
<1>. QED BY <1>1, <1>2, PTL DEF Spec, RegAllocSpec

-----------------------------------------------------------------------------
(* The inductive invariant.                                                *)

Running == stage \in {"run", "ended"}

\* Nothing runs before the allocation is over.
Phases ==
  /\ Running => pass = "done"
  /\ stage = "emit" => pass = "done"
  /\ ~ Running => written = {}
  /\ pass = "done" => at \notin Steps

WaveTypes ==
  /\ pc \in Nat \ {0}
  /\ written \subseteq {v \in Ids : Tracked(v)}
  /\ \A v \in written : \E d \in Steps : Defines(d, v)
  /\ held \in [FileNames -> [Regs -> Ids \cup {NoId}]]

\* Until its interval ends, a value is in its registers.
StillHeld ==
  \A v \in written : ScratchFree /\ pc <= lastUse[v] =>
    \A d \in Steps : Defines(d, v) => \A r \in RegsOf(v) : held[FileOf(d)][r] = v

\* The wave is past the interval of every value that v was to follow.
PastThose ==
  \A v \in written, u \in Placed : Precedes(u, v) => lastUse[u] < pc

\* The scalar operations of a list that runs read no VGPR.
ScalarsResolve ==
  Running => \A j \in Steps : code[j].op \in Sop2 => ~ Vgpr(code[j], "b")

WaveInv == Phases /\ WaveTypes /\ StillHeld /\ PastThose /\ ScalarsResolve

-----------------------------------------------------------------------------
(* Facts.                                                                  *)

\* A nonempty set of positions has a last one.
LEMMA LastPosition ==
  ASSUME NEW n \in Nat, NEW T, T \subseteq 0 .. n, T # {}
  PROVE  \E x \in T : \A y \in T : y <= x
<1> DEFINE S == {n - x : x \in T}
<1>1. \A x \in T : x \in Nat /\ x <= n /\ n - x \in Nat
  <2>1. \A x \in 0 .. n : x \in Nat /\ x <= n /\ n - x \in Nat
    OBVIOUS
  <2>. QED BY <2>1
<1>2. S \subseteq Nat /\ S # {}
  <2>1. S \subseteq Nat
    BY <1>1
  <2>2. PICK x \in T : TRUE
    OBVIOUS
  <2>3. n - x \in S
    OBVIOUS
  <2>. QED BY <2>1, <2>3
<1>3. PICK s \in S : \A t \in S : ~ (<<t, s>> \in OpToRel(<, Nat))
  <2>. HIDE DEF S
  <2>. QED BY <1>2, WFMin, NatLessThanWellFounded
<1>4. \A t \in S : ~ (t < s)
  <2>. HIDE DEF S
  <2>. QED BY <1>2, <1>3 DEF OpToRel
<1>5. PICK x \in T : s = n - x
  OBVIOUS
<1>6. ASSUME NEW y \in T PROVE y <= x
  <2>1. n - y \in S
    OBVIOUS
  <2>2. ~ (n - y < n - x)
    BY <1>4, <1>5, <2>1
  <2>3. x \in Nat /\ y \in Nat
    BY <1>1
  <2>. HIDE DEF S
  <2>. QED BY <2>2, <2>3
<1>. QED BY <1>6

\* Once allocated, a defined value is placed, in the file its definitions write.
LEMMA AllocatedFacts ==
  ASSUME RegAllocInv, pass = "done", at \notin Steps,
         NEW d \in Steps, NEW v \in Ids, Defines(d, v)
  PROVE  /\ v \in Placed
         /\ RegsOf(v) \subseteq Regs /\ reg[v] \in Nat
         /\ d <= lastUse[v] /\ lastUse[v] \in Nat
         /\ InFile(v, FileOf(d))
         /\ \A e \in Steps : Defines(e, v) => FileOf(e) = FileOf(d)
         /\ FileOf(d) = IF InVgpr(v) THEN "v" ELSE "s"
<1>1. v \in Placed
  <2>1. d < at
    BY StepFacts DEF RegAllocInv, RegAllocTypeOK, Steps
  <2>. QED BY <2>1 DEF RegAllocInv, DefinedIsPlaced, Allocating
<1>2. reg[v] \in Nat /\ lastUse[v] \in Nat
  BY <1>1, ShaderCapsAssumption DEF RegAllocInv, RegAllocTypeOK, Placed, Regs
<1>3. RegsOf(v) \subseteq Regs
  <2>1. reg[v] + Width(v) <= files[FileOf(d)].cap
    BY <1>1 DEF RegAllocInv, PlacedInFile
  <2>2. files[FileOf(d)].cap \in 0 .. MaxRegs
    BY FileFact DEF RegAllocInv, RegAllocTypeOK, FileSpecs
  <2>. QED BY <1>2, <2>1, <2>2, WidthFact, ShaderCapsAssumption DEF RegsOf, Regs
<1>4. d <= lastUse[v]
  BY DEF RegAllocInv, Covered, Scanned
<1>5. \A e \in Steps : Defines(e, v) => FileOf(e) = FileOf(d)
  BY DEF RegAllocInv, CopiesAgree
<1>6. FileOf(d) = IF InVgpr(v) THEN "v" ELSE "s"
  <2>1. CASE FileOf(d) = "v"
    <3> DEFINE T == {e \in Steps : Defines(e, v)}
    <3>1. PICK x \in T : \A y \in T : y <= x
      <4>1. Len(code) \in Nat
        BY LenProperties DEF RegAllocInv, RegAllocTypeOK
      <4>2. T \subseteq 0 .. Len(code)
        BY DEF Steps
      <4>3. d \in T
        OBVIOUS
      <4>. HIDE DEF T
      <4>. QED BY <4>1, <4>2, <4>3, LastPosition
    <3>2. \A j \in x + 1 .. Len(code) : ~ Defines(j, v)
      BY <3>1, StepFacts DEF RegAllocInv, RegAllocTypeOK, Steps
    <3>3. FileOf(x) = "v"
      BY <1>5, <2>1
    <3>4. InVgpr(v)
      BY <3>2, <3>3 DEF InVgpr
    <3>. QED BY <2>1, <3>4
  <2>2. CASE FileOf(d) # "v"
    <3>1. FileOf(d) = "s"
      BY <2>2, FileFact DEF FileNames
    <3>2. ~ InVgpr(v)
      BY <1>5, <2>2 DEF InVgpr
    <3>. QED BY <3>1, <3>2
  <2>. QED BY <2>1, <2>2
<1>. QED BY <1>1, <1>2, <1>3, <1>4, <1>5, <1>6 DEF InFile

\* What the invariant reads of the compiler's passes stays as it is.
LEMMA CompiledStays ==
  ASSUME raVars' = raVars, scratch' = scratch
  PROVE  /\ raInputs' = raInputs /\ Placed' = Placed
         /\ pass' = pass /\ at' = at /\ lastUse' = lastUse
         /\ \A v : RegsOf(v)' = RegsOf(v)
         /\ \A u, v : Precedes(u, v)' <=> Precedes(u, v)
         /\ ScratchFree' <=> ScratchFree
<1>1. /\ code' = code /\ vals' = vals /\ files' = files /\ pass' = pass /\ at' = at
      /\ lastUse' = lastUse /\ reg' = reg /\ raInputs' = raInputs
  BY DEF raVars, raInputs
<1>2. Placed' = Placed /\ \A v : RegsOf(v)' = RegsOf(v)
  BY <1>1 DEF Placed, RegsOf, Width
<1>3. \A u, v : Precedes(u, v)' <=> Precedes(u, v)
  BY <1>1 DEF Precedes, Steps, Defines, Tracked
<1>4. /\ \A i : WritesScratch(code[i])' <=> WritesScratch(code[i])
      /\ \A v : InVgpr(v)' <=> InVgpr(v)
      /\ \A v : Tracked(v)' <=> Tracked(v)
      /\ Steps' = Steps
  BY <1>1 DEF WritesScratch, Literal, ConstIn, StoresConst, InVgpr, Tracked, Steps, Defines, FileOf
<1>5. ScratchFree' <=> ScratchFree
  BY <1>1, <1>2, <1>4 DEF ScratchFree
<1>. QED BY <1>1, <1>2, <1>3, <1>5

LEMMA ScalarsStay ==
  ASSUME ScalarsResolve, raVars' = raVars, Running' => Running
  PROVE  ScalarsResolve'
<1>1. code' = code /\ vals' = vals /\ Steps' = Steps
  BY DEF raVars, raInputs, Steps
<1>. QED BY <1>1 DEF ScalarsResolve, Vgpr, InVgpr, Tracked, Defines, FileOf, Steps

\* A list runs when none of its instructions has been rejected.
LEMMA ScalarsStart ==
  ASSUME BackendNext
  PROVE  ScalarsResolve'
<1>1. Running' => \A j \in Steps : ~ Rejects(code[j], "BAD_SALU_OPERAND")
  BY DEF BackendNext, Splice, SpliceFull, Spliced, EmitProgram, EmitRejected,
     Unresolved, EmitErrors, Running
<1>2. code' = code /\ vals' = vals
  BY DEF BackendNext, Splice, SpliceFull, Spliced, EmitProgram, EmitRejected, Unresolved, raVars,
     raInputs
<1>. QED BY <1>1, <1>2 DEF ScalarsResolve, Rejects, Vgpr, InVgpr, Tracked, Defines, FileOf, Steps

\* Steps that leave what the invariant speaks of alone.
LEMMA QuietStep ==
  ASSUME WaveInv, raVars' = raVars, Running' <=> Running, stage' = "emit" => stage = "emit",
         pc' = pc, written' = written, held' = held, Running => scratch' = scratch
  PROVE  WaveInv'
<1>1. /\ raInputs' = raInputs /\ pass' = pass /\ at' = at /\ lastUse' = lastUse
      /\ reg' = reg /\ vals' = vals
  BY DEF raVars, raInputs
<1>2. Phases'
  BY <1>1, InputsStay DEF WaveInv, Phases
<1>3. WaveTypes'
  <2>1. \A v : Tracked(v)' <=> Tracked(v)
    BY <1>1 DEF Tracked
  <2>. QED BY <1>1, <2>1, InputsStay DEF WaveInv, WaveTypes
<1>0. ScalarsResolve'
  BY ScalarsStay DEF WaveInv
<1>4. CASE Running
  <2>1. scratch' = scratch
    BY <1>4
  <2>2. StillHeld' /\ PastThose'
    BY <1>1, <2>1, CompiledStays, InputsStay DEF WaveInv, StillHeld, PastThose
  <2>. QED BY <1>0, <1>2, <1>3, <2>2 DEF WaveInv
<1>5. CASE ~ Running
  <2>1. written' = {}
    BY <1>5 DEF WaveInv, Phases
  <2>2. StillHeld' /\ PastThose'
    BY <2>1 DEF StillHeld, PastThose
  <2>. QED BY <1>0, <1>2, <1>3, <2>2 DEF WaveInv
<1>. QED BY <1>4, <1>5

\* When the wave runs, the allocation is over and its facts hold.
LEMMA RunFacts ==
  ASSUME WaveInv, RegAllocInv, Ready
  PROVE  /\ Running /\ pass = "done" /\ at \notin Steps /\ pc \in Steps
         /\ \A v \in written : Tracked(v) /\ \E d \in Steps : Defines(d, v)
         /\ \A v : v \in Results(pc) <=> Defines(pc, v)
<1>1. Running /\ pass = "done" /\ pc \in Steps
  BY DEF Ready, Running, WaveInv, Phases
<1>2. at \notin Steps
  BY <1>1 DEF WaveInv, Phases
<1>3. \A v : v \in Results(pc) <=> Defines(pc, v)
  BY DEF Results, Defines, Tracked
<1>. QED BY <1>1, <1>2, <1>3 DEF WaveInv, WaveTypes

\* A list that runs writes its results where they are filed: a uniform
\* arithmetic shift right is filed in a VGPR and read by a scalar operation,
\* which has been rejected.
LEMMA FiledFact ==
  ASSUME RegAllocInv, ScalarsResolve, Running, pass = "done", at \notin Steps,
         SignMasksRead, ExtractsFiled, NEW i \in Steps, Results(i) # {}
  PROVE  WrittenFile(i) = FileOf(i)
<1>1. Defines(i, code[i].dst) /\ code[i].dst \in Ids /\ Tracked(code[i].dst)
  BY DEF Results, Defines, Tracked
<1>2. CASE code[i].op = "S_ASHR"
  <2>1. FileOf(i) = "v"
    BY <1>2 DEF FileOf, ResultIsVgpr, ScalarAlu
  <2>2. InVgpr(code[i].dst)
    BY <1>1, <2>1, AllocatedFacts
  <2>3. PICK j \in Steps : code[j].op \in Sop2 /\ "b" \notin code[j].imm
                          /\ code[j].b = code[i].dst
    BY <1>1, <1>2 DEF SignMasksRead
  <2>4. Vgpr(code[j], "b")
    BY <1>1, <2>2, <2>3 DEF Vgpr
  <2>. QED BY <2>3, <2>4 DEF ScalarsResolve
<1>3. CASE code[i].op = "EXTRACT"
  BY <1>3 DEF ExtractsFiled, WrittenFile, FileOf, ResultIsVgpr, Sop2, ScalarAlu
<1>4. CASE code[i].op \notin {"S_ASHR", "EXTRACT"}
  BY <1>4 DEF WrittenFile, FileOf, ResultIsVgpr, Sop2
<1>. QED BY <1>2, <1>3, <1>4

\* So an instruction overwrites the registers of its result, and no others.
LEMMA OverwrittenFact ==
  ASSUME WaveInv, RegAllocInv, Encodable, Ready, NEW f
  PROVE  Overwritten(pc, f) = IF f = FileOf(pc) THEN UNION {Taken(v) : v \in Results(pc)} ELSE {}
<1>1. Running /\ pass = "done" /\ at \notin Steps /\ pc \in Steps
  BY RunFacts
<1> DEFINE w == code[pc].dst
<1>2. CASE Results(pc) = {}
  BY <1>2 DEF Overwritten
<1>3. CASE Results(pc) # {}
  <2>1. Results(pc) = {w} /\ Defines(pc, w) /\ w \in Ids
    BY <1>3 DEF Results, Defines, Tracked
  <2>2. WrittenFile(pc) = FileOf(pc)
    BY <1>1, <1>3, FiledFact DEF WaveInv, Encodable
  <2>3. w \in Placed /\ reg[w] \in Nat
    BY <1>1, <2>1, AllocatedFacts
  <2>4. WrittenRegs(pc) = RegsOf(w)
    <3>1. code[pc].op = "V_MOV" => Width(w) = 1
      BY <1>1 DEF Encodable, MovesFit
    <3>2. reg[w] .. reg[w] + 1 - 1 = {reg[w]}
      BY <2>3
    <3>. QED BY <3>1, <3>2 DEF WrittenRegs, RegsOf
  <2>5. UNION {Taken(v) : v \in Results(pc)} = RegsOf(w)
    BY <2>1, <2>3 DEF Taken
  <2>. HIDE DEF w
  <2>. QED BY <2>1, <2>2, <2>3, <2>4, <2>5 DEF Overwritten
<1>. QED BY <1>2, <1>3

\* Executing an instruction disturbs no value that is still to be read: its
\* result shares registers only with values whose interval is over, or whose
\* definition is still to come.
LEMMA ResultDisturbsNone ==
  ASSUME WaveInv, RegAllocInv, Ready,
         NEW v \in written, pc + 1 <= lastUse[v], NEW w \in Results(pc), w # v,
         NEW d \in Steps, Defines(d, v), FileOf(d) = FileOf(pc)
  PROVE  RegsOf(v) \cap Taken(w) = {}
<1>1. /\ pc \in Steps /\ pass = "done" /\ at \notin Steps
      /\ Defines(pc, w) /\ v \in Ids /\ w \in Ids
  BY RunFacts DEF Defines, Tracked
<1>2. pc \in Nat
  BY <1>1, StepFacts DEF RegAllocInv, RegAllocTypeOK
<1>3. /\ v \in Placed /\ lastUse[v] \in Nat
      /\ w \in Placed /\ lastUse[w] \in Nat /\ pc <= lastUse[w]
  BY <1>1, AllocatedFacts
<1>4. ~ Precedes(v, w)
  BY <1>1, <1>2, <1>3 DEF Precedes
<1>5. ~ Precedes(w, v)
  <2>1. Precedes(w, v) => lastUse[w] < pc
    BY <1>3 DEF WaveInv, PastThose
  <2>. QED BY <1>2, <1>3, <2>1
<1>6. \E f \in FileNames : InFile(v, f) /\ InFile(w, f)
  BY <1>1, FileFact DEF InFile
<1>7. RegsOf(v) \cap RegsOf(w) = {}
  BY <1>3, <1>4, <1>5, <1>6 DEF RegAllocInv, SharersOrdered
<1>. QED BY <1>3, <1>7 DEF Taken

\* A constant goes to the scratch register, which no vector value holds.
LEMMA ConstantDisturbsNone ==
  ASSUME RegAllocInv, pass = "done", at \notin Steps, ScratchFree,
         NEW i \in Steps, WritesScratch(code[i]),
         NEW d \in Steps, NEW v \in Ids, Defines(d, v), FileOf(d) = "v"
  PROVE  scratch \notin RegsOf(v)
<1>1. v \in Placed /\ InVgpr(v)
  BY AllocatedFacts
<1>2. Tracked(v)
  BY DEF Defines
<1>. QED BY <1>1, <1>2 DEF ScratchFree

LEMMA ExecuteStep ==
  ASSUME WaveInv, RegAllocInv, Encodable, Execute
  PROVE  WaveInv'
<1>1. Ready /\ raVars' = raVars /\ stage' = stage /\ scratch' = scratch
  BY DEF Execute, backendVars
<1>2. /\ pc' = pc + 1 /\ written' = written \cup Results(pc)
      /\ held' = [f \in FileNames |-> HeldAfter(pc, f)]
  BY DEF Execute
<1>3. /\ Running /\ pass = "done" /\ at \notin Steps /\ pc \in Steps
      /\ \A v \in written : Tracked(v) /\ \E d \in Steps : Defines(d, v)
      /\ \A v : v \in Results(pc) <=> Defines(pc, v)
  BY <1>1, RunFacts
<1>4. /\ raInputs' = raInputs /\ vals' = vals /\ Steps' = Steps
      /\ Placed' = Placed /\ pass' = pass /\ at' = at /\ lastUse' = lastUse
      /\ (\A v : RegsOf(v)' = RegsOf(v))
      /\ (\A i, v : Defines(i, v)' <=> Defines(i, v))
      /\ (\A i : FileOf(i)' = FileOf(i))
      /\ (\A u, v : Precedes(u, v)' <=> Precedes(u, v))
      /\ (ScratchFree' <=> ScratchFree)
  BY <1>1, CompiledStays, InputsStay DEF raVars
<1>5. pc \in Nat \ {0} /\ code[pc].dst \in Ids \cup {NoId}
  BY <1>3, StepFacts DEF RegAllocInv, RegAllocTypeOK
<1>0. /\ \A f : Overwritten(pc, f) = IF f = FileOf(pc)
                                      THEN UNION {Taken(v) : v \in Results(pc)} ELSE {}
      /\ ScalarsResolve'
  BY <1>1, OverwrittenFact, ScalarsStay DEF WaveInv, Running
<1>6. Phases'
  BY <1>1, <1>3, <1>4 DEF Phases, Running
<1>7. \A v \in written' : Tracked(v) /\ \E d \in Steps : Defines(d, v)
  BY <1>2, <1>3 DEF Defines
<1>8. WaveTypes'
  <2>1. held' \in [FileNames -> [Regs -> Ids \cup {NoId}]]
    <3>1. \A f \in FileNames : HeldAfter(pc, f) \in [Regs -> Ids \cup {NoId}]
      BY <1>5 DEF HeldAfter, WaveInv, WaveTypes
    <3>. QED BY <1>2, <3>1
  <2>2. \A v : Tracked(v)' <=> Tracked(v)
    BY <1>4 DEF Tracked
  <2>3. \A v \in written' : v \in Ids
    BY <1>7 DEF Tracked
  <2>. QED BY <1>2, <1>4, <1>5, <1>7, <2>1, <2>2, <2>3 DEF WaveTypes
<1>9. StillHeld'
  <2>1. ASSUME NEW v \in written', ScratchFree, pc + 1 <= lastUse[v],
               NEW d \in Steps, Defines(d, v), NEW r \in RegsOf(v)
        PROVE  held'[FileOf(d)][r] = v
    <3>1. v \in Ids /\ FileOf(d) \in FileNames
      BY <1>7, <2>1, FileFact DEF Tracked
    <3>2. /\ v \in Placed /\ r \in Regs /\ lastUse[v] \in Nat
          /\ \A e \in Steps : Defines(e, v) => FileOf(e) = FileOf(d)
      BY <1>3, <2>1, <3>1, AllocatedFacts
    <3>3. held'[FileOf(d)][r] = HeldAfter(pc, FileOf(d))[r]
      BY <1>2, <3>1
    <3>4. CASE v \in Results(pc)
      <4>1. FileOf(d) = FileOf(pc) /\ code[pc].dst = v /\ r \in Taken(v)
        BY <1>3, <2>1, <3>2, <3>4 DEF Defines, Taken
      <4>. QED BY <1>0, <3>2, <3>3, <3>4, <4>1 DEF HeldAfter
    <3>5. CASE v \notin Results(pc)
      <4>1. v \in written
        BY <1>2, <2>1, <3>5
      <4>2. held[FileOf(d)][r] = v
        <5>1. pc <= lastUse[v]
          BY <1>5, <2>1, <3>2
        <5>. QED BY <2>1, <4>1, <5>1 DEF WaveInv, StillHeld
      <4>3. FileOf(d) = FileOf(pc) => \A w \in Results(pc) : r \notin Taken(w)
        BY <1>1, <2>1, <3>5, <4>1, ResultDisturbsNone
      <4>4. FileOf(d) = "v" /\ WritesScratch(code[pc]) => r # scratch
        BY <1>3, <2>1, <3>1, ConstantDisturbsNone
      <4>. QED BY <1>0, <3>2, <3>3, <4>2, <4>3, <4>4 DEF HeldAfter
    <3>. QED BY <3>4, <3>5
  <2>. QED BY <1>2, <1>4, <2>1 DEF StillHeld
<1>10. PastThose'
  <2>1. ASSUME NEW v \in written', NEW u \in Placed, Precedes(u, v)
        PROVE  lastUse[u] < pc + 1
    <3>1. lastUse[u] < pc
      BY <1>2, <1>3, <2>1 DEF WaveInv, PastThose, Precedes
    <3>2. lastUse[u] \in Nat
      BY DEF Placed, RegAllocInv, RegAllocTypeOK
    <3>. QED BY <1>5, <3>1, <3>2
  <2>. QED BY <1>2, <1>4, <2>1 DEF PastThose
<1>. QED BY <1>0, <1>6, <1>8, <1>9, <1>10 DEF WaveInv

\* A branch taken keeps the invariant: forward trivially, backward because no
\* interval ends inside the loop it closes.
LEMMA JumpStep ==
  ASSUME WaveInv, RegAllocInv, Structured, Jump
  PROVE  WaveInv'
<1>1. Ready /\ raVars' = raVars /\ stage' = stage /\ scratch' = scratch
  BY DEF Jump, backendVars
<1>2. /\ code[pc].op \in Branches /\ pc' \in LabelAt(BranchTo(pc))
      /\ written' = written /\ held' = held
  BY DEF Jump
<1>3. /\ Running /\ pass = "done" /\ at \notin Steps /\ pc \in Steps
      /\ \A v \in written : Tracked(v) /\ \E d \in Steps : Defines(d, v)
  BY <1>1, RunFacts
<1>4. /\ raInputs' = raInputs /\ vals' = vals /\ Steps' = Steps
      /\ Placed' = Placed /\ pass' = pass /\ at' = at /\ lastUse' = lastUse
      /\ (\A v : RegsOf(v)' = RegsOf(v))
      /\ (\A i, v : Defines(i, v)' <=> Defines(i, v))
      /\ (\A i : FileOf(i)' = FileOf(i))
      /\ (\A u, v : Precedes(u, v)' <=> Precedes(u, v))
      /\ (ScratchFree' <=> ScratchFree)
  BY <1>1, CompiledStays, InputsStay DEF raVars
<1>5. pc' \in Steps /\ code[pc'].op = "LABEL" /\ code[pc'].a = BranchTo(pc)
  BY <1>2 DEF LabelAt
<1>6. pc \in Nat \ {0} /\ pc' \in Nat \ {0} /\ \A i \in Steps : i \in Nat
  BY <1>3, <1>5, StepFacts DEF RegAllocInv, RegAllocTypeOK
<1>7. ASSUME pc' < pc PROVE BackEdge(pc', pc)
  <2>1. code[pc].op # "S_CBRANCH_EXECZ"
    <3>1. code[pc].op = "S_CBRANCH_EXECZ" => pc < pc'
      BY <1>2, <1>3, <1>5 DEF Structured
    <3>. QED BY <1>6, <1>7, <3>1
  <2>2. code[pc].op \in {"S_BRANCH", "S_CBRANCH"} /\ BranchTo(pc) = TargetLabel(pc)
    BY <1>2, <2>1 DEF Branches, BranchTo, TargetLabel
  <2>3. \A j \in 1 .. pc' - 1 : ~ (code[j].op = "LABEL" /\ code[j].a = TargetLabel(pc))
    <3>1. ASSUME NEW j \in 1 .. pc' - 1, code[j].op = "LABEL", code[j].a = TargetLabel(pc)
          PROVE  FALSE
      <4>1. j \in Steps /\ j # pc'
        <5>1. Len(code) \in Nat
          BY LenProperties DEF RegAllocInv, RegAllocTypeOK
        <5>2. pc' <= Len(code)
          BY <1>5 DEF Steps
        <5>3. \A n \in Nat : \A k \in 1 .. n - 1 : k \in Nat \ {0} /\ k < n
          OBVIOUS
        <5>4. j \in Nat \ {0} /\ j < pc'
          BY <1>6, <5>3
        <5>5. j <= Len(code)
          BY <1>6, <5>1, <5>2, <5>4
        <5>. QED BY <1>6, <5>1, <5>4, <5>5 DEF Steps
      <4>. QED BY <1>5, <2>2, <3>1, <4>1 DEF Structured
    <3>. QED BY <3>1
  <2>. QED BY <1>3, <1>5, <1>7, <2>2, <2>3 DEF BackEdge
<1>8. \A v \in Ids : pc' < pc => ~ EndsInLoop(v, pc', pc)
  BY <1>3, <1>5, <1>7 DEF RegAllocInv, LoopsClosed, Visited, Allocating
<1>9. \A v \in Ids : lastUse[v] \in Nat
  BY DEF RegAllocInv, RegAllocTypeOK
<1>10. \A v \in Ids : pc' <= lastUse[v] => pc <= lastUse[v]
  BY <1>6, <1>8, <1>9 DEF EndsInLoop
<1>11. \A v \in Ids : lastUse[v] < pc => lastUse[v] < pc'
  BY <1>6, <1>9, <1>10
<1>12. Phases' /\ WaveTypes'
  <2>1. \A v : Tracked(v)' <=> Tracked(v)
    BY <1>4 DEF Tracked
  <2>2. Phases'
    BY <1>1, <1>3, <1>4 DEF Phases, Running
  <2>3. WaveTypes'
    BY <1>2, <1>4, <1>6, <2>1 DEF WaveInv, WaveTypes
  <2>. QED BY <2>2, <2>3
<1>13. StillHeld'
  <2>1. ASSUME NEW v \in written, ScratchFree, pc' <= lastUse[v],
               NEW d \in Steps, Defines(d, v), NEW r \in RegsOf(v)
        PROVE  held[FileOf(d)][r] = v
    <3>1. pc <= lastUse[v]
      BY <1>3, <1>10, <2>1 DEF Tracked
    <3>. QED BY <2>1, <3>1 DEF WaveInv, StillHeld
  <2>. QED BY <1>2, <1>4, <2>1 DEF StillHeld
<1>14. PastThose'
  <2>1. ASSUME NEW v \in written, NEW u \in Placed, Precedes(u, v)
        PROVE  lastUse[u] < pc'
    <3>1. lastUse[u] < pc /\ u \in Ids
      BY <2>1 DEF WaveInv, PastThose, Placed
    <3>. QED BY <1>11, <3>1
  <2>. QED BY <1>2, <1>4, <2>1 DEF PastThose
<1>15. ScalarsResolve'
  BY <1>1, ScalarsStay DEF WaveInv, Running
<1>. QED BY <1>12, <1>13, <1>14, <1>15 DEF WaveInv

LEMMA AllocatingStep ==
  ASSUME WaveInv, RegAllocInv, RegAllocNext, UNCHANGED <<backendVars, waveVars>>
  PROVE  WaveInv'
<1>1. stage' = stage /\ pc' = pc /\ written' = written /\ held' = held
  BY DEF backendVars, waveVars
<1>2. pass # "done"
  BY DEF WaveInv, Phases, RegAllocNext, ScanIntervals, IntervalsScanned, ExtendOverLoop,
     RoundEnds, Assign, Skip, Exhausted, Assigned
<1>3. ~ Running /\ stage # "emit" /\ written = {}
  BY <1>2 DEF WaveInv, Phases
<1>4. raInputs' = raInputs
  BY StepKeepsInputs
<1>5. pass' = "done" => at' \notin Steps
  BY <1>2 DEF RegAllocNext, ScanIntervals, IntervalsScanned, ExtendOverLoop,
     RoundEnds, Assign, Skip, Exhausted, Assigned
<1>6. Phases'
  BY <1>1, <1>3, <1>4, <1>5, InputsStay DEF Phases, Running
<1>7. WaveTypes'
  BY <1>1, <1>3 DEF WaveInv, WaveTypes
<1>8. StillHeld' /\ PastThose'
  BY <1>1, <1>3 DEF StillHeld, PastThose
<1>9. ScalarsResolve'
  BY <1>1, <1>3 DEF ScalarsResolve, Running
<1>. QED BY <1>6, <1>7, <1>8, <1>9 DEF WaveInv

\* The list starts with nothing written.
LEMMA StartStep ==
  ASSUME WaveInv, BackendNext, UNCHANGED waveVars
  PROVE  WaveInv'
<1>1. /\ raVars' = raVars /\ pc' = pc /\ written' = written /\ held' = held
      /\ stage \in {"waits", "emit"}
  BY DEF BackendNext, waveVars, Splice, SpliceFull, Spliced, EmitProgram, EmitRejected, Unresolved
<1>2. ~ Running /\ written = {}
  BY <1>1 DEF Running, WaveInv, Phases
<1>3. stage' \in {"emit", "run", "ended"} => pass = "done"
  BY DEF WaveInv, Phases, BackendNext, Splice, SpliceFull, Spliced, EmitProgram,
     EmitRejected, Unresolved, EmitErrors
<1>4. raInputs' = raInputs /\ pass' = pass /\ at' = at
  BY <1>1 DEF raVars, raInputs
<1>5. Phases'
  BY <1>1, <1>2, <1>3, <1>4, InputsStay DEF WaveInv, Phases, Running
<1>6. WaveTypes'
  BY <1>1, <1>2 DEF WaveInv, WaveTypes
<1>7. StillHeld' /\ PastThose'
  BY <1>1, <1>2 DEF StillHeld, PastThose
<1>8. ScalarsResolve'
  BY ScalarsStart
<1>. QED BY <1>5, <1>6, <1>7, <1>8 DEF WaveInv

LEMMA StructuredStays ==
  ASSUME Structured, raInputs' = raInputs
  PROVE  Structured'
BY DEF raInputs, Structured, Steps, LabelAt, BranchTo

LEMMA EncodableStays ==
  ASSUME raInputs' = raInputs
  PROVE  /\ SignMasksRead => SignMasksRead'
         /\ ExtractsFiled => ExtractsFiled'
         /\ Encodable => Encodable'
<1>1. code' = code /\ vals' = vals /\ Steps' = Steps
  BY DEF raInputs, Steps
<1>. QED BY <1>1 DEF Encodable, SignMasksRead, ExtractsFiled, MovesFit, Width

LEMMA WaveInvInit ==
  ASSUME Init
  PROVE  WaveInv
<1>1. stage = "waits" /\ pass = "intervals" /\ written = {} /\ pc = 1
  BY DEF Init, RegAllocInit, BackendInit, WaveInit
<1>2. Phases
  BY <1>1 DEF Phases, Running
<1>3. WaveTypes
  BY <1>1 DEF WaveTypes, Init, WaveInit
<1>. QED BY <1>1, <1>2, <1>3 DEF WaveInv, StillHeld, PastThose, ScalarsResolve, Running

LEMMA WaveInvStep ==
  ASSUME WaveInv, RegAllocInv, Structured, Encodable, [Next]_vars
  PROVE  WaveInv'
<1>1. CASE RegAllocNext /\ UNCHANGED <<backendVars, waveVars>>
  BY <1>1, AllocatingStep
<1>2. CASE BackendNext /\ UNCHANGED waveVars
  BY <1>2, StartStep
<1>3. CASE Execute
  BY <1>3, ExecuteStep
<1>4. CASE Jump
  BY <1>4, JumpStep
<1>5. CASE EndProgram
  <2>1. raVars' = raVars /\ pc' = pc /\ written' = written /\ held' = held /\ scratch' = scratch
    BY <1>5 DEF EndProgram, raVars, waveVars
  <2>2. Running /\ Running' /\ stage' # "emit"
    BY <1>5 DEF EndProgram, Ready, Running
  <2>. QED BY <2>1, <2>2, QuietStep
<1>6. CASE (\E u \in Ids : LoadReturns(u)) \/ StoreCompletes \/ UNCHANGED vars
  <2>1. /\ raVars' = raVars /\ pc' = pc /\ written' = written /\ held' = held
        /\ scratch' = scratch /\ stage' = stage
    BY <1>6 DEF LoadReturns, StoreCompletes, vars, raVars, backendVars, waveVars
  <2>2. Running' <=> Running
    BY <2>1 DEF Running
  <2>. QED BY <2>1, <2>2, QuietStep
<1>. QED BY <1>1, <1>2, <1>3, <1>4, <1>5, <1>6 DEF Next, WaveNext

\* The compiled list computes with the values it names: whatever the list, the
\* value table and the register budget, and whichever way its branches go, an
\* instruction finds its operands in its registers.
THEOREM CompiledReads == Spec /\ Structured /\ Encodable => []ReadsFindTheirValue
<1>1. Init => WaveInv
  BY WaveInvInit
<1>2. WaveInv /\ RegAllocInv /\ Structured /\ Encodable /\ [Next]_vars => WaveInv'
  BY WaveInvStep
<1>3. Structured /\ Encodable /\ [Next]_vars => Structured' /\ Encodable'
  BY AllocatorStep, StepKeepsInputs, StructuredStays, EncodableStays
<1>4. WaveInv /\ RegAllocInv => ReadsFindTheirValue
  <2>1. SUFFICES ASSUME WaveInv, RegAllocInv, NEW v \in written, ReadNow(v), ScratchFree,
                        NEW r \in Taken(v)
                 PROVE  held[IF InVgpr(v) THEN "v" ELSE "s"][r] = v
    BY DEF ReadsFindTheirValue
  <2>2. Ready /\ Reads(pc, v)
    BY <2>1 DEF ReadNow
  <2>3. pass = "done" /\ at \notin Steps /\ pc \in Steps /\ Tracked(v)
    BY <2>1, <2>2, RunFacts
  <2>4. PICK d \in Steps : Defines(d, v)
    BY <2>1, <2>2, RunFacts
  <2>5. v \in Placed /\ FileOf(d) = IF InVgpr(v) THEN "v" ELSE "s"
    BY <2>1, <2>3, <2>4, AllocatedFacts DEF Tracked
  <2>6. pc <= lastUse[v]
    BY <2>1, <2>2, <2>3 DEF RegAllocInv, Covered, Scanned, Tracked
  <2>7. r \in RegsOf(v)
    BY <2>1, <2>5 DEF Taken
  <2>. QED BY <2>1, <2>4, <2>5, <2>6, <2>7 DEF WaveInv, StillHeld
<1>. QED BY <1>1, <1>2, <1>3, <1>4, ContainsAllocator, InvHolds, PTL DEF Spec

-----------------------------------------------------------------------------
(* Types.                                                                  *)

LEMMA ScratchIsRegister ==
  ASSUME RegAllocTypeOK
  PROVE  ScratchVgpr \in Nat
<1> DEFINE used == {reg[v] + 1 : v \in {u \in Ids : Tracked(u) /\ InVgpr(u)}}
           S == used \cup {files["v"].base}
<1>1. files["v"].base \in Nat /\ MaxRegs \in Nat
  BY ShaderCapsAssumption DEF RegAllocTypeOK, FileNames, FileSpecs
<1>2. ASSUME NEW v \in Ids PROVE reg[v] + 1 \in 0 .. MaxRegs
  <2>1. reg[v] \in 0 .. MaxRegs - 1 \/ reg[v] = -1
    BY DEF RegAllocTypeOK, Regs, NoReg
  <2>. QED BY <1>1, <2>1
<1>3. S \subseteq 0 .. (MaxRegs + files["v"].base)
  <2>1. used \subseteq 0 .. MaxRegs
    BY <1>2
  <2>2. \A q \in 0 .. MaxRegs : q \in 0 .. (MaxRegs + files["v"].base)
    BY <1>1
  <2>3. files["v"].base \in 0 .. (MaxRegs + files["v"].base)
    BY <1>1
  <2>. HIDE DEF used
  <2>. QED BY <2>1, <2>2, <2>3
<1>4. \E r \in S : \A q \in S : q <= r
  <2>1. MaxRegs + files["v"].base \in Nat /\ S # {}
    BY <1>1
  <2>. HIDE DEF S
  <2>. QED BY <1>3, <2>1, LastPosition
<1>5. ScratchVgpr \in S
  <2>1. ScratchVgpr = CHOOSE r \in S : \A q \in S : q <= r
    BY DEF ScratchVgpr
  <2>. HIDE DEF S
  <2>. QED BY <1>4, <2>1
<1>. HIDE DEF S
<1>. QED BY <1>1, <1>3, <1>5

\* The passes after the allocator keep their variables in their types.
LEMMA BackendTypeStep ==
  ASSUME BackendTypeOK, RegAllocTypeOK', BackendNext
  PROVE  BackendTypeOK'
<1>0. RegAllocTypeOK /\ ListCap \in Nat
  BY ListCapAssumption DEF BackendTypeOK
<1>1. CASE Splice
  <2> DEFINE i == Len(waits) + 1
             w == WaitBefore(i)
  <2>1. i \in Steps
    <3>1. Len(waits) \in Nat /\ Len(code) \in Nat /\ Len(waits) < Len(code)
      BY <1>0, <1>1, LenProperties DEF BackendTypeOK, RegAllocTypeOK, Splice
    <3>. QED BY <3>1 DEF Steps
  <2>2. w \in Waits
    BY DEF WaitBefore, Waits
  <2>3. waits' \in Seq(Waits)
    BY <1>1, <2>2, AppendProperties DEF BackendTypeOK, Splice
  <2>4. emitted' \in 0 .. ListCap
    <3>1. emitted' = emitted + (IF w = "none" THEN 1 ELSE 2) /\ emitted' <= ListCap
      BY <1>1 DEF Splice, SpliceRoom
    <3>. QED BY <1>0, <3>1 DEF BackendTypeOK
  <2>5. owed' \subseteq Ids \cup {NoId}
    <3>1. code[i].dst \in Ids \cup {NoId}
      BY <1>0, <2>1, StepFacts DEF RegAllocTypeOK
    <3>. QED BY <1>1, <3>1 DEF BackendTypeOK, Splice
  <2>6. anyVmem' \in BOOLEAN
    BY <1>1, Zenon DEF Splice
  <2>. QED BY <1>1, <2>3, <2>4, <2>5, <2>6 DEF BackendTypeOK, Splice
<1>2. CASE SpliceFull \/ Spliced
  BY <1>2 DEF BackendTypeOK, BackendStages, SpliceFull, Spliced
<1>3. CASE EmitProgram \/ EmitRejected \/ Unresolved
  <2>1. scratch' \in Nat
    BY <1>0, <1>3, ScratchIsRegister DEF EmitProgram, EmitRejected, Unresolved
  <2>2. stage' \in BackendStages
    BY <1>3 DEF EmitProgram, EmitRejected, Unresolved, BackendStages, EmitErrors
  <2>3. waits' = waits /\ emitted' = emitted /\ owed' = owed /\ anyVmem' = anyVmem
    BY <1>3 DEF EmitProgram, EmitRejected, Unresolved
  <2>. QED BY <2>1, <2>2, <2>3 DEF BackendTypeOK
<1>. QED BY <1>1, <1>2, <1>3 DEF BackendNext

LEMMA WaveTypeInit ==
  ASSUME Init
  PROVE  WaveTypeOK
<1>1. RegAllocTypeOK
  BY TypeInit DEF Init
<1>2. /\ stage = "waits" /\ waits = <<>> /\ emitted = 0
      /\ owed = {} /\ anyVmem = FALSE /\ scratch = 0
  BY DEF Init, BackendInit
<1>3. BackendTypeOK
  <2>1. anyVmem \in BOOLEAN
    BY <1>2, Zenon
  <2>2. waits \in Seq(Waits) /\ emitted \in 0 .. ListCap /\ stage \in BackendStages
    BY <1>2, ListCapAssumption DEF BackendStages
  <2>3. owed \subseteq Ids \cup {NoId} /\ scratch \in Nat
    BY <1>2
  <2>. QED BY <1>1, <2>1, <2>2, <2>3 DEF BackendTypeOK
<1>4. /\ pc = 1 /\ written = {} /\ flight = {} /\ skipped = {} /\ storing = FALSE
      /\ held = [f \in FileNames |-> [r \in Regs |-> NoId]]
      /\ late = [r \in Regs |-> NoId]
  BY DEF Init, WaveInit
<1>5. storing \in BOOLEAN
  BY <1>4, Zenon
<1>6. held \in [FileNames -> [Regs -> Ids \cup {NoId}]] /\ late \in [Regs -> Ids \cup {NoId}]
  BY <1>4
<1>7. pc \in Nat \ {0} /\ written \subseteq Ids /\ flight \subseteq Ids /\ skipped \subseteq Ids
  BY <1>4
<1>. QED BY <1>3, <1>5, <1>6, <1>7 DEF WaveTypeOK

LEMMA WaveTypeStep ==
  ASSUME WaveTypeOK, [Next]_vars
  PROVE  WaveTypeOK'
<1>0. BackendTypeOK /\ RegAllocTypeOK
  BY DEF WaveTypeOK, BackendTypeOK
<1>1. RegAllocTypeOK'
  BY <1>0, AllocatorStep, TypeStep
<1>2. CASE RegAllocNext /\ UNCHANGED <<backendVars, waveVars>>
  BY <1>1, <1>2 DEF WaveTypeOK, BackendTypeOK, backendVars, waveVars
<1>3. CASE BackendNext /\ UNCHANGED waveVars
  <2>1. BackendTypeOK'
    BY <1>0, <1>1, <1>3, BackendTypeStep
  <2>. QED BY <1>3, <2>1 DEF WaveTypeOK, waveVars
<1>4. CASE Execute
  <2>1. BackendTypeOK'
    BY <1>0, <1>1, <1>4 DEF Execute, BackendTypeOK, backendVars
  <2>2. pc \in Steps /\ code[pc].dst \in Ids \cup {NoId} /\ Results(pc) \subseteq Ids
    BY <1>0, <1>4, StepFacts DEF Execute, Ready, RegAllocTypeOK, Results
  <2>3. pc' \in Nat \ {0} /\ written' \subseteq Ids
    BY <1>4, <2>2 DEF Execute, WaveTypeOK
  <2>4. held' \in [FileNames -> [Regs -> Ids \cup {NoId}]]
    <3>1. \A f \in FileNames : HeldAfter(pc, f) \in [Regs -> Ids \cup {NoId}]
      BY <2>2 DEF HeldAfter, WaveTypeOK
    <3>. QED BY <1>4, <3>1 DEF Execute
  <2>5. late' \in [Regs -> Ids \cup {NoId}]
    BY <1>4 DEF Execute, WaveTypeOK
  <2>6. flight' \subseteq Ids /\ skipped' \subseteq Ids
    BY <1>4, <2>2 DEF Execute, WaveTypeOK
  <2>7. storing' \in BOOLEAN
    BY <1>4, Zenon DEF Execute
  <2>. QED BY <2>1, <2>3, <2>4, <2>5, <2>6, <2>7 DEF WaveTypeOK
<1>5. CASE Jump
  <2>1. BackendTypeOK'
    BY <1>0, <1>1, <1>5 DEF Jump, BackendTypeOK, backendVars
  <2>2. pc' \in Nat \ {0}
    BY <1>0, <1>5, StepFacts DEF Jump, LabelAt, RegAllocTypeOK
  <2>. QED BY <1>5, <2>1, <2>2 DEF Jump, WaveTypeOK
<1>6. CASE EndProgram
  BY <1>0, <1>1, <1>6 DEF EndProgram, WaveTypeOK, BackendTypeOK, BackendStages, waveVars
<1>7. CASE (\E u \in Ids : LoadReturns(u)) \/ StoreCompletes
  <2>1. BackendTypeOK'
    BY <1>0, <1>1, <1>7 DEF LoadReturns, StoreCompletes, BackendTypeOK, backendVars
  <2>2. late' \in [Regs -> Ids \cup {NoId}] /\ flight' \subseteq Ids
    BY <1>7 DEF LoadReturns, StoreCompletes, WaveTypeOK
  <2>3. storing' \in BOOLEAN
    BY <1>7 DEF LoadReturns, StoreCompletes, WaveTypeOK
  <2>4. pc' = pc /\ written' = written /\ held' = held /\ skipped' = skipped
    BY <1>7 DEF LoadReturns, StoreCompletes
  <2>. QED BY <2>1, <2>2, <2>3, <2>4 DEF WaveTypeOK
<1>8. CASE UNCHANGED vars
  BY <1>0, <1>1, <1>8 DEF vars, backendVars, waveVars, WaveTypeOK, BackendTypeOK
<1>. QED BY <1>2, <1>3, <1>4, <1>5, <1>6, <1>7, <1>8 DEF Next, WaveNext

\* Every pass and the machine keep their variables in their types; the spliced
\* list never outgrows its buffer, and the scratch register is a register number.
THEOREM WaveTyped == Spec => []WaveTypeOK
<1>1. Init => WaveTypeOK
  BY WaveTypeInit
<1>2. WaveTypeOK /\ [Next]_vars => WaveTypeOK'
  BY WaveTypeStep
<1>. QED BY <1>1, <1>2, PTL DEF Spec

-----------------------------------------------------------------------------
(* The waits in the text.                                                  *)

MemoryAt(i) == code[i].op \in Loads \cup Stores

\* Instruction p loads value u.
LoadAt(p, u) == p \in Steps /\ code[p].op \in Loads /\ Defines(p, u)

\* No wait stands in front of the instructions m .. n.
Quiet(m, n) == \A k \in m .. n : waits[k] = "none"

\* What the pass remembers of the text it has spliced.
Remembered ==
  /\ Len(waits) <= Len(code)
  /\ stage = "emit" \/ Running => Len(waits) = Len(code)
  /\ \A j \in 1 .. Len(waits) : MemoryAt(j) => anyVmem
  /\ \A p \in 1 .. Len(waits) :
       code[p].op \in Loads /\ Quiet(p + 1, Len(waits)) => code[p].dst \in owed

\* An s_endpgm below a memory instruction waits for everything.
EndsWait ==
  \A i, j \in 1 .. Len(waits) :
    code[i].op = "S_ENDPGM" /\ j < i /\ MemoryAt(j) => waits[i] = "all"

\* A read below a load of the value has a wait in front of it or between the two.
LoadsWaited ==
  \A p, i \in 1 .. Len(waits), u \in Ids :
    p < i /\ LoadAt(p, u) /\ Reads(i, u) /\ Quiet(p + 1, i - 1) => waits[i] # "none"

WaitInv == Remembered /\ EndsWait /\ LoadsWaited

\* Steps that leave the spliced text as it is.
LEMMA TextStays ==
  ASSUME WaitInv, raInputs' = raInputs, waits' = waits, owed' = owed, anyVmem' = anyVmem,
         (stage = "emit" \/ Running)' => stage = "emit" \/ Running \/ Len(waits) = Len(code)
  PROVE  WaitInv'
<1>1. /\ code' = code /\ Steps' = Steps
      /\ \A i, v : (Defines(i, v)' <=> Defines(i, v)) /\ (Reads(i, v)' <=> Reads(i, v))
  BY InputsStay DEF raInputs
<1>2. /\ \A i : MemoryAt(i)' <=> MemoryAt(i)
      /\ \A m, n : Quiet(m, n)' <=> Quiet(m, n)
      /\ \A p, u : LoadAt(p, u)' <=> LoadAt(p, u)
  BY <1>1 DEF MemoryAt, Quiet, LoadAt
<1>3. Remembered'
  BY <1>1, <1>2 DEF WaitInv, Remembered
<1>4. EndsWait' /\ LoadsWaited'
  BY <1>1, <1>2 DEF WaitInv, EndsWait, LoadsWaited
<1>. QED BY <1>3, <1>4 DEF WaitInv

LEMMA SpliceStep ==
  ASSUME WaveTypeOK, WaitInv, Splice
  PROVE  WaitInv'
<1>0. PICK n \in Nat : n = Len(waits)
  BY LenProperties DEF WaveTypeOK, BackendTypeOK
<1> DEFINE i == n + 1
           w == WaitBefore(i)
<1>1. /\ raInputs' = raInputs /\ stage' = stage /\ stage = "waits"
      /\ waits' = Append(waits, w) /\ n < Len(code)
      /\ anyVmem' = (anyVmem \/ TouchesMemory(i))
      /\ owed' = (IF w = "vm" THEN {} ELSE owed)
                 \cup {code[j].dst : j \in {i} \cap {l \in Steps : code[l].op \in Loads}}
  BY <1>0 DEF Splice, raVars, raInputs
<1>2. n \in Nat /\ Len(code) \in Nat
  BY LenProperties DEF WaveTypeOK, BackendTypeOK, RegAllocTypeOK
<1>3. i \in Steps
  BY <1>1, <1>2 DEF Steps
<1>4. Len(waits') = i /\ waits'[i] = w /\ \A k \in 1 .. n : waits'[k] = waits[k]
  <2>1. w \in Waits /\ waits \in Seq(Waits)
    BY DEF WaitBefore, Waits, WaveTypeOK, BackendTypeOK
  <2>. QED BY <1>0, <1>1, <2>1, AppendProperties
<1>5. /\ code' = code /\ Steps' = Steps
      /\ \A k, v : (Defines(k, v)' <=> Defines(k, v)) /\ (Reads(k, v)' <=> Reads(k, v))
  BY <1>1, InputsStay DEF raInputs
<1>6. /\ \A k : MemoryAt(k)' <=> MemoryAt(k)
      /\ \A p, u : LoadAt(p, u)' <=> LoadAt(p, u)
      /\ \A p \in 1 .. i : p \in 1 .. n \/ p = i
  BY <1>2, <1>5 DEF MemoryAt, LoadAt
<1>7. \A m, l \in Nat \ {0} : l <= n => (Quiet(m, l)' <=> Quiet(m, l))
  BY <1>2, <1>4 DEF Quiet
<1>8. \A m \in Nat \ {0} : m <= i /\ Quiet(m, i)' => w = "none" /\ Quiet(m, n)
  <2>1. ASSUME NEW m \in Nat \ {0}, m <= i, Quiet(m, i)'
        PROVE  w = "none" /\ Quiet(m, n)
    <3>1. \A k \in m .. i : waits'[k] = "none"
      BY <2>1 DEF Quiet
    <3>2. i \in m .. i /\ \A k \in m .. n : k \in m .. i /\ k \in 1 .. n
      BY <1>2, <2>1
    <3>. QED BY <1>4, <3>1, <3>2 DEF Quiet
  <2>. QED BY <2>1
<1>9. Remembered'
  <2>1. i <= Len(code) /\ ~ Running' /\ stage' # "emit"
    BY <1>1, <1>2 DEF Running
  <2>2. \A j \in 1 .. i : MemoryAt(j) => anyVmem'
    BY <1>0, <1>1, <1>6 DEF WaitInv, Remembered, MemoryAt, TouchesMemory
  <2>3. ASSUME NEW p \in 1 .. i, code[p].op \in Loads, Quiet(p + 1, i)'
        PROVE  code[p].dst \in owed'
    <3>1. CASE p = i
      BY <1>1, <1>3, <2>3, <3>1
    <3>2. CASE p # i
      <4>1. p \in 1 .. n /\ p + 1 \in Nat \ {0} /\ p + 1 <= i
        BY <1>2, <3>2
      <4>2. w = "none" /\ Quiet(p + 1, n)
        BY <1>8, <2>3, <4>1
      <4>. QED BY <1>0, <1>1, <2>3, <4>1, <4>2 DEF WaitInv, Remembered
    <3>. QED BY <3>1, <3>2
  <2>. QED BY <1>4, <1>5, <1>6, <2>1, <2>2, <2>3 DEF Remembered
<1>10. EndsWait'
  <2>1. ASSUME NEW k \in 1 .. i, NEW j \in 1 .. i, code[k].op = "S_ENDPGM", j < k, MemoryAt(j)
        PROVE  waits'[k] = "all"
    <3>1. CASE k = i
      <4>1. j \in 1 .. n
        BY <1>2, <2>1, <3>1
      <4>2. anyVmem
        BY <1>0, <2>1, <4>1 DEF WaitInv, Remembered
      <4>. QED BY <1>4, <2>1, <3>1, <4>2 DEF WaitBefore
    <3>2. CASE k # i
      <4>1. k \in 1 .. n /\ j \in 1 .. n
        BY <1>2, <2>1, <3>2
      <4>. QED BY <1>0, <1>4, <2>1, <4>1 DEF WaitInv, EndsWait
    <3>. QED BY <3>1, <3>2
  <2>. QED BY <1>4, <1>5, <1>6, <2>1 DEF EndsWait
<1>11. LoadsWaited'
  <2>1. ASSUME NEW p \in 1 .. i, NEW k \in 1 .. i, NEW u \in Ids, p < k,
               LoadAt(p, u), Reads(k, u), Quiet(p + 1, k - 1)'
        PROVE  waits'[k] # "none"
    <3>1. p \in 1 .. n /\ p + 1 \in Nat \ {0} /\ k - 1 \in Nat \ {0} /\ k - 1 <= n
      BY <1>2, <2>1
    <3>2. Quiet(p + 1, k - 1)
      BY <1>7, <2>1, <3>1
    <3>3. CASE k = i
      <4>1. code[p].op \in Loads /\ code[p].dst = u
        BY <2>1 DEF LoadAt, Defines
      <4>2. k - 1 = n
        BY <1>2, <3>3
      <4>3. u \in owed
        BY <1>0, <3>1, <3>2, <4>1, <4>2 DEF WaitInv, Remembered
      <4>4. anyVmem
        BY <1>0, <3>1, <4>1 DEF WaitInv, Remembered, MemoryAt
      <4>5. IdOperands(code[i]) \cap owed # {}
        BY <2>1, <3>3, <4>3 DEF Reads
      <4>. QED BY <1>4, <3>3, <4>4, <4>5 DEF WaitBefore
    <3>4. CASE k # i
      <4>1. k \in 1 .. n
        BY <1>2, <3>4
      <4>. QED BY <1>0, <1>4, <2>1, <3>1, <3>2, <4>1 DEF WaitInv, LoadsWaited
    <3>. QED BY <3>3, <3>4
  <2>. QED BY <1>4, <1>5, <1>6, <2>1 DEF LoadsWaited
<1>. QED BY <1>9, <1>10, <1>11 DEF WaitInv

LEMMA WaitInvInit ==
  ASSUME Init
  PROVE  WaitInv
<1>1. waits = <<>> /\ stage = "waits" /\ code \in Seq(Selected)
  BY DEF Init, BackendInit, RegAllocInputs
<1>2. Len(waits) = 0 /\ Len(code) \in Nat
  BY <1>1, LenProperties, EmptySeq
<1>. QED BY <1>1, <1>2 DEF WaitInv, Remembered, EndsWait, LoadsWaited, Running

LEMMA WaitInvStep ==
  ASSUME WaveTypeOK, WaitInv, [Next]_vars
  PROVE  WaitInv'
<1>1. raInputs' = raInputs
  BY AllocatorStep, StepKeepsInputs
<1>2. CASE Splice
  BY <1>2, SpliceStep
<1>3. CASE ~ Splice
  <2>1. waits' = waits /\ owed' = owed /\ anyVmem' = anyVmem
    BY <1>3 DEF Next, vars, backendVars, BackendNext, SpliceFull, Spliced, EmitProgram,
       EmitRejected, Unresolved, WaveNext, Execute, Jump, EndProgram, LoadReturns, StoreCompletes
  <2>2. (stage = "emit" \/ Running)' => stage = "emit" \/ Running \/ Len(waits) = Len(code)
    BY <1>3 DEF Running, Ready, Next, vars, backendVars, BackendNext, SpliceFull, Spliced,
       EmitProgram, EmitRejected, Unresolved, EmitErrors, WaveNext, Execute, Jump,
       EndProgram, LoadReturns, StoreCompletes
  <2>. QED BY <1>1, <2>1, <2>2, TextStays
<1>. QED BY <1>2, <1>3

-----------------------------------------------------------------------------
(* Loads and stores in flight.                                             *)

IsRead(u) == \E i \in Steps : Reads(i, u)

\* Nothing is in flight before the list runs.
StartsEmpty ==
  ~ Running => flight = {} /\ ~ storing /\ \A r \in Regs : late[r] = NoId

\* A load no branch was taken over was issued above, with no wait since.
FlightQuiet ==
  \A u \in flight \ skipped :
    \E p \in Steps : LoadAt(p, u) /\ p < pc /\ Quiet(p + 1, pc - 1)

\* Its registers are not taken from it while a read of it is to come.
FlightHeld ==
  \A u \in flight \ skipped :
    ScratchFree /\ IsRead(u) => \A r \in Taken(u) : held["v"][r] = u

\* So a late return reaches another value only past a branch.
LateSkipped ==
  \A r \in Regs : late[r] # NoId =>
    /\ r \in Taken(late[r])
    /\ ScratchFree /\ IsRead(late[r]) => late[r] \in skipped

FlightInv == StartsEmpty /\ FlightQuiet /\ FlightHeld /\ LateSkipped

LEMMA FlightInvInit ==
  ASSUME Init
  PROVE  FlightInv
<1>1. flight = {} /\ storing = FALSE /\ late = [r \in Regs |-> NoId]
  BY DEF Init, WaveInit
<1>. QED BY <1>1 DEF FlightInv, StartsEmpty, FlightQuiet, FlightHeld, LateSkipped

\* A wave that runs does so on a text that is spliced to the end.
LEMMA ReadyFacts ==
  ASSUME WaveTypeOK, WaitInv, Ready
  PROVE  /\ pc \in Nat \ {0} /\ pc \in Steps /\ Len(waits) = Len(code)
         /\ \A i \in Steps : i \in 1 .. Len(waits) /\ i \in Nat \ {0}
         /\ waits[pc] = "none" \/ Drained
<1>1. pc \in Steps /\ Len(waits) = Len(code) /\ (waits[pc] = "none" \/ Drained)
  BY DEF Ready, Running, WaitInv, Remembered
<1>2. \A i \in Steps : i \in 1 .. Len(waits) /\ i \in Nat \ {0}
  BY <1>1, StepFacts DEF WaveTypeOK, BackendTypeOK, RegAllocTypeOK, Steps
<1>. QED BY <1>1, <1>2

\* The names the invariant uses mean the same while the list runs.
LEMMA NamesStay ==
  ASSUME raVars' = raVars, scratch' = scratch, waits' = waits
  PROVE  /\ Steps' = Steps /\ code' = code
         /\ ScratchFree' <=> ScratchFree
         /\ \A v : Taken(v)' = Taken(v)
         /\ \A v : IsRead(v)' <=> IsRead(v)
         /\ \A p, v : LoadAt(p, v)' <=> LoadAt(p, v)
         /\ \A m, n : Quiet(m, n)' <=> Quiet(m, n)
<1>1. raInputs' = raInputs /\ code' = code /\ Placed' = Placed /\ (ScratchFree' <=> ScratchFree)
      /\ \A v : RegsOf(v)' = RegsOf(v)
  BY CompiledStays DEF raInputs
<1>2. /\ Steps' = Steps
      /\ \A i, v : (Defines(i, v)' <=> Defines(i, v)) /\ (Reads(i, v)' <=> Reads(i, v))
  BY <1>1, InputsStay
<1>. QED BY <1>1, <1>2 DEF Taken, IsRead, LoadAt, Quiet

LEMMA LoadFile ==
  ASSUME NEW p, NEW u, LoadAt(p, u)
  PROVE  FileOf(p) = "v" /\ Defines(p, u) /\ p \in Steps /\ u \in Ids
BY DEF LoadAt, FileOf, ResultIsVgpr, Loads, ScalarAlu, Defines, Tracked

\* An instruction leaves the registers of a load alone when no wait stands
\* between the two and the load is still to be read: the read has a wait in
\* front of it, so it is further down, and the interval reaches past here.
LEMMA FlightUndisturbed ==
  ASSUME WaveTypeOK, WaveInv, RegAllocInv, WaitInv, LoadsBeforeReads, Ready,
         NEW u, NEW p, LoadAt(p, u), p < pc, Quiet(p + 1, pc), IsRead(u),
         NEW w \in Results(pc), w # u, FileOf(pc) = "v"
  PROVE  RegsOf(u) \cap Taken(w) = {}
<1>1. /\ pc \in Steps /\ pass = "done" /\ at \notin Steps
      /\ Defines(pc, w) /\ w \in Ids
      /\ p \in Steps /\ Defines(p, u) /\ u \in Ids /\ FileOf(p) = "v"
  BY RunFacts, LoadFile DEF Defines, Tracked
<1>2. \A i \in Steps : i \in Nat \ {0} /\ i \in 1 .. Len(waits)
  BY ReadyFacts
<1>3. PICK i \in Steps : Reads(i, u)
  BY DEF IsRead
<1>4. pc < i
  <2>1. SUFFICES ASSUME i <= pc PROVE FALSE
    BY <1>1, <1>2
  <2>2. p < i
    BY <1>1, <1>3 DEF LoadsBeforeReads, LoadAt
  <2>3. Quiet(p + 1, i - 1) /\ waits[i] = "none"
    BY <1>1, <1>2, <2>1, <2>2 DEF Quiet
  <2>. QED BY <1>1, <1>2, <1>3, <2>2, <2>3 DEF WaitInv, LoadsWaited
<1>5. /\ u \in Placed /\ lastUse[u] \in Nat
      /\ w \in Placed /\ lastUse[w] \in Nat /\ pc <= lastUse[w]
  BY <1>1, AllocatedFacts
<1>6. i <= lastUse[u]
  BY <1>1, <1>3 DEF RegAllocInv, Covered, Scanned
<1>7. ~ Precedes(u, w)
  <2>1. ~ (lastUse[u] < pc)
    BY <1>1, <1>2, <1>4, <1>5, <1>6
  <2>. QED BY <1>1, <2>1 DEF Precedes
<1>8. ~ Precedes(w, u)
  <2>1. ~ (lastUse[w] < p)
    BY <1>1, <1>2, <1>5
  <2>. QED BY <1>1, <2>1 DEF Precedes
<1>9. \E f \in FileNames : InFile(u, f) /\ InFile(w, f)
  BY <1>1, FileFact DEF InFile
<1>10. RegsOf(u) \cap RegsOf(w) = {}
  BY <1>5, <1>7, <1>8, <1>9 DEF RegAllocInv, SharersOrdered
<1>. QED BY <1>5, <1>10 DEF Taken

LEMMA FlightExecute ==
  ASSUME WaveTypeOK, WaveInv, RegAllocInv, WaitInv, FlightInv, LoadsBeforeReads, Encodable, Execute
  PROVE  FlightInv'
<1> DEFINE issued == IF code[pc].op \in Loads THEN Results(pc) ELSE {}
<1>1. /\ Ready /\ raVars' = raVars /\ stage' = stage /\ scratch' = scratch /\ waits' = waits
      /\ pc' = pc + 1 /\ flight' = flight \cup issued /\ skipped' = skipped \ issued
      /\ held' = [f \in FileNames |-> HeldAfter(pc, f)]
  BY DEF Execute, backendVars
<1>2. /\ Steps' = Steps /\ (ScratchFree' <=> ScratchFree)
      /\ \A v : Taken(v)' = Taken(v)
      /\ \A v : IsRead(v)' <=> IsRead(v)
      /\ \A p, v : LoadAt(p, v)' <=> LoadAt(p, v)
  BY <1>1, NamesStay
<1>3. /\ pc \in Nat \ {0} /\ pc \in Steps /\ (waits[pc] = "none" \/ Drained)
      /\ \A i \in Steps : i \in Nat \ {0}
  BY <1>1, ReadyFacts
<1>4. Running /\ pass = "done" /\ at \notin Steps /\ \A v : v \in Results(pc) <=> Defines(pc, v)
  BY <1>1, RunFacts
<1>0. \A f : Overwritten(pc, f) = IF f = FileOf(pc)
                                   THEN UNION {Taken(v) : v \in Results(pc)} ELSE {}
  BY <1>1, OverwrittenFact
<1>5. StartsEmpty'
  BY <1>1, <1>4 DEF StartsEmpty, Running
\* The load of a value in flight, the one being issued or one above.
<1>6. ASSUME NEW u \in flight' \ skipped'
      PROVE  \/ u \in issued /\ LoadAt(pc, u)
             \/ /\ u \in flight \ skipped
                /\ \E p \in Steps : LoadAt(p, u) /\ p < pc /\ Quiet(p + 1, pc)
  <2>1. CASE u \in issued
    BY <1>3, <1>4, <2>1 DEF LoadAt
  <2>2. CASE u \notin issued
    <3>1. u \in flight \ skipped
      BY <1>1, <2>2
    <3>2. waits[pc] = "none"
      BY <1>3, <3>1 DEF Drained
    <3>3. PICK p \in Steps : LoadAt(p, u) /\ p < pc /\ Quiet(p + 1, pc - 1)
      BY <3>1 DEF FlightInv, FlightQuiet
    <3>4. Quiet(p + 1, pc)
      <4>1. \A k \in p + 1 .. pc : k \in p + 1 .. pc - 1 \/ k = pc
        BY <1>3
      <4>. QED BY <3>2, <3>3, <4>1 DEF Quiet
    <3>. QED BY <3>1, <3>3, <3>4
  <2>. QED BY <2>1, <2>2
<1>7. FlightQuiet'
  <2>1. ASSUME NEW u \in flight' \ skipped'
        PROVE  \E p \in Steps : LoadAt(p, u) /\ p < pc + 1
                                /\ \A k \in p + 1 .. pc + 1 - 1 : waits[k] = "none"
    <3>1. CASE LoadAt(pc, u)
      <4>1. pc < pc + 1 /\ \A k \in pc + 1 .. pc + 1 - 1 : waits[k] = "none"
        BY <1>3
      <4>. QED BY <1>3, <3>1, <4>1
    <3>2. CASE ~ LoadAt(pc, u)
      <4>1. PICK p \in Steps : LoadAt(p, u) /\ p < pc /\ Quiet(p + 1, pc)
        BY <1>6, <2>1, <3>2
      <4>2. p < pc + 1 /\ pc + 1 - 1 = pc
        BY <1>3, <4>1
      <4>. QED BY <4>1, <4>2 DEF Quiet
    <3>. QED BY <3>1, <3>2
  <2>2. ASSUME NEW u \in flight' \ skipped'
        PROVE  \E p \in Steps' : LoadAt(p, u)' /\ p < pc' /\ Quiet(p + 1, pc - 1)'
    <3>1. PICK p \in Steps : LoadAt(p, u) /\ p < pc + 1
                            /\ \A k \in p + 1 .. pc + 1 - 1 : waits[k] = "none"
      BY <2>1, <2>2
    <3>2. LoadAt(p, u)' /\ p \in Steps' /\ p < pc'
      BY <1>1, <1>2, <3>1
    <3>3. Quiet(p + 1, pc - 1)'
      <4>1. waits' = waits /\ pc' = pc + 1 /\ pc \in Nat /\ p \in Nat
        BY <1>1, <1>3
      <4>2. \A k \in p + 1 .. pc' - 1 : waits'[k] = "none"
        BY <3>1, <4>1
      <4>. QED BY <4>2 DEF Quiet
    <3>. QED BY <3>2, <3>3
  <2>. QED BY <2>2 DEF FlightQuiet
<1>8. FlightHeld'
  <2>1. ASSUME NEW u \in flight' \ skipped', ScratchFree, IsRead(u), NEW r \in Taken(u)
        PROVE  held'["v"][r] = u
    <3>1. PICK p \in Steps : LoadAt(p, u)
      BY <1>3, <1>6, <2>1
    <3>2. /\ FileOf(p) = "v" /\ Defines(p, u) /\ u \in Ids
      BY <3>1, LoadFile
    <3>3. u \in Placed /\ r \in RegsOf(u) /\ r \in Regs
      BY <1>4, <2>1, <3>2, AllocatedFacts DEF Taken
    <3>4. held'["v"][r] = HeldAfter(pc, "v")[r]
      BY <1>1 DEF FileNames
    <3>5. CASE u \in Results(pc)
      <4>1. FileOf(pc) = "v"
        BY <1>3, <1>4, <3>2, <3>5, AllocatedFacts
      <4>2. code[pc].dst = u
        BY <1>4, <3>5 DEF Defines
      <4>. QED BY <1>0, <2>1, <3>3, <3>4, <3>5, <4>1, <4>2 DEF HeldAfter
    <3>6. CASE u \notin Results(pc)
      <4>1. /\ u \in flight \ skipped
            /\ \E q \in Steps : LoadAt(q, u) /\ q < pc /\ Quiet(q + 1, pc)
        BY <1>6, <2>1, <3>6
      <4>2. held["v"][r] = u
        BY <2>1, <4>1 DEF FlightInv, FlightHeld
      <4>3. FileOf(pc) = "v" => \A w \in Results(pc) : r \notin Taken(w)
        BY <1>1, <2>1, <3>3, <3>6, <4>1, FlightUndisturbed
      <4>4. WritesScratch(code[pc]) => r # scratch
        BY <1>3, <1>4, <2>1, <3>2, <3>3, ConstantDisturbsNone
      <4>. QED BY <1>0, <3>3, <3>4, <4>2, <4>3, <4>4 DEF HeldAfter
    <3>. QED BY <3>5, <3>6
  <2>. QED BY <1>1, <1>2, <2>1 DEF FlightHeld
<1>9. LateSkipped'
  <2>1. ASSUME NEW r \in Regs, late'[r] # NoId
        PROVE  /\ late'[r] = late[r]
               /\ FileOf(pc) = "v" => r \notin UNION {Taken(v) : v \in Results(pc)}
    BY <1>0, <2>1 DEF Execute, WaveTypeOK
  <2>2. ASSUME NEW r \in Regs, late'[r] # NoId
        PROVE  /\ r \in Taken(late'[r])
               /\ ScratchFree /\ IsRead(late'[r]) => late'[r] \in skipped'
    <3>1. late'[r] = late[r] /\ r \in Taken(late[r])
      BY <2>1, <2>2 DEF FlightInv, LateSkipped
    <3>2. late[r] \notin issued
      <4>1. ASSUME late[r] \in issued PROVE FALSE
        <5>1. LoadAt(pc, late[r]) /\ late[r] \in Results(pc)
          BY <1>3, <1>4, <4>1 DEF LoadAt
        <5>2. FileOf(pc) = "v"
          BY <5>1, LoadFile
        <5>. QED BY <2>1, <2>2, <3>1, <5>1, <5>2
      <4>. QED BY <4>1
    <3>. QED BY <1>1, <2>2, <3>1, <3>2 DEF FlightInv, LateSkipped
  <2>. QED BY <1>2, <2>2 DEF LateSkipped
<1>. QED BY <1>5, <1>7, <1>8, <1>9 DEF FlightInv

LEMMA FlightInvStep ==
  ASSUME WaveTypeOK, WaveInv, RegAllocInv, WaitInv, FlightInv, LoadsBeforeReads, Encodable, [Next]_vars
  PROVE  FlightInv'
<1>1. CASE (RegAllocNext /\ UNCHANGED <<backendVars, waveVars>>) \/ (BackendNext /\ UNCHANGED waveVars)
  <2>1. ~ Running
    BY <1>1 DEF Running, WaveInv, Phases, BackendNext, Splice, SpliceFull, Spliced,
       EmitProgram, EmitRejected, Unresolved, RegAllocNext, ScanIntervals, IntervalsScanned,
       ExtendOverLoop, RoundEnds, Assign, Skip, Exhausted, Assigned
  <2>2. flight' = flight /\ storing' = storing /\ late' = late
    BY <1>1 DEF waveVars
  <2>3. flight = {} /\ ~ storing /\ \A r \in Regs : late[r] = NoId
    BY <2>1 DEF FlightInv, StartsEmpty
  <2>. QED BY <2>2, <2>3 DEF FlightInv, StartsEmpty, FlightQuiet, FlightHeld, LateSkipped
<1>2. CASE Execute
  BY <1>2, FlightExecute
<1>3. CASE Jump
  <2>1. /\ raVars' = raVars /\ scratch' = scratch /\ waits' = waits /\ stage' = stage
        /\ skipped' = skipped \cup flight /\ flight' = flight /\ late' = late /\ Running
    BY <1>3 DEF Jump, backendVars, Ready, Running
  <2>2. (ScratchFree' <=> ScratchFree) /\ \A v : Taken(v)' = Taken(v) /\ (IsRead(v)' <=> IsRead(v))
    BY <2>1, NamesStay
  <2>3. StartsEmpty' /\ FlightQuiet' /\ FlightHeld'
    BY <2>1 DEF StartsEmpty, FlightQuiet, FlightHeld, Running
  <2>4. LateSkipped'
    BY <2>1, <2>2 DEF FlightInv, LateSkipped
  <2>. QED BY <2>3, <2>4 DEF FlightInv
<1>4. ASSUME NEW u \in Ids, LoadReturns(u) PROVE FlightInv'
  <2>1. /\ raVars' = raVars /\ scratch' = scratch /\ waits' = waits /\ stage' = stage
        /\ pc' = pc /\ held' = held /\ skipped' = skipped /\ storing' = storing
        /\ u \in flight /\ flight' = flight \ {u}
        /\ late' = [r \in Regs |-> IF r \in Taken(u) /\ held["v"][r] # u THEN u ELSE late[r]]
    BY <1>4 DEF LoadReturns, backendVars
  <2>2. /\ Steps' = Steps /\ (ScratchFree' <=> ScratchFree)
        /\ \A v : Taken(v)' = Taken(v)
        /\ \A v : IsRead(v)' <=> IsRead(v)
        /\ \A p, v : LoadAt(p, v)' <=> LoadAt(p, v)
        /\ \A m, n : Quiet(m, n)' <=> Quiet(m, n)
    BY <2>1, NamesStay
  <2>3. Running /\ Running'
    BY <2>1 DEF FlightInv, StartsEmpty, Running
  <2>4. FlightQuiet'
    <3>1. ASSUME NEW v \in flight' \ skipped'
          PROVE  \E p \in Steps' : LoadAt(p, v)' /\ p < pc' /\ Quiet(p + 1, pc - 1)'
      <4>1. PICK p \in Steps : LoadAt(p, v) /\ p < pc /\ Quiet(p + 1, pc - 1)
        BY <2>1, <3>1 DEF FlightInv, FlightQuiet
      <4>2. Quiet(p + 1, pc - 1)'
        BY <2>1, <4>1 DEF Quiet
      <4>. QED BY <2>1, <2>2, <4>1, <4>2
    <3>. QED BY <3>1 DEF FlightQuiet
  <2>5. FlightHeld'
    BY <2>1, <2>2 DEF FlightInv, FlightHeld
  <2>6. LateSkipped'
    <3>1. ASSUME NEW r \in Regs, late'[r] # NoId
          PROVE  /\ r \in Taken(late'[r])
                 /\ ScratchFree /\ IsRead(late'[r]) => late'[r] \in skipped
      <4>1. CASE r \in Taken(u) /\ held["v"][r] # u
        <5>1. late'[r] = u
          BY <2>1, <4>1
        <5>2. ScratchFree /\ IsRead(u) => u \in skipped
          BY <2>1, <4>1 DEF FlightInv, FlightHeld
        <5>. QED BY <4>1, <5>1, <5>2
      <4>2. CASE ~ (r \in Taken(u) /\ held["v"][r] # u)
        <5>1. late'[r] = late[r]
          BY <2>1, <4>2
        <5>. QED BY <3>1, <5>1 DEF FlightInv, LateSkipped
      <4>. QED BY <4>1, <4>2
    <3>. QED BY <2>1, <2>2, <3>1 DEF LateSkipped
  <2>. QED BY <2>3, <2>4, <2>5, <2>6 DEF FlightInv, StartsEmpty
<1>5. CASE EndProgram \/ StoreCompletes \/ UNCHANGED vars
  <2>1. /\ raVars' = raVars /\ scratch' = scratch /\ waits' = waits
        /\ pc' = pc /\ held' = held /\ skipped' = skipped /\ flight' = flight /\ late' = late
    BY <1>5 DEF EndProgram, StoreCompletes, vars, raVars, backendVars, waveVars
  <2>2. /\ Steps' = Steps /\ (ScratchFree' <=> ScratchFree)
        /\ \A v : Taken(v)' = Taken(v)
        /\ \A v : IsRead(v)' <=> IsRead(v)
        /\ \A p, v : LoadAt(p, v)' <=> LoadAt(p, v)
        /\ \A m, n : Quiet(m, n)' <=> Quiet(m, n)
    BY <2>1, NamesStay
  <2>3. (~ Running' => ~ Running) /\ (storing' => storing)
    BY <1>5 DEF EndProgram, Ready, StoreCompletes, vars, backendVars, waveVars, Running
  <2>4. StartsEmpty'
    BY <2>1, <2>3 DEF FlightInv, StartsEmpty
  <2>5. FlightQuiet'
    <3>1. ASSUME NEW v \in flight' \ skipped'
          PROVE  \E p \in Steps' : LoadAt(p, v)' /\ p < pc' /\ Quiet(p + 1, pc - 1)'
      <4>1. PICK p \in Steps : LoadAt(p, v) /\ p < pc /\ Quiet(p + 1, pc - 1)
        BY <2>1, <3>1 DEF FlightInv, FlightQuiet
      <4>2. Quiet(p + 1, pc - 1)'
        BY <2>1, <4>1 DEF Quiet
      <4>. QED BY <2>1, <2>2, <4>1, <4>2
    <3>. QED BY <3>1 DEF FlightQuiet
  <2>6. FlightHeld' /\ LateSkipped'
    BY <2>1, <2>2 DEF FlightInv, FlightHeld, LateSkipped
  <2>. QED BY <2>4, <2>5, <2>6 DEF FlightInv
<1>. QED BY <1>1, <1>2, <1>3, <1>4, <1>5 DEF Next, WaveNext

LEMMA OrderStays ==
  ASSUME LoadsBeforeReads, raInputs' = raInputs
  PROVE  LoadsBeforeReads'
<1>1. /\ code' = code /\ Steps' = Steps
      /\ \A i, v : (Defines(i, v)' <=> Defines(i, v)) /\ (Reads(i, v)' <=> Reads(i, v))
  BY InputsStay DEF raInputs
<1>. QED BY <1>1 DEF LoadsBeforeReads

LEMMA CompilerInv == Spec => [](WaveTypeOK /\ RegAllocInv /\ WaitInv)
<1>1. Init => WaitInv
  BY WaitInvInit
<1>2. WaveTypeOK /\ WaitInv /\ [Next]_vars => WaitInv'
  BY WaitInvStep
<1>. QED BY <1>1, <1>2, WaveTyped, ContainsAllocator, InvHolds, PTL DEF Spec

\* The waits cover the loads: on every path through every list, an instruction
\* reads a load in flight, or registers a late return has overwritten, only
\* when a branch was taken since that load was issued.
THEOREM StaleReads ==
  Spec /\ Structured /\ Encodable /\ LoadsBeforeReads => []StaleReadNeedsABranch
<1>1. Init => WaveInv /\ FlightInv
  BY WaveInvInit, FlightInvInit
<1>2. WaveInv /\ RegAllocInv /\ Structured /\ Encodable /\ [Next]_vars => WaveInv'
  BY WaveInvStep
<1>3. Structured /\ Encodable /\ LoadsBeforeReads /\ [Next]_vars
        => Structured' /\ Encodable' /\ LoadsBeforeReads'
  BY AllocatorStep, StepKeepsInputs, StructuredStays, EncodableStays, OrderStays
<1>4. WaveTypeOK /\ WaveInv /\ RegAllocInv /\ WaitInv /\ FlightInv /\ LoadsBeforeReads /\ Encodable
        /\ [Next]_vars => FlightInv'
  BY FlightInvStep
<1>5. WaveTypeOK /\ WaveInv /\ RegAllocInv /\ WaitInv /\ FlightInv => StaleReadNeedsABranch
  <2>1. SUFFICES ASSUME WaveTypeOK, WaveInv, RegAllocInv, WaitInv, FlightInv,
                        NEW v \in written, ReadNow(v), ScratchFree
                 PROVE  /\ v \in flight => v \in skipped
                        /\ \A r \in Taken(v) : late[r] # NoId =>
                             late[r] \in skipped \/ ~ IsRead(late[r])
    BY DEF StaleReadNeedsABranch, IsRead
  <2>2. Ready /\ Reads(pc, v)
    BY <2>1 DEF ReadNow
  <2>3. ASSUME v \in flight \ skipped PROVE FALSE
    <3>1. PICK p \in Steps : LoadAt(p, v) /\ p < pc /\ Quiet(p + 1, pc - 1)
      BY <2>3, <2>1 DEF FlightInv, FlightQuiet
    <3>2. waits[pc] # "none"
      BY <2>1, <2>2, <3>1, ReadyFacts DEF WaitInv, LoadsWaited, Reads, Tracked
    <3>. QED BY <2>1, <2>2, <2>3, <3>2, ReadyFacts DEF Drained
  <2>4. Taken(v) \subseteq Regs
    BY <2>1, <2>2, RunFacts, AllocatedFacts DEF Taken, Tracked
  <2>. QED BY <2>1, <2>3, <2>4 DEF FlightInv, LateSkipped
<1>. QED BY <1>1, <1>2, <1>3, <1>4, <1>5, CompilerInv, PTL DEF Spec

\* The list is spliced, encoded and run after the allocation.
PassesInOrder == stage = "emit" \/ Running => pass = "done"

LEMMA PassesInOrderStep ==
  ASSUME PassesInOrder, [Next]_vars
  PROVE  PassesInOrder'
<1>1. CASE RegAllocNext /\ UNCHANGED <<backendVars, waveVars>>
  <2>1. pass # "done" /\ stage' = stage
    BY <1>1 DEF backendVars, RegAllocNext, ScanIntervals, IntervalsScanned, ExtendOverLoop,
       RoundEnds, Assign, Skip, Exhausted, Assigned
  <2>. QED BY <2>1 DEF PassesInOrder, Running
<1>2. CASE ~ (RegAllocNext /\ UNCHANGED <<backendVars, waveVars>>)
  <2>1. pass' = pass
    BY <1>2 DEF Next, vars, raVars, BackendNext, Splice, SpliceFull, Spliced, EmitProgram,
       EmitRejected, Unresolved, WaveNext, Execute, Jump, EndProgram, LoadReturns, StoreCompletes
  <2>2. (stage = "emit" \/ Running)' => stage = "emit" \/ Running \/ pass = "done"
    BY <1>2 DEF Running, Ready, Next, vars, backendVars, BackendNext, Splice, SpliceFull, Spliced,
       EmitProgram, EmitRejected, Unresolved, EmitErrors, WaveNext, Execute, Jump,
       EndProgram, LoadReturns, StoreCompletes
  <2>. QED BY <2>1, <2>2 DEF PassesInOrder
<1>. QED BY <1>1, <1>2

RetireInv == PassesInOrder /\ (~ Running => flight = {} /\ ~ storing) /\ RetiresDrained

LEMMA RetireInvStep ==
  ASSUME WaveTypeOK, WaitInv, RetireInv, [Next]_vars
  PROVE  RetireInv'
<1>1. PassesInOrder' /\ code' = code
  BY PassesInOrderStep, AllocatorStep, StepKeepsInputs DEF RetireInv, raInputs
<1>2. CASE EndProgram
  <2>1. /\ Ready /\ code[pc].op = "S_ENDPGM" /\ pc' = pc /\ flight' = flight
        /\ storing' = storing /\ stage' = "ended"
    BY <1>2 DEF EndProgram, waveVars
  <2>2. ASSUME storing \/ flight # {}, NEW j \in 1 .. pc - 1
        PROVE  code[j].op \notin Loads \cup Stores
    <3>1. pc \in 1 .. Len(waits) /\ waits[pc] = "none" /\ pc \in Nat
      BY <2>1, <2>2, ReadyFacts DEF Drained
    <3>2. Len(waits) \in Nat
      BY LenProperties DEF WaveTypeOK, BackendTypeOK
    <3>3. j \in 1 .. Len(waits) /\ j < pc
      BY <3>1, <3>2
    <3>. QED BY <2>1, <3>1, <3>3 DEF WaitInv, EndsWait, MemoryAt
  <2>. QED BY <1>1, <2>1, <2>2 DEF RetireInv, RetiresDrained, Running
<1>3. CASE Execute \/ Jump
  <2>1. stage = "run" /\ stage' = "run"
    BY <1>3 DEF Execute, Jump, Ready, backendVars
  <2>. QED BY <1>1, <2>1 DEF RetireInv, RetiresDrained, Running
<1>4. CASE (\E u \in Ids : LoadReturns(u)) \/ StoreCompletes \/ UNCHANGED vars
  <2>1. /\ stage' = stage /\ pc' = pc /\ flight' \subseteq flight /\ (storing' => storing)
    BY <1>4 DEF LoadReturns, StoreCompletes, vars, backendVars, waveVars
  <2>. QED BY <1>1, <2>1 DEF RetireInv, RetiresDrained, Running
<1>5. CASE (RegAllocNext /\ UNCHANGED <<backendVars, waveVars>>) \/ (BackendNext /\ UNCHANGED waveVars)
  <2>1. ~ Running
    BY <1>5 DEF Running, RetireInv, PassesInOrder, BackendNext, Splice, SpliceFull, Spliced,
       EmitProgram, EmitRejected, Unresolved, RegAllocNext, ScanIntervals, IntervalsScanned,
       ExtendOverLoop, RoundEnds, Assign, Skip, Exhausted, Assigned
  <2>2. flight' = flight /\ (storing' <=> storing)
    BY <1>5 DEF waveVars
  <2>. QED BY <1>1, <2>1, <2>2 DEF RetireInv, RetiresDrained
<1>. QED BY <1>2, <1>3, <1>4, <1>5 DEF Next, WaveNext

\* An s_endpgm below a memory instruction waits for everything the wave has
\* issued, so a wave retires with a load or a store outstanding only where the
\* text holds none above.
THEOREM Drains == Spec => []RetiresDrained
<1>1. Init => RetireInv
  BY DEF Init, BackendInit, WaveInit, RetireInv, PassesInOrder, Running, RetiresDrained
<1>2. WaveTypeOK /\ WaitInv /\ RetireInv /\ [Next]_vars => RetireInv'
  BY RetireInvStep
<1>3. RetireInv => RetiresDrained
  BY DEF RetireInv
<1>. QED BY <1>1, <1>2, <1>3, CompilerInv, PTL DEF Spec

\* The list runs after the allocation, and its scalar operations resolve.
FiledInv == PassesInOrder /\ ScalarsResolve /\ (pass = "done" => at \notin Steps)

LEMMA FiledInvStep ==
  ASSUME FiledInv, [Next]_vars
  PROVE  FiledInv'
<1>1. PassesInOrder' /\ Steps' = Steps
  BY PassesInOrderStep, AllocatorStep, StepKeepsInputs, InputsStay DEF FiledInv
<1>2. CASE RegAllocNext /\ UNCHANGED <<backendVars, waveVars>>
  <2>1. pass # "done" /\ stage' = stage /\ (pass' = "done" => at' \notin Steps)
    BY <1>2 DEF backendVars, RegAllocNext, ScanIntervals, IntervalsScanned, ExtendOverLoop,
       RoundEnds, Assign, Skip, Exhausted, Assigned
  <2>2. ~ Running'
    BY <2>1 DEF FiledInv, PassesInOrder, Running
  <2>. QED BY <1>1, <2>1, <2>2 DEF FiledInv, ScalarsResolve
<1>3. CASE BackendNext /\ UNCHANGED waveVars
  <2>1. pass' = pass /\ at' = at
    BY <1>3 DEF BackendNext, Splice, SpliceFull, Spliced, EmitProgram, EmitRejected, Unresolved,
       raVars
  <2>. QED BY <1>1, <1>3, <2>1, ScalarsStart DEF FiledInv
<1>4. CASE WaveNext \/ UNCHANGED vars
  <2>1. raVars' = raVars /\ (Running' => Running)
    BY <1>4 DEF WaveNext, Execute, Jump, EndProgram, LoadReturns, StoreCompletes, vars, raVars,
       backendVars, Ready, Running
  <2>. QED BY <1>1, <2>1, ScalarsStay DEF FiledInv, raVars
<1>. QED BY <1>2, <1>3, <1>4 DEF Next

\* What an instruction writes is where the allocator and the file map have
\* filed it, in every list that runs: one with a uniform arithmetic shift right,
\* which is filed in the wrong file, has been rejected.
THEOREM FiledRuns == Spec /\ SignMasksRead /\ ExtractsFiled => []RunsAsFiled
<1>1. Init => FiledInv
  BY DEF Init, RegAllocInit, BackendInit, FiledInv, PassesInOrder, ScalarsResolve, Running
<1>2. FiledInv /\ [Next]_vars => FiledInv'
  BY FiledInvStep
<1>3. SignMasksRead /\ ExtractsFiled /\ [Next]_vars => SignMasksRead' /\ ExtractsFiled'
  BY AllocatorStep, StepKeepsInputs, EncodableStays
<1>4. FiledInv /\ RegAllocInv /\ SignMasksRead /\ ExtractsFiled => RunsAsFiled
  BY FiledFact DEF FiledInv, PassesInOrder, Running, RunsAsFiled
<1>. QED BY <1>1, <1>2, <1>3, <1>4, ContainsAllocator, InvHolds, PTL DEF Spec

=============================================================================
