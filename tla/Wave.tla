-------------------------------- MODULE Wave --------------------------------
(***************************************************************************)
(* A wave running the encoded list on the hardware the compiler targets:   *)
(* the instructions are src/src/gfx9_compile.cyr's, the machine is         *)
(* external.  Values are abstracted to their names: the model follows      *)
(* which value every register holds, along every path through the branches *)
(* (a condition may go either way), and which loads are still in flight.   *)
(*                                                                         *)
(* A load takes its registers when it is issued and writes them when it    *)
(* returns, at any later time; an s_waitcnt stalls the wave until all have *)
(* returned.                                                               *)
(***************************************************************************)
EXTENDS ShaderBackend

VARIABLES
  pc,         \* the instruction the wave executes next
  written,    \* values defined on the path so far
  held,       \* the value every register was last taken for
  flight,     \* loads issued and not returned
  skipped,    \* loads a branch has been taken over since their issue
  late,       \* a VGPR's contents were replaced by a returning load
  storing     \* a store has not completed

waveVars == <<pc, written, held, flight, skipped, late, storing>>
vars == <<raVars, backendVars, waveVars>>

WaveTypeOK ==
  /\ BackendTypeOK
  /\ pc \in Nat \ {0}
  /\ written \subseteq Ids
  /\ held \in [FileNames -> [Regs -> Ids \cup {NoId}]]
  /\ flight \subseteq Ids /\ skipped \subseteq Ids
  /\ late \in [Regs -> Ids \cup {NoId}]
  /\ storing \in BOOLEAN

WaveInit ==
  /\ pc = 1 /\ written = {} /\ flight = {} /\ skipped = {} /\ storing = FALSE
  /\ held = [f \in FileNames |-> [r \in Regs |-> NoId]]
  /\ late = [r \in Regs |-> NoId]

\* The values an instruction defines, and the registers of a value.
Results(i) == {code[i].dst} \cap {v \in Ids : Tracked(v)}
Taken(v) == IF v \in Placed THEN RegsOf(v) ELSE {}

\* The registers of file f an instruction writes its result to.
Overwritten(i, f) ==
  IF f = WrittenFile(i) /\ Results(i) \cap Placed # {} THEN WrittenRegs(i) ELSE {}

\* An s_waitcnt lets the wave on when nothing it counts is outstanding.
Drained == flight = {} /\ ~ storing
Ready == stage = "run" /\ pc \in Steps /\ (waits[pc] = "none" \/ Drained)

\* What file f holds after instruction i: its result, the materialised
\* constant in the scratch register, and everything else unchanged.
HeldAfter(i, f) ==
  LET constant == f = "v" /\ WritesScratch(code[i])
  IN [r \in Regs |-> IF r \in Overwritten(i, f) THEN code[i].dst
                     ELSE IF constant /\ r = scratch THEN NoId
                     ELSE held[f][r]]

\* An instruction other than a taken branch.
Execute ==
  /\ Ready
  /\ code[pc].op \notin {"S_BRANCH", "S_ENDPGM"}
  /\ held' = [f \in FileNames |-> HeldAfter(pc, f)]
  /\ LET constant == IF WritesScratch(code[pc]) THEN {scratch} ELSE {}
     IN late' = [r \in Regs |-> IF r \in Overwritten(pc, "v") \cup constant THEN NoId
                                ELSE late[r]]
  /\ written' = written \cup Results(pc)
  /\ LET issued == IF code[pc].op \in Loads THEN Results(pc) ELSE {}
     IN flight' = flight \cup issued /\ skipped' = skipped \ issued
  /\ storing' = (storing \/ code[pc].op \in Stores)
  /\ pc' = pc + 1
  /\ UNCHANGED <<raVars, backendVars>>

\* A branch taken; the last label of that name is the one it reaches.
Jump ==
  /\ Ready
  /\ code[pc].op \in Branches
  /\ \E t \in LabelAt(BranchTo(pc)) :
       /\ \A u \in LabelAt(BranchTo(pc)) : u <= t
       /\ pc' = t
  /\ skipped' = skipped \cup flight
  /\ UNCHANGED <<raVars, backendVars, written, held, flight, late, storing>>

EndProgram ==
  /\ Ready
  /\ code[pc].op = "S_ENDPGM"
  /\ stage' = "ended"
  /\ UNCHANGED <<raVars, waits, emitted, owed, anyVmem, scratch, waveVars>>

\* A load returns: its registers hold its data, whoever took them since.
LoadReturns(u) ==
  /\ u \in flight
  /\ flight' = flight \ {u}
  /\ late' = [r \in Regs |-> IF r \in Taken(u) /\ held["v"][r] # u THEN u ELSE late[r]]
  /\ UNCHANGED <<raVars, backendVars, pc, written, held, skipped, storing>>

StoreCompletes ==
  /\ storing /\ storing' = FALSE
  /\ UNCHANGED <<raVars, backendVars, pc, written, held, flight, skipped, late>>

WaveNext ==
  \/ Execute \/ Jump \/ EndProgram
  \/ \E u \in Ids : LoadReturns(u)
  \/ StoreCompletes

\* What the lowering and the selection give every list: labels are unique,
\* and the branch over a per-lane if leads forward to its merge label.
Structured ==
  /\ \A s, t \in Steps :
       code[s].op = "LABEL" /\ code[t].op = "LABEL" /\ code[s].a = code[t].a => s = t
  /\ \A i, t \in Steps :
       code[i].op = "S_CBRANCH_EXECZ" /\ t \in LabelAt(BranchTo(i)) => i < t

\* A result is used below its instruction: the blocks of a function are in an
\* order in which a block follows those that dominate it, and a value that is
\* carried around a loop is a phi, which a move defines.
LoadsBeforeReads ==
  \A p, i \in Steps, u \in Ids :
    code[p].op \in Loads /\ Defines(p, u) /\ Reads(i, u) => p < i

\* Every sign mask _signed_prep computes of a uniform value is subtracted, and
\* combined by an exclusive or, with a scalar operation.
SignMasksRead ==
  \A i \in Steps : code[i].op = "S_ASHR" /\ code[i].dst \in Ids =>
    \E j \in Steps : code[j].op \in Sop2 /\ "b" \notin code[j].imm /\ code[j].b = code[i].dst

\* An extracted component has the uniformity of its builtin.
ExtractsFiled ==
  \A i \in Steps : code[i].op = "EXTRACT" =>
    (vals[code[i].dst].unif # "DIVERGENT" <=> vals[code[i].a].payload = 1)

\* No 64-bit value is carried by a phi.  The lowering does not give this: it is
\* what the reads below need.
MovesFit == \A i \in Steps : code[i].op = "V_MOV" => Width(code[i].dst) = 1

\* The lists whose results go where they are filed.
Encodable == SignMasksRead /\ ExtractsFiled /\ MovesFit

Init == RegAllocInputs /\ RegAllocInit /\ BackendInit /\ WaveInit

Next ==
  \/ RegAllocNext /\ UNCHANGED <<backendVars, waveVars>>
  \/ BackendNext /\ UNCHANGED waveVars
  \/ WaveNext

Spec == Init /\ [][Next]_vars

-----------------------------------------------------------------------------
(* What a compiled list guarantees.                                        *)

\* The values instruction pc is about to read.
ReadNow(v) == Ready /\ v \in written /\ Reads(pc, v)

\* No list runs with a result filed in one register file and written to the
\* other: a uniform arithmetic shift right is, and the scalar operations that
\* read it are rejected.
RunsAsFiled ==
  stage = "run" => \A i \in Steps : Results(i) # {} => WrittenFile(i) = FileOf(i)

\* No allocated register is the scratch register the list writes.
ScratchFree ==
  (\E i \in Steps : WritesScratch(code[i])) =>
    \A v \in Placed : Tracked(v) /\ InVgpr(v) => scratch \notin RegsOf(v)

\* Along every path, the registers an instruction reads were last taken for
\* the value it names, loops and reuse included, provided constants are
\* materialised outside the allocated registers.  A list that carries 64-bit
\* values in phis breaks it.
ReadsFindTheirValue ==
  \A v \in written : ReadNow(v) /\ ScratchFree =>
    \A r \in Taken(v) : held[IF InVgpr(v) THEN "v" ELSE "s"][r] = v

\* A read meets a load in flight, or finds the data of a load that returned
\* after its register was reused, only when a branch was taken since that
\* load was issued or the program never uses the load.
StaleReadNeedsABranch ==
  \A v \in written : ReadNow(v) /\ ScratchFree =>
    /\ v \in flight => v \in skipped
    /\ InVgpr(v) => \A r \in Taken(v) : LET u == late[r] IN
         u # NoId => u \in skipped \/ ~ \E i \in Steps : Reads(i, u)

\* The wave retires with no load or store outstanding, but for an s_endpgm
\* that every memory instruction of the text follows: gfx9_waitcnt looks at
\* what it has spliced, and an early return in a loop may run after a store
\* that stands below it.
RetiresDrained ==
  stage = "ended" /\ (storing \/ flight # {}) =>
    \A j \in 1 .. pc - 1 : code[j].op \notin Loads \cup Stores

\* What gfx9_waitcnt.cyr:9 states: no instruction reads the result of a load
\* that has not completed.
NoReadBeforeWait == \A v \in written : ReadNow(v) => v \notin flight

\* What gfx9_compile.cyr:856 states: the scratch register is above every
\* allocated VGPR.
ScratchAboveHighWater ==
  stage = "run" /\ (\E i \in Steps : WritesScratch(code[i])) => scratch >= hw["v"]
=============================================================================
