---------------------------- MODULE ShaderBackend ----------------------------
(***************************************************************************)
(* The two passes of gfx9_compile that follow register allocation:         *)
(* gfx9_waitcnt (src/src/gfx9_waitcnt.cyr), which puts an s_waitcnt before *)
(* the first use of an outstanding load and before s_endpgm, and the       *)
(* operand, scratch-register and label resolution of gfx9_emit_program     *)
(* (src/src/gfx9_compile.cyr).                                             *)
(*                                                                         *)
(* The spliced list is kept as the wait in front of each instruction, so a *)
(* position means the same instruction in every pass.                      *)
(***************************************************************************)
EXTENDS RegAlloc

CONSTANT ListCap        \* CMP_ISEL_CAP, the capacity of the spliced list

ASSUME ListCapAssumption == ListCap \in Nat

VARIABLES
  stage,      \* "waits", "emit", "run", an error, or "ended" (the wave retired)
  waits,      \* the wait in front of every instruction spliced so far
  emitted,    \* records written to the spliced list (k)
  owed,       \* results of loads not waited for (outstanding)
  anyVmem,    \* a load or a store has been spliced
  scratch     \* the VGPR constants are materialised in

backendVars == <<stage, waits, emitted, owed, anyVmem, scratch>>

Waits == {"none", "vm", "all"}
EmitErrors == {"UNRESOLVED_LABEL", "BAD_SALU_OPERAND", "NO_VGPR_OPERAND",
               "FLAT_NONVGPR", "FLAT_CONST_OFFSET", "TWO_LITERALS", "VOP3_LITERAL",
               "UNSUPPORTED_OPERAND", "UNSUPPORTED_BUILTIN"}
BackendStages == {"waits", "emit", "run", "ended", "WC_CAP"} \cup EmitErrors

BackendTypeOK ==
  /\ RegAllocTypeOK
  /\ stage \in BackendStages
  /\ waits \in Seq(Waits)
  /\ emitted \in 0 .. ListCap
  /\ owed \subseteq Ids \cup {NoId}
  /\ anyVmem \in BOOLEAN
  /\ scratch \in Nat

BackendInit ==
  /\ stage = "waits" /\ waits = <<>> /\ emitted = 0
  /\ owed = {} /\ anyVmem = FALSE /\ scratch = 0

-----------------------------------------------------------------------------
(* gfx9_waitcnt: one pass over the text, whatever path the wave takes.     *)

\* Mutant: a wait is taken to cover the store data operand only.
WaitForData(i) ==
  IF code[i].op = "S_ENDPGM" THEN IF anyVmem THEN "all" ELSE "none"
  ELSE IF ({code[i].c} \cap Ids) \cap owed # {} THEN "vm" ELSE "none"

\* Before s_endpgm everything drains if any memory operation was spliced;
\* elsewhere all loads drain if one of them is an operand.
WaitBefore(i) ==
  IF code[i].op = "S_ENDPGM" THEN IF anyVmem THEN "all" ELSE "none"
  ELSE IF IdOperands(code[i]) \cap owed # {} THEN "vm" ELSE "none"

\* Mutant: a store does not oblige s_endpgm to wait.
LoadsOnly(i) == code[i].op \in Loads

TouchesMemory(i) == code[i].op \in Loads \cup Stores

\* Mutant: only the instruction is checked against the capacity.
RoomForOne(w) == emitted + 1 <= ListCap

SpliceRoom(w) == emitted + (IF w = "none" THEN 1 ELSE 2) <= ListCap

Splice ==
  /\ pass = "done" /\ stage = "waits" /\ Len(waits) < Len(code)
  /\ LET i == Len(waits) + 1
         w == WaitBefore(i)
     IN /\ SpliceRoom(w)
        /\ waits' = Append(waits, w)
        /\ emitted' = emitted + (IF w = "none" THEN 1 ELSE 2)
        /\ owed' = (IF w = "vm" THEN {} ELSE owed)
                   \cup {code[j].dst : j \in {i} \cap {l \in Steps : code[l].op \in Loads}}
        /\ anyVmem' = (anyVmem \/ TouchesMemory(i))
  /\ UNCHANGED <<raVars, stage, scratch>>

SpliceFull ==
  /\ pass = "done" /\ stage = "waits" /\ Len(waits) < Len(code)
  /\ ~ SpliceRoom(WaitBefore(Len(waits) + 1))
  /\ stage' = "WC_CAP"
  /\ UNCHANGED <<raVars, waits, emitted, owed, anyVmem, scratch>>

Spliced ==
  /\ pass = "done" /\ stage = "waits" /\ Len(waits) = Len(code)
  /\ stage' = "emit"
  /\ UNCHANGED <<raVars, waits, emitted, owed, anyVmem, scratch>>

-----------------------------------------------------------------------------
(* gfx9_emit_program.                                                      *)

\* The file map: the file the last definition of v in the text writes.
InVgpr(v) == \E i \in Steps : /\ Defines(i, v) /\ FileOf(i) = "v"
                              /\ \A j \in i + 1 .. Len(code) : ~ Defines(j, v)

\* Mutant: the file map follows the value's uniformity, not its instruction.
VgprIfDivergent(ins, f) ==
  f \notin ins.imm /\ ins[f] \in Ids /\ Tracked(ins[f]) /\ vals[ins[f]].unif = "DIVERGENT"

Vgpr(ins, f) == f \notin ins.imm /\ ins[f] \in Ids /\ Tracked(ins[f]) /\ InVgpr(ins[f])

\* _cmp_operand_is_literal: a constant outside the inline range.
ConstIn(ins, f) == f \notin ins.imm /\ ins[f] \in Ids /\ vals[ins[f]].kind = "CONST"
Literal(ins, f) ==
  \/ f \in ins.imm /\ ins[f] \notin -16 .. 64
  \/ ConstIn(ins, f) /\ vals[ins[f]].payload \notin -16 .. 64

\* _cmp_store_value_is_const.
StoresConst(ins) == "c" \in ins.imm \/ ConstIn(ins, "c")

\* The constants materialised in the scratch register: the literal operand
\* of a two-source VOP3 and the constant data of a store.
WritesScratch(ins) ==
  \/ ins.op \in Vop3 /\ (Literal(ins, "a") \/ Literal(ins, "b"))
  \/ ins.op \in Stores /\ StoresConst(ins)

\* The first register above the first half of every VGPR value.
ScratchVgpr ==
  LET used == {reg[v] + 1 : v \in {u \in Ids : Tracked(u) /\ InVgpr(u)}}
  IN CHOOSE r \in used \cup {files["v"].base} :
       \A q \in used \cup {files["v"].base} : q <= r

\* The operands _cmp_resolve looks at, and those _cmp_vgpr_operand does.
Resolved(ins) ==
  CASE ins.op \in Vop1 -> {"a"}
    [] ins.op \in Sop2 \cup Vop2 \cup Vop3 \cup {"V_LSHLREV", "S_CMP"} -> {"a", "b"}
    [] ins.op = "V_CMP" -> {"a"}
    [] ins.op = "V_SELECT" -> {"a", "b", "c"}
    [] ins.op \in Stores /\ StoresConst(ins) -> {"c"}
    [] OTHER -> {}

VgprOnly(ins) ==
  CASE ins.op = "V_CNDMASK" -> {"a", "b"}
    [] ins.op = "V_CMP" -> {"b"}
    [] ins.op \in Loads \/ (ins.op \in Stores /\ StoresConst(ins)) -> {"a"}
    [] ins.op \in Stores -> {"a", "c"}
    [] OTHER -> {}

Resolvable(ins, f) ==
  f \in ins.imm \/ (ins[f] \in Ids /\ vals[ins[f]].kind \in {"CONST", "SSA"})

\* An f64 constant has no literal form.
WideConst(ins, f) == ConstIn(ins, f) /\ vals[ins[f]].type = "F64"

\* The errors _cmp_emit_one can reject an instruction with; when several of
\* its operands are at fault any of them may be the first it meets.
Rejects(ins, e) ==
  LET scalar == ins.op \in Sop2 \cup {"S_CMP"}
      noScratch == WritesScratch(ins) /\ ScratchVgpr >= MaxRegs
  IN
  \/ e = "UNSUPPORTED_OPERAND" /\ \E f \in Resolved(ins) : ~ Resolvable(ins, f)
  \/ e = "VOP3_LITERAL" /\ \E f \in Resolved(ins) : WideConst(ins, f)
  \/ e = "BAD_SALU_OPERAND" /\ scalar /\ (Vgpr(ins, "a") \/ Vgpr(ins, "b"))
  \/ e = "TWO_LITERALS" /\ scalar /\ Literal(ins, "a") /\ Literal(ins, "b")
  \/ e = "NO_VGPR_OPERAND" /\ ins.op \in Vop2 /\ ~ Vgpr(ins, "a") /\ ~ Vgpr(ins, "b")
  \/ e = "NO_VGPR_OPERAND" /\ ins.op = "V_LSHLREV" /\ ~ Vgpr(ins, "a")
  \/ e = "VOP3_LITERAL" /\ ins.op \in Vop3 /\ Literal(ins, "a") /\ Literal(ins, "b")
  \/ e = "VOP3_LITERAL" /\ ins.op = "V_SELECT" /\ \E f \in {"a", "b", "c"} : Literal(ins, f)
  \/ e = "VOP3_LITERAL" /\ ins.op \in Vop3 /\ noScratch
  \/ e = "FLAT_NONVGPR" /\ ins.op \in Stores /\ noScratch
  \/ e = "FLAT_CONST_OFFSET" /\ \E f \in VgprOnly(ins) : ins[f] = NoId
  \/ e = "FLAT_NONVGPR" /\ \E f \in VgprOnly(ins) : ins[f] # NoId /\ ~ Vgpr(ins, f)
  \/ /\ e = "UNSUPPORTED_OPERAND" /\ ins.op = "EXTRACT"
     /\ ins.a \notin Ids \/ vals[ins.a].kind # "BUILTIN"
  \/ /\ e = "UNSUPPORTED_BUILTIN" /\ ins.op = "EXTRACT" /\ ins.a \in Ids
     /\ vals[ins.a].kind = "BUILTIN" /\ vals[ins.a].payload \notin {0, 1}

\* The file an encoder writes the result to, and the registers: _emit_sop2's
\* destination is an SGPR whatever the file map says, _emit_extract goes by the
\* builtin (1 is the WorkgroupId), and v_mov_b32 moves one dword of a pair.
WrittenFile(i) ==
  IF \/ code[i].op \in Sop2
     \/ code[i].op = "EXTRACT" /\ vals[code[i].a].payload = 1
  THEN "s" ELSE "v"
WrittenRegs(i) ==
  IF code[i].op = "V_MOV" THEN {reg[code[i].dst]} ELSE RegsOf(code[i].dst)

\* The label an s_branch keeps in a, the conditional branches in c.
BranchTo(i) == IF code[i].op = "S_BRANCH" THEN code[i].a ELSE code[i].c
LabelAt(l) == {t \in Steps : code[t].op = "LABEL" /\ code[t].a = l}

\* Every instruction resolves, and every branch finds its label.
EmitProgram ==
  /\ stage = "emit"
  /\ scratch' = ScratchVgpr
  /\ \A i \in Steps : \A e \in EmitErrors : ~ Rejects(code[i], e)
  /\ \A i \in Steps : code[i].op \in Branches => LabelAt(BranchTo(i)) # {}
  /\ stage' = "run"
  /\ UNCHANGED <<raVars, waits, emitted, owed, anyVmem>>

\* The first instruction that is rejected decides the error.
EmitRejected ==
  /\ stage = "emit"
  /\ scratch' = ScratchVgpr
  /\ \E i \in Steps, e \in EmitErrors :
       /\ Rejects(code[i], e) /\ stage' = e
       /\ \A j \in 1 .. i - 1, d \in EmitErrors : ~ Rejects(code[j], d)
  /\ UNCHANGED <<raVars, waits, emitted, owed, anyVmem>>

Unresolved ==
  /\ stage = "emit"
  /\ scratch' = ScratchVgpr
  /\ \A i \in Steps : \A e \in EmitErrors : ~ Rejects(code[i], e)
  /\ \E i \in Steps : code[i].op \in Branches /\ LabelAt(BranchTo(i)) = {}
  /\ stage' = "UNRESOLVED_LABEL"
  /\ UNCHANGED <<raVars, waits, emitted, owed, anyVmem>>

BackendNext ==
  \/ Splice \/ SpliceFull \/ Spliced
  \/ EmitProgram \/ EmitRejected \/ Unresolved
=============================================================================
