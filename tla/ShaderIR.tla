------------------------------ MODULE ShaderIR ------------------------------
(***************************************************************************)
(* The records the SPIR-V -> GFX9 compiler passes hand to each other       *)
(* (src/src/mir.cyr, src/src/gfx9_isel.cyr): the value table indexed by    *)
(* <id> and the instruction record, which the MIR list and the selected    *)
(* list share: an operation, a result and three operands, each operand an  *)
(* <id> or an immediate.                                                   *)
(***************************************************************************)
EXTENDS Integers, Sequences, FiniteSets

CONSTANTS
  CapIds,     \* records in the value table (CC_CAP_IDS, at most RA_MAX_REGS)
  MaxRegs     \* RA_MAX_REGS

ASSUME ShaderCapsAssumption == CapIds \in Nat \ {0} /\ MaxRegs \in Nat

Ids == 1 .. CapIds - 1
NoId == 0

ValueKinds == {"NONE", "CONST", "BUILTIN", "BUFVAR", "SSA", "PTR"}
ValueTypes == {"VOID", "U32", "F32", "F64", "BOOL"}
Uniformities == {"UNIFORM", "DIVERGENT", "UNKNOWN"}

\* A value record: def is the position of the defining instruction (0: none).
Values == [kind : ValueKinds, type : ValueTypes, unif : Uniformities,
           def : Nat, payload : Int]
NoValue == [kind |-> "NONE", type |-> "VOID", unif |-> "UNIFORM",
            def |-> 0, payload |-> 0]

\* The operations gisel_writes_vgpr lists as writing an SGPR, and those the
\* encoder gives a scalar form: the arithmetic shift right is in one list only.
ScalarAlu == {"S_ADD", "S_SUB", "S_MUL", "S_LSHL"}
Sop2 == ScalarAlu \cup {"S_ASHR"}
Vop1 == {"V_MOV", "V_CVT"}
Vop2 == {"V_ADD", "V_SUB", "V_ADD_F32"}
Vop3 == {"V_MUL_LO", "V_ADD_F64"}
Loads == {"LOAD", "LOAD_X2"}
Stores == {"STORE", "STORE_X2"}
Branches == {"S_BRANCH", "S_CBRANCH", "S_CBRANCH_EXECZ"}
SelectedOps ==
  Sop2 \cup Vop1 \cup Vop2 \cup Vop3 \cup Loads \cup Stores \cup Branches \cup
  {"V_LSHLREV", "V_SELECT", "V_CNDMASK", "V_CONST_F64", "V_CMP", "S_CMP", "EXTRACT",
   "LABEL", "S_SAVEEXEC", "S_OR_EXEC", "S_ENDPGM"}

\* A selected instruction; imm names the operands that are immediates.
Selected == [op : SelectedOps, dst : Ids \cup {NoId}, a : Int, b : Int, c : Int,
             imm : SUBSET {"a", "b", "c"}, aux : Int]

\* _gisel_emit.
Select(op, dst, a, b, c, imm, aux) ==
  [op |-> op, dst |-> dst, a |-> a, b |-> b, c |-> c, imm |-> imm, aux |-> aux]

\* The operands of an instruction that are <id>s.
IdOperands(ins) ==
  {ins[f] : f \in {"a", "b", "c"} \ ins.imm} \cap Ids

\* gisel_result_is_vgpr over gisel_writes_vgpr: the file an instruction's
\* result is filed in, by the allocator and by the file map.
ResultIsVgpr(vals, ins) ==
  IF ins.op = "EXTRACT" THEN vals[ins.dst].unif = "DIVERGENT"
  ELSE ins.op \notin ScalarAlu
=============================================================================
