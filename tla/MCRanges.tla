------------------------------ MODULE MCRanges ------------------------------
(***************************************************************************)
(* The two parts of mabda that give out byte ranges, one per behaviour:    *)
(* the aliasing planner on every small set of transients, as rg_build      *)
(* leaves them (lifetimes are node positions, offsets still zero), and the *)
(* GPU addresses of a context with two small regions.                      *)
(***************************************************************************)
EXTENDS AliasPlan, VaAllocator

CONSTANTS MaxTransients, Widths, LastNode

VARIABLE part

Lifetimes == {l \in (0 .. LastNode) \X (0 .. LastNode) : l[1] <= l[2]}
             \cup {<<Unused, Unused>>}

Shapes == {<<"buffer", w, 0>> : w \in Widths}
          \cup {<<"texture", w, h>> : w \in Widths, h \in 0 .. 1}

TransientOf(s, l) == [kind |-> s[1], w |-> s[2], h |-> s[3],
                      first |-> l[1], last |-> l[2], offset |-> 0]

TransientSets ==
  UNION {[1 .. n -> {TransientOf(s, l) : s \in Shapes, l \in Lifetimes}] : n \in 0 .. MaxTransients}

\* Two units of two addresses for render targets; right behind them four and a
\* half for everything else.
RegionBase == [r \in VaRegions |-> IF r = "rt" THEN 2 ELSE 6]
RegionTop == [r \in VaRegions |-> IF r = "rt" THEN 6 ELSE 15]

\* The auto-plan of rg_build, then a consumer asking for the stats again; or a
\* client creating and releasing objects.
Init ==
  /\ part \in {"planner", "addresses"}
  /\ transients \in (IF part = "planner" THEN TransientSets ELSE {<<>>})
  /\ PlanOff /\ VaInit
PlannerTurn == part = "planner" /\ PlanNext /\ UNCHANGED <<part, vaVars>>
AddressTurn == part = "addresses" /\ VaNext /\ UNCHANGED <<part, planVars>>

Spec == Init /\ [][PlannerTurn \/ AddressTurn]_<<part, planVars, vaVars>>
=============================================================================
