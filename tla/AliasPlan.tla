----------------------------- MODULE AliasPlan -----------------------------
(***************************************************************************)
(* The transient aliasing planner of src/src/render_graph.cyr              *)
(* (rg_plan_aliasing_stats and _rg_plan_kind): greedy interval colouring   *)
(* that gives every used transient a byte offset into one backing block,   *)
(* so that transients that are never alive together may share bytes.       *)
(*                                                                         *)
(* A transient is alive from first to last, positions in the sorted node   *)
(* vector.  One step places one transient; the texture pass starts where   *)
(* the buffer pass ended.                                                  *)
(***************************************************************************)
EXTENDS Integers, Sequences, FiniteSets

CONSTANT Align      \* _RG_PLAN_ALIGN
ASSUME AlignAssumption == Align \in Nat \ {0}

VARIABLES
  transients,   \* the transient vector
  plan,         \* "off", the kind being placed, or "done"
  unplaced,     \* indices of that kind still to be placed
  slots,        \* the slots of that kind: offset, size, last use of the occupant
  cursor,       \* end of the block so far
  stats         \* slot count and naive bytes so far

planVars == <<transients, plan, unplaced, slots, cursor, stats>>

Kinds == {"buffer", "texture"}
Unused == -1

\* TransientResource: kind, dimensions, lifetime, planned offset.
Transients == [kind : Kinds, w : Nat, h : Nat, first : Nat \cup {Unused},
               last : Nat \cup {Unused}, offset : Nat]
Slots == [offset : Nat, size : Nat, until : Nat]

\* _rg_plan_transient_bytes: textures count as RGBA8 and at least one row.
TransientBytes(r) ==
  IF r.kind = "buffer" THEN r.w ELSE r.w * (IF r.h = 0 THEN 1 ELSE r.h) * 4

\* Mutant: a multiple of Align is padded by a whole Align, the rest not at all.
AlignUpInverted(n) == IF n % Align = 0 THEN n + Align ELSE n

\* _rg_plan_align_up.
AlignUp(n) == IF n % Align = 0 THEN n ELSE n + (Align - (n % Align))

Size(i) == AlignUp(TransientBytes(transients[i]))

\* Mutant: dead transients are planned too.
LiveOrDead(k) == {i \in 1 .. Len(transients) : transients[i].kind = k}

\* The transients the planner looks at: of the kind, and used by some node.
Live(k) == {i \in 1 .. Len(transients) :
              transients[i].kind = k /\ transients[i].first # Unused}
LiveAll == UNION {Live(k) : k \in Kinds}

PlanTypeOK ==
  /\ transients \in Seq(Transients)
  /\ plan \in Kinds \cup {"off", "done"}
  /\ unplaced \subseteq 1 .. Len(transients)
  /\ slots \in Seq(Slots)
  /\ cursor \in Nat
  /\ stats \in [count : Nat, naive : Nat]

PlanOff ==
  /\ plan = "off"
  /\ unplaced = {}
  /\ slots = <<>>
  /\ cursor = 0
  /\ stats = [count |-> 0, naive |-> 0]

\* rg_plan_aliasing_stats on a built graph: the buffer pass starts at 0.
StartPlan ==
  /\ plan \in {"off", "done"}
  /\ plan' = "buffer"
  /\ unplaced' = Live("buffer")
  /\ slots' = <<>>
  /\ cursor' = 0
  /\ stats' = [count |-> 0, naive |-> 0]
  /\ UNCHANGED transients

\* Mutant: a slot whose occupant ends at the node where i begins is reused.
ReusableTouching(i) == {k \in 1 .. Len(slots) :
                          slots[k].until <= transients[i].first /\ slots[k].size >= Size(i)}

\* The slots transient i may reuse, and the tightest of them (the first one
\* among equals).
Reusable(i) == {k \in 1 .. Len(slots) :
                  slots[k].until < transients[i].first /\ slots[k].size >= Size(i)}
BestSlot(i) ==
  CHOOSE k \in Reusable(i) :
    \A l \in Reusable(i) : \/ slots[k].size < slots[l].size
                           \/ slots[k].size = slots[l].size /\ k <= l

\* One transient of least first use (the selection sort leaves the order of
\* equals to its swaps, so any of them) takes a slot or opens one.  Its size
\* enters the naive sum, which the code adds up in a loop of its own.
Place ==
  /\ plan \in Kinds
  /\ \E i \in unplaced :
       /\ \A j \in unplaced : transients[i].first <= transients[j].first
       /\ unplaced' = unplaced \ {i}
       /\ stats' = [stats EXCEPT !.naive = @ + Size(i)]
       /\ IF Reusable(i) = {}
            THEN /\ transients' = [transients EXCEPT ![i].offset = cursor]
                 /\ slots' = Append(slots, [offset |-> cursor, size |-> Size(i),
                                            until |-> transients[i].last])
                 /\ cursor' = cursor + Size(i)
            ELSE /\ transients' =
                      [transients EXCEPT ![i].offset = slots[BestSlot(i)].offset]
                 /\ slots' = [slots EXCEPT ![BestSlot(i)].until = transients[i].last]
                 /\ UNCHANGED cursor
  /\ UNCHANGED plan

\* A kind is finished: its slots are counted and the next pass goes on behind.
FinishKind ==
  /\ plan \in Kinds
  /\ unplaced = {}
  /\ plan' = IF plan = "buffer" THEN "texture" ELSE "done"
  /\ unplaced' = IF plan = "buffer" THEN Live("texture") ELSE {}
  /\ slots' = <<>>
  /\ stats' = [stats EXCEPT !.count = @ + Len(slots)]
  /\ UNCHANGED <<transients, cursor>>

PlanStep == Place \/ FinishKind

\* What rg_build hands over: any transients, each unused or alive from its
\* first to its last use; then the planner, any number of times.
LifetimesSet ==
  \A i \in 1 .. Len(transients) :
    \/ transients[i].first = Unused /\ transients[i].last = Unused
    \/ /\ transients[i].first # Unused /\ transients[i].last # Unused
       /\ transients[i].first <= transients[i].last

PlanInit == transients \in Seq(Transients) /\ LifetimesSet /\ PlanOff
PlanNext == StartPlan \/ PlanStep
PlanSpec == PlanInit /\ [][PlanNext]_planVars

-----------------------------------------------------------------------------
\* The transients this run of the planner has placed.
Placed ==
  IF plan = "off" THEN {}
  ELSE IF plan = "buffer" THEN Live("buffer") \ unplaced
  ELSE LiveAll \ unplaced

AliveTogether(i, j) ==
  /\ transients[i].first <= transients[j].last
  /\ transients[j].first <= transients[i].last

DisjointBytes(i, j) ==
  \/ transients[i].offset + TransientBytes(transients[i]) <= transients[j].offset
  \/ transients[j].offset + TransientBytes(transients[j]) <= transients[i].offset

\* The plan of _rg_plan_kind never puts two transients that are alive
\* together, or of different kinds, on common bytes, and keeps every one of
\* them inside the block whose size it reports.
PlanSound ==
  /\ \A i, j \in Placed :
       i # j /\ (AliveTogether(i, j) \/ transients[i].kind # transients[j].kind) =>
         DisjointBytes(i, j)
  /\ \A i \in Placed : transients[i].offset + TransientBytes(transients[i]) <= cursor

\* Sharing never costs memory, and every slot is at an aligned offset: the
\* block rg_plan_aliasing_stats reports is no larger than separate allocations.
PlanNoWorse ==
  /\ cursor <= stats.naive
  /\ plan = "done" => stats.count <= Cardinality(LiveAll)
  /\ \A i \in Placed : transients[i].offset % Align = 0

-----------------------------------------------------------------------------
(* The inductive strengthening of PlanSound (AliasPlanProofs).             *)

\* A planner at rest holds no slots; one at work has its own kind to place.
PassesInOrder ==
  /\ plan \in {"off", "done"} => unplaced = {} /\ slots = <<>>
  /\ plan \in Kinds => unplaced \subseteq Live(plan)

\* Slots follow each other in the block.
SlotsApart ==
  /\ \A k \in DOMAIN slots : slots[k].offset + slots[k].size <= cursor
  /\ \A k, l \in DOMAIN slots :
       k < l => slots[k].offset + slots[k].size <= slots[l].offset

\* What this pass placed sits in a slot that is large enough and remembers the
\* last use of its occupants.
PlacedInSlot ==
  plan \in Kinds =>
    \A i \in Live(plan) \ unplaced : \E k \in DOMAIN slots :
      /\ transients[i].offset = slots[k].offset
      /\ Size(i) <= slots[k].size
      /\ transients[i].last <= slots[k].until

\* The buffers of the pass before lie below every slot of the texture pass.
BuffersBelow ==
  plan = "texture" =>
    \A i \in Live("buffer"), k \in DOMAIN slots :
      transients[i].offset + Size(i) <= slots[k].offset

\* PlanSound with aligned sizes.
EndOf(i) == transients[i].offset + Size(i)
AlignedSound ==
  /\ \A i, j \in Placed :
       i # j /\ (AliveTogether(i, j) \/ transients[i].kind # transients[j].kind) =>
         EndOf(i) <= transients[j].offset \/ EndOf(j) <= transients[i].offset
  /\ \A i \in Placed : EndOf(i) <= cursor

\* PlanNoWorse with the pass at work: every slot was opened for an occupant of
\* its own, at an aligned end of the block.
Frugal ==
  /\ cursor <= stats.naive
  /\ stats.count + Len(slots) <= Cardinality(Placed)
  /\ cursor % Align = 0
  /\ \A k \in DOMAIN slots : slots[k].offset % Align = 0
  /\ \A i \in Placed : transients[i].offset % Align = 0

PlanIInv ==
  /\ PlanTypeOK /\ LifetimesSet /\ PassesInOrder
  /\ SlotsApart /\ PlacedInSlot /\ BuffersBelow /\ AlignedSound
=============================================================================
