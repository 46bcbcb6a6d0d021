-------------------------- MODULE AliasPlanProofs --------------------------
(***************************************************************************)
(* The planner of AliasPlan is sound for any number of transients of any   *)
(* sizes and lifetimes, and any alignment: PlanIInv is inductive and       *)
(* implies PlanSound.                                                      *)
(***************************************************************************)
EXTENDS AliasPlan, SequenceTheorems, FiniteSetTheorems, WellFoundedInduction, TLAPS

USE AlignAssumption

\* _rg_plan_align_up never shrinks a size.
LEMMA AlignUpBound ==
  ASSUME NEW n \in Nat
  PROVE  AlignUp(n) \in Nat /\ n <= AlignUp(n)
<1>1. n % Align \in 0 .. Align - 1
  OBVIOUS
<1>. QED
  BY <1>1 DEF AlignUp

\* Every transient has a byte count, and a size no smaller.
LEMMA SizeBound ==
  ASSUME transients \in Seq(Transients), NEW i \in 1 .. Len(transients)
  PROVE  /\ transients[i] \in Transients
         /\ TransientBytes(transients[i]) \in Nat
         /\ Size(i) \in Nat
         /\ TransientBytes(transients[i]) <= Size(i)
<1>1. transients[i] \in Transients
  OBVIOUS
<1>2. \A w, h \in Nat : w * h * 4 \in Nat
  OBVIOUS
<1>3. TransientBytes(transients[i]) \in Nat
  BY <1>1, <1>2 DEF TransientBytes, Transients
<1>. QED
  BY <1>1, <1>3, AlignUpBound DEF Size

\* A planned offset fits the record's type.
LEMMA OffsetTyped ==
  ASSUME NEW t \in Transients, NEW o \in Nat
  PROVE  [t EXCEPT !.offset = o] \in Transients
  BY DEF Transients

\* Planning a transient changes its offset and nothing else.
LEMMA PlannedTransient ==
  ASSUME transients \in Seq(Transients), LifetimesSet,
         NEW i \in 1 .. Len(transients), NEW o \in Nat,
         transients' = [transients EXCEPT ![i].offset = o]
  PROVE  /\ transients' \in Seq(Transients)
         /\ Len(transients') = Len(transients)
         /\ transients'[i].offset = o
         /\ \A j \in 1 .. Len(transients) :
              /\ j # i => transients'[j].offset = transients[j].offset
              /\ transients'[j].first = transients[j].first
              /\ transients'[j].last = transients[j].last
              /\ transients'[j].kind = transients[j].kind
              /\ Size(j)' = Size(j)
         /\ \A k \in Kinds : Live(k)' = Live(k)
         /\ LifetimesSet'
<1>1. /\ transients' \in Seq(Transients)
      /\ Len(transients') = Len(transients)
  <2>1. [transients[i] EXCEPT !.offset = o] \in Transients
    <3>1. transients[i] \in Transients
      OBVIOUS
    <3>. QED
      BY <3>1, OffsetTyped
  <2>2. transients' = [transients EXCEPT ![i] = [transients[i] EXCEPT !.offset = o]]
    OBVIOUS
  <2>. QED
    BY <2>1, <2>2, ExceptSeq
<1>2. transients'[i].offset = o
  BY DEF Transients
<1>3. ASSUME NEW j \in 1 .. Len(transients)
      PROVE  /\ j # i => transients'[j].offset = transients[j].offset
             /\ transients'[j].first = transients[j].first
             /\ transients'[j].last = transients[j].last
             /\ transients'[j].kind = transients[j].kind
             /\ transients'[j].w = transients[j].w
             /\ transients'[j].h = transients[j].h
  <2>1. CASE j # i
    <3>1. transients'[j] = transients[j]
      BY <2>1
    <3>. QED
      BY <2>1, <3>1
  <2>2. CASE j = i
    <3>1. transients'[i] = [transients[i] EXCEPT !.offset = o]
      OBVIOUS
    <3>2. transients[i] \in Transients
      OBVIOUS
    <3>. QED
      BY <2>2, <3>1, <3>2 DEF Transients
  <2>. QED
    BY <2>1, <2>2
<1>4. ASSUME NEW j \in 1 .. Len(transients)
      PROVE  Size(j)' = Size(j)
  BY <1>3, <1>4 DEF Size, TransientBytes
<1>5. ASSUME NEW k \in Kinds
      PROVE  Live(k)' = Live(k)
  BY <1>1, <1>3 DEF Live
<1>6. LifetimesSet'
  BY <1>1, <1>3 DEF LifetimesSet
<1>. QED
  BY <1>1, <1>2, <1>3, <1>4, <1>5, <1>6

\* Nothing the planner does before its first pass has been placed.
LEMMA InitSound == PlanInit => PlanIInv
<1>. SUFFICES ASSUME PlanInit PROVE PlanIInv
  OBVIOUS
<1>1. /\ transients \in Seq(Transients) /\ LifetimesSet
      /\ plan = "off" /\ unplaced = {} /\ slots = <<>> /\ cursor = 0
      /\ stats = [count |-> 0, naive |-> 0]
  BY DEF PlanInit, PlanOff
<1>2. PlanTypeOK
  BY <1>1 DEF PlanTypeOK
<1>3. Placed = {}
  BY <1>1 DEF Placed
<1>4. PassesInOrder /\ SlotsApart /\ PlacedInSlot /\ BuffersBelow
  BY <1>1 DEF PassesInOrder, SlotsApart, PlacedInSlot, BuffersBelow, Kinds
<1>5. AlignedSound
  BY <1>3 DEF AlignedSound
<1>. QED
  BY <1>1, <1>2, <1>4, <1>5 DEF PlanIInv

\* A new plan forgets the old one: nothing is placed, the block is empty.
LEMMA StartSound == PlanIInv /\ StartPlan => PlanIInv'
<1>. SUFFICES ASSUME PlanIInv, StartPlan PROVE PlanIInv'
  OBVIOUS
<1>1. /\ transients' = transients
      /\ plan' = "buffer" /\ unplaced' = Live("buffer")'
      /\ slots' = <<>> /\ cursor' = 0
      /\ stats' = [count |-> 0, naive |-> 0]
      /\ Live("buffer")' \subseteq 1 .. Len(transients)
  BY DEF StartPlan, Live
<1>2. PlanTypeOK'
  BY <1>1 DEF PlanIInv, PlanTypeOK, Kinds
<1>3. Placed' = {}
  BY <1>1 DEF Placed
<1>4. LifetimesSet'
  BY <1>1 DEF PlanIInv, LifetimesSet
<1>5. PassesInOrder' /\ SlotsApart' /\ PlacedInSlot' /\ BuffersBelow'
  BY <1>1 DEF PassesInOrder, SlotsApart, PlacedInSlot, BuffersBelow, Kinds
<1>6. AlignedSound'
  BY <1>3 DEF AlignedSound
<1>. QED
  BY <1>2, <1>4, <1>5, <1>6 DEF PlanIInv

\* The pass over one kind ends with all of it placed; what is placed stays.
LEMMA FinishSound == PlanIInv /\ FinishKind => PlanIInv'
<1>. SUFFICES ASSUME PlanIInv, FinishKind PROVE PlanIInv'
  OBVIOUS
<1>1. /\ plan \in Kinds /\ unplaced = {}
      /\ plan' = IF plan = "buffer" THEN "texture" ELSE "done"
      /\ unplaced' = IF plan = "buffer" THEN Live("texture") ELSE {}
      /\ slots' = <<>>
      /\ UNCHANGED <<transients, cursor>>
  BY DEF FinishKind
<1>2. PlanTypeOK'
  <2>1. Len(slots) \in Nat
    BY DEF PlanIInv, PlanTypeOK
  <2>2. stats' \in [count : Nat, naive : Nat]
    BY <2>1 DEF PlanIInv, PlanTypeOK, FinishKind
  <2>3. unplaced' \subseteq 1 .. Len(transients)
    BY <1>1 DEF Live
  <2>. QED
    BY <1>1, <2>2, <2>3 DEF PlanIInv, PlanTypeOK, Kinds
<1>3. Placed' = Placed
  BY <1>1 DEF Placed, LiveAll, Live, Kinds
<1>4. LifetimesSet'
  BY <1>1 DEF PlanIInv, LifetimesSet
<1>5. PassesInOrder' /\ SlotsApart'
  BY <1>1 DEF PassesInOrder, SlotsApart, Kinds, Live
<1>6. PlacedInSlot' /\ BuffersBelow'
  BY <1>1 DEF PlacedInSlot, BuffersBelow, Live, Kinds
<1>7. AlignedSound'
  BY <1>1, <1>3 DEF PlanIInv, AlignedSound, EndOf, Size, AliveTogether
<1>. QED
  BY <1>2, <1>4, <1>5, <1>6, <1>7 DEF PlanIInv

\* What Place has in common whether it reuses a slot or opens one.
PlaceAt(i, o) ==
  /\ plan \in Kinds /\ i \in unplaced
  /\ plan' = plan
  /\ unplaced' = unplaced \ {i}
  /\ transients' = [transients EXCEPT ![i].offset = o]

\* One more transient is placed, and the records of the others are kept.
LEMMA PlaceEffect ==
  ASSUME PlanIInv, NEW i, NEW o \in Nat, PlaceAt(i, o)
  PROVE  /\ i \in 1 .. Len(transients) /\ i \in Live(plan) /\ i \notin Placed
         /\ transients[i].kind = plan
         /\ Placed' = Placed \cup {i}
         /\ Placed \subseteq 1 .. Len(transients)
         /\ \A k \in Kinds : Live(k)' = Live(k)
<1>1. /\ i \in Live(plan) /\ i \in 1 .. Len(transients)
      /\ transients[i].kind = plan
  BY DEF PlaceAt, PlanIInv, PassesInOrder, Live
<1>2. \A k \in Kinds : Live(k)' = Live(k)
  BY <1>1, PlannedTransient DEF PlaceAt, PlanIInv, PlanTypeOK
<1>3. LiveAll' = LiveAll
  BY <1>2 DEF LiveAll
<1>4. Live("buffer")' = Live("buffer")
  BY <1>2 DEF Kinds
<1>5. i \notin Placed
  BY <1>1 DEF PlaceAt, Placed, Kinds
<1>6. i \in LiveAll /\ LiveAll \subseteq 1 .. Len(transients)
  BY <1>1 DEF LiveAll, Live, PlaceAt
<1>7. Placed \subseteq 1 .. Len(transients)
  BY <1>6 DEF Placed, Live
<1>8. Placed' = Placed \cup {i}
  BY <1>1, <1>3, <1>4, <1>6 DEF PlaceAt, Placed, Kinds
<1>. QED
  BY <1>1, <1>2, <1>5, <1>7, <1>8

\* A new place keeps everything apart if it is apart from whatever it must be
\* apart from, inside the block, and the block does not shrink.
LEMMA PlaceAligned ==
  ASSUME PlanIInv, NEW i, NEW o \in Nat, PlaceAt(i, o),
         cursor' \in Nat, cursor <= cursor', o + Size(i) <= cursor',
         \A j \in Placed :
           AliveTogether(i, j) \/ transients[j].kind # transients[i].kind =>
             EndOf(j) <= o \/ o + Size(i) <= transients[j].offset
  PROVE  AlignedSound'
<1>1. /\ i \in 1 .. Len(transients) /\ i \notin Placed
      /\ Placed' = Placed \cup {i}
      /\ Placed \subseteq 1 .. Len(transients)
  BY PlaceEffect
<1>2. /\ transients'[i].offset = o
      /\ \A j \in 1 .. Len(transients) :
           /\ j # i => transients'[j].offset = transients[j].offset
           /\ transients'[j].first = transients[j].first
           /\ transients'[j].last = transients[j].last
           /\ transients'[j].kind = transients[j].kind
           /\ Size(j)' = Size(j)
  BY <1>1, PlannedTransient DEF PlaceAt, PlanIInv, PlanTypeOK
<1>3. EndOf(i)' = o + Size(i)
  BY <1>1, <1>2 DEF EndOf
<1>4. \A j \in Placed : /\ transients'[j].offset = transients[j].offset
                        /\ EndOf(j)' = EndOf(j)
  BY <1>1, <1>2 DEF EndOf
<1>5. \A j, l \in 1 .. Len(transients) : AliveTogether(j, l)' = AliveTogether(j, l)
  BY <1>2 DEF AliveTogether
<1>6. \A j, l \in 1 .. Len(transients) : AliveTogether(j, l) <=> AliveTogether(l, j)
  BY DEF AliveTogether
<1>7. ASSUME NEW j \in Placed', NEW l \in Placed', j # l,
             AliveTogether(j, l)' \/ transients'[j].kind # transients'[l].kind
      PROVE  EndOf(j)' <= transients'[l].offset \/ EndOf(l)' <= transients'[j].offset
  <2>1. AliveTogether(j, l) \/ transients[j].kind # transients[l].kind
    BY <1>1, <1>2, <1>5, <1>7
  <2>2. CASE j \in Placed /\ l \in Placed
    BY <1>4, <1>7, <2>1, <2>2 DEF PlanIInv, AlignedSound
  <2>3. CASE j = i /\ l \in Placed
    BY <1>2, <1>3, <1>4, <2>1, <2>3
  <2>4. CASE l = i /\ j \in Placed
    <3>1. AliveTogether(i, j) \/ transients[j].kind # transients[i].kind
      BY <1>1, <1>6, <2>1, <2>4
    <3>. QED
      BY <1>2, <1>3, <1>4, <2>4, <3>1
  <2>. QED
    BY <1>1, <1>7, <2>2, <2>3, <2>4
<1>8. ASSUME NEW j \in Placed'
      PROVE  EndOf(j)' <= cursor'
  <2>1. CASE j = i
    BY <1>3, <2>1
  <2>2. CASE j \in Placed
    <3>1. EndOf(j) <= cursor
      BY <2>2 DEF PlanIInv, AlignedSound
    <3>2. EndOf(j) \in Nat /\ cursor \in Nat
      <4>1. j \in 1 .. Len(transients)
        BY <1>1, <2>2
      <4>2. transients[j].offset \in Nat /\ Size(j) \in Nat
        BY <4>1, SizeBound DEF PlanIInv, PlanTypeOK, Transients
      <4>. QED
        BY <4>2 DEF EndOf, PlanIInv, PlanTypeOK
    <3>. QED
      BY <1>4, <2>2, <3>1, <3>2
  <2>. QED
    BY <1>1, <2>1, <2>2
<1>. QED
  BY <1>7, <1>8 DEF AlignedSound

\* A placed transient has a size, an offset and a last use.
LEMMA PlacedBounds ==
  ASSUME PlanIInv, NEW j \in 1 .. Len(transients)
  PROVE  /\ transients[j].offset \in Nat /\ Size(j) \in Nat
         /\ EndOf(j) = transients[j].offset + Size(j)
         /\ \A k \in Kinds : j \in Live(k) =>
              /\ transients[j].first \in Nat /\ transients[j].last \in Nat
              /\ transients[j].first <= transients[j].last
<1>1. transients[j] \in Transients /\ Size(j) \in Nat
  BY SizeBound DEF PlanIInv, PlanTypeOK
<1>. QED
  BY <1>1 DEF PlanIInv, LifetimesSet, Live, Transients, EndOf, Unused

\* A nonempty set of naturals has a least element.
LEMMA LeastNat ==
  ASSUME NEW T, T \subseteq Nat, T # {}
  PROVE  \E x \in T : \A y \in T : x <= y
<1>1. PICK x \in T : \A y \in T : ~(<<y, x>> \in OpToRel(<, Nat))
  BY NatLessThanWellFounded, WFMin
<1>2. ASSUME NEW y \in T PROVE x <= y
  <2>1. ~(<<y, x>> \in {ss \in Nat \X Nat : ss[1] < ss[2]})
    BY <1>1 DEF OpToRel
  <2>. QED
    BY <2>1
<1>. QED
  BY <1>2

\* A smaller size fits where a larger one does.
LEMMA FitsBelow ==
  \A x, y, z, w \in Nat : z >= y /\ x + z <= w => x + y <= w
  OBVIOUS

\* What ends inside a block ends inside a larger one.
LEMMA StillInside ==
  \A x, y, w, v \in Nat : x + y <= w /\ w <= v => x + y <= v
  OBVIOUS

\* At most, twice over.
LEMMA AtMostThrough ==
  \A x, y, z \in Nat : x <= y /\ y <= z => x <= z
  OBVIOUS

\* A slot of the vector is a slot.
LEMMA SlotBounds ==
  ASSUME PlanIInv, NEW k \in DOMAIN slots
  PROVE  /\ slots[k] \in Slots
         /\ slots[k].offset \in Nat /\ slots[k].size \in Nat
         /\ slots[k].until \in Nat
<1>1. slots \in Seq(Slots)
  BY DEF PlanIInv, PlanTypeOK
<1>2. k \in 1 .. Len(slots)
  BY <1>1
<1>3. slots[k] \in Slots
  BY <1>1, <1>2, ElementOfSeq
<1>. QED
  BY <1>3 DEF Slots

\* What no slot is disturbed by: the parts of PlanIInv that name the slots,
\* once the new transient has a slot k in the new slot vector.
LEMMA PlaceSlots ==
  ASSUME PlanIInv, NEW i, NEW o \in Nat, PlaceAt(i, o),
         cursor' \in Nat, stats' \in [count : Nat, naive : Nat],
         slots' \in Seq(Slots), SlotsApart', AlignedSound',
         Len(slots) <= Len(slots'),
         \A k \in DOMAIN slots : /\ slots'[k].offset = slots[k].offset
                                 /\ slots'[k].size = slots[k].size
                                 /\ slots[k].until <= slots'[k].until,
         \A k \in DOMAIN slots' : k \in DOMAIN slots \/ slots'[k].offset = cursor,
         NEW k \in DOMAIN slots',
         o = slots'[k].offset, Size(i) <= slots'[k].size,
         transients[i].last <= slots'[k].until
  PROVE  PlanIInv'
<1>1. /\ i \in 1 .. Len(transients) /\ i \in Live(plan) /\ plan \in Kinds
      /\ plan' = plan /\ unplaced' = unplaced \ {i}
      /\ \A q \in Kinds : Live(q)' = Live(q)
  BY PlaceEffect DEF PlaceAt
<1>2. /\ transients \in Seq(Transients) /\ LifetimesSet
      /\ transients' = [transients EXCEPT ![i].offset = o]
  BY DEF PlaceAt, PlanIInv, PlanTypeOK
<1>3. /\ transients' \in Seq(Transients) /\ LifetimesSet'
      /\ Len(transients') = Len(transients)
      /\ transients'[i].offset = o
  BY <1>1, <1>2, PlannedTransient
<1>4. \A j \in 1 .. Len(transients) :
        /\ j # i => transients'[j].offset = transients[j].offset
        /\ transients'[j].first = transients[j].first
        /\ transients'[j].last = transients[j].last
        /\ transients'[j].kind = transients[j].kind
        /\ Size(j)' = Size(j)
  BY <1>1, <1>2, PlannedTransient
<1>5. PlanTypeOK'
  BY <1>1, <1>3, <1>4 DEF PlanIInv, PlanTypeOK
<1>6. PassesInOrder'
  BY <1>1 DEF PlanIInv, PassesInOrder, Kinds
<1>7. DOMAIN slots \subseteq DOMAIN slots'
  BY DEF PlanIInv, PlanTypeOK
<1>8. PlacedInSlot'
  <2>. SUFFICES ASSUME NEW j \in Live(plan) \ (unplaced \ {i})
       PROVE  \E l \in DOMAIN slots' :
                /\ transients'[j].offset = slots'[l].offset
                /\ Size(j)' <= slots'[l].size
                /\ transients'[j].last <= slots'[l].until
    BY <1>1 DEF PlacedInSlot
  <2>1. CASE j = i
    BY <1>1, <1>3, <1>4, <2>1
  <2>2. CASE j # i
    <3>1. j \in Live(plan) \ unplaced /\ j \in 1 .. Len(transients)
      BY <2>2 DEF Live
    <3>2. PICK l \in DOMAIN slots : /\ transients[j].offset = slots[l].offset
                                    /\ Size(j) <= slots[l].size
                                    /\ transients[j].last <= slots[l].until
      BY <1>1, <3>1 DEF PlanIInv, PlacedInSlot
    <3>3. l \in DOMAIN slots' /\ slots[l] \in Slots /\ slots'[l] \in Slots
      BY <1>7 DEF PlanIInv, PlanTypeOK
    <3>4. transients[j].last \in Nat
      BY <1>1, <3>1, PlacedBounds
    <3>5. transients[j].last <= slots'[l].until
      <4>1. slots[l].until \in Nat /\ slots'[l].until \in Nat
        BY <3>3 DEF Slots
      <4>2. slots[l].until <= slots'[l].until
        BY <3>2
      <4>. QED
        BY <3>2, <3>4, <4>1, <4>2, AtMostThrough
    <3>. QED
      BY <1>3, <1>4, <2>2, <3>1, <3>2, <3>3, <3>5
  <2>. QED
    BY <2>1, <2>2
<1>9. BuffersBelow'
  <2>. SUFFICES ASSUME plan = "texture", NEW j \in Live("buffer"), NEW l \in DOMAIN slots'
       PROVE  transients'[j].offset + Size(j)' <= slots'[l].offset
    BY <1>1 DEF BuffersBelow, Kinds
  <2>1. j \in 1 .. Len(transients) /\ j # i /\ j \in Placed
    BY <1>1 DEF Live, Placed, LiveAll, PlanIInv, PassesInOrder, Kinds
  <2>2. EndOf(j) <= cursor /\ EndOf(j) = transients[j].offset + Size(j)
    BY <2>1 DEF PlanIInv, AlignedSound, EndOf
  <2>3. l \in DOMAIN slots => transients[j].offset + Size(j) <= slots[l].offset
    BY DEF PlanIInv, BuffersBelow
  <2>. QED
    BY <1>3, <1>4, <2>1, <2>2, <2>3
<1>. QED
  BY <1>3, <1>4, <1>5, <1>6, <1>8, <1>9 DEF PlanIInv

\* Opening a slot at the end of the block disturbs nothing.
LEMMA OpenSound ==
  ASSUME PlanIInv, NEW i, PlaceAt(i, cursor),
         slots' = Append(slots, [offset |-> cursor, size |-> Size(i),
                                 until |-> transients[i].last]),
         cursor' = cursor + Size(i),
         stats' \in [count : Nat, naive : Nat]
  PROVE  PlanIInv'
<1>1. /\ i \in 1 .. Len(transients) /\ i \in Live(plan) /\ plan \in Kinds
      /\ Placed \subseteq 1 .. Len(transients)
      /\ cursor \in Nat /\ slots \in Seq(Slots)
  BY PlaceEffect DEF PlanIInv, PlanTypeOK, PlaceAt
<1>2. /\ Size(i) \in Nat /\ transients[i].last \in Nat
  BY <1>1, PlacedBounds
<1>3. cursor' \in Nat /\ cursor <= cursor'
  BY <1>1, <1>2
<1>. DEFINE new == [offset |-> cursor, size |-> Size(i), until |-> transients[i].last]
<1>4. new \in Slots /\ new.offset = cursor /\ new.size = Size(i)
      /\ new.until = transients[i].last
  BY <1>1, <1>2 DEF Slots
<1>. HIDE DEF new
<1>5. slots' = Append(slots, new)
  BY DEF new
<1>6. /\ slots' \in Seq(Slots) /\ Len(slots') = Len(slots) + 1
      /\ \A k \in DOMAIN slots : slots'[k] = slots[k]
      /\ slots'[Len(slots) + 1] = new
      /\ DOMAIN slots' = 1 .. Len(slots) + 1
      /\ DOMAIN slots = 1 .. Len(slots) /\ Len(slots) \in Nat
  BY <1>1, <1>4, <1>5
<1>7. \A k \in DOMAIN slots : /\ slots[k].offset \in Nat /\ slots[k].size \in Nat
                              /\ slots[k].until \in Nat
                              /\ slots[k].offset + slots[k].size <= cursor
  BY SlotBounds DEF PlanIInv, SlotsApart
<1>8. SlotsApart'
  <2>1. ASSUME NEW k \in DOMAIN slots'
        PROVE  slots'[k].offset + slots'[k].size <= cursor'
    <3>1. CASE k = Len(slots) + 1
      BY <1>4, <1>6, <3>1
    <3>2. CASE k \in DOMAIN slots
      <4>1. slots[k].offset + slots[k].size <= cursor /\ slots'[k] = slots[k]
            /\ slots[k].offset \in Nat /\ slots[k].size \in Nat
        BY <1>6, <1>7, <3>2
      <4>2. slots[k].offset + slots[k].size <= cursor'
        BY <1>1, <1>3, <4>1, StillInside
      <4>. QED
        BY <4>1, <4>2
    <3>. QED
      BY <1>6, <3>1, <3>2
  <2>2. ASSUME NEW k \in DOMAIN slots', NEW l \in DOMAIN slots', k < l
        PROVE  slots'[k].offset + slots'[k].size <= slots'[l].offset
    <3>1. k \in DOMAIN slots
      BY <1>6, <2>2
    <3>2. CASE l \in DOMAIN slots
      BY <1>6, <2>2, <3>1, <3>2 DEF PlanIInv, SlotsApart
    <3>3. CASE l = Len(slots) + 1
      BY <1>4, <1>6, <1>7, <3>1, <3>3
    <3>. QED
      BY <1>6, <3>2, <3>3
  <2>. QED
    BY <2>1, <2>2 DEF SlotsApart
<1>9. AlignedSound'
  <2>1. \A j \in Placed : EndOf(j) <= cursor
    BY DEF PlanIInv, AlignedSound
  <2>. QED
    BY <1>1, <1>2, <1>3, <2>1, PlaceAligned
<1>. QED
  <2>. DEFINE k == Len(slots) + 1
  <2>1. k \in DOMAIN slots' /\ slots'[k] = new
    BY <1>6
  <2>2. /\ cursor = slots'[k].offset /\ Size(i) <= slots'[k].size
        /\ transients[i].last <= slots'[k].until
    BY <1>2, <1>4, <2>1
  <2>3. \A l \in DOMAIN slots : /\ slots'[l].offset = slots[l].offset
                                /\ slots'[l].size = slots[l].size
                                /\ slots[l].until <= slots'[l].until
    BY <1>6, <1>7
  <2>4. \A l \in DOMAIN slots' : l \in DOMAIN slots \/ slots'[l].offset = cursor
    BY <1>4, <1>6
  <2>5. Len(slots) <= Len(slots')
    BY <1>6
  <2>. HIDE DEF k
  <2>. QED
    BY <1>1, <1>3, <1>6, <1>8, <1>9, <2>1, <2>2, <2>3, <2>4, <2>5, PlaceSlots

\* A reused slot is big enough and its last occupant ends before i begins, so
\* whoever shares it with i is not alive together with i.
LEMMA ReuseSound ==
  ASSUME PlanIInv, NEW i, NEW b \in Reusable(i),
         PlaceAt(i, slots[b].offset),
         slots' = [slots EXCEPT ![b].until = transients[i].last],
         cursor' = cursor,
         stats' \in [count : Nat, naive : Nat]
  PROVE  PlanIInv'
<1>1. /\ i \in 1 .. Len(transients) /\ i \in Live(plan) /\ plan \in Kinds
      /\ cursor \in Nat /\ slots \in Seq(Slots)
      /\ b \in DOMAIN slots /\ slots[b] \in Slots
      /\ slots[b].until < transients[i].first /\ slots[b].size >= Size(i)
      /\ slots[b].offset \in Nat
  <2>1. b \in DOMAIN slots /\ slots \in Seq(Slots)
    BY DEF PlanIInv, PlanTypeOK, Reusable
  <2>2. slots[b] \in Slots /\ slots[b].offset \in Nat
    BY <2>1, SlotBounds
  <2>. QED
    BY <2>1, <2>2, PlaceEffect DEF PlanIInv, PlanTypeOK, PlaceAt, Reusable
<1>2. /\ Size(i) \in Nat /\ transients[i].last \in Nat
      /\ transients[i].first \in Nat
      /\ transients[i].first <= transients[i].last
      /\ slots[b].until \in Nat /\ slots[b].size \in Nat
  BY <1>1, PlacedBounds DEF Slots
<1>3. /\ slots' \in Seq(Slots) /\ Len(slots') = Len(slots)
      /\ DOMAIN slots' = DOMAIN slots
      /\ \A k \in DOMAIN slots : /\ slots'[k].offset = slots[k].offset
                                 /\ slots'[k].size = slots[k].size
                                 /\ k # b => slots'[k].until = slots[k].until
      /\ slots'[b].until = transients[i].last
  <2>1. [slots[b] EXCEPT !.until = transients[i].last] \in Slots
    <3>1. \A t \in Slots, u \in Nat : [t EXCEPT !.until = u] \in Slots
      BY DEF Slots
    <3>. QED
      BY <1>1, <1>2, <3>1
  <2>2. slots' = [slots EXCEPT ![b] = [slots[b] EXCEPT !.until = transients[i].last]]
    OBVIOUS
  <2>3. slots' \in Seq(Slots) /\ Len(slots') = Len(slots) /\ DOMAIN slots' = DOMAIN slots
    BY <1>1, <2>1, <2>2, ExceptSeq
  <2>4. slots'[b] = [slots[b] EXCEPT !.until = transients[i].last]
        /\ \A k \in DOMAIN slots : k # b => slots'[k] = slots[k]
    BY <1>1, <2>2
  <2>. QED
    BY <1>1, <2>3, <2>4 DEF Slots
<1>4. \A k \in DOMAIN slots : slots[k].until <= slots'[k].until
  <2>. SUFFICES ASSUME NEW k \in DOMAIN slots
       PROVE  slots[k].until <= slots'[k].until
    OBVIOUS
  <2>1. slots[k].until \in Nat
    BY SlotBounds
  <2>2. CASE k = b
    <3>1. slots'[b].until = transients[i].last
      BY <1>3
    <3>2. slots[b].until < transients[i].first
      BY <1>1
    <3>. QED
      BY <1>2, <2>2, <3>1, <3>2
  <2>3. CASE k # b
    BY <1>3, <2>1, <2>3
  <2>. QED
    BY <2>2, <2>3
<1>5. SlotsApart'
  BY <1>3 DEF PlanIInv, SlotsApart
<1>6. AlignedSound'
  <2>1. slots[b].offset + Size(i) <= cursor
    <3>1. slots[b].offset + slots[b].size <= cursor
      BY <1>1 DEF PlanIInv, SlotsApart
    <3>. QED
      BY <1>1, <1>2, <3>1, FitsBelow
  <2>2. ASSUME NEW j \in Placed,
               AliveTogether(i, j) \/ transients[j].kind # transients[i].kind
        PROVE  EndOf(j) <= slots[b].offset
               \/ slots[b].offset + Size(i) <= transients[j].offset
    <3>1. j \in 1 .. Len(transients) /\ transients[i].kind = plan
      BY PlaceEffect, <1>1
    <3>2. /\ transients[j].offset \in Nat /\ Size(j) \in Nat
          /\ EndOf(j) = transients[j].offset + Size(j)
      BY <3>1, PlacedBounds
    <3>3. CASE j \in Live(plan) \ unplaced
      <4>1. PICK k \in DOMAIN slots : /\ transients[j].offset = slots[k].offset
                                      /\ Size(j) <= slots[k].size
                                      /\ transients[j].last <= slots[k].until
        BY <1>1, <3>3 DEF PlanIInv, PlacedInSlot
      <4>2. slots[k].offset \in Nat /\ slots[k].size \in Nat /\ slots[k].until \in Nat
        BY SlotBounds
      <4>3. k # b
        <5>1. transients[j].kind = transients[i].kind
          BY <3>1, <3>3 DEF Live
        <5>2. transients[i].first <= transients[j].last
          BY <2>2, <5>1 DEF AliveTogether
        <5>3. transients[j].last \in Nat
          BY <1>1, <3>1, <3>3, PlacedBounds
        <5>4. transients[j].last <= slots[k].until /\ slots[b].until < transients[i].first
          BY <1>1, <4>1
        <5>5. /\ transients[i].first \in Nat
              /\ slots[k].until \in Nat /\ slots[b].until \in Nat
          BY <1>2, <4>2
        <5>. QED
          BY <5>2, <5>3, <5>4, <5>5
      <4>4. CASE k < b
        <5>1. slots[k].offset + slots[k].size <= slots[b].offset
          BY <1>1, <4>4 DEF PlanIInv, SlotsApart
        <5>2. slots[k].offset + Size(j) <= slots[b].offset
          BY <1>1, <3>2, <4>1, <4>2, <5>1, FitsBelow
        <5>. QED
          BY <3>2, <4>1, <5>2
      <4>5. CASE b < k
        <5>1. slots[b].offset + slots[b].size <= slots[k].offset
          BY <1>1, <4>5 DEF PlanIInv, SlotsApart
        <5>2. slots[b].offset + Size(i) <= slots[k].offset
          BY <1>1, <1>2, <4>2, <5>1, FitsBelow
        <5>. QED
          BY <4>1, <5>2
      <4>. QED
        BY <1>1, <4>3, <4>4, <4>5
    <3>4. CASE plan = "texture" /\ j \in Live("buffer")
      <4>1. transients[j].offset + Size(j) <= slots[b].offset
        BY <1>1, <3>4 DEF PlanIInv, BuffersBelow
      <4>. QED
        BY <3>2, <4>1
    <3>5. \/ j \in Live(plan) \ unplaced
          \/ plan = "texture" /\ j \in Live("buffer")
      BY <1>1 DEF Placed, LiveAll, Kinds
    <3>. QED
      BY <3>3, <3>4, <3>5
  <2>. QED
    BY <1>1, <2>1, <2>2, PlaceAligned
<1>7. /\ slots[b].offset = slots'[b].offset /\ Size(i) <= slots'[b].size
      /\ transients[i].last <= slots'[b].until
  <2>1. slots'[b].offset = slots[b].offset /\ slots'[b].size = slots[b].size
    <3>1. b \in DOMAIN slots
      BY <1>1
    <3>. QED
      BY <1>3, <3>1
  <2>2. slots'[b].until = transients[i].last
    BY <1>3
  <2>3. Size(i) <= slots[b].size /\ transients[i].last <= transients[i].last
    BY <1>1, <1>2
  <2>. QED
    BY <2>1, <2>2, <2>3
<1>8. cursor' \in Nat /\ Len(slots) <= Len(slots') /\ b \in DOMAIN slots'
  BY <1>1, <1>3
<1>. QED
  BY <1>1, <1>3, <1>4, <1>5, <1>6, <1>7, <1>8, PlaceSlots

\* The tightest slot is one of those that can be reused.
LEMMA BestSlotReusable ==
  ASSUME PlanIInv, NEW i, Reusable(i) # {}
  PROVE  BestSlot(i) \in Reusable(i)
<1>1. \E k \in Reusable(i) : \A l \in Reusable(i) :
         \/ slots[k].size < slots[l].size
         \/ slots[k].size = slots[l].size /\ k <= l
  <2>1. \A k \in Reusable(i) : k \in Nat /\ slots[k].size \in Nat
    <3>1. Reusable(i) \subseteq DOMAIN slots /\ DOMAIN slots \subseteq Nat
      BY DEF PlanIInv, PlanTypeOK, Reusable
    <3>. QED
      BY <3>1, SlotBounds
  <2>. DEFINE sizes == {slots[k].size : k \in Reusable(i)}
  <2>2. PICK m \in sizes : \A n \in sizes : m <= n
    <3>1. sizes \subseteq Nat /\ sizes # {}
      BY <2>1
    <3>. QED
      BY <3>1, LeastNat
  <2>. DEFINE tight == {k \in Reusable(i) : slots[k].size = m}
  <2>3. PICK k \in tight : \A l \in tight : k <= l
    <3>1. tight \subseteq Nat /\ tight # {}
      BY <2>1, <2>2
    <3>. QED
      BY <3>1, LeastNat
  <2>4. ASSUME NEW l \in Reusable(i)
        PROVE  \/ slots[k].size < slots[l].size
               \/ slots[k].size = slots[l].size /\ k <= l
    <3>1. slots[k].size = m /\ m <= slots[l].size
      BY <2>2, <2>3
    <3>2. slots[l].size = m => k <= l
      BY <2>3
    <3>3. slots[k].size \in Nat /\ slots[l].size \in Nat
      BY <2>1, <2>3
    <3>. QED
      BY <3>1, <3>2, <3>3
  <2>. QED
    BY <2>3, <2>4
<1>. QED
  BY <1>1 DEF BestSlot

\* Placing one transient keeps the strengthening, in a slot or in a new one.
LEMMA PlaceSound == PlanIInv /\ Place => PlanIInv'
<1>. SUFFICES ASSUME PlanIInv, Place PROVE PlanIInv'
  OBVIOUS
<1>1. PICK i \in unplaced :
        /\ unplaced' = unplaced \ {i}
        /\ stats' = [stats EXCEPT !.naive = @ + Size(i)]
        /\ IF Reusable(i) = {}
             THEN /\ transients' = [transients EXCEPT ![i].offset = cursor]
                  /\ slots' = Append(slots, [offset |-> cursor, size |-> Size(i),
                                             until |-> transients[i].last])
                  /\ cursor' = cursor + Size(i)
             ELSE /\ transients' =
                       [transients EXCEPT ![i].offset = slots[BestSlot(i)].offset]
                  /\ slots' = [slots EXCEPT ![BestSlot(i)].until = transients[i].last]
                  /\ UNCHANGED cursor
  BY DEF Place
<1>2. plan \in Kinds /\ plan' = plan
  BY DEF Place
<1>3. stats' \in [count : Nat, naive : Nat]
  <2>1. i \in 1 .. Len(transients)
    BY <1>2 DEF PlanIInv, PassesInOrder, Live
  <2>2. Size(i) \in Nat /\ stats \in [count : Nat, naive : Nat]
    BY <2>1, SizeBound DEF PlanIInv, PlanTypeOK
  <2>. QED
    BY <1>1, <2>2
<1>4. CASE Reusable(i) = {}
  BY <1>1, <1>2, <1>3, <1>4, OpenSound DEF PlaceAt
<1>5. CASE Reusable(i) # {}
  <2>1. BestSlot(i) \in Reusable(i)
    BY <1>5, BestSlotReusable
  <2>. QED
    BY <1>1, <1>2, <1>3, <1>5, <2>1, ReuseSound DEF PlaceAt
<1>. QED
  BY <1>4, <1>5

\* A step that changes nothing of the planner keeps the strengthening.
LEMMA StutterSound == PlanIInv /\ UNCHANGED planVars => PlanIInv'
<1>. SUFFICES ASSUME PlanIInv, UNCHANGED planVars PROVE PlanIInv'
  OBVIOUS
<1>1. UNCHANGED <<transients, plan, unplaced, slots, cursor, stats>>
  BY DEF planVars
<1>2. PlanTypeOK' /\ LifetimesSet'
  BY <1>1 DEF PlanIInv, PlanTypeOK, LifetimesSet
<1>3. PassesInOrder' /\ SlotsApart'
  BY <1>1 DEF PlanIInv, PassesInOrder, SlotsApart, Live
<1>4. PlacedInSlot'
  BY <1>1 DEF PlanIInv, PlacedInSlot, Live, Size
<1>5. BuffersBelow'
  BY <1>1 DEF PlanIInv, BuffersBelow, Live, Size
<1>6. Placed' = Placed
  BY <1>1 DEF Placed, LiveAll, Live
<1>7. AlignedSound'
  BY <1>1, <1>6 DEF PlanIInv, AlignedSound, EndOf, Size, AliveTogether
<1>. QED
  BY <1>2, <1>3, <1>4, <1>5, <1>7 DEF PlanIInv

\* The strengthening holds throughout.
THEOREM PlanInvariant == PlanSpec => []PlanIInv
<1>1. PlanIInv /\ [PlanNext]_planVars => PlanIInv'
  BY StartSound, PlaceSound, FinishSound, StutterSound DEF PlanNext, PlanStep
<1>. QED
  BY <1>1, InitSound, PTL DEF PlanSpec

\* Every variable of the planner stays in its type, for any transients.
THEOREM PlanTypeCorrect == PlanSpec => []PlanTypeOK
<1>1. PlanIInv => PlanTypeOK
  BY DEF PlanIInv
<1>. QED
  BY <1>1, PlanInvariant, PTL

\* What is kept apart with aligned sizes is apart.
LEMMA StrengthEnough == PlanIInv => PlanSound
<1>. SUFFICES ASSUME PlanIInv PROVE PlanSound
  OBVIOUS
<1>1. Placed \subseteq 1 .. Len(transients)
  BY DEF Placed, LiveAll, Live
<1>2. ASSUME NEW i \in Placed
      PROVE  /\ transients[i].offset \in Nat
             /\ TransientBytes(transients[i]) \in Nat /\ EndOf(i) \in Nat
             /\ transients[i].offset + TransientBytes(transients[i]) <= EndOf(i)
  <2>1. /\ Size(i) \in Nat /\ TransientBytes(transients[i]) \in Nat
        /\ TransientBytes(transients[i]) <= Size(i)
    BY <1>1, SizeBound DEF PlanIInv, PlanTypeOK
  <2>2. transients[i].offset \in Nat /\ EndOf(i) = transients[i].offset + Size(i)
    BY <1>1, PlacedBounds
  <2>. QED
    BY <2>1, <2>2
<1>3. ASSUME NEW i \in Placed, NEW j \in Placed, i # j,
             AliveTogether(i, j) \/ transients[i].kind # transients[j].kind
      PROVE  DisjointBytes(i, j)
  <2>1. EndOf(i) <= transients[j].offset \/ EndOf(j) <= transients[i].offset
    BY <1>3 DEF PlanIInv, AlignedSound
  <2>. QED
    BY <1>2, <2>1 DEF DisjointBytes
<1>4. ASSUME NEW i \in Placed
      PROVE  transients[i].offset + TransientBytes(transients[i]) <= cursor
  <2>1. EndOf(i) <= cursor /\ cursor \in Nat
    BY DEF PlanIInv, AlignedSound, PlanTypeOK
  <2>. QED
    BY <1>2, <2>1
<1>. QED
  BY <1>3, <1>4 DEF PlanSound

\* _rg_plan_kind never puts two transients that are alive together, or of
\* different kinds, on common bytes, and keeps them inside the block: for any
\* number of transients, any sizes, lifetimes and alignment.
THEOREM PlannerSound == PlanSpec => []PlanSound
  BY StrengthEnough, PlanInvariant, PTL

-----------------------------------------------------------------------------
(* Sharing never costs memory.                                             *)

\* The multiples of Align are closed under addition.
LEMMA MultipleAligned ==
  ASSUME NEW k \in Nat
  PROVE  (Align * k) % Align = 0
  OBVIOUS

LEMMA AlignedSum ==
  ASSUME NEW a \in Nat, NEW b \in Nat, a % Align = 0, b % Align = 0
  PROVE  (a + b) % Align = 0
<1>1. /\ a = Align * (a \div Align) /\ a \div Align \in Nat
      /\ b = Align * (b \div Align) /\ b \div Align \in Nat
  OBVIOUS
<1>. DEFINE p == a \div Align
            q == b \div Align
<1>2. p \in Nat /\ q \in Nat /\ a = Align * p /\ b = Align * q
  BY <1>1
<1>. HIDE DEF p, q
<1>3. a + b = Align * (p + q) /\ p + q \in Nat
  BY <1>2
<1>4. (Align * (p + q)) % Align = 0
  BY <1>3, MultipleAligned
<1>. QED
  BY <1>3, <1>4

\* _rg_plan_align_up gives a multiple of the alignment.
LEMMA AlignUpAligned ==
  ASSUME NEW n \in Nat
  PROVE  AlignUp(n) % Align = 0
<1>1. n % Align \in 0 .. Align - 1
  OBVIOUS
<1>2. CASE n % Align = 0
  BY <1>2 DEF AlignUp
<1>3. CASE n % Align # 0
  <2>1. n = Align * (n \div Align) + (n % Align)
    OBVIOUS
  <2>2. AlignUp(n) = Align * (n \div Align + 1)
    BY <1>3, <2>1 DEF AlignUp
  <2>. QED
    BY <2>2
<1>. QED
  BY <1>2, <1>3

LEMMA SizeAligned ==
  ASSUME transients \in Seq(Transients), NEW i \in 1 .. Len(transients)
  PROVE  Size(i) % Align = 0
  BY SizeBound, AlignUpAligned DEF Size

\* What is placed is a finite set.
LEMMA PlacedFinite ==
  ASSUME transients \in Seq(Transients)
  PROVE  IsFiniteSet(Placed) /\ Cardinality(Placed) \in Nat
<1>1. Placed \subseteq 1 .. Len(transients)
  BY DEF Placed, LiveAll, Live
<1>2. IsFiniteSet(1 .. Len(transients))
  BY FS_Interval
<1>. QED
  BY <1>1, <1>2, FS_Subset, FS_CardinalityType

\* A transient that is placed counts once more.
LEMMA OneMorePlaced ==
  ASSUME PlanIInv, NEW i, NEW o \in Nat, PlaceAt(i, o)
  PROVE  Cardinality(Placed') = Cardinality(Placed) + 1
<1>1. Placed' = Placed \cup {i} /\ i \notin Placed
  BY PlaceEffect
<1>. QED
  BY <1>1, PlacedFinite, FS_AddElement DEF PlanIInv, PlanTypeOK

LEMMA FrugalInit == PlanInit => Frugal
<1>. SUFFICES ASSUME PlanInit PROVE Frugal
  OBVIOUS
<1>1. plan = "off" /\ slots = <<>> /\ cursor = 0 /\ stats = [count |-> 0, naive |-> 0]
  BY DEF PlanInit, PlanOff
<1>2. Placed = {}
  BY <1>1 DEF Placed
<1>3. 0 % Align = 0
  OBVIOUS
<1>. QED
  BY <1>1, <1>2, <1>3, FS_EmptySet DEF Frugal

LEMMA FrugalStart == PlanIInv /\ StartPlan => Frugal'
<1>. SUFFICES ASSUME PlanIInv, StartPlan PROVE Frugal'
  OBVIOUS
<1>1. /\ plan' = "buffer" /\ unplaced' = Live("buffer")' /\ slots' = <<>> /\ cursor' = 0
      /\ stats' = [count |-> 0, naive |-> 0]
  BY DEF StartPlan, Live
<1>2. Placed' = {}
  BY <1>1 DEF Placed
<1>3. 0 % Align = 0
  OBVIOUS
<1>. QED
  BY <1>1, <1>2, <1>3, FS_EmptySet DEF Frugal

LEMMA FrugalFinish == PlanIInv /\ Frugal /\ FinishKind => Frugal'
<1>. SUFFICES ASSUME PlanIInv, Frugal, FinishKind PROVE Frugal'
  OBVIOUS
<1>1. /\ transients' = transients /\ slots' = <<>> /\ cursor' = cursor
      /\ stats' = [stats EXCEPT !.count = @ + Len(slots)]
  BY DEF FinishKind
<1>2. Placed' = Placed
  BY DEF FinishKind, Placed, LiveAll, Live, Kinds
<1>3. stats'.naive = stats.naive /\ stats'.count = stats.count + Len(slots)
  BY <1>1 DEF PlanIInv, PlanTypeOK
<1>4. stats.count + Len(slots) + 0 = stats.count + Len(slots)
  BY DEF PlanIInv, PlanTypeOK
<1>. QED
  BY <1>1, <1>2, <1>3, <1>4 DEF Frugal

\* A new slot costs what its first occupant would cost alone; a used one nothing.
LEMMA FrugalPlace == PlanIInv /\ Frugal /\ Place => Frugal'
<1>. SUFFICES ASSUME PlanIInv, Frugal, Place PROVE Frugal'
  OBVIOUS
<1>1. PICK i \in unplaced :
        /\ unplaced' = unplaced \ {i}
        /\ stats' = [stats EXCEPT !.naive = @ + Size(i)]
        /\ IF Reusable(i) = {}
             THEN /\ transients' = [transients EXCEPT ![i].offset = cursor]
                  /\ slots' = Append(slots, [offset |-> cursor, size |-> Size(i),
                                             until |-> transients[i].last])
                  /\ cursor' = cursor + Size(i)
             ELSE /\ transients' =
                       [transients EXCEPT ![i].offset = slots[BestSlot(i)].offset]
                  /\ slots' = [slots EXCEPT ![BestSlot(i)].until = transients[i].last]
                  /\ UNCHANGED cursor
  BY DEF Place
<1>2. plan \in Kinds /\ plan' = plan
  BY DEF Place
<1>3. /\ i \in 1 .. Len(transients) /\ transients \in Seq(Transients)
      /\ stats \in [count : Nat, naive : Nat] /\ cursor \in Nat /\ slots \in Seq(Slots)
  BY <1>2 DEF PlanIInv, PlanTypeOK, PassesInOrder, Live
<1>4. Size(i) \in Nat /\ Size(i) % Align = 0
  BY <1>3, SizeBound, SizeAligned
<1>5. stats'.naive = stats.naive + Size(i) /\ stats'.count = stats.count
  BY <1>1, <1>3
<1>6. Cardinality(Placed) \in Nat /\ Placed \subseteq 1 .. Len(transients)
  BY <1>3, PlacedFinite DEF Placed, LiveAll, Live
<1>7. ASSUME NEW o \in Nat, PlaceAt(i, o), o % Align = 0
      PROVE  /\ Cardinality(Placed') = Cardinality(Placed) + 1
             /\ \A j \in Placed' : transients'[j].offset % Align = 0
  <2>1. Placed' = Placed \cup {i}
    BY <1>7, PlaceEffect
  <2>2. /\ transients'[i].offset = o
        /\ \A j \in 1 .. Len(transients) : j # i => transients'[j].offset = transients[j].offset
    BY <1>3, <1>7, PlannedTransient DEF PlaceAt, PlanIInv
  <2>3. \A j \in Placed : transients[j].offset % Align = 0
    BY DEF Frugal
  <2>. QED
    BY <1>6, <1>7, <2>1, <2>2, <2>3, OneMorePlaced
<1>8. CASE Reusable(i) = {}
  <2>1. PlaceAt(i, cursor) /\ cursor % Align = 0
    BY <1>1, <1>2, <1>8 DEF PlaceAt, Frugal
  <2>2. /\ Cardinality(Placed') = Cardinality(Placed) + 1
        /\ \A j \in Placed' : transients'[j].offset % Align = 0
    BY <1>3, <1>7, <2>1
  <2>3. cursor' = cursor + Size(i) /\ cursor' % Align = 0
    BY <1>1, <1>3, <1>4, <1>8, <2>1, AlignedSum
  <2>4. /\ Len(slots') = Len(slots) + 1
        /\ \A k \in DOMAIN slots' : slots'[k].offset % Align = 0
    <3>. DEFINE new == [offset |-> cursor, size |-> Size(i), until |-> transients[i].last]
    <3>1. new.offset = cursor
      OBVIOUS
    <3>. HIDE DEF new
    <3>2. slots' = Append(slots, new)
      BY <1>1, <1>8 DEF new
    <3>3. /\ Len(slots') = Len(slots) + 1 /\ DOMAIN slots' = 1 .. Len(slots) + 1
          /\ DOMAIN slots = 1 .. Len(slots)
          /\ \A k \in DOMAIN slots : slots'[k] = slots[k]
          /\ slots'[Len(slots) + 1] = new
      BY <1>3, <3>2
    <3>4. \A k \in DOMAIN slots : slots[k].offset % Align = 0
      BY DEF Frugal
    <3>. QED
      BY <1>3, <2>1, <3>1, <3>3, <3>4
  <2>5. cursor <= stats.naive /\ stats.count + Len(slots) <= Cardinality(Placed)
    BY DEF Frugal
  <2>6. cursor' <= stats'.naive
    BY <1>3, <1>4, <1>5, <2>3, <2>5
  <2>7. stats'.count + Len(slots') <= Cardinality(Placed')
    BY <1>3, <1>5, <1>6, <2>2, <2>4, <2>5
  <2>. QED
    BY <2>2, <2>3, <2>4, <2>6, <2>7 DEF Frugal
<1>9. CASE Reusable(i) # {}
  <2>. DEFINE b == BestSlot(i)
  <2>1. b \in Reusable(i)
    BY <1>9, BestSlotReusable
  <2>2. b \in DOMAIN slots /\ slots[b].offset \in Nat /\ slots[b] \in Slots
    BY <1>3, <2>1, SlotBounds DEF Reusable
  <2>3. slots[b].offset % Align = 0
    BY <2>2 DEF Frugal
  <2>4. PlaceAt(i, slots[b].offset)
    BY <1>1, <1>2, <1>9 DEF PlaceAt
  <2>. HIDE DEF b
  <2>5. /\ Cardinality(Placed') = Cardinality(Placed) + 1
        /\ \A j \in Placed' : transients'[j].offset % Align = 0
    BY <1>7, <2>2, <2>3, <2>4
  <2>6. /\ Len(slots') = Len(slots) /\ DOMAIN slots' = DOMAIN slots
        /\ \A k \in DOMAIN slots : slots'[k].offset = slots[k].offset
    <3>1. slots' = [slots EXCEPT ![b] = [slots[b] EXCEPT !.until = transients[i].last]]
      BY <1>1, <1>9 DEF b
    <3>. QED
      BY <1>3, <2>2, <3>1 DEF Slots
  <2>7. cursor' = cursor
    BY <1>1, <1>9
  <2>8. /\ cursor <= stats.naive /\ stats.count + Len(slots) <= Cardinality(Placed)
        /\ cursor % Align = 0 /\ \A k \in DOMAIN slots : slots[k].offset % Align = 0
    BY DEF Frugal
  <2>9. cursor' <= stats'.naive
    BY <1>3, <1>4, <1>5, <2>7, <2>8
  <2>10. stats'.count + Len(slots') <= Cardinality(Placed')
    BY <1>3, <1>5, <1>6, <2>5, <2>6, <2>8
  <2>. QED
    BY <2>5, <2>6, <2>7, <2>8, <2>9, <2>10 DEF Frugal
<1>. QED
  BY <1>8, <1>9

LEMMA FrugalStutter == Frugal /\ UNCHANGED planVars => Frugal'
<1>. SUFFICES ASSUME Frugal, UNCHANGED planVars PROVE Frugal'
  OBVIOUS
<1>1. UNCHANGED <<transients, plan, unplaced, slots, cursor, stats>>
  BY DEF planVars
<1>2. Placed' = Placed
  BY <1>1 DEF Placed, LiveAll, Live
<1>. QED
  BY <1>1, <1>2 DEF Frugal

\* A plan at its end has placed everything that is alive.
LEMMA FrugalEnough == PlanIInv /\ Frugal => PlanNoWorse
<1>. SUFFICES ASSUME PlanIInv, Frugal PROVE PlanNoWorse
  OBVIOUS
<1>1. ASSUME plan = "done" PROVE stats.count <= Cardinality(LiveAll)
  <2>1. unplaced = {} /\ slots = <<>>
    BY <1>1 DEF PlanIInv, PassesInOrder
  <2>2. Placed = LiveAll
    BY <1>1, <2>1 DEF Placed
  <2>3. Len(slots) = 0 /\ stats.count \in Nat
    BY <2>1 DEF PlanIInv, PlanTypeOK
  <2>4. stats.count + Len(slots) <= Cardinality(Placed)
    BY DEF Frugal
  <2>. QED
    BY <2>2, <2>3, <2>4
<1>. QED
  BY <1>1 DEF PlanNoWorse, Frugal

\* The block rg_plan_aliasing_stats reports is never larger than separate allocations of the
\* same transients, no more slots are counted than there are transients in use, and every
\* planned offset is aligned: for any transients and any alignment.
THEOREM PlannerNoWorse == PlanSpec => []PlanNoWorse
<1>1. PlanInit => PlanIInv /\ Frugal
  BY InitSound, FrugalInit
<1>2. PlanIInv /\ Frugal /\ [PlanNext]_planVars => PlanIInv' /\ Frugal'
  BY StartSound, PlaceSound, FinishSound, StutterSound,
     FrugalStart, FrugalPlace, FrugalFinish, FrugalStutter DEF PlanNext, PlanStep
<1>. QED
  BY <1>1, <1>2, FrugalEnough, PTL DEF PlanSpec
=============================================================================
