---------------------------- MODULE VaAllocator ----------------------------
(***************************************************************************)
(* The GPU address ranges of a native context (src/src/backend_native.cyr):*)
(* a region for textures, buffers and shaders and one for render targets,  *)
(* each with a bump cursor, and one list of released ranges that both      *)
(* share.  A range of the list is only given out again for its exact span. *)
(*                                                                         *)
(* One action is one create or release slot: the library is called by one  *)
(* thread and the slots are not re-entrant.  What a slot does in between,  *)
(* on the kernel objects, is external: creating or mapping the buffer      *)
(* object may fail, and so may unmapping it.                               *)
(***************************************************************************)
EXTENDS Integers, Sequences

CONSTANTS
  VaBase, VaTop,  \* per region: where it begins and ends
  VaAlign,        \* _NATIVE_TEXTURE_VA_ALIGN, _NATIVE_RT_VA_ALIGN
  FreeCap,        \* _NATIVE_VA_FREE_CAP
  Sizes,          \* byte sizes asked for
  ShaderSize,     \* the downsample shader of the mipmap generator
  Objects         \* places the client keeps its objects in

VaRegions == {"texture", "rt"}

ASSUME VaAssumption ==
  /\ VaBase \in [VaRegions -> Nat \ {0}] /\ VaTop \in [VaRegions -> Nat]
  /\ \A r \in VaRegions : VaBase[r] <= VaTop[r]
  /\ VaTop["rt"] <= VaBase["texture"]
  /\ VaAlign \in Nat \ {0} /\ FreeCap \in Nat
  /\ Sizes \subseteq Nat \ {0} /\ ShaderSize \in Nat \ {0}

VARIABLES
  va,        \* the cursors, the free list and the note of the last allocation
  object,    \* per place, the object the client holds there
  lost       \* ranges that neither an object nor the list knows any more

vaVars == <<va, object, lost>>

Ranges == [va : Nat, span : Nat \ {0}]
NoNote == [va |-> 0, span |-> 0, fromList |-> FALSE]
NoObject == [region |-> "none", va |-> 0, size |-> 0]
Existing == {c \in Objects : object[c] # NoObject}

\* _native_align_up.
Rounded(n) == ((n + (VaAlign - 1)) \div VaAlign) * VaAlign

\* The cursor is zero in a fresh context and set by the first allocation.
CursorOf(st, r) == IF st.next[r] = 0 THEN VaBase[r] ELSE st.next[r]

-----------------------------------------------------------------------------
(* The allocator.                                                          *)

Inside(v, r) == VaBase[r] <= v /\ v < VaTop[r]

\* The entries _native_va_take may take: of exactly this span, in the region.
Fitting(list, r, span) ==
  {i \in 1 .. Len(list) : list[i].span = span /\ Inside(list[i].va, r)}

\* The last entry fills the place of the one taken.
Without(list, i) ==
  [k \in 1 .. Len(list) - 1 |-> IF k = i THEN list[Len(list)] ELSE list[k]]

\* Mutant: an entry that is larger than asked for will do.
FittingLarger(list, r, span) ==
  {i \in 1 .. Len(list) : list[i].span >= span /\ Inside(list[i].va, r)}

Reused(st, r, span) ==
  {[next |-> st.next, list |-> Without(st.list, i),
    last |-> [va |-> st.list[i].va, span |-> span, fromList |-> TRUE]] :
     i \in {i \in Fitting(st.list, r, span) : \A j \in Fitting(st.list, r, span) : i <= j}}

Bumped(st, r, span) ==
  LET cur == CursorOf(st, r)
  IN IF cur + span <= VaTop[r]
     THEN {[next |-> [st.next EXCEPT ![r] = cur + span], list |-> st.list,
            last |-> [va |-> cur, span |-> span, fromList |-> FALSE]]}
     ELSE {}

\* native_ctx_alloc_texture_va, native_ctx_alloc_rt_va: the state after the
\* allocation, whose range is the one noted, or none when the region is full.
Allocated(st, r, size) ==
  IF Fitting(st.list, r, Rounded(size)) # {}
  THEN Reused(st, r, Rounded(size)) ELSE Bumped(st, r, Rounded(size))

Noted(st) == [va |-> st.last.va, span |-> st.last.span]

HasRoom(st) == Len(st.list) < FreeCap

\* _native_va_give: a full list drops the range.
Given(st, r, range) ==
  IF Inside(range.va, r) /\ range.span > 0 /\ HasRoom(st)
  THEN [st EXCEPT !.list = Append(@, range)] ELSE st

\* Mutant: the cursor is rewound wherever the range came from, as before 4.1.4.
RolledBackAlways(st, r, size) ==
  [st EXCEPT !.last = NoNote, !.next[r] = IF @ = 0 THEN 0 ELSE @ - Rounded(size)]

\* native_ctx_free_texture_va, native_ctx_free_rt_va: take back the allocation
\* just made.
RolledBack(st, r, size) ==
  LET cleared == [st EXCEPT !.last = NoNote]
  IN IF st.last.fromList
     THEN Given(cleared, r, [va |-> st.last.va, span |-> Rounded(size)])
     ELSE [cleared EXCEPT !.next[r] = IF @ = 0 THEN 0 ELSE @ - Rounded(size)]

-----------------------------------------------------------------------------
(* The slots.                                                              *)

\* A render target keeps its rounded size, the others the size asked for.
Kept(r, size) == IF r = "rt" THEN Rounded(size) ELSE size

\* The span each release works out again from what the object keeps.
RangeOf(o) == [va |-> o.va, span |-> Rounded(o.size)]

Create(c, r, size) ==
  /\ c \notin Existing
  /\ \/ Allocated(va, r, size) = {} /\ UNCHANGED <<va, object>>
     \/ \E st \in Allocated(va, r, size) :
          \/ /\ va' = st
             /\ object' = [object EXCEPT ![c] =
                  [region |-> r, va |-> Noted(st).va, size |-> Kept(r, size)]]
          \/ va' = RolledBack(st, r, size) /\ UNCHANGED object
  /\ UNCHANGED lost

\* The two mipped creates have no roll-back.
CreateMippedFails(size) ==
  \E st \in Allocated(va, "texture", size) :
    /\ va' = st /\ lost' = lost \cup {Noted(st)}
    /\ UNCHANGED object

\* A range goes back to the list only if it was unmapped.
GiveBack(st, r, range) ==
  \/ va' = Given(st, r, range)
     /\ lost' = IF HasRoom(st) THEN lost ELSE lost \cup {range}
  \/ va' = st /\ lost' = lost \cup {range}

Release(c) ==
  /\ c \in Existing
  /\ GiveBack(va, object[c].region, RangeOf(object[c]))
  /\ object' = [object EXCEPT ![c] = NoObject]

\* The shader of _backend_native_texture_generate_mipmaps lives for one call.
GenerateMipmaps ==
  /\ \E c \in Existing : object[c].region = "texture"
  /\ \E st \in Allocated(va, "texture", ShaderSize) :
       \/ va' = RolledBack(st, "texture", ShaderSize) /\ UNCHANGED lost
       \/ GiveBack(st, "texture", [va |-> st.last.va, span |-> Rounded(ShaderSize)])
  /\ UNCHANGED object

VaInit ==
  /\ va = [next |-> [r \in VaRegions |-> 0], list |-> <<>>, last |-> NoNote]
  /\ object = [c \in Objects |-> NoObject] /\ lost = {}

VaNext ==
  \/ \E c \in Objects, r \in VaRegions, size \in Sizes : Create(c, r, size)
  \/ \E size \in Sizes : CreateMippedFails(size)
  \/ \E c \in Objects : Release(c)
  \/ GenerateMipmaps

VaSpec == VaInit /\ [][VaNext]_vaVars

-----------------------------------------------------------------------------
(* What must hold.                                                         *)

VaTypeOK ==
  /\ va \in [next : [VaRegions -> Nat], list : Seq(Ranges),
             last : [va : Nat, span : Nat, fromList : BOOLEAN]]
  /\ Len(va.list) <= FreeCap
  /\ object \in [Objects -> [region : VaRegions, va : Nat, size : Nat \ {0}] \cup {NoObject}]
  /\ lost \in SUBSET Ranges

Apart(p, q) == p.va + p.span <= q.va \/ q.va + q.span <= p.va

\* p lies in region r, below its cursor.
Below(st, r, p) == VaBase[r] <= p.va /\ p.va + p.span <= CursorOf(st, r)

\* No two of the ranges held, listed and lost share an address.
RangesApart(st, obj, gone) ==
  LET held == {c \in Objects : obj[c] # NoObject}
  IN /\ \A c, d \in held : c # d => Apart(RangeOf(obj[c]), RangeOf(obj[d]))
     /\ \A c \in held, i \in 1 .. Len(st.list) : Apart(RangeOf(obj[c]), st.list[i])
     /\ \A c \in held, p \in gone : Apart(RangeOf(obj[c]), p)
     /\ \A i, j \in 1 .. Len(st.list) : i # j => Apart(st.list[i], st.list[j])
     /\ \A i \in 1 .. Len(st.list), p \in gone : Apart(st.list[i], p)
     /\ \A p, q \in gone : p # q => Apart(p, q)

\* Each lies in a region, behind its cursor, an object in the region it is for.
RangesInside(st, obj, gone) ==
  /\ \A r \in VaRegions : CursorOf(st, r) \in VaBase[r] .. VaTop[r]
  /\ \A c \in Objects : obj[c] # NoObject => Below(st, obj[c].region, RangeOf(obj[c]))
  /\ \A i \in 1 .. Len(st.list) : \E r \in VaRegions : Below(st, r, st.list[i])
  /\ \A p \in gone : \E r \in VaRegions : Below(st, r, p)

\* Every address given out so far is in one of them.
NothingForgotten(st, obj, gone) ==
  \A r \in VaRegions : \A u \in VaBase[r] .. CursorOf(st, r) - 1 :
    LET has(p) == p.va <= u /\ u < p.va + p.span
    IN \/ \E c \in Objects : obj[c] # NoObject /\ has(RangeOf(obj[c]))
       \/ \E i \in 1 .. Len(st.list) : has(st.list[i])
       \/ \E p \in gone : has(p)

Partitioned(st, obj, gone) ==
  RangesApart(st, obj, gone) /\ RangesInside(st, obj, gone) /\ NothingForgotten(st, obj, gone)

\* The addresses given out so far are divided among the objects, the free list
\* and the ranges that were given up, whatever fails in between: none is given
\* out twice, and none gets lost in a roll-back or a reuse.
RegionsPartitioned == Partitioned(va, object, lost)

VaIInv == VaTypeOK /\ RegionsPartitioned
=============================================================================
