------------------------- MODULE VaAllocatorProofs -------------------------
(***************************************************************************)
(* The ranges of a context stay divided among objects, free list and lost  *)
(* ranges, for regions, lists and numbers of objects of any size.          *)
(***************************************************************************)
EXTENDS VaAllocator, TLAPS

States == [next : [VaRegions -> Nat], list : Seq(Ranges),
           last : [va : Nat, span : Nat, fromList : BOOLEAN]]
Objs == [Objects -> [region : VaRegions, va : Nat, size : Nat \ {0}] \cup {NoObject}]

-----------------------------------------------------------------------------
(* Rounding.                                                               *)

\* Division by the alignment, without the division.
LEMMA DivBounds ==
  ASSUME NEW n \in Nat
  PROVE  /\ n \div VaAlign \in Nat
         /\ VaAlign * (n \div VaAlign) <= n
         /\ n < VaAlign * (n \div VaAlign) + VaAlign
<1>1. VaAlign \in Nat /\ VaAlign > 0
  BY VaAssumption
<1>2. /\ n = VaAlign * (n \div VaAlign) + (n % VaAlign)
      /\ n % VaAlign \in 0 .. VaAlign - 1
      /\ n \div VaAlign \in Nat
  BY <1>1
<1>. QED
  BY <1>1, <1>2

\* A size is rounded up, to a positive span, and rounding again is idle.
LEMMA RoundedProps ==
  ASSUME NEW n \in Nat \ {0}
  PROVE  Rounded(n) \in Nat \ {0} /\ Rounded(n) >= n /\ Rounded(Rounded(n)) = Rounded(n)
<1>1. VaAlign \in Nat /\ VaAlign > 0
  BY VaAssumption
<1> DEFINE q == (n + (VaAlign - 1)) \div VaAlign
<1>2. q \in Nat /\ VaAlign * q <= n + (VaAlign - 1) /\ n + (VaAlign - 1) < VaAlign * q + VaAlign
  <2>1. n + (VaAlign - 1) \in Nat
    BY <1>1
  <2>. QED
    BY <2>1, DivBounds
<1>3. Rounded(n) = VaAlign * q
  <2>1. Rounded(n) = q * VaAlign
    BY DEF Rounded
  <2>. QED
    BY <1>1, <1>2, <2>1
<1> DEFINE m == VaAlign * q
           p == (m + (VaAlign - 1)) \div VaAlign
<1>4. m \in Nat /\ m >= n
  BY <1>1, <1>2
<1>5. p \in Nat /\ VaAlign * p <= m + (VaAlign - 1) /\ m + (VaAlign - 1) < VaAlign * p + VaAlign
  <2>1. m + (VaAlign - 1) \in Nat
    BY <1>1, <1>4
  <2>. QED
    BY <2>1, DivBounds
<1>6. Rounded(m) = VaAlign * p
  <2>1. Rounded(m) = p * VaAlign
    BY DEF Rounded
  <2>. QED
    BY <1>1, <1>5, <2>1
<1>7. p = q
  <2>1. VaAlign * p < VaAlign * (q + 1) /\ VaAlign * q < VaAlign * (p + 1)
    BY <1>1, <1>2, <1>5
  <2>2. ~(p >= q + 1)
    <3>1. ASSUME p >= q + 1 PROVE FALSE
      <4>1. VaAlign * p >= VaAlign * (q + 1)
        BY <1>1, <1>2, <1>5, <3>1
      <4>. QED
        BY <1>1, <1>2, <1>5, <2>1, <4>1
    <3>. QED
      BY <3>1
  <2>3. ~(q >= p + 1)
    <3>1. ASSUME q >= p + 1 PROVE FALSE
      <4>1. VaAlign * q >= VaAlign * (p + 1)
        BY <1>1, <1>2, <1>5, <3>1
      <4>. QED
        BY <1>1, <1>2, <1>5, <2>1, <4>1
    <3>. QED
      BY <3>1
  <2>. QED
    BY <1>2, <1>5, <2>2, <2>3
<1>. QED
  BY <1>3, <1>4, <1>6, <1>7

\* What an object keeps of its size, it is released with the span it was given.
LEMMA KeptProps ==
  ASSUME NEW n \in Nat \ {0}, NEW r \in VaRegions
  PROVE  Kept(r, n) \in Nat \ {0} /\ Rounded(Kept(r, n)) = Rounded(n)
  BY RoundedProps DEF Kept

-----------------------------------------------------------------------------
(* Moving a range from one owner to another.                               *)

\* A range does not overlap itself apart.
LEMMA NeverApartFromItself ==
  ASSUME NEW p \in Ranges
  PROVE  ~Apart(p, p)
  BY DEF Ranges, Apart

\* It does not matter which of two ranges is named first.
LEMMA ApartSym ==
  ASSUME NEW p, NEW q, Apart(p, q)
  PROVE  Apart(q, p)
  BY DEF Apart

\* A range behind the cursor of a region begins inside it, and in no other.
LEMMA RegionUnique ==
  ASSUME NEW st \in States, NEW p \in Ranges, NEW r \in VaRegions, NEW q \in VaRegions,
         \A s \in VaRegions : CursorOf(st, s) \in VaBase[s] .. VaTop[s],
         Below(st, r, p)
  PROVE  /\ Inside(p.va, r)
         /\ Inside(p.va, q) => q = r
<1>1. /\ VaBase[r] \in Nat /\ VaTop[r] \in Nat /\ VaBase[q] \in Nat /\ VaTop[q] \in Nat
      /\ CursorOf(st, r) \in Nat /\ CursorOf(st, r) <= VaTop[r]
  BY VaAssumption
<1>2. /\ p.va \in Nat /\ p.span \in Nat /\ p.span > 0
      /\ VaBase[r] <= p.va /\ p.va + p.span <= CursorOf(st, r)
  BY DEF Ranges, Below
<1>3. Inside(p.va, r)
  BY <1>1, <1>2 DEF Inside
<1>4. ASSUME Inside(p.va, q), q # r PROVE FALSE
  <2>1. /\ VaTop["rt"] <= VaBase["texture"]
        /\ (r = "rt" /\ q = "texture") \/ (r = "texture" /\ q = "rt")
    BY <1>4, VaAssumption DEF VaRegions
  <2>. QED
    BY <1>1, <1>3, <1>4, <2>1, <1>2 DEF Inside
<1>. QED
  BY <1>3, <1>4

\* What an object holds is a range.
LEMMA HeldRange ==
  ASSUME NEW obj \in Objs, NEW c \in Objects, obj[c] # NoObject
  PROVE  RangeOf(obj[c]) \in Ranges /\ obj[c].region \in VaRegions
<1>1. obj[c] \in [region : VaRegions, va : Nat, size : Nat \ {0}]
  BY DEF Objs
<1>2. Rounded(obj[c].size) \in Nat \ {0}
  BY <1>1, RoundedProps
<1>. QED
  BY <1>1, <1>2 DEF RangeOf, Ranges

\* A range in no other hands becomes an object's.
LEMMA ToObject ==
  ASSUME NEW st \in States, NEW obj \in Objs, NEW gone \in SUBSET Ranges, NEW p \in Ranges,
         NEW c \in Objects, NEW o \in [region : VaRegions, va : Nat, size : Nat \ {0}],
         Partitioned(st, obj, gone \cup {p}), p \notin gone,
         obj[c] = NoObject, RangeOf(o) = p, Below(st, o.region, p)
  PROVE  /\ [obj EXCEPT ![c] = o] \in Objs
         /\ Partitioned(st, [obj EXCEPT ![c] = o], gone)
<1> DEFINE new == [obj EXCEPT ![c] = o]
<1>1. /\ new \in Objs /\ new[c] = o /\ o # NoObject
      /\ \A d \in Objects : d # c => new[d] = obj[d]
  <2>1. o # NoObject
    BY DEF NoObject, VaRegions
  <2>. QED
    BY <2>1 DEF Objs
<1> HIDE DEF new
<1>2. RangesApart(st, new, gone)
  <2>1. RangesApart(st, obj, gone \cup {p})
    BY DEF Partitioned
  <2>2. \A d, e \in Objects :
          new[d] # NoObject /\ new[e] # NoObject /\ d # e => Apart(RangeOf(new[d]), RangeOf(new[e]))
    <3>. SUFFICES ASSUME NEW d \in Objects, NEW e \in Objects,
                         new[d] # NoObject, new[e] # NoObject, d # e
         PROVE  Apart(RangeOf(new[d]), RangeOf(new[e]))
      OBVIOUS
    <3>1. CASE d = c
      BY <1>1, <2>1, <3>1, ApartSym DEF RangesApart
    <3>2. CASE e = c
      BY <1>1, <2>1, <3>2 DEF RangesApart
    <3>3. CASE d # c /\ e # c
      BY <1>1, <2>1, <3>3 DEF RangesApart
    <3>. QED
      BY <3>1, <3>2, <3>3
  <2>3. \A d \in Objects, i \in 1 .. Len(st.list) :
          new[d] # NoObject => Apart(RangeOf(new[d]), st.list[i])
    BY <1>1, <2>1, ApartSym DEF RangesApart
  <2>4. \A d \in Objects, q \in gone : new[d] # NoObject => Apart(RangeOf(new[d]), q)
    BY <1>1, <2>1 DEF RangesApart
  <2>. QED
    BY <2>1, <2>2, <2>3, <2>4 DEF RangesApart
<1>3. RangesInside(st, new, gone)
  BY <1>1 DEF Partitioned, RangesInside
<1>4. NothingForgotten(st, new, gone)
  <2>. SUFFICES ASSUME NEW r \in VaRegions, NEW u \in VaBase[r] .. CursorOf(st, r) - 1
       PROVE  \/ \E d \in Objects : new[d] # NoObject /\ RangeOf(new[d]).va <= u
                                    /\ u < RangeOf(new[d]).va + RangeOf(new[d]).span
              \/ \E i \in 1 .. Len(st.list) : st.list[i].va <= u /\ u < st.list[i].va + st.list[i].span
              \/ \E q \in gone : q.va <= u /\ u < q.va + q.span
    BY DEF NothingForgotten
  <2>1. \/ \E d \in Objects : obj[d] # NoObject /\ RangeOf(obj[d]).va <= u
                              /\ u < RangeOf(obj[d]).va + RangeOf(obj[d]).span
        \/ \E i \in 1 .. Len(st.list) : st.list[i].va <= u /\ u < st.list[i].va + st.list[i].span
        \/ \E q \in gone \cup {p} : q.va <= u /\ u < q.va + q.span
    BY DEF Partitioned, NothingForgotten
  <2>. QED
    BY <1>1, <2>1
<1>. QED
  BY <1>1, <1>2, <1>3, <1>4 DEF Partitioned, new

\* An object's range falls into no other hands when the object goes.
LEMMA FromObject ==
  ASSUME NEW st \in States, NEW obj \in Objs, NEW gone \in SUBSET Ranges, NEW c \in Objects,
         Partitioned(st, obj, gone), obj[c] # NoObject
  PROVE  /\ [obj EXCEPT ![c] = NoObject] \in Objs
         /\ RangeOf(obj[c]) \notin gone
         /\ Below(st, obj[c].region, RangeOf(obj[c]))
         /\ Partitioned(st, [obj EXCEPT ![c] = NoObject], gone \cup {RangeOf(obj[c])})
<1> DEFINE new == [obj EXCEPT ![c] = NoObject]
           p == RangeOf(obj[c])
<1>0. p \in Ranges /\ obj[c].region \in VaRegions
  BY HeldRange
<1>1. /\ new \in Objs /\ new[c] = NoObject
      /\ \A d \in Objects : d # c => new[d] = obj[d]
  BY DEF Objs
<1>2. \A d \in Objects : new[d] # NoObject => d # c /\ obj[d] # NoObject /\ new[d] = obj[d]
  BY <1>1
<1> HIDE DEF new
<1>3. RangesApart(st, obj, gone)
  BY DEF Partitioned
<1>4. p \notin gone
  BY <1>0, <1>3, NeverApartFromItself DEF RangesApart
<1>5. Below(st, obj[c].region, p)
  BY DEF Partitioned, RangesInside
<1> HIDE DEF p
<1>6. /\ \A d \in Objects : new[d] # NoObject => Apart(RangeOf(new[d]), p)
      /\ \A i \in 1 .. Len(st.list) : Apart(st.list[i], p)
      /\ \A q \in gone : Apart(p, q) /\ Apart(q, p)
  BY <1>2, <1>3, ApartSym DEF RangesApart, p
<1>7. RangesApart(st, new, gone \cup {p})
  BY <1>2, <1>3, <1>6 DEF RangesApart
<1>8. RangesInside(st, new, gone \cup {p})
  BY <1>0, <1>2, <1>5 DEF Partitioned, RangesInside
<1>9. NothingForgotten(st, new, gone \cup {p})
  <2>. SUFFICES ASSUME NEW r \in VaRegions, NEW u \in VaBase[r] .. CursorOf(st, r) - 1
       PROVE  \/ \E d \in Objects : new[d] # NoObject /\ RangeOf(new[d]).va <= u
                                    /\ u < RangeOf(new[d]).va + RangeOf(new[d]).span
              \/ \E i \in 1 .. Len(st.list) : st.list[i].va <= u /\ u < st.list[i].va + st.list[i].span
              \/ \E q \in gone \cup {p} : q.va <= u /\ u < q.va + q.span
    BY DEF NothingForgotten
  <2>1. \/ \E d \in Objects : obj[d] # NoObject /\ RangeOf(obj[d]).va <= u
                              /\ u < RangeOf(obj[d]).va + RangeOf(obj[d]).span
        \/ \E i \in 1 .. Len(st.list) : st.list[i].va <= u /\ u < st.list[i].va + st.list[i].span
        \/ \E q \in gone : q.va <= u /\ u < q.va + q.span
    BY DEF Partitioned, NothingForgotten
  <2>. QED
    BY <1>1, <2>1 DEF p
<1>. QED
  BY <1>1, <1>4, <1>5, <1>7, <1>8, <1>9 DEF Partitioned, new, p

\* The list, the cursors and what is forgotten depend on no note.
LEMMA SameRanges ==
  ASSUME NEW st, NEW new, NEW obj, NEW gone, new.next = st.next, new.list = st.list
  PROVE  /\ Partitioned(new, obj, gone) <=> Partitioned(st, obj, gone)
         /\ \A r, p : Below(new, r, p) <=> Below(st, r, p)
<1>1. \A r : CursorOf(new, r) = CursorOf(st, r)
  BY DEF CursorOf
<1>2. \A r, p : Below(new, r, p) <=> Below(st, r, p)
  BY <1>1 DEF Below
<1>3. RangesApart(new, obj, gone) <=> RangesApart(st, obj, gone)
  BY DEF RangesApart
<1>4. RangesInside(new, obj, gone) <=> RangesInside(st, obj, gone)
  BY <1>1, <1>2 DEF RangesInside
<1>5. NothingForgotten(new, obj, gone) <=> NothingForgotten(st, obj, gone)
  BY <1>1 DEF NothingForgotten
<1>. QED
  BY <1>2, <1>3, <1>4, <1>5 DEF Partitioned

\* A range in no other hands is listed, if the list has room.
LEMMA ToList ==
  ASSUME NEW st \in States, NEW obj \in Objs, NEW gone \in SUBSET Ranges, NEW p \in Ranges,
         NEW r \in VaRegions, Len(st.list) <= FreeCap,
         Partitioned(st, obj, gone \cup {p}), p \notin gone, Below(st, r, p), HasRoom(st)
  PROVE  /\ Given(st, r, p) \in States
         /\ Len(Given(st, r, p).list) <= FreeCap
         /\ Partitioned(Given(st, r, p), obj, gone)
<1> DEFINE new == [st EXCEPT !.list = Append(@, p)]
           n == Len(st.list)
<1>1. Given(st, r, p) = new
  <2>1. Inside(p.va, r)
    BY RegionUnique DEF Partitioned, RangesInside
  <2>2. p.span > 0
    BY DEF Ranges
  <2>. QED
    BY <2>1, <2>2 DEF Given
<1>2. /\ n \in Nat /\ st.list \in Seq(Ranges)
      /\ new \in States /\ new.next = st.next /\ new.list = Append(st.list, p)
  <2>1. st.list \in Seq(Ranges)
    BY DEF States
  <2>2. n \in Nat /\ Append(st.list, p) \in Seq(Ranges)
    BY <2>1
  <2>3. new.next = st.next /\ new.list = Append(st.list, p)
    BY DEF States
  <2>4. new \in States
    BY <2>2 DEF States
  <2>. QED
    BY <2>1, <2>2, <2>3, <2>4
<1>3. /\ Len(new.list) = n + 1 /\ new.list[n + 1] = p
      /\ \A i \in 1 .. n : new.list[i] = st.list[i]
      /\ \A i \in 1 .. n + 1 : i \in 1 .. n \/ i = n + 1
  BY <1>2
<1>4. Len(new.list) <= FreeCap
  BY <1>2, <1>3, VaAssumption DEF HasRoom
<1>5. \A q : CursorOf(new, q) = CursorOf(st, q)
  BY <1>2 DEF CursorOf
<1> HIDE DEF new
<1>6. RangesApart(st, obj, gone \cup {p})
  BY DEF Partitioned
<1>7. /\ \A c \in Objects : obj[c] # NoObject => Apart(RangeOf(obj[c]), p)
      /\ \A i \in 1 .. n : Apart(st.list[i], p) /\ Apart(p, st.list[i])
      /\ \A q \in gone : Apart(p, q)
  <2>1. \A q \in gone : p # q
    OBVIOUS
  <2>. QED
    BY <1>6, <2>1, ApartSym DEF RangesApart
<1>8. RangesApart(new, obj, gone)
  <2>1. \A c \in Objects, i \in 1 .. n + 1 :
          obj[c] # NoObject => Apart(RangeOf(obj[c]), new.list[i])
    BY <1>3, <1>6, <1>7 DEF RangesApart
  <2>2. \A i, j \in 1 .. n + 1 : i # j => Apart(new.list[i], new.list[j])
    <3>. SUFFICES ASSUME NEW i \in 1 .. n + 1, NEW j \in 1 .. n + 1, i # j
         PROVE  Apart(new.list[i], new.list[j])
      OBVIOUS
    <3>1. CASE i = n + 1
      BY <1>3, <1>7, <3>1
    <3>2. CASE j = n + 1
      BY <1>3, <1>7, <3>2
    <3>3. CASE i \in 1 .. n /\ j \in 1 .. n
      BY <1>3, <1>6, <3>3 DEF RangesApart
    <3>. QED
      BY <1>3, <3>1, <3>2, <3>3
  <2>3. \A i \in 1 .. n + 1, q \in gone : Apart(new.list[i], q)
    BY <1>3, <1>6, <1>7 DEF RangesApart
  <2>. QED
    BY <1>3, <1>6, <2>1, <2>2, <2>3 DEF RangesApart
<1>9. RangesInside(new, obj, gone)
  <2>1. RangesInside(st, obj, gone \cup {p})
    BY DEF Partitioned
  <2>2. \A q, x : Below(new, q, x) <=> Below(st, q, x)
    BY <1>5 DEF Below
  <2>3. \A i \in 1 .. n + 1 : \E q \in VaRegions : Below(new, q, new.list[i])
    BY <1>3, <2>1, <2>2 DEF RangesInside
  <2>. QED
    BY <1>3, <1>5, <2>1, <2>2, <2>3 DEF RangesInside
<1>10. NothingForgotten(new, obj, gone)
  <2>. SUFFICES ASSUME NEW s \in VaRegions, NEW u \in VaBase[s] .. CursorOf(st, s) - 1
       PROVE  \/ \E d \in Objects : obj[d] # NoObject /\ RangeOf(obj[d]).va <= u
                                    /\ u < RangeOf(obj[d]).va + RangeOf(obj[d]).span
              \/ \E i \in 1 .. n + 1 : new.list[i].va <= u /\ u < new.list[i].va + new.list[i].span
              \/ \E q \in gone : q.va <= u /\ u < q.va + q.span
    BY <1>3, <1>5 DEF NothingForgotten
  <2>1. \/ \E d \in Objects : obj[d] # NoObject /\ RangeOf(obj[d]).va <= u
                              /\ u < RangeOf(obj[d]).va + RangeOf(obj[d]).span
        \/ \E i \in 1 .. n : st.list[i].va <= u /\ u < st.list[i].va + st.list[i].span
        \/ \E q \in gone \cup {p} : q.va <= u /\ u < q.va + q.span
    BY DEF Partitioned, NothingForgotten
  <2>2. CASE \E i \in 1 .. n : st.list[i].va <= u /\ u < st.list[i].va + st.list[i].span
    <3>1. PICK i \in 1 .. n : st.list[i].va <= u /\ u < st.list[i].va + st.list[i].span
      BY <2>2
    <3>2. i \in 1 .. n + 1 /\ new.list[i] = st.list[i]
      BY <1>2, <1>3
    <3>. QED
      BY <3>1, <3>2
  <2>3. CASE p.va <= u /\ u < p.va + p.span
    <3>1. n + 1 \in 1 .. n + 1
      BY <1>2
    <3>. QED
      BY <1>3, <2>3, <3>1
  <2>. QED
    BY <2>1, <2>2, <2>3
<1>. QED
  BY <1>1, <1>2, <1>4, <1>8, <1>9, <1>10 DEF Partitioned, new

\* list without its entry i: the others, each once, in any order.
OneFewer(w, list, i) ==
  /\ Len(w) = Len(list) - 1
  /\ \A k \in 1 .. Len(list) - 1 : \E j \in 1 .. Len(list) : j # i /\ w[k] = list[j]
  /\ \A k, m \in 1 .. Len(list) - 1 : k # m =>
       \E j, h \in 1 .. Len(list) : /\ j # i /\ h # i /\ j # h
                                    /\ w[k] = list[j] /\ w[m] = list[h]
  /\ \A j \in 1 .. Len(list) : j # i => \E k \in 1 .. Len(list) - 1 : w[k] = list[j]

\* The list without an entry has the other entries, each once.
LEMMA WithoutProps ==
  ASSUME NEW list \in Seq(Ranges), NEW i \in 1 .. Len(list)
  PROVE  Without(list, i) \in Seq(Ranges) /\ OneFewer(Without(list, i), list, i)
<1> DEFINE n == Len(list)
           w == Without(list, i)
           at(k) == IF k = i THEN n ELSE k
<1>1. n \in Nat /\ i \in 1 .. n /\ \A k \in 1 .. n : list[k] \in Ranges
  OBVIOUS
<1>2. \A k \in 1 .. n - 1 : at(k) \in 1 .. n /\ at(k) # i
  BY <1>1
<1>3. w = [k \in 1 .. n - 1 |-> list[at(k)]]
  BY DEF Without
<1>4. w \in [1 .. n - 1 -> Ranges] /\ n - 1 \in Nat
  BY <1>1, <1>2, <1>3
<1>5. w \in Seq(Ranges) /\ Len(w) = n - 1
  BY <1>4
<1>6. \A k \in 1 .. n - 1 : w[k] = list[at(k)]
  BY <1>3
<1>7. \A k, m \in 1 .. n - 1 : k # m => at(k) # at(m)
  BY <1>1
<1>8. \A j \in 1 .. n : j # i => \E k \in 1 .. n - 1 : at(k) = j
  <2>. SUFFICES ASSUME NEW j \in 1 .. n, j # i PROVE \E k \in 1 .. n - 1 : at(k) = j
    OBVIOUS
  <2>1. CASE j = n
    <3>1. i \in 1 .. n - 1 /\ at(i) = j
      BY <1>1, <2>1
    <3>. QED
      BY <3>1
  <2>2. CASE j # n
    <3>1. j \in 1 .. n - 1 /\ at(j) = j
      BY <1>1, <2>2
    <3>. QED
      BY <3>1
  <2>. QED
    BY <2>1, <2>2
<1> HIDE DEF w, at
<1>9. \A k \in 1 .. n - 1 : \E j \in 1 .. n : j # i /\ w[k] = list[j]
  BY <1>2, <1>6
<1>10. \A k, m \in 1 .. n - 1 : k # m =>
         \E j, h \in 1 .. n : j # i /\ h # i /\ j # h /\ w[k] = list[j] /\ w[m] = list[h]
  BY <1>2, <1>6, <1>7
<1>11. \A j \in 1 .. n : j # i => \E k \in 1 .. n - 1 : w[k] = list[j]
  BY <1>6, <1>8
<1>12. OneFewer(w, list, i)
  BY <1>5, <1>9, <1>10, <1>11 DEF OneFewer
<1>. QED
  BY <1>5, <1>12 DEF w

-----------------------------------------------------------------------------
(* Allocating and taking back.                                             *)

\* What an allocation leaves: its range is in no hands but the caller's.
InHand(st, obj, gone, r, p) ==
  /\ st \in States /\ p \in Ranges /\ p \notin gone
  /\ Below(st, r, p)
  /\ Partitioned(st, obj, gone \cup {p})

\* Taking an entry off the list.
LEMMA TakeEntry ==
  ASSUME NEW st \in States, NEW obj \in Objs, NEW gone \in SUBSET Ranges, NEW r \in VaRegions,
         Partitioned(st, obj, gone), NEW i \in 1 .. Len(st.list), Inside(st.list[i].va, r),
         NEW new \in States, new.next = st.next, new.list = Without(st.list, i)
  PROVE  InHand(new, obj, gone, r, st.list[i])
<1> DEFINE n == Len(st.list)
           p == st.list[i]
<1>1. n \in Nat /\ st.list \in Seq(Ranges) /\ p \in Ranges
  BY DEF States
<1>2. /\ Len(new.list) = n - 1
      /\ \A k \in 1 .. n - 1 : \E j \in 1 .. n : j # i /\ new.list[k] = st.list[j]
      /\ \A k, m \in 1 .. n - 1 : k # m =>
           \E j, h \in 1 .. n : /\ j # i /\ h # i /\ j # h
                                /\ new.list[k] = st.list[j] /\ new.list[m] = st.list[h]
      /\ \A j \in 1 .. n : j # i => \E k \in 1 .. n - 1 : new.list[k] = st.list[j]
  <2>1. OneFewer(new.list, st.list, i)
    BY <1>1, WithoutProps
  <2>. QED
    BY <2>1 DEF OneFewer
<1>3. RangesApart(st, obj, gone) /\ RangesInside(st, obj, gone)
  BY DEF Partitioned
<1>4. \A q : CursorOf(new, q) = CursorOf(st, q)
  BY DEF CursorOf
<1>5. \A q, x : Below(new, q, x) <=> Below(st, q, x)
  BY <1>4 DEF Below
<1>6. Below(new, r, p)
  <2>1. PICK q \in VaRegions : Below(st, q, p)
    BY <1>3 DEF RangesInside
  <2>2. r = q
    BY <1>1, <1>3, <2>1, RegionUnique DEF RangesInside
  <2>. QED
    BY <1>5, <2>1, <2>2
<1>7. p \notin gone
  BY <1>1, <1>3, NeverApartFromItself DEF RangesApart
<1>8. /\ \A c \in Objects : obj[c] # NoObject => Apart(RangeOf(obj[c]), p)
      /\ \A j \in 1 .. n : j # i => Apart(st.list[j], p)
      /\ \A q \in gone : Apart(p, q) /\ Apart(q, p)
  BY <1>3, ApartSym DEF RangesApart
<1> HIDE DEF p
<1>9. RangesApart(new, obj, gone \cup {p})
  <2>1. \A c \in Objects, k \in 1 .. n - 1 :
          obj[c] # NoObject => Apart(RangeOf(obj[c]), new.list[k])
    BY <1>2, <1>3 DEF RangesApart
  <2>2. \A c \in Objects, q \in gone \cup {p} : obj[c] # NoObject => Apart(RangeOf(obj[c]), q)
    BY <1>3, <1>8 DEF RangesApart
  <2>3. \A k, m \in 1 .. n - 1 : k # m => Apart(new.list[k], new.list[m])
    <3>. SUFFICES ASSUME NEW k \in 1 .. n - 1, NEW m \in 1 .. n - 1, k # m
         PROVE  Apart(new.list[k], new.list[m])
      OBVIOUS
    <3>1. PICK j, h \in 1 .. n : /\ j # i /\ h # i /\ j # h
                                 /\ new.list[k] = st.list[j] /\ new.list[m] = st.list[h]
      BY <1>2
    <3>. QED
      BY <1>3, <3>1 DEF RangesApart
  <2>4. \A k \in 1 .. n - 1, q \in gone \cup {p} : Apart(new.list[k], q)
    <3>. SUFFICES ASSUME NEW k \in 1 .. n - 1, NEW q \in gone \cup {p}
         PROVE  Apart(new.list[k], q)
      OBVIOUS
    <3>1. PICK j \in 1 .. n : j # i /\ new.list[k] = st.list[j]
      BY <1>2
    <3>. QED
      BY <1>3, <1>8, <3>1 DEF RangesApart
  <2>5. \A q, x \in gone \cup {p} : q # x => Apart(q, x)
    BY <1>3, <1>8 DEF RangesApart
  <2>. QED
    BY <1>2, <1>3, <2>1, <2>2, <2>3, <2>4, <2>5 DEF RangesApart
<1>10. RangesInside(new, obj, gone \cup {p})
  <2>1. \A k \in 1 .. n - 1 : \E q \in VaRegions : Below(new, q, new.list[k])
    <3>. SUFFICES ASSUME NEW k \in 1 .. n - 1
         PROVE  \E q \in VaRegions : Below(new, q, new.list[k])
      OBVIOUS
    <3>1. PICK j \in 1 .. n : new.list[k] = st.list[j]
      BY <1>2
    <3>. QED
      BY <1>3, <1>5, <3>1 DEF RangesInside
  <2>. QED
    BY <1>2, <1>3, <1>4, <1>5, <1>6, <2>1 DEF RangesInside
<1>11. NothingForgotten(new, obj, gone \cup {p})
  <2>. SUFFICES ASSUME NEW s \in VaRegions, NEW u \in VaBase[s] .. CursorOf(st, s) - 1
       PROVE  \/ \E d \in Objects : obj[d] # NoObject /\ RangeOf(obj[d]).va <= u
                                    /\ u < RangeOf(obj[d]).va + RangeOf(obj[d]).span
              \/ \E k \in 1 .. n - 1 : new.list[k].va <= u /\ u < new.list[k].va + new.list[k].span
              \/ \E q \in gone \cup {p} : q.va <= u /\ u < q.va + q.span
    BY <1>2, <1>4 DEF NothingForgotten
  <2>1. \/ \E d \in Objects : obj[d] # NoObject /\ RangeOf(obj[d]).va <= u
                              /\ u < RangeOf(obj[d]).va + RangeOf(obj[d]).span
        \/ \E j \in 1 .. n : st.list[j].va <= u /\ u < st.list[j].va + st.list[j].span
        \/ \E q \in gone : q.va <= u /\ u < q.va + q.span
    BY DEF Partitioned, NothingForgotten
  <2>2. CASE \E j \in 1 .. n : st.list[j].va <= u /\ u < st.list[j].va + st.list[j].span
    <3>1. PICK j \in 1 .. n : st.list[j].va <= u /\ u < st.list[j].va + st.list[j].span
      BY <2>2
    <3>2. CASE j = i
      BY <3>1, <3>2 DEF p
    <3>3. CASE j # i
      BY <1>2, <3>1, <3>3
    <3>. QED
      BY <3>2, <3>3
  <2>. QED
    BY <2>1, <2>2
<1>. QED
  BY <1>1, <1>6, <1>7, <1>9, <1>10, <1>11 DEF InHand, Partitioned, p

\* Moving the cursor of one region.
LEMMA AdvanceCursor ==
  ASSUME NEW st \in States, NEW obj \in Objs, NEW gone \in SUBSET Ranges, NEW r \in VaRegions,
         NEW span \in Nat \ {0}, Partitioned(st, obj, gone),
         CursorOf(st, r) + span <= VaTop[r],
         NEW new \in States, new.list = st.list,
         new.next = [st.next EXCEPT ![r] = CursorOf(st, r) + span]
  PROVE  /\ InHand(new, obj, gone, r, [va |-> CursorOf(st, r), span |-> span])
         /\ CursorOf(new, r) = CursorOf(st, r) + span
<1> DEFINE cur == CursorOf(st, r)
           p == [va |-> cur, span |-> span]
<1>1. RangesApart(st, obj, gone) /\ RangesInside(st, obj, gone)
  BY DEF Partitioned
<1>2. /\ \A s \in VaRegions : /\ VaBase[s] \in Nat \ {0} /\ VaTop[s] \in Nat
                              /\ CursorOf(st, s) \in VaBase[s] .. VaTop[s]
      /\ VaTop["rt"] <= VaBase["texture"]
  BY <1>1, VaAssumption DEF RangesInside
<1>3. cur \in Nat /\ cur > 0 /\ p \in Ranges /\ p.va = cur /\ p.span = span
  BY <1>2 DEF Ranges
<1>4. /\ CursorOf(new, r) = cur + span
      /\ \A s \in VaRegions : s # r => CursorOf(new, s) = CursorOf(st, s)
  <2>1. st.next \in [VaRegions -> Nat]
    BY DEF States
  <2>2. new.next[r] = cur + span /\ \A s \in VaRegions : s # r => new.next[s] = st.next[s]
    BY <2>1
  <2>. QED
    BY <1>3, <2>2 DEF CursorOf
<1> HIDE DEF cur
<1>5. /\ Below(new, r, p)
      /\ \A s \in VaRegions : CursorOf(new, s) \in VaBase[s] .. VaTop[s]
      /\ \A s \in VaRegions : \A x \in Ranges : Below(st, s, x) => Below(new, s, x)
  BY <1>2, <1>3, <1>4 DEF Below, Ranges, cur
<1>6. \A s \in VaRegions : \A x \in Ranges : Below(st, s, x) => Apart(x, p) /\ Apart(p, x)
  <2>. SUFFICES ASSUME NEW s \in VaRegions, NEW x \in Ranges, Below(st, s, x)
       PROVE  Apart(x, p)
    BY ApartSym
  <2>1. /\ x.va \in Nat /\ x.span \in Nat
        /\ VaBase[s] <= x.va /\ x.va + x.span <= CursorOf(st, s)
    BY DEF Ranges, Below
  <2>2. CASE s = r
    BY <1>3, <2>1, <2>2 DEF Apart, cur
  <2>3. CASE s # r
    <3>1. (s = "rt" /\ r = "texture") \/ (s = "texture" /\ r = "rt")
      BY <2>3 DEF VaRegions
    <3>2. cur \in VaBase[r] .. VaTop[r] /\ cur + span <= VaTop[r]
      BY <1>2 DEF cur
    <3>. QED
      BY <1>2, <1>3, <2>1, <3>1, <3>2 DEF Apart
  <2>. QED
    BY <2>2, <2>3
<1> HIDE DEF p
<1>7. /\ \A c \in Objects : obj[c] # NoObject =>
           /\ RangeOf(obj[c]) \in Ranges /\ obj[c].region \in VaRegions
           /\ Below(st, obj[c].region, RangeOf(obj[c]))
      /\ \A i \in 1 .. Len(st.list) : st.list[i] \in Ranges
  <2>1. \A i \in 1 .. Len(st.list) : st.list[i] \in Ranges
    BY DEF States
  <2>. QED
    BY <1>1, <2>1, HeldRange DEF RangesInside
<1>8. /\ \A c \in Objects : obj[c] # NoObject => Apart(RangeOf(obj[c]), p)
      /\ \A i \in 1 .. Len(st.list) : Apart(st.list[i], p)
      /\ \A q \in gone : Apart(q, p) /\ Apart(p, q)
  BY <1>1, <1>6, <1>7 DEF RangesInside
<1>9. p \notin gone
  BY <1>3, <1>8, NeverApartFromItself
<1>10. RangesApart(new, obj, gone \cup {p})
  BY <1>1, <1>8 DEF RangesApart
<1>11. RangesInside(new, obj, gone \cup {p})
  <2>1. \A q \in gone : q \in Ranges
    OBVIOUS
  <2>. QED
    BY <1>1, <1>5, <1>7, <2>1 DEF RangesInside
<1>12. NothingForgotten(new, obj, gone \cup {p})
  <2>. SUFFICES ASSUME NEW s \in VaRegions, NEW u \in VaBase[s] .. CursorOf(new, s) - 1
       PROVE  \/ \E d \in Objects : obj[d] # NoObject /\ RangeOf(obj[d]).va <= u
                                    /\ u < RangeOf(obj[d]).va + RangeOf(obj[d]).span
              \/ \E k \in 1 .. Len(st.list) : st.list[k].va <= u /\ u < st.list[k].va + st.list[k].span
              \/ \E q \in gone \cup {p} : q.va <= u /\ u < q.va + q.span
    BY DEF NothingForgotten
  <2>1. CASE u \in VaBase[s] .. CursorOf(st, s) - 1
    BY <2>1 DEF Partitioned, NothingForgotten
  <2>2. CASE u \notin VaBase[s] .. CursorOf(st, s) - 1
    <3>1. s = r /\ cur <= u /\ u < cur + span
      BY <1>2, <1>3, <1>4, <2>2 DEF cur
    <3>. QED
      BY <1>3, <3>1
  <2>. QED
    BY <2>1, <2>2
<1>. QED
  BY <1>3, <1>4, <1>5, <1>9, <1>10, <1>11, <1>12 DEF InHand, Partitioned, p, cur

\* Rewinding the cursor below the range that ends at it.
LEMMA RewindCursor ==
  ASSUME NEW st \in States, NEW obj \in Objs, NEW gone \in SUBSET Ranges, NEW r \in VaRegions,
         NEW p, InHand(st, obj, gone, r, p), p.va + p.span = CursorOf(st, r),
         NEW new \in States, new.list = st.list,
         new.next = [st.next EXCEPT ![r] = p.va]
  PROVE  Partitioned(new, obj, gone)
<1>1. /\ p \in Ranges /\ p \notin gone /\ Below(st, r, p)
      /\ RangesApart(st, obj, gone \cup {p}) /\ RangesInside(st, obj, gone \cup {p})
      /\ NothingForgotten(st, obj, gone \cup {p})
  BY DEF InHand, Partitioned
<1>2. /\ \A s \in VaRegions : /\ VaBase[s] \in Nat \ {0} /\ VaTop[s] \in Nat
                              /\ CursorOf(st, s) \in VaBase[s] .. VaTop[s]
      /\ VaTop["rt"] <= VaBase["texture"]
  BY <1>1, VaAssumption DEF RangesInside
<1>3. p.va \in Nat /\ p.span \in Nat /\ p.span > 0 /\ VaBase[r] <= p.va
  BY <1>1 DEF Ranges, Below
<1>4. /\ CursorOf(new, r) = p.va
      /\ \A s \in VaRegions : s # r => CursorOf(new, s) = CursorOf(st, s)
  <2>1. st.next \in [VaRegions -> Nat]
    BY DEF States
  <2>2. new.next[r] = p.va /\ \A s \in VaRegions : s # r => new.next[s] = st.next[s]
    BY <2>1
  <2>3. p.va # 0
    BY <1>2, <1>3
  <2>. QED
    BY <2>2, <2>3 DEF CursorOf
<1>5. \A s \in VaRegions : CursorOf(new, s) \in VaBase[s] .. VaTop[s]
  <2>. SUFFICES ASSUME NEW s \in VaRegions PROVE CursorOf(new, s) \in VaBase[s] .. VaTop[s]
    OBVIOUS
  <2>1. CASE s = r
    BY <1>2, <1>3, <1>4, <2>1
  <2>2. CASE s # r
    BY <1>2, <1>4, <2>2
  <2>. QED
    BY <2>1, <2>2
<1>6. \A s \in VaRegions : \A x \in Ranges : Below(st, s, x) /\ Apart(x, p) => Below(new, s, x)
  <2>. SUFFICES ASSUME NEW s \in VaRegions, NEW x \in Ranges, Below(st, s, x), Apart(x, p)
       PROVE  Below(new, s, x)
    OBVIOUS
  <2>1. /\ x.va \in Nat /\ x.span \in Nat /\ x.span > 0
        /\ VaBase[s] <= x.va /\ x.va + x.span <= CursorOf(st, s)
    BY DEF Ranges, Below
  <2>2. CASE s = r
    BY <1>3, <1>4, <2>1, <2>2 DEF Apart, Below
  <2>3. CASE s # r
    BY <1>4, <2>1, <2>3 DEF Below
  <2>. QED
    BY <2>2, <2>3
<1>7. /\ \A c \in Objects : obj[c] # NoObject =>
           /\ RangeOf(obj[c]) \in Ranges /\ obj[c].region \in VaRegions
           /\ Apart(RangeOf(obj[c]), p)
      /\ \A i \in 1 .. Len(st.list) : st.list[i] \in Ranges /\ Apart(st.list[i], p)
      /\ \A q \in gone : q \in Ranges /\ Apart(q, p)
  <2>1. \A i \in 1 .. Len(st.list) : st.list[i] \in Ranges
    BY DEF States
  <2>2. \A q \in gone : q \in Ranges /\ q # p
    BY <1>1
  <2>3. /\ \A c \in Objects : obj[c] # NoObject => Apart(RangeOf(obj[c]), p)
        /\ \A i \in 1 .. Len(st.list) : Apart(st.list[i], p)
        /\ \A q \in gone : Apart(q, p)
    BY <1>1, <2>2 DEF RangesApart
  <2>. QED
    BY <2>1, <2>2, <2>3, HeldRange
<1>8. RangesApart(new, obj, gone)
  BY <1>1 DEF RangesApart
<1>9. RangesInside(new, obj, gone)
  BY <1>1, <1>5, <1>6, <1>7 DEF RangesInside
<1>10. NothingForgotten(new, obj, gone)
  <2>. SUFFICES ASSUME NEW s \in VaRegions, NEW u \in VaBase[s] .. CursorOf(new, s) - 1
       PROVE  \/ \E d \in Objects : obj[d] # NoObject /\ RangeOf(obj[d]).va <= u
                                    /\ u < RangeOf(obj[d]).va + RangeOf(obj[d]).span
              \/ \E k \in 1 .. Len(st.list) : st.list[k].va <= u /\ u < st.list[k].va + st.list[k].span
              \/ \E q \in gone : q.va <= u /\ u < q.va + q.span
    BY DEF NothingForgotten
  <2>1. u \in VaBase[s] .. CursorOf(st, s) - 1
    <3>1. CASE s = r
      BY <1>2, <1>3, <1>4, <3>1
    <3>2. CASE s # r
      BY <1>4, <3>2
    <3>. QED
      BY <3>1, <3>2
  <2>2. ~(p.va <= u /\ u < p.va + p.span)
    <3>1. CASE s = r
      BY <1>3, <1>4, <3>1
    <3>2. CASE s # r
      <4>1. (s = "rt" /\ r = "texture") \/ (s = "texture" /\ r = "rt")
        BY <3>2 DEF VaRegions
      <4>. QED
        BY <1>2, <1>3, <2>1, <4>1
    <3>. QED
      BY <3>1, <3>2
  <2>. QED
    BY <1>1, <2>1, <2>2 DEF NothingForgotten
<1>. QED
  BY <1>8, <1>9, <1>10 DEF Partitioned

\* An allocation leaves a range of the rounded size in the caller's hands; it
\* came off the list, or it ends at the cursor.
LEMMA AllocatedInHand ==
  ASSUME NEW st \in States, NEW obj \in Objs, NEW gone \in SUBSET Ranges, NEW r \in VaRegions,
         NEW size \in Nat \ {0}, Len(st.list) <= FreeCap, Partitioned(st, obj, gone),
         NEW new \in Allocated(st, r, size)
  PROVE  /\ InHand(new, obj, gone, r, Noted(new)) /\ Len(new.list) <= FreeCap
         /\ Noted(new).span = Rounded(size) /\ new.last.va = Noted(new).va
         /\ new.last.fromList => HasRoom(new)
         /\ ~new.last.fromList => Noted(new).va + Noted(new).span = CursorOf(new, r)
<1> DEFINE span == Rounded(size)
<1>1. span \in Nat \ {0}
  BY RoundedProps
<1>2. st.list \in Seq(Ranges) /\ st.next \in [VaRegions -> Nat] /\ Len(st.list) \in Nat
      /\ FreeCap \in Nat
  BY VaAssumption DEF States
<1> HIDE DEF span
<1>3. CASE new \in Reused(st, r, span)
  <2>1. PICK i \in 1 .. Len(st.list) :
          /\ st.list[i].span = span /\ Inside(st.list[i].va, r)
          /\ new = [next |-> st.next, list |-> Without(st.list, i),
                    last |-> [va |-> st.list[i].va, span |-> span, fromList |-> TRUE]]
    BY <1>3 DEF Reused, Fitting
  <2>2. /\ Without(st.list, i) \in Seq(Ranges) /\ Len(Without(st.list, i)) = Len(st.list) - 1
    BY <1>2, WithoutProps DEF OneFewer
  <2>3. st.list[i] \in Ranges
    BY <1>2
  <2>4. /\ new.next = st.next /\ new.list = Without(st.list, i)
        /\ new.last = [va |-> st.list[i].va, span |-> span, fromList |-> TRUE]
    BY <2>1
  <2>5. new \in States
    BY <1>1, <1>2, <2>1, <2>2, <2>3 DEF States, Ranges
  <2>6. Noted(new) = st.list[i]
    BY <2>1, <2>3, <2>4 DEF Noted, Ranges
  <2>7. InHand(new, obj, gone, r, st.list[i])
    BY <2>1, <2>4, <2>5, TakeEntry
  <2>8. Len(new.list) < FreeCap
    BY <1>2, <2>2, <2>4
  <2>9. new.last.fromList = TRUE /\ new.last.va = st.list[i].va
    BY <2>4
  <2>. QED
    BY <1>2, <2>1, <2>2, <2>4, <2>6, <2>7, <2>8, <2>9 DEF HasRoom, span
<1>4. CASE new \in Bumped(st, r, span)
  <2> DEFINE cur == CursorOf(st, r)
             p == [va |-> cur, span |-> span]
  <2>1. /\ cur + span <= VaTop[r]
        /\ new = [next |-> [st.next EXCEPT ![r] = cur + span], list |-> st.list,
                  last |-> [va |-> cur, span |-> span, fromList |-> FALSE]]
    BY <1>4 DEF Bumped
  <2>2. cur \in Nat
    BY VaAssumption DEF Partitioned, RangesInside
  <2> HIDE DEF cur
  <2>3. /\ new.next = [st.next EXCEPT ![r] = cur + span] /\ new.list = st.list
        /\ new.last = [va |-> cur, span |-> span, fromList |-> FALSE]
    BY <2>1
  <2>4. new \in States
    BY <1>1, <1>2, <2>1, <2>2 DEF States
  <2>5. Noted(new) = p /\ new.last.fromList = FALSE /\ new.last.va = cur
    BY <2>3 DEF Noted
  <2>6. InHand(new, obj, gone, r, p) /\ CursorOf(new, r) = cur + span
    BY <1>1, <2>1, <2>3, <2>4, AdvanceCursor DEF cur
  <2>7. p.va = cur /\ p.span = span
    OBVIOUS
  <2> HIDE DEF p
  <2>. QED
    BY <2>3, <2>5, <2>6, <2>7 DEF span
<1>5. new \in Reused(st, r, span) \/ new \in Bumped(st, r, span)
  BY DEF Allocated, span
<1>. QED
  BY <1>3, <1>4, <1>5

\* Rolling it back leaves the ranges as divided as they were.
LEMMA RollBackKeeps ==
  ASSUME NEW st \in States, NEW obj \in Objs, NEW gone \in SUBSET Ranges, NEW r \in VaRegions,
         NEW size \in Nat \ {0}, Len(st.list) <= FreeCap, Partitioned(st, obj, gone),
         NEW new \in Allocated(st, r, size)
  PROVE  /\ RolledBack(new, r, size) \in States
         /\ Len(RolledBack(new, r, size).list) <= FreeCap
         /\ Partitioned(RolledBack(new, r, size), obj, gone)
<1> DEFINE p == Noted(new)
           cleared == [new EXCEPT !.last = NoNote]
<1>1. /\ InHand(new, obj, gone, r, p) /\ Len(new.list) <= FreeCap
      /\ p.span = Rounded(size) /\ new.last.va = p.va
      /\ new.last.fromList => HasRoom(new)
      /\ ~new.last.fromList => p.va + p.span = CursorOf(new, r)
  BY AllocatedInHand
<1>2. new \in States /\ p \in Ranges /\ p \notin gone /\ Below(new, r, p)
      /\ Partitioned(new, obj, gone \cup {p})
  BY <1>1 DEF InHand
<1>3. p = [va |-> new.last.va, span |-> Rounded(size)]
  BY <1>1 DEF Noted
<1> HIDE DEF p
<1>4. /\ new.next \in [VaRegions -> Nat] /\ new.list \in Seq(Ranges)
      /\ cleared \in States /\ cleared.next = new.next /\ cleared.list = new.list
  <2>1. NoNote \in [va : Nat, span : Nat, fromList : BOOLEAN]
    BY DEF NoNote
  <2>. QED
    BY <1>2, <2>1 DEF States
<1>5. CASE new.last.fromList
  <2>1. RolledBack(new, r, size) = Given(cleared, r, p)
    BY <1>3, <1>5 DEF RolledBack
  <2> HIDE DEF cleared
  <2>2. Below(cleared, r, p) /\ Partitioned(cleared, obj, gone \cup {p})
    BY <1>2, <1>4, SameRanges
  <2>3. HasRoom(cleared) /\ Len(cleared.list) <= FreeCap
    BY <1>1, <1>4, <1>5 DEF HasRoom
  <2>4. p \in Ranges /\ p \notin gone /\ cleared \in States
    BY <1>2, <1>4
  <2>. QED
    BY <2>1, <2>2, <2>3, <2>4, ToList, Zenon
<1>6. CASE ~new.last.fromList
  <2> DEFINE back == [cleared EXCEPT !.next[r] = IF @ = 0 THEN 0 ELSE @ - Rounded(size)]
  <2>1. RolledBack(new, r, size) = back
    BY <1>6 DEF RolledBack
  <2>2. p.va + p.span = CursorOf(new, r)
    BY <1>1, <1>6
  <2>3. p.va \in Nat /\ p.span \in Nat /\ VaBase[r] <= p.va /\ VaBase[r] \in Nat /\ VaBase[r] > 0
    BY <1>2, VaAssumption DEF Ranges, Below
  <2>4. CASE new.next[r] # 0
    <3>1. cleared.next[r] = new.next[r] /\ new.next[r] = p.va + p.span /\ new.next[r] \in Nat
      BY <1>4, <2>2, <2>4 DEF CursorOf
    <3>2. (IF cleared.next[r] = 0 THEN 0 ELSE cleared.next[r] - Rounded(size)) = p.va
      BY <1>1, <2>3, <2>4, <3>1
    <3> HIDE DEF cleared
    <3>3. /\ back.list = new.list /\ back.last = cleared.last
          /\ back.next = [new.next EXCEPT ![r] = p.va]
          /\ back = [next |-> back.next, list |-> back.list, last |-> back.last]
      <4>1. cleared = [next |-> new.next, list |-> new.list, last |-> cleared.last]
        BY <1>4 DEF States
      <4>2. back = [cleared EXCEPT !.next[r] = p.va]
        BY <3>2
      <4>3. back = [next |-> [new.next EXCEPT ![r] = p.va], list |-> new.list,
                    last |-> cleared.last]
        <5> HIDE DEF back
        <5>. QED
          BY <4>1, <4>2
      <4> HIDE DEF back
      <4>. QED
        BY <4>3
    <3>4. [new.next EXCEPT ![r] = p.va] \in [VaRegions -> Nat]
      BY <1>4, <2>3
    <3>5. cleared.last \in [va : Nat, span : Nat, fromList : BOOLEAN]
      BY <1>4 DEF States
    <3> HIDE DEF back
    <3>6. back \in States
      BY <1>4, <3>3, <3>4, <3>5 DEF States
    <3>7. Partitioned(back, obj, gone)
      <4>1. InHand(new, obj, gone, r, p) /\ new \in States
        BY <1>1, <1>2
      <4>2. back.list = new.list /\ back.next = [new.next EXCEPT ![r] = p.va]
        BY <3>3
      <4>. QED
        BY <2>2, <3>6, <4>1, <4>2, RewindCursor, Zenon
    <3>. QED
      BY <1>1, <2>1, <3>3, <3>6, <3>7
  <2>5. CASE new.next[r] = 0
    <3>1. CursorOf(new, r) = VaBase[r]
      BY <2>5 DEF CursorOf
    <3>2. p.span > 0
      BY <1>2 DEF Ranges
    <3>. QED
      BY <2>2, <2>3, <3>1, <3>2
  <2>. QED
    BY <2>4, <2>5
<1>. QED
  BY <1>5, <1>6

-----------------------------------------------------------------------------
(* The slots.                                                              *)

\* A range in no other hands is given back, or given up.
LEMMA GiveBackKeeps ==
  ASSUME VaTypeOK, NEW st \in States, NEW obj \in Objs, NEW r \in VaRegions, NEW p,
         InHand(st, obj, lost, r, p), Len(st.list) <= FreeCap, GiveBack(st, r, p), object' = obj
  PROVE  VaIInv'
<1>1. /\ lost \in SUBSET Ranges /\ p \in Ranges /\ p \notin lost /\ Below(st, r, p)
      /\ Partitioned(st, obj, lost \cup {p})
  BY DEF InHand, VaTypeOK
<1>2. /\ RangesInside(st, obj, lost \cup {p}) /\ Inside(p.va, r) /\ p.span > 0
  BY <1>1, RegionUnique DEF Partitioned, RangesInside, Ranges
<1>3. CASE va' = Given(st, r, p) /\ HasRoom(st) /\ lost' = lost
  <2>1. va' \in States /\ Len(va'.list) <= FreeCap /\ Partitioned(va', obj, lost)
    BY <1>1, <1>3, ToList
  <2>. QED
    BY <1>1, <1>3, <2>1 DEF VaIInv, VaTypeOK, RegionsPartitioned, States, Objs
<1>4. CASE va' = st /\ lost' = lost \cup {p}
  <2>1. lost \cup {p} \in SUBSET Ranges
    BY <1>1
  <2>. QED
    BY <1>1, <1>4, <2>1 DEF VaIInv, VaTypeOK, RegionsPartitioned, States, Objs
<1>5. ~HasRoom(st) => Given(st, r, p) = st
  BY DEF Given
<1>. QED
  BY <1>3, <1>4, <1>5 DEF GiveBack

\* A fresh context has given out nothing.
LEMMA VaInitSound == VaInit => VaIInv
<1>. SUFFICES ASSUME VaInit PROVE VaIInv
  OBVIOUS
<1>1. /\ va = [next |-> [r \in VaRegions |-> 0], list |-> <<>>, last |-> NoNote]
      /\ object = [c \in Objects |-> NoObject] /\ lost = {}
  BY DEF VaInit
<1>2. /\ va.next = [r \in VaRegions |-> 0] /\ va.list = <<>> /\ Len(va.list) = 0
      /\ \A c \in Objects : object[c] = NoObject
  BY <1>1
<1>3. \A r \in VaRegions : /\ VaBase[r] \in Nat /\ VaTop[r] \in Nat /\ VaBase[r] <= VaTop[r]
                           /\ CursorOf(va, r) = VaBase[r]
  BY <1>2, VaAssumption DEF CursorOf
<1>4. VaTypeOK
  <2>1. NoNote \in [va : Nat, span : Nat, fromList : BOOLEAN]
    BY DEF NoNote
  <2>2. <<>> \in Seq(Ranges) /\ [r \in VaRegions |-> 0] \in [VaRegions -> Nat]
    OBVIOUS
  <2>3. 0 <= FreeCap
    BY VaAssumption
  <2>. QED
    BY <1>1, <1>2, <2>1, <2>2, <2>3 DEF VaTypeOK
<1>5. RangesApart(va, object, lost)
  BY <1>1, <1>2 DEF RangesApart
<1>6. RangesInside(va, object, lost)
  BY <1>1, <1>2, <1>3 DEF RangesInside
<1>7. NothingForgotten(va, object, lost)
  <2>1. \A r \in VaRegions : VaBase[r] .. CursorOf(va, r) - 1 = {}
    BY <1>3
  <2>. QED
    BY <2>1 DEF NothingForgotten
<1>. QED
  BY <1>4, <1>5, <1>6, <1>7 DEF VaIInv, RegionsPartitioned, Partitioned

\* A create keeps the division, whether it succeeds or fails.
LEMMA CreateSound ==
  ASSUME VaIInv, NEW c \in Objects, NEW r \in VaRegions, NEW size \in Sizes, Create(c, r, size)
  PROVE  VaIInv'
<1>1. /\ va \in States /\ object \in Objs /\ lost \in SUBSET Ranges /\ Len(va.list) <= FreeCap
      /\ Partitioned(va, object, lost)
  BY DEF VaIInv, VaTypeOK, RegionsPartitioned, States, Objs
<1>2. size \in Nat \ {0} /\ object[c] = NoObject /\ lost' = lost
  BY VaAssumption DEF Create, Existing
<1>3. CASE UNCHANGED <<va, object>>
  BY <1>1, <1>2, <1>3 DEF VaIInv, VaTypeOK, RegionsPartitioned
<1>4. ASSUME NEW st \in Allocated(va, r, size), va' = st,
             object' = [object EXCEPT ![c] =
                          [region |-> r, va |-> Noted(st).va, size |-> Kept(r, size)]]
      PROVE  VaIInv'
  <2> DEFINE o == [region |-> r, va |-> Noted(st).va, size |-> Kept(r, size)]
             p == Noted(st)
  <2>1. /\ InHand(st, object, lost, r, p) /\ Len(st.list) <= FreeCap /\ p.span = Rounded(size)
    BY <1>1, <1>2, <1>4, AllocatedInHand
  <2>2. /\ st \in States /\ p \in Ranges /\ p \notin lost /\ Below(st, r, p)
        /\ Partitioned(st, object, lost \cup {p})
    BY <2>1 DEF InHand
  <2>3. Kept(r, size) \in Nat \ {0} /\ Rounded(Kept(r, size)) = Rounded(size)
    BY <1>2, KeptProps
  <2>4. p = [va |-> p.va, span |-> p.span] /\ p.va \in Nat
    BY <2>2 DEF Ranges, Noted
  <2>5. /\ o \in [region : VaRegions, va : Nat, size : Nat \ {0}]
        /\ RangeOf(o) = p /\ o.region = r
    BY <2>1, <2>3, <2>4 DEF RangeOf
  <2>6. object' \in Objs /\ Partitioned(st, object', lost)
    <3> HIDE DEF o, p
    <3>1. object' = [object EXCEPT ![c] = o]
      BY <1>4 DEF o
    <3>. QED
      BY <1>1, <1>2, <2>2, <2>5, <3>1, ToObject
  <2>. QED
    BY <1>1, <1>2, <1>4, <2>1, <2>2, <2>6 DEF VaIInv, VaTypeOK, RegionsPartitioned, States, Objs
<1>5. ASSUME NEW st \in Allocated(va, r, size), va' = RolledBack(st, r, size), object' = object
      PROVE  VaIInv'
  <2>1. va' \in States /\ Len(va'.list) <= FreeCap /\ Partitioned(va', object, lost)
    BY <1>1, <1>2, <1>5, RollBackKeeps
  <2>. QED
    BY <1>1, <1>2, <1>5, <2>1 DEF VaIInv, VaTypeOK, RegionsPartitioned, States, Objs
<1>. QED
  BY <1>3, <1>4, <1>5 DEF Create

\* A failed mipped create loses its range and nothing else.
LEMMA CreateMippedFailsSound ==
  ASSUME VaIInv, NEW size \in Sizes, CreateMippedFails(size)
  PROVE  VaIInv'
<1>1. /\ va \in States /\ object \in Objs /\ lost \in SUBSET Ranges /\ Len(va.list) <= FreeCap
      /\ Partitioned(va, object, lost)
  BY DEF VaIInv, VaTypeOK, RegionsPartitioned, States, Objs
<1>2. size \in Nat \ {0} /\ "texture" \in VaRegions
  BY VaAssumption DEF VaRegions
<1>3. PICK st \in Allocated(va, "texture", size) :
        va' = st /\ lost' = lost \cup {Noted(st)} /\ object' = object
  BY DEF CreateMippedFails
<1>4. InHand(st, object, lost, "texture", Noted(st)) /\ Len(st.list) <= FreeCap
  BY <1>1, <1>2, AllocatedInHand
<1>. QED
  BY <1>1, <1>3, <1>4 DEF InHand, VaIInv, VaTypeOK, RegionsPartitioned, States, Objs

\* A release keeps the division, whether the range was unmapped or not.
LEMMA VaReleaseSound ==
  ASSUME VaIInv, NEW c \in Objects, Release(c)
  PROVE  VaIInv'
<1>1. /\ va \in States /\ object \in Objs /\ lost \in SUBSET Ranges /\ Len(va.list) <= FreeCap
      /\ Partitioned(va, object, lost)
  BY DEF VaIInv, VaTypeOK, RegionsPartitioned, States, Objs
<1> DEFINE p == RangeOf(object[c])
           r == object[c].region
<1>2. object[c] # NoObject /\ GiveBack(va, r, p) /\ object' = [object EXCEPT ![c] = NoObject]
  BY DEF Release, Existing
<1>3. /\ object' \in Objs /\ p \notin lost /\ Below(va, r, p)
      /\ Partitioned(va, object', lost \cup {p})
  BY <1>1, <1>2, FromObject
<1>4. p \in Ranges /\ r \in VaRegions
  BY <1>1, <1>2, HeldRange
<1>5. InHand(va, object', lost, r, p)
  BY <1>1, <1>3, <1>4 DEF InHand
<1>6. VaTypeOK
  BY DEF VaIInv
<1> DEFINE obj == object'
<1>. HIDE DEF p, r
<1>. QED
  BY <1>1, <1>2, <1>3, <1>4, <1>5, <1>6, GiveBackKeeps

\* The mipmap generator leaves nothing behind but what could not be unmapped.
LEMMA GenerateMipmapsSound == VaIInv /\ GenerateMipmaps => VaIInv'
<1>. SUFFICES ASSUME VaIInv, GenerateMipmaps PROVE VaIInv'
  OBVIOUS
<1>1. /\ va \in States /\ object \in Objs /\ lost \in SUBSET Ranges /\ Len(va.list) <= FreeCap
      /\ Partitioned(va, object, lost) /\ VaTypeOK
  BY DEF VaIInv, VaTypeOK, RegionsPartitioned, States, Objs
<1>2. ShaderSize \in Nat \ {0} /\ "texture" \in VaRegions /\ object' = object
  BY VaAssumption DEF VaRegions, GenerateMipmaps
<1>3. ASSUME NEW st \in Allocated(va, "texture", ShaderSize),
             va' = RolledBack(st, "texture", ShaderSize), lost' = lost
      PROVE  VaIInv'
  <2>1. va' \in States /\ Len(va'.list) <= FreeCap /\ Partitioned(va', object, lost)
    BY <1>1, <1>2, <1>3, RollBackKeeps
  <2>. QED
    BY <1>1, <1>2, <1>3, <2>1 DEF VaIInv, VaTypeOK, RegionsPartitioned, States, Objs
<1>4. ASSUME NEW st \in Allocated(va, "texture", ShaderSize),
             GiveBack(st, "texture", [va |-> st.last.va, span |-> Rounded(ShaderSize)])
      PROVE  VaIInv'
  <2>1. /\ InHand(st, object, lost, "texture", Noted(st)) /\ Len(st.list) <= FreeCap
        /\ Noted(st).span = Rounded(ShaderSize) /\ st.last.va = Noted(st).va
    BY <1>1, <1>2, <1>4, AllocatedInHand
  <2>2. Noted(st) = [va |-> st.last.va, span |-> Rounded(ShaderSize)]
    BY <2>1 DEF Noted
  <2>3. st \in States
    BY <2>1 DEF InHand
  <2>. QED
    BY <1>1, <1>2, <1>4, <2>1, <2>2, <2>3, GiveBackKeeps
<1>. QED
  BY <1>3, <1>4 DEF GenerateMipmaps

-----------------------------------------------------------------------------
(* The theorems.                                                           *)

\* The strengthening holds throughout.
THEOREM VaInvariant == VaSpec => []VaIInv
<1>1. VaIInv /\ [VaNext]_vaVars => VaIInv'
  <2>. SUFFICES ASSUME VaIInv, [VaNext]_vaVars PROVE VaIInv'
    OBVIOUS
  <2>1. CASE \E c \in Objects, r \in VaRegions, size \in Sizes : Create(c, r, size)
    BY <2>1, CreateSound
  <2>2. CASE \E size \in Sizes : CreateMippedFails(size)
    BY <2>2, CreateMippedFailsSound
  <2>3. CASE \E c \in Objects : Release(c)
    BY <2>3, VaReleaseSound
  <2>4. CASE GenerateMipmaps
    BY <2>4, GenerateMipmapsSound
  <2>5. CASE UNCHANGED vaVars
    BY <2>5 DEF vaVars, VaIInv, VaTypeOK, RegionsPartitioned
  <2>. QED
    BY <2>1, <2>2, <2>3, <2>4, <2>5 DEF VaNext
<1>. QED
  BY <1>1, VaInitSound, PTL DEF VaSpec

\* The allocator's state stays in its type and its list in its capacity.
THEOREM VaTypeCorrect == VaSpec => []VaTypeOK
<1>1. VaIInv => VaTypeOK
  BY DEF VaIInv
<1>. QED
  BY <1>1, VaInvariant, PTL

\* The addresses given out stay divided among objects, free list and lost
\* ranges, whatever fails: none is held twice, none is forgotten.
THEOREM RangesDivided == VaSpec => []RegionsPartitioned
<1>1. VaIInv => RegionsPartitioned
  BY DEF VaIInv
<1>. QED
  BY <1>1, VaInvariant, PTL
=============================================================================
