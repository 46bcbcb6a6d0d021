------------------------- MODULE RenderGraphProofs -------------------------
(***************************************************************************)
(* rg_build is correct for graphs of any size: RGIInv is inductive and     *)
(* implies what RenderGraph states of sorted, rejected, scheduled and      *)
(* planned graphs.                                                         *)
(***************************************************************************)
EXTENDS RenderGraph, AliasPlanProofs

-----------------------------------------------------------------------------
(* Sequences without repetition.                                           *)

\* Two such sequences without a common element make one.
LEMMA JoinInjective ==
  ASSUME NEW T, NEW s \in Seq(T), NEW t \in Seq(T),
         IsInjective(s), IsInjective(t), Range(s) \cap Range(t) = {}
  PROVE  IsInjective(s \o t)
<1>1. /\ Len(s) \in Nat /\ Len(t) \in Nat
      /\ DOMAIN s = 1 .. Len(s) /\ DOMAIN t = 1 .. Len(t)
  OBVIOUS
<1>2. /\ s \o t \in Seq(T) /\ Len(s \o t) = Len(s) + Len(t)
      /\ DOMAIN (s \o t) = 1 .. Len(s) + Len(t)
      /\ \A k \in 1 .. Len(s) + Len(t) :
           (s \o t)[k] = IF k <= Len(s) THEN s[k] ELSE t[k - Len(s)]
  BY ConcatProperties, LenProperties
<1>. SUFFICES ASSUME NEW a \in 1 .. Len(s) + Len(t), NEW b \in 1 .. Len(s) + Len(t),
                     (s \o t)[a] = (s \o t)[b]
              PROVE  a = b
  BY <1>2 DEF IsInjective
<1>3. ASSUME NEW k \in 1 .. Len(s) + Len(t)
      PROVE  \/ k <= Len(s) /\ k \in DOMAIN s /\ (s \o t)[k] = s[k] /\ s[k] \in Range(s)
             \/ k > Len(s) /\ k - Len(s) \in DOMAIN t /\ (s \o t)[k] = t[k - Len(s)]
                /\ t[k - Len(s)] \in Range(t)
  <2>1. /\ \A j \in DOMAIN s : s[j] \in Range(s)
        /\ \A j \in DOMAIN t : t[j] \in Range(t)
    BY DEF Range
  <2>2. CASE k <= Len(s)
    BY <1>1, <1>2, <2>1, <2>2
  <2>3. CASE ~(k <= Len(s))
    <3>1. k > Len(s) /\ k - Len(s) \in DOMAIN t
      BY <1>1, <2>3
    <3>. QED
      BY <1>2, <2>1, <2>3, <3>1
  <2>. QED
    BY <2>2, <2>3
<1>4. CASE a <= Len(s) /\ b <= Len(s)
  BY <1>1, <1>3, <1>4 DEF IsInjective
<1>5. CASE a > Len(s) /\ b > Len(s)
  <2>1. a - Len(s) = b - Len(s)
    BY <1>1, <1>3, <1>5 DEF IsInjective
  <2>. QED
    BY <1>1, <2>1
<1>6. CASE (a <= Len(s) /\ b > Len(s)) \/ (b <= Len(s) /\ a > Len(s))
  <2>1. CASE a <= Len(s) /\ b > Len(s)
    <3>1. (s \o t)[a] \in Range(s) /\ (s \o t)[b] \in Range(t)
      BY <1>1, <1>3, <2>1
    <3>. QED
      BY <3>1
  <2>2. CASE b <= Len(s) /\ a > Len(s)
    <3>1. (s \o t)[b] \in Range(s) /\ (s \o t)[a] \in Range(t)
      BY <1>1, <1>3, <2>2
    <3>. QED
      BY <3>1
  <2>. QED
    BY <1>6, <2>1, <2>2
<1>7. \/ a <= Len(s) /\ b <= Len(s)
      \/ a > Len(s) /\ b > Len(s)
      \/ (a <= Len(s) /\ b > Len(s)) \/ (b <= Len(s) /\ a > Len(s))
  BY <1>1
<1>. QED
  BY <1>4, <1>5, <1>6, <1>7

\* The parts of such a sequence have no element in common.
LEMMA SplitInjective ==
  ASSUME NEW T, NEW s \in Seq(T), NEW t \in Seq(T), IsInjective(s \o t)
  PROVE  IsInjective(s) /\ IsInjective(t) /\ Range(s) \cap Range(t) = {}
<1>1. /\ Len(s) \in Nat /\ Len(t) \in Nat
      /\ DOMAIN s = 1 .. Len(s) /\ DOMAIN t = 1 .. Len(t)
  OBVIOUS
<1>2. /\ DOMAIN (s \o t) = 1 .. Len(s) + Len(t)
      /\ \A k \in 1 .. Len(s) + Len(t) :
           (s \o t)[k] = IF k <= Len(s) THEN s[k] ELSE t[k - Len(s)]
  BY ConcatProperties, LenProperties
<1>3. \A k \in DOMAIN s : k \in DOMAIN (s \o t) /\ (s \o t)[k] = s[k]
  BY <1>1, <1>2
<1>4. \A k \in DOMAIN t : /\ k + Len(s) \in DOMAIN (s \o t) /\ (s \o t)[k + Len(s)] = t[k]
                          /\ k + Len(s) > Len(s)
  BY <1>1, <1>2
<1>5. IsInjective(s)
  BY <1>3 DEF IsInjective
<1>6. ASSUME NEW a \in DOMAIN t, NEW b \in DOMAIN t, t[a] = t[b] PROVE a = b
  <2>1. a + Len(s) = b + Len(s)
    BY <1>4, <1>6 DEF IsInjective
  <2>. QED
    BY <1>1, <2>1
<1>7. ASSUME NEW a \in DOMAIN s, NEW b \in DOMAIN t, s[a] = t[b] PROVE FALSE
  <2>1. a = b + Len(s)
    BY <1>3, <1>4, <1>7 DEF IsInjective
  <2>. QED
    BY <1>1, <1>4, <2>1
<1>. QED
  BY <1>5, <1>6, <1>7 DEF IsInjective, Range

\* Moving the head of the second sequence behind the first changes nothing.
LEMMA MoveHead ==
  ASSUME NEW T, NEW s \in Seq(T), NEW t \in Seq(T), t # <<>>
  PROVE  Append(s, Head(t)) \o Tail(t) = s \o t
<1>1. /\ Head(t) = t[1] /\ Head(t) \in T /\ Tail(t) \in Seq(T)
      /\ Len(t) \in Nat \ {0} /\ Len(s) \in Nat /\ Len(Tail(t)) = Len(t) - 1
      /\ \A k \in 1 .. Len(t) - 1 : Tail(t)[k] = t[k + 1]
  BY HeadTailProperties, EmptySeq
<1>2. /\ Append(s, Head(t)) \in Seq(T) /\ Len(Append(s, Head(t))) = Len(s) + 1
      /\ \A k \in 1 .. Len(s) : Append(s, Head(t))[k] = s[k]
      /\ Append(s, Head(t))[Len(s) + 1] = t[1]
  BY <1>1, AppendProperties
<1>. DEFINE u == Append(s, Head(t))
            v == Tail(t)
<1>3. /\ u \o v \in Seq(T) /\ Len(u \o v) = Len(s) + Len(t)
      /\ \A k \in 1 .. Len(s) + Len(t) :
           (u \o v)[k] = IF k <= Len(s) + 1 THEN u[k] ELSE v[k - (Len(s) + 1)]
  <2>. HIDE DEF u, v
  <2>1. u \in Seq(T) /\ v \in Seq(T) /\ Len(u) = Len(s) + 1 /\ Len(v) = Len(t) - 1
    BY <1>1, <1>2 DEF u, v
  <2>2. Len(u) + Len(v) = Len(s) + Len(t)
    BY <1>1, <2>1
  <2>3. /\ u \o v \in Seq(T) /\ Len(u \o v) = Len(u) + Len(v)
        /\ \A k \in 1 .. Len(u) + Len(v) :
             (u \o v)[k] = IF k <= Len(u) THEN u[k] ELSE v[k - Len(u)]
    BY <2>1, ConcatProperties
  <2>. QED
    BY <2>1, <2>2, <2>3
<1>4. /\ s \o t \in Seq(T) /\ Len(s \o t) = Len(s) + Len(t)
      /\ \A k \in 1 .. Len(s) + Len(t) :
           (s \o t)[k] = IF k <= Len(s) THEN s[k] ELSE t[k - Len(s)]
  BY ConcatProperties
<1>5. ASSUME NEW k \in 1 .. Len(s) + Len(t) PROVE (u \o v)[k] = (s \o t)[k]
  <2>1. CASE k <= Len(s)
    BY <1>1, <1>2, <1>3, <1>4, <2>1
  <2>2. CASE k = Len(s) + 1
    BY <1>1, <1>2, <1>3, <1>4, <2>2
  <2>3. CASE k > Len(s) + 1
    <3>1. k - (Len(s) + 1) \in 1 .. Len(t) - 1 /\ k - (Len(s) + 1) + 1 = k - Len(s)
      BY <1>1, <2>3
    <3>2. v[k - (Len(s) + 1)] = t[k - Len(s)]
      BY <1>1, <3>1
    <3>. QED
      BY <1>1, <1>3, <1>4, <2>3, <3>2
  <2>. QED
    BY <1>1, <2>1, <2>2, <2>3
<1>. HIDE DEF u, v
<1>6. u \o v = s \o t
  BY <1>3, <1>4, <1>5, SeqEqual
<1>. QED
  BY <1>6 DEF u, v

\* What is left of such a sequence without its head.
LEMMA TailRange ==
  ASSUME NEW T, NEW s \in Seq(T), s # <<>>, IsInjective(s)
  PROVE  Range(Tail(s)) = Range(s) \ {Head(s)} /\ Head(s) \in Range(s)
<1>1. /\ Len(s) \in Nat \ {0} /\ DOMAIN s = 1 .. Len(s) /\ Head(s) = s[1]
      /\ Tail(s) \in Seq(T) /\ DOMAIN Tail(s) = 1 .. Len(s) - 1
      /\ \A k \in 1 .. Len(s) - 1 : Tail(s)[k] = s[k + 1]
  BY HeadTailProperties, EmptySeq, LenProperties
<1>2. Range(Tail(s)) = {s[k + 1] : k \in 1 .. Len(s) - 1}
  BY <1>1 DEF Range
<1>3. ASSUME NEW k \in 1 .. Len(s) - 1 PROVE s[k + 1] \in Range(s) \ {s[1]}
  BY <1>1, <1>3 DEF Range, IsInjective
<1>4. ASSUME NEW x \in Range(s) \ {s[1]} PROVE \E k \in 1 .. Len(s) - 1 : x = s[k + 1]
  <2>1. PICK j \in DOMAIN s : x = s[j]
    BY DEF Range
  <2>2. j - 1 \in 1 .. Len(s) - 1 /\ (j - 1) + 1 = j
    BY <1>1, <2>1
  <2>. QED
    BY <2>1, <2>2
<1>5. Head(s) \in Range(s)
  BY <1>1 DEF Range
<1>. QED
  BY <1>1, <1>2, <1>3, <1>4, <1>5

-----------------------------------------------------------------------------
(* The positions of a set in ascending order.                              *)

\* An ascending enumeration of a set of naturals.
Enumerates(s, S) ==
  /\ s \in [1 .. Cardinality(S) -> S]
  /\ \A j, k \in DOMAIN s : j < k => s[j] < s[k]

\* Every set of positions has one: take the least bound up to which it fails.
LEMMA EnumerationExists ==
  ASSUME NEW N \in Nat, NEW S \in SUBSET (1 .. N)
  PROVE  \E s : Enumerates(s, S)
<1>. DEFINE Below(n) == S \cap (1 .. n)
            Bad == {n \in Nat : ~ \E s : Enumerates(s, Below(n))}
<1>1. ASSUME Bad # {} PROVE FALSE
  <2>1. PICK n \in Bad : \A m \in Bad : n <= m
    <3>1. Bad \subseteq Nat
      OBVIOUS
    <3>. QED
      BY <1>1, <3>1, LeastNat
  <2>2. n # 0
    <3>1. ASSUME n = 0 PROVE FALSE
      <4>1. Below(n) = {}
        BY <3>1
      <4>2. Cardinality({}) = 0
        BY FS_EmptySet
      <4>3. Enumerates(<<>>, {})
        BY <4>2 DEF Enumerates
      <4>. QED
        BY <4>1, <4>3
    <3>. QED
      BY <3>1
  <2>3. n - 1 \in Nat /\ n - 1 \notin Bad
    <3>1. n \in Nat
      BY <2>1
    <3>2. n - 1 \in Nat /\ ~(n <= n - 1)
      BY <2>2, <3>1
    <3>. QED
      BY <2>1, <3>2
  <2>4. PICK s : Enumerates(s, Below(n - 1))
    BY <2>3
  <2>5. IsFiniteSet(Below(n - 1)) /\ Cardinality(Below(n - 1)) \in Nat
    <3>1. IsFiniteSet(1 .. n - 1)
      BY <2>3, FS_Interval
    <3>2. Below(n - 1) \in SUBSET (1 .. n - 1)
      OBVIOUS
    <3>. QED
      BY <3>1, <3>2, FS_Subset, FS_CardinalityType
  <2>6. CASE n \notin S
    <3>1. Below(n) = Below(n - 1)
      BY <2>1, <2>3, <2>6
    <3>. QED
      BY <2>1, <2>4, <3>1
  <2>7. CASE n \in S
    <3>. DEFINE c == Cardinality(Below(n - 1))
                t == [k \in 1 .. c + 1 |-> IF k <= c THEN s[k] ELSE n]
    <3>1. Below(n) = Below(n - 1) \cup {n} /\ n \notin Below(n - 1)
      BY <2>1, <2>3, <2>7
    <3>2. Cardinality(Below(n)) = c + 1
      BY <2>5, <3>1, FS_AddElement
    <3>3. /\ c \in Nat /\ s \in [1 .. c -> Below(n - 1)]
          /\ \A j, k \in 1 .. c : j < k => s[j] < s[k]
      BY <2>4, <2>5 DEF Enumerates
    <3>4. \A x \in Below(n - 1) : x \in Nat /\ x < n
      BY <2>1, <2>3
    <3>. HIDE DEF c, Below
    <3>5. \A k \in 1 .. c + 1 : k <= c => k \in 1 .. c
      BY <3>3
    <3>6. t \in [1 .. c + 1 -> Below(n)]
      BY <3>1, <3>3, <3>5
    <3>7. ASSUME NEW j \in 1 .. c + 1, NEW k \in 1 .. c + 1, j < k
          PROVE  t[j] < t[k]
      <4>1. j \in 1 .. c /\ t[j] = s[j] /\ s[j] \in Below(n - 1)
        BY <3>3, <3>7
      <4>2. CASE k <= c
        BY <3>3, <3>5, <3>7, <4>1, <4>2
      <4>3. CASE ~(k <= c)
        BY <3>4, <4>1, <4>3
      <4>. QED
        BY <4>2, <4>3
    <3>8. Enumerates(t, Below(n))
      BY <3>2, <3>6, <3>7 DEF Enumerates
    <3>. QED
      BY <2>1, <3>8
  <2>. QED
    BY <2>6, <2>7
<1>2. Below(N) = S
  OBVIOUS
<1>. QED
  BY <1>1, <1>2

\* Ascending names every position of the set, each once.
LEMMA AscendingProps ==
  ASSUME NEW N \in Nat, NEW S \in SUBSET (1 .. N)
  PROVE  /\ Ascending(S) \in Seq(1 .. N)
         /\ IsInjective(Ascending(S))
         /\ Range(Ascending(S)) = S
<1>. DEFINE a == Ascending(S)
            c == Cardinality(S)
<1>1. a \in [1 .. c -> S] /\ \A j, k \in DOMAIN a : j < k => a[j] < a[k]
  <2>1. \E s \in [1 .. c -> S] : \A j, k \in DOMAIN s : j < k => s[j] < s[k]
    BY EnumerationExists DEF Enumerates
  <2>. HIDE DEF c
  <2>. QED
    BY <2>1 DEF Ascending, c
<1>2. IsFiniteSet(S) /\ c \in Nat
  <2>1. IsFiniteSet(1 .. N)
    BY FS_Interval
  <2>2. IsFiniteSet(S)
    BY <2>1, FS_Subset
  <2>. QED
    BY <2>2, FS_CardinalityType
<1>. HIDE DEF a
<1>3. IsInjective(a)
  <2>. SUFFICES ASSUME NEW j \in 1 .. c, NEW k \in 1 .. c, a[j] = a[k]
                PROVE  j = k
    BY <1>1 DEF IsInjective
  <2>1. a[j] \in S /\ a[k] \in S
    BY <1>1
  <2>2. a[j] \in Nat /\ a[k] \in Nat
    <3>1. \A x \in S : x \in Nat
      OBVIOUS
    <3>. QED
      BY <2>1, <3>1
  <2>3. j \in Nat /\ k \in Nat
    OBVIOUS
  <2>. QED
    BY <1>1, <2>2, <2>3
<1>4. a \in Injection(1 .. c, S)
  BY <1>1, <1>3 DEF Injection
<1>5. Cardinality(1 .. c) = c
  BY <1>2, FS_Interval
<1>6. a \in Surjection(1 .. c, S)
  BY <1>2, <1>4, <1>5, FS_Injection
<1>7. Range(a) = S
  BY <1>1, <1>6 DEF Range, Surjection
<1>8. a \in Seq(1 .. N)
  <2>1. a \in [1 .. c -> 1 .. N]
    BY <1>1
  <2>. HIDE DEF c
  <2>. QED
    BY <1>2, <2>1
<1>. QED
  BY <1>3, <1>7, <1>8 DEF a

\* A finite nonempty set of naturals has a greatest element.
LEMMA GreatestNat ==
  ASSUME NEW T, T \subseteq Nat, T # {}, IsFiniteSet(T)
  PROVE  \E x \in T : \A y \in T : y <= x
<1>1. PICK n \in Nat : ExistsSurjection(1 .. n, T)
  BY FS_NatSurjection
<1>2. PICK f \in [1 .. n -> T] : \A y \in T : \E k \in 1 .. n : f[k] = y
  BY <1>1 DEF ExistsSurjection, Surjection
<1>. DEFINE AllBelow(m) == \E x \in T : \A k \in 1 .. m : f[k] <= x
            Bad == {m \in 0 .. n : ~AllBelow(m)}
<1>3. ASSUME Bad # {} PROVE FALSE
  <2>1. PICK m \in Bad : \A l \in Bad : m <= l
    <3>1. Bad \subseteq Nat
      OBVIOUS
    <3>. QED
      BY <1>3, <3>1, LeastNat
  <2>2. m \in 0 .. n /\ ~AllBelow(m)
    BY <2>1
  <2>3. m # 0
    <3>1. PICK x : x \in T
      OBVIOUS
    <3>2. AllBelow(0)
      BY <3>1
    <3>. QED
      BY <2>2, <3>2
  <2>4. m - 1 \in 0 .. n /\ ~(m <= m - 1)
    BY <2>2, <2>3
  <2>5. PICK x \in T : \A k \in 1 .. m - 1 : f[k] <= x
    BY <2>1, <2>4
  <2>6. m \in 1 .. n /\ f[m] \in T
    BY <2>2, <2>3
  <2>7. PICK z \in T : x <= z /\ f[m] <= z
    <3>1. x \in Nat /\ f[m] \in Nat
      BY <2>5, <2>6
    <3>2. x <= f[m] \/ f[m] <= x
      BY <3>1
    <3>. QED
      BY <2>5, <2>6, <3>1, <3>2
  <2>8. \A k \in 1 .. m : f[k] <= z
    <3>. SUFFICES ASSUME NEW k \in 1 .. m PROVE f[k] <= z
      OBVIOUS
    <3>1. f[k] \in Nat /\ x \in Nat /\ z \in Nat
      <4>1. k \in 1 .. n
        BY <2>2
      <4>2. f[k] \in T
        BY <1>2, <4>1
      <4>. QED
        BY <2>5, <2>7, <4>2
    <3>2. CASE k = m
      BY <2>7, <3>2
    <3>3. CASE k # m
      <4>1. f[k] <= x
        BY <2>2, <2>5, <3>3
      <4>. QED
        BY <2>7, <3>1, <4>1
    <3>. QED
      BY <3>2, <3>3
  <2>. QED
    BY <2>2, <2>6, <2>7, <2>8
<1>4. AllBelow(n)
  <2>1. n \in 0 .. n
    BY <1>1
  <2>. HIDE DEF AllBelow
  <2>. QED
    BY <1>3, <2>1
<1>5. PICK x \in T : \A k \in 1 .. n : f[k] <= x
  BY <1>4
<1>. QED
  BY <1>2, <1>5

\* How many positions there are.
LEMMA IntervalCount ==
  ASSUME NEW n \in Nat
  PROVE  IsFiniteSet(1 .. n) /\ Cardinality(1 .. n) = n
<1>1. IsFiniteSet(1 .. n) /\ Cardinality(1 .. n) = IF 1 > n THEN 0 ELSE n - 1 + 1
  BY FS_Interval
<1>. QED
  BY <1>1

-----------------------------------------------------------------------------
(* Edges and dependencies.                                                 *)

\* A node of the vector is a node.
LEMMA NodeBounds ==
  ASSUME nodes \in Seq(NodeRecords)
  PROVE  /\ Len(nodes) \in Nat /\ DOMAIN nodes = Positions /\ Positions \subseteq Nat
         /\ \A i \in Positions :
              /\ nodes[i] \in NodeRecords
              /\ nodes[i].reads \in Seq(Resources) /\ nodes[i].writes \in Seq(Resources)
              /\ DOMAIN nodes[i].reads = 1 .. Len(nodes[i].reads)
              /\ DOMAIN nodes[i].writes = 1 .. Len(nodes[i].writes)
              /\ Len(nodes[i].reads) \in Nat /\ Len(nodes[i].writes) \in Nat
<1>1. Len(nodes) \in Nat /\ DOMAIN nodes = Positions /\ Positions \subseteq Nat
  BY DEF Positions
<1>2. ASSUME NEW i \in Positions
      PROVE  nodes[i] \in NodeRecords
  BY DEF Positions
<1>3. ASSUME NEW i \in Positions
      PROVE  nodes[i].reads \in Seq(Resources) /\ nodes[i].writes \in Seq(Resources)
  BY <1>2 DEF NodeRecords
<1>. QED
  BY <1>1, <1>2, <1>3, LenProperties

\* Two nodes of any vector depend on each other when they share a resource.
LEMMA DepsOf ==
  ASSUME NEW ns, Len(ns) \in Nat, NEW p \in 1 .. Len(ns), NEW i \in 1 .. Len(ns)
  PROVE  /\ <<p, i>> \in Deps(AsSets(ns))
              <=> p # i /\ Range(ns[p].writes) \cap Range(ns[i].reads) # {}
<1>1. /\ AsSets(ns)[p].writes = Range(ns[p].writes)
      /\ AsSets(ns)[i].reads = Range(ns[i].reads)
  BY DEF AsSets
<1>2. Len(AsSets(ns)) = Len(ns)
  BY DEF AsSets
<1>. QED
  BY <1>1, <1>2 DEF Deps, SharesDep

\* A dependency is a pair of positions.
LEMMA DepsTyped ==
  ASSUME NEW ns, Len(ns) \in Nat, NEW e \in Deps(AsSets(ns))
  PROVE  e[1] \in 1 .. Len(ns) /\ e[2] \in 1 .. Len(ns) /\ e = <<e[1], e[2]>>
<1>1. Len(AsSets(ns)) = Len(ns)
  BY DEF AsSets
<1>. QED
  BY <1>1 DEF Deps

\* What an edge is.
LEMMA EdgeBounds ==
  ASSUME nodes \in Seq(NodeRecords), NEW i \in Positions, NEW e \in EdgesInto(i)
  PROVE  /\ e[1] \in Positions /\ e[1] # i
         /\ e[2] \in DOMAIN nodes[e[1]].writes /\ e[3] \in DOMAIN nodes[i].reads
         /\ e[2] \in 1 .. MaxWrites
         /\ nodes[e[1]].writes[e[2]] = nodes[i].reads[e[3]]
         /\ e = <<e[1], e[2], e[3]>>
  BY DEF EdgesInto

\* Every edge is a dependency, and every dependency has an edge.
LEMMA EdgeIsDep ==
  ASSUME nodes \in Seq(NodeRecords), NEW i \in Positions, NEW e \in EdgesInto(i)
  PROVE  <<e[1], i>> \in Deps(View)
<1>1. /\ e[1] \in Positions /\ e[1] # i
      /\ nodes[e[1]].writes[e[2]] \in Range(nodes[e[1]].writes)
      /\ nodes[e[1]].writes[e[2]] \in Range(nodes[i].reads)
  BY EdgeBounds DEF Range
<1>2. Len(nodes) \in Nat
  BY NodeBounds
<1>. QED
  BY <1>1, <1>2, DepsOf DEF View, Positions

\* Every dependency has an edge of the counts.
LEMMA DepHasEdge ==
  ASSUME nodes \in Seq(NodeRecords), NEW i \in Positions, NEW p \in Positions,
         Len(nodes[p].writes) <= MaxWrites, <<p, i>> \in Deps(View)
  PROVE  \E e \in EdgesInto(i) : e[1] = p
<1>1. Len(nodes) \in Nat
  BY NodeBounds
<1>2. p # i /\ Range(nodes[p].writes) \cap Range(nodes[i].reads) # {}
  BY <1>1, DepsOf DEF View, Positions
<1>3. PICK k \in DOMAIN nodes[p].writes, a \in DOMAIN nodes[i].reads :
        nodes[p].writes[k] = nodes[i].reads[a]
  BY <1>2 DEF Range
<1>4. k \in 1 .. MaxWrites
  BY <1>3, NodeBounds, GraphCallsAssumption
<1>5. <<p, k, a>> \in EdgesInto(i)
  BY <1>2, <1>3, <1>4 DEF EdgesInto
<1>. QED
  BY <1>5

\* The edges into a node are finitely many.
LEMMA EdgesFinite ==
  ASSUME nodes \in Seq(NodeRecords), NEW i \in Positions
  PROVE  IsFiniteSet(EdgesInto(i))
<1>. DEFINE box == Positions \X ((1 .. MaxWrites) \X DOMAIN nodes[i].reads)
            f == [e \in EdgesInto(i) |-> <<e[1], <<e[2], e[3]>>>>]
<1>1. IsFiniteSet(box)
  <2>1. MaxWrites \in Int /\ Len(nodes) \in Int /\ Len(nodes[i].reads) \in Int
    BY NodeBounds, GraphCallsAssumption
  <2>2. IsFiniteSet(Positions) /\ IsFiniteSet(1 .. MaxWrites)
    BY <2>1, FS_Interval DEF Positions
  <2>3. IsFiniteSet(DOMAIN nodes[i].reads)
    <3>1. DOMAIN nodes[i].reads = 1 .. Len(nodes[i].reads)
      BY NodeBounds
    <3>2. IsFiniteSet(1 .. Len(nodes[i].reads))
      BY <2>1, FS_Interval
    <3>. QED
      BY <3>1, <3>2
  <2>4. IsFiniteSet((1 .. MaxWrites) \X DOMAIN nodes[i].reads)
    BY <2>2, <2>3, FS_Product
  <2>. QED
    BY <2>2, <2>4, FS_Product
<1>2. f \in [EdgesInto(i) -> box]
  BY EdgeBounds
<1>3. ASSUME NEW d \in EdgesInto(i), NEW e \in EdgesInto(i), f[d] = f[e] PROVE d = e
  <2>1. d[1] = e[1] /\ d[2] = e[2] /\ d[3] = e[3]
    BY <1>3
  <2>. QED
    BY <2>1, EdgeBounds
<1>4. f \in Injection(EdgesInto(i), box)
  BY <1>2, <1>3 DEF Injection, IsInjective
<1>. HIDE DEF f, box
<1>. QED
  BY <1>1, <1>4, FS_Injection

\* One write declaration of a node has as many edges into another as the other
\* mentions its resource.
LEMMA EdgesOfWrite ==
  ASSUME nodes \in Seq(NodeRecords), NEW i \in Positions, NEW c \in Positions, c # i,
         NEW k \in DOMAIN nodes[c].writes, k \in 1 .. MaxWrites
  PROVE  Cardinality({e \in EdgesInto(i) : e[1] = c /\ e[2] = k})
           = Mentions(i, nodes[c].writes[k])
<1>. DEFINE E == {e \in EdgesInto(i) : e[1] = c /\ e[2] = k}
            A == {a \in DOMAIN nodes[i].reads : nodes[i].reads[a] = nodes[c].writes[k]}
            f == [a \in A |-> <<c, k, a>>]
<1>1. IsFiniteSet(A)
  <2>1. IsFiniteSet(DOMAIN nodes[i].reads)
    <3>1. DOMAIN nodes[i].reads = 1 .. Len(nodes[i].reads) /\ Len(nodes[i].reads) \in Int
      BY NodeBounds
    <3>2. IsFiniteSet(1 .. Len(nodes[i].reads))
      BY <3>1, FS_Interval
    <3>. QED
      BY <3>1, <3>2
  <2>. QED
    BY <2>1, FS_Subset
<1>2. ASSUME NEW a \in A PROVE <<c, k, a>> \in E
  BY DEF EdgesInto
<1>3. ASSUME NEW e \in E PROVE e[3] \in A /\ e = <<c, k, e[3]>>
  BY EdgeBounds
<1>4. f \in Bijection(A, E)
  <2>1. f \in [A -> E]
    BY <1>2
  <2>2. \A a, b \in A : f[a] = f[b] => a = b
    OBVIOUS
  <2>3. \A e \in E : \E a \in A : f[a] = e
    <3>. SUFFICES ASSUME NEW e \in E PROVE \E a \in A : f[a] = e
      OBVIOUS
    <3>1. e[3] \in A /\ e = <<c, k, e[3]>>
      BY <1>3
    <3>. QED
      BY <3>1
  <2>. HIDE DEF f, A, E
  <2>. QED
    BY <2>1, <2>2, <2>3 DEF Bijection, Injection, Surjection, IsInjective
<1>5. ExistsBijection(A, E)
  BY <1>4 DEF ExistsBijection
<1>6. Cardinality(E) = Cardinality(A)
  BY <1>1, <1>5, FS_Bijection
<1>. QED
  BY <1>6 DEF Mentions

\* Steps that keep what the nodes read and write keep edges and dependencies.
LEMMA SameWiring ==
  ASSUME Len(nodes') = Len(nodes), Len(nodes) \in Nat,
         \A i \in Positions : /\ nodes'[i].reads = nodes[i].reads
                              /\ nodes'[i].writes = nodes[i].writes
  PROVE  /\ Positions' = Positions
         /\ \A i \in Positions : EdgesInto(i)' = EdgesInto(i)
         /\ Deps(View)' = Deps(View)
<1>1. Positions' = Positions
  BY DEF Positions
<1>2. ASSUME NEW i \in Positions
      PROVE  EdgesInto(i)' = EdgesInto(i)
  BY <1>1 DEF EdgesInto
<1>3. Deps(View)' = Deps(View)
  <2>1. Deps(View)' = Deps(AsSets(nodes')) /\ Deps(View) = Deps(AsSets(nodes))
    BY DEF View
  <2>2. ASSUME NEW p \in Positions, NEW i \in Positions
        PROVE  <<p, i>> \in Deps(AsSets(nodes')) <=> <<p, i>> \in Deps(AsSets(nodes))
    <3>1. <<p, i>> \in Deps(AsSets(nodes))
            <=> p # i /\ Range(nodes[p].writes) \cap Range(nodes[i].reads) # {}
      BY DepsOf DEF Positions
    <3>2. <<p, i>> \in Deps(AsSets(nodes'))
            <=> p # i /\ Range(nodes'[p].writes) \cap Range(nodes'[i].reads) # {}
      BY DepsOf DEF Positions
    <3>. QED
      BY <3>1, <3>2
  <2>3. \A e \in Deps(AsSets(nodes)) : e[1] \in Positions /\ e[2] \in Positions /\ e = <<e[1], e[2]>>
    BY DepsTyped DEF Positions
  <2>4. \A e \in Deps(AsSets(nodes')) : e[1] \in Positions /\ e[2] \in Positions /\ e = <<e[1], e[2]>>
    BY DepsTyped DEF Positions
  <2>5. \A e \in Deps(AsSets(nodes)) : e \in Deps(AsSets(nodes'))
    BY <2>2, <2>3
  <2>6. \A e \in Deps(AsSets(nodes')) : e \in Deps(AsSets(nodes))
    BY <2>2, <2>4
  <2>7. Deps(AsSets(nodes')) = Deps(AsSets(nodes))
    BY <2>5, <2>6
  <2>. QED
    BY <2>1, <2>7
<1>. QED
  BY <1>1, <1>2, <1>3

-----------------------------------------------------------------------------
(* The drain: what the counts and the queue say.                           *)

\* The parts of the strengthening a step of the drain starts from.
LEMMA DrainFacts ==
  ASSUME RGIInv, call = "sort"
  PROVE  /\ nodes \in Seq(NodeRecords) /\ inDeg \in Seq(Nat) /\ Len(inDeg) = Len(nodes)
         /\ order \in Seq(Positions) /\ ready \in Seq(Positions)
         /\ DOMAIN order = 1 .. Len(order) /\ Len(order) \in Nat
         /\ IsInjective(order) /\ IsInjective(ready)
         /\ Range(order) \cap Range(ready) = {}
         /\ Range(order) \subseteq Positions /\ Range(ready) \subseteq Positions
         /\ \A i \in Positions : inDeg[i] = Cardinality(Unrelaxed(i))
         /\ Range(ready) = {i \in Positions \ Range(order) : inDeg[i] = 0}
<1>1. /\ nodes \in Seq(NodeRecords) /\ inDeg \in Seq(Nat)
      /\ order \in Seq(Positions) /\ ready \in Seq(Positions)
  BY DEF RGIInv, RGTypeOK
<1>2. /\ \A i \in Positions : inDeg[i] = Cardinality(Unrelaxed(i))
      /\ Range(ready) = {i \in Positions \ Range(order) : inDeg[i] = 0}
      /\ IsInjective(order \o ready)
  BY DEF RGIInv, KahnExact
<1>3. Len(inDeg) = Len(nodes)
  BY DEF RGIInv, DrainInOrder
<1>4. /\ IsInjective(order) /\ IsInjective(ready)
      /\ Range(order) \cap Range(ready) = {}
  BY <1>1, <1>2, SplitInjective
<1>5. Range(order) \subseteq Positions /\ Range(ready) \subseteq Positions
  BY <1>1, RangeOfSeq
<1>6. DOMAIN order = 1 .. Len(order) /\ Len(order) \in Nat
  BY <1>1, LenProperties
<1>. QED
  BY <1>1, <1>2, <1>3, <1>4, <1>5, <1>6

\* A node without remaining in-degree has no edge left, and the other way round.
LEMMA UnrelaxedFinite ==
  ASSUME nodes \in Seq(NodeRecords), NEW i \in Positions
  PROVE  /\ IsFiniteSet(Unrelaxed(i)) /\ Cardinality(Unrelaxed(i)) \in Nat
         /\ Cardinality(Unrelaxed(i)) = 0 <=> Unrelaxed(i) = {}
<1>1. IsFiniteSet(EdgesInto(i))
  BY EdgesFinite
<1>2. IsFiniteSet(Unrelaxed(i))
  BY <1>1, FS_Subset DEF Unrelaxed
<1>. QED
  BY <1>2, FS_CardinalityType, FS_EmptySet

\* Between two nodes of the drain an edge is relaxed once its writer is popped.
LEMMA RelaxedAtRest ==
  ASSUME nodes \in Seq(NodeRecords), relax = <<>>,
         NEW i \in Positions, NEW e \in EdgesInto(i)
  PROVE  Relaxed(e) <=> e[1] \in Range(order)
<1>1. e[2] \in 1 .. Len(nodes[e[1]].writes) /\ Len(nodes[e[1]].writes) \in Nat
  BY EdgeBounds, NodeBounds
<1>2. ~(e[2] > Len(nodes[e[1]].writes) - Len(relax))
  BY <1>1
<1>. QED
  BY <1>2 DEF Relaxed

\* No edge is left into a node that was popped.
LEMMA PoppedFree ==
  ASSUME RGIInv, call = "sort", NEW i \in Range(order)
  PROVE  inDeg[i] = 0 /\ Unrelaxed(i) = {}
<1>1. PICK k \in 1 .. Len(order) : i = order[k]
  BY DrainFacts DEF Range
<1>4. i \in Positions
  BY DrainFacts
<1>2. ASSUME NEW e \in EdgesInto(i)
      PROVE  Relaxed(e)
  <2>1. PICK j \in 1 .. k - 1 : order[j] = e[1]
    <3>1. <<e[1], i>> \in Deps(View) /\ e[1] \in Positions
      BY <1>4, DrainFacts, EdgeIsDep, EdgeBounds
    <3>. QED
      BY <1>1, <3>1, DrainFacts DEF RGIInv, DrainInOrder
  <2>2. j \in 1 .. Len(order) /\ j # Len(order) /\ Len(order) \in DOMAIN order
    <3>1. Len(order) \in Nat /\ DOMAIN order = 1 .. Len(order)
      BY DrainFacts
    <3>2. \A n \in Nat : \A l \in 1 .. n : \A m \in 1 .. l - 1 :
            m \in 1 .. n /\ m # n /\ n \in 1 .. n
      OBVIOUS
    <3>. QED
      BY <1>1, <2>1, <3>1, <3>2
  <2>3. e[1] \in Range(order)
    BY <2>1, <2>2, DrainFacts DEF Range
  <2>4. e[1] # order[Len(order)]
    BY <2>1, <2>2, DrainFacts DEF IsInjective
  <2>. QED
    BY <2>3, <2>4 DEF Relaxed
<1>3. Unrelaxed(i) = {}
  BY <1>2 DEF Unrelaxed
<1>. QED
  BY <1>3, <1>4, DrainFacts, UnrelaxedFinite

\* The write relaxed next.
LEMMA NextWrite ==
  ASSUME RGIInv, call = "sort", relax # <<>>
  PROVE  \E c \in Range(order) : \E k \in DOMAIN nodes[c].writes :
           /\ order # <<>> /\ c = order[Len(order)] /\ c \in Positions
           /\ k \in 1 .. MaxWrites
           /\ k = Len(nodes[c].writes) - Len(relax) + 1
           /\ Head(relax) = nodes[c].writes[k]
           /\ Len(Tail(relax)) = Len(relax) - 1 /\ Len(relax) \in Nat \ {0}
           /\ Tail(relax) \in Seq(Resources)
<1>. DEFINE c == order[Len(order)]
            w == nodes[c].writes
            k == Len(w) - Len(relax) + 1
<1>1. /\ order # <<>> /\ Len(relax) <= Len(w)
      /\ \A l \in DOMAIN relax : relax[l] = w[Len(w) - Len(relax) + l]
  BY DEF RGIInv, DrainInOrder
<1>2. c \in Range(order) /\ c \in Positions
  <2>1. Len(order) \in Nat \ {0}
    BY <1>1, DrainFacts, EmptySeq
  <2>2. Len(order) \in DOMAIN order
    BY <2>1, DrainFacts
  <2>. QED
    BY <2>2, DrainFacts DEF Range
<1>3. /\ Len(relax) \in Nat \ {0} /\ DOMAIN relax = 1 .. Len(relax) /\ Head(relax) = relax[1]
      /\ Tail(relax) \in Seq(Resources) /\ Len(Tail(relax)) = Len(relax) - 1
  <2>1. relax \in Seq(Resources)
    BY DEF RGIInv, RGTypeOK
  <2>. QED
    BY <2>1, EmptySeq, LenProperties, HeadTailProperties
<1>4. Len(w) \in Nat /\ DOMAIN w = 1 .. Len(w) /\ Len(w) <= MaxWrites
  BY <1>2, DrainFacts, NodeBounds DEF RGIInv, AsDeclared
<1>. HIDE DEF c, w
<1>5. k \in 1 .. Len(w) /\ k \in 1 .. MaxWrites
  BY <1>1, <1>3, <1>4, GraphCallsAssumption
<1>6. Head(relax) = w[k]
  BY <1>1, <1>3
<1>. QED
  BY <1>1, <1>2, <1>3, <1>4, <1>5, <1>6 DEF c, w

-----------------------------------------------------------------------------
(* Popping a node.                                                         *)

\* Popping a node renumbers it and changes nothing else of the vector.
LEMMA PopEffect ==
  ASSUME RGIInv, Pop
  PROVE  /\ Head(ready) \in Range(ready) /\ Head(ready) \in Positions
         /\ Head(ready) \notin Range(order)
         /\ nodes' \in Seq(NodeRecords) /\ Len(nodes') = Len(nodes)
         /\ nodes'[Head(ready)].sortIdx = Len(order)
         /\ \A i \in Positions :
              /\ i # Head(ready) => nodes'[i].sortIdx = nodes[i].sortIdx
              /\ nodes'[i].id = nodes[i].id /\ nodes'[i].queue = nodes[i].queue
              /\ nodes'[i].reads = nodes[i].reads /\ nodes'[i].writes = nodes[i].writes
         /\ order' \in Seq(Positions) /\ Len(order') = Len(order) + 1
         /\ Range(order') = Range(order) \cup {Head(ready)}
         /\ \A k \in 1 .. Len(order) : order'[k] = order[k]
         /\ order'[Len(order) + 1] = Head(ready)
         /\ ready' \in Seq(Positions) /\ Range(ready') = Range(ready) \ {Head(ready)}
         /\ IsInjective(order' \o ready')
<1>. DEFINE h == Head(ready)
<1>1. /\ ready # <<>> /\ call = "sort" /\ order' = Append(order, h) /\ ready' = Tail(ready)
      /\ nodes' = [nodes EXCEPT ![h].sortIdx = Len(order)]
  BY DEF Pop
<1>2. /\ order \in Seq(Positions) /\ ready \in Seq(Positions) /\ IsInjective(ready)
      /\ Len(order) \in Nat /\ nodes \in Seq(NodeRecords)
      /\ Range(order) \cap Range(ready) = {} /\ Range(ready) \subseteq Positions
      /\ DOMAIN order = 1 .. Len(order)
  BY <1>1, DrainFacts
<1>3. h \in Range(ready) /\ Range(ready') = Range(ready) \ {h}
  BY <1>1, <1>2, TailRange
<1>4. h \in Positions /\ h \notin Range(order) /\ h \in 1 .. Len(nodes)
  BY <1>2, <1>3 DEF Positions
<1>5. /\ order' \in Seq(Positions) /\ Len(order') = Len(order) + 1
      /\ \A k \in 1 .. Len(order) : order'[k] = order[k]
      /\ order'[Len(order) + 1] = h
  BY <1>1, <1>2, <1>4, AppendProperties
<1>6. Range(order') = Range(order) \cup {h}
  <2>1. DOMAIN order' = 1 .. Len(order) + 1
    BY <1>5, LenProperties
  <2>2. ASSUME NEW x \in Range(order') PROVE x \in Range(order) \cup {h}
    <3>1. PICK k \in 1 .. Len(order) + 1 : x = order'[k]
      BY <2>1, <2>2 DEF Range
    <3>2. k \in 1 .. Len(order) \/ k = Len(order) + 1
      BY <1>2
    <3>. QED
      BY <1>2, <1>5, <3>1, <3>2 DEF Range
  <2>3. ASSUME NEW x \in Range(order) \cup {h} PROVE x \in Range(order')
    <3>1. CASE x = h
      <4>1. Len(order) + 1 \in DOMAIN order'
        BY <1>2, <2>1
      <4>. QED
        BY <1>5, <3>1, <4>1 DEF Range
    <3>2. CASE x \in Range(order)
      <4>1. PICK k \in 1 .. Len(order) : x = order[k]
        BY <1>2, <3>2 DEF Range
      <4>2. k \in DOMAIN order'
        BY <1>2, <2>1
      <4>. QED
        BY <1>5, <4>1, <4>2 DEF Range
    <3>. QED
      BY <2>3, <3>1, <3>2
  <2>. QED
    BY <2>2, <2>3
<1>7. ready' \in Seq(Positions)
  BY <1>1, <1>2, HeadTailProperties
<1>8. IsInjective(order' \o ready')
  <2>1. IsInjective(order \o ready)
    BY <1>1 DEF RGIInv, KahnExact
  <2>2. order' \o ready' = order \o ready
    BY <1>1, <1>2, MoveHead
  <2>. QED
    BY <2>1, <2>2
<1>9. /\ nodes' \in Seq(NodeRecords) /\ Len(nodes') = Len(nodes)
      /\ nodes'[h] = [nodes[h] EXCEPT !.sortIdx = Len(order)]
      /\ \A i \in Positions : i # h => nodes'[i] = nodes[i]
  <2>1. nodes[h] \in NodeRecords
    BY <1>2, <1>4
  <2>2. [nodes[h] EXCEPT !.sortIdx = Len(order)] \in NodeRecords
    BY <1>2, <2>1 DEF NodeRecords
  <2>3. nodes' = [nodes EXCEPT ![h] = [nodes[h] EXCEPT !.sortIdx = Len(order)]]
    BY <1>1
  <2>. HIDE DEF h
  <2>. QED
    BY <1>2, <1>4, <2>2, <2>3, ExceptSeq DEF Positions
<1>10. nodes[h] \in NodeRecords
  BY <1>2, <1>4
<1>11. /\ nodes'[h].sortIdx = Len(order)
       /\ nodes'[h].id = nodes[h].id /\ nodes'[h].queue = nodes[h].queue
       /\ nodes'[h].reads = nodes[h].reads /\ nodes'[h].writes = nodes[h].writes
  BY <1>9, <1>10 DEF NodeRecords
<1>. QED
  BY <1>3, <1>4, <1>5, <1>6, <1>7, <1>8, <1>9, <1>11

\* The counts stay exact: popping a node relaxes nothing yet.
LEMMA PopExact == RGIInv /\ Pop => KahnExact'
<1>. SUFFICES ASSUME RGIInv, Pop PROVE KahnExact'
  OBVIOUS
<1>. DEFINE h == Head(ready)
<1>1. /\ call = "sort" /\ relax = <<>> /\ relax' = nodes[h].writes /\ inDeg' = inDeg
      /\ nodes \in Seq(NodeRecords) /\ Len(nodes) \in Nat /\ Len(order) \in Nat
  BY DrainFacts, NodeBounds DEF Pop
<1>2. /\ Positions' = Positions
      /\ \A i \in Positions : EdgesInto(i)' = EdgesInto(i)
  BY <1>1, PopEffect, SameWiring
<1>3. ASSUME NEW i \in Positions, NEW e \in EdgesInto(i)
      PROVE  Relaxed(e)' <=> Relaxed(e)
  <2>1. Relaxed(e) <=> e[1] \in Range(order)
    BY <1>1, RelaxedAtRest
  <2>2. /\ e[1] \in Positions /\ e[2] \in 1 .. Len(nodes[e[1]].writes)
        /\ Len(nodes[e[1]].writes) \in Nat
    BY <1>1, EdgeBounds, NodeBounds
  <2>3. order'[Len(order')] = h /\ Range(order') = Range(order) \cup {h} /\ h \notin Range(order)
    BY PopEffect
  <2>4. nodes'[e[1]].writes = nodes[e[1]].writes
    BY <2>2, PopEffect
  <2>5. CASE e[1] = h
    <3>1. e[2] > Len(nodes'[e[1]].writes) - Len(relax')
      BY <1>1, <2>2, <2>4, <2>5
    <3>. QED
      BY <2>1, <2>3, <2>5, <3>1 DEF Relaxed
  <2>6. CASE e[1] # h
    BY <2>1, <2>3, <2>6 DEF Relaxed
  <2>. QED
    BY <2>5, <2>6
<1>4. ASSUME NEW i \in Positions
      PROVE  Unrelaxed(i)' = Unrelaxed(i)
  BY <1>2, <1>3 DEF Unrelaxed
<1>5. \A i \in Positions : inDeg[i] = Cardinality(Unrelaxed(i))
  BY <1>1, DrainFacts
<1>6. Range(ready') = {i \in Positions \ Range(order') : inDeg'[i] = 0}
  <2>1. Range(ready) = {i \in Positions \ Range(order) : inDeg[i] = 0}
    BY <1>1, DrainFacts
  <2>. QED
    BY <1>1, <2>1, PopEffect
<1>. QED
  BY <1>1, <1>2, <1>4, <1>5, <1>6, PopEffect DEF KahnExact

\* Everything the popped node depends on was popped before it.
LEMMA PopOrder == RGIInv /\ Pop => DrainInOrder'
<1>. SUFFICES ASSUME RGIInv, Pop PROVE DrainInOrder'
  OBVIOUS
<1>. DEFINE h == Head(ready)
<1>1. /\ call = "sort" /\ relax = <<>> /\ relax' = nodes[h].writes /\ inDeg' = inDeg
      /\ nodes \in Seq(NodeRecords) /\ Len(nodes) \in Nat /\ Len(order) \in Nat
      /\ Len(inDeg) = Len(nodes) /\ DOMAIN order = 1 .. Len(order) /\ order \in Seq(Positions)
  BY DrainFacts, NodeBounds DEF Pop
<1>2. Deps(View)' = Deps(View) /\ Positions' = Positions
  BY <1>1, PopEffect, SameWiring
<1>3. /\ DOMAIN order' = 1 .. Len(order) + 1 /\ Len(order') = Len(order) + 1
      /\ order'[Len(order) + 1] = h /\ h \in Positions
      /\ \A k \in 1 .. Len(order) : order'[k] = order[k] /\ order[k] \in Positions /\ order[k] # h
  <2>1. order' \in Seq(Positions)
    BY PopEffect
  <2>2. DOMAIN order' = 1 .. Len(order')
    BY <2>1, LenProperties
  <2>3. \A k \in 1 .. Len(order) : order[k] \in Range(order)
    BY <1>1 DEF Range
  <2>. QED
    BY <1>1, <2>2, <2>3, PopEffect, DrainFacts
<1>4. LET w == nodes'[order'[Len(order')]].writes
      IN /\ Len(relax') <= Len(w)
         /\ \A k \in DOMAIN relax' : relax'[k] = w[Len(w) - Len(relax') + k]
  <2>1. nodes'[order'[Len(order')]].writes = nodes[h].writes
    BY <1>3, PopEffect
  <2>2. Len(nodes[h].writes) \in Nat /\ DOMAIN nodes[h].writes = 1 .. Len(nodes[h].writes)
    BY <1>1, <1>3, NodeBounds
  <2>3. \A k \in DOMAIN nodes[h].writes : Len(nodes[h].writes) - Len(nodes[h].writes) + k = k
    BY <2>2
  <2>. QED
    BY <1>1, <2>1, <2>2, <2>3
<1>. DEFINE Before(o, k) ==
       \A p \in Positions : <<p, o[k]>> \in Deps(View) => \E j \in 1 .. k - 1 : o[j] = p
<1>5. ASSUME NEW k \in 1 .. Len(order)
      PROVE  nodes'[order'[k]].sortIdx = k - 1 /\ Before(order', k)
  <2>1. nodes[order[k]].sortIdx = k - 1 /\ Before(order, k)
    BY <1>1 DEF RGIInv, DrainInOrder
  <2>2. \A j \in 1 .. k - 1 : order'[j] = order[j]
    BY <1>1, <1>3
  <2>3. nodes'[order'[k]].sortIdx = nodes[order[k]].sortIdx
    BY <1>3, PopEffect
  <2>. QED
    BY <1>3, <2>1, <2>2, <2>3
<1>6. nodes'[h].sortIdx = Len(order)
  BY PopEffect
<1>7. ASSUME NEW p \in Positions, <<p, h>> \in Deps(View)
      PROVE  \E j \in 1 .. Len(order) : order'[j] = p
  <2>1. inDeg[h] = 0
    BY <1>1, PopEffect, DrainFacts
  <2>2. Unrelaxed(h) = {}
    BY <1>1, <1>3, <2>1, DrainFacts, UnrelaxedFinite
  <2>3. PICK e \in EdgesInto(h) : e[1] = p
    BY <1>1, <1>3, <1>7, DepHasEdge DEF RGIInv, AsDeclared
  <2>4. p \in Range(order)
    BY <1>1, <1>3, <2>2, <2>3, RelaxedAtRest DEF Unrelaxed
  <2>5. PICK j \in DOMAIN order : order[j] = p
    BY <2>4 DEF Range
  <2>. QED
    BY <1>1, <1>3, <2>5
<1>10. ASSUME NEW k \in 1 .. Len(order) + 1
       PROVE  nodes'[order'[k]].sortIdx = k - 1 /\ Before(order', k)
  <2>1. CASE k \in 1 .. Len(order)
    BY <1>5, <2>1
  <2>2. CASE k = Len(order) + 1
    <3>1. order'[k] = h /\ k - 1 = Len(order)
      BY <1>1, <1>3, <2>2
    <3>. QED
      BY <1>6, <1>7, <3>1
  <2>. QED
    BY <1>1, <2>1, <2>2
<1>8. relax' # <<>> => order' # <<>>
  BY PopEffect, <1>1
<1>9. Len(inDeg') = Len(nodes')
  BY <1>1, PopEffect
<1>. QED
  BY <1>2, <1>3, <1>4, <1>8, <1>9, <1>10 DEF DrainInOrder

-----------------------------------------------------------------------------
(* Relaxing a write.                                                       *)

\* Handling one write of the node popped last takes that write's edges, and no
\* others, from what is left into every node.
LEMMA RelaxEdges ==
  ASSUME RGIInv, Relax, NEW i \in Positions
  PROVE  /\ inDeg'[i] = Cardinality(Unrelaxed(i)')
         /\ Unrelaxed(i)' \subseteq Unrelaxed(i)
         /\ inDeg'[i] = IF i = order[Len(order)] THEN inDeg[i]
                        ELSE inDeg[i] - Mentions(i, Head(relax))
<1>1. /\ call = "sort" /\ relax # <<>> /\ relax' = Tail(relax)
      /\ nodes' = nodes /\ order' = order
  BY DEF Relax, graphVars
<1>2. PICK c \in Range(order) : \E k \in DOMAIN nodes[c].writes :
           /\ order # <<>> /\ c = order[Len(order)] /\ c \in Positions
           /\ k \in 1 .. MaxWrites
           /\ k = Len(nodes[c].writes) - Len(relax) + 1
           /\ Head(relax) = nodes[c].writes[k]
           /\ Len(Tail(relax)) = Len(relax) - 1 /\ Len(relax) \in Nat \ {0}
           /\ Tail(relax) \in Seq(Resources)
  BY <1>1, NextWrite
<1>3. PICK k \in DOMAIN nodes[c].writes :
           /\ c = order[Len(order)] /\ c \in Positions
           /\ k \in 1 .. MaxWrites
           /\ k = Len(nodes[c].writes) - Len(relax) + 1
           /\ Head(relax) = nodes[c].writes[k]
           /\ Len(Tail(relax)) = Len(relax) - 1 /\ Len(relax) \in Nat \ {0}
  BY <1>2
<1>4. nodes \in Seq(NodeRecords) /\ inDeg \in Seq(Nat) /\ Len(inDeg) = Len(nodes)
  BY <1>1, DrainFacts
<1>5. EdgesInto(i)' = EdgesInto(i)
  BY <1>1 DEF EdgesInto, Positions
<1>6. Len(nodes[c].writes) \in Nat
  BY <1>3, <1>4, NodeBounds
<1>. DEFINE gone == {e \in EdgesInto(i) : e[1] = c /\ e[2] = k}
<1>7. ASSUME NEW e \in EdgesInto(i)
      PROVE  /\ ~Relaxed(e)' <=> ~Relaxed(e) /\ e \notin gone
             /\ e \in gone => ~Relaxed(e)
  <2>1. e[2] \in Nat /\ e[1] \in Positions
    BY <1>4, EdgeBounds, GraphCallsAssumption
  <2>2. Relaxed(e) <=> e[1] \in Range(order) /\ ~(e[1] = c /\ e[2] > k - 1)
    <3>1. e[1] = c => Len(nodes[e[1]].writes) - Len(relax) = k - 1
      BY <1>3, <1>6
    <3>. QED
      BY <1>3, <3>1 DEF Relaxed
  <2>3. Relaxed(e)' <=> e[1] \in Range(order) /\ ~(e[1] = c /\ e[2] > k)
    <3>1. e[1] = c => Len(nodes[e[1]].writes) - Len(Tail(relax)) = k
      BY <1>3, <1>6
    <3>. QED
      BY <1>1, <1>3, <3>1 DEF Relaxed
  <2>4. k \in Nat
    BY <1>3, GraphCallsAssumption
  <2>5. e[2] > k - 1 <=> e[2] > k \/ e[2] = k
    BY <2>1, <2>4
  <2>6. ~(e[2] = k /\ e[2] > k)
    BY <2>4
  <2>. QED
    BY <1>2, <2>2, <2>3, <2>5, <2>6
<1>8. Unrelaxed(i)' = Unrelaxed(i) \ gone /\ gone \subseteq Unrelaxed(i)
  <2>1. Unrelaxed(i)' = {e \in EdgesInto(i) : ~Relaxed(e)'}
    BY <1>5 DEF Unrelaxed
  <2>. QED
    BY <1>7, <2>1 DEF Unrelaxed
<1>9. /\ IsFiniteSet(Unrelaxed(i)) /\ Cardinality(Unrelaxed(i)) \in Nat
      /\ inDeg[i] = Cardinality(Unrelaxed(i))
  BY <1>1, <1>4, UnrelaxedFinite, DrainFacts
<1>10. inDeg'[i] = IF i = c THEN inDeg[i] ELSE inDeg[i] - Mentions(i, Head(relax))
  BY <1>3 DEF Relax
<1>11. CASE i = c
  <2>1. gone = {}
    BY <1>4, <1>11, EdgeBounds
  <2>2. Unrelaxed(i)' = Unrelaxed(i)
    BY <1>8, <2>1
  <2>. QED
    BY <1>3, <1>9, <1>10, <1>11, <2>2
<1>12. CASE i # c
  <2>1. Cardinality(gone) = Mentions(i, Head(relax))
    <3>1. c # i /\ c \in Positions /\ k \in DOMAIN nodes[c].writes /\ k \in 1 .. MaxWrites
      BY <1>3, <1>12
    <3>2. Cardinality(gone) = Mentions(i, nodes[c].writes[k])
      BY <1>4, <3>1, EdgesOfWrite
    <3>. QED
      BY <1>3, <3>2
  <2>2. Unrelaxed(i) \cap gone = gone
    BY <1>8
  <2>. HIDE DEF gone
  <2>3. Cardinality(Unrelaxed(i) \ gone) = Cardinality(Unrelaxed(i)) - Cardinality(gone)
    <3>1. Cardinality(Unrelaxed(i) \ gone)
            = Cardinality(Unrelaxed(i)) - Cardinality(Unrelaxed(i) \cap gone)
      BY <1>9, FS_Difference
    <3>. QED
      BY <2>2, <3>1
  <2>. QED
    BY <1>3, <1>8, <1>9, <1>10, <1>12, <2>1, <2>3
<1>. QED
  BY <1>11, <1>12

\* The counts stay exact, and the nodes whose last edge goes join the queue.
LEMMA RelaxExact ==
  ASSUME RGIInv, Relax
  PROVE  /\ KahnExact'
         /\ inDeg' \in Seq(Nat) /\ Len(inDeg') = Len(inDeg)
         /\ ready' \in Seq(Positions) /\ relax' \in Seq(Resources)
<1>. DEFINE left(i) == IF i = order[Len(order)] THEN inDeg[i]
                       ELSE inDeg[i] - Mentions(i, Head(relax))
            joins == {i \in Positions : inDeg[i] > 0 /\ left(i) <= 0}
<1>1. /\ call = "sort" /\ relax # <<>> /\ relax' = Tail(relax)
      /\ nodes' = nodes /\ order' = order
      /\ inDeg' = [i \in Positions |-> left(i)]
      /\ ready' = ready \o Ascending(joins)
  BY DEF Relax, graphVars
<1>2. /\ nodes \in Seq(NodeRecords) /\ inDeg \in Seq(Nat) /\ Len(inDeg) = Len(nodes)
      /\ order \in Seq(Positions) /\ ready \in Seq(Positions)
      /\ Range(order) \subseteq Positions /\ Range(ready) \subseteq Positions
      /\ Range(ready) = {i \in Positions \ Range(order) : inDeg[i] = 0}
      /\ Len(nodes) \in Nat /\ Positions = 1 .. Len(nodes) /\ Positions' = Positions
  BY <1>1, DrainFacts, NodeBounds DEF Positions
<1>3. \A i \in Positions :
        /\ nodes \in Seq(NodeRecords)
        /\ inDeg[i] = Cardinality(Unrelaxed(i)) /\ inDeg[i] \in Nat
        /\ inDeg[i] = 0 <=> Unrelaxed(i) = {}
  BY <1>1, <1>2, DrainFacts, UnrelaxedFinite
<1>4. \A i \in Positions :
        /\ inDeg'[i] = Cardinality(Unrelaxed(i)')
        /\ Unrelaxed(i)' \subseteq Unrelaxed(i)
        /\ inDeg'[i] = left(i)
  BY RelaxEdges
<1>5. \A i \in Positions : inDeg'[i] \in Nat /\ (inDeg[i] = 0 => inDeg'[i] = 0)
  <2>. SUFFICES ASSUME NEW i \in Positions
                PROVE  inDeg'[i] \in Nat /\ (inDeg[i] = 0 => inDeg'[i] = 0)
    OBVIOUS
  <2>1. IsFiniteSet(Unrelaxed(i)')
    BY <1>2, <1>4, UnrelaxedFinite, FS_Subset
  <2>2. inDeg'[i] \in Nat
    BY <1>4, <2>1, FS_CardinalityType
  <2>3. ASSUME inDeg[i] = 0 PROVE inDeg'[i] = 0
    <3>1. Unrelaxed(i)' = {}
      BY <1>3, <1>4, <2>3
    <3>. QED
      BY <1>4, <3>1, FS_EmptySet
  <2>. QED
    BY <2>2, <2>3
<1>. HIDE DEF left
<1>6. joins = {i \in Positions : inDeg[i] # 0 /\ inDeg'[i] = 0}
  <2>1. \A i \in Positions : inDeg[i] > 0 /\ left(i) <= 0 <=> inDeg[i] # 0 /\ inDeg'[i] = 0
    BY <1>3, <1>4, <1>5
  <2>. QED
    BY <2>1
<1>7. \A i \in Range(order) : inDeg[i] = 0
  BY <1>1, PoppedFree
<1>8. /\ joins \in SUBSET (1 .. Len(nodes))
      /\ joins \cap Range(order) = {} /\ joins \cap Range(ready) = {}
  BY <1>2, <1>6, <1>7
<1>. HIDE DEF joins
<1>9. /\ Ascending(joins) \in Seq(Positions) /\ IsInjective(Ascending(joins))
      /\ Range(Ascending(joins)) = joins
  BY <1>2, <1>8, AscendingProps
<1>10. ready' \in Seq(Positions) /\ Range(ready') = Range(ready) \cup joins
  BY <1>1, <1>2, <1>9, ConcatProperties, RangeConcatenation
<1>11. Range(ready') = {i \in Positions \ Range(order) : inDeg'[i] = 0}
  <2>1. ASSUME NEW i \in Positions \ Range(order)
        PROVE  i \in Range(ready) \/ i \in joins <=> inDeg'[i] = 0
    BY <1>2, <1>5, <1>6, <2>1
  <2>2. joins \subseteq Positions \ Range(order) /\ Range(ready) \subseteq Positions \ Range(order)
    BY <1>2, <1>8
  <2>. QED
    BY <1>10, <2>1, <2>2
<1>12. IsInjective(order \o ready')
  <2>1. IsInjective(order \o ready) /\ order \o ready \in Seq(Positions)
    BY <1>1, <1>2, ConcatProperties DEF RGIInv, KahnExact
  <2>2. Range(order \o ready) = Range(order) \cup Range(ready)
    BY <1>2, RangeConcatenation
  <2>3. Range(order \o ready) \cap Range(Ascending(joins)) = {}
    BY <1>8, <1>9, <2>2
  <2>4. IsInjective((order \o ready) \o Ascending(joins))
    BY <1>9, <2>1, <2>3, JoinInjective
  <2>5. (order \o ready) \o Ascending(joins) = order \o ready'
    <3>. DEFINE P == Positions
                a == Ascending(joins)
    <3>1. order \in Seq(P) /\ ready \in Seq(P) /\ a \in Seq(P) /\ ready' = ready \o a
      BY <1>1, <1>2, <1>9
    <3>. HIDE DEF P, a
    <3>2. (order \o ready) \o a = order \o (ready \o a)
      BY <3>1, ConcatAssociative
    <3>. QED
      BY <3>1, <3>2 DEF a
  <2>. QED
    BY <2>4, <2>5
<1>13. KahnExact'
  BY <1>1, <1>2, <1>4, <1>11, <1>12 DEF KahnExact
<1>14. inDeg' \in Seq(Nat) /\ Len(inDeg') = Len(inDeg)
  <2>1. inDeg' \in [1 .. Len(nodes) -> Nat]
    BY <1>1, <1>2, <1>5
  <2>. QED
    BY <1>2, <2>1
<1>15. relax' \in Seq(Resources)
  BY <1>1, NextWrite
<1>. QED
  BY <1>10, <1>13, <1>14, <1>15

\* The writes that remain are still the last ones of the node popped last.
LEMMA RelaxOrder == RGIInv /\ Relax => DrainInOrder'
<1>. SUFFICES ASSUME RGIInv, Relax PROVE DrainInOrder'
  OBVIOUS
<1>1. /\ call = "sort" /\ relax # <<>> /\ relax' = Tail(relax)
      /\ nodes' = nodes /\ order' = order /\ order # <<>>
  BY DEF Relax, graphVars, RGIInv, DrainInOrder
<1>2. Positions' = Positions /\ Deps(View)' = Deps(View)
  BY <1>1 DEF Positions, View
<1>3. /\ relax \in Seq(Resources) /\ Tail(relax) \in Seq(Resources)
      /\ Len(relax) \in Nat \ {0} /\ Len(Tail(relax)) = Len(relax) - 1
      /\ DOMAIN relax = 1 .. Len(relax) /\ DOMAIN Tail(relax) = 1 .. Len(relax) - 1
      /\ \A k \in 1 .. Len(relax) - 1 : Tail(relax)[k] = relax[k + 1]
  <2>1. relax \in Seq(Resources)
    BY DEF RGIInv, RGTypeOK
  <2>. QED
    BY <1>1, <2>1, HeadTailProperties, EmptySeq, LenProperties
<1>. DEFINE w == nodes[order[Len(order)]].writes
<1>4. Len(w) \in Nat
  BY <1>1, NextWrite, DrainFacts, NodeBounds
<1>5. /\ Len(relax) <= Len(w)
      /\ \A k \in DOMAIN relax : relax[k] = w[Len(w) - Len(relax) + k]
  BY <1>1 DEF RGIInv, DrainInOrder
<1>. HIDE DEF w
<1>6. Len(Tail(relax)) <= Len(w)
  BY <1>3, <1>4, <1>5
<1>7. ASSUME NEW k \in DOMAIN Tail(relax)
      PROVE  Tail(relax)[k] = w[Len(w) - Len(Tail(relax)) + k]
  <2>1. k + 1 \in DOMAIN relax /\ Tail(relax)[k] = relax[k + 1]
    BY <1>3
  <2>2. Len(w) - Len(relax) + (k + 1) = Len(w) - Len(Tail(relax)) + k
    BY <1>3, <1>4
  <2>. QED
    BY <1>5, <2>1, <2>2
<1>8. Len(inDeg') = Len(nodes')
  BY <1>1, RelaxExact, DrainFacts
<1>. QED
  BY <1>1, <1>2, <1>6, <1>7, <1>8 DEF DrainInOrder, RGIInv, w

-----------------------------------------------------------------------------
(* The strengthening is kept: what the kinds of step have in common.       *)

\* Before the build a graph that only grows keeps the strengthening.
LEMMA DeclaringSound ==
  ASSUME RGIInv, ~Installed, call # "sort", call' = "none", built' = built,
         sched' = sched, result' = result,
         Positions \subseteq Positions', Deps(View) \subseteq Deps(View)',
         RGTypeOK', PlanIInv', PlanOff', AsDeclared'
  PROVE  RGIInv'
<1>1. ~built /\ ~Installed'
  BY DEF Installed
<1>2. CallsInOrder' /\ DrainInOrder' /\ KahnExact' /\ SortedOnceInstalled'
  BY <1>1 DEF CallsInOrder, DrainInOrder, KahnExact, SortedOnceInstalled
<1>3. ScheduleCurrent'
  BY <1>1 DEF RGIInv, ScheduleCurrent
<1>4. CycleStays'
  <2>. SUFFICES ASSUME result = "cycle"
       PROVE  \E S \in (SUBSET Positions') \ {{}} :
                \A i \in S : \E p \in S : <<p, i>> \in Deps(View)'
    BY <1>1 DEF CycleStays
  <2>1. PICK S \in (SUBSET Positions) \ {{}} :
          \A i \in S : \E p \in S : <<p, i>> \in Deps(View)
    BY DEF RGIInv, CycleStays
  <2>. QED
    BY <2>1
<1>. QED
  BY <1>2, <1>3, <1>4 DEF RGIInv

\* So does a step of the drain that keeps the graph as it was declared.
LEMMA SortingSound ==
  ASSUME RGIInv, call = "sort", call' = "sort", built' = built,
         sched' = sched, result' = result, UNCHANGED planVars,
         Len(nodes') = Len(nodes),
         \A i \in Positions : /\ nodes'[i].id = nodes[i].id
                              /\ nodes'[i].reads = nodes[i].reads
                              /\ nodes'[i].writes = nodes[i].writes,
         \A S \in SUBSET Positions :
           /\ \A i \in S : \E p \in S : <<p, i>> \in Deps(View)
           /\ S \cap Range(order) = {}
           => S \cap Range(order') = {},
         RGTypeOK', DrainInOrder', KahnExact'
  PROVE  RGIInv'
<1>1. /\ ~built /\ ~Installed /\ ~Installed' /\ PlanOff
      /\ UNCHANGED <<transients, plan, unplaced, slots, cursor, stats>>
  BY DEF RGIInv, CallsInOrder, Installed, planVars
<1>2. Positions' = Positions /\ Deps(View)' = Deps(View)
  BY SameWiring, DrainFacts, NodeBounds
<1>3. PlanIInv'
  BY StutterSound DEF RGIInv
<1>4. CallsInOrder' /\ SortedOnceInstalled'
  BY <1>1 DEF CallsInOrder, SortedOnceInstalled, PlanOff
<1>5. ScheduleCurrent'
  BY <1>1 DEF RGIInv, ScheduleCurrent
<1>6. AsDeclared'
  BY <1>1, <1>2 DEF RGIInv, AsDeclared
<1>7. CycleStays'
  <2>. SUFFICES ASSUME result = "cycle"
       PROVE  \E S \in (SUBSET Positions) \ {{}} :
                /\ \A i \in S : \E p \in S : <<p, i>> \in Deps(View)
                /\ S \cap Range(order') = {}
    BY <1>1, <1>2 DEF CycleStays
  <2>1. PICK S \in (SUBSET Positions) \ {{}} :
          /\ \A i \in S : \E p \in S : <<p, i>> \in Deps(View)
          /\ S \cap Range(order) = {}
    BY DEF RGIInv, CycleStays
  <2>2. S \cap Range(order') = {}
    BY <2>1
  <2>. QED
    BY <2>1, <2>2
<1>. QED
  BY <1>3, <1>4, <1>5, <1>6, <1>7 DEF RGIInv

\* And a step that keeps the vector and the lifetimes of a sorted graph.
LEMMA InstalledSound ==
  ASSUME RGIInv, Installed, Installed', call' # "sort", nodes' = nodes,
         result' \in {result, "ok"},
         Len(transients') = Len(transients),
         \A t \in 1 .. Len(transients) : /\ transients'[t].first = transients[t].first
                                         /\ transients'[t].last = transients[t].last,
         RGTypeOK', PlanIInv', CallsInOrder', ScheduleCurrent'
  PROVE  RGIInv'
<1>1. /\ Positions' = Positions /\ View' = View /\ \A t : Users(t)' = Users(t)
      /\ Deps(View)' = Deps(View)
  BY DEF Positions, View, Users
<1>2. result' # "cycle"
  BY DEF RGIInv, CycleStays
<1>3. DrainInOrder' /\ KahnExact' /\ CycleStays'
  BY <1>2 DEF DrainInOrder, KahnExact, CycleStays
<1>4. AsDeclared'
  BY <1>1 DEF RGIInv, AsDeclared
<1>5. SortedOnceInstalled'
  BY <1>1 DEF RGIInv, SortedOnceInstalled, Sorted
<1>. QED
  BY <1>3, <1>4, <1>5 DEF RGIInv

\* Nothing disturbs the strengthening if nothing changes.
LEMMA GraphStutterSound == RGIInv /\ UNCHANGED rgVars => RGIInv'
<1>. SUFFICES ASSUME RGIInv, UNCHANGED rgVars PROVE RGIInv'
  OBVIOUS
<1>1. /\ UNCHANGED <<nodes, aliasing, built, sched, handle, call, device, result>>
      /\ UNCHANGED <<inDeg, ready, order, relax>>
      /\ UNCHANGED planVars /\ UNCHANGED <<transients, plan, unplaced, slots, cursor, stats>>
  BY DEF rgVars, graphVars, sortVars, planVars
<1>2. PlanIInv'
  BY <1>1, StutterSound DEF RGIInv
<1>3. /\ Positions' = Positions /\ View' = View /\ Deps(View)' = Deps(View)
      /\ Installed' = Installed
      /\ \A t : Users(t)' = Users(t)
      /\ \A i \in Positions : Unrelaxed(i)' = Unrelaxed(i)
  BY <1>1 DEF Positions, View, Installed, Users, Unrelaxed, EdgesInto, Relaxed
<1>4. RGTypeOK' /\ CallsInOrder' /\ AsDeclared'
  BY <1>1, <1>2, <1>3 DEF RGIInv, PlanIInv, RGTypeOK, CallsInOrder, AsDeclared, PlanOff
<1>5. DrainInOrder' /\ KahnExact'
  BY <1>1, <1>3 DEF RGIInv, DrainInOrder, KahnExact
<1>6. SortedOnceInstalled' /\ CycleStays'
  BY <1>1, <1>3 DEF RGIInv, SortedOnceInstalled, CycleStays, Sorted
<1>7. ScheduleCurrent'
  BY <1>1, <1>3 DEF RGIInv, ScheduleCurrent, BatchKinds, FenceEdges
<1>. QED
  BY <1>2, <1>4, <1>5, <1>6, <1>7 DEF RGIInv

\* InitSound, one step later.
LEMMA InitSoundNext == PlanInit' => PlanIInv'
  BY InitSound, PTL

\* Initially nothing is declared.
LEMMA GraphInitSound == RGInit => RGIInv
<1>. SUFFICES ASSUME RGInit PROVE RGIInv
  OBVIOUS
<1>1. /\ nodes = <<>> /\ aliasing = FALSE /\ built = FALSE
      /\ sched = {} /\ handle = <<>>
      /\ call = "none" /\ device = "null" /\ result = "none"
      /\ inDeg = <<>> /\ ready = <<>> /\ order = <<>> /\ relax = <<>>
      /\ transients = <<>> /\ PlanOff
  BY DEF RGInit, NoSchedule
<1>2. PlanIInv
  <2>1. PlanInit
    BY <1>1 DEF PlanInit, LifetimesSet
  <2>. QED
    BY <2>1, InitSound
<1>3. RGTypeOK
  <2>1. aliasing \in BOOLEAN /\ built \in BOOLEAN
    BY <1>1, Zenon
  <2>2. handle \in [1 .. Len(transients) -> HandleStates]
    BY <1>1
  <2>3. PlanTypeOK
    BY <1>2 DEF PlanIInv
  <2>4. /\ nodes \in Seq(NodeRecords) /\ inDeg \in Seq(Nat) /\ relax \in Seq(Resources)
        /\ ready \in Seq(Positions) /\ order \in Seq(Positions)
    BY <1>1, EmptySeq
  <2>. QED
    BY <1>1, <2>1, <2>2, <2>3, <2>4 DEF RGTypeOK
<1>4. Positions = {}
  BY <1>1 DEF Positions
<1>5. CallsInOrder /\ AsDeclared
  BY <1>1, <1>4 DEF CallsInOrder, AsDeclared
<1>6. DrainInOrder /\ KahnExact /\ SortedOnceInstalled /\ CycleStays /\ ScheduleCurrent
  BY <1>1 DEF DrainInOrder, KahnExact, SortedOnceInstalled, CycleStays, ScheduleCurrent, Installed
<1>. QED
  BY <1>2, <1>3, <1>5, <1>6 DEF RGIInv

-----------------------------------------------------------------------------
(* Declaring the graph.                                                    *)

\* Before the build a call that leaves the transients alone leaves the planner.
LEMMA PlannerAtRest ==
  ASSUME RGIInv, Declaring, UNCHANGED planVars
  PROVE  ~Installed /\ PlanIInv' /\ PlanOff' /\ PlanTypeOK' /\ Len(transients') = Len(transients)
<1>1. ~Installed /\ PlanOff
  BY DEF Declaring, Installed, RGIInv, CallsInOrder
<1>2. PlanIInv'
  BY StutterSound DEF RGIInv
<1>. QED
  BY <1>1, <1>2 DEF PlanOff, planVars, PlanIInv

\* A new node has no dependencies yet.
LEMMA AddNodeSound == ASSUME RGIInv, NEW k \in AddedKinds, AddNode(k) PROVE RGIInv'
<1>. DEFINE new == [id |-> Len(nodes), kind |-> k, queue |-> DefaultQueue(k),
                    reads |-> <<>>, writes |-> <<>>, sortIdx |-> -1]
<1>1. /\ Declaring /\ nodes' = Append(nodes, new) /\ UNCHANGED planVars
      /\ UNCHANGED <<aliasing, built, sched, handle, call, device, result>>
      /\ UNCHANGED <<inDeg, ready, order, relax>>
  BY DEF AddNode, sortVars
<1>2. nodes \in Seq(NodeRecords) /\ Len(nodes) \in Nat
  BY NodeBounds DEF RGIInv, RGTypeOK
<1>3. new \in NodeRecords
  <2>1. k \in NodeKinds /\ DefaultQueue(k) \in QueueKinds
    BY GraphCallsAssumption DEF DefaultQueue, QueueKinds
  <2>2. <<>> \in Seq(Resources)
    BY EmptySeq
  <2>. QED
    BY <1>2, <2>1, <2>2 DEF NodeRecords
<1>4. new.writes = <<>> /\ new.id = Len(nodes)
  OBVIOUS
<1>. HIDE DEF new
<1>5. /\ nodes' \in Seq(NodeRecords) /\ Len(nodes') = Len(nodes) + 1
      /\ \A i \in 1 .. Len(nodes) : nodes'[i] = nodes[i]
      /\ nodes'[Len(nodes) + 1] = new
  BY <1>1, <1>2, <1>3, AppendProperties
<1>6. /\ Positions = 1 .. Len(nodes) /\ Positions' = 1 .. Len(nodes) + 1
      /\ Positions \subseteq Positions'
  BY <1>2, <1>5 DEF Positions
<1>7. Deps(View) \subseteq Deps(View)'
  <2>. SUFFICES ASSUME NEW e \in Deps(AsSets(nodes)) PROVE e \in Deps(AsSets(nodes'))
    BY DEF View
  <2>1. e[1] \in 1 .. Len(nodes) /\ e[2] \in 1 .. Len(nodes) /\ e = <<e[1], e[2]>>
    BY <1>2, DepsTyped
  <2>2. <<e[1], e[2]>> \in Deps(AsSets(nodes))
    BY <2>1
  <2>3. e[1] # e[2] /\ Range(nodes[e[1]].writes) \cap Range(nodes[e[2]].reads) # {}
    BY <1>2, <2>1, <2>2, DepsOf
  <2>4. /\ Len(nodes') \in Nat /\ e[1] \in 1 .. Len(nodes') /\ e[2] \in 1 .. Len(nodes')
        /\ nodes'[e[1]] = nodes[e[1]] /\ nodes'[e[2]] = nodes[e[2]]
    BY <1>2, <1>5, <2>1
  <2>5. <<e[1], e[2]>> \in Deps(AsSets(nodes'))
    BY <2>3, <2>4, DepsOf
  <2>. QED
    BY <2>1, <2>5
<1>8. /\ ~Installed /\ PlanIInv' /\ PlanOff' /\ PlanTypeOK'
      /\ Len(transients') = Len(transients)
  BY <1>1, PlannerAtRest
<1>9. RGTypeOK'
  <2>1. ready \in Seq(Positions') /\ order \in Seq(Positions')
    BY <1>6, SeqMonotonic DEF RGIInv, RGTypeOK
  <2>. QED
    BY <1>1, <1>5, <1>8, <2>1 DEF RGIInv, RGTypeOK
<1>10. AsDeclared'
  <2>1. \A i \in Positions' : Len(nodes'[i].writes) <= MaxWrites /\ nodes'[i].id = i - 1
    <3>. SUFFICES ASSUME NEW i \in Positions'
                  PROVE  Len(nodes'[i].writes) <= MaxWrites /\ nodes'[i].id = i - 1
      OBVIOUS
    <3>1. CASE i \in Positions
      BY <1>5, <1>6, <1>8, <3>1 DEF RGIInv, AsDeclared
    <3>2. CASE i = Len(nodes) + 1
      <4>1. Len(nodes'[i].writes) = 0 /\ nodes'[i].id = Len(nodes)
        BY <1>4, <1>5, <3>2
      <4>2. MaxWrites \in Nat
        BY GraphCallsAssumption
      <4>. QED
        BY <1>2, <3>2, <4>1, <4>2
    <3>. QED
      BY <1>2, <1>6, <3>1, <3>2
  <2>. QED
    BY <1>1, <1>8, <2>1 DEF RGIInv, AsDeclared, planVars
<1>. QED
  BY <1>1, <1>6, <1>7, <1>8, <1>9, <1>10, DeclaringSound DEF Declaring

\* What a declaration does to node i: its lists only grow.
LEMMA DeclareEffect ==
  ASSUME RGIInv, NEW i \in Positions, Declare(i)
  PROVE  /\ nodes' \in Seq(NodeRecords) /\ Len(nodes') = Len(nodes)
         /\ \A j \in Positions :
              /\ nodes'[j].id = nodes[j].id
              /\ Range(nodes[j].reads) \subseteq Range(nodes'[j].reads)
              /\ Range(nodes[j].writes) \subseteq Range(nodes'[j].writes)
              /\ Len(nodes'[j].writes) <= MaxWrites
<1>. DEFINE n == nodes[i]
<1>1. nodes \in Seq(NodeRecords) /\ n \in NodeRecords /\ i \in 1 .. Len(nodes)
  BY NodeBounds DEF RGIInv, RGTypeOK, Positions
<1>2. PICK m \in NodeRecords :
        /\ nodes' = [nodes EXCEPT ![i] = m]
        /\ m.id = n.id
        /\ Range(n.reads) \subseteq Range(m.reads)
        /\ Range(n.writes) \subseteq Range(m.writes)
        /\ Len(m.writes) <= MaxWrites
  <2>1. /\ n.reads \in Seq(Resources) /\ n.writes \in Seq(Resources)
        /\ Len(n.writes) \in Nat /\ Len(n.writes) <= MaxWrites /\ MaxWrites \in Nat
    BY <1>1, NodeBounds, GraphCallsAssumption DEF RGIInv, AsDeclared
  <2>2. ASSUME NEW s \in Seq(Resources), NEW r \in Resources
        PROVE  /\ Append(s, r) \in Seq(Resources) /\ Len(Append(s, r)) = Len(s) + 1
               /\ Range(s) \subseteq Range(Append(s, r))
    <3>1. /\ Append(s, r) \in Seq(Resources) /\ Len(Append(s, r)) = Len(s) + 1
          /\ \A k \in 1 .. Len(s) : Append(s, r)[k] = s[k]
          /\ DOMAIN s = 1 .. Len(s) /\ Len(s) \in Nat
      BY AppendProperties, LenProperties
    <3>2. DOMAIN Append(s, r) = 1 .. Len(s) + 1
      BY <3>1, LenProperties
    <3>3. \A k \in DOMAIN s : k \in DOMAIN Append(s, r)
      BY <3>1, <3>2
    <3>. QED
      BY <3>1, <3>3 DEF Range
  <2>3. CASE \E r \in Resources : nodes' = [nodes EXCEPT ![i].reads = Append(@, r)]
    <3>1. PICK r \in Resources : nodes' = [nodes EXCEPT ![i].reads = Append(@, r)]
      BY <2>3
    <3>. DEFINE m == [n EXCEPT !.reads = Append(n.reads, r)]
    <3>2. nodes' = [nodes EXCEPT ![i] = m]
      BY <3>1
    <3>3. /\ Append(n.reads, r) \in Seq(Resources)
          /\ Range(n.reads) \subseteq Range(Append(n.reads, r))
      BY <2>1, <2>2
    <3>4. /\ m \in NodeRecords /\ m.id = n.id /\ m.reads = Append(n.reads, r)
          /\ m.writes = n.writes
      BY <1>1, <3>3 DEF NodeRecords
    <3>. HIDE DEF m, n
    <3>. QED
      BY <2>1, <3>2, <3>3, <3>4
  <2>4. CASE \E r \in Resources :
               /\ Len(nodes[i].writes) < MaxWrites
               /\ nodes' = [nodes EXCEPT ![i].writes = Append(@, r)]
    <3>1. PICK r \in Resources :
               /\ Len(nodes[i].writes) < MaxWrites
               /\ nodes' = [nodes EXCEPT ![i].writes = Append(@, r)]
      BY <2>4
    <3>. DEFINE m == [n EXCEPT !.writes = Append(n.writes, r)]
    <3>2. nodes' = [nodes EXCEPT ![i] = m]
      BY <3>1
    <3>3. /\ Append(n.writes, r) \in Seq(Resources)
          /\ Range(n.writes) \subseteq Range(Append(n.writes, r))
          /\ Len(Append(n.writes, r)) = Len(n.writes) + 1
      BY <2>1, <2>2
    <3>4. /\ m \in NodeRecords /\ m.id = n.id /\ m.writes = Append(n.writes, r)
          /\ m.reads = n.reads
      BY <1>1, <3>3 DEF NodeRecords
    <3>5. Len(m.writes) <= MaxWrites
      BY <2>1, <3>1, <3>3, <3>4
    <3>. HIDE DEF m, n
    <3>. QED
      BY <2>1, <3>2, <3>3, <3>4, <3>5
  <2>5. CASE \E q \in QueueCalls : nodes' = [nodes EXCEPT ![i].queue = q]
    <3>1. PICK q \in QueueCalls : nodes' = [nodes EXCEPT ![i].queue = q]
      BY <2>5
    <3>. DEFINE m == [n EXCEPT !.queue = q]
    <3>2. nodes' = [nodes EXCEPT ![i] = m]
      BY <3>1
    <3>3. /\ m \in NodeRecords /\ m.id = n.id /\ m.writes = n.writes
          /\ m.reads = n.reads
      BY <1>1, GraphCallsAssumption DEF NodeRecords
    <3>. HIDE DEF m, n
    <3>. QED
      BY <2>1, <3>2, <3>3
  <2>. QED
    BY <2>3, <2>4, <2>5 DEF Declare
<1>3. /\ nodes' \in Seq(NodeRecords) /\ Len(nodes') = Len(nodes)
      /\ \A j \in 1 .. Len(nodes) : nodes'[j] = IF j = i THEN m ELSE nodes[j]
  BY <1>1, <1>2, ExceptSeq
<1>4. \A j \in Positions : Len(nodes[j].writes) <= MaxWrites
  BY DEF RGIInv, AsDeclared
<1>. QED
  BY <1>2, <1>3, <1>4 DEF Positions

\* Declare keeps the strengthening.
LEMMA DeclareSound == ASSUME RGIInv, NEW i \in Positions, Declare(i) PROVE RGIInv'
<1>1. /\ Declaring /\ UNCHANGED planVars
      /\ UNCHANGED <<aliasing, built, sched, handle, call, device, result>>
      /\ UNCHANGED <<inDeg, ready, order, relax>>
  BY DEF Declare, sortVars
<1>2. Len(nodes) \in Nat /\ Len(nodes') = Len(nodes) /\ Positions' = Positions
  BY DeclareEffect, NodeBounds DEF RGIInv, RGTypeOK, Positions
<1>3. Deps(View) \subseteq Deps(View)'
  <2>. SUFFICES ASSUME NEW e \in Deps(AsSets(nodes)) PROVE e \in Deps(AsSets(nodes'))
    BY DEF View
  <2>1. e[1] \in 1 .. Len(nodes) /\ e[2] \in 1 .. Len(nodes) /\ e = <<e[1], e[2]>>
    BY <1>2, DepsTyped
  <2>2. <<e[1], e[2]>> \in Deps(AsSets(nodes))
    BY <2>1
  <2>3. e[1] # e[2] /\ Range(nodes[e[1]].writes) \cap Range(nodes[e[2]].reads) # {}
    BY <1>2, <2>1, <2>2, DepsOf
  <2>4. Range(nodes'[e[1]].writes) \cap Range(nodes'[e[2]].reads) # {}
    BY <2>1, <2>3, DeclareEffect DEF Positions
  <2>5. <<e[1], e[2]>> \in Deps(AsSets(nodes'))
    BY <1>2, <2>1, <2>3, <2>4, DepsOf
  <2>. QED
    BY <2>1, <2>5
<1>4. /\ ~Installed /\ PlanIInv' /\ PlanOff' /\ PlanTypeOK'
      /\ Len(transients') = Len(transients)
  BY <1>1, PlannerAtRest
<1>5. RGTypeOK'
  BY <1>1, <1>2, <1>4, DeclareEffect DEF RGIInv, RGTypeOK
<1>6. AsDeclared'
  BY <1>1, <1>2, <1>4, DeclareEffect DEF RGIInv, AsDeclared, planVars
<1>. QED
  BY <1>1, <1>2, <1>3, <1>4, <1>5, <1>6, DeclaringSound DEF Declaring

\* Steps of the client that touch neither the vector nor the planner's numbers.
LEMMA AddTransientSound == ASSUME RGIInv, NEW s \in Shapes, AddTransient(s) PROVE RGIInv'
<1>. DEFINE new == [kind |-> s.kind, w |-> s.w, h |-> s.h,
                    first |-> Unused, last |-> Unused, offset |-> 0]
<1>1. /\ Declaring /\ transients' = Append(transients, new) /\ handle' = Append(handle, "label")
      /\ UNCHANGED <<nodes, aliasing, built, sched, call, device, result>>
      /\ UNCHANGED <<inDeg, ready, order, relax>>
      /\ UNCHANGED <<plan, unplaced, slots, cursor, stats>>
  BY DEF AddTransient, sortVars
<1>2. /\ transients \in Seq(Transients) /\ Len(transients) \in Nat
      /\ handle \in [1 .. Len(transients) -> HandleStates] /\ LifetimesSet
  BY DEF RGIInv, RGTypeOK, PlanTypeOK, PlanIInv
<1>3. new \in Transients /\ new.first = Unused /\ new.last = Unused
  <2>1. s.kind \in Kinds /\ s.w \in Nat /\ s.h \in Nat
    BY GraphCallsAssumption
  <2>. QED
    BY <2>1 DEF Transients
<1>. HIDE DEF new
<1>4. /\ transients' \in Seq(Transients) /\ Len(transients') = Len(transients) + 1
      /\ \A t \in 1 .. Len(transients) : transients'[t] = transients[t]
      /\ transients'[Len(transients) + 1] = new
  BY <1>1, <1>2, <1>3, AppendProperties
<1>5. \A t \in 1 .. Len(transients') : t \in 1 .. Len(transients) \/ t = Len(transients) + 1
  BY <1>2, <1>4
<1>6. ~Installed /\ PlanOff'
  BY <1>1 DEF Declaring, Installed, RGIInv, CallsInOrder, PlanOff
<1>7. PlanIInv'
  <2>1. LifetimesSet'
    BY <1>2, <1>3, <1>4, <1>5 DEF LifetimesSet
  <2>. QED
    BY <1>4, <1>6, <2>1, InitSoundNext DEF PlanInit
<1>8. RGTypeOK'
  <2>1. handle' \in [1 .. Len(transients') -> HandleStates]
    <3>1. handle \in Seq(HandleStates) /\ Len(handle) = Len(transients)
      BY <1>2
    <3>2. "label" \in HandleStates
      BY DEF HandleStates
    <3>3. handle' \in Seq(HandleStates) /\ Len(handle') = Len(handle) + 1
      BY <1>1, <3>1, <3>2, AppendProperties
    <3>. QED
      BY <1>4, <3>1, <3>3, LenProperties
  <2>2. PlanTypeOK' /\ Positions' = Positions
    BY <1>1, <1>7 DEF PlanIInv, Positions
  <2>. QED
    BY <1>1, <2>1, <2>2 DEF RGIInv, RGTypeOK
<1>9. AsDeclared'
  <2>1. \A t \in 1 .. Len(transients') : transients'[t].first = Unused /\ transients'[t].last = Unused
    BY <1>3, <1>4, <1>5, <1>6 DEF RGIInv, AsDeclared
  <2>. QED
    BY <1>1, <1>6, <2>1 DEF RGIInv, AsDeclared, Positions
<1>10. Positions \subseteq Positions' /\ Deps(View) \subseteq Deps(View)'
  BY <1>1 DEF Positions, View
<1>. QED
  BY <1>1, <1>6, <1>7, <1>8, <1>9, <1>10, DeclaringSound DEF Declaring

\* SetAliasing keeps the strengthening.
LEMMA SetAliasingSound == RGIInv /\ SetAliasing => RGIInv'
<1>. SUFFICES ASSUME RGIInv, SetAliasing PROVE RGIInv'
  OBVIOUS
<1>1. /\ Declaring /\ UNCHANGED planVars /\ aliasing' = TRUE
      /\ UNCHANGED <<nodes, built, sched, handle, call, device, result>>
      /\ UNCHANGED <<inDeg, ready, order, relax>>
  BY DEF SetAliasing, sortVars
<1>2. /\ ~Installed /\ PlanIInv' /\ PlanOff' /\ PlanTypeOK'
      /\ Len(transients') = Len(transients) /\ transients' = transients
  BY <1>1, PlannerAtRest DEF planVars
<1>3. Positions' = Positions /\ Deps(View)' = Deps(View)
  BY <1>1 DEF Positions, View
<1>4. aliasing' \in BOOLEAN
  BY <1>1, Zenon
<1>5. RGTypeOK'
  BY <1>1, <1>2, <1>3, <1>4 DEF RGIInv, RGTypeOK
<1>6. AsDeclared'
  BY <1>1, <1>2, <1>3 DEF RGIInv, AsDeclared
<1>. QED
  BY <1>1, <1>2, <1>3, <1>5, <1>6, DeclaringSound DEF Declaring

-----------------------------------------------------------------------------
(* rg_build.                                                               *)

\* A graph without nodes is built at once.
LEMMA BuildEmptySound ==
  ASSUME RGIInv, NEW d \in Devices, BuildBegin(d), nodes = <<>> PROVE RGIInv'
<1>1. /\ Declaring /\ UNCHANGED planVars /\ built' = TRUE /\ result' = "ok"
      /\ UNCHANGED <<nodes, aliasing, sched, handle, call, device>>
      /\ UNCHANGED <<inDeg, ready, order, relax>>
  BY DEF BuildBegin, sortVars
<1>2. /\ ~Installed /\ PlanIInv' /\ PlanOff' /\ PlanTypeOK'
      /\ Len(transients') = Len(transients)
  BY <1>1, PlannerAtRest
<1>3. Positions = {} /\ Positions' = {} /\ Len(nodes) = 0
  BY <1>1 DEF Positions
<1>4. RGTypeOK'
  <2>1. built' \in BOOLEAN
    BY <1>1, Zenon
  <2>. QED
    BY <1>1, <1>2, <1>3, <2>1 DEF RGIInv, RGTypeOK
<1>5. call' = "none" /\ call = "none" /\ ~built
  BY <1>1 DEF Declaring
<1>6. CallsInOrder' /\ DrainInOrder' /\ KahnExact' /\ CycleStays'
  BY <1>1, <1>5 DEF CallsInOrder, DrainInOrder, KahnExact, CycleStays
<1>7. ScheduleCurrent'
  BY <1>1, <1>5 DEF RGIInv, ScheduleCurrent
<1>8. AsDeclared'
  BY <1>1, <1>3 DEF AsDeclared, Installed
<1>9. SortedOnceInstalled'
  <2>1. Deps(View)' = {}
    <3>1. \A e \in Deps(AsSets(nodes')) : e[1] \in 1 .. Len(nodes')
      BY <1>1, <1>3, DepsTyped
    <3>2. 1 .. Len(nodes') = {}
      BY <1>1, <1>3
    <3>. QED
      BY <3>1, <3>2 DEF View
  <2>2. \A t : Users(t)' = {}
    BY <1>3 DEF Users
  <2>3. {nodes'[i].id : i \in Positions'} = 0 .. Len(nodes') - 1
    BY <1>1, <1>3
  <2>. QED
    BY <1>3, <2>1, <2>2, <2>3 DEF SortedOnceInstalled, Sorted
<1>. QED
  BY <1>2, <1>4, <1>6, <1>7, <1>8, <1>9 DEF RGIInv

\* The first counts are the in-degrees, the first queue the nodes without any.
LEMMA BuildSortSound ==
  ASSUME RGIInv, NEW d \in Devices, BuildBegin(d), nodes # <<>> PROVE RGIInv'
<1>. DEFINE seeds == {i \in Positions : EdgesInto(i) = {}}
<1>1. /\ Declaring /\ UNCHANGED planVars /\ call' = "sort" /\ device' = d
      /\ nodes' = [i \in Positions |-> [nodes[i] EXCEPT !.sortIdx = -1]]
      /\ inDeg' = [i \in Positions |-> Cardinality(EdgesInto(i))]
      /\ ready' = Ascending(seeds) /\ order' = <<>> /\ relax' = <<>>
      /\ UNCHANGED <<aliasing, built, sched, handle, result>>
  BY DEF BuildBegin
<1>2. /\ ~Installed /\ PlanIInv' /\ PlanOff' /\ PlanTypeOK'
      /\ Len(transients') = Len(transients) /\ transients' = transients
  BY <1>1, PlannerAtRest DEF planVars
<1>3. nodes \in Seq(NodeRecords) /\ Len(nodes) \in Nat /\ Positions = 1 .. Len(nodes)
  BY NodeBounds DEF RGIInv, RGTypeOK, Positions
<1>4. \A i \in Positions :
        /\ nodes'[i] \in NodeRecords
        /\ nodes'[i].id = nodes[i].id
        /\ nodes'[i].reads = nodes[i].reads /\ nodes'[i].writes = nodes[i].writes
  <2>. SUFFICES ASSUME NEW i \in Positions
       PROVE  /\ nodes'[i] \in NodeRecords
              /\ nodes'[i].id = nodes[i].id
              /\ nodes'[i].reads = nodes[i].reads /\ nodes'[i].writes = nodes[i].writes
    OBVIOUS
  <2>1. nodes[i] \in NodeRecords
    BY <1>3
  <2>2. nodes'[i] = [nodes[i] EXCEPT !.sortIdx = -1]
    BY <1>1
  <2>. QED
    BY <2>1, <2>2 DEF NodeRecords
<1>5. Len(nodes') = Len(nodes) /\ nodes' \in Seq(NodeRecords)
  <2>1. nodes' \in [1 .. Len(nodes) -> NodeRecords]
    BY <1>1, <1>3, <1>4
  <2>. QED
    BY <1>3, <2>1
<1>6. /\ Positions' = Positions /\ Deps(View)' = Deps(View)
      /\ \A i \in Positions : EdgesInto(i)' = EdgesInto(i)
  BY <1>3, <1>4, <1>5, SameWiring
<1>7. \A i \in Positions :
        /\ Cardinality(EdgesInto(i)) \in Nat
        /\ Cardinality(EdgesInto(i)) = 0 <=> EdgesInto(i) = {}
  BY <1>3, EdgesFinite, FS_CardinalityType, FS_EmptySet
<1>8. inDeg' \in Seq(Nat) /\ Len(inDeg') = Len(nodes')
  <2>1. inDeg' \in [1 .. Len(nodes) -> Nat]
    BY <1>1, <1>3, <1>7
  <2>. QED
    BY <1>3, <1>5, <2>1
<1>9. seeds \in SUBSET (1 .. Len(nodes))
  BY <1>3
<1>10. /\ ready' \in Seq(Positions) /\ IsInjective(ready')
       /\ Range(ready') = seeds
  <2>. HIDE DEF seeds
  <2>. QED
    BY <1>1, <1>3, <1>9, AscendingProps
<1>11. RGTypeOK'
  <2>1. order' \in Seq(Positions) /\ relax' \in Seq(Resources)
    BY <1>1, EmptySeq
  <2>. QED
    BY <1>1, <1>2, <1>5, <1>6, <1>8, <1>10, <2>1 DEF RGIInv, RGTypeOK
<1>12. Range(order') = {}
  BY <1>1 DEF Range
<1>13. KahnExact'
  <2>1. \A i \in Positions : Unrelaxed(i)' = EdgesInto(i)
    BY <1>6, <1>12 DEF Unrelaxed, Relaxed
  <2>2. \A i \in Positions : inDeg'[i] = Cardinality(Unrelaxed(i)')
    BY <1>1, <2>1
  <2>3. Range(ready') = {i \in Positions \ Range(order') : inDeg'[i] = 0}
    BY <1>1, <1>7, <1>10, <1>12
  <2>4. IsInjective(order' \o ready')
    BY <1>1, <1>10, ConcatEmptySeq
  <2>. QED
    BY <1>6, <2>2, <2>3, <2>4 DEF KahnExact
<1>14. DrainInOrder'
  BY <1>1, <1>8 DEF DrainInOrder
<1>15. ~built /\ built' = built /\ ~Installed'
  BY <1>1 DEF Declaring, Installed
<1>16. CallsInOrder' /\ SortedOnceInstalled'
  BY <1>1, <1>2, <1>15 DEF CallsInOrder, SortedOnceInstalled
<1>17. ScheduleCurrent'
  BY <1>1, <1>15 DEF RGIInv, ScheduleCurrent
<1>18. AsDeclared'
  BY <1>2, <1>4, <1>6 DEF RGIInv, AsDeclared
<1>19. CycleStays'
  BY <1>1, <1>6, <1>12, <1>15 DEF RGIInv, CycleStays
<1>. QED
  BY <1>2, <1>11, <1>13, <1>14, <1>16, <1>17, <1>18, <1>19 DEF RGIInv

\* Pop keeps the strengthening.
LEMMA PopSound == RGIInv /\ Pop => RGIInv'
<1>. SUFFICES ASSUME RGIInv, Pop PROVE RGIInv'
  OBVIOUS
<1>1. /\ call = "sort" /\ relax = <<>> /\ relax' = nodes[Head(ready)].writes /\ inDeg' = inDeg
      /\ UNCHANGED <<aliasing, built, sched, handle, call, device, result>>
      /\ UNCHANGED planVars /\ transients' = transients
  BY DEF Pop, planVars
<1>2. nodes \in Seq(NodeRecords) /\ Len(nodes) \in Nat
  BY <1>1, DrainFacts, NodeBounds
<1>3. ASSUME NEW S \in SUBSET Positions,
             \A i \in S : \E p \in S : <<p, i>> \in Deps(View),
             S \cap Range(order) = {}
      PROVE  S \cap Range(order') = {}
  <2>1. ASSUME Head(ready) \in S PROVE FALSE
    <3>1. PICK p \in S : <<p, Head(ready)>> \in Deps(View)
      BY <1>3, <2>1
    <3>2. Head(ready) \in Positions /\ inDeg[Head(ready)] = 0
      BY <1>1, PopEffect, DrainFacts
    <3>3. Unrelaxed(Head(ready)) = {}
      BY <1>1, <3>2, DrainFacts, UnrelaxedFinite
    <3>4. p \in Positions /\ Len(nodes[p].writes) <= MaxWrites
      BY DEF RGIInv, AsDeclared
    <3>5. PICK e \in EdgesInto(Head(ready)) : e[1] = p
      BY <1>2, <3>1, <3>2, <3>4, DepHasEdge
    <3>6. p \in Range(order)
      BY <1>1, <1>2, <3>2, <3>3, <3>5, RelaxedAtRest DEF Unrelaxed
    <3>. QED
      BY <1>3, <3>6
  <2>. QED
    BY <1>3, <2>1, PopEffect
<1>4. PlanTypeOK' /\ Positions' = Positions
  BY <1>1, <1>2, StutterSound, PopEffect DEF RGIInv, PlanIInv, Positions
<1>5. RGTypeOK'
  <2>1. relax' \in Seq(Resources)
    BY <1>1, <1>2, PopEffect, NodeBounds
  <2>. QED
    BY <1>1, <1>4, <2>1, PopEffect DEF RGIInv, RGTypeOK
<1>. QED
  BY <1>1, <1>3, <1>5, PopEffect, PopExact, PopOrder, SortingSound

\* Relax keeps the strengthening.
LEMMA RelaxSound == RGIInv /\ Relax => RGIInv'
<1>. SUFFICES ASSUME RGIInv, Relax PROVE RGIInv'
  OBVIOUS
<1>1. /\ call = "sort" /\ order' = order /\ nodes' = nodes
      /\ UNCHANGED <<aliasing, built, sched, handle, call, device, result>>
      /\ UNCHANGED planVars /\ transients' = transients
  BY DEF Relax, planVars, graphVars
<1>2. PlanTypeOK' /\ Positions' = Positions
  BY <1>1, StutterSound DEF RGIInv, PlanIInv, Positions
<1>3. RGTypeOK'
  BY <1>1, <1>2, RelaxExact DEF RGIInv, RGTypeOK
<1>. QED
  BY <1>1, <1>3, RelaxExact, RelaxOrder, SortingSound

\* What was not drained depends on itself.
LEMMA RejectSound == RGIInv /\ Reject => RGIInv'
<1>. SUFFICES ASSUME RGIInv, Reject PROVE RGIInv'
  OBVIOUS
<1>1. /\ call = "sort" /\ relax = <<>> /\ ready = <<>> /\ Len(order) < Len(nodes)
      /\ call' = "none" /\ result' = "cycle"
      /\ UNCHANGED <<nodes, aliasing, built, sched, handle, device>>
      /\ UNCHANGED <<inDeg, ready, order, relax>>
      /\ UNCHANGED planVars /\ transients' = transients
  BY DEF Reject, Drained, sortVars, planVars
<1>2. /\ ~built /\ ~Installed /\ ~Installed' /\ PlanOff'
  BY <1>1 DEF RGIInv, CallsInOrder, Installed, PlanOff, planVars
<1>3. PlanIInv' /\ PlanTypeOK' /\ Positions' = Positions /\ Deps(View)' = Deps(View)
  BY <1>1, StutterSound DEF RGIInv, PlanIInv, Positions, View
<1>4. RGTypeOK'
  BY <1>1, <1>3 DEF RGIInv, RGTypeOK
<1>5. CallsInOrder' /\ DrainInOrder' /\ KahnExact' /\ SortedOnceInstalled'
  BY <1>1, <1>2 DEF CallsInOrder, DrainInOrder, KahnExact, SortedOnceInstalled
<1>6. ScheduleCurrent'
  BY <1>1, <1>2 DEF RGIInv, ScheduleCurrent
<1>7. AsDeclared'
  BY <1>1, <1>2, <1>3 DEF RGIInv, AsDeclared
<1>8. CycleStays'
  <2>. DEFINE S == Positions \ Range(order)
  <2>1. /\ nodes \in Seq(NodeRecords) /\ Len(nodes) \in Nat /\ Positions = 1 .. Len(nodes)
        /\ order \in Seq(Positions) /\ Len(order) \in Nat /\ DOMAIN order = 1 .. Len(order)
    BY <1>1, DrainFacts, NodeBounds DEF Positions
  <2>2. ASSUME NEW i \in S PROVE \E p \in S : <<p, i>> \in Deps(View)
    <3>1. Range(ready) = {}
      BY <1>1 DEF Range
    <3>2. inDeg[i] # 0
      BY <1>1, <3>1, DrainFacts
    <3>3. Unrelaxed(i) # {}
      BY <1>1, <2>1, <3>2, DrainFacts, UnrelaxedFinite
    <3>4. PICK e \in EdgesInto(i) : ~Relaxed(e)
      BY <3>3 DEF Unrelaxed
    <3>5. e[1] \in S
      BY <1>1, <2>1, <3>4, RelaxedAtRest, EdgeBounds
    <3>. QED
      BY <2>1, <3>4, <3>5, EdgeIsDep
  <2>3. S # {}
    <3>1. ASSUME S = {} PROVE FALSE
      <4>1. \A i \in Positions : \E k \in 1 .. Len(order) : order[k] = i
        BY <2>1, <3>1 DEF Range
      <4>2. order \in [1 .. Len(order) -> Positions]
        BY <2>1, LenProperties
      <4>3. ExistsSurjection(1 .. Len(order), Positions)
        BY <4>1, <4>2 DEF ExistsSurjection, Surjection
      <4>4. Cardinality(Positions) <= Len(order)
        BY <2>1, <4>3, FS_SurjCardinalityBound
      <4>5. Cardinality(Positions) = Len(nodes)
        BY <2>1, IntervalCount
      <4>. QED
        BY <1>1, <2>1, <4>4, <4>5
    <3>. QED
      BY <3>1
  <2>. HIDE DEF S
  <2>4. S \in SUBSET Positions
    BY DEF S
  <2>. QED
    BY <1>1, <1>2, <1>3, <2>2, <2>3, <2>4 DEF CycleStays
<1>. QED
  BY <1>3, <1>4, <1>5, <1>6, <1>7, <1>8 DEF RGIInv


\* The lifetime scan: a transient some node uses is alive from its first use
\* to its last, another one never.
LEMMA WidenSound ==
  ASSUME NEW t \in Transients, t.first = Unused, t.last = Unused,
         NEW uses, uses \subseteq Nat, IsFiniteSet(uses)
  PROVE  /\ Widen(t, uses) \in Transients
         /\ uses = {} => Widen(t, uses) = t
         /\ uses # {} => /\ Widen(t, uses).first # Unused /\ Widen(t, uses).last # Unused
                         /\ Widen(t, uses).first <= Widen(t, uses).last
                         /\ \A u \in uses : /\ Widen(t, uses).first <= u
                                            /\ u <= Widen(t, uses).last
<1>1. uses \cup ({t.first, t.last} \ {Unused}) = uses
  OBVIOUS
<1>2. CASE uses = {}
  BY <1>1, <1>2 DEF Widen
<1>3. CASE uses # {}
  <2>. DEFINE lo == CHOOSE u \in uses : \A v \in uses : u <= v
              hi == CHOOSE u \in uses : \A v \in uses : v <= u
  <2>1. \E u \in uses : \A v \in uses : u <= v
    BY <1>3, LeastNat
  <2>2. \E u \in uses : \A v \in uses : v <= u
    BY <1>3, GreatestNat
  <2>3. lo \in uses /\ \A v \in uses : lo <= v
    BY <2>1
  <2>4. hi \in uses /\ \A v \in uses : v <= hi
    BY <2>2
  <2>5. Widen(t, uses) = [t EXCEPT !.first = lo, !.last = hi]
    BY <1>1, <1>3 DEF Widen
  <2>. HIDE DEF lo, hi
  <2>6. lo \in Nat /\ hi \in Nat /\ lo <= hi
    BY <2>3, <2>4
  <2>7. /\ Widen(t, uses).first = lo /\ Widen(t, uses).last = hi
        /\ Widen(t, uses) \in Transients
    BY <2>5, <2>6 DEF Transients
  <2>8. Unused \notin Nat
    BY DEF Unused
  <2>. QED
    BY <1>3, <2>3, <2>4, <2>6, <2>7, <2>8
<1>. QED
  BY <1>2, <1>3

\* At the end of the drain of a graph without cycles every node was popped once.
LEMMA AllPopped ==
  ASSUME RGIInv, Install
  PROVE  /\ Len(order) = Len(nodes)
         /\ \A k \in Positions : order[k] \in Positions
         /\ \A i \in Positions : \E k \in Positions : order[k] = i
         /\ \A k, l \in Positions : order[k] = order[l] => k = l
<1>1. /\ nodes \in Seq(NodeRecords) /\ Len(nodes) \in Nat /\ Positions = 1 .. Len(nodes)
      /\ order \in Seq(Positions) /\ Len(order) \in Nat /\ DOMAIN order = 1 .. Len(order)
      /\ IsInjective(order) /\ Len(order) >= Len(nodes)
  BY DrainFacts, NodeBounds DEF Positions, Install, Drained
<1>2. order \in [1 .. Len(order) -> Positions]
  BY <1>1, LenProperties
<1>3. order \in Injection(1 .. Len(order), Positions)
  BY <1>1, <1>2 DEF Injection
<1>4. /\ IsFiniteSet(Positions) /\ Cardinality(Positions) = Len(nodes)
      /\ Cardinality(1 .. Len(order)) = Len(order)
  BY <1>1, IntervalCount
<1>5. /\ Len(order) <= Len(nodes)
      /\ Len(order) = Len(nodes) <=> order \in Surjection(1 .. Len(order), Positions)
  BY <1>3, <1>4, FS_Injection
<1>6. Len(order) = Len(nodes)
  BY <1>1, <1>5
<1>. QED
  BY <1>1, <1>2, <1>5, <1>6 DEF Surjection, IsInjective

\* The sorted vector: what the nodes were, numbered by position.
LEMMA InstallEffect ==
  ASSUME RGIInv, Install
  PROVE  /\ nodes' \in Seq(NodeRecords) /\ Len(nodes') = Len(nodes) /\ Positions' = Positions
         /\ \A k \in Positions : nodes'[k] = nodes[order[k]] /\ nodes'[k].sortIdx = k - 1
         /\ {nodes'[i].id : i \in Positions} = 0 .. Len(nodes) - 1
         /\ \A e \in Deps(View)' : e[1] < e[2]
<1>1. /\ nodes \in Seq(NodeRecords) /\ Len(nodes) \in Nat /\ Positions = 1 .. Len(nodes)
      /\ call = "sort" /\ nodes' = [k \in Positions |-> nodes[order[k]]]
      /\ DOMAIN order = 1 .. Len(order)
  BY DrainFacts, NodeBounds DEF Positions, Install, Drained
<1>2. nodes' \in Seq(NodeRecords) /\ Len(nodes') = Len(nodes)
  <2>1. \A k \in Positions : nodes[order[k]] \in NodeRecords
    BY <1>1, AllPopped
  <2>2. nodes' \in [1 .. Len(nodes) -> NodeRecords]
    BY <1>1, <2>1
  <2>. QED
    BY <1>1, <2>2
<1>3. Positions' = Positions
  BY <1>2 DEF Positions
<1>4. \A k \in Positions :
        /\ nodes'[k] = nodes[order[k]] /\ nodes'[k].sortIdx = k - 1
        /\ \A p \in Positions :
             <<p, order[k]>> \in Deps(View) => \E j \in 1 .. k - 1 : order[j] = p
  BY <1>1, AllPopped DEF RGIInv, DrainInOrder
<1>5. {nodes'[i].id : i \in Positions} = 0 .. Len(nodes) - 1
  <2>1. ~Installed
    BY <1>1 DEF RGIInv, CallsInOrder, Installed
  <2>2. \A i \in Positions : nodes[i].id = i - 1
    BY <2>1 DEF RGIInv, AsDeclared
  <2>3. ASSUME NEW k \in Positions PROVE nodes'[k].id \in 0 .. Len(nodes) - 1
    <3>1. order[k] \in Positions /\ nodes'[k].id = order[k] - 1
      BY <1>4, <2>2, AllPopped
    <3>. QED
      BY <1>1, <3>1
  <2>4. ASSUME NEW x \in 0 .. Len(nodes) - 1 PROVE \E k \in Positions : nodes'[k].id = x
    <3>1. x + 1 \in Positions /\ (x + 1) - 1 = x
      BY <1>1
    <3>2. PICK k \in Positions : order[k] = x + 1
      BY <3>1, AllPopped
    <3>3. nodes'[k].id = x
      BY <1>4, <2>2, <3>1, <3>2
    <3>. QED
      BY <3>3
  <2>. QED
    BY <2>3, <2>4
<1>6. ASSUME NEW e \in Deps(AsSets(nodes')) PROVE e[1] < e[2]
  <2>1. e[1] \in Positions /\ e[2] \in Positions /\ e = <<e[1], e[2]>>
    BY <1>1, <1>2, DepsTyped
  <2>2. <<e[1], e[2]>> \in Deps(AsSets(nodes'))
    BY <2>1
  <2>3. e[1] # e[2] /\ Range(nodes'[e[1]].writes) \cap Range(nodes'[e[2]].reads) # {}
    <3>1. Len(nodes') \in Nat /\ e[1] \in 1 .. Len(nodes') /\ e[2] \in 1 .. Len(nodes')
      BY <1>1, <1>2, <2>1
    <3>. QED
      BY <2>2, <3>1, DepsOf
  <2>4. /\ order[e[1]] \in Positions /\ order[e[2]] \in Positions
        /\ order[e[1]] # order[e[2]]
        /\ Range(nodes[order[e[1]]].writes) \cap Range(nodes[order[e[2]]].reads) # {}
    BY <1>4, <2>1, <2>3, AllPopped
  <2>5. <<order[e[1]], order[e[2]]>> \in Deps(View)
    BY <1>1, <2>4, DepsOf DEF View
  <2>6. PICK j \in 1 .. e[2] - 1 : order[j] = order[e[1]]
    BY <1>4, <2>1, <2>4, <2>5
  <2>7. j \in Positions /\ j < e[2]
    BY <1>1, <2>1
  <2>8. j = e[1]
    BY <2>1, <2>6, <2>7, AllPopped
  <2>. QED
    BY <2>7, <2>8
<1>. QED
  BY <1>2, <1>3, <1>4, <1>5, <1>6 DEF View

\* Which nodes use a resource after the sort, and their sort indices before.
LEMMA UsesScanned ==
  ASSUME RGIInv, Install, NEW r
  PROVE  /\ UsesOf(r) \subseteq Nat /\ IsFiniteSet(UsesOf(r))
         /\ \A i \in Positions :
              r \in Range(nodes'[i].reads) \cup Range(nodes'[i].writes) => i - 1 \in UsesOf(r)
<1>1. Len(nodes) \in Nat /\ Positions = 1 .. Len(nodes) /\ call = "sort"
  BY DrainFacts, NodeBounds DEF Positions, Install, Drained
<1>2. ASSUME NEW i \in Positions
      PROVE  nodes[i].sortIdx \in 0 .. Len(nodes) - 1
  <2>1. PICK k \in Positions : order[k] = i
    BY AllPopped
  <2>2. nodes[i].sortIdx = k - 1
    BY <2>1, InstallEffect
  <2>. QED
    BY <1>1, <2>2
<1>3. UsesOf(r) \subseteq 0 .. Len(nodes) - 1
  BY <1>2 DEF UsesOf
<1>4. IsFiniteSet(0 .. Len(nodes) - 1) /\ 0 .. Len(nodes) - 1 \subseteq Nat
  BY <1>1, FS_Interval
<1>5. UsesOf(r) \subseteq Nat /\ IsFiniteSet(UsesOf(r))
  BY <1>3, <1>4, FS_Subset
<1>6. ASSUME NEW i \in Positions, r \in Range(nodes'[i].reads) \cup Range(nodes'[i].writes)
      PROVE  i - 1 \in UsesOf(r)
  <2>1. order[i] \in Positions /\ nodes'[i] = nodes[order[i]] /\ nodes'[i].sortIdx = i - 1
    BY AllPopped, InstallEffect
  <2>. QED
    BY <1>6, <2>1 DEF UsesOf
<1>. QED
  BY <1>5, <1>6

\* Install keeps the strengthening.
LEMMA InstallSound == RGIInv /\ Install => RGIInv'
<1>. SUFFICES ASSUME RGIInv, Install PROVE RGIInv'
  OBVIOUS
<1>. DEFINE wide(t) == Widen(transients[t], UsesOf(t - 1))
<1>1. /\ call = "sort" /\ call' = "allocate"
      /\ transients' = [t \in 1 .. Len(transients) |-> wide(t)]
      /\ UNCHANGED <<aliasing, built, sched, handle, device, result>>
      /\ UNCHANGED <<inDeg, ready, order, relax>>
      /\ UNCHANGED <<plan, unplaced, slots, cursor, stats>>
  BY DEF Install, Drained, sortVars
<1>2. /\ ~built /\ ~Installed /\ Installed' /\ PlanOff /\ PlanOff'
      /\ transients \in Seq(Transients) /\ Len(transients) \in Nat
  BY <1>1 DEF RGIInv, CallsInOrder, Installed, PlanOff, RGTypeOK, PlanTypeOK
<1>3. \A t \in 1 .. Len(transients) :
        /\ transients[t] \in Transients
        /\ transients[t].first = Unused /\ transients[t].last = Unused
  BY <1>2 DEF RGIInv, AsDeclared
<1>4. ASSUME NEW t \in 1 .. Len(transients)
      PROVE  /\ wide(t) \in Transients
             /\ UsesOf(t - 1) = {} => wide(t).first = Unused /\ wide(t).last = Unused
             /\ UsesOf(t - 1) # {} =>
                  /\ wide(t).first # Unused /\ wide(t).last # Unused
                  /\ wide(t).first <= wide(t).last
                  /\ \A u \in UsesOf(t - 1) : wide(t).first <= u /\ u <= wide(t).last
  BY <1>3, UsesScanned, WidenSound
<1>. HIDE DEF wide
<1>5. /\ transients' \in Seq(Transients) /\ Len(transients') = Len(transients)
      /\ \A t \in 1 .. Len(transients) : transients'[t] = wide(t)
  <2>1. transients' \in [1 .. Len(transients) -> Transients]
    BY <1>1, <1>4
  <2>. QED
    BY <1>1, <1>2, <2>1
<1>6. LifetimesSet'
  BY <1>4, <1>5 DEF LifetimesSet
<1>7. PlanIInv' /\ PlanTypeOK'
  <2>1. PlanIInv'
    BY <1>2, <1>5, <1>6, InitSoundNext DEF PlanInit
  <2>. QED
    BY <2>1 DEF PlanIInv
<1>8. RGTypeOK'
  BY <1>1, <1>5, <1>7, InstallEffect DEF RGIInv, RGTypeOK
<1>9. CallsInOrder' /\ DrainInOrder' /\ KahnExact'
  BY <1>1, <1>2 DEF CallsInOrder, DrainInOrder, KahnExact
<1>10. ScheduleCurrent'
  BY <1>1, <1>2 DEF RGIInv, ScheduleCurrent
<1>11. AsDeclared'
  <2>1. \A i \in Positions : Len(nodes'[i].writes) <= MaxWrites
    BY InstallEffect, AllPopped DEF RGIInv, AsDeclared
  <2>. QED
    BY <1>2, <2>1, InstallEffect DEF AsDeclared
<1>12. SortedOnceInstalled'
  <2>1. ASSUME NEW t \in 1 .. Len(transients), NEW i \in Users(t)'
        PROVE  /\ transients'[t].first # Unused
               /\ transients'[t].first <= i - 1 /\ i - 1 <= transients'[t].last
    <3>1. i \in Positions /\ t - 1 \in Range(nodes'[i].reads) \cup Range(nodes'[i].writes)
      BY InstallEffect DEF Users
    <3>2. i - 1 \in UsesOf(t - 1)
      BY <3>1, UsesScanned
    <3>. QED
      BY <1>4, <1>5, <3>2
  <2>. QED
    BY <1>5, <2>1, InstallEffect DEF SortedOnceInstalled, Sorted
<1>13. CycleStays'
  <2>1. ASSUME result = "cycle" PROVE FALSE
    <3>1. PICK S \in (SUBSET Positions) \ {{}} : S \cap Range(order) = {}
      BY <1>1, <2>1 DEF RGIInv, CycleStays
    <3>2. PICK i : i \in S /\ i \in Positions
      <4>1. S # {} /\ S \subseteq Positions
        BY <3>1
      <4>. QED
        BY <4>1
    <3>3. PICK k \in Positions : order[k] = i
      BY <3>2, AllPopped
    <3>4. k \in DOMAIN order
      BY <1>1, <3>3, AllPopped, DrainFacts DEF Positions
    <3>. QED
      BY <3>1, <3>2, <3>3, <3>4 DEF Range
  <2>. QED
    BY <1>1, <2>1 DEF CycleStays
<1>. QED
  BY <1>7, <1>8, <1>9, <1>10, <1>11, <1>12, <1>13 DEF RGIInv


-----------------------------------------------------------------------------
(* The sorted graph: allocation, planning, scheduling, release.            *)

\* The planner's steps leave the lifetimes alone.
LEMMA PlanStepKeeps ==
  ASSUME PlanIInv, PlanStep
  PROVE  /\ PlanIInv' /\ Len(transients') = Len(transients)
         /\ \A t \in 1 .. Len(transients) : /\ transients'[t].first = transients[t].first
                                            /\ transients'[t].last = transients[t].last
<1>1. PlanIInv'
  BY PlaceSound, FinishSound DEF PlanStep
<1>2. CASE FinishKind
  <2>1. transients' = transients
    BY <1>2 DEF FinishKind
  <2>. QED
    BY <1>1, <2>1
<1>3. CASE Place
  <2>1. PICK i \in unplaced :
          IF Reusable(i) = {}
            THEN transients' = [transients EXCEPT ![i].offset = cursor]
            ELSE transients' = [transients EXCEPT ![i].offset = slots[BestSlot(i)].offset]
    BY <1>3 DEF Place
  <2>2. /\ i \in 1 .. Len(transients) /\ transients \in Seq(Transients) /\ LifetimesSet
        /\ cursor \in Nat
    BY <1>3 DEF Place, PlanIInv, PlanTypeOK
  <2>3. PICK o \in Nat : transients' = [transients EXCEPT ![i].offset = o]
    <3>1. CASE Reusable(i) = {}
      BY <2>1, <2>2, <3>1
    <3>2. CASE Reusable(i) # {}
      <4>1. BestSlot(i) \in Reusable(i)
        BY <2>2, <3>2, BestSlotReusable
      <4>2. BestSlot(i) \in DOMAIN slots
        BY <4>1 DEF Reusable, PlanIInv, PlanTypeOK
      <4>3. slots[BestSlot(i)].offset \in Nat
        BY <4>2, SlotBounds
      <4>. QED
        BY <2>1, <3>2, <4>3
    <3>. QED
      BY <3>1, <3>2
  <2>. QED
    BY <1>1, <2>2, <2>3, PlannedTransient
<1>. QED
  BY <1>2, <1>3 DEF PlanStep

\* Starting the planner on a sorted graph.
LEMMA StartKeeps ==
  ASSUME RGIInv, StartPlan
  PROVE  /\ PlanIInv' /\ PlanTypeOK' /\ transients' = transients /\ plan' = "buffer"
  BY StartSound DEF RGIInv, PlanIInv, StartPlan

\* Allocate keeps the strengthening.
LEMMA AllocateSound == RGIInv /\ Allocate => RGIInv'
<1>. SUFFICES ASSUME RGIInv, Allocate PROVE RGIInv'
  OBVIOUS
<1>1. /\ call = "allocate" /\ built' = TRUE /\ result' = "ok"
      /\ handle' \in IF device = "null" THEN {handle}
                     ELSE [1 .. Len(transients) ->
                             {"live"} \cup IF DeviceRefuses THEN {"null"} ELSE {}]
      /\ IF aliasing THEN call' = "plan" /\ StartPlan
                     ELSE call' = "none" /\ UNCHANGED planVars
      /\ UNCHANGED <<nodes, aliasing, sched, device>>
      /\ UNCHANGED <<inDeg, ready, order, relax>>
  BY DEF Allocate, sortVars
<1>2. Installed /\ Installed' /\ ~built
  BY <1>1 DEF Installed, RGIInv, CallsInOrder
<1>3. PlanIInv' /\ PlanTypeOK' /\ transients' = transients /\ call' \in {"none", "plan"}
  <2>1. CASE aliasing
    BY <1>1, <2>1, StartKeeps
  <2>2. CASE ~aliasing
    BY <1>1, <2>2, StutterSound DEF RGIInv, planVars, PlanIInv
  <2>. QED
    BY <2>1, <2>2
<1>4. RGTypeOK'
  <2>1. handle' \in [1 .. Len(transients) -> HandleStates]
    <3>1. {"live"} \cup (IF DeviceRefuses THEN {"null"} ELSE {}) \subseteq HandleStates
      BY DEF HandleStates
    <3>2. handle \in [1 .. Len(transients) -> HandleStates]
      BY DEF RGIInv, RGTypeOK
    <3>. QED
      BY <1>1, <3>1, <3>2
  <2>2. built' \in BOOLEAN
    BY <1>1, Zenon
  <2>3. Positions' = Positions
    BY <1>1 DEF Positions
  <2>. QED
    BY <1>1, <1>3, <2>1, <2>2, <2>3 DEF RGIInv, RGTypeOK
<1>5. CallsInOrder'
  BY <1>1, <1>3 DEF CallsInOrder
<1>6. ScheduleCurrent'
  BY <1>1, <1>2 DEF RGIInv, ScheduleCurrent
<1>. QED
  BY <1>1, <1>2, <1>3, <1>4, <1>5, <1>6, InstalledSound

\* PlanStats keeps the strengthening.
LEMMA PlanStatsSound == RGIInv /\ PlanStats => RGIInv'
<1>. SUFFICES ASSUME RGIInv, PlanStats PROVE RGIInv'
  OBVIOUS
<1>1. /\ call = "none" /\ built /\ call' = "plan" /\ StartPlan
      /\ UNCHANGED <<nodes, aliasing, built, sched, handle, device, result>>
      /\ UNCHANGED <<inDeg, ready, order, relax>>
  BY DEF PlanStats, sortVars
<1>2. Installed /\ Installed'
  BY <1>1 DEF Installed
<1>3. PlanIInv' /\ PlanTypeOK' /\ transients' = transients
  BY <1>1, StartKeeps
<1>4. Positions' = Positions /\ View' = View
  BY <1>1 DEF Positions, View
<1>5. RGTypeOK'
  BY <1>1, <1>3, <1>4 DEF RGIInv, RGTypeOK
<1>6. CallsInOrder'
  BY <1>1 DEF CallsInOrder
<1>7. ScheduleCurrent'
  BY <1>1, <1>4 DEF RGIInv, ScheduleCurrent
<1>. QED
  BY <1>1, <1>2, <1>3, <1>5, <1>6, <1>7, InstalledSound

\* Plan keeps the strengthening.
LEMMA PlanRunSound == RGIInv /\ Plan => RGIInv'
<1>. SUFFICES ASSUME RGIInv, Plan PROVE RGIInv'
  OBVIOUS
<1>1. /\ call = "plan" /\ PlanStep /\ call' = IF plan' = "done" THEN "none" ELSE "plan"
      /\ UNCHANGED <<nodes, aliasing, built, sched, handle, device, result>>
      /\ UNCHANGED <<inDeg, ready, order, relax>>
  BY DEF Plan, sortVars
<1>2. built /\ Installed /\ Installed' /\ call' \in {"none", "plan"}
  BY <1>1 DEF Installed, RGIInv, CallsInOrder
<1>3. /\ PlanIInv' /\ Len(transients') = Len(transients)
      /\ \A t \in 1 .. Len(transients) : /\ transients'[t].first = transients[t].first
                                         /\ transients'[t].last = transients[t].last
  BY <1>1, PlanStepKeeps DEF RGIInv
<1>4. Positions' = Positions /\ View' = View /\ PlanTypeOK'
  BY <1>1, <1>3 DEF Positions, View, PlanIInv
<1>5. RGTypeOK'
  BY <1>1, <1>2, <1>3, <1>4 DEF RGIInv, RGTypeOK
<1>6. CallsInOrder'
  BY <1>1, <1>2 DEF CallsInOrder
<1>7. ScheduleCurrent'
  BY <1>1, <1>4 DEF RGIInv, ScheduleCurrent
<1>. QED
  BY <1>1, <1>2, <1>3, <1>5, <1>6, <1>7, InstalledSound

\* Schedule keeps the strengthening.
LEMMA ScheduleSound == RGIInv /\ Schedule => RGIInv'
<1>. SUFFICES ASSUME RGIInv, Schedule PROVE RGIInv'
  OBVIOUS
<1>1. /\ call = "none" /\ built
      /\ sched' = {[batches |-> [k \in BatchKinds(View) |->
                                   {i \in Positions : nodes[i].queue = k}],
                    fences |-> FenceEdges(View)]}
      /\ UNCHANGED <<nodes, aliasing, built, handle, call, device, result>>
      /\ UNCHANGED <<inDeg, ready, order, relax>> /\ UNCHANGED planVars
      /\ transients' = transients
  BY DEF Schedule, sortVars, planVars
<1>2. Installed /\ Installed'
  BY <1>1 DEF Installed
<1>3. PlanIInv' /\ PlanTypeOK'
  BY <1>1, StutterSound DEF RGIInv, PlanIInv
<1>4. Positions' = Positions /\ View' = View
  BY <1>1 DEF Positions, View
<1>5. RGTypeOK'
  BY <1>1, <1>3, <1>4 DEF RGIInv, RGTypeOK
<1>6. CallsInOrder'
  BY <1>1 DEF CallsInOrder
<1>7. ScheduleCurrent'
  BY <1>1, <1>4 DEF ScheduleCurrent
<1>. QED
  BY <1>1, <1>2, <1>3, <1>5, <1>6, <1>7, InstalledSound

\* Release keeps the strengthening.
LEMMA ReleaseSound == RGIInv /\ Release => RGIInv'
<1>. SUFFICES ASSUME RGIInv, Release PROVE RGIInv'
  OBVIOUS
<1>1. /\ call = "none"
      /\ handle' = [t \in DOMAIN handle |->
                      IF handle[t] = "null" THEN "null"
                      ELSE IF handle[t] = "live" THEN "freed" ELSE "misfreed"]
      /\ UNCHANGED <<nodes, aliasing, built, sched, call, device, result>>
      /\ UNCHANGED <<inDeg, ready, order, relax>> /\ UNCHANGED planVars
      /\ transients' = transients
  BY DEF Release, sortVars, planVars
<1>2. PlanIInv' /\ PlanTypeOK'
  BY <1>1, StutterSound DEF RGIInv, PlanIInv
<1>3. /\ Positions' = Positions /\ View' = View /\ Deps(View)' = Deps(View)
      /\ Installed' = Installed
  BY <1>1 DEF Positions, View, Installed
<1>4. handle' \in [1 .. Len(transients) -> HandleStates]
  <2>1. handle \in [1 .. Len(transients) -> HandleStates]
    BY DEF RGIInv, RGTypeOK
  <2>2. {"null", "freed", "misfreed"} \subseteq HandleStates
    BY DEF HandleStates
  <2>. QED
    BY <1>1, <2>1, <2>2
<1>5. RGTypeOK'
  BY <1>1, <1>2, <1>3, <1>4 DEF RGIInv, RGTypeOK
<1>6. CASE Installed
  <2>1. CallsInOrder' /\ ScheduleCurrent'
    BY <1>1, <1>3 DEF RGIInv, CallsInOrder, ScheduleCurrent, PlanOff, planVars
  <2>. QED
    BY <1>1, <1>2, <1>3, <1>5, <1>6, <2>1, InstalledSound
<1>7. CASE ~Installed
  <2>1. PlanOff'
    BY <1>1, <1>7 DEF RGIInv, CallsInOrder, Installed, PlanOff, planVars
  <2>2. AsDeclared'
    BY <1>1, <1>3, <1>7 DEF RGIInv, AsDeclared
  <2>. QED
    BY <1>1, <1>2, <1>3, <1>5, <1>7, <2>1, <2>2, DeclaringSound
<1>. QED
  BY <1>6, <1>7

-----------------------------------------------------------------------------
(* The theorems.                                                           *)

\* The strengthening holds throughout.
THEOREM GraphInvariant == RGSpec => []RGIInv
<1>1. RGIInv /\ [RGNext]_rgVars => RGIInv'
  <2>. SUFFICES ASSUME RGIInv, [RGNext]_rgVars PROVE RGIInv'
    OBVIOUS
  <2>1. CASE \E k \in AddedKinds : AddNode(k)
    BY <2>1, AddNodeSound
  <2>2. CASE \E i \in Positions : Declare(i)
    BY <2>2, DeclareSound
  <2>3. CASE \E s \in Shapes : AddTransient(s)
    BY <2>3, AddTransientSound
  <2>4. CASE \E d \in Devices : BuildBegin(d)
    BY <2>4, BuildEmptySound, BuildSortSound
  <2>5. CASE SetAliasing \/ PlanStats \/ Schedule \/ Release
    BY <2>5, SetAliasingSound, PlanStatsSound, ScheduleSound, ReleaseSound
  <2>6. CASE Pop \/ Relax \/ Reject \/ Install
    BY <2>6, PopSound, RelaxSound, RejectSound, InstallSound
  <2>7. CASE Allocate \/ Plan
    BY <2>7, AllocateSound, PlanRunSound
  <2>8. CASE UNCHANGED rgVars
    BY <2>8, GraphStutterSound
  <2>. QED
    BY <2>1, <2>2, <2>3, <2>4, <2>5, <2>6, <2>7, <2>8 DEF RGNext, ClientCall
<1>. QED
  BY <1>1, GraphInitSound, PTL DEF RGSpec

\* Every variable of the builder stays in its type, for graphs of any size.
THEOREM GraphTypeCorrect == RGSpec => []RGTypeOK
<1>1. RGIInv => RGTypeOK
  BY DEF RGIInv
<1>. QED
  BY <1>1, GraphInvariant, PTL

\* The counts and the queue of rg_build's drain are exact, however often a
\* resource is declared.
THEOREM KahnCorrect == RGSpec => []KahnExact
<1>1. RGIInv => KahnExact
  BY DEF RGIInv
<1>. QED
  BY <1>1, GraphInvariant, PTL

\* A graph rg_build accepts is in dependency order and loses no node, for any
\* number of nodes, reads and writes.
THEOREM BuildSorts == RGSpec => []BuiltIsSorted
<1>1. RGIInv => BuiltIsSorted
  BY DEF RGIInv, SortedOnceInstalled, BuiltIsSorted, Installed
<1>. QED
  BY <1>1, GraphInvariant, PTL

\* rg_build rejects a graph only for a cycle.
THEOREM OnlyCyclesRejected == RGSpec => []RejectsOnlyCycles
<1>1. RGIInv => RejectsOnlyCycles
  BY DEF RGIInv, CycleStays, RejectsOnlyCycles
<1>. QED
  BY <1>1, GraphInvariant, PTL

\* A rejected build leaves the graph as it was declared.
THEOREM RejectionHarmless == RGSpec => []RejectedGraphIntact
<1>1. RGIInv => RejectedGraphIntact
  BY DEF RGIInv, CycleStays, AsDeclared, RejectedGraphIntact, Installed
<1>. QED
  BY <1>1, GraphInvariant, PTL

\* Every dependency of a scheduled graph is kept by submission order on one
\* queue or by a fence edge, and every node is in exactly one batch.
THEOREM ScheduleComplete == RGSpec => []ScheduleCoversDeps
<1>1. RGIInv => ScheduleCoversDeps
  <2>. SUFFICES ASSUME RGIInv, NEW s \in sched
       PROVE  /\ \A e \in Deps(View) :
                   \/ e[1] < e[2] /\ View[e[1]].queue = View[e[2]].queue
                   \/ e \in s.fences
              /\ \A i \in Positions :
                   Cardinality({k \in DOMAIN s.batches : i \in s.batches[k]}) = 1
    BY DEF ScheduleCoversDeps
  <2> DEFINE batches == [k \in BatchKinds(View) |-> {i \in Positions : nodes[i].queue = k}]
  <2>0. built /\ s = [batches |-> batches, fences |-> FenceEdges(View)]
    BY DEF RGIInv, ScheduleCurrent
  <2>1. built /\ s.batches = batches /\ s.fences = FenceEdges(View)
    <3> HIDE DEF batches
    <3>. QED
      BY <2>0
  <2>2. \A e \in Deps(View) : e[1] < e[2]
    BY <2>1 DEF RGIInv, SortedOnceInstalled, Installed, Sorted
  <2>3. ASSUME NEW e \in Deps(View)
        PROVE  \/ e[1] < e[2] /\ View[e[1]].queue = View[e[2]].queue
               \/ e \in s.fences
    BY <2>1, <2>2 DEF FenceEdges
  <2>4. ASSUME NEW i \in Positions
        PROVE  Cardinality({k \in DOMAIN s.batches : i \in s.batches[k]}) = 1
    <3>1. Len(View) = Len(nodes) /\ View[i].queue = nodes[i].queue
      BY NodeBounds DEF View, AsSets, Positions, RGIInv, RGTypeOK
    <3>2. nodes[i].queue \in BatchKinds(View)
      BY <3>1 DEF BatchKinds, Positions
    <3>3. {k \in DOMAIN s.batches : i \in s.batches[k]} = {nodes[i].queue}
      BY <2>1, <3>2
    <3>. QED
      BY <3>3, FS_Singleton
  <2>. QED
    BY <2>3, <2>4
<1>. QED
  BY <1>1, GraphInvariant, PTL

\* A consumer that binds every transient at its planned offset and runs the
\* sorted graph never has two transients in the same bytes at once.
THEOREM PlannedGraphSafe == RGSpec => []PlannedBytesSafe
<1>1. RGIInv => PlannedBytesSafe
  <2>. SUFFICES ASSUME RGIInv, call = "none", plan = "done",
                       NEW t \in 1 .. Len(transients), NEW u \in 1 .. Len(transients),
                       t # u, Users(t) # {}, Users(u) # {}, ShareBytes(t, u)
       PROVE  \/ \A i \in Users(t), j \in Users(u) : i < j
              \/ \A i \in Users(t), j \in Users(u) : j < i
    BY DEF PlannedBytesSafe
  <2>1. Installed
    BY DEF RGIInv, CallsInOrder, PlanOff, Installed
  <2>2. /\ \A i \in Users(t) : /\ transients[t].first # Unused
                               /\ transients[t].first <= i - 1 /\ i - 1 <= transients[t].last
        /\ \A j \in Users(u) : /\ transients[u].first # Unused
                               /\ transients[u].first <= j - 1 /\ j - 1 <= transients[u].last
    BY <2>1 DEF RGIInv, SortedOnceInstalled
  <2>3. transients[t].first # Unused /\ transients[u].first # Unused
    BY <2>2
  <2>4. transients[t] \in Transients /\ transients[u] \in Transients
    BY DEF RGIInv, RGTypeOK, PlanTypeOK
  <2>5. t \in Placed /\ u \in Placed
    <3>1. unplaced = {}
      BY DEF RGIInv, PlanIInv, PassesInOrder
    <3>2. t \in LiveAll /\ u \in LiveAll
      BY <2>3, <2>4 DEF LiveAll, Live, Transients
    <3>. QED
      BY <3>1, <3>2 DEF Placed
  <2>6. ~AliveTogether(t, u)
    BY <2>5, StrengthEnough DEF RGIInv, PlanSound, ShareBytes
  <2>7. /\ transients[t].first \in Nat /\ transients[t].last \in Int
        /\ transients[u].first \in Nat /\ transients[u].last \in Int
    BY <2>3, <2>4 DEF Transients, Unused
  <2>8. \A i \in Users(t) \cup Users(u) : i \in Nat
    BY NodeBounds DEF Users, RGIInv, RGTypeOK
  <2>9. CASE transients[t].first > transients[u].last
    <3>. SUFFICES ASSUME NEW i \in Users(t), NEW j \in Users(u) PROVE j < i
      OBVIOUS
    <3>. QED
      BY <2>2, <2>7, <2>8, <2>9
  <2>10. CASE transients[u].first > transients[t].last
    <3>. SUFFICES ASSUME NEW i \in Users(t), NEW j \in Users(u) PROVE i < j
      OBVIOUS
    <3>. QED
      BY <2>2, <2>7, <2>8, <2>10
  <2>. QED
    BY <2>6, <2>7, <2>9, <2>10 DEF AliveTogether
<1>. QED
  BY <1>1, GraphInvariant, PTL
=============================================================================
