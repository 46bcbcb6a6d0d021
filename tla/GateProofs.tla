------------------------------ MODULE GateProofs ------------------------------
(***************************************************************************)
(* Proofs about WriteGate and SizingGate.                                  *)
(*                                                                         *)
(* WriteGate, for every tree of files: find_wrappers stops only at its     *)
(* fixed point, what it collects really writes and lies in every set of    *)
(* writing functions that is closed under one more call, and the counts    *)
(* reported are the wrong ones.                                            *)
(*                                                                         *)
(* SizingGate, for every set of files in the form of the sources: what is  *)
(* reported is true of the function that makes the call, a clean exit      *)
(* means that every function's buffers hold what it writes, and every call *)
(* is counted once.                                                        *)
(***************************************************************************)
EXTENDS WriteGate, SizingGate, FiniteSetTheorems, SequenceTheorems, NaturalsInduction,
        WellFoundedInduction, TLAPS

-----------------------------------------------------------------------------
(* Greatest and least elements.                                            *)

\* A nonempty set of naturals has a least element.
LEMMA LeastNatural ==
  ASSUME NEW T, T \subseteq Nat, T # {}
  PROVE  \E x \in T : \A y \in T : x <= y
<1>1. PICK x \in T : \A y \in T : ~ (<<y, x>> \in OpToRel(<, Nat))
  BY WFMin, NatLessThanWellFounded
<1>2. \A y \in T : ~ (y < x)
  BY <1>1 DEF OpToRel
<1>. QED BY <1>2

\* A nonempty finite set of naturals has a greatest element.
LEMMA GreatestOfFinite ==
  ASSUME NEW S, S \subseteq Nat, S # {}, IsFiniteSet(S)
  PROVE  \E x \in S : \A y \in S : y <= x
<1> DEFINE Topped(T) == \E x \in T : \A y \in T : y <= x
           Bad == {T \in SUBSET S : T # {} /\ ~ Topped(T)}
           K == {Cardinality(T) : T \in Bad}
<1>1. SUFFICES ASSUME Bad # {} PROVE FALSE
  <2>1. S \notin Bad => Topped(S)
    OBVIOUS
  <2>. QED BY <2>1
<1>2. \A T \in Bad : IsFiniteSet(T) /\ Cardinality(T) \in Nat
  BY FS_Subset, FS_CardinalityType
<1>3. PICK k \in K : \A l \in K : k <= l
  <2>1. K \subseteq Nat /\ K # {}
    BY <1>1, <1>2
  <2>. HIDE DEF K
  <2>. QED BY <2>1, LeastNatural
<1>4. PICK T \in Bad : k = Cardinality(T)
  OBVIOUS
<1>5. PICK x \in T : TRUE
  OBVIOUS
<1>6. T \ {x} \notin Bad
  <2>1. Cardinality(T \ {x}) = Cardinality(T) - 1
    BY <1>2, FS_RemoveElement
  <2>2. T \ {x} \in Bad => Cardinality(T) <= Cardinality(T \ {x})
    BY <1>3, <1>4
  <2>. QED BY <1>2, <2>1, <2>2
<1>7. T \ {x} # {}
  <2>1. T \ {x} = {} => T = {x}
    OBVIOUS
  <2>2. T = {x} => Topped(T)
    OBVIOUS
  <2>. QED BY <2>1, <2>2
<1>8. PICK m \in T \ {x} : \A y \in T \ {x} : y <= m
  BY <1>6, <1>7
<1>9. \A y \in T : y <= (IF x <= m THEN m ELSE x)
  <2>1. T \subseteq Nat /\ x \in Nat /\ m \in Nat
    OBVIOUS
  <2>2. \A y \in T : y = x \/ y <= m
    BY <1>8
  <2>. QED BY <2>1, <2>2
<1>10. (IF x <= m THEN m ELSE x) \in T
  OBVIOUS
<1>. QED BY <1>9, <1>10

LEMMA MaxFact ==
  ASSUME NEW S, S \subseteq Nat, S # {}, IsFiniteSet(S)
  PROVE  Max(S) \in S /\ \A y \in S : y <= Max(S)
<1>1. \E x \in S : \A y \in S : x >= y
  BY GreatestOfFinite
<1>. QED BY <1>1 DEF Max

LEMMA MinFact ==
  ASSUME NEW S, S \subseteq Nat, S # {}
  PROVE  Min(S) \in S /\ \A y \in S : Min(S) <= y
BY LeastNatural DEF Min

LEMMA FiniteImage ==
  ASSUME NEW S, IsFiniteSet(S), NEW f, NEW T, T = {f[x] : x \in S}
  PROVE  IsFiniteSet(T)
<1> DEFINE g == [x \in S |-> f[x]]
<1>1. g \in Surjection(S, T)
  BY DEF Surjection
<1>. QED BY <1>1, FS_Surjection

-----------------------------------------------------------------------------
(* find_wrappers reaches its fixed point.                                  *)

\* Function i of table j, if it counts and forwards, is a wrapper already.
Closed(j, i) ==
  LET fl == FileAt(tree, file, j)
  IN Counts(fl, i) /\ IsWrapper(fl.fns[i], wrappers) => fl.fns[i].name \in DOMAIN wrappers

InTables(j, i) == j \in 0 .. Len(tree) /\ Searched(tree, j) /\ i \in 1 .. Len(FileAt(tree, file, j).fns)

\* The pass has been at function i of table j.
Visited(j, i) == j < table \/ (j = table /\ i < place)

WalkType ==
  /\ tree \in Trees
  /\ file \in 1 .. Len(tree) /\ step \in {"wrappers", "judge", "done"}
  /\ table \in 0 .. Len(tree) + 1 /\ place \in Nat \ {0} /\ grew \in BOOLEAN
  /\ step # "wrappers" => table = 0 /\ place = 1 /\ grew = FALSE

\* A pass that has added nothing leaves nothing to add behind it.
PassInv ==
  step = "wrappers" /\ grew = FALSE => \A j, i : InTables(j, i) /\ Visited(j, i) => Closed(j, i)
JudgeInv ==
  step = "judge" => \A j, i : InTables(j, i) => Closed(j, i)

WalkInv == WalkType /\ PassInv /\ JudgeInv

LEMMA TreeLists ==
  ASSUME NEW t \in Trees
  PROVE  /\ Len(t) \in Nat \ {0}
         /\ \A f \in 1 .. Len(t) : Len(t[f].fns) \in Nat
         /\ \A f \in 1 .. Len(t) : \A i \in 1 .. Len(t[f].fns) : DOMAIN t[f].fns[i].calls \subseteq Nat
  <1>1. IsList(t) /\ Len(t) # 0
    BY TreesAssumption
  <1>2. ASSUME NEW f \in 1 .. Len(t)
        PROVE  /\ IsList(t[f].fns)
               /\ \A i \in 1 .. Len(t[f].fns) : IsList(t[f].fns[i].calls)
    BY TreesAssumption DEF ListsOfCalls
  <1>3. ASSUME NEW f \in 1 .. Len(t), NEW i \in 1 .. Len(t[f].fns)
        PROVE  DOMAIN t[f].fns[i].calls \subseteq Nat
    BY <1>2 DEF IsList
  <1>4. \A f \in 1 .. Len(t) : Len(t[f].fns) \in Nat
    BY <1>2 DEF IsList
  <1> QED
    BY <1>1, <1>3, <1>4 DEF IsList

LEMMA WalkHolds ==
  ASSUME WriteInit
  PROVE  WalkInv
  <1>1. Len(tree) \in Nat \ {0}
    BY TreeLists DEF WriteInit
  <1>2. WalkType
    <2>1. grew \in BOOLEAN
      BY Zenon DEF WriteInit
    <2> QED
      BY <1>1, <2>1 DEF WriteInit, WalkType
  <1>3. PassInv
    <2>1. \A j, i : InTables(j, i) => ~Visited(j, i)
      BY <1>1 DEF WriteInit, InTables, Visited
    <2> QED
      BY <2>1 DEF PassInv
  <1>4. JudgeInv
    BY DEF WriteInit, JudgeInv
  <1> QED
    BY <1>2, <1>3, <1>4 DEF WalkInv

LEMMA WalkKept ==
  ASSUME WalkInv, [WriteNext]_writeVars
  PROVE  WalkInv'
  <1> USE DEF WalkInv
  <1>0. /\ Len(tree) \in Nat \ {0}
        /\ \A j \in 0 .. Len(tree) : Len(FileAt(tree, file, j).fns) \in Nat
    BY TreeLists DEF WalkType, FileAt
  <1>1. CASE VisitFunction
    <2>1. WalkType'
      BY <1>0, <1>1 DEF VisitFunction, WalkType
    <2>2. PassInv'
      <3>1. SUFFICES ASSUME step' = "wrappers", grew' = FALSE,
                            NEW j, NEW i, InTables(j, i)', Visited(j, i)'
                     PROVE  Closed(j, i)'
        BY DEF PassInv
      <3>2. grew = FALSE /\ ~Adds(place) /\ wrappers' = wrappers
        BY <1>1, <3>1 DEF VisitFunction, WalkType
      <3>3. tree' = tree /\ file' = file /\ table' = table /\ place' = place + 1 /\ step = "wrappers"
        BY <1>1 DEF VisitFunction
      <3>4. InTables(j, i)
        BY <3>1, <3>3 DEF InTables
      <3>5. CASE Visited(j, i)
        <4>1. Closed(j, i)
          BY <3>2, <3>3, <3>4, <3>5 DEF PassInv
        <4> QED
          BY <4>1, <3>2, <3>3 DEF Closed
      <3>6. CASE ~Visited(j, i)
        <4>1. j = table /\ i = place
          BY <1>0, <3>1, <3>3, <3>4, <3>6 DEF Visited, InTables, WalkType
        <4>2. Closed(j, i)
          BY <3>2, <4>1 DEF Adds, Closed, Here
        <4> QED
          BY <4>2, <3>2, <3>3 DEF Closed
      <3> QED
        BY <3>5, <3>6
    <2>3. JudgeInv'
      BY <1>1 DEF VisitFunction, JudgeInv
    <2> QED
      BY <2>1, <2>2, <2>3
  <1>2. CASE NextTable
    <2>1. WalkType'
      BY <1>0, <1>2 DEF NextTable, WalkType
    <2>2. PassInv'
      <3>1. SUFFICES ASSUME grew' = FALSE, NEW j, NEW i, InTables(j, i)', Visited(j, i)'
                     PROVE  Closed(j, i)'
        BY DEF PassInv
      <3>2. /\ tree' = tree /\ file' = file /\ table' = table + 1 /\ place' = 1 /\ step = "wrappers"
            /\ wrappers' = wrappers /\ grew = FALSE /\ ~InTable /\ table <= Len(tree)
        BY <1>2, <3>1 DEF NextTable
      <3>3. InTables(j, i)
        BY <3>1, <3>2 DEF InTables
      <3>4. j <= table
        BY <1>0, <3>1, <3>2, <3>3 DEF Visited, InTables, WalkType
      <3>5. Visited(j, i)
        <4>1. CASE j = table
          <5>1. ~(place <= Len(FileAt(tree, file, table).fns))
            BY <3>2, <3>3, <4>1 DEF InTable, Here, InTables
          <5> QED
            BY <1>0, <3>3, <4>1, <5>1 DEF Visited, InTables, WalkType
        <4>2. CASE j # table
          BY <1>0, <3>3, <3>4, <4>2 DEF Visited, InTables, WalkType
        <4> QED
          BY <4>1, <4>2
      <3>6. Closed(j, i)
        BY <3>2, <3>3, <3>5 DEF PassInv
      <3> QED
        BY <3>2, <3>6 DEF Closed
    <2>3. JudgeInv'
      BY <1>2 DEF NextTable, JudgeInv
    <2> QED
      BY <2>1, <2>2, <2>3
  <1>3. CASE EndPass
    <2>1. WalkType'
      <3>1. grew' \in BOOLEAN /\ step' \in {"wrappers", "judge"}
        BY <1>3, Zenon DEF EndPass
      <3> QED
        BY <1>0, <1>3, <3>1 DEF EndPass, WalkType
    <2>2. PassInv'
      <3>1. \A j, i : InTables(j, i)' => ~Visited(j, i)'
        BY <1>0, <1>3 DEF EndPass, InTables, Visited
      <3> QED
        BY <3>1 DEF PassInv
    <2>3. JudgeInv'
      <3>1. SUFFICES ASSUME step' = "judge", NEW j, NEW i, InTables(j, i)'
                     PROVE  Closed(j, i)'
        BY DEF JudgeInv
      <3>2. grew = FALSE /\ step = "wrappers" /\ table > Len(tree)
        BY <1>3, <3>1 DEF EndPass, PassAgain, WalkType
      <3>3. tree' = tree /\ file' = file /\ wrappers' = wrappers
        BY <1>3 DEF EndPass
      <3>4. InTables(j, i) /\ Visited(j, i)
        BY <1>0, <3>1, <3>2, <3>3 DEF InTables, Visited, WalkType
      <3>5. Closed(j, i)
        BY <3>2, <3>4 DEF PassInv
      <3> QED
        BY <3>3, <3>5 DEF Closed
    <2> QED
      BY <2>1, <2>2, <2>3
  <1>4. CASE JudgeFile
    <2>1. step = "judge" /\ tree' = tree /\ table' = 0 /\ place' = 1 /\ grew' = FALSE
      BY <1>4 DEF JudgeFile, WalkType
    <2>2. WalkType'
      BY <1>0, <1>4, <2>1 DEF JudgeFile, WalkType
    <2>3. PassInv'
      <3>1. \A j, i : InTables(j, i)' => ~Visited(j, i)'
        BY <1>0, <2>1 DEF InTables, Visited
      <3> QED
        BY <3>1 DEF PassInv
    <2>4. JudgeInv'
      BY <1>4 DEF JudgeFile, JudgeInv
    <2> QED
      BY <2>2, <2>3, <2>4
  <1>5. CASE UNCHANGED writeVars
    BY <1>5 DEF writeVars, WalkType, PassInv, JudgeInv, InTables, Visited, Closed
  <1> QED
    BY <1>1, <1>2, <1>3, <1>4, <1>5 DEF WriteNext

\* Whenever the calls of a file are judged, find_wrappers has reached its fixed point: every
\* function of the file and of src/ that hands its parameters to a write is a wrapper.
THEOREM WrappersComplete == WriteSpec => []ForwardersFound
  <1>1. WalkInv => ForwardersFound
    BY DEF WalkInv, JudgeInv, InTables, Closed, ForwardersFound
  <1> QED
    BY <1>1, WalkHolds, WalkKept, PTL DEF WriteSpec

-----------------------------------------------------------------------------
(* Nothing else is collected.                                              *)

\* A set of writing functions that is closed under one more call.
CallClosed(S) == OneMoreCall(InScope(file), S) \subseteq S

AllIn(wraps, S) == \A x \in DOMAIN wraps : <<x, wraps[x]>> \in S

\* A wrapper noted for a file writes what every closed set says it writes, so what the least
\* such set says: the writes that really reach a system call.
WrappersSound ==
  step \in {"wrappers", "judge"} => \A S : CallClosed(S) => AllIn(wrappers, S)

\* The shape the gate takes a call for is one of the writes the call makes.
LEMMA ShapeWrites ==
  ASSUME NEW call, NEW wraps, NEW S, AllIn(wraps, S), WriteShape(call, wraps) # NoWrite
  PROVE  WriteShape(call, wraps) \in WritesAt(call, S)
  <1> DEFINE s == WriteShape(call, wraps)
  <1>1. CASE call.callee = "syscall" /\ Len(call.args) = 4 /\ IsSysWrite(call.args[1]) /\ s = <<3, 4>>
    <2>1. <<3, 4>> = WriteShape(call, <<>>)
      BY <1>1 DEF WriteShape
    <2> QED
      BY <1>1, <2>1 DEF Direct, WritesAt
  <1>2. CASE call.callee = "sys_write" /\ Len(call.args) = 3 /\ s = <<2, 3>>
    <2>1. <<2, 3>> = WriteShape(call, <<>>)
      BY <1>2 DEF WriteShape
    <2> QED
      BY <1>2, <2>1 DEF Direct, WritesAt
  <1>3. CASE /\ call.callee \in DOMAIN wraps /\ s = wraps[call.callee]
             /\ s[1] <= Len(call.args) /\ s[2] <= Len(call.args)
    <2>1. <<call.callee, s>> \in S
      BY <1>3 DEF AllIn
    <2>2. s \in {u[2] : u \in {v \in S : v[1] = call.callee}}
      BY <2>1
    <2> QED
      BY <1>3, <2>2 DEF WritesAt
  <1> QED
    BY <1>1, <1>2, <1>3 DEF WriteShape

LEMMA ForwardWrites ==
  ASSUME NEW g, NEW k \in DOMAIN g.calls, NEW wraps, NEW S, AllIn(wraps, S), Forwards(g, k, wraps),
         NEW fns, g \in fns
  PROVE  <<g.name, PairOf(g, k, wraps)>> \in OneMoreCall(fns, S)
  <1> DEFINE c == g.calls[k]  s == WriteShape(c, wraps)
             handed(h, d) == {<<ParameterAt(h, d.args[t[1]]), ParameterAt(h, d.args[t[2]])>> :
                                t \in {u \in WritesAt(d, S) :
                                         IsParameter(h, d.args[u[1]]) /\ IsParameter(h, d.args[u[2]])}}
  <1>1. s \in WritesAt(c, S) /\ IsParameter(g, c.args[s[1]]) /\ IsParameter(g, c.args[s[2]])
    BY ShapeWrites DEF Forwards
  <1>2. PairOf(g, k, wraps) \in handed(g, c)
    BY <1>1 DEF PairOf
  <1>3. Triple(g, PairOf(g, k, wraps)) \in UNION {{Triple(g, pair) : pair \in handed(g, g.calls[i])} : i \in DOMAIN g.calls}
    BY <1>2
  <1>4. Triple(g, PairOf(g, k, wraps)) \in OneMoreCall(fns, S)
    BY <1>3 DEF OneMoreCall
  <1> QED
    BY <1>4 DEF Triple

\* A wrapper has a first forwarding call.
LEMMA FirstForwards ==
  ASSUME NEW g, NEW wraps, IsList(g.calls), IsWrapper(g, wraps)
  PROVE  FirstForward(g, wraps) \in DOMAIN g.calls /\ Forwards(g, FirstForward(g, wraps), wraps)
  <1> DEFINE F == {k \in DOMAIN g.calls : Forwards(g, k, wraps)}
  <1>1. PICK k \in F : \A l \in F : k <= l
    <2>1. F \subseteq Nat /\ F # {}
      BY DEF IsWrapper, IsList
    <2> QED
      BY <2>1, LeastNatural
  <1>2. ASSUME NEW j \in 1 .. k - 1 PROVE ~Forwards(g, j, wraps)
    <2>1. j \in DOMAIN g.calls /\ ~(k <= j)
      BY DEF IsList
    <2> QED
      BY <1>1, <2>1
  <1> QED
    BY <1>1, <1>2 DEF FirstForward

\* What a turn adds is a function of the tables, for a call of it that forwards.
LEMMA AddedInScope ==
  ASSUME WalkInv, VisitFunction, Adds(place)
  PROVE  \E f \in InScope(file) :
           /\ f.name \notin DOMAIN wrappers
           /\ \E k \in DOMAIN f.calls :
                Forwards(f, k, wrappers) /\ wrappers' = With(wrappers, f.name, PairOf(f, k, wrappers))
  <1> DEFINE f == Here.fns[place]
  <1>1. /\ wrappers' = With(wrappers, f.name, PairOf(f, FirstForward(f, wrappers), wrappers))
        /\ InTable
    BY DEF VisitFunction
  <1>2. /\ table \in 0 .. Len(tree) /\ Searched(tree, table)
        /\ place \in 1 .. Len(FileAt(tree, file, table).fns) /\ f = FileAt(tree, file, table).fns[place]
    <2>1. Len(FileAt(tree, file, table).fns) \in Nat /\ Len(tree) \in Nat
      BY <1>1, TreeLists DEF WalkInv, WalkType, FileAt, InTable
    <2> QED
      BY <1>1, <2>1 DEF InTable, Here, WalkInv, WalkType
  <1>3. IsList(FileAt(tree, file, table).fns) /\ IsList(f.calls)
    BY <1>2, TreesAssumption DEF WalkInv, WalkType, FileAt, ListsOfCalls
  <1>4. f \in InScope(file) /\ f.name \notin DOMAIN wrappers /\ IsWrapper(f, wrappers)
    BY <1>2, <1>3 DEF InScope, Adds, Here, IsList
  <1>5. FirstForward(f, wrappers) \in DOMAIN f.calls /\ Forwards(f, FirstForward(f, wrappers), wrappers)
    BY <1>3, <1>4, FirstForwards
  <1> HIDE DEF f
  <1> QED
    BY <1>1, <1>4, <1>5

LEMMA NothingSound == \A S : AllIn(<<>>, S)
  <1>1. DOMAIN <<>> = {}
    OBVIOUS
  <1> QED
    BY <1>1 DEF AllIn

\* What every behaviour keeps: the walk's invariant, and soundness of what was collected.
SoundInv == WalkInv /\ WrappersSound

LEMMA SoundKept ==
  ASSUME SoundInv, [WriteNext]_writeVars
  PROVE  WrappersSound'
  <1> USE DEF SoundInv
  <1>1. CASE VisitFunction
    <2>1. tree' = tree /\ file' = file /\ step = "wrappers"
      BY <1>1 DEF VisitFunction
    <2>2. SUFFICES ASSUME NEW S, CallClosed(S) PROVE AllIn(wrappers', S)
      BY <2>1 DEF WrappersSound, CallClosed, InScope
    <2>3. AllIn(wrappers, S)
      BY <2>1, <2>2 DEF WrappersSound
    <2>4. CASE ~Adds(place)
      BY <1>1, <2>3, <2>4 DEF VisitFunction
    <2>5. CASE Adds(place)
      <3>1. PICK f \in InScope(file) : \E k \in DOMAIN f.calls :
              Forwards(f, k, wrappers) /\ wrappers' = With(wrappers, f.name, PairOf(f, k, wrappers))
        BY <1>1, <2>5, AddedInScope
      <3>2. PICK k \in DOMAIN f.calls :
              Forwards(f, k, wrappers) /\ wrappers' = With(wrappers, f.name, PairOf(f, k, wrappers))
        BY <3>1
      <3>3. <<f.name, PairOf(f, k, wrappers)>> \in S
        BY <2>2, <2>3, <3>2, ForwardWrites DEF CallClosed
      <3> QED
        BY <2>3, <3>2, <3>3 DEF AllIn, With
    <2> QED
      BY <2>4, <2>5
  <1>2. ASSUME tree' = tree, file' = file, wrappers' = wrappers,
               step' \in {"wrappers", "judge"} => step \in {"wrappers", "judge"}
        PROVE  WrappersSound'
    <2>1. SUFFICES ASSUME step' \in {"wrappers", "judge"}, NEW S, CallClosed(S)'
                   PROVE  AllIn(wrappers', S)
      BY DEF WrappersSound
    <2>2. CallClosed(S)
      BY <1>2, <2>1 DEF CallClosed, InScope
    <2>3. AllIn(wrappers, S)
      BY <1>2, <2>1, <2>2 DEF WrappersSound
    <2> QED
      BY <1>2, <2>3
  <1>3. CASE NextTable \/ EndPass \/ UNCHANGED writeVars
    BY <1>2, <1>3 DEF NextTable, EndPass, writeVars
  <1>4. CASE JudgeFile
    <2>1. wrappers' = <<>>
      BY <1>4 DEF JudgeFile
    <2>2. SUFFICES ASSUME NEW S PROVE AllIn(wrappers', S)
      BY DEF WrappersSound
    <2> QED
      BY <2>1, NothingSound
  <1> QED
    BY <1>1, <1>3, <1>4 DEF WriteNext

\* The wrappers noted for a file lie in every set of writing functions that is closed under one
\* more call, so in the least one: find_wrappers never takes a function for a wrapper that does
\* not hand those two parameters to a system call in the end.
THEOREM WrappersOnlyWriters == WriteSpec => []WrappersSound
  <1>1. WriteInit => SoundInv
    <2>1. WriteInit => wrappers = <<>>
      BY DEF WriteInit
    <2> QED
      BY <2>1, WalkHolds, NothingSound DEF SoundInv, WrappersSound
  <1>2. SoundInv /\ [WriteNext]_writeVars => SoundInv'
    BY WalkKept, SoundKept DEF SoundInv
  <1> QED
    BY <1>1, <1>2, PTL DEF WriteSpec, SoundInv

-----------------------------------------------------------------------------
(* Chains of calls that end in a write.                                    *)

LEMMA MoreCallsFact ==
  ASSUME NEW fns, NEW S, NEW x
  PROVE  x \in OneMoreCall(fns, S) <=>
           \E g \in fns : \E k \in DOMAIN g.calls : \E s \in WritesAt(g.calls[k], S) :
             /\ IsParameter(g, g.calls[k].args[s[1]]) /\ IsParameter(g, g.calls[k].args[s[2]])
             /\ x = <<g.name, <<ParameterAt(g, g.calls[k].args[s[1]]), ParameterAt(g, g.calls[k].args[s[2]])>>>>
BY DEF OneMoreCall, Triple

LEMMA MoreCallsMonotone ==
  ASSUME NEW fns, NEW S, NEW T, S \subseteq T
  PROVE  OneMoreCall(fns, S) \subseteq OneMoreCall(fns, T)
<1>1. \A call : WritesAt(call, S) \subseteq WritesAt(call, T)
  BY DEF WritesAt
<1>. QED BY <1>1, MoreCallsFact

\* The levels of CallChains up to n.
Levels(fns, n, g) == g = [m \in 0 .. n |-> IF m = 0 THEN {} ELSE OneMoreCall(fns, g[m - 1])]

LEMMA LevelsExist ==
  ASSUME NEW fns, NEW n \in Nat
  PROVE  \E g : Levels(fns, n, g)
<1> DEFINE T == {m \in Nat : ~\E g : Levels(fns, m, g)}
<1>1. SUFFICES ASSUME T # {} PROVE FALSE
  OBVIOUS
<1>2. PICK m \in T : \A k \in T : m <= k
  <2>1. T \subseteq Nat
    OBVIOUS
  <2>. HIDE DEF T
  <2>. QED BY <1>1, <2>1, LeastNatural
<1>3. CASE m = 0
  <2>1. PICK g : g = [k \in 0 .. 0 |-> {}]
    OBVIOUS
  <2>2. Levels(fns, 0, g)
    BY <2>1 DEF Levels
  <2>. QED BY <1>3, <2>2
<1>4. CASE m # 0
  <2>1. m \in Nat \ {0} /\ m - 1 \in Nat
    BY <1>4
  <2>2. m - 1 \notin T
    BY <1>2, <2>1
  <2>3. PICK g : Levels(fns, m - 1, g)
    BY <2>1, <2>2
  <2>4. PICK h : h = [k \in 0 .. m |-> IF k = m THEN OneMoreCall(fns, g[m - 1]) ELSE g[k]]
    OBVIOUS
  <2>5. \A k \in 0 .. m : h[k] = IF k = 0 THEN {} ELSE OneMoreCall(fns, h[k - 1])
    <3>1. ASSUME NEW k \in 0 .. m PROVE h[k] = IF k = 0 THEN {} ELSE OneMoreCall(fns, h[k - 1])
      <4>1. CASE k = m
        <5>1. h[m] = OneMoreCall(fns, g[m - 1]) /\ h[m - 1] = g[m - 1]
          BY <2>1, <2>4
        <5>. QED BY <1>4, <4>1, <5>1
      <4>2. CASE k # m
        <5>1. k \in 0 .. m - 1 /\ h[k] = g[k] /\ (k # 0 => k - 1 \in 0 .. m /\ k - 1 # m)
          BY <2>1, <2>4, <4>2
        <5>2. k # 0 => h[k - 1] = g[k - 1]
          BY <2>4, <5>1
        <5>3. g[k] = IF k = 0 THEN {} ELSE OneMoreCall(fns, g[k - 1])
          BY <2>3, <5>1 DEF Levels
        <5>. QED BY <5>1, <5>2, <5>3
      <4>. QED BY <4>1, <4>2
    <3>. QED BY <3>1
  <2>6. Levels(fns, m, h)
    BY <2>4, <2>5 DEF Levels
  <2>. QED BY <2>6
<1>. QED BY <1>3, <1>4

\* CallChains, level by level; a level holds those below it.
LEMMA CallChainsFacts ==
  ASSUME NEW fns, IsFiniteSet(fns), NEW W, W = CallChains(fns), NEW N, N = Cardinality(fns)
  PROVE  /\ N \in Nat /\ W[0] = {}
         /\ \A n \in 0 .. N : n + 1 <= N => W[n + 1] = OneMoreCall(fns, W[n])
         /\ \A m, n \in 0 .. N : m <= n => W[m] \subseteq W[n]
<1>1. N \in Nat
  BY FS_CardinalityType
<1>2. W = [n \in 0 .. N |-> IF n = 0 THEN {} ELSE OneMoreCall(fns, W[n - 1])]
  <2>1. W = CHOOSE g : Levels(fns, N, g)
    BY DEF CallChains, Levels
  <2>2. Levels(fns, N, W)
    BY <1>1, <2>1, LevelsExist
  <2>. QED BY <2>2 DEF Levels
<1>3. W[0] = {}
  BY <1>1, <1>2
<1>4. ASSUME NEW n \in 0 .. N, n + 1 <= N PROVE W[n + 1] = OneMoreCall(fns, W[n])
  <2>1. n + 1 \in 0 .. N /\ n + 1 # 0 /\ (n + 1) - 1 = n
    BY <1>1, <1>4
  <2>. QED BY <1>2, <2>1
<1>5. ASSUME NEW n \in 0 .. N, n + 1 <= N PROVE W[n] \subseteq W[n + 1]
  <2> DEFINE T == {k \in 0 .. N : k + 1 <= N /\ ~(W[k] \subseteq W[k + 1])}
  <2>1. SUFFICES ASSUME T # {} PROVE FALSE
    BY <1>5
  <2>2. PICK k \in T : \A l \in T : k <= l
    <3>1. T \subseteq Nat
      BY <1>1
    <3>. HIDE DEF T
    <3>. QED BY <2>1, <3>1, LeastNatural
  <2>3. k # 0
    BY <1>3
  <2>4. k - 1 \in 0 .. N /\ (k - 1) + 1 <= N /\ k \in Nat /\ (k - 1) + 1 = k
    BY <1>1, <2>3
  <2>5. W[k - 1] \subseteq W[k]
    <3>1. k - 1 \notin T
      BY <2>2, <2>4
    <3>. QED BY <2>4, <3>1
  <2>6. W[k] = OneMoreCall(fns, W[k - 1]) /\ W[k + 1] = OneMoreCall(fns, W[k])
    BY <1>4, <2>4
  <2>. QED BY <2>5, <2>6, MoreCallsMonotone
<1>6. ASSUME NEW m \in 0 .. N, NEW n \in 0 .. N, m <= n PROVE W[m] \subseteq W[n]
  <2> DEFINE T == {k \in 0 .. N : m <= k /\ ~(W[m] \subseteq W[k])}
  <2>1. SUFFICES ASSUME T # {} PROVE FALSE
    BY <1>6
  <2>2. PICK k \in T : \A l \in T : k <= l
    <3>1. T \subseteq Nat
      BY <1>1
    <3>. HIDE DEF T
    <3>. QED BY <2>1, <3>1, LeastNatural
  <2>3. k # m
    OBVIOUS
  <2>4. k - 1 \in 0 .. N /\ (k - 1) + 1 <= N /\ k \in Nat /\ (k - 1) + 1 = k /\ m <= k - 1
    BY <1>1, <2>3
  <2>5. W[m] \subseteq W[k - 1]
    <3>1. k - 1 \notin T
      BY <2>2, <2>4
    <3>. QED BY <2>4, <3>1
  <2>6. W[k - 1] \subseteq W[k]
    BY <1>5, <2>4
  <2>. QED BY <2>5, <2>6
<1>. QED BY <1>1, <1>3, <1>4, <1>6

LEMMA ScopeFinite ==
  ASSUME tree \in Trees, NEW f \in 1 .. Len(tree)
  PROVE  IsFiniteSet(InScope(f))
<1> DEFINE at(j) == {k \in DOMAIN FileAt(tree, f, j).fns : Counts(FileAt(tree, f, j), k)}
           of(j) == {FileAt(tree, f, j).fns[i] : i \in at(j)}
           tables == {k \in 0 .. Len(tree) : Searched(tree, k)}
<1>1. IsFiniteSet(tables)
  <2>1. Len(tree) \in Nat
    BY TreeLists
  <2>2. IsFiniteSet(0 .. Len(tree))
    BY <2>1, FS_Interval
  <2>. QED BY <2>2, FS_Subset
<1>2. ASSUME NEW j \in tables PROVE IsFiniteSet(of(j))
  <2>1. IsList(FileAt(tree, f, j).fns)
    <3>1. j = 0 \/ j \in 1 .. Len(tree)
      BY TreeLists
    <3>. QED BY <3>1, TreesAssumption DEF FileAt
  <2>2. IsFiniteSet(at(j))
    <3>1. PICK n \in Nat : DOMAIN FileAt(tree, f, j).fns = 1 .. n
      BY <2>1 DEF IsList
    <3>2. IsFiniteSet(1 .. n)
      BY FS_Interval
    <3>. QED BY <3>1, <3>2, FS_Subset
  <2>3. PICK g : g = [i \in at(j) |-> FileAt(tree, f, j).fns[i]]
    OBVIOUS
  <2>4. of(j) = {g[i] : i \in at(j)}
    BY <2>3
  <2>. HIDE DEF of, at
  <2>. QED BY <2>2, <2>4, FiniteImage
<1>3. InScope(f) = UNION {of(j) : j \in tables}
  BY DEF InScope
<1>4. IsFiniteSet({of(j) : j \in tables})
  <2>. HIDE DEF of, tables
  <2>1. PICK g : g = [j \in tables |-> of(j)]
    OBVIOUS
  <2> DEFINE images == {of(j) : j \in tables}
  <2>2. images = {g[j] : j \in tables}
    BY <2>1
  <2>3. IsFiniteSet(images)
    <3>. HIDE DEF images
    <3>. QED BY <1>1, <2>2, FiniteImage
  <2>. QED BY <2>3
<1>5. IsFiniteSet(UNION {of(j) : j \in tables})
  <2>. HIDE DEF of, tables
  <2>. QED BY <1>2, <1>4, FS_UNION
<1>. QED BY <1>3, <1>5

NamesOf(fns) == {g.name : g \in fns}

LEMMA FewerNames ==
  ASSUME NEW fns, IsFiniteSet(fns), NEW T, T \subseteq NamesOf(fns)
  PROVE  IsFiniteSet(T) /\ Cardinality(T) <= Cardinality(fns) /\ Cardinality(T) \in Nat
<1>1. PICK names : names = NamesOf(fns)
  OBVIOUS
<1>2. PICK h : h = [g \in fns |-> g.name]
  OBVIOUS
<1>3. h \in Surjection(fns, names)
  BY <1>1, <1>2 DEF Surjection, NamesOf
<1>4. IsFiniteSet(names) /\ Cardinality(names) <= Cardinality(fns)
  BY <1>3, FS_Surjection
<1>5. IsFiniteSet(T) /\ Cardinality(T) <= Cardinality(names)
  BY <1>1, <1>4, FS_Subset
<1>6. Cardinality(T) \in Nat /\ Cardinality(names) \in Nat /\ Cardinality(fns) \in Nat
  BY <1>4, <1>5, FS_CardinalityType
<1>. QED BY <1>4, <1>5, <1>6

-----------------------------------------------------------------------------
(* A wrapper writes through a chain no longer than the wrappers are many.  *)

ChainInv ==
  step \in {"wrappers", "judge"} =>
    /\ DOMAIN wrappers \subseteq NamesOf(InScope(file))
    /\ AllIn(wrappers, CallChains(InScope(file))[Cardinality(DOMAIN wrappers)])

LEMMA NothingChained ==
  ASSUME NEW fns, NEW w, w = <<>>
  PROVE  DOMAIN w \subseteq NamesOf(fns) /\ AllIn(w, CallChains(fns)[Cardinality(DOMAIN w)])
<1>1. DOMAIN w = {}
  OBVIOUS
<1>. QED BY <1>1 DEF AllIn

LEMMA ChainKept ==
  ASSUME WalkInv, ChainInv, [WriteNext]_writeVars
  PROVE  ChainInv'
<1>1. CASE VisitFunction
  <2>1. tree' = tree /\ file' = file /\ step' = "wrappers" /\ step = "wrappers"
    BY <1>1 DEF VisitFunction
  <2>2. PICK fns : fns = InScope(file)
    OBVIOUS
  <2>3. fns = InScope(file)'
    BY <2>1, <2>2 DEF InScope
  <2>4. /\ DOMAIN wrappers \subseteq NamesOf(fns)
        /\ AllIn(wrappers, CallChains(fns)[Cardinality(DOMAIN wrappers)])
    BY <2>1, <2>2 DEF ChainInv
  <2>5. SUFFICES /\ DOMAIN wrappers' \subseteq NamesOf(fns)
                 /\ AllIn(wrappers', CallChains(fns)[Cardinality(DOMAIN wrappers')])
    BY <2>3 DEF ChainInv
  <2>6. CASE ~Adds(place)
    <3>1. wrappers' = wrappers
      BY <1>1, <2>6 DEF VisitFunction
    <3>. QED BY <2>4, <3>1
  <2>7. CASE Adds(place)
    <3>1. PICK f \in fns :
            /\ f.name \notin DOMAIN wrappers
            /\ \E k \in DOMAIN f.calls :
                 Forwards(f, k, wrappers) /\ wrappers' = With(wrappers, f.name, PairOf(f, k, wrappers))
      BY <1>1, <2>2, <2>7, AddedInScope
    <3>2. PICK k \in DOMAIN f.calls :
            Forwards(f, k, wrappers) /\ wrappers' = With(wrappers, f.name, PairOf(f, k, wrappers))
      BY <3>1
    <3>3. DOMAIN wrappers' = DOMAIN wrappers \cup {f.name} /\ DOMAIN wrappers' \subseteq NamesOf(fns)
      BY <2>4, <3>1, <3>2 DEF With, NamesOf
    <3>4. IsFiniteSet(fns)
      BY <2>2, ScopeFinite DEF WalkInv, WalkType
    <3>5. PICK W : W = CallChains(fns)
      OBVIOUS
    <3>6. PICK n, N : n = Cardinality(DOMAIN wrappers) /\ N = Cardinality(fns)
      OBVIOUS
    <3>7. Cardinality(DOMAIN wrappers') = n + 1 /\ n \in Nat /\ n + 1 <= N
      <4>1. IsFiniteSet(DOMAIN wrappers) /\ n \in Nat
        BY <2>4, <3>4, <3>6, FewerNames
      <4>2. Cardinality(DOMAIN wrappers') = n + 1
        BY <3>1, <3>3, <3>6, <4>1, FS_AddElement
      <4>3. Cardinality(DOMAIN wrappers') <= N
        BY <3>3, <3>4, <3>6, FewerNames
      <4>. QED BY <4>1, <4>2, <4>3
    <3>8. /\ N \in Nat /\ W[n + 1] = OneMoreCall(fns, W[n]) /\ W[n] \subseteq W[n + 1]
      <4>1. /\ N \in Nat
            /\ \A i \in 0 .. N : i + 1 <= N => W[i + 1] = OneMoreCall(fns, W[i])
            /\ \A i, j \in 0 .. N : i <= j => W[i] \subseteq W[j]
        BY <3>4, <3>5, <3>6, CallChainsFacts
      <4>2. n \in 0 .. N /\ n + 1 \in 0 .. N /\ n <= n + 1
        BY <3>7, <4>1
      <4>. QED BY <3>7, <4>1, <4>2
    <3>9. AllIn(wrappers, W[n])
      BY <2>4, <3>5, <3>6
    <3>10. <<f.name, PairOf(f, k, wrappers)>> \in W[n + 1]
      BY <3>2, <3>8, <3>9, ForwardWrites
    <3>11. AllIn(wrappers', W[n + 1])
      BY <3>2, <3>8, <3>9, <3>10 DEF AllIn, With
    <3>. QED BY <3>3, <3>5, <3>7, <3>11
  <2>. QED BY <2>6, <2>7
<1>2. ASSUME tree' = tree, file' = file, wrappers' = wrappers,
             step' \in {"wrappers", "judge"} => step \in {"wrappers", "judge"}
      PROVE  ChainInv'
  BY <1>2 DEF ChainInv, InScope
<1>3. CASE NextTable \/ EndPass \/ UNCHANGED writeVars
  BY <1>2, <1>3 DEF NextTable, EndPass, writeVars
<1>4. CASE JudgeFile
  <2>1. wrappers' = <<>>
    BY <1>4 DEF JudgeFile
  <2>2. PICK fns, w : fns = InScope(file)' /\ w = wrappers'
    OBVIOUS
  <2>3. DOMAIN w \subseteq NamesOf(fns) /\ AllIn(w, CallChains(fns)[Cardinality(DOMAIN w)])
    BY <2>1, <2>2, NothingChained
  <2>. QED BY <2>2, <2>3 DEF ChainInv
<1>. QED BY <1>1, <1>3, <1>4 DEF WriteNext

\* What the chains of one call to a function reach, reached at the end.
LEMMA ChainsReachWriters ==
  ASSUME WalkInv, ChainInv, step \in {"wrappers", "judge"}
  PROVE  AllIn(wrappers, Writers(file))
<1>1. PICK fns, W, n, N : /\ fns = InScope(file) /\ W = CallChains(fns)
                          /\ n = Cardinality(DOMAIN wrappers) /\ N = Cardinality(fns)
  OBVIOUS
<1>2. DOMAIN wrappers \subseteq NamesOf(fns) /\ AllIn(wrappers, W[n])
  BY <1>1 DEF ChainInv
<1>3. IsFiniteSet(fns)
  BY <1>1, ScopeFinite DEF WalkInv, WalkType
<1>4. n \in Nat /\ n <= N
  BY <1>1, <1>2, <1>3, FewerNames
<1>5. N \in Nat /\ \A i, j \in 0 .. N : i <= j => W[i] \subseteq W[j]
  BY <1>1, <1>3, CallChainsFacts
<1>6. W[n] \subseteq W[N]
  <2>1. n \in 0 .. N /\ N \in 0 .. N
    BY <1>4, <1>5
  <2>. QED BY <1>4, <1>5, <2>1
<1>. QED BY <1>1, <1>2, <1>6 DEF AllIn, Writers

\* A wrapper really writes through the two parameters noted for it, along calls that end in a
\* system call, for any number of files and functions in any order.
THEOREM WrappersReallyWrite == WriteSpec => []WrappersWrite
<1>1. WriteInit => WalkInv /\ ChainInv
  <2>1. SUFFICES ASSUME WriteInit PROVE ChainInv
    BY WalkHolds
  <2>2. PICK fns, w : fns = InScope(file) /\ w = wrappers
    OBVIOUS
  <2>3. w = <<>>
    BY <2>1, <2>2 DEF WriteInit
  <2>. QED BY <2>2, <2>3, NothingChained DEF ChainInv
<1>2. WalkInv /\ ChainInv /\ [WriteNext]_writeVars => WalkInv' /\ ChainInv'
  BY WalkKept, ChainKept
<1>3. WalkInv /\ ChainInv => WrappersWrite
  BY ChainsReachWriters DEF WrappersWrite, AllIn
<1>. QED BY <1>1, <1>2, <1>3, PTL DEF WriteSpec
-----------------------------------------------------------------------------
(* The search ends.                                                        *)

Rank(s) == CASE s = "wrappers" -> 0 [] s = "judge" -> 1 [] s = "done" -> 2

\* What a step moves forward, the first that counts most: the file, the step, the wrappers, a
\* new pass after one that found something, the table, the place in it.
Advances ==
  \/ file' > file
  \/ file' = file /\ Rank(step') > Rank(step)
  \/ /\ file' = file /\ step' = step
     /\ \/ DOMAIN wrappers \subseteq DOMAIN wrappers' /\ DOMAIN wrappers # DOMAIN wrappers'
        \/ wrappers' = wrappers /\ grew /\ ~grew'
        \/ wrappers' = wrappers /\ grew' = grew /\ table' > table
        \/ wrappers' = wrappers /\ grew' = grew /\ table' = table /\ place' > place

\* None of these goes on for ever.
PlaceBounded == place = 1 \/ (table \in 0 .. Len(tree) /\ place - 1 <= Len(Here.fns))

Bounded ==
  /\ file <= Len(tree) /\ Rank(step) <= 2 /\ table <= Len(tree) + 1 /\ PlaceBounded
  /\ step \in {"wrappers", "judge"} =>
       DOMAIN wrappers \subseteq NamesOf(InScope(file)) /\ IsFiniteSet(NamesOf(InScope(file)))

LEMMA NamesFinite ==
  ASSUME NEW fns, IsFiniteSet(fns)
  PROVE  IsFiniteSet(NamesOf(fns))
<1>1. PICK g : g = [f \in fns |-> f.name]
  OBVIOUS
<1>2. NamesOf(fns) = {g[f] : f \in fns}
  BY <1>1 DEF NamesOf
<1>. QED BY <1>2, FiniteImage

LEMMA PlaceKept ==
  ASSUME WalkInv, PlaceBounded, [WriteNext]_writeVars
  PROVE  PlaceBounded'
<1>1. CASE VisitFunction
  <2>1. /\ tree' = tree /\ file' = file /\ table' = table /\ place' = place + 1
        /\ table <= Len(tree) /\ place <= Len(Here.fns)
    BY <1>1 DEF VisitFunction, InTable
  <2>2. table \in 0 .. Len(tree) /\ place \in Nat
    BY <2>1, TreeLists DEF WalkInv, WalkType
  <2>3. Here' = Here /\ place' - 1 = place
    BY <2>1, <2>2 DEF Here
  <2>. QED BY <2>1, <2>2, <2>3 DEF PlaceBounded
<1>2. CASE NextTable \/ EndPass
  BY <1>2 DEF NextTable, EndPass, PlaceBounded
<1>3. CASE JudgeFile
  <2>1. place = 1 /\ place' = place
    BY <1>3 DEF JudgeFile, WalkInv, WalkType
  <2>. QED BY <2>1 DEF PlaceBounded
<1>4. CASE UNCHANGED writeVars
  BY <1>4 DEF writeVars, PlaceBounded, Here
<1>. QED BY <1>1, <1>2, <1>3, <1>4 DEF WriteNext

LEMMA StepAdvances ==
  ASSUME WalkInv, WriteNext
  PROVE  Advances
<1>1. CASE VisitFunction
  <2>1. file' = file /\ step' = step /\ table' = table /\ place' = place + 1 /\ place \in Nat
    BY <1>1 DEF VisitFunction, WalkInv, WalkType
  <2>2. CASE Adds(place)
    <3>1. PICK f \in InScope(file) :
            /\ f.name \notin DOMAIN wrappers
            /\ \E k \in DOMAIN f.calls : wrappers' = With(wrappers, f.name, PairOf(f, k, wrappers))
      BY <1>1, <2>2, AddedInScope
    <3>2. DOMAIN wrappers' = DOMAIN wrappers \cup {f.name}
      BY <3>1 DEF With
    <3>. QED BY <2>1, <3>1, <3>2 DEF Advances
  <2>3. CASE ~Adds(place)
    <3>1. wrappers' = wrappers /\ grew' = grew
      BY <1>1, <2>3 DEF VisitFunction, WalkInv, WalkType
    <3>2. place' > place
      BY <2>1
    <3>. QED BY <2>1, <3>1, <3>2 DEF Advances
  <2>. QED BY <2>2, <2>3
<1>2. CASE NextTable
  <2>1. table' = table + 1 /\ table \in Nat
    BY <1>2, TreeLists DEF NextTable, WalkInv, WalkType
  <2>2. table' > table
    BY <2>1
  <2>. QED BY <1>2, <2>2 DEF NextTable, Advances
<1>3. CASE EndPass
  <2>1. CASE grew
    BY <1>3, <2>1 DEF EndPass, PassAgain, Advances
  <2>2. CASE ~grew
    <3>1. step = "wrappers" /\ step' = "judge" /\ file' = file
      BY <1>3, <2>2 DEF EndPass, PassAgain
    <3>2. Rank(step') > Rank(step)
      BY <3>1 DEF Rank
    <3>. QED BY <3>1, <3>2 DEF Advances
  <2>. QED BY <2>1, <2>2
<1>4. CASE JudgeFile
  <2>1. CASE file < Len(tree)
    <3>1. file' = file + 1 /\ file \in Nat
      BY <1>4, <2>1, TreeLists DEF JudgeFile, WalkInv, WalkType
    <3>2. file' > file
      BY <3>1
    <3>. QED BY <3>2 DEF Advances
  <2>2. CASE ~(file < Len(tree))
    <3>1. step = "judge" /\ step' = "done" /\ file' = file
      BY <1>4, <2>2 DEF JudgeFile
    <3>2. Rank(step') > Rank(step)
      BY <3>1 DEF Rank
    <3>. QED BY <3>1, <3>2 DEF Advances
  <2>. QED BY <2>1, <2>2
<1>. QED BY <1>1, <1>2, <1>3, <1>4 DEF WriteNext

\* find_wrappers and the judging of the files take finitely many steps: each one moves something
\* forward that has an end, and what it sets back counts less.  A pass is repeated only when it
\* found a wrapper, and there are no more of them than functions.
THEOREM SearchEnds == WriteSpec => [][Advances]_writeVars /\ []Bounded
<1>1. WriteInit => WalkInv /\ ChainInv /\ PlaceBounded
  <2>1. SUFFICES ASSUME WriteInit PROVE ChainInv /\ PlaceBounded
    BY WalkHolds
  <2>2. PICK fns, w : fns = InScope(file) /\ w = wrappers
    OBVIOUS
  <2>3. w = <<>>
    BY <2>1, <2>2 DEF WriteInit
  <2>4. ChainInv
    BY <2>2, <2>3, NothingChained DEF ChainInv
  <2>5. PlaceBounded
    BY <2>1 DEF WriteInit, PlaceBounded
  <2>. QED BY <2>4, <2>5
<1>2. /\ WalkInv /\ ChainInv /\ PlaceBounded /\ [WriteNext]_writeVars
      => WalkInv' /\ ChainInv' /\ PlaceBounded'
  BY WalkKept, ChainKept, PlaceKept
<1>3. WalkInv /\ ChainInv /\ PlaceBounded => Bounded
  <2>1. SUFFICES ASSUME WalkInv, ChainInv, PlaceBounded PROVE Bounded
    OBVIOUS
  <2>2. Rank(step) <= 2 /\ file <= Len(tree) /\ table <= Len(tree) + 1
    BY <2>1, TreeLists DEF WalkInv, WalkType, Rank
  <2>3. IsFiniteSet(NamesOf(InScope(file)))
    BY <2>1, ScopeFinite, NamesFinite DEF WalkInv, WalkType
  <2>. QED BY <2>1, <2>2, <2>3 DEF Bounded, ChainInv
<1>4. WalkInv /\ [WriteNext]_writeVars => [Advances]_writeVars
  BY StepAdvances
<1>. QED BY <1>1, <1>2, <1>3, <1>4, PTL DEF WriteSpec

-----------------------------------------------------------------------------
(* What is reported.                                                       *)

\* What was collected, as a set of triples.
Graph(wraps) == {<<x, wraps[x]>> : x \in DOMAIN wraps}

\* A wrapper stands for two positions of a list of parameters.
Positions(pair) == \E i, j \in Nat \ {0} : pair = <<i, j>>

LEMMA ParameterFact ==
  ASSUME NEW g, NEW arg, IsList(g.params), IsParameter(g, arg)
  PROVE  ParameterAt(g, arg) \in Nat \ {0}
<1> DEFINE T == {i \in DOMAIN g.params : g.params[i] = arg.x}
<1>1. DOMAIN g.params = 1 .. Len(g.params) /\ Len(g.params) \in Nat
  BY DEF IsList
<1>2. PICK i \in T : \A j \in T : i <= j
  <2>1. T \subseteq Nat /\ T # {}
    BY <1>1 DEF IsParameter
  <2>. HIDE DEF T
  <2>. QED BY <2>1, LeastNatural
<1>3. \A j \in 1 .. i - 1 : g.params[j] # arg.x
  <2>1. \A j \in 1 .. i - 1 : j \in DOMAIN g.params /\ ~(i <= j)
    BY <1>1
  <2>. QED BY <1>2, <2>1
<1>4. \E k \in DOMAIN g.params : g.params[k] = arg.x /\ \A j \in 1 .. k - 1 : g.params[j] # arg.x
  BY <1>3
<1>5. ParameterAt(g, arg) \in DOMAIN g.params
  BY <1>4 DEF ParameterAt
<1>. QED BY <1>1, <1>5

\* The functions in scope are lists throughout.
LEMMA ScopeLists ==
  ASSUME tree \in Trees, NEW f \in 1 .. Len(tree), NEW g \in InScope(f)
  PROVE  /\ ListsOfCalls(g)
         /\ \E j \in 0 .. Len(tree) : Searched(tree, j) /\
              \E i \in 1 .. Len(FileAt(tree, f, j).fns) :
                g = FileAt(tree, f, j).fns[i] /\ Counts(FileAt(tree, f, j), i)
<1>1. PICK j \in 0 .. Len(tree) : Searched(tree, j) /\
        \E i \in DOMAIN FileAt(tree, f, j).fns :
          g = FileAt(tree, f, j).fns[i] /\ Counts(FileAt(tree, f, j), i)
  BY DEF InScope
<1>2. PICK i \in DOMAIN FileAt(tree, f, j).fns :
        g = FileAt(tree, f, j).fns[i] /\ Counts(FileAt(tree, f, j), i)
  BY <1>1
<1>3. j = 0 \/ j \in 1 .. Len(tree)
  BY TreeLists
<1>4. /\ IsList(FileAt(tree, f, j).fns)
      /\ \A k \in 1 .. Len(FileAt(tree, f, j).fns) : ListsOfCalls(FileAt(tree, f, j).fns[k])
  BY <1>3, TreesAssumption DEF FileAt
<1>. QED BY <1>1, <1>2, <1>4 DEF IsList

\* The shape the gate takes a call for is all the call writes, if the writing functions are the
\* wrappers and no function passes for a system call.
LEMMA ShapeIsAll ==
  ASSUME NEW call, NEW wraps, NEW s, IsList(call.args),
         "syscall" \notin DOMAIN wraps, "sys_write" \notin DOMAIN wraps,
         \A x \in DOMAIN wraps : Positions(wraps[x])
  PROVE  s \in WritesAt(call, Graph(wraps)) <=> s = WriteShape(call, wraps) /\ s # NoWrite
<1>1. /\ \A x : x \in {u[2] : u \in {v \in Graph(wraps) : v[1] = call.callee}} <=>
                call.callee \in DOMAIN wraps /\ x = wraps[call.callee]
      /\ Len(call.args) \in Nat
  <2>1. ASSUME NEW x
        PROVE  (\E u \in Graph(wraps) : u[1] = call.callee /\ x = u[2])
                 <=> call.callee \in DOMAIN wraps /\ x = wraps[call.callee]
    <3>1. ASSUME NEW u \in Graph(wraps), u[1] = call.callee, x = u[2]
          PROVE  call.callee \in DOMAIN wraps /\ x = wraps[call.callee]
      <4>1. PICK y \in DOMAIN wraps : u = <<y, wraps[y]>>
        BY DEF Graph
      <4>. QED BY <3>1, <4>1
    <3>2. ASSUME call.callee \in DOMAIN wraps, x = wraps[call.callee]
          PROVE  \E u \in Graph(wraps) : u[1] = call.callee /\ x = u[2]
      <4>1. PICK u : u = <<call.callee, wraps[call.callee]>>
        OBVIOUS
      <4>2. u \in Graph(wraps) /\ u[1] = call.callee /\ x = u[2]
        BY <3>2, <4>1 DEF Graph
      <4>. QED BY <4>2
    <3>. QED BY <3>1, <3>2
  <2>2. \A x : x \in {u[2] : u \in {v \in Graph(wraps) : v[1] = call.callee}} <=>
          \E u \in Graph(wraps) : u[1] = call.callee /\ x = u[2]
    OBVIOUS
  <2>. QED BY <2>1, <2>2 DEF IsList
<1>2. NoWrite # <<3, 4>> /\ NoWrite # <<2, 3>> /\ \A pair : Positions(pair) => pair # NoWrite
  BY DEF NoWrite, Positions
<1>3. DOMAIN <<>> = {}
  OBVIOUS
<1>4. CASE call.callee = "syscall" /\ Len(call.args) = 4 /\ IsSysWrite(call.args[1])
  <2>1. WriteShape(call, <<>>) = <<3, 4>> /\ WriteShape(call, wraps) = <<3, 4>>
    BY <1>3, <1>4 DEF WriteShape
  <2>2. Direct(call) = {<<3, 4>>}
    BY <2>1 DEF Direct
  <2>. QED BY <1>1, <1>2, <1>4, <2>1, <2>2 DEF WritesAt
<1>5. CASE call.callee = "sys_write" /\ Len(call.args) = 3
  <2>1. WriteShape(call, <<>>) = <<2, 3>> /\ WriteShape(call, wraps) = <<2, 3>>
    BY <1>3, <1>5 DEF WriteShape
  <2>2. Direct(call) = {<<2, 3>>}
    BY <2>1 DEF Direct
  <2>. QED BY <1>1, <1>2, <1>5, <2>1, <2>2 DEF WritesAt
<1>6. CASE /\ ~(call.callee = "syscall" /\ Len(call.args) = 4 /\ IsSysWrite(call.args[1]))
           /\ ~(call.callee = "sys_write" /\ Len(call.args) = 3)
  <2>1. Direct(call) = {}
    <3>1. WriteShape(call, <<>>) = NoWrite
      BY <1>3, <1>6 DEF WriteShape
    <3>. QED BY <1>2, <3>1 DEF Direct
  <2>2. CASE call.callee \in DOMAIN wraps
    <3>1. PICK pair : pair = wraps[call.callee] /\ Positions(pair)
      BY <2>2
    <3>2. WriteShape(call, wraps) =
            IF pair[1] <= Len(call.args) /\ pair[2] <= Len(call.args) THEN pair ELSE NoWrite
      BY <1>6, <2>2, <3>1 DEF WriteShape
    <3>. QED BY <1>1, <1>2, <2>1, <2>2, <3>1, <3>2 DEF WritesAt
  <2>3. CASE call.callee \notin DOMAIN wraps
    <3>1. WriteShape(call, wraps) = NoWrite
      BY <1>6, <2>3 DEF WriteShape
    <3>. QED BY <1>1, <2>1, <2>3, <3>1 DEF WritesAt
  <2>. QED BY <2>2, <2>3
<1>. QED BY <1>4, <1>5, <1>6

\* A chain names a function in scope and two of its parameters.
LEMMA ChainFacts ==
  ASSUME tree \in Trees, NEW f \in 1 .. Len(tree), NEW S, NEW u \in OneMoreCall(InScope(f), S)
  PROVE  Positions(u[2]) /\ u = <<u[1], u[2]>> /\ u[1] \in NamesOf(InScope(f))
<1>1. PICK g \in InScope(f) : \E k \in DOMAIN g.calls : \E s \in WritesAt(g.calls[k], S) :
        /\ IsParameter(g, g.calls[k].args[s[1]]) /\ IsParameter(g, g.calls[k].args[s[2]])
        /\ u = <<g.name, <<ParameterAt(g, g.calls[k].args[s[1]]), ParameterAt(g, g.calls[k].args[s[2]])>>>>
  BY MoreCallsFact
<1>2. IsList(g.params)
  BY ScopeLists DEF ListsOfCalls
<1>3. \E i, j \in Nat \ {0} : u = <<g.name, <<i, j>>>>
  BY <1>1, <1>2, ParameterFact
<1>. QED BY <1>3 DEF Positions, NamesOf

LEMMA WritersFacts ==
  ASSUME tree \in Trees, NEW f \in 1 .. Len(tree), NEW u \in Writers(f)
  PROVE  Positions(u[2]) /\ u = <<u[1], u[2]>> /\ u[1] \in NamesOf(InScope(f))
<1>1. PICK fns, W, N : fns = InScope(f) /\ W = CallChains(fns) /\ N = Cardinality(fns)
  OBVIOUS
<1>2. IsFiniteSet(fns)
  BY <1>1, ScopeFinite
<1>3. /\ N \in Nat /\ W[0] = {}
      /\ \A n \in 0 .. N : n + 1 <= N => W[n + 1] = OneMoreCall(fns, W[n])
  BY <1>1, <1>2, CallChainsFacts
<1>4. u \in W[N]
  BY <1>1 DEF Writers
<1>5. N # 0
  BY <1>3, <1>4
<1>6. N - 1 \in 0 .. N /\ (N - 1) + 1 = N /\ (N - 1) + 1 <= N
  BY <1>3, <1>5
<1>7. u \in OneMoreCall(InScope(f), W[N - 1])
  BY <1>1, <1>3, <1>4, <1>6
<1>. QED BY <1>7, ChainFacts

\* Where nothing is ambiguous, what was collected is what writes.
LEMMA WritersNoted ==
  ASSUME WalkInv, ChainInv, step = "judge", Unambiguous(file, Writers(file))
  PROVE  Writers(file) = Graph(wrappers)
<1>1. PICK fns, W, N : fns = InScope(file) /\ W = CallChains(fns) /\ N = Cardinality(fns)
  OBVIOUS
<1>2. tree \in Trees /\ file \in 1 .. Len(tree)
  BY DEF WalkInv, WalkType
<1>3. IsFiniteSet(fns)
  BY <1>1, <1>2, ScopeFinite
<1>4. /\ N \in Nat /\ W[0] = {}
      /\ \A n \in 0 .. N : n + 1 <= N => W[n + 1] = OneMoreCall(fns, W[n])
      /\ \A m, n \in 0 .. N : m <= n => W[m] \subseteq W[n]
  BY <1>1, <1>3, CallChainsFacts
<1>5. Writers(file) = W[N]
  BY <1>1 DEF Writers
<1>6. AllIn(wrappers, W[N])
  BY <1>5, ChainsReachWriters
<1>7. Graph(wrappers) \subseteq W[N]
  BY <1>6 DEF AllIn, Graph
<1>8. /\ \A x \in DOMAIN wrappers : Positions(wrappers[x])
      /\ "syscall" \notin DOMAIN wrappers /\ "sys_write" \notin DOMAIN wrappers
  <2>1. ASSUME NEW x \in DOMAIN wrappers PROVE Positions(wrappers[x]) /\ x \in NamesOf(InScope(file))
    <3>1. PICK u : u = <<x, wrappers[x]>>
      OBVIOUS
    <3>2. u \in Writers(file)
      BY <1>5, <1>6, <3>1 DEF AllIn
    <3>3. Positions(u[2]) /\ u[1] \in NamesOf(InScope(file))
      BY <1>2, <3>2, WritersFacts
    <3>. QED BY <3>1, <3>3
  <2>2. \A x \in NamesOf(InScope(file)) : x # "syscall" /\ x # "sys_write"
    BY DEF Unambiguous, NamesOf
  <2>. QED BY <2>1, <2>2
\* One level after the other is collected.
<1>9. ASSUME NEW n \in 0 .. N, n + 1 <= N, W[n] \subseteq Graph(wrappers)
      PROVE  W[n + 1] \subseteq Graph(wrappers)
  <2>1. SUFFICES ASSUME NEW u \in W[n + 1] PROVE u \in Graph(wrappers)
    OBVIOUS
  <2>2. PICK g \in fns : \E k \in DOMAIN g.calls : \E s \in WritesAt(g.calls[k], W[n]) :
          /\ IsParameter(g, g.calls[k].args[s[1]]) /\ IsParameter(g, g.calls[k].args[s[2]])
          /\ u = <<g.name, <<ParameterAt(g, g.calls[k].args[s[1]]), ParameterAt(g, g.calls[k].args[s[2]])>>>>
    <3>1. u \in OneMoreCall(fns, W[n])
      BY <1>4, <1>9, <2>1
    <3>. QED BY <3>1, MoreCallsFact
  <2>3. PICK k \in DOMAIN g.calls : \E s \in WritesAt(g.calls[k], W[n]) :
          /\ IsParameter(g, g.calls[k].args[s[1]]) /\ IsParameter(g, g.calls[k].args[s[2]])
          /\ u = <<g.name, <<ParameterAt(g, g.calls[k].args[s[1]]), ParameterAt(g, g.calls[k].args[s[2]])>>>>
    BY <2>2
  <2>4. PICK s \in WritesAt(g.calls[k], W[n]) :
          IsParameter(g, g.calls[k].args[s[1]]) /\ IsParameter(g, g.calls[k].args[s[2]])
    BY <2>3
  <2>5. s \in WritesAt(g.calls[k], Graph(wrappers))
    BY <1>9, <2>4 DEF WritesAt
  <2>6. /\ ListsOfCalls(g)
        /\ \E j \in 0 .. Len(tree) : Searched(tree, j) /\
             \E i \in 1 .. Len(FileAt(tree, file, j).fns) :
               g = FileAt(tree, file, j).fns[i] /\ Counts(FileAt(tree, file, j), i)
    BY <1>1, <1>2, ScopeLists
  <2>7. IsList(g.calls[k].args)
    BY <2>6 DEF ListsOfCalls
  <2>8. s = WriteShape(g.calls[k], wrappers) /\ s # NoWrite
    BY <1>8, <2>5, <2>7, ShapeIsAll
  <2>9. IsWrapper(g, wrappers)
    BY <2>4, <2>8 DEF IsWrapper, Forwards
  <2>10. g.name \in DOMAIN wrappers
    BY <2>6, <2>9 DEF WalkInv, JudgeInv, InTables, Closed
  <2>11. u \in Writers(file) /\ u[1] = g.name
    <3>1. n + 1 \in 0 .. N /\ N \in 0 .. N
      BY <1>4, <1>9
    <3>. QED BY <1>4, <1>5, <1>9, <2>1, <2>2, <3>1
  <2>12. PICK v : v = <<g.name, wrappers[g.name]>>
    OBVIOUS
  <2>13. v \in Writers(file) /\ v \in Graph(wrappers) /\ v[1] = g.name
    BY <1>5, <1>6, <2>10, <2>12 DEF AllIn, Graph
  <2>14. u = v
    BY <2>11, <2>13 DEF Unambiguous
  <2>. QED BY <2>13, <2>14
<1>10. W[N] \subseteq Graph(wrappers)
  <2> DEFINE T == {n \in 0 .. N : ~(W[n] \subseteq Graph(wrappers))}
  <2>1. SUFFICES ASSUME T # {} PROVE FALSE
    BY <1>4
  <2>2. PICK n \in T : \A l \in T : n <= l
    <3>1. T \subseteq Nat
      BY <1>4
    <3>. HIDE DEF T
    <3>. QED BY <2>1, <3>1, LeastNatural
  <2>3. n # 0
    BY <1>4
  <2>4. n - 1 \in 0 .. N /\ (n - 1) + 1 <= N /\ n \in Nat /\ (n - 1) + 1 = n
    BY <1>4, <2>3
  <2>5. W[n - 1] \subseteq Graph(wrappers)
    <3>1. n - 1 \notin T
      BY <2>2, <2>4
    <3>. QED BY <2>4, <3>1
  <2>. QED BY <1>9, <2>4, <2>5
<1>. QED BY <1>5, <1>7, <1>10

\* The script counts the bytes the compiler makes.
LEMMA WidthIsBytes ==
  ASSUME NEW p, Encodable(p), WellCounted(p)
  PROVE  PieceWidth(p) = p.bytes
<1>1. CASE p.form \in {"simple", "hex"}
  BY <1>1 DEF WellCounted, PieceWidth
<1>2. CASE p.form \notin {"simple", "hex"}
  <2>1. PICK code \in Nat, b \in 1 .. 4 :
          /\ code = p.code /\ b = p.bytes /\ code < Utf8Limits[b]
          /\ \A c \in 1 .. b - 1 : Utf8Limits[c] <= code
    BY <1>2 DEF WellCounted
  <2>2. Utf8Limits[1] = 128 /\ Utf8Limits[2] = 2048 /\ Utf8Limits[3] = 65536 /\ Utf8Limits[4] = 1114112
    BY DEF Utf8Limits
  <2>3. \/ b = 1 /\ code < 128
        \/ b = 2 /\ 128 <= code /\ code < 2048
        \/ b = 3 /\ 2048 <= code /\ code < 65536
        \/ b = 4 /\ 65536 <= code
    <3>1. b = 1 => code < 128
      BY <2>1, <2>2
    <3>2. b = 2 => 128 <= code /\ code < 2048
      BY <2>1, <2>2
    <3>3. b = 3 => 2048 <= code /\ code < 65536
      BY <2>1, <2>2
    <3>4. b = 4 => 65536 <= code
      BY <2>1, <2>2
    <3>. QED BY <3>1, <3>2, <3>3, <3>4
  <2>4. Utf8Width(code) = b
    <3>1. b = 1 /\ code < 128 => Utf8Width(code) = b
      BY DEF Utf8Width
    <3>2. b = 2 /\ 128 <= code /\ code < 2048 => Utf8Width(code) = b
      BY DEF Utf8Width
    <3>3. b = 3 /\ 2048 <= code /\ code < 65536 => Utf8Width(code) = b
      BY DEF Utf8Width
    <3>4. b = 4 /\ 65536 <= code => Utf8Width(code) = b
      BY DEF Utf8Width
    <3>. QED BY <2>3, <3>1, <3>2, <3>3, <3>4
  <2>. QED BY <1>2, <2>1, <2>4 DEF PieceWidth
<1>. QED BY <1>1, <1>2

LEMMA LengthIsBytes ==
  ASSUME NEW lit, Decodable(lit), \A i \in DOMAIN lit.pieces : Encodable(lit.pieces[i]) => WellCounted(lit.pieces[i])
  PROVE  DecodedLength(lit) = BytesOf(lit)
<1>1. \A i \in DOMAIN lit.pieces : PieceWidth(lit.pieces[i]) = lit.pieces[i].bytes
  BY WidthIsBytes DEF Decodable
<1>2. [i \in DOMAIN lit.pieces |-> PieceWidth(lit.pieces[i])] = [i \in DOMAIN lit.pieces |-> lit.pieces[i].bytes]
  BY <1>1
<1>. QED BY <1>2 DEF DecodedLength, BytesOf

Reported(p) ==
  /\ CountedWrite(CallAt(tree[file], p), wrappers)
  /\ tree[file].strict \/ WrongCount(CallAt(tree[file], p), wrappers)

\* Call p of file f is to be reported.
Accountable(f, p, truth) ==
  CountedInTruth(f, CallAt(tree[f], p), truth) \/ UnreadableCount(CallAt(tree[f], p), truth)

\* What a call of an unambiguous file is judged is the truth about it.
LEMMA JudgedRight ==
  ASSUME WalkInv, ChainInv, step = "judge", NEW truth, truth = Writers(file), Unambiguous(file, truth),
         NEW p \in CallsIn(tree[file])
  PROVE  Reported(p) <=> Accountable(file, p, truth)
<1>1. PICK call : call = CallAt(tree[file], p)
  OBVIOUS
<1>2. tree \in Trees /\ file \in 1 .. Len(tree)
  BY DEF WalkInv, WalkType
<1>3. PICK i \in DOMAIN tree[file].fns : \E k \in DOMAIN tree[file].fns[i].calls : call = tree[file].fns[i].calls[k]
  BY <1>1 DEF CallsIn, CallAt
<1>4. IsList(call.args)
  <2>1. IsList(tree[file].fns) /\ \A n \in 1 .. Len(tree[file].fns) : ListsOfCalls(tree[file].fns[n])
    BY <1>2, TreesAssumption
  <2>2. ListsOfCalls(tree[file].fns[i])
    BY <1>3, <2>1 DEF IsList
  <2>. QED BY <1>3, <2>2 DEF ListsOfCalls
<1>5. truth = Graph(wrappers)
  BY WritersNoted
<1>6. /\ \A x \in DOMAIN wrappers : Positions(wrappers[x])
      /\ "syscall" \notin DOMAIN wrappers /\ "sys_write" \notin DOMAIN wrappers
  <2>1. ASSUME NEW x \in DOMAIN wrappers PROVE Positions(wrappers[x]) /\ x \in NamesOf(InScope(file))
    <3>1. PICK u : u = <<x, wrappers[x]>>
      OBVIOUS
    <3>2. u \in Writers(file)
      BY <1>5, <3>1 DEF Graph
    <3>3. Positions(u[2]) /\ u[1] \in NamesOf(InScope(file))
      BY <1>2, <3>2, WritersFacts
    <3>. QED BY <3>1, <3>3
  <2>2. \A x \in NamesOf(InScope(file)) : x # "syscall" /\ x # "sys_write"
    BY DEF Unambiguous, NamesOf
  <2>. QED BY <2>1, <2>2
<1>7. PICK shape : shape = WriteShape(call, wrappers)
  OBVIOUS
<1>8. \A s : s \in WritesAt(call, truth) <=> s = shape /\ shape # NoWrite
  BY <1>4, <1>5, <1>6, <1>7, ShapeIsAll
<1>9. PICK lit, n : lit = call.args[shape[1]] /\ n = call.args[shape[2]]
  OBVIOUS
<1>10. CountedInTruth(file, call, truth) <=>
         /\ shape # NoWrite /\ lit.kind = "str" /\ n.kind = "num"
         /\ tree[file].strict \/ ~Decodable(lit) \/ n.n # BytesOf(lit)
  BY <1>8, <1>9 DEF CountedInTruth
<1>13. UnreadableCount(call, truth) <=> shape # NoWrite /\ lit.kind = "str" /\ n.kind = "num" /\ ~n.plain
  BY <1>8, <1>9 DEF UnreadableCount
<1>11. Reported(p) <=>
         /\ shape # NoWrite /\ lit.kind = "str" /\ n.kind = "num"
         /\ tree[file].strict \/ ~Decodable(lit) \/ ~n.plain \/ n.n # DecodedLength(lit)
  BY <1>1, <1>7, <1>9 DEF Reported, CountedWrite, WrongCount
<1>12. ASSUME shape # NoWrite, lit.kind = "str", Decodable(lit) PROVE DecodedLength(lit) = BytesOf(lit)
  <2>1. shape \in WritesAt(call, truth)
    BY <1>8, <1>12
  <2>2. shape[1] \in DOMAIN call.args
    <3>1. shape[1] <= Len(call.args) /\ Len(call.args) \in Nat /\ DOMAIN call.args = 1 .. Len(call.args)
      BY <1>4, <2>1 DEF WritesAt, IsList
    <3>2. shape = <<3, 4>> \/ shape = <<2, 3>> \/ Positions(shape)
      BY <1>6, <1>7, <1>12 DEF WriteShape
    <3>3. shape[1] \in Nat \ {0}
      BY <3>2 DEF Positions
    <3>. QED BY <3>1, <3>3
  <2>3. lit \in LiteralsIn(tree[file])
    <3>1. lit \in {a \in {call.args[j] : j \in DOMAIN call.args} : a.kind = "str"}
      BY <1>9, <1>12, <2>2
    <3>. QED BY <1>3, <3>1 DEF LiteralsIn
  <2>4. \A j \in DOMAIN lit.pieces : Encodable(lit.pieces[j]) => WellCounted(lit.pieces[j])
    BY <1>2, <2>3, TreesAssumption
  <2>. QED BY <1>12, <2>4, LengthIsBytes
<1>. QED BY <1>1, <1>10, <1>11, <1>12, <1>13 DEF Accountable

\* File f has been judged.
Judged(f) == f < file \/ (step = "done" /\ f = file)

ReportInv ==
  /\ step = "done" => file = Len(tree)
  /\ \A q \in problems : q[1] \in 1 .. Len(tree) /\ Judged(q[1])
  /\ \A f \in 1 .. Len(tree) : Judged(f) /\ Unambiguous(f, Writers(f)) =>
       \A p \in CallsIn(tree[f]) :
         <<f, "count", p>> \in problems <=> Accountable(f, p, Writers(f))

LEMMA CountMember ==
  ASSUME NEW f, NEW p
  PROVE  <<f, "count", p>> \in ProblemsOf(file) <=> f = file /\ p \in CallsIn(tree[file]) /\ Reported(p)
BY DEF ProblemsOf, Reported

LEMMA ReportKept ==
  ASSUME WalkInv, ChainInv, ReportInv, [WriteNext]_writeVars
  PROVE  ReportInv'
<1>1. ASSUME tree' = tree, file' = file, problems' = problems, step' = "done" <=> step = "done"
      PROVE  ReportInv'
  <2>1. \A f : (Judged(f)' <=> Judged(f)) /\ Writers(f)' = Writers(f)
    BY <1>1 DEF Judged, Writers, InScope
  <2>2. \A f, truth : Unambiguous(f, truth)' <=> Unambiguous(f, truth)
    BY <1>1 DEF Unambiguous, InScope
  <2>3. \A f, p, truth : Accountable(f, p, truth)' <=> Accountable(f, p, truth)
    BY <1>1 DEF Accountable, CountedInTruth
  <2>. QED BY <1>1, <2>1, <2>2, <2>3 DEF ReportInv
<1>2. CASE VisitFunction \/ NextTable \/ EndPass \/ UNCHANGED writeVars
  BY <1>1, <1>2 DEF VisitFunction, NextTable, EndPass, writeVars
<1>3. CASE JudgeFile
  <2>1. /\ step = "judge" /\ tree' = tree /\ problems' = problems \cup ProblemsOf(file)
        /\ \/ file' = file + 1 /\ step' = "wrappers"
           \/ file = Len(tree) /\ file' = file /\ step' = "done"
    <3>1. file \in 1 .. Len(tree) /\ Len(tree) \in Nat
      BY TreeLists DEF WalkInv, WalkType
    <3>. QED BY <1>3, <3>1 DEF JudgeFile
  <2>2. file \in 1 .. Len(tree) /\ Len(tree) \in Nat /\ \A q \in problems : q[1] \in 1 .. Len(tree) /\ q[1] < file
    BY <2>1, TreeLists DEF WalkInv, WalkType, ReportInv, Judged
  <2>3. \A f \in 1 .. Len(tree) : Judged(f)' <=> (f < file \/ f = file)
    BY <2>1, <2>2 DEF Judged
  <2>4. \A q \in ProblemsOf(file) : q[1] = file
    BY DEF ProblemsOf
  <2>5. step' = "done" => file' = Len(tree')
    BY <2>1
  <2>6. \A q \in problems' : q[1] \in 1 .. Len(tree') /\ Judged(q[1])'
    <3>1. \A q \in problems' : q[1] < file \/ q[1] = file
      BY <2>1, <2>2, <2>4
    <3>2. file < file + 1
      BY <2>2
    <3>3. ASSUME NEW q \in problems' PROVE q[1] \in 1 .. Len(tree') /\ Judged(q[1])'
      <4>1. CASE q[1] = file
        BY <2>1, <2>2, <3>2, <4>1 DEF Judged
      <4>2. CASE q \in problems
        BY <2>1, <2>2, <4>2 DEF Judged, ReportInv
      <4>. QED BY <2>1, <2>4, <4>1, <4>2
    <3>. QED BY <3>3
  <2>7. ASSUME NEW f \in 1 .. Len(tree), Judged(f)', Unambiguous(f, Writers(f)), NEW p \in CallsIn(tree[f])
        PROVE  <<f, "count", p>> \in problems' <=> Accountable(f, p, Writers(f))
    <3>1. CASE f = file
      <4>1. <<f, "count", p>> \notin problems
        BY <2>2, <3>1
      <4>2. Reported(p) <=> Accountable(file, p, Writers(file))
        BY <2>1, <2>7, <3>1, JudgedRight
      <4>. QED BY <2>1, <2>7, <3>1, <4>1, <4>2, CountMember
    <3>2. CASE f # file
      <4>1. f < file
        BY <2>3, <2>7, <3>2
      <4>2. <<f, "count", p>> \notin ProblemsOf(file)
        BY <3>2, CountMember
      <4>. QED BY <2>1, <2>7, <4>1, <4>2 DEF ReportInv, Judged
    <3>. QED BY <3>1, <3>2
  <2>8. /\ \A f : Writers(f)' = Writers(f)
        /\ \A f, truth : Unambiguous(f, truth)' <=> Unambiguous(f, truth)
        /\ \A f, p, truth : Accountable(f, p, truth)' <=> Accountable(f, p, truth)
    BY <2>1 DEF Writers, InScope, Unambiguous, Accountable, CountedInTruth
  <2>. QED BY <2>1, <2>5, <2>6, <2>7, <2>8 DEF ReportInv
<1>. QED BY <1>2, <1>3 DEF WriteNext

\* For any number of files and functions in any order, the end finds reported the hand counts
\* under programs/, elsewhere the counts that are not the bytes of the literal, however many
\* functions lie between the literal and the system call, and the counts the script cannot
\* read, right or wrong (0x2): nothing else.
THEOREM CountsExact == WriteSpec => []CountsReported
<1>1. WriteInit => WalkInv /\ ChainInv /\ ReportInv
  <2>1. SUFFICES ASSUME WriteInit PROVE ChainInv /\ ReportInv
    BY WalkHolds
  <2>2. PICK fns, w : fns = InScope(file) /\ w = wrappers
    OBVIOUS
  <2>3. w = <<>>
    BY <2>1, <2>2 DEF WriteInit
  <2>4. ChainInv
    BY <2>2, <2>3, NothingChained DEF ChainInv
  <2>5. step = "wrappers" /\ file = 1 /\ problems = {}
    BY <2>1 DEF WriteInit
  <2>6. \A f \in 1 .. Len(tree) : ~Judged(f)
    BY <2>1, <2>5, TreeLists DEF Judged, WriteInit
  <2>. QED BY <2>4, <2>5, <2>6 DEF ReportInv
<1>2. WalkInv /\ ChainInv /\ ReportInv /\ [WriteNext]_writeVars => WalkInv' /\ ChainInv' /\ ReportInv'
  BY WalkKept, ChainKept, ReportKept
<1>3. WalkInv /\ ReportInv => CountsReported
  <2>1. SUFFICES ASSUME WalkInv, ReportInv, step = "done", NEW f \in DOMAIN tree, Unambiguous(f, Writers(f)),
                        NEW p \in CallsIn(tree[f])
                 PROVE  <<f, "count", p>> \in problems <=> Accountable(f, p, Writers(f))
    BY DEF CountsReported, Accountable
  <2>2. f \in 1 .. Len(tree) /\ Len(tree) \in Nat /\ file = Len(tree)
    BY <2>1, TreesAssumption DEF WalkInv, WalkType, IsList, ReportInv
  <2>3. Judged(f)
    BY <2>1, <2>2 DEF Judged
  <2>. QED BY <2>1, <2>2, <2>3 DEF ReportInv
<1>. QED BY <1>1, <1>2, <1>3, PTL DEF WriteSpec

-----------------------------------------------------------------------------
(* The function around a line.                                             *)

Kept(ls) ==
  /\ ls \in Seq(Lines)
  /\ CallsInFunctions(ls) /\ CallsEndNext(ls) /\ AssertsWithCall(ls) /\ OneCapacity(ls)

LEMMA LineFacts ==
  ASSUME NEW ls \in Seq(Lines)
  PROVE  /\ Len(ls) \in Nat /\ DOMAIN ls = 1 .. Len(ls)
         /\ \A j \in DOMAIN ls : ls[j] \in Lines
BY LenProperties, ElementOfSeq

\* enclosing_fn: the lines from the last header at or above the line to the next one.
LEMMA EnclosingIsBody ==
  ASSUME NEW ls \in Seq(Lines), NEW i \in DOMAIN ls, NEW h \in DOMAIN ls,
         ls[h].header, i \in BodyFrom(ls, h)
  PROVE  EnclosingFn(ls, i) = BodyFrom(ls, h)
<1> DEFINE up == {1} \cup {j \in 1 .. i : ls[j].header}
           down == {Len(ls)} \cup {j - 1 : j \in {k \in i + 1 .. Len(ls) : ls[k].header}}
<1>1. /\ Len(ls) \in Nat /\ i \in Nat \ {0} /\ h \in Nat \ {0} /\ i <= Len(ls) /\ h <= i
      /\ \A k \in h + 1 .. i : ~ ls[k].header
  BY LineFacts DEF BodyFrom
<1>2. Max(up) = h
  <2>1. h \in up /\ \A j \in up : j <= h
    BY <1>1
  <2>2. \A x \in up : (\A y \in up : x >= y) => x = h
    BY <1>1, <2>1
  <2>3. Max(up) \in up /\ \A y \in up : Max(up) >= y
    <3>1. \E x \in up : \A y \in up : x >= y
      BY <1>1, <2>1
    <3>. HIDE DEF up
    <3>. QED BY <3>1 DEF Max
  <2>. HIDE DEF up
  <2>. QED BY <2>2, <2>3
<1>3. Min(down) \in down /\ \A y \in down : Min(down) <= y
  <2>1. down \subseteq Nat /\ down # {}
    BY <1>1
  <2>. HIDE DEF down
  <2>. QED BY <2>1, MinFact
<1>4. /\ i <= Min(down) /\ Min(down) <= Len(ls) /\ Min(down) \in Nat
      /\ \A k \in i + 1 .. Min(down) : ~ ls[k].header
      /\ Min(down) = Len(ls) \/ (Min(down) + 1 <= Len(ls) /\ ls[Min(down) + 1].header)
  <2>1. PICK m : m = Min(down)
    OBVIOUS
  <2>2. m \in down /\ \A y \in down : m <= y
    BY <1>3, <2>1
  <2>3. m \in Nat /\ i <= m /\ m <= Len(ls)
    BY <1>1, <2>2
  <2>4. ASSUME NEW k \in i + 1 .. m, ls[k].header PROVE FALSE
    <3>1. k - 1 \in down
      BY <1>1, <2>3, <2>4
    <3>2. m <= k - 1
      BY <2>2, <3>1
    <3>. HIDE DEF down
    <3>. QED BY <1>1, <2>3, <3>2
  <2>5. m = Len(ls) \/ (m + 1 <= Len(ls) /\ ls[m + 1].header)
    BY <1>1, <2>2
  <2>. QED BY <2>1, <2>3, <2>4, <2>5
<1>5. EnclosingFn(ls, i) = h .. Min(down)
  BY <1>2 DEF EnclosingFn
<1>6. ASSUME NEW j \in h .. Min(down) PROVE j \in BodyFrom(ls, h)
  <2>1. \A k \in h + 1 .. j : k \in h + 1 .. i \/ k \in i + 1 .. Min(down)
    BY <1>1, <1>4
  <2>2. \A k \in h + 1 .. j : ~ ls[k].header
    BY <1>1, <1>4, <2>1
  <2>. QED BY <1>1, <1>4, <2>2 DEF BodyFrom
<1>7. ASSUME NEW j \in BodyFrom(ls, h) PROVE j \in h .. Min(down)
  <2>1. j \in h .. Len(ls) /\ \A k \in h + 1 .. j : ~ ls[k].header
    BY DEF BodyFrom
  <2>2. j <= Min(down)
    <3>1. SUFFICES ASSUME ~ (j <= Min(down)) PROVE FALSE
      OBVIOUS
    <3>2. ls[Min(down) + 1].header /\ Min(down) + 1 \in h + 1 .. j
      BY <1>1, <1>4, <2>1, <3>1
    <3>. QED BY <2>1, <3>2
  <2>. QED BY <1>1, <1>4, <2>1, <2>2
<1>. QED BY <1>5, <1>6, <1>7

\* A line below a header is in the body of the last one.
LEMMA HasBody ==
  ASSUME NEW ls \in Seq(Lines), NEW i \in DOMAIN ls, \E h \in 1 .. i : ls[h].header
  PROVE  \E h \in DOMAIN ls : ls[h].header /\ i \in BodyFrom(ls, h)
<1> DEFINE T == {h \in 1 .. i : ls[h].header}
<1>1. Len(ls) \in Nat /\ i \in Nat \ {0} /\ i <= Len(ls) /\ DOMAIN ls = 1 .. Len(ls)
  BY LineFacts
<1>2. PICK h \in T : \A y \in T : y <= h
  <2>1. T \subseteq Nat /\ T # {}
    BY <1>1
  <2>2. IsFiniteSet(T)
    <3>1. \A x \in T : x <= i
      BY <1>1
    <3>. HIDE DEF T
    <3>. QED BY <1>1, <2>1, <3>1, FS_BoundedSetOfNaturals
  <2>. HIDE DEF T
  <2>. QED BY <2>1, <2>2, GreatestOfFinite
<1>3. \A k \in h + 1 .. i : ~ ls[k].header
  BY <1>1, <1>2
<1>. QED BY <1>1, <1>2, <1>3 DEF BodyFrom

-----------------------------------------------------------------------------
(* The sizes the script sees.                                              *)

LEMMA SizesFinite ==
  ASSUME NEW ls \in Seq(Lines), NEW range, range \subseteq DOMAIN ls, NEW name
  PROVE  SizesIn(ls, range, name) \subseteq Nat /\ IsFiniteSet(SizesIn(ls, range, name))
<1> DEFINE at(j) == {d \in DOMAIN ls[j].decls : ls[j].decls[d][1] = name}
           of(j) == {ls[j].decls[k][2] : k \in at(j)}
<1>1. IsFiniteSet(range)
  <2>1. IsFiniteSet(DOMAIN ls)
    BY LineFacts, FS_Interval
  <2>. QED BY <2>1, FS_Subset
<1>2. ASSUME NEW j \in range PROVE of(j) \subseteq Nat /\ IsFiniteSet(of(j))
  <2>1. ls[j].decls \in Seq(STRING \X Nat)
    BY LineFacts DEF Lines
  <2>2. DOMAIN ls[j].decls = 1 .. Len(ls[j].decls) /\ Len(ls[j].decls) \in Nat
    BY <2>1, LenProperties
  <2>3. \A k \in DOMAIN ls[j].decls : ls[j].decls[k] \in STRING \X Nat
    BY <2>1, <2>2, ElementOfSeq
  <2>4. IsFiniteSet(at(j))
    <3>1. IsFiniteSet(DOMAIN ls[j].decls)
      BY <2>2, FS_Interval
    <3>. QED BY <3>1, FS_Subset
  <2>5. PICK g : g = [k \in at(j) |-> ls[j].decls[k][2]]
    OBVIOUS
  <2>6. IsFiniteSet(of(j))
    <3>1. of(j) = {g[k] : k \in at(j)}
      BY <2>5
    <3>. HIDE DEF of, at
    <3>. QED BY <2>4, <3>1, FiniteImage
  <2>. QED BY <2>3, <2>6
<1>3. SizesIn(ls, range, name) = UNION {of(j) : j \in range}
  BY DEF SizesIn
<1>4. IsFiniteSet({of(j) : j \in range})
  <2>. HIDE DEF of
  <2> DEFINE images == {of(j) : j \in range}
  <2>1. PICK g : g = [j \in range |-> of(j)]
    OBVIOUS
  <2>2. images = {g[j] : j \in range}
    BY <2>1
  <2>3. IsFiniteSet(images)
    <3>. HIDE DEF images
    <3>. QED BY <1>1, <2>2, FiniteImage
  <2>. QED BY <2>3
<1>5. IsFiniteSet(UNION {of(j) : j \in range})
  <2>. HIDE DEF of
  <2>. QED BY <1>2, <1>4, FS_UNION
<1>. QED BY <1>2, <1>3, <1>5

LEMMA BodyInFile ==
  ASSUME NEW ls \in Seq(Lines), NEW h \in DOMAIN ls
  PROVE  BodyFrom(ls, h) \subseteq DOMAIN ls /\ h \in BodyFrom(ls, h)
<1>1. Len(ls) \in Nat /\ DOMAIN ls = 1 .. Len(ls)
  BY LineFacts
<1>. QED BY <1>1 DEF BodyFrom

\* What a function needs of a table is what the compiler writes into it.
LEMMA NeedIsWritten ==
  ASSUME NEW ls, Kept(ls), NEW h \in DOMAIN ls, ls[h].header, NEW c \in Calls,
         NEW body, body = BodyFrom(ls, h),
         NEW j \in body, ls[j].store # <<>>, NEW slot, slot = ls[j].store[1]
  PROVE  /\ slot \in DOMAIN Record => NeedOfSlot(ls, body, c, slot) = SlotBytes(ls, body, c, slot)
         /\ slot \notin DOMAIN Record => SlotBytes(ls, body, c, slot) = 0
         /\ SlotBytes(ls, body, c, slot) \in Nat
<1>1. ls \in Seq(Lines) /\ body \subseteq DOMAIN ls /\ DOMAIN ls = 1 .. Len(ls) /\ Len(ls) \in Nat
  BY BodyInFile, LineFacts DEF Kept
<1>2. slot \in Slots /\ \A i \in body : ls[i].cap \in Nat \cup {-1}
  BY <1>1, LineFacts DEF Lines
<1>3. slot \in DOMAIN TableStride <=> slot \in {"CC_TYPES", "CC_CONSTS", "CC_DECO", "CC_OUTBI"}
  BY DEF TableStride
<1>4. slot \in DOMAIN Record <=> slot \notin {"CC_HW", "CC_ABI"}
  BY <1>2 DEF Slots, Record
<1>5. slot \in DOMAIN TableStride => TableStride[slot] = Record[slot] /\ TableStride[slot] \in Nat
  BY <1>3 DEF TableStride, Record
<1>6. Record["CC_ISEL"] = 48 /\ Record["CC_ISEL2"] = 48 /\ Record["CC_ALLOC"] = 16
  BY DEF Record
<1>7. ASSUME slot \in DOMAIN TableStride
      PROVE  ContextCap(ls, body) = DeclaredCap(ls, body, c) /\ ContextCap(ls, body) \in Nat
  <2> DEFINE stored == {i \in body : ls[i].cap >= 0}
             caps == {ls[i].cap : i \in body}
  <2>1. PICK i \in body : ls[i].cap >= 0
    BY <1>7 DEF Kept, OneCapacity
  <2>2. \A k \in stored : ls[k].cap = ls[i].cap
    BY <2>1 DEF Kept, OneCapacity
  <2>3. PICK n \in Nat : n = ls[i].cap
    BY <1>2, <2>1
  <2>4. Max(caps) = n
    <3>1. n \in caps /\ \A x \in caps : x = -1 \/ x = n
      BY <1>2, <2>2, <2>3
    <3>2. \A x \in caps : n >= x /\ ((\A y \in caps : x >= y) => x = n)
      <4>. HIDE DEF caps
      <4>. QED BY <3>1
    <3>3. Max(caps) \in caps /\ \A y \in caps : Max(caps) >= y
      <4>. HIDE DEF caps
      <4>. QED BY <3>1, <3>2 DEF Max
    <3>. HIDE DEF caps
    <3>. QED BY <3>2, <3>3
  <2>5. Max(stored) \in stored
    <3>1. stored \subseteq Nat /\ stored # {} /\ \A x \in stored : x <= Len(ls)
      BY <1>1, <2>1
    <3>2. IsFiniteSet(stored)
      <4>. HIDE DEF stored
      <4>. QED BY <1>1, <3>1, FS_BoundedSetOfNaturals
    <3>. HIDE DEF stored
    <3>. QED BY <3>1, <3>2, MaxFact
  <2>6. DeclaredCap(ls, body, c) = ls[Max(stored)].cap
    BY <2>1 DEF DeclaredCap
  <2>. QED BY <2>2, <2>3, <2>4, <2>5, <2>6 DEF ContextCap
<1>8. CASE slot \in DOMAIN TableStride
  <2>1. NeedOfSlot(ls, body, c, slot) = DeclaredCap(ls, body, c) * Record[slot]
    BY <1>3, <1>8 DEF NeedOfSlot
  <2>2. slot \in DOMAIN Record
    BY <1>3, <1>4, <1>8
  <2>3. ContextCap(ls, body) * TableStride[slot] \in Nat
    BY <1>5, <1>7, <1>8
  <2>4. SlotBytes(ls, body, c, slot) = ContextCap(ls, body) * TableStride[slot]
    BY <1>3, <1>8 DEF SlotBytes
  <2>. QED BY <1>5, <1>7, <1>8, <2>1, <2>2, <2>3, <2>4
<1>9. CASE slot \notin DOMAIN TableStride
  <2>1. c.capIds * 16 \in Nat /\ 256 * 48 \in Nat
    BY DEF Calls
  <2>2. slot \in {"CC_ALLOC", "CC_ISEL", "CC_ISEL2", "CC_HW", "CC_ABI"}
    BY <1>2, <1>3, <1>9 DEF Slots
  <2>. QED BY <1>4, <1>6, <1>9, <2>1, <2>2 DEF NeedOfSlot, IselCap, SlotBytes
<1>. QED BY <1>8, <1>9

-----------------------------------------------------------------------------
(* The calls of a file.                                                    *)

CallOf(ln) == ln.frags[1].call

\* Line j holds a call, or the first part of one, outside an assertion.
Calling(ls, j) ==
  ~ls[j].asserts /\ (HoldsPart(ls[j], "entire") \/ HoldsPart(ls[j], "opening"))

LEMMA FragFacts ==
  ASSUME NEW ls, Kept(ls), NEW j \in DOMAIN ls, ls[j].frags # <<>>
  PROVE  /\ Len(ls[j].frags) = 1 /\ DOMAIN ls[j].frags = {1} /\ CallOf(ls[j]) \in Calls
         /\ ls[j].frags[1].part \in {"entire", "opening", "closing"}
         /\ ~ls[j].header /\ \E h \in 1 .. j : ls[h].header
<1>1. ls[j].frags \in Seq([part : {"entire", "opening", "closing"}, call : Calls])
  BY LineFacts DEF Kept, Lines
<1>2. Len(ls[j].frags) = 1 /\ ~ls[j].header /\ \E h \in 1 .. j : ls[h].header
  BY DEF Kept, CallsInFunctions
<1>3. DOMAIN ls[j].frags = {1}
  BY <1>1, <1>2, LenProperties
<1>4. PICK Frags : Frags = [part : {"entire", "opening", "closing"}, call : Calls]
  OBVIOUS
<1>5. ls[j].frags[1] \in Frags
  <2>1. ls[j].frags \in Seq(Frags) /\ 1 \in 1 .. Len(ls[j].frags)
    BY <1>1, <1>2, <1>4
  <2>. QED BY <2>1, ElementOfSeq
<1>. QED BY <1>2, <1>3, <1>4, <1>5 DEF CallOf

LEMMA CallsFromFact ==
  ASSUME NEW ls, Kept(ls), NEW body, body \subseteq DOMAIN ls, NEW c
  PROVE  c \in CallsFrom(ls, body) <=> \E j \in body : Calling(ls, j) /\ c = CallOf(ls[j])
<1>1. \A j \in body : ls[j].frags # <<>> =>
        (DOMAIN ls[j].frags = {1} /\ ls[j].frags[1].part \in {"entire", "opening", "closing"})
  BY FragFacts
<1>2. ASSUME c \in CallsFrom(ls, body)
      PROVE  \E j \in body : Calling(ls, j) /\ c = CallOf(ls[j])
  <2>1. PICK j \in body : \E k \in DOMAIN ls[j].frags :
          ~ls[j].asserts /\ ls[j].frags[k].part # "closing" /\ c = ls[j].frags[k].call
    BY <1>2 DEF CallsFrom
  <2>2. ls[j].frags # <<>>
    BY <2>1
  <2>. QED BY <1>1, <2>1, <2>2 DEF Calling, HoldsPart, CallOf
<1>3. ASSUME NEW j \in body, Calling(ls, j), c = CallOf(ls[j])
      PROVE  c \in CallsFrom(ls, body)
  <2>1. /\ ~ls[j].asserts /\ 1 \in DOMAIN ls[j].frags
        /\ ls[j].frags[1].part # "closing" /\ c = ls[j].frags[1].call
    BY <1>1, <1>3 DEF Calling, HoldsPart, CallOf
  <2>. QED BY <2>1 DEF CallsFrom
<1>. QED BY <1>2, <1>3

LEMMA OnLineFact ==
  ASSUME NEW ls, Kept(ls), NEW j \in DOMAIN ls
  PROVE  OnLine(ls[j]) = IF HoldsPart(ls[j], "entire") THEN {CallOf(ls[j])} ELSE {}
<1>1. CASE ls[j].frags = <<>>
  <2>1. DOMAIN ls[j].frags = {}
    BY <1>1
  <2>. QED BY <1>1, <2>1 DEF OnLine, FirstOf, HoldsPart
<1>2. CASE ls[j].frags # <<>>
  <2>1. DOMAIN ls[j].frags = {1}
    BY <1>2, FragFacts
  <2>. QED BY <1>2, <2>1 DEF OnLine, FirstOf, HoldsPart, CallOf
<1>. QED BY <1>1, <1>2

LEMMA AcrossFact ==
  ASSUME NEW ls, Kept(ls), NEW j \in DOMAIN ls, j + 1 \in DOMAIN ls
  PROVE  Across(ls[j], ls[j + 1]) =
           IF HoldsPart(ls[j], "opening") THEN {CallOf(ls[j])} ELSE OnLine(ls[j + 1])
<1>1. CASE HoldsPart(ls[j], "opening")
  <2>1. Len(ls[j].frags) = 1
    BY <1>1, FragFacts DEF HoldsPart
  <2>2. ls[j + 1].frags = <<[part |-> "closing", call |-> CallOf(ls[j])]>>
    BY <1>1 DEF Kept, CallsEndNext, Closing, CallOf
  <2>. QED BY <1>1, <2>1, <2>2 DEF Across, HoldsPart
<1>2. CASE ~HoldsPart(ls[j], "opening")
  <2>1. ls[j].frags # <<>> => Len(ls[j].frags) = 1
    BY FragFacts
  <2>. QED BY <1>2, <2>1 DEF Across, HoldsPart
<1>. QED BY <1>1, <1>2

\* What a line yields: its own call, or that of the line behind it.
LEMMA ProbeFact ==
  ASSUME Kept(lines), NEW i \in DOMAIN lines
  PROVE  /\ HoldsPart(lines[i], "entire") =>
              Probe(i) = [calls |-> {CallOf(lines[i])}, rows |-> {i}, eats |-> {}]
         /\ HoldsPart(lines[i], "opening") =>
              /\ i + 1 \in DOMAIN lines
              /\ Probe(i) = [calls |-> {CallOf(lines[i])}, rows |-> {i, i + 1}, eats |-> {i + 1}]
         /\ ~HoldsPart(lines[i], "entire") /\ ~HoldsPart(lines[i], "opening") =>
              IF i + 1 \in DOMAIN lines /\ HoldsPart(lines[i + 1], "entire")
              THEN Probe(i) = [calls |-> {CallOf(lines[i + 1])}, rows |-> {i, i + 1}, eats |-> {i + 1}]
              ELSE Probe(i).calls = {} /\ Probe(i).eats = {}
<1>0. DOMAIN lines = 1 .. Len(lines) /\ Len(lines) \in Nat /\ i \in Nat \ {0}
  BY LineFacts DEF Kept
<1>1. i < Len(lines) <=> i + 1 \in DOMAIN lines
  BY <1>0
<1>2. CASE HoldsPart(lines[i], "entire")
  BY <1>2, OnLineFact DEF Probe, HoldsPart
<1>3. CASE HoldsPart(lines[i], "opening")
  <2>1. i + 1 \in DOMAIN lines /\ OnLine(lines[i]) = {}
    BY <1>3, OnLineFact DEF Kept, CallsEndNext, HoldsPart
  <2>2. Across(lines[i], lines[i + 1]) = {CallOf(lines[i])}
    BY <1>3, <2>1, AcrossFact
  <2>. QED BY <1>1, <1>3, <2>1, <2>2 DEF Probe, Consumes, HoldsPart
<1>4. CASE ~HoldsPart(lines[i], "entire") /\ ~HoldsPart(lines[i], "opening")
  <2>1. OnLine(lines[i]) = {}
    BY <1>4, OnLineFact
  <2>2. CASE i + 1 \in DOMAIN lines
    <3>1. Across(lines[i], lines[i + 1]) =
            IF HoldsPart(lines[i + 1], "entire") THEN {CallOf(lines[i + 1])} ELSE {}
      BY <1>4, <2>2, AcrossFact, OnLineFact
    <3>. QED BY <1>1, <1>4, <2>1, <2>2, <3>1 DEF Probe, Consumes
  <2>3. CASE i + 1 \notin DOMAIN lines
    BY <1>1, <1>4, <2>1, <2>3 DEF Probe
  <2>. QED BY <2>2, <2>3
<1>. QED BY <1>2, <1>3, <1>4

\* A call that is found and checked is one of the function around the line.
LEMMA FoundInFunction ==
  ASSUME Kept(lines), NEW i \in DOMAIN lines, ~HoldsPart(lines[i], "closing"),
         NEW c \in Probe(i).calls, \A j \in Probe(i).rows : ~lines[j].asserts
  PROVE  \E h \in DOMAIN lines, j \in DOMAIN lines :
           /\ lines[h].header /\ i \in BodyFrom(lines, h) /\ j \in BodyFrom(lines, h)
           /\ Calling(lines, j) /\ c = CallOf(lines[j]) /\ j \in Probe(i).rows
<1>0. lines \in Seq(Lines) /\ DOMAIN lines = 1 .. Len(lines) /\ Len(lines) \in Nat /\ i \in Nat \ {0}
  BY LineFacts DEF Kept
<1>1. CASE HoldsPart(lines[i], "entire") \/ HoldsPart(lines[i], "opening")
  <2>1. c = CallOf(lines[i]) /\ i \in Probe(i).rows
    BY <1>1, ProbeFact
  <2>2. \E h \in 1 .. i : lines[h].header
    BY <1>1, FragFacts DEF HoldsPart
  <2>3. PICK h \in DOMAIN lines : lines[h].header /\ i \in BodyFrom(lines, h)
    BY <1>0, <2>2, HasBody
  <2>. QED BY <1>1, <2>1, <2>3 DEF Calling
<1>2. CASE ~HoldsPart(lines[i], "entire") /\ ~HoldsPart(lines[i], "opening")
  <2>1. /\ i + 1 \in DOMAIN lines /\ HoldsPart(lines[i + 1], "entire")
        /\ c = CallOf(lines[i + 1]) /\ i + 1 \in Probe(i).rows
    BY <1>2, ProbeFact
  <2>2. ~lines[i + 1].header /\ \E h \in 1 .. i + 1 : lines[h].header
    BY <2>1, FragFacts DEF HoldsPart
  <2>3. PICK h \in DOMAIN lines : lines[h].header /\ i + 1 \in BodyFrom(lines, h)
    BY <1>0, <2>1, <2>2, HasBody
  <2>4. i \in BodyFrom(lines, h)
    <3>1. h # i + 1
      BY <2>2, <2>3
    <3>. QED BY <1>0, <2>1, <2>3, <3>1 DEF BodyFrom
  <2>. QED BY <2>1, <2>3, <2>4 DEF Calling
<1>. QED BY <1>1, <1>2

-----------------------------------------------------------------------------
(* Deficits.                                                               *)

RealDeficit(p) ==
  p.name # "id_bound" =>
    \E w \in PipelineWrites(listing[p.doc]) :
      /\ w[2] = p.name /\ w[3] = p.need
      /\ p.have \in DeclaredSizes(listing[p.doc], w[1], p.name)
      /\ \A size \in DeclaredSizes(listing[p.doc], w[1], p.name) : size < p.need

\* What a call writes through the function it stands in.
LEMMA WritesOf ==
  ASSUME NEW ls, NEW h \in DOMAIN ls, ls[h].header, NEW c \in CallsFrom(ls, BodyFrom(ls, h)),
         NEW w \in ModuleWrites(c) \cup ContextWrites(ls, BodyFrom(ls, h), c)
  PROVE  <<h, w[1], w[2]>> \in PipelineWrites(ls)
BY DEF PipelineWrites

\* A need of a call is a write of it.
LEMMA NeedsAreWrites ==
  ASSUME NEW ls, Kept(ls), NEW h \in DOMAIN ls, ls[h].header, NEW c \in Calls,
         NEW body, body = BodyFrom(ls, h), NEW n \in Needs(ls, body, c)
  PROVE  \E w \in ModuleWrites(c) \cup ContextWrites(ls, body, c) : w[1] = n[1] /\ w[2] = n[2]
<1>1. Record.vals = 40 /\ Record.instrs = 32 /\ Record.ptrs = 32
  BY DEF Record
<1>2. CASE n \in {<<c.vals, c.capIds * Record.vals>>, <<c.instrs, c.capInstrs * Record.instrs>>,
                  <<c.ptrs, c.capPtrs * Record.ptrs>>}
  BY <1>1, <1>2 DEF ModuleWrites
<1>3. ASSUME NEW j \in body, ls[j].store # <<>>, ls[j].store[1] \in DOMAIN Record,
             n = <<ls[j].store[2], NeedOfSlot(ls, body, c, ls[j].store[1])>>
      PROVE  n \in ContextWrites(ls, body, c)
  <2>1. NeedOfSlot(ls, body, c, ls[j].store[1]) = SlotBytes(ls, body, c, ls[j].store[1])
    BY <1>3, NeedIsWritten
  <2>. QED BY <1>3, <2>1 DEF ContextWrites
<1>. QED BY <1>2, <1>3 DEF Needs

\* What is reported of a call that is found is true of the function it stands in.
LEMMA DeficitsReal ==
  ASSUME Kept(lines), NEW i \in DOMAIN lines, ~HoldsPart(lines[i], "closing"),
         NEW c \in Probe(i).calls, \A j \in Probe(i).rows : ~lines[j].asserts,
         NEW p \in Deficits(i, c)
  PROVE  RealDeficit(p)
<1>1. PICK h \in DOMAIN lines, j \in DOMAIN lines :
        /\ lines[h].header /\ i \in BodyFrom(lines, h) /\ j \in BodyFrom(lines, h)
        /\ Calling(lines, j) /\ c = CallOf(lines[j])
  BY FoundInFunction
<1>2. PICK body : body = BodyFrom(lines, h)
  OBVIOUS
<1>3. lines \in Seq(Lines) /\ EnclosingFn(lines, i) = body /\ body \subseteq DOMAIN lines
  BY <1>1, <1>2, EnclosingIsBody, BodyInFile DEF Kept
<1>4. c \in CallsFrom(lines, body) /\ c \in Calls
  BY <1>1, <1>2, <1>3, CallsFromFact, FragFacts DEF Calling, HoldsPart
<1>5. SUFFICES ASSUME p.name # "id_bound" PROVE RealDeficit(p)
  BY DEF RealDeficit
<1>6. PICK n \in Needs(lines, body, c) :
        /\ SizesIn(lines, body, n[1]) # {} /\ Max(SizesIn(lines, body, n[1])) < n[2]
        /\ p = [doc |-> doc, row |-> i, name |-> n[1],
                have |-> Max(SizesIn(lines, body, n[1])), need |-> n[2]]
  <2> DEFINE record(n) == [doc |-> doc, row |-> i, name |-> n[1],
                           have |-> Max(SizesIn(lines, body, n[1])), need |-> n[2]]
             short == {m \in Needs(lines, body, c) : /\ SizesIn(lines, body, m[1]) # {}
                                                   /\ Max(SizesIn(lines, body, m[1])) < m[2]}
             unbound == {[doc |-> doc, row |-> i, name |-> "id_bound", have |-> c.capIds, need |-> b] :
                           b \in {c.idBound} \cap (c.capIds + 1 .. c.idBound)}
  <2>1. Deficits(i, c) = {record(n) : n \in short} \cup unbound
    BY <1>3 DEF Deficits
  <2>2. p \notin unbound
    BY <1>5
  <2>3. PICK n \in short : p = record(n)
    <3>. HIDE DEF record, short, unbound
    <3>. QED BY <2>1, <2>2
  <2>. QED BY <2>3
<1>7. PICK w \in ModuleWrites(c) \cup ContextWrites(lines, body, c) : w[1] = n[1] /\ w[2] = n[2]
  BY <1>1, <1>2, <1>4, NeedsAreWrites
<1>8. <<h, n[1], n[2]>> \in PipelineWrites(lines)
  BY <1>1, <1>2, <1>4, <1>7, WritesOf
<1>9. PICK sizes : sizes = SizesIn(lines, body, n[1])
  OBVIOUS
<1>10. sizes \subseteq Nat /\ Max(sizes) \in sizes /\ \A size \in sizes : size <= Max(sizes)
  BY <1>3, <1>6, <1>9, SizesFinite, MaxFact
<1>11. w[2] \in Nat
  <2>1. CASE w \in ModuleWrites(c)
    <3>1. c.capIds \in Nat /\ c.capInstrs \in Nat /\ c.capPtrs \in Nat
      BY <1>4 DEF Calls
    <3>2. c.capIds * 40 \in Nat /\ c.capInstrs * 32 \in Nat /\ c.capPtrs * 32 \in Nat
      BY <3>1
    <3>. QED BY <2>1, <3>2 DEF ModuleWrites
  <2>2. CASE w \in ContextWrites(lines, body, c)
    <3>1. PICK k \in body : /\ lines[k].store # <<>>
                            /\ w = <<lines[k].store[2], SlotBytes(lines, body, c, lines[k].store[1])>>
      BY <2>2 DEF ContextWrites
    <3>. QED BY <1>1, <1>2, <1>4, <3>1, NeedIsWritten
  <2>. QED BY <2>1, <2>2
<1>12. \A size \in sizes : size < n[2]
  BY <1>6, <1>7, <1>9, <1>10, <1>11
<1>13. DeclaredSizes(lines, h, n[1]) = sizes
  BY <1>2, <1>9 DEF DeclaredSizes
<1>14. listing[p.doc] = lines /\ p.name = n[1] /\ p.need = n[2] /\ p.have = Max(sizes)
  BY <1>6, <1>9 DEF lines
<1>. QED BY <1>8, <1>10, <1>12, <1>13, <1>14 DEF RealDeficit

-----------------------------------------------------------------------------
(* What a call found at a line leaves to report, and who finds it.         *)

\* A call fits the buffers its function declares.
Fits(ls, range, call) ==
  \A n \in Needs(ls, range, call) :
    SizesIn(ls, range, n[1]) = {} \/ ~(Max(SizesIn(ls, range, n[1])) < n[2])

LEMMA NothingToReport ==
  ASSUME NEW i, NEW c, Deficits(i, c) = {}
  PROVE  Fits(lines, EnclosingFn(lines, i), c)
<1>1. SUFFICES ASSUME NEW n \in Needs(lines, EnclosingFn(lines, i), c),
                      SizesIn(lines, EnclosingFn(lines, i), n[1]) # {},
                      Max(SizesIn(lines, EnclosingFn(lines, i), n[1])) < n[2]
               PROVE  FALSE
  BY DEF Fits
<1>2. [doc |-> doc, row |-> i, name |-> n[1],
       have |-> Max(SizesIn(lines, EnclosingFn(lines, i), n[1])), need |-> n[2]] \in Deficits(i, c)
  BY <1>1 DEF Deficits
<1>. QED BY <1>2

\* A call on a line the loop looks at is found there and checked.
LEMMA FoundHere ==
  ASSUME Kept(lines), NEW i \in DOMAIN lines, Calling(lines, i)
  PROVE  CallOf(lines[i]) \in Probe(i).calls /\ \A j \in Probe(i).rows : ~lines[j].asserts
<1>1. CASE HoldsPart(lines[i], "entire")
  BY <1>1, ProbeFact DEF Calling
<1>2. CASE HoldsPart(lines[i], "opening")
  <2>1. ~lines[i + 1].asserts
    BY <1>2 DEF Kept, CallsEndNext, Calling
  <2>. QED BY <1>2, <2>1, ProbeFact DEF Calling
<1>. QED BY <1>1, <1>2 DEF Calling

\* A call on a line the loop passes over was found and checked with the line before, for the
\* same function.
LEMMA FoundAbove ==
  ASSUME Kept(lines), NEW i \in DOMAIN lines, ~HoldsPart(lines[i], "closing"),
         i + 1 \in Probe(i).eats, Calling(lines, i + 1)
  PROVE  /\ CallOf(lines[i + 1]) \in Probe(i).calls /\ \A j \in Probe(i).rows : ~lines[j].asserts
         /\ EnclosingFn(lines, i + 1) = EnclosingFn(lines, i)
<1>0. lines \in Seq(Lines) /\ DOMAIN lines = 1 .. Len(lines) /\ Len(lines) \in Nat /\ i \in Nat \ {0}
  BY LineFacts DEF Kept
<1>1. ~HoldsPart(lines[i], "entire")
  BY ProbeFact
<1>2. ~HoldsPart(lines[i], "opening")
  <2>1. ASSUME HoldsPart(lines[i], "opening") PROVE FALSE
    <3>1. lines[i + 1].frags = Closing(lines[i].frags[1].call)
      BY <2>1 DEF Kept, CallsEndNext
    <3>2. lines[i + 1].frags[1].part = "closing"
      BY <3>1 DEF Closing
    <3>. QED BY <3>2 DEF Calling, HoldsPart
  <2>. QED BY <2>1
<1>3. /\ i + 1 \in DOMAIN lines /\ HoldsPart(lines[i + 1], "entire")
      /\ Probe(i) = [calls |-> {CallOf(lines[i + 1])}, rows |-> {i, i + 1}, eats |-> {i + 1}]
  BY <1>1, <1>2, ProbeFact
<1>4. lines[i].frags = <<>>
  BY <1>1, <1>2, FragFacts DEF HoldsPart
<1>5. ~lines[i].asserts
  BY <1>3, <1>4 DEF Kept, AssertsWithCall
<1>6. ~lines[i + 1].header /\ \E h \in 1 .. i + 1 : lines[h].header
  BY <1>3, FragFacts DEF HoldsPart
<1>7. PICK h \in DOMAIN lines : lines[h].header /\ i + 1 \in BodyFrom(lines, h)
  BY <1>0, <1>3, <1>6, HasBody
<1>8. i \in BodyFrom(lines, h)
  <2>1. h # i + 1
    BY <1>6, <1>7
  <2>. QED BY <1>0, <1>7, <2>1 DEF BodyFrom
<1>. QED BY <1>0, <1>3, <1>5, <1>7, <1>8, EnclosingIsBody DEF Calling

-----------------------------------------------------------------------------
(* The inductive invariant.                                                *)

\* Where the loops stand.
ScanPlace ==
  /\ listing \in Sources /\ doc \in DOMAIN listing
  /\ row \in 1 .. Len(lines) + 1 /\ consumed \subseteq 1 .. row
  /\ outcome \in {-1, 0, 1}
  /\ outcome # -1 => doc = Len(listing) /\ row = Len(lines) + 1

\* The line at hand was counted with the one before when it holds the end of a call, and never
\* when it holds the beginning of another.
ScanEaten ==
  row \in DOMAIN lines =>
    /\ row \in consumed => ~HoldsPart(lines[row], "opening")
    /\ HoldsPart(lines[row], "closing") => row \in consumed

ScanReal == \A p \in deficits : RealDeficit(p)

\* While nothing is reported, every call the loop is past fits.
ScanNoted ==
  /\ deficits = {} =>
       \A d \in DOMAIN listing : \A j \in DOMAIN listing[d] :
         /\ d < doc \/ (d = doc /\ (j < row \/ j \in consumed))
         /\ Calling(listing[d], j)
         => Fits(listing[d], EnclosingFn(listing[d], j), CallOf(listing[d][j]))
  /\ outcome = 0 => deficits = {}

ScanInv == ScanPlace /\ ScanEaten /\ ScanReal /\ ScanNoted

LEMMA SourceFacts ==
  ASSUME NEW files \in Sources
  PROVE  /\ Len(files) \in Nat \ {0} /\ DOMAIN files = 1 .. Len(files)
         /\ \A d \in DOMAIN files : /\ Kept(files[d]) /\ Len(files[d]) \in Nat
                                   /\ DOMAIN files[d] = 1 .. Len(files[d])
<1>1. files \in Seq(Seq(Lines)) /\ files # <<>>
  BY SourcesAssumption
<1>2. Len(files) \in Nat \ {0} /\ DOMAIN files = 1 .. Len(files)
  BY <1>1, EmptySeq, LenProperties
<1>3. \A d \in DOMAIN files : files[d] \in Seq(Lines)
  BY <1>1, <1>2, ElementOfSeq
<1>. QED BY <1>2, <1>3, LineFacts, SourcesAssumption DEF Kept

LEMMA ScanStart == SizingInit => ScanInv
<1>1. SUFFICES ASSUME SizingInit PROVE ScanInv
  OBVIOUS
<1>2. doc \in DOMAIN listing /\ Kept(lines) /\ Len(lines) \in Nat /\ DOMAIN lines = 1 .. Len(lines)
  BY <1>1, SourceFacts DEF SizingInit, lines
<1>3. ScanPlace
  BY <1>1, <1>2 DEF SizingInit, ScanPlace
<1>4. ScanEaten
  <2>1. 0 \notin DOMAIN lines
    BY <1>2
  <2>2. row = 1 /\ consumed = {}
    BY <1>1 DEF SizingInit
  <2>. QED BY <1>2, <2>1, <2>2 DEF ScanEaten, Kept, CallsEndNext
<1>5. ScanReal
  BY <1>1 DEF SizingInit, ScanReal
<1>6. ScanNoted
  <2>1. doc = 1 /\ row = 1 /\ consumed = {} /\ outcome = -1
    BY <1>1 DEF SizingInit
  <2>2. \A d \in DOMAIN listing : ~(d < 1) /\ \A j \in DOMAIN listing[d] : ~(j < 1)
    BY <1>1, SourceFacts DEF SizingInit
  <2>. QED BY <2>1, <2>2 DEF ScanNoted
<1>. QED BY <1>3, <1>4, <1>5, <1>6 DEF ScanInv

LEMMA LineStep == ScanInv /\ ScanLine => ScanInv'
<1>1. SUFFICES ASSUME ScanInv, ScanLine PROVE ScanInv'
  OBVIOUS
<1>2. /\ listing' = listing /\ doc' = doc /\ outcome' = outcome /\ outcome = -1 /\ row' = row + 1
      /\ row \in DOMAIN lines /\ Kept(lines) /\ Len(lines) \in Nat /\ DOMAIN lines = 1 .. Len(lines)
      /\ row \in Nat \ {0} /\ lines' = lines /\ lines = listing[doc]
  <2>1. listing' = listing /\ doc' = doc /\ outcome' = outcome /\ outcome = -1 /\ row' = row + 1
        /\ row <= Len(lines)
    BY <1>1 DEF ScanLine
  <2>2. listing \in Sources /\ doc \in DOMAIN listing /\ row \in 1 .. Len(lines) + 1
    BY <1>1 DEF ScanInv, ScanPlace
  <2>3. Kept(lines) /\ Len(lines) \in Nat /\ DOMAIN lines = 1 .. Len(lines)
    BY <2>2, SourceFacts DEF lines
  <2>. QED BY <2>1, <2>2, <2>3 DEF lines
<1>3. consumed \subseteq 1 .. row /\ listing \in Sources /\ doc \in DOMAIN listing
  BY <1>1 DEF ScanInv, ScanPlace
<1>4. PICK p : p = Probe(row)
  OBVIOUS
<1>5. PICK checked :
        /\ checked = {c \in IF row \in consumed THEN {} ELSE p.calls : \A j \in p.rows : ~lines[j].asserts}
        /\ consumed' = (IF row \in consumed THEN consumed ELSE consumed \cup p.eats)
        /\ deficits' = deficits \cup UNION {Deficits(row, c) : c \in checked}
  BY <1>1, <1>4 DEF ScanLine
<1>6. p.eats \subseteq {row + 1} /\ (p.eats # {} => row + 1 \in DOMAIN lines)
  BY <1>2, <1>4, ProbeFact
<1>7. ScanPlace'
  <2>1. consumed' \subseteq consumed \cup p.eats
    BY <1>5
  <2>2. row + 1 \in 1 .. row + 1 /\ 1 .. row \subseteq 1 .. row + 1
    BY <1>2
  <2>3. consumed' \subseteq 1 .. row + 1
    BY <1>3, <1>6, <2>1, <2>2
  <2>. QED BY <1>2, <1>3, <2>3 DEF ScanPlace
<1>8. ScanEaten'
  <2>1. SUFFICES ASSUME row + 1 \in DOMAIN lines
                 PROVE  /\ row + 1 \in consumed' => ~HoldsPart(lines[row + 1], "opening")
                        /\ HoldsPart(lines[row + 1], "closing") => row + 1 \in consumed'
    BY <1>2 DEF ScanEaten
  <2>2. ASSUME row + 1 \in consumed' PROVE ~HoldsPart(lines[row + 1], "opening")
    <3>1. row + 1 \in p.eats
      BY <1>2, <1>3, <1>5, <2>2
    <3>2. CASE HoldsPart(lines[row], "opening")
      <4>1. lines[row + 1].frags = Closing(lines[row].frags[1].call)
        BY <1>2, <3>2 DEF Kept, CallsEndNext
      <4>2. lines[row + 1].frags[1].part = "closing"
        BY <4>1 DEF Closing
      <4>. QED BY <4>2 DEF HoldsPart
    <3>3. CASE ~HoldsPart(lines[row], "opening")
      <4>1. HoldsPart(lines[row + 1], "entire")
        BY <1>2, <1>4, <3>1, <3>3, ProbeFact
      <4>. QED BY <4>1 DEF HoldsPart
    <3>. QED BY <3>2, <3>3
  <2>3. ASSUME HoldsPart(lines[row + 1], "closing") PROVE row + 1 \in consumed'
    <3>1. HoldsPart(lines[row], "opening")
      <4>1. HoldsPart(lines[(row + 1) - 1], "opening")
        BY <1>2, <2>1, <2>3 DEF Kept, CallsEndNext
      <4>2. (row + 1) - 1 = row
        BY <1>2
      <4>. QED BY <4>1, <4>2
    <3>2. row \notin consumed
      BY <1>1, <1>2, <3>1 DEF ScanInv, ScanEaten
    <3>3. p.eats = {row + 1}
      BY <1>2, <1>4, <3>1, ProbeFact
    <3>. QED BY <1>5, <3>2, <3>3
  <2>. QED BY <2>2, <2>3
<1>9. row \notin consumed => ~HoldsPart(lines[row], "closing")
  BY <1>1, <1>2 DEF ScanInv, ScanEaten
<1>10. ScanReal'
  <2>1. ASSUME NEW q \in deficits' PROVE RealDeficit(q)
    <3>1. CASE q \in deficits
      BY <1>1, <3>1 DEF ScanInv, ScanReal
    <3>2. CASE q \notin deficits
      <4>1. PICK c \in checked : q \in Deficits(row, c)
        BY <1>5, <3>2
      <4>2. row \notin consumed /\ c \in p.calls /\ \A j \in p.rows : ~lines[j].asserts
        BY <1>5
      <4>. QED BY <1>2, <1>4, <1>9, <4>1, <4>2, DeficitsReal
    <3>. QED BY <3>1, <3>2
  <2>2. \A q : RealDeficit(q)' <=> RealDeficit(q)
    BY <1>2 DEF RealDeficit
  <2>. QED BY <2>1, <2>2 DEF ScanReal
<1>11. ScanNoted'
  <2>1. SUFFICES ASSUME deficits' = {}, NEW d \in DOMAIN listing, NEW j \in DOMAIN listing[d],
                        d < doc \/ (d = doc /\ (j < row + 1 \/ j \in consumed')),
                        Calling(listing[d], j)
                 PROVE  Fits(listing[d], EnclosingFn(listing[d], j), CallOf(listing[d][j]))
    BY <1>2 DEF ScanNoted
  <2>2. CASE d < doc \/ (d = doc /\ (j < row \/ j \in consumed))
    BY <1>1, <1>5, <2>1, <2>2 DEF ScanInv, ScanNoted
  <2>3. ASSUME d = doc, j = row \/ j \in consumed', ~(j < row), j \notin consumed
        PROVE  Fits(lines, EnclosingFn(lines, j), CallOf(lines[j]))
    <3>1. \A c \in checked : Deficits(row, c) = {}
      BY <1>5, <2>1
    <3>2. j \in DOMAIN lines /\ Calling(lines, j)
      BY <1>2, <2>1, <2>3
    <3>3. row \notin consumed
      BY <1>5, <2>3
    <3>4. j = row \/ j \in p.eats
      BY <1>5, <2>3
    <3>5. CASE j = row
      <4>1. CallOf(lines[row]) \in checked
        BY <1>2, <1>4, <1>5, <3>2, <3>3, <3>5, FoundHere
      <4>. QED BY <3>1, <3>5, <4>1, NothingToReport
    <3>6. CASE j \in p.eats
      <4>1. j = row + 1
        BY <1>6, <3>6
      <4>2. /\ CallOf(lines[j]) \in checked
            /\ EnclosingFn(lines, j) = EnclosingFn(lines, row)
        BY <1>2, <1>4, <1>5, <1>9, <3>2, <3>3, <3>6, <4>1, FoundAbove
      <4>. QED BY <3>1, <4>2, NothingToReport
    <3>. QED BY <3>4, <3>5, <3>6
  <2>4. d = doc => lines = listing[d]
    BY <1>2
  <2>5. d = doc => j \in Nat
    BY <1>2, <2>1
  <2>6. d < doc \/ (d = doc /\ (j < row \/ j = row \/ j \in consumed'))
    BY <1>2, <2>1, <2>5
  <2>. QED BY <2>2, <2>3, <2>4, <2>6
<1>. QED BY <1>7, <1>8, <1>10, <1>11 DEF ScanInv

LEMMA FileStep == ScanInv /\ NextFile => ScanInv'
<1>1. SUFFICES ASSUME ScanInv, NextFile PROVE ScanInv'
  OBVIOUS
<1>2. /\ listing' = listing /\ deficits' = deficits /\ consumed' = {}
      /\ outcome = -1 /\ row > Len(lines)
  BY <1>1 DEF NextFile
<1>3. /\ listing \in Sources /\ doc \in DOMAIN listing /\ row = Len(lines) + 1
      /\ Len(listing) \in Nat \ {0} /\ DOMAIN listing = 1 .. Len(listing)
      /\ \A d \in DOMAIN listing : /\ Kept(listing[d]) /\ Len(listing[d]) \in Nat
                                  /\ DOMAIN listing[d] = 1 .. Len(listing[d])
  <2>1. listing \in Sources /\ doc \in DOMAIN listing /\ row \in 1 .. Len(lines) + 1
    BY <1>1 DEF ScanInv, ScanPlace
  <2>2. Len(lines) \in Nat
    BY <2>1, SourceFacts DEF lines
  <2>. QED BY <1>2, <2>1, <2>2, SourceFacts
<1>4. ScanReal'
  <2>1. \A q : RealDeficit(q)' <=> RealDeficit(q)
    BY <1>2 DEF RealDeficit
  <2>. QED BY <1>1, <1>2, <2>1 DEF ScanInv, ScanReal
<1>5. ASSUME deficits = {}, NEW d \in DOMAIN listing, NEW j \in DOMAIN listing[d],
             d <= doc, Calling(listing[d], j)
      PROVE  Fits(listing[d], EnclosingFn(listing[d], j), CallOf(listing[d][j]))
  <2>1. d < doc \/ (d = doc /\ j < row)
    BY <1>3, <1>5 DEF lines
  <2>. QED BY <1>1, <1>5, <2>1 DEF ScanInv, ScanNoted
<1>6. CASE doc < Len(listing)
  <2>1. doc' = doc + 1 /\ row' = 1 /\ outcome' = outcome /\ lines' = listing[doc + 1]
        /\ doc + 1 \in DOMAIN listing
    BY <1>1, <1>2, <1>3, <1>6 DEF NextFile, lines
  <2>2. ScanPlace'
    BY <1>2, <1>3, <2>1 DEF ScanPlace
  <2>3. ScanEaten'
    <3>1. Kept(lines') /\ 0 \notin DOMAIN lines'
      BY <1>3, <2>1
    <3>2. 1 \in DOMAIN lines' => ~HoldsPart(lines'[1], "closing")
      BY <3>1 DEF Kept, CallsEndNext
    <3>. QED BY <1>2, <2>1, <3>2 DEF ScanEaten
  <2>4. ScanNoted'
    <3>1. \A d \in DOMAIN listing : \A j \in DOMAIN listing[d] :
            d < doc + 1 \/ (d = doc + 1 /\ (j < 1 \/ j \in {})) => d <= doc
      BY <1>3
    <3>. QED BY <1>2, <1>5, <2>1, <3>1 DEF ScanNoted
  <2>. QED BY <1>4, <2>2, <2>3, <2>4 DEF ScanInv
<1>7. CASE ~(doc < Len(listing))
  <2>1. /\ doc' = doc /\ row' = row /\ lines' = lines /\ doc = Len(listing)
        /\ outcome' = IF deficits = {} THEN 0 ELSE 1
    BY <1>1, <1>2, <1>3, <1>7 DEF NextFile, lines
  <2>2. ScanPlace'
    BY <1>2, <1>3, <2>1 DEF ScanPlace
  <2>3. ScanEaten'
    <3>1. row \notin DOMAIN lines
      BY <1>3 DEF lines
    <3>. QED BY <2>1, <3>1 DEF ScanEaten
  <2>4. ScanNoted'
    <3>1. \A d \in DOMAIN listing : d <= doc
      BY <1>3, <2>1
    <3>. QED BY <1>2, <1>5, <2>1, <3>1 DEF ScanNoted
  <2>. QED BY <1>4, <2>2, <2>3, <2>4 DEF ScanInv
<1>. QED BY <1>6, <1>7

LEMMA ScanKeeps == SizingSpec => []ScanInv
<1>1. ScanInv /\ [SizingNext]_sizingVars => ScanInv'
  <2>1. ScanInv /\ UNCHANGED sizingVars => ScanInv'
    BY DEF sizingVars, ScanInv, ScanPlace, ScanEaten, ScanReal, ScanNoted, RealDeficit, lines
  <2>. QED BY <2>1, LineStep, FileStep DEF SizingNext
<1>. QED BY <1>1, ScanStart, PTL DEF SizingSpec

-----------------------------------------------------------------------------
(* What the exit status and the deficits say.                              *)

\* A deficit is about a buffer of the function that makes the call, at its size, and about bytes
\* that function writes: enclosing_fn never runs into the functions around it, and check asks for
\* no more than the compiler writes.  For every file that keeps to the form of the sources.
THEOREM RealDeficits == SizingSpec => []DeficitsAreReal
<1>1. ScanInv => DeficitsAreReal
  BY DEF ScanInv, ScanReal, RealDeficit, DeficitsAreReal
<1>. QED BY <1>1, ScanKeeps, PTL

\* A function writes nothing into a buffer that check was not asked about.
LEMMA WritesAreNeeds ==
  ASSUME NEW ls, Kept(ls), NEW h \in DOMAIN ls, ls[h].header, NEW c \in Calls,
         NEW body, body = BodyFrom(ls, h),
         NEW w \in ModuleWrites(c) \cup ContextWrites(ls, body, c)
  PROVE  /\ w[2] \in Nat
         /\ w[2] = 0 \/ \E n \in Needs(ls, body, c) : n[1] = w[1] /\ n[2] = w[2]
<1>1. Record.vals = 40 /\ Record.instrs = 32 /\ Record.ptrs = 32
  BY DEF Record
<1>2. c.capIds * 40 \in Nat /\ c.capInstrs * 32 \in Nat /\ c.capPtrs * 32 \in Nat
  <2>1. c.capIds \in Nat /\ c.capInstrs \in Nat /\ c.capPtrs \in Nat
    BY DEF Calls
  <2>. QED BY <2>1
<1>3. CASE w \in ModuleWrites(c)
  <2>1. w \in Needs(ls, body, c)
    BY <1>1, <1>3 DEF ModuleWrites, Needs
  <2>2. w[2] \in Nat
    BY <1>2, <1>3 DEF ModuleWrites
  <2>. QED BY <2>1, <2>2
<1>4. CASE w \in ContextWrites(ls, body, c)
  <2>1. PICK j \in body : /\ ls[j].store # <<>>
                          /\ w = <<ls[j].store[2], SlotBytes(ls, body, c, ls[j].store[1])>>
    BY <1>4 DEF ContextWrites
  <2>2. PICK slot : slot = ls[j].store[1]
    OBVIOUS
  <2>3. /\ slot \in DOMAIN Record => NeedOfSlot(ls, body, c, slot) = w[2]
        /\ slot \notin DOMAIN Record => w[2] = 0
        /\ w[2] \in Nat
    BY <2>1, <2>2, NeedIsWritten
  <2>4. slot \in DOMAIN Record => <<ls[j].store[2], NeedOfSlot(ls, body, c, slot)>> \in Needs(ls, body, c)
    BY <2>1, <2>2 DEF Needs
  <2>. QED BY <2>1, <2>3, <2>4
<1>. QED BY <1>3, <1>4

\* Exit 0: no function writes past the end of a buffer it declares once, wherever in it the
\* declarations, the call and the wiring of the context stand.  For every file that keeps to the
\* form of the sources.
THEOREM ExitSized == SizingSpec => []CleanExitSized
<1>1. ASSUME ScanInv, outcome = 0, NEW d \in DOMAIN listing, NEW v \in PipelineWrites(listing[d]),
             NEW size \in DeclaredSizes(listing[d], v[1], v[2]),
             Cardinality(DeclaredSizes(listing[d], v[1], v[2])) = 1
      PROVE  v[3] <= size
  <2>1. PICK ls : ls = listing[d]
    OBVIOUS
  <2>2. Kept(ls) /\ ls \in Seq(Lines) /\ DOMAIN ls = 1 .. Len(ls)
    BY <1>1, <2>1, SourceFacts DEF ScanInv, ScanPlace, Kept
  <2>3. PICK h \in DOMAIN ls : ls[h].header /\
          \E c \in CallsFrom(ls, BodyFrom(ls, h)) :
            \E w \in ModuleWrites(c) \cup ContextWrites(ls, BodyFrom(ls, h), c) : v = <<h, w[1], w[2]>>
    BY <2>1 DEF PipelineWrites
  <2>4. PICK body : body = BodyFrom(ls, h)
    OBVIOUS
  <2>5. PICK c \in CallsFrom(ls, body) :
          \E w \in ModuleWrites(c) \cup ContextWrites(ls, body, c) : v = <<h, w[1], w[2]>>
    BY <2>3, <2>4
  <2>6. PICK w \in ModuleWrites(c) \cup ContextWrites(ls, body, c) : v = <<h, w[1], w[2]>>
    BY <2>5
  <2>7. body \subseteq DOMAIN ls
    BY <2>2, <2>4, BodyInFile
  <2>8. PICK j \in body : Calling(ls, j) /\ c = CallOf(ls[j])
    BY <2>2, <2>7, CallsFromFact
  <2>9. c \in Calls /\ EnclosingFn(ls, j) = body
    BY <2>2, <2>3, <2>4, <2>7, <2>8, FragFacts, EnclosingIsBody DEF Calling, HoldsPart
  <2>10. Fits(ls, body, c)
    <3>1. d <= doc /\ doc \in Nat /\ d \in Nat /\ (d = doc => j < row)
      BY <1>1, <2>1, <2>2, <2>7, SourceFacts DEF ScanInv, ScanPlace, lines
    <3>2. d < doc \/ (d = doc /\ j < row)
      BY <3>1
    <3>. QED BY <1>1, <2>1, <2>7, <2>8, <2>9, <3>2 DEF ScanInv, ScanNoted
  <2>11. /\ w[2] \in Nat
         /\ w[2] = 0 \/ \E n \in Needs(ls, body, c) : n[1] = w[1] /\ n[2] = w[2]
    BY <2>2, <2>3, <2>4, <2>6, <2>9, WritesAreNeeds
  <2>12. PICK sizes : sizes = SizesIn(ls, body, w[1])
    OBVIOUS
  <2>13. sizes = DeclaredSizes(listing[d], v[1], v[2]) /\ v[3] = w[2]
    BY <2>1, <2>4, <2>6, <2>12 DEF DeclaredSizes
  <2>14. sizes \subseteq Nat /\ IsFiniteSet(sizes)
    BY <2>2, <2>7, <2>12, SizesFinite
  <2>15. size \in Nat /\ Max(sizes) = size
    <3>1. PICK x : sizes = {x}
      BY <1>1, <2>13, <2>14, FS_Singleton
    <3>2. Max(sizes) \in sizes
      BY <2>14, <3>1, MaxFact
    <3>. QED BY <1>1, <2>13, <2>14, <3>1, <3>2
  <2>16. w[2] = 0 \/ ~(Max(sizes) < w[2])
    BY <1>1, <2>10, <2>11, <2>12, <2>13 DEF Fits
  <2>. QED BY <2>11, <2>13, <2>15, <2>16
<1>2. ScanInv => CleanExitSized
  BY <1>1 DEF CleanExitSized
<1>. QED BY <1>2, ScanKeeps, PTL

-----------------------------------------------------------------------------
(* The calls are counted.                                                  *)

\* The loop is past line j of file d: it has been there, or counted its call with the line before.
Past(d, j) == d < doc \/ (d = doc /\ (j < row \/ j \in consumed))

SitesPast(d) == {<<d, <<j, 1>>>> : j \in {k \in DOMAIN listing[d] : Calling(listing[d], k) /\ Past(d, k)}}

CountedSites == UNION {SitesPast(d) : d \in DOMAIN listing}

ScanCounted == IsFiniteSet(CountedSites) /\ sites = Cardinality(CountedSites)

LEMMA CountedMember ==
  ASSUME NEW x
  PROVE  x \in CountedSites <=>
           \E d \in DOMAIN listing : \E j \in DOMAIN listing[d] :
             x = <<d, <<j, 1>>>> /\ Calling(listing[d], j) /\ Past(d, j)
BY DEF CountedSites, SitesPast

\* A line is one site or none.
LEMMA SitesOfFact ==
  ASSUME NEW ls, Kept(ls)
  PROVE  SitesOf(ls) = {<<j, 1>> : j \in {k \in DOMAIN ls : Calling(ls, k)}}
<1>1. \A j \in DOMAIN ls : ls[j].frags # <<>> =>
        (DOMAIN ls[j].frags = {1} /\ ls[j].frags[1].part \in {"entire", "opening", "closing"})
  BY FragFacts
<1>2. ASSUME NEW x \in SitesOf(ls)
      PROVE  x \in {<<j, 1>> : j \in {k \in DOMAIN ls : Calling(ls, k)}}
  <2>1. PICK j \in DOMAIN ls : \E k \in DOMAIN ls[j].frags :
          ~ls[j].asserts /\ ls[j].frags[k].part # "closing" /\ x = <<j, k>>
    BY <1>2 DEF SitesOf
  <2>2. ls[j].frags # <<>>
    BY <2>1
  <2>. QED BY <1>1, <2>1, <2>2 DEF Calling, HoldsPart
<1>3. ASSUME NEW j \in DOMAIN ls, Calling(ls, j)
      PROVE  <<j, 1>> \in SitesOf(ls)
  <2>1. ~ls[j].asserts /\ 1 \in DOMAIN ls[j].frags /\ ls[j].frags[1].part # "closing"
    BY <1>1, <1>3 DEF Calling, HoldsPart
  <2>. QED BY <2>1 DEF SitesOf
<1>. QED BY <1>2, <1>3

\* What is checked at line i.
CheckedAt(i) == {c \in Probe(i).calls : \A j \in Probe(i).rows : ~lines[j].asserts}

\* Line k is the one call site passed at line i.
OnlySite(i, k) ==
  /\ k \in DOMAIN lines /\ (k = i \/ k \in Probe(i).eats) /\ Calling(lines, k)
  /\ \A j \in DOMAIN lines : (j = i \/ j \in Probe(i).eats) /\ Calling(lines, j) => j = k

NoSite(i) == \A j \in DOMAIN lines : (j = i \/ j \in Probe(i).eats) => ~Calling(lines, j)

\* A turn of the loop checks one call if it passes one call site, and none otherwise.
LEMMA TurnFinds ==
  ASSUME Kept(lines), NEW i \in DOMAIN lines, ~HoldsPart(lines[i], "closing"),
         NEW checked, checked = CheckedAt(i)
  PROVE  \/ checked = {} /\ NoSite(i)
         \/ (\E c : checked = {c}) /\ \E k : OnlySite(i, k)
<1>0. lines \in Seq(Lines) /\ DOMAIN lines = 1 .. Len(lines) /\ Len(lines) \in Nat /\ i \in Nat \ {0}
  BY LineFacts DEF Kept
<1>1. CASE HoldsPart(lines[i], "entire")
  <2>1. Probe(i) = [calls |-> {CallOf(lines[i])}, rows |-> {i}, eats |-> {}]
    BY <1>1, ProbeFact
  <2>2. CASE lines[i].asserts
    BY <2>1, <2>2 DEF Calling, CheckedAt, NoSite
  <2>3. CASE ~lines[i].asserts
    <3>1. checked = {CallOf(lines[i])} /\ Calling(lines, i)
      BY <1>1, <2>1, <2>3 DEF Calling, CheckedAt
    <3>. QED BY <2>1, <3>1 DEF NoSite, OnlySite
  <2>. QED BY <2>2, <2>3
<1>2. CASE HoldsPart(lines[i], "opening")
  <2>1. /\ i + 1 \in DOMAIN lines
        /\ Probe(i) = [calls |-> {CallOf(lines[i])}, rows |-> {i, i + 1}, eats |-> {i + 1}]
    BY <1>2, ProbeFact
  <2>2. ~Calling(lines, i + 1) /\ (lines[i + 1].asserts => lines[i].asserts)
    <3>1. lines[i + 1].frags = Closing(lines[i].frags[1].call) /\ (lines[i + 1].asserts => lines[i].asserts)
      BY <1>2 DEF Kept, CallsEndNext
    <3>2. lines[i + 1].frags[1].part = "closing"
      BY <3>1 DEF Closing
    <3>. QED BY <3>1, <3>2 DEF Calling, HoldsPart
  <2>3. CASE lines[i].asserts
    <3>1. checked = {} /\ ~Calling(lines, i)
      BY <2>1, <2>3 DEF Calling, CheckedAt
    <3>. QED BY <2>1, <2>2, <3>1 DEF NoSite, OnlySite
  <2>4. CASE ~lines[i].asserts
    <3>1. checked = {CallOf(lines[i])} /\ Calling(lines, i)
      BY <1>2, <2>1, <2>2, <2>4 DEF Calling, CheckedAt
    <3>. QED BY <2>1, <2>2, <3>1 DEF NoSite, OnlySite
  <2>. QED BY <2>3, <2>4
<1>3. CASE ~HoldsPart(lines[i], "entire") /\ ~HoldsPart(lines[i], "opening")
  <2>1. ~Calling(lines, i)
    BY <1>3 DEF Calling
  <2>2. CASE i + 1 \in DOMAIN lines /\ HoldsPart(lines[i + 1], "entire")
    <3>1. Probe(i) = [calls |-> {CallOf(lines[i + 1])}, rows |-> {i, i + 1}, eats |-> {i + 1}]
      BY <1>3, <2>2, ProbeFact
    <3>2. lines[i].frags = <<>>
      BY <1>3, FragFacts DEF HoldsPart
    <3>3. ~lines[i].asserts
      BY <2>2, <3>2 DEF Kept, AssertsWithCall
    <3>4. CASE lines[i + 1].asserts
      <4>1. checked = {} /\ ~Calling(lines, i + 1)
        BY <3>1, <3>4 DEF Calling, CheckedAt
      <4>. QED BY <2>1, <3>1, <4>1 DEF NoSite, OnlySite
    <3>5. CASE ~lines[i + 1].asserts
      <4>1. checked = {CallOf(lines[i + 1])} /\ Calling(lines, i + 1)
        BY <2>2, <3>1, <3>3, <3>5 DEF Calling, CheckedAt
      <4>2. OnlySite(i, i + 1)
        BY <2>1, <2>2, <3>1, <4>1 DEF OnlySite
      <4>. QED BY <4>1, <4>2
    <3>. QED BY <3>4, <3>5
  <2>3. CASE ~(i + 1 \in DOMAIN lines /\ HoldsPart(lines[i + 1], "entire"))
    <3>1. Probe(i).calls = {} /\ Probe(i).eats = {}
      BY <1>3, <2>3, ProbeFact
    <3>. QED BY <2>1, <3>1 DEF NoSite, CheckedAt
  <2>. QED BY <2>2, <2>3
<1>. QED BY <1>1, <1>2, <1>3

LEMMA CountStart == SizingInit => ScanCounted
<1>1. SUFFICES ASSUME SizingInit PROVE ScanCounted
  OBVIOUS
<1>2. /\ doc = 1 /\ row = 1 /\ consumed = {} /\ sites = 0
      /\ \A d \in DOMAIN listing : ~(d < 1) /\ \A j \in DOMAIN listing[d] : ~(j < 1)
  BY <1>1, SourceFacts DEF SizingInit
<1>3. \A x : x \notin CountedSites
  BY <1>2, CountedMember DEF Past
<1>4. CountedSites = {}
  BY <1>3
<1>. QED BY <1>2, <1>4, FS_EmptySet DEF ScanCounted

LEMMA CountLine == ScanInv /\ ScanCounted /\ ScanLine => ScanCounted'
<1>1. SUFFICES ASSUME ScanInv, ScanCounted, ScanLine PROVE ScanCounted'
  OBVIOUS
<1>2. /\ listing' = listing /\ doc' = doc /\ row' = row + 1
      /\ row \in DOMAIN lines /\ Kept(lines) /\ DOMAIN lines = 1 .. Len(lines) /\ Len(lines) \in Nat
      /\ doc \in DOMAIN listing /\ lines = listing[doc] /\ consumed \subseteq 1 .. row /\ doc \in Nat
      /\ \A d \in DOMAIN listing : d \in Nat /\ DOMAIN listing[d] \subseteq Nat
  <2>1. listing' = listing /\ doc' = doc /\ row' = row + 1 /\ row <= Len(lines)
    BY <1>1 DEF ScanLine
  <2>2. /\ listing \in Sources /\ doc \in DOMAIN listing /\ row \in 1 .. Len(lines) + 1
        /\ consumed \subseteq 1 .. row
    BY <1>1 DEF ScanInv, ScanPlace
  <2>. QED BY <2>1, <2>2, SourceFacts DEF lines
<1>3. PICK eats : eats = Probe(row).eats
  OBVIOUS
<1>4. PICK checked :
        /\ checked = {c \in IF row \in consumed THEN {} ELSE Probe(row).calls :
                        \A j \in Probe(row).rows : ~lines[j].asserts}
        /\ consumed' = (IF row \in consumed THEN consumed ELSE consumed \cup eats)
        /\ sites' = sites + Cardinality(checked)
  BY <1>1, <1>3 DEF ScanLine
<1>5. eats \subseteq {row + 1} /\ (eats # {} => row + 1 \in DOMAIN lines)
  BY <1>2, <1>3, ProbeFact
<1>6. PICK counted : counted = CountedSites
  OBVIOUS
<1>7. IsFiniteSet(counted) /\ sites = Cardinality(counted)
  BY <1>1, <1>6 DEF ScanCounted
\* What the turn passes: the line at hand, and the one behind it if it eats that.
<1>8. \A d \in DOMAIN listing : \A j \in DOMAIN listing[d] :
        Past(d, j)' <=> (Past(d, j) \/ (d = doc /\ (j = row \/ j \in consumed')))
  <2>1. ASSUME NEW d \in DOMAIN listing, NEW j \in DOMAIN listing[d]
        PROVE  (j < row + 1 <=> (j < row \/ j = row)) /\ consumed \subseteq consumed'
    BY <1>2, <1>4
  <2>. QED BY <1>2, <2>1 DEF Past
<1>9. \A x : x \in CountedSites' <=>
        \/ x \in counted
        \/ \E j \in DOMAIN lines : /\ x = <<doc, <<j, 1>>>> /\ Calling(lines, j)
                                   /\ j = row \/ j \in consumed'
  <2>1. \A x : x \in CountedSites' <=>
          \E d \in DOMAIN listing : \E j \in DOMAIN listing[d] :
            x = <<d, <<j, 1>>>> /\ Calling(listing[d], j) /\ Past(d, j)'
    BY <1>2 DEF CountedSites, SitesPast
  <2>. QED BY <1>2, <1>6, <1>8, <2>1, CountedMember
<1>10. ASSUME NEW j \in DOMAIN lines, <<doc, <<j, 1>>>> \in counted PROVE j < row \/ j \in consumed
  <2>1. Past(doc, j)
    BY <1>6, <1>10, CountedMember
  <2>. QED BY <1>2, <2>1 DEF Past
<1>11. CASE row \in consumed
  <2>1. checked = {} /\ consumed' = consumed
    BY <1>4, <1>11
  <2>2. ASSUME NEW j \in DOMAIN lines, Calling(lines, j), j = row \/ j \in consumed'
        PROVE  <<doc, <<j, 1>>>> \in counted
    BY <1>2, <1>6, <1>11, <2>1, <2>2, CountedMember DEF Past
  <2>3. CountedSites' = counted
    BY <1>9, <2>2
  <2>4. Cardinality(checked) = 0
    BY <2>1, FS_EmptySet
  <2>. QED BY <1>4, <1>7, <2>3, <2>4, FS_CardinalityType DEF ScanCounted
<1>12. CASE row \notin consumed
  <2>1. ~HoldsPart(lines[row], "closing")
    BY <1>1, <1>2, <1>12 DEF ScanInv, ScanEaten
  <2>2. checked = CheckedAt(row) /\ consumed' = consumed \cup eats
    BY <1>4, <1>12 DEF CheckedAt
  <2>3. ASSUME NEW j \in DOMAIN lines, Calling(lines, j), j \in consumed
        PROVE  <<doc, <<j, 1>>>> \in counted
    BY <1>2, <1>6, <2>3, CountedMember DEF Past
  <2>4. CASE checked = {} /\ NoSite(row)
    <3>1. CountedSites' = counted
      BY <1>3, <1>9, <2>2, <2>3, <2>4 DEF NoSite
    <3>2. Cardinality(checked) = 0
      BY <2>4, FS_EmptySet
    <3>. QED BY <1>4, <1>7, <3>1, <3>2, FS_CardinalityType DEF ScanCounted
  <2>5. ASSUME NEW c, NEW k, checked = {c}, OnlySite(row, k) PROVE ScanCounted'
    <3>1. CountedSites' = counted \cup {<<doc, <<k, 1>>>>}
      BY <1>3, <1>9, <2>2, <2>3, <2>5 DEF OnlySite
    <3>2. <<doc, <<k, 1>>>> \notin counted
      <4>1. k \in DOMAIN lines /\ (k = row \/ k = row + 1)
        BY <1>3, <1>5, <2>5 DEF OnlySite
      <4>2. ~(k < row) /\ k \notin consumed
        BY <1>2, <1>12, <4>1
      <4>. QED BY <1>10, <4>1, <4>2
    <3>3. Cardinality(checked) = 1
      BY <2>5, FS_Singleton
    <3>4. IsFiniteSet(CountedSites') /\ Cardinality(CountedSites') = Cardinality(counted) + 1
      BY <1>7, <3>1, <3>2, FS_AddElement
    <3>. QED BY <1>4, <1>7, <3>3, <3>4 DEF ScanCounted
  <2>. QED BY <1>2, <2>1, <2>2, <2>4, <2>5, TurnFinds
<1>. QED BY <1>11, <1>12

LEMMA CountFile == ScanInv /\ ScanCounted /\ NextFile => ScanCounted'
<1>1. SUFFICES ASSUME ScanInv, ScanCounted, NextFile PROVE ScanCounted'
  OBVIOUS
<1>2. /\ listing' = listing /\ consumed' = {} /\ sites' = sites
      /\ \/ doc' = doc + 1 /\ row' = 1
         \/ doc' = doc /\ row' = row
  BY <1>1 DEF NextFile
<1>3. /\ doc \in DOMAIN listing /\ doc \in Nat /\ lines = listing[doc] /\ row = Len(lines) + 1
      /\ \A d \in DOMAIN listing : d \in Nat /\ DOMAIN listing[d] = 1 .. Len(listing[d]) /\ Len(listing[d]) \in Nat
  <2>1. listing \in Sources /\ doc \in DOMAIN listing /\ row \in 1 .. Len(lines) + 1 /\ row > Len(lines)
    BY <1>1 DEF ScanInv, ScanPlace, NextFile
  <2>. QED BY <2>1, SourceFacts DEF lines
<1>4. ASSUME NEW d \in DOMAIN listing, NEW j \in DOMAIN listing[d] PROVE Past(d, j)' <=> Past(d, j)
  <2>1. d = doc => j < row /\ ~(j < 1)
    BY <1>3
  <2>2. d < doc + 1 <=> (d < doc \/ d = doc)
    BY <1>3
  <2>3. d = doc + 1 => j \in Nat \ {0} /\ ~(j < 1) /\ d # doc /\ ~(d < doc)
    BY <1>3
  <2>. QED BY <1>2, <2>1, <2>2, <2>3 DEF Past
<1>5. CountedSites' = CountedSites
  <2>1. \A x : x \in CountedSites' <=>
          \E d \in DOMAIN listing : \E j \in DOMAIN listing[d] :
            x = <<d, <<j, 1>>>> /\ Calling(listing[d], j) /\ Past(d, j)'
    BY <1>2 DEF CountedSites, SitesPast
  <2>2. \A x : x \in CountedSites' <=> x \in CountedSites
    BY <1>4, <2>1, CountedMember
  <2>. QED BY <2>2
<1>. QED BY <1>1, <1>2, <1>5 DEF ScanCounted

\* The report counts every call outside an assertion once, whether it stands on a line, is broken
\* over two or is found from the line before, for any number of files in the form of the sources.
THEOREM SitesCounted == SizingSpec => []EverySiteOnce
<1>1. ScanInv /\ ScanCounted /\ [SizingNext]_sizingVars => ScanCounted'
  <2>1. ScanCounted /\ UNCHANGED sizingVars => ScanCounted'
    BY DEF sizingVars, ScanCounted, CountedSites, SitesPast, Past
  <2>. QED BY <2>1, CountLine, CountFile DEF SizingNext
<1>2. ScanInv /\ ScanCounted => EverySiteOnce
  <2>1. SUFFICES ASSUME ScanInv, ScanCounted, outcome # -1
                 PROVE  sites = Cardinality(UNION {{<<d, s>> : s \in SitesOf(listing[d])} : d \in DOMAIN listing})
    BY DEF EverySiteOnce
  <2>2. /\ doc = Len(listing) /\ row = Len(lines) + 1 /\ lines = listing[doc] /\ Len(listing) \in Nat
        /\ DOMAIN listing = 1 .. Len(listing)
        /\ \A d \in DOMAIN listing : Kept(listing[d]) /\ DOMAIN listing[d] = 1 .. Len(listing[d])
                                     /\ Len(listing[d]) \in Nat
    BY <2>1, SourceFacts DEF ScanInv, ScanPlace, lines
  <2>3. \A d \in DOMAIN listing : \A j \in DOMAIN listing[d] : Past(d, j)
    BY <2>2 DEF Past
  <2>4. \A d \in DOMAIN listing : SitesOf(listing[d]) = {<<j, 1>> : j \in {k \in DOMAIN listing[d] : Calling(listing[d], k)}}
    BY <2>2, SitesOfFact
  <2>5. ASSUME NEW x
        PROVE  x \in UNION {{<<d, s>> : s \in SitesOf(listing[d])} : d \in DOMAIN listing} <=> x \in CountedSites
    <3>1. x \in UNION {{<<d, s>> : s \in SitesOf(listing[d])} : d \in DOMAIN listing}
            <=> \E d \in DOMAIN listing : \E j \in DOMAIN listing[d] : x = <<d, <<j, 1>>>> /\ Calling(listing[d], j)
      BY <2>4
    <3>. QED BY <2>3, <3>1, CountedMember
  <2>6. UNION {{<<d, s>> : s \in SitesOf(listing[d])} : d \in DOMAIN listing} = CountedSites
    BY <2>5
  <2>. QED BY <2>1, <2>6 DEF ScanCounted
<1>. QED BY <1>1, <1>2, CountStart, ScanKeeps, PTL DEF SizingSpec
===============================================================================
