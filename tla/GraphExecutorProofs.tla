------------------------ MODULE GraphExecutorProofs ------------------------
(***************************************************************************)
(* Theorems about GraphExecutor, for every number of IB slices, every set  *)
(* of sorted graphs, every number of executions and every set of failing   *)
(* calls.                                                                  *)
(***************************************************************************)
EXTENDS GraphExecutorInv, WellFoundedInduction, TLAPS

(***************************************************************************)
(* Lemmas about the pure operators.                                        *)
(***************************************************************************)

\* A nonempty set of naturals has a least element.
LEMMA LeastNat ==
  ASSUME NEW T, T \subseteq Nat, T # {}
  PROVE  \E x \in T : \A y \in T : x <= y
<1>1. PICK x \in T : \A y \in T : ~ (<<y, x>> \in OpToRel(<, Nat))
  BY WFMin, NatLessThanWellFounded
<1>2. \A y \in T : ~(y < x)
  BY <1>1 DEF OpToRel
<1>. QED
  BY <1>2

\* A kind that has a batch is opened by the first of its nodes.
LEMMA OpenerIsPosition ==
  ASSUME NEW nodes \in Seq(Nodes), NEW k \in BatchKinds(nodes)
  PROVE  BatchOpener(nodes, k) \in 1 .. Len(nodes)
<1>. DEFINE T == {i \in 1 .. Len(nodes) : nodes[i].queue = k}
<1>1. T \subseteq Nat /\ T # {}
  BY DEF BatchKinds
<1>2. PICK x \in T : \A y \in T : x <= y
  BY <1>1, LeastNat
<1>3. /\ x \in 1 .. Len(nodes)
      /\ nodes[x].queue = k
      /\ \A j \in 1 .. Len(nodes) : nodes[j].queue = k => x <= j
  BY <1>2
<1>. QED
  BY <1>3 DEF BatchOpener

\* The batch visited next is one of those still to be visited.
LEMMA NextBatchInTodo ==
  ASSUME NEW nodes \in Seq(Nodes), NEW S, S \subseteq BatchKinds(nodes), S # {}
  PROVE  NextBatch(nodes, S) \in S
<1>. DEFINE T == {BatchOpener(nodes, k) : k \in S}
<1>1. T \subseteq Nat /\ T # {}
  BY OpenerIsPosition
<1>2. PICK x \in T : \A y \in T : x <= y
  BY <1>1, LeastNat
<1>3. PICK k \in S : x = BatchOpener(nodes, k)
  BY <1>2
<1>4. \A l \in S : BatchOpener(nodes, k) <= BatchOpener(nodes, l)
  BY <1>2, <1>3
<1>. QED
  BY <1>4 DEF NextBatch

\* The queue of a node is a queue kind, and only queue kinds get batches.
LEMMA QueueTyped ==
  ASSUME NEW g \in Seq(Nodes)
  PROVE  /\ \A i \in 1 .. Len(g) : g[i] \in Nodes /\ g[i].queue \in QueueKinds
         /\ BatchKinds(g) \subseteq QueueKinds
<1>1. \A i \in 1 .. Len(g) : g[i] \in Nodes
  OBVIOUS
<1>2. \A n \in Nodes : n.queue \in QueueKinds
  BY DEF Nodes
<1>. QED
  BY <1>1, <1>2 DEF BatchKinds

\* The slice cursor stays inside the IB buffer.
LEMMA NextSlotTyped ==
  ASSUME NEW c \in SliceIds
  PROVE  NextSlot(c) \in SliceIds
BY SlotsAssumption DEF NextSlot, SliceIds

-----------------------------------------------------------------------------
(***************************************************************************)
(* Type correctness.                                                       *)
(***************************************************************************)

\* The context gpu_context_new_native leaves behind is typed.
LEMMA InitTyped == Init => TypeOK
<1>. SUFFICES ASSUME Init PROVE TypeOK
  OBVIOUS
<1>1. TimelineTypeOK
  BY SlotsAssumption
  DEF Init, TimelineInit, TimelineTypeOK, SliceIds, Streams, NoStream
<1>2. graph \in Seq(Nodes) /\ Len(graph) = 0
  BY DEF Init
<1>3. Sorted(graph)
  BY <1>2 DEF Sorted, Deps
<1>4. todo \subseteq BatchKinds(graph)
  BY DEF Init
<1>5. runs \in 0 .. MaxRuns
  BY MaxRunsAssumption DEF Init
<1>6. node \in Nat \ {0} /\ fence \in Nat \ {0}
  BY DEF Init
<1>7. rc \in BOOLEAN
  BY DEF Init
<1>8. pc \in PcLabels /\ nodePoint \in [1 .. Len(graph) -> Nat]
  BY <1>2 DEF Init, PcLabels
<1>. QED
  BY <1>1, <1>2, <1>3, <1>4, <1>5, <1>6, <1>7, <1>8 DEF TypeOK, ExecTypeOK

\* The CPU and ring actions keep the queue layer's variables typed.
LEMMA QueueGetTyped ==
  ASSUME TimelineTypeOK, NEW k \in QueueKinds, QueueGet(k)
  PROVE  TimelineTypeOK'
BY DEF TimelineTypeOK, QueueGet, gpuVars

\* _backend_native_queue_barrier stores a queue kind and a point.
LEMMA QueueBarrierTyped ==
  ASSUME TimelineTypeOK, NEW s \in QueueKinds, NEW d \in QueueKinds,
         QueueBarrier(s, d)
  PROVE  TimelineTypeOK'
<1>1. CASE point[s] = 0
  BY <1>1 DEF TimelineTypeOK, QueueBarrier, gpuVars
<1>2. CASE point[s] # 0
  BY <1>2 DEF TimelineTypeOK, QueueBarrier, gpuVars
<1>. QED
  BY <1>1, <1>2

\* What a *_timeline driver stages, clears and bumps stays in its type.
LEMMA StageAndBumpTyped ==
  ASSUME TimelineTypeOK, NEW q \in QueueKinds, StageAndBump(q)
  PROVE  /\ ib' \in [SliceIds -> Streams]
         /\ point' \in [QueueKinds -> Nat]
         /\ pendOn' \in [QueueKinds -> QueueKinds \cup {NoQueue}]
         /\ pendPt' \in [QueueKinds -> Nat]
<1>1. <<q, point[q] + 1>> \in Streams
  BY DEF TimelineTypeOK, Streams
<1>2. ib' \in [SliceIds -> Streams]
  BY <1>1 DEF TimelineTypeOK, StageAndBump
<1>3. /\ point' \in [QueueKinds -> Nat]
      /\ pendOn' \in [QueueKinds -> QueueKinds \cup {NoQueue}]
      /\ pendPt' \in [QueueKinds -> Nat]
  BY DEF TimelineTypeOK, StageAndBump
<1>. QED
  BY <1>2, <1>3

\* A submission, accepted or refused, keeps the queue layer typed.
LEMMA SubmitTyped ==
  ASSUME TimelineTypeOK, NEW q \in QueueKinds, SubmitAccepted(q) \/ SubmitRefused(q),
         live' = live, current' \in QueueKinds, cursor' \in SliceIds
  PROVE  TimelineTypeOK'
<1>1. /\ ib' \in [SliceIds -> Streams]
      /\ point' \in [QueueKinds -> Nat]
      /\ pendOn' \in [QueueKinds -> QueueKinds \cup {NoQueue}]
      /\ pendPt' \in [QueueKinds -> Nat]
  BY StageAndBumpTyped DEF SubmitAccepted, SubmitRefused
<1>2. CASE SubmitAccepted(q)
  <2>1. [q |-> q, pt |-> point[q] + 1, on |-> pendOn[q], wpt |-> pendPt[q],
         slice |-> cursor] \in Jobs
    BY DEF TimelineTypeOK, Jobs
  <2>2. inflight' \subseteq Jobs
    BY <1>2, <2>1 DEF TimelineTypeOK, SubmitAccepted
  <2>3. submitted' \in [QueueKinds -> Nat]
    BY <1>2 DEF TimelineTypeOK, SubmitAccepted
  <2>4. UNCHANGED <<started, signalled>>
    BY <1>2 DEF SubmitAccepted
  <2>. QED
    BY <1>1, <2>2, <2>3, <2>4 DEF TimelineTypeOK
<1>3. CASE SubmitRefused(q)
  BY <1>1, <1>3 DEF TimelineTypeOK, SubmitRefused, gpuVars
<1>. QED
  BY <1>2, <1>3

\* Starting and retiring a job keep the queue layer typed.
LEMMA RingTyped ==
  ASSUME TimelineTypeOK, NEW q \in QueueKinds, RingStart(q) \/ RingRetire(q)
  PROVE  TimelineTypeOK'
<1>1. CASE RingStart(q)
  <2>1. PICK j \in inflight : started' = [started EXCEPT ![q] = j.pt]
    BY <1>1 DEF RingStart
  <2>2. j.pt \in Nat
    BY <2>1 DEF TimelineTypeOK, Jobs
  <2>3. started' \in [QueueKinds -> Nat]
    BY <2>1, <2>2 DEF TimelineTypeOK
  <2>. QED
    BY <1>1, <2>3 DEF TimelineTypeOK, RingStart, cpuVars
<1>2. CASE RingRetire(q)
  BY <1>2 DEF TimelineTypeOK, RingRetire, cpuVars
<1>. QED
  BY <1>1, <1>2

\* One step of the executor or of a ring keeps every variable typed.
LEMMA StepTyped == TypeOK /\ [Next]_vars => TypeOK'
<1>. SUFFICES ASSUME TypeOK, [Next]_vars PROVE TypeOK'
  OBVIOUS
<1>. USE DEF TypeOK
<1>1. ASSUME NEW g \in Graphs, Begin(g) PROVE TypeOK'
  <2>1. g \in Seq(Nodes) /\ Sorted(g)
    BY GraphsAssumption
  <2>2. graph' = g /\ todo' = BatchKinds(g)
    BY <1>1 DEF Begin
  <2>3. nodePoint' \in [1 .. Len(g) -> Nat]
    BY <1>1 DEF Begin
  <2>4. runs' \in 0 .. MaxRuns
    BY <1>1, MaxRunsAssumption DEF Begin, ExecTypeOK
  <2>5. cursor' \in SliceIds /\ pc' \in PcLabels
    BY <1>1, SlotsAssumption DEF Begin, TimelineTypeOK, SliceIds, PcLabels
  <2>6. node' \in Nat \ {0} /\ fence' \in Nat \ {0}
    BY <1>1 DEF Begin
  <2>7. rc' \in BOOLEAN
    BY <1>1 DEF Begin
  <2>8. ExecTypeOK'
    BY <2>1, <2>2, <2>3, <2>4, <2>5, <2>6, <2>7 DEF ExecTypeOK
  <2>9. TimelineTypeOK'
    BY <1>1, <2>5 DEF Begin, TimelineTypeOK, gpuVars
  <2>. QED
    BY <2>8, <2>9
<1>2. ASSUME Acquire PROVE TypeOK'
  <2>1. NextBatch(graph, todo) \in todo
    BY <1>2, NextBatchInTodo DEF Acquire, ExecTypeOK
  <2>2. NextBatch(graph, todo) \in QueueKinds
    BY <2>1, QueueTyped DEF ExecTypeOK
  <2>3. TimelineTypeOK'
    <3>1. CASE QueueGet(NextBatch(graph, todo))
      BY <2>2, <3>1, QueueGetTyped
    <3>2. CASE UNCHANGED timelineVars
      BY <3>2 DEF TimelineTypeOK, timelineVars, cpuVars, gpuVars
    <3>. QED
      BY <1>2, <3>1, <3>2 DEF Acquire, QueueGetFails
  <2>4. ExecTypeOK'
    BY <1>2 DEF Acquire, ExecTypeOK, PcLabels
  <2>. QED
    BY <2>3, <2>4
<1>3. ASSUME Barrier PROVE TypeOK'
  <2>1. PICK p \in FencesLeft :
          QueueBarrier(Queue(p), Queue(node)) /\ fence' = p + 1
    BY <1>3 DEF Barrier
  <2>2. p \in 1 .. Len(graph) /\ node \in 1 .. Len(graph)
    BY <1>3, <2>1 DEF FencesLeft, Barrier, ExecTypeOK
  <2>3. Queue(p) \in QueueKinds /\ Queue(node) \in QueueKinds
    BY <2>2, QueueTyped DEF Queue, ExecTypeOK
  <2>4. TimelineTypeOK'
    BY <2>1, <2>3, QueueBarrierTyped
  <2>5. ExecTypeOK'
    BY <1>3, <2>1, <2>2 DEF Barrier, ExecTypeOK
  <2>. QED
    BY <2>4, <2>5
<1>4. ASSUME Dispatch PROVE TypeOK'
  <2>1. node \in 1 .. Len(graph) /\ Queue(node) \in QueueKinds
    BY <1>4, QueueTyped DEF Dispatch, ExecTypeOK, Queue
  <2>2. current' \in QueueKinds /\ live' = live
    BY <1>4, <2>1 DEF Dispatch
  <2>3. CASE DispatchAccepted
    <3>1. cursor' \in SliceIds
      BY <2>3, NextSlotTyped DEF DispatchAccepted, Advance, TimelineTypeOK
    <3>2. TimelineTypeOK'
      BY <2>1, <2>2, <2>3, <3>1, SubmitTyped DEF DispatchAccepted
    <3>3. nodePoint' \in [1 .. Len(graph) -> Nat]
      <4>1. /\ point[Queue(node)] + 1 \in Nat
            /\ nodePoint \in [1 .. Len(graph) -> Nat]
        BY <2>1 DEF ExecTypeOK, TimelineTypeOK
      <4>2. nodePoint' = [nodePoint EXCEPT ![node] = point[Queue(node)] + 1]
        BY <2>3 DEF DispatchAccepted
      <4>. QED
        BY <2>1, <4>1, <4>2
    <3>4. /\ pc' \in PcLabels
          /\ node' \in Nat \ {0}
          /\ fence' \in Nat \ {0}
          /\ rc' \in BOOLEAN
      BY <2>3 DEF DispatchAccepted, Advance, ExecTypeOK, PcLabels
    <3>. QED
      BY <1>4, <3>2, <3>3, <3>4 DEF Dispatch, ExecTypeOK
  <2>4. CASE DispatchRefused
    <3>1. cursor' \in SliceIds
      BY <2>4, NextSlotTyped DEF DispatchRefused, Advance, TimelineTypeOK
    <3>2. TimelineTypeOK'
      BY <2>1, <2>2, <2>4, <3>1, SubmitTyped DEF DispatchRefused
    <3>. QED
      BY <1>4, <2>4, <3>2 DEF Dispatch, DispatchRefused, Advance, ExecTypeOK
  <2>5. CASE DispatchRejected
    <3>1. cursor' \in SliceIds
      BY <2>5, NextSlotTyped DEF DispatchRejected, Advance, TimelineTypeOK
    <3>2. ib' \in [SliceIds -> Streams]
      BY <2>5 DEF DispatchRejected, ClearSlice, NoStream, Streams, TimelineTypeOK
    <3>3. UNCHANGED <<point, pendOn, pendPt, gpuVars>>
      BY <2>5 DEF DispatchRejected, ClearSlice
    <3>4. TimelineTypeOK'
      BY <2>2, <3>1, <3>2, <3>3 DEF TimelineTypeOK, gpuVars
    <3>. QED
      BY <1>4, <2>5, <3>4 DEF Dispatch, DispatchRejected, Advance, ExecTypeOK
  <2>. QED
    BY <1>4, <2>3, <2>4, <2>5 DEF Dispatch
<1>5. ASSUME CopyWait PROVE TypeOK'
  <2>1. cursor' \in SliceIds
    BY <1>5, NextSlotTyped DEF CopyWait, Advance, TimelineTypeOK
  <2>2. TimelineTypeOK'
    BY <1>5, <2>1 DEF CopyWait, TimelineTypeOK, gpuVars
  <2>3. rc' \in BOOLEAN
    BY <1>5 DEF CopyWait, ExecTypeOK
  <2>4. /\ pc' \in PcLabels
        /\ node' \in Nat \ {0}
        /\ fence' \in Nat \ {0}
    BY <1>5 DEF CopyWait, Advance, ExecTypeOK, PcLabels
  <2>5. ExecTypeOK'
    BY <1>5, <2>3, <2>4 DEF CopyWait, ExecTypeOK
  <2>. QED
    BY <2>2, <2>5
<1>6. ASSUME EndWalk PROVE TypeOK'
  BY <1>6 DEF EndWalk, TimelineTypeOK, gpuVars, ExecTypeOK, PcLabels
<1>7. ASSUME Retire PROVE TypeOK'
  <2>1. TimelineTypeOK'
    BY <1>7 DEF Retire, TimelineTypeOK, timelineVars, cpuVars, gpuVars
  <2>2. ExecTypeOK'
    BY <1>7 DEF Retire, ExecTypeOK, PcLabels
  <2>. QED
    BY <2>1, <2>2
<1>8. ASSUME NEW q \in QueueKinds, Ring(q) PROVE TypeOK'
  BY <1>8, RingTyped DEF Ring, execVars, ExecTypeOK
<1>9. ASSUME UNCHANGED vars PROVE TypeOK'
  BY <1>9 DEF vars, timelineVars, cpuVars, gpuVars, execVars, TimelineTypeOK,
     ExecTypeOK
<1>. QED
  BY <1>1, <1>2, <1>3, <1>4, <1>5, <1>6, <1>7, <1>8, <1>9
  DEF Next, Cpu, Quiescent

\* The type invariant of GraphExecutor holds whatever the graphs, the number
\* of slices and the calls that fail: the state _rg_execute_native_mq and the
\* queue layer keep stays in range in every execution.
THEOREM TypeCorrect == Spec => []TypeOK
<1>. QED
  BY InitTyped, StepTyped, PTL DEF Spec

-----------------------------------------------------------------------------
(***************************************************************************)
(* Timeline order.                                                         *)
(***************************************************************************)

\* An accepted submission adds one job, at a fresh point, and its fence.
LEMMA SubmitAcceptedOrder ==
  ASSUME TimelineTypeOK, TimelineOrder, RingsRunOldest,
         NEW q \in QueueKinds, SubmitAccepted(q), TimelineTypeOK'
  PROVE  TimelineOrder' /\ RingsRunOldest'
<1>. DEFINE n == point[q] + 1
            new == [q |-> q, pt |-> n, on |-> pendOn[q], wpt |-> pendPt[q],
                    slice |-> cursor]
<1>1. /\ n \in Nat
      /\ point' = [point EXCEPT ![q] = n]
      /\ submitted' = [submitted EXCEPT ![q] = n]
      /\ inflight' = inflight \cup {new}
      /\ UNCHANGED <<started, signalled>>
  BY DEF SubmitAccepted, StageAndBump, TimelineTypeOK
<1>2. new.q = q /\ new.pt = n /\ new \in inflight'
  BY <1>1
<1>3. /\ submitted[q] < n /\ started[q] < n /\ signalled[q] < n
      /\ \A j \in inflight : j.q = q => j.pt < n
  BY DEF TimelineOrder, TimelineTypeOK, Jobs
<1>. HIDE DEF new, n
<1>4. \A k \in QueueKinds : /\ signalled'[k] <= started'[k]
                            /\ started'[k] <= submitted'[k]
                            /\ submitted'[k] <= point'[k]
  BY <1>1, <1>3 DEF TimelineOrder, TimelineTypeOK
<1>5. \A j \in inflight' : signalled'[j.q] < j.pt /\ j.pt <= submitted'[j.q]
  BY <1>1, <1>2, <1>3 DEF TimelineOrder, TimelineTypeOK, Jobs
<1>6. \A j, o \in inflight' : j.q = o.q /\ j.pt = o.pt => j = o
  BY <1>1, <1>2, <1>3 DEF TimelineOrder, TimelineTypeOK, Jobs
<1>7. ASSUME NEW k \in QueueKinds, signalled'[k] < submitted'[k]
      PROVE  \E j \in inflight' : j.q = k /\ j.pt = submitted'[k]
  <2>1. CASE k = q
    BY <1>1, <1>2, <2>1 DEF TimelineTypeOK
  <2>2. CASE k # q
    BY <1>1, <1>7, <2>2 DEF TimelineTypeOK, TimelineOrder
  <2>. QED
    BY <2>1, <2>2
<1>8. RingsRunOldest'
  BY <1>1, <1>2, <1>3 DEF RingsRunOldest, TimelineTypeOK, Jobs
<1>. QED
  BY <1>4, <1>5, <1>6, <1>7, <1>8 DEF TimelineOrder

\* A refused submission only moves the point further ahead.
LEMMA SubmitRefusedOrder ==
  ASSUME TimelineTypeOK, TimelineOrder, RingsRunOldest,
         NEW q \in QueueKinds, SubmitRefused(q)
  PROVE  TimelineOrder' /\ RingsRunOldest'
<1>1. /\ point' = [point EXCEPT ![q] = point[q] + 1]
      /\ UNCHANGED <<submitted, started, signalled, inflight>>
  BY DEF SubmitRefused, StageAndBump, gpuVars
<1>2. \A k \in QueueKinds : submitted'[k] <= point'[k]
  BY <1>1 DEF TimelineOrder, TimelineTypeOK
<1>. QED
  BY <1>1, <1>2 DEF TimelineOrder, RingsRunOldest

\* A ring starts a job whose point is accepted and not yet signalled.
LEMMA RingStartOrder ==
  ASSUME TimelineTypeOK, TimelineOrder, RingsRunOldest,
         NEW q \in QueueKinds, RingStart(q)
  PROVE  TimelineOrder' /\ RingsRunOldest'
<1>1. PICK j \in inflight : /\ j.q = q
                            /\ Oldest(j)
                            /\ started' = [started EXCEPT ![q] = j.pt]
  BY DEF RingStart
<1>2. UNCHANGED <<point, submitted, signalled, inflight>>
  BY DEF RingStart, cpuVars
<1>3. signalled[q] < j.pt /\ j.pt <= submitted[q] /\ j.pt \in Nat
  BY <1>1 DEF TimelineOrder, TimelineTypeOK, Jobs
<1>4. \A k \in QueueKinds : /\ signalled'[k] <= started'[k]
                            /\ started'[k] <= submitted'[k]
                            /\ submitted'[k] <= point'[k]
  BY <1>1, <1>2, <1>3 DEF TimelineOrder, TimelineTypeOK
<1>5. TimelineOrder'
  BY <1>2, <1>4 DEF TimelineOrder
<1>6. RingsRunOldest'
  BY <1>1, <1>2 DEF RingsRunOldest, Oldest, TimelineTypeOK
<1>. QED
  BY <1>5, <1>6

\* A ring signals the point it started; the jobs left are later ones.
LEMMA RingRetireOrder ==
  ASSUME TimelineTypeOK, TimelineOrder, RingsRunOldest,
         NEW q \in QueueKinds, RingRetire(q)
  PROVE  TimelineOrder' /\ RingsRunOldest'
<1>1. /\ started[q] # signalled[q]
      /\ signalled' = [signalled EXCEPT ![q] = started[q]]
      /\ inflight' = {j \in inflight : ~(j.q = q /\ j.pt = started[q])}
      /\ UNCHANGED <<point, submitted, started>>
  BY DEF RingRetire, cpuVars
<1>2. ASSUME NEW j \in inflight'
      PROVE  j \in inflight /\ (j.q = q => started[q] < j.pt)
  <2>1. j \in inflight /\ ~(j.q = q /\ j.pt = started[q])
    BY <1>1
  <2>2. j.pt \in Nat /\ started[q] \in Nat
    BY <2>1 DEF TimelineTypeOK, Jobs
  <2>3. j.q = q => started[q] <= j.pt
    BY <1>1, <2>1 DEF RingsRunOldest
  <2>. QED
    BY <2>1, <2>2, <2>3
<1>3. \A k \in QueueKinds : signalled'[k] <= started'[k]
  BY <1>1 DEF TimelineOrder, TimelineTypeOK
<1>4. ASSUME NEW j \in inflight'
      PROVE  signalled'[j.q] < j.pt /\ j.pt <= submitted'[j.q]
  <2>1. j \in inflight /\ j.q \in QueueKinds
    BY <1>2 DEF TimelineTypeOK, Jobs
  <2>2. signalled[j.q] < j.pt /\ j.pt <= submitted[j.q]
    BY <2>1 DEF TimelineOrder
  <2>3. signalled'[j.q] = IF j.q = q THEN started[q] ELSE signalled[j.q]
    BY <1>1, <2>1 DEF TimelineTypeOK
  <2>4. UNCHANGED submitted /\ (j.q = q => started[q] < j.pt)
    BY <1>1, <1>2
  <2>. QED
    BY <2>2, <2>3, <2>4
<1>5. ASSUME NEW k \in QueueKinds, signalled'[k] < submitted'[k]
      PROVE  \E j \in inflight' : j.q = k /\ j.pt = submitted'[k]
  <2>1. signalled[k] < submitted[k]
    BY <1>1, <1>5 DEF TimelineOrder, TimelineTypeOK
  <2>2. PICK j \in inflight : j.q = k /\ j.pt = submitted[k]
    BY <2>1 DEF TimelineOrder
  <2>3. ~(j.q = q /\ j.pt = started[q])
    BY <1>1, <1>5, <2>2 DEF TimelineTypeOK
  <2>. QED
    BY <1>1, <2>2, <2>3
<1>6. TimelineOrder'
  BY <1>1, <1>2, <1>3, <1>4, <1>5 DEF TimelineOrder
<1>7. RingsRunOldest'
  BY <1>1, <1>2 DEF RingsRunOldest, TimelineTypeOK
<1>. QED
  BY <1>6, <1>7

\* No other step touches what timeline order talks about.
LEMMA TimelineFrame ==
  ASSUME TimelineOrder, RingsRunOldest, UNCHANGED <<point, gpuVars>>
  PROVE  TimelineOrder' /\ RingsRunOldest'
BY DEF TimelineOrder, RingsRunOldest, gpuVars

\* The node the walk is at is a node of the graph, with a queue.
LEMMA DispatchedNode ==
  ASSUME TypeOK, Dispatch
  PROVE  node \in 1 .. Len(graph) /\ Queue(node) \in QueueKinds
BY QueueTyped DEF TypeOK, Dispatch, ExecTypeOK, Queue

\* Only a dispatch and a ring change the points, the jobs and the signals.
LEMMA TimelineSteps ==
  ASSUME TypeOK, [Next]_vars
  PROVE  \/ /\ Dispatch
            /\ SubmitAccepted(Queue(node)) \/ SubmitRefused(Queue(node))
         \/ \E q \in QueueKinds : RingStart(q) \/ RingRetire(q)
         \/ UNCHANGED <<point, gpuVars>>
<1>1. ASSUME NEW g \in Graphs, Begin(g) PROVE UNCHANGED <<point, gpuVars>>
  BY <1>1 DEF Begin
<1>2. ASSUME Acquire PROVE UNCHANGED <<point, gpuVars>>
  BY <1>2 DEF Acquire, QueueGet, QueueGetFails, timelineVars, cpuVars
<1>3. ASSUME Barrier PROVE UNCHANGED <<point, gpuVars>>
  BY <1>3 DEF Barrier, QueueBarrier
<1>4. ASSUME Dispatch
      PROVE  \/ SubmitAccepted(Queue(node)) \/ SubmitRefused(Queue(node))
             \/ UNCHANGED <<point, gpuVars>>
  BY <1>4 DEF Dispatch, DispatchAccepted, DispatchRefused, DispatchRejected,
     ClearSlice
<1>5. ASSUME CopyWait \/ EndWalk \/ Retire PROVE UNCHANGED <<point, gpuVars>>
  BY <1>5 DEF CopyWait, EndWalk, Retire, timelineVars, cpuVars
<1>6. ASSUME UNCHANGED vars PROVE UNCHANGED <<point, gpuVars>>
  BY <1>6 DEF vars, timelineVars, cpuVars
<1>. QED
  BY <1>1, <1>2, <1>3, <1>4, <1>5, <1>6 DEF Next, Cpu, Ring, Quiescent

\* A new context has no points and no jobs, so its timelines are in order.
LEMMA InitTimelineInv == Init => TimelineInv
<1>. SUFFICES ASSUME Init PROVE TimelineInv
  OBVIOUS
<1>1. TypeOK
  BY InitTyped
<1>2. TimelineOrder /\ RingsRunOldest
  BY DEF Init, TimelineInit, TimelineOrder, RingsRunOldest
<1>. QED
  BY <1>1, <1>2 DEF TimelineInv

\* Every step of executor and rings keeps the timelines in order.
LEMMA StepTimelineInv == TimelineInv /\ [Next]_vars => TimelineInv'
<1>. SUFFICES ASSUME TimelineInv, [Next]_vars PROVE TimelineInv'
  OBVIOUS
<1>1. /\ TypeOK /\ TypeOK'
      /\ TimelineTypeOK /\ TimelineTypeOK'
      /\ TimelineOrder /\ RingsRunOldest
  BY StepTyped DEF TimelineInv, TypeOK
<1>2. CASE Dispatch /\ (\/ SubmitAccepted(Queue(node))
                        \/ SubmitRefused(Queue(node)))
  BY <1>1, <1>2, DispatchedNode, SubmitAcceptedOrder, SubmitRefusedOrder
  DEF TimelineInv
<1>3. CASE \E q \in QueueKinds : RingStart(q) \/ RingRetire(q)
  BY <1>1, <1>3, RingStartOrder, RingRetireOrder DEF TimelineInv
<1>4. CASE UNCHANGED <<point, gpuVars>>
  BY <1>1, <1>4, TimelineFrame DEF TimelineInv
<1>. QED
  BY <1>1, <1>2, <1>3, <1>4, TimelineSteps

\* No queue's timeline runs ahead of itself, whichever submissions the kernel
\* refuses: a signalled point was started, a started one accepted, an accepted
\* one bumped by its driver, and the jobs in flight lie exactly between.
THEOREM TimelineOrdered == Spec => []TimelineOrder
<1>1. Spec => []TimelineInv
  BY InitTimelineInv, StepTimelineInv, PTL DEF Spec
<1>2. TimelineInv => TimelineOrder
  BY DEF TimelineInv
<1>. QED
  BY <1>1, <1>2, PTL

-----------------------------------------------------------------------------
(***************************************************************************)
(* Dependency order.                                                       *)
(***************************************************************************)

\* A fence edge is a dependency between two queues, producer first.
LEMMA FenceEdge ==
  ASSUME NEW g \in Seq(Nodes), NEW p, NEW i
  PROVE  <<p, i>> \in FenceEdges(g) <=>
           /\ <<p, i>> \in Deps(g)
           /\ p < i
           /\ g[p].queue # g[i].queue
BY DEF FenceEdges

\* A dependency joins two positions of the vector.
LEMMA DepTyped ==
  ASSUME NEW g \in Seq(Nodes), NEW e \in Deps(g)
  PROVE  /\ e = <<e[1], e[2]>>
         /\ e[1] \in 1 .. Len(g) /\ e[2] \in 1 .. Len(g)
         /\ Sorted(g) => e[1] < e[2]
BY DEF Deps, Sorted

\* What the order invariant says of queues whose nodes are covered.
LEMMA NodePointBounds ==
  ASSUME TimelineInv, NodePointsReached, NEW i \in 1 .. Len(graph), nodePoint[i] # 0
  PROVE  /\ Queue(i) \in QueueKinds
         /\ nodePoint[i] \in Nat
         /\ nodePoint[i] <= submitted[Queue(i)]
         /\ submitted[Queue(i)] <= point[Queue(i)]
         /\ submitted[Queue(i)] \in Nat /\ point[Queue(i)] \in Nat
<1>1. Queue(i) \in QueueKinds
  BY QueueTyped DEF Queue, TimelineInv, TypeOK, ExecTypeOK
<1>. QED
  BY <1>1 DEF TimelineInv, TypeOK, ExecTypeOK, TimelineTypeOK, TimelineOrder,
     NodePointsReached

\* An execution starts with no node submitted, so it starts in order.
LEMMA BeginOrder ==
  ASSUME OrderInv, NEW g \in Graphs, OneForeignQueue(g), Begin(g), TimelineInv'
  PROVE  OrderInv'
<1>1. graph' = g /\ g \in Seq(Nodes) /\ (\A i \in 1 .. Len(g) : nodePoint'[i] = 0)
  BY GraphsAssumption DEF Begin
<1>2. \A j \in inflight' : j.pt # 0
  BY DEF OrderInv, TimelineInv, TimelineOrder, TypeOK, TimelineTypeOK, Jobs, Begin, gpuVars
<1>3. NodePointsReached' /\ NodePointsAscend'
  BY <1>1 DEF NodePointsReached, NodePointsAscend
<1>4. PendingCovers'
  BY <1>1 DEF PendingCovers
<1>5. JobWaitCovers'
  BY <1>1, <1>2 DEF JobWaitCovers
<1>6. DependencyOrder'
  BY <1>1, DepTyped DEF DependencyOrder, StartedNode
<1>7. OneForeignQueue(graph)'
  BY <1>1 
<1>. QED
  BY <1>3, <1>4, <1>5, <1>6, <1>7 DEF OrderInv

\* Recording the next barrier keeps every producer before it covered: they are
\* all on one queue, whose current point is at least each of theirs.
LEMMA BarrierOrder ==
  ASSUME OrderInv, Barrier, TimelineInv'
  PROVE  OrderInv'
<1>1. PICK p \in FencesLeft :
        /\ \A o \in FencesLeft : p <= o
        /\ QueueBarrier(Queue(p), Queue(node))
        /\ fence' = p + 1
  BY DEF Barrier
<1>2. /\ pc = "walk" /\ node \in 1 .. Len(graph)
      /\ UNCHANGED <<graph, pc, node, nodePoint, gpuVars>>
  BY DEF Barrier, QueueBarrier, OrderInv, TimelineInv, TypeOK, ExecTypeOK
<1>3. /\ p \in 1 .. Len(graph) /\ p \in Nat /\ fence \in Nat
      /\ <<p, node>> \in FenceEdges(graph)
  BY <1>2 DEF FencesLeft, OrderInv, TimelineInv, TypeOK, ExecTypeOK
<1>4. ASSUME NEW r \in 1 .. Len(graph), r < fence', nodePoint[r] # 0,
             <<r, node>> \in FenceEdges(graph)
      PROVE  pendOn'[Queue(node)] = Queue(r) /\ pendPt'[Queue(node)] >= nodePoint[r]
  <2>1. Queue(r) = Queue(p)
    BY <1>3, <1>4 DEF OrderInv, OneForeignQueue, Queue
  <2>2. nodePoint[r] \in Nat /\ nodePoint[r] <= point[Queue(p)]
        /\ point[Queue(p)] \in Nat
    BY <1>4, <2>1, NodePointBounds DEF OrderInv
  <2>3. point[Queue(p)] # 0
    BY <1>4, <2>2
  <2>4. Queue(node) \in QueueKinds
    BY <1>2, QueueTyped DEF OrderInv, TimelineInv, TypeOK, ExecTypeOK, Queue
  <2>5. pendOn'[Queue(node)] = Queue(p) /\ pendPt'[Queue(node)] = point[Queue(p)]
    BY <1>1, <2>3, <2>4 DEF QueueBarrier, OrderInv, TimelineInv, TypeOK, TimelineTypeOK
  <2>. QED
    BY <2>1, <2>2, <2>5
<1>5. PendingCovers'
  BY <1>2, <1>4 DEF PendingCovers, Queue
<1>6. NodePointsReached' /\ NodePointsAscend' /\ JobWaitCovers' /\ DependencyOrder'
  BY <1>2 DEF OrderInv, NodePointsReached, NodePointsAscend, JobWaitCovers,
     DependencyOrder, StartedNode, RetiredNode, Queue, gpuVars
<1>. QED
  BY <1>2, <1>5, <1>6 DEF OrderInv

\* A submission carries the wait of every barrier recorded for its node, and
\* its point is above every point submitted before it.
LEMMA AcceptedOrder ==
  ASSUME OrderInv, Dispatch, DispatchAccepted, TimelineInv'
  PROVE  OrderInv'
<1>. DEFINE q == Queue(node)
            n == point[q] + 1
            new == [q |-> q, pt |-> n, on |-> pendOn[q], wpt |-> pendPt[q],
                    slice |-> cursor]
<1>1. /\ pc = "walk" /\ FencesLeft = {} /\ UNCHANGED graph
      /\ node \in 1 .. Len(graph) /\ q \in QueueKinds
      /\ graph \in Seq(Nodes) /\ Sorted(graph)
      /\ nodePoint \in [1 .. Len(graph) -> Nat]
  BY DispatchedNode DEF Dispatch, OrderInv, TimelineInv, TypeOK, ExecTypeOK
<1>2. /\ n \in Nat /\ n # 0
      /\ submitted[q] < n /\ started[q] < n /\ signalled[q] < n
      /\ \A j \in inflight : j.q = q => j.pt < n
  <2>1. /\ point[q] \in Nat /\ submitted[q] \in Nat
        /\ started[q] \in Nat /\ signalled[q] \in Nat
        /\ \A j \in inflight : j.pt \in Nat
    BY <1>1 DEF OrderInv, TimelineInv, TypeOK, TimelineTypeOK, Jobs
  <2>2. /\ signalled[q] <= started[q] /\ started[q] <= submitted[q]
        /\ submitted[q] <= point[q]
        /\ \A j \in inflight : j.q = q => j.pt <= submitted[q]
    BY <1>1 DEF OrderInv, TimelineInv, TimelineOrder
  <2>. QED
    BY <2>1, <2>2
<1>3. /\ submitted' = [submitted EXCEPT ![q] = n]
      /\ inflight' = inflight \cup {new}
      /\ UNCHANGED <<started, signalled>>
      /\ nodePoint' = [nodePoint EXCEPT ![node] = n]
  BY DEF DispatchAccepted, SubmitAccepted
<1>4. \/ pc' = "copywait" /\ node' = node
      \/ node' = node + 1 /\ fence' = 1
  BY DEF DispatchAccepted, Advance
<1>5. new.q = q /\ new.pt = n /\ new.on = pendOn[q] /\ new.wpt = pendPt[q]
  OBVIOUS
<1>. HIDE DEF new, n, q
<1>6. ASSUME NEW i \in 1 .. Len(graph), nodePoint[i] # 0
      PROVE  i < node /\ nodePoint'[i] = nodePoint[i] /\ nodePoint[i] \in Nat
             /\ Queue(i) \in QueueKinds
             /\ nodePoint[i] <= submitted[Queue(i)]
             /\ (Queue(i) = q => nodePoint[i] < n)
  <2>1. i < node
    BY <1>1, <1>6 DEF OrderInv, NodePointsReached
  <2>2. /\ Queue(i) \in QueueKinds /\ nodePoint[i] \in Nat
        /\ nodePoint[i] <= submitted[Queue(i)] /\ submitted[Queue(i)] \in Nat
    BY <1>6, NodePointBounds DEF OrderInv
  <2>. QED
    BY <1>1, <1>2, <1>3, <2>1, <2>2
<1>7. nodePoint'[node] = n /\ \A i \in 1 .. Len(graph) :
        i # node => nodePoint'[i] = nodePoint[i]
  BY <1>1, <1>3
<1>8. NodePointsReached'
  <2>. SUFFICES ASSUME NEW i \in 1 .. Len(graph), nodePoint'[i] # 0
       PROVE  /\ i < node' \/ (i = node' /\ pc' = "copywait")
              /\ nodePoint'[i] <= submitted'[Queue(i)]
              /\ signalled'[Queue(i)] < nodePoint'[i] =>
                   \E j \in inflight' : j.q = Queue(i) /\ j.pt = nodePoint'[i]
    BY <1>1 DEF NodePointsReached, Queue
  <2>1. CASE i = node
    BY <1>1, <1>2, <1>3, <1>4, <1>5, <1>7, <2>1
    DEF OrderInv, TimelineInv, TypeOK, TimelineTypeOK, q
  <2>2. CASE i # node
    <3>1. nodePoint[i] # 0 /\ nodePoint'[i] = nodePoint[i]
      BY <1>7, <2>2
    <3>2. i < node' \/ (i = node' /\ pc' = "copywait")
      BY <1>1, <1>4, <1>6, <3>1
    <3>3. nodePoint'[i] <= submitted'[Queue(i)]
      <4>1. /\ nodePoint[i] <= submitted[Queue(i)] /\ Queue(i) \in QueueKinds
            /\ nodePoint'[i] = nodePoint[i]
            /\ nodePoint[i] \in Nat /\ n \in Nat
            /\ Queue(i) = q => nodePoint[i] < n
        BY <1>2, <1>6, <3>1
      <4>2. submitted \in [QueueKinds -> Nat]
        BY DEF OrderInv, TimelineInv, TypeOK, TimelineTypeOK
      <4>3. submitted'[Queue(i)] = IF Queue(i) = q THEN n ELSE submitted[Queue(i)]
        BY <1>3, <4>1, <4>2
      <4>. QED
        BY <4>1, <4>3
    <3>4. signalled[Queue(i)] < nodePoint[i] =>
            \E j \in inflight : j.q = Queue(i) /\ j.pt = nodePoint[i]
      BY <3>1 DEF OrderInv, NodePointsReached
    <3>. QED
      BY <1>3, <3>1, <3>2, <3>3, <3>4
  <2>. QED
    BY <2>1, <2>2
<1>9. NodePointsAscend'
  <2>. SUFFICES ASSUME NEW i \in 1 .. Len(graph), NEW k \in 1 .. Len(graph),
                       i < k, Queue(i) = Queue(k),
                       nodePoint'[i] # 0, nodePoint'[k] # 0
       PROVE  nodePoint'[i] < nodePoint'[k]
    BY <1>1 DEF NodePointsAscend, Queue
  <2>1. CASE k = node
    BY <1>1, <1>6, <1>7, <2>1 DEF q
  <2>2. CASE k # node
    BY <1>1, <1>6, <1>7, <2>2 DEF OrderInv, NodePointsAscend
  <2>. QED
    BY <2>1, <2>2
<1>10. PendingCovers'
  BY <1>1, <1>4 DEF PendingCovers
<1>11. JobWaitCovers'
  <2>. SUFFICES ASSUME NEW j \in inflight', NEW i \in 1 .. Len(graph),
                       Queue(i) = j.q, nodePoint'[i] = j.pt,
                       NEW p \in 1 .. Len(graph),
                       <<p, i>> \in FenceEdges(graph), nodePoint'[p] # 0
       PROVE  j.on = Queue(p) /\ j.wpt >= nodePoint'[p]
    BY <1>1 DEF JobWaitCovers, Queue
  <2>1. p < i
    BY <1>1, FenceEdge
  <2>2. CASE i = node
    <3>1. j = new
      BY <1>2, <1>3, <1>5, <1>7, <2>2 DEF q
    <3>2. p < fence
      <4>1. fence \in Nat /\ node \in Nat
        BY DEF OrderInv, TimelineInv, TypeOK, ExecTypeOK
      <4>2. p \in 1 .. node - 1
        BY <2>1, <2>2, <4>1
      <4>3. ~(p >= fence)
        BY <1>1, <2>2, <4>2 DEF FencesLeft
      <4>. QED
        BY <4>1, <4>2, <4>3
    <3>3. nodePoint'[p] = nodePoint[p]
      BY <1>7, <2>1, <2>2
    <3>4. pendOn[q] = Queue(p) /\ pendPt[q] >= nodePoint[p]
      BY <1>1, <2>2, <3>2, <3>3 DEF OrderInv, PendingCovers, q
    <3>. QED
      BY <1>5, <3>1, <3>3, <3>4
  <2>3. CASE i # node
    <3>1. nodePoint[i] = j.pt
      BY <1>7, <2>3
    <3>2. j \in inflight
      BY <1>2, <1>3, <1>5, <1>6, <3>1
    <3>3. nodePoint[i] # 0
      BY <3>1, <3>2 DEF OrderInv, TimelineInv, TypeOK, TimelineTypeOK, TimelineOrder, Jobs
    <3>4. nodePoint'[p] = nodePoint[p]
      BY <1>1, <1>6, <1>7, <2>1, <3>3
    <3>. QED
      BY <3>1, <3>2, <3>4 DEF OrderInv, JobWaitCovers
  <2>. QED
    BY <2>2, <2>3
<1>12. DependencyOrder'
  <2>. SUFFICES ASSUME NEW e \in Deps(graph),
                       nodePoint'[e[2]] # 0, started[Queue(e[2])] >= nodePoint'[e[2]],
                       nodePoint'[e[1]] # 0
       PROVE  signalled[Queue(e[1])] >= nodePoint'[e[1]]
    BY <1>1, <1>3 DEF DependencyOrder, StartedNode, RetiredNode, Queue
  <2>1. e[1] \in 1 .. Len(graph) /\ e[2] \in 1 .. Len(graph) /\ e[1] < e[2]
    BY <1>1, DepTyped
  <2>2. e[2] # node
    <3>1. started[q] \in Nat
      BY <1>1 DEF OrderInv, TimelineInv, TypeOK, TimelineTypeOK
    <3>2. ~(started[q] >= n)
      BY <1>2, <3>1
    <3>. QED
      BY <1>7, <3>2 DEF q
  <2>3. nodePoint[e[2]] # 0 /\ nodePoint'[e[2]] = nodePoint[e[2]]
    BY <1>7, <2>1, <2>2
  <2>4. e[2] < node
    BY <1>6, <2>1, <2>3
  <2>5. nodePoint'[e[1]] = nodePoint[e[1]]
    BY <1>1, <1>7, <2>1, <2>4
  <2>. QED
    BY <2>3, <2>5 DEF OrderInv, DependencyOrder, StartedNode, RetiredNode
<1>13. OneForeignQueue(graph)'
  BY <1>1 DEF OrderInv
<1>. QED
  BY <1>8, <1>9, <1>10, <1>11, <1>12, <1>13 DEF OrderInv

\* A step that submits nothing and moves no ring keeps the order, whether it
\* stays at its node or goes on to the next one.
LEMMA OrderFrame ==
  ASSUME OrderInv, TimelineInv', UNCHANGED <<graph, nodePoint, gpuVars>>,
         \/ /\ UNCHANGED <<node, fence, pendOn, pendPt>>
            /\ pc = "copywait" => pc' = "copywait"
         \/ node' = node + 1 /\ fence' = 1
  PROVE  OrderInv'
<1>1. node \in Nat /\ fence \in Nat
  BY DEF OrderInv, TimelineInv, TypeOK, ExecTypeOK
<1>2. NodePointsReached'
  BY <1>1 DEF OrderInv, NodePointsReached, Queue, gpuVars
<1>3. PendingCovers'
  BY <1>1 DEF OrderInv, PendingCovers, Queue
<1>4. NodePointsAscend' /\ JobWaitCovers' /\ DependencyOrder'
  BY DEF OrderInv, NodePointsAscend, JobWaitCovers, DependencyOrder,
     StartedNode, RetiredNode, Queue, gpuVars
<1>. QED
  BY <1>2, <1>3, <1>4 DEF OrderInv

\* When a ring starts a node, the producers on its own queue are below the
\* oldest job of the ring, and the others below the point the job waited for.
LEMMA RingStartDependencies ==
  ASSUME OrderInv, NEW q \in QueueKinds, RingStart(q), TimelineInv',
         UNCHANGED execVars
  PROVE  OrderInv'
<1>1. PICK j \in inflight :
        /\ j.q = q
        /\ Oldest(j)
        /\ j.on # NoQueue => signalled[j.on] >= j.wpt
        /\ started' = [started EXCEPT ![q] = j.pt]
  BY DEF RingStart
<1>2. /\ started[q] = signalled[q]
      /\ UNCHANGED <<submitted, signalled, inflight, pendOn, pendPt>>
      /\ UNCHANGED <<graph, pc, node, fence, nodePoint>>
  BY DEF RingStart, cpuVars, execVars
<1>3. /\ graph \in Seq(Nodes) /\ Sorted(graph)
      /\ \A k \in QueueKinds : started[k] \in Nat /\ signalled[k] \in Nat
      /\ \A o \in inflight : o.pt \in Nat /\ o.wpt \in Nat
  BY DEF OrderInv, TimelineInv, TypeOK, ExecTypeOK, TimelineTypeOK, Jobs
<1>4. ASSUME NEW e \in Deps(graph), nodePoint[e[2]] # 0,
             started'[Queue(e[2])] >= nodePoint[e[2]], nodePoint[e[1]] # 0
      PROVE  signalled[Queue(e[1])] >= nodePoint[e[1]]
  <2>. DEFINE p == e[1]
              i == e[2]
  <2>1. /\ e = <<p, i>>
        /\ p \in 1 .. Len(graph) /\ i \in 1 .. Len(graph) /\ p < i
    BY <1>3, DepTyped
  <2>2. /\ Queue(p) \in QueueKinds /\ Queue(i) \in QueueKinds
        /\ nodePoint[p] \in Nat /\ nodePoint[i] \in Nat
    BY <1>4, <2>1, NodePointBounds DEF OrderInv
  <2>. HIDE DEF p, i
  <2>3. CASE started[Queue(i)] >= nodePoint[i]
    BY <1>4, <2>1, <2>3 DEF OrderInv, DependencyOrder, StartedNode, RetiredNode, p, i
  <2>4. CASE ~(started[Queue(i)] >= nodePoint[i])
    <3>1. Queue(i) = q /\ j.pt >= nodePoint[i] /\ signalled[q] < nodePoint[i]
      <4>1. started \in [QueueKinds -> Nat]
        BY DEF OrderInv, TimelineInv, TypeOK, TimelineTypeOK
      <4>2. started'[Queue(i)] >= nodePoint[i]
        BY <1>4 DEF i
      <4>3. Queue(i) = q
        BY <1>1, <2>2, <2>4, <4>1, <4>2
      <4>4. j.pt >= nodePoint[i]
        BY <1>1, <4>1, <4>2, <4>3
      <4>. QED
        BY <1>2, <1>3, <2>2, <2>4, <4>3, <4>4
    <3>2. \E o \in inflight : o.q = q /\ o.pt = nodePoint[i]
      BY <1>4, <2>1, <3>1 DEF OrderInv, NodePointsReached, i
    <3>3. j.pt = nodePoint[i]
      BY <1>1, <1>3, <2>2, <3>1, <3>2 DEF Oldest
    <3>4. CASE Queue(p) = q
      <4>1. nodePoint[p] < nodePoint[i]
        BY <1>4, <2>1, <3>1, <3>4 DEF OrderInv, NodePointsAscend, p, i
      <4>2. ~(signalled[q] < nodePoint[p])
        <5>. SUFFICES ASSUME signalled[q] < nodePoint[p] PROVE FALSE
          OBVIOUS
        <5>1. PICK o \in inflight : o.q = q /\ o.pt = nodePoint[p]
          BY <1>4, <2>1, <3>4 DEF OrderInv, NodePointsReached, p
        <5>. QED
          BY <1>1, <1>3, <2>2, <3>3, <4>1, <5>1 DEF Oldest
      <4>. QED
        BY <1>3, <2>2, <3>4, <4>2 DEF p
    <3>5. CASE Queue(p) # q
      <4>1. <<p, i>> \in FenceEdges(graph)
        BY <1>3, <2>1, <3>1, <3>5, FenceEdge DEF Queue
      <4>2. j.on = Queue(p) /\ j.wpt >= nodePoint[p]
        BY <1>1, <1>4, <2>1, <3>1, <3>3, <4>1 DEF OrderInv, JobWaitCovers, p
      <4>3. j.on # NoQueue
        BY <2>2, <4>2 DEF QueueKinds, NoQueue
      <4>. QED
        BY <1>1, <1>3, <2>2, <4>2, <4>3 DEF p
    <3>. QED
      BY <3>4, <3>5
  <2>. QED
    BY <2>3, <2>4
<1>5. DependencyOrder'
  BY <1>2, <1>4 DEF DependencyOrder, StartedNode, RetiredNode, Queue
<1>6. NodePointsReached' /\ NodePointsAscend' /\ PendingCovers' /\ JobWaitCovers'
  BY <1>2 DEF OrderInv, NodePointsReached, NodePointsAscend, PendingCovers,
     JobWaitCovers, Queue
<1>. QED
  BY <1>2, <1>5, <1>6 DEF OrderInv

\* Retiring a job only raises what is signalled.
LEMMA RingRetireDependencies ==
  ASSUME OrderInv, NEW q \in QueueKinds, RingRetire(q), TimelineInv',
         UNCHANGED execVars
  PROVE  OrderInv'
<1>1. /\ signalled' = [signalled EXCEPT ![q] = started[q]]
      /\ inflight' = {j \in inflight : ~(j.q = q /\ j.pt = started[q])}
      /\ UNCHANGED <<submitted, started, pendOn, pendPt>>
      /\ UNCHANGED <<graph, pc, node, fence, nodePoint>>
  BY DEF RingRetire, cpuVars, execVars
<1>2. \A k \in QueueKinds : /\ signalled[k] \in Nat /\ started[k] \in Nat
                            /\ signalled'[k] \in Nat
                            /\ signalled[k] <= signalled'[k]
  BY <1>1 DEF OrderInv, TimelineInv, TypeOK, TimelineTypeOK, TimelineOrder
<1>3. ASSUME NEW i \in 1 .. Len(graph), nodePoint[i] # 0
      PROVE  Queue(i) \in QueueKinds /\ nodePoint[i] \in Nat
  BY <1>3, NodePointBounds DEF OrderInv
<1>4. ASSUME NEW i \in 1 .. Len(graph), nodePoint[i] # 0,
             signalled'[Queue(i)] < nodePoint[i]
      PROVE  \E j \in inflight' : j.q = Queue(i) /\ j.pt = nodePoint[i]
  <2>1. signalled[Queue(i)] < nodePoint[i]
    BY <1>2, <1>3, <1>4
  <2>2. PICK j \in inflight : j.q = Queue(i) /\ j.pt = nodePoint[i]
    BY <1>4, <2>1 DEF OrderInv, NodePointsReached
  <2>3. ~(j.q = q /\ j.pt = started[q])
    BY <1>1, <1>2, <1>4, <2>2 DEF OrderInv, TimelineInv, TypeOK, TimelineTypeOK
  <2>. QED
    BY <1>1, <2>2, <2>3
<1>5. NodePointsReached'
  BY <1>1, <1>4 DEF OrderInv, NodePointsReached, Queue
<1>6. NodePointsAscend' /\ PendingCovers' /\ JobWaitCovers'
  BY <1>1 DEF OrderInv, NodePointsAscend, PendingCovers, JobWaitCovers, Queue
<1>7. ASSUME NEW e \in Deps(graph), StartedNode(e[2]), nodePoint[e[1]] # 0
      PROVE  signalled'[Queue(e[1])] >= nodePoint[e[1]]
  <2>1. e[1] \in 1 .. Len(graph)
    BY DepTyped DEF OrderInv, TimelineInv, TypeOK, ExecTypeOK
  <2>2. signalled[Queue(e[1])] >= nodePoint[e[1]]
    BY <1>7 DEF OrderInv, DependencyOrder, RetiredNode
  <2>. QED
    BY <1>2, <1>3, <1>7, <2>1, <2>2
<1>8. DependencyOrder'
  BY <1>1, <1>7 DEF DependencyOrder, StartedNode, RetiredNode, Queue
<1>. QED
  BY <1>1, <1>5, <1>6, <1>8 DEF OrderInv

\* Before the first execution there are no nodes to be out of order.
LEMMA InitOrderInv == Init => OrderInv
<1>. SUFFICES ASSUME Init PROVE OrderInv
  OBVIOUS
<1>1. TimelineInv
  BY InitTimelineInv
<1>2. Len(graph) = 0 /\ inflight = {}
  BY DEF Init, TimelineInit
<1>3. Deps(graph) = {} /\ FenceEdges(graph) = {}
  BY <1>2 DEF Deps, FenceEdges
<1>. QED
  BY <1>1, <1>2, <1>3 DEF OrderInv, OneForeignQueue, NodePointsReached,
     NodePointsAscend, PendingCovers, JobWaitCovers, DependencyOrder

\* Every step keeps the order invariant, if no node has cross-queue producers
\* on two queues (the one pending-wait slot is enough then).
LEMMA StepOrderInv ==
  ASSUME \A g \in Graphs : OneForeignQueue(g), OrderInv, [Next]_vars
  PROVE  OrderInv'
<1>1. TimelineInv'
  BY StepTimelineInv DEF OrderInv
<1>2. ASSUME NEW g \in Graphs, Begin(g) PROVE OrderInv'
  BY <1>1, <1>2, BeginOrder
<1>3. ASSUME Acquire PROVE OrderInv'
  <2>1. UNCHANGED <<graph, nodePoint, gpuVars, node, fence, pendOn, pendPt>>
    BY <1>3 DEF Acquire, QueueGet, QueueGetFails, timelineVars, cpuVars
  <2>2. pc # "copywait"
    BY <1>3 DEF Acquire
  <2>. QED
    BY <1>1, <2>1, <2>2, OrderFrame
<1>4. ASSUME Barrier PROVE OrderInv'
  BY <1>1, <1>4, BarrierOrder
<1>5. ASSUME Dispatch PROVE OrderInv'
  <2>1. UNCHANGED graph
    BY <1>5 DEF Dispatch
  <2>2. CASE DispatchAccepted
    BY <1>1, <1>5, <2>2, AcceptedOrder
  <2>3. CASE DispatchRefused \/ DispatchRejected
    <3>1. UNCHANGED <<nodePoint, gpuVars>> /\ node' = node + 1 /\ fence' = 1
      BY <2>3 DEF DispatchRefused, SubmitRefused, DispatchRejected, ClearSlice,
         Advance
    <3>. QED
      BY <1>1, <2>1, <3>1, OrderFrame
  <2>. QED
    BY <1>5, <2>2, <2>3 DEF Dispatch
<1>6. ASSUME CopyWait PROVE OrderInv'
  <2>1. UNCHANGED <<graph, nodePoint, gpuVars>> /\ node' = node + 1 /\ fence' = 1
    BY <1>6 DEF CopyWait, Advance
  <2>. QED
    BY <1>1, <2>1, OrderFrame
<1>7. ASSUME EndWalk \/ Retire PROVE OrderInv'
  <2>1. UNCHANGED <<graph, nodePoint, gpuVars, node, fence, pendOn, pendPt>>
    BY <1>7 DEF EndWalk, Retire, timelineVars, cpuVars
  <2>2. pc # "copywait"
    BY <1>7 DEF EndWalk, Retire
  <2>. QED
    BY <1>1, <2>1, <2>2, OrderFrame
<1>8. ASSUME NEW q \in QueueKinds, Ring(q) PROVE OrderInv'
  BY <1>1, <1>8, RingStartDependencies, RingRetireDependencies DEF Ring
<1>9. ASSUME UNCHANGED vars PROVE OrderInv'
  <2>1. UNCHANGED <<graph, nodePoint, gpuVars, node, fence, pendOn, pendPt, pc>>
    BY <1>9 DEF vars, timelineVars, cpuVars, execVars
  <2>. QED
    BY <1>1, <2>1, OrderFrame
<1>. QED
  BY <1>2, <1>3, <1>4, <1>5, <1>6, <1>7, <1>8, <1>9 DEF Next, Cpu, Quiescent

\* If every consumer of every graph has its cross-queue producers on one queue,
\* no node ever starts on its ring before the submitted nodes it depends on
\* have retired: whatever the graphs, however many executions overlap timed-out
\* ones, and whichever queues, submissions and waits fail.  (The run
\* ExecTwoForeign shows that the hypothesis cannot be dropped.)
THEOREM DependencyOrdered ==
  ASSUME \A g \in Graphs : OneForeignQueue(g)
  PROVE  Spec => []DependencyOrder
<1>1. OrderInv /\ [Next]_vars => OrderInv'
  BY StepOrderInv
<1>2. OrderInv => DependencyOrder
  BY DEF OrderInv
<1>. QED
  BY <1>1, <1>2, InitOrderInv, PTL DEF Spec

-----------------------------------------------------------------------------
(***************************************************************************)
(* The completion contract.                                                *)
(***************************************************************************)

\* While an execution keeps its graph and its nodes their points, a point that
\* was reached stays reached and a retired node stays retired.
LEMMA PointsStay ==
  ASSUME TimelineInv, TimelineInv', NodePointsBumped, [Next]_vars,
         UNCHANGED <<graph, nodePoint>>
  PROVE  /\ NodePointsBumped'
         /\ \A i \in 1 .. Len(graph) : RetiredNode(i) => RetiredNode(i)'
<1>1. \A k \in QueueKinds : /\ point[k] \in Nat /\ point'[k] \in Nat
                            /\ signalled[k] \in Nat /\ signalled'[k] \in Nat
                            /\ started[k] \in Nat /\ signalled[k] <= started[k]
  BY DEF TimelineInv, TypeOK, TimelineTypeOK, TimelineOrder
<1>2. \A i \in 1 .. Len(graph) : Queue(i) \in QueueKinds /\ nodePoint[i] \in Nat
  BY QueueTyped DEF Queue, TimelineInv, TypeOK, ExecTypeOK
<1>3. \A k \in QueueKinds : point[k] <= point'[k]
  <2>1. ASSUME NEW q \in QueueKinds, SubmitAccepted(q) \/ SubmitRefused(q)
        PROVE  \A k \in QueueKinds : point[k] <= point'[k]
    BY <1>1, <2>1 DEF SubmitAccepted, SubmitRefused, StageAndBump, TimelineInv,
       TypeOK, TimelineTypeOK
  <2>2. ASSUME NEW q \in QueueKinds, RingStart(q) \/ RingRetire(q)
        PROVE  UNCHANGED point
    BY <2>2 DEF RingStart, RingRetire, cpuVars
  <2>. QED
    BY <1>1, <2>1, <2>2, TimelineSteps, DispatchedNode DEF TimelineInv
<1>4. \A k \in QueueKinds : signalled[k] <= signalled'[k]
  <2>1. ASSUME NEW q \in QueueKinds, SubmitAccepted(q) \/ SubmitRefused(q) \/ RingStart(q)
        PROVE  UNCHANGED signalled
    BY <2>1 DEF SubmitAccepted, SubmitRefused, RingStart, gpuVars
  <2>2. ASSUME NEW q \in QueueKinds, RingRetire(q)
        PROVE  \A k \in QueueKinds : signalled[k] <= signalled'[k]
    BY <1>1, <2>2 DEF RingRetire, TimelineInv, TypeOK, TimelineTypeOK
  <2>. QED
    BY <1>1, <2>1, <2>2, TimelineSteps, DispatchedNode DEF TimelineInv, gpuVars
<1>5. NodePointsBumped'
  BY <1>1, <1>2, <1>3 DEF NodePointsBumped, Queue
<1>6. ASSUME NEW i \in 1 .. Len(graph), RetiredNode(i)
      PROVE  RetiredNode(i)'
  <2>1. signalled[Queue(i)] >= nodePoint[i] /\ nodePoint[i] # 0
    BY <1>6 DEF RetiredNode
  <2>2. signalled'[Queue(i)] >= nodePoint[i]
    BY <1>1, <1>2, <1>4, <2>1
  <2>. QED
    BY <2>1, <2>2 DEF RetiredNode, Queue
<1>. QED
  BY <1>5, <1>6

\* The three facts about the walk after a step that keeps the graph, the points
\* and the place of the walk, as ring steps and barriers do.
LEMMA ResultFrame ==
  ASSUME ResultInv, TimelineInv', [Next]_vars,
         UNCHANGED <<graph, nodePoint, node, todo, rc, pc>>
  PROVE  ResultInv'
<1>1. NodePointsBumped' /\ \A i \in 1 .. Len(graph) : RetiredNode(i) => RetiredNode(i)'
  BY PointsStay DEF ResultInv
<1>2. NothingSkipped'
  BY DEF ResultInv, NothingSkipped
<1>3. WalkComplete'
  BY DEF ResultInv, WalkComplete
<1>4. VisitedRetired'
  BY <1>1 DEF ResultInv, VisitedRetired, Queue
<1>. QED
  BY <1>1, <1>2, <1>3, <1>4 DEF ResultInv

\* A queue whose wait succeeded has retired its nodes.
LEMMA WaitRetires ==
  ASSUME ResultInv, NEW i \in 1 .. Len(graph), nodePoint[i] # 0,
         WaitSucceeds(Queue(i))
  PROVE  RetiredNode(i)
<1>1. Queue(i) \in QueueKinds /\ nodePoint[i] \in Nat
  BY QueueTyped DEF Queue, ResultInv, TimelineInv, TypeOK, ExecTypeOK
<1>2. point[Queue(i)] \in Nat /\ signalled[Queue(i)] \in Nat
  BY <1>1 DEF ResultInv, TimelineInv, TypeOK, TimelineTypeOK
<1>3. nodePoint[i] <= point[Queue(i)]
  BY DEF ResultInv, NodePointsBumped
<1>4. point[Queue(i)] # 0
  BY <1>1, <1>2, <1>3
<1>5. signalled[Queue(i)] >= point[Queue(i)]
  BY <1>4 DEF WaitSucceeds
<1>. QED
  BY <1>1, <1>2, <1>3, <1>5 DEF RetiredNode

\* Before the first execution there is no result to be honest about.
LEMMA InitResultInv == Init => ResultInv
<1>. SUFFICES ASSUME Init PROVE ResultInv
  OBVIOUS
<1>1. TimelineInv
  BY InitTimelineInv
<1>2. Len(graph) = 0 /\ pc = "idle"
  BY DEF Init
<1>. QED
  BY <1>1, <1>2 DEF ResultInv, NodePointsBumped, NothingSkipped, WalkComplete,
     VisitedRetired

\* An accepted submission leaves no node behind it without a point.
LEMMA AcceptedResult ==
  ASSUME ResultInv, TimelineInv', Dispatch, DispatchAccepted
  PROVE  ResultInv'
<1>. DEFINE q == Queue(node)
            n == point[q] + 1
<1>1. /\ node \in 1 .. Len(graph) /\ q \in QueueKinds /\ UNCHANGED <<graph, rc>>
      /\ \A k \in QueueKinds : point[k] \in Nat
      /\ nodePoint \in [1 .. Len(graph) -> Nat]
      /\ \A i \in 1 .. Len(graph) : Queue(i) \in QueueKinds
  BY DispatchedNode, QueueTyped DEF Dispatch, DispatchAccepted, ResultInv,
     TimelineInv, TypeOK, ExecTypeOK, TimelineTypeOK, Queue
<1>2. /\ n \in Nat /\ n # 0
      /\ point' = [point EXCEPT ![q] = n]
      /\ nodePoint' = [nodePoint EXCEPT ![node] = n]
  BY <1>1 DEF DispatchAccepted, SubmitAccepted, StageAndBump, ResultInv,
     TimelineInv, TypeOK, TimelineTypeOK
<1>3. pc = "walk" /\ \/ pc' = "copywait" /\ node' = node
                     \/ pc' = "walk" /\ node' = node + 1
  BY DEF Dispatch, DispatchAccepted, Advance
<1>. HIDE DEF n
<1>4. /\ nodePoint'[node] = n
      /\ \A i \in 1 .. Len(graph) : i # node => nodePoint'[i] = nodePoint[i]
  BY <1>1, <1>2
<1>5. \A k \in QueueKinds : point'[k] = IF k = q THEN n ELSE point[k]
  BY <1>2 DEF ResultInv, TimelineInv, TypeOK, TimelineTypeOK
<1>6. NodePointsBumped'
  <2>1. ASSUME NEW i \in 1 .. Len(graph)
        PROVE  nodePoint'[i] <= point'[Queue(i)]
    <3>1. nodePoint[i] <= point[Queue(i)] /\ nodePoint[i] \in Nat
      BY <1>1 DEF ResultInv, NodePointsBumped
    <3>2. point[q] <= n
      BY <1>1 DEF n
    <3>3. CASE i = node
      BY <1>1, <1>2, <1>4, <1>5, <3>3
    <3>4. CASE i # node
      BY <1>1, <1>2, <1>4, <1>5, <3>1, <3>2, <3>4
    <3>. QED
      BY <3>3, <3>4
  <2>. QED
    BY <1>1, <2>1 DEF NodePointsBumped, Queue
<1>7. NothingSkipped'
  BY <1>1, <1>2, <1>3, <1>4 DEF ResultInv, NothingSkipped
<1>8. WalkComplete'
  BY <1>1, <1>2, <1>3, <1>4 DEF WalkComplete
<1>9. VisitedRetired'
  BY <1>3 DEF VisitedRetired
<1>. QED
  BY <1>6, <1>7, <1>8, <1>9 DEF ResultInv

\* Waiting for a used queue retires its nodes or makes the execution fail.
LEMMA RetireResult ==
  ASSUME ResultInv, TimelineInv', [Next]_vars, Retire
  PROVE  ResultInv'
<1>. DEFINE k == NextBatch(graph, todo)
<1>1. /\ pc = "retire" /\ todo' = todo \ {k}
      /\ UNCHANGED <<graph, node, nodePoint, point, signalled>>
      /\ pc' = IF todo = {k} THEN "returned" ELSE "retire"
      /\ ~rc' => ~rc /\ WaitSucceeds(k)
  BY DEF Retire, timelineVars, cpuVars, gpuVars
<1>. HIDE DEF k
<1>2. NodePointsBumped'
  BY <1>1 DEF ResultInv, NodePointsBumped, Queue
<1>3. NothingSkipped'
  BY <1>1 DEF ResultInv, NothingSkipped
<1>4. WalkComplete'
  BY <1>1 DEF ResultInv, WalkComplete
<1>5. ASSUME ~rc', NEW i \in 1 .. Len(graph), Queue(i) \notin todo'
      PROVE  RetiredNode(i)
  <2>1. ~rc /\ WaitSucceeds(k)
    BY <1>1, <1>5
  <2>2. nodePoint[i] # 0
    <3>1. i < node
      BY <1>1 DEF ResultInv, WalkComplete, TimelineInv, TypeOK, ExecTypeOK
    <3>. QED
      BY <2>1, <3>1 DEF ResultInv, NothingSkipped
  <2>3. CASE Queue(i) = k
    BY <2>1, <2>2, <2>3, WaitRetires
  <2>4. CASE Queue(i) # k
    BY <1>1, <1>5, <2>1, <2>4 DEF ResultInv, VisitedRetired
  <2>. QED
    BY <2>3, <2>4
<1>6. VisitedRetired'
  BY <1>1, <1>5 DEF VisitedRetired, RetiredNode, Queue
<1>. QED
  BY <1>2, <1>3, <1>4, <1>6 DEF ResultInv

\* Every step keeps the result invariant, whatever fails on the way.
LEMMA StepResultInv == ResultInv /\ [Next]_vars => ResultInv'
<1>. SUFFICES ASSUME ResultInv, [Next]_vars PROVE ResultInv'
  OBVIOUS
<1>1. TimelineInv /\ TimelineInv'
  BY StepTimelineInv DEF ResultInv
<1>2. ASSUME UNCHANGED <<graph, nodePoint>>
      PROVE  /\ NodePointsBumped'
             /\ \A i \in 1 .. Len(graph) : RetiredNode(i) => RetiredNode(i)'
  BY <1>1, <1>2, PointsStay DEF ResultInv
<1>3. ASSUME NEW g \in Graphs, Begin(g) PROVE ResultInv'
  <2>1. /\ graph' = g /\ node' = 1 /\ todo' = BatchKinds(g)
        /\ \A i \in 1 .. Len(g) : nodePoint'[i] = 0
        /\ \/ g = <<>> /\ pc' = "returned"
           \/ pc' = "acquire"
    BY <1>3 DEF Begin
  <2>2. NodePointsBumped'
    <3>1. \A i \in 1 .. Len(g) : g[i].queue \in QueueKinds
      BY GraphsAssumption, QueueTyped
    <3>2. \A q \in QueueKinds : point'[q] \in Nat
      BY <1>1 DEF TimelineInv, TypeOK, TimelineTypeOK
    <3>. QED
      BY <2>1, <3>1, <3>2 DEF NodePointsBumped, Queue
  <2>3. NothingSkipped'
    BY <2>1 DEF NothingSkipped
  <2>4. g = <<>> => Len(g) = 0 /\ BatchKinds(g) = {}
    BY DEF BatchKinds
  <2>5. WalkComplete' /\ VisitedRetired'
    BY <2>1, <2>4 DEF WalkComplete, VisitedRetired
  <2>. QED
    BY <1>1, <2>2, <2>3, <2>5 DEF ResultInv
<1>4. ASSUME Acquire PROVE ResultInv'
  <2>1. /\ UNCHANGED <<graph, node, nodePoint>>
        /\ \/ pc' = "walk" /\ rc' = rc
           \/ pc' = "acquire" /\ rc' = rc
           \/ pc' = "returned" /\ rc' = TRUE
    BY <1>4 DEF Acquire
  <2>2. NothingSkipped'
    BY <2>1 DEF ResultInv, NothingSkipped
  <2>3. WalkComplete' /\ VisitedRetired'
    BY <2>1 DEF WalkComplete, VisitedRetired
  <2>. QED
    BY <1>1, <1>2, <2>1, <2>2, <2>3 DEF ResultInv
<1>5. ASSUME Barrier PROVE ResultInv'
  BY <1>1, <1>5, ResultFrame DEF Barrier
<1>6. ASSUME Dispatch PROVE ResultInv'
  <2>1. CASE DispatchAccepted
    BY <1>1, <1>6, <2>1, AcceptedResult
  <2>2. CASE DispatchRefused \/ DispatchRejected
    <3>1. UNCHANGED <<graph, pc, nodePoint>> /\ rc' = TRUE /\ pc = "walk"
      BY <1>6, <2>2 DEF Dispatch, DispatchRefused, DispatchRejected
    <3>2. NothingSkipped' /\ WalkComplete' /\ VisitedRetired'
      BY <3>1 DEF NothingSkipped, WalkComplete, VisitedRetired
    <3>. QED
      BY <1>1, <1>2, <3>1, <3>2 DEF ResultInv
  <2>. QED
    BY <1>6, <2>1, <2>2 DEF Dispatch
<1>7. ASSUME CopyWait PROVE ResultInv'
  <2>1. /\ pc = "copywait" /\ pc' = "walk" /\ node' = node + 1 /\ (~rc' => ~rc)
        /\ UNCHANGED <<graph, nodePoint>>
    BY <1>7 DEF CopyWait, Advance
  <2>2. nodePoint[node] # 0 /\ node \in Nat
    BY <1>1, <2>1 DEF ResultInv, WalkComplete, TimelineInv, TypeOK, ExecTypeOK
  <2>3. NothingSkipped'
    BY <2>1, <2>2 DEF ResultInv, NothingSkipped
  <2>4. WalkComplete' /\ VisitedRetired'
    BY <2>1 DEF WalkComplete, VisitedRetired
  <2>. QED
    BY <1>1, <1>2, <2>1, <2>3, <2>4 DEF ResultInv
<1>8. ASSUME EndWalk PROVE ResultInv'
  <2>1. /\ node > Len(graph) /\ pc' = "retire" /\ todo' = BatchKinds(graph)
        /\ UNCHANGED <<graph, node, nodePoint, rc>>
    BY <1>8 DEF EndWalk
  <2>2. NothingSkipped'
    BY <2>1 DEF ResultInv, NothingSkipped
  <2>3. WalkComplete'
    BY <2>1 DEF WalkComplete
  <2>4. VisitedRetired'
    BY <2>1 DEF VisitedRetired, BatchKinds, Queue
  <2>. QED
    BY <1>1, <1>2, <2>1, <2>2, <2>3, <2>4 DEF ResultInv
<1>9. ASSUME Retire PROVE ResultInv'
  BY <1>1, <1>9, RetireResult
<1>10. ASSUME NEW q \in QueueKinds, Ring(q) PROVE ResultInv'
  BY <1>1, <1>10, ResultFrame DEF Ring, execVars
<1>11. ASSUME UNCHANGED vars PROVE ResultInv'
  BY <1>1, <1>11, ResultFrame DEF vars, execVars
<1>. QED
  BY <1>3, <1>4, <1>5, <1>6, <1>7, <1>8, <1>9, <1>10, <1>11
  DEF Next, Cpu, Quiescent

\* An execution that returns 0 has executed every node of its graph: no
\* refused dispatch, refused submission, failed wait or missing queue can hide
\* behind a success, in any order and on any graph.
THEOREM CompletionHonest == Spec => []CompletionContract
<1>1. ResultInv => CompletionContract
  <2>. SUFFICES ASSUME ResultInv, pc = "returned", ~rc, NEW i \in 1 .. Len(graph)
       PROVE  RetiredNode(i)
    BY DEF CompletionContract
  <2>1. todo = {}
    BY DEF ResultInv, WalkComplete
  <2>. QED
    BY <2>1 DEF ResultInv, VisitedRetired
<1>. QED
  BY <1>1, InitResultInv, StepResultInv, PTL DEF Spec
-----------------------------------------------------------------------------
(***************************************************************************)
(* Points and fences.                                                      *)
(***************************************************************************)

\* Only a barrier and a dispatch change the points, the fences the kernel
\* holds and the pending waits.
LEMMA PendingSteps ==
  ASSUME TypeOK, [Next]_vars
  PROVE  \/ Barrier
         \/ Dispatch /\ (SubmitAccepted(Queue(node)) \/ SubmitRefused(Queue(node)))
         \/ UNCHANGED <<point, submitted, pendOn, pendPt>>
<1>1. ASSUME NEW g \in Graphs, Begin(g)
      PROVE  UNCHANGED <<point, submitted, pendOn, pendPt>>
  BY <1>1 DEF Begin, gpuVars
<1>2. ASSUME Acquire PROVE UNCHANGED <<point, submitted, pendOn, pendPt>>
  BY <1>2 DEF Acquire, QueueGet, QueueGetFails, timelineVars, cpuVars, gpuVars
<1>3. ASSUME Dispatch
      PROVE  \/ SubmitAccepted(Queue(node)) \/ SubmitRefused(Queue(node))
             \/ UNCHANGED <<point, submitted, pendOn, pendPt>>
  BY <1>3 DEF Dispatch, DispatchAccepted, DispatchRefused, DispatchRejected,
     ClearSlice, gpuVars
<1>4. ASSUME CopyWait \/ EndWalk \/ Retire
      PROVE  UNCHANGED <<point, submitted, pendOn, pendPt>>
  BY <1>4 DEF CopyWait, EndWalk, Retire, timelineVars, cpuVars, gpuVars
<1>5. ASSUME NEW q \in QueueKinds, Ring(q)
      PROVE  UNCHANGED <<point, submitted, pendOn, pendPt>>
  BY <1>5 DEF Ring, RingStart, RingRetire, cpuVars
<1>6. ASSUME UNCHANGED vars PROVE UNCHANGED <<point, submitted, pendOn, pendPt>>
  BY <1>6 DEF vars, timelineVars, cpuVars, gpuVars
<1>. QED
  BY <1>1, <1>2, <1>3, <1>4, <1>5, <1>6 DEF Next, Cpu, Quiescent

\* A barrier waits for the point its source is at, which carries a fence.
LEMMA BarrierFenced ==
  ASSUME FencedInv, Barrier
  PROVE  PointsFenced'
<1>1. PICK p \in FencesLeft : QueueBarrier(Queue(p), Queue(node))
  BY DEF Barrier
<1>2. p \in 1 .. Len(graph) /\ node \in 1 .. Len(graph)
  BY <1>1 DEF FencesLeft, Barrier, FencedInv, TimelineInv, TypeOK, ExecTypeOK
<1>3. Queue(p) \in QueueKinds /\ Queue(node) \in QueueKinds
  BY <1>2, QueueTyped DEF Queue, FencedInv, TimelineInv, TypeOK, ExecTypeOK
<1>. DEFINE s == Queue(p)
            d == Queue(node)
<1>. HIDE DEF s, d
<1>4. /\ s \in QueueKinds /\ d \in QueueKinds /\ QueueBarrier(s, d)
      /\ UNCHANGED <<point, submitted>>
  BY <1>1, <1>3 DEF s, d, QueueBarrier, gpuVars
<1>5. CASE point[s] = 0
  BY <1>4, <1>5 DEF QueueBarrier, FencedInv, PointsFenced
<1>6. CASE point[s] # 0
  <2>1. /\ pendOn' = [pendOn EXCEPT ![d] = s]
        /\ pendPt' = [pendPt EXCEPT ![d] = point[s]]
    BY <1>4, <1>6 DEF QueueBarrier
  <2>2. point[s] = submitted[s] /\ submitted[s] \in Nat
    BY <1>4 DEF FencedInv, PointsFenced, TimelineInv, TypeOK, TimelineTypeOK
  <2>3. ASSUME NEW k \in QueueKinds, pendOn'[k] # NoQueue
        PROVE  pendPt'[k] <= submitted[pendOn'[k]]
    <3>1. CASE k = d
      BY <2>1, <2>2, <3>1, <1>4 DEF FencedInv, TimelineInv, TypeOK, TimelineTypeOK
    <3>2. CASE k # d
      BY <2>1, <2>3, <3>2 DEF FencedInv, PointsFenced, TimelineInv, TypeOK,
         TimelineTypeOK
    <3>. QED
      BY <3>1, <3>2
  <2>. QED
    BY <1>4, <2>3 DEF FencedInv, PointsFenced
<1>. QED
  BY <1>5, <1>6

\* The kernel takes every submission, since it can resolve its wait, and
\* installs the fence of the point the driver bumped.
LEMMA SubmitFenced ==
  ASSUME FencedInv, "submit" \notin Faults, NEW q \in QueueKinds,
         SubmitAccepted(q) \/ SubmitRefused(q)
  PROVE  PointsFenced'
<1>1. WaitResolves(q)
  BY DEF FencedInv, PointsFenced, WaitResolves
<1>2. SubmitAccepted(q)
  BY <1>1 DEF SubmitRefused
<1>3. /\ pendOn' = [pendOn EXCEPT ![q] = NoQueue]
      /\ point' = [point EXCEPT ![q] = point[q] + 1]
      /\ pendPt' = [pendPt EXCEPT ![q] = 0]
      /\ submitted' = [submitted EXCEPT ![q] = point[q] + 1]
  BY <1>2 DEF SubmitAccepted, StageAndBump
<1>4. /\ point \in [QueueKinds -> Nat] /\ submitted \in [QueueKinds -> Nat]
      /\ pendPt \in [QueueKinds -> Nat]
      /\ pendOn \in [QueueKinds -> QueueKinds \cup {NoQueue}]
  BY DEF FencedInv, TimelineInv, TypeOK, TimelineTypeOK
<1>5. \A k \in QueueKinds : point'[k] = submitted'[k] /\ submitted[k] <= submitted'[k]
  BY <1>3, <1>4 DEF FencedInv, PointsFenced
<1>6. ASSUME NEW k \in QueueKinds, pendOn'[k] # NoQueue
      PROVE  pendPt'[k] <= submitted'[pendOn'[k]]
  <2>1. /\ pendOn[k] \in QueueKinds /\ pendOn'[k] = pendOn[k]
        /\ pendPt'[k] = pendPt[k]
    BY <1>3, <1>4, <1>6
  <2>2. pendPt[k] <= submitted[pendOn[k]]
    BY <1>6, <2>1 DEF FencedInv, PointsFenced
  <2>3. submitted[pendOn[k]] <= submitted'[pendOn[k]] /\ submitted'[pendOn[k]] \in Nat
    BY <1>3, <1>4, <1>5, <2>1
  <2>. QED
    BY <1>4, <2>1, <2>2, <2>3
<1>. QED
  BY <1>5, <1>6 DEF PointsFenced

\* A new context has bumped no point and records no wait.
LEMMA InitFenced == Init => FencedInv
<1>1. Init => TimelineInv
  BY InitTimelineInv
<1>2. Init => PointsFenced
  BY DEF Init, TimelineInit, PointsFenced, NoQueue
<1>. QED
  BY <1>1, <1>2 DEF FencedInv

\* While the kernel refuses nothing of itself, every point carries a fence.
LEMMA StepFenced ==
  ASSUME "submit" \notin Faults, FencedInv, [Next]_vars
  PROVE  FencedInv'
<1>1. TimelineInv'
  BY StepTimelineInv DEF FencedInv
<1>2. CASE Barrier
  BY <1>1, <1>2, BarrierFenced DEF FencedInv
<1>3. CASE Dispatch /\ (SubmitAccepted(Queue(node)) \/ SubmitRefused(Queue(node)))
  <2>1. Queue(node) \in QueueKinds
    BY <1>3, DispatchedNode DEF FencedInv, TimelineInv
  <2>. QED
    BY <1>1, <1>3, <2>1, SubmitFenced DEF FencedInv
<1>4. CASE UNCHANGED <<point, submitted, pendOn, pendPt>>
  BY <1>1, <1>4 DEF FencedInv, PointsFenced
<1>. QED
  BY <1>2, <1>3, <1>4, PendingSteps DEF FencedInv, TimelineInv

\* A queue with nothing left to run is one wait_idle returns 0 for: unless the
\* kernel refuses a submission of itself, no driver bumps a point that no fence
\* will ever signal, because no recorded wait is one the kernel cannot resolve.
\* (After a refused submission the bumped point stays ahead for good.)
THEOREM DrainedIsIdle ==
  ASSUME "submit" \notin Faults
  PROVE  Spec => []DrainedQueueIsIdle
<1>1. FencedInv /\ [Next]_vars => FencedInv'
  BY StepFenced
<1>2. ASSUME FencedInv, NEW k \in live, signalled[k] = submitted[k]
      PROVE  WaitSucceeds(k)
  BY <1>2 DEF FencedInv, PointsFenced, WaitSucceeds, TimelineInv, TypeOK,
     TimelineTypeOK
<1>3. FencedInv => DrainedQueueIsIdle
  BY <1>2 DEF DrainedQueueIsIdle
<1>. QED
  BY <1>1, <1>3, InitFenced, PTL DEF Spec

-----------------------------------------------------------------------------
(***************************************************************************)
(* Staged streams.                                                         *)
(***************************************************************************)

\* Moving to the next slice keeps the cursor at the node, in a graph that fits.
LEMMA CursorFollows ==
  ASSUME TypeOK, GraphFits, cursor = node - 1, node <= Len(graph),
         graph' = graph, Advance
  PROVE  node' <= Len(graph) => cursor' = node' - 1
<1>1. node \in Nat /\ Len(graph) \in Nat /\ Slots \in Nat
  BY SlotsAssumption DEF TypeOK, ExecTypeOK
<1>2. node' = node + 1 /\ cursor' = NextSlot(node - 1)
  BY DEF Advance
<1>3. node < Slots => NextSlot(node - 1) = node
  BY <1>1 DEF NextSlot
<1>. QED
  BY <1>1, <1>2, <1>3 DEF GraphFits

\* What a dispatch does to the buffer: it writes no slice but the current one,
\* and a job it adds runs the stream it staged there.
LEMMA DispatchStages ==
  ASSUME TypeOK, Dispatch
  PROVE  /\ \A s \in SliceIds : s # cursor => ib'[s] = ib[s]
         /\ \A j \in inflight' \ inflight : /\ j.slice = cursor
                                            /\ ib'[cursor] = <<j.q, j.pt>>
                                            /\ j.q = Queue(node)
<1>1. /\ node \in 1 .. Len(graph) /\ Queue(node) \in QueueKinds
      /\ cursor \in SliceIds /\ ib \in [SliceIds -> Streams]
  BY DispatchedNode DEF TypeOK, TimelineTypeOK
<1>2. CASE DispatchAccepted
  <2>1. /\ ib' = [ib EXCEPT ![cursor] = <<Queue(node), point[Queue(node)] + 1>>]
        /\ inflight' = inflight \cup
             {[q |-> Queue(node), pt |-> point[Queue(node)] + 1,
               on |-> pendOn[Queue(node)], wpt |-> pendPt[Queue(node)],
               slice |-> cursor]}
    BY <1>2 DEF DispatchAccepted, SubmitAccepted, StageAndBump
  <2>. QED
    BY <1>1, <2>1
<1>3. CASE DispatchRefused
  BY <1>1, <1>3 DEF DispatchRefused, SubmitRefused, StageAndBump, gpuVars
<1>4. CASE DispatchRejected
  BY <1>1, <1>4 DEF DispatchRejected, ClearSlice, gpuVars
<1>. QED
  BY <1>2, <1>3, <1>4 DEF Dispatch

\* The walk dispatches into a slice no job in flight runs from.
LEMMA DispatchStream ==
  ASSUME StreamInv, Dispatch, TypeOK'
  PROVE  StagedStreamIntact' /\ GraphFits' /\ CursorAtNode' /\ StagedBehind'
<1>1. /\ pc = "walk" /\ node \in 1 .. Len(graph) /\ graph' = graph
      /\ cursor = node - 1 /\ TypeOK
      /\ \A j \in inflight : j.slice < cursor /\ j.slice \in SliceIds
      /\ \A j \in inflight : ib[j.slice] = <<j.q, j.pt>>
  BY DispatchedNode DEF Dispatch, StreamInv, TimelineInv, TypeOK, TimelineTypeOK,
     Jobs, CursorAtNode, StagedBehind, StagedStreamIntact
<1>2. \/ pc' = "copywait" /\ UNCHANGED <<cursor, node>>
      \/ pc' = "walk" /\ Advance
  BY <1>1 DEF Dispatch, DispatchAccepted, DispatchRefused, DispatchRejected
<1>3. \A j \in inflight' : \/ j \in inflight
                           \/ j.slice = cursor /\ ib'[cursor] = <<j.q, j.pt>>
  BY <1>1, DispatchStages
<1>4. \A j \in inflight : ib'[j.slice] = <<j.q, j.pt>>
  <2>. SUFFICES ASSUME NEW j \in inflight PROVE ib'[j.slice] = <<j.q, j.pt>>
    OBVIOUS
  <2>1. j.slice \in SliceIds /\ j.slice < cursor /\ ib[j.slice] = <<j.q, j.pt>>
    BY <1>1
  <2>2. j.slice # cursor
    BY <1>1, <2>1 DEF SliceIds
  <2>3. ib'[j.slice] = ib[j.slice]
    BY <1>1, <2>1, <2>2, DispatchStages
  <2>. QED
    BY <2>1, <2>3
<1>5. StagedStreamIntact'
  BY <1>3, <1>4 DEF StagedStreamIntact
<1>6. GraphFits'
  BY <1>1 DEF StreamInv, GraphFits
<1>7. \A j \in inflight' : j.slice <= cursor /\ j.slice \in Nat
  <2>1. cursor \in Nat /\ SliceIds \subseteq Nat
    BY <1>1 DEF SliceIds, TypeOK, TimelineTypeOK
  <2>2. ASSUME NEW j \in inflight PROVE j.slice <= cursor /\ j.slice \in Nat
    <3>1. j.slice < cursor /\ j.slice \in Nat
      BY <1>1, <2>1
    <3>. QED
      BY <2>1, <3>1
  <2>. QED
    BY <1>3, <2>1, <2>2
<1>8. CursorAtNode' /\ StagedBehind'
  <2>1. CASE pc' = "copywait" /\ UNCHANGED <<cursor, node>>
    BY <1>1, <1>7, <2>1 DEF CursorAtNode, StagedBehind
  <2>2. CASE pc' = "walk" /\ Advance
    <3>1. node' = node + 1 /\ (node' <= Len(graph) => cursor' = node' - 1)
      BY <1>1, <2>2, CursorFollows DEF StreamInv, Advance
    <3>. QED
      BY <1>1, <1>7, <2>2, <3>1 DEF CursorAtNode, StagedBehind
  <2>. QED
    BY <1>2, <2>1, <2>2
<1>. QED
  BY <1>5, <1>6, <1>8

\* A step that adds no job and stages nothing leaves every stream alone.
LEMMA StreamFrame ==
  ASSUME StagedStreamIntact, inflight' \subseteq inflight, UNCHANGED ib
  PROVE  StagedStreamIntact'
BY DEF StagedStreamIntact

\* A queue whose wait returned 0 has no job in flight, if its points carry
\* fences.
LEMMA WaitEmpties ==
  ASSUME FencedInv, NEW k \in QueueKinds, WaitSucceeds(k), NEW j \in inflight
  PROVE  j.q # k
<1>1. /\ signalled[j.q] < j.pt /\ j.pt <= submitted[j.q]
      /\ j.q \in QueueKinds /\ j.pt \in Nat
  BY DEF FencedInv, TimelineInv, TimelineOrder, TypeOK, TimelineTypeOK, Jobs
<1>2. /\ point[j.q] = submitted[j.q]
      /\ submitted[j.q] \in Nat /\ signalled[j.q] \in Nat
  BY <1>1 DEF FencedInv, PointsFenced, TimelineInv, TypeOK, TimelineTypeOK
<1>3. ~WaitSucceeds(j.q)
  BY <1>1, <1>2 DEF WaitSucceeds
<1>. QED
  BY <1>3

\* With every point fenced and no wait cut short, the executor visits every
\* queue it used and leaves none with a job in flight.
LEMMA StepWaited ==
  ASSUME StreamInv, FencedInv, UsedQueuesWaited, "wait" \notin Faults,
         [Next]_vars, TypeOK'
  PROVE  UsedQueuesWaited'
<1>1. TypeOK /\ QuietStart
  BY DEF StreamInv, TimelineInv
<1>2. ASSUME NEW g \in Graphs, Begin(g) PROVE UsedQueuesWaited'
  <2>1. inflight' = inflight /\ pc' \in {"returned", "acquire"}
        /\ pc \in {"idle", "returned"}
    BY <1>2 DEF Begin, gpuVars
  <2>2. inflight = {}
    BY <1>1, <2>1 DEF QuietStart, UsedQueuesWaited
  <2>. QED
    BY <2>1, <2>2 DEF UsedQueuesWaited
<1>3. ASSUME Acquire PROVE UsedQueuesWaited'
  <2>1. inflight' = inflight /\ pc = "acquire"
    BY <1>3 DEF Acquire, QueueGet, QueueGetFails, timelineVars, gpuVars
  <2>. QED
    BY <1>1, <2>1 DEF QuietStart, UsedQueuesWaited
<1>4. ASSUME Barrier PROVE UsedQueuesWaited'
  BY <1>4 DEF Barrier, QueueBarrier, gpuVars, UsedQueuesWaited
<1>5. ASSUME Dispatch PROVE UsedQueuesWaited'
  <2>1. /\ pc = "walk" /\ pc' \in {"walk", "copywait"} /\ UNCHANGED graph
        /\ node \in 1 .. Len(graph)
    BY <1>1, <1>5, DispatchedNode DEF Dispatch, DispatchAccepted, DispatchRefused,
       DispatchRejected
  <2>2. \A j \in inflight' : j \in inflight \/ j.q = Queue(node)
    BY <1>1, <1>5, DispatchStages
  <2>3. Queue(node) \in BatchKinds(graph)
    BY <2>1 DEF BatchKinds, Queue
  <2>. QED
    BY <2>1, <2>2, <2>3 DEF UsedQueuesWaited
<1>6. ASSUME CopyWait PROVE UsedQueuesWaited'
  BY <1>6 DEF CopyWait, gpuVars, UsedQueuesWaited
<1>7. ASSUME EndWalk PROVE UsedQueuesWaited'
  BY <1>7 DEF EndWalk, gpuVars, UsedQueuesWaited
<1>8. ASSUME Retire PROVE UsedQueuesWaited'
  <2>. DEFINE k == NextBatch(graph, todo)
  <2>1. k \in QueueKinds
    BY <1>1, <1>8, NextBatchInTodo, QueueTyped DEF Retire, TypeOK, ExecTypeOK
  <2>2. WaitSucceeds(k) \/ WaitFails(k)
    BY <1>8 DEF Retire
  <2>3. /\ pc = "retire" /\ todo' = todo \ {k}
        /\ pc' = IF todo = {k} THEN "returned" ELSE "retire"
        /\ inflight' = inflight
    BY <1>8 DEF Retire, timelineVars, gpuVars
  <2>. HIDE DEF k
  <2>4. ~WaitFails(k)
    BY <2>1 DEF WaitFails, FencedInv, PointsFenced, TimelineInv, TypeOK,
       TimelineTypeOK
  <2>5. \A j \in inflight : j.q # k
    BY <2>1, <2>2, <2>4, WaitEmpties
  <2>. QED
    BY <2>3, <2>5 DEF UsedQueuesWaited
<1>9. ASSUME NEW q \in QueueKinds, Ring(q) PROVE UsedQueuesWaited'
  <2>1. inflight' \subseteq inflight /\ UNCHANGED <<pc, graph, todo>>
    BY <1>9 DEF Ring, RingStart, RingRetire, execVars
  <2>. QED
    BY <2>1 DEF UsedQueuesWaited
<1>10. ASSUME UNCHANGED vars PROVE UsedQueuesWaited'
  BY <1>10 DEF vars, timelineVars, gpuVars, execVars, UsedQueuesWaited
<1>. QED
  BY <1>2, <1>3, <1>4, <1>5, <1>6, <1>7, <1>8, <1>9, <1>10
  DEF Next, Cpu, Quiescent

\* The parts of the stream invariant that speak of one execution, given that
\* an execution starts over an empty IB buffer.
LEMMA StepStream ==
  ASSUME StreamInv, [Next]_vars, TypeOK',
         \A g \in Graphs : Len(g) <= Slots,
         pc = "returned" /\ runs < MaxRuns => inflight = {}
  PROVE  /\ StagedStreamIntact' /\ GraphFits' /\ CursorAtNode'
         /\ StagedBehind' /\ QuietStart' /\ RunCounted'
<1>. DEFINE Goal == /\ StagedStreamIntact' /\ GraphFits' /\ CursorAtNode'
                    /\ StagedBehind' /\ QuietStart' /\ RunCounted'
<1>1. /\ TypeOK /\ StagedStreamIntact /\ GraphFits /\ CursorAtNode
      /\ StagedBehind /\ QuietStart /\ RunCounted
  BY DEF StreamInv, TimelineInv
<1>2. ASSUME NEW g \in Graphs, Begin(g) PROVE Goal
  <2>1. /\ inflight' = inflight /\ ib' = ib /\ pc' \in {"returned", "acquire"}
        /\ pc \in {"idle", "returned"} /\ runs < MaxRuns /\ runs' = runs + 1
        /\ graph' = g /\ Len(g) <= Slots
        /\ node' = 1 /\ (pc' = "acquire" => cursor' = 0)
    BY <1>2 DEF Begin, gpuVars
  <2>2. inflight' = {} /\ runs' # 0
    BY <1>1, <2>1 DEF QuietStart, TypeOK, ExecTypeOK
  <2>. QED
    BY <2>1, <2>2 DEF StagedStreamIntact, GraphFits, CursorAtNode, StagedBehind,
       QuietStart, RunCounted
<1>3. ASSUME Acquire PROVE Goal
  <2>1. /\ UNCHANGED <<inflight, ib, graph, node, runs>>
        /\ cursor' = cursor /\ pc = "acquire" /\ pc' \in {"acquire", "walk", "returned"}
        /\ inflight = {}
    BY <1>1, <1>3 DEF Acquire, QueueGet, QueueGetFails, timelineVars, cpuVars,
       gpuVars, QuietStart
  <2>. QED
    BY <1>1, <2>1 DEF StagedStreamIntact, GraphFits, CursorAtNode, StagedBehind,
       QuietStart, RunCounted
<1>4. ASSUME Barrier PROVE Goal
  <2>1. UNCHANGED <<inflight, ib, graph, node, pc, cursor, runs>>
    BY <1>4 DEF Barrier, QueueBarrier, gpuVars
  <2>. QED
    BY <1>1, <2>1 DEF StagedStreamIntact, GraphFits, CursorAtNode, StagedBehind,
       QuietStart, RunCounted
<1>5. ASSUME Dispatch PROVE Goal
  <2>1. pc = "walk" /\ pc' \in {"walk", "copywait"} /\ runs' = runs
    BY <1>5 DEF Dispatch, DispatchAccepted, DispatchRefused, DispatchRejected
  <2>. QED
    BY <1>1, <1>5, <2>1, DispatchStream DEF QuietStart, RunCounted
<1>6. ASSUME CopyWait PROVE Goal
  <2>1. /\ UNCHANGED <<inflight, ib, graph, runs>>
        /\ pc = "copywait" /\ pc' = "walk" /\ Advance
    BY <1>6 DEF CopyWait, gpuVars
  <2>2. /\ node' = node + 1 /\ (node' <= Len(graph) => cursor' = node' - 1)
    BY <1>1, <2>1, CursorFollows DEF CursorAtNode, Advance
  <2>3. CursorAtNode' /\ StagedBehind'
    BY <1>1, <2>1, <2>2 DEF CursorAtNode, StagedBehind, TypeOK, ExecTypeOK
  <2>. QED
    BY <1>1, <2>1, <2>3 DEF StagedStreamIntact, GraphFits, QuietStart, RunCounted
<1>7. ASSUME EndWalk \/ Retire PROVE Goal
  <2>1. /\ UNCHANGED <<inflight, ib, graph, runs>>
        /\ pc \in {"walk", "retire"} /\ pc' \in {"retire", "returned"}
    BY <1>7 DEF EndWalk, Retire, timelineVars, cpuVars, gpuVars
  <2>. QED
    BY <1>1, <2>1 DEF StagedStreamIntact, GraphFits, CursorAtNode, StagedBehind,
       QuietStart, RunCounted
<1>8. ASSUME NEW q \in QueueKinds, Ring(q) PROVE Goal
  <2>1. /\ inflight' \subseteq inflight
        /\ UNCHANGED <<ib, graph, node, pc, cursor, runs>>
    BY <1>8 DEF Ring, RingStart, RingRetire, execVars, cpuVars
  <2>2. StagedStreamIntact' /\ StagedBehind' /\ QuietStart'
    BY <1>1, <2>1 DEF StagedStreamIntact, StagedBehind, QuietStart
  <2>. QED
    BY <1>1, <2>1, <2>2 DEF GraphFits, CursorAtNode, RunCounted
<1>9. ASSUME UNCHANGED vars PROVE Goal
  <2>1. UNCHANGED <<inflight, ib, graph, node, pc, cursor, runs>>
    BY <1>9 DEF vars, timelineVars, cpuVars, gpuVars, execVars
  <2>. QED
    BY <1>1, <2>1 DEF StagedStreamIntact, GraphFits, CursorAtNode, StagedBehind,
       QuietStart, RunCounted
<1>. QED
  BY <1>2, <1>3, <1>4, <1>5, <1>6, <1>7, <1>8, <1>9 DEF Next, Cpu, Quiescent

\* Before the first execution the IB buffer is empty.
LEMMA InitStreamInv == Init => StreamInv
<1>. SUFFICES ASSUME Init PROVE StreamInv
  OBVIOUS
<1>1. FencedInv /\ TimelineInv
  BY InitFenced DEF FencedInv
<1>2. pc = "idle" /\ inflight = {} /\ Len(graph) = 0
  BY DEF Init, TimelineInit
<1>3. Len(graph) <= Slots
  BY <1>2, SlotsAssumption
<1>. QED
  BY <1>1, <1>2, <1>3 DEF StreamInv, FencedInv, StagedStreamIntact, GraphFits,
     CursorAtNode, StagedBehind, QuietStart, RunCounted, UsedQueuesWaited

\* Every step keeps the stream invariant: within one execution for any failure,
\* across executions while only a missing queue can end one early.
LEMMA StepStreamInv ==
  ASSUME \A g \in Graphs : Len(g) <= Slots,
         MaxRuns <= 1 \/ Faults \subseteq {"get"},
         StreamInv, [Next]_vars
  PROVE  StreamInv'
<1>1. TimelineInv' /\ TypeOK' /\ TypeOK
  BY StepTimelineInv DEF StreamInv, TimelineInv
<1>2. MaxRuns \in Nat /\ runs \in Nat
  BY <1>1, MaxRunsAssumption DEF TypeOK, ExecTypeOK
<1>3. pc = "returned" /\ runs < MaxRuns => inflight = {}
  <2>. SUFFICES ASSUME pc = "returned", runs < MaxRuns PROVE inflight = {}
    OBVIOUS
  <2>1. runs # 0
    BY DEF StreamInv, RunCounted
  <2>2. UsedQueuesWaited
    BY <1>2, <2>1 DEF StreamInv
  <2>. QED
    BY <2>2 DEF UsedQueuesWaited
<1>4. /\ StagedStreamIntact' /\ GraphFits' /\ CursorAtNode'
      /\ StagedBehind' /\ QuietStart' /\ RunCounted'
  BY <1>1, <1>3, StepStream
<1>5. ASSUME MaxRuns > 1 PROVE PointsFenced' /\ UsedQueuesWaited'
  <2>1. "submit" \notin Faults /\ "wait" \notin Faults
    BY <1>2, <1>5
  <2>2. FencedInv /\ UsedQueuesWaited
    BY <1>5 DEF StreamInv, FencedInv
  <2>3. PointsFenced'
    BY <2>1, <2>2, StepFenced DEF FencedInv
  <2>4. UsedQueuesWaited'
    BY <1>1, <2>1, <2>2, StepWaited
  <2>. QED
    BY <2>3, <2>4
<1>. QED
  BY <1>1, <1>4, <1>5 DEF StreamInv

\* No submission's packet stream is rewritten before the ring has retired it:
\* in one execution whatever fails, on every graph with no more nodes than the
\* IB buffer has slices; over any number of executions as long as no submission
\* is refused and no wait returns early, because an execution that restarts the
\* cursor then finds every queue it used drained.  (The run ExecSliceWrap shows
\* what a longer graph does.)
THEOREM StreamsIntact ==
  ASSUME \A g \in Graphs : Len(g) <= Slots,
         MaxRuns <= 1 \/ Faults \subseteq {"get"}
  PROVE  Spec => []StagedStreamIntact
<1>1. StreamInv /\ [Next]_vars => StreamInv'
  BY StepStreamInv
<1>2. StreamInv => StagedStreamIntact
  BY DEF StreamInv
<1>. QED
  BY <1>1, <1>2, InitStreamInv, PTL DEF Spec

-----------------------------------------------------------------------------
(***************************************************************************)
(* The executor implements TaskGraph.                                      *)
(***************************************************************************)

\* The dependencies TaskGraph speaks of are those of the graph.
LEMMA AbstractDeps == ASSUME NEW g PROVE Abstract!Deps(g) = Deps(g)
BY DEF Deps, Abstract!Deps, SharesDep, Abstract!SharesDep

\* A context no graph has run on is an idle TaskGraph.
LEMMA InitSimulates == Init => Abstract!Init
<1>. SUFFICES ASSUME Init PROVE Abstract!Init
  OBVIOUS
<1>1. graph = <<>> /\ Len(graph) = 0 /\ Phase = "idle"
  BY DEF Init, Phase
<1>2. Begun = {} /\ Finished = {} /\ Skipped = {}
  BY <1>1 DEF Begun, Finished, Skipped
<1>. QED
  BY <1>1, <1>2 DEF Abstract!Init

\* A step that moves no node's point, nothing the rings have done and the walk
\* past no node shows nothing but, perhaps, its phase.
LEMMA SameNodes ==
  ASSUME UNCHANGED <<graph, nodePoint, started, signalled, node>>,
         pc # "idle" /\ pc' # "idle"
  PROVE  UNCHANGED <<graph, Begun, Finished, Skipped>>
<1>1. Begun' = Begun
  BY DEF Begun, StartedNode, Queue
<1>2. Finished' = Finished
  BY DEF Finished, RetiredNode, Queue
<1>3. Skipped' = Skipped
  BY DEF Skipped
<1>. QED
  BY <1>1, <1>2, <1>3

\* A call starts from nothing begun, whichever way the execution before ended.
LEMMA BeginSimulates ==
  ASSUME NEW g \in Graphs, Begin(g)
  PROVE  Abstract!Call
<1>1. /\ pc \in {"idle", "returned"} /\ graph' = g /\ node' = 1 /\ rc' = FALSE
      /\ \A i \in 1 .. Len(g) : nodePoint'[i] = 0
      /\ pc' = IF g = <<>> THEN "returned" ELSE "acquire"
  BY DEF Begin
<1>2. Phase # "running" /\ Phase' = IF g = <<>> THEN "ok" ELSE "running"
  BY <1>1 DEF Phase
<1>3. Begun' = {} /\ Finished' = {}
  BY <1>1 DEF Begun, StartedNode, Finished, RetiredNode
<1>4. Skipped' = {}
  BY <1>1 DEF Skipped
<1>. QED
  BY <1>1, <1>2, <1>3, <1>4 DEF Abstract!Call

\* An accepted submission begins nothing and skips nothing: its node's point is
\* one its ring has not started.
LEMMA AcceptedSimulates ==
  ASSUME RefineInv, Dispatch, DispatchAccepted
  PROVE  UNCHANGED Abstract!vars
<1>. DEFINE q == Queue(node)
            n == point[q] + 1
<1>1. /\ pc = "walk" /\ node \in 1 .. Len(graph) /\ q \in QueueKinds
      /\ node \in Nat /\ nodePoint \in [1 .. Len(graph) -> Nat]
      /\ started[q] \in Nat /\ signalled[q] \in Nat /\ point[q] \in Nat
      /\ signalled[q] <= started[q] /\ started[q] <= point[q]
  <2>1. TypeOK /\ TimelineOrder
    BY DEF RefineInv, OrderInv, TimelineInv
  <2>2. pc = "walk" /\ node \in 1 .. Len(graph) /\ q \in QueueKinds
    BY <2>1, DispatchedNode DEF Dispatch
  <2>3. /\ started[q] \in Nat /\ signalled[q] \in Nat /\ point[q] \in Nat
        /\ submitted[q] \in Nat
        /\ node \in Nat /\ nodePoint \in [1 .. Len(graph) -> Nat]
    BY <2>1, <2>2 DEF TypeOK, TimelineTypeOK, ExecTypeOK
  <2>4. /\ signalled[q] <= started[q] /\ started[q] <= submitted[q]
        /\ submitted[q] <= point[q]
    BY <2>1, <2>2 DEF TimelineOrder
  <2>. QED
    BY <2>2, <2>3, <2>4
<1>2. /\ UNCHANGED <<graph, started, signalled, rc>>
      /\ nodePoint' = [nodePoint EXCEPT ![node] = n]
      /\ \/ pc' = "copywait" /\ node' = node
         \/ pc' = "walk" /\ node' = node + 1
  BY <1>1 DEF Dispatch, DispatchAccepted, SubmitAccepted, Advance
<1>3. /\ n \in Nat /\ n # 0 /\ started[q] < n /\ signalled[q] < n
      /\ nodePoint'[node] = n
      /\ \A i \in 1 .. Len(graph) : i # node => nodePoint'[i] = nodePoint[i]
  <2>1. n \in Nat /\ n # 0 /\ started[q] < n /\ signalled[q] < n
    BY <1>1
  <2>. HIDE DEF n
  <2>2. nodePoint'[node] = n
    BY <1>1, <1>2
  <2>3. \A i \in 1 .. Len(graph) : i # node => nodePoint'[i] = nodePoint[i]
    BY <1>1, <1>2
  <2>. QED
    BY <2>1, <2>2, <2>3
<1>4. nodePoint[node] = 0
  BY <1>1 DEF RefineInv, OrderInv, NodePointsReached
<1>. HIDE DEF n
<1>5. \A i \in 1 .. Len(graph) : /\ StartedNode(i)' <=> StartedNode(i)
                                 /\ RetiredNode(i)' <=> RetiredNode(i)
  <2>. SUFFICES ASSUME NEW i \in 1 .. Len(graph)
       PROVE  /\ StartedNode(i)' <=> StartedNode(i)
              /\ RetiredNode(i)' <=> RetiredNode(i)
    OBVIOUS
  <2>1. CASE i = node
    BY <1>1, <1>2, <1>3, <1>4, <2>1 DEF StartedNode, RetiredNode, Queue
  <2>2. CASE i # node
    BY <1>2, <1>3, <2>2 DEF StartedNode, RetiredNode, Queue
  <2>. QED
    BY <2>1, <2>2
<1>6. Begun' = Begun /\ Finished' = Finished
  BY <1>2, <1>5 DEF Begun, Finished
<1>7. Skipped' = Skipped
  <2>1. \A i \in 1 .. Len(graph) :
          nodePoint'[i] = 0 /\ i < node' <=> nodePoint[i] = 0 /\ i < node
    BY <1>1, <1>2, <1>3, <1>4
  <2>. QED
    BY <1>1, <1>2, <2>1 DEF Skipped
<1>8. Phase' = Phase
  BY <1>1, <1>2 DEF Phase
<1>. QED
  BY <1>2, <1>6, <1>7, <1>8 DEF Abstract!vars

\* A dispatch that fails, before or after the point is bumped, skips its node.
LEMMA FailedSimulates ==
  ASSUME RefineInv, Dispatch, DispatchRefused \/ DispatchRejected
  PROVE  Abstract!SkipNode(node)
<1>1. /\ UNCHANGED <<graph, nodePoint, gpuVars, pc>> /\ node' = node + 1
      /\ pc = "walk" /\ node \in 1 .. Len(graph)
  BY DispatchedNode DEF Dispatch, DispatchRefused, SubmitRefused, DispatchRejected,
     ClearSlice, Advance, RefineInv, OrderInv, TimelineInv
<1>2. nodePoint[node] = 0
  BY <1>1 DEF RefineInv, OrderInv, NodePointsReached
<1>3. Begun' = Begun /\ Finished' = Finished
  BY <1>1 DEF Begun, Finished, StartedNode, RetiredNode, Queue, gpuVars
<1>4. Skipped' = Skipped \cup {node}
  <2>1. \A i \in 1 .. Len(graph) : i < node' <=> i < node \/ i = node
    BY <1>1
  <2>. QED
    BY <1>1, <1>2, <2>1 DEF Skipped
<1>5. Phase = "running" /\ Phase' = Phase
  BY <1>1 DEF Phase
<1>6. node \notin Begun /\ node \notin Skipped
  BY <1>1, <1>2 DEF Begun, StartedNode, Skipped
<1>. QED
  BY <1>1, <1>3, <1>4, <1>5, <1>6 DEF Abstract!SkipNode, Abstract!AllNodes

\* A wait for a copy shows nothing.
LEMMA CopyWaitSimulates ==
  ASSUME RefineInv, CopyWait
  PROVE  UNCHANGED Abstract!vars
<1>1. /\ pc = "copywait" /\ pc' = "walk" /\ node' = node + 1
      /\ UNCHANGED <<graph, nodePoint, gpuVars>>
  BY DEF CopyWait, Advance
<1>2. nodePoint[node] # 0 /\ node \in Nat
  BY <1>1 DEF RefineInv, ResultInv, WalkComplete, TimelineInv, TypeOK, ExecTypeOK
<1>3. Begun' = Begun /\ Finished' = Finished
  BY <1>1 DEF Begun, Finished, StartedNode, RetiredNode, Queue, gpuVars
<1>4. Skipped' = Skipped
  <2>1. \A i \in 1 .. Len(graph) :
          nodePoint[i] = 0 /\ i < node' <=> nodePoint[i] = 0 /\ i < node
    BY <1>1, <1>2
  <2>. QED
    BY <1>1, <2>1 DEF Skipped
<1>5. Phase' = Phase
  BY <1>1 DEF Phase
<1>. QED
  BY <1>1, <1>3, <1>4, <1>5 DEF Abstract!vars

\* The last queue waited for returns the execution, with success only if every
\* node has finished; a queue before it shows nothing.
LEMMA RetireSimulates ==
  ASSUME RefineInv, RefineInv', Retire
  PROVE  Abstract!Return \/ UNCHANGED Abstract!vars
<1>1. /\ pc = "retire" /\ pc' \in {"retire", "returned"} /\ rc' \in BOOLEAN
      /\ UNCHANGED <<graph, nodePoint, started, signalled, node>>
  BY DEF Retire, timelineVars, gpuVars, RefineInv, ResultInv, TimelineInv, TypeOK,
     ExecTypeOK
<1>2. UNCHANGED <<graph, Begun, Finished, Skipped>>
  BY <1>1, SameNodes
<1>3. CASE pc' = "retire"
  BY <1>1, <1>2, <1>3 DEF Phase, Abstract!vars
<1>4. CASE pc' = "returned"
  <2>1. Phase = "running" /\ Phase' = IF rc' THEN "failed" ELSE "ok"
    BY <1>1, <1>4 DEF Phase
  <2>2. ASSUME ~rc' PROVE Finished = Abstract!AllNodes
    <3>1. \A i \in 1 .. Len(graph) : RetiredNode(i)'
      BY <1>1, <1>4, <2>2 DEF RefineInv, ResultInv, WalkComplete, VisitedRetired
    <3>2. Finished' = 1 .. Len(graph)
      BY <1>1, <3>1 DEF Finished
    <3>. QED
      BY <1>2, <3>2 DEF Abstract!AllNodes
  <2>. QED
    BY <1>1, <1>2, <2>1, <2>2 DEF Abstract!Return
<1>. QED
  BY <1>1, <1>3, <1>4

\* Nodes of one queue with the same point are the same node.
LEMMA PointOfOneNode ==
  ASSUME NodePointsAscend, graph \in Seq(Nodes),
         nodePoint \in [1 .. Len(graph) -> Nat],
         NEW i \in 1 .. Len(graph), NEW k \in 1 .. Len(graph),
         Queue(i) = Queue(k), nodePoint[i] = nodePoint[k], nodePoint[i] # 0
  PROVE  i = k
<1>1. ~(i < k) /\ ~(k < i)
  BY DEF NodePointsAscend
<1>. QED
  BY <1>1

\* Steps of the rings leave the execution alone.
LEMMA RingStartSimulates ==
  ASSUME RefineInv, RefineInv', NEW q \in QueueKinds, RingStart(q),
         UNCHANGED execVars
  PROVE  (\E i \in Abstract!AllNodes : Abstract!BeginNode(i))
         \/ UNCHANGED Abstract!vars
<1>1. PICK j \in inflight : /\ j.q = q
                            /\ Oldest(j)
                            /\ started' = [started EXCEPT ![q] = j.pt]
  BY DEF RingStart
<1>2. /\ started[q] = signalled[q]
      /\ UNCHANGED <<graph, nodePoint, node, pc, rc, signalled, inflight>>
  BY DEF RingStart, execVars
<1>3. /\ TypeOK /\ TimelineOrder /\ NodePointsReached /\ NodePointsAscend
      /\ DependencyOrder' /\ IdleEmpty
      /\ graph \in Seq(Nodes) /\ Sorted(graph)
      /\ nodePoint \in [1 .. Len(graph) -> Nat]
      /\ started \in [QueueKinds -> Nat] /\ signalled \in [QueueKinds -> Nat]
      /\ j.pt \in Nat /\ node \in Nat
  BY <1>1 DEF RefineInv, OrderInv, TimelineInv, TypeOK, ExecTypeOK, TimelineTypeOK,
     Jobs
<1>4. signalled[q] < j.pt
  BY <1>1, <1>3 DEF TimelineOrder
<1>5. \A i \in 1 .. Len(graph) : Queue(i) \in QueueKinds
  BY <1>3, QueueTyped DEF Queue
<1>6. UNCHANGED <<graph, Phase, Finished, Skipped>>
  BY <1>2 DEF Phase, Finished, RetiredNode, Queue, Skipped
<1>7. ASSUME NEW i \in 1 .. Len(graph), StartedNode(i) PROVE StartedNode(i)'
  <2>1. nodePoint[i] # 0 /\ started[Queue(i)] >= nodePoint[i]
    BY <1>7 DEF StartedNode
  <2>2. started'[Queue(i)] >= started[Queue(i)] /\ started'[Queue(i)] \in Nat
    BY <1>1, <1>2, <1>3, <1>4, <1>5
  <2>3. nodePoint[i] \in Nat /\ started[Queue(i)] \in Nat
    BY <1>3, <1>5
  <2>. QED
    BY <1>2, <2>1, <2>2, <2>3 DEF StartedNode, Queue
<1>8. ASSUME NEW i \in 1 .. Len(graph), StartedNode(i)', ~StartedNode(i)
      PROVE  Queue(i) = q /\ nodePoint[i] = j.pt /\ nodePoint[i] # 0
  <2>1. nodePoint[i] # 0 /\ started'[Queue(i)] >= nodePoint[i]
        /\ ~(started[Queue(i)] >= nodePoint[i])
    BY <1>2, <1>8 DEF StartedNode, Queue
  <2>2. Queue(i) = q
    BY <1>1, <1>3, <1>5, <2>1
  <2>3. nodePoint[i] <= j.pt /\ signalled[q] < nodePoint[i] /\ nodePoint[i] \in Nat
    BY <1>1, <1>2, <1>3, <2>1, <2>2
  <2>4. PICK o \in inflight : o.q = q /\ o.pt = nodePoint[i]
    BY <1>3, <2>1, <2>2, <2>3 DEF NodePointsReached
  <2>5. j.pt <= nodePoint[i]
    BY <1>1, <2>4 DEF Oldest
  <2>. QED
    BY <1>3, <2>1, <2>2, <2>3, <2>5
<1>9. CASE \A i \in 1 .. Len(graph) : StartedNode(i)' => StartedNode(i)
  <2>1. Begun' = Begun
    BY <1>2, <1>7, <1>9 DEF Begun
  <2>. QED
    BY <1>6, <2>1 DEF Abstract!vars
<1>10. ASSUME NEW i \in 1 .. Len(graph), StartedNode(i)', ~StartedNode(i)
       PROVE  Abstract!BeginNode(i)
  <2>1. Queue(i) = q /\ nodePoint[i] = j.pt /\ nodePoint[i] # 0
    BY <1>8, <1>10
  <2>2. ASSUME NEW k \in 1 .. Len(graph), StartedNode(k)', ~StartedNode(k)
        PROVE  k = i
    <3>1. Queue(k) = q /\ nodePoint[k] = j.pt
      BY <1>8, <2>2
    <3>. QED
      BY <1>3, <2>1, <3>1, PointOfOneNode
  <2>3. Begun' = Begun \cup {i}
    BY <1>2, <1>7, <1>10, <2>2 DEF Begun
  <2>4. i \notin Begun /\ i \notin Skipped
    BY <1>10, <2>1 DEF Begun, Skipped
  <2>5. ASSUME NEW p \in 1 .. Len(graph), <<p, i>> \in Deps(graph)
        PROVE  p \in Finished \cup Skipped
    <3>1. CASE nodePoint[p] # 0
      <4>1. RetiredNode(p)'
        BY <1>2, <1>3, <1>10, <2>5, <3>1 DEF DependencyOrder
      <4>2. RetiredNode(p)
        BY <1>2, <4>1 DEF RetiredNode, Queue
      <4>. QED
        BY <4>2 DEF Finished
    <3>2. CASE nodePoint[p] = 0
      <4>1. p < i
        BY <1>3, <2>5 DEF Sorted
      <4>2. i <= node
        BY <1>3, <2>1 DEF NodePointsReached
      <4>3. pc # "idle"
        BY <1>3, <1>10 DEF IdleEmpty
      <4>. QED
        BY <1>3, <3>2, <4>1, <4>2, <4>3 DEF Skipped
    <3>. QED
      BY <3>1, <3>2
  <2>6. Abstract!Producers(i) \subseteq Finished \cup Skipped
    BY <2>5, AbstractDeps DEF Abstract!Producers, Abstract!AllNodes
  <2>. QED
    BY <1>6, <2>3, <2>4, <2>6 DEF Abstract!BeginNode, Abstract!AllNodes
<1>. QED
  BY <1>9, <1>10 DEF Abstract!AllNodes

\* A ring retires the job it started: at most one node finishes, and it is one
\* that had begun.
LEMMA RingRetireSimulates ==
  ASSUME RefineInv, NEW q \in QueueKinds, RingRetire(q), UNCHANGED execVars
  PROVE  (\E i \in Abstract!AllNodes : Abstract!FinishNode(i))
         \/ UNCHANGED Abstract!vars
<1>1. /\ started[q] # signalled[q]
      /\ signalled' = [signalled EXCEPT ![q] = started[q]]
      /\ UNCHANGED <<graph, nodePoint, node, pc, rc, started>>
  BY DEF RingRetire, execVars
<1>2. /\ TypeOK /\ TimelineOrder /\ RingsRunOldest /\ NodePointsReached
      /\ NodePointsAscend
      /\ graph \in Seq(Nodes)
      /\ nodePoint \in [1 .. Len(graph) -> Nat]
      /\ started \in [QueueKinds -> Nat] /\ signalled \in [QueueKinds -> Nat]
      /\ signalled[q] <= started[q]
  BY DEF RefineInv, OrderInv, TimelineInv, TypeOK, ExecTypeOK, TimelineTypeOK,
     TimelineOrder
<1>3. \A i \in 1 .. Len(graph) : Queue(i) \in QueueKinds
  BY <1>2, QueueTyped DEF Queue
<1>4. UNCHANGED <<graph, Phase, Begun, Skipped>>
  BY <1>1 DEF Phase, Begun, StartedNode, Queue, Skipped
<1>5. ASSUME NEW i \in 1 .. Len(graph), RetiredNode(i) PROVE RetiredNode(i)'
  <2>1. nodePoint[i] # 0 /\ signalled[Queue(i)] >= nodePoint[i]
    BY <1>5 DEF RetiredNode
  <2>2. signalled'[Queue(i)] >= signalled[Queue(i)] /\ signalled'[Queue(i)] \in Nat
    BY <1>1, <1>2, <1>3
  <2>3. nodePoint[i] \in Nat /\ signalled[Queue(i)] \in Nat
    BY <1>2, <1>3
  <2>. QED
    BY <1>1, <2>1, <2>2, <2>3 DEF RetiredNode, Queue
<1>6. ASSUME NEW i \in 1 .. Len(graph), RetiredNode(i)', ~RetiredNode(i)
      PROVE  Queue(i) = q /\ nodePoint[i] = started[q] /\ nodePoint[i] # 0
  <2>1. nodePoint[i] # 0 /\ signalled'[Queue(i)] >= nodePoint[i]
        /\ ~(signalled[Queue(i)] >= nodePoint[i])
    BY <1>1, <1>6 DEF RetiredNode, Queue
  <2>2. Queue(i) = q
    BY <1>1, <1>2, <1>3, <2>1
  <2>3. nodePoint[i] <= started[q] /\ signalled[q] < nodePoint[i]
        /\ nodePoint[i] \in Nat /\ started[q] \in Nat
    BY <1>1, <1>2, <2>1, <2>2
  <2>4. PICK o \in inflight : o.q = q /\ o.pt = nodePoint[i]
    BY <1>2, <2>1, <2>2, <2>3 DEF NodePointsReached
  <2>5. started[q] <= nodePoint[i]
    BY <1>1, <1>2, <2>4 DEF RingsRunOldest
  <2>. QED
    BY <2>1, <2>2, <2>3, <2>5
<1>7. CASE \A i \in 1 .. Len(graph) : RetiredNode(i)' => RetiredNode(i)
  <2>1. Finished' = Finished
    BY <1>1, <1>5, <1>7 DEF Finished
  <2>. QED
    BY <1>4, <2>1 DEF Abstract!vars
<1>8. ASSUME NEW i \in 1 .. Len(graph), RetiredNode(i)', ~RetiredNode(i)
      PROVE  Abstract!FinishNode(i)
  <2>1. Queue(i) = q /\ nodePoint[i] = started[q] /\ nodePoint[i] # 0
    BY <1>6, <1>8
  <2>2. ASSUME NEW k \in 1 .. Len(graph), RetiredNode(k)', ~RetiredNode(k)
        PROVE  k = i
    <3>1. Queue(k) = q /\ nodePoint[k] = started[q]
      BY <1>6, <2>2
    <3>. QED
      BY <1>2, <2>1, <3>1, PointOfOneNode
  <2>3. Finished' = Finished \cup {i}
    BY <1>1, <1>5, <1>8, <2>2 DEF Finished
  <2>4. i \in Begun /\ i \notin Finished
    <3>1. StartedNode(i)
      BY <1>2, <2>1 DEF StartedNode
    <3>. QED
      BY <1>8, <3>1 DEF Begun, Finished
  <2>. QED
    BY <1>4, <2>3, <2>4 DEF Abstract!FinishNode
<1>. QED
  BY <1>7, <1>8 DEF Abstract!AllNodes

\* Every step of executor and rings is a step of TaskGraph or shows nothing.
LEMMA StepSimulates ==
  ASSUME RefineInv, RefineInv', [Next]_vars
  PROVE  [Abstract!Next]_(Abstract!vars)
<1>1. ASSUME NEW g \in Graphs, Begin(g) PROVE Abstract!Next
  BY <1>1, BeginSimulates DEF Abstract!Next
<1>2. ASSUME Acquire PROVE Abstract!Return \/ UNCHANGED Abstract!vars
  <2>1. /\ pc = "acquire" /\ pc' \in {"acquire", "walk", "returned"}
        /\ (pc' = "returned" => rc' = TRUE)
        /\ UNCHANGED <<graph, nodePoint, started, signalled, node>>
    BY <1>2 DEF Acquire, QueueGet, QueueGetFails, timelineVars, gpuVars
  <2>2. UNCHANGED <<graph, Begun, Finished, Skipped>>
    BY <2>1, SameNodes
  <2>3. Phase = "running" /\ Phase' \in {"running", "failed"}
    BY <2>1 DEF Phase
  <2>. QED
    BY <2>2, <2>3 DEF Abstract!Return, Abstract!vars
<1>3. ASSUME Barrier \/ EndWalk PROVE UNCHANGED Abstract!vars
  <2>1. /\ pc = "walk" /\ pc' \in {"walk", "retire"}
        /\ UNCHANGED <<graph, nodePoint, started, signalled, node>>
    BY <1>3 DEF Barrier, QueueBarrier, EndWalk, gpuVars
  <2>2. UNCHANGED <<graph, Begun, Finished, Skipped>>
    BY <2>1, SameNodes
  <2>3. Phase = "running" /\ Phase' = "running"
    BY <2>1 DEF Phase
  <2>. QED
    BY <2>2, <2>3 DEF Abstract!vars
<1>4. ASSUME Dispatch
      PROVE  \/ \E i \in Abstract!AllNodes : Abstract!SkipNode(i)
             \/ UNCHANGED Abstract!vars
  <2>1. node \in 1 .. Len(graph)
    BY <1>4, DispatchedNode DEF RefineInv, OrderInv, TimelineInv
  <2>2. CASE DispatchAccepted
    BY <1>4, <2>2, AcceptedSimulates
  <2>3. CASE DispatchRefused \/ DispatchRejected
    BY <1>4, <2>1, <2>3, FailedSimulates DEF Abstract!AllNodes
  <2>. QED
    BY <1>4, <2>2, <2>3 DEF Dispatch
<1>5. ASSUME CopyWait PROVE UNCHANGED Abstract!vars
  BY <1>5, CopyWaitSimulates
<1>6. ASSUME Retire PROVE Abstract!Return \/ UNCHANGED Abstract!vars
  BY <1>6, RetireSimulates
<1>7. ASSUME NEW q \in QueueKinds, Ring(q)
      PROVE  Abstract!Next \/ UNCHANGED Abstract!vars
  BY <1>7, RingStartSimulates, RingRetireSimulates DEF Ring, Abstract!Next
<1>8. ASSUME UNCHANGED vars PROVE UNCHANGED Abstract!vars
  BY <1>8 DEF vars, timelineVars, gpuVars, execVars, Abstract!vars, Phase, Begun,
     Finished, Skipped, StartedNode, RetiredNode, Queue
<1>. QED
  BY <1>1, <1>2, <1>3, <1>4, <1>5, <1>6, <1>7, <1>8
  DEF Next, Cpu, Quiescent, Abstract!Next

\* What the simulation stands on is an invariant.
LEMMA StepRefineInv ==
  ASSUME \A g \in Graphs : OneForeignQueue(g), RefineInv, [Next]_vars
  PROVE  RefineInv'
<1>1. OrderInv' /\ ResultInv'
  BY StepOrderInv, StepResultInv DEF RefineInv
<1>2. IdleEmpty'
  <2>1. pc' = "idle" => UNCHANGED <<pc, graph>>
    BY DEF Next, Cpu, Begin, Acquire, Barrier, Dispatch, DispatchAccepted,
       DispatchRefused, DispatchRejected, CopyWait, EndWalk, Retire, Ring,
       Quiescent, execVars, vars
  <2>. QED
    BY <2>1 DEF RefineInv, IdleEmpty
<1>. QED
  BY <1>1, <1>2 DEF RefineInv

\* The multi-queue executor implements TaskGraph: whatever the overlap of the
\* rings, the barriers and the calls that fail, a client sees nodes begin only
\* after the producers that were not skipped have finished, a node skipped only
\* before it began, and a success only when every node has finished; on every
\* set of graphs whose consumers have their cross-queue producers on one queue.
THEOREM ExecutorImplements ==
  ASSUME \A g \in Graphs : OneForeignQueue(g)
  PROVE  Spec => ImplementsTaskGraph
<1>1. Init => RefineInv
  BY InitOrderInv, InitResultInv DEF RefineInv, IdleEmpty, Init
<1>2. RefineInv /\ [Next]_vars => RefineInv'
  BY StepRefineInv
<1>3. RefineInv /\ RefineInv' /\ [Next]_vars => [Abstract!Next]_(Abstract!vars)
  BY StepSimulates
<1>. QED
  BY <1>1, <1>2, <1>3, InitSimulates, PTL DEF Spec, ImplementsTaskGraph, Abstract!Spec
=============================================================================
