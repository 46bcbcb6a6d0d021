--------------------------- MODULE GraphExecutor ---------------------------
(***************************************************************************)
(* The native multi-queue render-graph executor, _rg_execute_native_mq of  *)
(* src/src/render_graph.cyr, driving the queue layer of QueueTimeline.     *)
(*                                                                         *)
(* A client executes built graphs one after the other (a frame loop).  One *)
(* execution acquires a queue per batch, walks the nodes in sort order,    *)
(* records a barrier per incoming fence edge, dispatches the node on its   *)
(* queue, moves to the next IB slice, and at the end waits for every queue *)
(* it used.  The first failure is remembered and the walk goes on.         *)
(***************************************************************************)
EXTENDS QueueTimeline

CONSTANTS
  Graphs,   \* the built graphs a client may execute
  MaxRuns   \* bound: how many executions the client starts

\* A node as the executor sees it: `args` says whether the dispatch slot
\* accepts what the client put into the payload, refuses it before staging
\* anything ("rejected": a null handle, a workgroup count out of range, a copy
\* offset), or finds an SDMA copy that overflows the slice ("overflow").
Nodes == [kind : NodeKinds, queue : QueueKinds, reads : SUBSET Nat,
          writes : SUBSET Nat, args : {"ok", "rejected", "overflow"}]

ASSUME GraphsAssumption == \A g \in Graphs : g \in Seq(Nodes) /\ Sorted(g)
ASSUME MaxRunsAssumption == MaxRuns \in Nat

VARIABLES
  graph,      \* the node vector being executed
  pc,         \* where the execution is
  node,       \* position of the node being handled
  fence,      \* the fence edges of that node from producers below it are done
  todo,       \* batch kinds still to be acquired, then still to be retired
  rc,         \* FALSE until some call of this execution failed
  runs,       \* executions started
  nodePoint   \* (history) the point each node's submission signals, 0 if none

execVars == <<graph, pc, node, fence, todo, rc, runs, nodePoint>>
vars == <<timelineVars, execVars>>

PcLabels == {"idle", "acquire", "walk", "copywait", "retire", "returned"}

ExecTypeOK ==
  /\ graph \in Seq(Nodes) /\ Sorted(graph)
  /\ pc \in PcLabels
  /\ node \in Nat \ {0}
  /\ fence \in Nat \ {0}
  /\ todo \subseteq BatchKinds(graph)
  /\ rc \in BOOLEAN
  /\ runs \in 0 .. MaxRuns
  /\ nodePoint \in [1 .. Len(graph) -> Nat]

\* Every variable stays in its type: the slice cursor inside the IB buffer,
\* the queues acquired and retired those of the graph's batches.
TypeOK == TimelineTypeOK /\ ExecTypeOK

Init ==
  /\ TimelineInit
  /\ graph = <<>>
  /\ pc = "idle"
  /\ node = 1
  /\ fence = 1
  /\ todo = {}
  /\ rc = FALSE
  /\ runs = 0
  /\ nodePoint = [i \in 1 .. 0 |-> 0]

-----------------------------------------------------------------------------
Queue(i) == graph[i].queue

\* rg_execute_mq reaches the native executor with a built, scheduled graph.
\* An empty one returns at once; otherwise the slice cursor is reset.
Begin(g) ==
  /\ pc \in {"idle", "returned"}
  /\ runs < MaxRuns
  /\ runs' = runs + 1
  /\ graph' = g
  /\ nodePoint' = [i \in 1 .. Len(g) |-> 0]
  /\ rc' = FALSE
  /\ node' = 1
  /\ fence' = 1
  /\ todo' = BatchKinds(g)
  /\ IF g = <<>>
       THEN pc' = "returned" /\ UNCHANGED cursor
       ELSE pc' = "acquire" /\ cursor' = 0
  /\ UNCHANGED <<live, point, pendOn, pendPt, current, ib, gpuVars>>

\* gpu_queue_get for the next batch kind; a null queue ends the execution.
Acquire ==
  /\ pc = "acquire"
  /\ todo # {}
  /\ LET k == NextBatch(graph, todo)
     IN \/ /\ QueueGet(k)
           /\ todo' = todo \ {k}
           /\ pc' = IF todo = {k} THEN "walk" ELSE "acquire"
           /\ UNCHANGED rc
        \/ /\ QueueGetFails(k)
           /\ pc' = "returned"
           /\ rc' = TRUE
           /\ UNCHANGED todo
  /\ UNCHANGED <<graph, node, fence, runs, nodePoint>>

\* The producers whose fence edge into the current node is still to be handled.
FencesLeft == {p \in 1 .. node - 1 : p >= fence /\ <<p, node>> \in FenceEdges(graph)}

\* Mutant: the fence cursor is not moved past the edge.
BarrierAgain ==
  /\ pc = "walk"
  /\ node <= Len(graph)
  /\ \E p \in FencesLeft :
       /\ \A o \in FencesLeft : p <= o
       /\ QueueBarrier(Queue(p), Queue(node))
       /\ fence' = p
  /\ UNCHANGED <<graph, pc, node, todo, rc, runs, nodePoint>>

\* The fence vector is in ascending producer order for a given consumer.
Barrier ==
  /\ pc = "walk"
  /\ node <= Len(graph)
  /\ \E p \in FencesLeft :
       /\ \A o \in FencesLeft : p <= o
       /\ QueueBarrier(Queue(p), Queue(node))
       /\ fence' = p + 1
  /\ UNCHANGED <<graph, pc, node, todo, rc, runs, nodePoint>>

\* The dispatch slot a node kind reaches takes only some rings.
Routed(n) ==
  \/ n.kind = "compute" /\ n.queue # "TRANSFER"
  \/ n.kind = "render" /\ n.queue = "GRAPHICS"
  \/ n.kind = "copy_buf_buf" /\ n.queue = "TRANSFER"

\* native_ctx_ib_advance and the loop increment.
Advance ==
  /\ cursor' = NextSlot(cursor)
  /\ node' = node + 1
  /\ fence' = 1

\* The node was dispatched and the submission accepted.  A copy then blocks
\* in gpu_queue_wait_idle before its slot returns.
DispatchAccepted ==
  /\ SubmitAccepted(Queue(node))
  /\ nodePoint' = [nodePoint EXCEPT ![node] = point[Queue(node)] + 1]
  /\ IF graph[node].kind = "copy_buf_buf"
       THEN pc' = "copywait" /\ UNCHANGED <<cursor, node, fence>>
       ELSE UNCHANGED pc /\ Advance
  /\ UNCHANGED rc

\* The kernel refused the submission after the point was bumped.
DispatchRefused ==
  /\ SubmitRefused(Queue(node))
  /\ rc' = TRUE
  /\ Advance
  /\ UNCHANGED <<pc, nodePoint>>

\* Mutant: a slot's error is dropped.
DispatchRejectedSilently ==
  /\ UNCHANGED <<ib, point, pendOn, pendPt, gpuVars, rc>>
  /\ Advance
  /\ UNCHANGED <<pc, nodePoint>>

\* The slot returned an error before it touched the queue.
DispatchRejected ==
  /\ IF /\ graph[node].kind = "copy_buf_buf"
        /\ Routed(graph[node])
        /\ graph[node].args = "overflow"
       THEN ClearSlice
       ELSE UNCHANGED <<ib, point, pendOn, pendPt, gpuVars>>
  /\ rc' = TRUE
  /\ Advance
  /\ UNCHANGED <<pc, nodePoint>>

Dispatch ==
  /\ pc = "walk"
  /\ node <= Len(graph)
  /\ FencesLeft = {}
  /\ current' = Queue(node)
  /\ IF Routed(graph[node]) /\ graph[node].args = "ok"
       THEN DispatchAccepted \/ DispatchRefused
       ELSE DispatchRejected
  /\ UNCHANGED <<live, graph, todo, runs>>

\* A copy node's wait_idle returns; its result is the node's result.
CopyWait ==
  /\ pc = "copywait"
  /\ \/ WaitSucceeds(Queue(node)) /\ UNCHANGED rc
     \/ WaitFails(Queue(node)) /\ rc' = TRUE
  /\ pc' = "walk"
  /\ Advance
  /\ UNCHANGED <<live, point, pendOn, pendPt, current, ib, gpuVars, graph, todo,
                 runs, nodePoint>>

\* The walk is over: the stash is cleared and the batches are visited again.
EndWalk ==
  /\ pc = "walk"
  /\ node > Len(graph)
  /\ current' = NoQueue
  /\ todo' = BatchKinds(graph)
  /\ pc' = "retire"
  /\ UNCHANGED <<live, point, pendOn, pendPt, cursor, ib, gpuVars, graph, node,
                 fence, rc, runs, nodePoint>>

\* gpu_queue_wait_idle on the next used queue; after the last one, return.
Retire ==
  /\ pc = "retire"
  /\ todo # {}
  /\ LET k == NextBatch(graph, todo)
     IN /\ \/ WaitSucceeds(k) /\ UNCHANGED rc
           \/ WaitFails(k) /\ rc' = TRUE
        /\ todo' = todo \ {k}
        /\ pc' = IF todo = {k} THEN "returned" ELSE "retire"
  /\ UNCHANGED <<timelineVars, graph, node, fence, runs, nodePoint>>

\* The client stopped (the bound) and the rings are empty.
Quiescent ==
  /\ pc \in {"idle", "returned"}
  /\ runs = MaxRuns
  /\ inflight = {}
  /\ UNCHANGED vars

Cpu == \/ Acquire \/ Barrier \/ Dispatch \/ CopyWait \/ EndWalk \/ Retire
Ring(q) == (RingStart(q) \/ RingRetire(q)) /\ UNCHANGED execVars

Next ==
  \/ \E g \in Graphs : Begin(g)
  \/ Cpu
  \/ \E q \in QueueKinds : Ring(q)
  \/ Quiescent

Spec == Init /\ [][Next]_vars

\* The CPU thread is scheduled whenever a call can return, and a ring with a
\* runnable job runs it.  Nothing makes the client start another execution.
FairSpec ==
  Spec /\ WF_vars(Cpu) /\ \A q \in QueueKinds : WF_vars(Ring(q))

-----------------------------------------------------------------------------
StartedNode(i) == nodePoint[i] # 0 /\ started[Queue(i)] >= nodePoint[i]
RetiredNode(i) == nodePoint[i] # 0 /\ signalled[Queue(i)] >= nodePoint[i]

\* No node starts on its ring before every submitted node it depends on has
\* retired, whatever the rings (the barriers of _rg_execute_native_mq across
\* queues, submission order within one).
DependencyOrder ==
  \A e \in Deps(graph) :
    StartedNode(e[2]) /\ nodePoint[e[1]] # 0 => RetiredNode(e[1])

\* _rg_execute_native_mq returns 0 only with every node of the graph executed:
\* the completion contract, whichever calls failed on the way.
CompletionContract ==
  pc = "returned" /\ ~rc => \A i \in 1 .. Len(graph) : RetiredNode(i)

\* A queue whose accepted work has all retired is idle: wait_idle on it can
\* return 0.
DrainedQueueIsIdle ==
  \A k \in live : signalled[k] = submitted[k] => WaitSucceeds(k)

\* Every execution returns, however the cross-ring waits are nested.
EveryRunReturns ==
  (pc \notin {"idle", "returned"}) ~> (pc = "returned")

-----------------------------------------------------------------------------
\* The execution as TaskGraph sees it.
Phase == IF pc = "idle" THEN "idle"
         ELSE IF pc # "returned" THEN "running"
         ELSE IF rc THEN "failed" ELSE "ok"

Begun == {i \in 1 .. Len(graph) : StartedNode(i)}
Finished == {i \in 1 .. Len(graph) : RetiredNode(i)}
Skipped == {i \in 1 .. Len(graph) : nodePoint[i] = 0 /\ i < node /\ pc # "idle"}

Abstract == INSTANCE TaskGraph WITH
  phase <- Phase, begun <- Begun, finished <- Finished, skipped <- Skipped

\* The executor implements TaskGraph: overlapping ring execution, barriers and
\* failures never show a client anything but dependency order and an honest
\* result.
ImplementsTaskGraph == Abstract!Spec
=============================================================================
