------------------------- MODULE GraphExecutorInv -------------------------
(***************************************************************************)
(* The inductive strengthenings behind the theorems about GraphExecutor.   *)
(* They are state predicates of their own module so that TLC can check     *)
(* them before they are proved (GraphExecutorProofs).                      *)
(***************************************************************************)
EXTENDS GraphExecutor

\* A ring that is busy runs a job the kernel still holds, its oldest.
RingsRunOldest ==
  \A q \in QueueKinds :
    started[q] # signalled[q] =>
      /\ \E j \in inflight : j.q = q /\ j.pt = started[q]
      /\ \A j \in inflight : j.q = q => started[q] <= j.pt

\* The walk has submitted only nodes it has reached, each at a point its
\* queue's timeline has accepted; one that is not yet signalled is in flight.
NodePointsReached ==
  \A i \in 1 .. Len(graph) :
    nodePoint[i] # 0 =>
      /\ i < node \/ (i = node /\ pc = "copywait")
      /\ nodePoint[i] <= submitted[Queue(i)]
      /\ signalled[Queue(i)] < nodePoint[i] =>
           \E j \in inflight : j.q = Queue(i) /\ j.pt = nodePoint[i]

\* Submission order on one queue is point order.
NodePointsAscend ==
  \A i, k \in 1 .. Len(graph) :
    i < k /\ Queue(i) = Queue(k) /\ nodePoint[i] # 0 /\ nodePoint[k] # 0 =>
      nodePoint[i] < nodePoint[k]

\* The barriers recorded so far for the current node cover its producers,
\* until its own submission consumes them.
PendingCovers ==
  pc # "copywait" /\ node <= Len(graph) =>
    \A p \in 1 .. Len(graph) :
      p < fence /\ <<p, node>> \in FenceEdges(graph) /\ nodePoint[p] # 0 =>
        pendOn[Queue(node)] = Queue(p) /\ pendPt[Queue(node)] >= nodePoint[p]

\* The in-CS wait a node's job carries covers its producers.
JobWaitCovers ==
  \A j \in inflight : \A i \in 1 .. Len(graph) :
    Queue(i) = j.q /\ nodePoint[i] = j.pt =>
      \A p \in 1 .. Len(graph) :
        <<p, i>> \in FenceEdges(graph) /\ nodePoint[p] # 0 =>
          j.on = Queue(p) /\ j.wpt >= nodePoint[p]

TimelineInv == TypeOK /\ TimelineOrder /\ RingsRunOldest

OrderInv ==
  /\ TimelineInv
  /\ OneForeignQueue(graph)
  /\ NodePointsReached
  /\ NodePointsAscend
  /\ PendingCovers
  /\ JobWaitCovers
  /\ DependencyOrder

-----------------------------------------------------------------------------
\* A node's point is one its queue has reached.
NodePointsBumped ==
  \A i \in 1 .. Len(graph) : nodePoint[i] <= point[Queue(i)]

\* While nothing has failed, every node behind the walk was submitted, the
\* walk ends past the last node, and every queue already visited at the end
\* has retired its nodes.
NothingSkipped ==
  ~rc => \A i \in 1 .. Len(graph) : i < node => nodePoint[i] # 0
WalkComplete ==
  /\ pc = "copywait" => node <= Len(graph) /\ nodePoint[node] # 0
  /\ pc = "retire" => node > Len(graph)
  /\ pc = "returned" /\ ~rc => node > Len(graph) /\ todo = {}
VisitedRetired ==
  pc \in {"retire", "returned"} /\ ~rc =>
    \A i \in 1 .. Len(graph) : Queue(i) \notin todo => RetiredNode(i)

ResultInv ==
  /\ TimelineInv
  /\ NodePointsBumped
  /\ NothingSkipped
  /\ WalkComplete
  /\ VisitedRetired
-----------------------------------------------------------------------------
\* While no submission is refused, every point bumped carries a fence, and so
\* does every point a pending wait names: the kernel can resolve it.
PointsFenced ==
  \A k \in QueueKinds :
    /\ point[k] = submitted[k]
    /\ pendOn[k] # NoQueue => pendPt[k] <= submitted[pendOn[k]]

FencedInv == TimelineInv /\ PointsFenced

-----------------------------------------------------------------------------
\* The graph executed has no more nodes than the IB buffer has slices, and the
\* cursor stands at the node being handled: the walk never wraps it.
GraphFits == Len(graph) <= Slots
CursorAtNode ==
  (pc \in {"acquire", "walk"} /\ node <= Len(graph)) \/ pc = "copywait" =>
    cursor = node - 1 /\ node <= Len(graph)

\* Every job in flight was staged in a slice the walk has left behind (or, of
\* a copy that is waited for, in the current one).
StagedBehind ==
  \A j \in inflight : /\ pc = "walk" => j.slice < node - 1
                      /\ pc = "copywait" => j.slice < node

\* An execution resets the cursor only over an empty IB buffer: the first one
\* finds no job, and a later one finds none if every execution before it waited
\* for all the queues it used.
QuietStart == pc \in {"idle", "acquire"} => inflight = {}
RunCounted == pc # "idle" => runs # 0
UsedQueuesWaited ==
  \A j \in inflight : /\ pc \in {"walk", "copywait"} => j.q \in BatchKinds(graph)
                      /\ pc = "retire" => j.q \in todo
                      /\ pc # "returned"

StreamInv ==
  /\ TimelineInv
  /\ StagedStreamIntact
  /\ GraphFits
  /\ CursorAtNode
  /\ StagedBehind
  /\ QuietStart
  /\ RunCounted
  /\ MaxRuns > 1 => PointsFenced /\ UsedQueuesWaited

-----------------------------------------------------------------------------
\* What the step simulation of TaskGraph stands on.  Before the first
\* execution there is no graph.
IdleEmpty == pc = "idle" => graph = <<>>

RefineInv == OrderInv /\ ResultInv /\ IdleEmpty
=============================================================================
