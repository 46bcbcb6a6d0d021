---------------------------- MODULE RenderGraph ----------------------------
(***************************************************************************)
(* Declaring and building a render graph (src/src/render_graph.cyr): the   *)
(* client adds nodes and transients, declares what each node reads and     *)
(* writes, and calls rg_build, which sorts the nodes with Kahn's           *)
(* algorithm, derives transient lifetimes, allocates the transients and,   *)
(* when asked, runs the planner of AliasPlan; rg_schedule then derives     *)
(* batches and fence edges, and rg_release gives the handles back.         *)
(*                                                                         *)
(* The module follows rg_build loop by loop: one step pops a ready node,   *)
(* one relaxes one of its write declarations.                              *)
(***************************************************************************)
EXTENDS RGSchedule, AliasPlan, Functions

CONSTANTS
  AddedKinds,     \* node kinds the client adds
  QueueCalls,     \* queues it passes to rg_node_queue
  Resources,      \* resource ids it declares: r is transient r + 1 if that exists
  Shapes,         \* transients it adds: [kind, w, h]
  Devices,        \* devices it builds with: "null" and "gpu"
  DeviceRefuses,  \* whether the device may refuse an allocation
  MaxNodes, MaxTransients, MaxReads, MaxWrites    \* bounds on the calls

ASSUME GraphCallsAssumption ==
  /\ AddedKinds \subseteq NodeKinds /\ QueueCalls \subseteq QueueKinds
  /\ Resources \subseteq Nat
  /\ Shapes \subseteq [kind : Kinds, w : Nat, h : Nat]
  /\ Devices \subseteq {"null", "gpu"} /\ DeviceRefuses \in BOOLEAN
  /\ {MaxNodes, MaxTransients, MaxReads, MaxWrites} \subseteq Nat

VARIABLES
  nodes,      \* the node vector
  aliasing,   \* the aliasing flag
  built,      \* the built flag
  sched,      \* the cached schedule
  handle,     \* per transient, what its handle field holds
  call,       \* the step of the call in progress
  device,     \* the device argument of that rg_build
  result,     \* what the last rg_build returned
  inDeg,      \* Kahn: remaining in-degree per position
  ready,      \* Kahn: the queue, positions still to be popped
  order,      \* Kahn: `sorted`, positions in drain order
  relax       \* Kahn: writes of the popped node still to be relaxed

sortVars == <<inDeg, ready, order, relax>>
graphVars == <<nodes, aliasing, built, sched, handle, call, device, result>>
rgVars == <<graphVars, sortVars, planVars>>

\* What a handle field holds: the label rg_add_transient_* stashed there, a
\* null pointer, a live GPU handle; then what rg_release made of it.
HandleStates == {"label", "null", "live", "freed", "misfreed"}
NoSchedule == {}    \* the cached schedule is a set of at most one

Positions == 1 .. Len(nodes)

NodeRecords == [id : Nat, kind : NodeKinds, queue : QueueKinds,
                reads : Seq(Resources), writes : Seq(Resources),
                sortIdx : Nat \cup {-1}]

\* The vector as rg_schedule and the executor see it: _rg_nodes_share_dep asks
\* only whether a resource occurs in a list.
AsSets(ns) == [i \in 1 .. Len(ns) |->
                 [queue |-> ns[i].queue, reads |-> Range(ns[i].reads),
                  writes |-> Range(ns[i].writes)]]
View == AsSets(nodes)

RGTypeOK ==
  /\ nodes \in Seq(NodeRecords)
  /\ aliasing \in BOOLEAN /\ built \in BOOLEAN
  /\ call \in {"none", "sort", "allocate", "plan"}
  /\ device \in Devices \cup {"null"} /\ result \in {"none", "ok", "cycle"}
  /\ handle \in [1 .. Len(transients) -> HandleStates]
  /\ inDeg \in Seq(Nat) /\ ready \in Seq(Positions) /\ order \in Seq(Positions)
  /\ relax \in Seq(Resources)
  /\ PlanTypeOK

RGInit ==
  /\ nodes = <<>> /\ aliasing = FALSE /\ built = FALSE
  /\ sched = NoSchedule /\ handle = <<>>
  /\ call = "none" /\ device = "null" /\ result = "none"
  /\ inDeg = <<>> /\ ready = <<>> /\ order = <<>> /\ relax = <<>>
  /\ transients = <<>> /\ PlanOff

-----------------------------------------------------------------------------
(* The client declares the graph.                                          *)

Declaring == call = "none" /\ ~built

AddNode(k) ==
  /\ Declaring /\ Len(nodes) < MaxNodes
  /\ nodes' = Append(nodes, [id |-> Len(nodes), kind |-> k, queue |-> DefaultQueue(k),
                             reads |-> <<>>, writes |-> <<>>, sortIdx |-> -1])
  /\ UNCHANGED <<aliasing, built, sched, handle, call, device, result, sortVars, planVars>>

\* rg_node_reads, rg_node_writes, rg_node_queue on an existing node id.
Declare(i) ==
  /\ Declaring
  /\ \/ \E r \in Resources :
          /\ Len(nodes[i].reads) < MaxReads
          /\ nodes' = [nodes EXCEPT ![i].reads = Append(@, r)]
     \/ \E r \in Resources :
          /\ Len(nodes[i].writes) < MaxWrites
          /\ nodes' = [nodes EXCEPT ![i].writes = Append(@, r)]
     \/ \E q \in QueueCalls : nodes' = [nodes EXCEPT ![i].queue = q]
  /\ UNCHANGED <<aliasing, built, sched, handle, call, device, result, sortVars, planVars>>

AddTransient(s) ==
  /\ Declaring /\ Len(transients) < MaxTransients
  /\ transients' = Append(transients, [kind |-> s.kind, w |-> s.w, h |-> s.h,
                                       first |-> Unused, last |-> Unused, offset |-> 0])
  /\ handle' = Append(handle, "label")
  /\ UNCHANGED <<nodes, aliasing, built, sched, call, device, result, sortVars,
                 plan, unplaced, slots, cursor, stats>>

SetAliasing ==
  /\ Declaring
  /\ aliasing' = TRUE
  /\ UNCHANGED <<nodes, built, sched, handle, call, device, result, sortVars, planVars>>

-----------------------------------------------------------------------------
(* rg_build.                                                               *)

\* Mutant: only writers inserted before the reader count (the order-dependent
\* inference of v2.5).
EdgesIntoInOrder(i) ==
  {e \in Positions \X (1 .. MaxWrites) \X DOMAIN nodes[i].reads :
     /\ e[1] < i /\ e[2] \in DOMAIN nodes[e[1]].writes
     /\ nodes[e[1]].writes[e[2]] = nodes[i].reads[e[3]]}

\* The edges into position i, one per matching pair of a write and a read
\* declaration: a resource listed twice counts twice.
EdgesInto(i) ==
  {e \in Positions \X (1 .. MaxWrites) \X DOMAIN nodes[i].reads :
     /\ e[1] # i /\ e[2] \in DOMAIN nodes[e[1]].writes
     /\ nodes[e[1]].writes[e[2]] = nodes[i].reads[e[3]]}

\* The positions of S in ascending order, as a loop over the nodes meets them.
Ascending(S) ==
  CHOOSE s \in [1 .. Cardinality(S) -> S] : \A j, k \in DOMAIN s : j < k => s[j] < s[k]

\* Reset, in-degrees and seeds; a graph without nodes is built at once.
BuildBegin(d) ==
  /\ Declaring
  /\ IF nodes = <<>>
       THEN /\ built' = TRUE
            /\ result' = "ok"
            /\ UNCHANGED <<nodes, call, device, sortVars>>
       ELSE /\ call' = "sort"
            /\ device' = d
            /\ nodes' = [i \in Positions |-> [nodes[i] EXCEPT !.sortIdx = -1]]
            /\ inDeg' = [i \in Positions |-> Cardinality(EdgesInto(i))]
            /\ ready' = Ascending({i \in Positions : EdgesInto(i) = {}})
            /\ order' = <<>>
            /\ relax' = <<>>
            /\ UNCHANGED <<built, result>>
  /\ UNCHANGED <<aliasing, sched, handle, planVars>>

Pop ==
  /\ call = "sort" /\ relax = <<>> /\ ready # <<>>
  /\ nodes' = [nodes EXCEPT ![Head(ready)].sortIdx = Len(order)]
  /\ order' = Append(order, Head(ready))
  /\ ready' = Tail(ready)
  /\ relax' = nodes[Head(ready)].writes
  /\ UNCHANGED <<aliasing, built, sched, handle, call, device, result, inDeg, planVars>>

\* Mutant: a resource listed twice is relaxed once.
MentionsOnce(i, r) == IF r \in Range(nodes[i].reads) THEN 1 ELSE 0

\* How often node i's reads name resource r.
Mentions(i, r) == Cardinality({a \in DOMAIN nodes[i].reads : nodes[i].reads[a] = r})

\* Mutant: the popped node relaxes its own reads too.
RelaxSelf ==
  /\ call = "sort" /\ relax # <<>>
  /\ inDeg' = [i \in Positions |-> inDeg[i] - Mentions(i, Head(relax))]
  /\ ready' = ready \o Ascending({i \in Positions : inDeg[i] > 0 /\ inDeg'[i] <= 0})
  /\ relax' = Tail(relax)
  /\ UNCHANGED <<graphVars, order, planVars>>

\* Mutant: a reader is queued as soon as its first writer has drained.
RelaxEager ==
  /\ call = "sort" /\ relax # <<>>
  /\ LET cur == order[Len(order)]
         left(i) == IF i = cur THEN inDeg[i] ELSE inDeg[i] - Mentions(i, Head(relax))
     IN /\ inDeg' = [i \in Positions |-> left(i)]
        /\ ready' = ready \o Ascending({i \in Positions : left(i) < inDeg[i]})
  /\ relax' = Tail(relax)
  /\ UNCHANGED <<graphVars, order, planVars>>

\* One write declaration of the popped node: every other node that reads the
\* resource loses that many edges, and joins the queue when none is left.
Relax ==
  /\ call = "sort" /\ relax # <<>>
  /\ LET cur == order[Len(order)]
         left(i) == IF i = cur THEN inDeg[i] ELSE inDeg[i] - Mentions(i, Head(relax))
     IN /\ inDeg' = [i \in Positions |-> left(i)]
        /\ ready' = ready \o Ascending({i \in Positions : inDeg[i] > 0 /\ left(i) <= 0})
  /\ relax' = Tail(relax)
  /\ UNCHANGED <<graphVars, order, planVars>>

Drained == call = "sort" /\ relax = <<>> /\ ready = <<>>

\* Mutant: what was drained is installed before the cycle is noticed.
RejectInstalls ==
  /\ Drained
  /\ Len(order) < Len(nodes)
  /\ nodes' = [k \in Positions |-> IF k <= Len(order) THEN nodes[order[k]] ELSE nodes[k]]
  /\ call' = "none"
  /\ result' = "cycle"
  /\ UNCHANGED <<aliasing, built, sched, handle, device, sortVars, planVars>>

\* Fewer nodes drained than there are: a cycle.  The vector keeps its order.
Reject ==
  /\ Drained
  /\ Len(order) < Len(nodes)
  /\ call' = "none"
  /\ result' = "cycle"
  /\ UNCHANGED <<nodes, aliasing, built, sched, handle, device, sortVars, planVars>>

\* Mutant: the lifetime scan forgets the writes.
UsesOfReads(r) ==
  {nodes[i].sortIdx : i \in {j \in Positions : r \in Range(nodes[j].reads)}}

\* The sort indices of the nodes that mention resource r, and how the scan
\* over the nodes widens the lifetime of the transient behind it.
UsesOf(r) == {nodes[i].sortIdx : i \in {j \in Positions :
                r \in Range(nodes[j].reads) \cup Range(nodes[j].writes)}}
Widen(t, uses) ==
  LET all == uses \cup ({t.first, t.last} \ {Unused})
  IN IF all = {} THEN t
     ELSE [t EXCEPT !.first = CHOOSE u \in all : \A v \in all : u <= v,
                    !.last = CHOOSE u \in all : \A v \in all : v <= u]

\* The sorted order is installed and the lifetimes are scanned.
Install ==
  /\ Drained
  /\ Len(order) >= Len(nodes)
  /\ nodes' = [k \in Positions |-> nodes[order[k]]]
  /\ transients' = [t \in 1 .. Len(transients) |-> Widen(transients[t], UsesOf(t - 1))]
  /\ call' = "allocate"
  /\ UNCHANGED <<aliasing, built, sched, handle, device, result, sortVars,
                 plan, unplaced, slots, cursor, stats>>

\* _rg_alloc_transient for each (a null device skips it, and what the device
\* refused is a null handle nobody looks at), the built flag, the auto-plan.
Allocate ==
  /\ call = "allocate"
  /\ handle' \in IF device = "null" THEN {handle}
                 ELSE [1 .. Len(transients) ->
                         {"live"} \cup IF DeviceRefuses THEN {"null"} ELSE {}]
  /\ built' = TRUE
  /\ result' = "ok"
  /\ IF aliasing THEN call' = "plan" /\ StartPlan
                 ELSE call' = "none" /\ UNCHANGED planVars
  /\ UNCHANGED <<nodes, aliasing, sched, device, sortVars>>

\* rg_plan_aliasing_stats from rg_build or from the client; the planner's own
\* loops are AliasPlan's steps.
PlanStats ==
  /\ call = "none" /\ built
  /\ call' = "plan"
  /\ StartPlan
  /\ UNCHANGED <<nodes, aliasing, built, sched, handle, device, result, sortVars>>

Plan ==
  /\ call = "plan"
  /\ PlanStep
  /\ call' = IF plan' = "done" THEN "none" ELSE "plan"
  /\ UNCHANGED <<nodes, aliasing, built, sched, handle, device, result, sortVars>>

\* rg_schedule: computed once, from the sorted vector.
Schedule ==
  /\ call = "none" /\ built /\ sched = NoSchedule
  /\ sched' = {[batches |-> [k \in BatchKinds(View) |->
                               {i \in Positions : nodes[i].queue = k}],
                fences |-> FenceEdges(View)]}
  /\ UNCHANGED <<nodes, aliasing, built, handle, call, device, result, sortVars, planVars>>

\* rg_release, once and after an rg_build: whatever non-null value the handle
\* field holds goes to the wgpu release call.
Release ==
  /\ call = "none" /\ result # "none"
  /\ {handle[t] : t \in DOMAIN handle} \cap {"freed", "misfreed"} = {}
  /\ handle' = [t \in DOMAIN handle |->
                  IF handle[t] = "null" THEN "null"
                  ELSE IF handle[t] = "live" THEN "freed" ELSE "misfreed"]
  /\ UNCHANGED <<nodes, aliasing, built, sched, call, device, result, sortVars, planVars>>

ClientCall ==
  \/ \E k \in AddedKinds : AddNode(k)
  \/ \E i \in Positions : Declare(i)
  \/ \E s \in Shapes : AddTransient(s)
  \/ SetAliasing \/ PlanStats \/ Schedule \/ Release
  \/ \E d \in Devices : BuildBegin(d)

RGNext == ClientCall \/ Pop \/ Relax \/ Reject \/ Install \/ Allocate \/ Plan

RGSpec == RGInit /\ [][RGNext]_rgVars

-----------------------------------------------------------------------------
\* A graph rg_build accepted is in dependency order, numbered by position, and
\* still holds every node the client added, each once.
BuiltIsSorted ==
  built => /\ Sorted(View)
           /\ \A i \in Positions : nodes[i].sortIdx = i - 1
           /\ {nodes[i].id : i \in Positions} = 0 .. Len(nodes) - 1

\* "Only a genuine cycle fails": whenever rg_build returned 1 there are nodes
\* each of which depends on another of them.
RejectsOnlyCycles ==
  result = "cycle" =>
    \E S \in (SUBSET Positions) \ {{}} :
      \A i \in S : \E p \in S : <<p, i>> \in Deps(View)

\* An edge is relaxed when its writer was popped and its write handled.
Relaxed(e) ==
  /\ e[1] \in Range(order)
  /\ ~(e[1] = order[Len(order)] /\ e[2] > Len(nodes[e[1]].writes) - Len(relax))
Unrelaxed(i) == {e \in EdgesInto(i) : ~Relaxed(e)}

\* Inside the drain of rg_build the counts are exact: what is left of a node's
\* in-degree are its edges from writes not yet relaxed, and the queue holds
\* exactly the nodes without any that were not popped, each once.
KahnExact ==
  call = "sort" =>
    /\ \A i \in Positions : inDeg[i] = Cardinality(Unrelaxed(i))
    /\ Range(ready) = {i \in Positions \ Range(order) : inDeg[i] = 0}
    /\ IsInjective(order \o ready)

\* Every dependency of a scheduled graph is kept by submission order on one
\* queue or by a recorded fence edge, and every node is in one batch.
ScheduleCoversDeps ==
  \A s \in sched :
    /\ \A e \in Deps(View) :
         \/ e[1] < e[2] /\ View[e[1]].queue = View[e[2]].queue
         \/ e \in s.fences
    /\ \A i \in Positions :
         Cardinality({k \in DOMAIN s.batches : i \in s.batches[k]}) = 1

\* The nodes that mention transient t, and whether two transients share a byte.
Users(t) == {i \in Positions : t - 1 \in Range(nodes[i].reads) \cup Range(nodes[i].writes)}
ShareBytes(t, u) == ~DisjointBytes(t, u)

\* Running a planned graph in sort order, a consumer that binds every transient
\* at its offset never lets two transients hold the same bytes at once: the
\* users of one are all done before the first user of the other.
PlannedBytesSafe ==
  call = "none" /\ plan = "done" =>
    \A t, u \in 1 .. Len(transients) :
      t # u /\ Users(t) # {} /\ Users(u) # {} /\ ShareBytes(t, u) =>
        \/ \A i \in Users(t), j \in Users(u) : i < j
        \/ \A i \in Users(t), j \in Users(u) : j < i

\* A rejected build leaves the node order and the transients as the client
\* declared them, so ids still name their nodes and nothing looks planned.
RejectedGraphIntact ==
  result = "cycle" /\ call = "none" =>
    /\ \A i \in Positions : nodes[i].id = i - 1
    /\ \A t \in 1 .. Len(transients) : transients[t].first = Unused
    /\ ~built

-----------------------------------------------------------------------------
(* The inductive strengthening of these invariants (RenderGraphProofs).    *)

\* The sorted vector stands from the end of the drain on.
Installed == built \/ call \in {"allocate", "plan"}

CallsInOrder ==
  /\ call \in {"sort", "allocate"} => ~built
  /\ call = "plan" => built
  /\ ~built => PlanOff

\* The writes still to be relaxed are the last ones of the node popped last,
\* and nodes were popped in dependency order.
DrainInOrder ==
  call = "sort" =>
    /\ Len(inDeg) = Len(nodes)
    /\ relax # <<>> => order # <<>>
    /\ order # <<>> =>
         LET w == nodes[order[Len(order)]].writes
         IN /\ Len(relax) <= Len(w)
            /\ \A k \in DOMAIN relax : relax[k] = w[Len(w) - Len(relax) + k]
    /\ \A k \in DOMAIN order :
         /\ nodes[order[k]].sortIdx = k - 1
         /\ \A p \in Positions :
              <<p, order[k]>> \in Deps(View) => \E j \in 1 .. k - 1 : order[j] = p

\* Until then the vector and the transients are as the client declared them.
AsDeclared ==
  /\ \A i \in Positions : Len(nodes[i].writes) <= MaxWrites
  /\ ~Installed =>
       /\ \A i \in Positions : nodes[i].id = i - 1
       /\ \A t \in 1 .. Len(transients) :
            transients[t].first = Unused /\ transients[t].last = Unused

\* From then on the vector is sorted and a transient is alive where it is used.
SortedOnceInstalled ==
  Installed =>
    /\ Sorted(View)
    /\ \A i \in Positions : nodes[i].sortIdx = i - 1
    /\ {nodes[i].id : i \in Positions} = 0 .. Len(nodes) - 1
    /\ \A t \in 1 .. Len(transients) : \A i \in Users(t) :
         /\ transients[t].first # Unused
         /\ transients[t].first <= i - 1 /\ i - 1 <= transients[t].last

\* No node of a cycle is ever popped.
CycleStays ==
  result = "cycle" =>
    /\ ~Installed
    /\ \E S \in (SUBSET Positions) \ {{}} :
         /\ \A i \in S : \E p \in S : <<p, i>> \in Deps(View)
         /\ call = "sort" => S \cap Range(order) = {}

\* A schedule is the one of the sorted vector.
ScheduleCurrent ==
  \A s \in sched :
    /\ built
    /\ s = [batches |-> [k \in BatchKinds(View) |-> {i \in Positions : nodes[i].queue = k}],
            fences |-> FenceEdges(View)]

RGIInv ==
  /\ RGTypeOK /\ PlanIInv /\ CallsInOrder /\ AsDeclared
  /\ DrainInOrder /\ KahnExact
  /\ SortedOnceInstalled /\ CycleStays /\ ScheduleCurrent

-----------------------------------------------------------------------------
(* What the documentation says and the code does not do.                   *)

\* "the graph owns them between rg_build and rg_release": rg_release hands the
\* wgpu library only handles rg_build got from it (also after a failed build).
ReleasesOnlyHandles == "misfreed" \notin {handle[t] : t \in DOMAIN handle}
=============================================================================
