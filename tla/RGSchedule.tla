----------------------------- MODULE RGSchedule -----------------------------
(***************************************************************************)
(* The pure part of rg_schedule (src/src/render_graph.cyr): what the       *)
(* multi-queue executor reads about an already sorted node vector.  A node *)
(* vector is a sequence of node records; position i stands for sort_idx    *)
(* i - 1.  Nothing here is state: the operators are functions of the       *)
(* vector, evaluated by the executor module and by the builder module.     *)
(***************************************************************************)
EXTENDS Integers, Sequences, FiniteSets

\* The QUEUE_KIND_* constants and "no queue" (a null Queue pointer).
QueueKinds == {"GRAPHICS", "COMPUTE", "TRANSFER"}
NoQueue == "none"

\* The NODE_* constants.
NodeKinds == {"compute", "render", "copy_buf_buf", "copy_tex_buf"}

\* The default affinity _rg_node_new gives a node of kind k.
DefaultQueue(k) == IF k = "compute" THEN "COMPUTE" ELSE "GRAPHICS"

\* _rg_nodes_share_dep: some resource written by w is read by r.
SharesDep(w, r) == w.writes \cap r.reads # {}

\* The dependencies of a vector: the writer -> reader pairs, by position.
Deps(nodes) == {e \in (1 .. Len(nodes)) \X (1 .. Len(nodes)) :
                   e[1] # e[2] /\ SharesDep(nodes[e[1]], nodes[e[2]])}

\* Every producer stands before its consumers: what rg_build establishes.
Sorted(nodes) == \A e \in Deps(nodes) : e[1] < e[2]

\* Mutant: the reader scan starts one node too far.
FenceEdgesSkip(nodes) ==
  {e \in Deps(nodes) : e[1] + 1 < e[2] /\ nodes[e[1]].queue # nodes[e[2]].queue}

\* The fence edges of rg_schedule: it scans forward only, keeps the pairs
\* whose queues differ, and records a pair once however many resources it
\* shares (_rg_fence_exists), so a set of pairs is exactly the fence vector.
FenceEdges(nodes) ==
  {e \in Deps(nodes) : e[1] < e[2] /\ nodes[e[1]].queue # nodes[e[2]].queue}

\* Every consumer has its cross-queue producers on one queue: the graphs the
\* one pending-wait slot of a queue is enough for.
OneForeignQueue(nodes) ==
  \A e, f \in FenceEdges(nodes) :
    e[2] = f[2] => nodes[e[1]].queue = nodes[f[1]].queue

\* The queue kinds that get a batch, and the position whose node opens it.
BatchKinds(nodes) == {nodes[i].queue : i \in 1 .. Len(nodes)}
BatchOpener(nodes, k) ==
  CHOOSE i \in 1 .. Len(nodes) :
    nodes[i].queue = k /\ \A j \in 1 .. Len(nodes) : nodes[j].queue = k => i <= j

\* The executor walks the batch vector in order; of the kinds still to be
\* visited the next is the one whose batch was opened first.
NextBatch(nodes, todo) ==
  CHOOSE k \in todo :
    \A l \in todo : BatchOpener(nodes, k) <= BatchOpener(nodes, l)
=============================================================================
