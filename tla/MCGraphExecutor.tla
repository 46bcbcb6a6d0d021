-------------------------- MODULE MCGraphExecutor --------------------------
(***************************************************************************)
(* Small instances of GraphExecutor.  Node i writes resource i and reads   *)
(* what the chosen dependency relation says, so every dependency relation  *)
(* over MaxNodes nodes and every assignment of queues occurs.              *)
(***************************************************************************)
EXTENDS GraphExecutorInv

CONSTANT MaxNodes

\* The node kind a client runs on a queue.
KindOn(q) == IF q = "TRANSFER" THEN "copy_buf_buf"
             ELSE IF q = "GRAPHICS" THEN "render" ELSE "compute"

GraphOf(n, queueOf, deps) ==
  [i \in 1 .. n |->
     [kind |-> KindOn(queueOf[i]), queue |-> queueOf[i],
      reads |-> {p \in 1 .. i - 1 : <<p, i>> \in deps}, writes |-> {i},
      args |-> "ok"]]

ForwardPairs(n) == {e \in (1 .. n) \X (1 .. n) : e[1] < e[2]}

GraphsOfSize(n) ==
  {GraphOf(n, q, d) : q \in [1 .. n -> QueueKinds], d \in SUBSET ForwardPairs(n)}

AllGraphs == UNION {GraphsOfSize(n) : n \in 0 .. MaxNodes}

\* A producer, two middle nodes that may overlap, and their consumer.
DiamondGraphs ==
  {GraphOf(4, q, {<<1, 2>>, <<1, 3>>, <<2, 4>>, <<3, 4>>}) :
     q \in [1 .. 4 -> QueueKinds]}

OneForeignGraphs == {g \in AllGraphs \cup DiamondGraphs : OneForeignQueue(g)}
\* The same without the diamonds, for several executions in a row.
OneForeignGraphs2 == {g \in AllGraphs : OneForeignQueue(g)}

\* A graph whose node i the dispatch slot turns down.
WithArgs(g, i, a) == [g EXCEPT ![i].args = a]
\* A graph whose node i is sent to a ring its slot does not take.
Misrouted(g, i) == [g EXCEPT ![i].kind = "copy_tex_buf"]

\* Two nodes, each of them good, refused or misrouted, and the three-node
\* chains and joins with every call on the way able to fail.
FaultyGraphs ==
  LET pairs == GraphsOfSize(2)
      triples == {GraphOf(3, q, d) : q \in [1 .. 3 -> QueueKinds],
                                     d \in {{<<1, 2>>, <<2, 3>>}, {<<1, 3>>, <<2, 3>>}}}
  IN pairs
     \cup {WithArgs(g, i, "rejected") : g \in pairs, i \in 1 .. 2}
     \cup {g \in {WithArgs(h, i, "overflow") : h \in pairs, i \in 1 .. 2} :
             \A i \in 1 .. 2 : g[i].args = "overflow" => g[i].kind = "copy_buf_buf"}
     \cup {Misrouted(g, i) : g \in pairs, i \in 1 .. 2}
     \cup {g \in triples : OneForeignQueue(g)}
\* Everything at once: the good graphs and the faulty ones.
AnyGraphs == OneForeignGraphs \cup FaultyGraphs
=============================================================================
