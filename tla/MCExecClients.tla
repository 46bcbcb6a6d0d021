--------------------------- MODULE MCExecClients ---------------------------
(***************************************************************************)
(* Three clients of the executor.  The faulty one executes one graph, good *)
(* or bad, while any call may fail at any time.  For the other two no call *)
(* fails that can succeed: above all no wait times out, so rings that wait *)
(* for each other would keep an execution from returning.  The large one   *)
(* executes a graph of any size and one of up to two nodes after it, the   *)
(* loop three of up to two nodes in a row.                                 *)
(***************************************************************************)
EXTENDS MCGraphExecutor

VARIABLE client

clientVars == <<vars, client>>

ClientInit == Init /\ client \in {"faulty", "large", "loop"}

Executions == CASE client = "faulty" -> 1 [] client = "large" -> 2 [] client = "loop" -> 3

\* What the client may execute next.
Chosen(g) ==
  /\ runs < Executions
  /\ client # "faulty" => g \in OneForeignGraphs
  /\ client = "loop" \/ runs # 0 => Len(g) <= 2

\* The call at hand cannot succeed: its wait has no fence, or the queue's point has none.
MustFail ==
  \/ pc = "walk" /\ node <= Len(graph) /\ ~WaitResolves(Queue(node))
  \/ pc \in {"copywait", "retire"} /\ \E k \in live : point[k] > submitted[k]

Permitted == UNCHANGED client /\ (client # "faulty" /\ rc' => rc \/ MustFail)

ClientCpu ==
  \/ Acquire /\ Permitted
  \/ Barrier /\ Permitted
  \/ Dispatch /\ Permitted
  \/ CopyWait /\ Permitted
  \/ EndWalk /\ Permitted
  \/ Retire /\ Permitted
ClientRing(q) == Ring(q) /\ UNCHANGED client

\* The client is done, the rings are empty.
ClientDone ==
  /\ pc = "returned" /\ inflight = {} /\ runs = Executions
  /\ UNCHANGED clientVars

ClientNext ==
  \/ \E g \in Graphs : Begin(g) /\ Chosen(g) /\ UNCHANGED client
  \/ ClientCpu
  \/ \E q \in QueueKinds : ClientRing(q)
  \/ ClientDone

ClientSpec ==
  /\ ClientInit /\ [][ClientNext]_clientVars
  /\ WF_clientVars(ClientCpu)
  /\ \A q \in QueueKinds : WF_clientVars(ClientRing(q))

\* While no call fails that can succeed, a queue whose accepted work has all retired is idle: no bumped point is
\* left without a fence to signal it (the tail of the *_timeline drivers, native wait_idle).
CalmQueueIsIdle == client # "faulty" => DrainedQueueIsIdle
=============================================================================
