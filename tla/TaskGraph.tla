----------------------------- MODULE TaskGraph -----------------------------
(***************************************************************************)
(* What an execution of a render graph promises, without queues, rings,    *)
(* barriers or buffers: nodes begin and finish in any overlap the          *)
(* dependencies allow; a node may be skipped (its dispatch failed), and an *)
(* execution reports success only when every node has finished.            *)
(*                                                                         *)
(* GraphExecutor implements this module.                                   *)
(***************************************************************************)
EXTENDS RGSchedule

CONSTANT Graphs

VARIABLES graph, phase, begun, finished, skipped

vars == <<graph, phase, begun, finished, skipped>>

AllNodes == 1 .. Len(graph)
Producers(i) == {p \in AllNodes : <<p, i>> \in Deps(graph)}

Init ==
  /\ graph = <<>>
  /\ phase = "idle"
  /\ begun = {} /\ finished = {} /\ skipped = {}

Call ==
  /\ phase # "running"
  /\ graph' \in Graphs
  /\ phase' \in IF graph' = <<>> THEN {"ok"} ELSE {"running"}
  /\ begun' = {} /\ finished' = {} /\ skipped' = {}

\* A node begins once every producer that was not skipped has finished.
BeginNode(i) ==
  /\ i \in AllNodes \ (begun \cup skipped)
  /\ Producers(i) \subseteq finished \cup skipped
  /\ begun' = begun \cup {i}
  /\ UNCHANGED <<graph, phase, finished, skipped>>

FinishNode(i) ==
  /\ i \in begun \ finished
  /\ finished' = finished \cup {i}
  /\ UNCHANGED <<graph, phase, begun, skipped>>

\* A node is skipped only before it begins, and only while executing.
SkipNode(i) ==
  /\ phase = "running"
  /\ i \in AllNodes \ (begun \cup skipped)
  /\ skipped' = skipped \cup {i}
  /\ UNCHANGED <<graph, phase, begun, finished>>

Return ==
  /\ phase = "running"
  /\ phase' \in IF finished = AllNodes THEN {"ok", "failed"} ELSE {"failed"}
  /\ UNCHANGED <<graph, begun, finished, skipped>>

Next ==
  \/ Call
  \/ \E i \in AllNodes : BeginNode(i) \/ FinishNode(i) \/ SkipNode(i)
  \/ Return

Spec == Init /\ [][Next]_vars
=============================================================================
