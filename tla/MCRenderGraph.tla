--------------------------- MODULE MCRenderGraph ---------------------------
(***************************************************************************)
(* Small instances of RenderGraph.  A session bounds what the client of    *)
(* one graph declares; the constants of RenderGraph bound all sessions.    *)
(***************************************************************************)
EXTENDS RenderGraph

CONSTANT Sessions    \* the sessions a run explores

VARIABLE session

NoShapes == {}
Buffer(w) == [kind |-> "buffer", w |-> w, h |-> 0]
Texture(w, h) == [kind |-> "texture", w |-> w, h |-> h]

\* Two resources behind two transients, declared once per node, on two queues.
Ordering ==
  [resources |-> {0, 1}, queues |-> {"COMPUTE", "TRANSFER"}, reads |-> 1, writes |-> 1,
   shapes |-> {Buffer(1), Buffer(3)}, transients |-> 2, devices |-> {"null"}, refused |-> FALSE]
\* One resource, declared up to twice each way, behind a device that may refuse.
Repeating ==
  [resources |-> {0}, queues |-> {"COMPUTE"}, reads |-> 2, writes |-> 2,
   shapes |-> {Buffer(2), Texture(1, 0)}, transients |-> 1, devices |-> {"null", "gpu"}, refused |-> TRUE]
\* Builds on a device that grants everything.
Granted ==
  [resources |-> {0, 1}, queues |-> {"COMPUTE"}, reads |-> 1, writes |-> 1,
   shapes |-> {Buffer(2), Texture(1, 0)}, transients |-> 1, devices |-> {"gpu"}, refused |-> FALSE]

BuildSessions == {Ordering, Repeating}
ReleaseSessions == {Granted}

SessionShapes == UNION {s.shapes : s \in Sessions}

\* What is declared is what the client of session s may declare.
DeclaresWithin(s) ==
  /\ \A i \in DOMAIN nodes :
       /\ Len(nodes[i].reads) <= s.reads /\ Len(nodes[i].writes) <= s.writes
       /\ \A k \in DOMAIN nodes[i].reads : nodes[i].reads[k] \in s.resources
       /\ \A k \in DOMAIN nodes[i].writes : nodes[i].writes[k] \in s.resources
       /\ nodes[i].queue \in s.queues
  /\ Len(transients) <= s.transients
  /\ \A t \in DOMAIN transients :
       [kind |-> transients[t].kind, w |-> transients[t].w, h |-> transients[t].h] \in s.shapes

\* The state a step leaves is one of session s.
Fits(s) ==
  /\ Declaring => DeclaresWithin(s)
  /\ device \in s.devices \cup {"null"}
  /\ \A t \in DOMAIN handle : handle[t] = "null" => s.refused

Init == RGInit /\ session \in Sessions
Next == RGNext /\ UNCHANGED session /\ Fits(session)'
Spec == Init /\ [][Next]_<<rgVars, session>>
=============================================================================
