-------------------------- MODULE RevisionedGraph --------------------------
(***************************************************************************)
(* What the rest of the program is promised about a published relation     *)
(* graph: it is valid at every moment, and it changes only as a whole, by  *)
(* one revision at a time.  applyRelationPatch and the workspace session   *)
(* store are both shown to implement this.                                 *)
(***************************************************************************)
EXTENDS RelationGraph

VARIABLE graph   \* [revision, nodes]

IsGraph(g) == g.revision \in Nat /\ ValidNodes(g.nodes)

Init == IsGraph(graph)

Publish ==
  /\ graph' = [revision |-> graph.revision + 1, nodes |-> graph'.nodes]
  /\ ValidNodes(graph'.nodes)

Spec == Init /\ [][Publish]_graph
=============================================================================
