--------------------------- MODULE RelationGraph ---------------------------
(***************************************************************************)
(* The Relation kernel as data and operators: what a relation graph is,    *)
(* when it is valid, and what the four operations of a RelationPatch do    *)
(* to it (src/pip-editor/relation/).  Nothing here has state; RelationPatch *)
(* and WorkspaceSession are the state machines built on these operators.   *)
(*                                                                         *)
(* A node is the list of its relations in the order walkRelations visits   *)
(* them (pre-order).  The nesting of relations inside relations is kept in *)
(* `path`, the ids of the enclosing relations from the outermost inwards.  *)
(* A relation's predicate and the references of its object are the set     *)
(* `refs`; constant object values are left out.                            *)
(***************************************************************************)
EXTENDS Naturals, Sequences, SequencesExt, Lists

CONSTANTS
  NodeIds,           \* ids of relation nodes
  RelationIds,       \* ids of relations inside one node
  NoParent,          \* the parentRelationId of a top-level relation
  MaxRelationDepth   \* MAX_RELATION_DEPTH, 64 in the code

ASSUME RelationGraphAssumption ==
  /\ NoParent \notin RelationIds
  /\ MaxRelationDepth \in Nat \ {0}
-----------------------------------------------------------------------------
(* Types. *)

RelationRef == [node : NodeIds, relation : RelationIds]

Relation == [id : RelationIds, path : Seq(RelationIds), refs : SUBSET RelationRef]

\* A list is the pre-order of a forest: each relation is nested in the one
\* before it, or in one that this is nested in, or in none.
Preorder(list) ==
  \A i \in DOMAIN list :
    IF i = 1 THEN list[i].path = <<>>
    ELSE IsPrefix(list[i].path, Append(list[i - 1].path, list[i - 1].id))

\* A single relation with everything nested in it: its root is the first.
IsTree(tree) ==
  /\ tree \in Seq(Relation) \ {<<>>}
  /\ Preorder(tree)
  /\ \A i \in DOMAIN tree : tree[i].path = <<>> => i = 1

\* A graph's nodes: a function from the ids of the nodes it has to their relations.
IsNodes(nodes) ==
  /\ nodes = [n \in DOMAIN nodes |-> nodes[n]]
  /\ DOMAIN nodes \subseteq NodeIds
  /\ \A n \in DOMAIN nodes : nodes[n] \in Seq(Relation)

InPreorder(nodes) == \A n \in DOMAIN nodes : Preorder(nodes[n])

Ids(list) == {list[i].id : i \in DOMAIN list}

ParentOf(relation) ==
  IF relation.path = <<>> THEN NoParent ELSE Last(relation.path)
-----------------------------------------------------------------------------
(* Validity. *)

\* walkRelations throws when it descends below the depth limit, also into an
\* empty list: the deepest relation sits one level above the limit.
WithinDepth(list) ==
  \A i \in DOMAIN list : Len(list[i].path) < MaxRelationDepth

\* createRelationIndex: one entry per (node, relation id), nested ones included.
Addressable(nodes) ==
  \A n \in DOMAIN nodes :
    /\ WithinDepth(nodes[n])
    /\ \A i, j \in DOMAIN nodes[n] : nodes[n][i].id = nodes[n][j].id => i = j

Resolves(nodes, ref) ==
  /\ ref.node \in DOMAIN nodes
  /\ ref.relation \in Ids(nodes[ref.node])

\* No dangling reference.
Closed(nodes) ==
  \A n \in DOMAIN nodes : \A i \in DOMAIN nodes[n] :
    \A ref \in nodes[n][i].refs : Resolves(nodes, ref)

\* assertRelationGraph
ValidNodes(nodes) == IsNodes(nodes) /\ Addressable(nodes) /\ Closed(nodes)
-----------------------------------------------------------------------------
(* Subtrees: a relation with everything nested in it. *)

InSubtree(relation, id) == relation.id = id \/ id \in Range(relation.path)

IndexOf(list, id) == CHOOSE i \in DOMAIN list : list[i].id = id

\* The subtree as the operation of an inverse patch carries it: paths are
\* relative to its root, which comes first.
SubtreeOf(list, id) ==
  LET depth == Len(list[IndexOf(list, id)].path)
      Relative(relation) ==
        [relation EXCEPT !.path = SubSeq(@, depth + 1, Len(@))]
      inside == Only(list, {relation \in Range(list) : InSubtree(relation, id)})
  IN  [i \in DOMAIN inside |-> Relative(inside[i])]

\* A tree moved under a parent whose own children have the path `prefix`.
Rooted(tree, prefix) ==
  [i \in DOMAIN tree |-> [tree[i] EXCEPT !.path = prefix \o @]]

ChildPath(list, parent) ==
  IF parent = NoParent THEN <<>>
  ELSE Append(list[IndexOf(list, parent)].path, parent)

WithoutSubtree(list, id) ==
  Only(list, {relation \in Range(list) : ~InSubtree(relation, id)})

\* Mutant: a replaced relation goes to the end of its node.
ReplaceAtEnd(list, id, tree) == WithoutSubtree(list, id) \o tree

\* list[index] = relation: the new tree takes the place of the old one.
ReplaceSubtree(list, id, tree) ==
  LET at == IndexOf(list, id)
  IN  SubSeq(list, 1, at - 1) \o tree
        \o WithoutSubtree(SubSeq(list, at, Len(list)), id)

\* list.push(relation): the new tree is the last child of its parent.
PushSubtree(list, parent, tree) ==
  LET last == IF parent = NoParent THEN Len(list)
              ELSE CHOOSE i \in DOMAIN list :
                     /\ InSubtree(list[i], parent)
                     /\ \A j \in DOMAIN list : InSubtree(list[j], parent) => j <= i
  IN  SubSeq(list, 1, last) \o tree \o SubSeq(list, last + 1, Len(list))
-----------------------------------------------------------------------------
(* The operations of a patch. *)

PutNode(n, list) == [op |-> "put-node", node |-> n, relations |-> list]
RemoveNode(n) == [op |-> "remove-node", node |-> n]
PutRelation(n, parent, tree) ==
  [op |-> "put-relation", node |-> n, parent |-> parent, tree |-> tree]
RemoveRelation(n, id) == [op |-> "remove-relation", node |-> n, id |-> id]

\* What a patch carries are forests, trees and ids.
IsOperation(operation) ==
  LET n == operation.node IN
  /\ n \in NodeIds
  /\ \/ /\ operation.op = "put-node"
        /\ operation = PutNode(n, operation.relations)
        /\ operation.relations \in Seq(Relation)
        /\ Preorder(operation.relations)
     \/ /\ operation.op = "remove-node"
        /\ operation = RemoveNode(n)
     \/ /\ operation.op = "put-relation"
        /\ operation = PutRelation(n, operation.parent, operation.tree)
        /\ operation.parent \in RelationIds \cup {NoParent}
        /\ IsTree(operation.tree)
     \/ /\ operation.op = "remove-relation"
        /\ operation = RemoveRelation(n, operation.id)
        /\ operation.id \in RelationIds

HasRelation(nodes, n, id) == n \in DOMAIN nodes /\ id \in Ids(nodes[n])

\* The operation runs without throwing.  Both relation operations build the
\* index of the whole graph first, so they need every id in it to be unique.
Accepts(nodes, operation) ==
  LET n == operation.node IN
  \/ operation.op = "put-node"
  \/ /\ operation.op = "remove-node"
     /\ n \in DOMAIN nodes
  \/ /\ operation.op = "put-relation"
     /\ Addressable(nodes)
     /\ n \in DOMAIN nodes
     /\ operation.parent # NoParent => HasRelation(nodes, n, operation.parent)
     /\ LET id == Head(operation.tree).id
        IN  HasRelation(nodes, n, id) =>
              ParentOf(nodes[n][IndexOf(nodes[n], id)]) = operation.parent
  \/ /\ operation.op = "remove-relation"
     /\ Addressable(nodes)
     /\ HasRelation(nodes, n, operation.id)

WithNode(nodes, n, list) ==
  [m \in DOMAIN nodes \cup {n} |-> IF m = n THEN list ELSE nodes[m]]

WithoutNode(nodes, n) == [m \in DOMAIN nodes \ {n} |-> nodes[m]]

PlaceRelation(list, parent, tree) ==
  LET placed == Rooted(tree, ChildPath(list, parent))
      id == Head(tree).id
  IN  IF id \in Ids(list) THEN ReplaceSubtree(list, id, placed)
      ELSE PushSubtree(list, parent, placed)

\* The graph after an operation it accepts.
Perform(nodes, operation) ==
  LET n == operation.node IN
  CASE operation.op = "put-node" -> WithNode(nodes, n, operation.relations)
    [] operation.op = "remove-node" -> WithoutNode(nodes, n)
    [] operation.op = "put-relation" ->
         WithNode(nodes, n, PlaceRelation(nodes[n], operation.parent, operation.tree))
    [] operation.op = "remove-relation" ->
         WithNode(nodes, n, WithoutSubtree(nodes[n], operation.id))

\* The operation the inverse patch gets for it.
InverseOf(nodes, operation) ==
  LET n == operation.node
      Restore(id) == PutRelation(n, ParentOf(nodes[n][IndexOf(nodes[n], id)]),
                                 SubtreeOf(nodes[n], id))
  IN
  CASE operation.op = "put-node" ->
         IF n \in DOMAIN nodes THEN PutNode(n, nodes[n]) ELSE RemoveNode(n)
    [] operation.op = "remove-node" -> PutNode(n, nodes[n])
    [] operation.op = "put-relation" ->
         LET id == Head(operation.tree).id
         IN  IF id \in Ids(nodes[n]) THEN Restore(id) ELSE RemoveRelation(n, id)
    [] operation.op = "remove-relation" -> Restore(operation.id)
-----------------------------------------------------------------------------
(* applyRelationPatch. *)

Patch(base, operations) == [base |-> base, operations |-> operations]

ApplyOperation(result, operation) ==
  IF result.accepted /\ Accepts(result.nodes, operation)
  THEN [accepted |-> TRUE,
        nodes |-> Perform(result.nodes, operation),
        inverse |-> <<InverseOf(result.nodes, operation)>> \o result.inverse]
  ELSE [result EXCEPT !.accepted = FALSE]

\* The clone, and the inverse so far, after each number of operations.
Stages(nodes, operations) ==
  LET stage[i \in 0 .. Len(operations)] ==
        IF i = 0 THEN [accepted |-> TRUE, nodes |-> nodes, inverse |-> <<>>]
        ELSE ApplyOperation(stage[i - 1], operations[i])
  IN  stage

\* The loop over the operations: the clone and the inverse it ends with.
ApplyOperations(nodes, operations) == Stages(nodes, operations)[Len(operations)]

\* The clone can be indexed at every stage.
StaysIndexed(nodes, operations) ==
  \A i \in 0 .. Len(operations) : Addressable(Stages(nodes, operations)[i].nodes)

\* Mutant: the result is not validated.
AppliesUnchecked(graph, patch) ==
  /\ patch.base = graph.revision
  /\ ApplyOperations(graph.nodes, patch.operations).accepted

\* The patch neither is stale nor throws, and its result is a valid graph.
Applies(graph, patch) ==
  /\ patch.base = graph.revision
  /\ ApplyOperations(graph.nodes, patch.operations).accepted
  /\ ValidNodes(ApplyOperations(graph.nodes, patch.operations).nodes)

Applied(graph, patch) ==
  [revision |-> graph.revision + 1,
   nodes |-> ApplyOperations(graph.nodes, patch.operations).nodes]

\* Mutant: the inverse is bound to the revision the patch was built from.
InverseOfSource(graph, patch) ==
  Patch(graph.revision, ApplyOperations(graph.nodes, patch.operations).inverse)

\* The inverse is bound to the revision the patch has just produced.
InversePatch(graph, patch) ==
  Patch(graph.revision + 1, ApplyOperations(graph.nodes, patch.operations).inverse)
-----------------------------------------------------------------------------
\* Equal up to the order of sibling relations.
SameContent(nodes, others) ==
  /\ DOMAIN nodes = DOMAIN others
  /\ \A n \in DOMAIN nodes : Range(nodes[n]) = Range(others[n])
=============================================================================
