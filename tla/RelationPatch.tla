--------------------------- MODULE RelationPatch ---------------------------
(***************************************************************************)
(* applyRelationPatch, one operation of the patch at a time                *)
(* (src/pip-editor/relation/patch.ts).  The graph is copied, every         *)
(* operation of the patch changes the copy and puts its inverse in front   *)
(* of the inverse patch, and only a valid result is returned; a throw      *)
(* anywhere leaves the published graph as it was.                          *)
(***************************************************************************)
EXTENDS RelationGraph

CONSTANTS
  InitialNodes,    \* the graphs a document may open with
  Bodies,          \* relation lists a put-node may carry
  Trees,           \* relation trees a put-relation may carry, root first
  MaxOperations,   \* bound: operations in one patch
  MaxPatches       \* bound: the last revision a run reaches

ASSUME RelationPatchAssumption ==
  /\ \A nodes \in InitialNodes : ValidNodes(nodes) /\ InPreorder(nodes)
  /\ \A list \in Bodies : list \in Seq(Relation) /\ Preorder(list)
  /\ \A tree \in Trees : IsTree(tree)
  /\ MaxPatches \in Nat

VARIABLES
  source,      \* the published graph: [revision, nodes]
  work,        \* the clone the operations change
  operations,  \* the operations of the patch done so far
  inverse,     \* the operations of the inverse patch so far
  phase,       \* "idle" or "applying"
  tangled      \* history: between two operations the clone could not be indexed

loopVars == <<source, work, operations, inverse, phase, tangled>>

Operations ==
  {PutNode(n, list) : n \in NodeIds, list \in Bodies}
    \cup {RemoveNode(n) : n \in NodeIds}
    \cup {PutRelation(n, parent, tree) :
            n \in NodeIds, parent \in RelationIds \cup {NoParent}, tree \in Trees}
    \cup {RemoveRelation(n, id) : n \in NodeIds, id \in RelationIds}
-----------------------------------------------------------------------------
InitLoop ==
  /\ source \in [revision : {0}, nodes : InitialNodes]
  /\ work = source.nodes
  /\ operations = <<>>
  /\ inverse = <<>>
  /\ phase = "idle"
  /\ tangled = FALSE

\* A patch bound to another revision throws before anything is copied.
Begin(base) ==
  /\ phase = "idle"
  /\ source.revision < MaxPatches
  /\ base = source.revision
  /\ phase' = "applying"
  /\ work' = source.nodes
  /\ operations' = <<>>
  /\ inverse' = <<>>
  /\ tangled' = FALSE
  /\ UNCHANGED <<source>>

\* Mutant: the inverse operations are collected in the order of the patch.
OperateInOrder(operation) ==
  /\ phase = "applying"
  /\ Len(operations) < MaxOperations
  /\ Accepts(work, operation)
  /\ work' = Perform(work, operation)
  /\ operations' = Append(operations, operation)
  /\ inverse' = Append(inverse, InverseOf(work, operation))
  /\ tangled' = (tangled \/ ~Addressable(Perform(work, operation)))
  /\ UNCHANGED <<source, phase>>

Operate(operation) ==
  /\ phase = "applying"
  /\ Len(operations) < MaxOperations
  /\ Accepts(work, operation)
  /\ work' = Perform(work, operation)
  /\ operations' = Append(operations, operation)
  /\ inverse' = <<InverseOf(work, operation)>> \o inverse
  /\ tangled' = (tangled \/ ~Addressable(Perform(work, operation)))
  /\ UNCHANGED <<source, phase>>

\* An operation that throws, or an invalid result: the clone is dropped.
Throw ==
  /\ phase = "applying"
  /\ \/ ~ValidNodes(work)
     \/ \E operation \in Operations : ~Accepts(work, operation)
  /\ phase' = "idle"
  /\ UNCHANGED <<source, work, operations, inverse, tangled>>

\* Mutant: the result is published without assertRelationGraph.
FinishUnchecked ==
  /\ phase = "applying"
  /\ source' = [revision |-> source.revision + 1, nodes |-> work]
  /\ phase' = "idle"
  /\ UNCHANGED <<work, operations, inverse, tangled>>

Finish ==
  /\ phase = "applying"
  /\ ValidNodes(work)
  /\ source' = [revision |-> source.revision + 1, nodes |-> work]
  /\ phase' = "idle"
  /\ UNCHANGED <<work, operations, inverse, tangled>>

NextLoop ==
  \/ \E base \in 0 .. MaxPatches : Begin(base)
  \/ \E operation \in Operations : Operate(operation)
  \/ Throw
  \/ Finish

SpecLoop == InitLoop /\ [][NextLoop]_loopVars
-----------------------------------------------------------------------------

\* The clone taken back: what the inverse patch makes of it right now.
Undone == ApplyOperations(work, inverse)

\* After every operation, and not only at the end, the operations collected
\* so far in the inverse lead from the clone back to the published graph, up
\* to the order of sibling relations: the loop never pairs an operation with
\* an inverse that throws in the state its successors leave, as long as the
\* clone could be indexed all the way, that is, no two relations of a node
\* shared an id and none was nested too deep (patch.ts:27-54).
InverseLeadsBack ==
  phase = "applying" /\ ~tangled =>
    Undone.accepted /\ SameContent(Undone.nodes, source.nodes)

\* A patch that removes no single relation, however its operations overwrite
\* one another, is undone to the very same graph, sibling order included:
\* put-relation replaces in place and its inverse puts the old subtree back
\* in that place (patch.ts:38-45).
NoRelationRemoved == \A i \in DOMAIN operations : operations[i].op # "remove-relation"

OrderSurvivesPuts ==
  phase = "applying" /\ ~tangled /\ NoRelationRemoved =>
    Undone.accepted /\ Undone.nodes = source.nodes

\* The published graph is a RevisionedGraph: valid in every state, replaced
\* as a whole, one revision at a time, whatever the operations in between do
\* to the clone (patch.ts:26, 55; "a failed operation or validator can never
\* partially mutate the source revision").
Source == INSTANCE RevisionedGraph WITH graph <- source
AtomicRevisions == Source!Spec
=============================================================================
