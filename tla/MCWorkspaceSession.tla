------------------------ MODULE MCWorkspaceSession ------------------------
(* A small document for WorkspaceSession: a, which exists from the start,   *)
(* and b, which patches create, change and remove.                          *)
EXTENDS WorkspaceSession, TLC

CONSTANTS a, b, r, s

Ref(n, id) == [node |-> n, relation |-> id]
Rel(id, refs) == [id |-> id, path |-> <<>>, refs |-> refs]
Identity == Rel(r, {Ref(a, r)})

MCInitialGraph == [revision |-> 0, nodes |-> [n \in {a} |-> <<Identity>>]]

\* A relation s from a node to b: b cannot be removed while it is there.
PointAtB(n) == PutRelation(n, NoParent, <<Rel(s, {Ref(a, r), Ref(b, r)})>>)

\* A relation s with a second r in it, and b as it was: the patch is valid at
\* its end, and its inverse throws on the way.
Tangle ==
  <<PutRelation(b, NoParent, <<Rel(s, {Ref(a, r)}), [Identity EXCEPT !.path = <<s>>]>>),
    PutNode(b, <<Identity>>)>>

\* One or two operations each; the second is refused by the validator.
MCChanges ==
  { <<PutNode(b, <<Identity>>)>>,
    <<PutNode(b, <<Identity>>), PointAtB(b)>>,
    <<RemoveNode(b)>>,
    <<PutNode(b, <<Identity>>), PointAtB(a)>>,
    Tangle }

\* The window of a went on to b and is there, or went back beside a window of b.
MCRenderings ==
  {[nodes |-> {a, b}, frames |-> views] :
     views \in { a :> [trail |-> <<a, b>>, at |-> 2],
                a :> [trail |-> <<a, b>>, at |-> 1] @@ b :> DefaultFrame }}

\* An A4 validator: b has no relation but its identity.
MCValidates(g) == b \in DOMAIN g.nodes => Len(g.nodes[b]) = 1
=============================================================================
