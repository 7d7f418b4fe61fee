-------------------------- MODULE MCRelationPatch --------------------------
(* Small graphs for RelationPatch: two nodes, three relation ids.           *)
EXTENDS RelationPatch

CONSTANTS a, b, r, s, t

Ref(n, id) == [node |-> n, relation |-> id]
Rel(id, path, refs) == [id |-> id, path |-> path, refs |-> refs]

\* Every relation has the identity a/r as its predicate, as in the core graph.
Identity == Ref(a, r)
Plain(id) == <<Rel(id, <<>>, {Identity})>>

MCInitialNodes ==
  { [n \in {a} |-> Plain(r) \o Plain(s) \o Plain(t)],
    [n \in {a, b} |->
       IF n = a THEN Plain(r) \o <<Rel(s, <<>>, {Identity, Ref(b, r)})>>
       ELSE <<Rel(r, <<>>, {Identity}), Rel(s, <<r>>, {Identity})>>] }

MCBodies == {Plain(r), Plain(r) \o Plain(s)}

MCTrees ==
  { Plain(s),
    <<Rel(s, <<>>, {Identity, Ref(b, r)})>>,
    <<Rel(t, <<>>, {Identity}), Rel(s, <<t>>, {Identity})>> }
=============================================================================
