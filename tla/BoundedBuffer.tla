--------------------------- MODULE BoundedBuffer ---------------------------
(***************************************************************************)
(* What a caller of a bounded queue is promised whatever the callers do at *)
(* the same time: it holds at most Capacity values, nothing comes out that *)
(* did not go in, and nothing goes in or comes out twice.  No order is     *)
(* promised.                                                               *)
(***************************************************************************)
EXTENDS FiniteSets, Naturals

CONSTANTS Values, Capacity

VARIABLES held, taken

Init == held = {} /\ taken = {}

Put == \E v \in Values \ (held \cup taken) :
  /\ Cardinality(held) < Capacity
  /\ held' = held \cup {v}
  /\ UNCHANGED taken

Take == \E v \in held :
  /\ held' = held \ {v}
  /\ taken' = taken \cup {v}

Spec == Init /\ [][Put \/ Take]_<<held, taken>>
=============================================================================
