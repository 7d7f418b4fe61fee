----------------------------- MODULE MCExecution -----------------------------
(***************************************************************************)
(* A plan with feedback: "sum" and "look" run at once, "sum" on what       *)
(* "loop" left behind; "loop" is a scope with feedback of its own, "look"  *)
(* one without.                                                            *)
(***************************************************************************)
EXTENDS ExecutionScope, TLC

MCNodes == {"look", "loop", "show", "step", "end"}
MCScope == [look |-> "root", loop |-> "root", end |-> "root", show |-> "look", step |-> "loop"]
MCRank == [look |-> 0, loop |-> 0, end |-> 1, show |-> 0, step |-> 0]
MCSource == [look |-> "loop", loop |-> "root", end |-> "loop", show |-> "look", step |-> "step"]
MCResult == [root |-> "end", look |-> "show", loop |-> "step"]
MCReturns(n, input) == IF n = "step" THEN {"low", "high"} ELSE {"low"}
=============================================================================
