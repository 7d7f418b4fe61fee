--------------------------- MODULE ExecutionScope ---------------------------
(***************************************************************************)
(* The execution of a frame within its session: scopes of nodes, the nodes *)
(* of a rank at once and rank after rank, scopes within nodes, generations *)
(* of a scope whose delayed inputs have changed, and the effects, which an *)
(* arbiter executes once for each key                                      *)
(* (src/pip-editor/relation-host/execution/session-manager.ts:130-177,     *)
(* effect-arbiter.ts).                                                     *)
(*                                                                         *)
(* A plan is a tree here: Root is the scope of the target, every other one *)
(* is a node.  A node has one input, a scope one output, which is          *)
(* required; nodes without a scope ask for one effect at most.  The key of *)
(* an effect has the session and the lineage of the frame in it, so that   *)
(* the arbiter never meets the receipts of another frame: receipts are     *)
(* those of the active one.                                                *)
(***************************************************************************)
EXTENDS ExecutionSession

CONSTANTS
  Nodes, Root,
  Scope,             \* node -> the scope it lies in
  Rank,              \* node -> its rank there
  Source,            \* node -> what its input is bound to: its scope, or a node beside it
  Delayed, Optional, \* the nodes whose input is a delay boundary, or is not required
  Effectful,         \* the nodes whose runtime asks for an effect
  Result,            \* scope -> the node its output is bound to
  Returns(_, _),     \* what the runtime of a node may make of an input
  Null, Undefined,
  MaxGenerations

Parts == Nodes \cup {Root}
Scopes == {Scope[n] : n \in Nodes}
Inside(s) == {n \in Nodes : Scope[n] = s}

\* What the planner gives: a finite tree of scopes, whose ranks follow the
\* bindings that are not delayed.
ASSUME PlanAssumption ==
  /\ Root \notin Nodes /\ Root \in Scopes /\ Scopes \subseteq Parts
  /\ MaxGenerations \in Nat /\ Rank \in [Nodes -> Nat]
  /\ IsFiniteSet(Nodes) /\ Effectful \subseteq Nodes \ Scopes
  /\ \A S \in (SUBSET Nodes) \ {{}} : \E n \in S : Scope[n] \notin S
  /\ \A s \in Scopes : Result[s] \in Inside(s)
  /\ \A n \in Nodes : Source[n] \in {Scope[n]} \cup Inside(Scope[n])
  /\ \A n \in Nodes \ Delayed : Source[n] = Scope[n] \/ Rank[Source[n]] < Rank[n]

VARIABLES
  phase,       \* of nodes and scopes
  generation,  \* of scopes
  values,      \* values, of all scopes: the outputs of nodes, Root's is the frame's
  delayed,     \* node -> what the last generation left for its delayed input
  receipts,    \* #receipts of the arbiter: keys
  performed    \* history: the effects that handlers executed, and for what

execution == <<phase, generation, values, delayed, receipts, performed>>
executing == <<vars, execution>>

-----------------------------------------------------------------------------
\* The input of a scope is that of its node, and Root's that of the frame.
InputOf[n \in Parts] ==
  IF n = Root THEN Null
  ELSE IF n \in Delayed THEN IF delayed[n] = Undefined THEN Null ELSE delayed[n]
  ELSE IF Source[n] = Scope[n] THEN InputOf[Scope[n]]
  ELSE values[Source[n]]

\* Mutant: the key does not tell generations apart.
KeyOfFrame(n) == <<n>>

Key(n) == <<n, generation[Scope[n]]>>

Over(n) == phase[n] \in {"done", "failed"}

\* The least rank of those that wait.
NextOf(waiting) ==
  {n \in waiting : \A m \in waiting : Rank[n] <= Rank[m]}

\* executeScope() to its first await: no values, the nodes of the first rank.
Begin(s, number, left) ==
  /\ generation' = [generation EXCEPT ![s] = number]
  /\ values' = [n \in Parts |-> IF n \in Inside(s) THEN Undefined ELSE values[n]]
  /\ delayed' = [n \in Nodes |-> IF n \in Inside(s) THEN left[n] ELSE delayed[n]]
  /\ phase' = [n \in Parts |->
                 IF n \in NextOf(Inside(s)) THEN "ready"
                 ELSE IF n \in Inside(s) THEN "waiting"
                 ELSE IF n = s THEN "running" ELSE phase[n]]

Nothing == [n \in Nodes |-> Undefined]

\* #drain calls executeScope.
EnterFrame ==
  /\ active # NoFrame /\ phase[Root] = "waiting"
  /\ Begin(Root, 0, Nothing)
  /\ UNCHANGED <<receipts, performed>>

Returned(n, value) ==
  /\ phase' = [phase EXCEPT ![n] = "done"]
  /\ values' = [values EXCEPT ![n] = value]

Throws(n) ==
  /\ phase' = [phase EXCEPT ![n] = "failed"]
  /\ values' = [values EXCEPT ![n] = Undefined]

\* executeNode(): without a required input a node has no output and no error.
LacksInput(n) ==
  /\ phase[n] = "ready"
  /\ InputOf[n] = Undefined /\ n \notin Optional
  /\ Returned(n, Undefined)
  /\ UNCHANGED <<generation, delayed, receipts, performed>>

Runs(n) == phase[n] = "ready" /\ (InputOf[n] # Undefined \/ n \in Optional)

EnterScope(n) ==
  /\ n \in Scopes /\ Runs(n)
  /\ Begin(n, generation[Scope[n]], Nothing)
  /\ UNCHANGED <<receipts, performed>>

\* The runtime of a node without a scope returns or throws.
Execute(n) ==
  /\ n \notin Scopes /\ Runs(n)
  /\ \/ \E value \in Returns(n, InputOf[n]) :
          /\ values' = [values EXCEPT ![n] = value]
          /\ phase' = [phase EXCEPT ![n] = IF n \in Effectful THEN "effect" ELSE "done"]
     \/ Throws(n)
  /\ UNCHANGED <<generation, delayed, receipts, performed>>

\* EffectArbiter.execute(): a receipt, or the handler and a receipt.
Perform(n) ==
  /\ phase[n] = "effect"
  /\ \/ /\ Key(n) \in receipts
        /\ Returned(n, values[n])
        /\ UNCHANGED <<receipts, performed>>
     \/ /\ Key(n) \notin receipts
        /\ receipts' = receipts \cup {Key(n)}
        /\ performed' = performed \cup {<<n, InputOf[n]>>}
        /\ Returned(n, values[n])
     \/ /\ Key(n) \notin receipts
        /\ Throws(n)
        /\ UNCHANGED <<receipts, performed>>
  /\ UNCHANGED <<generation, delayed>>

\* Promise.allSettled() of a rank: a failure of one node is none of the others.
RankSettled(s) == phase[s] = "running" /\ \A n \in Inside(s) : Over(n) \/ phase[n] = "waiting"
Waiting(s) == {n \in Inside(s) : phase[n] = "waiting"}

NextRank(s) ==
  /\ RankSettled(s) /\ Waiting(s) # {}
  /\ phase' = [n \in Parts |-> IF n \in NextOf(Waiting(s)) THEN "ready" ELSE phase[n]]
  /\ UNCHANGED <<generation, values, delayed, receipts, performed>>

\* What the nodes of a scope leave for the next generation.
Left(s) ==
  [n \in Nodes |-> IF n \notin Delayed \cap Inside(s) THEN Undefined
                   ELSE LET value == IF Source[n] = s THEN InputOf[s] ELSE values[Source[n]]
                        IN IF value = Undefined THEN Null ELSE value]
Changed(s) == \E n \in Delayed \cap Inside(s) : Left(s)[n] # delayed[n]

\* The end of executeScope(): its output is not there, it goes round once
\* more, or it returns.
EndScope(s) ==
  /\ RankSettled(s) /\ Waiting(s) = {}
  /\ LET output == values[Result[s]]
         number == generation[s] + 1
     IN \/ /\ output = Undefined \/ (Changed(s) /\ number > MaxGenerations)
           /\ Throws(s)
           /\ UNCHANGED <<generation, delayed>>
        \/ /\ output # Undefined /\ Changed(s) /\ number <= MaxGenerations
           /\ Begin(s, number, Left(s))
        \/ /\ output # Undefined /\ ~Changed(s)
           /\ Returned(s, output)
           /\ UNCHANGED <<generation, delayed>>
  /\ UNCHANGED <<receipts, performed>>

ScopeStep ==
  \/ EnterFrame
  \/ \E n \in Nodes : LacksInput(n) \/ EnterScope(n) \/ Execute(n) \/ Perform(n)
  \/ \E s \in Scopes : NextRank(s) \/ EndScope(s)

-----------------------------------------------------------------------------
AllWait == [n \in Parts |-> "waiting"]
NoValues == [n \in Parts |-> Undefined]
Zero == [s \in Scopes |-> 0]

ScopeInit ==
  /\ Init
  /\ phase = AllWait /\ generation = Zero /\ values = NoValues /\ delayed = Nothing
  /\ receipts = {} /\ performed = {}

\* What surrounds the execution goes on meanwhile.
AroundFrame ==
  /\ \/ \E f \in Frames : PushFrame(f) \/ ResumePush(f) \/ Continue(f)
     \/ Started \/ Close \/ Cancel \/ MarkStale
  /\ UNCHANGED execution

\* #drain behind its await.
EndFrame ==
  /\ \/ phase[Root] = "done" /\ FrameDone("output")
     \/ phase[Root] = "failed" /\ FrameDone("failed")
  /\ phase' = AllWait /\ generation' = Zero /\ values' = NoValues /\ delayed' = Nothing
  /\ receipts' = {} /\ performed' = {}

ExecutionStep == ScopeStep /\ UNCHANGED vars

ScopeNext == AroundFrame \/ ExecutionStep \/ EndFrame

\* Continuations run; runtimes and handlers return, as those of the plugins do.
ScopeSpec ==
  /\ ScopeInit
  /\ [][ScopeNext]_executing
  /\ WF_executing(Started /\ UNCHANGED execution)
  /\ \A f \in Frames : WF_executing((ResumePush(f) \/ Continue(f)) /\ UNCHANGED execution)
  /\ WF_executing(ExecutionStep \/ EndFrame)
-----------------------------------------------------------------------------
\* The scopes around a node, and those of them that go round.
Around[n \in Nodes] ==
  {Scope[n]} \cup IF Scope[n] = Root THEN {} ELSE Around[Scope[n]]
Rounds(n) == {s \in Around[n] : Delayed \cap Inside(s) # {}}

\* A node that counts as executed has had its effect executed, in this very
\* generation and for the input it had, whatever else failed or was cancelled.
\* The exception is a node in a scope with delays that lies within another
\* one: both count their generations in one number, so that the second round
\* of the inner scope and the first one behind the second round of the outer
\* scope have one key, and the arbiter answers the later effect with the
\* receipt of the earlier (session-manager.ts:155, 171, effect-arbiter.ts:9).
EffectsArePerformed ==
  \A n \in Effectful :
    /\ phase[n] = "done" /\ values[n] # Undefined
    /\ \A s \in Around[n] : phase[s] = "running"
    /\ Cardinality(Rounds(n)) < 2
    =>
      <<n, InputOf[n]>> \in performed
=============================================================================
