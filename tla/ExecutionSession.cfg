\* Three frames on a queue of one place, each with two generations at most.
CONSTANTS
  Frames = {f1, f2, f3}
  First = f1
  Capacity = 1
  NoFrame = NoFrame
  Root = "root"
  Nodes <- MCNodes
  Scope <- MCScope
  Rank <- MCRank
  Source <- MCSource
  Delayed = {"look", "step"}
  Optional = {}
  Effectful = {"show", "step"}
  Result <- MCResult
  Returns <- MCReturns
  Null = Null
  Undefined = Undefined
  MaxGenerations = 1
SPECIFICATION ScopeSpec
INVARIANTS
  CompletedIsDrained
  EveryFrameOnce
  NoLostWakeup
  EffectsArePerformed
PROPERTIES
  QueueIsBuffer
  ClosedSessionsSettle
  EndIsFinal
\* A session that has settled may have nothing left to do.
CHECK_DEADLOCK FALSE
