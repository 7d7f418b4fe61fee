\* Two nodes, three relation ids, a patch of up to four operations.
CONSTANTS
  a = a
  b = b
  r = r
  s = s
  t = t
  NoParent = NoParent
  NodeIds = {a, b}
  RelationIds = {r, s, t}
  MaxRelationDepth = 2
  InitialNodes <- MCInitialNodes
  Bodies <- MCBodies
  Trees <- MCTrees
  MaxOperations = 4
  MaxPatches = 1
SPECIFICATION SpecLoop
INVARIANTS
  InverseLeadsBack
  OrderSurvivesPuts
PROPERTY AtomicRevisions
\* A run ends with the last revision.
CHECK_DEADLOCK FALSE
