\* Patches, creations, undo and redo over three revisions, with two levels of
\* navigation and selections in one window.
CONSTANTS
  a = a
  b = b
  r = r
  s = s
  NoParent = NoParent
  NodeIds = {a, b}
  RelationIds = {r, s}
  MaxRelationDepth = 2
  InitialGraph <- MCInitialGraph
  InitialRoots = {a}
  InitialSelection = {}
  Changes <- MCChanges
  Validates <- MCValidates
  Selections = {{b}}
  Windows = {a}
  Targets = {b}
  Renderings <- MCRenderings
  MaxTrail = 2
  MaxRevision = 3
SPECIFICATION Spec
INVARIANTS
  OnlyNewestEntryApplies
  LastChangeIsReversible
  NavigationLive
  SelectionLive
PROPERTY PublishesRevisions
\* A run ends with the last revision.
CHECK_DEADLOCK FALSE
