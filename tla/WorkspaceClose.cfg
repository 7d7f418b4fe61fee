\* Two exports of a workspace with three graphs.
CONSTANTS
  Workspaces = {w1}
  Graphs = {g1, g2, g3}
  Exports = {e1, e2}
  NoWorkspace = NoWorkspace
SPECIFICATION SpecClose
INVARIANTS
  SavedIsWritten
  LossNeedsRace
SYMMETRY Symmetry
\* Everything may be closed.
CHECK_DEADLOCK FALSE
