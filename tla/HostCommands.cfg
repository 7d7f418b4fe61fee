\* Three commands, one of them unknown, for two workspaces.
CONSTANTS
  Workspaces = {w1, w2}
  Commands = {c1, c2, c3}
  Known = {c1, c2}
  NoCommand = NoCommand
  MaxRevision = 1
SPECIFICATION Spec
INVARIANTS
  SerialInOrder
  CommandsNeverConflict
PROPERTIES
  EveryCommandSettles
\* Everything may be closed and settled.
CHECK_DEADLOCK FALSE
