\* Two firings of two triggers, over a change of the graph.
CONSTANTS
  Triggers = {t1, t2}
  Sessions = {s1, s2, s3}
  Firings = {f1, f2}
  None = None
  MaxRevision = 1
SPECIFICATION Spec
INVARIANTS
  SessionsAreReachable
  RunningIsCurrent
PROPERTIES
  SessionsEnd
\* Nothing may be left to do.
CHECK_DEADLOCK FALSE
