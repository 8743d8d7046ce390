CONSTANTS
  Sessions = {s1, s2}
  None = None
  BatchMaxSessions = 2
  AttemptsCap = 2
  BehindUTC = 2
  Second = 1
  Places = {1}
  MaxEdits = 3
  MaxRuns = 3
SPECIFICATION Spec
INVARIANT ListsStrictlyAfter
CHECK_DEADLOCK FALSE
