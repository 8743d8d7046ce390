CONSTANTS
  Sessions = {s1, s2}
  None = None
  BatchMaxSessions = 2
  AttemptsCap = 2
  BehindUTC = 0
  Second = 2
  Places = {1, 2}
  MaxEdits = 3
  MaxRuns = 3
SPECIFICATION Spec
INVARIANTS TypeOK ForgottenOnlyIfLeft ListsWhatChanged
PROPERTY FailuresSettle
CHECK_DEADLOCK FALSE
