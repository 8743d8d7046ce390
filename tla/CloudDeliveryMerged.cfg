CONSTANTS
  Msgs = {m1, m2, m3}
  None = None
  MaxConcurrent = 2
  ChanCap = 2
  MaxHandlers = 3
  MaxDrops = 1
  MaxCrashes = 0
  ExclusiveClaims = TRUE
SPECIFICATION Spec
INVARIANT AckedWasAnswered
CHECK_DEADLOCK FALSE
