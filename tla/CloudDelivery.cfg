CONSTANTS
  Msgs = {m1, m2}
  None = None
  MaxConcurrent = 2
  ChanCap = 1
  MaxHandlers = 3
  MaxDrops = 2
  MaxCrashes = 1
  ExclusiveClaims = TRUE
SPECIFICATION FairSpec
INVARIANTS TypeOK AckedOrUnsaid RepliesBounded
PROPERTY HandlersReturn
CHECK_DEADLOCK FALSE
