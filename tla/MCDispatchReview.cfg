CONSTANTS
  Acts = {a1}
  None = None
  MaxCalls = 2
  MaxRuns = 2
  MaxResumes = 1
  MaxCrashes = 1
  MaxSaveFails = 0
SPECIFICATION Spec
INVARIANT CrashResolvesToUnknown
CHECK_DEADLOCK FALSE
