CONSTANTS
  Acts = {a1, a2}
  None = None
  MaxCalls = 2
  MaxRuns = 2
  MaxResumes = 2
  MaxCrashes = 3
  MaxSaveFails = 2
SPECIFICATION Spec
SYMMETRY ActSymmetry
INVARIANTS TypeOK LedgerIsTrue SafeUnlessOvertaken CrashLoopBounded
PROPERTIES ResumeKnowsEffects NoBlindRetry
CHECK_DEADLOCK FALSE
