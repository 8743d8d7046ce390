SPECIFICATION Spec
CONSTANTS
  FollowUps = {f1, f2}
  Queued = {q1}
  ChanCap = 1
  DrainLimit = 1
  MailCap = 1
  MaxRuns = 2
  MaxCrashes = 1
SYMMETRY Symmetry
INVARIANTS TypeOK AcceptedNotLost EntersOnce RetractIsHonest MailboxIsBacked QueuedSurvives
PROPERTY ConsumedNotReplayed
