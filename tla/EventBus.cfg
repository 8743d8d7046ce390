CONSTANTS
  Clients = {c1}
  RingSize = 2
  NotifSize = 2
  BufSize = 1
  CompactEvery = 2
  MaxEvents = 4
  MaxRestarts = 1
  MaxTears = 1
SPECIFICATION Spec
INVARIANTS TypeOK LossBounded PollOnce OnceInOrder
PROPERTY NoSilentGap
CHECK_DEADLOCK FALSE
