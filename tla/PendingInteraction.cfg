SPECIFICATION FairSpec
CONSTANTS
  Requests = {q1, q2, q3}
  Decisions = {allow, deny}
  Terminal = deny
  None = None
INVARIANTS TypeOK DecisionAgrees
PROPERTIES IsOneShot Returns
