CONSTANTS
  Runs = {r1, r2}
  Slashes = {s1}
  Children = {c1}
  Edits = {}
  Cancels = {}
  Restores = {}
  Rewinds = {w1}
  Evicts = {e1}
  None = None
SPECIFICATION Spec
SYMMETRY Symmetry
INVARIANTS
  TypeOK
  StateOwnedByHolder
  EvictionHasFinisher
  ManagerHeldOpen
  NoManagerLeak
  StartupCancelHonoured
  NoStaleCancel
  ChildAfterParent
