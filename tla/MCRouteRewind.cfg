CONSTANTS
  Runs = {r1}
  Slashes = {}
  Children = {}
  Edits = {}
  Cancels = {}
  Restores = {}
  Rewinds = {w1}
  Evicts = {}
  None = None
SPECIFICATION Spec
PROPERTY RewindWaits
