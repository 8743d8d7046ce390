CONSTANTS
  Runs = {r1}
  Slashes = {}
  Children = {c1}
  Edits = {d1}
  Cancels = {x1}
  Restores = {y1}
  Rewinds = {}
  Evicts = {}
  None = None
SPECIFICATION FairSpec
PROPERTIES
  Served
  CancelReaches
