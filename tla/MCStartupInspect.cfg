\* One inspection beside two starts.
CONSTANTS
  Models = {a, b}
  Hashes = {a, b}
  ConfigHash <- OwnHash
  None = None
  Inspectors = {i1}
  Configurations <- ReadinessOnly
  MaxEdits = 1
  MaxStarts = 2
SPECIFICATION Spec
INVARIANTS InspectionIsAnchored
CHECK_DEADLOCK FALSE
SYMMETRY Symmetry
