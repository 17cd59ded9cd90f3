SPECIFICATION Spec
CONSTANTS
  Players = {ann, ben}
  Requests = {r1, r2}
  MaxLinks = 1
  MaxRows = 2
  MaxJoins = 2
  MaxFaults = 0
SYMMETRY Symmetry
CHECK_DEADLOCK FALSE
INVARIANTS
  LiveRowsAreUnique
