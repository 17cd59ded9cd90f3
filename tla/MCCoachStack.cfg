SPECIFICATION Spec
CONSTANTS
  Trainers = {east, west}
  Users = {ann}
  Owners = {}
  Requests = {r1, r2}
  NoOne = NoOne
  MaxLinks = 3
  MaxFaults = 0
SYMMETRY Symmetry
CHECK_DEADLOCK FALSE
INVARIANTS
  ResendDoesNotStack
