CONSTANTS
  p1 = p1
  p2 = p2
  word = word
  Procs <- TwoProcs
  Order <- Candidates
  Kind <- Kinds
  Skill <- Copies
  Tokens = {}
  LastDay = 2
  MaxEdits = 1
  MaxRuns = 4
SYMMETRY Interchangeable
SPECIFICATION Spec
INVARIANTS
  RacesAreDetected
CHECK_DEADLOCK FALSE
