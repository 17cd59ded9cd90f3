SPECIFICATION Spec
CONSTANTS
  NumApprovals = 2
  Guardians = {g1}
  Child = kid
  Sessions = {s1}
  Sweeps = {w1, w2}
  NoOne = NoOne
  Window = 1
  ChunkSize = 1
  MaxTime = 2
  MaxFaults = 0
SYMMETRY Symmetry
INVARIANTS
  AtMostOneStandingCall
  ExpiredOnlyWhenDue
PROPERTIES
  SweepMissesNothing
