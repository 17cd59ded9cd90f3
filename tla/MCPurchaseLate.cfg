SPECIFICATION Spec
CONSTANTS
  NumApprovals = 1
  Guardians = {g1}
  Child = kid
  Sessions = {s1}
  Sweeps = {w1}
  NoOne = NoOne
  Window = 1
  ChunkSize = 1
  MaxTime = 3
  MaxFaults = 0
INVARIANTS
  NoLateApproval
