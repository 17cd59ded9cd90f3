CONSTANTS
  p1 = p1
  p2 = p2
  task = task
  Procs <- TwoProcs
  Names <- OneName
  Asked <- Finish
  MaxRecords = 2
  MaxRev = 3
  MaxWritten = 3
  MaxMessages = 1
  MaxFails = 1
  MaxKills = 0
SYMMETRY Interchangeable
SPECIFICATION Spec
INVARIANTS
  EveryFailureRestores
