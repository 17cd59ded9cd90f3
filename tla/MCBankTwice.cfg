CONSTANTS
  p1 = p1
  p2 = p2
  r1 = r1
  r2 = r2
  Procs <- TwoProcs
  Recs <- OneRec
  Topic <- OwnTopics
  Limit = 1
  Threshold = 1
  ReviewDays = 1
  LastDay = 2
  MaxDoc = 1
  MaxRev = 2
  MaxProms = 2
  MaxByHand = 1
  MaxFaults = 0
  MaxKills = 0
SYMMETRY Interchangeable
SPECIFICATION Spec
INVARIANTS
  OneChunkPerRecord
CHECK_DEADLOCK FALSE
