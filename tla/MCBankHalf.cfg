CONSTANTS
  p1 = p1
  p2 = p2
  r1 = r1
  r2 = r2
  Procs <- TwoProcs
  Recs <- TwoRecs
  Topic <- OwnTopics
  Limit = 2
  Threshold = 1
  ReviewDays = 1
  LastDay = 2
  MaxDoc = 1
  MaxRev = 2
  MaxProms = 2
  MaxByHand = 1
  MaxFaults = 1
  MaxKills = 1
SYMMETRY Interchangeable
SPECIFICATION Spec
INVARIANTS
  LinksStandOnBothSides
CHECK_DEADLOCK FALSE
