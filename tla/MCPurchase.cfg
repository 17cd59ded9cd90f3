\* Two guardians, two answers and a sweep over one request, fair, one failure.
SPECIFICATION FairSpec
CONSTANTS
  NumApprovals = 1
  Guardians = {g1, g2}
  Child = kid
  Sessions = {s1, s2}
  Sweeps = {w1}
  NoOne = NoOne
  Window = 1
  ChunkSize = 1
  MaxTime = 2
  MaxFaults = 1
INVARIANTS
  ExecutedIffApproved
  NoticesMatchCommits
PROPERTIES
  ImplementsOutcome
  OpenRequestsEnd
  OutcomesAreDelivered
