CONSTANTS
  p1 = p1
  p2 = p2
  word = word
  Procs <- TwoProcs
  Order <- Candidates
  Kind <- Kinds
  Skill <- Copies
  Tokens <- OneWord
  LastDay = 2
  MaxEdits = 1
  MaxRuns = 3
SYMMETRY Interchangeable
SPECIFICATION Spec
INVARIANTS
  QuietRunsAreFaithful
  RowsAgree
  FrequenciesMatchRows
CHECK_DEADLOCK FALSE
