SPECIFICATION Spec
CONSTANTS
  Players = {ann, ben}
  Requests = {r1, r2}
  MaxLinks = 2
  MaxRows = 2
  MaxJoins = 2
  MaxFaults = 1
SYMMETRY Symmetry
CHECK_DEADLOCK FALSE
INVARIANTS
  ExactlyOneLiveLink
  UsesCountJoins
  LinkRowsAreUnique
PROPERTIES
  RevokedLinksEnrolNobody
