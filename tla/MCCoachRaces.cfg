SPECIFICATION Spec
CONSTANTS
  Trainers = {east, west}
  Users = {ann, owner}
  Owners = {owner}
  Requests = {r1, r2}
  NoOne = NoOne
  MaxLinks = 3
  MaxFaults = 1
SYMMETRY Symmetry
CHECK_DEADLOCK FALSE
INVARIANTS
  AtMostOneEmployer
  KeepsAnInvitation
PROPERTIES
  EnrolsOnceWhileLive
  ImplementsSlot
