\* Two lifecycle requests, an edit form, a queued notification and a rollback.
SPECIFICATION AccountSpec
CONSTANTS
  admin1 = admin1
  mother = mother
  father = father
  son = son
  daughter = daughter
  admin2 = admin2
  Users = {admin1, mother, father}
  Admins = {admin1}
  Profiles = {son, daughter}
  Guardians <- MCGuardians
  Owner <- MCOwner
  Calls = {r1, r2}
  Nobody = Nobody
  MaxRollbacks = 1
  MaxForms = 1
  MaxNotices = 1
SYMMETRY Symmetry
CHECK_DEADLOCK FALSE
INVARIANTS
  EveryErasureIsLogged
PROPERTIES
  SharedProfilesSurvive
