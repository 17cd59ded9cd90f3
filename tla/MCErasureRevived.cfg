SPECIFICATION AccountSpec
CONSTANTS
  admin1 = admin1
  admin2 = admin2
  mother = mother
  son = son
  daughter = daughter
  father = father
  Users = {admin1, admin2, mother, father}
  Admins = {admin1, admin2}
  Profiles = {son, daughter}
  Guardians <- MCGuardians
  Owner <- MCOwner
  Calls = {r1, r2}
  Nobody = Nobody
  MaxRollbacks = 0
  MaxForms = 0
  MaxNotices = 0
SYMMETRY Symmetry
CHECK_DEADLOCK FALSE
PROPERTIES
  ErasureIsFinal
