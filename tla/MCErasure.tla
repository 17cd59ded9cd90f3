------------------------------ MODULE MCErasure ------------------------------
(* AccountErasure for TLC: two Super Admins; a mother, who alone guards    *)
(* a daughter and shares a son with the father.                            *)
EXTENDS AccountErasure, TLC

CONSTANTS admin1, admin2, mother, father, son, daughter

MCGuardians == [c \in Profiles |-> IF c = son THEN {mother, father} ELSE {mother}]
MCOwner     == [c \in Profiles |-> Nobody]

Symmetry == Permutations(Calls) \cup Permutations(Admins)
==============================================================================
