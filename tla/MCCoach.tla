------------------------------- MODULE MCCoach -------------------------------
(* CoachEmployment for TLC: two organisations and their invitees.           *)
EXTENDS CoachEmployment, TLC

Symmetry == Permutations(Requests) \cup Permutations(Trainers)
==============================================================================
