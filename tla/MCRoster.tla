------------------------------ MODULE MCRoster ------------------------------
(* Roster for TLC.                                                         *)
EXTENDS Roster, TLC

Symmetry == Permutations(Requests) \cup Permutations(Players)
=============================================================================
