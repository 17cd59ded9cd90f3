-------------------------- MODULE MCImpersonation ---------------------------
(* Impersonation for TLC.                                                  *)
EXTENDS Impersonation, TLC

Symmetry == Permutations(Requests) \cup Permutations(Members)
=============================================================================
