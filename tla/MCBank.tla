------------------------------- MODULE MCBank -------------------------------
(* MemoryBank for TLC: two records that say the same, or different, things. *)
EXTENDS MemoryBank, TLC
CONSTANTS p1, p2, r1, r2
OneProc == {p1}
TwoProcs == {p1, p2}
OneRec == {r1}
TwoRecs == {r1, r2}
SameTopic == [r \in Recs |-> "a"]
OwnTopics == [r \in Recs |-> r]
Interchangeable == Permutations(Procs)
=============================================================================
