------------------------------ MODULE MCBrain ------------------------------
(* BrainRecords for TLC: interchangeable processes. *)
EXTENDS BrainRecords, TLC
CONSTANTS p1, p2, task
TwoProcs == {p1, p2}
OneName == {task}
Finish == {"completed"}
Interchangeable == Permutations(Procs)
=============================================================================
