------------------------------- MODULE MCIndex -------------------------------
(* SourceIndex for TLC: a chunk, a skill and its mirror. *)
EXTENDS SourceIndex, TLC
CONSTANTS p1, p2, word
OneProc == {p1}
TwoProcs == {p1, p2}
OneWord == {word}
Candidates == <<"chunk", "skill", "mirror">>
Kinds == [f \in {"chunk", "skill", "mirror"} |-> IF f = "chunk" THEN "memory" ELSE "text"]
Copies == [f \in {"chunk", "skill", "mirror"} |-> IF f = "mirror" THEN "skill" ELSE f]
Interchangeable == Permutations(Procs)
=============================================================================
