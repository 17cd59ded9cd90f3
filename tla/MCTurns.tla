------------------------------ MODULE MCTurns ------------------------------
(* TLC instances of TurnBuffer: hooks on a governed and on a lightweight task. *)
EXTENDS TurnBuffer, TLC
CONSTANTS p1, p2, gov, light
TwoProcs == {p1, p2}
BothTasks == {gov, light}
OneGoverned == {gov}
TwoPaths == <<"a.php", "b.php">>
NoneOrBoth == {{}, {"a.php", "b.php"}}
Interchangeable == Permutations(Hooks)
=============================================================================
