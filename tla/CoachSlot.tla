------------------------------ MODULE CoachSlot ------------------------------
(***************************************************************************)
(* What the coaching staff of the platform promises (BR-006, G-11): an     *)
(* account works for at most one organisation, and moves to another only   *)
(* by an explicit release, never by an implicit steal.  Only Players may   *)
(* become Coaches.                                                         *)
(***************************************************************************)
CONSTANTS Trainers, Users, NoOne

VARIABLES employer, role

Init ==
  /\ employer = [u \in Users |-> NoOne]
  /\ role \in [Users -> {"player", "coach", "trainer"}]

Hire(u, t) ==
  /\ employer[u] = NoOne
  /\ role[u] \in {"player", "coach"}
  /\ employer' = [employer EXCEPT ![u] = t]
  /\ role' = [role EXCEPT ![u] = "coach"]

LetGo(u) ==
  /\ employer[u] # NoOne
  /\ employer' = [employer EXCEPT ![u] = NoOne]
  /\ UNCHANGED role

Next == \E u \in Users : LetGo(u) \/ \E t \in Trainers : Hire(u, t)

Spec == Init /\ [][Next]_<<employer, role>>
==============================================================================
