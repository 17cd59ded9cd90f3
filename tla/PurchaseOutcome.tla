--------------------------- MODULE PurchaseOutcome ---------------------------
(***************************************************************************)
(* What the purchase approvals promise, without transactions, processes or *)
(* a clock: a purchase is asked for once, settled at most once, and charged*)
(* in the very step that approves it.                                      *)
(***************************************************************************)
EXTENDS Naturals

CONSTANT Approvals

VARIABLES outcome, charges

vars == <<outcome, charges>>

Init ==
  /\ outcome = [a \in Approvals |-> "absent"]
  /\ charges = [a \in Approvals |-> 0]

\* The child asks for approval.
Ask(a) ==
  /\ outcome[a] = "absent"
  /\ outcome' = [outcome EXCEPT ![a] = "pending"]
  /\ UNCHANGED charges

\* A guardian approves, or the child may spend tokens without asking.
Approve(a) ==
  /\ outcome[a] \in {"absent", "pending"}
  /\ outcome' = [outcome EXCEPT ![a] = "approved"]
  /\ charges' = [charges EXCEPT ![a] = @ + 1]

\* A guardian refuses, or nobody answered in time.
Refuse(a) ==
  /\ outcome[a] = "pending"
  /\ \E o \in {"denied", "expired"} : outcome' = [outcome EXCEPT ![a] = o]
  /\ UNCHANGED charges

Next == \E a \in Approvals : Ask(a) \/ Approve(a) \/ Refuse(a)

Spec == Init /\ [][Next]_vars
=============================================================================
