---------------------------- MODULE RecordLedger ----------------------------
(***************************************************************************)
(* What the Project Brain promises of its records, whatever becomes of the *)
(* command that touches them: a record is created at revision 1 in its     *)
(* first status, every change raises its revision by one along its         *)
(* lifecycle, and archiving moves a terminal record and changes nothing    *)
(* in it.  Several records may change in one step.                         *)
(***************************************************************************)
EXTENDS Naturals

CONSTANTS Ids,          \* the records' UUIDs
          Absent,       \* the entry of a record that does not exist
          FirstStatus,  \* FirstStatus[kind]: the status a record is born in
          Transitions,  \* Transitions[kind][status]: the statuses it may take next
          Terminal      \* the statuses nothing follows

VARIABLE ledger         \* ledger[i]: [place, kind, name, status, rev]

Created(old, new) == /\ old = Absent
                     /\ new # Absent
                     /\ new.place = "dynamic"
                     /\ new.status = FirstStatus[new.kind]
                     /\ new.rev = 1

Updated(old, new) == /\ old # Absent
                     /\ new = [old EXCEPT !.status = new.status, !.rev = old.rev + 1]
                     /\ old.place = "dynamic"
                     /\ new.status \in {old.status} \cup Transitions[old.kind][old.status]

Archived(old, new) == /\ old # Absent
                      /\ old.place = "dynamic"
                      /\ old.status \in Terminal
                      /\ new = [old EXCEPT !.place = "archive"]

Init == ledger = [i \in Ids |-> Absent]

Next == \A i \in Ids: \/ ledger'[i] = ledger[i]
                      \/ Created(ledger[i], ledger'[i])
                      \/ Updated(ledger[i], ledger'[i])
                      \/ Archived(ledger[i], ledger'[i])

Spec == Init /\ [][Next]_ledger
=============================================================================
