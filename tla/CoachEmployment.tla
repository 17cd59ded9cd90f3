--------------------------- MODULE CoachEmployment ---------------------------
(***************************************************************************)
(* Coaching staff (FR-008, FR-014, BR-006, BR-009): a trainer invites an   *)
(* address (InviteCoach::handle), re-sends an invitation                   *)
(* (InviteCoach::resend), the invitee accepts it (AcceptCoachInvitation,   *)
(* RedeemShareLink), the trainer releases the coach (ReleaseCoach).        *)
(*                                                                         *)
(* Requests interleave at their database statements.  Accepting is one     *)
(* transaction that locks the link and then the coach's rows; its writes   *)
(* appear when it commits.  A locking read that finds no rows is taken to  *)
(* lock nothing: the unique index is then all that stands between two      *)
(* transactions, as the docblock of AcceptCoachInvitation has it.          *)
(***************************************************************************)
EXTENDS FiniteSets, Integers

CONSTANTS
  Trainers,     \* organisations
  Users,        \* accounts; an invitation names the address of one of them
  Owners,       \* the accounts with the role Trainer
  Requests,     \* requests that may be in flight together
  NoOne,
  MaxLinks,     \* bound: coach links minted
  MaxFaults     \* bound: requests that die

ASSUME StaffAssumption ==
  /\ Owners \subseteq Users
  /\ NoOne \notin Trainers \cup Users
  /\ MaxLinks \in Nat /\ MaxFaults \in Nat

LinkIds == 1..MaxLinks
NoLink  == 0

VARIABLES
  minted,    \* links minted so far: 1..minted
  link,      \* share_links of type coach
  sent,      \* links whose CoachInvitation is on its way
  row,       \* coach_profiles.status of an account and an organisation
  role,      \* users.role
  verified,  \* accounts that confirmed their address
  req,
  faults

vars == <<minted, link, sent, row, role, verified, req, faults>>

LinkRecord == [trainer : Trainers \cup {NoOne}, to : Users \cup {NoOne},
               live : BOOLEAN, expired : BOOLEAN, uses : Nat,
               replaces : 0..MaxLinks]    \* history: the link it was re-sent for

Unminted == [trainer |-> NoOne, to |-> NoOne, live |-> FALSE, expired |-> FALSE,
             uses |-> 0, replaces |-> NoLink]

RequestRecord == [pc : {"idle", "mint", "mail", "retire", "locked", "guarded", "release"},
                  trainer : Trainers \cup {NoOne}, user : Users \cup {NoOne},
                  link : 0..MaxLinks, new : 0..MaxLinks, flag : BOOLEAN]

Idle == [pc |-> "idle", trainer |-> NoOne, user |-> NoOne, link |-> NoLink,
         new |-> NoLink, flag |-> FALSE]

TypeOK ==
  /\ minted \in 0..MaxLinks
  /\ link \in [LinkIds -> LinkRecord]
  /\ sent \in SUBSET LinkIds
  /\ row \in [Users -> [Trainers -> {"none", "active", "inactive"}]]
  /\ role \in [Users -> {"player", "coach", "trainer"}]
  /\ verified \in SUBSET Users
  /\ req \in [Requests -> RequestRecord]
  /\ faults \in 0..MaxFaults

Init ==
  /\ minted = 0
  /\ link = [l \in LinkIds |-> Unminted]
  /\ sent = {}
  /\ row = [u \in Users |-> [t \in Trainers |-> "none"]]
  /\ role = [u \in Users |-> IF u \in Owners THEN "trainer" ELSE "player"]
  /\ verified = {}
  /\ req = [r \in Requests |-> Idle]
  /\ faults = 0

-----------------------------------------------------------------------------
(* What the requests read.                                                 *)

ActiveSomewhere(u) == \E t \in Trainers : row[u][t] = "active"

\* ShareLink::isRedeemable, with max_uses 1.
IsExhausted(l)  == link[l].uses >= 1
IsRedeemable(l) == link[l].live /\ ~link[l].expired /\ ~IsExhausted(l)

\* lockRedeemable: one acceptance at a time holds the row of a link.
\* Mutant: it is read without a lock.
LinkFreeAlways(l) == TRUE
LinkFree(l) ==
  \A r \in Requests : req[r].link = l => req[r].pc \notin {"locked", "guarded"}

\* The rows of the account that another acceptance has locked (flag).
RowsFree(u) ==
  \A r \in Requests : ~(req[r].pc = "guarded" /\ req[r].user = u /\ req[r].flag)

\* The unique index on active_user_id (BR-006).  Mutant: no such index.
SlotAlwaysFree(u) == TRUE
SlotFree(u) == ~ActiveSomewhere(u)

-----------------------------------------------------------------------------
(* InviteCoach                                                             *)

\* handle: the courtesy check; resend does the same for the link it replaces.
StartInvite(r, t, u) ==
  /\ req[r].pc = "idle"
  /\ ~ActiveSomewhere(u)
  /\ req' = [req EXCEPT ![r] = [Idle EXCEPT !.pc = "mint", !.trainer = t, !.user = u]]
  /\ UNCHANGED <<minted, link, sent, row, role, verified, faults>>

\* Coaches::resend loads the link, whatever its state, and calls resend.
\* Mutant: the old link is retired up front.
StartResendRetiring(r, l) ==
  /\ req[r].pc = "idle" /\ l <= minted
  /\ ~ActiveSomewhere(link[l].to) /\ LinkFree(l)
  /\ req' = [req EXCEPT ![r] = [Idle EXCEPT !.pc = "mint", !.trainer = link[l].trainer,
                                            !.user = link[l].to, !.link = l]]
  /\ link' = [link EXCEPT ![l].live = FALSE]
  /\ UNCHANGED <<minted, sent, row, role, verified, faults>>

StartResend(r, l) ==
  /\ req[r].pc = "idle"
  /\ l <= minted
  /\ ~ActiveSomewhere(link[l].to)
  /\ req' = [req EXCEPT ![r] = [Idle EXCEPT !.pc = "mint", !.trainer = link[l].trainer,
                                            !.user = link[l].to, !.link = l]]
  /\ UNCHANGED <<minted, link, sent, row, role, verified, faults>>

\* The transaction that inserts the link.
Mint(r) ==
  /\ req[r].pc = "mint"
  /\ minted < MaxLinks
  /\ minted' = minted + 1
  /\ link' = [link EXCEPT ![minted + 1] =
                [Unminted EXCEPT !.trainer = req[r].trainer, !.to = req[r].user,
                                 !.live = TRUE, !.replaces = req[r].link]]
  /\ req' = [req EXCEPT ![r] = [req[r] EXCEPT !.pc = "mail", !.new = minted + 1]]
  /\ UNCHANGED <<sent, row, role, verified, faults>>

\* DB::afterCommit: the mail is queued.
Mail(r) ==
  /\ req[r].pc = "mail"
  /\ sent' = sent \cup {req[r].new}
  /\ req' = [req EXCEPT ![r] = IF req[r].link = NoLink THEN Idle
                               ELSE [req[r] EXCEPT !.pc = "retire"]]
  /\ UNCHANGED <<minted, link, row, role, verified, faults>>

\* resend, last: the replaced link is deactivated.
Retire(r) ==
  /\ req[r].pc = "retire"
  /\ LinkFree(req[r].link)
  /\ link' = [link EXCEPT ![req[r].link].live = FALSE]
  /\ req' = [req EXCEPT ![r] = Idle]
  /\ UNCHANGED <<minted, sent, row, role, verified, faults>>

-----------------------------------------------------------------------------
(* AcceptCoachInvitation::handle, one transaction                          *)

\* guardAgainstAnIneligibleRole.  Mutant: left out.
AnyRole(u) == TRUE
MayCoach(u) == role[u] \in {"player", "coach"}

\* lockRedeemable, the address, its verification, the role.
StartAccept(r, l) ==
  /\ req[r].pc = "idle"
  /\ l \in sent
  /\ LinkFree(l) /\ IsRedeemable(l)
  /\ link[l].to \in verified
  /\ MayCoach(link[l].to)
  /\ req' = [req EXCEPT ![r] = [Idle EXCEPT !.pc = "locked", !.user = link[l].to,
                                            !.trainer = link[l].trainer, !.link = l]]
  /\ UNCHANGED <<minted, link, sent, row, role, verified, faults>>

\* guardAgainstAnActiveElsewhere: a locking read of the account's rows.
Guard(r) ==
  LET u == req[r].user IN
  /\ req[r].pc = "locked"
  /\ RowsFree(u)
  /\ req' = [req EXCEPT ![r] =
               IF ActiveSomewhere(u) THEN Idle
               ELSE [req[r] EXCEPT
                       !.pc = "guarded",
                       !.flag = \E t \in Trainers : row[u][t] # "none"]]
  /\ UNCHANGED <<minted, link, sent, row, role, verified, faults>>

\* The row is written, the role, the link (consume); commit.
Enrol(r) ==
  LET u == req[r].user  l == req[r].link IN
  /\ req[r].pc = "guarded"
  /\ SlotFree(u)
  /\ row' = [row EXCEPT ![u] = [row[u] EXCEPT ![req[r].trainer] = "active"]]
  /\ role' = [role EXCEPT ![u] = "coach"]
  /\ link' = [link EXCEPT ![l] = [link[l] EXCEPT !.uses = link[l].uses + 1,
                                                 !.live = FALSE]]
  /\ req' = [req EXCEPT ![r] = Idle]
  /\ UNCHANGED <<minted, sent, verified, faults>>

\* The index refuses the row: a ValidationException, everything is undone.
Refuse(r) ==
  /\ req[r].pc = "guarded"
  /\ ~SlotFree(req[r].user)
  /\ req' = [req EXCEPT ![r] = Idle]
  /\ UNCHANGED <<minted, link, sent, row, role, verified, faults>>

-----------------------------------------------------------------------------
(* ReleaseCoach                                                            *)

\* Coaches::release loads the row; flag: save() will have something to write.
StartRelease(r, t, u) ==
  /\ req[r].pc = "idle"
  /\ row[u][t] # "none"
  /\ req' = [req EXCEPT ![r] = [Idle EXCEPT !.pc = "release", !.trainer = t, !.user = u,
                                            !.flag = row[u][t] = "active"]]
  /\ UNCHANGED <<minted, link, sent, row, role, verified, faults>>

\* CoachStatus::Inactive.
Released == "inactive"

Release(r) ==
  /\ req[r].pc = "release"
  /\ RowsFree(req[r].user)
  /\ row' = IF req[r].flag
            THEN [row EXCEPT ![req[r].user] =
                    [row[req[r].user] EXCEPT ![req[r].trainer] = Released]]
            ELSE row
  /\ req' = [req EXCEPT ![r] = Idle]
  /\ UNCHANGED <<minted, link, sent, role, verified, faults>>

-----------------------------------------------------------------------------
(* The world                                                               *)

\* The process dies, or a statement throws: an open transaction is undone.
Die(r) ==
  /\ req[r].pc # "idle"
  /\ faults < MaxFaults
  /\ faults' = faults + 1
  /\ req' = [req EXCEPT ![r] = Idle]
  /\ UNCHANGED <<minted, link, sent, row, role, verified>>

\* Seven days pass.
Expire(l) ==
  /\ l <= minted /\ ~link[l].expired
  /\ link' = [link EXCEPT ![l].expired = TRUE]
  /\ UNCHANGED <<minted, sent, row, role, verified, req, faults>>

\* The invitee follows the verification mail.
Verify(u) ==
  /\ u \notin verified
  /\ verified' = verified \cup {u}
  /\ UNCHANGED <<minted, link, sent, row, role, req, faults>>

Next ==
  \/ \E r \in Requests :
       \/ \E t \in Trainers, u \in Users : StartInvite(r, t, u) \/ StartRelease(r, t, u)
       \/ \E l \in LinkIds : StartResend(r, l) \/ StartAccept(r, l)
       \/ Mint(r) \/ Mail(r) \/ Retire(r)
       \/ Guard(r) \/ Enrol(r) \/ Refuse(r)
       \/ Release(r) \/ Die(r)
  \/ \E l \in LinkIds : Expire(l)
  \/ \E u \in Users : Verify(u)

Spec == Init /\ [][Next]_vars

-----------------------------------------------------------------------------
(* What must hold.                                                         *)

\* BR-006: an account is active under at most one organisation, however many
\* of its invitations are accepted at the same time.
AtMostOneEmployer ==
  \A u \in Users, t1, t2 \in Trainers :
    row[u][t1] = "active" /\ row[u][t2] = "active" => t1 = t2

\* BR-009: a coach link enrols once, and only while it is live: not after the
\* re-send that says "The previous link no longer works" is through.
EnrolsOnceWhileLive ==
  [][\A l \in 1..minted : link'[l].uses # link[l].uses =>
       link[l].live /\ link[l].uses = 0 /\ link'[l].uses = 1]_vars

\* InviteCoach::resend mints first: whenever a request dies, a link that was
\* deactivated has been used, or its replacement is on its way.
KeepsAnInvitation ==
  \A l \in 1..minted :
    link[l].live \/ IsExhausted(l) \/ \E m \in sent : link[m].replaces = l

\* The rows and roles change as CoachSlot says: a coach moves to another
\* organisation by a release, and only Players become Coaches.
Employer(u) == IF ActiveSomewhere(u) THEN CHOOSE t \in Trainers : row[u][t] = "active"
               ELSE NoOne
Slot == INSTANCE CoachSlot WITH employer <- [u \in Users |-> Employer(u)]
ImplementsSlot == Slot!Spec

\* "Re-issuing to the same address supersedes the previous link rather than
\* stacking codes" (InviteCoach::resend): when nothing is in flight and nothing
\* has failed, an address has no more live links than it was invited.
LinksTo(t, u) == {l \in 1..minted : link[l].trainer = t /\ link[l].to = u}
ResendDoesNotStack ==
  (\A r \in Requests : req[r].pc = "idle") /\ faults = 0 =>
    \A t \in Trainers, u \in Users :
      Cardinality({l \in LinksTo(t, u) : link[l].live}) <=
        Cardinality({l \in LinksTo(t, u) : link[l].replaces = NoLink})

\* "Coach released. They are now free to join another organisation": a release
\* that went through leaves the row inactive.
ReleaseFrees ==
  [][\A r \in Requests :
       req[r].pc = "release" /\ req'[r].pc = "idle" /\ faults' = faults =>
         row'[req[r].user][req[r].trainer] # "active"]_vars
=============================================================================
