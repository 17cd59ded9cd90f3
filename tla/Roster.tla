------------------------------- MODULE Roster -------------------------------
(***************************************************************************)
(* The player link of one organisation and the roster it fills (FR-006,    *)
(* FR-007, FR-009, BR-007, BR-009): the trainer regenerates the link       *)
(* (GeneratePlayerShareLink), a family joins by it (RedeemShareLink::      *)
(* forPlayer), adds a member without a link (Overview::addTrainer) or      *)
(* removes one (Overview::remove); a job makes the roster inactive.        *)
(*                                                                         *)
(* Requests interleave at their database statements.  Regenerating and     *)
(* joining are transactions that lock links; what they write appears when  *)
(* they commit.  Picking and removing are statements without either.       *)
(***************************************************************************)
EXTENDS Integers, FiniteSets, Functions

CONSTANTS
  Players,    \* the profiles of one family
  Requests,   \* requests that may be in flight together
  MaxLinks,   \* bound: links minted
  MaxRows,    \* bound: associations, live or removed, of one player
  MaxJoins,   \* bound: joins by link
  MaxFaults   \* bound: requests that die

ASSUME RosterAssumption ==
  MaxLinks \in Nat /\ MaxRows \in Nat /\ MaxJoins \in Nat /\ MaxFaults \in Nat

LinkIds == 1..MaxLinks
RowIds  == 1..MaxRows
None    == 0    \* no link, no row

VARIABLES
  minted,   \* share_links of type player minted so far: 1..minted
  link,     \* is_active of each
  uses,     \* uses_count of each
  joined,   \* history: joins committed through it
  told,     \* JoinedTrainer notifications queued for it
  row,      \* trainer_players, by player
  req,
  faults

linkVars == <<minted, link, uses, joined, told>>
vars == <<linkVars, row, req, faults>>

RowRecord == [state : {"none", "live", "removed"}, active : BOOLEAN,
              via : 0..MaxLinks]

\* plan: what associate() will do for a member; target: the row it has found.
RequestRecord == [pc : {"idle", "mint", "locked", "read", "notify", "pick", "remove"},
                  held : SUBSET LinkIds, link : 0..MaxLinks, loaded : Nat,
                  who : SUBSET Players,
                  plan : [Players -> {"keep", "insert", "activate"}],
                  target : [Players -> 0..MaxRows]]

NoRow == [state |-> "none", active |-> FALSE, via |-> None]
Idle  == [pc |-> "idle", held |-> {}, link |-> None, loaded |-> 0, who |-> {},
          plan |-> [p \in Players |-> "keep"], target |-> [p \in Players |-> None]]

TypeOK ==
  /\ minted \in 0..MaxLinks
  /\ link \in [LinkIds -> {"none", "live", "dead"}]
  /\ uses \in [LinkIds -> Nat] /\ joined \in [LinkIds -> Nat]
  /\ told \in [LinkIds -> Nat]
  /\ row \in [Players -> [RowIds -> RowRecord]]
  /\ req \in [Requests -> RequestRecord]
  /\ faults \in 0..MaxFaults

Init ==
  /\ minted = 0
  /\ link = [l \in LinkIds |-> "none"]
  /\ uses = [l \in LinkIds |-> 0] /\ joined = [l \in LinkIds |-> 0]
  /\ told = [l \in LinkIds |-> 0]
  /\ row = [p \in Players |-> [i \in RowIds |-> NoRow]]
  /\ req = [r \in Requests |-> Idle]
  /\ faults = 0

-----------------------------------------------------------------------------
(* GeneratePlayerShareLink::handle, one transaction                        *)

Live == {l \in LinkIds : link[l] = "live"}

\* A link that no transaction has locked.  Mutant: nobody locks it.
LinkFreeAlways(l) == TRUE
LinkFree(l) ==
  \A r \in Requests : /\ req[r].link = l => req[r].pc \notin {"locked", "read"}
                      /\ l \in req[r].held => req[r].pc # "mint"

\* The trainer's live link, locked: a locking read waits for whoever has it.
LockLive(r) ==
  /\ req[r].pc = "idle"
  /\ \A l \in Live : LinkFree(l)
  /\ req' = [req EXCEPT ![r] = [Idle EXCEPT !.pc = "mint", !.held = Live]]
  /\ UNCHANGED <<linkVars, row, faults>>

\* A locking read that found nothing has locked the gap, which others may do
\* too; an INSERT waits for all of them.
GapRivals(r) ==
  {s \in Requests \ {r} : req[s].pc = "mint" /\ req[s].held = {}}

\* The links found are deactivated, a new one is inserted; commit.  Mutant: the
\* old link is not deactivated.
MintBesides(r) ==
  /\ req[r].pc = "mint"
  /\ req[r].held = {} => GapRivals(r) = {}
  /\ minted < MaxLinks
  /\ minted' = minted + 1
  /\ link' = [link EXCEPT ![minted + 1] = "live"]
  /\ req' = [req EXCEPT ![r] = Idle]
  /\ UNCHANGED <<uses, joined, told, row, faults>>

Mint(r) ==
  /\ req[r].pc = "mint"
  /\ req[r].held = {} => GapRivals(r) = {}
  /\ minted < MaxLinks
  /\ minted' = minted + 1
  /\ link' = [l \in LinkIds |-> IF l = minted + 1 THEN "live"
                                ELSE IF l \in req[r].held THEN "dead" ELSE link[l]]
  /\ req' = [req EXCEPT ![r] = Idle]
  /\ UNCHANGED <<uses, joined, told, row, faults>>

\* Two INSERTs wait for each other's gap: InnoDB rolls one of them back.
Deadlock(r) ==
  /\ req[r].pc = "mint" /\ req[r].held = {}
  /\ GapRivals(r) # {}
  /\ req' = [req EXCEPT ![r] = Idle]
  /\ UNCHANGED <<linkVars, row, faults>>

-----------------------------------------------------------------------------
(* RedeemShareLink::forPlayer, one transaction                             *)

\* ShareLink::isRedeemable; a player link has neither max_uses nor expires_at.
\* Mutant: a deactivated link will do.
IsKnown(l) == link[l] # "none"
IsRedeemable(l) == link[l] = "live"

\* lockRedeemable.  The ids outside the family are already dropped from who.
StartJoin(r, l, who) ==
  /\ req[r].pc = "idle"
  /\ LinkFree(l) /\ IsRedeemable(l)
  /\ req' = [req EXCEPT ![r] = [Idle EXCEPT !.pc = "locked", !.link = l,
                                            !.loaded = uses[l], !.who = who]]
  /\ UNCHANGED <<linkVars, row, faults>>

LiveRows(p) == {i \in RowIds : row[p][i].state = "live"}

\* Mutant: associate() writes without looking.
AlwaysInsert(p, i) == IF i \in LiveRows(p) \cup {None} THEN "insert" ELSE "keep"

\* associate(): for one member, what follows from the row i that is found.
PlanFor(p, i) == IF i = None THEN "insert"
                 ELSE IF row[p][i].active THEN "keep" ELSE "activate"

\* The rows associate() finds for the members of who: one live row of each.
FoundFor(who) ==
  {t \in [Players -> 0..MaxRows] :
     \A p \in Players : IF p \notin who \/ LiveRows(p) = {} THEN t[p] = None
                        ELSE t[p] \in LiveRows(p)}

Read(r, pc, who) ==
  \E t \in FoundFor(who) :
    req' = [req EXCEPT ![r] =
              [req[r] EXCEPT !.pc = pc, !.who = who, !.target = t,
                             !.plan = [p \in Players |-> PlanFor(p, t[p])]]]

ReadRoster(r) ==
  /\ req[r].pc = "locked"
  /\ Read(r, "read", req[r].who)
  /\ UNCHANGED <<linkVars, row, faults>>

HasRoom(p) == \E i \in RowIds : row[p][i].state = "none"
NewRow(p)  == CHOOSE i \in RowIds : row[p][i].state = "none"

\* associate() for every member of who, by what it has read.
Associate(r, via) ==
  /\ \A p \in req[r].who : req[r].plan[p] = "insert" => HasRoom(p)
  /\ row' = [p \in Players |->
       IF p \notin req[r].who \/ req[r].plan[p] = "keep" THEN row[p]
       ELSE IF req[r].plan[p] = "insert"
       THEN [row[p] EXCEPT ![NewRow(p)] = [state |-> "live", active |-> TRUE, via |-> via]]
       ELSE [i \in RowIds |-> [row[p][i] EXCEPT
               !.active = (i = req[r].target[p] \/ row[p][i].active)]]]

\* consume(): one use more than the count that was loaded.
Consumed(loaded) == loaded + 1

\* Bound.
JoinsLeft == FoldFunction(+, 0, joined) < MaxJoins

\* The rows, then the count; commit.  A redemption that enrols nobody is no use
\* of the link.
Join(r) ==
  LET l == req[r].link IN
  /\ req[r].pc = "read"
  /\ Associate(r, l)
  /\ IF req[r].who = {}
     THEN /\ req' = [req EXCEPT ![r] = Idle]
          /\ UNCHANGED <<uses, joined>>
     ELSE /\ JoinsLeft
          /\ uses' = [uses EXCEPT ![l] = Consumed(req[r].loaded)]
          /\ joined' = [joined EXCEPT ![l] = @ + 1]
          /\ req' = [req EXCEPT ![r] = [Idle EXCEPT !.pc = "notify", !.link = l]]
  /\ UNCHANGED <<minted, link, told, faults>>

\* DB::afterCommit: JoinedTrainer is queued.
Greet(r) ==
  /\ req[r].pc = "notify"
  /\ told' = [told EXCEPT ![req[r].link] = @ + 1]
  /\ req' = [req EXCEPT ![r] = Idle]
  /\ UNCHANGED <<minted, link, uses, joined, row, faults>>

-----------------------------------------------------------------------------
(* Overview, DeactivateRosterAssociations                                  *)

\* addTrainer: the organisation must be in reach of the family, and then
\* associate() reads, outside any transaction.
StartPick(r, p) ==
  /\ req[r].pc = "idle"
  /\ \E q \in Players : \E i \in LiveRows(q) : row[q][i].active
  /\ Read(r, "pick", {p})
  /\ UNCHANGED <<linkVars, row, faults>>

Pick(r) ==
  /\ req[r].pc = "pick"
  /\ Associate(r, None)
  /\ req' = [req EXCEPT ![r] = Idle]
  /\ UNCHANGED <<linkVars, faults>>

\* remove: the association is loaded ...
StartRemove(r, p, i) ==
  /\ req[r].pc = "idle"
  /\ i \in LiveRows(p)
  /\ req' = [req EXCEPT ![r] = [Idle EXCEPT !.pc = "remove", !.who = {p},
                                            !.target = [Idle.target EXCEPT ![p] = i]]]
  /\ UNCHANGED <<linkVars, row, faults>>

\* ... and soft-deleted by its key.
Remove(r) ==
  /\ req[r].pc = "remove"
  /\ row' = [p \in Players |->
       [i \in RowIds |-> IF p \in req[r].who /\ i = req[r].target[p]
                         THEN [row[p][i] EXCEPT !.state = "removed"] ELSE row[p][i]]]
  /\ req' = [req EXCEPT ![r] = Idle]
  /\ UNCHANGED <<linkVars, faults>>

\* The job: one UPDATE of every association that is not removed.
Deactivate ==
  /\ row' = [p \in Players |-> [i \in RowIds |->
               IF i \in LiveRows(p) THEN [row[p][i] EXCEPT !.active = FALSE]
               ELSE row[p][i]]]
  /\ UNCHANGED <<linkVars, req, faults>>

\* A request dies: an open transaction is undone, a notification never queued.
Die(r) ==
  /\ req[r].pc # "idle"
  /\ faults < MaxFaults
  /\ faults' = faults + 1
  /\ req' = [req EXCEPT ![r] = Idle]
  /\ UNCHANGED <<linkVars, row>>

Next ==
  \/ \E r \in Requests :
       \/ LockLive(r) \/ Mint(r) \/ Deadlock(r)
       \/ \E l \in LinkIds, who \in SUBSET Players : StartJoin(r, l, who)
       \/ ReadRoster(r) \/ Join(r) \/ Greet(r)
       \/ \E p \in Players : StartPick(r, p)
       \/ \E p \in Players, i \in RowIds : StartRemove(r, p, i)
       \/ Pick(r) \/ Remove(r) \/ Die(r)
  \/ Deactivate

Spec == Init /\ [][Next]_vars

-----------------------------------------------------------------------------
(* What must hold.                                                         *)

\* "The previous one no longer works" (ShareLinks::regenerate), and there is
\* always one that does: from the first mint on exactly one link is live, with
\* several regenerations, deadlocks and rollbacks under way.
ExactlyOneLiveLink ==
  minted > 0 => \E l \in LinkIds : Live = {l}

\* A link that has been replaced enrols nobody (BR-009), even for a family that
\* opened it while it was live.
RevokedLinksEnrolNobody ==
  [][\A p \in Players, i \in RowIds :
       row[p][i].state = "none" /\ row'[p][i].state # "none"
         => row'[p][i].via = None \/ link[row'[p][i].via] = "live"]_vars

\* No use of a link is lost, although consume() writes a count it has loaded.
UsesCountJoins == uses = joined

\* Joining twice is a no-op (BR-007): of the live rows of a player at most one
\* came by a link, whoever of the family joins, by whichever link.
LinkRowsAreUnique ==
  \A p \in Players : \A i, j \in LiveRows(p) :
    row[p][i].via # None /\ row[p][j].via # None => i = j

\* "a live association is unique" (the migration of trainer_players).  The
\* unique index does not see to it, since deleted_at is NULL in every live row.
LiveRowsAreUnique == \A p \in Players : \A i, j \in LiveRows(p) : i = j
=============================================================================
