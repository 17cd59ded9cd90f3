---------------------------- MODULE RosterProofs ----------------------------
(***************************************************************************)
(* Proofs about Roster, for any family, any number of requests, links and  *)
(* rows.                                                                   *)
(*                                                                         *)
(* Locks is the inductive invariant: what holding a link lock means.  The  *)
(* transactions that are about to mint have locked all live links, and two *)
(* of them are possible only while there is none; a join has locked a live *)
(* link and knows its count; joins exclude each other and every mint; and  *)
(* what a join is about to insert for a member nobody has inserted by a    *)
(* link in the meantime.                                                   *)
(***************************************************************************)
EXTENDS Roster, TLAPS

Joins(r) == req[r].pc \in {"locked", "read"}
Mints(r) == req[r].pc = "mint"

\* The links minted are 1..minted, the last one is live, the others are dead.
LinksInOrder ==
  \A l \in LinkIds : /\ link[l] = "none" <=> l > minted
                     /\ link[l] = "live" <=> l = minted

MintsHoldLive == \A r \in Requests : Mints(r) => req[r].held = Live

MintsExclude ==
  \A r, s \in Requests : Mints(r) /\ Mints(s) /\ r # s => Live = {}

JoinsHoldLink ==
  \A r \in Requests : Joins(r) =>
    /\ req[r].link \in LinkIds /\ link[req[r].link] = "live"
    /\ req[r].loaded = uses[req[r].link]

JoinsExclude ==
  \A r, s \in Requests : Joins(r) => ~Mints(s) /\ (Joins(s) => r = s)

ByLink(p) == {i \in LiveRows(p) : row[p][i].via # None}

InsertsAreFirst ==
  \A r \in Requests : req[r].pc = "read" =>
    \A p \in req[r].who : req[r].plan[p] = "insert" => ByLink(p) = {}

Locks == /\ LinksInOrder /\ MintsHoldLive /\ MintsExclude
         /\ JoinsHoldLink /\ JoinsExclude

\* An idle request is a request, and so is one just begun.
LEMMA IdleType == Idle \in RequestRecord
  BY RosterAssumption DEF Idle, RequestRecord, None

\* The state in which a join that enrolled somebody goes on.
LEMMA NotifyPc ==
  ASSUME NEW l \in 0..MaxLinks
  PROVE  [Idle EXCEPT !.pc = "notify", !.link = l].pc = "notify"
  BY IdleType DEF RequestRecord

LEMMA NoRowType == NoRow \in RowRecord
  BY RosterAssumption DEF NoRow, RowRecord, None
LEMMA PlanType ==
  ASSUME TypeOK, NEW p \in Players, NEW i \in 0..MaxRows
  PROVE  PlanFor(p, i) \in {"keep", "insert", "activate"}
  BY DEF PlanFor

\* Reading the roster fills in the plan and the targets of a request.
LEMMA ReadType ==
  ASSUME TypeOK, NEW r \in Requests, NEW pc \in {"read", "pick"},
         NEW who \in SUBSET Players, Read(r, pc, who)
  PROVE  req' \in [Requests -> RequestRecord]
<1>1. PICK t \in FoundFor(who) :
        req' = [req EXCEPT ![r] =
                  [req[r] EXCEPT !.pc = pc, !.who = who, !.target = t,
                                 !.plan = [p \in Players |-> PlanFor(p, t[p])]]]
  BY DEF Read
<1>2. t \in [Players -> 0..MaxRows]
  BY DEF FoundFor
<1>3. [p \in Players |-> PlanFor(p, t[p])]
        \in [Players -> {"keep", "insert", "activate"}]
  BY <1>2, PlanType
<1>4. req[r] \in RequestRecord
  BY DEF TypeOK
<1>5. [req[r] EXCEPT !.pc = pc, !.who = who, !.target = t,
                     !.plan = [p \in Players |-> PlanFor(p, t[p])]]
        \in RequestRecord
  BY <1>2, <1>3, <1>4 DEF RequestRecord
<1> QED
  BY <1>1, <1>5 DEF TypeOK

LEMMA NewRowIsFree ==
  ASSUME NEW p \in Players, HasRoom(p)
  PROVE  NewRow(p) \in RowIds /\ row[p][NewRow(p)].state = "none"
  BY DEF HasRoom, NewRow

\* One row of one member, as associate() leaves it.
LEMMA AssociateType ==
  ASSUME TypeOK, NEW r \in Requests, NEW via \in 0..MaxLinks, Associate(r, via)
  PROVE  row' \in [Players -> [RowIds -> RowRecord]]
<1> SUFFICES ASSUME NEW p \in Players PROVE row'[p] \in [RowIds -> RowRecord]
  BY DEF Associate
<1>1. row[p] \in [RowIds -> RowRecord]
  BY DEF TypeOK
<1>2. CASE p \notin req[r].who \/ req[r].plan[p] = "keep"
  BY <1>1, <1>2 DEF Associate
<1>3. CASE p \in req[r].who /\ req[r].plan[p] = "insert"
  <2>1. NewRow(p) \in RowIds
    BY <1>3, NewRowIsFree DEF Associate
  <2>2. row'[p] = [row[p] EXCEPT ![NewRow(p)] =
                     [state |-> "live", active |-> TRUE, via |-> via]]
    BY <1>3 DEF Associate
  <2>3. [state |-> "live", active |-> TRUE, via |-> via] \in RowRecord
    BY DEF RowRecord
  <2> QED
    BY <1>1, <2>1, <2>2, <2>3
<1>4. CASE p \in req[r].who /\ req[r].plan[p] \notin {"keep", "insert"}
  <2>1. row'[p] = [i \in RowIds |-> [row[p][i] EXCEPT
                     !.active = (i = req[r].target[p] \/ row[p][i].active)]]
    BY <1>4 DEF Associate
  <2>2. ASSUME NEW i \in RowIds PROVE row'[p][i] \in RowRecord
    <3>1. row[p][i] \in RowRecord
      BY <1>1
    <3>2. row'[p][i] = [row[p][i] EXCEPT
                          !.active = (i = req[r].target[p] \/ row[p][i].active)]
      BY <2>1
    <3>3. (i = req[r].target[p] \/ row[p][i].active) \in BOOLEAN
      OBVIOUS
    <3> HIDE DEF RowIds
    <3> QED
      BY <3>1, <3>2, <3>3 DEF RowRecord
  <2> QED
    BY <2>1, <2>2
<1> QED
  BY <1>2, <1>3, <1>4

THEOREM TypeCorrect == Spec => []TypeOK
<1>1. Init => TypeOK
  BY IdleType, NoRowType, RosterAssumption DEF Init, TypeOK
<1>2. TypeOK /\ [Next]_vars => TypeOK'
  <2> SUFFICES ASSUME TypeOK, [Next]_vars PROVE TypeOK'
    OBVIOUS
  <2> USE RosterAssumption, IdleType
  <2>1. ASSUME NEW r \in Requests, LockLive(r) PROVE TypeOK'
    <3>1. [Idle EXCEPT !.pc = "mint", !.held = Live] \in RequestRecord
      BY DEF Idle, RequestRecord, None, Live
    <3> QED
      BY <2>1, <3>1 DEF LockLive, TypeOK, linkVars
  <2>2. ASSUME NEW r \in Requests, Mint(r) PROVE TypeOK'
    BY <2>2 DEF Mint, TypeOK
  <2>3. ASSUME NEW r \in Requests, Deadlock(r) PROVE TypeOK'
    BY <2>3 DEF Deadlock, TypeOK, linkVars
  <2>4. ASSUME NEW r \in Requests, NEW l \in LinkIds, NEW who \in SUBSET Players,
               StartJoin(r, l, who)
        PROVE  TypeOK'
    <3>1. [Idle EXCEPT !.pc = "locked", !.link = l, !.loaded = uses[l], !.who = who]
            \in RequestRecord
      <4>1. uses[l] \in Nat /\ l \in 0..MaxLinks
        BY DEF TypeOK, LinkIds
      <4> QED
        BY <4>1 DEF Idle, RequestRecord, None
    <3> QED
      BY <2>4, <3>1 DEF StartJoin, TypeOK, linkVars
  <2>5. ASSUME NEW r \in Requests, ReadRoster(r) PROVE TypeOK'
    <3>1. req[r].who \in SUBSET Players
      BY DEF TypeOK, RequestRecord
    <3>2. req' \in [Requests -> RequestRecord]
      BY <2>5, <3>1, ReadType DEF ReadRoster
    <3> QED
      BY <2>5, <3>2 DEF ReadRoster, TypeOK, linkVars
  <2>6. ASSUME NEW r \in Requests, Join(r) PROVE TypeOK'
    <3>1. req[r] \in RequestRecord
      BY DEF TypeOK
    <3>2. req[r].link \in 0..MaxLinks /\ req[r].loaded \in Nat
      BY <3>1 DEF RequestRecord
    <3>3. row' \in [Players -> [RowIds -> RowRecord]]
      BY <2>6, <3>2, AssociateType DEF Join
    <3>4. [Idle EXCEPT !.pc = "notify", !.link = req[r].link] \in RequestRecord
      BY <3>2 DEF Idle, RequestRecord, None
    <3>5. req' \in [Requests -> RequestRecord]
      BY <2>6, <3>4 DEF Join, TypeOK
    <3>6. uses' \in [LinkIds -> Nat] /\ joined' \in [LinkIds -> Nat]
      BY <2>6, <3>2 DEF Join, TypeOK, Consumed
    <3>7. UNCHANGED <<minted, link, told, faults>>
      BY <2>6 DEF Join
    <3> QED
      BY <3>3, <3>5, <3>6, <3>7 DEF TypeOK
  <2>7. ASSUME NEW r \in Requests, Greet(r) PROVE TypeOK'
    <3>1. told' \in [LinkIds -> Nat]
      <4>1. CASE req[r].link \in LinkIds
        BY <2>7, <4>1 DEF Greet, TypeOK
      <4>2. CASE req[r].link \notin LinkIds
        BY <2>7, <4>2 DEF Greet, TypeOK
      <4> QED
        BY <4>1, <4>2
    <3>2. req' \in [Requests -> RequestRecord]
      BY <2>7 DEF Greet, TypeOK
    <3> QED
      BY <2>7, <3>1, <3>2 DEF Greet, TypeOK
  <2>8. ASSUME NEW r \in Requests, NEW p \in Players, StartPick(r, p) PROVE TypeOK'
    <3>1. req' \in [Requests -> RequestRecord]
      BY <2>8, ReadType DEF StartPick
    <3> QED
      BY <2>8, <3>1 DEF StartPick, TypeOK, linkVars
  <2>9. ASSUME NEW r \in Requests, NEW p \in Players, NEW i \in RowIds,
               StartRemove(r, p, i)
        PROVE  TypeOK'
    <3>1. Idle.target \in [Players -> 0..MaxRows]
      BY DEF RequestRecord
    <3>2. [Idle.target EXCEPT ![p] = i] \in [Players -> 0..MaxRows]
      BY <3>1 DEF RowIds
    <3>3. [Idle EXCEPT !.pc = "remove", !.who = {p},
                       !.target = [Idle.target EXCEPT ![p] = i]] \in RequestRecord
      <4> DEFINE t == [Idle.target EXCEPT ![p] = i]
      <4>1. t \in [Players -> 0..MaxRows]
        BY <3>2
      <4> HIDE DEF t
      <4>2. [Idle EXCEPT !.pc = "remove", !.who = {p}, !.target = t] \in RequestRecord
        BY <4>1 DEF Idle, RequestRecord, None
      <4> QED
        BY <4>2 DEF t
    <3>4. req' \in [Requests -> RequestRecord]
      BY <2>9, <3>3 DEF StartRemove, TypeOK
    <3> QED
      BY <2>9, <3>4 DEF StartRemove, TypeOK, linkVars
  <2>10. ASSUME NEW r \in Requests, Pick(r) PROVE TypeOK'
    <3>1. row' \in [Players -> [RowIds -> RowRecord]]
      BY <2>10, AssociateType DEF Pick, None
    <3> QED
      BY <2>10, <3>1 DEF Pick, TypeOK, linkVars
  <2>11. ASSUME NEW r \in Requests, Remove(r) PROVE TypeOK'
    <3>1. ASSUME NEW p \in Players, NEW i \in RowIds PROVE row'[p][i] \in RowRecord
      <4>1. row[p][i] \in RowRecord
        BY DEF TypeOK
      <4>2. row'[p][i] = row[p][i] \/ row'[p][i] = [row[p][i] EXCEPT !.state = "removed"]
        BY <2>11 DEF Remove
      <4> QED
        BY <4>1, <4>2 DEF RowRecord
    <3>2. row' \in [Players -> [RowIds -> RowRecord]]
      BY <2>11, <3>1 DEF Remove
    <3> QED
      BY <2>11, <3>2 DEF Remove, TypeOK, linkVars
  <2>12. ASSUME Deactivate PROVE TypeOK'
    <3>1. ASSUME NEW p \in Players, NEW i \in RowIds PROVE row'[p][i] \in RowRecord
      <4>1. row[p][i] \in RowRecord
        BY DEF TypeOK
      <4>2. row'[p][i] = row[p][i] \/ row'[p][i] = [row[p][i] EXCEPT !.active = FALSE]
        BY <2>12 DEF Deactivate
      <4> QED
        BY <4>1, <4>2 DEF RowRecord
    <3>2. row' \in [Players -> [RowIds -> RowRecord]]
      BY <2>12, <3>1 DEF Deactivate
    <3> QED
      BY <2>12, <3>2 DEF Deactivate, TypeOK, linkVars
  <2>13. ASSUME NEW r \in Requests, Die(r) PROVE TypeOK'
    BY <2>13 DEF Die, TypeOK, linkVars
  <2>14. CASE UNCHANGED vars
    BY <2>14 DEF vars, linkVars, TypeOK
  <2> QED
    BY <2>1, <2>2, <2>3, <2>4, <2>5, <2>6, <2>7, <2>8, <2>9, <2>10, <2>11, <2>12,
       <2>13, <2>14 DEF Next
<1> QED
  BY <1>1, <1>2, PTL DEF Spec
-----------------------------------------------------------------------------

LEMMA LiveIsLast ==
  ASSUME LinksInOrder
  PROVE  Live = {l \in LinkIds : l = minted}
  BY DEF LinksInOrder, Live

\* Steps that leave links and their counts alone, and begin no mint and no join,
\* keep what the locks mean.
LEMMA LocksFrame ==
  ASSUME TypeOK, Locks, NEW r \in Requests, UNCHANGED <<minted, link>>,
         \A s \in Requests : s # r => req'[s] = req[s],
         ~Mints(r)', ~Joins(r)',
         \A s \in Requests : s # r /\ Joins(s) => uses'[req[s].link] = uses[req[s].link]
  PROVE  Locks'
<1>1. Live' = Live /\ LinksInOrder'
  BY DEF Live, Locks, LinksInOrder
<1>2. MintsHoldLive'
  BY <1>1 DEF Locks, MintsHoldLive, Mints
<1>3. MintsExclude'
  BY <1>1 DEF Locks, MintsExclude, Mints
<1>4. JoinsHoldLink'
  <2> SUFFICES ASSUME NEW s \in Requests, Joins(s)'
               PROVE  /\ req'[s].link \in LinkIds /\ link'[req'[s].link] = "live"
                      /\ req'[s].loaded = uses'[req'[s].link]
    BY DEF JoinsHoldLink
  <2>1. s # r /\ req'[s] = req[s]
    OBVIOUS
  <2>2. Joins(s)
    BY <2>1 DEF Joins
  <2> QED
    BY <2>1, <2>2 DEF Locks, JoinsHoldLink
<1>5. JoinsExclude'
  <2> SUFFICES ASSUME NEW s \in Requests, NEW q \in Requests, Joins(s)'
               PROVE  ~Mints(q)' /\ (Joins(q)' => s = q)
    BY DEF JoinsExclude
  <2>1. s # r /\ Joins(s)
    BY DEF Joins
  <2>2. q # r => (Mints(q)' <=> Mints(q)) /\ (Joins(q)' <=> Joins(q))
    BY DEF Joins, Mints
  <2> QED
    BY <2>1, <2>2 DEF Locks, JoinsExclude
<1> QED
  BY <1>1, <1>2, <1>3, <1>4, <1>5 DEF Locks

LEMMA LockLiveKeepsLocks ==
  ASSUME TypeOK, Locks, NEW r \in Requests, LockLive(r)
  PROVE  Locks'
<1>1. /\ UNCHANGED <<minted, link, uses>> /\ Live' = Live /\ LinksInOrder'
  BY DEF LockLive, linkVars, Live, Locks, LinksInOrder
<1>2. /\ req'[r].pc = "mint" /\ req'[r].held = Live
      /\ \A s \in Requests : s # r => req'[s] = req[s]
  BY DEF LockLive, TypeOK, Idle
<1>3. \A s \in Requests : ~Joins(s)
  <2> SUFFICES ASSUME NEW s \in Requests, Joins(s) PROVE FALSE
    OBVIOUS
  <2>1. req[s].link \in Live
    BY DEF Locks, JoinsHoldLink, Live
  <2> QED
    BY <2>1 DEF LockLive, LinkFree, Joins
<1>4. ASSUME NEW s \in Requests, s # r, Mints(s) PROVE Live = {}
  <2>1. req[s].held = Live
    BY <1>4 DEF Locks, MintsHoldLive
  <2> QED
    BY <1>4, <2>1 DEF LockLive, LinkFree, Mints
<1>5. MintsHoldLive'
  BY <1>1, <1>2 DEF Locks, MintsHoldLive, Mints
<1>6. MintsExclude'
  BY <1>1, <1>2, <1>4 DEF MintsExclude, Mints
<1>7. \A s \in Requests : ~Joins(s)'
  BY <1>2, <1>3 DEF Joins
<1> QED
  BY <1>1, <1>5, <1>6, <1>7 DEF Locks, JoinsHoldLink, JoinsExclude

LEMMA MintKeepsLocks ==
  ASSUME TypeOK, Locks, NEW r \in Requests, Mint(r)
  PROVE  Locks'
<1>1. req[r].held = Live /\ Mints(r)
  BY DEF Mint, Mints, Locks, MintsHoldLive
<1>2. \A s \in Requests : ~Joins(s)
  BY <1>1 DEF Locks, JoinsExclude
<1>3. \A s \in Requests : s # r => ~Mints(s)
  <2> SUFFICES ASSUME NEW s \in Requests, s # r, Mints(s) PROVE FALSE
    OBVIOUS
  <2>1. Live = {} /\ req[s].held = Live
    BY <1>1 DEF Locks, MintsExclude, MintsHoldLive
  <2>2. s \in GapRivals(r)
    BY <2>1 DEF GapRivals, Mints
  <2> QED
    BY <1>1, <2>1, <2>2 DEF Mint
<1>4. \A s \in Requests : ~Mints(s)' /\ ~Joins(s)'
  <2> SUFFICES ASSUME NEW s \in Requests PROVE ~Mints(s)' /\ ~Joins(s)'
    OBVIOUS
  <2>1. req'[s] = Idle \/ (s # r /\ req'[s] = req[s])
    BY DEF Mint, TypeOK
  <2> QED
    BY <1>2, <1>3, <2>1 DEF Mints, Joins, Idle
<1>5. LinksInOrder'
  <2> SUFFICES ASSUME NEW l \in LinkIds
               PROVE  /\ link'[l] = "none" <=> l > minted'
                      /\ link'[l] = "live" <=> l = minted'
    BY DEF LinksInOrder
  <2>1. minted \in Nat /\ minted' = minted + 1 /\ l \in Nat
    BY RosterAssumption DEF Mint, TypeOK, LinkIds
  <2>2. link'[l] = IF l = minted + 1 THEN "live"
                   ELSE IF l \in Live THEN "dead" ELSE link[l]
    BY <1>1 DEF Mint
  <2>3. l \in Live <=> l = minted
    BY LiveIsLast DEF Locks
  <2>4. /\ link[l] = "none" <=> l > minted
        /\ link[l] = "live" <=> l = minted
    BY DEF Locks, LinksInOrder
  <2> QED
    BY <2>1, <2>2, <2>3, <2>4
<1> QED
  BY <1>4, <1>5 DEF Locks, MintsHoldLive, MintsExclude, JoinsHoldLink, JoinsExclude
LEMMA StartJoinKeepsLocks ==
  ASSUME TypeOK, Locks, NEW r \in Requests, NEW l \in LinkIds,
         NEW who \in SUBSET Players, StartJoin(r, l, who)
  PROVE  Locks'
<1>1. /\ UNCHANGED <<minted, link, uses>> /\ Live' = Live /\ LinksInOrder'
  BY DEF StartJoin, linkVars, Live, Locks, LinksInOrder
<1>2. /\ req'[r].pc = "locked" /\ req'[r].link = l /\ req'[r].loaded = uses[l]
      /\ \A s \in Requests : s # r => req'[s] = req[s]
  BY DEF StartJoin, TypeOK, Idle
<1>3. link[l] = "live" /\ l \in Live /\ Live = {l}
  BY LiveIsLast DEF StartJoin, IsRedeemable, Live, Locks
<1>4. ASSUME NEW s \in Requests PROVE ~Joins(s)
  <2> SUFFICES ASSUME Joins(s) PROVE FALSE
    OBVIOUS
  <2>1. req[s].link = l
    BY <1>3 DEF Locks, JoinsHoldLink, Live
  <2> QED
    BY <2>1 DEF StartJoin, LinkFree, Joins
<1>5. ASSUME NEW s \in Requests PROVE ~Mints(s)
  <2> SUFFICES ASSUME Mints(s) PROVE FALSE
    OBVIOUS
  <2>1. l \in req[s].held
    BY <1>3 DEF Locks, MintsHoldLive
  <2> QED
    BY <2>1 DEF StartJoin, LinkFree, Mints
<1>6. \A s \in Requests : ~Mints(s)' /\ (Joins(s)' <=> s = r)
  BY <1>2, <1>4, <1>5 DEF Mints, Joins
<1>7. JoinsHoldLink'
  BY <1>1, <1>2, <1>3, <1>6 DEF JoinsHoldLink
<1> QED
  BY <1>1, <1>6, <1>7 DEF Locks, MintsHoldLive, MintsExclude, JoinsExclude

LEMMA ReadRosterKeepsLocks ==
  ASSUME TypeOK, Locks, NEW r \in Requests, ReadRoster(r)
  PROVE  Locks'
<1>1. /\ UNCHANGED <<minted, link, uses>> /\ Live' = Live /\ LinksInOrder'
  BY DEF ReadRoster, linkVars, Live, Locks, LinksInOrder
<1>2. /\ req'[r].pc = "read" /\ req'[r].link = req[r].link
      /\ req'[r].loaded = req[r].loaded /\ Joins(r)
      /\ \A s \in Requests : s # r => req'[s] = req[s]
  BY DEF ReadRoster, Read, TypeOK, RequestRecord, Joins
<1>3. \A s \in Requests : (Joins(s)' <=> Joins(s)) /\ (Mints(s)' <=> Mints(s))
  BY <1>2 DEF Joins, Mints
<1>4. MintsHoldLive'
  <2> SUFFICES ASSUME NEW s \in Requests, Mints(s)' PROVE req'[s].held = Live'
    BY DEF MintsHoldLive
  <2>1. Mints(s) /\ s # r
    BY <1>2, <1>3 DEF Mints, Joins
  <2> QED
    BY <1>1, <1>2, <2>1 DEF Locks, MintsHoldLive
<1>5. MintsExclude' /\ JoinsExclude'
  BY <1>1, <1>3 DEF Locks, MintsExclude, JoinsExclude
<1>6. JoinsHoldLink'
  BY <1>1, <1>2, <1>3 DEF Locks, JoinsHoldLink
<1> QED
  BY <1>1, <1>4, <1>5, <1>6 DEF Locks

LEMMA JoinKeepsLocks ==
  ASSUME TypeOK, Locks, NEW r \in Requests, Join(r)
  PROVE  Locks'
<1>1. /\ UNCHANGED <<minted, link>> /\ Joins(r)
      /\ \A s \in Requests : s # r => req'[s] = req[s]
  BY DEF Join, TypeOK, Joins
<1>2. ~Mints(r)' /\ ~Joins(r)'
  <2>1. req'[r] = Idle \/ req'[r] = [Idle EXCEPT !.pc = "notify", !.link = req[r].link]
    <3>1. CASE req[r].who = {}
      BY <3>1 DEF Join, TypeOK
    <3>2. CASE req[r].who # {}
      BY <3>2 DEF Join, TypeOK
    <3> QED
      BY <3>1, <3>2
  <2>2. req'[r].pc \in {"idle", "notify"}
    <3>1. req[r].link \in 0..MaxLinks
      BY DEF TypeOK, RequestRecord
    <3>2. Idle.pc = "idle"
      BY DEF Idle
    <3> QED
      BY <2>1, <3>1, <3>2, NotifyPc
  <2> QED
    BY <2>2 DEF Mints, Joins
<1>3. \A s \in Requests : s # r => ~Joins(s)
  BY <1>1 DEF Locks, JoinsExclude
<1> QED
  BY <1>1, <1>2, <1>3, LocksFrame

LEMMA LocksPreserved == TypeOK /\ Locks /\ [Next]_vars => Locks'
<1> SUFFICES ASSUME TypeOK, Locks, [Next]_vars PROVE Locks'
  OBVIOUS
<1>1. ASSUME NEW r \in Requests, Deadlock(r) PROVE Locks'
  <2>1. ~Mints(r)' /\ ~Joins(r)'
    BY <1>1 DEF Deadlock, TypeOK, Idle, Mints, Joins
  <2> QED
    BY <1>1, <2>1, LocksFrame DEF Deadlock, TypeOK, linkVars
<1>2. ASSUME NEW r \in Requests, Greet(r) PROVE Locks'
  <2>1. ~Mints(r)' /\ ~Joins(r)'
    BY <1>2 DEF Greet, TypeOK, Idle, Mints, Joins
  <2> QED
    BY <1>2, <2>1, LocksFrame DEF Greet, TypeOK
<1>3. ASSUME NEW r \in Requests, NEW p \in Players, StartPick(r, p) PROVE Locks'
  <2>1. req'[r].pc = "pick" /\ \A s \in Requests : s # r => req'[s] = req[s]
    BY <1>3 DEF StartPick, Read, TypeOK, RequestRecord
  <2>2. ~Mints(r)' /\ ~Joins(r)'
    BY <2>1 DEF Mints, Joins
  <2> QED
    BY <1>3, <2>1, <2>2, LocksFrame DEF StartPick, linkVars
<1>4. ASSUME NEW r \in Requests, NEW p \in Players, NEW i \in RowIds,
             StartRemove(r, p, i)
      PROVE  Locks'
  <2>1. req'[r].pc = "remove" /\ \A s \in Requests : s # r => req'[s] = req[s]
    BY <1>4 DEF StartRemove, TypeOK, Idle
  <2>2. ~Mints(r)' /\ ~Joins(r)'
    BY <2>1 DEF Mints, Joins
  <2> QED
    BY <1>4, <2>1, <2>2, LocksFrame DEF StartRemove, linkVars
<1>5. ASSUME NEW r \in Requests, Pick(r) PROVE Locks'
  <2>1. ~Mints(r)' /\ ~Joins(r)'
    BY <1>5 DEF Pick, TypeOK, Idle, Mints, Joins
  <2> QED
    BY <1>5, <2>1, LocksFrame DEF Pick, TypeOK, linkVars
<1>6. ASSUME NEW r \in Requests, Remove(r) PROVE Locks'
  <2>1. ~Mints(r)' /\ ~Joins(r)'
    BY <1>6 DEF Remove, TypeOK, Idle, Mints, Joins
  <2> QED
    BY <1>6, <2>1, LocksFrame DEF Remove, TypeOK, linkVars
<1>7. ASSUME NEW r \in Requests, Die(r) PROVE Locks'
  <2>1. ~Mints(r)' /\ ~Joins(r)'
    BY <1>7 DEF Die, TypeOK, Idle, Mints, Joins
  <2> QED
    BY <1>7, <2>1, LocksFrame DEF Die, TypeOK, linkVars
<1>8. CASE UNCHANGED <<linkVars, req>>
  BY <1>8 DEF linkVars, Locks, LinksInOrder, Live, MintsHoldLive, MintsExclude,
              JoinsHoldLink, JoinsExclude, Mints, Joins
<1> QED
  BY <1>1, <1>2, <1>3, <1>4, <1>5, <1>6, <1>7, <1>8, LockLiveKeepsLocks,
     MintKeepsLocks, StartJoinKeepsLocks, ReadRosterKeepsLocks, JoinKeepsLocks
     DEF Next, vars, Deactivate

LEMMA LocksInitially == Init => Locks
  BY RosterAssumption DEF Init, Locks, LinksInOrder, MintsHoldLive, MintsExclude,
     JoinsHoldLink, JoinsExclude, Mints, Joins, Idle, LinkIds

\* The locks mean what they are for, in every state.
THEOREM LocksHold == Spec => []Locks
<1>1. Init => Locks
  BY LocksInitially
<1>2. TypeOK /\ Locks /\ [Next]_vars => Locks'
  BY LocksPreserved
<1> QED
  BY <1>1, <1>2, TypeCorrect, PTL DEF Spec

\* From the first mint on, exactly one link works.
THEOREM OneLiveLink == Spec => []ExactlyOneLiveLink
<1>1. TypeOK /\ Locks => ExactlyOneLiveLink
  BY LiveIsLast DEF TypeOK, Locks, ExactlyOneLiveLink, LinkIds
<1> QED
  BY <1>1, TypeCorrect, LocksHold, PTL

\* No use of a link is lost or counted twice.
THEOREM UsesAreCounted == Spec => []UsesCountJoins
<1>1. Init => UsesCountJoins
  BY DEF Init, UsesCountJoins
<1>2. TypeOK /\ Locks /\ UsesCountJoins /\ [Next]_vars => UsesCountJoins'
  <2> SUFFICES ASSUME TypeOK, Locks, UsesCountJoins, [Next]_vars PROVE UsesCountJoins'
    OBVIOUS
  <2>1. ASSUME NEW r \in Requests, Join(r) PROVE UsesCountJoins'
    <3>1. req[r].link \in LinkIds /\ req[r].loaded = uses[req[r].link]
      BY <2>1 DEF Locks, JoinsHoldLink, Joins, Join
    <3> QED
      BY <2>1, <3>1 DEF Join, UsesCountJoins, Consumed
  <2>2. CASE UNCHANGED <<uses, joined>>
    BY <2>2 DEF UsesCountJoins
  <2> QED
    BY <2>1, <2>2 DEF Next, vars, linkVars, LockLive, Mint, Deadlock, StartJoin,
       ReadRoster, Greet, StartPick, StartRemove, Pick, Remove, Deactivate, Die
<1> QED
  BY <1>1, <1>2, TypeCorrect, LocksHold, PTL DEF Spec
-----------------------------------------------------------------------------
(* The rows of the roster.                                                 *)

\* A removal under way has found a row.
RemovesFind ==
  \A r \in Requests : req[r].pc = "remove" =>
    \A p \in req[r].who : req[r].target[p] \in RowIds =>
      row[p][req[r].target[p]].state # "none"

RowsInv == InsertsAreFirst /\ RemovesFind /\ LinkRowsAreUnique

\* What associate() does to one row of one member.
LEMMA AssociateRow ==
  ASSUME TypeOK, NEW r \in Requests, NEW via \in 0..MaxLinks, Associate(r, via),
         NEW p \in Players, NEW i \in RowIds
  PROVE  \/ row'[p][i].state = row[p][i].state /\ row'[p][i].via = row[p][i].via
         \/ /\ p \in req[r].who /\ req[r].plan[p] = "insert" /\ i = NewRow(p)
            /\ row[p][i].state = "none"
            /\ row'[p][i].state = "live" /\ row'[p][i].via = via
<1>1. row[p] \in [RowIds -> RowRecord] /\ row[p][i] \in RowRecord
  BY DEF TypeOK
<1>2. CASE p \notin req[r].who \/ req[r].plan[p] = "keep"
  BY <1>2 DEF Associate
<1>3. CASE p \in req[r].who /\ req[r].plan[p] = "insert"
  <2>1. NewRow(p) \in RowIds /\ row[p][NewRow(p)].state = "none"
    BY <1>3, NewRowIsFree DEF Associate
  <2>2. row'[p] = [row[p] EXCEPT ![NewRow(p)] =
                     [state |-> "live", active |-> TRUE, via |-> via]]
    BY <1>3 DEF Associate
  <2> QED
    BY <1>1, <1>3, <2>1, <2>2
<1>4. CASE p \in req[r].who /\ req[r].plan[p] \notin {"keep", "insert"}
  <2>1. row'[p] = [j \in RowIds |-> [row[p][j] EXCEPT
                     !.active = (j = req[r].target[p] \/ row[p][j].active)]]
    BY <1>4 DEF Associate
  <2>2. row'[p][i] = [row[p][i] EXCEPT
                        !.active = (i = req[r].target[p] \/ row[p][i].active)]
    BY <2>1
  <2> QED
    BY <1>1, <2>2 DEF RowRecord
<1> QED
  BY <1>2, <1>3, <1>4

\* A step that keeps every row or removes some keeps the invariant of the rows,
\* unless it changes what requests are about to do.
LEMMA RowsFrame ==
  ASSUME TypeOK, RowsInv,
         \A p \in Players, i \in RowIds :
           /\ row'[p][i].via = row[p][i].via
           /\ row'[p][i].state = row[p][i].state
              \/ (row[p][i].state # "none" /\ row'[p][i].state = "removed"),
         \A s \in Requests : req'[s] = req[s] \/ req'[s].pc \notin {"read", "remove"}
  PROVE  RowsInv'
<1>1. ASSUME NEW p \in Players PROVE ByLink(p)' \subseteq ByLink(p)
  BY DEF ByLink, LiveRows
<1>2. InsertsAreFirst'
  <2> SUFFICES ASSUME NEW s \in Requests, req'[s].pc = "read",
                      NEW p \in req'[s].who, req'[s].plan[p] = "insert"
               PROVE  ByLink(p)' = {}
    BY DEF InsertsAreFirst
  <2>1. req'[s] = req[s] /\ p \in Players
    BY DEF TypeOK, RequestRecord
  <2> QED
    BY <1>1, <2>1 DEF RowsInv, InsertsAreFirst
<1>3. RemovesFind'
  <2> SUFFICES ASSUME NEW s \in Requests, req'[s].pc = "remove",
                      NEW p \in req'[s].who, req'[s].target[p] \in RowIds
               PROVE  row'[p][req'[s].target[p]].state # "none"
    BY DEF RemovesFind
  <2>1. req'[s] = req[s] /\ p \in Players
    BY DEF TypeOK, RequestRecord
  <2> QED
    BY <2>1 DEF RowsInv, RemovesFind
<1>4. LinkRowsAreUnique'
  <2> SUFFICES ASSUME NEW p \in Players, NEW i \in ByLink(p)', NEW j \in ByLink(p)'
               PROVE  i = j
    BY DEF LinkRowsAreUnique, ByLink
  <2> QED
    BY <1>1 DEF RowsInv, LinkRowsAreUnique, ByLink
<1> QED
  BY <1>2, <1>3, <1>4 DEF RowsInv

LEMMA ReadRosterKeepsRows ==
  ASSUME TypeOK, RowsInv, NEW r \in Requests, ReadRoster(r)
  PROVE  RowsInv'
<1>1. row' = row
  BY DEF ReadRoster
<1>2. PICK t \in FoundFor(req[r].who) :
        req' = [req EXCEPT ![r] =
                  [req[r] EXCEPT !.pc = "read", !.who = req[r].who, !.target = t,
                                 !.plan = [p \in Players |-> PlanFor(p, t[p])]]]
  BY DEF ReadRoster, Read
<1>3. req[r] \in RequestRecord
  BY DEF TypeOK
<1>4. /\ req'[r].pc = "read" /\ req'[r].who = req[r].who
      /\ req'[r].plan = [p \in Players |-> PlanFor(p, t[p])]
      /\ \A s \in Requests : s # r => req'[s] = req[s]
  BY <1>2, <1>3 DEF TypeOK, RequestRecord
<1>5. InsertsAreFirst'
  <2> SUFFICES ASSUME NEW s \in Requests, req'[s].pc = "read",
                      NEW p \in req'[s].who, req'[s].plan[p] = "insert"
               PROVE  ByLink(p) = {}
    BY <1>1 DEF InsertsAreFirst, ByLink, LiveRows
  <2>1. CASE s = r
    <3>1. p \in req[r].who /\ p \in Players
      BY <1>3, <1>4, <2>1 DEF RequestRecord
    <3>2. t[p] = None
      BY <1>4, <2>1, <3>1 DEF PlanFor
    <3>3. LiveRows(p) = {}
      BY <3>1, <3>2 DEF FoundFor, None, LiveRows, RowIds
    <3> QED
      BY <3>3 DEF ByLink
  <2>2. CASE s # r
    BY <1>4, <2>2 DEF RowsInv, InsertsAreFirst
  <2> QED
    BY <2>1, <2>2
<1>6. RemovesFind'
  BY <1>1, <1>4 DEF RowsInv, RemovesFind
<1>7. LinkRowsAreUnique'
  BY <1>1 DEF RowsInv, LinkRowsAreUnique, LiveRows
<1> QED
  BY <1>5, <1>6, <1>7 DEF RowsInv

\* Whoever writes by associate() while no other join is reading.
LEMMA AssociateKeepsRows ==
  ASSUME TypeOK, RowsInv, NEW r \in Requests, NEW via \in 0..MaxLinks,
         Associate(r, via),
         via # None => req[r].pc = "read" /\ \A s \in Requests : s # r => req[s].pc # "read",
         \A s \in Requests : s # r => req'[s] = req[s],
         req'[r].pc \notin {"read", "remove"}
  PROVE  RowsInv'
<1>1. ASSUME NEW p \in Players, via = None PROVE ByLink(p)' \subseteq ByLink(p)
  BY <1>1, AssociateRow DEF ByLink, LiveRows
<1>2. InsertsAreFirst'
  <2> SUFFICES ASSUME NEW s \in Requests, req'[s].pc = "read",
                      NEW p \in req'[s].who, req'[s].plan[p] = "insert"
               PROVE  ByLink(p)' = {}
    BY DEF InsertsAreFirst
  <2>1. s # r /\ req'[s] = req[s] /\ via = None /\ p \in Players
    BY DEF TypeOK, RequestRecord
  <2> QED
    BY <1>1, <2>1 DEF RowsInv, InsertsAreFirst
<1>3. RemovesFind'
  <2> SUFFICES ASSUME NEW s \in Requests, req'[s].pc = "remove",
                      NEW p \in req'[s].who, req'[s].target[p] \in RowIds
               PROVE  row'[p][req'[s].target[p]].state # "none"
    BY DEF RemovesFind
  <2>1. s # r /\ req'[s] = req[s] /\ p \in Players
    BY DEF TypeOK, RequestRecord
  <2>2. row[p][req[s].target[p]].state # "none"
    BY <2>1 DEF RowsInv, RemovesFind
  <2> QED
    BY <2>1, <2>2, AssociateRow
<1>4. LinkRowsAreUnique'
  <2> SUFFICES ASSUME NEW p \in Players, NEW i \in ByLink(p)', NEW j \in ByLink(p)'
               PROVE  i = j
    BY DEF LinkRowsAreUnique, ByLink
  <2>1. i \in RowIds /\ j \in RowIds
    BY DEF ByLink, LiveRows
  <2>2. CASE via = None \/ p \notin req[r].who \/ req[r].plan[p] # "insert"
    <3>1. i \in ByLink(p) /\ j \in ByLink(p)
      BY <2>1, <2>2, AssociateRow DEF ByLink, LiveRows
    <3> QED
      BY <3>1 DEF RowsInv, LinkRowsAreUnique, ByLink
  <2>3. CASE via # None /\ p \in req[r].who /\ req[r].plan[p] = "insert"
    <3>1. ByLink(p) = {}
      BY <2>3 DEF RowsInv, InsertsAreFirst
    <3>2. i = NewRow(p) /\ j = NewRow(p)
      BY <2>1, <3>1, AssociateRow DEF ByLink, LiveRows
    <3> QED
      BY <3>2
  <2> QED
    BY <2>2, <2>3
<1> QED
  BY <1>2, <1>3, <1>4 DEF RowsInv
LEMMA RowsPreserved == TypeOK /\ Locks /\ RowsInv /\ [Next]_vars => RowsInv'
<1> SUFFICES ASSUME TypeOK, Locks, RowsInv, [Next]_vars PROVE RowsInv'
  OBVIOUS
<1>1. ASSUME NEW r \in Requests,
             \/ LockLive(r) \/ Mint(r) \/ Deadlock(r) \/ Greet(r) \/ Die(r)
             \/ \E l \in LinkIds, who \in SUBSET Players : StartJoin(r, l, who)
             \/ \E p \in Players : StartPick(r, p)
      PROVE  RowsInv'
  <2>1. row' = row
    BY <1>1 DEF LockLive, Mint, Deadlock, Greet, Die, StartJoin, StartPick
  <2>2. req'[r].pc \notin {"read", "remove"}
    <3>1. CASE LockLive(r)
      BY <3>1 DEF LockLive, TypeOK, Idle
    <3>2. CASE Mint(r) \/ Deadlock(r) \/ Greet(r) \/ Die(r)
      BY <3>2 DEF Mint, Deadlock, Greet, Die, TypeOK, Idle
    <3>3. ASSUME NEW l \in LinkIds, NEW who \in SUBSET Players, StartJoin(r, l, who)
          PROVE  req'[r].pc = "locked"
      BY <3>3 DEF StartJoin, TypeOK, Idle
    <3>4. ASSUME NEW p \in Players, StartPick(r, p) PROVE req'[r].pc = "pick"
      BY <3>4 DEF StartPick, Read, TypeOK, RequestRecord
    <3> QED
      BY <1>1, <3>1, <3>2, <3>3, <3>4
  <2>3. \A s \in Requests : s # r => req'[s] = req[s]
    BY <1>1 DEF LockLive, Mint, Deadlock, Greet, Die, StartJoin, StartPick, Read, TypeOK
  <2> QED
    BY <2>1, <2>2, <2>3, RowsFrame
<1>2. ASSUME NEW r \in Requests, Join(r) PROVE RowsInv'
  <2>1. req[r].link \in 0..MaxLinks /\ Associate(r, req[r].link) /\ req[r].pc = "read"
    BY <1>2 DEF Join, TypeOK, RequestRecord
  <2>2. \A s \in Requests : s # r => req[s].pc # "read" /\ req'[s] = req[s]
    BY <1>2 DEF Join, Locks, JoinsExclude, Joins, TypeOK
  <2>3. req'[r].pc \notin {"read", "remove"}
    <3>1. req'[r] = Idle \/ req'[r] = [Idle EXCEPT !.pc = "notify", !.link = req[r].link]
      <4>1. CASE req[r].who = {}
        BY <1>2, <4>1 DEF Join, TypeOK
      <4>2. CASE req[r].who # {}
        BY <1>2, <4>2 DEF Join, TypeOK
      <4> QED
        BY <4>1, <4>2
    <3>2. Idle.pc = "idle"
      BY DEF Idle
    <3> QED
      BY <2>1, <3>1, <3>2, NotifyPc
  <2> QED
    BY <2>1, <2>2, <2>3, AssociateKeepsRows
<1>3. ASSUME NEW r \in Requests, Pick(r) PROVE RowsInv'
  <2>1. None \in 0..MaxLinks /\ Associate(r, None)
    BY <1>3, RosterAssumption DEF Pick, None
  <2>2. \A s \in Requests : s # r => req'[s] = req[s]
    BY <1>3 DEF Pick, TypeOK
  <2>3. req'[r].pc \notin {"read", "remove"}
    BY <1>3 DEF Pick, TypeOK, Idle
  <2> QED
    BY <2>1, <2>2, <2>3, AssociateKeepsRows
<1>4. ASSUME NEW r \in Requests, NEW p \in Players, NEW i \in RowIds,
             StartRemove(r, p, i)
      PROVE  RowsInv'
  <2>1. /\ row' = row /\ i \in LiveRows(p) /\ p \in Players
        /\ \A s \in Requests : s # r => req'[s] = req[s]
    BY <1>4 DEF StartRemove, TypeOK
  <2>2. /\ req'[r].pc = "remove" /\ req'[r].who = {p}
        /\ req'[r].target = [Idle.target EXCEPT ![p] = i]
    BY <1>4 DEF StartRemove, TypeOK, Idle
  <2>3. req'[r].target[p] = i
    BY <2>2 DEF Idle
  <2>4. RemovesFind'
    <3> SUFFICES ASSUME NEW s \in Requests, req'[s].pc = "remove",
                        NEW q \in req'[s].who, req'[s].target[q] \in RowIds
                 PROVE  row'[q][req'[s].target[q]].state # "none"
      BY DEF RemovesFind
    <3>1. CASE s = r
      BY <2>1, <2>2, <2>3, <3>1 DEF LiveRows
    <3>2. CASE s # r
      BY <2>1, <3>2 DEF RowsInv, RemovesFind
    <3> QED
      BY <3>1, <3>2
  <2>5. InsertsAreFirst'
    BY <2>1, <2>2 DEF RowsInv, InsertsAreFirst, ByLink, LiveRows
  <2>6. LinkRowsAreUnique'
    BY <2>1 DEF RowsInv, LinkRowsAreUnique, LiveRows
  <2> QED
    BY <2>4, <2>5, <2>6 DEF RowsInv
<1>5. ASSUME NEW r \in Requests, Remove(r) PROVE RowsInv'
  <2>1. \A s \in Requests : req'[s] = req[s] \/ req'[s].pc \notin {"read", "remove"}
    BY <1>5 DEF Remove, TypeOK, Idle
  <2>2. ASSUME NEW p \in Players, NEW i \in RowIds
        PROVE  /\ row'[p][i].via = row[p][i].via
               /\ row'[p][i].state = row[p][i].state
                  \/ (row[p][i].state # "none" /\ row'[p][i].state = "removed")
    <3>1. row[p][i] \in RowRecord
      BY DEF TypeOK
    <3>2. CASE p \in req[r].who /\ i = req[r].target[p]
      <4>1. row'[p][i] = [row[p][i] EXCEPT !.state = "removed"]
        BY <1>5, <3>2 DEF Remove
      <4>2. row[p][i].state # "none"
        BY <1>5, <3>2 DEF RowsInv, RemovesFind, Remove
      <4> QED
        BY <3>1, <4>1, <4>2 DEF RowRecord
    <3>3. CASE ~(p \in req[r].who /\ i = req[r].target[p])
      BY <1>5, <3>3 DEF Remove
    <3> QED
      BY <3>2, <3>3
  <2> QED
    BY <2>1, <2>2, RowsFrame
<1>6. ASSUME Deactivate PROVE RowsInv'
  <2>1. req' = req
    BY <1>6 DEF Deactivate
  <2>2. ASSUME NEW p \in Players, NEW i \in RowIds
        PROVE  row'[p][i].via = row[p][i].via /\ row'[p][i].state = row[p][i].state
    <3>1. row[p][i] \in RowRecord
      BY DEF TypeOK
    <3>2. row'[p][i] = row[p][i] \/ row'[p][i] = [row[p][i] EXCEPT !.active = FALSE]
      BY <1>6 DEF Deactivate
    <3> QED
      BY <3>1, <3>2 DEF RowRecord
  <2> QED
    BY <2>1, <2>2, RowsFrame
<1>7. CASE UNCHANGED vars
  BY <1>7, RowsFrame DEF vars
<1> QED
  BY <1>1, <1>2, <1>3, <1>4, <1>5, <1>6, <1>7, ReadRosterKeepsRows DEF Next

THEOREM RowsHold == Spec => []RowsInv
<1>1. Init => RowsInv
  BY DEF Init, RowsInv, InsertsAreFirst, RemovesFind, LinkRowsAreUnique, LiveRows,
         NoRow, Idle
<1>2. TypeOK /\ Locks /\ RowsInv /\ [Next]_vars => RowsInv'
  BY RowsPreserved
<1> QED
  BY <1>1, <1>2, TypeCorrect, LocksHold, PTL DEF Spec

\* No player is on the roster twice by links (BR-007).
THEOREM JoinsAreIdempotent == Spec => []LinkRowsAreUnique
<1>1. RowsInv => LinkRowsAreUnique
  BY DEF RowsInv
<1> QED
  BY <1>1, RowsHold, PTL

\* A link that was replaced enrols nobody.
THEOREM RevokedIsRevoked == Spec => RevokedLinksEnrolNobody
<1> DEFINE Step == \A p \in Players, i \in RowIds :
                     row[p][i].state = "none" /\ row'[p][i].state # "none"
                       => row'[p][i].via = None \/ link[row'[p][i].via] = "live"
<1>1. TypeOK /\ Locks /\ RowsInv /\ [Next]_vars => Step
  <2> SUFFICES ASSUME TypeOK, Locks, RowsInv, [Next]_vars,
                      NEW p \in Players, NEW i \in RowIds,
                      row[p][i].state = "none", row'[p][i].state # "none"
               PROVE  row'[p][i].via = None \/ link[row'[p][i].via] = "live"
    OBVIOUS
  <2>1. ASSUME NEW r \in Requests, Join(r)
        PROVE  row'[p][i].via = None \/ link[row'[p][i].via] = "live"
    <3>1. req[r].link \in LinkIds /\ link[req[r].link] = "live"
      BY <2>1 DEF Locks, JoinsHoldLink, Joins, Join
    <3>2. Associate(r, req[r].link) /\ req[r].link \in 0..MaxLinks
      BY <2>1, <3>1 DEF Join, LinkIds
    <3>3. row'[p][i].via = req[r].link
      BY <3>2, AssociateRow
    <3> QED
      BY <3>1, <3>3
  <2>2. ASSUME NEW r \in Requests, Pick(r)
        PROVE  row'[p][i].via = None \/ link[row'[p][i].via] = "live"
    <3>1. Associate(r, None) /\ None \in 0..MaxLinks
      BY <2>2, RosterAssumption DEF Pick, None
    <3> QED
      BY <3>1, AssociateRow
  <2>3. ASSUME NEW r \in Requests, Remove(r) PROVE FALSE
    <3>1. p \in req[r].who /\ i = req[r].target[p]
      BY <2>3 DEF Remove
    <3> QED
      BY <2>3, <3>1 DEF RowsInv, RemovesFind, Remove
  <2>4. ASSUME Deactivate PROVE FALSE
    BY <2>4 DEF Deactivate, LiveRows
  <2>5. CASE row' = row
    BY <2>5
  <2> QED
    BY <2>1, <2>2, <2>3, <2>4, <2>5 DEF Next, vars, LockLive, Mint, Deadlock,
       StartJoin, ReadRoster, Greet, StartPick, StartRemove, Die
<1>2. TypeOK /\ Locks /\ RowsInv /\ [Next]_vars => [Step]_vars
  BY <1>1
<1> QED
  BY <1>2, TypeCorrect, LocksHold, RowsHold, PTL DEF Spec, RevokedLinksEnrolNobody
=============================================================================
