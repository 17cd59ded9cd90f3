------------------------ MODULE CoachEmploymentProofs ------------------------
(***************************************************************************)
(* What CoachEmployment promises for any number of organisations, accounts,*)
(* links and requests.  The inductive invariant says what a request in     *)
(* flight can rely on (Fits) and that a locked link has one holder: an     *)
(* acceptance that passed lockRedeemable still finds its link live and     *)
(* unspent when it commits.                                                *)
(***************************************************************************)
EXTENDS CoachEmployment, TLAPS

\* Acceptances between lockRedeemable and the end of their transaction.
Holding(q) == q.pc \in {"locked", "guarded"}

\* What a request knows, by how far it has come.
Fits(q) ==
  /\ q.pc # "idle" => q.trainer \in Trainers /\ q.user \in Users
  /\ q.pc \in {"mail", "retire"} => q.new \in 1..minted /\ link[q.new].replaces = q.link
  /\ q.pc = "retire" => q.new \in sent
  /\ Holding(q) => /\ q.link \in 1..minted
                   /\ link[q.link].live /\ link[q.link].uses = 0
                   /\ MayCoach(q.user)

RequestsFit == \A r \in Requests : Fits(req[r])

OneHolder ==
  \A r1, r2 \in Requests :
    Holding(req[r1]) /\ Holding(req[r2]) /\ req[r1].link = req[r2].link => r1 = r2

LinksNameParties ==
  /\ sent \subseteq 1..minted
  /\ \A l \in 1..minted : link[l].trainer \in Trainers /\ link[l].to \in Users

IInv == /\ TypeOK /\ RequestsFit /\ OneHolder /\ LinksNameParties
        /\ KeepsAnInvitation /\ AtMostOneEmployer

-----------------------------------------------------------------------------
(* Helpers                                                                 *)

\* The record of a request that is over.
LEMMA IdleFits == Idle \in RequestRecord /\ Fits(Idle) /\ ~Holding(Idle) /\ Idle.pc = "idle"
  <1>1. Idle \in RequestRecord /\ Idle.pc = "idle"
    BY StaffAssumption DEF Idle, RequestRecord, NoLink
  <1> QED BY <1>1 DEF Fits, Holding

\* The row of a link that is not minted yet.
LEMMA UnmintedIsLink == Unminted \in LinkRecord
  BY StaffAssumption DEF Unminted, LinkRecord, NoLink

\* A step of one request that writes nothing but its own progress.
LEMMA OnlyProgress ==
  ASSUME IInv, NEW r \in Requests, NEW x \in RequestRecord,
         req' = [req EXCEPT ![r] = x], Fits(x),
         Holding(x) => \/ Holding(req[r]) /\ x.link = req[r].link
                       \/ LinkFree(x.link),
         UNCHANGED <<minted, link, sent, row, role, verified>>,
         faults' \in 0..MaxFaults
  PROVE  IInv'
<1>1. req \in [Requests -> RequestRecord]
  BY DEF IInv, TypeOK
<1>2. \A q \in Requests : req'[q] = IF q = r THEN x ELSE req[q]
  BY <1>1
<1>3. TypeOK'
  BY <1>1 DEF IInv, TypeOK
<1>4. RequestsFit'
  BY <1>2 DEF IInv, RequestsFit, Fits, Holding, MayCoach
<1>5. OneHolder'
  BY <1>2 DEF IInv, OneHolder, Holding, LinkFree
<1>6. LinksNameParties' /\ KeepsAnInvitation' /\ AtMostOneEmployer'
  BY DEF IInv, LinksNameParties, KeepsAnInvitation, AtMostOneEmployer, IsExhausted
<1> QED BY <1>3, <1>4, <1>5, <1>6 DEF IInv

\* A request that ends: no other request notices.
LEMMA OneEnds ==
  ASSUME IInv, NEW r \in Requests, req' = [req EXCEPT ![r] = Idle]
  PROVE  /\ req' \in [Requests -> RequestRecord]
         /\ OneHolder'
         /\ \A q \in Requests : req'[q] = IF q = r THEN Idle ELSE req[q]
<1>1. req \in [Requests -> RequestRecord]
  BY DEF IInv, TypeOK
<1>2. req' \in [Requests -> RequestRecord]
  BY <1>1, IdleFits
<1>3. \A q \in Requests : req'[q] = IF q = r THEN Idle ELSE req[q]
  BY <1>1
<1>4. OneHolder'
  BY <1>3, IdleFits DEF IInv, OneHolder, Holding
<1> QED BY <1>2, <1>3, <1>4

-----------------------------------------------------------------------------
(* The invariant                                                           *)

\* The initial state satisfies the invariant.
LEMMA InitCorrect == Init => IInv
<1> SUFFICES ASSUME Init PROVE IInv
  OBVIOUS
<1>1. link \in [LinkIds -> LinkRecord]
  BY StaffAssumption DEF Init, LinkRecord, Unminted, NoLink
<1>2. TypeOK
  BY <1>1, IdleFits, StaffAssumption DEF Init, TypeOK
<1>3. RequestsFit /\ OneHolder
  BY IdleFits DEF Init, RequestsFit, OneHolder
<1>4. LinksNameParties /\ KeepsAnInvitation /\ AtMostOneEmployer
  BY DEF Init, LinksNameParties, KeepsAnInvitation, AtMostOneEmployer
<1> QED BY <1>2, <1>3, <1>4 DEF IInv

\* InviteCoach: the steps of an invitation and of a re-send.
LEMMA InviteSteps ==
  ASSUME IInv, NEW r \in Requests,
         \/ \E t \in Trainers, u \in Users : StartInvite(r, t, u)
         \/ \E l \in LinkIds : StartResend(r, l)
         \/ Mint(r) \/ Mail(r) \/ Retire(r)
  PROVE  IInv'
<1> USE StaffAssumption
<1>0. /\ req \in [Requests -> RequestRecord] /\ link \in [LinkIds -> LinkRecord]
      /\ minted \in 0..MaxLinks /\ req[r] \in RequestRecord /\ Fits(req[r])
  BY DEF IInv, TypeOK, RequestsFit
<1>1. ASSUME NEW t \in Trainers, NEW u \in Users, StartInvite(r, t, u) PROVE IInv'
  <2>1. PICK x \in RequestRecord :
          /\ x = [Idle EXCEPT !.pc = "mint", !.trainer = t, !.user = u]
          /\ x.pc = "mint" /\ x.trainer = t /\ x.user = u
    <3> DEFINE x == [Idle EXCEPT !.pc = "mint", !.trainer = t, !.user = u]
    <3>1. x \in RequestRecord /\ x.pc = "mint" /\ x.trainer = t /\ x.user = u
      BY IdleFits DEF RequestRecord
    <3> QED BY <3>1
  <2>2. req' = [req EXCEPT ![r] = x]
    BY <1>1, <2>1 DEF StartInvite
  <2>3. Fits(x) /\ ~Holding(x)
    BY <2>1 DEF Fits, Holding
  <2>4. UNCHANGED <<minted, link, sent, row, role, verified>> /\ faults' \in 0..MaxFaults
    BY <1>1 DEF StartInvite, IInv, TypeOK
  <2> QED BY <2>2, <2>3, <2>4, OnlyProgress
<1>2. ASSUME NEW l \in LinkIds, StartResend(r, l) PROVE IInv'
  <2>1. link[l].trainer \in Trainers /\ link[l].to \in Users
    <3>1. l <= minted
      BY <1>2 DEF StartResend
    <3>2. l \in 1..minted
      BY <1>0, <3>1 DEF LinkIds
    <3> QED BY <3>2 DEF IInv, LinksNameParties
  <2>2. PICK x \in RequestRecord :
          /\ x = [Idle EXCEPT !.pc = "mint", !.trainer = link[l].trainer,
                              !.user = link[l].to, !.link = l]
          /\ x.pc = "mint" /\ x.trainer = link[l].trainer /\ x.user = link[l].to
    <3> DEFINE x == [Idle EXCEPT !.pc = "mint", !.trainer = link[l].trainer,
                                 !.user = link[l].to, !.link = l]
    <3>1. l \in 0..MaxLinks
      BY DEF LinkIds
    <3>2. x \in RequestRecord
      BY <2>1, <3>1, IdleFits DEF RequestRecord
    <3>3. x.pc = "mint" /\ x.trainer = link[l].trainer /\ x.user = link[l].to
      BY IdleFits DEF RequestRecord
    <3> QED BY <3>2, <3>3
  <2>3. req' = [req EXCEPT ![r] = x]
    BY <1>2, <2>2 DEF StartResend
  <2>4. Fits(x) /\ ~Holding(x)
    BY <2>1, <2>2 DEF Fits, Holding
  <2>5. UNCHANGED <<minted, link, sent, row, role, verified>> /\ faults' \in 0..MaxFaults
    BY <1>2 DEF StartResend, IInv, TypeOK
  <2> QED BY <2>3, <2>4, <2>5, OnlyProgress
<1>3. CASE Mint(r)
  <2>1. PICK n \in LinkIds : /\ n = minted + 1 /\ minted' = n /\ n \notin 1..minted
                             /\ 1..n = (1..minted) \cup {n}
    BY <1>0, <1>3 DEF Mint, LinkIds
  <2>2. req[r].pc = "mint" /\ req[r].trainer \in Trainers /\ req[r].user \in Users
    BY <1>0, <1>3 DEF Mint, Fits
  <2>3. PICK x \in RequestRecord :
          /\ x = [req[r] EXCEPT !.pc = "mail", !.new = n]
          /\ x.pc = "mail" /\ x.new = n /\ x.link = req[r].link
          /\ x.trainer = req[r].trainer /\ x.user = req[r].user
    <3> DEFINE x == [req[r] EXCEPT !.pc = "mail", !.new = n]
    <3>1. n \in 0..MaxLinks
      BY DEF LinkIds
    <3>2. x \in RequestRecord
      BY <1>0, <3>1 DEF RequestRecord
    <3>3. /\ x.pc = "mail" /\ x.new = n /\ x.link = req[r].link
          /\ x.trainer = req[r].trainer /\ x.user = req[r].user
      BY <1>0 DEF RequestRecord
    <3> QED BY <3>2, <3>3
  <2>4. PICK y \in LinkRecord :
          /\ y = [Unminted EXCEPT !.trainer = req[r].trainer, !.to = req[r].user,
                                  !.live = TRUE, !.replaces = req[r].link]
          /\ y.trainer = req[r].trainer /\ y.to = req[r].user /\ y.live
          /\ y.replaces = req[r].link
    <3> DEFINE y == [Unminted EXCEPT !.trainer = req[r].trainer, !.to = req[r].user,
                                     !.live = TRUE, !.replaces = req[r].link]
    <3>1. req[r].link \in 0..MaxLinks
      BY <1>0 DEF RequestRecord
    <3>2. y \in LinkRecord
      BY <2>2, <3>1, UnmintedIsLink DEF LinkRecord
    <3>3. /\ y.trainer = req[r].trainer /\ y.to = req[r].user /\ y.live
          /\ y.replaces = req[r].link
      BY UnmintedIsLink DEF LinkRecord
    <3> QED BY <3>2, <3>3
  <2>5. req' = [req EXCEPT ![r] = x] /\ link' = [link EXCEPT ![n] = y]
    BY <1>3, <2>1, <2>3, <2>4 DEF Mint
  <2>6. /\ req' \in [Requests -> RequestRecord] /\ link' \in [LinkIds -> LinkRecord]
        /\ \A q \in Requests : req'[q] = IF q = r THEN x ELSE req[q]
        /\ \A l \in LinkIds : link'[l] = IF l = n THEN y ELSE link[l]
    BY <1>0, <2>5
  <2>7. 1..minted \subseteq LinkIds
    BY <1>0 DEF LinkIds
  <2>8. UNCHANGED <<sent, row, role, verified, faults>>
    BY <1>3 DEF Mint
  <2>9. TypeOK'
    BY <2>1, <2>6, <2>8 DEF IInv, TypeOK, LinkIds
  <2>10. Fits(x)' /\ ~Holding(x)
    <3>1. n \in 1..minted' /\ link'[n].replaces = x.link
      BY <2>1, <2>3, <2>4, <2>6
    <3> QED BY <2>2, <2>3, <3>1 DEF Fits, Holding
  <2>11. ASSUME NEW q \in Requests, q # r PROVE Fits(req[q])'
    <3>1. Fits(req[q]) /\ req'[q] = req[q]
      BY <2>6, <2>11 DEF IInv, RequestsFit
    <3>2. \A l \in 1..minted : l \in 1..minted' /\ link'[l] = link[l]
      BY <2>1, <2>6, <2>7
    <3> QED BY <2>8, <3>1, <3>2 DEF Fits, Holding, MayCoach
  <2>12. RequestsFit'
    <3> SUFFICES ASSUME NEW q \in Requests PROVE Fits(req[q])'
      BY DEF RequestsFit
    <3>1. CASE q = r
      <4>1. req'[q] = x
        BY <2>6, <3>1
      <4> QED BY <2>10, <4>1 DEF Fits, Holding, MayCoach
    <3> QED BY <2>11, <3>1
  <2>13. OneHolder'
    BY <2>6, <2>10 DEF IInv, OneHolder, Holding
  <2>14. LinksNameParties'
    BY <2>1, <2>2, <2>4, <2>6, <2>7, <2>8 DEF IInv, LinksNameParties
  <2>15. KeepsAnInvitation'
    <3> SUFFICES ASSUME NEW l \in 1..minted'
                 PROVE  \/ link'[l].live \/ link'[l].uses >= 1
                        \/ \E m \in sent' : link'[m].replaces = l
      BY DEF KeepsAnInvitation, IsExhausted
    <3>1. CASE l = n
      BY <2>4, <2>6, <3>1
    <3>2. CASE l \in 1..minted
      <4>1. /\ link'[l] = link[l]
            /\ \A m \in sent : link'[m] = link[m]
        BY <2>1, <2>6, <2>7, <3>2 DEF IInv, LinksNameParties
      <4>2. link[l].live \/ link[l].uses >= 1 \/ \E m \in sent : link[m].replaces = l
        BY <3>2 DEF IInv, KeepsAnInvitation, IsExhausted
      <4> QED BY <2>8, <4>1, <4>2
    <3> QED BY <2>1, <3>1, <3>2
  <2> QED BY <2>8, <2>9, <2>12, <2>13, <2>14, <2>15 DEF IInv, AtMostOneEmployer
<1>4. CASE Mail(r)
  <2>1. /\ sent' = sent \cup {req[r].new} /\ req[r].new \in 1..minted
        /\ link[req[r].new].replaces = req[r].link
        /\ req[r].trainer \in Trainers /\ req[r].user \in Users
    BY <1>0, <1>4 DEF Mail, Fits
  <2>2. PICK x \in RequestRecord :
          /\ req' = [req EXCEPT ![r] = x]
          /\ \/ x = Idle
             \/ /\ x.pc = "retire" /\ x.new = req[r].new /\ x.link = req[r].link
                /\ x.trainer = req[r].trainer /\ x.user = req[r].user
    <3>1. CASE req[r].link = NoLink
      BY <1>4, <3>1, IdleFits DEF Mail
    <3>2. CASE req[r].link # NoLink
      <4>1. [req[r] EXCEPT !.pc = "retire"] \in RequestRecord
        BY <1>0 DEF RequestRecord
      <4> QED BY <1>0, <1>4, <3>2, <4>1 DEF Mail, RequestRecord
    <3> QED BY <3>1, <3>2
  <2>3. UNCHANGED <<minted, link, row, role, verified, faults>>
    BY <1>4 DEF Mail
  <2>4. /\ req' \in [Requests -> RequestRecord]
        /\ \A q \in Requests : req'[q] = IF q = r THEN x ELSE req[q]
    BY <1>0, <2>2
  <2>5. TypeOK'
    <3>1. req[r].new \in LinkIds
      BY <1>0, <2>1 DEF LinkIds
    <3> QED BY <2>1, <2>3, <2>4, <3>1 DEF IInv, TypeOK
  <2>6. ~Holding(x)
    BY <2>2, IdleFits DEF Holding
  <2>7. Fits(x)'
    <3>1. CASE x = Idle
      BY <3>1, IdleFits DEF Fits, Holding
    <3>2. CASE x.pc = "retire" /\ x.new = req[r].new /\ x.link = req[r].link
               /\ x.trainer = req[r].trainer /\ x.user = req[r].user
      BY <2>1, <2>3, <3>2 DEF Fits, Holding
    <3> QED BY <2>2, <3>1, <3>2
  <2>8. RequestsFit'
    <3> SUFFICES ASSUME NEW q \in Requests PROVE Fits(req[q])'
      BY DEF RequestsFit
    <3>1. CASE q = r
      <4>1. req'[q] = x
        BY <2>4, <3>1
      <4> QED BY <2>7, <4>1 DEF Fits, Holding, MayCoach
    <3>2. CASE q # r
      <4>1. req'[q] = req[q] /\ Fits(req[q])
        BY <2>4, <3>2 DEF IInv, RequestsFit
      <4> QED BY <2>1, <2>3, <4>1 DEF Fits, Holding, MayCoach
    <3> QED BY <3>1, <3>2
  <2>9. OneHolder'
    BY <2>4, <2>6 DEF IInv, OneHolder, Holding
  <2> QED BY <2>1, <2>3, <2>5, <2>8, <2>9
          DEF IInv, LinksNameParties, KeepsAnInvitation, AtMostOneEmployer, IsExhausted
<1>5. CASE Retire(r)
  <2> DEFINE old == req[r].link
  <2>1. /\ req' = [req EXCEPT ![r] = Idle] /\ link' = [link EXCEPT ![old].live = FALSE]
        /\ UNCHANGED <<minted, sent, row, role, verified, faults>>
        /\ LinkFree(old)
    BY <1>5 DEF Retire
  <2>2. req[r].new \in sent /\ link[req[r].new].replaces = old
    BY <1>0, <1>5 DEF Retire, Fits
  <2>3. /\ req' \in [Requests -> RequestRecord] /\ OneHolder'
        /\ \A q \in Requests : req'[q] = IF q = r THEN Idle ELSE req[q]
    BY <2>1, OneEnds
  <2>4. /\ link' \in [LinkIds -> LinkRecord]
        /\ \A l \in LinkIds : /\ l # old => link'[l] = link[l]
                              /\ link'[l].replaces = link[l].replaces
                              /\ link'[l].uses = link[l].uses
                              /\ link'[l].trainer = link[l].trainer
                              /\ link'[l].to = link[l].to
    BY <1>0, <2>1 DEF LinkRecord
  <2>5. 1..minted \subseteq LinkIds
    BY <1>0 DEF LinkIds
  <2>6. TypeOK'
    BY <2>1, <2>3, <2>4 DEF IInv, TypeOK
  <2>7. ASSUME NEW q \in Requests PROVE Fits(req[q])'
    <3>1. CASE q = r
      BY <2>3, <3>1, IdleFits DEF Fits, Holding
    <3>2. CASE q # r
      <4>1. req'[q] = req[q] /\ Fits(req[q]) /\ (Holding(req[q]) => req[q].link # old)
        BY <2>1, <2>3, <3>2 DEF IInv, RequestsFit, LinkFree, Holding
      <4> QED BY <2>1, <2>4, <2>5, <4>1 DEF Fits, Holding, MayCoach
    <3> QED BY <3>1, <3>2
  <2>8. RequestsFit'
    BY <2>7 DEF RequestsFit, Fits
  <2>9. LinksNameParties'
    BY <2>1, <2>4, <2>5 DEF IInv, LinksNameParties
  <2>10. KeepsAnInvitation'
    BY <2>1, <2>2, <2>4, <2>5 DEF IInv, KeepsAnInvitation, IsExhausted, LinksNameParties
  <2> QED BY <2>1, <2>3, <2>6, <2>8, <2>9, <2>10 DEF IInv, AtMostOneEmployer
<1> QED BY <1>1, <1>2, <1>3, <1>4, <1>5

\* AcceptCoachInvitation: the steps before the commit, and the refusal.
LEMMA AcceptSteps ==
  ASSUME IInv, NEW r \in Requests,
         (\E l \in LinkIds : StartAccept(r, l)) \/ Guard(r) \/ Refuse(r)
  PROVE  IInv'
<1> USE StaffAssumption
<1>0. /\ req \in [Requests -> RequestRecord] /\ link \in [LinkIds -> LinkRecord]
      /\ minted \in 0..MaxLinks /\ req[r] \in RequestRecord /\ Fits(req[r])
      /\ sent \subseteq 1..minted
  BY DEF IInv, TypeOK, RequestsFit, LinksNameParties
<1>1. ASSUME NEW l \in LinkIds, StartAccept(r, l) PROVE IInv'
  <2>1. /\ l \in sent /\ LinkFree(l) /\ IsRedeemable(l) /\ MayCoach(link[l].to)
        /\ req' = [req EXCEPT ![r] = [Idle EXCEPT !.pc = "locked", !.user = link[l].to,
                                         !.trainer = link[l].trainer, !.link = l]]
        /\ UNCHANGED <<minted, link, sent, row, role, verified, faults>>
    BY <1>1 DEF StartAccept
  <2>2. l \in 1..minted /\ link[l].trainer \in Trainers /\ link[l].to \in Users
    BY <1>0, <2>1 DEF IInv, LinksNameParties
  <2>3. PICK x \in RequestRecord :
          /\ x = [Idle EXCEPT !.pc = "locked", !.user = link[l].to,
                              !.trainer = link[l].trainer, !.link = l]
          /\ x.pc = "locked" /\ x.trainer = link[l].trainer /\ x.user = link[l].to
          /\ x.link = l
    <3> DEFINE x == [Idle EXCEPT !.pc = "locked", !.user = link[l].to,
                                 !.trainer = link[l].trainer, !.link = l]
    <3>1. l \in 0..MaxLinks
      BY DEF LinkIds
    <3>2. x \in RequestRecord
      BY <2>2, <3>1, IdleFits DEF RequestRecord
    <3>3. /\ x.pc = "locked" /\ x.trainer = link[l].trainer /\ x.user = link[l].to
          /\ x.link = l
      BY IdleFits DEF RequestRecord
    <3> QED BY <3>2, <3>3
  <2>4. link[l].live /\ link[l].uses = 0
    BY <1>0, <2>1 DEF IsRedeemable, IsExhausted, LinkRecord
  <2>5. Fits(x)
    BY <2>1, <2>2, <2>3, <2>4 DEF Fits, Holding
  <2>6. faults' \in 0..MaxFaults
    BY <2>1 DEF IInv, TypeOK
  <2>7. req' = [req EXCEPT ![r] = x] /\ LinkFree(x.link)
    BY <2>1, <2>3
  <2> QED BY <2>1, <2>5, <2>6, <2>7, OnlyProgress
<1>2. CASE Guard(r)
  <2>1. /\ req[r].pc = "locked" /\ faults' \in 0..MaxFaults
        /\ UNCHANGED <<minted, link, sent, row, role, verified>>
    BY <1>2 DEF Guard, IInv, TypeOK
  <2>2. CASE ActiveSomewhere(req[r].user)
    <3>1. req' = [req EXCEPT ![r] = Idle]
      BY <1>2, <2>2 DEF Guard
    <3> QED BY <2>1, <3>1, IdleFits, OnlyProgress
  <2>3. CASE ~ActiveSomewhere(req[r].user)
    <3>1. PICK x \in RequestRecord :
            /\ req' = [req EXCEPT ![r] = x]
            /\ x.pc = "guarded" /\ x.trainer = req[r].trainer /\ x.user = req[r].user
            /\ x.link = req[r].link
      <4> DEFINE x == [req[r] EXCEPT !.pc = "guarded",
                         !.flag = \E t \in Trainers : row[req[r].user][t] # "none"]
      <4>1. x \in RequestRecord
        BY <1>0 DEF RequestRecord
      <4>2. /\ x.pc = "guarded" /\ x.trainer = req[r].trainer /\ x.user = req[r].user
            /\ x.link = req[r].link
        BY <1>0 DEF RequestRecord
      <4>3. req' = [req EXCEPT ![r] = x]
        BY <1>2, <2>3 DEF Guard
      <4> QED BY <4>1, <4>2, <4>3
    <3>2. Fits(x) /\ Holding(req[r])
      BY <1>0, <2>1, <3>1 DEF Fits, Holding
    <3> QED BY <2>1, <3>1, <3>2, OnlyProgress
  <2> QED BY <2>2, <2>3
<1>3. CASE Refuse(r)
  <2>1. /\ req' = [req EXCEPT ![r] = Idle] /\ faults' \in 0..MaxFaults
        /\ UNCHANGED <<minted, link, sent, row, role, verified>>
    BY <1>3 DEF Refuse, IInv, TypeOK
  <2> QED BY <2>1, IdleFits, OnlyProgress
<1> QED BY <1>1, <1>2, <1>3

\* AcceptCoachInvitation: the commit.
LEMMA EnrolStep == ASSUME IInv, NEW r \in Requests, Enrol(r) PROVE IInv'
<1> USE StaffAssumption
<1>0. /\ req \in [Requests -> RequestRecord] /\ link \in [LinkIds -> LinkRecord]
      /\ row \in [Users -> [Trainers -> {"none", "active", "inactive"}]]
      /\ role \in [Users -> {"player", "coach", "trainer"}]
      /\ minted \in 0..MaxLinks /\ sent \subseteq 1..minted
  BY DEF IInv, TypeOK, LinksNameParties
<1>1. PICK u \in Users, t \in Trainers, l \in 1..minted :
        u = req[r].user /\ t = req[r].trainer /\ l = req[r].link /\ Holding(req[r])
  BY DEF Enrol, IInv, RequestsFit, Fits, Holding
<1>2. PICK y \in LinkRecord :
        /\ link' = [link EXCEPT ![l] = y]
        /\ y.uses = link[l].uses + 1 /\ y.replaces = link[l].replaces
        /\ y.trainer = link[l].trainer /\ y.to = link[l].to
  <2> DEFINE y == [link[l] EXCEPT !.uses = link[l].uses + 1, !.live = FALSE]
  <2>1. link[l] \in LinkRecord
    BY <1>0 DEF LinkIds
  <2>2. y \in LinkRecord
    <3>1. link[l].uses + 1 \in Nat
      BY <2>1 DEF LinkRecord
    <3> QED BY <2>1, <3>1 DEF LinkRecord
  <2>3. /\ y.uses = link[l].uses + 1 /\ y.replaces = link[l].replaces
        /\ y.trainer = link[l].trainer /\ y.to = link[l].to
    BY <2>1 DEF LinkRecord
  <2>4. link' = [link EXCEPT ![l] = y]
    BY <1>1 DEF Enrol
  <2> QED BY <2>2, <2>3, <2>4
<1>3. /\ SlotFree(u)
      /\ row' = [row EXCEPT ![u] = [row[u] EXCEPT ![t] = "active"]]
      /\ role' = [role EXCEPT ![u] = "coach"]
      /\ req' = [req EXCEPT ![r] = Idle]
      /\ UNCHANGED <<minted, sent, verified, faults>>
  BY <1>1 DEF Enrol
<1>4. /\ req' \in [Requests -> RequestRecord] /\ OneHolder'
      /\ \A q \in Requests : req'[q] = IF q = r THEN Idle ELSE req[q]
  BY <1>3, OneEnds
<1>5. /\ l \in LinkIds /\ 1..minted \subseteq LinkIds
      /\ link' \in [LinkIds -> LinkRecord]
      /\ \A k \in LinkIds : link'[k] = IF k = l THEN y ELSE link[k]
  BY <1>0, <1>2 DEF LinkIds
<1>6. row' \in [Users -> [Trainers -> {"none", "active", "inactive"}]]
  BY <1>0, <1>3
<1>7. TypeOK'
  BY <1>0, <1>3, <1>4, <1>5, <1>6 DEF IInv, TypeOK
<1>8. RequestsFit'
  <2> SUFFICES ASSUME NEW q \in Requests PROVE Fits(req[q])'
    BY DEF RequestsFit
  <2>1. CASE q = r
    BY <1>4, <2>1, IdleFits DEF Fits, Holding
  <2>2. CASE q # r
    <3>1. req'[q] = req[q] /\ Fits(req[q]) /\ (Holding(req[q]) => req[q].link # l)
      BY <1>1, <1>4, <2>2 DEF IInv, RequestsFit, OneHolder
    <3>2. \A v \in Users : MayCoach(v) => MayCoach(v)'
      BY <1>0, <1>3 DEF MayCoach
    <3>3. \A k \in 1..minted : link'[k].replaces = link[k].replaces /\
                               (k # l => link'[k] = link[k])
      BY <1>2, <1>5
    <3>4. Holding(req[q]) => req[q].user \in Users
      BY <3>1 DEF Fits, Holding
    <3> QED BY <1>3, <3>1, <3>2, <3>3, <3>4 DEF Fits, Holding, MayCoach
  <2> QED BY <2>1, <2>2
<1>9. LinksNameParties'
  BY <1>2, <1>3, <1>5 DEF IInv, LinksNameParties
<1>10. KeepsAnInvitation'
  <2> SUFFICES ASSUME NEW k \in 1..minted
               PROVE  \/ link'[k].live \/ link'[k].uses >= 1
                      \/ \E m \in sent : link'[m].replaces = k
    BY <1>3 DEF KeepsAnInvitation, IsExhausted
  <2>1. CASE k = l
    <3>1. link[l].uses \in Nat
      BY <1>0, <1>5 DEF LinkRecord
    <3> QED BY <1>2, <1>5, <2>1, <3>1
  <2>2. CASE k # l
    <3>1. link'[k] = link[k] /\ \A m \in sent : link'[m].replaces = link[m].replaces
      BY <1>0, <1>2, <1>5, <2>2
    <3>2. link[k].live \/ link[k].uses >= 1 \/ \E m \in sent : link[m].replaces = k
      BY DEF IInv, KeepsAnInvitation, IsExhausted
    <3> QED BY <3>1, <3>2
  <2> QED BY <2>1, <2>2
<1>11. AtMostOneEmployer'
  BY <1>0, <1>3 DEF IInv, AtMostOneEmployer, SlotFree, ActiveSomewhere
<1> QED BY <1>4, <1>7, <1>8, <1>9, <1>10, <1>11 DEF IInv

\* ReleaseCoach, and requests that die.
LEMMA ReleaseSteps ==
  ASSUME IInv, NEW r \in Requests,
         \/ \E t \in Trainers, u \in Users : StartRelease(r, t, u)
         \/ Release(r) \/ Die(r)
  PROVE  IInv'
<1> USE StaffAssumption
<1>0. /\ req \in [Requests -> RequestRecord] /\ link \in [LinkIds -> LinkRecord]
      /\ row \in [Users -> [Trainers -> {"none", "active", "inactive"}]]
      /\ minted \in 0..MaxLinks /\ faults \in 0..MaxFaults
  BY DEF IInv, TypeOK
<1>1. ASSUME NEW t \in Trainers, NEW u \in Users, StartRelease(r, t, u) PROVE IInv'
  <2>1. PICK x \in RequestRecord :
          req' = [req EXCEPT ![r] = x] /\ x.pc = "release" /\ x.trainer = t /\ x.user = u
    <3> DEFINE x == [Idle EXCEPT !.pc = "release", !.trainer = t, !.user = u,
                                 !.flag = row[u][t] = "active"]
    <3>1. x \in RequestRecord
      BY IdleFits DEF RequestRecord
    <3>2. x.pc = "release" /\ x.trainer = t /\ x.user = u
      BY IdleFits DEF RequestRecord
    <3>3. req' = [req EXCEPT ![r] = x]
      BY <1>1 DEF StartRelease
    <3> QED BY <3>1, <3>2, <3>3
  <2>2. Fits(x) /\ ~Holding(x)
    BY <2>1 DEF Fits, Holding
  <2>3. UNCHANGED <<minted, link, sent, row, role, verified>> /\ faults' \in 0..MaxFaults
    BY <1>0, <1>1 DEF StartRelease
  <2> QED BY <2>1, <2>2, <2>3, OnlyProgress
<1>2. CASE Release(r)
  <2>1. PICK u \in Users, t \in Trainers : u = req[r].user /\ t = req[r].trainer
    BY <1>2 DEF Release, IInv, RequestsFit, Fits
  <2>2. /\ row' = row \/ row' = [row EXCEPT ![u] = [row[u] EXCEPT ![t] = "inactive"]]
        /\ req' = [req EXCEPT ![r] = Idle]
        /\ UNCHANGED <<minted, link, sent, role, verified, faults>>
    BY <1>2, <2>1 DEF Release, Released
  <2>3. /\ req' \in [Requests -> RequestRecord] /\ OneHolder'
        /\ \A q \in Requests : req'[q] = IF q = r THEN Idle ELSE req[q]
    BY <2>2, OneEnds
  <2>4. row' \in [Users -> [Trainers -> {"none", "active", "inactive"}]]
    BY <1>0, <2>2
  <2>5. TypeOK'
    BY <2>2, <2>3, <2>4 DEF IInv, TypeOK
  <2>6. RequestsFit'
    <3> SUFFICES ASSUME NEW q \in Requests PROVE Fits(req[q])'
      BY DEF RequestsFit
    <3>1. CASE q = r
      BY <2>3, <3>1, IdleFits DEF Fits, Holding
    <3>2. CASE q # r
      <4>1. req'[q] = req[q] /\ Fits(req[q])
        BY <2>3, <3>2 DEF IInv, RequestsFit
      <4> QED BY <2>2, <4>1 DEF Fits, Holding, MayCoach
    <3> QED BY <3>1, <3>2
  <2>7. AtMostOneEmployer'
    BY <1>0, <2>2 DEF IInv, AtMostOneEmployer
  <2> QED BY <2>2, <2>3, <2>5, <2>6, <2>7
          DEF IInv, LinksNameParties, KeepsAnInvitation, IsExhausted
<1>3. CASE Die(r)
  <2>1. /\ req' = [req EXCEPT ![r] = Idle] /\ faults' \in 0..MaxFaults
        /\ UNCHANGED <<minted, link, sent, row, role, verified>>
    BY <1>0, <1>3 DEF Die
  <2> QED BY <2>1, IdleFits, OnlyProgress
<1> QED BY <1>1, <1>2, <1>3

\* The world around: time, and the invitees' mail.
LEMMA WorldSteps ==
  ASSUME IInv, (\E l \in LinkIds : Expire(l)) \/ (\E u \in Users : Verify(u))
  PROVE  IInv'
<1> USE StaffAssumption
<1>0. /\ link \in [LinkIds -> LinkRecord] /\ minted \in 0..MaxLinks
  BY DEF IInv, TypeOK
<1>1. ASSUME NEW l \in LinkIds, Expire(l) PROVE IInv'
  <2>1. /\ link' = [link EXCEPT ![l].expired = TRUE]
        /\ UNCHANGED <<minted, sent, row, role, verified, req, faults>>
    BY <1>1 DEF Expire
  <2>2. /\ link' \in [LinkIds -> LinkRecord]
        /\ \A k \in LinkIds : /\ link'[k].replaces = link[k].replaces
                              /\ link'[k].uses = link[k].uses
                              /\ link'[k].live = link[k].live
                              /\ link'[k].trainer = link[k].trainer
                              /\ link'[k].to = link[k].to
    BY <1>0, <2>1 DEF LinkRecord
  <2>3. 1..minted \subseteq LinkIds
    BY <1>0 DEF LinkIds
  <2>4. RequestsFit'
    BY <2>1, <2>2, <2>3 DEF IInv, RequestsFit, Fits, Holding, MayCoach
  <2>5. KeepsAnInvitation' /\ LinksNameParties'
    BY <2>1, <2>2, <2>3 DEF IInv, KeepsAnInvitation, LinksNameParties, IsExhausted
  <2>6. TypeOK' /\ OneHolder' /\ AtMostOneEmployer'
    BY <2>1, <2>2 DEF IInv, TypeOK, OneHolder, Holding, AtMostOneEmployer
  <2> QED BY <2>4, <2>5, <2>6 DEF IInv
<1>2. ASSUME NEW u \in Users, Verify(u) PROVE IInv'
  <2>1. /\ verified' \in SUBSET Users
        /\ UNCHANGED <<minted, link, sent, row, role, req, faults>>
    BY <1>2 DEF Verify, IInv, TypeOK
  <2> QED BY <2>1 DEF IInv, TypeOK, RequestsFit, Fits, Holding, MayCoach, OneHolder,
                      LinksNameParties, KeepsAnInvitation, IsExhausted, AtMostOneEmployer
<1> QED BY <1>1, <1>2

\* Every step preserves the invariant.
LEMMA NextCorrect == IInv /\ [Next]_vars => IInv'
<1> SUFFICES ASSUME IInv, [Next]_vars PROVE IInv'
  OBVIOUS
<1>1. CASE \E r \in Requests : (\E t \in Trainers, u \in Users : StartInvite(r, t, u))
             \/ (\E l \in LinkIds : StartResend(r, l)) \/ Mint(r) \/ Mail(r) \/ Retire(r)
  BY <1>1, InviteSteps
<1>2. CASE \E r \in Requests : (\E l \in LinkIds : StartAccept(r, l)) \/ Guard(r) \/ Refuse(r)
  BY <1>2, AcceptSteps
<1>3. CASE \E r \in Requests : Enrol(r)
  BY <1>3, EnrolStep
<1>4. CASE \E r \in Requests : (\E t \in Trainers, u \in Users : StartRelease(r, t, u))
             \/ Release(r) \/ Die(r)
  BY <1>4, ReleaseSteps
<1>5. CASE (\E l \in LinkIds : Expire(l)) \/ (\E u \in Users : Verify(u))
  BY <1>5, WorldSteps
<1>6. CASE UNCHANGED vars
  BY <1>6 DEF vars, IInv, TypeOK, RequestsFit, Fits, Holding, MayCoach, OneHolder,
     LinksNameParties, KeepsAnInvitation, IsExhausted, AtMostOneEmployer
<1> QED BY <1>1, <1>2, <1>3, <1>4, <1>5, <1>6 DEF Next

\* The invariant holds in every state.
THEOREM InvariantHolds == Spec => []IInv
  BY InitCorrect, NextCorrect, PTL DEF Spec

\* BR-006 for any number of invitations accepted at the same time: an account
\* is active under at most one organisation.
THEOREM OneEmployer == Spec => []AtMostOneEmployer
<1>1. IInv => AtMostOneEmployer
  BY DEF IInv
<1> QED BY <1>1, InvariantHolds, PTL

\* A re-send that dies half-way has not destroyed the invitation
\* (InviteCoach::resend mints the replacement first).
THEOREM InvitationsAreKept == Spec => []KeepsAnInvitation
<1>1. IInv => KeepsAnInvitation
  BY DEF IInv
<1> QED BY <1>1, InvariantHolds, PTL

-----------------------------------------------------------------------------

\* RedeemShareLink: the lock taken by lockRedeemable protects the link up to
\* consume, so a link enrols once, and only while it is live (BR-009).
THEOREM LinksEnrolOnce == Spec => EnrolsOnceWhileLive
<1>1. ASSUME IInv, [Next]_vars, NEW l \in 1..minted, link'[l].uses # link[l].uses
      PROVE  link[l].live /\ link[l].uses = 0 /\ link'[l].uses = 1
  <2>1. link \in [LinkIds -> LinkRecord] /\ l \in LinkIds /\ minted \in Nat
    BY <1>1, StaffAssumption DEF IInv, TypeOK, LinkIds
  <2>2. CASE \E r \in Requests : Enrol(r)
    <3>1. PICK r \in Requests : Enrol(r)
      BY <2>2
    <3>2. /\ Holding(req[r])
          /\ link' = [link EXCEPT ![req[r].link] =
               [link[req[r].link] EXCEPT !.uses = link[req[r].link].uses + 1, !.live = FALSE]]
      BY <3>1 DEF Enrol, Holding
    <3>3. link[req[r].link].live /\ link[req[r].link].uses = 0
      BY <1>1, <3>2 DEF IInv, RequestsFit, Fits
    <3>4. l = req[r].link
      BY <1>1, <2>1, <3>2
    <3>5. link'[l].uses = link[l].uses + 1
      BY <2>1, <3>2, <3>4 DEF LinkRecord
    <3> QED BY <3>3, <3>4, <3>5
  <2>3. CASE \E r \in Requests : Mint(r)
    <3>1. l # minted + 1
      BY <2>1
    <3>2. link'[l] = link[l]
      BY <2>1, <2>3, <3>1 DEF Mint
    <3> QED BY <1>1, <3>2
  <2>4. CASE \E r \in Requests : Retire(r)
    <3>1. link'[l].uses = link[l].uses
      BY <2>1, <2>4 DEF Retire, LinkRecord
    <3> QED BY <1>1, <3>1
  <2>5. CASE \E k \in LinkIds : Expire(k)
    <3>1. link'[l].uses = link[l].uses
      BY <2>1, <2>5 DEF Expire, LinkRecord
    <3> QED BY <1>1, <3>1
  <2>6. CASE UNCHANGED link
    BY <1>1, <2>6
  <2> QED
    BY <1>1, <2>2, <2>3, <2>4, <2>5, <2>6
    DEF Next, vars, StartInvite, StartResend, Mail, StartAccept, Guard, Refuse,
        StartRelease, Release, Die, Verify
<1>2. IInv /\ [Next]_vars =>
        [\A l \in 1..minted : link'[l].uses # link[l].uses =>
           link[l].live /\ link[l].uses = 0 /\ link'[l].uses = 1]_vars
  BY <1>1
<1> QED BY <1>2, InvariantHolds, PTL DEF Spec, EnrolsOnceWhileLive

-----------------------------------------------------------------------------

\* An employed account is employed where its row is active.
LEMMA EmployerIsUnique ==
  ASSUME AtMostOneEmployer, NEW u \in Users, NEW t \in Trainers, row[u][t] = "active"
  PROVE  Employer(u) = t
  BY DEF Employer, ActiveSomewhere, AtMostOneEmployer

\* An account without an active row has no employer.
LEMMA NobodyEmploys ==
  ASSUME NEW u \in Users, \A t \in Trainers : row[u][t] # "active"
  PROVE  Employer(u) = NoOne
  BY DEF Employer, ActiveSomewhere

\* Steps that leave rows and roles alone are stutters of CoachSlot.
LEMMA Stutters ==
  ASSUME UNCHANGED <<row, role>>
  PROVE  [u \in Users |-> Employer(u)]' = [u \in Users |-> Employer(u)] /\ role' = role
  BY DEF Employer, ActiveSomewhere

\* G-11: the staff implements CoachSlot: coaches move by release only, and only
\* Players become Coaches.
THEOREM StaffImplementsSlot == Spec => ImplementsSlot
<1> DEFINE employer == [u \in Users |-> Employer(u)]
<1>1. Init => Slot!Init
  <2> SUFFICES ASSUME Init PROVE Slot!Init
    OBVIOUS
  <2>1. \A u \in Users : Employer(u) = NoOne
    BY NobodyEmploys DEF Init
  <2>2. role \in [Users -> {"player", "coach", "trainer"}]
    BY DEF Init
  <2> QED BY <2>1, <2>2 DEF Slot!Init
<1>2. ASSUME IInv, IInv', [Next]_vars PROVE [Slot!Next]_<<employer, role>>
  <2>0. /\ row \in [Users -> [Trainers -> {"none", "active", "inactive"}]]
        /\ role \in [Users -> {"player", "coach", "trainer"}]
        /\ AtMostOneEmployer /\ AtMostOneEmployer'
    BY <1>2 DEF IInv, TypeOK
  <2>1. CASE \E r \in Requests : Enrol(r)
    <3>1. PICK r \in Requests : Enrol(r)
      BY <2>1
    <3>2. PICK u \in Users, t \in Trainers :
            /\ u = req[r].user /\ t = req[r].trainer /\ MayCoach(u)
      BY <1>2, <3>1 DEF Enrol, IInv, RequestsFit, Fits, Holding
    <3>3. /\ SlotFree(u) /\ role' = [role EXCEPT ![u] = "coach"]
          /\ row' = [row EXCEPT ![u] = [row[u] EXCEPT ![t] = "active"]]
      BY <3>1, <3>2 DEF Enrol
    <3>4. Employer(u) = NoOne
      BY <3>3, NobodyEmploys DEF SlotFree, ActiveSomewhere
    <3>5. Employer(u)' = t
      BY <2>0, <3>3 DEF Employer, ActiveSomewhere, AtMostOneEmployer
    <3>6. \A v \in Users : v # u => Employer(v)' = Employer(v)
      BY <2>0, <3>3 DEF Employer, ActiveSomewhere
    <3>7. employer' = [employer EXCEPT ![u] = t]
      BY <3>5, <3>6
    <3>8. Slot!Hire(u, t)
      BY <3>2, <3>3, <3>4, <3>7 DEF Slot!Hire, MayCoach
    <3> QED BY <3>8 DEF Slot!Next
  <2>2. CASE \E r \in Requests : Release(r)
    <3>1. PICK r \in Requests : Release(r)
      BY <2>2
    <3>2. PICK u \in Users, t \in Trainers : u = req[r].user /\ t = req[r].trainer
      BY <1>2, <3>1 DEF Release, IInv, RequestsFit, Fits
    <3>3. /\ role' = role
          /\ row' = row \/ row' = [row EXCEPT ![u] = [row[u] EXCEPT ![t] = "inactive"]]
      BY <3>1, <3>2 DEF Release, Released
    <3>4. CASE row[u][t] = "active" /\ row' # row
      <4>1. Employer(u) = t
        BY <2>0, <3>4, EmployerIsUnique
      <4>2. \A s \in Trainers : row'[u][s] # "active"
        BY <2>0, <3>3, <3>4 DEF AtMostOneEmployer
      <4>3. Employer(u)' = NoOne
        BY <4>2 DEF Employer, ActiveSomewhere
      <4>4. \A v \in Users : v # u => Employer(v)' = Employer(v)
        BY <2>0, <3>3, <3>4 DEF Employer, ActiveSomewhere
      <4>5. employer' = [employer EXCEPT ![u] = NoOne]
        BY <4>3, <4>4
      <4>6. t # NoOne
        BY StaffAssumption
      <4>7. Slot!LetGo(u)
        BY <3>3, <4>1, <4>5, <4>6 DEF Slot!LetGo
      <4> QED BY <4>7 DEF Slot!Next
    <3>5. CASE ~(row[u][t] = "active" /\ row' # row)
      <4>1. \A v \in Users, s \in Trainers : row'[v][s] = "active" <=> row[v][s] = "active"
        BY <2>0, <3>3, <3>5
      <4>2. \A v \in Users : Employer(v)' = Employer(v)
        <5> SUFFICES ASSUME NEW v \in Users PROVE Employer(v)' = Employer(v)
          OBVIOUS
        <5>1. CASE \A s \in Trainers : row[v][s] # "active"
          BY <4>1, <5>1 DEF Employer, ActiveSomewhere
        <5>2. CASE \E s \in Trainers : row[v][s] = "active"
          <6>1. PICK s \in Trainers : row[v][s] = "active"
            BY <5>2
          <6>2. Employer(v) = s
            BY <2>0, <6>1, EmployerIsUnique
          <6>3. Employer(v)' = s
            BY <2>0, <4>1, <6>1 DEF Employer, ActiveSomewhere, AtMostOneEmployer
          <6> QED BY <6>2, <6>3
        <5> QED BY <5>1, <5>2
      <4> QED BY <3>3, <4>2
    <3> QED BY <3>4, <3>5
  <2>3. CASE UNCHANGED <<row, role>>
    BY <2>3, Stutters
  <2> QED
    BY <1>2, <2>1, <2>2, <2>3
    DEF Next, vars, StartInvite, StartResend, Mint, Mail, Retire, StartAccept, Guard,
        Refuse, StartRelease, Die, Expire, Verify
<1> QED BY <1>1, <1>2, InvariantHolds, PTL DEF Spec, ImplementsSlot, Slot!Spec

==============================================================================
