----------------------- MODULE PurchaseApprovalProofs -----------------------
(***************************************************************************)
(* Proofs about PurchaseApproval, for any number of rows, guardians, web   *)
(* requests and sweeps, any page size, and without the bounds on the clock *)
(* and on faults playing a part (any natural number will do).              *)
(***************************************************************************)
EXTENDS PurchaseApproval, FiniteSetTheorems, WellFoundedInduction, TLAPS

-----------------------------------------------------------------------------
(* Typing.                                                                 *)

\* The next-state relation split into the steps of one process each, so that
\* a proof by cases can name them.
LEMMA NextCases ==
  ASSUME Next
  PROVE  \/ Tick
         \/ \E a \in Approvals : \/ Insert(a) \/ ExecuteBypass(a)
                                 \/ CommitRequest(a) \/ NotifyRequest(a)
                                 \/ FailRequest(a)
         \/ \E s \in Sessions :
              \/ \E a \in Approvals, d \in Decisions : Authorize(s, a, d)
              \/ Decide(s) \/ DecideTooLate(s) \/ Execute(s)
              \/ CommitDecision(s) \/ NotifyDecision(s) \/ FailDecision(s)
         \/ \E w \in Sweeps :
              \/ StartSweep(w) \/ SelectPage(w) \/ EndPage(w)
              \/ \E a \in Approvals : Expire(w, a) \/ ExpireTooLate(w, a)
              \/ CommitExpiry(w) \/ NotifyExpiry(w) \/ FailSweep(w)
         \/ \E n \in Notices : Deliver(n) \/ LoseNotice(n)
  BY DEF Next, RequestStep, SessionStep, SweepStep

LEMMA NoticeType ==
  ASSUME NEW k \in Kinds, NEW a \in Approvals, NEW u \in Users
  PROVE  Notice(k, a, u) \in Notices
  BY DEF Notice, Notices

\* Queueing a notification keeps the queue well typed.
LEMMA SendType ==
  ASSUME NEW n \in Notices, Send(n),
         sent \in [Notices -> Nat], waiting \in SUBSET Notices,
         bells \in SUBSET Bells
  PROVE  /\ sent' \in [Notices -> Nat]
         /\ waiting' \in SUBSET Notices
         /\ bells' \in SUBSET Bells
  BY DEF Send

LEMMA IdleSweepType == IdleSweep \in SweepRecord
  BY ConstantsAssumption DEF IdleSweep, SweepRecord, SweepPcs, Approvals

LEMMA TypeInit == Init => TypeOK
  BY ConstantsAssumption
  DEF Init, TypeOK, IdleReq, IdleSess, IdleSweep, RequestRecord, SessionRecord,
      SweepRecord, ReqPcs, SessPcs, SweepPcs, Statuses, Decisions, Approvals

LEMMA TypeStep == TypeOK /\ [Next]_vars => TypeOK'
<1> SUFFICES ASSUME TypeOK, [Next]_vars PROVE TypeOK'
  OBVIOUS
<1> USE ConstantsAssumption
<1>1. CASE Tick
  BY <1>1 DEF Tick, TypeOK, rowVars, execVars, queueVars
<1>2. ASSUME NEW a \in Approvals, Insert(a) PROVE TypeOK'
  <2>1. req' \in [Approvals -> RequestRecord]
    BY <1>2 DEF Insert, TypeOK, RequestRecord, ReqPcs, Bypasses
  <2> QED
    BY <1>2, <2>1 DEF Insert, TypeOK, rowVars, execVars, queueVars
<1>3. ASSUME NEW a \in Approvals, ExecuteBypass(a) PROVE TypeOK'
  <2>1. req' \in [Approvals -> RequestRecord]
    BY <1>3 DEF ExecuteBypass, TypeOK, RequestRecord, ReqPcs
  <2> QED
    BY <1>3, <2>1 DEF ExecuteBypass, TypeOK, rowVars, execVars, queueVars
<1>4. ASSUME NEW a \in Approvals, CommitRequest(a) PROVE TypeOK'
  <2>1. req' \in [Approvals -> RequestRecord]
    BY <1>4 DEF CommitRequest, TypeOK, RequestRecord, ReqPcs, Users
  <2> QED
    BY <1>4, <2>1 DEF CommitRequest, Deadline, TypeOK, rowVars, execVars, queueVars, Statuses, Terminal, RequestRecord
<1>5. ASSUME NEW a \in Approvals, NotifyRequest(a) PROVE TypeOK'
  <2>1. PICK u \in req[a].left :
          /\ Send(Notice(IF req[a].bypass THEN "bypassed" ELSE "requested",
                         a, u))
          /\ req' = [req EXCEPT ![a] =
                       [@ EXCEPT !.left = req[a].left \ {u},
                                 !.pc = IF req[a].left = {u} THEN "done"
                                        ELSE "notify"]]
    BY <1>5 DEF NotifyRequest
  <2>2. Notice(IF req[a].bypass THEN "bypassed" ELSE "requested", a, u)
          \in Notices
    <3>1. u \in Users
      BY DEF TypeOK, RequestRecord
    <3>2. (IF req[a].bypass THEN "bypassed" ELSE "requested") \in Kinds
      BY DEF Kinds
    <3> QED
      BY <3>1, <3>2, NoticeType
  <2>3. req' \in [Approvals -> RequestRecord]
    <3>1. req[a] \in RequestRecord
      BY DEF TypeOK
    <3>2. [req[a] EXCEPT !.left = req[a].left \ {u},
                         !.pc = IF req[a].left = {u} THEN "done" ELSE "notify"]
            \in RequestRecord
      BY <3>1 DEF RequestRecord, ReqPcs
    <3> QED
      BY <2>1, <3>2 DEF TypeOK
  <2>4. /\ sent' \in [Notices -> Nat]
        /\ waiting' \in SUBSET Notices
        /\ bells' \in SUBSET Bells
    BY <1>5, <2>1, <2>2, SendType DEF NotifyRequest, TypeOK
  <2> QED
    BY <1>5, <2>3, <2>4 DEF NotifyRequest, TypeOK, rowVars, execVars
<1>6. ASSUME NEW a \in Approvals, FailRequest(a) PROVE TypeOK'
  <2>1. req' \in [Approvals -> RequestRecord]
    <3>1. req \in [Approvals -> RequestRecord] /\ req[a] \in RequestRecord
      BY DEF TypeOK
    <3>2. [req[a] EXCEPT !.pc = IF req[a].pc = "notify" THEN "done" ELSE "failed",
                         !.left = {}] \in RequestRecord
      BY <3>1 DEF RequestRecord, ReqPcs
    <3> QED
      BY <1>6, <3>1, <3>2 DEF FailRequest
  <2> QED
    BY <1>6, <2>1 DEF FailRequest, TypeOK, rowVars, execVars, queueVars
<1>7. ASSUME NEW s \in Sessions, NEW a \in Approvals, NEW d \in Decisions,
             Authorize(s, a, d)
      PROVE  TypeOK'
  <2>1. sess' \in [Sessions -> SessionRecord]
    BY <1>7 DEF Authorize, TypeOK, SessionRecord, SessPcs
  <2> QED
    BY <1>7, <2>1 DEF Authorize, TypeOK, rowVars, execVars, queueVars
<1>8. ASSUME NEW s \in Sessions, Decide(s) PROVE TypeOK'
  <2>1. [sess[s] EXCEPT !.pc = IF sess[s].decision = "approved"
                               THEN "updated" ELSE "ready",
                        !.at = now]
          \in SessionRecord
    <3>1. sess[s] \in SessionRecord /\ now \in Nat
      BY DEF TypeOK
    <3> QED
      BY <3>1 DEF SessionRecord, SessPcs
  <2>2. sess' \in [Sessions -> SessionRecord]
    BY <1>8, <2>1 DEF Decide, TypeOK
  <2> QED
    BY <1>8, <2>2 DEF Decide, TypeOK, rowVars, execVars, queueVars, LockRow, SessionRecord
<1>9. ASSUME NEW s \in Sessions, DecideTooLate(s) PROVE TypeOK'
  <2>1. sess' \in [Sessions -> SessionRecord]
    BY <1>9 DEF DecideTooLate, TypeOK, SessionRecord, SessPcs, IdleSess, Decisions, Approvals
  <2> QED
    BY <1>9, <2>1 DEF DecideTooLate, TypeOK, rowVars, execVars, queueVars
<1>10. ASSUME NEW s \in Sessions, Execute(s) PROVE TypeOK'
  <2>1. sess' \in [Sessions -> SessionRecord]
    BY <1>10 DEF Execute, TypeOK, SessionRecord, SessPcs
  <2> QED
    BY <1>10, <2>1 DEF Execute, TypeOK, rowVars, execVars, queueVars, SessionRecord
<1>11. ASSUME NEW s \in Sessions, CommitDecision(s) PROVE TypeOK'
  <2>1. sess' \in [Sessions -> SessionRecord]
    BY <1>11 DEF CommitDecision, TypeOK, SessionRecord, SessPcs
  <2> QED
    BY <1>11, <2>1 DEF CommitDecision, TypeOK, rowVars, execVars, queueVars, SessionRecord, Statuses, Terminal,
                         Decisions
<1>12. ASSUME NEW s \in Sessions, NotifyDecision(s) PROVE TypeOK'
  <2>1. Send(Notice("resolved", sess[s].row, Child))
    BY <1>12 DEF NotifyDecision
  <2>2. Notice("resolved", sess[s].row, Child) \in Notices
    BY NoticeType DEF TypeOK, SessionRecord, Kinds, Users
  <2>3. sess' \in [Sessions -> SessionRecord]
    BY <1>12 DEF NotifyDecision, TypeOK, SessionRecord, SessPcs, IdleSess,
                 Decisions, Approvals
  <2>4. /\ sent' \in [Notices -> Nat]
        /\ waiting' \in SUBSET Notices
        /\ bells' \in SUBSET Bells
    BY <1>12, <2>1, <2>2, SendType DEF NotifyDecision, TypeOK
  <2> QED
    BY <1>12, <2>3, <2>4 DEF NotifyDecision, TypeOK, rowVars, execVars
<1>13. ASSUME NEW s \in Sessions, FailDecision(s) PROVE TypeOK'
  <2>1. sess' \in [Sessions -> SessionRecord]
    BY <1>13 DEF FailDecision, TypeOK, SessionRecord, SessPcs, IdleSess, Decisions, Approvals
  <2> QED
    BY <1>13, <2>1 DEF FailDecision, TypeOK, rowVars, execVars, queueVars, SessionRecord
<1>14. ASSUME NEW w \in Sweeps, StartSweep(w) PROVE TypeOK'
  <2> DEFINE due == {a \in Approvals : Overdue(a, now)}
  <2>1. [IdleSweep EXCEPT !.pc = "select", !.cutoff = now, !.due = due]
          \in SweepRecord
    <3> HIDE DEF due
    <3>1. due \in SUBSET Approvals
      BY DEF due
    <3>2. now \in Nat
      BY DEF TypeOK
    <3> QED
      BY <3>1, <3>2, IdleSweepType DEF SweepRecord, SweepPcs
  <2>2. sweep' \in [Sweeps -> SweepRecord]
    BY <1>14, <2>1 DEF StartSweep, TypeOK
  <2> QED
    BY <1>14, <2>2 DEF StartSweep, TypeOK, rowVars, execVars, queueVars
<1>15. ASSUME NEW w \in Sweeps, SelectPage(w) PROVE TypeOK'
  <2>1. NextPage(w) \in SUBSET Approvals
    BY DEF NextPage
  <2>2. sweep' \in [Sweeps -> SweepRecord]
    <3>1. CASE NextPage(w) = {}
      BY <1>15, <3>1, IdleSweepType DEF SelectPage, TypeOK
    <3>2. CASE NextPage(w) # {}
      <4>1. PICK m \in NextPage(w) :
              sweep' = [sweep EXCEPT ![w] =
                [@ EXCEPT !.pc = "row", !.todo = NextPage(w), !.last = m,
                   !.more = (Cardinality(NextPage(w)) = ChunkSize)]]
        BY <1>15, <3>2 DEF SelectPage
      <4>2. m \in Nat
        BY <2>1 DEF Approvals
      <4>3. [sweep[w] EXCEPT !.pc = "row", !.todo = NextPage(w), !.last = m,
               !.more = (Cardinality(NextPage(w)) = ChunkSize)] \in SweepRecord
        <5>1. sweep[w] \in SweepRecord
          BY DEF TypeOK
        <5> QED
          BY <2>1, <4>2, <5>1 DEF SweepRecord, SweepPcs
      <4> QED
        BY <4>1, <4>3 DEF TypeOK
    <3> QED
      BY <3>1, <3>2
  <2> QED
    BY <1>15, <2>2 DEF SelectPage, TypeOK, rowVars, execVars, queueVars
<1>16. ASSUME NEW w \in Sweeps, EndPage(w) PROVE TypeOK'
  <2>1. [sweep[w] EXCEPT !.pc = "select"]
          \in SweepRecord
    BY DEF TypeOK, SweepRecord, SweepPcs
  <2>2. sweep' \in [Sweeps -> SweepRecord]
    BY IdleSweepType, <1>16, <2>1 DEF EndPage, TypeOK
  <2> QED
    BY <1>16, <2>2 DEF EndPage, TypeOK, rowVars, execVars, queueVars
<1>17. ASSUME NEW w \in Sweeps, NEW a \in Approvals, Expire(w, a) PROVE TypeOK'
  <2>1. [sweep[w] EXCEPT !.pc = "updated", !.row = a, !.at = now,
                          !.todo = sweep[w].todo \ {a}]
          \in SweepRecord
    <3>1. sweep[w] \in SweepRecord /\ now \in Nat
      BY DEF TypeOK
    <3> QED
      BY <3>1 DEF SweepRecord, SweepPcs
  <2>2. sweep' \in [Sweeps -> SweepRecord]
    BY <1>17, <2>1 DEF Expire, TypeOK
  <2> QED
    BY <1>17, <2>2 DEF Expire, TypeOK, rowVars, execVars, queueVars, LockRow
<1>18. ASSUME NEW w \in Sweeps, NEW a \in Approvals, ExpireTooLate(w, a)
      PROVE  TypeOK'
  <2>1. [sweep[w] EXCEPT !.todo = sweep[w].todo \ {a}] \in SweepRecord
    <3>1. sweep[w] \in SweepRecord
      BY DEF TypeOK
    <3> QED
      BY <3>1 DEF SweepRecord, SweepPcs
  <2>2. sweep' \in [Sweeps -> SweepRecord]
    BY <1>18, <2>1 DEF ExpireTooLate, TypeOK
  <2> QED
    BY <1>18, <2>2 DEF ExpireTooLate, TypeOK, rowVars, execVars, queueVars
<1>19. ASSUME NEW w \in Sweeps, CommitExpiry(w) PROVE TypeOK'
  <2>1. [sweep[w] EXCEPT !.pc = "notify", !.left = Guardians]
          \in SweepRecord
    <3>1. sweep[w] \in SweepRecord
      BY DEF TypeOK
    <3> QED
      BY <3>1 DEF SweepRecord, SweepPcs, Users
  <2>2. sweep' \in [Sweeps -> SweepRecord]
    BY <1>19, <2>1 DEF CommitExpiry, TypeOK
  <2> QED
    BY <1>19, <2>2 DEF CommitExpiry, TypeOK, rowVars, execVars, queueVars, SweepRecord, Statuses, Terminal
<1>20. ASSUME NEW w \in Sweeps, NotifyExpiry(w) PROVE TypeOK'
  <2>1. PICK u \in sweep[w].left :
          /\ Send(Notice("expired", sweep[w].row, u))
          /\ sweep' = [sweep EXCEPT ![w] =
                         [@ EXCEPT !.left = sweep[w].left \ {u},
                                   !.pc = IF sweep[w].left = {u} THEN "row"
                                          ELSE "notify"]]
    BY <1>20 DEF NotifyExpiry
  <2>2. Notice("expired", sweep[w].row, u) \in Notices
    <3>1. sweep[w] \in SweepRecord
      BY DEF TypeOK
    <3>2. sweep[w].row \in Approvals /\ u \in Users
      BY <3>1 DEF SweepRecord
    <3> QED
      BY <3>2, NoticeType DEF Kinds
  <2>3. sweep' \in [Sweeps -> SweepRecord]
    <3>1. [sweep[w] EXCEPT !.left = sweep[w].left \ {u},
                           !.pc = IF sweep[w].left = {u} THEN "row"
                                  ELSE "notify"] \in SweepRecord
      <4>1. sweep[w] \in SweepRecord
        BY DEF TypeOK
      <4> QED
        BY <4>1 DEF SweepRecord, SweepPcs
    <3> QED
      BY <2>1, <3>1 DEF TypeOK
  <2>4. /\ sent' \in [Notices -> Nat]
        /\ waiting' \in SUBSET Notices
        /\ bells' \in SUBSET Bells
    BY <1>20, <2>1, <2>2, SendType DEF NotifyExpiry, TypeOK
  <2> QED
    BY <1>20, <2>3, <2>4 DEF NotifyExpiry, TypeOK, rowVars, execVars
<1>21. ASSUME NEW w \in Sweeps, FailSweep(w) PROVE TypeOK'
  <2>1. sweep' \in [Sweeps -> SweepRecord]
    BY <1>21, IdleSweepType DEF FailSweep, TypeOK
  <2>2. lock' \in [Approvals -> Sessions \cup Sweeps \cup {NoOne}]
    BY <1>21 DEF FailSweep, TypeOK
  <2> QED
    BY <1>21, <2>1, <2>2 DEF FailSweep, TypeOK, execVars, queueVars
<1>22. ASSUME NEW n \in Notices, Deliver(n) PROVE TypeOK'
  BY <1>22 DEF Deliver, TypeOK, rowVars, execVars, Bells, Notices
<1>23. ASSUME NEW n \in Notices, LoseNotice(n) PROVE TypeOK'
  BY <1>23 DEF LoseNotice, TypeOK, rowVars, execVars
<1>24. CASE UNCHANGED vars
  BY <1>24 DEF vars, rowVars, execVars, queueVars, TypeOK
<1> QED
  BY <1>1, <1>2, <1>3, <1>4, <1>5, <1>6, <1>7, <1>8, <1>9, <1>10, <1>11,
     <1>12, <1>13, <1>14, <1>15, <1>16, <1>17, <1>18, <1>19, <1>20, <1>21,
     <1>22, <1>23, <1>24, NextCases

\* All variables keep their types (the row, process and queue records).
THEOREM TypeCorrect == Spec => []TypeOK
  BY TypeInit, TypeStep, PTL DEF Spec

-----------------------------------------------------------------------------
(***************************************************************************)
(* The purchase is executed once, for approved rows only.  By itself       *)
(* ExecutedIffApproved is not inductive: a commit adds one to `executed'   *)
(* whatever the row is, so one must know that the row is still pending at  *)
(* the commit.  It is, because the transaction owns the row since its      *)
(* UPDATE: that is TransactionsOwnTheirRow.                                *)
(***************************************************************************)
ExecInv == TypeOK /\ TransactionsOwnTheirRow /\ ExecutedIffApproved

LEMMA ExecInit == Init => ExecInv
  BY TypeInit, ConstantsAssumption
  DEF Init, ExecInv, TransactionsOwnTheirRow, ExecutedIffApproved, IdleReq,
      IdleSess, IdleSweep, StillPending

LEMMA ExecStep == ExecInv /\ [Next]_vars => ExecInv'
<1> SUFFICES ASSUME ExecInv, [Next]_vars
             PROVE  TransactionsOwnTheirRow' /\ ExecutedIffApproved'
  BY TypeStep DEF ExecInv
<1> USE ConstantsAssumption DEF ExecInv, StillPending
<1>1. CASE Tick
  BY <1>1 DEF Tick, TransactionsOwnTheirRow, ExecutedIffApproved, rowVars,
              execVars
<1>2. ASSUME NEW a \in Approvals, Insert(a) \/ ExecuteBypass(a)
      PROVE  TransactionsOwnTheirRow' /\ ExecutedIffApproved'
  <2>1. /\ status[a] = "absent"
        /\ req'[a].pc \in {"inserted", "ready"}
        /\ req'[a].pc = "inserted" => req'[a].bypass
    <3>1. CASE Insert(a)
      BY <3>1 DEF Insert, TypeOK, TransactionsOwnTheirRow
    <3>2. CASE ExecuteBypass(a)
      BY <3>2 DEF ExecuteBypass, TypeOK, RequestRecord, TransactionsOwnTheirRow
    <3> QED
      BY <1>2, <3>1, <3>2
  <2>2. /\ UNCHANGED <<status, lock, executed, sess, sweep>>
        /\ \A b \in Approvals \ {a} : req'[b] = req[b]
    BY <1>2 DEF Insert, ExecuteBypass, TypeOK, rowVars, execVars
  <2> QED
    BY <2>1, <2>2 DEF TransactionsOwnTheirRow, ExecutedIffApproved
<1>3. ASSUME NEW a \in Approvals, CommitRequest(a)
      PROVE  TransactionsOwnTheirRow' /\ ExecutedIffApproved'
  <2>1. status[a] = "absent" /\ executed[a] = 0
    BY <1>3 DEF CommitRequest, TransactionsOwnTheirRow, ExecutedIffApproved
  <2>2. ExecutedIffApproved'
    BY <1>3, <2>1 DEF CommitRequest, TypeOK, ExecutedIffApproved
  <2>3. TransactionsOwnTheirRow'
    BY <1>3, <2>1 DEF CommitRequest, TypeOK, RequestRecord,
                      TransactionsOwnTheirRow
  <2> QED
    BY <2>2, <2>3
<1>4. ASSUME NEW a \in Approvals, NotifyRequest(a) \/ FailRequest(a)
      PROVE  TransactionsOwnTheirRow' /\ ExecutedIffApproved'
  <2>1. /\ req'[a].pc \in {"notify", "done", "failed"}
        /\ req'[a].pc = "failed" <=> req[a].pc \in {"inserted", "ready"}
        /\ req[a].pc \in {"inserted", "ready", "notify"}
    <3>1. CASE NotifyRequest(a)
      <4>1. PICK u \in req[a].left :
              req' = [req EXCEPT ![a] =
                        [@ EXCEPT !.left = req[a].left \ {u},
                                  !.pc = IF req[a].left = {u} THEN "done"
                                         ELSE "notify"]]
        BY <3>1 DEF NotifyRequest
      <4>2. req[a].pc = "notify" /\ req[a] \in RequestRecord
        BY <3>1 DEF NotifyRequest, TypeOK
      <4>3. req'[a].pc \in {"notify", "done"}
        BY <4>1, <4>2 DEF TypeOK, RequestRecord
      <4> QED
        BY <4>2, <4>3
    <3>2. CASE FailRequest(a)
      <4>1. req[a] \in RequestRecord
        BY DEF TypeOK
      <4>3. req'[a].pc = IF req[a].pc = "notify" THEN "done" ELSE "failed"
        BY <3>2, <4>1 DEF FailRequest, TypeOK, RequestRecord
      <4> QED
        BY <3>2, <4>3 DEF FailRequest
    <3> QED
      BY <1>4, <3>1, <3>2
  <2>2. /\ UNCHANGED <<status, lock, executed, sess, sweep>>
        /\ \A b \in Approvals \ {a} : req'[b] = req[b]
    BY <1>4 DEF NotifyRequest, FailRequest, TypeOK, rowVars, execVars
  <2> QED
    BY <2>1, <2>2 DEF TransactionsOwnTheirRow, ExecutedIffApproved
<1>5. ASSUME NEW s \in Sessions, NEW a \in Approvals, NEW d \in Decisions,
             Authorize(s, a, d)
      PROVE  TransactionsOwnTheirRow' /\ ExecutedIffApproved'
  BY <1>5 DEF Authorize, TypeOK, SessionRecord,
              TransactionsOwnTheirRow, ExecutedIffApproved, rowVars, execVars
<1>6. ASSUME NEW s \in Sessions, Decide(s)
      PROVE  TransactionsOwnTheirRow' /\ ExecutedIffApproved'
  BY <1>6 DEF Decide, LockRow, TypeOK, SessionRecord,
              TransactionsOwnTheirRow, ExecutedIffApproved, execVars
<1>7. ASSUME NEW s \in Sessions,
             DecideTooLate(s) \/ Execute(s) \/ NotifyDecision(s)
      PROVE  TransactionsOwnTheirRow' /\ ExecutedIffApproved'
  <2>1. sess'[s].pc = "idle" \/ (/\ sess[s].pc = "updated"
                                /\ sess'[s].row = sess[s].row)
    <3>1. CASE DecideTooLate(s) \/ NotifyDecision(s)
      BY <3>1 DEF DecideTooLate, NotifyDecision, IdleSess, TypeOK
    <3>2. CASE Execute(s)
      BY <3>2 DEF Execute, TypeOK, SessionRecord
    <3> QED
      BY <1>7, <3>1, <3>2
  <2>2. /\ UNCHANGED <<status, lock, executed, req, sweep>>
        /\ \A t \in Sessions \ {s} : sess'[t] = sess[t]
    BY <1>7 DEF DecideTooLate, Execute, NotifyDecision, TypeOK, rowVars,
                execVars
  <2> QED
    BY <2>1, <2>2 DEF TransactionsOwnTheirRow, ExecutedIffApproved
<1>8. ASSUME NEW s \in Sessions, CommitDecision(s)
      PROVE  TransactionsOwnTheirRow' /\ ExecutedIffApproved'
  <2> DEFINE a == sess[s].row
  <2>1. /\ a \in Approvals /\ sess[s].decision \in Decisions
        /\ lock[a] = s /\ status[a] = "pending" /\ executed[a] = 0
    BY <1>8 DEF CommitDecision, TypeOK, SessionRecord,
                TransactionsOwnTheirRow, ExecutedIffApproved
  <2>2. ExecutedIffApproved'
    BY <1>8, <2>1 DEF CommitDecision, TypeOK, ExecutedIffApproved, Decisions
  <2>3. TransactionsOwnTheirRow'
    BY <1>8, <2>1 DEF CommitDecision, TypeOK, SessionRecord, SweepRecord,
                      TransactionsOwnTheirRow, Decisions
  <2> QED
    BY <2>2, <2>3
<1>9. ASSUME NEW s \in Sessions, FailDecision(s)
      PROVE  TransactionsOwnTheirRow' /\ ExecutedIffApproved'
  BY <1>9 DEF FailDecision, IdleSess, TypeOK, SessionRecord, SweepRecord,
              TransactionsOwnTheirRow, ExecutedIffApproved
<1>10. ASSUME NEW w \in Sweeps, StartSweep(w) \/ SelectPage(w) \/ EndPage(w)
       PROVE  TransactionsOwnTheirRow' /\ ExecutedIffApproved'
  <2>1. /\ UNCHANGED <<rowVars, execVars, req, sess>>
        /\ \E r : r.pc # "updated" /\ sweep' = [sweep EXCEPT ![w] = r]
    BY <1>10 DEF StartSweep, SelectPage, EndPage, IdleSweep, TypeOK, SweepRecord
  <2> QED
    BY <2>1 DEF TypeOK, TransactionsOwnTheirRow, ExecutedIffApproved, rowVars,
                execVars
<1>11. ASSUME NEW w \in Sweeps, NEW a \in Approvals,
              Expire(w, a) \/ ExpireTooLate(w, a)
       PROVE  TransactionsOwnTheirRow' /\ ExecutedIffApproved'
  <2>1. CASE Expire(w, a)
    BY <2>1 DEF Expire, LockRow, TypeOK, SweepRecord, SessionRecord,
                TransactionsOwnTheirRow, ExecutedIffApproved, execVars
  <2>2. CASE ExpireTooLate(w, a)
    BY <2>2 DEF ExpireTooLate, TypeOK, SweepRecord, rowVars,
                TransactionsOwnTheirRow, ExecutedIffApproved, execVars
  <2> QED
    BY <1>11, <2>1, <2>2
<1>12. ASSUME NEW w \in Sweeps, CommitExpiry(w)
       PROVE  TransactionsOwnTheirRow' /\ ExecutedIffApproved'
  <2> DEFINE a == sweep[w].row
  <2>1. /\ a \in Approvals
        /\ lock[a] = w /\ status[a] = "pending" /\ executed[a] = 0
    BY <1>12 DEF CommitExpiry, TypeOK, SweepRecord,
                 TransactionsOwnTheirRow, ExecutedIffApproved
  <2>2. ExecutedIffApproved'
    BY <1>12, <2>1 DEF CommitExpiry, TypeOK, ExecutedIffApproved, execVars
  <2>3. TransactionsOwnTheirRow'
    BY <1>12, <2>1 DEF CommitExpiry, TypeOK, SessionRecord, SweepRecord,
                       TransactionsOwnTheirRow
  <2> QED
    BY <2>2, <2>3
<1>13. ASSUME NEW w \in Sweeps, NotifyExpiry(w)
       PROVE  TransactionsOwnTheirRow' /\ ExecutedIffApproved'
  BY <1>13 DEF NotifyExpiry, TypeOK, SweepRecord, rowVars, execVars,
               TransactionsOwnTheirRow, ExecutedIffApproved
<1>14. ASSUME NEW w \in Sweeps, FailSweep(w)
       PROVE  TransactionsOwnTheirRow' /\ ExecutedIffApproved'
  BY <1>14 DEF FailSweep, IdleSweep, TypeOK, SessionRecord, SweepRecord,
               execVars, TransactionsOwnTheirRow, ExecutedIffApproved
<1>15. ASSUME NEW n \in Notices, Deliver(n) \/ LoseNotice(n)
       PROVE  TransactionsOwnTheirRow' /\ ExecutedIffApproved'
  BY <1>15 DEF Deliver, LoseNotice, rowVars, execVars,
               TransactionsOwnTheirRow, ExecutedIffApproved
<1>16. CASE UNCHANGED vars
  BY <1>16 DEF vars, rowVars, execVars, TransactionsOwnTheirRow,
               ExecutedIffApproved
<1> QED
  BY <1>1, <1>2, <1>3, <1>4, <1>5, <1>6, <1>7, <1>8, <1>9, <1>10, <1>11,
     <1>12, <1>13, <1>14, <1>15, <1>16, NextCases

\* Whatever the guardians, the sweeps and the failures do, a purchase is
\* executed exactly once if its row is approved and never otherwise.
THEOREM ExecutionCorrect ==
  Spec => [](ExecutedIffApproved /\ TransactionsOwnTheirRow)
<1>1. ExecInv => ExecutedIffApproved /\ TransactionsOwnTheirRow
  BY DEF ExecInv
<1> QED
  BY ExecInit, ExecStep, <1>1, PTL DEF Spec

-----------------------------------------------------------------------------
(* The committed rows from outside: only the three commits change them.    *)

LEMMA RowsChangeByCommit ==
  ASSUME [Next]_vars
  PROVE  \/ UNCHANGED <<status, executed, respondedAt, expiresAt>>
         \/ \E a \in Approvals : CommitRequest(a)
         \/ \E s \in Sessions : CommitDecision(s)
         \/ \E w \in Sweeps : CommitExpiry(w)
<1>1. CASE Tick \/ UNCHANGED vars
  BY <1>1 DEF Tick, vars, rowVars, execVars
<1>2. ASSUME NEW a \in Approvals,
             \/ Insert(a) \/ ExecuteBypass(a) \/ NotifyRequest(a)
             \/ FailRequest(a)
      PROVE  UNCHANGED <<status, executed, respondedAt, expiresAt>>
  BY <1>2 DEF Insert, ExecuteBypass, NotifyRequest, FailRequest, rowVars,
              execVars
<1>3. ASSUME NEW s \in Sessions,
             \/ \E a \in Approvals, d \in Decisions : Authorize(s, a, d)
             \/ Decide(s) \/ DecideTooLate(s) \/ Execute(s)
             \/ NotifyDecision(s) \/ FailDecision(s)
      PROVE  UNCHANGED <<status, executed, respondedAt, expiresAt>>
  BY <1>3 DEF Authorize, Decide, DecideTooLate, Execute, NotifyDecision,
              FailDecision, rowVars, execVars
<1>4. ASSUME NEW w \in Sweeps,
             \/ StartSweep(w) \/ SelectPage(w) \/ EndPage(w)
             \/ \E a \in Approvals : Expire(w, a) \/ ExpireTooLate(w, a)
             \/ NotifyExpiry(w) \/ FailSweep(w)
      PROVE  UNCHANGED <<status, executed, respondedAt, expiresAt>>
  BY <1>4 DEF StartSweep, SelectPage, EndPage, Expire, ExpireTooLate,
              NotifyExpiry, FailSweep, rowVars, execVars
<1>5. ASSUME NEW n \in Notices, Deliver(n) \/ LoseNotice(n)
      PROVE  UNCHANGED <<status, executed, respondedAt, expiresAt>>
  BY <1>5 DEF Deliver, LoseNotice, rowVars, execVars
<1> QED
  BY <1>1, <1>2, <1>3, <1>4, <1>5, NextCases

LEMMA TerminalStep ==
  ASSUME ExecInv, [Next]_vars, NEW a \in Approvals, status[a] \in Terminal
  PROVE  status'[a] = status[a] /\ respondedAt'[a] = respondedAt[a]
<1> USE DEF ExecInv
<1>1. CASE UNCHANGED <<status, executed, respondedAt, expiresAt>>
  BY <1>1
<1>2. ASSUME NEW b \in Approvals, CommitRequest(b)
      PROVE  status'[a] = status[a] /\ respondedAt'[a] = respondedAt[a]
  BY <1>2 DEF CommitRequest, TransactionsOwnTheirRow, TypeOK, Terminal
<1>3. ASSUME NEW s \in Sessions, CommitDecision(s)
      PROVE  status'[a] = status[a] /\ respondedAt'[a] = respondedAt[a]
  BY <1>3 DEF CommitDecision, TransactionsOwnTheirRow, StillPending, TypeOK,
              Terminal
<1>4. ASSUME NEW w \in Sweeps, CommitExpiry(w)
      PROVE  status'[a] = status[a] /\ respondedAt'[a] = respondedAt[a]
  BY <1>4 DEF CommitExpiry, TransactionsOwnTheirRow, StillPending, TypeOK,
              Terminal
<1> QED
  BY <1>1, <1>2, <1>3, <1>4, RowsChangeByCommit

\* No step, of whatever process, leads out of approved, denied or expired.
THEOREM TerminalStatusIsFinal == Spec => TerminalIsFinal
<1>1. ExecInv /\ [Next]_vars =>
        [\A a \in Approvals : status[a] \in Terminal =>
           status'[a] = status[a] /\ respondedAt'[a] = respondedAt[a]]_vars
  BY TerminalStep
<1> QED
  BY <1>1, ExecInit, ExecStep, PTL DEF Spec, TerminalIsFinal

LEMMA OutcomeInit == Init => Outcome!Init
  BY DEF Init, Outcome!Init

LEMMA OutcomeStep ==
  ExecInv /\ [Next]_vars => [Outcome!Next]_(Outcome!vars)
<1> SUFFICES ASSUME ExecInv, [Next]_vars
             PROVE  [Outcome!Next]_(Outcome!vars)
  OBVIOUS
<1> USE DEF ExecInv
<1>1. CASE UNCHANGED <<status, executed, respondedAt, expiresAt>>
  BY <1>1 DEF Outcome!vars
<1>2. ASSUME NEW a \in Approvals, CommitRequest(a) PROVE Outcome!Next
  <2>1. status[a] = "absent"
    BY <1>2 DEF CommitRequest, TransactionsOwnTheirRow
  <2>2. CASE req[a].bypass
    <3>1. Outcome!Approve(a)
      BY <1>2, <2>1, <2>2 DEF CommitRequest, Outcome!Approve, TypeOK
    <3> QED
      BY <3>1 DEF Outcome!Next
  <2>3. CASE ~req[a].bypass
    <3>1. Outcome!Ask(a)
      BY <1>2, <2>1, <2>3 DEF CommitRequest, Outcome!Ask, TypeOK
    <3> QED
      BY <3>1 DEF Outcome!Next
  <2> QED
    BY <2>2, <2>3
<1>3. ASSUME NEW s \in Sessions, CommitDecision(s) PROVE Outcome!Next
  <2> DEFINE a == sess[s].row
  <2>1. a \in Approvals /\ status[a] = "pending"
        /\ sess[s].decision \in Decisions
    BY <1>3 DEF CommitDecision, TransactionsOwnTheirRow, StillPending, TypeOK,
                SessionRecord
  <2>2. CASE sess[s].decision = "approved"
    <3>1. Outcome!Approve(a)
      BY <1>3, <2>1, <2>2 DEF CommitDecision, Outcome!Approve, TypeOK
    <3> QED
      BY <2>1, <3>1 DEF Outcome!Next
  <2>3. CASE sess[s].decision = "denied"
    <3>1. Outcome!Refuse(a)
      BY <1>3, <2>1, <2>3 DEF CommitDecision, Outcome!Refuse, TypeOK
    <3> QED
      BY <2>1, <3>1 DEF Outcome!Next
  <2> QED
    BY <2>1, <2>2, <2>3 DEF Decisions
<1>4. ASSUME NEW w \in Sweeps, CommitExpiry(w) PROVE Outcome!Next
  <2> DEFINE a == sweep[w].row
  <2>1. a \in Approvals /\ status[a] = "pending"
    BY <1>4 DEF CommitExpiry, TransactionsOwnTheirRow, StillPending, TypeOK,
                SweepRecord
  <2>2. Outcome!Refuse(a)
    BY <1>4, <2>1 DEF CommitExpiry, Outcome!Refuse, TypeOK, execVars
  <2> QED
    BY <2>1, <2>2 DEF Outcome!Next
<1> QED
  BY <1>1, <1>2, <1>3, <1>4, RowsChangeByCommit

\* The protocol of transactions, row locks, notifications and sweeps implements
\* the promise of PurchaseOutcome.
THEOREM Refinement == Spec => ImplementsOutcome
  BY OutcomeInit, OutcomeStep, ExecInit, ExecStep, PTL
  DEF Spec, ImplementsOutcome, Outcome!Spec

-----------------------------------------------------------------------------
(***************************************************************************)
(* What the executor is asked to do.  The calls for a row that stand are   *)
(* those of its approval, or of the one transaction that may yet approve   *)
(* it: open transactions own their row, so there is no second one.         *)
(***************************************************************************)
Calling(a) ==
  \/ req[a].pc = "ready" /\ req[a].bypass
  \/ \E s \in Sessions : /\ sess[s].pc = "ready" /\ sess[s].row = a
                         /\ sess[s].decision = "approved"

CallsInv ==
  /\ \A s \in Sessions :
       sess[s].pc = "updated" => sess[s].decision = "approved"
  /\ \A a \in Approvals :
       calls[a] = undone[a]
                    + IF status[a] = "approved" \/ Calling(a) THEN 1 ELSE 0

LEMMA CallsInit == Init => CallsInv
  BY ConstantsAssumption
  DEF Init, CallsInv, Calling, IdleReq, IdleSess

\* Steps that leave the executor, the committed rows and whoever has called it
\* alone.
LEMMA CallsFrame ==
  ASSUME CallsInv, UNCHANGED <<status, calls, undone>>,
         \A a \in Approvals : (req'[a].pc = "ready" /\ req'[a].bypass)
                                <=> (req[a].pc = "ready" /\ req[a].bypass),
         \A s \in Sessions :
           \/ sess'[s] = sess[s]
           \/ /\ ~(sess[s].pc = "ready" /\ sess[s].decision = "approved")
              /\ ~(sess'[s].pc = "ready" /\ sess'[s].decision = "approved")
              /\ sess'[s].pc = "updated" => sess'[s].decision = "approved"
  PROVE  CallsInv'
<1>1. \A a \in Approvals : Calling(a)' <=> Calling(a)
  BY DEF Calling
<1> QED
  BY <1>1 DEF CallsInv

LEMMA CallsStep == ExecInv /\ CallsInv /\ [Next]_vars => CallsInv'
<1> SUFFICES ASSUME ExecInv, CallsInv, [Next]_vars PROVE CallsInv'
  OBVIOUS
<1> USE ConstantsAssumption DEF ExecInv
<1>1. CASE Tick \/ UNCHANGED vars
  BY <1>1, CallsFrame DEF Tick, vars, rowVars, execVars
<1>2. ASSUME NEW a \in Approvals, Insert(a) PROVE CallsInv'
  <2>1. PICK p \in PaymentTypes, strict \in BOOLEAN :
          req' = [req EXCEPT ![a] =
                    [pc |-> IF Bypasses(p, strict) THEN "inserted"
                            ELSE "ready",
                     bypass |-> Bypasses(p, strict),
                     at |-> now, left |-> {}]]
    BY <1>2 DEF Insert
  <2>2. ~(req'[a].pc = "ready" /\ req'[a].bypass) /\ req[a].pc # "ready"
    BY <1>2, <2>1 DEF Insert, TypeOK
  <2>3. \A b \in Approvals \ {a} : req'[b] = req[b]
    BY <2>1 DEF TypeOK
  <2> QED
    BY <1>2, <2>2, <2>3, CallsFrame DEF Insert, rowVars, execVars
<1>3. ASSUME NEW a \in Approvals, ExecuteBypass(a) PROVE CallsInv'
  <2>1. req[a].pc = "inserted" /\ req[a].bypass /\ status[a] = "absent"
    BY <1>3 DEF ExecuteBypass, TransactionsOwnTheirRow
  <2>2. req'[a].pc = "ready" /\ req'[a].bypass
    BY <1>3, <2>1 DEF ExecuteBypass, TypeOK, RequestRecord
  <2>3. \A b \in Approvals \ {a} : req'[b] = req[b]
    BY <1>3 DEF ExecuteBypass, TypeOK
  <2>4. ~Calling(a)
    BY <2>1 DEF Calling, TransactionsOwnTheirRow, StillPending
  <2>5. /\ UNCHANGED <<status, undone, sess>>
        /\ calls' = [calls EXCEPT ![a] = @ + 1]
    BY <1>3 DEF ExecuteBypass, rowVars
  <2>6. Calling(a)' /\ \A b \in Approvals \ {a} : Calling(b)' <=> Calling(b)
    BY <2>2, <2>3, <2>5 DEF Calling
  <2>7. \A b \in Approvals : calls[b] \in Nat /\ undone[b] \in Nat
    BY DEF TypeOK
  <2>8. /\ calls'[a] = calls[a] + 1
        /\ \A b \in Approvals \ {a} : calls'[b] = calls[b]
    BY <2>5 DEF TypeOK
  <2> QED
    BY <2>1, <2>4, <2>5, <2>6, <2>7, <2>8 DEF CallsInv
<1>4. ASSUME NEW a \in Approvals, CommitRequest(a) PROVE CallsInv'
  <2>1. /\ req[a].pc = "ready" /\ status[a] = "absent"
        /\ status'[a] = IF req[a].bypass THEN "approved" ELSE "pending"
        /\ \A b \in Approvals \ {a} : status'[b] = status[b]
    BY <1>4 DEF CommitRequest, TransactionsOwnTheirRow, TypeOK
  <2>2. req'[a].pc = "notify"
        /\ \A b \in Approvals \ {a} : req'[b] = req[b]
    BY <1>4 DEF CommitRequest, TypeOK, RequestRecord
  <2>3. UNCHANGED <<calls, undone, sess>>
    BY <1>4 DEF CommitRequest
  <2>4. \A s \in Sessions : sess[s].pc = "ready" => sess[s].row # a
    BY <2>1 DEF TransactionsOwnTheirRow, StillPending
  <2>5. /\ ~Calling(a)' /\ (Calling(a) <=> req[a].bypass)
        /\ \A b \in Approvals \ {a} : Calling(b)' <=> Calling(b)
    BY <2>1, <2>2, <2>3, <2>4 DEF Calling
  <2> QED
    BY <2>1, <2>3, <2>5 DEF CallsInv
<1>5. ASSUME NEW a \in Approvals, NotifyRequest(a) PROVE CallsInv'
  <2>1. PICK u \in req[a].left :
          /\ Send(Notice(IF req[a].bypass THEN "bypassed" ELSE "requested",
                         a, u))
          /\ req' = [req EXCEPT ![a] =
                       [@ EXCEPT !.left = req[a].left \ {u},
                                 !.pc = IF req[a].left = {u} THEN "done"
                                        ELSE "notify"]]
    BY <1>5 DEF NotifyRequest
  <2>2. req[a].pc = "notify" /\ req[a] \in RequestRecord
    BY <1>5 DEF NotifyRequest, TypeOK
  <2>3. req'[a].pc # "ready" /\ \A b \in Approvals \ {a} : req'[b] = req[b]
    BY <2>1, <2>2 DEF TypeOK, RequestRecord
  <2> QED
    BY <1>5, <2>2, <2>3, CallsFrame DEF NotifyRequest, rowVars, execVars
<1>6. ASSUME NEW a \in Approvals, FailRequest(a) PROVE CallsInv'
  <2>1. /\ req'[a].pc \in {"done", "failed"}
        /\ \A b \in Approvals \ {a} : req'[b] = req[b]
    BY <1>6 DEF FailRequest, TypeOK, RequestRecord
  <2>2. UNCHANGED <<status, calls, sess>>
    BY <1>6 DEF FailRequest, rowVars
  <2>3. /\ undone'[a] = undone[a] + IF req[a].pc = "ready" /\ req[a].bypass
                                    THEN 1 ELSE 0
        /\ \A b \in Approvals \ {a} : undone'[b] = undone[b]
    BY <1>6 DEF FailRequest, TypeOK
  <2>4. /\ calls[a] \in Nat /\ undone[a] \in Nat
    BY DEF TypeOK
  <2>5. \A b \in Approvals \ {a} : Calling(b)' <=> Calling(b)
    BY <2>1, <2>2 DEF Calling
  <2>6. CASE req[a].pc = "ready" /\ req[a].bypass
    <3>1. status[a] = "absent"
      BY <2>6 DEF TransactionsOwnTheirRow
    <3>2. ~Calling(a)' /\ Calling(a)
      BY <2>1, <2>2, <2>6, <3>1
      DEF Calling, TransactionsOwnTheirRow, StillPending
    <3> QED
      BY <2>2, <2>3, <2>4, <2>5, <2>6, <3>1, <3>2 DEF CallsInv
  <2>7. CASE ~(req[a].pc = "ready" /\ req[a].bypass)
    <3>1. Calling(a)' <=> Calling(a)
      BY <2>1, <2>2, <2>7 DEF Calling
    <3> QED
      BY <2>2, <2>3, <2>4, <2>5, <2>7, <3>1 DEF CallsInv
  <2> QED
    BY <2>6, <2>7
<1>7. ASSUME NEW s \in Sessions,
             \/ \E a \in Approvals, d \in Decisions : Authorize(s, a, d)
             \/ Decide(s) \/ DecideTooLate(s) \/ NotifyDecision(s)
      PROVE  CallsInv'
  <2>1. /\ sess[s].pc \in {"idle", "authorized", "notify"}
        /\ ~(sess'[s].pc = "ready" /\ sess'[s].decision = "approved")
        /\ sess'[s].pc = "updated" => sess'[s].decision = "approved"
    <3>1. CASE \E a \in Approvals, d \in Decisions : Authorize(s, a, d)
      BY <3>1 DEF Authorize, TypeOK
    <3>2. CASE Decide(s)
      BY <3>2 DEF Decide, TypeOK, SessionRecord
    <3>3. CASE DecideTooLate(s) \/ NotifyDecision(s)
      BY <3>3 DEF DecideTooLate, NotifyDecision, TypeOK, IdleSess
    <3> QED
      BY <1>7, <3>1, <3>2, <3>3
  <2>2. /\ UNCHANGED <<status, calls, undone, req>>
        /\ \A t \in Sessions \ {s} : sess'[t] = sess[t]
    BY <1>7 DEF Authorize, Decide, DecideTooLate, NotifyDecision, TypeOK,
                rowVars, execVars
  <2> QED
    BY <2>1, <2>2, CallsFrame
<1>8. ASSUME NEW s \in Sessions, Execute(s) PROVE CallsInv'
  <2> DEFINE a == sess[s].row
  <2>1. /\ sess[s].pc = "updated" /\ sess[s].decision = "approved"
        /\ a \in Approvals /\ lock[a] = s /\ status[a] = "pending"
    BY <1>8
    DEF Execute, CallsInv, TransactionsOwnTheirRow, StillPending, TypeOK,
        SessionRecord
  <2>2. ~Calling(a)
    BY <2>1 DEF Calling, TransactionsOwnTheirRow
  <2>3. /\ UNCHANGED <<status, undone, req>>
        /\ calls' = [calls EXCEPT ![a] = @ + 1]
        /\ sess' = [sess EXCEPT ![s] = [@ EXCEPT !.pc = "ready"]]
    BY <1>8 DEF Execute, rowVars
  <2>4. /\ sess'[s].pc = "ready" /\ sess'[s].row = a
        /\ sess'[s].decision = "approved"
        /\ \A t \in Sessions \ {s} : sess'[t] = sess[t]
    BY <2>1, <2>3 DEF TypeOK, SessionRecord
  <2>5. PICK b \in Approvals : b = a
    BY <2>1
  <2>6. Calling(b)' /\ \A c \in Approvals \ {b} : Calling(c)' <=> Calling(c)
    BY <2>1, <2>3, <2>4, <2>5 DEF Calling
  <2>7. /\ calls'[b] = calls[b] + 1 /\ calls[b] \in Nat /\ undone[b] \in Nat
        /\ \A c \in Approvals \ {b} : calls'[c] = calls[c]
    BY <2>3, <2>5 DEF TypeOK
  <2>8. ~Calling(b) /\ status[b] = "pending"
    BY <2>1, <2>2, <2>5
  <2> QED
    BY <2>3, <2>4, <2>6, <2>7, <2>8 DEF CallsInv
<1>9. ASSUME NEW s \in Sessions, CommitDecision(s) PROVE CallsInv'
  <2>1. PICK a \in Approvals : a = sess[s].row
    BY DEF TypeOK, SessionRecord
  <2>2. /\ sess[s].pc = "ready" /\ sess[s].decision \in Decisions
        /\ lock[a] = s /\ status[a] = "pending"
    BY <1>9, <2>1
    DEF CommitDecision, TransactionsOwnTheirRow, StillPending, TypeOK,
        SessionRecord
  <2>3. /\ UNCHANGED <<calls, undone, req>>
        /\ status'[a] = sess[s].decision
        /\ \A b \in Approvals \ {a} : status'[b] = status[b]
        /\ sess'[s].pc = "notify"
        /\ \A t \in Sessions \ {s} : sess'[t] = sess[t]
    BY <1>9, <2>1 DEF CommitDecision, TypeOK, SessionRecord
  <2>4. req[a].pc # "ready"
    BY <2>2 DEF TransactionsOwnTheirRow
  <2>5. \A t \in Sessions \ {s} : ~(sess[t].pc = "ready" /\ sess[t].row = a)
    BY <2>2 DEF TransactionsOwnTheirRow
  <2>6. ~Calling(a)' /\ (Calling(a) <=> sess[s].decision = "approved")
    BY <2>1, <2>2, <2>3, <2>4, <2>5 DEF Calling
  <2>7. \A b \in Approvals \ {a} : Calling(b)' <=> Calling(b)
    BY <2>1, <2>3 DEF Calling
  <2> QED
    BY <2>2, <2>3, <2>6, <2>7 DEF CallsInv, Decisions
<1>10. ASSUME NEW s \in Sessions, FailDecision(s) PROVE CallsInv'
  <2>1. PICK a \in Approvals : a = sess[s].row
    BY DEF TypeOK, SessionRecord
  <2>2. /\ UNCHANGED <<calls, status, req>>
        /\ sess'[s].pc = "idle"
        /\ \A t \in Sessions \ {s} : sess'[t] = sess[t]
    BY <1>10 DEF FailDecision, TypeOK, IdleSess
  <2>3. /\ undone'[a] = undone[a] + IF /\ sess[s].pc = "ready"
                                       /\ sess[s].decision = "approved"
                                    THEN 1 ELSE 0
        /\ \A b \in Approvals \ {a} : undone'[b] = undone[b]
        /\ undone[a] \in Nat /\ calls[a] \in Nat
    BY <1>10, <2>1 DEF FailDecision, TypeOK
  <2>4. \A b \in Approvals \ {a} : Calling(b)' <=> Calling(b)
    BY <2>1, <2>2 DEF Calling
  <2>5. CASE sess[s].pc = "ready" /\ sess[s].decision = "approved"
    <3>1. /\ lock[a] = s /\ status[a] = "pending" /\ req[a].pc # "ready"
          /\ \A t \in Sessions \ {s} : ~(sess[t].pc = "ready"
                                         /\ sess[t].row = a)
      BY <2>1, <2>5 DEF TransactionsOwnTheirRow, StillPending
    <3>2. ~Calling(a)' /\ Calling(a)
      BY <2>1, <2>2, <2>5, <3>1 DEF Calling
    <3> QED
      BY <2>2, <2>3, <2>4, <2>5, <3>1, <3>2 DEF CallsInv
  <2>6. CASE ~(sess[s].pc = "ready" /\ sess[s].decision = "approved")
    <3>1. Calling(a)' <=> Calling(a)
      BY <2>2, <2>6 DEF Calling
    <3> QED
      BY <2>2, <2>3, <2>4, <2>6, <3>1 DEF CallsInv
  <2> QED
    BY <2>5, <2>6
<1>11. ASSUME NEW w \in Sweeps,
              \/ StartSweep(w) \/ SelectPage(w) \/ EndPage(w)
              \/ \E a \in Approvals : Expire(w, a) \/ ExpireTooLate(w, a)
              \/ NotifyExpiry(w) \/ FailSweep(w)
       PROVE  CallsInv'
  <2>1. UNCHANGED <<status, calls, undone, req, sess>>
    <3>1. CASE StartSweep(w) \/ SelectPage(w) \/ EndPage(w)
      BY <3>1 DEF StartSweep, SelectPage, EndPage, rowVars, execVars
    <3>2. CASE \E a \in Approvals : Expire(w, a) \/ ExpireTooLate(w, a)
      BY <3>2 DEF Expire, ExpireTooLate, rowVars, execVars
    <3>3. CASE NotifyExpiry(w) \/ FailSweep(w)
      BY <3>3 DEF NotifyExpiry, FailSweep, rowVars, execVars
    <3> QED
      BY <1>11, <3>1, <3>2, <3>3
  <2> QED
    BY <2>1, CallsFrame
<1>12. ASSUME NEW w \in Sweeps, CommitExpiry(w) PROVE CallsInv'
  <2>1. PICK a \in Approvals : a = sweep[w].row
    BY DEF TypeOK, SweepRecord
  <2>2. /\ UNCHANGED <<calls, undone, req, sess>>
        /\ status[a] = "pending" /\ status'[a] = "expired"
        /\ \A b \in Approvals \ {a} : status'[b] = status[b]
    BY <1>12, <2>1
    DEF CommitExpiry, TransactionsOwnTheirRow, StillPending, TypeOK, execVars
  <2>3. \A b \in Approvals : Calling(b)' <=> Calling(b)
    BY <2>2 DEF Calling
  <2> QED
    BY <2>2, <2>3 DEF CallsInv
<1>13. ASSUME NEW n \in Notices, Deliver(n) \/ LoseNotice(n) PROVE CallsInv'
  BY <1>13, CallsFrame DEF Deliver, LoseNotice, rowVars, execVars
<1> QED
  BY <1>1, <1>2, <1>3, <1>4, <1>5, <1>6, <1>7, <1>8, <1>9, <1>10, <1>11,
     <1>12, <1>13, NextCases

\* An executor with effects of its own may rely on it: whatever is rolled back,
\* retried or answered twice, of all the calls for one row at most one stands.
THEOREM CallsCorrect == Spec => []AtMostOneStandingCall
<1>1. ExecInv /\ CallsInv => AtMostOneStandingCall
  <2> SUFFICES ASSUME ExecInv, CallsInv, NEW a \in Approvals
               PROVE  calls[a] - undone[a] \in {0, 1}
    BY DEF AtMostOneStandingCall
  <2>1. calls[a] \in Nat /\ undone[a] \in Nat
    BY DEF ExecInv, TypeOK
  <2>2. calls[a] = undone[a] \/ calls[a] = undone[a] + 1
    BY <2>1 DEF CallsInv
  <2> QED
    BY <2>1, <2>2
<1> QED
  BY ExecInit, ExecStep, CallsInit, CallsStep, <1>1, PTL DEF Spec

-----------------------------------------------------------------------------
(***************************************************************************)
(* The sweep.  What it selected may be answered before it gets there, so   *)
(* what it knows of a row is only what cannot be taken back: that the row  *)
(* was there and was overdue at the cutoff.                                *)
(***************************************************************************)
SelectedWasDue(w) ==
  /\ sweep[w].cutoff <= now
  /\ \A a \in sweep[w].todo \cup sweep[w].due :
       status[a] # "absent" /\ expiresAt[a] < sweep[w].cutoff
  /\ sweep[w].pc = "updated" => expiresAt[sweep[w].row] < sweep[w].at

DueInv ==
  /\ \A w \in Sweeps : SelectedWasDue(w)
  /\ ExpiredOnlyWhenDue

LEMMA DueInit == Init => DueInv
  BY ConstantsAssumption
  DEF Init, DueInv, SelectedWasDue, ExpiredOnlyWhenDue, IdleSweep

LEMMA ClockStep ==
  ASSUME TypeOK, [Next]_vars
  PROVE  now' \in Nat /\ now <= now'
<1>0. now \in Nat
  BY DEF TypeOK
<1>1. CASE Tick \/ UNCHANGED vars
  BY <1>0, <1>1 DEF Tick, vars
<1>2. ASSUME NEW a \in Approvals,
             \/ Insert(a) \/ ExecuteBypass(a) \/ CommitRequest(a)
             \/ NotifyRequest(a) \/ FailRequest(a)
      PROVE  now' = now
  BY <1>2 DEF Insert, ExecuteBypass, CommitRequest, NotifyRequest, FailRequest
<1>3. ASSUME NEW s \in Sessions,
             \/ \E a \in Approvals, d \in Decisions : Authorize(s, a, d)
             \/ Decide(s) \/ DecideTooLate(s) \/ Execute(s)
             \/ CommitDecision(s) \/ NotifyDecision(s) \/ FailDecision(s)
      PROVE  now' = now
  BY <1>3 DEF Authorize, Decide, DecideTooLate, Execute, CommitDecision,
              NotifyDecision, FailDecision
<1>4. ASSUME NEW w \in Sweeps,
             \/ StartSweep(w) \/ SelectPage(w) \/ EndPage(w)
             \/ \E a \in Approvals : Expire(w, a) \/ ExpireTooLate(w, a)
             \/ CommitExpiry(w) \/ NotifyExpiry(w) \/ FailSweep(w)
      PROVE  now' = now
  BY <1>4 DEF StartSweep, SelectPage, EndPage, Expire, ExpireTooLate,
              CommitExpiry, NotifyExpiry, FailSweep
<1>5. ASSUME NEW n \in Notices, Deliver(n) \/ LoseNotice(n)
      PROVE  now' = now
  BY <1>5 DEF Deliver, LoseNotice
<1> QED
  BY <1>0, <1>1, <1>2, <1>3, <1>4, <1>5, NextCases

\* A row that is there stays, keeps its deadline, and never opens again.
LEMMA PresentStep ==
  ASSUME ExecInv, [Next]_vars, NEW a \in Approvals, status[a] # "absent"
  PROVE  /\ status'[a] # "absent" /\ expiresAt'[a] = expiresAt[a]
         /\ status'[a] = "pending" => status[a] = "pending"
<1> USE DEF ExecInv
<1>1. CASE UNCHANGED <<status, executed, respondedAt, expiresAt>>
  BY <1>1
<1>2. ASSUME NEW b \in Approvals, CommitRequest(b)
      PROVE  status'[a] = status[a] /\ expiresAt'[a] = expiresAt[a]
  BY <1>2 DEF CommitRequest, TransactionsOwnTheirRow, TypeOK
<1>3. ASSUME NEW s \in Sessions, CommitDecision(s)
      PROVE  /\ status'[a] \in Decisions \/ status'[a] = status[a]
             /\ expiresAt'[a] = expiresAt[a]
  BY <1>3 DEF CommitDecision, TypeOK, SessionRecord
<1>4. ASSUME NEW w \in Sweeps, CommitExpiry(w)
      PROVE  /\ status'[a] = "expired" \/ status'[a] = status[a]
             /\ expiresAt'[a] = expiresAt[a]
  BY <1>4 DEF CommitExpiry, TypeOK
<1> QED
  BY <1>1, <1>2, <1>3, <1>4, RowsChangeByCommit DEF Decisions

\* Only a sweep's own steps change what it knows.
LEMMA SweepsMove ==
  ASSUME Next, NEW w \in Sweeps, sweep'[w] # sweep[w], TypeOK
  PROVE  \/ StartSweep(w) \/ SelectPage(w) \/ EndPage(w)
         \/ \E a \in Approvals : Expire(w, a) \/ ExpireTooLate(w, a)
         \/ CommitExpiry(w) \/ NotifyExpiry(w) \/ FailSweep(w)
<1>1. CASE Tick
  BY <1>1 DEF Tick
<1>2. ASSUME NEW a \in Approvals,
             \/ Insert(a) \/ ExecuteBypass(a) \/ CommitRequest(a)
             \/ NotifyRequest(a) \/ FailRequest(a)
      PROVE  sweep' = sweep
  BY <1>2 DEF Insert, ExecuteBypass, CommitRequest, NotifyRequest, FailRequest
<1>3. ASSUME NEW s \in Sessions,
             \/ \E a \in Approvals, d \in Decisions : Authorize(s, a, d)
             \/ Decide(s) \/ DecideTooLate(s) \/ Execute(s)
             \/ CommitDecision(s) \/ NotifyDecision(s) \/ FailDecision(s)
      PROVE  sweep' = sweep
  BY <1>3 DEF Authorize, Decide, DecideTooLate, Execute, CommitDecision,
              NotifyDecision, FailDecision
<1>4. ASSUME NEW v \in Sweeps, v # w,
             \/ StartSweep(v) \/ SelectPage(v) \/ EndPage(v)
             \/ \E a \in Approvals : Expire(v, a) \/ ExpireTooLate(v, a)
             \/ CommitExpiry(v) \/ NotifyExpiry(v) \/ FailSweep(v)
      PROVE  sweep'[w] = sweep[w]
  <2>1. CASE StartSweep(v) \/ SelectPage(v) \/ EndPage(v)
    BY <1>4, <2>1 DEF StartSweep, SelectPage, EndPage, TypeOK
  <2>2. CASE \E a \in Approvals : Expire(v, a) \/ ExpireTooLate(v, a)
    BY <1>4, <2>2 DEF Expire, ExpireTooLate, TypeOK
  <2>3. CASE CommitExpiry(v) \/ NotifyExpiry(v) \/ FailSweep(v)
    BY <1>4, <2>3 DEF CommitExpiry, NotifyExpiry, FailSweep, TypeOK
  <2> QED
    BY <1>4, <2>1, <2>2, <2>3
<1>5. ASSUME NEW n \in Notices, Deliver(n) \/ LoseNotice(n)
      PROVE  sweep' = sweep
  BY <1>5 DEF Deliver, LoseNotice
<1> QED
  BY <1>1, <1>2, <1>3, <1>4, <1>5, NextCases

LEMMA DueStep == ExecInv /\ DueInv /\ [Next]_vars => DueInv'
<1> SUFFICES ASSUME ExecInv, DueInv, [Next]_vars PROVE DueInv'
  OBVIOUS
<1> USE ConstantsAssumption
<1>0. TypeOK /\ now \in Nat /\ now' \in Nat /\ now <= now'
  BY ClockStep DEF ExecInv, TypeOK
<1>1. ASSUME NEW w \in Sweeps PROVE SelectedWasDue(w)'
  <2>0. /\ sweep[w] \in SweepRecord
        /\ SelectedWasDue(w)
    BY <1>0 DEF TypeOK, DueInv
  <2>1. \A a \in Approvals : expiresAt[a] \in Nat
    BY <1>0 DEF TypeOK
  <2>2. CASE sweep'[w] = sweep[w]
    <3>1. \A a \in sweep[w].todo \cup sweep[w].due :
            status'[a] # "absent" /\ expiresAt'[a] = expiresAt[a]
      BY <2>0, PresentStep DEF SweepRecord, SelectedWasDue
    <3>2. sweep[w].pc = "updated" =>
            expiresAt'[sweep[w].row] = expiresAt[sweep[w].row]
      BY <2>0, PresentStep
      DEF SweepRecord, ExecInv, TransactionsOwnTheirRow, StillPending
    <3> QED
      BY <1>0, <2>0, <2>2, <3>1, <3>2 DEF SelectedWasDue, SweepRecord
  <2>3. CASE StartSweep(w)
    <3>1. sweep'[w] = [IdleSweep EXCEPT !.pc = "select", !.cutoff = now,
                         !.due = {a \in Approvals : Overdue(a, now)}]
      BY <1>0, <2>3 DEF StartSweep, TypeOK
    <3>2. UNCHANGED <<now, status, expiresAt>>
      BY <2>3 DEF StartSweep, rowVars
    <3> QED
      BY <1>0, <3>1, <3>2 DEF SelectedWasDue, IdleSweep, Overdue
  <2>4. CASE SelectPage(w)
    <3>1. UNCHANGED <<now, status, expiresAt>>
      BY <2>4 DEF SelectPage, rowVars
    <3>2. CASE NextPage(w) = {}
      <4>1. sweep'[w] = IdleSweep
        BY <1>0, <2>4, <3>2 DEF SelectPage, TypeOK
      <4> QED
        BY <1>0, <3>1, <4>1 DEF SelectedWasDue, IdleSweep
    <3>3. CASE NextPage(w) # {}
      <4>1. PICK m \in NextPage(w) :
              sweep' = [sweep EXCEPT ![w] =
                [@ EXCEPT !.pc = "row", !.todo = NextPage(w), !.last = m,
                   !.more = (Cardinality(NextPage(w)) = ChunkSize)]]
        BY <2>4, <3>3 DEF SelectPage
      <4>2. /\ sweep'[w].pc = "row" /\ sweep'[w].todo = NextPage(w)
            /\ sweep'[w].cutoff = sweep[w].cutoff
            /\ sweep'[w].due = sweep[w].due
        BY <1>0, <2>0, <4>1 DEF TypeOK, SweepRecord
      <4>3. \A a \in NextPage(w) :
              status[a] # "absent" /\ expiresAt[a] < sweep[w].cutoff
        BY DEF NextPage, Overdue
      <4> QED
        BY <2>0, <3>1, <4>2, <4>3 DEF SelectedWasDue
    <3> QED
      BY <3>2, <3>3
  <2>5. CASE EndPage(w)
    <3>1. UNCHANGED <<now, status, expiresAt>>
      BY <2>5 DEF EndPage, rowVars
    <3>2. \/ sweep'[w] = IdleSweep
          \/ sweep'[w] = [sweep[w] EXCEPT !.pc = "select"]
      BY <1>0, <2>5 DEF EndPage, TypeOK
    <3> QED
      BY <1>0, <2>0, <3>1, <3>2 DEF SelectedWasDue, IdleSweep, SweepRecord
  <2>6. ASSUME NEW a \in Approvals, Expire(w, a) PROVE SelectedWasDue(w)'
    <3>1. UNCHANGED <<now, status, expiresAt>> /\ a \in sweep[w].todo
      BY <2>6 DEF Expire, FirstOf
    <3>2. sweep'[w] = [sweep[w] EXCEPT !.pc = "updated", !.row = a,
                          !.at = now, !.todo = sweep[w].todo \ {a}]
      BY <1>0, <2>6 DEF Expire, TypeOK
    <3>3. /\ sweep'[w].row = a /\ sweep'[w].at = now
          /\ sweep'[w].todo = sweep[w].todo \ {a}
          /\ sweep'[w].cutoff = sweep[w].cutoff
          /\ sweep'[w].due = sweep[w].due
      BY <2>0, <3>2 DEF SweepRecord
    <3>4. expiresAt[a] < sweep[w].cutoff /\ sweep[w].cutoff \in Nat
      BY <2>0, <3>1 DEF SelectedWasDue, SweepRecord
    <3> QED
      BY <1>0, <2>0, <2>1, <3>1, <3>3, <3>4 DEF SelectedWasDue
  <2>7. ASSUME NEW a \in Approvals, ExpireTooLate(w, a)
        PROVE  SelectedWasDue(w)'
    <3>1. UNCHANGED <<now, status, expiresAt>>
      BY <2>7 DEF ExpireTooLate, rowVars
    <3>2. sweep'[w] = [sweep[w] EXCEPT !.todo = sweep[w].todo \ {a}]
      BY <1>0, <2>7 DEF ExpireTooLate, TypeOK
    <3> QED
      BY <2>0, <3>1, <3>2 DEF SelectedWasDue, SweepRecord
  <2>8. CASE CommitExpiry(w) \/ NotifyExpiry(w)
    <3>1. /\ UNCHANGED <<now, expiresAt>>
          /\ sweep'[w].pc # "updated"
          /\ sweep'[w].todo = sweep[w].todo /\ sweep'[w].due = sweep[w].due
          /\ sweep'[w].cutoff = sweep[w].cutoff
      <4>1. CASE CommitExpiry(w)
        BY <1>0, <2>0, <4>1 DEF CommitExpiry, TypeOK, SweepRecord
      <4>2. CASE NotifyExpiry(w)
        <5>1. PICK u \in sweep[w].left :
                sweep' = [sweep EXCEPT ![w] =
                           [@ EXCEPT !.left = sweep[w].left \ {u},
                                     !.pc = IF sweep[w].left = {u} THEN "row"
                                            ELSE "notify"]]
          BY <4>2 DEF NotifyExpiry
        <5>2. UNCHANGED <<now, expiresAt>>
          BY <4>2 DEF NotifyExpiry, rowVars
        <5> QED
          BY <1>0, <2>0, <5>1, <5>2 DEF TypeOK, SweepRecord
      <4> QED
        BY <2>8, <4>1, <4>2
    <3>2. \A a \in sweep[w].todo \cup sweep[w].due : status'[a] # "absent"
      BY <2>0, PresentStep DEF SweepRecord, SelectedWasDue
    <3> QED
      BY <2>0, <3>1, <3>2 DEF SelectedWasDue
  <2>9. CASE FailSweep(w)
    <3>1. sweep'[w] = IdleSweep
      BY <1>0, <2>9 DEF FailSweep, TypeOK
    <3> QED
      BY <1>0, <3>1 DEF SelectedWasDue, IdleSweep
  <2>10. CASE UNCHANGED vars
    BY <2>2, <2>10 DEF vars
  <2> QED
    BY <1>0, <2>2, <2>3, <2>4, <2>5, <2>6, <2>7, <2>8, <2>9, <2>10, SweepsMove
<1>2. ExpiredOnlyWhenDue'
  <2>0. ExpiredOnlyWhenDue
    BY DEF DueInv
  <2>1. CASE UNCHANGED <<status, executed, respondedAt, expiresAt>>
    BY <2>0, <2>1 DEF ExpiredOnlyWhenDue
  <2>2. ASSUME NEW a \in Approvals, CommitRequest(a)
        PROVE  ExpiredOnlyWhenDue'
    BY <1>0, <2>0, <2>2 DEF CommitRequest, ExpiredOnlyWhenDue, TypeOK
  <2>3. ASSUME NEW s \in Sessions, CommitDecision(s)
        PROVE  ExpiredOnlyWhenDue'
    BY <1>0, <2>0, <2>3
    DEF CommitDecision, ExpiredOnlyWhenDue, TypeOK, SessionRecord, Decisions
  <2>4. ASSUME NEW w \in Sweeps, CommitExpiry(w) PROVE ExpiredOnlyWhenDue'
    <3>1. /\ sweep[w].row \in Approvals
          /\ sweep[w].at \in Nat /\ expiresAt[sweep[w].row] \in Nat
      BY <1>0 DEF TypeOK, SweepRecord
    <3>2. expiresAt[sweep[w].row] < sweep[w].at
      BY <2>4 DEF DueInv, SelectedWasDue, CommitExpiry
    <3> QED
      BY <1>0, <2>0, <2>4, <3>1, <3>2
      DEF CommitExpiry, ExpiredOnlyWhenDue, TypeOK
  <2> QED
    BY <2>1, <2>2, <2>3, <2>4, RowsChangeByCommit
<1> QED
  BY <1>1, <1>2 DEF DueInv

\* No row expires before its 48 hours are over, however long a sweep takes from
\* the selection to the update and whatever clock its page was selected by.
THEOREM ExpiryCorrect == Spec => []ExpiredOnlyWhenDue
<1>1. DueInv => ExpiredOnlyWhenDue
  BY DEF DueInv
<1> QED
  BY ExecInit, ExecStep, DueInit, DueStep, <1>1, PTL DEF Spec

-----------------------------------------------------------------------------
(***************************************************************************)
(* The sweep again: what is still pending of the rows that were overdue    *)
(* when it began lies ahead of it, on its page or after it.  A page that   *)
(* is not full has nothing after it, and that is a fact about cardinality: *)
(* if a row were left out of the page, the first one left out would have   *)
(* ChunkSize rows before it, and those would be the page.                  *)
(***************************************************************************)
LEMMA FirstExists ==
  ASSUME NEW S \in SUBSET Nat, S # {}
  PROVE  \E c \in S : \A x \in S : c <= x
<1> DEFINE R == {ss \in Nat \X Nat : ss[1] < ss[2]}
<1>1. R = OpToRel(<, Nat)
  BY Zenon DEF OpToRel
<1>2. \A x, c \in Nat : x < c => <<x, c>> \in R
  OBVIOUS
<1> HIDE DEF R
<1>3. IsWellFoundedOn(R, Nat)
  BY <1>1, NatLessThanWellFounded, Zenon
<1>4. PICK c \in S : \A x \in S : ~(<<x, c>> \in R)
  BY <1>3, WFMin, Zenon
<1>5. \A x \in S : ~(x < c)
  BY <1>2, <1>4
<1> QED
  BY <1>5

\* Those of S up to x.
UpTo(S, x) == {b \in S : b <= x}

LEMMA UpToGrows ==
  ASSUME NEW S \in SUBSET Nat, IsFiniteSet(S),
         NEW x \in Nat, NEW y \in Nat, x <= y
  PROVE  /\ UpTo(S, x) \subseteq UpTo(S, y)
         /\ IsFiniteSet(UpTo(S, x)) /\ Cardinality(UpTo(S, x)) \in Nat
         /\ Cardinality(UpTo(S, y)) \in Nat
         /\ Cardinality(UpTo(S, x)) <= Cardinality(UpTo(S, y))
<1>1. UpTo(S, x) \subseteq UpTo(S, y)
  <2> SUFFICES ASSUME NEW b \in S, b <= x PROVE b <= y
    BY DEF UpTo
  <2>1. b \in Nat
    OBVIOUS
  <2> QED
    BY <2>1
<1>2. IsFiniteSet(UpTo(S, x)) /\ IsFiniteSet(UpTo(S, y))
  <2>1. UpTo(S, x) \subseteq S /\ UpTo(S, y) \subseteq S
    BY DEF UpTo
  <2> QED
    BY <2>1, FS_Subset
<1>3. Cardinality(UpTo(S, x)) \in Nat /\ Cardinality(UpTo(S, y)) \in Nat
  BY <1>2, FS_CardinalityType
<1> QED
  BY <1>1, <1>2, <1>3, FS_Subset

\* The rows after `last' that a page is cut from.
OverdueAfter(last, cutoff) == {a \in Approvals : a > last /\ Overdue(a, cutoff)}

LEMMA OverdueAreFinite ==
  ASSUME NEW last, NEW cutoff
  PROVE  /\ OverdueAfter(last, cutoff) \in SUBSET Nat
         /\ IsFiniteSet(OverdueAfter(last, cutoff))
<1>1. OverdueAfter(last, cutoff) \subseteq 1..NumApprovals
  BY DEF OverdueAfter, Approvals
<1>2. IsFiniteSet(1..NumApprovals)
  BY FS_Interval, ConstantsAssumption
<1>3. IsFiniteSet(OverdueAfter(last, cutoff))
  BY <1>1, <1>2, FS_Subset
<1>4. 1..NumApprovals \subseteq Nat
  BY ConstantsAssumption
<1> QED
  BY <1>1, <1>3, <1>4

LEMMA PageIsPrefix ==
  ASSUME NEW S \in SUBSET Nat, IsFiniteSet(S), NEW size \in Nat,
         NEW page, page = {x \in S : Cardinality(UpTo(S, x)) <= size},
         NEW m \in page, \A b \in page : b <= m,
         NEW a \in S, a \notin page
  PROVE  m < a /\ Cardinality(page) = size
<1>1. m \in Nat /\ m \in S /\ Cardinality(UpTo(S, m)) <= size
  OBVIOUS
<1>2. page = UpTo(S, m)
  <2>1. page \subseteq UpTo(S, m)
    BY DEF UpTo
  <2>2. ASSUME NEW x \in UpTo(S, m) PROVE x \in page
    <3>1. x \in S /\ x \in Nat /\ x <= m
      BY DEF UpTo
    <3>2. Cardinality(UpTo(S, x)) <= size
      BY <1>1, <3>1, UpToGrows
    <3> QED
      BY <3>1, <3>2
  <2> QED
    BY <2>1, <2>2
<1>3. m < a
  <2>1. ~(a <= m)
    BY <1>2 DEF UpTo
  <2>2. a \in Nat
    OBVIOUS
  <2> QED
    BY <1>1, <2>1, <2>2
<1>4. PICK c \in S \ page : \A x \in S \ page : c <= x
  <2>1. S \ page \in SUBSET Nat /\ S \ page # {}
    OBVIOUS
  <2> QED
    BY <2>1, FirstExists
<1>5. UpTo(S, c) = page \cup {c} /\ c \notin page /\ c \in Nat
  <2>1. c \in Nat /\ c \in S /\ c \notin page /\ ~(c <= m)
    BY <1>2, <1>4 DEF UpTo
  <2>2. ASSUME NEW x \in UpTo(S, c) PROVE x \in page \cup {c}
    <3>1. x \in S /\ x \in Nat /\ x <= c
      BY DEF UpTo
    <3>2. x \in page \/ c <= x
      BY <1>4, <3>1
    <3> QED
      BY <2>1, <3>1, <3>2
  <2>3. ASSUME NEW x \in page PROVE x \in UpTo(S, c)
    <3>1. x \in S /\ x \in Nat /\ x <= m
      OBVIOUS
    <3>2. x <= c
      BY <1>1, <2>1, <3>1
    <3> QED
      BY <3>1, <3>2 DEF UpTo
  <2>4. c \in UpTo(S, c)
    BY <2>1 DEF UpTo
  <2> QED
    BY <2>1, <2>2, <2>3, <2>4
<1>6. IsFiniteSet(page) /\ Cardinality(page) \in Nat
  <2>1. m <= m
    BY <1>1
  <2> QED
    BY <1>1, <1>2, <2>1, UpToGrows
<1>7. Cardinality(UpTo(S, c)) = Cardinality(page) + 1
  <2>1. Cardinality(page \cup {c}) =
          IF c \in page THEN Cardinality(page) ELSE Cardinality(page) + 1
    BY <1>6, FS_AddElement, Zenon
  <2> QED
    BY <1>5, <2>1, Zenon
<1>8. ~(Cardinality(UpTo(S, c)) <= size)
  BY <1>4
<1>9. Cardinality(page) <= size
  BY <1>1, <1>2
<1> QED
  BY <1>3, <1>6, <1>7, <1>8, <1>9

LEMMA NextPageIs ==
  ASSUME NEW w \in Sweeps, NEW S,
         S = OverdueAfter(sweep[w].last, sweep[w].cutoff)
  PROVE  NextPage(w) = {x \in S : Cardinality(UpTo(S, x)) <= ChunkSize}
BY DEF NextPage, OverdueAfter, UpTo

\* A page is empty only if nothing is overdue ahead of the sweep: the first of
\* such rows has nothing before it, and a page holds at least one.
LEMMA FirstPageNotEmpty ==
  ASSUME NEW w \in Sweeps,
         NEW a \in OverdueAfter(sweep[w].last, sweep[w].cutoff)
  PROVE  NextPage(w) # {}
<1> DEFINE S == OverdueAfter(sweep[w].last, sweep[w].cutoff)
<1>1. S \in SUBSET Nat /\ S # {}
  BY OverdueAreFinite
<1>2. NextPage(w) = {x \in S : Cardinality(UpTo(S, x)) <= ChunkSize}
  BY NextPageIs
<1> HIDE DEF S
<1>3. PICK c \in S : \A x \in S : c <= x
  BY <1>1, FirstExists
<1>4. UpTo(S, c) = {c}
  <2>1. ASSUME NEW x \in UpTo(S, c) PROVE x = c
    <3>1. x \in Nat /\ c \in Nat /\ x <= c /\ c <= x
      BY <1>1, <1>3 DEF UpTo
    <3> QED
      BY <3>1
  <2>2. c \in UpTo(S, c)
    BY <1>1, <1>3 DEF UpTo
  <2> QED
    BY <2>1, <2>2
<1>5. Cardinality(UpTo(S, c)) <= ChunkSize
  BY <1>4, FS_Singleton, ConstantsAssumption
<1> QED
  BY <1>2, <1>3, <1>5

\* What is left to do for w is on its page, in its hands, or ahead.
Ahead(w) ==
  /\ sweep[w].pc = "select" => sweep[w].todo = {}
  /\ \A a \in sweep[w].due : status[a] = "pending" =>
       \/ a \in sweep[w].todo
       \/ sweep[w].pc = "updated" /\ sweep[w].row = a
       \/ /\ sweep[w].last < a
          /\ sweep[w].pc = "select" \/ sweep[w].more

SweepInv == \A w \in Sweeps : Ahead(w)

LEMMA SweepInit == Init => SweepInv
  BY DEF Init, SweepInv, Ahead, IdleSweep

LEMMA SweepInvStep ==
  ExecInv /\ DueInv /\ SweepInv /\ [Next]_vars => SweepInv'
<1> SUFFICES ASSUME ExecInv, DueInv, SweepInv, [Next]_vars, NEW w \in Sweeps
             PROVE  Ahead(w)'
  BY DEF SweepInv
<1> USE ConstantsAssumption
<1>0. /\ TypeOK /\ Ahead(w) /\ sweep[w] \in SweepRecord
      /\ sweep[w].todo \cup sweep[w].due \subseteq Approvals
      /\ sweep[w].last \in Nat
  BY DEF ExecInv, TypeOK, SweepInv, SweepRecord
<1>1. \A a \in sweep[w].due :
        /\ status[a] # "absent"
        /\ status'[a] = "pending" => status[a] = "pending"
        /\ expiresAt[a] < sweep[w].cutoff
  BY <1>0, PresentStep DEF DueInv, SelectedWasDue
<1>2. CASE sweep'[w] = sweep[w]
  BY <1>0, <1>1, <1>2 DEF Ahead
<1>3. CASE StartSweep(w)
  <2>1. sweep'[w] = [IdleSweep EXCEPT !.pc = "select", !.cutoff = now,
                       !.due = {a \in Approvals : Overdue(a, now)}]
    BY <1>0, <1>3 DEF StartSweep, TypeOK
  <2>2. /\ sweep'[w].pc = "select" /\ sweep'[w].last = 0
        /\ sweep'[w].todo = {} /\ sweep'[w].due \subseteq Approvals
    BY <2>1 DEF IdleSweep
  <2>3. \A a \in Approvals : 0 < a
    BY DEF Approvals
  <2> QED
    BY <2>2, <2>3 DEF Ahead
<1>4. CASE SelectPage(w)
  <2>0. sweep[w].pc = "select" /\ sweep[w].todo = {} /\ status' = status
    BY <1>0, <1>4 DEF SelectPage, Ahead, rowVars
  <2>1. CASE NextPage(w) = {}
    <3>1. sweep'[w] = IdleSweep
      BY <1>0, <1>4, <2>1 DEF SelectPage, TypeOK
    <3> QED
      BY <3>1 DEF Ahead, IdleSweep
  <2>2. CASE NextPage(w) # {}
    <3>1. PICK m \in NextPage(w) :
            /\ \A a \in NextPage(w) : a <= m
            /\ sweep' = [sweep EXCEPT ![w] =
                [@ EXCEPT !.pc = "row", !.todo = NextPage(w), !.last = m,
                   !.more = (Cardinality(NextPage(w)) = ChunkSize)]]
      BY <1>4, <2>2 DEF SelectPage
    <3>2. /\ sweep'[w].pc = "row" /\ sweep'[w].todo = NextPage(w)
          /\ sweep'[w].last = m /\ sweep'[w].due = sweep[w].due
          /\ sweep'[w].more = (Cardinality(NextPage(w)) = ChunkSize)
      BY <1>0, <3>1 DEF TypeOK, SweepRecord
    <3>3. ASSUME NEW a \in sweep[w].due, status[a] = "pending",
                 a \notin NextPage(w)
          PROVE  m < a /\ Cardinality(NextPage(w)) = ChunkSize
      <4> DEFINE S == OverdueAfter(sweep[w].last, sweep[w].cutoff)
      <4>1. a \in S
        BY <1>0, <1>1, <2>0, <3>3 DEF Ahead, OverdueAfter, Overdue, Approvals
      <4>2. NextPage(w) = {x \in S : Cardinality(UpTo(S, x)) <= ChunkSize}
        BY NextPageIs
      <4>3. S \in SUBSET Nat /\ IsFiniteSet(S) /\ ChunkSize \in Nat
        BY OverdueAreFinite
      <4> HIDE DEF S
      <4> QED
        BY <3>1, <3>3, <4>1, <4>2, <4>3, PageIsPrefix
    <3> QED
      BY <2>0, <3>2, <3>3 DEF Ahead
  <2> QED
    BY <2>1, <2>2
<1>5. CASE EndPage(w)
  <2>1. /\ sweep[w].pc = "row" /\ sweep[w].todo = {}
        /\ sweep'[w] = IF sweep[w].more THEN [sweep[w] EXCEPT !.pc = "select"]
                       ELSE IdleSweep
        /\ status' = status
    BY <1>0, <1>5 DEF EndPage, TypeOK, rowVars
  <2>2. CASE sweep[w].more
    <3>1. /\ sweep'[w].pc = "select" /\ sweep'[w].todo = {}
          /\ sweep'[w].due = sweep[w].due /\ sweep'[w].last = sweep[w].last
      BY <1>0, <2>1, <2>2 DEF SweepRecord
    <3> QED
      BY <1>0, <2>1, <3>1 DEF Ahead
  <2>3. CASE ~sweep[w].more
    BY <2>1, <2>3 DEF Ahead, IdleSweep
  <2> QED
    BY <2>2, <2>3
<1>6. ASSUME NEW a \in Approvals, Expire(w, a) PROVE Ahead(w)'
  <2>1. /\ sweep[w].pc = "row" /\ status' = status
        /\ sweep'[w] = [sweep[w] EXCEPT !.pc = "updated", !.row = a,
                          !.at = now, !.todo = sweep[w].todo \ {a}]
    BY <1>0, <1>6 DEF Expire, TypeOK
  <2>2. /\ sweep'[w].pc = "updated" /\ sweep'[w].row = a
        /\ sweep'[w].todo = sweep[w].todo \ {a}
        /\ sweep'[w].due = sweep[w].due /\ sweep'[w].last = sweep[w].last
        /\ sweep'[w].more = sweep[w].more
    BY <1>0, <2>1 DEF SweepRecord
  <2> QED
    BY <1>0, <2>1, <2>2 DEF Ahead
<1>7. ASSUME NEW a \in Approvals, ExpireTooLate(w, a) PROVE Ahead(w)'
  <2>1. /\ sweep[w].pc = "row" /\ status' = status /\ status[a] # "pending"
        /\ sweep'[w] = [sweep[w] EXCEPT !.todo = sweep[w].todo \ {a}]
    BY <1>0, <1>7 DEF ExpireTooLate, TypeOK, StillPending, rowVars
  <2>2. /\ sweep'[w].pc = "row"
        /\ sweep'[w].todo = sweep[w].todo \ {a}
        /\ sweep'[w].due = sweep[w].due /\ sweep'[w].last = sweep[w].last
        /\ sweep'[w].more = sweep[w].more
    BY <1>0, <2>1 DEF SweepRecord
  <2> QED
    BY <1>0, <2>1, <2>2 DEF Ahead
<1>8. CASE CommitExpiry(w)
  <2>1. /\ sweep[w].pc = "updated"
        /\ sweep[w].row \in Approvals => status'[sweep[w].row] = "expired"
        /\ sweep'[w] = [sweep[w] EXCEPT !.pc = "notify", !.left = Guardians]
    BY <1>0, <1>8 DEF CommitExpiry, TypeOK
  <2>2. /\ sweep'[w].pc = "notify" /\ sweep'[w].todo = sweep[w].todo
        /\ sweep'[w].due = sweep[w].due /\ sweep'[w].last = sweep[w].last
        /\ sweep'[w].more = sweep[w].more
    BY <1>0, <2>1 DEF SweepRecord
  <2> QED
    BY <1>0, <1>1, <2>1, <2>2 DEF Ahead, SweepRecord
<1>9. CASE NotifyExpiry(w)
  <2>1. PICK u \in sweep[w].left :
          sweep' = [sweep EXCEPT ![w] =
                     [@ EXCEPT !.left = sweep[w].left \ {u},
                               !.pc = IF sweep[w].left = {u} THEN "row"
                                      ELSE "notify"]]
    BY <1>9 DEF NotifyExpiry
  <2>2. /\ sweep'[w].pc # "select" /\ sweep'[w].todo = sweep[w].todo
        /\ sweep'[w].due = sweep[w].due /\ sweep'[w].last = sweep[w].last
        /\ sweep'[w].more = sweep[w].more
    BY <1>0, <2>1 DEF TypeOK, SweepRecord
  <2>3. sweep[w].pc = "notify"
    BY <1>9 DEF NotifyExpiry
  <2> QED
    BY <1>0, <1>1, <2>2, <2>3 DEF Ahead
<1>10. CASE FailSweep(w)
  <2>1. sweep'[w] = IdleSweep
    BY <1>0, <1>10 DEF FailSweep, TypeOK
  <2> QED
    BY <2>1 DEF Ahead, IdleSweep
<1>11. CASE UNCHANGED vars
  BY <1>2, <1>11 DEF vars
<1> QED
  BY <1>0, <1>2, <1>3, <1>4, <1>5, <1>6, <1>7, <1>8, <1>9, <1>10, <1>11,
     SweepsMove

\* A sweep that runs to its end has left nothing open of what was overdue when
\* it began, for any page size and any number of rows, although others decide
\* rows and sweep meanwhile (chunkById, not chunk).
THEOREM SweepsAreComplete == Spec => SweepMissesNothing
<1>1. ExecInv /\ DueInv /\ SweepInv /\ [Next]_vars =>
        [\A w \in Sweeps :
           sweep[w].pc # "idle" /\ sweep'[w].pc = "idle" /\ faults' = faults
             => \A a \in sweep[w].due : status'[a] # "pending"]_vars
  <2> SUFFICES ASSUME ExecInv, DueInv, SweepInv, Next, NEW w \in Sweeps,
                      sweep[w].pc # "idle", sweep'[w].pc = "idle",
                      faults' = faults, NEW a \in sweep[w].due,
                      status'[a] = "pending"
               PROVE  FALSE
    BY DEF vars
  <2>0. /\ TypeOK /\ Ahead(w) /\ sweep[w] \in SweepRecord /\ a \in Approvals
        /\ status[a] = "pending" /\ expiresAt[a] < sweep[w].cutoff
    BY PresentStep
    DEF ExecInv, TypeOK, SweepInv, SweepRecord, DueInv, SelectedWasDue
  <2>1. CASE SelectPage(w)
    <3>1. sweep[w].pc = "select" /\ sweep[w].todo = {}
      BY <2>0, <2>1 DEF SelectPage, Ahead
    <3>2. sweep[w].last < a
      BY <2>0, <3>1 DEF Ahead
    <3>3. a \in OverdueAfter(sweep[w].last, sweep[w].cutoff)
      BY <2>0, <3>2 DEF OverdueAfter, Overdue, SweepRecord, Approvals
    <3>4. NextPage(w) = {}
      <4> SUFFICES ASSUME NextPage(w) # {} PROVE FALSE
        OBVIOUS
      <4>1. PICK m \in NextPage(w) :
              sweep' = [sweep EXCEPT ![w] =
                [@ EXCEPT !.pc = "row", !.todo = NextPage(w), !.last = m,
                   !.more = (Cardinality(NextPage(w)) = ChunkSize)]]
        BY <2>1 DEF SelectPage
      <4>2. sweep'[w].pc = "row"
        BY <2>0, <4>1 DEF TypeOK, SweepRecord
      <4> QED
        BY <4>2
    <3> QED
      BY <3>3, <3>4, FirstPageNotEmpty
  <2>2. CASE EndPage(w)
    <3>1. sweep[w].pc = "row" /\ sweep[w].todo = {}
      BY <2>2 DEF EndPage
    <3>2. sweep[w].more
      BY <2>0, <3>1 DEF Ahead
    <3>3. sweep'[w] = [sweep[w] EXCEPT !.pc = "select"]
      BY <2>0, <2>2, <3>2 DEF EndPage, TypeOK
    <3> QED
      BY <2>0, <3>3 DEF SweepRecord
  <2>3. CASE FailSweep(w)
    <3>1. faults' = faults + 1 /\ faults \in Nat
      BY <2>0, <2>3, ConstantsAssumption DEF FailSweep, TypeOK
    <3> QED
      BY <3>1
  <2>4. CASE StartSweep(w)
    BY <2>4 DEF StartSweep
  <2>5. ASSUME NEW b \in Approvals, Expire(w, b) \/ ExpireTooLate(w, b)
        PROVE  FALSE
    <3>1. CASE Expire(w, b)
      BY <2>0, <3>1 DEF Expire, TypeOK, SweepRecord
    <3>2. CASE ExpireTooLate(w, b)
      BY <2>0, <3>2 DEF ExpireTooLate, TypeOK, SweepRecord
    <3> QED
      BY <2>5, <3>1, <3>2
  <2>6. CASE CommitExpiry(w)
    BY <2>0, <2>6 DEF CommitExpiry, TypeOK, SweepRecord
  <2>7. CASE NotifyExpiry(w)
    <3>1. PICK u \in sweep[w].left :
            sweep' = [sweep EXCEPT ![w] =
                       [@ EXCEPT !.left = sweep[w].left \ {u},
                                 !.pc = IF sweep[w].left = {u} THEN "row"
                                        ELSE "notify"]]
      BY <2>7 DEF NotifyExpiry
    <3> QED
      BY <2>0, <3>1 DEF TypeOK, SweepRecord
  <2> QED
    BY <2>0, <2>1, <2>2, <2>3, <2>4, <2>5, <2>6, <2>7, SweepsMove
<1> QED
  BY <1>1, ExecInit, ExecStep, DueInit, DueStep, SweepInit, SweepInvStep, PTL
  DEF Spec, SweepMissesNothing

-----------------------------------------------------------------------------
(***************************************************************************)
(* What is told.  A notification is queued by whoever has committed, and a *)
(* row is committed by one process only: as long as it still has to tell   *)
(* somebody, that notification has not been queued, and nobody else is     *)
(* about to queue it.                                                      *)
(***************************************************************************)
RequestNotices ==
  /\ \A n \in Notices : sent[n] > 0 /\ n.kind \in {"requested", "bypassed"} =>
       /\ req[n.row].pc \in {"notify", "done"}
       /\ n.to \notin req[n.row].left
  /\ \A a \in Approvals : req[a].bypass /\ req[a].pc \in {"notify", "done"} =>
       status[a] = "approved"

\* Whether s, or w, has committed its row and goes on to tell.
Telling(s) == sess[s].pc = "notify"
Announcing(w) == sweep[w].pc = "notify"

DecisionNotices ==
  \A s \in Sessions : Telling(s) =>
    /\ status[sess[s].row] = sess[s].decision
    /\ sent[Notice("resolved", sess[s].row, Child)] = 0
    /\ \A t \in Sessions \ {s} : Telling(t) => sess[t].row # sess[s].row

ExpiryNotices ==
  \A w \in Sweeps : Announcing(w) =>
    /\ status[sweep[w].row] = "expired"
    /\ \A u \in sweep[w].left : sent[Notice("expired", sweep[w].row, u)] = 0
    /\ \A v \in Sweeps \ {w} : Announcing(v) => sweep[v].row # sweep[w].row

QueuedWereSent ==
  /\ \A n \in waiting : sent[n] > 0
  /\ \A b \in bells : sent[b.notice] > 0

NoticeInv ==
  /\ NoticesMatchCommits /\ RequestNotices
  /\ DecisionNotices /\ ExpiryNotices /\ QueuedWereSent

LEMMA NoticeInit == Init => NoticeInv
  BY DEF Init, NoticeInv, NoticesMatchCommits, RequestNotices,
         DecisionNotices, ExpiryNotices, QueuedWereSent, Telling, Announcing,
         Notices, IdleReq, IdleSess, IdleSweep

LEMMA NoticeParts ==
  ASSUME NEW k, NEW a, NEW u
  PROVE  /\ Notice(k, a, u).kind = k /\ Notice(k, a, u).row = a
         /\ Notice(k, a, u).to = u
  BY DEF Notice

LEMMA NoticeByParts ==
  ASSUME NEW n \in Notices
  PROVE  n = Notice(n.kind, n.row, n.to)
  BY DEF Notice, Notices

\* What a row has been said to be stays true of it.
LEMMA KindsStay ==
  ASSUME ExecInv, [Next]_vars, NEW a \in Approvals
  PROVE  KindsFor(status[a]) \subseteq KindsFor(status'[a])
<1>0. status[a] \in Statuses /\ status'[a] \in Statuses
  BY TypeStep DEF ExecInv, TypeOK
<1>1. CASE status[a] = "absent"
  BY <1>1 DEF KindsFor
<1>2. CASE status[a] = "pending"
  BY <1>0, <1>2, PresentStep DEF KindsFor, Statuses, Terminal
<1>3. CASE status[a] \in Terminal
  BY <1>3, TerminalStep
<1> QED
  BY <1>0, <1>1, <1>2, <1>3 DEF Statuses

\* Steps that queue and deliver nothing keep the first clause whatever they
\* commit: an expired row is not executed, a terminal status stays.
LEMMA MatchFrame ==
  ASSUME ExecInv, ExecInv', NoticeInv, [Next]_vars, UNCHANGED queueVars
  PROVE  NoticesMatchCommits'
<1>1. /\ sent \in [Notices -> Nat] /\ bells \in SUBSET Bells
      /\ UNCHANGED <<sent, bells>>
      /\ executed' \in [Approvals -> Nat]
      /\ \A n \in Notices : n.row \in Approvals /\ n.kind \in Kinds
      /\ \A b \in bells : b.notice \in Notices
  BY DEF ExecInv, TypeOK, queueVars, Notices, Bells
<1>2. \A n \in Notices : sent[n] > 0 =>
        n.kind \in KindsFor(status'[n.row]) /\ sent[n] = 1
  BY <1>1, KindsStay DEF NoticeInv, NoticesMatchCommits
<1>3. ASSUME NEW b \in bells
      PROVE  /\ b.notice.kind = "expired" => executed'[b.notice.row] = 0
             /\ b.notice.kind # "requested" =>
                  b.status = status'[b.notice.row]
  <2> DEFINE a == b.notice.row
  <2>1. /\ b.notice \in Notices /\ a \in Approvals
        /\ sent[b.notice] > 0
        /\ b.notice.kind \in KindsFor(status[a])
        /\ b.notice.kind \in KindsFor(status'[a])
    BY <1>1, <1>2 DEF NoticeInv, QueuedWereSent, NoticesMatchCommits
  <2>2. b.notice.kind = "expired" => status'[a] = "expired"
    <3>1. status'[a] \in Statuses
      BY <2>1 DEF ExecInv, TypeOK
    <3> QED
      BY <2>1, <3>1 DEF KindsFor, Statuses, Terminal
  <2>3. b.notice.kind # "requested" => status[a] \in Terminal
    <3>1. status[a] \in Statuses
      BY <2>1 DEF ExecInv, TypeOK
    <3> QED
      BY <2>1, <3>1 DEF KindsFor, Statuses, Terminal
  <2>4. b.notice.kind # "requested" => status'[a] = status[a]
    BY <2>1, <2>3, TerminalStep
  <2>5. b.notice.kind # "requested" => b.status = status[a]
    BY DEF NoticeInv, NoticesMatchCommits
  <2>6. status'[a] = "expired" => executed'[a] = 0
    BY <2>1 DEF ExecInv, ExecutedIffApproved
  <2> QED
    BY <2>2, <2>4, <2>5, <2>6
<1> QED
  BY <1>1, <1>2, <1>3 DEF NoticesMatchCommits

\* Steps of nobody who is committing, telling or delivering.
LEMMA NoticeFrame ==
  ASSUME ExecInv, NoticeInv, UNCHANGED <<status, executed, queueVars>>,
         \A a \in Approvals :
           \/ req'[a] = req[a]
           \/ /\ req[a].pc \notin {"notify", "done"}
              /\ req'[a].pc \notin {"notify", "done"}
           \/ /\ req'[a].pc = "done" /\ req[a].pc = "notify"
              /\ req'[a].bypass = req[a].bypass /\ req'[a].left = {},
         \A s \in Sessions : sess'[s] = sess[s] \/ sess'[s].pc # "notify",
         \A w \in Sweeps : sweep'[w] = sweep[w] \/ sweep'[w].pc # "notify"
  PROVE  NoticeInv'
<1>0. UNCHANGED <<sent, waiting, bells>>
  BY DEF queueVars
<1>1. NoticesMatchCommits'
  BY <1>0 DEF NoticeInv, NoticesMatchCommits
<1>2. RequestNotices'
  <2>1. \A n \in Notices : n.row \in Approvals
    BY DEF Notices
  <2> QED
    BY <1>0, <2>1 DEF NoticeInv, RequestNotices
<1>3. DecisionNotices'
  BY <1>0 DEF NoticeInv, DecisionNotices, Telling
<1>4. ExpiryNotices'
  BY <1>0 DEF NoticeInv, ExpiryNotices, Announcing
<1>5. QueuedWereSent'
  BY <1>0 DEF NoticeInv, QueuedWereSent
<1> QED
  BY <1>1, <1>2, <1>3, <1>4, <1>5 DEF NoticeInv

\* What queueing one more notification does to the history of them.
LEMMA SendOnce ==
  ASSUME TypeOK, NEW k \in Kinds, NEW a \in Approvals, NEW u \in Users,
         Send(Notice(k, a, u)), sent[Notice(k, a, u)] = 0
  PROVE  /\ UNCHANGED bells
         /\ waiting' = waiting \cup {Notice(k, a, u)}
         /\ sent'[Notice(k, a, u)] = 1
         /\ \A n \in Notices : n # Notice(k, a, u) => sent'[n] = sent[n]
  BY NoticeType DEF Send, TypeOK

LEMMA MatchSend ==
  ASSUME ExecInv, NoticeInv, NEW k \in Kinds, NEW a \in Approvals,
         NEW u \in Users, Send(Notice(k, a, u)),
         sent[Notice(k, a, u)] = 0, k \in KindsFor(status[a]),
         UNCHANGED <<status, executed>>
  PROVE  NoticesMatchCommits' /\ QueuedWereSent'
<1> DEFINE m == Notice(k, a, u)
<1>1. /\ m \in Notices /\ m.kind = k /\ m.row = a
      /\ UNCHANGED bells /\ waiting' = waiting \cup {m} /\ sent'[m] = 1
      /\ \A n \in Notices : n # m => sent'[n] = sent[n]
      /\ sent \in [Notices -> Nat]
  BY NoticeType, NoticeParts, SendOnce DEF ExecInv, TypeOK
<1>2. waiting \subseteq Notices /\ \A b \in bells : b.notice \in Notices
  BY DEF ExecInv, TypeOK, Bells
<1> HIDE DEF m
<1>3. \A n \in Notices : sent'[n] > 0 =>
        n.kind \in KindsFor(status[n.row]) /\ sent'[n] = 1
  BY <1>1 DEF NoticeInv, NoticesMatchCommits
<1>4. NoticesMatchCommits'
  BY <1>1, <1>3 DEF NoticeInv, NoticesMatchCommits
<1>5. QueuedWereSent'
  BY <1>1, <1>2 DEF NoticeInv, QueuedWereSent
<1> QED
  BY <1>4, <1>5

LEMMA NoticeStep == ExecInv /\ NoticeInv /\ [Next]_vars => NoticeInv'
<1> SUFFICES ASSUME ExecInv, NoticeInv, [Next]_vars PROVE NoticeInv'
  OBVIOUS
<1> USE ConstantsAssumption
<1>0. TypeOK /\ ExecInv' /\ TypeOK'
  BY ExecStep DEF ExecInv
<1>1. CASE Tick \/ UNCHANGED vars
  BY <1>1, NoticeFrame DEF Tick, vars, rowVars, execVars
<1>2. ASSUME NEW a \in Approvals,
             Insert(a) \/ ExecuteBypass(a) \/ FailRequest(a)
      PROVE  NoticeInv'
  <2>1. /\ UNCHANGED <<status, executed, queueVars, sess, sweep>>
        /\ \A b \in Approvals \ {a} : req'[b] = req[b]
    BY <1>0, <1>2 DEF Insert, ExecuteBypass, FailRequest, TypeOK, rowVars,
                      execVars
  <2>2. \/ /\ req[a].pc \notin {"notify", "done"}
           /\ req'[a].pc \notin {"notify", "done"}
        \/ /\ req'[a].pc = "done" /\ req[a].pc = "notify"
           /\ req'[a].bypass = req[a].bypass /\ req'[a].left = {}
    <3>1. CASE Insert(a)
      BY <1>0, <3>1 DEF Insert, TypeOK
    <3>2. CASE ExecuteBypass(a)
      BY <1>0, <3>2 DEF ExecuteBypass, TypeOK, RequestRecord
    <3>3. CASE FailRequest(a)
      BY <1>0, <3>3 DEF FailRequest, TypeOK, RequestRecord
    <3> QED
      BY <1>2, <3>1, <3>2, <3>3
  <2> QED
    BY <2>1, <2>2, NoticeFrame
<1>3. ASSUME NEW s \in Sessions,
             \/ \E a \in Approvals, d \in Decisions : Authorize(s, a, d)
             \/ Decide(s) \/ DecideTooLate(s) \/ Execute(s) \/ FailDecision(s)
      PROVE  NoticeInv'
  <2>1. /\ UNCHANGED <<status, executed, queueVars, req, sweep>>
        /\ \A t \in Sessions \ {s} : sess'[t] = sess[t]
    BY <1>0, <1>3 DEF Authorize, Decide, DecideTooLate, Execute, FailDecision,
                      TypeOK, rowVars, execVars
  <2>2. sess'[s].pc # "notify"
    <3>1. CASE \E a \in Approvals, d \in Decisions : Authorize(s, a, d)
      BY <1>0, <3>1 DEF Authorize, TypeOK
    <3>2. CASE Decide(s) \/ Execute(s)
      <4>1. sess[s] \in SessionRecord
        BY <1>0 DEF TypeOK
      <4>2. CASE Decide(s)
        BY <1>0, <4>1, <4>2 DEF Decide, TypeOK, SessionRecord
      <4>3. CASE Execute(s)
        BY <1>0, <4>1, <4>3 DEF Execute, TypeOK, SessionRecord
      <4> QED
        BY <3>2, <4>2, <4>3
    <3>3. CASE DecideTooLate(s) \/ FailDecision(s)
      BY <1>0, <3>3 DEF DecideTooLate, FailDecision, TypeOK, IdleSess
    <3> QED
      BY <1>3, <3>1, <3>2, <3>3
  <2> QED
    BY <2>1, <2>2, NoticeFrame
<1>4. ASSUME NEW w \in Sweeps,
             \/ StartSweep(w) \/ SelectPage(w) \/ EndPage(w)
             \/ \E a \in Approvals : Expire(w, a) \/ ExpireTooLate(w, a)
             \/ FailSweep(w)
      PROVE  NoticeInv'
  <2>1. /\ UNCHANGED <<status, executed, queueVars, req, sess>>
        /\ \A v \in Sweeps \ {w} : sweep'[v] = sweep[v]
        /\ sweep'[w].pc # "notify"
    <3>1. CASE StartSweep(w)
      BY <1>0, <3>1 DEF StartSweep, TypeOK, IdleSweep, rowVars, execVars
    <3>2. CASE SelectPage(w)
      <4>1. UNCHANGED <<status, executed, queueVars, req, sess>>
        BY <3>2 DEF SelectPage, rowVars, execVars
      <4>2. CASE NextPage(w) = {}
        BY <1>0, <3>2, <4>1, <4>2 DEF SelectPage, TypeOK, IdleSweep
      <4>3. CASE NextPage(w) # {}
        <5>1. PICK m \in NextPage(w) :
                sweep' = [sweep EXCEPT ![w] =
                  [@ EXCEPT !.pc = "row", !.todo = NextPage(w), !.last = m,
                     !.more = (Cardinality(NextPage(w)) = ChunkSize)]]
          BY <3>2, <4>3 DEF SelectPage
        <5> QED
          BY <1>0, <4>1, <5>1 DEF TypeOK, SweepRecord
      <4> QED
        BY <4>2, <4>3
    <3>3. CASE EndPage(w)
      BY <1>0, <3>3 DEF EndPage, TypeOK, SweepRecord, IdleSweep, rowVars,
                        execVars
    <3>4. ASSUME NEW a \in Approvals, Expire(w, a)
          PROVE  <2>1!:
      BY <1>0, <3>4 DEF Expire, TypeOK, SweepRecord, execVars
    <3>5. ASSUME NEW a \in Approvals, ExpireTooLate(w, a)
          PROVE  <2>1!:
      BY <1>0, <3>5 DEF ExpireTooLate, TypeOK, SweepRecord, rowVars, execVars
    <3>6. CASE FailSweep(w)
      BY <1>0, <3>6 DEF FailSweep, TypeOK, IdleSweep, execVars
    <3> QED
      BY <1>4, <3>1, <3>2, <3>3, <3>4, <3>5, <3>6
  <2> QED
    BY <2>1, NoticeFrame
<1>5. ASSUME NEW a \in Approvals, CommitRequest(a) PROVE NoticeInv'
  <2>1. /\ UNCHANGED <<queueVars, sess, sweep>>
        /\ req[a].pc = "ready" /\ status[a] = "absent"
        /\ req'[a].bypass => status'[a] = "approved"
        /\ \A b \in Approvals \ {a} : req'[b] = req[b] /\ status'[b] = status[b]
    BY <1>0, <1>5 DEF CommitRequest, ExecInv, TransactionsOwnTheirRow, TypeOK,
                      RequestRecord
  <2>2. UNCHANGED <<sent, waiting, bells>>
    BY <2>1 DEF queueVars
  <2>3. NoticesMatchCommits'
    BY <1>0, <2>1, MatchFrame
  <2>4. RequestNotices'
    <3>1. \A n \in Notices : n.row \in Approvals
      BY DEF Notices
    <3>2. \A n \in Notices :
            sent[n] > 0 /\ n.kind \in {"requested", "bypassed"} => n.row # a
      BY <2>1 DEF NoticeInv, RequestNotices
    <3> QED
      BY <2>1, <2>2, <3>1, <3>2 DEF NoticeInv, RequestNotices
  <2>5. DecisionNotices'
    <3>1. \A s \in Sessions : /\ sess[s].row \in Approvals
                              /\ sess[s].decision # "absent"
      BY <1>0 DEF TypeOK, SessionRecord, Decisions
    <3>2. \A s \in Sessions : Telling(s) => sess[s].row # a
      BY <2>1, <3>1 DEF NoticeInv, DecisionNotices
    <3> QED
      BY <2>1, <2>2, <3>1, <3>2 DEF NoticeInv, DecisionNotices, Telling
  <2>6. ExpiryNotices'
    <3>1. \A w \in Sweeps : sweep[w].row \in Approvals
      BY <1>0 DEF TypeOK, SweepRecord
    <3>2. \A w \in Sweeps : Announcing(w) => sweep[w].row # a
      BY <2>1 DEF NoticeInv, ExpiryNotices
    <3> QED
      BY <2>1, <2>2, <3>1, <3>2 DEF NoticeInv, ExpiryNotices, Announcing
  <2>7. QueuedWereSent'
    BY <2>2 DEF NoticeInv, QueuedWereSent
  <2> QED
    BY <2>3, <2>4, <2>5, <2>6, <2>7 DEF NoticeInv
<1>6. ASSUME NEW a \in Approvals, NotifyRequest(a) PROVE NoticeInv'
  <2> DEFINE k == IF req[a].bypass THEN "bypassed" ELSE "requested"
  <2>1. PICK u \in req[a].left :
          /\ Send(Notice(k, a, u))
          /\ req' = [req EXCEPT ![a] =
                       [@ EXCEPT !.left = req[a].left \ {u},
                                 !.pc = IF req[a].left = {u} THEN "done"
                                        ELSE "notify"]]
    BY <1>6 DEF NotifyRequest
  <2>2. /\ req[a].pc = "notify" /\ req[a] \in RequestRecord
        /\ UNCHANGED <<status, executed, sess, sweep>>
    BY <1>0, <1>6 DEF NotifyRequest, TypeOK, rowVars, execVars
  <2>3. /\ u \in Users /\ k \in {"requested", "bypassed"} /\ k \in Kinds
        /\ Notice(k, a, u) \in Notices
    BY <2>1, <2>2, NoticeType DEF RequestRecord, Kinds
  <2>4. sent[Notice(k, a, u)] = 0
    <3>1. sent[Notice(k, a, u)] \in Nat
      BY <1>0, <2>3 DEF TypeOK
    <3>2. ~(sent[Notice(k, a, u)] > 0)
      BY <2>1, <2>3, NoticeParts DEF NoticeInv, RequestNotices
    <3> QED
      BY <3>1, <3>2
  <2>5. k \in KindsFor(status[a])
    <3>1. status[a] \in Statuses /\ status[a] # "absent"
      BY <1>0, <2>2 DEF TypeOK, ExecInv, TransactionsOwnTheirRow
    <3>2. req[a].bypass => status[a] = "approved"
      BY <2>2 DEF NoticeInv, RequestNotices
    <3> QED
      BY <3>1, <3>2 DEF KindsFor, Statuses, Terminal
  <2>6. PICK m \in Notices : m = Notice(k, a, u)
    BY <2>3
  <2>7. /\ m.kind \in {"requested", "bypassed"} /\ m.row = a /\ m.to = u
        /\ \A n \in Notices : n # m => sent'[n] = sent[n]
    BY <1>0, <2>1, <2>3, <2>4, <2>6, SendOnce, NoticeParts
  <2>8. NoticesMatchCommits' /\ QueuedWereSent'
    BY <2>1, <2>2, <2>3, <2>4, <2>5, MatchSend
  <2> HIDE DEF k
  <2>9. /\ req'[a].pc \in {"notify", "done"}
        /\ req'[a].bypass = req[a].bypass
        /\ req'[a].left = req[a].left \ {u}
        /\ \A b \in Approvals \ {a} : req'[b] = req[b]
    BY <1>0, <2>1, <2>2 DEF TypeOK, RequestRecord
  <2>10. RequestNotices'
    <3>1. \A n \in Notices : n.row \in Approvals
      BY DEF Notices
    <3> QED
      BY <2>2, <2>7, <2>9, <3>1 DEF NoticeInv, RequestNotices
  <2>11. DecisionNotices'
    <3>1. \A s \in Sessions :
            /\ Notice("resolved", sess[s].row, Child) \in Notices
            /\ Notice("resolved", sess[s].row, Child) # m
      BY <1>0, <2>7, NoticeType, NoticeParts
      DEF TypeOK, SessionRecord, Kinds, Users
    <3> QED
      BY <2>2, <2>7, <3>1 DEF NoticeInv, DecisionNotices, Telling
  <2>12. ExpiryNotices'
    <3>1. \A w \in Sweeps : \A v \in sweep[w].left :
            /\ Notice("expired", sweep[w].row, v) \in Notices
            /\ Notice("expired", sweep[w].row, v) # m
      BY <1>0, <2>7, NoticeType, NoticeParts DEF TypeOK, SweepRecord, Kinds
    <3> QED
      BY <2>2, <2>7, <3>1 DEF NoticeInv, ExpiryNotices, Announcing
  <2> QED
    BY <2>8, <2>10, <2>11, <2>12 DEF NoticeInv
<1>7. ASSUME NEW s \in Sessions, CommitDecision(s) PROVE NoticeInv'
  <2>1. PICK a \in Approvals : a = sess[s].row
    BY <1>0 DEF TypeOK, SessionRecord
  <2>2. /\ UNCHANGED <<queueVars, req, sweep>>
        /\ status[a] = "pending" /\ status'[a] = sess[s].decision
        /\ \A b \in Approvals \ {a} : status'[b] = status[b]
        /\ sess'[s].row = a /\ sess'[s].decision = sess[s].decision
        /\ \A t \in Sessions \ {s} : sess'[t] = sess[t]
    BY <1>0, <1>7, <2>1
    DEF CommitDecision, ExecInv, TransactionsOwnTheirRow, StillPending,
        TypeOK, SessionRecord
  <2>3. UNCHANGED <<sent, waiting, bells>>
    BY <2>2 DEF queueVars
  <2>4. NoticesMatchCommits'
    BY <1>0, <2>2, MatchFrame
  <2>5. RequestNotices'
    <3>1. ~(req[a].bypass /\ req[a].pc \in {"notify", "done"})
      BY <2>2 DEF NoticeInv, RequestNotices
    <3> QED
      BY <2>2, <2>3, <3>1 DEF NoticeInv, RequestNotices
  <2>6. DecisionNotices'
    <3>1. \A t \in Sessions : /\ sess[t].row \in Approvals
                              /\ sess[t].decision # "pending"
      BY <1>0 DEF TypeOK, SessionRecord, Decisions
    <3>2. \A t \in Sessions \ {s} : Telling(t) => sess[t].row # a
      BY <2>2, <3>1 DEF NoticeInv, DecisionNotices
    <3>3. sent[Notice("resolved", a, Child)] = 0
      <4>1. Notice("resolved", a, Child) \in Notices
        BY NoticeType DEF Kinds, Users
      <4>2. sent[Notice("resolved", a, Child)] \in Nat
        BY <1>0, <4>1 DEF TypeOK
      <4>3. "resolved" \notin KindsFor(status[a])
        BY <2>2 DEF KindsFor
      <4> QED
        BY <4>1, <4>2, <4>3, NoticeParts DEF NoticeInv, NoticesMatchCommits
    <3>4. ASSUME NEW t \in Sessions, Telling(t)', t # s
          PROVE  /\ Telling(t) /\ sess'[t] = sess[t] /\ sess[t].row # a
                 /\ status'[sess[t].row] = sess[t].decision
                 /\ sent[Notice("resolved", sess[t].row, Child)] = 0
      BY <2>2, <3>1, <3>2, <3>4 DEF NoticeInv, DecisionNotices, Telling
    <3>5. ASSUME NEW t \in Sessions, Telling(t)', t # s,
                 NEW r \in Sessions \ {t}, Telling(r)'
          PROVE  sess'[r].row # sess'[t].row
      <4>1. CASE r = s
        BY <2>2, <3>4, <3>5, <4>1
      <4>2. CASE r # s
        BY <3>4, <3>5, <4>2 DEF NoticeInv, DecisionNotices
      <4> QED
        BY <4>1, <4>2
    <3> QED
      BY <2>2, <2>3, <3>3, <3>4, <3>5 DEF DecisionNotices
  <2>7. ExpiryNotices'
    <3>1. \A w \in Sweeps : sweep[w].row \in Approvals
      BY <1>0 DEF TypeOK, SweepRecord
    <3>2. \A w \in Sweeps : Announcing(w) => sweep[w].row # a
      BY <2>2 DEF NoticeInv, ExpiryNotices
    <3> QED
      BY <2>2, <2>3, <3>1, <3>2 DEF NoticeInv, ExpiryNotices, Announcing
  <2>8. QueuedWereSent'
    BY <2>3 DEF NoticeInv, QueuedWereSent
  <2> QED
    BY <2>4, <2>5, <2>6, <2>7, <2>8 DEF NoticeInv
<1>8. ASSUME NEW s \in Sessions, NotifyDecision(s) PROVE NoticeInv'
  <2>1. PICK a \in Approvals : a = sess[s].row
    BY <1>0 DEF TypeOK, SessionRecord
  <2>2. PICK m \in Notices : m = Notice("resolved", a, Child)
    BY NoticeType DEF Kinds, Users
  <2>3. /\ Telling(s) /\ Send(m)
        /\ UNCHANGED <<status, executed, req, sweep>>
        /\ sess'[s].pc = "idle"
        /\ \A t \in Sessions \ {s} : sess'[t] = sess[t]
    BY <1>0, <1>8, <2>1, <2>2
    DEF NotifyDecision, Telling, TypeOK, IdleSess, rowVars, execVars
  <2>4. /\ sent[m] = 0 /\ status[a] = sess[s].decision
        /\ \A t \in Sessions \ {s} : Telling(t) => sess[t].row # a
    BY <2>1, <2>2, <2>3 DEF NoticeInv, DecisionNotices
  <2>5. "resolved" \in KindsFor(status[a])
    <3>1. status[a] \in Decisions
      BY <1>0, <2>4 DEF TypeOK, SessionRecord
    <3> QED
      BY <3>1 DEF KindsFor, Decisions
  <2>6. "resolved" \in Kinds /\ Child \in Users
    BY DEF Kinds, Users
  <2>7. /\ m.kind = "resolved" /\ m.row = a
        /\ \A n \in Notices : n # m => sent'[n] = sent[n]
    BY <1>0, <2>2, <2>3, <2>4, <2>6, SendOnce, NoticeParts
  <2>8. NoticesMatchCommits' /\ QueuedWereSent'
    BY <2>2, <2>3, <2>4, <2>5, <2>6, MatchSend
  <2>9. RequestNotices'
    <3>1. \A n \in Notices : n.kind \in {"requested", "bypassed"} => n # m
      BY <2>7
    <3> QED
      BY <2>3, <2>7, <3>1 DEF NoticeInv, RequestNotices
  <2>10. DecisionNotices'
    <3>1. \A t \in Sessions \ {s} : Telling(t) =>
            /\ Notice("resolved", sess[t].row, Child) \in Notices
            /\ Notice("resolved", sess[t].row, Child) # m
      BY <1>0, <2>4, <2>6, <2>7, NoticeType, NoticeParts
      DEF TypeOK, SessionRecord
    <3>2. ~Telling(s)'
      BY <2>3 DEF Telling
    <3> QED
      BY <2>3, <2>7, <3>1, <3>2 DEF NoticeInv, DecisionNotices, Telling
  <2>11. ExpiryNotices'
    <3>1. \A w \in Sweeps : \A v \in sweep[w].left :
            /\ Notice("expired", sweep[w].row, v) \in Notices
            /\ Notice("expired", sweep[w].row, v) # m
      BY <1>0, <2>7, NoticeType, NoticeParts DEF TypeOK, SweepRecord, Kinds
    <3> QED
      BY <2>3, <2>7, <3>1 DEF NoticeInv, ExpiryNotices, Announcing
  <2> QED
    BY <2>8, <2>9, <2>10, <2>11 DEF NoticeInv
<1>9. ASSUME NEW w \in Sweeps, CommitExpiry(w) PROVE NoticeInv'
  <2>1. PICK a \in Approvals : a = sweep[w].row
    BY <1>0 DEF TypeOK, SweepRecord
  <2>2. /\ UNCHANGED <<queueVars, req, sess>>
        /\ status[a] = "pending" /\ status'[a] = "expired"
        /\ \A b \in Approvals \ {a} : status'[b] = status[b]
        /\ sweep'[w].row = a /\ sweep'[w].left = Guardians
        /\ \A v \in Sweeps \ {w} : sweep'[v] = sweep[v]
    BY <1>0, <1>9, <2>1
    DEF CommitExpiry, ExecInv, TransactionsOwnTheirRow, StillPending, TypeOK,
        SweepRecord
  <2>3. UNCHANGED <<sent, waiting, bells>>
    BY <2>2 DEF queueVars
  <2>4. NoticesMatchCommits'
    BY <1>0, <2>2, MatchFrame
  <2>5. RequestNotices'
    <3>1. ~(req[a].bypass /\ req[a].pc \in {"notify", "done"})
      BY <2>2 DEF NoticeInv, RequestNotices
    <3> QED
      BY <2>2, <2>3, <3>1 DEF NoticeInv, RequestNotices
  <2>6. DecisionNotices'
    <3>1. \A t \in Sessions : /\ sess[t].row \in Approvals
                              /\ sess[t].decision # "pending"
      BY <1>0 DEF TypeOK, SessionRecord, Decisions
    <3>2. \A t \in Sessions : Telling(t) => sess[t].row # a
      BY <2>2, <3>1 DEF NoticeInv, DecisionNotices
    <3> QED
      BY <2>2, <2>3, <3>1, <3>2 DEF NoticeInv, DecisionNotices, Telling
  <2>7. ExpiryNotices'
    <3>1. \A v \in Sweeps : sweep[v].row \in Approvals
      BY <1>0 DEF TypeOK, SweepRecord
    <3>2. \A v \in Sweeps \ {w} : Announcing(v) => sweep[v].row # a
      BY <2>2 DEF NoticeInv, ExpiryNotices
    <3>3. ASSUME NEW u \in Guardians
          PROVE  sent[Notice("expired", a, u)] = 0
      <4>1. Notice("expired", a, u) \in Notices
        BY NoticeType DEF Kinds, Users
      <4>2. sent[Notice("expired", a, u)] \in Nat
        BY <1>0, <4>1 DEF TypeOK
      <4>3. "expired" \notin KindsFor(status[a])
        BY <2>2 DEF KindsFor
      <4> QED
        BY <4>1, <4>2, <4>3, NoticeParts DEF NoticeInv, NoticesMatchCommits
    <3>4. ASSUME NEW v \in Sweeps, Announcing(v)', v # w
          PROVE  /\ Announcing(v) /\ sweep'[v] = sweep[v] /\ sweep[v].row # a
                 /\ status'[sweep[v].row] = "expired"
                 /\ \A u \in sweep[v].left :
                      sent[Notice("expired", sweep[v].row, u)] = 0
      BY <2>2, <3>1, <3>2, <3>4 DEF NoticeInv, ExpiryNotices, Announcing
    <3>5. ASSUME NEW v \in Sweeps, Announcing(v)', v # w,
                 NEW r \in Sweeps \ {v}, Announcing(r)'
          PROVE  sweep'[r].row # sweep'[v].row
      <4>1. CASE r = w
        BY <2>2, <3>4, <3>5, <4>1
      <4>2. CASE r # w
        BY <3>4, <3>5, <4>2 DEF NoticeInv, ExpiryNotices
      <4> QED
        BY <4>1, <4>2
    <3> QED
      BY <2>2, <2>3, <3>3, <3>4, <3>5 DEF ExpiryNotices
  <2>8. QueuedWereSent'
    BY <2>3 DEF NoticeInv, QueuedWereSent
  <2> QED
    BY <2>4, <2>5, <2>6, <2>7, <2>8 DEF NoticeInv
<1>10. ASSUME NEW w \in Sweeps, NotifyExpiry(w) PROVE NoticeInv'
  <2>1. PICK a \in Approvals : a = sweep[w].row
    BY <1>0 DEF TypeOK, SweepRecord
  <2>2. PICK u \in sweep[w].left :
          /\ Send(Notice("expired", a, u))
          /\ sweep' = [sweep EXCEPT ![w] =
                         [@ EXCEPT !.left = sweep[w].left \ {u},
                                   !.pc = IF sweep[w].left = {u} THEN "row"
                                          ELSE "notify"]]
    BY <1>10, <2>1 DEF NotifyExpiry
  <2>3. u \in Users /\ "expired" \in Kinds
    BY <1>0 DEF TypeOK, SweepRecord, Kinds
  <2>4. PICK m \in Notices : m = Notice("expired", a, u)
    BY <2>3, NoticeType
  <2>5. /\ Announcing(w)
        /\ UNCHANGED <<status, executed, req, sess>>
    BY <1>10 DEF NotifyExpiry, Announcing, rowVars, execVars
  <2>6. /\ sweep'[w].row = a /\ sweep'[w].left = sweep[w].left \ {u}
        /\ \A v \in Sweeps \ {w} : sweep'[v] = sweep[v]
    <3>1. /\ sweep[w] \in SweepRecord
          /\ sweep'[w] = [sweep[w] EXCEPT !.left = sweep[w].left \ {u},
                            !.pc = IF sweep[w].left = {u} THEN "row"
                                   ELSE "notify"]
          /\ \A v \in Sweeps \ {w} : sweep'[v] = sweep[v]
      BY <1>0, <2>2 DEF TypeOK
    <3> QED
      BY <2>1, <3>1 DEF SweepRecord
  <2>7. /\ sent[m] = 0 /\ status[a] = "expired"
        /\ \A v \in Sweeps \ {w} : Announcing(v) => sweep[v].row # a
    BY <2>1, <2>2, <2>4, <2>5 DEF NoticeInv, ExpiryNotices
  <2>8. "expired" \in KindsFor(status[a])
    BY <2>7 DEF KindsFor
  <2>9. /\ m.kind = "expired" /\ m.row = a /\ m.to = u
        /\ \A n \in Notices : n # m => sent'[n] = sent[n]
    BY <1>0, <2>2, <2>3, <2>4, <2>7, SendOnce, NoticeParts
  <2>10. NoticesMatchCommits' /\ QueuedWereSent'
    BY <2>2, <2>3, <2>4, <2>5, <2>7, <2>8, MatchSend
  <2>11. RequestNotices'
    <3>1. \A n \in Notices : n.kind \in {"requested", "bypassed"} => n # m
      BY <2>9
    <3> QED
      BY <2>5, <2>9, <3>1 DEF NoticeInv, RequestNotices
  <2>12. DecisionNotices'
    <3>1. \A s \in Sessions :
            /\ Notice("resolved", sess[s].row, Child) \in Notices
            /\ Notice("resolved", sess[s].row, Child) # m
      BY <1>0, <2>9, NoticeType, NoticeParts
      DEF TypeOK, SessionRecord, Kinds, Users
    <3> QED
      BY <2>5, <2>9, <3>1 DEF NoticeInv, DecisionNotices, Telling
  <2>13. ExpiryNotices'
    <3>1. \A v \in Sweeps : Announcing(v)' => Announcing(v)
      BY <2>5, <2>6 DEF Announcing
    <3>2. \A v \in Sweeps : sweep'[v].row = sweep[v].row
      BY <2>1, <2>6
    <3>3. ASSUME NEW v \in Sweeps, Announcing(v), NEW x \in sweep'[v].left
          PROVE  sent'[Notice("expired", sweep[v].row, x)] = 0
      <4>1. x \in sweep[v].left /\ (v = w => x # u)
        BY <2>6, <3>3
      <4>2. v # w => sweep[v].row # a
        BY <2>7, <3>3
      <4>3. /\ Notice("expired", sweep[v].row, x) \in Notices
            /\ Notice("expired", sweep[v].row, x) # m
        BY <1>0, <2>9, <4>1, <4>2, NoticeType, NoticeParts
        DEF TypeOK, SweepRecord, Kinds
      <4>4. sent[Notice("expired", sweep[v].row, x)] = 0
        BY <3>3, <4>1 DEF NoticeInv, ExpiryNotices
      <4> QED
        BY <2>9, <4>3, <4>4
    <3> QED
      BY <2>5, <3>1, <3>2, <3>3 DEF NoticeInv, ExpiryNotices
  <2> QED
    BY <2>10, <2>11, <2>12, <2>13 DEF NoticeInv
<1>11. ASSUME NEW n \in Notices, Deliver(n) \/ LoseNotice(n)
       PROVE  NoticeInv'
  <2>1. /\ UNCHANGED <<status, executed, req, sess, sweep, sent>>
        /\ n \in waiting /\ waiting' = waiting \ {n}
        /\ bells' \subseteq bells \cup {[notice |-> n, status |-> status[n.row]]}
    BY <1>11 DEF Deliver, LoseNotice, rowVars, execVars
  <2>2. /\ sent[n] > 0 /\ n.kind \in KindsFor(status[n.row])
    BY <2>1 DEF NoticeInv, QueuedWereSent, NoticesMatchCommits
  <2>3. n.kind = "expired" => executed[n.row] = 0
    <3>1. n.row \in Approvals /\ status[n.row] \in Statuses
      BY <1>0 DEF Notices, TypeOK
    <3>2. n.kind = "expired" => status[n.row] = "expired"
      BY <2>2, <3>1 DEF KindsFor, Statuses, Terminal
    <3> QED
      BY <3>1, <3>2 DEF ExecInv, ExecutedIffApproved
  <2>4. NoticesMatchCommits' /\ QueuedWereSent'
    BY <2>1, <2>2, <2>3 DEF NoticeInv, NoticesMatchCommits, QueuedWereSent
  <2>5. RequestNotices'
    BY <2>1 DEF NoticeInv, RequestNotices
  <2>6. DecisionNotices'
    BY <2>1 DEF NoticeInv, DecisionNotices, Telling
  <2>7. ExpiryNotices'
    BY <2>1 DEF NoticeInv, ExpiryNotices, Announcing
  <2> QED
    BY <2>4, <2>5, <2>6, <2>7 DEF NoticeInv
<1> QED
  BY <1>1, <1>2, <1>3, <1>4, <1>5, <1>6, <1>7, <1>8, <1>9, <1>10, <1>11,
     NextCases

\* Nobody is told of what a rollback undid or is told a thing twice, and what
\* the bell shows is what happened, however late it is delivered (AD-007,
\* afterCommit).
THEOREM NoticesCorrect == Spec => []NoticesMatchCommits
<1>1. NoticeInv => NoticesMatchCommits
  BY DEF NoticeInv
<1> QED
  BY ExecInit, ExecStep, NoticeInit, NoticeStep, <1>1, PTL DEF Spec
=============================================================================
