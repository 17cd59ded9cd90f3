-------------------------- MODULE PurchaseApproval --------------------------
(***************************************************************************)
(* The purchase approvals of a child (FR-010, BR-014, BR-015): the rows of *)
(* purchase_approvals and the four kinds of process that touch them.       *)
(*                                                                         *)
(*   - the request of a child (RequestPurchaseApproval), one per row;      *)
(*   - the web requests of guardians (PendingApprovals::respond, then      *)
(*     RespondToPurchaseApproval), which run in parallel: two guardians,   *)
(*     two tabs or a double click;                                         *)
(*   - the sweeps (ExpirePurchaseApprovalsJob), which may overlap, since   *)
(*     the schedule dispatches one every 15 minutes whatever became of the *)
(*     previous one;                                                       *)
(*   - the queue worker that delivers notifications.                       *)
(*                                                                         *)
(* A database transaction is a sequence of steps.  The variables of a row  *)
(* (status, respondedAt, executed) are its committed values; what a        *)
(* transaction has written but not committed is in the record of its       *)
(* process, and the row lock its UPDATE took is in `lock'.  A rollback     *)
(* therefore only forgets, and a commit publishes all writes at once.      *)
(***************************************************************************)
EXTENDS Integers, FiniteSets

CONSTANTS
  NumApprovals,   \* rows are numbered by their auto-increment id
  Guardians,      \* the guardians of the child
  Child,          \* the child's own login
  Sessions,       \* guardians' web requests that may be in flight together
  Sweeps,         \* sweep jobs that may be in flight together
  NoOne,          \* value of `lock' for a row nobody has locked
  Window,         \* the 48 hours, in clock units
  ChunkSize,      \* rows per page of the sweep (200 in the code)
  MaxTime,        \* bound: the clock stops there
  MaxFaults       \* bound: rollbacks, crashes and lost queue jobs

ASSUME ConstantsAssumption ==
  /\ NumApprovals \in Nat \ {0} /\ Window \in Nat \ {0} /\ ChunkSize \in Nat \ {0}
  /\ MaxTime \in Nat /\ MaxFaults \in Nat
  /\ Sessions \cap Sweeps = {}
  /\ NoOne \notin Sessions \cup Sweeps
  /\ Guardians # {} /\ Child \notin Guardians

Approvals == 1..NumApprovals
Users     == Guardians \cup {Child}

Decisions == {"approved", "denied"}
Terminal  == {"approved", "denied", "expired"}
Statuses  == Terminal \cup {"absent", "pending"}

PaymentTypes == {"usd", "token"}
Kinds   == {"requested", "bypassed", "resolved", "expired"}
Notices == [kind : Kinds, row : Approvals, to : Users]
Bells   == [notice : Notices, status : Statuses]

VARIABLES
  now,          \* the clock
  status,       \* committed status of each row ("absent": no such row yet)
  expiresAt,    \* expires_at of each row
  respondedAt,  \* responded_at of each row, -1 for NULL
  lock,         \* the process whose open transaction has updated the row
  executed,     \* committed 'purchase-approval.executed' entries of the row
  calls,        \* history: calls of execute() for the row
  undone,       \* history: those whose transaction was rolled back
  req,          \* the child's request that creates the row
  sess,         \* guardians' web requests
  sweep,        \* sweep jobs
  sent,         \* history: how often each notification was put on the queue
  waiting,      \* notifications on the queue
  bells,        \* notifications delivered, with the status they showed
  faults        \* faults so far

rowVars   == <<status, expiresAt, respondedAt, lock>>
execVars  == <<executed, calls, undone>>
queueVars == <<sent, waiting, bells>>
vars == <<now, rowVars, execVars, req, sess, sweep, queueVars, faults>>

ReqPcs   == {"idle", "inserted", "ready", "notify", "done", "failed"}
SessPcs  == {"idle", "authorized", "updated", "ready", "notify"}
SweepPcs == {"idle", "select", "row", "updated", "notify"}

RequestRecord == [pc : ReqPcs, bypass : BOOLEAN, at : Nat, left : SUBSET Users]
SessionRecord == [pc : SessPcs, row : Approvals, decision : Decisions, at : Nat]
SweepRecord   == [pc : SweepPcs, cutoff : Nat, last : Nat,
                  todo : SUBSET Approvals, more : BOOLEAN, row : Approvals,
                  at : Nat, left : SUBSET Users, due : SUBSET Approvals]

IdleReq   == [pc |-> "idle", bypass |-> FALSE, at |-> 0, left |-> {}]
IdleSess  == [pc |-> "idle", row |-> 1, decision |-> "denied", at |-> 0]
IdleSweep == [pc |-> "idle", cutoff |-> 0, last |-> 0, todo |-> {},
              more |-> FALSE, row |-> 1, at |-> 0, left |-> {}, due |-> {}]

TypeOK ==
  /\ now \in 0..MaxTime
  /\ status \in [Approvals -> Statuses]
  /\ expiresAt \in [Approvals -> Nat]
  /\ respondedAt \in [Approvals -> Nat \cup {-1}]
  /\ lock \in [Approvals -> Sessions \cup Sweeps \cup {NoOne}]
  /\ executed \in [Approvals -> Nat]
  /\ calls \in [Approvals -> Nat]
  /\ undone \in [Approvals -> Nat]
  /\ req \in [Approvals -> RequestRecord]
  /\ sess \in [Sessions -> SessionRecord]
  /\ sweep \in [Sweeps -> SweepRecord]
  /\ sent \in [Notices -> Nat]
  /\ waiting \in SUBSET Notices
  /\ bells \in SUBSET Bells
  /\ faults \in 0..MaxFaults

Init ==
  /\ now = 0
  /\ status = [a \in Approvals |-> "absent"]
  /\ expiresAt = [a \in Approvals |-> 0]
  /\ respondedAt = [a \in Approvals |-> -1]
  /\ lock = [a \in Approvals |-> NoOne]
  /\ executed = [a \in Approvals |-> 0]
  /\ calls = [a \in Approvals |-> 0]
  /\ undone = [a \in Approvals |-> 0]
  /\ req = [a \in Approvals |-> IdleReq]
  /\ sess = [s \in Sessions |-> IdleSess]
  /\ sweep = [w \in Sweeps |-> IdleSweep]
  /\ sent = [n \in Notices |-> 0]
  /\ waiting = {}
  /\ bells = {}
  /\ faults = 0

-----------------------------------------------------------------------------
(* Helpers.                                                                *)

Notice(kind, a, u) == [kind |-> kind, row |-> a, to |-> u]

\* $user->notify(...) of a queued notification: one more job on the queue.
Send(n) ==
  /\ sent' = [sent EXCEPT ![n] = @ + 1]
  /\ waiting' = waiting \cup {n}
  /\ UNCHANGED bells

\* The WHERE clause of the guarded UPDATE: key and status = 'pending', the
\* status read being the latest committed one once the row lock is granted.
StillPending(a) == status[a] = "pending"

\* UPDATE purchase_approvals ... WHERE id = a AND status = 'pending'.
LockRow(p, a) == lock[a] = NoOne /\ lock' = [lock EXCEPT ![a] = p]

-----------------------------------------------------------------------------
(* RequestPurchaseApproval::handle                                         *)

\* BR-014: a token spend goes through without approval unless required.
Bypasses(paymentType, strict) == paymentType = "token" /\ ~strict

\* expires_at = requested_at + 48 hours.
Deadline(at) == at + Window

\* The INSERT, inside the transaction; ids are handed out in insert order.
Insert(a) ==
  /\ req[a].pc = "idle"
  /\ \A b \in Approvals : b < a => req[b].pc # "idle"
  /\ \E paymentType \in PaymentTypes, strict \in BOOLEAN :
       req' = [req EXCEPT ![a] =
                 [pc |-> IF Bypasses(paymentType, strict) THEN "inserted"
                         ELSE "ready",
                  bypass |-> Bypasses(paymentType, strict),
                  at |-> now, left |-> {}]]
  /\ UNCHANGED <<now, rowVars, execVars, sess, sweep, queueVars, faults>>

\* The bypass runs the executor before the transaction ends.
ExecuteBypass(a) ==
  /\ req[a].pc = "inserted"
  /\ calls' = [calls EXCEPT ![a] = @ + 1]
  /\ req' = [req EXCEPT ![a] = [@ EXCEPT !.pc = "ready"]]
  /\ UNCHANGED <<now, rowVars, executed, undone, sess, sweep, queueVars, faults>>

\* Commit: the row appears, already approved if the purchase was bypassed.
CommitRequest(a) ==
  /\ req[a].pc = "ready"
  /\ status' = [status EXCEPT ![a] =
                  IF req[a].bypass THEN "approved" ELSE "pending"]
  /\ expiresAt' = [expiresAt EXCEPT ![a] = Deadline(req[a].at)]
  /\ respondedAt' = [respondedAt EXCEPT ![a] =
                       IF req[a].bypass THEN req[a].at ELSE -1]
  /\ executed' = [executed EXCEPT ![a] = IF req[a].bypass THEN @ + 1 ELSE @]
  /\ req' = [req EXCEPT ![a] =
               [@ EXCEPT !.pc = "notify", !.left = Guardians]]
  /\ UNCHANGED <<now, lock, calls, undone, sess, sweep, queueVars, faults>>

\* afterCommit: every guardian in turn.
NotifyRequest(a) ==
  /\ req[a].pc = "notify"
  /\ \E u \in req[a].left :
       /\ Send(Notice(IF req[a].bypass THEN "bypassed" ELSE "requested", a, u))
       /\ req' = [req EXCEPT ![a] =
                    [@ EXCEPT !.left = req[a].left \ {u},
                              !.pc = IF req[a].left = {u} THEN "done"
                                     ELSE "notify"]]
  /\ UNCHANGED <<now, rowVars, execVars, sess, sweep, faults>>

\* The request throws or dies.  Before the commit its transaction is rolled
\* back; after it, the remaining guardians are never told.
FailRequest(a) ==
  /\ req[a].pc \in {"inserted", "ready", "notify"}
  /\ faults < MaxFaults
  /\ faults' = faults + 1
  /\ undone' = [undone EXCEPT ![a] =
                  IF req[a].pc = "ready" /\ req[a].bypass THEN @ + 1 ELSE @]
  /\ req' = [req EXCEPT ![a] =
               [@ EXCEPT !.pc = IF req[a].pc = "notify" THEN "done"
                                ELSE "failed",
                         !.left = {}]]
  /\ UNCHANGED <<now, rowVars, executed, calls, sess, sweep, queueVars>>

-----------------------------------------------------------------------------
(* PendingApprovals::respond and RespondToPurchaseApproval::handle         *)

\* The component loads the row (firstOrFail) and the policy looks at what was
\* loaded: nothing keeps the row pending after this step.
Authorize(s, a, d) ==
  /\ sess[s].pc = "idle"
  /\ StillPending(a)
  /\ sess' = [sess EXCEPT ![s] = [pc |-> "authorized", row |-> a,
                                  decision |-> d, at |-> 0]]
  /\ UNCHANGED <<now, rowVars, execVars, req, sweep, queueVars, faults>>

\* Mutant: the UPDATE has lost its status condition.
DecideWhateverStatus(s) ==
  /\ sess[s].pc = "authorized"
  /\ LockRow(s, sess[s].row)
  /\ sess' = [sess EXCEPT ![s] =
                [@ EXCEPT !.pc = IF sess[s].decision = "approved" THEN "updated"
                                 ELSE "ready",
                          !.at = now]]
  /\ UNCHANGED <<now, status, expiresAt, respondedAt, execVars, req, sweep,
                 queueVars, faults>>

\* The conditional UPDATE affected a row: it is locked until the commit.  An
\* approval still has to execute the purchase.
Decide(s) ==
  LET a == sess[s].row IN
  /\ sess[s].pc = "authorized"
  /\ LockRow(s, a)
  /\ StillPending(a)
  /\ sess' = [sess EXCEPT ![s] =
                [@ EXCEPT !.pc = IF sess[s].decision = "approved" THEN "updated"
                                 ELSE "ready",
                          !.at = now]]
  /\ UNCHANGED <<now, status, expiresAt, respondedAt, execVars, req, sweep,
                 queueVars, faults>>

\* Mutant: the child is notified without asking whether a row was affected.
DecideTooLateNotifies(s) ==
  /\ sess[s].pc = "authorized"
  /\ lock[sess[s].row] = NoOne
  /\ ~StillPending(sess[s].row)
  /\ sess' = [sess EXCEPT ![s] = [@ EXCEPT !.pc = "notify"]]
  /\ UNCHANGED <<now, rowVars, execVars, req, sweep, queueVars, faults>>

\* The UPDATE affected nothing: handle() returns false and changes nothing.
DecideTooLate(s) ==
  /\ sess[s].pc = "authorized"
  /\ lock[sess[s].row] = NoOne
  /\ ~StillPending(sess[s].row)
  /\ sess' = [sess EXCEPT ![s] = IdleSess]
  /\ UNCHANGED <<now, rowVars, execVars, req, sweep, queueVars, faults>>

\* The executor, inside the transaction.
Execute(s) ==
  /\ sess[s].pc = "updated"
  /\ calls' = [calls EXCEPT ![sess[s].row] = @ + 1]
  /\ sess' = [sess EXCEPT ![s] = [@ EXCEPT !.pc = "ready"]]
  /\ UNCHANGED <<now, rowVars, executed, undone, req, sweep, queueVars, faults>>

\* Mutant: the purchase is left to an afterCommit callback that does not come.
CommitDecisionUnexecuted(s) ==
  LET a == sess[s].row IN
  /\ sess[s].pc = "ready"
  /\ status' = [status EXCEPT ![a] = sess[s].decision]
  /\ respondedAt' = [respondedAt EXCEPT ![a] = sess[s].at]
  /\ lock' = [lock EXCEPT ![a] = NoOne]
  /\ sess' = [sess EXCEPT ![s] = [@ EXCEPT !.pc = "notify"]]
  /\ UNCHANGED <<now, expiresAt, execVars, req, sweep, queueVars, faults>>

CommitDecision(s) ==
  LET a == sess[s].row IN
  /\ sess[s].pc = "ready"
  /\ status' = [status EXCEPT ![a] = sess[s].decision]
  /\ respondedAt' = [respondedAt EXCEPT ![a] = sess[s].at]
  /\ executed' = [executed EXCEPT ![a] =
                    IF sess[s].decision = "approved" THEN @ + 1 ELSE @]
  /\ lock' = [lock EXCEPT ![a] = NoOne]
  /\ sess' = [sess EXCEPT ![s] = [@ EXCEPT !.pc = "notify"]]
  /\ UNCHANGED <<now, expiresAt, calls, undone, req, sweep, queueVars, faults>>

\* afterCommit: the child learns the outcome.
NotifyDecision(s) ==
  /\ sess[s].pc = "notify"
  /\ Send(Notice("resolved", sess[s].row, Child))
  /\ sess' = [sess EXCEPT ![s] = IdleSess]
  /\ UNCHANGED <<now, rowVars, execVars, req, sweep, faults>>

\* The request throws or its PHP process dies: a rollback if the transaction
\* was open, no notification if it was already committed.
FailDecision(s) ==
  LET a == sess[s].row IN
  /\ sess[s].pc # "idle"
  /\ faults < MaxFaults
  /\ faults' = faults + 1
  /\ lock' = [lock EXCEPT ![a] = IF @ = s THEN NoOne ELSE @]
  /\ undone' = [undone EXCEPT ![a] =
                  IF sess[s].pc = "ready" /\ sess[s].decision = "approved"
                  THEN @ + 1 ELSE @]
  /\ sess' = [sess EXCEPT ![s] = IdleSess]
  /\ UNCHANGED <<now, status, expiresAt, respondedAt, executed, calls, req,
                 sweep, queueVars>>

-----------------------------------------------------------------------------
(* ExpirePurchaseApprovalsJob                                              *)

\* Mutant: the comparison is the wrong way round.
OverdueReversed(a, cutoff) == status[a] = "pending" /\ expiresAt[a] > cutoff
Overdue(a, cutoff) == status[a] = "pending" /\ expiresAt[a] < cutoff

\* The page that chunkById fetches next: the first ChunkSize overdue rows
\* after the last id of the previous page.
NextPage(w) ==
  LET after == {a \in Approvals : a > sweep[w].last /\
                                  Overdue(a, sweep[w].cutoff)}
  IN {a \in after : Cardinality({b \in after : b <= a}) <= ChunkSize}

\* The schedule dispatched a sweep and a worker takes it.  now() is evaluated
\* once, when the query is built.
StartSweep(w) ==
  /\ sweep[w].pc = "idle"
  /\ sweep' = [sweep EXCEPT ![w] =
                 [IdleSweep EXCEPT !.pc = "select", !.cutoff = now,
                    !.due = {a \in Approvals : Overdue(a, now)}]]
  /\ UNCHANGED <<now, rowVars, execVars, req, sess, queueVars, faults>>

SelectPage(w) ==
  LET page == NextPage(w) IN
  /\ sweep[w].pc = "select"
  /\ IF page = {}
     THEN sweep' = [sweep EXCEPT ![w] = IdleSweep]
     ELSE \E m \in page :
            /\ \A a \in page : a <= m
            /\ sweep' = [sweep EXCEPT ![w] =
                           [@ EXCEPT !.pc = "row", !.todo = page, !.last = m,
                              !.more = (Cardinality(page) = ChunkSize)]]
  /\ UNCHANGED <<now, rowVars, execVars, req, sess, queueVars, faults>>

\* The rows of a page, in id order; a short page is the last one.
FirstOf(S, a) == a \in S /\ \A b \in S : a <= b

EndPage(w) ==
  /\ sweep[w].pc = "row" /\ sweep[w].todo = {}
  /\ sweep' = [sweep EXCEPT ![w] =
                 IF sweep[w].more THEN [@ EXCEPT !.pc = "select"]
                 ELSE IdleSweep]
  /\ UNCHANGED <<now, rowVars, execVars, req, sess, queueVars, faults>>

\* The conditional UPDATE of one selected row.
Expire(w, a) ==
  /\ sweep[w].pc = "row" /\ FirstOf(sweep[w].todo, a)
  /\ LockRow(w, a)
  /\ StillPending(a)
  /\ sweep' = [sweep EXCEPT ![w] =
                 [@ EXCEPT !.pc = "updated", !.row = a, !.at = now,
                           !.todo = sweep[w].todo \ {a}]]
  /\ UNCHANGED <<now, status, expiresAt, respondedAt, execVars, req, sess,
                 queueVars, faults>>

\* Somebody answered, or another sweep came first: nothing happens.
ExpireTooLate(w, a) ==
  /\ sweep[w].pc = "row" /\ FirstOf(sweep[w].todo, a)
  /\ lock[a] = NoOne
  /\ ~StillPending(a)
  /\ sweep' = [sweep EXCEPT ![w] = [@ EXCEPT !.todo = sweep[w].todo \ {a}]]
  /\ UNCHANGED <<now, rowVars, execVars, req, sess, queueVars, faults>>

CommitExpiry(w) ==
  LET a == sweep[w].row IN
  /\ sweep[w].pc = "updated"
  /\ status' = [status EXCEPT ![a] = "expired"]
  /\ respondedAt' = [respondedAt EXCEPT ![a] = sweep[w].at]
  /\ lock' = [lock EXCEPT ![a] = NoOne]
  /\ sweep' = [sweep EXCEPT ![w] =
                 [@ EXCEPT !.pc = "notify", !.left = Guardians]]
  /\ UNCHANGED <<now, expiresAt, execVars, req, sess, queueVars, faults>>

\* Mutant: only one guardian is told.
NotifyOneGuardian(w) ==
  /\ sweep[w].pc = "notify"
  /\ \E u \in sweep[w].left : Send(Notice("expired", sweep[w].row, u))
  /\ sweep' = [sweep EXCEPT ![w] = [@ EXCEPT !.left = {}, !.pc = "row"]]
  /\ UNCHANGED <<now, rowVars, execVars, req, sess, faults>>

\* afterCommit: every guardian in turn, then the next row of the page.
NotifyExpiry(w) ==
  /\ sweep[w].pc = "notify"
  /\ \E u \in sweep[w].left :
       /\ Send(Notice("expired", sweep[w].row, u))
       /\ sweep' = [sweep EXCEPT ![w] =
                      [@ EXCEPT !.left = sweep[w].left \ {u},
                                !.pc = IF sweep[w].left = {u} THEN "row"
                                       ELSE "notify"]]
  /\ UNCHANGED <<now, rowVars, execVars, req, sess, faults>>

\* The job throws or its worker dies: the rest of the page is left to a later
\* sweep, and so are notifications that were not queued yet, for good.
FailSweep(w) ==
  /\ sweep[w].pc # "idle"
  /\ faults < MaxFaults
  /\ faults' = faults + 1
  /\ lock' = [lock EXCEPT ![sweep[w].row] = IF @ = w THEN NoOne ELSE @]
  /\ sweep' = [sweep EXCEPT ![w] = IdleSweep]
  /\ UNCHANGED <<now, status, expiresAt, respondedAt, execVars, req, sess,
                 queueVars>>

-----------------------------------------------------------------------------
(* The queue worker and the clock.                                         *)

\* A queued notification holds the key of the row: the status it shows is
\* read when it is delivered.
Deliver(n) ==
  /\ n \in waiting
  /\ waiting' = waiting \ {n}
  /\ bells' = bells \cup {[notice |-> n, status |-> status[n.row]]}
  /\ UNCHANGED <<now, rowVars, execVars, req, sess, sweep, sent, faults>>

\* The job fails, and is not tried again.
LoseNotice(n) ==
  /\ n \in waiting
  /\ faults < MaxFaults
  /\ faults' = faults + 1
  /\ waiting' = waiting \ {n}
  /\ UNCHANGED <<now, rowVars, execVars, req, sess, sweep, sent, bells>>

Tick ==
  /\ now < MaxTime
  /\ now' = now + 1
  /\ UNCHANGED <<rowVars, execVars, req, sess, sweep, queueVars, faults>>

RequestStep(a) ==
  Insert(a) \/ ExecuteBypass(a) \/ CommitRequest(a) \/ NotifyRequest(a)

SessionStep(s) ==
  Decide(s) \/ DecideTooLate(s) \/ Execute(s) \/ CommitDecision(s)
  \/ NotifyDecision(s)

SweepStep(w) ==
  \/ StartSweep(w) \/ SelectPage(w) \/ EndPage(w)
  \/ \E a \in Approvals : Expire(w, a) \/ ExpireTooLate(w, a)
  \/ CommitExpiry(w) \/ NotifyExpiry(w)

Next ==
  \/ Tick
  \/ \E a \in Approvals : RequestStep(a) \/ FailRequest(a)
  \/ \E s \in Sessions :
       \/ \E a \in Approvals, d \in Decisions : Authorize(s, a, d)
       \/ SessionStep(s)
       \/ FailDecision(s)
  \/ \E w \in Sweeps : SweepStep(w) \/ FailSweep(w)
  \/ \E n \in Notices : Deliver(n) \/ LoseNotice(n)

Spec == Init /\ [][Next]_vars

(***************************************************************************)
(* Fairness.  Time passes; a request that has begun runs on; the schedule  *)
(* keeps dispatching sweeps and a worker keeps running them; the queue is  *)
(* worked off.  Nobody has to ask (Insert) or to answer (Authorize).       *)
(***************************************************************************)
Fairness ==
  /\ WF_vars(Tick)
  /\ \A a \in Approvals :
       WF_vars(ExecuteBypass(a) \/ CommitRequest(a) \/ NotifyRequest(a))
  /\ \A s \in Sessions : WF_vars(SessionStep(s))
  /\ \A w \in Sweeps : WF_vars(SweepStep(w))
  /\ \A n \in Notices : WF_vars(Deliver(n))

FairSpec == Spec /\ Fairness

-----------------------------------------------------------------------------
(* What must hold.                                                         *)

\* Whoever is between its UPDATE and its COMMIT owns the row, alone, and the
\* committed status underneath is still pending; a row exists exactly when the
\* request that creates it got as far as its commit.
TransactionsOwnTheirRow ==
  /\ \A s \in Sessions : sess[s].pc \in {"updated", "ready"} =>
       lock[sess[s].row] = s /\ StillPending(sess[s].row)
  /\ \A w \in Sweeps : sweep[w].pc = "updated" =>
       lock[sweep[w].row] = w /\ StillPending(sweep[w].row)
  /\ \A a \in Approvals :
       /\ status[a] = "absent" <=>
            req[a].pc \in {"idle", "inserted", "ready", "failed"}
       /\ req[a].pc = "inserted" => req[a].bypass

\* The purchase has been carried out exactly once for every row that is
\* approved and never for any other: neither a double click, nor a second
\* guardian, nor a race with the sweep, nor a rollback after execute() breaks
\* the tie between the status and the purchase (RespondToPurchaseApproval,
\* "must not run the executor twice").
ExecutedIffApproved ==
  \A a \in Approvals : executed[a] = IF status[a] = "approved" THEN 1 ELSE 0

\* What an executor with effects of its own (Epic-05) may rely on: of all the
\* calls it gets for one row, at most one is not followed by a rollback.
AtMostOneStandingCall ==
  \A a \in Approvals : calls[a] - undone[a] \in {0, 1}

\* Nothing leads out of a terminal status (ApprovalStatus::isTerminal), and the
\* time of the response is never rewritten either.
TerminalIsFinal ==
  [][\A a \in Approvals : status[a] \in Terminal =>
       status'[a] = status[a] /\ respondedAt'[a] = respondedAt[a]]_vars

\* A row expires only when its 48 hours are over (BR-015), although several
\* steps lie between the selection and the update of the sweep.
ExpiredOnlyWhenDue ==
  \A a \in Approvals : status[a] = "expired" => respondedAt[a] > expiresAt[a]

KindsFor(st) == CASE st = "approved" -> {"requested", "bypassed", "resolved"}
                  [] st = "denied"   -> {"requested", "resolved"}
                  [] st = "expired"  -> {"requested", "expired"}
                  [] st = "pending"  -> {"requested"}
                  [] OTHER           -> {}

\* AD-007: no notification describes a transition that a rollback undid, or a
\* row that is not there, and nobody is told the same thing twice.  What the bell
\* shows is what happened, however late it is delivered: an expiry notice ("No
\* purchase was made.") is about a row never executed, and a resolved or bypassed
\* one shows the final status of its row.
NoticesMatchCommits ==
  /\ \A n \in Notices : sent[n] > 0 => n.kind \in KindsFor(status[n.row])
                                       /\ sent[n] = 1
  /\ \A b \in bells :
       /\ b.notice.kind = "expired" => executed[b.notice.row] = 0
       /\ b.notice.kind # "requested" => b.status = status[b.notice.row]

\* A sweep that runs to its end leaves none of the rows behind that were
\* overdue when it began, although it flips the very rows it pages over and
\* others flip them too (chunkById, not chunk).
SweepMissesNothing ==
  [][\A w \in Sweeps :
       sweep[w].pc # "idle" /\ sweep'[w].pc = "idle" /\ faults' = faults
         => \A a \in sweep[w].due : status'[a] # "pending"]_vars

\* A request is not open forever (NFR-009): whatever fails, once its time is
\* over it is answered or swept.
OpenRequestsEnd ==
  \A a \in Approvals :
    (status[a] = "pending" /\ expiresAt[a] < now) ~> (status[a] \in Terminal)

\* "Auto-deny with notification": unless something fails, every guardian gets
\* to know of the expiry, and the child of the answer.
OutcomesAreDelivered ==
  \A a \in Approvals :
    /\ \A u \in Guardians :
         (status[a] = "expired") ~>
           (faults > 0 \/ \E b \in bells : b.notice = Notice("expired", a, u))
    /\ (status[a] \in Decisions /\ ~req[a].bypass) ~>
         (faults > 0 \/ \E b \in bells : b.notice = Notice("resolved", a, Child))

\* "Requests expire after 48 hours": no purchase is approved once its time is
\* over.  The code compares expires_at with the clock in the sweep only.
NoLateApproval ==
  \A a \in Approvals :
    status[a] = "approved" => respondedAt[a] <= expiresAt[a]

\* Transactions, rollbacks and races seen from outside: the committed rows do
\* what PurchaseOutcome says.
Outcome == INSTANCE PurchaseOutcome WITH outcome <- status, charges <- executed

ImplementsOutcome == Outcome!Spec
=============================================================================
