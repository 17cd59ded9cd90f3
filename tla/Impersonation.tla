---------------------------- MODULE Impersonation ----------------------------
(***************************************************************************)
(* A Super Admin's browser that impersonates members (FR-012, BR-016):     *)
(* StartImpersonation, StopImpersonation, the middleware that ends         *)
(* sessions (EnsureAccountRemainsActive, EnforceImpersonationTimeout),     *)
(* logging out, and the job that closes abandoned logs.                    *)
(*                                                                         *)
(* Sessions are rows of the sessions table.  A request loads the row its   *)
(* cookie names, works on a copy and writes it back at its end; logging in *)
(* or out deletes the row and goes on under a new id, which the response   *)
(* tells the browser.  Requests of one browser overlap.                    *)
(***************************************************************************)
EXTENDS Integers, FiniteSets

CONSTANTS
  Admin,      \* the Super Admin at the browser
  Members,    \* the accounts that may be impersonated
  Requests,   \* requests of the browser that may be in flight together
  NoOne,
  Timeout,    \* the 60 minutes
  MaxTime,    \* bound: the clock stops there
  MaxSess,    \* bound: session ids
  MaxLogs,    \* bound: impersonations
  MaxFaults   \* bound: requests and jobs that die

ASSUME ImpersonationAssumption ==
  /\ Admin \notin Members /\ NoOne \notin Members \cup {Admin}
  /\ IsFiniteSet(Requests)
  /\ Timeout \in Nat /\ MaxTime \in Nat /\ MaxSess \in Nat /\ MaxLogs \in Nat
  /\ MaxFaults \in Nat

Accounts == Members \cup {Admin}
SessIds  == 1..MaxSess
LogIds   == 1..MaxLogs
None     == 0    \* no cookie, no log

VARIABLES
  now,
  active,    \* accounts whose status lets them log in
  super,     \* members with the role SuperAdmin
  logs,      \* impersonation_logs so far: 1..logs
  log,
  used,      \* session ids handed out: 1..used
  stored,    \* those that have a row
  sess,      \* what is in the rows
  cookie,
  req,
  todo,      \* the logs the sweep has selected and not yet closed
  faults

sessVars == <<used, stored, sess, cookie>>
logVars  == <<logs, log>>
vars == <<now, active, super, logVars, sessVars, req, todo, faults>>

Payload == [user : Accounts \cup {NoOne}, imp : Accounts \cup {NoOne},
            log : 0..MaxLogs, since : Nat]
LogRecord == [admin : Accounts \cup {NoOne}, target : Accounts \cup {NoOne},
              started : Nat, open : BOOLEAN, ended : Nat, duration : Nat]
Kinds == {"page", "start", "stop", "logout"}
RequestRecord == [pc : {"idle", "start", "begin", "stop", "close", "switch",
                        "finish"},
                  id : 0..MaxSess, pay : Payload,
                  target : Accounts, out : BOOLEAN, seen : BOOLEAN, at : Nat]

Guest == [user |-> NoOne, imp |-> NoOne, log |-> None, since |-> 0]
NoLog == [admin |-> NoOne, target |-> NoOne, started |-> 0, open |-> FALSE,
          ended |-> 0, duration |-> 0]
Idle  == [pc |-> "idle", id |-> None, pay |-> Guest,
          target |-> Admin, out |-> FALSE, seen |-> FALSE, at |-> 0]

TypeOK ==
  /\ now \in 0..MaxTime
  /\ active \in SUBSET Accounts /\ super \in SUBSET Members
  /\ logs \in 0..MaxLogs /\ log \in [LogIds -> LogRecord]
  /\ used \in 0..MaxSess /\ stored \in SUBSET SessIds
  /\ sess \in [SessIds -> Payload] /\ cookie \in 0..MaxSess
  /\ req \in [Requests -> RequestRecord]
  /\ todo \in SUBSET LogIds
  /\ faults \in 0..MaxFaults

Init ==
  /\ now = 0
  /\ active = Accounts /\ super = {}
  /\ logs = 0 /\ log = [l \in LogIds |-> NoLog]
  /\ used = 0 /\ stored = {} /\ sess = [i \in SessIds |-> Guest] /\ cookie = None
  /\ req = [q \in Requests |-> Idle]
  /\ todo = {}
  /\ faults = 0

-----------------------------------------------------------------------------
(* The frame of a request.                                                 *)

\* A request takes at most one new session id.
RoomForAnId == used + Cardinality({q \in Requests : req[q].pc # "idle"}) < MaxSess

\* Fortify's login of the Super Admin, on a browser without a session.
Login ==
  /\ cookie \notin stored
  /\ Admin \in active
  /\ RoomForAnId
  /\ used' = used + 1 /\ stored' = stored \cup {used + 1}
  /\ sess' = [sess EXCEPT ![used + 1] = [Guest EXCEPT !.user = Admin]]
  /\ cookie' = used + 1
  /\ UNCHANGED <<now, active, super, logVars, req, todo, faults>>

GoTo(q, pc) == req' = [req EXCEPT ![q].pc = pc]

\* What is left to do is to save what the request has made of its session.
Leave(q, id, pay) ==
  req' = [req EXCEPT ![q] = [Idle EXCEPT !.pc = "finish", !.id = id, !.pay = pay]]

\* What the request has made of its session is given a new id, the old row is
\* deleted (session()->migrate(true), by login, logout and invalidate).
Migrate(q, id, pay) ==
  /\ stored' = stored \ {id}
  /\ Leave(q, None, pay)

\* The row a request may write its session to: the one it has loaded, if it is
\* still there (the handler UPDATEs), a new one after a migration.
\* Mutant: the handler inserts a row that is gone.
Upserts(q) == req[q].id # None
Updates(q) == req[q].id \in stored

\* End of the request: the session is saved, the cookie is sent.
Finish(q) ==
  /\ req[q].pc = "finish"
  /\ IF req[q].id # None
     THEN /\ cookie' = req[q].id
          /\ stored' = IF Updates(q) THEN stored \cup {req[q].id} ELSE stored
          /\ sess' = IF Updates(q) THEN [sess EXCEPT ![req[q].id] = req[q].pay] ELSE sess
          /\ used' = used
     ELSE IF req[q].pay = Guest
     THEN cookie' = None /\ UNCHANGED <<used, stored, sess>>
     ELSE /\ used' = used + 1 /\ cookie' = used + 1
          /\ stored' = stored \cup {used + 1}
          /\ sess' = [sess EXCEPT ![used + 1] = req[q].pay]
  /\ req' = [req EXCEPT ![q] = Idle]
  /\ UNCHANGED <<now, active, super, logVars, todo, faults>>

-----------------------------------------------------------------------------
(* The session is loaded and the middleware looks at it, in one step:      *)
(* nothing the request does comes in between.                              *)

Loaded == sess[cookie]

Arrive(q, kind, target) ==
  /\ req[q].pc = "idle"
  /\ cookie \in stored /\ RoomForAnId
  /\ kind = "start" <=> target \in Members    \* the button is next to members

Enter(q, pc, target, out) ==
  req' = [req EXCEPT ![q] = [Idle EXCEPT !.pc = pc, !.id = cookie, !.pay = Loaded,
                               !.target = target, !.out = out]]

\* EnsureAccountRemainsActive lets nobody in whose account is not active.
Refused == Loaded.user \notin active

\* Timeout minutes have gone by.
Overdue(since) == since + Timeout < now

\* EnforceImpersonationTimeout: the time is over, or the target has become a
\* Super Admin.
MustStop == Loaded.imp # NoOne /\ (Overdue(Loaded.since) \/ Loaded.user \in super)

\* terminateSession, or Fortify's logout.  The Logout event comes by
\* StopImpersonationOnLogout, which stops an impersonation, before the session
\* is invalidated.
Logout(q) ==
  IF Loaded.imp = NoOne THEN Migrate(q, cookie, Guest)
  ELSE Enter(q, "stop", Admin, TRUE) /\ UNCHANGED stored

Terminate(q, kind, target) ==
  /\ Arrive(q, kind, target) /\ Refused
  /\ Logout(q)
  /\ UNCHANGED <<now, active, super, logVars, used, sess, cookie, todo, faults>>

ForceStop(q, kind, target) ==
  /\ Arrive(q, kind, target) /\ ~Refused /\ MustStop
  /\ Enter(q, "stop", Admin, FALSE)
  /\ UNCHANGED <<now, active, super, logVars, sessVars, todo, faults>>

\* The request gets through: to a page, to StartImpersonation, to
\* StopImpersonation (a page, when nothing is to be stopped), to the logout.
Serve(q, kind, target) ==
  /\ Arrive(q, kind, target) /\ ~Refused /\ ~MustStop
  /\ \/ /\ kind = "page" \/ (kind = "stop" /\ Loaded.imp = NoOne)
        /\ Leave(q, cookie, Loaded) /\ UNCHANGED stored
     \/ /\ kind = "start"
        /\ Enter(q, "start", target, FALSE) /\ UNCHANGED stored
     \/ /\ kind = "stop" /\ Loaded.imp # NoOne
        /\ Enter(q, "stop", Admin, FALSE) /\ UNCHANGED stored
     \/ kind = "logout" /\ Logout(q)
  /\ UNCHANGED <<now, active, super, logVars, used, sess, cookie, todo, faults>>

-----------------------------------------------------------------------------
(* StartImpersonation.                                                     *)

\* UserPolicy::impersonate, behind the route's role.
MayImpersonate(q) ==
  /\ req[q].pay.user \in super \cup {Admin}
  /\ req[q].target \in active \ (super \cup {Admin})
  /\ req[q].pay.imp = NoOne

\* The log is inserted, the keys are put into the session.
StartLog(q) ==
  /\ req[q].pc = "start" /\ MayImpersonate(q) /\ logs < MaxLogs
  /\ logs' = logs + 1
  /\ log' = [log EXCEPT ![logs + 1] = [NoLog EXCEPT !.admin = req[q].pay.user,
                                         !.target = req[q].target, !.started = now,
                                         !.open = TRUE]]
  /\ req' = [req EXCEPT ![q] = [req[q] EXCEPT !.pc = "begin",
                !.pay = [user |-> req[q].pay.user, imp |-> req[q].pay.user,
                         log |-> logs + 1, since |-> now]]]
  /\ UNCHANGED <<now, active, super, sessVars, todo, faults>>

Refuse(q) ==
  /\ req[q].pc = "start" /\ ~MayImpersonate(q)
  /\ Leave(q, req[q].id, req[q].pay)
  /\ UNCHANGED <<now, active, super, logVars, sessVars, todo, faults>>

\* Auth::login of the target.
StartLogin(q) ==
  /\ req[q].pc = "begin"
  /\ Migrate(q, req[q].id, [req[q].pay EXCEPT !.user = req[q].target])
  /\ UNCHANGED <<now, active, super, logVars, used, sess, cookie, todo, faults>>

-----------------------------------------------------------------------------
(* StopImpersonation, called by the controller, the timeout, a logout.     *)

\* closeLog loads the row.
StopRead(q) ==
  /\ req[q].pc = "stop"
  /\ req' = [req EXCEPT ![q] = [req[q] EXCEPT !.pc = "close", !.at = now,
                                  !.seen = log[req[q].pay.log].open]]
  /\ UNCHANGED <<now, active, super, logVars, sessVars, todo, faults>>

\* The seconds recorded: never more than the timeout.
\* Mutant: not clamped.
RawSeconds(since, at) == at - since
Seconds(since, at)    == IF at - since < Timeout THEN at - since ELSE Timeout

\* closeLog writes the row, unless it was loaded as closed.
StopWrite(q) ==
  /\ req[q].pc = "close"
  /\ log' = IF req[q].seen
            THEN [log EXCEPT ![req[q].pay.log] =
                    [log[req[q].pay.log] EXCEPT !.open = FALSE, !.ended = req[q].at,
                       !.duration = Seconds(req[q].pay.since, req[q].at)]]
            ELSE log
  /\ GoTo(q, "switch")
  /\ UNCHANGED <<now, active, super, logs, sessVars, todo, faults>>

RowMatches(q) ==
  /\ log[req[q].pay.log].admin = req[q].pay.imp
  /\ log[req[q].pay.log].target = req[q].pay.user

\* What a stop leaves in the session when the admin is back, and when not.
\* Mutants: the keys stay; the keys go and the target stays logged in.
RestoredWithKeys(pay) == [pay EXCEPT !.user = pay.imp]
Unflagged(pay)        == [Guest EXCEPT !.user = pay.user]
Restored(pay)         == [Guest EXCEPT !.user = pay.imp]
LoggedOut(pay)        == Guest

\* The admin is logged in again, or nobody is.  A logout goes on to invalidate
\* the session in either case.
StopSwitch(q) ==
  /\ req[q].pc = "switch"
  /\ Migrate(q, req[q].id,
             IF req[q].out THEN Guest
             ELSE IF RowMatches(q) /\ req[q].pay.imp \in active
             THEN Restored(req[q].pay)
             ELSE LoggedOut(req[q].pay))
  /\ UNCHANGED <<now, active, super, logVars, used, sess, cookie, todo, faults>>

-----------------------------------------------------------------------------
(* CloseStaleImpersonationLogsJob.                                         *)

\* Mutant: the job leaves a log alone until two timeouts have gone by.
StaleLate(since)  == since + Timeout + Timeout < now
Stale(since)      == since + Timeout < now

SelectStale ==
  /\ todo = {}
  /\ todo' = {l \in 1..logs : log[l].open /\ Stale(log[l].started)}
  /\ todo' # {}
  /\ UNCHANGED <<now, active, super, logVars, sessVars, req, faults>>

\* Each is written as it was selected, whatever has become of it.
CloseStale(l) ==
  /\ l \in todo
  /\ todo' = todo \ {l}
  /\ log' = [log EXCEPT ![l] = [log[l] EXCEPT !.open = FALSE,
                                  !.ended = log[l].started + Timeout,
                                  !.duration = Timeout]]
  /\ UNCHANGED <<now, active, super, logs, sessVars, req, faults>>

-----------------------------------------------------------------------------
(* Other admins, the clock, crashes.                                       *)

Deactivate(u) ==
  /\ u \in active /\ active' = active \ {u}
  /\ UNCHANGED <<now, super, logVars, sessVars, req, todo, faults>>

Reactivate(u) ==
  /\ u \notin active /\ active' = active \cup {u}
  /\ UNCHANGED <<now, super, logVars, sessVars, req, todo, faults>>

Promote(m) ==
  /\ m \notin super /\ super' = super \cup {m}
  /\ UNCHANGED <<now, active, logVars, sessVars, req, todo, faults>>

Tick ==
  /\ now < MaxTime /\ now' = now + 1
  /\ UNCHANGED <<active, super, logVars, sessVars, req, todo, faults>>

Die(q) ==
  /\ req[q].pc # "idle" /\ faults < MaxFaults
  /\ faults' = faults + 1
  /\ req' = [req EXCEPT ![q] = Idle]
  /\ UNCHANGED <<now, active, super, logVars, sessVars, todo>>

KillSweep ==
  /\ todo # {} /\ faults < MaxFaults
  /\ faults' = faults + 1 /\ todo' = {}
  /\ UNCHANGED <<now, active, super, logVars, sessVars, req>>

RequestStep(q) ==
  \/ \E kind \in Kinds, target \in Accounts :
       Terminate(q, kind, target) \/ ForceStop(q, kind, target) \/ Serve(q, kind, target)
  \/ StartLog(q) \/ Refuse(q) \/ StartLogin(q)
  \/ StopRead(q) \/ StopWrite(q) \/ StopSwitch(q)
  \/ Finish(q) \/ Die(q)
SweepStep == SelectStale \/ \E l \in LogIds : CloseStale(l)
AccountStep ==
  \/ \E u \in Accounts : Deactivate(u) \/ Reactivate(u)
  \/ \E m \in Members : Promote(m)

Next == Login \/ (\E q \in Requests : RequestStep(q)) \/ SweepStep \/ KillSweep
        \/ AccountStep \/ Tick

Spec == Init /\ [][Next]_vars

\* The scheduler runs the job every 15 minutes and a worker gets to it.
FairSpec == Spec /\ WF_vars(SweepStep) /\ WF_vars(Tick)

-----------------------------------------------------------------------------
(* Properties.                                                             *)

Sessions == {sess[i] : i \in stored} \cup {req[q].pay : q \in Requests}

\* A session that acts as a member says on whose behalf: without the keys it is
\* the Super Admin's own, and only the Super Admin is ever behind one.  The keys
\* are put before Auth::login and taken away after it, in several requests at a
\* time, some of which end with nobody logged in (StopImpersonation.php:59-84).
NobodyActsUnflagged ==
  \A s \in Sessions : IF s.imp = NoOne THEN s.user \in {NoOne, Admin}
                      ELSE s.imp = Admin

\* The rows of the sessions table name the log they belong to: its admin is the
\* impersonator, its target is who they act as.  closeLog and rowMatches
\* (StopImpersonation.php:45-53) count on it.
SessionsMatchTheirLog ==
  \A i \in stored : sess[i].imp # NoOne =>
    /\ sess[i].log \in 1..logs
    /\ log[sess[i].log].admin = sess[i].imp
    /\ log[sess[i].log].target = sess[i].user

\* A session in which an impersonation goes on, within its time, has an open
\* log, or a request is about to end it: neither the sweep nor an overlapping
\* stop, nor a page that writes the session back, leaves an impersonation off
\* the record.  (A stop that dies half-way does.)
Ending(i) == \E q \in Requests : req[q].pc = "switch" /\ req[q].id = i
LiveSessionsAreOnRecord ==
  \A i \in stored :
    sess[i].imp # NoOne /\ ~Overdue(sess[i].since) /\ ~Ending(i) /\ faults = 0
      => log[sess[i].log].open

\* Stops and the sweep agree on what is recorded: the seconds between start and
\* end, at most the timeout (StopImpersonation.php:108-118), also when both
\* write the same row.
DurationsAgree ==
  \A l \in 1..logs : ~log[l].open =>
    /\ log[l].ended >= log[l].started
    /\ log[l].duration = IF log[l].ended - log[l].started < Timeout
                         THEN log[l].ended - log[l].started ELSE Timeout

\* No log stays open for ever once its time is over, also that of a tab that
\* sends nothing more, or of a start that died (CloseStaleImpersonationLogsJob).
AbandonedLogsEnd ==
  \A l \in LogIds : log[l].open /\ Overdue(log[l].started) ~> ~log[l].open
=============================================================================
