------------------------- MODULE SuperAdminProofs --------------------------
(***************************************************************************)
(* What the two powers of a Super Admin promise for any number of accounts *)
(* and overlapping requests: acting as another member (Impersonation) and  *)
(* ending an account (AccountErasure).                                     *)
(*                                                                         *)
(* The inductive invariant of the first says of every session, of the      *)
(* stored ones and of the copies that requests work on, that its keys fit  *)
(* each other and the log they name; that the log of a request between     *)
(* StartLog and Auth::login already names the target; and that the ids     *)
(* handed out suffice for the requests in flight.  That of the second adds *)
(* to the types that a request past the policy has a target, and that an   *)
(* open transaction erases what AnonymizeUser selected when it began.      *)
(***************************************************************************)
EXTENDS Impersonation, AccountErasure, FiniteSetTheorems, TLAPS

Busy == {q \in Requests : req[q].pc # "idle"}

RoomLeft == used + Cardinality(Busy) <= MaxSess

\* A session's keys: the flag goes with the member it acts as.
Flagged(s) == IF s.imp = NoOne THEN s.user \in {NoOne, Admin} ELSE s.imp = Admin

\* The log a session names is that of an impersonation of u.
OnLog(s, u) == s.imp # NoOne =>
  /\ s.log \in 1..logs
  /\ log[s.log].admin = s.imp
  /\ log[s.log].target = u
  /\ log[s.log].started = s.since

SessFits(s) == Flagged(s) /\ OnLog(s, s.user)

\* The same of a request: before Auth::login it is still the admin's.
ReqFits(x) ==
  /\ Flagged(x.pay)
  /\ OnLog(x.pay, IF x.pc = "begin" THEN x.target ELSE x.pay.user)
  /\ x.pc \in {"begin", "stop", "close", "switch"} => x.pay.imp # NoOne
  /\ x.pc = "close" => x.pay.since <= x.at

Fits == /\ \A i \in SessIds : SessFits(sess[i])
        /\ \A q \in Requests : ReqFits(req[q])

\* Logs have started, and the job has selected logs that are there.
LogsFit == /\ \A l \in 1..logs : log[l].started <= now
           /\ todo \subseteq 1..logs

IInv == TypeOK /\ RoomLeft /\ Fits /\ LogsFit /\ DurationsAgree

-----------------------------------------------------------------------------
(* Helpers                                                                 *)

\* Logs are only added, and neither their parties nor their start changes.
LogsKept ==
  /\ logs <= logs'
  /\ \A l \in 1..logs : /\ log'[l].admin = log[l].admin
                        /\ log'[l].target = log[l].target
                        /\ log'[l].started = log[l].started

\* A session that fits its log goes on fitting it.
LEMMA KeptOnLog ==
  ASSUME TypeOK, TypeOK', LogsKept, NEW s, NEW u, OnLog(s, u)
  PROVE  OnLog(s, u)'
  BY DEF LogsKept, OnLog, TypeOK

LEMMA KeptSess ==
  ASSUME TypeOK, TypeOK', LogsKept, NEW s, SessFits(s)
  PROVE  SessFits(s)'
  BY KeptOnLog DEF SessFits, Flagged

LEMMA KeptReq ==
  ASSUME TypeOK, TypeOK', LogsKept, NEW x, ReqFits(x)
  PROVE  ReqFits(x)'
  BY KeptOnLog DEF ReqFits, Flagged

\* A step of one request that leaves the sessions alone.
LEMMA OneRequest ==
  ASSUME TypeOK, TypeOK', LogsKept, Fits, NEW q \in Requests, NEW x, ReqFits(x)',
         req' = [req EXCEPT ![q] = x], UNCHANGED sess
  PROVE  Fits'
<1>1. \A i \in SessIds : SessFits(sess[i])'
  BY KeptSess DEF Fits
<1>2. ASSUME NEW s \in Requests
      PROVE  ReqFits(req[s])'
  <2>1. CASE s = q
    BY <2>1 DEF TypeOK, ReqFits, OnLog, Flagged
  <2>2. CASE s # q
    <3>1. ReqFits(req[s])
      BY DEF Fits
    <3>2. req'[s] = req[s]
      BY <2>2 DEF TypeOK
    <3> QED BY <3>1, <3>2, KeptReq DEF ReqFits, OnLog, Flagged
  <2> QED BY <2>1, <2>2
<1> QED BY <1>1, <1>2 DEF Fits

\* A request that begins takes up room for one id, one that ends gives it back.
LEMMA BusyFinite ==
  ASSUME ImpersonationAssumption, NEW q \in Requests
  PROVE  /\ Cardinality(Busy) \in Nat
         /\ q \in Busy => Cardinality(Busy) >= 1
         /\ q \in Busy => Cardinality(Busy \ {q}) = Cardinality(Busy) - 1
         /\ q \notin Busy => Cardinality(Busy \cup {q}) = Cardinality(Busy) + 1
<1>1. IsFiniteSet(Busy)
  BY FS_Subset DEF ImpersonationAssumption, Busy
<1>2. Cardinality(Busy) \in Nat
  BY <1>1, FS_CardinalityType
<1>3. q \in Busy => Cardinality(Busy \ {q}) = Cardinality(Busy) - 1
  BY <1>1, FS_RemoveElement
<1>4. q \notin Busy => Cardinality(Busy \cup {q}) = Cardinality(Busy) + 1
  BY <1>1, FS_AddElement
<1>5. q \in Busy => Cardinality(Busy) >= 1
  <2>1. Cardinality(Busy) = 0 => Busy = {}
    BY <1>1, FS_EmptySet
  <2> QED BY <1>2, <2>1
<1> QED BY <1>2, <1>3, <1>4, <1>5

\* The record of a request that is over.
LEMMA IdleFits == ImpersonationAssumption => Idle \in RequestRecord /\ ReqFits(Idle)
  BY DEF ImpersonationAssumption, Idle, Guest, RequestRecord, Payload, Accounts,
         ReqFits, OnLog, Flagged, None

\* What a request in flight has loaded is typed.
LEMMA LoadedTypes ==
  ASSUME TypeOK, NEW q \in Requests
  PROVE  /\ req[q] \in RequestRecord
         /\ req[q].pay \in Payload /\ req[q].id \in 0..MaxSess
         /\ req[q].target \in Accounts /\ req[q].at \in Nat
         /\ cookie \in stored => cookie \in SessIds /\ sess[cookie] \in Payload
  BY DEF TypeOK, RequestRecord

\* Guests and what is put together of a payload's parts are payloads.
LEMMA PayloadTypes ==
  ASSUME ImpersonationAssumption, NEW s \in Payload
  PROVE  /\ Guest \in Payload
         /\ LoggedOut(s) \in Payload
         /\ Restored(s) \in Payload
         /\ \A u \in Accounts : [s EXCEPT !.user = u] \in Payload
         /\ \A u \in Accounts : [Guest EXCEPT !.user = u] \in Payload
  BY DEF ImpersonationAssumption, Payload, Guest, Restored, LoggedOut, None

\* A request about to save a session is a request.
LEMMA LeaveType ==
  ASSUME ImpersonationAssumption, NEW id \in 0..MaxSess, NEW s \in Payload
  PROVE  [Idle EXCEPT !.pc = "finish", !.id = id, !.pay = s] \in RequestRecord
  BY IdleFits DEF RequestRecord

LEMMA EnterType ==
  ASSUME ImpersonationAssumption, NEW id \in 0..MaxSess, NEW s \in Payload,
         NEW u \in Accounts, NEW out \in BOOLEAN, NEW pc \in {"start", "stop"}
  PROVE  [Idle EXCEPT !.pc = pc, !.id = id, !.pay = s, !.target = u, !.out = out]
           \in RequestRecord
  BY IdleFits DEF RequestRecord

\* A request that saves a session fits, if the session does.
LEMMA LeaveFits ==
  ASSUME ImpersonationAssumption, NEW id, NEW s \in Payload, SessFits(s)
  PROVE  ReqFits([Idle EXCEPT !.pc = "finish", !.id = id, !.pay = s])
  BY DEF ImpersonationAssumption, SessFits, ReqFits, Idle

LEMMA EnterFits ==
  ASSUME ImpersonationAssumption, NEW id, NEW s \in Payload, NEW u, NEW out,
         NEW pc \in {"start", "stop"}, SessFits(s), pc = "stop" => s.imp # NoOne
  PROVE  ReqFits([Idle EXCEPT !.pc = pc, !.id = id, !.pay = s, !.target = u,
                    !.out = out])
  BY DEF ImpersonationAssumption, SessFits, ReqFits, Idle

LEMMA GuestFits == ImpersonationAssumption => SessFits(Guest)
  BY DEF ImpersonationAssumption, SessFits, Flagged, OnLog, Guest

\* A step of one request that neither begins nor ends it keeps the room.
LEMMA RoomInside ==
  ASSUME TypeOK, RoomLeft, NEW q \in Requests, req[q].pc # "idle",
         NEW x, x.pc # "idle", req' = [req EXCEPT ![q] = x], UNCHANGED used
  PROVE  RoomLeft'
<1>1. Busy' = Busy
  BY DEF TypeOK, Busy
<1> QED BY <1>1 DEF RoomLeft

LEMMA RoomBegins ==
  ASSUME ImpersonationAssumption, TypeOK, RoomForAnId, NEW q \in Requests,
         req[q].pc = "idle", NEW x, req' = [req EXCEPT ![q] = x], x.pc # "idle",
         UNCHANGED used
  PROVE  RoomLeft'
<1>1. Busy' = Busy \cup {q} /\ q \notin Busy
  BY DEF TypeOK, Busy
<1>2. used + Cardinality(Busy) < MaxSess
  BY DEF RoomForAnId, Busy
<1> QED BY <1>1, <1>2, BusyFinite DEF RoomLeft, TypeOK, ImpersonationAssumption

LEMMA RoomEnds ==
  ASSUME ImpersonationAssumption, TypeOK, RoomLeft, NEW q \in Requests,
         req[q].pc # "idle", req' = [req EXCEPT ![q] = Idle],
         used' \in {used, used + 1}
  PROVE  RoomLeft' /\ used + 1 \in SessIds
<1>1. Busy' = Busy \ {q} /\ q \in Busy
  BY DEF TypeOK, Busy, Idle
<1>2. /\ Cardinality(Busy) \in Nat /\ Cardinality(Busy) >= 1
      /\ Cardinality(Busy') = Cardinality(Busy) - 1
  BY <1>1, BusyFinite
<1> QED BY <1>2 DEF RoomLeft, TypeOK, ImpersonationAssumption, SessIds

\* A step that leaves the logs alone keeps them.
LEMMA SameLogs ==
  ASSUME TypeOK, UNCHANGED logVars
  PROVE  LogsKept
  BY DEF TypeOK, LogsKept, logVars

LEMMA SameRecord ==
  ASSUME ImpersonationAssumption, IInv, UNCHANGED logVars, now' \in Nat, now' >= now,
         todo' \subseteq todo
  PROVE  LogsFit' /\ DurationsAgree'
<1>1. \A l \in 1..logs : log[l].started \in Nat /\ log[l].started <= now'
  BY DEF ImpersonationAssumption, IInv, TypeOK, LogRecord, LogIds, LogsFit
<1>2. LogsFit'
  BY <1>1 DEF IInv, LogsFit, logVars
<1>3. DurationsAgree'
  BY DEF IInv, DurationsAgree, logVars
<1> QED BY <1>2, <1>3

-----------------------------------------------------------------------------
(* The invariant holds at the start ...                                    *)

LEMMA InitInv == ImpersonationAssumption /\ Init => IInv
<1> SUFFICES ASSUME ImpersonationAssumption, Init
             PROVE  IInv
  OBVIOUS
<1>1. Guest \in Payload /\ NoLog \in LogRecord
  BY DEF ImpersonationAssumption, Guest, Payload, NoLog, LogRecord, Accounts, None
<1>2. TypeOK
  BY <1>1, IdleFits DEF ImpersonationAssumption, Init, TypeOK, None, Accounts
<1>3. RoomLeft
  <2>1. Busy = {}
    BY DEF Init, Busy, Idle
  <2> QED BY <2>1, FS_EmptySet DEF Init, RoomLeft, ImpersonationAssumption
<1>4. Fits
  BY IdleFits, GuestFits DEF Init, Fits
<1>5. LogsFit /\ DurationsAgree
  BY DEF Init, LogsFit, DurationsAgree
<1> QED BY <1>2, <1>3, <1>4, <1>5 DEF IInv

-----------------------------------------------------------------------------
(* ... and is kept by every step.                                          *)

\* The steps that change one request, and at most delete a session.
LEMMA RequestMoves ==
  ASSUME ImpersonationAssumption, IInv, NEW q \in Requests,
         NEW x \in RequestRecord, ReqFits(x), x.pc # "idle",
         req' = [req EXCEPT ![q] = x],
         req[q].pc # "idle" \/ RoomForAnId,
         UNCHANGED <<now, active, super, logVars, used, sess, cookie, todo, faults>>,
         stored' \in SUBSET SessIds
  PROVE  IInv'
<1>1. TypeOK /\ RoomLeft /\ Fits /\ now \in Nat
  BY DEF ImpersonationAssumption, IInv, TypeOK
<1>2. TypeOK'
  BY <1>1 DEF TypeOK, logVars
<1>3. RoomLeft'
  BY <1>1, RoomInside, RoomBegins
<1>4. Fits'
  <2>1. LogsKept
    BY <1>1, SameLogs
  <2>2. ReqFits(x)'
    BY <1>1, <1>2, <2>1, KeptReq
  <2> QED BY <1>1, <1>2, <2>1, <2>2, OneRequest
<1>5. LogsFit' /\ DurationsAgree'
  BY <1>1, SameRecord
<1> QED BY <1>2, <1>3, <1>4, <1>5 DEF IInv

\* An arriving request has loaded a session that fits.
LEMMA ArriveLoads ==
  ASSUME ImpersonationAssumption, IInv, NEW q, NEW kind, NEW target,
         Arrive(q, kind, target)
  PROVE  cookie \in 0..MaxSess /\ Loaded \in Payload /\ SessFits(Loaded)
  BY DEF IInv, TypeOK, Arrive, Loaded, Fits

\* Logging out: the session goes, or a stop begins.
LEMMA LogoutInv ==
  ASSUME ImpersonationAssumption, IInv, NEW q \in Requests, NEW kind, NEW target,
         Arrive(q, kind, target), Logout(q),
         UNCHANGED <<now, active, super, logVars, used, sess, cookie, todo, faults>>
  PROVE  IInv'
<1>1. cookie \in 0..MaxSess /\ Loaded \in Payload /\ SessFits(Loaded)
  BY ArriveLoads
<1>2. req[q].pc = "idle" /\ RoomForAnId /\ stored \in SUBSET SessIds
      /\ None \in 0..MaxSess /\ Guest \in Payload /\ Admin \in Accounts
  BY <1>1, PayloadTypes
  DEF ImpersonationAssumption, IInv, TypeOK, Arrive, None, Accounts
<1>3. CASE Loaded.imp = NoOne
  <2> DEFINE x == [Idle EXCEPT !.pc = "finish", !.id = None, !.pay = Guest]
  <2>1. x \in RequestRecord /\ ReqFits(x)
    BY <1>2, LeaveType, LeaveFits, GuestFits
  <2>2. x.pc # "idle" /\ req' = [req EXCEPT ![q] = x] /\ stored' \in SUBSET SessIds
    BY <1>2, <1>3 DEF Logout, Migrate, Leave, Idle
  <2> HIDE DEF x
  <2> QED BY <1>2, <2>1, <2>2, RequestMoves
<1>4. CASE Loaded.imp # NoOne
  <2> DEFINE x == [Idle EXCEPT !.pc = "stop", !.id = cookie, !.pay = Loaded,
                     !.target = Admin, !.out = TRUE]
  <2>1. x \in RequestRecord /\ ReqFits(x)
    BY <1>1, <1>2, <1>4, EnterType, EnterFits
  <2>2. x.pc # "idle" /\ req' = [req EXCEPT ![q] = x] /\ stored' \in SUBSET SessIds
    BY <1>2, <1>4 DEF Logout, Enter, Idle
  <2> HIDE DEF x
  <2> QED BY <1>2, <2>1, <2>2, RequestMoves
<1> QED BY <1>3, <1>4

LEMMA TerminateInv ==
  ASSUME ImpersonationAssumption, IInv, NEW q \in Requests, NEW kind, NEW target,
         Terminate(q, kind, target)
  PROVE  IInv'
  BY LogoutInv DEF Terminate

\* A request that goes on to its handler, or to a stop.
LEMMA EnterInv ==
  ASSUME ImpersonationAssumption, IInv, NEW q \in Requests, NEW kind, NEW target,
         Arrive(q, kind, target), NEW pc \in {"start", "stop"}, NEW u \in Accounts,
         pc = "stop" => Loaded.imp # NoOne, Enter(q, pc, u, FALSE),
         UNCHANGED <<now, active, super, logVars, used, stored, sess, cookie, todo, faults>>
  PROVE  IInv'
<1> DEFINE x == [Idle EXCEPT !.pc = pc, !.id = cookie, !.pay = Loaded,
                   !.target = u, !.out = FALSE]
<1>1. cookie \in 0..MaxSess /\ Loaded \in Payload /\ SessFits(Loaded)
  BY ArriveLoads
<1>2. x \in RequestRecord /\ ReqFits(x)
  BY <1>1, EnterType, EnterFits
<1>3. x.pc # "idle" /\ req' = [req EXCEPT ![q] = x] /\ RoomForAnId
      /\ stored' \in SUBSET SessIds
  BY DEF IInv, TypeOK, Enter, Idle, Arrive
<1> HIDE DEF x
<1> QED BY <1>2, <1>3, RequestMoves

LEMMA ForceStopInv ==
  ASSUME ImpersonationAssumption, IInv, NEW q \in Requests, NEW kind, NEW target,
         ForceStop(q, kind, target)
  PROVE  IInv'
<1>1. Admin \in Accounts
  BY DEF Accounts
<1> QED BY <1>1, EnterInv DEF ForceStop, MustStop, sessVars

LEMMA ServeInv ==
  ASSUME ImpersonationAssumption, IInv, NEW q \in Requests, NEW kind \in Kinds,
         NEW target \in Accounts, Serve(q, kind, target)
  PROVE  IInv'
<1>1. Arrive(q, kind, target) /\ Admin \in Accounts
      /\ UNCHANGED <<now, active, super, logVars, used, sess, cookie, todo, faults>>
  BY DEF Serve, Accounts
<1>2. CASE Leave(q, cookie, Loaded) /\ UNCHANGED stored
  <2> DEFINE x == [Idle EXCEPT !.pc = "finish", !.id = cookie, !.pay = Loaded]
  <2>1. x \in RequestRecord /\ ReqFits(x)
    BY <1>1, ArriveLoads, LeaveType, LeaveFits
  <2>2. x.pc # "idle" /\ req' = [req EXCEPT ![q] = x] /\ RoomForAnId
        /\ stored' \in SUBSET SessIds
    BY <1>1, <1>2 DEF IInv, TypeOK, Leave, Idle, Arrive
  <2> HIDE DEF x
  <2> QED BY <1>1, <2>1, <2>2, RequestMoves
<1>3. CASE Enter(q, "start", target, FALSE) /\ UNCHANGED stored
  BY <1>1, <1>3, EnterInv
<1>4. CASE Loaded.imp # NoOne /\ Enter(q, "stop", Admin, FALSE) /\ UNCHANGED stored
  BY <1>1, <1>4, EnterInv
<1>5. CASE Logout(q)
  BY <1>1, <1>5, LogoutInv
<1> QED BY <1>2, <1>3, <1>4, <1>5 DEF Serve

\* StartImpersonation.
LEMMA RefuseInv ==
  ASSUME ImpersonationAssumption, IInv, NEW q \in Requests, Refuse(q)
  PROVE  IInv'
<1> DEFINE x == [Idle EXCEPT !.pc = "finish", !.id = req[q].id, !.pay = req[q].pay]
<1>1. req[q].id \in 0..MaxSess /\ req[q].pay \in Payload
  BY LoadedTypes DEF IInv
<1>2. SessFits(req[q].pay)
  BY DEF IInv, Fits, ReqFits, SessFits, Refuse
<1>3. x \in RequestRecord /\ ReqFits(x)
  BY <1>1, <1>2, LeaveType, LeaveFits
<1>4. x.pc # "idle" /\ req[q].pc # "idle" /\ req' = [req EXCEPT ![q] = x]
      /\ stored' \in SUBSET SessIds
      /\ UNCHANGED <<now, active, super, logVars, used, sess, cookie, todo, faults>>
  BY DEF IInv, TypeOK, Refuse, Leave, Idle, sessVars
<1> HIDE DEF x
<1> QED BY <1>3, <1>4, RequestMoves

LEMMA StartLoginInv ==
  ASSUME ImpersonationAssumption, IInv, NEW q \in Requests, StartLogin(q)
  PROVE  IInv'
<1> DEFINE s == [req[q].pay EXCEPT !.user = req[q].target]
           x == [Idle EXCEPT !.pc = "finish", !.id = None, !.pay = s]
<1>1. req[q].pay \in Payload /\ req[q].target \in Accounts /\ None \in 0..MaxSess
  BY LoadedTypes DEF IInv, ImpersonationAssumption, None
<1>2. s \in Payload
  BY <1>1, PayloadTypes
<1>3. SessFits(s)
  <2>1. ReqFits(req[q]) /\ req[q].pc = "begin"
    BY DEF IInv, Fits, StartLogin
  <2>2. s.imp = req[q].pay.imp /\ s.log = req[q].pay.log /\ s.since = req[q].pay.since
        /\ s.user = req[q].target
    BY <1>1 DEF Payload
  <2> HIDE DEF s
  <2> QED BY <2>1, <2>2 DEF ReqFits, SessFits, Flagged, OnLog
<1> HIDE DEF s
<1>4. x \in RequestRecord /\ ReqFits(x)
  BY <1>1, <1>2, <1>3, LeaveType, LeaveFits
<1>5. req' = [req EXCEPT ![q] = x] /\ req[q].pc # "idle"
      /\ stored' \in SUBSET SessIds
      /\ UNCHANGED <<now, active, super, logVars, used, sess, cookie, todo, faults>>
  BY DEF IInv, TypeOK, StartLogin, Migrate, Leave, s
<1>6. x.pc # "idle"
  BY DEF Idle
<1> HIDE DEF x
<1> QED BY <1>4, <1>5, <1>6, RequestMoves

\* A start writes a log of its own and names it in the keys.
LEMMA StartLogWrites ==
  ASSUME ImpersonationAssumption, IInv, NEW q \in Requests, StartLog(q)
  PROVE  \E x \in RequestRecord, entry \in LogRecord :
           /\ x.pc = "begin" /\ x.target \in Accounts /\ x.id = req[q].id
           /\ x.pay.imp = Admin /\ x.pay.user = Admin
           /\ x.pay.log = logs + 1 /\ x.pay.since = now
           /\ entry.admin = Admin /\ entry.target = x.target
           /\ entry.started = now /\ entry.open
           /\ req' = [req EXCEPT ![q] = x]
           /\ log' = [log EXCEPT ![logs + 1] = entry]
<1> DEFINE s == [user |-> req[q].pay.user, imp |-> req[q].pay.user,
                 log |-> logs + 1, since |-> now]
           x == [req[q] EXCEPT !.pc = "begin", !.pay = s]
           entry == [NoLog EXCEPT !.admin = req[q].pay.user,
                       !.target = req[q].target, !.started = now, !.open = TRUE]
<1>1. /\ req[q] \in RequestRecord /\ req[q].target \in Accounts
      /\ now \in Nat /\ logs + 1 \in 0..MaxLogs
  BY LoadedTypes DEF ImpersonationAssumption, IInv, TypeOK, StartLog
<1>2. req[q].pay.user = Admin
  <2>1. Flagged(req[q].pay) /\ MayImpersonate(q)
    BY DEF IInv, Fits, ReqFits, StartLog
  <2> QED BY <2>1 DEF ImpersonationAssumption, IInv, TypeOK, MayImpersonate, Flagged
<1>3. s \in Payload
  BY <1>1, <1>2 DEF Payload, Accounts
<1>4. entry \in LogRecord
  BY <1>1, <1>2 DEF LogRecord, Accounts, NoLog
<1>5. entry.admin = Admin /\ entry.target = req[q].target /\ entry.started = now
      /\ entry.open
  BY <1>2 DEF NoLog
<1>6. s.imp = Admin /\ s.user = Admin /\ s.log = logs + 1 /\ s.since = now
  BY <1>2
<1>7. req' = [req EXCEPT ![q] = x] /\ log' = [log EXCEPT ![logs + 1] = entry]
  BY DEF StartLog
<1> HIDE DEF s, entry
<1>8. /\ x \in RequestRecord /\ x.pc = "begin" /\ x.pay = s
      /\ x.target = req[q].target /\ x.id = req[q].id
  BY <1>1, <1>3 DEF RequestRecord
<1> HIDE DEF x
<1> QED BY <1>1, <1>4, <1>5, <1>6, <1>7, <1>8

LEMMA StartLogInv ==
  ASSUME ImpersonationAssumption, IInv, NEW q \in Requests, StartLog(q)
  PROVE  IInv'
<1>1. /\ TypeOK /\ RoomLeft /\ Fits /\ LogsFit /\ DurationsAgree
      /\ req[q].pc = "start" /\ logs < MaxLogs /\ logs' = logs + 1
      /\ now \in Nat /\ logs \in Nat /\ MaxLogs \in Nat
      /\ UNCHANGED <<now, active, super, sessVars, todo, faults>>
  BY DEF ImpersonationAssumption, IInv, StartLog, TypeOK
<1>2. PICK x \in RequestRecord, entry \in LogRecord :
        /\ x.pc = "begin" /\ x.target \in Accounts
        /\ x.pay.imp = Admin /\ x.pay.user = Admin
        /\ x.pay.log = logs + 1 /\ x.pay.since = now
        /\ entry.admin = Admin /\ entry.target = x.target
        /\ entry.started = now /\ entry.open
        /\ req' = [req EXCEPT ![q] = x]
        /\ log' = [log EXCEPT ![logs + 1] = entry]
  BY StartLogWrites
<1>3. TypeOK'
  BY <1>1, <1>2 DEF TypeOK, sessVars, LogIds
<1>4. log'[logs + 1] = entry /\ \A l \in 1..logs : log'[l] = log[l]
  BY <1>1, <1>2 DEF TypeOK, LogIds
<1>5. LogsKept
  BY <1>1, <1>4 DEF LogsKept
<1>6. ReqFits(x)'
  <2>1. OnLog(x.pay, x.target)'
    BY <1>1, <1>2, <1>4 DEF OnLog
  <2>2. Flagged(x.pay) /\ x.pay.imp # NoOne
    BY <1>2 DEF ImpersonationAssumption, Flagged
  <2> QED BY <1>2, <2>1, <2>2 DEF ReqFits, Flagged, OnLog
<1>7. Fits'
  BY <1>1, <1>2, <1>3, <1>5, <1>6, OneRequest DEF sessVars
<1>8. RoomLeft'
  BY <1>1, <1>2, RoomInside DEF sessVars
<1>9. \A l \in 1..logs' : l = logs + 1 \/ l \in 1..logs
  BY <1>1
<1>10. LogsFit' /\ DurationsAgree'
  BY <1>1, <1>2, <1>4, <1>9 DEF LogsFit, DurationsAgree
<1> QED BY <1>3, <1>7, <1>8, <1>10 DEF IInv

\* StopImpersonation.
LEMMA StopReadInv ==
  ASSUME ImpersonationAssumption, IInv, NEW q \in Requests, StopRead(q)
  PROVE  IInv'
<1> DEFINE x == [req[q] EXCEPT !.pc = "close", !.at = now,
                   !.seen = log[req[q].pay.log].open]
<1>1. TypeOK /\ ReqFits(req[q]) /\ req[q] \in RequestRecord /\ req[q].pc = "stop"
      /\ now \in Nat /\ LogsFit
  BY LoadedTypes DEF ImpersonationAssumption, IInv, TypeOK, Fits, StopRead
<1>2. req[q].pay.imp # NoOne /\ OnLog(req[q].pay, req[q].pay.user)
  BY <1>1 DEF ReqFits
<1>3. log[req[q].pay.log].open \in BOOLEAN /\ req[q].pay.since <= now
  <2>1. /\ req[q].pay.log \in 1..logs
        /\ log[req[q].pay.log].started = req[q].pay.since
    BY <1>2 DEF OnLog
  <2>2. req[q].pay.since <= now
    BY <1>1, <2>1 DEF LogsFit
  <2>3. logs \in 0..MaxLogs /\ log \in [LogIds -> LogRecord]
    BY <1>1 DEF TypeOK
  <2>4. req[q].pay.log \in LogIds
    BY <2>1, <2>3 DEF ImpersonationAssumption, LogIds
  <2>5. log[req[q].pay.log] \in LogRecord
    BY <2>3, <2>4
  <2> QED BY <2>2, <2>5 DEF LogRecord
<1>4. x \in RequestRecord /\ x.pc = "close" /\ x.pay = req[q].pay /\ x.at = now
  BY <1>1, <1>3 DEF RequestRecord
<1>5. req' = [req EXCEPT ![q] = x] /\ stored' \in SUBSET SessIds
      /\ UNCHANGED <<now, active, super, logVars, used, sess, cookie, todo, faults>>
  BY <1>1 DEF TypeOK, StopRead, sessVars
<1> HIDE DEF x
<1>6. ReqFits(x)
  BY <1>1, <1>2, <1>3, <1>4 DEF ReqFits
<1>7. x.pc # "idle" /\ req[q].pc # "idle"
  BY <1>1, <1>4
<1> QED BY <1>4, <1>5, <1>6, <1>7, RequestMoves

\* Closing a log, by a stop or by the job, leaves its parties and its start.
LEMMA CloseLogInv ==
  ASSUME ImpersonationAssumption, IInv, NEW l \in 1..logs, NEW entry \in LogRecord,
         log' = [log EXCEPT ![l] = entry], UNCHANGED <<now, logs>>,
         todo' \subseteq todo,
         entry.admin = log[l].admin, entry.target = log[l].target,
         entry.started = log[l].started, entry.started <= entry.ended,
         entry.duration = Seconds(entry.started, entry.ended)
  PROVE  /\ log' \in [LogIds -> LogRecord]
         /\ LogsKept /\ LogsFit' /\ DurationsAgree'
<1>1. TypeOK /\ LogsFit /\ DurationsAgree /\ logs \in Nat /\ l \in LogIds
  BY DEF ImpersonationAssumption, IInv, TypeOK, LogIds
<1>2. log' \in [LogIds -> LogRecord] /\ log'[l] = entry
      /\ \A k \in 1..logs : k # l => log'[k] = log[k]
  BY <1>1 DEF TypeOK, LogIds
<1>3. LogsKept
  BY <1>1, <1>2 DEF LogsKept
<1>4. LogsFit'
  BY <1>1, <1>2, <1>3 DEF LogsFit, LogsKept
<1>5. DurationsAgree'
  BY <1>1, <1>2 DEF DurationsAgree, Seconds
<1> QED BY <1>2, <1>3, <1>4, <1>5

LEMMA StopWriteInv ==
  ASSUME ImpersonationAssumption, IInv, NEW q \in Requests, StopWrite(q)
  PROVE  IInv'
<1> DEFINE l == req[q].pay.log
           entry == [log[l] EXCEPT !.open = FALSE, !.ended = req[q].at,
                       !.duration = Seconds(req[q].pay.since, req[q].at)]
<1>1. /\ TypeOK /\ RoomLeft /\ Fits /\ ReqFits(req[q]) /\ req[q] \in RequestRecord
      /\ req[q].pc = "close" /\ req[q].at \in Nat /\ req[q].pay \in Payload
      /\ now \in Nat /\ logs' = logs /\ now' = now
      /\ UNCHANGED <<active, super, sessVars, todo, faults>>
  BY LoadedTypes DEF ImpersonationAssumption, IInv, TypeOK, Fits, StopWrite
<1>2. /\ l \in 1..logs /\ log[l].started = req[q].pay.since
      /\ req[q].pay.since <= req[q].at /\ req[q].pay.since \in Nat
  BY <1>1 DEF ReqFits, OnLog, Payload
<1>3. \E x \in RequestRecord : /\ x.pc = "switch" /\ x.pay = req[q].pay
                               /\ req' = [req EXCEPT ![q] = x]
  <2> DEFINE x == [req[q] EXCEPT !.pc = "switch"]
  <2>1. x \in RequestRecord /\ x.pc = "switch" /\ x.pay = req[q].pay
    BY <1>1 DEF RequestRecord
  <2>2. req' = [req EXCEPT ![q] = x]
    BY <1>1 DEF StopWrite, GoTo, RequestRecord
  <2> HIDE DEF x
  <2> QED BY <2>1, <2>2
<1>4. PICK x \in RequestRecord : /\ x.pc = "switch" /\ x.pay = req[q].pay
                                /\ req' = [req EXCEPT ![q] = x]
  BY <1>3
<1>5. ReqFits(x)
  BY <1>1, <1>4 DEF ReqFits
<1>6. /\ log' \in [LogIds -> LogRecord]
      /\ LogsKept /\ LogsFit' /\ DurationsAgree'
  <2>1. CASE req[q].seen
    <3>1. log' = [log EXCEPT ![l] = entry]
      BY <2>1 DEF StopWrite
    <3>2. log[l] \in LogRecord
      BY <1>1, <1>2 DEF TypeOK, LogIds, ImpersonationAssumption
    <3>3. Seconds(req[q].pay.since, req[q].at) \in Nat
      BY <1>1, <1>2 DEF Seconds, ImpersonationAssumption
    <3>4. /\ entry \in LogRecord
          /\ entry.admin = log[l].admin /\ entry.target = log[l].target
          /\ entry.started = log[l].started /\ entry.ended = req[q].at
          /\ entry.duration = Seconds(req[q].pay.since, req[q].at)
      BY <1>1, <3>2, <3>3 DEF LogRecord
    <3> HIDE DEF entry, l
    <3> QED BY <1>1, <1>2, <3>1, <3>4, CloseLogInv
  <2>2. CASE ~req[q].seen
    <3>1. UNCHANGED logVars
      BY <1>1, <2>2 DEF StopWrite, logVars
    <3> QED BY <1>1, <3>1, SameLogs, SameRecord DEF TypeOK, logVars
  <2> QED BY <2>1, <2>2
<1>7. TypeOK'
  BY <1>1, <1>4, <1>6 DEF TypeOK, sessVars
<1>8. ReqFits(x)'
  BY <1>1, <1>5, <1>6, <1>7, KeptReq
<1>9. Fits'
  BY <1>1, <1>4, <1>6, <1>7, <1>8, OneRequest DEF sessVars
<1>10. RoomLeft'
  BY <1>1, <1>4, RoomInside DEF sessVars
<1> QED BY <1>6, <1>7, <1>9, <1>10 DEF IInv

LEMMA StopSwitchInv ==
  ASSUME ImpersonationAssumption, IInv, NEW q \in Requests, StopSwitch(q)
  PROVE  IInv'
<1>1. /\ req[q].pc = "switch" /\ req[q].pay \in Payload /\ ReqFits(req[q])
      /\ None \in 0..MaxSess /\ stored \in SUBSET SessIds
      /\ UNCHANGED <<now, active, super, logVars, used, sess, cookie, todo, faults>>
  BY LoadedTypes DEF ImpersonationAssumption, IInv, TypeOK, Fits, StopSwitch, None
<1>2. PICK s \in {Guest, Restored(req[q].pay), LoggedOut(req[q].pay)} :
        Migrate(q, req[q].id, s)
  BY DEF StopSwitch
<1>3. req[q].pay.imp = Admin
  BY <1>1 DEF ReqFits, Flagged
<1>4. s \in Payload /\ SessFits(s)
  <2>1. s = Guest \/ s = Restored(req[q].pay)
    BY <1>2 DEF LoggedOut
  <2>2. SessFits(Restored(req[q].pay))
    BY <1>3 DEF ImpersonationAssumption, Restored, Guest, SessFits, Flagged, OnLog
  <2> QED BY <1>1, <2>1, <2>2, GuestFits, PayloadTypes
<1> DEFINE x == [Idle EXCEPT !.pc = "finish", !.id = None, !.pay = s]
<1>5. x \in RequestRecord /\ ReqFits(x)
  BY <1>1, <1>4, LeaveType, LeaveFits
<1>6. req' = [req EXCEPT ![q] = x] /\ stored' \in SUBSET SessIds
  BY <1>1, <1>2 DEF Migrate, Leave
<1>7. x.pc # "idle" /\ req[q].pc # "idle"
  BY <1>1 DEF Idle
<1> HIDE DEF x
<1> QED BY <1>1, <1>5, <1>6, <1>7, RequestMoves

\* Saving the session at the end of a request, and dying before.
LEMMA FinishInv ==
  ASSUME ImpersonationAssumption, IInv, NEW q \in Requests, Finish(q)
  PROVE  IInv'
<1>1. /\ TypeOK /\ RoomLeft /\ Fits /\ ReqFits(req[q]) /\ req[q].pc = "finish"
      /\ req[q].id \in 0..MaxSess /\ req[q].pay \in Payload
      /\ req' = [req EXCEPT ![q] = Idle]
      /\ UNCHANGED <<now, active, super, logVars, todo, faults>>
      /\ None \in 0..MaxSess /\ now \in Nat
  BY LoadedTypes DEF ImpersonationAssumption, IInv, TypeOK, Fits, Finish, None
<1>2. SessFits(req[q].pay)
  BY <1>1 DEF ReqFits, SessFits
<1>3. used' \in {used, used + 1}
  BY DEF Finish
<1>4. RoomLeft' /\ used + 1 \in SessIds
  BY <1>1, <1>3, RoomEnds
<1>5. /\ used' \in 0..MaxSess /\ cookie' \in 0..MaxSess
      /\ stored' \in SUBSET SessIds
      /\ \/ UNCHANGED sess
         \/ \E i \in SessIds : sess' = [sess EXCEPT ![i] = req[q].pay]
  <2>1. stored \in SUBSET SessIds /\ used \in 0..MaxSess /\ MaxSess \in Nat
        /\ used + 1 \in 0..MaxSess
    BY <1>1, <1>4 DEF TypeOK, SessIds, ImpersonationAssumption
  <2>2. CASE req[q].id # None
    <3>1. req[q].id \in SessIds
      BY <1>1, <2>1, <2>2 DEF SessIds, None
    <3> QED BY <1>1, <2>1, <2>2, <3>1 DEF Finish
  <2>3. CASE req[q].id = None /\ req[q].pay = Guest
    BY <1>1, <2>1, <2>3 DEF Finish
  <2>4. CASE req[q].id = None /\ req[q].pay # Guest
    BY <1>1, <1>4, <2>1, <2>4 DEF Finish
  <2> QED BY <2>2, <2>3, <2>4
<1>6. TypeOK'
  BY <1>1, <1>5, IdleFits DEF TypeOK, logVars
<1>7. ASSUME NEW i \in SessIds
      PROVE  SessFits(sess[i])'
  <2>1. SessFits(sess'[i])
    BY <1>1, <1>2, <1>5 DEF TypeOK, Fits
  <2> QED BY <1>1, <2>1 DEF SessFits, Flagged, OnLog, logVars
<1>8. ASSUME NEW r \in Requests
      PROVE  ReqFits(req[r])'
  <2>1. ReqFits(req'[r])
    BY <1>1, IdleFits DEF TypeOK, Fits
  <2> QED BY <1>1, <2>1 DEF ReqFits, Flagged, OnLog, logVars
<1>9. LogsFit' /\ DurationsAgree'
  BY <1>1, SameRecord
<1> QED BY <1>4, <1>6, <1>7, <1>8, <1>9 DEF IInv, Fits

LEMMA DieInv ==
  ASSUME ImpersonationAssumption, IInv, NEW q \in Requests, Die(q)
  PROVE  IInv'
<1>1. /\ TypeOK /\ RoomLeft /\ Fits /\ now \in Nat /\ now' = now
      /\ req[q].pc # "idle" /\ req' = [req EXCEPT ![q] = Idle]
      /\ UNCHANGED <<active, super, logVars, sessVars, todo>>
  BY DEF ImpersonationAssumption, IInv, TypeOK, Die
<1>2. TypeOK'
  BY <1>1, IdleFits DEF TypeOK, Die, logVars, sessVars, ImpersonationAssumption
<1>3. RoomLeft'
  BY <1>1, RoomEnds DEF sessVars
<1>4. LogsKept
  BY <1>1, SameLogs
<1>5. ReqFits(Idle)'
  BY <1>1, <1>2, <1>4, IdleFits, KeptReq
<1>6. Fits'
  BY <1>1, <1>2, <1>4, <1>5, OneRequest DEF sessVars
<1>7. LogsFit' /\ DurationsAgree'
  BY <1>1, SameRecord
<1> QED BY <1>2, <1>3, <1>6, <1>7 DEF IInv

\* The Super Admin logs in.
LEMMA LoginInv ==
  ASSUME ImpersonationAssumption, IInv, Login
  PROVE  IInv'
<1> DEFINE s == [Guest EXCEPT !.user = Admin]
<1>1. /\ TypeOK /\ Fits /\ now \in Nat /\ used \in Nat /\ MaxSess \in Nat
      /\ UNCHANGED <<now, active, super, logVars, req, todo, faults>>
  BY DEF ImpersonationAssumption, IInv, TypeOK, Login
<1>2. Cardinality(Busy) \in Nat /\ used + Cardinality(Busy) < MaxSess
  <2>1. IsFiniteSet(Busy)
    BY FS_Subset DEF ImpersonationAssumption, Busy
  <2> QED BY <2>1, FS_CardinalityType DEF Login, RoomForAnId, Busy
<1>3. s \in Payload /\ SessFits(s)
  BY DEF ImpersonationAssumption, Guest, Payload, Accounts, None, SessFits, Flagged, OnLog
<1>4. used + 1 \in SessIds /\ used' = used + 1 /\ stored' = stored \cup {used + 1}
      /\ sess' = [sess EXCEPT ![used + 1] = s] /\ cookie' = used + 1
  BY <1>1, <1>2 DEF Login, SessIds
<1> HIDE DEF s
<1>5. TypeOK'
  BY <1>1, <1>3, <1>4 DEF TypeOK, SessIds, logVars
<1>6. RoomLeft'
  BY <1>1, <1>2, <1>4 DEF RoomLeft, Busy
<1>7. Fits'
  <2>1. \A i \in SessIds : SessFits(sess'[i])
    BY <1>1, <1>3, <1>4 DEF TypeOK, Fits
  <2>2. \A i \in SessIds : SessFits(sess[i])'
    BY <1>1, <2>1 DEF SessFits, Flagged, OnLog, logVars
  <2>3. \A r \in Requests : ReqFits(req[r])'
    BY <1>1 DEF Fits, ReqFits, Flagged, OnLog, logVars
  <2> QED BY <2>2, <2>3 DEF Fits
<1>8. LogsFit' /\ DurationsAgree'
  BY <1>1, SameRecord
<1> QED BY <1>5, <1>6, <1>7, <1>8 DEF IInv

\* Steps that touch no session, no request and at most close logs.
LEMMA OthersInv ==
  ASSUME ImpersonationAssumption, IInv, TypeOK', LogsKept,
         LogsFit', DurationsAgree', UNCHANGED <<used, sess, req>>
  PROVE  IInv'
<1>1. TypeOK /\ Fits /\ RoomLeft
  BY DEF IInv
<1>2. \A i \in SessIds : SessFits(sess[i])'
  BY <1>1, KeptSess DEF Fits
<1>3. \A r \in Requests : ReqFits(req[r])'
  BY <1>1, KeptReq DEF Fits
<1>4. RoomLeft'
  BY <1>1 DEF RoomLeft, Busy
<1> QED BY <1>2, <1>3, <1>4 DEF IInv, Fits

\* The job closes a log it has selected, whatever has become of the log.
LEMMA CloseStaleInv ==
  ASSUME ImpersonationAssumption, IInv, NEW l \in LogIds, CloseStale(l)
  PROVE  IInv'
<1> DEFINE entry == [log[l] EXCEPT !.open = FALSE, !.ended = log[l].started + Timeout,
                       !.duration = Timeout]
<1>1. /\ TypeOK /\ l \in 1..logs /\ log' = [log EXCEPT ![l] = entry]
      /\ todo' \subseteq todo /\ Timeout \in Nat
      /\ UNCHANGED <<now, active, super, logs, sessVars, req, faults>>
  BY DEF ImpersonationAssumption, IInv, LogsFit, CloseStale
<1>2. log[l] \in LogRecord
  BY <1>1 DEF TypeOK
<1>3. /\ entry \in LogRecord
      /\ entry.admin = log[l].admin /\ entry.target = log[l].target
      /\ entry.started = log[l].started /\ entry.started <= entry.ended
      /\ entry.duration = Seconds(entry.started, entry.ended)
  <2>1. log[l].started \in Nat /\ log[l].started + Timeout \in Nat
    BY <1>1, <1>2 DEF LogRecord
  <2>2. /\ entry \in LogRecord
        /\ entry.admin = log[l].admin /\ entry.target = log[l].target
        /\ entry.started = log[l].started /\ entry.duration = Timeout
        /\ entry.ended = log[l].started + Timeout
    BY <1>1, <1>2, <2>1 DEF LogRecord
  <2> HIDE DEF entry
  <2> QED BY <1>1, <2>1, <2>2 DEF Seconds
<1> HIDE DEF entry
<1>4. /\ log' \in [LogIds -> LogRecord]
      /\ LogsKept /\ LogsFit' /\ DurationsAgree'
  BY <1>1, <1>3, CloseLogInv
<1>5. TypeOK'
  BY <1>1, <1>4 DEF TypeOK, sessVars
<1> QED BY <1>1, <1>4, <1>5, OthersInv DEF sessVars

\* The job selects, accounts change, time passes, the job dies.
LEMMA SelectStaleInv ==
  ASSUME ImpersonationAssumption, IInv, SelectStale
  PROVE  IInv'
<1>1. /\ TypeOK /\ now' = now /\ todo' \subseteq 1..logs
      /\ UNCHANGED <<now, active, super, logVars, sessVars, req, faults>>
  BY DEF IInv, SelectStale
<1>2. TypeOK'
  BY <1>1 DEF ImpersonationAssumption, TypeOK, LogIds, logVars, sessVars
<1>3. LogsFit' /\ DurationsAgree'
  BY <1>1 DEF IInv, LogsFit, DurationsAgree, logVars
<1> QED BY <1>1, <1>2, <1>3, SameLogs, OthersInv DEF sessVars

LEMMA EnvironmentInv ==
  ASSUME ImpersonationAssumption, IInv, AccountStep \/ Tick \/ KillSweep
  PROVE  IInv'
<1>1. /\ TypeOK /\ now \in Nat /\ now' \in 0..MaxTime /\ now' >= now
      /\ UNCHANGED <<logVars, sessVars, req>> /\ todo' \subseteq todo
  <2>1. CASE AccountStep
    BY <2>1 DEF ImpersonationAssumption, IInv, TypeOK, AccountStep, Deactivate, Reactivate,
                Promote, logVars, sessVars
  <2>2. CASE Tick
    BY <2>2 DEF ImpersonationAssumption, IInv, TypeOK, Tick, logVars, sessVars
  <2>3. CASE KillSweep
    BY <2>3 DEF ImpersonationAssumption, IInv, TypeOK, KillSweep, logVars, sessVars
  <2> QED BY <2>1, <2>2, <2>3
<1>2. active' \in SUBSET Accounts /\ super' \in SUBSET Members /\ faults' \in 0..MaxFaults
  <2>1. CASE AccountStep
    BY <1>1, <2>1 DEF TypeOK, AccountStep, Deactivate, Reactivate, Promote
  <2>2. CASE Tick
    BY <1>1, <2>2 DEF TypeOK, Tick
  <2>3. CASE KillSweep
    BY <1>1, <2>3 DEF TypeOK, KillSweep, ImpersonationAssumption
  <2> QED BY <2>1, <2>2, <2>3
<1>3. TypeOK'
  BY <1>1, <1>2 DEF TypeOK, logVars, sessVars
<1>4. LogsFit' /\ DurationsAgree'
  BY <1>1, SameRecord
<1> QED BY <1>1, <1>3, <1>4, SameLogs, OthersInv DEF sessVars

LEMMA NextInv ==
  ASSUME ImpersonationAssumption, IInv, [Next]_vars
  PROVE  IInv'
<1>1. CASE Login
  BY <1>1, LoginInv
<1>2. ASSUME NEW q \in Requests, RequestStep(q)
      PROVE  IInv'
  BY <1>2, TerminateInv, ForceStopInv, ServeInv, StartLogInv, RefuseInv, StartLoginInv,
     StopReadInv, StopWriteInv, StopSwitchInv, FinishInv, DieInv DEF RequestStep
<1>3. CASE SweepStep
  BY <1>3, SelectStaleInv, CloseStaleInv DEF SweepStep
<1>4. CASE AccountStep \/ Tick \/ KillSweep
  BY <1>4, EnvironmentInv
<1>5. CASE UNCHANGED vars
  <2>1. UNCHANGED <<now, logVars, used, stored, sess, cookie, req, todo>>
        /\ active' = active /\ super' = super /\ faults' = faults
    BY <1>5 DEF vars, logVars, sessVars
  <2>2. TypeOK' /\ LogsFit' /\ DurationsAgree'
    BY <2>1 DEF IInv, TypeOK, LogsFit, DurationsAgree, logVars
  <2> QED BY <2>1, <2>2, SameLogs, OthersInv DEF IInv
<1> QED BY <1>1, <1>2, <1>3, <1>4, <1>5 DEF Next

-----------------------------------------------------------------------------
(* The theorems.                                                           *)

\* The invariant holds throughout, whatever requests, jobs and deaths overlap.
THEOREM InvariantHolds == Spec => []IInv
<1>1. Init => IInv
  BY InitInv, ImpersonationAssumption
<1>2. IInv /\ [Next]_vars => IInv'
  BY NextInv, ImpersonationAssumption
<1> QED BY <1>1, <1>2, PTL DEF Spec

\* All variables keep their types; no request runs out of session ids.
THEOREM TypeCorrect == Spec => []TypeOK
<1>1. IInv => TypeOK
  BY DEF IInv
<1> QED BY <1>1, InvariantHolds, PTL

\* BR-016: no session, stored or in the hands of a request, acts as a member
\* without naming the Super Admin behind it, however stops, starts, timeouts,
\* logouts and deaths of several requests overlap.
THEOREM NobodyUnflagged == Spec => []NobodyActsUnflagged
<1>1. IInv => NobodyActsUnflagged
  <2> SUFFICES ASSUME IInv, NEW s \in Sessions
               PROVE  IF s.imp = NoOne THEN s.user \in {NoOne, Admin} ELSE s.imp = Admin
    BY DEF NobodyActsUnflagged
  <2>1. Flagged(s)
    BY DEF IInv, TypeOK, Fits, SessFits, ReqFits, Sessions
  <2> QED BY <2>1 DEF Flagged
<1> QED BY <1>1, InvariantHolds, PTL

\* A stored session names the log of the impersonation that goes on in it: its
\* impersonator, its target; closeLog and rowMatches rely on it.
THEOREM SessionsNameTheirLog == Spec => []SessionsMatchTheirLog
<1>1. IInv => SessionsMatchTheirLog
  BY DEF IInv, TypeOK, Fits, SessFits, OnLog, SessionsMatchTheirLog
<1> QED BY <1>1, InvariantHolds, PTL

\* Whoever closes a log, a stop or the sweep, however late and however often,
\* records the seconds between its start and its end, at most the timeout.
THEOREM DurationsAreRight == Spec => []DurationsAgree
<1>1. IInv => DurationsAgree
  BY DEF IInv
<1> QED BY <1>1, InvariantHolds, PTL

-----------------------------------------------------------------------------
(* No impersonation is off the record.  A log is named by one session only: *)
(* a stored one, or one that a request is about to store.  A request that   *)
(* stops an impersonation closes the log of its own session therefore, and  *)
(* that session is marked as ending until it is deleted.                    *)

\* A request that holds an impersonation no stored session stands for yet.
Fresh(x) == x.pc = "begin" \/ (x.pc = "finish" /\ x.id = None /\ x.pay.imp # NoOne)

Stops(x) == x.pc \in {"stop", "close", "switch"}

Lives(i) == i \in stored /\ sess[i].imp # NoOne

\* A stored session never changes: who writes it back has loaded it as it is.
CopiesAgree ==
  /\ stored \subseteq 1..used
  /\ \A q \in Requests : /\ req[q].id <= used
                         /\ req[q].pc = "start" => req[q].id # None
  /\ \A q \in Requests : req[q].id \in stored /\ req[q].pc # "begin" =>
       req[q].pay = sess[req[q].id]

OneSessionPerLog ==
  /\ \A i, j \in SessIds :
       Lives(i) /\ Lives(j) /\ sess[i].log = sess[j].log => i = j
  /\ \A i \in SessIds, q \in Requests :
       Lives(i) /\ Fresh(req[q]) => sess[i].log # req[q].pay.log
  /\ \A q, r \in Requests :
       Fresh(req[q]) /\ Fresh(req[r]) /\ req[q].pay.log = req[r].pay.log => q = r

StopsOwnLog ==
  \A q \in Requests : Stops(req[q]) =>
    /\ \A i \in SessIds : Lives(i) /\ sess[i].log = req[q].pay.log => i = req[q].id
    /\ \A r \in Requests : Fresh(req[r]) => req[r].pay.log # req[q].pay.log

StaleSelected == \A l \in todo : Overdue(log[l].started)

OnRecord == faults = 0 =>
  /\ \A i \in SessIds :
       Lives(i) /\ ~Overdue(sess[i].since) /\ ~Ending(i) => log[sess[i].log].open
  /\ \A q \in Requests :
       Fresh(req[q]) /\ ~Overdue(req[q].pay.since) => log[req[q].pay.log].open

Own == CopiesAgree /\ OneSessionPerLog /\ StopsOwnLog
RecInv == IInv /\ Own /\ StaleSelected /\ OnRecord

-----------------------------------------------------------------------------
(* The steps that change one request, and at most delete sessions: the     *)
(* request keeps or gives up what it had, or has loaded a stored session.  *)

LEMMA OwnMoves ==
  ASSUME ImpersonationAssumption, IInv, Own, NEW q \in Requests, NEW x,
         req' = [req EXCEPT ![q] = x], UNCHANGED <<used, sess>>,
         stored' \subseteq stored, x.id <= used, x.pc = "start" => x.id # None,
         x.id \in stored' /\ x.pc # "begin" => x.pay = sess[x.id],
         Fresh(x) => Fresh(req[q]) /\ x.pay.log = req[q].pay.log,
         Stops(x) => \/ /\ Stops(req[q]) /\ x.id = req[q].id
                        /\ x.pay.log = req[q].pay.log
                     \/ Lives(x.id) /\ x.pay = sess[x.id]
  PROVE  Own'
<1>1. /\ CopiesAgree /\ OneSessionPerLog /\ StopsOwnLog
      /\ req'[q] = x /\ \A r \in Requests : r # q => req'[r] = req[r]
  BY DEF IInv, TypeOK, Own
<1>2. \A i : Lives(i)' => Lives(i)
  BY DEF Lives
<1>3. \A r \in Requests : Fresh(req'[r]) =>
        Fresh(req[r]) /\ req'[r].pay.log = req[r].pay.log
  BY <1>1
<1>4. CopiesAgree'
  BY <1>1 DEF CopiesAgree
<1>5. OneSessionPerLog'
  <2>1. \A r \in Requests : Fresh(req[r])' => Fresh(req'[r])
    BY DEF Fresh
  <2>2. \A i, j \in SessIds :
          Lives(i)' /\ Lives(j)' /\ sess'[i].log = sess'[j].log => i = j
    BY <1>1, <1>2 DEF OneSessionPerLog
  <2>3. \A i \in SessIds, r \in Requests :
          Lives(i)' /\ Fresh(req[r])' => sess'[i].log # req'[r].pay.log
    BY <1>1, <1>2, <1>3, <2>1 DEF OneSessionPerLog
  <2>4. \A r, s \in Requests :
          Fresh(req[r])' /\ Fresh(req[s])' /\ req'[r].pay.log = req'[s].pay.log => r = s
    BY <1>1, <1>3, <2>1 DEF OneSessionPerLog
  <2> QED BY <2>2, <2>3, <2>4 DEF OneSessionPerLog
<1>6. StopsOwnLog'
  <2>1. ASSUME NEW r \in Requests, Stops(req'[r])
        PROVE  /\ \A i \in SessIds :
                    Lives(i)' /\ sess'[i].log = req'[r].pay.log => i = req'[r].id
               /\ \A s \in Requests : Fresh(req'[s]) => req'[s].pay.log # req'[r].pay.log
    <3>1. CASE Stops(req[r]) /\ req'[r].id = req[r].id /\ req'[r].pay.log = req[r].pay.log
      BY <1>1, <1>2, <1>3, <3>1 DEF StopsOwnLog
    <3>2. CASE r = q /\ Lives(x.id) /\ x.pay = sess[x.id]
      <4>1. x.id \in SessIds
        BY <3>2 DEF IInv, TypeOK, Lives
      <4> QED BY <1>1, <1>2, <1>3, <2>1, <3>2, <4>1 DEF OneSessionPerLog
    <3> QED BY <1>1, <2>1, <3>1, <3>2
  <2> QED BY <2>1 DEF StopsOwnLog, Stops, Fresh
<1> QED BY <1>4, <1>5, <1>6 DEF Own

LEMMA RecordMoves ==
  ASSUME RecInv, NEW q \in Requests, NEW x, req' = [req EXCEPT ![q] = x],
         UNCHANGED <<now, log, sess, todo>>, stored' \subseteq stored,
         Fresh(x) => /\ Fresh(req[q]) /\ x.pay.log = req[q].pay.log
                     /\ x.pay.since = req[q].pay.since,
         \/ faults' = faults /\ (req[q].pc = "switch" => req[q].id \notin stored')
         \/ faults' # 0
  PROVE  StaleSelected' /\ OnRecord'
<1>1. /\ StaleSelected /\ OnRecord
      /\ req'[q] = x /\ \A r \in Requests : r # q => req'[r] = req[r]
  BY DEF RecInv, IInv, TypeOK
<1>2. StaleSelected'
  BY <1>1 DEF StaleSelected, Overdue
<1>3. ASSUME faults' = 0
      PROVE  /\ \A i \in SessIds :
                  Lives(i)' /\ ~Overdue(sess[i].since) /\ ~Ending(i)' => log[sess[i].log].open
             /\ \A r \in Requests :
                  Fresh(req'[r]) /\ ~Overdue(req'[r].pay.since) => log[req'[r].pay.log].open
  <2>1. faults = 0 /\ (req[q].pc = "switch" => req[q].id \notin stored')
    BY <1>3
  <2>2. \A i \in SessIds : Lives(i)' => Lives(i) /\ (Ending(i) => Ending(i)')
    BY <1>1, <2>1 DEF Lives, Ending
  <2>3. \A r \in Requests : Fresh(req'[r]) =>
          /\ Fresh(req[r]) /\ req'[r].pay.log = req[r].pay.log
          /\ req'[r].pay.since = req[r].pay.since
    BY <1>1
  <2> QED BY <1>1, <2>1, <2>2, <2>3 DEF OnRecord
<1> QED BY <1>2, <1>3 DEF OnRecord, Overdue, Fresh

\* A request that arrives works on a copy of the stored session, or on none.
LEMMA Arrivals ==
  ASSUME IInv, NEW q \in Requests, NEW kind \in Kinds, NEW target \in Accounts,
         Terminate(q, kind, target) \/ ForceStop(q, kind, target) \/ Serve(q, kind, target)
  PROVE  /\ req[q].pc = "idle" /\ cookie \in stored /\ stored' \subseteq stored
         /\ UNCHANGED <<now, logVars, used, sess, todo, faults>>
         /\ \E x \in RequestRecord :
              /\ req' = [req EXCEPT ![q] = x]
              /\ \/ /\ x.id = cookie /\ x.pay = Loaded
                    /\ x.pc \in {"finish", "start", "stop"}
                    /\ x.pc = "stop" => Loaded.imp # NoOne
                 \/ x.id = None /\ x.pay = Guest /\ x.pc = "finish"
<1>1. /\ req[q].pc = "idle" /\ cookie \in stored
      /\ UNCHANGED <<now, logVars, used, sess, todo, faults>>
  BY DEF Terminate, ForceStop, Serve, Arrive, sessVars
<1>2. \/ Logout(q)
      \/ Loaded.imp # NoOne /\ Enter(q, "stop", Admin, FALSE) /\ UNCHANGED stored
      \/ Enter(q, "start", target, FALSE) /\ UNCHANGED stored
      \/ Leave(q, cookie, Loaded) /\ UNCHANGED stored
  BY DEF Terminate, ForceStop, Serve, MustStop, sessVars
<1>3. Loaded \in Payload /\ cookie \in 0..MaxSess /\ None \in 0..MaxSess
      /\ Guest \in Payload /\ Admin \in Accounts
  <2>1. Guest \in Payload /\ Admin \in Accounts /\ None \in 0..MaxSess
    BY ImpersonationAssumption
    DEF Guest, Payload, Accounts, None, ImpersonationAssumption
  <2>2. Loaded \in Payload /\ cookie \in 0..MaxSess
    BY <1>1 DEF IInv, TypeOK, Loaded
  <2> QED BY <2>1, <2>2
<1>4. ASSUME NEW pc \in {"start", "stop"}, NEW u \in Accounts, NEW out \in BOOLEAN,
             Enter(q, pc, u, out), pc = "stop" => Loaded.imp # NoOne, UNCHANGED stored
      PROVE  \E x \in RequestRecord :
               /\ req' = [req EXCEPT ![q] = x] /\ x.id = cookie /\ x.pay = Loaded
               /\ x.pc \in {"start", "stop"}
               /\ x.pc = "stop" => Loaded.imp # NoOne
  <2> DEFINE x == [Idle EXCEPT !.pc = pc, !.id = cookie, !.pay = Loaded,
                     !.target = u, !.out = out]
  <2>1. x \in RequestRecord /\ x.id = cookie /\ x.pay = Loaded /\ x.pc = pc
    BY <1>3, ImpersonationAssumption, EnterType DEF Idle
  <2>2. req' = [req EXCEPT ![q] = x]
    BY <1>4 DEF Enter
  <2> HIDE DEF x
  <2> QED BY <1>4, <2>1, <2>2
<1>5. ASSUME NEW id \in 0..MaxSess, NEW s \in Payload, Leave(q, id, s)
      PROVE  \E x \in RequestRecord :
               req' = [req EXCEPT ![q] = x] /\ x.id = id /\ x.pay = s /\ x.pc = "finish"
  <2> DEFINE x == [Idle EXCEPT !.pc = "finish", !.id = id, !.pay = s]
  <2>1. x \in RequestRecord /\ x.id = id /\ x.pay = s /\ x.pc = "finish"
    BY ImpersonationAssumption, LeaveType DEF Idle
  <2>2. req' = [req EXCEPT ![q] = x]
    BY <1>5 DEF Leave
  <2> HIDE DEF x
  <2> QED BY <2>1, <2>2
<1>6. CASE Enter(q, "stop", Admin, TRUE) /\ Loaded.imp # NoOne /\ UNCHANGED stored
  BY <1>1, <1>3, <1>4, <1>6
<1>7. CASE Migrate(q, cookie, Guest)
  BY <1>1, <1>3, <1>5, <1>7 DEF Migrate
<1>8. CASE Loaded.imp # NoOne /\ Enter(q, "stop", Admin, FALSE) /\ UNCHANGED stored
  BY <1>1, <1>3, <1>4, <1>8
<1>9. CASE Enter(q, "start", target, FALSE) /\ UNCHANGED stored
  BY <1>1, <1>4, <1>9
<1>10. CASE Leave(q, cookie, Loaded) /\ UNCHANGED stored
  BY <1>1, <1>3, <1>5, <1>10
<1> QED BY <1>2, <1>6, <1>7, <1>8, <1>9, <1>10 DEF Logout

LEMMA ArriveRec ==
  ASSUME ImpersonationAssumption, RecInv, NEW q \in Requests, NEW kind \in Kinds,
         NEW target \in Accounts,
         Terminate(q, kind, target) \/ ForceStop(q, kind, target) \/ Serve(q, kind, target)
  PROVE  Own' /\ StaleSelected' /\ OnRecord'
<1>1. /\ req[q].pc = "idle" /\ cookie \in stored /\ stored' \subseteq stored
      /\ UNCHANGED <<now, logVars, used, sess, todo, faults>>
  BY Arrivals DEF RecInv
<1>2. PICK x \in RequestRecord :
        /\ req' = [req EXCEPT ![q] = x]
        /\ \/ /\ x.id = cookie /\ x.pay = Loaded
              /\ x.pc \in {"finish", "start", "stop"}
              /\ x.pc = "stop" => Loaded.imp # NoOne
           \/ x.id = None /\ x.pay = Guest /\ x.pc = "finish"
  BY Arrivals DEF RecInv
<1>3. /\ stored \subseteq 1..used /\ used \in Nat /\ cookie \in 1..used
      /\ None = 0 /\ None \notin stored /\ Guest.imp = NoOne
  BY <1>1 DEF RecInv, IInv, TypeOK, Own, CopiesAgree, None, Guest, ImpersonationAssumption
<1>4. ~Fresh(x) /\ x.id <= used /\ (x.pc = "start" => x.id # None)
  BY <1>2, <1>3 DEF Fresh
<1>5. Stops(x) => Lives(x.id) /\ x.pay = sess[x.id]
  BY <1>1, <1>2 DEF Stops, Lives, Loaded
<1>6. x.id \in stored' => x.pay = sess[x.id]
  BY <1>1, <1>2, <1>3 DEF Loaded
<1> QED BY <1>1, <1>2, <1>4, <1>5, <1>6, OwnMoves, RecordMoves DEF RecInv, logVars

\* A refused start writes back what it has loaded.
LEMMA RefuseRec ==
  ASSUME ImpersonationAssumption, RecInv, NEW q \in Requests, Refuse(q)
  PROVE  Own' /\ StaleSelected' /\ OnRecord'
<1> DEFINE x == [Idle EXCEPT !.pc = "finish", !.id = req[q].id, !.pay = req[q].pay]
<1>1. /\ req[q].pc = "start" /\ req' = [req EXCEPT ![q] = x]
      /\ UNCHANGED <<now, logVars, used, stored, sess, todo, faults>>
  BY DEF Refuse, Leave, sessVars
<1>2. x.id = req[q].id /\ x.pay = req[q].pay /\ x.pc = "finish"
  BY DEF Idle
<1> HIDE DEF x
<1>3. x.id <= used /\ x.id # None /\ (x.id \in stored => x.pay = sess[x.id])
  <2>1. CopiesAgree
    BY DEF RecInv, Own
  <2> QED BY <1>1, <1>2, <2>1 DEF CopiesAgree
<1>4. ~Fresh(x) /\ ~Stops(x) /\ x.pc # "start"
  BY <1>2, <1>3 DEF Fresh, Stops
<1> QED BY <1>1, <1>2, <1>3, <1>4, OwnMoves, RecordMoves DEF RecInv, logVars

\* Auth::login: the impersonation is stored by no session until the request ends.
LEMMA StartLoginRec ==
  ASSUME ImpersonationAssumption, RecInv, NEW q \in Requests, StartLogin(q)
  PROVE  Own' /\ StaleSelected' /\ OnRecord'
<1> DEFINE x == [Idle EXCEPT !.pc = "finish", !.id = None,
                   !.pay = [req[q].pay EXCEPT !.user = req[q].target]]
<1>1. /\ req[q].pc = "begin" /\ req' = [req EXCEPT ![q] = x]
      /\ stored' \subseteq stored
      /\ UNCHANGED <<now, logVars, used, sess, todo, faults>>
  BY DEF StartLogin, Migrate, Leave
<1>2. req[q].pay \in Payload
  BY LoadedTypes DEF RecInv, IInv
<1>3. /\ x.id = None /\ x.pc = "finish" /\ x.pay.log = req[q].pay.log
      /\ x.pay.since = req[q].pay.since
  BY <1>2 DEF Idle, Payload
<1> HIDE DEF x
<1>4. x.id <= used /\ x.id \notin stored'
  BY <1>1, <1>3 DEF RecInv, Own, CopiesAgree, IInv, TypeOK, None, ImpersonationAssumption
<1>5. Fresh(req[q]) /\ ~Stops(x) /\ x.pc # "start"
  BY <1>1, <1>3 DEF Fresh, Stops
<1> QED BY <1>1, <1>3, <1>4, <1>5, OwnMoves, RecordMoves DEF RecInv, logVars

\* A stop goes on; at its end its session is deleted.
LEMMA StopReadRec ==
  ASSUME ImpersonationAssumption, RecInv, NEW q \in Requests, StopRead(q)
  PROVE  Own' /\ StaleSelected' /\ OnRecord'
<1> DEFINE x == [req[q] EXCEPT !.pc = "close", !.at = now,
                   !.seen = log[req[q].pay.log].open]
<1>1. /\ req[q].pc = "stop" /\ req' = [req EXCEPT ![q] = x]
      /\ UNCHANGED <<now, logVars, used, stored, sess, todo, faults>>
  BY DEF StopRead, sessVars
<1>2. req[q] \in RequestRecord
  BY LoadedTypes DEF RecInv, IInv
<1>3. x.id = req[q].id /\ x.pay = req[q].pay /\ x.pc = "close"
  BY <1>2 DEF RequestRecord
<1> HIDE DEF x
<1>4. x.id <= used /\ (x.id \in stored => x.pay = sess[x.id])
  <2>1. CopiesAgree
    BY DEF RecInv, Own
  <2> QED BY <1>1, <1>3, <2>1 DEF CopiesAgree
<1>5. ~Fresh(x) /\ Stops(req[q]) /\ x.pc # "start"
  BY <1>1, <1>3 DEF Fresh, Stops
<1> QED BY <1>1, <1>3, <1>4, <1>5, OwnMoves, RecordMoves DEF RecInv, logVars

LEMMA StopSwitchRec ==
  ASSUME ImpersonationAssumption, RecInv, NEW q \in Requests, StopSwitch(q)
  PROVE  Own' /\ StaleSelected' /\ OnRecord'
<1>1. /\ req[q].pc = "switch" /\ req[q].pay \in Payload
      /\ UNCHANGED <<now, logVars, used, sess, todo, faults>>
  BY LoadedTypes DEF RecInv, IInv, StopSwitch
<1>2. PICK s \in {Guest, Restored(req[q].pay), LoggedOut(req[q].pay)} :
        Migrate(q, req[q].id, s)
  BY DEF StopSwitch
<1> DEFINE x == [Idle EXCEPT !.pc = "finish", !.id = None, !.pay = s]
<1>3. /\ req' = [req EXCEPT ![q] = x]
      /\ stored' \subseteq stored /\ req[q].id \notin stored'
  BY <1>2 DEF Migrate, Leave
<1>4. x.id = None /\ x.pc = "finish" /\ x.pay = s
  BY DEF Idle
<1>5. s.imp = NoOne
  BY <1>2 DEF Restored, LoggedOut, Guest
<1> HIDE DEF x
<1>6. x.id <= used /\ x.id \notin stored'
  BY <1>3, <1>4 DEF RecInv, Own, CopiesAgree, IInv, TypeOK, None, ImpersonationAssumption
<1>7. ~Fresh(x) /\ ~Stops(x) /\ x.pc # "start"
  BY <1>4, <1>5 DEF Fresh, Stops
<1> QED BY <1>1, <1>3, <1>6, <1>7, OwnMoves, RecordMoves DEF RecInv, logVars

LEMMA DieRec ==
  ASSUME ImpersonationAssumption, RecInv, NEW q \in Requests, Die(q)
  PROVE  Own' /\ StaleSelected' /\ OnRecord'
<1>1. /\ req' = [req EXCEPT ![q] = Idle] /\ faults' # 0
      /\ UNCHANGED <<now, logVars, used, stored, sess, todo>>
  BY DEF Die, RecInv, IInv, TypeOK, sessVars, ImpersonationAssumption
<1>2. /\ Idle.id = None /\ ~Fresh(Idle) /\ ~Stops(Idle) /\ Idle.pc # "start"
  BY DEF Idle, Fresh, Stops
<1>3. Idle.id <= used /\ Idle.id \notin stored
  BY <1>2 DEF RecInv, Own, CopiesAgree, IInv, TypeOK, None, ImpersonationAssumption
<1> QED BY <1>1, <1>2, <1>3, OwnMoves, RecordMoves DEF RecInv, logVars

-----------------------------------------------------------------------------
(* The steps that write logs, store new sessions or let time pass.         *)

\* Whoever holds an impersonation names a log, which began when it did.
LEMMA NamedLogs ==
  ASSUME IInv
  PROVE  /\ \A i \in SessIds : sess[i].imp # NoOne =>
              sess[i].log \in 1..logs /\ log[sess[i].log].started = sess[i].since
         /\ \A r \in Requests : Fresh(req[r]) \/ Stops(req[r]) =>
              /\ req[r].pay.log \in 1..logs
              /\ log[req[r].pay.log].started = req[r].pay.since
  BY DEF IInv, Fits, SessFits, ReqFits, OnLog, Fresh, Stops

LEMMA StartLogRec ==
  ASSUME ImpersonationAssumption, RecInv, NEW q \in Requests, StartLog(q)
  PROVE  Own' /\ StaleSelected' /\ OnRecord'
<1>1. /\ IInv /\ TypeOK /\ Own /\ StaleSelected /\ OnRecord /\ LogsFit
      /\ req[q].pc = "start" /\ logs < MaxLogs /\ logs \in Nat /\ MaxLogs \in Nat
      /\ UNCHANGED <<now, used, stored, sess, todo, faults>>
  BY DEF ImpersonationAssumption, RecInv, IInv, StartLog, TypeOK, sessVars
<1>2. PICK x \in RequestRecord, entry \in LogRecord :
        /\ x.pc = "begin" /\ x.id = req[q].id /\ x.pay.log = logs + 1
        /\ entry.open
        /\ req' = [req EXCEPT ![q] = x]
        /\ log' = [log EXCEPT ![logs + 1] = entry]
  BY <1>1, StartLogWrites
<1>3. log'[logs + 1] = entry /\ \A l \in 1..logs : log'[l] = log[l] /\ l # logs + 1
  BY <1>1, <1>2 DEF TypeOK, LogIds
<1>4. /\ req'[q] = x /\ \A r \in Requests : r # q => req'[r] = req[r]
      /\ Fresh(x) /\ ~Stops(x) /\ ~Fresh(req[q])
  BY <1>1, <1>2 DEF TypeOK, Fresh, Stops
<1>5. CopiesAgree'
  BY <1>1, <1>2, <1>4 DEF Own, CopiesAgree
<1>6. OneSessionPerLog'
  <2>1. \A i, j \in SessIds :
          Lives(i)' /\ Lives(j)' /\ sess'[i].log = sess'[j].log => i = j
    BY <1>1 DEF Own, OneSessionPerLog, Lives
  <2>2. \A i \in SessIds, r \in Requests :
          Lives(i)' /\ Fresh(req'[r]) => sess'[i].log # req'[r].pay.log
    BY <1>1, <1>2, <1>3, <1>4, NamedLogs DEF Own, OneSessionPerLog, Lives
  <2>3. \A r, s \in Requests :
          Fresh(req'[r]) /\ Fresh(req'[s]) /\ req'[r].pay.log = req'[s].pay.log => r = s
    BY <1>1, <1>2, <1>3, <1>4, NamedLogs DEF Own, OneSessionPerLog
  <2> QED BY <2>1, <2>2, <2>3 DEF OneSessionPerLog, Fresh
<1>7. StopsOwnLog'
  <2>1. ASSUME NEW r \in Requests, Stops(req'[r])
        PROVE  /\ \A i \in SessIds :
                    Lives(i)' /\ sess'[i].log = req'[r].pay.log => i = req'[r].id
               /\ \A s \in Requests : Fresh(req'[s]) => req'[s].pay.log # req'[r].pay.log
    BY <1>1, <1>2, <1>3, <1>4, <2>1, NamedLogs DEF Own, StopsOwnLog, Lives
  <2> QED BY <2>1 DEF StopsOwnLog, Stops, Fresh
<1>8. StaleSelected'
  BY <1>1, <1>3 DEF StaleSelected, LogsFit, Overdue
<1>9. ASSUME faults' = 0
      PROVE  /\ \A i \in SessIds :
                  Lives(i)' /\ ~Overdue(sess[i].since) /\ ~Ending(i)' => log'[sess[i].log].open
             /\ \A r \in Requests :
                  Fresh(req'[r]) /\ ~Overdue(req'[r].pay.since) => log'[req'[r].pay.log].open
  <2>1. \A i \in SessIds : Ending(i) => Ending(i)'
    BY <1>1, <1>4 DEF Ending
  <2>2. \A i \in SessIds :
          Lives(i)' /\ ~Overdue(sess[i].since) /\ ~Ending(i)' => log'[sess[i].log].open
    BY <1>1, <1>3, <1>9, <2>1, NamedLogs DEF OnRecord, Lives
  <2>3. \A r \in Requests :
          Fresh(req'[r]) /\ ~Overdue(req'[r].pay.since) => log'[req'[r].pay.log].open
    BY <1>1, <1>2, <1>3, <1>4, <1>9, NamedLogs DEF OnRecord
  <2> QED BY <2>2, <2>3
<1>10. OnRecord'
  BY <1>1, <1>9 DEF OnRecord, Overdue, Fresh
<1> QED BY <1>5, <1>6, <1>7, <1>8, <1>10 DEF Own

\* A stop closes the log of its own session, which is ending.
LEMMA StopWriteRec ==
  ASSUME ImpersonationAssumption, RecInv, NEW q \in Requests, StopWrite(q)
  PROVE  Own' /\ StaleSelected' /\ OnRecord'
<1> DEFINE x == [req[q] EXCEPT !.pc = "switch"]
           l == req[q].pay.log
<1>1. /\ IInv /\ TypeOK /\ Own /\ StaleSelected /\ OnRecord /\ LogsFit
      /\ req[q].pc = "close" /\ req[q] \in RequestRecord
      /\ UNCHANGED <<now, logs, used, stored, sess, todo, faults>>
  BY LoadedTypes DEF RecInv, IInv, StopWrite, sessVars
<1>2. x.id = req[q].id /\ x.pay = req[q].pay /\ x.pc = "switch"
  BY <1>1 DEF RequestRecord
<1>3. req' = [req EXCEPT ![q] = x]
  BY <1>1 DEF StopWrite, GoTo, RequestRecord
<1>4. /\ l \in 1..logs
      /\ \A k \in 1..logs : /\ log'[k].started = log[k].started
                            /\ k # l => log'[k] = log[k]
  <2>1. l \in 1..logs
    BY <1>1, NamedLogs DEF Stops
  <2>2. \A k \in 1..logs : k \in LogIds
    BY <1>1 DEF ImpersonationAssumption, TypeOK, LogIds
  <2>3. \A k \in 1..logs : log[k] \in LogRecord
    BY <1>1, <2>2 DEF TypeOK
  <2> QED BY <1>1, <2>1, <2>2, <2>3 DEF StopWrite, TypeOK, LogRecord
<1> HIDE DEF x
<1>5. Own'
  <2>1. x.id <= used /\ (x.id \in stored => x.pay = sess[x.id])
    BY <1>1, <1>2 DEF Own, CopiesAgree
  <2>2. ~Fresh(x) /\ Stops(req[q]) /\ x.pc # "start"
    BY <1>1, <1>2 DEF Fresh, Stops
  <2> QED BY <1>1, <1>2, <1>3, <2>1, <2>2, OwnMoves
<1>6. StaleSelected'
  BY <1>1, <1>4 DEF StaleSelected, LogsFit, Overdue
<1>7. /\ req'[q] = x /\ \A r \in Requests : r # q => req'[r] = req[r]
      /\ ~Fresh(x)
  BY <1>1, <1>2, <1>3 DEF TypeOK, Fresh
<1>8. ASSUME faults' = 0
      PROVE  /\ \A i \in SessIds :
                  Lives(i)' /\ ~Overdue(sess[i].since) /\ ~Ending(i)' => log'[sess[i].log].open
             /\ \A r \in Requests :
                  Fresh(req'[r]) /\ ~Overdue(req'[r].pay.since) => log'[req'[r].pay.log].open
  <2>1. \A i \in SessIds : Ending(i) => Ending(i)'
    BY <1>1, <1>7 DEF Ending
  <2>2. \A i \in SessIds : i = req[q].id => Ending(i)'
    BY <1>2, <1>7 DEF Ending
  <2>3. \A i \in SessIds : Lives(i)' /\ ~Ending(i)' =>
          sess[i].log \in 1..logs /\ sess[i].log # l
    BY <1>1, <2>2, NamedLogs DEF Own, StopsOwnLog, Stops, Lives
  <2>4. \A r \in Requests : Fresh(req'[r]) =>
          req'[r] = req[r] /\ req[r].pay.log \in 1..logs /\ req[r].pay.log # l
    BY <1>1, <1>7, NamedLogs DEF Own, StopsOwnLog, Stops
  <2> QED BY <1>1, <1>4, <1>8, <2>1, <2>3, <2>4 DEF OnRecord, Lives
<1>9. OnRecord'
  BY <1>1, <1>8 DEF OnRecord, Overdue, Fresh
<1> QED BY <1>5, <1>6, <1>9

\* A new session: of nobody impersonating, or the one a request has held.
LEMMA NewSession ==
  ASSUME ImpersonationAssumption, RecInv, NEW s, used + 1 \in SessIds,
         used' = used + 1, stored' = stored \cup {used + 1},
         sess' = [sess EXCEPT ![used + 1] = s], UNCHANGED <<now, log, todo, faults>>,
         \A r \in Requests : \/ req'[r] = req[r]
                             \/ req'[r] = Idle /\ req[r].pc = "finish",
         s.imp # NoOne => \E q \in Requests :
           /\ Fresh(req[q]) /\ req'[q] = Idle
           /\ s.log = req[q].pay.log /\ s.since = req[q].pay.since
  PROVE  Own' /\ StaleSelected' /\ OnRecord'
<1> DEFINE n == used + 1
<1>1. /\ CopiesAgree /\ OneSessionPerLog /\ StopsOwnLog /\ StaleSelected /\ OnRecord
      /\ used \in Nat /\ n \in Nat /\ n > used /\ n \in SessIds
      /\ \A r \in Requests : req[r].id \in Nat
  BY LoadedTypes DEF RecInv, Own, IInv, TypeOK, ImpersonationAssumption
<1>2. Idle.id = 0 /\ ~Fresh(Idle) /\ ~Stops(Idle) /\ Idle.pc = "idle"
  BY DEF Idle, Fresh, Stops, None
<1>3. n \notin stored /\ stored \subseteq 1..used
  BY <1>1 DEF CopiesAgree
<1>4. sess'[n] = s /\ \A i \in SessIds : i # n => sess'[i] = sess[i]
  BY <1>1 DEF RecInv, IInv, TypeOK
<1> HIDE DEF n
<1>5. stored' = stored \cup {n} /\ used' = n
  BY DEF n
<1>6. \A i \in SessIds : Lives(i)' => (i = n /\ s.imp # NoOne) \/ (i # n /\ Lives(i))
  BY <1>4, <1>5 DEF Lives
<1>7. \A r \in Requests : Fresh(req'[r]) \/ Stops(req'[r]) => req'[r] = req[r]
  BY <1>2
<1>8. CopiesAgree'
  <2>1. stored' \subseteq 1..used'
    BY <1>1, <1>3, <1>5
  <2>2. \A r \in Requests : /\ req'[r].id <= used'
                            /\ req'[r].pc = "start" => req'[r].id # None
    BY <1>1, <1>2, <1>5 DEF CopiesAgree
  <2>3. ASSUME NEW r \in Requests, req'[r].id \in stored', req'[r].pc # "begin"
        PROVE  req'[r].pay = sess'[req'[r].id]
    <3>1. req'[r].id # 0
      BY <1>1, <1>3, <1>5, <2>3
    <3>2. req'[r] = req[r]
      BY <1>2, <3>1
    <3>3. req[r].id # n /\ req[r].id \in stored
      BY <1>1, <1>5, <2>3, <3>2 DEF CopiesAgree
    <3>4. req[r].id \in SessIds
      BY <3>3 DEF RecInv, IInv, TypeOK
    <3> QED BY <1>1, <1>4, <2>3, <3>2, <3>3, <3>4 DEF CopiesAgree
  <2> QED BY <2>1, <2>2, <2>3 DEF CopiesAgree
<1>9. OneSessionPerLog'
  <2>1. ASSUME NEW i \in SessIds, NEW j \in SessIds, Lives(i)', Lives(j)',
               sess'[i].log = sess'[j].log
        PROVE  i = j
    \* The log of a session that was there is not the one the request has held.
    <3>1. ASSUME NEW k \in SessIds, k # n, Lives(k)', s.imp # NoOne
          PROVE  sess'[k].log # s.log
      <4>1. PICK q \in Requests : Fresh(req[q]) /\ s.log = req[q].pay.log
        BY <3>1
      <4>2. Lives(k) /\ sess'[k] = sess[k]
        BY <1>4, <1>6, <3>1
      <4> QED BY <1>1, <4>1, <4>2 DEF OneSessionPerLog
    <3>2. CASE i = n
      BY <1>4, <1>6, <2>1, <3>1, <3>2
    <3>3. CASE j = n
      BY <1>4, <1>6, <2>1, <3>1, <3>3
    <3>4. CASE i # n /\ j # n
      BY <1>1, <1>4, <1>6, <2>1, <3>4 DEF OneSessionPerLog
    <3> QED BY <3>2, <3>3, <3>4
  <2>2. ASSUME NEW i \in SessIds, NEW r \in Requests, Lives(i)', Fresh(req'[r])
        PROVE  sess'[i].log # req'[r].pay.log
    BY <1>1, <1>2, <1>4, <1>6, <1>7, <2>2 DEF OneSessionPerLog
  <2>3. \A r, u \in Requests :
          Fresh(req'[r]) /\ Fresh(req'[u]) /\ req'[r].pay.log = req'[u].pay.log => r = u
    BY <1>1, <1>7 DEF OneSessionPerLog
  <2> QED BY <2>1, <2>2, <2>3 DEF OneSessionPerLog, Fresh
<1>10. StopsOwnLog'
  <2>1. ASSUME NEW r \in Requests, Stops(req'[r])
        PROVE  /\ \A i \in SessIds :
                    Lives(i)' /\ sess'[i].log = req'[r].pay.log => i = req'[r].id
               /\ \A u \in Requests : Fresh(req'[u]) => req'[u].pay.log # req'[r].pay.log
    BY <1>1, <1>4, <1>6, <1>7, <2>1 DEF StopsOwnLog
  <2> QED BY <2>1 DEF StopsOwnLog, Stops, Fresh
<1>11. StaleSelected'
  BY <1>1 DEF StaleSelected, Overdue
<1>12. ASSUME faults' = 0
       PROVE  /\ \A i \in SessIds :
                   Lives(i)' /\ ~Overdue(sess'[i].since) /\ ~Ending(i)'
                     => log[sess'[i].log].open
              /\ \A r \in Requests :
                   Fresh(req'[r]) /\ ~Overdue(req'[r].pay.since) => log[req'[r].pay.log].open
  <2>1. \A i \in SessIds : Ending(i) => Ending(i)'
    BY DEF Ending
  <2> QED BY <1>1, <1>4, <1>6, <1>7, <1>12, <2>1 DEF OnRecord
<1>13. OnRecord'
  BY <1>12 DEF OnRecord, Overdue, Fresh
<1> QED BY <1>8, <1>9, <1>10, <1>11, <1>13 DEF Own

LEMMA LoginRec ==
  ASSUME ImpersonationAssumption, RecInv, Login
  PROVE  Own' /\ StaleSelected' /\ OnRecord'
<1> DEFINE s == [Guest EXCEPT !.user = Admin]
<1>1. used + 1 \in SessIds
  <2>1. IsFiniteSet(Busy)
    BY FS_Subset DEF ImpersonationAssumption, Busy
  <2>2. Cardinality(Busy) \in Nat /\ used + Cardinality(Busy) < MaxSess
    BY <2>1, FS_CardinalityType DEF Login, RoomForAnId, Busy
  <2> QED BY <2>2 DEF RecInv, IInv, TypeOK, SessIds, ImpersonationAssumption
<1>2. s.imp = NoOne
  BY DEF Guest
<1>3. /\ used' = used + 1 /\ stored' = stored \cup {used + 1}
      /\ sess' = [sess EXCEPT ![used + 1] = s]
      /\ UNCHANGED <<now, logVars, req, todo, faults>>
  BY DEF Login
<1> HIDE DEF s
<1> QED BY <1>1, <1>2, <1>3, NewSession DEF logVars

\* A session is written back as it was loaded, if it is still there, or is new.
LEMMA FinishRec ==
  ASSUME ImpersonationAssumption, RecInv, NEW q \in Requests, Finish(q)
  PROVE  Own' /\ StaleSelected' /\ OnRecord'
<1>1. /\ IInv /\ TypeOK /\ Own /\ req[q].pc = "finish"
      /\ req' = [req EXCEPT ![q] = Idle]
      /\ UNCHANGED <<now, logVars, todo, faults>>
      /\ stored \in SUBSET SessIds
  BY DEF RecInv, IInv, TypeOK, Finish
<1>2. /\ Idle.id = None /\ ~Fresh(Idle) /\ ~Stops(Idle) /\ Idle.pc # "start"
      /\ Idle.id <= used /\ Idle.id \notin stored
  BY <1>1 DEF Idle, Fresh, Stops, Own, CopiesAgree, TypeOK, None, ImpersonationAssumption
<1>3. CASE UNCHANGED <<used, stored, sess>>
  BY <1>1, <1>2, <1>3, OwnMoves, RecordMoves DEF RecInv, logVars
<1>4. CASE req[q].id # None
  <2>1. used' = used /\ stored' = stored
    BY <1>1, <1>4 DEF Finish, Updates
  <2>2. sess' = sess
    <3>1. CASE req[q].id \in stored
      <4>1. req[q].pay = sess[req[q].id]
        BY <1>1, <3>1 DEF Own, CopiesAgree
      <4>2. sess' = [sess EXCEPT ![req[q].id] = sess[req[q].id]]
        BY <1>4, <3>1, <4>1 DEF Finish, Updates
      <4> QED BY <1>1, <4>2 DEF TypeOK
    <3>2. CASE req[q].id \notin stored
      BY <1>4, <3>2 DEF Finish, Updates
    <3> QED BY <3>1, <3>2
  <2> QED BY <1>3, <2>1, <2>2
<1>5. CASE req[q].id = None /\ req[q].pay # Guest
  <2>1. used + 1 \in SessIds
    BY <1>1, RoomEnds DEF Finish, IInv
  <2>2. /\ used' = used + 1 /\ stored' = stored \cup {used + 1}
        /\ sess' = [sess EXCEPT ![used + 1] = req[q].pay]
    BY <1>5 DEF Finish
  <2>3. req'[q] = Idle /\ \A r \in Requests : r # q => req'[r] = req[r]
    BY <1>1 DEF TypeOK
  <2>4. req[q].pay.imp # NoOne => Fresh(req[q])
    BY <1>1, <1>5 DEF Fresh
  <2> QED BY <1>1, <2>1, <2>2, <2>3, <2>4, NewSession DEF logVars
<1>6. CASE req[q].id = None /\ req[q].pay = Guest
  BY <1>3, <1>6 DEF Finish
<1> QED BY <1>4, <1>5, <1>6

\* The steps that leave requests and sessions alone, and close overdue logs only.
LEMMA OthersRec ==
  ASSUME RecInv, UNCHANGED <<logs, used, stored, sess, req>>,
         now \in Nat, now' \in Nat, now' >= now, Timeout \in Nat,
         \A k \in 1..logs : /\ log'[k].started = log[k].started
                            /\ log[k].started \in Nat
                            /\ log'[k].open = log[k].open \/ Overdue(log[k].started),
         \A k \in todo' : k \in 1..logs /\ (k \in todo \/ Overdue(log[k].started)),
         faults' = faults \/ faults' # 0
  PROVE  Own' /\ StaleSelected' /\ OnRecord'
<1>1. Own /\ StaleSelected /\ OnRecord /\ IInv
  BY DEF RecInv
<1>2. Own'
  BY <1>1 DEF Own, CopiesAgree, OneSessionPerLog, StopsOwnLog, Lives, Fresh, Stops
<1>3. \A t \in Nat : Overdue(t) => Overdue(t)'
  BY DEF Overdue
<1>4. StaleSelected'
  <2>1. \A k \in todo' : Overdue(log[k].started)
    BY <1>1 DEF StaleSelected
  <2>2. \A k \in todo' : log'[k].started + Timeout < now'
    BY <2>1 DEF Overdue
  <2> QED BY <2>2 DEF StaleSelected, Overdue
<1>5. ASSUME faults' = 0
      PROVE  /\ \A i \in SessIds :
                  Lives(i) /\ ~(sess[i].since + Timeout < now') /\ ~Ending(i)
                    => log'[sess[i].log].open
             /\ \A r \in Requests :
                  Fresh(req[r]) /\ ~(req[r].pay.since + Timeout < now')
                    => log'[req[r].pay.log].open
  <2>1. faults = 0
    BY <1>5
  <2>2. ASSUME NEW i \in SessIds, Lives(i), ~(sess[i].since + Timeout < now'), ~Ending(i)
        PROVE  log'[sess[i].log].open
    <3>1. sess[i].log \in 1..logs /\ log[sess[i].log].started = sess[i].since
      BY <1>1, <2>2, NamedLogs DEF Lives
    <3>2. ~Overdue(sess[i].since)
      BY <2>2, <3>1 DEF Overdue
    <3> QED BY <1>1, <2>1, <2>2, <3>1, <3>2 DEF OnRecord
  <2>3. ASSUME NEW r \in Requests, Fresh(req[r]), ~(req[r].pay.since + Timeout < now')
        PROVE  log'[req[r].pay.log].open
    <3>1. req[r].pay.log \in 1..logs /\ log[req[r].pay.log].started = req[r].pay.since
      BY <1>1, <2>3, NamedLogs
    <3>2. ~Overdue(req[r].pay.since)
      BY <2>3, <3>1 DEF Overdue
    <3> QED BY <1>1, <2>1, <2>3, <3>1, <3>2 DEF OnRecord
  <2> QED BY <2>2, <2>3
<1>6. OnRecord'
  BY <1>5 DEF OnRecord, Overdue, Lives, Fresh, Ending
<1> QED BY <1>2, <1>4, <1>6

LEMMA StartTypes ==
  ASSUME ImpersonationAssumption, IInv
  PROVE  /\ now \in Nat /\ Timeout \in Nat /\ todo \subseteq 1..logs
         /\ \A k \in 1..logs : log[k] \in LogRecord /\ log[k].started \in Nat
  BY DEF ImpersonationAssumption, IInv, TypeOK, LogIds, LogRecord, LogsFit

LEMMA SweepRec ==
  ASSUME ImpersonationAssumption, RecInv, SweepStep
  PROVE  Own' /\ StaleSelected' /\ OnRecord'
<1>1. /\ IInv /\ StaleSelected /\ now \in Nat /\ Timeout \in Nat /\ todo \subseteq 1..logs
      /\ \A k \in 1..logs : log[k] \in LogRecord /\ log[k].started \in Nat
  BY StartTypes DEF RecInv
<1>2. CASE SelectStale
  <2>1. /\ UNCHANGED <<now, logVars, used, stored, sess, req, faults>>
        /\ \A k \in todo' : k \in 1..logs /\ Overdue(log[k].started)
    BY <1>2 DEF SelectStale, Stale, Overdue, sessVars
  <2> QED BY <1>1, <2>1, OthersRec DEF logVars
<1>3. ASSUME NEW l \in LogIds, CloseStale(l)
      PROVE  Own' /\ StaleSelected' /\ OnRecord'
  <2>1. /\ UNCHANGED <<now, logs, used, stored, sess, req, faults>>
        /\ todo' \subseteq todo /\ l \in todo
    BY <1>3 DEF CloseStale, sessVars
  <2>2. \A k \in 1..logs : /\ log'[k].started = log[k].started
                           /\ k # l => log'[k] = log[k]
    BY <1>1, <1>3 DEF CloseStale, IInv, TypeOK, LogRecord
  <2>3. Overdue(log[l].started)
    BY <1>1, <2>1 DEF StaleSelected
  <2> QED BY <1>1, <2>1, <2>2, <2>3, OthersRec
<1> QED BY <1>2, <1>3 DEF SweepStep

LEMMA EnvironmentRec ==
  ASSUME ImpersonationAssumption, RecInv,
         AccountStep \/ Tick \/ KillSweep \/ UNCHANGED vars
  PROVE  Own' /\ StaleSelected' /\ OnRecord'
<1>1. /\ IInv /\ now \in Nat /\ Timeout \in Nat /\ todo \subseteq 1..logs
      /\ \A k \in 1..logs : log[k] \in LogRecord /\ log[k].started \in Nat
      /\ faults \in Nat
  BY StartTypes DEF RecInv, IInv, TypeOK, ImpersonationAssumption
<1>2. /\ UNCHANGED <<logVars, used, stored, sess, req>>
      /\ todo' \subseteq todo /\ now' \in {now, now + 1} /\ faults' \in {faults, faults + 1}
  BY DEF AccountStep, Deactivate, Reactivate, Promote, Tick, KillSweep, vars, sessVars
<1> QED BY <1>1, <1>2, OthersRec DEF logVars

LEMMA RecNext ==
  ASSUME ImpersonationAssumption, RecInv, [Next]_vars
  PROVE  RecInv'
<1>1. IInv'
  BY NextInv DEF RecInv
<1>2. Own' /\ StaleSelected' /\ OnRecord'
  <2>1. CASE Login
    BY <2>1, LoginRec
  <2>2. ASSUME NEW q \in Requests, RequestStep(q)
        PROVE  Own' /\ StaleSelected' /\ OnRecord'
    BY <2>2, ArriveRec, StartLogRec, RefuseRec, StartLoginRec, StopReadRec,
       StopWriteRec, StopSwitchRec, FinishRec, DieRec DEF RequestStep
  <2>3. CASE SweepStep
    BY <2>3, SweepRec
  <2>4. CASE AccountStep \/ Tick \/ KillSweep \/ UNCHANGED vars
    BY <2>4, EnvironmentRec
  <2> QED BY <2>1, <2>2, <2>3, <2>4 DEF Next
<1> QED BY <1>1, <1>2 DEF RecInv

LEMMA RecInit == ImpersonationAssumption /\ Init => RecInv
<1> SUFFICES ASSUME ImpersonationAssumption, Init
             PROVE  RecInv
  OBVIOUS
<1>1. Idle.id = 0 /\ ~Fresh(Idle) /\ ~Stops(Idle)
  BY DEF Idle, Fresh, Stops, None
<1>2. Own
  <2>1. /\ stored = {} /\ used = 0
        /\ \A q \in Requests : req[q] = Idle
        /\ Idle.pc = "idle"
    BY DEF Init, Idle
  <2>2. \A i : ~Lives(i)
    BY <2>1 DEF Lives
  <2>3. \A q \in Requests : /\ req[q].id = 0 /\ req[q].pc = "idle"
                            /\ ~Fresh(req[q]) /\ ~Stops(req[q])
    BY <1>1, <2>1
  <2>4. CopiesAgree
    <3>1. stored \subseteq 1..used
      BY <2>1
    <3>2. \A q \in Requests : /\ req[q].id <= used
                              /\ req[q].pc = "start" => req[q].id # None
      BY <2>1, <2>3
    <3>3. \A q \in Requests : req[q].id \notin stored
      BY <2>1
    <3>4. \A q \in Requests : req[q].id \in stored /\ req[q].pc # "begin" =>
            req[q].pay = sess[req[q].id]
      BY <3>3
    <3> QED BY <3>1, <3>2, <3>4 DEF CopiesAgree
  <2>5. OneSessionPerLog
    BY <2>2, <2>3 DEF OneSessionPerLog
  <2>6. StopsOwnLog
    BY <2>3 DEF StopsOwnLog
  <2> QED BY <2>4, <2>5, <2>6 DEF Own
<1>3. StaleSelected /\ OnRecord
  BY <1>1 DEF Init, StaleSelected, OnRecord, Lives
<1> QED BY <1>2, <1>3, InitInv DEF RecInv

\* BR-016: while nobody has died, a session in which an impersonation goes on,
\* within its time, has an open log, or a stop is about to delete it: neither an
\* overlapping stop, nor the sweep, nor a page that writes its copy back leaves
\* an impersonation off the record.
THEOREM ImpersonationsAreOnRecord == Spec => []LiveSessionsAreOnRecord
<1>1. Init => RecInv
  BY RecInit, ImpersonationAssumption
<1>2. RecInv /\ [Next]_vars => RecInv'
  BY RecNext, ImpersonationAssumption
<1>3. RecInv => LiveSessionsAreOnRecord
  BY DEF RecInv, IInv, TypeOK, OnRecord, Lives, LiveSessionsAreOnRecord
<1> QED BY <1>1, <1>2, <1>3, PTL DEF Spec

-----------------------------------------------------------------------------
(* Ending an account (AccountErasure).                                     *)

LoadedTargets == \A r \in Calls : call[r].pc # "idle" => call[r].target \in Users

ScrubbedSelects ==
  \A r \in Calls :
    call[r].pc = "scrubbed" =>
      call[r].erased \subseteq ProfilesToErase(call[r].target)

ErasureInv == AccountTypeOK /\ LoadedTargets /\ ScrubbedSelects /\ EveryErasureIsLogged

-----------------------------------------------------------------------------
(* Helpers                                                                 *)

\* AnonymizeUser selects existing profiles only.
LEMMA SelectedAreProfiles == \A t : ProfilesToErase(t) \subseteq Profiles
  BY DEF ProfilesToErase

\* A profile AnonymizeUser selects belongs to the target, or has no other
\* guardian than the target.
LEMMA SelectedIsSole ==
  ASSUME NEW t \in Users, NEW p \in ProfilesToErase(t)
  PROVE  Owner[p] = t \/ Guardians[p] = {t}
<1>1. CASE Owner[p] = t
  BY <1>1
<1>2. CASE Owner[p] # t
  <2>1. p \in Profiles /\ t \in Guardians[p] /\ Cardinality(Guardians[p]) = 1
    BY <1>2 DEF ProfilesToErase
  <2>2. IsFiniteSet(Guardians[p])
    BY <2>1, ConstantsAssumption, FS_Subset
  <2>3. \E x : Guardians[p] = {x}
    BY <2>1, <2>2, FS_Singleton
  <2> QED BY <2>1, <2>3
<1> QED BY <1>1, <1>2

\* A request that is replaced by a well-formed one leaves the others alone.
LEMMA OneRequestChanges ==
  ASSUME NEW r \in Calls, NEW x \in CallRecord,
         call \in [Calls -> CallRecord], LoadedTargets, ScrubbedSelects,
         call' = [call EXCEPT ![r] = x],
         x.pc # "idle" => x.target \in Users,
         x.pc = "scrubbed" => x.erased \subseteq ProfilesToErase(x.target)
  PROVE  call' \in [Calls -> CallRecord] /\ LoadedTargets' /\ ScrubbedSelects'
<1>1. call' \in [Calls -> CallRecord]
  OBVIOUS
<1>2. \A q \in Calls : call'[q] = IF q = r THEN x ELSE call[q]
  OBVIOUS
<1>3. LoadedTargets'
  BY <1>2 DEF LoadedTargets
<1>4. ScrubbedSelects'
  BY <1>2 DEF ScrubbedSelects, ProfilesToErase
<1> QED BY <1>1, <1>3, <1>4

\* The record of a request that is over.
LEMMA IdleIsARequest == NoCall \in CallRecord /\ NoCall.pc = "idle"
  BY DEF NoCall, CallRecord, Ops

-----------------------------------------------------------------------------
(* The invariant                                                           *)

\* The initial state satisfies the invariant.
LEMMA ErasureBegins == AccountInit => ErasureInv
<1> SUFFICES ASSUME AccountInit PROVE ErasureInv
  OBVIOUS
<1>1. AccountTypeOK
  BY IdleIsARequest, ConstantsAssumption
     DEF AccountInit, AccountTypeOK, Statuses
<1>2. LoadedTargets /\ ScrubbedSelects
  BY IdleIsARequest DEF AccountInit, LoadedTargets, ScrubbedSelects
<1>3. EveryErasureIsLogged
  BY DEF AccountInit, EveryErasureIsLogged
<1> QED BY <1>1, <1>2, <1>3 DEF ErasureInv

\* Every step preserves it.
LEMMA ErasureGoesOn ==
  ASSUME ErasureInv, [AccountNext]_accountVars
  PROVE  ErasureInv'
<1> USE DEF ErasureInv
<1>1. ASSUME NEW r \in Calls, NEW op \in Ops, NEW a \in Users, NEW t \in Users,
             Begin(r, op, a, t)
      PROVE  ErasureInv'
  <2> DEFINE x == [pc |-> "loaded", op |-> op, target |-> t,
                   dirty |-> status[t] # Wanted(op), erased |-> {}]
  <2>1. x \in CallRecord
    BY DEF CallRecord
  <2>2. call' \in [Calls -> CallRecord] /\ LoadedTargets' /\ ScrubbedSelects'
    <3> HIDE DEF x
    <3>1. call' = [call EXCEPT ![r] = x]
      BY <1>1 DEF Begin, x
    <3>2. x.pc = "loaded" /\ x.target = t
      BY DEF x
    <3> QED BY <2>1, <3>1, <3>2, OneRequestChanges DEF AccountTypeOK
  <2>3. AccountTypeOK' /\ EveryErasureIsLogged'
    BY <1>1, <2>2 DEF Begin, AccountTypeOK, EveryErasureIsLogged
  <2> QED BY <2>2, <2>3
<1>2. ASSUME NEW r \in Calls, Flip(r) PROVE ErasureInv'
  <2>1. call' \in [Calls -> CallRecord] /\ LoadedTargets' /\ ScrubbedSelects'
    BY <1>2, IdleIsARequest, OneRequestChanges DEF Flip, AccountTypeOK
  <2>2. Wanted(call[r].op) \in {"active", "inactive"}
    BY <1>2 DEF Flip, Wanted
  <2>3. status' \in [Users -> Statuses]
    BY <1>2, <2>2 DEF Flip, AccountTypeOK, Statuses
  <2>4. AccountTypeOK'
    BY <1>2, <2>1, <2>3 DEF Flip, AccountTypeOK
  <2>5. \A u \in Users : status'[u] = "deleted" => status[u] = "deleted"
    BY <1>2, <2>2 DEF Flip, AccountTypeOK
  <2>6. EveryErasureIsLogged'
    BY <1>2, <2>5 DEF Flip, EveryErasureIsLogged
  <2> QED BY <2>1, <2>4, <2>6
<1>3. ASSUME NEW r \in Calls, Scrub(r) PROVE ErasureInv'
  <2> DEFINE t == call[r].target
             x == [call[r] EXCEPT !.pc = "scrubbed", !.erased = ProfilesToErase(t)]
  <2>1. call[r] \in CallRecord /\ t \in Users
    BY <1>3 DEF AccountTypeOK, LoadedTargets, Scrub
  <2>2. x \in CallRecord
    BY <2>1, SelectedAreProfiles DEF CallRecord
  <2>3. x.pc = "scrubbed" /\ x.target = t /\ x.erased = ProfilesToErase(t)
    BY <2>1 DEF CallRecord
  <2>4. call' = [call EXCEPT ![r] = x]
    BY <1>3 DEF Scrub
  <2>5. call' \in [Calls -> CallRecord] /\ LoadedTargets' /\ ScrubbedSelects'
    <3> HIDE DEF x
    <3> QED BY <2>1, <2>2, <2>3, <2>4, OneRequestChanges DEF AccountTypeOK
  <2>6. AccountTypeOK' /\ EveryErasureIsLogged'
    BY <1>3, <2>5 DEF Scrub, AccountTypeOK, EveryErasureIsLogged
  <2> QED BY <2>5, <2>6
<1>4. ASSUME NEW r \in Calls, Commit(r) PROVE ErasureInv'
  <2>1. call' \in [Calls -> CallRecord] /\ LoadedTargets' /\ ScrubbedSelects'
    BY <1>4, IdleIsARequest, OneRequestChanges DEF Commit, AccountTypeOK
  <2>2. call[r].target \in Users
    BY <1>4 DEF Commit, LoadedTargets
  <2>3. status' \in [Users -> Statuses] /\ lock' \in [Users -> Calls \cup {Nobody}]
    BY <1>4 DEF Commit, AccountTypeOK, Statuses, Wanted
  <2>4. AccountTypeOK'
    BY <1>4, <2>1, <2>2, <2>3 DEF Commit, AccountTypeOK
  <2>5. EveryErasureIsLogged'
    BY <1>4, <2>2 DEF Commit, AccountTypeOK, EveryErasureIsLogged
  <2> QED BY <2>1, <2>4, <2>5
<1>5. ASSUME NEW r \in Calls, Rollback(r) PROVE ErasureInv'
  <2>1. call' \in [Calls -> CallRecord] /\ LoadedTargets' /\ ScrubbedSelects'
    BY <1>5, IdleIsARequest, OneRequestChanges DEF Rollback, AccountTypeOK
  <2>2. rollbacks' \in 0..MaxRollbacks
    BY <1>5, ConstantsAssumption DEF Rollback, AccountTypeOK
  <2>3. AccountTypeOK' /\ EveryErasureIsLogged'
    BY <1>5, <2>1, <2>2 DEF Rollback, AccountTypeOK, EveryErasureIsLogged
  <2> QED BY <2>1, <2>3
<1>6. ASSUME NEW r \in Calls, NEW e \in Users, NEW t \in Users, SubmitForm(r, e, t)
      PROVE  ErasureInv'
  <2> DEFINE x == [pc |-> "loaded", op |-> "edit", target |-> t, dirty |-> TRUE,
                   erased |-> {}]
  <2>1. x \in CallRecord
    BY DEF CallRecord, Ops
  <2>2. call' \in [Calls -> CallRecord] /\ LoadedTargets' /\ ScrubbedSelects'
    <3> HIDE DEF x
    <3>1. call' = [call EXCEPT ![r] = x]
      BY <1>6 DEF SubmitForm, x
    <3>2. x.pc = "loaded" /\ x.target = t
      BY DEF x
    <3> QED BY <2>1, <3>1, <3>2, OneRequestChanges DEF AccountTypeOK
  <2>3. AccountTypeOK' /\ EveryErasureIsLogged'
    BY <1>6, <2>2 DEF SubmitForm, AccountTypeOK, EveryErasureIsLogged
  <2> QED BY <2>2, <2>3
<1>7. ASSUME NEW r \in Calls, SaveForm(r) PROVE ErasureInv'
  <2>1. call' \in [Calls -> CallRecord] /\ LoadedTargets' /\ ScrubbedSelects'
    BY <1>7, IdleIsARequest, OneRequestChanges DEF SaveForm, AccountTypeOK
  <2>2. AccountTypeOK'
    BY <1>7, <2>1 DEF SaveForm, AccountTypeOK
  <2>3. EveryErasureIsLogged'
    BY <1>7 DEF SaveForm, AccountTypeOK, EveryErasureIsLogged
  <2> QED BY <2>1, <2>2, <2>3
<1>8. ASSUME UNCHANGED <<status, named, profiled, logged, lock, call, rollbacks>>,
             AccountTypeOK'
      PROVE  ErasureInv'
  BY <1>8 DEF LoadedTargets, ScrubbedSelects, ProfilesToErase,
     EveryErasureIsLogged
<1>9. ASSUME NEW e \in Users, NEW t \in Users, OpenForm(e, t) PROVE ErasureInv'
  <2>1. AccountTypeOK'
    BY <1>9 DEF OpenForm, AccountTypeOK
  <2> QED BY <1>8, <1>9, <2>1 DEF OpenForm
<1>10. ASSUME NEW p \in Profiles, Notify(p) PROVE ErasureInv'
  <2>1. \A g \in Guardians[p] : [to |-> g, about |-> p, text |-> "unread"] \in Jobs
    BY ConstantsAssumption DEF Jobs
  <2>2. jobs' \in SUBSET Jobs
    BY <1>10, <2>1 DEF Notify, AccountTypeOK
  <2>3. AccountTypeOK'
    BY <1>10, <2>2 DEF Notify, AccountTypeOK
  <2> QED BY <1>8, <1>10, <2>3 DEF Notify
<1>11. ASSUME NEW j \in jobs, Render(j) PROVE ErasureInv'
  <2>1. j \in Jobs
    BY DEF AccountTypeOK
  <2>2. [j EXCEPT !.text = IF profiled[j.about] THEN "name" ELSE "erased"] \in Jobs
    BY <2>1 DEF Jobs
  <2>3. jobs' \in SUBSET Jobs
    BY <1>11, <2>2 DEF Render, AccountTypeOK
  <2>4. AccountTypeOK'
    BY <1>11, <2>3 DEF Render, AccountTypeOK
  <2> QED BY <1>8, <1>11, <2>4 DEF Render
<1>12. ASSUME NEW j \in jobs, Deliver(j) PROVE ErasureInv'
  <2>1. j \in Jobs /\ j.text # "unread"
    BY <1>12 DEF AccountTypeOK, Deliver
  <2>2. j \in Bells
    BY <2>1 DEF Jobs, Bells
  <2>3. jobs' \in SUBSET Jobs /\ bells' \in SUBSET Bells
    BY <1>12, <2>2 DEF Deliver, AccountTypeOK
  <2>4. AccountTypeOK'
    BY <1>12, <2>3 DEF Deliver, AccountTypeOK
  <2> QED BY <1>8, <1>12, <2>4 DEF Deliver
<1>13. CASE UNCHANGED accountVars
  BY <1>13 DEF accountVars, AccountTypeOK, LoadedTargets, ScrubbedSelects,
     ProfilesToErase, EveryErasureIsLogged
<1> QED
  BY <1>1, <1>2, <1>3, <1>4, <1>5, <1>6, <1>7, <1>9, <1>10, <1>11, <1>12, <1>13
  DEF AccountNext

\* The invariant holds in every state.
LEMMA ErasureInvariant == AccountSpec => []ErasureInv
<1>1. AccountInit => ErasureInv
  BY ErasureBegins
<1>2. ErasureInv /\ [AccountNext]_accountVars => ErasureInv'
  BY ErasureGoesOn
<1> QED BY <1>1, <1>2, PTL DEF AccountSpec

\* The lifecycle of accounts keeps its types (AccountErasure: all variables).
THEOREM ErasureTypes == AccountSpec => []AccountTypeOK
<1>1. ErasureInv => AccountTypeOK
  BY DEF ErasureInv
<1> QED BY <1>1, ErasureInvariant, PTL

\* AnonymizeUser never loses the compliance record: whatever requests overlap
\* or fail, an erased account has its row in user_deletion_logs.
THEOREM ErasuresAreLogged == AccountSpec => []EveryErasureIsLogged
<1>1. ErasureInv => EveryErasureIsLogged
  BY DEF ErasureInv
<1> QED BY <1>1, ErasureInvariant, PTL

-----------------------------------------------------------------------------

\* Gap 6: a step that erases a profile erases its owner or the last guardian it
\* has, so no child loses its data to the erasure of one of two guardians.
LEMMA ErasedWithItsGuardian ==
  ASSUME ErasureInv, [AccountNext]_accountVars,
         NEW p \in Profiles, profiled[p], ~profiled'[p]
  PROVE  \/ Owner[p] \in Users /\ status'[Owner[p]] = "deleted"
         \/ \A g \in Guardians[p] : status'[g] = "deleted"
<1>1. profiled \in [Profiles -> BOOLEAN]
  BY DEF ErasureInv, AccountTypeOK
<1>2. PICK r \in Calls : Commit(r)
  BY <1>1 DEF AccountNext, accountVars, Begin, Flip, Scrub,
     Rollback, SubmitForm, SaveForm, OpenForm,
     Notify, Render, Deliver
<1> DEFINE t == call[r].target
<1>3. p \in call[r].erased
  BY <1>1, <1>2 DEF Commit
<1>4. t \in Users /\ p \in ProfilesToErase(t)
  BY <1>2, <1>3 DEF Commit, ErasureInv, LoadedTargets, ScrubbedSelects
<1>5. status'[t] = "deleted"
  BY <1>2, <1>4 DEF Commit, Wanted, ErasureInv, AccountTypeOK
<1>6. Owner[p] = t \/ Guardians[p] = {t}
  BY <1>4, SelectedIsSole
<1> QED BY <1>4, <1>5, <1>6

\* Erasing one guardian never destroys the data of a child that somebody else
\* guards (AnonymizeUser::anonymizeGuardedProfiles).
THEOREM SharedChildrenSurvive == AccountSpec => SharedProfilesSurvive
<1>1. ErasureInv /\ [AccountNext]_accountVars =>
        [\A p \in Profiles : profiled[p] /\ ~profiled'[p] =>
           \/ Owner[p] \in Users /\ status'[Owner[p]] = "deleted"
           \/ \A g \in Guardians[p] : status'[g] = "deleted"]_accountVars
  BY ErasedWithItsGuardian
<1> QED BY <1>1, ErasureInvariant, PTL
        DEF AccountSpec, SharedProfilesSurvive
=============================================================================
