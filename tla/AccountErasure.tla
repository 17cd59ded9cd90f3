--------------------------- MODULE AccountErasure ---------------------------
(***************************************************************************)
(* The life of an account as Super Admins see it (FR-017, FR-018, BR-018): *)
(* DeactivateUser, ReactivateUser and AnonymizeUser, called by the rows of *)
(* the users table, next to two things that write the same data: the edit  *)
(* forms (EditUserForm, ProfileForm) and the queue worker that inserts     *)
(* notifications.                                                          *)
(*                                                                         *)
(* A request loads its target once; the guards of the actions look at the  *)
(* loaded model, while the UPDATE goes to the row as it is by then.  Only  *)
(* erasure runs in a transaction: from its first UPDATE on it holds the    *)
(* lock of the target's row.                                               *)
(***************************************************************************)
EXTENDS FiniteSets, Naturals

CONSTANTS
  Users,
  Admins,         \* Super Admins
  Profiles,       \* player profiles
  Guardians,      \* profile -> the users in player_guardians
  Owner,          \* profile -> the user whose own profile it is, or NoOne
  Calls,       \* requests that may be in flight together
  Nobody,
  MaxRollbacks,      \* bound: erasures rolled back
  MaxForms,       \* bound: edit forms open at a time
  MaxNotices      \* bound: notifications queued or stored at a time

ASSUME ConstantsAssumption ==
  /\ Admins \subseteq Users
  /\ IsFiniteSet(Users)
  /\ Nobody \notin Users \cup Calls
  /\ Guardians \in [Profiles -> SUBSET Users]
  /\ Owner \in [Profiles -> Users \cup {Nobody}]
  /\ MaxRollbacks \in Nat /\ MaxForms \in Nat /\ MaxNotices \in Nat

Statuses == {"active", "inactive", "deleted"}
Ops      == {"deactivate", "reactivate", "delete", "edit"}

VARIABLES
  status,     \* users.status
  named,      \* does the users row still hold the person's name?
  profiled,   \* does the profile still hold the child's or player's data?
  logged,     \* users with a row in user_deletion_logs
  lock,       \* the erasure that holds the lock of the user's row
  call,        \* requests
  forms,      \* edit forms open in a browser: <<editor, target>>
  jobs,       \* notifications on the queue
  bells,      \* rows of the notifications table
  rollbacks

accountVars == <<status, named, profiled, logged, lock, call, forms, jobs, bells, rollbacks>>

Jobs  == [to : Users, about : Profiles, text : {"unread", "name", "erased"}]
Bells == [to : Users, about : Profiles, text : {"name", "erased"}]

CallRecord == [pc : {"idle", "loaded", "scrubbed"}, op : Ops,
                  target : Users \cup {Nobody}, dirty : BOOLEAN,
                  erased : SUBSET Profiles]

NoCall == [pc |-> "idle", op |-> "edit", target |-> Nobody, dirty |-> TRUE,
         erased |-> {}]

AccountTypeOK ==
  /\ status \in [Users -> Statuses]
  /\ named \in [Users -> BOOLEAN]
  /\ profiled \in [Profiles -> BOOLEAN]
  /\ logged \in SUBSET Users
  /\ lock \in [Users -> Calls \cup {Nobody}]
  /\ call \in [Calls -> CallRecord]
  /\ forms \in SUBSET (Users \X Users)
  /\ jobs \in SUBSET Jobs
  /\ bells \in SUBSET Bells
  /\ rollbacks \in 0..MaxRollbacks

AccountInit ==
  /\ status = [u \in Users |-> "active"]
  /\ named = [u \in Users |-> TRUE]
  /\ profiled = [p \in Profiles |-> TRUE]
  /\ logged = {}
  /\ lock = [u \in Users |-> Nobody]
  /\ call = [r \in Calls |-> NoCall]
  /\ forms = {}
  /\ jobs = {}
  /\ bells = {}
  /\ rollbacks = 0

-----------------------------------------------------------------------------
(* UsersTable: deactivate, reactivate, delete                              *)

\* EnsureAccountRemainsActive lets the request of this user through.
MayAct(u) == status[u] = "active"

\* UserPolicy::deactivate, reactivate, delete: a Super Admin, never oneself.
MayManage(a, t) == a \in Admins /\ a # t

\* The guard of the three actions, on the loaded model.
RefusesDeleted(t) == status[t] = "deleted"

\* The status each operation writes.
Wanted(op) == CASE op = "deactivate" -> "inactive"
                [] op = "delete" -> "deleted"
                [] OTHER -> "active"

\* The request loads its target and passes the policy and the guard.
Begin(r, op, a, t) ==
  /\ call[r].pc = "idle"
  /\ op # "edit"
  /\ MayAct(a) /\ MayManage(a, t)
  /\ ~RefusesDeleted(t)
  /\ call' = [call EXCEPT ![r] = [pc |-> "loaded", op |-> op, target |-> t,
                                dirty |-> status[t] # Wanted(op), erased |-> {}]]
  /\ UNCHANGED <<status, named, profiled, logged, lock, forms, jobs, bells,
                 rollbacks>>

\* forceFill([...])->save(): an UPDATE by primary key, and none at all if the
\* loaded model has that status already.
Flip(r) ==
  LET t == call[r].target IN
  /\ call[r].pc = "loaded" /\ call[r].op \in {"deactivate", "reactivate"}
  /\ lock[t] = Nobody
  /\ status' = IF call[r].dirty THEN [status EXCEPT ![t] = Wanted(call[r].op)]
               ELSE status
  /\ call' = [call EXCEPT ![r] = NoCall]
  /\ UNCHANGED <<named, profiled, logged, lock, forms, jobs, bells, rollbacks>>

-----------------------------------------------------------------------------
(* AnonymizeUser::handle                                                   *)

\* Gap 6: the target's own profile, and the children it alone guards.  Every
\* row of player_guardians counts.  Mutant: every guarded child.
EveryGuardedProfile(t) == {p \in Profiles : Owner[p] = t \/ t \in Guardians[p]}
ProfilesToErase(t) ==
  {p \in Profiles : Owner[p] = t \/
                    (t \in Guardians[p] /\ Cardinality(Guardians[p]) = 1)}

\* The transaction: the deletion log, then the users row, then the rest.
Scrub(r) ==
  LET t == call[r].target IN
  /\ call[r].pc = "loaded" /\ call[r].op = "delete"
  /\ lock[t] = Nobody
  /\ lock' = [lock EXCEPT ![t] = r]
  /\ call' = [call EXCEPT ![r] = [@ EXCEPT !.pc = "scrubbed",
                                         !.erased = ProfilesToErase(t)]]
  /\ UNCHANGED <<status, named, profiled, logged, forms, jobs, bells, rollbacks>>

\* purgeNotifications: what was addressed to the target, and what names a
\* profile just erased.
Purged(b, t, erased) == b.to = t \/ b.about \in erased

\* Mutant: the deletion log is written on its own, after the transaction, by a
\* request that may have died by then.
CommitUnlogged(r) ==
  LET t == call[r].target IN
  /\ call[r].pc = "scrubbed"
  /\ status' = [status EXCEPT ![t] = Wanted("delete")]
  /\ named' = [named EXCEPT ![t] = FALSE]
  /\ profiled' = [p \in Profiles |-> profiled[p] /\ p \notin call[r].erased]
  /\ bells' = {b \in bells : ~Purged(b, t, call[r].erased)}
  /\ lock' = [lock EXCEPT ![t] = Nobody]
  /\ call' = [call EXCEPT ![r] = NoCall]
  /\ UNCHANGED <<logged, forms, jobs, rollbacks>>

Commit(r) ==
  LET t == call[r].target IN
  /\ call[r].pc = "scrubbed"
  /\ logged' = logged \cup {t}
  /\ status' = [status EXCEPT ![t] = Wanted("delete")]
  /\ named' = [named EXCEPT ![t] = FALSE]
  /\ profiled' = [p \in Profiles |-> profiled[p] /\ p \notin call[r].erased]
  /\ bells' = {b \in bells : ~Purged(b, t, call[r].erased)}
  /\ lock' = [lock EXCEPT ![t] = Nobody]
  /\ call' = [call EXCEPT ![r] = NoCall]
  /\ UNCHANGED <<forms, jobs, rollbacks>>

\* Something in the transaction throws, or the process dies: all is undone.
Rollback(r) ==
  /\ call[r].pc = "scrubbed"
  /\ rollbacks < MaxRollbacks
  /\ rollbacks' = rollbacks + 1
  /\ lock' = [lock EXCEPT ![call[r].target] = Nobody]
  /\ call' = [call EXCEPT ![r] = NoCall]
  /\ UNCHANGED <<status, named, profiled, logged, forms, jobs, bells>>

-----------------------------------------------------------------------------
(* EditUserForm and ProfileForm: the names are copied into the form when it *)
(* is opened, and written back when it is saved.                           *)

OpenForm(e, t) ==
  /\ MayAct(e) /\ (e = t \/ e \in Admins)
  /\ named[t]
  /\ Cardinality(forms) < MaxForms
  /\ forms' = forms \cup {<<e, t>>}
  /\ UNCHANGED <<status, named, profiled, logged, lock, call, jobs, bells, rollbacks>>

SubmitForm(r, e, t) ==
  /\ call[r].pc = "idle"
  /\ <<e, t>> \in forms
  /\ MayAct(e)
  /\ call' = [call EXCEPT ![r] = [pc |-> "loaded", op |-> "edit", target |-> t,
                                dirty |-> TRUE, erased |-> {}]]
  /\ forms' = forms \ {<<e, t>>}
  /\ UNCHANGED <<status, named, profiled, logged, lock, jobs, bells, rollbacks>>

\* UpdateUserProfileInformation::update.  It looks at no status.
SaveForm(r) ==
  LET t == call[r].target IN
  /\ call[r].pc = "loaded" /\ call[r].op = "edit"
  /\ lock[t] = Nobody
  /\ named' = [named EXCEPT ![t] = TRUE]
  /\ call' = [call EXCEPT ![r] = NoCall]
  /\ UNCHANGED <<status, profiled, logged, lock, forms, jobs, bells, rollbacks>>

-----------------------------------------------------------------------------
(* Notifications about a profile, for instance PurchaseApprovalRequested.  *)

\* Every guardian is notified: one job each.
Notify(p) ==
  /\ Cardinality(jobs) + Cardinality(bells) + Cardinality(Guardians[p])
       <= MaxNotices
  /\ jobs' = jobs \cup {[to |-> g, about |-> p, text |-> "unread"] :
                          g \in Guardians[p]}
  /\ UNCHANGED <<status, named, profiled, logged, lock, call, forms, bells,
                 rollbacks>>

\* The worker fetches the models anew and renders the row ...
Render(j) ==
  /\ j \in jobs /\ j.text = "unread"
  /\ jobs' = (jobs \ {j}) \cup
               {[j EXCEPT !.text = IF profiled[j.about] THEN "name" ELSE "erased"]}
  /\ UNCHANGED <<status, named, profiled, logged, lock, call, forms, bells,
                 rollbacks>>

\* ... and inserts it.
Deliver(j) ==
  /\ j \in jobs /\ j.text # "unread"
  /\ jobs' = jobs \ {j}
  /\ bells' = bells \cup {j}
  /\ UNCHANGED <<status, named, profiled, logged, lock, call, forms, rollbacks>>

AccountNext ==
  \/ \E r \in Calls :
       \/ \E op \in Ops, a \in Users, t \in Users : Begin(r, op, a, t)
       \/ Flip(r) \/ Scrub(r) \/ Commit(r) \/ Rollback(r)
       \/ \E e \in Users, t \in Users : SubmitForm(r, e, t)
       \/ SaveForm(r)
  \/ \E e \in Users, t \in Users : OpenForm(e, t)
  \/ \E p \in Profiles : Notify(p)
  \/ \E j \in jobs : Render(j) \/ Deliver(j)

AccountSpec == AccountInit /\ [][AccountNext]_accountVars

-----------------------------------------------------------------------------
(* What must hold.                                                         *)

\* The compliance record can never be lost: an account is erased, in whatever
\* order requests overlap or fail, only together with its deletion log
\* (AnonymizeUser, write order 2).
EveryErasureIsLogged ==
  \A u \in Users : status[u] = "deleted" \/ ~named[u] => u \in logged

\* Erasing one guardian destroys no data of a child somebody else guards: when
\* a profile loses its data, its owner or all of its guardians are gone with
\* this very step (Gap 6).
SharedProfilesSurvive ==
  [][\A p \in Profiles : profiled[p] /\ ~profiled'[p] =>
       \/ Owner[p] \in Users /\ status'[Owner[p]] = "deleted"
       \/ \A g \in Guardians[p] : status'[g] = "deleted"]_accountVars

\* BR-018: nothing brings an erased account back to life.
ErasureIsFinal ==
  [][\A u \in Users : status[u] = "deleted" => status'[u] = "deleted"]_accountVars

\* The platform never loses its last Super Admin: somebody is left who can
\* reactivate the others (AppServiceProvider, NOT_BYPASSABLE).
SomeAdminRemains == \E a \in Admins : status[a] = "active"

\* "Irreversible PII anonymization": an erased row holds no name again.
ErasedStaysAnonymous ==
  \A u \in Users : status[u] = "deleted" => ~named[u]

\* A child whose guardians are all erased is erased with the last of them.
OrphanedProfilesAreErased ==
  \A p \in Profiles :
    Guardians[p] # {} /\ (\A g \in Guardians[p] : status[g] = "deleted")
      => ~profiled[p]

=============================================================================
