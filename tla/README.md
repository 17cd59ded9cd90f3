# Verification of the Sports Training Platform (Epic-01) and its Project Brain

This directory holds TLA+ specifications of the program in `src/`, TLC runs on small
instances and TLAPS proofs. `PROJECT.json` maps every definition to the source lines it
models and lists components, runs, mutants, hazards, findings and theorems.

Contents: 1 the system, 2 the modules and how they correspond to the code, 3 the runs,
4 fairness, 5 the proofs, 6 what the code does differently from what it says, 7 what is
left out, 8 the plan.

## 1. The system

`src/` holds two programs that share a repository.

**The web application** (`app/`, Laravel 12, Livewire, MariaDB with InnoDB at REPEATABLE
READ, database queue, database sessions). Every action of a user is an HTTP request
served by its own PHP process; requests of different users, and of one user's tabs, run in
parallel and meet only in the database. A request typically loads models, asks a policy,
and calls one *Action* class, which opens a transaction. Two artisan schedules dispatch
sweep jobs every 15 minutes; notifications are queued jobs that are tried once. The hard
parts are therefore: what a request has read before another one committed, which rows are
locked and which are not, what happens between a commit and its `afterCommit` callbacks,
and jobs that run late or not at all.

**The Project Brain** (`memory-bank/scripts`, `project-brain/`; Python) is the record store
and protocol by which several coding agents work on the repository: tasks, findings,
decisions, messages, promotions. Its state is files and a small local database; its
processes are command-line invocations that run in parallel and may be killed.

| component | state it keeps | operations | interacts through | what makes it correct |
|---|---|---|---|---|
| Purchase approval (BR-003/014/015) | `purchase_approvals`, audit log, notifications | request, approve, deny, 48-hour sweep, notify | guardians, executor contract, queue | executed once iff approved; terminal statuses stay; nobody is told of what was rolled back; every request ends |
| Account lifecycle (FR-017/018/020, BR-018) | `users`, `player_profiles`, `user_deletion_logs`, `notifications` | deactivate, reactivate, anonymize, edit | policy, guardianship, queue | erasure is logged and final; shared children survive; an admin remains |
| Coach employment (BR-006/009) | `share_links`, `coach_profiles` | invite, resend, accept, release | share links, roles | one employer; a link enrols once; no re-send loses the invitation |
| Player rosters (FR-006/007, BR-007/010) | `share_links`, `trainer_player` | regenerate, join by link, pick a trainer, remove, make inactive | share links, guardianship | one live link; replaced ones enrol nobody; joining twice is a no-op |
| Impersonation (FR-012, BR-016) | session, `impersonation_logs` | start, stop, timeout, logout, stale sweep | middleware chain, account status | nobody acts as another without the flag; every impersonation is on record and ends |
| Tenancy (FR-021) | tenant context, session key | resolve, switch, scoped queries | middleware, every tenant model | no query runs under another tenant; contexts nest |
| Availability (FR-012/013) | `availabilities`, overrides | save week, override a date, resolve, conflicts | coach employment | what is saved is what is resolved |
| Profile photos, branding | files, path columns | store, replace, remove | erasure | a file exists iff a row names it |
| Join page, registration, trainer accounts, authentication | forms, users | register, log in, create | share links, Fortify | - |
| Audit trail, authorization | audit rows; none | record; decide | every action | - |
| Project Brain: dynamic records and task commands | record files, handoffs, indexes, journals, bindings | create, start, update, complete, clear, rebind, message, compact | one file lock, atomic rename | each command is one step, or none; files agree with each other |
| Project Brain: promotions and memory bank | promotion records, bank chunks, INDEX.md | propose, review, apply, auto-promote, retire, re-verify, compact | records, citations, validator | no promotion without its chunk; links stand on both sides; a chunk holds what was proposed |
| Project Brain: turn buffer | buffered deltas, task rows and bindings | append, flush, replay, complete | records, promotions | no turn is lost; a turn lands once unless something failed |
| Project Brain: index database | document rows, cached stats, fingerprints, token counts | incremental and full runs, counting | files, records, retrieval | a quiet run leaves what a full one would; counts belong to the rows they are used with |
| Project Brain: retrieval | remembered turns, manifests | search, filter, follow links and conflicts, budget, gate, fit | index database, cited files | nothing withheld is delivered; the manifest accounts for everything; a repeat is held back only when it is one |
| Project Brain: command line, mirrors, reports, validators, telemetry | - | - | - | - |

Which of these are modelled is in `PROJECT.json` under `components` and in section 7.
The list of what is hard to test in this code, each with its line and the properties that
watch it, is under `hazards`.

## 2. The modules

Every module follows one pattern. A database transaction, a request or a command is a
sequence of steps; the variables that stand for tables or files hold what is committed (or
on disk), and what a process has read or decided but not yet written is in its own record
(`req[r]`, `sess[s]`, `sweep[w]`, `proc[p]`), so that stale reads are part of the model. A
step is the code between two points at which another process can run: a database
statement, a commit, a file. Row locks are variables or guards on other processes'
records. Definitions whose comment begins with "Mutant:" are the faulty variants that `mutants`
refers to; no specification uses them.

| module | abstract specification | models | proofs |
|---|---|---|---|
| `PurchaseApproval` | `PurchaseOutcome` | `app/Actions/Approval`, `app/Jobs/ExpirePurchaseApprovalsJob.php`, notifications | `PurchaseApprovalProofs` |
| `AccountErasure` | - | `app/Actions/Admin/{Deactivate,Reactivate,Anonymize}User.php`, edit forms, notification purge | `SuperAdminProofs` |
| `CoachEmployment` | `CoachSlot` | `InviteCoach`, `AcceptCoachInvitation`, `ReleaseCoach`, coach share links | `CoachEmploymentProofs` |
| `Roster` | - | `GeneratePlayerShareLink`, `RedeemShareLink`, `AssociatePlayersWithTrainer`, family overview, roster job | `RosterProofs` |
| `Impersonation` | - | start, stop, the two middleware, logout, `CloseStaleImpersonationLogsJob` | `SuperAdminProofs` |
| `BrainRecords` | `RecordLedger` | `brain_runtime.py` store, `context.py` task commands | `BrainRecordsProofs` |
| `MemoryBank` | - | `brain_runtime.py` promotions, retirement, compaction; `context.py` automatic promotion; the bank's validator | `MemoryBankProofs` |
| `TurnBuffer` | - | `context.py` `run_turn`, `flush_turn_deltas` and the tasks they reach | `TurnProofs` |
| `SourceIndex` | - | `context.py` `discover_documents`, `index_repository`; `context_retrieval.py` `index_documents`, `token_document_frequencies` | `SourceIndexProofs` |
| `Retrieval` | - | `context_retrieval.py` `retrieve` and what it calls; the capsule contract of `context.py` | `TurnProofs` |

### PurchaseApproval

State: one `status`, `expiresAt`, `respondedAt` per row of `purchase_approvals` ("absent"
before the insert), the row lock an UPDATE takes (`lock`), the audit entries
`purchase-approval.executed` (`executed`), the history of executor calls (`calls`,
`undone`), the queue (`sent`, `waiting`, `bells`). Actions, in the order of the code:

- `RequestPurchaseApproval`: `Insert`, `ExecuteBypass` (token payments need no approval
  unless the child is on strict), `CommitRequest`, `NotifyRequest` (after the commit).
- `PendingApprovals::respond` + `RespondToPurchaseApproval`: `Authorize` (policy, on the
  row as loaded), `Decide` / `DecideTooLate` (the conditional UPDATE and its row count),
  `Execute` (inside the transaction), `CommitDecision`, `NotifyDecision`.
- `ExpirePurchaseApprovalsJob`: `StartSweep`, `SelectPage`, `Expire` / `ExpireTooLate`,
  `CommitExpiry`, `NotifyExpiry`, `EndPage`.
- `FailRequest`, `FailDecision`, `FailSweep`, `LoseNotice`: an exception or a death at any
  of these points; `Deliver`: the worker renders a notification from the row as it is then.

`PurchaseOutcome` is the promise: a row goes once from pending to one of three outcomes,
and is charged in the same step iff approved.

### AccountErasure

State: `status`, `named` (does the row still hold the person's name), `profiled`, `logged`,
the lock of an erasure, open edit forms, queued and stored notifications. `Begin` loads the
target and asks the policy (`MayAct`, `MayManage`); `Flip` is the single UPDATE of
DeactivateUser and ReactivateUser, dirty-checked against the *loaded* model; `Scrub` and
`Commit` are the two halves of AnonymizeUser's transaction, `Rollback` its failure;
`OpenForm`, `SubmitForm`, `SaveForm` the edit forms; `Notify`, `Render`, `Deliver` the queue.

### CoachEmployment

State: the links of type coach, the mails sent, `row[u][t]` for `coach_profiles`, roles,
verified addresses. `StartInvite`, `Mint`, `Mail`, `Retire` are invite and resend in the
code's order; `StartAccept` locks the link, `Guard` reads the coach's rows under the lock,
`Enrol` commits, unless `Refuse`; `StartRelease`, `Release`; `Die` anywhere; `Expire` and
`Verify` are the environment. `SlotFree` is the unique index on the active row: the last
thing that stands between two transactions. `CoachSlot` is the promise: an account takes an
employer only when it has none, and leaves it only by a release.

### Roster

State: the player links of one organisation (`link`, `uses`), `row[p]`, the associations of
a player, live or soft-deleted. `LockLive`, `Mint` and `Deadlock` are the transaction that
regenerates the link, with InnoDB's row locks and, when there is no row to lock, gap locks;
`StartJoin`, `ReadRoster`, `Join`, `Greet` a join (lock, read, write and commit, after the
commit); `StartPick`, `Pick` and `StartRemove`, `Remove` the two that hold no lock;
`Deactivate` the roster job.

### Impersonation

State: `stored`/`sess`, the rows of the sessions table, `cookie`, the browser's session id,
the log rows, the sweep's selection `todo`. A request that arrives runs the middleware
chain (`Terminate`, `ForceStop`, `Serve`), then its handler (`StartLog`, `StartLogin`;
`StopRead`, `StopWrite`, `StopSwitch`), and stores its copy of the session at the end
(`Finish`), as Laravel's database session driver does: an INSERT after a login or logout has given the
session a new id, otherwise an UPDATE that may hit nothing. `SelectStale`, `CloseStale` are the
job; `Deactivate`, `Reactivate`, `Promote` another admin; `Die`, `KillSweep` deaths. Loading
the session and passing the middleware is one step.

### BrainRecords

State: `rec[i]`, the file of a record and its directory; `hand[i]`, a task's handoff;
`index`; `journal[i]`; `binding`, the local database; `lock`; `undo`, the snapshot of the
command under the lock. `Ask...` is what a command reads before the lock; `Begin` takes the
lock and re-checks, `Refuse` is the early return; `WriteRecord`, `WriteHandoff`, `MoveFile`,
`Reindex`, `Bind`, `WriteEvent`, `ReindexEvent`, `Commit` write one file (or the database)
each, in the code's order; `Fail`, `FailStart`, `FailCommit`, `GiveUpEvent` are exceptions
and what they restore; `Kill` restores nothing and frees the lock. `RecordLedger` is the
promise: as seen by anybody who takes the lock, records change by whole legal revisions.

### MemoryBank

State: `bank[f]`, the frontmatter of the chunk with memory id `f` (a day and a record);
`index`, the rows of INDEX.md; `prom`, the promotions; `rec[r]`, a record's file and place;
`doc`, the one document that records cite; `day`; `lock` and its snapshot `undo`.
`BeginApply`, `BeginRetire`, `BeginReverify`, `BeginCompact` check and take the lock, and
leave a *plan*, the list of files still to be written with the validator's pass among them;
`Write` carries out its next step, `Reject` is the validator's refusal and `Fail` an
exception, both of which restore, `Kill` restores nothing. `StartTurn`, `Retry`, `Scan`,
`Pick`, `Draft`, `Create`, `AutoReview`, `Apply`, `EndTurn` are the end of a turn: what it promotes
was chosen without the lock. A proposal is made in two steps: `Propose` takes the text of a record
(or `Pick` the text that the scan has read), `Draft` reads the record's revision without the lock and
`Create` writes the promotion under it; `text` is the revision that the text was taken from.
`Review`, `ReindexBank`, `UpdateRecord` write one file. `ValidBank` is the validator.

### TurnBuffer

State: `deltas`, the table of buffered turns; `task[t]`, the record or row a turn is flushed
into; `bound`, the bindings; `lock`; `hook[p]`, a turn of a session's hook. A turn is `BeginTurn` (append), `Count`, `Read`, `Ensure`
(rebind, create or fail on a closed name), `Create` and `Bind` under the lock, `Address`,
`Update`, `Delete`, `Maintain` (which archives what has ended, or does not, as configuration and
threshold have it), `Report`; lightweight tasks take `EnsureRow` and
`CreateRow`. `Complete` is the command that ends a task; `Fail` and `Kill` may hit any of these points. The writes of one record
update are one step here; `BrainRecords` has them apart.

### SourceIndex

State: `files[f]`, the version of a file, whether the validator passes it and until when;
the tables `docs`, `meta`, `state`; the fingerprints, the generation and the cached token
counts. A run is `Walk` (stats), `Reuse` (what is cached); per file `ReadNext` (the validator) and `Open`
(the text, read after it: a file that has gone by then ends the run with an error); `Recall` (the
stored fingerprints and drift), `CompareMirrors`, `ReadBrain`, `List` (the rows that are there),
`Compare` (the counts, with the early return and the fallback to a full run), `Commit` (one
transaction that may fail on its primary key). `StartCount`, `CountToken`, `StoreCounts` are the
frequencies of words. The rest is the world: files edited, deleted and expired, the record
and the configuration changed, the schema upgraded.

### Retrieval

State: `file`, `source`, `row` (what the index holds), `last` (the remembered turns),
`manifests`, and `proc[p]`, a turn in flight. `Begin` reads the configuration; `Weigh` drops the
words that say nothing, `Cover` finds who is relevant, `Search` takes the best matches, each from
the rows as they are by then; `Filter` asks the files what
may be delivered; `FollowPaths` and `FollowConflicts` read what paths and conflicts lead to;
`Decide` spends the budget and asks the gate; then the memory of the turn (`LoadLast`, `StoreLast`), the manifest (`WriteManifest`, and `Prune`
for a local one, which holds no lock in between) and the delivery. `Chosen`, `Layered` and `Fitted` are recursive functions and filters over sequences in the
order of the code. `Refresh` stands for a whole run of `SourceIndex`, whose
`QuietRunsAreFaithful` justifies it for runs that are alone.

## 3. The runs

Every configuration gives the constants values and names what it checks. Sets whose members
the module treats alike (web requests, sweeps, guardians, organisations, processes) are
declared symmetric, except in runs that check liveness. Deadlock is checked in `purchase`,
`impersonation_races` and `brain_records`, where a sweep can always start, an account be
deactivated or a command be asked for. The others say `CHECK_DEADLOCK FALSE`: once every
link, day, edit, turn or command that the bounds admit has been used, they do stop.

| run | instance | distinct states | what it shows |
|---|---|---|---|
| `purchase` | 1 row, 2 guardians, 2 answers, 1 sweep, 1 fault, fair | 178,238 | `ExecutedIffApproved`, `NoticesMatchCommits`, `ImplementsOutcome`, `OpenRequestsEnd`, `OutcomesAreDelivered` |
| `erasure_races` | 4 accounts (1 admin, 2 guardians), 2 children, 2 requests, 1 form, 1 notification, 1 fault | 393,872 | `EveryErasureIsLogged`, `SharedProfilesSurvive` |
| `erasure_orphans` | the same, 1 request | violated | `OrphanedProfilesAreErased` |
| `coach_races` | 2 organisations, 2 accounts (1 of them an owner), 2 requests, 3 links, 1 death | 2,219,152 | `AtMostOneEmployer`, `KeepsAnInvitation`, `EnrolsOnceWhileLive`, `ImplementsSlot` |
| `roster_races` | 2 players of a family, 2 requests, 2 links, 2 rows per player, 2 joins, 1 death | 4,751,767 | `ExactlyOneLiveLink`, `UsesCountJoins`, `LinkRowsAreUnique`, `RevokedLinksEnrolNobody` |
| `impersonation_races` | 1 member, 2 requests, 4 session ids, 2 logs, clock 0..2, timeout 1, 1 death, fair | 746,776 | `NobodyActsUnflagged`, `SessionsMatchTheirLog`, `LiveSessionsAreOnRecord`, `DurationsAgree`, `AbandonedLogsEnd` |
| `brain_records` | 2 processes, 1 name, 2 records, 3 revisions, 1 message, 1 exception, 1 kill | 842,820 | `QuietStoreIsValid`, `RevisionsCountSuccesses`, `MessagesFollowRevisions`, `EventsReportCompletedTasks`, `RefinesLedger` |
| `memory_bank` | 2 processes, 1 record, 2 days, 2 versions of the document, 2 revisions, 2 promotions, 1 command by hand, 1 exception or kill | 6,730,439 | `QuietBankIsSound`, `AppliedMeansInBank`, `NothingIsForgotten`, `ChunksQuoteWhatWasProposed` |
| `turns` | 2 hooks, 1 governed and 1 lightweight task, 4 turns, 1 end, 1 kill, 1 failure | 6,828,387 | `NoTurnIsLost`, `QuietTurnsLandOnce`, `OneRecordPerTask` |
| `source_index` | 2 processes, a chunk, a skill and its mirror, a record, 1 word, 2 days, 1 edit, 3 runs | 6,530,226 | `QuietRunsAreFaithful`, `RowsAgree`, `FrequenciesMatchRows` |
| `retrieval` | 2 processes, 2 tasks, 6 documents, 2 turns, 2 edits, 1 fault | 1,086,414 | `CalmDeliveriesAreCurrent`, `ManifestAccountsForAll`, `SkipsRepeatTheLastDelivery`, `DeliveriesAreOnRecord`, `NothingIsFoundTwice` |
| `retrieval_handoff` | 2 processes, a handoff, an event and 2 other documents, 2 turns | violated | `HandoffsReachTheTask` |

Why these bounds are enough. *Two* processes: every conflict in the code is between a
holder of a lock (or of a stale read) and one other; a third that does the same as one of
the two adds orders, not conflicts. The theorems of section 5 remove the bound where they
apply. *Rows*: the rows of one table meet only in the sweep, to which the further configuration
`MCPurchasePages` gives two; a child, link or account is otherwise independent of its neighbours, and where one
matters (two links of an account, two children of a guardian, two organisations) there are
two. *Three links* in `coach_races`: an invitation of each organisation, and a re-send.
*Clock*: a window or timeout of one unit and a clock that runs one past it reaches before,
at and after the deadline. *Two rows per player*: one removed and one live, or two live.
*Faults*: one, two where a failure and the failure of what cleans up after it
differ (a rolled back decision, then a lost notification). *Three revisions of one record,
three of all*: create, one change, close, with either of two processes in between.
*Two days*: a chunk is written on one and its review is due, or it has expired, on the next.
*One record* in `memory_bank` becomes two chunks when it is promoted on both days, which is
what a link needs. *Four turns*: a flush of several rows, one appended while it runs, and a
replay. *One message* in `brain_records`: that several are in order is covered by the theorem alone.
*Six documents* of `retrieval`: a decision and a bug in conflict, a finding that only the
bug's own conflict leads to, a chunk that a path leads to, a rule and an event; budgets and
places are too small for all of them.

The mutants are single faults a maintainer could make: an UPDATE without its condition, a
lock dropped, a notification before its commit, a step of the write order swapped, a field
missing from a snapshot, a query without its filter. Each makes the property it is
listed with fail under that run's configuration.

## 4. Fairness

`purchase` assumes: time passes; a request that has begun runs on (PHP does not stop
between two statements unless it dies, which is a fault action); the scheduler dispatches a
sweep every 15 minutes (`routes/console.php`) and a worker runs it; the queue is worked off.
It does not assume that anybody asks or answers, that a guardian wins, or that a failed job
is tried again (the worker's default is one try). All of it is weak fairness: these steps stay enabled until taken.
`OutcomesAreDelivered` is claimed only while no fault has happened, since nothing in the code
sends a lost notification again.

`impersonation_races` assumes that the job that closes stale logs keeps being dispatched and
run, and that time passes; nothing is assumed of the browser, which may never send another
request. The bound on deaths is what makes the job succeed in the end. All other
specifications state no fairness, and no liveness is claimed of them. That the rounds of
conflicts in a retrieval end is stated as safety, `NothingIsFoundTwice`: no round asks for
what an earlier one found, and there are finitely many documents.

## 5. What is proved

All proofs are checked by TLAPS with SMT, Zenon and LS4. They hold for every value of the
constants that satisfies the module's assumptions (`ConstantsAssumption`,
`StaffAssumption`, `RosterAssumption`, `ImpersonationAssumption`, `TurnAssumption`,
`IndexAssumption`, `BankAssumption`, `RetrievalAssumption`; in `BrainRecords` `AskedAssumption`, `BoundsAssumption`,
`HolderAssumption`): types of the bounds, disjointness of names, a non-empty set of guardians,
candidates and documents that are listed once each, chunks that are copies of nothing, the statuses a caller can name. The bounds (`MaxTime`, `MaxFaults`, ...) are arbitrary naturals
in the proofs; they only cap counters.

**PurchaseApprovalProofs.** `TypeCorrect` by `TypeOK` itself. `ExecutionCorrect` needs
`ExecInv == TypeOK /\ TransactionsOwnTheirRow /\ ExecutedIffApproved`: that a row is
executed iff approved is preserved by a commit only if the committing transaction still
owns its row and the row is still pending underneath, which is what the lock that the
UPDATE took guarantees. `TerminalStatusIsFinal` and `Refinement` (every step maps to a step
of `PurchaseOutcome` or a stutter) follow from the same invariant, action by action.
`NoticesCorrect` needs `NoticeInv`: whoever has committed a row and is still telling of it is
the only one who is, and what it has yet to tell was not sent (`DecisionNotices`,
`ExpiryNotices`, `RequestNotices`); what was said of a row stays true of it (`KindsStay`).
`CallsCorrect` accounts for every call that stands: the approval's, or the one of the only
transaction that owns the row (`CallsInv`). `ExpiryCorrect` keeps of a selected row what
cannot be taken back, that it was overdue at the cutoff (`DueInv`). `SweepsAreComplete` says
that what is still open of the rows due at the start is on the sweep's page, in its hands or
ahead of it (`SweepInv`); that nothing is ahead of a page that is not full is a lemma about
cardinalities (`PageIsPrefix`). With that every safety property of the module is proved.

**CoachEmploymentProofs.** `AtMostOneEmployer` is preserved by `Enrol` because of the
unique index alone, as the class comment says. `InvitationsAreKept` needs what is known of
a re-send at each of its points (`RequestsFit`: at "retire" the replacement has been
mailed). `LinksEnrolOnce` needs that two requests never hold one link (`OneHolder`).
`StaffImplementsSlot` is the refinement; `Employer` is a CHOOSE, made unique by
`AtMostOneEmployer`.

**RosterProofs.** `OneLiveLink` rests on what the holders of links know: whoever is about to
mint holds every live link, so its commit kills all of them; two first mints cannot both
commit. `UsesAreCounted` rests on the lock spanning the load and the write.
`JoinsAreIdempotent` needs that a join that has decided to insert has seen no live row and
that only a holder of the same, only live, link can insert one by a link.

**SuperAdminProofs, of Impersonation.** `IInv == TypeOK /\ RoomLeft /\ Fits /\ LogsFit /\ DurationsAgree`.
`RoomLeft` counts the requests in flight against the session numbers left (each migrates
once), which is why the set of requests is finite; `Fits` says of every copy of a session,
in the table or in a request, that its keys fit each other and its log. The first four
theorems follow. `LiveSessionsAreOnRecord` needs `RecInv`, which adds whose log it is:
`CopiesAgree` (a stored session never changes: whoever writes it back has loaded it as it
is), `OneSessionPerLog`, `StopsOwnLog` (a stop closes a log that no other session names),
`StaleSelected` (the sweep has selected overdue logs only) and `OnRecord`, the property
itself, extended to sessions that a start is about to store.

**SuperAdminProofs, of AccountErasure.** `ErasureInv` is the conjunction of `AccountTypeOK`,
`LoadedTargets`, `ScrubbedSelects` and `EveryErasureIsLogged`. `LoadedTargets` says that a request in flight has a target, so its
UPDATE hits a row; `ScrubbedSelects` that an erasure between its two writes has selected
only profiles that die with its target. Without the latter `SharedChildrenSurvive` is not
inductive: the selection is made steps before it is committed.

**TurnProofs, of TurnBuffer.** `IInv == QuietInv /\ RecordInv`. That no turn is lost needs
`LostInv`: every row has its entry in the history (`RowsAreKnown`), a command handles rows of
its own task, and what it is about to delete has landed (`DeletesLanded`), which is the
order of update and delete. That a quiet task's turns land once needs more: its one command
(`OneCommand`) holds rows that have landed no time before its update and one time after it
(`QuietRows`). `OneRecordPerTask` needs that whoever holds the lock of a task is about to
bind the record it has just made, and nobody else is (`BindersHoldTheLock`).

**SourceIndexProofs.** `FrequenciesMatchRows` needs of a count in progress that its generation
is past, or its counts are right (`CountsFit`): that is why the generation is read before
the words are counted and stored with them. `RowsAgree` needs `RowsFit`: a run has at most one
row for each candidate that it has come to, since candidates are listed once, and the
Brain's rows are no candidates; a commit whose rows are still held elsewhere fails as a whole. The
count of rows against entries follows by a bijection. `QuietRunsCorrect` needs `QuietInv`, which
separates what a run may rely on while others change the files under it from what it may rely
on when nothing does. Versions are given out once (`Recorded`), so an entry of the cache whose
stat is the file's own vouches for a row and a boundary that are still right, and one that is
not is never the file's again (`Honest`; `Covers` says the same of the drift of mirrors). That is kept by
every edit in the middle of a run, and it is why the stat is taken before the text is read. A run that no other overlaps
stores only such entries (`AloneRun`), also between the validator's pass over a file and the reading of
its text, where nothing is kept of a file that has changed or gone (`Vouches`, `Steady`); if nothing changes either, it has taken, of each skill
among the candidates it has come to, the first copy that passes (`TakesTheFirst`). `AllTaken` concludes
that at the end this is `Wanted`. It uses the assumption that a chunk is never the copy of a
skill, as the patterns of the two have it; otherwise a kept chunk whose cited file is gone would
hide what it mirrors.

**BrainRecordsProofs.** `IInv` says of the store, when the lock is free, that its files are
of the right shapes (`StoreFits`), and when it is held, that the same is true of the snapshot and that
the files are what the holder has made of it so far (`HolderFits`): up to the step it is at,
one record is revised and its handoff follows (`Writes`), or any number of terminal records and
then their handoffs have moved (`Moves`), and the indexes are still the old ones or already the
derived ones (`IndexFits`). Every other property is proved of the *kept* store, which is the files when the lock
is free and the snapshot when it is not (`KeptRec`, `KeptHand`, `KeptIndex`). The lemma
`Steps` sorts the steps of all commands by what they do to it: nothing (`KeptStays`, which
includes every write under the lock and every restoration), a success, a kill, or a commit
that fails, each of which replaces snapshots by what the holder wrote. `HolderSteps` says
that this is, record by record, one step of the ledger, and so `Refinement`:
`RefinesLedger` for every interleaving, exception and kill. `MessagesFollowRevisions` needs `JournalInv` (a journal quotes
the kept records; stable along a ledger step), `EventsReportCompletedTasks` `EventInv` (nothing
leads out of completed), `RevisionsCountSuccesses` `RevisionInv`, `QuietStoreIsValid` `SoundInv`
(which adds that beside a terminal record lies a closed handoff, or compaction would move an open
one to the archive).

**MemoryBankProofs.** `BankInv` says of the files, when the lock is free, that they are *kept*
(`Kept`): what the applied promotions point to is in the bank, the other chunks are no more than
the kills, and, without kills, the bank is sound and every chunk cites its record where it is.
When the lock is held it says that the snapshot is kept, and that what is left of the holder's
plan suits the files as they are by now (`Underway`): every file still to be written fits the
places that records will have at the end (`PutsFit`), what is not written any more cites its
record there already (`RestFits`), the validator's pass comes after the last file (`Checked`),
a promotion is marked last and its chunk holds what was proposed (`MarkFits`), and the bank has
grown from the one that was found (`Outgrows`). Those are the hypotheses under which one step leaves
the same of the rest (`CarriedOn`), and the last step leaves files that are kept (`CarriedOut`);
each command's plan is shown to have them when the lock is taken (`ApplyFits`, `RetireFits`,
`ReverifyFits`, `CompactFits`). That INDEX.md and the links are right is then due to the
validator, whose refusal restores, while the citations are due to the plans. `QuietBankCorrect` and
`AppliedCorrect` read `Kept` off; `BankOnlyGrows` follows by the five kinds of steps
(`StepKinds`), `ChunksQuoteProposals` from `MarkFits`: nobody can change a record or a promotion
between the check under the lock and the mark.

**TurnProofs, of Retrieval.** Five invariants of a turn, each of which holds whatever the documents, the
scores, the conflicts and the budgets are. `FoundFits`: a turn has found a document once, and what the conflicts
of its finds name is found, told of with a reason, or asked for in the next round (`Asked`); from it follow
`FoundOnce` and `ManifestsAccount`. `CalmFits`: a turn during which nothing was edited has judged its items by
what still is, and every pass after the first adds only such items; it needs that a document's row has a print of
each source it cites (`CitesAreKept`). `RecordFits`: turns are numbered apart, the manifests of a turn are written once,
and what it selects is named in them; the newest manifest is the last one of its directory (`Tops`), and so survives
everybody's pruning because `Keep` is not zero (`Thinned`, `RecordThinned`).
`Remembered` says of tidy runs that there is one turn per task, and that what is remembered of a task is what it was
handed or what its one turn is about to hand over (`Handing`): without the second half the property is not
inductive, since a turn is remembered three steps before it is delivered. What is selected comes out of two recursive
functions, `Picking` (the comprehensions) and `Choosing` (the budgets). What these yield is shown for every length at
once: the set of lengths up to which the claim holds contains 0 and is closed under successor, hence is all of `Nat`,
or its complement would have a least member (`FirstExists`, `Climb`; the well-foundedness of `<` is the library's).
`PickFacts` says that a pick has the elements it was asked for and none twice if none was there twice, `ChosenFacts`
that budgets only leave out.

The two Laravel powers of a Super Admin share one module of proofs, and so do the two ends of a turn. Where two
modules are extended by one, their names are kept apart (`Spec` and `AccountSpec`, `Spec` and `TurnSpec`).

What stays with TLC: liveness under fairness, and anything about ENABLED, which the prover
cannot treat (`OpenRequestsEnd`, `OutcomesAreDelivered`, `AbandonedLogsEnd`); and of the properties outside
`runs`, `SomeAdminRemains` and `ErasureIsFinal`, which hold of one request at a time only. Every safety property of
every passing run is proved. No module of the project declares a RECURSIVE operator.

## 6. Where the code does not do what it says

Two runs expect a violation; `findings` quotes the code and the text it contradicts.

- `erasure_orphans`: a child both of whose guardians are erased one after the other keeps
  its data, because erased guardians still count.
- `retrieval_handoff`: the protocol gives handoffs a budget of their own in a turn's
  retrieval, and the filter withholds every one of them, open or closed: a handoff's status is looked up in
  `LIFECYCLES`, which has no entry for handoffs.

Further configurations are kept for a reader who wants a larger instance or a trace; none
is part of `runs`. Two pass:

| cfg | what it shows |
|---|---|
| `MCPurchasePages` | 2 rows, 1 request, 2 sweeps, pages of 1 row (3,158,305 states): `AtMostOneStandingCall`, `ExpiredOnlyWhenDue`, and `SweepMissesNothing`, paging over rows that the sweep itself removes from its filter |
| `MCErasureSerial` | 1 request at a time, 1 form, 2 notifications, 1 rollback (305,732 states): `SomeAdminRemains`, `ErasureIsFinal`, which two requests at once break |

The others each check one property that the code does not have:

| cfg | property | trace |
|---|---|---|
| `MCPurchaseLate` | `NoLateApproval` | a guardian approves after 48 hours, before the sweep comes by |
| `MCErasureRevived` | `ErasureIsFinal` | a reactivation loaded before an erasure is saved after it; with `MaxForms = 1` and `ErasedStaysAnonymous` in its place, an edit form opened before an erasure writes the name back |
| `MCErasureAdmins` | `SomeAdminRemains` | two Super Admins deactivate each other at the same time |
| `MCCoachStack` | `ResendDoesNotStack` | two re-sends of one link leave two live links |
| `MCCoachRelease` | `ReleaseFrees` | a release of a stale model writes nothing and reports success |
| `MCRosterTwins` | `LiveRowsAreUnique` | picking a trainer holds no lock, and the unique index does not keep live rows apart (`deleted_at` is NULL): one child is enrolled twice |
| `MCBrainTwins` | `OneRecordPerName` | two processes create one name: it is looked up before the lock |
| `MCBrainRestored` | `EveryFailureRestores` | a completion whose database commit fails leaves its event behind, unlisted, while the task is active again |
| `MCBankTwice` | `OneChunkPerRecord` | two turns scan at once, and each promotes the record they both found; nothing under the lock asks whether it has been; with `TextsAreOfTheirRevision` in its place and `MaxRev = 3`, a record updated between the scan and the proposal: the promotion carries the older text and the newer revision's digest |
| `MCBankHalf` | `LinksStandOnBothSides` | a kill between the two files of a retirement; no command mends it |
| `MCBankDue` | `DueChunksCanBeReverified` | with two chunks due at once neither can be re-verified, since the other makes the bank invalid |
| `MCIndexRace` | `RacesAreDetected` | two overlapping runs leave a row of one beside the stat of the other, and no incremental run reads the file again; with `DriftIsCurrent` in its place, `MaxEdits = 3` and `Procs <- OneProc`, a mirror that comes after the walk and goes after the comparison stays in the drift |
| `MCRetrievalForgotten` | `RememberedMeansDelivered` | a turn dies after it was remembered; the next one is held back as a repeat of what was never handed over |

## 7. What is left out

Inside the modelled parts: names, addresses, texts, amounts and e-mail bodies are
represented by whether they are there; one organisation's player links and one family in
`Roster`; one child in `PurchaseApproval` (guardians share it, rows are several); a user's
search and paging of the users table; the deletion of photos in an erasure. InnoDB: a row
lock is held from the UPDATE or `lockForUpdate` to the end of the transaction; in `Roster`,
where the code depends on it, a locking read that finds nothing takes a gap lock that
excludes inserts of others and not their gap locks. In `CoachEmployment` a locking read
that finds nothing locks nothing, the weaker assumption. In `BrainRecords` the two index files
are written as one, restoring is not interrupted, and a record's text, owner, authority,
sources, supersession links and phases are left out. In `MemoryBank` one document stands for
all that records cite, owners and authority are left out, and so is `audit_bank`, which only
reports. In `TurnBuffer` a working tree is a set of paths, and the promotion and compaction
at the end of a turn are steps that may fail. In `SourceIndex` ignore patterns, files that
two patterns match and the record's links are left out, one record stands for the
Brain's, and the walk takes all its stats, and the comparison of the mirrors all its texts, in one step. In `Retrieval` scores are one fixed order of the documents, which stands for the order of their paths too, an item is one unit of a
capsule; the words of a question are counted in one step and matched in another, where the code asks one query
per word. Left out are replay episodes, the later `build_context_packet`, the counts of words that an index
generation keeps (`SourceIndex` has those), and the limit of 25 commits that a map of the code may be behind
(`CODEBASE_MAP_MAX_DRIFT`; such a map cites no sources and names no conflicts, and no run has one). A `stat` that
fails because two prunings meet is one of the deaths of `Stop`. Writes of
a single line or file are whole or not at all, so a torn line of a journal, which makes
reading the journal fail, is not modelled.

Whole parts: see `components`. Not modelled because there is nothing to model: screens,
configuration, reports, the validators of formats, pure policies (each policy appears as a guard where it is asked),
the audit trail (append-only, read by nothing), trainer accounts (one transaction). Not yet
modelled: the plan below.

## 8. Plan

The order follows how much of the program depends on a part and how little a test reaches
it. Done: `PurchaseApproval`, `AccountErasure`, `CoachEmployment`, `Roster` and
`Impersonation`, `BrainRecords`, `MemoryBank`, `TurnBuffer`, `SourceIndex` and `Retrieval`, all with proofs of their safety properties. To come:

1. `TrainerContext`: tenant resolution per request, the cached list, nested `runFor` and
   `runAsSystem` with exceptions, jobs; runs with one membership that ends.
2. `Availability`: saving, resolving and comparing weeks as operators against a
   minute-by-minute reference, over a day of a few minutes.
3. `ProfilePhoto`: files and the column that names them, two uploads, a crash, an erasure.

Theorems worth proving there: that contexts nest whatever throws, and that no file of a
live profile is deleted.
