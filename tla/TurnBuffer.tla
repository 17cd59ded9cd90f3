----------------------------- MODULE TurnBuffer -----------------------------
(***************************************************************************)
(* The buffer of turns: run_turn and flush_turn_deltas                     *)
(* (memory-bank/scripts/context.py).  The Stop hook of every session runs  *)
(* "turn" after every answer: the changed paths of the working tree are    *)
(* appended to a table, and at the boundary all that is pending goes into  *)
(* the task's record as one update, and is deleted from the table.         *)
(*                                                                         *)
(* Hooks of several sessions run at once and are killed by their timeout.  *)
(* A governed task is a record under project-brain that a local binding    *)
(* points to; a lightweight task is a row of the database.  An update of a *)
(* record, whose own files BrainRecords models, is one step here, as it    *)
(* holds the lock and restores what it wrote when it fails; so is a        *)
(* promotion (MemoryBank), which only matters here for failing.            *)
(***************************************************************************)
EXTENDS Integers, FiniteSets, Sequences, Functions, SequencesExt

CONSTANTS Hooks, Names,
          Governed,     \* the tasks whose mode is governed; the others are lightweight
          Paths,        \* the files that change, in the order of "git status"
          Changes,      \* bound: what "git status" may report
          FlushAfter,   \* --flush-after
          MaxFiles,     \* --max-files
          MaxBegun, MaxEnds, MaxKills, MaxFails \* bounds

ASSUME TurnAssumption ==
    /\ Governed \subseteq Names /\ FlushAfter \in Nat \ {0} /\ MaxFiles \in Nat \ {0}
    /\ Changes \subseteq SUBSET Range(Paths) /\ {MaxBegun, MaxEnds, MaxKills, MaxFails} \subseteq Nat
    /\ "none" \notin Names /\ "free" \notin Hooks

VARIABLES deltas,       \* the rows of turn_deltas
          task,         \* task[t]: "none", "active" or "ended", its files, its checkpoint
          bound,        \* task_bindings: the record that a governed task's name points to
          report,       \* last-turn.json
          lock,         \* who holds the mutation lock
          hook, begun, ends, kills, fails,
          landed,       \* history: landed[id]: whose delta it is, how often it reached
                        \* the record
          made,         \* history: made[t]: records of the name, and those in use
          quiet         \* history: the tasks none of whose turns failed or overlapped

stores == <<deltas, task, bound, report, lock>>
counts == <<begun, ends, kills, fails>>
history == <<landed, made, quiet>>
turnVars == <<stores, hook, counts, history>>

Free == "free"
Unbound == 0
NoTask == [st |-> "none", id |-> 0, files |-> {}, check |-> [turns |-> 0, omitted |-> 0]]
NewTask(t) == [NoTask EXCEPT !.st = "active", !.id = made[t].all + 1]
Made(t) == [made EXCEPT ![t] = [all |-> @.all + 1, open |-> @.open + 1]]
Unmade(ts) == [t \in Names |-> IF t \in ts THEN [made[t] EXCEPT !.open = @ - 1] ELSE made[t]]
NoTurn == [at |-> "idle", task |-> "none", force |-> FALSE, rows |-> {}, id |-> Unbound,
         flushed |-> FALSE]

States == {"idle", "count", "read", "ensure", "create", "bind", "address", "update",
           "delete", "maintain", "report"}
Delta == [id: Nat, task: Names, files: SUBSET Range(Paths)]
Commands == [at: States, task: Names \cup {"none"}, force: BOOLEAN, rows: SUBSET Delta,
             id: Nat, flushed: BOOLEAN]
IsTask(x) == /\ DOMAIN x = {"st", "id", "files", "check"}
             /\ x.st \in {"none", "active", "ended"} /\ x.id \in Nat

Pending(t) == {d \in deltas: d.task = t}
Ids(rows) == {d.id : d \in rows}
FirstOf(n, s) == SubSeq(s, 1, IF n < Len(s) THEN n ELSE Len(s))

\* merge_unique over the rows: git lists every row's paths in its own order
Union(rows) == SelectSeq(Paths, LAMBDA f: \E d \in rows: f \in d.files)

TurnInit ==
    /\ deltas = {} /\ report = [task |-> "none", flushed |-> FALSE]
    /\ task = [t \in Names |-> NoTask] /\ bound = [t \in Names |-> Unbound] /\ lock = Free
    /\ hook = [p \in Hooks |-> NoTurn]
    /\ begun = 0 /\ ends = 0 /\ kills = 0 /\ fails = 0
    /\ landed = <<>> /\ made = [t \in Names |-> [all |-> 0, open |-> 0]] /\ quiet = Names

GoTo(p, at) == hook' = [hook EXCEPT ![p].at = at]
Dies(p) == /\ hook' = [hook EXCEPT ![p] = NoTurn]
           /\ quiet' = quiet \ {hook[p].task}
At(p, at, governed) == hook[p].at = at /\ (hook[p].task \in Governed) = governed

-----------------------------------------------------------------------------
(* The command that ends a task. *)

\* complete: the record is closed and the binding goes; a lightweight row is deleted.
Complete(t) ==
    /\ ends < MaxEnds /\ task[t].st = "active" /\ lock = Free
    /\ t \in Governed => bound[t] = task[t].id
    /\ ends' = ends + 1
    /\ task' = [task EXCEPT ![t] = IF t \in Governed THEN [@ EXCEPT !.st = "ended"] ELSE NoTask]
    /\ bound' = [bound EXCEPT ![t] = Unbound]
    /\ made' = Unmade({t} \ Governed)
    /\ UNCHANGED <<deltas, report, lock, hook, begun, kills, fails, landed, quiet>>

-----------------------------------------------------------------------------
(* A turn. *)

\* changed_paths and append_turn_delta: a turn without changed paths has no row.
BeginTurn(p, t, force, dirty) ==
    /\ hook[p].at = "idle" /\ begun < MaxBegun
    /\ begun' = begun + 1
    /\ IF dirty = {} THEN UNCHANGED <<deltas, landed>>
       ELSE /\ deltas' = deltas \cup {[id |-> Len(landed) + 1, task |-> t, files |-> dirty]}
            /\ landed' = Append(landed, [task |-> t, times |-> 0])
    /\ hook' = [hook EXCEPT ![p] = [NoTurn EXCEPT !.at = "count", !.task = t, !.force = force]]
    /\ quiet' = IF \E o \in Hooks: hook[o].task = t THEN quiet \ {t} ELSE quiet
    /\ UNCHANGED <<task, bound, report, lock, ends, kills, fails, made>>

Count(p) ==
    /\ hook[p].at = "count"
    /\ LET n == Cardinality(Pending(hook[p].task))
       IN GoTo(p, IF n > 0 /\ (hook[p].force \/ n >= FlushAfter) THEN "read" ELSE "report")
    /\ UNCHANGED <<stores, counts, history>>

\* Another flush may have emptied the buffer since it was counted.
Read(p) ==
    /\ hook[p].at = "read"
    /\ LET rows == Pending(hook[p].task)
       IN hook' = [hook EXCEPT ![p].rows = rows,
                               ![p].at = IF rows = {} THEN "report" ELSE "ensure"]
    /\ UNCHANGED <<stores, counts, history>>

\* ensure_working_task: the task that is there, or that a record is there for, which
\* is bound again (rebind_governed_task), else a new one.  A closed record of the
\* name is an error: the flush fails, and every later one until it is archived.
Ensure(p) ==
    /\ At(p, "ensure", TRUE)
    /\ LET t == hook[p].task IN
       \/ /\ bound[t] # Unbound /\ GoTo(p, "address") /\ UNCHANGED <<bound, quiet>>
       \/ /\ bound[t] = Unbound /\ lock = Free /\ task[t].st = "active"
          /\ bound' = [bound EXCEPT ![t] = task[t].id] /\ GoTo(p, "address")
          /\ UNCHANGED quiet
       \/ /\ bound[t] = Unbound /\ lock = Free /\ task[t].st = "none"
          /\ GoTo(p, "create") /\ UNCHANGED <<bound, quiet>>
       \/ /\ bound[t] = Unbound /\ lock = Free /\ task[t].st = "ended"
          /\ Dies(p) /\ UNCHANGED bound
    /\ UNCHANGED <<deltas, task, report, lock, counts, landed, made>>

EnsureRow(p) ==
    /\ At(p, "ensure", FALSE)
    /\ GoTo(p, IF task[hook[p].task].st = "active" THEN "update" ELSE "create")
    /\ UNCHANGED <<stores, counts, history>>

\* Mutant: the name is not looked up again under the lock.
CreateBlindly(p) == lock = Free

\* create_governed_task looks the name up under the lock: somebody else may have
\* provisioned the task since.
CanCreate(p) == lock = Free /\ task[hook[p].task].st = "none"

Create(p) ==
    /\ At(p, "create", TRUE) /\ lock = Free
    /\ IF CanCreate(p)
       THEN /\ lock' = p /\ task' = [task EXCEPT ![hook[p].task] = NewTask(hook[p].task)]
            /\ made' = Made(hook[p].task)
            /\ GoTo(p, "bind") /\ UNCHANGED quiet
       ELSE Dies(p) /\ UNCHANGED <<lock, task, made>>
    /\ UNCHANGED <<deltas, bound, report, counts, landed>>

Bind(p) ==
    /\ hook[p].at = "bind"
    /\ bound' = [bound EXCEPT ![hook[p].task] = task[hook[p].task].id]
    /\ lock' = Free /\ GoTo(p, "address")
    /\ UNCHANGED <<deltas, task, report, counts, history>>

\* start_working_task, under BEGIN IMMEDIATE
CreateRow(p) ==
    /\ At(p, "create", FALSE)
    /\ IF task[hook[p].task].st = "none"
       THEN /\ task' = [task EXCEPT ![hook[p].task] = NewTask(hook[p].task)]
            /\ made' = Made(hook[p].task)
            /\ GoTo(p, "update") /\ UNCHANGED quiet
       ELSE Dies(p) /\ UNCHANGED <<task, made>>
    /\ UNCHANGED <<deltas, bound, report, lock, counts, landed>>

\* governed_binding: the update is meant for the record that the name points to now.
Address(p) ==
    /\ hook[p].at = "address"
    /\ IF bound[hook[p].task] = Unbound THEN Dies(p)
       ELSE /\ hook' = [hook EXCEPT ![p].at = "update", ![p].id = bound[hook[p].task]]
            /\ UNCHANGED quiet
    /\ UNCHANGED <<stores, counts, landed, made>>

Landed(rows) == [id \in DOMAIN landed |->
                    IF id \in Ids(rows) THEN [landed[id] EXCEPT !.times = @ + 1] ELSE landed[id]]
Updated(t, rows) ==
    [task[t] EXCEPT !.files = @ \cup Range(FirstOf(MaxFiles, Union(rows))),
                    !.check = [turns |-> Cardinality(rows),
                               omitted |-> Len(Union(rows)) - Len(FirstOf(MaxFiles, Union(rows)))]]

\* apply_governed_update at the record's own revision, or update_working_task: when
\* the record, its binding or the row has gone in the meantime, nothing is left of it.
Update(p) ==
    /\ hook[p].at = "update"
    /\ LET t == hook[p].task IN
       /\ t \in Governed => lock = Free
       /\ IF /\ task[t].st = "active"
             /\ t \in Governed => bound[t] # Unbound /\ task[t].id = hook[p].id
          THEN /\ task' = [task EXCEPT ![t] = Updated(t, hook[p].rows)]
               /\ landed' = Landed(hook[p].rows)
               /\ GoTo(p, "delete") /\ UNCHANGED quiet
          ELSE Dies(p) /\ UNCHANGED <<task, landed>>
    /\ UNCHANGED <<deltas, bound, report, lock, counts, made>>

\* Mutant: what the task has pending is deleted.
KeptOthers(p) == {d \in deltas: d.task # hook[p].task}

\* Mutant: only the row that the turn itself added is deleted.
KeptButLast(p) == {d \in deltas: d.id # Max(Ids(hook[p].rows))}

\* The rows that were read are deleted by their ids.
Kept(p) == {d \in deltas: d.id \notin Ids(hook[p].rows)}

Delete(p) ==
    /\ hook[p].at = "delete"
    /\ deltas' = Kept(p)
    /\ hook' = [hook EXCEPT ![p].flushed = TRUE,
                   ![p].at = IF hook[p].task \in Governed THEN "maintain" ELSE "report"]
    /\ UNCHANGED <<task, bound, report, lock, counts, history>>

\* auto_compact takes closed records to the archive, where no name is looked up; or
\* nothing: it is switched off, fewer records (of any kind, not of tasks alone) have
\* ended than its threshold, or compact refuses, which is only reported.
Maintain(p) ==
    /\ hook[p].at = "maintain"
    /\ \/ /\ lock = Free
          /\ task' = [t \in Names |-> IF t \in Governed /\ task[t].st = "ended" THEN NoTask ELSE task[t]]
          /\ made' = Unmade({t \in Governed: task[t].st = "ended"})
       \/ UNCHANGED <<task, made>>
    /\ GoTo(p, "report")
    /\ UNCHANGED <<deltas, bound, report, lock, counts, landed, quiet>>

Report(p) ==
    /\ hook[p].at = "report"
    /\ report' = [task |-> hook[p].task, flushed |-> hook[p].flushed]
    /\ hook' = [hook EXCEPT ![p] = NoTurn]
    /\ UNCHANGED <<deltas, task, bound, lock, counts, history>>

\* An error ends the command: the lock or the database is busy, a file cannot be
\* written, a cited source is gone, a promotion raises.  What a create or an update
\* wrote is taken back.
Fail(p) ==
    /\ hook[p].at \notin {"idle", "report"} /\ fails < MaxFails /\ fails' = fails + 1
    /\ IF hook[p].at = "bind"
       THEN /\ task' = [task EXCEPT ![hook[p].task] = NoTask] /\ lock' = Free
            /\ bound' = [bound EXCEPT ![hook[p].task] = Unbound]
            /\ made' = Unmade({hook[p].task})
       ELSE UNCHANGED <<task, lock, bound, made>>
    /\ Dies(p)
    /\ UNCHANGED <<deltas, report, begun, ends, kills, landed>>

\* The hook's timeout; the kernel drops the lock.
Kill(p) ==
    /\ hook[p].at # "idle" /\ kills < MaxKills /\ kills' = kills + 1
    /\ lock' = IF lock = p THEN Free ELSE lock
    /\ Dies(p)
    /\ UNCHANGED <<deltas, task, bound, report, begun, ends, fails, landed, made>>

TurnNext ==
    \/ \E t \in Names: Complete(t)
    \/ \E p \in Hooks:
          \/ \E t \in Names, force \in BOOLEAN, dirty \in Changes: BeginTurn(p, t, force, dirty)
          \/ Count(p) \/ Read(p) \/ Ensure(p) \/ EnsureRow(p) \/ Create(p) \/ Bind(p)
          \/ Address(p)
          \/ CreateRow(p) \/ Update(p) \/ Delete(p) \/ Maintain(p) \/ Report(p)
          \/ Fail(p) \/ Kill(p)

TurnSpec == TurnInit /\ [][TurnNext]_turnVars

-----------------------------------------------------------------------------
(* Properties. *)

\* The rows, the commands and what is counted about them keep their types.
TurnTypeOK ==
    /\ deltas \subseteq Delta
    /\ landed \in Seq([task: Names, times: Nat])
    /\ task = [t \in Names |-> task[t]] /\ \A t \in Names: IsTask(task[t])
    /\ bound \in [Names -> Nat]
    /\ lock \in Hooks \cup {Free}
    /\ hook \in [Hooks -> Commands]
    /\ made \in [Names -> [all: Nat, open: Int]]
    /\ quiet \subseteq Names

\* "Deltas are removed only after the authoritative write lands, so an interrupted
\* flush replays rather than loses the buffer": a delta that is not pending any more
\* has reached its task, also one that was appended while another flush ran.
NoTurnIsLost ==
    \A id \in DOMAIN landed: landed[id].times = 0 => id \in Ids(deltas)

\* A delta reaches its task once and leaves the buffer with the flush that brought it
\* there, unless a turn of the task failed, was killed or overlapped with another.
QuietTurnsLandOnce ==
    \A id \in DOMAIN landed: landed[id].task \in quiet =>
       /\ landed[id].times <= 1
       /\ landed[id].times = 1 /\ id \in Ids(deltas) =>
             \E p \in Hooks: hook[p].at = "delete" /\ id \in Ids(hook[p].rows)

\* Two first flushes of one branch, deaths between a record and its binding, and
\* flushes after a task was closed never leave two records of its name in use:
\* find_record would refuse the name from then on, and every flush with it.
OneRecordPerTask == \A t \in Names: made[t].open = (IF task[t].st = "none" THEN 0 ELSE 1)
=============================================================================
