---------------------------- MODULE BrainRecords ----------------------------
(***************************************************************************)
(* The dynamic records of the Project Brain                                *)
(* (memory-bank/scripts/brain_runtime.py) and the governed task commands   *)
(* of context.py: several processes work on one repository of files.       *)
(*                                                                         *)
(* A command first reads without the lock (whether a name is taken, which  *)
(* record a working task is bound to, at which revision the caller saw     *)
(* it), then takes the one file lock and writes one file after the other:  *)
(* the record, its handoff, the indexes, and for some commands the binding *)
(* in the local database.  An exception under the lock restores what the   *)
(* command had snapshotted; a kill restores nothing and frees the lock.    *)
(*                                                                         *)
(* The two index files are written as one.  A record's text, owner,        *)
(* authority and sources are left out, and so are the citations that       *)
(* compaction rewrites in the memory bank.                                 *)
(***************************************************************************)
EXTENDS Naturals, FiniteSets, Sequences, Functions

CONSTANTS Procs,            \* processes running context.py
          Names,            \* external ids of tasks
          Asked,            \* statuses that callers ask brain-update for
          MaxRecords,       \* bound: records ever created
          MaxRev,           \* bound: revisions of a record
          MaxWritten,       \* bound: revisions of all records
          MaxMessages,      \* bound: entries of a task's journal
          MaxFails,         \* bound: exceptions under the lock
          MaxKills          \* bound: kills under the lock

ASSUME AskedAssumption ==
    Asked \subseteq {"active", "blocked", "verifying", "completed", "cancelled", "superseded"}
ASSUME BoundsAssumption ==
    /\ {MaxRecords, MaxRev, MaxWritten, MaxMessages, MaxFails, MaxKills} \subseteq Nat
    /\ MaxRev # 0
ASSUME HolderAssumption == "free" \notin Procs

Ids == 1..MaxRecords
Free == "free"              \* the lock's holder when nobody holds it
AutoRev == 0                \* --revision auto: read the revision under the lock
Same == "same"              \* no --transition

FirstStatus == [task |-> "active", event |-> "recorded"]
Transitions ==
    [task |-> [active    |-> {"blocked", "verifying", "completed", "cancelled"},
               blocked   |-> {"active", "cancelled"},
               verifying |-> {"active", "completed", "cancelled"},
               completed |-> {},
               cancelled |-> {}],
     event |-> [recorded |-> {"superseded"}, superseded |-> {}]]
Terminal == {"completed", "cancelled", "superseded"}

\* An event's name is derived from the task it reports, so it is that task's id.
Absent == [place |-> "none", kind |-> "task", name |-> 0, status |-> "active", rev |-> 0]
Entries == [place: {"none", "dynamic", "archive"}, kind: {"task", "event"},
            name: Names \cup Ids \cup {0}, status: DOMAIN Transitions.task \cup DOMAIN Transitions.event,
            rev: 0..MaxRev]
NoHandoff == [place |-> "none", rev |-> 0, status |-> "active"]
Handoffs == [place: {"none", "control", "archive"}, rev: 0..MaxRev, status: {"active", "closed"}]
Idle == [at |-> "idle", cmd |-> "none", id |-> 0, name |-> 0, seen |-> AutoRev, to |-> Same]
NoUndo == [rec |-> <<>>, hand |-> <<>>, index |-> {}]

VARIABLES rec,      \* rec[i]: the file of record i, and the directory it is in
          hand,     \* hand[i]: the handoff of task i
          index,    \* indexes/active.json and indexes/archive.json
          journal,  \* journal[i]: the task revision quoted by each message of task i
          binding,  \* binding[n]: the record the local database binds n to, or 0
          born,     \* UUIDs given out
          lock,     \* the holder of local/runtime.lock, or Free
          undo,     \* the snapshot of the command that holds the lock
          proc,     \* proc[p]: the command p runs and the next thing it does
          acked,    \* history: the commands on record i that reported success
          fails, kills,
          commitFails   \* history: completions whose database commit failed

files == <<rec, hand, index>>
vars == <<rec, hand, index, journal, binding, born, lock, undo, proc, acked,
          fails, kills, commitFails>>

-----------------------------------------------------------------------------
(* What the files say.                                                     *)

InPlace(r, where) == {i \in Ids: r[i].place = where}

\* find_record without include_archive: the dynamic records that carry a name.
Named(n) == {i \in InPlace(rec, "dynamic"): rec[i].name = n}

\* build_index_data, computed from the record files.
Derived(r) == {[id |-> i, status |-> r[i].status, rev |-> r[i].rev, place |-> r[i].place]:
                 i \in {j \in Ids: r[j].place # "none"}}

\* validate_repository: archived records are terminal, every handoff quotes its
\* task's revision from beside it, and the indexes are the derived ones.
Valid == /\ \A i \in InPlace(rec, "archive"): rec[i].status \in Terminal
         /\ \A i \in Ids: /\ hand[i].place = "control" => rec[i].place = "dynamic"
                          /\ hand[i].place = "archive" => hand[i].status = "closed"
                          /\ hand[i].place # "none" => /\ rec[i].place # "none"
                                                       /\ hand[i].rev = rec[i].rev
         /\ index = Derived(rec)

\* _handoff_for: the handoff rendered from a task record.
HandoffOf(r) == [place |-> "control", rev |-> r.rev,
                 status |-> IF r.status \in Terminal THEN "closed" ELSE "active"]

NewRecord(kind, n) == [place |-> "dynamic", kind |-> kind, name |-> n,
                       status |-> FirstStatus[kind], rev |-> 1]

\* update_record's result, for a caller whose fields and transition are accepted.
Revised(r, to) == [r EXCEPT !.status = IF to = Same THEN r.status ELSE to,
                            !.rev = r.rev + 1]

\* Mutant: the lifecycle is not consulted.
AcceptsAnyStatus(r, seen, to) == r.place = "dynamic" /\ seen \in {AutoRev, r.rev}

\* What update_record accepts: the revision the caller expects and an edge of the
\* lifecycle.  A terminal record refuses transitions, not changes, and an event
\* takes a change of its conflicts.
Accepts(r, seen, to) == /\ r.place = "dynamic"
                        /\ seen \in {AutoRev, r.rev}
                        /\ to # Same => to \in Transitions[r.kind][r.status]

Movable(i) == rec[i].place = "dynamic" /\ rec[i].status \in Terminal

-----------------------------------------------------------------------------
Init == /\ rec = [i \in Ids |-> Absent]
        /\ hand = [i \in Ids |-> NoHandoff]
        /\ index = {}
        /\ journal = [i \in Ids |-> <<>>]
        /\ binding = [n \in Names |-> 0]
        /\ born = 0
        /\ lock = Free
        /\ undo = NoUndo
        /\ proc = [p \in Procs |-> Idle]
        /\ acked = [i \in Ids |-> 0]
        /\ fails = 0 /\ kills = 0 /\ commitFails = 0

-----------------------------------------------------------------------------
(* What a command reads before it waits for the lock.                      *)

Ask(p, command) == /\ proc[p] = Idle
                   /\ proc' = [proc EXCEPT ![p] = command]
                   /\ UNCHANGED <<files, journal, binding, born, lock, undo, acked,
                                  fails, kills, commitFails>>

\* brain-create: the name is looked up before the lock is taken.
AskCreate(p, n) ==
    /\ Named(n) = {}
    /\ Ask(p, [Idle EXCEPT !.at = "waiting", !.cmd = "create", !.name = n])

\* start: the name is looked up under the lock.
AskStart(p, n) == Ask(p, [Idle EXCEPT !.at = "waiting", !.cmd = "start", !.name = n])

\* update, complete and clear: the binding is read first, and the revision the
\* caller names is the one it has seen.  Only an update may leave it to the
\* lock, and clear checks none.
AskBound(p, n, cmd, seen, to) ==
    /\ binding[n] # 0
    /\ cmd = "complete" => rec[binding[n]].place = "dynamic"
    /\ seen \in {AutoRev, rec[binding[n]].rev}
    /\ Ask(p, [at |-> "waiting", cmd |-> cmd, id |-> binding[n], name |-> n,
               seen |-> seen, to |-> to])
AskUpdate(p, n, seen) == AskBound(p, n, "update", seen, Same)
AskComplete(p, n, seen) == seen # AutoRev /\ AskBound(p, n, "complete", seen, "completed")
AskClear(p, n) == AskBound(p, n, "clear", AutoRev, "cancelled")

\* brain-update: any dynamic record, by its UUID.
AskBrainUpdate(p, i, seen, to) ==
    /\ rec[i].place = "dynamic"
    /\ seen \in {AutoRev, rec[i].rev}
    /\ Ask(p, [Idle EXCEPT !.at = "waiting", !.cmd = "brain", !.id = i, !.seen = seen, !.to = to])

AskCompact(p) == Ask(p, [Idle EXCEPT !.at = "waiting", !.cmd = "compact"])

-----------------------------------------------------------------------------
(* The lock is taken and the command decides under it.                     *)

Written == FoldFunction(LAMBDA r, n: r.rev + n, 0, rec)

CanCreate(c) == /\ c.cmd = "start" => Named(c.name) = {}
                /\ born < MaxRecords /\ Written < MaxWritten
CanRevise(c) == /\ Accepts(rec[c.id], c.seen, c.to)
                /\ c.cmd = "complete" => binding[c.name] # 0
                /\ rec[c.id].rev < MaxRev /\ Written < MaxWritten
CanCompact == Valid /\ \E i \in Ids: Movable(i)

Can(c) == \/ c.cmd \in {"create", "start"} /\ CanCreate(c)
          \/ c.cmd = "compact" /\ CanCompact
          \/ c.cmd \in {"update", "complete", "clear", "brain"} /\ CanRevise(c)

\* A command that may proceed snapshots what it will write.
Begin(p) ==
    /\ lock = Free
    /\ proc[p].at = "waiting"
    /\ Can(proc[p])
    /\ lock' = p
    /\ undo' = [rec |-> rec, hand |-> hand, index |-> index]
    /\ LET creates == proc[p].cmd \in {"create", "start"}
       IN /\ born' = IF creates THEN born + 1 ELSE born
          /\ proc' = [proc EXCEPT ![p].at = IF proc[p].cmd = "compact" THEN "move" ELSE "record",
                                  ![p].id = IF creates THEN born + 1 ELSE proc[p].id]
    /\ UNCHANGED <<files, journal, binding, acked, fails, kills, commitFails>>

\* A command that may not proceed (or has reached a bound) ends with an error.
Refuse(p) ==
    /\ lock = Free
    /\ proc[p].at = "waiting"
    /\ ~Can(proc[p])
    /\ proc' = [proc EXCEPT ![p] = Idle]
    /\ UNCHANGED <<files, journal, binding, born, lock, undo, acked,
                   fails, kills, commitFails>>

-----------------------------------------------------------------------------
(* Under the lock, one file at a time.                                     *)

At(p, where) == lock = p /\ proc[p].at = where
GoTo(p, where) == proc' = [proc EXCEPT ![p].at = where]

\* The command reports success to its caller and frees the lock.
Done(p) == /\ proc' = [proc EXCEPT ![p] = Idle]
           /\ lock' = Free
           /\ undo' = NoUndo
           /\ acked' = IF proc[p].cmd = "compact" THEN acked
                       ELSE [acked EXCEPT ![proc[p].id] = @ + 1]

\* _write_record: the record's file.
WriteRecord(p) ==
    /\ At(p, "record")
    /\ LET c == proc[p]
       IN rec' = [rec EXCEPT ![c.id] = IF c.cmd \in {"create", "start"} THEN NewRecord("task", c.name)
                                       ELSE Revised(rec[c.id], c.to)]
    /\ GoTo(p, IF rec'[proc[p].id].kind = "task" THEN "handoff" ELSE "index")
    /\ UNCHANGED <<hand, index, journal, binding, born, lock, undo, acked,
                   fails, kills, commitFails>>

\* _write_record: the task's handoff.
WriteHandoff(p) ==
    /\ At(p, "handoff")
    /\ hand' = [hand EXCEPT ![proc[p].id] = HandoffOf(rec[proc[p].id])]
    /\ GoTo(p, "index")
    /\ UNCHANGED <<rec, index, journal, binding, born, lock, undo, acked,
                   fails, kills, commitFails>>

\* compact: os.replace moves the terminal records, each followed by its handoff.
MoveFile(p, i) ==
    /\ At(p, "move")
    /\ LET behind == {j \in InPlace(rec, "archive"): hand[j].place = "control"}
       IN \/ /\ behind = {}
             /\ Movable(i)
             /\ rec' = [rec EXCEPT ![i].place = "archive"]
             /\ UNCHANGED hand
          \/ /\ i \in behind
             /\ hand' = [hand EXCEPT ![i].place = "archive"]
             /\ UNCHANGED rec
    /\ LET left == {j \in Ids: \/ rec'[j].place = "dynamic" /\ rec'[j].status \in Terminal
                               \/ rec'[j].place = "archive" /\ hand'[j].place = "control"}
       IN GoTo(p, IF left = {} THEN "index" ELSE "move")
    /\ UNCHANGED <<index, journal, binding, born, lock, undo, acked,
                   fails, kills, commitFails>>

\* rebuild_indexes, and what each command does after it.
Reindex(p) ==
    /\ At(p, "index")
    /\ index' = Derived(rec)
    /\ \/ proc[p].cmd \in {"create", "brain", "compact"} /\ Done(p)
       \/ proc[p].cmd = "complete" /\ GoTo(p, "event") /\ UNCHANGED <<lock, undo, acked>>
       \/ proc[p].cmd \in {"start", "update", "clear"} /\ GoTo(p, "bind") /\ UNCHANGED <<lock, undo, acked>>
    /\ UNCHANGED <<rec, hand, journal, binding, born, fails, kills, commitFails>>

\* start binds the name, update refreshes the row, clear deletes it.
Bind(p) ==
    /\ At(p, "bind")
    /\ LET c == proc[p]
       IN \/ /\ c.cmd = "start" /\ binding[c.name] = 0
             /\ binding' = [binding EXCEPT ![c.name] = c.id]
          \/ /\ c.cmd = "update" /\ binding[c.name] # 0
             /\ UNCHANGED binding
          \/ /\ c.cmd = "clear" /\ binding[c.name] # 0
             /\ binding' = [binding EXCEPT ![c.name] = 0]
    /\ Done(p)
    /\ UNCHANGED <<files, journal, born, fails, kills, commitFails>>

\* record_completion_event: the completed task is reported once, as an event.
WriteEvent(p) ==
    /\ At(p, "event")
    /\ Named(proc[p].id) = {}
    /\ born < MaxRecords
    /\ born' = born + 1
    /\ rec' = [rec EXCEPT ![born + 1] = NewRecord("event", proc[p].id)]
    /\ GoTo(p, "eventIndex")
    /\ UNCHANGED <<hand, index, journal, binding, lock, undo, acked, fails, kills, commitFails>>

ReindexEvent(p) ==
    /\ At(p, "eventIndex")
    /\ index' = Derived(rec)
    /\ GoTo(p, "commit")
    /\ UNCHANGED <<rec, hand, journal, binding, born, lock, undo, acked,
                   fails, kills, commitFails>>

\* Mutant: an event that cannot be written fails the completion.
FailEvent(p) ==
    /\ At(p, "event") \/ At(p, "eventIndex")
    /\ rec' = [rec EXCEPT ![proc[p].id] = undo.rec[proc[p].id]]
    /\ hand' = [hand EXCEPT ![proc[p].id] = undo.hand[proc[p].id]]
    /\ index' = undo.index
    /\ proc' = [proc EXCEPT ![p] = Idle]
    /\ lock' = Free
    /\ undo' = NoUndo
    /\ UNCHANGED <<journal, binding, born, acked, fails, kills, commitFails>>

\* An event that cannot be written is given up in silence: before its file is
\* there, or after, when create_record takes back the file and the indexes.
GiveUpEvent(p) ==
    /\ At(p, "event") \/ At(p, "eventIndex")
    /\ rec' = IF At(p, "eventIndex") THEN [rec EXCEPT ![born] = Absent] ELSE rec
    /\ GoTo(p, "commit")
    /\ UNCHANGED <<hand, index, journal, binding, born, lock, undo, acked,
                   fails, kills, commitFails>>

\* complete_governed_task: the local database lets the binding go.
Commit(p) ==
    /\ At(p, "commit")
    /\ binding' = [binding EXCEPT ![proc[p].name] = 0]
    /\ Done(p)
    /\ UNCHANGED <<files, journal, born, fails, kills, commitFails>>

-----------------------------------------------------------------------------
(* What goes wrong under the lock.                                         *)

\* Mutants: a snapshot without the indexes, without the record.
RestoreButIndex(p) ==
    /\ rec' = IF proc[p].cmd = "compact" THEN undo.rec
              ELSE [rec EXCEPT ![proc[p].id] = undo.rec[proc[p].id]]
    /\ hand' = IF proc[p].cmd = "compact" THEN undo.hand
               ELSE [hand EXCEPT ![proc[p].id] = undo.hand[proc[p].id]]
    /\ UNCHANGED index
RestoreButRecord(p) ==
    /\ rec' = IF proc[p].cmd = "compact" THEN undo.rec ELSE rec
    /\ hand' = IF proc[p].cmd = "compact" THEN undo.hand
               ELSE [hand EXCEPT ![proc[p].id] = undo.hand[proc[p].id]]
    /\ index' = undo.index

\* restore_files: the command's own record and handoff, or all that compaction
\* moves, and the indexes.
Restore(p) ==
    /\ rec' = IF proc[p].cmd = "compact" THEN undo.rec
              ELSE [rec EXCEPT ![proc[p].id] = undo.rec[proc[p].id]]
    /\ hand' = IF proc[p].cmd = "compact" THEN undo.hand
               ELSE [hand EXCEPT ![proc[p].id] = undo.hand[proc[p].id]]
    /\ index' = undo.index

GiveUp(p) == /\ proc' = [proc EXCEPT ![p] = Idle]
             /\ lock' = Free
             /\ undo' = NoUndo

\* An exception while the files are written, or in the binding of an update or a
\* clear (whose row may be gone): everything is restored.
Fail(p) ==
    /\ lock = p
    /\ \/ /\ \/ proc[p].at \in {"record", "handoff", "move", "index"}
             \/ proc[p].at = "bind" /\ proc[p].cmd # "start"
          /\ fails < MaxFails
          /\ fails' = fails + 1
       \/ /\ proc[p].at = "bind" /\ proc[p].cmd # "start"
          /\ binding[proc[p].name] = 0
          /\ UNCHANGED fails
    /\ Restore(p)
    /\ GiveUp(p)
    /\ UNCHANGED <<journal, binding, born, acked, kills, commitFails>>

\* create_governed_task cannot bind: the rows of the name are deleted, whoever
\* they bound it to, and rollback_created_record removes the new files.
FailStart(p) ==
    /\ At(p, "bind")
    /\ proc[p].cmd = "start"
    /\ \/ binding[proc[p].name] # 0 /\ UNCHANGED fails
       \/ binding[proc[p].name] = 0 /\ fails < MaxFails /\ fails' = fails + 1
    /\ binding' = [binding EXCEPT ![proc[p].name] = 0]
    /\ rec' = [rec EXCEPT ![proc[p].id] = Absent]
    /\ hand' = [hand EXCEPT ![proc[p].id] = NoHandoff]
    /\ index' = Derived(rec')
    /\ GiveUp(p)
    /\ UNCHANGED <<journal, born, acked, kills, commitFails>>

\* The commit of a completion fails: the task is restored, and the indexes of
\* before it, but not the event.
FailCommit(p) ==
    /\ At(p, "commit")
    /\ fails < MaxFails
    /\ fails' = fails + 1
    /\ commitFails' = commitFails + 1
    /\ Restore(p)
    /\ GiveUp(p)
    /\ UNCHANGED <<journal, binding, born, acked, kills>>

\* SIGKILL, or a Ctrl-C that no "except Exception" catches.
Kill(p) ==
    /\ lock = p
    /\ kills < MaxKills
    /\ kills' = kills + 1
    /\ GiveUp(p)
    /\ UNCHANGED <<files, journal, binding, born, acked, fails, commitFails>>

-----------------------------------------------------------------------------
(* Commands of one step under the lock.                                    *)

\* Mutant: a message is appended without the lock.
AppendUnlocked(i) ==
    /\ rec[i].place = "dynamic" /\ rec[i].kind = "task" /\ rec[i].status \notin Terminal
    /\ Len(journal[i]) < MaxMessages
    /\ journal' = [journal EXCEPT ![i] = Append(@, rec[i].rev)]
    /\ UNCHANGED <<files, binding, born, lock, undo, proc, acked, fails, kills, commitFails>>

\* append_message: a task that is not terminal takes a message.
AppendMessage(i) ==
    /\ lock = Free
    /\ rec[i].place = "dynamic" /\ rec[i].kind = "task" /\ rec[i].status \notin Terminal
    /\ Len(journal[i]) < MaxMessages
    /\ journal' = [journal EXCEPT ![i] = Append(@, rec[i].rev)]
    /\ UNCHANGED <<files, binding, born, lock, undo, proc, acked, fails, kills, commitFails>>

\* rebind_governed_task: the one live task of a name nothing binds.
Rebind(n) ==
    /\ lock = Free
    /\ binding[n] = 0
    /\ \E i \in Ids: /\ Named(n) = {i}
                     /\ rec[i].status \notin Terminal
                     /\ binding' = [binding EXCEPT ![n] = i]
    /\ UNCHANGED <<files, journal, born, lock, undo, proc, acked, fails, kills, commitFails>>

-----------------------------------------------------------------------------
Next ==
    \/ \E p \in Procs:
         \/ \E n \in Names: \/ AskCreate(p, n) \/ AskStart(p, n) \/ AskClear(p, n)
                            \/ \E seen \in 0..MaxRev: AskUpdate(p, n, seen) \/ AskComplete(p, n, seen)
         \/ \E i \in Ids, seen \in 0..MaxRev, to \in Asked \cup {Same}:
              AskBrainUpdate(p, i, seen, to)
         \/ AskCompact(p)
         \/ Begin(p) \/ Refuse(p)
         \/ WriteRecord(p) \/ WriteHandoff(p) \/ (\E i \in Ids: MoveFile(p, i))
         \/ Reindex(p) \/ Bind(p) \/ WriteEvent(p) \/ ReindexEvent(p) \/ GiveUpEvent(p) \/ Commit(p)
         \/ Fail(p) \/ FailStart(p) \/ FailCommit(p) \/ Kill(p)
    \/ \E i \in Ids: AppendMessage(i)
    \/ \E n \in Names: Rebind(n)

Spec == Init /\ [][Next]_vars

-----------------------------------------------------------------------------
(* Properties.                                                             *)

Commands == [at: {"idle", "waiting", "record", "handoff", "move", "index", "bind",
                  "event", "eventIndex", "commit"},
             cmd: {"none", "create", "start", "update", "complete", "clear", "brain", "compact"},
             id: 0..MaxRecords, name: Names \cup {0}, seen: 0..MaxRev,
             to: DOMAIN Transitions.task \cup {"superseded", Same}]

\* The variables keep their shapes, and only the holder of the lock is past it.
TypeOK == /\ rec \in [Ids -> Entries]
          /\ hand \in [Ids -> Handoffs]
          /\ \A e \in index: e \in [id: Ids, status: {r.status: r \in Entries}, rev: 1..MaxRev,
                                    place: {"dynamic", "archive"}]
          /\ \A i \in Ids: journal[i] \in Seq(1..MaxRev)
          /\ binding \in [Names -> 0..MaxRecords]
          /\ born \in 0..MaxRecords
          /\ lock \in Procs \cup {Free}
          /\ proc \in [Procs -> Commands]
          /\ \A p \in Procs: lock = p <=> proc[p].at \notin {"idle", "waiting"}

\* A repository nobody is writing to passes its own validation whatever failed
\* before, as long as no process was killed and no completion failed to commit:
\* handoffs quote their task's revision, archived files lie together, and the
\* indexes are the derived ones (restore_files, the snapshot each command takes).
QuietStoreIsValid == lock = Free /\ kills = 0 /\ commitFails = 0 => Valid

\* The same of every failure that is an exception, a failed commit included.
EveryFailureRestores == lock = Free /\ kills = 0 => Valid

\* Every success reported to a caller is one revision of the task it named, and a
\* revision nobody was told of was left by a kill: no two commands write the same
\* revision and none that failed stays (mutation_lock, restore_record_state).  A
\* handoff is never ahead of its task, and each kill leaves it at most one revision
\* behind (_write_record writes the record, then the handoff).
RevisionsCountSuccesses ==
    lock = Free => \A i \in Ids: rec[i].kind = "task" =>
        rec[i].rev \in acked[i]..(acked[i] + kills) \cap hand[i].rev..(hand[i].rev + kills)

\* The journal of a task quotes revisions the task has had, in order, and none
\* that it reached when it ended or later: a message is never appended between
\* the write of a record and its restoration (append_message holds the lock).
MessagesFollowRevisions ==
    \A i \in Ids: \A m \in DOMAIN journal[i]:
        /\ \A k \in 1..m: journal[i][k] <= journal[i][m]
        /\ journal[i][m] \in 1..rec[i].rev
        /\ rec[i].status \in Terminal => journal[i][m] < rec[i].rev

\* An event reports the completion of a task that is completed, also when the
\* process is killed in between (record_completion_event after close_task),
\* unless a completion failed to commit.
EventsReportCompletedTasks == commitFails = 0 =>
    \A e \in Ids: rec[e].place # "none" /\ rec[e].kind = "event" => rec[rec[e].name].status = "completed"

\* The records as everyone but the holder of the lock may rely on them: to the
\* others each command, finished, failed or killed, is one step of the ledger.
Ledger == INSTANCE RecordLedger WITH ledger <- IF lock = Free THEN rec ELSE undo.rec
RefinesLedger == Ledger!Spec

\* A name is given to one dynamic record ("Project Brain record already exists").
OneRecordPerName == \A n \in Names: Cardinality(Named(n)) <= 1
=============================================================================
