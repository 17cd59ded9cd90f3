---------------------------- MODULE SourceIndex ----------------------------
(***************************************************************************)
(* The index of repository files that retrieval reads: index_repository    *)
(* and discover_documents (memory-bank/scripts/context.py) decide what is  *)
(* read again, index_documents (context_retrieval.py) replaces the rows in *)
(* one transaction of the local database.                                  *)
(*                                                                         *)
(* A run walks the files and takes their stats, asks which of them the     *)
(* last run has cached, validates and reads the others one after the other,*)
(* asks the database for what was stored, compares the mirrors, reads the  *)
(* Brain, asks for the paths held and for the size of the cache, and       *)
(* commits.  Only the commit is a transaction: files change, and other     *)
(* runs commit, between any two of these steps, also between the reading   *)
(* that validates a file and the one that indexes it.                      *)
(*                                                                         *)
(* A file's version stands for its text and its stat; one record stands    *)
(* for the Brain's, and the configuration for whether it is allowed.  The  *)
(* links are part of a row.  Ignored files and files that two patterns     *)
(* match are left out; one step stats all files, and one compares all      *)
(* mirrors.                                                                *)
(***************************************************************************)
EXTENDS Naturals, FiniteSets, Sequences, Functions

CONSTANTS Procs,        \* processes running context.py
          Order,        \* the candidate files, in the order of SOURCE_PATTERNS
          Kind,         \* Kind[f]: "memory" for a chunk, else "text"
          Skill,        \* Skill[f]: what a mirrored skill is a copy of, else f itself
          Tokens,       \* words whose frequency is asked for
          LastDay,      \* bound: days of the calendar
          MaxEdits,     \* bound: changes of files
          MaxRuns       \* bound: runs of the index and counts of words

Files == Range(Order)
ASSUME IndexAssumption ==
    /\ Order \in Seq(Files) \ {<<>>} /\ "record" \notin Files
    /\ Kind \in [Files -> {"memory", "text"}] /\ DOMAIN Skill = Files
    /\ {LastDay, MaxEdits, MaxRuns} \subseteq Nat
    /\ \A i, j \in DOMAIN Order: Order[i] = Order[j] => i = j
    /\ \A f, g \in Files: Kind[f] = "memory" /\ Skill[f] = Skill[g] => f = g

Record == "record"          \* the path of the Brain's record
Gone == [ver |-> 0, ok |-> FALSE, until |-> 0]
Empty == <<>>               \* a table or a dictionary without entries

\* An entry of a dictionary is set.
Put(t, k, v) == [x \in DOMAIN t \cup {k} |-> IF x = k THEN v ELSE t[x]]

VARIABLES day, files,       \* files[f]: text and stat, whether it passes, until when
          cited,            \* whether the file that the chunks cite is there
          brain, config,    \* the record's version, and whether it is allowed
          docs, meta,       \* tables documents and document_metadata
          state,            \* document_source_state: the stat a row was read at
          prints, parity,   \* index_state: fingerprints, and the drift of mirrors
          gen, freq,        \* index_state: generation, and token frequencies
          proc, runs, edits,
          calm, alone,      \* history: runs during which no file changed, no other ran
          fresh, mixed      \* history: the last run was both; runs overlapped since
                            \* a full one that did not

world == <<day, files, cited, brain, config, edits>>
db == <<docs, meta, state, prints, parity, gen, freq>>
history == <<calm, alone, fresh, mixed>>
vars == <<world, db, proc, runs, history>>

Idle == [at |-> "idle", full |-> FALSE, stats |-> Empty, prints |-> Empty, cache |-> Empty,
         next |-> 1, until |-> 0, claimed |-> {}, keep |-> {}, rows |-> {}, state |-> Empty,
         conf |-> FALSE, stored |-> Empty, parity |-> Empty, existing |-> {},
         gen |-> 0, counts |-> Empty, learned |-> FALSE]

-----------------------------------------------------------------------------
(* What a run makes of a file.                                             *)

\* validate_secret_patterns, and for a chunk memory_eligibility.
Passes(f) == /\ files[f].ver # 0 /\ files[f].ok
             /\ Kind[f] = "memory" => day <= files[f].until /\ cited

\* memory_eligible_until: the boundary recorded with a chunk's stat.
Boundary(f) == IF Kind[f] = "memory" THEN files[f].until ELSE 0

\* Mutant: the calendar is not consulted.
StatOnly(f, c) == f \in DOMAIN c.cache /\ c.cache[f].ver = c.stats[f]

\* _cache_entry_is_current: the stat of the walk, and the calendar.
IsCurrent(f, c) == /\ f \in DOMAIN c.cache /\ c.cache[f].ver = c.stats[f]
                   /\ Kind[f] = "memory" => day <= c.cache[f].until

\* skill_tree_fingerprint and config_fingerprint, from the stats of the walk.
Mirrored == {f \in Files: Skill[f] # f \/ \E g \in Files: g # f /\ Skill[g] = f}
Fingerprints(stats) == [config |-> config, skills |-> Restrict(stats, Mirrored \cap DOMAIN stats)]

\* skill_mirror_drift: what the copies say now.
Drift == [f \in {g \in Mirrored: files[g].ver # 0} |-> files[f].ver]

\* _brain_documents: the record is read anew each time, if conf allows it.
BrainRowsOf(conf) == IF conf THEN {<<Record, brain>>} ELSE {}
BrainRows == BrainRowsOf(config)

Indexed == {d[1]: d \in docs}

-----------------------------------------------------------------------------
Init == /\ day = 1 /\ cited = TRUE /\ brain = 1 /\ config = TRUE /\ edits = 0
        /\ files \in [Files -> {[ver |-> 1, ok |-> ok, until |-> 1]: ok \in BOOLEAN}]
        /\ docs = {} /\ meta = Empty /\ state = Empty
        /\ prints = Empty /\ parity = Empty
        /\ gen = 0 /\ freq = [gen |-> 0, counts |-> Empty]
        /\ proc = [p \in Procs |-> Idle]
        /\ runs = 0
        /\ calm = {} /\ alone = {} /\ fresh = FALSE /\ mixed = FALSE

-----------------------------------------------------------------------------
(* The world changes.                                                      *)

Changes == /\ calm' = {} /\ fresh' = FALSE
           /\ UNCHANGED <<alone, mixed, db, proc, runs>>

Tick == /\ day < LastDay
        /\ day' = day + 1
        /\ Changes
        /\ UNCHANGED <<files, cited, brain, config, edits>>

Edit == /\ edits < MaxEdits
        /\ edits' = edits + 1
        /\ Changes
        /\ UNCHANGED day

EditFile(f, ok, until) ==
    /\ Edit
    /\ Kind[f] = "text" => until = 1
    /\ files' = [files EXCEPT ![f] = [ver |-> edits + 2, ok |-> ok, until |-> until]]
    /\ UNCHANGED <<cited, brain, config>>

DeleteFile(f) ==
    /\ Edit
    /\ files[f] # Gone
    /\ files' = [files EXCEPT ![f] = Gone]
    /\ UNCHANGED <<cited, brain, config>>

DeleteCited == /\ Edit
               /\ cited /\ cited' = FALSE
               /\ UNCHANGED <<files, brain, config>>

EditRecord == /\ Edit
              /\ brain' = edits + 2
              /\ UNCHANGED <<files, cited, config>>

Configure == /\ Edit
             /\ config' = ~config
             /\ UNCHANGED <<files, cited, brain>>

\* connect: a database without the table of links loses its cache of stats.
Upgrade == /\ state # Empty /\ edits < MaxEdits
           /\ edits' = edits + 1
           /\ state' = Empty
           /\ UNCHANGED <<day, files, cited, brain, config, docs, meta, prints, parity, gen, freq,
                          proc, runs, history>>

-----------------------------------------------------------------------------
(* A run of the index.                                                     *)

Running == {p \in Procs: proc[p].at \notin {"idle", "counting"}}

\* collect_source_candidates and index_fingerprints.
Walk(p, full) ==
    /\ proc[p] = Idle /\ runs < MaxRuns
    /\ runs' = runs + 1
    /\ LET stats == [f \in {g \in Files: files[g] # Gone} |-> files[f].ver]
       IN proc' = [proc EXCEPT ![p] = [Idle EXCEPT !.at = IF full THEN "reading" ELSE "reusing",
                                                   !.full = full, !.stats = stats,
                                                   !.prints = Fingerprints(stats)]]
    /\ calm' = calm \cup {p}
    /\ alone' = IF Running = {} THEN {p} ELSE {}
    /\ UNCHANGED <<world, db, fresh, mixed>>

\* reusable_source_state: nothing is reused when the configuration has changed.
Reuse(p) ==
    /\ proc[p].at = "reusing"
    /\ LET usable == prints # Empty /\ prints.config = proc[p].prints.config
       IN proc' = [proc EXCEPT ![p].at = "reading",
                               ![p].cache = IF usable THEN Restrict(state, DOMAIN state \cap Indexed)
                                            ELSE Empty]
    /\ UNCHANGED <<world, db, runs, history>>

\* The end of a run, and what the history makes of it.
Ends(p, wrote) ==
    /\ proc' = [proc EXCEPT ![p] = Idle]
    /\ calm' = calm \ {p} /\ alone' = alone \ {p}
    /\ fresh' = (p \in calm /\ p \in alone)
    /\ mixed' = IF p \notin alone THEN mixed \/ wrote ELSE mixed /\ ~(wrote /\ proc[p].full)

Onward(c) == [c EXCEPT !.at = IF c.next = Len(Order) THEN "recalling" ELSE "reading",
                       !.next = @ + 1, !.until = 0]

\* discover_documents, one candidate: a copy of a skill that is already indexed is
\* skipped, a cached row is kept, and what does not pass is left out.
ReadNext(p) ==
    /\ proc[p].at = "reading"
    /\ LET c == proc[p]
           f == Order[c.next]
           retained == [c EXCEPT !.claimed = @ \cup {Skill[f]}, !.keep = @ \cup {f},
                                 !.state = Put(@, f, c.cache[f])]
       IN proc' = [proc EXCEPT ![p] =
                     IF f \notin DOMAIN c.stats \/ Skill[f] \in c.claimed THEN Onward(c)
                     ELSE IF IsCurrent(f, c) THEN Onward(retained)
                     ELSE IF Passes(f) THEN [c EXCEPT !.at = "opening", !.until = Boundary(f)]
                     ELSE Onward(c)]
    /\ UNCHANGED <<world, db, runs, history>>

\* What has passed is read once more, for the index: with the stat of the walk and the
\* boundary of the validation goes the text of now.  A file that has gone ends the run.
Open(p) ==
    /\ proc[p].at = "opening"
    /\ LET c == proc[p]
           f == Order[c.next]
           taken == [c EXCEPT !.claimed = @ \cup {Skill[f]},
                              !.rows = @ \cup {<<f, files[f].ver>>},
                              !.state = Put(@, f, [ver |-> c.stats[f], until |-> c.until])]
       IN \/ /\ files[f] # Gone
             /\ proc' = [proc EXCEPT ![p] = Onward(taken)] /\ UNCHANGED history
          \/ files[f] = Gone /\ Ends(p, FALSE)
    /\ UNCHANGED <<world, db, runs>>

\* index_documents up to its transaction.  The configuration, and what the last run
\* has stored: the drift of the mirrors too, if the skills are as they were.
Recall(p) ==
    /\ proc[p].at = "recalling"
    /\ LET known == prints # Empty /\ prints.skills = proc[p].prints.skills
       IN proc' = [proc EXCEPT ![p] = [@ EXCEPT !.at = IF known THEN "recording" ELSE "mirroring",
                                                !.conf = config, !.stored = prints,
                                                !.parity = IF known THEN parity ELSE Empty]]
    /\ UNCHANGED <<world, db, runs, history>>

CompareMirrors(p) ==
    /\ proc[p].at = "mirroring"
    /\ proc' = [proc EXCEPT ![p].at = "recording", ![p].parity = Drift]
    /\ UNCHANGED <<world, db, runs, history>>

ReadBrain(p) ==
    /\ proc[p].at = "recording"
    /\ proc' = [proc EXCEPT ![p].at = "listing", ![p].rows = @ \cup BrainRowsOf(proc[p].conf)]
    /\ UNCHANGED <<world, db, runs, history>>

\* The paths held.  A cache that disagrees with them makes the run start over as a
\* full one, with the stats it has.
List(p) ==
    /\ proc[p].at = "listing"
    /\ LET c == proc[p]
       IN proc' = [proc EXCEPT ![p] =
                     IF c.keep \subseteq Indexed THEN [c EXCEPT !.at = "comparing", !.existing = Indexed]
                     ELSE [Idle EXCEPT !.at = "reading", !.full = TRUE,
                                       !.stats = c.stats, !.prints = c.prints]]
    /\ UNCHANGED <<world, db, runs, history>>

\* Nothing to write: of what was asked one after the other, the size of the cache last.
NothingNew(c) == /\ ~c.full /\ c.rows = {} /\ c.existing = c.keep
                 /\ Cardinality(DOMAIN state) = Cardinality(c.keep)
                 /\ c.stored = c.prints

Compare(p) ==
    /\ proc[p].at = "comparing"
    /\ \/ /\ ~NothingNew(proc[p])
          /\ proc' = [proc EXCEPT ![p].at = "writing"] /\ UNCHANGED history
       \/ NothingNew(proc[p]) /\ Ends(p, FALSE)
    /\ UNCHANGED <<world, db, runs>>

\* Mutant: rows are inserted whatever is there.
NeverConflicts(c, kept) == FALSE

\* The primary key of document_metadata.
Conflicts(c, kept) == \E d \in c.rows: d[1] \in kept

\* The transaction: what is not kept of what was there is dropped, the new rows
\* are inserted, the cache and the fingerprints replaced.  A row that another run
\* has brought in the meantime makes it fail as a whole.
Commit(p) ==
    /\ proc[p].at = "writing"
    /\ LET c == proc[p]
           dropped == IF c.keep = {} THEN Indexed ELSE c.existing \ c.keep
           kept == DOMAIN meta \ dropped
           new == {d[1]: d \in c.rows}
       IN \/ Conflicts(c, kept) /\ Ends(p, FALSE) /\ UNCHANGED db
          \/ /\ ~Conflicts(c, kept)
             /\ docs' = {d \in docs: d[1] \notin dropped} \cup c.rows
             /\ meta' = [f \in kept \cup new |->
                          IF f \in new THEN (CHOOSE d \in c.rows: d[1] = f)[2] ELSE meta[f]]
             /\ state' = c.state /\ prints' = c.prints /\ parity' = c.parity
             /\ gen' = gen + 1
             /\ UNCHANGED freq
             /\ Ends(p, TRUE)
    /\ UNCHANGED <<world, runs>>

-----------------------------------------------------------------------------
(* token_document_frequencies, which every retrieval asks.                 *)

\* Reads the generation and the answers cached for it.
StartCount(p) ==
    /\ proc[p] = Idle /\ runs < MaxRuns
    /\ runs' = runs + 1
    /\ proc' = [proc EXCEPT ![p] = [Idle EXCEPT !.at = "counting", !.gen = gen,
                                    !.counts = IF freq.gen = gen THEN freq.counts ELSE Empty]]
    /\ UNCHANGED <<world, db, history>>

\* Counts one word that is not cached, in the rows of that moment.
CountToken(p, t) ==
    /\ proc[p].at = "counting" /\ t \notin DOMAIN proc[p].counts
    /\ proc' = [proc EXCEPT ![p].counts = Put(@, t, gen), ![p].learned = TRUE]
    /\ UNCHANGED <<world, db, runs, history>>

\* Mutant: the answers are stored for the generation of the moment.
StoreForNow(p) ==
    /\ proc[p].at = "counting"
    /\ freq' = IF proc[p].learned THEN [gen |-> gen, counts |-> proc[p].counts] ELSE freq
    /\ proc' = [proc EXCEPT ![p] = Idle]
    /\ UNCHANGED <<world, docs, meta, state, prints, parity, gen, runs, history>>

\* What was counted is stored with the generation that was read before.
StoreCounts(p) ==
    /\ proc[p].at = "counting"
    /\ freq' = IF proc[p].learned THEN [gen |-> proc[p].gen, counts |-> proc[p].counts] ELSE freq
    /\ proc' = [proc EXCEPT ![p] = Idle]
    /\ UNCHANGED <<world, docs, meta, state, prints, parity, gen, runs, history>>

-----------------------------------------------------------------------------
Next ==
    \/ Tick \/ DeleteCited \/ EditRecord \/ Configure \/ Upgrade
    \/ \E f \in Files: DeleteFile(f) \/ (\E ok \in BOOLEAN, until \in 1..LastDay: EditFile(f, ok, until))
    \/ \E p \in Procs: \/ \E full \in BOOLEAN: Walk(p, full)
                       \/ Reuse(p) \/ ReadNext(p) \/ Open(p)
                       \/ Recall(p) \/ CompareMirrors(p) \/ ReadBrain(p) \/ List(p)
                       \/ Compare(p) \/ Commit(p)
                       \/ StartCount(p) \/ (\E t \in Tokens: CountToken(p, t)) \/ StoreCounts(p)

Spec == Init /\ [][Next]_vars

-----------------------------------------------------------------------------
(* Properties.                                                             *)

\* What a full run would index now.
Wanted == {f \in Files: /\ Passes(f)
                        /\ \A i, j \in DOMAIN Order:
                             Order[j] = f /\ i < j /\ Skill[Order[i]] = Skill[f] => ~Passes(Order[i])}
Ideal == {<<f, files[f].ver>>: f \in Wanted} \cup BrainRows

\* An index that a run of its own has just made, incremental or full, over files
\* that did not change meanwhile, holds what a full run would put there, and knows
\* what every mirror says: whatever changed during earlier runs, expired since, or
\* was cached, reused or reconfigured (discover_documents takes the stat before the
\* read, _cache_entry_is_current asks the calendar).  Left out: runs that overlapped
\* with no full run since, and chunks whose cited file was deleted.
QuietRunsAreFaithful == fresh /\ ~mixed =>
    /\ {d \in docs: d[1] = Record \/ cited \/ Kind[d[1]] = "text"} = Ideal
    /\ \A f \in DOMAIN Drift: f \in DOMAIN parity /\ parity[f] = Drift[f]

\* The drift has nothing of mirrors that are no longer there.  It may have: one that
\* came between the walk of a run and its comparison, and went again, is not in the
\* fingerprint that the comparison is stored with (index_documents).
DriftIsCurrent == fresh /\ ~mixed => DOMAIN parity = DOMAIN Drift

\* However runs overlap, a document has one row, and its one entry of metadata has
\* the hash of that row (the primary key and the one transaction of
\* index_documents, whose list of existing paths is read before it).
RowsAgree == /\ Cardinality(docs) = Cardinality(DOMAIN meta)
             /\ \A d \in docs: d[1] \in DOMAIN meta /\ meta[d[1]] = d[2]

\* The frequencies that a retrieval may use were counted in the rows it searches:
\* a commit invalidates them at once, also one that comes between the reading of
\* the generation, the counting and the storing (token_document_frequencies).
FrequenciesMatchRows == freq.gen = gen => \A t \in DOMAIN freq.counts: freq.counts[t] = gen

\* "A write that races this pass is detected next time instead of being cached
\* away": after a quiet run a cached row says what its file says, whatever runs
\* overlapped before (discover_documents).
RacesAreDetected == fresh =>
    \A d \in docs: d[1] \in DOMAIN state => d[2] = files[d[1]].ver

=============================================================================
