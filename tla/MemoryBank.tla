----------------------------- MODULE MemoryBank -----------------------------
(***************************************************************************)
(* The durable memory of the Project Brain: promotions of its records into *)
(* chunks of the memory bank (memory-bank/scripts/brain_runtime.py), and   *)
(* the validator (memory-bank/scripts/validate.py) that every writer of    *)
(* the bank runs before it lets its own writes stand.                      *)
(*                                                                         *)
(* A chunk is named by the day of its promotion and the record it came     *)
(* from.  It cites that record's file and the document the record cites,   *)
(* each with a digest of what it said.  A writer takes the one file lock,  *)
(* plans its writes, and writes one file after the other: an exception     *)
(* restores them, a kill does not.  The turn-end hook promotes without     *)
(* review what a scan, made without the lock, found promotable.            *)
(*                                                                         *)
(* One document stands for what the records cite, a topic for a text that  *)
(* near_duplicate_chunk would match.  The records are verified findings    *)
(* with content; their handoffs and indexes are in BrainRecords.           *)
(***************************************************************************)
EXTENDS Naturals, FiniteSets, Sequences, Functions, SequencesExt

CONSTANTS Procs,            \* processes running context.py
          Recs,             \* records of the Brain
          Topic,            \* Topic[r]: what record r is about
          Limit,            \* auto_promote: candidates taken in a turn
          Threshold,        \* compaction_threshold
          ReviewDays,       \* days until a chunk is due for review
          LastDay,          \* bound: days of the calendar
          MaxDoc,           \* bound: versions of the cited document
          MaxRev,           \* bound: revisions of a record
          MaxProms,         \* bound: promotions ever proposed
          MaxByHand,        \* bound: commands given by hand
          MaxFaults,        \* bound: exceptions under the lock, and kills
          MaxKills          \* bound: kills alone

ASSUME BankAssumption ==
    /\ {Limit, Threshold, ReviewDays} \subseteq Nat \ {0}
    /\ {LastDay, MaxDoc, MaxRev, MaxProms, MaxByHand, MaxFaults, MaxKills} \subseteq Nat
    /\ DOMAIN Topic = Recs /\ IsFiniteSet(Recs)
    /\ "free" \notin Procs

Free == "free"
Never == 0                                  \* no date, no document, no digest
MemoryIds == (1..LastDay) \X Recs           \* MEM-<date>-<record>
NoOne == <<Never, "none">>                  \* superseded_by: null
Idle == [at |-> "idle", todo |-> {}, texts |-> {}, left |-> 0, cur |-> 0,
         plan |-> <<>>, then |-> "idle"]

VARIABLES day,      \* today
          doc,      \* the version of the cited document, or Never when deleted
          rec,      \* rec[r]: the file of record r and the directory it is in
          prom,     \* control/promotions, in the order they were proposed
          bank,     \* bank[f]: the frontmatter of the chunk with memory id f
          index,    \* the rows of INDEX.md
          lock, undo,   \* the holder of the file lock and its snapshot
          proc,     \* proc[p]: what p runs and the next thing it does
          byHand, fails, kills

files == <<rec, prom, bank, index>>
bounds == <<byHand, fails, kills>>
vars == <<day, doc, files, lock, undo, proc, bounds>>

-----------------------------------------------------------------------------
(* What the files say.                                                     *)

Rows(b) == [f \in DOMAIN b |-> <<b[f].status, b[f].verified>>]

\* sources_are_fresh, for a record.
Fresh(r) == doc # Never /\ rec[r].seen = doc

\* terminal_chunk: retired, or past the day it stopped being true.
Ended(c) == c.status \in {"superseded", "archived"} \/ (c.to # Never /\ c.to < day)

\* validate_metadata.
ValidChunk(f) ==
    LET c == bank[f]
    IN /\ c.verified \in f[1]..day /\ c.review >= c.verified
       /\ c.status = "active" => c.review >= day /\ (c.to = Never \/ c.to >= day)
       /\ c.to = Never \/ c.to >= f[1]
       /\ c.digested \in {"nowhere", c.place}
       /\ c.status = "superseded" <=> c.by # NoOne
       /\ ~Ended(c) => c.place = rec[f[2]].place /\ (c.cites => doc # Never)

\* validate_bank_report: links between chunks go both ways and close no circle,
\* of any length: whatever chunks are taken, one is superseded by none of them.
Linked(b) ==
    /\ \A f \in DOMAIN b:
         LET c == b[f]
         IN /\ f \notin c.sup /\ c.by # f
            /\ c.sup \subseteq DOMAIN b /\ c.by \in DOMAIN b \cup {NoOne}
            /\ \A g \in c.sup: b[g].status = "superseded" /\ b[g].by = f
            /\ c.by # NoOne => f \in b[c.by].sup
    /\ \A S \in (SUBSET DOMAIN b) \ {{}}: \E f \in S: b[f].by \notin S

\* validate_bank.
ValidBank == /\ \A f \in DOMAIN bank: ValidChunk(f)
             /\ index = Rows(bank)
             /\ Linked(bank)

\* chunk_source_digests: of the cited files that are there to be read.
Digested(c, f) == [c EXCEPT !.digested = IF c.place = rec[f[2]].place THEN c.place ELSE "nowhere",
                            !.rev = rec[f[2]].rev,
                            !.doc = IF c.cites THEN doc ELSE Never]

\* The chunk that apply_promotion writes: it inherits the document if it is there.
ChunkOf(i, f) ==
    Digested([status |-> "active", auto |-> prom[i].auto, place |-> prom[i].place,
              digested |-> "nowhere", rev |-> 0, cites |-> doc # Never, doc |-> Never,
              verified |-> day, review |-> day + ReviewDays, to |-> Never,
              by |-> NoOne, sup |-> {}], f)

\* A record that compaction would move.
Movable == {r \in Recs: rec[r].place = "dynamic" /\ rec[r].status = "resolved"}

\* stalled_automatic_promotions: what a turn retries, and the status it read.
Stalled == {<<i, prom[i].status>>: i \in {j \in DOMAIN prom:
                prom[j].auto /\ prom[j].status \in {"proposed", "reviewed"}}}

\* promoted_source_ids: done, or in the hands of a reviewer.
Promoted == {prom[i].rec: i \in {j \in DOMAIN prom:
                prom[j].status # "rejected" /\ (prom[j].status = "applied" \/ ~prom[j].auto)}}

\* promotable_records, archived ones included: each with the revision its content
\* is taken from.
Promotable == {<<r, rec[r].rev>>: r \in {s \in Recs \ Promoted:
                                            rec[s].status = "resolved" /\ Fresh(s)}}

\* active_chunk_texts.
ActiveTopics == {Topic[f[2]]: f \in {g \in DOMAIN bank: bank[g].status = "active"}}

\* near_duplicate_chunk: some text is about the same thing.
Duplicates(r, texts) == Topic[r] \in texts

-----------------------------------------------------------------------------
Init == /\ day = 1 /\ doc = 1
        /\ rec = [r \in Recs |-> [place |-> "dynamic", status |-> "open", rev |-> 1, seen |-> 1]]
        /\ prom = <<>>
        /\ bank = <<>> /\ index = <<>>
        /\ lock = Free /\ undo = <<>>
        /\ proc = [p \in Procs |-> Idle]
        /\ byHand = 0 /\ fails = 0 /\ kills = 0

-----------------------------------------------------------------------------
(* The world the bank is about.                                            *)

Tick == /\ day < LastDay
        /\ day' = day + 1
        /\ UNCHANGED <<doc, files, lock, undo, proc, bounds>>

\* The document is edited, or deleted for good.
ChangeDoc == /\ doc # Never
             /\ doc' \in {Never} \cup ({doc + 1} \cap 1..MaxDoc)
             /\ UNCHANGED <<day, files, lock, undo, proc, bounds>>

\* update_record: a change of a dynamic record, which fingerprints its sources
\* anew and fails if one is gone.  A resolved record may still change.
UpdateRecord(r, status) ==
    /\ lock = Free
    /\ rec[r].place = "dynamic" /\ rec[r].rev < MaxRev
    /\ doc # Never
    /\ rec[r].status = "open" \/ status = "resolved"
    /\ rec' = [rec EXCEPT ![r].status = status, ![r].rev = @ + 1, ![r].seen = doc]
    /\ UNCHANGED <<day, doc, prom, bank, index, lock, undo, proc, bounds>>

-----------------------------------------------------------------------------
(* Commands that write one file.                                           *)

\* The binding create_promotion makes: the record's path and revision as they are
\* now, and of an automatic promotion the revision its content was taken from.
Proposal(r, auto, text) ==
    [rec |-> r, place |-> rec[r].place, rev |-> rec[r].rev, text |-> text,
     auto |-> auto, status |-> "proposed", file |-> NoOne]

\* Bound: what is about to be created counts.
Room == Len(prom) + Cardinality({p \in Procs: proc[p].at = "create"}) < MaxProms

\* create_promotion reads the record before it takes the lock.
Drafted(c, b) == [c EXCEPT !.at = "create", !.plan = <<b>>]

\* promote-propose: any record, by its id, with a text of the proposer's own.
Propose(p, r) ==
    /\ proc[p] = Idle
    /\ Room
    /\ proc' = [proc EXCEPT ![p] = Drafted(@, Proposal(r, FALSE, Never))]
    /\ UNCHANGED <<day, doc, files, lock, undo, bounds>>

\* create_promotion writes what it has read; a turn goes on to review it.
Create(p) ==
    /\ proc[p].at = "create"
    /\ lock = Free
    /\ prom' = Append(prom, Head(proc[p].plan))
    /\ proc' = [proc EXCEPT ![p] =
          IF proc[p].then = "pick" THEN [@ EXCEPT !.at = "review", !.cur = Len(prom) + 1, !.plan = <<>>]
          ELSE Idle]
    /\ UNCHANGED <<day, doc, rec, bank, index, lock, undo, bounds>>

\* review_promotion, by somebody other than the proposer.
Review(i, outcome) ==
    /\ lock = Free
    /\ prom[i].status = "proposed" /\ ~prom[i].auto
    /\ prom' = [prom EXCEPT ![i].status = outcome]
    /\ UNCHANGED <<day, doc, rec, bank, index, lock, undo, proc, bounds>>

\* reindex_bank: the table is rendered again, whatever the chunks say.
ReindexBank ==
    /\ lock = Free
    /\ index # Rows(bank)
    /\ index' = Rows(bank)
    /\ UNCHANGED <<day, doc, rec, prom, bank, lock, undo, proc, bounds>>

-----------------------------------------------------------------------------
(* Commands that write several files under the lock: a plan is made of     *)
(* them when the lock is taken.                                            *)

Put(f, c) == [op |-> "chunk", id |-> f, chunk |-> c]
Index == [op |-> "index"]
Check == [op |-> "check"]
Applied(i, f) == [op |-> "applied", id |-> f, prom |-> i]
Move(r) == [op |-> "move", rec |-> r]

Begin(p, plan, then) ==
    /\ lock = Free
    /\ lock' = p
    /\ undo' = files
    /\ proc' = [proc EXCEPT ![p] = [@ EXCEPT !.at = "write", !.plan = plan, !.then = then]]
    /\ UNCHANGED <<day, doc, files, fails, kills>>

ByHand(p) == /\ proc[p] = Idle /\ byHand < MaxByHand
             /\ byHand' = byHand + 1

\* Mutant: the source binding is not checked again.
AppliesStale(i) == /\ prom[i].status = "reviewed"
                   /\ <<day, prom[i].rec>> \notin DOMAIN bank

\* Mutant: a chunk of the same name is written over.
Overwrites(i) == /\ prom[i].status = "reviewed"
                 /\ rec[prom[i].rec].place = prom[i].place
                 /\ rec[prom[i].rec].rev = prom[i].rev

\* apply_promotion: what it checks before it writes anything.
CanApply(i) == /\ prom[i].status = "reviewed"
               /\ rec[prom[i].rec].place = prom[i].place
               /\ rec[prom[i].rec].rev = prom[i].rev
               /\ <<day, prom[i].rec>> \notin DOMAIN bank

\* Mutant: the promotion is marked applied first, and its snapshot is not taken.
ApplyEarly(i) == LET f == <<day, prom[i].rec>>
                 IN <<Applied(i, f), Put(f, ChunkOf(i, f)), Index, Check>>

ApplyPlan(i) == LET f == <<day, prom[i].rec>>
                IN <<Put(f, ChunkOf(i, f)), Index, Check, Applied(i, f)>>

BeginApply(p, i) ==
    /\ ByHand(p)
    /\ CanApply(i)
    /\ Begin(p, ApplyPlan(i), "idle")

\* retire_chunk, whatever the chunk's status: its own side of the link first.
BeginRetire(p, f, g, to) ==
    /\ ByHand(p)
    /\ f # g
    /\ LET closed == [bank[f] EXCEPT !.status = IF g = NoOne THEN "archived" ELSE "superseded",
                                     !.by = g, !.to = to]
           links == IF g = NoOne THEN <<>> ELSE <<Put(g, [bank[g] EXCEPT !.sup = @ \cup {f}])>>
       IN Begin(p, <<Put(f, closed)>> \o links \o <<Index, Check>>, "idle")

Reverified(f) == [Digested(bank[f], f) EXCEPT !.verified = day, !.review = day + ReviewDays]

\* reverify_chunk: an active chunk is attested as of today.
BeginReverify(p, f) ==
    /\ ByHand(p)
    /\ bank[f].status = "active"
    /\ Begin(p, <<Put(f, Reverified(f)), Index, Check>>, "idle")

Repointed(c) == [c EXCEPT !.place = "archive",
                          !.digested = IF @ = "dynamic" THEN "archive" ELSE @]

\* promoted_source_rewrites.
Citing(moved) == {f \in DOMAIN bank: f[2] \in moved /\ bank[f].place = "dynamic"}

\* compact: every record, then every chunk that cites one of them.
CompactPlan ==
    LET moves == {Move(r): r \in Movable}
        rewrites == {Put(f, Repointed(bank[f])): f \in Citing(Movable)}
    IN SetToSeq(moves) \o SetToSeq(rewrites) \o <<Check>>

BeginCompact(p) ==
    /\ ByHand(p)
    /\ Movable # {}
    /\ Begin(p, CompactPlan, "idle")

-----------------------------------------------------------------------------
(* The plan is carried out.                                                *)

\* A command ends, or a turn goes on with the next promotion.
Return(c) == IF c.then = "idle" THEN Idle
             ELSE [c EXCEPT !.at = c.then, !.then = "idle", !.cur = 0, !.plan = <<>>]

\* After the last write the lock is freed; a turn remembers what it promoted.
Onward(p, s) ==
    IF Len(proc[p].plan) > 1
    THEN /\ proc' = [proc EXCEPT ![p].plan = Tail(@)]
         /\ UNCHANGED <<lock, undo>>
    ELSE /\ proc' = [proc EXCEPT ![p] =
                IF proc[p].then = "pick" THEN [Return(@) EXCEPT !.texts = proc[p].texts \cup {Topic[s.id[2]]}]
                ELSE Return(@)]
         /\ lock' = Free /\ undo' = <<>>

\* atomic_write: the file is there, or there is one more.
Stored(f, c) == [g \in DOMAIN bank \cup {f} |-> IF g = f THEN c ELSE bank[g]]

\* The next file is written, or the bank is found valid.
Write(p) ==
    /\ lock = p
    /\ LET s == Head(proc[p].plan)
       IN /\ s.op = "check" => ValidBank
          /\ bank' = IF s.op = "chunk" THEN Stored(s.id, s.chunk) ELSE bank
          /\ index' = IF s.op = "index" THEN Rows(bank) ELSE index
          /\ rec' = IF s.op = "move" THEN [rec EXCEPT ![s.rec].place = "archive"] ELSE rec
          /\ prom' = IF s.op = "applied"
                     THEN [prom EXCEPT ![s.prom] = [@ EXCEPT !.status = "applied", !.file = s.id]]
                     ELSE prom
          /\ Onward(p, s)
    /\ UNCHANGED <<day, doc, bounds>>

\* Mutant: the index is missing from the snapshot.
RestoreButIndex(saved) == /\ rec' = saved[1] /\ prom' = saved[2] /\ bank' = saved[3]
                          /\ UNCHANGED index
Restore(saved) == rec' = saved[1] /\ prom' = saved[2] /\ bank' = saved[3] /\ index' = saved[4]

\* The bank is found invalid: all is restored, and a turn goes on to the next.
Reject(p) ==
    /\ lock = p
    /\ Head(proc[p].plan).op = "check" /\ ~ValidBank
    /\ Restore(undo)
    /\ lock' = Free /\ undo' = <<>>
    /\ proc' = [proc EXCEPT ![p] = Return(@)]
    /\ UNCHANGED <<day, doc, bounds>>

\* An OSError: all is restored, and a turn ends with it.
Fail(p) ==
    /\ lock = p
    /\ fails + kills < MaxFaults
    /\ fails' = fails + 1
    /\ Restore(undo)
    /\ lock' = Free /\ undo' = <<>>
    /\ proc' = [proc EXCEPT ![p] = Idle]
    /\ UNCHANGED <<day, doc, byHand, kills>>

\* SIGKILL, the hook's timeout or a Ctrl-C, which no "except Exception" catches.
Kill(p) ==
    /\ proc[p] # Idle
    /\ kills < MaxKills /\ fails + kills < MaxFaults
    /\ kills' = kills + 1
    /\ IF lock = p THEN lock' = Free /\ undo' = <<>> ELSE UNCHANGED <<lock, undo>>
    /\ proc' = [proc EXCEPT ![p] = Idle]
    /\ UNCHANGED <<day, doc, files, byHand, fails>>

-----------------------------------------------------------------------------
(* The end of a turn: auto_promote, then auto_compact.                     *)

At(p, where) == proc[p].at = where

StartTurn(p) ==
    /\ proc[p] = Idle
    /\ proc' = [proc EXCEPT ![p] = [Idle EXCEPT !.at = "retry", !.todo = Stalled]]
    /\ UNCHANGED <<day, doc, files, lock, undo, bounds>>

\* auto_review_promotion, then; one that is no longer proposed is passed over.
Reviewed(p, i, then) ==
    /\ lock = Free
    /\ LET turn == [proc[p] EXCEPT !.cur = i, !.then = then,
                                   !.todo = IF then = "retry" THEN {t \in @: t[1] # i} ELSE @]
       IN IF prom[i].status = "proposed"
          THEN /\ prom' = [prom EXCEPT ![i].status = "reviewed"]
               /\ proc' = [proc EXCEPT ![p] = [turn EXCEPT !.at = "apply"]]
          ELSE proc' = [proc EXCEPT ![p] = Return(turn)] /\ UNCHANGED prom
    /\ UNCHANGED <<day, doc, rec, bank, index, lock, undo, bounds>>

\* A stalled promotion is retried from the status that was read.
Retry(p, t) ==
    /\ At(p, "retry")
    /\ t \in proc[p].todo
    /\ \/ t[2] = "proposed" /\ Reviewed(p, t[1], "retry")
       \/ /\ t[2] = "reviewed"
          /\ proc' = [proc EXCEPT ![p] = [@ EXCEPT !.at = "apply", !.todo = proc[p].todo \ {t},
                                                   !.cur = t[1], !.then = "retry"]]
          /\ UNCHANGED <<day, doc, files, lock, undo, bounds>>

AutoReview(p) == At(p, "review") /\ Reviewed(p, proc[p].cur, "pick")

\* apply_promotion in a turn; one that may not be applied is passed over.
Apply(p) ==
    /\ At(p, "apply")
    /\ LET i == proc[p].cur
       IN \/ CanApply(i) /\ Begin(p, ApplyPlan(i), proc[p].then) /\ UNCHANGED byHand
          \/ /\ lock = Free /\ ~CanApply(i)
             /\ proc' = [proc EXCEPT ![p] = Return(@)]
             /\ UNCHANGED <<day, doc, files, lock, undo, bounds>>

\* promotable_records and active_chunk_texts, read without the lock.
Scan(p) ==
    /\ At(p, "retry")
    /\ proc[p].todo = {}
    /\ proc' = [proc EXCEPT ![p] = [@ EXCEPT !.at = "pick", !.todo = Promotable,
                                             !.texts = ActiveTopics, !.left = Limit]]
    /\ UNCHANGED <<day, doc, files, lock, undo, bounds>>

\* The next candidate: one that would duplicate a chunk is passed over, though it
\* takes a place; another is bound as it is now to the content the scan had read.
Pick(p, r, text) ==
    /\ At(p, "pick")
    /\ proc[p].left > 0 /\ <<r, text>> \in proc[p].todo
    /\ LET rest == [proc[p] EXCEPT !.todo = @ \ {<<r, text>>}, !.left = @ - 1]
       IN \/ /\ Duplicates(r, rest.texts)
             /\ proc' = [proc EXCEPT ![p] = rest]
          \/ /\ ~Duplicates(r, rest.texts)
             /\ Room
             /\ proc' = [proc EXCEPT ![p] = Drafted([rest EXCEPT !.then = "pick"],
                                                    Proposal(r, TRUE, text))]
    /\ UNCHANGED <<day, doc, files, lock, undo, bounds>>

\* No candidate is left, or no place (or, a bound, no promotion).  auto_compact
\* archives once enough records have ended.
EndTurn(p) ==
    /\ At(p, "pick")
    /\ proc[p].left = 0 \/ proc[p].todo = {} \/ ~Room
    /\ IF Cardinality(Movable) >= Threshold
       THEN Begin(p, CompactPlan, "idle") /\ UNCHANGED byHand
       ELSE proc' = [proc EXCEPT ![p] = Idle] /\ UNCHANGED <<day, doc, files, lock, undo, bounds>>

-----------------------------------------------------------------------------
Next ==
    \/ Tick \/ ChangeDoc
    \/ \E r \in Recs, status \in {"open", "resolved"}: UpdateRecord(r, status)
    \/ \E i \in DOMAIN prom, outcome \in {"reviewed", "rejected"}: Review(i, outcome)
    \/ ReindexBank
    \/ \E p \in Procs:
         \/ \E i \in DOMAIN prom: BeginApply(p, i)
         \/ \E f \in DOMAIN bank: \/ BeginReverify(p, f)
                                  \/ \E g \in DOMAIN bank \cup {NoOne}, to \in 1..LastDay:
                                       BeginRetire(p, f, g, to)
         \/ (\E r \in Recs: Propose(p, r)) \/ Create(p)
         \/ BeginCompact(p)
         \/ Write(p) \/ Reject(p) \/ Fail(p) \/ Kill(p)
         \/ StartTurn(p) \/ (\E t \in proc[p].todo: Retry(p, t)) \/ AutoReview(p) \/ Apply(p)
         \/ Scan(p) \/ (\E r \in Recs, text \in 1..MaxRev: Pick(p, r, text)) \/ EndTurn(p)

Spec == Init /\ [][Next]_vars

-----------------------------------------------------------------------------
(* Properties.                                                             *)

\* As everybody but the holder of the lock may rely on it.
Settled == IF lock = Free THEN files ELSE undo

\* Without kills a bank nobody is writing to is sound but for what the calendar
\* and the documents do to it: INDEX.md lists its chunks, a link between two of
\* them stands on both sides, and every chunk cites its record's file where it is
\* and holds its digest under that name, also when compaction has moved it
\* (restore_files, promoted_source_rewrites).
QuietBankIsSound == lock = Free /\ kills = 0 =>
    /\ index = Rows(bank)
    /\ Linked(bank)
    /\ \A f \in DOMAIN bank: bank[f].place = rec[f[2]].place /\ bank[f].digested = bank[f].place

\* A promotion that says it is applied has its chunk in the bank, whatever
\* failed or was killed, and a chunk that no promotion accounts for was left by
\* a kill (apply_promotion marks the promotion last).
AppliedMeansInBank == lock = Free =>
    LET accounted == {prom[i].file: i \in {j \in DOMAIN prom: prom[j].status = "applied"}}
    IN accounted \subseteq DOMAIN bank /\ Cardinality(DOMAIN bank \ accounted) <= kills

\* Nothing leaves the bank, a chunk that was retired is not active again, and a
\* chunk keeps its origin; no failure takes back what an earlier command had
\* written (restore_files puts back only what the failing command snapshotted).
NothingIsForgotten ==
    [][LET was == Settled[3] now == Settled'[3]
       IN \A f \in DOMAIN was:
            /\ f \in DOMAIN now
            /\ was[f].status # "active" => now[f].status # "active"
            /\ now[f].auto = was[f].auto /\ was[f].verified <= now[f].verified]_vars

\* A record that changed or moved after the proposal or the review never enters
\* the bank under it: what the chunk holds is a digest of the revision that was
\* proposed (apply_promotion, "Promotion source revision changed").
ChunksQuoteWhatWasProposed ==
    [][\A i \in DOMAIN prom: LET f == prom'[i].file
       IN prom'[i].status = "applied" /\ prom[i].status # "applied" /\ f \in DOMAIN bank =>
            bank[f].rev = prom[i].rev /\ bank[f].place = rec[prom[i].rec].place]_vars

\* "Creating a second one would leave the first orphaned forever": a record is
\* promoted into one chunk (auto_promote retries a stalled promotion in place).
OneChunkPerRecord ==
    \A i, j \in DOMAIN prom: prom[i].auto /\ prom[j].auto /\ prom[i].status = "applied"
                             /\ prom[j].status = "applied" /\ prom[i].rec = prom[j].rec => i = j

\* "Promotion source revision changed": an automatic promotion says what the
\* revision it is bound to says (auto_promote takes the content from its scan,
\* create_promotion the revision from the record as it is by then).
TextsAreOfTheirRevision == \A i \in DOMAIN prom: prom[i].auto => prom[i].text = prom[i].rev

\* "An interruption between the two sides of a link leaves the bank exactly as it
\* was rather than half-retired" (retire_chunk).
LinksStandOnBothSides == lock = Free => Linked(bank)

\* "Hand-editing is what the rest of this system exists to avoid": a chunk whose
\* review is due can be verified again, its document being there (reverify_chunk).
DueChunksCanBeReverified == lock = Free /\ kills = 0 /\ doc # Never =>
    \A f \in DOMAIN bank: bank[f].status = "active" =>
        LET b == [bank EXCEPT ![f] = Reverified(f)]
        IN \A g \in DOMAIN b: b[g].status = "active" => b[g].review >= day
=============================================================================
