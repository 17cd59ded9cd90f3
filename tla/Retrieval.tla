----------------------------- MODULE Retrieval -----------------------------
(***************************************************************************)
(* A turn's retrieval: retrieve (memory-bank/scripts/context_retrieval.py) *)
(* finds documents by the words of a question, by the paths the caller     *)
(* names and by the conflicts of what was found, withholds what policy,    *)
(* lifecycle or a changed file forbid, spends a budget, decides whether    *)
(* the turn repeats the last one, writes a manifest and hands a capsule to *)
(* assemble_capsule (context.py), which fits it into its limit.            *)
(*                                                                         *)
(* Turns of several tasks run at once over one database and one tree of    *)
(* files that people edit.  Reading the configuration, counting the words  *)
(* of the question, matching them one by one, searching for all of them,   *)
(* each later query of the database, each pass of the filter over the      *)
(* files, writing a manifest and pruning its directory are steps of their  *)
(* own; the words are counted, and matched, all in one.                    *)
(*                                                                         *)
(* A document's kind gives its category and its layer.  Scores are one     *)
(* order of the documents, which stands for the order of their paths too;  *)
(* an item's text counts as one unit of the room that the task's own state *)
(* leaves in the capsule.  Left out are replay episodes, which only fill   *)
(* an episodic place that no document took, the place that an index gives  *)
(* its generation to counts that are kept, and what _runtime_filter asks   *)
(* of a map of the code: how many commits it is behind.  Such a map cites  *)
(* no sources and names no conflicts.                                      *)
(***************************************************************************)
EXTENDS Naturals, FiniteSets, Sequences, Functions, SequencesExt

CONSTANTS Procs, Tasks,
          Order,        \* the documents, best score first, then by path
          Doc,          \* Doc[d]: kind, class, words, cites, conflicts, cost
          Sources,      \* files that documents cite
          Editable,     \* bound: the documents and classes that people edit
          Asks,         \* Asks[t]: what turns ask: words, and paths that they name
          Classes,      \* privacy, owner and authority of a document, as one
          Common, Rare, \* STOPWORD_ and DISTINCTIVE_DOCUMENT_RATIO, in percent
          Window,       \* how many matches a question considers
          Budget, Target, Hard,         \* estimated tokens
          Places,       \* Places[layer]: items of a layer in a capsule, 2 + 3 + 1
          Rooms,        \* what a task's state may leave for items
          Mode,         \* the gate: "off", "shadow" or "enforce"
          Retention,    \* tasks whose last retrieval is remembered
          Keep,         \* local manifests that are kept
          Scope,        \* Scope[t]: "governed" or "local"
          MaxTurns, MaxEdits, MaxFaults \* bounds

Docs == Range(Order)
Lifecycles == {"task", "finding", "bug", "incident", "decision", "event"}
BrainKinds == Lifecycles \cup {"handoff"}
Kinds == BrainKinds \cup {"policy", "skill", "memory", "codebase", "changelog", "text"}
Categories == {"policy", "handoff", "durable", "dynamic", "evidence"}
Layers == {"procedural", "semantic", "episodic"}

ASSUME RetrievalAssumption ==
    /\ Order \in Seq(Docs) /\ IsInjective(Order)
    /\ DOMAIN Doc = Docs /\ \A d \in Docs: Doc[d].kind \in Kinds /\ Doc[d].class \in Classes
    /\ Budget \in [Categories -> Nat] /\ {Target, Hard} \subseteq Nat /\ Target <= Hard
    /\ Places \in [Layers -> Nat] /\ Rooms \subseteq Nat
    /\ Mode \in {"off", "shadow", "enforce"} /\ Scope \in [Tasks -> {"governed", "local"}]
    /\ Window \in Nat /\ Retention \in Nat \ {0} /\ Keep \in Nat \ {0}
    /\ {MaxTurns, MaxEdits, MaxFaults} \subseteq Nat

VARIABLES file,         \* file[d]: its version, and the versions of what it cites
          source,       \* source[s]: the version of a cited file
          allowed,      \* runtime.json: the classes that may be delivered
          row,          \* the index: what file[d] was when it was read, or Gone
          last,         \* index_state["last-retrievals"]: the turn remembered per task
          manifests,    \* manifests[scope]: the directory, oldest first
          proc, turns, edits, faults,
          got,          \* history: what each task was last handed
          tidy          \* history: turns were remembered as they were delivered

world == <<file, source, allowed, row, edits>>
vars == <<world, last, manifests, proc, turns, faults, got, tidy>>

Gone == [ver |-> 0, prints |-> <<>>]
Nobody == "nobody"
NoSign == [words |-> {}, docs |-> {}]
Idle == [at |-> "idle", turn |-> 0, task |-> Nobody, words |-> {}, paths |-> {},
         allowed |-> {}, terms |-> {}, relevant |-> {}, items |-> <<>>, out |-> {}, known |-> {}, pending |-> {},
         chosen |-> <<>>, skip |-> FALSE, sign |-> NoSign, last |-> <<>>,
         capsule |-> <<>>, calm |-> TRUE, newest |-> TRUE]

Category(d) == CASE Doc[d].kind \in {"policy", "skill"} -> "policy"
                 [] Doc[d].kind = "memory" -> "durable"
                 [] Doc[d].kind = "handoff" -> "handoff"
                 [] Doc[d].kind \in Lifecycles -> "dynamic"
                 [] OTHER -> "evidence"
Layer(d) == CASE Doc[d].kind \in {"policy", "skill"} -> "procedural"
              [] Doc[d].kind \in {"event", "changelog"} -> "episodic"
              [] OTHER -> "semantic"

First(n, s) == SubSeq(s, 1, IF n < Len(s) THEN n ELSE Len(s))
DocsOf(s) == {s[i].doc : i \in DOMAIN s}

\* The elements of a sequence that are in a set, in their order: a comprehension.
Picking(s, T) ==
    LET picked[i \in 0..Len(s)] ==
            IF i = 0 THEN <<>>
            ELSE IF s[i] \in T THEN Append(picked[i - 1], s[i]) ELSE picked[i - 1]
    IN picked
Pick(s, T) == Picking(s, T)[Len(s)]

InCategory(s, c) == Pick(s, {it \in Range(s): Category(it.doc) = c})
Items(ds) == LET s == Pick(Order, ds)
             IN [i \in DOMAIN s |-> [doc |-> s[i], row |-> row[s[i]]]]

-----------------------------------------------------------------------------
(* What the words of a question find. *)

Indexed == {d \in Docs: row[d] # Gone}
Frequency(w) == Cardinality({d \in Indexed: w \in Doc[d].words})
Within(w, percent) == 100 * Frequency(w) <= percent * Cardinality(Indexed)

\* informative_tokens: the words that are not in most documents, else those that
\* are in any, else all of them
Informative(q) ==
    LET matched == {w \in q: Frequency(w) > 0}
        telling == {w \in matched: Within(w, Common)}
    IN IF telling # {} THEN telling ELSE IF matched # {} THEN matched ELSE q

\* is_relevant: a rare word is evidence alone, else two words have to be there
Relevant(d, ws) ==
    \/ \E w \in ws \cap Doc[d].words: Within(w, Rare)
    \/ Cardinality(ws \cap Doc[d].words) >= (IF Cardinality(ws) >= 2 THEN 2 ELSE 1)

\* The best matches, of which those count that were found relevant before.
Candidates(ws, relevant) ==
    LET matches == Pick(Order, {d \in Indexed: Doc[d].words \cap ws # {}})
    IN Items(Range(First(Window, matches)) \cap relevant)

-----------------------------------------------------------------------------
(* What may be delivered: the pass over the files. *)

\* sources_are_fresh: a file that it cites is not what it was when it was written
Moved(it) == \E s \in DOMAIN it.row.prints: source[s] # it.row.prints[s]

\* An event, a decision or an incident that has ended is never indexed; what is
\* left of the lifecycle test is a kind that has no lifecycle.
Reason(it, classes) ==
    CASE Doc[it.doc].class \notin classes -> "policy"
      [] Doc[it.doc].kind \in BrainKinds \ Lifecycles -> "lifecycle"
      [] file[it.doc] # it.row -> "stale"
      [] Moved(it) -> IF Doc[it.doc].kind = "memory" THEN "source-changed" ELSE "stale"
      [] OTHER -> "none"

Eligible(s, classes) == Pick(s, {it \in Range(s): Reason(it, classes) = "none"})
Withheld(s, classes) ==
    {[doc |-> s[i].doc, why |-> Reason(s[i], classes)] :
        i \in {j \in DOMAIN s: Reason(s[j], classes) # "none"}}

-----------------------------------------------------------------------------
(* What the budget and the capsule hold. *)

Spent(s) == FoldLeft(LAMBDA sum, it: sum + Doc[it.doc].cost, 0, s)
Disputed(s) == UNION {IF Doc[d].conflicts = {} THEN {} ELSE {d} \cup Doc[d].conflicts :
                         d \in DocsOf(s)}

\* _apply_budgets: in order, what fits; a side of a conflict up to the hard ceiling
Affordable(in, it, disputed) ==
    \/ /\ Spent(InCategory(in, Category(it.doc))) + Doc[it.doc].cost
            <= Budget[Category(it.doc)]
       /\ Spent(in) + Doc[it.doc].cost <= Target
    \/ it.doc \in disputed /\ Spent(in) + Doc[it.doc].cost <= Hard
Choosing(s, disputed) ==
    LET chosen[i \in 0..Len(s)] ==
            IF i = 0 THEN <<>>
            ELSE LET in == chosen[i - 1]
                 IN IF Affordable(in, s[i], disputed) THEN Append(in, s[i]) ELSE in
    IN chosen
Chosen(s) == Choosing(s, Disputed(s))[Len(s)]

\* The layers' places, in rank order
Placed(s) ==
    LET Of(layer) == First(Places[layer], Pick(s, {it \in Range(s): Layer(it.doc) = layer}))
    IN Of("procedural") \o Of("semantic") \o Of("episodic")

\* What retrieve returns of the items it chose: the semantic list is made of the
\* categories again, and an event is dynamic.  deduplicate_capsule_layers leaves
\* it to its own layer.
Layered(s) ==
    LET episodic == Pick(s, {it \in Range(s): Layer(it.doc) = "episodic"})
        semantic == First(Places["semantic"],
                          InCategory(s, "handoff") \o InCategory(s, "durable")
                            \o InCategory(s, "dynamic") \o InCategory(s, "evidence"))
        held == First(Places["episodic"], episodic)
    IN First(Places["procedural"], InCategory(s, "policy"))
         \o Pick(semantic, {it \in Range(semantic): it.doc \notin DocsOf(held)})
         \o held

\* enforce_governed_capsule_contract: episodic items go first, then semantic ones,
\* the last ones before the others
Fitted(s, room) == First(room, s)

-----------------------------------------------------------------------------
Current == [d \in Docs |-> file[d]]
Cited(d) == [s \in Doc[d].cites \cap Sources |-> source[s]]

Init == /\ source = [s \in Sources |-> 1] /\ edits = 0
        /\ file = [d \in Docs |-> [ver |-> 1, prints |-> [s \in Doc[d].cites |-> 1]]]
        /\ row = file /\ allowed = Classes
        /\ last = <<>> /\ manifests = [scope \in {"governed", "local"} |-> <<>>]
        /\ proc = [p \in Procs |-> Idle] /\ turns = 0 /\ faults = 0
        /\ got = [t \in Tasks |-> NoSign] /\ tidy = TRUE

Disturbed == [p \in Procs |-> IF proc[p].at = "idle" THEN Idle ELSE [proc[p] EXCEPT !.calm = FALSE]]
Edited == /\ edits < MaxEdits /\ edits' = edits + 1 /\ proc' = Disturbed
          /\ UNCHANGED <<last, manifests, turns, faults, got, tidy>>

\* People rewrite a document, citing what its sources are now, or delete it.
ChangeDoc(d) ==
    /\ Edited /\ d \in Editable /\ file[d] # Gone
    /\ \/ file' = [file EXCEPT ![d] = [ver |-> @.ver + 1, prints |-> Cited(d)]]
       \/ file' = [file EXCEPT ![d] = Gone]
    /\ UNCHANGED <<source, allowed, row>>
ChangeSource(s) ==
    /\ Edited /\ source' = [source EXCEPT ![s] = @ + 1] /\ UNCHANGED <<file, allowed, row>>
ChangeConfig(c) ==
    /\ Edited /\ c \in Editable \cap allowed /\ allowed' = allowed \ {c} /\ UNCHANGED <<file, source, row>>

\* A run of the index: refresh_layers at the head of a turn, or of another one.
Refresh ==
    /\ row # Current /\ row' = Current
    /\ UNCHANGED <<file, source, allowed, edits, last, manifests, proc, turns, faults,
                   got, tidy>>

-----------------------------------------------------------------------------
(* The steps of retrieve. *)

Goes(p, at, q) == proc' = [proc EXCEPT ![p] = [q EXCEPT !.at = at]]
Still == UNCHANGED <<world, last, manifests, turns, faults, got, tidy>>

Begin(p, t, q) ==
    /\ proc[p].at = "idle" /\ turns < MaxTurns
    /\ turns' = turns + 1
    /\ Goes(p, "words", [Idle EXCEPT !.turn = turns + 1, !.task = t, !.words = q.words,
                         !.paths = q.paths, !.allowed = allowed])
    /\ tidy' = (tidy /\ \A o \in Procs: proc[o].task # t)
    /\ UNCHANGED <<world, last, manifests, faults, got>>

Weigh(p) ==
    /\ proc[p].at = "words"
    /\ Goes(p, "cover", [proc[p] EXCEPT !.terms = Informative(proc[p].words)])
    /\ Still

Cover(p) ==
    /\ proc[p].at = "cover"
    /\ Goes(p, "search", [proc[p] EXCEPT !.relevant = {d \in Indexed: Relevant(d, proc[p].terms)}])
    /\ Still

Search(p) ==
    /\ proc[p].at = "search"
    /\ Goes(p, "filter", [proc[p] EXCEPT !.items = Candidates(proc[p].terms, proc[p].relevant),
                                         !.terms = {}, !.relevant = {}])
    /\ Still

Conflicting(s) == UNION {Doc[d].conflicts : d \in DocsOf(s)}

\* The first round asks for the conflicts of all that was found.
ToConflicts(p, items, out) ==
    Goes(p, "conflicts", [proc[p] EXCEPT !.items = items, !.out = out, !.known = DocsOf(items),
                          !.pending = Conflicting(items) \ DocsOf(items)])

Filter(p) ==
    /\ proc[p].at = "filter"
    /\ LET pass == Eligible(proc[p].items, proc[p].allowed)
           out == Withheld(proc[p].items, proc[p].allowed)
       IN IF proc[p].paths = {} THEN ToConflicts(p, pass, out)
          ELSE Goes(p, "paths", [proc[p] EXCEPT !.items = pass, !.out = out])
    /\ Still

\* Mutant: links are read as search reads its documents, without the filter.
LinksUnfiltered(p) ==
    LET cites == Items({d \in Indexed: Doc[d].cites \cap proc[p].paths # {}})
        new == Pick(cites, {it \in Range(cites): it.doc \notin DocsOf(proc[p].items)})
    IN [in |-> new, out |-> {}]

\* _path_candidates: who cites one of the paths, passes, and is not there already
Links(p) ==
    LET cites == Items({d \in Indexed: Doc[d].cites \cap proc[p].paths # {}})
        pass == Eligible(cites, proc[p].allowed)
        new == Pick(pass, {it \in Range(pass): it.doc \notin DocsOf(proc[p].items)})
    IN [in |-> First(Places["semantic"], new),
        out |-> Withheld(cites, proc[p].allowed)
                  \cup {[doc |-> new[i].doc, why |-> "path-link-limit"] :
                           i \in {j \in DOMAIN new: j > Places["semantic"]}}]

FollowPaths(p) ==
    /\ proc[p].at = "paths"
    /\ ToConflicts(p, Links(p).in \o proc[p].items, proc[p].out \cup Links(p).out)
    /\ Still

\* Mutant: the round does not note whom it has found.
RoundForgets(p, pass) == [known |-> proc[p].known, pending |-> Conflicting(pass) \ proc[p].known]

\* Mutant: one round, the partners' own conflicts are not followed.
OneRound(p, pass) == [known |-> proc[p].known \cup DocsOf(pass), pending |-> {}]

Round(p, pass) ==
    LET known == proc[p].known \cup DocsOf(pass)
    IN [known |-> known, pending |-> Conflicting(pass) \ known]

FollowConflicts(p) ==
    /\ proc[p].at = "conflicts" /\ proc[p].pending # {}
    /\ LET sides == Items(proc[p].pending \cap Indexed)
           pass == Eligible(sides, proc[p].allowed)
       IN Goes(p, "conflicts",
              [proc[p] EXCEPT !.items = @ \o pass,
                  !.known = Round(p, pass).known, !.pending = Round(p, pass).pending,
                  !.out = @ \cup Withheld(sides, proc[p].allowed)
                            \cup {[doc |-> d, why |-> "conflict-unavailable"] :
                                     d \in proc[p].pending \ Indexed}])
    /\ Still

-----------------------------------------------------------------------------
(* The gate, and what it remembers. *)

Previous(t) == IF \E i \in DOMAIN last: last[i].task = t
               THEN (CHOOSE e \in Range(last): e.task = t).sign ELSE NoSign

\* Mutant: an unchanged question is a repeat, whatever it finds now.
SameQuestion(t, sign) ==
    /\ Mode = "enforce"
    /\ sign.docs = {} \/ (Previous(t).words = sign.words /\ last # <<>>)

\* gate_decision, under "enforce": nothing was found, or the last turn's find
Repeats(t, sign) == Mode = "enforce" /\ (sign.docs = {} \/ Previous(t) = sign)

Decide(p) ==
    /\ proc[p].at = "conflicts" /\ proc[p].pending = {}
    /\ LET paid == Chosen(proc[p].items)
           placed == Placed(paid)
           sign == [words |-> proc[p].words, docs |-> DocsOf(placed)]
           skip == Repeats(proc[p].task, sign)
           over == {[doc |-> d, why |-> "budget"] : d \in DocsOf(proc[p].items) \ DocsOf(paid)}
           cut == {[doc |-> d, why |-> "layer-limit"] : d \in DocsOf(paid) \ DocsOf(placed)}
       IN Goes(p, IF skip THEN "manifest" ELSE "remember",
               [proc[p] EXCEPT !.chosen = IF skip THEN <<>> ELSE placed,
                   !.skip = skip, !.sign = sign,
                   !.out = @ \cup over \cup (IF skip THEN {} ELSE cut)])
    /\ Still

LoadLast(p) ==
    /\ proc[p].at = "remember"
    /\ Goes(p, "store", [proc[p] EXCEPT !.last = last])
    /\ Still

\* The whole record is written back as it was read; a busy database is ignored.
StoreLast(p) ==
    /\ proc[p].at = "store"
    /\ LET others == Pick(proc[p].last, {e \in Range(proc[p].last): e.task # proc[p].task})
           all == Append(others, [task |-> proc[p].task, sign |-> proc[p].sign])
       IN \/ /\ last' = SubSeq(all, IF Len(all) > Retention THEN Len(all) - Retention + 1 ELSE 1,
                               Len(all))
             /\ tidy' = (tidy /\ last = proc[p].last) /\ UNCHANGED faults
          \/ /\ faults < MaxFaults /\ faults' = faults + 1 /\ tidy' = FALSE
             /\ UNCHANGED last
    /\ Goes(p, "manifest", proc[p])
    /\ UNCHANGED <<world, manifests, turns, got>>

-----------------------------------------------------------------------------
(* The manifest and the capsule. *)

\* What was only needed to find and to tell is forgotten.
Told(q) == [q EXCEPT !.items = <<>>, !.out = {}, !.known = {}, !.paths = {}, !.last = <<>>,
                     !.allowed = {}, !.words = {}, !.newest = TRUE]

\* Mutant: the newest manifests are the ones that go.
PruneNewest(dir) == First(Keep, dir)

\* _prune_local_manifests: the oldest ones go
Pruned(dir) == SubSeq(dir, IF Len(dir) > Keep THEN Len(dir) - Keep + 1 ELSE 1, Len(dir))

WriteManifest(p) ==
    /\ proc[p].at = "manifest"
    /\ LET scope == Scope[proc[p].task]
           next == IF scope = "local" THEN "prune" ELSE "assemble"
       IN /\ manifests' = [manifests EXCEPT ![scope] =
                              Append(@, [turn |-> proc[p].turn, docs |-> DocsOf(proc[p].chosen)])]
          /\ proc' = [o \in Procs |-> IF o = p THEN [Told(proc[p]) EXCEPT !.at = next]
                                      ELSE IF proc[o].at = "idle" THEN Idle
                                      ELSE [proc[o] EXCEPT !.newest = FALSE]]
    /\ UNCHANGED <<world, last, turns, faults, got, tidy>>

\* No lock is held since the manifest was written: another turn may write, and
\* prune, in between.
Prune(p) ==
    /\ proc[p].at = "prune"
    /\ manifests' = [manifests EXCEPT !["local"] = Pruned(@)]
    /\ Goes(p, "assemble", proc[p])
    /\ UNCHANGED <<world, last, turns, faults, got, tidy>>

\* assemble_capsule hands the capsule over, as much of it as the room holds.
Assemble(p, room) ==
    /\ proc[p].at = "assemble"
    /\ LET capsule == Fitted(Layered(proc[p].chosen), room)
           t == proc[p].task
       IN /\ Goes(p, "shown", [proc[p] EXCEPT !.capsule = capsule, !.chosen = <<>>, !.sign = NoSign])
          /\ got' = IF proc[p].skip THEN got
                    ELSE [got EXCEPT ![t] = [words |-> proc[p].sign.words, docs |-> DocsOf(capsule)]]
          /\ tidy' = (tidy /\ (proc[p].skip \/ DocsOf(capsule) = proc[p].sign.docs))
    /\ UNCHANGED <<world, last, manifests, turns, faults>>

End(p) == /\ proc[p].at = "shown" /\ proc' = [proc EXCEPT ![p] = Idle] /\ Still

\* The turn dies: a kill, a manifest that cannot be written or a lock that stays
\* held, content that cannot be fitted.  Nothing that it wrote is undone.
Stop(p) ==
    /\ proc[p].at \notin {"idle", "shown"} /\ faults < MaxFaults
    /\ faults' = faults + 1
    /\ proc' = [proc EXCEPT ![p] = Idle]
    /\ tidy' = (tidy /\ proc[p].at \notin {"manifest", "prune", "assemble"})
    /\ UNCHANGED <<world, last, manifests, turns, got>>

Step(p) == \/ Weigh(p) \/ Cover(p) \/ Search(p)
           \/ Filter(p) \/ FollowPaths(p) \/ FollowConflicts(p)
           \/ Decide(p) \/ LoadLast(p) \/ StoreLast(p) \/ WriteManifest(p) \/ Prune(p)
           \/ (\E room \in Rooms: Assemble(p, room)) \/ End(p)

Next == \/ \E d \in Docs: ChangeDoc(d)
        \/ \E s \in Sources: ChangeSource(s)
        \/ \E c \in Classes: ChangeConfig(c)
        \/ Refresh
        \/ \E p \in Procs: \/ Step(p) \/ Stop(p)
                           \/ \E t \in Tasks: \E q \in Asks[t]: Begin(p, t, q)

Spec == Init /\ [][Next]_vars

-----------------------------------------------------------------------------
(* Properties. *)

\* _runtime_filter on the three ways in: whether a document was found by its
\* words, by a path or by a conflict, a turn during which nothing was edited
\* hands over only what the configuration allows, as it stands on disk, with
\* every source that it cites as it was when it was written.
CalmDeliveriesAreCurrent ==
    \A p \in Procs:
       proc[p].calm => \A i \in DOMAIN proc[p].capsule:
           LET it == proc[p].capsule[i] IN
           /\ Doc[it.doc].class \in allowed /\ file[it.doc] = it.row
           /\ \A s \in Doc[it.doc].cites \cap Sources: source[s] = file[it.doc].prints[s]

\* The manifest accounts for the whole turn: what the question found, and both
\* sides of every conflict that is handed over, partners of partners included,
\* are either selected or excluded with a reason.  (A turn that the gate
\* withholds selects nothing.)
ManifestAccountsForAll ==
    \A p \in Procs: proc[p].at \in {"remember", "store", "manifest"} =>
       LET told == DocsOf(proc[p].chosen) \cup {e.doc : e \in proc[p].out} IN
       /\ proc[p].skip \/ DocsOf(proc[p].items) \subseteq told
       /\ Conflicting(proc[p].chosen) \subseteq told
       /\ Conflicting(proc[p].items) \subseteq told \cup DocsOf(proc[p].items)

\* gate_decision: what the gate holds back is what the task was last handed, as
\* long as no turn died or lost its record between remembering and handing over,
\* no two wrote the record over each other, and no capsule was cut.
SkipsRepeatTheLastDelivery ==
    \A p \in Procs:
       proc[p].skip /\ tidy /\ proc[p].sign.docs # {} => got[proc[p].task] = proc[p].sign

\* The capsule advertises a manifest that is there, unless another turn has
\* written one since and pruned it, and holds nothing the manifest does not name.
DeliveriesAreOnRecord ==
    \A p \in Procs: proc[p].at = "shown" =>
       LET mine == {m \in Range(manifests[Scope[proc[p].task]]): m.turn = proc[p].turn} IN
       /\ proc[p].newest => mine # {}
       /\ \A m \in mine: DocsOf(proc[p].capsule) \subseteq m.docs

\* "while pending": no document that was found, by whichever way, is asked for
\* or found again, so the rounds of conflicts come to an end, and none is paid
\* for or placed twice.
NothingIsFoundTwice ==
    \A p \in Procs: /\ Len(proc[p].items) = Cardinality(DocsOf(proc[p].items))
                    /\ proc[p].pending \cap DocsOf(proc[p].items) = {}

\* _runtime_filter withholds a handoff when it is closed, and PROTOCOL.md gives
\* handoffs a budget: one that was found, allowed and unchanged is not withheld.
HandoffsReachTheTask ==
    \A p \in Procs, d \in Docs:
       Doc[d].kind = "handoff" => [doc |-> d, why |-> "lifecycle"] \notin proc[p].out

\* "Remembered only for a turn that actually delivered": a turn that is held back
\* as a repeat was handed over before.
RememberedMeansDelivered ==
    \A p \in Procs: proc[p].skip /\ proc[p].sign.docs # {} =>
       got[proc[p].task].words = proc[p].sign.words
=============================================================================
