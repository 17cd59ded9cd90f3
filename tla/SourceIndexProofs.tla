-------------------------- MODULE SourceIndexProofs -------------------------
(***************************************************************************)
(* What holds of the index for any number of files, runs and words.        *)
(***************************************************************************)
EXTENDS SourceIndex, FiniteSetTheorems, TLAPS

Fields == {"at", "full", "stats", "prints", "cache", "next", "until", "claimed", "keep", "rows",
           "state", "conf", "stored", "parity", "existing", "gen", "counts", "learned"}

Runs == /\ proc = [p \in Procs |-> proc[p]]
        /\ \A p \in Procs: DOMAIN proc[p] = Fields

-----------------------------------------------------------------------------
(* Frequencies. *)

\* What is being counted was counted for a generation that is past, or is right.
CountsFit(c) == c.at = "counting" =>
    /\ c.gen \in Nat /\ c.gen <= gen
    /\ c.gen = gen => \A t \in DOMAIN c.counts: c.counts[t] = gen

FreqInv == /\ Runs
           /\ gen \in Nat /\ freq.gen \in Nat /\ freq.gen <= gen
           /\ FrequenciesMatchRows
           /\ \A p \in Procs: CountsFit(proc[p])

-----------------------------------------------------------------------------
(* Rows. *)

OnePerPath(rows) == \A d, e \in rows: d[1] = e[1] => d = e

\* What a run has read so far: one row for a candidate, of those it has come to.
RowsFit(c) ==
    /\ IsFiniteSet(c.rows) /\ OnePerPath(c.rows)
    /\ c.at \in {"reusing", "reading", "opening"} =>
          /\ c.next \in 1..Len(Order)
          /\ \A d \in c.rows: \E i \in 1..Len(Order): i < c.next /\ d[1] = Order[i]
    /\ c.at \in {"recalling", "mirroring", "recording"} => \A d \in c.rows: d[1] \in Files

TablesAgree ==
    /\ IsFiniteSet(docs) /\ OnePerPath(docs)
    /\ DOMAIN meta = Indexed
    /\ \A d \in docs: meta[d[1]] = d[2]

RowsInv == Runs /\ TablesAgree /\ \A p \in Procs: RowsFit(proc[p])

-----------------------------------------------------------------------------
(* The shape of runs. *)

LEMMA IdleFits ==
  /\ DOMAIN Idle = Fields /\ Idle.at = "idle" /\ Idle.next = 1 /\ Idle.rows = {}
  BY DEF Idle, Fields

Inside(c) == c.at \notin {"idle", "counting"}

\* A run that has come to no candidate yet.
Begun(c) == /\ c.next = 1 /\ c.claimed = {} /\ c.keep = {} /\ c.rows = {}
            /\ c.cache = Empty /\ c.state = Empty

Printed(c) == /\ DOMAIN c.prints = {"config", "skills"}
              /\ c.prints.skills = Restrict(c.stats, Mirrored \cap DOMAIN c.stats)

LEMMA Moves ==
  ASSUME Runs, NEW p \in Procs, NEW x, DOMAIN x = Fields, proc' = [proc EXCEPT ![p] = x]
  PROVE  /\ Runs' /\ proc'[p] = x
         /\ \A q \in Procs \ {p}: proc'[q] = proc[q]
  BY DEF Runs

\* The steps of p, by what they do to the run.
LEMMA Walking ==
  ASSUME Runs, NEW p \in Procs, NEW full \in BOOLEAN, Walk(p, full)
  PROVE  /\ Runs' /\ proc'[p].at \in {"reusing", "reading"}
         /\ proc'[p].next = 1 /\ proc'[p].rows = {}
         /\ \A q \in Procs \ {p}: proc'[q] = proc[q]
         /\ UNCHANGED db
         /\ proc[p] = Idle /\ Begun(proc'[p]) /\ proc'[p].full = full
         /\ proc'[p].at = IF full THEN "reading" ELSE "reusing"
         /\ proc'[p].stats = [f \in {g \in Files: files[g] # Gone} |-> files[f].ver]
         /\ Printed(proc'[p])
<1> DEFINE stats == [f \in {g \in Files: files[g] # Gone} |-> files[f].ver]
           x == [Idle EXCEPT !.at = IF full THEN "reading" ELSE "reusing",
                             !.full = full, !.stats = stats, !.prints = Fingerprints(stats)]
<1>1. /\ DOMAIN x = Fields /\ x.at = (IF full THEN "reading" ELSE "reusing")
      /\ x.full = full /\ x.stats = stats /\ x.prints = Fingerprints(stats)
  <2> HIDE DEF stats
  <2> QED BY DEF Idle, Fields
<1>2. Begun(x)
  BY DEF Idle, Begun
<1>3. Printed(x)
  <2> HIDE DEF stats, x
  <2> QED BY <1>1 DEF Fingerprints, Printed
<1>4. proc' = [proc EXCEPT ![p] = x] /\ proc[p] = Idle /\ UNCHANGED db
  BY DEF Walk
<1> HIDE DEF x
<1> QED BY <1>1, <1>2, <1>3, <1>4, Moves DEF Begun

LEMMA Reusing ==
  ASSUME Runs, NEW p \in Procs, Reuse(p)
  PROVE  /\ Runs' /\ proc[p].at = "reusing" /\ proc'[p].at = "reading"
         /\ proc'[p].next = proc[p].next /\ proc'[p].rows = proc[p].rows
         /\ \A k \in Fields \ {"at", "cache"}: proc'[p][k] = proc[p][k]
         /\ proc'[p].cache \in {Empty, Restrict(state, DOMAIN state \cap Indexed)}
         /\ \A q \in Procs \ {p}: proc'[q] = proc[q]
         /\ UNCHANGED db
<1>1. PICK cache \in {Empty, Restrict(state, DOMAIN state \cap Indexed)}:
          proc' = [proc EXCEPT ![p] = [proc[p] EXCEPT !.at = "reading", !.cache = cache]]
  BY DEF Reuse
<1> DEFINE x == [proc[p] EXCEPT !.at = "reading", !.cache = cache]
<1>2. /\ DOMAIN x = Fields /\ x.at = "reading" /\ x.next = proc[p].next /\ x.rows = proc[p].rows
      /\ x.cache = cache /\ \A k \in Fields \ {"at", "cache"}: x[k] = proc[p][k]
  BY DEF Runs, Fields
<1>3. proc' = [proc EXCEPT ![p] = x] /\ proc[p].at = "reusing" /\ UNCHANGED db
  BY <1>1 DEF Reuse
<1> HIDE DEF x
<1>4. Runs' /\ proc'[p] = x /\ \A q \in Procs \ {p}: proc'[q] = proc[q]
  BY <1>2, <1>3, Moves
<1> QED BY <1>1, <1>2, <1>3, <1>4

\* A run comes to a candidate: it passes over it, keeps its row, finds that it passes,
\* or takes its text.
Skips(c, f, e) == /\ e.claimed = c.claimed /\ e.keep = c.keep
                  /\ e.rows = c.rows /\ e.state = c.state
                  /\ f \in DOMAIN c.stats /\ Skill[f] \notin c.claimed => ~Passes(f)
Keeps(c, f, e) == /\ Skill[f] \notin c.claimed
                  /\ IsCurrent(f, c) /\ f \in DOMAIN c.stats
                  /\ e.claimed = c.claimed \cup {Skill[f]} /\ e.keep = c.keep \cup {f}
                  /\ e.rows = c.rows /\ e.state = Put(c.state, f, c.cache[f])
Opens(c, f, e) == /\ Skill[f] \notin c.claimed /\ Passes(f) /\ f \in DOMAIN c.stats
                  /\ e.claimed = c.claimed /\ e.keep = c.keep
                  /\ e.rows = c.rows /\ e.state = c.state
                  /\ e.at = "opening" /\ e.next = c.next /\ e.until = Boundary(f)
Takes(c, f, e) == /\ e.claimed = c.claimed \cup {Skill[f]} /\ e.keep = c.keep
                  /\ e.rows = c.rows \cup {<<f, files[f].ver>>}
                  /\ e.state = Put(c.state, f, [ver |-> c.stats[f], until |-> c.until])
Same(c, e) == /\ e.full = c.full /\ e.stats = c.stats /\ e.prints = c.prints
              /\ e.cache = c.cache /\ e.parity = c.parity /\ e.existing = c.existing
Goes(c, e) == \/ c.next = Len(Order) /\ e.at = "recalling"
              \/ c.next # Len(Order) /\ e.at = "reading" /\ e.next = c.next + 1

\* A run stops without a commit.
Stops(p) == Ends(p, FALSE)

LEMMA GoingOnward ==
  ASSUME NEW c, DOMAIN c = Fields
  PROVE  LET e == Onward(c)
         IN /\ DOMAIN e = Fields /\ Goes(c, e)
            /\ \A k \in Fields \ {"at", "next", "until"}: e[k] = c[k]
  BY DEF Onward, Fields, Goes

LEMMA ReadingNext ==
  ASSUME Runs, NEW p \in Procs, ReadNext(p),
         NEW c, NEW d, NEW f, c = proc[p], d = proc'[p], f = Order[c.next]
  PROVE  /\ Runs' /\ c.at = "reading" /\ Same(c, d)
         /\ \/ Goes(c, d) /\ (Skips(c, f, d) \/ Keeps(c, f, d))
            \/ Opens(c, f, d)
         /\ \A q \in Procs \ {p}: proc'[q] = proc[q]
         /\ UNCHANGED db
<1> DEFINE retained == [c EXCEPT !.claimed = @ \cup {Skill[f]}, !.keep = @ \cup {f},
                                 !.state = Put(@, f, c.cache[f])]
           opened == [c EXCEPT !.at = "opening", !.until = Boundary(f)]
<1>1. /\ c.at = "reading" /\ UNCHANGED db
      /\ \/ /\ f \in DOMAIN c.stats /\ Skill[f] \notin c.claimed => ~Passes(f)
            /\ proc' = [proc EXCEPT ![p] = Onward(c)]
         \/ /\ f \in DOMAIN c.stats /\ Skill[f] \notin c.claimed /\ IsCurrent(f, c)
            /\ proc' = [proc EXCEPT ![p] = Onward(retained)]
         \/ /\ f \in DOMAIN c.stats /\ Skill[f] \notin c.claimed /\ Passes(f)
            /\ proc' = [proc EXCEPT ![p] = opened]
  <2> HIDE DEF retained, opened
  <2> QED BY DEF ReadNext, retained, opened
<1>2. DOMAIN c = Fields
  BY DEF Runs
<1>3. /\ DOMAIN retained = Fields
      /\ \A k \in Fields \ {"claimed", "keep", "state"}: retained[k] = c[k]
      /\ retained.claimed = c.claimed \cup {Skill[f]} /\ retained.keep = c.keep \cup {f}
      /\ retained.state = Put(c.state, f, c.cache[f])
  BY <1>2 DEF Fields
<1>4. DOMAIN opened = Fields /\ Same(c, opened)
      /\ opened.claimed = c.claimed /\ opened.keep = c.keep
      /\ opened.rows = c.rows /\ opened.state = c.state
      /\ opened.at = "opening" /\ opened.next = c.next /\ opened.until = Boundary(f)
  BY <1>2 DEF Fields, Same
<1> HIDE DEF retained, opened
<1>5. CASE /\ f \in DOMAIN c.stats /\ Skill[f] \notin c.claimed => ~Passes(f)
           /\ proc' = [proc EXCEPT ![p] = Onward(c)]
  <2>1. PICK x: x = Onward(c)
    OBVIOUS
  <2>2. /\ DOMAIN x = Fields /\ Goes(c, x)
        /\ \A k \in Fields \ {"at", "next", "until"}: x[k] = c[k]
    BY <1>2, <2>1, GoingOnward
  <2>3. Same(c, x) /\ Skips(c, f, x)
    BY <1>5, <2>2 DEF Fields, Same, Skips
  <2>4. Runs' /\ x = d /\ \A q \in Procs \ {p}: proc'[q] = proc[q]
    BY <1>5, <2>1, <2>2, Moves
  <2> QED BY <1>1, <2>2, <2>3, <2>4
<1>6. CASE /\ f \in DOMAIN c.stats /\ Skill[f] \notin c.claimed /\ IsCurrent(f, c)
           /\ proc' = [proc EXCEPT ![p] = Onward(retained)]
  <2>1. PICK x: x = Onward(retained)
    OBVIOUS
  <2>2. /\ DOMAIN x = Fields /\ Goes(retained, x)
        /\ \A k \in Fields \ {"at", "next", "until"}: x[k] = retained[k]
    BY <1>3, <2>1, GoingOnward
  <2>3. Same(c, x) /\ Keeps(c, f, x) /\ Goes(c, x)
    BY <1>3, <1>6, <2>2 DEF Fields, Same, Keeps, Goes
  <2>4. Runs' /\ x = d /\ \A q \in Procs \ {p}: proc'[q] = proc[q]
    BY <1>6, <2>1, <2>2, Moves
  <2> QED BY <1>1, <2>3, <2>4
<1>7. CASE /\ f \in DOMAIN c.stats /\ Skill[f] \notin c.claimed /\ Passes(f)
           /\ proc' = [proc EXCEPT ![p] = opened]
  <2>1. Runs' /\ opened = d /\ \A q \in Procs \ {p}: proc'[q] = proc[q]
    BY <1>4, <1>7, Moves
  <2> QED BY <1>1, <1>4, <1>7, <2>1 DEF Opens, Same
<1> QED BY <1>1, <1>5, <1>6, <1>7

LEMMA Opening ==
  ASSUME Runs, NEW p \in Procs, Open(p),
         NEW c, NEW d, NEW f, c = proc[p], d = proc'[p], f = Order[c.next]
  PROVE  /\ Runs' /\ c.at = "opening"
         /\ \/ /\ Goes(c, d) /\ Same(c, d) /\ Takes(c, f, d)
               /\ files[f] # Gone /\ UNCHANGED history
            \/ d = Idle /\ Stops(p) /\ files[f] = Gone
         /\ \A q \in Procs \ {p}: proc'[q] = proc[q]
         /\ UNCHANGED db
<1> DEFINE taken == [c EXCEPT !.claimed = @ \cup {Skill[f]},
                              !.rows = @ \cup {<<f, files[f].ver>>},
                              !.state = Put(@, f, [ver |-> c.stats[f], until |-> c.until])]
<1>1. /\ c.at = "opening" /\ UNCHANGED db
      /\ \/ /\ files[f] # Gone /\ UNCHANGED history
            /\ proc' = [proc EXCEPT ![p] = Onward(taken)]
         \/ files[f] = Gone /\ Ends(p, FALSE)
  <2> HIDE DEF taken
  <2> QED BY DEF Open, taken
<1>2. DOMAIN c = Fields
  BY DEF Runs
<1>3. /\ DOMAIN taken = Fields
      /\ \A k \in Fields \ {"claimed", "rows", "state"}: taken[k] = c[k]
      /\ taken.claimed = c.claimed \cup {Skill[f]}
      /\ taken.rows = c.rows \cup {<<f, files[f].ver>>}
      /\ taken.state = Put(c.state, f, [ver |-> c.stats[f], until |-> c.until])
  BY <1>2 DEF Fields
<1> HIDE DEF taken
<1>4. CASE /\ files[f] # Gone /\ UNCHANGED history
           /\ proc' = [proc EXCEPT ![p] = Onward(taken)]
  <2>1. PICK x: x = Onward(taken)
    OBVIOUS
  <2>2. /\ DOMAIN x = Fields /\ Goes(taken, x)
        /\ \A k \in Fields \ {"at", "next", "until"}: x[k] = taken[k]
    BY <1>3, <2>1, GoingOnward
  <2>3. Same(c, x) /\ Takes(c, f, x) /\ Goes(c, x)
    BY <1>3, <2>2 DEF Fields, Same, Takes, Goes
  <2>4. Runs' /\ x = d /\ \A q \in Procs \ {p}: proc'[q] = proc[q]
    BY <1>4, <2>1, <2>2, Moves
  <2> QED BY <1>1, <1>4, <2>3, <2>4
<1>5. CASE files[f] = Gone /\ Ends(p, FALSE)
  <2>1. proc' = [proc EXCEPT ![p] = Idle]
    BY <1>5 DEF Ends
  <2> QED BY <1>1, <1>5, <2>1, Moves, IdleFits DEF Stops
<1> QED BY <1>1, <1>4, <1>5

\* The steps from the last candidate to the transaction leave what has been read alone.
Steady(c, d) == /\ d.full = c.full /\ d.stats = c.stats /\ d.prints = c.prints
                /\ d.cache = c.cache /\ d.claimed = c.claimed
                /\ d.keep = c.keep /\ d.state = c.state

Recalls(c, d) == /\ c.at = "recalling" /\ d.at \in {"mirroring", "recording"}
                 /\ d.at = "recording" =>
                       prints # Empty /\ prints.skills = c.prints.skills /\ d.parity = parity
                 /\ d.rows = c.rows /\ d.conf = config /\ d.stored = prints
Mirrors(c, d) == /\ c.at = "mirroring" /\ d.at = "recording" /\ d.parity = Drift
                 /\ d.rows = c.rows /\ d.conf = c.conf /\ d.stored = c.stored
Records(c, d) == /\ c.at = "recording" /\ d.at = "listing"
                 /\ d.rows = c.rows \cup BrainRowsOf(c.conf)
                 /\ d.parity = c.parity /\ d.stored = c.stored
Lists(c, d) == /\ c.at = "listing" /\ d.at = "comparing" /\ d.existing = Indexed
               /\ d.rows = c.rows /\ d.parity = c.parity /\ d.stored = c.stored
Writes(c, d) == /\ c.at = "comparing" /\ d.at = "writing"
                /\ d.rows = c.rows /\ d.parity = c.parity /\ d.existing = c.existing

LEMMA Recalling ==
  ASSUME Runs, NEW p \in Procs, Recall(p), NEW c, NEW d, c = proc[p], d = proc'[p]
  PROVE  /\ Runs' /\ Steady(c, d) /\ Recalls(c, d)
         /\ \A q \in Procs \ {p}: proc'[q] = proc[q]
         /\ UNCHANGED <<world, db, history>>
<1>1. PICK known \in BOOLEAN: known = (prints # Empty /\ prints.skills = c.prints.skills)
  OBVIOUS
<1> DEFINE x == [c EXCEPT !.at = IF known THEN "recording" ELSE "mirroring",
                          !.conf = config, !.stored = prints,
                          !.parity = IF known THEN parity ELSE Empty]
<1>2. proc' = [proc EXCEPT ![p] = x] /\ c.at = "recalling" /\ UNCHANGED <<world, db, history>>
  BY <1>1 DEF Recall
<1>3. DOMAIN x = Fields /\ Steady(c, x)
  BY DEF Runs, Fields, Steady
<1>4. Recalls(c, x)
  BY <1>1, <1>2 DEF Runs, Fields, Recalls
<1> HIDE DEF x
<1>5. Runs' /\ x = d /\ \A q \in Procs \ {p}: proc'[q] = proc[q]
  BY <1>2, <1>3, Moves
<1> QED BY <1>2, <1>3, <1>4, <1>5

LEMMA ComparingMirrors ==
  ASSUME Runs, NEW p \in Procs, CompareMirrors(p), NEW c, NEW d, c = proc[p], d = proc'[p]
  PROVE  /\ Runs' /\ Steady(c, d) /\ Mirrors(c, d)
         /\ \A q \in Procs \ {p}: proc'[q] = proc[q]
         /\ UNCHANGED <<world, db, history>>
<1> DEFINE x == [c EXCEPT !.at = "recording", !.parity = Drift]
<1>1. proc' = [proc EXCEPT ![p] = x] /\ c.at = "mirroring" /\ UNCHANGED <<world, db, history>>
  BY DEF CompareMirrors
<1>2. DOMAIN x = Fields /\ Steady(c, x)
  BY DEF Runs, Fields, Steady
<1>3. Mirrors(c, x)
  BY <1>1 DEF Runs, Fields, Mirrors
<1> HIDE DEF x
<1>4. Runs' /\ x = d /\ \A q \in Procs \ {p}: proc'[q] = proc[q]
  BY <1>1, <1>2, Moves
<1> QED BY <1>1, <1>2, <1>3, <1>4

LEMMA ReadingBrain ==
  ASSUME Runs, NEW p \in Procs, ReadBrain(p), NEW c, NEW d, c = proc[p], d = proc'[p]
  PROVE  /\ Runs' /\ Steady(c, d) /\ Records(c, d)
         /\ \A q \in Procs \ {p}: proc'[q] = proc[q]
         /\ UNCHANGED <<world, db, history>>
<1> DEFINE x == [c EXCEPT !.at = "listing", !.rows = @ \cup BrainRowsOf(c.conf)]
<1>1. proc' = [proc EXCEPT ![p] = x] /\ c.at = "recording" /\ UNCHANGED <<world, db, history>>
  BY DEF ReadBrain
<1>2. DOMAIN x = Fields /\ Steady(c, x)
  BY DEF Runs, Fields, Steady
<1>3. Records(c, x)
  BY <1>1 DEF Runs, Fields, Records
<1> HIDE DEF x
<1>4. Runs' /\ x = d /\ \A q \in Procs \ {p}: proc'[q] = proc[q]
  BY <1>1, <1>2, Moves
<1> QED BY <1>1, <1>2, <1>3, <1>4

Restarts(c, d) == /\ d.at = "reading" /\ d.full = TRUE /\ Begun(d)
                  /\ d.stats = c.stats /\ d.prints = c.prints

LEMMA Listing ==
  ASSUME Runs, NEW p \in Procs, List(p), NEW c, NEW d, c = proc[p], d = proc'[p]
  PROVE  /\ Runs' /\ c.at = "listing" /\ ((Steady(c, d) /\ Lists(c, d)) \/ Restarts(c, d))
         /\ \A q \in Procs \ {p}: proc'[q] = proc[q]
         /\ UNCHANGED <<world, db, history>>
<1> DEFINE x == [c EXCEPT !.at = "comparing", !.existing = Indexed]
           y == [Idle EXCEPT !.at = "reading", !.full = TRUE, !.stats = c.stats,
                             !.prints = c.prints]
<1>1. /\ proc' = [proc EXCEPT ![p] = x] \/ proc' = [proc EXCEPT ![p] = y]
      /\ c.at = "listing" /\ UNCHANGED <<world, db, history>>
  BY DEF List
<1>2. DOMAIN x = Fields /\ Steady(c, x)
  BY DEF Runs, Fields, Steady
<1>3. Lists(c, x)
  BY <1>1 DEF Runs, Fields, Lists
<1>4. DOMAIN y = Fields /\ Restarts(c, y)
  BY DEF Idle, Fields, Restarts, Begun
<1> HIDE DEF x, y
<1>5. CASE proc' = [proc EXCEPT ![p] = x]
  <2>1. Runs' /\ x = d /\ \A q \in Procs \ {p}: proc'[q] = proc[q]
    BY <1>2, <1>5, Moves
  <2> QED BY <1>1, <1>2, <1>3, <2>1
<1>6. CASE proc' = [proc EXCEPT ![p] = y]
  <2>1. Runs' /\ y = d /\ \A q \in Procs \ {p}: proc'[q] = proc[q]
    BY <1>4, <1>6, Moves
  <2> QED BY <1>1, <1>4, <2>1
<1> QED BY <1>1, <1>5, <1>6

LEMMA Comparing ==
  ASSUME Runs, NEW p \in Procs, Compare(p), NEW c, NEW d, c = proc[p], d = proc'[p]
  PROVE  /\ Runs' /\ c.at = "comparing"
         /\ \/ Steady(c, d) /\ Writes(c, d) /\ UNCHANGED history
            \/ d = Idle /\ Stops(p) /\ NothingNew(c)
         /\ \A q \in Procs \ {p}: proc'[q] = proc[q]
         /\ UNCHANGED <<world, db>>
<1> DEFINE x == [c EXCEPT !.at = "writing"]
<1>1. /\ c.at = "comparing" /\ UNCHANGED <<world, db>>
      /\ \/ proc' = [proc EXCEPT ![p] = x] /\ UNCHANGED history
         \/ Ends(p, FALSE) /\ NothingNew(c)
  BY DEF Compare
<1>2. DOMAIN x = Fields /\ Steady(c, x)
  BY DEF Runs, Fields, Steady
<1>3. Writes(c, x)
  BY <1>1 DEF Runs, Fields, Writes
<1> HIDE DEF x
<1>4. CASE proc' = [proc EXCEPT ![p] = x] /\ UNCHANGED history
  <2>1. Runs' /\ x = d /\ \A q \in Procs \ {p}: proc'[q] = proc[q]
    BY <1>2, <1>4, Moves
  <2> QED BY <1>1, <1>2, <1>3, <1>4, <2>1
<1>5. CASE Ends(p, FALSE) /\ NothingNew(c)
  <2>1. proc' = [proc EXCEPT ![p] = Idle]
    BY <1>5 DEF Ends
  <2> QED BY <1>1, <1>5, <2>1, Moves, IdleFits DEF Stops
<1> QED BY <1>1, <1>4, <1>5

LEMMA Ending ==
  ASSUME Runs, NEW p \in Procs, Commit(p) \/ StoreCounts(p)
  PROVE  /\ Runs' /\ proc'[p] = Idle /\ \A q \in Procs \ {p}: proc'[q] = proc[q]
<1>1. proc' = [proc EXCEPT ![p] = Idle]
  BY DEF Commit, Ends, StoreCounts
<1> QED BY <1>1, Moves, IdleFits

LEMMA Counting ==
  ASSUME Runs, NEW p \in Procs, StartCount(p) \/ \E t \in Tokens: CountToken(p, t)
  PROVE  /\ Runs' /\ proc'[p].at = "counting"
         /\ \/ proc'[p].rows = {} \/ proc'[p].rows = proc[p].rows
         /\ \A q \in Procs \ {p}: proc'[q] = proc[q]
         /\ UNCHANGED db
         /\ \/ /\ proc'[p].gen = gen
               /\ proc'[p].counts = IF freq.gen = gen THEN freq.counts ELSE Empty
            \/ /\ proc[p].at = "counting" /\ proc'[p].gen = proc[p].gen
               /\ \E t \in Tokens: proc'[p].counts = Put(proc[p].counts, t, gen)
<1>1. CASE StartCount(p)
  <2> DEFINE x == [Idle EXCEPT !.at = "counting", !.gen = gen,
                               !.counts = IF freq.gen = gen THEN freq.counts ELSE Empty]
  <2>1. /\ DOMAIN x = Fields /\ x.at = "counting" /\ x.rows = {} /\ x.gen = gen
        /\ x.counts = IF freq.gen = gen THEN freq.counts ELSE Empty
    BY DEF Idle, Fields
  <2>2. proc' = [proc EXCEPT ![p] = x] /\ UNCHANGED db
    BY <1>1 DEF StartCount
  <2> HIDE DEF x
  <2> QED BY <2>1, <2>2, Moves
<1>2. ASSUME NEW t \in Tokens, CountToken(p, t)
      PROVE  /\ Runs' /\ proc'[p].at = "counting" /\ proc[p].at = "counting"
             /\ proc'[p].rows = proc[p].rows /\ proc'[p].gen = proc[p].gen
             /\ proc'[p].counts = Put(proc[p].counts, t, gen)
             /\ \A q \in Procs \ {p}: proc'[q] = proc[q]
             /\ UNCHANGED db
  <2> DEFINE counts == Put(proc[p].counts, t, gen)
             x == [proc[p] EXCEPT !.counts = counts, !.learned = TRUE]
  <2>1. /\ DOMAIN x = Fields /\ x.at = proc[p].at /\ x.rows = proc[p].rows
        /\ x.gen = proc[p].gen /\ x.counts = counts
    <3> HIDE DEF counts
    <3> QED BY DEF Runs, Fields
  <2>2. proc' = [proc EXCEPT ![p] = x] /\ proc[p].at = "counting" /\ UNCHANGED db
    BY <1>2 DEF CountToken
  <2> HIDE DEF x, counts
  <2>3. Runs' /\ proc'[p] = x /\ \A q \in Procs \ {p}: proc'[q] = proc[q]
    BY <2>1, <2>2, Moves
  <2> QED BY <2>1, <2>2, <2>3 DEF counts
<1> QED BY <1>1, <1>2

RunSteps(p) == \/ \E full \in BOOLEAN: Walk(p, full)
               \/ Reuse(p) \/ ReadNext(p) \/ Open(p)
               \/ Recall(p) \/ CompareMirrors(p) \/ ReadBrain(p) \/ List(p) \/ Compare(p)

World == Tick \/ DeleteCited \/ EditRecord \/ Configure \/ Upgrade
         \/ \E f \in Files: DeleteFile(f) \/ (\E ok \in BOOLEAN, until \in 1..LastDay: EditFile(f, ok, until))

LEMMA WorldKeeps == World \/ UNCHANGED vars => UNCHANGED <<proc, docs, meta, gen, freq>>
  BY DEF World, Tick, DeleteCited, EditRecord, Configure, Upgrade, DeleteFile, EditFile, Edit,
         Changes, vars, db, world

LEMMA StepsSplit ==
  ASSUME [Next]_vars
  PROVE  \/ World \/ UNCHANGED vars
         \/ \E p \in Procs: \/ RunSteps(p) \/ Commit(p) \/ StoreCounts(p)
                            \/ StartCount(p) \/ (\E t \in Tokens: CountToken(p, t))
  BY DEF Next, World, RunSteps

LEMMA RunStepsMove ==
  ASSUME Runs, NEW p \in Procs, RunSteps(p)
  PROVE  /\ Runs' /\ proc'[p].at # "counting"
         /\ \A q \in Procs \ {p}: proc'[q] = proc[q]
         /\ UNCHANGED db
<1>1. CASE (\E full \in BOOLEAN: Walk(p, full)) \/ Reuse(p)
  BY <1>1, Walking, Reusing
<1>2. CASE ReadNext(p)
  BY <1>2, ReadingNext DEF Goes, Opens
<1>3. CASE Open(p)
  BY <1>3, Opening, IdleFits DEF Goes
<1>4. CASE Recall(p)
  BY <1>4, Recalling DEF Recalls
<1>5. CASE CompareMirrors(p)
  BY <1>5, ComparingMirrors DEF Mirrors
<1>6. CASE ReadBrain(p)
  BY <1>6, ReadingBrain DEF Records
<1>7. CASE List(p)
  BY <1>7, Listing DEF Lists, Restarts
<1>8. CASE Compare(p)
  BY <1>8, Comparing, IdleFits DEF Writes
<1> QED BY <1>1, <1>2, <1>3, <1>4, <1>5, <1>6, <1>7, <1>8 DEF RunSteps

-----------------------------------------------------------------------------
(* The counts that are stored belong to the rows. *)

LEMMA FreqInvStays == FreqInv /\ [Next]_vars => FreqInv'
<1> SUFFICES ASSUME FreqInv, [Next]_vars PROVE FreqInv'
  OBVIOUS
<1> USE DEF FreqInv, CountsFit, FrequenciesMatchRows
<1>1. CASE World \/ UNCHANGED vars
  BY <1>1, WorldKeeps DEF Runs
<1>2. ASSUME NEW p \in Procs, RunSteps(p) PROVE FreqInv'
  <2>1. /\ Runs' /\ proc'[p].at # "counting"
        /\ \A q \in Procs \ {p}: proc'[q] = proc[q]
        /\ gen' = gen /\ freq' = freq
    BY <1>2, RunStepsMove DEF db
  <2> QED BY <2>1
<1>3. ASSUME NEW p \in Procs, Commit(p) PROVE FreqInv'
  <2>1. /\ Runs' /\ proc'[p].at # "counting"
        /\ \A q \in Procs \ {p}: proc'[q] = proc[q]
    BY <1>3, Ending, IdleFits
  <2>2. freq' = freq /\ (gen' = gen \/ gen' = gen + 1)
    BY <1>3 DEF Commit, db
  <2> QED BY <2>1, <2>2
<1>4. ASSUME NEW p \in Procs, StoreCounts(p) PROVE FreqInv'
  <2>1. /\ Runs' /\ proc'[p].at # "counting"
        /\ \A q \in Procs \ {p}: proc'[q] = proc[q]
    BY <1>4, Ending, IdleFits
  <2>2. /\ gen' = gen /\ CountsFit(proc[p]) /\ proc[p].at = "counting"
        /\ freq' = freq \/ freq' = [gen |-> proc[p].gen, counts |-> proc[p].counts]
    BY <1>4 DEF StoreCounts
  <2> QED BY <2>1, <2>2
<1>5. ASSUME NEW p \in Procs, StartCount(p) \/ \E t \in Tokens: CountToken(p, t) PROVE FreqInv'
  <2>1. /\ Runs' /\ proc'[p].at = "counting"
        /\ \A q \in Procs \ {p}: proc'[q] = proc[q]
        /\ gen' = gen /\ freq' = freq
    BY <1>5, Counting DEF db
  <2>2. CASE proc'[p].gen = gen /\ proc'[p].counts = IF freq.gen = gen THEN freq.counts ELSE Empty
    <3>1. CountsFit(proc'[p])
      BY <2>2 DEF Empty
    <3> QED BY <2>1, <3>1
  <2>3. ASSUME NEW t \in Tokens, proc[p].at = "counting", proc'[p].gen = proc[p].gen,
               proc'[p].counts = Put(proc[p].counts, t, gen)
        PROVE  FreqInv'
    <3>1. \A u \in DOMAIN proc'[p].counts:
             \/ proc'[p].counts[u] = gen
             \/ u \in DOMAIN proc[p].counts /\ proc'[p].counts[u] = proc[p].counts[u]
      BY <2>3 DEF Put
    <3>2. CountsFit(proc'[p])
      BY <2>3, <3>1
    <3> QED BY <2>1, <3>2
  <2> QED BY <1>5, <2>2, <2>3, Counting
<1> QED BY <1>1, <1>2, <1>3, <1>4, <1>5, StepsSplit

-----------------------------------------------------------------------------
(* A document has one row and one entry. *)

LEMMA NewRowFits ==
  ASSUME NEW rows, NEW next \in 1..Len(Order), NEW v, IsFiniteSet(rows), OnePerPath(rows),
         \A d \in rows: \E i \in 1..Len(Order): i < next /\ d[1] = Order[i]
  PROVE  /\ IsFiniteSet(rows \cup {<<Order[next], v>>})
         /\ OnePerPath(rows \cup {<<Order[next], v>>})
<1>1. \A d \in rows: d[1] # Order[next]
  BY IndexAssumption
<1>2. IsFiniteSet(rows \cup {<<Order[next], v>>})
  BY FS_AddElement
<1>3. OnePerPath(rows \cup {<<Order[next], v>>})
  <2> SUFFICES ASSUME NEW d \in rows \cup {<<Order[next], v>>},
                      NEW e \in rows \cup {<<Order[next], v>>}, d[1] = e[1]
               PROVE  d = e
    BY DEF OnePerPath
  <2>1. \A x \in rows \cup {<<Order[next], v>>}: x \in rows \/ x = <<Order[next], v>>
    OBVIOUS
  <2>2. <<Order[next], v>>[1] = Order[next]
    OBVIOUS
  <2> QED BY <1>1, <2>1, <2>2, Zenon DEF OnePerPath
<1> QED BY <1>2, <1>3

LEMMA BrainRowsFit ==
  ASSUME NEW rows, IsFiniteSet(rows), OnePerPath(rows), \A d \in rows: d[1] \in Files,
         NEW conf
  PROVE  IsFiniteSet(rows \cup BrainRowsOf(conf)) /\ OnePerPath(rows \cup BrainRowsOf(conf))
<1>1. \A d \in rows: d[1] # Record
  BY IndexAssumption DEF Record
<1>2. CASE BrainRowsOf(conf) = {}
  BY <1>2
<1>3. CASE BrainRowsOf(conf) = {<<Record, brain>>}
  BY <1>1, <1>3, FS_AddElement DEF OnePerPath
<1> QED BY <1>2, <1>3 DEF BrainRowsOf

LEMMA RunStepsFit ==
  ASSUME RowsInv, NEW p \in Procs, RunSteps(p)
  PROVE  RowsFit(proc'[p])
<1>0. /\ RowsFit(proc[p]) /\ Runs
      /\ Order \in Seq(Files) /\ Order # <<>> /\ 1 \in 1..Len(Order) /\ Len(Order) \in Nat
  BY IndexAssumption DEF RowsInv
<1>a. IsFiniteSet({}) /\ OnePerPath({})
  BY FS_EmptySet DEF OnePerPath
<1>1. ASSUME NEW full \in BOOLEAN, Walk(p, full) PROVE RowsFit(proc'[p])
  BY <1>0, <1>1, <1>a, Walking DEF RowsFit
<1>2. CASE Reuse(p)
  BY <1>0, <1>2, Reusing DEF RowsFit
<1>b. PICK c, d, f: c = proc[p] /\ d = proc'[p] /\ f = Order[c.next]
  OBVIOUS
<1>c. \A i \in 1..Len(Order): Order[i] \in Files
  BY <1>0
<1>3. CASE ReadNext(p)
  <2>1. c.at = "reading" /\ d.rows = c.rows /\ (Goes(c, d) \/ (d.at = "opening" /\ d.next = c.next))
    BY <1>0, <1>3, <1>b, ReadingNext DEF Skips, Keeps, Opens
  <2> QED BY <1>0, <1>b, <1>c, <2>1 DEF RowsFit, Goes
<1>4. CASE Open(p)
  <2>1. CASE Goes(c, d) /\ Takes(c, f, d) /\ c.at = "opening"
    <3>1. PICK n, v: n = c.next /\ v = files[f].ver
      OBVIOUS
    <3>2. /\ IsFiniteSet(c.rows) /\ OnePerPath(c.rows) /\ n \in 1..Len(Order)
          /\ \A r \in c.rows: \E i \in 1..Len(Order): i < n /\ r[1] = Order[i]
      BY <1>0, <1>b, <2>1, <3>1 DEF RowsFit
    <3>3. d.rows = c.rows \cup {<<Order[n], v>>}
      BY <1>b, <2>1, <3>1 DEF Takes
    <3>4. IsFiniteSet(d.rows) /\ OnePerPath(d.rows)
      <4>1. /\ IsFiniteSet(c.rows \cup {<<Order[n], v>>})
            /\ OnePerPath(c.rows \cup {<<Order[n], v>>})
        BY <3>2, NewRowFits
      <4> QED BY <3>3, <4>1
    <3>5. \A r \in d.rows: \E i \in 1..Len(Order): i <= n /\ r[1] = Order[i]
      BY <3>2, <3>3
    <3>6. RowsFit(d)
      BY <1>0, <1>c, <2>1, <3>1, <3>2, <3>4, <3>5 DEF RowsFit, Goes
    <3> QED BY <1>b, <3>6
  <2>2. CASE d = Idle
    BY <1>a, <1>b, <2>2, IdleFits DEF RowsFit
  <2> QED BY <1>0, <1>4, <1>b, <2>1, <2>2, Opening
<1>5. CASE Recall(p)
  <2>1. Recalls(c, d)
    BY <1>0, <1>5, <1>b, Recalling
  <2> QED BY <1>0, <1>b, <2>1 DEF RowsFit, Recalls
<1>6. CASE CompareMirrors(p)
  <2>1. Mirrors(c, d)
    BY <1>0, <1>6, <1>b, ComparingMirrors
  <2> QED BY <1>0, <1>b, <2>1 DEF RowsFit, Mirrors
<1>7. CASE ReadBrain(p)
  <2>1. Records(c, d)
    BY <1>0, <1>7, <1>b, ReadingBrain
  <2>2. /\ IsFiniteSet(c.rows \cup BrainRowsOf(c.conf)) /\ OnePerPath(c.rows \cup BrainRowsOf(c.conf))
    BY <1>0, <1>b, <2>1, BrainRowsFit DEF RowsFit, Records
  <2> QED BY <1>b, <2>1, <2>2 DEF RowsFit, Records
<1>8. CASE List(p)
  <2>1. Lists(c, d) \/ Restarts(c, d)
    BY <1>0, <1>8, <1>b, Listing
  <2> QED BY <1>0, <1>a, <1>b, <2>1 DEF RowsFit, Lists, Restarts, Begun
<1>9. CASE Compare(p)
  <2>1. Writes(c, d) \/ d = Idle
    BY <1>0, <1>9, <1>b, Comparing
  <2> QED BY <1>0, <1>a, <1>b, <2>1, IdleFits DEF RowsFit, Writes
<1> QED BY <1>1, <1>2, <1>3, <1>4, <1>5, <1>6, <1>7, <1>8, <1>9 DEF RunSteps

LEMMA CommitAgrees ==
  ASSUME RowsInv, NEW p \in Procs, Commit(p)
  PROVE  TablesAgree'
<1> DEFINE c == proc[p]
           dropped == IF c.keep = {} THEN Indexed ELSE c.existing \ c.keep
           kept == DOMAIN meta \ dropped
           new == {d[1]: d \in c.rows}
           old == {d \in docs: d[1] \notin dropped}
<1>0. IsFiniteSet(c.rows) /\ OnePerPath(c.rows) /\ TablesAgree
  BY DEF RowsInv, RowsFit
<1>1. CASE docs' = docs /\ meta' = meta
  BY <1>0, <1>1 DEF TablesAgree, Indexed
<1>2. CASE /\ ~Conflicts(c, kept)
           /\ docs' = old \cup c.rows
           /\ meta' = [f \in kept \cup new |->
                        IF f \in new THEN (CHOOSE d \in c.rows: d[1] = f)[2] ELSE meta[f]]
  <2> HIDE DEF dropped
  <2>1. \A d \in old: d \in docs /\ d[1] \in kept
    BY <1>0 DEF TablesAgree, Indexed
  <2>2. \A d \in c.rows: d[1] \notin kept
    BY <1>2 DEF Conflicts
  <2>3. IsFiniteSet(docs')
    BY <1>0, <1>2, FS_Subset, FS_Union DEF TablesAgree
  <2>4. OnePerPath(docs')
    BY <1>0, <1>2, <2>1, <2>2 DEF TablesAgree, OnePerPath
  <2>5. DOMAIN meta' = kept \cup new
    BY <1>2
  <2>6. \A f \in kept: \E d \in old: d[1] = f
    BY <1>0 DEF TablesAgree, Indexed
  <2>7. DOMAIN meta' = Indexed'
    <3>1. Indexed' = {d[1]: d \in old} \cup new
      BY <1>2 DEF Indexed
    <3>2. {d[1]: d \in old} = kept
      BY <2>1, <2>6
    <3> QED BY <2>5, <3>1, <3>2
  <2>8. \A d \in c.rows: meta'[d[1]] = d[2]
    <3> SUFFICES ASSUME NEW d \in c.rows PROVE meta'[d[1]] = d[2]
      OBVIOUS
    <3>1. (CHOOSE e \in c.rows: e[1] = d[1]) = d
      BY <1>0 DEF OnePerPath
    <3> QED BY <1>2, <3>1
  <2>9. \A d \in old: meta'[d[1]] = d[2]
    BY <1>0, <1>2, <2>1, <2>2 DEF TablesAgree
  <2> QED BY <1>2, <2>3, <2>4, <2>7, <2>8, <2>9 DEF TablesAgree
<1> QED BY <1>1, <1>2 DEF Commit, db

LEMMA RowsInvStays == RowsInv /\ [Next]_vars => RowsInv'
<1> SUFFICES ASSUME RowsInv, [Next]_vars PROVE RowsInv'
  OBVIOUS
<1>0. Runs /\ TablesAgree /\ \A p \in Procs: RowsFit(proc[p])
  BY DEF RowsInv
<1>a. RowsFit(Idle)
  BY IdleFits, FS_EmptySet DEF RowsFit, OnePerPath
<1>1. CASE World \/ UNCHANGED vars
  BY <1>0, <1>1, WorldKeeps DEF RowsInv, Runs, TablesAgree, Indexed, RowsFit
<1>b. (\A q \in Procs: RowsFit(proc'[q])) <=> (\A q \in Procs: RowsFit(proc[q]))'
  BY DEF RowsFit, OnePerPath
<1>2. ASSUME NEW p \in Procs, RunSteps(p) PROVE RowsInv'
  <2>1. Runs' /\ (\A q \in Procs \ {p}: proc'[q] = proc[q]) /\ docs' = docs /\ meta' = meta
    BY <1>0, <1>2, RunStepsMove DEF db
  <2>2. \A q \in Procs: RowsFit(proc'[q])
    BY <1>0, <1>2, <2>1, RunStepsFit
  <2> QED BY <1>0, <1>b, <2>1, <2>2 DEF RowsInv, TablesAgree, Indexed
<1>3. ASSUME NEW p \in Procs, Commit(p) PROVE RowsInv'
  <2>1. Runs' /\ proc'[p] = Idle /\ (\A q \in Procs \ {p}: proc'[q] = proc[q])
    BY <1>0, <1>3, Ending
  <2>2. \A q \in Procs: RowsFit(proc'[q])
    BY <1>0, <1>a, <2>1
  <2> QED BY <1>3, <1>b, <2>1, <2>2, CommitAgrees DEF RowsInv
<1>4. ASSUME NEW p \in Procs, StoreCounts(p) PROVE RowsInv'
  <2>1. Runs' /\ proc'[p] = Idle /\ (\A q \in Procs \ {p}: proc'[q] = proc[q])
    BY <1>0, <1>4, Ending
  <2>2. \A q \in Procs: RowsFit(proc'[q])
    BY <1>0, <1>a, <2>1
  <2>3. docs' = docs /\ meta' = meta
    BY <1>4 DEF StoreCounts
  <2> QED BY <1>0, <1>b, <2>1, <2>2, <2>3 DEF RowsInv, TablesAgree, Indexed
<1>5. ASSUME NEW p \in Procs, StartCount(p) \/ \E t \in Tokens: CountToken(p, t) PROVE RowsInv'
  <2>1. /\ Runs' /\ (\A q \in Procs \ {p}: proc'[q] = proc[q]) /\ docs' = docs /\ meta' = meta
        /\ proc'[p].at = "counting" /\ (proc'[p].rows = {} \/ proc'[p].rows = proc[p].rows)
    BY <1>0, <1>5, Counting DEF db
  <2>2. \A q \in Procs: RowsFit(proc'[q])
    <3>1. IsFiniteSet(proc'[p].rows) /\ OnePerPath(proc'[p].rows)
      BY <1>0, <2>1, FS_EmptySet DEF RowsFit, OnePerPath
    <3>2. RowsFit(proc'[p])
      BY <2>1, <3>1 DEF RowsFit
    <3> QED BY <1>0, <2>1, <3>2
  <2> QED BY <1>0, <1>b, <2>1, <2>2 DEF RowsInv, TablesAgree, Indexed
<1> QED BY <1>1, <1>2, <1>3, <1>4, <1>5, StepsSplit

-----------------------------------------------------------------------------
(* The theorems. *)

LEMMA InitInvs == Init => FreqInv /\ RowsInv
<1> SUFFICES ASSUME Init PROVE FreqInv /\ RowsInv
  OBVIOUS
<1>1. (\A p \in Procs: proc[p] = Idle) /\ Runs
  BY IdleFits DEF Init, Runs
<1>2. /\ gen = 0 /\ freq.gen = 0 /\ DOMAIN freq.counts = {}
      /\ docs = {} /\ DOMAIN meta = {}
  BY DEF Init, Empty
<1>3. FreqInv
  BY <1>1, <1>2, IdleFits DEF FreqInv, CountsFit, FrequenciesMatchRows
<1>4. TablesAgree
  BY <1>2, FS_EmptySet DEF TablesAgree, OnePerPath, Indexed
<1>5. RowsFit(Idle)
  BY IdleFits, FS_EmptySet DEF RowsFit, OnePerPath
<1> QED BY <1>1, <1>3, <1>4, <1>5 DEF RowsInv

\* A retrieval never weighs its words by frequencies that were counted in other
\* rows than those it searches, whatever runs commit between the reading of the
\* generation, the counting and the storing (token_document_frequencies).
THEOREM FrequenciesAreCurrent == Spec => []FrequenciesMatchRows
<1>1. Init => FreqInv
  BY InitInvs
<1>2. FreqInv => FrequenciesMatchRows
  BY DEF FreqInv
<1> QED BY <1>1, <1>2, FreqInvStays, PTL DEF Spec

LEMMA AgreementCounts == TablesAgree => RowsAgree
<1> SUFFICES ASSUME TablesAgree PROVE Cardinality(docs) = Cardinality(DOMAIN meta)
  BY DEF TablesAgree, RowsAgree, Indexed
<1> DEFINE path == [d \in docs |-> d[1]]
<1>1. path \in Bijection(docs, Indexed)
  BY DEF TablesAgree, OnePerPath, Indexed, Bijection, Injection, Surjection,
             IsInjective
<1>2. ExistsBijection(docs, Indexed)
  BY <1>1 DEF ExistsBijection
<1> QED BY <1>2, FS_Bijection DEF TablesAgree

\* However many runs overlap, and whatever changes while they read, a document has
\* one row and the one entry of metadata that belongs to it (index_documents).
THEOREM DocumentsHaveOneRow == Spec => []RowsAgree
<1>1. Init => RowsInv
  BY InitInvs
<1>2. RowsInv => RowsAgree
  BY AgreementCounts DEF RowsInv
<1> QED BY <1>1, <1>2, RowsInvStays, PTL DEF Spec
-----------------------------------------------------------------------------
(* What a quiet run leaves. *)

\* Versions are given out once: one that was recorded is the file's own, or it is
\* never the file's again.
Recorded(v) == v \in 1..(edits + 1)

WorldFits ==
    /\ edits \in Nat
    /\ DOMAIN files = Files
    /\ \A f \in Files: files[f] = Gone \/ Recorded(files[f].ver)

\* Of the mirrors whose version is the one in a fingerprint, the drift that is
\* stored with it says what they say.
Covers(skills, drift) == \A f \in DOMAIN skills:
    /\ f \in Files /\ Recorded(skills[f])
    /\ files[f].ver = skills[f] => f \in DOMAIN drift /\ drift[f] = skills[f]

WalkFits(c) ==
    /\ DOMAIN c.stats \subseteq Files
    /\ \A f \in DOMAIN c.stats: Recorded(c.stats[f])
    /\ Printed(c)
    /\ c.at \in {"recording", "listing", "comparing", "writing"} => Covers(c.prints.skills, c.parity)

ParityInv ==
    /\ prints # Empty => Covers(prints.skills, parity)
    /\ \A c \in {proc[p]: p \in Procs}: Inside(c) => WalkFits(c)

\* An entry of the cache whose stat is that of the file vouches for a row of it.
Vouches(f, e) ==
    /\ f \in Files /\ Recorded(e.ver)
    /\ e.ver = files[f].ver => files[f].ok /\ e.until = Boundary(f)
Honest(f, e, rows) ==
    /\ Vouches(f, e)
    /\ e.ver = files[f].ver => <<f, e.ver>> \in rows

\* A run that no other overlaps: what it keeps is cached, what it will store is honest.
AloneRun(c) ==
    /\ c.full => c.cache = Empty
    /\ c.at = "reusing" => ~c.full /\ c.next = 1
    /\ c.keep \subseteq DOMAIN c.cache \cap Files
    /\ ~mixed => \A f \in DOMAIN c.cache: Honest(f, c.cache[f], docs)
    /\ \A f \in DOMAIN c.state:
         \/ f \in c.keep /\ c.state[f] = c.cache[f]
         \/ Honest(f, c.state[f], c.rows)
    /\ \A d \in c.rows: d[1] \notin c.keep
    /\ c.at \in {"mirroring", "recording", "listing", "comparing"} => c.stored = prints
    /\ c.at \in {"comparing", "writing"} => c.existing = Indexed
    /\ c.at = "opening" =>
         Vouches(Order[c.next], [ver |-> c.stats[Order[c.next]], until |-> c.until])
    /\ c.at \in {"reusing", "reading", "opening"} =>
         \A f \in c.keep: \E i \in 1..Len(Order): i < c.next /\ f = Order[i]

StateHonest == ~mixed => \A f \in DOMAIN state: Honest(f, state[f], docs)

AloneInv ==
    /\ calm \subseteq Running
    /\ \A p \in alone: p \in Procs /\ Running = {p}
    /\ \A c \in {proc[p]: p \in alone}: AloneRun(c)
    /\ StateHonest

\* All that Passes asks, but for the cited file.
Stands(f) == /\ files[f].ver # 0 /\ files[f].ok
             /\ Kind[f] = "memory" => day <= files[f].until

Come(c) == {i \in 1..Len(Order): c.at \in {"reusing", "reading", "opening"} => i < c.next}
Paths(rows) == {d[1]: d \in rows}
Taken(c) == c.keep \cup (Paths(c.rows) \cap Files)

\* What it has taken of the candidates it has come to is what a full run would take:
\* of each skill the first copy that passes.
TakesTheFirst(c) ==
    /\ \A f \in c.keep: Stands(f) /\ <<f, files[f].ver>> \in docs
    /\ \A f \in Taken(c): \E i \in Come(c): f = Order[i]
    /\ \A f \in Taken(c): Skill[f] \in c.claimed
    /\ \A s \in c.claimed: \E f \in Taken(c): Skill[f] = s
    /\ \A i \in Come(c): Passes(Order[i]) => \E f \in Taken(c): Skill[f] = Skill[Order[i]]
    /\ \A i, j \in Come(c): i < j /\ Order[j] \in Taken(c) /\ Skill[Order[i]] = Skill[Order[j]]
                             => ~Passes(Order[i])

\* A run that no other overlaps and no change of the files either.
CalmRun(c) ==
    /\ DOMAIN c.stats = {f \in Files: files[f] # Gone}
    /\ \A f \in DOMAIN c.stats: c.stats[f] = files[f].ver
    /\ \A d \in c.rows: \/ d \in BrainRows
                        \/ \E f \in Files: d = <<f, files[f].ver>> /\ Passes(f)
    /\ c.at = "opening" => LET f == Order[c.next]
                           IN Passes(f) /\ c.until = Boundary(f) /\ Skill[f] \notin c.claimed
    /\ c.at \in {"mirroring", "recording"} => c.conf = config
    /\ c.at \in {"listing", "comparing", "writing"} => BrainRows \subseteq c.rows
    /\ ~mixed \/ c.full => TakesTheFirst(c)

QuietInv ==
    /\ RowsInv /\ WorldFits /\ ParityInv /\ AloneInv
    /\ \A c \in {proc[p]: p \in calm \cap alone}: CalmRun(c)
    /\ QuietRunsAreFaithful

-----------------------------------------------------------------------------
(* Changes of the world. *)

LEMMA GoneFits == Gone.ver = 0 /\ ~Recorded(Gone.ver) /\ ~Recorded(0)
  BY DEF Gone, Recorded

\* A version that was recorded stays so, and is the file's only while the file stays.
LEMMA WorldMoves ==
  ASSUME WorldFits, World \/ UNCHANGED vars
  PROVE  /\ WorldFits'
         /\ \A v: Recorded(v) => Recorded(v)'
         /\ \A f \in Files: \A v: Recorded(v) /\ files'[f].ver = v => files'[f] = files[f]
<1>1. CASE UNCHANGED <<files, edits>>
  BY <1>1 DEF WorldFits, Recorded
<1>2. ASSUME Edit
      PROVE  /\ edits' = edits + 1 /\ edits' \in Nat
             /\ \A v: Recorded(v) => Recorded(v)'
  BY <1>2 DEF Edit, WorldFits, Recorded
<1>3. CASE Edit /\ files' = files
  BY <1>2, <1>3 DEF WorldFits
<1>4. ASSUME NEW f \in Files, DeleteFile(f)
      PROVE  /\ WorldFits'
             /\ \A g \in Files: \A v: Recorded(v) /\ files'[g].ver = v => files'[g] = files[g]
  <2>1. files' = [files EXCEPT ![f] = Gone] /\ Edit
    BY <1>4 DEF DeleteFile
  <2>2. DOMAIN files' = Files /\ \A g \in Files: files'[g] = files[g] \/ files'[g] = Gone
    BY <2>1 DEF WorldFits
  <2> QED BY <1>2, <2>1, <2>2, GoneFits DEF WorldFits
<1>5. ASSUME NEW f \in Files, NEW ok \in BOOLEAN, NEW until \in 1..LastDay, EditFile(f, ok, until)
      PROVE  /\ WorldFits'
             /\ \A g \in Files: \A v: Recorded(v) /\ files'[g].ver = v => files'[g] = files[g]
  <2>1. /\ Edit
        /\ files' = [files EXCEPT ![f] = [ver |-> edits + 2, ok |-> ok, until |-> until]]
    BY <1>5 DEF EditFile
  <2>2. /\ DOMAIN files' = Files
        /\ \A g \in Files: files'[g] = files[g] \/ files'[g].ver = edits + 2
    BY <2>1 DEF WorldFits
  <2>3. PICK v: v = edits + 2
    OBVIOUS
  <2>4. Recorded(v)' /\ ~Recorded(v)
    BY <1>2, <2>1, <2>3 DEF Recorded, WorldFits
  <2>5. \A g \in Files: files'[g] = files[g] \/ files'[g].ver = v
    BY <2>2, <2>3
  <2> QED BY <1>2, <2>1, <2>2, <2>4, <2>5 DEF WorldFits
<1>6. CASE Upgrade
  BY <1>6 DEF Upgrade, WorldFits, Recorded
<1>7. ASSUME NEW f \in Files,
             DeleteFile(f) \/ (\E ok \in BOOLEAN, until \in 1..LastDay: EditFile(f, ok, until))
      PROVE  Edit
  BY <1>7 DEF DeleteFile, EditFile
<1>8. CASE Tick \/ DeleteCited \/ EditRecord \/ Configure \/ UNCHANGED vars
  BY <1>1, <1>3, <1>8 DEF Tick, DeleteCited, EditRecord, Configure, vars, world
<1> QED BY <1>2, <1>4, <1>5, <1>6, <1>7, <1>8 DEF World, Upgrade, WorldFits, Recorded

LEMMA WorldKeepsMore ==
  ASSUME World \/ UNCHANGED vars
  PROVE  /\ UNCHANGED <<docs, meta, prints, parity, proc, alone, mixed>>
         /\ state' = state \/ state' = Empty
         /\ \/ calm' = {} /\ fresh' = FALSE
            \/ UNCHANGED <<day, files, cited, brain, config, calm, fresh>>
  BY DEF World, Tick, DeleteCited, EditRecord, Configure, Upgrade, DeleteFile, EditFile, Edit,
         Changes, vars, db, world, history

\* What is recorded outlasts the changes of the world.
LEMMA VouchesStays ==
  ASSUME WorldFits, World \/ UNCHANGED vars, NEW f, NEW e, Vouches(f, e)
  PROVE  Vouches(f, e)'
<1>1. f \in Files /\ Recorded(e.ver) /\ Recorded(e.ver)'
  BY WorldMoves DEF Vouches
<1>2. files'[f].ver = e.ver => files'[f] = files[f]
  BY <1>1, WorldMoves
<1> QED BY <1>1, <1>2 DEF Vouches, Boundary

LEMMA HonestStays ==
  ASSUME WorldFits, World \/ UNCHANGED vars, NEW f, NEW e, NEW rows, Honest(f, e, rows)
  PROVE  Honest(f, e, rows)'
<1>1. Vouches(f, e)'
  BY VouchesStays DEF Honest
<1>2. files'[f].ver = e.ver => files'[f] = files[f]
  BY WorldMoves DEF Honest, Vouches
<1> QED BY <1>1, <1>2 DEF Honest

LEMMA CoversStays ==
  ASSUME WorldFits, World \/ UNCHANGED vars, NEW skills, NEW drift, Covers(skills, drift)
  PROVE  Covers(skills, drift)'
<1> SUFFICES ASSUME NEW f \in DOMAIN skills
             PROVE  /\ f \in Files /\ Recorded(skills[f])'
                    /\ files'[f].ver = skills[f] => f \in DOMAIN drift /\ drift[f] = skills[f]
  BY DEF Covers
<1>1. f \in Files /\ Recorded(skills[f]) /\ Recorded(skills[f])'
  BY WorldMoves DEF Covers
<1>2. files'[f].ver = skills[f] => files'[f] = files[f]
  BY <1>1, WorldMoves
<1> QED BY <1>1, <1>2 DEF Covers

-----------------------------------------------------------------------------
(* How a step of one run leaves the others. *)

LEMMA SameWorld ==
  ASSUME UNCHANGED <<world, docs, prints, mixed>>, NEW d
  PROVE  /\ WalkFits(d) => WalkFits(d)'
         /\ AloneRun(d) => AloneRun(d)'
         /\ CalmRun(d) => CalmRun(d)'
<1> USE DEF world
<1>1. WalkFits(d) => WalkFits(d)'
  BY DEF WalkFits, Covers, Recorded
<1>2. AloneRun(d) => AloneRun(d)'
  BY DEF AloneRun, Honest, Vouches, Boundary, Recorded, Indexed
<1>3. TakesTheFirst(d) => TakesTheFirst(d)'
  BY DEF TakesTheFirst, Stands, Passes
<1>4. CalmRun(d) => CalmRun(d)'
  BY <1>3 DEF CalmRun, Passes, Boundary, BrainRows, BrainRowsOf
<1> QED BY <1>1, <1>2, <1>4

LEMMA SameTables ==
  ASSUME QuietRunsAreFaithful,
         UNCHANGED <<day, files, cited, brain, config, docs, parity, fresh, mixed>>
  PROVE  QuietRunsAreFaithful'
<1>1. \A f: Passes(f)' <=> Passes(f)
  BY DEF Passes
<1>2. Wanted' = Wanted
  BY <1>1 DEF Wanted
<1>3. BrainRows' = BrainRows /\ Drift' = Drift
  BY DEF BrainRows, BrainRowsOf, Drift
<1>4. Ideal' = Ideal
  BY <1>2, <1>3 DEF Ideal
<1> QED BY <1>3, <1>4 DEF QuietRunsAreFaithful

LEMMA WorldFitsStays ==
  ASSUME WorldFits, UNCHANGED world
  PROVE  WorldFits'
  BY DEF WorldFits, Recorded, world

\* Whoever is alone is the only one that runs.
LEMMA OthersAreNotAlone ==
  ASSUME QuietInv, NEW p \in Running
  PROVE  alone \subseteq {p}
  BY DEF QuietInv, AloneInv

LEMMA RunningMoves ==
  ASSUME NEW p \in Procs, \A q \in Procs \ {p}: proc'[q] = proc[q]
  PROVE  Running' = IF Inside(proc'[p]) THEN Running \cup {p} ELSE Running \ {p}
<1>1. \A q \in Procs: q \in Running <=> Inside(proc[q])
  BY DEF Running, Inside
<1>2. \A q: q \in Running' <=> q \in Procs /\ Inside(proc'[q])
  BY DEF Running, Inside
<1>3. Running \subseteq Procs
  BY DEF Running
<1>4. \A q \in Procs \ {p}: q \in Running' <=> q \in Running
  BY <1>1, <1>2
<1> QED BY <1>1, <1>2, <1>3, <1>4

\* A run goes on: what is asked of it is asked of it alone.
LEMMA RunGoesOn ==
  ASSUME QuietInv, RowsInv', NEW p \in Procs, \A q \in Procs \ {p}: proc'[q] = proc[q],
         UNCHANGED <<world, db, fresh, mixed>>,
         NEW d, d = proc'[p], Inside(d), WalkFits(d),
         calm' \subseteq calm \cup {p}, alone' \subseteq {p},
         alone' = {} \/ Running \subseteq {p},
         p \in alone' => AloneRun(d),
         p \in alone' /\ p \in calm' => CalmRun(d)
  PROVE  QuietInv'
<1>1. UNCHANGED <<world, docs, mixed, state, prints, parity>>
  BY DEF db
<1>2. WorldFits'
  BY <1>1, WorldFitsStays DEF QuietInv
<1>3. Running' = Running \cup {p}
  BY RunningMoves
<1>4. ParityInv'
  <2>1. (prints # Empty => Covers(prints.skills, parity))'
    BY <1>1 DEF QuietInv, ParityInv, Covers, Recorded, world
  <2>2. \A c \in {proc'[q]: q \in Procs}: Inside(c) => WalkFits(c)'
    <3>1. \A c \in {proc[q]: q \in Procs} \cup {d}: Inside(c) => WalkFits(c)
      BY DEF QuietInv, ParityInv
    <3>2. \A c \in {proc'[q]: q \in Procs}: c \in {proc[q]: q \in Procs} \cup {d}
      OBVIOUS
    <3> QED BY <1>1, <3>1, <3>2, SameWorld
  <2>3. \A c: Inside(c)' <=> Inside(c)
    BY DEF Inside
  <2> QED BY <2>1, <2>2, <2>3 DEF ParityInv
<1>5. AloneInv'
  <2>1. calm' \subseteq Running'
    BY <1>3 DEF QuietInv, AloneInv
  <2>2. \A q \in alone': q \in Procs /\ Running' = {q}
    BY <1>3
  <2>3. \A c \in {proc'[q]: q \in alone'}: AloneRun(c)'
    BY <1>1, SameWorld
  <2>4. StateHonest'
    BY <1>1 DEF QuietInv, AloneInv, StateHonest, Honest, Vouches, Boundary, Recorded, world
  <2> QED BY <2>1, <2>2, <2>3, <2>4 DEF AloneInv
<1>6. \A c \in {proc'[q]: q \in calm' \cap alone'}: CalmRun(c)'
  BY <1>1, SameWorld
<1>7. QuietRunsAreFaithful'
  BY <1>1, SameTables DEF QuietInv, world
<1> QED BY <1>2, <1>4, <1>5, <1>6, <1>7 DEF QuietInv

\* A run ends: what it leaves in the tables remains to be shown.
LEMMA RunEnds ==
  ASSUME QuietInv, RowsInv', NEW p \in Running, \A q \in Procs \ {p}: proc'[q] = proc[q],
         proc'[p] = Idle, UNCHANGED world, calm' = calm \ {p}, alone' = alone \ {p},
         prints' # Empty => Covers(prints.skills, parity)', StateHonest', QuietRunsAreFaithful'
  PROVE  QuietInv'
<1>1. WorldFits'
  BY WorldFitsStays DEF QuietInv
<1>2. ~Inside(Idle) /\ p \in Procs
  BY IdleFits DEF Inside, Running
<1>3. Running' = Running \ {p}
  BY <1>2, RunningMoves
<1>4. alone' = {}
  BY OthersAreNotAlone
<1>5. ParityInv'
  <2>1. \A c: Inside(c) /\ WalkFits(c) => WalkFits(c)'
    BY DEF WalkFits, Covers, Recorded, world
  <2>2. \A c \in {proc'[q]: q \in Procs}: Inside(c) => WalkFits(c)'
    <3>1. \A c \in {proc[q]: q \in Procs}: Inside(c) => WalkFits(c)
      BY DEF QuietInv, ParityInv
    <3>2. \A c \in {proc'[q]: q \in Procs}: c \in {proc[q]: q \in Procs} \/ c = Idle
      BY <1>2
    <3> QED BY <1>2, <2>1, <3>1, <3>2
  <2>3. \A c: Inside(c)' <=> Inside(c)
    BY DEF Inside
  <2> QED BY <2>2, <2>3 DEF ParityInv
<1>6. AloneInv'
  BY <1>3, <1>4 DEF QuietInv, AloneInv
<1> QED BY <1>1, <1>4, <1>5, <1>6 DEF QuietInv

\* A count of words is no run, and touches nothing that a run reads.
LEMMA CountsAside ==
  ASSUME QuietInv, RowsInv', NEW p \in Procs, \A q \in Procs \ {p}: proc'[q] = proc[q],
         ~Inside(proc[p]), ~Inside(proc'[p]),
         UNCHANGED <<world, docs, state, prints, parity, calm, alone, fresh, mixed>>
  PROVE  QuietInv'
<1>1. Running' = Running /\ p \notin Running
  BY RunningMoves DEF Running, Inside
<1>2. WorldFits'
  BY WorldFitsStays DEF QuietInv
<1>3. \A c \in {proc'[q]: q \in Procs}: Inside(c) => c \in {proc[q]: q \in Procs}
  OBVIOUS
<1>4. alone \subseteq Running /\ calm \subseteq Running
  BY DEF QuietInv, AloneInv
<1>5. \A q \in alone: proc'[q] = proc[q]
  BY <1>1, <1>4 DEF Running
<1>6. ParityInv'
  <2>1. (prints # Empty => Covers(prints.skills, parity))'
    BY DEF QuietInv, ParityInv, Covers, Recorded, world
  <2>2. \A c \in {proc'[q]: q \in Procs}: Inside(c) => WalkFits(c)'
    <3>1. \A c \in {proc[q]: q \in Procs}: Inside(c) => WalkFits(c)
      BY DEF QuietInv, ParityInv
    <3> QED BY <1>3, <3>1, SameWorld
  <2>3. \A c: Inside(c)' <=> Inside(c)
    BY DEF Inside
  <2> QED BY <2>1, <2>2, <2>3 DEF ParityInv
<1>7. AloneInv'
  <2>1. calm' \subseteq Running' /\ \A q \in alone': q \in Procs /\ Running' = {q}
    BY <1>1 DEF QuietInv, AloneInv
  <2>2. \A c \in {proc[q]: q \in alone}: AloneRun(c)'
    BY SameWorld DEF QuietInv, AloneInv
  <2>3. {proc'[q]: q \in alone'} = {proc[q]: q \in alone}
    BY <1>5
  <2>4. StateHonest'
    BY DEF QuietInv, AloneInv, StateHonest, Honest, Vouches, Boundary, Recorded, world
  <2> QED BY <2>1, <2>2, <2>3, <2>4 DEF AloneInv
<1>8. \A c \in {proc'[q]: q \in calm' \cap alone'}: CalmRun(c)'
  <2>1. {proc'[q]: q \in calm' \cap alone'} = {proc[q]: q \in calm \cap alone}
    BY <1>5
  <2> QED BY <2>1, SameWorld DEF QuietInv
<1>9. QuietRunsAreFaithful'
  BY SameTables DEF QuietInv, world
<1> QED BY <1>2, <1>6, <1>7, <1>8, <1>9 DEF QuietInv

\* The world may change in the middle of a run that no other overlaps.
LEMMA QuietWorld ==
  ASSUME QuietInv, RowsInv', World \/ UNCHANGED vars
  PROVE  QuietInv'
<1>1. WorldFits /\ WorldFits'
  BY WorldMoves DEF QuietInv
<1>2. /\ UNCHANGED <<docs, meta, prints, parity, proc, alone, mixed>>
      /\ state' = state \/ state' = Empty
      /\ \/ calm' = {} /\ fresh' = FALSE
         \/ UNCHANGED <<day, files, cited, brain, config, calm, fresh>>
  BY WorldKeepsMore
<1>3. Running' = Running /\ \A c: Inside(c)' <=> Inside(c)
  BY <1>2 DEF Running, Inside
<1>4. ParityInv'
  <2>1. (prints # Empty => Covers(prints.skills, parity))'
    <3>1. prints # Empty => \A a, b: a = prints.skills /\ b = parity => Covers(a, b)'
      BY <1>1, CoversStays DEF QuietInv, ParityInv
    <3> QED BY <1>2, <3>1 DEF Covers
  <2>2. \A c: WalkFits(c) => WalkFits(c)'
    <3> SUFFICES ASSUME NEW c, WalkFits(c) PROVE WalkFits(c)'
      OBVIOUS
    <3>1. \A f \in DOMAIN c.stats: Recorded(c.stats[f])'
      BY <1>1, WorldMoves DEF WalkFits
    <3>2. c.at \in {"recording", "listing", "comparing", "writing"} =>
            Covers(c.prints.skills, c.parity)'
      BY <1>1, CoversStays DEF WalkFits
    <3> QED BY <3>1, <3>2 DEF WalkFits, Printed
  <2> QED BY <1>2, <1>3, <2>1, <2>2 DEF QuietInv, ParityInv
<1>5. AloneInv'
  <2>1. calm' \subseteq Running' /\ \A q \in alone': q \in Procs /\ Running' = {q}
    BY <1>2, <1>3 DEF QuietInv, AloneInv
  <2>2. \A c: AloneRun(c) => AloneRun(c)'
    <3> SUFFICES ASSUME NEW c, AloneRun(c) PROVE AloneRun(c)'
      OBVIOUS
    <3>1. \A f \in DOMAIN c.state: \/ f \in c.keep /\ c.state[f] = c.cache[f]
                                   \/ Honest(f, c.state[f], c.rows)'
      BY <1>1, HonestStays DEF AloneRun
    <3>2. PICK rows: rows = docs
      OBVIOUS
    <3>3. ~mixed => \A f \in DOMAIN c.cache: Honest(f, c.cache[f], rows)
      BY <3>2 DEF AloneRun
    <3>4. ~mixed => \A f \in DOMAIN c.cache: Honest(f, c.cache[f], rows)'
      BY <1>1, <3>3, HonestStays
    <3>5. (~mixed => \A f \in DOMAIN c.cache: Honest(f, c.cache[f], docs))'
      BY <1>2, <3>2, <3>4 DEF Honest
    <3>6. c.at = "opening" =>
            Vouches(Order[c.next], [ver |-> c.stats[Order[c.next]], until |-> c.until])'
      BY <1>1, VouchesStays DEF AloneRun
    <3> QED BY <1>2, <3>1, <3>5, <3>6 DEF AloneRun, Indexed
  <2>3. StateHonest'
    <3>1. PICK rows: rows = docs
      OBVIOUS
    <3>2. ~mixed => \A f \in DOMAIN state: Honest(f, state[f], rows)
      BY <3>1 DEF QuietInv, AloneInv, StateHonest
    <3>3. ~mixed => \A f \in DOMAIN state: \A e: e = state[f] => Honest(f, e, rows)'
      BY <1>1, <3>2, HonestStays
    <3>4. DOMAIN Empty = {}
      BY DEF Empty
    <3> QED BY <1>2, <3>1, <3>3, <3>4 DEF StateHonest, Honest
  <2> QED BY <1>2, <2>1, <2>2, <2>3 DEF QuietInv, AloneInv
<1>6. \A c \in {proc'[q]: q \in calm' \cap alone'}: CalmRun(c)'
  <2>1. CASE calm' = {}
    BY <2>1
  <2>2. CASE UNCHANGED <<day, files, cited, brain, config, calm, fresh>>
    <3>1. \A c: TakesTheFirst(c) => TakesTheFirst(c)'
      BY <1>2, <2>2 DEF TakesTheFirst, Stands, Passes
    <3>2. \A c: CalmRun(c) => CalmRun(c)'
      BY <1>2, <2>2, <3>1 DEF CalmRun, Passes, Boundary, BrainRows, BrainRowsOf
    <3> QED BY <1>2, <2>2, <3>2 DEF QuietInv
  <2> QED BY <1>2, <2>1, <2>2
<1>7. QuietRunsAreFaithful'
  <2>1. CASE fresh' = FALSE
    BY <2>1 DEF QuietRunsAreFaithful
  <2>2. CASE UNCHANGED <<day, files, cited, brain, config, calm, fresh>>
    BY <1>2, <2>2, SameTables DEF QuietInv
  <2> QED BY <1>2, <2>1, <2>2
<1> QED BY <1>1, <1>4, <1>5, <1>6, <1>7 DEF QuietInv

-----------------------------------------------------------------------------
(* A run begins. *)

\* Of no candidate nothing is taken.
LEMMA BegunAlone ==
  ASSUME NEW d, Begun(d), d.at = "reading" \/ (d.at = "reusing" /\ ~d.full)
  PROVE  AloneRun(d)
<1>1. d.keep = {} /\ d.rows = {} /\ DOMAIN d.cache = {} /\ DOMAIN d.state = {}
      /\ d.cache = Empty /\ d.next = 1
  BY DEF Begun, Empty
<1> QED BY <1>1 DEF AloneRun

LEMMA BegunCalm ==
  ASSUME NEW d, Begun(d), d.at \in {"reading", "reusing"},
         DOMAIN d.stats = {f \in Files: files[f] # Gone},
         \A f \in DOMAIN d.stats: d.stats[f] = files[f].ver
  PROVE  CalmRun(d)
<1>1. d.keep = {} /\ d.rows = {} /\ d.claimed = {} /\ d.next = 1
  BY DEF Begun
<1>2. Taken(d) = {} /\ Come(d) = {}
  BY <1>1 DEF Taken, Paths, Come
<1>3. TakesTheFirst(d)
  BY <1>1, <1>2 DEF TakesTheFirst
<1> QED BY <1>1, <1>3 DEF CalmRun

LEMMA WalkQuiet ==
  ASSUME QuietInv, RowsInv', NEW p \in Procs, NEW full \in BOOLEAN, Walk(p, full)
  PROVE  QuietInv'
<1>0. Runs /\ WorldFits
  BY DEF QuietInv, RowsInv
<1>1. PICK d: d = proc'[p]
  OBVIOUS
<1>2. /\ (\A q \in Procs \ {p}: proc'[q] = proc[q]) /\ UNCHANGED db
      /\ proc[p] = Idle /\ Begun(d) /\ d.full = full
      /\ d.at = IF full THEN "reading" ELSE "reusing"
      /\ d.stats = [f \in {g \in Files: files[g] # Gone} |-> files[f].ver]
      /\ Printed(d)
  BY <1>0, <1>1, Walking
<1>3. /\ UNCHANGED <<world, fresh, mixed>>
      /\ calm' = calm \cup {p} /\ alone' = IF Running = {} THEN {p} ELSE {}
  BY DEF Walk
<1>4. DOMAIN d.stats = {f \in Files: files[f] # Gone}
  BY <1>2
<1>5. \A f \in DOMAIN d.stats: f \in Files /\ d.stats[f] = files[f].ver /\ Recorded(files[f].ver)
  BY <1>0, <1>2 DEF WorldFits
<1>6. Inside(d) /\ WalkFits(d)
  BY <1>2, <1>5 DEF Inside, WalkFits
<1>7. AloneRun(d) /\ CalmRun(d)
  BY <1>2, <1>4, <1>5, BegunAlone, BegunCalm
<1> QED BY <1>1, <1>2, <1>3, <1>6, <1>7, RunGoesOn DEF db

-----------------------------------------------------------------------------
(* A run takes the cache over. *)

LEMMA ReuseQuiet ==
  ASSUME QuietInv, RowsInv', NEW p \in Procs, Reuse(p)
  PROVE  QuietInv'
<1>0. Runs
  BY DEF QuietInv, RowsInv
<1>1. PICK c, d: c = proc[p] /\ d = proc'[p]
  OBVIOUS
<1>2. /\ (\A q \in Procs \ {p}: proc'[q] = proc[q]) /\ UNCHANGED db
      /\ c.at = "reusing" /\ d.at = "reading"
      /\ \A k \in Fields \ {"at", "cache"}: d[k] = c[k]
      /\ d.cache \in {Empty, Restrict(state, DOMAIN state \cap Indexed)}
  BY <1>0, <1>1, Reusing
<1>3. /\ d.full = c.full /\ d.stats = c.stats /\ d.prints = c.prints /\ d.next = c.next
      /\ d.claimed = c.claimed /\ d.keep = c.keep /\ d.rows = c.rows /\ d.state = c.state
      /\ d.parity = c.parity /\ d.until = c.until
  BY <1>2 DEF Fields
<1>4. UNCHANGED <<world, calm, alone, fresh, mixed>> /\ p \in Running
  BY <1>1, <1>2 DEF Reuse, history, Running
<1>5. alone \subseteq {p} /\ (alone = {} \/ Running \subseteq {p})
  BY <1>4, OthersAreNotAlone DEF QuietInv, AloneInv
<1>6. Inside(d) /\ WalkFits(d)
  <2>1. WalkFits(c)
    BY <1>1, <1>2 DEF QuietInv, ParityInv, Inside
  <2> QED BY <1>2, <1>3, <2>1 DEF Inside, WalkFits, Printed
<1>7. ASSUME p \in alone PROVE AloneRun(d)
  <2>1. AloneRun(c)
    BY <1>1, <1>7 DEF QuietInv, AloneInv
  <2>2. c.next = 1 /\ ~c.full /\ c.keep = {}
    BY <1>2, <2>1 DEF AloneRun
  <2>3. ~mixed => \A f \in DOMAIN d.cache: Honest(f, d.cache[f], docs)
    <3>1. CASE d.cache = Empty
      BY <3>1 DEF Empty
    <3>2. CASE d.cache = Restrict(state, DOMAIN state \cap Indexed)
      <4>1. \A f \in DOMAIN d.cache: f \in DOMAIN state /\ d.cache[f] = state[f]
        BY <3>2 DEF Restrict
      <4> QED BY <4>1 DEF QuietInv, AloneInv, StateHonest
    <3> QED BY <1>2, <3>1, <3>2
  <2>4. \A f \in DOMAIN d.state: Honest(f, d.state[f], d.rows)
    BY <1>3, <2>1, <2>2 DEF AloneRun
  <2> QED BY <1>2, <1>3, <2>1, <2>2, <2>3, <2>4 DEF AloneRun
<1>8. ASSUME p \in alone, p \in calm PROVE CalmRun(d)
  <2>1. CalmRun(c)
    BY <1>1, <1>8 DEF QuietInv
  <2>2. Taken(d) = Taken(c) /\ Come(d) = Come(c)
    BY <1>2, <1>3 DEF Taken, Come
  <2>3. TakesTheFirst(c) => TakesTheFirst(d)
    BY <1>2, <1>3, <2>2 DEF TakesTheFirst
  <2> QED BY <1>2, <1>3, <2>1, <2>3 DEF CalmRun
<1> QED BY <1>1, <1>2, <1>4, <1>5, <1>6, <1>7, <1>8, RunGoesOn DEF db

-----------------------------------------------------------------------------
(* A run comes to a candidate. *)

\* Of a run that no other overlaps, what it takes of one more candidate is honest.
LEMMA OneMoreAlone ==
  ASSUME NEW c, NEW d, AloneRun(c), WalkFits(c), NEW f \in Files,
         \A g \in c.keep: g # f, \A r \in c.rows: r[1] # f,
         Same(c, d),
         Skips(c, f, d) \/ Keeps(c, f, d)
         \/ (Takes(c, f, d) /\ Vouches(f, [ver |-> c.stats[f], until |-> c.until]))
  PROVE  /\ d.keep \subseteq DOMAIN d.cache \cap Files
         /\ \A g \in DOMAIN d.state: \/ g \in d.keep /\ d.state[g] = d.cache[g]
                                     \/ Honest(g, d.state[g], d.rows)
         /\ \A r \in d.rows: r[1] \notin d.keep
<1>0. /\ c.keep \subseteq DOMAIN c.cache \cap Files
      /\ \A g \in DOMAIN c.state: \/ g \in c.keep /\ c.state[g] = c.cache[g]
                                  \/ Honest(g, c.state[g], c.rows)
      /\ \A r \in c.rows: r[1] \notin c.keep
      /\ d.cache = c.cache
  BY DEF AloneRun, Same
<1>1. CASE Skips(c, f, d)
  BY <1>0, <1>1 DEF Skips
<1>2. CASE Keeps(c, f, d)
  <2>1. /\ d.keep = c.keep \cup {f} /\ d.rows = c.rows /\ f \in DOMAIN c.cache
        /\ d.state = Put(c.state, f, c.cache[f])
    BY <1>2 DEF Keeps, IsCurrent
  <2>2. \A g \in DOMAIN d.state: \/ g = f /\ d.state[g] = c.cache[g]
                                 \/ g \in DOMAIN c.state /\ d.state[g] = c.state[g]
    BY <2>1 DEF Put
  <2> QED BY <1>0, <2>1, <2>2
<1>3. CASE Takes(c, f, d) /\ Vouches(f, [ver |-> c.stats[f], until |-> c.until])
  <2>1. PICK v: v = [ver |-> c.stats[f], until |-> c.until]
    OBVIOUS
  <2>2. /\ d.keep = c.keep /\ d.rows = c.rows \cup {<<f, files[f].ver>>}
        /\ d.state = Put(c.state, f, v) /\ Vouches(f, v)
    BY <1>3, <2>1 DEF Takes
  <2>3. \A g \in DOMAIN d.state: \/ g = f /\ d.state[g] = v
                                 \/ g \in DOMAIN c.state /\ d.state[g] = c.state[g]
    BY <2>2 DEF Put
  <2>4. Honest(f, v, d.rows)
    BY <2>2 DEF Honest
  <2>5. \A g, e: Honest(g, e, c.rows) => Honest(g, e, d.rows)
    BY <2>2 DEF Honest
  <2>6. \A r \in d.rows: r[1] \notin d.keep
    BY <1>0, <2>2
  <2> QED BY <1>0, <2>2, <2>3, <2>4, <2>5, <2>6
<1> QED BY <1>1, <1>2, <1>3

LEMMA OneMorePath ==
  ASSUME NEW rows, NEW f, NEW v
  PROVE  Paths(rows \cup {<<f, v>>}) = Paths(rows) \cup {f}
<1>1. PICK x: x = <<f, v>>
  OBVIOUS
<1>2. x[1] = f
  BY <1>1
<1>3. \A y: y \in Paths(rows \cup {x}) <=> y \in Paths(rows) \/ y = f
  BY <1>2 DEF Paths
<1> QED BY <1>1, <1>3

\* And if nothing changes either, it goes on to take the first copies that pass.
LEMMA OneMoreCalm ==
  ASSUME NEW c, NEW d, CalmRun(c), AloneRun(c), WorldFits, NEW n \in 1..Len(Order), NEW f \in Files,
         f = Order[n], d.at \in {"reading", "recalling"}, n \notin Come(c),
         \A i \in Come(c): i \in 1..Len(Order) /\ i < n, Come(d) = Come(c) \cup {n},
         Same(c, d),
         Skips(c, f, d) \/ Keeps(c, f, d)
         \/ (Takes(c, f, d) /\ Passes(f) /\ Skill[f] \notin c.claimed)
  PROVE  CalmRun(d)
<1>0. d.full = c.full /\ d.stats = c.stats /\ Len(Order) \in Nat
  BY IndexAssumption DEF Same
<1>1. f \in DOMAIN c.stats <=> files[f] # Gone
  BY DEF CalmRun
<1>2. f \in DOMAIN c.stats => c.stats[f] = files[f].ver
  BY DEF CalmRun
<1>3. \/ /\ d.claimed = c.claimed /\ Taken(d) = Taken(c)
         /\ Skill[f] \notin c.claimed => ~Passes(f)
      \/ /\ d.claimed = c.claimed \cup {Skill[f]} /\ Taken(d) = Taken(c) \cup {f}
         /\ Skill[f] \notin c.claimed
  <2>1. CASE Skips(c, f, d)
    <3>1. files[f] = Gone => ~Passes(f)
      BY GoneFits DEF Passes
    <3>2. Taken(d) = Taken(c)
      BY <2>1 DEF Skips, Taken
    <3>3. d.claimed = c.claimed /\ (Skill[f] \notin c.claimed => ~Passes(f))
      BY <1>1, <2>1, <3>1 DEF Skips
    <3> QED BY <3>2, <3>3
  <2>2. CASE Keeps(c, f, d)
    BY <2>2 DEF Keeps, Taken
  <2>3. CASE Takes(c, f, d) /\ Passes(f) /\ Skill[f] \notin c.claimed
    <3>1. d.rows = c.rows \cup {<<f, files[f].ver>>} /\ d.keep = c.keep
      BY <2>3 DEF Takes
    <3>2. Paths(d.rows) = Paths(c.rows) \cup {f}
      <4>1. Paths(c.rows \cup {<<f, files[f].ver>>}) = Paths(c.rows) \cup {f}
        BY OneMorePath
      <4> QED BY <3>1, <4>1
    <3>3. Taken(d) = Taken(c) \cup {f}
      BY <3>1, <3>2 DEF Taken
    <3> QED BY <2>3, <3>3 DEF Takes
  <2> QED BY <2>1, <2>2, <2>3
<1>4. \A r \in d.rows: \/ r \in BrainRows
                       \/ \E g \in Files: r = <<g, files[g].ver>> /\ Passes(g)
  BY DEF CalmRun, Skips, Keeps, Takes
<1>5. ASSUME ~mixed \/ c.full PROVE TakesTheFirst(d)
  <2>0. TakesTheFirst(c)
    BY <1>5 DEF CalmRun
  <2>1. \A g \in d.keep: Stands(g) /\ <<g, files[g].ver>> \in docs
    <3>1. CASE d.keep = c.keep
      BY <2>0, <3>1 DEF TakesTheFirst
    <3>2. CASE Keeps(c, f, d)
      <4>1. /\ f \in DOMAIN c.cache /\ c.cache[f].ver = files[f].ver
            /\ Kind[f] = "memory" => day <= c.cache[f].until
            /\ d.keep = c.keep \cup {f}
        BY <1>2, <3>2 DEF Keeps, IsCurrent
      <4>2. ~mixed
        BY <1>5, <4>1 DEF AloneRun, Empty
      <4>3. Honest(f, c.cache[f], docs)
        BY <4>1, <4>2 DEF AloneRun
      <4>4. files[f].ver # 0
        BY <4>1, <4>3, GoneFits DEF Honest, Vouches
      <4>5. Stands(f) /\ <<f, files[f].ver>> \in docs
        BY <4>1, <4>3, <4>4 DEF Honest, Vouches, Boundary, Stands
      <4> QED BY <2>0, <4>1, <4>5 DEF TakesTheFirst
    <3> QED BY <3>1, <3>2 DEF Skips, Takes
  <2>2. \A g \in Taken(d): \E i \in Come(d): g = Order[i]
    BY <1>3, <2>0 DEF TakesTheFirst
  <2>3. /\ \A g \in Taken(c): Skill[g] \in c.claimed
        /\ \A s \in c.claimed: \E g \in Taken(c): Skill[g] = s
        /\ \A i \in Come(c): Passes(Order[i]) => \E g \in Taken(c): Skill[g] = Skill[Order[i]]
        /\ \A i, j \in Come(c): i < j /\ Order[j] \in Taken(c) /\ Skill[Order[i]] = Skill[Order[j]]
                                 => ~Passes(Order[i])
        /\ \A g \in Taken(c): \E i \in Come(c): g = Order[i]
    BY <2>0 DEF TakesTheFirst
  <2>4. /\ \A g \in Taken(d): Skill[g] \in d.claimed
        /\ \A s \in d.claimed: \E g \in Taken(d): Skill[g] = s
    BY <1>3, <2>3
  <2>5. \A i \in Come(d): Passes(Order[i]) => \E g \in Taken(d): Skill[g] = Skill[Order[i]]
    BY <1>3, <2>3
  <2>6. \A i, j \in Come(d): i < j /\ Order[j] \in Taken(d) /\ Skill[Order[i]] = Skill[Order[j]]
                              => ~Passes(Order[i])
    <3> SUFFICES ASSUME NEW i \in Come(d), NEW j \in Come(d), i < j, Order[j] \in Taken(d),
                        Skill[Order[i]] = Skill[Order[j]]
                 PROVE  ~Passes(Order[i])
      OBVIOUS
    <3>1. \A k \in Come(c): Order[k] # f
      BY IndexAssumption
    <3>2. f \notin Taken(c)
      BY <2>3, <3>1
    <3>3. i \in Come(c)
      BY <1>0
    <3>4. CASE j \in Come(c)
      <4>1. Order[j] \in Taken(c)
        BY <1>3, <3>1, <3>4
      <4> QED BY <2>3, <3>3, <3>4, <4>1
    <3>5. CASE j = n
      <4>1. Skill[f] \notin c.claimed
        BY <1>3, <3>2, <3>5
      <4>2. \A g \in Taken(c): Skill[g] # Skill[f]
        BY <2>3, <4>1
      <4> QED BY <2>3, <3>3, <3>5, <4>2
    <3> QED BY <3>4, <3>5
  <2> QED BY <2>1, <2>2, <2>4, <2>5, <2>6 DEF TakesTheFirst
<1> QED BY <1>0, <1>4, <1>5 DEF CalmRun

\* A step that goes on to the next candidate.
LEMMA OnwardQuiet ==
  ASSUME QuietInv, RowsInv', NEW p \in Procs, NEW c, NEW d, NEW f,
         c = proc[p], d = proc'[p], f = Order[c.next],
         \A q \in Procs \ {p}: proc'[q] = proc[q], UNCHANGED <<world, db, history>>,
         Goes(c, d), Same(c, d),
         \/ c.at = "reading" /\ (Skips(c, f, d) \/ Keeps(c, f, d))
         \/ c.at = "opening" /\ Takes(c, f, d)
  PROVE  QuietInv'
<1>0. RowsFit(c) /\ WorldFits /\ Order \in Seq(Files) /\ Len(Order) \in Nat
  BY IndexAssumption DEF QuietInv, RowsInv
<1>1. PICK n: n = c.next
  OBVIOUS
<1>2. c.at \in {"reading", "opening"} /\ Inside(c)
  BY DEF Inside
<1>3. /\ n \in 1..Len(Order) /\ f \in Files /\ f = Order[n]
      /\ \A r \in c.rows: \E i \in 1..Len(Order): i < n /\ r[1] = Order[i]
  <2>1. n \in 1..Len(Order)
    BY <1>0, <1>1, <1>2 DEF RowsFit
  <2> QED BY <1>0, <1>1, <1>2, <2>1 DEF RowsFit
<1>4. /\ d.at \in {"reading", "recalling"}
      /\ \/ n = Len(Order) /\ d.at = "recalling"
         \/ n # Len(Order) /\ d.at = "reading" /\ d.next = n + 1
  BY <1>1 DEF Goes
<1>5. UNCHANGED <<calm, alone, fresh, mixed>> /\ p \in Running
  BY <1>2 DEF history, Running
<1>6. alone \subseteq {p} /\ (alone = {} \/ Running \subseteq {p})
  BY <1>5, OthersAreNotAlone DEF QuietInv, AloneInv
<1>7. WalkFits(c)
  BY <1>2 DEF QuietInv, ParityInv
<1>8. Inside(d) /\ WalkFits(d)
  BY <1>4, <1>7 DEF Inside, WalkFits, Printed, Same
<1>9. \A i \in 1..Len(Order): i < n => Order[i] # f
  BY <1>0, <1>3, IndexAssumption
<1>10. Come(c) = {i \in 1..Len(Order): i < n} /\ Come(d) = Come(c) \cup {n}
  BY <1>0, <1>1, <1>2, <1>3, <1>4 DEF Come
<1>11. ASSUME p \in alone PROVE AloneRun(c) /\ AloneRun(d)
  <2>1. AloneRun(c)
    BY <1>11 DEF QuietInv, AloneInv
  <2>2. \A g \in c.keep: \E i \in 1..Len(Order): i < n /\ g = Order[i]
    BY <1>1, <1>2, <2>1 DEF AloneRun
  <2>3. /\ \A g \in c.keep: g # f
        /\ \A r \in c.rows: r[1] # f
    BY <1>3, <1>9, <2>2
  <2>4. c.at = "opening" => Vouches(f, [ver |-> c.stats[f], until |-> c.until])
    BY <2>1 DEF AloneRun
  <2>5. /\ d.keep \subseteq DOMAIN d.cache \cap Files
        /\ \A g \in DOMAIN d.state: \/ g \in d.keep /\ d.state[g] = d.cache[g]
                                    \/ Honest(g, d.state[g], d.rows)
        /\ \A r \in d.rows: r[1] \notin d.keep
    BY <1>3, <1>7, <2>1, <2>3, <2>4, OneMoreAlone
  <2>6. d.keep \subseteq c.keep \cup {f}
    BY DEF Skips, Keeps, Takes
  <2>7. d.at = "reading" => \A g \in d.keep: \E i \in 1..Len(Order): i < d.next /\ g = Order[i]
    BY <1>0, <1>3, <1>4, <2>2, <2>6
  <2>8. d.full = c.full /\ d.cache = c.cache
    BY DEF Same
  <2>9. /\ c.full => c.cache = Empty
        /\ ~mixed => \A g \in DOMAIN c.cache: Honest(g, c.cache[g], docs)
    BY <2>1 DEF AloneRun
  <2>10. AloneRun(d)
    BY <1>4, <2>5, <2>7, <2>8, <2>9 DEF AloneRun
  <2> QED BY <2>1, <2>10
<1>12. ASSUME p \in alone, p \in calm PROVE CalmRun(d)
  <2>1. CalmRun(c)
    BY <1>12 DEF QuietInv
  <2>2. n \notin Come(c) /\ \A i \in Come(c): i \in 1..Len(Order) /\ i < n
    BY <1>0, <1>3, <1>10
  <2>3. c.at = "opening" => Passes(f) /\ Skill[f] \notin c.claimed
    BY <2>1 DEF CalmRun
  <2>4. AloneRun(c)
    BY <1>11, <1>12
  <2> QED BY <1>0, <1>3, <1>4, <1>10, <2>1, <2>2, <2>3, <2>4, OneMoreCalm
<1> QED BY <1>5, <1>6, <1>8, <1>11, <1>12, RunGoesOn DEF db

LEMMA ReadQuiet ==
  ASSUME QuietInv, RowsInv', NEW p \in Procs, ReadNext(p)
  PROVE  QuietInv'
<1>0. Runs /\ RowsFit(proc[p]) /\ WorldFits /\ Order \in Seq(Files)
  BY IndexAssumption DEF QuietInv, RowsInv
<1>1. PICK c, d, f: c = proc[p] /\ d = proc'[p] /\ f = Order[c.next]
  OBVIOUS
<1>2. /\ (\A q \in Procs \ {p}: proc'[q] = proc[q]) /\ UNCHANGED db
      /\ c.at = "reading" /\ Same(c, d)
      /\ (Goes(c, d) /\ (Skips(c, f, d) \/ Keeps(c, f, d))) \/ Opens(c, f, d)
  BY <1>0, <1>1, ReadingNext
<1>3. UNCHANGED <<world, history>> /\ p \in Running
  BY <1>1, <1>2 DEF ReadNext, Running
<1>4. CASE Goes(c, d) /\ (Skips(c, f, d) \/ Keeps(c, f, d))
  BY <1>1, <1>2, <1>3, <1>4, OnwardQuiet
<1>5. CASE Opens(c, f, d)
  <2>1. UNCHANGED <<calm, alone, fresh, mixed>>
    BY <1>3 DEF history
  <2>2. alone \subseteq {p} /\ (alone = {} \/ Running \subseteq {p})
    BY <1>3, OthersAreNotAlone DEF QuietInv, AloneInv
  <2>3. WalkFits(c)
    BY <1>1, <1>2 DEF QuietInv, ParityInv, Inside
  <2>4. /\ d.at = "opening" /\ d.next = c.next /\ d.until = Boundary(f)
        /\ d.claimed = c.claimed /\ d.keep = c.keep /\ d.rows = c.rows /\ d.state = c.state
        /\ Passes(f) /\ Skill[f] \notin c.claimed /\ f \in DOMAIN c.stats /\ f \in Files
        /\ d.full = c.full /\ d.stats = c.stats /\ d.prints = c.prints /\ d.cache = c.cache
    BY <1>2, <1>5, <2>3 DEF Opens, Same, WalkFits
  <2>5. Inside(d) /\ WalkFits(d)
    BY <2>3, <2>4 DEF Inside, WalkFits, Printed
  <2>6. ASSUME p \in alone PROVE AloneRun(d)
    <3>1. AloneRun(c)
      BY <1>1, <2>6 DEF QuietInv, AloneInv
    <3>2. Vouches(f, [ver |-> c.stats[f], until |-> Boundary(f)])
      BY <2>3, <2>4 DEF Vouches, WalkFits, Passes
    <3> QED BY <1>1, <1>2, <2>4, <3>1, <3>2 DEF AloneRun
  <2>7. ASSUME p \in alone, p \in calm PROVE CalmRun(d)
    <3>1. CalmRun(c)
      BY <1>1, <2>7 DEF QuietInv
    <3>2. Taken(d) = Taken(c) /\ Come(d) = Come(c)
      BY <1>2, <2>4 DEF Taken, Come
    <3>3. TakesTheFirst(c) => TakesTheFirst(d)
      BY <2>4, <3>2 DEF TakesTheFirst
    <3> QED BY <1>1, <2>4, <3>1, <3>3 DEF CalmRun
  <2> QED BY <1>1, <1>2, <1>3, <2>1, <2>2, <2>5, <2>6, <2>7, RunGoesOn DEF db
<1> QED BY <1>2, <1>4, <1>5

\* A file that is gone when it is opened ends a run, but not a calm one.
LEMMA OpenQuiet ==
  ASSUME QuietInv, RowsInv', NEW p \in Procs, Open(p)
  PROVE  QuietInv'
<1>0. Runs
  BY DEF QuietInv, RowsInv
<1>1. PICK c, d, f: c = proc[p] /\ d = proc'[p] /\ f = Order[c.next]
  OBVIOUS
<1>2. /\ (\A q \in Procs \ {p}: proc'[q] = proc[q]) /\ UNCHANGED db
      /\ c.at = "opening"
      /\ \/ Goes(c, d) /\ Same(c, d) /\ Takes(c, f, d) /\ UNCHANGED history
         \/ d = Idle /\ Stops(p) /\ files[f] = Gone
  BY <1>0, <1>1, Opening
<1>3. UNCHANGED world /\ p \in Running
  BY <1>1, <1>2 DEF Open, Running
<1>4. CASE Goes(c, d) /\ Same(c, d) /\ Takes(c, f, d) /\ UNCHANGED history
  BY <1>1, <1>2, <1>3, <1>4, OnwardQuiet
<1>5. CASE d = Idle /\ Stops(p) /\ files[f] = Gone
  <2>1. /\ calm' = calm \ {p} /\ alone' = alone \ {p} /\ fresh' = (p \in calm /\ p \in alone)
        /\ ~mixed' => ~mixed
    BY <1>5 DEF Stops, Ends
  <2>2. UNCHANGED <<docs, state, prints, parity>>
    BY <1>2 DEF db
  <2>3. prints' # Empty => Covers(prints.skills, parity)'
    BY <1>3, <2>2 DEF QuietInv, ParityInv, Covers, Recorded, world
  <2>4. StateHonest'
    BY <1>3, <2>1, <2>2
       DEF QuietInv, AloneInv, StateHonest, Honest, Vouches, Boundary, Recorded, world
  <2>5. ~(p \in calm /\ p \in alone)
    <3> SUFFICES ASSUME p \in calm, p \in alone PROVE FALSE
      OBVIOUS
    <3>1. CalmRun(c)
      BY <1>1 DEF QuietInv
    <3>2. Passes(f)
      BY <1>1, <1>2, <3>1 DEF CalmRun
    <3> QED BY <1>5, <3>2, GoneFits DEF Passes
  <2>6. QuietRunsAreFaithful'
    BY <2>1, <2>5 DEF QuietRunsAreFaithful
  <2> QED BY <1>1, <1>2, <1>3, <1>5, <2>1, <2>3, <2>4, <2>6, RunEnds
<1> QED BY <1>2, <1>4, <1>5

-----------------------------------------------------------------------------
(* A run ends. *)

\* What Taken comes to at the end is what a full run would index.
LEMMA AllTaken ==
  ASSUME NEW c, CalmRun(c), TakesTheFirst(c), Come(c) = 1..Len(Order),
         NEW f \in Files, cited \/ Kind[f] = "text"
  PROVE  f \in Taken(c) <=> f \in Wanted
<1>0. Len(Order) \in Nat /\ DOMAIN Order = 1..Len(Order)
      /\ \A i \in 1..Len(Order): Order[i] \in Files
  BY IndexAssumption
<1>1. \A g \in Taken(c): \E i \in Come(c): g = Order[i]
  BY DEF TakesTheFirst
<1>2. \A i, j \in Come(c): i < j /\ Order[j] \in Taken(c) /\ Skill[Order[i]] = Skill[Order[j]]
                            => ~Passes(Order[i])
  BY DEF TakesTheFirst
<1>3. \A i \in Come(c): Passes(Order[i]) => \E g \in Taken(c): Skill[g] = Skill[Order[i]]
  BY DEF TakesTheFirst
<1>4. \A g \in Taken(c): g \in c.keep \/ Passes(g)
  <2> SUFFICES ASSUME NEW g \in Taken(c), g \notin c.keep PROVE Passes(g)
    OBVIOUS
  <2>1. PICK r \in c.rows: g = r[1] /\ g \in Files
    BY DEF Taken, Paths
  <2>2. r \notin BrainRows
    BY <2>1, IndexAssumption DEF BrainRows, BrainRowsOf, Record
  <2>3. PICK h \in Files: r = <<h, files[h].ver>> /\ Passes(h)
    BY <2>2 DEF CalmRun
  <2> QED BY <2>1, <2>3
<1>5. \A g \in c.keep: cited \/ Kind[g] # "memory" => Passes(g)
  BY DEF TakesTheFirst, Stands, Passes
<1>6. ASSUME f \in Taken(c) PROVE f \in Wanted
  <2>1. Passes(f)
    BY <1>4, <1>5, <1>6
  <2> SUFFICES ASSUME NEW i \in DOMAIN Order, NEW j \in DOMAIN Order,
                      Order[j] = f, i < j, Skill[Order[i]] = Skill[f]
               PROVE  ~Passes(Order[i])
    BY <2>1 DEF Wanted
  <2> QED BY <1>0, <1>2, <1>6
<1>7. ASSUME f \in Wanted PROVE f \in Taken(c)
  <2>1. /\ Passes(f)
        /\ \A i, j \in DOMAIN Order:
             Order[j] = f /\ i < j /\ Skill[Order[i]] = Skill[f] => ~Passes(Order[i])
    BY <1>7 DEF Wanted
  <2>2. PICK j \in 1..Len(Order): Order[j] = f
    BY <1>0, IndexAssumption DEF Files, Range
  <2>3. PICK g \in Taken(c): Skill[g] = Skill[f]
    BY <1>3, <2>1, <2>2
  <2>4. PICK i \in 1..Len(Order): Order[i] = g
    BY <1>1, <2>3
  <2>5. CASE i = j
    BY <2>2, <2>3, <2>4, <2>5
  <2>6. CASE j < i
    BY <1>2, <2>1, <2>2, <2>3, <2>4, <2>6
  <2>7. CASE i < j
    <3>1. ~Passes(g)
      BY <1>0, <2>1, <2>2, <2>3, <2>4, <2>7
    <3>2. Kind[g] = "memory"
      BY <1>4, <1>5, <2>3, <3>1
    <3>3. g = f
      BY <1>0, <2>3, <2>4, <3>2, IndexAssumption
    <3> QED BY <2>3, <3>3
  <2> QED BY <1>0, <2>5, <2>6, <2>7
<1> QED BY <1>6, <1>7

\* The rows that a quiet run leaves.
LEMMA EndsFaithful ==
  ASSUME NEW c, CalmRun(c), TakesTheFirst(c), Come(c) = 1..Len(Order), OnePerPath(docs),
         NEW tables, tables = {d \in docs: d[1] \in c.keep} \cup c.rows,
         BrainRows \subseteq c.rows,
         c.keep \subseteq Files
  PROVE  {d \in tables: d[1] = Record \/ cited \/ Kind[d[1]] = "text"} = Ideal
<1>1. \A d \in docs: d[1] \in c.keep => d = <<d[1], files[d[1]].ver>>
  <2> SUFFICES ASSUME NEW d \in docs, d[1] \in c.keep PROVE d = <<d[1], files[d[1]].ver>>
    OBVIOUS
  <2>1. <<d[1], files[d[1]].ver>> \in docs
    BY DEF TakesTheFirst
  <2>2. <<d[1], files[d[1]].ver>>[1] = d[1]
    OBVIOUS
  <2> QED BY <2>1, <2>2 DEF OnePerPath
<1>2. \A d \in c.rows: \/ d \in BrainRows
                       \/ d[1] \in Files /\ d = <<d[1], files[d[1]].ver>>
  BY DEF CalmRun
<1>3. \A d \in BrainRows: d[1] = Record
  BY DEF BrainRows, BrainRowsOf
<1>4. Record \notin Files
  BY IndexAssumption DEF Record
<1>5. \A f \in Files: f \in Taken(c) <=> <<f, files[f].ver>> \in tables
  <2> SUFFICES ASSUME NEW f \in Files PROVE f \in Taken(c) <=> <<f, files[f].ver>> \in tables
    OBVIOUS
  <2>1. <<f, files[f].ver>>[1] = f
    OBVIOUS
  <2>2. ASSUME f \in Taken(c) PROVE <<f, files[f].ver>> \in tables
    <3>1. CASE f \in c.keep
      <4>1. <<f, files[f].ver>> \in docs
        BY <3>1 DEF TakesTheFirst
      <4> QED BY <2>1, <3>1, <4>1
    <3>2. CASE f \notin c.keep
      <4>1. PICK d \in c.rows: d[1] = f
        BY <2>2, <3>2 DEF Taken, Paths
      <4> QED BY <1>2, <1>3, <1>4, <4>1
    <3> QED BY <3>1, <3>2
  <2>3. ASSUME <<f, files[f].ver>> \in tables PROVE f \in Taken(c)
    <3>1. CASE <<f, files[f].ver>> \in c.rows
      BY <2>1, <3>1 DEF Taken, Paths
    <3>2. CASE <<f, files[f].ver>> \notin c.rows
      BY <2>1, <2>3, <3>2 DEF Taken, Paths
    <3> QED BY <3>1, <3>2
  <2> QED BY <2>2, <2>3
<1>6. \A f \in Files: cited \/ Kind[f] = "text" => (f \in Taken(c) <=> f \in Wanted)
  BY AllTaken
<1>7. \A f \in Wanted: f \in Files /\ (cited \/ Kind[f] = "text")
  <2>1. \A f \in Files: Kind[f] \in {"memory", "text"}
    BY IndexAssumption
  <2> QED BY <2>1 DEF Wanted, Passes
<1>8. ASSUME NEW d \in tables, d[1] = Record \/ cited \/ Kind[d[1]] = "text" PROVE d \in Ideal
  <2>1. CASE d \in BrainRows
    BY <2>1 DEF Ideal
  <2>2. CASE d \notin BrainRows
    <3>1. d[1] \in Files /\ d = <<d[1], files[d[1]].ver>>
      BY <1>1, <1>2, <2>2
    <3>2. d[1] \in Taken(c)
      BY <1>5, <3>1
    <3>3. d[1] \in Wanted
      BY <1>4, <1>6, <1>8, <3>1, <3>2
    <3> QED BY <3>1, <3>3 DEF Ideal
  <2> QED BY <2>1, <2>2
<1>9. ASSUME NEW d \in Ideal
      PROVE  d \in tables /\ (d[1] = Record \/ cited \/ Kind[d[1]] = "text")
  <2>1. CASE d \in BrainRows
    BY <1>3, <2>1
  <2>2. ASSUME NEW f \in Wanted, d = <<f, files[f].ver>>
        PROVE  d \in tables /\ (d[1] = Record \/ cited \/ Kind[d[1]] = "text")
    BY <1>5, <1>6, <1>7, <2>2
  <2> QED BY <1>9, <2>1, <2>2 DEF Ideal
<1> QED BY <1>8, <1>9

\* What a quiet run stores of the drift covers every mirror.
LEMMA DriftKnown ==
  ASSUME NEW c, CalmRun(c), Printed(c), NEW drift, Covers(c.prints.skills, drift)
  PROVE  \A f \in DOMAIN Drift: f \in DOMAIN drift /\ drift[f] = Drift[f]
<1> SUFFICES ASSUME NEW f \in DOMAIN Drift PROVE f \in DOMAIN drift /\ drift[f] = Drift[f]
  OBVIOUS
<1>1. f \in Mirrored /\ f \in Files /\ files[f].ver # 0 /\ Drift[f] = files[f].ver
  BY DEF Drift, Mirrored
<1>2. f \in DOMAIN c.stats /\ c.stats[f] = files[f].ver
  BY <1>1, GoneFits DEF CalmRun
<1>3. f \in DOMAIN c.prints.skills /\ c.prints.skills[f] = files[f].ver
  BY <1>1, <1>2 DEF Printed, Restrict
<1> QED BY <1>1, <1>3 DEF Covers

\* A step between the last candidate and the transaction.
LEMMA SteadyQuiet ==
  ASSUME QuietInv, RowsInv', NEW p \in Procs, NEW c, NEW d, c = proc[p], d = proc'[p],
         \A q \in Procs \ {p}: proc'[q] = proc[q], UNCHANGED <<world, db, history>>,
         Steady(c, d),
         \/ Recalls(c, d) \/ Mirrors(c, d) \/ Records(c, d) \/ Lists(c, d) \/ Writes(c, d)
  PROVE  QuietInv'
<1>1. /\ c.at \in {"recalling", "mirroring", "recording", "listing", "comparing"}
      /\ d.at \in {"mirroring", "recording", "listing", "comparing", "writing"}
  BY DEF Recalls, Mirrors, Records, Lists, Writes
<1>2. /\ d.full = c.full /\ d.stats = c.stats /\ d.prints = c.prints /\ d.cache = c.cache
      /\ d.claimed = c.claimed /\ d.keep = c.keep /\ d.state = c.state
  BY DEF Steady
<1>3. UNCHANGED <<calm, alone, fresh, mixed>> /\ Inside(c) /\ Inside(d) /\ p \in Running
  BY <1>1 DEF history, Inside, Running
<1>4. alone \subseteq {p} /\ (alone = {} \/ Running \subseteq {p})
  BY <1>3, OthersAreNotAlone DEF QuietInv, AloneInv
<1>5. WalkFits(c) /\ (p \in alone => AloneRun(c)) /\ (p \in alone /\ p \in calm => CalmRun(c))
  BY <1>3 DEF QuietInv, ParityInv, AloneInv
<1>6. d.at # "mirroring" => Covers(c.prints.skills, d.parity)
  <2>1. CASE Recalls(c, d)
    BY <1>1, <2>1 DEF Recalls, QuietInv, ParityInv
  <2>2. CASE Mirrors(c, d)
    <3> SUFFICES ASSUME NEW f \in DOMAIN c.prints.skills
                 PROVE  /\ f \in Files /\ Recorded(c.prints.skills[f])
                        /\ files[f].ver = c.prints.skills[f] =>
                             f \in DOMAIN Drift /\ Drift[f] = c.prints.skills[f]
      BY <2>2 DEF Mirrors, Covers
    <3>1. f \in Mirrored /\ f \in DOMAIN c.stats /\ c.prints.skills[f] = c.stats[f]
      BY <1>5 DEF WalkFits, Printed, Restrict
    <3>2. f \in Files /\ Recorded(c.prints.skills[f])
      BY <1>5, <3>1 DEF WalkFits
    <3> QED BY <3>1, <3>2, GoneFits DEF Drift
  <2>3. CASE Records(c, d) \/ Lists(c, d) \/ Writes(c, d)
    BY <1>5, <2>3 DEF Records, Lists, Writes, WalkFits
  <2> QED BY <2>1, <2>2, <2>3
<1>7. WalkFits(d)
  BY <1>1, <1>2, <1>5, <1>6 DEF WalkFits, Printed
<1>8. PICK conf: d.rows = c.rows \/ (Records(c, d) /\ conf = c.conf /\ d.rows = c.rows \cup BrainRowsOf(conf))
  BY DEF Recalls, Mirrors, Records, Lists, Writes
<1>9. c.rows \subseteq d.rows /\ \A r \in d.rows: r \in c.rows \/ (r[1] = Record /\ r[1] \notin Files)
  BY <1>8, IndexAssumption DEF BrainRowsOf, Record
<1>10. ASSUME AloneRun(c), p \in alone PROVE AloneRun(d)
  <2>1. \A g, e: Honest(g, e, c.rows) => Honest(g, e, d.rows)
    BY <1>9 DEF Honest
  <2>2. \A g \in DOMAIN d.state: \/ g \in d.keep /\ d.state[g] = d.cache[g]
                                \/ Honest(g, d.state[g], d.rows)
    BY <1>2, <1>10, <2>1 DEF AloneRun
  <2>3. d.keep \subseteq DOMAIN d.cache \cap Files /\ \A r \in d.rows: r[1] \notin d.keep
    BY <1>2, <1>9, <1>10 DEF AloneRun
  <2>4. /\ d.full => d.cache = Empty
        /\ ~mixed => \A f \in DOMAIN d.cache: Honest(f, d.cache[f], docs)
    BY <1>2, <1>10 DEF AloneRun
  <2>5. /\ d.at \in {"mirroring", "recording", "listing", "comparing"} => d.stored = prints
        /\ d.at \in {"comparing", "writing"} => d.existing = Indexed
    BY <1>10 DEF AloneRun, Recalls, Mirrors, Records, Lists, Writes
  <2> QED BY <1>1, <2>2, <2>3, <2>4, <2>5 DEF AloneRun
<1>11. ASSUME CalmRun(c) PROVE CalmRun(d)
  <2>1. Paths(d.rows) \cap Files = Paths(c.rows) \cap Files
    BY <1>9 DEF Paths
  <2>2. Taken(d) = Taken(c) /\ Come(d) = Come(c)
    BY <1>1, <1>2, <2>1 DEF Taken, Come
  <2>3. TakesTheFirst(c) => TakesTheFirst(d)
    BY <1>2, <2>2 DEF TakesTheFirst
  <2>4. Records(c, d) => d.rows = c.rows \cup BrainRows
    BY <1>11 DEF CalmRun, Records, BrainRows
  <2>5. \A r \in d.rows: \/ r \in BrainRows
                          \/ \E f \in Files: r = <<f, files[f].ver>> /\ Passes(f)
    <3>1. \A r \in c.rows: \/ r \in BrainRows
                            \/ \E f \in Files: r = <<f, files[f].ver>> /\ Passes(f)
      BY <1>11 DEF CalmRun
    <3> QED BY <1>8, <2>4, <3>1
  <2>6. d.at \in {"mirroring", "recording"} => d.conf = config
    BY <1>11 DEF CalmRun, Recalls, Mirrors, Records, Lists, Writes
  <2>7. d.at \in {"listing", "comparing", "writing"} => BrainRows \subseteq d.rows
    <3>1. CASE Records(c, d)
      BY <2>4, <3>1
    <3>2. CASE Lists(c, d) \/ Writes(c, d)
      BY <1>11, <3>2 DEF CalmRun, Lists, Writes
    <3>3. CASE Recalls(c, d) \/ Mirrors(c, d)
      BY <3>3 DEF Recalls, Mirrors
    <3> QED BY <3>1, <3>2, <3>3
  <2> QED BY <1>1, <1>2, <1>11, <2>3, <2>5, <2>6, <2>7 DEF CalmRun
<1> QED BY <1>3, <1>4, <1>5, <1>7, <1>10, <1>11, RunGoesOn DEF db

LEMMA TailQuiet ==
  ASSUME QuietInv, RowsInv', NEW p \in Procs, Recall(p) \/ CompareMirrors(p) \/ ReadBrain(p)
  PROVE  QuietInv'
<1>0. Runs
  BY DEF QuietInv, RowsInv
<1>1. PICK c, d: c = proc[p] /\ d = proc'[p]
  OBVIOUS
<1>2. /\ (\A q \in Procs \ {p}: proc'[q] = proc[q]) /\ UNCHANGED <<world, db, history>>
      /\ Steady(c, d) /\ (Recalls(c, d) \/ Mirrors(c, d) \/ Records(c, d))
  BY <1>0, <1>1, Recalling, ComparingMirrors, ReadingBrain
<1> QED BY <1>1, <1>2, SteadyQuiet

LEMMA ListQuiet ==
  ASSUME QuietInv, RowsInv', NEW p \in Procs, List(p)
  PROVE  QuietInv'
<1>0. Runs
  BY DEF QuietInv, RowsInv
<1>1. PICK c, d: c = proc[p] /\ d = proc'[p]
  OBVIOUS
<1>2. /\ (\A q \in Procs \ {p}: proc'[q] = proc[q]) /\ UNCHANGED <<world, db, history>>
      /\ c.at = "listing" /\ ((Steady(c, d) /\ Lists(c, d)) \/ Restarts(c, d))
  BY <1>0, <1>1, Listing
<1>3. CASE Steady(c, d) /\ Lists(c, d)
  BY <1>1, <1>2, <1>3, SteadyQuiet
<1>4. CASE Restarts(c, d)
  <2>1. UNCHANGED <<calm, alone, fresh, mixed>> /\ p \in Running
    BY <1>1, <1>2 DEF history, Running
  <2>2. alone \subseteq {p} /\ (alone = {} \/ Running \subseteq {p})
    BY <2>1, OthersAreNotAlone DEF QuietInv, AloneInv
  <2>3. WalkFits(c) /\ (p \in alone /\ p \in calm => CalmRun(c))
    BY <1>1, <1>2 DEF QuietInv, ParityInv, Inside
  <2>4. Inside(d) /\ WalkFits(d)
    BY <1>4, <2>3 DEF Restarts, Inside, WalkFits, Printed
  <2>5. AloneRun(d)
    BY <1>4, BegunAlone DEF Restarts
  <2>6. CalmRun(c) => CalmRun(d)
    BY <1>4, BegunCalm DEF Restarts, CalmRun
  <2> QED BY <1>1, <1>2, <2>1, <2>2, <2>3, <2>4, <2>5, <2>6, RunGoesOn DEF db
<1> QED BY <1>2, <1>3, <1>4

LEMMA CompareQuiet ==
  ASSUME QuietInv, RowsInv', NEW p \in Procs, Compare(p)
  PROVE  QuietInv'
<1>0. Runs /\ OnePerPath(docs) /\ WorldFits /\ ParityInv
  BY DEF QuietInv, RowsInv, TablesAgree
<1>1. PICK c, d: c = proc[p] /\ d = proc'[p]
  OBVIOUS
<1>2. (\A q \in Procs \ {p}: proc'[q] = proc[q]) /\ UNCHANGED <<world, db>> /\ c.at = "comparing"
  BY <1>0, <1>1, Comparing
<1>3. UNCHANGED world /\ p \in Running /\ alone \subseteq {p}
  <2>1. p \in Running
    BY <1>1, <1>2 DEF Running
  <2> QED BY <1>2, <2>1, OthersAreNotAlone
<1>4. WalkFits(c) /\ (p \in alone => AloneRun(c)) /\ (p \in alone /\ p \in calm => CalmRun(c))
  BY <1>0, <1>1, <1>2 DEF QuietInv, ParityInv, AloneInv, Inside
<1>5. CASE Steady(c, d) /\ Writes(c, d) /\ UNCHANGED history
  BY <1>1, <1>2, <1>5, SteadyQuiet
<1>7. CASE d = Idle /\ Stops(p) /\ NothingNew(c)
  <2>1. /\ calm' = calm \ {p} /\ alone' = alone \ {p} /\ fresh' = (p \in calm /\ p \in alone)
    BY <1>7 DEF Stops, Ends
  <2>2. UNCHANGED <<docs, state, prints, parity>>
    BY <1>2 DEF db
  <2>3. p \in alone => /\ c.rows = {} /\ Indexed = c.keep /\ prints = c.prints
    BY <1>2, <1>4, <1>7 DEF NothingNew, AloneRun
  <2>4. prints' # Empty => Covers(prints.skills, parity)'
    BY <1>0, <1>3, <2>2 DEF ParityInv, Covers, Recorded, world
  <2>5. StateHonest'
    <3>1. ~mixed' => ~mixed
      BY <1>7 DEF Stops, Ends
    <3> QED BY <1>3, <2>2, <3>1
            DEF QuietInv, AloneInv, StateHonest, Honest, Vouches, Boundary, Recorded, world
  <2>6. ASSUME p \in calm, p \in alone, ~mixed'
        PROVE  /\ {r \in docs: r[1] = Record \/ cited \/ Kind[r[1]] = "text"} = Ideal
               /\ \A f \in DOMAIN Drift: f \in DOMAIN parity /\ parity[f] = Drift[f]
    <3>1. ~mixed /\ CalmRun(c) /\ TakesTheFirst(c) /\ BrainRows \subseteq c.rows
      BY <1>2, <1>4, <1>7, <2>6 DEF Stops, Ends, CalmRun
    <3>2. Come(c) = 1..Len(Order)
      BY <1>2 DEF Come
    <3>3. c.keep \subseteq Files
      BY <1>4, <2>6 DEF AloneRun
    <3>4. docs = {r \in docs: r[1] \in c.keep} \cup c.rows
      BY <2>3, <2>6 DEF Indexed
    <3>5. {r \in docs: r[1] = Record \/ cited \/ Kind[r[1]] = "text"} = Ideal
      BY <1>0, <3>1, <3>2, <3>3, <3>4, EndsFaithful
    <3>6. Covers(c.prints.skills, parity)
      <4>1. "config" \in DOMAIN c.prints /\ DOMAIN Empty = {}
        BY <1>4 DEF WalkFits, Printed, Empty
      <4> QED BY <1>0, <2>3, <2>6, <4>1 DEF ParityInv
    <3>7. \A f \in DOMAIN Drift: f \in DOMAIN parity /\ parity[f] = Drift[f]
      BY <1>4, <3>1, <3>6, DriftKnown DEF WalkFits
    <3> QED BY <3>5, <3>7
  <2>7. QuietRunsAreFaithful'
    <3>1. UNCHANGED <<day, files, cited, brain, config, docs, parity>>
      BY <1>3, <2>2 DEF world
    <3>2. (\A f: Passes(f)' <=> Passes(f)) /\ BrainRows' = BrainRows /\ Drift' = Drift
      BY <3>1 DEF Passes, BrainRows, BrainRowsOf, Drift
    <3>3. Wanted' = Wanted
      BY <3>2 DEF Wanted
    <3>4. Ideal' = Ideal
      BY <3>1, <3>2, <3>3 DEF Ideal
    <3> QED BY <2>1, <2>6, <3>1, <3>2, <3>4 DEF QuietRunsAreFaithful
  <2> QED BY <1>1, <1>2, <1>3, <1>7, <2>1, <2>4, <2>5, <2>7, RunEnds
<1>8. \/ Steady(c, d) /\ Writes(c, d) /\ UNCHANGED history
      \/ d = Idle /\ Stops(p) /\ NothingNew(c)
  BY <1>0, <1>1, Comparing
<1> QED BY <1>5, <1>7, <1>8

LEMMA CommitQuiet ==
  ASSUME QuietInv, RowsInv', NEW p \in Procs, Commit(p)
  PROVE  QuietInv'
<1>0. Runs /\ OnePerPath(docs) /\ DOMAIN meta = Indexed
  BY DEF QuietInv, RowsInv, TablesAgree
<1>1. PICK c: c = proc[p]
  OBVIOUS
<1>2. /\ (\A q \in Procs \ {p}: proc'[q] = proc[q]) /\ proc'[p] = Idle
      /\ c.at = "writing" /\ UNCHANGED world
  BY <1>0, <1>1, Ending DEF Commit
<1>3. p \in Running /\ alone \subseteq {p}
  <2>1. p \in Running
    BY <1>1, <1>2 DEF Running
  <2> QED BY <2>1, OthersAreNotAlone
<1>4. WalkFits(c) /\ (p \in alone => AloneRun(c)) /\ (p \in alone /\ p \in calm => CalmRun(c))
  BY <1>1, <1>2 DEF QuietInv, ParityInv, AloneInv, Inside
<1>5. PICK dropped, kept: /\ dropped = IF c.keep = {} THEN Indexed ELSE c.existing \ c.keep
                          /\ kept = DOMAIN meta \ dropped
  OBVIOUS
<1>6. \/ Conflicts(c, kept) /\ Ends(p, FALSE) /\ UNCHANGED db
      \/ /\ docs' = {d \in docs: d[1] \notin dropped} \cup c.rows
         /\ state' = c.state /\ prints' = c.prints /\ parity' = c.parity
         /\ Ends(p, TRUE)
  BY <1>1, <1>5 DEF Commit
<1>7. p \in alone => ~Conflicts(c, kept)
  <2> SUFFICES ASSUME p \in alone PROVE ~Conflicts(c, kept)
    OBVIOUS
  <2>1. c.existing = Indexed /\ \A d \in c.rows: d[1] \notin c.keep
    BY <1>2, <1>4 DEF AloneRun
  <2>2. kept \subseteq c.keep
    BY <1>0, <1>5, <2>1
  <2> QED BY <2>1, <2>2 DEF Conflicts
<1>8. calm' = calm \ {p} /\ alone' = alone \ {p} /\ fresh' = (p \in calm /\ p \in alone)
  BY <1>6 DEF Ends
<1>9. prints' # Empty => Covers(prints.skills, parity)'
  <2>1. CASE UNCHANGED db
    BY <1>2, <2>1 DEF QuietInv, ParityInv, Covers, Recorded, world, db
  <2>2. CASE prints' = c.prints /\ parity' = c.parity
    BY <1>2, <1>4, <2>2 DEF WalkFits, Covers, Recorded, world
  <2> QED BY <1>6, <2>1, <2>2
<1>10. CASE p \notin alone
  <2>1. StateHonest'
    <3>1. CASE Ends(p, FALSE) /\ UNCHANGED db
      BY <1>2, <3>1 DEF QuietInv, AloneInv, StateHonest, Honest, Vouches, Boundary, Recorded, world, db, Ends
    <3>2. CASE Ends(p, TRUE)
      BY <1>10, <3>2 DEF Ends, StateHonest
    <3> QED BY <1>6, <3>1, <3>2
  <2>2. QuietRunsAreFaithful'
    BY <1>8, <1>10 DEF QuietRunsAreFaithful
  <2> QED BY <1>2, <1>3, <1>8, <1>9, <2>1, <2>2, RunEnds
<1>11. CASE p \in alone
  <2>1. /\ docs' = {d \in docs: d[1] \notin dropped} \cup c.rows
        /\ state' = c.state /\ prints' = c.prints /\ parity' = c.parity
        /\ ~mixed' => ~mixed \/ c.full
    BY <1>1, <1>6, <1>7, <1>11 DEF Ends
  <2>2. AloneRun(c)
    BY <1>4, <1>11
  <2>3. docs' = {d \in docs: d[1] \in c.keep} \cup c.rows
    <3>1. \A d \in docs: d[1] \notin dropped <=> d[1] \in c.keep
      BY <1>2, <1>5, <2>2 DEF AloneRun, Indexed
    <3> QED BY <2>1, <3>1
  <2>4. ~mixed' => ~mixed \/ (c.full /\ c.keep = {} /\ DOMAIN c.cache = {})
    <3>1. DOMAIN Empty = {}
      BY DEF Empty
    <3>2. c.full => c.cache = Empty /\ c.keep \subseteq DOMAIN c.cache
      BY <2>2 DEF AloneRun
    <3>3. c.full => DOMAIN c.cache = {} /\ c.keep = {}
      BY <3>1, <3>2
    <3> QED BY <2>1, <3>3
  <2>5. StateHonest'
    <3> SUFFICES ASSUME ~mixed', NEW f \in DOMAIN c.state
                 PROVE  Honest(f, state[f], docs)'
      BY <2>1 DEF StateHonest
    <3>1. CASE Honest(f, c.state[f], c.rows)
      BY <1>2, <2>1, <3>1 DEF Honest, Vouches, Boundary, Recorded, world
    <3>2. CASE f \in c.keep /\ c.state[f] = c.cache[f]
      <4>1. ~mixed /\ f \in DOMAIN c.cache
        BY <2>2, <2>4, <3>2 DEF AloneRun
      <4>2. Honest(f, c.state[f], docs)
        BY <2>2, <3>2, <4>1 DEF AloneRun
      <4>3. PICK v: v = c.state[f].ver
        OBVIOUS
      <4>4. <<f, v>> \in docs => <<f, v>> \in docs'
        BY <2>3, <3>2
      <4> QED BY <1>2, <2>1, <4>2, <4>3, <4>4 DEF Honest, Vouches, Boundary, Recorded, world
    <3> QED BY <2>2, <3>1, <3>2 DEF AloneRun
  <2>6. ASSUME p \in calm, ~mixed'
        PROVE  /\ {d \in docs': d[1] = Record \/ cited \/ Kind[d[1]] = "text"} = Ideal
               /\ \A f \in DOMAIN Drift: f \in DOMAIN c.parity /\ c.parity[f] = Drift[f]
    <3>1. CalmRun(c) /\ TakesTheFirst(c) /\ BrainRows \subseteq c.rows
      BY <1>2, <1>4, <1>11, <2>4, <2>6 DEF CalmRun
    <3>2. Come(c) = 1..Len(Order)
      BY <1>2 DEF Come
    <3>3. PICK tables: tables = {d \in docs: d[1] \in c.keep} \cup c.rows
      OBVIOUS
    <3>4. c.keep \subseteq Files
      BY <2>2 DEF AloneRun
    <3>5. {d \in tables: d[1] = Record \/ cited \/ Kind[d[1]] = "text"} = Ideal
      BY <1>0, <3>1, <3>2, <3>3, <3>4, EndsFaithful
    <3>6. \A f \in DOMAIN Drift: f \in DOMAIN c.parity /\ c.parity[f] = Drift[f]
      BY <1>2, <1>4, <3>1, DriftKnown DEF WalkFits
    <3> QED BY <2>3, <3>3, <3>5, <3>6
  <2>7. QuietRunsAreFaithful'
    <3>1. UNCHANGED <<day, files, cited, brain, config>>
      BY <1>2 DEF world
    <3>2. (\A f: Passes(f)' <=> Passes(f)) /\ BrainRows' = BrainRows /\ Drift' = Drift
      BY <3>1 DEF Passes, BrainRows, BrainRowsOf, Drift
    <3>3. Wanted' = Wanted
      BY <3>2 DEF Wanted
    <3>4. Ideal' = Ideal
      BY <3>1, <3>2, <3>3 DEF Ideal
    <3> QED BY <1>8, <2>1, <2>6, <3>1, <3>2, <3>4 DEF QuietRunsAreFaithful
  <2> QED BY <1>2, <1>3, <1>8, <1>9, <2>5, <2>7, RunEnds
<1> QED BY <1>10, <1>11

-----------------------------------------------------------------------------
(* What holds of every quiet run. *)

LEMMA QuietInvStays == QuietInv /\ [Next]_vars => QuietInv'
<1> SUFFICES ASSUME QuietInv, [Next]_vars PROVE QuietInv'
  OBVIOUS
<1>0. RowsInv' /\ Runs
  BY RowsInvStays DEF QuietInv, RowsInv
<1>1. CASE World \/ UNCHANGED vars
  BY <1>0, <1>1, QuietWorld
<1>2. ASSUME NEW p \in Procs, RunSteps(p) PROVE QuietInv'
  BY <1>0, <1>2, WalkQuiet, ReuseQuiet, ReadQuiet, OpenQuiet, TailQuiet, ListQuiet, CompareQuiet DEF RunSteps
<1>3. ASSUME NEW p \in Procs, Commit(p) PROVE QuietInv'
  BY <1>0, <1>3, CommitQuiet
<1>4. ASSUME NEW p \in Procs, StoreCounts(p) PROVE QuietInv'
  <2>1. proc'[p] = Idle /\ \A q \in Procs \ {p}: proc'[q] = proc[q]
    BY <1>0, <1>4, Ending
  <2>2. ~Inside(proc[p]) /\ ~Inside(proc'[p])
    BY <1>4, <2>1, IdleFits DEF StoreCounts, Inside
  <2>3. UNCHANGED <<world, docs, state, prints, parity, calm, alone, fresh, mixed>>
    BY <1>4 DEF StoreCounts, history
  <2> QED BY <1>0, <2>1, <2>2, <2>3, CountsAside
<1>5. ASSUME NEW p \in Procs, StartCount(p) \/ \E t \in Tokens: CountToken(p, t) PROVE QuietInv'
  <2>1. proc'[p].at = "counting" /\ \A q \in Procs \ {p}: proc'[q] = proc[q]
    BY <1>0, <1>5, Counting
  <2>2. ~Inside(proc[p]) /\ ~Inside(proc'[p])
    BY <1>5, <2>1, IdleFits DEF StartCount, CountToken, Inside
  <2>3. UNCHANGED <<world, docs, state, prints, parity, calm, alone, fresh, mixed>>
    BY <1>5 DEF StartCount, CountToken, history, db
  <2> QED BY <1>0, <2>1, <2>2, <2>3, CountsAside
<1> QED BY <1>1, <1>2, <1>3, <1>4, <1>5, StepsSplit

LEMMA InitQuiet == Init => QuietInv
<1> SUFFICES ASSUME Init PROVE QuietInv
  OBVIOUS
<1>1. RowsInv
  BY InitInvs
<1>2. WorldFits
  BY DEF Init, WorldFits, Recorded
<1>3. \A p \in Procs: ~Inside(proc[p])
  BY IdleFits DEF Init, Inside
<1>4. calm = {} /\ alone = {} /\ fresh = FALSE /\ state = Empty /\ prints = Empty
  BY DEF Init
<1>5. ParityInv
  BY <1>3, <1>4 DEF ParityInv
<1>6. AloneInv
  BY <1>4 DEF AloneInv, StateHonest, Empty
<1> QED BY <1>1, <1>2, <1>4, <1>5, <1>6 DEF QuietInv, QuietRunsAreFaithful

\* An incremental run of its own, over files that do not change meanwhile, leaves
\* the very rows that a full run would make, and knows what every mirror says,
\* whatever was cached, raced, expired or reconfigured before (discover_documents,
\* reusable_source_state, index_documents).
THEOREM QuietRunsCorrect == Spec => []QuietRunsAreFaithful
<1>1. QuietInv => QuietRunsAreFaithful
  BY DEF QuietInv
<1> QED BY <1>1, InitQuiet, QuietInvStays, PTL DEF Spec
=============================================================================
