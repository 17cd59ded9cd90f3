-------------------------- MODULE MemoryBankProofs --------------------------
(***************************************************************************)
(* What MemoryBank promises for any number of processes, records,          *)
(* promotions, chunks, days and faults.  The inductive invariant says of a *)
(* bank that nobody writes to what its readers rely on (Kept); and of one  *)
(* that a process is writing to, that the snapshot can be put back, and    *)
(* that what is left of the plan makes a bank of that kind again           *)
(* (Underway), so that it holds wherever an exception or a kill strikes.   *)
(***************************************************************************)
EXTENDS MemoryBank, FiniteSetTheorems, SequenceTheorems, TLAPS

-----------------------------------------------------------------------------
(* What the files may hold.                                                *)

Places == {"dynamic", "archive"}
Ids == Nat \X Recs

Records == [Recs -> [place: Places, status: {"open", "resolved"}, rev: Nat, seen: Nat]]

Promotions == [rec: Recs, place: Places, rev: Nat, text: Nat, auto: BOOLEAN,
               status: {"proposed", "reviewed", "rejected", "applied"},
               file: Ids \cup {NoOne}]
Proms == Seq(Promotions)

Chunks == [status: {"active", "archived", "superseded"}, auto: BOOLEAN,
           place: Places, digested: Places \cup {"nowhere"}, rev: Nat,
           cites: BOOLEAN, doc: Nat, verified: Nat, review: Nat, to: Nat,
           by: Ids \cup {NoOne}, sup: SUBSET Ids]

\* A bank of chunks that were verified by day d.
IsBank(b, d) == /\ IsFiniteSet(DOMAIN b) /\ DOMAIN b \subseteq Ids
                /\ b \in [DOMAIN b -> Chunks]
                /\ \A f \in DOMAIN b: b[f].verified <= d

Steps == [op: {"chunk"}, id: Ids, chunk: Chunks] \cup [op: {"index", "check"}]
         \cup [op: {"applied"}, id: Ids, prom: Nat] \cup [op: {"move"}, rec: Recs]

-----------------------------------------------------------------------------
(* A store that nobody writes to.                                          *)

\* What the applied promotions point to.
Accounted(P) == {P[i].file: i \in {j \in DOMAIN P: P[j].status = "applied"}}

\* The chunk cites its record's file at the place, and holds its digest there.
Cited(c, place) == c.place = place /\ c.digested = place

Sound(b, x) == x = Rows(b) /\ Linked(b)

Kept(R, P, b, x, k) ==
    /\ Accounted(P) \subseteq DOMAIN b
    /\ Cardinality(DOMAIN b \ Accounted(P)) <= k
    /\ k = 0 => Sound(b, x) /\ \A f \in DOMAIN b: Cited(b[f], R[f[2]].place)

-----------------------------------------------------------------------------
(* A store that the holder of the lock is writing to.                      *)

Ops(plan) == {plan[n]: n \in DOMAIN plan}
Puts(plan) == {s \in Ops(plan): s.op = "chunk"}
Moved(plan) == {s.rec: s \in {t \in Ops(plan): t.op = "move"}}

\* The chunks whose promotion is still to be marked as applied.
Owed(plan) == {s.id: s \in {t \in Ops(plan): t.op = "applied"}}

\* Where a record will be when the plan has been carried out.
PlaceAfter(plan, R, r) == IF r \in Moved(plan) THEN "archive" ELSE R[r].place

\* The later state of a chunk takes nothing back.
Outlives(was, now) == /\ was.status # "active" => now.status # "active"
                      /\ now.auto = was.auto /\ was.verified <= now.verified
Outgrows(b0, b) == \A f \in DOMAIN b0: f \in DOMAIN b /\ Outlives(b0[f], b[f])

\* The chunk holds what promotion i proposed.
Quotes(c, P, R, i) == c.rev = P[i].rev /\ c.place = R[P[i].rec].place

\* Every file that is still to be written fits the day, the bank b0 that was
\* found and the places that records will have.
PutsFit(plan, d, R, b, b0, k) ==
    \A s \in Puts(plan):
        /\ s.chunk.verified <= d
        /\ s.id \in DOMAIN b0 => Outlives(b0[s.id], s.chunk)
        /\ s.id \in DOMAIN b \cup Owed(plan)
        /\ k = 0 => Cited(s.chunk, PlaceAfter(plan, R, s.id[2]))

\* What is not written any more cites its record where it will be.
RestFits(plan, R, b) ==
    \A f \in DOMAIN b: \/ \E s \in Puts(plan): s.id = f
                       \/ Cited(b[f], PlaceAfter(plan, R, f[2]))

\* The bank is validated after the last file of it was written.
Checked(plan, b, x) ==
    \/ \E n \in DOMAIN plan: /\ plan[n].op = "check"
                             /\ \A m \in DOMAIN plan: m > n => plan[m].op = "applied"
    \/ Sound(b, x) /\ \A m \in DOMAIN plan: plan[m].op = "applied"

\* A promotion is marked last, and its chunk is in the bank then.
MarkFits(plan, R, P, b) ==
    \A n \in DOMAIN plan: plan[n].op = "applied" =>
        LET s == plan[n]
        IN /\ n = Len(plan) /\ Moved(plan) = {}
           /\ s.prom \in DOMAIN P /\ P[s.prom].status = "reviewed"
           /\ IF s.id \in DOMAIN b THEN Quotes(b[s.id], P, R, s.prom)
              ELSE \E t \in Puts(plan): t.id = s.id
           /\ \A t \in Puts(plan): t.id = s.id => Quotes(t.chunk, P, R, s.prom)

Underway(plan, d, R, P, b, x, b0, k) ==
    /\ plan \in Seq(Steps) /\ plan # <<>>
    /\ PutsFit(plan, d, R, b, b0, k)
    /\ k = 0 => RestFits(plan, R, b)
    /\ Checked(plan, b, x)
    /\ MarkFits(plan, R, P, b)
    /\ Outgrows(b0, b)
    /\ Accounted(P) \subseteq DOMAIN b
    /\ Cardinality((DOMAIN b \ Accounted(P)) \ Owed(plan)) <= k

-----------------------------------------------------------------------------
(* Plans.                                                                  *)

LEMMA StepTypes ==
    ASSUME NEW s \in Steps
    PROVE  /\ s.op \in {"chunk", "index", "check", "applied", "move"}
           /\ s.op = "chunk" => s.id \in Ids /\ s.chunk \in Chunks
           /\ s.op = "applied" => s.id \in Ids /\ s.prom \in Nat
           /\ s.op = "move" => s.rec \in Recs
BY DEF Steps

\* What is left of a plan after its first step.
LEMMA TailOps ==
    ASSUME NEW plan \in Seq(Steps), plan # <<>>
    PROVE  /\ Head(plan) \in Steps /\ Head(plan) = plan[1] /\ Tail(plan) \in Seq(Steps)
           /\ Len(plan) \in Nat \ {0} /\ Len(Tail(plan)) = Len(plan) - 1
           /\ DOMAIN plan = 1..Len(plan) /\ DOMAIN Tail(plan) = 1..Len(Tail(plan))
           /\ \A n \in DOMAIN Tail(plan): Tail(plan)[n] = plan[n + 1]
           /\ Head(plan) \in Ops(plan)
           /\ Ops(plan) = Ops(Tail(plan)) \cup {Head(plan)}
<1>. DEFINE s == Head(plan) rest == Tail(plan)
<1>1. /\ s \in Steps /\ s = plan[1] /\ rest \in Seq(Steps)
      /\ Len(plan) \in Nat \ {0} /\ Len(rest) = Len(plan) - 1
      /\ DOMAIN plan = 1..Len(plan) /\ DOMAIN rest = 1..Len(rest)
      /\ \A n \in DOMAIN rest: rest[n] = plan[n + 1]
    BY HeadTailProperties, EmptySeq, LenProperties
<1>2. s \in Ops(plan)
    BY <1>1 DEF Ops
<1>3. ASSUME NEW t \in Ops(plan)
      PROVE  t \in Ops(rest) \cup {s}
    <2>1. PICK n \in DOMAIN plan: t = plan[n]
        BY DEF Ops
    <2>2. CASE n = 1
        BY <2>1, <2>2, <1>1
    <2>3. CASE n # 1
        <3>1. n - 1 \in DOMAIN rest /\ rest[n - 1] = t
            BY <2>1, <2>3, <1>1
        <3>. QED  BY <3>1 DEF Ops
    <2>. QED  BY <2>2, <2>3
<1>4. ASSUME NEW t \in Ops(rest)
      PROVE  t \in Ops(plan)
    <2>1. PICK n \in DOMAIN rest: t = rest[n]
        BY DEF Ops
    <2>2. n + 1 \in DOMAIN plan /\ plan[n + 1] = t
        BY <2>1, <1>1
    <2>. QED  BY <2>2 DEF Ops
<1>. QED  BY <1>1, <1>2, <1>3, <1>4

-----------------------------------------------------------------------------
(* One step of a plan.                                                     *)

Relocated(s, R) == IF s.op = "move" THEN [R EXCEPT ![s.rec].place = "archive"] ELSE R

\* What writing the next file makes of the records, the promotions, the bank
\* and the index.
Effect(s, R, P, b, x, R1, P1, b1, x1) ==
    /\ s.op = "check" => Sound(b, x)
    /\ b1 = IF s.op = "chunk"
            THEN [g \in DOMAIN b \cup {s.id} |-> IF g = s.id THEN s.chunk ELSE b[g]] ELSE b
    /\ x1 = IF s.op = "index" THEN Rows(b) ELSE x
    /\ R1 = Relocated(s, R)
    /\ P1 = IF s.op = "applied"
            THEN [P EXCEPT ![s.prom] = [@ EXCEPT !.status = "applied", !.file = s.id]] ELSE P

LEMMA EffectTypes ==
    ASSUME NEW s \in Steps, NEW d \in Nat, NEW R \in Records, NEW P \in Proms, NEW b, NEW x,
           NEW R1, NEW P1, NEW b1, NEW x1, IsBank(b, d),
           s.op = "chunk" => s.chunk.verified <= d, Effect(s, R, P, b, x, R1, P1, b1, x1)
    PROVE  R1 \in Records /\ P1 \in Proms /\ IsBank(b1, d)
<1>1. R1 \in Records
    BY StepTypes DEF Effect, Relocated, Records, Places
<1>2. P1 \in Proms
    <2>1. CASE s.op = "applied"
        <3>. DEFINE new == [P[s.prom] EXCEPT !.status = "applied", !.file = s.id]
        <3>1. P1 = [P EXCEPT ![s.prom] = new]
            BY <2>1 DEF Effect
        <3>2. CASE s.prom \in 1..Len(P)
            <4>1. P[s.prom] \in Promotions
                BY <3>2, ElementOfSeq DEF Proms
            <4>2. new \in Promotions
                BY <4>1, <2>1, StepTypes DEF Promotions
            <4>. HIDE DEF new
            <4>. QED  BY <3>1, <3>2, <4>2, ExceptSeq DEF Proms
        <3>3. CASE s.prom \notin 1..Len(P)
            <4>1. DOMAIN P = 1..Len(P)
                BY LenProperties DEF Proms
            <4>2. P1 = P
                BY <3>1, <3>3, <4>1 DEF Proms
            <4>. QED  BY <4>2
        <3>. QED  BY <3>2, <3>3
    <2>2. CASE s.op # "applied"
        BY <2>2 DEF Effect
    <2>. QED  BY <2>1, <2>2
<1>3. IsBank(b1, d)
    <2>1. CASE s.op = "chunk"
        <3>1. b1 = [g \in DOMAIN b \cup {s.id} |-> IF g = s.id THEN s.chunk ELSE b[g]]
            BY <2>1 DEF Effect
        <3>2. s.id \in Ids /\ s.chunk \in Chunks
            BY <2>1, StepTypes
        <3>3. IsFiniteSet(DOMAIN b \cup {s.id})
            BY FS_AddElement DEF IsBank
        <3>. QED  BY <2>1, <3>1, <3>2, <3>3 DEF IsBank
    <2>2. CASE s.op # "chunk"
        BY <2>2 DEF Effect
    <2>. QED  BY <2>1, <2>2
<1>. QED  BY <1>1, <1>2, <1>3

\* Carrying out a step does not change where records will be.
LEMMA PlaceStays ==
    ASSUME NEW plan \in Seq(Steps), plan # <<>>, 
           NEW R \in Records, NEW r \in Recs
    PROVE  PlaceAfter(Tail(plan), Relocated(Head(plan), R), r) = PlaceAfter(plan, R, r)
<1>. DEFINE s == Head(plan) rest == Tail(plan) R1 == Relocated(s, R)
<1>1. s \in Steps
    BY TailOps
<1>2. /\ s.op = "move" => Moved(plan) = Moved(rest) \cup {s.rec}
      /\ s.op # "move" => Moved(plan) = Moved(rest)
    <2>1. Ops(plan) = Ops(rest) \cup {s}
        BY TailOps
    <2>. QED  BY <2>1 DEF Puts, Moved
<1>3. R1 = IF s.op = "move" THEN [R EXCEPT ![s.rec].place = "archive"] ELSE R
    BY DEF Relocated
<1>4. s.op = "move" => s.rec \in Recs
    BY <1>1, StepTypes
<1>5. s.op = "move" => R1[s.rec].place = "archive" /\ (r # s.rec => R1[r] = R[r])
    BY <1>3, <1>4 DEF Records
<1>. QED  BY <1>2, <1>3, <1>5 DEF PlaceAfter

\* Marking a promotion adds its chunk to those that are accounted for.
LEMMA MarkAccounts ==
    ASSUME NEW P \in Proms, NEW i \in DOMAIN P, P[i].status = "reviewed", NEW f
    PROVE  Accounted([P EXCEPT ![i] = [@ EXCEPT !.status = "applied", !.file = f]])
               = Accounted(P) \cup {f}
<1>. DEFINE P1 == [P EXCEPT ![i] = [@ EXCEPT !.status = "applied", !.file = f]]
            new == [P[i] EXCEPT !.status = "applied", !.file = f]
<1>0. DOMAIN P = 1..Len(P) /\ P1 = [P EXCEPT ![i] = new]
    BY LenProperties DEF Proms
<1>1. DOMAIN P1 = DOMAIN P /\ P1[i] = new
    BY <1>0
<1>2. \A j \in DOMAIN P: j # i => P1[j] = P[j]
    BY <1>0
<1>3. P[i] \in Promotions
    BY <1>0, ElementOfSeq DEF Proms
<1>4. P1[i].status = "applied" /\ P1[i].file = f
    BY <1>1, <1>3 DEF Promotions
<1>5. ASSUME NEW g \in Accounted(P1)
      PROVE  g \in Accounted(P) \cup {f}
    <2>1. PICK j \in DOMAIN P1: P1[j].status = "applied" /\ P1[j].file = g
        BY <1>5 DEF Accounted
    <2>. QED  BY <2>1, <1>1, <1>2, <1>4 DEF Accounted
<1>6. ASSUME NEW g \in Accounted(P)
      PROVE  g \in Accounted(P1)
    <2>1. PICK j \in DOMAIN P: P[j].status = "applied" /\ P[j].file = g
        BY <1>6 DEF Accounted
    <2>2. j # i
        BY <2>1
    <2>. QED  BY <2>1, <2>2, <1>1, <1>2 DEF Accounted
<1>7. f \in Accounted(P1)
    BY <1>1, <1>4 DEF Accounted
<1>. QED  BY <1>5, <1>6, <1>7

\* A plan marks one promotion at most.
LEMMA OneOwed ==
    ASSUME NEW plan \in Seq(Steps), NEW R, NEW P, NEW b, MarkFits(plan, R, P, b)
    PROVE  Owed(plan) \subseteq {plan[Len(plan)].id}
<1>1. ASSUME NEW f \in Owed(plan)
      PROVE  f = plan[Len(plan)].id
    <2>1. PICK n \in DOMAIN plan: plan[n].op = "applied" /\ f = plan[n].id
        BY <1>1 DEF Owed, Ops
    <2>. QED  BY <2>1 DEF MarkFits
<1>. QED  BY <1>1

-----------------------------------------------------------------------------
(* A plan is carried on.                                                   *)

\* What is still to be written fits the bank after the next file.
LEMMA PutsStayFit ==
    ASSUME NEW plan \in Seq(Steps), plan # <<>>, NEW d \in Nat, NEW k \in Nat,
           NEW R \in Records, NEW P, NEW b, NEW x, NEW b0,
           NEW R1, NEW P1, NEW b1, NEW x1,
           PutsFit(plan, d, R, b, b0, k), MarkFits(plan, R, P, b), Len(plan) > 1,
           Effect(Head(plan), R, P, b, x, R1, P1, b1, x1)
    PROVE  PutsFit(Tail(plan), d, R1, b1, b0, k)
<1>. DEFINE s == Head(plan) rest == Tail(plan)
<1>1. s.op # "applied"
    BY TailOps DEF MarkFits
<1>2. Puts(rest) \subseteq Puts(plan) /\ Owed(rest) = Owed(plan)
    <2>1. Ops(plan) = Ops(rest) \cup {s}
        BY TailOps
    <2>. QED  BY <2>1, <1>1 DEF Puts, Owed
<1>3. DOMAIN b \subseteq DOMAIN b1
    BY DEF Effect
<1>4. ASSUME NEW t \in Puts(rest)
      PROVE  /\ t.chunk.verified <= d
             /\ t.id \in DOMAIN b0 => Outlives(b0[t.id], t.chunk)
             /\ t.id \in DOMAIN b1 \cup Owed(rest)
             /\ k = 0 => Cited(t.chunk, PlaceAfter(rest, R1, t.id[2]))
    <2>1. t \in Puts(plan) /\ t \in Steps /\ t.op = "chunk"
        <3>1. t \in Ops(plan) /\ t.op = "chunk"
            BY <1>2 DEF Puts
        <3>. QED  BY <3>1, <1>2, ElementOfSeq, LenProperties DEF Ops
    <2>2. t.id[2] \in Recs
        BY <2>1, StepTypes DEF Ids
    <2>3. PlaceAfter(rest, R1, t.id[2]) = PlaceAfter(plan, R, t.id[2])
        BY <2>2, PlaceStays DEF Effect
    <2>. QED  BY <1>2, <1>3, <2>1, <2>3 DEF PutsFit
<1>. QED  BY <1>4 DEF PutsFit

LEMMA RestStaysFit ==
    ASSUME NEW plan \in Seq(Steps), plan # <<>>, NEW d \in Nat,
           NEW R \in Records, NEW P, NEW b, NEW x, NEW b0,
           NEW R1, NEW P1, NEW b1, NEW x1, IsBank(b, d),
           PutsFit(plan, d, R, b, b0, 0), RestFits(plan, R, b),
           Effect(Head(plan), R, P, b, x, R1, P1, b1, x1)
    PROVE  RestFits(Tail(plan), R1, b1)
<1>. DEFINE s == Head(plan) rest == Tail(plan)
<1>0. s \in Steps /\ s \in Ops(plan)
    BY TailOps
<1>1. /\ s.op = "chunk" => Puts(plan) = Puts(rest) \cup {s}
      /\ s.op # "chunk" => Puts(plan) = Puts(rest)
    <2>1. Ops(plan) = Ops(rest) \cup {s}
        BY TailOps
    <2>. QED  BY <2>1 DEF Puts, Moved
<1>2. ASSUME NEW f \in DOMAIN b1
      PROVE  (\E t \in Puts(rest): t.id = f) \/ Cited(b1[f], PlaceAfter(rest, R1, f[2]))
    <2>1. f \in Ids
        BY <1>0, StepTypes DEF Effect, IsBank
    <2>2. PlaceAfter(rest, R1, f[2]) = PlaceAfter(plan, R, f[2])
        BY <2>1, PlaceStays DEF Ids, Effect
    <2>3. CASE s.op = "chunk" /\ s.id = f
        <3>1. s \in Puts(plan)
            BY <1>0, <2>3 DEF Puts
        <3>2. Cited(s.chunk, PlaceAfter(plan, R, f[2]))
            BY <3>1, <2>3 DEF PutsFit
        <3>3. b1[f] = s.chunk
            BY <2>3 DEF Effect
        <3>. QED  BY <3>2, <3>3, <2>2
    <2>4. CASE ~(s.op = "chunk" /\ s.id = f)
        <3>1. f \in DOMAIN b /\ b1[f] = b[f]
            BY <2>4 DEF Effect
        <3>2. CASE \E t \in Puts(plan): t.id = f
            BY <3>2, <1>1, <2>4
        <3>3. CASE Cited(b[f], PlaceAfter(plan, R, f[2]))
            BY <3>1, <3>3, <2>2
        <3>. QED  BY <3>1, <3>2, <3>3 DEF RestFits
    <2>. QED  BY <2>3, <2>4
<1>. QED  BY <1>2 DEF RestFits

LEMMA StaysChecked ==
    ASSUME NEW plan \in Seq(Steps), plan # <<>>,
           NEW R, NEW P, NEW b, NEW x, NEW R1, NEW P1, NEW b1, NEW x1, Checked(plan, b, x),
           Effect(Head(plan), R, P, b, x, R1, P1, b1, x1)
    PROVE  Checked(Tail(plan), b1, x1)
<1>. DEFINE s == Head(plan) rest == Tail(plan)
<1>0. /\ s = plan[1] /\ Len(plan) \in Nat \ {0} /\ Len(rest) = Len(plan) - 1
      /\ DOMAIN plan = 1..Len(plan) /\ DOMAIN rest = 1..Len(rest)
      /\ \A n \in DOMAIN rest: rest[n] = plan[n + 1]
    BY TailOps
<1>1. ASSUME s.op \in {"check", "applied"}, Sound(b, x),
             \A m \in DOMAIN plan: m > 1 => plan[m].op = "applied"
      PROVE  Checked(rest, b1, x1)
    <2>1. b1 = b /\ x1 = x
        BY <1>1 DEF Effect
    <2>2. \A m \in DOMAIN rest: rest[m].op = "applied"
        BY <1>0, <1>1
    <2>. QED  BY <1>1, <2>1, <2>2 DEF Checked
<1>2. CASE \E n \in DOMAIN plan: /\ plan[n].op = "check"
                                 /\ \A m \in DOMAIN plan: m > n => plan[m].op = "applied"
    <2>1. PICK n \in DOMAIN plan: /\ plan[n].op = "check"
                                  /\ \A m \in DOMAIN plan: m > n => plan[m].op = "applied"
        BY <1>2
    <2>2. CASE n = 1
        <3>1. s.op = "check" /\ Sound(b, x)
            BY <1>0, <2>1, <2>2 DEF Effect
        <3>. QED  BY <3>1, <2>1, <2>2, <1>1
    <2>3. CASE n # 1
        <3>1. /\ n - 1 \in DOMAIN rest /\ rest[n - 1].op = "check"
              /\ \A m \in DOMAIN rest: m > n - 1 => rest[m].op = "applied"
            BY <1>0, <2>1, <2>3
        <3>. QED  BY <3>1 DEF Checked
    <2>. QED  BY <2>2, <2>3
<1>3. CASE Sound(b, x) /\ \A m \in DOMAIN plan: plan[m].op = "applied"
    BY <1>0, <1>1, <1>3
<1>. QED  BY <1>2, <1>3 DEF Checked

LEMMA MarkStaysFit ==
    ASSUME NEW plan \in Seq(Steps), plan # <<>>,
           NEW R \in Records, NEW P, NEW b, NEW x, NEW R1, NEW P1, NEW b1, NEW x1,
           MarkFits(plan, R, P, b), Len(plan) > 1,
           Effect(Head(plan), R, P, b, x, R1, P1, b1, x1)
    PROVE  P1 = P /\ MarkFits(Tail(plan), R1, P1, b1)
<1>. DEFINE s == Head(plan) rest == Tail(plan)
<1>0. /\ s = plan[1] /\ Len(plan) \in Nat \ {0} /\ Len(rest) = Len(plan) - 1
      /\ DOMAIN plan = 1..Len(plan) /\ DOMAIN rest = 1..Len(rest)
      /\ \A n \in DOMAIN rest: rest[n] = plan[n + 1]
      /\ s \in Ops(plan)
    BY TailOps
<1>1. s.op # "applied"
    BY <1>0 DEF MarkFits
<1>2. P1 = P
    BY <1>1 DEF Effect
<1>3. /\ s.op = "chunk" => Puts(plan) = Puts(rest) \cup {s}
      /\ s.op # "chunk" => Puts(plan) = Puts(rest)
      /\ Moved(plan) = {} => Moved(rest) = {}
    <2>1. Ops(plan) = Ops(rest) \cup {s}
        BY TailOps
    <2>. QED  BY <2>1 DEF Puts, Moved
<1>4. s.op = "chunk" => s \in Puts(plan)
    BY <1>0 DEF Puts
<1>5. s.op # "chunk" => b1 = b
    BY DEF Effect
<1>6. s.op = "chunk" => b1 = [g \in DOMAIN b \cup {s.id} |-> IF g = s.id THEN s.chunk ELSE b[g]]
    BY DEF Effect
<1>7. Moved(plan) = {} => R1 = R
    <2>1. s.op = "move" => s.rec \in Moved(plan)
        BY <1>0 DEF Moved
    <2>. QED  BY <2>1 DEF Effect, Relocated
<1>8. ASSUME NEW n \in DOMAIN rest, rest[n].op = "applied",
             NEW e, e = rest[n]
      PROVE  /\ n = Len(rest) /\ Moved(rest) = {}
             /\ e.prom \in DOMAIN P /\ P[e.prom].status = "reviewed"
             /\ IF e.id \in DOMAIN b1 THEN Quotes(b1[e.id], P, R1, e.prom)
                ELSE \E t \in Puts(rest): t.id = e.id
             /\ \A t \in Puts(rest): t.id = e.id => Quotes(t.chunk, P, R1, e.prom)
    <2>1. n + 1 \in DOMAIN plan /\ plan[n + 1] = e /\ e.op = "applied"
        BY <1>0, <1>8
    <2>2. /\ n + 1 = Len(plan) /\ Moved(plan) = {}
          /\ e.prom \in DOMAIN P /\ P[e.prom].status = "reviewed"
          /\ IF e.id \in DOMAIN b THEN Quotes(b[e.id], P, R, e.prom)
             ELSE \E t \in Puts(plan): t.id = e.id
          /\ \A t \in Puts(plan): t.id = e.id => Quotes(t.chunk, P, R, e.prom)
        BY <2>1 DEF MarkFits
    <2>3. n = Len(rest) /\ Moved(rest) = {} /\ R1 = R
        BY <2>2, <1>0, <1>3, <1>7
    <2>4. \A t \in Puts(rest): t.id = e.id => Quotes(t.chunk, P, R1, e.prom)
        BY <2>2, <2>3, <1>3
    <2>5. IF e.id \in DOMAIN b1 THEN Quotes(b1[e.id], P, R1, e.prom)
          ELSE \E t \in Puts(rest): t.id = e.id
        <3>1. CASE s.op = "chunk" /\ s.id = e.id
            BY <3>1, <1>4, <1>6, <2>2, <2>3
        <3>2. CASE s.op = "chunk" /\ s.id # e.id
            BY <3>2, <1>3, <1>6, <2>2, <2>3
        <3>3. CASE s.op # "chunk"
            BY <3>3, <1>3, <1>5, <2>2, <2>3
        <3>. QED  BY <3>1, <3>2, <3>3
    <2>. QED  BY <2>2, <2>3, <2>4, <2>5
<1>9. MarkFits(rest, R1, P, b1)
    BY <1>8 DEF MarkFits
<1>. QED  BY <1>2, <1>9

\* The bank grows as the plan goes on.
LEMMA StaysGrown ==
    ASSUME NEW plan \in Seq(Steps), plan # <<>>, NEW d \in Nat, NEW k \in Nat,
           NEW R, NEW P, NEW b, NEW x, NEW b0, NEW R1, NEW P1, NEW b1, NEW x1,
           PutsFit(plan, d, R, b, b0, k), Outgrows(b0, b),
           Effect(Head(plan), R, P, b, x, R1, P1, b1, x1)
    PROVE  Outgrows(b0, b1)
<1>. DEFINE s == Head(plan)
<1>1. CASE s.op = "chunk"
    <2>1. s \in Puts(plan)
        BY <1>1, TailOps DEF Puts
    <2>2. s.id \in DOMAIN b0 => Outlives(b0[s.id], s.chunk)
        BY <2>1 DEF PutsFit
    <2>3. b1 = [g \in DOMAIN b \cup {s.id} |-> IF g = s.id THEN s.chunk ELSE b[g]]
        BY <1>1 DEF Effect
    <2>. HIDE DEF s
    <2>. QED  BY <2>2, <2>3 DEF Outgrows
<1>2. CASE s.op # "chunk"
    BY <1>2 DEF Effect
<1>. QED  BY <1>1, <1>2

\* So do the chunks that are accounted for, and those that are not stay as few.
LEMMA StaysAccounted ==
    ASSUME NEW plan \in Seq(Steps), plan # <<>>, NEW d \in Nat, NEW k \in Nat,
           NEW R, NEW P \in Proms, NEW b, NEW x, NEW b0, NEW R1, NEW P1, NEW b1, NEW x1,
           IsFiniteSet(DOMAIN b), PutsFit(plan, d, R, b, b0, k), MarkFits(plan, R, P, b),
           Accounted(P) \subseteq DOMAIN b,
           Cardinality((DOMAIN b \ Accounted(P)) \ Owed(plan)) <= k,
           Effect(Head(plan), R, P, b, x, R1, P1, b1, x1)
    PROVE  /\ Accounted(P1) \subseteq DOMAIN b1
           /\ Cardinality((DOMAIN b1 \ Accounted(P1)) \ Owed(Tail(plan))) <= k
<1>. DEFINE s == Head(plan) rest == Tail(plan)
            left == (DOMAIN b \ Accounted(P)) \ Owed(plan)
            left1 == (DOMAIN b1 \ Accounted(P1)) \ Owed(rest)
<1>0. /\ s = plan[1] /\ Len(plan) \in Nat \ {0} /\ Len(rest) = Len(plan) - 1
      /\ DOMAIN plan = 1..Len(plan) /\ DOMAIN rest = 1..Len(rest)
      /\ s \in Ops(plan)
    BY TailOps
<1>1. Ops(plan) = Ops(rest) \cup {s}
    BY TailOps
<1>2. Accounted(P1) \subseteq DOMAIN b1 /\ left1 \subseteq left
    <2>1. CASE s.op = "chunk"
        <3>1. P1 = P /\ DOMAIN b1 = DOMAIN b \cup {s.id}
            BY <2>1 DEF Effect
        <3>2. Owed(rest) = Owed(plan)
            BY <2>1, <1>1 DEF Owed
        <3>3. s \in Puts(plan)
            BY <2>1, <1>0 DEF Puts
        <3>4. s.id \in DOMAIN b \cup Owed(plan)
            BY <3>3 DEF PutsFit
        <3>. QED  BY <3>1, <3>2, <3>4
    <2>2. CASE s.op = "applied"
        <3>1. /\ Len(plan) = 1
              /\ s.prom \in DOMAIN P /\ P[s.prom].status = "reviewed"
              /\ s.id \in DOMAIN b \/ \E t \in Puts(plan): t.id = s.id
            BY <2>2, <1>0 DEF MarkFits
        <3>2. Ops(plan) = {s}
            BY <3>1, <1>0 DEF Ops
        <3>3. s.id \in DOMAIN b
            BY <3>1, <3>2, <2>2 DEF Puts
        <3>4. P1 = [P EXCEPT ![s.prom] = [@ EXCEPT !.status = "applied", !.file = s.id]] /\ b1 = b
            BY <2>2 DEF Effect
        <3>5. Accounted(P1) = Accounted(P) \cup {s.id}
            BY <3>1, <3>4, MarkAccounts
        <3>6. Owed(plan) \subseteq Owed(rest) \cup {s.id}
            BY <1>1 DEF Owed
        <3>. HIDE DEF s, rest
        <3>. QED  BY <3>3, <3>4, <3>5, <3>6
    <2>3. CASE s.op \notin {"chunk", "applied"}
        <3>1. P1 = P /\ b1 = b
            BY <2>3 DEF Effect
        <3>2. Owed(rest) = Owed(plan)
            BY <2>3, <1>1 DEF Owed
        <3>. QED  BY <3>1, <3>2
    <2>. QED  BY <2>1, <2>2, <2>3
<1>3. IsFiniteSet(left)
    BY FS_Subset
<1>4. Cardinality(left1) <= Cardinality(left) /\ Cardinality(left) \in Nat
      /\ Cardinality(left1) \in Nat
    <2>. HIDE DEF left, left1
    <2>. QED  BY <1>2, <1>3, FS_Subset, FS_CardinalityType
<1>. QED  BY <1>2, <1>4

LEMMA CarriedOn ==
    ASSUME NEW plan, NEW d \in Nat, NEW k \in Nat, NEW R \in Records, NEW P \in Proms,
           NEW b, IsBank(b, d), NEW x, NEW b0, NEW R1, NEW P1, NEW b1, NEW x1,
           Underway(plan, d, R, P, b, x, b0, k), Len(plan) > 1,
           Effect(Head(plan), R, P, b, x, R1, P1, b1, x1)
    PROVE  P1 = P /\ Underway(Tail(plan), d, R1, P1, b1, x1, b0, k)
<1>1. /\ plan \in Seq(Steps) /\ plan # <<>> /\ PutsFit(plan, d, R, b, b0, k)
      /\ k = 0 => RestFits(plan, R, b)
      /\ Checked(plan, b, x) /\ MarkFits(plan, R, P, b) /\ Outgrows(b0, b)
      /\ Accounted(P) \subseteq DOMAIN b
      /\ Cardinality((DOMAIN b \ Accounted(P)) \ Owed(plan)) <= k
    BY DEF Underway
<1>2. Tail(plan) \in Seq(Steps) /\ Tail(plan) # <<>>
    <2>1. Tail(plan) \in Seq(Steps) /\ Len(Tail(plan)) = Len(plan) - 1 /\ Len(plan) \in Nat
        BY <1>1, TailOps
    <2>2. Len(<<>>) = 0
        BY EmptySeq
    <2>3. Len(Tail(plan)) # 0
        BY <2>1
    <2>. QED  BY <2>1, <2>2, <2>3
<1>3. PutsFit(Tail(plan), d, R1, b1, b0, k)
    BY <1>1, PutsStayFit
<1>4. k = 0 => RestFits(Tail(plan), R1, b1)
    BY <1>1, RestStaysFit
<1>5. Checked(Tail(plan), b1, x1)
    BY <1>1, StaysChecked
<1>6. P1 = P /\ MarkFits(Tail(plan), R1, P1, b1)
    BY <1>1, MarkStaysFit
<1>7. Outgrows(b0, b1)
    BY <1>1, StaysGrown
<1>8. /\ Accounted(P1) \subseteq DOMAIN b1
      /\ Cardinality((DOMAIN b1 \ Accounted(P1)) \ Owed(Tail(plan))) <= k
    BY <1>1, StaysAccounted DEF IsBank
<1>. QED  BY <1>2, <1>3, <1>4, <1>5, <1>6, <1>7, <1>8 DEF Underway

\* The last step leaves a store that is kept.
LEMMA CarriedOut ==
    ASSUME NEW plan, NEW d \in Nat, NEW k \in Nat, NEW R \in Records, NEW P \in Proms,
           NEW b, IsBank(b, d), NEW x, NEW b0, NEW R1, NEW P1, NEW b1, NEW x1,
           Underway(plan, d, R, P, b, x, b0, k), Len(plan) <= 1,
           Effect(Head(plan), R, P, b, x, R1, P1, b1, x1)
    PROVE  Kept(R1, P1, b1, x1, k) /\ Outgrows(b0, b1)
<1>. DEFINE s == Head(plan) rest == Tail(plan)
<1>1. /\ plan \in Seq(Steps) /\ plan # <<>> /\ PutsFit(plan, d, R, b, b0, k)
      /\ k = 0 => RestFits(plan, R, b)
      /\ Checked(plan, b, x) /\ MarkFits(plan, R, P, b) /\ Outgrows(b0, b)
      /\ Accounted(P) \subseteq DOMAIN b
      /\ Cardinality((DOMAIN b \ Accounted(P)) \ Owed(plan)) <= k
    BY DEF Underway
<1>2. DOMAIN rest = {} /\ s \in Steps
    <2>1. /\ DOMAIN rest = 1..Len(rest) /\ Len(rest) = Len(plan) - 1 /\ Len(plan) \in Nat \ {0}
          /\ s \in Steps
        BY <1>1, TailOps
    <2>. HIDE DEF rest, s
    <2>. QED  BY <2>1
<1>3. Puts(rest) = {} /\ Moved(rest) = {} /\ Owed(rest) = {}
    BY <1>2 DEF Ops, Puts, Moved, Owed
<1>4. Outgrows(b0, b1)
    BY <1>1, StaysGrown
<1>5. /\ Accounted(P1) \subseteq DOMAIN b1
      /\ Cardinality((DOMAIN b1 \ Accounted(P1)) \ Owed(rest)) <= k
    BY <1>1, StaysAccounted DEF IsBank
<1>6. Sound(b1, x1)
    <2>1. Checked(rest, b1, x1)
        BY <1>1, StaysChecked
    <2>. HIDE DEF rest
    <2>. QED  BY <2>1, <1>2 DEF Checked
<1>7. ASSUME k = 0, NEW f \in DOMAIN b1
      PROVE  Cited(b1[f], R1[f[2]].place)
    <2>1. RestFits(rest, R1, b1)
        BY <1>1, <1>7, RestStaysFit
    <2>2. Cited(b1[f], PlaceAfter(rest, R1, f[2]))
        <3>. HIDE DEF rest
        <3>. QED  BY <2>1, <1>3, <1>7 DEF RestFits
    <2>. QED  BY <2>2, <1>3 DEF PlaceAfter
<1>8. (DOMAIN b1 \ Accounted(P1)) \ Owed(rest) = DOMAIN b1 \ Accounted(P1)
    BY <1>3
<1>. QED  BY <1>4, <1>5, <1>6, <1>7, <1>8 DEF Kept

-----------------------------------------------------------------------------
(* A plan is made.                                                         *)

LEMMA SeqOfSet ==
    ASSUME NEW S, IsFiniteSet(S)
    PROVE  SetToSeq(S) \in Seq(S) /\ Ops(SetToSeq(S)) = S
<1>. DEFINE n == Cardinality(S) q == SetToSeq(S)
<1>1. n \in Nat /\ ExistsBijection(1..n, S)
    BY FS_CardinalityType
<1>2. \E f \in [1..n -> S]: IsInjective(f)
    BY <1>1 DEF ExistsBijection, Bijection, Injection
<1>3. q \in [1..n -> S] /\ IsInjective(q)
    BY <1>2 DEF SetToSeq
<1>. HIDE DEF q
<1>4. IsFiniteSet(1..n) /\ Cardinality(1..n) = n
    BY <1>1, FS_Interval
<1>5. q \in Injection(1..n, S)
    BY <1>3 DEF Injection
<1>6. q \in Surjection(1..n, S)
    BY <1>4, <1>5, FS_Injection
<1>7. q \in Seq(S) /\ DOMAIN q = 1..n
    BY <1>1, <1>3
<1>8. \A e \in S: \E m \in 1..n: q[m] = e
    BY <1>6 DEF Surjection
<1>9. Ops(q) = S
    BY <1>3, <1>7, <1>8 DEF Ops
<1>. QED  BY <1>7, <1>9 DEF q

LEMMA OpsOfTwo ==
    ASSUME NEW s \in Seq(Steps), NEW t \in Seq(Steps)
    PROVE  s \o t \in Seq(Steps) /\ Ops(s \o t) = Ops(s) \cup Ops(t)
<1>1. /\ s \o t \in Seq(Steps) /\ Len(s \o t) = Len(s) + Len(t)
      /\ \A n \in 1..Len(s) + Len(t): (s \o t)[n] = IF n <= Len(s) THEN s[n] ELSE t[n - Len(s)]
    BY ConcatProperties
<1>2. /\ DOMAIN s = 1..Len(s) /\ DOMAIN t = 1..Len(t) /\ DOMAIN (s \o t) = 1..Len(s \o t)
      /\ Len(s) \in Nat /\ Len(t) \in Nat
    BY <1>1, LenProperties
<1>3. ASSUME NEW e \in Ops(s \o t)
      PROVE  e \in Ops(s) \cup Ops(t)
    <2>1. PICK n \in DOMAIN (s \o t): (s \o t)[n] = e
        BY DEF Ops
    <2>2. CASE n <= Len(s)
        <3>1. n \in DOMAIN s /\ s[n] = e
            BY <2>1, <2>2, <1>1, <1>2
        <3>. QED  BY <3>1 DEF Ops
    <2>3. CASE n > Len(s)
        <3>1. n - Len(s) \in DOMAIN t /\ t[n - Len(s)] = e
            BY <2>1, <2>3, <1>1, <1>2
        <3>. QED  BY <3>1 DEF Ops
    <2>. QED  BY <2>2, <2>3, <1>1, <1>2
<1>4. ASSUME NEW e \in Ops(s)
      PROVE  e \in Ops(s \o t)
    <2>1. PICK n \in DOMAIN s: s[n] = e
        BY DEF Ops
    <2>2. n \in DOMAIN (s \o t) /\ (s \o t)[n] = e
        BY <2>1, <1>1, <1>2
    <2>. QED  BY <2>2 DEF Ops
<1>5. ASSUME NEW e \in Ops(t)
      PROVE  e \in Ops(s \o t)
    <2>1. PICK n \in DOMAIN t: t[n] = e
        BY DEF Ops
    <2>2. n + Len(s) \in DOMAIN (s \o t) /\ (s \o t)[n + Len(s)] = e
        BY <2>1, <1>1, <1>2
    <2>. QED  BY <2>2 DEF Ops
<1>. QED  BY <1>1, <1>3, <1>4, <1>5

LEMMA GrownFromItself ==
    ASSUME NEW b, NEW d, IsBank(b, d)
    PROVE  Outgrows(b, b)
BY DEF Outgrows, Outlives, IsBank, Chunks

\* A plan that ends with the check, marks no promotion and fits what it finds.
LEMMA EditFits ==
    ASSUME NEW plan \in Seq(Steps), plan # <<>>, plan[Len(plan)].op = "check",
           \A s \in Ops(plan): s.op # "applied",
           NEW d, NEW R, NEW P, NEW b, NEW x, NEW k \in Nat, IsBank(b, d), Kept(R, P, b, x, k),
           \A s \in Puts(plan): /\ s.chunk.verified <= d
                                /\ s.id \in DOMAIN b /\ Outlives(b[s.id], s.chunk)
                                /\ k = 0 => Cited(s.chunk, PlaceAfter(plan, R, s.id[2])),
           k = 0 => RestFits(plan, R, b)
    PROVE  Underway(plan, d, R, P, b, x, b, k)
<1>0. Len(plan) \in Nat \ {0} /\ DOMAIN plan = 1..Len(plan)
    BY EmptySeq, LenProperties
<1>1. PutsFit(plan, d, R, b, b, k)
    BY DEF PutsFit
<1>2. Checked(plan, b, x)
    <2>1. \A m \in DOMAIN plan: ~(m > Len(plan))
        BY <1>0
    <2>. QED  BY <1>0, <2>1 DEF Checked
<1>3. MarkFits(plan, R, P, b)
    BY DEF MarkFits, Ops
<1>4. Outgrows(b, b)
    BY GrownFromItself
<1>5. Owed(plan) = {}
    BY DEF Owed
<1>6. (DOMAIN b \ Accounted(P)) \ Owed(plan) = DOMAIN b \ Accounted(P)
    BY <1>5
<1>7. /\ Accounted(P) \subseteq DOMAIN b
      /\ Cardinality(DOMAIN b \ Accounted(P)) <= k
    BY DEF Kept
<1>. QED  BY <1>1, <1>2, <1>3, <1>4, <1>6, <1>7 DEF Underway

\* Without moves the rest of the bank fits.
LEMMA RestFitsInPlace ==
    ASSUME NEW plan, \A s \in Ops(plan): s.op # "move", NEW R, NEW P, NEW b, NEW x,
           Kept(R, P, b, x, 0)
    PROVE  RestFits(plan, R, b) /\ \A r: PlaceAfter(plan, R, r) = R[r].place
<1>1. Moved(plan) = {}
    BY DEF Moved
<1>2. \A r: PlaceAfter(plan, R, r) = R[r].place
    BY <1>1 DEF PlaceAfter
<1>. QED  BY <1>2 DEF RestFits, Kept

-----------------------------------------------------------------------------
(* What holds in every state.                                              *)

TypesFit == /\ day \in Nat /\ doc \in Nat /\ kills \in Nat
            /\ rec \in Records /\ prom \in Proms /\ IsBank(bank, day)

LEMMA RecordOf ==
    ASSUME rec \in Records, NEW r \in Recs
    PROVE  rec[r].place \in Places /\ rec[r].rev \in Nat
BY DEF Records

LEMMA PromOf ==
    ASSUME prom \in Proms, NEW i \in DOMAIN prom
    PROVE  /\ i \in Nat /\ prom[i].rec \in Recs /\ prom[i].place \in Places
           /\ prom[i].auto \in BOOLEAN
<1>1. /\ DOMAIN prom = 1..Len(prom)
      /\ prom[i] \in Promotions
    BY ElementOfSeq, LenProperties DEF Proms
<1>. QED  BY <1>1 DEF Promotions

LEMMA BankOf ==
    ASSUME IsBank(bank, day), NEW f \in DOMAIN bank
    PROVE  f \in Ids /\ f[2] \in Recs /\ bank[f] \in Chunks /\ bank[f].verified <= day
BY DEF IsBank, Ids

\* apply_promotion.
LEMMA ApplyFits ==
    ASSUME BankAssumption, TypesFit, Kept(rec, prom, bank, index, kills),
           NEW i \in DOMAIN prom, CanApply(i)
    PROVE  Underway(ApplyPlan(i), day, rec, prom, bank, index, bank, kills)
<1>. DEFINE r == prom[i].rec f == <<day, r>> c == ChunkOf(i, f)
            put == Put(f, c) mark == Applied(i, f)
            plan == <<put, Index, Check, mark>>
<1>1. /\ i \in Nat /\ r \in Recs /\ prom[i].place \in Places /\ prom[i].auto \in BOOLEAN
      /\ f \in Ids /\ f[2] = r
    BY PromOf DEF TypesFit, Ids
<1>2. /\ prom[i].status = "reviewed" /\ rec[r].place = prom[i].place
      /\ rec[r].rev = prom[i].rev /\ f \notin DOMAIN bank
    BY DEF CanApply
<1>3. /\ c \in Chunks /\ c.verified = day /\ c.rev = rec[r].rev
      /\ c.place = prom[i].place /\ c.digested = prom[i].place
    <2>1. rec[r].rev \in Nat
        BY <1>1, RecordOf DEF TypesFit
    <2>2. day + ReviewDays \in Nat
        BY DEF BankAssumption, TypesFit
    <2>. QED  BY <1>1, <1>2, <2>1, <2>2 DEF ChunkOf, Digested, Chunks, TypesFit, Never, NoOne
<1>. HIDE DEF c
<1>4. put \in Steps /\ Index \in Steps /\ Check \in Steps /\ mark \in Steps
    BY <1>1, <1>3 DEF Put, Index, Check, Applied, Steps
<1>5. /\ put.op = "chunk" /\ put.id = f /\ put.chunk = c /\ Index.op = "index"
      /\ Check.op = "check" /\ mark.op = "applied" /\ mark.id = f /\ mark.prom = i
    BY DEF Put, Index, Check, Applied
<1>. HIDE DEF put, mark, f, r
<1>6. /\ plan \in Seq(Steps) /\ plan # <<>> /\ DOMAIN plan = 1..4 /\ Len(plan) = 4
      /\ plan[1] = put /\ plan[2] = Index /\ plan[3] = Check /\ plan[4] = mark
    BY <1>4
<1>. HIDE DEF plan
<1>7. Ops(plan) = {put, Index, Check, mark}
    BY <1>6 DEF Ops
<1>8. Puts(plan) = {put} /\ Moved(plan) = {} /\ Owed(plan) = {f}
    BY <1>5, <1>7 DEF Puts, Moved, Owed
<1>9. Quotes(c, prom, rec, i)
    BY <1>2, <1>3 DEF Quotes, r
<1>10. PutsFit(plan, day, rec, bank, bank, kills)
    <2>1. PlaceAfter(plan, rec, f[2]) = rec[r].place
        BY <1>1, <1>8 DEF PlaceAfter
    <2>2. Cited(c, rec[r].place)
        BY <1>2, <1>3 DEF Cited
    <2>3. c.verified <= day
        BY <1>3 DEF TypesFit
    <2>. QED  BY <1>2, <1>5, <1>8, <2>1, <2>2, <2>3 DEF PutsFit
<1>11. kills = 0 => RestFits(plan, rec, bank)
    BY <1>8 DEF RestFits, PlaceAfter, Kept
<1>12. Checked(plan, bank, index)
    <2>1. plan[3].op = "check" /\ \A m \in 1..4: m > 3 => plan[m].op = "applied"
        BY <1>5, <1>6
    <2>. QED  BY <2>1, <1>6 DEF Checked
<1>13. MarkFits(plan, rec, prom, bank)
    <2>1. \A n \in DOMAIN plan: plan[n].op = "applied" => n = 4 /\ plan[n] = mark
        BY <1>5, <1>6
    <2>. QED  BY <2>1, <1>2, <1>5, <1>6, <1>8, <1>9 DEF MarkFits
<1>14. Outgrows(bank, bank)
    BY GrownFromItself DEF TypesFit
<1>15. /\ Accounted(prom) \subseteq DOMAIN bank
       /\ Cardinality((DOMAIN bank \ Accounted(prom)) \ Owed(plan)) <= kills
    <2>1. /\ Accounted(prom) \subseteq DOMAIN bank
          /\ Cardinality(DOMAIN bank \ Accounted(prom)) <= kills
        BY DEF Kept
    <2>2. (DOMAIN bank \ Accounted(prom)) \ Owed(plan) = DOMAIN bank \ Accounted(prom)
        BY <1>2, <1>8 DEF f, r
    <2>. QED  BY <2>1, <2>2
<1>16. Underway(plan, day, rec, prom, bank, index, bank, kills)
    BY <1>6, <1>10, <1>11, <1>12, <1>13, <1>14, <1>15 DEF Underway
<1>. QED  BY <1>16 DEF ApplyPlan, plan, put, mark, c, f, r

LEMMA StepsOf ==
    ASSUME NEW f \in Ids, NEW c \in Chunks
    PROVE  /\ Put(f, c) \in Steps /\ Index \in Steps /\ Check \in Steps
           /\ <<Put(f, c)>> \in Seq(Steps) /\ Ops(<<Put(f, c)>>) = {Put(f, c)}
           /\ <<Index, Check>> \in Seq(Steps) /\ <<Index, Check>> # <<>>
           /\ <<Index, Check>>[Len(<<Index, Check>>)] = Check
           /\ Ops(<<Index, Check>>) = {Index, Check}
<1>1. Put(f, c) \in Steps /\ Index \in Steps /\ Check \in Steps
    BY DEF Put, Index, Check, Steps
<1>. QED  BY <1>1 DEF Ops

LEMMA LastOfTwo ==
    ASSUME NEW s \in Seq(Steps), NEW t \in Seq(Steps), t # <<>>
    PROVE  s \o t # <<>> /\ (s \o t)[Len(s \o t)] = t[Len(t)]
<1>1. Len(t) \in Nat \ {0} /\ Len(s) \in Nat
    BY EmptySeq, LenProperties
<1>2. /\ s \o t \in Seq(Steps) /\ Len(s \o t) = Len(s) + Len(t)
      /\ \A n \in 1..Len(s) + Len(t): (s \o t)[n] = IF n <= Len(s) THEN s[n] ELSE t[n - Len(s)]
    BY ConcatProperties
<1>3. (s \o t)[Len(s) + Len(t)] = t[Len(t)]
    BY <1>1, <1>2
<1>4. Len(<<>>) = 0
    BY EmptySeq
<1>. QED  BY <1>1, <1>2, <1>3, <1>4

\* A plan of a put or two, and of the index and the check.
LEMMA LinkFits ==
    ASSUME TypesFit, Kept(rec, prom, bank, index, kills),
           NEW f \in DOMAIN bank, NEW c \in Chunks, NEW g \in DOMAIN bank, NEW e \in Chunks,
           c.verified <= day, Outlives(bank[f], c), e.verified <= day, Outlives(bank[g], e),
           kills = 0 => Cited(c, rec[f[2]].place) /\ Cited(e, rec[g[2]].place),
           NEW plan \in Seq(Steps), plan # <<>>, plan[Len(plan)] = Check,
           Ops(plan) \subseteq {Put(f, c), Put(g, e), Index, Check}
    PROVE  Underway(plan, day, rec, prom, bank, index, bank, kills)
<1>1. /\ Put(f, c).op = "chunk" /\ Put(f, c).id = f /\ Put(f, c).chunk = c
      /\ Put(g, e).op = "chunk" /\ Put(g, e).id = g /\ Put(g, e).chunk = e
      /\ Index.op = "index" /\ Check.op = "check"
    BY DEF Put, Index, Check
<1>2. \A s \in Ops(plan): s.op # "applied" /\ s.op # "move"
    BY <1>1
<1>3. kills = 0 => RestFits(plan, rec, bank) /\ \A r: PlaceAfter(plan, rec, r) = rec[r].place
    BY <1>2, RestFitsInPlace
<1>4. \A s \in Puts(plan): /\ s.chunk.verified <= day
                           /\ s.id \in DOMAIN bank /\ Outlives(bank[s.id], s.chunk)
                           /\ kills = 0 => Cited(s.chunk, PlaceAfter(plan, rec, s.id[2]))
    <2>1. \A s \in Puts(plan): s \in {Put(f, c), Put(g, e)}
        BY <1>1 DEF Puts
    <2>. QED  BY <2>1, <1>1, <1>3
<1>. QED  BY <1>1, <1>2, <1>3, <1>4, EditFits DEF TypesFit

\* A put, what else is linked to it, the index and the check.
LEMMA ClosedFits ==
    ASSUME TypesFit, Kept(rec, prom, bank, index, kills),
           NEW f \in DOMAIN bank, NEW c \in Chunks, NEW g \in DOMAIN bank, NEW e \in Chunks,
           c.verified <= day, Outlives(bank[f], c), e.verified <= day, Outlives(bank[g], e),
           kills = 0 => Cited(c, rec[f[2]].place) /\ Cited(e, rec[g[2]].place),
           NEW links \in Seq(Steps), Ops(links) \subseteq {Put(g, e)}
    PROVE  Underway(<<Put(f, c)>> \o links \o <<Index, Check>>,
                    day, rec, prom, bank, index, bank, kills)
<1>1. f \in Ids
    BY BankOf DEF TypesFit
<1>2. /\ <<Put(f, c)>> \in Seq(Steps) /\ Ops(<<Put(f, c)>>) = {Put(f, c)}
      /\ <<Index, Check>> \in Seq(Steps) /\ <<Index, Check>> # <<>>
      /\ <<Index, Check>>[Len(<<Index, Check>>)] = Check
      /\ Ops(<<Index, Check>>) = {Index, Check}
    BY <1>1, StepsOf
<1>3. PICK first \in Seq(Steps): first = <<Put(f, c)>>
    BY <1>2
<1>4. PICK last \in Seq(Steps): last = <<Index, Check>>
    BY <1>2
<1>5. /\ first \o links \in Seq(Steps)
      /\ Ops(first \o links) = Ops(first) \cup Ops(links)
    BY OpsOfTwo
<1>6. PICK start \in Seq(Steps): start = first \o links
    BY <1>5
<1>7. /\ start \o last \in Seq(Steps)
      /\ Ops(start \o last) = Ops(start) \cup Ops(last)
    BY OpsOfTwo
<1>8. last # <<>> /\ last[Len(last)] = Check /\ Ops(last) = {Index, Check} /\ Ops(first) = {Put(f, c)}
    BY <1>2, <1>3, <1>4
<1>9. start \o last # <<>> /\ (start \o last)[Len(start \o last)] = Check
    BY <1>8, LastOfTwo
<1>10. Ops(start \o last) \subseteq {Put(f, c), Put(g, e), Index, Check}
    BY <1>5, <1>6, <1>7, <1>8
<1>11. PICK plan \in Seq(Steps): plan = start \o last
    BY <1>7
<1>12. Underway(plan, day, rec, prom, bank, index, bank, kills)
    <2>1. plan # <<>> /\ plan[Len(plan)] = Check /\ Ops(plan) \subseteq {Put(f, c), Put(g, e), Index, Check}
        BY <1>9, <1>10, <1>11
    <2>. QED  BY <2>1, LinkFits
<1>. QED  BY <1>3, <1>4, <1>6, <1>11, <1>12

\* retire_chunk.
LEMMA RetireFits ==
    ASSUME BankAssumption, TypesFit, Kept(rec, prom, bank, index, kills),
           NEW f \in DOMAIN bank, NEW g \in DOMAIN bank \cup {NoOne}, NEW to \in 1..LastDay,
           NEW closed, closed = [bank[f] EXCEPT !.status = IF g = NoOne THEN "archived" ELSE "superseded",
                                                !.by = g, !.to = to],
           NEW links, links = IF g = NoOne THEN <<>> ELSE <<Put(g, [bank[g] EXCEPT !.sup = @ \cup {f}])>>
    PROVE  Underway(<<Put(f, closed)>> \o links \o <<Index, Check>>,
                    day, rec, prom, bank, index, bank, kills)
<1>1. f \in Ids /\ bank[f] \in Chunks /\ bank[f].verified <= day /\ bank[f].verified \in Nat
    BY BankOf DEF TypesFit, Chunks
<1>2. to \in Nat /\ g \in Ids \cup {NoOne}
    BY BankOf DEF BankAssumption, TypesFit
<1>3. /\ closed \in Chunks /\ closed.status # "active" /\ closed.auto = bank[f].auto
      /\ closed.verified = bank[f].verified
      /\ closed.place = bank[f].place /\ closed.digested = bank[f].digested
    BY <1>1, <1>2 DEF Chunks
<1>4. closed.verified <= day /\ Outlives(bank[f], closed)
    BY <1>1, <1>3 DEF Outlives
<1>5. kills = 0 => Cited(closed, rec[f[2]].place)
    BY <1>3 DEF Kept, Cited
<1>6. CASE g = NoOne
    <2>1. links \in Seq(Steps) /\ Ops(links) \subseteq {Put(f, closed)}
        BY <1>6 DEF Ops
    <2>. QED  BY <2>1, <1>3, <1>4, <1>5, ClosedFits
<1>7. CASE g # NoOne
    <2>. DEFINE e == [bank[g] EXCEPT !.sup = @ \cup {f}]
    <2>1. /\ g \in DOMAIN bank /\ g \in Ids /\ bank[g] \in Chunks
          /\ bank[g].verified <= day /\ bank[g].verified \in Nat
        BY <1>7, BankOf DEF TypesFit, Chunks
    <2>2. /\ e \in Chunks /\ e.status = bank[g].status /\ e.auto = bank[g].auto
          /\ e.verified = bank[g].verified
          /\ e.place = bank[g].place /\ e.digested = bank[g].digested
        BY <1>1, <2>1 DEF Chunks
    <2>3. links = <<Put(g, e)>>
        BY <1>7
    <2>. HIDE DEF e
    <2>4. links \in Seq(Steps) /\ Ops(links) = {Put(g, e)}
        BY <2>1, <2>2, <2>3, StepsOf
    <2>5. e.verified <= day /\ Outlives(bank[g], e)
        BY <2>1, <2>2 DEF Outlives
    <2>6. kills = 0 => Cited(e, rec[g[2]].place)
        BY <2>1, <2>2 DEF Kept, Cited
    <2>7. kills = 0 => Cited(closed, rec[f[2]].place) /\ Cited(e, rec[g[2]].place)
        BY <2>6, <1>5
    <2>8. PICK n \in Seq(Steps): n = links
        BY <2>4
    <2>9. Underway(<<Put(f, closed)>> \o n \o <<Index, Check>>,
                   day, rec, prom, bank, index, bank, kills)
        <3>1. Ops(n) \subseteq {Put(g, e)}
            BY <2>4, <2>8
        <3>. QED  BY <3>1, <2>1, <2>2, <2>5, <2>7, <1>3, <1>4, ClosedFits
    <2>. QED  BY <2>8, <2>9
<1>. QED  BY <1>6, <1>7

\* reverify_chunk.
LEMMA ReverifyFits ==
    ASSUME BankAssumption, TypesFit, Kept(rec, prom, bank, index, kills),
           NEW f \in DOMAIN bank, bank[f].status = "active"
    PROVE  Underway(<<Put(f, Reverified(f)), Index, Check>>,
                    day, rec, prom, bank, index, bank, kills)
<1>. DEFINE c == Reverified(f)
<1>1. /\ f \in Ids /\ f[2] \in Recs /\ bank[f] \in Chunks
      /\ bank[f].verified <= day /\ bank[f].verified \in Nat
    BY BankOf DEF TypesFit, Chunks
<1>2. rec[f[2]].rev \in Nat /\ day + ReviewDays \in Nat
    BY <1>1, RecordOf DEF BankAssumption, TypesFit
<1>3. /\ c \in Chunks /\ c.status = bank[f].status /\ c.auto = bank[f].auto /\ c.verified = day
      /\ c.place = bank[f].place
      /\ bank[f].place = rec[f[2]].place => c.digested = bank[f].place
    BY <1>1, <1>2 DEF Reverified, Digested, Chunks, TypesFit, Never
<1>. HIDE DEF c
<1>4. c.verified <= day /\ Outlives(bank[f], c)
    BY <1>1, <1>3 DEF Outlives, TypesFit
<1>5. kills = 0 => Cited(c, rec[f[2]].place)
    BY <1>3 DEF Kept, Cited
<1>6. /\ <<Put(f, c), Index, Check>> \in Seq(Steps) /\ <<Put(f, c), Index, Check>> # <<>>
      /\ <<Put(f, c), Index, Check>>[Len(<<Put(f, c), Index, Check>>)] = Check
      /\ Ops(<<Put(f, c), Index, Check>>) = {Put(f, c), Index, Check}
    <2>1. Put(f, c) \in Steps /\ Index \in Steps /\ Check \in Steps
        BY <1>1, <1>3, StepsOf
    <2>. QED  BY <2>1 DEF Ops
<1>7. Underway(<<Put(f, c), Index, Check>>, day, rec, prom, bank, index, bank, kills)
    BY <1>3, <1>4, <1>5, <1>6, LinkFits
<1>. QED  BY <1>7 DEF c

\* compact.
Moves == {Move(r): r \in Movable}
Rewrites == {Put(f, Repointed(bank[f])): f \in Citing(Movable)}

LEMMA CompactSets ==
    ASSUME BankAssumption, TypesFit
    PROVE  /\ IsFiniteSet(Moves) /\ Moves \subseteq Steps
           /\ IsFiniteSet(Rewrites) /\ Rewrites \subseteq Steps
<1>1. IsFiniteSet(Movable) /\ IsFiniteSet(Citing(Movable))
    <2>1. Movable \in SUBSET Recs /\ Citing(Movable) \in SUBSET DOMAIN bank
        BY DEF Movable, Citing
    <2>2. IsFiniteSet(Recs) /\ IsFiniteSet(DOMAIN bank)
        BY DEF BankAssumption, TypesFit, IsBank
    <2>. QED  BY <2>1, <2>2, FS_Subset
<1>2. IsFiniteSet(Moves)
    <2>. DEFINE m == [r \in Movable |-> Move(r)]
    <2>1. m \in Surjection(Movable, Moves)
        BY DEF Surjection, Moves
    <2>. QED  BY <2>1, <1>1, FS_Surjection
<1>3. IsFiniteSet(Rewrites)
    <2>. DEFINE m == [f \in Citing(Movable) |-> Put(f, Repointed(bank[f]))]
    <2>1. m \in Surjection(Citing(Movable), Rewrites)
        BY DEF Surjection, Rewrites
    <2>. QED  BY <2>1, <1>1, FS_Surjection
<1>4. Moves \subseteq Steps
    BY DEF Moves, Movable, Move, Steps
<1>5. ASSUME NEW f \in Citing(Movable)
      PROVE  Put(f, Repointed(bank[f])) \in Steps
    <2>1. f \in DOMAIN bank /\ f \in Ids /\ bank[f] \in Chunks
        BY BankOf DEF Citing, TypesFit
    <2>2. Repointed(bank[f]) \in Chunks
        BY <2>1 DEF Repointed, Chunks, Places
    <2>. QED  BY <2>1, <2>2, StepsOf
<1>. QED  BY <1>2, <1>3, <1>4, <1>5 DEF Rewrites

LEMMA CompactFits ==
    ASSUME BankAssumption, TypesFit, Kept(rec, prom, bank, index, kills)
    PROVE  Underway(CompactPlan, day, rec, prom, bank, index, bank, kills)
<1>1. PICK s \in Seq(Steps): s = SetToSeq(Moves) /\ Ops(s) = Moves
    <2>1. SetToSeq(Moves) \in Seq(Moves) /\ Ops(SetToSeq(Moves)) = Moves
        BY CompactSets, SeqOfSet
    <2>2. SetToSeq(Moves) \in Seq(Steps)
        BY <2>1, CompactSets
    <2>. QED  BY <2>1, <2>2
<1>2. PICK t \in Seq(Steps): t = SetToSeq(Rewrites) /\ Ops(t) = Rewrites
    <2>1. SetToSeq(Rewrites) \in Seq(Rewrites) /\ Ops(SetToSeq(Rewrites)) = Rewrites
        BY CompactSets, SeqOfSet
    <2>2. SetToSeq(Rewrites) \in Seq(Steps)
        BY <2>1, CompactSets
    <2>. QED  BY <2>1, <2>2
<1>3. PICK last \in Seq(Steps): last = <<Check>> /\ last # <<>> /\ last[Len(last)] = Check
                                /\ Ops(last) = {Check}
    <2>1. Check \in Steps
        BY DEF Check, Steps
    <2>2. <<Check>> \in Seq(Steps) /\ <<Check>> # <<>> /\ <<Check>>[Len(<<Check>>)] = Check
        BY <2>1
    <2>3. Ops(<<Check>>) = {Check}
        BY DEF Ops
    <2>. QED  BY <2>2, <2>3
<1>4. PICK both \in Seq(Steps): both = s \o t /\ Ops(both) = Moves \cup Rewrites
    <2>1. s \o t \in Seq(Steps) /\ Ops(s \o t) = Ops(s) \cup Ops(t)
        BY OpsOfTwo
    <2>. QED  BY <2>1, <1>1, <1>2
<1>5. both \o last \in Seq(Steps) /\ Ops(both \o last) = Ops(both) \cup Ops(last)
    BY OpsOfTwo
<1>6. both \o last # <<>> /\ (both \o last)[Len(both \o last)] = last[Len(last)]
    BY <1>3, LastOfTwo
<1>7. PICK plan \in Seq(Steps): /\ plan = both \o last /\ plan # <<>>
                                /\ plan[Len(plan)] = Check
                                /\ Ops(plan) = Moves \cup Rewrites \cup {Check}
    BY <1>3, <1>4, <1>5, <1>6
<1>8. /\ \A r: Move(r).op = "move" /\ Move(r).rec = r
      /\ \A f, c: Put(f, c).op = "chunk" /\ Put(f, c).id = f /\ Put(f, c).chunk = c
      /\ Check.op = "check"
    BY DEF Move, Put, Check
<1>9. Puts(plan) = Rewrites
    BY <1>7, <1>8 DEF Puts, Moves, Rewrites
<1>10. Moved(plan) = Movable
    <2>1. ASSUME NEW r \in Movable
          PROVE  r \in Moved(plan)
        <3>1. Move(r) \in Ops(plan)
            BY <1>7 DEF Moves
        <3>. QED  BY <3>1, <1>8 DEF Moved
    <2>2. ASSUME NEW r \in Moved(plan)
          PROVE  r \in Movable
        <3>1. PICK e \in Ops(plan): e.op = "move" /\ r = e.rec
            BY DEF Moved
        <3>2. e \in Moves
            BY <3>1, <1>7, <1>8 DEF Rewrites
        <3>. QED  BY <3>1, <3>2, <1>8 DEF Moves
    <2>. QED  BY <2>1, <2>2
<1>11. \A e \in Ops(plan): e.op # "applied"
    BY <1>7, <1>8 DEF Moves, Rewrites
<1>12. ASSUME NEW e \in Puts(plan)
       PROVE  /\ e.chunk.verified <= day
              /\ e.id \in DOMAIN bank /\ Outlives(bank[e.id], e.chunk)
              /\ kills = 0 => Cited(e.chunk, PlaceAfter(plan, rec, e.id[2]))
    <2>1. PICK f \in Citing(Movable): e = Put(f, Repointed(bank[f]))
        BY <1>9 DEF Rewrites
    <2>2. e.id = f /\ e.chunk = Repointed(bank[f])
        BY <2>1, <1>8
    <2>3. /\ f \in DOMAIN bank /\ f[2] \in Movable /\ bank[f].place = "dynamic"
          /\ bank[f] \in Chunks /\ bank[f].verified <= day /\ bank[f].verified \in Nat
        BY BankOf DEF Citing, TypesFit, Chunks
    <2>4. PlaceAfter(plan, rec, f[2]) = "archive"
        BY <2>3, <1>10 DEF PlaceAfter
    <2>5. /\ e.chunk.verified = bank[f].verified /\ e.chunk.auto = bank[f].auto
          /\ e.chunk.status = bank[f].status /\ e.chunk.place = "archive"
          /\ bank[f].digested = "dynamic" => e.chunk.digested = "archive"
        BY <2>2, <2>3 DEF Repointed, Chunks
    <2>6. kills = 0 => bank[f].digested = "dynamic"
        BY <2>3 DEF Kept, Cited
    <2>. QED  BY <2>2, <2>3, <2>4, <2>5, <2>6 DEF Outlives, Cited
<1>13. kills = 0 => RestFits(plan, rec, bank)
    <2>1. ASSUME kills = 0, NEW f \in DOMAIN bank
          PROVE  \/ \E e \in Puts(plan): e.id = f
                 \/ Cited(bank[f], PlaceAfter(plan, rec, f[2]))
        <3>1. Cited(bank[f], rec[f[2]].place)
            BY <2>1 DEF Kept
        <3>2. CASE f[2] \in Movable
            <4>1. f \in Citing(Movable)
                BY <3>1, <3>2 DEF Citing, Movable, Cited
            <4>2. Put(f, Repointed(bank[f])) \in Puts(plan)
                BY <4>1, <1>9 DEF Rewrites
            <4>. QED  BY <4>2, <1>8
        <3>3. CASE f[2] \notin Movable
            BY <3>1, <3>3, <1>10 DEF PlaceAfter
        <3>. QED  BY <3>2, <3>3
    <2>. QED  BY <2>1 DEF RestFits
<1>14. Underway(plan, day, rec, prom, bank, index, bank, kills)
    <2>1. plan[Len(plan)].op = "check"
        BY <1>7, <1>8
    <2>. QED  BY <2>1, <1>7, <1>11, <1>12, <1>13, EditFits DEF TypesFit
<1>15. plan = CompactPlan
    <2>1. CompactPlan = SetToSeq(Moves) \o SetToSeq(Rewrites) \o <<Check>>
        BY Zenon DEF CompactPlan, Moves, Rewrites
    <2>. QED  BY <2>1, <1>1, <1>2, <1>3, <1>4, <1>7
<1>. QED  BY <1>14, <1>15

-----------------------------------------------------------------------------
(* The invariant.                                                          *)

\* A process is at a point of its command or turn, what it is about to create is
\* a promotion, and those that its turn still has to handle exist.
DoingFits(c, P) ==
    /\ c \in [at: {"idle", "retry", "pick", "create", "review", "apply", "write"},
              todo: {c.todo}, texts: {c.texts}, left: {c.left}, cur: {c.cur},
              plan: {c.plan}, then: {"idle", "retry", "pick"}]
    /\ c.at \in {"review", "apply"} => c.cur \in DOMAIN P
    /\ c.at = "create" => Head(c.plan) \in Promotions /\ Head(c.plan).status = "proposed"
    /\ c.at = "retry" \/ (c.at # "pick" /\ c.then = "retry") => \A t \in c.todo: t[1] \in DOMAIN P

DoingsFit == /\ proc = [p \in Procs |-> proc[p]]
             /\ \A p \in Procs: DoingFits(proc[p], prom)

LockFits == /\ lock \in Procs \cup {Free}
            /\ \A p \in Procs: lock = p <=> proc[p].at = "write"

\* The holder of the lock can put back the store that it found, and what is left
\* of its plan makes of the present one a store that is kept again.
Held(u, plan, d, R, P, b, x, k) ==
    /\ u = <<u[1], P, u[3], u[4]>> /\ u[1] \in Records /\ IsBank(u[3], d)
    /\ Kept(u[1], P, u[3], u[4], k)
    /\ Underway(plan, d, R, P, b, x, u[3], k)

StoreFits == /\ lock = Free => Kept(rec, prom, bank, index, kills)
             /\ lock # Free => Held(undo, proc[lock].plan, day, rec, prom, bank, index, kills)

BankInv == TypesFit /\ DoingsFit /\ LockFits /\ StoreFits

-----------------------------------------------------------------------------
(* Days and kills.                                                         *)

LEMMA NextDay ==
    ASSUME NEW u, NEW plan, NEW d \in Nat, NEW R, NEW P, NEW b, NEW x, NEW k, IsBank(b, d)
    PROVE  /\ IsBank(b, d + 1)
           /\ Held(u, plan, d, R, P, b, x, k) => Held(u, plan, d + 1, R, P, b, x, k)
<1>1. ASSUME NEW e, IsBank(e, d)
      PROVE  IsBank(e, d + 1)
    <2>1. \A f \in DOMAIN e: e[f].verified \in Nat
        BY <1>1 DEF IsBank, Chunks
    <2>. QED  BY <1>1, <2>1 DEF IsBank
<1>2. ASSUME Held(u, plan, d, R, P, b, x, k)
      PROVE  Held(u, plan, d + 1, R, P, b, x, k)
    <2>1. plan \in Seq(Steps) /\ PutsFit(plan, d, R, b, u[3], k)
        BY <1>2 DEF Held, Underway
    <2>2. \A s \in Puts(plan): s.chunk.verified \in Nat
        <3>1. \A s \in Puts(plan): s \in Steps /\ s.op = "chunk"
            BY <2>1, ElementOfSeq, LenProperties DEF Puts, Ops
        <3>. QED  BY <3>1, StepTypes DEF Chunks
    <2>3. PutsFit(plan, d + 1, R, b, u[3], k)
        BY <2>1, <2>2 DEF PutsFit
    <2>4. Underway(plan, d + 1, R, P, b, x, u[3], k)
        BY <1>2, <2>3 DEF Held, Underway
    <2>5. IsBank(u[3], d + 1)
        BY <1>1, <1>2 DEF Held
    <2>. QED  BY <1>2, <2>4, <2>5 DEF Held
<1>. QED  BY <1>1, <1>2

LEMMA OneMoreKill ==
    ASSUME NEW d \in Nat, NEW R, NEW P, NEW b, NEW x, NEW k \in Nat, IsBank(b, d)
    PROVE  /\ Kept(R, P, b, x, k) => Kept(R, P, b, x, k + 1)
           /\ \A u, plan: Held(u, plan, d, R, P, b, x, k) => Held(u, plan, d, R, P, b, x, k + 1)
           /\ \A u, plan: Held(u, plan, d, R, P, b, x, k) => Kept(R, P, b, x, k + 1)
<1>0. k + 1 # 0 /\ k + 1 \in Nat
    OBVIOUS
<1>1. ASSUME NEW S, NEW e, NEW y, IsBank(e, d), Kept(S, P, e, y, k)
      PROVE  Kept(S, P, e, y, k + 1)
    <2>1. Cardinality(DOMAIN e \ Accounted(P)) \in Nat
        BY <1>1, FS_Difference, FS_CardinalityType DEF IsBank
    <2>2. Cardinality(DOMAIN e \ Accounted(P)) <= k + 1
        BY <1>1, <2>1 DEF Kept
    <2>. QED  BY <1>0, <1>1, <2>2 DEF Kept
<1>2. ASSUME NEW u, NEW plan, Held(u, plan, d, R, P, b, x, k)
      PROVE  /\ Held(u, plan, d, R, P, b, x, k + 1)
             /\ Kept(R, P, b, x, k + 1)
    <2>. DEFINE left == (DOMAIN b \ Accounted(P)) \ Owed(plan)
    <2>1. /\ PutsFit(plan, d, R, b, u[3], k) /\ plan \in Seq(Steps)
          /\ MarkFits(plan, R, P, b) /\ Accounted(P) \subseteq DOMAIN b
          /\ Cardinality(left) <= k
        BY <1>2 DEF Held, Underway
    <2>2. PutsFit(plan, d, R, b, u[3], k + 1)
        BY <1>0, <2>1 DEF PutsFit
    <2>3. IsFiniteSet(left) /\ Cardinality(left) \in Nat
        <3>1. IsFiniteSet(left)
            BY FS_Subset DEF IsBank
        <3>. QED  BY <3>1, FS_CardinalityType
    <2>4. Cardinality(left) <= k + 1
        BY <2>1, <2>3
    <2>5. Underway(plan, d, R, P, b, x, u[3], k + 1)
        <3>. HIDE DEF left
        <3>1. Cardinality((DOMAIN b \ Accounted(P)) \ Owed(plan)) <= k + 1
            BY <2>4 DEF left
        <3>. QED  BY <1>0, <1>2, <2>2, <3>1 DEF Held, Underway
    <2>6. Kept(u[1], P, u[3], u[4], k + 1)
        BY <1>1, <1>2 DEF Held
    <2>7. Held(u, plan, d, R, P, b, x, k + 1)
        BY <1>2, <2>5, <2>6 DEF Held
    <2>8. DOMAIN b \ Accounted(P) \subseteq left \cup {plan[Len(plan)].id}
        BY <2>1, OneOwed
    <2>9. Cardinality(DOMAIN b \ Accounted(P)) <= k + 1
        <3>. HIDE DEF left
        <3>1. PICK last: last = plan[Len(plan)].id
            OBVIOUS
        <3>2. /\ IsFiniteSet(left \cup {last})
              /\ Cardinality(left \cup {last}) \in {Cardinality(left), Cardinality(left) + 1}
            BY <2>3, FS_AddElement
        <3>3. DOMAIN b \ Accounted(P) \in SUBSET (left \cup {last})
            BY <2>8, <3>1
        <3>4. /\ Cardinality(DOMAIN b \ Accounted(P)) <= Cardinality(left \cup {last})
              /\ IsFiniteSet(DOMAIN b \ Accounted(P))
            BY <3>2, <3>3, FS_Subset
        <3>5. Cardinality(DOMAIN b \ Accounted(P)) \in Nat
            BY <3>4, FS_CardinalityType
        <3>. QED  BY <2>1, <2>3, <3>2, <3>4, <3>5 DEF left
    <2>10. Kept(R, P, b, x, k + 1)
        BY <1>0, <2>1, <2>9 DEF Kept
    <2>. QED  BY <2>7, <2>10
<1>. QED  BY <1>1, <1>2

-----------------------------------------------------------------------------
(* Steps that leave the lock alone.                                        *)

\* What a turn does next when nothing but its own state changes.
LEMMA DoingsStayFit ==
    ASSUME BankInv, NEW p \in Procs, NEW c, NEW Q, DOMAIN prom \subseteq DOMAIN Q,
           DoingFits(c, Q), c.at # "write", proc[p].at # "write",
           proc' = [proc EXCEPT ![p] = c], prom' = Q, UNCHANGED lock
    PROVE  DoingsFit' /\ LockFits' /\ (lock # Free => proc[lock]' = proc[lock])
<1>1. /\ proc = [q \in Procs |-> proc[q]] /\ \A q \in Procs: DoingFits(proc[q], prom)
      /\ lock \in Procs \cup {Free} /\ \A q \in Procs: lock = q <=> proc[q].at = "write"
    BY DEF BankInv, DoingsFit, LockFits
<1>2. /\ proc' = [q \in Procs |-> proc'[q]] /\ proc'[p] = c
      /\ \A q \in Procs: q # p => proc'[q] = proc[q]
    BY <1>1
<1>3. \A q \in Procs: DoingFits(proc[q], Q)
    BY <1>1 DEF DoingFits
<1>4. DoingsFit'
    BY <1>2, <1>3 DEF DoingsFit
<1>5. LockFits'
    BY <1>1, <1>2 DEF LockFits
<1>6. lock # Free => proc'[lock] = proc[lock]
    BY <1>1, <1>2
<1>. QED  BY <1>4, <1>5, <1>6

LEMMA DoingsSame ==
    ASSUME BankInv, NEW Q, DOMAIN prom \subseteq DOMAIN Q, prom' = Q, UNCHANGED <<lock, proc>>
    PROVE  DoingsFit' /\ LockFits'
<1>1. \A q \in Procs: DoingFits(proc[q], Q)
    BY DEF BankInv, DoingsFit, DoingFits
<1>2. DoingsFit'
    BY <1>1 DEF BankInv, DoingsFit
<1>3. LockFits'
    BY DEF BankInv, LockFits
<1>. QED  BY <1>2, <1>3

\* The store and the holder of the lock are as they were.
LEMMA StoreSame ==
    ASSUME BankInv, UNCHANGED <<day, doc, files, lock, undo, kills>>,
           lock # Free => proc[lock]' = proc[lock]
    PROVE  TypesFit' /\ StoreFits'
<1>1. TypesFit'
    BY DEF BankInv, TypesFit, files
<1>2. StoreFits'
    BY DEF BankInv, StoreFits, files
<1>. QED  BY <1>1, <1>2

LEMMA TickFits ==
    ASSUME BankInv, Tick
    PROVE  BankInv'
<1>0. day \in Nat /\ IsBank(bank, day) /\ day' = day + 1
    BY DEF BankInv, TypesFit, Tick
<1>1. UNCHANGED <<doc, rec, prom, bank, index, lock, undo, proc, kills>>
    BY DEF Tick, files, bounds
<1>2. IsBank(bank, day + 1)
    BY <1>0, NextDay
<1>3. TypesFit'
    BY <1>0, <1>1, <1>2 DEF BankInv, TypesFit
<1>4. ASSUME lock # Free
      PROVE  Held(undo, proc[lock].plan, day + 1, rec, prom, bank, index, kills)
    <2>1. Held(undo, proc[lock].plan, day, rec, prom, bank, index, kills)
        BY <1>4 DEF BankInv, StoreFits
    <2>. QED  BY <2>1, <1>0, NextDay
<1>5. StoreFits'
    BY <1>0, <1>1, <1>4 DEF BankInv, StoreFits
<1>6. DoingsFit' /\ LockFits'
    BY <1>1, DoingsSame
<1>. QED  BY <1>3, <1>5, <1>6 DEF BankInv

LEMMA ChangeDocFits ==
    ASSUME BankInv, ChangeDoc
    PROVE  BankInv'
<1>1. UNCHANGED <<day, rec, prom, bank, index, lock, undo, proc, kills>>
    BY DEF ChangeDoc, files, bounds
<1>2. doc' \in Nat
    BY DEF BankInv, TypesFit, ChangeDoc, Never
<1>3. TypesFit'
    BY <1>1, <1>2 DEF BankInv, TypesFit
<1>4. StoreFits'
    BY <1>1 DEF BankInv, StoreFits
<1>5. DoingsFit' /\ LockFits'
    BY <1>1, DoingsSame
<1>. QED  BY <1>3, <1>4, <1>5 DEF BankInv

LEMMA UpdateRecordFits ==
    ASSUME BankInv, NEW r \in Recs, NEW status \in {"open", "resolved"}, UpdateRecord(r, status)
    PROVE  BankInv'
<1>1. /\ lock = Free /\ UNCHANGED <<day, doc, prom, bank, index, lock, undo, proc, kills>>
      /\ rec' = [rec EXCEPT ![r].status = status, ![r].rev = @ + 1, ![r].seen = doc]
    BY DEF UpdateRecord, bounds
<1>2. rec \in Records /\ doc \in Nat
    BY DEF BankInv, TypesFit
<1>3. rec[r] \in [place: Places, status: {"open", "resolved"}, rev: Nat, seen: Nat]
    BY <1>2 DEF Records
<1>4. /\ rec' = [q \in Recs |-> rec'[q]] /\ \A q \in Recs: q # r => rec'[q] = rec[q]
      /\ rec'[r] \in [place: Places, status: {"open", "resolved"}, rev: Nat, seen: Nat]
      /\ rec'[r].place = rec[r].place
    <2>1. rec = [q \in Recs |-> rec[q]]
        BY <1>2 DEF Records
    <2>2. /\ rec' = [q \in Recs |-> rec'[q]] /\ \A q \in Recs: q # r => rec'[q] = rec[q]
        BY <1>1, <2>1
    <2>3. rec'[r] = [[[rec[r] EXCEPT !.status = status] EXCEPT !.rev = rec[r].rev + 1] EXCEPT !.seen = doc]
        BY <1>1, <1>3, <2>1
    <2>4. rec'[r] = [place |-> rec[r].place, status |-> status, rev |-> rec[r].rev + 1, seen |-> doc]
        <3>1. PICK c \in [place: Places, status: {"open", "resolved"}, rev: Nat, seen: Nat]: c = rec[r]
            BY <1>3
        <3>. QED  BY <2>3, <3>1
    <2>5. rec[r].place \in Places /\ rec[r].rev + 1 \in Nat
        BY <1>3
    <2>. QED  BY <1>2, <2>2, <2>4, <2>5
<1>5. rec' \in Records /\ \A q \in Recs: rec'[q].place = rec[q].place
    BY <1>2, <1>3, <1>4 DEF Records
<1>6. TypesFit'
    BY <1>1, <1>5 DEF BankInv, TypesFit
<1>7. Kept(rec', prom, bank, index, kills)
    <2>1. Kept(rec, prom, bank, index, kills)
        BY <1>1 DEF BankInv, StoreFits
    <2>2. \A f \in DOMAIN bank: f[2] \in Recs
        BY BankOf DEF BankInv, TypesFit
    <2>. QED  BY <2>1, <2>2, <1>5 DEF Kept
<1>8. StoreFits'
    BY <1>1, <1>7 DEF StoreFits
<1>9. DoingsFit' /\ LockFits'
    BY <1>1, DoingsSame
<1>. QED  BY <1>6, <1>8, <1>9 DEF BankInv

LEMMA ReindexFits ==
    ASSUME BankInv, ReindexBank
    PROVE  BankInv'
<1>1. /\ lock = Free /\ UNCHANGED <<day, doc, rec, prom, bank, lock, undo, proc, kills>>
      /\ index' = Rows(bank)
    BY DEF ReindexBank, bounds
<1>2. TypesFit'
    BY <1>1 DEF BankInv, TypesFit
<1>3. Kept(rec, prom, bank, Rows(bank), kills)
    <2>1. Kept(rec, prom, bank, index, kills)
        BY <1>1 DEF BankInv, StoreFits
    <2>. QED  BY <2>1 DEF Kept, Sound
<1>4. StoreFits'
    BY <1>1, <1>3 DEF StoreFits
<1>5. DoingsFit' /\ LockFits'
    BY <1>1, DoingsSame
<1>. QED  BY <1>2, <1>4, <1>5 DEF BankInv

-----------------------------------------------------------------------------
(* Promotions while the lock is free.                                      *)

LEMMA ProposalOf ==
    ASSUME BankInv, NEW r \in Recs, NEW auto \in BOOLEAN, NEW text \in Nat
    PROVE  /\ Proposal(r, auto, text) \in Promotions
           /\ Proposal(r, auto, text).status = "proposed"
BY RecordOf DEF BankInv, TypesFit, Proposal, Promotions

LEMMA Proposed ==
    ASSUME BankInv, NEW new \in Promotions, new.status = "proposed"
    PROVE  /\ Append(prom, new) \in Proms
           /\ DOMAIN prom \subseteq DOMAIN Append(prom, new)
           /\ Len(prom) + 1 \in DOMAIN Append(prom, new)
           /\ \A i \in DOMAIN prom: Append(prom, new)[i] = prom[i]
           /\ Accounted(Append(prom, new)) = Accounted(prom)
<1>2. /\ Append(prom, new) \in Proms /\ Len(prom) \in Nat /\ DOMAIN prom = 1..Len(prom)
      /\ DOMAIN Append(prom, new) = 1..(Len(prom) + 1)
      /\ \A i \in 1..Len(prom): Append(prom, new)[i] = prom[i]
      /\ Append(prom, new)[Len(prom) + 1] = new
    BY AppendProperties, LenProperties DEF BankInv, TypesFit, Proms
<1>3. PICK P: P = Append(prom, new)
    OBVIOUS
<1>4. Accounted(P) = Accounted(prom)
    <2>1. DOMAIN P = 1..(Len(prom) + 1) /\ \A i \in 1..Len(prom): P[i] = prom[i]
        BY <1>2, <1>3
    <2>2. P[Len(prom) + 1].status # "applied"
        BY <1>2, <1>3
    <2>3. ASSUME NEW f \in Accounted(P)
          PROVE  f \in Accounted(prom)
        <3>1. PICK i \in DOMAIN P: P[i].status = "applied" /\ f = P[i].file
            BY DEF Accounted
        <3>2. i \in 1..Len(prom)
            BY <3>1, <2>1, <2>2, <1>2
        <3>. QED  BY <3>1, <3>2, <2>1, <1>2 DEF Accounted
    <2>4. ASSUME NEW f \in Accounted(prom)
          PROVE  f \in Accounted(P)
        <3>1. PICK i \in DOMAIN prom: prom[i].status = "applied" /\ f = prom[i].file
            BY DEF Accounted
        <3>. QED  BY <3>1, <2>1, <1>2 DEF Accounted
    <2>. QED  BY <2>3, <2>4
<1>. QED  BY <1>2, <1>3, <1>4

LEMMA Decided ==
    ASSUME BankInv, NEW i \in DOMAIN prom, prom[i].status = "proposed",
           NEW outcome \in {"reviewed", "rejected"}
    PROVE  /\ [prom EXCEPT ![i].status = outcome] \in Proms
           /\ DOMAIN [prom EXCEPT ![i].status = outcome] = DOMAIN prom
           /\ \A j \in DOMAIN prom: [prom EXCEPT ![i].status = outcome][j].status = "applied"
                                        <=> prom[j].status = "applied"
           /\ Accounted([prom EXCEPT ![i].status = outcome]) = Accounted(prom)
<1>. DEFINE new == [prom[i] EXCEPT !.status = outcome]
<1>1. prom \in Proms /\ DOMAIN prom = 1..Len(prom)
    BY LenProperties DEF BankInv, TypesFit, Proms
<1>2. new \in Promotions
      /\ new.status = outcome
    <2>1. prom[i] \in Promotions
        BY <1>1, ElementOfSeq DEF Proms
    <2>. QED  BY <2>1 DEF Promotions
<1>3. PICK P: P = [prom EXCEPT ![i] = new]
    OBVIOUS
<1>4. P = [prom EXCEPT ![i].status = outcome]
    BY <1>3
<1>. HIDE DEF new
<1>5. P \in Proms /\ DOMAIN P = DOMAIN prom
    BY <1>1, <1>2, <1>3, ExceptSeq DEF Proms
<1>6. P[i] = new /\ \A j \in DOMAIN prom: j # i => P[j] = prom[j]
    BY <1>1, <1>3 DEF Proms
<1>7. \A j \in DOMAIN prom: P[j].status = "applied" <=> prom[j].status = "applied"
    BY <1>2, <1>6
<1>8. \A j \in DOMAIN prom: P[j].status = "applied" => P[j].file = prom[j].file
    BY <1>2, <1>6
<1>9. Accounted(P) = Accounted(prom)
    <2>1. ASSUME NEW f \in Accounted(P)
          PROVE  f \in Accounted(prom)
        <3>1. PICK j \in DOMAIN P: P[j].status = "applied" /\ f = P[j].file
            BY DEF Accounted
        <3>. QED  BY <3>1, <1>5, <1>7, <1>8 DEF Accounted
    <2>2. ASSUME NEW f \in Accounted(prom)
          PROVE  f \in Accounted(P)
        <3>1. PICK j \in DOMAIN prom: prom[j].status = "applied" /\ f = prom[j].file
            BY DEF Accounted
        <3>. QED  BY <3>1, <1>5, <1>7, <1>8 DEF Accounted
    <2>. QED  BY <2>1, <2>2
<1>. QED  BY <1>4, <1>5, <1>7, <1>9

\* A promotion that is proposed or decided leaves a store that is kept.
LEMMA PromsChange ==
    ASSUME BankInv, lock = Free, NEW Q \in Proms, prom' = Q, Accounted(Q) = Accounted(prom),
           UNCHANGED <<day, doc, rec, bank, index, lock, undo, kills>>
    PROVE  TypesFit' /\ StoreFits'
<1>1. TypesFit'
    BY DEF BankInv, TypesFit
<1>2. Kept(rec, prom, bank, index, kills)
    BY DEF BankInv, StoreFits
<1>3. Kept(rec, Q, bank, index, kills)
    BY <1>2 DEF Kept
<1>4. StoreFits'
    BY <1>3 DEF StoreFits
<1>. QED  BY <1>1, <1>4

LEMMA ReviewFits ==
    ASSUME BankInv, NEW i \in DOMAIN prom, NEW outcome \in {"reviewed", "rejected"},
           Review(i, outcome)
    PROVE  BankInv'
<1>1. /\ lock = Free /\ prom[i].status = "proposed"
      /\ prom' = [prom EXCEPT ![i].status = outcome]
      /\ UNCHANGED <<day, doc, rec, bank, index, lock, undo, proc, kills>>
    BY DEF Review, bounds
<1>2. PICK Q \in Proms: /\ Q = prom' /\ Accounted(Q) = Accounted(prom)
                        /\ DOMAIN prom \subseteq DOMAIN Q
    BY <1>1, Decided
<1>3. TypesFit' /\ StoreFits'
    BY <1>1, <1>2, PromsChange
<1>4. DoingsFit' /\ LockFits'
    BY <1>1, <1>2, DoingsSame
<1>. QED  BY <1>3, <1>4 DEF BankInv

-----------------------------------------------------------------------------
(* The turn between its commands.                                          *)

LEMMA IdleFits ==
    ASSUME NEW Q
    PROVE  DoingFits(Idle, Q) /\ Idle.at = "idle" /\ Idle.then = "idle" /\ Idle.todo = {}
BY DEF DoingFits, Idle

LEMMA ReturnFits ==
    ASSUME NEW Q, NEW c, DoingFits(c, Q), c.at # "pick"
    PROVE  DoingFits(Return(c), Q) /\ Return(c).at # "write"
<1>1. CASE c.then = "idle"
    BY <1>1, IdleFits DEF Return
<1>2. CASE c.then # "idle"
    <2>. DEFINE e == [c EXCEPT !.at = c.then, !.then = "idle", !.cur = 0, !.plan = <<>>]
    <2>1. c \in [at: {"idle", "retry", "pick", "create", "review", "apply", "write"},
                 todo: {c.todo}, texts: {c.texts}, left: {c.left}, cur: {c.cur},
                 plan: {c.plan}, then: {"idle", "retry", "pick"}]
        BY DEF DoingFits
    <2>2. e \in [at: {c.then}, todo: {c.todo}, texts: {c.texts}, left: {c.left},
                 cur: {0}, plan: {<<>>}, then: {"idle"}]
        BY <2>1
    <2>3. Return(c) = e
        BY <1>2 DEF Return
    <2>. HIDE DEF e
    <2>. QED  BY <1>2, <2>2, <2>3 DEF DoingFits
<1>. QED  BY <1>1, <1>2

LEMMA DoingOf ==
    ASSUME BankInv, NEW p \in Procs
    PROVE  /\ DoingFits(proc[p], prom)
           /\ proc[p] \in [at: {"idle", "retry", "pick", "create", "review", "apply", "write"},
                           todo: {proc[p].todo}, texts: {proc[p].texts}, left: {proc[p].left},
                           cur: {proc[p].cur}, plan: {proc[p].plan}, then: {"idle", "retry", "pick"}]
BY DEF BankInv, DoingsFit, DoingFits

LEMMA StartTurnFits ==
    ASSUME BankInv, NEW p \in Procs, StartTurn(p)
    PROVE  BankInv'
<1>. DEFINE c == [Idle EXCEPT !.at = "retry", !.todo = Stalled]
<1>1. /\ proc[p] = Idle /\ proc' = [proc EXCEPT ![p] = c]
      /\ UNCHANGED <<day, doc, files, lock, undo, kills>>
    BY DEF StartTurn, bounds
<1>2. \A t \in Stalled: t[1] \in DOMAIN prom
    BY DEF Stalled
<1>3. DoingFits(c, prom) /\ c.at # "write"
    <2>1. c \in [at: {"retry"}, todo: {Stalled}, texts: {{}}, left: {0}, cur: {0},
                 plan: {<<>>}, then: {"idle"}]
        BY DEF Idle
    <2>. HIDE DEF c
    <2>. QED  BY <1>2, <2>1 DEF DoingFits
<1>4. proc[p].at # "write"
    BY <1>1 DEF Idle
<1>5. DoingsFit' /\ LockFits' /\ (lock # Free => proc[lock]' = proc[lock])
    <2>. HIDE DEF c
    <2>1. prom' = prom
        BY <1>1 DEF files
    <2>. QED  BY <1>1, <1>3, <1>4, <2>1, DoingsStayFit
<1>6. TypesFit' /\ StoreFits'
    BY <1>1, <1>5, StoreSame
<1>. QED  BY <1>5, <1>6 DEF BankInv

LEMMA ScanFits ==
    ASSUME BankInv, NEW p \in Procs, Scan(p)
    PROVE  BankInv'
<1>. DEFINE c == [proc[p] EXCEPT !.at = "pick", !.todo = Promotable,
                                 !.texts = ActiveTopics, !.left = Limit]
<1>1. /\ proc[p].at = "retry" /\ proc[p].todo = {} /\ proc' = [proc EXCEPT ![p] = c]
      /\ UNCHANGED <<day, doc, files, lock, undo, kills>>
    BY DEF Scan, At, bounds
<1>2. DoingFits(c, prom) /\ c.at # "write"
    <2>1. c \in [at: {"pick"}, todo: {Promotable}, texts: {ActiveTopics}, left: {Limit},
                 cur: {proc[p].cur}, plan: {proc[p].plan}, then: {proc[p].then}]
        BY DoingOf
    <2>2. proc[p].then \in {"idle", "retry", "pick"}
        BY DoingOf
    <2>. HIDE DEF c
    <2>. QED  BY <2>1, <2>2 DEF DoingFits
<1>3. DoingsFit' /\ LockFits' /\ (lock # Free => proc[lock]' = proc[lock])
    <2>. HIDE DEF c
    <2>1. prom' = prom /\ proc[p].at # "write"
        BY <1>1 DEF files
    <2>. QED  BY <1>1, <1>2, <2>1, DoingsStayFit
<1>4. TypesFit' /\ StoreFits'
    BY <1>1, <1>3, StoreSame
<1>. QED  BY <1>3, <1>4 DEF BankInv

\* A promotion is reviewed, or passed over: what the turn goes on with.
LEMMA ReviewedFits ==
    ASSUME BankInv, NEW p \in Procs, NEW i \in DOMAIN prom, NEW then \in {"retry", "pick"},
           proc[p].at \in {"retry", "review"}, then = "retry" => proc[p].at = "retry",
           Reviewed(p, i, then)
    PROVE  BankInv'
<1>. DEFINE todo == IF then = "retry" THEN {t \in proc[p].todo: t[1] # i} ELSE proc[p].todo
            turn == [proc[p] EXCEPT !.cur = i, !.then = then, !.todo = todo]
<1>1. /\ lock = Free /\ UNCHANGED <<day, doc, rec, bank, index, lock, undo, kills>>
      /\ \/ /\ prom[i].status = "proposed"
            /\ prom' = [prom EXCEPT ![i].status = "reviewed"]
            /\ proc' = [proc EXCEPT ![p] = [turn EXCEPT !.at = "apply"]]
         \/ proc' = [proc EXCEPT ![p] = Return(turn)] /\ UNCHANGED prom
    BY DEF Reviewed, bounds
<1>2. turn \in [at: {proc[p].at}, todo: {todo}, texts: {proc[p].texts}, left: {proc[p].left},
                cur: {i}, plan: {proc[p].plan}, then: {then}]
    BY DoingOf
<1>3. proc[p].at = "retry" => \A t \in todo: t[1] \in DOMAIN prom
    BY DoingOf DEF DoingFits
<1>. HIDE DEF todo, turn
<1>4. PICK Q, c: /\ Q \in Proms /\ prom' = Q /\ Accounted(Q) = Accounted(prom)
                 /\ DOMAIN Q = DOMAIN prom
                 /\ proc' = [proc EXCEPT ![p] = c]
                 /\ c = [turn EXCEPT !.at = "apply"] \/ c = Return(turn)
    <2>1. prom \in Proms
        BY DEF BankInv, TypesFit
    <2>2. CASE /\ prom[i].status = "proposed"
               /\ prom' = [prom EXCEPT ![i].status = "reviewed"]
               /\ proc' = [proc EXCEPT ![p] = [turn EXCEPT !.at = "apply"]]
        <3>1. PICK Q \in Proms: /\ Q = prom' /\ Accounted(Q) = Accounted(prom)
                                /\ DOMAIN Q = DOMAIN prom
            BY <2>2, Decided
        <3>. QED  BY <2>2, <3>1
    <2>3. CASE proc' = [proc EXCEPT ![p] = Return(turn)] /\ UNCHANGED prom
        BY <2>1, <2>3
    <2>. QED  BY <1>1, <2>2, <2>3
<1>5. DoingFits(turn, Q)
    BY <1>2, <1>3, <1>4 DEF DoingFits
<1>6. DoingFits(c, Q) /\ c.at # "write"
    <2>1. CASE c = [turn EXCEPT !.at = "apply"]
        <3>1. c \in [at: {"apply"}, todo: {todo}, texts: {proc[p].texts}, left: {proc[p].left},
                     cur: {i}, plan: {proc[p].plan}, then: {then}]
            BY <1>2, <2>1
        <3>. QED  BY <3>1, <1>3, <1>4 DEF DoingFits
    <2>2. CASE c = Return(turn)
        BY <1>2, <1>5, <2>2, ReturnFits
    <2>. QED  BY <1>4, <2>1, <2>2
<1>7. DoingsFit' /\ LockFits'
    <2>1. proc[p].at # "write" /\ UNCHANGED lock
        BY <1>1
    <2>. QED  BY <2>1, <1>4, <1>6, DoingsStayFit
<1>8. TypesFit' /\ StoreFits'
    BY <1>1, <1>4, PromsChange
<1>. QED  BY <1>7, <1>8 DEF BankInv

LEMMA RetryFits ==
    ASSUME BankInv, NEW p \in Procs, NEW t, Retry(p, t)
    PROVE  BankInv'
<1>1. proc[p].at = "retry" /\ t \in proc[p].todo /\ t[1] \in DOMAIN prom
    BY DoingOf DEF Retry, At, DoingFits
<1>2. CASE Reviewed(p, t[1], "retry")
    BY <1>1, <1>2, ReviewedFits
<1>3. CASE /\ proc' = [proc EXCEPT ![p] = [@ EXCEPT !.at = "apply", !.todo = proc[p].todo \ {t},
                                                    !.cur = t[1], !.then = "retry"]]
           /\ UNCHANGED <<day, doc, files, lock, undo, bounds>>
    <2>. DEFINE c == [proc[p] EXCEPT !.at = "apply", !.todo = proc[p].todo \ {t},
                                     !.cur = t[1], !.then = "retry"]
    <2>1. proc' = [proc EXCEPT ![p] = c] /\ UNCHANGED <<day, doc, files, lock, undo, kills>>
        BY <1>3 DEF bounds
    <2>2. c \in [at: {"apply"}, todo: {proc[p].todo \ {t}}, texts: {proc[p].texts},
                 left: {proc[p].left}, cur: {t[1]}, plan: {proc[p].plan}, then: {"retry"}]
        BY DoingOf
    <2>3. \A e \in proc[p].todo: e[1] \in DOMAIN prom
        BY <1>1, DoingOf DEF DoingFits
    <2>. HIDE DEF c
    <2>4. DoingFits(c, prom) /\ c.at # "write"
        BY <1>1, <2>2, <2>3 DEF DoingFits
    <2>5. DoingsFit' /\ LockFits' /\ (lock # Free => proc[lock]' = proc[lock])
        <3>1. prom' = prom /\ proc[p].at # "write"
            BY <1>1, <2>1 DEF files
        <3>. QED  BY <2>1, <2>4, <3>1, DoingsStayFit
    <2>6. TypesFit' /\ StoreFits'
        BY <2>1, <2>5, StoreSame
    <2>. QED  BY <2>5, <2>6 DEF BankInv
<1>. QED  BY <1>2, <1>3 DEF Retry

LEMMA AutoReviewFits ==
    ASSUME BankInv, NEW p \in Procs, AutoReview(p)
    PROVE  BankInv'
<1>1. proc[p].at = "review" /\ proc[p].cur \in DOMAIN prom /\ Reviewed(p, proc[p].cur, "pick")
    BY DoingOf DEF AutoReview, At, DoingFits
<1>. QED  BY <1>1, ReviewedFits

\* A turn that passes over something.
LEMMA PassedOver ==
    ASSUME BankInv, NEW p \in Procs, NEW c, DoingFits(c, prom), c.at # "write",
           proc[p].at # "write", proc' = [proc EXCEPT ![p] = c],
           UNCHANGED <<day, doc, files, lock, undo, kills>>
    PROVE  BankInv'
<1>1. prom' = prom
    BY DEF files
<1>2. DoingsFit' /\ LockFits' /\ (lock # Free => proc[lock]' = proc[lock])
    BY <1>1, DoingsStayFit
<1>3. TypesFit' /\ StoreFits'
    BY <1>2, StoreSame
<1>. QED  BY <1>2, <1>3 DEF BankInv

\* create_promotion has read the record and is about to take the lock.
LEMMA DraftedFits ==
    ASSUME BankInv, NEW p \in Procs, proc[p].at # "write", NEW e,
           e \in [at: {e.at}, todo: {e.todo}, texts: {e.texts}, left: {e.left}, cur: {e.cur},
                 plan: {e.plan}, then: {"idle", "pick"}],
           NEW b \in Promotions, b.status = "proposed",
           proc' = [proc EXCEPT ![p] = Drafted(e, b)],
           UNCHANGED <<day, doc, files, lock, undo, kills>>
    PROVE  BankInv'
<1>1. PICK c: c = Drafted(e, b)
    OBVIOUS
<1>2. c \in [at: {"create"}, todo: {e.todo}, texts: {e.texts}, left: {e.left}, cur: {e.cur},
             plan: {<<b>>}, then: {"idle", "pick"}]
    BY <1>1 DEF Drafted
<1>3. Head(c.plan) = b
    BY <1>2
<1>4. DoingFits(c, prom) /\ c.at # "write"
    BY <1>2, <1>3 DEF DoingFits
<1>. QED  BY <1>1, <1>4, PassedOver

LEMMA ProposeFits ==
    ASSUME BankInv, NEW p \in Procs, NEW r \in Recs, Propose(p, r)
    PROVE  BankInv'
<1>1. /\ proc[p] = Idle /\ proc' = [proc EXCEPT ![p] = Drafted(proc[p], Proposal(r, FALSE, Never))]
      /\ UNCHANGED <<day, doc, files, lock, undo, kills>>
    BY DEF Propose, bounds
<1>2. PICK b \in Promotions: b = Proposal(r, FALSE, Never) /\ b.status = "proposed"
    BY ProposalOf DEF Never
<1>3. PICK e: e = proc[p]
    OBVIOUS
<1>4. /\ proc[p].at # "write"
      /\ e \in [at: {e.at}, todo: {e.todo}, texts: {e.texts}, left: {e.left}, cur: {e.cur},
               plan: {e.plan}, then: {"idle", "pick"}]
    BY <1>1, <1>3 DEF Idle
<1>. QED  BY <1>1, <1>2, <1>3, <1>4, DraftedFits

LEMMA CreateFits ==
    ASSUME BankInv, NEW p \in Procs, Create(p)
    PROVE  BankInv'
<1>. DEFINE b == Head(proc[p].plan)
            onward == [proc[p] EXCEPT !.at = "review", !.cur = Len(prom) + 1, !.plan = <<>>]
<1>1. /\ lock = Free /\ proc[p].at = "create" /\ prom' = Append(prom, b)
      /\ UNCHANGED <<day, doc, rec, bank, index, lock, undo, kills>>
    BY DEF Create, bounds
<1>2. b \in Promotions /\ b.status = "proposed"
    BY <1>1, DoingOf DEF DoingFits
<1>. HIDE DEF b
<1>3. PICK Q \in Proms: /\ Q = prom' /\ Accounted(Q) = Accounted(prom)
                        /\ DOMAIN prom \subseteq DOMAIN Q /\ Len(prom) + 1 \in DOMAIN Q
    BY <1>1, <1>2, Proposed
<1>4. PICK c: /\ c = IF proc[p].then = "pick" THEN onward ELSE Idle
              /\ proc' = [proc EXCEPT ![p] = c]
    BY DEF Create
<1>5. CASE proc[p].then = "pick"
    <2>1. onward \in [at: {"review"}, todo: {proc[p].todo}, texts: {proc[p].texts},
                      left: {proc[p].left}, cur: {Len(prom) + 1}, plan: {<<>>}, then: {"pick"}]
        BY <1>5, DoingOf
    <2>. HIDE DEF onward
    <2>2. DoingFits(onward, Q) /\ onward.at # "write"
        BY <2>1, <1>3 DEF DoingFits
    <2>3. DoingFits(c, Q) /\ c.at # "write"
        BY <1>4, <1>5, <2>2
    <2>4. DoingsFit' /\ LockFits'
        BY <1>1, <1>3, <1>4, <2>3, DoingsStayFit
    <2>5. TypesFit' /\ StoreFits'
        BY <1>1, <1>3, PromsChange
    <2>. QED  BY <2>4, <2>5 DEF BankInv
<1>6. CASE proc[p].then # "pick"
    <2>1. DoingFits(c, Q) /\ c.at # "write"
        BY <1>4, <1>6, IdleFits
    <2>2. DoingsFit' /\ LockFits'
        BY <1>1, <1>3, <1>4, <2>1, DoingsStayFit
    <2>3. TypesFit' /\ StoreFits'
        BY <1>1, <1>3, PromsChange
    <2>. QED  BY <2>2, <2>3 DEF BankInv
<1>. QED  BY <1>5, <1>6

LEMMA PickFits ==
    ASSUME BankAssumption, BankInv, NEW p \in Procs, NEW r \in Recs, NEW text \in 1..MaxRev,
           Pick(p, r, text)
    PROVE  BankInv'
<1>. DEFINE rest == [proc[p] EXCEPT !.todo = @ \ {<<r, text>>}, !.left = @ - 1]
            e == [rest EXCEPT !.then = "pick"]
<1>1. /\ proc[p].at = "pick" /\ UNCHANGED <<day, doc, files, lock, undo, kills>>
      /\ \/ proc' = [proc EXCEPT ![p] = rest]
         \/ proc' = [proc EXCEPT ![p] = Drafted(e, Proposal(r, TRUE, text))]
    BY DEF Pick, At, bounds
<1>2. rest \in [at: {"pick"}, todo: {proc[p].todo \ {<<r, text>>}}, texts: {proc[p].texts},
                left: {proc[p].left - 1}, cur: {proc[p].cur}, plan: {proc[p].plan},
                then: {"idle", "retry", "pick"}]
    BY <1>1, DoingOf
<1>. HIDE DEF rest
<1>3. CASE proc' = [proc EXCEPT ![p] = rest]
    <2>1. DoingFits(rest, prom) /\ rest.at # "write"
        BY <1>2 DEF DoingFits
    <2>. QED  BY <1>1, <1>3, <2>1, PassedOver
<1>4. CASE proc' = [proc EXCEPT ![p] = Drafted(e, Proposal(r, TRUE, text))]
    <2>1. text \in Nat
        BY DEF BankAssumption
    <2>2. PICK b \in Promotions: b = Proposal(r, TRUE, text) /\ b.status = "proposed"
        BY <2>1, ProposalOf
    <2>3. PICK d: d = e
        OBVIOUS
    <2>4. d \in [at: {d.at}, todo: {d.todo}, texts: {d.texts}, left: {d.left}, cur: {d.cur},
                plan: {d.plan}, then: {"idle", "pick"}]
        BY <1>2, <2>3
    <2>. HIDE DEF e
    <2>. QED  BY <1>1, <1>4, <2>2, <2>3, <2>4, DraftedFits
<1>. QED  BY <1>1, <1>3, <1>4

-----------------------------------------------------------------------------
(* The lock is taken.                                                      *)

LEMMA BeginFits ==
    ASSUME BankAssumption, BankInv, NEW p \in Procs, NEW plan, NEW then,
           then = "idle" \/ (then = proc[p].then /\ proc[p].at = "apply"),
           Begin(p, plan, then), Underway(plan, day, rec, prom, bank, index, bank, kills)
    PROVE  BankInv'
<1>. DEFINE c == [proc[p] EXCEPT !.at = "write", !.plan = plan, !.then = then]
<1>1. /\ lock = Free /\ lock' = p /\ undo' = files /\ proc' = [proc EXCEPT ![p] = c]
      /\ UNCHANGED <<day, doc, rec, prom, bank, index, kills>>
    BY DEF Begin, files
<1>2. c \in [at: {"write"}, todo: {proc[p].todo}, texts: {proc[p].texts}, left: {proc[p].left},
             cur: {proc[p].cur}, plan: {plan}, then: {then}]
    BY DoingOf
<1>3. then \in {"idle", "retry", "pick"}
    BY DoingOf
<1>. HIDE DEF c
<1>4. c.at = "write" /\ c.plan = plan
    BY <1>2
<1>5. DoingFits(c, prom)
    <2>1. then = "retry" => \A t \in proc[p].todo: t[1] \in DOMAIN prom
        BY DoingOf DEF DoingFits
    <2>. QED  BY <1>2, <1>3, <2>1 DEF DoingFits
<1>6. /\ proc' = [q \in Procs |-> proc'[q]] /\ proc'[p] = c
      /\ \A q \in Procs: q # p => proc'[q] = proc[q]
    BY <1>1 DEF BankInv, DoingsFit
<1>7. DoingsFit'
    <2>1. \A q \in Procs: DoingFits(proc'[q], prom)
        BY <1>5, <1>6 DEF BankInv, DoingsFit
    <2>. QED  BY <1>1, <1>6, <2>1 DEF DoingsFit
<1>8. p # Free
    BY DEF BankAssumption, Free
<1>9. LockFits'
    <2>1. \A q \in Procs: proc[q].at # "write"
        BY <1>1, <1>8 DEF BankInv, LockFits, BankAssumption, Free
    <2>. QED  BY <1>1, <1>4, <1>6, <2>1 DEF LockFits
<1>10. TypesFit'
    BY <1>1 DEF BankInv, TypesFit
<1>11. Held(files, plan, day, rec, prom, bank, index, kills)
    <2>1. Kept(rec, prom, bank, index, kills) /\ rec \in Records /\ IsBank(bank, day)
        BY <1>1 DEF BankInv, StoreFits, TypesFit
    <2>. QED  BY <2>1 DEF Held, files
<1>12. StoreFits'
    <2>1. lock' # Free /\ proc'[lock'].plan = plan
        BY <1>1, <1>4, <1>6, <1>8
    <2>. QED  BY <1>1, <1>11, <2>1 DEF StoreFits
<1>. QED  BY <1>7, <1>9, <1>10, <1>12 DEF BankInv

\* A store that the lock is taken on.
LEMMA FoundKept ==
    ASSUME BankInv, NEW p, NEW plan, NEW then, Begin(p, plan, then)
    PROVE  TypesFit /\ Kept(rec, prom, bank, index, kills)
BY DEF BankInv, StoreFits, Begin

LEMMA BeginApplyFits ==
    ASSUME BankAssumption, BankInv, NEW p \in Procs, NEW i \in DOMAIN prom, BeginApply(p, i)
    PROVE  BankInv'
<1>1. CanApply(i) /\ Begin(p, ApplyPlan(i), "idle")
    BY DEF BeginApply
<1>2. Underway(ApplyPlan(i), day, rec, prom, bank, index, bank, kills)
    BY <1>1, FoundKept, ApplyFits
<1>. QED  BY <1>1, <1>2, BeginFits

LEMMA BeginRetireFits ==
    ASSUME BankAssumption, BankInv, NEW p \in Procs, NEW f \in DOMAIN bank,
           NEW g \in DOMAIN bank \cup {NoOne}, NEW to \in 1..LastDay, BeginRetire(p, f, g, to)
    PROVE  BankInv'
<1>1. PICK closed: closed = [bank[f] EXCEPT !.status = IF g = NoOne THEN "archived" ELSE "superseded",
                                            !.by = g, !.to = to]
    OBVIOUS
<1>2. PICK links: links = IF g = NoOne THEN <<>> ELSE <<Put(g, [bank[g] EXCEPT !.sup = @ \cup {f}])>>
    OBVIOUS
<1>3. Begin(p, <<Put(f, closed)>> \o links \o <<Index, Check>>, "idle")
    BY <1>1, <1>2 DEF BeginRetire
<1>4. Underway(<<Put(f, closed)>> \o links \o <<Index, Check>>,
               day, rec, prom, bank, index, bank, kills)
    BY <1>1, <1>2, <1>3, FoundKept, RetireFits
<1>. QED  BY <1>3, <1>4, BeginFits

LEMMA BeginReverifyFits ==
    ASSUME BankAssumption, BankInv, NEW p \in Procs, NEW f \in DOMAIN bank, BeginReverify(p, f)
    PROVE  BankInv'
<1>1. bank[f].status = "active" /\ Begin(p, <<Put(f, Reverified(f)), Index, Check>>, "idle")
    BY DEF BeginReverify
<1>2. Underway(<<Put(f, Reverified(f)), Index, Check>>, day, rec, prom, bank, index, bank, kills)
    BY <1>1, FoundKept, ReverifyFits
<1>. QED  BY <1>1, <1>2, BeginFits

LEMMA CompactingFits ==
    ASSUME BankAssumption, BankInv, NEW p \in Procs, Begin(p, CompactPlan, "idle")
    PROVE  BankInv'
<1>1. Underway(CompactPlan, day, rec, prom, bank, index, bank, kills)
    BY FoundKept, CompactFits
<1>. QED  BY <1>1, BeginFits

LEMMA ApplyInTurnFits ==
    ASSUME BankAssumption, BankInv, NEW p \in Procs, Apply(p)
    PROVE  BankInv'
<1>. DEFINE i == proc[p].cur
<1>1. proc[p].at = "apply" /\ i \in DOMAIN prom
    BY DoingOf DEF Apply, At, DoingFits
<1>2. CASE CanApply(i) /\ Begin(p, ApplyPlan(i), proc[p].then)
    <2>1. Underway(ApplyPlan(i), day, rec, prom, bank, index, bank, kills)
        BY <1>1, <1>2, FoundKept, ApplyFits
    <2>. QED  BY <1>1, <1>2, <2>1, BeginFits
<1>3. CASE /\ proc' = [proc EXCEPT ![p] = Return(proc[p])]
           /\ UNCHANGED <<day, doc, files, lock, undo, bounds>>
    <2>1. PICK c: c = Return(proc[p])
        OBVIOUS
    <2>2. DoingFits(c, prom) /\ c.at # "write"
        BY <1>1, <2>1, DoingOf, ReturnFits
    <2>3. UNCHANGED <<day, doc, files, lock, undo, kills>>
        BY <1>3 DEF bounds
    <2>. QED  BY <1>1, <1>3, <2>1, <2>2, <2>3, PassedOver
<1>. QED  BY <1>2, <1>3 DEF Apply

LEMMA EndTurnFits ==
    ASSUME BankAssumption, BankInv, NEW p \in Procs, EndTurn(p)
    PROVE  BankInv'
<1>1. CASE Begin(p, CompactPlan, "idle")
    BY <1>1, CompactingFits
<1>2. CASE /\ proc' = [proc EXCEPT ![p] = Idle]
           /\ UNCHANGED <<day, doc, files, lock, undo, bounds>>
    <2>1. PICK c: c = Idle
        OBVIOUS
    <2>2. DoingFits(c, prom) /\ c.at # "write"
        BY <2>1, IdleFits
    <2>3. proc[p].at # "write" /\ UNCHANGED <<day, doc, files, lock, undo, kills>>
        BY <1>2 DEF EndTurn, At, bounds
    <2>. QED  BY <1>2, <2>1, <2>2, <2>3, PassedOver
<1>. QED  BY <1>1, <1>2 DEF EndTurn

-----------------------------------------------------------------------------
(* The lock is held.                                                       *)

LEMMA HolderOf ==
    ASSUME BankAssumption, BankInv, NEW p \in Procs, lock = p
    PROVE  /\ lock # Free /\ proc[p].at = "write"
           /\ Held(undo, proc[p].plan, day, rec, prom, bank, index, kills)
           /\ proc[p].plan \in Seq(Steps) /\ proc[p].plan # <<>>
<1>1. lock # Free /\ proc[p].at = "write"
    BY DEF BankAssumption, Free, BankInv, LockFits
<1>2. Held(undo, proc[p].plan, day, rec, prom, bank, index, kills)
    BY <1>1 DEF BankInv, StoreFits
<1>. QED  BY <1>1, <1>2 DEF Held, Underway

\* The lock is freed.
LEMMA ReleasedFits ==
    ASSUME BankAssumption, BankInv, NEW p \in Procs, lock = p, lock' = Free, NEW c, NEW Q,
           DOMAIN prom \subseteq DOMAIN Q, prom' = Q, DoingFits(c, Q), c.at # "write",
           proc' = [proc EXCEPT ![p] = c]
    PROVE  DoingsFit' /\ LockFits'
<1>1. /\ proc' = [q \in Procs |-> proc'[q]] /\ proc'[p] = c
      /\ \A q \in Procs: q # p => proc'[q] = proc[q]
    BY DEF BankInv, DoingsFit
<1>2. \A q \in Procs: DoingFits(proc[q], Q)
    BY DEF BankInv, DoingsFit, DoingFits
<1>3. DoingsFit'
    BY <1>1, <1>2 DEF DoingsFit
<1>4. \A q \in Procs: proc'[q].at # "write"
    BY <1>1 DEF BankInv, LockFits
<1>5. \A q \in Procs: q # Free
    BY DEF BankAssumption, Free
<1>6. LockFits'
    BY <1>4, <1>5 DEF LockFits
<1>. QED  BY <1>3, <1>6

\* What the next write does to the files.
LEMMA Written ==
    ASSUME BankAssumption, BankInv, NEW p \in Procs, Write(p)
    PROVE  /\ lock = p /\ Effect(Head(proc[p].plan), rec, prom, bank, index, rec', prom', bank', index')
           /\ UNCHANGED <<day, doc, kills>> /\ Onward(p, Head(proc[p].plan))
           /\ TypesFit' /\ DOMAIN prom' = DOMAIN prom
<1>. DEFINE s == Head(proc[p].plan)
<1>1. /\ lock = p /\ UNCHANGED <<day, doc, kills>> /\ Onward(p, s)
      /\ s.op = "check" => ValidBank
      /\ bank' = IF s.op = "chunk" THEN Stored(s.id, s.chunk) ELSE bank
      /\ index' = IF s.op = "index" THEN Rows(bank) ELSE index
      /\ rec' = IF s.op = "move" THEN [rec EXCEPT ![s.rec].place = "archive"] ELSE rec
      /\ prom' = IF s.op = "applied"
                 THEN [prom EXCEPT ![s.prom] = [@ EXCEPT !.status = "applied", !.file = s.id]]
                 ELSE prom
    BY DEF Write, bounds
<1>2. /\ s \in Steps /\ s \in Ops(proc[p].plan)
      /\ PutsFit(proc[p].plan, day, rec, bank, undo[3], kills)
    BY <1>1, HolderOf, TailOps DEF Held, Underway
<1>3. s.op = "chunk" => s.chunk.verified <= day
    BY <1>2 DEF PutsFit, Puts
<1>. HIDE DEF s
<1>4. Effect(s, rec, prom, bank, index, rec', prom', bank', index')
    BY <1>1 DEF Effect, Relocated, Stored, ValidBank, Sound
<1>5. rec' \in Records /\ prom' \in Proms /\ IsBank(bank', day)
    <2>1. PICK R1, P1, b1, x1: R1 = rec' /\ P1 = prom' /\ b1 = bank' /\ x1 = index'
        OBVIOUS
    <2>. QED  BY <2>1, <1>2, <1>3, <1>4, EffectTypes DEF BankInv, TypesFit
<1>6. TypesFit'
    BY <1>1, <1>5 DEF BankInv, TypesFit
<1>7. DOMAIN prom' = DOMAIN prom
    BY <1>1
<1>. QED  BY <1>1, <1>4, <1>6, <1>7 DEF s

LEMMA WriteFits ==
    ASSUME BankAssumption, BankInv, NEW p \in Procs, Write(p)
    PROVE  BankInv'
<1>. DEFINE plan == proc[p].plan
<1>1. /\ lock = p /\ Effect(Head(plan), rec, prom, bank, index, rec', prom', bank', index')
      /\ UNCHANGED <<day, doc, kills>> /\ Onward(p, Head(plan))
      /\ TypesFit' /\ DOMAIN prom' = DOMAIN prom
    BY Written
<1>2. /\ lock # Free /\ proc[p].at = "write"
      /\ Held(undo, plan, day, rec, prom, bank, index, kills)
      /\ plan \in Seq(Steps) /\ plan # <<>>
    BY <1>1, HolderOf
<1>3. Underway(plan, day, rec, prom, bank, index, undo[3], kills)
    BY <1>2 DEF Held
<1>4. PICK R1, P1, b1, x1: R1 = rec' /\ P1 = prom' /\ b1 = bank' /\ x1 = index'
    OBVIOUS
<1>5. /\ day \in Nat /\ kills \in Nat /\ rec \in Records /\ prom \in Proms /\ IsBank(bank, day)
    BY DEF BankInv, TypesFit
<1>6. CASE Len(plan) > 1
    <2>. DEFINE c == [proc[p] EXCEPT !.plan = Tail(plan)]
    <2>1. proc' = [proc EXCEPT ![p] = c] /\ UNCHANGED <<lock, undo>>
        BY <1>1, <1>6 DEF Onward
    <2>2. prom' = prom /\ Underway(Tail(plan), day, rec', prom', bank', index', undo[3], kills)
        <3>1. P1 = prom /\ Underway(Tail(plan), day, R1, P1, b1, x1, undo[3], kills)
            BY <1>1, <1>3, <1>4, <1>5, <1>6, CarriedOn
        <3>. QED  BY <3>1, <1>4
    <2>3. c \in [at: {"write"}, todo: {proc[p].todo}, texts: {proc[p].texts}, left: {proc[p].left},
                 cur: {proc[p].cur}, plan: {Tail(plan)}, then: {proc[p].then}]
        BY <1>2, DoingOf
    <2>. HIDE DEF c
    <2>4. DoingFits(c, prom) /\ c.at = "write" /\ c.plan = Tail(plan)
        <3>1. proc[p].then \in {"idle", "retry", "pick"}
            BY DoingOf
        <3>2. proc[p].then = "retry" => \A t \in proc[p].todo: t[1] \in DOMAIN prom
            BY <1>2, DoingOf DEF DoingFits
        <3>. QED  BY <2>3, <3>1, <3>2 DEF DoingFits
    <2>5. /\ proc' = [q \in Procs |-> proc'[q]] /\ proc'[p] = c
          /\ \A q \in Procs: q # p => proc'[q] = proc[q]
        BY <2>1 DEF BankInv, DoingsFit
    <2>6. DoingsFit'
        <3>1. \A q \in Procs: DoingFits(proc'[q], prom)
            BY <2>4, <2>5 DEF BankInv, DoingsFit
        <3>. QED  BY <2>2, <2>5, <3>1 DEF DoingsFit
    <2>7. LockFits'
        BY <1>2, <2>1, <2>4, <2>5 DEF BankInv, LockFits
    <2>8. Held(undo, Tail(plan), day, rec', prom', bank', index', kills)
        BY <1>2, <2>2 DEF Held
    <2>9. StoreFits'
        <3>1. lock' = p /\ proc'[p].plan = Tail(plan) /\ lock' # Free
            BY <1>1, <1>2, <2>1, <2>4, <2>5
        <3>. QED  BY <1>1, <2>1, <2>8, <3>1 DEF StoreFits
    <2>. QED  BY <1>1, <2>6, <2>7, <2>9 DEF BankInv
<1>7. CASE Len(plan) <= 1
    <2>1. PICK c: /\ c = Return(proc[p]) \/ \E T: c = [Return(proc[p]) EXCEPT !.texts = T]
                  /\ proc' = [proc EXCEPT ![p] = c] /\ lock' = Free
        <3>1. ~(Len(plan) > 1)
            BY <1>2, <1>7, TailOps
        <3>. QED  BY <1>1, <3>1 DEF Onward
    <2>2. Kept(rec', prom', bank', index', kills)
        <3>1. Kept(R1, P1, b1, x1, kills)
            BY <1>1, <1>3, <1>4, <1>5, <1>7, CarriedOut
        <3>. QED  BY <3>1, <1>4
    <2>3. DoingFits(c, prom') /\ c.at # "write"
        <3>1. PICK e: e = Return(proc[p])
            OBVIOUS
        <3>2. DoingFits(proc[p], prom')
            BY <1>1, DoingOf DEF DoingFits
        <3>3. DoingFits(e, prom') /\ e.at # "write"
            BY <3>1, <3>2, <1>2, ReturnFits
        <3>4. ASSUME NEW T
              PROVE  DoingFits([e EXCEPT !.texts = T], prom') /\ [e EXCEPT !.texts = T].at # "write"
            BY <3>3 DEF DoingFits
        <3>. QED  BY <2>1, <3>1, <3>3, <3>4
    <2>4. DoingsFit' /\ LockFits'
        <3>1. PICK Q: Q = prom' /\ DOMAIN prom \subseteq DOMAIN Q
            BY <1>1
        <3>. QED  BY <1>1, <2>1, <2>3, <3>1, ReleasedFits
    <2>5. StoreFits'
        BY <1>1, <2>1, <2>2 DEF StoreFits
    <2>. QED  BY <1>1, <2>4, <2>5 DEF BankInv
<1>8. Len(plan) \in Nat
    BY <1>2, TailOps
<1>. QED  BY <1>6, <1>7, <1>8

\* The files are put back as they were found, and the lock is freed.
LEMMA RestoredFits ==
    ASSUME BankAssumption, BankInv, NEW p \in Procs, lock = p, Restore(undo), lock' = Free,
           NEW c, DoingFits(c, prom), c.at # "write", proc' = [proc EXCEPT ![p] = c],
           UNCHANGED <<day, doc, kills>>
    PROVE  BankInv'
<1>1. Held(undo, proc[p].plan, day, rec, prom, bank, index, kills)
    BY HolderOf
<1>2. /\ rec' = undo[1] /\ prom' = undo[2] /\ bank' = undo[3] /\ index' = undo[4]
      /\ undo[2] = prom /\ undo[1] \in Records /\ IsBank(undo[3], day)
      /\ Kept(undo[1], prom, undo[3], undo[4], kills)
    BY <1>1 DEF Held, Restore
<1>3. TypesFit'
    BY <1>2 DEF BankInv, TypesFit
<1>4. StoreFits'
    BY <1>2 DEF StoreFits
<1>5. DoingsFit' /\ LockFits'
    BY <1>2, ReleasedFits
<1>. QED  BY <1>3, <1>4, <1>5 DEF BankInv

LEMMA RejectFits ==
    ASSUME BankAssumption, BankInv, NEW p \in Procs, Reject(p)
    PROVE  BankInv'
<1>1. /\ lock = p /\ Restore(undo) /\ lock' = Free /\ UNCHANGED <<day, doc, kills>>
      /\ proc' = [proc EXCEPT ![p] = Return(proc[p])]
    BY DEF Reject, bounds
<1>2. PICK c: c = Return(proc[p])
    OBVIOUS
<1>3. DoingFits(c, prom) /\ c.at # "write"
    BY <1>1, <1>2, HolderOf, DoingOf, ReturnFits
<1>. QED  BY <1>1, <1>2, <1>3, RestoredFits

LEMMA FailFits ==
    ASSUME BankAssumption, BankInv, NEW p \in Procs, Fail(p)
    PROVE  BankInv'
<1>1. /\ lock = p /\ Restore(undo) /\ lock' = Free /\ UNCHANGED <<day, doc, kills>>
      /\ proc' = [proc EXCEPT ![p] = Idle]
    BY DEF Fail
<1>2. PICK c: c = Idle
    OBVIOUS
<1>3. DoingFits(c, prom) /\ c.at # "write"
    BY <1>2, IdleFits
<1>. QED  BY <1>1, <1>2, <1>3, RestoredFits

LEMMA KillFits ==
    ASSUME BankAssumption, BankInv, NEW p \in Procs, Kill(p)
    PROVE  BankInv'
<1>1. /\ kills' = kills + 1 /\ proc' = [proc EXCEPT ![p] = Idle]
      /\ UNCHANGED <<day, doc, rec, prom, bank, index>>
      /\ IF lock = p THEN lock' = Free /\ undo' = <<>> ELSE UNCHANGED <<lock, undo>>
    BY DEF Kill, files
<1>2. PICK c: c = Idle
    OBVIOUS
<1>3. DoingFits(c, prom) /\ c.at # "write"
    BY <1>2, IdleFits
<1>4. day \in Nat /\ kills \in Nat /\ IsBank(bank, day)
    BY DEF BankInv, TypesFit
<1>5. TypesFit'
    BY <1>1, <1>4 DEF BankInv, TypesFit
<1>6. CASE lock = p
    <2>1. DoingsFit' /\ LockFits'
        BY <1>1, <1>2, <1>3, <1>6, ReleasedFits
    <2>2. Kept(rec, prom, bank, index, kills + 1)
        BY <1>4, <1>6, HolderOf, OneMoreKill
    <2>3. StoreFits'
        BY <1>1, <1>6, <2>2 DEF StoreFits
    <2>. QED  BY <1>5, <2>1, <2>3 DEF BankInv
<1>7. CASE lock # p
    <2>1. proc[p].at # "write"
        BY <1>7 DEF BankInv, LockFits
    <2>2. DoingsFit' /\ LockFits' /\ (lock # Free => proc[lock]' = proc[lock])
        <3>1. UNCHANGED lock /\ prom' = prom
            BY <1>1, <1>7
        <3>. QED  BY <1>1, <1>2, <1>3, <2>1, <3>1, DoingsStayFit
    <2>3. lock = Free => Kept(rec, prom, bank, index, kills + 1)
        BY <1>4, OneMoreKill DEF BankInv, StoreFits
    <2>4. lock # Free => Held(undo, proc[lock].plan, day, rec, prom, bank, index, kills + 1)
        BY <1>4, OneMoreKill DEF BankInv, StoreFits
    <2>5. StoreFits'
        BY <1>1, <1>7, <2>2, <2>3, <2>4 DEF StoreFits
    <2>. QED  BY <1>5, <2>2, <2>5 DEF BankInv
<1>. QED  BY <1>6, <1>7

-----------------------------------------------------------------------------
(* All steps.                                                              *)

LEMMA InitFits ==
    ASSUME BankAssumption, Init
    PROVE  BankInv
<1>1. /\ day = 1 /\ doc = 1 /\ kills = 0 /\ prom = <<>> /\ bank = <<>> /\ index = <<>>
      /\ rec = [r \in Recs |-> [place |-> "dynamic", status |-> "open", rev |-> 1, seen |-> 1]]
      /\ lock = Free /\ proc = [p \in Procs |-> Idle]
    BY DEF Init
<1>2. DOMAIN prom = {} /\ DOMAIN bank = {} /\ prom \in Proms
    BY <1>1 DEF Proms
<1>3. rec \in Records
    BY <1>1 DEF Records, Places
<1>4. IsBank(bank, day)
    <2>1. IsFiniteSet({})
        BY FS_EmptySet
    <2>. QED  BY <1>1, <1>2, <2>1 DEF IsBank
<1>5. TypesFit
    BY <1>1, <1>2, <1>3, <1>4 DEF TypesFit
<1>6. \A p \in Procs: DoingFits(proc[p], prom) /\ proc[p].at # "write"
    <2>1. PICK c: c = Idle
        OBVIOUS
    <2>2. DoingFits(c, prom) /\ c.at # "write"
        BY <2>1, IdleFits
    <2>3. \A p \in Procs: proc[p] = c
        BY <1>1, <2>1
    <2>. QED  BY <2>2, <2>3
<1>7. DoingsFit
    BY <1>1, <1>6 DEF DoingsFit
<1>8. LockFits
    BY <1>1, <1>6 DEF LockFits, BankAssumption, Free
<1>9. Kept(rec, prom, bank, index, kills)
    <2>1. Accounted(prom) = {}
        BY <1>2 DEF Accounted
    <2>2. DOMAIN bank \ Accounted(prom) = {}
        BY <1>2
    <2>3. Cardinality({}) = 0
        BY FS_EmptySet
    <2>4. Sound(bank, index)
        <3>1. index = Rows(bank)
            BY <1>1, <1>2 DEF Rows
        <3>. QED  BY <3>1, <1>2 DEF Sound, Linked
    <2>. QED  BY <1>1, <1>2, <2>1, <2>2, <2>3, <2>4 DEF Kept
<1>10. StoreFits
    BY <1>1, <1>9 DEF StoreFits
<1>. QED  BY <1>5, <1>7, <1>8, <1>10 DEF BankInv

LEMMA StepFits ==
    ASSUME BankAssumption, BankInv, [Next]_vars
    PROVE  BankInv'
<1>1. ASSUME NEW p \in Procs, Create(p) \/ \E r \in Recs: Propose(p, r)
      PROVE  BankInv'
    BY <1>1, ProposeFits, CreateFits
<1>2. ASSUME NEW r \in Recs, NEW status \in {"open", "resolved"}, UpdateRecord(r, status)
      PROVE  BankInv'
    BY <1>2, UpdateRecordFits
<1>3. ASSUME NEW i \in DOMAIN prom, NEW outcome \in {"reviewed", "rejected"}, Review(i, outcome)
      PROVE  BankInv'
    BY <1>3, ReviewFits
<1>4. ASSUME NEW p \in Procs, NEW i \in DOMAIN prom, BeginApply(p, i)
      PROVE  BankInv'
    BY <1>4, BeginApplyFits
<1>5. ASSUME NEW p \in Procs, NEW f \in DOMAIN bank, BeginReverify(p, f)
      PROVE  BankInv'
    BY <1>5, BeginReverifyFits
<1>6. ASSUME NEW p \in Procs, NEW f \in DOMAIN bank, NEW g \in DOMAIN bank \cup {NoOne},
             NEW to \in 1..LastDay, BeginRetire(p, f, g, to)
      PROVE  BankInv'
    BY <1>6, BeginRetireFits
<1>7. ASSUME NEW p \in Procs, BeginCompact(p)
      PROVE  BankInv'
    BY <1>7, CompactingFits DEF BeginCompact
<1>8. ASSUME NEW p \in Procs, Write(p) \/ Reject(p) \/ Fail(p) \/ Kill(p)
      PROVE  BankInv'
    BY <1>8, WriteFits, RejectFits, FailFits, KillFits
<1>9. ASSUME NEW p \in Procs, \/ StartTurn(p) \/ AutoReview(p) \/ Apply(p) \/ Scan(p) \/ EndTurn(p)
                              \/ \E t \in proc[p].todo: Retry(p, t)
                              \/ \E r \in Recs, text \in 1..MaxRev: Pick(p, r, text)
      PROVE  BankInv'
    BY <1>9, StartTurnFits, AutoReviewFits, ApplyInTurnFits, ScanFits, EndTurnFits, RetryFits,
       PickFits
<1>10. CASE Tick \/ ChangeDoc \/ ReindexBank
    BY <1>10, TickFits, ChangeDocFits, ReindexFits
<1>11. CASE UNCHANGED vars
    <2>1. UNCHANGED <<day, doc, files, lock, undo, kills>> /\ UNCHANGED proc /\ prom' = prom
        BY <1>11 DEF vars, files, bounds
    <2>2. DoingsFit' /\ LockFits'
        BY <2>1, DoingsSame
    <2>3. TypesFit' /\ StoreFits'
        BY <2>1, StoreSame
    <2>. QED  BY <2>2, <2>3 DEF BankInv
<1>. QED
    BY <1>1, <1>2, <1>3, <1>4, <1>5, <1>6, <1>7, <1>8, <1>9, <1>10, <1>11 DEF Next

\* The invariant holds in every state of the bank's writers and their turns.
THEOREM BankInvariant == Spec => []BankInv
<1>1. Init => BankInv
    BY BankAssumption, InitFits
<1>2. BankInv /\ [Next]_vars => BankInv'
    BY BankAssumption, StepFits
<1>. QED  BY <1>1, <1>2, PTL DEF Spec

\* Without kills a bank that nobody writes to is sound: restore_files puts back
\* every file of a writer that fails, and compaction rewrites every chunk that
\* cites a record it moves (promoted_source_rewrites).
THEOREM QuietBankCorrect == Spec => []QuietBankIsSound
<1>1. BankInv => QuietBankIsSound
    BY DEF BankInv, StoreFits, Kept, Sound, Cited, QuietBankIsSound
<1>. QED  BY <1>1, BankInvariant, PTL

\* An applied promotion has its chunk in the bank, and there are no more chunks
\* without a promotion than kills: apply_promotion marks the promotion last.
THEOREM AppliedCorrect == Spec => []AppliedMeansInBank
<1>1. BankInv => AppliedMeansInBank
    BY DEF BankInv, StoreFits, Kept, Accounted, AppliedMeansInBank
<1>. QED  BY <1>1, BankInvariant, PTL

-----------------------------------------------------------------------------
(* What a step may never do.                                               *)

\* No step but the writing of a plan marks a promotion as applied.
NoneMarked == \A i \in DOMAIN prom: prom'[i].status = "applied" => prom[i].status = "applied"

\* A step leaves the settled bank alone, takes or frees the lock, or writes.
LEMMA StepKinds ==
    ASSUME BankAssumption, BankInv, [Next]_vars
    PROVE  \/ UNCHANGED <<lock, undo, bank>> /\ NoneMarked
           \/ lock = Free /\ lock' # Free /\ undo' = files /\ UNCHANGED files
           \/ \E p \in Procs: Write(p)
           \/ \E p \in Procs: lock = p /\ lock' = Free /\ Restore(undo)
           \/ \E p \in Procs: lock = p /\ lock' = Free /\ UNCHANGED files
<1>0. Free \notin Procs
    BY DEF BankAssumption, Free
<1>1. ASSUME NEW p \in Procs, NEW plan, NEW then, Begin(p, plan, then)
      PROVE  lock = Free /\ lock' # Free /\ undo' = files /\ UNCHANGED files
    BY <1>0, <1>1 DEF Begin
<1>2. ASSUME NEW i \in DOMAIN prom, NEW outcome \in {"reviewed", "rejected"},
             prom[i].status = "proposed", prom' = [prom EXCEPT ![i].status = outcome]
      PROVE  NoneMarked
    BY <1>2, Decided DEF NoneMarked
<1>3. ASSUME NEW p \in Procs, NEW r \in Recs, Propose(p, r)
      PROVE  UNCHANGED <<lock, undo, bank>> /\ NoneMarked
    BY <1>3 DEF Propose, NoneMarked, files
<1>4. ASSUME prom' = prom
      PROVE  NoneMarked
    BY <1>4 DEF NoneMarked
<1>5. ASSUME NEW p \in Procs, Create(p)
      PROVE  UNCHANGED <<lock, undo, bank>> /\ NoneMarked
    <2>1. PICK b: b = Head(proc[p].plan) /\ prom' = Append(prom, b) /\ UNCHANGED <<lock, undo, bank>>
        BY <1>5 DEF Create
    <2>2. b \in Promotions /\ b.status = "proposed"
        BY <1>5, <2>1, DoingOf DEF Create, DoingFits
    <2>. QED  BY <2>1, <2>2, Proposed DEF NoneMarked
<1>6. ASSUME NEW i \in DOMAIN prom, NEW outcome \in {"reviewed", "rejected"}, Review(i, outcome)
      PROVE  UNCHANGED <<lock, undo, bank>> /\ NoneMarked
    BY <1>2, <1>6 DEF Review
<1>7. ASSUME NEW r \in Recs, NEW status, UpdateRecord(r, status)
      PROVE  UNCHANGED <<lock, undo, bank>> /\ NoneMarked
    BY <1>4, <1>7 DEF UpdateRecord
<1>8. CASE Tick \/ ChangeDoc \/ ReindexBank \/ UNCHANGED vars
    BY <1>4, <1>8 DEF Tick, ChangeDoc, ReindexBank, vars, files
<1>9. ASSUME NEW p \in Procs, NEW i \in DOMAIN prom, NEW then, Reviewed(p, i, then)
      PROVE  UNCHANGED <<lock, undo, bank>> /\ NoneMarked
    BY <1>2, <1>4, <1>9 DEF Reviewed
<1>10. ASSUME NEW p \in Procs, NEW t \in proc[p].todo, Retry(p, t)
       PROVE  UNCHANGED <<lock, undo, bank>> /\ NoneMarked
    <2>1. proc[p].at = "retry" /\ t[1] \in DOMAIN prom
        BY <1>10, DoingOf DEF Retry, At, DoingFits
    <2>. QED  BY <1>4, <1>9, <1>10, <2>1 DEF Retry, files
<1>11. ASSUME NEW p \in Procs, AutoReview(p)
       PROVE  UNCHANGED <<lock, undo, bank>> /\ NoneMarked
    <2>1. proc[p].cur \in DOMAIN prom
        BY <1>11, DoingOf DEF AutoReview, At, DoingFits
    <2>. QED  BY <1>9, <1>11, <2>1 DEF AutoReview
<1>12. ASSUME NEW p \in Procs, NEW r \in Recs, NEW text \in 1..MaxRev, Pick(p, r, text)
       PROVE  UNCHANGED <<lock, undo, bank>> /\ NoneMarked
    BY <1>4, <1>12 DEF Pick, files
<1>13. ASSUME NEW p \in Procs, StartTurn(p) \/ Scan(p)
       PROVE  UNCHANGED <<lock, undo, bank>> /\ NoneMarked
    BY <1>4, <1>13 DEF StartTurn, Scan, files
<1>14. ASSUME NEW p \in Procs, Apply(p) \/ EndTurn(p)
       PROVE  \/ UNCHANGED <<lock, undo, bank>> /\ NoneMarked
              \/ lock = Free /\ lock' # Free /\ undo' = files /\ UNCHANGED files
    BY <1>1, <1>4, <1>14 DEF Apply, EndTurn, files
<1>15. ASSUME NEW p \in Procs, Reject(p) \/ Fail(p)
       PROVE  lock = p /\ lock' = Free /\ Restore(undo)
    BY <1>15 DEF Reject, Fail
<1>16. ASSUME NEW p \in Procs, Kill(p)
       PROVE  \/ UNCHANGED <<lock, undo, bank>> /\ NoneMarked
              \/ lock = p /\ lock' = Free /\ UNCHANGED files
    BY <1>4, <1>16 DEF Kill, files
<1>17. ASSUME NEW p \in Procs, \/ \E i \in DOMAIN prom: BeginApply(p, i)
                               \/ \E f \in DOMAIN bank: BeginReverify(p, f)
                               \/ \E f \in DOMAIN bank, g \in DOMAIN bank \cup {NoOne}, to \in 1..LastDay:
                                     BeginRetire(p, f, g, to)
                               \/ BeginCompact(p)
       PROVE  lock = Free /\ lock' # Free /\ undo' = files /\ UNCHANGED files
    BY <1>1, <1>17 DEF BeginApply, BeginReverify, BeginRetire, BeginCompact
<1>. QED
    BY <1>3, <1>5, <1>6, <1>7, <1>8, <1>10, <1>11, <1>12, <1>13, <1>14, <1>15, <1>16, <1>17 DEF Next

\* The files as the next step finds them settled.
LEMMA SettledGrows ==
    ASSUME BankAssumption, BankInv, [Next]_vars
    PROVE  Outgrows(Settled[3], Settled'[3])
<1>0. Free \notin Procs /\ IsBank(bank, day)
    BY DEF BankAssumption, Free, BankInv, TypesFit
<1>1. Settled[3] = IF lock = Free THEN bank ELSE undo[3]
    BY DEF Settled, files
<1>2. Settled'[3] = IF lock' = Free THEN bank' ELSE undo'[3]
    BY DEF Settled, files
<1>3. lock # Free => /\ Held(undo, proc[lock].plan, day, rec, prom, bank, index, kills)
                     /\ IsBank(undo[3], day) /\ Outgrows(undo[3], bank)
    BY DEF BankInv, StoreFits, Held, Underway
<1>4. \A b: IsBank(b, day) => Outgrows(b, b)
    BY GrownFromItself
<1>5. CASE UNCHANGED <<lock, undo, bank>>
    BY <1>0, <1>1, <1>2, <1>3, <1>4, <1>5
<1>6. CASE lock = Free /\ lock' # Free /\ undo' = files /\ UNCHANGED files
    <2>1. undo'[3] = bank
        BY <1>6 DEF files
    <2>. QED  BY <1>0, <1>1, <1>2, <1>4, <1>6, <2>1
<1>7. ASSUME NEW p \in Procs, Write(p)
      PROVE  Outgrows(Settled[3], Settled'[3])
    <2>. DEFINE plan == proc[p].plan
    <2>1. /\ lock = p /\ Effect(Head(plan), rec, prom, bank, index, rec', prom', bank', index')
          /\ UNCHANGED <<day, doc, kills>> /\ Onward(p, Head(plan))
        BY <1>7, Written
    <2>2. lock # Free /\ Held(undo, plan, day, rec, prom, bank, index, kills)
        BY <2>1, HolderOf
    <2>3. plan \in Seq(Steps) /\ plan # <<>> /\ PutsFit(plan, day, rec, bank, undo[3], kills)
        BY <2>2 DEF Held, Underway
    <2>4. Outgrows(undo[3], bank')
        <3>1. PICK R1, P1, b1, x1: R1 = rec' /\ P1 = prom' /\ b1 = bank' /\ x1 = index'
            OBVIOUS
        <3>2. Outgrows(undo[3], b1)
            BY <1>3, <2>1, <2>2, <2>3, <3>1, StaysGrown DEF BankInv, TypesFit
        <3>. QED  BY <3>1, <3>2
    <2>5. UNCHANGED <<lock, undo>> \/ lock' = Free
        BY <2>1 DEF Onward
    <2>. QED  BY <1>1, <1>2, <1>3, <1>4, <2>2, <2>4, <2>5
<1>8. ASSUME NEW p \in Procs, lock = p, lock' = Free, Restore(undo) \/ UNCHANGED files
      PROVE  Outgrows(Settled[3], Settled'[3])
    BY <1>0, <1>1, <1>2, <1>3, <1>4, <1>8 DEF Restore, files
<1>. QED  BY <1>5, <1>6, <1>7, <1>8, StepKinds

\* Nothing leaves the bank, no retired chunk is active again, and no failure
\* takes back what an earlier command had written: restore_files puts back what
\* the failing command found.
THEOREM BankOnlyGrows == Spec => NothingIsForgotten
<1>1. BankInv /\ [Next]_vars =>
        [LET was == Settled[3] now == Settled'[3]
         IN \A f \in DOMAIN was:
              /\ f \in DOMAIN now
              /\ was[f].status # "active" => now[f].status # "active"
              /\ now[f].auto = was[f].auto /\ was[f].verified <= now[f].verified]_vars
    BY BankAssumption, SettledGrows DEF Outgrows, Outlives
<1>. QED  BY <1>1, BankInvariant, PTL DEF Spec, NothingIsForgotten

\* A promotion that a step marks as applied quotes its record.
LEMMA MarkedQuotes ==
    ASSUME BankAssumption, BankInv, [Next]_vars, NEW i \in DOMAIN prom,
           prom'[i].status = "applied", prom[i].status # "applied",
           prom'[i].file \in DOMAIN bank
    PROVE  /\ bank[prom'[i].file].rev = prom[i].rev
           /\ bank[prom'[i].file].place = rec[prom[i].rec].place
<1>1. PICK p \in Procs: Write(p)
    <2>1. ~NoneMarked
        BY DEF NoneMarked
    <2>2. prom' # prom
        OBVIOUS
    <2>3. ASSUME NEW p \in Procs, lock = p
          PROVE  undo[2] = prom
        BY <2>3, HolderOf DEF Held
    <2>. QED  BY <2>1, <2>2, <2>3, StepKinds DEF Restore, files
<1>. DEFINE plan == proc[p].plan s == Head(plan)
<1>2. /\ lock = p /\ Effect(s, rec, prom, bank, index, rec', prom', bank', index')
    BY <1>1, Written
<1>3. plan \in Seq(Steps) /\ plan # <<>> /\ MarkFits(plan, rec, prom, bank)
    BY <1>2, HolderOf DEF Held, Underway
<1>4. s = plan[1] /\ 1 \in DOMAIN plan
    BY <1>3, TailOps
<1>. HIDE DEF s
<1>5. /\ s.op = "applied"
      /\ prom' = [prom EXCEPT ![s.prom] = [@ EXCEPT !.status = "applied", !.file = s.id]]
    BY <1>2 DEF Effect
<1>6. i = s.prom
    BY <1>5
<1>7. prom'[i].file = s.id
    <2>1. DOMAIN prom = 1..Len(prom)
          /\ prom[i] \in Promotions
        <3>1. DOMAIN prom = 1..Len(prom)
            BY LenProperties DEF BankInv, TypesFit, Proms
        <3>. QED  BY <3>1, ElementOfSeq DEF BankInv, TypesFit, Proms
    <2>. DEFINE new == [prom[s.prom] EXCEPT !.status = "applied", !.file = s.id]
    <2>2. prom' = [prom EXCEPT ![s.prom] = new]
        BY <1>5
    <2>3. new.file = s.id
        BY <2>1, <1>6 DEF Promotions
    <2>. HIDE DEF new
    <2>. QED  BY <2>1, <2>2, <2>3, <1>6
<1>8. s.id \in DOMAIN bank => Quotes(bank[s.id], prom, rec, s.prom)
    BY <1>3, <1>4, <1>5 DEF MarkFits
<1>. QED  BY <1>6, <1>7, <1>8 DEF Quotes

\* A record that changed or moved since its proposal never enters the bank under
\* it (apply_promotion, "Promotion source revision changed").
THEOREM ChunksQuoteProposals == Spec => ChunksQuoteWhatWasProposed
<1>1. BankInv /\ [Next]_vars =>
        [\A i \in DOMAIN prom: LET f == prom'[i].file
         IN prom'[i].status = "applied" /\ prom[i].status # "applied" /\ f \in DOMAIN bank =>
              bank[f].rev = prom[i].rev /\ bank[f].place = rec[prom[i].rec].place]_vars
    BY BankAssumption, MarkedQuotes
<1>. QED  BY <1>1, BankInvariant, PTL DEF Spec, ChunksQuoteWhatWasProposed

=============================================================================
