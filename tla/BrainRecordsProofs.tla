------------------------- MODULE BrainRecordsProofs -------------------------
(***************************************************************************)
(* What holds of the records for any number of processes, names, records,  *)
(* exceptions and kills.                                                   *)
(***************************************************************************)
EXTENDS BrainRecords, TLAPS

Creating == {"create", "start"}
Revising == {"update", "complete", "clear", "brain"}

-----------------------------------------------------------------------------
(* A record beside its handoff. *)

\* Statuses fit kinds, what is not there has left nothing, an event has no handoff.
PairFits(r, h) ==
    /\ r.status \in DOMAIN Transitions[r.kind]
    /\ IF r.place = "none" THEN r = Absent /\ h = NoHandoff ELSE r.rev >= 1
    /\ r.place = "archive" => r.status \in Terminal
    /\ r.kind = "event" => h = NoHandoff

IndexEntries == [id: Ids, status: DOMAIN Transitions.task \cup DOMAIN Transitions.event,
                 rev: 1..MaxRev, place: {"dynamic", "archive"}]

\* A store of files: those on disk, or a snapshot of them.
StoreFits(r, h, x) ==
    /\ r \in [Ids -> Entries] /\ h \in [Ids -> Handoffs] /\ x \subseteq IndexEntries
    /\ \A i \in Ids: PairFits(r[i], h[i])
    /\ \A i \in Ids: i > born => r[i] = Absent

-----------------------------------------------------------------------------
(* The command that holds the lock, by what it has written. *)

Holder == proc[lock]

Untouched(i) == rec[i] = undo.rec[i] /\ hand[i] = undo.hand[i]

MayWrite(r, c) == IF c.cmd \in Creating THEN r = Absent
                  ELSE Accepts(r, c.seen, c.to) /\ r.rev < MaxRev
Result(r, c) == IF c.cmd \in Creating THEN NewRecord("task", c.name) ELSE Revised(r, c.to)

\* The event of the completion that holds the lock.
Reported(i) == /\ i <= born
               /\ undo.rec[i] = Absent /\ rec[i] = NewRecord("event", Holder.id)
               /\ hand[i] = undo.hand[i]

\* One record and its handoff, and for a completion an event.
Writes ==
    LET c == Holder
        i == c.id
    IN /\ i <= born
       /\ MayWrite(undo.rec[i], c)
       /\ rec[i] = IF c.at = "record" THEN undo.rec[i] ELSE Result(undo.rec[i], c)
       /\ hand[i] = IF c.at \in {"record", "handoff"} \/ rec[i].kind = "event"
                    THEN undo.hand[i] ELSE HandoffOf(rec[i])
       /\ c.at = "handoff" => rec[i].kind = "task"
       /\ \A j \in Ids \ {i}: Untouched(j) \/ (c.at \in {"eventIndex", "commit"} /\ Reported(j))
       /\ c.at = "eventIndex" => born \in Ids \ {i} /\ Reported(born)

Moved(i) == /\ undo.rec[i].place = "dynamic" /\ undo.rec[i].status \in Terminal
            /\ rec[i] = [undo.rec[i] EXCEPT !.place = "archive"]
            /\ \/ hand[i] = undo.hand[i]
               \/ /\ undo.hand[i].place = "control"
                  /\ hand[i] = [undo.hand[i] EXCEPT !.place = "archive"]

\* Compaction: any number of records and handoffs, of a valid store.
Moves ==
    /\ \A i \in Ids: Untouched(i) \/ Moved(i)
    /\ \A i \in Ids: undo.hand[i].place = "control" => undo.rec[i].place = "dynamic"
    /\ Holder.at = "index" =>
          \A i \in Ids: rec[i].place = "archive" => hand[i].place # "control"

\* The indexes are those of before until they are rebuilt.
IndexFits ==
    /\ Holder.at \in {"record", "handoff", "move", "index"} => index = undo.index
    /\ Holder.at \in {"bind", "event", "commit"} => index = Derived(rec)
    /\ Holder.at = "eventIndex" => index = Derived([rec EXCEPT ![born] = Absent])

HolderFits ==
    /\ StoreFits(undo.rec, undo.hand, undo.index)
    /\ rec = [i \in Ids |-> rec[i]] /\ hand = [i \in Ids |-> hand[i]]
    /\ IF Holder.cmd = "compact" THEN Moves ELSE Writes
    /\ IndexFits

-----------------------------------------------------------------------------
(* The commands. *)

CommandFits(c) == c.at # "idle" =>
    /\ c.cmd \in Creating \cup Revising \cup {"compact"}
    /\ c.cmd \in Revising => c.id \in Ids
    /\ c.cmd \in Creating \cup {"update", "complete", "clear"} => c.name \in Names
    /\ c.cmd \in Creating /\ c.at # "waiting" => c.id \in Ids
    /\ c.cmd = "complete" => c.to = "completed"
    /\ c.at = "move" => c.cmd = "compact"
    /\ c.at \in {"record", "handoff"} => c.cmd # "compact"
    /\ c.at = "bind" => c.cmd \in {"start", "update", "clear"}
    /\ c.at \in {"event", "eventIndex", "commit"} => c.cmd = "complete"

ProcTypes == /\ lock \in Procs \cup {Free}
             /\ proc \in [Procs -> Commands]
             /\ \A p \in Procs: lock = p <=> proc[p].at \notin {"idle", "waiting"}
             /\ \A p \in Procs: CommandFits(proc[p])

CountTypes == /\ born \in 0..MaxRecords
              /\ binding \in [Names -> 0..MaxRecords]
              /\ acked \in [Ids -> Nat]
              /\ fails \in Nat /\ kills \in Nat /\ commitFails \in Nat

IInv == /\ ProcTypes /\ CountTypes
        /\ IF lock = Free THEN StoreFits(rec, hand, index) ELSE HolderFits

-----------------------------------------------------------------------------
(* The properties, of the store as everyone but the holder may rely on it. *)

KeptRec == IF lock = Free THEN rec ELSE undo.rec
KeptHand == IF lock = Free THEN hand ELSE undo.hand
KeptIndex == IF lock = Free THEN index ELSE undo.index

Counted(r, h, n) == r.kind = "task" =>
    r.rev \in n..(n + kills) \cap h.rev..(h.rev + kills)
RevisionInv == \A i \in Ids: Counted(KeptRec[i], KeptHand[i], acked[i])

Quotes(j, r) == \A m \in DOMAIN j: /\ \A k \in 1..m: j[k] <= j[m]
                                   /\ j[m] \in 1..r.rev
                                   /\ r.status \in Terminal => j[m] < r.rev
JournalInv == /\ journal = [i \in Ids |-> journal[i]]
              /\ \A i \in Ids: journal[i] \in Seq(1..MaxRev) /\ Quotes(journal[i], KeptRec[i])

EventsFit(r) == \A e \in Ids: r[e].kind = "event" =>
    /\ r[e].name \in Ids
    /\ r[r[e].name].kind = "task" /\ r[r[e].name].status = "completed"
EventInv == commitFails = 0 => EventsFit(KeptRec)

\* Beside a terminal record lies a closed handoff.
Sound(r, h, x) ==
    /\ \A i \in Ids: h[i].place # "none" =>
          /\ r[i].place # "none" /\ h[i].rev = r[i].rev
          /\ h[i].place = "control" => r[i].place = "dynamic"
          /\ h[i].place = "archive" \/ r[i].status \in Terminal => h[i].status = "closed"
    /\ x = Derived(r)
SoundInv == kills = 0 /\ commitFails = 0 => Sound(KeptRec, KeptHand, KeptIndex)

-----------------------------------------------------------------------------
(* Kinds, statuses and the records made of them. *)

LEMMA Lifecycle ==
  ASSUME NEW k \in {"task", "event"}, NEW s \in DOMAIN Transitions[k]
  PROVE  /\ FirstStatus[k] \in DOMAIN Transitions[k] \ Terminal
         /\ Transitions[k][s] \subseteq DOMAIN Transitions[k]
         /\ s = "completed" => Transitions[k][s] = {}
         /\ DOMAIN Transitions[k] \subseteq DOMAIN Transitions.task \cup DOMAIN Transitions.event
         /\ s = "completed" => k = "task"
<1>1. CASE k = "task"
  BY <1>1 DEF Transitions, FirstStatus, Terminal
<1>2. CASE k = "event"
  BY <1>2 DEF Transitions, FirstStatus, Terminal
<1> QED BY <1>1, <1>2

LEMMA AbsentFits == /\ Absent \in Entries /\ NoHandoff \in Handoffs
                    /\ PairFits(Absent, NoHandoff)
                    /\ Absent.place = "none" /\ Absent.kind = "task" /\ Absent.rev = 0
                    /\ Absent.status = "active"
                    /\ NoHandoff.place = "none" /\ NoHandoff.rev = 0
  BY BoundsAssumption DEF Absent, NoHandoff, Entries, Handoffs, PairFits, Transitions

LEMMA Bounds == Ids \subseteq Nat /\ MaxRecords \in Nat /\ MaxRev \in Nat /\ MaxRev >= 1
  BY BoundsAssumption DEF Ids

LEMMA NewFits ==
  ASSUME NEW k \in {"task", "event"}, NEW n \in Names \cup Ids
  PROVE  /\ NewRecord(k, n) \in Entries /\ PairFits(NewRecord(k, n), NoHandoff)
         /\ NewRecord(k, n).place = "dynamic" /\ NewRecord(k, n).kind = k
         /\ NewRecord(k, n).name = n /\ NewRecord(k, n).rev = 1
         /\ NewRecord(k, n).status = FirstStatus[k] /\ NewRecord(k, n) # Absent
<1>1. FirstStatus[k] \in DOMAIN Transitions[k] /\ FirstStatus[k] \in DOMAIN Transitions.task \cup DOMAIN Transitions.event
  BY DEF Transitions, FirstStatus
<1> QED BY <1>1, Bounds DEF NewRecord, Entries, PairFits, Absent

LEMMA RevisedIs ==
  ASSUME NEW r \in Entries, NEW h, PairFits(r, h), NEW seen, NEW to,
         Accepts(r, seen, to), r.rev < MaxRev
  PROVE  \E s \in DOMAIN Transitions[r.kind]:
           /\ s \in {r.status} \cup Transitions[r.kind][r.status]
           /\ to # Same => s = to
           /\ Revised(r, to) = [place |-> "dynamic", kind |-> r.kind, name |-> r.name,
                                status |-> s, rev |-> r.rev + 1]
           /\ r = [place |-> "dynamic", kind |-> r.kind, name |-> r.name,
                   status |-> r.status, rev |-> r.rev]
           /\ r.rev >= 1 /\ r.rev + 1 \in 1..MaxRev
<1> DEFINE s == IF to = Same THEN r.status ELSE to
<1>1. s \in DOMAIN Transitions[r.kind] /\ s \in {r.status} \cup Transitions[r.kind][r.status]
  BY Lifecycle DEF Accepts, PairFits, Entries
<1>2. Revised(r, to) = [r EXCEPT !.status = s, !.rev = r.rev + 1]
  BY DEF Revised
<1>3. /\ r = [place |-> r.place, kind |-> r.kind, name |-> r.name, status |-> r.status, rev |-> r.rev]
      /\ r.rev \in 0..MaxRev /\ r.place = "dynamic" /\ r.rev >= 1
  BY DEF Entries, Accepts, PairFits
<1>4. to # Same => s = to
  OBVIOUS
<1> HIDE DEF s
<1>5. Revised(r, to) = [place |-> r.place, kind |-> r.kind, name |-> r.name, status |-> s, rev |-> r.rev + 1]
  BY <1>2, <1>3
<1>6. r.rev + 1 \in 1..MaxRev
  BY <1>3, Bounds
<1> QED BY <1>1, <1>3, <1>4, <1>5, <1>6

LEMMA RevisedFits ==
  ASSUME NEW r \in Entries, NEW h, PairFits(r, h), NEW seen, NEW to,
         Accepts(r, seen, to), r.rev < MaxRev
  PROVE  /\ Revised(r, to) \in Entries /\ PairFits(Revised(r, to), h)
         /\ Revised(r, to).place = "dynamic" /\ Revised(r, to).place # "none"
<1>1. PICK s \in DOMAIN Transitions[r.kind]:
         /\ Revised(r, to) = [place |-> "dynamic", kind |-> r.kind, name |-> r.name,
                              status |-> s, rev |-> r.rev + 1]
         /\ r.rev + 1 \in 1..MaxRev
  BY RevisedIs
<1>2. s \in DOMAIN Transitions.task \cup DOMAIN Transitions.event
  BY Lifecycle DEF Entries
<1> QED BY <1>1, <1>2, Bounds DEF Entries, PairFits

LEMMA HandoffFits ==
  ASSUME NEW r \in Entries, NEW h, PairFits(r, h), r.place # "none", r.kind = "task"
  PROVE  /\ HandoffOf(r) \in Handoffs /\ PairFits(r, HandoffOf(r))
         /\ HandoffOf(r).place = "control" /\ HandoffOf(r).rev = r.rev
         /\ r.status \in Terminal => HandoffOf(r).status = "closed"
  BY DEF HandoffOf, Entries, Handoffs, PairFits

LEMMA DerivedFits ==
  ASSUME NEW r \in [Ids -> Entries], NEW h, \A i \in Ids: PairFits(r[i], h[i])
  PROVE  Derived(r) \subseteq IndexEntries
<1> SUFFICES ASSUME NEW i \in Ids, r[i].place # "none"
             PROVE  [id |-> i, status |-> r[i].status, rev |-> r[i].rev, place |-> r[i].place] \in IndexEntries
  BY DEF Derived
<1> QED BY BoundsAssumption DEF IndexEntries, Entries, PairFits

-----------------------------------------------------------------------------
(* The store under the holder's hands. *)

LEMMA CurrentFits ==
  ASSUME ProcTypes, CountTypes, lock # Free, HolderFits
  PROVE  StoreFits(rec, hand, index)
<1> DEFINE c == Holder
<1>0. c \in Commands /\ CommandFits(c) /\ c.at \notin {"idle", "waiting"}
  BY DEF ProcTypes, Holder
<1>1. /\ undo.rec \in [Ids -> Entries] /\ undo.hand \in [Ids -> Handoffs] /\ undo.index \subseteq IndexEntries
      /\ \A i \in Ids: PairFits(undo.rec[i], undo.hand[i]) /\ (i > born => undo.rec[i] = Absent)
      /\ rec = [i \in Ids |-> rec[i]] /\ hand = [i \in Ids |-> hand[i]]
      /\ born \in Nat /\ IndexFits
  BY DEF HolderFits, StoreFits, CountTypes
<1>2. ASSUME NEW i \in Ids, Untouched(i)
      PROVE  /\ rec[i] \in Entries /\ hand[i] \in Handoffs /\ PairFits(rec[i], hand[i])
             /\ i > born => rec[i] = Absent
  BY <1>1, <1>2 DEF Untouched
<1>3. ASSUME NEW i \in Ids, Moved(i)
      PROVE  /\ rec[i] \in Entries /\ hand[i] \in Handoffs /\ PairFits(rec[i], hand[i])
             /\ i > born => rec[i] = Absent
  BY <1>1, <1>3, AbsentFits DEF Moved, Entries, Handoffs, PairFits
<1>4. ASSUME NEW i \in Ids, Writes, c.id \in Ids, Reported(i)
      PROVE  /\ rec[i] \in Entries /\ hand[i] \in Handoffs /\ PairFits(rec[i], hand[i])
             /\ i > born => rec[i] = Absent
  <2>1. i <= born /\ rec[i] = NewRecord("event", c.id) /\ hand[i] = NoHandoff
    BY <1>1, <1>4, AbsentFits DEF Reported, PairFits
  <2> HIDE DEF c
  <2> QED BY <1>1, <1>4, <2>1, NewFits, AbsentFits, Bounds
<1>5. ASSUME Writes, c.cmd # "compact"
      PROVE  LET i == c.id
             IN /\ i \in Ids
                /\ rec[i] \in Entries /\ hand[i] \in Handoffs /\ PairFits(rec[i], hand[i])
                /\ i > born => rec[i] = Absent
  <2> DEFINE i == c.id
  <2>1. /\ CommandFits(c) /\ c.at \notin {"idle", "waiting"} /\ i \in Ids
    BY <1>0, <1>5 DEF CommandFits
  <2>2. /\ i <= born /\ MayWrite(undo.rec[i], c)
        /\ rec[i] = IF c.at = "record" THEN undo.rec[i] ELSE Result(undo.rec[i], c)
        /\ hand[i] = IF c.at \in {"record", "handoff"} \/ rec[i].kind = "event"
                     THEN undo.hand[i] ELSE HandoffOf(rec[i])
    BY <1>5 DEF Writes
  <2>3. CASE c.at = "record"
    BY <1>1, <2>1, <2>2, <2>3
  <2>4. CASE c.at # "record"
    <3>1. /\ rec[i] \in Entries /\ PairFits(rec[i], undo.hand[i]) /\ rec[i].place # "none"
      <4>1. CASE c.cmd \in Creating
        <5>1. c.name \in Names /\ undo.rec[i] = Absent /\ rec[i] = NewRecord("task", c.name)
          BY <2>1, <2>2, <2>4, <4>1 DEF MayWrite, Result, CommandFits
        <5>2. undo.hand[i] = NoHandoff
          BY <1>1, <2>1, <5>1, AbsentFits DEF PairFits
        <5> QED BY <5>1, <5>2, NewFits
      <4>2. CASE c.cmd \notin Creating
        <5>1. /\ Accepts(undo.rec[i], c.seen, c.to) /\ undo.rec[i].rev < MaxRev
              /\ rec[i] = Revised(undo.rec[i], c.to)
          BY <2>2, <2>4, <4>2 DEF MayWrite, Result
        <5>2. undo.rec[i] \in Entries /\ PairFits(undo.rec[i], undo.hand[i])
          BY <1>1, <2>1
        <5>3. Revised(undo.rec[i], c.to) \in Entries
          BY <5>1, <5>2, RevisedFits
        <5>4. PairFits(Revised(undo.rec[i], c.to), undo.hand[i])
          BY <5>1, <5>2, RevisedFits
        <5>5. Revised(undo.rec[i], c.to).place = "dynamic"
          BY <5>1, <5>2, RevisedFits
        <5>6. rec[i] = Revised(undo.rec[i], c.to) /\ Revised(undo.rec[i], c.to).place # "none"
          BY <5>1, <5>5
        <5> HIDE DEF c, i
        <5> QED BY <5>3, <5>4, <5>6
      <4> QED BY <4>1, <4>2
    <3>2. hand[i] \in Handoffs /\ PairFits(rec[i], hand[i])
      <4>1. undo.hand[i] \in Handoffs
        BY <1>1, <2>1
      <4>2. CASE hand[i] = undo.hand[i]
        BY <3>1, <4>1, <4>2
      <4>3. CASE hand[i] = HandoffOf(rec[i]) /\ rec[i].kind # "event"
        <5>1. rec[i].kind = "task"
          BY <3>1, <4>3 DEF Entries
        <5> QED BY <3>1, <4>3, <5>1, HandoffFits
      <4> QED BY <2>2, <4>2, <4>3
    <3>3. ~(i > born)
      BY <1>1, <2>1, <2>2, Bounds
    <3> HIDE DEF i
    <3> QED BY <2>1, <3>1, <3>2, <3>3 DEF i
  <2> QED BY <2>3, <2>4
<1>6. \A i \in Ids: /\ rec[i] \in Entries /\ hand[i] \in Handoffs /\ PairFits(rec[i], hand[i])
                    /\ i > born => rec[i] = Absent
  <2>1. CASE c.cmd = "compact"
    BY <2>1, <1>2, <1>3 DEF HolderFits, Moves
  <2>2. CASE c.cmd # "compact"
    <3>1. Writes
      BY <2>2 DEF HolderFits
    <3> QED BY <2>2, <3>1, <1>2, <1>4, <1>5 DEF Writes
  <2> QED BY <2>1, <2>2
<1>7. rec \in [Ids -> Entries] /\ hand \in [Ids -> Handoffs]
  BY <1>1, <1>6
<1>8. index \subseteq IndexEntries
  <2>1. c.at \in {"record", "handoff", "move", "index", "bind", "event", "eventIndex", "commit"}
    BY <1>0 DEF Commands
  <2>2. Derived(rec) \subseteq IndexEntries
    BY <1>6, <1>7, DerivedFits
  <2>3. CASE c.at = "eventIndex"
    <3> DEFINE r == [rec EXCEPT ![born] = Absent]
               h == [hand EXCEPT ![born] = NoHandoff]
    <3>1. r \in [Ids -> Entries] /\ \A i \in Ids: PairFits(r[i], h[i])
      BY <1>6, <1>7, AbsentFits
    <3>2. Derived(r) \subseteq IndexEntries
      <4> HIDE DEF r, h
      <4> QED BY <3>1, DerivedFits
    <3> QED BY <1>1, <2>3, <3>2 DEF IndexFits
  <2> QED BY <1>1, <2>1, <2>2, <2>3 DEF IndexFits
<1> QED BY <1>6, <1>7, <1>8 DEF StoreFits

-----------------------------------------------------------------------------
(* What a step does to the commands. *)

LEMMA IdleFits == /\ Idle \in Commands /\ CommandFits(Idle)
                  /\ Idle.at = "idle" /\ Idle.id = 0 /\ Idle.cmd = "none"
  BY Bounds DEF Idle, Commands, CommandFits, AutoRev, Same

LEMMA HolderIs ==
  ASSUME ProcTypes, NEW p \in Procs
  PROVE  /\ p # Free /\ proc[p] \in Commands /\ CommandFits(proc[p])
         /\ lock = p <=> proc[p].at \notin {"idle", "waiting"}
         /\ lock = p => Holder = proc[p] /\ lock # Free
  BY HolderAssumption DEF ProcTypes, Holder, Free

LEMMA CommandsAt ==
  ASSUME NEW c \in Commands, NEW i \in 0..MaxRecords,
         NEW where \in {"move", "record"}
  PROVE  [c EXCEPT !.at = where, !.id = i] \in Commands
  BY DEF Commands

\* The command of p becomes x; the lock stays, is taken or is freed as x says.
LEMMA Becomes ==
  ASSUME ProcTypes, NEW p \in Procs, NEW x \in Commands, CommandFits(x),
         proc' = [proc EXCEPT ![p] = x],
         \/ lock' = lock /\ lock # p /\ x.at \in {"idle", "waiting"}
         \/ lock' = p /\ lock \in {p, Free} /\ x.at \notin {"idle", "waiting"}
         \/ lock' = Free /\ lock = p /\ x.at \in {"idle", "waiting"}
  PROVE  /\ ProcTypes' /\ proc'[p] = x
         /\ lock' = p => Holder' = x
         /\ lock' = lock /\ lock \notin {p, Free} => Holder' = Holder
  BY HolderAssumption DEF ProcTypes, Holder, Free

\* The holder goes on.
LEMMA GoesOn ==
  ASSUME ProcTypes, NEW p \in Procs, lock = p, NEW where, GoTo(p, where), lock' = lock,
         where \in {"index", "handoff", "move", "bind", "event", "eventIndex", "commit"},
         CommandFits([proc[p] EXCEPT !.at = where])
  PROVE  /\ ProcTypes'
         /\ Holder'.at = where /\ Holder'.cmd = Holder.cmd /\ Holder'.id = Holder.id
         /\ Holder'.name = Holder.name /\ Holder'.seen = Holder.seen /\ Holder'.to = Holder.to
<1> DEFINE x == [proc[p] EXCEPT !.at = where]
<1>1. /\ x \in Commands /\ x.at = where /\ x.cmd = proc[p].cmd /\ x.id = proc[p].id
      /\ x.name = proc[p].name /\ x.seen = proc[p].seen /\ x.to = proc[p].to
  BY HolderIs DEF Commands
<1>2. proc' = [proc EXCEPT ![p] = x]
  BY DEF GoTo
<1> HIDE DEF x
<1>3. ProcTypes' /\ Holder' = x
  BY <1>1, <1>2, Becomes DEF x
<1> QED BY <1>1, <1>3, HolderIs

\* The holder lets go.
LEMMA LetsGo ==
  ASSUME ProcTypes, NEW p \in Procs, lock = p, proc' = [proc EXCEPT ![p] = Idle], lock' = Free
  PROVE  ProcTypes'
  BY IdleFits, Becomes

-----------------------------------------------------------------------------
(* Each command keeps the invariant. *)

LEMMA Asking ==
  ASSUME IInv, NEW p \in Procs, NEW x, Ask(p, x), x.at = "waiting", x \in Commands, CommandFits(x)
  PROVE  IInv'
<1>1. lock # p
  BY HolderIs, IdleFits DEF IInv, Ask
<1>2. ProcTypes' /\ (lock # Free => Holder' = Holder)
  BY <1>1, Becomes DEF IInv, Ask
<1>3. UNCHANGED <<files, born, undo, lock, binding, acked, fails, kills, commitFails>>
  BY DEF Ask
<1> QED BY <1>2, <1>3 DEF IInv, CountTypes, StoreFits, HolderFits, Moves, Writes, IndexFits,
                Untouched, Moved, Reported, files, Derived, InPlace

LEMMA Refusing ==
  ASSUME IInv, NEW p \in Procs, Refuse(p)
  PROVE  IInv'
<1>1. lock # p
  BY HolderIs DEF IInv, Refuse
<1>2. ProcTypes' /\ (lock # Free => Holder' = Holder)
  BY <1>1, IdleFits, Becomes DEF IInv, Refuse
<1>3. UNCHANGED <<files, born, undo, lock, binding, acked, fails, kills, commitFails>>
  BY DEF Refuse
<1> QED BY <1>2, <1>3 DEF IInv, CountTypes, StoreFits, HolderFits, Moves, Writes, IndexFits,
                Untouched, Moved, Reported, files, Derived, InPlace

LEMMA Beginning ==
  ASSUME IInv, NEW p \in Procs, Begin(p)
  PROVE  IInv'
<1> DEFINE c == proc[p]
           creates == c.cmd \in {"create", "start"}
           x == [c EXCEPT !.at = IF c.cmd = "compact" THEN "move" ELSE "record",
                          !.id = IF creates THEN born + 1 ELSE c.id]
<1>1. /\ c \in Commands /\ CommandFits(c) /\ c.at = "waiting" /\ lock = Free /\ lock' = p
      /\ StoreFits(rec, hand, index) /\ Can(c) /\ born \in Nat /\ ProcTypes
      /\ undo' = [rec |-> rec, hand |-> hand, index |-> index]
      /\ UNCHANGED <<rec, hand, index, binding, acked, fails, kills, commitFails>>
      /\ born' = IF creates THEN born + 1 ELSE born
  BY HolderIs DEF IInv, Begin, CountTypes, files
<1>2. proc' = [proc EXCEPT ![p] = x]
  BY DEF Begin
<1>3. /\ x.at = IF c.cmd = "compact" THEN "move" ELSE "record"
      /\ x.id = IF creates THEN born + 1 ELSE c.id
      /\ x.cmd = c.cmd /\ x.name = c.name /\ x.seen = c.seen /\ x.to = c.to
  BY <1>1 DEF Commands
<1>4. creates => born + 1 \in Ids /\ rec[born + 1] = Absent
  BY <1>1, Bounds DEF Can, CanCreate, Ids, StoreFits
<1> HIDE DEF x
<1>5. x \in Commands /\ CommandFits(x)
  <2>1. x.id \in 0..MaxRecords /\ x.at \in {"move", "record"}
    BY <1>1, <1>3, <1>4 DEF Commands, Ids
  <2>2. x \in Commands
    BY <1>1, <1>3, <2>1, CommandsAt DEF x
  <2>3. CommandFits(x)
    BY <1>1, <1>3, <1>4 DEF CommandFits, Creating, Revising
  <2> QED BY <2>2, <2>3
<1>6. ProcTypes' /\ Holder' = x
  BY <1>1, <1>2, <1>3, <1>5, Becomes
<1>7. CountTypes'
  BY <1>1, <1>4, Bounds DEF IInv, CountTypes, Ids
<1>8. StoreFits(undo.rec, undo.hand, undo.index)'
  BY <1>1, <1>4, Bounds DEF StoreFits
<1>9. rec' = [i \in Ids |-> rec'[i]] /\ hand' = [i \in Ids |-> hand'[i]] /\ \A i \in Ids: Untouched(i)'
  BY <1>1 DEF StoreFits, Untouched
<1>10. ASSUME x.cmd = "compact" PROVE Moves'
  BY <1>1, <1>3, <1>6, <1>9, <1>10 DEF Moves, Can, CanCompact, Valid, Creating
<1>11. ASSUME x.cmd # "compact" PROVE Writes'
  <2>1. MayWrite(rec[x.id], x) /\ x.id <= born'
    <3>1. CASE creates
      BY <1>1, <1>3, <1>4, <3>1 DEF MayWrite, Creating
    <3>2. CASE ~creates
      <4>1. c.id \in Ids /\ Accepts(rec[c.id], c.seen, c.to) /\ rec[c.id].rev < MaxRev
        BY <1>1, <1>3, <1>11, <3>2 DEF Can, CanRevise, CommandFits, Creating, Revising
      <4>2. c.id <= born
        BY <1>1, <4>1, AbsentFits, Bounds DEF StoreFits, Accepts
      <4> QED BY <1>1, <1>3, <3>2, <4>1, <4>2 DEF MayWrite, Creating
    <3> QED BY <3>1, <3>2
  <2>2. x.at = "record"
    BY <1>3, <1>11
  <2> QED BY <1>1, <1>6, <1>9, <2>1, <2>2 DEF Writes, Untouched
<1>12. IndexFits'
  BY <1>1, <1>3, <1>6 DEF IndexFits
<1> QED BY <1>1, <1>6, <1>7, <1>8, <1>9, <1>10, <1>11, <1>12, HolderIs DEF IInv, HolderFits

LEMMA Holding ==
  ASSUME IInv, NEW p \in Procs, lock = p
  PROVE  /\ lock # Free /\ p # Free /\ Holder = proc[p] /\ HolderFits /\ ProcTypes /\ CountTypes
         /\ Holder \in Commands /\ CommandFits(Holder) /\ Holder.at \notin {"idle", "waiting"}
         /\ StoreFits(rec, hand, index) /\ StoreFits(undo.rec, undo.hand, undo.index)
         /\ Holder.cmd # "compact" => Writes /\ Holder.id \in Ids
         /\ Holder.cmd = "compact" => Moves
<1>1. /\ lock # Free /\ p # Free /\ Holder = proc[p] /\ HolderFits /\ ProcTypes /\ CountTypes
      /\ Holder \in Commands /\ CommandFits(Holder) /\ Holder.at \notin {"idle", "waiting"}
  BY HolderIs DEF IInv
<1>2. Holder.cmd # "compact" => Holder.id \in Ids
  BY <1>1 DEF CommandFits
<1> QED BY <1>1, <1>2, CurrentFits DEF HolderFits

\* The invariant of a step at whose end the lock is held.
LEMMA HeldOn ==
  ASSUME ProcTypes', CountTypes', lock' # Free, StoreFits(undo.rec, undo.hand, undo.index)',
         rec' = [i \in Ids |-> rec'[i]], hand' = [i \in Ids |-> hand'[i]], IndexFits',
         \/ Holder'.cmd = "compact" /\ Moves'
         \/ Holder'.cmd # "compact" /\ Writes'
  PROVE  IInv'
  BY DEF IInv, HolderFits

\* A holder that goes on leaves the snapshot as it is.
LEMMA SnapshotStays ==
  ASSUME IInv, lock # Free, UNCHANGED <<born, undo>>
  PROVE  StoreFits(undo.rec, undo.hand, undo.index)'
  BY DEF IInv, HolderFits, StoreFits

LEMMA WritingRecord ==
  ASSUME IInv, NEW p \in Procs, WriteRecord(p)
  PROVE  IInv'
<1> DEFINE c == Holder
           i == c.id
           new == Result(rec[i], c)
           where == IF rec'[i].kind = "task" THEN "handoff" ELSE "index"
<1>1. /\ lock = p /\ c.at = "record" /\ c = proc[p] /\ c.cmd # "compact" /\ i \in Ids
      /\ ProcTypes /\ CountTypes /\ HolderFits /\ Writes /\ StoreFits(rec, hand, index)
  BY Holding DEF WriteRecord, At, CommandFits
<1>2. /\ rec' = [rec EXCEPT ![i] = new] /\ GoTo(p, where)
      /\ UNCHANGED <<hand, index, binding, born, lock, undo, acked, fails, kills, commitFails>>
  BY <1>1 DEF WriteRecord, Result, Creating
<1>3. CommandFits([proc[p] EXCEPT !.at = where]) /\ where \in {"handoff", "index"}
  BY <1>1, Holding DEF CommandFits, Commands
<1>4. /\ ProcTypes' /\ Holder'.at = where /\ Holder'.cmd = c.cmd /\ Holder'.id = i
      /\ Holder'.name = c.name /\ Holder'.seen = c.seen /\ Holder'.to = c.to
  BY <1>1, <1>2, <1>3, GoesOn
<1>5. /\ rec' = [j \in Ids |-> rec'[j]] /\ rec'[i] = new /\ \A j \in Ids \ {i}: rec'[j] = rec[j]
  BY <1>1, <1>2 DEF StoreFits
<1>6. MayWrite(undo.rec[i], Holder') /\ new = Result(undo.rec[i], Holder') /\ hand[i] = undo.hand[i]
  BY <1>1, <1>4 DEF Writes, MayWrite, Result
<1>7. rec'[i].kind \in {"task", "event"}
  <2>1. rec[i] \in Entries
    BY <1>1 DEF StoreFits
  <2>2. CASE c.cmd \in Creating
    BY <1>5, <2>2 DEF Result, NewRecord
  <2>3. CASE c.cmd \notin Creating
    BY <1>5, <2>1, <2>3 DEF Result, Revised, Entries
  <2> QED BY <2>2, <2>3
<1>8. \A j \in Ids \ {i}: Untouched(j)
  BY <1>1 DEF Writes
<1>9. Writes'
  <2> HIDE DEF new
  <2> QED BY <1>1, <1>2, <1>4, <1>5, <1>6, <1>7, <1>8 DEF Writes, Untouched
<1>10. IndexFits'
  BY <1>1, <1>2, <1>3, <1>4 DEF IndexFits, HolderFits
<1>11. CountTypes' /\ hand' = [j \in Ids |-> hand'[j]]
  BY <1>1, <1>2 DEF CountTypes, StoreFits
<1>12. lock' # Free
  BY <1>2, Holding, <1>1
<1> HIDE DEF new, where
<1> QED BY <1>1, <1>2, <1>4, <1>5, <1>9, <1>10, <1>11, <1>12, SnapshotStays, HeldOn

LEMMA WritingHandoff ==
  ASSUME IInv, NEW p \in Procs, WriteHandoff(p)
  PROVE  IInv'
<1> DEFINE c == Holder
           i == c.id
<1>1. /\ lock = p /\ c.at = "handoff" /\ c = proc[p] /\ c.cmd # "compact" /\ i \in Ids
      /\ ProcTypes /\ CountTypes /\ HolderFits /\ Writes /\ StoreFits(rec, hand, index)
  BY Holding DEF WriteHandoff, At, CommandFits
<1>2. /\ hand' = [hand EXCEPT ![i] = HandoffOf(rec[i])] /\ GoTo(p, "index")
      /\ UNCHANGED <<rec, index, binding, born, lock, undo, acked, fails, kills, commitFails>>
  BY <1>1 DEF WriteHandoff
<1>3. CommandFits([proc[p] EXCEPT !.at = "index"])
  BY <1>1, Holding DEF CommandFits, Commands
<1>4. /\ ProcTypes' /\ Holder'.at = "index" /\ Holder'.cmd = c.cmd /\ Holder'.id = i
      /\ Holder'.name = c.name /\ Holder'.seen = c.seen /\ Holder'.to = c.to
  BY <1>1, <1>2, <1>3, GoesOn
<1>5. /\ hand' = [j \in Ids |-> hand'[j]] /\ hand'[i] = HandoffOf(rec[i])
      /\ \A j \in Ids \ {i}: hand'[j] = hand[j]
  BY <1>1, <1>2 DEF StoreFits
<1>6. /\ MayWrite(undo.rec[i], Holder') /\ rec[i] = Result(undo.rec[i], Holder') /\ rec[i].kind = "task"
  BY <1>1, <1>4 DEF Writes, MayWrite, Result
<1>7. \A j \in Ids \ {i}: Untouched(j)
  BY <1>1 DEF Writes
<1>8. Writes'
  BY <1>1, <1>2, <1>4, <1>5, <1>6, <1>7 DEF Writes, Untouched
<1>9. IndexFits'
  BY <1>1, <1>2, <1>4 DEF IndexFits, HolderFits
<1>10. CountTypes' /\ rec' = [j \in Ids |-> rec'[j]] /\ lock' # Free
  BY <1>1, <1>2, Holding DEF CountTypes, StoreFits
<1> QED BY <1>1, <1>2, <1>4, <1>5, <1>8, <1>9, <1>10, SnapshotStays, HeldOn

LEMMA MovingFile ==
  ASSUME IInv, NEW p \in Procs, NEW f \in Ids, MoveFile(p, f)
  PROVE  IInv'
<1> DEFINE c == Holder
           left == {j \in Ids: \/ rec'[j].place = "dynamic" /\ rec'[j].status \in Terminal
                               \/ rec'[j].place = "archive" /\ hand'[j].place = "control"}
           where == IF left = {} THEN "index" ELSE "move"
<1>1. /\ lock = p /\ c.at = "move" /\ c = proc[p] /\ c.cmd = "compact"
      /\ ProcTypes /\ CountTypes /\ HolderFits /\ Moves /\ StoreFits(rec, hand, index)
  BY Holding DEF MoveFile, At, CommandFits
<1>2. /\ \/ /\ Movable(f) /\ rec' = [rec EXCEPT ![f].place = "archive"] /\ hand' = hand
         \/ /\ rec[f].place = "archive" /\ hand[f].place = "control"
            /\ hand' = [hand EXCEPT ![f].place = "archive"] /\ rec' = rec
      /\ UNCHANGED <<index, binding, born, lock, undo, acked, fails, kills, commitFails>>
      /\ GoTo(p, where)
  BY DEF MoveFile, InPlace
<1>3. CommandFits([proc[p] EXCEPT !.at = where]) /\ where \in {"move", "index"}
  BY <1>1, Holding DEF CommandFits, Commands, Creating, Revising
<1>4. /\ ProcTypes' /\ Holder'.at = where /\ Holder'.cmd = c.cmd
  BY <1>1, <1>2, <1>3, GoesOn
<1>5. /\ rec' = [j \in Ids |-> rec'[j]] /\ hand' = [j \in Ids |-> hand'[j]]
      /\ \A j \in Ids \ {f}: rec'[j] = rec[j] /\ hand'[j] = hand[j]
  BY <1>1, <1>2 DEF StoreFits
<1>6. Moved(f)'
  <2>1. Untouched(f) \/ Moved(f)
    BY <1>1 DEF Moves
  <2>2. rec[f] \in Entries /\ undo.rec[f] \in Entries /\ hand[f] \in Handoffs /\ undo.hand[f] \in Handoffs
    BY <1>1 DEF HolderFits, StoreFits
  <2>3. CASE Movable(f) /\ rec' = [rec EXCEPT ![f].place = "archive"] /\ hand' = hand
    <3>1. Untouched(f)
      BY <2>1, <2>2, <2>3 DEF Moved, Movable, Entries
    <3>2. rec'[f] = [rec[f] EXCEPT !.place = "archive"]
      BY <1>1, <2>3 DEF StoreFits
    <3> QED BY <1>2, <2>3, <3>1, <3>2 DEF Moved, Untouched, Movable
  <2>4. CASE /\ rec[f].place = "archive" /\ hand[f].place = "control"
             /\ hand' = [hand EXCEPT ![f].place = "archive"] /\ rec' = rec
    <3>1. Moved(f) /\ hand[f] = undo.hand[f]
      BY <1>1, <2>1, <2>2, <2>4 DEF Moves, Moved, Untouched, Handoffs
    <3>2. hand'[f] = [hand[f] EXCEPT !.place = "archive"]
      BY <1>1, <2>4 DEF StoreFits
    <3> QED BY <1>2, <2>4, <3>1, <3>2 DEF Moved
  <2> QED BY <1>2, <2>3, <2>4
<1>7. \A j \in Ids \ {f}: Untouched(j)' \/ Moved(j)'
  <2> SUFFICES ASSUME NEW j \in Ids \ {f} PROVE Untouched(j)' \/ Moved(j)'
    OBVIOUS
  <2>1. Untouched(j) \/ Moved(j)
    BY <1>1 DEF Moves
  <2>2. rec'[j] = rec[j] /\ hand'[j] = hand[j] /\ undo' = undo
    BY <1>2, <1>5
  <2> QED BY <2>1, <2>2 DEF Moved, Untouched
<1>8. where = "index" => \A j \in Ids: rec'[j].place = "archive" => hand'[j].place # "control"
  OBVIOUS
<1> HIDE DEF where
<1>9. Moves'
  BY <1>1, <1>2, <1>4, <1>6, <1>7, <1>8 DEF Moves
<1>10. IndexFits'
  BY <1>1, <1>2, <1>3, <1>4 DEF IndexFits, HolderFits
<1>11. CountTypes' /\ lock' # Free
  BY <1>1, <1>2, Holding DEF CountTypes
<1> QED BY <1>1, <1>2, <1>4, <1>5, <1>9, <1>10, <1>11, SnapshotStays, HeldOn

\* The command reports success.
LEMMA Finishing ==
  ASSUME IInv, NEW p \in Procs, lock = p, Done(p), born' = born, binding' \in [Names -> 0..MaxRecords],
         UNCHANGED <<fails, kills, commitFails, rec, hand>>, index' \in {index, Derived(rec)}
  PROVE  IInv'
<1>1. ProcTypes' /\ lock' = Free
  BY Holding, LetsGo DEF Done
<1>2. CountTypes'
  <2>1. acked \in [Ids -> Nat] /\ CountTypes
    BY DEF IInv, CountTypes
  <2>2. acked' \in [Ids -> Nat]
    <3>1. acked' = acked \/ acked' = [acked EXCEPT ![proc[p].id] = acked[proc[p].id] + 1]
      BY DEF Done
    <3> QED BY <2>1, <3>1
  <2> QED BY <2>1, <2>2 DEF CountTypes
<1>3. Derived(rec) \subseteq IndexEntries /\ StoreFits(rec, hand, index)
  BY Holding, DerivedFits DEF StoreFits
<1>4. StoreFits(rec, hand, index)'
  BY <1>3 DEF StoreFits
<1> QED BY <1>1, <1>2, <1>4 DEF IInv

\* The steps of a holder that change no record, no handoff and no snapshot.
LEMMA OnlyMoves ==
  ASSUME IInv, NEW p \in Procs, lock = p, NEW where, GoTo(p, where),
         where \in {"bind", "event", "commit"},
         Holder.at \in {"index", "event", "eventIndex"}, Holder.cmd # "compact",
         Holder.at # "index" => where = "commit",
         CommandFits([proc[p] EXCEPT !.at = where]),
         UNCHANGED <<rec, hand, binding, born, lock, undo, acked, fails, kills, commitFails>>,
         index' = Derived(rec)
  PROVE  IInv'
<1>1. /\ ProcTypes' /\ Holder'.at = where /\ Holder'.cmd = Holder.cmd /\ Holder'.id = Holder.id
      /\ Holder'.name = Holder.name /\ Holder'.seen = Holder.seen /\ Holder'.to = Holder.to
  BY Holding, GoesOn
<1>2. Writes /\ Holder.id \in Ids /\ lock' # Free /\ StoreFits(rec, hand, index) /\ CountTypes
  BY Holding
<1>3. \A j \in Ids: Untouched(j)' <=> Untouched(j)
  BY DEF Untouched
<1>4. \A j \in Ids: Reported(j)' <=> Reported(j)
  BY <1>1 DEF Reported
<1>5. MayWrite(undo.rec[Holder.id], Holder') /\ rec[Holder.id] = Result(undo.rec[Holder.id], Holder')
  BY <1>1, <1>2 DEF Writes, MayWrite, Result
<1>6. /\ hand[Holder.id] = IF rec[Holder.id].kind = "event" THEN undo.hand[Holder.id]
                           ELSE HandoffOf(rec[Holder.id])
      /\ \A j \in Ids \ {Holder.id}: Untouched(j) \/ (where = "commit" /\ Reported(j))
  BY <1>2 DEF Writes
<1>7. Writes'
  BY <1>1, <1>2, <1>3, <1>4, <1>5, <1>6 DEF Writes
<1>8. IndexFits'
  BY <1>1 DEF IndexFits, Derived, InPlace
<1>9. CountTypes' /\ rec' = [j \in Ids |-> rec'[j]] /\ hand' = [j \in Ids |-> hand'[j]]
  BY <1>2 DEF CountTypes, StoreFits
<1> QED BY <1>1, <1>2, <1>7, <1>8, <1>9, SnapshotStays, HeldOn

LEMMA Reindexing ==
  ASSUME IInv, NEW p \in Procs, Reindex(p)
  PROVE  IInv'
<1>1. /\ lock = p /\ Holder = proc[p] /\ Holder.at = "index" /\ CommandFits(Holder)
      /\ Holder \in Commands
  BY Holding DEF Reindex, At
<1>2. CASE Holder.cmd \in {"create", "brain", "compact"} /\ Done(p)
  <2>1. binding' \in [Names -> 0..MaxRecords]
    BY DEF Reindex, IInv, CountTypes
  <2> QED BY <1>1, <1>2, <2>1, Finishing DEF Reindex
<1>3. ASSUME NEW where \in {"bind", "event"}, GoTo(p, where), UNCHANGED <<lock, undo, acked>>,
             \/ where = "event" /\ Holder.cmd = "complete"
             \/ where = "bind" /\ Holder.cmd \in {"start", "update", "clear"}
      PROVE  IInv'
  <2>1. CommandFits([proc[p] EXCEPT !.at = where]) /\ Holder.cmd # "compact"
    BY <1>1, <1>3 DEF CommandFits, Commands, Creating, Revising
  <2> QED BY <1>1, <1>3, <2>1, OnlyMoves DEF Reindex
<1> QED BY <1>1, <1>2, <1>3 DEF Reindex

LEMMA ReindexingEvent ==
  ASSUME IInv, NEW p \in Procs, ReindexEvent(p)
  PROVE  IInv'
<1>1. /\ lock = p /\ Holder = proc[p] /\ Holder.at = "eventIndex" /\ CommandFits(Holder)
      /\ Holder \in Commands
  BY Holding DEF ReindexEvent, At
<1>2. CommandFits([proc[p] EXCEPT !.at = "commit"]) /\ Holder.cmd # "compact"
  BY <1>1 DEF CommandFits, Commands, Creating, Revising
<1> QED BY <1>1, <1>2, OnlyMoves DEF ReindexEvent

LEMMA Binding ==
  ASSUME IInv, NEW p \in Procs, Bind(p) \/ Commit(p)
  PROVE  IInv'
<1>1. lock = p /\ Holder = proc[p] /\ CommandFits(Holder) /\ Holder \in Commands
  BY Holding DEF Bind, Commit, At
<1>2. binding' \in [Names -> 0..MaxRecords]
  <2>1. binding \in [Names -> 0..MaxRecords] /\ 0 \in 0..MaxRecords /\ proc[p].id \in 0..MaxRecords
    BY <1>1, Bounds DEF IInv, CountTypes, Commands
  <2>2. \/ binding' = [binding EXCEPT ![proc[p].name] = proc[p].id]
        \/ binding' = [binding EXCEPT ![proc[p].name] = 0]
        \/ binding' = binding
    BY DEF Bind, Commit
  <2> QED BY <2>1, <2>2
<1> QED BY <1>1, <1>2, Finishing DEF Bind, Commit, files

LEMMA WritingEvent ==
  ASSUME IInv, NEW p \in Procs, WriteEvent(p)
  PROVE  IInv'
<1> DEFINE c == Holder
<1>0. lock = p /\ Holder.id \in Ids /\ born \in Nat /\ born < MaxRecords
  BY Bounds, Holding DEF WriteEvent, At, CommandFits, CountTypes
<1>a. PICK i \in Ids: i = Holder.id
  BY <1>0
<1>b. PICK e \in Ids: e = born + 1
  BY <1>0, Bounds DEF Ids
<1>1. /\ lock = p /\ lock # Free /\ c = proc[p] /\ c.at = "event" /\ CommandFits(c) /\ c \in Commands
      /\ c.cmd = "complete" /\ i \in Ids /\ i \in Nat /\ e \in Nat /\ c.id = i /\ ProcTypes /\ CountTypes /\ Writes
      /\ StoreFits(rec, hand, index) /\ StoreFits(undo.rec, undo.hand, undo.index)
      /\ index = Derived(rec)
  BY <1>a, Bounds, Holding DEF WriteEvent, At, CommandFits, HolderFits, IndexFits
<1>2. /\ e = born + 1 /\ e \in Ids /\ born' = e /\ born \in Nat /\ rec' = [rec EXCEPT ![e] = NewRecord("event", i)]
      /\ GoTo(p, "eventIndex")
      /\ UNCHANGED <<hand, index, binding, lock, undo, acked, fails, kills, commitFails>>
  BY <1>1, <1>b, Bounds DEF WriteEvent, CountTypes
<1>3. CommandFits([proc[p] EXCEPT !.at = "eventIndex"])
  BY <1>1 DEF CommandFits, Commands, Creating, Revising
<1>4. /\ ProcTypes' /\ Holder'.at = "eventIndex" /\ Holder'.cmd = c.cmd /\ Holder'.id = i
      /\ Holder'.name = c.name /\ Holder'.seen = c.seen /\ Holder'.to = c.to
  BY <1>1, <1>2, <1>3, GoesOn
<1>5. /\ rec' = [j \in Ids |-> rec'[j]] /\ rec'[e] = NewRecord("event", i)
      /\ \A j \in Ids \ {e}: rec'[j] = rec[j]
  BY <1>1, <1>2 DEF StoreFits
<1>6. i <= born /\ e # i /\ e > born
  BY <1>1, <1>2, Bounds DEF Writes
<1>7. rec[e] = Absent /\ undo.rec[e] = Absent
  BY <1>1, <1>2, <1>6 DEF StoreFits
<1>8. /\ \A j \in Ids \ {i}: Untouched(j)
      /\ MayWrite(undo.rec[i], Holder') /\ rec[i] = Result(undo.rec[i], Holder')
      /\ hand[i] = IF rec[i].kind = "event" THEN undo.hand[i] ELSE HandoffOf(rec[i])
  BY <1>1, <1>4 DEF Writes, MayWrite, Result
<1>9. Reported(e)'
  BY <1>1, <1>2, <1>4, <1>5, <1>6, <1>7, <1>8 DEF Reported, Untouched
<1>10. Writes'
  <2>1. rec'[i] = rec[i] /\ i <= born' /\ born' \in Ids \ {i}
    BY <1>1, <1>2, <1>5, <1>6
  <2>2. \A j \in Ids \ {i}: Untouched(j)' \/ Reported(j)'
    <3> SUFFICES ASSUME NEW j \in Ids \ {i}, j # e PROVE Untouched(j)'
      BY <1>9
    <3> QED BY <1>2, <1>5, <1>8 DEF Untouched
  <2> QED BY <1>1, <1>2, <1>4, <1>8, <1>9, <2>1, <2>2 DEF Writes
<1>11. IndexFits'
  <2>1. [rec' EXCEPT ![e] = Absent] = rec
    BY <1>1, <1>2, <1>5, <1>7 DEF StoreFits
  <2>2. Derived([rec' EXCEPT ![e] = Absent]) = index'
    BY <1>1, <1>2, <2>1
  <2>3. Derived([rec EXCEPT ![born] = Absent])' = Derived([rec' EXCEPT ![born'] = Absent])
    BY DEF Derived, InPlace
  <2> QED BY <1>2, <1>4, <2>2, <2>3 DEF IndexFits
<1>12. CountTypes' /\ lock' # Free /\ hand' = [j \in Ids |-> hand'[j]]
  BY <1>1, <1>2 DEF CountTypes, StoreFits, Ids
<1>13. StoreFits(undo.rec, undo.hand, undo.index)'
  <2>1. \A j \in Ids: j > born' => j > born
    BY <1>2, Bounds
  <2>2. undo' = undo
    BY <1>2
  <2> QED BY <1>1, <2>1, <2>2 DEF StoreFits
<1> QED BY <1>1, <1>4, <1>5, <1>10, <1>11, <1>12, <1>13, HeldOn

LEMMA GivingUpEvent ==
  ASSUME IInv, NEW p \in Procs, GiveUpEvent(p)
  PROVE  IInv'
<1>1. /\ lock = p /\ lock # Free /\ Holder = proc[p] /\ Holder.at \in {"event", "eventIndex"}
      /\ Holder.cmd = "complete" /\ CommandFits(Holder) /\ Holder \in Commands
      /\ ProcTypes /\ CountTypes /\ Writes /\ StoreFits(rec, hand, index) /\ Holder.id \in Ids
      /\ HolderFits
  BY Holding DEF GiveUpEvent, At, CommandFits
<1>2. CommandFits([proc[p] EXCEPT !.at = "commit"])
  BY <1>1 DEF CommandFits, Commands, Creating, Revising
<1>3. CASE Holder.at = "event"
  <2>1. index = Derived(rec) /\ rec' = rec
    BY <1>1, <1>3 DEF HolderFits, IndexFits, GiveUpEvent, At
  <2> QED BY <1>1, <1>2, <1>3, <2>1, OnlyMoves DEF GiveUpEvent
<1>4. CASE Holder.at = "eventIndex"
  <2>a. PICK i \in Ids: i = Holder.id
    BY <1>1
  <2>b. PICK e \in Ids: e = born
    BY <1>1, <1>4 DEF Writes
  <2>1. /\ rec' = [rec EXCEPT ![e] = Absent] /\ GoTo(p, "commit")
        /\ UNCHANGED <<hand, index, binding, born, lock, undo, acked, fails, kills, commitFails>>
    BY <1>1, <1>4, <2>b DEF GiveUpEvent, At
  <2>2. /\ ProcTypes' /\ Holder'.at = "commit" /\ Holder'.cmd = Holder.cmd /\ Holder'.id = i
        /\ Holder'.name = Holder.name /\ Holder'.seen = Holder.seen /\ Holder'.to = Holder.to
    BY <1>1, <1>2, <2>1, <2>a, GoesOn
  <2>3. /\ rec' = [j \in Ids |-> rec'[j]] /\ rec'[e] = Absent /\ \A j \in Ids \ {e}: rec'[j] = rec[j]
    BY <1>1, <2>1 DEF StoreFits
  <2>4. /\ i <= born /\ e # i /\ MayWrite(undo.rec[i], Holder') /\ rec[i] = Result(undo.rec[i], Holder')
        /\ hand[i] = IF rec[i].kind = "event" THEN undo.hand[i] ELSE HandoffOf(rec[i])
        /\ \A j \in Ids \ {i}: Untouched(j) \/ Reported(j)
        /\ undo.rec[e] = Absent /\ hand[e] = undo.hand[e]
    BY <1>1, <1>4, <2>2, <2>a, <2>b DEF Writes, MayWrite, Result, Reported
  <2>5. \A j \in Ids \ {i}: Untouched(j)' \/ Reported(j)'
    <3>1. Untouched(e)'
      BY <2>1, <2>3, <2>4 DEF Untouched
    <3>2. ASSUME NEW j \in Ids \ {i, e} PROVE Untouched(j)' \/ Reported(j)'
      BY <2>1, <2>2, <2>3, <2>4, <2>a DEF Untouched, Reported
    <3> QED BY <3>1, <3>2
  <2>6. Writes'
    BY <1>1, <2>1, <2>2, <2>3, <2>4, <2>5 DEF Writes
  <2>7. IndexFits'
    <3>1. index = Derived([rec EXCEPT ![born] = Absent])
      BY <1>1, <1>4 DEF HolderFits, IndexFits
    <3>2. index' = Derived(rec')
      BY <2>1, <2>b, <3>1
    <3>3. Derived(rec)' = Derived(rec')
      BY DEF Derived, InPlace
    <3> QED BY <2>2, <3>2, <3>3 DEF IndexFits
  <2>8. CountTypes' /\ lock' # Free /\ hand' = [j \in Ids |-> hand'[j]]
    BY <1>1, <2>1 DEF CountTypes, StoreFits
  <2> QED BY <1>1, <2>1, <2>2, <2>3, <2>6, <2>7, <2>8, SnapshotStays, HeldOn
<1> QED BY <1>1, <1>3, <1>4

-----------------------------------------------------------------------------
(* Failures. *)

\* Until an event is written, what a failure restores is the snapshot.
LEMMA RestoresAll ==
  ASSUME IInv, NEW p \in Procs, lock = p, Restore(p),
         Holder.at \in {"record", "handoff", "move", "index", "bind"}
  PROVE  rec' = undo.rec /\ hand' = undo.hand /\ index' = undo.index
<1>1. /\ Holder = proc[p] /\ StoreFits(undo.rec, undo.hand, undo.index)
      /\ StoreFits(rec, hand, index)
      /\ Holder.cmd # "compact" => Writes /\ Holder.id \in Ids
  BY Holding
<1>2. CASE Holder.cmd = "compact"
  BY <1>1, <1>2 DEF Restore
<1>3. CASE Holder.cmd # "compact"
  <2>1. \A j \in Ids \ {Holder.id}: rec[j] = undo.rec[j] /\ hand[j] = undo.hand[j]
    BY <1>1, <1>3 DEF Writes, Untouched
  <2>2. /\ rec' = [rec EXCEPT ![Holder.id] = undo.rec[Holder.id]]
        /\ hand' = [hand EXCEPT ![Holder.id] = undo.hand[Holder.id]] /\ index' = undo.index
    BY <1>1, <1>3 DEF Restore
  <2> QED BY <1>1, <1>3, <2>1, <2>2 DEF StoreFits
<1> QED BY <1>2, <1>3

LEMMA Failing ==
  ASSUME IInv, NEW p \in Procs, Fail(p)
  PROVE  IInv' /\ rec' = undo.rec /\ hand' = undo.hand /\ index' = undo.index
<1>1. /\ lock = p /\ Holder = proc[p] /\ Holder.at \in {"record", "handoff", "move", "index", "bind"}
      /\ ProcTypes /\ CountTypes /\ StoreFits(undo.rec, undo.hand, undo.index)
  BY Holding DEF Fail
<1>2. ProcTypes' /\ lock' = Free
  BY <1>1, LetsGo DEF Fail, GiveUp
<1>3. CountTypes' /\ born' = born
  BY <1>1 DEF Fail, CountTypes
<1>4. rec' = undo.rec /\ hand' = undo.hand /\ index' = undo.index
  BY <1>1, RestoresAll DEF Fail
<1>5. StoreFits(rec, hand, index)'
  BY <1>1, <1>3, <1>4 DEF StoreFits
<1> QED BY <1>2, <1>3, <1>4, <1>5 DEF IInv

LEMMA FailingStart ==
  ASSUME IInv, NEW p \in Procs, FailStart(p)
  PROVE  IInv' /\ rec' = undo.rec /\ hand' = undo.hand /\ index' = Derived(undo.rec)
<1>1. /\ lock = p /\ Holder = proc[p] /\ Holder.at = "bind" /\ Holder.cmd = "start"
      /\ ProcTypes /\ CountTypes /\ StoreFits(undo.rec, undo.hand, undo.index) /\ Writes
      /\ StoreFits(rec, hand, index) /\ Holder.id \in Ids
  BY Holding DEF FailStart, At
<1>2. ProcTypes' /\ lock' = Free
  BY <1>1, LetsGo DEF FailStart, GiveUp
<1>3. CountTypes' /\ born' = born
  <2>1. binding' \in [Names -> 0..MaxRecords]
    <3>1. binding \in [Names -> 0..MaxRecords] /\ binding' = [binding EXCEPT ![proc[p].name] = 0]
      BY <1>1 DEF FailStart, CountTypes
    <3>2. 0 \in 0..MaxRecords
      BY Bounds
    <3> QED BY <3>1, <3>2
  <2>2. fails' \in Nat /\ UNCHANGED <<born, acked, kills, commitFails>>
    BY <1>1 DEF FailStart, CountTypes
  <2> QED BY <1>1, <2>1, <2>2 DEF CountTypes
<1>4. undo.rec[Holder.id] = Absent /\ undo.hand[Holder.id] = NoHandoff
  BY <1>1, AbsentFits DEF Writes, MayWrite, Creating, StoreFits, PairFits
<1>5. rec' = undo.rec /\ hand' = undo.hand
  <2>1. \A j \in Ids \ {Holder.id}: rec[j] = undo.rec[j] /\ hand[j] = undo.hand[j]
    BY <1>1 DEF Writes, Untouched
  <2>2. /\ rec' = [rec EXCEPT ![Holder.id] = Absent] /\ hand' = [hand EXCEPT ![Holder.id] = NoHandoff]
    BY <1>1 DEF FailStart
  <2> QED BY <1>1, <1>4, <2>1, <2>2 DEF StoreFits
<1>6. index' = Derived(undo.rec)
  BY <1>5 DEF FailStart
<1>7. Derived(undo.rec) \subseteq IndexEntries
  BY <1>1, DerivedFits DEF StoreFits
<1>8. StoreFits(rec, hand, index)'
  BY <1>1, <1>3, <1>5, <1>6, <1>7 DEF StoreFits
<1> QED BY <1>2, <1>3, <1>5, <1>6, <1>8 DEF IInv

\* The task is restored; its event stays.
LEMMA FailingCommit ==
  ASSUME IInv, NEW p \in Procs, FailCommit(p)
  PROVE  /\ IInv' /\ lock' = Free
         /\ \A i \in Ids: /\ hand'[i] = undo.hand[i]
                          /\ rec'[i] = undo.rec[i] \/ (Reported(i) /\ rec'[i] = rec[i])
<1>1. /\ lock = p /\ Holder = proc[p] /\ Holder.at = "commit" /\ Holder.cmd = "complete"
      /\ ProcTypes /\ CountTypes /\ StoreFits(undo.rec, undo.hand, undo.index) /\ Writes
      /\ StoreFits(rec, hand, index) /\ Holder.id \in Ids
  BY Holding DEF FailCommit, At, CommandFits
<1>2. ProcTypes' /\ lock' = Free
  BY <1>1, LetsGo DEF FailCommit, GiveUp
<1>3. CountTypes' /\ born' = born
  BY <1>1 DEF FailCommit, CountTypes
<1>4. /\ rec' = [rec EXCEPT ![Holder.id] = undo.rec[Holder.id]]
      /\ hand' = [hand EXCEPT ![Holder.id] = undo.hand[Holder.id]] /\ index' = undo.index
  BY <1>1 DEF FailCommit, Restore
<1>5. \A j \in Ids \ {Holder.id}: Untouched(j) \/ Reported(j)
  BY <1>1 DEF Writes
<1>6. \A i \in Ids: /\ hand'[i] = undo.hand[i]
                    /\ rec'[i] = undo.rec[i] \/ (Reported(i) /\ rec'[i] = rec[i])
  BY <1>1, <1>4, <1>5 DEF StoreFits, Untouched, Reported
<1>7. rec' \in [Ids -> Entries] /\ hand' \in [Ids -> Handoffs]
  BY <1>1, <1>4 DEF StoreFits
<1>8. \A i \in Ids: PairFits(rec'[i], hand'[i]) /\ (i > born => rec'[i] = Absent)
  <2> SUFFICES ASSUME NEW i \in Ids PROVE PairFits(rec'[i], hand'[i]) /\ (i > born => rec'[i] = Absent)
    OBVIOUS
  <2>1. CASE rec'[i] = undo.rec[i]
    BY <1>1, <1>6, <2>1 DEF StoreFits
  <2>2. CASE Reported(i) /\ rec'[i] = rec[i]
    BY <1>1, <1>6, <2>2 DEF StoreFits, Reported
  <2> QED BY <1>6, <2>1, <2>2
<1>9. StoreFits(rec, hand, index)'
  BY <1>1, <1>3, <1>4, <1>7, <1>8 DEF StoreFits
<1>10. IInv'
  BY <1>2, <1>3, <1>9 DEF IInv
<1> QED BY <1>2, <1>6, <1>10

LEMMA Killing ==
  ASSUME IInv, NEW p \in Procs, Kill(p)
  PROVE  IInv' /\ lock' = Free
<1>1. /\ lock = p /\ ProcTypes /\ CountTypes /\ StoreFits(rec, hand, index)
  BY Holding DEF Kill
<1>2. ProcTypes' /\ lock' = Free
  BY <1>1, LetsGo DEF Kill, GiveUp
<1>3. CountTypes' /\ UNCHANGED <<born, rec, hand, index>>
  BY <1>1 DEF Kill, CountTypes, files
<1>4. StoreFits(rec, hand, index)'
  BY <1>1, <1>3 DEF StoreFits
<1> QED BY <1>2, <1>4, <1>3 DEF IInv

-----------------------------------------------------------------------------
(* The other commands. *)

LEMMA StandingStill ==
  ASSUME IInv, \/ \E i \in Ids: AppendMessage(i)
               \/ \E n \in Names: Rebind(n)
               \/ UNCHANGED vars
  PROVE  IInv'
<1>1. /\ UNCHANGED <<rec, hand, index, born, lock, undo, proc, acked, fails, kills, commitFails>>
      /\ \/ binding' = binding
         \/ \E n \in Names, i \in Ids: binding' = [binding EXCEPT ![n] = i]
  BY DEF AppendMessage, Rebind, vars, files
<1>2. CountTypes'
  BY <1>1, Bounds DEF IInv, CountTypes, Ids
<1>3. ProcTypes' /\ Holder' = Holder
  BY <1>1 DEF IInv, ProcTypes, Holder
<1> QED BY <1>1, <1>2, <1>3 DEF IInv, StoreFits, HolderFits, Moves, Writes, IndexFits,
                Untouched, Moved, Reported, Derived, InPlace

\* What the callers ask for are commands.
LEMMA AskingSteps ==
  ASSUME IInv, NEW p \in Procs,
         \/ \E n \in Names: \/ AskCreate(p, n) \/ AskStart(p, n) \/ AskClear(p, n)
                            \/ \E seen \in 0..MaxRev: AskUpdate(p, n, seen) \/ AskComplete(p, n, seen)
         \/ \E i \in Ids, seen \in 0..MaxRev, to \in Asked \cup {Same}:
              AskBrainUpdate(p, i, seen, to)
         \/ AskCompact(p)
  PROVE  \E x \in Commands: x.at = "waiting" /\ CommandFits(x) /\ Ask(p, x)
<1>0. 0 \in 0..MaxRev /\ 0 \in 0..MaxRecords /\ Ids \subseteq 0..MaxRecords
  BY Bounds DEF Ids
<1>1. ASSUME NEW n \in Names, AskCreate(p, n) \/ AskStart(p, n) PROVE \E x \in Commands: x.at = "waiting" /\ CommandFits(x) /\ Ask(p, x)
  <2> PICK cmd \in Creating: Ask(p, [Idle EXCEPT !.at = "waiting", !.cmd = cmd, !.name = n])
    BY <1>1 DEF AskCreate, AskStart, Creating
  <2> DEFINE x == [Idle EXCEPT !.at = "waiting", !.cmd = cmd, !.name = n]
  <2>1. Ask(p, x)
    OBVIOUS
  <2>2. x \in Commands /\ x.at = "waiting" /\ x.cmd = cmd /\ x.name = n
    BY <1>0, IdleFits DEF Commands, Creating
  <2>3. CommandFits(x)
    <3> HIDE DEF x
    <3> QED BY <2>2 DEF CommandFits, Creating, Revising
  <2> HIDE DEF x
  <2> QED BY <2>1, <2>2, <2>3
<1>2. ASSUME NEW n \in Names, NEW seen \in 0..MaxRev, NEW cmd \in {"update", "complete", "clear"},
             NEW to \in {Same, "completed", "cancelled"}, cmd = "complete" => to = "completed",
             AskBound(p, n, cmd, seen, to)
      PROVE  \E x \in Commands: x.at = "waiting" /\ CommandFits(x) /\ Ask(p, x)
  <2> DEFINE x == [at |-> "waiting", cmd |-> cmd, id |-> binding[n], name |-> n, seen |-> seen, to |-> to]
  <2>1. Ask(p, x)
    BY <1>2 DEF AskBound
  <2>2. binding[n] \in Ids
    BY <1>2, Bounds DEF AskBound, IInv, CountTypes, Ids
  <2>3. x \in Commands /\ CommandFits(x) /\ x.at = "waiting"
    BY <1>0, <1>2, <2>2 DEF Commands, CommandFits, Creating, Revising, Transitions
  <2> QED BY <2>1, <2>3
<1>3. ASSUME NEW i \in Ids, NEW seen \in 0..MaxRev, NEW to \in Asked \cup {Same},
             AskBrainUpdate(p, i, seen, to)
      PROVE  \E x \in Commands: x.at = "waiting" /\ CommandFits(x) /\ Ask(p, x)
  <2> DEFINE x == [Idle EXCEPT !.at = "waiting", !.cmd = "brain", !.id = i, !.seen = seen, !.to = to]
  <2>1. Ask(p, x)
    BY <1>3 DEF AskBrainUpdate
  <2>2. x \in Commands /\ x.at = "waiting" /\ x.cmd = "brain" /\ x.id = i /\ x.seen = seen /\ x.to = to
    BY <1>0, IdleFits, AskedAssumption DEF Commands, Transitions
  <2>3. CommandFits(x)
    <3> HIDE DEF x
    <3> QED BY <2>2 DEF CommandFits, Creating, Revising
  <2> HIDE DEF x
  <2> QED BY <2>1, <2>2, <2>3
<1>4. CASE AskCompact(p)
  <2> DEFINE x == [Idle EXCEPT !.at = "waiting", !.cmd = "compact"]
  <2>1. Ask(p, x)
    BY <1>4 DEF AskCompact
  <2>2. x \in Commands /\ x.at = "waiting" /\ x.cmd = "compact"
    BY <1>0, IdleFits DEF Commands
  <2>3. CommandFits(x)
    <3> HIDE DEF x
    <3> QED BY <2>2 DEF CommandFits, Creating, Revising
  <2> HIDE DEF x
  <2> QED BY <2>1, <2>2, <2>3
<1> QED BY <1>0, <1>1, <1>2, <1>3, <1>4 DEF AskClear, AskUpdate, AskComplete, AutoRev

-----------------------------------------------------------------------------
(* What a step is to the others: nothing, a success, a kill, or a commit    *)
(* that fails.                                                              *)

KeptStays == /\ KeptRec' = KeptRec /\ KeptHand' = KeptHand
             /\ KeptIndex' \in {KeptIndex, Derived(KeptRec)}
             /\ UNCHANGED <<acked, kills, commitFails>>

Succeeds == /\ lock # Free /\ lock' = Free
            /\ Holder.at \in {"index", "bind", "commit"}
            /\ rec' = rec /\ hand' = hand /\ index' = Derived(rec)
            /\ acked' = IF Holder.cmd = "compact" THEN acked
                        ELSE [acked EXCEPT ![Holder.id] = @ + 1]
            /\ UNCHANGED <<kills, commitFails>>

Dies == /\ lock # Free /\ lock' = Free
        /\ rec' = rec /\ hand' = hand /\ index' = index
        /\ kills' = kills + 1
        /\ UNCHANGED <<acked, commitFails>>

LosesCommit == /\ lock # Free /\ lock' = Free
               /\ Holder.cmd = "complete" /\ Holder.at = "commit"
               /\ \A i \in Ids: /\ hand'[i] = undo.hand[i]
                                /\ rec'[i] = undo.rec[i] \/ (Reported(i) /\ rec'[i] = rec[i])
               /\ commitFails' = commitFails + 1
               /\ UNCHANGED <<acked, kills>>

LEMMA WriterStays ==
  ASSUME lock # Free, UNCHANGED <<lock, undo, acked, kills, commitFails>>
  PROVE  KeptStays
  BY DEF KeptStays, KeptRec, KeptHand, KeptIndex

LEMMA ReaderStays ==
  ASSUME UNCHANGED <<files, lock, undo, acked, kills, commitFails>>
  PROVE  KeptStays
  BY DEF KeptStays, KeptRec, KeptHand, KeptIndex, files

LEMMA InitInv ==
  ASSUME Init
  PROVE  IInv
<1>1. ProcTypes
  BY IdleFits, HolderAssumption DEF Init, ProcTypes, Free
<1>2. CountTypes
  BY Bounds DEF Init, CountTypes
<1>3. StoreFits(rec, hand, index)
  BY AbsentFits DEF Init, StoreFits
<1> QED BY <1>1, <1>2, <1>3 DEF Init, IInv

LEMMA Asks ==
  ASSUME IInv, NEW p \in Procs,
         \/ \E n \in Names: \/ AskCreate(p, n) \/ AskStart(p, n) \/ AskClear(p, n)
                            \/ \E seen \in 0..MaxRev: AskUpdate(p, n, seen) \/ AskComplete(p, n, seen)
         \/ \E i \in Ids, seen \in 0..MaxRev, to \in Asked \cup {Same}:
              AskBrainUpdate(p, i, seen, to)
         \/ AskCompact(p)
  PROVE  IInv' /\ KeptStays /\ journal' = journal
<1>1. PICK x \in Commands: x.at = "waiting" /\ CommandFits(x) /\ Ask(p, x)
  BY AskingSteps
<1>2. KeptStays /\ journal' = journal
  BY <1>1, ReaderStays DEF Ask
<1> QED BY <1>1, <1>2, Asking

LEMMA Writing ==
  ASSUME IInv, NEW p \in Procs,
         \/ WriteRecord(p) \/ WriteHandoff(p) \/ (\E i \in Ids: MoveFile(p, i))
         \/ WriteEvent(p) \/ ReindexEvent(p) \/ GiveUpEvent(p)
  PROVE  IInv' /\ KeptStays /\ journal' = journal
<1>1. IInv'
  BY WritingRecord, WritingHandoff, MovingFile, WritingEvent, ReindexingEvent, GivingUpEvent
<1>2. lock = p /\ lock # Free
  BY Holding DEF WriteRecord, WriteHandoff, MoveFile, WriteEvent, ReindexEvent, GiveUpEvent, At
<1>3. UNCHANGED <<lock, undo, acked, kills, commitFails>> /\ journal' = journal
  BY DEF WriteRecord, WriteHandoff, MoveFile, WriteEvent, ReindexEvent, GiveUpEvent
<1> QED BY <1>1, <1>2, <1>3, WriterStays

LEMMA Reindexed ==
  ASSUME IInv, NEW p \in Procs, Reindex(p) \/ Bind(p) \/ Commit(p)
  PROVE  IInv' /\ (KeptStays \/ Succeeds) /\ journal' = journal
<1>1. IInv'
  BY Reindexing, Binding
<1>2. /\ lock = p /\ lock # Free /\ Holder = proc[p] /\ Holder.at \in {"index", "bind", "commit"}
      /\ HolderFits
  BY Holding DEF Reindex, Bind, Commit, At
<1>3. ASSUME Done(p), rec' = rec, hand' = hand, index' = Derived(rec), UNCHANGED <<kills, commitFails>>
      PROVE  Succeeds
  <2>1. /\ lock' = Free
        /\ acked' = IF Holder.cmd = "compact" THEN acked ELSE [acked EXCEPT ![Holder.id] = @ + 1]
    BY <1>2, <1>3 DEF Done
  <2> QED BY <1>2, <1>3, <2>1 DEF Succeeds
<1>4. ASSUME Reindex(p) PROVE KeptStays \/ Succeeds
  <2>1. /\ rec' = rec /\ hand' = hand /\ index' = Derived(rec) /\ UNCHANGED <<kills, commitFails>>
        /\ Done(p) \/ UNCHANGED <<lock, undo, acked>>
    BY <1>4 DEF Reindex
  <2>2. CASE UNCHANGED <<lock, undo, acked>>
    BY <1>2, <2>1, <2>2, WriterStays
  <2> QED BY <1>3, <2>1, <2>2
<1>5. ASSUME Bind(p) \/ Commit(p) PROVE Succeeds
  <2>1. index = Derived(rec)
    BY <1>2, <1>5 DEF HolderFits, IndexFits, Bind, Commit, At
  <2>2. Done(p) /\ rec' = rec /\ hand' = hand /\ index' = index /\ UNCHANGED <<kills, commitFails>>
    BY <1>5 DEF Bind, Commit, files
  <2> QED BY <1>3, <2>1, <2>2
<1>6. journal' = journal
  BY DEF Reindex, Bind, Commit
<1> QED BY <1>1, <1>4, <1>5, <1>6

LEMMA Restoring ==
  ASSUME IInv, NEW p \in Procs, Fail(p) \/ FailStart(p)
  PROVE  IInv' /\ KeptStays /\ journal' = journal
<1>1. /\ IInv' /\ rec' = undo.rec /\ hand' = undo.hand /\ index' \in {undo.index, Derived(undo.rec)}
  BY Failing, FailingStart
<1>2. lock = p /\ lock # Free /\ lock' = Free /\ UNCHANGED <<acked, kills, commitFails>> /\ journal' = journal
  BY Holding DEF Fail, FailStart, At, GiveUp
<1> QED BY <1>1, <1>2 DEF KeptStays, KeptRec, KeptHand, KeptIndex

LEMMA Steps ==
  ASSUME IInv, [Next]_vars
  PROVE  /\ IInv'
         /\ KeptStays \/ Succeeds \/ Dies \/ LosesCommit
         /\ journal' = journal \/ \E i \in Ids: AppendMessage(i)
<1>1. CASE \/ \E i \in Ids: AppendMessage(i)
           \/ \E n \in Names: Rebind(n)
           \/ UNCHANGED vars
  <2>1. KeptStays
    BY <1>1, ReaderStays DEF AppendMessage, Rebind, vars, files
  <2>2. journal' = journal \/ \E i \in Ids: AppendMessage(i)
    BY <1>1 DEF Rebind, vars
  <2> QED BY <1>1, <2>1, <2>2, StandingStill
<1>2. ASSUME NEW p \in Procs, Begin(p) \/ Refuse(p)
      PROVE  IInv' /\ KeptStays /\ journal' = journal
  <2>1. IInv'
    BY <1>2, Beginning, Refusing
  <2>2. ASSUME Begin(p) PROVE KeptStays
    <3>1. /\ lock = Free /\ lock' = p /\ undo' = [rec |-> rec, hand |-> hand, index |-> index]
          /\ UNCHANGED <<acked, kills, commitFails>>
      BY <2>2 DEF Begin
    <3>2. p # Free
      BY HolderIs DEF IInv
    <3> QED BY <3>1, <3>2 DEF KeptStays, KeptRec, KeptHand, KeptIndex
  <2>3. ASSUME Refuse(p) PROVE KeptStays
    <3>1. UNCHANGED <<files, lock, undo, acked, kills, commitFails>>
      BY <2>3 DEF Refuse
    <3> QED BY <3>1, ReaderStays
  <2>4. journal' = journal
    BY <1>2 DEF Begin, Refuse
  <2> QED BY <1>2, <2>1, <2>2, <2>3, <2>4
<1>3. ASSUME NEW p \in Procs, FailCommit(p)
      PROVE  IInv' /\ LosesCommit /\ journal' = journal
  <2>1. lock # Free /\ Holder.cmd = "complete" /\ Holder.at = "commit"
    BY <1>3, Holding DEF FailCommit, At, CommandFits
  <2>2. /\ IInv' /\ lock' = Free
        /\ \A i \in Ids: /\ hand'[i] = undo.hand[i]
                         /\ rec'[i] = undo.rec[i] \/ (Reported(i) /\ rec'[i] = rec[i])
    BY <1>3, FailingCommit
  <2> QED BY <1>3, <2>1, <2>2 DEF LosesCommit, FailCommit
<1>4. ASSUME NEW p \in Procs, Kill(p)
      PROVE  IInv' /\ Dies /\ journal' = journal
  <2>1. lock # Free
    BY <1>4, Holding DEF Kill
  <2> QED BY <1>4, <2>1, Killing DEF Dies, Kill, files
<1> QED BY <1>1, <1>2, <1>3, <1>4, Asks, Writing, Reindexed, Restoring DEF Next

\* Nobody writes but the holder of the lock, and what it has written so far is
\* told by its next step: its record, its handoff, the indexes, an event, or some of
\* what compaction moves (mutation_lock, and the snapshots taken under it).
THEOREM Invariance == Spec => []IInv
<1>1. IInv /\ [Next]_vars => IInv'
  BY Steps
<1> QED BY InitInv, <1>1, PTL DEF Spec

-----------------------------------------------------------------------------
(* What the holder has done so far, record by record, is a step of the     *)
(* ledger.                                                                 *)

LedgerStep(o, n) == n = o \/ Ledger!Created(o, n) \/ Ledger!Updated(o, n) \/ Ledger!Archived(o, n)

LEMMA Held ==
  ASSUME IInv, lock # Free
  PROVE  /\ HolderFits /\ Holder \in Commands /\ CommandFits(Holder) /\ Holder.at \notin {"idle", "waiting"}
         /\ StoreFits(rec, hand, index) /\ StoreFits(undo.rec, undo.hand, undo.index)
         /\ Holder.cmd # "compact" => Writes /\ Holder.id \in Ids
         /\ Holder.cmd = "compact" => Moves
<1>1. PICK p \in Procs: lock = p
  BY DEF IInv, ProcTypes
<1> QED BY <1>1, Holding

LEMMA LedgerFields ==
  ASSUME NEW o \in Entries, NEW n, LedgerStep(o, n), NEW h, PairFits(o, h)
  PROVE  /\ \/ n.rev = o.rev /\ n.status = o.status /\ n.kind = o.kind /\ n.name = o.name
            \/ n.rev = o.rev + 1
         /\ o # Absent => n.kind = o.kind /\ n.name = o.name
         /\ o.status = "completed" /\ o.kind = "task" => n.status = "completed"
<1>1. CASE n = o \/ Ledger!Archived(o, n)
  BY <1>1 DEF Ledger!Archived, Entries
<1>2. CASE Ledger!Created(o, n)
  BY <1>2, AbsentFits DEF Ledger!Created
<1>3. CASE Ledger!Updated(o, n)
  <2>1. n.rev = o.rev + 1 /\ n.kind = o.kind /\ n.name = o.name
    BY <1>3 DEF Ledger!Updated, Entries
  <2>2. o.status \in DOMAIN Transitions[o.kind] /\ n.status \in {o.status} \cup Transitions[o.kind][o.status]
    BY <1>3 DEF Ledger!Updated, PairFits
  <2> QED BY <2>1, <2>2, Lifecycle
<1> QED BY <1>1, <1>2, <1>3 DEF LedgerStep

\* The record of a command, and its handoff.
LEMMA HolderResult ==
  ASSUME IInv, lock # Free, Holder.cmd # "compact", NEW i \in Ids, i = Holder.id
  PROVE  \/ rec[i] = undo.rec[i] /\ hand[i] = undo.hand[i] /\ Holder.at = "record"
         \/ /\ Holder.at # "record" /\ LedgerStep(undo.rec[i], rec[i])
            /\ rec[i].rev = undo.rec[i].rev + 1 /\ rec[i].kind = undo.rec[i].kind
            /\ rec[i].place = "dynamic"
            /\ Holder.cmd = "complete" => rec[i].status = "completed" /\ rec[i].kind = "task"
            /\ hand[i] \in {undo.hand[i], HandoffOf(rec[i])}
            /\ Holder.at # "handoff" /\ rec[i].kind = "task" => hand[i] = HandoffOf(rec[i])
<1>1. /\ MayWrite(undo.rec[i], Holder)
      /\ rec[i] = IF Holder.at = "record" THEN undo.rec[i] ELSE Result(undo.rec[i], Holder)
      /\ hand[i] = IF Holder.at \in {"record", "handoff"} \/ rec[i].kind = "event"
                   THEN undo.hand[i] ELSE HandoffOf(rec[i])
      /\ CommandFits(Holder) /\ Holder.at \notin {"idle", "waiting"}
      /\ undo.rec[i] \in Entries /\ PairFits(undo.rec[i], undo.hand[i])
  BY Held DEF Writes, StoreFits
<1>2. CASE Holder.at = "record"
  BY <1>1, <1>2
<1>3. CASE Holder.at # "record" /\ Holder.cmd \in Creating
  <2>1. Holder.name \in Names /\ undo.rec[i] = Absent /\ rec[i] = NewRecord("task", Holder.name)
    BY <1>1, <1>3 DEF MayWrite, Result, CommandFits
  <2>2. /\ rec[i].place = "dynamic" /\ rec[i].kind = "task" /\ rec[i].rev = 1
        /\ rec[i].status = FirstStatus["task"] /\ rec[i] # Absent
    BY <2>1, NewFits
  <2>3. LedgerStep(undo.rec[i], rec[i])
    BY <2>1, <2>2 DEF LedgerStep, Ledger!Created
  <2> QED BY <1>1, <1>3, <2>1, <2>2, <2>3, AbsentFits DEF Creating
<1>4. CASE Holder.at # "record" /\ Holder.cmd \notin Creating
  <2>1. /\ Accepts(undo.rec[i], Holder.seen, Holder.to) /\ undo.rec[i].rev < MaxRev
        /\ rec[i] = Revised(undo.rec[i], Holder.to)
        /\ Holder.cmd = "complete" => Holder.to = "completed"
    BY <1>1, <1>4 DEF MayWrite, Result, CommandFits
  <2>2. PICK o \in Entries: o = undo.rec[i] /\ PairFits(o, undo.hand[i])
    BY <1>1
  <2>3. PICK s \in DOMAIN Transitions[o.kind]:
           /\ s \in {o.status} \cup Transitions[o.kind][o.status]
           /\ Holder.to # Same => s = Holder.to
           /\ rec[i] = [place |-> "dynamic", kind |-> o.kind, name |-> o.name, status |-> s, rev |-> o.rev + 1]
           /\ o = [place |-> "dynamic", kind |-> o.kind, name |-> o.name, status |-> o.status, rev |-> o.rev]
           /\ o.rev >= 1
    BY <2>1, <2>2, RevisedIs
  <2>4. LedgerStep(o, rec[i])
    <3>a. o.place = "dynamic" /\ rec[i].status = s
      BY <2>3
    <3>b. PICK n: n = [o EXCEPT !.status = s, !.rev = o.rev + 1]
      OBVIOUS
    <3>c. n = [place |-> o.place, kind |-> o.kind, name |-> o.name, status |-> s, rev |-> o.rev + 1]
      BY <3>b DEF Entries
    <3>d. rec[i] = n
      BY <2>3, <3>a, <3>c
    <3>1. rec[i] = [o EXCEPT !.status = rec[i].status, !.rev = o.rev + 1]
      BY <3>a, <3>b, <3>d
    <3>2. o # Absent /\ o.place = "dynamic" /\ rec[i].status = s
      BY <2>3, AbsentFits
    <3> QED BY <2>3, <3>1, <3>2 DEF LedgerStep, Ledger!Updated
  <2>5. Holder.cmd = "complete" => s = "completed" /\ o.kind = "task"
    BY <2>1, <2>3, Lifecycle DEF Same, Entries
  <2>6. /\ rec[i].rev = o.rev + 1 /\ rec[i].kind = o.kind /\ rec[i].place = "dynamic" /\ rec[i].status = s
    BY <2>3
  <2>7. rec[i].kind = "task" => rec[i].kind # "event"
    OBVIOUS
  <2> QED BY <1>1, <1>4, <2>2, <2>4, <2>5, <2>6, <2>7
<1> QED BY <1>2, <1>3, <1>4

LEMMA HolderSteps ==
  ASSUME IInv, lock # Free, NEW i \in Ids
  PROVE  LedgerStep(undo.rec[i], rec[i])
<1>1. undo.rec[i] \in Entries
  BY Held DEF StoreFits
<1>2. CASE Untouched(i)
  BY <1>2 DEF Untouched, LedgerStep
<1>3. CASE Moved(i)
  BY <1>3, AbsentFits DEF Moved, LedgerStep, Ledger!Archived
<1>4. CASE Reported(i) /\ Holder.id \in Ids
  BY <1>4, NewFits DEF Reported, LedgerStep, Ledger!Created
<1>5. CASE i = Holder.id /\ Holder.cmd # "compact"
  BY <1>5, HolderResult DEF LedgerStep
<1> QED BY <1>2, <1>3, <1>4, <1>5, Held DEF Moves, Writes

\* A step leaves of the kept records what it was, or what the holder made of it.
LEMMA KeptSteps ==
  ASSUME IInv, [Next]_vars, NEW i \in Ids
  PROVE  /\ KeptRec[i] \in Entries /\ PairFits(KeptRec[i], KeptHand[i])
         /\ LedgerStep(KeptRec[i], KeptRec'[i])
         /\ \/ KeptRec'[i] = KeptRec[i]
            \/ lock # Free /\ KeptRec = undo.rec /\ KeptRec'[i] = rec[i]
<1>1. KeptRec[i] \in Entries /\ PairFits(KeptRec[i], KeptHand[i])
  BY Held DEF IInv, StoreFits, KeptRec, KeptHand
<1>2. \/ KeptRec'[i] = KeptRec[i]
      \/ lock # Free /\ KeptRec = undo.rec /\ KeptRec'[i] = rec[i]
  BY Steps DEF KeptStays, Succeeds, Dies, LosesCommit, KeptRec
<1> QED BY <1>1, <1>2, HolderSteps DEF LedgerStep

-----------------------------------------------------------------------------
(* The theorems. *)

\* The store as everyone but the holder may rely on it is a ledger: create_record,
\* update_record, _write_record, compact and the restorations, an exception or a
\* kill at any point included, make whole steps of it.
THEOREM Refinement == Spec => RefinesLedger
<1>1. Init => Ledger!Init
  BY DEF Init, Ledger!Init
<1>2. IInv /\ [Next]_vars => [Ledger!Next]_(IF lock = Free THEN rec ELSE undo.rec)
  <2> SUFFICES ASSUME IInv, [Next]_vars
               PROVE  Ledger!Next
    OBVIOUS
  <2>1. ASSUME NEW i \in Ids PROVE LedgerStep(KeptRec[i], KeptRec'[i])
    BY KeptSteps
  <2> QED BY <2>1 DEF Ledger!Next, LedgerStep, KeptRec
<1> QED BY <1>1, <1>2, Invariance, PTL DEF Spec, RefinesLedger, Ledger!Spec

-----------------------------------------------------------------------------

LEMMA QuotesKept ==
  ASSUME NEW o \in Entries, NEW n \in Entries, LedgerStep(o, n), NEW h, PairFits(o, h),
         NEW j \in Seq(1..MaxRev), Quotes(j, o)
  PROVE  Quotes(j, n)
<1> SUFFICES ASSUME NEW m \in DOMAIN j
             PROVE  j[m] \in 1..n.rev /\ (n.status \in Terminal => j[m] < n.rev)
  BY DEF Quotes
<1>1. j[m] \in 1..o.rev /\ (o.status \in Terminal => j[m] < o.rev) /\ o.rev \in Nat /\ n.rev \in Nat
  BY DEF Quotes, Entries
<1>2. (n.rev = o.rev /\ n.status = o.status) \/ n.rev = o.rev + 1
  BY LedgerFields
<1> QED BY <1>1, <1>2

LEMMA Appending ==
  ASSUME NEW r \in Entries, NEW h, PairFits(r, h), r.place = "dynamic", r.status \notin Terminal,
         NEW j \in Seq(1..MaxRev), Quotes(j, r)
  PROVE  Append(j, r.rev) \in Seq(1..MaxRev) /\ Quotes(Append(j, r.rev), r)
<1>1. r.rev \in 1..MaxRev
  BY DEF Entries, PairFits
<1>2. Append(j, r.rev) \in Seq(1..MaxRev) /\ Len(Append(j, r.rev)) = Len(j) + 1 /\ Len(j) \in Nat
  BY <1>1
<1>3. \A m \in 1..Len(j): j[m] \in 1..r.rev /\ \A k \in 1..m: j[k] <= j[m]
  BY DEF Quotes
<1>4. \A m \in 1..(Len(j) + 1): Append(j, r.rev)[m] = IF m = Len(j) + 1 THEN r.rev ELSE j[m]
  BY <1>1, <1>2
<1>5. ASSUME NEW m \in 1..(Len(j) + 1), NEW k \in 1..m
      PROVE  Append(j, r.rev)[m] \in 1..r.rev /\ Append(j, r.rev)[k] <= Append(j, r.rev)[m]
  <2>1. m \in Nat /\ k \in Nat /\ (m # Len(j) + 1 => m \in 1..Len(j)) /\ (k # Len(j) + 1 => k \in 1..Len(j))
        /\ k \in 1..(Len(j) + 1) /\ (m # Len(j) + 1 => k # Len(j) + 1)
    BY <1>2
  <2>2. CASE m = Len(j) + 1
    BY <1>1, <1>3, <1>4, <2>1, <2>2
  <2>3. CASE m # Len(j) + 1
    BY <1>3, <1>4, <2>1, <2>3
  <2> QED BY <2>2, <2>3
<1>6. DOMAIN Append(j, r.rev) = 1..(Len(j) + 1)
  BY <1>2
<1> QED BY <1>2, <1>5, <1>6 DEF Quotes

\* The journals quote the kept records, in order (append_message takes the lock).
THEOREM JournalInvariance == Spec => []JournalInv
<1>1. Init => JournalInv
  BY DEF Init, JournalInv, Quotes
<1>2. IInv /\ JournalInv /\ [Next]_vars => JournalInv'
  <2> SUFFICES ASSUME IInv, JournalInv, [Next]_vars PROVE JournalInv'
    OBVIOUS
  <2>1. IInv' /\ (journal' = journal \/ \E i \in Ids: AppendMessage(i))
    BY Steps
  <2>2. CASE journal' = journal
    <3>1. ASSUME NEW i \in Ids PROVE Quotes(journal[i], KeptRec'[i])
      <4>1. KeptRec[i] \in Entries /\ PairFits(KeptRec[i], KeptHand[i]) /\ LedgerStep(KeptRec[i], KeptRec'[i])
        BY KeptSteps
      <4>2. KeptRec'[i] \in Entries
        <5>1. StoreFits(rec, hand, index)' \/ (lock # Free /\ StoreFits(undo.rec, undo.hand, undo.index))'
          BY <2>1 DEF IInv, HolderFits
        <5> QED BY <2>1, <5>1 DEF IInv, HolderFits, StoreFits, KeptRec
      <4> QED BY <4>1, <4>2, QuotesKept DEF JournalInv
    <3> QED BY <2>2, <3>1 DEF JournalInv, Quotes
  <2>3. ASSUME NEW i \in Ids, AppendMessage(i) PROVE JournalInv'
    <3>1. /\ lock = Free /\ UNCHANGED <<rec, lock, undo>>
          /\ rec[i].place = "dynamic" /\ rec[i].status \notin Terminal
          /\ journal' = [journal EXCEPT ![i] = Append(journal[i], rec[i].rev)]
      BY <2>3 DEF AppendMessage, files
    <3>2. rec[i] \in Entries /\ PairFits(rec[i], hand[i])
      BY <3>1 DEF IInv, StoreFits
    <3>3. KeptRec' = rec /\ KeptRec = rec
      BY <3>1 DEF KeptRec
    <3>4. journal'[i] \in Seq(1..MaxRev) /\ Quotes(journal'[i], rec[i])
      BY <3>1, <3>2, <3>3, Appending DEF JournalInv
    <3>5. \A k \in Ids \ {i}: journal'[k] = journal[k]
      BY <3>1 DEF JournalInv
    <3>6. journal' = [k \in Ids |-> journal'[k]]
      BY <3>1 DEF JournalInv
    <3>7. \A k \in Ids: journal'[k] \in Seq(1..MaxRev) /\ Quotes(journal'[k], KeptRec'[k])
      BY <3>3, <3>4, <3>5 DEF JournalInv
    <3> QED BY <3>6, <3>7 DEF JournalInv, Quotes
  <2> QED BY <2>1, <2>2, <2>3
<1> QED BY <1>1, <1>2, Invariance, PTL DEF Spec

\* A task's messages quote revisions it has had, none from its end on, also while
\* a command is half written (append_message).
THEOREM MessagesCorrect == Spec => []MessagesFollowRevisions
<1>1. IInv /\ JournalInv => MessagesFollowRevisions
  <2> SUFFICES ASSUME IInv, JournalInv, NEW i \in Ids PROVE Quotes(journal[i], rec[i])
    BY DEF MessagesFollowRevisions, Quotes
  <2>1. CASE lock = Free
    BY <2>1 DEF JournalInv, KeptRec
  <2>2. CASE lock # Free
    <3>1. LedgerStep(undo.rec[i], rec[i])
      BY <2>2, HolderSteps
    <3>2. undo.rec[i] \in Entries /\ rec[i] \in Entries /\ PairFits(undo.rec[i], undo.hand[i])
      BY <2>2, Held DEF StoreFits
    <3> QED BY <2>2, <3>1, <3>2, QuotesKept DEF JournalInv, KeptRec
  <2> QED BY <2>1, <2>2
<1> QED BY <1>1, Invariance, JournalInvariance, PTL

\* The files, the bindings and the commands keep their shapes, and only the holder
\* of the lock is past it (mutation_lock).
THEOREM TypeCorrect == Spec => []TypeOK
<1>1. IInv /\ JournalInv => TypeOK
  <2> SUFFICES ASSUME IInv, JournalInv PROVE TypeOK
    OBVIOUS
  <2>1. StoreFits(rec, hand, index)
    BY Held DEF IInv
  <2>2. IndexEntries \subseteq [id: Ids, status: {r.status: r \in Entries}, rev: 1..MaxRev,
                                place: {"dynamic", "archive"}]
    <3>1. ASSUME NEW s \in DOMAIN Transitions.task \cup DOMAIN Transitions.event
          PROVE  s \in {r.status: r \in Entries}
      <4> DEFINE r == [place |-> "none", kind |-> "task", name |-> 0, status |-> s, rev |-> 0]
      <4>1. r \in Entries
        BY Bounds DEF Entries
      <4> QED BY <4>1
    <3> QED BY <3>1 DEF IndexEntries
  <2>3. rec \in [Ids -> Entries] /\ hand \in [Ids -> Handoffs] /\ index \subseteq IndexEntries
    BY <2>1 DEF StoreFits
  <2>4. \A i \in Ids: journal[i] \in Seq(1..MaxRev)
    BY DEF JournalInv
  <2>5. /\ binding \in [Names -> 0..MaxRecords] /\ born \in 0..MaxRecords
        /\ lock \in Procs \cup {Free} /\ proc \in [Procs -> Commands]
        /\ \A p \in Procs: lock = p <=> proc[p].at \notin {"idle", "waiting"}
    BY DEF IInv, CountTypes, ProcTypes
  <2> QED BY <2>2, <2>3, <2>4, <2>5 DEF TypeOK
<1> QED BY <1>1, Invariance, JournalInvariance, PTL

-----------------------------------------------------------------------------

\* What the holder has done keeps events true.
LEMMA HolderEvents ==
  ASSUME IInv, lock # Free, EventsFit(undo.rec)
  PROVE  EventsFit(rec)
<1> SUFFICES ASSUME NEW e \in Ids, rec[e].kind = "event"
             PROVE  /\ rec[e].name \in Ids
                    /\ rec[rec[e].name].kind = "task" /\ rec[rec[e].name].status = "completed"
  BY DEF EventsFit
<1>1. \A i \in Ids: /\ undo.rec[i] \in Entries /\ PairFits(undo.rec[i], undo.hand[i])
                    /\ LedgerStep(undo.rec[i], rec[i])
  BY Held, HolderSteps DEF StoreFits
<1>2. CASE undo.rec[e].kind = "event" /\ undo.rec[e] # Absent
  <2>1. /\ rec[e].name = undo.rec[e].name /\ undo.rec[e].name \in Ids
        /\ undo.rec[undo.rec[e].name].kind = "task" /\ undo.rec[undo.rec[e].name].status = "completed"
    BY <1>1, <1>2, LedgerFields DEF EventsFit
  <2>2. PICK i \in Ids: i = rec[e].name
    BY <2>1
  <2>3. /\ undo.rec[i] \in Entries /\ PairFits(undo.rec[i], undo.hand[i]) /\ LedgerStep(undo.rec[i], rec[i])
        /\ undo.rec[i].kind = "task" /\ undo.rec[i].status = "completed"
    BY <1>1, <2>1, <2>2
  <2>4. undo.rec[i] # Absent
    BY <2>3, AbsentFits
  <2>5. rec[i].status = "completed" /\ rec[i].kind = undo.rec[i].kind
    BY <2>3, <2>4, LedgerFields
  <2> QED BY <2>2, <2>3, <2>5
<1>3. CASE ~(undo.rec[e].kind = "event" /\ undo.rec[e] # Absent)
  <2>1. undo.rec[e] = Absent /\ rec[e] # undo.rec[e]
    BY <1>1, <1>3, AbsentFits, LedgerFields
  <2>2. ~Moved(e) /\ ~Untouched(e)
    BY <2>1, AbsentFits DEF Moved, Untouched
  <2>3. /\ Holder.cmd # "compact" /\ Writes /\ Holder.id \in Ids /\ CommandFits(Holder)
        /\ Holder.at \notin {"idle", "waiting"}
    BY <2>2, Held DEF Moves
  <2>4. e # Holder.id
    <3>1. ASSUME e = Holder.id PROVE FALSE
      BY <2>1, <2>3, <3>1, HolderResult, AbsentFits
    <3> QED BY <3>1
  <2>5. Reported(e) /\ Holder.at \in {"eventIndex", "commit"}
    BY <2>2, <2>3, <2>4 DEF Writes
  <2>6. rec[e].name = Holder.id
    BY <2>3, <2>5, NewFits DEF Reported
  <2>7. Holder.cmd = "complete"
    BY <2>3, <2>5 DEF CommandFits
  <2>8. rec[Holder.id].status = "completed" /\ rec[Holder.id].kind = "task"
    BY <2>3, <2>5, <2>7, HolderResult
  <2> QED BY <2>3, <2>6, <2>8
<1> QED BY <1>2, <1>3

\* In the kept store every event names a completed task, until a completion fails
\* to commit (record_completion_event).
THEOREM EventInvariance == Spec => []EventInv
<1>1. Init => EventInv
  BY AbsentFits DEF Init, EventInv, EventsFit, KeptRec
<1>2. IInv /\ EventInv /\ [Next]_vars => EventInv'
  <2> SUFFICES ASSUME IInv, EventInv, [Next]_vars, commitFails' = 0 PROVE EventsFit(KeptRec')
    BY DEF EventInv, EventsFit
  <2>1. CASE KeptStays
    BY <2>1 DEF KeptStays, EventInv
  <2>2. CASE Succeeds \/ Dies
    <3>1. lock # Free /\ KeptRec = undo.rec /\ KeptRec' = rec /\ commitFails = 0
      BY <2>2 DEF Succeeds, Dies, KeptRec
    <3>2. EventsFit(undo.rec)
      BY <3>1 DEF EventInv
    <3>3. EventsFit(rec)
      BY <3>1, <3>2, HolderEvents
    <3> QED BY <3>1, <3>3
  <2>3. CASE LosesCommit
    BY <2>3 DEF LosesCommit, IInv, CountTypes
  <2> QED BY <2>1, <2>2, <2>3, Steps
<1> QED BY <1>1, <1>2, Invariance, PTL DEF Spec

\* An event reports a completed task at every moment, half written commands
\* included (record_completion_event runs after close_task).
THEOREM EventsCorrect == Spec => []EventsReportCompletedTasks
<1>1. IInv /\ EventInv => EventsReportCompletedTasks
  <2> SUFFICES ASSUME IInv, EventInv, commitFails = 0 PROVE EventsFit(rec)
    BY DEF EventsReportCompletedTasks, EventsFit
  <2> QED BY HolderEvents DEF EventInv, KeptRec
<1> QED BY <1>1, Invariance, EventInvariance, PTL

-----------------------------------------------------------------------------

\* How far the holder has taken a task and its handoff.
LEMMA HolderRevs ==
  ASSUME IInv, lock # Free, NEW i \in Ids, rec[i].kind = "task"
  PROVE  /\ undo.rec[i].kind = "task"
         /\ \/ /\ rec[i].rev = undo.rec[i].rev /\ hand[i].rev = undo.hand[i].rev
               /\ Holder.cmd # "compact" /\ i = Holder.id => Holder.at = "record"
            \/ /\ Holder.cmd # "compact" /\ i = Holder.id
               /\ rec[i].rev = undo.rec[i].rev + 1
               /\ hand[i].rev \in {undo.hand[i].rev, rec[i].rev}
               /\ Holder.at # "handoff" => hand[i].rev = rec[i].rev
<1>1. undo.rec[i] \in Entries /\ undo.hand[i] \in Handoffs
  BY Held DEF StoreFits
<1>2. CASE i = Holder.id /\ Holder.cmd # "compact"
  <2>1. HandoffOf(rec[i]).rev = rec[i].rev
    BY DEF HandoffOf
  <2> QED BY <1>1, <1>2, <2>1, HolderResult
<1>3. CASE Untouched(i) /\ ~(i = Holder.id /\ Holder.cmd # "compact")
  BY <1>3 DEF Untouched
<1>4. CASE Moved(i) /\ Holder.cmd = "compact"
  BY <1>1, <1>4 DEF Moved, Entries, Handoffs
<1>5. CASE Reported(i) /\ Holder.id \in Ids
  BY <1>5, NewFits DEF Reported
<1> QED BY <1>2, <1>3, <1>4, <1>5, Held DEF Moves, Writes

\* In the kept store revisions count the successes, up to the kills
\* (restore_record_state, _write_record).
THEOREM RevisionInvariance == Spec => []RevisionInv
<1>1. Init => RevisionInv
  BY AbsentFits DEF Init, RevisionInv, Counted, KeptRec, KeptHand
<1>2. IInv /\ RevisionInv /\ [Next]_vars => RevisionInv'
  <2> SUFFICES ASSUME IInv, RevisionInv, [Next]_vars, NEW i \in Ids, KeptRec'[i].kind = "task"
               PROVE  KeptRec'[i].rev \in acked'[i]..(acked'[i] + kills')
                                          \cap KeptHand'[i].rev..(KeptHand'[i].rev + kills')
    BY DEF RevisionInv, Counted
  <2>1. CASE KeptStays
    BY <2>1 DEF KeptStays, RevisionInv, Counted
  <2>2. CASE Succeeds \/ Dies
    <3>1. /\ lock # Free /\ KeptRec = undo.rec /\ KeptHand = undo.hand
          /\ KeptRec' = rec /\ KeptHand' = hand
      BY <2>2 DEF Succeeds, Dies, KeptRec, KeptHand
    <3>2. /\ undo.rec[i].kind = "task"
          /\ \/ /\ rec[i].rev = undo.rec[i].rev /\ hand[i].rev = undo.hand[i].rev
                /\ Holder.cmd # "compact" /\ i = Holder.id => Holder.at = "record"
             \/ /\ Holder.cmd # "compact" /\ i = Holder.id
                /\ rec[i].rev = undo.rec[i].rev + 1
                /\ hand[i].rev \in {undo.hand[i].rev, rec[i].rev}
                /\ Holder.at # "handoff" => hand[i].rev = rec[i].rev
      BY <3>1, HolderRevs
    <3>3. undo.rec[i].rev \in acked[i]..(acked[i] + kills) \cap undo.hand[i].rev..(undo.hand[i].rev + kills)
      BY <3>1, <3>2 DEF RevisionInv, Counted
    <3>4. acked \in [Ids -> Nat] /\ kills \in Nat /\ undo.rec[i].rev \in Nat /\ undo.hand[i].rev \in Nat
      BY <3>1, Held DEF IInv, CountTypes, StoreFits, Entries, Handoffs
    <3>5. CASE Succeeds
      <4>1. /\ acked'[i] = IF Holder.cmd # "compact" /\ i = Holder.id THEN acked[i] + 1 ELSE acked[i]
            /\ kills' = kills /\ Holder.at \notin {"record", "handoff"}
        BY <3>4, <3>5 DEF Succeeds
      <4>2. acked[i] \in Nat
        BY <3>4
      <4> QED BY <3>1, <3>2, <3>3, <3>4, <4>1, <4>2
    <3>6. CASE Dies
      <4>1. kills' = kills + 1 /\ acked' = acked /\ acked[i] \in Nat
        BY <3>4, <3>6 DEF Dies
      <4> QED BY <3>1, <3>2, <3>3, <3>4, <4>1
    <3> QED BY <2>2, <3>5, <3>6
  <2>3. CASE LosesCommit
    <3>1. /\ lock # Free /\ KeptRec = undo.rec /\ KeptHand = undo.hand
          /\ KeptRec' = rec' /\ KeptHand' = hand' /\ acked' = acked /\ kills' = kills
          /\ hand'[i] = undo.hand[i]
          /\ rec'[i] = undo.rec[i] \/ (Reported(i) /\ rec'[i] = rec[i])
      BY <2>3 DEF LosesCommit, KeptRec, KeptHand
    <3>2. ASSUME Reported(i), rec'[i] = rec[i] PROVE FALSE
      <4>1. Holder.id \in Ids
        BY <2>3, Held DEF LosesCommit
      <4>2. rec[i].kind = "event"
        BY <3>2, <4>1, NewFits DEF Reported
      <4> QED BY <3>1, <3>2, <4>2
    <3> QED BY <3>1, <3>2 DEF RevisionInv, Counted
  <2> QED BY <2>1, <2>2, <2>3, Steps
<1> QED BY <1>1, <1>2, Invariance, PTL DEF Spec

\* No two commands write one revision, none that failed stays, and a handoff is
\* behind its task by kills only (mutation_lock, restore_record_state).
THEOREM RevisionsCorrect == Spec => []RevisionsCountSuccesses
<1>1. RevisionInv => RevisionsCountSuccesses
  BY DEF RevisionInv, RevisionsCountSuccesses, Counted, KeptRec, KeptHand
<1> QED BY <1>1, RevisionInvariance, PTL

-----------------------------------------------------------------------------

\* Without kills and failed commits, handoffs quote their tasks from the right place
\* and the indexes are derived (restore_files, rollback_created_record).
THEOREM SoundInvariance == Spec => []SoundInv
<1>1. Init => SoundInv
  BY AbsentFits DEF Init, SoundInv, Sound, Derived, KeptRec, KeptHand, KeptIndex
<1>2. IInv /\ SoundInv /\ [Next]_vars => SoundInv'
  <2> SUFFICES ASSUME IInv, SoundInv, [Next]_vars, kills' = 0, commitFails' = 0
               PROVE  Sound(KeptRec', KeptHand', KeptIndex')
    BY DEF SoundInv, Sound, Derived, InPlace
  <2>1. CASE KeptStays
    BY <2>1 DEF KeptStays, SoundInv, Sound
  <2>2. CASE Succeeds
    <3>1. /\ lock # Free /\ kills = 0 /\ commitFails = 0 /\ Holder.at \in {"index", "bind", "commit"}
          /\ KeptRec = undo.rec /\ KeptHand = undo.hand /\ KeptIndex = undo.index
          /\ KeptRec' = rec /\ KeptHand' = hand /\ KeptIndex' = Derived(rec)
      BY <2>2 DEF Succeeds, KeptRec, KeptHand, KeptIndex
    <3>2. Sound(undo.rec, undo.hand, undo.index)
      BY <3>1 DEF SoundInv
    <3>3. ASSUME NEW i \in Ids, hand[i].place # "none"
          PROVE  /\ rec[i].place # "none" /\ hand[i].rev = rec[i].rev
                 /\ hand[i].place = "control" => rec[i].place = "dynamic"
                 /\ hand[i].place = "archive" \/ rec[i].status \in Terminal => hand[i].status = "closed"
      <4>1. /\ undo.rec[i] \in Entries /\ undo.hand[i] \in Handoffs /\ rec[i] \in Entries
            /\ PairFits(rec[i], hand[i])
        BY <3>1, Held DEF StoreFits
      <4>2. CASE Untouched(i)
        BY <3>2, <3>3, <4>2 DEF Untouched, Sound
      <4>3. CASE Moved(i) /\ Holder.cmd = "compact"
        <5>1. ~(rec[i].place = "archive" /\ hand[i].place = "control")
          BY <3>1, <4>3, Held DEF Moves, CommandFits, Creating, Revising
        <5>2. rec[i].place = "archive" /\ rec[i].rev = undo.rec[i].rev /\ rec[i].status = undo.rec[i].status
              /\ undo.rec[i].status \in Terminal
          BY <4>1, <4>3 DEF Moved, Entries
        <5>3. hand[i].rev = undo.hand[i].rev /\ hand[i].status = undo.hand[i].status
              /\ undo.hand[i].place # "none"
          BY <3>3, <4>1, <4>3 DEF Moved, Handoffs
        <5> QED BY <3>2, <5>1, <5>2, <5>3 DEF Sound
      <4>4. CASE Reported(i) /\ Holder.id \in Ids
        BY <3>3, <4>1, <4>4, NewFits, AbsentFits DEF Reported, PairFits
      <4>5. CASE i = Holder.id /\ Holder.cmd # "compact"
        <5>1. rec[i].kind = "task"
          BY <3>3, <4>1, AbsentFits DEF PairFits, Entries
        <5>2. hand[i] = HandoffOf(rec[i]) /\ rec[i].place = "dynamic"
          BY <3>1, <4>5, <5>1, HolderResult
        <5> QED BY <4>1, <5>1, <5>2, HandoffFits
      <4> QED BY <3>1, <4>2, <4>3, <4>4, <4>5, Held DEF Moves, Writes
    <3> QED BY <3>1, <3>3 DEF Sound
  <2>3. CASE Dies \/ LosesCommit
    BY <2>3 DEF Dies, LosesCommit, IInv, CountTypes
  <2> QED BY <2>1, <2>2, <2>3, Steps
<1> QED BY <1>1, <1>2, Invariance, PTL DEF Spec

\* The repository passes its own validation whenever the lock is free, whatever
\* exceptions came before (validate_repository).
THEOREM QuietStoreCorrect == Spec => []QuietStoreIsValid
<1>1. IInv /\ SoundInv => QuietStoreIsValid
  <2> SUFFICES ASSUME IInv, SoundInv, lock = Free, kills = 0, commitFails = 0 PROVE Valid
    BY DEF QuietStoreIsValid
  <2>1. StoreFits(rec, hand, index) /\ Sound(rec, hand, index)
    BY DEF IInv, SoundInv, KeptRec, KeptHand, KeptIndex
  <2> QED BY <2>1 DEF Valid, InPlace, Sound, StoreFits, PairFits
<1> QED BY <1>1, Invariance, SoundInvariance, PTL

=============================================================================
