----------------------------- MODULE TurnProofs -----------------------------
(***************************************************************************)
(* What holds of a turn of an agent, at either end of it, for any number   *)
(* of sessions, tasks and turns: of the pack that Retrieval hands it when  *)
(* it starts, and of the buffer that keeps what it changed when it stops   *)
(* (TurnBuffer).  The two share no state; each part below has its own      *)
(* specification, invariants and theorems.                                 *)
(*                                                                         *)
(* Retrieval: the manifest is a fold over the candidates (Chosen), whose   *)
(* every value is an item that was found once; this is shown for the fold  *)
(* cut off at any length, by taking the least length at which it fails.    *)
(***************************************************************************)
EXTENDS Retrieval, TurnBuffer, FiniteSetTheorems, WellFoundedInduction, TLAPS


-----------------------------------------------------------------------------
(* RETRIEVAL.  The invariants. *)

Finding == {"words", "cover", "search"}
Steps == Finding \cup {"idle", "filter", "paths", "conflicts", "remember", "store", "manifest",
                       "prune", "assemble", "shown"}
Prints == UNION {[S -> Nat] : S \in SUBSET (Sources \cup UNION {Doc[d].cites : d \in Docs})}
Rows == [ver : Nat, prints : Prints]
Item == [doc : Docs, row : Rows]
Words == {{}} \cup UNION {{q.words : q \in Asks[t]} : t \in Tasks}
Sign == [words : Words, docs : SUBSET Docs]
Entry == [task : Tasks, sign : Sign]
Listed == [turn : Nat, docs : SUBSET Docs]
Scopes == {"governed", "local"}
Fields == {"at", "turn", "task", "words", "paths", "allowed", "terms", "relevant", "items", "out", "known",
           "pending", "chosen", "skip", "sign", "last", "capsule", "calm", "newest"}

\* A turn: which fields it has, and what is in those that the rest speaks of.
TurnOK(x) ==
    /\ DOMAIN x = Fields /\ x.at \in Steps
    /\ x.turn \in Nat /\ x.words \in Words
    /\ x.task \in Tasks \cup {Nobody} /\ (x.at # "idle" => x.task \in Tasks)
    /\ x.items \in Seq(Item) /\ x.chosen \in Seq(Item) /\ x.capsule \in Seq(Item)
    /\ x.sign \in Sign /\ x.last \in Seq(Entry)
    /\ x.skip \in BOOLEAN /\ x.calm \in BOOLEAN /\ x.newest \in BOOLEAN

TypeOK ==
    /\ file \in [Docs -> Rows] /\ row \in [Docs -> Rows] /\ source \in [Sources -> Nat]
    /\ allowed \subseteq Classes /\ turns \in Nat /\ edits \in Nat /\ faults \in Nat
    /\ last \in Seq(Entry) /\ manifests \in [Scopes -> Seq(Listed)]
    /\ got \in [Tasks -> Sign] /\ tidy \in BOOLEAN
    /\ proc = [p \in Procs |-> proc[p]] /\ \A p \in Procs: TurnOK(proc[p])

\* A list that names no document twice.
Once(s) == IsInjective(s) /\ \A x, y \in Range(s): x.doc = y.doc => x = y

\* What a turn has found is found once, and what its conflicts name is found, is
\* told of, or is asked for next.
Asked(x) == DocsOf(x.items) \cup {e.doc : e \in x.out} \cup x.pending
FoundFits(x) ==
    /\ Once(x.items) /\ x.pending \cap DocsOf(x.items) = {}
    /\ x.at # "conflicts" => x.pending = {}
    /\ x.at = "conflicts" =>
         x.known = DocsOf(x.items) /\ Conflicting(x.items) \subseteq Asked(x)
    /\ x.at \in {"remember", "store", "manifest"} =>
         /\ Conflicting(x.items) \subseteq Asked(x)
         /\ Range(x.chosen) \subseteq Range(x.items)
         /\ ~x.skip => DocsOf(x.items) \subseteq DocsOf(x.chosen) \cup {e.doc : e \in x.out}
         /\ x.skip => x.chosen = <<>>
Found == \A p \in Procs: FoundFits(proc[p])

\* The items that may be delivered, as things stand.
Good == {it \in Item: Reason(it, allowed) = "none" /\ it.row # Gone}

\* A turn during which nothing was edited has judged its items by what still is.
CalmFits(x, good, classes) == x.calm =>
    /\ x.at \in Finding \cup {"filter", "paths", "conflicts"} => x.allowed = classes
    /\ \A it \in Range(x.items): it.row # Gone
    /\ x.at \in {"paths", "conflicts"} => Range(x.items) \subseteq good
    /\ Range(x.chosen) \cup Range(x.capsule) \subseteq good
CitesAreKept(f) == \A d \in Docs: f[d] = Gone \/ Doc[d].cites \cap Sources \subseteq DOMAIN f[d].prints
Calm == \A p \in Procs: CalmFits(proc[p], Good, allowed)

\* The manifests of a scope that are about a turn.
Mine(x, dirs) == {m \in Range(dirs[Scope[x.task]]): m.turn = x.turn}
Tops(dir, n) == dir # <<>> /\ dir[Len(dir)].turn = n
Written == {"prune", "assemble", "shown"}
RecordFits(x, dirs, n) ==
    /\ x.at # "idle" => x.turn <= n
    /\ x.at # "shown" => x.capsule = <<>>
    /\ x.at \notin Written \cup {"idle"} => \A c \in Scopes: \A m \in Range(dirs[c]): m.turn # x.turn
    /\ x.at \in Written =>
         /\ x.newest => Tops(dirs[Scope[x.task]], x.turn)
         /\ \A m \in Mine(x, dirs): DocsOf(x.chosen) \cup DocsOf(x.capsule) \subseteq m.docs
Recorded ==
    /\ \A c \in Scopes: \A m \in Range(manifests[c]): m.turn <= turns
    /\ \A p, o \in Procs: p # o /\ proc[p].at # "idle" /\ proc[o].at # "idle" => proc[p].turn # proc[o].turn
    /\ \A p \in Procs: RecordFits(proc[p], manifests, turns)

\* While turns are tidy, one runs per task, and what is remembered of a task is
\* what it was handed, or what its turn is about to hand over.
Handing(x, t) == x.task = t /\ x.at \in {"manifest", "prune", "assemble"} /\ ~x.skip
Remembered ==
    /\ \A p, o \in Procs:
         p # o /\ proc[p].at # "idle" /\ proc[o].at # "idle" => proc[p].task # proc[o].task
    /\ \A e \in Range(last): got[e.task] = e.sign \/ \E p \in Procs: Handing(proc[p], e.task)
    /\ \A e \in Range(last), p \in Procs: Handing(proc[p], e.task) => proc[p].sign = e.sign
    /\ \A p \in Procs: proc[p].skip /\ proc[p].sign.docs # {} => got[proc[p].task] = proc[p].sign
Undecided == Finding \cup {"idle", "filter", "paths", "conflicts", "remember", "store"}
GateFits(x) == /\ x.at \in Undecided => ~x.skip
               /\ x.at = "shown" => x.sign.docs = {}
Tidied == (tidy => Remembered) /\ \A p \in Procs: GateFits(proc[p])

-----------------------------------------------------------------------------
(* Induction, by the least counterexample, and what it says of the recursive *)
(* functions of Retrieval.                                                   *)

LEMMA FirstExists ==
  ASSUME NEW S \in SUBSET Nat, S # {}
  PROVE  \E c \in S : \A x \in S : c <= x
<1> DEFINE R == {ss \in Nat \X Nat : ss[1] < ss[2]}
<1>1. R = OpToRel(<, Nat)
  BY Zenon DEF OpToRel
<1>2. \A x, c \in Nat : x < c => <<x, c>> \in R
  OBVIOUS
<1> HIDE DEF R
<1>3. IsWellFoundedOn(R, Nat)
  BY <1>1, NatLessThanWellFounded, Zenon
<1>4. PICK c \in S : \A x \in S : ~(<<x, c>> \in R)
  BY <1>3, WFMin, Zenon
<1>5. \A x \in S : ~(x < c)
  BY <1>2, <1>4
<1> QED
  BY <1>5

\* Induction, over the set of those that are as they should be.
LEMMA Climb ==
  ASSUME NEW S, 0 \in S, \A n \in Nat: n \in S => n + 1 \in S
  PROVE  Nat \subseteq S
<1> SUFFICES ASSUME Nat \ S # {} PROVE FALSE
  OBVIOUS
<1>1. PICK n \in Nat \ S: \A m \in Nat \ S: n <= m
  BY FirstExists
<1>2. n - 1 \in Nat /\ n - 1 \notin S /\ (n - 1) + 1 = n
  BY <1>1
<1> QED BY <1>1, <1>2

\* A function is defined by its first value and its steps.
Follows(g, Q, base, op, n) ==
  g \in [0..n -> Q] /\ g[0] = base /\ \A i \in 1..n: g[i] = op[i][g[i - 1]]

LEMMA Recursion ==
  ASSUME NEW Q, NEW base \in Q, NEW op \in [Nat -> [Q -> Q]]
  PROVE  \A n \in Nat: \E g: Follows(g, Q, base, op, n)
<1> DEFINE Def(g, k) == g[0] = base /\ \A i \in 1..k: g[i] = op[i][g[i - 1]]
           S == {k \in Nat: \E g \in [0..k -> Q]: Def(g, k)}
<1>1. 0 \in S
  <2>1. [i \in 0..0 |-> base] \in [0..0 -> Q] /\ Def([i \in 0..0 |-> base], 0)
    OBVIOUS
  <2> QED BY <2>1
<1>2. ASSUME NEW k \in Nat, k \in S PROVE k + 1 \in S
  <2>1. PICK g \in [0..k -> Q]: Def(g, k)
    BY <1>2
  <2> DEFINE h == [i \in 0..(k + 1) |-> IF i = k + 1 THEN op[k + 1][g[k]] ELSE g[i]]
  <2>2. h \in [0..(k + 1) -> Q]
    <3>1. op[k + 1][g[k]] \in Q
      OBVIOUS
    <3> QED BY <3>1
  <2>3. \A i \in 0..k: h[i] = g[i]
    OBVIOUS
  <2>4. h[k + 1] = op[k + 1][h[k]] /\ h[0] = base
    <3>1. h[k + 1] = op[k + 1][g[k]]
      OBVIOUS
    <3>2. h[k] = g[k] /\ h[0] = g[0]
      BY <2>3
    <3> HIDE DEF h
    <3> QED BY <2>1, <3>1, <3>2
  <2> HIDE DEF h
  <2>5. ASSUME NEW i \in 1..(k + 1) PROVE h[i] = op[i][h[i - 1]]
    <3>1. CASE i = k + 1
      BY <2>4, <3>1
    <3>2. CASE i # k + 1
      <4>1. i \in 1..k /\ h[i] = g[i] /\ h[i - 1] = g[i - 1]
        BY <2>3, <3>2
      <4> QED BY <2>1, <4>1
    <3> QED BY <3>1, <3>2
  <2>6. Def(h, k + 1)
    BY <2>4, <2>5
  <2> QED BY <2>2, <2>6
<1>3. Nat \subseteq S
  <2> HIDE DEF S
  <2> QED BY <1>1, <1>2, Climb
<1> QED BY <1>3 DEF Follows

Taken(s, T, q, i) == IF s[i] \in T THEN Append(q, s[i]) ELSE q

LEMMA PickingSteps ==
  ASSUME NEW S, NEW s \in Seq(S), NEW T
  PROVE  /\ Picking(s, T) \in [0..Len(s) -> Seq(S)]
         /\ Picking(s, T)[0] = <<>>
         /\ \A i \in 1..Len(s): Picking(s, T)[i] = Taken(s, T, Picking(s, T)[i - 1], i)
<1> DEFINE op == [i \in Nat |-> [q \in Seq(S) |->
                    IF i \in 1..Len(s) THEN Taken(s, T, q, i) ELSE q]]
<1>1. op \in [Nat -> [Seq(S) -> Seq(S)]]
  BY DEF Taken
<1>2. \A q \in Seq(S), i \in 1..Len(s): op[i][q] = Taken(s, T, q, i)
  OBVIOUS
<1> HIDE DEF op
<1>3. PICK g \in [0..Len(s) -> Seq(S)]:
         g[0] = <<>> /\ \A i \in 1..Len(s): g[i] = op[i][g[i - 1]]
  <2>1. <<>> \in Seq(S) /\ Len(s) \in Nat
    OBVIOUS
  <2> DEFINE Q == Seq(S)
             base == <<>>
  <2> HIDE DEF Q, base
  <2>2. base \in Q /\ op \in [Nat -> [Q -> Q]]
    BY <1>1, <2>1 DEF Q, base
  <2>3. \E g: Follows(g, Q, base, op, Len(s))
    BY <2>1, <2>2, Recursion
  <2> QED BY <2>3, Zenon DEF Q, base, Follows
<1>4. \A i \in 1..Len(s): g[i] = IF s[i] \in T THEN Append(g[i - 1], s[i]) ELSE g[i - 1]
  <2> SUFFICES ASSUME NEW i \in 1..Len(s) PROVE g[i] = Taken(s, T, g[i - 1], i)
    BY DEF Taken
  <2>1. g[i - 1] \in Seq(S)
    OBVIOUS
  <2> QED BY <1>2, <1>3, <2>1
<1>5. g = [i \in 0..Len(s) |-> IF i = 0 THEN <<>>
             ELSE IF s[i] \in T THEN Append(g[i - 1], s[i]) ELSE g[i - 1]]
  <2>1. \A i \in 0..Len(s): g[i] = IF i = 0 THEN <<>>
             ELSE IF s[i] \in T THEN Append(g[i - 1], s[i]) ELSE g[i - 1]
    <3> TAKE i \in 0..Len(s)
    <3>1. i = 0 \/ i \in 1..Len(s)
      OBVIOUS
    <3> QED BY <1>3, <1>4, <3>1
  <2>2. g = [i \in 0..Len(s) |-> g[i]]
    OBVIOUS
  <2> QED BY <2>1, <2>2
<1>6. Picking(s, T) = CHOOSE f: f = [i \in 0..Len(s) |-> IF i = 0 THEN <<>>
                         ELSE IF s[i] \in T THEN Append(f[i - 1], s[i]) ELSE f[i - 1]]
  BY Zenon DEF Picking
<1>7. Picking(s, T) = [i \in 0..Len(s) |-> IF i = 0 THEN <<>>
         ELSE IF s[i] \in T THEN Append(Picking(s, T)[i - 1], s[i]) ELSE Picking(s, T)[i - 1]]
  BY <1>5, <1>6, Zenon
<1> DEFINE f == Picking(s, T)
<1> HIDE DEF f
<1>8. f = [i \in 0..Len(s) |-> IF i = 0 THEN <<>>
             ELSE IF s[i] \in T THEN Append(f[i - 1], s[i]) ELSE f[i - 1]]
  BY <1>7, Zenon DEF f
<1>9. /\ DOMAIN f = 0..Len(s) /\ f[0] = <<>>
      /\ \A i \in 1..Len(s): f[i] = Taken(s, T, f[i - 1], i)
  <2>1. DOMAIN f = 0..Len(s)
    BY <1>8
  <2>2. \A i \in 0..Len(s): f[i] = IF i = 0 THEN <<>>
             ELSE IF s[i] \in T THEN Append(f[i - 1], s[i]) ELSE f[i - 1]
    BY <1>8
  <2>3. f[0] = <<>>
    BY <2>2
  <2>4. ASSUME NEW i \in 1..Len(s) PROVE f[i] = Taken(s, T, f[i - 1], i)
    <3>1. i \in 0..Len(s) /\ i # 0
      OBVIOUS
    <3> QED BY <2>2, <3>1, Zenon DEF Taken
  <2> QED BY <2>1, <2>3, <2>4, Zenon
<1>10. ASSUME NEW k \in Nat PROVE k <= Len(s) => f[k] \in Seq(S)
  <2> DEFINE G == {n \in Nat: n <= Len(s) => f[n] \in Seq(S)}
  <2>1. 0 \in G
    <3>1. f[0] = <<>> /\ <<>> \in Seq(S)
      <4>1. f[0] = <<>>
        BY <1>9, Zenon
      <4>2. <<>> \in Seq(S)
        OBVIOUS
      <4> QED BY <4>1, <4>2, Zenon
    <3>2. f[0] \in Seq(S)
      BY <3>1, Zenon
    <3> QED BY <3>2
  <2>2. ASSUME NEW n \in Nat, n \in G PROVE n + 1 \in G
    <3> SUFFICES ASSUME n + 1 <= Len(s) PROVE f[n + 1] \in Seq(S)
      OBVIOUS
    <3>1. n + 1 \in 1..Len(s) /\ (n + 1) - 1 = n /\ f[n] \in Seq(S)
      <4>1. n + 1 \in 1..Len(s) /\ (n + 1) - 1 = n /\ n <= Len(s)
        OBVIOUS
      <4> QED BY <2>2, <4>1
    <3>2. f[n + 1] = Taken(s, T, f[n], n + 1) /\ s[n + 1] \in S
      <4> DEFINE i == n + 1
      <4>1. i \in 1..Len(s) /\ f[i - 1] = f[n]
        BY <3>1
      <4>2. s[i] \in S
        BY <4>1
      <4> HIDE DEF i
      <4>3. f[i] = Taken(s, T, f[n], i)
        BY <1>9, <4>1
      <4> QED BY <4>2, <4>3 DEF i
    <3> QED BY <3>1, <3>2 DEF Taken
  <2> HIDE DEF G
  <2>3. Nat \subseteq G
    BY <2>1, <2>2, Climb
  <2> QED BY <2>3 DEF G
<1>11. f \in [0..Len(s) -> Seq(S)]
  <2>1. f = [k \in 0..Len(s) |-> f[k]]
    BY <1>8
  <2> QED BY <1>10, <2>1
<1> QED BY <1>9, <1>11 DEF f

\* What appending does to the elements of a sequence.
LEMMA AppendFacts ==
  ASSUME NEW S, NEW q \in Seq(S), NEW x \in S
  PROVE  /\ Append(q, x) \in Seq(S) /\ Len(Append(q, x)) = Len(q) + 1
         /\ Append(q, x)[Len(q) + 1] = x
         /\ \A i \in 1..Len(q): Append(q, x)[i] = q[i]
         /\ Range(Append(q, x)) = Range(q) \cup {x}
         /\ IsInjective(q) /\ x \notin Range(q) => IsInjective(Append(q, x))
<1>1. /\ Append(q, x) \in Seq(S) /\ Len(Append(q, x)) = Len(q) + 1
      /\ Append(q, x)[Len(q) + 1] = x
      /\ \A i \in 1..Len(q): Append(q, x)[i] = q[i]
  OBVIOUS
<1> DEFINE a == Append(q, x)
<1>2. DOMAIN a = 1..(Len(q) + 1) /\ DOMAIN q = 1..Len(q) /\ Len(q) \in Nat
  BY <1>1
<1> HIDE DEF a
<1>3. \A i \in DOMAIN a: i \in DOMAIN q \/ i = Len(q) + 1
  BY <1>2
<1>4. \A i \in DOMAIN q: i \in DOMAIN a /\ a[i] = q[i]
  BY <1>1, <1>2 DEF a
<1>5. Len(q) + 1 \in DOMAIN a /\ a[Len(q) + 1] = x
  BY <1>1, <1>2 DEF a
<1>6. Range(a) = Range(q) \cup {x}
  BY <1>3, <1>4, <1>5 DEF Range
<1>7. IsInjective(q) /\ x \notin Range(q) => IsInjective(a)
  BY <1>3, <1>4, <1>5 DEF Range, IsInjective
<1> QED BY <1>1, <1>6, <1>7 DEF a

\* A pick is what it was asked for, once if it was there once.
LEMMA PickFacts ==
  ASSUME NEW S, NEW s \in Seq(S), NEW T
  PROVE  /\ Pick(s, T) \in Seq(S)
         /\ Range(Pick(s, T)) = Range(s) \cap T
         /\ IsInjective(s) => IsInjective(Pick(s, T))
<1> DEFINE f == Picking(s, T)
           Upto(n) == {s[i] : i \in 1..n}
           G == {n \in Nat: n <= Len(s) => /\ Range(f[n]) = Upto(n) \cap T
                                           /\ IsInjective(s) => IsInjective(f[n])}
<1>1. /\ f \in [0..Len(s) -> Seq(S)] /\ f[0] = <<>>
      /\ \A i \in 1..Len(s): f[i] = Taken(s, T, f[i - 1], i)
  BY PickingSteps
<1> HIDE DEF f
<1>2. 0 \in G
  <2>1. Range(<<>>) = {} /\ IsInjective(<<>>) /\ Upto(0) = {}
    BY DEF Range, IsInjective
  <2> HIDE DEF Upto
  <2>2. Range(f[0]) = Upto(0) \cap T /\ IsInjective(f[0])
    BY <1>1, <2>1
  <2> QED BY <2>2
<1>3. ASSUME NEW n \in Nat, n \in G PROVE n + 1 \in G
  <2> SUFFICES ASSUME n + 1 <= Len(s)
               PROVE  /\ Range(f[n + 1]) = Upto(n + 1) \cap T
                      /\ IsInjective(s) => IsInjective(f[n + 1])
    OBVIOUS
  <2> DEFINE m == n + 1
             x == s[m]
             q == f[n]
  <2>1. m \in 1..Len(s) /\ m - 1 = n /\ n \in 0..Len(s) /\ x \in S /\ q \in Seq(S)
    BY <1>1
  <2>2. f[m] = IF x \in T THEN Append(q, x) ELSE q
    <3> HIDE DEF m
    <3>1. f[m] = Taken(s, T, f[m - 1], m)
      BY <1>1, <2>1
    <3> QED BY <2>1, <3>1 DEF Taken
  <2>3. Range(q) = Upto(n) \cap T /\ (IsInjective(s) => IsInjective(q))
    BY <1>3, <2>1
  <2>4. Upto(m) = Upto(n) \cup {x}
    <3>1. \A i: i \in 1..m <=> i \in 1..n \/ i = m
      BY <2>1
    <3> QED BY <3>1
  <2>5. IsInjective(s) => x \notin Upto(n)
    <3>1. \A i \in 1..n: i \in DOMAIN s /\ m \in DOMAIN s /\ i # m
      BY <2>1
    <3> QED BY <3>1 DEF IsInjective
  <2> HIDE DEF Upto, x, q, m
  <2>6. CASE x \in T
    <3>1. f[m] = Append(q, x)
      BY <2>2, <2>6
    <3>2. /\ Range(Append(q, x)) = Range(q) \cup {x}
          /\ IsInjective(q) /\ x \notin Range(q) => IsInjective(Append(q, x))
      BY <2>1, AppendFacts
    <3>3. Range(f[m]) = Upto(m) \cap T /\ (IsInjective(s) => IsInjective(f[m]))
      BY <2>3, <2>4, <2>5, <2>6, <3>1, <3>2
    <3> QED BY <3>3 DEF m
  <2>7. CASE x \notin T
    <3>1. Range(f[m]) = Upto(m) \cap T /\ (IsInjective(s) => IsInjective(f[m]))
      BY <2>2, <2>3, <2>4, <2>7
    <3> QED BY <3>1 DEF m
  <2> QED BY <2>6, <2>7
<1>4. Len(s) \in G
  <2> HIDE DEF G
  <2>1. Nat \subseteq G
    BY <1>2, <1>3, Climb
  <2> QED BY <2>1
<1>5. Upto(Len(s)) = Range(s)
  <2>1. DOMAIN s = 1..Len(s)
    OBVIOUS
  <2> QED BY <2>1 DEF Range
<1>6. Pick(s, T) = f[Len(s)] /\ Len(s) \in 0..Len(s)
  BY DEF Pick, f
<1> HIDE DEF Upto
<1>7. Range(f[Len(s)]) = Range(s) \cap T /\ (IsInjective(s) => IsInjective(f[Len(s)]))
  BY <1>4, <1>5
<1> QED BY <1>1, <1>6, <1>7

\* Two sequences, one after the other.
LEMMA ConcatFacts ==
  ASSUME NEW S, NEW a \in Seq(S), NEW b \in Seq(S)
  PROVE  /\ a \o b \in Seq(S)
         /\ Range(a \o b) = Range(a) \cup Range(b)
         /\ IsInjective(a) /\ IsInjective(b) /\ Range(a) \cap Range(b) = {} => IsInjective(a \o b)
<1> DEFINE c == a \o b
<1>1. /\ c \in Seq(S) /\ DOMAIN c = 1..(Len(a) + Len(b)) /\ Len(a) \in Nat /\ Len(b) \in Nat
      /\ \A i \in 1..(Len(a) + Len(b)): c[i] = IF i <= Len(a) THEN a[i] ELSE b[i - Len(a)]
      /\ DOMAIN a = 1..Len(a) /\ DOMAIN b = 1..Len(b)
  OBVIOUS
<1> HIDE DEF c
<1>2. \A i \in DOMAIN c: \/ i \in DOMAIN a /\ c[i] = a[i]
                         \/ i > Len(a) /\ i - Len(a) \in DOMAIN b /\ c[i] = b[i - Len(a)]
  BY <1>1
<1>3. \A i \in DOMAIN a: i \in DOMAIN c /\ c[i] = a[i]
  BY <1>1
<1>4. \A i \in DOMAIN b: i + Len(a) \in DOMAIN c /\ c[i + Len(a)] = b[i]
  BY <1>1
<1>5. Range(c) = Range(a) \cup Range(b)
  BY <1>2, <1>3, <1>4 DEF Range
<1>6. ASSUME IsInjective(a), IsInjective(b), Range(a) \cap Range(b) = {}
      PROVE  IsInjective(c)
  <2> SUFFICES ASSUME NEW i \in DOMAIN c, NEW j \in DOMAIN c, c[i] = c[j] PROVE i = j
    BY DEF IsInjective
  <2>1. \A x \in DOMAIN a, y \in DOMAIN b: a[x] # b[y]
    BY <1>6 DEF Range
  <2>2. CASE i \in DOMAIN a /\ c[i] = a[i]
    BY <1>2, <1>6, <2>1, <2>2 DEF IsInjective
  <2>3. CASE i > Len(a) /\ i - Len(a) \in DOMAIN b /\ c[i] = b[i - Len(a)]
    <3>1. j > Len(a) /\ j - Len(a) \in DOMAIN b /\ c[j] = b[j - Len(a)]
      BY <1>2, <2>1, <2>3
    <3>2. i - Len(a) = j - Len(a)
      BY <1>6, <2>3, <3>1 DEF IsInjective
    <3> QED BY <1>1, <3>2
  <2> QED BY <1>2, <2>2, <2>3
<1> QED BY <1>1, <1>5, <1>6 DEF c

\* The first n of a sequence.
LEMMA FirstFacts ==
  ASSUME NEW S, NEW s \in Seq(S), NEW n \in Nat
  PROVE  /\ First(n, s) \in Seq(S)
         /\ Range(First(n, s)) = {s[i] : i \in {j \in DOMAIN s: j <= n}}
         /\ IsInjective(s) => IsInjective(First(n, s))
<1> DEFINE m == IF n < Len(s) THEN n ELSE Len(s)
           t == First(n, s)
<1>1. m \in 0..Len(s) /\ Len(s) \in Nat /\ DOMAIN s = 1..Len(s) /\ t = SubSeq(s, 1, m)
  BY DEF First
<1>2. \A j: j \in 1..m <=> j \in DOMAIN s /\ j <= n
  BY <1>1
<1> HIDE DEF m
<1>3. t \in Seq(S) /\ DOMAIN t = 1..m /\ \A i \in 1..m: t[i] = s[i]
  <2>1. SubSeq(s, 1, m) \in Seq(S) /\ Len(SubSeq(s, 1, m)) = m
    BY <1>1
  <2>2. \A i \in 1..m: SubSeq(s, 1, m)[i] = s[i]
    BY <1>1
  <2> QED BY <1>1, <2>1, <2>2
<1> HIDE DEF t
<1>4. Range(t) = {s[i] : i \in {j \in DOMAIN s: j <= n}}
  BY <1>2, <1>3 DEF Range
<1>5. IsInjective(s) => IsInjective(t)
  BY <1>2, <1>3 DEF IsInjective
<1> QED BY <1>3, <1>4, <1>5 DEF t

\* What is chosen is among what was found: _apply_budgets adds nothing.
Paid(s, disputed, q, i) == IF Affordable(q, s[i], disputed) THEN Append(q, s[i]) ELSE q

LEMMA ChoosingSteps ==
  ASSUME NEW S, NEW s \in Seq(S), NEW disputed
  PROVE  /\ Choosing(s, disputed)[0] = <<>>
         /\ \A i \in 1..Len(s):
              Choosing(s, disputed)[i] = Paid(s, disputed, Choosing(s, disputed)[i - 1], i)
<1> DEFINE op == [i \in Nat |-> [q \in Seq(S) |->
                    IF i \in 1..Len(s) THEN Paid(s, disputed, q, i) ELSE q]]
<1>1. op \in [Nat -> [Seq(S) -> Seq(S)]]
  BY DEF Paid
<1>2. \A q \in Seq(S), i \in 1..Len(s): op[i][q] = Paid(s, disputed, q, i)
  OBVIOUS
<1> HIDE DEF op
<1>3. PICK g \in [0..Len(s) -> Seq(S)]:
         g[0] = <<>> /\ \A i \in 1..Len(s): g[i] = op[i][g[i - 1]]
  <2>1. <<>> \in Seq(S) /\ Len(s) \in Nat
    OBVIOUS
  <2> DEFINE Q == Seq(S)
             base == <<>>
  <2> HIDE DEF Q, base
  <2>2. base \in Q /\ op \in [Nat -> [Q -> Q]]
    BY <1>1, <2>1 DEF Q, base
  <2>3. \E g: Follows(g, Q, base, op, Len(s))
    BY <2>1, <2>2, Recursion
  <2> QED BY <2>3, Zenon DEF Q, base, Follows
<1>4. \A i \in 1..Len(s): g[i] = IF Affordable(g[i - 1], s[i], disputed)
                                 THEN Append(g[i - 1], s[i]) ELSE g[i - 1]
  <2> SUFFICES ASSUME NEW i \in 1..Len(s) PROVE g[i] = Paid(s, disputed, g[i - 1], i)
    BY DEF Paid
  <2>1. g[i - 1] \in Seq(S)
    OBVIOUS
  <2> QED BY <1>2, <1>3, <2>1
<1>5. g = [i \in 0..Len(s) |-> IF i = 0 THEN <<>>
             ELSE IF Affordable(g[i - 1], s[i], disputed)
                  THEN Append(g[i - 1], s[i]) ELSE g[i - 1]]
  <2>1. \A i \in 0..Len(s): g[i] = IF i = 0 THEN <<>>
             ELSE IF Affordable(g[i - 1], s[i], disputed)
                  THEN Append(g[i - 1], s[i]) ELSE g[i - 1]
    <3> TAKE i \in 0..Len(s)
    <3>1. i = 0 \/ i \in 1..Len(s)
      OBVIOUS
    <3> QED BY <1>3, <1>4, <3>1
  <2>2. g = [i \in 0..Len(s) |-> g[i]]
    OBVIOUS
  <2> QED BY <2>1, <2>2
<1>6. Choosing(s, disputed) = CHOOSE f: f = [i \in 0..Len(s) |-> IF i = 0 THEN <<>>
             ELSE IF Affordable(f[i - 1], s[i], disputed)
                  THEN Append(f[i - 1], s[i]) ELSE f[i - 1]]
  BY Zenon DEF Choosing
<1>7. Choosing(s, disputed) = [i \in 0..Len(s) |-> IF i = 0 THEN <<>>
             ELSE IF Affordable(Choosing(s, disputed)[i - 1], s[i], disputed)
                  THEN Append(Choosing(s, disputed)[i - 1], s[i])
                  ELSE Choosing(s, disputed)[i - 1]]
  BY <1>5, <1>6, Zenon
<1> DEFINE f == Choosing(s, disputed)
<1> HIDE DEF f
<1>8. f = [i \in 0..Len(s) |-> IF i = 0 THEN <<>>
             ELSE IF Affordable(f[i - 1], s[i], disputed)
                  THEN Append(f[i - 1], s[i]) ELSE f[i - 1]]
  BY <1>7, Zenon DEF f
<1>9. \A i \in 0..Len(s): f[i] = IF i = 0 THEN <<>>
             ELSE IF Affordable(f[i - 1], s[i], disputed)
                  THEN Append(f[i - 1], s[i]) ELSE f[i - 1]
  BY <1>8
<1>10. f[0] = <<>>
  <2>1. 0 \in 0..Len(s)
    OBVIOUS
  <2> QED BY <1>9, <2>1
<1>11. ASSUME NEW i \in 1..Len(s) PROVE f[i] = Paid(s, disputed, f[i - 1], i)
  <2>1. i \in 0..Len(s) /\ i # 0
    OBVIOUS
  <2> QED BY <1>9, <2>1, Zenon DEF Paid
<1> QED BY <1>10, <1>11, Zenon DEF f

LEMMA ChosenFacts ==
  ASSUME NEW S, NEW s \in Seq(S)
  PROVE  Chosen(s) \in Seq(S) /\ Range(Chosen(s)) \subseteq Range(s)
<1> DEFINE d == Disputed(s)
           f == Choosing(s, d)
           G == {n \in Nat: n <= Len(s) => f[n] \in Seq(S) /\ Range(f[n]) \subseteq Range(s)}
<1> HIDE DEF d
<1>1. /\ f[0] = <<>>
      /\ \A i \in 1..Len(s): f[i] = Paid(s, d, f[i - 1], i)
  BY ChoosingSteps
<1> HIDE DEF f
<1>2. 0 \in G
  <2>1. <<>> \in Seq(S) /\ Range(<<>>) = {}
    BY DEF Range
  <2>2. f[0] \in Seq(S) /\ Range(f[0]) \subseteq Range(s)
    BY <1>1, <2>1
  <2> QED BY <2>2
<1>3. ASSUME NEW n \in Nat, n \in G PROVE n + 1 \in G
  <2> SUFFICES ASSUME n + 1 <= Len(s)
               PROVE  f[n + 1] \in Seq(S) /\ Range(f[n + 1]) \subseteq Range(s)
    OBVIOUS
  <2> DEFINE m == n + 1
             x == s[m]
             q == f[n]
  <2>1. m \in 1..Len(s) /\ m - 1 = n /\ n <= Len(s) /\ x \in S
    OBVIOUS
  <2>2. q \in Seq(S) /\ Range(q) \subseteq Range(s)
    BY <1>3, <2>1
  <2>3. x \in Range(s)
    <3>1. m \in DOMAIN s
      BY <2>1
    <3> QED BY <3>1 DEF Range
  <2>4. f[m] \in {q, Append(q, x)}
    <3> HIDE DEF m
    <3>1. f[m] = Paid(s, d, f[m - 1], m)
      BY <1>1, <2>1
    <3> QED BY <2>1, <3>1 DEF Paid
  <2> HIDE DEF x, q, m
  <2>5. Append(q, x) \in Seq(S) /\ Range(Append(q, x)) = Range(q) \cup {x}
    BY <2>1, <2>2, AppendFacts
  <2>6. f[m] \in Seq(S) /\ Range(f[m]) \subseteq Range(s)
    BY <2>2, <2>3, <2>4, <2>5
  <2> QED BY <2>6 DEF m
<1>4. Len(s) \in G
  <2> HIDE DEF G
  <2>1. Nat \subseteq G /\ Len(s) \in Nat
    BY <1>2, <1>3, Climb
  <2> QED BY <2>1
<1>5. f[Len(s)] \in Seq(S) /\ Range(f[Len(s)]) \subseteq Range(s)
  BY <1>4
<1> QED BY <1>5 DEF Chosen, f, d

-----------------------------------------------------------------------------
(* Lists of items. *)

LEMMA DocsOfRange ==
  ASSUME NEW s
  PROVE  DocsOf(s) = {it.doc : it \in Range(s)}
BY DEF DocsOf, Range

LEMMA DocsAreDocs ==
  ASSUME NEW s \in Seq(Item)
  PROVE  DocsOf(s) \subseteq Docs
<1> SUFFICES ASSUME NEW i \in DOMAIN s PROVE s[i].doc \in Docs
  BY DEF DocsOf
<1>1. s[i] \in Item
  OBVIOUS
<1> QED BY <1>1 DEF Item

LEMMA ConflictsOfRange ==
  ASSUME NEW s, NEW r, DocsOf(s) \subseteq DocsOf(r)
  PROVE  Conflicting(s) \subseteq Conflicting(r)
BY DEF Conflicting

LEMMA EmptyList ==
  /\ Range(<<>>) = {} /\ Once(<<>>) /\ DocsOf(<<>>) = {} /\ Conflicting(<<>>) = {}
  /\ \A S: <<>> \in Seq(S)
<1>1. Range(<<>>) = {} /\ IsInjective(<<>>) /\ \A S: <<>> \in Seq(S)
  BY DEF Range, IsInjective
<1>2. Once(<<>>)
  BY <1>1 DEF Once
<1>3. DocsOf(<<>>) = {}
  BY <1>1, DocsOfRange
<1> QED BY <1>1, <1>2, <1>3 DEF Conflicting

LEMMA PickOnce ==
  ASSUME NEW S, NEW s \in Seq(S), NEW T, Once(s)
  PROVE  Once(Pick(s, T))
BY PickFacts DEF Once

LEMMA FirstOnce ==
  ASSUME NEW S, NEW s \in Seq(S), NEW n \in Nat
  PROVE  /\ First(n, s) \in Seq(S) /\ Range(First(n, s)) \subseteq Range(s)
         /\ Once(s) => Once(First(n, s))
<1>1. /\ First(n, s) \in Seq(S)
      /\ Range(First(n, s)) = {s[i] : i \in {j \in DOMAIN s: j <= n}}
      /\ IsInjective(s) => IsInjective(First(n, s))
  BY FirstFacts
<1>2. Range(First(n, s)) \subseteq Range(s)
  BY <1>1 DEF Range
<1> QED BY <1>1, <1>2 DEF Once

LEMMA ConcatOnce ==
  ASSUME NEW S, NEW a \in Seq(S), NEW b \in Seq(S),
         Once(a), Once(b), DocsOf(a) \cap DocsOf(b) = {}
  PROVE  Once(a \o b)
<1>1. Range(a) \cap Range(b) = {}
  BY DocsOfRange
<1>2. IsInjective(a \o b) /\ Range(a \o b) = Range(a) \cup Range(b)
  BY <1>1, ConcatFacts DEF Once
<1>3. \A x \in Range(a), y \in Range(b): x.doc # y.doc
  BY DocsOfRange
<1> QED BY <1>2, <1>3 DEF Once

LEMMA DocsOfConcat ==
  ASSUME NEW S, NEW a \in Seq(S), NEW b \in Seq(S)
  PROVE  /\ DocsOf(a \o b) = DocsOf(a) \cup DocsOf(b)
         /\ Conflicting(a \o b) = Conflicting(a) \cup Conflicting(b)
<1>1. DocsOf(a \o b) = DocsOf(a) \cup DocsOf(b)
  <2>1. Range(a \o b) = Range(a) \cup Range(b)
    BY ConcatFacts
  <2> QED BY <2>1, DocsOfRange
<1> QED BY <1>1 DEF Conflicting

\* A list that names nothing twice is as long as what it names.
LEMMA OnceCounts ==
  ASSUME NEW S, NEW s \in Seq(S), Once(s)
  PROVE  Len(s) = Cardinality(DocsOf(s))
<1> DEFINE n == Len(s)
           f == [i \in 1..n |-> s[i].doc]
<1>1. n \in Nat /\ DOMAIN s = 1..n
  OBVIOUS
<1>2. \A i, j \in 1..n: s[i].doc = s[j].doc => i = j
  BY <1>1 DEF Once, Range, IsInjective
<1>3. DocsOf(s) = {s[i].doc : i \in 1..n}
  BY <1>1 DEF DocsOf
<1> HIDE DEF n
<1>4. f \in Bijection(1..n, DocsOf(s))
  BY <1>2, <1>3 DEF Bijection, Injection, Surjection, IsInjective
<1>5. ExistsBijection(1..n, DocsOf(s))
  BY <1>4 DEF ExistsBijection
<1> QED BY <1>1, <1>5, FS_CountingElements DEF n

\* What the index gives for a set of documents.
LEMMA ItemsFacts ==
  ASSUME RetrievalAssumption, row \in [Docs -> Rows], NEW ds
  PROVE  /\ Items(ds) \in Seq(Item) /\ Once(Items(ds))
         /\ Range(Items(ds)) = {[doc |-> d, row |-> row[d]] : d \in ds \cap Docs}
         /\ DocsOf(Items(ds)) = ds \cap Docs
<1> DEFINE s == Pick(Order, ds)
           t == Items(ds)
<1>1. s \in Seq(Docs) /\ Range(s) = Range(Order) \cap ds /\ IsInjective(s)
  BY PickFacts DEF RetrievalAssumption
<1>2. t = [i \in DOMAIN s |-> [doc |-> s[i], row |-> row[s[i]]]]
  BY DEF Items
<1> HIDE DEF s, t
<1>3. Len(s) \in Nat /\ DOMAIN s = 1..Len(s) /\ \A i \in DOMAIN s: s[i] \in Docs
  BY <1>1
<1>4. t \in Seq(Item)
  <2>1. \A i \in DOMAIN s: [doc |-> s[i], row |-> row[s[i]]] \in Item
    BY <1>3 DEF Item
  <2> QED BY <1>2, <1>3, <2>1
<1>5. Range(s) = ds \cap Docs
  BY <1>1 DEF Docs
<1>6. Range(t) = {[doc |-> d, row |-> row[d]] : d \in Range(s)}
  BY <1>2 DEF Range
<1>7. IsInjective(t)
  <2>1. \A i \in DOMAIN s: t[i].doc = s[i]
    BY <1>2
  <2> QED BY <1>1, <1>2, <2>1 DEF IsInjective
<1>8. Once(t)
  BY <1>6, <1>7 DEF Once
<1>9. DocsOf(t) = ds \cap Docs
  <2>1. DOMAIN t = DOMAIN s /\ \A i \in DOMAIN s: t[i].doc = s[i]
    BY <1>2
  <2>2. DocsOf(t) = {s[i] : i \in DOMAIN s}
    BY <2>1 DEF DocsOf
  <2> QED BY <1>5, <2>2 DEF Range
<1> QED BY <1>4, <1>5, <1>6, <1>8, <1>9 DEF t

\* The filter withholds or lets pass, and nothing else.
LEMMA FilterFacts ==
  ASSUME NEW s \in Seq(Item), NEW classes
  PROVE  /\ Eligible(s, classes) \in Seq(Item)
         /\ Range(Eligible(s, classes)) = {it \in Range(s): Reason(it, classes) = "none"}
         /\ Once(s) => Once(Eligible(s, classes))
         /\ DocsOf(s) = DocsOf(Eligible(s, classes)) \cup {e.doc : e \in Withheld(s, classes)}
<1> DEFINE ok == {it \in Range(s): Reason(it, classes) = "none"}
           t == Pick(s, ok)
<1>1. Eligible(s, classes) = t
  BY DEF Eligible
<1>2. t \in Seq(Item) /\ Range(t) = ok
  <2>1. Range(t) = Range(s) \cap ok
    BY PickFacts
  <2> QED BY <2>1, PickFacts
<1>3. Once(s) => Once(t)
  BY PickOnce
<1>4. {e.doc : e \in Withheld(s, classes)} = {it.doc : it \in Range(s) \ ok}
  <2> DEFINE w(i) == [doc |-> s[i].doc, why |-> Reason(s[i], classes)]
             D == {i \in DOMAIN s: s[i] \notin ok}
  <2>1. Withheld(s, classes) = {w(i) : i \in D}
    <3>1. D = {i \in DOMAIN s: Reason(s[i], classes) # "none"}
      BY DEF Range
    <3> HIDE DEF D
    <3> QED BY <3>1 DEF Withheld
  <2>2. \A i: w(i).doc = s[i].doc
    OBVIOUS
  <2>3. \A it: it \in Range(s) \ ok <=> \E i \in D: s[i] = it
    BY DEF Range
  <2> HIDE DEF w, D, ok
  <2>4. {e.doc : e \in Withheld(s, classes)} = {s[i].doc : i \in D}
    BY <2>1, <2>2
  <2> QED BY <2>3, <2>4
<1> HIDE DEF t
<1>5. DocsOf(s) = DocsOf(t) \cup {it.doc : it \in Range(s) \ ok}
  BY <1>2, DocsOfRange
<1> QED BY <1>1, <1>2, <1>3, <1>4, <1>5

\* Three lists of the same items, one after the other.
LEMMA ThreeLists ==
  ASSUME NEW S, NEW R, NEW a \in Seq(S), NEW b \in Seq(S), NEW c \in Seq(S),
         Range(a) \subseteq R, Range(b) \subseteq R, Range(c) \subseteq R
  PROVE  a \o b \o c \in Seq(S) /\ Range(a \o b \o c) \subseteq R
<1> DEFINE ab == a \o b
<1>1. ab \in Seq(S) /\ Range(ab) \subseteq R
  BY ConcatFacts
<1> HIDE DEF ab
<1>2. ab \o c \in Seq(S) /\ Range(ab \o c) \subseteq R
  BY <1>1, ConcatFacts
<1> QED BY <1>2 DEF ab

\* What a list's places and its layers hold is of the list.
LEMMA PlacedFacts ==
  ASSUME RetrievalAssumption, NEW s \in Seq(Item)
  PROVE  Placed(s) \in Seq(Item) /\ Range(Placed(s)) \subseteq Range(s)
<1> DEFINE Of(l) == First(Places[l], Pick(s, {it \in Range(s): Layer(it.doc) = l}))
<1>1. ASSUME NEW l \in Layers
      PROVE  Of(l) \in Seq(Item) /\ Range(Of(l)) \subseteq Range(s)
  <2> DEFINE T == {it \in Range(s): Layer(it.doc) = l}
             t == Pick(s, T)
  <2>1. t \in Seq(Item) /\ Range(t) \subseteq Range(s) /\ Places[l] \in Nat
    BY PickFacts DEF RetrievalAssumption
  <2> HIDE DEF t
  <2>2. First(Places[l], t) \in Seq(Item) /\ Range(First(Places[l], t)) \subseteq Range(t)
    BY <2>1, FirstOnce
  <2> QED BY <2>1, <2>2 DEF t
<1>2. Placed(s) = Of("procedural") \o Of("semantic") \o Of("episodic")
  BY DEF Placed
<1> DEFINE a == Of("procedural")
           b == Of("semantic")
           c == Of("episodic")
           R == Range(s)
<1>3. /\ a \in Seq(Item) /\ Range(a) \subseteq R
      /\ b \in Seq(Item) /\ Range(b) \subseteq R
      /\ c \in Seq(Item) /\ Range(c) \subseteq R
  <2> HIDE DEF Of
  <2> QED BY <1>1 DEF Layers
<1>4. Placed(s) = a \o b \o c
  BY <1>2
<1> HIDE DEF a, b, c, R
<1>5. a \o b \o c \in Seq(Item) /\ Range(a \o b \o c) \subseteq R
  BY <1>3, ThreeLists
<1> QED BY <1>4, <1>5 DEF R

LEMMA LayeredFacts ==
  ASSUME RetrievalAssumption, NEW s \in Seq(Item)
  PROVE  Layered(s) \in Seq(Item) /\ Range(Layered(s)) \subseteq Range(s)
<1> DEFINE Of(c) == InCategory(s, c)
           R == Range(s)
           a == Pick(s, {it \in Range(s): Layer(it.doc) = "episodic"})
           h == Of("handoff") \o Of("durable") \o Of("dynamic") \o Of("evidence")
           semantic == First(Places["semantic"], h)
           held == First(Places["episodic"], a)
           lead == First(Places["procedural"], Of("policy"))
           rest == Pick(semantic, {it \in Range(semantic): it.doc \notin DocsOf(held)})
<1>1. \A l \in Layers: Places[l] \in Nat
  BY DEF RetrievalAssumption
<1>2. \A l \in {"procedural", "semantic", "episodic"}: l \in Layers
  BY DEF Layers
<1>3. ASSUME NEW c PROVE Of(c) \in Seq(Item) /\ Range(Of(c)) \subseteq R
  BY PickFacts DEF InCategory
<1>4. a \in Seq(Item) /\ Range(a) \subseteq R
  BY PickFacts
<1>5. Layered(s) = lead \o rest \o held
  BY DEF Layered
<1> HIDE DEF Of, R, a
<1>6. h \in Seq(Item) /\ Range(h) \subseteq R
  <2> DEFINE abc == Of("handoff") \o Of("durable") \o Of("dynamic")
  <2>1. abc \in Seq(Item) /\ Range(abc) \subseteq R
    BY <1>3, ThreeLists
  <2> HIDE DEF abc
  <2>2. abc \o Of("evidence") \in Seq(Item) /\ Range(abc \o Of("evidence")) \subseteq R
    BY <1>3, <2>1, ConcatFacts
  <2> QED BY <2>2 DEF abc
<1> HIDE DEF h
<1>7. semantic \in Seq(Item) /\ Range(semantic) \subseteq R
  BY <1>1, <1>2, <1>6, FirstOnce
<1>8. held \in Seq(Item) /\ Range(held) \subseteq R
  BY <1>1, <1>2, <1>4, FirstOnce
<1>9. lead \in Seq(Item) /\ Range(lead) \subseteq R
  BY <1>1, <1>2, <1>3, FirstOnce
<1> HIDE DEF semantic, held, lead
<1>10. rest \in Seq(Item) /\ Range(rest) \subseteq R
  BY <1>7, PickFacts
<1> HIDE DEF rest
<1>11. lead \o rest \o held \in Seq(Item) /\ Range(lead \o rest \o held) \subseteq R
  BY <1>8, <1>9, <1>10, ThreeLists
<1> QED BY <1>5, <1>11 DEF R

\* The end of a list, from its k-th element.
LEMMA SuffixFacts ==
  ASSUME NEW S, NEW s \in Seq(S), NEW k \in Nat, 1 <= k, k <= Len(s)
  PROVE  /\ SubSeq(s, k, Len(s)) \in Seq(S)
         /\ Range(SubSeq(s, k, Len(s))) \subseteq Range(s)
         /\ s[Len(s)] \in Range(SubSeq(s, k, Len(s)))
         /\ LET t == SubSeq(s, k, Len(s)) IN t # <<>> /\ t[Len(t)] = s[Len(s)]
<1> DEFINE n == Len(s)
           t == SubSeq(s, k, n)
           m == n - k + 1
<1>1. n \in Nat /\ m \in Nat /\ m >= 1 /\ DOMAIN s = 1..n
  OBVIOUS
<1>2. t \in Seq(S) /\ Len(t) = m /\ DOMAIN t = 1..m /\ \A i \in 1..m: t[i] = s[k + i - 1]
  OBVIOUS
<1>3. \A i \in 1..m: k + i - 1 \in 1..n
  OBVIOUS
<1>4. m \in 1..m /\ k + m - 1 = n
  OBVIOUS
<1> HIDE DEF n, m, t
<1>5. Range(t) \subseteq Range(s)
  BY <1>1, <1>2, <1>3 DEF Range
<1>6. t[m] = s[n] /\ m \in DOMAIN t
  BY <1>2, <1>4
<1>7. s[n] \in Range(t)
  BY <1>6 DEF Range
<1>8. t # <<>> /\ t[Len(t)] = s[n]
  BY <1>1, <1>2, <1>6
<1> QED BY <1>2, <1>5, <1>7, <1>8 DEF n, t

-----------------------------------------------------------------------------
(* The steps, by what they do to a turn.                                     *)

\* Only p moves; x is y but for the fields of F.
Alone(p) == proc' = [o \in Procs |-> proc'[o]] /\ \A o \in Procs \ {p}: proc'[o] = proc[o]
Like(x, y, F) == \A k \in Fields \ F: x[k] = y[k]

LEMMA Advances ==
  ASSUME TypeOK, NEW p \in Procs, NEW x, proc' = [proc EXCEPT ![p] = x]
  PROVE  Alone(p) /\ proc'[p] = x
<1>1. proc = [o \in Procs |-> proc[o]]
  BY DEF TypeOK
<1>2. DOMAIN proc' = Procs /\ proc'[p] = x /\ \A o \in Procs \ {p}: proc'[o] = proc[o]
  BY <1>1
<1>3. proc' = [o \in Procs |-> proc'[o]]
  BY <1>1
<1> QED BY <1>2, <1>3 DEF Alone

LEMMA IdleOK == TurnOK(Idle) /\ DOMAIN Idle = Fields
<1>1. DOMAIN Idle = Fields
  BY DEF Idle, Fields
<1>2. {} \in Words /\ NoSign \in Sign
  BY DEF Words, Sign, NoSign
<1>3. \A S: <<>> \in Seq(S)
  BY EmptyList
<1> QED BY <1>1, <1>2, <1>3 DEF TurnOK, Idle, Steps, Finding

\* A state in which one turn has moved has its types.
LEMMA TypeStill ==
  ASSUME TypeOK, NEW p \in Procs, Alone(p), TurnOK(proc'[p]),
         UNCHANGED <<world, manifests>>, turns' \in Nat, faults' \in Nat,
         last' \in Seq(Entry), got' \in [Tasks -> Sign], tidy' \in BOOLEAN
  PROVE  TypeOK'
<1>1. \A o \in Procs: TurnOK(proc'[o])
  BY DEF TypeOK, Alone
<1> QED BY <1>1 DEF TypeOK, Alone, world, TurnOK

LEMMA Beginning ==
  ASSUME RetrievalAssumption, TypeOK, NEW p \in Procs, NEW t \in Tasks, NEW q \in Asks[t],
         Begin(p, t, q)
  PROVE  LET x == proc'[p] IN
         /\ Alone(p) /\ TurnOK(x) /\ proc[p].at = "idle" /\ x.at = "words"
         /\ x.turn = turns + 1 /\ turns' = turns + 1 /\ x.task = t
         /\ x.allowed = allowed /\ x.items = <<>>
         /\ x.out = {} /\ x.known = {} /\ x.pending = {} /\ x.chosen = <<>> /\ x.capsule = <<>>
         /\ ~x.skip /\ x.sign = NoSign /\ x.calm /\ x.newest
         /\ tidy' = (tidy /\ \A o \in Procs: proc[o].task # t)
         /\ UNCHANGED <<world, last, manifests, faults, got>>
<1> DEFINE x == [[Idle EXCEPT !.turn = turns + 1, !.task = t, !.words = q.words,
                     !.paths = q.paths, !.allowed = allowed] EXCEPT !.at = "words"]
<1>1. proc' = [proc EXCEPT ![p] = x] /\ proc[p].at = "idle" /\ turns' = turns + 1
      /\ tidy' = (tidy /\ \A o \in Procs: proc[o].task # t)
      /\ UNCHANGED <<world, last, manifests, faults, got>>
  BY DEF Begin, Goes
<1>2. /\ DOMAIN x = Fields /\ x.at = "words" /\ x.turn = turns + 1 /\ x.task = t
      /\ x.words = q.words /\ x.allowed = allowed /\ x.items = <<>>
      /\ x.out = {} /\ x.known = {} /\ x.pending = {} /\ x.chosen = <<>> /\ x.capsule = <<>>
      /\ x.last = <<>> /\ ~x.skip /\ x.sign = NoSign /\ x.calm /\ x.newest
      /\ x.skip = FALSE /\ x.calm = TRUE /\ x.newest = TRUE
  BY DEF Idle, Fields
<1> HIDE DEF x
<1>3. TurnOK(x)
  <2>1. q.words \in Words
    BY DEF Words
  <2>2. NoSign \in Sign /\ \A S: <<>> \in Seq(S)
    BY EmptyList DEF Words, Sign, NoSign
  <2>3. x.turn \in Nat
    BY <1>2 DEF TypeOK
  <2> QED BY <1>2, <2>1, <2>2, <2>3 DEF TurnOK, Steps, Finding
<1>4. Alone(p) /\ proc'[p] = x
  BY <1>1, Advances
<1> QED BY <1>1, <1>2, <1>3, <1>4

LEMMA ProcOK ==
  ASSUME TypeOK, NEW p \in Procs
  PROVE  TurnOK(proc[p]) /\ DOMAIN proc[p] = Fields
BY DEF TypeOK, TurnOK

\* The best matches are rows of the index.
LEMMA CandidatesFacts ==
  ASSUME RetrievalAssumption, TypeOK, NEW ws, NEW relevant
  PROVE  LET c == Candidates(ws, relevant) IN
         c \in Seq(Item) /\ Once(c) /\ \A it \in Range(c): it.row # Gone
<1> DEFINE c == Candidates(ws, relevant)
           T == {d \in Indexed: Doc[d].words \cap ws # {}}
           m == Pick(Order, T)
           ds == Range(First(Window, m)) \cap relevant
<1>1. c = Items(ds)
  BY DEF Candidates
<1>2. Order \in Seq(Docs) /\ T \subseteq Indexed /\ Window \in Nat
  BY DEF RetrievalAssumption
<1> HIDE DEF T
<1>3. m \in Seq(Docs) /\ Range(m) \subseteq Indexed
  BY <1>2, PickFacts
<1> HIDE DEF m
<1>4. ds \subseteq Indexed
  BY <1>2, <1>3, FirstOnce
<1> HIDE DEF c, ds
<1>5. /\ c \in Seq(Item) /\ Once(c)
      /\ Range(c) = {[doc |-> d, row |-> row[d]] : d \in ds \cap Docs}
  BY <1>1, ItemsFacts DEF TypeOK
<1>6. \A it \in Range(c): \E d \in ds: it.row = row[d]
  BY <1>5
<1>7. \A d \in ds: row[d] # Gone
  BY <1>4 DEF Indexed
<1> QED BY <1>5, <1>6, <1>7 DEF c

\* The words are counted and matched, and then searched for.
Seeking(p) == Weigh(p) \/ Cover(p) \/ Search(p)

LEMMA Searching ==
  ASSUME RetrievalAssumption, TypeOK, NEW p \in Procs, Seeking(p)
  PROVE  LET x == proc'[p]
             y == proc[p] IN
         /\ Alone(p) /\ TurnOK(x) /\ Still
         /\ y.at \in Finding /\ x.at \in Finding \cup {"filter"}
         /\ Like(x, y, {"at", "terms", "relevant", "items"})
         /\ x.items = y.items \/ (Once(x.items) /\ \A it \in Range(x.items): it.row # Gone)
<1> DEFINE y == proc[p]
           c == Candidates(y.terms, y.relevant)
           ws == Informative(y.words)
           ds == {d \in Indexed: Relevant(d, y.terms)}
           x1 == [[y EXCEPT !.terms = ws] EXCEPT !.at = "cover"]
           x2 == [[y EXCEPT !.relevant = ds] EXCEPT !.at = "search"]
           x3 == [[y EXCEPT !.items = c, !.terms = {}, !.relevant = {}] EXCEPT !.at = "filter"]
<1>1. TurnOK(y) /\ DOMAIN y = Fields /\ y.at \in Finding /\ Still
  BY ProcOK DEF Seeking, Weigh, Cover, Search, Finding
<1>2. PICK x: proc' = [proc EXCEPT ![p] = x] /\ (x = x1 \/ x = x2 \/ x = x3)
  BY DEF Seeking, Weigh, Cover, Search, Goes
<1>3. c \in Seq(Item) /\ Once(c) /\ \A it \in Range(c): it.row # Gone
  BY CandidatesFacts
<1> HIDE DEF y, c, ws, ds
<1>4. /\ DOMAIN x = Fields /\ x.at \in Finding \cup {"filter"}
      /\ x.items = y.items \/ x.items = c
      /\ Like(x, y, {"at", "terms", "relevant", "items"})
  <2>1. CASE x = x1
    BY <1>1, <2>1 DEF Fields, Like, Finding
  <2>2. CASE x = x2
    BY <1>1, <2>2 DEF Fields, Like, Finding
  <2>3. CASE x = x3
    BY <1>1, <2>3 DEF Fields, Like, Finding
  <2> HIDE DEF x1, x2, x3
  <2> QED BY <1>2, <2>1, <2>2, <2>3
<1>5. TurnOK(x)
  BY <1>1, <1>3, <1>4 DEF TurnOK, Like, Fields, Steps, Finding
<1>6. Alone(p) /\ proc'[p] = x
  BY <1>2, Advances
<1> QED BY <1>1, <1>3, <1>4, <1>5, <1>6 DEF y

\* What the first round of conflicts starts from.
Searched(x) == x.known = DocsOf(x.items) /\ x.pending = Conflicting(x.items) \ DocsOf(x.items)

LEMMA ToConflictsFacts ==
  ASSUME TypeOK, NEW p \in Procs, proc[p].at # "idle",
         NEW items \in Seq(Item), NEW out, ToConflicts(p, items, out)
  PROVE  LET x == proc'[p] IN
         /\ Alone(p) /\ TurnOK(x) /\ x.at = "conflicts" /\ x.items = items /\ x.out = out
         /\ Searched(x) /\ Like(x, proc[p], {"at", "items", "out", "known", "pending"})
<1> DEFINE y == proc[p]
           known == DocsOf(items)
           pending == Conflicting(items) \ DocsOf(items)
           x == [[y EXCEPT !.items = items, !.out = out, !.known = known,
                           !.pending = pending] EXCEPT !.at = "conflicts"]
<1>1. TurnOK(y) /\ DOMAIN y = Fields /\ y.at # "idle"
  BY ProcOK
<1>2. proc' = [proc EXCEPT ![p] = x]
  BY DEF ToConflicts, Goes
<1> HIDE DEF y, known, pending
<1>3. /\ DOMAIN x = Fields /\ x.at = "conflicts" /\ x.items = items /\ x.out = out
      /\ x.known = known /\ x.pending = pending
      /\ Like(x, y, {"at", "items", "out", "known", "pending"})
  BY <1>1 DEF Fields, Like
<1> HIDE DEF x
<1>4. TurnOK(x)
  BY <1>1, <1>3 DEF TurnOK, Like, Fields, Steps, Finding
<1>5. Alone(p) /\ proc'[p] = x
  BY <1>2, Advances
<1> QED BY <1>3, <1>4, <1>5 DEF y, known, pending, Searched

LEMMA Filtering ==
  ASSUME TypeOK, NEW p \in Procs, Filter(p)
  PROVE  LET x == proc'[p]
             y == proc[p] IN
         /\ Alone(p) /\ TurnOK(x) /\ y.at = "filter" /\ Still
         /\ x.items = Eligible(y.items, y.allowed) /\ x.out = Withheld(y.items, y.allowed)
         /\ Like(x, y, {"at", "items", "out", "known", "pending"})
         /\ \/ x.at = "paths" /\ x.pending = y.pending
            \/ x.at = "conflicts" /\ Searched(x)
<1> DEFINE y == proc[p]
           pass == Eligible(y.items, y.allowed)
           out == Withheld(y.items, y.allowed)
           z == [[y EXCEPT !.items = pass, !.out = out] EXCEPT !.at = "paths"]
<1>1. TurnOK(y) /\ DOMAIN y = Fields /\ y.at = "filter" /\ Still
  BY ProcOK DEF Filter
<1>2. pass \in Seq(Item)
  BY <1>1, FilterFacts DEF TurnOK
<1>3. ToConflicts(p, pass, out) \/ proc' = [proc EXCEPT ![p] = z]
  BY DEF Filter, Goes
<1>4. CASE ToConflicts(p, pass, out)
  <2> HIDE DEF pass, out
  <2>1. /\ Alone(p) /\ TurnOK(proc'[p]) /\ proc'[p].at = "conflicts"
        /\ proc'[p].items = pass /\ proc'[p].out = out /\ Searched(proc'[p])
        /\ Like(proc'[p], proc[p], {"at", "items", "out", "known", "pending"})
    BY <1>1, <1>2, <1>4, ToConflictsFacts
  <2> QED BY <1>1, <2>1 DEF pass, out
<1>5. CASE proc' = [proc EXCEPT ![p] = z]
  <2> HIDE DEF y, pass, out
  <2>1. /\ DOMAIN z = Fields /\ z.at = "paths" /\ z.items = pass /\ z.out = out
        /\ z.pending = y.pending /\ Like(z, y, {"at", "items", "out", "known", "pending"})
    BY <1>1 DEF Fields, Like
  <2> HIDE DEF z
  <2>2. TurnOK(z)
    BY <1>1, <1>2, <2>1 DEF TurnOK, Like, Fields, Steps, Finding
  <2>3. Alone(p) /\ proc'[p] = z
    BY <1>5, Advances
  <2> QED BY <1>1, <2>1, <2>2, <2>3 DEF y, pass, out
<1> QED BY <1>3, <1>4, <1>5

\* Who cites a path: in order, those that pass and are not there; the rest is told.
LEMMA LinksFacts ==
  ASSUME RetrievalAssumption, TypeOK, NEW p \in Procs
  PROVE  /\ Links(p).in \in Seq(Item) /\ Once(Links(p).in)
         /\ DocsOf(Links(p).in) \cap DocsOf(proc[p].items) = {}
         /\ \A it \in Range(Links(p).in):
              it.row # Gone /\ Reason(it, proc[p].allowed) = "none"
<1> DEFINE C == {d \in Indexed: Doc[d].cites \cap proc[p].paths # {}}
           cites == Items(C)
           pass == Eligible(cites, proc[p].allowed)
           T == {it \in Range(pass): it.doc \notin DocsOf(proc[p].items)}
           new == Pick(pass, T)
<1>1. Links(p).in = First(Places["semantic"], new)
  BY DEF Links
<1>2. /\ cites \in Seq(Item) /\ Once(cites)
      /\ Range(cites) = {[doc |-> d, row |-> row[d]] : d \in C \cap Docs}
  BY ItemsFacts DEF TypeOK
<1> HIDE DEF cites
<1>3. \A it \in Range(cites): it.row # Gone
  <2>1. \A d \in C: row[d] # Gone
    BY DEF Indexed
  <2> HIDE DEF C
  <2>2. ASSUME NEW it \in Range(cites) PROVE it.row # Gone
    <3>1. PICK d \in C: it = [doc |-> d, row |-> row[d]]
      BY <1>2, Zenon
    <3> QED BY <2>1, <3>1
  <2> QED BY <2>2
<1>4. /\ pass \in Seq(Item) /\ Once(pass)
      /\ Range(pass) = {it \in Range(cites): Reason(it, proc[p].allowed) = "none"}
  BY <1>2, FilterFacts
<1> HIDE DEF pass
<1>5. new \in Seq(Item) /\ Once(new) /\ Range(new) = Range(pass) \cap T
  BY <1>4, PickFacts, PickOnce
<1> HIDE DEF new
<1>6. Places["semantic"] \in Nat
  BY DEF RetrievalAssumption, Layers
<1>7. /\ First(Places["semantic"], new) \in Seq(Item) /\ Once(First(Places["semantic"], new))
      /\ Range(First(Places["semantic"], new)) \subseteq Range(new)
  BY <1>5, <1>6, FirstOnce
<1>8. DocsOf(First(Places["semantic"], new)) \cap DocsOf(proc[p].items) = {}
  BY <1>5, <1>7, DocsOfRange
<1> QED BY <1>1, <1>3, <1>4, <1>5, <1>7, <1>8

LEMMA Following ==
  ASSUME RetrievalAssumption, TypeOK, NEW p \in Procs, FollowPaths(p)
  PROVE  LET x == proc'[p]
             y == proc[p] IN
         /\ Alone(p) /\ TurnOK(x) /\ y.at = "paths" /\ x.at = "conflicts" /\ Still
         /\ x.items = Links(p).in \o y.items
         /\ Searched(x) /\ Like(x, y, {"at", "items", "out", "known", "pending"})
<1> DEFINE items == Links(p).in \o proc[p].items
           out == proc[p].out \cup Links(p).out
<1>1. TurnOK(proc[p]) /\ proc[p].at = "paths" /\ Still /\ ToConflicts(p, items, out)
  BY ProcOK DEF FollowPaths
<1>2. items \in Seq(Item)
  <2>1. Links(p).in \in Seq(Item) /\ proc[p].items \in Seq(Item)
    BY <1>1, LinksFacts DEF TurnOK
  <2> QED BY <2>1, ConcatFacts
<1> HIDE DEF items, out
<1>3. /\ Alone(p) /\ TurnOK(proc'[p]) /\ proc'[p].at = "conflicts"
      /\ proc'[p].items = items /\ proc'[p].out = out /\ Searched(proc'[p])
      /\ Like(proc'[p], proc[p], {"at", "items", "out", "known", "pending"})
  BY <1>1, <1>2, ToConflictsFacts
<1> QED BY <1>1, <1>3 DEF items

LEMMA Rounding ==
  ASSUME RetrievalAssumption, TypeOK, NEW p \in Procs, FollowConflicts(p)
  PROVE  \E sides \in Seq(Item), pass \in Seq(Item):
         LET x == proc'[p]
             y == proc[p] IN
         /\ Alone(p) /\ TurnOK(x) /\ y.at = "conflicts" /\ x.at = "conflicts" /\ Still
         /\ Once(pass) /\ DocsOf(sides) = y.pending \cap Indexed
         /\ DocsOf(sides) = DocsOf(pass) \cup {e.doc : e \in Withheld(sides, y.allowed)}
         /\ \A it \in Range(pass): it.row # Gone /\ Reason(it, y.allowed) = "none"
         /\ x.items = y.items \o pass
         /\ x.known = y.known \cup DocsOf(pass)
         /\ x.pending = Conflicting(pass) \ x.known
         /\ x.out = y.out \cup Withheld(sides, y.allowed)
                      \cup {[doc |-> d, why |-> "conflict-unavailable"] : d \in y.pending \ Indexed}
         /\ Like(x, y, {"at", "items", "out", "known", "pending"})
<1> DEFINE y == proc[p]
           sides == Items(y.pending \cap Indexed)
           pass == Eligible(sides, y.allowed)
           known == y.known \cup DocsOf(pass)
           pending == Conflicting(pass) \ known
           out == y.out \cup Withheld(sides, y.allowed)
                    \cup {[doc |-> d, why |-> "conflict-unavailable"] : d \in y.pending \ Indexed}
           items == y.items \o pass
           x == [[y EXCEPT !.items = items, !.known = known, !.pending = pending, !.out = out]
                   EXCEPT !.at = "conflicts"]
<1>1. TurnOK(y) /\ DOMAIN y = Fields /\ y.at = "conflicts" /\ Still
  BY ProcOK DEF FollowConflicts
<1>2. proc' = [proc EXCEPT ![p] = x]
  BY DEF FollowConflicts, Round, Goes
<1>3. /\ sides \in Seq(Item) /\ Once(sides) /\ DocsOf(sides) = (y.pending \cap Indexed) \cap Docs
      /\ Range(sides) = {[doc |-> d, row |-> row[d]] : d \in (y.pending \cap Indexed) \cap Docs}
  BY ItemsFacts DEF TypeOK
<1>4. DocsOf(sides) = y.pending \cap Indexed
  BY <1>3 DEF Indexed
<1> HIDE DEF sides
<1>5. \A it \in Range(sides): it.row # Gone
  <2>1. \A d \in Indexed: row[d] # Gone
    BY DEF Indexed
  <2>2. ASSUME NEW it \in Range(sides) PROVE it.row # Gone
    <3>1. PICK d \in Indexed: it = [doc |-> d, row |-> row[d]]
      BY <1>3, Zenon
    <3> QED BY <2>1, <3>1
  <2> QED BY <2>2
<1>6. /\ pass \in Seq(Item) /\ Once(pass)
      /\ Range(pass) = {it \in Range(sides): Reason(it, y.allowed) = "none"}
      /\ DocsOf(sides) = DocsOf(pass) \cup {e.doc : e \in Withheld(sides, y.allowed)}
  BY <1>3, FilterFacts
<1>7. items \in Seq(Item)
  <2> HIDE DEF pass
  <2>1. y.items \in Seq(Item)
    BY <1>1 DEF TurnOK
  <2> QED BY <1>6, <2>1, ConcatFacts
<1> HIDE DEF y, pass, known, pending, out, items
<1>8. /\ DOMAIN x = Fields /\ x.at = "conflicts" /\ x.items = items /\ x.out = out
      /\ x.known = known /\ x.pending = pending
      /\ Like(x, y, {"at", "items", "out", "known", "pending"})
  BY <1>1 DEF Fields, Like
<1> HIDE DEF x
<1>9. TurnOK(x)
  BY <1>1, <1>7, <1>8 DEF TurnOK, Like, Fields, Steps, Finding
<1>10. Alone(p) /\ proc'[p] = x
  BY <1>2, Advances
<1>11. x.items = y.items \o pass /\ x.known = y.known \cup DocsOf(pass)
       /\ x.pending = Conflicting(pass) \ x.known
       /\ x.out = y.out \cup Withheld(sides, y.allowed)
                   \cup {[doc |-> d, why |-> "conflict-unavailable"] : d \in y.pending \ Indexed}
  BY <1>8 DEF items, known, pending, out
<1>12. \A it \in Range(pass): it.row # Gone /\ Reason(it, y.allowed) = "none"
  BY <1>5, <1>6
<1> QED BY <1>1, <1>3, <1>4, <1>6, <1>8, <1>9, <1>10, <1>11, <1>12 DEF y
\* What the gate is given, and what it does to the turn.
Paying(x) == Chosen(x.items)
Placing(x) == Placed(Chosen(x.items))
Signed(x) == [words |-> x.words, docs |-> DocsOf(Placing(x))]

LEMMA Deciding ==
  ASSUME RetrievalAssumption, TypeOK, NEW p \in Procs, Decide(p)
  PROVE  LET x == proc'[p]
             y == proc[p] IN
         /\ Alone(p) /\ TurnOK(x) /\ y.at = "conflicts" /\ y.pending = {} /\ Still
         /\ x.sign = Signed(y) /\ x.skip = Repeats(y.task, Signed(y))
         /\ x.at = IF x.skip THEN "manifest" ELSE "remember"
         /\ x.chosen = IF x.skip THEN <<>> ELSE Placing(y)
         /\ Range(x.chosen) \subseteq Range(y.items) /\ y.out \subseteq x.out
         /\ ~x.skip => DocsOf(y.items) \subseteq DocsOf(x.chosen) \cup {e.doc : e \in x.out}
         /\ Like(x, y, {"at", "chosen", "skip", "sign", "out"})
<1> DEFINE y == proc[p]
           paid == Chosen(y.items)
           placed == Placed(paid)
           sign == [words |-> y.words, docs |-> DocsOf(placed)]
           skip == Repeats(y.task, sign)
           over == {[doc |-> d, why |-> "budget"] : d \in DocsOf(y.items) \ DocsOf(paid)}
           cut == {[doc |-> d, why |-> "layer-limit"] : d \in DocsOf(paid) \ DocsOf(placed)}
           chosen == IF skip THEN <<>> ELSE placed
           out == y.out \cup over \cup (IF skip THEN {} ELSE cut)
           at == IF skip THEN "manifest" ELSE "remember"
           x == [[y EXCEPT !.chosen = chosen, !.skip = skip, !.sign = sign, !.out = out]
                   EXCEPT !.at = at]
<1>1. TurnOK(y) /\ DOMAIN y = Fields /\ y.at = "conflicts" /\ y.pending = {} /\ Still
  BY ProcOK DEF Decide
<1>2. proc' = [proc EXCEPT ![p] = x]
  BY DEF Decide, Goes
<1>3. /\ paid \in Seq(Item) /\ Range(paid) \subseteq Range(y.items)
      /\ placed \in Seq(Item) /\ Range(placed) \subseteq Range(paid)
  <2>1. y.items \in Seq(Item)
    BY <1>1 DEF TurnOK
  <2>2. paid \in Seq(Item) /\ Range(paid) \subseteq Range(y.items)
    BY <2>1, ChosenFacts
  <2> HIDE DEF paid
  <2> QED BY <2>2, PlacedFacts
<1>4. sign = Signed(y) /\ skip = Repeats(y.task, Signed(y)) /\ placed = Placing(y)
  BY DEF Signed, Placing
<1>5. skip \in BOOLEAN
  BY DEF Repeats
<1> HIDE DEF y, paid, placed, skip
<1>6. sign \in Sign
  <2>1. y.words \in Words
    BY <1>1 DEF TurnOK
  <2>2. DocsOf(placed) \subseteq Docs
    BY <1>3, DocsAreDocs
  <2> QED BY <2>1, <2>2 DEF Sign
<1>7. chosen \in Seq(Item) /\ Range(chosen) \subseteq Range(y.items)
  BY <1>3, EmptyList
<1>8. ~skip => DocsOf(y.items) \subseteq DocsOf(chosen) \cup {e.doc : e \in out}
  <2>1. SUFFICES ASSUME ~skip, NEW d \in DocsOf(y.items), d \notin DocsOf(placed)
                 PROVE  \E e \in over \cup cut: d = e.doc
    <3>1. ~skip => chosen = placed /\ over \cup cut \subseteq out
      OBVIOUS
    <3> HIDE DEF chosen, out, over, cut
    <3> QED BY <3>1
  <2>2. [doc |-> d, why |-> "budget"] \in over \cup cut
          \/ [doc |-> d, why |-> "layer-limit"] \in over \cup cut
    BY <2>1
  <2> HIDE DEF over, cut
  <2> QED BY <2>2
<1> HIDE DEF sign, chosen, out, over, cut
<1>9. /\ DOMAIN x = Fields /\ x.at = at /\ x.chosen = chosen /\ x.skip = skip
      /\ x.sign = sign /\ x.out = out
      /\ Like(x, y, {"at", "chosen", "skip", "sign", "out"})
  BY <1>1 DEF Fields, Like
<1> HIDE DEF x
<1>10. TurnOK(x)
  BY <1>1, <1>5, <1>6, <1>7, <1>9 DEF TurnOK, Like, Fields, Steps, Finding
<1>11. Alone(p) /\ proc'[p] = x
  BY <1>2, Advances
<1>12. y.out \subseteq x.out
  BY <1>9 DEF out
<1>13. x.chosen = IF x.skip THEN <<>> ELSE Placing(y)
  BY <1>4, <1>9 DEF chosen
<1> QED BY <1>1, <1>4, <1>7, <1>8, <1>9, <1>10, <1>11, <1>12, <1>13 DEF y

LEMMA Loading ==
  ASSUME TypeOK, NEW p \in Procs, LoadLast(p)
  PROVE  LET x == proc'[p]
             y == proc[p] IN
         /\ Alone(p) /\ TurnOK(x) /\ y.at = "remember" /\ x.at = "store" /\ Still
         /\ x.last = last /\ Like(x, y, {"at", "last"})
<1> DEFINE y == proc[p]
           x == [[y EXCEPT !.last = last] EXCEPT !.at = "store"]
<1>1. TurnOK(y) /\ DOMAIN y = Fields /\ y.at = "remember" /\ Still /\ last \in Seq(Entry)
  BY ProcOK DEF LoadLast, TypeOK
<1>2. proc' = [proc EXCEPT ![p] = x]
  BY DEF LoadLast, Goes
<1> HIDE DEF y
<1>3. DOMAIN x = Fields /\ x.at = "store" /\ x.last = last /\ Like(x, y, {"at", "last"})
  BY <1>1 DEF Fields, Like
<1> HIDE DEF x
<1>4. TurnOK(x)
  BY <1>1, <1>3 DEF TurnOK, Like, Fields, Steps, Finding
<1>5. Alone(p) /\ proc'[p] = x
  BY <1>2, Advances
<1> QED BY <1>1, <1>3, <1>4, <1>5 DEF y

\* What is written back: what was read of other tasks, and the turn's own.
Own(x) == [task |-> x.task, sign |-> x.sign]
WroteBack(x) == /\ last' \in Seq(Entry)
                /\ Range(last') \subseteq {e \in Range(x.last): e.task # x.task} \cup {Own(x)}

LEMMA Storing ==
  ASSUME RetrievalAssumption, TypeOK, NEW p \in Procs, StoreLast(p)
  PROVE  LET x == proc'[p]
             y == proc[p] IN
         /\ Alone(p) /\ TurnOK(x) /\ y.at = "store" /\ x.at = "manifest"
         /\ Like(x, y, {"at"}) /\ UNCHANGED <<world, manifests, turns, got>>
         /\ last' \in Seq(Entry) /\ faults' \in Nat /\ tidy' \in BOOLEAN
         /\ tidy' => tidy /\ last = y.last /\ WroteBack(y)
<1> DEFINE y == proc[p]
           T == {e \in Range(y.last): e.task # y.task}
           others == Pick(y.last, T)
           all == Append(others, Own(y))
           k == IF Len(all) > Retention THEN Len(all) - Retention + 1 ELSE 1
           x == [y EXCEPT !.at = "manifest"]
<1>1. TurnOK(y) /\ DOMAIN y = Fields /\ y.at = "store" /\ UNCHANGED <<world, manifests, turns, got>>
  BY ProcOK DEF StoreLast
<1>2. proc' = [proc EXCEPT ![p] = x]
  BY DEF StoreLast, Goes
<1>3. \/ last' = SubSeq(all, k, Len(all)) /\ tidy' = (tidy /\ last = y.last) /\ faults' = faults
      \/ last' = last /\ faults' = faults + 1 /\ tidy' = FALSE
  BY DEF StoreLast, Own
<1> HIDE DEF y
<1>4. Own(y) \in Entry
  BY <1>1 DEF TurnOK, Own, Entry
<1>5. others \in Seq(Entry) /\ Range(others) \subseteq T
  <2>1. y.last \in Seq(Entry)
    BY <1>1 DEF TurnOK
  <2> HIDE DEF T
  <2> QED BY <2>1, PickFacts
<1> HIDE DEF others, T
<1>6. all \in Seq(Entry) /\ Len(all) \in Nat /\ Len(all) >= 1 /\ Range(all) \subseteq T \cup {Own(y)}
  BY <1>4, <1>5, AppendFacts
<1> HIDE DEF all
<1>7. k \in Nat /\ 1 <= k /\ k <= Len(all)
  <2>1. Retention \in Nat /\ Retention >= 1
    BY DEF RetrievalAssumption
  <2> QED BY <1>6, <2>1
<1> HIDE DEF k
<1>8. /\ SubSeq(all, k, Len(all)) \in Seq(Entry)
      /\ Range(SubSeq(all, k, Len(all))) \subseteq T \cup {Own(y)}
  BY <1>6, <1>7, SuffixFacts
<1>9. last' \in Seq(Entry) /\ faults' \in Nat /\ tidy' \in BOOLEAN
  <2>1. last \in Seq(Entry) /\ faults \in Nat /\ tidy \in BOOLEAN
    BY DEF TypeOK
  <2>2. faults' \in Nat
    BY <1>3, <2>1
  <2>3. last' \in Seq(Entry) /\ tidy' \in BOOLEAN
    BY <1>3, <1>8, <2>1, Zenon
  <2> QED BY <2>2, <2>3
<1>10. tidy' => tidy /\ last = y.last /\ WroteBack(y)
  BY <1>3, <1>8 DEF WroteBack, T
<1>11. DOMAIN x = Fields /\ x.at = "manifest" /\ Like(x, y, {"at"})
  BY <1>1 DEF Fields, Like
<1> HIDE DEF x
<1>12. TurnOK(x)
  BY <1>1, <1>11 DEF TurnOK, Like, Fields, Steps, Finding
<1>13. Alone(p) /\ proc'[p] = x
  BY <1>2, Advances
<1> QED BY <1>1, <1>9, <1>10, <1>11, <1>12, <1>13 DEF y

\* A turn at whose side something happened that field k notes; Idle stays Idle.
Beside(x, y, k) == \/ x = Idle /\ y.at = "idle"
                   \/ y.at # "idle" /\ Like(x, y, {k}) /\ x[k] = FALSE

LEMMA BesideOK ==
  ASSUME TypeOK, NEW o \in Procs, NEW k \in {"calm", "newest"}, NEW x,
         x = IF proc[o].at = "idle" THEN Idle ELSE [proc[o] EXCEPT ![k] = FALSE]
  PROVE  TurnOK(x) /\ Beside(x, proc[o], k)
<1> DEFINE y == proc[o]
<1>1. TurnOK(y) /\ DOMAIN y = Fields
  BY ProcOK
<1>2. CASE y.at = "idle"
  BY <1>2, IdleOK DEF Beside
<1>3. CASE y.at # "idle"
  <2> HIDE DEF y
  <2>1. x = [y EXCEPT ![k] = FALSE]
    BY <1>3 DEF y
  <2>2. DOMAIN x = Fields /\ Like(x, y, {k}) /\ x[k] = FALSE
    BY <1>1, <2>1 DEF Fields, Like
  <2> HIDE DEF y
  <2>3. x.calm \in BOOLEAN /\ x.newest \in BOOLEAN
    BY <1>1, <2>2 DEF TurnOK, Like, Fields
  <2>4. TurnOK(x)
    BY <1>1, <2>2, <2>3 DEF TurnOK, Like, Fields
  <2> QED BY <1>3, <2>2, <2>4 DEF Beside, y
<1> QED BY <1>2, <1>3

LEMMA GoneIsARow == Gone \in Rows /\ Gone.prints = <<>>
<1>1. Gone.prints = <<>> /\ <<>> \in [{} -> Nat]
  BY DEF Gone
<1>2. <<>> \in Prints
  BY <1>1 DEF Prints
<1>3. Gone \in Rows
  BY <1>2 DEF Gone, Rows
<1> QED BY <1>1, <1>3

\* What the manifest of a turn says, and the directory after it.
Said(x) == [turn |-> x.turn, docs |-> DocsOf(x.chosen)]
Put(x) == /\ manifests' \in [Scopes -> Seq(Listed)]
          /\ \A c \in Scopes: Range(manifests'[c]) \subseteq
                                 Range(manifests[c]) \cup (IF c = Scope[x.task] THEN {Said(x)} ELSE {})
          /\ Scope[x.task] \in Scopes /\ Said(x) \in Range(manifests'[Scope[x.task]])
          /\ Tops(manifests'[Scope[x.task]], x.turn)
Reset == {"at", "items", "out", "known", "paths", "last", "allowed", "words", "newest"}

LEMMA Writing ==
  ASSUME RetrievalAssumption, TypeOK, NEW p \in Procs, WriteManifest(p)
  PROVE  LET x == proc'[p]
             y == proc[p] IN
         /\ proc' = [o \in Procs |-> proc'[o]] /\ \A o \in Procs: TurnOK(proc'[o])
         /\ \A o \in Procs \ {p}: Beside(proc'[o], proc[o], "newest")
         /\ y.at = "manifest" /\ x.at \in {"prune", "assemble"} /\ x.items = <<>> /\ x.newest
         /\ Like(x, y, Reset)
         /\ Put(y) /\ UNCHANGED <<world, last, turns, faults, got, tidy>>
<1> DEFINE y == proc[p]
           scope == Scope[y.task]
           next == IF scope = "local" THEN "prune" ELSE "assemble"
           x == [Told(y) EXCEPT !.at = next]
           dir == Append(manifests[scope], Said(y))
<1>1. TurnOK(y) /\ DOMAIN y = Fields /\ y.at = "manifest" /\ UNCHANGED <<world, last, turns, faults, got, tidy>>
  BY ProcOK DEF WriteManifest
<1>2. proc' = [o \in Procs |-> IF o = p THEN x ELSE IF proc[o].at = "idle" THEN Idle
                                ELSE [proc[o] EXCEPT !.newest = FALSE]]
  BY DEF WriteManifest
<1>3. manifests' = [manifests EXCEPT ![scope] = dir]
  BY Zenon DEF WriteManifest, Said
<1>4. ASSUME NEW o \in Procs \ {p}
      PROVE  TurnOK(proc'[o]) /\ Beside(proc'[o], proc[o], "newest")
  <2>1. proc'[o] = IF proc[o].at = "idle" THEN Idle ELSE [proc[o] EXCEPT !["newest"] = FALSE]
    BY <1>2
  <2> QED BY <2>1, BesideOK
<1>5. proc'[p] = x
  BY <1>2
<1>6. proc' = [o \in Procs |-> proc'[o]]
  BY <1>2
<1> HIDE DEF y
<1>7. next \in {"prune", "assemble"}
  OBVIOUS
<1> HIDE DEF next
<1>8. /\ DOMAIN x = Fields /\ x.at \in {"prune", "assemble"} /\ x.items = <<>> /\ x.newest = TRUE
      /\ x.last = <<>> /\ x.words = {} /\ Like(x, y, Reset)
  BY <1>1, <1>7 DEF Fields, Like, Reset, Told
<1> HIDE DEF x
<1>9. TurnOK(x)
  <2>1. {} \in Words /\ \A S: <<>> \in Seq(S)
    BY EmptyList DEF Words
  <2>2. x.at \in Steps /\ x.at # "idle" /\ x.words \in Words
    BY <1>8, <2>1 DEF Steps
  <2>3. /\ x.turn = y.turn /\ x.task = y.task /\ x.chosen = y.chosen /\ x.capsule = y.capsule
        /\ x.sign = y.sign /\ x.skip = y.skip /\ x.calm = y.calm /\ y.at # "idle"
    BY <1>1, <1>8 DEF Like, Reset, Fields
  <2> QED BY <1>1, <1>8, <2>1, <2>2, <2>3 DEF TurnOK
<1>10. y.task \in Tasks /\ scope \in Scopes
  BY <1>1 DEF TurnOK, RetrievalAssumption, Scopes
<1> HIDE DEF scope
<1>11. Said(y) \in Listed
  <2>1. DocsOf(y.chosen) \subseteq Docs /\ y.turn \in Nat
    BY <1>1, DocsAreDocs DEF TurnOK
  <2> QED BY <2>1 DEF Said, Listed
<1>12. manifests \in [Scopes -> Seq(Listed)] /\ manifests[scope] \in Seq(Listed)
  BY <1>10 DEF TypeOK
<1>13. /\ dir \in Seq(Listed) /\ Len(dir) = Len(manifests[scope]) + 1 /\ dir[Len(dir)] = Said(y)
       /\ Range(dir) = Range(manifests[scope]) \cup {Said(y)}
  BY <1>11, <1>12, AppendFacts
<1>14. Tops(dir, y.turn)
  <2>1. Len(manifests[scope]) \in Nat
    BY <1>12
  <2> HIDE DEF dir
  <2>2. dir # <<>>
    BY <1>13, <2>1
  <2>3. dir[Len(dir)].turn = y.turn
    BY <1>13 DEF Said
  <2> QED BY <2>2, <2>3 DEF Tops
<1> HIDE DEF dir
<1>15. Put(y)
  <2>1. manifests' \in [Scopes -> Seq(Listed)] /\ manifests'[scope] = dir
    BY <1>3, <1>10, <1>12, <1>13
  <2>2. \A c \in Scopes \ {scope}: manifests'[c] = manifests[c]
    BY <1>3, <1>12
  <2>3. \A c \in Scopes: Range(manifests'[c]) \subseteq
                            Range(manifests[c]) \cup (IF c = scope THEN {Said(y)} ELSE {})
    BY <1>13, <2>1, <2>2
  <2> QED BY <1>10, <1>13, <1>14, <2>1, <2>3 DEF Put, scope
<1>16. \A o \in Procs: TurnOK(proc'[o])
  BY <1>4, <1>5, <1>9
<1> QED BY <1>1, <1>4, <1>5, <1>6, <1>8, <1>15, <1>16 DEF y

\* A directory that is pruned loses none but its oldest.
Thinned == /\ manifests' \in [Scopes -> Seq(Listed)]
           /\ \A c \in Scopes: /\ Range(manifests'[c]) \subseteq Range(manifests[c])
                               /\ \A n: Tops(manifests[c], n) => Tops(manifests'[c], n)

LEMMA PrunedFacts ==
  ASSUME RetrievalAssumption, NEW dir \in Seq(Listed)
  PROVE  /\ Pruned(dir) \in Seq(Listed) /\ Range(Pruned(dir)) \subseteq Range(dir)
         /\ \A n: Tops(dir, n) => Tops(Pruned(dir), n)
<1> DEFINE k == IF Len(dir) > Keep THEN Len(dir) - Keep + 1 ELSE 1
           cut == SubSeq(dir, k, Len(dir))
<1>1. Pruned(dir) = cut
  BY Zenon DEF Pruned
<1>2. Keep \in Nat /\ Keep >= 1 /\ Len(dir) \in Nat
  BY DEF RetrievalAssumption
<1>3. CASE dir = <<>>
  <2>1. k = 1 /\ Len(dir) = 0
    BY <1>2, <1>3
  <2>2. cut = <<>>
    BY <1>3, <2>1
  <2> HIDE DEF cut
  <2> QED BY <1>1, <1>3, <2>2
<1>4. CASE dir # <<>>
  <2>1. k \in Nat /\ 1 <= k /\ k <= Len(dir)
    BY <1>2, <1>4
  <2> HIDE DEF k
  <2>2. /\ cut \in Seq(Listed) /\ Range(cut) \subseteq Range(dir)
        /\ cut # <<>> /\ cut[Len(cut)] = dir[Len(dir)]
    BY <2>1, SuffixFacts
  <2> HIDE DEF cut
  <2> QED BY <1>1, <2>2 DEF Tops
<1> QED BY <1>3, <1>4

LEMMA Pruning ==
  ASSUME RetrievalAssumption, TypeOK, NEW p \in Procs, Prune(p)
  PROVE  LET x == proc'[p]
             y == proc[p] IN
         /\ Alone(p) /\ TurnOK(x) /\ y.at = "prune" /\ x.at = "assemble" /\ Like(x, y, {"at"})
         /\ Thinned /\ UNCHANGED <<world, last, turns, faults, got, tidy>>
<1> DEFINE y == proc[p]
           x == [y EXCEPT !.at = "assemble"]
           dir == manifests["local"]
<1>1. /\ TurnOK(y) /\ DOMAIN y = Fields /\ y.at = "prune"
      /\ UNCHANGED <<world, last, turns, faults, got, tidy>>
  BY ProcOK DEF Prune
<1>2. proc' = [proc EXCEPT ![p] = x] /\ manifests' = [manifests EXCEPT !["local"] = Pruned(dir)]
  BY DEF Prune, Goes
<1> HIDE DEF y
<1>3. DOMAIN x = Fields /\ x.at = "assemble" /\ Like(x, y, {"at"})
  BY <1>1 DEF Fields, Like
<1> HIDE DEF x
<1>4. TurnOK(x)
  BY <1>1, <1>3 DEF TurnOK, Like, Fields, Steps, Finding
<1>5. Alone(p) /\ proc'[p] = x
  BY <1>2, Advances
<1>6. manifests \in [Scopes -> Seq(Listed)] /\ dir \in Seq(Listed) /\ "local" \in Scopes
  BY DEF TypeOK, Scopes
<1>7. /\ Pruned(dir) \in Seq(Listed) /\ Range(Pruned(dir)) \subseteq Range(dir)
      /\ \A n: Tops(dir, n) => Tops(Pruned(dir), n)
  BY <1>6, PrunedFacts
<1>8. manifests' \in [Scopes -> Seq(Listed)]
      /\ \A c \in Scopes: manifests'[c] = IF c = "local" THEN Pruned(dir) ELSE manifests[c]
  BY <1>2, <1>6, <1>7
<1>9. Thinned
  BY <1>7, <1>8 DEF Thinned
<1> QED BY <1>1, <1>3, <1>4, <1>5, <1>9 DEF y

\* Who is handed the capsule, and what is remembered of it.
LEMMA Assembling ==
  ASSUME RetrievalAssumption, TypeOK, NEW p \in Procs, NEW room \in Rooms, Assemble(p, room)
  PROVE  LET x == proc'[p]
             y == proc[p] IN
         /\ Alone(p) /\ TurnOK(x) /\ y.at = "assemble" /\ x.at = "shown"
         /\ Range(x.capsule) \subseteq Range(y.chosen) /\ x.chosen = <<>> /\ x.sign.docs = {}
         /\ Like(x, y, {"at", "capsule", "chosen", "sign"})
         /\ UNCHANGED <<world, last, manifests, turns, faults>>
         /\ got' \in [Tasks -> Sign] /\ tidy' \in BOOLEAN
         /\ y.skip => got' = got
         /\ ~y.skip => \A t \in Tasks: got'[t] =
               IF t = y.task THEN [words |-> y.sign.words, docs |-> DocsOf(x.capsule)] ELSE got[t]
         /\ tidy' => tidy /\ (y.skip \/ DocsOf(x.capsule) = y.sign.docs)
<1> DEFINE y == proc[p]
           capsule == Fitted(Layered(y.chosen), room)
           x == [[y EXCEPT !.capsule = capsule, !.chosen = <<>>, !.sign = NoSign]
                   EXCEPT !.at = "shown"]
           new == [words |-> y.sign.words, docs |-> DocsOf(capsule)]
<1>1. /\ TurnOK(y) /\ DOMAIN y = Fields /\ y.at = "assemble"
      /\ UNCHANGED <<world, last, manifests, turns, faults>>
  BY ProcOK DEF Assemble
<1>2. proc' = [proc EXCEPT ![p] = x]
  BY DEF Assemble, Goes
<1>3. /\ got' = IF y.skip THEN got ELSE [got EXCEPT ![y.task] = new]
      /\ tidy' = (tidy /\ (y.skip \/ DocsOf(capsule) = y.sign.docs))
  BY Zenon DEF Assemble
<1> HIDE DEF y
<1>4. capsule \in Seq(Item) /\ Range(capsule) \subseteq Range(y.chosen)
  <2>1. Layered(y.chosen) \in Seq(Item) /\ Range(Layered(y.chosen)) \subseteq Range(y.chosen)
    BY <1>1, LayeredFacts DEF TurnOK
  <2>2. room \in Nat
    BY DEF RetrievalAssumption
  <2> QED BY <2>1, <2>2, FirstOnce DEF Fitted
<1> HIDE DEF capsule
<1>5. new \in Sign
  <2>1. DocsOf(capsule) \subseteq Docs
    BY <1>4, DocsAreDocs
  <2> QED BY <1>1, <2>1 DEF TurnOK, Sign
<1>6. /\ DOMAIN x = Fields /\ x.at = "shown" /\ x.capsule = capsule /\ x.chosen = <<>>
      /\ x.sign = NoSign /\ Like(x, y, {"at", "capsule", "chosen", "sign"})
  BY <1>1 DEF Fields, Like
<1> HIDE DEF x
<1>7. TurnOK(x)
  <2>1. NoSign \in Sign /\ \A S: <<>> \in Seq(S)
    BY EmptyList DEF Words, Sign, NoSign
  <2> QED BY <1>1, <1>4, <1>6, <2>1 DEF TurnOK, Like, Fields, Steps, Finding
<1>8. Alone(p) /\ proc'[p] = x
  BY <1>2, Advances
<1>9. got \in [Tasks -> Sign] /\ y.task \in Tasks /\ tidy \in BOOLEAN
  BY <1>1 DEF TypeOK, TurnOK
<1> HIDE DEF new
<1>10. got' \in [Tasks -> Sign]
  BY <1>3, <1>5, <1>9
<1>11. tidy' \in BOOLEAN /\ (tidy' => tidy /\ (y.skip \/ DocsOf(capsule) = y.sign.docs))
  BY <1>3, Zenon
<1>12. ~y.skip => \A t \in Tasks: got'[t] = IF t = y.task THEN new ELSE got[t]
  BY <1>3, <1>9
<1>13. x.sign.docs = {}
  BY <1>6 DEF NoSign
<1> QED BY <1>1, <1>3, <1>4, <1>6, <1>7, <1>8, <1>10, <1>11, <1>12, <1>13 DEF y, new

\* A turn that is over, in whichever way.
Over(p) == /\ Alone(p) /\ proc'[p] = Idle /\ UNCHANGED <<world, last, manifests, turns, got>>
           /\ faults' \in Nat /\ tidy' \in BOOLEAN
           /\ tidy' => tidy /\ proc[p].at \notin {"manifest", "prune", "assemble"}

LEMMA Ending ==
  ASSUME TypeOK, NEW p \in Procs, End(p) \/ Stop(p)
  PROVE  Over(p)
<1>1. proc' = [proc EXCEPT ![p] = Idle] /\ UNCHANGED <<world, last, manifests, turns, got>>
  BY DEF End, Stop, Still
<1>2. Alone(p) /\ proc'[p] = Idle
  BY <1>1, Advances
<1>3. faults \in Nat /\ tidy \in BOOLEAN
  BY DEF TypeOK
<1>4. CASE End(p)
  <2>1. faults' = faults /\ tidy' = tidy /\ proc[p].at = "shown"
    BY <1>4 DEF End, Still
  <2> QED BY <1>1, <1>2, <1>3, <2>1 DEF Over
<1>5. CASE Stop(p)
  <2>1. faults' = faults + 1 /\ tidy' = (tidy /\ proc[p].at \notin {"manifest", "prune", "assemble"})
    BY <1>5 DEF Stop
  <2>2. faults' \in Nat
    BY <1>3, <2>1
  <2>3. tidy' \in BOOLEAN /\ (tidy' => tidy /\ proc[p].at \notin {"manifest", "prune", "assemble"})
    BY <2>1, Zenon
  <2> QED BY <1>1, <1>2, <2>2, <2>3 DEF Over
<1> QED BY <1>4, <1>5

\* An edit: every turn that runs notes it.
Editing == (\E d \in Docs: ChangeDoc(d)) \/ (\E s \in Sources: ChangeSource(s))
             \/ (\E c \in Classes: ChangeConfig(c))

LEMMA Edits ==
  ASSUME RetrievalAssumption, TypeOK, CitesAreKept(file), Editing
  PROVE  /\ file' \in [Docs -> Rows] /\ source' \in [Sources -> Nat] /\ allowed' \subseteq Classes
         /\ edits' \in Nat /\ CitesAreKept(file')
         /\ proc' = [o \in Procs |-> proc'[o]]
         /\ \A o \in Procs: TurnOK(proc'[o]) /\ Beside(proc'[o], proc[o], "calm")
         /\ UNCHANGED <<row, last, manifests, turns, faults, got, tidy>>
<1>1. /\ proc' = Disturbed /\ edits' = edits + 1
      /\ UNCHANGED <<row, last, manifests, turns, faults, got, tidy>>
  BY DEF Editing, ChangeDoc, ChangeSource, ChangeConfig, Edited
<1>2. ASSUME NEW o \in Procs
      PROVE  TurnOK(proc'[o]) /\ Beside(proc'[o], proc[o], "calm")
  <2>1. proc'[o] = IF proc[o].at = "idle" THEN Idle ELSE [proc[o] EXCEPT !["calm"] = FALSE]
    BY <1>1 DEF Disturbed
  <2> QED BY <2>1, BesideOK
<1>3. proc' = [o \in Procs |-> proc'[o]]
  BY <1>1 DEF Disturbed
<1>4. /\ file \in [Docs -> Rows] /\ source \in [Sources -> Nat] /\ allowed \subseteq Classes
      /\ edits \in Nat
  BY DEF TypeOK
<1>5. edits' \in Nat
  BY <1>1, <1>4
<1>6. ASSUME NEW d \in Docs, ChangeDoc(d)
      PROVE  /\ file' \in [Docs -> Rows] /\ CitesAreKept(file')
             /\ UNCHANGED <<source, allowed>>
  <2> DEFINE C == Doc[d].cites \cap Sources
             wrote == [ver |-> file[d].ver + 1, prints |-> Cited(d)]
  <2>1. UNCHANGED <<source, allowed>> /\ file[d] \in Rows
    BY <1>4, <1>6 DEF ChangeDoc
  <2>2. file' = [file EXCEPT ![d] = wrote] \/ file' = [file EXCEPT ![d] = Gone]
    BY <1>6 DEF ChangeDoc
  <2>3. DOMAIN Cited(d) = C /\ Cited(d) \in Prints
    <3>1. Cited(d) = [s \in C |-> source[s]]
      BY DEF Cited
    <3>2. C \in SUBSET (Sources \cup UNION {Doc[c].cites : c \in Docs})
      OBVIOUS
    <3>3. Cited(d) \in [C -> Nat]
      BY <1>4, <3>1
    <3> QED BY <3>1, <3>2, <3>3 DEF Prints
  <2>4. wrote \in Rows
    BY <2>1, <2>3 DEF Rows
  <2>5. Gone \in Rows
    BY GoneIsARow
  <2>6. \A c \in Docs \ {d}: file'[c] = file[c]
    BY <1>4, <2>2
  <2>7. file'[d] = wrote \/ file'[d] = Gone
    BY <1>4, <2>2
  <2>8. wrote.prints = Cited(d)
    OBVIOUS
  <2> HIDE DEF wrote
  <2>9. file' \in [Docs -> Rows]
    BY <1>4, <2>2, <2>4, <2>5
  <2>10. CitesAreKept(file')
    BY <2>3, <2>6, <2>7, <2>8 DEF CitesAreKept
  <2> QED BY <2>1, <2>9, <2>10
<1>7. ASSUME NEW s \in Sources, ChangeSource(s)
      PROVE  source' \in [Sources -> Nat] /\ UNCHANGED <<file, allowed>>
  BY <1>4, <1>7 DEF ChangeSource
<1>8. ASSUME NEW c \in Classes, ChangeConfig(c)
      PROVE  allowed' \subseteq Classes /\ UNCHANGED <<file, source>>
  BY <1>4, <1>8 DEF ChangeConfig
<1>9. file' \in [Docs -> Rows] /\ source' \in [Sources -> Nat] /\ allowed' \subseteq Classes
      /\ CitesAreKept(file')
  BY <1>4, <1>6, <1>7, <1>8 DEF Editing, CitesAreKept
<1> QED BY <1>1, <1>2, <1>3, <1>5, <1>9

LEMMA Refreshing ==
  ASSUME TypeOK, Refresh
  PROVE  row' \in [Docs -> Rows]
         /\ UNCHANGED <<file, source, allowed, edits, last, manifests, proc, turns, faults, got, tidy>>
<1>1. row' = [d \in Docs |-> file[d]] /\ file \in [Docs -> Rows]
  BY DEF Refresh, Current, TypeOK
<1>2. UNCHANGED <<file, source, allowed, edits, last, manifests, proc, turns, faults, got, tidy>>
  BY DEF Refresh
<1> QED BY <1>1, <1>2

\* What a step is.
LEMMA Happening ==
  ASSUME [Next]_vars
  PROVE  \/ UNCHANGED vars
         \/ Editing
         \/ Refresh
         \/ \E p \in Procs:
              \/ \E t \in Tasks: \E q \in Asks[t]: Begin(p, t, q)
              \/ Seeking(p)
              \/ Filter(p) \/ FollowPaths(p) \/ FollowConflicts(p) \/ Decide(p) \/ LoadLast(p)
              \/ StoreLast(p) \/ WriteManifest(p) \/ Prune(p) \/ (\E room \in Rooms: Assemble(p, room))
              \/ End(p) \/ Stop(p)
BY Zenon DEF Next, Step, Editing, Seeking

-----------------------------------------------------------------------------
(* Types. *)

Typed == TypeOK /\ CitesAreKept(file)

LEMMA TypedInit ==
  ASSUME RetrievalAssumption, Init
  PROVE  Typed
<1>1. file \in [Docs -> Rows] /\ CitesAreKept(file)
  <2> SUFFICES ASSUME NEW d \in Docs
               PROVE  file[d] \in Rows /\ Doc[d].cites \cap Sources \subseteq DOMAIN file[d].prints
    BY DEF Init, CitesAreKept
  <2> DEFINE prints == [s \in Doc[d].cites |-> 1]
  <2>1. file[d] = [ver |-> 1, prints |-> prints]
    BY DEF Init
  <2>2. prints \in [Doc[d].cites -> Nat] /\ DOMAIN prints = Doc[d].cites
    OBVIOUS
  <2>3. Doc[d].cites \in SUBSET (Sources \cup UNION {Doc[c].cites : c \in Docs})
    OBVIOUS
  <2>4. prints \in Prints
    BY <2>2, <2>3 DEF Prints
  <2> HIDE DEF prints
  <2> QED BY <2>1, <2>2, <2>4 DEF Rows
<1>2. row \in [Docs -> Rows] /\ source \in [Sources -> Nat] /\ allowed \subseteq Classes
      /\ turns \in Nat /\ edits \in Nat /\ faults \in Nat /\ tidy \in BOOLEAN
  BY <1>1 DEF Init
<1>3. last \in Seq(Entry) /\ manifests \in [Scopes -> Seq(Listed)]
  BY EmptyList DEF Init, Scopes
<1>4. got \in [Tasks -> Sign]
  <2>1. NoSign \in Sign
    BY DEF NoSign, Sign, Words
  <2> QED BY <2>1 DEF Init
<1>5. proc = [p \in Procs |-> proc[p]] /\ \A p \in Procs: TurnOK(proc[p])
  <2>1. proc = [p \in Procs |-> Idle]
    BY DEF Init
  <2> QED BY <2>1, IdleOK
<1> QED BY <1>1, <1>2, <1>3, <1>4, <1>5 DEF Typed, TypeOK

LEMMA TypedStep ==
  ASSUME RetrievalAssumption, Typed, [Next]_vars
  PROVE  Typed'
<1> USE DEF Typed
<1>1. TypeOK /\ CitesAreKept(file)
  OBVIOUS
<1>2. CASE UNCHANGED vars
  BY <1>1, <1>2 DEF vars, world, TypeOK, CitesAreKept, TurnOK
<1>3. CASE Editing
  BY <1>3, Edits DEF TypeOK
<1>4. CASE Refresh
  BY <1>4, Refreshing DEF TypeOK, CitesAreKept
<1>5. ASSUME NEW p \in Procs, WriteManifest(p) PROVE Typed'
  BY <1>5, Writing DEF TypeOK, Put, world, CitesAreKept
<1>6. ASSUME NEW p \in Procs, UNCHANGED world, Alone(p), TurnOK(proc'[p]), UNCHANGED manifests,
             turns' \in Nat, faults' \in Nat, last' \in Seq(Entry), got' \in [Tasks -> Sign],
             tidy' \in BOOLEAN
      PROVE  Typed'
  BY <1>6, TypeStill DEF world, CitesAreKept
<1>7. ASSUME NEW p \in Procs, Still, Alone(p), TurnOK(proc'[p]) PROVE Typed'
  BY <1>6, <1>7 DEF Still, TypeOK
<1>8. ASSUME NEW p \in Procs, NEW t \in Tasks, NEW q \in Asks[t], Begin(p, t, q) PROVE Typed'
  <2>1. /\ Alone(p) /\ TurnOK(proc'[p]) /\ turns' = turns + 1
        /\ tidy' = (tidy /\ \A o \in Procs: proc[o].task # t)
        /\ UNCHANGED <<world, last, manifests, faults, got>>
    BY <1>1, <1>8, Beginning
  <2>2. turns' \in Nat /\ faults' \in Nat /\ last' \in Seq(Entry) /\ got' \in [Tasks -> Sign]
    BY <2>1 DEF TypeOK
  <2>3. tidy' \in BOOLEAN
    BY <2>1, Zenon
  <2> QED BY <1>6, <2>1, <2>2, <2>3
<1>9. ASSUME NEW p \in Procs,
             Seeking(p) \/ Filter(p) \/ FollowPaths(p) \/ FollowConflicts(p) \/ Decide(p) \/ LoadLast(p)
      PROVE  Typed'
  <2>1. Still /\ Alone(p) /\ TurnOK(proc'[p])
    <3>0. CASE Seeking(p)
      BY <1>1, <3>0, Searching
    <3>1. CASE Filter(p)
      BY <1>1, <3>1, Filtering
    <3>2. CASE FollowPaths(p)
      BY <1>1, <3>2, Following
    <3>3. CASE FollowConflicts(p)
      BY <1>1, <3>3, Rounding
    <3>4. CASE Decide(p)
      BY <1>1, <3>4, Deciding
    <3>5. CASE LoadLast(p)
      BY <1>1, <3>5, Loading
    <3> QED BY <1>9, <3>0, <3>1, <3>2, <3>3, <3>4, <3>5
  <2> QED BY <1>7, <2>1
<1>10. ASSUME NEW p \in Procs, StoreLast(p) PROVE Typed'
  <2>1. /\ Alone(p) /\ TurnOK(proc'[p]) /\ UNCHANGED <<world, manifests, turns, got>>
        /\ last' \in Seq(Entry) /\ faults' \in Nat /\ tidy' \in BOOLEAN
    BY <1>1, <1>10, Storing
  <2> QED BY <1>6, <2>1 DEF TypeOK
<1>11. ASSUME NEW p \in Procs, NEW room \in Rooms, Assemble(p, room) PROVE Typed'
  <2>1. /\ Alone(p) /\ TurnOK(proc'[p]) /\ UNCHANGED <<world, last, manifests, turns, faults>>
        /\ got' \in [Tasks -> Sign] /\ tidy' \in BOOLEAN
    BY <1>1, <1>11, Assembling
  <2> QED BY <1>6, <2>1 DEF TypeOK
<1>12. ASSUME NEW p \in Procs, End(p) \/ Stop(p) PROVE Typed'
  <2>1. Over(p)
    BY <1>1, <1>12, Ending
  <2> QED BY <1>6, <2>1, IdleOK DEF TypeOK, Over
<1>13. ASSUME NEW p \in Procs, Prune(p) PROVE Typed'
  <2>1. /\ Alone(p) /\ TurnOK(proc'[p]) /\ manifests' \in [Scopes -> Seq(Listed)]
        /\ UNCHANGED <<world, last, turns, faults, got, tidy>>
    BY <1>1, <1>13, Pruning DEF Thinned
  <2>2. \A o \in Procs: TurnOK(proc'[o])
    BY <1>1, <2>1 DEF TypeOK, Alone
  <2> QED BY <1>1, <2>1, <2>2 DEF TypeOK, Alone, world, CitesAreKept
<1> QED BY <1>2, <1>3, <1>4, <1>5, <1>8, <1>9, <1>10, <1>11, <1>12, <1>13, Happening

\* Every state is of the types that the code's rows, records and turns have.
THEOREM TypeCorrect == Spec => []TypeOK
<1> USE RetrievalAssumption
<1>1. Init => Typed
  BY TypedInit
<1>2. Typed /\ [Next]_vars => Typed'
  BY TypedStep
<1>3. Typed => TypeOK
  BY DEF Typed
<1> QED BY <1>1, <1>2, <1>3, PTL DEF Spec

-----------------------------------------------------------------------------
(* What a turn finds. *)

LEMMA FoundIdle == FoundFits(Idle)
<1>1. /\ Idle.at = "idle" /\ Idle.items = <<>> /\ Idle.pending = {}
  BY DEF Idle
<1> QED BY <1>1, EmptyList DEF FoundFits

LEMMA FoundBeside ==
  ASSUME NEW x, NEW y, NEW k \in {"calm", "newest"}, Beside(x, y, k), FoundFits(y)
  PROVE  FoundFits(x)
<1>1. CASE x = Idle
  BY <1>1, FoundIdle
<1>2. CASE Like(x, y, {k})
  <2>1. /\ x.at = y.at /\ x.items = y.items /\ x.out = y.out /\ x.known = y.known
        /\ x.pending = y.pending /\ x.chosen = y.chosen /\ x.skip = y.skip
    BY <1>2 DEF Like, Fields
  <2> QED BY <2>1 DEF FoundFits, Asked
<1> QED BY <1>1, <1>2 DEF Beside

LEMMA FoundStep ==
  ASSUME RetrievalAssumption, Typed, Found, [Next]_vars
  PROVE  Found'
<1>1. TypeOK /\ CitesAreKept(file) /\ \A p \in Procs: FoundFits(proc[p])
  BY DEF Typed, Found
<1>2. CASE UNCHANGED vars
  BY <1>1, <1>2 DEF vars, Found
<1>3. CASE Editing
  <2>1. \A o \in Procs: Beside(proc'[o], proc[o], "calm")
    BY <1>1, <1>3, Edits
  <2> QED BY <1>1, <2>1, FoundBeside DEF Found
<1>4. CASE Refresh
  BY <1>1, <1>4 DEF Refresh, Found
<1>5. ASSUME NEW p \in Procs, Alone(p), FoundFits(proc'[p]) PROVE Found'
  BY <1>1, <1>5 DEF Alone, Found
<1>6. ASSUME NEW p \in Procs, NEW t \in Tasks, NEW q \in Asks[t], Begin(p, t, q) PROVE Found'
  <2> DEFINE x == proc'[p]
  <2>1. Alone(p) /\ x.at = "words" /\ x.pending = {} /\ Once(x.items)
    BY <1>1, <1>6, Beginning, EmptyList
  <2> HIDE DEF x
  <2>2. FoundFits(x)
    BY <2>1 DEF FoundFits
  <2> QED BY <1>5, <2>1, <2>2 DEF x
<1>7. ASSUME NEW x, Once(x.items), Searched(x), x.at = "conflicts" PROVE FoundFits(x)
  BY <1>7 DEF Searched, FoundFits, Asked
<1>8. ASSUME NEW p \in Procs, Filter(p) PROVE Found'
  <2> DEFINE x == proc'[p]
             y == proc[p]
  <2>1. /\ Alone(p) /\ y.at = "filter" /\ x.items = Eligible(y.items, y.allowed)
        /\ \/ x.at = "paths" /\ x.pending = y.pending
           \/ x.at = "conflicts" /\ Searched(x)
    BY <1>1, <1>8, Filtering
  <2>2. y.items \in Seq(Item) /\ FoundFits(y)
    BY <1>1, ProcOK DEF TurnOK
  <2> HIDE DEF x, y
  <2>3. Once(x.items) /\ y.pending = {}
    <3>1. Once(y.items) /\ y.pending = {}
      BY <2>1, <2>2 DEF FoundFits
    <3> QED BY <2>1, <2>2, <3>1, FilterFacts
  <2>4. x.at = "paths" /\ x.pending = y.pending => FoundFits(x)
    BY <2>3 DEF FoundFits
  <2>5. FoundFits(x)
    BY <1>7, <2>1, <2>3, <2>4
  <2> QED BY <1>5, <2>1, <2>5 DEF x
<1>9. ASSUME NEW p \in Procs, FollowPaths(p) PROVE Found'
  <2> DEFINE x == proc'[p]
             y == proc[p]
  <2>1. Alone(p) /\ x.at = "conflicts" /\ Searched(x) /\ x.items = Links(p).in \o y.items
    BY <1>1, <1>9, Following
  <2>2. y.items \in Seq(Item) /\ Once(y.items)
    BY <1>1, ProcOK DEF TurnOK, FoundFits
  <2>3. /\ Links(p).in \in Seq(Item) /\ Once(Links(p).in)
        /\ DocsOf(Links(p).in) \cap DocsOf(y.items) = {}
    BY <1>1, LinksFacts
  <2> HIDE DEF x, y
  <2>4. Once(x.items)
    BY <2>1, <2>2, <2>3, ConcatOnce
  <2> QED BY <1>5, <1>7, <2>1, <2>4 DEF x
<1>10. ASSUME NEW p \in Procs, FollowConflicts(p) PROVE Found'
  <2> DEFINE x == proc'[p]
             y == proc[p]
             unavailable == {[doc |-> d, why |-> "conflict-unavailable"] : d \in y.pending \ Indexed}
  <2>1. PICK sides \in Seq(Item), pass \in Seq(Item):
           /\ Alone(p) /\ y.at = "conflicts" /\ x.at = "conflicts"
           /\ Once(pass) /\ DocsOf(sides) = y.pending \cap Indexed
           /\ DocsOf(sides) = DocsOf(pass) \cup {e.doc : e \in Withheld(sides, y.allowed)}
           /\ x.items = y.items \o pass
           /\ x.known = y.known \cup DocsOf(pass)
           /\ x.pending = Conflicting(pass) \ x.known
           /\ x.out = y.out \cup Withheld(sides, y.allowed) \cup unavailable
    BY <1>1, <1>10, Rounding
  <2>2. y.items \in Seq(Item) /\ FoundFits(y)
    BY <1>1, ProcOK DEF TurnOK
  <2>3. \A d \in y.pending \ Indexed: \E e \in unavailable: d = e.doc
    <3>1. \A d \in y.pending \ Indexed: [doc |-> d, why |-> "conflict-unavailable"] \in unavailable
      BY Zenon
    <3> HIDE DEF unavailable
    <3> QED BY <3>1
  <2> HIDE DEF x, y, unavailable
  <2>4. /\ Once(y.items) /\ y.pending \cap DocsOf(y.items) = {} /\ y.known = DocsOf(y.items)
        /\ Conflicting(y.items) \subseteq DocsOf(y.items) \cup {e.doc : e \in y.out} \cup y.pending
    BY <2>1, <2>2 DEF FoundFits, Asked
  <2>5. Once(x.items)
    BY <2>1, <2>2, <2>4, ConcatOnce
  <2>6. /\ DocsOf(x.items) = DocsOf(y.items) \cup DocsOf(pass)
        /\ Conflicting(x.items) = Conflicting(y.items) \cup Conflicting(pass)
    BY <2>1, <2>2, DocsOfConcat
  <2>7. x.known = DocsOf(x.items) /\ x.pending \cap DocsOf(x.items) = {}
    BY <2>1, <2>4, <2>6
  <2>8. Conflicting(pass) \subseteq DocsOf(x.items) \cup x.pending
    BY <2>1, <2>7
  <2>9. ASSUME NEW d \in Conflicting(y.items)
        PROVE  d \in DocsOf(x.items) \/ \E e \in x.out: d = e.doc
    <3>1. CASE d \in DocsOf(y.items)
      BY <2>6, <3>1
    <3>2. CASE \E e \in y.out: d = e.doc
      BY <2>1, <3>2
    <3>3. CASE d \in y.pending /\ d \in Indexed
      <4>1. d \in DocsOf(pass) \/ \E e \in Withheld(sides, y.allowed): d = e.doc
        BY <2>1, <3>3
      <4> QED BY <2>1, <2>6, <4>1
    <3>4. CASE d \in y.pending \ Indexed
      BY <2>1, <2>3, <3>4
    <3> QED BY <2>4, <3>1, <3>2, <3>3, <3>4
  <2>10. Conflicting(x.items) \subseteq Asked(x)
    BY <2>6, <2>8, <2>9 DEF Asked
  <2>11. FoundFits(x)
    BY <2>1, <2>5, <2>7, <2>10 DEF FoundFits
  <2> QED BY <1>5, <2>1, <2>11 DEF x
<1>11. ASSUME NEW p \in Procs, Decide(p) PROVE Found'
  <2> DEFINE x == proc'[p]
             y == proc[p]
  <2>1. /\ Alone(p) /\ y.at = "conflicts" /\ y.pending = {}
        /\ x.at = IF x.skip THEN "manifest" ELSE "remember"
        /\ x.skip => x.chosen = <<>>
        /\ Range(x.chosen) \subseteq Range(y.items) /\ y.out \subseteq x.out
        /\ ~x.skip => DocsOf(y.items) \subseteq DocsOf(x.chosen) \cup {e.doc : e \in x.out}
        /\ Like(x, y, {"at", "chosen", "skip", "sign", "out"})
    BY <1>1, <1>11, Deciding
  <2> HIDE DEF x
  <2>2. FoundFits(y)
    BY <1>1
  <2> HIDE DEF y
  <2>3. x.items = y.items /\ x.pending = {} /\ x.at \in {"manifest", "remember"}
    BY <2>1 DEF Like, Fields
  <2>4. Conflicting(x.items) \subseteq Asked(x)
    BY <2>1, <2>2, <2>3 DEF FoundFits, Asked
  <2>5. FoundFits(x)
    BY <2>1, <2>2, <2>3, <2>4 DEF FoundFits
  <2> QED BY <1>5, <2>1, <2>5 DEF x
<1>12. ASSUME NEW p \in Procs, LoadLast(p) \/ StoreLast(p) PROVE Found'
  <2> DEFINE x == proc'[p]
             y == proc[p]
  <2>1. /\ Alone(p) /\ y.at \in {"remember", "store"} /\ x.at \in {"store", "manifest"}
        /\ Like(x, y, {"at", "last"})
    <3>1. CASE LoadLast(p)
      BY <1>1, <3>1, Loading
    <3>2. CASE StoreLast(p)
      BY <1>1, <3>2, Storing DEF Like
    <3> QED BY <1>12, <3>1, <3>2
  <2> HIDE DEF x
  <2>2. FoundFits(y)
    BY <1>1
  <2> HIDE DEF y
  <2>3. /\ x.items = y.items /\ x.out = y.out /\ x.known = y.known
        /\ x.pending = y.pending /\ x.chosen = y.chosen /\ x.skip = y.skip
    BY <2>1 DEF Like, Fields
  <2>4. FoundFits(x)
    BY <2>1, <2>2, <2>3 DEF FoundFits, Asked
  <2> QED BY <1>5, <2>1, <2>4 DEF x
<1>13. ASSUME NEW p \in Procs, WriteManifest(p) PROVE Found'
  <2> DEFINE x == proc'[p]
             y == proc[p]
  <2>1. /\ y.at = "manifest" /\ x.at \in {"prune", "assemble"} /\ x.items = <<>> /\ Like(x, y, Reset)
        /\ \A o \in Procs \ {p}: Beside(proc'[o], proc[o], "newest")
    BY <1>1, <1>13, Writing
  <2>2. FoundFits(y)
    BY <1>1
  <2>3. \A o \in Procs \ {p}: FoundFits(proc'[o])
    BY <1>1, <2>1, FoundBeside
  <2> HIDE DEF x, y
  <2>4. x.pending = {}
    BY <2>1, <2>2 DEF Like, Fields, Reset, FoundFits
  <2>5. FoundFits(x)
    BY <2>1, <2>4, EmptyList DEF FoundFits
  <2> QED BY <2>3, <2>5 DEF Found, x
<1>14. ASSUME NEW p \in Procs, NEW room \in Rooms, Assemble(p, room) PROVE Found'
  <2> DEFINE x == proc'[p]
             y == proc[p]
  <2>1. /\ Alone(p) /\ y.at = "assemble" /\ x.at = "shown"
        /\ Like(x, y, {"at", "capsule", "chosen", "sign"})
    BY <1>1, <1>14, Assembling
  <2>2. FoundFits(y)
    BY <1>1
  <2> HIDE DEF x, y
  <2>3. x.items = y.items /\ x.pending = y.pending
    BY <2>1 DEF Like, Fields
  <2>4. FoundFits(x)
    BY <2>1, <2>2, <2>3 DEF FoundFits
  <2> QED BY <1>5, <2>1, <2>4 DEF x
<1>15. ASSUME NEW p \in Procs, End(p) \/ Stop(p) PROVE Found'
  BY <1>1, <1>5, <1>15, Ending, FoundIdle DEF Over
<1>16. ASSUME NEW p \in Procs, Prune(p) PROVE Found'
  <2> DEFINE x == proc'[p]
             y == proc[p]
  <2>1. Alone(p) /\ y.at = "prune" /\ x.at = "assemble" /\ Like(x, y, {"at"})
    BY <1>1, <1>16, Pruning
  <2>2. FoundFits(y)
    BY <1>1
  <2> HIDE DEF x, y
  <2>3. x.items = y.items /\ x.pending = y.pending
    BY <2>1 DEF Like, Fields
  <2>4. FoundFits(x)
    BY <2>1, <2>2, <2>3 DEF FoundFits
  <2> QED BY <1>5, <2>1, <2>4 DEF x
<1>17. ASSUME NEW p \in Procs, Seeking(p) PROVE Found'
  <2> DEFINE x == proc'[p]
             y == proc[p]
  <2>1. /\ Alone(p) /\ y.at \in Finding /\ x.at \in Finding \cup {"filter"}
        /\ Like(x, y, {"at", "terms", "relevant", "items"})
        /\ x.items = y.items \/ Once(x.items)
    BY <1>1, <1>17, Searching
  <2>2. FoundFits(y)
    BY <1>1
  <2> HIDE DEF x, y
  <2>3. Once(x.items) /\ x.pending = {}
    BY <2>1, <2>2 DEF Like, Fields, FoundFits, Finding
  <2>4. FoundFits(x)
    BY <2>1, <2>3 DEF FoundFits, Finding
  <2> QED BY <1>5, <2>1, <2>4 DEF x
<1> QED BY <1>2, <1>3, <1>4, <1>6, <1>8, <1>9, <1>10, <1>11, <1>12, <1>13, <1>14, <1>15, <1>16, <1>17,
           Happening

LEMMA FoundInv == Spec => [](Typed /\ Found)
<1> USE RetrievalAssumption
<1>1. Init => Typed /\ Found
  BY TypedInit, FoundIdle DEF Init, Found
<1>2. Typed /\ Found /\ [Next]_vars => (Typed /\ Found)'
  BY TypedStep, FoundStep
<1> QED BY <1>1, <1>2, PTL DEF Spec

\* while pending: whatever the words, paths and conflicts, no document is found
\* twice or asked for again, so that there are no more rounds than documents.
THEOREM FoundOnce == Spec => []NothingIsFoundTwice
<1> USE RetrievalAssumption
<1>1. Typed /\ Found => NothingIsFoundTwice
  <2> SUFFICES ASSUME Typed, Found, NEW p \in Procs
               PROVE  /\ Len(proc[p].items) = Cardinality(DocsOf(proc[p].items))
                      /\ proc[p].pending \cap DocsOf(proc[p].items) = {}
    BY DEF NothingIsFoundTwice
  <2>1. proc[p].items \in Seq(Item)
    BY ProcOK DEF Typed, TurnOK
  <2>2. Once(proc[p].items) /\ proc[p].pending \cap DocsOf(proc[p].items) = {}
    BY DEF Found, FoundFits
  <2> QED BY <2>1, <2>2, OnceCounts
<1> QED BY <1>1, FoundInv, PTL

\* The manifest that retrieve writes: what was found and not selected is excluded
\* with a reason, and so is every side of a conflict that is handed over or left out.
THEOREM ManifestsAccount == Spec => []ManifestAccountsForAll
<1> USE RetrievalAssumption
<1>1. Typed /\ Found => ManifestAccountsForAll
  <2> SUFFICES ASSUME Found, NEW p \in Procs, proc[p].at \in {"remember", "store", "manifest"}
               PROVE  LET told == DocsOf(proc[p].chosen) \cup {e.doc : e \in proc[p].out} IN
                      /\ proc[p].skip \/ DocsOf(proc[p].items) \subseteq told
                      /\ Conflicting(proc[p].chosen) \subseteq told
                      /\ Conflicting(proc[p].items) \subseteq told \cup DocsOf(proc[p].items)
    BY DEF ManifestAccountsForAll
  <2> DEFINE x == proc[p]
             out == {e.doc : e \in x.out}
  <2>1. FoundFits(x) /\ x.at \in {"remember", "store", "manifest"}
    BY DEF Found
  <2> HIDE DEF x
  <2>2. /\ x.pending = {} /\ Range(x.chosen) \subseteq Range(x.items)
        /\ Conflicting(x.items) \subseteq DocsOf(x.items) \cup out
        /\ ~x.skip => DocsOf(x.items) \subseteq DocsOf(x.chosen) \cup out
        /\ x.skip => x.chosen = <<>>
    BY <2>1 DEF FoundFits, Asked
  <2> HIDE DEF out
  <2>3. DocsOf(x.chosen) \subseteq DocsOf(x.items)
    BY <2>2, DocsOfRange
  <2>4. Conflicting(x.chosen) \subseteq Conflicting(x.items)
    BY <2>3, ConflictsOfRange
  <2>5. x.skip => Conflicting(x.chosen) = {}
    BY <2>2, EmptyList
  <2> QED BY <2>2, <2>4, <2>5 DEF out, x
<1> QED BY <1>1, FoundInv, PTL

-----------------------------------------------------------------------------
(* What a turn hands over when nothing was edited. *)


LEMMA CalmIdle == \A good, classes: CalmFits(Idle, good, classes)
<1>1. /\ Idle.items = <<>> /\ Idle.chosen = <<>> /\ Idle.capsule = <<>> /\ Idle.at = "idle"
  BY DEF Idle
<1> QED BY <1>1, EmptyList DEF CalmFits, Finding

LEMMA CalmBeside ==
  ASSUME NEW x, NEW y, NEW k \in {"calm", "newest"}, Beside(x, y, k),
         NEW good, NEW classes, k = "newest" => CalmFits(y, good, classes), NEW g, NEW c,
         k = "newest" => g = good /\ c = classes
  PROVE  CalmFits(x, g, c)
<1>1. CASE x = Idle
  BY <1>1, CalmIdle
<1>2. CASE Like(x, y, {k}) /\ x[k] = FALSE /\ k = "newest"
  <2>1. /\ x.at = y.at /\ x.items = y.items /\ x.chosen = y.chosen /\ x.capsule = y.capsule
        /\ x.allowed = y.allowed /\ x.calm = y.calm
    BY <1>2 DEF Like, Fields
  <2> QED BY <1>2, <2>1 DEF CalmFits, Finding
<1>3. CASE x[k] = FALSE /\ k = "calm"
  BY <1>3 DEF CalmFits, Finding
<1> QED BY <1>1, <1>2, <1>3 DEF Beside

LEMMA CalmStep ==
  ASSUME RetrievalAssumption, Typed, Calm, [Next]_vars
  PROVE  Calm'
<1>1. TypeOK /\ CitesAreKept(file) /\ \A p \in Procs: CalmFits(proc[p], Good, allowed)
  BY DEF Typed, Calm
<1>2. UNCHANGED <<file, source, allowed>> => Good' = Good /\ allowed' = allowed
  BY DEF Good, Reason, Moved
<1>3. CASE UNCHANGED vars
  <2>1. UNCHANGED <<file, source, allowed>> /\ proc' = proc
    BY <1>3 DEF vars, world
  <2> QED BY <1>1, <1>2, <2>1 DEF Calm
<1>4. CASE Editing
  <2>1. ASSUME NEW o \in Procs PROVE CalmFits(proc'[o], Good', allowed')
    <3>1. Beside(proc'[o], proc[o], "calm")
      BY <1>1, <1>4, Edits
    <3> QED BY <3>1, CalmBeside
  <2> QED BY <2>1 DEF Calm
<1>5. CASE Refresh
  BY <1>1, <1>2, <1>5 DEF Refresh, Calm
<1>6. ASSUME NEW p \in Procs, Alone(p), UNCHANGED world, CalmFits(proc'[p], Good, allowed) PROVE Calm'
  BY <1>1, <1>2, <1>6 DEF Alone, Calm, world
<1>7. ASSUME NEW p \in Procs PROVE CalmFits(proc[p], Good, allowed) /\ TurnOK(proc[p])
  BY <1>1, ProcOK
<1>8. \A s \in Seq(Item): Range(s) \subseteq Item
  BY DEF Range
<1>9. ASSUME NEW p \in Procs, NEW t \in Tasks, NEW q \in Asks[t], Begin(p, t, q) PROVE Calm'
  <2> DEFINE x == proc'[p]
  <2>1. /\ Alone(p) /\ UNCHANGED world /\ x.at = "words" /\ x.allowed = allowed
        /\ x.chosen = <<>> /\ x.capsule = <<>> /\ x.items = <<>>
    BY <1>1, <1>9, Beginning
  <2> HIDE DEF x
  <2>2. CalmFits(x, Good, allowed)
    BY <2>1, EmptyList DEF CalmFits, Finding
  <2> QED BY <1>6, <2>1, <2>2 DEF x
<1>10. ASSUME NEW p \in Procs, Filter(p) PROVE Calm'
  <2> DEFINE x == proc'[p]
             y == proc[p]
  <2>1. /\ Alone(p) /\ Still /\ y.at = "filter" /\ x.items = Eligible(y.items, y.allowed)
        /\ TurnOK(x) /\ Like(x, y, {"at", "items", "out", "known", "pending"})
    BY <1>1, <1>10, Filtering
  <2>2. TurnOK(y) /\ CalmFits(y, Good, allowed)
    BY <1>7
  <2> HIDE DEF x, y
  <2>3. Range(x.items) = {it \in Range(y.items): Reason(it, y.allowed) = "none"}
    BY <2>1, <2>2, FilterFacts DEF TurnOK
  <2>4. /\ x.chosen = y.chosen /\ x.capsule = y.capsule
        /\ x.allowed = y.allowed /\ x.calm = y.calm
    BY <2>1 DEF Like, Fields
  <2>5. y.calm => y.allowed = allowed /\ Range(y.items) \subseteq Item
    BY <1>8, <2>1, <2>2 DEF CalmFits, TurnOK
  <2>6. y.calm => Range(x.items) \subseteq Good /\ \A it \in Range(x.items): it.row # Gone
    BY <2>2, <2>3, <2>5 DEF CalmFits, Good
  <2>7. CalmFits(x, Good, allowed)
    BY <2>2, <2>4, <2>5, <2>6 DEF CalmFits, Finding
  <2> QED BY <1>6, <2>1, <2>7 DEF x, Still
<1>11. ASSUME NEW p \in Procs, FollowPaths(p) PROVE Calm'
  <2> DEFINE x == proc'[p]
             y == proc[p]
  <2>1. /\ Alone(p) /\ Still /\ y.at = "paths" /\ x.items = Links(p).in \o y.items
        /\ TurnOK(x) /\ Like(x, y, {"at", "items", "out", "known", "pending"})
    BY <1>1, <1>11, Following
  <2>2. TurnOK(y) /\ CalmFits(y, Good, allowed)
    BY <1>7
  <2>3. /\ Links(p).in \in Seq(Item)
        /\ \A it \in Range(Links(p).in): it.row # Gone /\ Reason(it, y.allowed) = "none"
    BY <1>1, LinksFacts
  <2> HIDE DEF x, y
  <2>4. Range(x.items) = Range(Links(p).in) \cup Range(y.items)
    BY <2>1, <2>2, <2>3, ConcatFacts DEF TurnOK
  <2>5. /\ x.chosen = y.chosen /\ x.capsule = y.capsule
        /\ x.allowed = y.allowed /\ x.calm = y.calm
    BY <2>1 DEF Like, Fields
  <2>6. y.calm => y.allowed = allowed /\ Range(y.items) \subseteq Good
    BY <2>1, <2>2 DEF CalmFits, Finding
  <2>7. y.calm => Range(Links(p).in) \subseteq Good
    BY <1>8, <2>3, <2>6 DEF Good
  <2>8. CalmFits(x, Good, allowed)
    BY <2>2, <2>4, <2>5, <2>6, <2>7 DEF CalmFits, Good
  <2> QED BY <1>6, <2>1, <2>8 DEF x, Still
<1>12. ASSUME NEW p \in Procs, FollowConflicts(p) PROVE Calm'
  <2> DEFINE x == proc'[p]
             y == proc[p]
  <2>1. PICK pass \in Seq(Item):
           /\ Alone(p) /\ Still /\ y.at = "conflicts" /\ x.items = y.items \o pass
           /\ \A it \in Range(pass): it.row # Gone /\ Reason(it, y.allowed) = "none"
           /\ TurnOK(x) /\ Like(x, y, {"at", "items", "out", "known", "pending"})
    BY <1>1, <1>12, Rounding
  <2>2. TurnOK(y) /\ CalmFits(y, Good, allowed)
    BY <1>7
  <2> HIDE DEF x, y
  <2>4. Range(x.items) = Range(pass) \cup Range(y.items)
    BY <2>1, <2>2, ConcatFacts DEF TurnOK
  <2>5. /\ x.chosen = y.chosen /\ x.capsule = y.capsule
        /\ x.allowed = y.allowed /\ x.calm = y.calm
    BY <2>1 DEF Like, Fields
  <2>6. y.calm => y.allowed = allowed /\ Range(y.items) \subseteq Good
    BY <2>1, <2>2 DEF CalmFits, Finding
  <2>7. y.calm => Range(pass) \subseteq Good
    BY <1>8, <2>1, <2>6 DEF Good
  <2>8. CalmFits(x, Good, allowed)
    BY <2>2, <2>4, <2>5, <2>6, <2>7 DEF CalmFits, Good
  <2> QED BY <1>6, <2>1, <2>8 DEF x, Still
<1>13. ASSUME NEW p \in Procs, Decide(p) PROVE Calm'
  <2> DEFINE x == proc'[p]
             y == proc[p]
  <2>1. /\ Alone(p) /\ Still /\ y.at = "conflicts" /\ x.at = IF x.skip THEN "manifest" ELSE "remember"
        /\ Range(x.chosen) \subseteq Range(y.items)
        /\ Like(x, y, {"at", "chosen", "skip", "sign", "out"})
    BY <1>1, <1>13, Deciding
  <2>2. CalmFits(y, Good, allowed)
    BY <1>7
  <2> HIDE DEF x, y
  <2>3. x.items = y.items /\ x.capsule = y.capsule /\ x.calm = y.calm
    BY <2>1 DEF Like, Fields
  <2>4. CalmFits(x, Good, allowed)
    BY <2>1, <2>2, <2>3 DEF CalmFits, Finding
  <2> QED BY <1>6, <2>1, <2>4 DEF x, Still
<1>14. ASSUME NEW p \in Procs, LoadLast(p) \/ StoreLast(p) PROVE Calm'
  <2> DEFINE x == proc'[p]
             y == proc[p]
  <2>1. /\ Alone(p) /\ UNCHANGED world /\ x.at \in {"store", "manifest"}
        /\ Like(x, y, {"at", "last"})
    <3>1. CASE LoadLast(p)
      BY <1>1, <3>1, Loading DEF Still
    <3>2. CASE StoreLast(p)
      BY <1>1, <3>2, Storing DEF Like
    <3> QED BY <1>14, <3>1, <3>2
  <2>2. CalmFits(y, Good, allowed)
    BY <1>7
  <2> HIDE DEF x, y
  <2>3. x.items = y.items /\ x.chosen = y.chosen /\ x.capsule = y.capsule /\ x.calm = y.calm
    BY <2>1 DEF Like, Fields
  <2>4. CalmFits(x, Good, allowed)
    BY <2>1, <2>2, <2>3 DEF CalmFits, Finding
  <2> QED BY <1>6, <2>1, <2>4 DEF x
<1>15. ASSUME NEW p \in Procs, WriteManifest(p) PROVE Calm'
  <2> DEFINE x == proc'[p]
             y == proc[p]
  <2>1. /\ UNCHANGED world /\ x.at \in {"prune", "assemble"} /\ x.items = <<>> /\ Like(x, y, Reset)
        /\ \A o \in Procs \ {p}: Beside(proc'[o], proc[o], "newest")
    BY <1>1, <1>15, Writing
  <2>2. CalmFits(y, Good, allowed)
    BY <1>7
  <2>3. ASSUME NEW o \in Procs \ {p} PROVE CalmFits(proc'[o], Good, allowed)
    <3>1. Beside(proc'[o], proc[o], "newest") /\ CalmFits(proc[o], Good, allowed)
      BY <1>7, <2>1
    <3> QED BY <3>1, CalmBeside
  <2> HIDE DEF x, y
  <2>4. x.chosen = y.chosen /\ x.capsule = y.capsule /\ x.calm = y.calm
    BY <2>1 DEF Like, Fields, Reset
  <2>5. CalmFits(x, Good, allowed)
    BY <2>1, <2>2, <2>4, EmptyList DEF CalmFits, Finding
  <2>6. \A o \in Procs: CalmFits(proc'[o], Good, allowed)
    BY <2>3, <2>5 DEF x
  <2>7. UNCHANGED <<file, source, allowed>>
    BY <2>1 DEF world
  <2> QED BY <1>2, <2>6, <2>7 DEF Calm
<1>16. ASSUME NEW p \in Procs, NEW room \in Rooms, Assemble(p, room) PROVE Calm'
  <2> DEFINE x == proc'[p]
             y == proc[p]
  <2>1. /\ Alone(p) /\ UNCHANGED world /\ x.at = "shown"
        /\ Range(x.capsule) \subseteq Range(y.chosen) /\ x.chosen = <<>>
        /\ Like(x, y, {"at", "capsule", "chosen", "sign"})
    BY <1>1, <1>16, Assembling DEF world
  <2>2. CalmFits(y, Good, allowed)
    BY <1>7
  <2> HIDE DEF x, y
  <2>3. x.items = y.items /\ x.calm = y.calm
    BY <2>1 DEF Like, Fields
  <2>4. CalmFits(x, Good, allowed)
    BY <2>1, <2>2, <2>3, EmptyList DEF CalmFits, Finding
  <2> QED BY <1>6, <2>1, <2>4 DEF x
<1>17. ASSUME NEW p \in Procs, End(p) \/ Stop(p) PROVE Calm'
  <2>1. Over(p)
    BY <1>1, <1>17, Ending
  <2> QED BY <1>6, <2>1, CalmIdle DEF Over
<1>18. ASSUME NEW p \in Procs, Prune(p) PROVE Calm'
  <2> DEFINE x == proc'[p]
             y == proc[p]
  <2>1. Alone(p) /\ UNCHANGED world /\ x.at = "assemble" /\ Like(x, y, {"at"})
    BY <1>1, <1>18, Pruning
  <2>2. CalmFits(y, Good, allowed)
    BY <1>7
  <2> HIDE DEF x, y
  <2>3. x.items = y.items /\ x.chosen = y.chosen /\ x.capsule = y.capsule /\ x.calm = y.calm
    BY <2>1 DEF Like, Fields
  <2>4. CalmFits(x, Good, allowed)
    BY <2>1, <2>2, <2>3 DEF CalmFits, Finding
  <2> QED BY <1>6, <2>1, <2>4 DEF x
<1>19. ASSUME NEW p \in Procs, Seeking(p) PROVE Calm'
  <2> DEFINE x == proc'[p]
             y == proc[p]
  <2>1. /\ Alone(p) /\ Still /\ y.at \in Finding /\ x.at \in Finding \cup {"filter"}
        /\ Like(x, y, {"at", "terms", "relevant", "items"})
        /\ x.items = y.items \/ \A it \in Range(x.items): it.row # Gone
    BY <1>1, <1>19, Searching
  <2>2. CalmFits(y, Good, allowed)
    BY <1>7
  <2> HIDE DEF x, y
  <2>3. x.chosen = y.chosen /\ x.capsule = y.capsule /\ x.allowed = y.allowed /\ x.calm = y.calm
    BY <2>1 DEF Like, Fields
  <2>4. CalmFits(x, Good, allowed)
    BY <2>1, <2>2, <2>3 DEF CalmFits, Finding
  <2> QED BY <1>6, <2>1, <2>4 DEF x, Still
<1> QED BY <1>3, <1>4, <1>5, <1>9, <1>10, <1>11, <1>12, <1>13, <1>14, <1>15, <1>16, <1>17, <1>18, <1>19,
           Happening

\* _runtime_filter: what a turn hands over, if nothing was edited during it, is
\* allowed, unchanged on disk, and cites sources that are as they were.
THEOREM CalmDeliveries == Spec => []CalmDeliveriesAreCurrent
<1> USE RetrievalAssumption
<1>1. Init => Typed /\ Calm
  BY TypedInit, CalmIdle DEF Init, Calm
<1>2. Typed /\ Calm /\ [Next]_vars => (Typed /\ Calm)'
  BY TypedStep, CalmStep
<1>3. Typed /\ Calm => CalmDeliveriesAreCurrent
  <2> SUFFICES ASSUME Typed, Calm, NEW p \in Procs, proc[p].calm, NEW i \in DOMAIN proc[p].capsule
               PROVE  LET it == proc[p].capsule[i] IN
                      /\ Doc[it.doc].class \in allowed /\ file[it.doc] = it.row
                      /\ \A s \in Doc[it.doc].cites \cap Sources: source[s] = file[it.doc].prints[s]
    BY DEF CalmDeliveriesAreCurrent
  <2> DEFINE it == proc[p].capsule[i]
  <2>1. it \in Good
    BY DEF Calm, CalmFits, Range
  <2> HIDE DEF it
  <2>2. it.doc \in Docs /\ Reason(it, allowed) = "none" /\ it.row # Gone
    BY <2>1 DEF Good, Item
  <2>3. Doc[it.doc].class \in allowed /\ file[it.doc] = it.row /\ ~Moved(it)
    BY <2>2 DEF Reason
  <2>4. Doc[it.doc].cites \cap Sources \subseteq DOMAIN it.row.prints
    BY <2>2, <2>3 DEF Typed, CitesAreKept
  <2>5. \A s \in Doc[it.doc].cites \cap Sources: source[s] = it.row.prints[s]
    BY <2>3, <2>4 DEF Moved
  <2> QED BY <2>3, <2>5 DEF it
<1> QED BY <1>1, <1>2, <1>3, PTL DEF Spec

LEMMA TurnsListed ==
  ASSUME TypeOK, NEW c \in Scopes, NEW m \in Range(manifests[c])
  PROVE  m.turn \in Nat
<1>1. manifests[c] \in Seq(Listed)
  BY DEF TypeOK
<1>2. PICK i \in DOMAIN manifests[c]: m = manifests[c][i]
  BY DEF Range
<1>3. m \in Listed
  BY <1>1, <1>2
<1> QED BY <1>3 DEF Listed

-----------------------------------------------------------------------------
(* What the manifests say. *)

LEMMA IdleIsIdle == Idle.at = "idle"
BY DEF Idle

LEMMA RecordIdle == \A dirs, n: RecordFits(Idle, dirs, n)
BY DEF Idle, RecordFits, Written

\* Of a turn's fields, what its record depends on.
LEMMA RecordStill ==
  ASSUME NEW x, NEW y, NEW dirs, NEW n \in Nat, RecordFits(y, dirs, n), y.turn \in Nat,
         y.at # "idle", x.at \notin {"idle", "shown"}, y.at \notin Written, x.at \notin Written,
         x.turn = y.turn, x.task = y.task, x.capsule = y.capsule
  PROVE  RecordFits(x, dirs, n)
BY DEF RecordFits, Written

\* A turn's record when the directories have been pruned, by itself or by another.
LEMMA RecordThinned ==
  ASSUME NEW x, NEW y, Thinned, NEW n \in Nat, RecordFits(y, manifests, n),
         x.at = y.at \/ (y.at = "prune" /\ x.at = "assemble"), x.turn = y.turn, x.task = y.task,
         x.capsule = y.capsule, x.chosen = y.chosen, x.newest = y.newest,
         y.at # "idle" => Scope[y.task] \in Scopes
  PROVE  RecordFits(x, manifests', n)
<1>1. \A c \in Scopes: /\ Range(manifests'[c]) \subseteq Range(manifests[c])
                       /\ \A k: Tops(manifests[c], k) => Tops(manifests'[c], k)
  BY DEF Thinned
<1>2. x.at # "idle" => Mine(x, manifests') \subseteq Mine(y, manifests)
  BY <1>1 DEF Mine
<1>3. x.at # "idle" /\ Tops(manifests[Scope[y.task]], y.turn) => Tops(manifests'[Scope[x.task]], x.turn)
  BY <1>1
<1>4. x.at \in Written <=> y.at \in Written
  BY DEF Written
<1>5. x.at \in Written => /\ x.newest => Tops(manifests'[Scope[x.task]], x.turn)
                         /\ \A m \in Mine(x, manifests'):
                               DocsOf(x.chosen) \cup DocsOf(x.capsule) \subseteq m.docs
  BY <1>2, <1>3, <1>4 DEF RecordFits, Written
<1>6. x.at \notin Written \cup {"idle"} => \A c \in Scopes: \A m \in Range(manifests'[c]): m.turn # x.turn
  BY <1>1, <1>4 DEF RecordFits
<1> QED BY <1>5, <1>6 DEF RecordFits

LEMMA RecordStep ==
  ASSUME RetrievalAssumption, Typed, Recorded, [Next]_vars
  PROVE  Recorded'
<1>1. TypeOK /\ CitesAreKept(file) /\ turns \in Nat
  BY DEF Typed, TypeOK
<1>2. /\ \A c \in Scopes: \A m \in Range(manifests[c]): m.turn <= turns
      /\ \A p \in Procs: RecordFits(proc[p], manifests, turns) /\ TurnOK(proc[p])
  BY <1>1, ProcOK DEF Recorded
<1>3. \A p, o \in Procs: p # o /\ proc[p].at # "idle" /\ proc[o].at # "idle" => proc[p].turn # proc[o].turn
  BY DEF Recorded
<1>4. CASE UNCHANGED vars
  BY <1>4 DEF vars, Recorded
<1>5. ASSUME UNCHANGED <<manifests, turns>>, NEW k \in {"calm", "newest"}, k = "calm",
             \A o \in Procs: Beside(proc'[o], proc[o], k)
      PROVE  Recorded'
  <2>1. ASSUME NEW o \in Procs
        PROVE  /\ RecordFits(proc'[o], manifests, turns)
               /\ proc'[o].at # "idle" => proc[o].at # "idle" /\ proc'[o].turn = proc[o].turn
    <3> DEFINE x == proc'[o]
               y == proc[o]
    <3>1. Beside(x, y, "calm") /\ RecordFits(y, manifests, turns)
      BY <1>2, <1>5
    <3> HIDE DEF x, y
    <3>2. CASE x = Idle
      BY <3>2, IdleIsIdle, RecordIdle DEF x
    <3>3. CASE y.at # "idle" /\ Like(x, y, {"calm"})
      <4>1. /\ x.at = y.at /\ x.turn = y.turn /\ x.task = y.task /\ x.capsule = y.capsule
            /\ x.chosen = y.chosen /\ x.newest = y.newest
        BY <3>3 DEF Like, Fields
      <4>2. Mine(x, manifests) = Mine(y, manifests)
        BY <4>1 DEF Mine
      <4>3. RecordFits(x, manifests, turns)
        BY <3>1, <4>1, <4>2 DEF RecordFits
      <4> QED BY <3>3, <4>1, <4>3 DEF x, y
    <3> QED BY <3>1, <3>2, <3>3 DEF Beside
  <2> QED BY <1>2, <1>3, <1>5, <2>1 DEF Recorded
<1>6. CASE Editing
  <2>1. UNCHANGED <<manifests, turns>> /\ \A o \in Procs: Beside(proc'[o], proc[o], "calm")
    BY <1>1, <1>6, Edits
  <2> QED BY <1>5, <2>1
<1>7. CASE Refresh
  BY <1>7 DEF Refresh, Recorded
<1>8. ASSUME NEW p \in Procs, Alone(p), UNCHANGED <<manifests, turns>>,
             RecordFits(proc'[p], manifests, turns),
             proc'[p].at # "idle" => proc[p].at # "idle" /\ proc'[p].turn = proc[p].turn
      PROVE  Recorded'
  <2>1. ASSUME NEW o \in Procs
        PROVE  /\ RecordFits(proc'[o], manifests, turns)
               /\ proc'[o].at # "idle" => proc[o].at # "idle" /\ proc'[o].turn = proc[o].turn
    BY <1>2, <1>8 DEF Alone
  <2> QED BY <1>2, <1>3, <1>8, <2>1 DEF Recorded
<1>9. ASSUME NEW p \in Procs, NEW t \in Tasks, NEW q \in Asks[t], Begin(p, t, q) PROVE Recorded'
  <2> DEFINE x == proc'[p]
  <2>1. /\ Alone(p) /\ x.at = "words" /\ x.turn = turns + 1 /\ turns' = turns + 1
        /\ x.capsule = <<>> /\ manifests' = manifests
    BY <1>1, <1>9, Beginning
  <2> HIDE DEF x
  <2>2. \A c \in Scopes: \A m \in Range(manifests[c]): m.turn <= turns' /\ m.turn # x.turn
    <3> SUFFICES ASSUME NEW c \in Scopes, NEW m \in Range(manifests[c])
                 PROVE  m.turn <= turns' /\ m.turn # x.turn
      OBVIOUS
    <3>1. m.turn \in Nat /\ m.turn <= turns
      BY <1>1, <1>2, TurnsListed
    <3> QED BY <1>1, <2>1, <3>1
  <2>3. RecordFits(x, manifests, turns')
    BY <1>1, <2>1, <2>2 DEF RecordFits, Written
  <2>4. ASSUME NEW o \in Procs \ {p}
        PROVE  /\ proc'[o] = proc[o] /\ RecordFits(proc[o], manifests, turns')
               /\ proc[o].at # "idle" => proc[o].turn # x.turn
    <3> DEFINE y == proc[o]
    <3>1. proc'[o] = y /\ RecordFits(y, manifests, turns) /\ y.turn \in Nat
      BY <1>2, <2>1 DEF Alone, TurnOK
    <3> HIDE DEF y
    <3>2. y.at # "idle" => y.turn <= turns
      BY <3>1 DEF RecordFits
    <3>3. y.at # "idle" => y.turn <= turns' /\ y.turn # x.turn
      BY <1>1, <2>1, <3>1, <3>2
    <3>4. RecordFits(y, manifests, turns')
      BY <3>1, <3>3 DEF RecordFits
    <3> QED BY <3>1, <3>3, <3>4 DEF y
  <2>5. \A o \in Procs: RecordFits(proc'[o], manifests, turns')
    BY <2>3, <2>4 DEF x
  <2>6. \A a, b \in Procs: a # b /\ proc'[a].at # "idle" /\ proc'[b].at # "idle" => proc'[a].turn # proc'[b].turn
    BY <1>3, <2>4 DEF x
  <2> QED BY <2>1, <2>2, <2>5, <2>6 DEF Recorded
<1>10. ASSUME NEW p \in Procs,
              Seeking(p) \/ Filter(p) \/ FollowPaths(p) \/ FollowConflicts(p) \/ Decide(p)
                \/ LoadLast(p) \/ StoreLast(p)
       PROVE  Recorded'
  <2> DEFINE x == proc'[p]
             y == proc[p]
             F == {"at", "terms", "relevant", "items", "out", "known", "pending", "chosen", "skip",
                   "sign", "last"}
  <2>1. /\ Alone(p) /\ UNCHANGED <<manifests, turns>> /\ Like(x, y, F)
        /\ y.at \in Finding \cup {"filter", "paths", "conflicts", "remember", "store"}
        /\ x.at \in Finding \cup {"filter", "paths", "conflicts", "remember", "store", "manifest"}
    <3>0. CASE Seeking(p)
      BY <1>1, <3>0, Searching DEF Still, Like
    <3>1. CASE Filter(p)
      BY <1>1, <3>1, Filtering DEF Still, Like
    <3>2. CASE FollowPaths(p)
      BY <1>1, <3>2, Following DEF Still, Like
    <3>3. CASE FollowConflicts(p)
      <4>1. Alone(p) /\ y.at = "conflicts" /\ x.at = "conflicts" /\ Still
               /\ Like(x, y, {"at", "items", "out", "known", "pending"})
        BY <1>1, <3>3, Rounding
      <4> QED BY <4>1 DEF Still, Like
    <3>4. CASE Decide(p)
      <4>1. Alone(p) /\ y.at = "conflicts" /\ x.at = (IF x.skip THEN "manifest" ELSE "remember")
               /\ Still /\ Like(x, y, {"at", "chosen", "skip", "sign", "out"})
        BY <1>1, <3>4, Deciding
      <4> QED BY <4>1 DEF Still, Like
    <3>5. CASE LoadLast(p)
      BY <1>1, <3>5, Loading DEF Still, Like
    <3>6. CASE StoreLast(p)
      BY <1>1, <3>6, Storing DEF Like
    <3> QED BY <1>10, <3>0, <3>1, <3>2, <3>3, <3>4, <3>5, <3>6
  <2>2. RecordFits(y, manifests, turns) /\ y.turn \in Nat
    BY <1>2 DEF TurnOK
  <2> HIDE DEF x, y
  <2>3. x.turn = y.turn /\ x.task = y.task /\ x.capsule = y.capsule
    BY <2>1 DEF Like, Fields
  <2>4. RecordFits(x, manifests, turns)
    <3>1. y.at \notin {"idle"} \cup Written
      BY <2>1 DEF Written, Finding
    <3>2. x.at \notin {"idle", "shown"} \cup Written
      BY <2>1 DEF Written, Finding
    <3> QED BY <1>1, <2>2, <2>3, <3>1, <3>2, RecordStill
  <2>5. y.at # "idle" /\ Alone(p) /\ UNCHANGED <<manifests, turns>>
    BY <2>1 DEF Finding
  <2> QED BY <1>8, <2>3, <2>4, <2>5 DEF x, y
<1>11. ASSUME NEW p \in Procs, WriteManifest(p) PROVE Recorded'
  <2> DEFINE x == proc'[p]
             y == proc[p]
             scope == Scope[y.task]
  <2>1. /\ \A o \in Procs \ {p}: Beside(proc'[o], proc[o], "newest")
        /\ y.at = "manifest" /\ x.at \in {"prune", "assemble"} /\ x.newest
        /\ Like(x, y, Reset) /\ Put(y) /\ turns' = turns
    BY <1>1, <1>11, Writing
  <2>2. RecordFits(y, manifests, turns) /\ y.turn \in Nat
    BY <1>2 DEF TurnOK
  <2>3. \A o \in Procs \ {p}: proc[o].at # "idle" => y.turn # proc[o].turn
    BY <1>3, <2>1
  <2> HIDE DEF x, y
  <2>4. y.turn <= turns /\ y.capsule = <<>>
        /\ \A c \in Scopes: \A m \in Range(manifests[c]): m.turn # y.turn
    BY <2>1, <2>2 DEF RecordFits, Written
  <2>5. /\ \A c \in Scopes: \A m \in Range(manifests'[c]): m \in Range(manifests[c]) \/ m = Said(y)
        /\ scope \in Scopes /\ Said(y) \in Range(manifests'[scope])
        /\ Said(y).turn = y.turn /\ Said(y).docs = DocsOf(y.chosen)
        /\ Tops(manifests'[scope], y.turn)
    <3>1. Said(y).turn = y.turn /\ Said(y).docs = DocsOf(y.chosen)
      BY DEF Said
    <3> QED BY <2>1, <3>1 DEF Put
  <2>6. /\ x.turn = y.turn /\ x.task = y.task /\ x.capsule = y.capsule /\ x.chosen = y.chosen
    BY <2>1 DEF Like, Fields, Reset
  <2>7. \A c \in Scopes: \A m \in Range(manifests'[c]): m.turn <= turns
    BY <1>2, <2>4, <2>5
  <2>8. RecordFits(x, manifests', turns)
    <3>1. Mine(x, manifests') = {Said(y)}
      BY <2>4, <2>5, <2>6 DEF Mine
    <3>2. DocsOf(x.capsule) = {} /\ DocsOf(x.chosen) = DocsOf(y.chosen)
      BY <2>4, <2>6, EmptyList
    <3>3. x.turn <= turns /\ x.capsule = <<>>
      BY <2>4, <2>6
    <3>4. Tops(manifests'[Scope[x.task]], x.turn)
      BY <2>5, <2>6
    <3> HIDE DEF scope
    <3> QED BY <2>1, <2>5, <3>1, <3>2, <3>3, <3>4 DEF RecordFits, Written
  <2>9. ASSUME NEW o \in Procs \ {p}
        PROVE  /\ RecordFits(proc'[o], manifests', turns)
               /\ proc'[o].at # "idle" => proc[o].at # "idle" /\ proc'[o].turn = proc[o].turn
    <3> DEFINE a == proc'[o]
               b == proc[o]
    <3>1. Beside(a, b, "newest") /\ RecordFits(b, manifests, turns) /\ TurnOK(b)
          /\ (b.at # "idle" => b.turn # y.turn)
      BY <1>2, <2>1, <2>3
    <3> HIDE DEF a, b
    <3>2. CASE a = Idle
      BY <3>2, IdleIsIdle, RecordIdle DEF a
    <3>3. CASE b.at # "idle" /\ Like(a, b, {"newest"}) /\ a.newest = FALSE
      <4>1. /\ a.at = b.at /\ a.turn = b.turn /\ a.task = b.task /\ a.capsule = b.capsule
            /\ a.chosen = b.chosen
        BY <3>3 DEF Like, Fields
      <4>2. Scope[b.task] \in Scopes
        BY <3>1, <3>3 DEF TurnOK, RetrievalAssumption, Scopes
      <4>3. Mine(a, manifests') \subseteq Mine(b, manifests)
        BY <2>5, <3>1, <3>3, <4>1, <4>2 DEF Mine
      <4>4. b.at \notin Written => \A c \in Scopes: \A m \in Range(manifests'[c]): m.turn # b.turn
        BY <2>5, <3>1, <3>3 DEF RecordFits
      <4>5. RecordFits(a, manifests', turns)
        BY <3>1, <3>3, <4>1, <4>3, <4>4 DEF RecordFits
      <4> QED BY <3>3, <4>1, <4>5 DEF a, b
    <3> QED BY <3>1, <3>2, <3>3 DEF Beside
  <2>10. \A o \in Procs: RecordFits(proc'[o], manifests', turns)
    BY <2>8, <2>9 DEF x
  <2>11. \A a, b \in Procs: a # b /\ proc'[a].at # "idle" /\ proc'[b].at # "idle" => proc'[a].turn # proc'[b].turn
    <3>1. \A o \in Procs: proc'[o].at # "idle" => proc[o].at # "idle" /\ proc'[o].turn = proc[o].turn
      BY <2>1, <2>6, <2>9 DEF x, y
    <3> QED BY <1>3, <3>1
  <2> QED BY <2>1, <2>7, <2>10, <2>11 DEF Recorded
<1>12. ASSUME NEW p \in Procs, NEW room \in Rooms, Assemble(p, room) PROVE Recorded'
  <2> DEFINE x == proc'[p]
             y == proc[p]
  <2>1. /\ Alone(p) /\ UNCHANGED <<manifests, turns>> /\ y.at = "assemble" /\ x.at = "shown"
        /\ Range(x.capsule) \subseteq Range(y.chosen) /\ x.chosen = <<>>
        /\ Like(x, y, {"at", "capsule", "chosen", "sign"})
    BY <1>1, <1>12, Assembling
  <2>2. RecordFits(y, manifests, turns)
    BY <1>2
  <2> HIDE DEF x, y
  <2>3. x.turn = y.turn /\ x.task = y.task /\ x.newest = y.newest
    BY <2>1 DEF Like, Fields
  <2>4. Mine(x, manifests) = Mine(y, manifests)
    BY <2>3 DEF Mine
  <2>5. DocsOf(x.capsule) \subseteq DocsOf(y.chosen) /\ DocsOf(x.chosen) = {}
    BY <2>1, DocsOfRange, EmptyList
  <2>6. RecordFits(x, manifests, turns)
    BY <2>1, <2>2, <2>3, <2>4, <2>5 DEF RecordFits, Written
  <2> QED BY <1>8, <2>1, <2>3, <2>6 DEF x, y
<1>13. ASSUME NEW p \in Procs, End(p) \/ Stop(p) PROVE Recorded'
  <2>1. Over(p)
    BY <1>1, <1>13, Ending
  <2>2. proc'[p].at = "idle"
    BY <2>1 DEF Over, Idle
  <2> QED BY <1>8, <2>1, <2>2, RecordIdle DEF Over
<1>14. ASSUME NEW p \in Procs, Prune(p) PROVE Recorded'
  <2>1. /\ Alone(p) /\ proc[p].at = "prune" /\ proc'[p].at = "assemble"
        /\ Like(proc'[p], proc[p], {"at"}) /\ Thinned /\ turns' = turns
    BY <1>1, <1>14, Pruning
  <2>2. ASSUME NEW o \in Procs
        PROVE  /\ RecordFits(proc'[o], manifests', turns)
               /\ proc'[o].at # "idle" => proc[o].at # "idle" /\ proc'[o].turn = proc[o].turn
    <3> DEFINE x == proc'[o]
               y == proc[o]
    <3>1. x = y \/ (y.at = "prune" /\ x.at = "assemble" /\ Like(x, y, {"at"}))
      BY <2>1 DEF Alone
    <3>2. RecordFits(y, manifests, turns) /\ TurnOK(y)
      BY <1>2
    <3> HIDE DEF x, y
    <3>3. /\ x.at = y.at \/ (y.at = "prune" /\ x.at = "assemble")
          /\ x.turn = y.turn
          /\ x.task = y.task /\ x.capsule = y.capsule /\ x.chosen = y.chosen /\ x.newest = y.newest
      BY <3>1 DEF Like, Fields
    <3>4. y.at # "idle" => Scope[y.task] \in Scopes
      BY <3>2 DEF TurnOK, RetrievalAssumption, Scopes
    <3>5. RecordFits(x, manifests', turns)
      BY <1>1, <2>1, <3>2, <3>3, <3>4, RecordThinned
    <3> QED BY <3>3, <3>5 DEF x, y
  <2>3. \A c \in Scopes: \A m \in Range(manifests'[c]): m.turn <= turns
    BY <1>2, <2>1 DEF Thinned
  <2> QED BY <1>3, <2>1, <2>2, <2>3 DEF Recorded
<1> QED BY <1>4, <1>6, <1>7, <1>9, <1>10, <1>11, <1>12, <1>13, <1>14, Happening

\* retrieve and _prune_local_manifests: the manifest that a capsule names is there
\* until another turn has written one and prunes, and names every document that the
\* capsule holds.
THEOREM Deliveries == Spec => []DeliveriesAreOnRecord
<1> USE RetrievalAssumption
<1>1. Init => Typed /\ Recorded
  <2> SUFFICES ASSUME Init PROVE Recorded
    BY TypedInit
  <2>1. manifests = [c \in Scopes |-> <<>>] /\ \A p \in Procs: proc[p] = Idle
    BY DEF Init, Scopes
  <2>2. \A c \in Scopes: Range(manifests[c]) = {}
    BY <2>1, EmptyList
  <2>3. Idle.at = "idle"
    BY DEF Idle
  <2> QED BY <2>1, <2>2, <2>3, RecordIdle DEF Recorded
<1>2. Typed /\ Recorded /\ [Next]_vars => (Typed /\ Recorded)'
  BY TypedStep, RecordStep
<1>3. Typed /\ Recorded => DeliveriesAreOnRecord
  <2> SUFFICES ASSUME Typed, Recorded, NEW p \in Procs, proc[p].at = "shown"
               PROVE  LET mine == Mine(proc[p], manifests) IN
                      /\ proc[p].newest => mine # {}
                      /\ \A m \in mine: DocsOf(proc[p].capsule) \subseteq m.docs
    BY DEF DeliveriesAreOnRecord, Mine
  <2> DEFINE x == proc[p]
             dir == manifests[Scope[x.task]]
  <2>1. RecordFits(x, manifests, turns) /\ TurnOK(x)
    BY ProcOK DEF Recorded, Typed
  <2>2. dir \in Seq(Listed)
    BY <2>1 DEF TurnOK, RetrievalAssumption, Scopes, Typed, TypeOK
  <2> HIDE DEF dir
  <2>3. Tops(dir, x.turn) => \E m \in Range(dir): m.turn = x.turn
    <3> SUFFICES ASSUME Tops(dir, x.turn) PROVE \E m \in Range(dir): m.turn = x.turn
      OBVIOUS
    <3>1. Len(dir) \in DOMAIN dir /\ dir[Len(dir)].turn = x.turn
      BY <2>2 DEF Tops
    <3> QED BY <3>1 DEF Range
  <2> QED BY <2>1, <2>3 DEF RecordFits, Written, Mine, dir
<1> QED BY <1>1, <1>2, <1>3, PTL DEF Spec

-----------------------------------------------------------------------------
(* What the gate remembers. *)

\* A turn that stands to the gate as it did.
Keeps(x, y) ==
    /\ x.at # "idle" => y.at # "idle" /\ x.task = y.task
    /\ \A t \in Tasks: Handing(x, t) <=> Handing(y, t)
    /\ \A t \in Tasks: Handing(x, t) => x.sign = y.sign
    /\ x.skip /\ x.sign.docs # {} => y.skip /\ y.sign = x.sign /\ y.task = x.task

LEMMA RememberedStill ==
  ASSUME TypeOK, Remembered, UNCHANGED <<last, got>>, \A o \in Procs: Keeps(proc'[o], proc[o])
  PROVE  Remembered'
<1>1. \A e \in Range(last): e.task \in Tasks
  <2> SUFFICES ASSUME NEW i \in DOMAIN last PROVE last[i].task \in Tasks
    BY DEF Range
  <2>1. last[i] \in Entry
    BY DEF TypeOK
  <2> QED BY <2>1 DEF Entry
<1>2. \A p, o \in Procs:
        p # o /\ proc'[p].at # "idle" /\ proc'[o].at # "idle" => proc'[p].task # proc'[o].task
  BY DEF Remembered, Keeps
<1>3. \A e \in Range(last): got[e.task] = e.sign \/ \E p \in Procs: Handing(proc'[p], e.task)
  BY <1>1 DEF Remembered, Keeps
<1>4. \A e \in Range(last), p \in Procs: Handing(proc'[p], e.task) => proc'[p].sign = e.sign
  BY <1>1 DEF Remembered, Keeps
<1>5. \A p \in Procs: proc'[p].skip /\ proc'[p].sign.docs # {} => got[proc'[p].task] = proc'[p].sign
  BY DEF Remembered, Keeps
<1> HIDE DEF Keeps
<1> QED BY <1>2, <1>3, <1>4, <1>5 DEF Remembered, Handing

LEMMA IdleKeeps ==
  /\ GateFits(Idle)
  /\ \A y: y.at \notin {"manifest", "prune", "assemble"} => Keeps(Idle, y)
<1>1. Idle.at = "idle" /\ ~Idle.skip
  BY DEF Idle
<1> QED BY <1>1 DEF GateFits, Keeps, Handing, Undecided, Finding

LEMMA BesideKeeps ==
  ASSUME NEW x, NEW y, NEW k \in {"calm", "newest"}, Beside(x, y, k)
  PROVE  Keeps(x, y) /\ (GateFits(y) => GateFits(x))
<1>1. CASE x = Idle /\ y.at = "idle"
  BY <1>1, IdleKeeps
<1>2. CASE y.at # "idle" /\ Like(x, y, {k})
  <2>1. x.at = y.at /\ x.task = y.task /\ x.skip = y.skip /\ x.sign = y.sign
    BY <1>2 DEF Like, Fields
  <2> QED BY <1>2, <2>1 DEF Keeps, GateFits, Handing, Undecided, Finding
<1> QED BY <1>1, <1>2 DEF Beside

\* gate_decision: a repeat is a repeat of what is remembered of the task.
LEMMA Repeated ==
  ASSUME TypeOK, NEW t, NEW sign, Repeats(t, sign), sign.docs # {}
  PROVE  \E e \in Range(last): e.task = t /\ e.sign = sign
<1>1. Previous(t) = sign
  BY DEF Repeats
<1>2. NoSign.docs = {}
  BY DEF NoSign
<1>3. PICK i \in DOMAIN last: last[i].task = t
  <2>1. Previous(t) # NoSign
    BY <1>1, <1>2
  <2> QED BY <2>1 DEF Previous
<1>4. Previous(t) = (CHOOSE e \in Range(last): e.task = t).sign
  BY <1>3 DEF Previous
<1>5. \E e \in Range(last): e.task = t
  BY <1>3 DEF Range
<1>6. /\ (CHOOSE e \in Range(last): e.task = t) \in Range(last)
      /\ (CHOOSE e \in Range(last): e.task = t).task = t
  BY <1>5, Zenon
<1> QED BY <1>1, <1>4, <1>6

LEMMA TidyStep ==
  ASSUME RetrievalAssumption, Typed, Tidied, [Next]_vars
  PROVE  Tidied'
<1>1. TypeOK /\ CitesAreKept(file) /\ (tidy => Remembered) /\ \A p \in Procs: GateFits(proc[p])
  BY DEF Typed, Tidied
<1>2. CASE UNCHANGED vars
  BY <1>2 DEF vars, Tidied, Remembered, GateFits, Handing, Undecided, Finding
<1>3. ASSUME tidy' => tidy /\ UNCHANGED <<last, got>> /\ \A o \in Procs: Keeps(proc'[o], proc[o]),
             \A o \in Procs: GateFits(proc'[o])
      PROVE  Tidied'
  BY <1>1, <1>3, RememberedStill DEF Tidied
<1>4. CASE Editing
  <2>1. UNCHANGED <<last, got, tidy>> /\ \A o \in Procs: Beside(proc'[o], proc[o], "calm")
    BY <1>1, <1>4, Edits
  <2>2. \A o \in Procs: Keeps(proc'[o], proc[o]) /\ GateFits(proc'[o])
    BY <1>1, <2>1, BesideKeeps
  <2> QED BY <1>3, <2>1, <2>2
<1>5. ASSUME NEW y PROVE Keeps(y, y)
  BY DEF Keeps
<1>6. CASE Refresh
  BY <1>1, <1>3, <1>5, <1>6 DEF Refresh
<1>7. ASSUME NEW p \in Procs, Alone(p), tidy' => tidy /\ UNCHANGED <<last, got>> /\ Keeps(proc'[p], proc[p]),
             GateFits(proc'[p])
      PROVE  Tidied'
  BY <1>1, <1>3, <1>5, <1>7 DEF Alone
<1>8. \A e \in Range(last): e.task \in Tasks
  <2> SUFFICES ASSUME NEW i \in DOMAIN last PROVE last[i].task \in Tasks
    BY DEF Range
  <2>1. last[i] \in Entry
    BY <1>1 DEF TypeOK
  <2> QED BY <2>1 DEF Entry
<1>9. ASSUME NEW p \in Procs, NEW t \in Tasks, NEW q \in Asks[t], Begin(p, t, q) PROVE Tidied'
  <2> DEFINE x == proc'[p]
             y == proc[p]
  <2>1. /\ Alone(p) /\ y.at = "idle" /\ x.at = "words" /\ x.task = t /\ ~x.skip
        /\ tidy' = (tidy /\ \A o \in Procs: proc[o].task # t) /\ UNCHANGED <<last, got>>
    BY <1>1, <1>9, Beginning
  <2>2. GateFits(x)
    <3> HIDE DEF x
    <3> QED BY <2>1 DEF GateFits, Undecided, Finding
  <2>3. \A o \in Procs: GateFits(proc'[o])
    BY <1>1, <2>1, <2>2 DEF Alone
  <2>4. ASSUME tidy' PROVE Remembered'
    <3>1. Remembered /\ \A o \in Procs: proc[o].task # t
      BY <1>1, <2>1, <2>4, Zenon
    <3>2. \A o \in Procs \ {p}: proc'[o] = proc[o]
      BY <2>1 DEF Alone
    <3> HIDE DEF x, y
    <3>3. \A u \in Tasks: ~Handing(x, u) /\ ~Handing(y, u)
      BY <2>1 DEF Handing
    <3>4. \A a, b \in Procs:
            a # b /\ proc'[a].at # "idle" /\ proc'[b].at # "idle" => proc'[a].task # proc'[b].task
      BY <2>1, <3>1, <3>2 DEF Remembered, x
    <3>5. \A e \in Range(last): got[e.task] = e.sign \/ \E o \in Procs: Handing(proc'[o], e.task)
      <4>1. \A e \in Range(last): got[e.task] = e.sign \/ \E o \in Procs \ {p}: Handing(proc[o], e.task)
        BY <1>8, <3>1, <3>3 DEF Remembered, y
      <4>2. \A o \in Procs \ {p}: \A u: Handing(proc'[o], u) <=> Handing(proc[o], u)
        BY <3>2
      <4> QED BY <4>1, <4>2
    <3>6. \A e \in Range(last), o \in Procs: Handing(proc'[o], e.task) => proc'[o].sign = e.sign
      BY <1>8, <3>1, <3>2, <3>3 DEF Remembered, x
    <3>7. \A o \in Procs: proc'[o].skip /\ proc'[o].sign.docs # {} => got[proc'[o].task] = proc'[o].sign
      BY <2>1, <3>1, <3>2 DEF Remembered, x
    <3> QED BY <2>1, <3>4, <3>5, <3>6, <3>7 DEF Remembered, Handing
  <2> QED BY <2>3, <2>4 DEF Tidied
<1>10. ASSUME NEW p \in Procs,
              Seeking(p) \/ Filter(p) \/ FollowPaths(p) \/ FollowConflicts(p) \/ LoadLast(p)
       PROVE  Tidied'
  <2> DEFINE x == proc'[p]
             y == proc[p]
             F == {"at", "terms", "relevant", "items", "out", "known", "pending", "last"}
             Before == Undecided \ {"idle"}
  <2>1. Alone(p) /\ Still /\ Like(x, y, F) /\ y.at \in Before /\ x.at \in Before
    <3>0. CASE Seeking(p)
      BY <1>1, <3>0, Searching DEF Like, Undecided, Finding
    <3>1. CASE Filter(p)
      BY <1>1, <3>1, Filtering DEF Like, Undecided
    <3>2. CASE FollowPaths(p)
      BY <1>1, <3>2, Following DEF Like, Undecided
    <3>3. CASE FollowConflicts(p)
      <4>1. Alone(p) /\ y.at = "conflicts" /\ x.at = "conflicts" /\ Still
               /\ Like(x, y, {"at", "items", "out", "known", "pending"})
        BY <1>1, <3>3, Rounding
      <4> QED BY <4>1 DEF Like, Undecided
    <3>4. CASE LoadLast(p)
      BY <1>1, <3>4, Loading DEF Like, Undecided
    <3> QED BY <1>10, <3>0, <3>1, <3>2, <3>3, <3>4
  <2>2. GateFits(y)
    BY <1>1
  <2> HIDE DEF x, y
  <2>3. x.task = y.task /\ x.skip = y.skip /\ x.sign = y.sign
    BY <2>1 DEF Like, Fields
  <2>4. Keeps(x, y) /\ GateFits(x)
    BY <2>1, <2>2, <2>3 DEF Keeps, GateFits, Handing, Undecided, Finding
  <2> QED BY <1>7, <2>1, <2>4 DEF x, y, Still
<1>11. ASSUME NEW p \in Procs, WriteManifest(p) PROVE Tidied'
  <2> DEFINE x == proc'[p]
             y == proc[p]
  <2>1. /\ \A o \in Procs \ {p}: Beside(proc'[o], proc[o], "newest")
        /\ y.at = "manifest" /\ x.at \in {"prune", "assemble"} /\ Like(x, y, Reset)
        /\ UNCHANGED <<last, got, tidy>>
    BY <1>1, <1>11, Writing
  <2>2. \A o \in Procs \ {p}: Keeps(proc'[o], proc[o]) /\ GateFits(proc'[o])
    BY <1>1, <2>1, BesideKeeps
  <2> HIDE DEF x, y
  <2>3. x.task = y.task /\ x.skip = y.skip /\ x.sign = y.sign
    BY <2>1 DEF Like, Fields, Reset
  <2>4. Keeps(x, y) /\ GateFits(x)
    BY <2>1, <2>3 DEF Keeps, GateFits, Handing, Undecided, Finding
  <2>5. \A o \in Procs: Keeps(proc'[o], proc[o]) /\ GateFits(proc'[o])
    BY <2>2, <2>4 DEF x, y
  <2> QED BY <1>3, <2>1, <2>5
<1>12. ASSUME NEW p \in Procs, End(p) \/ Stop(p) PROVE Tidied'
  <2>1. Over(p)
    BY <1>1, <1>12, Ending
  <2> QED BY <1>7, <2>1, IdleKeeps DEF Over
<1>13. ASSUME NEW p \in Procs, Decide(p) PROVE Tidied'
  <2> DEFINE x == proc'[p]
             y == proc[p]
  <2>1. /\ Alone(p) /\ Still /\ y.at = "conflicts" /\ TurnOK(y)
        /\ x.sign = Signed(y) /\ x.skip = Repeats(y.task, Signed(y))
        /\ x.at = IF x.skip THEN "manifest" ELSE "remember"
        /\ Like(x, y, {"at", "chosen", "skip", "sign", "out"})
    BY <1>1, <1>13, Deciding, ProcOK
  <2> HIDE DEF x, y
  <2>2. x.task = y.task /\ y.task \in Tasks
    BY <2>1 DEF Like, Fields, TurnOK
  <2>3. \A u: ~Handing(x, u) /\ ~Handing(y, u)
    BY <2>1 DEF Handing
  <2>4. GateFits(x)
    BY <2>1 DEF GateFits, Undecided, Finding
  <2>5. \A o \in Procs: GateFits(proc'[o])
    BY <1>1, <2>1, <2>4 DEF Alone, x
  <2>6. \A o \in Procs \ {p}: proc'[o] = proc[o]
    BY <2>1 DEF Alone
  <2>7. ASSUME tidy' PROVE Remembered'
    <3>1. Remembered /\ UNCHANGED <<last, got>>
      BY <1>1, <2>1, <2>7 DEF Still
    <3>2. \A a, b \in Procs:
            a # b /\ proc'[a].at # "idle" /\ proc'[b].at # "idle" => proc'[a].task # proc'[b].task
      BY <2>1, <2>2, <2>6, <3>1 DEF Remembered, x, y
    <3>3. \A e \in Range(last): got[e.task] = e.sign \/ \E o \in Procs: Handing(proc'[o], e.task)
      <4>1. \A e \in Range(last): got[e.task] = e.sign \/ \E o \in Procs \ {p}: Handing(proc[o], e.task)
        BY <2>3, <3>1 DEF Remembered, y
      <4>2. \A o \in Procs \ {p}: \A u: Handing(proc'[o], u) <=> Handing(proc[o], u)
        BY <2>6
      <4> QED BY <4>1, <4>2
    <3>4. \A e \in Range(last), o \in Procs: Handing(proc'[o], e.task) => proc'[o].sign = e.sign
      BY <2>3, <2>6, <3>1 DEF Remembered, x
    <3>5. x.skip /\ x.sign.docs # {} => got[x.task] = x.sign
      <4> SUFFICES ASSUME x.skip, x.sign.docs # {} PROVE got[x.task] = x.sign
        OBVIOUS
      <4>1. PICK e \in Range(last): e.task = y.task /\ e.sign = x.sign
        BY <1>1, <2>1, Repeated
      <4>2. ~\E o \in Procs: Handing(proc[o], y.task)
        <5> SUFFICES ASSUME NEW o \in Procs \ {p}, Handing(proc[o], y.task) PROVE FALSE
          BY <2>3 DEF y
        <5>1. proc[o].at # "idle" /\ proc[o].task = y.task
          BY DEF Handing
        <5> QED BY <2>1, <3>1, <5>1 DEF Remembered, y
      <4> QED BY <2>2, <3>1, <4>1, <4>2 DEF Remembered
    <3>6. \A o \in Procs: proc'[o].skip /\ proc'[o].sign.docs # {} => got[proc'[o].task] = proc'[o].sign
      BY <2>6, <3>1, <3>5 DEF Remembered, x
    <3> QED BY <3>1, <3>2, <3>3, <3>4, <3>6 DEF Remembered, Handing
  <2> QED BY <2>5, <2>7 DEF Tidied
<1>14. ASSUME NEW p \in Procs, StoreLast(p) PROVE Tidied'
  <2> DEFINE x == proc'[p]
             y == proc[p]
  <2>1. /\ Alone(p) /\ TurnOK(y) /\ y.at = "store" /\ x.at = "manifest" /\ Like(x, y, {"at"})
        /\ got' = got /\ (tidy' => tidy /\ last = y.last /\ WroteBack(y))
    BY <1>1, <1>14, Storing, ProcOK
  <2>2. GateFits(y)
    BY <1>1
  <2> HIDE DEF x, y
  <2>3. x.task = y.task /\ x.skip = y.skip /\ x.sign = y.sign /\ ~x.skip
    BY <2>1, <2>2 DEF Like, Fields, GateFits, Undecided, Finding
  <2>4. \A o \in Procs \ {p}: proc'[o] = proc[o]
    BY <2>1 DEF Alone
  <2>5. GateFits(x)
    BY <2>1, <2>3 DEF GateFits, Undecided, Finding
  <2>6. \A o \in Procs: GateFits(proc'[o])
    BY <1>1, <2>4, <2>5 DEF x
  <2>7. ASSUME tidy' PROVE Remembered'
    <3>1. /\ Remembered /\ last = y.last
          /\ \A e \in Range(last'): (e \in Range(last) /\ e.task # y.task) \/ e = Own(y)
      BY <1>1, <2>1, <2>7 DEF WroteBack
    <3>2. \A a, b \in Procs:
            a # b /\ proc'[a].at # "idle" /\ proc'[b].at # "idle" => proc'[a].task # proc'[b].task
      BY <2>1, <2>3, <2>4, <3>1 DEF Remembered, x, y
    <3>3. /\ \A u: ~Handing(y, u) /\ (Handing(x, u) <=> u = y.task)
          /\ \A o \in Procs \ {p}: ~Handing(proc'[o], y.task)
      <4>1. \A u: ~Handing(y, u) /\ (Handing(x, u) <=> u = y.task)
        BY <2>1, <2>3 DEF Handing
      <4>2. ASSUME NEW o \in Procs \ {p}, Handing(proc[o], y.task) PROVE FALSE
        <5>1. proc[o].at # "idle" /\ proc[o].task = y.task
          BY <4>2 DEF Handing
        <5> QED BY <2>1, <3>1, <5>1 DEF Remembered, y
      <4> QED BY <2>4, <4>1, <4>2
    <3>4. Own(y).task = y.task /\ Own(y).sign = y.sign
      BY DEF Own
    <3>5. ASSUME NEW e \in Range(last')
          PROVE  got[e.task] = e.sign \/ \E o \in Procs: Handing(proc'[o], e.task)
      <4>1. CASE e = Own(y)
        BY <3>3, <3>4, <4>1 DEF x
      <4>2. CASE e \in Range(last) /\ e.task # y.task
        <5>1. got[e.task] = e.sign \/ \E o \in Procs \ {p}: Handing(proc[o], e.task)
          BY <3>1, <3>3, <4>2 DEF Remembered, y
        <5> QED BY <2>4, <5>1
      <4> QED BY <3>1, <4>1, <4>2
    <3>6. ASSUME NEW e \in Range(last'), NEW o \in Procs, Handing(proc'[o], e.task)
          PROVE  proc'[o].sign = e.sign
      <4>1. CASE e = Own(y)
        <5>1. o = p
          BY <3>3, <3>4, <3>6, <4>1
        <5> QED BY <2>3, <3>4, <4>1, <5>1 DEF x
      <4>2. CASE e \in Range(last) /\ e.task # y.task
        <5>1. o # p
          BY <3>3, <3>6, <4>2 DEF x
        <5> QED BY <2>4, <3>1, <3>6, <4>2, <5>1 DEF Remembered
      <4> QED BY <3>1, <4>1, <4>2
    <3>7. \A o \in Procs: proc'[o].skip /\ proc'[o].sign.docs # {} => got[proc'[o].task] = proc'[o].sign
      BY <2>3, <2>4, <3>1 DEF Remembered, x
    <3> QED BY <2>1, <3>2, <3>5, <3>6, <3>7 DEF Remembered, Handing
  <2> QED BY <2>6, <2>7 DEF Tidied
<1>15. ASSUME NEW p \in Procs, NEW room \in Rooms, Assemble(p, room) PROVE Tidied'
  <2> DEFINE x == proc'[p]
             y == proc[p]
             new == [words |-> y.sign.words, docs |-> DocsOf(x.capsule)]
  <2>1. /\ Alone(p) /\ y.at = "assemble" /\ x.at = "shown" /\ x.sign.docs = {} /\ TurnOK(y)
        /\ Like(x, y, {"at", "capsule", "chosen", "sign"}) /\ last' = last
        /\ y.skip => got' = got
        /\ ~y.skip => \A t \in Tasks: got'[t] = IF t = y.task THEN new ELSE got[t]
        /\ tidy' => tidy /\ (y.skip \/ DocsOf(x.capsule) = y.sign.docs)
    BY <1>1, <1>15, Assembling, ProcOK
  <2> HIDE DEF x, y
  <2>2. x.task = y.task /\ x.skip = y.skip /\ y.task \in Tasks /\ y.sign \in Sign
    BY <2>1 DEF Like, Fields, TurnOK
  <2>3. GateFits(x)
    BY <2>1 DEF GateFits, Undecided, Finding
  <2>4. \A o \in Procs \ {p}: proc'[o] = proc[o]
    BY <2>1 DEF Alone
  <2>5. CASE y.skip
    <3>1. Keeps(x, y)
      BY <2>1, <2>2, <2>5 DEF Keeps, Handing
    <3> QED BY <1>7, <2>1, <2>3, <2>5, <3>1 DEF x, y
  <2>6. CASE ~y.skip
    <3>1. \A o \in Procs: GateFits(proc'[o])
      BY <1>1, <2>3, <2>4 DEF x
    <3>2. ASSUME tidy' PROVE Remembered'
      <4>1. Remembered /\ new = y.sign
        <5>1. tidy /\ DocsOf(x.capsule) = y.sign.docs
          BY <2>1, <2>6, <3>2
        <5> QED BY <1>1, <2>2, <5>1 DEF Sign
      <4> HIDE DEF new
      <4>2. \A t \in Tasks: got'[t] = IF t = y.task THEN y.sign ELSE got[t]
        BY <2>1, <2>6, <4>1
      <4>3. \A a, b \in Procs:
              a # b /\ proc'[a].at # "idle" /\ proc'[b].at # "idle" => proc'[a].task # proc'[b].task
        BY <2>1, <2>2, <2>4, <4>1 DEF Remembered, x, y
      <4>4. /\ \A u: ~Handing(x, u) /\ (Handing(y, u) <=> u = y.task)
            /\ \A o \in Procs \ {p}: proc[o].at # "idle" => proc[o].task # y.task
        <5>1. \A u: ~Handing(x, u) /\ (Handing(y, u) <=> u = y.task)
          BY <2>1, <2>6 DEF Handing
        <5>2. \A o \in Procs \ {p}: proc[o].at # "idle" => proc[o].task # y.task
          BY <2>1, <4>1 DEF Remembered, y
        <5> QED BY <5>1, <5>2
      <4>5. ASSUME NEW e \in Range(last)
            PROVE  got'[e.task] = e.sign \/ \E o \in Procs: Handing(proc'[o], e.task)
        <5>1. CASE e.task = y.task
          BY <2>2, <4>1, <4>2, <4>4, <5>1 DEF Remembered, y
        <5>2. CASE e.task # y.task
          <6>1. got[e.task] = e.sign \/ \E o \in Procs \ {p}: Handing(proc[o], e.task)
            BY <4>1, <4>4, <5>2 DEF Remembered, y
          <6> QED BY <1>8, <2>4, <4>2, <5>2, <6>1
        <5> QED BY <5>1, <5>2
      <4>6. \A e \in Range(last), o \in Procs: Handing(proc'[o], e.task) => proc'[o].sign = e.sign
        BY <2>4, <4>1, <4>4 DEF Remembered, x
      <4>7. ASSUME NEW o \in Procs, proc'[o].skip, proc'[o].sign.docs # {}
            PROVE  got'[proc'[o].task] = proc'[o].sign
        <5>1. o # p /\ proc'[o] = proc[o]
          BY <2>1, <2>4, <4>7 DEF x
        <5>2. proc[o].at # "idle" /\ proc[o].task \in Tasks
          <6>1. GateFits(proc[o]) /\ TurnOK(proc[o])
            BY <1>1, ProcOK
          <6> QED BY <4>7, <5>1, <6>1 DEF GateFits, Undecided, TurnOK
        <5>3. got[proc[o].task] = proc[o].sign
          BY <4>1, <4>7, <5>1 DEF Remembered
        <5> QED BY <4>2, <4>4, <5>1, <5>2, <5>3
      <4> QED BY <2>1, <4>3, <4>5, <4>6, <4>7 DEF Remembered, Handing
    <3> QED BY <3>1, <3>2 DEF Tidied
  <2> QED BY <2>5, <2>6
<1>16. ASSUME NEW p \in Procs, Prune(p) PROVE Tidied'
  <2> DEFINE x == proc'[p]
             y == proc[p]
  <2>1. /\ Alone(p) /\ y.at = "prune" /\ x.at = "assemble" /\ Like(x, y, {"at"})
        /\ UNCHANGED <<last, got, tidy>>
    BY <1>1, <1>16, Pruning
  <2> HIDE DEF x, y
  <2>2. x.task = y.task /\ x.skip = y.skip /\ x.sign = y.sign
    BY <2>1 DEF Like, Fields
  <2>3. Keeps(x, y) /\ GateFits(x)
    BY <2>1, <2>2 DEF Keeps, GateFits, Handing, Undecided, Finding
  <2> QED BY <1>7, <2>1, <2>3 DEF x, y
<1> QED BY <1>2, <1>4, <1>6, <1>9, <1>10, <1>11, <1>12, <1>13, <1>14, <1>15, <1>16, Happening

\* gate_decision: what is held back is what the task was last handed, as long as
\* turns were remembered as they were delivered.
THEOREM Skips == Spec => []SkipsRepeatTheLastDelivery
<1> USE RetrievalAssumption
<1>1. Init => Typed /\ Tidied
  <2> SUFFICES ASSUME Init PROVE Tidied
    BY TypedInit
  <2>1. last = <<>> /\ \A p \in Procs: proc[p] = Idle
    BY DEF Init
  <2>2. Range(last) = {}
    BY <2>1, EmptyList
  <2>3. Idle.at = "idle" /\ ~Idle.skip
    BY DEF Idle
  <2> QED BY <2>1, <2>2, <2>3, IdleKeeps DEF Tidied, Remembered
<1>2. Typed /\ Tidied /\ [Next]_vars => (Typed /\ Tidied)'
  BY TypedStep, TidyStep
<1>3. Tidied => SkipsRepeatTheLastDelivery
  BY DEF Tidied, Remembered, SkipsRepeatTheLastDelivery
<1> QED BY <1>1, <1>2, <1>3, PTL DEF Spec

-----------------------------------------------------------------------------
(* TURNBUFFER.  The invariants. *)

Turns == [task: Names, times: Nat]

\* Every row has its entry in the history, under the task it belongs to, and a
\* command handles rows of its own task.
RowsAreKnown ==
    /\ \A d \in deltas: d.id \in DOMAIN landed /\ landed[d.id].task = d.task
    /\ \A p \in Hooks: \A d \in hook[p].rows:
          d.id \in DOMAIN landed /\ landed[d.id].task = hook[p].task

\* A command that runs is about a task; one that does not has nothing in hand.
CommandsFit == \A p \in Hooks: IF hook[p].at = "idle" THEN hook[p] = NoTurn
                               ELSE hook[p].task \in Names

\* What is about to be deleted has reached the record.
DeletesLanded ==
    \A p \in Hooks: hook[p].at = "delete" =>
       \A d \in hook[p].rows: landed[d.id].times > 0

LostInv == TurnTypeOK /\ RowsAreKnown /\ CommandsFit /\ DeletesLanded /\ NoTurnIsLost

\* A task that is quiet has one command at most.
OneCommand ==
    \A p, q \in Hooks: hook[p].task \in quiet /\ hook[p].task = hook[q].task => p = q

\* The rows that it read have not reached the record until the update, and have
\* reached it once after it.
Flushing == {"ensure", "create", "bind", "address", "update"}
QuietRows ==
    \A p \in Hooks: hook[p].task \in quiet =>
       /\ hook[p].at \in Flushing => \A d \in hook[p].rows: landed[d.id].times = 0
       /\ hook[p].at = "delete" => \A d \in hook[p].rows: landed[d.id].times = 1

QuietInv == LostInv /\ OneCommand /\ QuietRows /\ QuietTurnsLandOnce

\* Who holds the lock is about to bind the record that it has just made.
BindersHoldTheLock ==
    /\ \A p \in Hooks: hook[p].at = "bind" =>
          lock = p /\ hook[p].task \in Governed /\ task[hook[p].task].st = "active"
    /\ \A p \in Hooks: lock = p => hook[p].at = "bind"

RecordInv == TurnTypeOK /\ CommandsFit /\ BindersHoldTheLock /\ OneRecordPerTask

IInv == QuietInv /\ RecordInv

-----------------------------------------------------------------------------
(* What a step does to the commands. *)

LEMMA IdleIsCommand == /\ NoTurn \in Commands /\ NoTurn.at = "idle" /\ NoTurn.task = "none"
                       /\ NoTurn.rows = {}
  BY DEF NoTurn, Commands, States, Unbound

LEMMA Moves ==
  ASSUME hook \in [Hooks -> Commands], NEW p \in Hooks, NEW x \in Commands,
         hook' = [hook EXCEPT ![p] = x]
  PROVE  /\ hook' \in [Hooks -> Commands]
         /\ hook'[p] = x
         /\ \A q \in Hooks \ {p}: hook'[q] = hook[q]
  OBVIOUS

LEMMA GoesOn ==
  ASSUME hook \in [Hooks -> Commands], NEW p \in Hooks, NEW at \in States, GoTo(p, at)
  PROVE  /\ hook' \in [Hooks -> Commands]
         /\ hook'[p].at = at
         /\ hook'[p].task = hook[p].task /\ hook'[p].rows = hook[p].rows
         /\ \A q \in Hooks \ {p}: hook'[q] = hook[q]
<1> DEFINE x == [hook[p] EXCEPT !.at = at]
<1>1. /\ x \in Commands /\ x.at = at /\ x.task = hook[p].task /\ x.rows = hook[p].rows
  BY DEF Commands
<1>2. hook' = [hook EXCEPT ![p] = x]
  BY DEF GoTo
<1> HIDE DEF x
<1> QED BY <1>1, <1>2, Moves

LEMMA Stops ==
  ASSUME hook \in [Hooks -> Commands], NEW p \in Hooks, Dies(p)
  PROVE  /\ hook' \in [Hooks -> Commands]
         /\ hook'[p] = NoTurn /\ quiet' = quiet \ {hook[p].task}
         /\ \A q \in Hooks \ {p}: hook'[q] = hook[q]
  BY IdleIsCommand, Moves DEF Dies

\* The steps that neither read rows nor touch any: the command goes on with what
\* it has in hand, or ends.
Continues(p) ==
    /\ hook'[p].task = hook[p].task /\ hook'[p].rows = hook[p].rows
    /\ quiet' = quiet
    /\ hook[p].at # "delete" /\ hook'[p].at \notin {"idle", "delete"}
    /\ hook'[p].at \in Flushing => hook[p].at \in Flushing
Ends(p) == /\ hook'[p] = NoTurn
           /\ quiet' = quiet \ {hook[p].task} \/ (quiet' = quiet /\ hook[p].at = "report")
PlainStep(p) ==
    /\ hook[p].at # "idle"
    /\ hook' \in [Hooks -> Commands]
    /\ \A q \in Hooks \ {p}: hook'[q] = hook[q]
    /\ deltas' = deltas /\ landed' = landed
    /\ Continues(p) \/ Ends(p)

Plain(p) == \/ Count(p) \/ Ensure(p) \/ EnsureRow(p) \/ Create(p) \/ Bind(p) \/ CreateRow(p)
            \/ Address(p) \/ Maintain(p) \/ Report(p) \/ Fail(p) \/ Kill(p)
            \/ (Update(p) /\ Dies(p))

LEMMA PlainSteps ==
  ASSUME TurnTypeOK, CommandsFit, NEW p \in Hooks, Plain(p)
  PROVE  PlainStep(p)
<1> USE DEF PlainStep, Continues, Ends, Flushing
<1>0. hook \in [Hooks -> Commands]
  BY DEF TurnTypeOK
<1>a. States = {"idle", "count", "read", "ensure", "create", "bind", "address", "update",
                "delete", "maintain", "report"}
  BY DEF States
<1>1. CASE Count(p)
  BY <1>0, <1>a, <1>1, GoesOn DEF Count, stores, counts, history
<1>2. CASE Ensure(p)
  <2>1. CASE Dies(p)
    BY <1>0, <1>2, <2>1, Stops DEF Ensure, At
  <2>2. CASE quiet' = quiet /\ (GoTo(p, "address") \/ GoTo(p, "create"))
    BY <1>0, <1>a, <1>2, <2>2, GoesOn DEF Ensure, At
  <2> QED BY <1>2, <2>1, <2>2 DEF Ensure
<1>3. CASE EnsureRow(p)
  BY <1>0, <1>a, <1>3, GoesOn DEF EnsureRow, At, stores, counts, history
<1>4. CASE Create(p)
  <2>1. CASE Dies(p)
    BY <1>0, <1>4, <2>1, Stops DEF Create, At
  <2>2. CASE quiet' = quiet /\ GoTo(p, "bind")
    BY <1>0, <1>a, <1>4, <2>2, GoesOn DEF Create, At
  <2> QED BY <1>4, <2>1, <2>2 DEF Create
<1>5. CASE Bind(p)
  BY <1>0, <1>a, <1>5, GoesOn DEF Bind, counts, history
<1>6. CASE CreateRow(p)
  <2>1. CASE Dies(p)
    BY <1>0, <1>6, <2>1, Stops DEF CreateRow, At
  <2>2. CASE quiet' = quiet /\ GoTo(p, "update")
    BY <1>0, <1>a, <1>6, <2>2, GoesOn DEF CreateRow, At
  <2> QED BY <1>6, <2>1, <2>2 DEF CreateRow
<1>7. CASE Address(p)
  <2>1. CASE Dies(p)
    BY <1>0, <1>7, <2>1, Stops DEF Address, stores
  <2>2. CASE hook' = [hook EXCEPT ![p].at = "update", ![p].id = bound[hook[p].task]]
             /\ quiet' = quiet
    <3> DEFINE x == [hook[p] EXCEPT !.at = "update", !.id = bound[hook[p].task]]
    <3>1. bound[hook[p].task] \in Nat
      BY <1>7 DEF Address, CommandsFit, TurnTypeOK
    <3>2. /\ x \in Commands /\ x.at = "update" /\ x.task = hook[p].task
          /\ x.rows = hook[p].rows
      BY <1>0, <1>a, <3>1 DEF Commands
    <3>3. hook' = [hook EXCEPT ![p] = x]
      BY <2>2
    <3> HIDE DEF x
    <3> QED BY <1>0, <1>7, <2>2, <3>2, <3>3, Moves DEF Address, stores
  <2> QED BY <1>7, <2>1, <2>2 DEF Address
<1>8. CASE Maintain(p)
  BY <1>0, <1>a, <1>8, GoesOn DEF Maintain
<1>9. CASE Report(p)
  BY <1>0, <1>9, IdleIsCommand, Moves DEF Report, history
<1>10. CASE Fail(p)
  BY <1>0, <1>10, Stops DEF Fail
<1>11. CASE Kill(p)
  BY <1>0, <1>11, Stops DEF Kill
<1>12. CASE Update(p) /\ Dies(p)
  <2>1. ~GoTo(p, "delete")
    BY <1>0, <1>a, <1>12, GoesOn, Stops, IdleIsCommand
  <2> QED BY <1>0, <1>12, <2>1, Stops DEF Update
<1> QED BY <1>1, <1>2, <1>3, <1>4, <1>5, <1>6, <1>7, <1>8, <1>9, <1>10, <1>11, <1>12 DEF Plain

-----------------------------------------------------------------------------
(* What each of the other steps does. *)

Starts(p) == \E t \in Names, force \in BOOLEAN, dirty \in Changes: BeginTurn(p, t, force, dirty)

Begun(p, t) ==
    /\ hook[p].at = "idle" /\ hook' \in [Hooks -> Commands]
    /\ hook'[p].at = "count" /\ hook'[p].task = t /\ hook'[p].rows = {}
    /\ \A q \in Hooks \ {p}: hook'[q] = hook[q]
    /\ \/ deltas' = deltas /\ landed' = landed
       \/ \E d \in Delta: /\ d.id = Len(landed) + 1 /\ d.task = t
                          /\ deltas' = deltas \cup {d}
                          /\ landed' = Append(landed, [task |-> t, times |-> 0])
    /\ quiet' = IF \E q \in Hooks: hook[q].task = t THEN quiet \ {t} ELSE quiet

LEMMA Begins ==
  ASSUME TurnTypeOK, NEW p \in Hooks, Starts(p)
  PROVE  \E t \in Names: Begun(p, t)
<1> SUFFICES ASSUME NEW t \in Names, NEW force \in BOOLEAN, NEW dirty \in Changes,
                    BeginTurn(p, t, force, dirty)
             PROVE  Begun(p, t)
  BY DEF Starts
<1> DEFINE x == [NoTurn EXCEPT !.at = "count", !.task = t, !.force = force]
<1>1. /\ x \in Commands /\ x.at = "count" /\ x.task = t /\ x.rows = {}
  BY DEF NoTurn, Commands, States, Unbound
<1>2. hook' = [hook EXCEPT ![p] = x]
  BY DEF BeginTurn
<1>3. /\ hook' \in [Hooks -> Commands] /\ hook'[p] = x
      /\ \A q \in Hooks \ {p}: hook'[q] = hook[q]
  <2> HIDE DEF x
  <2> QED BY <1>1, <1>2, Moves DEF TurnTypeOK
<1>4. CASE dirty = {}
  BY <1>1, <1>3, <1>4 DEF BeginTurn, Begun
<1>5. CASE dirty # {}
  <2> DEFINE d == [id |-> Len(landed) + 1, task |-> t, files |-> dirty]
  <2>1. Len(landed) + 1 \in Nat /\ dirty \in SUBSET Range(Paths)
    BY TurnAssumption DEF TurnTypeOK
  <2>2. d \in Delta /\ d.id = Len(landed) + 1 /\ d.task = t
    BY <2>1 DEF Delta
  <2>3. deltas' = deltas \cup {d} /\ landed' = Append(landed, [task |-> t, times |-> 0])
    BY <1>5 DEF BeginTurn
  <2> HIDE DEF d
  <2>4. \E e \in Delta: /\ e.id = Len(landed) + 1 /\ e.task = t
                        /\ deltas' = deltas \cup {e}
                        /\ landed' = Append(landed, [task |-> t, times |-> 0])
    BY <2>2, <2>3
  <2>5. /\ hook[p].at = "idle"
        /\ quiet' = IF \E q \in Hooks: hook[q].task = t THEN quiet \ {t} ELSE quiet
    BY DEF BeginTurn
  <2> QED BY <1>1, <1>3, <2>4, <2>5 DEF Begun
<1> QED BY <1>4, <1>5

LEMMA Reading ==
  ASSUME TurnTypeOK, NEW p \in Hooks, Read(p)
  PROVE  /\ hook[p].at = "read" /\ hook' \in [Hooks -> Commands]
         /\ hook'[p].task = hook[p].task /\ hook'[p].rows = Pending(hook[p].task)
         /\ hook'[p].at \in {"report", "ensure"}
         /\ \A q \in Hooks \ {p}: hook'[q] = hook[q]
         /\ UNCHANGED <<deltas, landed, quiet>>
<1> DEFINE at == IF Pending(hook[p].task) = {} THEN "report" ELSE "ensure"
           x == [hook[p] EXCEPT !.rows = Pending(hook[p].task), !.at = at]
<1>1. Pending(hook[p].task) \in SUBSET Delta
  BY DEF Pending, TurnTypeOK
<1>2. /\ x \in Commands /\ x.at \in {"report", "ensure"} /\ x.task = hook[p].task
      /\ x.rows = Pending(hook[p].task)
  BY <1>1 DEF Commands, States, TurnTypeOK
<1>3. hook' = [hook EXCEPT ![p] = x]
  BY DEF Read
<1>4. /\ hook' \in [Hooks -> Commands] /\ hook'[p] = x
      /\ \A q \in Hooks \ {p}: hook'[q] = hook[q]
  <2> HIDE DEF x
  <2> QED BY <1>2, <1>3, Moves DEF TurnTypeOK
<1> HIDE DEF x
<1> QED BY <1>2, <1>4 DEF Read, stores, counts, history

LEMMA Deleting ==
  ASSUME TurnTypeOK, NEW p \in Hooks, Delete(p)
  PROVE  /\ hook[p].at = "delete" /\ hook' \in [Hooks -> Commands]
         /\ hook'[p].task = hook[p].task /\ hook'[p].rows = hook[p].rows
         /\ hook'[p].at \in {"report", "maintain"}
         /\ \A q \in Hooks \ {p}: hook'[q] = hook[q]
         /\ deltas' = {d \in deltas: d.id \notin Ids(hook[p].rows)}
         /\ UNCHANGED <<landed, quiet>>
<1> DEFINE at == IF hook[p].task \in Governed THEN "maintain" ELSE "report"
           x == [hook[p] EXCEPT !.flushed = TRUE, !.at = at]
<1>1. /\ x \in Commands /\ x.at \in {"report", "maintain"} /\ x.task = hook[p].task
      /\ x.rows = hook[p].rows
  BY DEF Commands, States, TurnTypeOK
<1>2. hook' = [hook EXCEPT ![p] = x]
  BY DEF Delete
<1>3. /\ hook' \in [Hooks -> Commands] /\ hook'[p] = x
      /\ \A q \in Hooks \ {p}: hook'[q] = hook[q]
  <2> HIDE DEF x
  <2> QED BY <1>1, <1>2, Moves DEF TurnTypeOK
<1> HIDE DEF x
<1> QED BY <1>1, <1>3 DEF Delete, Kept, counts, history

LEMMA LandedTypes ==
  ASSUME landed \in Seq(Turns), NEW rows
  PROVE  /\ Landed(rows) \in Seq(Turns) /\ DOMAIN Landed(rows) = DOMAIN landed
         /\ \A id \in DOMAIN landed:
              /\ Landed(rows)[id].task = landed[id].task
              /\ Landed(rows)[id].times =
                   IF id \in Ids(rows) THEN landed[id].times + 1 ELSE landed[id].times
<1>1. \A id \in DOMAIN landed: landed[id] \in Turns
  OBVIOUS
<1>2. Landed(rows) \in [DOMAIN landed -> Turns]
  BY <1>1 DEF Landed, Turns
<1>3. DOMAIN landed = 1..Len(landed) /\ Len(landed) \in Nat
  OBVIOUS
<1>4. Landed(rows) \in Seq(Turns)
  BY <1>2, <1>3
<1>5. \A id \in DOMAIN landed:
              /\ Landed(rows)[id].task = landed[id].task
              /\ Landed(rows)[id].times =
                   IF id \in Ids(rows) THEN landed[id].times + 1 ELSE landed[id].times
  BY <1>1 DEF Landed, Turns
<1> QED BY <1>2, <1>4, <1>5

LEMMA Updating ==
  ASSUME TurnTypeOK, NEW p \in Hooks, Update(p), ~Dies(p)
  PROVE  /\ hook[p].at = "update" /\ hook' \in [Hooks -> Commands]
         /\ hook'[p].task = hook[p].task /\ hook'[p].rows = hook[p].rows
         /\ hook'[p].at = "delete"
         /\ \A q \in Hooks \ {p}: hook'[q] = hook[q]
         /\ UNCHANGED <<deltas, quiet>>
         /\ landed' \in Seq(Turns) /\ DOMAIN landed' = DOMAIN landed
         /\ \A id \in DOMAIN landed:
              /\ landed'[id].task = landed[id].task
              /\ landed'[id].times = IF id \in Ids(hook[p].rows) THEN landed[id].times + 1
                                     ELSE landed[id].times
<1>1. /\ landed' = Landed(hook[p].rows) /\ GoTo(p, "delete") /\ UNCHANGED <<deltas, quiet>>
      /\ hook[p].at = "update"
  BY DEF Update
<1>2. "delete" \in States /\ landed \in Seq(Turns)
  BY DEF States, TurnTypeOK, Turns
<1> QED BY <1>1, <1>2, GoesOn, LandedTypes DEF TurnTypeOK

\* The steps of one command, by what they do.
LEMMA StepsSplit ==
  ASSUME NEW p \in Hooks,
         \/ Starts(p)
         \/ Count(p) \/ Read(p) \/ Ensure(p) \/ EnsureRow(p) \/ Create(p) \/ Bind(p)
         \/ Address(p) \/ CreateRow(p) \/ Update(p) \/ Delete(p) \/ Maintain(p) \/ Report(p)
         \/ Fail(p) \/ Kill(p)
  PROVE  \/ Starts(p)
         \/ Plain(p) \/ Read(p) \/ (Update(p) /\ ~Dies(p)) \/ Delete(p)
  BY DEF Plain

-----------------------------------------------------------------------------
(* Types. *)

LEMMA InitTypes == TurnInit => TurnTypeOK
<1> SUFFICES ASSUME TurnInit PROVE TurnTypeOK
  OBVIOUS
<1>1. hook \in [Hooks -> Commands]
  BY IdleIsCommand DEF TurnInit
<1>2. IsTask(NoTask)
  BY DEF NoTask, IsTask
<1>3. landed \in Seq([task: Names, times: Nat])
  BY DEF TurnInit
<1> QED BY <1>1, <1>2, <1>3 DEF TurnInit, TurnTypeOK, Unbound

LEMMA CommandTypes ==
  ASSUME TurnTypeOK, CommandsFit, NEW p \in Hooks,
         \/ Starts(p)
         \/ Plain(p) \/ Read(p) \/ (Update(p) /\ ~Dies(p)) \/ Delete(p)
  PROVE  /\ deltas' \subseteq Delta /\ landed' \in Seq(Turns)
         /\ hook' \in [Hooks -> Commands] /\ quiet' \subseteq Names
<1>0. /\ deltas \subseteq Delta /\ landed \in Seq(Turns) /\ quiet \subseteq Names
  BY DEF TurnTypeOK, Turns
<1>1. CASE Starts(p)
  <2>1. PICK t \in Names: Begun(p, t)
    BY <1>1, Begins
  <2>2. [task |-> t, times |-> 0] \in Turns
    BY DEF Turns
  <2> QED BY <1>0, <2>1, <2>2 DEF Begun
<1>2. CASE Plain(p)
  BY <1>0, <1>2, PlainSteps DEF PlainStep, Continues, Ends
<1>3. CASE Read(p)
  BY <1>0, <1>3, Reading
<1>4. CASE Update(p) /\ ~Dies(p)
  BY <1>0, <1>4, Updating
<1>5. CASE Delete(p)
  BY <1>0, <1>5, Deleting
<1> QED BY <1>1, <1>2, <1>3, <1>4, <1>5

\* The record of a task changes as a whole.
LEMMA TaskIsSet ==
  ASSUME TurnTypeOK, NEW t \in Names, NEW x, IsTask(x), task' = [task EXCEPT ![t] = x]
  PROVE  /\ task' = [u \in Names |-> task'[u]] /\ \A u \in Names: IsTask(task'[u])
         /\ \A u \in Names: task'[u] = IF u = t THEN x ELSE task[u]
<1>1. \A u \in Names: task'[u] = IF u = t THEN x ELSE task[u]
  BY DEF TurnTypeOK
<1>2. task' = [u \in Names |-> task'[u]]
  BY DEF TurnTypeOK
<1> QED BY <1>1, <1>2 DEF TurnTypeOK

StoresTyped == /\ task = [t \in Names |-> task[t]] /\ \A t \in Names: IsTask(task[t])
               /\ bound \in [Names -> Nat]
               /\ lock \in Hooks \cup {Free}
               /\ made \in [Names -> [all: Nat, open: Int]]

LEMMA MakingTypes ==
  ASSUME TurnTypeOK, NEW t \in Names, task' = [task EXCEPT ![t] = NewTask(t)], made' = Made(t)
  PROVE  /\ task' = [u \in Names |-> task'[u]] /\ \A u \in Names: IsTask(task'[u])
         /\ \A u \in Names: u # t => task'[u] = task[u] /\ made'[u] = made[u]
         /\ task'[t].st = "active" /\ made'[t].open = made[t].open + 1
         /\ made' \in [Names -> [all: Nat, open: Int]]
<1>0. made \in [Names -> [all: Nat, open: Int]]
  BY DEF TurnTypeOK
<1>1. IsTask(NewTask(t)) /\ NewTask(t).st = "active"
  BY <1>0 DEF NewTask, NoTask, IsTask
<1>2. made' = [made EXCEPT ![t] = [all |-> made[t].all + 1, open |-> made[t].open + 1]]
  BY DEF Made
<1>3. [all |-> made[t].all + 1, open |-> made[t].open + 1] \in [all: Nat, open: Int]
  BY <1>0
<1>4. /\ made' \in [Names -> [all: Nat, open: Int]] /\ made'[t].open = made[t].open + 1
      /\ \A u \in Names: u # t => made'[u] = made[u]
  BY <1>0, <1>2, <1>3
<1> QED BY <1>1, <1>4, TaskIsSet

LEMMA UnmakingTypes ==
  ASSUME TurnTypeOK, NEW ts, made' = Unmade(ts)
  PROVE  /\ made' \in [Names -> [all: Nat, open: Int]]
         /\ \A u \in Names: made'[u].open = IF u \in ts THEN made[u].open - 1 ELSE made[u].open
<1>0. made \in [Names -> [all: Nat, open: Int]]
  BY DEF TurnTypeOK
<1>1. \A u \in Names: [made[u] EXCEPT !.open = @ - 1] \in [all: Nat, open: Int]
  BY <1>0
<1>2. \A u \in Names: made'[u] = IF u \in ts THEN [made[u] EXCEPT !.open = @ - 1] ELSE made[u]
  BY DEF Unmade
<1>3. \A u \in Names: [made[u] EXCEPT !.open = @ - 1].open = made[u].open - 1
  BY <1>0
<1>4. made' \in [Names -> [all: Nat, open: Int]]
  BY <1>0, <1>1 DEF Unmade
<1> QED BY <1>2, <1>3, <1>4

\* What the steps that change tasks do to them.
TaskSteps(p) == Ensure(p) \/ Create(p) \/ Bind(p) \/ CreateRow(p) \/ Update(p) \/ Maintain(p)
                \/ Fail(p) \/ Kill(p)

LEMMA UpdatedTypes ==
  ASSUME TurnTypeOK, NEW t \in Names, NEW rows
  PROVE  IsTask(Updated(t, rows)) /\ Updated(t, rows).st = task[t].st
  BY DEF TurnTypeOK, IsTask, Updated

LEMMA StoreTypes ==
  ASSUME TurnTypeOK, CommandsFit,
         (\E t \in Names: Complete(t)) \/ (\E p \in Hooks: TaskSteps(p))
  PROVE  StoresTyped'
<1> USE DEF StoresTyped
<1>0. StoresTyped /\ hook \in [Hooks -> Commands]
  BY DEF TurnTypeOK
<1>a. IsTask(NoTask) /\ NoTask.st = "none"
  BY DEF NoTask, IsTask
<1>1. ASSUME NEW t \in Names, Complete(t) PROVE StoresTyped'
  <2> DEFINE x == IF t \in Governed THEN [task[t] EXCEPT !.st = "ended"] ELSE NoTask
  <2>1. IsTask(x)
    BY <1>0, <1>a DEF IsTask
  <2>2. task' = [task EXCEPT ![t] = x]
    BY <1>1 DEF Complete
  <2>3. task' = [u \in Names |-> task'[u]] /\ \A u \in Names: IsTask(task'[u])
    <3> HIDE DEF x
    <3> QED BY <2>1, <2>2, TaskIsSet
  <2>4. made' \in [Names -> [all: Nat, open: Int]]
    BY <1>1, UnmakingTypes DEF Complete
  <2>5. bound' \in [Names -> Nat] /\ lock' = lock
    BY <1>0, <1>1 DEF Complete, Unbound
  <2> QED BY <1>0, <2>3, <2>4, <2>5
<1>2. ASSUME NEW p \in Hooks, TaskSteps(p) PROVE StoresTyped'
  <2>0. hook[p].at # "idle" => hook[p].task \in Names
    BY DEF CommandsFit
  <2>1. CASE Ensure(p)
    <3>1. hook[p].task \in Names
      BY <2>0, <2>1 DEF Ensure, At
    <3>2. bound' \in [Names -> Nat]
      BY <1>0, <2>1, <3>1 DEF Ensure, IsTask
    <3> QED BY <1>0, <2>1, <3>2 DEF Ensure
  <2>2. CASE Create(p)
    <3>1. hook[p].task \in Names
      BY <2>0, <2>2 DEF Create, At
    <3>2. CASE CanCreate(p)
      BY <1>0, <2>2, <3>1, <3>2, MakingTypes DEF Create
    <3>3. CASE ~CanCreate(p)
      BY <1>0, <2>2, <3>3 DEF Create
    <3> QED BY <3>2, <3>3
  <2>3. CASE Bind(p)
    <3>1. hook[p].task \in Names
      BY <2>0, <2>3 DEF Bind
    <3>2. bound' \in [Names -> Nat]
      BY <1>0, <2>3, <3>1 DEF Bind, IsTask
    <3> QED BY <1>0, <2>3, <3>2 DEF Bind, history
  <2>4. CASE CreateRow(p)
    <3>1. hook[p].task \in Names
      BY <2>0, <2>4 DEF CreateRow, At
    <3>2. CASE task[hook[p].task].st = "none"
      BY <1>0, <2>4, <3>1, <3>2, MakingTypes DEF CreateRow
    <3>3. CASE task[hook[p].task].st # "none"
      BY <1>0, <2>4, <3>3 DEF CreateRow
    <3> QED BY <3>2, <3>3
  <2>5. CASE Update(p)
    <3>1. hook[p].task \in Names
      BY <2>0, <2>5 DEF Update
    <3> DEFINE x == Updated(hook[p].task, hook[p].rows)
    <3>2. CASE task' = [task EXCEPT ![hook[p].task] = x]
      <4>1. IsTask(x)
        BY <3>1, UpdatedTypes
      <4>2. task' = [u \in Names |-> task'[u]] /\ \A u \in Names: IsTask(task'[u])
        <5> HIDE DEF x
        <5> QED BY <3>1, <3>2, <4>1, TaskIsSet
      <4> QED BY <1>0, <2>5, <4>2 DEF Update
    <3>3. CASE task' = task
      BY <1>0, <2>5, <3>3 DEF Update
    <3> QED BY <2>5, <3>2, <3>3 DEF Update
  <2>6. CASE Maintain(p)
    <3>1. CASE UNCHANGED <<task, made>>
      BY <1>0, <2>6, <3>1 DEF Maintain
    <3>2. CASE /\ task' = [u \in Names |-> IF u \in Governed /\ task[u].st = "ended"
                                           THEN NoTask ELSE task[u]]
               /\ made' = Unmade({u \in Governed: task[u].st = "ended"})
      <4>1. task' = [u \in Names |-> task'[u]] /\ \A u \in Names: IsTask(task'[u])
        BY <1>0, <1>a, <3>2
      <4>2. made' \in [Names -> [all: Nat, open: Int]]
        BY <1>0, <3>2, UnmakingTypes
      <4> QED BY <1>0, <2>6, <4>1, <4>2 DEF Maintain
    <3> QED BY <2>6, <3>1, <3>2 DEF Maintain
  <2>7. CASE Fail(p)
    <3>1. CASE hook[p].at = "bind"
      <4>1. hook[p].task \in Names
        BY <2>0, <3>1
      <4>2. task' = [u \in Names |-> task'[u]] /\ \A u \in Names: IsTask(task'[u])
        BY <1>a, <2>7, <3>1, <4>1, TaskIsSet DEF Fail
      <4>3. made' \in [Names -> [all: Nat, open: Int]]
        BY <2>7, <3>1, UnmakingTypes DEF Fail
      <4>4. bound' = [bound EXCEPT ![hook[p].task] = Unbound] /\ lock' = Free
        BY <2>7, <3>1 DEF Fail
      <4>5. bound' \in [Names -> Nat]
        BY <1>0, <4>4 DEF Unbound
      <4> QED BY <1>0, <4>2, <4>3, <4>4, <4>5
    <3>2. CASE hook[p].at # "bind"
      BY <1>0, <2>7, <3>2 DEF Fail
    <3> QED BY <3>1, <3>2
  <2>8. CASE Kill(p)
    BY <1>0, <2>8 DEF Kill
  <2> QED BY <1>2, <2>1, <2>2, <2>3, <2>4, <2>5, <2>6, <2>7, <2>8 DEF TaskSteps
<1> QED BY <1>1, <1>2

LEMMA TypesStay == TurnTypeOK /\ CommandsFit /\ [TurnNext]_turnVars => TurnTypeOK'
<1> SUFFICES ASSUME TurnTypeOK, CommandsFit, [TurnNext]_turnVars PROVE TurnTypeOK'
  OBVIOUS
<1>0. TurnTypeOK <=> /\ StoresTyped /\ deltas \subseteq Delta /\ landed \in Seq(Turns)
                 /\ hook \in [Hooks -> Commands] /\ quiet \subseteq Names
  BY DEF TurnTypeOK, StoresTyped, Turns
<1>1. TurnTypeOK' <=> /\ StoresTyped' /\ deltas' \subseteq Delta /\ landed' \in Seq(Turns)
                  /\ hook' \in [Hooks -> Commands] /\ quiet' \subseteq Names
  BY DEF TurnTypeOK, StoresTyped, Turns
<1>2. ASSUME NEW t \in Names, Complete(t) PROVE TurnTypeOK'
  <2>1. StoresTyped'
    BY <1>2, StoreTypes
  <2> QED BY <1>0, <1>1, <1>2, <2>1 DEF Complete
<1>3. ASSUME NEW p \in Hooks,
         \/ Starts(p)
         \/ Count(p) \/ Read(p) \/ Ensure(p) \/ EnsureRow(p) \/ Create(p) \/ Bind(p)
         \/ Address(p) \/ CreateRow(p) \/ Update(p) \/ Delete(p) \/ Maintain(p) \/ Report(p)
         \/ Fail(p) \/ Kill(p)
      PROVE  TurnTypeOK'
  <2>1. /\ deltas' \subseteq Delta /\ landed' \in Seq(Turns)
        /\ hook' \in [Hooks -> Commands] /\ quiet' \subseteq Names
    BY <1>3, StepsSplit, CommandTypes
  <2>2. CASE TaskSteps(p)
    BY <1>1, <2>1, <2>2, StoreTypes
  <2>3. CASE UNCHANGED <<task, bound, lock, made>>
    BY <1>0, <1>1, <2>1, <2>3 DEF StoresTyped
  <2>4. TaskSteps(p) \/ UNCHANGED <<task, bound, lock, made>>
    BY <1>3 DEF TaskSteps, Starts, BeginTurn, Count, Read, EnsureRow, Address, Delete, Report, stores, history
  <2> QED BY <2>2, <2>3, <2>4
<1>4. CASE UNCHANGED turnVars
  BY <1>0, <1>1, <1>4 DEF turnVars, stores, history, StoresTyped
<1> QED BY <1>2, <1>3, <1>4 DEF TurnNext, Starts

-----------------------------------------------------------------------------
(* No turn is lost. *)

\* A command is idle, or about a task.
LEMMA FitStays ==
  ASSUME TurnTypeOK, CommandsFit, NEW p \in Hooks,
         \/ Starts(p)
         \/ Plain(p) \/ Read(p) \/ (Update(p) /\ ~Dies(p)) \/ Delete(p)
  PROVE  CommandsFit'
<1> SUFFICES IF hook'[p].at = "idle" THEN hook'[p] = NoTurn ELSE hook'[p].task \in Names
  <2>1. \A q \in Hooks \ {p}: hook'[q] = hook[q]
    BY PlainSteps, Begins, Reading, Updating, Deleting DEF PlainStep, Begun
  <2> QED BY <2>1 DEF CommandsFit
<1>0. hook[p].at # "idle" => hook[p].task \in Names
  BY DEF CommandsFit
<1>1. CASE Starts(p)
  BY <1>1, Begins DEF Begun
<1>2. CASE Plain(p)
  BY <1>0, <1>2, PlainSteps, IdleIsCommand DEF PlainStep, Continues, Ends
<1>3. CASE Read(p)
  BY <1>0, <1>3, Reading
<1>4. CASE Update(p) /\ ~Dies(p)
  BY <1>0, <1>4, Updating
<1>5. CASE Delete(p)
  BY <1>0, <1>5, Deleting
<1> QED BY <1>1, <1>2, <1>3, <1>4, <1>5

Buffered == RowsAreKnown /\ DeletesLanded /\ NoTurnIsLost

LEMMA BufferedStays ==
  ASSUME LostInv, NEW p \in Hooks,
         \/ Starts(p)
         \/ Plain(p) \/ Read(p) \/ (Update(p) /\ ~Dies(p)) \/ Delete(p)
  PROVE  Buffered'
<1> USE DEF LostInv, Buffered, RowsAreKnown, DeletesLanded, NoTurnIsLost, Ids
<1>0. landed \in Seq(Turns) /\ DOMAIN landed = 1..Len(landed) /\ Len(landed) \in Nat
  BY DEF TurnTypeOK, Turns
<1>a. \A id \in DOMAIN landed: landed[id] \in Turns
  BY <1>0
<1>1. CASE Starts(p)
  <2> PICK t \in Names: Begun(p, t)
    BY <1>1, Begins
  <2>0. /\ hook'[p].at = "count" /\ hook'[p].rows = {}
        /\ \A q \in Hooks \ {p}: hook'[q] = hook[q]
    BY DEF Begun
  <2>1. CASE deltas' = deltas /\ landed' = landed
    <3>1. RowsAreKnown'
      BY <2>0, <2>1
    <3>2. DeletesLanded'
      BY <2>0, <2>1
    <3> QED BY <2>1, <3>1, <3>2
  <2>2. ASSUME NEW d \in Delta, d.id = Len(landed) + 1, d.task = t,
               deltas' = deltas \cup {d},
               landed' = Append(landed, [task |-> t, times |-> 0])
        PROVE  Buffered'
    <3>1. /\ DOMAIN landed' = DOMAIN landed \cup {d.id} /\ d.id \notin DOMAIN landed
          /\ \A id \in DOMAIN landed: landed'[id] = landed[id]
          /\ landed'[d.id].task = d.task /\ landed'[d.id].times = 0
      BY <1>0, <2>2
    <3> QED BY <2>0, <2>2, <3>1
  <2> QED BY <2>1, <2>2 DEF Begun
<1>2. CASE Plain(p)
  <2>1. /\ deltas' = deltas /\ landed' = landed
        /\ \A q \in Hooks \ {p}: hook'[q] = hook[q]
        /\ \/ hook'[p].rows = {}
           \/ hook'[p].at # "delete" /\ hook'[p].task = hook[p].task /\ hook'[p].rows = hook[p].rows
    BY <1>2, PlainSteps, IdleIsCommand DEF PlainStep, Continues, Ends
  <2> QED BY <2>1
<1>3. CASE Read(p)
  <2>1. \A d \in hook'[p].rows: d \in deltas /\ d.task = hook[p].task
    BY <1>3, Reading DEF Pending
  <2> QED BY <1>3, <2>1, Reading
<1>4. CASE Update(p) /\ ~Dies(p)
  <2>1. /\ deltas' = deltas /\ DOMAIN landed' = DOMAIN landed
        /\ hook'[p].task = hook[p].task /\ hook'[p].rows = hook[p].rows
        /\ \A q \in Hooks \ {p}: hook'[q] = hook[q]
        /\ \A id \in DOMAIN landed:
              /\ landed'[id].task = landed[id].task
              /\ landed'[id].times = IF id \in Ids(hook[p].rows) THEN landed[id].times + 1
                                     ELSE landed[id].times
    BY <1>4, Updating
  <2>2. \A id \in DOMAIN landed: /\ landed[id].times \in Nat
                                 /\ landed'[id].times >= landed[id].times
    BY <1>a, <2>1 DEF Turns
  <2>3. RowsAreKnown'
    BY <2>1
  <2>4. DeletesLanded'
    BY <1>a, <2>1, <2>2
  <2>5. NoTurnIsLost'
    BY <2>1, <2>2
  <2> QED BY <2>3, <2>4, <2>5
<1>5. CASE Delete(p)
  <2>1. /\ landed' = landed /\ deltas' = {d \in deltas: d.id \notin Ids(hook[p].rows)}
        /\ hook'[p].task = hook[p].task /\ hook'[p].rows = hook[p].rows
        /\ hook'[p].at # "delete" /\ hook[p].at = "delete"
        /\ \A q \in Hooks \ {p}: hook'[q] = hook[q]
    BY <1>5, Deleting
  <2>2. \A d \in hook[p].rows: landed[d.id].times # 0
    BY <1>a, <2>1 DEF Turns
  <2>3. NoTurnIsLost'
    BY <2>1, <2>2
  <2>4. RowsAreKnown'
    BY <2>1
  <2>5. DeletesLanded'
    BY <2>1
  <2> QED BY <2>3, <2>4, <2>5
<1> QED BY <1>1, <1>2, <1>3, <1>4, <1>5

LEMMA LostInvStays == LostInv /\ [TurnNext]_turnVars => LostInv'
<1> SUFFICES ASSUME LostInv, [TurnNext]_turnVars PROVE LostInv'
  OBVIOUS
<1>0. TurnTypeOK'
  BY TypesStay DEF LostInv
<1>1. ASSUME NEW t \in Names, Complete(t) PROVE LostInv'
  BY <1>0, <1>1 DEF Complete, LostInv, RowsAreKnown, CommandsFit, DeletesLanded, NoTurnIsLost
<1>2. ASSUME NEW p \in Hooks,
         \/ Starts(p)
         \/ Count(p) \/ Read(p) \/ Ensure(p) \/ EnsureRow(p) \/ Create(p) \/ Bind(p)
         \/ Address(p) \/ CreateRow(p) \/ Update(p) \/ Delete(p) \/ Maintain(p) \/ Report(p)
         \/ Fail(p) \/ Kill(p)
      PROVE  LostInv'
  <2>1. Buffered'
    BY <1>2, StepsSplit, BufferedStays
  <2>2. CommandsFit'
    BY <1>2, StepsSplit, FitStays DEF LostInv
  <2> QED BY <1>0, <2>1, <2>2 DEF LostInv, Buffered
<1>3. CASE UNCHANGED turnVars
  BY <1>0, <1>3 DEF turnVars, stores, history, LostInv, RowsAreKnown, CommandsFit, DeletesLanded,
                    NoTurnIsLost
<1> QED BY <1>1, <1>2, <1>3 DEF TurnNext, Starts

LEMMA InitLost == TurnInit => LostInv
<1> SUFFICES ASSUME TurnInit PROVE LostInv
  OBVIOUS
<1>1. \A p \in Hooks: hook[p] = NoTurn
  BY DEF TurnInit
<1>2. deltas = {} /\ DOMAIN landed = {}
  BY DEF TurnInit
<1> QED BY <1>1, <1>2, InitTypes, IdleIsCommand
        DEF LostInv, RowsAreKnown, CommandsFit, DeletesLanded, NoTurnIsLost

-----------------------------------------------------------------------------
(* Quiet turns land once. *)

LandedOnce == OneCommand /\ QuietRows /\ QuietTurnsLandOnce

LEMMA OnceStays ==
  ASSUME QuietInv, NEW p \in Hooks,
         Starts(p) \/ Plain(p) \/ Read(p) \/ (Update(p) /\ ~Dies(p)) \/ Delete(p)
  PROVE  LandedOnce'
<1> USE DEF LandedOnce
<1>0. /\ TurnTypeOK /\ RowsAreKnown /\ CommandsFit /\ LandedOnce
      /\ quiet \subseteq Names /\ "none" \notin Names
      /\ DOMAIN landed = 1..Len(landed) /\ Len(landed) \in Nat
  BY TurnAssumption DEF QuietInv, LostInv, TurnTypeOK
<1>a. \A id \in DOMAIN landed: landed[id].times \in Nat
  <2>1. landed \in Seq(Turns)
    BY <1>0 DEF TurnTypeOK, Turns
  <2>2. \A id \in DOMAIN landed: landed[id] \in Turns
    BY <2>1
  <2> QED BY <2>2 DEF Turns
<1>1. CASE Starts(p)
  <2> PICK t \in Names: Begun(p, t)
    BY <1>0, <1>1, Begins
  <2>1. /\ hook[p].at = "idle" /\ hook'[p].at = "count" /\ hook'[p].task = t
        /\ \A q \in Hooks \ {p}: hook'[q] = hook[q]
        /\ quiet' \subseteq quiet
        /\ t \in quiet' => \A q \in Hooks: hook[q].task # t
    BY DEF Begun
  <2>2. OneCommand'
    BY <1>0, <2>1 DEF OneCommand
  <2>3. CASE deltas' = deltas /\ landed' = landed
    <3>1. QuietRows'
      BY <1>0, <2>1, <2>3 DEF QuietRows, Flushing
    <3>2. QuietTurnsLandOnce'
      BY <1>0, <2>1, <2>3 DEF QuietTurnsLandOnce
    <3> QED BY <2>2, <3>1, <3>2
  <2>4. ASSUME NEW d \in Delta, d.id = Len(landed) + 1,
               deltas' = deltas \cup {d},
               landed' = Append(landed, [task |-> t, times |-> 0])
        PROVE  LandedOnce'
    <3>1. /\ DOMAIN landed' = DOMAIN landed \cup {d.id} /\ d.id \notin DOMAIN landed
          /\ \A id \in DOMAIN landed: landed'[id] = landed[id]
          /\ landed'[d.id].times = 0
      BY <1>0, <2>4
    <3>2. \A q \in Hooks: \A e \in hook[q].rows: e.id \in DOMAIN landed
      BY <1>0 DEF RowsAreKnown
    <3>3. QuietRows'
      BY <1>0, <2>1, <3>1, <3>2 DEF QuietRows, Flushing
    <3>4. \A id \in DOMAIN landed: id \in Ids(deltas') => id \in Ids(deltas)
      BY <2>4, <3>1 DEF Ids
    <3>5. QuietTurnsLandOnce'
      <4> SUFFICES ASSUME NEW id \in DOMAIN landed', landed'[id].task \in quiet'
                   PROVE  /\ landed'[id].times <= 1
                          /\ landed'[id].times = 1 /\ id \in Ids(deltas') =>
                               \E q \in Hooks: hook'[q].at = "delete" /\ id \in Ids(hook'[q].rows)
        BY DEF QuietTurnsLandOnce
      <4>1. CASE id = d.id
        BY <3>1, <4>1
      <4>2. CASE id \in DOMAIN landed
        BY <1>0, <2>1, <3>1, <3>4, <4>2 DEF QuietTurnsLandOnce
      <4> QED BY <3>1, <4>1, <4>2
    <3> QED BY <2>2, <3>3, <3>5
  <2> QED BY <2>3, <2>4 DEF Begun
<1>2. CASE Plain(p)
  <2>1. /\ deltas' = deltas /\ landed' = landed /\ quiet' \subseteq quiet
        /\ \A q \in Hooks \ {p}: hook'[q] = hook[q]
        /\ \/ hook'[p] = NoTurn /\ (hook[p].task \notin quiet' \/ hook[p].at = "report")
           \/ /\ hook'[p].at # "delete" /\ hook'[p].task = hook[p].task
              /\ hook'[p].rows = hook[p].rows /\ hook'[p].at # "idle"
              /\ hook'[p].at \in Flushing => hook[p].at \in Flushing
              /\ hook[p].at # "delete"
    BY <1>0, <1>2, PlainSteps DEF PlainStep, Continues, Ends
  <2>2. OneCommand'
    BY <1>0, <2>1, IdleIsCommand DEF OneCommand
  <2>3. QuietRows'
    BY <1>0, <2>1, IdleIsCommand DEF QuietRows, Flushing
  <2>4. QuietTurnsLandOnce'
    <3> SUFFICES ASSUME NEW id \in DOMAIN landed, landed[id].task \in quiet',
                        landed[id].times = 1, id \in Ids(deltas)
                 PROVE  \E q \in Hooks: hook'[q].at = "delete" /\ id \in Ids(hook'[q].rows)
      BY <1>0, <2>1 DEF QuietTurnsLandOnce
    <3>1. PICK q \in Hooks: hook[q].at = "delete" /\ id \in Ids(hook[q].rows)
      BY <1>0, <2>1 DEF QuietTurnsLandOnce
    <3>2. landed[id].task = hook[q].task
      BY <1>0, <3>1 DEF RowsAreKnown, Ids
    <3> QED BY <2>1, <3>1, <3>2
  <2> QED BY <2>2, <2>3, <2>4
<1>3. CASE Read(p)
  <2>1. /\ deltas' = deltas /\ landed' = landed /\ quiet' = quiet
        /\ \A q \in Hooks \ {p}: hook'[q] = hook[q]
        /\ hook[p].at = "read" /\ hook'[p].at \in {"report", "ensure"}
        /\ hook'[p].task = hook[p].task
        /\ \A d \in hook'[p].rows: d \in deltas /\ d.task = hook[p].task
    BY <1>0, <1>3, Reading DEF Pending
  <2>2. OneCommand'
    BY <1>0, <2>1 DEF OneCommand
  <2>3. ASSUME NEW d \in hook'[p].rows, hook[p].task \in quiet PROVE landed[d.id].times = 0
    <3>1. /\ d.id \in DOMAIN landed /\ landed[d.id].task = hook[p].task
          /\ d.id \in Ids(deltas)
      BY <1>0, <2>1, <2>3 DEF RowsAreKnown, Ids
    <3>2. ASSUME NEW q \in Hooks, hook[q].at = "delete", d.id \in Ids(hook[q].rows)
          PROVE  FALSE
      <4>1. landed[d.id].task = hook[q].task
        BY <1>0, <3>2 DEF RowsAreKnown, Ids
      <4> QED BY <1>0, <2>1, <2>3, <3>1, <3>2, <4>1 DEF OneCommand
    <3>3. landed[d.id].times <= 1 /\ landed[d.id].times # 1
      BY <1>0, <2>3, <3>1, <3>2 DEF QuietTurnsLandOnce
    <3> QED BY <1>a, <3>1, <3>3
  <2>4. QuietRows'
    BY <1>0, <2>1, <2>3 DEF QuietRows, Flushing
  <2>5. QuietTurnsLandOnce'
    BY <1>0, <2>1 DEF QuietTurnsLandOnce
  <2> QED BY <2>2, <2>4, <2>5
<1>4. CASE Update(p) /\ ~Dies(p)
  <2>1. /\ deltas' = deltas /\ quiet' = quiet /\ DOMAIN landed' = DOMAIN landed
        /\ hook[p].at = "update" /\ hook'[p].at = "delete"
        /\ hook'[p].task = hook[p].task /\ hook'[p].rows = hook[p].rows
        /\ \A q \in Hooks \ {p}: hook'[q] = hook[q]
        /\ \A id \in DOMAIN landed:
              /\ landed'[id].task = landed[id].task
              /\ landed'[id].times = IF id \in Ids(hook[p].rows) THEN landed[id].times + 1
                                     ELSE landed[id].times
    BY <1>0, <1>4, Updating
  <2>2. OneCommand'
    BY <1>0, <2>1 DEF OneCommand
  <2>3. \A id \in Ids(hook[p].rows): /\ id \in DOMAIN landed
                                     /\ landed[id].task = hook[p].task
                                     /\ hook[p].task \in quiet => landed[id].times = 0
    BY <1>0, <2>1 DEF RowsAreKnown, Ids, QuietRows, Flushing
  <2>4. ASSUME NEW q \in Hooks, NEW d \in hook'[q].rows, hook'[q].task \in quiet
        PROVE  /\ hook'[q].at \in Flushing => landed'[d.id].times = 0
               /\ hook'[q].at = "delete" => landed'[d.id].times = 1
    <3>1. CASE q = p
      <4>1. d.id \in Ids(hook[p].rows)
        BY <2>1, <2>4, <3>1 DEF Ids
      <4> QED BY <2>1, <2>3, <2>4, <3>1, <4>1 DEF Flushing
    <3>2. CASE q # p
      <4>1. /\ hook'[q] = hook[q] /\ d.id \in DOMAIN landed
            /\ landed[d.id].task = hook[q].task
        BY <1>0, <2>1, <2>4, <3>2 DEF RowsAreKnown
      <4>2. hook[q].task # hook[p].task
        BY <1>0, <2>4, <3>2, <4>1 DEF OneCommand
      <4>3. landed'[d.id].times = landed[d.id].times
        BY <2>1, <2>3, <4>1, <4>2
      <4> QED BY <1>0, <2>4, <4>1, <4>3 DEF QuietRows
    <3> QED BY <3>1, <3>2
  <2>5. QuietRows'
    BY <2>1, <2>4 DEF QuietRows
  <2>6. QuietTurnsLandOnce'
    <3> SUFFICES ASSUME NEW id \in DOMAIN landed, landed[id].task \in quiet
                 PROVE  /\ landed'[id].times <= 1
                        /\ landed'[id].times = 1 /\ id \in Ids(deltas) =>
                             \E q \in Hooks: hook'[q].at = "delete" /\ id \in Ids(hook'[q].rows)
      BY <2>1 DEF QuietTurnsLandOnce
    <3>1. CASE id \in Ids(hook[p].rows)
      BY <2>1, <2>3, <3>1
    <3>2. CASE id \notin Ids(hook[p].rows)
      <4>1. landed'[id].times = landed[id].times /\ landed[id].times <= 1
        BY <1>0, <2>1, <3>2 DEF QuietTurnsLandOnce
      <4>2. ASSUME landed[id].times = 1, id \in Ids(deltas)
            PROVE  \E q \in Hooks: hook'[q].at = "delete" /\ id \in Ids(hook'[q].rows)
        <5>1. PICK q \in Hooks: hook[q].at = "delete" /\ id \in Ids(hook[q].rows)
          BY <1>0, <4>2 DEF QuietTurnsLandOnce
        <5> QED BY <2>1, <5>1
      <4> QED BY <4>1, <4>2
    <3> QED BY <3>1, <3>2
  <2> QED BY <2>2, <2>5, <2>6
<1>5. CASE Delete(p)
  <2>1. /\ landed' = landed /\ quiet' = quiet
        /\ deltas' = {d \in deltas: d.id \notin Ids(hook[p].rows)}
        /\ hook[p].at = "delete" /\ hook'[p].at \in {"report", "maintain"}
        /\ hook'[p].task = hook[p].task /\ hook'[p].rows = hook[p].rows
        /\ \A q \in Hooks \ {p}: hook'[q] = hook[q]
    BY <1>0, <1>5, Deleting
  <2>2. OneCommand'
    BY <1>0, <2>1 DEF OneCommand
  <2>3. QuietRows'
    BY <1>0, <2>1 DEF QuietRows, Flushing
  <2>4. QuietTurnsLandOnce'
    <3> SUFFICES ASSUME NEW id \in DOMAIN landed, landed[id].task \in quiet,
                        landed[id].times = 1, id \in Ids(deltas')
                 PROVE  \E q \in Hooks: hook'[q].at = "delete" /\ id \in Ids(hook'[q].rows)
      BY <1>0, <2>1 DEF QuietTurnsLandOnce
    <3>1. id \in Ids(deltas) /\ id \notin Ids(hook[p].rows)
      BY <2>1 DEF Ids
    <3>2. PICK q \in Hooks: hook[q].at = "delete" /\ id \in Ids(hook[q].rows)
      BY <1>0, <3>1 DEF QuietTurnsLandOnce
    <3> QED BY <2>1, <3>1, <3>2
  <2> QED BY <2>2, <2>3, <2>4
<1> QED BY <1>1, <1>2, <1>3, <1>4, <1>5

LEMMA QuietInvStays == QuietInv /\ [TurnNext]_turnVars => QuietInv'
<1> SUFFICES ASSUME QuietInv, [TurnNext]_turnVars PROVE QuietInv'
  OBVIOUS
<1>0. LostInv'
  BY LostInvStays DEF QuietInv
<1>1. CASE UNCHANGED <<deltas, hook, landed, quiet>>
  BY <1>0, <1>1 DEF QuietInv, OneCommand, QuietRows, QuietTurnsLandOnce
<1>2. ASSUME NEW p \in Hooks,
         \/ Starts(p)
         \/ Count(p) \/ Read(p) \/ Ensure(p) \/ EnsureRow(p) \/ Create(p) \/ Bind(p)
         \/ Address(p) \/ CreateRow(p) \/ Update(p) \/ Delete(p) \/ Maintain(p) \/ Report(p)
         \/ Fail(p) \/ Kill(p)
      PROVE  QuietInv'
  BY <1>0, <1>2, StepsSplit, OnceStays DEF QuietInv, LandedOnce
<1>3. (\E t \in Names: Complete(t)) => UNCHANGED <<deltas, hook, landed, quiet>>
  BY DEF Complete
<1>4. UNCHANGED turnVars => UNCHANGED <<deltas, hook, landed, quiet>>
  BY DEF turnVars, stores, history
<1> QED BY <1>1, <1>2, <1>3, <1>4 DEF TurnNext, Starts

LEMMA InitQuiet == TurnInit => QuietInv
<1> SUFFICES ASSUME TurnInit PROVE QuietInv
  OBVIOUS
<1>1. \A p \in Hooks: hook[p] = NoTurn
  BY DEF TurnInit
<1>2. DOMAIN landed = {} /\ quiet = Names /\ "none" \notin Names
  BY TurnAssumption DEF TurnInit
<1> QED BY <1>1, <1>2, InitLost, IdleIsCommand
        DEF QuietInv, OneCommand, QuietRows, QuietTurnsLandOnce

-----------------------------------------------------------------------------
(* One record per task. *)

LEMMA RecordInvStays == RecordInv /\ [TurnNext]_turnVars => RecordInv'
<1> SUFFICES ASSUME RecordInv, [TurnNext]_turnVars
             PROVE  BindersHoldTheLock' /\ OneRecordPerTask' /\ CommandsFit'
  BY TypesStay DEF RecordInv
<1> USE DEF BindersHoldTheLock, OneRecordPerTask
<1>0. /\ TurnTypeOK /\ CommandsFit /\ BindersHoldTheLock /\ OneRecordPerTask
      /\ hook \in [Hooks -> Commands] /\ Free \notin Hooks
      /\ \A t \in Names: made[t].open \in Int
      /\ \A t \in Names: IsTask(task[t])
  BY TurnAssumption DEF RecordInv, TurnTypeOK, Free
<1>1. CASE UNCHANGED turnVars
  BY <1>0, <1>1 DEF turnVars, stores, history, CommandsFit
<1>2. ASSUME NEW t \in Names, Complete(t)
      PROVE  BindersHoldTheLock' /\ OneRecordPerTask' /\ CommandsFit'
  <2>1. CommandsFit' /\ hook' = hook /\ lock' = lock /\ lock = Free
    BY <1>0, <1>2 DEF Complete, CommandsFit
  <2>2. BindersHoldTheLock'
    BY <1>0, <2>1
  <2>3. /\ task[t].st = "active"
        /\ \A u \in Names: u # t => task'[u] = task[u]
        /\ task'[t].st = IF t \in Governed THEN "ended" ELSE "none"
        /\ \A u \in Names: made'[u].open =
              IF u \in {t} \ Governed THEN made[u].open - 1 ELSE made[u].open
    <3>1. /\ task' = [task EXCEPT ![t] = IF t \in Governed THEN [task[t] EXCEPT !.st = "ended"]
                                         ELSE NoTask]
          /\ task[t].st = "active" /\ made' = Unmade({t} \ Governed)
      BY <1>2 DEF Complete
    <3>2. task = [u \in Names |-> task[u]] /\ NoTask.st = "none"
      BY <1>0 DEF TurnTypeOK, NoTask
    <3>3. [task[t] EXCEPT !.st = "ended"].st = "ended"
      BY <1>0 DEF IsTask
    <3>4. /\ \A u \in Names: u # t => task'[u] = task[u]
          /\ task'[t].st = IF t \in Governed THEN "ended" ELSE "none"
      BY <3>1, <3>2, <3>3
    <3> QED BY <1>0, <3>1, <3>4, UnmakingTypes
  <2>4. OneRecordPerTask'
    BY <1>0, <2>3
  <2> QED BY <2>1, <2>2, <2>4
<1>3. ASSUME NEW p \in Hooks,
         \/ Starts(p)
         \/ Count(p) \/ Read(p) \/ Ensure(p) \/ EnsureRow(p) \/ Create(p) \/ Bind(p)
         \/ Address(p) \/ CreateRow(p) \/ Update(p) \/ Delete(p) \/ Maintain(p) \/ Report(p)
         \/ Fail(p) \/ Kill(p)
      PROVE  BindersHoldTheLock' /\ OneRecordPerTask' /\ CommandsFit'
  <2>0. CommandsFit'
    BY <1>0, <1>3, StepsSplit, FitStays
  <2>a. hook[p].at # "idle" => hook[p].task \in Names
    BY <1>0 DEF CommandsFit
  <2>b. \A q \in Hooks \ {p}: hook'[q] = hook[q]
    BY <1>0, <1>3, StepsSplit, PlainSteps, Begins, Reading, Updating, Deleting DEF PlainStep, Begun
  <2>c. States = {"idle", "count", "read", "ensure", "create", "bind", "address", "update",
                  "delete", "maintain", "report"}
    BY DEF States
  \* The task keeps its status, and the command has nothing to do with the lock.
  <2>d. ASSUME \A t \in Names: task'[t].st = task[t].st, made' = made, lock' = lock,
               hook[p].at # "bind", hook'[p].at # "bind"
        PROVE  BindersHoldTheLock' /\ OneRecordPerTask'
    <3>1. \A q \in Hooks: hook'[q].at = "bind" => q # p /\ hook'[q] = hook[q] /\ hook[q].task \in Names
      BY <1>0, <2>b, <2>d DEF CommandsFit
    <3>2. BindersHoldTheLock'
      BY <1>0, <2>b, <2>d, <3>1
    <3>3. OneRecordPerTask'
      BY <1>0, <2>d
    <3> QED BY <3>2, <3>3
  <2>1. CASE Starts(p)
    <3>1. /\ hook[p].at = "idle" /\ hook'[p].at = "count"
      BY <1>0, <2>1, Begins DEF Begun
    <3>2. UNCHANGED <<task, made, lock>>
      BY <2>1 DEF Starts, BeginTurn
    <3> QED BY <2>0, <2>d, <3>1, <3>2
  <2>2. CASE Count(p) \/ EnsureRow(p)
    <3>1. /\ hook[p].at # "bind"
          /\ \/ GoTo(p, "read") \/ GoTo(p, "report") \/ GoTo(p, "update") \/ GoTo(p, "create")
      BY <2>2 DEF Count, EnsureRow, At
    <3>2. UNCHANGED <<task, made, lock>>
      BY <2>2 DEF Count, EnsureRow, stores, history
    <3>3. hook'[p].at # "bind"
      BY <1>0, <2>c, <3>1, GoesOn
    <3> QED BY <2>0, <2>d, <3>1, <3>2, <3>3
  <2>3. CASE Read(p)
    <3>1. hook[p].at = "read" /\ hook'[p].at \in {"report", "ensure"}
      BY <1>0, <2>3, Reading
    <3>2. UNCHANGED <<task, made, lock>>
      BY <2>3 DEF Read, stores, history
    <3> QED BY <2>0, <2>d, <3>1, <3>2
  <2>4. CASE Delete(p)
    <3>1. hook[p].at = "delete" /\ hook'[p].at \in {"report", "maintain"}
      BY <1>0, <2>4, Deleting
    <3>2. UNCHANGED <<task, made, lock>>
      BY <2>4 DEF Delete, history
    <3> QED BY <2>0, <2>d, <3>1, <3>2
  <2>5. CASE Ensure(p)
    <3>1. /\ hook[p].at = "ensure" /\ UNCHANGED <<task, made, lock>>
          /\ GoTo(p, "address") \/ GoTo(p, "create") \/ Dies(p)
      BY <2>5 DEF Ensure, At
    <3>2. hook'[p].at # "bind"
      BY <1>0, <2>c, <3>1, GoesOn, Stops, IdleIsCommand
    <3> QED BY <2>0, <2>d, <3>1, <3>2
  <2>6. CASE Address(p)
    <3>1. /\ hook[p].at = "address" /\ UNCHANGED <<task, made, lock>>
      BY <2>6 DEF Address, stores
    <3>2. CASE Dies(p)
      BY <1>0, <2>0, <2>d, <3>1, <3>2, Stops, IdleIsCommand
    <3>3. CASE hook' = [hook EXCEPT ![p].at = "update", ![p].id = bound[hook[p].task]]
      <4>1. hook'[p].at = "update"
        BY <1>0, <3>3 DEF Commands
      <4> QED BY <2>0, <2>d, <3>1, <4>1
    <3> QED BY <2>6, <3>2, <3>3 DEF Address
  <2>7. CASE Report(p)
    <3>1. /\ hook[p].at = "report" /\ UNCHANGED <<task, made, lock>>
          /\ hook' = [hook EXCEPT ![p] = NoTurn]
      BY <2>7 DEF Report, history
    <3>2. hook'[p].at = "idle"
      BY <1>0, <3>1, IdleIsCommand
    <3> QED BY <2>0, <2>d, <3>1, <3>2
  <2>8. CASE Create(p)
    <3>1. hook[p].at = "create" /\ hook[p].task \in Names /\ hook[p].task \in Governed /\ lock = Free
      BY <2>8, <2>a DEF Create, At
    <3>2. CASE CanCreate(p)
      <4>1. /\ lock' = p /\ task[hook[p].task].st = "none"
            /\ task' = [task EXCEPT ![hook[p].task] = NewTask(hook[p].task)]
            /\ made' = Made(hook[p].task) /\ GoTo(p, "bind")
        BY <2>8, <3>2 DEF Create, CanCreate
      <4>2. /\ \A u \in Names: u # hook[p].task => task'[u] = task[u] /\ made'[u] = made[u]
            /\ task'[hook[p].task].st = "active"
            /\ made'[hook[p].task].open = made[hook[p].task].open + 1
        BY <1>0, <3>1, <4>1, MakingTypes
      <4>3. hook'[p].at = "bind" /\ hook'[p].task = hook[p].task
        BY <1>0, <2>c, <4>1, GoesOn
      <4>4. \A q \in Hooks \ {p}: hook'[q].at # "bind"
        BY <1>0, <2>b, <3>1
      <4>5. BindersHoldTheLock'
        BY <3>1, <4>1, <4>2, <4>3, <4>4
      <4>6. OneRecordPerTask'
        BY <1>0, <3>1, <4>1, <4>2
      <4> QED BY <2>0, <4>5, <4>6
    <3>3. CASE ~CanCreate(p)
      <4>1. Dies(p) /\ UNCHANGED <<lock, task, made>>
        BY <2>8, <3>3 DEF Create
      <4> QED BY <1>0, <2>0, <2>d, <3>1, <4>1, Stops, IdleIsCommand
    <3> QED BY <3>2, <3>3
  <2>9. CASE Bind(p)
    <3>1. /\ hook[p].at = "bind" /\ lock = p /\ lock' = Free /\ UNCHANGED <<task, made>>
          /\ GoTo(p, "address")
      BY <1>0, <2>9 DEF Bind, history
    <3>2. hook'[p].at = "address"
      BY <1>0, <2>c, <3>1, GoesOn
    <3>3. \A q \in Hooks: hook'[q].at # "bind"
      BY <1>0, <2>b, <3>1, <3>2
    <3> QED BY <1>0, <2>0, <3>1, <3>3
  <2>10. CASE CreateRow(p)
    <3>1. /\ hook[p].at = "create" /\ hook[p].task \in Names /\ hook[p].task \notin Governed
          /\ lock' = lock
      BY <2>10, <2>a DEF CreateRow, At
    <3>2. CASE task[hook[p].task].st = "none"
      <4>1. /\ task' = [task EXCEPT ![hook[p].task] = NewTask(hook[p].task)]
            /\ made' = Made(hook[p].task) /\ GoTo(p, "update")
        BY <2>10, <3>2 DEF CreateRow
      <4>2. /\ \A u \in Names: u # hook[p].task => task'[u] = task[u] /\ made'[u] = made[u]
            /\ task'[hook[p].task].st = "active"
            /\ made'[hook[p].task].open = made[hook[p].task].open + 1
        BY <1>0, <3>1, <4>1, MakingTypes
      <4>3. hook'[p].at = "update"
        BY <1>0, <2>c, <4>1, GoesOn
      <4>4. \A q \in Hooks: hook'[q].at = "bind" =>
                q # p /\ hook'[q] = hook[q] /\ hook[q].task \in Names \ {hook[p].task}
        BY <1>0, <2>b, <3>1, <4>3 DEF CommandsFit
      <4>5. BindersHoldTheLock'
        BY <1>0, <2>b, <3>1, <4>2, <4>4
      <4>6. OneRecordPerTask'
        BY <1>0, <3>1, <3>2, <4>2
      <4> QED BY <2>0, <4>5, <4>6
    <3>3. CASE task[hook[p].task].st # "none"
      <4>1. Dies(p) /\ UNCHANGED <<task, made>>
        BY <2>10, <3>3 DEF CreateRow
      <4> QED BY <1>0, <2>0, <2>d, <3>1, <4>1, Stops, IdleIsCommand
    <3> QED BY <3>2, <3>3
  <2>11. CASE Update(p)
    <3>1. hook[p].at = "update" /\ hook[p].task \in Names /\ UNCHANGED <<made, lock>>
      BY <2>11, <2>a DEF Update
    <3>2. CASE Dies(p)
      <4>1. ~GoTo(p, "delete")
        BY <1>0, <2>c, <3>2, GoesOn, Stops, IdleIsCommand
      <4>2. task' = task
        BY <2>11, <4>1 DEF Update
      <4> QED BY <1>0, <2>0, <2>d, <3>1, <3>2, <4>2, Stops, IdleIsCommand
    <3>3. CASE ~Dies(p)
      <4> DEFINE x == Updated(hook[p].task, hook[p].rows)
      <4>1. task' = [task EXCEPT ![hook[p].task] = x] /\ GoTo(p, "delete")
        BY <2>11, <3>3 DEF Update
      <4>2. IsTask(x) /\ x.st = task[hook[p].task].st
        BY <1>0, <3>1, UpdatedTypes
      <4>3. \A t \in Names: task'[t].st = task[t].st
        <5> HIDE DEF x
        <5> QED BY <1>0, <3>1, <4>1, <4>2, TaskIsSet
      <4>4. hook'[p].at = "delete"
        BY <1>0, <2>c, <4>1, GoesOn
      <4> QED BY <2>0, <2>d, <3>1, <4>3, <4>4
    <3> QED BY <3>2, <3>3
  <2>12. CASE Maintain(p)
    <3> DEFINE done == {t \in Governed: task[t].st = "ended"}
    <3>1. hook[p].at = "maintain" /\ lock' = lock /\ GoTo(p, "report")
      BY <2>12 DEF Maintain
    <3>2. hook'[p].at = "report"
      BY <1>0, <2>c, <3>1, GoesOn
    <3>3. CASE UNCHANGED <<task, made>>
      BY <2>0, <2>d, <3>1, <3>2, <3>3
    <3>4. CASE ~UNCHANGED <<task, made>>
      <4>1. /\ lock = Free /\ made' = Unmade(done)
            /\ task' = [t \in Names |-> IF t \in Governed /\ task[t].st = "ended"
                                        THEN NoTask ELSE task[t]]
        BY <2>12, <3>4 DEF Maintain
      <4>2. \A q \in Hooks: hook'[q].at # "bind"
        BY <1>0, <2>b, <3>2, <4>1
      <4>3. \A t \in Names: /\ task'[t].st = IF t \in done THEN "none" ELSE task[t].st
                            /\ t \in done => task[t].st = "ended"
        BY <4>1 DEF NoTask
      <4>4. \A t \in Names: made'[t].open = IF t \in done THEN made[t].open - 1 ELSE made[t].open
        BY <1>0, <4>1, UnmakingTypes
      <4>5. OneRecordPerTask'
        <5> HIDE DEF done
        <5> QED BY <1>0, <4>3, <4>4
      <4> QED BY <1>0, <2>0, <3>1, <4>1, <4>2, <4>5
    <3> QED BY <3>3, <3>4
  <2>13. CASE Fail(p)
    <3>1. Dies(p) /\ hook[p].at # "idle" /\ hook'[p].at = "idle"
      BY <1>0, <2>13, Stops, IdleIsCommand DEF Fail
    <3>2. CASE hook[p].at = "bind"
      <4>1. /\ task' = [task EXCEPT ![hook[p].task] = NoTask] /\ lock' = Free
            /\ made' = Unmade({hook[p].task})
        BY <2>13, <3>2 DEF Fail
      <4>2. hook[p].task \in Names /\ lock = p /\ task[hook[p].task].st = "active"
        BY <1>0, <2>a, <3>2
      <4>3. \A q \in Hooks: hook'[q].at # "bind"
        BY <1>0, <2>b, <3>1, <4>2
      <4>4. IsTask(NoTask) /\ NoTask.st = "none"
        BY DEF IsTask, NoTask
      <4>5. \A t \in Names: task'[t].st = IF t = hook[p].task THEN "none" ELSE task[t].st
        BY <1>0, <4>1, <4>2, <4>4, TaskIsSet
      <4>6. \A t \in Names: made'[t].open = IF t \in {hook[p].task} THEN made[t].open - 1
                                            ELSE made[t].open
        BY <1>0, <4>1, UnmakingTypes
      <4>7. OneRecordPerTask'
        BY <1>0, <4>2, <4>5, <4>6
      <4> QED BY <1>0, <2>0, <4>1, <4>3, <4>7
    <3>3. CASE hook[p].at # "bind"
      <4>1. UNCHANGED <<task, lock, made>>
        BY <2>13, <3>3 DEF Fail
      <4> QED BY <2>0, <2>d, <3>1, <3>3, <4>1
    <3> QED BY <3>2, <3>3
  <2>14. CASE Kill(p)
    <3>1. /\ hook'[p].at = "idle" /\ UNCHANGED <<task, made>>
          /\ lock' = IF lock = p THEN Free ELSE lock
      BY <1>0, <2>14, Stops, IdleIsCommand DEF Kill
    <3>2. CASE lock = p
      <4>1. \A q \in Hooks: hook'[q].at # "bind"
        BY <1>0, <2>b, <3>1, <3>2
      <4> QED BY <1>0, <2>0, <3>1, <3>2, <4>1
    <3>3. CASE lock # p
      <4>1. hook[p].at # "bind"
        BY <1>0, <3>3
      <4> QED BY <2>0, <2>d, <3>1, <3>3, <4>1
    <3> QED BY <3>2, <3>3
  <2> QED BY <1>3, <2>1, <2>2, <2>3, <2>4, <2>5, <2>6, <2>7, <2>8, <2>9, <2>10, <2>11, <2>12,
             <2>13, <2>14
<1> QED BY <1>1, <1>2, <1>3 DEF TurnNext, Starts

LEMMA InitRecord == TurnInit => RecordInv
<1> SUFFICES ASSUME TurnInit PROVE RecordInv
  OBVIOUS
<1>1. \A p \in Hooks: hook[p] = NoTurn
  BY DEF TurnInit
<1>2. lock = Free /\ Free \notin Hooks
  BY TurnAssumption DEF TurnInit, Free
<1>3. \A t \in Names: task[t].st = "none" /\ made[t].open = 0
  BY DEF TurnInit, NoTask
<1> QED BY <1>1, <1>2, <1>3, InitTypes, IdleIsCommand
        DEF RecordInv, CommandsFit, BindersHoldTheLock, OneRecordPerTask

-----------------------------------------------------------------------------
(* The theorems. *)

LEMMA Inductive == TurnSpec => []IInv
<1>1. TurnInit => IInv
  BY InitQuiet, InitRecord DEF IInv
<1>2. IInv /\ [TurnNext]_turnVars => IInv'
  BY QuietInvStays, RecordInvStays DEF IInv
<1> QED BY <1>1, <1>2, PTL DEF TurnSpec

\* The rows of the buffer, the commands and the counts of the history keep their
\* types: what run_turn appends, flush_turn_deltas reads and deletes again.
THEOREM TurnTypesHold == TurnSpec => []TurnTypeOK
<1>1. IInv => TurnTypeOK
  BY DEF IInv, RecordInv
<1> QED BY <1>1, Inductive, PTL

\* However many hooks append, flush, fail and are killed, a row leaves the buffer
\* only after the update that carried it has been written (flush_turn_deltas).
THEOREM TurnsAreKept == TurnSpec => []NoTurnIsLost
<1>1. IInv => NoTurnIsLost
  BY DEF IInv, QuietInv, LostInv
<1> QED BY <1>1, Inductive, PTL

\* As long as no turn of a task fails, is killed or overlaps with another, each of
\* its rows reaches the record once (the ids that were read are deleted, not the
\* task's rows).
THEOREM QuietTurnsAreNotReplayed == TurnSpec => []QuietTurnsLandOnce
<1>1. IInv => QuietTurnsLandOnce
  BY DEF IInv, QuietInv
<1> QED BY <1>1, Inductive, PTL

\* Whatever number of first flushes of one name meet, one record of it is in use
\* (create_governed_task looks the name up again under the lock).
THEOREM NamesAreUnique == TurnSpec => []OneRecordPerTask
<1>1. IInv => OneRecordPerTask
  BY DEF IInv, RecordInv
<1> QED BY <1>1, Inductive, PTL
=============================================================================
