---------------------------- MODULE MCRetrieval ----------------------------
(* TLC instances of Retrieval: six documents of six kinds, two tasks. *)
EXTENDS Retrieval
CONSTANTS p1, p2

TwoProcs == {p1, p2}
TwoTasks == {"t1", "t2"}
OneSource == {"src"}
TwoClasses == {"team", "restricted"}

\* In the order of their scores.  A decision conflicts with a bug, the bug with a
\* restricted finding; the finding and a chunk cite the source.
SixDocs == <<"rule", "event", "decision", "chunk", "bug", "finding">>
D(kind, class, words, cites, conflicts) ==
    [kind |-> kind, class |-> class, words |-> words, cites |-> cites,
     conflicts |-> conflicts, cost |-> 2]
SixDoc == [rule |-> D("policy", "team", {"all"}, {}, {}),
           event |-> D("event", "team", {"all", "auth"}, {}, {}),
           decision |-> D("decision", "team", {"all", "auth", "cache"}, {}, {"bug"}),
           chunk |-> D("memory", "team", {"cache"}, {"src"}, {}),
           bug |-> D("bug", "team", {}, {}, {"decision", "finding"}),
           finding |-> D("finding", "restricted", {}, {"src"}, {"bug"})]
AboutAuth == [words |-> {"auth", "cache"}, paths |-> {"src"}]
AboutAll == [words |-> {"all"}, paths |-> {}]
SomeAsks == [t \in TwoTasks |-> IF t = "t1" THEN {AboutAuth, AboutAll} ELSE {AboutAuth}]
SomeEditable == {"chunk", "restricted"}
Interchangeable == Permutations(Procs)
SomeBudget == [c \in Categories |-> IF c = "dynamic" THEN 4 ELSE 2]
SomePlaces == [l \in Layers |-> IF l = "semantic" THEN 2 ELSE 1]
SomeRooms == {3}
BothScopes == [t \in TwoTasks |-> IF t = "t1" THEN "local" ELSE "governed"]

\* A handoff and two documents of the repository, which the words of the question
\* find as they find the event.
SlotDocs == <<"handoff", "event", "first", "second">>
SlotDoc == [d \in Range(SlotDocs) |->
              D(IF d \in {"handoff", "event"} THEN d ELSE "text", "team", {"all"}, {}, {})]
SlotAsks == [t \in TwoTasks |-> {AboutAll}]
SlotBudget == [c \in Categories |-> 4]
=============================================================================
