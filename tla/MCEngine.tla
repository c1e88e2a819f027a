------------------------------ MODULE MCEngine ------------------------------
(* Small instances of Engine for TLC.                                      *)
EXTENDS EngineRefinement, TLC

CONSTANTS w1, w2

TwoWorkers   == {w1, w2}
OneWorker    == {w1}
WorkerSymmetry == Permutations(TwoWorkers)
AllNames     == {Empty, "a", "b", "c", "wf"}
AnyQueue     == {Empty}
TwoQueues    == {Empty, "q"}
SomeSpaces   == {Empty, "ns"}
NoKeys       == {Empty}

Act(name, queue, deps, max) ==
  [name |-> name, taskQueue |-> queue, dependsOn |-> deps, maxAttempts |-> max,
   retryBackoff |-> 0]
Def(namespace, acts) == [namespace |-> namespace, name |-> "wf", activities |-> acts]

\* b waits for a; a may be tried twice.
Chain == {Def("ns", <<Act("a", Empty, {}, 2), Act("b", Empty, {"a"}, 1)>>)}

\* The same chain with the default number of attempts, or c joining a and b,
\* which wait in different queues and are tried once.
ChainOrJoin ==
  {Def("ns", <<Act("a", Empty, {}, 0), Act("b", Empty, {"a"}, 1)>>),
   Def("ns", <<Act("a", Empty, {}, 1), Act("b", "q", {}, 1), Act("c", Empty, {"a", "b"}, 1)>>)}
=============================================================================
