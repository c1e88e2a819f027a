----------------------------- MODULE MCPgStore ------------------------------
(* Small instances of PgStore for TLC.                                     *)
EXTENDS PgRefinement, TLC

CONSTANTS p1, p2, w1, w2

TwoSessions     == {p1, p2}
SessionSymmetry == Permutations(TwoSessions)
OneWorker       == {w1}
TwoWorkers      == {w1, w2}
BothSymmetries  == SessionSymmetry \cup Permutations(TwoWorkers)
OneWorkflow     == {"wf"}
AnyQueue        == [w \in Workers |-> {"default"}]

Act(deps, max) == [workflow |-> "wf", dependsOn |-> deps, maxAttempts |-> max,
                   backoff |-> 1000, queue |-> "default"]

\* One activity, tried twice.
Single == [a |-> Act({}, 2)]

\* b waits for a.
Chain == [a |-> Act({}, 2), b |-> Act({"a"}, 1)]

\* Two activities that may run at the same time.
Parallel == [a |-> Act({}, 1), b |-> Act({}, 1)]
=============================================================================
