----------------------------- MODULE MCRuntime ------------------------------
(* Small instances of Runtime for TLC.                                     *)
EXTENDS Runtime, TLC

CONSTANTS p1, p2, demo

TwoProcesses == {p1, p2}
SharedID     == {demo}
AllDemo      == [p \in Processes |-> demo]

Act(w, deps, max) == [workflow |-> w, dependsOn |-> deps, maxAttempts |-> max]

\* Beside the chain, a workflow whose activities wait for each other.
ChainAndCycle ==
  [a |-> Act("wf", {}, 2), b |-> Act("wf", {"a"}, 1),
   x |-> Act("knot", {"y"}, 1), y |-> Act("knot", {"x"}, 1)]

\* Only p1 knows how to run a.
PartlyHandled == [p \in Processes |-> IF p = p1 THEN DOMAIN Plan ELSE DOMAIN Plan \ {"a"}]
=============================================================================
