-------------------------- MODULE EngineRefinement --------------------------
(* The in-memory engine keeps the contract of Lifecycle.                   *)
EXTENDS Engine

\* Lifecycle knows activities by id, the engine by name within a workflow.
PlanOf(a) ==
  [workflow    |-> activities[a].workflow,
   dependsOn   |-> {b \in ActivityIds : /\ activities[b].workflow = activities[a].workflow
                                        /\ activities[b].name \in activities[a].dependsOn},
   maxAttempts |-> activities[a].maxAttempts]

RowOf(a) == [status |-> activities[a].status, token |-> activities[a].fencingToken,
             owner |-> activities[a].leaseOwner]

Plan     == [a \in ActivityIds |-> PlanOf(a)]
Rows     == [a \in ActivityIds |-> RowOf(a)]
Statuses == [w \in WorkflowIds |-> workflows[w].status]

Contract == INSTANCE Lifecycle WITH
  NoOwner      <- Empty,
  MayMissClose <- FALSE,
  plan         <- Plan,
  rows         <- Rows,
  workflows    <- Statuses

\* Whatever the engine does, through all of its calls and the clock, is a
\* step of the contract or changes nothing its callers can rely on: tokens
\* are never reused, only the holder's result is taken, a released activity
\* has all it depends on, and the last completion closes the workflow.
ImplementsLifecycle == Contract!LifecycleSpec
=============================================================================
