---------------------------- MODULE PgRefinement ----------------------------
(* What the PostgreSQL store commits keeps the contract of Lifecycle.      *)
EXTENDS PgStore

ContractPlan ==
  [a \in Activities |-> [workflow |-> Plan[a].workflow, dependsOn |-> Plan[a].dependsOn,
                         maxAttempts |-> Plan[a].maxAttempts]]

ContractRows ==
  [a \in Activities |-> [status |-> activities[a].status, token |-> activities[a].token,
                         owner |-> activities[a].owner]]

Contract == INSTANCE Lifecycle WITH
  MayMissClose <- TRUE,
  plan         <- ContractPlan,
  rows         <- ContractRows

\* Each transaction, of however many statements, takes effect at its commit
\* as one step of the contract, or not at all: what others commit in between
\* never makes it half a Complete, a double claim or a release too early.  The
\* one liberty taken is MayMissClose.
ImplementsLifecycle == Contract!LifecycleSpec
=============================================================================
