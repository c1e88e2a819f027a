----------------------------- MODULE Lifecycle ------------------------------
(***************************************************************************)
(* What a store of DurableGo promises to its callers, whichever store it   *)
(* is: the contract behind the Backend interfaces of the API server, the   *)
(* worker runtime and the scheduler.  Engine and PgStore implement it;     *)
(* Runtime and Api rely on it.                                             *)
(*                                                                         *)
(* There is no clock: a lease may run out, and a backoff end, at any time. *)
(* A call that is refused changes nothing, and neither does a heartbeat.   *)
(***************************************************************************)
EXTENDS FiniteSets, Integers

CONSTANTS Workers,
          NoOwner,
          MayMissClose   \* may overlapping Complete calls leave a finished
                         \* workflow running?

VARIABLES plan,       \* of each activity: workflow, dependsOn, maxAttempts
          rows,       \* of each activity: status, token, owner
          workflows,  \* of each workflow: its status
          claims      \* the claims handed to workers

contract == <<plan, rows, workflows, claims>>

Activities == DOMAIN plan

\* An activity with dependencies waits for them from the start.
Fresh(p) == [status |-> IF p.dependsOn = {} THEN "ready" ELSE "retry_pending",
             token |-> 0, owner |-> NoOwner]

OfWorkflow(w) == {a \in Activities : plan[a].workflow = w}
Claimed(a)    == [activity |-> a, worker |-> rows[a].owner, token |-> rows[a].token]

\* MUTANT: the owner's name is trusted without the token.
HoldsByOwner(c) == rows[c.activity].status = "running" /\ c.worker = rows[c.activity].owner

Holds(c)      == rows[c.activity].status = "running" /\ c = Claimed(c.activity)
HasBudget(a)  == rows[a].token < plan[a].maxAttempts

DependenciesComplete(a, table) ==
  \A d \in plan[a].dependsOn : table[d].status = "completed"
Releasable(table) ==
  {a \in Activities : table[a].status = "retry_pending" /\ DependenciesComplete(a, table)}

Freed(a, status) == [rows[a] EXCEPT !.status = status, !.owner = NoOwner]

\* The table with status for the activities of S.
With(table, S, status) ==
  [a \in Activities |-> IF a \in S THEN [table[a] EXCEPT !.status = status] ELSE table[a]]

-----------------------------------------------------------------------------
LifecycleInit ==
  /\ rows = [a \in Activities |-> Fresh(plan[a])]
  /\ \A a \in Activities : /\ plan[a].workflow \in DOMAIN workflows
                           /\ plan[a].dependsOn \subseteq OfWorkflow(plan[a].workflow)
  /\ \A w \in DOMAIN workflows : workflows[w] = "running"
  /\ claims = {}

Extends(f, g) == DOMAIN f \subseteq DOMAIN g /\ \A x \in DOMAIN f : g[x] = f[x]

\* A workflow and its activities appear at once, and touch no other.
Start ==
  /\ Extends(workflows, workflows') /\ Extends(plan, plan') /\ Extends(rows, rows')
  /\ \E w \in DOMAIN workflows' \ DOMAIN workflows :
       /\ DOMAIN workflows' = DOMAIN workflows \cup {w}
       /\ workflows'[w] = "running"
       /\ \A a \in DOMAIN plan' \ DOMAIN plan :
            plan'[a].workflow = w /\ rows'[a] = Fresh(plan'[a])
  /\ DOMAIN rows' = DOMAIN plan'
  /\ UNCHANGED claims

\* MUTANT: a claim after an expiry takes over the token.
ClaimSameToken(a, worker) ==
  /\ rows[a].status = "ready"
  /\ rows' = [rows EXCEPT ![a] = [status |-> "running", token |-> 1, owner |-> worker]]
  /\ claims' = claims \cup {[activity |-> a, worker |-> worker, token |-> 1]}
  /\ UNCHANGED <<plan, workflows>>

\* Every claim carries a token that no claim on the activity had before.
Claim(a, worker) ==
  /\ rows[a].status = "ready"
  /\ rows' = [rows EXCEPT ![a] = [status |-> "running", token |-> rows[a].token + 1,
                                  owner |-> worker]]
  /\ claims' = claims \cup {[activity |-> a, worker |-> worker, token |-> rows[a].token + 1]}
  /\ UNCHANGED <<plan, workflows>>

\* Only the holder's result counts.  What waited for it may become ready, and
\* the workflow is closed with its last activity.
Complete(c, released) ==
  LET w    == plan[c.activity].workflow
      done == [rows EXCEPT ![c.activity] = Freed(c.activity, "completed")]
      last == /\ workflows[w] = "running"
              /\ \A a \in OfWorkflow(w) : done[a].status = "completed"
  IN /\ Holds(c)
     /\ released \subseteq Releasable(done) \cap OfWorkflow(w)
     /\ rows' = With(done, released, "ready")
     /\ workflows' \in {[workflows EXCEPT ![w] = IF last THEN "completed" ELSE @]}
                       \cup (IF MayMissClose THEN {workflows} ELSE {})
     /\ UNCHANGED <<plan, claims>>

\* A failure is retried while the budget lasts, and fails the workflow when
\* it does not.
Fail(c, retryable) ==
  LET a     == c.activity
      retry == retryable /\ HasBudget(a)
  IN /\ Holds(c)
     /\ rows' = [rows EXCEPT ![a] = Freed(a, IF retry THEN "retry_pending" ELSE "failed")]
     /\ workflows' = IF retry THEN workflows
                     ELSE [workflows EXCEPT ![plan[a].workflow] = "failed"]
     /\ UNCHANGED <<plan, claims>>

\* Everything of the workflow that is not running is given up.
Cancel(w) ==
  /\ workflows[w] = "running"
  /\ workflows' = [workflows EXCEPT ![w] = "cancelled"]
  /\ rows' = With(rows, {a \in OfWorkflow(w) : rows[a].status \in {"ready", "retry_pending"}},
                  "cancelled")
  /\ UNCHANGED <<plan, claims>>

\* A scheduler pass takes back the leases that have run out, and releases
\* what has waited long enough.
RunSchedulerPass(lapsed, released) ==
  LET exhausted == {a \in lapsed : ~HasBudget(a)}
      swept     == [a \in Activities |->
                      IF a \in lapsed
                      THEN Freed(a, IF a \in exhausted THEN "failed" ELSE "ready")
                      ELSE rows[a]]
  IN /\ lapsed \subseteq {a \in Activities : rows[a].status = "running"}
     /\ released \subseteq Releasable(rows)
     /\ rows' = With(swept, released, "ready")
     /\ workflows' = [w \in DOMAIN workflows |->
                        IF exhausted \cap OfWorkflow(w) # {} THEN "failed" ELSE workflows[w]]
     /\ UNCHANGED <<plan, claims>>

LifecycleNext ==
  \/ Start
  \/ \E a \in Activities, worker \in Workers : Claim(a, worker)
  \/ \E c \in claims, released \in SUBSET Activities : Complete(c, released)
  \/ \E c \in claims, retryable \in BOOLEAN : Fail(c, retryable)
  \/ \E w \in DOMAIN workflows : Cancel(w)
  \/ \E lapsed \in SUBSET Activities, released \in SUBSET Activities :
       RunSchedulerPass(lapsed, released)

LifecycleSpec == LifecycleInit /\ [][LifecycleNext]_contract
=============================================================================
