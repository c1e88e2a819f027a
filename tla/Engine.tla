------------------------------- MODULE Engine -------------------------------
(***************************************************************************)
(* The in-memory durable execution engine (internal/execution/engine.go).  *)
(* Every exported method holds Engine.mu from its first to its last line,  *)
(* so each of them is one action.                                          *)
(*                                                                         *)
(* Workflows and activities are numbered from 1 in creation order: the ids *)
(* wf_%06d and act_%06d sort as their numbers do below one million.  The   *)
(* log is the set of Event records with their global Sequence.  Messages,  *)
(* UpdatedAt, CreatedAt, CompletedAt and LastError are only displayed and  *)
(* are left out.  Time is counted in seconds from 1; 0 is Go's zero time.  *)
(*                                                                         *)
(* claims is what the engine has handed to workers: a worker may use a     *)
(* claim late, twice, or after another worker has taken over.  reply is    *)
(* the value the last call returned.                                       *)
(***************************************************************************)
EXTENDS Integers, FiniteSets, Sequences

CONSTANTS Empty,         \* the empty string
          Workers,       \* worker ids
          TaskQueues,    \* task queue names, Empty is "any queue"
          Names,         \* activity names
          Namespaces,    \* namespace names
          Keys,          \* idempotency keys, Empty is "no key"
          Definitions,   \* the definitions clients submit
          LeaseTTL,      \* first argument of New, in seconds
          MaxAttempts,   \* second argument of New
          MaxWorkflows,  \* bound: workflows ever started
          MaxTime,       \* bound: the clock stops here
          MaxRepeats     \* bound: heartbeats and stale calls logged

VARIABLES now,           \* what e.now() returns
          nextWorkflow, nextActivity, nextEvent,
          workflows, activities, idempotency, events,
          claims, reply

store == <<nextWorkflow, nextActivity, nextEvent, workflows, activities,
           idempotency, events>>
vars == <<now, store, claims, reply>>

ActivityDefinition ==
  [name : Names, taskQueue : TaskQueues, dependsOn : SUBSET Names,
   maxAttempts : Int, retryBackoff : Int]

WorkflowDefinition ==
  [namespace : Namespaces, name : Names, activities : Seq(ActivityDefinition)]

ASSUME EngineAssumption ==
  /\ Definitions \subseteq WorkflowDefinition
  /\ LeaseTTL \in Int /\ MaxAttempts \in Int
  /\ MaxWorkflows \in Nat /\ MaxTime \in Nat /\ MaxRepeats \in Nat

-----------------------------------------------------------------------------
(* Defaults: New, and the per-activity defaults of Start.                  *)

Default(n, default) == IF n <= 0 THEN default ELSE n

leaseTTL    == Default(LeaseTTL, 30)
maxAttempts == Default(MaxAttempts, 3)

WorkflowStatus == {"running", "completed", "failed", "cancelled"}
ActivityStatus == {"ready", "running", "retry_pending", "completed",
                   "failed", "cancelled"}
EventTypes ==
  {"workflow.started", "workflow.completed", "workflow.failed",
   "workflow.cancelled", "activity.scheduled", "activity.ready",
   "activity.claimed", "activity.heartbeat", "activity.completed",
   "activity.retry_scheduled", "activity.failed", "activity.cancelled",
   "activity.lease_expired", "activity.lease_expired_failed",
   "activity.stale_heartbeat_rejected", "activity.stale_completion_rejected",
   "activity.stale_failure_rejected"}

Workflow == [namespace : Namespaces, key : Keys, status : WorkflowStatus]
Activity ==
  [workflow : Nat, name : Names, taskQueue : TaskQueues,
   dependsOn : SUBSET Names, status : ActivityStatus, attempt : Nat,
   maxAttempts : Nat, retryBackoff : Nat, leaseOwner : Workers \cup {Empty},
   leaseExpiresAt : Nat, fencingToken : Nat, nextAttemptAt : Nat]
Event == [sequence : Nat, workflow : Nat, activity : Nat, type : EventTypes]
Claims == [activity : Nat, worker : Workers, token : Nat]
Reply == [op : {"New", "Start", "Claim", "Heartbeat", "Complete", "Fail",
                "Cancel", "RunSchedulerPass"},
          err : {"nil", "replay", "ErrInvalidTransition", "ErrStaleLease",
                 "ErrNoRunnableActivity"},
          id : Nat]

WorkflowIds == 1 .. nextWorkflow
ActivityIds == 1 .. nextActivity

Answer(op, err, id) == reply' = [op |-> op, err |-> err, id |-> id]

-----------------------------------------------------------------------------
(* The log.  appendEventLocked numbers events globally.                    *)

EventAt(n, w, a, type) ==
  [sequence |-> n, workflow |-> w, activity |-> a, type |-> type]

\* One event for each activity in DOMAIN types, in id order, after base.
EventsInOrder(acts, types, base) ==
  {EventAt(base + Cardinality({b \in DOMAIN types : b <= a}),
           acts[a].workflow, a, types[a]) : a \in DOMAIN types}

appendEvent(w, a, type) ==
  /\ events' = events \cup {EventAt(nextEvent + 1, w, a, type)}
  /\ nextEvent' = nextEvent + 1

\* Bound: heartbeats and stale calls, which may be logged without end.
CanRepeat ==
  Cardinality({e \in events : e.type \in
    {"activity.heartbeat", "activity.stale_heartbeat_rejected",
     "activity.stale_completion_rejected", "activity.stale_failure_rejected"}}) < MaxRepeats

-----------------------------------------------------------------------------
(* State formulae of the locked helpers, over the activity table acts.     *)

dependenciesComplete(acts, a) ==
  \A d \in acts[a].dependsOn :
    /\ \E b \in DOMAIN acts : acts[b].workflow = acts[a].workflow /\ acts[b].name = d
    /\ \A b \in DOMAIN acts :
         acts[b].workflow = acts[a].workflow /\ acts[b].name = d
           => acts[b].status = "completed"

\* MUTANT: only the backoff is looked at.
DueByTime(acts, a) ==
  acts[a].status = "retry_pending" /\ acts[a].nextAttemptAt <= now

\* A pending activity whose backoff is over and whose upstream is complete.
Due(acts, a) ==
  /\ acts[a].status = "retry_pending"
  /\ acts[a].nextAttemptAt <= now
  /\ dependenciesComplete(acts, a)

\* releaseReadyLocked: what it makes ready, and the table afterwards.
Releasable(acts, w) == {a \in DOMAIN acts : acts[a].workflow = w /\ Due(acts, a)}
releaseReady(acts, w) ==
  [a \in DOMAIN acts |-> IF a \in Releasable(acts, w)
                         THEN [acts[a] EXCEPT !.status = "ready"] ELSE acts[a]]

\* MUTANT: a workflow is done when nothing runs.
WorkflowIdle(acts, w) ==
  /\ workflows[w].status = "running"
  /\ \A a \in DOMAIN acts : acts[a].workflow = w => acts[a].status # "running"

\* The test of completeWorkflowIfDoneLocked.
WorkflowDone(acts, w) ==
  /\ workflows[w].status = "running"
  /\ \A a \in DOMAIN acts : acts[a].workflow = w => acts[a].status = "completed"

\* MUTANT: the owner's name is trusted without the token.
currentLeaseByOwner(a, worker, token) ==
  /\ activities[a].status = "running"
  /\ activities[a].leaseOwner = worker
  /\ activities[a].leaseExpiresAt = 0 \/ activities[a].leaseExpiresAt > now

currentLease(a, worker, token) ==
  /\ activities[a].status = "running"
  /\ activities[a].leaseOwner = worker
  /\ activities[a].fencingToken = token
  /\ activities[a].leaseExpiresAt = 0 \/ activities[a].leaseExpiresAt > now

\* The row once its lease is given up; the token and the expiry stay.
Freed(act, status) == [act EXCEPT !.status = status, !.leaseOwner = Empty]

-----------------------------------------------------------------------------
Init ==
  /\ now = 1
  /\ nextWorkflow = 0 /\ nextActivity = 0 /\ nextEvent = 0
  /\ workflows = <<>>
  /\ activities = <<>>
  /\ idempotency = [k \in Namespaces \X Keys |-> 0]
  /\ events = {}
  /\ claims = {}
  /\ reply = [op |-> "New", err |-> "nil", id |-> 0]

ValidDefinition(def) ==
  LET defs == def.activities IN
  /\ \A i \in DOMAIN defs : defs[i].name # Empty
  /\ \A i, j \in DOMAIN defs : defs[i].name = defs[j].name => i = j
  /\ \A i \in DOMAIN defs : \A d \in defs[i].dependsOn :
       \E j \in DOMAIN defs : defs[j].name = d

\* MUTANT: a status the store does not know.
NewActivityPending(w, def) ==
  [workflow |-> w, name |-> def.name, taskQueue |-> def.taskQueue,
   dependsOn |-> def.dependsOn,
   status |-> IF def.dependsOn = {} THEN "ready" ELSE "pending",
   attempt |-> 0, maxAttempts |-> Default(def.maxAttempts, maxAttempts),
   retryBackoff |-> Default(def.retryBackoff, 1), leaseOwner |-> Empty,
   leaseExpiresAt |-> 0, fencingToken |-> 0, nextAttemptAt |-> now]

NewActivity(w, def) ==
  [workflow |-> w, name |-> def.name, taskQueue |-> def.taskQueue,
   dependsOn |-> def.dependsOn,
   status |-> IF def.dependsOn = {} THEN "ready" ELSE "retry_pending",
   attempt |-> 0, maxAttempts |-> Default(def.maxAttempts, maxAttempts),
   retryBackoff |-> Default(def.retryBackoff, 1), leaseOwner |-> Empty,
   leaseExpiresAt |-> 0, fencingToken |-> 0, nextAttemptAt |-> now]

\* The store after a new workflow for def and key: its row, its activities,
\* its idempotency entry, and one event for each.
Create(def, key) ==
  LET w     == nextWorkflow + 1
      n     == nextActivity
      ids   == n + 1 .. n + Len(def.activities)
      acts  == [a \in 1 .. n + Len(def.activities) |->
                  IF a <= n THEN activities[a]
                  ELSE NewActivity(w, def.activities[a - n])]
      ready == Releasable(acts, w)
      after == nextEvent + 1 + Len(def.activities)
  IN /\ nextWorkflow' = w
     /\ nextActivity' = n + Len(def.activities)
     /\ workflows' = [v \in 1 .. w |->
                        IF v < w THEN workflows[v]
                        ELSE [namespace |-> def.namespace, key |-> key,
                              status |-> "running"]]
     /\ idempotency' = IF key = Empty THEN idempotency
                       ELSE [idempotency EXCEPT ![<<def.namespace, key>>] = w]
     /\ activities' = releaseReady(acts, w)
     /\ events' = events \cup {EventAt(nextEvent + 1, w, 0, "workflow.started")}
          \cup EventsInOrder(acts, [a \in ids |-> "activity.scheduled"], nextEvent + 1)
          \cup EventsInOrder(acts, [a \in ready |-> "activity.ready"], after)
     /\ nextEvent' = after + Cardinality(ready)
     /\ Answer("Start", "nil", w)

\* The workflow already started for the key, or 0.
ExistingWorkflow(def, key) ==
  IF key = Empty THEN 0 ELSE idempotency[<<def.namespace, key>>]

\* The idempotency lookup precedes the validation of the activities.
Start(def, key) ==
  LET incomplete == def.namespace = Empty \/ def.name = Empty \/ def.activities = <<>>
      existing   == ExistingWorkflow(def, key)
  IN /\ \/ /\ ~incomplete /\ existing # 0
           /\ Answer("Start", "replay", existing)
           /\ UNCHANGED store
        \/ /\ incomplete \/ (existing = 0 /\ ~ValidDefinition(def))
           /\ Answer("Start", "ErrInvalidTransition", 0)
           /\ UNCHANGED store
        \/ /\ ~incomplete /\ existing = 0 /\ ValidDefinition(def)
           /\ nextWorkflow < MaxWorkflows
           /\ Create(def, key)
     /\ UNCHANGED <<now, claims>>

-----------------------------------------------------------------------------
Claimable(a, queue) ==
  /\ activities[a].status = "ready"
  /\ queue = Empty \/ activities[a].taskQueue = Empty \/ activities[a].taskQueue = queue

\* MUTANT: a claim takes over the token of the previous one.
LeasedSameToken(act, worker) ==
  [act EXCEPT !.status = "running", !.attempt = @ + 1, !.leaseOwner = worker,
              !.leaseExpiresAt = now + leaseTTL]

Leased(act, worker) ==
  [act EXCEPT !.status = "running", !.attempt = @ + 1, !.leaseOwner = worker,
              !.fencingToken = @ + 1, !.leaseExpiresAt = now + leaseTTL]

\* The first ready activity in id order; the workflow's status is not read.
Claim(worker, queue) ==
  /\ \/ \E a \in ActivityIds :
          /\ Claimable(a, queue)
          /\ \A b \in ActivityIds : Claimable(b, queue) => a <= b
          /\ activities' = [activities EXCEPT ![a] = Leased(@, worker)]
          /\ claims' = claims \cup {[activity |-> a, worker |-> worker,
                                     token |-> activities[a].fencingToken + 1]}
          /\ appendEvent(activities[a].workflow, a, "activity.claimed")
          /\ Answer("Claim", "nil", a)
     \/ /\ \A a \in ActivityIds : ~Claimable(a, queue)
        /\ Answer("Claim", "ErrNoRunnableActivity", 0)
        /\ UNCHANGED <<activities, claims, events, nextEvent>>
  /\ UNCHANGED <<now, nextWorkflow, nextActivity, workflows, idempotency>>

\* MUTANT: an activity that is not running is logged like a stale lease.
RejectedAndLogged(op, c, stale) ==
  /\ ~currentLease(c.activity, c.worker, c.token)
  /\ CanRepeat
  /\ appendEvent(activities[c.activity].workflow, c.activity, stale)
  /\ Answer(op, "ErrStaleLease", c.activity)
  /\ UNCHANGED <<now, nextWorkflow, nextActivity, workflows, activities,
                 idempotency, claims>>

\* activityLocked and the lease check, shared by the three worker calls: the
\* call fails, with a log entry only when the activity is running.
Rejected(op, c, stale) ==
  /\ \/ /\ activities[c.activity].status # "running"
        /\ Answer(op, "ErrInvalidTransition", c.activity)
        /\ UNCHANGED <<events, nextEvent>>
     \/ /\ activities[c.activity].status = "running"
        /\ ~currentLease(c.activity, c.worker, c.token)
        /\ CanRepeat
        /\ appendEvent(activities[c.activity].workflow, c.activity, stale)
        /\ Answer(op, "ErrStaleLease", c.activity)
  /\ UNCHANGED <<now, nextWorkflow, nextActivity, workflows, activities,
                 idempotency, claims>>

Heartbeat(c) ==
  \/ Rejected("Heartbeat", c, "activity.stale_heartbeat_rejected")
  \/ /\ currentLease(c.activity, c.worker, c.token)
     /\ CanRepeat
     /\ activities' = [activities EXCEPT ![c.activity].leaseExpiresAt = now + leaseTTL]
     /\ appendEvent(activities[c.activity].workflow, c.activity, "activity.heartbeat")
     /\ Answer("Heartbeat", "nil", c.activity)
     /\ UNCHANGED <<now, nextWorkflow, nextActivity, workflows, idempotency, claims>>

Complete(c) ==
  \/ Rejected("Complete", c, "activity.stale_completion_rejected")
  \/ LET a     == c.activity
         w     == activities[a].workflow
         acts  == [activities EXCEPT ![a] = Freed(@, "completed")]
         ready == Releasable(acts, w)
         done  == WorkflowDone(releaseReady(acts, w), w)
         after == nextEvent + 1 + Cardinality(ready)
     IN /\ currentLease(a, c.worker, c.token)
        /\ activities' = releaseReady(acts, w)
        /\ workflows' = IF done THEN [workflows EXCEPT ![w].status = "completed"]
                        ELSE workflows
        /\ events' = events \cup {EventAt(nextEvent + 1, w, a, "activity.completed")}
             \cup EventsInOrder(acts, [b \in ready |-> "activity.ready"], nextEvent + 1)
             \cup (IF done THEN {EventAt(after + 1, w, 0, "workflow.completed")} ELSE {})
        /\ nextEvent' = IF done THEN after + 1 ELSE after
        /\ Answer("Complete", "nil", a)
        /\ UNCHANGED <<now, nextWorkflow, nextActivity, idempotency, claims>>

\* The delay before the next attempt grows with each attempt.
Retrying(act) ==
  [Freed(act, "retry_pending") EXCEPT
     !.nextAttemptAt = now + act.retryBackoff * act.attempt]

Fail(c, retryable) ==
  \/ Rejected("Fail", c, "activity.stale_failure_rejected")
  \/ LET a == c.activity
         w == activities[a].workflow
     IN /\ currentLease(a, c.worker, c.token)
        /\ \/ /\ retryable /\ activities[a].attempt < activities[a].maxAttempts
              /\ activities' = [activities EXCEPT ![a] = Retrying(@)]
              /\ appendEvent(w, a, "activity.retry_scheduled")
              /\ UNCHANGED workflows
           \/ /\ ~(retryable /\ activities[a].attempt < activities[a].maxAttempts)
              /\ activities' = [activities EXCEPT ![a] = Freed(@, "failed")]
              /\ workflows' = [workflows EXCEPT ![w].status = "failed"]
              /\ events' = events \cup {EventAt(nextEvent + 1, w, a, "activity.failed"),
                                        EventAt(nextEvent + 2, w, 0, "workflow.failed")}
              /\ nextEvent' = nextEvent + 2
        /\ Answer("Fail", "nil", a)
        /\ UNCHANGED <<now, nextWorkflow, nextActivity, idempotency, claims>>

-----------------------------------------------------------------------------
Pending(w) ==
  {a \in ActivityIds : /\ activities[a].workflow = w
                       /\ activities[a].status \in {"ready", "retry_pending"}}

\* Running activities keep their status and their lease.
Cancel(w) ==
  LET pending == Pending(w)
      after   == nextEvent + Cardinality(pending)
  IN /\ \/ /\ workflows[w].status # "running"
           /\ Answer("Cancel", "ErrInvalidTransition", w)
           /\ UNCHANGED <<workflows, activities, events, nextEvent>>
        \/ /\ workflows[w].status = "running"
           /\ workflows' = [workflows EXCEPT ![w].status = "cancelled"]
           /\ activities' = [a \in ActivityIds |->
                IF a \in pending THEN [activities[a] EXCEPT !.status = "cancelled"]
                ELSE activities[a]]
           /\ events' = events
                \cup EventsInOrder(activities, [a \in pending |-> "activity.cancelled"], nextEvent)
                \cup {EventAt(after + 1, w, 0, "workflow.cancelled")}
           /\ nextEvent' = after + 1
           /\ Answer("Cancel", "nil", w)
     /\ UNCHANGED <<now, nextWorkflow, nextActivity, idempotency, claims>>

\* MUTANT: a lease is taken back one instant too early.
ExpiredEarly(a) ==
  /\ activities[a].status = "running"
  /\ activities[a].leaseExpiresAt # 0
  /\ activities[a].leaseExpiresAt <= now + 1

Expired(a) ==
  /\ activities[a].status = "running"
  /\ activities[a].leaseExpiresAt # 0
  /\ activities[a].leaseExpiresAt <= now

\* MUTANT: the attempt budget is off by one.
SweptOneMore(a) ==
  LET act == activities[a]
  IN CASE Expired(a) /\ act.attempt <= act.maxAttempts ->
            [row |-> Freed(act, "ready"), type |-> "activity.lease_expired"]
       [] Expired(a) /\ act.attempt > act.maxAttempts ->
            [row |-> Freed(act, "failed"), type |-> "activity.lease_expired_failed"]
       [] Due(activities, a) ->
            [row |-> [act EXCEPT !.status = "ready"], type |-> "activity.ready"]

\* MUTANT: exhausted activities are logged like those that get another try.
SweptMislabelled(a) ==
  LET act == activities[a]
  IN IF Expired(a)
     THEN [row |-> Freed(act, IF act.attempt < act.maxAttempts THEN "ready" ELSE "failed"),
           type |-> "activity.lease_expired"]
     ELSE [row |-> [act EXCEPT !.status = "ready"], type |-> "activity.ready"]

\* One activity's row after a scheduler pass, and the event that says so.
Swept(a) ==
  LET act == activities[a]
  IN CASE Expired(a) /\ act.attempt < act.maxAttempts ->
            [row |-> Freed(act, "ready"),
             type |-> "activity.lease_expired"]
       [] Expired(a) /\ act.attempt >= act.maxAttempts ->
            [row |-> Freed(act, "failed"),
             type |-> "activity.lease_expired_failed"]
       [] Due(activities, a) ->
            [row |-> [act EXCEPT !.status = "ready"], type |-> "activity.ready"]

\* No step of the loop changes what a later one tests, so the pass is one
\* simultaneous update.  Exhausted activities fail their workflow, whatever
\* its status, and no workflow event is written.
RunSchedulerPass ==
  LET changed == {a \in ActivityIds : Expired(a) \/ Due(activities, a)}
      failing == {a \in changed : Swept(a).type = "activity.lease_expired_failed"}
  IN /\ activities' = [a \in ActivityIds |->
          IF a \in changed THEN Swept(a).row ELSE activities[a]]
     /\ workflows' = [w \in WorkflowIds |->
          IF \E a \in failing : activities[a].workflow = w
          THEN [workflows[w] EXCEPT !.status = "failed"] ELSE workflows[w]]
     /\ events' = events \cup
          EventsInOrder(activities, [a \in changed |-> Swept(a).type], nextEvent)
     /\ nextEvent' = nextEvent + Cardinality(changed)
     /\ Answer("RunSchedulerPass", "nil", Cardinality(changed))
     /\ UNCHANGED <<now, nextWorkflow, nextActivity, idempotency, claims>>

Tick ==
  /\ now < MaxTime
  /\ now' = now + 1
  /\ UNCHANGED <<store, claims, reply>>

Next ==
  \/ \E def \in Definitions, key \in Keys : Start(def, key)
  \/ \E worker \in Workers, queue \in TaskQueues : Claim(worker, queue)
  \/ \E c \in claims : Heartbeat(c)
  \/ \E c \in claims : Complete(c)
  \/ \E c \in claims, retryable \in BOOLEAN : Fail(c, retryable)
  \/ \E w \in WorkflowIds : Cancel(w)
  \/ RunSchedulerPass
  \/ Tick

Spec == Init /\ [][Next]_vars
-----------------------------------------------------------------------------
(* Properties.                                                             *)

\* The type of every variable; ids are dense, as the counters of the engine
\* make them, and an activity belongs to a workflow that exists.
TypeOK ==
  /\ now \in Nat \ {0}
  /\ nextWorkflow \in Nat /\ nextActivity \in Nat /\ nextEvent \in Nat
  /\ workflows \in [WorkflowIds -> Workflow]
  /\ activities \in [ActivityIds -> Activity]
  /\ \A a \in ActivityIds : activities[a].workflow \in WorkflowIds
  /\ idempotency \in [Namespaces \X Keys -> {0} \cup WorkflowIds]
  /\ events \subseteq Event
  /\ claims \subseteq [activity : ActivityIds, worker : Workers, token : Nat]
  /\ reply \in Reply

\* Claim is the only place that grants a token or counts an attempt, so the
\* fencing token is the attempt number; no attempt exceeds the budget, and
\* whatever Fail, Cancel or the scheduler leave claimable has budget left.
FencedAttempts ==
  \A a \in ActivityIds :
    /\ activities[a].fencingToken = activities[a].attempt
    /\ activities[a].attempt <= activities[a].maxAttempts
    /\ activities[a].status \in {"ready", "retry_pending"}
         => activities[a].attempt < activities[a].maxAttempts

\* A running activity belongs to exactly one claim ever handed out, the one
\* with the highest token: nobody else can pass currentLease, however many
\* workers were given the activity before.
LeaseHolderIsLatestClaim ==
  \A a \in ActivityIds : activities[a].status = "running" =>
    LET latest == {c \in claims : /\ c.activity = a
                                  /\ c.token >= activities[a].fencingToken}
    IN latest = {[activity |-> a, worker |-> activities[a].leaseOwner,
                  token |-> activities[a].fencingToken]}

\* Nothing is handed to a worker before everything it depends on has
\* completed, through retries, lease expiry and releaseReadyLocked alike.
DependenciesFirst ==
  \A a \in ActivityIds :
    activities[a].attempt > 0 => dependenciesComplete(activities, a)

\* The workflow's status is what its activities say: completed exactly when
\* the last of them completes (no Complete may miss it), failed only with a
\* failed activity, running or cancelled with none.
WorkflowStatusExplained ==
  \A w \in WorkflowIds :
    LET statuses == {activities[a].status : a \in {b \in ActivityIds : activities[b].workflow = w}}
    IN CASE workflows[w].status = "completed" -> statuses = {"completed"}
         [] workflows[w].status = "failed"    -> "failed" \in statuses
         [] workflows[w].status = "cancelled" -> "failed" \notin statuses
         [] workflows[w].status = "running"   ->
              statuses # {"completed"} /\ statuses \cap {"failed", "cancelled"} = {}

\* The status that a logged transition leaves an activity in.
StatusAfter ==
  [type \in {"activity.ready", "activity.lease_expired", "activity.claimed",
             "activity.completed", "activity.retry_scheduled",
             "activity.cancelled", "activity.failed",
             "activity.lease_expired_failed"} |->
     CASE type = "activity.claimed"         -> "running"
       [] type = "activity.completed"       -> "completed"
       [] type = "activity.retry_scheduled" -> "retry_pending"
       [] type = "activity.cancelled"       -> "cancelled"
       [] type \in {"activity.ready", "activity.lease_expired"} -> "ready"
       [] type \in {"activity.failed", "activity.lease_expired_failed"} -> "failed"]

\* The log tells the truth about activities: replaying it gives each one's
\* status and its number of attempts, whatever heartbeats and rejected calls
\* are logged in between.
HistoryExplainsStatus ==
  \A a \in ActivityIds :
    LET moves == {e \in events : e.activity = a /\ e.type \in DOMAIN StatusAfter}
        act   == activities[a]
    IN /\ \A e \in moves : (\A f \in moves : f.sequence <= e.sequence)
                             => act.status = StatusAfter[e.type]
       /\ moves = {} => act.status = IF act.dependsOn = {} THEN "ready" ELSE "retry_pending"
       /\ act.attempt = Cardinality({e \in moves : e.type = "activity.claimed"})

\* workflow.completed is the last thing the log says of a workflow: a late
\* heartbeat, completion or failure of any earlier claim leaves no trace.
CompletionClosesHistory ==
  \A w \in WorkflowIds : workflows[w].status = "completed" =>
    \E e \in events :
      /\ e.workflow = w /\ e.type = "workflow.completed"
      /\ \A f \in events : f.workflow = w => f.sequence <= e.sequence

\* A result is accepted only from the newest claim on the activity, and only
\* while its lease lasts.
OnlyLatestClaimAccepted ==
  [][\A c \in claims :
       /\ Complete(c) \/ Heartbeat(c) \/ (\E r \in BOOLEAN : Fail(c, r))
       /\ reply'.err = "nil"
       => /\ \A d \in claims : d.activity = c.activity => d.token < c.token \/ d = c
          /\ activities[c.activity].leaseExpiresAt > now]_vars

\* Until its deadline a lease is its holder's: no claim, cancellation,
\* scheduler pass or call with another claim takes the activity away, hands it
\* on or brings the deadline forward, and a heartbeat does not either; only
\* the holder's own result ends it.  From the deadline on it is the
\* scheduler's: a pass leaves no lease standing that has run out.
LeaseLasts ==
  [][/\ \A a \in ActivityIds :
          activities[a].status = "running" /\ now < activities[a].leaseExpiresAt =>
            LET holder == [activity |-> a, worker |-> activities[a].leaseOwner,
                           token |-> activities[a].fencingToken]
            IN \/ /\ activities'[a].status = "running"
                  /\ activities'[a].leaseOwner = activities[a].leaseOwner
                  /\ activities'[a].fencingToken = activities[a].fencingToken
                  /\ activities'[a].leaseExpiresAt >= activities[a].leaseExpiresAt
               \/ Complete(holder)
               \/ \E retryable \in BOOLEAN : Fail(holder, retryable)
     /\ RunSchedulerPass =>
          \A a \in ActivityIds :
            activities'[a].status = "running" => now < activities'[a].leaseExpiresAt]_vars

-----------------------------------------------------------------------------
(* Statements of the documentation that the code does not keep.            *)

\* README.md:18, "records every state transition": a workflow that has failed
\* has a workflow.failed event.  RunSchedulerPass fails a workflow whose
\* activity exhausts its attempts by lease expiry without writing one.
WorkflowFailureRecorded ==
  \A w \in WorkflowIds : workflows[w].status = "failed" =>
    \E e \in events : e.workflow = w /\ e.type = "workflow.failed"

\* README.md:176-179: a dead worker's completion, replayed after its heir has
\* taken over, is answered with a conflict (ErrStaleLease) and recorded.
\* Once the heir has completed, activityLocked answers ErrInvalidTransition
\* and records nothing.
LateCompletionRecorded ==
  [][\A c \in claims :
       Complete(c) /\ c.token < activities[c.activity].fencingToken
         => reply'.err = "ErrStaleLease" /\ nextEvent' = nextEvent + 1]_vars
=============================================================================
