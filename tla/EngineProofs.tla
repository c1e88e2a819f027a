---------------------------- MODULE EngineProofs ----------------------------
(* Theorems about Engine, for all workers, definitions, keys and bounds.   *)
EXTENDS Engine, FiniteSetTheorems, TLAPS

-----------------------------------------------------------------------------
(* Lemmas about the operators the actions are built from.                  *)

\* New replaces a lease time that is not positive by 30 seconds.
LEMMA leaseTTLPositive == leaseTTL \in Nat \ {0}
BY EngineAssumption DEF leaseTTL, Default

\* New replaces an attempt budget that is not positive by 3.
LEMMA maxAttemptsPositive == maxAttempts \in Nat \ {0}
BY EngineAssumption DEF maxAttempts, Default

\* A batch of numbered events is a set of events.
LEMMA EventsInOrderType ==
  ASSUME NEW acts, NEW n \in Nat, NEW S \in SUBSET (1 .. n), NEW base \in Nat,
         NEW types \in [S -> EventTypes],
         \A a \in S : acts[a].workflow \in Nat
  PROVE  EventsInOrder(acts, types, base) \subseteq Event
<1>1. IsFiniteSet(S)
  BY FS_Interval, FS_Subset, 0 \in Int, 1 \in Int, n \in Int
<1>2. ASSUME NEW a \in S
      PROVE  EventAt(base + Cardinality({b \in S : b <= a}), acts[a].workflow, a, types[a]) \in Event
  <2>1. IsFiniteSet({b \in S : b <= a})
    BY <1>1, FS_Subset
  <2>2. Cardinality({b \in S : b <= a}) \in Nat
    BY <2>1, FS_CardinalityType
  <2> QED
    BY <2>2 DEF EventAt, Event
<1> QED
  BY <1>2 DEF EventsInOrder

\* A set of activity ids has a cardinality.
LEMMA IdsFinite ==
  ASSUME NEW n \in Nat, NEW S \in SUBSET (1 .. n)
  PROVE  Cardinality(S) \in Nat
BY FS_Interval, FS_Subset, FS_CardinalityType, 1 \in Int, n \in Int

\* The same two facts for the ids of the state.
LEMMA BatchType ==
  ASSUME TypeOK, NEW S \in SUBSET ActivityIds, NEW acts, NEW base \in Nat,
         NEW types \in [S -> EventTypes],
         \A a \in S : acts[a].workflow \in Nat
  PROVE  EventsInOrder(acts, types, base) \subseteq Event /\ Cardinality(S) \in Nat
BY EventsInOrderType, IdsFinite DEF ActivityIds, TypeOK

\* Rows stay rows: what Start, releaseReady and the scheduler build.
LEMMA NewActivityType ==
  ASSUME NEW w \in Nat, NEW def \in ActivityDefinition, now \in Nat
  PROVE  NewActivity(w, def) \in Activity /\ NewActivity(w, def).workflow = w
BY maxAttemptsPositive DEF NewActivity, Activity, ActivityDefinition, ActivityStatus, Default

\* What each row update does to the fields the invariants speak of.
SameIdentity(r, s) ==
  /\ s \in Activity
  /\ s.workflow = r.workflow /\ s.name = r.name
  /\ s.dependsOn = r.dependsOn /\ s.maxAttempts = r.maxAttempts

\* What Claim does to a row: one more attempt, one more token, a new lease.
LEMMA LeasedRow ==
  ASSUME NEW r \in Activity, NEW worker \in Workers, now \in Nat
  PROVE  /\ SameIdentity(r, Leased(r, worker))
         /\ Leased(r, worker).status = "running"
         /\ Leased(r, worker).leaseOwner = worker
         /\ Leased(r, worker).attempt = r.attempt + 1
         /\ Leased(r, worker).fencingToken = r.fencingToken + 1
         /\ Leased(r, worker).leaseExpiresAt = now + leaseTTL
<1> DEFINE r1 == [r EXCEPT !.status = "running"]
           r2 == [r1 EXCEPT !.attempt = r.attempt + 1]
           r3 == [r2 EXCEPT !.leaseOwner = worker]
           r4 == [r3 EXCEPT !.fencingToken = r.fencingToken + 1]
           r5 == [r4 EXCEPT !.leaseExpiresAt = now + leaseTTL]
<1>1. Leased(r, worker) = r5
  BY DEF Leased
<1>2. /\ r1 \in Activity /\ SameIdentity(r, r1) /\ r1.status = "running"
      /\ r1.fencingToken = r.fencingToken
  BY DEF Activity, ActivityStatus, SameIdentity
<1> HIDE DEF r1
<1>3. /\ r2 \in Activity /\ SameIdentity(r, r2) /\ r2.status = "running"
      /\ r2.fencingToken = r.fencingToken /\ r2.attempt = r.attempt + 1
  BY <1>2 DEF Activity, SameIdentity
<1> HIDE DEF r2
<1>4. /\ r3 \in Activity /\ SameIdentity(r, r3) /\ r3.status = "running"
      /\ r3.fencingToken = r.fencingToken /\ r3.attempt = r.attempt + 1
      /\ r3.leaseOwner = worker
  BY <1>3 DEF Activity, SameIdentity
<1> HIDE DEF r3
<1>5. /\ r4 \in Activity /\ SameIdentity(r, r4) /\ r4.status = "running"
      /\ r4.fencingToken = r.fencingToken + 1 /\ r4.attempt = r.attempt + 1
      /\ r4.leaseOwner = worker
  BY <1>4 DEF Activity, SameIdentity
<1> HIDE DEF r4
<1> QED
  BY <1>1, <1>5, leaseTTLPositive DEF Activity, SameIdentity

\* What giving up a lease does to a row: only status and owner change.
LEMMA FreedRow ==
  ASSUME NEW r \in Activity, NEW status \in ActivityStatus
  PROVE  /\ SameIdentity(r, Freed(r, status))
         /\ Freed(r, status).status = status
         /\ Freed(r, status).attempt = r.attempt
         /\ Freed(r, status).fencingToken = r.fencingToken
BY DEF Freed, Activity, ActivityStatus, SameIdentity

\* What a retryable failure does to a row: the counters are kept.
LEMMA RetryingRow ==
  ASSUME NEW r \in Activity, now \in Nat
  PROVE  /\ SameIdentity(r, Retrying(r))
         /\ Retrying(r).status = "retry_pending"
         /\ Retrying(r).attempt = r.attempt
         /\ Retrying(r).fencingToken = r.fencingToken
<1> DEFINE at == now + r.retryBackoff * r.attempt
<1>1. at \in Nat
  BY DEF Activity
<1>2. Retrying(r) = [Freed(r, "retry_pending") EXCEPT !.nextAttemptAt = at]
  BY DEF Retrying
<1> HIDE DEF at
<1> QED
  BY <1>1, <1>2 DEF Freed, Activity, ActivityStatus, SameIdentity

\* Replacing one row by an activity of the same workflow keeps the table typed.
LEMMA UpdateRowType ==
  ASSUME NEW S, NEW f \in [S -> Activity], NEW a \in S, NEW row \in Activity,
         row.workflow = f[a].workflow
  PROVE  /\ [f EXCEPT ![a] = row] \in [S -> Activity]
         /\ \A b \in S : [f EXCEPT ![a] = row][b].workflow = f[b].workflow
OBVIOUS

\* releaseReadyLocked keeps the activity table typed.
LEMMA ReleaseReadyType ==
  ASSUME NEW n \in Nat, NEW acts \in [1 .. n -> Activity], NEW w
  PROVE  /\ releaseReady(acts, w) \in [1 .. n -> Activity]
         /\ \A a \in 1 .. n : releaseReady(acts, w)[a].workflow = acts[a].workflow
         /\ Releasable(acts, w) \in SUBSET (1 .. n)
BY DEF releaseReady, Releasable, Activity, ActivityStatus

\* The three cases of the scheduler's switch exclude one another.
LEMMA SweptCases ==
  ASSUME TypeOK, NEW a \in ActivityIds
  PROVE  /\ Expired(a) /\ activities[a].attempt < activities[a].maxAttempts
              => Swept(a) = [row |-> Freed(activities[a], "ready"),
                             type |-> "activity.lease_expired"]
         /\ Expired(a) /\ ~(activities[a].attempt < activities[a].maxAttempts)
              => Swept(a) = [row |-> Freed(activities[a], "failed"),
                             type |-> "activity.lease_expired_failed"]
         /\ ~Expired(a) /\ Due(activities, a)
              => Swept(a) = [row |-> [activities[a] EXCEPT !.status = "ready"],
                             type |-> "activity.ready"]
<1>1. activities[a].attempt \in Nat /\ activities[a].maxAttempts \in Nat
  BY DEF TypeOK, Activity
<1>2. Expired(a) => ~Due(activities, a)
  BY DEF Expired, Due
<1> QED
  BY <1>1, <1>2 DEF Swept

\* What a scheduler pass makes of a row is again an activity of its workflow.
LEMMA SweptType ==
  ASSUME TypeOK, NEW a \in ActivityIds, Expired(a) \/ Due(activities, a)
  PROVE  /\ Swept(a).row \in Activity
         /\ Swept(a).row.workflow = activities[a].workflow
         /\ Swept(a).type \in EventTypes
<1>1. activities[a] \in Activity
  BY DEF TypeOK
<1>2. CASE Expired(a)
  BY <1>1, <1>2, SweptCases, FreedRow DEF EventTypes, ActivityStatus, SameIdentity
<1>3. CASE ~Expired(a)
  <2>1. Swept(a) = [row |-> [activities[a] EXCEPT !.status = "ready"], type |-> "activity.ready"]
    BY <1>3, SweptCases
  <2> QED
    BY <1>1, <2>1 DEF EventTypes, Activity, ActivityStatus
<1> QED
  BY <1>2, <1>3

-----------------------------------------------------------------------------
(* Type correctness, one lemma per operation.                              *)

\* appendEventLocked keeps the log typed.
LEMMA AppendEventType ==
  ASSUME TypeOK, NEW w \in Nat, NEW a \in Nat, NEW type \in EventTypes,
         appendEvent(w, a, type)
  PROVE  events' \subseteq Event /\ nextEvent' \in Nat
BY DEF TypeOK, appendEvent, EventAt, Event

\* A new workflow, its activities and its events are well typed.
LEMMA CreateType ==
  ASSUME TypeOK, NEW def \in Definitions, NEW key \in Keys,
         Create(def, key), UNCHANGED <<now, claims>>
  PROVE  TypeOK'
<1> DEFINE w     == nextWorkflow + 1
           n     == nextActivity
           len   == Len(def.activities)
           ids   == n + 1 .. n + len
           acts  == [a \in 1 .. n + len |->
                      IF a <= n THEN activities[a]
                      ELSE NewActivity(w, def.activities[a - n])]
           ready == Releasable(acts, w)
           after == nextEvent + 1 + len
<1>1. /\ def.namespace \in Namespaces /\ len \in Nat
      /\ \A i \in 1 .. len : def.activities[i] \in ActivityDefinition
  BY EngineAssumption DEF WorkflowDefinition
<1>2. w \in Nat /\ w > 0 /\ n \in Nat /\ now \in Nat /\ nextEvent \in Nat /\ n + len \in Nat
  BY <1>1 DEF TypeOK
<1> HIDE DEF len
<1>3. ASSUME NEW a \in 1 .. n + len
      PROVE  acts[a] \in Activity /\ acts[a].workflow \in 1 .. w
  <2>1. CASE a <= n
    BY <2>1, <1>2 DEF TypeOK, ActivityIds, WorkflowIds
  <2>2. CASE a > n
    <3>1. a - n \in 1 .. len
      BY <2>2, <1>1, <1>2
    <3>2. def.activities[a - n] \in ActivityDefinition
      BY <3>1, <1>1
    <3>3. /\ NewActivity(w, def.activities[a - n]) \in Activity
          /\ NewActivity(w, def.activities[a - n]).workflow = w
      BY <3>2, <1>2, NewActivityType
    <3>4. acts[a] = NewActivity(w, def.activities[a - n])
      BY <2>2, <1>2
    <3> QED
      BY <3>3, <3>4, <1>2
  <2> QED
    BY <2>1, <2>2, <1>2
<1>4. acts \in [1 .. n + len -> Activity]
  BY <1>3
<1>5. /\ releaseReady(acts, w) \in [1 .. n + len -> Activity]
      /\ \A a \in 1 .. n + len : releaseReady(acts, w)[a].workflow = acts[a].workflow
      /\ ready \in SUBSET (1 .. n + len)
  BY <1>2, <1>4, ReleaseReadyType
<1>6. /\ EventsInOrder(acts, [a \in ids |-> "activity.scheduled"], nextEvent + 1) \subseteq Event
      /\ EventsInOrder(acts, [a \in ready |-> "activity.ready"], after) \subseteq Event
  <2>1. \A a \in 1 .. n + len : acts[a].workflow \in Nat
    <3> HIDE DEF acts, w
    <3> QED
      BY <1>3, <1>2
  <2>2. ids \in SUBSET (1 .. n + len) /\ nextEvent + 1 \in Nat /\ after \in Nat
    BY <1>1, <1>2
  <2>3. /\ [a \in ids |-> "activity.scheduled"] \in [ids -> EventTypes]
        /\ [a \in ready |-> "activity.ready"] \in [ready -> EventTypes]
    BY DEF EventTypes
  <2> HIDE DEF acts, ids, ready, after
  <2> QED
    BY <1>2, <1>5, <2>1, <2>2, <2>3, EventsInOrderType
<1>7. Cardinality(ready) \in Nat
  BY <1>2, <1>5, IdsFinite
<1>8. EventAt(nextEvent + 1, w, 0, "workflow.started") \in Event
  BY <1>2 DEF EventAt, Event, EventTypes
<1>9. /\ nextWorkflow' = w /\ nextActivity' = n + len
      /\ workflows' = [v \in 1 .. w |->
                        IF v < w THEN workflows[v]
                        ELSE [namespace |-> def.namespace, key |-> key,
                              status |-> "running"]]
      /\ idempotency' = IF key = Empty THEN idempotency
                        ELSE [idempotency EXCEPT ![<<def.namespace, key>>] = w]
      /\ activities' = releaseReady(acts, w)
      /\ events' = events \cup {EventAt(nextEvent + 1, w, 0, "workflow.started")}
          \cup EventsInOrder(acts, [a \in ids |-> "activity.scheduled"], nextEvent + 1)
          \cup EventsInOrder(acts, [a \in ready |-> "activity.ready"], after)
      /\ nextEvent' = after + Cardinality(ready)
      /\ reply' = [op |-> "Start", err |-> "nil", id |-> w]
  BY DEF Create, Answer, len
<1> HIDE DEF acts, ids, ready
<1>10. workflows' \in [1 .. w -> Workflow]
  BY <1>9, <1>1, <1>2 DEF TypeOK, Workflow, WorkflowIds, WorkflowStatus
<1>11. idempotency' \in [Namespaces \X Keys -> {0} \cup 1 .. w]
  BY <1>9, <1>1, <1>2 DEF TypeOK, WorkflowIds
<1>12. claims' \subseteq [activity : 1 .. n + len, worker : Workers, token : Nat]
  BY <1>1, <1>2 DEF TypeOK, ActivityIds
<1>13. reply' \in Reply
  BY <1>9, <1>2 DEF Reply
<1>14. \A a \in 1 .. n + len : activities'[a].workflow \in 1 .. w
  BY <1>9, <1>5, <1>3
<1>15. now' \in Nat \ {0} /\ nextEvent' \in Nat /\ events' \subseteq Event
  BY <1>9, <1>1, <1>2, <1>6, <1>7, <1>8 DEF TypeOK
<1> QED
  BY <1>9, <1>1, <1>2, <1>5, <1>10, <1>11, <1>12, <1>13, <1>14, <1>15
     DEF TypeOK, WorkflowIds, ActivityIds

\* Claim preserves the types.
LEMMA ClaimType ==
  ASSUME TypeOK, NEW worker \in Workers, NEW queue \in TaskQueues, Claim(worker, queue)
  PROVE  TypeOK'
<1>1. CASE \A a \in ActivityIds : ~Claimable(a, queue)
  <2>1. reply' = [op |-> "Claim", err |-> "ErrNoRunnableActivity", id |-> 0]
    BY <1>1 DEF Claim, Answer
  <2>2. UNCHANGED <<now, store, claims>>
    BY <1>1 DEF Claim, store
  <2> QED
    BY <2>1, <2>2 DEF TypeOK, Reply, ActivityIds, WorkflowIds, store
<1>2. CASE \E a \in ActivityIds : Claimable(a, queue)
  <2>1. PICK a \in ActivityIds :
          /\ activities' = [activities EXCEPT ![a] = Leased(@, worker)]
          /\ claims' = claims \cup {[activity |-> a, worker |-> worker,
                                     token |-> activities[a].fencingToken + 1]}
          /\ appendEvent(activities[a].workflow, a, "activity.claimed")
          /\ Answer("Claim", "nil", a)
    BY <1>2 DEF Claim
  <2>2. activities[a] \in Activity /\ activities[a].workflow \in Nat /\ a \in Nat
    BY DEF TypeOK, ActivityIds, WorkflowIds
  <2>3. events' \subseteq Event /\ nextEvent' \in Nat
    BY <2>1, <2>2, AppendEventType DEF EventTypes
  <2>4. UNCHANGED <<now, nextWorkflow, nextActivity, workflows, idempotency>>
    BY <1>2 DEF Claim
  <2>5. /\ activities' \in [ActivityIds -> Activity]
        /\ \A b \in ActivityIds : activities'[b].workflow = activities[b].workflow
    BY <2>1, <2>2, LeasedRow, UpdateRowType DEF TypeOK, SameIdentity
  <2>6. claims' \subseteq [activity : ActivityIds, worker : Workers, token : Nat]
    BY <2>1, <2>2 DEF TypeOK, Activity
  <2>7. reply' \in Reply
    BY <2>1, <2>2 DEF Answer, Reply
  <2> QED
    BY <2>3, <2>4, <2>5, <2>6, <2>7 DEF TypeOK, ActivityIds, WorkflowIds
<1> QED
  BY <1>1, <1>2

\* A rejected worker call preserves the types.
LEMMA RejectedType ==
  ASSUME TypeOK, NEW op \in {"Heartbeat", "Complete", "Fail"}, NEW c \in claims,
         NEW stale \in EventTypes, Rejected(op, c, stale)
  PROVE  TypeOK'
<1>1. c.activity \in ActivityIds /\ c.activity \in Nat /\ activities[c.activity].workflow \in Nat
  BY DEF TypeOK, ActivityIds, WorkflowIds
<1>2. events' \subseteq Event /\ nextEvent' \in Nat
  BY <1>1, AppendEventType DEF Rejected, TypeOK
<1>3. reply' \in Reply
  BY <1>1 DEF Rejected, Answer, Reply
<1> QED
  BY <1>2, <1>3 DEF Rejected, TypeOK, ActivityIds, WorkflowIds

\* Heartbeat preserves the types.
LEMMA HeartbeatType ==
  ASSUME TypeOK, NEW c \in claims, Heartbeat(c)
  PROVE  TypeOK'
<1>1. CASE Rejected("Heartbeat", c, "activity.stale_heartbeat_rejected")
  BY <1>1, RejectedType DEF EventTypes
<1>2. CASE ~Rejected("Heartbeat", c, "activity.stale_heartbeat_rejected")
  <2>1. /\ activities' = [activities EXCEPT ![c.activity].leaseExpiresAt = now + leaseTTL]
        /\ appendEvent(activities[c.activity].workflow, c.activity, "activity.heartbeat")
        /\ Answer("Heartbeat", "nil", c.activity)
        /\ UNCHANGED <<now, nextWorkflow, nextActivity, workflows, idempotency, claims>>
    BY <1>2 DEF Heartbeat
  <2>2. /\ c.activity \in ActivityIds /\ c.activity \in Nat
        /\ activities[c.activity].workflow \in Nat
    BY DEF TypeOK, ActivityIds, WorkflowIds
  <2>3. events' \subseteq Event /\ nextEvent' \in Nat
    BY <2>1, <2>2, AppendEventType DEF EventTypes
  <2>4. /\ activities' \in [ActivityIds -> Activity]
        /\ \A b \in ActivityIds : activities'[b].workflow = activities[b].workflow
    BY <2>1, <2>2, leaseTTLPositive DEF TypeOK, Activity
  <2>5. reply' \in Reply
    BY <2>1, <2>2 DEF Answer, Reply
  <2> QED
    BY <2>1, <2>3, <2>4, <2>5 DEF TypeOK, ActivityIds, WorkflowIds
<1> QED
  BY <1>1, <1>2

\* The accepted branch of Complete, with its local definitions as parameters.
LEMMA CompleteType ==
  ASSUME TypeOK, NEW c \in claims, Complete(c)
  PROVE  TypeOK'
<1>1. CASE Rejected("Complete", c, "activity.stale_completion_rejected")
  BY <1>1, RejectedType DEF EventTypes
<1>2. CASE ~Rejected("Complete", c, "activity.stale_completion_rejected")
  <2> DEFINE a     == c.activity
             w     == activities[a].workflow
             acts  == [activities EXCEPT ![a] = Freed(@, "completed")]
             ready == Releasable(acts, w)
             done  == WorkflowDone(releaseReady(acts, w), w)
             after == nextEvent + 1 + Cardinality(ready)
             batch == EventsInOrder(acts, [b \in ready |-> "activity.ready"], nextEvent + 1)
  <2>1. /\ activities' = releaseReady(acts, w)
        /\ workflows' = IF done THEN [workflows EXCEPT ![w].status = "completed"]
                        ELSE workflows
        /\ events' = events \cup {EventAt(nextEvent + 1, w, a, "activity.completed")} \cup batch
             \cup (IF done THEN {EventAt(after + 1, w, 0, "workflow.completed")} ELSE {})
        /\ nextEvent' = IF done THEN after + 1 ELSE after
        /\ Answer("Complete", "nil", a)
        /\ UNCHANGED <<now, nextWorkflow, nextActivity, idempotency, claims>>
    BY <1>2 DEF Complete
  <2>2. /\ a \in ActivityIds /\ a \in Nat /\ w \in WorkflowIds /\ w \in Nat
        /\ nextEvent \in Nat /\ nextActivity \in Nat
    BY DEF TypeOK, ActivityIds, WorkflowIds
  <2>3. /\ acts \in [ActivityIds -> Activity]
        /\ \A b \in ActivityIds : acts[b].workflow = activities[b].workflow
    <3>1. activities \in [ActivityIds -> Activity] /\ "completed" \in ActivityStatus
      BY DEF TypeOK, ActivityStatus
    <3> QED
      BY <2>2, <3>1, FreedRow, UpdateRowType DEF SameIdentity
  <2> HIDE DEF a, w, acts
  <2>4. /\ releaseReady(acts, w) \in [ActivityIds -> Activity]
        /\ \A b \in ActivityIds : releaseReady(acts, w)[b].workflow = acts[b].workflow
        /\ ready \in SUBSET ActivityIds
    <3>1. nextActivity \in Nat /\ acts \in [1 .. nextActivity -> Activity]
      BY <2>2, <2>3 DEF ActivityIds
    <3> QED
      BY <3>1, ReleaseReadyType DEF ActivityIds
  <2>5. batch \subseteq Event /\ Cardinality(ready) \in Nat
    <3>1. [b \in ready |-> "activity.ready"] \in [ready -> EventTypes]
      BY DEF EventTypes
    <3>2. \A b \in ready : acts[b].workflow \in Nat
      <4> HIDE DEF ready
      <4>1. \A b \in ActivityIds : activities[b].workflow \in Nat
        BY DEF TypeOK, WorkflowIds
      <4> QED
        BY <2>3, <2>4, <4>1
    <3>3. nextEvent + 1 \in Nat
      BY <2>2
    <3> HIDE DEF ready
    <3> QED
      BY <2>4, <3>1, <3>2, <3>3, BatchType
  <2>6. after \in Nat
    BY <2>2, <2>5
  <2> HIDE DEF ready, done, batch, after
  <2>7. workflows' \in [WorkflowIds -> Workflow]
    BY <2>1, <2>2 DEF TypeOK, Workflow, WorkflowStatus
  <2>8. events' \subseteq Event /\ nextEvent' \in Nat
    BY <2>1, <2>2, <2>5, <2>6 DEF TypeOK, EventAt, Event, EventTypes
  <2>9. reply' \in Reply
    BY <2>1, <2>2 DEF Answer, Reply
  <2> QED
    BY <2>1, <2>3, <2>4, <2>7, <2>8, <2>9 DEF TypeOK, ActivityIds, WorkflowIds
<1> QED
  BY <1>1, <1>2

\* Fail preserves the types, retried or not.
LEMMA FailType ==
  ASSUME TypeOK, NEW c \in claims, NEW retryable \in BOOLEAN, Fail(c, retryable)
  PROVE  TypeOK'
<1>1. CASE Rejected("Fail", c, "activity.stale_failure_rejected")
  BY <1>1, RejectedType DEF EventTypes
<1>2. CASE ~Rejected("Fail", c, "activity.stale_failure_rejected")
  <2> DEFINE a == c.activity
             w == activities[a].workflow
  <2>1. /\ Answer("Fail", "nil", a)
        /\ UNCHANGED <<now, nextWorkflow, nextActivity, idempotency, claims>>
    BY <1>2 DEF Fail
  <2>2. /\ a \in ActivityIds /\ a \in Nat /\ w \in WorkflowIds /\ w \in Nat
        /\ nextEvent \in Nat
    BY DEF TypeOK, ActivityIds, WorkflowIds
  <2>3. reply' \in Reply
    BY <2>1, <2>2 DEF Answer, Reply
  <2>4. CASE retryable /\ activities[a].attempt < activities[a].maxAttempts
    <3>1. /\ activities' = [activities EXCEPT ![a] = Retrying(@)]
          /\ appendEvent(w, a, "activity.retry_scheduled")
          /\ UNCHANGED workflows
      BY <1>2, <2>4 DEF Fail
    <3>2. events' \subseteq Event /\ nextEvent' \in Nat
      BY <3>1, <2>2, AppendEventType DEF EventTypes
    <3>3. activities \in [ActivityIds -> Activity] /\ now \in Nat
      BY DEF TypeOK
    <3>4. /\ activities' \in [ActivityIds -> Activity]
          /\ \A b \in ActivityIds : activities'[b].workflow = activities[b].workflow
      BY <2>2, <3>1, <3>3, RetryingRow, UpdateRowType DEF SameIdentity
    <3> QED
      BY <2>1, <2>3, <3>1, <3>2, <3>4 DEF TypeOK, ActivityIds, WorkflowIds
  <2>5. CASE ~(retryable /\ activities[a].attempt < activities[a].maxAttempts)
    <3>1. /\ activities' = [activities EXCEPT ![a] = Freed(@, "failed")]
          /\ workflows' = [workflows EXCEPT ![w].status = "failed"]
          /\ events' = events \cup {EventAt(nextEvent + 1, w, a, "activity.failed"),
                                    EventAt(nextEvent + 2, w, 0, "workflow.failed")}
          /\ nextEvent' = nextEvent + 2
      BY <1>2, <2>5 DEF Fail
    <3> HIDE DEF a, w
    <3>2. events' \subseteq Event /\ nextEvent' \in Nat
      BY <3>1, <2>2 DEF TypeOK, EventAt, Event, EventTypes
    <3>3. /\ activities' \in [ActivityIds -> Activity]
          /\ \A b \in ActivityIds : activities'[b].workflow = activities[b].workflow
      <4>1. activities \in [ActivityIds -> Activity] /\ "failed" \in ActivityStatus
        BY DEF TypeOK, ActivityStatus
      <4> QED
        BY <2>2, <3>1, <4>1, FreedRow, UpdateRowType DEF SameIdentity
    <3>4. workflows' \in [WorkflowIds -> Workflow]
      BY <3>1, <2>2 DEF TypeOK, Workflow, WorkflowStatus
    <3> QED
      BY <2>1, <2>3, <3>2, <3>3, <3>4 DEF TypeOK, ActivityIds, WorkflowIds
  <2> QED
    BY <2>4, <2>5
<1> QED
  BY <1>1, <1>2

\* Cancel preserves the types.
LEMMA CancelType ==
  ASSUME TypeOK, NEW w \in WorkflowIds, Cancel(w)
  PROVE  TypeOK'
<1> DEFINE pending == Pending(w)
           after   == nextEvent + Cardinality(pending)
           batch   == EventsInOrder(activities, [a \in pending |-> "activity.cancelled"], nextEvent)
<1>1. w \in Nat /\ nextEvent \in Nat /\ UNCHANGED <<now, nextWorkflow, nextActivity, idempotency, claims>>
  BY DEF TypeOK, WorkflowIds, Cancel
<1>2. CASE workflows[w].status # "running"
  BY <1>1, <1>2 DEF Cancel, TypeOK, Answer, Reply, ActivityIds, WorkflowIds
<1>3. CASE workflows[w].status = "running"
  <2>1. /\ workflows' = [workflows EXCEPT ![w].status = "cancelled"]
        /\ activities' = [a \in ActivityIds |->
             IF a \in pending THEN [activities[a] EXCEPT !.status = "cancelled"]
             ELSE activities[a]]
        /\ events' = events \cup batch \cup {EventAt(after + 1, w, 0, "workflow.cancelled")}
        /\ nextEvent' = after + 1
        /\ Answer("Cancel", "nil", w)
    BY <1>3 DEF Cancel
  <2>2. batch \subseteq Event /\ Cardinality(pending) \in Nat
    <3>1. [a \in pending |-> "activity.cancelled"] \in [pending -> EventTypes]
      BY DEF EventTypes
    <3>2. pending \in SUBSET ActivityIds /\ \A a \in pending : activities[a].workflow \in Nat
      BY DEF TypeOK, WorkflowIds, Pending
    <3> HIDE DEF pending
    <3> QED
      BY <1>1, <3>1, <3>2, BatchType
  <2> HIDE DEF pending, batch
  <2>3. events' \subseteq Event /\ nextEvent' \in Nat
    BY <1>1, <2>1, <2>2 DEF TypeOK, EventAt, Event, EventTypes
  <2>4. /\ activities' \in [ActivityIds -> Activity]
        /\ \A b \in ActivityIds : activities'[b].workflow = activities[b].workflow
    BY <2>1 DEF TypeOK, Activity, ActivityStatus
  <2>5. workflows' \in [WorkflowIds -> Workflow]
    BY <2>1 DEF TypeOK, Workflow, WorkflowStatus
  <2>6. reply' \in Reply
    BY <1>1, <2>1 DEF Answer, Reply
  <2> QED
    BY <1>1, <2>3, <2>4, <2>5, <2>6 DEF TypeOK, ActivityIds, WorkflowIds
<1> QED
  BY <1>2, <1>3

\* A scheduler pass preserves the types.
LEMMA RunSchedulerPassType ==
  ASSUME TypeOK, RunSchedulerPass
  PROVE  TypeOK'
<1> DEFINE changed == {a \in ActivityIds : Expired(a) \/ Due(activities, a)}
           failing == {a \in changed : Swept(a).type = "activity.lease_expired_failed"}
           types   == [a \in changed |-> Swept(a).type]
<1>1. /\ activities' = [a \in ActivityIds |->
          IF a \in changed THEN Swept(a).row ELSE activities[a]]
      /\ workflows' = [w \in WorkflowIds |->
          IF \E a \in failing : activities[a].workflow = w
          THEN [workflows[w] EXCEPT !.status = "failed"] ELSE workflows[w]]
      /\ events' = events \cup EventsInOrder(activities, types, nextEvent)
      /\ nextEvent' = nextEvent + Cardinality(changed)
      /\ Answer("RunSchedulerPass", "nil", Cardinality(changed))
      /\ UNCHANGED <<now, nextWorkflow, nextActivity, idempotency, claims>>
  BY DEF RunSchedulerPass
<1>2. \A a \in changed : /\ Swept(a).row \in Activity
                         /\ Swept(a).row.workflow = activities[a].workflow
                         /\ Swept(a).type \in EventTypes
  BY SweptType
<1>3. types \in [changed -> EventTypes] /\ changed \in SUBSET ActivityIds
  BY <1>2
<1>4. nextEvent \in Nat /\ \A a \in changed : activities[a].workflow \in Nat
  BY DEF TypeOK, WorkflowIds
<1> HIDE DEF changed, failing, types
<1>5. EventsInOrder(activities, types, nextEvent) \subseteq Event /\ Cardinality(changed) \in Nat
  BY <1>3, <1>4, BatchType
<1>6. events' \subseteq Event /\ nextEvent' \in Nat /\ reply' \in Reply
  BY <1>1, <1>4, <1>5 DEF TypeOK, Answer, Reply
<1>7. /\ activities' \in [ActivityIds -> Activity]
      /\ \A b \in ActivityIds : activities'[b].workflow = activities[b].workflow
  BY <1>1, <1>2 DEF TypeOK
<1>8. workflows' \in [WorkflowIds -> Workflow]
  BY <1>1 DEF TypeOK, Workflow, WorkflowStatus
<1> QED
  BY <1>1, <1>6, <1>7, <1>8 DEF TypeOK, ActivityIds, WorkflowIds

\* Start preserves the types, on a new key, a replay or an error.
LEMMA StartType ==
  ASSUME TypeOK, NEW def \in Definitions, NEW key \in Keys, Start(def, key)
  PROVE  TypeOK'
<1>1. CASE Create(def, key)
  BY <1>1, CreateType DEF Start
<1>2. CASE ~Create(def, key)
  <2>1. UNCHANGED <<now, store, claims>>
    BY <1>2 DEF Start
  <2>2. reply' \in Reply
    <3>1. def.namespace \in Namespaces
      BY EngineAssumption DEF WorkflowDefinition
    <3>2. key # Empty => idempotency[<<def.namespace, key>>] \in Nat
      BY <3>1 DEF TypeOK, WorkflowIds
    <3> QED
      BY <1>2, <3>2 DEF Start, ExistingWorkflow, Answer, Reply
  <2> QED
    BY <2>1, <2>2 DEF TypeOK, store, ActivityIds, WorkflowIds
<1> QED
  BY <1>1, <1>2

\* An empty engine is well typed.
LEMMA InitType == Init => TypeOK
BY DEF Init, TypeOK, WorkflowIds, ActivityIds, Reply

\* Every step of the engine preserves the types.
LEMMA NextType == TypeOK /\ [Next]_vars => TypeOK'
<1> SUFFICES ASSUME TypeOK, [Next]_vars PROVE TypeOK'
  OBVIOUS
<1>1. ASSUME NEW def \in Definitions, NEW key \in Keys, Start(def, key) PROVE TypeOK'
  BY <1>1, StartType
<1>2. ASSUME NEW worker \in Workers, NEW queue \in TaskQueues, Claim(worker, queue) PROVE TypeOK'
  BY <1>2, ClaimType
<1>3. ASSUME NEW c \in claims, Heartbeat(c) PROVE TypeOK'
  BY <1>3, HeartbeatType
<1>4. ASSUME NEW c \in claims, Complete(c) PROVE TypeOK'
  BY <1>4, CompleteType
<1>5. ASSUME NEW c \in claims, NEW retryable \in BOOLEAN, Fail(c, retryable) PROVE TypeOK'
  BY <1>5, FailType
<1>6. ASSUME NEW w \in WorkflowIds, Cancel(w) PROVE TypeOK'
  BY <1>6, CancelType
<1>7. CASE RunSchedulerPass
  BY <1>7, RunSchedulerPassType
<1>8. CASE Tick
  BY <1>8 DEF Tick, TypeOK, store, ActivityIds, WorkflowIds
<1>9. CASE UNCHANGED vars
  BY <1>9 DEF vars, store, TypeOK, ActivityIds, WorkflowIds
<1> QED
  BY <1>1, <1>2, <1>3, <1>4, <1>5, <1>6, <1>7, <1>8, <1>9 DEF Next

\* Every reachable state of the engine has the types of its Go structs, with
\* dense ids and no activity without its workflow.
THEOREM TypeCorrect == Spec => []TypeOK
BY InitType, NextType, PTL DEF Spec

-----------------------------------------------------------------------------
(* What one step may do to one activity row r, giving s: the lifecycle of  *)
(* an activity.  Every invariant about activities follows from it.         *)

SameCounters(r, s) == s.attempt = r.attempt /\ s.fencingToken = r.fencingToken

Claimed(a, r, s) ==
  /\ r.status = "ready" /\ s.status = "running"
  /\ s.attempt = r.attempt + 1 /\ s.fencingToken = r.fencingToken + 1
  /\ s.leaseOwner \in Workers /\ s.leaseExpiresAt > 0 /\ s.leaseExpiresAt = now + leaseTTL
  /\ claims' = claims \cup {[activity |-> a, worker |-> s.leaseOwner, token |-> s.fencingToken]}

Renewed(r, s) ==
  /\ r.status = "running" /\ s.status = "running" /\ SameCounters(r, s)
  /\ s.leaseOwner = r.leaseOwner
  /\ s.leaseExpiresAt > 0 /\ s.leaseExpiresAt = now + leaseTTL

Settled(r, s) ==
  /\ r.status = "running" /\ s.status \in {"completed", "failed"} /\ SameCounters(r, s)

Requeued(r, s) ==
  /\ r.status = "running" /\ s.status \in {"ready", "retry_pending"} /\ SameCounters(r, s)
  /\ r.attempt < r.maxAttempts

Promoted(a, r, s) ==
  /\ r.status = "retry_pending" /\ s.status = "ready" /\ SameCounters(r, s)
  /\ dependenciesComplete(activities', a)

Dropped(r, s) ==
  /\ r.status \in {"ready", "retry_pending"} /\ s.status = "cancelled" /\ SameCounters(r, s)

RowStep(a, r, s) ==
  /\ SameIdentity(r, s)
  /\ \/ s = r
     \/ Claimed(a, r, s)
     \/ claims' = claims /\ (\/ Renewed(r, s) \/ Settled(r, s) \/ Requeued(r, s)
                             \/ Promoted(a, r, s) \/ Dropped(r, s))

\* A row that Start has just created.
FreshRow(a) ==
  /\ activities'[a].workflow = nextWorkflow + 1
  /\ activities'[a].attempt = 0 /\ activities'[a].fencingToken = 0
  /\ activities'[a].maxAttempts > 0
  /\ activities'[a].status \in {"ready", "retry_pending"}
  /\ activities'[a].status = "ready" => dependenciesComplete(activities', a)

\* At most one claim is handed out per step, for the row it leases.
ClaimStep ==
  \/ claims' = claims
  \/ \E a \in ActivityIds : Claimed(a, activities[a], activities'[a])

StepRows ==
  /\ nextActivity' \in Nat /\ nextActivity <= nextActivity'
  /\ \A a \in ActivityIds : RowStep(a, activities[a], activities'[a])
  /\ \A a \in ActivityIds' \ ActivityIds : FreshRow(a)
  /\ ClaimStep

\* A step that leaves activities and claims alone is a lifecycle step.
LEMMA SameRows ==
  ASSUME TypeOK, UNCHANGED <<nextActivity, activities, claims>>
  PROVE  StepRows
BY DEF StepRows, RowStep, ClaimStep, SameIdentity, TypeOK, ActivityIds

\* Only row a changes.
LEMMA OneRow ==
  ASSUME TypeOK, NEW a \in ActivityIds, NEW row, activities' = [activities EXCEPT ![a] = row],
         UNCHANGED nextActivity, RowStep(a, activities[a], row),
         claims' = claims \/ Claimed(a, activities[a], row)
  PROVE  StepRows
<1>1. /\ activities'[a] = row
      /\ \A b \in ActivityIds : b # a => activities'[b] = activities[b]
  BY DEF TypeOK
<1>2. \A b \in ActivityIds : activities[b] \in Activity
  BY DEF TypeOK
<1>3. \A b \in ActivityIds : RowStep(b, activities[b], activities'[b])
  BY <1>1, <1>2 DEF RowStep, SameIdentity
<1>4. ClaimStep
  BY <1>1 DEF ClaimStep
<1> QED
  BY <1>3, <1>4 DEF StepRows, ActivityIds, TypeOK

\* Claim moves one row along the lifecycle and hands out its token.
LEMMA ClaimRows ==
  ASSUME TypeOK, NEW worker \in Workers, NEW queue \in TaskQueues, Claim(worker, queue)
  PROVE  StepRows
<1>1. CASE UNCHANGED <<activities, claims>>
  BY <1>1, SameRows DEF Claim
<1>2. CASE ~UNCHANGED <<activities, claims>>
  <2>1. PICK a \in ActivityIds :
          /\ Claimable(a, queue)
          /\ activities' = [activities EXCEPT ![a] = Leased(@, worker)]
          /\ claims' = claims \cup {[activity |-> a, worker |-> worker,
                                     token |-> activities[a].fencingToken + 1]}
    BY <1>2 DEF Claim
  <2>2. UNCHANGED nextActivity
    BY DEF Claim
  <2>3. activities[a] \in Activity /\ now \in Nat
    BY DEF TypeOK
  <2> DEFINE row == Leased(activities[a], worker)
  <2>4. /\ SameIdentity(activities[a], row) /\ row.status = "running" /\ row.leaseOwner = worker
        /\ row.attempt = activities[a].attempt + 1
        /\ row.fencingToken = activities[a].fencingToken + 1
        /\ row.leaseExpiresAt = now + leaseTTL
    BY <2>3, LeasedRow
  <2>5. activities' = [activities EXCEPT ![a] = row]
    BY <2>1
  <2> HIDE DEF row
  <2>6. Claimed(a, activities[a], row)
    BY <2>1, <2>3, <2>4, leaseTTLPositive DEF Claimed, Claimable
  <2> QED
    BY <2>2, <2>4, <2>5, <2>6, OneRow DEF RowStep
<1> QED
  BY <1>1, <1>2

\* A rejected call moves no row.
LEMMA RejectedRows ==
  ASSUME TypeOK, NEW op, NEW c \in claims, NEW stale, Rejected(op, c, stale)
  PROVE  StepRows
BY SameRows DEF Rejected

\* A heartbeat moves only the deadline of a running row.
LEMMA HeartbeatRows ==
  ASSUME TypeOK, NEW c \in claims, Heartbeat(c)
  PROVE  StepRows
<1>1. CASE Rejected("Heartbeat", c, "activity.stale_heartbeat_rejected")
  BY <1>1, RejectedRows
<1>2. CASE ~Rejected("Heartbeat", c, "activity.stale_heartbeat_rejected")
  <2> DEFINE a   == c.activity
             row == [activities[a] EXCEPT !.leaseExpiresAt = now + leaseTTL]
  <2>1. /\ activities[a].status = "running"
        /\ activities' = [activities EXCEPT ![a].leaseExpiresAt = now + leaseTTL]
        /\ UNCHANGED <<nextActivity, claims>>
    BY <1>2 DEF Heartbeat, currentLease
  <2>2. a \in ActivityIds /\ activities[a] \in Activity /\ now \in Nat
    BY DEF TypeOK
  <2>3. activities' = [activities EXCEPT ![a] = row]
    BY <2>1
  <2>4. /\ SameIdentity(activities[a], row) /\ SameCounters(activities[a], row)
        /\ row.status = activities[a].status /\ row.leaseOwner = activities[a].leaseOwner
        /\ row.leaseExpiresAt = now + leaseTTL
    BY <2>2, leaseTTLPositive DEF Activity, SameIdentity, SameCounters
  <2> HIDE DEF row, a
  <2>5. Renewed(activities[a], row)
    BY <2>1, <2>2, <2>4, leaseTTLPositive DEF Renewed
  <2> QED
    BY <2>1, <2>2, <2>3, <2>4, <2>5, OneRow DEF RowStep
<1> QED
  BY <1>1, <1>2

\* Fail moves one running row to retry_pending or failed.
LEMMA FailRows ==
  ASSUME TypeOK, NEW c \in claims, NEW retryable \in BOOLEAN, Fail(c, retryable)
  PROVE  StepRows
<1>1. CASE Rejected("Fail", c, "activity.stale_failure_rejected")
  BY <1>1, RejectedRows
<1>2. CASE ~Rejected("Fail", c, "activity.stale_failure_rejected")
  <2> DEFINE a == c.activity
  <2>1. activities[a].status = "running" /\ UNCHANGED <<nextActivity, claims>>
    BY <1>2 DEF Fail, currentLease
  <2>2. a \in ActivityIds /\ activities[a] \in Activity /\ now \in Nat
    BY DEF TypeOK
  <2>3. CASE /\ activities' = [activities EXCEPT ![a] = Retrying(@)]
             /\ activities[a].attempt < activities[a].maxAttempts
    <3>1. Requeued(activities[a], Retrying(activities[a]))
      BY <2>1, <2>2, <2>3, RetryingRow DEF Requeued, SameCounters
    <3> QED
      BY <2>1, <2>2, <2>3, <3>1, RetryingRow, OneRow DEF RowStep
  <2>4. CASE activities' = [activities EXCEPT ![a] = Freed(@, "failed")]
    <3>1. "failed" \in ActivityStatus
      BY DEF ActivityStatus
    <3>2. Settled(activities[a], Freed(activities[a], "failed"))
      BY <2>1, <2>2, <3>1, FreedRow DEF Settled, SameCounters
    <3>3. SameIdentity(activities[a], Freed(activities[a], "failed"))
      BY <2>2, <3>1, FreedRow
    <3>4. RowStep(a, activities[a], Freed(activities[a], "failed"))
      BY <2>1, <3>2, <3>3 DEF RowStep
    <3> QED
      BY <2>1, <2>2, <2>4, <3>4, OneRow
  <2> QED
    BY <1>2, <2>3, <2>4 DEF Fail
<1> QED
  BY <1>1, <1>2

\* releaseReady promotes rows whose dependencies are complete, and leaves
\* every completed row, and so every other judgement of that kind, alone.
LEMMA ReleaseReadyRows ==
  ASSUME NEW n \in Nat, NEW acts \in [1 .. n -> Activity], NEW w, NEW a \in 1 .. n
  PROVE  LET s == releaseReady(acts, w)[a]
         IN \/ s = acts[a]
            \/ /\ SameIdentity(acts[a], s) /\ SameCounters(acts[a], s)
               /\ acts[a].status = "retry_pending" /\ s.status = "ready"
               /\ dependenciesComplete(acts, a)
<1>1. CASE a \notin Releasable(acts, w)
  BY <1>1 DEF releaseReady
<1>2. CASE a \in Releasable(acts, w)
  <2>1. /\ releaseReady(acts, w)[a] = [acts[a] EXCEPT !.status = "ready"]
        /\ acts[a].status = "retry_pending" /\ dependenciesComplete(acts, a)
        /\ acts[a] \in Activity
    BY <1>2 DEF releaseReady, Releasable, Due
  <2> QED
    BY <2>1 DEF SameIdentity, SameCounters, Activity, ActivityStatus
<1> QED
  BY <1>1, <1>2

\* Dependencies once complete stay complete while completed rows stay
\* completed and new rows join other workflows only.
LEMMA DependenciesStayComplete ==
  ASSUME NEW n \in Nat, NEW m \in Nat, n <= m,
         NEW acts \in [1 .. n -> Activity], NEW next \in [1 .. m -> Activity],
         NEW a \in 1 .. n, dependenciesComplete(acts, a),
         \A b \in 1 .. n : /\ SameIdentity(acts[b], next[b])
                           /\ acts[b].status = "completed" => next[b].status = "completed",
         \A b \in (1 .. m) \ (1 .. n) : next[b].workflow # acts[a].workflow
  PROVE  dependenciesComplete(next, a)
<1>1. DOMAIN acts = 1 .. n /\ DOMAIN next = 1 .. m /\ 1 .. n \subseteq 1 .. m
  OBVIOUS
<1>2. SUFFICES ASSUME NEW d \in acts[a].dependsOn
               PROVE  /\ \E b \in 1 .. m : next[b].workflow = acts[a].workflow /\ next[b].name = d
                      /\ \A b \in 1 .. m :
                           next[b].workflow = acts[a].workflow /\ next[b].name = d
                             => next[b].status = "completed"
  BY <1>1 DEF dependenciesComplete, SameIdentity
<1>3. /\ \E b \in 1 .. n : acts[b].workflow = acts[a].workflow /\ acts[b].name = d
      /\ \A b \in 1 .. n : acts[b].workflow = acts[a].workflow /\ acts[b].name = d
           => acts[b].status = "completed"
  BY <1>1 DEF dependenciesComplete
<1> QED
  BY <1>1, <1>3 DEF SameIdentity

\* Complete settles one running row and releases due ones.
LEMMA CompleteRows ==
  ASSUME TypeOK, NEW c \in claims, Complete(c)
  PROVE  StepRows
<1>1. CASE Rejected("Complete", c, "activity.stale_completion_rejected")
  BY <1>1, RejectedRows
<1>2. CASE ~Rejected("Complete", c, "activity.stale_completion_rejected")
  <2> DEFINE a    == c.activity
             w    == activities[a].workflow
             row  == Freed(activities[a], "completed")
             acts == [activities EXCEPT ![a] = row]
  <2>1. /\ activities[a].status = "running" /\ UNCHANGED <<nextActivity, claims>>
        /\ activities' = releaseReady(acts, w)
    BY <1>2 DEF Complete, currentLease
  <2>2. /\ a \in ActivityIds /\ activities[a] \in Activity /\ nextActivity \in Nat
        /\ activities \in [ActivityIds -> Activity] /\ "completed" \in ActivityStatus
    BY DEF TypeOK, ActivityStatus
  <2>3. /\ SameIdentity(activities[a], row) /\ row \in Activity
        /\ SameCounters(activities[a], row) /\ row.status = "completed"
    BY <2>2, FreedRow DEF SameCounters, SameIdentity
  <2> HIDE DEF row, a
  <2>4. /\ acts \in [1 .. nextActivity -> Activity]
        /\ acts[a] = row /\ \A b \in ActivityIds : b # a => acts[b] = activities[b]
    BY <2>2, <2>3 DEF ActivityIds
  <2> HIDE DEF acts, w
  <2>5. ASSUME NEW b \in ActivityIds
        PROVE  \/ activities'[b] = acts[b]
               \/ /\ SameIdentity(acts[b], activities'[b]) /\ SameCounters(acts[b], activities'[b])
                  /\ acts[b].status = "retry_pending" /\ activities'[b].status = "ready"
                  /\ dependenciesComplete(acts, b)
    <3>1. b \in 1 .. nextActivity
      BY DEF ActivityIds
    <3> QED
      BY <2>1, <2>2, <2>4, <3>1, ReleaseReadyRows
  <2>6. activities' \in [1 .. nextActivity -> Activity]
    BY <2>1, <2>2, <2>4, ReleaseReadyType
  <2>7. ASSUME NEW b \in ActivityIds, dependenciesComplete(acts, b)
        PROVE  dependenciesComplete(activities', b)
    <3>1. \A d \in 1 .. nextActivity :
            /\ SameIdentity(acts[d], activities'[d])
            /\ acts[d].status = "completed" => activities'[d].status = "completed"
      BY <2>4, <2>5 DEF SameIdentity, ActivityIds
    <3>2. b \in 1 .. nextActivity /\ nextActivity <= nextActivity
      BY <2>2 DEF ActivityIds
    <3>3. \A d \in (1 .. nextActivity) \ (1 .. nextActivity) : activities'[d].workflow # acts[b].workflow
      OBVIOUS
    <3> QED
      BY <2>2, <2>4, <2>6, <2>7, <3>1, <3>2, <3>3, DependenciesStayComplete
  <2>8. ASSUME NEW b \in ActivityIds
        PROVE  RowStep(b, activities[b], activities'[b])
    <3>1. CASE b = a
      BY <2>1, <2>3, <2>4, <2>5, <3>1 DEF RowStep, Settled
    <3>2. CASE b # a /\ activities'[b] = acts[b]
      BY <2>2, <2>4, <3>2 DEF RowStep, SameIdentity
    <3>3. CASE b # a /\ activities'[b] # acts[b]
      BY <2>1, <2>4, <2>5, <2>7, <3>3 DEF RowStep, Promoted
    <3> QED
      BY <3>1, <3>2, <3>3
  <2> QED
    BY <2>1, <2>2, <2>8 DEF StepRows, ClaimStep, ActivityIds
<1> QED
  BY <1>1, <1>2

\* Cancel settles pending rows only.
LEMMA CancelRows ==
  ASSUME TypeOK, NEW w \in WorkflowIds, Cancel(w)
  PROVE  StepRows
<1>1. UNCHANGED <<nextActivity, claims>>
  BY DEF Cancel
<1>2. CASE activities' = activities
  BY <1>1, <1>2, SameRows
<1>3. CASE activities' # activities
  <2>1. ASSUME NEW a \in ActivityIds
        PROVE  \/ activities'[a] = activities[a]
               \/ /\ activities[a].status \in {"ready", "retry_pending"}
                  /\ activities'[a] = [activities[a] EXCEPT !.status = "cancelled"]
    BY <1>3 DEF Cancel, Pending
  <2>2. ASSUME NEW a \in ActivityIds
        PROVE  RowStep(a, activities[a], activities'[a])
    <3>1. activities[a] \in Activity
      BY DEF TypeOK
    <3>2. CASE activities'[a] = activities[a]
      BY <3>1, <3>2 DEF RowStep, SameIdentity
    <3>3. CASE activities'[a] # activities[a]
      <4> DEFINE s == [activities[a] EXCEPT !.status = "cancelled"]
      <4>1. SameIdentity(activities[a], s) /\ SameCounters(activities[a], s) /\ s.status = "cancelled"
        BY <3>1 DEF Activity, ActivityStatus, SameIdentity, SameCounters
      <4> HIDE DEF s
      <4>2. activities'[a] = s /\ activities[a].status \in {"ready", "retry_pending"}
        BY <2>1, <3>3 DEF s
      <4> QED
        BY <1>1, <4>1, <4>2 DEF RowStep, Dropped
    <3> QED
      BY <3>2, <3>3
  <2> QED
    BY <1>1, <2>2 DEF StepRows, ClaimStep, ActivityIds, TypeOK
<1> QED
  BY <1>2, <1>3

\* A scheduler pass frees expired rows and releases due ones.
LEMMA RunSchedulerPassRows ==
  ASSUME TypeOK, RunSchedulerPass
  PROVE  StepRows
<1>1. /\ UNCHANGED <<nextActivity, claims>> /\ nextActivity \in Nat
      /\ activities \in [ActivityIds -> Activity]
  BY DEF RunSchedulerPass, TypeOK
<1>2. ASSUME NEW a \in ActivityIds
      PROVE  activities'[a] = IF Expired(a) \/ Due(activities, a) THEN Swept(a).row
                              ELSE activities[a]
  BY DEF RunSchedulerPass
<1>3. ASSUME NEW a \in ActivityIds
      PROVE  /\ SameIdentity(activities[a], activities'[a])
             /\ \/ activities'[a] = activities[a]
                \/ Settled(activities[a], activities'[a]) /\ activities'[a].status = "failed"
                \/ Requeued(activities[a], activities'[a])
                \/ /\ activities[a].status = "retry_pending" /\ activities'[a].status = "ready"
                   /\ SameCounters(activities[a], activities'[a])
                   /\ dependenciesComplete(activities, a)
  <2>1. /\ activities[a] \in Activity
        /\ activities[a].attempt \in Nat /\ activities[a].maxAttempts \in Nat
    BY <1>1 DEF Activity
  <2>2. CASE Expired(a) /\ activities[a].attempt < activities[a].maxAttempts
    <3>1. activities'[a] = Freed(activities[a], "ready") /\ activities[a].status = "running"
      BY <1>2, <2>2, SweptCases DEF Expired
    <3>2. "ready" \in ActivityStatus
      BY DEF ActivityStatus
    <3>3. /\ SameIdentity(activities[a], activities'[a]) /\ activities'[a].status = "ready"
          /\ SameCounters(activities[a], activities'[a])
      BY <2>1, <3>1, <3>2, FreedRow DEF SameCounters
    <3> QED
      BY <2>2, <3>1, <3>3 DEF Requeued
  <2>3. CASE Expired(a) /\ ~(activities[a].attempt < activities[a].maxAttempts)
    <3>1. activities'[a] = Freed(activities[a], "failed") /\ activities[a].status = "running"
      BY <1>2, <2>3, SweptCases DEF Expired
    <3>2. "failed" \in ActivityStatus
      BY DEF ActivityStatus
    <3>3. /\ SameIdentity(activities[a], activities'[a]) /\ activities'[a].status = "failed"
          /\ SameCounters(activities[a], activities'[a])
      BY <2>1, <3>1, <3>2, FreedRow DEF SameCounters
    <3> QED
      BY <2>3, <3>1, <3>3 DEF Settled
  <2>4. CASE ~Expired(a) /\ Due(activities, a)
    <3>1. activities'[a] = [activities[a] EXCEPT !.status = "ready"]
      BY <1>2, <2>4, SweptCases
    <3>2. activities[a].status = "retry_pending" /\ dependenciesComplete(activities, a)
      BY <2>4 DEF Due
    <3>3. /\ SameIdentity(activities[a], activities'[a]) /\ activities'[a].status = "ready"
          /\ SameCounters(activities[a], activities'[a])
      BY <2>1, <3>1 DEF Activity, ActivityStatus, SameIdentity, SameCounters
    <3> QED
      BY <3>2, <3>3
  <2>5. CASE ~Expired(a) /\ ~Due(activities, a)
    BY <1>2, <2>1, <2>5 DEF SameIdentity
  <2> QED
    BY <2>1, <2>2, <2>3, <2>4, <2>5
<1>4. ASSUME NEW a \in ActivityIds, dependenciesComplete(activities, a)
      PROVE  dependenciesComplete(activities', a)
  <2>1. \A d \in 1 .. nextActivity :
          /\ SameIdentity(activities[d], activities'[d])
          /\ activities[d].status = "completed" => activities'[d].status = "completed"
    BY <1>3 DEF Settled, Requeued, ActivityIds
  <2>2. a \in 1 .. nextActivity /\ nextActivity <= nextActivity
    BY <1>1 DEF ActivityIds
  <2>3. \A d \in (1 .. nextActivity) \ (1 .. nextActivity) :
          activities'[d].workflow # activities[a].workflow
    OBVIOUS
  <2>4. activities' \in [1 .. nextActivity -> Activity] /\ activities \in [1 .. nextActivity -> Activity]
    BY <1>1, RunSchedulerPassType DEF TypeOK, ActivityIds
  <2> QED
    BY <1>1, <1>4, <2>1, <2>2, <2>3, <2>4, DependenciesStayComplete
<1>5. ASSUME NEW a \in ActivityIds
      PROVE  RowStep(a, activities[a], activities'[a])
  BY <1>1, <1>3, <1>4 DEF RowStep, Promoted
<1> QED
  BY <1>1, <1>5 DEF StepRows, ClaimStep, ActivityIds

\* A new workflow adds unclaimed rows and moves no existing one.
LEMMA CreateRows ==
  ASSUME TypeOK, NEW def \in Definitions, NEW key \in Keys,
         Create(def, key), UNCHANGED <<now, claims>>
  PROVE  StepRows
<1> DEFINE w    == nextWorkflow + 1
           n    == nextActivity
           len  == Len(def.activities)
           acts == [a \in 1 .. n + len |->
                      IF a <= n THEN activities[a]
                      ELSE NewActivity(w, def.activities[a - n])]
<1>1. len \in Nat /\ \A i \in 1 .. len : def.activities[i] \in ActivityDefinition
  BY EngineAssumption DEF WorkflowDefinition
<1>2. /\ w \in Nat /\ n \in Nat /\ now \in Nat /\ n + len \in Nat /\ n <= n + len
      /\ activities \in [1 .. n -> Activity]
      /\ \A a \in 1 .. n : activities[a].workflow < w
  BY <1>1 DEF TypeOK, ActivityIds, WorkflowIds
<1>3. nextActivity' = n + len /\ activities' = releaseReady(acts, w)
  BY DEF Create
<1> HIDE DEF len
<1>4. ASSUME NEW a \in 1 .. n PROVE acts[a] = activities[a]
  BY <1>2
<1>5. ASSUME NEW a \in (1 .. n + len) \ (1 .. n)
      PROVE  /\ acts[a] \in Activity /\ acts[a].workflow = w
             /\ acts[a].attempt = 0 /\ acts[a].fencingToken = 0 /\ acts[a].maxAttempts > 0
             /\ acts[a].status \in {"ready", "retry_pending"}
             /\ acts[a].status = "ready" => acts[a].dependsOn = {}
  <2>1. a - n \in 1 .. len /\ ~(a <= n)
    BY <1>1, <1>2
  <2>2. def.activities[a - n] \in ActivityDefinition
    BY <1>1, <2>1
  <2>3. acts[a] = NewActivity(w, def.activities[a - n])
    BY <2>1
  <2>4. acts[a] \in Activity /\ acts[a].workflow = w
    BY <1>2, <2>2, <2>3, NewActivityType
  <2>5. def.activities[a - n].maxAttempts \in Int
    BY <2>2 DEF ActivityDefinition
  <2>6. /\ acts[a].attempt = 0 /\ acts[a].fencingToken = 0 /\ acts[a].maxAttempts > 0
        /\ acts[a].status \in {"ready", "retry_pending"}
        /\ acts[a].status = "ready" => acts[a].dependsOn = {}
    <3> HIDE DEF acts, w
    <3> QED
      BY <2>3, <2>5, maxAttemptsPositive DEF NewActivity, Default
  <2> QED
    BY <2>4, <2>6
<1> HIDE DEF acts
<1>6. acts \in [1 .. n + len -> Activity]
  <2>1. \A a \in 1 .. n + len : acts[a] \in Activity
    BY <1>2, <1>4, <1>5
  <2> QED
    BY <2>1 DEF acts
<1>7. activities' \in [1 .. n + len -> Activity]
  BY <1>2, <1>3, <1>6, ReleaseReadyType
<1>8. ASSUME NEW a \in 1 .. n + len
      PROVE  \/ activities'[a] = acts[a]
             \/ /\ SameIdentity(acts[a], activities'[a]) /\ SameCounters(acts[a], activities'[a])
                /\ acts[a].status = "retry_pending" /\ activities'[a].status = "ready"
                /\ dependenciesComplete(acts, a)
  BY <1>2, <1>3, <1>6, ReleaseReadyRows
<1>9. ASSUME NEW a \in 1 .. n + len, dependenciesComplete(acts, a)
      PROVE  dependenciesComplete(activities', a)
  <2> DEFINE m == n + len
  <2>1. \A d \in 1 .. m :
          /\ SameIdentity(acts[d], activities'[d])
          /\ acts[d].status = "completed" => activities'[d].status = "completed"
    BY <1>6, <1>8 DEF SameIdentity
  <2>2. m \in Nat /\ m <= m /\ a \in 1 .. m
    BY <1>2, <1>9
  <2>3. \A d \in (1 .. m) \ (1 .. m) : activities'[d].workflow # acts[a].workflow
    OBVIOUS
  <2>4. acts \in [1 .. m -> Activity] /\ activities' \in [1 .. m -> Activity]
    BY <1>6, <1>7
  <2> HIDE DEF m
  <2> QED
    BY <1>9, <2>1, <2>2, <2>3, <2>4, DependenciesStayComplete
<1>10. ASSUME NEW a \in 1 .. n
       PROVE  RowStep(a, activities[a], activities'[a])
  <2>1. a \in 1 .. n + len /\ acts[a] = activities[a] /\ activities[a] \in Activity
    BY <1>1, <1>2, <1>4
  <2> QED
    BY <1>8, <1>9, <2>1 DEF RowStep, Promoted, SameIdentity
<1>11. ASSUME NEW a \in (1 .. n + len) \ (1 .. n)
       PROVE  FreshRow(a)
  <2>1. acts[a].dependsOn = {} => dependenciesComplete(acts, a)
    BY DEF dependenciesComplete
  <2> QED
    BY <1>5, <1>8, <1>9, <2>1 DEF FreshRow, SameIdentity, SameCounters
<1> QED
  BY <1>2, <1>3, <1>10, <1>11 DEF StepRows, ClaimStep, ActivityIds

\* Start adds rows or changes nothing.
LEMMA StartRows ==
  ASSUME TypeOK, NEW def \in Definitions, NEW key \in Keys, Start(def, key)
  PROVE  StepRows
<1>1. CASE Create(def, key)
  BY <1>1, CreateRows DEF Start
<1>2. CASE ~Create(def, key)
  BY <1>2, SameRows DEF Start, store
<1> QED
  BY <1>1, <1>2

\* Every step of the engine moves rows along the lifecycle only.
LEMMA NextRows == TypeOK /\ [Next]_vars => StepRows
<1> SUFFICES ASSUME TypeOK, [Next]_vars PROVE StepRows
  OBVIOUS
<1>1. ASSUME NEW def \in Definitions, NEW key \in Keys, Start(def, key) PROVE StepRows
  BY <1>1, StartRows
<1>2. ASSUME NEW worker \in Workers, NEW queue \in TaskQueues, Claim(worker, queue) PROVE StepRows
  BY <1>2, ClaimRows
<1>3. ASSUME NEW c \in claims, Heartbeat(c) PROVE StepRows
  BY <1>3, HeartbeatRows
<1>4. ASSUME NEW c \in claims, Complete(c) PROVE StepRows
  BY <1>4, CompleteRows
<1>5. ASSUME NEW c \in claims, NEW retryable \in BOOLEAN, Fail(c, retryable) PROVE StepRows
  BY <1>5, FailRows
<1>6. ASSUME NEW w \in WorkflowIds, Cancel(w) PROVE StepRows
  BY <1>6, CancelRows
<1>7. CASE RunSchedulerPass
  BY <1>7, RunSchedulerPassRows
<1>8. CASE Tick
  BY <1>8, SameRows DEF Tick, store
<1>9. CASE UNCHANGED vars
  BY <1>9, SameRows DEF vars, store
<1> QED
  BY <1>1, <1>2, <1>3, <1>4, <1>5, <1>6, <1>7, <1>8, <1>9 DEF Next

-----------------------------------------------------------------------------
(* Fencing.  FencedAttempts is inductive as it stands.  The other two need  *)
(* to know of every claim, not only of the running activities', that its    *)
(* token was granted once and is not above the row's.                       *)

RunningRows ==
  \A a \in ActivityIds : activities[a].status = "running" =>
    /\ activities[a].leaseOwner \in Workers
    /\ activities[a].leaseExpiresAt > 0
    /\ [activity |-> a, worker |-> activities[a].leaseOwner,
        token |-> activities[a].fencingToken] \in claims

GrantedTokens ==
  /\ \A c \in claims : c.token <= activities[c.activity].fencingToken
  /\ \A c, d \in claims : c.activity = d.activity /\ c.token = d.token => c = d

FencingInv == TypeOK /\ FencedAttempts /\ RunningRows /\ GrantedTokens

\* Lifecycle steps keep tokens and attempts equal and within budget.
LEMMA FencedAttemptsStep ==
  ASSUME TypeOK, TypeOK', FencedAttempts, StepRows
  PROVE  FencedAttempts'
<1> SUFFICES ASSUME NEW a \in ActivityIds'
             PROVE  /\ activities'[a].fencingToken = activities'[a].attempt
                    /\ activities'[a].attempt <= activities'[a].maxAttempts
                    /\ activities'[a].status \in {"ready", "retry_pending"}
                         => activities'[a].attempt < activities'[a].maxAttempts
  BY DEF FencedAttempts
<1>1. CASE a \in ActivityIds
  <2>1. RowStep(a, activities[a], activities'[a])
    BY <1>1 DEF StepRows
  <2>2. /\ activities[a].attempt \in Nat /\ activities[a].fencingToken \in Nat
        /\ activities[a].maxAttempts \in Nat
    BY <1>1 DEF TypeOK, Activity
  <2>3. /\ activities[a].fencingToken = activities[a].attempt
        /\ activities[a].attempt <= activities[a].maxAttempts
        /\ activities[a].status \in {"ready", "retry_pending"}
             => activities[a].attempt < activities[a].maxAttempts
    BY <1>1 DEF FencedAttempts
  <2> QED
    BY <2>1, <2>2, <2>3 DEF RowStep, SameIdentity, SameCounters, Claimed, Renewed,
                            Settled, Requeued, Promoted, Dropped
<1>2. CASE a \notin ActivityIds
  <2>1. FreshRow(a)
    BY <1>2 DEF StepRows
  <2>2. activities'[a].maxAttempts \in Nat
    BY DEF TypeOK, Activity
  <2> QED
    BY <2>1, <2>2 DEF FreshRow
<1> QED
  BY <1>1, <1>2

\* Lifecycle steps keep the newest claim the only one a running row accepts.
LEMMA ClaimsStep ==
  ASSUME TypeOK, TypeOK', RunningRows, GrantedTokens, StepRows
  PROVE  RunningRows' /\ GrantedTokens'
<1>1. \A c \in claims : c.activity \in ActivityIds /\ c.token \in Nat
  BY DEF TypeOK
<1>2. \A a \in ActivityIds : activities[a].fencingToken \in Nat
  BY DEF TypeOK, Activity
<1>3. \A a \in ActivityIds : activities[a].fencingToken <= activities'[a].fencingToken
  <2> SUFFICES ASSUME NEW a \in ActivityIds
               PROVE  activities[a].fencingToken <= activities'[a].fencingToken
    OBVIOUS
  <2>1. RowStep(a, activities[a], activities'[a]) /\ activities[a].fencingToken \in Nat
    BY <1>2 DEF StepRows
  <2> QED
    BY <2>1 DEF RowStep, SameCounters, Claimed, Renewed, Settled, Requeued, Promoted, Dropped
<1>4. claims \subseteq claims'
  BY DEF StepRows, ClaimStep, Claimed
<1>5. RunningRows'
  <2> SUFFICES ASSUME NEW a \in ActivityIds', activities'[a].status = "running"
               PROVE  /\ activities'[a].leaseOwner \in Workers
                      /\ activities'[a].leaseExpiresAt > 0
                      /\ [activity |-> a, worker |-> activities'[a].leaseOwner,
                          token |-> activities'[a].fencingToken] \in claims'
    BY DEF RunningRows
  <2>1. a \in ActivityIds /\ RowStep(a, activities[a], activities'[a])
    BY DEF StepRows, FreshRow
  <2>2. activities[a].status = "running" =>
          /\ activities[a].leaseOwner \in Workers
          /\ activities[a].leaseExpiresAt > 0
          /\ [activity |-> a, worker |-> activities[a].leaseOwner,
              token |-> activities[a].fencingToken] \in claims'
    BY <1>4, <2>1 DEF RunningRows
  <2>3. CASE activities'[a] = activities[a]
    BY <2>2, <2>3
  <2>4. CASE Claimed(a, activities[a], activities'[a])
    BY <2>4 DEF Claimed
  <2>5. CASE Renewed(activities[a], activities'[a])
    BY <2>2, <2>5 DEF Renewed, SameCounters
  <2> QED
    BY <2>1, <2>3, <2>4, <2>5 DEF RowStep, Settled, Requeued, Promoted, Dropped
<1>6. GrantedTokens'
  <2>1. CASE claims' = claims
    <3>1. \A c \in claims : c.token <= activities'[c.activity].fencingToken
      <4> SUFFICES ASSUME NEW c \in claims PROVE c.token <= activities'[c.activity].fencingToken
        OBVIOUS
      <4>1. /\ c.token <= activities[c.activity].fencingToken
            /\ activities[c.activity].fencingToken <= activities'[c.activity].fencingToken
            /\ c.token \in Nat /\ activities[c.activity].fencingToken \in Nat
        BY <1>1, <1>2, <1>3 DEF GrantedTokens
      <4>2. activities'[c.activity].fencingToken \in Nat
        BY <2>1 DEF TypeOK, Activity
      <4> QED
        BY <4>1, <4>2
    <3> QED
      BY <2>1, <3>1 DEF GrantedTokens
  <2>2. ASSUME NEW a \in ActivityIds, Claimed(a, activities[a], activities'[a])
        PROVE  GrantedTokens'
    <3> DEFINE new == [activity |-> a, worker |-> activities'[a].leaseOwner,
                       token |-> activities'[a].fencingToken]
    <3>1. claims' = claims \cup {new} /\ activities'[a].fencingToken = activities[a].fencingToken + 1
      BY <2>2 DEF Claimed
    <3>2. new.activity = a /\ new.token = activities[a].fencingToken + 1
      BY <3>1
    <3> HIDE DEF new
    <3>3. ASSUME NEW c \in claims
          PROVE  /\ c.token <= activities'[c.activity].fencingToken
                 /\ ~(c.activity = a /\ c.token = activities[a].fencingToken + 1)
      <4>1. /\ c.token <= activities[c.activity].fencingToken
            /\ activities[c.activity].fencingToken <= activities'[c.activity].fencingToken
            /\ c.token \in Nat /\ activities[c.activity].fencingToken \in Nat
        BY <1>1, <1>2, <1>3 DEF GrantedTokens
      <4>2. activities'[c.activity].fencingToken \in Nat
        BY <1>4 DEF TypeOK, Activity
      <4> QED
        BY <4>1, <4>2
    <3>4. new.token <= activities'[new.activity].fencingToken
      BY <1>2, <3>1, <3>2
    <3> QED
      BY <3>1, <3>2, <3>3, <3>4 DEF GrantedTokens
  <2> QED
    BY <2>1, <2>2 DEF StepRows, ClaimStep
<1> QED
  BY <1>5, <1>6

\* The fencing invariant is inductive.
LEMMA FencingInductive == FencingInv /\ [Next]_vars => FencingInv'
<1> SUFFICES ASSUME FencingInv, [Next]_vars PROVE FencingInv'
  OBVIOUS
<1>1. TypeOK' /\ StepRows
  BY NextType, NextRows DEF FencingInv
<1> QED
  BY <1>1, FencedAttemptsStep, ClaimsStep DEF FencingInv

\* The fencing invariant holds of an empty engine.
LEMMA FencingInit == Init => FencingInv
<1> SUFFICES ASSUME Init PROVE FencingInv
  OBVIOUS
<1>1. ActivityIds = {} /\ claims = {}
  BY DEF Init, ActivityIds
<1> QED
  BY <1>1, InitType DEF FencingInv, FencedAttempts, RunningRows, GrantedTokens

\* The fencing invariant holds in every reachable state.
LEMMA FencingAlways == Spec => []FencingInv
BY FencingInit, FencingInductive, PTL DEF Spec

\* For any number of workers, retries and expiries: the fencing token counts
\* the attempts, which never exceed the budget, and nothing without budget
\* left is ever claimable.
THEOREM AttemptsAreFenced == Spec => []FencedAttempts
<1>1. FencingInv => FencedAttempts
  BY DEF FencingInv
<1> QED
  BY <1>1, FencingAlways, PTL

\* For any number of workers and takeovers: a running activity belongs to
\* exactly one claim ever handed out, the one with the highest token.
THEOREM LatestClaimHolds == Spec => []LeaseHolderIsLatestClaim
<1>1. FencingInv => LeaseHolderIsLatestClaim
  <2> SUFFICES ASSUME FencingInv, NEW a \in ActivityIds, activities[a].status = "running"
               PROVE  {c \in claims : c.activity = a /\ c.token >= activities[a].fencingToken}
                        = {[activity |-> a, worker |-> activities[a].leaseOwner,
                            token |-> activities[a].fencingToken]}
    BY DEF LeaseHolderIsLatestClaim
  <2> DEFINE held == [activity |-> a, worker |-> activities[a].leaseOwner,
                      token |-> activities[a].fencingToken]
  <2>1. held \in claims /\ held.activity = a /\ held.token = activities[a].fencingToken
    BY DEF FencingInv, RunningRows
  <2>2. activities[a].fencingToken \in Nat
    BY DEF FencingInv, TypeOK, Activity
  <2> HIDE DEF held
  <2>3. ASSUME NEW c \in claims, c.activity = a, c.token >= activities[a].fencingToken
        PROVE  c = held
    <3>1. c.token <= activities[a].fencingToken /\ c.token \in Nat
      BY <2>3 DEF FencingInv, GrantedTokens, TypeOK
    <3> QED
      BY <2>1, <2>2, <2>3, <3>1 DEF FencingInv, GrantedTokens
  <2>4. {c \in claims : c.activity = a /\ c.token >= activities[a].fencingToken} = {held}
    BY <2>1, <2>2, <2>3
  <2> QED
    BY <2>4 DEF held
<1> QED
  BY <1>1, FencingAlways, PTL

-----------------------------------------------------------------------------
(* Leases.  A heartbeat sets the deadline anew, so that it cannot bring it  *)
(* forward depends on no deadline being further away than leaseTTL.         *)

DeadlinesNear ==
  \A a \in ActivityIds :
    activities[a].status = "running" => activities[a].leaseExpiresAt <= now + leaseTTL

LeaseInv == FencingInv /\ DeadlinesNear

Holder(a) == [activity |-> a, worker |-> activities[a].leaseOwner,
              token |-> activities[a].fencingToken]

\* The clock is never set back.
LEMMA ClockStep ==
  ASSUME TypeOK, [Next]_vars
  PROVE  now' \in Nat /\ now <= now'
<1>1. now \in Nat
  BY DEF TypeOK
<1>2. \A op, c, stale : Rejected(op, c, stale) => now' = now
  BY DEF Rejected
<1>3. ASSUME NEW def \in Definitions, NEW key \in Keys, Start(def, key) PROVE now' = now
  BY <1>3 DEF Start
<1>4. ASSUME NEW worker \in Workers, NEW queue \in TaskQueues, Claim(worker, queue) PROVE now' = now
  BY <1>4 DEF Claim
<1>5. ASSUME NEW c \in claims, Heartbeat(c) PROVE now' = now
  BY <1>2, <1>5 DEF Heartbeat
<1>6. ASSUME NEW c \in claims, Complete(c) PROVE now' = now
  BY <1>2, <1>6 DEF Complete
<1>7. ASSUME NEW c \in claims, NEW retryable \in BOOLEAN, Fail(c, retryable) PROVE now' = now
  BY <1>2, <1>7 DEF Fail
<1>8. ASSUME NEW w \in WorkflowIds, Cancel(w) PROVE now' = now
  BY <1>8 DEF Cancel
<1>9. CASE RunSchedulerPass
  BY <1>1, <1>9 DEF RunSchedulerPass
<1>10. CASE Tick
  BY <1>1, <1>10 DEF Tick
<1>11. CASE UNCHANGED vars
  BY <1>1, <1>11 DEF vars
<1> QED
  BY <1>1, <1>3, <1>4, <1>5, <1>6, <1>7, <1>8, <1>9, <1>10, <1>11 DEF Next

\* A deadline is set to leaseTTL from now, and the clock only goes on.
LEMMA LeaseInductive == LeaseInv /\ [Next]_vars => LeaseInv'
<1> SUFFICES ASSUME LeaseInv, [Next]_vars PROVE LeaseInv'
  OBVIOUS
<1>1. FencingInv' /\ StepRows /\ TypeOK /\ TypeOK'
  BY FencingInductive, NextRows DEF LeaseInv, FencingInv
<1>2. now \in Nat /\ now' \in Nat /\ now <= now' /\ leaseTTL \in Nat
  BY <1>1, ClockStep, leaseTTLPositive DEF TypeOK
<1>3. ASSUME NEW a \in ActivityIds', activities'[a].status = "running"
      PROVE  activities'[a].leaseExpiresAt <= now' + leaseTTL
  <2>1. a \in ActivityIds /\ RowStep(a, activities[a], activities'[a])
    BY <1>1, <1>3 DEF StepRows, FreshRow
  <2>2. activities[a].leaseExpiresAt \in Nat /\ activities'[a].leaseExpiresAt \in Nat
    BY <1>1, <1>3, <2>1 DEF TypeOK, Activity
  <2>3. CASE activities'[a] = activities[a]
    <3>1. activities[a].leaseExpiresAt <= now + leaseTTL
      BY <1>3, <2>1, <2>3 DEF LeaseInv, DeadlinesNear
    <3> QED
      BY <1>2, <2>2, <2>3, <3>1
  <2>4. CASE activities'[a].leaseExpiresAt = now + leaseTTL
    <3>1. \A n, m, d \in Nat : n <= m => n + d <= m + d
      OBVIOUS
    <3> QED
      BY <1>2, <2>4, <3>1
  <2> QED
    BY <1>3, <2>1, <2>3, <2>4 DEF RowStep, Claimed, Renewed, Settled, Requeued, Promoted, Dropped
<1> QED
  BY <1>1, <1>3 DEF LeaseInv, DeadlinesNear, leaseTTL, Default

\* The lease invariant always holds.
LEMMA LeaseAlways == Spec => []LeaseInv
<1>1. Init => LeaseInv
  BY FencingInit DEF Init, LeaseInv, DeadlinesNear, ActivityIds
<1> QED
  BY <1>1, LeaseInductive, PTL DEF Spec

\* Before the deadline a row stops running only by a result of its holder.
LEMMA LeaseEnds ==
  ASSUME LeaseInv, [Next]_vars, NEW a \in ActivityIds, activities[a].status = "running",
         now < activities[a].leaseExpiresAt, activities'[a].status # "running"
  PROVE  \/ Complete(Holder(a))
         \/ \E retryable \in BOOLEAN : Fail(Holder(a), retryable)
<1>1. TypeOK /\ activities \in [ActivityIds -> Activity]
  BY DEF LeaseInv, FencingInv, TypeOK
<1>2. activities[a].leaseExpiresAt \in Nat /\ now \in Nat
  BY <1>1 DEF TypeOK, Activity
<1>3. \A op, c, stale : Rejected(op, c, stale) => activities' = activities
  BY DEF Rejected
<1>4. ASSUME NEW c \in claims, currentLease(c.activity, c.worker, c.token), c.activity = a
      PROVE  c = Holder(a)
  <2>1. c \in [activity : ActivityIds, worker : Workers, token : Nat]
    BY <1>1 DEF TypeOK
  <2>2. c.worker = activities[a].leaseOwner /\ c.token = activities[a].fencingToken
    BY <1>4 DEF currentLease
  <2> QED
    BY <1>4, <2>1, <2>2 DEF Holder
<1>5. ASSUME NEW def \in Definitions, NEW key \in Keys, Start(def, key) PROVE FALSE
  <2>1. CASE UNCHANGED activities
    BY <2>1
  <2>2. CASE Create(def, key)
    <3>1. RowStep(a, activities[a], activities'[a]) /\ claims' = claims
      BY <1>1, <1>5, StartRows DEF StepRows, Start
    <3> DEFINE n    == nextActivity
               acts == [b \in 1 .. n + Len(def.activities) |->
                          IF b <= n THEN activities[b]
                          ELSE NewActivity(nextWorkflow + 1, def.activities[b - n])]
    <3>2. activities' = releaseReady(acts, nextWorkflow + 1)
      BY <2>2 DEF Create
    <3>3. n \in Nat /\ Len(def.activities) \in Nat
      BY <1>1, EngineAssumption DEF TypeOK, WorkflowDefinition
    <3>4. a \in DOMAIN acts /\ acts[a] = activities[a]
      BY <3>3 DEF ActivityIds
    <3> HIDE DEF acts
    <3>5. a \notin Releasable(acts, nextWorkflow + 1)
      BY <3>4 DEF Releasable, Due
    <3> QED
      BY <3>2, <3>4, <3>5 DEF releaseReady
  <2> QED
    BY <1>5, <2>1, <2>2 DEF Start, store
<1>6. ASSUME NEW worker \in Workers, NEW queue \in TaskQueues, Claim(worker, queue) PROVE FALSE
  <2>1. CASE UNCHANGED activities
    BY <2>1
  <2>2. ASSUME NEW b \in ActivityIds, Claimable(b, queue),
               activities' = [activities EXCEPT ![b] = Leased(@, worker)]
        PROVE  FALSE
    BY <1>1, <2>2 DEF Claimable
  <2> QED
    BY <1>6, <2>1, <2>2 DEF Claim
<1>7. ASSUME NEW c \in claims, Heartbeat(c) PROVE FALSE
  <2>1. CASE activities' = [activities EXCEPT ![c.activity].leaseExpiresAt = now + leaseTTL]
    <3>1. activities[a] \in Activity
      BY <1>1
    <3> QED
      BY <1>1, <2>1, <3>1 DEF Activity
  <2> QED
    BY <1>3, <1>7, <2>1 DEF Heartbeat
<1>8. ASSUME NEW c \in claims, Complete(c) PROVE Complete(Holder(a))
  <2>1. CASE Rejected("Complete", c, "activity.stale_completion_rejected")
    BY <1>3, <2>1
  <2>2. CASE ~Rejected("Complete", c, "activity.stale_completion_rejected")
    <3> DEFINE acts == [activities EXCEPT ![c.activity] = Freed(@, "completed")]
    <3>1. /\ activities' = releaseReady(acts, activities[c.activity].workflow)
          /\ currentLease(c.activity, c.worker, c.token)
      BY <1>8, <2>2 DEF Complete
    <3>2. c.activity = a
      <4> SUFFICES ASSUME c.activity # a PROVE FALSE
        OBVIOUS
      <4>1. a \in DOMAIN acts /\ acts[a] = activities[a]
        BY <1>1
      <4> HIDE DEF acts
      <4>2. a \notin Releasable(acts, activities[c.activity].workflow)
        BY <4>1 DEF Releasable, Due
      <4> QED
        BY <3>1, <4>1, <4>2 DEF releaseReady
    <3> QED
      BY <1>4, <1>8, <3>1, <3>2
  <2> QED
    BY <2>1, <2>2
<1>9. ASSUME NEW c \in claims, NEW retryable \in BOOLEAN, Fail(c, retryable)
      PROVE  Fail(Holder(a), retryable)
  <2>1. CASE Rejected("Fail", c, "activity.stale_failure_rejected")
    BY <1>3, <2>1
  <2>2. CASE ~Rejected("Fail", c, "activity.stale_failure_rejected")
    <3>1. currentLease(c.activity, c.worker, c.token)
      BY <1>9, <2>2 DEF Fail
    <3>2. \E row : activities' = [activities EXCEPT ![c.activity] = row]
      BY <1>9, <2>2 DEF Fail
    <3>3. c.activity = a
      BY <1>1, <3>2
    <3> QED
      BY <1>4, <1>9, <3>1, <3>3
  <2> QED
    BY <2>1, <2>2
<1>10. ASSUME NEW w \in WorkflowIds, Cancel(w) PROVE FALSE
  BY <1>1, <1>10 DEF Cancel, Pending
<1>11. CASE RunSchedulerPass
  <2>1. ~Expired(a) /\ ~Due(activities, a)
    BY <1>2 DEF Expired, Due
  <2> QED
    BY <1>11, <2>1 DEF RunSchedulerPass
<1>12. CASE Tick
  BY <1>12 DEF Tick, store
<1>13. CASE UNCHANGED vars
  BY <1>13 DEF vars, store
<1> QED
  BY <1>5, <1>6, <1>7, <1>8, <1>9, <1>10, <1>11, <1>12, <1>13 DEF Next

\* A pass of the scheduler leaves no lease that has run out.
LEMMA PassTakesExpired ==
  ASSUME LeaseInv, RunSchedulerPass, NEW a \in ActivityIds, activities'[a].status = "running"
  PROVE  now < activities'[a].leaseExpiresAt
<1>1. TypeOK /\ activities[a] \in Activity /\ now \in Nat
  BY DEF LeaseInv, FencingInv, TypeOK
<1>2. /\ activities[a].leaseExpiresAt \in Nat
      /\ activities[a].attempt \in Nat /\ activities[a].maxAttempts \in Nat
  BY <1>1 DEF Activity
<1>3. activities'[a] = IF Expired(a) \/ Due(activities, a) THEN Swept(a).row ELSE activities[a]
  BY DEF RunSchedulerPass
<1>4. "ready" \in ActivityStatus /\ "failed" \in ActivityStatus
  BY DEF ActivityStatus
<1>5. ~Expired(a)
  <2> SUFFICES ASSUME Expired(a) PROVE FALSE
    OBVIOUS
  <2>1. CASE activities[a].attempt < activities[a].maxAttempts
    <3>1. activities'[a] = Freed(activities[a], "ready")
      BY <1>1, <1>3, <2>1, SweptCases
    <3> QED
      BY <1>1, <1>4, <3>1, FreedRow
  <2>2. CASE ~(activities[a].attempt < activities[a].maxAttempts)
    <3>1. activities'[a] = Freed(activities[a], "failed")
      BY <1>1, <1>3, <2>2, SweptCases
    <3> QED
      BY <1>1, <1>4, <3>1, FreedRow
  <2> QED
    BY <2>1, <2>2
<1>6. ~Due(activities, a)
  <2> SUFFICES ASSUME Due(activities, a) PROVE FALSE
    OBVIOUS
  <2>1. activities'[a] = [activities[a] EXCEPT !.status = "ready"]
    BY <1>1, <1>3, <1>5, SweptCases
  <2> QED
    BY <1>1, <2>1 DEF Activity
<1>7. activities[a].status = "running" /\ activities[a].leaseExpiresAt > 0
  BY <1>3, <1>5, <1>6 DEF LeaseInv, FencingInv, RunningRows
<1> QED
  BY <1>1, <1>2, <1>3, <1>5, <1>6, <1>7 DEF Expired

\* Whatever else is called meanwhile, a lease lasts to its deadline unless its
\* holder reports, no heartbeat shortens it, and the first scheduler pass
\* from the deadline on ends it.
THEOREM LeasesLast == Spec => LeaseLasts
<1>1. ASSUME LeaseInv, [Next]_vars, NEW a \in ActivityIds,
             activities[a].status = "running", now < activities[a].leaseExpiresAt,
             activities'[a].status = "running"
      PROVE  /\ activities'[a].leaseOwner = activities[a].leaseOwner
             /\ activities'[a].fencingToken = activities[a].fencingToken
             /\ activities'[a].leaseExpiresAt >= activities[a].leaseExpiresAt
  <2>1. TypeOK /\ now \in Nat /\ leaseTTL \in Nat /\ activities[a].leaseExpiresAt \in Nat
    BY <1>1, leaseTTLPositive DEF LeaseInv, FencingInv, TypeOK, Activity
  <2>2. RowStep(a, activities[a], activities'[a])
    BY <1>1, <2>1, NextRows DEF StepRows
  <2>3. activities[a].leaseExpiresAt <= now + leaseTTL
    BY <1>1 DEF LeaseInv, DeadlinesNear
  <2>4. CASE activities'[a] = activities[a]
    BY <2>1, <2>4
  <2>5. CASE Renewed(activities[a], activities'[a])
    BY <2>1, <2>3, <2>5 DEF Renewed, SameCounters
  <2> QED
    BY <1>1, <2>2, <2>4, <2>5 DEF RowStep, Claimed, Settled, Requeued, Promoted, Dropped
<1>2. LeaseInv /\ [Next]_vars =>
        /\ \A a \in ActivityIds :
             activities[a].status = "running" /\ now < activities[a].leaseExpiresAt =>
               \/ /\ activities'[a].status = "running"
                  /\ activities'[a].leaseOwner = activities[a].leaseOwner
                  /\ activities'[a].fencingToken = activities[a].fencingToken
                  /\ activities'[a].leaseExpiresAt >= activities[a].leaseExpiresAt
               \/ Complete(Holder(a))
               \/ \E retryable \in BOOLEAN : Fail(Holder(a), retryable)
        /\ RunSchedulerPass =>
             \A a \in ActivityIds :
               activities'[a].status = "running" => now < activities'[a].leaseExpiresAt
  BY <1>1, LeaseEnds, PassTakesExpired
<1> QED
  BY <1>2, LeaseAlways, PTL DEF Spec, LeaseLasts, Holder

-----------------------------------------------------------------------------
(* Dependencies.  What is ready, and not only what has been started, must   *)
(* have its dependencies complete for the property to be inductive.         *)

DependencyInv ==
  /\ TypeOK
  /\ \A a \in ActivityIds :
       activities[a].attempt > 0 \/ activities[a].status \in {"ready", "running"}
         => dependenciesComplete(activities, a)

\* Lifecycle steps keep what a claimed activity depends on completed.
LEMMA DependencyStep ==
  ASSUME DependencyInv, TypeOK', StepRows
  PROVE  DependencyInv'
<1> SUFFICES ASSUME NEW a \in ActivityIds',
                    activities'[a].attempt > 0 \/ activities'[a].status \in {"ready", "running"}
             PROVE  dependenciesComplete(activities', a)
  BY DEF DependencyInv
<1>1. CASE a \in ActivityIds
  <2>1. RowStep(a, activities[a], activities'[a])
    BY <1>1 DEF StepRows
  <2>2. CASE Promoted(a, activities[a], activities'[a])
    BY <2>2 DEF Promoted
  <2>3. CASE ~Promoted(a, activities[a], activities'[a])
    <3>1. activities[a].attempt \in Nat
      BY <1>1 DEF DependencyInv, TypeOK, Activity
    <3>2. activities[a].attempt > 0 \/ activities[a].status \in {"ready", "running"}
      BY <2>1, <2>3, <3>1 DEF RowStep, SameCounters, Claimed, Renewed, Settled, Requeued, Dropped
    <3>3. dependenciesComplete(activities, a)
      BY <1>1, <3>2 DEF DependencyInv
    <3>4. \A b \in ActivityIds :
            /\ SameIdentity(activities[b], activities'[b])
            /\ activities[b].status = "completed" => activities'[b].status = "completed"
      BY DEF StepRows, RowStep, Claimed, Renewed, Settled, Requeued, Promoted, Dropped
    <3>5. \A b \in ActivityIds' \ ActivityIds : activities'[b].workflow # activities[a].workflow
      <4>1. activities[a].workflow <= nextWorkflow /\ nextWorkflow \in Nat /\ activities[a].workflow \in Nat
        BY <1>1 DEF DependencyInv, TypeOK, WorkflowIds
      <4>2. \A b \in ActivityIds' \ ActivityIds : activities'[b].workflow = nextWorkflow + 1
        BY DEF StepRows, FreshRow
      <4> QED
        BY <4>1, <4>2
    <3> DEFINE n    == nextActivity
               m    == nextActivity'
               next == activities'
    <3>6. /\ n \in Nat /\ m \in Nat /\ n <= m /\ a \in 1 .. n
          /\ activities \in [1 .. n -> Activity] /\ next \in [1 .. m -> Activity]
      BY <1>1 DEF DependencyInv, TypeOK, ActivityIds, StepRows
    <3>7. ActivityIds = 1 .. n /\ ActivityIds' = 1 .. m
      BY DEF ActivityIds
    <3>8. /\ \A b \in 1 .. n :
               /\ SameIdentity(activities[b], next[b])
               /\ activities[b].status = "completed" => next[b].status = "completed"
          /\ \A b \in (1 .. m) \ (1 .. n) : next[b].workflow # activities[a].workflow
      BY <3>4, <3>5, <3>7
    <3>9. dependenciesComplete(next, a)
      <4> HIDE DEF n, m, next
      <4> QED
        BY <3>3, <3>6, <3>8, DependenciesStayComplete
    <3> QED
      BY <3>9
  <2> QED
    BY <2>2, <2>3
<1>2. CASE a \notin ActivityIds
  BY <1>2 DEF StepRows, FreshRow
<1> QED
  BY <1>1, <1>2

\* For every dependency graph Start accepts: nothing is handed to a worker
\* before everything it depends on has completed.
THEOREM DependenciesComeFirst == Spec => []DependenciesFirst
<1>1. Init => DependencyInv
  BY InitType DEF Init, DependencyInv, ActivityIds
<1>2. DependencyInv /\ [Next]_vars => DependencyInv'
  <2> SUFFICES ASSUME DependencyInv, [Next]_vars PROVE DependencyInv'
    OBVIOUS
  <2>1. TypeOK' /\ StepRows
    BY NextType, NextRows DEF DependencyInv
  <2> QED
    BY <2>1, DependencyStep
<1>3. DependencyInv => DependenciesFirst
  BY DEF DependencyInv, DependenciesFirst
<1> QED
  BY <1>1, <1>2, <1>3, PTL DEF Spec

=============================================================================
