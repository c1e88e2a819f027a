------------------------ MODULE EngineWorkflowProofs ------------------------
(* Theorems about the workflows of Engine, its log, and its contract, for   *)
(* all workers, definitions, keys and bounds.  EngineProofs has those about *)
(* its activities, on which these rest.                                     *)
EXTENDS EngineRefinement, EngineProofs

-----------------------------------------------------------------------------
(* The status of a workflow.  WorkflowStatusExplained is inductive together *)
(* with the types; the steps are easier to follow with its cases spelled    *)
(* out over the activities of the workflow.                                 *)

Of(w) == {a \in ActivityIds : activities[a].workflow = w}

StatusFacts(w) ==
  /\ workflows[w].status = "completed" =>
       /\ Of(w) # {}
       /\ \A a \in Of(w) : activities[a].status = "completed"
  /\ workflows[w].status = "failed" => \E a \in Of(w) : activities[a].status = "failed"
  /\ workflows[w].status = "cancelled" => \A a \in Of(w) : activities[a].status # "failed"
  /\ workflows[w].status = "running" =>
       /\ \E a \in Of(w) : activities[a].status # "completed"
       /\ \A a \in Of(w) : activities[a].status \notin {"failed", "cancelled"}

StatusInv == TypeOK /\ \A w \in WorkflowIds : StatusFacts(w)

\* The facts are the property's.
LEMMA StatusFactsExplain == StatusInv => WorkflowStatusExplained
<1> SUFFICES ASSUME StatusInv, NEW w \in WorkflowIds
             PROVE  LET statuses == {activities[a].status :
                                       a \in {b \in ActivityIds : activities[b].workflow = w}}
                    IN CASE workflows[w].status = "completed" -> statuses = {"completed"}
                         [] workflows[w].status = "failed"    -> "failed" \in statuses
                         [] workflows[w].status = "cancelled" -> "failed" \notin statuses
                         [] workflows[w].status = "running"   ->
                              /\ statuses # {"completed"}
                              /\ statuses \cap {"failed", "cancelled"} = {}
  BY DEF WorkflowStatusExplained
<1> DEFINE statuses == {activities[a].status : a \in {b \in ActivityIds : activities[b].workflow = w}}
<1>1. statuses = {activities[a].status : a \in Of(w)}
  BY DEF Of
<1>2. StatusFacts(w) /\ workflows[w].status \in WorkflowStatus
  BY DEF StatusInv, TypeOK, Workflow
<1> HIDE DEF statuses
<1>3. workflows[w].status = "completed" => statuses = {"completed"}
  BY <1>1, <1>2 DEF StatusFacts
<1>4. workflows[w].status = "failed" => "failed" \in statuses
  BY <1>1, <1>2 DEF StatusFacts
<1>5. workflows[w].status = "cancelled" => "failed" \notin statuses
  BY <1>1, <1>2 DEF StatusFacts
<1>6. workflows[w].status = "running" =>
        statuses # {"completed"} /\ statuses \cap {"failed", "cancelled"} = {}
  BY <1>1, <1>2 DEF StatusFacts
<1>7. CASE workflows[w].status = "completed"
  BY <1>3, <1>7 DEF statuses
<1>8. CASE workflows[w].status = "failed"
  BY <1>4, <1>8 DEF statuses
<1>9. CASE workflows[w].status = "cancelled"
  BY <1>5, <1>9 DEF statuses
<1>10. CASE workflows[w].status = "running"
  BY <1>6, <1>10 DEF statuses
<1> QED
  BY <1>2, <1>7, <1>8, <1>9, <1>10 DEF WorkflowStatus

\* No row settles, and no workflow changes.
LEMMA QuietStatus ==
  ASSUME StatusInv, TypeOK', UNCHANGED <<nextWorkflow, nextActivity, workflows>>,
         \A a \in ActivityIds :
           /\ activities'[a].workflow = activities[a].workflow
           /\ \/ activities'[a].status = activities[a].status
              \/ /\ activities[a].status \notin {"completed", "failed", "cancelled"}
                 /\ activities'[a].status \notin {"completed", "failed", "cancelled"}
  PROVE  StatusInv'
<1>1. WorkflowIds' = WorkflowIds /\ ActivityIds' = ActivityIds
  BY DEF WorkflowIds, ActivityIds
<1>2. SUFFICES ASSUME NEW w \in WorkflowIds PROVE StatusFacts(w)'
  BY <1>1 DEF StatusInv
<1>3. Of(w)' = Of(w)
  BY <1>1 DEF Of
<1>4. Of(w) \subseteq ActivityIds /\ StatusFacts(w)
  BY DEF StatusInv, Of
<1> QED
  BY <1>3, <1>4 DEF StatusFacts

\* Claim settles no row.
LEMMA ClaimStatus ==
  ASSUME StatusInv, TypeOK', NEW worker \in Workers, NEW queue \in TaskQueues, Claim(worker, queue)
  PROVE  StatusInv'
<1>1. UNCHANGED <<nextWorkflow, nextActivity, workflows>>
  BY DEF Claim
<1>2. CASE UNCHANGED activities
  BY <1>1, <1>2, QuietStatus
<1>3. CASE ~UNCHANGED activities
  <2>1. PICK a \in ActivityIds :
          /\ Claimable(a, queue)
          /\ activities' = [activities EXCEPT ![a] = Leased(@, worker)]
    BY <1>3 DEF Claim
  <2>2. activities[a] \in Activity /\ now \in Nat /\ activities \in [ActivityIds -> Activity]
    BY DEF StatusInv, TypeOK
  <2>3. /\ Leased(activities[a], worker).workflow = activities[a].workflow
        /\ Leased(activities[a], worker).status = "running"
        /\ activities[a].status = "ready"
    BY <2>1, <2>2, LeasedRow DEF SameIdentity, Claimable
  <2>4. /\ activities'[a] = Leased(activities[a], worker)
        /\ \A b \in ActivityIds : b # a => activities'[b] = activities[b]
    BY <2>1, <2>2
  <2> QED
    BY <1>1, <2>3, <2>4, QuietStatus
<1> QED
  BY <1>2, <1>3

\* Heartbeats settle no row.
LEMMA HeartbeatStatus ==
  ASSUME StatusInv, TypeOK', NEW c \in claims, Heartbeat(c)
  PROVE  StatusInv'
<1>1. UNCHANGED <<nextWorkflow, nextActivity, workflows>>
  BY DEF Heartbeat, Rejected
<1>2. \/ UNCHANGED activities
      \/ activities' = [activities EXCEPT ![c.activity].leaseExpiresAt = now + leaseTTL]
  BY DEF Heartbeat, Rejected
<1>3. activities \in [ActivityIds -> Activity]
  BY DEF StatusInv, TypeOK
<1>4. \A a \in ActivityIds : /\ activities'[a].workflow = activities[a].workflow
                             /\ activities'[a].status = activities[a].status
  BY <1>2, <1>3 DEF Activity
<1> QED
  BY <1>1, <1>4, QuietStatus

\* A row that is not completed belongs to no completed workflow.
LEMMA NotCompleted ==
  ASSUME StatusInv, NEW a \in ActivityIds, activities[a].status # "completed"
  PROVE  /\ activities[a].workflow \in WorkflowIds
         /\ workflows[activities[a].workflow].status # "completed"
BY DEF StatusInv, StatusFacts, Of, TypeOK

\* What an accepted completion does to the rows.
LEMMA CompleteEffect ==
  ASSUME TypeOK, NEW c \in claims, Complete(c), ~Rejected("Complete", c, "activity.stale_completion_rejected")
  PROVE  LET a == c.activity
             w == activities[a].workflow
         IN /\ a \in ActivityIds /\ w \in WorkflowIds
            /\ currentLease(a, c.worker, c.token)
            /\ activities[a].status = "running" /\ activities'[a].status = "completed"
            /\ \A b \in ActivityIds : /\ activities'[b].workflow = activities[b].workflow
                                      /\ \/ b = a
                                         \/ activities'[b].status = activities[b].status
                                         \/ /\ activities[b].status = "retry_pending"
                                            /\ activities'[b].status = "ready"
            /\ workflows' = IF /\ workflows[w].status = "running"
                               /\ \A b \in Of(w) : activities'[b].status = "completed"
                            THEN [workflows EXCEPT ![w].status = "completed"] ELSE workflows
            /\ UNCHANGED <<nextWorkflow, nextActivity>>
<1> DEFINE a    == c.activity
           w    == activities[a].workflow
           row  == Freed(activities[a], "completed")
           acts == [activities EXCEPT ![a] = row]
<1>1. /\ currentLease(a, c.worker, c.token) /\ activities' = releaseReady(acts, w)
      /\ workflows' = IF WorkflowDone(releaseReady(acts, w), w)
                      THEN [workflows EXCEPT ![w].status = "completed"] ELSE workflows
      /\ UNCHANGED <<nextWorkflow, nextActivity>>
  BY DEF Complete
<1>2. /\ a \in ActivityIds /\ w \in WorkflowIds /\ activities[a] \in Activity
      /\ nextActivity \in Nat /\ activities \in [ActivityIds -> Activity]
      /\ "completed" \in ActivityStatus
  BY DEF TypeOK, ActivityStatus
<1>3. row \in Activity /\ row.workflow = w /\ row.status = "completed"
  BY <1>2, FreedRow DEF SameIdentity
<1>4. activities[a].status = "running"
  BY <1>1 DEF currentLease
<1> HIDE DEF row
<1>5. /\ acts \in [1 .. nextActivity -> Activity]
      /\ acts[a] = row /\ \A b \in ActivityIds : b # a => acts[b] = activities[b]
  BY <1>2, <1>3 DEF ActivityIds
<1> HIDE DEF acts, w, a
<1>6. ASSUME NEW b \in ActivityIds
      PROVE  \/ activities'[b] = acts[b]
             \/ /\ SameIdentity(acts[b], activities'[b])
                /\ acts[b].status = "retry_pending" /\ activities'[b].status = "ready"
  <2>1. b \in 1 .. nextActivity
    BY DEF ActivityIds
  <2> QED
    BY <1>1, <1>2, <1>5, <2>1, ReleaseReadyRows
<1>7. \A b \in ActivityIds : /\ activities'[b].workflow = activities[b].workflow
                             /\ \/ b = a
                                \/ activities'[b].status = activities[b].status
                                \/ /\ activities[b].status = "retry_pending"
                                   /\ activities'[b].status = "ready"
  BY <1>3, <1>5, <1>6 DEF SameIdentity, w
<1>8. activities'[a].status = "completed"
  BY <1>2, <1>3, <1>5, <1>6
<1>9. DOMAIN activities' = ActivityIds
  BY <1>1, <1>2, <1>5, ReleaseReadyType DEF ActivityIds
<1>10. WorkflowDone(activities', w) <=> /\ workflows[w].status = "running"
                                        /\ \A b \in Of(w) : activities'[b].status = "completed"
  BY <1>7, <1>9 DEF WorkflowDone, Of
<1> QED
  BY <1>1, <1>2, <1>4, <1>7, <1>8, <1>10 DEF a, w

\* The last completion, and no other, completes the workflow.
LEMMA CompleteStatus ==
  ASSUME StatusInv, TypeOK', NEW c \in claims, Complete(c)
  PROVE  StatusInv'
<1>1. CASE Rejected("Complete", c, "activity.stale_completion_rejected")
  BY <1>1, QuietStatus DEF Rejected
<1>2. CASE ~Rejected("Complete", c, "activity.stale_completion_rejected")
  <2> DEFINE a == c.activity
             w == activities[a].workflow
  <2>1. /\ a \in ActivityIds /\ w \in WorkflowIds
        /\ activities[a].status = "running" /\ activities'[a].status = "completed"
        /\ \A b \in ActivityIds : /\ activities'[b].workflow = activities[b].workflow
                                  /\ \/ b = a
                                     \/ activities'[b].status = activities[b].status
                                     \/ /\ activities[b].status = "retry_pending"
                                        /\ activities'[b].status = "ready"
        /\ workflows' = IF /\ workflows[w].status = "running"
                           /\ \A b \in Of(w) : activities'[b].status = "completed"
                        THEN [workflows EXCEPT ![w].status = "completed"] ELSE workflows
        /\ UNCHANGED <<nextWorkflow, nextActivity>>
    BY <1>2, CompleteEffect DEF StatusInv
  <2>2. w = activities[a].workflow
    OBVIOUS
  <2> HIDE DEF a, w
  <2>3. WorkflowIds' = WorkflowIds /\ ActivityIds' = ActivityIds
    BY <2>1 DEF WorkflowIds, ActivityIds
  <2>4. SUFFICES ASSUME NEW v \in WorkflowIds PROVE StatusFacts(v)'
    BY <2>3 DEF StatusInv
  <2>5. Of(v)' = Of(v) /\ Of(v) \subseteq ActivityIds /\ StatusFacts(v)
    BY <2>1, <2>3 DEF Of, StatusInv
  <2>6. workflows \in [WorkflowIds -> Workflow]
    BY DEF StatusInv, TypeOK
  <2>7. CASE v # w
    <3>1. workflows'[v] = workflows[v] /\ a \notin Of(v)
      BY <2>1, <2>2, <2>6, <2>7 DEF Of
    <3> QED
      BY <2>1, <2>5, <3>1 DEF StatusFacts
  <2>8. CASE v = w
    <3>1. a \in Of(v)
      BY <2>1, <2>2, <2>8 DEF Of
    <3>2. CASE /\ workflows[w].status = "running"
               /\ \A b \in Of(w) : activities'[b].status = "completed"
      <4>1. workflows'[v].status = "completed"
        BY <2>1, <2>6, <2>8, <3>2 DEF Workflow
      <4> QED
        BY <2>5, <2>8, <3>1, <3>2, <4>1 DEF StatusFacts
    <3>3. CASE ~(/\ workflows[w].status = "running"
                 /\ \A b \in Of(w) : activities'[b].status = "completed")
      <4>1. workflows'[v] = workflows[v]
        BY <2>1, <3>3
      <4> QED
        BY <2>1, <2>5, <2>8, <3>1, <3>3, <4>1 DEF StatusFacts
    <3> QED
      BY <3>2, <3>3
  <2> QED
    BY <2>7, <2>8
<1> QED
  BY <1>1, <1>2

\* What an accepted failure does to the rows.
LEMMA FailEffect ==
  ASSUME TypeOK, NEW c \in claims, NEW retryable \in BOOLEAN, Fail(c, retryable),
         ~Rejected("Fail", c, "activity.stale_failure_rejected")
  PROVE  LET a == c.activity
             w == activities[a].workflow
         IN /\ a \in ActivityIds /\ w \in WorkflowIds
            /\ currentLease(a, c.worker, c.token)
            /\ activities[a].status = "running"
            /\ \A b \in ActivityIds : /\ activities'[b].workflow = activities[b].workflow
                                      /\ b = a \/ activities'[b] = activities[b]
            /\ \/ /\ activities'[a].status = "retry_pending" /\ UNCHANGED workflows
                  /\ retryable /\ activities[a].attempt < activities[a].maxAttempts
               \/ /\ activities'[a].status = "failed"
                  /\ workflows' = [workflows EXCEPT ![w].status = "failed"]
                  /\ ~(retryable /\ activities[a].attempt < activities[a].maxAttempts)
            /\ UNCHANGED <<nextWorkflow, nextActivity>>
<1> DEFINE a == c.activity
           w == activities[a].workflow
<1>1. /\ a \in ActivityIds /\ w \in WorkflowIds /\ activities[a] \in Activity /\ now \in Nat
      /\ activities \in [ActivityIds -> Activity] /\ "failed" \in ActivityStatus
  BY DEF TypeOK, ActivityStatus
<1>2. /\ currentLease(a, c.worker, c.token)
      /\ \/ /\ activities' = [activities EXCEPT ![a] = Retrying(@)] /\ UNCHANGED workflows
            /\ retryable /\ activities[a].attempt < activities[a].maxAttempts
         \/ /\ activities' = [activities EXCEPT ![a] = Freed(@, "failed")]
            /\ workflows' = [workflows EXCEPT ![w].status = "failed"]
            /\ ~(retryable /\ activities[a].attempt < activities[a].maxAttempts)
      /\ UNCHANGED <<nextWorkflow, nextActivity>>
  BY DEF Fail
<1>3. /\ Retrying(activities[a]).workflow = w /\ Retrying(activities[a]).status = "retry_pending"
      /\ Freed(activities[a], "failed").workflow = w
      /\ Freed(activities[a], "failed").status = "failed"
  BY <1>1, RetryingRow, FreedRow DEF SameIdentity
<1>4. activities[a].status = "running"
  BY <1>2 DEF currentLease
<1> QED
  BY <1>1, <1>2, <1>3, <1>4

\* A failure without budget fails the workflow, whatever its status.
LEMMA FailStatus ==
  ASSUME StatusInv, TypeOK', NEW c \in claims, NEW retryable \in BOOLEAN, Fail(c, retryable)
  PROVE  StatusInv'
<1>1. CASE Rejected("Fail", c, "activity.stale_failure_rejected")
  BY <1>1, QuietStatus DEF Rejected
<1>2. CASE ~Rejected("Fail", c, "activity.stale_failure_rejected")
  <2> DEFINE a == c.activity
             w == activities[a].workflow
  <2>1. /\ a \in ActivityIds /\ w \in WorkflowIds /\ activities[a].status = "running"
        /\ \A b \in ActivityIds : /\ activities'[b].workflow = activities[b].workflow
                                  /\ b = a \/ activities'[b] = activities[b]
        /\ \/ activities'[a].status = "retry_pending" /\ UNCHANGED workflows
           \/ /\ activities'[a].status = "failed"
              /\ workflows' = [workflows EXCEPT ![w].status = "failed"]
        /\ UNCHANGED <<nextWorkflow, nextActivity>>
    BY <1>2, FailEffect DEF StatusInv
  <2>2. w = activities[a].workflow
    OBVIOUS
  <2> HIDE DEF a, w
  <2>3. CASE activities'[a].status = "retry_pending" /\ UNCHANGED workflows
    BY <2>1, <2>3, QuietStatus
  <2>4. CASE /\ activities'[a].status = "failed"
             /\ workflows' = [workflows EXCEPT ![w].status = "failed"]
    <3>1. WorkflowIds' = WorkflowIds /\ ActivityIds' = ActivityIds
      BY <2>1 DEF WorkflowIds, ActivityIds
    <3>2. SUFFICES ASSUME NEW v \in WorkflowIds PROVE StatusFacts(v)'
      BY <3>1 DEF StatusInv
    <3>3. Of(v)' = Of(v) /\ Of(v) \subseteq ActivityIds /\ StatusFacts(v)
      BY <2>1, <3>1 DEF Of, StatusInv
    <3>4. workflows \in [WorkflowIds -> Workflow]
      BY DEF StatusInv, TypeOK
    <3>5. CASE v # w
      <4>1. workflows'[v] = workflows[v] /\ a \notin Of(v)
        BY <2>2, <2>4, <3>4, <3>5 DEF Of
      <4> QED
        BY <2>1, <3>3, <4>1 DEF StatusFacts
    <3>6. CASE v = w
      <4>1. workflows'[v].status = "failed" /\ a \in Of(v)
        BY <2>1, <2>2, <2>4, <3>4, <3>6 DEF Of, Workflow
      <4> QED
        BY <2>4, <3>3, <4>1 DEF StatusFacts
    <3> QED
      BY <3>5, <3>6
  <2> QED
    BY <2>1, <2>3, <2>4
<1> QED
  BY <1>1, <1>2

\* Cancel leaves no failed activity behind, for it starts from none.
LEMMA CancelStatus ==
  ASSUME StatusInv, TypeOK', NEW w \in WorkflowIds, Cancel(w)
  PROVE  StatusInv'
<1>1. UNCHANGED <<nextWorkflow, nextActivity>>
  BY DEF Cancel
<1>2. CASE workflows[w].status # "running"
  BY <1>1, <1>2, QuietStatus DEF Cancel
<1>3. CASE workflows[w].status = "running"
  <2>1. /\ workflows' = [workflows EXCEPT ![w].status = "cancelled"]
        /\ \A a \in ActivityIds :
             activities'[a] = IF a \in Pending(w) THEN [activities[a] EXCEPT !.status = "cancelled"]
                              ELSE activities[a]
    BY <1>3 DEF Cancel
  <2>2. /\ activities \in [ActivityIds -> Activity] /\ workflows \in [WorkflowIds -> Workflow]
    BY DEF StatusInv, TypeOK
  <2>3. \A a \in ActivityIds :
          /\ activities'[a].workflow = activities[a].workflow
          /\ activities'[a].status = IF a \in Pending(w) THEN "cancelled" ELSE activities[a].status
    BY <2>1, <2>2 DEF Activity
  <2>4. WorkflowIds' = WorkflowIds /\ ActivityIds' = ActivityIds
    BY <1>1 DEF WorkflowIds, ActivityIds
  <2>5. SUFFICES ASSUME NEW v \in WorkflowIds PROVE StatusFacts(v)'
    BY <2>4 DEF StatusInv
  <2>6. Of(v)' = Of(v) /\ Of(v) \subseteq ActivityIds /\ StatusFacts(v)
    BY <2>3, <2>4 DEF Of, StatusInv
  <2>7. CASE v # w
    <3>1. workflows'[v] = workflows[v] /\ Of(v) \cap Pending(w) = {}
      BY <2>1, <2>2, <2>7 DEF Of, Pending
    <3> QED
      BY <2>3, <2>6, <3>1 DEF StatusFacts
  <2>8. CASE v = w
    <3>1. workflows'[v].status = "cancelled"
      BY <2>1, <2>2, <2>8 DEF Workflow
    <3> QED
      BY <1>3, <2>3, <2>6, <2>8, <3>1 DEF StatusFacts
  <2> QED
    BY <2>7, <2>8
<1> QED
  BY <1>2, <1>3

\* What a scheduler pass does to each row, and which workflows it fails.
LEMMA SchedulerEffect ==
  ASSUME TypeOK, RunSchedulerPass
  PROVE  LET Exhausted(a) == Expired(a) /\ ~(activities[a].attempt < activities[a].maxAttempts)
         IN /\ UNCHANGED <<nextWorkflow, nextActivity>>
            /\ \A a \in ActivityIds :
                 /\ activities'[a].workflow = activities[a].workflow
                 /\ activities'[a].status = IF Exhausted(a) THEN "failed"
                                            ELSE IF Expired(a) \/ Due(activities, a) THEN "ready"
                                            ELSE activities[a].status
            /\ \A w \in WorkflowIds :
                 workflows'[w].status = IF \E a \in Of(w) : Exhausted(a) THEN "failed"
                                        ELSE workflows[w].status
<1> DEFINE Exhausted(a) == Expired(a) /\ ~(activities[a].attempt < activities[a].maxAttempts)
           changed == {a \in ActivityIds : Expired(a) \/ Due(activities, a)}
           failing == {a \in changed : Swept(a).type = "activity.lease_expired_failed"}
<1>1. /\ UNCHANGED <<nextWorkflow, nextActivity>>
      /\ \A a \in ActivityIds : activities'[a] = IF a \in changed THEN Swept(a).row ELSE activities[a]
      /\ \A w \in WorkflowIds : workflows'[w] = IF \E a \in failing : activities[a].workflow = w
                                                THEN [workflows[w] EXCEPT !.status = "failed"]
                                                ELSE workflows[w]
  BY DEF RunSchedulerPass
<1>2. ASSUME NEW a \in ActivityIds
      PROVE  /\ activities'[a].workflow = activities[a].workflow
             /\ activities'[a].status = IF Exhausted(a) THEN "failed"
                                        ELSE IF Expired(a) \/ Due(activities, a) THEN "ready"
                                        ELSE activities[a].status
             /\ a \in failing <=> Exhausted(a)
  <2>1. activities[a] \in Activity /\ {"ready", "failed"} \subseteq ActivityStatus
    BY DEF TypeOK, ActivityStatus
  <2>2. CASE Exhausted(a)
    <3>1. Swept(a) = [row |-> Freed(activities[a], "failed"), type |-> "activity.lease_expired_failed"]
      BY <2>2, SweptCases
    <3> QED
      BY <1>1, <2>1, <2>2, <3>1, FreedRow DEF SameIdentity
  <2>3. CASE Expired(a) /\ ~Exhausted(a)
    <3>1. Swept(a) = [row |-> Freed(activities[a], "ready"), type |-> "activity.lease_expired"]
      BY <2>3, SweptCases
    <3> QED
      BY <1>1, <2>1, <2>3, <3>1, FreedRow DEF SameIdentity
  <2>4. CASE ~Expired(a) /\ Due(activities, a)
    <3>1. Swept(a) = [row |-> [activities[a] EXCEPT !.status = "ready"], type |-> "activity.ready"]
      BY <2>4, SweptCases
    <3>2. /\ [activities[a] EXCEPT !.status = "ready"].workflow = activities[a].workflow
          /\ [activities[a] EXCEPT !.status = "ready"].status = "ready"
      BY <2>1 DEF Activity
    <3>3. activities'[a] = [activities[a] EXCEPT !.status = "ready"] /\ a \notin failing
      BY <1>1, <2>4, <3>1
    <3> QED
      BY <2>4, <3>2, <3>3
  <2>5. CASE ~Expired(a) /\ ~Due(activities, a)
    BY <1>1, <2>5
  <2> QED
    BY <2>2, <2>3, <2>4, <2>5
<1>3. failing \subseteq ActivityIds
  OBVIOUS
<1> HIDE DEF failing, changed, Exhausted
<1>4. ASSUME NEW w \in WorkflowIds
      PROVE  workflows'[w].status = IF \E a \in Of(w) : Exhausted(a) THEN "failed"
                                    ELSE workflows[w].status
  <2>1. (\E a \in failing : activities[a].workflow = w) <=> (\E a \in Of(w) : Exhausted(a))
    BY <1>2, <1>3 DEF Of
  <2>2. workflows[w] \in Workflow
    BY DEF TypeOK
  <2> QED
    BY <1>1, <2>1, <2>2 DEF Workflow
<1> QED
  BY <1>1, <1>2, <1>4 DEF Exhausted

\* A pass fails exactly the workflows it leaves with an exhausted activity.
LEMMA RunSchedulerPassStatus ==
  ASSUME StatusInv, TypeOK', RunSchedulerPass
  PROVE  StatusInv'
<1> DEFINE Exhausted(a) == Expired(a) /\ ~(activities[a].attempt < activities[a].maxAttempts)
<1>1. /\ UNCHANGED <<nextWorkflow, nextActivity>>
      /\ \A a \in ActivityIds :
           /\ activities'[a].workflow = activities[a].workflow
           /\ activities'[a].status = IF Exhausted(a) THEN "failed"
                                      ELSE IF Expired(a) \/ Due(activities, a) THEN "ready"
                                      ELSE activities[a].status
      /\ \A w \in WorkflowIds :
           workflows'[w].status = IF \E a \in Of(w) : Exhausted(a) THEN "failed"
                                  ELSE workflows[w].status
  BY SchedulerEffect DEF StatusInv
<1>2. \A a \in ActivityIds :
        /\ Exhausted(a) => activities[a].status = "running"
        /\ Expired(a) \/ Due(activities, a) => activities[a].status \in {"running", "retry_pending"}
  BY DEF Expired, Due
<1> HIDE DEF Exhausted
<1>3. WorkflowIds' = WorkflowIds /\ ActivityIds' = ActivityIds
  BY <1>1 DEF WorkflowIds, ActivityIds
<1>4. SUFFICES ASSUME NEW w \in WorkflowIds PROVE StatusFacts(w)'
  BY <1>3 DEF StatusInv
<1>5. Of(w)' = Of(w) /\ Of(w) \subseteq ActivityIds /\ StatusFacts(w)
  BY <1>1, <1>3 DEF Of, StatusInv
<1>6. CASE \E a \in Of(w) : Exhausted(a)
  BY <1>1, <1>5, <1>6 DEF StatusFacts
<1>7. CASE ~\E a \in Of(w) : Exhausted(a)
  <2>1. /\ workflows'[w].status = workflows[w].status
        /\ \A a \in Of(w) : \/ activities'[a].status = activities[a].status
                            \/ /\ activities[a].status \in {"running", "retry_pending"}
                               /\ activities'[a].status = "ready"
    BY <1>1, <1>2, <1>5, <1>7
  <2> QED
    BY <1>5, <2>1 DEF StatusFacts
<1> QED
  BY <1>6, <1>7

\* The row of a new activity.
LEMMA NewRow ==
  ASSUME NEW w, NEW d
  PROVE  /\ NewActivity(w, d).workflow = w /\ NewActivity(w, d).name = d.name
         /\ NewActivity(w, d).dependsOn = d.dependsOn
         /\ NewActivity(w, d).status \in {"ready", "retry_pending"}
         /\ NewActivity(w, d).status = IF d.dependsOn = {} THEN "ready" ELSE "retry_pending"
         /\ NewActivity(w, d).attempt = 0 /\ NewActivity(w, d).fencingToken = 0
         /\ NewActivity(w, d).leaseOwner = Empty
BY DEF NewActivity

\* The rows of a new workflow: whatever waits for something, waits, since all
\* that Start has validated as a dependency is as new.  releaseReadyLocked has
\* nothing to release.
LEMMA CreateEffect ==
  ASSUME TypeOK, NEW def \in Definitions, NEW key \in Keys, ValidDefinition(def), Create(def, key)
  PROVE  LET w   == nextWorkflow + 1
             n   == nextActivity
             len == Len(def.activities)
         IN /\ len \in Nat /\ w \in Nat /\ n \in Nat
            /\ nextWorkflow' = w /\ nextActivity' = n + len
            /\ workflows' = [v \in 1 .. w |->
                              IF v < w THEN workflows[v]
                              ELSE [namespace |-> def.namespace, key |-> key, status |-> "running"]]
            /\ \A a \in 1 .. n : activities'[a] = activities[a] /\ activities[a].workflow \in 1 .. w - 1
            /\ \A a \in n + 1 .. n + len :
                 /\ a - n \in 1 .. len /\ def.activities[a - n] \in ActivityDefinition
                 /\ activities'[a] = NewActivity(w, def.activities[a - n])
            /\ activities' = [a \in 1 .. n + len |-> activities'[a]]
            /\ events' = events \cup {EventAt(nextEvent + 1, w, 0, "workflow.started")}
                 \cup EventsInOrder(activities', [a \in n + 1 .. n + len |-> "activity.scheduled"],
                                    nextEvent + 1)
            /\ nextEvent' = nextEvent + 1 + len
<1> DEFINE w     == nextWorkflow + 1
           n     == nextActivity
           len   == Len(def.activities)
           ids   == n + 1 .. n + len
           acts  == [a \in 1 .. n + len |->
                      IF a <= n THEN activities[a]
                      ELSE NewActivity(w, def.activities[a - n])]
           ready == Releasable(acts, w)
<1>1. /\ len \in Nat /\ w \in Nat /\ n \in Nat /\ nextWorkflow \in Nat /\ nextEvent \in Nat
      /\ DOMAIN def.activities = 1 .. len
      /\ \A i \in 1 .. len : def.activities[i] \in ActivityDefinition
  BY EngineAssumption DEF WorkflowDefinition, TypeOK
<1>2. /\ nextWorkflow' = w /\ nextActivity' = n + len
      /\ workflows' = [v \in 1 .. w |->
                        IF v < w THEN workflows[v]
                        ELSE [namespace |-> def.namespace, key |-> key, status |-> "running"]]
      /\ activities' = releaseReady(acts, w)
      /\ events' = events \cup {EventAt(nextEvent + 1, w, 0, "workflow.started")}
          \cup EventsInOrder(acts, [a \in ids |-> "activity.scheduled"], nextEvent + 1)
          \cup EventsInOrder(acts, [a \in ready |-> "activity.ready"], nextEvent + 1 + len)
      /\ nextEvent' = nextEvent + 1 + len + Cardinality(ready)
  BY DEF Create
<1> HIDE DEF len
<1>3. ASSUME NEW a \in 1 .. n
      PROVE  acts[a] = activities[a] /\ activities[a].workflow \in 1 .. w - 1
  BY <1>1 DEF TypeOK, ActivityIds, WorkflowIds
<1>4. ASSUME NEW a \in ids
      PROVE  /\ a - n \in 1 .. len /\ def.activities[a - n] \in ActivityDefinition
             /\ acts[a] = NewActivity(w, def.activities[a - n])
  BY <1>1
<1>5. 1 .. n + len = (1 .. n) \cup ids
  BY <1>1
<1>6. DOMAIN acts = 1 .. n + len
  OBVIOUS
<1>7. w \notin 1 .. w - 1
  BY <1>1
<1> HIDE DEF acts, w, ids
<1>8. ready = {}
  <2> SUFFICES ASSUME NEW a \in ready PROVE FALSE
    OBVIOUS
  <2>1. /\ a \in DOMAIN acts /\ acts[a].workflow = w /\ acts[a].status = "retry_pending"
        /\ dependenciesComplete(acts, a)
    BY DEF Releasable, Due
  <2>2. a \in ids
    BY <1>3, <1>5, <1>6, <1>7, <2>1
  <2> DEFINE d == def.activities[a - n]
  <2>3. a - n \in 1 .. len /\ acts[a] = NewActivity(w, d)
    BY <1>4, <2>2
  <2>4. acts[a].dependsOn = d.dependsOn /\ d.dependsOn # {}
    <3> HIDE DEF d
    <3> QED
      BY <2>1, <2>3 DEF NewActivity
  <2>5. PICK name \in d.dependsOn : TRUE
    BY <2>4
  <2>6. PICK j \in 1 .. len : def.activities[j].name = name
    BY <1>1, <2>3, <2>5 DEF ValidDefinition
  <2>7. n + j \in ids /\ (n + j) - n = j
    BY <1>1, <2>6 DEF ids
  <2>8. acts[n + j] = NewActivity(w, def.activities[j])
    BY <1>4, <2>7
  <2> HIDE DEF d
  <2>9. /\ acts[n + j].workflow = w /\ acts[n + j].name = name
        /\ acts[n + j].status # "completed"
    BY <2>6, <2>8 DEF NewActivity
  <2>10. n + j \in DOMAIN acts
    BY <1>5, <1>6, <2>7
  <2> QED
    BY <2>1, <2>4, <2>5, <2>9, <2>10 DEF dependenciesComplete
<1>9. activities' = acts
  <2>1. activities' = [a \in 1 .. n + len |-> acts[a]]
    BY <1>2, <1>6, <1>8 DEF releaseReady
  <2> QED
    BY <2>1 DEF acts
<1>10. EventsInOrder(acts, [a \in ready |-> "activity.ready"], nextEvent + 1 + len) = {}
  BY <1>8 DEF EventsInOrder
<1>11. nextEvent' = nextEvent + 1 + len
  BY <1>1, <1>2, <1>8, FS_EmptySet
<1>12. activities' = [a \in 1 .. n + len |-> activities'[a]]
  BY <1>9 DEF acts
<1> QED
  BY <1>1, <1>2, <1>3, <1>4, <1>9, <1>10, <1>11, <1>12 DEF w, ids, len

\* A new workflow has an activity, and none that is settled.
LEMMA StartStatus ==
  ASSUME StatusInv, TypeOK', NEW def \in Definitions, NEW key \in Keys, Start(def, key)
  PROVE  StatusInv'
<1>1. CASE UNCHANGED store
  BY <1>1, QuietStatus DEF store
<1>2. CASE ~UNCHANGED store
  <2> DEFINE w   == nextWorkflow + 1
             len == Len(def.activities)
  <2>1. Create(def, key) /\ def.activities # <<>> /\ ValidDefinition(def)
    BY <1>2 DEF Start
  <2>2. /\ len \in Nat /\ w \in Nat /\ nextActivity \in Nat /\ nextWorkflow \in Nat
        /\ nextWorkflow' = w /\ nextActivity' = nextActivity + len
        /\ workflows' = [v \in 1 .. w |->
                          IF v < w THEN workflows[v]
                          ELSE [namespace |-> def.namespace, key |-> key, status |-> "running"]]
        /\ \A a \in 1 .. nextActivity :
             activities'[a] = activities[a] /\ activities[a].workflow \in 1 .. w - 1
        /\ \A a \in nextActivity + 1 .. nextActivity + len :
             activities'[a] = NewActivity(w, def.activities[a - nextActivity])
    BY <2>1, CreateEffect DEF StatusInv, TypeOK
  <2>3. len > 0
    BY <2>1, EngineAssumption DEF WorkflowDefinition
  <2> HIDE DEF len
  <2>4. /\ ActivityIds' = ActivityIds \cup (nextActivity + 1 .. nextActivity + len)
        /\ nextActivity + 1 \in nextActivity + 1 .. nextActivity + len
        /\ WorkflowIds' = WorkflowIds \cup {w}
    BY <2>2, <2>3 DEF ActivityIds, WorkflowIds
  <2>5. \A a \in nextActivity + 1 .. nextActivity + len :
          activities'[a].workflow = w /\ activities'[a].status \in {"ready", "retry_pending"}
    BY <2>2, NewRow
  <2>6. \A a \in ActivityIds : activities'[a] = activities[a] /\ activities[a].workflow # w
    BY <2>2 DEF ActivityIds
  <2>7. SUFFICES ASSUME NEW v \in WorkflowIds' PROVE StatusFacts(v)'
    BY DEF StatusInv
  <2>8. CASE v = w
    <3>1. workflows'[v].status = "running"
      BY <2>2, <2>8
    <3>2. Of(v)' = nextActivity + 1 .. nextActivity + len
      BY <2>4, <2>5, <2>6, <2>8 DEF Of
    <3> QED
      BY <2>4, <2>5, <3>1, <3>2 DEF StatusFacts
  <2>9. CASE v # w
    <3>1. v \in WorkflowIds /\ workflows'[v] = workflows[v]
      BY <2>2, <2>4, <2>9 DEF WorkflowIds
    <3>2. Of(v)' = Of(v) /\ Of(v) \subseteq ActivityIds /\ StatusFacts(v)
      BY <2>4, <2>5, <2>6, <2>9, <3>1 DEF Of, StatusInv
    <3> QED
      BY <2>6, <3>1, <3>2 DEF StatusFacts
  <2> QED
    BY <2>8, <2>9
<1> QED
  BY <1>1, <1>2

\* Every step keeps the workflows' statuses explained.
LEMMA StatusStep == StatusInv /\ [Next]_vars => StatusInv'
<1> SUFFICES ASSUME StatusInv, [Next]_vars PROVE StatusInv'
  OBVIOUS
<1>1. TypeOK'
  BY NextType DEF StatusInv
<1>2. ASSUME NEW def \in Definitions, NEW key \in Keys, Start(def, key) PROVE StatusInv'
  BY <1>1, <1>2, StartStatus
<1>3. ASSUME NEW worker \in Workers, NEW queue \in TaskQueues, Claim(worker, queue) PROVE StatusInv'
  BY <1>1, <1>3, ClaimStatus
<1>4. ASSUME NEW c \in claims, Heartbeat(c) PROVE StatusInv'
  BY <1>1, <1>4, HeartbeatStatus
<1>5. ASSUME NEW c \in claims, Complete(c) PROVE StatusInv'
  BY <1>1, <1>5, CompleteStatus
<1>6. ASSUME NEW c \in claims, NEW retryable \in BOOLEAN, Fail(c, retryable) PROVE StatusInv'
  BY <1>1, <1>6, FailStatus
<1>7. ASSUME NEW w \in WorkflowIds, Cancel(w) PROVE StatusInv'
  BY <1>1, <1>7, CancelStatus
<1>8. CASE RunSchedulerPass
  BY <1>1, <1>8, RunSchedulerPassStatus
<1>9. CASE Tick
  BY <1>1, <1>9, QuietStatus DEF Tick, store
<1>10. CASE UNCHANGED vars
  BY <1>1, <1>10, QuietStatus DEF vars, store
<1> QED
  BY <1>2, <1>3, <1>4, <1>5, <1>6, <1>7, <1>8, <1>9, <1>10 DEF Next

\* An engine without workflows has nothing to explain.
LEMMA StatusInit == Init => StatusInv
<1> SUFFICES ASSUME Init PROVE StatusInv
  OBVIOUS
<1>1. WorkflowIds = {}
  BY DEF Init, WorkflowIds
<1> QED
  BY <1>1, InitType DEF StatusInv

\* Through any interleaving of completions, failures, cancellations and
\* expiries: a workflow's status is what its activities say, and no
\* completion misses that it is the last.
THEOREM StatusesAreExplained == Spec => []WorkflowStatusExplained
BY StatusInit, StatusStep, StatusFactsExplain, PTL DEF Spec

-----------------------------------------------------------------------------
(* Whose results are accepted.                                             *)

\* A lease that passes currentLease is the newest claim's, and lasts.
LEMMA CurrentLeaseIsLatest ==
  ASSUME FencingInv, NEW c \in claims, currentLease(c.activity, c.worker, c.token)
  PROVE  /\ \A d \in claims : d.activity = c.activity => d.token < c.token \/ d = c
         /\ activities[c.activity].leaseExpiresAt > now
<1>1. /\ c.activity \in ActivityIds /\ activities[c.activity].status = "running"
      /\ activities[c.activity].fencingToken = c.token
      /\ activities[c.activity].leaseExpiresAt = 0 \/ activities[c.activity].leaseExpiresAt > now
  BY DEF currentLease, FencingInv, TypeOK
<1>2. activities[c.activity].leaseExpiresAt \in Nat /\ activities[c.activity].leaseExpiresAt > 0
  BY <1>1 DEF FencingInv, RunningRows, TypeOK, Activity
<1>3. ASSUME NEW d \in claims, d.activity = c.activity PROVE d.token < c.token \/ d = c
  <2>1. d.token <= c.token /\ d.token \in Nat /\ c.token \in Nat
    BY <1>1, <1>3 DEF FencingInv, GrantedTokens, TypeOK
  <2> QED
    BY <1>3, <2>1 DEF FencingInv, GrantedTokens
<1> QED
  BY <1>1, <1>2, <1>3

\* Whatever retries and takeovers there are: a heartbeat, a completion or a
\* failure is accepted from the newest claim on the activity only, and only
\* while its lease lasts.
THEOREM LatestClaimAccepted == Spec => OnlyLatestClaimAccepted
<1>1. ASSUME FencingInv, NEW c \in claims, reply'.err = "nil",
             Complete(c) \/ Heartbeat(c) \/ (\E r \in BOOLEAN : Fail(c, r))
      PROVE  currentLease(c.activity, c.worker, c.token)
  <2>1. ASSUME NEW op, NEW stale, Rejected(op, c, stale) PROVE FALSE
    BY <1>1, <2>1 DEF Rejected, Answer
  <2>2. CASE Complete(c)
    BY <2>1, <2>2 DEF Complete
  <2>3. CASE Heartbeat(c)
    BY <2>1, <2>3 DEF Heartbeat
  <2>4. CASE \E r \in BOOLEAN : Fail(c, r)
    BY <2>1, <2>4 DEF Fail
  <2> QED
    BY <1>1, <2>2, <2>3, <2>4
<1>2. FencingInv =>
        \A c \in claims :
          /\ Complete(c) \/ Heartbeat(c) \/ (\E r \in BOOLEAN : Fail(c, r))
          /\ reply'.err = "nil"
          => /\ \A d \in claims : d.activity = c.activity => d.token < c.token \/ d = c
             /\ activities[c.activity].leaseExpiresAt > now
  BY <1>1, CurrentLeaseIsLatest
<1> QED
  BY <1>2, FencingAlways, PTL DEF OnlyLatestClaimAccepted

-----------------------------------------------------------------------------
(* The log.  That the last entry of an activity tells its status is only    *)
(* inductive if every new entry comes after all the others, and no entry    *)
(* speaks of an activity that does not exist yet.  That a completed         *)
(* workflow is closed needs the explanation of its status: none of its      *)
(* activities is left that a call or the scheduler could log.               *)

MoveTypes == DOMAIN StatusAfter

ClaimEvents(a) == {e \in events : e.activity = a /\ e.type = "activity.claimed"}

LogNumbered ==
  /\ \A e \in events : /\ e.sequence <= nextEvent
                       /\ e.workflow \in WorkflowIds
                       /\ e.activity \in {0} \cup ActivityIds
  /\ \A a \in ActivityIds : IsFiniteSet(ClaimEvents(a))

HistoryInv == TypeOK /\ LogNumbered /\ CompletionClosesHistory /\ HistoryExplainsStatus

\* What the entries New tell of activity a: nothing, and nothing happens to
\* it, or the one transition it makes.
Told(a, New) ==
  LET told == {e \in New : e.activity = a /\ e.type \in MoveTypes}
      s    == activities'[a]
  IN \/ /\ a \in ActivityIds /\ told = {}
        /\ s.status = activities[a].status /\ s.attempt = activities[a].attempt
        /\ s.dependsOn = activities[a].dependsOn
     \/ /\ a \in ActivityIds
        /\ \E e : /\ told = {e} /\ s.status = StatusAfter[e.type]
                  /\ s.attempt = IF e.type = "activity.claimed" THEN activities[a].attempt + 1
                                 ELSE activities[a].attempt
     \/ /\ a \notin ActivityIds /\ told = {}
        /\ s.status = IF s.dependsOn = {} THEN "ready" ELSE "retry_pending"
        /\ s.attempt = 0

\* What a step may write.
LogStep(New) ==
  /\ nextActivity <= nextActivity' /\ nextWorkflow <= nextWorkflow' /\ nextEvent <= nextEvent'
  /\ events' = events \cup New
  /\ \A e \in New : /\ nextEvent < e.sequence /\ e.sequence <= nextEvent'
                    /\ e.workflow \in WorkflowIds' /\ e.activity \in {0} \cup ActivityIds'
                    /\ e.workflow \in WorkflowIds => workflows[e.workflow].status # "completed"
  /\ \A a \in ActivityIds' : Told(a, New)
  /\ \A w \in WorkflowIds' : workflows'[w].status = "completed" =>
       \/ w \in WorkflowIds /\ workflows[w].status = "completed"
       \/ \E e \in New : /\ e.workflow = w /\ e.type = "workflow.completed"
                         /\ e.sequence = nextEvent'

\* The transitions the log knows, and where they lead.
LEMMA StatusAfterValues ==
  /\ MoveTypes = {"activity.ready", "activity.lease_expired", "activity.claimed",
                  "activity.completed", "activity.retry_scheduled", "activity.cancelled",
                  "activity.failed", "activity.lease_expired_failed"}
  /\ StatusAfter["activity.ready"] = "ready"
  /\ StatusAfter["activity.lease_expired"] = "ready"
  /\ StatusAfter["activity.claimed"] = "running"
  /\ StatusAfter["activity.completed"] = "completed"
  /\ StatusAfter["activity.retry_scheduled"] = "retry_pending"
  /\ StatusAfter["activity.cancelled"] = "cancelled"
  /\ StatusAfter["activity.failed"] = "failed"
  /\ StatusAfter["activity.lease_expired_failed"] = "failed"
BY DEF MoveTypes, StatusAfter

\* Sequences are numbers.
LEMMA SequenceType == TypeOK => nextEvent \in Nat /\ \A e \in events : e.sequence \in Nat
BY DEF TypeOK, Event

\* A step that writes so keeps the log numbered.
LEMMA NumberedStep ==
  ASSUME HistoryInv, TypeOK', NEW New, LogStep(New)
  PROVE  LogNumbered'
<1>1. /\ ActivityIds \subseteq ActivityIds' /\ WorkflowIds \subseteq WorkflowIds'
      /\ nextEvent \in Nat /\ nextEvent' \in Nat /\ nextEvent <= nextEvent'
  BY DEF HistoryInv, TypeOK, LogStep, ActivityIds, WorkflowIds
<1>2. ASSUME NEW e \in events'
      PROVE  e.sequence <= nextEvent' /\ e.workflow \in WorkflowIds' /\ e.activity \in {0} \cup ActivityIds'
  <2>1. CASE e \in events
    BY <1>1, <2>1, SequenceType DEF HistoryInv, LogNumbered
  <2>2. CASE e \in New
    BY <2>2 DEF LogStep
  <2> QED
    BY <2>1, <2>2 DEF LogStep
<1>3. ASSUME NEW a \in ActivityIds' PROVE IsFiniteSet(ClaimEvents(a)')
  <2>1. IsFiniteSet(ClaimEvents(a))
    <3>1. CASE a \in ActivityIds
      BY <3>1 DEF HistoryInv, LogNumbered
    <3>2. CASE a \notin ActivityIds
      <4>1. a # 0
        BY DEF ActivityIds
      <4>2. ClaimEvents(a) = {}
        BY <3>2, <4>1 DEF ClaimEvents, HistoryInv, LogNumbered
      <4> QED
        BY <4>2, FS_EmptySet
    <3> QED
      BY <3>1, <3>2
  <2> DEFINE told == {e \in New : e.activity = a /\ e.type \in MoveTypes}
  <2>2. \/ told = {} \/ \E e : told = {e}
    BY DEF LogStep, Told
  <2>3. "activity.claimed" \in MoveTypes
    BY StatusAfterValues
  <2>4. ClaimEvents(a)' \subseteq ClaimEvents(a) \cup told
    BY <2>3 DEF ClaimEvents, LogStep
  <2>5. IsFiniteSet(ClaimEvents(a) \cup told)
    BY <2>1, <2>2, FS_AddElement
  <2> QED
    BY <2>4, <2>5, FS_Subset
<1> QED
  BY <1>2, <1>3 DEF LogNumbered

\* A step that writes so leaves a completed workflow's history closed.
LEMMA ClosedStep ==
  ASSUME HistoryInv, TypeOK', NEW New, LogStep(New)
  PROVE  CompletionClosesHistory'
<1> SUFFICES ASSUME NEW w \in WorkflowIds', workflows'[w].status = "completed"
             PROVE  \E e \in events' : /\ e.workflow = w /\ e.type = "workflow.completed"
                                       /\ \A f \in events' : f.workflow = w => f.sequence <= e.sequence
  BY DEF CompletionClosesHistory
<1>1. CASE w \in WorkflowIds /\ workflows[w].status = "completed"
  <2>1. PICK e \in events : /\ e.workflow = w /\ e.type = "workflow.completed"
                            /\ \A f \in events : f.workflow = w => f.sequence <= e.sequence
    BY <1>1 DEF HistoryInv, CompletionClosesHistory
  <2>2. \A f \in New : f.workflow # w
    BY <1>1 DEF LogStep
  <2> QED
    BY <2>1, <2>2 DEF LogStep
<1>2. CASE \E e \in New : /\ e.workflow = w /\ e.type = "workflow.completed"
                          /\ e.sequence = nextEvent'
  <2>1. PICK e \in New : /\ e.workflow = w /\ e.type = "workflow.completed"
                         /\ e.sequence = nextEvent'
    BY <1>2
  <2>2. \A f \in events' : f.sequence <= nextEvent'
    BY NumberedStep DEF LogNumbered
  <2> QED
    BY <2>1, <2>2 DEF LogStep
<1> QED
  BY <1>1, <1>2 DEF LogStep

\* A step that writes so leaves the log telling every activity's status.
LEMMA ExplainedStep ==
  ASSUME HistoryInv, TypeOK', NEW New, LogStep(New)
  PROVE  HistoryExplainsStatus'
<1> SUFFICES ASSUME NEW a \in ActivityIds'
             PROVE  LET moves == {e \in events' : e.activity = a /\ e.type \in DOMAIN StatusAfter}
                        act   == activities'[a]
                    IN /\ \A e \in moves : (\A f \in moves : f.sequence <= e.sequence)
                                             => act.status = StatusAfter[e.type]
                       /\ moves = {} => act.status = IF act.dependsOn = {} THEN "ready" ELSE "retry_pending"
                       /\ act.attempt = Cardinality({e \in moves : e.type = "activity.claimed"})
  BY DEF HistoryExplainsStatus, StatusAfter
<1> DEFINE old   == {e \in events : e.activity = a /\ e.type \in MoveTypes}
           told  == {e \in New : e.activity = a /\ e.type \in MoveTypes}
           moves == {e \in events' : e.activity = a /\ e.type \in MoveTypes}
           act   == activities'[a]
<1>1. moves = old \cup told
  BY DEF LogStep
<1>2. /\ \A e \in old : e.sequence <= nextEvent /\ e.sequence \in Nat
      /\ \A e \in told : nextEvent < e.sequence
      /\ nextEvent \in Nat
      /\ \A e \in told : e.sequence \in Nat
  <2>1. \A e \in events' : e.sequence \in Nat
    BY SequenceType DEF TypeOK, Event
  <2> QED
    BY <2>1, SequenceType DEF HistoryInv, LogNumbered, LogStep
<1>3. old \cap told = {}
  BY <1>2
<1>4. {e \in old : e.type = "activity.claimed"} = ClaimEvents(a)
  BY StatusAfterValues DEF ClaimEvents
<1>5. a \in ActivityIds =>
        /\ \A e \in old : (\A f \in old : f.sequence <= e.sequence)
                            => activities[a].status = StatusAfter[e.type]
        /\ old = {} => activities[a].status = IF activities[a].dependsOn = {} THEN "ready" ELSE "retry_pending"
        /\ activities[a].attempt = Cardinality(ClaimEvents(a))
        /\ IsFiniteSet(ClaimEvents(a))
  BY <1>4 DEF HistoryInv, HistoryExplainsStatus, LogNumbered, MoveTypes
<1>6. a \notin ActivityIds => old = {}
  <2>1. a # 0
    BY DEF ActivityIds
  <2> QED
    BY <2>1 DEF HistoryInv, LogNumbered
<1>7. Told(a, New)
  BY DEF LogStep
<1> SUFFICES /\ \A e \in moves : (\A f \in moves : f.sequence <= e.sequence)
                                   => act.status = StatusAfter[e.type]
             /\ moves = {} => act.status = IF act.dependsOn = {} THEN "ready" ELSE "retry_pending"
             /\ act.attempt = Cardinality({e \in moves : e.type = "activity.claimed"})
  BY DEF MoveTypes
<1>8. CASE a \in ActivityIds /\ told = {}
  <2>1. /\ act.status = activities[a].status /\ act.attempt = activities[a].attempt
        /\ act.dependsOn = activities[a].dependsOn
    BY <1>7, <1>8 DEF Told
  <2> HIDE DEF old, told, moves, act
  <2>2. moves = old
    BY <1>1, <1>8
  <2> QED
    BY <1>4, <1>5, <1>8, <2>1, <2>2
<1>9. ASSUME a \in ActivityIds, NEW e, told = {e} 
      PROVE  /\ \A f \in moves : (\A g \in moves : g.sequence <= f.sequence)
                                   => act.status = StatusAfter[f.type]
             /\ moves = {} => act.status = IF act.dependsOn = {} THEN "ready" ELSE "retry_pending"
             /\ act.attempt = Cardinality({f \in moves : f.type = "activity.claimed"})
  <2>1. /\ act.status = StatusAfter[e.type]
        /\ act.attempt = IF e.type = "activity.claimed" THEN activities[a].attempt + 1
                         ELSE activities[a].attempt
    BY <1>7, <1>9 DEF Told
  <2> HIDE DEF old, told, moves, act
  <2>2. moves = old \cup {e} /\ e \notin old
    BY <1>1, <1>3, <1>9
  <2>3. ASSUME NEW f \in moves, \A g \in moves : g.sequence <= f.sequence PROVE f = e
    <3>1. e.sequence <= f.sequence /\ nextEvent < e.sequence /\ e.sequence \in Nat
      BY <1>2, <1>9, <2>2, <2>3
    <3> QED
      BY <1>2, <2>2, <3>1
  <2>4. CASE e.type = "activity.claimed"
    <3>1. {f \in moves : f.type = "activity.claimed"} = ClaimEvents(a) \cup {e} /\ e \notin ClaimEvents(a)
      BY <1>4, <2>2, <2>4
    <3>2. Cardinality(ClaimEvents(a) \cup {e}) = Cardinality(ClaimEvents(a)) + 1
      BY <1>5, <1>9, <3>1, FS_AddElement
    <3> QED
      BY <1>5, <1>9, <2>1, <2>2, <2>3, <2>4, <3>1, <3>2
  <2>5. CASE e.type # "activity.claimed"
    <3>1. {f \in moves : f.type = "activity.claimed"} = ClaimEvents(a)
      BY <1>4, <2>2, <2>5
    <3> QED
      BY <1>5, <1>9, <2>1, <2>2, <2>3, <2>5, <3>1
  <2> QED
    BY <2>4, <2>5
<1>10. CASE a \notin ActivityIds
  <2>1. /\ told = {} /\ act.attempt = 0
        /\ act.status = IF act.dependsOn = {} THEN "ready" ELSE "retry_pending"
    BY <1>7, <1>10 DEF Told
  <2> HIDE DEF old, told, moves, act
  <2>2. moves = {}
    BY <1>1, <1>6, <1>10, <2>1
  <2>3. Cardinality({e \in moves : e.type = "activity.claimed"}) = 0
    BY <2>2, FS_EmptySet
  <2> QED
    BY <2>1, <2>2, <2>3
<1> QED
  BY <1>7, <1>8, <1>9, <1>10 DEF Told

\* The batch has one entry for each activity of S, in the numbers after base.
IsBatch(batch, acts, S, types, base) ==
  /\ \A e \in batch : /\ e.activity \in S /\ e.type = types[e.activity]
                      /\ e.workflow = acts[e.activity].workflow
                      /\ e.sequence \in Nat /\ base < e.sequence
                      /\ e.sequence <= base + Cardinality(S)
  /\ \A a \in S : \E e \in batch :
       e.activity = a /\ e.type = types[a] /\ \A f \in batch : f.activity = a => f = e

\* EventsInOrder makes such a batch.
LEMMA BatchEntries ==
  ASSUME NEW acts, NEW n \in Nat, NEW S \in SUBSET (1 .. n), NEW base \in Nat,
         NEW types, DOMAIN types = S
  PROVE  IsBatch(EventsInOrder(acts, types, base), acts, S, types, base) /\ Cardinality(S) \in Nat
<1> DEFINE batch   == EventsInOrder(acts, types, base)
           rank(a) == Cardinality({b \in S : b <= a})
           E(a)    == EventAt(base + rank(a), acts[a].workflow, a, types[a])
<1>1. batch = {E(a) : a \in S}
  BY DEF EventsInOrder
<1>2. IsFiniteSet(S) /\ Cardinality(S) \in Nat
  BY FS_Interval, FS_Subset, FS_CardinalityType, 1 \in Int, n \in Int
<1>3. ASSUME NEW a \in S
      PROVE  rank(a) \in Nat /\ rank(a) > 0 /\ rank(a) <= Cardinality(S)
  <2> DEFINE T == {b \in S : b <= a}
  <2>1. a \in T
    BY a \in Int
  <2>2. IsFiniteSet(T) /\ Cardinality(T) <= Cardinality(S)
    BY <1>2, FS_Subset
  <2>3. Cardinality(T) \in Nat /\ Cardinality(T) # 0
    BY <2>1, <2>2, FS_CardinalityType, FS_EmptySet
  <2> QED
    BY <2>2, <2>3
<1> HIDE DEF rank
<1>4. \A a \in S : /\ E(a).activity = a /\ E(a).type = types[a] /\ E(a).workflow = acts[a].workflow
                   /\ E(a).sequence = base + rank(a)
  BY DEF EventAt
<1> HIDE DEF E, batch
<1>5. \A a \in S : /\ base + rank(a) \in Nat /\ base < base + rank(a)
                   /\ base + rank(a) <= base + Cardinality(S)
  BY <1>2, <1>3
<1>6. \A e \in batch : /\ e.activity \in S /\ e.type = types[e.activity]
                       /\ e.workflow = acts[e.activity].workflow
                       /\ e.sequence \in Nat /\ base < e.sequence
                       /\ e.sequence <= base + Cardinality(S)
  BY <1>1, <1>4, <1>5
<1>7. \A a \in S : \E e \in batch :
        e.activity = a /\ e.type = types[a] /\ \A f \in batch : f.activity = a => f = e
  BY <1>1, <1>4
<1> QED
  BY <1>2, <1>6, <1>7 DEF batch, IsBatch

\* A step that writes nothing and moves no row.
LEMMA QuietLog ==
  ASSUME TypeOK, UNCHANGED <<nextWorkflow, nextActivity, nextEvent, workflows, events>>,
         \A a \in ActivityIds : /\ activities'[a].status = activities[a].status
                                /\ activities'[a].attempt = activities[a].attempt
                                /\ activities'[a].dependsOn = activities[a].dependsOn
  PROVE  LogStep({})
BY DEF LogStep, Told, TypeOK, ActivityIds, WorkflowIds

\* A step that writes one entry, of an activity that is not completed.
LEMMA OneEntry ==
  ASSUME StatusInv, NEW a \in ActivityIds, NEW type, activities[a].status # "completed",
         appendEvent(activities[a].workflow, a, type),
         UNCHANGED <<nextWorkflow, nextActivity, workflows>>,
         \A b \in ActivityIds :
           b # a \/ type \notin MoveTypes =>
             /\ activities'[b].status = activities[b].status
             /\ activities'[b].attempt = activities[b].attempt
             /\ activities'[b].dependsOn = activities[b].dependsOn,
         type \in MoveTypes =>
             /\ activities'[a].status = StatusAfter[type]
             /\ activities'[a].attempt = IF type = "activity.claimed" THEN activities[a].attempt + 1
                                         ELSE activities[a].attempt
  PROVE  \E New : LogStep(New)
<1> DEFINE w == activities[a].workflow
           e == EventAt(nextEvent + 1, w, a, type)
<1>1. w \in WorkflowIds /\ workflows[w].status # "completed"
  BY NotCompleted
<1>2. e.sequence = nextEvent + 1 /\ e.workflow = w /\ e.activity = a /\ e.type = type
  BY DEF EventAt
<1>3. /\ nextEvent \in Nat /\ nextWorkflow \in Nat /\ nextActivity \in Nat
      /\ nextEvent' = nextEvent + 1 /\ events' = events \cup {e}
  BY DEF StatusInv, TypeOK, appendEvent
<1>4. WorkflowIds' = WorkflowIds /\ ActivityIds' = ActivityIds
  BY DEF WorkflowIds, ActivityIds
<1> HIDE DEF e, w
<1>5. \A b \in ActivityIds : Told(b, {e})
  BY <1>2 DEF Told
<1> QED
  BY <1>1, <1>2, <1>3, <1>4, <1>5 DEF LogStep

\* Claim writes the transition it makes.
LEMMA ClaimLog ==
  ASSUME StatusInv, NEW worker \in Workers, NEW queue \in TaskQueues, Claim(worker, queue)
  PROVE  \E New : LogStep(New)
<1>1. UNCHANGED <<nextWorkflow, nextActivity, workflows>>
  BY DEF Claim
<1>2. CASE \A a \in ActivityIds : ~Claimable(a, queue)
  BY <1>1, <1>2, QuietLog DEF Claim, StatusInv
<1>3. CASE \E a \in ActivityIds : Claimable(a, queue)
  <2>1. PICK a \in ActivityIds :
          /\ Claimable(a, queue)
          /\ activities' = [activities EXCEPT ![a] = Leased(@, worker)]
          /\ appendEvent(activities[a].workflow, a, "activity.claimed")
    BY <1>3 DEF Claim
  <2>2. activities[a] \in Activity /\ now \in Nat /\ activities \in [ActivityIds -> Activity]
    BY DEF StatusInv, TypeOK
  <2>3. /\ Leased(activities[a], worker).status = "running"
        /\ Leased(activities[a], worker).attempt = activities[a].attempt + 1
    BY <2>2, LeasedRow
  <2>4. /\ activities'[a] = Leased(activities[a], worker)
        /\ \A b \in ActivityIds : b # a => activities'[b] = activities[b]
    BY <2>1, <2>2
  <2>5. activities[a].status # "completed"
    BY <2>1 DEF Claimable
  <2> QED
    BY <1>1, <2>1, <2>3, <2>4, <2>5, OneEntry, StatusAfterValues
<1> QED
  BY <1>2, <1>3

\* A rejected call is logged only for an activity that is running.
LEMMA RejectedLog ==
  ASSUME StatusInv, NEW op, NEW c \in claims, NEW stale, stale \notin MoveTypes,
         Rejected(op, c, stale)
  PROVE  \E New : LogStep(New)
<1>1. c.activity \in ActivityIds /\ UNCHANGED <<nextWorkflow, nextActivity, workflows, activities>>
  BY DEF StatusInv, TypeOK, Rejected
<1>2. CASE activities[c.activity].status # "running"
  BY <1>1, <1>2, QuietLog DEF Rejected, StatusInv
<1>3. CASE activities[c.activity].status = "running"
  BY <1>1, <1>3, OneEntry DEF Rejected
<1> QED
  BY <1>2, <1>3

\* A heartbeat is logged and is no transition.
LEMMA HeartbeatLog ==
  ASSUME StatusInv, NEW c \in claims, Heartbeat(c)
  PROVE  \E New : LogStep(New)
<1>1. CASE Rejected("Heartbeat", c, "activity.stale_heartbeat_rejected")
  BY <1>1, RejectedLog, StatusAfterValues
<1>2. CASE ~Rejected("Heartbeat", c, "activity.stale_heartbeat_rejected")
  <2>1. /\ currentLease(c.activity, c.worker, c.token)
        /\ activities' = [activities EXCEPT ![c.activity].leaseExpiresAt = now + leaseTTL]
        /\ appendEvent(activities[c.activity].workflow, c.activity, "activity.heartbeat")
        /\ UNCHANGED <<nextWorkflow, nextActivity, workflows>>
    BY <1>2 DEF Heartbeat
  <2>2. /\ c.activity \in ActivityIds /\ activities \in [ActivityIds -> Activity]
        /\ activities[c.activity].status # "completed"
    BY <2>1 DEF StatusInv, TypeOK, currentLease
  <2>3. \A b \in ActivityIds : /\ activities'[b].status = activities[b].status
                               /\ activities'[b].attempt = activities[b].attempt
                               /\ activities'[b].dependsOn = activities[b].dependsOn
    BY <2>1, <2>2 DEF Activity
  <2> QED
    BY <2>1, <2>2, <2>3, OneEntry, StatusAfterValues
<1> QED
  BY <1>1, <1>2

\* Fail writes the transition it makes, and the end of the workflow.
LEMMA FailLog ==
  ASSUME StatusInv, NEW c \in claims, NEW retryable \in BOOLEAN, Fail(c, retryable)
  PROVE  \E New : LogStep(New)
<1>1. CASE Rejected("Fail", c, "activity.stale_failure_rejected")
  BY <1>1, RejectedLog, StatusAfterValues
<1>2. CASE ~Rejected("Fail", c, "activity.stale_failure_rejected")
  <2> DEFINE a == c.activity
             w == activities[a].workflow
  <2>1. /\ a \in ActivityIds /\ activities[a] \in Activity /\ now \in Nat
        /\ activities \in [ActivityIds -> Activity] /\ "failed" \in ActivityStatus
        /\ workflows \in [WorkflowIds -> Workflow]
        /\ nextEvent \in Nat /\ nextWorkflow \in Nat /\ nextActivity \in Nat
    BY DEF StatusInv, TypeOK, ActivityStatus
  <2>2. activities[a].status = "running" /\ UNCHANGED <<nextWorkflow, nextActivity>>
    BY <1>2 DEF Fail, currentLease
  <2>3. w \in WorkflowIds /\ workflows[w].status # "completed"
    BY <2>1, <2>2, NotCompleted
  <2>4. CASE /\ activities' = [activities EXCEPT ![a] = Retrying(@)] /\ UNCHANGED workflows
             /\ appendEvent(w, a, "activity.retry_scheduled")
    <3>1. /\ Retrying(activities[a]).status = "retry_pending"
          /\ Retrying(activities[a]).attempt = activities[a].attempt
      BY <2>1, RetryingRow
    <3>2. /\ activities'[a] = Retrying(activities[a])
          /\ \A b \in ActivityIds : b # a => activities'[b] = activities[b]
      BY <2>1, <2>4
    <3> QED
      BY <2>1, <2>2, <2>4, <3>1, <3>2, OneEntry, StatusAfterValues
  <2>5. CASE /\ activities' = [activities EXCEPT ![a] = Freed(@, "failed")]
             /\ workflows' = [workflows EXCEPT ![w].status = "failed"]
             /\ events' = events \cup {EventAt(nextEvent + 1, w, a, "activity.failed"),
                                       EventAt(nextEvent + 2, w, 0, "workflow.failed")}
             /\ nextEvent' = nextEvent + 2
    <3> DEFINE e == EventAt(nextEvent + 1, w, a, "activity.failed")
               f == EventAt(nextEvent + 2, w, 0, "workflow.failed")
    <3>1. /\ e.sequence = nextEvent + 1 /\ e.workflow = w /\ e.activity = a /\ e.type = "activity.failed"
          /\ f.sequence = nextEvent + 2 /\ f.workflow = w /\ f.activity = 0 /\ f.type = "workflow.failed"
      BY DEF EventAt
    <3>2. /\ Freed(activities[a], "failed").status = "failed"
          /\ Freed(activities[a], "failed").attempt = activities[a].attempt
      BY <2>1, FreedRow
    <3>3. /\ activities'[a] = Freed(activities[a], "failed")
          /\ \A b \in ActivityIds : b # a => activities'[b] = activities[b]
      BY <2>1, <2>5
    <3>4. WorkflowIds' = WorkflowIds /\ ActivityIds' = ActivityIds
      BY <2>2 DEF WorkflowIds, ActivityIds
    <3>5. \A v \in WorkflowIds : workflows'[v].status = "completed" => workflows[v].status = "completed"
      BY <2>1, <2>5 DEF Workflow
    <3>6. events' = events \cup {e, f}
      BY <2>5
    <3> HIDE DEF e, f
    <3>7. \A b \in ActivityIds : Told(b, {e, f})
      <4> SUFFICES ASSUME NEW b \in ActivityIds PROVE Told(b, {e, f})
        OBVIOUS
      <4>1. CASE b = a
        <5>1. {g \in {e, f} : g.activity = b /\ g.type \in MoveTypes} = {e}
          BY <3>1, <4>1, StatusAfterValues
        <5> QED
          BY <3>1, <3>2, <3>3, <4>1, <5>1, StatusAfterValues DEF Told
      <4>2. CASE b # a
        <5>1. {g \in {e, f} : g.activity = b /\ g.type \in MoveTypes} = {}
          BY <3>1, <4>2, StatusAfterValues
        <5> QED
          BY <3>3, <4>2, <5>1 DEF Told
      <4> QED
        BY <4>1, <4>2
    <3>8. nextEvent < e.sequence /\ e.sequence <= nextEvent' /\ nextEvent < f.sequence
          /\ f.sequence <= nextEvent' /\ nextEvent <= nextEvent'
      BY <2>1, <2>5, <3>1
    <3>9. nextActivity <= nextActivity' /\ nextWorkflow <= nextWorkflow'
      BY <2>1, <2>2
    <3> HIDE DEF a, w
    <3>10. LogStep({e, f})
      BY <2>1, <2>3, <3>1, <3>4, <3>5, <3>6, <3>7, <3>8, <3>9 DEF LogStep
    <3> QED
      BY <3>10
  <2> QED
    BY <1>2, <2>4, <2>5 DEF Fail
<1> QED
  BY <1>1, <1>2

\* Cancel writes what it cancels.
LEMMA CancelLog ==
  ASSUME StatusInv, NEW w \in WorkflowIds, Cancel(w)
  PROVE  \E New : LogStep(New)
<1>1. UNCHANGED <<nextWorkflow, nextActivity>>
  BY DEF Cancel
<1>2. CASE workflows[w].status # "running"
  BY <1>1, <1>2, QuietLog DEF Cancel, StatusInv
<1>3. CASE workflows[w].status = "running"
  <2> DEFINE S     == Pending(w)
             types == [a \in S |-> "activity.cancelled"]
             batch == EventsInOrder(activities, types, nextEvent)
             e     == EventAt(nextEvent + Cardinality(S) + 1, w, 0, "workflow.cancelled")
  <2>1. /\ workflows' = [workflows EXCEPT ![w].status = "cancelled"]
        /\ \A a \in ActivityIds :
             activities'[a] = IF a \in S THEN [activities[a] EXCEPT !.status = "cancelled"]
                              ELSE activities[a]
        /\ events' = events \cup batch \cup {e}
        /\ nextEvent' = nextEvent + Cardinality(S) + 1
    BY <1>3 DEF Cancel
  <2>2. /\ activities \in [ActivityIds -> Activity] /\ workflows \in [WorkflowIds -> Workflow]
        /\ nextEvent \in Nat /\ nextWorkflow \in Nat /\ nextActivity \in Nat
    BY DEF StatusInv, TypeOK
  <2>3. S \in SUBSET ActivityIds /\ \A a \in S : activities[a].workflow = w
    BY DEF Pending
  <2>4. DOMAIN types = S /\ \A a \in S : types[a] = "activity.cancelled"
    OBVIOUS
  <2> HIDE DEF S, types
  <2>5. /\ Cardinality(S) \in Nat
        /\ \A f \in batch : /\ f.activity \in S /\ f.type = "activity.cancelled" /\ f.workflow = w
                            /\ f.sequence \in Nat /\ nextEvent < f.sequence
                            /\ f.sequence <= nextEvent + Cardinality(S)
        /\ \A a \in S : \E f \in batch :
             /\ f.activity = a /\ f.type \in MoveTypes
             /\ \A g \in batch : g.activity = a => g = f
    <3>1. S \in SUBSET (1 .. nextActivity)
      BY <2>3 DEF ActivityIds
    <3>2. IsBatch(batch, activities, S, types, nextEvent) /\ Cardinality(S) \in Nat
      BY <2>2, <2>4, <3>1, BatchEntries
    <3> QED
      BY <2>3, <2>4, <3>2, StatusAfterValues DEF IsBatch
  <2>6. /\ e.sequence = nextEvent' /\ e.workflow = w /\ e.activity = 0 /\ e.type = "workflow.cancelled"
    BY <2>1 DEF EventAt
  <2>7. \A a \in ActivityIds :
          /\ activities'[a].status = IF a \in S THEN "cancelled" ELSE activities[a].status
          /\ activities'[a].attempt = activities[a].attempt
          /\ activities'[a].dependsOn = activities[a].dependsOn
    BY <2>1, <2>2 DEF Activity
  <2>8. WorkflowIds' = WorkflowIds /\ ActivityIds' = ActivityIds
    BY <1>1 DEF WorkflowIds, ActivityIds
  <2>9. \A v \in WorkflowIds : workflows'[v].status = "completed" => workflows[v].status = "completed"
    BY <2>1, <2>2 DEF Workflow
  <2>10. /\ nextEvent <= nextEvent' /\ nextEvent < nextEvent' /\ nextEvent' <= nextEvent'
         /\ \A f \in batch : nextEvent < f.sequence /\ f.sequence <= nextEvent'
         /\ nextActivity <= nextActivity' /\ nextWorkflow <= nextWorkflow'
    BY <1>1, <2>1, <2>2, <2>5
  <2> HIDE DEF batch, e
  <2>11. \A a \in ActivityIds : Told(a, {e} \cup batch)
    <3> SUFFICES ASSUME NEW a \in ActivityIds PROVE Told(a, {e} \cup batch)
      OBVIOUS
    <3> DEFINE told == {f \in {e} \cup batch : f.activity = a /\ f.type \in MoveTypes}
    <3>1. /\ a \notin S => told = {}
          /\ a \in S => \E f \in batch : told = {f} /\ f.activity = a
      BY <2>3, <2>5, <2>6, StatusAfterValues
    <3>2. CASE a \in S
      <4>1. PICK f \in batch : told = {f} /\ f.type = "activity.cancelled"
        BY <2>5, <3>1, <3>2
      <4> QED
        BY <2>7, <3>2, <4>1, StatusAfterValues DEF Told
    <3>3. CASE a \notin S
      BY <2>7, <3>1, <3>3 DEF Told
    <3> QED
      BY <3>2, <3>3
  <2>12. \A f \in {e} \cup batch : f.workflow = w /\ f.activity \in {0} \cup ActivityIds
    BY <2>3, <2>5, <2>6
  <2>13. events' = events \cup ({e} \cup batch)
    BY <2>1
  <2>14. LogStep({e} \cup batch)
    BY <1>3, <2>6, <2>8, <2>9, <2>10, <2>11, <2>12, <2>13 DEF LogStep
  <2> QED
    BY <2>14
<1> QED
  BY <1>2, <1>3

\* A scheduler pass writes what it does to each activity, and nothing else.
LEMMA RunSchedulerPassLog ==
  ASSUME StatusInv, RunSchedulerPass
  PROVE  \E New : LogStep(New)
<1> DEFINE S     == {a \in ActivityIds : Expired(a) \/ Due(activities, a)}
           types == [a \in S |-> Swept(a).type]
           batch == EventsInOrder(activities, types, nextEvent)
<1>1. /\ UNCHANGED <<nextWorkflow, nextActivity>>
      /\ \A a \in ActivityIds : activities'[a] = IF a \in S THEN Swept(a).row ELSE activities[a]
      /\ events' = events \cup batch
      /\ nextEvent' = nextEvent + Cardinality(S)
  BY DEF RunSchedulerPass
<1>2. /\ activities \in [ActivityIds -> Activity] /\ workflows \in [WorkflowIds -> Workflow]
      /\ nextEvent \in Nat /\ nextWorkflow \in Nat /\ nextActivity \in Nat
      /\ {"ready", "failed"} \subseteq ActivityStatus
  BY DEF StatusInv, TypeOK, ActivityStatus
<1>3. /\ S \in SUBSET ActivityIds /\ S \in SUBSET (1 .. nextActivity)
      /\ \A a \in S : activities[a].status # "completed"
  BY DEF ActivityIds, Expired, Due
<1>4. ASSUME NEW a \in S
      PROVE  /\ Swept(a).type \in MoveTypes /\ Swept(a).type # "activity.claimed"
             /\ Swept(a).row.status = StatusAfter[Swept(a).type]
             /\ Swept(a).row.attempt = activities[a].attempt
  <2>1. a \in ActivityIds /\ activities[a] \in Activity /\ TypeOK
    BY <1>2 DEF StatusInv
  <2>2. CASE Expired(a) /\ activities[a].attempt < activities[a].maxAttempts
    <3>1. Swept(a) = [row |-> Freed(activities[a], "ready"), type |-> "activity.lease_expired"]
      BY <2>1, <2>2, SweptCases
    <3> QED
      BY <1>2, <2>1, <3>1, FreedRow, StatusAfterValues
  <2>3. CASE Expired(a) /\ ~(activities[a].attempt < activities[a].maxAttempts)
    <3>1. Swept(a) = [row |-> Freed(activities[a], "failed"), type |-> "activity.lease_expired_failed"]
      BY <2>1, <2>3, SweptCases
    <3> QED
      BY <1>2, <2>1, <3>1, FreedRow, StatusAfterValues
  <2>4. CASE ~Expired(a)
    <3>1. Swept(a) = [row |-> [activities[a] EXCEPT !.status = "ready"], type |-> "activity.ready"]
      BY <2>1, <2>4, SweptCases
    <3>2. /\ [activities[a] EXCEPT !.status = "ready"].status = "ready"
          /\ [activities[a] EXCEPT !.status = "ready"].attempt = activities[a].attempt
      BY <2>1 DEF Activity
    <3>3. Swept(a).type = "activity.ready" /\ Swept(a).row = [activities[a] EXCEPT !.status = "ready"]
      BY <3>1
    <3> QED
      BY <3>2, <3>3, StatusAfterValues
  <2> QED
    BY <2>2, <2>3, <2>4
<1>5. DOMAIN types = S /\ \A a \in S : types[a] = Swept(a).type
  OBVIOUS
<1> HIDE DEF S, types
<1>6. IsBatch(batch, activities, S, types, nextEvent) /\ Cardinality(S) \in Nat
  BY <1>2, <1>3, <1>5, BatchEntries
<1> HIDE DEF batch
<1>7. ASSUME NEW a \in ActivityIds PROVE Told(a, batch)
  <2> DEFINE told == {f \in batch : f.activity = a /\ f.type \in MoveTypes}
  <2>1. CASE a \in S
    <3>1. PICK f \in batch : f.activity = a /\ f.type = Swept(a).type /\ \A g \in batch : g.activity = a => g = f
      BY <1>5, <1>6, <2>1 DEF IsBatch
    <3>2. told = {f}
      BY <1>4, <2>1, <3>1
    <3>3. activities'[a] = Swept(a).row
      BY <1>1, <2>1
    <3> QED
      BY <1>4, <2>1, <3>1, <3>2, <3>3 DEF Told
  <2>2. CASE a \notin S
    <3>1. told = {}
      BY <1>6, <2>2 DEF IsBatch
    <3> QED
      BY <1>1, <2>2, <3>1 DEF Told
  <2> QED
    BY <2>1, <2>2
<1>8. WorkflowIds' = WorkflowIds /\ ActivityIds' = ActivityIds
  BY <1>1 DEF WorkflowIds, ActivityIds
<1>9. \A w \in WorkflowIds : workflows'[w].status = "completed" => workflows[w].status = "completed"
  BY SchedulerEffect DEF StatusInv
<1>10. \A e \in batch : /\ e.workflow \in WorkflowIds /\ e.activity \in ActivityIds
                        /\ workflows[e.workflow].status # "completed"
  <2> SUFFICES ASSUME NEW e \in batch
               PROVE  /\ e.workflow \in WorkflowIds /\ e.activity \in ActivityIds
                      /\ workflows[e.workflow].status # "completed"
    OBVIOUS
  <2>1. e.activity \in S /\ e.workflow = activities[e.activity].workflow
    BY <1>6 DEF IsBatch
  <2>2. e.activity \in ActivityIds /\ activities[e.activity].status # "completed"
    BY <1>3, <2>1
  <2> QED
    BY <2>1, <2>2, NotCompleted
<1>11. /\ nextEvent <= nextEvent' /\ nextActivity <= nextActivity' /\ nextWorkflow <= nextWorkflow'
       /\ \A e \in batch : nextEvent < e.sequence /\ e.sequence <= nextEvent'
  BY <1>1, <1>2, <1>6 DEF IsBatch
<1>12. LogStep(batch)
  BY <1>1, <1>7, <1>8, <1>9, <1>10, <1>11 DEF LogStep
<1> QED
  BY <1>12

\* Complete writes the completion, what it releases, and the end of the
\* workflow last.
LEMMA CompleteLog ==
  ASSUME StatusInv, NEW c \in claims, Complete(c)
  PROVE  \E New : LogStep(New)
<1>1. CASE Rejected("Complete", c, "activity.stale_completion_rejected")
  BY <1>1, RejectedLog, StatusAfterValues
<1>2. CASE ~Rejected("Complete", c, "activity.stale_completion_rejected")
  <2> DEFINE a     == c.activity
             w     == activities[a].workflow
             row   == Freed(activities[a], "completed")
             acts  == [activities EXCEPT ![a] = row]
             S     == Releasable(acts, w)
             done  == WorkflowDone(releaseReady(acts, w), w)
             after == nextEvent + 1 + Cardinality(S)
             types == [b \in S |-> "activity.ready"]
             batch == EventsInOrder(acts, types, nextEvent + 1)
             e     == EventAt(nextEvent + 1, w, a, "activity.completed")
             last  == EventAt(after + 1, w, 0, "workflow.completed")
             end   == IF done THEN {last} ELSE {}
  <2>1. /\ currentLease(a, c.worker, c.token) /\ activities' = releaseReady(acts, w)
        /\ workflows' = IF done THEN [workflows EXCEPT ![w].status = "completed"] ELSE workflows
        /\ events' = events \cup {e} \cup batch \cup end
        /\ nextEvent' = IF done THEN after + 1 ELSE after
        /\ UNCHANGED <<nextWorkflow, nextActivity>>
    BY <1>2 DEF Complete
  <2>2. /\ activities \in [ActivityIds -> Activity] /\ workflows \in [WorkflowIds -> Workflow]
        /\ nextEvent \in Nat /\ nextEvent + 1 \in Nat /\ nextWorkflow \in Nat /\ nextActivity \in Nat
        /\ a \in ActivityIds /\ activities[a] \in Activity /\ "completed" \in ActivityStatus
    BY DEF StatusInv, TypeOK, ActivityStatus
  <2>3. activities[a].status = "running"
    BY <2>1 DEF currentLease
  <2>4. w \in WorkflowIds /\ workflows[w].status # "completed"
    BY <2>2, <2>3, NotCompleted
  <2>5. row \in Activity /\ row.workflow = w /\ row.status = "completed" /\ row.attempt = activities[a].attempt
    BY <2>2, FreedRow DEF SameIdentity
  <2> HIDE DEF row, a
  <2>6. /\ acts \in [1 .. nextActivity -> Activity]
        /\ acts[a] = row /\ \A b \in ActivityIds : b # a => acts[b] = activities[b]
    BY <2>2, <2>5 DEF ActivityIds
  <2> HIDE DEF acts
  <2>7. /\ DOMAIN acts = ActivityIds /\ S \in SUBSET ActivityIds /\ S \in SUBSET (1 .. nextActivity)
        /\ \A b \in S : acts[b].workflow = w /\ acts[b].status = "retry_pending"
    BY <2>6 DEF ActivityIds, Releasable, Due
  <2>8. \A b \in ActivityIds :
          activities'[b] = IF b \in S THEN [acts[b] EXCEPT !.status = "ready"] ELSE acts[b]
    BY <2>1, <2>7 DEF releaseReady
  <2>9. a \notin S
    BY <2>5, <2>6, <2>7
  <2>10. DOMAIN types = S /\ \A b \in S : types[b] = "activity.ready"
    OBVIOUS
  <2> HIDE DEF w, S, types
  <2>11. IsBatch(batch, acts, S, types, nextEvent + 1) /\ Cardinality(S) \in Nat
    BY <2>2, <2>7, <2>10, BatchEntries
  <2>12. /\ e.sequence = nextEvent + 1 /\ e.workflow = w /\ e.activity = a /\ e.type = "activity.completed"
         /\ last.sequence = after + 1 /\ last.workflow = w /\ last.activity = 0
         /\ last.type = "workflow.completed"
    BY DEF EventAt
  <2>13. after \in Nat /\ nextEvent + 1 <= after
    BY <2>2, <2>11
  <2>14. \A f \in batch : /\ f.activity \in S /\ f.workflow = w /\ f.type = "activity.ready"
                          /\ nextEvent + 1 < f.sequence /\ f.sequence <= after /\ f.sequence \in Nat
    BY <2>7, <2>10, <2>11 DEF IsBatch
  <2> HIDE DEF after, batch, e, last
  <2> DEFINE New == {e} \cup batch \cup end
  <2>15. \A f \in end : f = last /\ done /\ f.type \notin MoveTypes
    BY <2>12, StatusAfterValues
  <2>16. done => last \in end
    OBVIOUS
  <2> HIDE DEF done, end
  <2>17. /\ \A f \in New : nextEvent < f.sequence /\ f.sequence <= nextEvent'
         /\ nextEvent <= nextEvent' /\ nextActivity <= nextActivity' /\ nextWorkflow <= nextWorkflow'
    <3>1. nextEvent' \in Nat /\ after <= nextEvent' /\ (done => nextEvent' = after + 1)
      BY <2>1, <2>13
    <3>2. nextEvent < e.sequence /\ e.sequence <= nextEvent'
      BY <2>2, <2>12, <2>13, <3>1
    <3>3. \A f \in batch : nextEvent < f.sequence /\ f.sequence <= nextEvent'
      BY <2>2, <2>13, <2>14, <3>1
    <3>4. \A f \in end : nextEvent < f.sequence /\ f.sequence <= nextEvent'
      BY <2>2, <2>12, <2>13, <2>15, <3>1
    <3> QED
      BY <2>1, <2>2, <2>13, <3>1, <3>2, <3>3, <3>4
  <2>18. \A f \in New : f.workflow = w /\ f.activity \in {0} \cup ActivityIds
    BY <2>2, <2>7, <2>12, <2>14, <2>15
  <2>19. \A v \in WorkflowIds : workflows'[v].status = "completed" =>
           \/ workflows[v].status = "completed"
           \/ \E f \in New : f.workflow = v /\ f.type = "workflow.completed" /\ f.sequence = nextEvent'
    BY <2>1, <2>2, <2>12, <2>16 DEF Workflow
  <2>20. ASSUME NEW b \in ActivityIds PROVE Told(b, New)
    <3> DEFINE told == {f \in New : f.activity = b /\ f.type \in MoveTypes}
    <3>1. told = {f \in {e} \cup batch : f.activity = b /\ f.type \in MoveTypes}
      BY <2>15
    <3> HIDE DEF told
    <3>2. CASE b = a
      <4>1. told = {e}
        BY <2>9, <2>12, <2>14, <3>1, <3>2, StatusAfterValues
      <4>2. activities'[b] = row
        BY <2>6, <2>8, <2>9, <3>2
      <4> QED
        BY <2>5, <2>12, <3>2, <4>1, <4>2, StatusAfterValues DEF Told, told
    <3>3. CASE b \in S
      <4>1. PICK f \in batch : f.activity = b /\ \A g \in batch : g.activity = b => g = f
        BY <2>11, <3>3 DEF IsBatch
      <4>2. told = {f} /\ f.type = "activity.ready"
        BY <2>9, <2>12, <2>14, <3>1, <3>3, <4>1, StatusAfterValues
      <4>3. activities'[b].status = "ready" /\ activities'[b].attempt = activities[b].attempt
        <5>1. /\ acts[b] = activities[b] /\ acts[b] \in Activity
              /\ activities'[b] = [acts[b] EXCEPT !.status = "ready"]
          BY <2>6, <2>8, <2>9, <3>3 DEF ActivityIds
        <5> QED
          BY <5>1 DEF Activity
      <4> QED
        BY <4>2, <4>3, StatusAfterValues DEF Told, told
    <3>4. CASE b # a /\ b \notin S
      <4>1. told = {}
        BY <2>12, <2>14, <3>1, <3>4
      <4>2. activities'[b] = activities[b]
        BY <2>6, <2>8, <3>4
      <4> QED
        BY <4>1, <4>2 DEF Told, told
    <3> QED
      BY <3>2, <3>3, <3>4
  <2>21. WorkflowIds' = WorkflowIds /\ ActivityIds' = ActivityIds
    BY <2>1 DEF WorkflowIds, ActivityIds
  <2>22. events' = events \cup New
    BY <2>1
  <2> HIDE DEF New
  <2>23. LogStep(New)
    BY <2>4, <2>17, <2>18, <2>19, <2>20, <2>21, <2>22 DEF LogStep
  <2> QED
    BY <2>23
<1> QED
  BY <1>1, <1>2

\* Start writes about the new workflow only, and no transition.
LEMMA StartLog ==
  ASSUME StatusInv, NEW def \in Definitions, NEW key \in Keys, Start(def, key)
  PROVE  \E New : LogStep(New)
<1>1. CASE UNCHANGED store
  BY <1>1, QuietLog DEF store, StatusInv
<1>2. CASE ~UNCHANGED store
  <2> DEFINE w     == nextWorkflow + 1
             n     == nextActivity
             len   == Len(def.activities)
             S     == n + 1 .. n + len
             types == [a \in S |-> "activity.scheduled"]
             batch == EventsInOrder(activities', types, nextEvent + 1)
             e     == EventAt(nextEvent + 1, w, 0, "workflow.started")
  <2>1. Create(def, key) /\ ValidDefinition(def)
    BY <1>2 DEF Start
  <2>2. /\ len \in Nat /\ w \in Nat /\ n \in Nat /\ nextWorkflow \in Nat /\ nextEvent \in Nat
        /\ nextWorkflow' = w /\ nextActivity' = n + len
        /\ workflows' = [v \in 1 .. w |->
                          IF v < w THEN workflows[v]
                          ELSE [namespace |-> def.namespace, key |-> key, status |-> "running"]]
        /\ \A a \in 1 .. n : activities'[a] = activities[a] /\ activities[a].workflow \in 1 .. w - 1
        /\ \A a \in S : activities'[a] = NewActivity(w, def.activities[a - n])
        /\ events' = events \cup {e} \cup batch
        /\ nextEvent' = nextEvent + 1 + len
    BY <2>1, CreateEffect DEF StatusInv, TypeOK
  <2> HIDE DEF len
  <2>3. /\ ActivityIds = 1 .. n /\ ActivityIds' = 1 .. n + len /\ ActivityIds' = ActivityIds \cup S
        /\ S \cap ActivityIds = {} /\ S \in SUBSET (1 .. n + len) /\ n + len \in Nat
        /\ WorkflowIds' = WorkflowIds \cup {w} /\ w \notin WorkflowIds
        /\ nextEvent + 1 \in Nat /\ nextActivity <= nextActivity' /\ nextWorkflow <= nextWorkflow'
    BY <2>2 DEF ActivityIds, WorkflowIds
  <2>4. DOMAIN types = S /\ \A a \in S : types[a] = "activity.scheduled"
    OBVIOUS
  <2>5. IsFiniteSet(S) /\ Cardinality(S) = len
    <3> DEFINE i == n + 1
               j == n + len
    <3>1. i \in Int /\ j \in Int /\ (i > j => len = 0) /\ (~(i > j) => j - i + 1 = len)
      BY <2>2
    <3> HIDE DEF i, j
    <3>2. IsFiniteSet(i .. j) /\ Cardinality(i .. j) = IF i > j THEN 0 ELSE j - i + 1
      BY <3>1, FS_Interval
    <3>3. S = i .. j
      BY DEF i, j
    <3> QED
      BY <3>1, <3>2, <3>3
  <2> HIDE DEF S, types, w
  <2>6. IsBatch(batch, activities', S, types, nextEvent + 1)
    BY <2>2, <2>3, <2>4, BatchEntries
  <2>7. \A a \in S : /\ activities'[a].workflow = w /\ activities'[a].attempt = 0
                     /\ activities'[a].status = IF activities'[a].dependsOn = {} THEN "ready"
                                                ELSE "retry_pending"
    BY <2>2, NewRow
  <2>8. e.sequence = nextEvent + 1 /\ e.workflow = w /\ e.activity = 0 /\ e.type = "workflow.started"
    BY DEF EventAt
  <2> HIDE DEF batch, e
  <2>9. /\ \A f \in {e} \cup batch :
             /\ nextEvent < f.sequence /\ f.sequence <= nextEvent'
             /\ f.workflow = w /\ f.activity \in {0} \cup S /\ f.type \notin MoveTypes
        /\ nextEvent <= nextEvent'
    <3>1. nextEvent < e.sequence /\ e.sequence <= nextEvent' /\ nextEvent <= nextEvent'
      BY <2>2, <2>8
    <3>2. \A f \in batch : /\ nextEvent < f.sequence /\ f.sequence <= nextEvent'
                           /\ f.workflow = w /\ f.activity \in S /\ f.type \notin MoveTypes
      BY <2>2, <2>4, <2>5, <2>6, <2>7, StatusAfterValues DEF IsBatch
    <3> QED
      BY <2>8, <3>1, <3>2, StatusAfterValues
  <2>10. ASSUME NEW a \in ActivityIds' PROVE Told(a, {e} \cup batch)
    <3>1. {f \in {e} \cup batch : f.activity = a /\ f.type \in MoveTypes} = {}
      BY <2>9
    <3>2. CASE a \in ActivityIds
      BY <2>2, <2>3, <3>1, <3>2 DEF Told
    <3>3. CASE a \notin ActivityIds
      BY <2>3, <2>7, <3>1, <3>3 DEF Told
    <3> QED
      BY <3>2, <3>3
  <2>11. \A v \in WorkflowIds' : workflows'[v].status = "completed" =>
           v \in WorkflowIds /\ workflows[v].status = "completed"
    BY <2>2, <2>3 DEF WorkflowIds, w
  <2>12. events' = events \cup ({e} \cup batch)
    BY <2>2
  <2>13. LogStep({e} \cup batch)
    BY <2>3, <2>9, <2>10, <2>11, <2>12 DEF LogStep
  <2> QED
    BY <2>13
<1> QED
  BY <1>1, <1>2

\* Every step of the engine writes so.
LEMMA NextLog == StatusInv /\ [Next]_vars => \E New : LogStep(New)
<1> SUFFICES ASSUME StatusInv, [Next]_vars PROVE \E New : LogStep(New)
  OBVIOUS
<1>1. ASSUME NEW def \in Definitions, NEW key \in Keys, Start(def, key) PROVE \E New : LogStep(New)
  BY <1>1, StartLog
<1>2. ASSUME NEW worker \in Workers, NEW queue \in TaskQueues, Claim(worker, queue)
      PROVE  \E New : LogStep(New)
  BY <1>2, ClaimLog
<1>3. ASSUME NEW c \in claims, Heartbeat(c) PROVE \E New : LogStep(New)
  BY <1>3, HeartbeatLog
<1>4. ASSUME NEW c \in claims, Complete(c) PROVE \E New : LogStep(New)
  BY <1>4, CompleteLog
<1>5. ASSUME NEW c \in claims, NEW retryable \in BOOLEAN, Fail(c, retryable)
      PROVE  \E New : LogStep(New)
  BY <1>5, FailLog
<1>6. ASSUME NEW w \in WorkflowIds, Cancel(w) PROVE \E New : LogStep(New)
  BY <1>6, CancelLog
<1>7. CASE RunSchedulerPass
  BY <1>7, RunSchedulerPassLog
<1>8. CASE Tick
  BY <1>8, QuietLog DEF Tick, store, StatusInv
<1>9. CASE UNCHANGED vars
  BY <1>9, QuietLog DEF vars, store, StatusInv
<1> QED
  BY <1>1, <1>2, <1>3, <1>4, <1>5, <1>6, <1>7, <1>8, <1>9 DEF Next

\* The log is right in every reachable state.
LEMMA HistoryAlways == Spec => [](StatusInv /\ HistoryInv)
<1>1. Init => StatusInv /\ HistoryInv
  <2> SUFFICES ASSUME Init PROVE HistoryInv
    BY StatusInit
  <2>1. events = {} /\ ActivityIds = {} /\ WorkflowIds = {}
    BY DEF Init, ActivityIds, WorkflowIds
  <2> QED
    BY <2>1, InitType DEF HistoryInv, LogNumbered, CompletionClosesHistory, HistoryExplainsStatus
<1>2. StatusInv /\ HistoryInv /\ [Next]_vars => (StatusInv /\ HistoryInv)'
  <2> SUFFICES ASSUME StatusInv, HistoryInv, [Next]_vars PROVE (StatusInv /\ HistoryInv)'
    OBVIOUS
  <2>1. StatusInv' /\ TypeOK'
    BY StatusStep DEF StatusInv
  <2>2. PICK New : LogStep(New)
    BY NextLog
  <2> QED
    BY <2>1, <2>2, NumberedStep, ClosedStep, ExplainedStep DEF HistoryInv
<1> QED
  BY <1>1, <1>2, PTL DEF Spec

\* For histories of any length: replaying the log gives every activity's
\* status and its number of attempts.
THEOREM LogTellsTheTruth == Spec => []HistoryExplainsStatus
<1>1. HistoryInv => HistoryExplainsStatus
  BY DEF HistoryInv
<1> QED
  BY <1>1, HistoryAlways, PTL

\* Nothing is ever logged of a workflow after its workflow.completed.
THEOREM CompletionIsLast == Spec => []CompletionClosesHistory
<1>1. HistoryInv => CompletionClosesHistory
  BY DEF HistoryInv
<1> QED
  BY <1>1, HistoryAlways, PTL

-----------------------------------------------------------------------------
(* The contract of Lifecycle: the empty engine is an empty contract, and    *)
(* every step of the engine is a step of the contract or leaves it alone.   *)

ContractStep == [Contract!LifecycleNext]_(Contract!contract)

\* An empty engine is an empty contract.
LEMMA ContractInit == Init => Contract!LifecycleInit
<1> SUFFICES ASSUME Init PROVE Contract!LifecycleInit
  OBVIOUS
<1>1. ActivityIds = {} /\ WorkflowIds = {} /\ claims = {}
  BY DEF Init, ActivityIds, WorkflowIds
<1> QED
  BY <1>1 DEF Contract!LifecycleInit, Contract!Activities, Plan, Rows, Statuses

-----------------------------------------------------------------------------
(* The mapping.                                                            *)

\* The contract's functions are over the engine's ids.
LEMMA Mapped ==
  /\ Contract!Activities = ActivityIds
  /\ DOMAIN Statuses = WorkflowIds /\ DOMAIN Rows = ActivityIds
  /\ \A a \in ActivityIds :
       /\ Plan[a].workflow = activities[a].workflow
       /\ Plan[a].maxAttempts = activities[a].maxAttempts
       /\ Plan[a].dependsOn = {b \in ActivityIds : /\ activities[b].workflow = activities[a].workflow
                                                   /\ activities[b].name \in activities[a].dependsOn}
       /\ Rows[a] = [status |-> activities[a].status, token |-> activities[a].fencingToken,
                     owner |-> activities[a].leaseOwner]
       /\ Rows[a].status = activities[a].status /\ Rows[a].token = activities[a].fencingToken
       /\ Rows[a].owner = activities[a].leaseOwner
  /\ \A w \in WorkflowIds : Statuses[w] = workflows[w].status
BY DEF Contract!Activities, Plan, Rows, Statuses, PlanOf, RowOf

\* The activities of a workflow are the same to both.
LEMMA MappedOf == \A w : Contract!OfWorkflow(w) = Of(w)
BY Mapped DEF Contract!OfWorkflow, Of

\* What an activity is never changes once it exists.
LEMMA SamePlan ==
  ASSUME TypeOK, StepRows, UNCHANGED nextActivity
  PROVE  Plan' = Plan
<1>1. ActivityIds' = ActivityIds
  BY DEF ActivityIds
<1>2. \A a \in ActivityIds : /\ activities'[a].workflow = activities[a].workflow
                             /\ activities'[a].name = activities[a].name
                             /\ activities'[a].dependsOn = activities[a].dependsOn
                             /\ activities'[a].maxAttempts = activities[a].maxAttempts
  BY DEF StepRows, RowStep, SameIdentity
<1>3. \A a \in ActivityIds : PlanOf(a)' = PlanOf(a)
  BY <1>1, <1>2 DEF PlanOf
<1> QED
  BY <1>1, <1>3 DEF Plan

\* What the engine judges complete by name, the contract does by id.
LEMMA DependencyIds ==
  ASSUME NEW acts, DOMAIN acts = ActivityIds, NEW a \in ActivityIds,
         \A b \in ActivityIds : /\ acts[b].workflow = activities[b].workflow
                                /\ acts[b].name = activities[b].name
                                /\ acts[b].dependsOn = activities[b].dependsOn,
         dependenciesComplete(acts, a)
  PROVE  \A d \in Plan[a].dependsOn : d \in ActivityIds /\ acts[d].status = "completed"
BY Mapped DEF dependenciesComplete

\* A lease the engine accepts is one the contract says the claim holds.
LEMMA HolderHolds ==
  ASSUME TypeOK, NEW c \in claims, currentLease(c.activity, c.worker, c.token)
  PROVE  Contract!Holds(c)
<1>1. /\ c.activity \in ActivityIds /\ activities[c.activity].status = "running"
      /\ activities[c.activity].leaseOwner = c.worker
      /\ activities[c.activity].fencingToken = c.token
  BY DEF TypeOK, currentLease
<1>2. c = [activity |-> c.activity, worker |-> c.worker, token |-> c.token]
  BY DEF TypeOK
<1> QED
  BY <1>1, <1>2, Mapped DEF Contract!Holds, Contract!Claimed

\* The fencing token counts the attempts, so both mean the same by budget.
LEMMA BudgetIsSame ==
  ASSUME FencedAttempts, NEW a \in ActivityIds
  PROVE  Contract!HasBudget(a) <=> activities[a].attempt < activities[a].maxAttempts
BY Mapped DEF Contract!HasBudget, FencedAttempts

\* A lease that is given up leaves no owner behind.
LEMMA OwnerFreed ==
  ASSUME NEW r \in Activity, NEW status \in ActivityStatus, now \in Nat
  PROVE  Freed(r, status).leaseOwner = Empty /\ Retrying(r).leaseOwner = Empty
BY DEF Freed, Retrying, Activity, ActivityStatus

\* Giving up a lease is the same to both.
LEMMA FreedMapped ==
  ASSUME NEW a \in ActivityIds, NEW status
  PROVE  Contract!Freed(a, status) = [status |-> status, token |-> activities[a].fencingToken,
                                      owner |-> Empty]
<1> DEFINE r == [status |-> activities[a].status, token |-> activities[a].fencingToken,
                 owner |-> activities[a].leaseOwner]
<1>1. Contract!Freed(a, status) = [[Rows[a] EXCEPT !.status = status] EXCEPT !.owner = Empty]
  BY DEF Contract!Freed
<1>2. Rows[a] = r
  BY Mapped
<1>3. Contract!Freed(a, status) = [[r EXCEPT !.status = status] EXCEPT !.owner = Empty]
  BY <1>1, <1>2
<1> QED
  BY <1>3

\* A change of status alone is the same to both.
LEMMA StatusMapped ==
  ASSUME NEW a \in ActivityIds, activities[a] \in Activity, NEW status,
         activities'[a] = [activities[a] EXCEPT !.status = status]
  PROVE  [status |-> activities'[a].status, token |-> activities'[a].fencingToken,
          owner |-> activities'[a].leaseOwner] = [Rows[a] EXCEPT !.status = status]
<1>1. /\ activities'[a].status = status /\ activities'[a].leaseOwner = activities[a].leaseOwner
      /\ activities'[a].fencingToken = activities[a].fencingToken
  BY DEF Activity
<1>2. Rows[a] = [status |-> activities[a].status, token |-> activities[a].fencingToken,
                 owner |-> activities[a].leaseOwner]
  BY Mapped
<1> QED
  BY <1>1, <1>2

\* A step that changes one row of the engine changes that row of the contract.
LEMMA OneRowMapped ==
  ASSUME NEW a \in ActivityIds, ActivityIds' = ActivityIds,
         \A b \in ActivityIds : b # a => activities'[b] = activities[b]
  PROVE  Rows' = [Rows EXCEPT ![a] = [status |-> activities'[a].status,
                                      token |-> activities'[a].fencingToken,
                                      owner |-> activities'[a].leaseOwner]]
BY DEF Rows, RowOf

\* Calls that are refused, heartbeats and the clock.
LEMMA ContractQuiet ==
  ASSUME TypeOK, StepRows, UNCHANGED <<nextWorkflow, nextActivity, workflows, claims>>,
         \A a \in ActivityIds : /\ activities'[a].status = activities[a].status
                                /\ activities'[a].fencingToken = activities[a].fencingToken
                                /\ activities'[a].leaseOwner = activities[a].leaseOwner
  PROVE  ContractStep
<1>1. Rows' = Rows
  BY DEF Rows, RowOf, ActivityIds
<1>2. Statuses' = Statuses
  BY DEF Statuses, WorkflowIds
<1> QED
  BY <1>1, <1>2, SamePlan DEF ContractStep, Contract!contract

-----------------------------------------------------------------------------
(* One lemma per call.                                                     *)

\* Claim is Claim of the contract.
LEMMA ContractClaim ==
  ASSUME TypeOK, NEW worker \in Workers, NEW queue \in TaskQueues, Claim(worker, queue)
  PROVE  ContractStep
<1>1. UNCHANGED <<nextWorkflow, nextActivity, workflows>> /\ StepRows
  BY ClaimRows DEF Claim
<1>2. /\ WorkflowIds' = WorkflowIds /\ ActivityIds' = ActivityIds /\ Plan' = Plan
      /\ Statuses' = Statuses
  BY <1>1, SamePlan DEF WorkflowIds, ActivityIds, Statuses
<1>3. CASE \A a \in ActivityIds : ~Claimable(a, queue)
  BY <1>1, <1>3, ContractQuiet DEF Claim
<1>4. CASE \E a \in ActivityIds : Claimable(a, queue)
  <2>1. PICK a \in ActivityIds :
          /\ Claimable(a, queue)
          /\ activities' = [activities EXCEPT ![a] = Leased(@, worker)]
          /\ claims' = claims \cup {[activity |-> a, worker |-> worker,
                                     token |-> activities[a].fencingToken + 1]}
    BY <1>4 DEF Claim
  <2>2. activities[a] \in Activity /\ now \in Nat /\ activities \in [ActivityIds -> Activity]
    BY DEF TypeOK
  <2>3. /\ Leased(activities[a], worker).status = "running"
        /\ Leased(activities[a], worker).fencingToken = activities[a].fencingToken + 1
        /\ Leased(activities[a], worker).leaseOwner = worker
    BY <2>2, LeasedRow
  <2>4. /\ activities'[a] = Leased(activities[a], worker)
        /\ \A b \in ActivityIds : b # a => activities'[b] = activities[b]
    BY <2>1, <2>2
  <2>5. Rows' = [Rows EXCEPT ![a] = [status |-> "running", token |-> Rows[a].token + 1,
                                     owner |-> worker]]
    BY <1>2, <2>3, <2>4 DEF Rows, RowOf
  <2>6. Rows[a].status = "ready" /\ Rows[a].token = activities[a].fencingToken
    BY <2>1, Mapped DEF Claimable
  <2>7. Contract!Claim(a, worker)
    BY <1>2, <2>1, <2>5, <2>6 DEF Contract!Claim
  <2> QED
    BY <2>7, Mapped DEF ContractStep, Contract!LifecycleNext
<1> QED
  BY <1>3, <1>4

\* A rejected call and a heartbeat are no steps of the contract.
LEMMA ContractHeartbeat ==
  ASSUME TypeOK, NEW c \in claims, Heartbeat(c)
  PROVE  ContractStep
<1>1. /\ UNCHANGED <<nextWorkflow, nextActivity, workflows, claims>>
      /\ \/ UNCHANGED activities
         \/ activities' = [activities EXCEPT ![c.activity].leaseExpiresAt = now + leaseTTL]
  BY DEF Heartbeat, Rejected
<1>2. activities \in [ActivityIds -> Activity]
  BY DEF TypeOK
<1>3. \A a \in ActivityIds : /\ activities'[a].status = activities[a].status
                             /\ activities'[a].fencingToken = activities[a].fencingToken
                             /\ activities'[a].leaseOwner = activities[a].leaseOwner
  BY <1>1, <1>2 DEF Activity
<1> QED
  BY <1>1, <1>3, HeartbeatRows, ContractQuiet

\* Fail is Fail of the contract, with the same budget.
LEMMA ContractFail ==
  ASSUME TypeOK, FencedAttempts, NEW c \in claims, NEW retryable \in BOOLEAN, Fail(c, retryable)
  PROVE  ContractStep
<1>1. StepRows
  BY FailRows
<1>2. CASE Rejected("Fail", c, "activity.stale_failure_rejected")
  BY <1>1, <1>2, ContractQuiet DEF Rejected
<1>3. CASE ~Rejected("Fail", c, "activity.stale_failure_rejected")
  <2> DEFINE a == c.activity
             w == activities[a].workflow
             retry == retryable /\ activities[a].attempt < activities[a].maxAttempts
  <2>1. /\ a \in ActivityIds /\ activities[a] \in Activity /\ now \in Nat /\ w \in WorkflowIds
        /\ activities \in [ActivityIds -> Activity] /\ "failed" \in ActivityStatus
        /\ workflows \in [WorkflowIds -> Workflow]
    BY DEF TypeOK, ActivityStatus
  <2>2. /\ currentLease(a, c.worker, c.token)
        /\ activities' = [activities EXCEPT ![a] = IF retry THEN Retrying(@) ELSE Freed(@, "failed")]
        /\ workflows' = IF retry THEN workflows ELSE [workflows EXCEPT ![w].status = "failed"]
        /\ UNCHANGED <<nextWorkflow, nextActivity, claims>>
    BY <1>3 DEF Fail
  <2>3. /\ WorkflowIds' = WorkflowIds /\ ActivityIds' = ActivityIds /\ Plan' = Plan
    BY <1>1, <2>2, SamePlan DEF WorkflowIds, ActivityIds
  <2> DEFINE row == IF retry THEN Retrying(activities[a]) ELSE Freed(activities[a], "failed")
  <2>4. /\ row.status = IF retry THEN "retry_pending" ELSE "failed"
        /\ row.fencingToken = activities[a].fencingToken /\ row.leaseOwner = Empty
    BY <2>1, RetryingRow, FreedRow, OwnerFreed
  <2>5. activities'[a] = row /\ \A b \in ActivityIds : b # a => activities'[b] = activities[b]
    BY <2>1, <2>2
  <2> HIDE DEF row, retry
  <2>6. Rows' = [Rows EXCEPT ![a] = Contract!Freed(a, IF retry THEN "retry_pending" ELSE "failed")]
    <3>1. Contract!Freed(a, IF retry THEN "retry_pending" ELSE "failed")
            = [status |-> row.status, token |-> row.fencingToken, owner |-> row.leaseOwner]
      BY <2>1, <2>4, FreedMapped
    <3> QED
      BY <2>1, <2>3, <2>5, <3>1, OneRowMapped
  <2>7. Statuses' = IF retry THEN Statuses ELSE [Statuses EXCEPT ![w] = "failed"]
    BY <2>1, <2>2, <2>3 DEF Statuses, Workflow
  <2>8. retry <=> retryable /\ Contract!HasBudget(a)
    BY <2>1, BudgetIsSame DEF retry
  <2>9. Plan[a].workflow = w /\ Contract!Holds(c)
    BY <2>1, <2>2, Mapped, HolderHolds
  <2>10. Contract!Fail(c, retryable)
    BY <2>2, <2>3, <2>6, <2>7, <2>8, <2>9 DEF Contract!Fail
  <2> QED
    BY <2>10 DEF ContractStep, Contract!LifecycleNext
<1> QED
  BY <1>2, <1>3

\* Complete is Complete of the contract: it releases only what has all it
\* depends on, and closes the workflow exactly with its last activity.
LEMMA ContractComplete ==
  ASSUME StatusInv, NEW c \in claims, Complete(c)
  PROVE  ContractStep
<1>1. TypeOK /\ StepRows
  BY CompleteRows DEF StatusInv
<1>2. CASE Rejected("Complete", c, "activity.stale_completion_rejected")
  BY <1>1, <1>2, ContractQuiet DEF Rejected
<1>3. CASE ~Rejected("Complete", c, "activity.stale_completion_rejected")
  <2> DEFINE a    == c.activity
             w    == activities[a].workflow
             row  == Freed(activities[a], "completed")
             acts == [activities EXCEPT ![a] = row]
             S    == Releasable(acts, w)
             x    == Contract!Freed(a, "completed")
             done == [Rows EXCEPT ![a] = x]
  <2>1. /\ currentLease(a, c.worker, c.token) /\ activities' = releaseReady(acts, w)
        /\ UNCHANGED <<nextWorkflow, nextActivity, claims>>
    BY <1>3 DEF Complete
  <2>2. /\ a \in ActivityIds /\ w \in WorkflowIds /\ activities[a] \in Activity
        /\ nextActivity \in Nat /\ now \in Nat /\ activities \in [ActivityIds -> Activity]
        /\ "completed" \in ActivityStatus /\ workflows \in [WorkflowIds -> Workflow]
    BY <1>1 DEF TypeOK, ActivityStatus
  <2>3. /\ SameIdentity(activities[a], row) /\ row \in Activity /\ row.status = "completed"
        /\ row.fencingToken = activities[a].fencingToken /\ row.leaseOwner = Empty
    BY <2>2, FreedRow, OwnerFreed DEF SameIdentity
  <2>4. w = activities[a].workflow
    OBVIOUS
  <2>5. x = [status |-> row.status, token |-> row.fencingToken, owner |-> row.leaseOwner]
    BY <2>2, <2>3, FreedMapped
  <2>6. /\ \A v \in WorkflowIds : Statuses'[v] = workflows'[v].status
        /\ WorkflowIds' = WorkflowIds /\ ActivityIds' = ActivityIds /\ Plan' = Plan
        /\ DOMAIN Statuses' = WorkflowIds
    BY <1>1, <2>1, SamePlan DEF WorkflowIds, ActivityIds, Statuses
  <2> HIDE DEF row, a
  <2>7. /\ acts \in [ActivityIds -> Activity]
        /\ acts[a] = row /\ \A b \in ActivityIds : b # a => acts[b] = activities[b]
    BY <2>2, <2>3
  <2> HIDE DEF acts, w, x
  <2>8. /\ S \in SUBSET ActivityIds
        /\ \A b \in S : /\ acts[b].workflow = w /\ acts[b].status = "retry_pending"
                        /\ dependenciesComplete(acts, b)
        /\ \A b \in ActivityIds :
             activities'[b] = IF b \in S THEN [acts[b] EXCEPT !.status = "ready"] ELSE acts[b]
    BY <2>1, <2>7 DEF Releasable, Due, releaseReady
  <2> HIDE DEF S
  <2>9. \A b \in ActivityIds : /\ acts[b].workflow = activities[b].workflow
                               /\ acts[b].name = activities[b].name
                               /\ acts[b].dependsOn = activities[b].dependsOn
    BY <2>3, <2>7 DEF SameIdentity
  <2>10. /\ DOMAIN done = ActivityIds
         /\ \A b \in ActivityIds :
              done[b] = [status |-> acts[b].status, token |-> acts[b].fencingToken,
                         owner |-> acts[b].leaseOwner]
    BY <2>2, <2>5, <2>7, Mapped
  <2>11. ASSUME NEW b \in ActivityIds PROVE done[b].status = acts[b].status
    <3>1. done[b] = [status |-> acts[b].status, token |-> acts[b].fencingToken,
                     owner |-> acts[b].leaseOwner]
      BY <2>10
    <3> HIDE DEF done
    <3> QED
      BY <3>1
  <2> HIDE DEF done
  <2>12. S \subseteq Contract!Releasable(done) \cap Contract!OfWorkflow(w)
    <3> SUFFICES ASSUME NEW b \in S
                 PROVE  b \in Contract!Releasable(done) /\ b \in Contract!OfWorkflow(w)
      OBVIOUS
    <3>1. b \in ActivityIds /\ b \in Of(w)
      BY <2>8, <2>9 DEF Of
    <3>2. \A d \in Plan[b].dependsOn : d \in ActivityIds /\ acts[d].status = "completed"
      BY <2>7, <2>8, <2>9, <3>1, DependencyIds
    <3>3. Contract!DependenciesComplete(b, done)
      BY <2>11, <3>2 DEF Contract!DependenciesComplete
    <3> QED
      BY <2>8, <2>11, <3>1, <3>3, Mapped, MappedOf DEF Contract!Releasable
  <2>13. Rows' = Contract!With(done, S, "ready")
    <3>1. Contract!With(done, S, "ready")
            = [b \in ActivityIds |-> IF b \in S THEN [done[b] EXCEPT !.status = "ready"] ELSE done[b]]
      BY Mapped DEF Contract!With
    <3>2. Rows' = [b \in ActivityIds |-> [status |-> activities'[b].status,
                                          token |-> activities'[b].fencingToken,
                                          owner |-> activities'[b].leaseOwner]]
      BY <2>6 DEF Rows, RowOf
    <3>3. ASSUME NEW b \in ActivityIds
          PROVE  [status |-> activities'[b].status, token |-> activities'[b].fencingToken,
                  owner |-> activities'[b].leaseOwner]
                   = IF b \in S THEN [done[b] EXCEPT !.status = "ready"] ELSE done[b]
      <4>1. CASE b \notin S
        BY <2>8, <2>10, <4>1
      <4>2. CASE b \in S
        <5>1. acts[b] \in Activity /\ activities'[b] = [acts[b] EXCEPT !.status = "ready"]
          BY <2>7, <2>8, <4>2
        <5>2. /\ activities'[b].status = "ready" /\ activities'[b].fencingToken = acts[b].fencingToken
              /\ activities'[b].leaseOwner = acts[b].leaseOwner
          BY <5>1 DEF Activity
        <5>3. [done[b] EXCEPT !.status = "ready"]
                = [status |-> "ready", token |-> acts[b].fencingToken, owner |-> acts[b].leaseOwner]
          BY <2>10
        <5> QED
          BY <4>2, <5>2, <5>3
      <4> QED
        BY <4>1, <4>2
    <3> QED
      BY <3>1, <3>2, <3>3
  <2> DEFINE last == /\ Statuses[w] = "running"
                     /\ \A b \in Contract!OfWorkflow(w) : done[b].status = "completed"
  <2>14. Statuses' = [Statuses EXCEPT ![w] = IF last THEN "completed" ELSE @]
    <3>1. workflows' = IF /\ workflows[w].status = "running"
                          /\ \A b \in Of(w) : activities'[b].status = "completed"
                       THEN [workflows EXCEPT ![w].status = "completed"] ELSE workflows
      BY <1>1, <1>3, CompleteEffect DEF a, w
    <3>2. \A b \in ActivityIds : activities'[b].status = "completed" <=> acts[b].status = "completed"
      <4> SUFFICES ASSUME NEW b \in ActivityIds
                   PROVE  activities'[b].status = "completed" <=> acts[b].status = "completed"
        OBVIOUS
      <4>1. acts[b] \in Activity
        BY <2>7
      <4> QED
        BY <2>8, <4>1 DEF Activity
    <3>3. last <=> /\ workflows[w].status = "running"
                   /\ \A b \in Of(w) : activities'[b].status = "completed"
      <4>1. Statuses[w] = workflows[w].status /\ Contract!OfWorkflow(w) = Of(w)
        BY <2>2, Mapped, MappedOf
      <4>2. \A b \in Of(w) : done[b].status = "completed" <=> activities'[b].status = "completed"
        BY <2>11, <3>2 DEF Of
      <4> QED
        BY <4>1, <4>2
    <3> HIDE DEF last
    <3>4. \A v \in WorkflowIds : Statuses'[v] = IF v = w /\ last THEN "completed" ELSE Statuses[v]
      BY <2>2, <2>6, <3>1, <3>3, Mapped DEF Workflow
    <3>5. Statuses = [v \in WorkflowIds |-> Statuses[v]] /\ Statuses' = [v \in WorkflowIds |-> Statuses'[v]]
      BY <2>6 DEF Statuses
    <3> QED
      BY <2>2, <3>4, <3>5
  <2>15. Plan[a].workflow = w /\ Contract!Holds(c)
    BY <1>1, <2>1, <2>2, <2>4, Mapped, HolderHolds DEF a
  <2>16. Contract!Complete(c, S)
    BY <2>1, <2>6, <2>12, <2>13, <2>14, <2>15 DEF Contract!Complete, done, x, a
  <2> QED
    BY <2>8, <2>16, Mapped DEF ContractStep, Contract!LifecycleNext
<1> QED
  BY <1>2, <1>3

\* Cancel is Cancel of the contract.
LEMMA ContractCancel ==
  ASSUME TypeOK, NEW w \in WorkflowIds, Cancel(w)
  PROVE  ContractStep
<1>1. UNCHANGED <<nextWorkflow, nextActivity, claims>> /\ StepRows
  BY CancelRows DEF Cancel
<1>2. CASE workflows[w].status # "running"
  BY <1>1, <1>2, ContractQuiet DEF Cancel
<1>3. CASE workflows[w].status = "running"
  <2> DEFINE S == Pending(w)
  <2>1. /\ workflows' = [workflows EXCEPT ![w].status = "cancelled"]
        /\ \A a \in ActivityIds :
             activities'[a] = IF a \in S THEN [activities[a] EXCEPT !.status = "cancelled"]
                              ELSE activities[a]
    BY <1>3 DEF Cancel
  <2>2. /\ activities \in [ActivityIds -> Activity] /\ workflows \in [WorkflowIds -> Workflow]
    BY DEF TypeOK
  <2>3. WorkflowIds' = WorkflowIds /\ ActivityIds' = ActivityIds /\ Plan' = Plan
    BY <1>1, SamePlan DEF WorkflowIds, ActivityIds
  <2>4. Statuses' = [Statuses EXCEPT ![w] = "cancelled"] /\ Statuses[w] = "running"
    BY <1>3, <2>1, <2>2, <2>3 DEF Statuses, Workflow
  <2>5. S = {a \in Contract!OfWorkflow(w) : Rows[a].status \in {"ready", "retry_pending"}}
    <3>1. S = {a \in Of(w) : activities[a].status \in {"ready", "retry_pending"}}
      BY DEF Of, Pending
    <3>2. \A a \in Of(w) : Rows[a].status = activities[a].status
      BY Mapped DEF Of
    <3> QED
      BY <3>1, <3>2, MappedOf
  <2> HIDE DEF S
  <2>6. Rows' = Contract!With(Rows, S, "cancelled")
    <3>1. Contract!With(Rows, S, "cancelled")
            = [a \in ActivityIds |-> IF a \in S THEN [Rows[a] EXCEPT !.status = "cancelled"] ELSE Rows[a]]
      BY Mapped DEF Contract!With
    <3>2. Rows' = [a \in ActivityIds |-> [status |-> activities'[a].status,
                                          token |-> activities'[a].fencingToken,
                                          owner |-> activities'[a].leaseOwner]]
      BY <2>3 DEF Rows, RowOf
    <3>3. ASSUME NEW a \in ActivityIds
          PROVE  [status |-> activities'[a].status, token |-> activities'[a].fencingToken,
                  owner |-> activities'[a].leaseOwner]
                   = IF a \in S THEN [Rows[a] EXCEPT !.status = "cancelled"] ELSE Rows[a]
      <4>1. CASE a \notin S
        BY <2>1, <4>1, Mapped
      <4>2. CASE a \in S
        BY <2>1, <2>2, <4>2, StatusMapped
      <4> QED
        BY <4>1, <4>2
    <3> QED
      BY <3>1, <3>2, <3>3
  <2>7. Contract!Cancel(w)
    BY <1>1, <2>3, <2>4, <2>5, <2>6 DEF Contract!Cancel
  <2> QED
    BY <2>7, Mapped DEF ContractStep, Contract!LifecycleNext
<1> QED
  BY <1>2, <1>3

\* A scheduler pass is a pass of the contract over the leases that have run
\* out and the activities that are due.
LEMMA ContractScheduler ==
  ASSUME TypeOK, FencedAttempts, RunSchedulerPass
  PROVE  ContractStep
<1> DEFINE lapsed    == {a \in ActivityIds : Expired(a)}
           released  == {a \in ActivityIds : Due(activities, a)}
           exhausted == {a \in lapsed : ~Contract!HasBudget(a)}
           swept     == [a \in ActivityIds |->
                           IF a \in lapsed
                           THEN Contract!Freed(a, IF a \in exhausted THEN "failed" ELSE "ready")
                           ELSE Rows[a]]
           Exhausted(a) == Expired(a) /\ ~(activities[a].attempt < activities[a].maxAttempts)
<1>1. UNCHANGED <<nextWorkflow, nextActivity, claims>> /\ StepRows
  BY RunSchedulerPassRows DEF RunSchedulerPass
<1>2. WorkflowIds' = WorkflowIds /\ ActivityIds' = ActivityIds /\ Plan' = Plan
  BY <1>1, SamePlan DEF WorkflowIds, ActivityIds
<1>3. \A a \in ActivityIds : a \in exhausted <=> Exhausted(a)
  BY BudgetIsSame
<1>4. lapsed \subseteq {a \in ActivityIds : Rows[a].status = "running"}
  BY Mapped DEF Expired
<1>5. released \subseteq Contract!Releasable(Rows)
  <2> SUFFICES ASSUME NEW a \in released PROVE a \in Contract!Releasable(Rows)
    OBVIOUS
  <2>1. a \in ActivityIds /\ activities[a].status = "retry_pending" /\ dependenciesComplete(activities, a)
    BY DEF Due
  <2>2. DOMAIN activities = ActivityIds
    BY DEF TypeOK
  <2>3. \A d \in Plan[a].dependsOn : d \in ActivityIds /\ activities[d].status = "completed"
    BY <2>1, <2>2, DependencyIds
  <2>4. Contract!DependenciesComplete(a, Rows)
    BY <2>3, Mapped DEF Contract!DependenciesComplete
  <2> QED
    BY <2>1, <2>4, Mapped DEF Contract!Releasable
<1>6. \A a \in ActivityIds : activities'[a] = IF Expired(a) \/ Due(activities, a) THEN Swept(a).row
                                              ELSE activities[a]
  BY DEF RunSchedulerPass
<1>7. ASSUME NEW a \in ActivityIds
      PROVE  [status |-> activities'[a].status, token |-> activities'[a].fencingToken,
              owner |-> activities'[a].leaseOwner]
               = IF a \in released THEN [swept[a] EXCEPT !.status = "ready"] ELSE swept[a]
  <2>1. activities[a] \in Activity /\ now \in Nat /\ {"ready", "failed"} \subseteq ActivityStatus
    BY DEF TypeOK, ActivityStatus
  <2>2. CASE Expired(a)
    <3> DEFINE status == IF Exhausted(a) THEN "failed" ELSE "ready"
    <3>1. activities'[a] = Freed(activities[a], status)
      BY <1>6, <2>2, SweptCases
    <3>2. a \notin released
      BY <2>2 DEF Expired, Due
    <3>3. swept[a] = Contract!Freed(a, status)
      BY <1>3, <2>2
    <3>4. status \in ActivityStatus
      BY <2>1
    <3> HIDE DEF status, swept, released
    <3>5. /\ activities'[a].status = status /\ activities'[a].leaseOwner = Empty
          /\ activities'[a].fencingToken = activities[a].fencingToken
      BY <2>1, <3>1, <3>4, FreedRow, OwnerFreed
    <3> QED
      BY <3>2, <3>3, <3>5, FreedMapped
  <2>3. CASE ~Expired(a) /\ Due(activities, a)
    <3>1. activities'[a] = [activities[a] EXCEPT !.status = "ready"]
      BY <1>6, <2>3, SweptCases
    <3>2. swept[a] = Rows[a] /\ a \in released
      BY <2>3
    <3> HIDE DEF swept, released
    <3> QED
      BY <2>1, <3>1, <3>2, StatusMapped
  <2>4. CASE ~Expired(a) /\ ~Due(activities, a)
    <3>1. activities'[a] = activities[a] /\ swept[a] = Rows[a] /\ a \notin released
      BY <1>6, <2>4
    <3> HIDE DEF swept, released
    <3> QED
      BY <3>1, Mapped
  <2> QED
    BY <2>2, <2>3, <2>4
<1>8. Rows' = Contract!With(swept, released, "ready")
  <2> HIDE DEF swept, released
  <2>1. Contract!With(swept, released, "ready")
          = [a \in ActivityIds |-> IF a \in released THEN [swept[a] EXCEPT !.status = "ready"] ELSE swept[a]]
    BY Mapped DEF Contract!With
  <2>2. Rows' = [a \in ActivityIds |-> [status |-> activities'[a].status,
                                        token |-> activities'[a].fencingToken,
                                        owner |-> activities'[a].leaseOwner]]
    BY <1>2 DEF Rows, RowOf
  <2> QED
    BY <1>7, <2>1, <2>2
<1>9. Statuses' = [w \in DOMAIN Statuses |->
                     IF exhausted \cap Contract!OfWorkflow(w) # {} THEN "failed" ELSE Statuses[w]]
  <2>1. \A w \in WorkflowIds : workflows'[w].status = IF \E a \in Of(w) : Exhausted(a) THEN "failed"
                                                      ELSE workflows[w].status
    BY SchedulerEffect
  <2> HIDE DEF exhausted, Exhausted
  <2>2. \A w : exhausted \cap Contract!OfWorkflow(w) # {} <=> \E a \in Of(w) : Exhausted(a)
    <3>1. \A w : Of(w) \subseteq ActivityIds
      BY DEF Of
    <3> QED
      BY <1>3, <3>1, MappedOf
  <2> QED
    BY <1>2, <2>1, <2>2, Mapped DEF Statuses
<1>10. Contract!RunSchedulerPass(lapsed, released)
  <2>1. swept = [a \in Contract!Activities |->
                   IF a \in lapsed
                   THEN Contract!Freed(a, IF a \in exhausted THEN "failed" ELSE "ready")
                   ELSE Rows[a]]
    BY Mapped
  <2> HIDE DEF swept, released, lapsed
  <2> QED
    BY <1>1, <1>2, <1>4, <1>5, <1>8, <1>9, <2>1, Mapped DEF Contract!RunSchedulerPass
<1> QED
  BY <1>10, Mapped DEF ContractStep, Contract!LifecycleNext

\* Start is Start of the contract.  A dependency of a new activity is a name of
\* the same definition, so whatever waits for a name waits for an activity.
LEMMA ContractStart ==
  ASSUME TypeOK, NEW def \in Definitions, NEW key \in Keys, Start(def, key)
  PROVE  ContractStep
<1>1. CASE UNCHANGED store
  <2>1. UNCHANGED <<nextWorkflow, nextActivity, workflows, activities, claims>>
    BY <1>1 DEF Start, store
  <2> QED
    BY <2>1, SameRows, ContractQuiet
<1>2. CASE ~UNCHANGED store
  <2> DEFINE w   == nextWorkflow + 1
             n   == nextActivity
             len == Len(def.activities)
             S   == n + 1 .. n + len
  <2>1. Create(def, key) /\ ValidDefinition(def) /\ UNCHANGED claims
    BY <1>2 DEF Start
  <2>2. /\ len \in Nat /\ n \in Nat /\ w \in Nat /\ nextWorkflow \in Nat
        /\ nextWorkflow' = w /\ nextActivity' = n + len
        /\ workflows' = [v \in 1 .. w |->
                          IF v < w THEN workflows[v]
                          ELSE [namespace |-> def.namespace, key |-> key, status |-> "running"]]
        /\ \A a \in 1 .. n : activities'[a] = activities[a] /\ activities[a].workflow \in 1 .. w - 1
        /\ \A a \in S : a - n \in 1 .. len /\ activities'[a] = NewActivity(w, def.activities[a - n])
    BY <2>1, CreateEffect DEF TypeOK
  <2>3. DOMAIN def.activities = 1 .. len
    BY EngineAssumption DEF WorkflowDefinition
  <2> HIDE DEF len
  <2>4. /\ ActivityIds = 1 .. n /\ ActivityIds' = ActivityIds \cup S /\ ActivityIds \cap S = {}
        /\ WorkflowIds' = WorkflowIds \cup {w} /\ w \notin WorkflowIds
        /\ \A j \in 1 .. len : n + j \in S /\ (n + j) - n = j
    BY <2>2 DEF ActivityIds, WorkflowIds
  <2>5. \A a \in ActivityIds : activities'[a] = activities[a] /\ activities[a].workflow # w
    BY <2>2, <2>4
  <2>6. \A a \in S : /\ a - n \in 1 .. len
                     /\ activities'[a].workflow = w /\ activities'[a].name = def.activities[a - n].name
                     /\ activities'[a].dependsOn = def.activities[a - n].dependsOn
                     /\ activities'[a].status = IF activities'[a].dependsOn = {} THEN "ready"
                                                ELSE "retry_pending"
                     /\ activities'[a].fencingToken = 0 /\ activities'[a].leaseOwner = Empty
    BY <2>2, NewRow
  <2>7. /\ DOMAIN Plan = ActivityIds /\ DOMAIN Plan' = ActivityIds'
        /\ DOMAIN Rows = ActivityIds /\ DOMAIN Rows' = ActivityIds'
        /\ DOMAIN Statuses = WorkflowIds /\ DOMAIN Statuses' = WorkflowIds'
    BY DEF Plan, Rows, Statuses
  <2>8. /\ \A v \in WorkflowIds : Statuses'[v] = Statuses[v]
        /\ Statuses'[w] = "running"
    BY <2>2, <2>4 DEF Statuses, WorkflowIds
  <2> HIDE DEF S, w
  <2>9. \A a \in ActivityIds : Rows'[a] = Rows[a]
    BY <2>4, <2>5 DEF Rows, RowOf
  <2>10. ASSUME NEW a \in ActivityIds PROVE Plan'[a] = Plan[a]
    <3>1. /\ activities'[a] = activities[a] /\ a \in ActivityIds' /\ activities[a].workflow # w
      BY <2>4, <2>5
    <3>2. {b \in ActivityIds' : /\ activities'[b].workflow = activities'[a].workflow
                                /\ activities'[b].name \in activities'[a].dependsOn}
            = {b \in ActivityIds : /\ activities[b].workflow = activities[a].workflow
                                   /\ activities[b].name \in activities[a].dependsOn}
      BY <2>4, <2>5, <2>6, <3>1
    <3>3. PlanOf(a)' = PlanOf(a)
      BY <3>1, <3>2 DEF PlanOf
    <3> QED
      BY <3>1, <3>3 DEF Plan
  <2>11. ASSUME NEW a \in S
         PROVE  Plan'[a].workflow = w /\ Rows'[a] = Contract!Fresh(Plan'[a])
    <3> DEFINE waits == {b \in ActivityIds' : /\ activities'[b].workflow = activities'[a].workflow
                                              /\ activities'[b].name \in activities'[a].dependsOn}
    <3>1. a \in ActivityIds'
      BY <2>4
    <3>2. Plan'[a] = [workflow |-> activities'[a].workflow, dependsOn |-> waits,
                      maxAttempts |-> activities'[a].maxAttempts]
      BY <3>1 DEF Plan, PlanOf
    <3>3. Rows'[a] = [status |-> activities'[a].status, token |-> activities'[a].fencingToken,
                      owner |-> activities'[a].leaseOwner]
      BY <3>1 DEF Rows, RowOf
    <3>4. waits = {} <=> activities'[a].dependsOn = {}
      <4> SUFFICES ASSUME NEW d \in activities'[a].dependsOn PROVE waits # {}
        OBVIOUS
      <4>1. PICK j \in 1 .. len : def.activities[j].name = d
        BY <2>1, <2>3, <2>6 DEF ValidDefinition
      <4>2. n + j \in S /\ activities'[n + j].name = d /\ activities'[n + j].workflow = w
        BY <2>4, <2>6, <4>1
      <4> QED
        BY <2>4, <2>6, <4>2
    <3>5. Plan'[a].dependsOn = waits /\ Plan'[a].workflow = activities'[a].workflow
      BY <3>2
    <3> HIDE DEF waits
    <3> QED
      BY <2>6, <3>3, <3>4, <3>5 DEF Contract!Fresh
  <2>12. Contract!Extends(Statuses, Statuses') /\ Contract!Extends(Plan, Plan')
         /\ Contract!Extends(Rows, Rows')
    BY <2>4, <2>7, <2>8, <2>9, <2>10 DEF Contract!Extends
  <2>13. \A a \in DOMAIN Plan' \ DOMAIN Plan : a \in S
    BY <2>4, <2>7
  <2>14. Contract!Start
    BY <2>1, <2>4, <2>7, <2>8, <2>11, <2>12, <2>13 DEF Contract!Start
  <2> QED
    BY <2>14 DEF ContractStep, Contract!LifecycleNext
<1> QED
  BY <1>1, <1>2

-----------------------------------------------------------------------------
\* Every step of the engine is a step of the contract or leaves it alone.
LEMMA NextContract == FencingInv /\ StatusInv /\ [Next]_vars => ContractStep
<1> SUFFICES ASSUME FencingInv, StatusInv, [Next]_vars PROVE ContractStep
  OBVIOUS
<1>1. TypeOK /\ FencedAttempts
  BY DEF FencingInv
<1>2. ASSUME NEW def \in Definitions, NEW key \in Keys, Start(def, key) PROVE ContractStep
  BY <1>1, <1>2, ContractStart
<1>3. ASSUME NEW worker \in Workers, NEW queue \in TaskQueues, Claim(worker, queue) PROVE ContractStep
  BY <1>1, <1>3, ContractClaim
<1>4. ASSUME NEW c \in claims, Heartbeat(c) PROVE ContractStep
  BY <1>1, <1>4, ContractHeartbeat
<1>5. ASSUME NEW c \in claims, Complete(c) PROVE ContractStep
  BY <1>5, ContractComplete
<1>6. ASSUME NEW c \in claims, NEW retryable \in BOOLEAN, Fail(c, retryable) PROVE ContractStep
  BY <1>1, <1>6, ContractFail
<1>7. ASSUME NEW w \in WorkflowIds, Cancel(w) PROVE ContractStep
  BY <1>1, <1>7, ContractCancel
<1>8. CASE RunSchedulerPass
  BY <1>1, <1>8, ContractScheduler
<1>9. CASE Tick \/ UNCHANGED vars
  <2>1. UNCHANGED <<nextWorkflow, nextActivity, workflows, activities, claims>>
    BY <1>9 DEF Tick, vars, store
  <2> QED
    BY <1>1, <2>1, SameRows, ContractQuiet
<1> QED
  BY <1>2, <1>3, <1>4, <1>5, <1>6, <1>7, <1>8, <1>9 DEF Next

\* The in-memory engine implements the contract its callers rely on, for any
\* workers, definitions and keys: every exported method and the clock is a
\* step of Lifecycle or changes nothing it speaks of.
THEOREM EngineKeepsContract == Spec => ImplementsLifecycle
BY ContractInit, NextContract, FencingAlways, HistoryAlways, PTL
   DEF Spec, ImplementsLifecycle, Contract!LifecycleSpec, ContractStep

=============================================================================
