------------------------------ MODULE PgStore -------------------------------
(***************************************************************************)
(* The PostgreSQL store (internal/persistence/postgres.go), after Start    *)
(* has committed its workflows.  Each method is one READ COMMITTED         *)
(* transaction of several statements; a session runs one at a time.        *)
(*                                                                         *)
(* What other transactions can observe is kept: every statement reads the  *)
(* committed tables (and its own writes) as they are when it starts, row   *)
(* locks last until commit, an UPDATE that had to wait tests its WHERE     *)
(* clause again on the row it finally gets, and now() is the time the      *)
(* transaction began.  A step is a statement, up to where it may wait, or  *)
(* one row of an UPDATE; BEGIN is merged with the statement that follows,  *)
(* and so are statements that only touch what the session has locked.      *)
(*                                                                         *)
(* Locks on a workflow row: an INSERT into workflow_events takes KEY SHARE *)
(* through its foreign key, UPDATE ... SET status takes NO KEY UPDATE,     *)
(* Cancel's SELECT ... FOR UPDATE conflicts with both.                     *)
(***************************************************************************)
EXTENDS Integers, FiniteSets

CONSTANTS Sessions,      \* connections of API servers and schedulers
          Workers,
          Workflows,
          Plan,          \* the activities Start inserted (see PgAssumption)
          Serves,        \* the task queues a worker's poll matches
          NoOwner,       \* lease_owner IS NULL
          LeaseTTL,      \* leaseTTL in milliseconds
          MaxTime,       \* bound: the database clock stops here
          MaxEvents,     \* bound: no worker call starts once so many
                         \* sequence numbers are drawn
          MaxAborts      \* bound: rollbacks of logged events

VARIABLES now,           \* the database clock, in seconds
          workflows,     \* committed workflow_executions.status
          activities,    \* committed activity_executions
          events,        \* committed workflow_events
          nextSequence,  \* workflow_events_sequence_seq, never rolled back
          tx,            \* the transaction of each session
          claims,        \* claims returned to workers
          aborts         \* transactions rolled back after logging

vars == <<now, workflows, activities, events, nextSequence, tx, claims, aborts>>

Activities == DOMAIN Plan

ASSUME PgAssumption ==
  /\ \A a \in Activities :
       /\ Plan[a].workflow \in Workflows
       /\ \A d \in Plan[a].dependsOn : d \in Activities /\ Plan[d].workflow = Plan[a].workflow
       /\ Plan[a].maxAttempts \in Nat \ {0} /\ Plan[a].backoff \in Nat
  /\ LeaseTTL \in Nat \ {0} /\ MaxTime \in Nat /\ MaxEvents \in Nat /\ MaxAborts \in Nat
  /\ NoOwner \notin Workers

-----------------------------------------------------------------------------
(* Transactions.                                                           *)

\* rows and wfs hold the versions of the rows the session has locked for
\* writing, todo the rows the current statement has still to visit, hit the
\* rows it has updated, log the events inserted and not yet committed.
Idle == [op |-> "none", pc |-> "idle", claim |-> <<>>, retryable |-> FALSE,
         at |-> 0, rows |-> <<>>, wfs |-> <<>>,
         keyshare |-> {}, todo |-> {}, hit |-> {}, log |-> {}]

Put(f, x, v) == [y \in DOMAIN f \cup {x} |-> IF y = x THEN v ELSE f[y]]

WorkflowOf(a) == Plan[a].workflow

\* What a statement of session p reads.
Row(p, a) == IF a \in DOMAIN tx[p].rows THEN tx[p].rows[a] ELSE activities[a]
Status(p, w) == IF w \in DOMAIN tx[p].wfs THEN tx[p].wfs[w] ELSE workflows[w]

Others(p) == Sessions \ {p}
RowFree(p, a)      == \A q \in Others(p) : a \notin DOMAIN tx[q].rows
KeyShareFree(p, w) == \A q \in Others(p) : ~(tx[q].op = "Cancel" /\ w \in DOMAIN tx[q].wfs)
NoKeyFree(p, w)    == \A q \in Others(p) : w \notin DOMAIN tx[q].wfs
UpdateFree(p, w)   == NoKeyFree(p, w) /\ \A q \in Others(p) : w \notin tx[q].keyshare

\* MUTANT: events are numbered after those that are committed.
LoggedAfterCommitted(t, w, entries) ==
  [t EXCEPT !.keyshare = @ \cup {w},
            !.log = @ \cup {[sequence |-> Cardinality(events) + i, workflow |-> w,
                             subject |-> entries[i][1], type |-> entries[i][2]] :
                            i \in DOMAIN entries}]

\* appendEvent, once per entry <<subject, type>>; the subject of a workflow
\* event is the workflow.  The sequence is drawn at the insert.
Logged(t, w, entries) ==
  [t EXCEPT !.keyshare = @ \cup {w},
            !.log = @ \cup {[sequence |-> nextSequence + i, workflow |-> w,
                             subject |-> entries[i][1], type |-> entries[i][2]] :
                            i \in DOMAIN entries}]

Becomes(p, t) == tx' = [tx EXCEPT ![p] = t]
At(p, op, pc) == tx[p].op = op /\ tx[p].pc = pc
Quiet == UNCHANGED <<now, workflows, activities, events, claims, aborts>>

Begin(op, pc) == [Idle EXCEPT !.op = op, !.pc = pc, !.at = now]

(* An UPDATE ... RETURNING and the loop that logs the rows it returned.    *)

\* The next statement, once all selected rows are visited (todo) and all
\* updated rows are logged (hit).
Onward(t) ==
  CASE t.pc \in {"expire", "promote", "drop"} /\ t.todo = {} /\ t.hit # {} ->
         [t EXCEPT !.pc = [expire |-> "expired", promote |-> "promoted", drop |-> "dropped"][t.pc]]
    [] t.pc = "drop" /\ t.todo \cup t.hit = {} -> [t EXCEPT !.pc = "dropped"]
    [] t.pc \in {"expire", "expired"} /\ t.todo \cup t.hit = {} -> [t EXCEPT !.pc = "release"]
    [] t.pc \in {"promote", "promoted"} /\ t.todo \cup t.hit = {} ->
         [t EXCEPT !.pc = IF t.op = "Complete" THEN "finish" ELSE "commit"]
    [] OTHER -> t

\* One selected row, once its lock is free: it becomes new[a] if it still
\* matches the WHERE clause, and is left alone otherwise.
Visit(p, pc, matching, new) ==
  /\ tx[p].pc = pc
  /\ \E a \in tx[p].todo :
       /\ RowFree(p, a)
       /\ Becomes(p, Onward(IF a \in matching
            THEN [tx[p] EXCEPT !.todo = @ \ {a}, !.hit = @ \cup {a}, !.rows = Put(@, a, new[a])]
            ELSE [tx[p] EXCEPT !.todo = @ \ {a}]))
  /\ Quiet /\ UNCHANGED nextSequence

\* tx.Commit: the writes become visible, the locks are gone.  A claim
\* reaches its worker only after the commit.
Commit(p) ==
  /\ tx[p].pc = "commit"
  /\ activities' = [a \in Activities |-> Row(p, a)]
  /\ workflows' = [w \in Workflows |-> Status(p, w)]
  /\ events' = events \cup tx[p].log
  /\ claims' = claims \cup
       {[activity |-> a, worker |-> tx[p].rows[a].owner, token |-> tx[p].rows[a].token] :
          a \in IF tx[p].op = "Claim" THEN DOMAIN tx[p].rows ELSE {}}
  /\ Becomes(p, Idle)
  /\ UNCHANGED <<now, nextSequence, aborts>>

\* MUTANT: events survive the rollback, as if logged outside the transaction.
AbortKeepsEvents(p) ==
  /\ tx[p].pc # "idle"
  /\ aborts' = aborts + (IF tx[p].log = {} THEN 0 ELSE 1)
  /\ aborts' <= MaxAborts
  /\ events' = events \cup tx[p].log
  /\ Becomes(p, Idle)
  /\ UNCHANGED <<now, workflows, activities, nextSequence, claims>>

\* The deferred rollback: a statement failed, the server chose this
\* transaction to break a deadlock, or the process or its connection died.
Abort(p) ==
  /\ tx[p].pc # "idle"
  /\ aborts' = aborts + (IF tx[p].log = {} THEN 0 ELSE 1)
  /\ aborts' <= MaxAborts
  /\ Becomes(p, Idle)
  /\ UNCHANGED <<now, workflows, activities, events, nextSequence, claims>>

-----------------------------------------------------------------------------
Init ==
  /\ now = 1
  /\ workflows = [w \in Workflows |-> "running"]
  /\ activities = [a \in Activities |->
       [status |-> IF Plan[a].dependsOn = {} THEN "ready" ELSE "retry_pending",
        attempt |-> 0, token |-> 0, owner |-> NoOwner, expires |-> 0, nextAt |-> 1]]
  /\ events = {}
  /\ nextSequence = 0
  /\ tx = [p \in Sessions |-> Idle]
  /\ claims = {}
  /\ aborts = 0

leaseSeconds == LeaseTTL \div 1000

(* Claim *)

\* MUTANT: without FOR UPDATE SKIP LOCKED.
PickableUnlocked(p, worker) ==
  {a \in Activities : activities[a].status = "ready" /\ Plan[a].queue \in Serves[worker]}

\* FOR UPDATE SKIP LOCKED: ready activities of the queue that nobody holds.
Pickable(p, worker) ==
  {a \in Activities : /\ activities[a].status = "ready"
                      /\ Plan[a].queue \in Serves[worker]
                      /\ RowFree(p, a)}

\* The pick and the UPDATE.  Activities of one workflow have
\* the same created_at and random ids, so any of them may come first.  With
\* nothing to pick the transaction is rolled back and the worker told so.
ClaimPick(p, worker) ==
  /\ tx[p].pc = "idle"
  /\ \/ Pickable(p, worker) = {} /\ UNCHANGED tx
     \/ \E a \in Pickable(p, worker) :
          Becomes(p, [Begin("Claim", "log") EXCEPT !.rows = Put(@, a,
            [activities[a] EXCEPT !.status = "running", !.attempt = @ + 1,
               !.owner = worker, !.token = @ + 1,
               !.expires = now + leaseSeconds])])
  /\ Quiet /\ UNCHANGED nextSequence

ClaimLog(p) ==
  /\ At(p, "Claim", "log")
  /\ \E a \in DOMAIN tx[p].rows :
       /\ KeyShareFree(p, WorkflowOf(a))
       /\ Becomes(p, Logged([tx[p] EXCEPT !.pc = "commit"], WorkflowOf(a),
                            <<<<a, "activity.claimed">>>>))
  /\ nextSequence' = nextSequence + 1
  /\ Quiet

(* Heartbeat, Complete and Fail start with lockActivity *)

WorkerCallBegin(p, op, c, retryable) ==
  /\ tx[p].pc = "idle"
  /\ nextSequence < MaxEvents
  /\ Becomes(p, [Begin(op, "lock") EXCEPT !.claim = c, !.retryable = retryable])
  /\ Quiet /\ UNCHANGED nextSequence

\* The lease is judged against the time the transaction began.
currentLease(p, row) ==
  /\ row.owner = tx[p].claim.worker
  /\ row.token = tx[p].claim.token
  /\ row.expires > tx[p].at

\* MUTANT: without FOR UPDATE, the row is read while another writes it.
lockActivityUnlocked(p) ==
  LET a   == tx[p].claim.activity
      row == activities[a]
  IN /\ tx[p].pc = "lock"
     /\ IF row.status # "running" THEN Becomes(p, Idle)
        ELSE Becomes(p, [tx[p] EXCEPT !.pc = IF currentLease(p, row) THEN "write" ELSE "stale",
                                      !.rows = Put(@, a, row)])
     /\ Quiet /\ UNCHANGED nextSequence

\* MUTANT: an activity that is not running is treated as a stale lease.
lockActivityAnyStatus(p) ==
  LET a   == tx[p].claim.activity
      row == activities[a]
  IN /\ tx[p].pc = "lock"
     /\ RowFree(p, a)
     /\ Becomes(p, [tx[p] EXCEPT
          !.pc = IF row.status = "running" /\ currentLease(p, row) THEN "write" ELSE "stale",
          !.rows = Put(@, a, row)])
     /\ Quiet /\ UNCHANGED nextSequence

\* SELECT ... FOR UPDATE returns the latest committed row.  The call ends
\* here unless the activity is running.
lockActivity(p) ==
  LET a   == tx[p].claim.activity
      row == activities[a]
  IN /\ tx[p].pc = "lock"
     /\ RowFree(p, a)
     /\ IF row.status # "running" THEN Becomes(p, Idle)
        ELSE Becomes(p, [tx[p] EXCEPT !.pc = IF currentLease(p, row) THEN "write" ELSE "stale",
                                      !.rows = Put(@, a, row)])
     /\ Quiet /\ UNCHANGED nextSequence

\* The rejected call records itself and commits.
Stale(p) ==
  LET a == tx[p].claim.activity
  IN /\ tx[p].pc = "stale"
     /\ KeyShareFree(p, WorkflowOf(a))
     /\ Becomes(p, Logged([tx[p] EXCEPT !.pc = "commit"], WorkflowOf(a),
          <<<<a, [Heartbeat |-> "activity.stale_heartbeat_rejected",
                  Complete  |-> "activity.stale_completion_rejected",
                  Fail      |-> "activity.stale_failure_rejected"][tx[p].op]>>>>))
     /\ nextSequence' = nextSequence + 1
     /\ Quiet

\* Session p writes row a and the given events, and continues at pc.
WriteRow(p, a, row, entries, pc) ==
  /\ Becomes(p, Logged([tx[p] EXCEPT !.pc = pc, !.rows = Put(@, a, row)],
                       WorkflowOf(a), entries))
  /\ nextSequence' = nextSequence + Cardinality(DOMAIN entries)
  /\ Quiet

HeartbeatWrite(p) ==
  LET a == tx[p].claim.activity
  IN /\ At(p, "Heartbeat", "write")
     /\ KeyShareFree(p, WorkflowOf(a))
     /\ WriteRow(p, a, [Row(p, a) EXCEPT !.expires = tx[p].at + leaseSeconds],
                 <<<<a, "activity.heartbeat">>>>, "commit")

Freed(row, status) == [row EXCEPT !.status = status, !.owner = NoOwner]

CompleteWrite(p) ==
  LET a == tx[p].claim.activity
  IN /\ At(p, "Complete", "write")
     /\ KeyShareFree(p, WorkflowOf(a))
     /\ WriteRow(p, a, Freed(Row(p, a), "completed"),
                 <<<<a, "activity.completed">>>>, "release")

FailRetry(p) ==
  LET a   == tx[p].claim.activity
      row == Row(p, a)
  IN /\ At(p, "Fail", "write")
     /\ tx[p].retryable /\ row.attempt < Plan[a].maxAttempts
     /\ KeyShareFree(p, WorkflowOf(a))
     /\ WriteRow(p, a,
          [Freed(row, "retry_pending") EXCEPT
             !.nextAt = tx[p].at + (Plan[a].backoff * row.attempt) \div 1000],
          <<<<a, "activity.retry_scheduled">>>>, "commit")

\* The UPDATE of the workflow row waits for whoever is writing it.
FailFinally(p) ==
  LET a   == tx[p].claim.activity
      w   == WorkflowOf(a)
      row == Row(p, a)
  IN /\ At(p, "Fail", "write")
     /\ ~(tx[p].retryable /\ row.attempt < Plan[a].maxAttempts)
     /\ NoKeyFree(p, w)
     /\ Becomes(p, Logged([tx[p] EXCEPT !.pc = "commit",
                             !.rows = Put(@, a, Freed(row, "failed")),
                             !.wfs = Put(@, w, "failed")],
                          w, <<<<a, "activity.failed">>, <<w, "workflow.failed">>>>))
     /\ nextSequence' = nextSequence + 2
     /\ Quiet

-----------------------------------------------------------------------------
(* releaseReady, called by Complete for its workflow and by the scheduler  *)
(* for all of them                                                         *)

\* MUTANT: a dependency that has started is enough.
dependenciesStarted(p, a) ==
  \A d \in Plan[a].dependsOn : Row(p, d).attempt > 0

dependenciesComplete(p, a) ==
  \A d \in Plan[a].dependsOn : Row(p, d).status = "completed"

Scope(p) == IF tx[p].op = "Complete" THEN {WorkflowOf(tx[p].claim.activity)} ELSE Workflows

\* The statement starts: the rows its WHERE clause selects now.
releaseReady(p) ==
  /\ tx[p].pc = "release"
  /\ Becomes(p, Onward([tx[p] EXCEPT !.pc = "promote",
       !.todo = {a \in Activities : /\ WorkflowOf(a) \in Scope(p)
                                    /\ Row(p, a).status = "retry_pending"
                                    /\ Row(p, a).nextAt <= tx[p].at
                                    /\ dependenciesComplete(p, a)}]))
  /\ Quiet /\ UNCHANGED nextSequence

Promote(p) ==
  Visit(p, "promote",
        {a \in Activities : Row(p, a).status = "retry_pending" /\ Row(p, a).nextAt <= tx[p].at},
        [a \in Activities |-> [Row(p, a) EXCEPT !.status = "ready"]])

\* One activity.ready event for each row updated.
LogPromoted(p) ==
  /\ tx[p].pc = "promoted"
  /\ \E a \in tx[p].hit :
       /\ KeyShareFree(p, WorkflowOf(a))
       /\ Becomes(p, Onward(Logged([tx[p] EXCEPT !.hit = @ \ {a}], WorkflowOf(a),
                                   <<<<a, "activity.ready">>>>)))
  /\ nextSequence' = nextSequence + 1
  /\ Quiet

(* completeWorkflowIfDone *)

\* MUTANT: a workflow is done when nothing runs.
AllCompletedIfIdle(p, w) ==
  \A a \in Activities : WorkflowOf(a) = w => Row(p, a).status # "running"

\* The statement's snapshot does not show what others have not committed.
AllCompleted(p, w) ==
  \A a \in Activities : WorkflowOf(a) = w => Row(p, a).status = "completed"

DoneCheck(p) ==
  LET w == WorkflowOf(tx[p].claim.activity)
  IN /\ tx[p].pc = "finish"
     /\ Becomes(p, [tx[p] EXCEPT !.pc =
          IF workflows[w] = "running" /\ AllCompleted(p, w) THEN "close" ELSE "commit"])
     /\ Quiet /\ UNCHANGED nextSequence

CloseWorkflow(p) ==
  LET w == WorkflowOf(tx[p].claim.activity)
  IN /\ tx[p].pc = "close"
     /\ NoKeyFree(p, w)
     /\ IF workflows[w] = "running"
        THEN /\ Becomes(p, Logged([tx[p] EXCEPT !.pc = "commit", !.wfs = Put(@, w, "completed")],
                                  w, <<<<w, "workflow.completed">>>>))
             /\ nextSequence' = nextSequence + 1
        ELSE Becomes(p, [tx[p] EXCEPT !.pc = "commit"]) /\ UNCHANGED nextSequence
     /\ Quiet

-----------------------------------------------------------------------------
(* Cancel *)

\* MUTANT: only ready activities are cancelled.
PendingReady(row) == row.status = "ready"

Pending(row) == row.status \in {"ready", "retry_pending"}

\* MUTANT: the status of the locked workflow is not tested.
CancelLockAnyStatus(p, w) ==
  /\ tx[p].pc = "idle"
  /\ UpdateFree(p, w)
  /\ Becomes(p, Onward([Begin("Cancel", "drop") EXCEPT !.wfs = Put(@, w, "cancelled"),
       !.todo = {a \in Activities : WorkflowOf(a) = w /\ Pending(activities[a])}]))
  /\ Quiet /\ UNCHANGED nextSequence

\* SELECT ... FOR UPDATE, the UPDATE of the workflow, and the start of the
\* UPDATE of its activities: whoever changes these has to log it, and cannot
\* while the workflow is locked.  A workflow that is not running is left
\* alone and the caller told so.
CancelLock(p, w) ==
  /\ tx[p].pc = "idle"
  /\ UpdateFree(p, w)
  /\ workflows[w] = "running"
  /\ Becomes(p, Onward([Begin("Cancel", "drop") EXCEPT !.wfs = Put(@, w, "cancelled"),
       !.todo = {a \in Activities : WorkflowOf(a) = w /\ Pending(activities[a])}]))
  /\ Quiet /\ UNCHANGED nextSequence

CancelDrop(p) ==
  Visit(p, "drop", {a \in Activities : Pending(Row(p, a))},
        [a \in Activities |-> [Row(p, a) EXCEPT !.status = "cancelled"]])

\* Nobody else can insert events for the workflow now.
CancelLog(p) ==
  /\ tx[p].pc = "dropped"
  /\ \E w \in DOMAIN tx[p].wfs :
       \/ \E a \in tx[p].hit :
            Becomes(p, Logged([tx[p] EXCEPT !.hit = @ \ {a}], w, <<<<a, "activity.cancelled">>>>))
       \/ /\ tx[p].hit = {}
          /\ Becomes(p, Logged([tx[p] EXCEPT !.pc = "commit"], w, <<<<w, "workflow.cancelled">>>>))
  /\ nextSequence' = nextSequence + 1
  /\ Quiet

-----------------------------------------------------------------------------
(* RunSchedulerPass *)

\* The UPDATE of expired leases starts.
SchedulerBegin(p) ==
  /\ tx[p].pc = "idle"
  /\ Becomes(p, Onward([Begin("RunSchedulerPass", "expire") EXCEPT
       !.todo = {a \in Activities : /\ activities[a].status = "running"
                                    /\ activities[a].expires <= now}]))
  /\ Quiet /\ UNCHANGED nextSequence

Expire(p) ==
  Visit(p, "expire",
        {a \in Activities : Row(p, a).status = "running" /\ Row(p, a).expires <= tx[p].at},
        [a \in Activities |-> Freed(Row(p, a), IF Row(p, a).attempt < Plan[a].maxAttempts
                                               THEN "ready" ELSE "failed")])

LogExpired(p) ==
  /\ tx[p].pc = "expired"
  /\ \E a \in tx[p].hit :
       LET w == WorkflowOf(a)
           t == [tx[p] EXCEPT !.hit = @ \ {a}]
       IN \/ /\ Row(p, a).status = "failed"
             /\ NoKeyFree(p, w)
             /\ Becomes(p, Onward(Logged([t EXCEPT !.wfs = Put(@, w, "failed")], w,
                  <<<<w, "workflow.failed">>, <<a, "activity.lease_expired_failed">>>>)))
             /\ nextSequence' = nextSequence + 2
          \/ /\ Row(p, a).status = "ready"
             /\ KeyShareFree(p, w)
             /\ Becomes(p, Onward(Logged(t, w, <<<<a, "activity.lease_expired">>>>)))
             /\ nextSequence' = nextSequence + 1
  /\ Quiet

Tick ==
  /\ now < MaxTime
  /\ now' = now + 1
  /\ UNCHANGED <<workflows, activities, events, nextSequence, tx, claims, aborts>>

Step(p) ==
  \/ (\E worker \in Workers : ClaimPick(p, worker)) \/ ClaimLog(p)
  \/ \E c \in claims : \/ WorkerCallBegin(p, "Heartbeat", c, FALSE)
                       \/ WorkerCallBegin(p, "Complete", c, FALSE)
                       \/ \E r \in BOOLEAN : WorkerCallBegin(p, "Fail", c, r)
  \/ lockActivity(p) \/ Stale(p)
  \/ HeartbeatWrite(p) \/ CompleteWrite(p) \/ FailRetry(p) \/ FailFinally(p)
  \/ releaseReady(p) \/ Promote(p) \/ LogPromoted(p)
  \/ DoneCheck(p) \/ CloseWorkflow(p)
  \/ (\E w \in Workflows : CancelLock(p, w))
  \/ CancelDrop(p) \/ CancelLog(p)
  \/ SchedulerBegin(p) \/ Expire(p) \/ LogExpired(p)
  \/ Commit(p) \/ Abort(p)

Next == Tick \/ \E p \in Sessions : Step(p)

Spec == Init /\ [][Next]_vars
-----------------------------------------------------------------------------
(* Properties, of what other transactions can read.                        *)

Rows == [status : {"ready", "running", "retry_pending", "completed", "failed", "cancelled"},
         attempt : Nat, token : Nat, owner : Workers \cup {NoOwner},
         expires : Nat, nextAt : Nat]

\* The committed tables are well typed, and every sequence number in
\* workflow_events was drawn once.
TypeOK ==
  /\ now \in Nat \ {0}
  /\ workflows \in [Workflows -> {"running", "completed", "failed", "cancelled"}]
  /\ activities \in [Activities -> Rows]
  /\ nextSequence \in Nat /\ aborts \in 0 .. MaxAborts
  /\ \A e \in events : e.sequence \in 1 .. nextSequence
  /\ \A e \in events, f \in events : e.sequence = f.sequence => e = f
  /\ claims \subseteq [activity : Activities, worker : Workers, token : Nat \ {0}]
  /\ \A p \in Sessions : DOMAIN tx[p].rows \subseteq Activities /\ DOMAIN tx[p].wfs \subseteq Workflows

\* Claims of concurrent transactions never share a fencing token, and a
\* running activity belongs to the newest claim ever returned: SKIP LOCKED
\* and the row locks of the other calls leave no room for a second owner.
LeaseHolderIsLatestClaim ==
  /\ \A c \in claims, d \in claims : c.activity = d.activity /\ c.token = d.token => c = d
  /\ \A a \in Activities :
       /\ activities[a].token = activities[a].attempt
       /\ activities[a].attempt <= Plan[a].maxAttempts
       /\ \A c \in claims : c.activity = a => c.token <= activities[a].token
       /\ activities[a].status = "running" =>
            [activity |-> a, worker |-> activities[a].owner, token |-> activities[a].token] \in claims

\* A workflow is failed exactly when one of its activities is, and completed
\* only when all are: Fail, Cancel, Complete and the scheduler agree on it
\* although each decides from rows it read at a different time.
WorkflowStatusExplained ==
  \A w \in Workflows :
    LET statuses == {activities[a].status : a \in {b \in Activities : WorkflowOf(b) = w}}
    IN /\ workflows[w] = "failed" <=> "failed" \in statuses
       /\ workflows[w] = "completed" => statuses = {"completed"}
       /\ workflows[w] = "running" => "cancelled" \notin statuses

\* When Cancel has committed, no activity that was never claimed is left to
\* run, whatever Claim or releaseReady was doing to it at the time.
CancelStopsUnstarted ==
  \A a \in Activities :
    workflows[WorkflowOf(a)] = "cancelled" /\ activities[a].attempt = 0
      => activities[a].status = "cancelled"

\* The status in which a logged transition leaves an activity.
StatusAfter ==
  [type \in {"activity.claimed", "activity.completed", "activity.retry_scheduled",
             "activity.cancelled", "activity.ready", "activity.lease_expired",
             "activity.failed", "activity.lease_expired_failed"} |->
     CASE type = "activity.claimed"         -> "running"
       [] type = "activity.completed"       -> "completed"
       [] type = "activity.retry_scheduled" -> "retry_pending"
       [] type = "activity.cancelled"       -> "cancelled"
       [] type \in {"activity.ready", "activity.lease_expired"} -> "ready"
       [] OTHER -> "failed"]

\* Sequence numbers are drawn before commit and transactions commit in any
\* order; read in sequence order, the log still ends, for each activity, with
\* the transition that gave it its status, and has one claim per attempt.
HistoryExplainsStatus ==
  \A a \in Activities :
    LET moves == {e \in events : e.subject = a /\ e.type \in DOMAIN StatusAfter}
    IN /\ \A e \in moves : (\A f \in moves : f.sequence <= e.sequence)
                             => activities[a].status = StatusAfter[e.type]
       /\ activities[a].attempt = Cardinality({e \in moves : e.type = "activity.claimed"})

\* The history of a completed workflow is closed: workflow.completed has its
\* highest sequence number, and no later call adds to it.
CompletionClosesHistory ==
  \A w \in Workflows : workflows[w] = "completed" =>
    \E e \in events :
      /\ e.subject = w /\ e.type = "workflow.completed"
      /\ \A f \in events : f.workflow = w => f.sequence <= e.sequence

\* No lost update: each commit moves a row by one transition of the activity
\* lifecycle from what was committed before, so no transaction overwrites a
\* state it has not seen.  Only a claim moves the token, by one; settled rows
\* are never touched again.
OneTransitionAtATime ==
  [][\A a \in Activities :
       LET old == activities[a]
           new == activities'[a]
       IN new # old =>
            \/ /\ old.status = "ready" /\ new.status = "running"
               /\ new.token = old.token + 1 /\ new.attempt = old.attempt + 1
            \/ /\ <<old.status, new.status>> \in
                    {<<"retry_pending", "ready">>, <<"retry_pending", "cancelled">>,
                     <<"ready", "cancelled">>, <<"running", "running">>,
                     <<"running", "completed">>, <<"running", "failed">>,
                     <<"running", "retry_pending">>, <<"running", "ready">>}
               /\ new.token = old.token /\ new.attempt = old.attempt]_vars

-----------------------------------------------------------------------------
(* Statements of the repository that the code does not keep.               *)

\* tests/postgres/guarantees_test.go:400 expects a workflow whose activities
\* have all completed to be completed.  Two Complete calls that overlap each
\* miss the other's uncommitted row in completeWorkflowIfDone, and nothing
\* looks at the workflow again.
NoStuckWorkflow ==
  \A w \in Workflows :
    /\ \A a \in Activities : WorkflowOf(a) = w => activities[a].status = "completed"
    /\ \A p \in Sessions : tx[p].pc = "idle"
    => workflows[w] # "running"

\* An accepted heartbeat is logged as "lease extended by ..."
\* (postgres.go:265): the deadline of a held lease never moves back.  A
\* heartbeat that began earlier and got the row later moves it back.
HeartbeatExtends ==
  [][\A a \in Activities :
       /\ activities[a].status = "running" /\ activities'[a].status = "running"
       /\ activities'[a].token = activities[a].token
       => activities'[a].expires >= activities[a].expires]_vars
=============================================================================
