# DurableGo: TLA+ models, checks and proofs

DurableGo starts workflows made of dependent activities, leases ready
activities to workers under a fencing token, and returns abandoned work to the
queue. This directory models its two stores (the in-memory engine and the
PostgreSQL store), the contract both keep, and what is built on that contract:
the worker runtime, the scheduler loop, the HTTP API with its callers, and the
dashboard's loading of data.

## The system

| Component | State | Operations | Hard because |
|---|---|---|---|
| In-memory engine (`internal/execution`) | workflows, activities, idempotency keys, event log, counters; one mutex | Start, Claim, Heartbeat, Complete, Fail, Cancel, RunSchedulerPass, reads | time-outs race late calls; long sequences of legal calls |
| PostgreSQL store (`internal/persistence`, `migrations`) | the same, as tables | the same, each one transaction of several statements | READ COMMITTED snapshots, row locks, `now()` fixed at BEGIN, sequence numbers drawn before commit, rollbacks, reads of several statements |
| Scheduler loop (`internal/scheduler`, `cmd/scheduler`) | a ticker | calls RunSchedulerPass; an error is logged and the loop goes on | may run in several processes |
| Worker runtime (`pkg/worker`, `cmd/worker`) | semaphore, goroutines with a claim each | poll, run handler, Complete or Fail | never heartbeats; report errors are dropped; handlers run beside their successors; shutdown |
| HTTP API (`internal/api`) | none | authorization, decoding, one store call, a status code | one status for several causes; lost and late requests and answers |
| Client, test worker, demo driver (`pkg/client`, `cmd/testworker`, `cmd/demo-driver`) | a claim, a key | requests, one at a time | repeat after a lost answer, replay of a dead worker's claim |
| Dashboard data (`web/lib`) | one page load | list and details with retries and timeouts, demo data | partial data, details read after the list |
| Configuration, metrics, wiring, load generator, test database, scripts, pages | none of interest | | |

Workers and clients reach the store through the API or, in `cmd/worker`,
directly; schedulers and API servers share the database and nothing else. The
engine has no internal concurrency (a mutex covers each call), so its
interleavings are interleavings of calls; the store's are interleavings of
statements.

What makes each correct:

- *store, either one*: a token is issued once and only the newest claim, while
  its lease lasts, can report; a lease lasts until its deadline; settled rows stay settled; nothing starts before
  its dependencies complete; the workflow's status agrees with its activities;
  the log explains the state; a key names one workflow; a read does not
  contradict itself;
- *scheduler and workers*: no slot leaks, a completed activity was executed, and
  all work of a workflow on an acyclic graph is done one day if workers keep
  polling and the scheduler keeps passing (that the workflow is then also closed
  is what `pg_stuck` refutes);
- *API and callers*: repeating a start is harmless, and a caller may rely on
  what 201, 204 and 409 say, as far as the store can promise it;
- *dashboard*: the label says what stands behind the data, nothing is older than
  the load, and every load ends.

`PROJECT.json` lists, under `hazards`, each place of the code where this could
go wrong and the property that watches it.

## Modules

### Engine (in-memory engine)

One action per exported method, atomic as under the mutex: `Start`, `Claim`,
`Heartbeat`, `Complete`, `Fail`, `Cancel`, `RunSchedulerPass`; `Tick` is the
clock. The variables are the fields of `Engine`; `claims` (every claim ever
handed out) and `reply` (what the last call returned) stand for its callers.
Any claim ever handed out may report at any time, any number of times, which
covers dead workers coming back, duplicated and delayed calls. Helpers keep
their Go names without `Locked`.

Abstractions: ids are numbers (the source pads them to six digits and sorts
strings, the same order below a million); time counts from 1 with 0 for the
zero time; wording, timestamps and `LastError` are dropped; the NUL-joined key
`namespace\x00key` is a pair, which is exact while namespaces contain no NUL.
Calls with ids that do not exist return `ErrNotFound` and change nothing; they
are left out here and are part of Api.

### PgStore (PostgreSQL store)

The tables after Start has committed its workflows (their rows as Start inserts
them; `workflow.started` and `activity.scheduled` precede everything and are
left out), and one transaction per session, statement by statement:

- a statement reads the committed rows and the session's own writes (`Row`,
  `Status`);
- row locks last until commit. On a workflow row, inserting an event takes KEY
  SHARE through the foreign key of `migrations/001_init.sql`, changing the
  status takes NO KEY UPDATE, and Cancel's FOR UPDATE conflicts with both;
- an UPDATE visits the rows its WHERE clause selected when it started, waits for
  each row's lock, and tests it again (`Visit`); the NOT EXISTS subqueries are
  answered once, from the statement's snapshot;
- `now()` is the time the transaction began (`at`);
- a sequence number is drawn at the insert and is lost by a rollback;
- `Abort` is the deferred rollback: a failed statement, a deadlock victim, a
  crash. A claim reaches its worker only with the commit.

BEGIN is merged with the statement that follows it; statements that only touch
rows the session has locked are merged. The order of claims within a workflow
is left open, because ids are random and creation times equal. A worker's queue
test is `Serves`.

Session steps and source: `ClaimPick`, `ClaimLog` (Claim); `WorkerCallBegin`,
`lockActivity`, `Stale` (the common start of worker calls); `HeartbeatWrite`;
`CompleteWrite`, then `releaseReady`, `Promote`, `LogPromoted`, then `DoneCheck`,
`CloseWorkflow` (completeWorkflowIfDone); `FailRetry`, `FailFinally`;
`CancelLock`, `CancelDrop`, `CancelLog`; `SchedulerBegin`, `Expire`,
`LogExpired`, then the release steps again for all workflows.

### PgStart (Start of the PostgreSQL store)

The Start transaction, statement by statement: `Start` (validation, then
BEGIN), `ensureNamespace`, `lookupKey`, `insertWorkflow`, `insertKey`,
`insertActivities`, `Commit`. The variables hold committed rows; what a
transaction has written and not committed follows from its place and its call.
Call n inserts workflow n, where PostgreSQL draws a UUID. The upsert of the
namespace waits for, and then keeps, the namespace's row (`NamespaceHeld`); the
insert of the key waits for an uncommitted insert of the same key (`KeyHeld`).
`Abort` stands for a failed statement, the hook `crashBeforeCommit` and the death
of the process; `crashAfterCommit` and a lost answer are a `Commit` that is not
delivered. Clients call again as they like, with the same key or another.
Refused definitions change nothing. `existingIdempotentWorkflow` is the second
branch of `insertKey`, and `NoLateConflict` shows that it is never taken.

### PgRead (reads of the PostgreSQL store)

PgStore with a reader: `ListWorkflows` is one statement, `Workflow` three
(`workflowTx`), each on what is committed when it starts. The properties are
about the answer as put together, after the store has moved on.

### Lifecycle, EngineRefinement, PgRefinement (the contract of a store)

`Lifecycle` is the abstract specification of what a store promises behind the
`Backend` interfaces: activity rows move along claim, complete, fail, cancel and
scheduler pass, tokens only grow, and only the holder's report counts. It has no
clock (a lease may lapse, and a backoff end, at any time), no log and no locks;
a refused call and a heartbeat change nothing in it.

`EngineRefinement` maps the engine's state to it: activity ids instead of names
within a workflow, status, token and owner of each row. `PgRefinement` maps the
*committed* rows, so every transaction has to amount to one step of the contract
at its commit. The constant `MayMissClose` allows `Complete` to leave a finished
workflow running. The engine implements the contract without that liberty; the
PostgreSQL store needs it, and the run `pg_stuck` shows why.

`ImplementsLifecycle` says in one formula that Cancel gives up everything that is
not running and nothing revives it, that settled rows stay settled, that nothing
is released before its dependencies complete, and that the last completion
closes the workflow; these are therefore not stated again one by one for both
stores.

### Runtime (worker runtime and scheduler loop)

Worker processes on a store of which they know no more than `Lifecycle`; what it
shows thus holds over either store. As `cmd/worker` runs on PostgreSQL, the run
has `MayMissClose` true, and `AcyclicWorkIsDone` promises no more than is so
there: in the end a workflow without cycles is over, or all its activities are
completed and only the close was missed.

`Run` is `AcquireSlot`, `ReturnOnContext`, `PollTask`, `PollNothing`, `PollError`,
`Wake`, `Return`; `execute` is `HandlerReturns` and `Report`. A report is taken,
refused or lost, and the goroutine ends in any case, as the code does not look at
the result. A failed poll may have been committed; its claim is then nobody's.
`Kill` and `Restart` are the container, and the death of a whole group is several
kills. `SchedulerTick` is a pass that does something; a failed pass changes
nothing. Processes share a worker id, the default of `cmd/worker`.

### Api (HTTP server and its callers)

`cmd/api` serves the PostgreSQL store, so the server stands in front of a store
known by the contract `Lifecycle` (with `MayMissClose`), to which Api adds what
the answers depend on: the idempotency keys and the deadline of each lease. A
call that looks at the clock is served in two steps. `Begin` is BEGIN, which
fixes its `now()`; the rest (`Backend`) takes effect at the commit, any time
later, judged on the rows as they are then and on the time at which it began
(`Current`). This is what PgStore does between `WorkerCallBegin` and the commit:
once `lockActivity` has judged the lease, nobody else can change the row. The
engine is the case in which no time passes between the two steps.

`Serve` is the whole handler: authorization, decoding, the store's call,
`writeEngineError`. Where the stores differ (404 or 400 for an unknown id, a known
key under a definition that is refused) the model has both. `ServeStoreFails` is a
store that fails before or after its commit, answered with 400. A call found stale
is answered with 409 whether or not its event could be appended and committed
(`postgres.go:253-255`, `284-286`, `320-322` ignore both errors); the log is not
part of Api, so such a failure is the same step of `Serve`.

What a 409 says therefore has an exception, stated in `ConflictMeansNotTaken` and
`ConflictIsFinal`. A completion that began before the lease ran out and waited for
the row may be taken after another call with the same claim, begun later, was
answered with 409. Each answer notes the calls with its claim that were being
served at the time (`during`), and only these can still get through (`Overtaken`).

A request stays in the network until served, possibly for ever; an answer stays
available, and its caller may have given up before. Callers know a claim only
from an answer: `Tester*` is `cmd/testworker`, which takes every answer but 204
for a claim and exits on the first error; `ClientStarts` and `ClientReturns` are
`client.StartWorkflow` and, with a fresh key for each attempt, the demo driver;
`OperatorPosts` replays claims that were printed, cancels, or posts what does not
decode.

### Dashboard (loading of data)

One load of a page: `Throws` and `Responds` are `fetchAPI` under
`withColdStartRetries` (an attempt that throws is repeated, a response ends the
retries whatever its status), `ShowList`, `ShowWorkflow` and `ShowDemo` are the ends of
`getDashboardData` and `getWorkflowData`. Details are fetched concurrently.
Workflows end while the page loads; that they also start changes nothing for
those already listed, and is left out. The conversion of fields is reduced to
whether it succeeds.

### MC modules, proof modules

The instances for TLC, and the theorems: `EngineProofs` about the activities of
Engine and `EngineWorkflowProofs` about its workflows, log and contract;
`PgStoreProofs` about PgStore and PgRead and `PgContractProofs` about PgStore's
contract; `ApiProofs`, `PgStartProofs`, `RuntimeProofs` and `DashboardProofs` about
the modules they are named after.

Operators commented `MUTANT` in the modules are plausible mistakes in the
definition that follows them. Each property is known to fail when its mutant
(listed in `PROJECT.json`) replaces the definition.

## Runs

Run one with `tlc -workers 2 -config X.cfg M`; each takes at most a few minutes.

| Run | Instance | Shows |
|---|---|---|
| `engine` | 2 workers; a chain of 2 activities, or 3 activities in 2 queues of which one joins the others; 2 attempts, lease 2, time to 3, 1 heartbeat or stale call | types, fencing, leases that last until their deadline, dependencies first, workflow status, the log, and that every step is one of the contract |
| `pg_chain` | 2 sessions, 2 workers, a chain of 2 activities, time to 2, 5 sequence numbers before the last worker call | consistency of committed rows and log across tables while transactions overlap, no token issued twice, no lost update, each transaction one step of the contract |
| `pg_read` | 1 writing session and a reader, the same chain, a rollback of logged events | what a reader puts together agrees, also after a rollback |
| `pg_start` | 3 clients, 2 namespaces or none, 1 key or none, 6 definitions (1 valid), 4 calls | idempotent Start under concurrency, crashes and lost answers |
| `runtime` | 2 processes with one worker id and 2 slots, one of them without a handler for some activities; a chain and a cyclic workflow; 1 kill, shutdown or failed poll | no slot leaks, completed means executed, reruns are fenced; what can run is settled, acyclic work is done, a shutdown ends |
| `api_workers` | 2 test workers with one id, an operator, 1 client, an activity with 2 attempts, lease 1, time to 2, 1 failure of the store | what 204, 409 and CLAIMED say is true |
| `api_start` | 1 client with valid, cyclic and refused definitions in 2 namespaces under 1 key or none, a demo driver, a caller without the API key, 3 workflows, 1 failure of the store | a key names one workflow of its namespace, in all answers |
| `dashboard` | 3 workflows of which any may exist, 2 shown | honest labels, nothing stale or hidden, every load ends |
| `engine_failure_log`, `engine_late_completion`, `pg_stuck`, `pg_heartbeat` | small | violations, see below |

Why the bounds are enough: two workers (or sessions, or processes) are a stale
holder and its heir; two attempts give a reclaim and exhaustion; a chain of two
gives release and closing; the join gives several dependencies; three clients
are one that commits, one that waits and one that retries. Rollbacks before
anything is logged are never bounded; in `pg_read` one rollback wastes sequence
numbers, while in `pg_chain` two sessions draw theirs in one order and commit in
the other. A lease of two in `engine` leaves an instant in which it is neither new
nor run out. A lease of one in `api_workers` is enough for two calls with one claim
to be under way on either side of the deadline: without the exception both 409
properties fail there. One fault in `runtime` is enough to lose a claim, a process or a shutdown in
progress, while reports may be lost without bound. Two shown workflows of three
reach the cut of the list. `StartsAgree` is about the answers and so covers the
engine's idempotent Start as well: a key that came to name a second workflow
would show in a later answer.

Deadlock is checked in all runs but `dashboard`, whose load ends.

### Fairness

Liveness is checked in `runtime` and `dashboard`.

- The loops of a worker process, its goroutines and its return go on (weak
  fairness): they are goroutines that wait for nothing but the store. That
  handlers return is an assumption; it holds for those `cmd/worker` registers.
- A cancelled context is seen (strong fairness of `ReturnOnContext`): Go's
  `select` chooses at random among ready cases, so it does not pass over
  `ctx.Done()` for ever although a slot is free each time.
- Polls do not come back empty for ever while something is ready (strong fairness
  of a successful poll): PostgreSQL skips rows only while others hold their locks.
- The scheduler gets to each activity that keeps waiting for it (weak fairness per
  activity): the loop never ends, errors included; nobody in `Runtime` heartbeats,
  so each lease runs out; backoffs are finite. A client that heartbeats for ever is
  not part of this run.
- A process that has ended is started again: the all-in-one entry point exits when
  one of its processes does, for the platform to restart it. The compose file has no
  restart policy; there, liveness needs one process that survives.
- Every attempt of a dashboard fetch ends, by its timeout.

Kills, shutdowns and failed polls are bounded: with failures without end nothing
need ever be done.

### What the violation runs show

- `pg_stuck`: two overlapping `Complete` calls on the last two activities each
  miss the other's uncommitted row in `completeWorkflowIfDone`. All activities
  are completed, the workflow stays running, and nothing looks at it again.
- `pg_heartbeat`: a heartbeat that began first but got the row last moves the
  lease's deadline back and is logged as an extension.
- `engine_failure_log`: the in-memory scheduler pass fails a workflow without
  the `workflow.failed` event that Fail and the PostgreSQL store write.
- `engine_late_completion`: after the heir has completed, a dead worker's
  completion gets `ErrInvalidTransition` (400) and no event, where README.md
  promises 409 and `activity.stale_completion_rejected`.

## Proofs

All theorems hold for every value of the constants the module's assumption
allows: any number of workers, clients, sessions or processes, any definitions
and any bounds. Each rests on an inductive invariant that was first checked by
TLC on the instances above.

| Module | Theorem | Property |
|---|---|---|
| `EngineProofs` | `TypeCorrect` | `TypeOK` |
| | `AttemptsAreFenced` | `FencedAttempts` |
| | `LatestClaimHolds` | `LeaseHolderIsLatestClaim` |
| | `LeasesLast` | `LeaseLasts` (of steps) |
| | `DependenciesComeFirst` | `DependenciesFirst` |
| `EngineWorkflowProofs` | `StatusesAreExplained` | `WorkflowStatusExplained` |
| | `LatestClaimAccepted` | `OnlyLatestClaimAccepted` (of steps) |
| | `LogTellsTheTruth` | `HistoryExplainsStatus` |
| | `CompletionIsLast` | `CompletionClosesHistory` |
| | `EngineKeepsContract` | `ImplementsLifecycle` (refinement) |
| `ApiProofs` | `PrintedClaimsWereHeld` | `PrintedWasHeld` |
| | `ConflictsAreTrue` | `ConflictMeansNotTaken` |
| | `ConflictsAreFinal` | `ConflictIsFinal` (of steps) |
| | `AcknowledgementsStand` | `AcknowledgedStands` |
| | `RepeatedStartsAgree` | `StartsAgree` |
| `PgStartProofs` | `StartTypeCorrect` | `TypeOK` |
| | `KeyStartsOneWorkflow` | `OneWorkflowPerKey` |
| | `KeysAreNeverOrphaned` | `KeysNameWorkflows` |
| | `CallersAgree` | `AnswersAgree` |
| | `NamespaceLockSuffices` | `NoLateConflict` |
| `PgStoreProofs` | `StoreTypes` | `TypeOK` |
| | `StoreFencing` | `LeaseHolderIsLatestClaim` |
| | `StoreLosesNoUpdate` | `OneTransitionAtATime` (of steps) |
| | `StoreHistoryExplains` | `HistoryExplainsStatus` |
| | `StoreStatusExplained` | `WorkflowStatusExplained` |
| | `StoreCancelStops` | `CancelStopsUnstarted` |
| | `StoreCompletionCloses` | `CompletionClosesHistory` |
| | `ReadHistoryReachesRows` | `HistoryReachesRows` |
| | `ReadAnswerAgrees` | `AnswerAgrees` |
| | `ReadDetailFollowsList` | `DetailFollowsList` |
| `PgContractProofs` | `StoreKeepsContract` | `ImplementsLifecycle` (refinement) |
| `RuntimeProofs` | `SlotsNeverLeak` | `SlotsAccountedFor` |
| | `CompletionsWereExecuted` | `CompletedWasExecuted` |
| | `RerunsNeverShareAToken` | `RerunsAreFenced` |
| `DashboardProofs` | `LabelsAreHonest` | `LabelIsHonest` |
| | `PagesAreNotStale` | `NotStale` |

### Assumptions

- `EngineAssumption` says what Go's types give: definitions have the shape of the
  structs, `Empty` is a name, a queue, a namespace and a key, and the bounds are
  numbers. It does not assume positive defaults or acyclic graphs, and a worker's
  id may be empty.
- `ApiAssumption` gives the shapes of the constants: `Empty` is the id of no workflow
  and no activity; test workers, clients and the operator are different processes;
  the demo driver has a key of its own for each attempt.
- `PgAssumption` says what Start has committed: dependencies are activities of the
  same workflow, attempts are positive, backoffs are whole milliseconds and may be
  0. It does not assume acyclic
  dependencies, nor anything about the sessions.
- `StartAssumption`, `RuntimeAssumption` and `DashboardAssumption` give the shapes of
  the constants and positive attempt budgets, which Start sets. Concurrency is any
  integer, as for `Run`.

### Engine

`TypeOK` is inductive; there is one lemma per action. The next theorems rest on
one fact proved per action (`NextRows`): a step moves each activity row along
the lifecycle relation `RowStep` (claimed, renewed, settled, requeued, promoted,
dropped), adds fresh rows, and hands out at most the claim that moved a row
(`StepRows`). The invariants then need that relation only:

- `FencingInv` is `TypeOK`, `FencedAttempts`, "a running row has an owner, a
  deadline and its own claim" and "no claim's token is above its row's, and
  equal tokens are the same claim". `FencedAttempts` alone does not bound the
  tokens already handed out, and the holder property is not inductive without
  that bound.
- `LeaseInv` adds that no deadline is further off than one lease from now, so that a
  renewal never brings it forward. With the fencing, only the holder can be the
  one whose result ends a lease before its deadline.
- `DependencyInv` adds to `DependenciesFirst` that ready and running rows have
  complete dependencies, since Claim does not look at dependencies. It is
  preserved because completed rows never move and names within a workflow never
  change.
- `StatusInv` relates each workflow to its rows. A call touches the rows of one
  workflow only, except for the scheduler pass, which fails each workflow it
  fails an activity of; the proof follows the pass through its three loops.
- `HistoryInv` is both log properties together with "no number in the log is above
  the counter, and what is logged names existing workflows and activities". Each
  action appends a short batch; the last move of an
  activity in the longer log is the one in the batch, if it has one, and the old
  one otherwise, and the claims counted grow by the batch's.

The contract: under the mapping of `EngineRefinement` the
initial states agree, each call is one step of `Lifecycle` or none, and the clock
is none. It needs `FencingInv`, because the contract's budget counts tokens and
the engine's counts attempts, and `StatusInv`, because the contract closes a
workflow with its last completion.

### Api

Each answer is one step of the store or none (`StoreMoves`, `ClaimGrants`,
`CreateGrows`), and one fact about what the answer says (`Serving`). `ApiInv` has
four parts:

- `ContractInv`: nobody has a token that was not granted yet, and the newest one
  only who holds the lease;
- `KeysInv`: a key leads to one workflow, and no other key leads there;
- `CallersInv`: a caller's claim, a request's and a printed one were all answered
  to a poll before, no call began in the future, and requests carry what their
  callers' programs put into them;
- `AnswersInv`: what each answer says of the store, then and ever after (`TrueOf`). A
  claim answered with 409 is superseded (its token overtaken or its lease given up);
  or the lease has run out for all calls but those that were being served at the
  time (`LapsedFor`); or one of these has fared otherwise (`Overtaken`).

The properties are about answers alone; they become inductive only with the
store's side of each answer. The heart is `ConflictStays`: `LapsedFor` survives the
clock, since calls that begin later begin after the deadline, and survives a call
getting the row, since that call was either among those noted with the answer or is
itself too late; a heartbeat that moves the deadline is one of them.

### PgStore, PgRead

The committed tables are only as good as what the transactions under way are
about to write, so each invariant is mostly about those. `StepCases` reduces the
twenty actions to what a statement does to its own transaction (`Statement`:
begins, writes a result, visits a row, logs a row, moves on); no other step but a
commit touches the tables. Each invariant is then shown once for statements and
once for commits:

- `StoreInv`: every uncommitted version of a row is one transition (`Moves`) away
  from the committed one, no row is held by two sessions, after lockActivity the
  session has the row as it is committed, each sequence number is inserted once, and
  what waits has budget left. It stays true of a transaction while others commit
  because they cannot hold its rows, which is all there is against lost updates.
- `HistoryInv`: a transaction has logged each of its transitions by its commit,
  once, under a number above all committed moves of the activity. That numbers are
  drawn before commit does no harm, because the number is drawn while the row is
  held. What is committed explains every status, and counts one claim per attempt.
- `StatusInv`: who is about to write the status of a workflow holds the row that
  is the reason for it, or has seen all activities committed as completed; no two
  sessions write one workflow; nothing can be logged of a workflow that is completed
  or about to be (`Open`), as whoever might still log holds a row of it that runs or waits.
- `ReadInv`: what the three statements of a reader owe each other. Between them
  the tables only go on from what was read (`Follows`), and each row read is a point
  of the history (`Reaches`), which later commits extend and never rewrite.
- `ContractInv`: a transaction decides on the rows it reads but is judged on the
  rows at its commit. KEY SHARE and FOR UPDATE keep loggers and Cancel off the same
  workflow, so Cancel misses nothing that waits; what is released stays due, since
  completed rows never move; a result that will count is that of the lease's holder,
  whose row is locked. With it each commit is one action of `Lifecycle` and every
  other step is none. The proof uses `MayMissClose` where Complete commits without
  closing: `pg_stuck` shows that it cannot do without.

### PgStart, Runtime, Dashboard

- `StartInv`: besides types, one transaction at a time is past the lock of its
  namespace; past the lookup its key is free, and stays so as it holds the lock;
  keys and answers name committed workflows; ids are drawn once.
- `RuntimeInv` is `ContractInv` (each token granted once, within the budget), "the
  goroutines of all processes work on different claims", "a goroutine about to report
  success has run its handler", and the two properties. `RerunsAreFenced` also counts:
  the runs of an activity are injected into 1 .. token.
- `DashboardInv` ties the list and the details to the fetches that brought them, and
  says that workflows only end while the page loads.

### Only model-checked

Every safety property that a run checks is also proved. Out of the prover's reach
and left to TLC is liveness under fairness (`ReachableSettles`, `AcyclicWorkIsDone`,
`ShutdownEnds`, `LoadEnds`).

## Seen while modelling, not checked

- The dashboard gives up after about 41 seconds of attempts and pauses;
  `docs/deployment.md` (lines 27-28) speaks of a cold start of about a minute. A
  page opened on a sleeping service can thus say unavailable, which is honest.
- Test packages that share a database check for the schema and then create it; two
  of them at once may both find it missing.
- After a lost answer the demo driver makes up a new key, so its order may exist
  twice.

## Plan

1. Engine, PgStore, PgStart with their runs, and Engine's first invariants proved:
   done.
2. The contract and its two refinements; Runtime; Api; PgRead; Dashboard: done.
3. Proofs of Engine (all invariants, the action property and the contract), Api,
   PgStart, Runtime and Dashboard: done.
4. Proofs of PgStore (all invariants, the action property and the contract) and of
   PgRead: done.
5. Api moved from the engine to the contract with BEGIN and deadlines, and proved
   again; `LeaseLasts` for the engine: done.

## Not modelled

- Configuration and metrics: read once, formatted; nothing changes state.
- `cmd/api` and `cmd/scheduler` beyond what is said above: wiring.
- `cmd/loadgen`: a loop of Start calls on an in-memory engine of its own.
- The test database (`internal/testdb`): a fixture of the tests.
- The dashboard's pages and fixtures: rendering.
- Deployment scripts and compose files beyond killing and restarting processes,
  and the PowerShell demonstration.
- The reading routes of the API: they hand on what the store returns, which is
  PgRead's and Dashboard's subject.
