-------------------------------- MODULE Api ---------------------------------
(***************************************************************************)
(* The HTTP API (internal/api/server.go) and those who call it: the test   *)
(* worker (cmd/testworker), callers of the client library (pkg/client),    *)
(* the demo driver (cmd/demo-driver), and an operator who posts by hand,   *)
(* replaying a dead worker's claim for one.                                *)
(*                                                                         *)
(* The server stands in front of any store that keeps the contract of      *)
(* Lifecycle.  To that this module adds what the answers depend on: the    *)
(* idempotency keys, and the lease's deadline.  As cmd/api serves the      *)
(* PostgreSQL store, a call that looks at the clock is two steps: BEGIN,   *)
(* which fixes its now(), and the rest, which takes effect at its commit   *)
(* and may have waited for a row's lock.  The in-memory engine is the case *)
(* in which no time passes in between.                                     *)
(*                                                                         *)
(* A request may wait in the network, or never be served; an answer may    *)
(* come after its caller has timed out or died.  Callers know a claim only *)
(* from an answer.  The store may fail under a call (a lost connection, a  *)
(* deadlock), before or after its commit; the server answers 400.          *)
(***************************************************************************)
EXTENDS Lifecycle, Sequences

CONSTANTS Empty,         \* the empty string: no key, no activity, no workflow
          WorkflowIds,   \* bound: the ids of workflows ever started
          Names,         \* activity names
          Definitions,   \* what is submitted: namespace, activities by name,
                         \* and what is wrong with it
          LeaseTTL,
          MaxTime,       \* bound: the clock stops here
          Testers,       \* test worker processes
          WorkerFlag,    \* -worker-id of each, "test-worker" by default
          Holding,       \* those started with -hold
          Clients,       \* callers of client.StartWorkflow
          Drivers,       \* demo drivers, also in Clients
          Operator,
          Submissions,   \* what each client may submit: def and key
          FreshKeys,     \* the keys a driver makes up, one for each attempt
          Denied,        \* callers without the API key the server demands
          MaxRequests,   \* bound: requests of each caller
          MaxFailures    \* bound: calls the store fails

VARIABLES now,           \* the clock of the store
          expires,       \* lease_expires_at of each activity
          keys,          \* idempotency keys: namespace, key, workflow
          requests,      \* in the network, or being served
          answers,       \* every answer sent
          sent,          \* number of requests of each caller
          pc,            \* what each tester or client is doing
          claim,         \* the claim each tester works on
          printed,       \* the claims announced with CLAIMED
          failures

store   == <<contract, expires, keys>>
callers == <<sent, pc, claim, printed>>
net     == <<requests, answers, callers, failures>>
apiVars == <<now, store, net>>

Callers   == Testers \cup Clients \cup {Operator}
LeaseOps  == {"heartbeat", "complete", "fail"}

ASSUME ApiAssumption ==
  /\ LeaseTTL \in Nat /\ MaxTime \in Nat
  /\ Empty \notin WorkflowIds \cup (WorkflowIds \X Names)
  /\ \A def \in Definitions :
       /\ DOMAIN def.activities \subseteq Names
       /\ def.fault \in {"none", "activities", "incomplete"}
  /\ WorkerFlag \in [Testers -> Workers] /\ Holding \subseteq Testers
  /\ Drivers \subseteq Clients /\ Denied \subseteq Callers
  /\ Testers \cap Clients = {} /\ Operator \notin Testers \cup Clients
  /\ \A c \in Clients : \A x \in Submissions[c] : x.def \in Definitions
  /\ MaxRequests \in [Callers -> Nat] /\ MaxFailures \in Nat
  /\ \A d \in Drivers : MaxRequests[d] <= Len(FreshKeys)

\* What decoding {"error": ...} as a claim yields.
EmptyClaim(t) == [activity |-> Empty, worker |-> WorkerFlag[t], token |-> 0]
NoClaim == [activity |-> Empty, worker |-> Empty, token |-> 0]

\* The body of a request; each operation reads some of the fields.
Body == [claim |-> NoClaim, id |-> Empty, def |-> Empty, key |-> Empty,
         retryable |-> FALSE, decodes |-> TRUE]

\* A request is in the network at 0, and served by a transaction that began
\* at another time.
Send(c, op, body) ==
  /\ sent[c] < MaxRequests[c]
  /\ sent' = [sent EXCEPT ![c] = @ + 1]
  /\ requests' = requests \cup {[caller |-> c, n |-> sent[c] + 1, op |-> op, body |-> body,
                                 at |-> 0]}

\* The answer to the last request of c, with one of these statuses.
Hears(c, statuses) ==
  {x \in answers : x.request.caller = c /\ x.request.n = sent[c] /\ x.status \in statuses}

Success == {200, 201, 204}
Error   == {400, 401, 404, 409}

-----------------------------------------------------------------------------
(* The server.  An answer also notes, for the properties, which other calls *)
(* with the same claim the store was serving at the time.                   *)

UnderWay(c) == {r \in requests : r.op \in LeaseOps /\ r.at # 0 /\ r.body.claim = c}

AnswerTo(r, status, id, token) ==
  [request |-> r, status |-> status, id |-> id, token |-> token,
   during |-> IF r.op \in LeaseOps THEN UnderWay(r.body.claim) \ {r} ELSE {}]

Answered(r, status, id, token) ==
  /\ requests' = requests \ {r}
  /\ answers' = answers \cup {AnswerTo(r, status, id, token)}
  /\ UNCHANGED <<now, callers>>

\* MUTANT: a transition that is not possible any more passes for done.
writeEngineErrorLenient(err) ==
  CASE err \in {"ErrNoRunnableActivity", "ErrInvalidTransition"} -> 204
    [] err = "ErrStaleLease" -> 409
    [] OTHER -> 400

\* ErrInvalidTransition falls under default.
writeEngineError(err) ==
  CASE err = "ErrNoRunnableActivity" -> 204
    [] err = "ErrStaleLease" -> 409
    [] OTHER -> 400

StatusOf(op, err) ==
  CASE err = "replay" -> 200
    [] err = "nil" /\ op = "start" -> 201
    [] err = "nil" /\ op = "poll" -> 200
    [] err = "nil" /\ op \notin {"start", "poll"} -> 204
    [] OTHER -> writeEngineError(err)

\* What the store returned becomes the answer, unless it is lost on the way.
Returns(r, lost, err, id, token) ==
  IF lost THEN Answered(r, 400, Empty, 0) ELSE Answered(r, StatusOf(r.op, err), id, token)

\* The rows of a new workflow w, as the contract has them.
PlanOf(def, w, a) ==
  [workflow |-> w, dependsOn |-> {w} \X def.activities[a[2]].dependsOn,
   maxAttempts |-> def.activities[a[2]].maxAttempts]

Create(def, w) ==
  LET new == {w} \X (DOMAIN def.activities)
      all == Activities \cup new
  IN /\ plan' = [a \in all |-> IF a \in new THEN PlanOf(def, w, a) ELSE plan[a]]
     /\ rows' = [a \in all |-> IF a \in new THEN Fresh(PlanOf(def, w, a)) ELSE rows[a]]
     /\ expires' = [a \in all |-> IF a \in new THEN 0 ELSE expires[a]]
     /\ workflows' = [v \in DOMAIN workflows \cup {w} |->
                        IF v = w THEN "running" ELSE workflows[v]]
     /\ Start

Named(def, key) == {k \in keys : k.namespace = def.namespace /\ k.key = key}

\* A key that is known is answered with its workflow; the in-memory engine
\* looks it up before it finds fault with the activities, PostgreSQL after.
StartWith(r, key, lost) ==
  LET def == r.body.def
  IN \/ /\ def.fault # "none"
        /\ Returns(r, lost, "ErrInvalidTransition", Empty, 0) /\ UNCHANGED store
     \/ /\ def.fault # "incomplete"
        /\ \E k \in Named(def, key) : Returns(r, lost, "replay", k.workflow, 0)
        /\ UNCHANGED store
     \/ /\ def.fault = "none" /\ Named(def, key) = {}
        /\ \E w \in WorkflowIds \ DOMAIN workflows :
             /\ Create(def, w)
             /\ keys' = IF key = Empty THEN keys
                        ELSE keys \cup {[namespace |-> def.namespace, key |-> key, workflow |-> w]}
             /\ Returns(r, lost, "nil", w, 0)

\* MUTANT: the idempotency key of the request is not passed on.
startWorkflowWithoutKey(r, lost) == r.op = "start" /\ StartWith(r, Empty, lost)

startWorkflow(r, lost) == r.op = "start" /\ StartWith(r, r.body.key, lost)

\* PostgreSQL also finds nothing when all that is ready is locked by others.
poll(r, lost) ==
  /\ r.op = "poll"
  /\ \/ Returns(r, lost, "ErrNoRunnableActivity", Empty, 0) /\ UNCHANGED store
     \/ \E a \in Activities :
          /\ Claim(a, r.body.claim.worker)
          /\ expires' = [expires EXCEPT ![a] = r.at + LeaseTTL]
          /\ Returns(r, lost, "nil", a, rows[a].token + 1)
          /\ UNCHANGED keys

\* The caller has the lease, by the time at which its transaction began.
Current(r) == Holds(r.body.claim) /\ expires[r.body.claim.activity] > r.at

\* MUTANT: whatever is refused is refused as stale.
RefusalAlwaysStale(a) == "ErrStaleLease"

\* Only a running activity can have a stale lease.
Refusal(a) == IF rows[a].status = "running" THEN "ErrStaleLease" ELSE "ErrInvalidTransition"

\* activityLocked or lockActivity, and the lease check, shared by the three
\* worker calls.  What PostgreSQL records of a stale call is committed or not;
\* the answer is the same.
refused(r, lost) ==
  /\ r.op \in LeaseOps /\ ~Current(r)
  /\ Returns(r, lost, Refusal(r.body.claim.activity), Empty, 0)
  /\ UNCHANGED store

heartbeat(r, lost) ==
  /\ r.op = "heartbeat" /\ Current(r)
  /\ expires' = [expires EXCEPT ![r.body.claim.activity] = r.at + LeaseTTL]
  /\ Returns(r, lost, "nil", Empty, 0)
  /\ UNCHANGED <<contract, keys>>

complete(r, lost) ==
  /\ r.op = "complete" /\ Current(r)
  /\ \E released \in SUBSET OfWorkflow(plan[r.body.claim.activity].workflow) :
       Complete(r.body.claim, released)
  /\ Returns(r, lost, "nil", Empty, 0)
  /\ UNCHANGED <<expires, keys>>

fail(r, lost) ==
  /\ r.op = "fail" /\ Current(r)
  /\ Fail(r.body.claim, r.body.retryable)
  /\ Returns(r, lost, "nil", Empty, 0)
  /\ UNCHANGED <<expires, keys>>

cancelWorkflow(r, lost) ==
  /\ r.op = "cancel"
  /\ \/ /\ workflows[r.body.id] # "running"
        /\ Returns(r, lost, "ErrInvalidTransition", Empty, 0) /\ UNCHANGED store
     \/ Cancel(r.body.id) /\ Returns(r, lost, "nil", Empty, 0) /\ UNCHANGED <<expires, keys>>

NotFound(r) == \/ r.op \in LeaseOps /\ r.body.claim.activity \notin Activities
               \/ r.op = "cancel" /\ r.body.id \notin DOMAIN workflows

\* authorizeMutation and the decoding of the body
Admitted(r) == r.caller \notin Denied /\ r.body.decodes

\* The calls that look at the clock.
Timed == LeaseOps \cup {"poll"}

\* BEGIN: now() is fixed for the rest of the transaction.
Begin(r) ==
  /\ Admitted(r) /\ r.op \in Timed /\ r.at = 0
  /\ requests' = (requests \ {r}) \cup {[r EXCEPT !.at = now]}
  /\ UNCHANGED <<now, store, answers, callers, failures>>

Backend(r, lost) ==
  /\ Admitted(r) /\ (r.op \in Timed => r.at # 0) /\ ~NotFound(r)
  /\ \/ startWorkflow(r, lost) \/ poll(r, lost) \/ refused(r, lost)
     \/ heartbeat(r, lost) \/ complete(r, lost) \/ fail(r, lost) \/ cancelWorkflow(r, lost)

\* For an id that does not exist PostgreSQL says so with 404, or with 400 if
\* it is not even a uuid.
Serve(r) ==
  /\ \/ /\ r.caller \in Denied
        /\ Answered(r, 401, Empty, 0) /\ UNCHANGED store
     \/ /\ r.caller \notin Denied /\ ~r.body.decodes
        /\ Answered(r, 400, Empty, 0) /\ UNCHANGED store
     \/ /\ Admitted(r) /\ NotFound(r)
        /\ \E status \in {400, 404} : Answered(r, status, Empty, 0)
        /\ UNCHANGED store
     \/ Backend(r, FALSE)
  /\ UNCHANGED failures

\* The store fails the call, with or without having committed it.  A call
\* found stale is beyond that: its 409 does not depend on the commit, and is
\* an answer of Serve.
ServeStoreFails(r) ==
  /\ failures < MaxFailures /\ failures' = failures + 1
  /\ \/ Backend(r, TRUE)
     \/ Admitted(r) /\ Answered(r, 400, Empty, 0) /\ UNCHANGED store

\* A scheduler pass takes back leases that have run out by its own clock.
SchedulerPass ==
  /\ \E lapsed \in SUBSET {a \in Activities : rows[a].status = "running" /\ expires[a] <= now},
        released \in SUBSET Releasable(rows) : RunSchedulerPass(lapsed, released)
  /\ UNCHANGED <<now, expires, keys, net>>

Tick ==
  /\ now < MaxTime /\ now' = now + 1
  /\ UNCHANGED <<store, net>>

-----------------------------------------------------------------------------
(* cmd/testworker: any error or timeout ends the process.                  *)

LeaseBody(c) == [Body EXCEPT !.claim = c]
Goto(c, where) == pc' = [pc EXCEPT ![c] = where]
NetOnly == UNCHANGED <<now, store, answers, failures>>

TesterPolls(t) ==
  /\ pc[t] = "idle"
  /\ Send(t, "poll", LeaseBody(EmptyClaim(t)))
  /\ Goto(t, "polling")
  /\ NetOnly /\ UNCHANGED <<claim, printed>>

\* Every status but 204 is decoded as a claim, which is then heartbeaten.
TesterHearsPoll(t) ==
  /\ pc[t] = "polling"
  /\ \E x \in Hears(t, {200} \cup Error) :
       LET c == IF x.status = 200
                THEN [activity |-> x.id, worker |-> WorkerFlag[t], token |-> x.token]
                ELSE EmptyClaim(t)
       IN claim' = [claim EXCEPT ![t] = c] /\ Send(t, "heartbeat", LeaseBody(c))
  /\ Goto(t, "heartbeating")
  /\ NetOnly /\ UNCHANGED printed

\* MUTANT: the answer to the heartbeat is not looked at.
TesterHearsAnyHeartbeat(t) ==
  /\ pc[t] = "heartbeating" /\ Hears(t, Success \cup Error) # {}
  /\ printed' = printed \cup {claim[t]}
  /\ Goto(t, "claimed")
  /\ NetOnly /\ UNCHANGED <<requests, sent, claim>>

\* A heartbeat that was accepted makes the claim public.
TesterHearsHeartbeat(t) ==
  /\ pc[t] = "heartbeating" /\ Hears(t, Success) # {}
  /\ printed' = printed \cup {claim[t]}
  /\ Goto(t, "claimed")
  /\ NetOnly /\ UNCHANGED <<requests, sent, claim>>

TesterReports(t) ==
  /\ pc[t] = "claimed"
  /\ \/ t \in Holding /\ Send(t, "heartbeat", LeaseBody(claim[t])) /\ Goto(t, "heartbeating")
     \/ t \notin Holding /\ Send(t, "complete", LeaseBody(claim[t])) /\ Goto(t, "completing")
  /\ NetOnly /\ UNCHANGED <<claim, printed>>

\* No work, an error, the end of a completion, a timeout or a SIGKILL.
TesterExits(t) ==
  /\ pc[t] # "exited"
  /\ Goto(t, "exited")
  /\ NetOnly /\ UNCHANGED <<requests, sent, claim, printed>>

-----------------------------------------------------------------------------
(* Clients, drivers and the operator.                                      *)

\* A client may repeat its key; a driver makes up another for every attempt.
KeyOf(c, submission) == IF c \in Drivers THEN FreshKeys[sent[c] + 1] ELSE submission.key

ClientStarts(c) ==
  /\ pc[c] = "idle"
  /\ \E x \in Submissions[c] :
       Send(c, "start", [Body EXCEPT !.def = x.def, !.key = KeyOf(c, x)])
  /\ Goto(c, "starting")
  /\ NetOnly /\ UNCHANGED <<claim, printed>>

\* client.do returns the workflow or an error; a timeout is an error too.
ClientReturns(c) ==
  /\ pc[c] = "starting"
  /\ \/ Hears(c, Success) # {} /\ Goto(c, IF c \in Drivers THEN "idle" ELSE "done")
     \/ Goto(c, "idle")
  /\ NetOnly /\ UNCHANGED <<requests, sent, claim, printed>>

OperatorPosts ==
  /\ \/ \E c \in printed : Send(Operator, "complete", LeaseBody(c))
     \/ \E c \in printed, retryable \in BOOLEAN :
          Send(Operator, "fail", [LeaseBody(c) EXCEPT !.retryable = retryable])
     \/ \E w \in DOMAIN workflows \cup {Empty} : Send(Operator, "cancel", [Body EXCEPT !.id = w])
     \/ Send(Operator, "complete", [Body EXCEPT !.decodes = FALSE])
  /\ NetOnly /\ UNCHANGED <<pc, claim, printed>>

ApiInit ==
  /\ plan = <<>> /\ workflows = <<>> /\ LifecycleInit
  /\ now = 1 /\ expires = <<>> /\ keys = {}
  /\ requests = {} /\ answers = {} /\ printed = {} /\ failures = 0
  /\ sent = [c \in Callers |-> 0]
  /\ pc = [c \in Callers |-> "idle"]
  /\ claim = [t \in Testers |-> EmptyClaim(t)]

ApiNext ==
  \/ \E r \in requests : Begin(r) \/ Serve(r) \/ ServeStoreFails(r)
  \/ \E t \in Testers : \/ TesterPolls(t) \/ TesterHearsPoll(t) \/ TesterHearsHeartbeat(t)
                        \/ TesterReports(t) \/ TesterExits(t)
  \/ \E c \in Clients : ClientStarts(c) \/ ClientReturns(c)
  \/ OperatorPosts
  \/ SchedulerPass \/ Tick

ApiSpec == ApiInit /\ [][ApiNext]_apiVars
-----------------------------------------------------------------------------
(* Properties.                                                             *)

Conflicts == {x \in answers : x.status = 409}

\* A call with the claim that was already being served when x was answered
\* has fared otherwise.
Overtaken(x) == \E y \in answers : y.request \in x.during /\ y.status # 409

\* 409 says that the result has not been taken, not even by an earlier call
\* whose answer was lost, and never will be.  The one exception is a call with
\* the same claim that the store had begun to serve before the 409: it is
\* judged by the time it began, so it may still be taken.  (400 says nothing
\* of the kind: it also answers the repetition of a completion that was taken,
\* and a store that failed.)
ConflictMeansNotTaken ==
  \A x \in Conflicts :
    LET c == x.request.body.claim
    IN \/ Overtaken(x)
       \/ ~(rows[c.activity].status = "completed" /\ rows[c.activity].token = c.token)

\* After a 409 no call with the claim succeeds, although the process that lost
\* the lease and its heir may present the same worker id, unless a call that
\* the store was serving at the time of the 409 has got through.
ConflictIsFinal ==
  [][\A x \in answers' \ answers :
       x.request.op \in LeaseOps /\ x.status \in Success
         => \A y \in Conflicts : y.request.body.claim = x.request.body.claim
              => Overtaken(y)']_apiVars

\* What the API has acknowledged stands: an activity reported complete with
\* 204 is completed under that token for ever, and no two polls were answered
\* with the same claim.
AcknowledgedStands ==
  /\ \A x \in answers : x.request.op = "complete" /\ x.status = 204 =>
       LET c == x.request.body.claim
       IN rows[c.activity].status = "completed" /\ rows[c.activity].token = c.token
  /\ \A x, y \in answers :
       /\ x.request.op = "poll" /\ x.status = 200 /\ y.request.op = "poll" /\ y.status = 200
       /\ x.id = y.id /\ x.token = y.token
       => x = y

\* However often a start is repeated, with whatever definition, and whatever
\* answers are lost, a key stands for one workflow of its namespace in all
\* answers, no two keys, namespaces or starts without a key share one, and a
\* workflow is announced as new (201) at most once.
StartsAgree ==
  LET started == {x \in answers : x.request.op = "start" /\ x.status \in Success}
      Name(x) == <<x.request.body.def.namespace, x.request.body.key>>
  IN \A x, y \in started : x # y =>
       /\ x.id = y.id <=> (Name(x) = Name(y) /\ x.request.body.key # Empty)
       /\ x.id = y.id => ~(x.status = 201 /\ y.status = 201)

\* The test worker prints CLAIMED only for a claim the store has handed out,
\* although it takes any answer to its poll, an error too, for a claim: the
\* heartbeat that follows sorts the false ones out.
PrintedWasHeld == printed \subseteq claims
=============================================================================
