------------------------------ MODULE ApiProofs -----------------------------
(* The promises of the API, for all callers, definitions, keys and bounds,  *)
(* in front of any store that keeps the contract of Lifecycle and judges    *)
(* each call by the time at which it began.                                 *)
EXTENDS Api, TLAPS

-----------------------------------------------------------------------------
(* The invariant.                                                          *)

RowStatus == {"ready", "running", "retry_pending", "completed", "failed", "cancelled"}
Row == [status : RowStatus, token : Nat, owner : Workers \cup {NoOwner}]

StoreTyped ==
  /\ DOMAIN workflows \subseteq WorkflowIds
  /\ Activities \subseteq (DOMAIN workflows) \X Names
  /\ rows \in [Activities -> Row] /\ expires \in [Activities -> Nat]
  /\ claims \subseteq [activity : Activities, worker : Workers, token : Nat]

\* Nobody has a token that was not granted yet, and the newest one only who
\* holds the lease.
Granted(c) ==
  /\ c.token <= rows[c.activity].token
  /\ rows[c.activity].status = "running" /\ rows[c.activity].token = c.token => Holds(c)

ContractInv == StoreTyped /\ \A c \in claims : Granted(c)

\* A key leads to one workflow, and no other key leads there.
KeysInv ==
  /\ \A k \in keys : k.workflow \in DOMAIN workflows /\ k.key # Empty
  /\ \A k, l \in keys :
       (k.workflow = l.workflow \/ (k.namespace = l.namespace /\ k.key = l.key)) => k = l

\* What the server may take from a request.
Sound(r) ==
  /\ r = [caller |-> r.caller, n |-> r.n, op |-> r.op, body |-> r.body, at |-> r.at]
  /\ r.at \in Nat /\ r.at <= now
  /\ r.op \in LeaseOps => r.body.claim.activity = Empty \/ r.body.claim \in claims
  /\ r.op = "start" => r.body.def \in Definitions
  /\ r.op = "poll" => r.body.claim.worker \in Workers

\* The last request of a tester is the one its program counter speaks of.
AsSent(r) ==
  /\ r.caller \in Callers /\ r.n \in Nat /\ r.n <= sent[r.caller]
  /\ r.caller \in Testers /\ r.n = sent[r.caller] =>
       /\ pc[r.caller] = "polling" => /\ r.op = "poll"
                                      /\ r.body.claim.worker = WorkerFlag[r.caller]
       /\ pc[r.caller] = "heartbeating" => r.op = "heartbeat" /\ r.body.claim = claim[r.caller]

CallersInv ==
  /\ now \in Nat \ {0}
  /\ sent \in [Callers -> Nat] /\ DOMAIN pc = Callers /\ DOMAIN claim = Testers
  /\ \A r \in requests : Sound(r) /\ AsSent(r)
  /\ \A x \in answers : AsSent(x.request)
  /\ \A t \in Testers : pc[t] = "claimed" => claim[t] \in claims
  /\ printed \subseteq claims

\* A claim whose lease has been given up, or granted to another since.
Superseded(c) ==
  \/ c.token < rows[c.activity].token
  \/ rows[c.activity].status \notin {"running", "completed"}

\* The lease has run out for all calls but those that were being served when
\* x was answered.
LapsedFor(x) ==
  LET c == x.request.body.claim
      e == expires[c.activity]
  IN /\ rows[c.activity].status = "running" /\ e <= now
     /\ \A r \in UnderWay(c) : r.at < e => r \in x.during

\* What an answer says of the store, then and ever after.
TrueOf(x) ==
  LET r == x.request
      c == r.body.claim
  IN /\ r.op \in LeaseOps /\ x.status \in Success => c \in claims
     /\ r.op = "poll" /\ x.status = 200 =>
          [activity |-> x.id, worker |-> c.worker, token |-> x.token] \in claims
     /\ x.status = 409 => c \in claims /\ (Superseded(c) \/ LapsedFor(x) \/ Overtaken(x))
     /\ r.op = "complete" /\ x.status = 204 =>
          rows[c.activity].status = "completed" /\ rows[c.activity].token = c.token
     /\ r.op = "start" /\ x.status \in Success =>
          /\ x.id \in DOMAIN workflows
          /\ IF r.body.key = Empty
             THEN x.status = 201 /\ \A k \in keys : k.workflow # x.id
             ELSE \E k \in Named(r.body.def, r.body.key) : k.workflow = x.id

\* No claim and no new workflow is announced twice.
SameGrant(x, y) ==
  /\ x.id = y.id
  /\ \/ /\ x.request.op = "poll" /\ x.status = 200 /\ y.request.op = "poll" /\ y.status = 200
        /\ x.token = y.token
     \/ x.request.op = "start" /\ x.status = 201 /\ y.request.op = "start" /\ y.status = 201

AnswersInv ==
  /\ \A x \in answers : TrueOf(x)
  /\ \A x, y \in answers : SameGrant(x, y) => x = y

ApiInv == ContractInv /\ KeysInv /\ CallersInv /\ AnswersInv

-----------------------------------------------------------------------------
(* What the steps of the store do to its rows.                             *)

\* The call that r makes goes through, or fails with its commit done.
Overtakes(r) ==
  /\ r \in requests /\ r.op \in LeaseOps /\ r.at # 0 /\ Current(r)
  /\ \E x \in answers' : x.request = r /\ x.status # 409

\* A running activity is given up, or keeps its lease, or the holder of the
\* lease has made a call.
RowAdvances(a) ==
  /\ rows[a].token <= rows'[a].token
  /\ rows[a].status = "completed" =>
       rows'[a].status = "completed" /\ rows'[a].token = rows[a].token
  /\ rows[a].status \notin {"running", "completed"} =>
       rows'[a].status \notin {"running", "completed"} \/ rows[a].token < rows'[a].token
  /\ rows[a].status = "running" =>
       \/ rows'[a].status \notin {"running", "completed"}
       \/ rows'[a].status = "running" /\ expires'[a] = expires[a]
       \/ \E r \in requests : Overtakes(r) /\ r.body.claim.activity = a

StoreAdvances ==
  /\ claims \subseteq claims' /\ DOMAIN workflows \subseteq DOMAIN workflows'
  /\ keys \subseteq keys' /\ \A k \in keys' \ keys : k.workflow \notin DOMAIN workflows
  /\ \A a \in Activities : RowAdvances(a)

\* A step that grants no claim, starts nothing, and completes or renews only
\* activities of touched.
StoreMoves(touched) ==
  /\ plan' = plan /\ claims' = claims /\ DOMAIN workflows' = DOMAIN workflows /\ keys' = keys
  /\ rows' \in [Activities -> Row] /\ expires' \in [Activities -> Nat]
  /\ \A a \in Activities :
       /\ rows'[a].token = rows[a].token
       /\ rows'[a].status = "running" => rows'[a] = rows[a]
       /\ rows[a].status = "completed" => rows'[a].status = "completed"
       /\ rows'[a].status = "completed" => rows[a].status = "completed" \/ a \in touched
       /\ a \notin touched => expires'[a] = expires[a]

\* A row given up keeps its token.
LEMMA FreedRow ==
  ASSUME ContractInv, NEW a \in Activities, NEW status \in RowStatus
  PROVE  /\ Freed(a, status) \in Row
         /\ Freed(a, status).status = status /\ Freed(a, status).token = rows[a].token
BY DEF ContractInv, StoreTyped, Freed, Row

\* Setting the status of some rows keeps the rest of the table.
LEMMA WithRows ==
  ASSUME NEW table \in [Activities -> Row], NEW S, NEW status \in RowStatus
  PROVE  /\ With(table, S, status) \in [Activities -> Row]
         /\ \A a \in Activities :
              /\ With(table, S, status)[a].token = table[a].token
              /\ a \in S => With(table, S, status)[a].status = status
              /\ a \notin S => With(table, S, status)[a] = table[a]
BY DEF With, Row

\* Moves preserve the invariant of the contract and of the keys.
LEMMA MovesKeepInv ==
  ASSUME ContractInv, KeysInv, NEW touched, StoreMoves(touched)
  PROVE  ContractInv' /\ KeysInv'
<1>1. /\ Activities' = Activities /\ claims' = claims /\ DOMAIN workflows' = DOMAIN workflows
      /\ rows' \in [Activities -> Row] /\ expires' \in [Activities -> Nat]
      /\ \A a \in Activities : /\ rows'[a].token = rows[a].token
                               /\ rows'[a].status = "running" => rows'[a] = rows[a]
  BY DEF StoreMoves, Activities
<1>2. ASSUME NEW c \in claims PROVE Granted(c)'
  <2>1. c.activity \in Activities /\ Granted(c)
    BY DEF ContractInv, StoreTyped
  <2>2. rows'[c.activity] = rows[c.activity] => (Holds(c)' <=> Holds(c))
    BY DEF Holds, Claimed
  <2> QED
    BY <1>1, <2>1, <2>2 DEF Granted
<1>3. ContractInv'
  <2>1. StoreTyped'
    BY <1>1 DEF ContractInv, StoreTyped
  <2> QED
    BY <1>1, <1>2, <2>1 DEF ContractInv
<1>4. KeysInv'
  BY <1>1 DEF KeysInv, StoreMoves
<1> QED
  BY <1>3, <1>4

\* Moves advance the store, if those who made them held the leases.
LEMMA MovesAdvance ==
  ASSUME ContractInv, NEW touched, StoreMoves(touched),
         \A a \in touched : \E r \in requests : Overtakes(r) /\ r.body.claim.activity = a
  PROVE  StoreAdvances
<1>1. ASSUME NEW a \in Activities PROVE RowAdvances(a)
  <2>1. /\ rows'[a].token = rows[a].token /\ rows[a].token \in Nat
        /\ rows'[a].status = "running" => rows'[a] = rows[a]
        /\ rows[a].status = "completed" => rows'[a].status = "completed"
        /\ rows'[a].status = "completed" => rows[a].status = "completed" \/ a \in touched
        /\ a \notin touched => expires'[a] = expires[a]
    BY DEF StoreMoves, ContractInv, StoreTyped, Row
  <2>2. CASE a \in touched
    <3>1. \E r \in requests : Overtakes(r) /\ r.body.claim.activity = a
      BY <2>2
    <3>2. rows[a].status = "running"
      BY <3>1 DEF Overtakes, Current, Holds
    <3> QED
      BY <2>1, <3>1, <3>2 DEF RowAdvances
  <2>3. CASE a \notin touched
    BY <2>1, <2>3 DEF RowAdvances
  <2> QED
    BY <2>2, <2>3
<1> QED
  BY <1>1 DEF StoreAdvances, StoreMoves

\* A store that does nothing moves nothing.
LEMMA StutterMoves ==
  ASSUME ContractInv, UNCHANGED store
  PROVE  StoreMoves({})
BY DEF ContractInv, StoreTyped, StoreMoves, store, contract

\* Complete completes what its claim holds.
LEMMA CompleteMoves ==
  ASSUME ContractInv, NEW c, c.activity \in Activities, NEW released, Complete(c, released),
         UNCHANGED <<expires, keys>>
  PROVE  /\ StoreMoves({c.activity})
         /\ rows'[c.activity].status = "completed" /\ rows'[c.activity].token = c.token
<1> DEFINE a     == c.activity
           freed == Freed(a, "completed")
           done  == [rows EXCEPT ![a] = freed]
<1>1. /\ Holds(c) /\ released \subseteq Releasable(done) /\ rows' = With(done, released, "ready")
      /\ plan' = plan /\ claims' = claims /\ DOMAIN workflows' = DOMAIN workflows
  BY DEF Complete
<1>2. a \in Activities /\ rows \in [Activities -> Row] /\ expires \in [Activities -> Nat]
  BY DEF ContractInv, StoreTyped
<1>3. freed \in Row /\ freed.status = "completed" /\ freed.token = rows[a].token
  BY <1>2, FreedRow DEF RowStatus
<1> HIDE DEF freed
<1>4. /\ done \in [Activities -> Row] /\ done[a] = freed
      /\ \A b \in Activities : b # a => done[b] = rows[b]
  BY <1>2, <1>3
<1>5. \A b \in released : done[b].status = "retry_pending"
  BY <1>1 DEF Releasable
<1>6. rows[a].status = "running" /\ c.token = rows[a].token
  BY <1>1 DEF Holds, Claimed
<1> HIDE DEF done, a
<1>7. /\ rows' \in [Activities -> Row]
      /\ \A b \in Activities :
           /\ rows'[b].token = done[b].token
           /\ b \in released => rows'[b].status = "ready"
           /\ b \notin released => rows'[b] = done[b]
  BY <1>1, <1>4, WithRows DEF RowStatus
<1>8. ASSUME NEW b \in Activities
      PROVE  /\ rows'[b].token = rows[b].token
             /\ rows'[b].status = "running" => rows'[b] = rows[b]
             /\ rows[b].status = "completed" => rows'[b].status = "completed"
             /\ rows'[b].status = "completed" => rows[b].status = "completed" \/ b = a
  BY <1>3, <1>4, <1>5, <1>6, <1>7
<1>9. rows'[a].status = "completed" /\ rows'[a].token = c.token
  BY <1>2, <1>3, <1>4, <1>5, <1>6, <1>7
<1> QED
  BY <1>1, <1>2, <1>7, <1>8, <1>9 DEF StoreMoves, a

\* Fail completes nothing.
LEMMA FailMoves ==
  ASSUME ContractInv, NEW c, c.activity \in Activities, NEW retryable, Fail(c, retryable),
         UNCHANGED <<expires, keys>>
  PROVE  StoreMoves({})
<1> DEFINE a      == c.activity
           status == IF retryable /\ HasBudget(a) THEN "retry_pending" ELSE "failed"
           freed  == Freed(a, status)
<1>1. /\ plan' = plan /\ claims' = claims /\ DOMAIN workflows' = DOMAIN workflows
      /\ Holds(c) /\ rows' = [rows EXCEPT ![a] = freed]
  BY DEF Fail
<1>2. a \in Activities /\ rows \in [Activities -> Row] /\ expires \in [Activities -> Nat]
  BY DEF ContractInv, StoreTyped
<1>3. status \in {"retry_pending", "failed"} /\ rows[a].status = "running"
  BY <1>1 DEF Holds
<1> HIDE DEF status
<1>4. freed \in Row /\ freed.status = status /\ freed.token = rows[a].token
  BY <1>2, <1>3, FreedRow DEF RowStatus
<1> HIDE DEF freed, a
<1> QED
  BY <1>1, <1>2, <1>3, <1>4 DEF StoreMoves

\* Cancel completes nothing.
LEMMA CancelMoves ==
  ASSUME ContractInv, NEW w, Cancel(w), UNCHANGED <<expires, keys>>
  PROVE  StoreMoves({})
<1> DEFINE S == {a \in OfWorkflow(w) : rows[a].status \in {"ready", "retry_pending"}}
<1>1. /\ plan' = plan /\ claims' = claims /\ DOMAIN workflows' = DOMAIN workflows
      /\ rows' = With(rows, S, "cancelled")
  BY DEF Cancel
<1>2. rows \in [Activities -> Row] /\ expires \in [Activities -> Nat]
  BY DEF ContractInv, StoreTyped
<1>3. \A a \in S : rows[a].status \in {"ready", "retry_pending"}
  OBVIOUS
<1> HIDE DEF S
<1>4. /\ rows' \in [Activities -> Row]
      /\ \A b \in Activities :
           /\ rows'[b].token = rows[b].token
           /\ b \in S => rows'[b].status = "cancelled"
           /\ b \notin S => rows'[b] = rows[b]
  BY <1>1, <1>2, WithRows DEF RowStatus
<1> QED
  BY <1>1, <1>2, <1>3, <1>4 DEF StoreMoves

\* A scheduler pass completes nothing.
LEMMA PassMoves ==
  ASSUME ContractInv, NEW lapsed, NEW released, RunSchedulerPass(lapsed, released),
         UNCHANGED <<expires, keys>>
  PROVE  StoreMoves({})
<1> DEFINE exhausted == {a \in lapsed : ~HasBudget(a)}
           status(a) == IF a \in exhausted THEN "failed" ELSE "ready"
           swept     == [a \in Activities |-> IF a \in lapsed THEN Freed(a, status(a)) ELSE rows[a]]
<1>1. /\ plan' = plan /\ claims' = claims /\ DOMAIN workflows' = DOMAIN workflows
      /\ rows' = With(swept, released, "ready")
      /\ \A a \in lapsed : rows[a].status = "running"
      /\ \A a \in released : rows[a].status = "retry_pending"
  BY DEF RunSchedulerPass, Releasable
<1>2. rows \in [Activities -> Row] /\ expires \in [Activities -> Nat]
  BY DEF ContractInv, StoreTyped
<1>3. \A a : status(a) \in {"failed", "ready"}
  OBVIOUS
<1> HIDE DEF status
<1>4. ASSUME NEW a \in Activities
      PROVE  /\ swept[a] \in Row /\ swept[a].token = rows[a].token
             /\ a \notin lapsed => swept[a] = rows[a]
             /\ a \in lapsed => swept[a].status \in {"failed", "ready"}
  <2>1. Freed(a, status(a)) \in Row /\ Freed(a, status(a)).status = status(a)
        /\ Freed(a, status(a)).token = rows[a].token
    BY <1>3, FreedRow DEF RowStatus
  <2> QED
    BY <1>2, <1>3, <2>1
<1>5. swept \in [Activities -> Row]
  BY <1>4
<1> HIDE DEF swept
<1>6. /\ rows' \in [Activities -> Row]
      /\ \A b \in Activities :
           /\ rows'[b].token = swept[b].token
           /\ b \in released => rows'[b].status = "ready"
           /\ b \notin released => rows'[b] = swept[b]
  BY <1>1, <1>5, WithRows DEF RowStatus
<1>7. ASSUME NEW b \in Activities
      PROVE  /\ rows'[b].token = rows[b].token
             /\ rows'[b].status = "running" => rows'[b] = rows[b]
             /\ rows[b].status = "completed" => rows'[b].status = "completed"
             /\ rows'[b].status = "completed" => rows[b].status = "completed"
  BY <1>1, <1>4, <1>6
<1> QED
  BY <1>1, <1>2, <1>6, <1>7 DEF StoreMoves

\* A heartbeat renews one lease.
LEMMA RenewMoves ==
  ASSUME ContractInv, NEW a \in Activities, NEW e \in Nat,
         expires' = [expires EXCEPT ![a] = e], UNCHANGED <<contract, keys>>
  PROVE  StoreMoves({a})
BY DEF ContractInv, StoreTyped, StoreMoves, contract

\* A claim carries a token that no claim on the activity had.
LEMMA ClaimGrants ==
  ASSUME ContractInv, KeysInv, NEW a \in Activities, NEW worker \in Workers, Claim(a, worker),
         NEW e \in Nat, expires' = [expires EXCEPT ![a] = e], UNCHANGED keys
  PROVE  /\ ContractInv' /\ KeysInv' /\ StoreAdvances
         /\ [activity |-> a, worker |-> worker, token |-> rows[a].token + 1] \in claims'
         /\ \A c \in claims : ~(c.activity = a /\ c.token = rows[a].token + 1)
<1>n. PICK new : new = [activity |-> a, worker |-> worker, token |-> rows[a].token + 1]
  OBVIOUS
<1>r. PICK row : row = [status |-> "running", token |-> rows[a].token + 1, owner |-> worker]
  OBVIOUS
<1>1. /\ plan' = plan /\ workflows' = workflows /\ rows[a].status = "ready"
      /\ rows' = [rows EXCEPT ![a] = row] /\ claims' = claims \cup {new}
  BY <1>n, <1>r DEF Claim
<1>2. /\ rows \in [Activities -> Row] /\ expires \in [Activities -> Nat] /\ rows[a].token \in Nat
      /\ \A c \in claims : c.activity \in Activities /\ c.token \in Nat /\ Granted(c)
  BY DEF ContractInv, StoreTyped, Row
<1>3. /\ new.activity = a /\ new.worker = worker /\ new.token = rows[a].token + 1
      /\ new \in [activity : Activities, worker : Workers, token : Nat]
      /\ row \in Row /\ row.status = "running" /\ row.token = rows[a].token + 1
      /\ row.owner = worker
  BY <1>2, <1>n, <1>r DEF Row, RowStatus
<1>4. \A c \in claims : ~(c.activity = a /\ c.token = rows[a].token + 1)
  BY <1>2 DEF Granted
<1>5. [activity |-> a, worker |-> row.owner, token |-> row.token] = new
  BY <1>3, <1>n
<1>6. /\ rows' \in [Activities -> Row] /\ rows'[a] = row
      /\ \A b \in Activities : b # a => rows'[b] = rows[b]
      /\ expires' \in [Activities -> Nat] /\ Activities' = Activities
      /\ \A b \in Activities : b # a => expires'[b] = expires[b]
  BY <1>1, <1>2, <1>3 DEF Activities
<1>7. StoreTyped'
  <2>1. claims' \subseteq [activity : Activities, worker : Workers, token : Nat]
    BY <1>1, <1>3 DEF ContractInv, StoreTyped
  <2> QED
    BY <1>1, <1>6, <2>1 DEF ContractInv, StoreTyped
<1>8. Granted(new)'
  <2>1. Holds(new)'
    BY <1>3, <1>5, <1>6 DEF Holds, Claimed
  <2> QED
    BY <1>2, <1>3, <1>6, <2>1 DEF Granted
<1>9. ASSUME NEW c \in claims PROVE Granted(c)'
  <2>1. CASE c.activity = a
    BY <1>2, <1>3, <1>4, <1>6, <2>1 DEF Granted
  <2>2. CASE c.activity # a
    <3>1. Holds(c) => Holds(c)'
      BY <1>2, <1>6, <2>2 DEF Holds, Claimed
    <3> QED
      BY <1>2, <1>6, <2>2, <3>1 DEF Granted
  <2> QED
    BY <2>1, <2>2
<1>10. ContractInv'
  BY <1>1, <1>7, <1>8, <1>9 DEF ContractInv
<1>11. KeysInv'
  BY <1>1 DEF KeysInv
<1>12. ASSUME NEW b \in Activities PROVE RowAdvances(b)
  <2>1. rows[b].token \in Nat
    BY <1>2 DEF Row
  <2> QED
    BY <1>1, <1>3, <1>6, <2>1 DEF RowAdvances
<1> QED
  BY <1>1, <1>4, <1>10, <1>11, <1>12, <1>n DEF StoreAdvances

\* The third case of a start: the key, if any, gets a new workflow.
Starts(def, key, w) ==
  /\ w \in WorkflowIds /\ w \notin DOMAIN workflows /\ Create(def, w) /\ Named(def, key) = {}
  /\ keys' = IF key = Empty THEN keys
             ELSE keys \cup {[namespace |-> def.namespace, key |-> key, workflow |-> w]}

\* A new workflow leaves the others alone, and takes its key.
LEMMA CreateGrows ==
  ASSUME ContractInv, KeysInv, NEW def \in Definitions, NEW key, NEW w, Starts(def, key, w)
  PROVE  /\ ContractInv' /\ KeysInv' /\ StoreAdvances /\ w \in DOMAIN workflows'
         /\ key = Empty => \A k \in keys' : k.workflow # w
         /\ key # Empty => \E k \in Named(def, key)' : k.workflow = w
<1> DEFINE new == {w} \X (DOMAIN def.activities)
<1>1. /\ plan' = [a \in Activities \cup new |-> IF a \in new THEN PlanOf(def, w, a) ELSE plan[a]]
      /\ rows' = [a \in Activities \cup new |->
                    IF a \in new THEN Fresh(PlanOf(def, w, a)) ELSE rows[a]]
      /\ expires' = [a \in Activities \cup new |-> IF a \in new THEN 0 ELSE expires[a]]
      /\ DOMAIN workflows' = DOMAIN workflows \cup {w} /\ claims' = claims
      /\ w \in WorkflowIds /\ w \notin DOMAIN workflows
  BY DEF Starts, Create, Start
<1>2. /\ rows \in [Activities -> Row] /\ expires \in [Activities -> Nat]
      /\ Activities \subseteq (DOMAIN workflows) \X Names /\ DOMAIN workflows \subseteq WorkflowIds
      /\ claims \subseteq [activity : Activities, worker : Workers, token : Nat]
      /\ \A c \in claims : c.activity \in Activities /\ Granted(c)
  BY DEF ContractInv, StoreTyped
<1>3. new \subseteq {w} \X Names /\ Activities \cap new = {}
  BY <1>1, <1>2, ApiAssumption
<1>4. \A a : Fresh(PlanOf(def, w, a)) \in Row
  BY DEF Fresh, Row, RowStatus
<1> HIDE DEF new
<1>5. /\ Activities' = Activities \cup new
      /\ rows' \in [Activities \cup new -> Row] /\ expires' \in [Activities \cup new -> Nat]
      /\ \A a \in Activities : rows'[a] = rows[a] /\ expires'[a] = expires[a]
  BY <1>1, <1>2, <1>3, <1>4 DEF Activities
<1>6. StoreTyped'
  <2>1. Activities' \subseteq (DOMAIN workflows') \X Names /\ DOMAIN workflows' \subseteq WorkflowIds
    BY <1>1, <1>2, <1>3, <1>5
  <2>2. claims' \subseteq [activity : Activities', worker : Workers, token : Nat]
    BY <1>1, <1>2, <1>5
  <2> QED
    BY <1>5, <2>1, <2>2 DEF StoreTyped
<1>7. ASSUME NEW c \in claims PROVE Granted(c)'
  <2>1. rows'[c.activity] = rows[c.activity] /\ Granted(c)
    BY <1>2, <1>5
  <2>2. Holds(c) => Holds(c)'
    BY <2>1 DEF Holds, Claimed
  <2> QED
    BY <2>1, <2>2 DEF Granted
<1>8. ContractInv'
  BY <1>1, <1>6, <1>7 DEF ContractInv
<1>k. PICK k : k = [namespace |-> def.namespace, key |-> key, workflow |-> w]
  OBVIOUS
<1>9. k.namespace = def.namespace /\ k.key = key /\ k.workflow = w
  BY <1>k
<1>10. /\ keys' = IF key = Empty THEN keys ELSE keys \cup {k}
       /\ \A l \in keys : /\ l.workflow # w /\ l.workflow \in DOMAIN workflows /\ l.key # Empty
                          /\ ~(l.namespace = def.namespace /\ l.key = key)
  BY <1>1, <1>k DEF Starts, KeysInv, Named
<1>11. KeysInv'
  <2>1. \A l \in keys' : l.workflow \in DOMAIN workflows' /\ l.key # Empty
    BY <1>1, <1>9, <1>10
  <2>2. \A l, m \in keys' :
          (l.workflow = m.workflow \/ (l.namespace = m.namespace /\ l.key = m.key)) => l = m
    BY <1>9, <1>10 DEF KeysInv
  <2> QED
    BY <2>1, <2>2 DEF KeysInv
<1>12. ASSUME NEW a \in Activities PROVE RowAdvances(a)
  <2>1. rows'[a] = rows[a] /\ expires'[a] = expires[a] /\ rows[a].token \in Nat
    BY <1>2, <1>5 DEF Row
  <2> QED
    BY <2>1 DEF RowAdvances
<1>13. StoreAdvances
  BY <1>1, <1>9, <1>10, <1>12 DEF StoreAdvances
<1>14. key # Empty => k \in Named(def, key)'
  BY <1>9, <1>10 DEF Named
<1> QED
  BY <1>1, <1>8, <1>9, <1>10, <1>11, <1>13, <1>14

-----------------------------------------------------------------------------
(* The server.                                                             *)

\* The request r is answered with x.
Answering(r, x) ==
  /\ requests' = requests \ {r} /\ answers' = answers \cup {x} /\ x.request = r
  /\ r.op \in LeaseOps => x.during = UnderWay(r.body.claim) \ {r}
  /\ UNCHANGED <<now, callers>>

\* The answer is true and new, and a success only for the holder of the lease.
Serving(r, x) ==
  /\ Answering(r, x) /\ ContractInv' /\ KeysInv' /\ StoreAdvances
  /\ TrueOf(x)' /\ \A y \in answers : ~SameGrant(x, y) /\ ~SameGrant(y, x)
  /\ r.op \in LeaseOps /\ x.status \in Success => Current(r) /\ r.at # 0

\* The status codes that properties tell apart.
LEMMA StatusCodes ==
  /\ \A op : /\ StatusOf(op, "ErrInvalidTransition") = 400
             /\ StatusOf(op, "ErrStaleLease") = 409
             /\ StatusOf(op, "ErrNoRunnableActivity") = 204
  /\ StatusOf("start", "replay") = 200 /\ StatusOf("start", "nil") = 201
  /\ StatusOf("poll", "nil") = 200
  /\ \A op \in LeaseOps \cup {"cancel"} : StatusOf(op, "nil") = 204
BY DEF StatusOf, writeEngineError, LeaseOps

\* An answer is sent.
LEMMA AnsweredWith ==
  ASSUME NEW r, NEW status, NEW id, NEW token, Answered(r, status, id, token)
  PROVE  \E x : Answering(r, x) /\ x.status = status /\ x.id = id /\ x.token = token
<1>1. PICK x : x = AnswerTo(r, status, id, token)
  OBVIOUS
<1>2. /\ x.request = r /\ x.status = status /\ x.id = id /\ x.token = token
      /\ r.op \in LeaseOps => x.during = UnderWay(r.body.claim) \ {r}
  BY <1>1 DEF AnswerTo
<1> QED
  BY <1>1, <1>2 DEF Answered, Answering

\* What the store returned is the answer, or 400 if it was lost.
LEMMA Returned ==
  ASSUME NEW r, NEW lost, NEW err, NEW id, NEW token, Returns(r, lost, err, id, token)
  PROVE  \E x : /\ Answering(r, x)
                /\ \/ x.status = 400
                   \/ x.status = StatusOf(r.op, err) /\ x.id = id /\ x.token = token
BY AnsweredWith DEF Returns

\* An error other than 409 says nothing of the store.
LEMMA ErrorServes ==
  ASSUME NEW r, NEW x, Answering(r, x), x.status \in {400, 401, 404},
         ContractInv', KeysInv', StoreAdvances
  PROVE  Serving(r, x)
<1>1. x.status \notin Success /\ x.status \notin {200, 201, 204, 409}
  BY DEF Success
<1> QED
  BY <1>1 DEF Serving, TrueOf, SameGrant

\* A step that only answers.
LEMMA QuietStep ==
  ASSUME ContractInv, KeysInv, UNCHANGED store
  PROVE  ContractInv' /\ KeysInv' /\ StoreAdvances
<1>1. StoreMoves({})
  BY StutterMoves
<1> QED
  BY <1>1, MovesKeepInv, MovesAdvance

\* A start.
LEMMA StartServes ==
  ASSUME ApiInv, NEW r \in requests, NEW lost, startWorkflow(r, lost)
  PROVE  \E x : Serving(r, x)
<1>d. PICK def : def = r.body.def
  OBVIOUS
<1>k. PICK key : key = r.body.key
  OBVIOUS
<1>1. /\ ContractInv /\ KeysInv /\ r.op = "start" /\ def \in Definitions
      /\ \A y \in answers : TrueOf(y)
  BY <1>d DEF ApiInv, CallersInv, AnswersInv, Sound, startWorkflow
<1>2. r.op \notin LeaseOps /\ 200 \in Success /\ 201 \in Success
  BY <1>1 DEF LeaseOps, Success
<1>3. CASE Returns(r, lost, "ErrInvalidTransition", Empty, 0) /\ UNCHANGED store
  <2>1. PICK x : Answering(r, x) /\ x.status = 400
    BY <1>3, Returned, StatusCodes
  <2> QED
    BY <1>1, <1>3, <2>1, QuietStep, ErrorServes
<1>4. ASSUME NEW k \in Named(def, key), Returns(r, lost, "replay", k.workflow, 0), UNCHANGED store
      PROVE  \E x : Serving(r, x)
  <2>1. PICK x : /\ Answering(r, x)
                 /\ x.status = 400 \/ (x.status = 200 /\ x.id = k.workflow)
    BY <1>1, <1>4, Returned, StatusCodes
  <2>2. ContractInv' /\ KeysInv' /\ StoreAdvances
    BY <1>1, <1>4, QuietStep
  <2>3. CASE x.status = 400
    BY <2>1, <2>2, <2>3, ErrorServes
  <2>4. CASE x.status = 200 /\ x.id = k.workflow
    <3>1. x.request = r /\ key # Empty /\ x.id \in DOMAIN workflows' /\ k \in Named(def, key)'
      BY <1>1, <1>4, <2>1, <2>4 DEF Answering, KeysInv, Named, store, contract
    <3>2. TrueOf(x)' /\ \A y \in answers : ~SameGrant(x, y) /\ ~SameGrant(y, x)
      BY <1>1, <1>2, <1>d, <1>k, <2>4, <3>1 DEF TrueOf, SameGrant
    <3> QED
      BY <1>2, <2>1, <2>2, <3>2 DEF Serving
  <2> QED
    BY <2>1, <2>3, <2>4
<1>5. ASSUME NEW w, Starts(def, key, w), Returns(r, lost, "nil", w, 0)
      PROVE  \E x : Serving(r, x)
  <2>0. w \notin DOMAIN workflows
    BY <1>5 DEF Starts
  <2>1. PICK x : Answering(r, x) /\ (x.status = 400 \/ (x.status = 201 /\ x.id = w))
    BY <1>1, <1>5, Returned, StatusCodes
  <2>2. /\ ContractInv' /\ KeysInv' /\ StoreAdvances /\ w \in DOMAIN workflows'
        /\ key = Empty => \A k \in keys' : k.workflow # w
        /\ key # Empty => \E k \in Named(def, key)' : k.workflow = w
    BY <1>1, <1>5, CreateGrows
  <2>3. CASE x.status = 400
    BY <2>1, <2>2, <2>3, ErrorServes
  <2>4. CASE x.status = 201 /\ x.id = w
    <3>1. x.request = r
      BY <2>1 DEF Answering
    <3>2. TrueOf(x)'
      BY <1>1, <1>2, <1>d, <1>k, <2>2, <2>4, <3>1 DEF TrueOf
    <3>3. ASSUME NEW y \in answers PROVE ~SameGrant(x, y) /\ ~SameGrant(y, x)
      <4>1. y.request.op = "start" /\ y.status = 201 => y.id # w
        BY <1>1, <1>2, <2>0 DEF TrueOf
      <4> QED
        BY <1>1, <2>4, <3>1, <4>1 DEF SameGrant
    <3> QED
      BY <1>2, <2>1, <2>2, <3>2, <3>3 DEF Serving
  <2> QED
    BY <2>1, <2>3, <2>4
<1> QED
  BY <1>3, <1>4, <1>5, <1>d, <1>k DEF startWorkflow, StartWith, Starts

\* A poll.
LEMMA PollServes ==
  ASSUME ApiInv, NEW r \in requests, NEW lost, poll(r, lost)
  PROVE  \E x : Serving(r, x)
<1>1. /\ ContractInv /\ KeysInv /\ r.op = "poll" /\ r.body.claim.worker \in Workers /\ r.at \in Nat
      /\ \A y \in answers : TrueOf(y)
  BY DEF ApiInv, CallersInv, AnswersInv, Sound, poll
<1>2. r.op \notin LeaseOps
  BY <1>1 DEF LeaseOps
<1>3. CASE Returns(r, lost, "ErrNoRunnableActivity", Empty, 0) /\ UNCHANGED store
  <2>1. PICK x : Answering(r, x) /\ x.status \in {204, 400}
    BY <1>3, Returned, StatusCodes
  <2>2. ContractInv' /\ KeysInv' /\ StoreAdvances /\ x.request = r
    BY <1>1, <1>3, <2>1, QuietStep DEF Answering
  <2>3. TrueOf(x)' /\ \A y \in answers : ~SameGrant(x, y) /\ ~SameGrant(y, x)
    BY <1>1, <1>2, <2>1, <2>2 DEF TrueOf, SameGrant
  <2> QED
    BY <1>2, <2>1, <2>2, <2>3 DEF Serving
<1>4. ASSUME NEW a \in Activities, Claim(a, r.body.claim.worker),
             expires' = [expires EXCEPT ![a] = r.at + LeaseTTL], UNCHANGED keys,
             Returns(r, lost, "nil", a, rows[a].token + 1)
      PROVE  \E x : Serving(r, x)
  <2>0. PICK token : token = rows[a].token + 1
    OBVIOUS
  <2>1. PICK x : /\ Answering(r, x)
                 /\ x.status = 400 \/ (x.status = 200 /\ x.id = a /\ x.token = token)
    BY <1>1, <1>4, <2>0, Returned, StatusCodes
  <2>2. r.at + LeaseTTL \in Nat
    BY <1>1, ApiAssumption
  <2>3. /\ ContractInv' /\ KeysInv' /\ StoreAdvances
        /\ [activity |-> a, worker |-> r.body.claim.worker, token |-> token] \in claims'
        /\ \A c \in claims : ~(c.activity = a /\ c.token = token)
    BY <1>1, <1>4, <2>0, <2>2, ClaimGrants
  <2>4. CASE x.status = 400
    BY <2>1, <2>3, <2>4, ErrorServes
  <2>5. CASE x.status = 200 /\ x.id = a /\ x.token = token
    <3>1. x.request = r
      BY <2>1 DEF Answering
    <3>2. TrueOf(x)'
      BY <1>1, <1>2, <2>3, <2>5, <3>1 DEF TrueOf
    <3>3. ASSUME NEW y \in answers PROVE ~SameGrant(x, y) /\ ~SameGrant(y, x)
      <4>1. y.request.op = "poll" /\ y.status = 200 /\ y.id = a => y.token # token
        BY <1>1, <2>3 DEF TrueOf
      <4> QED
        BY <1>1, <2>5, <3>1, <4>1 DEF SameGrant
    <3> QED
      BY <1>2, <2>1, <2>3, <3>2, <3>3 DEF Serving
  <2> QED
    BY <2>1, <2>4, <2>5
<1> QED
  BY <1>3, <1>4 DEF poll

\* A call on an activity that exists presents a claim that was granted.
LEMMA PresentsClaim ==
  ASSUME ApiInv, NEW r \in requests, r.op \in LeaseOps, ~NotFound(r)
  PROVE  /\ r.body.claim \in claims /\ r.body.claim.activity \in Activities
         /\ Granted(r.body.claim) /\ r.at \in Nat /\ r.at <= now
<1>1. r.body.claim.activity \in Activities
  BY DEF NotFound
<1>2. Activities \subseteq WorkflowIds \X Names
  BY DEF ApiInv, ContractInv, StoreTyped
<1>3. r.body.claim.activity # Empty
  BY <1>1, <1>2, ApiAssumption
<1>4. r.body.claim \in claims /\ r.at \in Nat /\ r.at <= now
  BY <1>3 DEF ApiInv, CallersInv, Sound
<1> QED
  BY <1>1, <1>4 DEF ApiInv, ContractInv

\* A refusal is a 409 only while the activity runs under another lease, or
\* under one that has run out for everyone who begins now.
LEMMA RefusedServes ==
  ASSUME ApiInv, NEW r \in requests, NEW lost, ~NotFound(r), refused(r, lost)
  PROVE  \E x : Serving(r, x)
<1> DEFINE c == r.body.claim
           a == c.activity
<1>1. /\ r.op \in LeaseOps /\ ~Current(r) /\ UNCHANGED store
      /\ Returns(r, lost, Refusal(a), Empty, 0)
  BY DEF refused
<1>2. c \in claims /\ a \in Activities /\ Granted(c) /\ r.at \in Nat /\ r.at <= now
  BY <1>1, PresentsClaim
<1>3. /\ ContractInv /\ KeysInv /\ rows[a].token \in Nat /\ c.token \in Nat
      /\ expires[a] \in Nat /\ now \in Nat
  BY <1>2 DEF ApiInv, CallersInv, ContractInv, StoreTyped, Row
<1>4. ContractInv' /\ KeysInv' /\ StoreAdvances
  BY <1>1, <1>3, QuietStep
<1>5. PICK x : Answering(r, x) /\ (x.status = 400 \/ (x.status = 409 /\ rows[a].status = "running"))
  <2>1. \/ Refusal(a) = "ErrInvalidTransition"
        \/ Refusal(a) = "ErrStaleLease" /\ rows[a].status = "running"
    BY DEF Refusal
  <2> QED
    BY <1>1, <2>1, Returned, StatusCodes
<1>6. CASE x.status = 400
  BY <1>4, <1>5, <1>6, ErrorServes
<1>7. CASE x.status = 409 /\ rows[a].status = "running"
  <2>1. /\ x.request = r /\ x.during = UnderWay(c) \ {r} /\ requests' = requests \ {r} /\ now' = now
        /\ rows' = rows /\ expires' = expires /\ claims' = claims
    BY <1>1, <1>5 DEF Answering, store, contract
  <2>2. c.token < rows[a].token \/ c.token = rows[a].token
    BY <1>2, <1>3 DEF Granted
  <2>3. c.token < rows[a].token => Superseded(c)'
    BY <2>1 DEF Superseded
  <2>4. ASSUME c.token = rows[a].token PROVE LapsedFor(x)'
    <3>1. Holds(c)
      BY <1>2, <1>7, <2>4 DEF Granted
    <3>2. expires[a] <= r.at
      BY <1>1, <1>2, <1>3, <3>1 DEF Current
    <3>3. expires[a] <= now
      BY <1>2, <1>3, <3>2
    <3>4. UnderWay(c)' = UnderWay(c) \ {r}
      BY <2>1 DEF UnderWay
    <3> QED
      BY <1>7, <2>1, <3>3, <3>4 DEF LapsedFor
  <2>5. Superseded(c)' \/ LapsedFor(x)'
    BY <2>2, <2>3, <2>4
  <2>6. TrueOf(x)'
    BY <1>2, <1>7, <2>1, <2>5 DEF TrueOf, Success
  <2>7. \A y : ~SameGrant(x, y) /\ ~SameGrant(y, x)
    BY <1>7 DEF SameGrant
  <2> QED
    BY <1>4, <1>5, <1>7, <2>6, <2>7 DEF Serving, Success
<1> QED
  BY <1>5, <1>6, <1>7

\* The holder's call is answered with success, or lost on its way back.
LEMMA HolderServes ==
  ASSUME ApiInv, NEW r \in requests, NEW lost, ~NotFound(r), r.op \in LeaseOps, r.at # 0,
         Current(r), Returns(r, lost, "nil", Empty, 0), NEW touched, StoreMoves(touched),
         touched \subseteq {r.body.claim.activity},
         r.op = "complete" => /\ rows'[r.body.claim.activity].status = "completed"
                              /\ rows'[r.body.claim.activity].token = r.body.claim.token
  PROVE  \E x : Serving(r, x)
<1>1. PICK x : Answering(r, x) /\ x.status \in {204, 400}
  BY Returned, StatusCodes
<1>2. x.request = r /\ x \in answers'
  BY <1>1 DEF Answering
<1>3. Overtakes(r)
  BY <1>1, <1>2 DEF Overtakes
<1>4. ContractInv /\ KeysInv
  BY DEF ApiInv
<1>5. ContractInv' /\ KeysInv'
  BY <1>4, MovesKeepInv
<1>6. \A a \in touched : \E q \in requests : Overtakes(q) /\ q.body.claim.activity = a
  BY <1>3
<1>7. StoreAdvances
  BY <1>4, <1>6, MovesAdvance
<1>8. r.body.claim \in claims'
  <2>1. r.body.claim \in claims
    BY PresentsClaim
  <2> QED
    BY <2>1 DEF StoreMoves
<1>9. r.op \notin {"start", "poll"}
  BY DEF LeaseOps
<1>10. TrueOf(x)' /\ \A y : ~SameGrant(x, y) /\ ~SameGrant(y, x)
  BY <1>1, <1>2, <1>8, <1>9 DEF TrueOf, SameGrant
<1> QED
  BY <1>1, <1>5, <1>7, <1>10 DEF Serving

\* The three calls of a worker that holds the lease.
LEMMA LeaseServes ==
  ASSUME ApiInv, NEW r \in requests, NEW lost, ~NotFound(r), r.at # 0,
         heartbeat(r, lost) \/ complete(r, lost) \/ fail(r, lost)
  PROVE  \E x : Serving(r, x)
<1> DEFINE a == r.body.claim.activity
<1>1. r.op \in LeaseOps /\ Current(r) /\ Returns(r, lost, "nil", Empty, 0)
  BY DEF heartbeat, complete, fail, LeaseOps
<1>2. ContractInv /\ a \in Activities /\ r.at \in Nat
  BY <1>1, PresentsClaim DEF ApiInv
<1>3. CASE heartbeat(r, lost)
  <2>1. /\ r.op = "heartbeat" /\ expires' = [expires EXCEPT ![a] = r.at + LeaseTTL]
        /\ UNCHANGED <<contract, keys>>
    BY <1>3 DEF heartbeat
  <2>2. r.at + LeaseTTL \in Nat
    BY <1>2, ApiAssumption
  <2>3. StoreMoves({a})
    BY <1>2, <2>1, <2>2, RenewMoves
  <2> QED
    BY <1>1, <2>1, <2>3, HolderServes
<1>4. CASE complete(r, lost)
  <2>1. /\ \E released : Complete(r.body.claim, released)
        /\ UNCHANGED <<expires, keys>>
    BY <1>4 DEF complete
  <2>2. /\ StoreMoves({a})
        /\ rows'[a].status = "completed" /\ rows'[a].token = r.body.claim.token
    BY <1>2, <2>1, CompleteMoves
  <2> QED
    BY <1>1, <2>2, HolderServes
<1>5. CASE fail(r, lost)
  <2>1. /\ r.op = "fail" /\ Fail(r.body.claim, r.body.retryable) /\ UNCHANGED <<expires, keys>>
    BY <1>5 DEF fail
  <2>2. StoreMoves({})
    BY <1>2, <2>1, FailMoves
  <2> QED
    BY <1>1, <2>1, <2>2, HolderServes
<1> QED
  BY <1>3, <1>4, <1>5

\* A cancellation.
LEMMA CancelServes ==
  ASSUME ApiInv, NEW r \in requests, NEW lost, cancelWorkflow(r, lost)
  PROVE  \E x : Serving(r, x)
<1>1. ContractInv /\ KeysInv /\ r.op = "cancel" /\ r.op \notin LeaseOps
  BY DEF ApiInv, cancelWorkflow, LeaseOps
<1>2. PICK x : Answering(r, x) /\ x.status \in {204, 400}
  <2>1. \E err \in {"nil", "ErrInvalidTransition"} : Returns(r, lost, err, Empty, 0)
    BY DEF cancelWorkflow
  <2> QED
    BY <1>1, <2>1, Returned, StatusCodes
<1>3. StoreMoves({})
  BY <1>1, StutterMoves, CancelMoves DEF cancelWorkflow
<1>4. ContractInv' /\ KeysInv' /\ StoreAdvances
  BY <1>1, <1>3, MovesKeepInv, MovesAdvance
<1>5. x.request = r
  BY <1>2 DEF Answering
<1>6. TrueOf(x)' /\ \A y : ~SameGrant(x, y) /\ ~SameGrant(y, x)
  BY <1>1, <1>2, <1>5 DEF TrueOf, SameGrant
<1> QED
  BY <1>1, <1>2, <1>4, <1>6 DEF Serving

\* Serving a request, whether or not the store fails.
LEMMA ServeStep ==
  ASSUME ApiInv, NEW r \in requests, Serve(r) \/ ServeStoreFails(r)
  PROVE  \E x : Serving(r, x)
<1>1. ASSUME NEW status \in {400, 401, 404}, Answered(r, status, Empty, 0), UNCHANGED store
      PROVE  \E x : Serving(r, x)
  <2>1. PICK x : Answering(r, x) /\ x.status = status
    BY <1>1, AnsweredWith
  <2>2. ContractInv' /\ KeysInv' /\ StoreAdvances
    BY <1>1, QuietStep DEF ApiInv
  <2> QED
    BY <1>1, <2>1, <2>2, ErrorServes
<1>2. ASSUME NEW lost, Backend(r, lost) PROVE \E x : Serving(r, x)
  <2>1. ~NotFound(r) /\ (r.op \in Timed => r.at # 0)
    BY <1>2 DEF Backend
  <2>2. CASE refused(r, lost)
    BY <2>1, <2>2, RefusedServes
  <2>3. CASE heartbeat(r, lost) \/ complete(r, lost) \/ fail(r, lost)
    <3>1. r.at # 0
      BY <2>1, <2>3 DEF heartbeat, complete, fail, Timed, LeaseOps
    <3> QED
      BY <2>1, <2>3, <3>1, LeaseServes
  <2> QED
    BY <1>2, <2>2, <2>3, StartServes, PollServes, CancelServes DEF Backend
<1>3. CASE Serve(r)
  <2>1. CASE Answered(r, 401, Empty, 0) /\ UNCHANGED store
    BY <1>1, <2>1
  <2>2. CASE (\E status \in {400, 404} : Answered(r, status, Empty, 0)) /\ UNCHANGED store
    BY <1>1, <2>2
  <2>3. CASE Backend(r, FALSE)
    BY <1>2, <2>3
  <2>4. \/ Answered(r, 401, Empty, 0) /\ UNCHANGED store
        \/ (\E status \in {400, 404} : Answered(r, status, Empty, 0)) /\ UNCHANGED store
        \/ Backend(r, FALSE)
    BY <1>3 DEF Serve
  <2> QED
    BY <2>1, <2>2, <2>3, <2>4
<1>4. CASE ServeStoreFails(r)
  BY <1>1, <1>2, <1>4 DEF ServeStoreFails
<1> QED
  BY <1>3, <1>4

\* A 409 is not undone by anybody but a call that was being served when it
\* was given.
LEMMA ConflictStays ==
  ASSUME ContractInv, CallersInv, ContractInv', StoreAdvances, answers \subseteq answers',
         now' \in Nat, now <= now',
         \A q \in requests' : q \in requests \/ q.at = 0 \/ q.at = now,
         NEW y, NEW c, c = y.request.body.claim, c \in claims,
         Superseded(c) \/ LapsedFor(y) \/ Overtaken(y)
  PROVE  (Superseded(c) \/ LapsedFor(y) \/ Overtaken(y))'
<1>0. PICK a : a = c.activity
  OBVIOUS
<1>1. /\ a \in Activities /\ Granted(c) /\ c.token \in Nat /\ rows[a].token \in Nat
      /\ expires[a] \in Nat /\ now \in Nat
  BY <1>0 DEF ContractInv, StoreTyped, CallersInv, Row
<1>2. rows'[a].token \in Nat
  <2>1. c \in claims'
    BY DEF StoreAdvances
  <2> QED
    BY <1>0, <2>1 DEF ContractInv, StoreTyped, Row
<1>3. RowAdvances(a)
  BY <1>1 DEF StoreAdvances
<1>4. Overtaken(y) => Overtaken(y)'
  BY DEF Overtaken
<1>5. Superseded(c) => Superseded(c)'
  BY <1>0, <1>1, <1>2, <1>3 DEF Superseded, Granted, RowAdvances
<1>6. ASSUME LapsedFor(y) PROVE (Superseded(c) \/ LapsedFor(y) \/ Overtaken(y))'
  <2>1. /\ rows[a].status = "running" /\ expires[a] <= now
        /\ \A q \in UnderWay(c) : q.at < expires[a] => q \in y.during
    BY <1>0, <1>6 DEF LapsedFor
  <2>2. CASE rows'[a].status \notin {"running", "completed"}
    BY <1>0, <2>2 DEF Superseded
  <2>3. CASE rows'[a].status = "running" /\ expires'[a] = expires[a]
    <3>1. expires[a] <= now'
      BY <1>1, <2>1
    <3>2. ASSUME NEW q \in UnderWay(c)', q.at < expires[a] PROVE q \in y.during
      <4>1. q \in requests' /\ q.at # 0 /\ q.op \in LeaseOps /\ q.body.claim = c
        BY DEF UnderWay
      <4>2. q.at # now
        BY <1>1, <2>1, <3>2
      <4>3. q \in UnderWay(c)
        BY <4>1, <4>2 DEF UnderWay
      <4> QED
        BY <2>1, <3>2, <4>3
    <3>3. LapsedFor(y)'
      BY <1>0, <2>3, <3>1, <3>2 DEF LapsedFor
    <3> QED
      BY <3>3
  <2>4. CASE \E r \in requests : Overtakes(r) /\ r.body.claim.activity = a
    <3>1. PICK r \in requests : Overtakes(r) /\ r.body.claim.activity = a
      BY <2>4
    <3>2. Holds(r.body.claim) /\ expires[a] > r.at
      BY <3>1 DEF Overtakes, Current
    <3>3. r.body.claim = Claimed(a)
      BY <3>1, <3>2 DEF Holds
    <3>4. CASE c.token < rows[a].token
      BY <1>0, <1>5, <3>4 DEF Superseded
    <3>5. CASE c.token = rows[a].token
      <4>1. Holds(c)
        BY <1>0, <1>1, <2>1, <3>5 DEF Granted
      <4>2. c = Claimed(a)
        BY <1>0, <4>1 DEF Holds
      <4>3. r \in UnderWay(c)
        BY <3>1, <3>3, <4>2 DEF UnderWay, Overtakes
      <4>4. r.at \in Nat
        BY DEF CallersInv, Sound
      <4>5. r \in y.during
        BY <1>1, <2>1, <3>2, <4>3, <4>4
      <4>6. Overtaken(y)'
        BY <3>1, <4>5 DEF Overtaken, Overtakes
      <4> QED
        BY <4>6
    <3> QED
      BY <1>0, <1>1, <3>4, <3>5 DEF Granted
  <2> QED
    BY <1>3, <2>1, <2>2, <2>3, <2>4 DEF RowAdvances
<1> QED
  BY <1>4, <1>5, <1>6

\* What an answer says stays true.
LEMMA AnswerStays ==
  ASSUME ContractInv, CallersInv, ContractInv', StoreAdvances, answers \subseteq answers',
         now' \in Nat, now <= now',
         \A q \in requests' : q \in requests \/ q.at = 0 \/ q.at = now,
         NEW y \in answers, TrueOf(y)
  PROVE  TrueOf(y)'
<1>0. PICK r : r = y.request
  OBVIOUS
<1>1. PICK c : c = r.body.claim
  OBVIOUS
<1>2. /\ claims \subseteq claims' /\ DOMAIN workflows \subseteq DOMAIN workflows'
      /\ keys \subseteq keys' /\ \A k \in keys' \ keys : k.workflow \notin DOMAIN workflows
  BY DEF StoreAdvances
<1>3. r.op \in LeaseOps /\ y.status \in Success => c \in claims'
  BY <1>0, <1>1, <1>2 DEF TrueOf
<1>4. r.op = "poll" /\ y.status = 200 =>
        [activity |-> y.id, worker |-> c.worker, token |-> y.token] \in claims'
  BY <1>0, <1>1, <1>2 DEF TrueOf
<1>5. y.status = 409 => c \in claims' /\ (Superseded(c) \/ LapsedFor(y) \/ Overtaken(y))'
  <2> SUFFICES ASSUME y.status = 409
               PROVE  c \in claims' /\ (Superseded(c) \/ LapsedFor(y) \/ Overtaken(y))'
    OBVIOUS
  <2>1. c \in claims /\ (Superseded(c) \/ LapsedFor(y) \/ Overtaken(y))
    BY <1>0, <1>1 DEF TrueOf
  <2>2. (Superseded(c) \/ LapsedFor(y) \/ Overtaken(y))'
    BY <1>0, <1>1, <2>1, ConflictStays
  <2> QED
    BY <1>2, <2>1, <2>2
<1>6. r.op = "complete" /\ y.status = 204 =>
        rows'[c.activity].status = "completed" /\ rows'[c.activity].token = c.token
  <2> SUFFICES ASSUME r.op = "complete", y.status = 204
               PROVE  rows'[c.activity].status = "completed" /\ rows'[c.activity].token = c.token
    OBVIOUS
  <2>1. /\ rows[c.activity].status = "completed" /\ rows[c.activity].token = c.token
        /\ c \in claims
    BY <1>0, <1>1 DEF TrueOf, LeaseOps, Success
  <2>2. RowAdvances(c.activity)
    BY <2>1 DEF ContractInv, StoreTyped, StoreAdvances
  <2> QED
    BY <2>1, <2>2 DEF RowAdvances
<1>7. r.op = "start" /\ y.status \in Success =>
        /\ y.id \in DOMAIN workflows'
        /\ IF r.body.key = Empty
           THEN y.status = 201 /\ \A k \in keys' : k.workflow # y.id
           ELSE \E k \in Named(r.body.def, r.body.key)' : k.workflow = y.id
  BY <1>0, <1>2 DEF TrueOf, Named
<1> QED
  BY <1>0, <1>1, <1>3, <1>4, <1>5, <1>6, <1>7 DEF TrueOf

-----------------------------------------------------------------------------
(* The callers.                                                            *)

\* The request q is r, possibly begun.
SameCall(q, r) ==
  /\ q = [caller |-> r.caller, n |-> r.n, op |-> r.op, body |-> r.body, at |-> q.at]
  /\ q.at = r.at \/ q.at = now

\* A step of the server or the store keeps what is known of the callers.
LEMMA CallersServed ==
  ASSUME CallersInv, claims \subseteq claims', now' \in Nat, now <= now', UNCHANGED callers,
         \A q \in requests' : \E r \in requests : SameCall(q, r),
         \A x \in answers' : x \in answers \/ x.request \in requests
  PROVE  CallersInv'
<1>1. UNCHANGED <<sent, pc, claim, printed>> /\ now \in Nat \ {0}
  BY DEF callers, CallersInv
<1>2. \A r : AsSent(r) => AsSent(r)'
  BY <1>1 DEF AsSent
<1>3. ASSUME NEW q \in requests' PROVE Sound(q)' /\ AsSent(q)'
  <2>1. PICK r \in requests : SameCall(q, r)
    OBVIOUS
  <2>2. /\ q.caller = r.caller /\ q.n = r.n /\ q.op = r.op /\ q.body = r.body
        /\ q = [caller |-> q.caller, n |-> q.n, op |-> q.op, body |-> q.body, at |-> q.at]
        /\ q.at = r.at \/ q.at = now
    BY <2>1 DEF SameCall
  <2>3. Sound(r) /\ AsSent(r)
    BY DEF CallersInv
  <2>4. AsSent(q)
    BY <2>2, <2>3 DEF AsSent
  <2>5. q.at \in Nat /\ q.at <= now'
    BY <1>1, <2>2, <2>3 DEF Sound
  <2>6. Sound(q)'
    BY <2>2, <2>3, <2>5 DEF Sound
  <2> QED
    BY <1>2, <2>4, <2>6
<1>4. \A x \in answers' : AsSent(x.request)'
  BY <1>2 DEF CallersInv
<1>5. now' \in Nat \ {0}
  BY <1>1
<1> QED
  BY <1>1, <1>3, <1>4, <1>5 DEF CallersInv

\* A caller that moves on without a request.
LEMMA MovesOn ==
  ASSUME CallersInv, UNCHANGED <<now, requests, answers, sent, claim, claims>>, NEW c \in Callers,
         NEW where, Goto(c, where), where \notin {"polling", "heartbeating"},
         where = "claimed" => claim[c] \in claims, printed' \subseteq claims
  PROVE  CallersInv'
<1>1. /\ DOMAIN pc' = Callers /\ pc'[c] = where /\ \A d \in Callers : d # c => pc'[d] = pc[d]
  BY DEF Goto, CallersInv
<1>2. \A r : AsSent(r) => AsSent(r)'
  BY <1>1 DEF AsSent
<1>3. \A t \in Testers : t \in Callers
  BY DEF Callers
<1>4. \A r : Sound(r) => Sound(r)'
  BY DEF Sound
<1> QED
  BY <1>1, <1>2, <1>3, <1>4 DEF CallersInv

\* What is put into a request so that it is sound.
SoundBody(op, body) ==
  /\ op \in LeaseOps => body.claim.activity = Empty \/ body.claim \in claims
  /\ op = "start" => body.def \in Definitions
  /\ op = "poll" => body.claim.worker \in Workers

\* A caller that sends a request.  Older requests of its own are not its last.
LEMMA Sends ==
  ASSUME CallersInv, UNCHANGED <<now, answers, claims>>, NEW c \in Callers, NEW op, NEW body,
         Send(c, op, body),
         DOMAIN pc' = Callers, \A d \in Callers : d # c => pc'[d] = pc[d],
         DOMAIN claim' = Testers, \A d \in Testers : d # c => claim'[d] = claim[d],
         c \in Testers => pc'[c] # "claimed",
         UNCHANGED printed, SoundBody(op, body),
         c \in Testers =>
           /\ pc'[c] = "polling" => op = "poll" /\ body.claim.worker = WorkerFlag[c]
           /\ pc'[c] = "heartbeating" => op = "heartbeat" /\ body.claim = claim'[c]
  PROVE  CallersInv'
<1>0. PICK q : q = [caller |-> c, n |-> sent[c] + 1, op |-> op, body |-> body, at |-> 0]
  OBVIOUS
<1>1. /\ sent' = [sent EXCEPT ![c] = @ + 1] /\ requests' = requests \cup {q}
      /\ sent \in [Callers -> Nat] /\ now \in Nat \ {0}
  BY <1>0 DEF Send, CallersInv
<1>2. /\ sent' \in [Callers -> Nat] /\ sent'[c] = sent[c] + 1 /\ sent[c] \in Nat
      /\ \A d \in Callers : d # c => sent'[d] = sent[d]
  BY <1>1
<1>3. /\ q.caller = c /\ q.n = sent[c] + 1 /\ q.op = op /\ q.body = body /\ q.at = 0
      /\ q = [caller |-> q.caller, n |-> q.n, op |-> q.op, body |-> q.body, at |-> q.at]
  BY <1>0
<1>4. Sound(q)
  BY <1>1, <1>3 DEF Sound, SoundBody
<1>5. AsSent(q)'
  BY <1>2, <1>3 DEF AsSent
<1>6. ASSUME NEW r, AsSent(r) PROVE AsSent(r)'
  <2>1. CASE r.caller = c
    BY <1>2, <1>6, <2>1 DEF AsSent
  <2>2. CASE r.caller # c
    BY <1>2, <1>6, <2>2 DEF AsSent
  <2> QED
    BY <2>1, <2>2
<1>7. \A t \in Testers : t \in Callers
  BY DEF Callers
<1>8. \A r : Sound(r) => Sound(r)'
  BY DEF Sound
<1>9. \A t \in Testers : pc'[t] = "claimed" => claim'[t] \in claims'
  BY <1>7 DEF CallersInv
<1>10. \A r \in requests' : Sound(r)' /\ AsSent(r)'
  BY <1>1, <1>4, <1>5, <1>6, <1>8 DEF CallersInv
<1>11. \A x \in answers' : AsSent(x.request)'
  BY <1>6 DEF CallersInv
<1>12. printed' \subseteq claims'
  BY DEF CallersInv
<1> QED
  BY <1>1, <1>2, <1>9, <1>10, <1>11, <1>12 DEF CallersInv

\* What a worker's call carries.
LEMMA LeaseBodyFields == \A c : LeaseBody(c).claim = c
BY DEF LeaseBody, Body

\* An answer to its last request tells a tester what it asked for.
LEMMA HeardIsAsked ==
  ASSUME CallersInv, AnswersInv, NEW t \in Testers, NEW statuses, NEW x \in Hears(t, statuses)
  PROVE  /\ pc[t] = "polling" /\ x.status = 200 =>
              [activity |-> x.id, worker |-> WorkerFlag[t], token |-> x.token] \in claims
         /\ pc[t] = "heartbeating" /\ x.status \in Success => claim[t] \in claims
<1>1. x \in answers /\ x.request.caller = t /\ x.request.n = sent[t]
  BY DEF Hears
<1>2. AsSent(x.request) /\ TrueOf(x)
  BY <1>1 DEF CallersInv, AnswersInv
<1> QED
  BY <1>1, <1>2 DEF AsSent, TrueOf, LeaseOps

\* A step of a test worker.
LEMMA TesterStep ==
  ASSUME CallersInv, AnswersInv, NEW t \in Testers,
         \/ TesterPolls(t) \/ TesterHearsPoll(t) \/ TesterHearsHeartbeat(t)
         \/ TesterReports(t) \/ TesterExits(t)
  PROVE  CallersInv' /\ UNCHANGED <<now, store, answers>>
<1>1. /\ t \in Callers /\ WorkerFlag[t] \in Workers
      /\ DOMAIN pc = Callers /\ DOMAIN claim = Testers /\ printed \subseteq claims
  BY ApiAssumption DEF Callers, CallersInv
<1>2. UNCHANGED <<now, store, answers>>
  BY DEF TesterPolls, TesterHearsPoll, TesterHearsHeartbeat, TesterReports, TesterExits, NetOnly
<1>3. UNCHANGED <<now, answers, claims>>
  BY <1>2 DEF store, contract
<1>4. ASSUME NEW where, Goto(t, where)
      PROVE  DOMAIN pc' = Callers /\ pc'[t] = where /\ \A d \in Callers : d # t => pc'[d] = pc[d]
  BY <1>1, <1>4 DEF Goto
<1>5. CASE TesterPolls(t)
  <2> DEFINE body == LeaseBody(EmptyClaim(t))
  <2>1. Send(t, "poll", body) /\ Goto(t, "polling") /\ UNCHANGED <<claim, printed>>
    BY <1>5 DEF TesterPolls
  <2>2. body.claim.worker = WorkerFlag[t]
    BY DEF EmptyClaim, LeaseBody, Body
  <2> HIDE DEF body
  <2>3. SoundBody("poll", body)
    BY <1>1, <2>2 DEF SoundBody, LeaseOps
  <2> QED
    BY <1>1, <1>2, <1>3, <1>4, <2>1, <2>2, <2>3, Sends
<1>6. CASE TesterHearsPoll(t)
  <2>1. PICK x \in Hears(t, {200} \cup Error) :
          LET c == IF x.status = 200
                   THEN [activity |-> x.id, worker |-> WorkerFlag[t], token |-> x.token]
                   ELSE EmptyClaim(t)
          IN claim' = [claim EXCEPT ![t] = c] /\ Send(t, "heartbeat", LeaseBody(c))
    BY <1>6 DEF TesterHearsPoll
  <2> DEFINE c == IF x.status = 200
                  THEN [activity |-> x.id, worker |-> WorkerFlag[t], token |-> x.token]
                  ELSE EmptyClaim(t)
  <2>2. claim' = [claim EXCEPT ![t] = c] /\ Send(t, "heartbeat", LeaseBody(c))
    BY <2>1
  <2>3. Goto(t, "heartbeating") /\ pc[t] = "polling" /\ UNCHANGED printed
    BY <1>6 DEF TesterHearsPoll
  <2>4. c.activity = Empty \/ c \in claims
    <3>1. CASE x.status = 200
      BY <2>3, <3>1, HeardIsAsked
    <3>2. CASE x.status # 200
      BY <3>2 DEF EmptyClaim
    <3> QED
      BY <3>1, <3>2
  <2> HIDE DEF c
  <2>5. LeaseBody(c).claim = c
    BY LeaseBodyFields
  <2>6. SoundBody("heartbeat", LeaseBody(c))
    BY <2>4, <2>5 DEF SoundBody, LeaseOps
  <2>7. /\ DOMAIN claim' = Testers /\ claim'[t] = c
        /\ \A d \in Testers : d # t => claim'[d] = claim[d]
    BY <1>1, <2>2
  <2>8. DOMAIN pc' = Callers /\ pc'[t] = "heartbeating" /\ \A d \in Callers : d # t => pc'[d] = pc[d]
    BY <1>4, <2>3
  <2> QED
    BY <1>1, <1>2, <1>3, <2>2, <2>3, <2>5, <2>6, <2>7, <2>8, Sends
<1>7. CASE TesterHearsHeartbeat(t)
  <2>1. /\ pc[t] = "heartbeating" /\ Goto(t, "claimed") /\ printed' = printed \cup {claim[t]}
        /\ Hears(t, Success) # {} /\ UNCHANGED <<requests, sent, claim>>
    BY <1>7 DEF TesterHearsHeartbeat
  <2>2. PICK x \in Hears(t, Success) : x.status \in Success
    BY <2>1 DEF Hears
  <2>3. claim[t] \in claims
    BY <2>1, <2>2, HeardIsAsked
  <2> QED
    BY <1>1, <1>2, <1>3, <2>1, <2>3, MovesOn
<1>8. CASE TesterReports(t)
  <2>1. /\ claim[t] \in claims /\ UNCHANGED <<claim, printed>>
    BY <1>8 DEF TesterReports, CallersInv
  <2>2. \/ Send(t, "heartbeat", LeaseBody(claim[t])) /\ Goto(t, "heartbeating")
        \/ Send(t, "complete", LeaseBody(claim[t])) /\ Goto(t, "completing")
    BY <1>8 DEF TesterReports
  <2>3. PICK c : c = claim[t]
    OBVIOUS
  <2>4. LeaseBody(c).claim = c /\ claim'[t] = c
    BY <2>1, <2>3, LeaseBodyFields
  <2>5. ASSUME NEW op \in {"heartbeat", "complete"}
        PROVE  SoundBody(op, LeaseBody(c))
    BY <2>1, <2>3, <2>4 DEF SoundBody, LeaseOps
  <2>6. CASE Send(t, "heartbeat", LeaseBody(c)) /\ Goto(t, "heartbeating")
    BY <1>1, <1>2, <1>3, <1>4, <2>1, <2>4, <2>5, <2>6, Sends
  <2>7. CASE Send(t, "complete", LeaseBody(c)) /\ Goto(t, "completing")
    BY <1>1, <1>2, <1>3, <1>4, <2>1, <2>4, <2>5, <2>7, Sends
  <2> QED
    BY <2>2, <2>3, <2>6, <2>7
<1>9. CASE TesterExits(t)
  <2>1. Goto(t, "exited") /\ UNCHANGED <<requests, sent, claim, printed>>
    BY <1>9 DEF TesterExits
  <2> QED
    BY <1>1, <1>2, <1>3, <2>1, MovesOn
<1> QED
  BY <1>5, <1>6, <1>7, <1>8, <1>9

\* A step of a client or a demo driver.
LEMMA ClientStep ==
  ASSUME CallersInv, NEW c \in Clients, ClientStarts(c) \/ ClientReturns(c)
  PROVE  CallersInv' /\ UNCHANGED <<now, store, answers>>
<1>1. /\ c \in Callers /\ c \notin Testers /\ DOMAIN pc = Callers /\ DOMAIN claim = Testers
      /\ printed \subseteq claims
  BY ApiAssumption DEF Callers, CallersInv
<1>2. UNCHANGED <<now, store, answers>>
  BY DEF ClientStarts, ClientReturns, NetOnly
<1>3. UNCHANGED <<now, answers, claims>>
  BY <1>2 DEF store, contract
<1>4. CASE ClientStarts(c)
  <2>1. PICK x \in Submissions[c] : Send(c, "start", [Body EXCEPT !.def = x.def, !.key = KeyOf(c, x)])
    BY <1>4 DEF ClientStarts
  <2>2. Goto(c, "starting") /\ UNCHANGED <<claim, printed>>
    BY <1>4 DEF ClientStarts
  <2>3. x.def \in Definitions
    BY ApiAssumption
  <2>5. PICK key : key = KeyOf(c, x)
    OBVIOUS
  <2> DEFINE body == [Body EXCEPT !.def = x.def, !.key = key]
  <2>6. body.def = x.def /\ body.key = key
    BY DEF Body
  <2>7. Send(c, "start", body)
    BY <2>1, <2>5
  <2> HIDE DEF body
  <2>8. SoundBody("start", body)
    BY <2>3, <2>6 DEF SoundBody, LeaseOps
  <2>9. DOMAIN pc' = Callers /\ \A d \in Callers : d # c => pc'[d] = pc[d]
    BY <1>1, <2>2 DEF Goto
  <2> QED
    BY <1>1, <1>2, <1>3, <2>2, <2>7, <2>8, <2>9, Sends
<1>5. CASE ClientReturns(c)
  <2>1. UNCHANGED <<requests, sent, claim, printed>> /\ \E where \in {"idle", "done"} : Goto(c, where)
    BY <1>5 DEF ClientReturns
  <2> QED
    BY <1>1, <1>2, <1>3, <2>1, MovesOn
<1> QED
  BY <1>4, <1>5

\* A call by hand: the operator knows what the testers have printed.
LEMMA OperatorStep ==
  ASSUME CallersInv, OperatorPosts
  PROVE  CallersInv' /\ UNCHANGED <<now, store, answers>>
<1>1. /\ Operator \in Callers /\ Operator \notin Testers /\ DOMAIN pc = Callers
      /\ DOMAIN claim = Testers /\ printed \subseteq claims
  BY ApiAssumption DEF Callers, CallersInv
<1>2. UNCHANGED <<now, store, answers>> /\ UNCHANGED <<pc, claim, printed>>
  BY DEF OperatorPosts, NetOnly
<1>3. UNCHANGED <<now, answers, claims>>
  BY <1>2 DEF store, contract
<1>4. ASSUME NEW op, NEW body, Send(Operator, op, body), op \in {"complete", "fail", "cancel"},
             op # "cancel" => body.claim.activity = Empty \/ body.claim \in claims
      PROVE  CallersInv'
  <2>1. SoundBody(op, body)
    BY <1>4 DEF SoundBody, LeaseOps
  <2> QED
    BY <1>1, <1>2, <1>3, <1>4, <2>1, Sends
<1>5. CASE \E c \in printed : Send(Operator, "complete", LeaseBody(c))
  BY <1>1, <1>2, <1>4, <1>5, LeaseBodyFields
<1>6. ASSUME NEW c \in printed, NEW retryable \in BOOLEAN,
             Send(Operator, "fail", [LeaseBody(c) EXCEPT !.retryable = retryable])
      PROVE  CallersInv'
  <2> DEFINE body == [LeaseBody(c) EXCEPT !.retryable = retryable]
  <2>1. body.claim = c
    BY DEF LeaseBody, Body
  <2>2. Send(Operator, "fail", body)
    BY <1>6
  <2> HIDE DEF body
  <2> QED
    BY <1>1, <1>4, <2>1, <2>2
<1>7. ASSUME NEW w, Send(Operator, "cancel", [Body EXCEPT !.id = w]) PROVE CallersInv'
  BY <1>4, <1>7
<1>8. CASE Send(Operator, "complete", [Body EXCEPT !.decodes = FALSE])
  <2> DEFINE body == [Body EXCEPT !.decodes = FALSE]
  <2>1. body.claim.activity = Empty
    BY DEF Body, NoClaim
  <2>2. Send(Operator, "complete", body)
    BY <1>8
  <2> HIDE DEF body
  <2> QED
    BY <1>2, <1>4, <2>1, <2>2
<1> QED
  BY <1>2, <1>5, <1>6, <1>7, <1>8 DEF OperatorPosts

-----------------------------------------------------------------------------
(* The whole.                                                              *)

\* An empty store nobody has called.
LEMMA ApiInitInv == ApiInit => ApiInv
<1> SUFFICES ASSUME ApiInit PROVE ApiInv
  OBVIOUS
<1>1. /\ plan = <<>> /\ workflows = <<>> /\ expires = <<>> /\ keys = {} /\ claims = {}
      /\ rows = [a \in Activities |-> Fresh(plan[a])] /\ now = 1
      /\ requests = {} /\ answers = {} /\ printed = {}
  BY DEF ApiInit, LifecycleInit
<1>2. DOMAIN plan = {} /\ DOMAIN workflows = {} /\ DOMAIN expires = {} /\ Activities = {}
  BY <1>1 DEF Activities
<1>3. rows \in [Activities -> Row] /\ expires \in [Activities -> Nat]
  BY <1>1, <1>2
<1>4. ContractInv
  BY <1>1, <1>2, <1>3 DEF ContractInv, StoreTyped
<1>5. CallersInv
  BY <1>1 DEF ApiInit, CallersInv, Callers
<1> QED
  BY <1>1, <1>4, <1>5 DEF ApiInv, KeysInv, AnswersInv

\* New requests have not begun.
OnlySends == \A q \in requests' : q \in requests \/ q.at = 0

\* What a caller sends has not begun.
LEMMA SendSends == ASSUME NEW c, NEW op, NEW body, Send(c, op, body) PROVE OnlySends
BY DEF Send, OnlySends

\* A caller's step sends at most a request.
LEMMA CallersOnlySend ==
  ASSUME \/ \E t \in Testers : \/ TesterPolls(t) \/ TesterHearsPoll(t) \/ TesterHearsHeartbeat(t)
                               \/ TesterReports(t) \/ TesterExits(t)
         \/ \E c \in Clients : ClientStarts(c) \/ ClientReturns(c)
         \/ OperatorPosts
  PROVE  OnlySends
<1>1. UNCHANGED requests => OnlySends
  BY DEF OnlySends
<1>2. ASSUME NEW t \in Testers,
             \/ TesterPolls(t) \/ TesterHearsPoll(t) \/ TesterHearsHeartbeat(t)
             \/ TesterReports(t) \/ TesterExits(t)
      PROVE  OnlySends
  BY <1>1, <1>2, SendSends
     DEF TesterPolls, TesterHearsPoll, TesterHearsHeartbeat, TesterReports, TesterExits
<1>3. ASSUME NEW c \in Clients, ClientStarts(c) \/ ClientReturns(c) PROVE OnlySends
  BY <1>1, <1>3, SendSends DEF ClientStarts, ClientReturns
<1>4. CASE OperatorPosts
  BY <1>4, SendSends DEF OperatorPosts
<1> QED
  BY <1>2, <1>3, <1>4

\* What every step does: the store advances, the clock does not go back, and
\* what begins, begins now.
Advances ==
  /\ StoreAdvances /\ answers \subseteq answers' /\ now' \in Nat /\ now <= now'
  /\ \A q \in requests' : q \in requests \/ q.at = 0 \/ q.at = now

\* BEGIN changes nothing but the request.
LEMMA BeginStep ==
  ASSUME ApiInv, NEW r \in requests, Begin(r)
  PROVE  ContractInv' /\ KeysInv' /\ CallersInv' /\ Advances /\ UNCHANGED answers
<1>0. PICK q : q = [r EXCEPT !.at = now]
  OBVIOUS
<1>1. /\ requests' = (requests \ {r}) \cup {q} /\ UNCHANGED <<now, store, answers, callers>>
      /\ ContractInv /\ KeysInv /\ CallersInv /\ now \in Nat /\ \A p \in requests : Sound(p)
  BY <1>0 DEF Begin, ApiInv, CallersInv
<1>2. r = [caller |-> r.caller, n |-> r.n, op |-> r.op, body |-> r.body, at |-> r.at]
  BY <1>1 DEF Sound
<1>3. q = [caller |-> r.caller, n |-> r.n, op |-> r.op, body |-> r.body, at |-> now]
  BY <1>0, <1>2
<1>4. q.at = now /\ SameCall(q, r)
  BY <1>3 DEF SameCall
<1>5. \A p \in requests : SameCall(p, p)
  BY <1>1 DEF Sound, SameCall
<1>6. ContractInv' /\ KeysInv' /\ StoreAdvances
  BY <1>1, QuietStep
<1>7. CallersInv'
  <2>1. claims' = claims
    BY <1>1 DEF store, contract
  <2> QED
    BY <1>1, <1>4, <1>5, <2>1, CallersServed
<1> QED
  BY <1>1, <1>4, <1>6, <1>7 DEF Advances

\* A scheduler pass, and the passing of time.
LEMMA TimeStep ==
  ASSUME ApiInv, SchedulerPass \/ Tick \/ UNCHANGED apiVars
  PROVE  ContractInv' /\ KeysInv' /\ CallersInv' /\ Advances /\ UNCHANGED answers
<1>1. ContractInv /\ KeysInv /\ CallersInv /\ now \in Nat
  BY DEF ApiInv, CallersInv
<1>2. UNCHANGED <<requests, answers, callers>> /\ now' \in Nat /\ now <= now'
  BY <1>1 DEF SchedulerPass, Tick, apiVars, net
<1>3. StoreMoves({})
  <2>1. CASE SchedulerPass
    <3>1. UNCHANGED <<expires, keys>> /\ \E lapsed, released : RunSchedulerPass(lapsed, released)
      BY <2>1 DEF SchedulerPass
    <3> QED
      BY <1>1, <3>1, PassMoves
  <2>2. CASE Tick \/ UNCHANGED apiVars
    <3>1. UNCHANGED store
      BY <2>2 DEF Tick, apiVars
    <3> QED
      BY <1>1, <3>1, StutterMoves
  <2> QED
    BY <2>1, <2>2
<1>4. ContractInv' /\ KeysInv' /\ StoreAdvances
  BY <1>1, <1>3, MovesKeepInv, MovesAdvance
<1>5. \A p \in requests : SameCall(p, p)
  BY <1>1 DEF CallersInv, Sound, SameCall
<1>6. CallersInv'
  BY <1>1, <1>2, <1>4, <1>5, CallersServed DEF StoreAdvances
<1> QED
  BY <1>2, <1>4, <1>6 DEF Advances

\* Every step advances the store, and answers one request at most.
LEMMA ApiStep ==
  ASSUME ApiInv, [ApiNext]_apiVars
  PROVE  /\ ContractInv' /\ KeysInv' /\ CallersInv' /\ Advances
         /\ UNCHANGED answers \/ \E r \in requests : \E x : Serving(r, x)
<1>1. ContractInv /\ KeysInv /\ CallersInv /\ AnswersInv /\ now \in Nat
  BY DEF ApiInv, CallersInv
<1>2. CASE \E r \in requests : Serve(r) \/ ServeStoreFails(r)
  <2>1. PICK r \in requests : Serve(r) \/ ServeStoreFails(r)
    BY <1>2
  <2>2. PICK x : Serving(r, x)
    BY <2>1, ServeStep
  <2>3. /\ ContractInv' /\ KeysInv' /\ StoreAdvances /\ requests' = requests \ {r}
        /\ answers' = answers \cup {x} /\ x.request = r /\ UNCHANGED <<now, callers>>
    BY <2>2 DEF Serving, Answering
  <2>4. \A p \in requests : SameCall(p, p)
    BY <1>1 DEF CallersInv, Sound, SameCall
  <2>5. CallersInv'
    BY <1>1, <2>3, <2>4, CallersServed DEF StoreAdvances
  <2> QED
    BY <1>1, <2>2, <2>3, <2>5 DEF Advances
<1>3. CASE \E r \in requests : Begin(r)
  BY <1>3, BeginStep
<1>4. CASE \/ \E t \in Testers : \/ TesterPolls(t) \/ TesterHearsPoll(t) \/ TesterHearsHeartbeat(t)
                                 \/ TesterReports(t) \/ TesterExits(t)
           \/ \E c \in Clients : ClientStarts(c) \/ ClientReturns(c)
           \/ OperatorPosts
  <2>1. OnlySends
    BY <1>4, CallersOnlySend
  <2>2. CallersInv' /\ UNCHANGED <<now, store, answers>>
    BY <1>1, <1>4, TesterStep, ClientStep, OperatorStep
  <2>3. ContractInv' /\ KeysInv' /\ StoreAdvances
    BY <1>1, <2>2, QuietStep
  <2> QED
    BY <1>1, <2>1, <2>2, <2>3 DEF OnlySends, Advances
<1>5. CASE SchedulerPass \/ Tick \/ UNCHANGED apiVars
  BY <1>5, TimeStep
<1> QED
  BY <1>2, <1>3, <1>4, <1>5 DEF ApiNext

\* The invariant is inductive.
LEMMA ApiInductive == ApiInv /\ [ApiNext]_apiVars => ApiInv'
<1> SUFFICES ASSUME ApiInv, [ApiNext]_apiVars PROVE ApiInv'
  OBVIOUS
<1>1. /\ ContractInv' /\ KeysInv' /\ CallersInv' /\ Advances
      /\ UNCHANGED answers \/ \E r \in requests : \E x : Serving(r, x)
  BY ApiStep
<1>2. ContractInv /\ CallersInv /\ AnswersInv
  BY DEF ApiInv
<1>3. \A x \in answers : TrueOf(x)'
  BY <1>1, <1>2, AnswerStays DEF AnswersInv, Advances
<1>4. AnswersInv'
  <2>1. CASE UNCHANGED answers
    BY <1>2, <1>3, <2>1 DEF AnswersInv, SameGrant
  <2>2. CASE \E r \in requests : \E x : Serving(r, x)
    <3>1. PICK r \in requests : \E x : Serving(r, x)
      BY <2>2
    <3>2. PICK z : Serving(r, z)
      BY <3>1
    <3>3. /\ answers' = answers \cup {z} /\ TrueOf(z)'
          /\ \A y \in answers : ~SameGrant(z, y) /\ ~SameGrant(y, z)
      BY <3>2 DEF Serving, Answering
    <3>4. \A x \in answers' : TrueOf(x)'
      BY <1>3, <3>3
    <3>5. \A x, y \in answers' : SameGrant(x, y) => x = y
      BY <1>2, <3>3 DEF AnswersInv
    <3> QED
      BY <3>4, <3>5 DEF AnswersInv, SameGrant
  <2> QED
    BY <1>1, <2>1, <2>2
<1> QED
  BY <1>1, <1>4 DEF ApiInv

\* The invariant holds in every reachable state.
LEMMA ApiAlways == ApiSpec => []ApiInv
BY ApiInitInv, ApiInductive, PTL DEF ApiSpec

\* Whatever answers its polls get, and however late: the test worker announces
\* only claims the store has handed out.
THEOREM PrintedClaimsWereHeld == ApiSpec => []PrintedWasHeld
<1>1. ApiInv => PrintedWasHeld
  BY DEF ApiInv, CallersInv, PrintedWasHeld
<1> QED
  BY <1>1, ApiAlways, PTL

\* For any number of callers that share claims and worker ids: a result that
\* was answered with 409 has not been taken and never will be, unless the
\* store was serving another call with the claim at that time.
THEOREM ConflictsAreTrue == ApiSpec => []ConflictMeansNotTaken
<1>1. ApiInv => ConflictMeansNotTaken
  <2> SUFFICES ASSUME ApiInv, NEW x \in Conflicts, NEW c, c = x.request.body.claim
               PROVE  \/ Overtaken(x)
                      \/ ~(rows[c.activity].status = "completed" /\ rows[c.activity].token = c.token)
    BY DEF ConflictMeansNotTaken
  <2>1. c \in claims /\ (Superseded(c) \/ LapsedFor(x) \/ Overtaken(x))
    BY DEF Conflicts, ApiInv, AnswersInv, TrueOf
  <2>2. c.token \in Nat
    BY <2>1 DEF ApiInv, ContractInv, StoreTyped
  <2> QED
    BY <2>1, <2>2 DEF Superseded, LapsedFor
<1> QED
  BY <1>1, ApiAlways, PTL

\* After a 409 a call on the claim is answered with success only if the store
\* was serving it at that time, or one that was served then has got through.
THEOREM ConflictsAreFinal == ApiSpec => ConflictIsFinal
<1>1. ApiInv /\ [ApiNext]_apiVars =>
        \A x \in answers' \ answers :
          x.request.op \in LeaseOps /\ x.status \in Success
            => \A y \in Conflicts : y.request.body.claim = x.request.body.claim => Overtaken(y)'
  <2> SUFFICES ASSUME ApiInv, [ApiNext]_apiVars, NEW x \in answers' \ answers,
                      x.request.op \in LeaseOps, x.status \in Success, NEW y \in Conflicts,
                      y.request.body.claim = x.request.body.claim
               PROVE  Overtaken(y)'
    OBVIOUS
  <2>0. PICK c : c = x.request.body.claim
    OBVIOUS
  <2>1. PICK r \in requests : \E z : Serving(r, z)
    BY ApiStep
  <2>2. PICK z : Serving(r, z)
    BY <2>1
  <2>3. answers' = answers \cup {z} /\ x = z /\ z.request = r
    BY <2>2 DEF Serving, Answering
  <2>4. Current(r) /\ r.at # 0
    BY <2>2, <2>3 DEF Serving
  <2>5. /\ c \in claims /\ (Superseded(c) \/ LapsedFor(y) \/ Overtaken(y))
    BY <2>0 DEF Conflicts, ApiInv, AnswersInv, TrueOf
  <2>6. CASE Superseded(c)
    <3>1. rows[c.activity].status = "running" /\ c.token = rows[c.activity].token
      BY <2>0, <2>3, <2>4 DEF Current, Holds, Claimed
    <3>2. c.token \in Nat
      BY <2>5 DEF ApiInv, ContractInv, StoreTyped
    <3> QED
      BY <2>6, <3>1, <3>2 DEF Superseded
  <2>7. CASE LapsedFor(y)
    <3>1. r \in UnderWay(c)
      BY <2>0, <2>3, <2>4 DEF UnderWay
    <3>2. expires[c.activity] > r.at /\ r.at \in Nat /\ expires[c.activity] \in Nat
      BY <2>0, <2>3, <2>4, <2>5 DEF Current, ApiInv, ContractInv, StoreTyped, CallersInv, Sound
    <3>3. r \in y.during
      BY <2>0, <2>7, <3>1, <3>2 DEF LapsedFor
    <3>4. x \in answers' /\ x.request \in y.during /\ x.status # 409
      BY <2>3, <3>3 DEF Success
    <3> QED
      BY <3>4 DEF Overtaken
  <2>8. CASE Overtaken(y)
    BY <2>3, <2>8 DEF Overtaken
  <2> QED
    BY <2>5, <2>6, <2>7, <2>8
<1> QED
  BY <1>1, ApiAlways, PTL DEF ApiSpec, ConflictIsFinal

\* For any number of callers, retries and store failures: what the API has
\* acknowledged as complete stays complete under that token, and no claim is
\* handed out twice.
THEOREM AcknowledgementsStand == ApiSpec => []AcknowledgedStands
<1>1. ApiInv => AcknowledgedStands
  <2> SUFFICES ASSUME ApiInv PROVE AcknowledgedStands
    OBVIOUS
  <2>1. \A x \in answers : x.request.op = "complete" /\ x.status = 204 =>
          LET c == x.request.body.claim
          IN rows[c.activity].status = "completed" /\ rows[c.activity].token = c.token
    BY DEF ApiInv, AnswersInv, TrueOf
  <2>2. \A x, y \in answers :
          /\ x.request.op = "poll" /\ x.status = 200 /\ y.request.op = "poll" /\ y.status = 200
          /\ x.id = y.id /\ x.token = y.token
          => x = y
    BY DEF ApiInv, AnswersInv, SameGrant
  <2> QED
    BY <2>1, <2>2 DEF AcknowledgedStands
<1> QED
  BY <1>1, ApiAlways, PTL

\* However starts are repeated, delayed and failed by the store: a key stands
\* for one workflow of its namespace, nothing else does, and each workflow is
\* announced as new at most once.
THEOREM RepeatedStartsAgree == ApiSpec => []StartsAgree
<1>1. ApiInv => StartsAgree
  <2> SUFFICES ASSUME ApiInv,
                      NEW x \in answers, x.request.op = "start", x.status \in Success,
                      NEW y \in answers, y.request.op = "start", y.status \in Success, x # y
               PROVE  /\ x.id = y.id <=>
                           /\ <<x.request.body.def.namespace, x.request.body.key>>
                                = <<y.request.body.def.namespace, y.request.body.key>>
                           /\ x.request.body.key # Empty
                      /\ x.id = y.id => ~(x.status = 201 /\ y.status = 201)
    BY DEF StartsAgree
  <2>1. ASSUME NEW z \in answers, z.request.op = "start", z.status \in Success
        PROVE  IF z.request.body.key = Empty
               THEN z.status = 201 /\ \A k \in keys : k.workflow # z.id
               ELSE \E k \in keys : /\ k.namespace = z.request.body.def.namespace
                                    /\ k.key = z.request.body.key /\ k.workflow = z.id
    BY <2>1 DEF ApiInv, AnswersInv, TrueOf, Named
  <2>2. x.id = y.id => ~(x.status = 201 /\ y.status = 201)
    BY DEF ApiInv, AnswersInv, SameGrant
  <2>3. \A k, l \in keys :
          (k.workflow = l.workflow \/ (k.namespace = l.namespace /\ k.key = l.key)) => k = l
    BY DEF ApiInv, KeysInv
  <2>4. ASSUME x.id = y.id
        PROVE  /\ x.request.body.def.namespace = y.request.body.def.namespace
               /\ x.request.body.key = y.request.body.key /\ x.request.body.key # Empty
    <3>1. x.request.body.key # Empty /\ y.request.body.key # Empty
      BY <2>1, <2>2, <2>4
    <3> QED
      BY <2>1, <2>3, <2>4, <3>1
  <2>5. ASSUME x.request.body.def.namespace = y.request.body.def.namespace,
               x.request.body.key = y.request.body.key, x.request.body.key # Empty
        PROVE  x.id = y.id
    BY <2>1, <2>3, <2>5
  <2> QED
    BY <2>2, <2>4, <2>5
<1> QED
  BY <1>1, ApiAlways, PTL

=============================================================================
