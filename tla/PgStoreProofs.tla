---------------------------- MODULE PgStoreProofs ----------------------------
(* Theorems about PgStore and what is read from it, for any number of       *)
(* sessions, workers and workflows and any plan of activities.              *)
EXTENDS PgRead, FiniteSetTheorems, TLAPS

-----------------------------------------------------------------------------
(* A transaction under way.  The committed tables only say what they should *)
(* if every uncommitted version of a row is one transition away from the    *)
(* committed one, whatever else is committed meanwhile.                     *)

LeaseOps == {"Heartbeat", "Complete", "Fail"}
WorkflowStatus == {"running", "completed", "failed", "cancelled"}

\* Where each method can be.
Place(t) ==
  \/ t = Idle
  \/ t.op = "Claim" /\ t.pc \in {"log", "commit"}
  \/ t.op \in LeaseOps /\ t.pc \in {"lock", "write", "stale", "commit"}
  \/ t.op = "Complete" /\ t.pc \in {"release", "promote", "promoted", "finish", "close"}
  \/ t.op = "Cancel" /\ t.pc \in {"drop", "dropped", "commit"}
  \/ /\ t.op = "RunSchedulerPass"
     /\ t.pc \in {"expire", "expired", "release", "promote", "promoted", "commit"}

\* What a method may make of a row.
Moves(op, a, old, new) ==
  \/ op \in LeaseOps /\ old.status = "running" /\ new = old
  \/ /\ op = "Claim" /\ old.status = "ready" /\ new.status = "running"
     /\ new.token = old.token + 1 /\ new.attempt = old.attempt + 1 /\ new.owner \in Workers
  \/ /\ new.token = old.token /\ new.attempt = old.attempt
     /\ \/ /\ op = "Heartbeat" /\ old.status = "running" /\ new.status = "running"
           /\ new.owner = old.owner
        \/ /\ op = "Complete" /\ old.status = "running" /\ new.status = "completed"
           /\ new.owner = NoOwner
        \/ /\ op = "Fail" /\ old.status = "running" /\ new.owner = NoOwner
           /\ \/ new.status = "failed"
              \/ new.status = "retry_pending" /\ old.attempt < Plan[a].maxAttempts
        \/ /\ op = "Cancel" /\ Pending(old) /\ new.status = "cancelled"
           /\ new.owner = old.owner
        \/ /\ op = "RunSchedulerPass" /\ old.status = "running" /\ new.owner = NoOwner
           /\ new.status = IF old.attempt < Plan[a].maxAttempts THEN "ready" ELSE "failed"
        \/ /\ op \in {"Complete", "RunSchedulerPass"} /\ old.status = "retry_pending"
           /\ new.status = "ready" /\ new.owner = old.owner

IsTx(t) ==
  t = [op |-> t.op, pc |-> t.pc, claim |-> t.claim, retryable |-> t.retryable, at |-> t.at,
       rows |-> t.rows, wfs |-> t.wfs, keyshare |-> t.keyshare, todo |-> t.todo,
       hit |-> t.hit, log |-> t.log]

Shape(t) ==
  /\ IsTx(t)
  /\ t.at \in Nat /\ t.retryable \in BOOLEAN
  /\ t.todo \subseteq Activities /\ t.hit \subseteq DOMAIN t.rows
  /\ DOMAIN t.rows \subseteq Activities /\ DOMAIN t.wfs \subseteq Workflows
  /\ \A w \in DOMAIN t.wfs : t.wfs[w] \in WorkflowStatus

RowsMoved(t) ==
  \A a \in DOMAIN t.rows : t.rows[a] \in Rows /\ Moves(t.op, a, activities[a], t.rows[a])

\* After lockActivity: the session has the row as it is committed.
RowLocked(t) ==
  /\ t.pc = "lock" => DOMAIN t.rows = {}
  /\ t.pc \in {"write", "stale"} =>
       /\ DOMAIN t.rows = {t.claim.activity}
       /\ t.rows[t.claim.activity] = activities[t.claim.activity]

ClaimKnown(t) == t.op \in LeaseOps => t.claim \in claims

SequencesDrawn(t) == \A e \in t.log : e.sequence \in 1 .. nextSequence

RowInv(t) ==
  /\ Shape(t) /\ Place(t) /\ RowsMoved(t) /\ RowLocked(t) /\ ClaimKnown(t) /\ SequencesDrawn(t)

\* Row locks exclude each other.
RowsExclusive ==
  \A p, q \in Sessions : p # q => DOMAIN tx[p].rows \cap DOMAIN tx[q].rows = {}

\* All events, committed or not, and that no two share a number.
Inserted == events \cup UNION {tx[p].log : p \in Sessions}
NumbersUnique == \A e, f \in Inserted : e.sequence = f.sequence => e = f

\* What is waiting has budget left.
BudgetLeft ==
  \A a \in Activities : Pending(activities[a]) => activities[a].attempt < Plan[a].maxAttempts

Transactions ==
  /\ tx = [p \in Sessions |-> tx[p]]
  /\ \A p \in Sessions : RowInv(tx[p])
  /\ RowsExclusive /\ NumbersUnique

StoreInv == TypeOK /\ LeaseHolderIsLatestClaim /\ BudgetLeft /\ Transactions

-----------------------------------------------------------------------------
(* The log.                                                                *)

IsMove(e) == e.type \in DOMAIN StatusAfter
MovesOf(log, a) == {e \in log : e.subject = a /\ IsMove(e)}
ClaimsOf(log, a) == {e \in log : e.subject = a /\ e.type = "activity.claimed"}

\* Statements have visited and logged all their rows before the next one.
Finished(t) ==
  /\ t.pc \notin {"expire", "promote", "drop"} => t.todo = {}
  /\ t.pc \notin {"expire", "expired", "promote", "promoted", "drop", "dropped"} => t.hit = {}

\* A row was updated and its event is still to be written.
Unlogged(t, a) == a \in t.hit \/ (t.op = "Claim" /\ t.pc = "log")

\* Which rows a method has, and what it has made of those it has still to log.
Holdings(t) ==
  /\ t.op = "Claim" => \E a \in Activities : DOMAIN t.rows = {a}
  /\ t.pc \in {"promote", "promoted"} => \A a \in t.hit : t.rows[a].status = "ready"
  /\ t.op = "Cancel" => \A w \in DOMAIN t.wfs : \A a \in t.todo \cup DOMAIN t.rows : WorkflowOf(a) = w

\* An uncommitted event tells the transition of a row the session holds, and
\* has a higher number than all that is committed of the activity.
Told(t, e) ==
  /\ e.subject \in DOMAIN t.rows /\ ~Unlogged(t, e.subject)
  /\ e.workflow = WorkflowOf(e.subject)
  /\ t.rows[e.subject].status = StatusAfter[e.type]
  /\ e.type = "activity.claimed" <=> t.op = "Claim"
  /\ \A f \in MovesOf(events, e.subject) : f.sequence < e.sequence

LoggedMoves(t) ==
  /\ \A e \in t.log : IsMove(e) => Told(t, e)
  /\ \A e, f \in t.log : IsMove(e) /\ IsMove(f) /\ e.subject = f.subject => e = f

\* Every transition is logged before the commit.
MovesLogged(t) ==
  \A a \in DOMAIN t.rows : t.rows[a].status # activities[a].status =>
    Unlogged(t, a) \/ MovesOf(t.log, a) # {}

LogInv(t) == Finished(t) /\ Holdings(t) /\ LoggedMoves(t) /\ MovesLogged(t)

\* The events of log tell how a came to be in row.
Explains(log, a, row) ==
  /\ \A e \in MovesOf(log, a) :
       (\A f \in MovesOf(log, a) : f.sequence <= e.sequence) => row.status = StatusAfter[e.type]
  /\ IsFiniteSet(ClaimsOf(log, a)) /\ row.attempt = Cardinality(ClaimsOf(log, a))
  /\ MovesOf(log, a) = {} => row.status \in {"ready", "retry_pending"} /\ row.attempt = 0

CommittedLog ==
  /\ \A a \in Activities : Explains(events, a, activities[a])
  /\ \A e \in events : IsMove(e) => e.workflow = WorkflowOf(e.subject)

HistoryInv == CommittedLog /\ \A p \in Sessions : LogInv(tx[p])

-----------------------------------------------------------------------------
(* The workflows.                                                          *)

Of(w) == {a \in Activities : WorkflowOf(a) = w}

\* What t reads.
RowOf(t, a) == IF a \in DOMAIN t.rows THEN t.rows[a] ELSE activities[a]

\* The session that is about to write the status of a workflow has seen why.
StatusWritten(t) ==
  /\ t.op \in LeaseOps \cup {"Claim"} /\ t.pc # "commit" => DOMAIN t.wfs = {}
  /\ \A w \in DOMAIN t.wfs :
       \/ /\ t.wfs[w] = "cancelled" /\ t.op = "Cancel" /\ workflows[w] = "running"
       \/ /\ t.wfs[w] = "completed" /\ t.op = "Complete" /\ workflows[w] = "running"
          /\ w = WorkflowOf(t.claim.activity)
          /\ \A a \in Of(w) : RowOf(t, a).status = "completed"
       \/ /\ t.wfs[w] = "failed" /\ t.op \in {"Fail", "RunSchedulerPass"}
          /\ \E a \in Of(w) \cap DOMAIN t.rows : t.rows[a].status = "failed" /\ a \notin t.hit

\* A failed row comes with its workflow.
StatusFollows(t) ==
  \A a \in DOMAIN t.rows :
    t.rows[a].status = "failed" /\ a \notin t.hit =>
      WorkflowOf(a) \in DOMAIN t.wfs /\ t.wfs[WorkflowOf(a)] = "failed"

\* Complete holds the row it has completed, and before it closes the workflow
\* all others are committed as completed.
Closing(t) ==
  /\ t.pc \in {"release", "promote", "promoted", "finish", "close"} /\ t.op = "Complete" =>
       /\ t.claim.activity \in DOMAIN t.rows
       /\ t.rows[t.claim.activity].status = "completed"
  /\ t.pc = "close" => \A a \in Of(WorkflowOf(t.claim.activity)) : RowOf(t, a).status = "completed"

\* What Cancel has not given up yet it has still to visit.
Cancelling(t) ==
  t.op = "Cancel" =>
    /\ \E w \in Workflows : DOMAIN t.wfs = {w} /\ t.wfs[w] = "cancelled"
    /\ \A w \in DOMAIN t.wfs : \A a \in Of(w) :
         activities[a].attempt = 0 =>
           a \in t.todo \cup DOMAIN t.rows \/ activities[a].status = "cancelled"

TxStatus(t) == StatusWritten(t) /\ StatusFollows(t) /\ Closing(t) /\ Cancelling(t)

\* The last event of a workflow that is being completed is there.
Closed(w, log) ==
  \E e \in log : /\ e.subject = w /\ e.type = "workflow.completed"
                 /\ \A f \in Inserted : f.workflow = w => f.sequence <= e.sequence

ClosedInLog(t) == \A w \in DOMAIN t.wfs : t.wfs[w] = "completed" => Closed(w, t.log)

WorkflowsExclusive ==
  \A p, q \in Sessions : p # q => DOMAIN tx[p].wfs \cap DOMAIN tx[q].wfs = {}

\* What has left the queue was claimed.
Started ==
  \A a \in Activities :
    activities[a].status \in {"running", "completed", "failed"} => activities[a].attempt > 0

StatusInv ==
  /\ WorkflowStatusExplained /\ CancelStopsUnstarted /\ Started /\ WorkflowsExclusive
  /\ \A w \in Workflows : workflows[w] = "completed" => Closed(w, events)
  /\ \A p \in Sessions : TxStatus(tx[p]) /\ ClosedInLog(tx[p])

-----------------------------------------------------------------------------
(* What is read.                                                           *)

\* What becomes of a workflow that has settled.
Follows(old, new) ==
  /\ old \in {"completed", "failed"} => new = old
  /\ old = "cancelled" => new \in {"cancelled", "failed"}

\* Nothing of w is waiting for its first attempt.
UnstartedGone(w) ==
  \A a \in Of(w) : activities[a].attempt = 0 => activities[a].status = "cancelled"

\* The moves of an activity, if any, have a last one.
LastMove(log, a) ==
  MovesOf(log, a) = {} \/ \E e \in MovesOf(log, a) : \A f \in MovesOf(log, a) : f.sequence <= e.sequence

ClaimsUpTo(log, a, n) == {f \in MovesOf(log, a) : f.sequence <= n /\ f.type = "activity.claimed"}

\* Some point of the history of a has the status and the attempts of row.
Reaches(log, a, row) ==
  \/ row.attempt = 0 /\ row.status \in {"ready", "retry_pending"}
  \/ \E e \in MovesOf(log, a) : /\ StatusAfter[e.type] = row.status
                                /\ Cardinality(ClaimsUpTo(log, a, e.sequence)) = row.attempt

\* The activities read fit the status read before them.
Fits(status, w, rows) ==
  /\ status = "completed" => {rows[a].status : a \in Of(w)} = {"completed"}
  /\ status = "failed" => "failed" \in {rows[a].status : a \in Of(w)}
  /\ status = "cancelled" => \A a \in Of(w) : rows[a].attempt = 0 => rows[a].status = "cancelled"

\* What is in the view after each statement, and what the tables still owe it.
ViewInv(v) ==
  /\ v.todo \in {workflowTx, <<"activities", "events">>, <<"events">>, <<>>}
  /\ v.todo = workflowTx => Follows(v.listed, workflows[v.id])
  /\ v.todo # workflowTx => Follows(v.listed, v.workflow)
  /\ v.todo = <<"activities", "events">> =>
       /\ Follows(v.workflow, workflows[v.id])
       /\ v.workflow = "cancelled" => UnstartedGone(v.id)
  /\ v.todo \in {<<"events">>, <<>>} =>
       DOMAIN v.activities = Of(v.id) /\ Fits(v.workflow, v.id, v.activities)
  /\ v.todo = <<"events">> => \A a \in Of(v.id) : Reaches(events, a, v.activities[a])
  /\ v.todo = <<>> => \A a \in Of(v.id) : Reaches(v.events, a, v.activities[a])

IsView(v) ==
  v = [todo |-> v.todo, id |-> v.id, listed |-> v.listed, workflow |-> v.workflow,
       activities |-> v.activities, events |-> v.events]

ReadInv ==
  /\ \A a \in Activities : LastMove(events, a)
  /\ view = NoView \/ (IsView(view) /\ view.id \in Workflows /\ ViewInv(view))

-----------------------------------------------------------------------------
(* The operators transactions are written with.                            *)

\* g is f with v at x.
IsPut(g, f, x, v) ==
  /\ DOMAIN g = DOMAIN f \cup {x} /\ g[x] = v
  /\ \A y \in DOMAIN f : y # x => g[y] = f[y]

\* Put changes the function at one point.
LEMMA PutRow ==
  ASSUME NEW f, NEW x, NEW v
  PROVE  IsPut(Put(f, x, v), f, x, v)
BY DEF Put, IsPut

\* A session without a transaction holds nothing.
LEMMA EmptyTx ==
  /\ IsTx(Idle) /\ Idle.op = "none" /\ Idle.pc = "idle" /\ Idle.retryable = FALSE /\ Idle.at = 0
  /\ Idle.claim = <<>> /\ DOMAIN Idle.rows = {} /\ DOMAIN Idle.wfs = {} /\ Idle.keyshare = {}
  /\ Idle.todo = {} /\ Idle.hit = {} /\ Idle.log = {}
BY DEF Idle, IsTx

\* A transaction that has just begun.
IsFresh(t, op, pc) ==
  /\ IsTx(t) /\ t.op = op /\ t.pc = pc /\ t.retryable \in BOOLEAN /\ t.at = now
  /\ DOMAIN t.rows = {} /\ DOMAIN t.wfs = {} /\ t.keyshare = {}
  /\ t.todo = {} /\ t.hit = {} /\ t.log = {}

\* A transaction begins with nothing locked, written or logged.
LEMMA BegunTx ==
  ASSUME NEW op, NEW pc
  PROVE  IsFresh(Begin(op, pc), op, pc)
<1> DEFINE t == Begin(op, pc)
<1>1. t = [Idle EXCEPT !.op = op, !.pc = pc, !.at = now]
  BY DEF Begin
<1>2. IsTx(Idle)
  BY EmptyTx
<1> HIDE DEF t
<1>3. IsTx(t)
  BY <1>1, <1>2 DEF IsTx
<1>4. /\ t.op = op /\ t.pc = pc /\ t.retryable = Idle.retryable /\ t.at = now
      /\ t.rows = Idle.rows /\ t.wfs = Idle.wfs
      /\ t.keyshare = Idle.keyshare /\ t.todo = Idle.todo /\ t.hit = Idle.hit /\ t.log = Idle.log
  BY <1>1, <1>2 DEF IsTx
<1>5. IsFresh(t, op, pc)
  BY <1>3, <1>4, EmptyTx DEF IsFresh
<1> QED
  BY <1>5 DEF t

\* t and u agree in all but the places named.
SameButPc(t, u) ==
  /\ u.op = t.op /\ u.claim = t.claim /\ u.retryable = t.retryable /\ u.at = t.at
  /\ u.rows = t.rows /\ u.wfs = t.wfs /\ u.keyshare = t.keyshare /\ u.todo = t.todo
  /\ u.hit = t.hit /\ u.log = t.log

SameButLog(t, u) ==
  /\ u.op = t.op /\ u.pc = t.pc /\ u.claim = t.claim /\ u.retryable = t.retryable /\ u.at = t.at
  /\ u.rows = t.rows /\ u.wfs = t.wfs /\ u.todo = t.todo /\ u.hit = t.hit

MovedTo(t, u, pc) == IsTx(u) /\ SameButPc(t, u) /\ u.pc = pc

\* Going to another statement leaves the rest of the transaction alone.
LEMMA AtPlace ==
  ASSUME NEW t, IsTx(t), NEW pc
  PROVE  MovedTo(t, [t EXCEPT !.pc = pc], pc)
BY DEF IsTx, SameButPc, MovedTo

\* The place after a statement at pc, with the given rows to visit and to log.
PlaceAfter(pc, todo, hit, op) ==
  CASE pc = "expire" /\ todo = {} /\ hit # {} -> "expired"
    [] pc = "promote" /\ todo = {} /\ hit # {} -> "promoted"
    [] pc = "drop" /\ todo = {} -> "dropped"
    [] pc \in {"expire", "expired"} /\ todo = {} /\ hit = {} -> "release"
    [] pc \in {"promote", "promoted"} /\ todo = {} /\ hit = {} ->
         IF op = "Complete" THEN "finish" ELSE "commit"
    [] OTHER -> pc

NextPlace(t) == PlaceAfter(t.pc, t.todo, t.hit, t.op)

\* Onward only goes on to the next statement, the one NextPlace names.
LEMMA OnwardTx ==
  ASSUME NEW t, IsTx(t)
  PROVE  MovedTo(t, Onward(t), NextPlace(t))
<1>1. CASE t.pc = "expire"
  BY <1>1 DEF Onward, IsTx, SameButPc, NextPlace, PlaceAfter, MovedTo
<1>2. CASE t.pc = "promote"
  BY <1>2 DEF Onward, IsTx, SameButPc, NextPlace, PlaceAfter, MovedTo
<1>3. CASE t.pc = "drop"
  BY <1>3 DEF Onward, IsTx, SameButPc, NextPlace, PlaceAfter, MovedTo
<1>4. CASE t.pc \in {"expired", "promoted"}
  BY <1>4 DEF Onward, IsTx, SameButPc, NextPlace, PlaceAfter, MovedTo
<1>5. CASE t.pc \notin {"expire", "promote", "drop", "expired", "promoted"}
  BY <1>5 DEF Onward, IsTx, SameButPc, NextPlace, PlaceAfter, MovedTo
<1> QED
  BY <1>1, <1>2, <1>3, <1>4, <1>5

Entry(n, w, s, type) == [sequence |-> n, workflow |-> w, subject |-> s, type |-> type]

WithEntries(t, w, u, new) ==
  IsTx(u) /\ SameButLog(t, u) /\ u.keyshare = t.keyshare \cup {w} /\ u.log = t.log \cup new

\* appendEvent draws the next number and takes KEY SHARE.
LEMMA LoggedOne ==
  ASSUME NEW t, IsTx(t), NEW w, NEW s, NEW type
  PROVE  WithEntries(t, w, Logged(t, w, <<<<s, type>>>>), {Entry(nextSequence + 1, w, s, type)})
<1> DEFINE entries == <<<<s, type>>>>
           new == {Entry(nextSequence + i, w, entries[i][1], entries[i][2]) : i \in DOMAIN entries}
<1>1. DOMAIN entries = {1} /\ entries[1][1] = s /\ entries[1][2] = type
  OBVIOUS
<1>2. new = {Entry(nextSequence + 1, w, s, type)}
  BY <1>1
<1>3. Logged(t, w, entries) = [t EXCEPT !.keyshare = @ \cup {w}, !.log = @ \cup new]
  BY DEF Logged, Entry
<1> HIDE DEF entries, new
<1>4. WithEntries(t, w, Logged(t, w, entries), new)
  BY <1>3 DEF IsTx, SameButLog, WithEntries
<1> QED
  BY <1>2, <1>4 DEF entries

\* Two events draw the next two numbers.
LEMMA LoggedTwo ==
  ASSUME NEW t, IsTx(t), NEW w, NEW s1, NEW s2, NEW type1, NEW type2
  PROVE  WithEntries(t, w, Logged(t, w, <<<<s1, type1>>, <<s2, type2>>>>),
                     {Entry(nextSequence + 1, w, s1, type1), Entry(nextSequence + 2, w, s2, type2)})
<1> DEFINE entries == <<<<s1, type1>>, <<s2, type2>>>>
           new == {Entry(nextSequence + i, w, entries[i][1], entries[i][2]) : i \in DOMAIN entries}
<1>1. /\ DOMAIN entries = {1, 2} /\ entries[1][1] = s1 /\ entries[1][2] = type1
      /\ entries[2][1] = s2 /\ entries[2][2] = type2
  OBVIOUS
<1>2. new = {Entry(nextSequence + 1, w, s1, type1), Entry(nextSequence + 2, w, s2, type2)}
  BY <1>1
<1>3. Logged(t, w, entries) = [t EXCEPT !.keyshare = @ \cup {w}, !.log = @ \cup new]
  BY DEF Logged, Entry
<1> HIDE DEF entries, new
<1>4. WithEntries(t, w, Logged(t, w, entries), new)
  BY <1>3 DEF IsTx, SameButLog, WithEntries
<1> QED
  BY <1>2, <1>4 DEF entries

-----------------------------------------------------------------------------
(* Steps of a transaction that commit nothing.                             *)

\* The transaction of p becomes t: it keeps its locks or drops all, takes
\* only rows that are free, and numbers what it logs with numbers drawn now.
RowStep(p, t) ==
  /\ Becomes(p, t) /\ UNCHANGED <<now, workflows, activities, events, claims>>
  /\ aborts' \in 0 .. MaxAborts
  /\ nextSequence' \in Nat /\ nextSequence <= nextSequence'
  /\ Shape(t) /\ Place(t) /\ RowsMoved(t) /\ RowLocked(t) /\ ClaimKnown(t)
  /\ \A a \in DOMAIN t.rows \ DOMAIN tx[p].rows : RowFree(p, a)
  /\ \A e \in t.log \ tx[p].log : e.sequence \in nextSequence + 1 .. nextSequence'
  /\ \A e, f \in t.log \ tx[p].log : e.sequence = f.sequence => e = f

\* A step of one transaction keeps the invariant if it locks only free rows,
\* numbers its events afresh and stays one transition from what is committed.
LEMMA RowStepKeeps ==
  ASSUME StoreInv, NEW p \in Sessions, NEW t, RowStep(p, t)
  PROVE  StoreInv'
<1>1. tx' = [q \in Sessions |-> IF q = p THEN t ELSE tx[q]]
  BY DEF RowStep, Becomes, StoreInv, Transactions
<1>2. /\ now' = now /\ workflows' = workflows /\ activities' = activities /\ events' = events
      /\ claims' = claims /\ nextSequence \in Nat /\ nextSequence' \in Nat
      /\ nextSequence <= nextSequence'
  BY DEF RowStep, StoreInv, TypeOK
<1>3. \A q \in Sessions : DOMAIN tx'[q].rows \subseteq Activities /\ DOMAIN tx'[q].wfs \subseteq Workflows
  BY <1>1 DEF RowStep, Shape, StoreInv, TypeOK
<1>4. TypeOK'
  <2>1. \A e \in events : e.sequence \in 1 .. nextSequence'
    BY <1>2 DEF StoreInv, TypeOK
  <2> QED
    BY <1>2, <1>3, <2>1 DEF RowStep, StoreInv, TypeOK
<1>5. LeaseHolderIsLatestClaim' /\ BudgetLeft'
  BY <1>2 DEF StoreInv, LeaseHolderIsLatestClaim, BudgetLeft, Pending
<1>6. \A e \in t.log : e \in tx[p].log \/ e.sequence \in nextSequence + 1 .. nextSequence'
  BY DEF RowStep
<1>7. \A e \in Inserted : e.sequence \in 1 .. nextSequence
  BY DEF StoreInv, Transactions, RowInv, SequencesDrawn, TypeOK, Inserted
<1>8. \A q \in Sessions : SequencesDrawn(tx[q])
  BY DEF StoreInv, Transactions, RowInv
<1>9. \A q \in Sessions : RowInv(tx[q])'
  <2> TAKE q \in Sessions
  <2>1. CASE q = p
    <3>1. tx'[q] = t
      BY <1>1, <2>1
    <3>2. \A e \in t.log : e.sequence \in 1 .. nextSequence'
      BY <1>2, <1>6, <1>8 DEF SequencesDrawn
    <3> QED
      BY <1>2, <3>1, <3>2 DEF RowStep, RowInv, Shape, Place, RowsMoved, RowLocked, ClaimKnown,
                              SequencesDrawn
  <2>2. CASE q # p
    <3>1. tx'[q] = tx[q] /\ RowInv(tx[q])
      BY <1>1, <2>2 DEF StoreInv, Transactions
    <3>2. \A e \in tx[q].log : e.sequence \in 1 .. nextSequence'
      BY <1>2, <1>8 DEF SequencesDrawn
    <3> QED
      BY <1>2, <3>1, <3>2 DEF RowInv, Shape, Place, RowsMoved, RowLocked, ClaimKnown,
                              SequencesDrawn
  <2> QED
    BY <2>1, <2>2
<1>10. RowsExclusive'
  <2>1. \A q \in Sessions : q # p => DOMAIN t.rows \cap DOMAIN tx[q].rows = {}
    BY DEF RowStep, RowFree, Others, StoreInv, Transactions, RowsExclusive
  <2> QED
    BY <1>1, <2>1 DEF StoreInv, Transactions, RowsExclusive
<1>11. NumbersUnique'
  <2> SUFFICES ASSUME NEW e \in Inserted', NEW f \in Inserted', e.sequence = f.sequence
               PROVE  e = f
    BY DEF NumbersUnique
  <2>1. \A x \in Inserted' : x \in Inserted \/ x \in t.log \ tx[p].log
    BY <1>1, <1>2 DEF Inserted
  <2>2. \A x \in t.log \ tx[p].log : x.sequence \in nextSequence + 1 .. nextSequence'
    BY <1>6
  <2>3. CASE e \in Inserted /\ f \in Inserted
    BY <2>3 DEF StoreInv, Transactions, NumbersUnique
  <2>4. CASE e \in t.log \ tx[p].log /\ f \in t.log \ tx[p].log
    BY <2>4 DEF RowStep
  <2>5. ~(e \in Inserted /\ f \in t.log \ tx[p].log) /\ ~(f \in Inserted /\ e \in t.log \ tx[p].log)
    BY <1>2, <1>7, <2>2
  <2> QED
    BY <2>1, <2>3, <2>4, <2>5
<1>12. tx' = [q \in Sessions |-> tx'[q]]
  BY <1>1
<1> QED
  BY <1>4, <1>5, <1>9, <1>10, <1>11, <1>12 DEF StoreInv, Transactions

-----------------------------------------------------------------------------
(* What each statement makes of its transaction.                           *)

SameCall(u, t) ==
  IsTx(t) /\ t.op = u.op /\ t.claim = u.claim /\ t.retryable = u.retryable /\ t.at = u.at
SameTables(u, t) == t.rows = u.rows /\ t.wfs = u.wfs
SameLoop(u, t) == t.todo = u.todo /\ t.hit = u.hit
Silent(u, t) == t.keyshare = u.keyshare /\ t.log = u.log
Logs(u, t, w, new) == t.keyshare = u.keyshare \cup {w} /\ t.log = u.log \cup new

\* The claim's workflow and activity.
Subject(p) == tx[p].claim.activity
SubjectWorkflow(p) == WorkflowOf(Subject(p))

Begun(t, op) ==
  /\ IsTx(t) /\ t.op = op /\ t.at = now /\ t.retryable \in BOOLEAN
  /\ t.keyshare = {} /\ t.hit = {} /\ t.log = {}

Picked(p, a, worker, t) ==
  /\ tx[p].pc = "idle" /\ a \in Pickable(p, worker)
  /\ Begun(t, "Claim") /\ t.pc = "log" /\ t.todo = {} /\ DOMAIN t.wfs = {}
  /\ DOMAIN t.rows = {a}
  /\ t.rows[a] = [activities[a] EXCEPT !.status = "running", !.attempt = @ + 1, !.owner = worker,
                                       !.token = @ + 1, !.expires = now + leaseSeconds]

Called(p, op, c, t) ==
  /\ tx[p].pc = "idle"
  /\ Begun(t, op) /\ t.pc = "lock" /\ t.claim = c
  /\ t.todo = {} /\ DOMAIN t.wfs = {} /\ DOMAIN t.rows = {}

CancelBegun(p, w, t) ==
  /\ tx[p].pc = "idle" /\ UpdateFree(p, w) /\ workflows[w] = "running"
  /\ Begun(t, "Cancel") /\ t.pc = PlaceAfter("drop", t.todo, t.hit, t.op)
  /\ t.todo = {a \in Activities : WorkflowOf(a) = w /\ Pending(activities[a])}
  /\ DOMAIN t.rows = {} /\ DOMAIN t.wfs = {w} /\ t.wfs[w] = "cancelled"

SchedulerBegun(p, t) ==
  /\ tx[p].pc = "idle"
  /\ Begun(t, "RunSchedulerPass") /\ t.pc = PlaceAfter("expire", t.todo, t.hit, t.op)
  /\ t.todo \subseteq Activities
  /\ DOMAIN t.rows = {} /\ DOMAIN t.wfs = {}

Locked(p, t) ==
  LET a == Subject(p)
  IN /\ tx[p].pc = "lock" /\ RowFree(p, a) /\ activities[a].status = "running"
     /\ t.pc = IF currentLease(p, activities[a]) THEN "write" ELSE "stale"
     /\ SameCall(tx[p], t) /\ SameLoop(tx[p], t) /\ Silent(tx[p], t)
     /\ t.wfs = tx[p].wfs /\ IsPut(t.rows, tx[p].rows, a, activities[a])

\* One event, and the tables as they were.
Noted(p, pc, a, type, t) ==
  /\ tx[p].pc = pc /\ KeyShareFree(p, WorkflowOf(a)) /\ t.pc = "commit"
  /\ SameCall(tx[p], t) /\ SameTables(tx[p], t) /\ SameLoop(tx[p], t)
  /\ Logs(tx[p], t, WorkflowOf(a), {Entry(nextSequence + 1, WorkflowOf(a), a, type)})

\* A result: the claim's row becomes row, and one event says so.
RowWritten(p, op, row, type, pc, t) ==
  /\ At(p, op, "write") /\ KeyShareFree(p, SubjectWorkflow(p)) /\ t.pc = pc
  /\ SameCall(tx[p], t) /\ SameLoop(tx[p], t) /\ t.wfs = tx[p].wfs
  /\ IsPut(t.rows, tx[p].rows, Subject(p), row)
  /\ Logs(tx[p], t, SubjectWorkflow(p),
          {Entry(nextSequence + 1, SubjectWorkflow(p), Subject(p), type)})

FailedFinally(p, t) ==
  LET a == Subject(p)
      w == SubjectWorkflow(p)
  IN /\ At(p, "Fail", "write") /\ NoKeyFree(p, w) /\ t.pc = "commit"
     /\ SameCall(tx[p], t) /\ SameLoop(tx[p], t)
     /\ IsPut(t.rows, tx[p].rows, a, Freed(Row(p, a), "failed"))
     /\ IsPut(t.wfs, tx[p].wfs, w, "failed")
     /\ Logs(tx[p], t, w, {Entry(nextSequence + 1, w, a, "activity.failed"),
                           Entry(nextSequence + 2, w, w, "workflow.failed")})

ReleaseBegun(p, t) ==
  /\ tx[p].pc = "release" /\ t.pc = PlaceAfter("promote", t.todo, t.hit, t.op)
  /\ SameCall(tx[p], t) /\ SameTables(tx[p], t) /\ Silent(tx[p], t) /\ t.hit = tx[p].hit
  /\ t.todo = {a \in Activities : /\ WorkflowOf(a) \in Scope(p)
                                  /\ Row(p, a).status = "retry_pending"
                                  /\ Row(p, a).nextAt <= tx[p].at
                                  /\ dependenciesComplete(p, a)}

RowVisited(p, pc, a, row, t) ==
  /\ tx[p].pc = pc /\ a \in tx[p].todo /\ RowFree(p, a)
  /\ t.pc = PlaceAfter(pc, t.todo, t.hit, t.op)
  /\ SameCall(tx[p], t) /\ Silent(tx[p], t) /\ t.wfs = tx[p].wfs
  /\ t.todo = tx[p].todo \ {a} /\ t.hit = tx[p].hit \cup {a}
  /\ IsPut(t.rows, tx[p].rows, a, row)

RowSkipped(p, pc, a, t) ==
  /\ tx[p].pc = pc /\ a \in tx[p].todo
  /\ t.pc = PlaceAfter(pc, t.todo, t.hit, t.op)
  /\ SameCall(tx[p], t) /\ Silent(tx[p], t) /\ SameTables(tx[p], t)
  /\ t.todo = tx[p].todo \ {a} /\ t.hit = tx[p].hit

\* A row of the loop that logs: hit shrinks, and the events are written.
HitLogged(p, pc, a, new, t) ==
  /\ tx[p].pc = pc /\ a \in tx[p].hit
  /\ t.pc = PlaceAfter(pc, t.todo, t.hit, t.op)
  /\ SameCall(tx[p], t) /\ t.rows = tx[p].rows
  /\ t.todo = tx[p].todo /\ t.hit = tx[p].hit \ {a}
  /\ Logs(tx[p], t, WorkflowOf(a), new)

DoneChecked(p, t) ==
  LET w == SubjectWorkflow(p)
  IN /\ tx[p].pc = "finish"
     /\ t.pc = IF workflows[w] = "running" /\ AllCompleted(p, w) THEN "close" ELSE "commit"
     /\ SameCall(tx[p], t) /\ SameTables(tx[p], t) /\ SameLoop(tx[p], t) /\ Silent(tx[p], t)

Closes(p, t) ==
  LET w == SubjectWorkflow(p)
  IN /\ tx[p].pc = "close" /\ NoKeyFree(p, w) /\ workflows[w] = "running" /\ t.pc = "commit"
     /\ SameCall(tx[p], t) /\ SameLoop(tx[p], t)
     /\ t.rows = tx[p].rows /\ IsPut(t.wfs, tx[p].wfs, w, "completed")
     /\ Logs(tx[p], t, w, {Entry(nextSequence + 1, w, w, "workflow.completed")})

LeavesOpen(p, t) ==
  /\ tx[p].pc = "close" /\ workflows[SubjectWorkflow(p)] # "running" /\ t.pc = "commit"
  /\ SameCall(tx[p], t) /\ SameTables(tx[p], t) /\ SameLoop(tx[p], t) /\ Silent(tx[p], t)

CancelRowLogged(p, w, a, t) ==
  /\ tx[p].pc = "dropped" /\ a \in tx[p].hit /\ w \in DOMAIN tx[p].wfs
  /\ t.pc = "dropped"
  /\ SameCall(tx[p], t) /\ SameTables(tx[p], t)
  /\ t.todo = tx[p].todo /\ t.hit = tx[p].hit \ {a}
  /\ Logs(tx[p], t, w, {Entry(nextSequence + 1, w, a, "activity.cancelled")})

CancelDone(p, w, t) ==
  /\ tx[p].pc = "dropped" /\ tx[p].hit = {} /\ w \in DOMAIN tx[p].wfs
  /\ t.pc = "commit"
  /\ SameCall(tx[p], t) /\ SameTables(tx[p], t) /\ SameLoop(tx[p], t)
  /\ Logs(tx[p], t, w, {Entry(nextSequence + 1, w, w, "workflow.cancelled")})

CallOf(u, t, c, r) ==
  /\ IsTx(t) /\ t.op = u.op /\ t.pc = u.pc /\ t.at = u.at /\ t.retryable = r
  /\ t.rows = u.rows /\ t.wfs = u.wfs /\ t.keyshare = u.keyshare /\ t.claim = c
  /\ t.todo = u.todo /\ t.hit = u.hit /\ t.log = u.log

\* A worker call begins with its claim and whether it may be retried.
LEMMA CallTx ==
  ASSUME NEW u, IsTx(u), NEW c, NEW r
  PROVE  CallOf(u, [u EXCEPT !.claim = c, !.retryable = r], c, r)
<1> DEFINE t == [u EXCEPT !.claim = c, !.retryable = r]
<1>1. t = [u EXCEPT !.claim = c, !.retryable = r]
  OBVIOUS
<1> HIDE DEF t
<1>2. IsTx(t)
  BY <1>1 DEF IsTx
<1>3. /\ t.op = u.op /\ t.pc = u.pc /\ t.at = u.at /\ t.rows = u.rows /\ t.wfs = u.wfs
      /\ t.keyshare = u.keyshare /\ t.todo = u.todo /\ t.hit = u.hit /\ t.log = u.log
  BY <1>1 DEF IsTx
<1>4. t.retryable = r /\ t.claim = c
  BY <1>1 DEF IsTx
<1> QED
  BY <1>2, <1>3, <1>4 DEF CallOf, t

\* A row is written, the workflows and the log are not.
RowUpdated(u, t, pc, rows) ==
  /\ SameCall(u, t) /\ SameLoop(u, t) /\ Silent(u, t) /\ t.wfs = u.wfs
  /\ t.pc = pc /\ t.rows = rows

\* An UPDATE of one row.
LEMMA UpdateTx ==
  ASSUME NEW u, IsTx(u), NEW pc, NEW a, NEW row
  PROVE  RowUpdated(u, [u EXCEPT !.pc = pc, !.rows = Put(@, a, row)], pc, Put(u.rows, a, row))
<1> DEFINE t == [u EXCEPT !.pc = pc, !.rows = Put(@, a, row)]
<1>1. t = [u EXCEPT !.pc = pc, !.rows = Put(u.rows, a, row)]
  OBVIOUS
<1> HIDE DEF t
<1>2. IsTx(t)
  BY <1>1 DEF IsTx
<1>3. /\ t.op = u.op /\ t.claim = u.claim /\ t.retryable = u.retryable /\ t.at = u.at
      /\ t.wfs = u.wfs /\ t.keyshare = u.keyshare /\ t.todo = u.todo /\ t.hit = u.hit
      /\ t.log = u.log
  BY <1>1 DEF IsTx
<1>4. t.pc = pc /\ t.rows = Put(u.rows, a, row)
  BY <1>1 DEF IsTx
<1> QED
  BY <1>2, <1>3, <1>4 DEF RowUpdated, SameCall, SameLoop, Silent, t

\* t is u at pc, with the given tables and rows to visit and to log.
TxIs(t, u, pc, rows, wfs, todo, hit) ==
  /\ SameCall(u, t) /\ Silent(u, t)
  /\ t.pc = pc /\ t.rows = rows /\ t.wfs = wfs /\ t.todo = todo /\ t.hit = hit

\* A row of the loop that logs is done.
LEMMA HitTx ==
  ASSUME NEW u, IsTx(u), NEW a
  PROVE  TxIs([u EXCEPT !.hit = @ \ {a}], u, u.pc, u.rows, u.wfs, u.todo, u.hit \ {a})
<1> DEFINE t == [u EXCEPT !.hit = @ \ {a}]
<1>1. t = [u EXCEPT !.hit = u.hit \ {a}]
  OBVIOUS
<1> HIDE DEF t
<1>2. IsTx(t)
  BY <1>1 DEF IsTx
<1>3. /\ t.op = u.op /\ t.claim = u.claim /\ t.retryable = u.retryable /\ t.at = u.at
      /\ t.keyshare = u.keyshare /\ t.log = u.log
  BY <1>1 DEF IsTx
<1>4. /\ t.pc = u.pc /\ t.rows = u.rows /\ t.wfs = u.wfs /\ t.todo = u.todo
      /\ t.hit = u.hit \ {a}
  BY <1>1 DEF IsTx
<1> QED
  BY <1>2, <1>3, <1>4 DEF TxIs, SameCall, Silent, t

\* A row visited that no longer matches.
LEMMA TodoTx ==
  ASSUME NEW u, IsTx(u), NEW a
  PROVE  TxIs([u EXCEPT !.todo = @ \ {a}], u, u.pc, u.rows, u.wfs, u.todo \ {a}, u.hit)
<1> DEFINE t == [u EXCEPT !.todo = @ \ {a}]
<1>1. t = [u EXCEPT !.todo = u.todo \ {a}]
  OBVIOUS
<1> HIDE DEF t
<1>2. IsTx(t)
  BY <1>1 DEF IsTx
<1>3. /\ t.op = u.op /\ t.claim = u.claim /\ t.retryable = u.retryable /\ t.at = u.at
      /\ t.keyshare = u.keyshare /\ t.log = u.log
  BY <1>1 DEF IsTx
<1>4. /\ t.pc = u.pc /\ t.rows = u.rows /\ t.wfs = u.wfs /\ t.todo = u.todo \ {a}
      /\ t.hit = u.hit
  BY <1>1 DEF IsTx
<1> QED
  BY <1>2, <1>3, <1>4 DEF TxIs, SameCall, Silent, t

\* A row visited and updated.
LEMMA VisitTx ==
  ASSUME NEW u, IsTx(u), NEW a, NEW row
  PROVE  TxIs([u EXCEPT !.todo = @ \ {a}, !.hit = @ \cup {a}, !.rows = Put(@, a, row)], u, u.pc,
              Put(u.rows, a, row), u.wfs, u.todo \ {a}, u.hit \cup {a})
<1> DEFINE t == [u EXCEPT !.todo = @ \ {a}, !.hit = @ \cup {a}, !.rows = Put(@, a, row)]
<1>1. t = [u EXCEPT !.todo = u.todo \ {a}, !.hit = u.hit \cup {a}, !.rows = Put(u.rows, a, row)]
  OBVIOUS
<1> HIDE DEF t
<1>2. IsTx(t)
  BY <1>1 DEF IsTx
<1>3. /\ t.op = u.op /\ t.claim = u.claim /\ t.retryable = u.retryable /\ t.at = u.at
      /\ t.keyshare = u.keyshare /\ t.log = u.log
  BY <1>1 DEF IsTx
<1>4. /\ t.pc = u.pc /\ t.rows = Put(u.rows, a, row) /\ t.wfs = u.wfs /\ t.todo = u.todo \ {a}
      /\ t.hit = u.hit \cup {a}
  BY <1>1 DEF IsTx
<1> QED
  BY <1>2, <1>3, <1>4 DEF TxIs, SameCall, Silent, t

\* The status of a workflow is written.
LEMMA WorkflowTx ==
  ASSUME NEW u, IsTx(u), NEW w, NEW status
  PROVE  TxIs([u EXCEPT !.wfs = Put(@, w, status)], u, u.pc, u.rows, Put(u.wfs, w, status), u.todo, u.hit)
<1> DEFINE t == [u EXCEPT !.wfs = Put(@, w, status)]
<1>1. t = [u EXCEPT !.wfs = Put(u.wfs, w, status)]
  OBVIOUS
<1> HIDE DEF t
<1>2. IsTx(t)
  BY <1>1 DEF IsTx
<1>3. /\ t.op = u.op /\ t.claim = u.claim /\ t.retryable = u.retryable /\ t.at = u.at
      /\ t.keyshare = u.keyshare /\ t.log = u.log
  BY <1>1 DEF IsTx
<1>4. /\ t.pc = u.pc /\ t.rows = u.rows /\ t.wfs = Put(u.wfs, w, status) /\ t.todo = u.todo
      /\ t.hit = u.hit
  BY <1>1 DEF IsTx
<1> QED
  BY <1>2, <1>3, <1>4 DEF TxIs, SameCall, Silent, t

\* The status of a workflow is written by the last statement.
LEMMA CloseTx ==
  ASSUME NEW u, IsTx(u), NEW pc, NEW w, NEW status
  PROVE  TxIs([u EXCEPT !.pc = pc, !.wfs = Put(@, w, status)], u, pc, u.rows, Put(u.wfs, w, status), u.todo, u.hit)
<1> DEFINE t == [u EXCEPT !.pc = pc, !.wfs = Put(@, w, status)]
<1>1. t = [u EXCEPT !.pc = pc, !.wfs = Put(u.wfs, w, status)]
  OBVIOUS
<1> HIDE DEF t
<1>2. IsTx(t)
  BY <1>1 DEF IsTx
<1>3. /\ t.op = u.op /\ t.claim = u.claim /\ t.retryable = u.retryable /\ t.at = u.at
      /\ t.keyshare = u.keyshare /\ t.log = u.log
  BY <1>1 DEF IsTx
<1>4. /\ t.pc = pc /\ t.rows = u.rows /\ t.wfs = Put(u.wfs, w, status) /\ t.todo = u.todo
      /\ t.hit = u.hit
  BY <1>1 DEF IsTx
<1> QED
  BY <1>2, <1>3, <1>4 DEF TxIs, SameCall, Silent, t

\* A row and its workflow are written together.
LEMMA FailTx ==
  ASSUME NEW u, IsTx(u), NEW pc, NEW a, NEW row, NEW w, NEW status
  PROVE  TxIs([u EXCEPT !.pc = pc, !.rows = Put(@, a, row), !.wfs = Put(@, w, status)], u, pc,
              Put(u.rows, a, row), Put(u.wfs, w, status), u.todo, u.hit)
<1> DEFINE t == [u EXCEPT !.pc = pc, !.rows = Put(@, a, row), !.wfs = Put(@, w, status)]
<1>1. t = [u EXCEPT !.pc = pc, !.rows = Put(u.rows, a, row), !.wfs = Put(u.wfs, w, status)]
  OBVIOUS
<1> HIDE DEF t
<1>2. IsTx(t)
  BY <1>1 DEF IsTx
<1>3. /\ t.op = u.op /\ t.claim = u.claim /\ t.retryable = u.retryable /\ t.at = u.at
      /\ t.keyshare = u.keyshare /\ t.log = u.log
  BY <1>1 DEF IsTx
<1>4. /\ t.pc = pc /\ t.rows = Put(u.rows, a, row) /\ t.wfs = Put(u.wfs, w, status) /\ t.todo = u.todo
      /\ t.hit = u.hit
  BY <1>1 DEF IsTx
<1> QED
  BY <1>2, <1>3, <1>4 DEF TxIs, SameCall, Silent, t

\* A statement starts with the rows it selects.
LEMMA SelectTx ==
  ASSUME NEW u, IsTx(u), NEW pc, NEW S
  PROVE  TxIs([u EXCEPT !.pc = pc, !.todo = S], u, pc, u.rows, u.wfs, S, u.hit)
<1> DEFINE t == [u EXCEPT !.pc = pc, !.todo = S]
<1>1. t = [u EXCEPT !.pc = pc, !.todo = S]
  OBVIOUS
<1> HIDE DEF t
<1>2. IsTx(t)
  BY <1>1 DEF IsTx
<1>3. /\ t.op = u.op /\ t.claim = u.claim /\ t.retryable = u.retryable /\ t.at = u.at
      /\ t.keyshare = u.keyshare /\ t.log = u.log
  BY <1>1 DEF IsTx
<1>4. /\ t.pc = pc /\ t.rows = u.rows /\ t.wfs = u.wfs /\ t.todo = S
      /\ t.hit = u.hit
  BY <1>1 DEF IsTx
<1> QED
  BY <1>2, <1>3, <1>4 DEF TxIs, SameCall, Silent, t

\* The first statement of a transaction starts with the rows it selects.
LEMMA SelectFirstTx ==
  ASSUME NEW u, IsTx(u), NEW S
  PROVE  TxIs([u EXCEPT !.todo = S], u, u.pc, u.rows, u.wfs, S, u.hit)
<1> DEFINE t == [u EXCEPT !.todo = S]
<1>1. t = [u EXCEPT !.todo = S]
  OBVIOUS
<1> HIDE DEF t
<1>2. IsTx(t)
  BY <1>1 DEF IsTx
<1>3. /\ t.op = u.op /\ t.claim = u.claim /\ t.retryable = u.retryable /\ t.at = u.at
      /\ t.keyshare = u.keyshare /\ t.log = u.log
  BY <1>1 DEF IsTx
<1>4. /\ t.pc = u.pc /\ t.rows = u.rows /\ t.wfs = u.wfs /\ t.todo = S
      /\ t.hit = u.hit
  BY <1>1 DEF IsTx
<1> QED
  BY <1>2, <1>3, <1>4 DEF TxIs, SameCall, Silent, t

\* Cancel's first statements: the workflow is written and its rows selected.
LEMMA CancelTx ==
  ASSUME NEW u, IsTx(u), NEW w, NEW status, NEW S
  PROVE  TxIs([u EXCEPT !.wfs = Put(@, w, status), !.todo = S], u, u.pc, u.rows, Put(u.wfs, w, status), S, u.hit)
<1> DEFINE t == [u EXCEPT !.wfs = Put(@, w, status), !.todo = S]
<1>1. t = [u EXCEPT !.wfs = Put(u.wfs, w, status), !.todo = S]
  OBVIOUS
<1> HIDE DEF t
<1>2. IsTx(t)
  BY <1>1 DEF IsTx
<1>3. /\ t.op = u.op /\ t.claim = u.claim /\ t.retryable = u.retryable /\ t.at = u.at
      /\ t.keyshare = u.keyshare /\ t.log = u.log
  BY <1>1 DEF IsTx
<1>4. /\ t.pc = u.pc /\ t.rows = u.rows /\ t.wfs = Put(u.wfs, w, status) /\ t.todo = S
      /\ t.hit = u.hit
  BY <1>1 DEF IsTx
<1> QED
  BY <1>2, <1>3, <1>4 DEF TxIs, SameCall, Silent, t

\* A statement of p that commits nothing: its transaction becomes t, and n
\* sequence numbers are drawn.
BeginsTx(p, t, n) ==
  /\ n = 0
  /\ \/ \E worker \in Workers, a \in Activities : Picked(p, a, worker, t)
     \/ \E op \in LeaseOps, c \in claims : Called(p, op, c, t)
     \/ \E w \in Workflows : CancelBegun(p, w, t)
     \/ SchedulerBegun(p, t)

WritesResult(p, t, n) ==
  LET a   == Subject(p)
      row == Row(p, a)
  IN \/ /\ n = 1
        /\ \/ \E e \in DOMAIN tx[p].rows :
                tx[p].op = "Claim" /\ Noted(p, "log", e, "activity.claimed", t)
           \/ \E type \in {"activity.stale_heartbeat_rejected", "activity.stale_completion_rejected",
                           "activity.stale_failure_rejected"} : Noted(p, "stale", a, type, t)
           \/ RowWritten(p, "Heartbeat", [row EXCEPT !.expires = tx[p].at + leaseSeconds],
                         "activity.heartbeat", "commit", t)
           \/ RowWritten(p, "Complete", Freed(row, "completed"), "activity.completed", "release", t)
           \/ /\ row.attempt < Plan[a].maxAttempts /\ tx[p].retryable
              /\ RowWritten(p, "Fail",
                   [Freed(row, "retry_pending") EXCEPT
                      !.nextAt = tx[p].at + (Plan[a].backoff * row.attempt) \div 1000],
                   "activity.retry_scheduled", "commit", t)
     \/ /\ n = 2 /\ ~(tx[p].retryable /\ row.attempt < Plan[a].maxAttempts)
        /\ FailedFinally(p, t)

VisitsRow(p, t, n) ==
  /\ n = 0
  /\ \E a \in Activities :
       LET row == Row(p, a)
       IN \/ /\ row.status = "retry_pending"
             /\ RowVisited(p, "promote", a, [row EXCEPT !.status = "ready"], t)
          \/ /\ row.status = "running" /\ row.expires <= tx[p].at
             /\ RowVisited(p, "expire", a,
                  Freed(row, IF row.attempt < Plan[a].maxAttempts THEN "ready" ELSE "failed"), t)
          \/ Pending(row) /\ RowVisited(p, "drop", a, [row EXCEPT !.status = "cancelled"], t)
          \/ \E pc \in {"promote", "expire"} : RowSkipped(p, pc, a, t)
          \/ ~Pending(row) /\ RowSkipped(p, "drop", a, t)

LogsRow(p, t, n) ==
  \E a \in Activities :
    LET w == WorkflowOf(a)
    IN \/ /\ n = 1 /\ KeyShareFree(p, w) /\ t.wfs = tx[p].wfs
          /\ HitLogged(p, "promoted", a, {Entry(nextSequence + 1, w, a, "activity.ready")}, t)
       \/ /\ n = 1 /\ KeyShareFree(p, w) /\ t.wfs = tx[p].wfs /\ Row(p, a).status = "ready"
          /\ HitLogged(p, "expired", a, {Entry(nextSequence + 1, w, a, "activity.lease_expired")}, t)
       \/ /\ n = 2 /\ NoKeyFree(p, w) /\ Row(p, a).status = "failed"
          /\ IsPut(t.wfs, tx[p].wfs, w, "failed")
          /\ HitLogged(p, "expired", a,
                       {Entry(nextSequence + 1, w, w, "workflow.failed"),
                        Entry(nextSequence + 2, w, a, "activity.lease_expired_failed")}, t)
       \/ n = 1 /\ \E v \in Workflows : CancelRowLogged(p, v, a, t)

MovesOn(p, t, n) ==
  \/ n = 0 /\ (t = Idle \/ Locked(p, t) \/ ReleaseBegun(p, t) \/ DoneChecked(p, t) \/ LeavesOpen(p, t))
  \/ n = 1 /\ Closes(p, t)
  \/ n = 1 /\ \E w \in Workflows : CancelDone(p, w, t)

Statement(p, t, n) ==
  /\ Becomes(p, t) /\ nextSequence' = nextSequence + n
  /\ UNCHANGED <<now, workflows, activities, events, claims>>
  /\ aborts' \in 0 .. MaxAborts
  /\ \/ BeginsTx(p, t, n) \/ WritesResult(p, t, n) \/ VisitsRow(p, t, n) \/ LogsRow(p, t, n)
     \/ MovesOn(p, t, n)

\* What StoreInv says of one session.
LEMMA SessionTx ==
  ASSUME StoreInv, NEW p \in Sessions
  PROVE  /\ IsTx(tx[p]) /\ Shape(tx[p]) /\ Place(tx[p]) /\ RowsMoved(tx[p]) /\ RowLocked(tx[p])
         /\ ClaimKnown(tx[p]) /\ nextSequence \in Nat /\ aborts \in 0 .. MaxAborts
BY DEF StoreInv, Transactions, RowInv, Shape, TypeOK

\* A step that only changes its transaction is a statement.
LEMMA QuietStatement ==
  ASSUME StoreInv, NEW p \in Sessions, NEW t, NEW n, Becomes(p, t), Quiet,
         \/ n = 0 /\ UNCHANGED nextSequence
         \/ nextSequence' = nextSequence + n,
         \/ BeginsTx(p, t, n) \/ WritesResult(p, t, n) \/ VisitsRow(p, t, n) \/ LogsRow(p, t, n)
         \/ MovesOn(p, t, n)
  PROVE  Statement(p, t, n)
<1>1. nextSequence \in Nat /\ aborts \in 0 .. MaxAborts
  BY DEF StoreInv, TypeOK
<1>2. nextSequence' = nextSequence + n
  BY <1>1
<1>3. UNCHANGED <<now, workflows, activities, events, claims>> /\ aborts' \in 0 .. MaxAborts
  BY <1>1 DEF Quiet
<1> QED
  BY <1>2, <1>3 DEF Statement

\* Claim's pick is a statement, or finds nothing and changes nothing.
LEMMA ClaimStatements ==
  ASSUME StoreInv, NEW p \in Sessions, NEW worker \in Workers,
         ClaimPick(p, worker)
  PROVE  UNCHANGED vars \/ \E t, n : Statement(p, t, n)
<1>1. CASE UNCHANGED tx
  BY <1>1 DEF ClaimPick, Quiet, vars
<1>2. CASE \E a \in Pickable(p, worker) :
             Becomes(p, [Begin("Claim", "log") EXCEPT !.rows = Put(@, a,
               [activities[a] EXCEPT !.status = "running", !.attempt = @ + 1,
                  !.owner = worker, !.token = @ + 1, !.expires = now + leaseSeconds])])
  <2>1. PICK a \in Pickable(p, worker) :
             Becomes(p, [Begin("Claim", "log") EXCEPT !.rows = Put(@, a,
               [activities[a] EXCEPT !.status = "running", !.attempt = @ + 1,
                  !.owner = worker, !.token = @ + 1, !.expires = now + leaseSeconds])])
    BY <1>2
  <2> DEFINE row == [activities[a] EXCEPT !.status = "running", !.attempt = @ + 1,
                       !.owner = worker, !.token = @ + 1, !.expires = now + leaseSeconds]
             u == Begin("Claim", "log")
             t == [u EXCEPT !.rows = Put(@, a, row)]
  <2>2. IsFresh(u, "Claim", "log")
    BY BegunTx
  <2>3. Becomes(p, t)
    BY <2>1
  <2> HIDE DEF row, u
  <2>4. /\ IsTx(t) /\ t.op = u.op /\ t.pc = u.pc /\ t.at = u.at /\ t.retryable = u.retryable
        /\ t.rows = Put(u.rows, a, row) /\ t.wfs = u.wfs /\ t.keyshare = u.keyshare
        /\ t.todo = u.todo /\ t.hit = u.hit /\ t.log = u.log
    BY <2>2 DEF IsTx, IsFresh
  <2> HIDE DEF t
  <2>5. DOMAIN t.rows = {a} /\ t.rows[a] = row
    <3>1. IsPut(Put(u.rows, a, row), u.rows, a, row)
      BY PutRow
    <3> QED
      BY <2>2, <2>4, <3>1 DEF IsPut, IsFresh
  <2>6. Begun(t, "Claim")
    BY <2>2, <2>4 DEF Begun, IsFresh
  <2>7. Picked(p, a, worker, t)
    BY <2>2, <2>4, <2>5, <2>6 DEF Picked, ClaimPick, row, IsFresh
  <2>8. BeginsTx(p, t, 0)
    BY <2>7 DEF BeginsTx, Pickable
  <2>9. Statement(p, t, 0)
    BY <2>3, <2>8, QuietStatement DEF ClaimPick
  <2> QED
    BY <2>9
<1> QED
  BY <1>1, <1>2 DEF ClaimPick

\* The event of a claim is a statement.
LEMMA ClaimLogStatements ==
  ASSUME StoreInv, NEW p \in Sessions, ClaimLog(p)
  PROVE  \E t, n : Statement(p, t, n)
<1>1. PICK a \in DOMAIN tx[p].rows :
        /\ KeyShareFree(p, WorkflowOf(a))
        /\ Becomes(p, Logged([tx[p] EXCEPT !.pc = "commit"], WorkflowOf(a),
                             <<<<a, "activity.claimed">>>>))
  BY DEF ClaimLog
<1> DEFINE u == [tx[p] EXCEPT !.pc = "commit"]
           t == Logged(u, WorkflowOf(a), <<<<a, "activity.claimed">>>>)
<1>2. MovedTo(tx[p], u, "commit")
  BY SessionTx, AtPlace
<1>3. Becomes(p, t)
  BY <1>1
<1> HIDE DEF u
<1>4. WithEntries(u, WorkflowOf(a), t, {Entry(nextSequence + 1, WorkflowOf(a), a, "activity.claimed")})
  BY <1>2, LoggedOne DEF MovedTo
<1> HIDE DEF t
<1>5. Noted(p, "log", a, "activity.claimed", t)
  BY <1>1, <1>2, <1>4 DEF Noted, ClaimLog, At, SameCall, SameTables, SameLoop, Logs,
                                SameButPc, SameButLog, MovedTo, WithEntries
<1>6. WritesResult(p, t, 1)
  BY <1>5 DEF WritesResult, ClaimLog, At
<1>7. Statement(p, t, 1)
  BY <1>3, <1>6, QuietStatement DEF ClaimLog
<1> QED
  BY <1>7

\* The start of a worker call is a statement.
LEMMA CallStatements ==
  ASSUME StoreInv, NEW p \in Sessions, NEW op \in LeaseOps, NEW c \in claims, NEW r \in BOOLEAN,
         WorkerCallBegin(p, op, c, r)
  PROVE  \E t, n : Statement(p, t, n)
<1> DEFINE u == Begin(op, "lock")
           t == [u EXCEPT !.claim = c, !.retryable = r]
<1>1. IsFresh(u, op, "lock")
  BY BegunTx
<1>2. Becomes(p, t)
  BY DEF WorkerCallBegin
<1> HIDE DEF u
<1>3. CallOf(u, t, c, r)
  BY <1>1, CallTx DEF IsFresh
<1> HIDE DEF t
<1>4. Called(p, op, c, t)
  BY <1>1, <1>3 DEF Called, Begun, IsFresh, WorkerCallBegin, CallOf
<1>5. BeginsTx(p, t, 0)
  BY <1>4 DEF BeginsTx
<1>6. Statement(p, t, 0)
  BY <1>2, <1>5, QuietStatement DEF WorkerCallBegin
<1> QED
  BY <1>6

\* lockActivity is a statement, also where it ends the call.
LEMMA LockStatements ==
  ASSUME StoreInv, NEW p \in Sessions, lockActivity(p)
  PROVE  \E t, n : Statement(p, t, n)
<1> DEFINE a == tx[p].claim.activity
           row == activities[a]
           pc == IF currentLease(p, row) THEN "write" ELSE "stale"
           t == [tx[p] EXCEPT !.pc = pc, !.rows = Put(@, a, row)]
<1>1. CASE Becomes(p, Idle)
  <2>1. MovesOn(p, Idle, 0)
    BY DEF MovesOn
  <2>2. Statement(p, Idle, 0)
    BY <1>1, <2>1, QuietStatement DEF lockActivity
  <2> QED
    BY <2>2
<1>2. CASE row.status = "running" /\ Becomes(p, t)
  <2>1. /\ tx[p].pc = "lock" /\ RowFree(p, a) /\ row.status = "running" /\ Becomes(p, t) /\ Quiet
        /\ UNCHANGED nextSequence
    BY <1>2 DEF lockActivity
  <2>2. IsPut(Put(tx[p].rows, a, row), tx[p].rows, a, row)
    BY PutRow
  <2>3. IsTx(tx[p])
    BY SessionTx
  <2>4. RowUpdated(tx[p], t, pc, Put(tx[p].rows, a, row))
    BY <2>3, UpdateTx
  <2> HIDE DEF t
  <2>6. Locked(p, t)
    BY <2>1, <2>2, <2>4 DEF Locked, Subject, RowUpdated
  <2>7. MovesOn(p, t, 0)
    BY <2>6 DEF MovesOn
  <2>8. Statement(p, t, 0)
    BY <2>1, <2>7, QuietStatement
  <2> QED
    BY <2>8
<1> QED
  BY <1>1, <1>2 DEF lockActivity

\* The record of a rejected call is a statement.
LEMMA StaleStatements ==
  ASSUME StoreInv, NEW p \in Sessions, Stale(p)
  PROVE  \E t, n : Statement(p, t, n)
<1> DEFINE a == Subject(p)
           w == WorkflowOf(a)
<1>1. tx[p].op \in LeaseOps
  BY SessionTx, EmptyTx DEF Place, Stale
<1>2. PICK type \in {"activity.stale_heartbeat_rejected", "activity.stale_completion_rejected",
                     "activity.stale_failure_rejected"} :
        Becomes(p, Logged([tx[p] EXCEPT !.pc = "commit"], w, <<<<a, type>>>>))
  <2>1. CASE tx[p].op = "Heartbeat"
    BY <2>1 DEF Stale, Subject
  <2>2. CASE tx[p].op = "Complete"
    BY <2>2 DEF Stale, Subject
  <2>3. CASE tx[p].op = "Fail"
    BY <2>3 DEF Stale, Subject
  <2> QED
    BY <1>1, <2>1, <2>2, <2>3 DEF LeaseOps
<1> DEFINE u == [tx[p] EXCEPT !.pc = "commit"]
           t == Logged(u, w, <<<<a, type>>>>)
<1>3. MovedTo(tx[p], u, "commit")
  BY SessionTx, AtPlace
<1>4. Becomes(p, t)
  BY <1>2
<1> HIDE DEF u
<1>5. WithEntries(u, w, t, {Entry(nextSequence + 1, w, a, type)})
  BY <1>3, LoggedOne DEF MovedTo
<1> HIDE DEF t
<1>6. Noted(p, "stale", a, type, t)
  BY <1>3, <1>5 DEF Noted, Stale, SameCall, SameTables, SameLoop, Logs,
                    SameButPc, SameButLog, MovedTo, WithEntries, Subject
<1>7. WritesResult(p, t, 1)
  BY <1>6 DEF WritesResult
<1>8. Statement(p, t, 1)
  BY <1>4, <1>7, QuietStatement DEF Stale
<1> QED
  BY <1>8

\* The write of a result is the claim's row, one event and one number.
LEMMA WriteRowTx ==
  ASSUME StoreInv, NEW p \in Sessions, NEW op, At(p, op, "write"),
         KeyShareFree(p, SubjectWorkflow(p)), NEW row, NEW type, NEW pc,
         WriteRow(p, Subject(p), row, <<<<Subject(p), type>>>>, pc)
  PROVE  /\ Quiet /\ nextSequence' = nextSequence + 1
         /\ \E t : Becomes(p, t) /\ RowWritten(p, op, row, type, pc, t)
<1> DEFINE a == Subject(p)
           w == WorkflowOf(a)
           u == [tx[p] EXCEPT !.pc = pc, !.rows = Put(@, a, row)]
           t == Logged(u, w, <<<<a, type>>>>)
<1>1. Becomes(p, t) /\ Quiet
  BY DEF WriteRow
<1>2. nextSequence' = nextSequence + 1
  <2>1. DOMAIN <<<<a, type>>>> = {1}
    OBVIOUS
  <2>2. Cardinality({1}) = 1
    BY FS_Singleton
  <2> QED
    BY <2>1, <2>2 DEF WriteRow
<1>3. IsPut(Put(tx[p].rows, a, row), tx[p].rows, a, row)
  BY PutRow
<1>4. IsTx(tx[p])
  BY SessionTx
<1>5. RowUpdated(tx[p], u, pc, Put(tx[p].rows, a, row))
  BY <1>4, UpdateTx
<1> HIDE DEF u
<1>6. WithEntries(u, w, t, {Entry(nextSequence + 1, w, a, type)})
  BY <1>5, LoggedOne DEF RowUpdated, SameCall
<1> HIDE DEF t
<1>7. RowWritten(p, op, row, type, pc, t)
  BY <1>3, <1>5, <1>6 DEF RowWritten, RowUpdated, SameCall, SameLoop, Silent, Logs, SameButLog,
                          WithEntries, SubjectWorkflow
<1> QED
  BY <1>1, <1>2, <1>7

\* The writes of Heartbeat, Complete and a retried Fail are statements.
LEMMA ResultStatements ==
  ASSUME StoreInv, NEW p \in Sessions, HeartbeatWrite(p) \/ CompleteWrite(p) \/ FailRetry(p)
  PROVE  \E t, n : Statement(p, t, n)
<1> DEFINE a == Subject(p)
           row == Row(p, a)
<1>1. CASE HeartbeatWrite(p)
  <2> DEFINE new == [row EXCEPT !.expires = tx[p].at + leaseSeconds]
  <2>1. /\ At(p, "Heartbeat", "write") /\ KeyShareFree(p, SubjectWorkflow(p))
        /\ WriteRow(p, a, new, <<<<a, "activity.heartbeat">>>>, "commit")
    BY <1>1 DEF HeartbeatWrite, Subject, SubjectWorkflow
  <2>2. PICK t : Becomes(p, t) /\ RowWritten(p, "Heartbeat", new, "activity.heartbeat", "commit", t)
    BY <2>1, WriteRowTx
  <2>3. WritesResult(p, t, 1)
    BY <2>2 DEF WritesResult
  <2>4. Statement(p, t, 1)
    BY <2>1, <2>2, <2>3, WriteRowTx, QuietStatement
  <2> QED
    BY <2>4
<1>2. CASE CompleteWrite(p)
  <2> DEFINE new == Freed(row, "completed")
  <2>1. /\ At(p, "Complete", "write") /\ KeyShareFree(p, SubjectWorkflow(p))
        /\ WriteRow(p, a, new, <<<<a, "activity.completed">>>>, "release")
    BY <1>2 DEF CompleteWrite, Subject, SubjectWorkflow
  <2>2. PICK t : Becomes(p, t) /\ RowWritten(p, "Complete", new, "activity.completed", "release", t)
    BY <2>1, WriteRowTx
  <2>3. WritesResult(p, t, 1)
    BY <2>2 DEF WritesResult
  <2>4. Statement(p, t, 1)
    BY <2>1, <2>2, <2>3, WriteRowTx, QuietStatement
  <2> QED
    BY <2>4
<1>3. CASE FailRetry(p)
  <2> DEFINE new == [Freed(row, "retry_pending") EXCEPT
                       !.nextAt = tx[p].at + (Plan[a].backoff * row.attempt) \div 1000]
  <2>1. /\ At(p, "Fail", "write") /\ KeyShareFree(p, SubjectWorkflow(p))
        /\ WriteRow(p, a, new, <<<<a, "activity.retry_scheduled">>>>, "commit")
        /\ row.attempt < Plan[a].maxAttempts /\ tx[p].retryable
    BY <1>3 DEF FailRetry, Subject, SubjectWorkflow
  <2>2. PICK t : Becomes(p, t) /\ RowWritten(p, "Fail", new, "activity.retry_scheduled", "commit", t)
    BY <2>1, WriteRowTx
  <2>3. WritesResult(p, t, 1)
    BY <2>1, <2>2 DEF WritesResult
  <2>4. Statement(p, t, 1)
    BY <2>1, <2>2, <2>3, WriteRowTx, QuietStatement
  <2> QED
    BY <2>4
<1> QED
  BY <1>1, <1>2, <1>3

\* The write of a final Fail is a statement.
LEMMA FailStatements ==
  ASSUME StoreInv, NEW p \in Sessions, FailFinally(p)
  PROVE  \E t, n : Statement(p, t, n)
<1> DEFINE a == Subject(p)
           w == WorkflowOf(a)
           row == Freed(Row(p, a), "failed")
           u == [tx[p] EXCEPT !.pc = "commit", !.rows = Put(@, a, row), !.wfs = Put(@, w, "failed")]
           t == Logged(u, w, <<<<a, "activity.failed">>, <<w, "workflow.failed">>>>)
<1>1. /\ At(p, "Fail", "write") /\ NoKeyFree(p, w)
      /\ ~(tx[p].retryable /\ Row(p, a).attempt < Plan[a].maxAttempts)
      /\ Becomes(p, t) /\ nextSequence' = nextSequence + 2 /\ Quiet
  BY DEF FailFinally, Subject
<1>2. /\ IsPut(Put(tx[p].rows, a, row), tx[p].rows, a, row)
      /\ IsPut(Put(tx[p].wfs, w, "failed"), tx[p].wfs, w, "failed")
  BY PutRow
<1>3. TxIs(u, tx[p], "commit", Put(tx[p].rows, a, row), Put(tx[p].wfs, w, "failed"), tx[p].todo,
           tx[p].hit)
  BY SessionTx, FailTx
<1> HIDE DEF u
<1>4. WithEntries(u, w, t, {Entry(nextSequence + 1, w, a, "activity.failed"),
                            Entry(nextSequence + 2, w, w, "workflow.failed")})
  BY <1>3, LoggedTwo DEF TxIs, SameCall
<1> HIDE DEF t
<1>5. FailedFinally(p, t)
  BY <1>1, <1>2, <1>3, <1>4 DEF FailedFinally, TxIs, WithEntries, SameCall, SameLoop, Logs, Silent,
                                SameButLog, SubjectWorkflow
<1>6. WritesResult(p, t, 2)
  BY <1>1, <1>5 DEF WritesResult
<1>7. Statement(p, t, 2)
  BY <1>1, <1>6, QuietStatement
<1> QED
  BY <1>7

\* The start of releaseReady is a statement.
LEMMA ReleaseStatements ==
  ASSUME StoreInv, NEW p \in Sessions, releaseReady(p)
  PROVE  \E t, n : Statement(p, t, n)
<1> DEFINE S == {a \in Activities : /\ WorkflowOf(a) \in Scope(p)
                                    /\ Row(p, a).status = "retry_pending"
                                    /\ Row(p, a).nextAt <= tx[p].at
                                    /\ dependenciesComplete(p, a)}
           u == [tx[p] EXCEPT !.pc = "promote", !.todo = S]
           t == Onward(u)
<1>1. tx[p].pc = "release" /\ Becomes(p, t) /\ Quiet /\ UNCHANGED nextSequence
  BY DEF releaseReady
<1> HIDE DEF S
<1>2. TxIs(u, tx[p], "promote", tx[p].rows, tx[p].wfs, S, tx[p].hit)
  BY SessionTx, SelectTx
<1> HIDE DEF u
<1>3. MovedTo(u, t, NextPlace(u))
  BY <1>2, OnwardTx DEF TxIs, SameCall
<1> HIDE DEF t
<1>4. t.todo = S /\ t.pc = PlaceAfter("promote", t.todo, t.hit, t.op)
  BY <1>2, <1>3 DEF TxIs, MovedTo, SameButPc, NextPlace, SameCall
<1>5. /\ SameCall(tx[p], t) /\ SameTables(tx[p], t) /\ Silent(tx[p], t) /\ t.hit = tx[p].hit
  BY <1>2, <1>3 DEF TxIs, MovedTo, SameButPc, SameCall, SameTables, Silent
<1>6. ReleaseBegun(p, t)
  BY <1>1, <1>4, <1>5 DEF ReleaseBegun, S
<1>7. MovesOn(p, t, 0)
  BY <1>6 DEF MovesOn
<1>8. Statement(p, t, 0)
  BY <1>1, <1>7, QuietStatement
<1> QED
  BY <1>8

\* A row of an UPDATE, for any of the three.
LEMMA VisitCases ==
  ASSUME StoreInv, NEW p \in Sessions, NEW pc, NEW matching, NEW new, Visit(p, pc, matching, new)
  PROVE  /\ Quiet /\ UNCHANGED nextSequence
         /\ \E a \in Activities : \E t :
              /\ Becomes(p, t)
              /\ IF a \in matching THEN RowVisited(p, pc, a, new[a], t) ELSE RowSkipped(p, pc, a, t)
<1>1. PICK a \in tx[p].todo :
        /\ RowFree(p, a)
        /\ Becomes(p, Onward(IF a \in matching
             THEN [tx[p] EXCEPT !.todo = @ \ {a}, !.hit = @ \cup {a}, !.rows = Put(@, a, new[a])]
             ELSE [tx[p] EXCEPT !.todo = @ \ {a}]))
  BY DEF Visit
<1>2. a \in Activities /\ IsTx(tx[p]) /\ tx[p].pc = pc /\ Quiet /\ UNCHANGED nextSequence
  BY SessionTx DEF Shape, Visit
<1>3. CASE a \in matching
  <2> DEFINE u == [tx[p] EXCEPT !.todo = @ \ {a}, !.hit = @ \cup {a}, !.rows = Put(@, a, new[a])]
             t == Onward(u)
  <2>1. Becomes(p, t)
    BY <1>1, <1>3
  <2>2. TxIs(u, tx[p], tx[p].pc, Put(tx[p].rows, a, new[a]), tx[p].wfs, tx[p].todo \ {a},
             tx[p].hit \cup {a})
    BY <1>2, VisitTx
  <2> HIDE DEF u
  <2>3. MovedTo(u, t, NextPlace(u))
    BY <2>2, OnwardTx DEF TxIs, SameCall
  <2> HIDE DEF t
  <2>4. t.pc = PlaceAfter(pc, t.todo, t.hit, t.op)
    BY <1>2, <2>2, <2>3 DEF TxIs, MovedTo, SameButPc, NextPlace, SameCall
  <2>5. IsPut(Put(tx[p].rows, a, new[a]), tx[p].rows, a, new[a])
    BY PutRow
  <2>6. /\ SameCall(tx[p], t) /\ Silent(tx[p], t) /\ t.wfs = tx[p].wfs
        /\ t.todo = tx[p].todo \ {a} /\ t.hit = tx[p].hit \cup {a}
        /\ t.rows = Put(tx[p].rows, a, new[a])
    BY <2>2, <2>3 DEF TxIs, MovedTo, SameButPc, SameCall, Silent
  <2>7. RowVisited(p, pc, a, new[a], t)
    BY <1>1, <1>2, <2>4, <2>5, <2>6 DEF RowVisited
  <2> QED
    BY <1>2, <1>3, <2>1, <2>7
<1>4. CASE a \notin matching
  <2> DEFINE u == [tx[p] EXCEPT !.todo = @ \ {a}]
             t == Onward(u)
  <2>1. Becomes(p, t)
    BY <1>1, <1>4
  <2>2. TxIs(u, tx[p], tx[p].pc, tx[p].rows, tx[p].wfs, tx[p].todo \ {a}, tx[p].hit)
    BY <1>2, TodoTx
  <2> HIDE DEF u
  <2>3. MovedTo(u, t, NextPlace(u))
    BY <2>2, OnwardTx DEF TxIs, SameCall
  <2> HIDE DEF t
  <2>4. t.pc = PlaceAfter(pc, t.todo, t.hit, t.op)
    BY <1>2, <2>2, <2>3 DEF TxIs, MovedTo, SameButPc, NextPlace, SameCall
  <2>5. /\ SameCall(tx[p], t) /\ Silent(tx[p], t) /\ SameTables(tx[p], t)
        /\ t.todo = tx[p].todo \ {a} /\ t.hit = tx[p].hit
    BY <2>2, <2>3 DEF TxIs, MovedTo, SameButPc, SameCall, Silent, SameTables
  <2>6. RowSkipped(p, pc, a, t)
    BY <1>2, <2>4, <2>5 DEF RowSkipped
  <2> QED
    BY <1>2, <1>4, <2>1, <2>6
<1> QED
  BY <1>3, <1>4

\* Each row of releaseReady, the expiry and Cancel is a statement.
LEMMA VisitStatements ==
  ASSUME StoreInv, NEW p \in Sessions, Promote(p) \/ Expire(p) \/ CancelDrop(p)
  PROVE  \E t, n : Statement(p, t, n)
<1>1. CASE Promote(p)
  <2> DEFINE M == {a \in Activities : Row(p, a).status = "retry_pending" /\ Row(p, a).nextAt <= tx[p].at}
             new == [a \in Activities |-> [Row(p, a) EXCEPT !.status = "ready"]]
  <2>1. Visit(p, "promote", M, new)
    BY <1>1 DEF Promote
  <2>2. \A a \in Activities : /\ a \in M => Row(p, a).status = "retry_pending"
                              /\ new[a] = [Row(p, a) EXCEPT !.status = "ready"]
    OBVIOUS
  <2> HIDE DEF M, new
  <2>3. PICK a \in Activities : \E t :
              /\ Becomes(p, t)
              /\ IF a \in M THEN RowVisited(p, "promote", a, new[a], t)
                 ELSE RowSkipped(p, "promote", a, t)
    BY <2>1, VisitCases
  <2>4. PICK t : /\ Becomes(p, t)
                 /\ IF a \in M THEN RowVisited(p, "promote", a, new[a], t)
                    ELSE RowSkipped(p, "promote", a, t)
    BY <2>3
  <2>5. VisitsRow(p, t, 0)
    BY <2>2, <2>4 DEF VisitsRow
  <2>6. Quiet /\ UNCHANGED nextSequence
    BY <2>1, VisitCases
  <2>7. Statement(p, t, 0)
    BY <2>4, <2>5, <2>6, QuietStatement
  <2> QED
    BY <2>7
<1>2. CASE Expire(p)
  <2> DEFINE M == {a \in Activities : Row(p, a).status = "running" /\ Row(p, a).expires <= tx[p].at}
             new == [a \in Activities |-> Freed(Row(p, a), IF Row(p, a).attempt < Plan[a].maxAttempts
                                                           THEN "ready" ELSE "failed")]
  <2>1. Visit(p, "expire", M, new)
    BY <1>2 DEF Expire
  <2>2. \A a \in Activities : /\ a \in M => Row(p, a).status = "running" /\ Row(p, a).expires <= tx[p].at
                              /\ new[a] = Freed(Row(p, a), IF Row(p, a).attempt < Plan[a].maxAttempts
                                                           THEN "ready" ELSE "failed")
    OBVIOUS
  <2> HIDE DEF M, new
  <2>3. PICK a \in Activities : \E t :
              /\ Becomes(p, t)
              /\ IF a \in M THEN RowVisited(p, "expire", a, new[a], t)
                 ELSE RowSkipped(p, "expire", a, t)
    BY <2>1, VisitCases
  <2>4. PICK t : /\ Becomes(p, t)
                 /\ IF a \in M THEN RowVisited(p, "expire", a, new[a], t)
                    ELSE RowSkipped(p, "expire", a, t)
    BY <2>3
  <2>5. VisitsRow(p, t, 0)
    BY <2>2, <2>4 DEF VisitsRow
  <2>6. Quiet /\ UNCHANGED nextSequence
    BY <2>1, VisitCases
  <2>7. Statement(p, t, 0)
    BY <2>4, <2>5, <2>6, QuietStatement
  <2> QED
    BY <2>7
<1>3. CASE CancelDrop(p)
  <2> DEFINE M == {a \in Activities : Pending(Row(p, a))}
             new == [a \in Activities |-> [Row(p, a) EXCEPT !.status = "cancelled"]]
  <2>1. Visit(p, "drop", M, new)
    BY <1>3 DEF CancelDrop
  <2>2. \A a \in Activities : /\ a \in M <=> Pending(Row(p, a))
                              /\ new[a] = [Row(p, a) EXCEPT !.status = "cancelled"]
    OBVIOUS
  <2> HIDE DEF M, new
  <2>3. PICK a \in Activities : \E t :
              /\ Becomes(p, t)
              /\ IF a \in M THEN RowVisited(p, "drop", a, new[a], t)
                 ELSE RowSkipped(p, "drop", a, t)
    BY <2>1, VisitCases
  <2>4. PICK t : /\ Becomes(p, t)
                 /\ IF a \in M THEN RowVisited(p, "drop", a, new[a], t)
                    ELSE RowSkipped(p, "drop", a, t)
    BY <2>3
  <2>5. VisitsRow(p, t, 0)
    BY <2>2, <2>4 DEF VisitsRow
  <2>6. Quiet /\ UNCHANGED nextSequence
    BY <2>1, VisitCases
  <2>7. Statement(p, t, 0)
    BY <2>4, <2>5, <2>6, QuietStatement
  <2> QED
    BY <2>7
<1> QED
  BY <1>1, <1>2, <1>3

\* Both statements of completeWorkflowIfDone are statements.
LEMMA CloseStatements ==
  ASSUME StoreInv, NEW p \in Sessions, DoneCheck(p) \/ CloseWorkflow(p)
  PROVE  \E t, n : Statement(p, t, n)
<1> DEFINE w == SubjectWorkflow(p)
<1>0. IsTx(tx[p])
  BY SessionTx
<1>1. CASE DoneCheck(p)
  <2> DEFINE pc == IF workflows[w] = "running" /\ AllCompleted(p, w) THEN "close" ELSE "commit"
             t == [tx[p] EXCEPT !.pc = pc]
  <2>1. tx[p].pc = "finish" /\ Becomes(p, t) /\ Quiet /\ UNCHANGED nextSequence
    BY <1>1 DEF DoneCheck, SubjectWorkflow, Subject
  <2>2. MovedTo(tx[p], t, pc)
    BY <1>0, AtPlace
  <2> HIDE DEF t
  <2>3. DoneChecked(p, t)
    BY <2>1, <2>2 DEF DoneChecked, MovedTo, SameButPc, SameCall, SameTables, SameLoop, Silent
  <2>4. MovesOn(p, t, 0)
    BY <2>3 DEF MovesOn
  <2>5. Statement(p, t, 0)
    BY <2>1, <2>4, QuietStatement
  <2> QED
    BY <2>5
<1>2. CASE CloseWorkflow(p) /\ workflows[w] = "running"
  <2> DEFINE u == [tx[p] EXCEPT !.pc = "commit", !.wfs = Put(@, w, "completed")]
             t == Logged(u, w, <<<<w, "workflow.completed">>>>)
  <2>1. tx[p].pc = "close" /\ NoKeyFree(p, w) /\ Becomes(p, t) /\ Quiet /\ nextSequence' = nextSequence + 1
    BY <1>2 DEF CloseWorkflow, SubjectWorkflow, Subject
  <2>2. TxIs(u, tx[p], "commit", tx[p].rows, Put(tx[p].wfs, w, "completed"), tx[p].todo, tx[p].hit)
    BY <1>0, CloseTx
  <2> HIDE DEF u
  <2>3. WithEntries(u, w, t, {Entry(nextSequence + 1, w, w, "workflow.completed")})
    BY <2>2, LoggedOne DEF TxIs, SameCall
  <2>4. IsPut(Put(tx[p].wfs, w, "completed"), tx[p].wfs, w, "completed")
    BY PutRow
  <2> HIDE DEF t
  <2>5. Closes(p, t)
    BY <1>2, <2>1, <2>2, <2>3, <2>4 DEF Closes, TxIs, WithEntries, SameCall, SameLoop, Logs, Silent,
                                        SameButLog
  <2>6. MovesOn(p, t, 1)
    BY <2>5 DEF MovesOn
  <2>7. Statement(p, t, 1)
    BY <2>1, <2>6, QuietStatement
  <2> QED
    BY <2>7
<1>3. CASE CloseWorkflow(p) /\ workflows[w] # "running"
  <2> DEFINE t == [tx[p] EXCEPT !.pc = "commit"]
  <2>1. tx[p].pc = "close" /\ Becomes(p, t) /\ Quiet /\ UNCHANGED nextSequence
    BY <1>3 DEF CloseWorkflow, SubjectWorkflow, Subject
  <2>2. MovedTo(tx[p], t, "commit")
    BY <1>0, AtPlace
  <2> HIDE DEF t
  <2>3. LeavesOpen(p, t)
    BY <1>3, <2>1, <2>2 DEF LeavesOpen, MovedTo, SameButPc, SameCall, SameTables, SameLoop, Silent
  <2>4. MovesOn(p, t, 0)
    BY <2>3 DEF MovesOn
  <2>5. Statement(p, t, 0)
    BY <2>1, <2>4, QuietStatement
  <2> QED
    BY <2>5
<1> QED
  BY <1>1, <1>2, <1>3

\* The start of Cancel is a statement.
LEMMA CancelStatements ==
  ASSUME StoreInv, NEW p \in Sessions, NEW w \in Workflows, CancelLock(p, w)
  PROVE  \E t, n : Statement(p, t, n)
<1> DEFINE S == {a \in Activities : WorkflowOf(a) = w /\ Pending(activities[a])}
           b == Begin("Cancel", "drop")
           u == [b EXCEPT !.wfs = Put(@, w, "cancelled"), !.todo = S]
           t == Onward(u)
<1>1. /\ tx[p].pc = "idle" /\ UpdateFree(p, w) /\ workflows[w] = "running"
      /\ Becomes(p, t) /\ Quiet /\ UNCHANGED nextSequence
  BY DEF CancelLock
<1>2. IsFresh(b, "Cancel", "drop")
  BY BegunTx
<1> HIDE DEF S, b
<1>3. TxIs(u, b, b.pc, b.rows, Put(b.wfs, w, "cancelled"), S, b.hit)
  BY <1>2, CancelTx DEF IsFresh
<1> HIDE DEF u
<1>4. MovedTo(u, t, NextPlace(u))
  BY <1>3, OnwardTx DEF TxIs, SameCall
<1> HIDE DEF t
<1>5. IsPut(Put(b.wfs, w, "cancelled"), b.wfs, w, "cancelled")
  BY PutRow
<1>6. t.todo = S /\ t.pc = PlaceAfter("drop", t.todo, t.hit, t.op)
  BY <1>2, <1>3, <1>4 DEF TxIs, MovedTo, SameButPc, NextPlace, SameCall, IsFresh
<1>7. Begun(t, "Cancel") /\ DOMAIN t.rows = {}
  BY <1>2, <1>3, <1>4 DEF TxIs, MovedTo, SameButPc, SameCall, Silent, IsFresh, Begun
<1>8. DOMAIN t.wfs = {w} /\ t.wfs[w] = "cancelled"
  BY <1>2, <1>3, <1>4, <1>5 DEF TxIs, MovedTo, SameButPc, IsFresh, IsPut
<1>9. CancelBegun(p, w, t)
  BY <1>1, <1>6, <1>7, <1>8 DEF CancelBegun, S
<1>10. BeginsTx(p, t, 0)
  BY <1>9 DEF BeginsTx
<1>11. Statement(p, t, 0)
  BY <1>1, <1>10, QuietStatement
<1> QED
  BY <1>11

\* The start of a scheduler pass is a statement.
LEMMA SchedulerStatements ==
  ASSUME StoreInv, NEW p \in Sessions, SchedulerBegin(p)
  PROVE  \E t, n : Statement(p, t, n)
<1> DEFINE S == {a \in Activities : activities[a].status = "running" /\ activities[a].expires <= now}
           b == Begin("RunSchedulerPass", "expire")
           u == [b EXCEPT !.todo = S]
           t == Onward(u)
<1>1. tx[p].pc = "idle" /\ Becomes(p, t) /\ Quiet /\ UNCHANGED nextSequence /\ S \subseteq Activities
  BY DEF SchedulerBegin
<1>2. IsFresh(b, "RunSchedulerPass", "expire")
  BY BegunTx
<1> HIDE DEF S, b
<1>3. TxIs(u, b, b.pc, b.rows, b.wfs, S, b.hit)
  BY <1>2, SelectFirstTx DEF IsFresh
<1> HIDE DEF u
<1>4. MovedTo(u, t, NextPlace(u))
  BY <1>3, OnwardTx DEF TxIs, SameCall
<1> HIDE DEF t
<1>5. t.todo = S /\ t.pc = PlaceAfter("expire", t.todo, t.hit, t.op)
  BY <1>2, <1>3, <1>4 DEF TxIs, MovedTo, SameButPc, NextPlace, SameCall, IsFresh
<1>6. Begun(t, "RunSchedulerPass") /\ DOMAIN t.rows = {} /\ DOMAIN t.wfs = {}
  BY <1>2, <1>3, <1>4 DEF TxIs, MovedTo, SameButPc, SameCall, Silent, IsFresh, Begun
<1>7. SchedulerBegun(p, t)
  BY <1>1, <1>5, <1>6 DEF SchedulerBegun
<1>8. BeginsTx(p, t, 0)
  BY <1>7 DEF BeginsTx
<1>9. Statement(p, t, 0)
  BY <1>1, <1>8, QuietStatement
<1> QED
  BY <1>9

\* Each activity.ready event is a statement.
LEMMA PromotedStatements ==
  ASSUME StoreInv, NEW p \in Sessions, LogPromoted(p)
  PROVE  \E t, n : Statement(p, t, n)
<1>1. PICK a \in tx[p].hit :
        /\ KeyShareFree(p, WorkflowOf(a))
        /\ Becomes(p, Onward(Logged([tx[p] EXCEPT !.hit = @ \ {a}], WorkflowOf(a),
                                    <<<<a, "activity.ready">>>>)))
  BY DEF LogPromoted
<1> DEFINE w == WorkflowOf(a)
           u == [tx[p] EXCEPT !.hit = @ \ {a}]
           v == Logged(u, w, <<<<a, "activity.ready">>>>)
           t == Onward(v)
<1>2. Becomes(p, t) /\ tx[p].pc = "promoted" /\ Quiet /\ nextSequence' = nextSequence + 1
  BY <1>1 DEF LogPromoted
<1>3. IsTx(tx[p]) /\ a \in Activities
  BY SessionTx DEF Shape
<1>4. TxIs(u, tx[p], tx[p].pc, tx[p].rows, tx[p].wfs, tx[p].todo, tx[p].hit \ {a})
  BY <1>3, HitTx
<1> HIDE DEF u
<1>5. WithEntries(u, w, v, {Entry(nextSequence + 1, w, a, "activity.ready")})
  BY <1>4, LoggedOne DEF TxIs, SameCall
<1> HIDE DEF v
<1>6. MovedTo(v, t, NextPlace(v))
  BY <1>5, OnwardTx DEF WithEntries
<1> HIDE DEF t
<1>7. t.pc = PlaceAfter("promoted", t.todo, t.hit, t.op) /\ t.wfs = tx[p].wfs
  BY <1>2, <1>4, <1>5, <1>6 DEF TxIs, WithEntries, MovedTo, SameButPc, SameButLog, NextPlace, SameCall
<1>8. HitLogged(p, "promoted", a, {Entry(nextSequence + 1, w, a, "activity.ready")}, t)
  BY <1>2, <1>4, <1>5, <1>6, <1>7 DEF HitLogged, TxIs, WithEntries, MovedTo, SameButPc, SameButLog,
                                      SameCall, Silent, Logs
<1>9. LogsRow(p, t, 1)
  BY <1>1, <1>3, <1>7, <1>8 DEF LogsRow
<1>10. Statement(p, t, 1)
  BY <1>2, <1>9, QuietStatement
<1> QED
  BY <1>10

\* Each expired lease that is logged is a statement, with its workflow if it failed.
LEMMA ExpiredStatements ==
  ASSUME StoreInv, NEW p \in Sessions, LogExpired(p)
  PROVE  \E t, n : Statement(p, t, n)
<1>0. tx[p].pc = "expired" /\ IsTx(tx[p]) /\ Quiet /\ tx[p].hit \subseteq Activities
  BY SessionTx DEF Shape, LogExpired
<1>1. CASE \E a \in tx[p].hit :
             /\ Row(p, a).status = "failed"
             /\ NoKeyFree(p, WorkflowOf(a))
             /\ Becomes(p, Onward(Logged([[tx[p] EXCEPT !.hit = @ \ {a}]
                                            EXCEPT !.wfs = Put(@, WorkflowOf(a), "failed")],
                  WorkflowOf(a),
                  <<<<WorkflowOf(a), "workflow.failed">>, <<a, "activity.lease_expired_failed">>>>)))
             /\ nextSequence' = nextSequence + 2
  <2>1. PICK a \in tx[p].hit :
             /\ Row(p, a).status = "failed"
             /\ NoKeyFree(p, WorkflowOf(a))
             /\ Becomes(p, Onward(Logged([[tx[p] EXCEPT !.hit = @ \ {a}]
                                            EXCEPT !.wfs = Put(@, WorkflowOf(a), "failed")],
                  WorkflowOf(a),
                  <<<<WorkflowOf(a), "workflow.failed">>, <<a, "activity.lease_expired_failed">>>>)))
             /\ nextSequence' = nextSequence + 2
    BY <1>1
  <2> DEFINE w == WorkflowOf(a)
             s == [tx[p] EXCEPT !.hit = @ \ {a}]
             u == [s EXCEPT !.wfs = Put(@, w, "failed")]
             v == Logged(u, w, <<<<w, "workflow.failed">>, <<a, "activity.lease_expired_failed">>>>)
             t == Onward(v)
             new == {Entry(nextSequence + 1, w, w, "workflow.failed"),
                     Entry(nextSequence + 2, w, a, "activity.lease_expired_failed")}
  <2>2. Becomes(p, t)
    BY <2>1
  <2>3. TxIs(s, tx[p], tx[p].pc, tx[p].rows, tx[p].wfs, tx[p].todo, tx[p].hit \ {a})
    BY <1>0, HitTx
  <2> HIDE DEF s
  <2>4. TxIs(u, s, s.pc, s.rows, Put(s.wfs, w, "failed"), s.todo, s.hit)
    BY <2>3, WorkflowTx DEF TxIs, SameCall
  <2> HIDE DEF u
  <2>5. WithEntries(u, w, v, new)
    BY <2>4, LoggedTwo DEF TxIs, SameCall
  <2> HIDE DEF v
  <2>6. MovedTo(v, t, NextPlace(v))
    BY <2>5, OnwardTx DEF WithEntries
  <2> HIDE DEF t, new
  <2>7. IsPut(Put(tx[p].wfs, w, "failed"), tx[p].wfs, w, "failed")
    BY PutRow
  <2>8. IsPut(t.wfs, tx[p].wfs, w, "failed")
    BY <2>3, <2>4, <2>5, <2>6, <2>7 DEF TxIs, WithEntries, MovedTo, SameButPc, SameButLog
  <2>9. t.pc = PlaceAfter("expired", t.todo, t.hit, t.op)
    BY <1>0, <2>3, <2>4, <2>5, <2>6 DEF TxIs, WithEntries, MovedTo, SameButPc, SameButLog, NextPlace,
                                        SameCall
  <2>10. HitLogged(p, "expired", a, new, t)
    BY <1>0, <2>3, <2>4, <2>5, <2>6, <2>9 DEF HitLogged, TxIs, WithEntries, MovedTo, SameButPc,
                                              SameButLog, SameCall, Silent, Logs
  <2>11. LogsRow(p, t, 2)
    BY <1>0, <2>1, <2>8, <2>10 DEF LogsRow, new
  <2>12. Statement(p, t, 2)
    BY <1>0, <2>1, <2>2, <2>11, QuietStatement
  <2> QED
    BY <2>12
<1>2. CASE \E a \in tx[p].hit :
             /\ Row(p, a).status = "ready"
             /\ KeyShareFree(p, WorkflowOf(a))
             /\ Becomes(p, Onward(Logged([tx[p] EXCEPT !.hit = @ \ {a}], WorkflowOf(a),
                                         <<<<a, "activity.lease_expired">>>>)))
             /\ nextSequence' = nextSequence + 1
  <2>1. PICK a \in tx[p].hit :
             /\ Row(p, a).status = "ready"
             /\ KeyShareFree(p, WorkflowOf(a))
             /\ Becomes(p, Onward(Logged([tx[p] EXCEPT !.hit = @ \ {a}], WorkflowOf(a),
                                         <<<<a, "activity.lease_expired">>>>)))
             /\ nextSequence' = nextSequence + 1
    BY <1>2
  <2> DEFINE w == WorkflowOf(a)
             u == [tx[p] EXCEPT !.hit = @ \ {a}]
             v == Logged(u, w, <<<<a, "activity.lease_expired">>>>)
             t == Onward(v)
  <2>2. Becomes(p, t)
    BY <2>1
  <2>3. TxIs(u, tx[p], tx[p].pc, tx[p].rows, tx[p].wfs, tx[p].todo, tx[p].hit \ {a})
    BY <1>0, HitTx
  <2> HIDE DEF u
  <2>4. WithEntries(u, w, v, {Entry(nextSequence + 1, w, a, "activity.lease_expired")})
    BY <2>3, LoggedOne DEF TxIs, SameCall
  <2> HIDE DEF v
  <2>5. MovedTo(v, t, NextPlace(v))
    BY <2>4, OnwardTx DEF WithEntries
  <2> HIDE DEF t
  <2>6. t.pc = PlaceAfter("expired", t.todo, t.hit, t.op) /\ t.wfs = tx[p].wfs
    BY <1>0, <2>3, <2>4, <2>5 DEF TxIs, WithEntries, MovedTo, SameButPc, SameButLog, NextPlace, SameCall
  <2>7. HitLogged(p, "expired", a, {Entry(nextSequence + 1, w, a, "activity.lease_expired")}, t)
    BY <1>0, <2>3, <2>4, <2>5, <2>6 DEF HitLogged, TxIs, WithEntries, MovedTo, SameButPc, SameButLog,
                                        SameCall, Silent, Logs
  <2>8. LogsRow(p, t, 1)
    BY <1>0, <2>1, <2>6, <2>7 DEF LogsRow
  <2>9. Statement(p, t, 1)
    BY <1>0, <2>1, <2>2, <2>8, QuietStatement
  <2> QED
    BY <2>9
<1> QED
  BY <1>1, <1>2 DEF LogExpired

\* Each event of Cancel is a statement.
LEMMA CancelLogStatements ==
  ASSUME StoreInv, NEW p \in Sessions, CancelLog(p)
  PROVE  \E t, n : Statement(p, t, n)
<1>0. /\ tx[p].pc = "dropped" /\ IsTx(tx[p]) /\ Quiet /\ nextSequence' = nextSequence + 1
      /\ tx[p].hit \subseteq Activities /\ DOMAIN tx[p].wfs \subseteq Workflows
  BY SessionTx DEF Shape, CancelLog
<1>1. PICK w \in DOMAIN tx[p].wfs :
       \/ \E a \in tx[p].hit :
            Becomes(p, Logged([tx[p] EXCEPT !.hit = @ \ {a}], w, <<<<a, "activity.cancelled">>>>))
       \/ /\ tx[p].hit = {}
          /\ Becomes(p, Logged([tx[p] EXCEPT !.pc = "commit"], w, <<<<w, "workflow.cancelled">>>>))
  BY DEF CancelLog
<1>2. CASE \E a \in tx[p].hit :
            Becomes(p, Logged([tx[p] EXCEPT !.hit = @ \ {a}], w, <<<<a, "activity.cancelled">>>>))
  <2>1. PICK a \in tx[p].hit :
            Becomes(p, Logged([tx[p] EXCEPT !.hit = @ \ {a}], w, <<<<a, "activity.cancelled">>>>))
    BY <1>2
  <2> DEFINE u == [tx[p] EXCEPT !.hit = @ \ {a}]
             t == Logged(u, w, <<<<a, "activity.cancelled">>>>)
  <2>2. TxIs(u, tx[p], tx[p].pc, tx[p].rows, tx[p].wfs, tx[p].todo, tx[p].hit \ {a})
    BY <1>0, HitTx
  <2>3. Becomes(p, t)
    BY <2>1
  <2> HIDE DEF u
  <2>4. WithEntries(u, w, t, {Entry(nextSequence + 1, w, a, "activity.cancelled")})
    BY <2>2, LoggedOne DEF TxIs, SameCall
  <2> HIDE DEF t
  <2>5. CancelRowLogged(p, w, a, t)
    BY <1>0, <2>2, <2>4 DEF CancelRowLogged, TxIs, WithEntries, SameButLog, SameCall, SameTables,
                            Silent, Logs
  <2>6. LogsRow(p, t, 1)
    BY <1>0, <2>5 DEF LogsRow
  <2>7. Statement(p, t, 1)
    BY <1>0, <2>3, <2>6, QuietStatement
  <2> QED
    BY <2>7
<1>3. CASE tx[p].hit = {} /\
           Becomes(p, Logged([tx[p] EXCEPT !.pc = "commit"], w, <<<<w, "workflow.cancelled">>>>))
  <2> DEFINE u == [tx[p] EXCEPT !.pc = "commit"]
             t == Logged(u, w, <<<<w, "workflow.cancelled">>>>)
  <2>1. MovedTo(tx[p], u, "commit")
    BY <1>0, AtPlace
  <2>2. Becomes(p, t)
    BY <1>3
  <2> HIDE DEF u
  <2>3. WithEntries(u, w, t, {Entry(nextSequence + 1, w, w, "workflow.cancelled")})
    BY <2>1, LoggedOne DEF MovedTo
  <2> HIDE DEF t
  <2>4. CancelDone(p, w, t)
    BY <1>0, <1>3, <2>1, <2>3 DEF CancelDone, MovedTo, SameButPc, WithEntries, SameButLog, SameCall,
                                  SameTables, SameLoop, Logs
  <2>5. MovesOn(p, t, 1)
    BY <1>0, <2>4 DEF MovesOn
  <2>6. Statement(p, t, 1)
    BY <1>0, <2>2, <2>5, QuietStatement
  <2> QED
    BY <2>6
<1> QED
  BY <1>1, <1>2, <1>3

\* A rollback is a statement that leaves the session idle.
LEMMA AbortStatements ==
  ASSUME StoreInv, NEW p \in Sessions, Abort(p)
  PROVE  \E t, n : Statement(p, t, n)
<1>1. nextSequence \in Nat /\ aborts \in 0 .. MaxAborts /\ MaxAborts \in Nat
  BY PgAssumption DEF StoreInv, TypeOK
<1>2. aborts' \in 0 .. MaxAborts /\ nextSequence' = nextSequence + 0
  BY <1>1 DEF Abort
<1>3. MovesOn(p, Idle, 0)
  BY DEF MovesOn
<1>4. Statement(p, Idle, 0)
  BY <1>2, <1>3 DEF Abort, Statement
<1> QED
  BY <1>4

\* Every step of a session is a commit or one of the statements above.
LEMMA StepCases ==
  ASSUME StoreInv, NEW p \in Sessions, Step(p)
  PROVE  UNCHANGED vars \/ Commit(p) \/ \E t, n : Statement(p, t, n)
<1>1. CASE \E worker \in Workers : ClaimPick(p, worker)
  BY <1>1, ClaimStatements
<1>2. CASE ClaimLog(p)
  BY <1>2, ClaimLogStatements
<1>3. CASE \E c \in claims : \/ WorkerCallBegin(p, "Heartbeat", c, FALSE)
                             \/ WorkerCallBegin(p, "Complete", c, FALSE)
                             \/ \E r \in BOOLEAN : WorkerCallBegin(p, "Fail", c, r)
  <2>1. PICK c \in claims : \E op \in LeaseOps, r \in BOOLEAN : WorkerCallBegin(p, op, c, r)
    BY <1>3 DEF LeaseOps
  <2> QED
    BY <2>1, CallStatements
<1>4. CASE lockActivity(p) \/ Stale(p)
  BY <1>4, LockStatements, StaleStatements
<1>5. CASE HeartbeatWrite(p) \/ CompleteWrite(p) \/ FailRetry(p) \/ FailFinally(p)
  BY <1>5, ResultStatements, FailStatements
<1>6. CASE releaseReady(p) \/ Promote(p) \/ LogPromoted(p)
  BY <1>6, ReleaseStatements, VisitStatements, PromotedStatements
<1>7. CASE DoneCheck(p) \/ CloseWorkflow(p)
  BY <1>7, CloseStatements
<1>8. CASE \E w \in Workflows : CancelLock(p, w)
  BY <1>8, CancelStatements
<1>9. CASE CancelDrop(p) \/ CancelLog(p)
  BY <1>9, VisitStatements, CancelLogStatements
<1>10. CASE SchedulerBegin(p) \/ Expire(p) \/ LogExpired(p)
  BY <1>10, SchedulerStatements, VisitStatements, ExpiredStatements
<1>11. CASE Abort(p)
  BY <1>11, AbortStatements
<1> QED
  BY <1>1, <1>2, <1>3, <1>4, <1>5, <1>6, <1>7, <1>8, <1>9, <1>10, <1>11 DEF Step

-----------------------------------------------------------------------------
(* Statements keep the rows one transition away.                           *)

\* New events have the numbers drawn by the step, each its own.
NewNumbers(p, t, n) ==
  /\ \A e \in t.log \ tx[p].log : e.sequence \in nextSequence + 1 .. nextSequence + n
  /\ \A e, f \in t.log \ tx[p].log : e.sequence = f.sequence => e = f

TxFits(p, t, n) ==
  /\ n \in Nat /\ Shape(t) /\ Place(t) /\ RowsMoved(t) /\ RowLocked(t) /\ ClaimKnown(t)
  /\ \A a \in DOMAIN t.rows \ DOMAIN tx[p].rows : RowFree(p, a)
  /\ NewNumbers(p, t, n)

\* A lease lasts a number of seconds.
LEMMA LeaseSeconds == leaseSeconds \in Nat
BY PgAssumption DEF leaseSeconds

\* Rows, committed or read by a session, are well typed, and so is the plan.
LEMMA RowsTyped ==
  ASSUME StoreInv, NEW p \in Sessions, NEW a \in Activities
  PROVE  /\ activities[a] \in Rows /\ Row(p, a) \in Rows
         /\ Plan[a].maxAttempts \in Nat \ {0} /\ Plan[a].backoff \in Nat
         /\ Plan[a].workflow \in Workflows
BY PgAssumption, SessionTx DEF StoreInv, TypeOK, Row, RowsMoved

\* What p has not written it reads as committed.
LEMMA ReadsCommitted ==
  ASSUME NEW p, NEW a, a \notin DOMAIN tx[p].rows
  PROVE  Row(p, a) = activities[a]
BY DEF Row

\* A statement that logs nothing draws no number.
LEMMA NumbersNone ==
  ASSUME StoreInv, NEW p \in Sessions, NEW t, t.log \subseteq tx[p].log
  PROVE  NewNumbers(p, t, 0)
BY DEF NewNumbers

\* A statement that logs one event draws one.
LEMMA NumbersOne ==
  ASSUME StoreInv, NEW p \in Sessions, NEW t, NEW w, NEW v, NEW a, NEW type,
         Logs(tx[p], t, w, {Entry(nextSequence + 1, v, a, type)})
  PROVE  NewNumbers(p, t, 1)
<1>1. nextSequence \in Nat
  BY SessionTx
<1> DEFINE e == Entry(nextSequence + 1, v, a, type)
<1>2. e.sequence = nextSequence + 1
  BY DEF Entry
<1>3. t.log \ tx[p].log \subseteq {e}
  BY DEF Logs
<1> HIDE DEF e
<1> QED
  BY <1>1, <1>2, <1>3 DEF NewNumbers

\* A statement that logs two events draws two.
LEMMA NumbersTwo ==
  ASSUME StoreInv, NEW p \in Sessions, NEW t, NEW w, NEW v, NEW a, NEW b, NEW type1, NEW type2,
         Logs(tx[p], t, w, {Entry(nextSequence + 1, v, a, type1), Entry(nextSequence + 2, v, b, type2)})
  PROVE  NewNumbers(p, t, 2)
<1>1. nextSequence \in Nat
  BY SessionTx
<1> DEFINE e == Entry(nextSequence + 1, v, a, type1)
           f == Entry(nextSequence + 2, v, b, type2)
<1>2. e.sequence = nextSequence + 1 /\ f.sequence = nextSequence + 2
  BY DEF Entry
<1>3. t.log \ tx[p].log \subseteq {e, f}
  BY DEF Logs
<1> HIDE DEF e, f
<1> QED
  BY <1>1, <1>2, <1>3 DEF NewNumbers

\* A claim is a transition of a ready row.
LEMMA ClaimedRow ==
  ASSUME NEW a, NEW old \in Rows, old.status = "ready", NEW worker \in Workers, NEW time \in Nat, NEW new,
         new = [old EXCEPT !.status = "running", !.attempt = @ + 1, !.owner = worker, !.token = @ + 1,
                           !.expires = time]
  PROVE  new \in Rows /\ Moves("Claim", a, old, new)
<1>0. old.attempt + 1 \in Nat /\ old.token + 1 \in Nat /\ worker \in Workers \cup {NoOwner}
  BY DEF Rows
<1>1. new \in Rows
  BY <1>0 DEF Rows
<1>2. /\ new.status = "running" /\ new.owner = worker /\ new.token = old.token + 1
      /\ new.attempt = old.attempt + 1
  BY DEF Rows
<1> QED
  BY <1>1, <1>2 DEF Moves

\* Transactions begin within the invariant.
LEMMA BeginsFits ==
  ASSUME StoreInv, NEW p \in Sessions, NEW t, NEW n, BeginsTx(p, t, n)
  PROVE  TxFits(p, t, n)
<1>0. now \in Nat
  BY DEF StoreInv, TypeOK
<1>1. n = 0 /\ t.log = {} /\ t.hit = {} /\ IsTx(t) /\ t.at \in Nat /\ t.retryable \in BOOLEAN
  BY <1>0 DEF BeginsTx, Picked, Called, CancelBegun, SchedulerBegun, Begun
<1>2. NewNumbers(p, t, n)
  BY <1>1, NumbersNone
<1>3. CASE \E worker \in Workers, a \in Activities : Picked(p, a, worker, t)
  <2>1. PICK worker \in Workers, a \in Activities : Picked(p, a, worker, t)
    BY <1>3
  <2>2. /\ activities[a].status = "ready" /\ RowFree(p, a) /\ DOMAIN t.rows = {a}
        /\ t.rows[a] = [activities[a] EXCEPT !.status = "running", !.attempt = @ + 1, !.owner = worker,
                                             !.token = @ + 1, !.expires = now + leaseSeconds]
        /\ t.op = "Claim" /\ t.pc = "log" /\ t.todo = {} /\ DOMAIN t.wfs = {}
    BY <2>1 DEF Picked, Pickable, Begun
  <2>3. t.rows[a] \in Rows /\ Moves("Claim", a, activities[a], t.rows[a])
    <3>1. activities[a] \in Rows /\ now + leaseSeconds \in Nat
      BY <1>0, LeaseSeconds, RowsTyped
    <3> QED
      BY <2>2, <3>1, ClaimedRow
  <2>4. Shape(t)
    BY <1>1, <2>2 DEF Shape
  <2>5. Place(t) /\ RowsMoved(t) /\ RowLocked(t) /\ ClaimKnown(t)
    BY <2>2, <2>3 DEF Place, RowsMoved, RowLocked, ClaimKnown, LeaseOps
  <2> QED
    BY <1>1, <1>2, <2>2, <2>4, <2>5 DEF TxFits
<1>4. CASE \E op \in LeaseOps, c \in claims : Called(p, op, c, t)
  <2>1. /\ t.op \in LeaseOps /\ t.claim \in claims /\ t.pc = "lock" /\ DOMAIN t.rows = {}
        /\ t.todo = {} /\ DOMAIN t.wfs = {}
    BY <1>4 DEF Called, Begun
  <2>2. Shape(t)
    BY <1>1, <2>1 DEF Shape
  <2>3. Place(t) /\ RowsMoved(t) /\ RowLocked(t) /\ ClaimKnown(t)
    BY <2>1 DEF Place, RowsMoved, RowLocked, ClaimKnown
  <2> QED
    BY <1>1, <1>2, <2>1, <2>2, <2>3 DEF TxFits
<1>5. CASE \E w \in Workflows : CancelBegun(p, w, t)
  <2>1. /\ t.op = "Cancel" /\ t.pc \in {"drop", "dropped"} /\ DOMAIN t.rows = {}
        /\ t.todo \subseteq Activities
    BY <1>5 DEF CancelBegun, Begun, PlaceAfter
  <2>2. DOMAIN t.wfs \subseteq Workflows /\ \A w \in DOMAIN t.wfs : t.wfs[w] \in WorkflowStatus
    BY <1>5 DEF CancelBegun, WorkflowStatus
  <2>3. Shape(t)
    BY <1>1, <2>1, <2>2 DEF Shape
  <2>4. Place(t) /\ RowsMoved(t) /\ RowLocked(t) /\ ClaimKnown(t)
    BY <2>1 DEF Place, RowsMoved, RowLocked, ClaimKnown, LeaseOps
  <2> QED
    BY <1>1, <1>2, <2>1, <2>3, <2>4 DEF TxFits
<1>6. CASE SchedulerBegun(p, t)
  <2>1. /\ t.op = "RunSchedulerPass" /\ t.pc \in {"expire", "expired", "release"}
        /\ DOMAIN t.rows = {} /\ t.todo \subseteq Activities /\ DOMAIN t.wfs = {}
    BY <1>6 DEF SchedulerBegun, Begun, PlaceAfter
  <2>2. Shape(t)
    BY <1>1, <2>1 DEF Shape
  <2>3. Place(t) /\ RowsMoved(t) /\ RowLocked(t) /\ ClaimKnown(t)
    BY <2>1 DEF Place, RowsMoved, RowLocked, ClaimKnown, LeaseOps
  <2> QED
    BY <1>1, <1>2, <2>1, <2>2, <2>3 DEF TxFits
<1> QED
  BY <1>3, <1>4, <1>5, <1>6 DEF BeginsTx

\* A statement that writes no activity.
LEMMA KeepsRowsFits ==
  ASSUME StoreInv, NEW p \in Sessions, NEW t, NEW n \in Nat, SameCall(tx[p], t), t.rows = tx[p].rows,
         Place(t), t.pc \notin {"lock", "write", "stale"}, t.todo \subseteq Activities, t.hit \subseteq tx[p].hit,
         \/ t.wfs = tx[p].wfs
         \/ \E w \in Workflows, status \in WorkflowStatus : IsPut(t.wfs, tx[p].wfs, w, status),
         NewNumbers(p, t, n)
  PROVE  TxFits(p, t, n)
<1>1. Shape(tx[p]) /\ RowsMoved(tx[p]) /\ ClaimKnown(tx[p])
  BY SessionTx
<1>2. DOMAIN t.wfs \subseteq Workflows /\ \A w \in DOMAIN t.wfs : t.wfs[w] \in WorkflowStatus
  BY <1>1 DEF Shape, IsPut
<1>3. Shape(t)
  BY <1>1, <1>2 DEF Shape, SameCall
<1>4. RowsMoved(t) /\ RowLocked(t) /\ ClaimKnown(t)
  BY <1>1 DEF RowsMoved, RowLocked, ClaimKnown, SameCall
<1> QED
  BY <1>3, <1>4 DEF TxFits

\* A statement that writes the row of a, which p had as committed or not at all.
LEMMA WritesRowFits ==
  ASSUME StoreInv, NEW p \in Sessions, NEW t, NEW n \in Nat, SameCall(tx[p], t),
         NEW a \in Activities, NEW row \in Rows, IsPut(t.rows, tx[p].rows, a, row),
         a \in DOMAIN tx[p].rows \/ RowFree(p, a), Moves(tx[p].op, a, activities[a], row),
         Place(t), t.pc \notin {"lock", "write", "stale"}, t.todo \subseteq Activities,
         t.hit \subseteq tx[p].hit \cup {a},
         \/ t.wfs = tx[p].wfs
         \/ \E w \in Workflows, status \in WorkflowStatus : IsPut(t.wfs, tx[p].wfs, w, status),
         NewNumbers(p, t, n)
  PROVE  TxFits(p, t, n)
<1>1. Shape(tx[p]) /\ RowsMoved(tx[p]) /\ ClaimKnown(tx[p])
  BY SessionTx
<1>2. DOMAIN t.wfs \subseteq Workflows /\ \A w \in DOMAIN t.wfs : t.wfs[w] \in WorkflowStatus
  BY <1>1 DEF Shape, IsPut
<1>3. Shape(t)
  BY <1>1, <1>2 DEF Shape, SameCall, IsPut
<1>4. RowsMoved(t)
  BY <1>1 DEF RowsMoved, SameCall, IsPut
<1>5. RowLocked(t) /\ ClaimKnown(t)
  BY <1>1 DEF RowLocked, ClaimKnown, SameCall
<1>6. \A b \in DOMAIN t.rows \ DOMAIN tx[p].rows : RowFree(p, b)
  BY DEF IsPut
<1> QED
  BY <1>3, <1>4, <1>5, <1>6 DEF TxFits

\* A session about to write holds the running row of its claim.
LEMMA HeldRow ==
  ASSUME StoreInv, NEW p \in Sessions, tx[p].pc = "write"
  PROVE  /\ tx[p].op \in LeaseOps /\ Subject(p) \in Activities
         /\ DOMAIN tx[p].rows = {Subject(p)}
         /\ Row(p, Subject(p)) = activities[Subject(p)] /\ activities[Subject(p)] \in Rows
         /\ activities[Subject(p)].status = "running"
<1>1. Shape(tx[p]) /\ RowsMoved(tx[p]) /\ RowLocked(tx[p]) /\ Place(tx[p])
  BY SessionTx
<1>2. tx[p].op \in LeaseOps
  BY <1>1, EmptyTx DEF Place
<1>3. DOMAIN tx[p].rows = {Subject(p)} /\ tx[p].rows[Subject(p)] = activities[Subject(p)]
  BY <1>1 DEF RowLocked, Subject
<1>4. Subject(p) \in Activities
  BY <1>1, <1>3 DEF Shape
<1>5. Moves(tx[p].op, Subject(p), activities[Subject(p)], activities[Subject(p)])
  BY <1>1, <1>3 DEF RowsMoved
<1>6. activities[Subject(p)] \in Rows
  BY <1>4, RowsTyped
<1>7. activities[Subject(p)].status = "running"
  BY <1>2, <1>5, <1>6 DEF Moves, LeaseOps, Rows, Pending
<1> QED
  BY <1>2, <1>3, <1>4, <1>6, <1>7 DEF Row

\* Giving up a lease changes the status and the owner only.
LEMMA FreedRow ==
  ASSUME NEW row \in Rows, NEW status \in {"ready", "running", "retry_pending", "completed", "failed",
                                           "cancelled"}
  PROVE  /\ Freed(row, status) \in Rows /\ Freed(row, status).status = status
         /\ Freed(row, status).owner = NoOwner /\ Freed(row, status).token = row.token
         /\ Freed(row, status).attempt = row.attempt
BY DEF Freed, Rows

\* A heartbeat is a transition of a running row.
LEMMA ExtendedRow ==
  ASSUME NEW a, NEW old \in Rows, old.status = "running", NEW time \in Nat
  PROVE  /\ [old EXCEPT !.expires = time] \in Rows
         /\ Moves("Heartbeat", a, old, [old EXCEPT !.expires = time])
<1> DEFINE new == [old EXCEPT !.expires = time]
<1>1. new \in Rows
  BY DEF Rows
<1>2. /\ new.status = old.status /\ new.owner = old.owner /\ new.token = old.token
      /\ new.attempt = old.attempt
  BY DEF Rows
<1> HIDE DEF new
<1>3. Moves("Heartbeat", a, old, new)
  BY <1>2 DEF Moves
<1> QED
  BY <1>1, <1>3 DEF new

\* A backoff changes nothing but the time.
LEMMA DelayedRow ==
  ASSUME NEW old \in Rows, NEW time \in Nat
  PROVE  /\ [old EXCEPT !.nextAt = time] \in Rows
         /\ [old EXCEPT !.nextAt = time].status = old.status
         /\ [old EXCEPT !.nextAt = time].owner = old.owner
         /\ [old EXCEPT !.nextAt = time].token = old.token
         /\ [old EXCEPT !.nextAt = time].attempt = old.attempt
BY DEF Rows

\* The time of the next attempt is a number.
LEMMA RetryTime ==
  ASSUME NEW x \in Nat, NEW m \in Nat, NEW k \in Nat
  PROVE  x + (m * k) \div 1000 \in Nat
<1>1. m * k \in Nat
  OBVIOUS
<1> DEFINE y == m * k
<1> HIDE DEF y
<1>2. y \in Nat
  BY <1>1 DEF y
<1>3. x + y \div 1000 \in Nat
  BY <1>2
<1> QED
  BY <1>3 DEF y

\* Results are transitions of the row that is held.
LEMMA WritesFits ==
  ASSUME StoreInv, NEW p \in Sessions, NEW t, NEW n, WritesResult(p, t, n)
  PROVE  TxFits(p, t, n)
<1> DEFINE a == Subject(p)
           row == Row(p, a)
<1>0. Shape(tx[p]) /\ Place(tx[p]) /\ nextSequence \in Nat
  BY SessionTx
<1>1. CASE n = 1 /\ \E e \in DOMAIN tx[p].rows :
             tx[p].op = "Claim" /\ Noted(p, "log", e, "activity.claimed", t)
  <2>1. PICK e \in DOMAIN tx[p].rows : tx[p].op = "Claim" /\ Noted(p, "log", e, "activity.claimed", t)
    BY <1>1
  <2>2. NewNumbers(p, t, 1)
    BY <2>1, NumbersOne DEF Noted
  <2>3. Place(t) /\ t.pc = "commit"
    BY <2>1 DEF Noted, SameCall, Place
  <2> QED
    BY <1>0, <1>1, <2>1, <2>2, <2>3, KeepsRowsFits DEF Noted, SameTables, SameLoop, Shape
<1>2. CASE n = 1 /\ \E type \in {"activity.stale_heartbeat_rejected",
                                 "activity.stale_completion_rejected",
                                 "activity.stale_failure_rejected"} : Noted(p, "stale", a, type, t)
  <2>1. PICK type : Noted(p, "stale", a, type, t)
    BY <1>2
  <2>2. NewNumbers(p, t, 1)
    BY <2>1, NumbersOne DEF Noted
  <2>3. Place(t) /\ t.pc = "commit"
    BY <1>0, <2>1, EmptyTx DEF Noted, SameCall, Place
  <2> QED
    BY <1>0, <1>2, <2>1, <2>2, <2>3, KeepsRowsFits DEF Noted, SameTables, SameLoop, Shape
<1>3. ASSUME n = 1, NEW op \in LeaseOps, NEW new \in Rows, NEW type, NEW pc,
             pc = "commit" \/ (op = "Complete" /\ pc = "release"),
             Moves(op, a, activities[a], new), RowWritten(p, op, new, type, pc, t)
      PROVE  TxFits(p, t, n)
  <2>1. tx[p].pc = "write" /\ tx[p].op = op
    BY <1>3 DEF RowWritten, At
  <2>2. NewNumbers(p, t, 1)
    BY <1>3, NumbersOne DEF RowWritten
  <2>3. Place(t) /\ t.pc \notin {"lock", "write", "stale"}
    BY <1>3, <2>1 DEF RowWritten, SameCall, Place
  <2>4. a \in Activities /\ a \in DOMAIN tx[p].rows
    BY <2>1, HeldRow
  <2> QED
    BY <1>0, <1>3, <2>1, <2>2, <2>3, <2>4, WritesRowFits DEF RowWritten, SameLoop, Shape
<1>4. CASE n = 1 /\ RowWritten(p, "Heartbeat", [row EXCEPT !.expires = tx[p].at + leaseSeconds],
                               "activity.heartbeat", "commit", t)
  <2>1. tx[p].pc = "write"
    BY <1>4 DEF RowWritten, At
  <2>2. row = activities[a] /\ row \in Rows /\ row.status = "running"
    BY <2>1, HeldRow
  <2> DEFINE new == [row EXCEPT !.expires = tx[p].at + leaseSeconds]
  <2>3. tx[p].at + leaseSeconds \in Nat
    BY <1>0, LeaseSeconds DEF Shape
  <2> HIDE DEF row
  <2>4. new \in Rows /\ Moves("Heartbeat", a, row, new)
    BY <2>2, <2>3, ExtendedRow
  <2> QED
    BY <1>3, <1>4, <2>2, <2>4 DEF LeaseOps, row
<1>5. CASE n = 1 /\ RowWritten(p, "Complete", Freed(row, "completed"), "activity.completed", "release", t)
  <2>1. tx[p].pc = "write"
    BY <1>5 DEF RowWritten, At
  <2>2. row = activities[a] /\ row \in Rows /\ row.status = "running"
    BY <2>1, HeldRow
  <2> HIDE DEF row
  <2>3. Freed(row, "completed") \in Rows /\ Moves("Complete", a, row, Freed(row, "completed"))
    BY <2>2, FreedRow DEF Moves
  <2> QED
    BY <1>3, <1>5, <2>2, <2>3 DEF LeaseOps, row
<1>6. CASE /\ n = 1 /\ row.attempt < Plan[a].maxAttempts
           /\ RowWritten(p, "Fail",
                   [Freed(row, "retry_pending") EXCEPT
                      !.nextAt = tx[p].at + (Plan[a].backoff * row.attempt) \div 1000],
                   "activity.retry_scheduled", "commit", t)
  <2>1. tx[p].pc = "write"
    BY <1>6 DEF RowWritten, At
  <2>2. row = activities[a] /\ row \in Rows /\ row.status = "running" /\ a \in Activities
    BY <2>1, HeldRow
  <2> HIDE DEF row
  <2> DEFINE next == tx[p].at + (Plan[a].backoff * row.attempt) \div 1000
             f == Freed(row, "retry_pending")
             new == [f EXCEPT !.nextAt = next]
  <2>3. next \in Nat
    BY <1>0, <2>2, RowsTyped, RetryTime DEF Shape, Rows
  <2>4. /\ f \in Rows /\ f.status = "retry_pending" /\ f.owner = NoOwner /\ f.token = row.token
        /\ f.attempt = row.attempt
    BY <2>2, FreedRow
  <2>5. RowWritten(p, "Fail", new, "activity.retry_scheduled", "commit", t)
    BY <1>6
  <2> HIDE DEF next, f
  <2>6. /\ new \in Rows /\ new.status = "retry_pending" /\ new.owner = NoOwner /\ new.token = row.token
        /\ new.attempt = row.attempt
    BY <2>3, <2>4, DelayedRow
  <2> HIDE DEF new
  <2>7. Moves("Fail", a, row, new)
    BY <1>6, <2>2, <2>6 DEF Moves
  <2> QED
    BY <1>3, <1>6, <2>2, <2>5, <2>6, <2>7 DEF LeaseOps
<1>7. CASE n = 2 /\ FailedFinally(p, t)
  <2>1. tx[p].pc = "write" /\ tx[p].op = "Fail"
    BY <1>7 DEF FailedFinally, At
  <2>2. row = activities[a] /\ row \in Rows /\ row.status = "running" /\ a \in Activities
        /\ a \in DOMAIN tx[p].rows
    BY <2>1, HeldRow
  <2>3. IsPut(t.rows, tx[p].rows, a, Freed(row, "failed"))
    BY <1>7 DEF FailedFinally
  <2> HIDE DEF row
  <2>4. Freed(row, "failed") \in Rows /\ Moves("Fail", a, row, Freed(row, "failed"))
    BY <2>2, FreedRow DEF Moves
  <2>5. NewNumbers(p, t, 2)
    BY <1>7, NumbersTwo DEF FailedFinally
  <2>6. Place(t) /\ t.pc = "commit"
    BY <1>7, <2>1 DEF FailedFinally, SameCall, Place, LeaseOps
  <2>7. \E w \in Workflows, status \in WorkflowStatus : IsPut(t.wfs, tx[p].wfs, w, status)
    <3>1. SubjectWorkflow(p) \in Workflows
      BY <2>2, RowsTyped DEF SubjectWorkflow, WorkflowOf
    <3> QED
      BY <1>7, <3>1 DEF FailedFinally, WorkflowStatus
  <2>8. SameCall(tx[p], t) /\ t.todo = tx[p].todo /\ t.hit = tx[p].hit
    BY <1>7 DEF FailedFinally, SameLoop
  <2> QED
    BY <1>0, <1>7, <2>1, <2>2, <2>3, <2>4, <2>5, <2>6, <2>7, <2>8, WritesRowFits DEF Shape
<1> QED
  BY <1>1, <1>2, <1>4, <1>5, <1>6, <1>7 DEF WritesResult

\* A change of status changes nothing else.
LEMMA StatusRow ==
  ASSUME NEW row \in Rows, NEW status \in {"ready", "running", "retry_pending", "completed", "failed",
                                           "cancelled"}
  PROVE  /\ [row EXCEPT !.status = status] \in Rows /\ [row EXCEPT !.status = status].status = status
         /\ [row EXCEPT !.status = status].owner = row.owner
         /\ [row EXCEPT !.status = status].token = row.token
         /\ [row EXCEPT !.status = status].attempt = row.attempt
BY DEF Rows

\* A row the statement is about to change was not changed before: its WHERE
\* clause would not match any more.
LEMMA VisitedRow ==
  ASSUME StoreInv, NEW p \in Sessions, NEW a \in Activities, NEW pc, tx[p].pc = pc,
         \/ pc = "promote" /\ Row(p, a).status = "retry_pending"
         \/ pc = "expire" /\ Row(p, a).status = "running"
         \/ pc = "drop" /\ Pending(Row(p, a))
  PROVE  /\ a \notin DOMAIN tx[p].rows /\ Row(p, a) = activities[a]
         /\ pc = "promote" => tx[p].op \in {"Complete", "RunSchedulerPass"}
         /\ pc = "expire" => tx[p].op = "RunSchedulerPass"
         /\ pc = "drop" => tx[p].op = "Cancel"
<1>1. Place(tx[p]) /\ RowsMoved(tx[p])
  BY SessionTx
<1>2. /\ pc = "promote" => tx[p].op \in {"Complete", "RunSchedulerPass"}
      /\ pc = "expire" => tx[p].op = "RunSchedulerPass"
      /\ pc = "drop" => tx[p].op = "Cancel"
  BY <1>1, EmptyTx DEF Place
<1>3. ASSUME a \in DOMAIN tx[p].rows PROVE FALSE
  <2>1. Moves(tx[p].op, a, activities[a], tx[p].rows[a]) /\ Row(p, a) = tx[p].rows[a]
    BY <1>1, <1>3 DEF RowsMoved, Row
  <2>2. CASE pc = "promote" /\ Row(p, a).status = "retry_pending"
    BY <1>2, <2>1, <2>2 DEF Moves, LeaseOps
  <2>3. CASE pc = "expire" /\ Row(p, a).status = "running"
    BY <1>2, <2>1, <2>3 DEF Moves, LeaseOps
  <2>4. CASE pc = "drop" /\ Pending(Row(p, a))
    BY <1>2, <2>1, <2>4 DEF Moves, LeaseOps, Pending
  <2> QED
    BY <2>2, <2>3, <2>4
<1> QED
  BY <1>2, <1>3 DEF Row

\* Where a loop can be once a row is done.
LEMMA LoopPlace ==
  ASSUME StoreInv, NEW p \in Sessions, NEW t, SameCall(tx[p], t), NEW pc, tx[p].pc = pc,
         pc \in {"expire", "expired", "promote", "promoted", "drop", "dropped"},
         t.pc = PlaceAfter(pc, t.todo, t.hit, t.op)
  PROVE  Place(t) /\ t.pc \notin {"lock", "write", "stale"}
<1>1. Place(tx[p]) /\ t.op = tx[p].op
  BY SessionTx DEF SameCall
<1>2. CASE pc \in {"expire", "expired"}
  <2>1. t.op = "RunSchedulerPass"
    BY <1>1, <1>2, EmptyTx DEF Place
  <2>2. t.pc \in {"expire", "expired", "release"}
    BY <1>2 DEF PlaceAfter
  <2> QED
    BY <2>1, <2>2 DEF Place
<1>3. CASE pc \in {"promote", "promoted"}
  <2>1. t.op \in {"Complete", "RunSchedulerPass"}
    BY <1>1, <1>3, EmptyTx DEF Place
  <2>2. t.pc \in {"promote", "promoted"} \/ t.pc = IF t.op = "Complete" THEN "finish" ELSE "commit"
    BY <1>3 DEF PlaceAfter
  <2> QED
    BY <2>1, <2>2 DEF Place
<1>4. CASE pc \in {"drop", "dropped"}
  <2>1. t.op = "Cancel"
    BY <1>1, <1>4, EmptyTx DEF Place
  <2>2. t.pc \in {"drop", "dropped"}
    BY <1>4 DEF PlaceAfter
  <2> QED
    BY <2>1, <2>2 DEF Place
<1> QED
  BY <1>2, <1>3, <1>4

\* A row visited is free, and makes one transition from what is committed.
LEMMA VisitsFits ==
  ASSUME StoreInv, NEW p \in Sessions, NEW t, NEW n, VisitsRow(p, t, n)
  PROVE  TxFits(p, t, n)
<1>0. Shape(tx[p]) /\ n = 0
  BY SessionTx DEF VisitsRow
<1>1. ASSUME NEW a \in Activities, NEW pc \in {"promote", "expire", "drop"}, NEW new \in Rows,
             Moves(tx[p].op, a, activities[a], new), RowVisited(p, pc, a, new, t)
      PROVE  TxFits(p, t, 0)
  <2>1. /\ SameCall(tx[p], t) /\ IsPut(t.rows, tx[p].rows, a, new) /\ RowFree(p, a)
        /\ t.todo \subseteq Activities /\ t.hit \subseteq tx[p].hit \cup {a} /\ t.wfs = tx[p].wfs
        /\ t.log = tx[p].log
    BY <1>0, <1>1 DEF RowVisited, Silent, Shape
  <2>2. Place(t) /\ t.pc \notin {"lock", "write", "stale"}
    BY <1>1, <2>1, LoopPlace DEF RowVisited
  <2>3. NewNumbers(p, t, 0)
    BY <2>1, NumbersNone
  <2> QED
    BY <1>1, <2>1, <2>2, <2>3, WritesRowFits
<1>2. ASSUME NEW a \in Activities, NEW pc \in {"promote", "expire", "drop"}, RowSkipped(p, pc, a, t)
      PROVE  TxFits(p, t, 0)
  <2>1. /\ SameCall(tx[p], t) /\ t.rows = tx[p].rows /\ t.wfs = tx[p].wfs
        /\ t.todo \subseteq Activities /\ t.hit \subseteq tx[p].hit /\ t.log = tx[p].log
    BY <1>0, <1>2 DEF RowSkipped, Silent, Shape, SameTables
  <2>2. Place(t) /\ t.pc \notin {"lock", "write", "stale"}
    BY <1>2, <2>1, LoopPlace DEF RowSkipped
  <2>3. NewNumbers(p, t, 0)
    BY <2>1, NumbersNone
  <2> QED
    BY <1>2, <2>1, <2>2, <2>3, KeepsRowsFits
<1>3. PICK a \in Activities :
        \/ /\ Row(p, a).status = "retry_pending"
           /\ RowVisited(p, "promote", a, [Row(p, a) EXCEPT !.status = "ready"], t)
        \/ /\ Row(p, a).status = "running"
           /\ RowVisited(p, "expire", a, Freed(Row(p, a), IF Row(p, a).attempt < Plan[a].maxAttempts
                                                          THEN "ready" ELSE "failed"), t)
        \/ /\ Pending(Row(p, a))
           /\ RowVisited(p, "drop", a, [Row(p, a) EXCEPT !.status = "cancelled"], t)
        \/ \E pc \in {"promote", "expire", "drop"} : RowSkipped(p, pc, a, t)
  BY DEF VisitsRow
<1> DEFINE row == Row(p, a)
<1>4. row \in Rows
  BY RowsTyped
<1>5. CASE /\ row.status = "retry_pending"
           /\ RowVisited(p, "promote", a, [row EXCEPT !.status = "ready"], t)
  <2>1. row = activities[a] /\ tx[p].op \in {"Complete", "RunSchedulerPass"}
    BY <1>5, VisitedRow DEF RowVisited
  <2> HIDE DEF row
  <2> DEFINE new == [row EXCEPT !.status = "ready"]
  <2>2. /\ new \in Rows /\ new.status = "ready" /\ new.owner = row.owner /\ new.token = row.token
        /\ new.attempt = row.attempt
    BY <1>4, StatusRow
  <2>3. RowVisited(p, "promote", a, new, t)
    BY <1>5
  <2> HIDE DEF new
  <2>4. Moves(tx[p].op, a, row, new)
    BY <1>5, <2>1, <2>2 DEF Moves
  <2> QED
    BY <1>0, <1>1, <2>1, <2>2, <2>3, <2>4
<1>6. CASE /\ row.status = "running"
           /\ RowVisited(p, "expire", a, Freed(row, IF row.attempt < Plan[a].maxAttempts
                                                    THEN "ready" ELSE "failed"), t)
  <2>1. row = activities[a] /\ tx[p].op = "RunSchedulerPass"
    BY <1>6, VisitedRow DEF RowVisited
  <2> HIDE DEF row
  <2> DEFINE status == IF row.attempt < Plan[a].maxAttempts THEN "ready" ELSE "failed"
             new == Freed(row, status)
  <2>2. status \in {"ready", "failed"}
    OBVIOUS
  <2>3. RowVisited(p, "expire", a, new, t)
    BY <1>6
  <2>4. status = IF row.attempt < Plan[a].maxAttempts THEN "ready" ELSE "failed"
    OBVIOUS
  <2> HIDE DEF status
  <2>5. /\ new \in Rows /\ new.status = status /\ new.owner = NoOwner /\ new.token = row.token
        /\ new.attempt = row.attempt
    BY <1>4, <2>2, FreedRow
  <2> HIDE DEF new
  <2>6. Moves(tx[p].op, a, row, new)
    BY <1>6, <2>1, <2>4, <2>5 DEF Moves
  <2> QED
    BY <1>0, <1>1, <2>1, <2>3, <2>5, <2>6
<1>7. CASE Pending(row) /\ RowVisited(p, "drop", a, [row EXCEPT !.status = "cancelled"], t)
  <2>1. row = activities[a] /\ tx[p].op = "Cancel"
    BY <1>7, VisitedRow DEF RowVisited
  <2> HIDE DEF row
  <2> DEFINE new == [row EXCEPT !.status = "cancelled"]
  <2>2. /\ new \in Rows /\ new.status = "cancelled" /\ new.owner = row.owner /\ new.token = row.token
        /\ new.attempt = row.attempt
    BY <1>4, StatusRow
  <2>3. RowVisited(p, "drop", a, new, t)
    BY <1>7
  <2> HIDE DEF new
  <2>4. Moves(tx[p].op, a, row, new)
    BY <1>7, <2>1, <2>2 DEF Moves
  <2> QED
    BY <1>0, <1>1, <2>1, <2>2, <2>3, <2>4
<1>8. CASE \E pc \in {"promote", "expire", "drop"} : RowSkipped(p, pc, a, t)
  BY <1>0, <1>2, <1>8
<1> QED
  BY <1>3, <1>5, <1>6, <1>7, <1>8

\* Logging moves no row.
LEMMA LogsFits ==
  ASSUME StoreInv, NEW p \in Sessions, NEW t, NEW n, LogsRow(p, t, n)
  PROVE  TxFits(p, t, n)
<1>0. Shape(tx[p])
  BY SessionTx
<1>1. ASSUME NEW a \in Activities, NEW pc \in {"promoted", "expired"}, NEW new, n \in Nat,
             HitLogged(p, pc, a, new, t), NewNumbers(p, t, n),
             t.wfs = tx[p].wfs \/ IsPut(t.wfs, tx[p].wfs, WorkflowOf(a), "failed")
      PROVE  TxFits(p, t, n)
  <2>1. /\ SameCall(tx[p], t) /\ t.rows = tx[p].rows /\ t.todo \subseteq Activities
        /\ t.hit \subseteq tx[p].hit
    BY <1>0, <1>1 DEF HitLogged, Shape
  <2>2. Place(t) /\ t.pc \notin {"lock", "write", "stale"}
    BY <1>1, <2>1, LoopPlace DEF HitLogged
  <2>3. \/ t.wfs = tx[p].wfs
        \/ \E w \in Workflows, status \in WorkflowStatus : IsPut(t.wfs, tx[p].wfs, w, status)
    <3>1. WorkflowOf(a) \in Workflows
      BY RowsTyped DEF WorkflowOf
    <3> QED
      BY <1>1, <3>1 DEF WorkflowStatus
  <2> QED
    BY <1>1, <2>1, <2>2, <2>3, KeepsRowsFits
<1>2. PICK a \in Activities :
       \/ /\ n = 1 /\ t.wfs = tx[p].wfs
          /\ HitLogged(p, "promoted", a, {Entry(nextSequence + 1, WorkflowOf(a), a, "activity.ready")}, t)
       \/ /\ n = 1 /\ t.wfs = tx[p].wfs
          /\ HitLogged(p, "expired", a,
                       {Entry(nextSequence + 1, WorkflowOf(a), a, "activity.lease_expired")}, t)
       \/ /\ n = 2 /\ IsPut(t.wfs, tx[p].wfs, WorkflowOf(a), "failed")
          /\ HitLogged(p, "expired", a,
                       {Entry(nextSequence + 1, WorkflowOf(a), WorkflowOf(a), "workflow.failed"),
                        Entry(nextSequence + 2, WorkflowOf(a), a, "activity.lease_expired_failed")}, t)
       \/ n = 1 /\ \E v \in Workflows : CancelRowLogged(p, v, a, t)
  BY DEF LogsRow
<1>3. CASE /\ n = 1 /\ t.wfs = tx[p].wfs
           /\ HitLogged(p, "promoted", a, {Entry(nextSequence + 1, WorkflowOf(a), a, "activity.ready")}, t)
  <2>1. NewNumbers(p, t, n)
    BY <1>3, NumbersOne DEF HitLogged
  <2> QED
    BY <1>1, <1>3, <2>1
<1>4. CASE /\ n = 1 /\ t.wfs = tx[p].wfs
           /\ HitLogged(p, "expired", a,
                        {Entry(nextSequence + 1, WorkflowOf(a), a, "activity.lease_expired")}, t)
  <2>1. NewNumbers(p, t, n)
    BY <1>4, NumbersOne DEF HitLogged
  <2> QED
    BY <1>1, <1>4, <2>1
<1>5. CASE /\ n = 2 /\ IsPut(t.wfs, tx[p].wfs, WorkflowOf(a), "failed")
           /\ HitLogged(p, "expired", a,
                        {Entry(nextSequence + 1, WorkflowOf(a), WorkflowOf(a), "workflow.failed"),
                         Entry(nextSequence + 2, WorkflowOf(a), a, "activity.lease_expired_failed")}, t)
  <2>1. NewNumbers(p, t, n)
    BY <1>5, NumbersTwo DEF HitLogged
  <2> QED
    BY <1>1, <1>5, <2>1
<1>6. CASE n = 1 /\ \E v \in Workflows : CancelRowLogged(p, v, a, t)
  <2>1. PICK v \in Workflows : CancelRowLogged(p, v, a, t)
    BY <1>6
  <2>2. NewNumbers(p, t, n)
    BY <1>6, <2>1, NumbersOne DEF CancelRowLogged
  <2>3. /\ SameCall(tx[p], t) /\ t.rows = tx[p].rows /\ t.todo \subseteq Activities
        /\ t.hit \subseteq tx[p].hit /\ t.wfs = tx[p].wfs /\ t.pc = "dropped" /\ tx[p].pc = "dropped"
    BY <1>0, <2>1 DEF CancelRowLogged, Shape, SameTables
  <2>4. Place(t)
    BY <2>3, SessionTx, EmptyTx DEF Place, SameCall
  <2> QED
    BY <1>6, <2>2, <2>3, <2>4, KeepsRowsFits
<1> QED
  BY <1>2, <1>3, <1>4, <1>5, <1>6

\* A session without a transaction has the shape of one.
LEMMA IdleShape == Shape(Idle)
<1>1. Idle.retryable \in BOOLEAN
  BY DEF Idle
<1>2. /\ IsTx(Idle) /\ Idle.at = 0 /\ DOMAIN Idle.rows = {} /\ DOMAIN Idle.wfs = {}
      /\ Idle.todo = {} /\ Idle.hit = {}
  BY EmptyTx
<1> QED
  BY <1>1, <1>2 DEF Shape

\* The statements that only look, lock or close keep to the invariant.
LEMMA MovesOnFits ==
  ASSUME StoreInv, NEW p \in Sessions, NEW t, NEW n, MovesOn(p, t, n)
  PROVE  TxFits(p, t, n)
<1>0. Shape(tx[p]) /\ Place(tx[p]) /\ ClaimKnown(tx[p]) /\ IsTx(tx[p])
  BY SessionTx
<1>1. CASE n = 0 /\ t = Idle
  <2>1. Shape(t) /\ Place(t) /\ t.log = {} /\ DOMAIN t.rows = {}
    BY <1>1, IdleShape, EmptyTx DEF Place
  <2>2. RowsMoved(t) /\ RowLocked(t) /\ ClaimKnown(t)
    BY <1>1, <2>1, EmptyTx DEF RowsMoved, RowLocked, ClaimKnown, LeaseOps
  <2>3. NewNumbers(p, t, 0)
    BY <2>1, NumbersNone
  <2> QED
    BY <1>1, <2>1, <2>2, <2>3 DEF TxFits
<1>2. CASE n = 0 /\ Locked(p, t)
  <2> DEFINE a == Subject(p)
  <2>1. /\ tx[p].pc = "lock" /\ t.pc \in {"write", "stale"} /\ SameCall(tx[p], t) /\ RowFree(p, a)
        /\ t.todo = tx[p].todo /\ t.hit = tx[p].hit /\ t.log = tx[p].log /\ t.wfs = tx[p].wfs
        /\ IsPut(t.rows, tx[p].rows, a, activities[a]) /\ activities[a].status = "running"
    BY <1>2 DEF Locked, SameLoop, Silent
  <2>2. tx[p].op \in LeaseOps
    BY <1>0, <2>1, EmptyTx DEF Place
  <2>3. a \in Activities
    BY <1>0, <2>2 DEF ClaimKnown, StoreInv, TypeOK, Subject
  <2>4. activities[a] \in Rows /\ Moves(tx[p].op, a, activities[a], activities[a])
    BY <2>1, <2>2, <2>3, RowsTyped DEF Moves
  <2>5. DOMAIN tx[p].rows = {}
    BY <2>1, SessionTx DEF RowLocked
  <2>6. t.claim.activity = a /\ t.op = tx[p].op /\ t.at = tx[p].at /\ t.retryable = tx[p].retryable
        /\ IsTx(t) /\ t.claim = tx[p].claim
    BY <2>1 DEF SameCall, Subject
  <2>7. DOMAIN t.rows = {a} /\ t.rows[a] = activities[a]
    BY <2>1, <2>5 DEF IsPut
  <2> HIDE DEF a
  <2>8. Shape(t)
    BY <1>0, <2>1, <2>3, <2>5, <2>6, <2>7 DEF Shape
  <2>9. Place(t) /\ ClaimKnown(t)
    BY <1>0, <2>1, <2>2, <2>6 DEF Place, ClaimKnown
  <2>10. RowsMoved(t) /\ RowLocked(t)
    BY <2>1, <2>4, <2>6, <2>7 DEF RowsMoved, RowLocked
  <2>11. NewNumbers(p, t, 0)
    BY <2>1, NumbersNone
  <2> QED
    BY <1>2, <2>1, <2>7, <2>8, <2>9, <2>10, <2>11 DEF TxFits
<1>3. CASE n = 0 /\ ReleaseBegun(p, t)
  <2>1. /\ SameCall(tx[p], t) /\ t.rows = tx[p].rows /\ t.wfs = tx[p].wfs /\ t.log = tx[p].log
        /\ t.hit = tx[p].hit /\ t.todo \subseteq Activities /\ tx[p].pc = "release"
        /\ t.pc = PlaceAfter("promote", t.todo, t.hit, t.op)
    BY <1>3 DEF ReleaseBegun, SameTables, Silent
  <2>2. tx[p].op \in {"Complete", "RunSchedulerPass"} /\ t.op = tx[p].op
    BY <1>0, <2>1, EmptyTx DEF Place, SameCall
  <2>3. t.pc \in {"promote", "promoted"} \/ t.pc = IF t.op = "Complete" THEN "finish" ELSE "commit"
    BY <2>1 DEF PlaceAfter
  <2>4. Place(t) /\ t.pc \notin {"lock", "write", "stale"}
    BY <2>2, <2>3 DEF Place
  <2>5. NewNumbers(p, t, 0)
    BY <2>1, NumbersNone
  <2> QED
    BY <1>3, <2>1, <2>4, <2>5, KeepsRowsFits
<1>4. CASE n = 0 /\ (DoneChecked(p, t) \/ LeavesOpen(p, t))
  <2>1. /\ SameCall(tx[p], t) /\ t.rows = tx[p].rows /\ t.wfs = tx[p].wfs /\ t.log = tx[p].log
        /\ t.hit = tx[p].hit /\ t.todo = tx[p].todo /\ tx[p].pc \in {"finish", "close"}
        /\ t.pc \in {"close", "commit"}
    BY <1>4 DEF DoneChecked, LeavesOpen, SameTables, SameLoop, Silent
  <2>2. Place(t)
    BY <1>0, <2>1, EmptyTx DEF Place, SameCall, LeaseOps
  <2>3. NewNumbers(p, t, 0)
    BY <2>1, NumbersNone
  <2> QED
    BY <1>0, <1>4, <2>1, <2>2, <2>3, KeepsRowsFits DEF Shape
<1>5. CASE n = 1 /\ Closes(p, t)
  <2>1. /\ SameCall(tx[p], t) /\ t.rows = tx[p].rows /\ t.hit = tx[p].hit /\ t.todo = tx[p].todo
        /\ tx[p].pc = "close" /\ t.pc = "commit"
        /\ IsPut(t.wfs, tx[p].wfs, SubjectWorkflow(p), "completed")
    BY <1>5 DEF Closes, SameLoop
  <2>2. tx[p].op = "Complete"
    BY <1>0, <2>1, EmptyTx DEF Place
  <2>3. Place(t)
    BY <2>1, <2>2 DEF Place, SameCall, LeaseOps
  <2>4. SubjectWorkflow(p) \in Workflows
    <3>1. Subject(p) \in Activities
      BY <1>0, <2>2 DEF ClaimKnown, StoreInv, TypeOK, Subject, LeaseOps
    <3> QED
      BY <3>1, RowsTyped DEF SubjectWorkflow, WorkflowOf
  <2>5. NewNumbers(p, t, 1)
    BY <1>5, NumbersOne DEF Closes
  <2>6. \E w \in Workflows, status \in WorkflowStatus : IsPut(t.wfs, tx[p].wfs, w, status)
    BY <2>1, <2>4 DEF WorkflowStatus
  <2> QED
    BY <1>0, <1>5, <2>1, <2>3, <2>5, <2>6, KeepsRowsFits DEF Shape
<1>6. CASE n = 1 /\ \E w \in Workflows : CancelDone(p, w, t)
  <2>1. PICK w \in Workflows : CancelDone(p, w, t)
    BY <1>6
  <2>2. /\ SameCall(tx[p], t) /\ t.rows = tx[p].rows /\ t.wfs = tx[p].wfs /\ t.hit = tx[p].hit
        /\ t.todo = tx[p].todo /\ tx[p].pc = "dropped" /\ t.pc = "commit"
    BY <2>1 DEF CancelDone, SameTables, SameLoop
  <2>3. Place(t)
    BY <1>0, <2>2, EmptyTx DEF Place, SameCall
  <2>4. NewNumbers(p, t, 1)
    BY <2>1, NumbersOne DEF CancelDone
  <2> QED
    BY <1>0, <1>6, <2>2, <2>3, <2>4, KeepsRowsFits DEF Shape
<1> QED
  BY <1>1, <1>2, <1>3, <1>4, <1>5, <1>6 DEF MovesOn

\* A statement that commits nothing keeps the invariant.
LEMMA StatementKeeps ==
  ASSUME StoreInv, NEW p \in Sessions, NEW t, NEW n, Statement(p, t, n)
  PROVE  StoreInv'
<1>1. TxFits(p, t, n)
  BY BeginsFits, WritesFits, VisitsFits, LogsFits, MovesOnFits DEF Statement
<1>2. nextSequence \in Nat /\ n \in Nat
  BY <1>1, SessionTx DEF TxFits
<1>3. nextSequence' \in Nat /\ nextSequence <= nextSequence' /\ nextSequence' = nextSequence + n
  BY <1>2 DEF Statement
<1>4. RowStep(p, t)
  BY <1>1, <1>3 DEF Statement, TxFits, NewNumbers, RowStep
<1> QED
  BY <1>4, RowStepKeeps

-----------------------------------------------------------------------------
(* Commit.                                                                 *)

\* The row of a that p commits.
LEMMA CommittedRow ==
  ASSUME StoreInv, NEW p \in Sessions, Commit(p), NEW a \in Activities
  PROVE  /\ activities'[a] \in Rows
         /\ \/ a \notin DOMAIN tx[p].rows /\ activities'[a] = activities[a]
            \/ /\ a \in DOMAIN tx[p].rows /\ activities'[a] = tx[p].rows[a]
               /\ Moves(tx[p].op, a, activities[a], activities'[a])
<1>1. activities'[a] = Row(p, a)
  BY DEF Commit
<1> QED
  BY <1>1, RowsTyped, SessionTx DEF Row, RowsMoved

\* What a transition may do, whoever makes it.
LEMMA MovesRow ==
  ASSUME NEW op, NEW a, NEW old \in Rows, NEW new \in Rows, Moves(op, a, old, new)
  PROVE  /\ \/ /\ op = "Claim" /\ old.status = "ready" /\ new.status = "running"
               /\ new.token = old.token + 1 /\ new.attempt = old.attempt + 1 /\ new.owner \in Workers
            \/ op # "Claim" /\ new.token = old.token /\ new.attempt = old.attempt
         /\ new.status = "running" /\ op # "Claim" => old.status = "running" /\ new.owner = old.owner
         /\ Pending(new) => old.attempt = new.attempt /\ (Pending(old) \/ old.attempt < Plan[a].maxAttempts)
BY DEF Moves, LeaseOps, Pending

\* A worker has at most the newest claim of an activity it was given.
LEMMA CommitKeepsClaims ==
  ASSUME StoreInv, NEW p \in Sessions, Commit(p)
  PROVE  LeaseHolderIsLatestClaim' /\ BudgetLeft'
<1> DEFINE New(a) == [activity |-> a, worker |-> tx[p].rows[a].owner, token |-> tx[p].rows[a].token]
           fresh == IF tx[p].op = "Claim" THEN DOMAIN tx[p].rows ELSE {}
<1>1. claims' = claims \cup {New(a) : a \in fresh}
  BY DEF Commit
<1>2. fresh \subseteq Activities
  BY SessionTx DEF Shape
<1>3. \A a \in fresh : /\ New(a).activity = a /\ New(a).worker = activities'[a].owner
                       /\ New(a).token = activities'[a].token
                       /\ activities'[a].token = activities[a].token + 1
                       /\ activities'[a].attempt = activities[a].attempt + 1
                       /\ activities'[a].status = "running" /\ activities[a].status = "ready"
                       /\ activities'[a].owner \in Workers
  <2> TAKE a \in fresh
  <2>1. a \in Activities /\ tx[p].op = "Claim" /\ a \in DOMAIN tx[p].rows
    BY <1>2
  <2>2. activities'[a] = tx[p].rows[a] /\ Moves("Claim", a, activities[a], activities'[a])
    BY <2>1, CommittedRow
  <2>3. activities[a] \in Rows /\ activities'[a] \in Rows
    BY <2>1, RowsTyped, CommittedRow
  <2> QED
    BY <2>2, <2>3, MovesRow
<1>4. \A a \in Activities \ fresh :
        /\ activities'[a].token = activities[a].token /\ activities'[a].attempt = activities[a].attempt
        /\ activities'[a].status = "running" =>
             activities[a].status = "running" /\ activities'[a].owner = activities[a].owner
        /\ Pending(activities'[a]) => Pending(activities[a]) \/ activities[a].attempt < Plan[a].maxAttempts
  <2> TAKE a \in Activities \ fresh
  <2>1. CASE a \notin DOMAIN tx[p].rows
    BY <2>1, CommittedRow
  <2>2. CASE a \in DOMAIN tx[p].rows
    <3>1. tx[p].op # "Claim" /\ Moves(tx[p].op, a, activities[a], activities'[a])
      BY <2>2, CommittedRow
    <3>2. activities[a] \in Rows /\ activities'[a] \in Rows
      BY RowsTyped, CommittedRow
    <3> QED
      BY <3>1, <3>2, MovesRow
  <2> QED
    BY <2>1, <2>2
<1>5. \A a \in Activities : /\ activities[a].token \in Nat /\ activities[a].attempt \in Nat
                            /\ activities'[a].token \in Nat /\ Plan[a].maxAttempts \in Nat
                            /\ activities[a].token = activities[a].attempt
                            /\ activities[a].attempt <= Plan[a].maxAttempts
                            /\ Pending(activities[a]) => activities[a].attempt < Plan[a].maxAttempts
  BY RowsTyped, CommittedRow DEF Rows, StoreInv, LeaseHolderIsLatestClaim, BudgetLeft
<1>6. \A c \in claims : c.activity \in Activities /\ c.token \in Nat
                        /\ c.token <= activities[c.activity].token
  BY DEF StoreInv, TypeOK, LeaseHolderIsLatestClaim
<1>7. \A c \in claims' : c \in claims \/ \E a \in fresh : c = New(a)
  BY <1>1
<1> HIDE DEF New, fresh
<1>8. \A c \in claims', d \in claims' : c.activity = d.activity /\ c.token = d.token => c = d
  <2> SUFFICES ASSUME NEW c \in claims', NEW d \in claims', c.activity = d.activity, c.token = d.token
               PROVE  c = d
    OBVIOUS
  <2>1. \A a \in fresh : \A b \in claims : b.activity = a => b.token < New(a).token
    BY <1>2, <1>3, <1>5, <1>6
  <2>2. \A a \in fresh : New(a).token \in Nat /\ New(a).activity = a
    BY <1>2, <1>3, <1>5
  <2>3. CASE c \in claims /\ d \in claims
    BY <2>3 DEF StoreInv, LeaseHolderIsLatestClaim
  <2>4. CASE c \in claims /\ \E a \in fresh : d = New(a)
    BY <1>6, <2>1, <2>2, <2>4
  <2>5. CASE d \in claims /\ \E a \in fresh : c = New(a)
    BY <1>6, <2>1, <2>2, <2>5
  <2>6. CASE (\E a \in fresh : c = New(a)) /\ (\E a \in fresh : d = New(a))
    BY <2>2, <2>6
  <2> QED
    BY <1>7, <2>3, <2>4, <2>5, <2>6
<1>9. ASSUME NEW a \in Activities
      PROVE  /\ activities'[a].token = activities'[a].attempt
             /\ activities'[a].attempt <= Plan[a].maxAttempts
             /\ \A c \in claims' : c.activity = a => c.token <= activities'[a].token
             /\ activities'[a].status = "running" =>
                  [activity |-> a, worker |-> activities'[a].owner, token |-> activities'[a].token]
                    \in claims'
             /\ Pending(activities'[a]) => activities'[a].attempt < Plan[a].maxAttempts
  <2>1. \A c \in claims' : c.activity = a /\ c \notin claims => a \in fresh /\ c = New(a)
    BY <1>3, <1>7
  <2>2. CASE a \in fresh
    <3>1. /\ activities'[a].token = activities'[a].attempt
          /\ activities'[a].attempt <= Plan[a].maxAttempts /\ ~Pending(activities'[a])
      BY <1>3, <1>5, <2>2 DEF Pending
    <3>2. \A c \in claims' : c.activity = a => c.token <= activities'[a].token
      BY <1>3, <1>5, <1>6, <2>1, <2>2
    <3>3. New(a) = [activity |-> a, worker |-> activities'[a].owner, token |-> activities'[a].token]
      BY <1>3, <2>2 DEF New
    <3>4. New(a) \in claims'
      BY <1>1, <2>2
    <3> QED
      BY <3>1, <3>2, <3>3, <3>4
  <2>3. CASE a \notin fresh
    <3>1. \A c \in claims' : c.activity = a => c.token <= activities'[a].token
      BY <1>4, <1>6, <2>1, <2>3
    <3>2. activities'[a].status = "running" =>
            [activity |-> a, worker |-> activities'[a].owner, token |-> activities'[a].token] \in claims'
      <4>1. activities[a].status = "running" =>
              [activity |-> a, worker |-> activities[a].owner, token |-> activities[a].token] \in claims
        BY DEF StoreInv, LeaseHolderIsLatestClaim
      <4> QED
        BY <1>1, <1>4, <2>3, <4>1
    <3>3. /\ activities'[a].token = activities'[a].attempt
          /\ activities'[a].attempt <= Plan[a].maxAttempts
          /\ Pending(activities'[a]) => activities'[a].attempt < Plan[a].maxAttempts
      BY <1>4, <1>5, <2>3
    <3> QED
      BY <3>1, <3>2, <3>3
  <2> QED
    BY <2>2, <2>3
<1>10. LeaseHolderIsLatestClaim'
  BY <1>8, <1>9 DEF LeaseHolderIsLatestClaim
<1>11. BudgetLeft'
  BY <1>9 DEF BudgetLeft, Pending
<1> QED
  BY <1>10, <1>11

\* A commit leaves the tables well typed.
LEMMA CommitKeepsTypes ==
  ASSUME StoreInv, NEW p \in Sessions, Commit(p)
  PROVE  TypeOK'
<1>1. /\ now' \in Nat \ {0} /\ nextSequence' = nextSequence /\ nextSequence' \in Nat
      /\ aborts' \in 0 .. MaxAborts
  BY DEF Commit, StoreInv, TypeOK
<1>2. workflows' \in [Workflows -> {"running", "completed", "failed", "cancelled"}]
  <2>1. workflows' = [w \in Workflows |-> Status(p, w)]
    BY DEF Commit
  <2>2. \A w \in Workflows : Status(p, w) \in {"running", "completed", "failed", "cancelled"}
    BY SessionTx DEF Status, Shape, StoreInv, TypeOK, WorkflowStatus
  <2> QED
    BY <2>1, <2>2
<1>3. activities' \in [Activities -> Rows]
  <2>1. activities' = [a \in Activities |-> Row(p, a)]
    BY DEF Commit
  <2> QED
    BY <2>1, RowsTyped
<1>4. events' = events \cup tx[p].log /\ events' \subseteq Inserted
  BY DEF Commit, Inserted
<1>5. \A e \in events' : e.sequence \in 1 .. nextSequence'
  BY <1>1, <1>4 DEF StoreInv, TypeOK, Transactions, RowInv, SequencesDrawn
<1>6. \A e \in events', f \in events' : e.sequence = f.sequence => e = f
  BY <1>4 DEF StoreInv, Transactions, NumbersUnique
<1>7. claims' \subseteq [activity : Activities, worker : Workers, token : Nat \ {0}]
  <2> SUFFICES ASSUME NEW c \in claims', c \notin claims
               PROVE  c \in [activity : Activities, worker : Workers, token : Nat \ {0}]
    BY DEF StoreInv, TypeOK
  <2>1. tx[p].op = "Claim"
    BY DEF Commit
  <2>2. PICK a \in DOMAIN tx[p].rows :
          c = [activity |-> a, worker |-> tx[p].rows[a].owner, token |-> tx[p].rows[a].token]
    BY DEF Commit
  <2>3. a \in Activities /\ tx[p].rows[a] \in Rows /\ Moves("Claim", a, activities[a], tx[p].rows[a])
    BY <2>1, <2>2, SessionTx DEF Shape, RowsMoved
  <2>4. activities[a] \in Rows
    BY <2>3, RowsTyped
  <2>5. tx[p].rows[a].owner \in Workers /\ tx[p].rows[a].token = activities[a].token + 1
    BY <2>3, <2>4, MovesRow
  <2>6. tx[p].rows[a].token \in Nat \ {0}
    BY <2>4, <2>5 DEF Rows
  <2> QED
    BY <2>2, <2>3, <2>5, <2>6
<1>8. \A q \in Sessions : DOMAIN tx'[q].rows \subseteq Activities /\ DOMAIN tx'[q].wfs \subseteq Workflows
  <2>1. tx' = [q \in Sessions |-> IF q = p THEN Idle ELSE tx[q]]
    BY DEF Commit, Becomes, StoreInv, Transactions
  <2> QED
    BY <2>1, EmptyTx DEF StoreInv, TypeOK
<1> QED
  BY <1>1, <1>2, <1>3, <1>5, <1>6, <1>7, <1>8 DEF TypeOK

\* A commit takes nothing from under the transactions of others.
LEMMA CommitKeepsTransactions ==
  ASSUME StoreInv, NEW p \in Sessions, Commit(p)
  PROVE  Transactions'
<1>1. tx' = [q \in Sessions |-> IF q = p THEN Idle ELSE tx[q]]
  BY DEF Commit, Becomes, StoreInv, Transactions
<1>2. nextSequence' = nextSequence /\ claims \subseteq claims' /\ events' = events \cup tx[p].log
  BY DEF Commit
<1>3. \A q \in Sessions \ {p} : \A a \in DOMAIN tx[q].rows : activities'[a] = activities[a]
  <2> TAKE q \in Sessions \ {p}
  <2> TAKE a \in DOMAIN tx[q].rows
  <2>1. a \in Activities /\ a \notin DOMAIN tx[p].rows
    BY SessionTx DEF Shape, StoreInv, Transactions, RowsExclusive
  <2> QED
    BY <2>1, CommittedRow
<1>4. \A q \in Sessions : RowInv(tx[q])'
  <2> TAKE q \in Sessions
  <2>1. CASE q = p
    <3>1. tx'[q] = Idle
      BY <1>1, <2>1
    <3>2. Shape(tx'[q]) /\ Place(tx'[q])
      BY <3>1, IdleShape DEF Place
    <3>3. RowsMoved(tx[q])' /\ RowLocked(tx[q])' /\ ClaimKnown(tx[q])' /\ SequencesDrawn(tx[q])'
      BY <3>1, EmptyTx DEF RowsMoved, RowLocked, ClaimKnown, SequencesDrawn, LeaseOps
    <3> QED
      BY <3>2, <3>3 DEF RowInv, Shape, Place
  <2>2. CASE q # p
    <3>1. tx'[q] = tx[q] /\ RowInv(tx[q])
      BY <1>1, <2>2 DEF StoreInv, Transactions
    <3>2. RowsMoved(tx[q])'
      BY <1>3, <2>2, <3>1 DEF RowInv, RowsMoved
    <3>3. RowLocked(tx[q])'
      BY <1>3, <2>2, <3>1 DEF RowInv, RowLocked
    <3>4. ClaimKnown(tx[q])' /\ SequencesDrawn(tx[q])'
      BY <1>2, <3>1 DEF RowInv, ClaimKnown, SequencesDrawn
    <3> QED
      BY <3>1, <3>2, <3>3, <3>4 DEF RowInv, Shape, Place
  <2> QED
    BY <2>1, <2>2
<1>5. RowsExclusive'
  BY <1>1, EmptyTx DEF StoreInv, Transactions, RowsExclusive
<1>6. NumbersUnique'
  <2>1. Inserted' \subseteq Inserted
    BY <1>1, <1>2, EmptyTx DEF Inserted
  <2> QED
    BY <2>1 DEF StoreInv, Transactions, NumbersUnique
<1>7. tx' = [q \in Sessions |-> tx'[q]]
  BY <1>1
<1> QED
  BY <1>4, <1>5, <1>6, <1>7 DEF Transactions

-----------------------------------------------------------------------------
(* The store.                                                              *)

\* The invariant holds of the tables Start has left.
LEMMA StoreInit ==
  ASSUME Init
  PROVE  StoreInv
<1>1. \A p \in Sessions : tx[p] = Idle
  BY DEF Init
<1>2. \A a \in Activities :
        /\ activities[a].status \in {"ready", "retry_pending"} /\ activities[a].attempt = 0
        /\ activities[a].token = 0
        /\ activities[a] \in Rows
  BY DEF Init, Rows
<1>3. TypeOK
  <2>1. activities \in [Activities -> Rows]
    BY <1>2 DEF Init
  <2>2. workflows \in [Workflows -> {"running", "completed", "failed", "cancelled"}]
    BY DEF Init
  <2>3. now = 1 /\ nextSequence = 0 /\ aborts = 0 /\ events = {} /\ claims = {}
    BY DEF Init
  <2>4. aborts \in 0 .. MaxAborts
    BY <2>3, PgAssumption
  <2>5. \A p \in Sessions : DOMAIN tx[p].rows \subseteq Activities /\ DOMAIN tx[p].wfs \subseteq Workflows
    BY <1>1, EmptyTx
  <2> QED
    BY <2>1, <2>2, <2>3, <2>4, <2>5 DEF TypeOK
<1>4. LeaseHolderIsLatestClaim
  <2>1. claims = {}
    BY DEF Init
  <2>2. \A a \in Activities : Plan[a].maxAttempts \in Nat
    BY PgAssumption
  <2> QED
    BY <1>2, <2>1, <2>2 DEF LeaseHolderIsLatestClaim
<1>5. BudgetLeft
  <2>1. \A a \in Activities : Plan[a].maxAttempts \in Nat \ {0}
    BY PgAssumption
  <2> QED
    BY <1>2, <2>1 DEF BudgetLeft
<1>6. Transactions
  <2>1. tx = [p \in Sessions |-> tx[p]]
    BY DEF Init
  <2>2. \A p \in Sessions : RowInv(tx[p])
    <3>1. Place(Idle) /\ RowsMoved(Idle) /\ RowLocked(Idle) /\ ClaimKnown(Idle) /\ SequencesDrawn(Idle)
      BY EmptyTx DEF Place, RowsMoved, RowLocked, ClaimKnown, SequencesDrawn, LeaseOps
    <3> QED
      BY <1>1, <3>1, IdleShape DEF RowInv
  <2>3. RowsExclusive
    BY <1>1, EmptyTx DEF RowsExclusive
  <2>4. NumbersUnique
    <3>1. events = {}
      BY DEF Init
    <3> QED
      BY <1>1, <3>1, EmptyTx DEF NumbersUnique, Inserted
  <2> QED
    BY <2>1, <2>2, <2>3, <2>4 DEF Transactions
<1> QED
  BY <1>3, <1>4, <1>5, <1>6 DEF StoreInv

\* A state that differs in the clock at most.
LEMMA ClockKeeps ==
  ASSUME StoreInv, now' \in Nat \ {0},
         UNCHANGED <<workflows, activities, events, nextSequence, tx, claims, aborts>>
  PROVE  StoreInv'
<1>1. TypeOK'
  BY DEF StoreInv, TypeOK
<1>2. LeaseHolderIsLatestClaim' /\ BudgetLeft'
  BY DEF StoreInv, LeaseHolderIsLatestClaim, BudgetLeft, Pending
<1>3. \A p \in Sessions : RowInv(tx[p])'
  BY DEF StoreInv, Transactions, RowInv, Shape, Place, RowsMoved, RowLocked, ClaimKnown, SequencesDrawn
<1>4. RowsExclusive' /\ NumbersUnique' /\ (tx = [p \in Sessions |-> tx[p]])'
  BY DEF StoreInv, Transactions, RowsExclusive, NumbersUnique, Inserted
<1> QED
  BY <1>1, <1>2, <1>3, <1>4 DEF StoreInv, Transactions

\* Every step keeps the invariant.
LEMMA StoreNext ==
  ASSUME StoreInv, [Next]_vars
  PROVE  StoreInv'
<1>1. CASE UNCHANGED vars
  <2>1. now \in Nat \ {0}
    BY DEF StoreInv, TypeOK
  <2> QED
    BY <1>1, <2>1, ClockKeeps DEF vars
<1>2. CASE Tick
  <2>1. now \in Nat \ {0}
    BY DEF StoreInv, TypeOK
  <2> QED
    BY <1>2, <2>1, ClockKeeps DEF Tick
<1>3. ASSUME NEW p \in Sessions, Step(p)
      PROVE  StoreInv'
  <2>1. CASE Commit(p)
    BY <2>1, CommitKeepsTypes, CommitKeepsClaims, CommitKeepsTransactions DEF StoreInv
  <2>2. CASE \E t, n : Statement(p, t, n)
    BY <2>2, StatementKeeps
  <2> QED
    BY <1>1, <1>3, <2>1, <2>2, StepCases
<1> QED
  BY <1>1, <1>2, <1>3 DEF Next

\* The invariant holds throughout.
LEMMA StoreAlways == Spec => []StoreInv
<1>1. Init => StoreInv
  BY StoreInit
<1>2. StoreInv /\ [Next]_vars => StoreInv'
  BY StoreNext
<1> QED
  BY <1>1, <1>2, PTL DEF Spec

\* The committed tables of the PostgreSQL store are always well typed, and no
\* number of workflow_events_sequence_seq is ever used for two events.
THEOREM StoreTypes == Spec => []TypeOK
<1>1. StoreInv => TypeOK
  BY DEF StoreInv
<1> QED
  BY <1>1, StoreAlways, PTL

\* Fencing: no two claims of an activity share a token, and a running activity
\* belongs to the newest claim ever returned, for any number of sessions,
\* whatever is rolled back and whenever leases expire.
THEOREM StoreFencing == Spec => []LeaseHolderIsLatestClaim
<1>1. StoreInv => LeaseHolderIsLatestClaim
  BY DEF StoreInv
<1> QED
  BY <1>1, StoreAlways, PTL

\* What a method may make of a row is a transition of the lifecycle.
LEMMA MovesOneTransition ==
  ASSUME NEW op, NEW a, NEW old \in Rows, NEW new \in Rows, Moves(op, a, old, new), new # old
  PROVE  \/ /\ old.status = "ready" /\ new.status = "running"
            /\ new.token = old.token + 1 /\ new.attempt = old.attempt + 1
         \/ /\ <<old.status, new.status>> \in
                 {<<"retry_pending", "ready">>, <<"retry_pending", "cancelled">>,
                  <<"ready", "cancelled">>, <<"running", "running">>,
                  <<"running", "completed">>, <<"running", "failed">>,
                  <<"running", "retry_pending">>, <<"running", "ready">>}
            /\ new.token = old.token /\ new.attempt = old.attempt
BY DEF Moves, LeaseOps, Pending

\* What is committed changes only at a commit.
LEMMA OnlyCommitsWrite ==
  ASSUME StoreInv, [Next]_vars
  PROVE  (\E p \in Sessions : Commit(p)) \/ UNCHANGED <<activities, workflows, events, claims>>
<1>1. ASSUME NEW p \in Sessions, Step(p)
      PROVE  Commit(p) \/ UNCHANGED <<activities, workflows, events, claims>>
  BY <1>1, StepCases DEF vars, Statement
<1> QED
  BY <1>1 DEF Next, Tick, vars

\* No lost update: every commit takes each row it writes one transition on from
\* what was committed before it, although it decided on it earlier.
THEOREM StoreLosesNoUpdate == Spec => OneTransitionAtATime
<1>1. StoreInv /\ [Next]_vars =>
       [\A a \in Activities :
       LET old == activities[a]
           new == activities'[a]
       IN new # old =>
            \/ /\ old.status = "ready" /\ new.status = "running"
               /\ new.token = old.token + 1 /\ new.attempt = old.attempt + 1
            \/ /\ <<old.status, new.status>> \in
                    {<<"retry_pending", "ready">>, <<"retry_pending", "cancelled">>,
                     <<"ready", "cancelled">>, <<"running", "running">>,
                     <<"running", "completed">>, <<"running", "failed">>,
                     <<"running", "retry_pending">>, <<"running", "ready">>}
               /\ new.token = old.token /\ new.attempt = old.attempt]_vars
  <2> SUFFICES ASSUME StoreInv, [Next]_vars, NEW a \in Activities, activities'[a] # activities[a]
               PROVE  \/ /\ activities[a].status = "ready" /\ activities'[a].status = "running"
                         /\ activities'[a].token = activities[a].token + 1
                         /\ activities'[a].attempt = activities[a].attempt + 1
                      \/ /\ <<activities[a].status, activities'[a].status>> \in
                              {<<"retry_pending", "ready">>, <<"retry_pending", "cancelled">>,
                               <<"ready", "cancelled">>, <<"running", "running">>,
                               <<"running", "completed">>, <<"running", "failed">>,
                               <<"running", "retry_pending">>, <<"running", "ready">>}
                         /\ activities'[a].token = activities[a].token
                         /\ activities'[a].attempt = activities[a].attempt
    OBVIOUS
  <2>1. PICK p \in Sessions : Commit(p)
    BY OnlyCommitsWrite
  <2>2. /\ activities[a] \in Rows /\ activities'[a] \in Rows
        /\ Moves(tx[p].op, a, activities[a], activities'[a])
    BY <2>1, RowsTyped, CommittedRow
  <2> QED
    BY <2>2, MovesOneTransition
<1> QED
  BY <1>1, StoreAlways, PTL DEF Spec, OneTransitionAtATime

-----------------------------------------------------------------------------
(* Statements tell the transitions they make.                              *)

\* The events that tell a transition, and the status each leads to.
LEMMA MoveTypes ==
  /\ DOMAIN StatusAfter = {"activity.claimed", "activity.completed", "activity.retry_scheduled",
                           "activity.cancelled", "activity.ready", "activity.lease_expired",
                           "activity.failed", "activity.lease_expired_failed"}
  /\ StatusAfter["activity.claimed"] = "running" /\ StatusAfter["activity.completed"] = "completed"
  /\ StatusAfter["activity.retry_scheduled"] = "retry_pending"
  /\ StatusAfter["activity.cancelled"] = "cancelled" /\ StatusAfter["activity.ready"] = "ready"
  /\ StatusAfter["activity.lease_expired"] = "ready" /\ StatusAfter["activity.failed"] = "failed"
  /\ StatusAfter["activity.lease_expired_failed"] = "failed"
BY DEF StatusAfter

\* The fields of an event.
LEMMA EntryFields ==
  ASSUME NEW k, NEW w, NEW s, NEW type
  PROVE  /\ Entry(k, w, s, type).sequence = k /\ Entry(k, w, s, type).workflow = w
         /\ Entry(k, w, s, type).subject = s /\ Entry(k, w, s, type).type = type
BY DEF Entry

\* What HistoryInv says of one session.
LEMMA SessionLog ==
  ASSUME HistoryInv, NEW p \in Sessions
  PROVE  /\ Finished(tx[p]) /\ Holdings(tx[p]) /\ LoggedMoves(tx[p]) /\ MovesLogged(tx[p])
         /\ \A e \in tx[p].log : IsMove(e) => Told(tx[p], e)
BY DEF HistoryInv, LogInv, LoggedMoves

\* Nothing told and nothing moved.
TellsNothing(p, t, new) ==
  /\ t.op = tx[p].op /\ t.op # "Claim" /\ t.rows = tx[p].rows /\ t.hit = tx[p].hit
  /\ t.log = tx[p].log \cup new /\ \A e \in new : ~IsMove(e)

\* A statement that tells and moves nothing keeps the log in order.
LEMMA KeepsLog ==
  ASSUME HistoryInv, NEW p \in Sessions, NEW t, NEW new, TellsNothing(p, t, new)
  PROVE  LoggedMoves(t) /\ MovesLogged(t)
<1> USE DEF TellsNothing
<1>1. LoggedMoves(tx[p]) /\ MovesLogged(tx[p])
  BY SessionLog
<1>2. \A a : Unlogged(t, a) <=> Unlogged(tx[p], a)
  BY DEF Unlogged
<1>3. \A a : MovesOf(t.log, a) = MovesOf(tx[p].log, a)
  BY DEF MovesOf
<1>4. LoggedMoves(t)
  BY <1>1, <1>2 DEF LoggedMoves, Told
<1>5. MovesLogged(t)
  BY <1>1, <1>2, <1>3 DEF MovesLogged
<1> QED
  BY <1>4, <1>5

\* One transition told, of a row that had none told before.
AddsMove(p, t, a, e, other) ==
  /\ t.op = tx[p].op /\ t.log = tx[p].log \cup ({e} \cup other) /\ \A f \in other : ~IsMove(f)
  /\ DOMAIN t.rows = DOMAIN tx[p].rows \cup {a}
  /\ \A b \in DOMAIN tx[p].rows \ {a} :
       t.rows[b] = tx[p].rows[b] /\ (Unlogged(t, b) <=> Unlogged(tx[p], b))
  /\ MovesOf(tx[p].log, a) = {} /\ ~Unlogged(t, a)
  /\ IsMove(e) /\ e.subject = a /\ e.workflow = WorkflowOf(a)
  /\ e.sequence \in Int /\ nextSequence < e.sequence
  /\ t.rows[a].status = StatusAfter[e.type] /\ (e.type = "activity.claimed" <=> t.op = "Claim")

\* A statement that makes one transition and tells it keeps the log in order.
LEMMA WritesLog ==
  ASSUME StoreInv, HistoryInv, NEW p \in Sessions, NEW t, NEW a, NEW e, NEW other,
         AddsMove(p, t, a, e, other)
  PROVE  LoggedMoves(t) /\ MovesLogged(t)
<1>1. LoggedMoves(tx[p]) /\ MovesLogged(tx[p])
  BY SessionLog
<1>2. \A f \in t.log : IsMove(f) => f = e \/ (f \in tx[p].log /\ f.subject # a)
  BY DEF AddsMove, MovesOf
<1>3. \A f \in events : f.sequence \in Int /\ f.sequence < e.sequence
  BY SessionTx DEF AddsMove, StoreInv, TypeOK
<1>4. Told(t, e)
  BY <1>3 DEF AddsMove, Told, MovesOf
<1>5. \A f \in tx[p].log : IsMove(f) /\ f.subject # a => Told(t, f)
  <2> TAKE f \in tx[p].log
  <2> HAVE IsMove(f) /\ f.subject # a
  <2>1. Told(tx[p], f)
    BY <1>1 DEF LoggedMoves
  <2>2. f.subject \in DOMAIN tx[p].rows \ {a}
    BY <2>1 DEF Told
  <2> QED
    BY <2>1, <2>2 DEF AddsMove, Told
<1>6. LoggedMoves(t)
  <2>1. \A f \in t.log : IsMove(f) => Told(t, f)
    BY <1>2, <1>4, <1>5
  <2>2. \A f, g \in t.log : IsMove(f) /\ IsMove(g) /\ f.subject = g.subject => f = g
    BY <1>1, <1>2 DEF AddsMove, LoggedMoves
  <2> QED
    BY <2>1, <2>2 DEF LoggedMoves
<1>7. MovesLogged(t)
  <2>1. \A b : MovesOf(tx[p].log, b) \subseteq MovesOf(t.log, b)
    BY DEF MovesOf, AddsMove
  <2>2. e \in MovesOf(t.log, a)
    BY DEF MovesOf, AddsMove
  <2>3. \A b \in DOMAIN t.rows : b # a => b \in DOMAIN tx[p].rows \ {a}
    BY DEF AddsMove
  <2> QED
    BY <1>1, <2>1, <2>2, <2>3 DEF MovesLogged, AddsMove
<1> QED
  BY <1>6, <1>7

\* Transactions begin with nothing to tell.
LEMMA BeginsLogs ==
  ASSUME StoreInv, NEW p \in Sessions, NEW t, NEW n, BeginsTx(p, t, n)
  PROVE  LogInv(t)
<1>1. t.log = {} /\ t.hit = {}
  BY DEF BeginsTx, Picked, Called, CancelBegun, SchedulerBegun, Begun
<1>2. LoggedMoves(t)
  BY <1>1 DEF LoggedMoves
<1>3. CASE \E worker \in Workers, a \in Activities : Picked(p, a, worker, t)
  <2>1. PICK worker \in Workers, a \in Activities : Picked(p, a, worker, t)
    BY <1>3
  <2>2. t.op = "Claim" /\ t.pc = "log" /\ t.todo = {} /\ DOMAIN t.rows = {a}
    BY <2>1 DEF Picked, Begun
  <2>3. Finished(t) /\ Holdings(t) /\ MovesLogged(t)
    BY <1>1, <2>2 DEF Finished, Holdings, MovesLogged, Unlogged
  <2> QED
    BY <1>2, <2>3 DEF LogInv
<1>4. CASE \E op \in LeaseOps, c \in claims : Called(p, op, c, t)
  <2>1. t.op \in LeaseOps /\ t.pc = "lock" /\ t.todo = {} /\ DOMAIN t.rows = {}
    BY <1>4 DEF Called, Begun
  <2>2. Finished(t) /\ Holdings(t) /\ MovesLogged(t)
    BY <1>1, <2>1 DEF Finished, Holdings, MovesLogged, LeaseOps
  <2> QED
    BY <1>2, <2>2 DEF LogInv
<1>5. CASE \E w \in Workflows : CancelBegun(p, w, t)
  <2>1. PICK w \in Workflows : CancelBegun(p, w, t)
    BY <1>5
  <2>2. /\ t.op = "Cancel" /\ t.pc = PlaceAfter("drop", t.todo, t.hit, t.op) /\ DOMAIN t.rows = {}
        /\ DOMAIN t.wfs = {w} /\ \A a \in t.todo : WorkflowOf(a) = w
    BY <2>1 DEF CancelBegun, Begun
  <2>3. t.pc = IF t.todo = {} THEN "dropped" ELSE "drop"
    BY <2>2 DEF PlaceAfter
  <2>4. Finished(t) /\ Holdings(t) /\ MovesLogged(t)
    BY <1>1, <2>2, <2>3 DEF Finished, Holdings, MovesLogged
  <2> QED
    BY <1>2, <2>4 DEF LogInv
<1>6. CASE SchedulerBegun(p, t)
  <2>1. /\ t.op = "RunSchedulerPass" /\ t.pc = PlaceAfter("expire", t.todo, t.hit, t.op)
        /\ DOMAIN t.rows = {}
    BY <1>6 DEF SchedulerBegun, Begun
  <2>2. t.pc = IF t.todo = {} THEN "release" ELSE "expire"
    BY <1>1, <2>1 DEF PlaceAfter
  <2>3. Finished(t) /\ Holdings(t) /\ MovesLogged(t)
    BY <1>1, <2>1, <2>2 DEF Finished, Holdings, MovesLogged
  <2> QED
    BY <1>2, <2>3 DEF LogInv
<1> QED
  BY <1>3, <1>4, <1>5, <1>6 DEF BeginsTx

\* At the place after a loop, nothing is left of it.
LEMMA LoopFinished ==
  ASSUME NEW t, NEW pc \in {"expire", "expired", "promote", "promoted", "drop"},
         t.pc = PlaceAfter(pc, t.todo, t.hit, t.op), pc \in {"expired", "promoted"} => t.todo = {}
  PROVE  Finished(t)
<1>1. CASE pc = "expire"
  BY <1>1 DEF PlaceAfter, Finished
<1>2. CASE pc = "promote"
  BY <1>2 DEF PlaceAfter, Finished
<1>3. CASE pc = "drop"
  BY <1>3 DEF PlaceAfter, Finished
<1>4. CASE pc = "expired"
  BY <1>4 DEF PlaceAfter, Finished
<1>5. CASE pc = "promoted"
  BY <1>5 DEF PlaceAfter, Finished
<1> QED
  BY <1>1, <1>2, <1>3, <1>4, <1>5

\* A session about to write has told nothing yet.
LEMMA NothingTold ==
  ASSUME StoreInv, HistoryInv, NEW p \in Sessions, tx[p].pc = "write"
  PROVE  \A e \in tx[p].log : ~IsMove(e)
<1> SUFFICES ASSUME NEW e \in tx[p].log, IsMove(e) PROVE FALSE
  OBVIOUS
<1>1. Told(tx[p], e)
  BY SessionLog
<1>2. e.subject = Subject(p) /\ tx[p].op \in LeaseOps
  BY <1>1, HeldRow DEF Told
<1>3. tx[p].rows[Subject(p)].status = "running"
  BY HeldRow DEF Row
<1>4. e.type = "activity.claimed"
  BY <1>1, <1>2, <1>3, MoveTypes DEF Told, IsMove
<1> QED
  BY <1>1, <1>2, <1>4 DEF Told, LeaseOps

\* Results are told as they are written.
LEMMA WritesLogs ==
  ASSUME StoreInv, HistoryInv, NEW p \in Sessions, NEW t, NEW n, WritesResult(p, t, n)
  PROVE  LogInv(t)
<1> DEFINE a == Subject(p)
           row == Row(p, a)
<1>0. /\ Finished(tx[p]) /\ Holdings(tx[p]) /\ Shape(tx[p]) /\ Place(tx[p]) /\ RowLocked(tx[p])
      /\ nextSequence \in Nat
  BY SessionLog, SessionTx
<1>1. CASE \E e \in DOMAIN tx[p].rows :
             tx[p].op = "Claim" /\ Noted(p, "log", e, "activity.claimed", t)
  <2>1. PICK b \in DOMAIN tx[p].rows : tx[p].op = "Claim" /\ Noted(p, "log", b, "activity.claimed", t)
    BY <1>1
  <2> DEFINE e == Entry(nextSequence + 1, WorkflowOf(b), b, "activity.claimed")
  <2>2. /\ tx[p].pc = "log" /\ t.pc = "commit" /\ t.op = "Claim" /\ t.rows = tx[p].rows
        /\ t.todo = tx[p].todo /\ t.hit = tx[p].hit /\ t.log = tx[p].log \cup ({e} \cup {})
    BY <2>1 DEF Noted, SameCall, SameTables, SameLoop, Logs
  <2>3. /\ e.sequence = nextSequence + 1 /\ e.workflow = WorkflowOf(b) /\ e.subject = b
        /\ e.type = "activity.claimed"
    BY EntryFields
  <2> HIDE DEF e
  <2>4. DOMAIN tx[p].rows = {b}
    BY <1>0, <2>1 DEF Holdings
  <2>5. t.hit = {} /\ t.todo = {}
    BY <1>0, <2>2 DEF Finished
  <2>6. MovesOf(tx[p].log, b) = {}
    BY <2>1, <2>2, SessionLog DEF MovesOf, Told, Unlogged
  <2>7. t.rows[b].status = "running"
    BY <2>1, <2>2, SessionTx DEF RowsMoved, Moves, LeaseOps
  <2>8. AddsMove(p, t, b, e, {})
    BY <1>0, <2>1, <2>2, <2>3, <2>4, <2>5, <2>6, <2>7, MoveTypes DEF AddsMove, Unlogged, IsMove
  <2>9. LoggedMoves(t) /\ MovesLogged(t)
    BY <2>8, WritesLog
  <2>10. Finished(t) /\ Holdings(t)
    BY <1>0, <2>1, <2>2, <2>5 DEF Finished, Holdings
  <2> QED
    BY <2>9, <2>10 DEF LogInv
<1>2. CASE \E type \in {"activity.stale_heartbeat_rejected",
                        "activity.stale_completion_rejected",
                        "activity.stale_failure_rejected"} : Noted(p, "stale", a, type, t)
  <2>1. PICK type \in {"activity.stale_heartbeat_rejected",
                       "activity.stale_completion_rejected",
                       "activity.stale_failure_rejected"} : Noted(p, "stale", a, type, t)
    BY <1>2
  <2> DEFINE e == Entry(nextSequence + 1, WorkflowOf(a), a, type)
  <2>2. /\ tx[p].pc = "stale" /\ t.pc = "commit" /\ t.op = tx[p].op /\ t.rows = tx[p].rows
        /\ t.todo = tx[p].todo /\ t.hit = tx[p].hit /\ t.log = tx[p].log \cup {e}
    BY <2>1 DEF Noted, SameCall, SameTables, SameLoop, Logs
  <2>3. ~IsMove(e)
    BY EntryFields, MoveTypes DEF IsMove
  <2> HIDE DEF e
  <2>4. t.op \in LeaseOps
    BY <1>0, <2>2, EmptyTx DEF Place
  <2>5. LoggedMoves(t) /\ MovesLogged(t)
    <3>1. TellsNothing(p, t, {e})
      BY <2>2, <2>3, <2>4 DEF TellsNothing, LeaseOps
    <3> QED
      BY <3>1, KeepsLog
  <2>6. Finished(t) /\ Holdings(t)
    BY <1>0, <2>2, <2>4 DEF Finished, Holdings, LeaseOps
  <2> QED
    BY <2>5, <2>6 DEF LogInv
<1>3. ASSUME tx[p].pc = "write", NEW new, IsPut(t.rows, tx[p].rows, a, new),
             SameCall(tx[p], t), SameLoop(tx[p], t), t.pc \in {"commit", "release"}
      PROVE  /\ Finished(t) /\ Holdings(t) /\ t.op \in LeaseOps /\ t.op = tx[p].op /\ t.hit = {}
             /\ DOMAIN t.rows = {a} /\ t.rows[a] = new /\ DOMAIN tx[p].rows = {a}
             /\ MovesOf(tx[p].log, a) = {}
  <2>1. t.op \in LeaseOps /\ t.op = tx[p].op
    BY <1>3, HeldRow DEF SameCall
  <2>2. t.todo = {} /\ t.hit = {}
    BY <1>0, <1>3 DEF Finished, SameLoop
  <2>3. DOMAIN t.rows = {a} /\ t.rows[a] = new /\ DOMAIN tx[p].rows = {a}
    BY <1>3, HeldRow DEF IsPut
  <2>4. Finished(t) /\ Holdings(t)
    BY <1>3, <2>1, <2>2 DEF Finished, Holdings, LeaseOps
  <2>5. MovesOf(tx[p].log, a) = {}
    BY <1>3, NothingTold DEF MovesOf
  <2> QED
    BY <2>1, <2>2, <2>3, <2>4, <2>5
<1>4. ASSUME NEW op, NEW new, NEW type \in DOMAIN StatusAfter \ {"activity.claimed"},
             NEW pc \in {"commit", "release"},
             RowWritten(p, op, new, type, pc, t), new.status = StatusAfter[type]
      PROVE  LogInv(t)
  <2> DEFINE e == Entry(nextSequence + 1, SubjectWorkflow(p), a, type)
  <2>1. /\ tx[p].pc = "write" /\ IsPut(t.rows, tx[p].rows, a, new) /\ SameCall(tx[p], t)
        /\ SameLoop(tx[p], t) /\ t.pc = pc /\ t.log = tx[p].log \cup ({e} \cup {})
    BY <1>4 DEF RowWritten, At, Logs
  <2>2. /\ e.sequence = nextSequence + 1 /\ e.workflow = WorkflowOf(a) /\ e.subject = a
        /\ e.type = type
    BY EntryFields DEF SubjectWorkflow
  <2> HIDE DEF e, a
  <2>3. /\ Finished(t) /\ Holdings(t) /\ t.op \in LeaseOps /\ t.op = tx[p].op /\ t.hit = {}
        /\ DOMAIN t.rows = {a} /\ t.rows[a] = new /\ DOMAIN tx[p].rows = {a}
        /\ MovesOf(tx[p].log, a) = {}
    BY <1>3, <2>1
  <2>4. AddsMove(p, t, a, e, {})
    BY <1>0, <1>4, <2>1, <2>2, <2>3 DEF AddsMove, Unlogged, IsMove, LeaseOps
  <2> QED
    BY <2>3, <2>4, WritesLog DEF LogInv
<1>5. CASE RowWritten(p, "Heartbeat", [row EXCEPT !.expires = tx[p].at + leaseSeconds],
                      "activity.heartbeat", "commit", t)
  <2> DEFINE new == [row EXCEPT !.expires = tx[p].at + leaseSeconds]
             e == Entry(nextSequence + 1, SubjectWorkflow(p), a, "activity.heartbeat")
  <2>1. /\ tx[p].pc = "write" /\ IsPut(t.rows, tx[p].rows, a, new) /\ SameCall(tx[p], t)
        /\ SameLoop(tx[p], t) /\ t.pc = "commit" /\ t.log = tx[p].log \cup {e}
    BY <1>5 DEF RowWritten, At, Logs
  <2>2. ~IsMove(e)
    BY EntryFields, MoveTypes DEF IsMove
  <2>3. new.status = activities[a].status
    <3>1. row = activities[a] /\ row \in Rows
      BY <2>1, HeldRow
    <3> HIDE DEF row
    <3> QED
      BY <3>1 DEF Rows
  <2> HIDE DEF new, e
  <2>4. /\ Finished(t) /\ Holdings(t) /\ DOMAIN t.rows = {a} /\ t.rows[a] = new
    BY <1>3, <2>1
  <2>5. \A f \in t.log : ~IsMove(f)
    BY <2>1, <2>2, NothingTold
  <2>6. LoggedMoves(t) /\ MovesLogged(t)
    BY <2>3, <2>4, <2>5 DEF LoggedMoves, MovesLogged
  <2> QED
    BY <2>4, <2>6 DEF LogInv
<1>6. CASE RowWritten(p, "Complete", Freed(row, "completed"), "activity.completed", "release", t)
  <2>1. Freed(row, "completed").status = "completed"
    <3>1. row \in Rows
      BY <1>6, HeldRow DEF RowWritten, At
    <3> QED
      BY <3>1, FreedRow
  <2> QED
    BY <1>4, <1>6, <2>1, MoveTypes
<1>7. CASE RowWritten(p, "Fail",
                   [Freed(row, "retry_pending") EXCEPT
                      !.nextAt = tx[p].at + (Plan[a].backoff * row.attempt) \div 1000],
                   "activity.retry_scheduled", "commit", t)
  <2> DEFINE new == [Freed(row, "retry_pending") EXCEPT
                      !.nextAt = tx[p].at + (Plan[a].backoff * row.attempt) \div 1000]
  <2>1. new.status = "retry_pending"
    <3>1. row \in Rows
      BY <1>7, HeldRow DEF RowWritten, At
    <3> DEFINE fr == Freed(row, "retry_pending")
    <3>2. fr \in Rows /\ fr.status = "retry_pending"
      BY <3>1, FreedRow
    <3> HIDE DEF fr
    <3>3. ASSUME NEW next PROVE [fr EXCEPT !.nextAt = next].status = "retry_pending"
      BY <3>2 DEF Rows
    <3> QED
      BY <3>3 DEF fr
  <2>2. RowWritten(p, "Fail", new, "activity.retry_scheduled", "commit", t)
    BY <1>7
  <2> HIDE DEF new
  <2> QED
    BY <1>4, <2>1, <2>2, MoveTypes
<1>8. CASE FailedFinally(p, t)
  <2> DEFINE w == SubjectWorkflow(p)
             e == Entry(nextSequence + 1, w, a, "activity.failed")
             f == Entry(nextSequence + 2, w, w, "workflow.failed")
             new == Freed(row, "failed")
  <2>1. /\ tx[p].pc = "write" /\ IsPut(t.rows, tx[p].rows, a, new) /\ SameCall(tx[p], t)
        /\ SameLoop(tx[p], t) /\ t.pc = "commit" /\ t.log = tx[p].log \cup ({e} \cup {f})
    BY <1>8 DEF FailedFinally, At, Logs
  <2>2. new.status = "failed"
    <3>1. row \in Rows
      BY <2>1, HeldRow
    <3> QED
      BY <3>1, FreedRow
  <2>3. /\ e.sequence = nextSequence + 1 /\ e.workflow = WorkflowOf(a) /\ e.subject = a
        /\ e.type = "activity.failed" /\ ~IsMove(f)
    BY EntryFields, MoveTypes DEF SubjectWorkflow, IsMove
  <2> HIDE DEF e, f, new, a
  <2>4. /\ Finished(t) /\ Holdings(t) /\ t.op \in LeaseOps /\ t.op = tx[p].op /\ t.hit = {}
        /\ DOMAIN t.rows = {a} /\ t.rows[a] = new /\ DOMAIN tx[p].rows = {a}
        /\ MovesOf(tx[p].log, a) = {}
    BY <1>3, <2>1
  <2>5. AddsMove(p, t, a, e, {f})
    BY <1>0, <2>1, <2>2, <2>3, <2>4, MoveTypes DEF AddsMove, Unlogged, IsMove, LeaseOps
  <2> QED
    BY <2>4, <2>5, WritesLog DEF LogInv
<1> QED
  BY <1>1, <1>2, <1>5, <1>6, <1>7, <1>8 DEF WritesResult

\* A row visited waits to be logged.
LEMMA VisitsLogs ==
  ASSUME StoreInv, HistoryInv, NEW p \in Sessions, NEW t, NEW n, VisitsRow(p, t, n)
  PROVE  LogInv(t)
<1>0. /\ Finished(tx[p]) /\ Holdings(tx[p]) /\ Shape(tx[p]) /\ Place(tx[p])
      /\ LoggedMoves(tx[p]) /\ MovesLogged(tx[p])
  BY SessionLog, SessionTx
<1>1. ASSUME NEW pc \in {"promote", "expire", "drop"}, tx[p].pc = pc, SameCall(tx[p], t),
             t.pc = PlaceAfter(pc, t.todo, t.hit, t.op)
      PROVE  /\ Finished(t) /\ t.op = tx[p].op /\ t.op # "Claim"
             /\ t.op = "Cancel" => pc = "drop"
             /\ t.pc \in {"promote", "promoted"} => pc = "promote"
  <2>1. t.op = tx[p].op /\ t.op # "Claim" /\ (t.op = "Cancel" => pc = "drop")
    BY <1>0, <1>1, EmptyTx DEF Place, SameCall, LeaseOps
  <2>2. Finished(t)
    BY <1>1, LoopFinished
  <2>3. t.pc \in {"promote", "promoted"} => pc = "promote"
    BY <1>1 DEF PlaceAfter
  <2> QED
    BY <2>1, <2>2, <2>3
<1>2. ASSUME NEW a \in Activities, NEW pc \in {"promote", "expire", "drop"}, NEW new,
             a \notin DOMAIN tx[p].rows, RowVisited(p, pc, a, new, t),
             pc = "promote" => new.status = "ready"
      PROVE  LogInv(t)
  <2>1. /\ SameCall(tx[p], t) /\ IsPut(t.rows, tx[p].rows, a, new) /\ a \in tx[p].todo
        /\ t.todo = tx[p].todo \ {a} /\ t.hit = tx[p].hit \cup {a} /\ t.wfs = tx[p].wfs
        /\ t.log = tx[p].log /\ tx[p].pc = pc /\ t.pc = PlaceAfter(pc, t.todo, t.hit, t.op)
    BY <1>2 DEF RowVisited, Silent
  <2>2. /\ Finished(t) /\ t.op = tx[p].op /\ t.op # "Claim"
        /\ t.op = "Cancel" => pc = "drop"
        /\ t.pc \in {"promote", "promoted"} => pc = "promote"
    BY <1>1, <2>1
  <2>3. /\ DOMAIN t.rows = DOMAIN tx[p].rows \cup {a} /\ t.rows[a] = new
        /\ \A b \in DOMAIN tx[p].rows : t.rows[b] = tx[p].rows[b]
    BY <1>2, <2>1 DEF IsPut
  <2>4. tx[p].hit \subseteq DOMAIN tx[p].rows
    BY <1>0 DEF Shape
  <2>5. Holdings(t)
    <3>1. t.pc \in {"promote", "promoted"} => \A b \in t.hit : t.rows[b].status = "ready"
      BY <1>0, <1>2, <2>1, <2>2, <2>3, <2>4 DEF Holdings
    <3>2. t.op = "Cancel" => \A w \in DOMAIN t.wfs : \A b \in t.todo \cup DOMAIN t.rows : WorkflowOf(b) = w
      BY <1>0, <2>1, <2>2, <2>3 DEF Holdings
    <3> QED
      BY <2>2, <3>1, <3>2 DEF Holdings
  <2>6. \A b \in DOMAIN tx[p].rows : Unlogged(t, b) <=> Unlogged(tx[p], b)
    BY <1>2, <2>1, <2>2 DEF Unlogged
  <2>7. \A e : Told(tx[p], e) => Told(t, e)
    BY <2>2, <2>3, <2>6 DEF Told
  <2>8. LoggedMoves(t)
    BY <1>0, <2>1, <2>7 DEF LoggedMoves
  <2>9. MovesLogged(t)
    <3>1. Unlogged(t, a)
      BY <2>1 DEF Unlogged
    <3> QED
      BY <1>0, <2>1, <2>3, <2>6, <3>1 DEF MovesLogged
  <2> QED
    BY <2>2, <2>5, <2>8, <2>9 DEF LogInv
<1>3. ASSUME NEW a \in Activities, NEW pc \in {"promote", "expire", "drop"}, RowSkipped(p, pc, a, t)
      PROVE  LogInv(t)
  <2>1. /\ SameCall(tx[p], t) /\ t.rows = tx[p].rows
        /\ t.todo = tx[p].todo \ {a} /\ t.hit = tx[p].hit /\ t.wfs = tx[p].wfs
        /\ t.log = tx[p].log \cup {} /\ tx[p].pc = pc /\ t.pc = PlaceAfter(pc, t.todo, t.hit, t.op)
    BY <1>3 DEF RowSkipped, Silent, SameTables
  <2>2. /\ Finished(t) /\ t.op = tx[p].op /\ t.op # "Claim"
        /\ t.op = "Cancel" => pc = "drop"
        /\ t.pc \in {"promote", "promoted"} => pc = "promote"
    BY <1>1, <2>1
  <2>3. Holdings(t)
    <3>1. t.pc \in {"promote", "promoted"} => \A b \in t.hit : t.rows[b].status = "ready"
      BY <1>0, <2>1, <2>2 DEF Holdings
    <3>2. t.op = "Cancel" => \A w \in DOMAIN t.wfs : \A b \in t.todo \cup DOMAIN t.rows : WorkflowOf(b) = w
      BY <1>0, <2>1, <2>2 DEF Holdings
    <3> QED
      BY <2>2, <3>1, <3>2 DEF Holdings
  <2>4. TellsNothing(p, t, {})
    BY <2>1, <2>2 DEF TellsNothing
  <2>5. LoggedMoves(t) /\ MovesLogged(t)
    BY <2>4, KeepsLog
  <2> QED
    BY <2>2, <2>3, <2>5 DEF LogInv
<1>4. PICK a \in Activities :
        \/ /\ Row(p, a).status = "retry_pending"
           /\ RowVisited(p, "promote", a, [Row(p, a) EXCEPT !.status = "ready"], t)
        \/ /\ Row(p, a).status = "running"
           /\ RowVisited(p, "expire", a, Freed(Row(p, a), IF Row(p, a).attempt < Plan[a].maxAttempts
                                                          THEN "ready" ELSE "failed"), t)
        \/ /\ Pending(Row(p, a))
           /\ RowVisited(p, "drop", a, [Row(p, a) EXCEPT !.status = "cancelled"], t)
        \/ \E pc \in {"promote", "expire", "drop"} : RowSkipped(p, pc, a, t)
  BY DEF VisitsRow
<1>5. CASE /\ Row(p, a).status = "retry_pending"
           /\ RowVisited(p, "promote", a, [Row(p, a) EXCEPT !.status = "ready"], t)
  <2>1. a \notin DOMAIN tx[p].rows
    BY <1>5, VisitedRow DEF RowVisited
  <2>2. [Row(p, a) EXCEPT !.status = "ready"].status = "ready"
    BY RowsTyped, StatusRow
  <2> QED
    BY <1>2, <1>5, <2>1, <2>2
<1>6. CASE /\ Row(p, a).status = "running"
           /\ RowVisited(p, "expire", a, Freed(Row(p, a), IF Row(p, a).attempt < Plan[a].maxAttempts
                                                          THEN "ready" ELSE "failed"), t)
  <2>1. a \notin DOMAIN tx[p].rows
    BY <1>6, VisitedRow DEF RowVisited
  <2> QED
    BY <1>2, <1>6, <2>1
<1>7. CASE /\ Pending(Row(p, a))
           /\ RowVisited(p, "drop", a, [Row(p, a) EXCEPT !.status = "cancelled"], t)
  <2>1. a \notin DOMAIN tx[p].rows
    BY <1>7, VisitedRow DEF RowVisited
  <2> QED
    BY <1>2, <1>7, <2>1
<1> QED
  BY <1>3, <1>4, <1>5, <1>6, <1>7

\* A row of the loop that logs has its transition told.
TellsHit(p, t, a, e, other) ==
  /\ a \in tx[p].hit /\ t.log = tx[p].log \cup ({e} \cup other) /\ \A f \in other : ~IsMove(f)
  /\ t.op = tx[p].op /\ t.op # "Claim" /\ t.rows = tx[p].rows /\ t.hit = tx[p].hit \ {a}
  /\ IsMove(e) /\ e.type # "activity.claimed" /\ e.subject = a /\ e.workflow = WorkflowOf(a)
  /\ e.sequence \in Int /\ nextSequence < e.sequence /\ t.rows[a].status = StatusAfter[e.type]

\* A row that was waiting to be logged is told once.
LEMMA HitLogs ==
  ASSUME StoreInv, HistoryInv, NEW p \in Sessions, NEW t, NEW a, NEW e, NEW other,
         TellsHit(p, t, a, e, other)
  PROVE  LoggedMoves(t) /\ MovesLogged(t)
<1>1. a \in DOMAIN tx[p].rows
  BY SessionTx DEF Shape, TellsHit
<1>2. MovesOf(tx[p].log, a) = {}
  BY SessionLog DEF MovesOf, Told, Unlogged, TellsHit
<1>3. AddsMove(p, t, a, e, other)
  BY <1>1, <1>2 DEF AddsMove, Unlogged, TellsHit
<1> QED
  BY <1>3, WritesLog

\* The loops that log tell each row they have updated.
LEMMA LogsLogs ==
  ASSUME StoreInv, HistoryInv, NEW p \in Sessions, NEW t, NEW n, LogsRow(p, t, n)
  PROVE  LogInv(t)
<1>0. /\ Finished(tx[p]) /\ Holdings(tx[p]) /\ Shape(tx[p]) /\ Place(tx[p])
      /\ LoggedMoves(tx[p]) /\ MovesLogged(tx[p]) /\ RowsMoved(tx[p]) /\ nextSequence \in Nat
  BY SessionLog, SessionTx
<1>2. ASSUME NEW a \in Activities, NEW pc \in {"promoted", "expired"}, NEW new, HitLogged(p, pc, a, new, t)
      PROVE  /\ Finished(t) /\ Holdings(t) /\ a \in tx[p].hit /\ t.log = tx[p].log \cup new
             /\ t.op = tx[p].op /\ t.op # "Claim" /\ t.rows = tx[p].rows /\ t.hit = tx[p].hit \ {a}
             /\ pc = "promoted" => t.rows[a].status = "ready"
  <2>1. /\ SameCall(tx[p], t) /\ t.rows = tx[p].rows /\ t.todo = tx[p].todo /\ a \in tx[p].hit
        /\ t.hit = tx[p].hit \ {a} /\ tx[p].pc = pc /\ t.pc = PlaceAfter(pc, t.todo, t.hit, t.op)
        /\ t.log = tx[p].log \cup new
    BY <1>2 DEF HitLogged, Logs
  <2>2. t.todo = {}
    BY <1>0, <2>1 DEF Finished
  <2>3. Finished(t)
    BY <2>1, <2>2, LoopFinished
  <2>4. t.op = tx[p].op /\ t.op # "Claim" /\ t.op # "Cancel"
    BY <1>0, <2>1, EmptyTx DEF Place, SameCall, LeaseOps
  <2>5. t.pc \in {"promote", "promoted"} => pc = "promoted"
    BY <2>1 DEF PlaceAfter
  <2>6. Holdings(t)
    BY <1>0, <2>1, <2>4, <2>5 DEF Holdings
  <2>7. pc = "promoted" => t.rows[a].status = "ready"
    BY <1>0, <2>1 DEF Holdings
  <2> QED
    BY <2>1, <2>3, <2>4, <2>6, <2>7
<1>3. PICK a \in Activities :
       \/ HitLogged(p, "promoted", a, {Entry(nextSequence + 1, WorkflowOf(a), a, "activity.ready")}, t)
       \/ /\ Row(p, a).status = "ready"
          /\ HitLogged(p, "expired", a,
                       {Entry(nextSequence + 1, WorkflowOf(a), a, "activity.lease_expired")}, t)
       \/ /\ Row(p, a).status = "failed"
          /\ HitLogged(p, "expired", a,
                       {Entry(nextSequence + 1, WorkflowOf(a), WorkflowOf(a), "workflow.failed"),
                        Entry(nextSequence + 2, WorkflowOf(a), a, "activity.lease_expired_failed")}, t)
       \/ \E v \in Workflows : CancelRowLogged(p, v, a, t)
  BY DEF LogsRow
<1>4. a \in tx[p].hit => Row(p, a) = tx[p].rows[a] /\ a \in DOMAIN tx[p].rows
  BY <1>0 DEF Shape, Row
<1>5. CASE HitLogged(p, "promoted", a, {Entry(nextSequence + 1, WorkflowOf(a), a, "activity.ready")}, t)
  <2> DEFINE e == Entry(nextSequence + 1, WorkflowOf(a), a, "activity.ready")
  <2>1. HitLogged(p, "promoted", a, {e}, t)
    BY <1>5
  <2>2. /\ e.sequence = nextSequence + 1 /\ e.workflow = WorkflowOf(a) /\ e.subject = a
        /\ e.type = "activity.ready"
    BY EntryFields
  <2> HIDE DEF e
  <2>3. /\ Finished(t) /\ Holdings(t) /\ a \in tx[p].hit /\ t.log = tx[p].log \cup ({e} \cup {})
        /\ t.op = tx[p].op /\ t.op # "Claim" /\ t.rows = tx[p].rows /\ t.hit = tx[p].hit \ {a}
        /\ t.rows[a].status = "ready"
    BY <1>2, <2>1
  <2>4. /\ IsMove(e) /\ StatusAfter[e.type] = "ready" /\ e.sequence \in Int /\ nextSequence < e.sequence
        /\ e.type # "activity.claimed" /\ \A f \in {} : ~IsMove(f)
    BY <1>0, <2>2, MoveTypes DEF IsMove
  <2>5. LoggedMoves(t) /\ MovesLogged(t)
    <3>1. TellsHit(p, t, a, e, {})
      BY <2>2, <2>3, <2>4 DEF TellsHit
    <3> QED
      BY <3>1, HitLogs
  <2> QED
    BY <2>3, <2>5 DEF LogInv
<1>6. CASE /\ Row(p, a).status = "ready"
           /\ HitLogged(p, "expired", a,
                        {Entry(nextSequence + 1, WorkflowOf(a), a, "activity.lease_expired")}, t)
  <2> DEFINE e == Entry(nextSequence + 1, WorkflowOf(a), a, "activity.lease_expired")
  <2>1. HitLogged(p, "expired", a, {e}, t)
    BY <1>6
  <2>2. /\ e.sequence = nextSequence + 1 /\ e.workflow = WorkflowOf(a) /\ e.subject = a
        /\ e.type = "activity.lease_expired"
    BY EntryFields
  <2> HIDE DEF e
  <2>3. /\ Finished(t) /\ Holdings(t) /\ a \in tx[p].hit /\ t.log = tx[p].log \cup ({e} \cup {})
        /\ t.op = tx[p].op /\ t.op # "Claim" /\ t.rows = tx[p].rows /\ t.hit = tx[p].hit \ {a}
    BY <1>2, <2>1
  <2>4. /\ IsMove(e) /\ StatusAfter[e.type] = "ready" /\ e.sequence \in Int /\ nextSequence < e.sequence
        /\ e.type # "activity.claimed" /\ \A f \in {} : ~IsMove(f)
    BY <1>0, <2>2, MoveTypes DEF IsMove
  <2>5. t.rows[a].status = "ready"
    BY <1>4, <1>6, <2>3
  <2>6. LoggedMoves(t) /\ MovesLogged(t)
    <3>1. TellsHit(p, t, a, e, {})
      BY <2>2, <2>3, <2>4, <2>5 DEF TellsHit
    <3> QED
      BY <3>1, HitLogs
  <2> QED
    BY <2>3, <2>6 DEF LogInv
<1>7. CASE /\ Row(p, a).status = "failed"
           /\ HitLogged(p, "expired", a,
                        {Entry(nextSequence + 1, WorkflowOf(a), WorkflowOf(a), "workflow.failed"),
                         Entry(nextSequence + 2, WorkflowOf(a), a, "activity.lease_expired_failed")}, t)
  <2> DEFINE g == Entry(nextSequence + 1, WorkflowOf(a), WorkflowOf(a), "workflow.failed")
             e == Entry(nextSequence + 2, WorkflowOf(a), a, "activity.lease_expired_failed")
  <2>1. HitLogged(p, "expired", a, {g, e}, t)
    BY <1>7
  <2>2. /\ e.sequence = nextSequence + 2 /\ e.workflow = WorkflowOf(a) /\ e.subject = a
        /\ e.type = "activity.lease_expired_failed" /\ g.type = "workflow.failed"
    BY EntryFields
  <2> HIDE DEF e, g
  <2>3. /\ Finished(t) /\ Holdings(t) /\ a \in tx[p].hit /\ t.log = tx[p].log \cup {g, e}
        /\ t.op = tx[p].op /\ t.op # "Claim" /\ t.rows = tx[p].rows /\ t.hit = tx[p].hit \ {a}
    BY <1>2, <2>1
  <2>4. /\ IsMove(e) /\ StatusAfter[e.type] = "failed" /\ e.sequence \in Int /\ nextSequence < e.sequence
        /\ e.type # "activity.claimed" /\ \A f \in {g} : ~IsMove(f)
    BY <1>0, <2>2, MoveTypes DEF IsMove
  <2>5. t.rows[a].status = "failed" /\ t.log = tx[p].log \cup ({e} \cup {g})
    BY <1>4, <1>7, <2>3
  <2>6. LoggedMoves(t) /\ MovesLogged(t)
    <3>1. TellsHit(p, t, a, e, {g})
      BY <2>2, <2>3, <2>4, <2>5 DEF TellsHit
    <3> QED
      BY <3>1, HitLogs
  <2> QED
    BY <2>3, <2>6 DEF LogInv
<1>8. CASE \E v \in Workflows : CancelRowLogged(p, v, a, t)
  <2>1. PICK v \in Workflows : CancelRowLogged(p, v, a, t)
    BY <1>8
  <2> DEFINE e == Entry(nextSequence + 1, v, a, "activity.cancelled")
  <2>2. /\ SameCall(tx[p], t) /\ t.rows = tx[p].rows /\ t.wfs = tx[p].wfs /\ t.todo = tx[p].todo
        /\ a \in tx[p].hit /\ t.hit = tx[p].hit \ {a} /\ t.log = tx[p].log \cup ({e} \cup {})
        /\ tx[p].pc = "dropped" /\ t.pc = "dropped" /\ v \in DOMAIN tx[p].wfs
    BY <2>1 DEF CancelRowLogged, SameTables, Logs
  <2>3. /\ e.sequence = nextSequence + 1 /\ e.workflow = v /\ e.subject = a
        /\ e.type = "activity.cancelled"
    BY EntryFields
  <2> HIDE DEF e
  <2>4. t.op = tx[p].op /\ t.op = "Cancel"
    BY <1>0, <2>2, EmptyTx DEF Place, SameCall, LeaseOps
  <2>5. WorkflowOf(a) = v
    BY <1>0, <1>4, <2>2, <2>4 DEF Holdings
  <2>6. t.rows[a].status = "cancelled"
    BY <1>0, <1>4, <2>2, <2>4 DEF RowsMoved, Moves, LeaseOps
  <2>7. /\ IsMove(e) /\ StatusAfter[e.type] = "cancelled" /\ e.sequence \in Int /\ nextSequence < e.sequence
        /\ e.type # "activity.claimed" /\ \A f \in {} : ~IsMove(f)
    BY <1>0, <2>3, MoveTypes DEF IsMove
  <2>8. LoggedMoves(t) /\ MovesLogged(t)
    <3>1. TellsHit(p, t, a, e, {})
      BY <2>2, <2>3, <2>4, <2>5, <2>6, <2>7 DEF TellsHit
    <3> QED
      BY <3>1, HitLogs
  <2>9. Finished(t) /\ Holdings(t)
    BY <1>0, <2>2, <2>4 DEF Finished, Holdings
  <2> QED
    BY <2>8, <2>9 DEF LogInv
<1> QED
  BY <1>3, <1>5, <1>6, <1>7, <1>8

\* A session without a transaction has nothing to tell.
LEMMA IdleLogs == LogInv(Idle)
<1>1. /\ Idle.op = "none" /\ Idle.pc = "idle" /\ DOMAIN Idle.rows = {} /\ Idle.todo = {} /\ Idle.hit = {}
      /\ Idle.log = {}
  BY EmptyTx
<1> QED
  BY <1>1 DEF LogInv, Finished, Holdings, LoggedMoves, MovesLogged

\* The statements that only look, lock or close tell no transition.
LEMMA MovesOnLogs ==
  ASSUME StoreInv, HistoryInv, NEW p \in Sessions, NEW t, NEW n, MovesOn(p, t, n)
  PROVE  LogInv(t)
<1>0. /\ Finished(tx[p]) /\ Holdings(tx[p]) /\ Shape(tx[p]) /\ Place(tx[p])
      /\ LoggedMoves(tx[p]) /\ MovesLogged(tx[p]) /\ RowsMoved(tx[p]) /\ RowLocked(tx[p])
  BY SessionLog, SessionTx
<1>1. CASE t = Idle
  BY <1>1, IdleLogs
<1>2. CASE Locked(p, t)
  <2> DEFINE a == Subject(p)
  <2>1. /\ tx[p].pc = "lock" /\ t.pc \in {"write", "stale"} /\ t.op = tx[p].op
        /\ t.todo = tx[p].todo /\ t.hit = tx[p].hit /\ t.log = tx[p].log /\ t.wfs = tx[p].wfs
        /\ IsPut(t.rows, tx[p].rows, a, activities[a])
    BY <1>2 DEF Locked, SameLoop, Silent, SameCall
  <2>2. t.op \in LeaseOps /\ t.todo = {} /\ t.hit = {}
    BY <1>0, <2>1, EmptyTx DEF Place, Finished
  <2>3. DOMAIN tx[p].rows = {}
    BY <1>0, <2>1 DEF RowLocked
  <2>4. DOMAIN t.rows = {a} /\ t.rows[a] = activities[a]
    BY <2>1, <2>3 DEF IsPut
  <2>5. \A e \in t.log : ~IsMove(e)
    BY <2>1, <2>3, SessionLog DEF Told
  <2> HIDE DEF a
  <2>6. LoggedMoves(t) /\ MovesLogged(t)
    BY <2>4, <2>5 DEF LoggedMoves, MovesLogged
  <2>7. Finished(t) /\ Holdings(t)
    BY <2>1, <2>2 DEF Finished, Holdings, LeaseOps
  <2> QED
    BY <2>6, <2>7 DEF LogInv
<1>3. CASE ReleaseBegun(p, t)
  <2>1. /\ t.op = tx[p].op /\ t.rows = tx[p].rows /\ t.log = tx[p].log \cup {} /\ t.hit = tx[p].hit
        /\ tx[p].pc = "release" /\ t.pc = PlaceAfter("promote", t.todo, t.hit, t.op)
    BY <1>3 DEF ReleaseBegun, SameTables, Silent, SameCall
  <2>2. t.op \in {"Complete", "RunSchedulerPass"} /\ t.hit = {}
    BY <1>0, <2>1, EmptyTx DEF Place, Finished
  <2>3. Finished(t)
    BY <2>1, LoopFinished
  <2>4. Holdings(t)
    BY <2>2 DEF Holdings
  <2>5. TellsNothing(p, t, {})
    BY <2>1, <2>2 DEF TellsNothing
  <2>6. LoggedMoves(t) /\ MovesLogged(t)
    BY <2>5, KeepsLog
  <2> QED
    BY <2>3, <2>4, <2>6 DEF LogInv
<1>4. ASSUME TellsNothing(p, t, t.log \ tx[p].log), t.todo = tx[p].todo,
             tx[p].pc \in {"finish", "close"}, t.pc \in {"close", "commit"}
      PROVE  LogInv(t)
  <2>1. t.op = "Complete" /\ t.hit = {} /\ t.todo = {}
    BY <1>0, <1>4, EmptyTx DEF Place, Finished, LeaseOps, TellsNothing
  <2>2. Finished(t) /\ Holdings(t)
    BY <1>4, <2>1 DEF Finished, Holdings
  <2>3. LoggedMoves(t) /\ MovesLogged(t)
    BY <1>4, KeepsLog
  <2> QED
    BY <2>2, <2>3 DEF LogInv
<1>5. CASE DoneChecked(p, t) \/ LeavesOpen(p, t)
  <2>1. /\ t.op = tx[p].op /\ t.rows = tx[p].rows /\ t.hit = tx[p].hit /\ t.todo = tx[p].todo
        /\ tx[p].pc \in {"finish", "close"} /\ t.pc \in {"close", "commit"}
        /\ t.log = tx[p].log
    BY <1>5 DEF DoneChecked, LeavesOpen, SameTables, SameLoop, Silent, SameCall
  <2>2. TellsNothing(p, t, t.log \ tx[p].log)
    BY <1>0, <2>1, EmptyTx DEF TellsNothing, Place, LeaseOps
  <2> QED
    BY <1>4, <2>1, <2>2
<1>6. CASE Closes(p, t)
  <2> DEFINE e == Entry(nextSequence + 1, SubjectWorkflow(p), SubjectWorkflow(p), "workflow.completed")
  <2>1. /\ t.op = tx[p].op /\ t.rows = tx[p].rows /\ t.hit = tx[p].hit /\ t.todo = tx[p].todo
        /\ tx[p].pc \in {"finish", "close"} /\ t.pc \in {"close", "commit"}
        /\ t.log = tx[p].log \cup {e}
    BY <1>6 DEF Closes, SameLoop, SameCall, Logs
  <2>2. ~IsMove(e)
    BY EntryFields, MoveTypes DEF IsMove
  <2> HIDE DEF e
  <2>3. TellsNothing(p, t, t.log \ tx[p].log)
    BY <1>0, <2>1, <2>2, EmptyTx DEF TellsNothing, Place, LeaseOps
  <2> QED
    BY <1>4, <2>1, <2>3
<1>7. CASE \E w \in Workflows : CancelDone(p, w, t)
  <2>1. PICK w \in Workflows : CancelDone(p, w, t)
    BY <1>7
  <2> DEFINE e == Entry(nextSequence + 1, w, w, "workflow.cancelled")
  <2>2. /\ t.op = tx[p].op /\ t.rows = tx[p].rows /\ t.wfs = tx[p].wfs /\ t.hit = tx[p].hit
        /\ t.todo = tx[p].todo /\ tx[p].pc = "dropped" /\ t.pc = "commit" /\ tx[p].hit = {}
        /\ t.log = tx[p].log \cup {e}
    BY <2>1 DEF CancelDone, SameTables, SameLoop, SameCall, Logs
  <2>3. \A f \in {e} : ~IsMove(f)
    BY EntryFields, MoveTypes DEF IsMove
  <2> HIDE DEF e
  <2>4. t.op = "Cancel" /\ t.hit = {} /\ t.todo = {}
    BY <1>0, <2>2, EmptyTx DEF Place, Finished, LeaseOps
  <2>5. Finished(t) /\ Holdings(t)
    BY <1>0, <2>2, <2>4 DEF Finished, Holdings
  <2>6. LoggedMoves(t) /\ MovesLogged(t)
    <3>1. TellsNothing(p, t, {e})
      BY <2>2, <2>3, <2>4 DEF TellsNothing
    <3> QED
      BY <3>1, KeepsLog
  <2> QED
    BY <2>5, <2>6 DEF LogInv
<1> QED
  BY <1>1, <1>2, <1>3, <1>5, <1>6, <1>7 DEF MovesOn

\* Statements keep the history in order.
LEMMA StatementLogs ==
  ASSUME StoreInv, HistoryInv, NEW p \in Sessions, NEW t, NEW n, Statement(p, t, n)
  PROVE  HistoryInv'
<1>1. LogInv(t)
  BY BeginsLogs, WritesLogs, VisitsLogs, LogsLogs, MovesOnLogs DEF Statement
<1>2. tx' = [q \in Sessions |-> IF q = p THEN t ELSE tx[q]]
  BY DEF Statement, Becomes, StoreInv, Transactions
<1>3. activities' = activities /\ events' = events
  BY DEF Statement
<1>4. CommittedLog'
  BY <1>3 DEF HistoryInv, CommittedLog, Explains, ClaimsOf, MovesOf
<1>5. \A q \in Sessions : LogInv(tx[q])'
  <2> TAKE q \in Sessions
  <2>1. LogInv(tx'[q])
    BY <1>1, <1>2 DEF HistoryInv
  <2> QED
    BY <1>3, <2>1 DEF LogInv, Finished, Holdings, LoggedMoves, Told, MovesLogged, MovesOf, Unlogged
<1> QED
  BY <1>4, <1>5 DEF HistoryInv

\* One more transition, told last.
LEMMA ExplainsNext ==
  ASSUME NEW log, NEW more, NEW a, NEW old, NEW new, NEW e, Explains(log, a, old), old.attempt \in Nat,
         MovesOf(more, a) = {e}, e.sequence \in Int,
         \A f \in MovesOf(log, a) : f.sequence \in Int /\ f.sequence < e.sequence,
         new.status = StatusAfter[e.type],
         new.attempt = IF e.type = "activity.claimed" THEN old.attempt + 1 ELSE old.attempt
  PROVE  Explains(log \cup more, a, new)
<1> DEFINE both == log \cup more
<1>1. MovesOf(both, a) = MovesOf(log, a) \cup {e} /\ e \notin MovesOf(log, a)
  BY DEF MovesOf
<1>2. ASSUME NEW L PROVE ClaimsOf(L, a) = {f \in MovesOf(L, a) : f.type = "activity.claimed"}
  BY MoveTypes DEF ClaimsOf, MovesOf, IsMove
<1> HIDE DEF both
<1>3. /\ e.type = "activity.claimed" => ClaimsOf(both, a) = ClaimsOf(log, a) \cup {e}
      /\ e.type # "activity.claimed" => ClaimsOf(both, a) = ClaimsOf(log, a)
      /\ e \notin ClaimsOf(log, a)
  <2>1. \A f : /\ f \in ClaimsOf(both, a) <=> f \in MovesOf(both, a) /\ f.type = "activity.claimed"
               /\ f \in ClaimsOf(log, a) <=> f \in MovesOf(log, a) /\ f.type = "activity.claimed"
    BY <1>2
  <2> QED
    BY <1>1, <2>1
<1>4. IsFiniteSet(ClaimsOf(log, a)) /\ old.attempt = Cardinality(ClaimsOf(log, a))
  BY DEF Explains
<1>5. IsFiniteSet(ClaimsOf(both, a)) /\ new.attempt = Cardinality(ClaimsOf(both, a))
  <2>1. CASE e.type = "activity.claimed"
    <3>1. /\ IsFiniteSet(ClaimsOf(log, a) \cup {e})
          /\ Cardinality(ClaimsOf(log, a) \cup {e}) = Cardinality(ClaimsOf(log, a)) + 1
      BY <1>3, <1>4, FS_AddElement
    <3> QED
      BY <1>3, <1>4, <2>1, <3>1
  <2>2. CASE e.type # "activity.claimed"
    BY <1>3, <1>4, <2>2
  <2> QED
    BY <2>1, <2>2
<1>6. \A f \in MovesOf(both, a) :
        (\A g \in MovesOf(both, a) : g.sequence <= f.sequence) => new.status = StatusAfter[f.type]
  <2> SUFFICES ASSUME NEW f \in MovesOf(both, a), \A g \in MovesOf(both, a) : g.sequence <= f.sequence
               PROVE  f = e
    OBVIOUS
  <2> QED
    BY <1>1
<1>7. Explains(both, a, new)
  BY <1>1, <1>5, <1>6 DEF Explains
<1> QED
  BY <1>7 DEF both

\* Events that tell nothing of an activity explain it as before.
LEMMA ExplainsSame ==
  ASSUME NEW log, NEW more, NEW a, NEW old, NEW new, Explains(log, a, old), MovesOf(more, a) = {},
         new.status = old.status, new.attempt = old.attempt
  PROVE  Explains(log \cup more, a, new)
<1>1. MovesOf(log \cup more, a) = MovesOf(log, a)
  BY DEF MovesOf
<1>2. ClaimsOf(log \cup more, a) = ClaimsOf(log, a)
  BY MoveTypes DEF ClaimsOf, MovesOf, IsMove
<1> QED
  BY <1>1, <1>2 DEF Explains

\* The rows and moves another session commits are not those q holds.
LEMMA CommitSpares ==
  ASSUME StoreInv, NEW p \in Sessions, Commit(p), NEW q \in Sessions, q # p, NEW a \in DOMAIN tx[q].rows
  PROVE  a \in Activities /\ a \notin DOMAIN tx[p].rows /\ activities'[a] = activities[a]
<1>1. a \in Activities /\ a \notin DOMAIN tx[p].rows
  BY SessionTx DEF Shape, StoreInv, Transactions, RowsExclusive
<1> QED
  BY <1>1, CommittedRow

\* A commit appends to the history what explains the rows it writes.
LEMMA CommitLogs ==
  ASSUME StoreInv, HistoryInv, NEW p \in Sessions, Commit(p)
  PROVE  HistoryInv'
<1>1. tx' = [q \in Sessions |-> IF q = p THEN Idle ELSE tx[q]]
  BY DEF Commit, Becomes, StoreInv, Transactions
<1>2. events' = events \cup tx[p].log /\ tx[p].pc = "commit"
  BY DEF Commit
<1>3. LoggedMoves(tx[p]) /\ MovesLogged(tx[p]) /\ Finished(tx[p])
  BY SessionLog
<1>4. \A a : ~Unlogged(tx[p], a)
  BY <1>2, <1>3 DEF Finished, Unlogged
<1>5. \A a : a \notin DOMAIN tx[p].rows => MovesOf(tx[p].log, a) = {}
  BY <1>3 DEF LoggedMoves, Told, MovesOf
<1>6. ASSUME NEW a \in Activities
      PROVE  Explains(events', a, activities'[a])
  <2>1. Explains(events, a, activities[a])
    BY DEF HistoryInv, CommittedLog
  <2>2. activities[a] \in Rows /\ activities'[a] \in Rows
    BY RowsTyped, CommittedRow
  <2>3. CASE a \notin DOMAIN tx[p].rows
    <3>1. activities'[a] = activities[a]
      BY <2>3, CommittedRow
    <3> QED
      BY <1>2, <1>5, <2>1, <2>3, <3>1, ExplainsSame
  <2>4. CASE a \in DOMAIN tx[p].rows
    <3>1. activities'[a] = tx[p].rows[a] /\ Moves(tx[p].op, a, activities[a], activities'[a])
      BY <2>4, CommittedRow
    <3>2. CASE MovesOf(tx[p].log, a) = {}
      <4>1. activities'[a].status = activities[a].status
        BY <1>3, <1>4, <2>4, <3>1, <3>2 DEF MovesLogged
      <4>2. tx[p].op # "Claim"
        BY <2>2, <3>1, <4>1, MovesRow
      <4>3. activities'[a].attempt = activities[a].attempt
        BY <2>2, <3>1, <4>2, MovesRow
      <4> QED
        BY <1>2, <2>1, <3>2, <4>1, <4>3, ExplainsSame
    <3>3. CASE MovesOf(tx[p].log, a) # {}
      <4>1. PICK e \in tx[p].log : e.subject = a /\ IsMove(e)
        BY <3>3 DEF MovesOf
      <4>2. MovesOf(tx[p].log, a) = {e}
        BY <1>3, <4>1 DEF MovesOf, LoggedMoves
      <4>3. Told(tx[p], e)
        BY <1>3, <4>1 DEF LoggedMoves
      <4>4. e.sequence \in Int /\ \A f \in MovesOf(events, a) : f.sequence \in Int /\ f.sequence < e.sequence
        <5>1. \A f \in events : f.sequence \in Int
          BY SessionTx DEF StoreInv, TypeOK
        <5>2. e.sequence \in Int
          BY SessionTx, <4>1 DEF StoreInv, Transactions, RowInv, SequencesDrawn
        <5> QED
          BY <4>1, <4>3, <5>1, <5>2 DEF Told, MovesOf
      <4>5. activities'[a].status = StatusAfter[e.type] /\ (e.type = "activity.claimed" <=> tx[p].op = "Claim")
        BY <3>1, <4>1, <4>3 DEF Told
      <4>6. activities'[a].attempt = IF e.type = "activity.claimed" THEN activities[a].attempt + 1
                                     ELSE activities[a].attempt
        BY <2>2, <3>1, <4>5, MovesRow
      <4>7. activities[a].attempt \in Nat
        BY <2>2 DEF Rows
      <4> QED
        BY <1>2, <2>1, <4>2, <4>4, <4>5, <4>6, <4>7, ExplainsNext
    <3> QED
      BY <3>2, <3>3
  <2> QED
    BY <2>3, <2>4
<1>7. CommittedLog'
  <2>1. \A e \in events' : IsMove(e) => e.workflow = WorkflowOf(e.subject)
    BY <1>2, <1>3 DEF HistoryInv, CommittedLog, LoggedMoves, Told
  <2> QED
    BY <1>6, <2>1 DEF CommittedLog, IsMove, StatusAfter, WorkflowOf
<1>8. \A q \in Sessions : LogInv(tx[q])'
  <2> TAKE q \in Sessions
  <2>1. CASE q = p
    <3>1. tx'[q] = Idle
      BY <1>1, <2>1
    <3> QED
      BY <3>1, EmptyTx DEF LogInv, Finished, Holdings, LoggedMoves, MovesLogged
  <2>2. CASE q # p
    <3>1. tx'[q] = tx[q]
      BY <1>1, <2>2
    <3>2. Finished(tx[q]) /\ Holdings(tx[q]) /\ LoggedMoves(tx[q]) /\ MovesLogged(tx[q])
      BY SessionLog
    <3>3. \A a \in DOMAIN tx[q].rows : activities'[a] = activities[a] /\ MovesOf(events', a) = MovesOf(events, a)
      <4> TAKE a \in DOMAIN tx[q].rows
      <4>1. activities'[a] = activities[a] /\ MovesOf(tx[p].log, a) = {}
        BY <1>5, <2>2, CommitSpares
      <4> QED
        BY <1>2, <4>1 DEF MovesOf
    <3>4. Finished(tx[q])' /\ Holdings(tx[q])'
      BY <3>1, <3>2 DEF Finished, Holdings
    <3>5. LoggedMoves(tx[q])'
      <4>1. \A e : Told(tx[q], e) => Told(tx[q], e)'
        BY <3>1, <3>3 DEF Told, MovesOf, Unlogged
      <4> QED
        BY <3>1, <3>2, <4>1 DEF LoggedMoves
    <3>6. MovesLogged(tx[q])'
      BY <3>1, <3>2, <3>3 DEF MovesLogged, Unlogged, MovesOf
    <3> QED
      BY <3>4, <3>5, <3>6 DEF LogInv
  <2> QED
    BY <2>1, <2>2
<1> QED
  BY <1>7, <1>8 DEF HistoryInv

\* The empty history explains the rows Start has inserted.
LEMMA HistoryInit ==
  ASSUME Init
  PROVE  HistoryInv
<1>1. events = {} /\ \A p \in Sessions : tx[p] = Idle
  BY DEF Init
<1>2. \A a \in Activities : activities[a].status \in {"ready", "retry_pending"} /\ activities[a].attempt = 0
  BY DEF Init
<1>3. \A a : MovesOf(events, a) = {} /\ ClaimsOf(events, a) = {}
  BY <1>1 DEF MovesOf, ClaimsOf
<1>4. CommittedLog
  BY <1>1, <1>2, <1>3, FS_EmptySet DEF CommittedLog, Explains
<1> QED
  BY <1>1, <1>4, IdleLogs DEF HistoryInv

\* Every step keeps the history in order.
LEMMA HistoryNext ==
  ASSUME StoreInv, HistoryInv, [Next]_vars
  PROVE  HistoryInv'
<1>1. CASE UNCHANGED <<activities, events, tx>>
  <2>1. CommittedLog'
    BY <1>1 DEF HistoryInv, CommittedLog, Explains, ClaimsOf, MovesOf
  <2>2. \A q \in Sessions : LogInv(tx[q])'
    BY <1>1 DEF HistoryInv, LogInv, Finished, Holdings, LoggedMoves, Told, MovesLogged, MovesOf, Unlogged
  <2> QED
    BY <2>1, <2>2 DEF HistoryInv
<1>2. ASSUME NEW p \in Sessions, Step(p)
      PROVE  HistoryInv'
  <2>1. CASE UNCHANGED vars
    BY <1>1, <2>1 DEF vars
  <2> QED
    BY <1>2, <2>1, StepCases, CommitLogs, StatementLogs
<1> QED
  BY <1>1, <1>2 DEF Next, Tick, vars

\* The history is in order throughout.
LEMMA HistoryAlways == Spec => [](StoreInv /\ HistoryInv)
<1>1. Init => StoreInv /\ HistoryInv
  BY StoreInit, HistoryInit
<1>2. StoreInv /\ HistoryInv /\ [Next]_vars => StoreInv' /\ HistoryInv'
  BY StoreNext, HistoryNext
<1> QED
  BY <1>1, <1>2, PTL DEF Spec

\* Sequence numbers are drawn before commit and transactions commit in any
\* order, but the log, read in sequence order, always ends with the transition
\* that gave an activity its status, and has one claim per attempt.
THEOREM StoreHistoryExplains == Spec => []HistoryExplainsStatus
<1>1. HistoryInv => HistoryExplainsStatus
  <2> SUFFICES ASSUME HistoryInv, NEW a \in Activities
               PROVE  LET moves == {e \in events : e.subject = a /\ e.type \in DOMAIN StatusAfter}
                      IN /\ \A e \in moves : (\A f \in moves : f.sequence <= e.sequence)
                                               => activities[a].status = StatusAfter[e.type]
                         /\ activities[a].attempt = Cardinality({e \in moves : e.type = "activity.claimed"})
    BY DEF HistoryExplainsStatus
  <2>1. Explains(events, a, activities[a])
    BY DEF HistoryInv, CommittedLog
  <2> DEFINE moves == {e \in events : e.subject = a /\ e.type \in DOMAIN StatusAfter}
  <2>2. moves = MovesOf(events, a)
    BY DEF MovesOf, IsMove
  <2>3. {e \in moves : e.type = "activity.claimed"} = ClaimsOf(events, a)
    BY MoveTypes DEF ClaimsOf
  <2> HIDE DEF moves
  <2>4. /\ \A e \in moves : (\A f \in moves : f.sequence <= e.sequence)
                              => activities[a].status = StatusAfter[e.type]
        /\ activities[a].attempt = Cardinality({e \in moves : e.type = "activity.claimed"})
    BY <2>1, <2>2, <2>3 DEF Explains
  <2> QED
    BY <2>4 DEF moves
<1> QED
  BY <1>1, HistoryAlways, PTL

-----------------------------------------------------------------------------
(* Statements write the status of a workflow only with its cause.          *)

\* Only a workflow that nobody writes is taken for writing.
NewWorkflows(p, t) == \A w \in DOMAIN t.wfs \ DOMAIN tx[p].wfs : NoKeyFree(p, w)

StatusFits(p, t) == TxStatus(t) /\ NewWorkflows(p, t)

\* What StatusInv says of one session.
LEMMA SessionStatus ==
  ASSUME StatusInv, NEW p \in Sessions
  PROVE  /\ StatusWritten(tx[p]) /\ StatusFollows(tx[p]) /\ Closing(tx[p]) /\ Cancelling(tx[p])
         /\ ClosedInLog(tx[p])
BY DEF StatusInv, TxStatus

\* A worker call is about an activity and a workflow that exist.
LEMMA SubjectKnown ==
  ASSUME StoreInv, NEW p \in Sessions, tx[p].op \in LeaseOps
  PROVE  Subject(p) \in Activities /\ SubjectWorkflow(p) \in Workflows /\ Subject(p) \in Of(SubjectWorkflow(p))
<1>1. Subject(p) \in Activities
  BY SessionTx DEF ClaimKnown, StoreInv, TypeOK, Subject
<1> QED
  BY <1>1, RowsTyped DEF SubjectWorkflow, WorkflowOf, Of

\* Nothing of the tables changes.
SameStatus(p, t) ==
  /\ t.op = tx[p].op /\ t.claim = tx[p].claim /\ t.rows = tx[p].rows /\ t.wfs = tx[p].wfs
  /\ t.hit = tx[p].hit /\ (t.todo = tx[p].todo \/ t.op # "Cancel")
  /\ (t.op \in LeaseOps \cup {"Claim"} /\ t.pc # "commit" => DOMAIN t.wfs = {})

\* A statement that leaves rows and statuses alone keeps their reasons.
LEMMA KeepsStatus ==
  ASSUME StatusInv, NEW p \in Sessions, NEW t, SameStatus(p, t), Closing(t)
  PROVE  StatusFits(p, t)
<1>1. StatusWritten(tx[p]) /\ StatusFollows(tx[p]) /\ Cancelling(tx[p])
  BY SessionStatus
<1>2. \A a : RowOf(t, a) = RowOf(tx[p], a)
  BY DEF RowOf, SameStatus
<1>3. StatusWritten(t)
  BY <1>1, <1>2 DEF StatusWritten, SameStatus
<1>4. StatusFollows(t) /\ Cancelling(t)
  BY <1>1 DEF StatusFollows, Cancelling, SameStatus
<1>5. NewWorkflows(p, t)
  BY DEF NewWorkflows, SameStatus
<1> QED
  BY <1>3, <1>4, <1>5 DEF StatusFits, TxStatus

\* Transactions begin with no status written, but for Cancel's.
LEMMA BeginsStatus ==
  ASSUME StoreInv, StatusInv, NEW p \in Sessions, NEW t, NEW n, BeginsTx(p, t, n)
  PROVE  StatusFits(p, t)
<1>1. t.hit = {}
  BY DEF BeginsTx, Picked, Called, CancelBegun, SchedulerBegun, Begun
<1>2. CASE \E worker \in Workers, a \in Activities : Picked(p, a, worker, t)
  <2>1. PICK worker \in Workers, a \in Activities : Picked(p, a, worker, t)
    BY <1>2
  <2>2. t.op = "Claim" /\ t.pc = "log" /\ DOMAIN t.rows = {a} /\ DOMAIN t.wfs = {}
    BY <2>1 DEF Picked, Begun
  <2>3. t.rows[a].status = "running"
    <3>1. activities[a] \in Rows
      BY RowsTyped
    <3> QED
      BY <2>1, <3>1 DEF Picked, Rows
  <2>4. StatusWritten(t) /\ StatusFollows(t) /\ Closing(t) /\ Cancelling(t)
    BY <2>2, <2>3 DEF StatusWritten, StatusFollows, Closing, Cancelling
  <2> QED
    BY <2>2, <2>4 DEF StatusFits, TxStatus, NewWorkflows
<1>3. CASE \E op \in LeaseOps, c \in claims : Called(p, op, c, t)
  <2>1. t.op \in LeaseOps /\ t.pc = "lock" /\ DOMAIN t.rows = {} /\ DOMAIN t.wfs = {}
    BY <1>3 DEF Called, Begun
  <2>2. StatusWritten(t) /\ StatusFollows(t) /\ Closing(t) /\ Cancelling(t)
    BY <2>1 DEF StatusWritten, StatusFollows, Closing, Cancelling, LeaseOps
  <2> QED
    BY <2>1, <2>2 DEF StatusFits, TxStatus, NewWorkflows
<1>4. CASE \E w \in Workflows : CancelBegun(p, w, t)
  <2>1. PICK w \in Workflows : CancelBegun(p, w, t)
    BY <1>4
  <2>2. /\ t.op = "Cancel" /\ t.pc \in {"drop", "dropped"} /\ DOMAIN t.rows = {} /\ DOMAIN t.wfs = {w}
        /\ t.wfs[w] = "cancelled" /\ workflows[w] = "running" /\ UpdateFree(p, w)
        /\ t.todo = {a \in Activities : WorkflowOf(a) = w /\ Pending(activities[a])}
    BY <2>1 DEF CancelBegun, Begun, PlaceAfter
  <2>3. \A a \in Of(w) : activities[a].attempt = 0 => a \in t.todo \/ activities[a].status = "cancelled"
    <3> TAKE a \in Of(w)
    <3> HAVE activities[a].attempt = 0
    <3>1. activities[a].status \notin {"running", "completed", "failed"}
      BY DEF StatusInv, Started, Of
    <3>2. activities[a] \in Rows
      BY RowsTyped DEF Of
    <3> QED
      BY <2>2, <3>1, <3>2 DEF Rows, Pending, Of
  <2>4. StatusWritten(t) /\ StatusFollows(t) /\ Closing(t)
    BY <2>2 DEF StatusWritten, StatusFollows, Closing, LeaseOps
  <2>5. Cancelling(t)
    BY <2>2, <2>3 DEF Cancelling
  <2> QED
    BY <2>2, <2>4, <2>5 DEF StatusFits, TxStatus, NewWorkflows, UpdateFree
<1>5. CASE SchedulerBegun(p, t)
  <2>1. /\ t.op = "RunSchedulerPass" /\ t.pc \in {"expire", "expired", "release"}
        /\ DOMAIN t.rows = {} /\ DOMAIN t.wfs = {}
    BY <1>5 DEF SchedulerBegun, Begun, PlaceAfter
  <2>2. StatusWritten(t) /\ StatusFollows(t) /\ Closing(t) /\ Cancelling(t)
    BY <2>1 DEF StatusWritten, StatusFollows, Closing, Cancelling, LeaseOps
  <2> QED
    BY <2>1, <2>2 DEF StatusFits, TxStatus, NewWorkflows
<1> QED
  BY <1>2, <1>3, <1>4, <1>5 DEF BeginsTx

\* A final Fail writes the status with the row that is the reason.
LEMMA WritesStatus ==
  ASSUME StoreInv, HistoryInv, StatusInv, NEW p \in Sessions, NEW t, NEW n, WritesResult(p, t, n)
  PROVE  StatusFits(p, t)
<1> DEFINE a == Subject(p)
           row == Row(p, a)
<1>0. /\ Finished(tx[p]) /\ Holdings(tx[p]) /\ Shape(tx[p]) /\ Place(tx[p]) /\ StatusWritten(tx[p])
  BY SessionLog, SessionTx, SessionStatus
<1>1. ASSUME NEW pc \in {"log", "stale"}, NEW b, NEW type, Noted(p, pc, b, type, t),
             pc = "log" => tx[p].op = "Claim"
      PROVE  StatusFits(p, t)
  <2>1. /\ tx[p].pc = pc /\ t.pc = "commit" /\ SameCall(tx[p], t) /\ SameTables(tx[p], t)
        /\ SameLoop(tx[p], t)
    BY <1>1 DEF Noted
  <2>2. SameStatus(p, t) /\ Closing(t)
    BY <2>1 DEF SameStatus, SameCall, SameTables, SameLoop, Closing
  <2> QED
    BY <2>2, KeepsStatus
<1>2. ASSUME tx[p].pc = "write"
      PROVE  /\ tx[p].op \in LeaseOps /\ DOMAIN tx[p].wfs = {} /\ DOMAIN tx[p].rows = {a}
             /\ tx[p].hit = {} /\ row \in Rows
  BY <1>0, <1>2, HeldRow DEF StatusWritten, Finished
<1>3. ASSUME NEW op, NEW new, NEW type, NEW pc \in {"commit", "release"}, RowWritten(p, op, new, type, pc, t),
             new.status # "failed", pc = "release" => new.status = "completed"
      PROVE  StatusFits(p, t)
  <2>1. /\ tx[p].pc = "write" /\ IsPut(t.rows, tx[p].rows, a, new) /\ SameCall(tx[p], t)
        /\ t.pc = pc /\ t.wfs = tx[p].wfs
    BY <1>3 DEF RowWritten, At
  <2>2. /\ t.op \in LeaseOps /\ DOMAIN t.wfs = {} /\ DOMAIN t.rows = {a} /\ t.rows[a] = new
        /\ t.claim.activity = a
    BY <1>2, <2>1 DEF IsPut, SameCall, Subject
  <2> HIDE DEF a
  <2>3. StatusWritten(t) /\ StatusFollows(t) /\ Cancelling(t)
    BY <1>3, <2>2 DEF StatusWritten, StatusFollows, Cancelling, LeaseOps
  <2>4. Closing(t)
    BY <1>3, <2>1, <2>2 DEF Closing
  <2> QED
    BY <2>2, <2>3, <2>4 DEF StatusFits, TxStatus, NewWorkflows
<1>4. CASE RowWritten(p, "Heartbeat", [row EXCEPT !.expires = tx[p].at + leaseSeconds],
                      "activity.heartbeat", "commit", t)
  <2> DEFINE new == [row EXCEPT !.expires = tx[p].at + leaseSeconds]
  <2>1. new.status # "failed"
    <3>1. row \in Rows /\ row.status = "running"
      BY <1>4, HeldRow DEF RowWritten, At
    <3> HIDE DEF row
    <3> QED
      BY <3>1 DEF Rows
  <2>2. RowWritten(p, "Heartbeat", new, "activity.heartbeat", "commit", t)
    BY <1>4
  <2> HIDE DEF new
  <2> QED
    BY <1>3, <2>1, <2>2
<1>5. CASE RowWritten(p, "Complete", Freed(row, "completed"), "activity.completed", "release", t)
  <2>1. Freed(row, "completed").status = "completed"
    <3>1. row \in Rows
      BY <1>5, HeldRow DEF RowWritten, At
    <3> QED
      BY <3>1, FreedRow
  <2> QED
    BY <1>3, <1>5, <2>1
<1>6. CASE RowWritten(p, "Fail",
                   [Freed(row, "retry_pending") EXCEPT
                      !.nextAt = tx[p].at + (Plan[a].backoff * row.attempt) \div 1000],
                   "activity.retry_scheduled", "commit", t)
  <2> DEFINE new == [Freed(row, "retry_pending") EXCEPT
                      !.nextAt = tx[p].at + (Plan[a].backoff * row.attempt) \div 1000]
  <2>1. new.status = "retry_pending"
    <3>1. row \in Rows
      BY <1>6, HeldRow DEF RowWritten, At
    <3> DEFINE fr == Freed(row, "retry_pending")
    <3>2. fr \in Rows /\ fr.status = "retry_pending"
      BY <3>1, FreedRow
    <3> HIDE DEF fr
    <3>3. ASSUME NEW next PROVE [fr EXCEPT !.nextAt = next].status = "retry_pending"
      BY <3>2 DEF Rows
    <3> QED
      BY <3>3 DEF fr
  <2>2. RowWritten(p, "Fail", new, "activity.retry_scheduled", "commit", t)
    BY <1>6
  <2> HIDE DEF new
  <2> QED
    BY <1>3, <2>1, <2>2
<1>7. CASE FailedFinally(p, t)
  <2> DEFINE w == SubjectWorkflow(p)
             new == Freed(row, "failed")
  <2>1. /\ tx[p].pc = "write" /\ IsPut(t.rows, tx[p].rows, a, new) /\ SameCall(tx[p], t)
        /\ SameLoop(tx[p], t) /\ t.pc = "commit" /\ IsPut(t.wfs, tx[p].wfs, w, "failed")
        /\ NoKeyFree(p, w) /\ tx[p].op = "Fail"
    BY <1>7 DEF FailedFinally, At
  <2>2. new.status = "failed"
    BY <1>2, <2>1, FreedRow
  <2>3. a \in Of(w) /\ w = WorkflowOf(a)
    BY <2>1, SubjectKnown DEF LeaseOps, SubjectWorkflow
  <2> HIDE DEF new
  <2>4. /\ t.op = "Fail" /\ DOMAIN t.wfs = {w} /\ t.wfs[w] = "failed" /\ DOMAIN t.rows = {a}
        /\ t.rows[a] = new /\ t.hit = {}
    BY <1>2, <2>1 DEF IsPut, SameCall, SameLoop
  <2> HIDE DEF a, w
  <2>5. StatusWritten(t) /\ StatusFollows(t)
    BY <2>1, <2>2, <2>3, <2>4 DEF StatusWritten, StatusFollows
  <2>6. Closing(t) /\ Cancelling(t)
    BY <2>1, <2>4 DEF Closing, Cancelling
  <2> QED
    BY <2>1, <2>4, <2>5, <2>6 DEF StatusFits, TxStatus, NewWorkflows
<1> QED
  BY <1>1, <1>4, <1>5, <1>6, <1>7 DEF WritesResult

\* A row visited is no row that a status rests on.
LEMMA VisitsStatus ==
  ASSUME StoreInv, HistoryInv, StatusInv, NEW p \in Sessions, NEW t, NEW n, VisitsRow(p, t, n)
  PROVE  StatusFits(p, t)
<1>0. /\ Holdings(tx[p]) /\ Shape(tx[p]) /\ Place(tx[p])
      /\ StatusWritten(tx[p]) /\ StatusFollows(tx[p]) /\ Closing(tx[p]) /\ Cancelling(tx[p])
  BY SessionLog, SessionTx, SessionStatus
<1>1. ASSUME NEW pc \in {"promote", "expire", "drop"}, tx[p].pc = pc, SameCall(tx[p], t),
             t.pc = PlaceAfter(pc, t.todo, t.hit, t.op), t.wfs = tx[p].wfs
      PROVE  /\ t.op = tx[p].op /\ t.claim = tx[p].claim
             /\ pc = "promote" => t.op \in {"Complete", "RunSchedulerPass"}
             /\ pc = "expire" => t.op = "RunSchedulerPass"
             /\ pc = "drop" => t.op = "Cancel"
             /\ t.pc # "close" /\ (t.op = "Complete" => pc = "promote")
             /\ t.op \in LeaseOps \cup {"Claim"} => t.op = "Complete" /\ DOMAIN t.wfs = {}
  <2>1. /\ t.op = tx[p].op /\ t.claim = tx[p].claim
        /\ pc = "promote" => t.op \in {"Complete", "RunSchedulerPass"}
        /\ pc = "expire" => t.op = "RunSchedulerPass"
        /\ pc = "drop" => t.op = "Cancel"
    BY <1>0, <1>1, EmptyTx DEF Place, SameCall
  <2>2. t.pc # "close" /\ (t.op = "Complete" => pc = "promote")
    BY <1>1, <2>1 DEF PlaceAfter
  <2>3. t.op \in LeaseOps \cup {"Claim"} => t.op = "Complete" /\ DOMAIN t.wfs = {}
    BY <1>0, <1>1, <2>1 DEF StatusWritten, LeaseOps
  <2> QED
    BY <2>1, <2>2, <2>3
<1>2. ASSUME NEW a \in Activities, NEW pc \in {"promote", "expire", "drop"}, NEW new,
             a \notin DOMAIN tx[p].rows, RowVisited(p, pc, a, new, t), tx[p].op = "Complete" => new.status = "ready"
      PROVE  StatusFits(p, t)
  <2>1. /\ SameCall(tx[p], t) /\ IsPut(t.rows, tx[p].rows, a, new) /\ t.todo = tx[p].todo \ {a}
        /\ t.hit = tx[p].hit \cup {a} /\ t.wfs = tx[p].wfs /\ tx[p].pc = pc
        /\ t.pc = PlaceAfter(pc, t.todo, t.hit, t.op)
    BY <1>2 DEF RowVisited
  <2>2. /\ t.op = tx[p].op /\ t.claim = tx[p].claim
        /\ t.pc # "close" /\ (t.op = "Complete" => pc = "promote")
        /\ t.op \in LeaseOps \cup {"Claim"} => t.op = "Complete" /\ DOMAIN t.wfs = {}
    BY <1>1, <2>1
  <2>3. /\ DOMAIN t.rows = DOMAIN tx[p].rows \cup {a}
        /\ \A b \in DOMAIN tx[p].rows : t.rows[b] = tx[p].rows[b] /\ b # a
    BY <1>2, <2>1 DEF IsPut
  <2>4. StatusWritten(t)
    <3>1. \A w \in DOMAIN t.wfs : t.wfs[w] # "completed"
      BY <1>0, <2>1, <2>2 DEF StatusWritten, LeaseOps
    <3>2. \A w \in DOMAIN t.wfs :
            \/ t.wfs[w] = "cancelled" /\ t.op = "Cancel" /\ workflows[w] = "running"
            \/ /\ t.wfs[w] = "failed" /\ t.op \in {"Fail", "RunSchedulerPass"}
               /\ \E b \in Of(w) \cap DOMAIN t.rows : t.rows[b].status = "failed" /\ b \notin t.hit
      BY <1>0, <2>1, <2>2, <2>3, <3>1 DEF StatusWritten
    <3> QED
      BY <2>2, <3>2 DEF StatusWritten
  <2>5. StatusFollows(t)
    BY <1>0, <2>1, <2>3 DEF StatusFollows
  <2>6. Closing(t)
    BY <1>0, <2>1, <2>2, <2>3 DEF Closing
  <2>7. Cancelling(t)
    BY <1>0, <2>1, <2>2, <2>3 DEF Cancelling
  <2>8. NewWorkflows(p, t)
    BY <2>1 DEF NewWorkflows
  <2> QED
    BY <2>4, <2>5, <2>6, <2>7, <2>8 DEF StatusFits, TxStatus
<1>3. ASSUME NEW a \in Activities, NEW pc \in {"promote", "expire", "drop"}, RowSkipped(p, pc, a, t),
             pc = "drop" => ~Pending(Row(p, a))
      PROVE  StatusFits(p, t)
  <2>1. /\ SameCall(tx[p], t) /\ t.rows = tx[p].rows /\ t.todo = tx[p].todo \ {a}
        /\ t.hit = tx[p].hit /\ t.wfs = tx[p].wfs /\ tx[p].pc = pc
        /\ t.pc = PlaceAfter(pc, t.todo, t.hit, t.op)
    BY <1>3 DEF RowSkipped, SameTables
  <2>2. /\ t.op = tx[p].op /\ t.claim = tx[p].claim
        /\ t.pc # "close" /\ (t.op = "Complete" => pc = "promote") /\ (pc # "drop" => t.op # "Cancel")
        /\ t.op \in LeaseOps \cup {"Claim"} => t.op = "Complete" /\ DOMAIN t.wfs = {}
    BY <1>1, <2>1
  <2>3. Closing(t)
    BY <1>0, <2>1, <2>2 DEF Closing
  <2>4. CASE pc # "drop"
    <3>1. SameStatus(p, t)
      BY <2>1, <2>2, <2>4 DEF SameStatus
    <3> QED
      BY <2>3, <3>1, KeepsStatus
  <2>5. CASE pc = "drop"
    <3>1. \A b : RowOf(t, b) = RowOf(tx[p], b)
      BY <2>1 DEF RowOf
    <3>2. StatusWritten(t) /\ StatusFollows(t)
      BY <1>0, <2>1, <2>2, <3>1 DEF StatusWritten, StatusFollows
    <3>3. activities[a].attempt = 0 => a \in DOMAIN t.rows \/ activities[a].status = "cancelled"
      <4>1. SUFFICES ASSUME activities[a].attempt = 0, a \notin DOMAIN tx[p].rows
                     PROVE  activities[a].status = "cancelled"
        BY <2>1
      <4>2. activities[a].status \notin {"running", "completed", "failed"}
        BY <4>1 DEF StatusInv, Started
      <4>3. ~Pending(activities[a]) /\ activities[a] \in Rows
        BY <1>3, <2>5, <4>1, RowsTyped DEF Row
      <4> QED
        BY <4>2, <4>3 DEF Pending, Rows
    <3>4. Cancelling(t)
      BY <1>0, <2>1, <2>2, <3>3 DEF Cancelling
    <3>5. NewWorkflows(p, t)
      BY <2>1 DEF NewWorkflows
    <3> QED
      BY <2>3, <3>2, <3>4, <3>5 DEF StatusFits, TxStatus
  <2> QED
    BY <2>4, <2>5
<1>4. PICK a \in Activities :
        \/ /\ Row(p, a).status = "retry_pending"
           /\ RowVisited(p, "promote", a, [Row(p, a) EXCEPT !.status = "ready"], t)
        \/ /\ Row(p, a).status = "running"
           /\ RowVisited(p, "expire", a, Freed(Row(p, a), IF Row(p, a).attempt < Plan[a].maxAttempts
                                                          THEN "ready" ELSE "failed"), t)
        \/ /\ Pending(Row(p, a))
           /\ RowVisited(p, "drop", a, [Row(p, a) EXCEPT !.status = "cancelled"], t)
        \/ \E pc \in {"promote", "expire"} : RowSkipped(p, pc, a, t)
        \/ ~Pending(Row(p, a)) /\ RowSkipped(p, "drop", a, t)
  BY DEF VisitsRow
<1>5. CASE /\ Row(p, a).status = "retry_pending"
           /\ RowVisited(p, "promote", a, [Row(p, a) EXCEPT !.status = "ready"], t)
  <2>1. a \notin DOMAIN tx[p].rows
    BY <1>5, VisitedRow DEF RowVisited
  <2>2. [Row(p, a) EXCEPT !.status = "ready"].status = "ready"
    BY RowsTyped, StatusRow
  <2> QED
    BY <1>2, <1>5, <2>1, <2>2
<1>6. CASE /\ Row(p, a).status = "running"
           /\ RowVisited(p, "expire", a, Freed(Row(p, a), IF Row(p, a).attempt < Plan[a].maxAttempts
                                                          THEN "ready" ELSE "failed"), t)
  <2>1. a \notin DOMAIN tx[p].rows /\ tx[p].op = "RunSchedulerPass"
    BY <1>6, VisitedRow DEF RowVisited
  <2> QED
    BY <1>2, <1>6, <2>1
<1>7. CASE /\ Pending(Row(p, a))
           /\ RowVisited(p, "drop", a, [Row(p, a) EXCEPT !.status = "cancelled"], t)
  <2>1. a \notin DOMAIN tx[p].rows /\ tx[p].op = "Cancel"
    BY <1>7, VisitedRow DEF RowVisited
  <2> QED
    BY <1>2, <1>7, <2>1
<1>8. CASE \/ \E pc \in {"promote", "expire"} : RowSkipped(p, pc, a, t)
           \/ ~Pending(Row(p, a)) /\ RowSkipped(p, "drop", a, t)
  BY <1>3, <1>8
<1> QED
  BY <1>4, <1>5, <1>6, <1>7, <1>8

\* An exhausted lease is logged with the failure of its workflow.
LEMMA LogsStatus ==
  ASSUME StoreInv, HistoryInv, StatusInv, NEW p \in Sessions, NEW t, NEW n, LogsRow(p, t, n)
  PROVE  StatusFits(p, t)
<1>0. /\ Holdings(tx[p]) /\ Shape(tx[p]) /\ Place(tx[p]) /\ RowsMoved(tx[p])
      /\ StatusWritten(tx[p]) /\ StatusFollows(tx[p]) /\ Closing(tx[p]) /\ Cancelling(tx[p])
  BY SessionLog, SessionTx, SessionStatus
<1>1. ASSUME NEW a \in Activities, NEW pc \in {"promoted", "expired"}, NEW new, HitLogged(p, pc, a, new, t),
             \/ t.wfs = tx[p].wfs /\ tx[p].rows[a].status = "ready"
             \/ /\ IsPut(t.wfs, tx[p].wfs, WorkflowOf(a), "failed") /\ NoKeyFree(p, WorkflowOf(a))
                /\ tx[p].rows[a].status = "failed" /\ pc = "expired"
      PROVE  StatusFits(p, t)
  <2>1. /\ SameCall(tx[p], t) /\ t.rows = tx[p].rows /\ t.todo = tx[p].todo /\ a \in tx[p].hit
        /\ t.hit = tx[p].hit \ {a} /\ tx[p].pc = pc /\ t.pc = PlaceAfter(pc, t.todo, t.hit, t.op)
    BY <1>1 DEF HitLogged
  <2>2. /\ t.op = tx[p].op /\ t.claim = tx[p].claim
        /\ t.op \in {"Complete", "RunSchedulerPass"} /\ (pc = "expired" => t.op = "RunSchedulerPass")
    BY <1>0, <2>1, EmptyTx DEF Place, SameCall
  <2>3. t.pc # "close"
    BY <2>1 DEF PlaceAfter
  <2>4. a \in DOMAIN t.rows /\ a \in Of(WorkflowOf(a))
    BY <1>0, <2>1 DEF Shape, Of
  <2>5. t.op = "Complete" => t.wfs = tx[p].wfs /\ DOMAIN t.wfs = {}
    BY <1>0, <1>1, <2>1, <2>2 DEF StatusWritten, LeaseOps
  <2>6. StatusWritten(t)
    <3>1. \A w \in DOMAIN tx[p].wfs :
            /\ tx[p].wfs[w] = "failed" /\ t.op = "RunSchedulerPass"
            /\ \E b \in Of(w) \cap DOMAIN t.rows : t.rows[b].status = "failed" /\ b \notin t.hit
      BY <1>0, <2>1, <2>2, <2>5 DEF StatusWritten
    <3>2. \A w \in DOMAIN t.wfs :
            /\ t.wfs[w] = "failed" /\ t.op = "RunSchedulerPass"
            /\ \E b \in Of(w) \cap DOMAIN t.rows : t.rows[b].status = "failed" /\ b \notin t.hit
      <4>1. CASE t.wfs = tx[p].wfs
        BY <3>1, <4>1
      <4>2. CASE /\ IsPut(t.wfs, tx[p].wfs, WorkflowOf(a), "failed") /\ pc = "expired"
                 /\ tx[p].rows[a].status = "failed"
        BY <2>1, <2>2, <2>4, <3>1, <4>2 DEF IsPut
      <4> QED
        BY <1>1, <4>1, <4>2
    <3> QED
      BY <2>5, <3>2 DEF StatusWritten, LeaseOps
  <2>7. StatusFollows(t)
    <3>1. CASE t.wfs = tx[p].wfs /\ tx[p].rows[a].status = "ready"
      BY <1>0, <2>1, <3>1 DEF StatusFollows
    <3>2. CASE IsPut(t.wfs, tx[p].wfs, WorkflowOf(a), "failed")
      BY <1>0, <2>1, <3>2 DEF StatusFollows, IsPut
    <3> QED
      BY <1>1, <3>1, <3>2
  <2>8. Closing(t)
    BY <1>0, <2>1, <2>2, <2>3 DEF Closing
  <2>9. Cancelling(t)
    BY <2>2 DEF Cancelling
  <2>10. NewWorkflows(p, t)
    BY <1>1 DEF NewWorkflows, IsPut
  <2> QED
    BY <2>6, <2>7, <2>8, <2>9, <2>10 DEF StatusFits, TxStatus
<1>2. \A a \in tx[p].hit : a \in DOMAIN tx[p].rows /\ Row(p, a) = tx[p].rows[a]
  BY <1>0 DEF Shape, Row
<1>3. PICK a \in Activities :
       \/ /\ t.wfs = tx[p].wfs
          /\ HitLogged(p, "promoted", a, {Entry(nextSequence + 1, WorkflowOf(a), a, "activity.ready")}, t)
       \/ /\ t.wfs = tx[p].wfs /\ Row(p, a).status = "ready"
          /\ HitLogged(p, "expired", a,
                       {Entry(nextSequence + 1, WorkflowOf(a), a, "activity.lease_expired")}, t)
       \/ /\ NoKeyFree(p, WorkflowOf(a)) /\ Row(p, a).status = "failed"
          /\ IsPut(t.wfs, tx[p].wfs, WorkflowOf(a), "failed")
          /\ HitLogged(p, "expired", a,
                       {Entry(nextSequence + 1, WorkflowOf(a), WorkflowOf(a), "workflow.failed"),
                        Entry(nextSequence + 2, WorkflowOf(a), a, "activity.lease_expired_failed")}, t)
       \/ \E v \in Workflows : CancelRowLogged(p, v, a, t)
  BY DEF LogsRow
<1>4. ASSUME NEW pc \in {"promoted", "expired"}, NEW new, HitLogged(p, pc, a, new, t)
      PROVE  /\ Row(p, a) = tx[p].rows[a] /\ (pc = "promoted" => tx[p].rows[a].status = "ready")
  <2>1. a \in tx[p].hit /\ tx[p].pc = pc
    BY <1>4 DEF HitLogged
  <2> QED
    BY <1>0, <1>2, <2>1 DEF Holdings
<1>5. CASE /\ t.wfs = tx[p].wfs
           /\ HitLogged(p, "promoted", a, {Entry(nextSequence + 1, WorkflowOf(a), a, "activity.ready")}, t)
  <2>1. tx[p].rows[a].status = "ready"
    BY <1>4, <1>5
  <2> QED
    BY <1>1, <1>5, <2>1
<1>6. CASE /\ t.wfs = tx[p].wfs /\ Row(p, a).status = "ready"
           /\ HitLogged(p, "expired", a,
                        {Entry(nextSequence + 1, WorkflowOf(a), a, "activity.lease_expired")}, t)
  <2>1. tx[p].rows[a].status = "ready"
    BY <1>4, <1>6
  <2> QED
    BY <1>1, <1>6, <2>1
<1>7. CASE /\ NoKeyFree(p, WorkflowOf(a)) /\ Row(p, a).status = "failed"
           /\ IsPut(t.wfs, tx[p].wfs, WorkflowOf(a), "failed")
           /\ HitLogged(p, "expired", a,
                        {Entry(nextSequence + 1, WorkflowOf(a), WorkflowOf(a), "workflow.failed"),
                         Entry(nextSequence + 2, WorkflowOf(a), a, "activity.lease_expired_failed")}, t)
  <2>1. tx[p].rows[a].status = "failed"
    BY <1>4, <1>7
  <2> QED
    BY <1>1, <1>7, <2>1
<1>8. CASE \E v \in Workflows : CancelRowLogged(p, v, a, t)
  <2>1. PICK v \in Workflows : CancelRowLogged(p, v, a, t)
    BY <1>8
  <2>2. /\ t.op = tx[p].op /\ t.claim = tx[p].claim /\ t.rows = tx[p].rows /\ t.wfs = tx[p].wfs
        /\ t.todo = tx[p].todo /\ a \in tx[p].hit /\ t.hit = tx[p].hit \ {a}
        /\ tx[p].pc = "dropped" /\ t.pc = "dropped"
    BY <2>1 DEF CancelRowLogged, SameTables, SameCall
  <2>3. t.op = "Cancel"
    BY <1>0, <2>2, EmptyTx DEF Place, LeaseOps
  <2>4. t.rows[a].status = "cancelled"
    BY <1>0, <1>2, <2>2, <2>3 DEF RowsMoved, Moves, LeaseOps
  <2>5. \A b : RowOf(t, b) = RowOf(tx[p], b)
    BY <2>2 DEF RowOf
  <2>6. StatusWritten(t)
    BY <1>0, <2>2, <2>3, <2>5 DEF StatusWritten, LeaseOps
  <2>7. StatusFollows(t)
    BY <1>0, <2>2, <2>4 DEF StatusFollows
  <2>8. Closing(t) /\ Cancelling(t)
    BY <1>0, <2>2 DEF Closing, Cancelling
  <2>9. NewWorkflows(p, t)
    BY <2>2 DEF NewWorkflows
  <2> QED
    BY <2>6, <2>7, <2>8, <2>9 DEF StatusFits, TxStatus
<1> QED
  BY <1>3, <1>5, <1>6, <1>7, <1>8

\* A session without a transaction writes no status.
LEMMA IdleStatus == TxStatus(Idle)
<1>1. /\ Idle.op = "none" /\ Idle.pc = "idle" /\ DOMAIN Idle.rows = {} /\ DOMAIN Idle.wfs = {}
  BY EmptyTx
<1> QED
  BY <1>1 DEF TxStatus, StatusWritten, StatusFollows, Closing, Cancelling, LeaseOps

\* A workflow is closed only when all its activities are seen completed.
LEMMA MovesOnStatus ==
  ASSUME StoreInv, HistoryInv, StatusInv, NEW p \in Sessions, NEW t, NEW n, MovesOn(p, t, n)
  PROVE  StatusFits(p, t)
<1>0. /\ Holdings(tx[p]) /\ Shape(tx[p]) /\ Place(tx[p]) /\ RowLocked(tx[p]) /\ Finished(tx[p])
      /\ StatusWritten(tx[p]) /\ StatusFollows(tx[p]) /\ Closing(tx[p]) /\ Cancelling(tx[p])
  BY SessionLog, SessionTx, SessionStatus
<1>1. CASE t = Idle
  BY <1>1, IdleStatus, EmptyTx DEF StatusFits, NewWorkflows
<1>2. CASE Locked(p, t)
  <2> DEFINE a == Subject(p)
  <2>1. /\ tx[p].pc = "lock" /\ t.pc \in {"write", "stale"} /\ t.op = tx[p].op /\ t.wfs = tx[p].wfs
        /\ IsPut(t.rows, tx[p].rows, a, activities[a]) /\ activities[a].status = "running"
    BY <1>2 DEF Locked, SameCall
  <2>2. t.op \in LeaseOps /\ DOMAIN t.wfs = {} /\ DOMAIN tx[p].rows = {}
    BY <1>0, <2>1, EmptyTx DEF Place, StatusWritten, RowLocked
  <2>3. DOMAIN t.rows = {a} /\ t.rows[a].status = "running"
    BY <2>1, <2>2 DEF IsPut
  <2> HIDE DEF a
  <2>4. StatusWritten(t) /\ StatusFollows(t) /\ Closing(t) /\ Cancelling(t)
    BY <2>1, <2>2, <2>3 DEF StatusWritten, StatusFollows, Closing, Cancelling, LeaseOps
  <2> QED
    BY <2>2, <2>4 DEF StatusFits, TxStatus, NewWorkflows
<1>3. CASE ReleaseBegun(p, t)
  <2>1. /\ t.op = tx[p].op /\ t.claim = tx[p].claim /\ t.rows = tx[p].rows /\ t.wfs = tx[p].wfs
        /\ t.hit = tx[p].hit /\ tx[p].pc = "release" /\ t.pc = PlaceAfter("promote", t.todo, t.hit, t.op)
    BY <1>3 DEF ReleaseBegun, SameTables, SameCall
  <2>2. t.op \in {"Complete", "RunSchedulerPass"}
    BY <1>0, <2>1, EmptyTx DEF Place
  <2>3. Closing(t)
    <3>1. t.pc # "close"
      BY <2>1 DEF PlaceAfter
    <3> QED
      BY <1>0, <2>1, <3>1 DEF Closing
  <2>4. SameStatus(p, t)
    BY <1>0, <2>1, <2>2 DEF SameStatus, StatusWritten, LeaseOps
  <2> QED
    BY <2>3, <2>4, KeepsStatus
<1>4. CASE DoneChecked(p, t)
  <2>1. /\ t.op = tx[p].op /\ t.claim = tx[p].claim /\ t.rows = tx[p].rows /\ t.wfs = tx[p].wfs
        /\ t.hit = tx[p].hit /\ t.todo = tx[p].todo /\ tx[p].pc = "finish" /\ t.pc \in {"close", "commit"}
        /\ t.pc = "close" => AllCompleted(p, SubjectWorkflow(p))
    BY <1>4 DEF DoneChecked, SameTables, SameLoop, SameCall
  <2>2. t.op = "Complete"
    BY <1>0, <2>1, EmptyTx DEF Place
  <2>3. \A b : RowOf(t, b) = Row(p, b)
    BY <2>1 DEF RowOf, Row
  <2>4. Closing(t)
    BY <1>0, <2>1, <2>2, <2>3 DEF Closing, AllCompleted, Of, SubjectWorkflow, Subject
  <2>5. SameStatus(p, t)
    BY <1>0, <2>1, <2>2 DEF SameStatus, StatusWritten, LeaseOps
  <2> QED
    BY <2>4, <2>5, KeepsStatus
<1>5. CASE LeavesOpen(p, t)
  <2>1. /\ t.op = tx[p].op /\ t.claim = tx[p].claim /\ t.rows = tx[p].rows /\ t.wfs = tx[p].wfs
        /\ t.hit = tx[p].hit /\ t.todo = tx[p].todo /\ t.pc = "commit"
    BY <1>5 DEF LeavesOpen, SameTables, SameLoop, SameCall
  <2>2. SameStatus(p, t) /\ Closing(t)
    BY <2>1 DEF SameStatus, Closing
  <2> QED
    BY <2>2, KeepsStatus
<1>6. CASE Closes(p, t)
  <2> DEFINE w == SubjectWorkflow(p)
  <2>1. /\ t.op = tx[p].op /\ t.claim = tx[p].claim /\ t.rows = tx[p].rows /\ t.hit = tx[p].hit
        /\ tx[p].pc = "close" /\ t.pc = "commit" /\ IsPut(t.wfs, tx[p].wfs, w, "completed")
        /\ workflows[w] = "running" /\ NoKeyFree(p, w)
    BY <1>6 DEF Closes, SameLoop, SameCall
  <2>2. t.op = "Complete"
    BY <1>0, <2>1, EmptyTx DEF Place
  <2>3. DOMAIN tx[p].wfs = {}
    BY <1>0, <2>1, <2>2 DEF StatusWritten, LeaseOps
  <2>4. DOMAIN t.wfs = {w} /\ t.wfs[w] = "completed"
    BY <2>1, <2>3 DEF IsPut
  <2>5. w = WorkflowOf(t.claim.activity)
    BY <2>1 DEF SubjectWorkflow, Subject
  <2>6. \A b \in Of(w) : RowOf(t, b).status = "completed"
    BY <1>0, <2>1, <2>5 DEF Closing, RowOf
  <2> HIDE DEF w
  <2>7. StatusWritten(t)
    BY <2>1, <2>2, <2>4, <2>5, <2>6 DEF StatusWritten
  <2>8. StatusFollows(t)
    BY <1>0, <2>1, <2>3 DEF StatusFollows
  <2>9. Closing(t) /\ Cancelling(t)
    BY <2>1, <2>2 DEF Closing, Cancelling
  <2> QED
    BY <2>1, <2>4, <2>7, <2>8, <2>9 DEF StatusFits, TxStatus, NewWorkflows
<1>7. CASE \E w \in Workflows : CancelDone(p, w, t)
  <2>1. /\ t.op = tx[p].op /\ t.claim = tx[p].claim /\ t.rows = tx[p].rows /\ t.wfs = tx[p].wfs
        /\ t.hit = tx[p].hit /\ t.todo = tx[p].todo /\ t.pc = "commit"
    BY <1>7 DEF CancelDone, SameTables, SameLoop, SameCall
  <2>2. SameStatus(p, t) /\ Closing(t)
    BY <2>1 DEF SameStatus, Closing
  <2> QED
    BY <2>2, KeepsStatus
<1> QED
  BY <1>1, <1>2, <1>3, <1>4, <1>5, <1>6, <1>7 DEF MovesOn

-----------------------------------------------------------------------------
(* Nothing is logged for a workflow that is, or is about to be, completed. *)

Open(w) ==
  /\ workflows[w] # "completed"
  /\ \A q \in Sessions : w \in DOMAIN tx[q].wfs => tx[q].wfs[w] # "completed"

\* A session that holds a row it has not completed keeps the workflow open.
LEMMA HeldOpen ==
  ASSUME StoreInv, StatusInv, NEW p \in Sessions, NEW a \in DOMAIN tx[p].rows,
         tx[p].rows[a].status # "completed"
  PROVE  Open(WorkflowOf(a))
<1> DEFINE w == WorkflowOf(a)
<1>1. a \in Activities /\ a \in Of(w) /\ w \in Workflows
  BY SessionTx, RowsTyped DEF Shape, Of, WorkflowOf
<1>2. activities[a].status # "completed"
  <2>1. Moves(tx[p].op, a, activities[a], tx[p].rows[a])
    BY SessionTx DEF RowsMoved
  <2> QED
    BY <2>1 DEF Moves, Pending
<1>3. activities[a].status \in {activities[b].status : b \in {c \in Activities : WorkflowOf(c) = w}}
  BY <1>1
<1>4. workflows[w] # "completed"
  <2>1. workflows[w] = "completed" =>
          {activities[b].status : b \in {c \in Activities : WorkflowOf(c) = w}} = {"completed"}
    BY <1>1 DEF StatusInv, WorkflowStatusExplained
  <2> HIDE DEF w
  <2> QED
    BY <1>2, <1>3, <2>1
<1>5. ASSUME NEW q \in Sessions, w \in DOMAIN tx[q].wfs, tx[q].wfs[w] = "completed"
      PROVE  FALSE
  <2>1. RowOf(tx[q], a).status = "completed"
    BY <1>1, <1>5, SessionStatus DEF StatusWritten
  <2>2. q # p => a \notin DOMAIN tx[q].rows
    BY DEF StoreInv, Transactions, RowsExclusive
  <2> QED
    BY <1>2, <2>1, <2>2 DEF RowOf
<1> QED
  BY <1>4, <1>5 DEF Open

\* So does Cancel, which has the workflow locked.
LEMMA CancelOpen ==
  ASSUME StatusInv, NEW p \in Sessions, tx[p].op = "Cancel", NEW w \in DOMAIN tx[p].wfs
  PROVE  Open(w)
<1>1. tx[p].wfs[w] = "cancelled" /\ workflows[w] = "running"
  BY SessionStatus DEF StatusWritten
<1>2. \A q \in Sessions : q # p => w \notin DOMAIN tx[q].wfs
  BY DEF StatusInv, WorkflowsExclusive
<1> QED
  BY <1>1, <1>2 DEF Open

OnlyOpen(p, t) == \A e \in t.log \ tx[p].log : Open(e.workflow)

\* One event of an open workflow.
LEMMA LogsOpen ==
  ASSUME NEW p, NEW t, NEW w, NEW s, NEW type, Open(w),
         Logs(tx[p], t, w, {Entry(nextSequence + 1, w, s, type)})
  PROVE  OnlyOpen(p, t)
BY EntryFields DEF Logs, OnlyOpen

\* Two events of an open workflow.
LEMMA LogsOpenTwice ==
  ASSUME NEW p, NEW t, NEW w, NEW s1, NEW type1, NEW s2, NEW type2, Open(w),
         Logs(tx[p], t, w, {Entry(nextSequence + 1, w, s1, type1), Entry(nextSequence + 2, w, s2, type2)})
  PROVE  OnlyOpen(p, t)
BY EntryFields DEF Logs, OnlyOpen

\* Claims, results and rejections are logged of open workflows.
LEMMA WritesOpen ==
  ASSUME StoreInv, StatusInv, NEW p \in Sessions, NEW t, NEW n, WritesResult(p, t, n)
  PROVE  OnlyOpen(p, t)
<1>0. Place(tx[p]) /\ RowLocked(tx[p]) /\ RowsMoved(tx[p])
  BY SessionTx
<1>1. ASSUME tx[p].pc \in {"write", "stale"}
      PROVE  Open(SubjectWorkflow(p))
  <2>1. DOMAIN tx[p].rows = {Subject(p)} /\ tx[p].op \in LeaseOps
    BY <1>0, <1>1, EmptyTx DEF RowLocked, Place, Subject
  <2>2. tx[p].rows[Subject(p)] = activities[Subject(p)]
    BY <1>0, <1>1 DEF RowLocked, Subject
  <2>3. activities[Subject(p)].status = "running"
    <3>1. Moves(tx[p].op, Subject(p), activities[Subject(p)], activities[Subject(p)])
      BY <1>0, <2>1, <2>2 DEF RowsMoved
    <3> QED
      BY <2>1, <3>1, SessionTx DEF Moves, LeaseOps, Pending
  <2> QED
    BY <2>1, <2>2, <2>3, HeldOpen DEF SubjectWorkflow
<1>2. ASSUME NEW e \in DOMAIN tx[p].rows, tx[p].op = "Claim", Noted(p, "log", e, "activity.claimed", t)
      PROVE  OnlyOpen(p, t)
  <2>1. tx[p].rows[e].status = "running"
    BY <1>0, <1>2 DEF RowsMoved, Moves, LeaseOps
  <2> QED
    BY <1>2, <2>1, HeldOpen, LogsOpen DEF Noted
<1>3. ASSUME NEW type, Noted(p, "stale", Subject(p), type, t)
      PROVE  OnlyOpen(p, t)
  BY <1>1, <1>3, LogsOpen DEF Noted, SubjectWorkflow
<1>4. ASSUME NEW op, NEW row, NEW type, NEW pc, RowWritten(p, op, row, type, pc, t)
      PROVE  OnlyOpen(p, t)
  BY <1>1, <1>4, LogsOpen DEF RowWritten, At
<1>5. CASE FailedFinally(p, t)
  BY <1>1, <1>5, LogsOpenTwice DEF FailedFinally, At
<1> QED
  BY <1>2, <1>3, <1>4, <1>5 DEF WritesResult

\* What the scheduler and releaseReady log is of open workflows.
LEMMA LogsRowOpen ==
  ASSUME StoreInv, HistoryInv, StatusInv, NEW p \in Sessions, NEW t, NEW n, LogsRow(p, t, n)
  PROVE  OnlyOpen(p, t)
<1>0. Shape(tx[p]) /\ Holdings(tx[p]) /\ Place(tx[p])
  BY SessionTx, SessionLog
<1>1. ASSUME NEW a \in Activities, a \in tx[p].hit, tx[p].rows[a].status # "completed"
      PROVE  Open(WorkflowOf(a))
  BY <1>0, <1>1, HeldOpen DEF Shape
<1>2. \A a \in tx[p].hit : Row(p, a) = tx[p].rows[a]
  BY <1>0 DEF Shape, Row
<1>3. PICK a \in Activities :
       \/ HitLogged(p, "promoted", a, {Entry(nextSequence + 1, WorkflowOf(a), a, "activity.ready")}, t)
       \/ /\ Row(p, a).status = "ready"
          /\ HitLogged(p, "expired", a,
                       {Entry(nextSequence + 1, WorkflowOf(a), a, "activity.lease_expired")}, t)
       \/ /\ Row(p, a).status = "failed"
          /\ HitLogged(p, "expired", a,
                       {Entry(nextSequence + 1, WorkflowOf(a), WorkflowOf(a), "workflow.failed"),
                        Entry(nextSequence + 2, WorkflowOf(a), a, "activity.lease_expired_failed")}, t)
       \/ \E v \in Workflows : CancelRowLogged(p, v, a, t)
  BY DEF LogsRow
<1>4. CASE HitLogged(p, "promoted", a, {Entry(nextSequence + 1, WorkflowOf(a), a, "activity.ready")}, t)
  <2>1. a \in tx[p].hit /\ tx[p].pc = "promoted"
    BY <1>4 DEF HitLogged
  <2>2. Open(WorkflowOf(a))
    BY <1>0, <1>1, <2>1 DEF Holdings
  <2> QED
    BY <1>4, <2>2, LogsOpen DEF HitLogged
<1>5. CASE /\ Row(p, a).status = "ready"
           /\ HitLogged(p, "expired", a,
                        {Entry(nextSequence + 1, WorkflowOf(a), a, "activity.lease_expired")}, t)
  <2>1. a \in tx[p].hit
    BY <1>5 DEF HitLogged
  <2>2. Open(WorkflowOf(a))
    BY <1>1, <1>2, <1>5, <2>1
  <2> QED
    BY <1>5, <2>2, LogsOpen DEF HitLogged
<1>6. CASE /\ Row(p, a).status = "failed"
           /\ HitLogged(p, "expired", a,
                        {Entry(nextSequence + 1, WorkflowOf(a), WorkflowOf(a), "workflow.failed"),
                         Entry(nextSequence + 2, WorkflowOf(a), a, "activity.lease_expired_failed")}, t)
  <2>1. a \in tx[p].hit
    BY <1>6 DEF HitLogged
  <2>2. Open(WorkflowOf(a))
    BY <1>1, <1>2, <1>6, <2>1
  <2> QED
    BY <1>6, <2>2, LogsOpenTwice DEF HitLogged
<1>7. CASE \E v \in Workflows : CancelRowLogged(p, v, a, t)
  <2>1. PICK v \in Workflows : CancelRowLogged(p, v, a, t)
    BY <1>7
  <2>2. tx[p].op = "Cancel" /\ v \in DOMAIN tx[p].wfs
    BY <1>0, <2>1, EmptyTx DEF CancelRowLogged, Place, LeaseOps
  <2> QED
    BY <2>1, <2>2, CancelOpen, LogsOpen DEF CancelRowLogged
<1> QED
  BY <1>3, <1>4, <1>5, <1>6, <1>7

\* Complete and Cancel close with events of open workflows.
LEMMA MovesOnOpen ==
  ASSUME StoreInv, StatusInv, NEW p \in Sessions, NEW t, NEW n, MovesOn(p, t, n)
  PROVE  OnlyOpen(p, t)
<1>0. Place(tx[p]) /\ StatusWritten(tx[p])
  BY SessionTx, SessionStatus
<1>1. CASE t = Idle \/ Locked(p, t) \/ ReleaseBegun(p, t) \/ DoneChecked(p, t) \/ LeavesOpen(p, t)
  BY <1>1, EmptyTx DEF Locked, ReleaseBegun, DoneChecked, LeavesOpen, Silent, OnlyOpen
<1>2. CASE Closes(p, t)
  <2> DEFINE w == SubjectWorkflow(p)
  <2>1. /\ tx[p].pc = "close" /\ NoKeyFree(p, w) /\ workflows[w] = "running"
        /\ Logs(tx[p], t, w, {Entry(nextSequence + 1, w, w, "workflow.completed")})
    BY <1>2 DEF Closes
  <2>2. DOMAIN tx[p].wfs = {}
    BY <1>0, <2>1, EmptyTx DEF Place, StatusWritten, LeaseOps
  <2> HIDE DEF w
  <2>3. Open(w)
    BY <2>1, <2>2 DEF Open, NoKeyFree, Others
  <2> QED
    BY <2>1, <2>3, LogsOpen
<1>3. CASE \E w \in Workflows : CancelDone(p, w, t)
  <2>1. PICK w \in Workflows : CancelDone(p, w, t)
    BY <1>3
  <2>2. tx[p].op = "Cancel" /\ w \in DOMAIN tx[p].wfs
    BY <1>0, <2>1, EmptyTx DEF CancelDone, Place, LeaseOps
  <2> QED
    BY <2>1, <2>2, CancelOpen, LogsOpen DEF CancelDone
<1> QED
  BY <1>1, <1>2, <1>3 DEF MovesOn

\* No statement logs an event of a workflow that is completed or about to be.
LEMMA StatementOpen ==
  ASSUME StoreInv, HistoryInv, StatusInv, NEW p \in Sessions, NEW t, NEW n, Statement(p, t, n)
  PROVE  OnlyOpen(p, t)
<1>1. CASE BeginsTx(p, t, n)
  BY <1>1 DEF BeginsTx, Picked, Called, CancelBegun, SchedulerBegun, Begun, OnlyOpen
<1>2. CASE VisitsRow(p, t, n)
  BY <1>2 DEF VisitsRow, RowVisited, RowSkipped, Silent, OnlyOpen
<1> QED
  BY <1>1, <1>2, WritesOpen, LogsRowOpen, MovesOnOpen DEF Statement

\* A workflow is marked completed by closing it, with the last event.
ClosesOrKeeps(p, t) ==
  \/ Closes(p, t)
  \/ \A w \in DOMAIN t.wfs : t.wfs[w] = "completed" =>
       /\ w \in DOMAIN tx[p].wfs /\ tx[p].wfs[w] = "completed" /\ tx[p].log \subseteq t.log

\* Only the closing statement marks a workflow completed.
LEMMA StatementCloses ==
  ASSUME NEW p, NEW t, NEW n, Statement(p, t, n)
  PROVE  ClosesOrKeeps(p, t)
<1>1. CASE BeginsTx(p, t, n)
  BY <1>1 DEF BeginsTx, Picked, Called, CancelBegun, SchedulerBegun, ClosesOrKeeps
<1>2. CASE WritesResult(p, t, n)
  <2>1. CASE FailedFinally(p, t)
    BY <2>1 DEF FailedFinally, IsPut, Logs, ClosesOrKeeps
  <2>2. CASE t.wfs = tx[p].wfs /\ tx[p].log \subseteq t.log
    BY <2>2 DEF ClosesOrKeeps
  <2> QED
    BY <1>2, <2>1, <2>2 DEF WritesResult, Noted, RowWritten, SameTables, Logs
<1>3. CASE VisitsRow(p, t, n)
  BY <1>3 DEF VisitsRow, RowVisited, RowSkipped, SameTables, Silent, ClosesOrKeeps
<1>4. CASE LogsRow(p, t, n)
  <2>1. PICK a \in Activities :
          /\ tx[p].log \subseteq t.log
          /\ t.wfs = tx[p].wfs \/ IsPut(t.wfs, tx[p].wfs, WorkflowOf(a), "failed")
    BY <1>4 DEF LogsRow, HitLogged, CancelRowLogged, SameTables, Logs
  <2> QED
    BY <2>1 DEF IsPut, ClosesOrKeeps
<1>5. CASE MovesOn(p, t, n)
  <2>1. CASE t = Idle
    BY <2>1, EmptyTx DEF ClosesOrKeeps
  <2>2. CASE t.wfs = tx[p].wfs /\ tx[p].log \subseteq t.log
    BY <2>2 DEF ClosesOrKeeps
  <2>3. CASE Closes(p, t)
    BY <2>3 DEF ClosesOrKeeps
  <2> QED
    BY <1>5, <2>1, <2>2, <2>3 DEF MovesOn, Locked, ReleaseBegun, DoneChecked, LeavesOpen, CancelDone,
                                  SameTables, Silent, Logs
<1> QED
  BY <1>1, <1>2, <1>3, <1>4, <1>5 DEF Statement

\* No event has a number that is still to be drawn.
LEMMA NumbersDrawn ==
  ASSUME StoreInv
  PROVE  \A e \in Inserted : e.sequence \in 1 .. nextSequence
BY DEF StoreInv, Transactions, RowInv, SequencesDrawn, TypeOK, Inserted

\* A statement leaves the histories of completed workflows closed.
LEMMA StatementClosed ==
  ASSUME StoreInv, HistoryInv, StatusInv, NEW p \in Sessions, NEW t, NEW n, Statement(p, t, n)
  PROVE  /\ \A w \in Workflows : workflows[w] = "completed" => Closed(w, events)'
         /\ \A q \in Sessions : ClosedInLog(tx[q])'
<1>1. tx' = [q \in Sessions |-> IF q = p THEN t ELSE tx[q]]
  BY DEF Statement, Becomes, StoreInv, Transactions
<1>2. events' = events /\ workflows' = workflows /\ OnlyOpen(p, t)
  BY StatementOpen DEF Statement
<1>3. \A f \in Inserted' : f \in Inserted \/ f \in t.log \ tx[p].log
  BY <1>1, <1>2 DEF Inserted
<1>4. ASSUME NEW w, NEW log, NEW log2, Closed(w, log), ~Open(w), log \subseteq log2
      PROVE  \E e \in log2 : /\ e.subject = w /\ e.type = "workflow.completed"
                             /\ \A f \in Inserted' : f.workflow = w => f.sequence <= e.sequence
  <2>1. PICK e \in log : /\ e.subject = w /\ e.type = "workflow.completed"
                         /\ \A f \in Inserted : f.workflow = w => f.sequence <= e.sequence
    BY <1>4 DEF Closed
  <2>2. \A f \in Inserted' : f.workflow = w => f \in Inserted
    BY <1>2, <1>3, <1>4 DEF OnlyOpen
  <2> QED
    BY <1>4, <2>1, <2>2
<1>5. ASSUME NEW w \in Workflows, workflows[w] = "completed"
      PROVE  Closed(w, events)'
  <2>1. Closed(w, events) /\ ~Open(w)
    BY <1>5 DEF StatusInv, Open
  <2> QED
    BY <1>2, <1>4, <2>1 DEF Closed
<1>6. ASSUME NEW q \in Sessions, NEW w \in DOMAIN tx'[q].wfs, tx'[q].wfs[w] = "completed"
      PROVE  Closed(w, tx[q].log)'
  <2>1. ASSUME w \in DOMAIN tx[q].wfs, tx[q].wfs[w] = "completed", tx[q].log \subseteq tx'[q].log
        PROVE  Closed(w, tx[q].log)'
    <3>1. Closed(w, tx[q].log) /\ ~Open(w)
      BY <2>1, SessionStatus DEF ClosedInLog, Open
    <3> QED
      BY <1>4, <2>1, <3>1 DEF Closed
  <2>2. CASE q # p
    BY <1>1, <1>6, <2>1, <2>2
  <2>3. CASE q = p /\ ~Closes(p, t)
    <3>1. tx'[q] = t
      BY <1>1, <2>3
    <3>2. w \in DOMAIN tx[p].wfs /\ tx[p].wfs[w] = "completed" /\ tx[p].log \subseteq t.log
      BY <1>6, <2>3, <3>1, StatementCloses DEF ClosesOrKeeps
    <3> QED
      BY <2>1, <2>3, <3>1, <3>2
  <2>4. CASE q = p /\ Closes(p, t)
    <3> DEFINE v == SubjectWorkflow(p)
               e == Entry(nextSequence + 1, v, v, "workflow.completed")
    <3>1. tx'[q] = t
      BY <1>1, <2>4
    <3>2. /\ tx[p].pc = "close" /\ IsPut(t.wfs, tx[p].wfs, v, "completed")
          /\ t.log = tx[p].log \cup {e}
      BY <2>4 DEF Closes, Logs
    <3>3. e.subject = v /\ e.type = "workflow.completed" /\ e.sequence = nextSequence + 1
      BY EntryFields
    <3>4. DOMAIN tx[p].wfs = {}
      <4>1. Place(tx[p]) /\ StatusWritten(tx[p])
        BY SessionTx, SessionStatus
      <4> QED
        BY <3>2, <4>1, EmptyTx DEF Place, StatusWritten, LeaseOps
    <3> HIDE DEF v, e
    <3>5. w = v
      BY <1>6, <3>1, <3>2, <3>4 DEF IsPut
    <3>6. \A f \in Inserted' : f \in Inserted \/ f = e
      BY <1>3, <3>2
    <3>7. \A f \in Inserted' : f.sequence <= e.sequence
      <4>1. nextSequence \in Nat
        BY SessionTx
      <4>2. \A f \in Inserted : f.sequence <= e.sequence
        BY <3>3, <4>1, NumbersDrawn
      <4>3. e.sequence <= e.sequence
        BY <3>3, <4>1
      <4> QED
        BY <3>6, <4>2, <4>3
    <3>8. e \in tx'[q].log
      BY <3>1, <3>2
    <3> QED
      BY <3>3, <3>5, <3>7, <3>8 DEF Closed
  <2> QED
    BY <2>2, <2>3, <2>4
<1> QED
  BY <1>5, <1>6 DEF ClosedInLog

\* Statements keep the reasons for what they write.
LEMMA StatementStatus ==
  ASSUME StoreInv, HistoryInv, StatusInv, NEW p \in Sessions, NEW t, NEW n, Statement(p, t, n)
  PROVE  StatusInv'
<1>1. StatusFits(p, t)
  BY BeginsStatus, WritesStatus, VisitsStatus, LogsStatus, MovesOnStatus DEF Statement
<1>2. tx' = [q \in Sessions |-> IF q = p THEN t ELSE tx[q]]
  BY DEF Statement, Becomes, StoreInv, Transactions
<1>3. activities' = activities /\ workflows' = workflows
  BY DEF Statement
<1>4. WorkflowStatusExplained' /\ CancelStopsUnstarted' /\ Started'
  BY <1>3 DEF StatusInv, WorkflowStatusExplained, CancelStopsUnstarted, Started
<1>5. WorkflowsExclusive'
  <2>1. \A q \in Sessions : q # p => DOMAIN t.wfs \cap DOMAIN tx[q].wfs = {}
    BY <1>1 DEF StatusFits, NewWorkflows, NoKeyFree, Others, StatusInv, WorkflowsExclusive
  <2> QED
    BY <1>2, <2>1 DEF StatusInv, WorkflowsExclusive
<1>6. \A q \in Sessions : TxStatus(tx[q])'
  <2> TAKE q \in Sessions
  <2>1. TxStatus(tx'[q])
    BY <1>1, <1>2 DEF StatusFits, StatusInv
  <2> QED
    BY <1>3, <2>1 DEF TxStatus, StatusWritten, StatusFollows, Closing, Cancelling, RowOf
<1> QED
  BY <1>3, <1>4, <1>5, <1>6, StatementClosed DEF StatusInv

-----------------------------------------------------------------------------
(* Commits keep the statuses explained.                                    *)

\* What is settled stays as it is, attempts only grow, and an activity that
\* leaves the queue was claimed.
LEMMA CommittedStatus ==
  ASSUME StoreInv, NEW p \in Sessions, Commit(p), NEW a \in Activities
  PROVE  /\ activities[a].status \in {"completed", "failed", "cancelled"} =>
              a \notin DOMAIN tx[p].rows /\ activities'[a] = activities[a]
         /\ activities[a].attempt \in Nat /\ activities'[a].attempt \in Nat
         /\ activities'[a].attempt >= activities[a].attempt
         /\ activities'[a].status \in {"running", "completed", "failed"} =>
              \/ activities[a].status = activities'[a].status \/ activities[a].status = "running"
              \/ activities'[a].attempt > 0
<1>1. activities[a] \in Rows /\ activities'[a] \in Rows
  BY RowsTyped, CommittedRow
<1>2. activities[a].attempt \in Nat /\ activities'[a].attempt \in Nat
  BY <1>1 DEF Rows
<1>3. CASE a \notin DOMAIN tx[p].rows
  BY <1>2, <1>3, CommittedRow
<1>4. CASE a \in DOMAIN tx[p].rows
  <2>1. Moves(tx[p].op, a, activities[a], activities'[a])
    BY <1>4, CommittedRow
  <2>2. activities[a].status \notin {"completed", "failed", "cancelled"}
    BY <2>1 DEF Moves, Pending
  <2>3. \/ activities'[a].attempt = activities[a].attempt
        \/ activities'[a].attempt = activities[a].attempt + 1
    BY <2>1 DEF Moves
  <2>4. activities'[a].status \in {"running", "completed", "failed"} =>
          activities[a].status = "running" \/ activities'[a].attempt = activities[a].attempt + 1
    BY <2>1 DEF Moves
  <2>5. activities'[a].attempt >= activities[a].attempt
    BY <1>2, <2>3
  <2> QED
    BY <1>2, <2>2, <2>4, <2>5
<1> QED
  BY <1>3, <1>4

\* The status that p commits, and why.
LEMMA CommittedWorkflow ==
  ASSUME StoreInv, NEW p \in Sessions, Commit(p), NEW w \in Workflows
  PROVE  \/ w \notin DOMAIN tx[p].wfs /\ workflows'[w] = workflows[w]
         \/ w \in DOMAIN tx[p].wfs /\ workflows'[w] = tx[p].wfs[w]
BY DEF Commit, Status

StatusesOf(w) == {activities[a].status : a \in Of(w)}

\* After a commit the status of every workflow is what its activities say.
LEMMA CommitExplained ==
  ASSUME StoreInv, HistoryInv, StatusInv, NEW p \in Sessions, Commit(p), NEW w \in Workflows
  PROVE  /\ workflows'[w] = "failed" <=> "failed" \in StatusesOf(w)'
         /\ workflows'[w] = "completed" => StatusesOf(w)' = {"completed"}
         /\ workflows'[w] = "running" => "cancelled" \notin StatusesOf(w)'
<1>1. /\ workflows[w] = "failed" <=> "failed" \in StatusesOf(w)
      /\ workflows[w] = "completed" => StatusesOf(w) = {"completed"}
      /\ workflows[w] = "running" => "cancelled" \notin StatusesOf(w)
  BY DEF StatusInv, WorkflowStatusExplained, StatusesOf, Of
<1>2. \A s : /\ s \in StatusesOf(w) <=> \E a \in Of(w) : activities[a].status = s
             /\ s \in StatusesOf(w)' <=> \E a \in Of(w) : activities'[a].status = s
  BY DEF StatusesOf, Of, WorkflowOf
<1>3. Of(w) \subseteq Activities /\ \A a \in Of(w) : WorkflowOf(a) = w
  BY DEF Of
<1>4. /\ StatusWritten(tx[p]) /\ StatusFollows(tx[p]) /\ Cancelling(tx[p])
      /\ Finished(tx[p]) /\ Holdings(tx[p]) /\ ClaimKnown(tx[p]) /\ tx[p].pc = "commit"
  BY SessionStatus, SessionLog, SessionTx DEF Commit
<1>5. tx[p].hit = {}
  BY <1>4 DEF Finished
<1>6. \A a \in Of(w) :
        \/ a \notin DOMAIN tx[p].rows /\ activities'[a] = activities[a]
        \/ /\ a \in DOMAIN tx[p].rows /\ activities'[a] = tx[p].rows[a]
           /\ Moves(tx[p].op, a, activities[a], activities'[a])
  BY <1>3, CommittedRow
<1>7. \A a \in Of(w) : activities[a].status \in {"completed", "failed", "cancelled"} =>
                         activities'[a] = activities[a]
  BY <1>3, CommittedStatus
<1>8. \A a : RowOf(tx[p], a) = Row(p, a)
  BY DEF RowOf, Row
<1>9. \A a \in Of(w) : activities'[a] = Row(p, a)
  BY <1>3 DEF Commit
<1>10. ASSUME workflows'[w] = "failed" PROVE "failed" \in StatusesOf(w)'
  <2>1. CASE w \notin DOMAIN tx[p].wfs
    BY <1>1, <1>2, <1>7, <1>10, <2>1, CommittedWorkflow
  <2>2. CASE w \in DOMAIN tx[p].wfs
    <3>1. tx[p].wfs[w] = "failed"
      BY <1>10, <2>2, CommittedWorkflow
    <3>2. PICK a \in Of(w) \cap DOMAIN tx[p].rows : tx[p].rows[a].status = "failed"
      BY <1>4, <2>2, <3>1 DEF StatusWritten
    <3> QED
      BY <1>2, <1>6, <3>2
  <2> QED
    BY <2>1, <2>2
<1>11. ASSUME "failed" \in StatusesOf(w)' PROVE workflows'[w] = "failed"
  <2>1. PICK a \in Of(w) : activities'[a].status = "failed"
    BY <1>2, <1>11
  <2>2. CASE a \in DOMAIN tx[p].rows
    <3>1. w \in DOMAIN tx[p].wfs /\ tx[p].wfs[w] = "failed"
      BY <1>3, <1>4, <1>5, <1>6, <2>1, <2>2 DEF StatusFollows
    <3> QED
      BY <3>1, CommittedWorkflow
  <2>3. CASE a \notin DOMAIN tx[p].rows
    <3>1. workflows[w] = "failed"
      BY <1>1, <1>2, <1>6, <2>1, <2>3
    <3>2. w \in DOMAIN tx[p].wfs => tx[p].wfs[w] = "failed"
      BY <1>4, <3>1 DEF StatusWritten
    <3> QED
      BY <3>1, <3>2, CommittedWorkflow
  <2> QED
    BY <2>2, <2>3
<1>12. ASSUME workflows'[w] = "completed" PROVE StatusesOf(w)' = {"completed"}
  <2>1. CASE w \notin DOMAIN tx[p].wfs
    <3>1. StatusesOf(w) = {"completed"}
      BY <1>1, <1>12, <2>1, CommittedWorkflow
    <3>2. \A a \in Of(w) : activities'[a].status = activities[a].status
      BY <1>2, <1>7, <3>1
    <3> QED
      BY <1>2, <3>1, <3>2
  <2>2. CASE w \in DOMAIN tx[p].wfs
    <3>1. tx[p].wfs[w] = "completed"
      BY <1>12, <2>2, CommittedWorkflow
    <3>2. /\ tx[p].op = "Complete" /\ w = SubjectWorkflow(p)
          /\ \A a \in Of(w) : RowOf(tx[p], a).status = "completed"
      BY <1>4, <2>2, <3>1 DEF StatusWritten, SubjectWorkflow, Subject
    <3>3. Subject(p) \in Of(w)
      BY <3>2, SubjectKnown DEF LeaseOps
    <3>4. \A a \in Of(w) : activities'[a].status = "completed"
      BY <1>8, <1>9, <3>2
    <3> QED
      BY <1>2, <3>3, <3>4
  <2> QED
    BY <2>1, <2>2
<1>13. ASSUME workflows'[w] = "running", "cancelled" \in StatusesOf(w)' PROVE FALSE
  <2>1. w \notin DOMAIN tx[p].wfs
    BY <1>4, <1>13, CommittedWorkflow DEF StatusWritten
  <2>2. workflows[w] = "running"
    BY <1>13, <2>1, CommittedWorkflow
  <2>3. PICK a \in Of(w) : activities'[a].status = "cancelled"
    BY <1>2, <1>13
  <2>4. activities[a].status # "cancelled"
    BY <1>1, <1>2, <2>2
  <2>5. a \in DOMAIN tx[p].rows /\ Moves(tx[p].op, a, activities[a], activities'[a])
    BY <1>6, <2>3, <2>4
  <2>6. tx[p].op = "Cancel"
    BY <2>3, <2>4, <2>5 DEF Moves
  <2>7. PICK v \in Workflows : DOMAIN tx[p].wfs = {v}
    BY <1>4, <2>6 DEF Cancelling
  <2>8. WorkflowOf(a) = v
    BY <1>4, <2>5, <2>6, <2>7 DEF Holdings
  <2> QED
    BY <1>3, <2>1, <2>7, <2>8
<1> QED
  BY <1>10, <1>11, <1>12, <1>13

\* After a commit nothing of a cancelled workflow waits for a first attempt.
LEMMA CommitStops ==
  ASSUME StoreInv, HistoryInv, StatusInv, NEW p \in Sessions, Commit(p)
  PROVE  CancelStopsUnstarted' /\ Started'
<1>1. ASSUME NEW a \in Activities, workflows'[WorkflowOf(a)] = "cancelled", activities'[a].attempt = 0
      PROVE  activities'[a].status = "cancelled"
  <2> DEFINE w == WorkflowOf(a)
  <2>1. w \in Workflows /\ a \in Of(w)
    BY RowsTyped DEF WorkflowOf, Of
  <2>2. activities[a].attempt = 0
    BY <1>1, CommittedStatus
  <2>3. activities[a].status = "cancelled" => activities'[a].status = "cancelled"
    BY CommittedStatus
  <2>4. /\ StatusWritten(tx[p]) /\ Cancelling(tx[p]) /\ Finished(tx[p]) /\ tx[p].pc = "commit"
    BY SessionStatus, SessionLog DEF Commit
  <2>5. workflows'[w] = "cancelled"
    BY <1>1
  <2>6. activities[a].attempt = 0 /\ workflows[w] = "cancelled" => activities[a].status = "cancelled"
    BY DEF StatusInv, CancelStopsUnstarted
  <2> HIDE DEF w
  <2>7. CASE w \in DOMAIN tx[p].wfs
    <3>1. tx[p].wfs[w] = "cancelled"
      BY <2>1, <2>5, <2>7, CommittedWorkflow
    <3>2. tx[p].op = "Cancel"
      BY <2>4, <2>7, <3>1 DEF StatusWritten
    <3>3. a \in tx[p].todo \cup DOMAIN tx[p].rows \/ activities[a].status = "cancelled"
      BY <2>1, <2>2, <2>4, <2>7, <3>2 DEF Cancelling
    <3>4. tx[p].todo = {}
      BY <2>4 DEF Finished
    <3>5. CASE a \in DOMAIN tx[p].rows
      <4>1. Moves("Cancel", a, activities[a], activities'[a])
        BY <3>2, <3>5, CommittedRow
      <4> QED
        BY <4>1 DEF Moves, LeaseOps
    <3> QED
      BY <2>3, <3>3, <3>4, <3>5
  <2>8. CASE w \notin DOMAIN tx[p].wfs
    BY <2>1, <2>2, <2>3, <2>5, <2>6, <2>8, CommittedWorkflow
  <2> QED
    BY <2>7, <2>8
<1>2. ASSUME NEW a \in Activities, activities'[a].status \in {"running", "completed", "failed"}
      PROVE  activities'[a].attempt > 0
  <2>1. /\ activities[a].attempt \in Nat /\ activities'[a].attempt \in Nat
        /\ activities'[a].attempt >= activities[a].attempt
    BY CommittedStatus
  <2>2. activities[a].status \in {"running", "completed", "failed"} => activities[a].attempt > 0
    BY DEF StatusInv, Started
  <2>3. CASE activities[a].attempt > 0
    BY <2>1, <2>3
  <2> QED
    BY <1>2, <2>2, <2>3, CommittedStatus
<1> QED
  BY <1>1, <1>2 DEF CancelStopsUnstarted, Started, WorkflowOf

\* Who is still at work sees no difference in what it relies on.
LEMMA CommitOthers ==
  ASSUME StoreInv, HistoryInv, StatusInv, NEW p \in Sessions, Commit(p), NEW q \in Sessions, q # p,
         tx'[q] = tx[q]
  PROVE  TxStatus(tx[q])'
<1>1. StatusWritten(tx[q]) /\ StatusFollows(tx[q]) /\ Closing(tx[q]) /\ Cancelling(tx[q])
  BY SessionStatus
<1>2. Shape(tx[q])
  BY SessionTx
<1>3. \A w \in DOMAIN tx[q].wfs : workflows'[w] = workflows[w]
  <2> TAKE w \in DOMAIN tx[q].wfs
  <2>1. w \in Workflows /\ w \notin DOMAIN tx[p].wfs
    BY <1>2 DEF Shape, StatusInv, WorkflowsExclusive
  <2> QED
    BY <2>1, CommittedWorkflow
<1>4. \A a \in Activities :
        RowOf(tx[q], a).status = "completed" => (RowOf(tx[q], a)').status = "completed"
  BY CommittedStatus DEF RowOf
<1>5. \A w : Of(w)' = Of(w) /\ Of(w) \subseteq Activities
  BY DEF Of, WorkflowOf
<1>6. StatusWritten(tx[q])'
  BY <1>1, <1>3, <1>4, <1>5 DEF StatusWritten
<1>7. StatusFollows(tx[q])'
  BY <1>1 DEF StatusFollows
<1>8. Closing(tx[q])'
  BY <1>1, <1>4, <1>5 DEF Closing
<1>9. Cancelling(tx[q])'
  <2>1. \A a \in Activities :
          /\ activities'[a].attempt = 0 => activities[a].attempt = 0
          /\ activities[a].status = "cancelled" => activities'[a].status = "cancelled"
    <3> TAKE a \in Activities
    <3>1. /\ activities[a].attempt \in Nat /\ activities'[a].attempt >= activities[a].attempt
          /\ activities[a].status = "cancelled" => activities'[a] = activities[a]
      BY CommittedStatus
    <3> QED
      BY <3>1
  <2> QED
    BY <1>1, <1>5, <2>1 DEF Cancelling
<1> QED
  BY <1>6, <1>7, <1>8, <1>9 DEF TxStatus

\* A commit takes no reason from under the transactions of others.
LEMMA CommitStatus ==
  ASSUME StoreInv, HistoryInv, StatusInv, NEW p \in Sessions, Commit(p)
  PROVE  StatusInv'
<1>1. tx' = [q \in Sessions |-> IF q = p THEN Idle ELSE tx[q]]
  BY DEF Commit, Becomes, StoreInv, Transactions
<1>2. events' = events \cup tx[p].log
  BY DEF Commit
<1>3. WorkflowStatusExplained'
  BY CommitExplained DEF WorkflowStatusExplained, StatusesOf, Of
<1>4. CancelStopsUnstarted' /\ Started'
  BY CommitStops
<1>5. WorkflowsExclusive'
  BY <1>1, EmptyTx DEF StatusInv, WorkflowsExclusive
<1>6. \A f \in Inserted' : f \in Inserted
  BY <1>1, <1>2, EmptyTx DEF Inserted
<1>7. ASSUME NEW w, NEW log, NEW log2, Closed(w, log), log \subseteq log2
      PROVE  \E e \in log2 : /\ e.subject = w /\ e.type = "workflow.completed"
                             /\ \A f \in Inserted' : f.workflow = w => f.sequence <= e.sequence
  BY <1>6, <1>7 DEF Closed
<1>8. ASSUME NEW w \in Workflows, workflows'[w] = "completed"
      PROVE  Closed(w, events)'
  <2>1. CASE w \notin DOMAIN tx[p].wfs
    <3>1. Closed(w, events)
      BY <1>8, <2>1, CommittedWorkflow DEF StatusInv
    <3> QED
      BY <1>2, <1>7, <3>1 DEF Closed
  <2>2. CASE w \in DOMAIN tx[p].wfs
    <3>1. Closed(w, tx[p].log)
      BY <1>8, <2>2, CommittedWorkflow, SessionStatus DEF ClosedInLog
    <3> QED
      BY <1>2, <1>7, <3>1 DEF Closed
  <2> QED
    BY <2>1, <2>2
<1>9. ASSUME NEW q \in Sessions
      PROVE  TxStatus(tx[q])' /\ ClosedInLog(tx[q])'
  <2>1. CASE q = p
    <3>1. tx'[q] = Idle
      BY <1>1, <2>1
    <3>2. /\ Idle.op = "none" /\ Idle.pc = "idle" /\ DOMAIN Idle.rows = {} /\ DOMAIN Idle.wfs = {}
      BY EmptyTx
    <3> QED
      BY <3>1, <3>2 DEF TxStatus, StatusWritten, StatusFollows, Closing, Cancelling, ClosedInLog, LeaseOps
  <2>2. CASE q # p
    <3>1. tx'[q] = tx[q]
      BY <1>1, <2>2
    <3>2. TxStatus(tx[q])'
      BY <2>2, <3>1, CommitOthers
    <3>3. ASSUME NEW w \in DOMAIN tx[q].wfs, tx[q].wfs[w] = "completed"
          PROVE  Closed(w, tx[q].log)'
      <4>1. Closed(w, tx[q].log)
        BY <3>3, SessionStatus DEF ClosedInLog
      <4> QED
        BY <1>7, <3>1, <4>1 DEF Closed
    <3> QED
      BY <3>1, <3>2, <3>3 DEF ClosedInLog
  <2> QED
    BY <2>1, <2>2
<1> QED
  BY <1>3, <1>4, <1>5, <1>8, <1>9 DEF StatusInv

\* The workflows Start has inserted run.
LEMMA StatusInit ==
  ASSUME Init
  PROVE  StatusInv
<1>1. events = {} /\ (\A p \in Sessions : tx[p] = Idle) /\ \A w \in Workflows : workflows[w] = "running"
  BY DEF Init
<1>2. \A a \in Activities : activities[a].status \in {"ready", "retry_pending"} /\ WorkflowOf(a) \in Workflows
  BY PgAssumption DEF Init, WorkflowOf
<1>3. WorkflowStatusExplained
  BY <1>1, <1>2 DEF WorkflowStatusExplained
<1>4. CancelStopsUnstarted /\ Started
  BY <1>1, <1>2 DEF CancelStopsUnstarted, Started
<1>5. WorkflowsExclusive /\ \A p \in Sessions : ClosedInLog(tx[p])
  BY <1>1, EmptyTx DEF WorkflowsExclusive, ClosedInLog
<1> QED
  BY <1>1, <1>3, <1>4, <1>5, IdleStatus DEF StatusInv

\* Every step keeps the statuses explained.
LEMMA StatusNext ==
  ASSUME StoreInv, HistoryInv, StatusInv, [Next]_vars
  PROVE  StatusInv'
<1>1. CASE UNCHANGED <<workflows, activities, events, tx>>
  <2>1. WorkflowStatusExplained' /\ CancelStopsUnstarted' /\ Started' /\ WorkflowsExclusive'
    BY <1>1 DEF StatusInv, WorkflowStatusExplained, CancelStopsUnstarted, Started, WorkflowsExclusive
  <2>2. \A q \in Sessions : TxStatus(tx[q])'
    BY <1>1 DEF StatusInv, TxStatus, StatusWritten, StatusFollows, Closing, Cancelling, RowOf
  <2>3. \A w, log : Closed(w, log) => \E e \in log :
          /\ e.subject = w /\ e.type = "workflow.completed"
          /\ \A f \in Inserted' : f.workflow = w => f.sequence <= e.sequence
    BY <1>1 DEF Closed, Inserted
  <2>4. (\A w \in Workflows : workflows[w] = "completed" => Closed(w, events))'
    BY <1>1, <2>3 DEF StatusInv, Closed
  <2>5. \A q \in Sessions : ClosedInLog(tx[q])'
    BY <1>1, <2>3, SessionStatus DEF ClosedInLog, Closed
  <2> QED
    BY <2>1, <2>2, <2>4, <2>5 DEF StatusInv
<1>2. ASSUME NEW p \in Sessions, Step(p)
      PROVE  StatusInv'
  <2>1. CASE UNCHANGED vars
    BY <1>1, <2>1 DEF vars
  <2> QED
    BY <1>2, <2>1, StepCases, CommitStatus, StatementStatus
<1> QED
  BY <1>1, <1>2 DEF Next, Tick, vars

\* The statuses are explained throughout.
LEMMA StatusAlways == Spec => [](StoreInv /\ HistoryInv /\ StatusInv)
<1>1. Init => StoreInv /\ HistoryInv /\ StatusInv
  BY StoreInit, HistoryInit, StatusInit
<1>2. StoreInv /\ HistoryInv /\ StatusInv /\ [Next]_vars => StoreInv' /\ HistoryInv' /\ StatusInv'
  BY StoreNext, HistoryNext, StatusNext
<1> QED
  BY <1>1, <1>2, PTL DEF Spec

\* Whatever Fail, Cancel, Complete and the scheduler read and when, a workflow
\* is failed exactly when one of its activities is, completed only when all
\* are, and not running when one was cancelled.
THEOREM StoreStatusExplained == Spec => []WorkflowStatusExplained
<1>1. StatusInv => WorkflowStatusExplained
  BY DEF StatusInv
<1> QED
  BY <1>1, StatusAlways, PTL

\* When Cancel has committed, no activity that was never claimed is left to
\* run, whatever Claim and releaseReady were doing at the time.
THEOREM StoreCancelStops == Spec => []CancelStopsUnstarted
<1>1. StatusInv => CancelStopsUnstarted
  BY DEF StatusInv
<1> QED
  BY <1>1, StatusAlways, PTL

\* The history of a completed workflow ends with workflow.completed: neither a
\* committed event nor one another transaction commits later has a higher number.
THEOREM StoreCompletionCloses == Spec => []CompletionClosesHistory
<1>1. StatusInv => CompletionClosesHistory
  <2>1. events \subseteq Inserted
    BY DEF Inserted
  <2> QED
    BY <2>1 DEF StatusInv, Closed, CompletionClosesHistory
<1> QED
  BY <1>1, StatusAlways, PTL

-----------------------------------------------------------------------------
(* What a reader may rely on, whatever is committed between its statements. *)

\* A workflow that has settled stays so, except that a cancelled one may fail.
LEMMA WorkflowFollows ==
  ASSUME StoreInv, HistoryInv, StatusInv, [Next]_vars, NEW w \in Workflows
  PROVE  Follows(workflows[w], workflows'[w])
<1>1. CASE UNCHANGED workflows
  BY <1>1 DEF Follows
<1>2. ASSUME NEW p \in Sessions, Commit(p)
      PROVE  Follows(workflows[w], workflows'[w])
  <2>1. CASE w \notin DOMAIN tx[p].wfs
    BY <1>2, <2>1, CommittedWorkflow DEF Follows
  <2>2. CASE w \in DOMAIN tx[p].wfs
    <3>1. workflows'[w] = tx[p].wfs[w] /\ StatusWritten(tx[p])
      BY <1>2, <2>2, CommittedWorkflow, SessionStatus
    <3>2. CASE workflows[w] = "running"
      BY <3>2 DEF Follows
    <3>3. CASE workflows[w] # "running"
      <4>1. tx[p].wfs[w] = "failed"
        BY <2>2, <3>1, <3>3 DEF StatusWritten
      <4>2. workflows[w] # "completed"
        <5>1. PICK a \in Of(w) \cap DOMAIN tx[p].rows : tx[p].rows[a].status = "failed"
          BY <2>2, <3>1, <4>1 DEF StatusWritten
        <5>2. Open(WorkflowOf(a)) /\ WorkflowOf(a) = w
          BY <5>1, HeldOpen DEF Of
        <5> QED
          BY <5>2 DEF Open
      <4> QED
        BY <3>1, <4>1, <4>2 DEF Follows
    <3> QED
      BY <3>2, <3>3
  <2> QED
    BY <2>1, <2>2
<1> QED
  BY <1>1, <1>2, OnlyCommitsWrite

\* What follows from what follows, follows.
LEMMA FollowsTransitive ==
  ASSUME NEW r, NEW s, NEW t, Follows(r, s), Follows(s, t)
  PROVE  Follows(r, t)
BY DEF Follows

\* What has been given up is never claimed.
LEMMA UnstartedStayGone ==
  ASSUME StoreInv, [Next]_vars, NEW w, UnstartedGone(w)
  PROVE  UnstartedGone(w)'
<1>1. Of(w)' = Of(w) /\ Of(w) \subseteq Activities
  BY DEF Of, WorkflowOf
<1>2. CASE UNCHANGED activities
  BY <1>1, <1>2 DEF UnstartedGone
<1>3. ASSUME NEW p \in Sessions, Commit(p), NEW a \in Of(w), activities'[a].attempt = 0
      PROVE  activities'[a].status = "cancelled"
  <2>1. /\ activities[a].attempt \in Nat /\ activities'[a].attempt >= activities[a].attempt
        /\ activities[a].status = "cancelled" => activities'[a] = activities[a]
    BY <1>1, <1>3, CommittedStatus
  <2>2. activities[a].attempt = 0
    BY <1>3, <2>1
  <2> QED
    BY <2>1, <2>2 DEF UnstartedGone
<1> QED
  BY <1>1, <1>2, <1>3, OnlyCommitsWrite DEF UnstartedGone

\* The history of an activity grows at its end, by one transition a commit.
LEMMA MovesAppended ==
  ASSUME StoreInv, HistoryInv, NEW p \in Sessions, Commit(p), NEW a \in Activities
  PROVE  /\ MovesOf(events', a) = MovesOf(events, a) \cup MovesOf(tx[p].log, a)
         /\ \A e, f \in MovesOf(tx[p].log, a) : e = f
         /\ \A e \in MovesOf(events, a), f \in MovesOf(tx[p].log, a) : e.sequence < f.sequence
         /\ \A e \in MovesOf(events', a) : e.sequence \in Nat
<1>1. events' = events \cup tx[p].log
  BY DEF Commit
<1>2. MovesOf(events', a) = MovesOf(events, a) \cup MovesOf(tx[p].log, a)
  BY <1>1 DEF MovesOf
<1>3. \A e, f \in MovesOf(tx[p].log, a) : e = f
  BY SessionLog DEF LoggedMoves, MovesOf
<1>4. \A e \in MovesOf(events, a), f \in MovesOf(tx[p].log, a) : e.sequence < f.sequence
  BY SessionLog DEF Told, MovesOf
<1>5. \A e \in events' : e.sequence \in 1 .. nextSequence
  BY <1>1, NumbersDrawn DEF Inserted
<1>6. nextSequence \in Nat
  BY SessionTx
<1>7. \A e \in events' : e.sequence \in Nat
  BY <1>5, <1>6
<1> QED
  BY <1>2, <1>3, <1>4, <1>7 DEF MovesOf

\* Every activity keeps having a last transition in the history.
LEMMA LastMoveNext ==
  ASSUME StoreInv, HistoryInv, [Next]_vars, NEW a \in Activities, LastMove(events, a)
  PROVE  LastMove(events', a)
<1>1. CASE UNCHANGED events
  BY <1>1
<1>2. ASSUME NEW p \in Sessions, Commit(p)
      PROVE  LastMove(events', a)
  <2>1. /\ MovesOf(events', a) = MovesOf(events, a) \cup MovesOf(tx[p].log, a)
        /\ \A e, f \in MovesOf(tx[p].log, a) : e = f
        /\ \A e \in MovesOf(events, a), f \in MovesOf(tx[p].log, a) : e.sequence < f.sequence
        /\ \A e \in MovesOf(events', a) : e.sequence \in Nat
    BY <1>2, MovesAppended
  <2>2. CASE MovesOf(tx[p].log, a) = {}
    BY <2>1, <2>2 DEF LastMove
  <2>3. CASE MovesOf(tx[p].log, a) # {}
    <3>1. PICK e \in MovesOf(tx[p].log, a) : TRUE
      BY <2>3
    <3>2. e \in MovesOf(events', a) /\ \A f \in MovesOf(events', a) : f.sequence <= e.sequence
      BY <2>1, <3>1
    <3> QED
      BY <3>2 DEF LastMove
  <2> QED
    BY <2>2, <2>3
<1> QED
  BY <1>1, <1>2, OnlyCommitsWrite

\* The history of an activity reaches its row, and goes on doing so.
LEMMA ReachesNow ==
  ASSUME HistoryInv, NEW a \in Activities, LastMove(events, a)
  PROVE  Reaches(events, a, activities[a])
<1>1. Explains(events, a, activities[a])
  BY DEF HistoryInv, CommittedLog
<1>2. CASE MovesOf(events, a) = {}
  BY <1>1, <1>2 DEF Explains, Reaches
<1>3. CASE MovesOf(events, a) # {}
  <2>1. PICK e \in MovesOf(events, a) : \A f \in MovesOf(events, a) : f.sequence <= e.sequence
    BY <1>3 DEF LastMove
  <2>2. activities[a].status = StatusAfter[e.type]
    BY <1>1, <2>1 DEF Explains
  <2>3. ClaimsUpTo(events, a, e.sequence) = ClaimsOf(events, a)
    BY <2>1, MoveTypes DEF ClaimsUpTo, ClaimsOf, MovesOf, IsMove
  <2> QED
    BY <1>1, <2>2, <2>3 DEF Explains, Reaches
<1> QED
  BY <1>2, <1>3

\* A point the history has passed stays in it.
LEMMA ReachesStays ==
  ASSUME StoreInv, HistoryInv, [Next]_vars, NEW a \in Activities, NEW row, Reaches(events, a, row)
  PROVE  Reaches(events', a, row)
<1>1. CASE UNCHANGED events
  BY <1>1
<1>2. CASE row.attempt = 0 /\ row.status \in {"ready", "retry_pending"}
  BY <1>2 DEF Reaches
<1>3. ASSUME NEW p \in Sessions, Commit(p), NEW e \in MovesOf(events, a), StatusAfter[e.type] = row.status,
             Cardinality(ClaimsUpTo(events, a, e.sequence)) = row.attempt
      PROVE  Reaches(events', a, row)
  <2>1. /\ MovesOf(events', a) = MovesOf(events, a) \cup MovesOf(tx[p].log, a)
        /\ \A f \in MovesOf(tx[p].log, a) : e.sequence < f.sequence
        /\ \A f \in MovesOf(events', a) : f.sequence \in Nat
    BY <1>3, MovesAppended
  <2>2. \A f \in MovesOf(tx[p].log, a) : ~(f.sequence <= e.sequence)
    BY <2>1
  <2>3. ClaimsUpTo(events', a, e.sequence) = ClaimsUpTo(events, a, e.sequence)
    BY <2>1, <2>2 DEF ClaimsUpTo
  <2> QED
    BY <1>3, <2>1, <2>3 DEF Reaches
<1> QED
  BY <1>1, <1>2, <1>3, OnlyCommitsWrite DEF Reaches

-----------------------------------------------------------------------------
(* The reader.                                                             *)

\* The statements of Workflow, one after the other.
LEMMA Phases ==
  /\ Head(workflowTx) = "workflow" /\ Tail(workflowTx) = <<"activities", "events">>
  /\ Head(<<"activities", "events">>) = "activities" /\ Tail(<<"activities", "events">>) = <<"events">>
  /\ Head(<<"events">>) = "events" /\ Tail(<<"events">>) = <<>>
  /\ workflowTx # <<"activities", "events">> /\ workflowTx # <<"events">> /\ workflowTx # <<>>
  /\ <<"activities", "events">> # <<"events">> /\ <<"activities", "events">> # <<>>
  /\ <<"events">> # <<>>
<1>1. Head(workflowTx) = "workflow" /\ Tail(workflowTx) = <<"activities", "events">>
  BY DEF workflowTx
<1>2. Head(<<"activities", "events">>) = "activities" /\ Tail(<<"activities", "events">>) = <<"events">>
  OBVIOUS
<1>3. Head(<<"events">>) = "events" /\ Tail(<<"events">>) = <<>>
  OBVIOUS
<1>4. Len(workflowTx) = 3
  BY DEF workflowTx
<1>5. Len(<<"activities", "events">>) = 2 /\ Len(<<"events">>) = 1 /\ Len(<<>>) = 0
  OBVIOUS
<1> QED
  BY <1>1, <1>2, <1>3, <1>4, <1>5

\* What is committed between two statements of a reader does not spoil its view.
LEMMA StoreKeepsView ==
  ASSUME StoreInv, HistoryInv, StatusInv, ReadInv, [Next]_vars, UNCHANGED view
  PROVE  ReadInv'
<1>1. \A a \in Activities : LastMove(events', a)
  BY LastMoveNext DEF ReadInv
<1>2. CASE view = NoView
  BY <1>1, <1>2 DEF ReadInv, LastMove, MovesOf, IsMove, StatusAfter
<1>3. CASE IsView(view) /\ view.id \in Workflows /\ ViewInv(view)
  <2> DEFINE w == view.id
  <2>1. Of(w)' = Of(w) /\ Of(w) \subseteq Activities
    BY DEF Of, WorkflowOf
  <2>2. Follows(workflows[w], workflows'[w])
    BY <1>3, WorkflowFollows
  <2>3. view.todo = workflowTx => Follows(view.listed, workflows'[w])
    BY <1>3, <2>2, FollowsTransitive DEF ViewInv
  <2>4. view.todo = <<"activities", "events">> =>
          /\ Follows(view.workflow, workflows'[w])
          /\ view.workflow = "cancelled" => UnstartedGone(w)'
    BY <1>3, <2>2, FollowsTransitive, UnstartedStayGone DEF ViewInv
  <2>5. view.todo = <<"events">> => \A a \in Of(w) : Reaches(events', a, view.activities[a])
    BY <1>3, <2>1, ReachesStays DEF ViewInv
  <2>6. ViewInv(view)'
    <3>1. /\ view' = view
          /\ view.todo \in {workflowTx, <<"activities", "events">>, <<"events">>, <<>>}
          /\ view.todo # workflowTx => Follows(view.listed, view.workflow)
          /\ view.todo \in {<<"events">>, <<>>} =>
               DOMAIN view.activities = Of(w) /\ Fits(view.workflow, w, view.activities)
          /\ view.todo = <<>> => \A a \in Of(w) : Reaches(view.events, a, view.activities[a])
      BY <1>3 DEF ViewInv
    <3>2. Fits(view.workflow, w, view.activities)' <=> Fits(view.workflow, w, view.activities)
      BY <2>1, <3>1 DEF Fits
    <3> QED
      BY <2>1, <2>3, <2>4, <2>5, <3>1, <3>2 DEF ViewInv, UnstartedGone
  <2> QED
    BY <1>1, <1>3, <2>6 DEF ReadInv, IsView
<1> QED
  BY <1>2, <1>3 DEF ReadInv

\* A new call, after ListWorkflows.
LEMMA ListKeepsView ==
  ASSUME ReadInv, NEW w \in Workflows, ListWorkflows(w)
  PROVE  ReadInv'
<1>1. view' = [NoView EXCEPT !.todo = workflowTx, !.id = w, !.listed = workflows[w]] /\ UNCHANGED vars
  BY DEF ListWorkflows
<1>2. /\ IsView(view') /\ view'.todo = workflowTx /\ view'.id = w /\ view'.listed = workflows[w]
  BY <1>1 DEF NoView, IsView
<1>3. workflows' = workflows /\ events' = events
  BY <1>1 DEF vars
<1>4. Follows(view'.listed, workflows'[view'.id])
  BY <1>2, <1>3 DEF Follows
<1>5. ViewInv(view)'
  BY <1>2, <1>4, Phases DEF ViewInv, workflowTx
<1> QED
  BY <1>2, <1>3, <1>5 DEF ReadInv, LastMove, MovesOf, IsMove, StatusAfter, IsView

\* One column of the view is filled.
LEMMA NextStatement ==
  ASSUME NEW v, IsView(v), NEW x
  PROVE  [v EXCEPT !.todo = x] = [todo |-> x, id |-> v.id, listed |-> v.listed, workflow |-> v.workflow,
                                  activities |-> v.activities, events |-> v.events]
BY DEF IsView

\* The first statement fills in the workflow.
LEMMA FillsWorkflow ==
  ASSUME NEW v, IsView(v), NEW x, NEW y
  PROVE  [[v EXCEPT !.todo = x] EXCEPT !.workflow = y] =
              [todo |-> x, id |-> v.id, listed |-> v.listed, workflow |-> y, activities |-> v.activities,
               events |-> v.events]
<1>1. [[v EXCEPT !.todo = x] EXCEPT !.workflow = y] =
      [[todo |-> x, id |-> v.id, listed |-> v.listed, workflow |-> v.workflow,
        activities |-> v.activities, events |-> v.events] EXCEPT !.workflow = y]
  BY NextStatement
<1> QED
  BY <1>1

\* The second fills in the activities.
LEMMA FillsActivities ==
  ASSUME NEW v, IsView(v), NEW x, NEW y
  PROVE  [[v EXCEPT !.todo = x] EXCEPT !.activities = y] =
              [todo |-> x, id |-> v.id, listed |-> v.listed, workflow |-> v.workflow, activities |-> y,
               events |-> v.events]
<1>1. [[v EXCEPT !.todo = x] EXCEPT !.activities = y] =
      [[todo |-> x, id |-> v.id, listed |-> v.listed, workflow |-> v.workflow,
        activities |-> v.activities, events |-> v.events] EXCEPT !.activities = y]
  BY NextStatement
<1> QED
  BY <1>1

\* The third fills in the events.
LEMMA FillsEvents ==
  ASSUME NEW v, IsView(v), NEW x, NEW y
  PROVE  [[v EXCEPT !.todo = x] EXCEPT !.events = y] =
              [todo |-> x, id |-> v.id, listed |-> v.listed, workflow |-> v.workflow,
               activities |-> v.activities, events |-> y]
<1>1. [[v EXCEPT !.todo = x] EXCEPT !.events = y] =
      [[todo |-> x, id |-> v.id, listed |-> v.listed, workflow |-> v.workflow,
        activities |-> v.activities, events |-> v.events] EXCEPT !.events = y]
  BY NextStatement
<1> QED
  BY <1>1

\* The status read, the rest to come.
LEMMA ReadsWorkflow ==
  ASSUME StatusInv, ViewInv(view), view.id \in Workflows, view.todo = workflowTx, UNCHANGED vars,
         view' = [todo |-> <<"activities", "events">>, id |-> view.id, listed |-> view.listed,
                  workflow |-> workflows[view.id], activities |-> view.activities, events |-> view.events]
  PROVE  ViewInv(view)'
<1>1. workflows' = workflows /\ activities' = activities
  BY DEF vars
<1>2. /\ view'.todo = <<"activities", "events">> /\ view'.id = view.id /\ view'.listed = view.listed
      /\ view'.workflow = workflows[view.id]
  OBVIOUS
<1>3. Follows(view.listed, workflows[view.id]) /\ Follows(workflows[view.id], workflows[view.id])
  BY DEF ViewInv, Follows
<1>4. workflows[view.id] = "cancelled" => UnstartedGone(view.id)
  BY DEF StatusInv, CancelStopsUnstarted, UnstartedGone, Of
<1>5. view'.workflow = "cancelled" => UnstartedGone(view.id)'
  BY <1>1, <1>2, <1>4 DEF UnstartedGone, Of, WorkflowOf
<1> QED
  BY <1>1, <1>2, <1>3, <1>5, Phases DEF ViewInv, workflowTx

\* The activities read, as they are committed now.
LEMMA ReadsActivities ==
  ASSUME HistoryInv, StatusInv, ReadInv, ViewInv(view), view.id \in Workflows,
         view.todo = <<"activities", "events">>, UNCHANGED vars, NEW rows,
         rows = [a \in Of(view.id) |-> activities[a]],
         view' = [todo |-> <<"events">>, id |-> view.id, listed |-> view.listed,
                  workflow |-> view.workflow, activities |-> rows, events |-> view.events]
  PROVE  ViewInv(view)'
<1> DEFINE w == view.id
<1>1. workflows' = workflows /\ activities' = activities /\ events' = events
  BY DEF vars
<1>2. /\ view'.todo = <<"events">> /\ view'.id = view.id /\ view'.listed = view.listed
      /\ view'.workflow = view.workflow /\ view'.activities = rows
  OBVIOUS
<1>3. /\ Follows(view.listed, view.workflow) /\ Follows(view.workflow, workflows[w])
      /\ view.workflow = "cancelled" => UnstartedGone(w)
  BY Phases DEF ViewInv
<1>4. DOMAIN rows = Of(w) /\ Of(w) \subseteq Activities /\ Of(w)' = Of(w)
      /\ \A a \in Of(w) : rows[a] = activities[a]
  BY DEF Of, WorkflowOf
<1>5. /\ workflows[w] = "failed" <=> "failed" \in StatusesOf(w)
      /\ workflows[w] = "completed" => StatusesOf(w) = {"completed"}
  BY DEF StatusInv, WorkflowStatusExplained, StatusesOf, Of
<1>6. {rows[a].status : a \in Of(w)} = StatusesOf(w)
  BY <1>4 DEF StatusesOf
<1>7. Fits(view.workflow, w, rows)
  BY <1>3, <1>4, <1>5, <1>6 DEF Fits, Follows, UnstartedGone
<1>8. \A a \in Of(w) : Reaches(events, a, rows[a])
  BY <1>4, ReachesNow DEF ReadInv
<1> HIDE DEF w
<1>9. Fits(view.workflow, view.id, view.activities)'
  BY <1>2, <1>4, <1>7 DEF Fits, w
<1> QED
  BY <1>1, <1>2, <1>3, <1>4, <1>8, <1>9, Phases DEF ViewInv, w, workflowTx

\* The history read, as it is committed now.
LEMMA ReadsEvents ==
  ASSUME HistoryInv, ViewInv(view), view.id \in Workflows,
         view.todo = <<"events">>, UNCHANGED vars, NEW log,
         log = {e \in events : e.workflow = view.id},
         view' = [todo |-> <<>>, id |-> view.id, listed |-> view.listed, workflow |-> view.workflow,
                  activities |-> view.activities, events |-> log]
  PROVE  ViewInv(view)'
<1>1. workflows' = workflows /\ activities' = activities /\ events' = events
  BY DEF vars
<1>2. /\ view'.todo = <<>> /\ view'.id = view.id /\ view'.listed = view.listed
      /\ view'.workflow = view.workflow /\ view'.activities = view.activities /\ view'.events = log
  OBVIOUS
<1>3. /\ Follows(view.listed, view.workflow) /\ Fits(view.workflow, view.id, view.activities)
      /\ DOMAIN view.activities = Of(view.id)
      /\ \A a \in Of(view.id) : Reaches(events, a, view.activities[a])
  BY Phases DEF ViewInv
<1>4. Of(view.id)' = Of(view.id)
  BY <1>2 DEF Of, WorkflowOf
<1>5. ASSUME NEW a \in Of(view.id)
      PROVE  Reaches(log, a, view.activities[a])
  <2>1. MovesOf(log, a) = MovesOf(events, a)
    BY <1>5 DEF MovesOf, HistoryInv, CommittedLog, Of
  <2>2. \A n : ClaimsUpTo(log, a, n) = ClaimsUpTo(events, a, n)
    BY <2>1 DEF ClaimsUpTo
  <2> QED
    BY <1>3, <2>1, <2>2 DEF Reaches
<1>6. Fits(view.workflow, view.id, view.activities)'
  BY <1>2, <1>3, <1>4 DEF Fits
<1> QED
  BY <1>2, <1>3, <1>4, <1>5, <1>6, Phases DEF ViewInv, workflowTx

\* Each statement of the reader adds what agrees with what it has.
LEMMA StatementKeepsView ==
  ASSUME HistoryInv, StatusInv, ReadInv, ReadStatement
  PROVE  ReadInv'
<1>1. UNCHANGED vars /\ view.todo # <<>>
  BY DEF ReadStatement
<1>2. NoView.todo = <<>>
  BY DEF NoView
<1>3. IsView(view) /\ view.id \in Workflows /\ ViewInv(view)
  BY <1>1, <1>2 DEF ReadInv
<1>4. view.todo \in {workflowTx, <<"activities", "events">>, <<"events">>}
  BY <1>1, <1>3 DEF ViewInv
<1>5. ViewInv(view)' /\ IsView(view') /\ view'.id = view.id
  <2>1. CASE view.todo = workflowTx
    <3>1. view' = [[view EXCEPT !.todo = <<"activities", "events">>] EXCEPT !.workflow = workflows[view.id]]
      BY <2>1, Phases DEF ReadStatement
    <3>2. view' = [todo |-> <<"activities", "events">>, id |-> view.id, listed |-> view.listed,
                   workflow |-> workflows[view.id], activities |-> view.activities, events |-> view.events]
      BY <1>3, <3>1, FillsWorkflow
    <3> QED
      BY <1>1, <1>3, <2>1, <3>2, ReadsWorkflow DEF IsView
  <2>2. CASE view.todo = <<"activities", "events">>
    <3> DEFINE rows == [a \in Of(view.id) |-> activities[a]]
    <3>1. view' = [[view EXCEPT !.todo = <<"events">>] EXCEPT !.activities = rows]
      BY <2>2, Phases DEF ReadStatement, Of
    <3> HIDE DEF rows
    <3>2. view' = [todo |-> <<"events">>, id |-> view.id, listed |-> view.listed,
                   workflow |-> view.workflow, activities |-> rows, events |-> view.events]
      BY <1>3, <3>1, FillsActivities
    <3>3. rows = [a \in Of(view.id) |-> activities[a]]
      BY DEF rows
    <3> QED
      BY <1>1, <1>3, <2>2, <3>2, <3>3, ReadsActivities DEF IsView
  <2>3. CASE view.todo = <<"events">>
    <3> DEFINE log == {e \in events : e.workflow = view.id}
    <3>1. view' = [[view EXCEPT !.todo = <<>>] EXCEPT !.events = log]
      BY <2>3, Phases DEF ReadStatement
    <3> HIDE DEF log
    <3>2. view' = [todo |-> <<>>, id |-> view.id, listed |-> view.listed, workflow |-> view.workflow,
                   activities |-> view.activities, events |-> log]
      BY <1>3, <3>1, FillsEvents
    <3>3. log = {e \in events : e.workflow = view.id}
      BY DEF log
    <3> QED
      BY <1>1, <1>3, <2>3, <3>2, <3>3, ReadsEvents DEF IsView
  <2> QED
    BY <1>4, <2>1, <2>2, <2>3
<1>6. events' = events
  BY <1>1 DEF vars
<1> QED
  BY <1>3, <1>5, <1>6 DEF ReadInv, LastMove, MovesOf, IsMove, StatusAfter, IsView
\* Reading changes nothing, so the store's invariants hold for readers as well.
LEMMA ReadersWatch == ReadNext => [Next]_vars
BY DEF ReadNext, ListWorkflows, ReadStatement

\* The view agrees throughout.
LEMMA ReadAlways == ReadSpec => [](StoreInv /\ HistoryInv /\ StatusInv /\ ReadInv)
<1>1. ReadInit => StoreInv /\ HistoryInv /\ StatusInv /\ ReadInv
  <2> SUFFICES ASSUME ReadInit PROVE StoreInv /\ HistoryInv /\ StatusInv /\ ReadInv
    OBVIOUS
  <2>1. Init /\ view = NoView /\ events = {}
    BY DEF ReadInit, Init
  <2>2. \A a \in Activities : LastMove(events, a)
    BY <2>1 DEF LastMove, MovesOf
  <2> QED
    BY <2>1, <2>2, StoreInit, HistoryInit, StatusInit DEF ReadInv
<1>2. /\ StoreInv /\ HistoryInv /\ StatusInv /\ ReadInv /\ [ReadNext]_<<vars, view>>
      => StoreInv' /\ HistoryInv' /\ StatusInv' /\ ReadInv'
  <2> SUFFICES ASSUME StoreInv, HistoryInv, StatusInv, ReadInv, [ReadNext]_<<vars, view>>
               PROVE  StoreInv' /\ HistoryInv' /\ StatusInv' /\ ReadInv'
    OBVIOUS
  <2>1. [Next]_vars
    BY ReadersWatch
  <2>2. StoreInv' /\ HistoryInv' /\ StatusInv'
    BY <2>1, StoreNext, HistoryNext, StatusNext
  <2>3. ASSUME UNCHANGED view PROVE ReadInv'
    BY <2>1, <2>3, StoreKeepsView
  <2>4. ASSUME ReadNext PROVE ReadInv'
    BY <2>3, <2>4, ListKeepsView, StatementKeepsView DEF ReadNext
  <2> QED
    BY <2>2, <2>3, <2>4
<1> QED
  BY <1>1, <1>2, PTL DEF ReadSpec

\* What an answer has in it.
LEMMA AnswerInv ==
  ASSUME ReadInv, Answered
  PROVE  /\ Follows(view.listed, view.workflow) /\ DOMAIN view.activities = Of(view.id)
         /\ Fits(view.workflow, view.id, view.activities)
         /\ \A a \in Of(view.id) : Reaches(view.events, a, view.activities[a])
<1>1. NoView.id = ""
  BY DEF NoView
<1>2. ViewInv(view) /\ view.todo = <<>>
  BY <1>1 DEF ReadInv, Answered
<1> QED
  BY <1>2, Phases DEF ViewInv

\* The history that Workflow returns goes at least as far as the rows returned
\* with it, whatever is committed between its statements.
THEOREM ReadHistoryReachesRows == ReadSpec => []HistoryReachesRows
<1>1. ReadInv => HistoryReachesRows
  <2> SUFFICES ASSUME ReadInv, Answered, NEW a \in DOMAIN view.activities
               PROVE  LET moves == {e \in view.events : e.subject = a /\ e.type \in DOMAIN StatusAfter}
                          row   == view.activities[a]
                          UpTo(n) == Cardinality({f \in moves : f.sequence <= n /\ f.type = "activity.claimed"})
                      IN \/ row.attempt = 0 /\ row.status \in {"ready", "retry_pending"}
                         \/ \E e \in moves : /\ StatusAfter[e.type] = row.status
                                             /\ UpTo(e.sequence) = row.attempt
    BY DEF HistoryReachesRows
  <2> DEFINE moves == {e \in view.events : e.subject = a /\ e.type \in DOMAIN StatusAfter}
  <2>1. Reaches(view.events, a, view.activities[a])
    BY AnswerInv
  <2>2. moves = MovesOf(view.events, a)
    BY DEF MovesOf, IsMove
  <2> HIDE DEF moves
  <2>3. \A n : {f \in moves : f.sequence <= n /\ f.type = "activity.claimed"} = ClaimsUpTo(view.events, a, n)
    BY <2>2 DEF ClaimsUpTo
  <2>4. \/ view.activities[a].attempt = 0 /\ view.activities[a].status \in {"ready", "retry_pending"}
        \/ \E e \in moves :
             /\ StatusAfter[e.type] = view.activities[a].status
             /\ Cardinality({f \in moves : f.sequence <= e.sequence /\ f.type = "activity.claimed"})
                  = view.activities[a].attempt
    BY <2>1, <2>2, <2>3 DEF Reaches
  <2> QED
    BY <2>4 DEF moves
<1> QED
  BY <1>1, ReadAlways, PTL

\* The activities that Workflow returns agree with the status it read before
\* them, although others commit between the two statements.
THEOREM ReadAnswerAgrees == ReadSpec => []AnswerAgrees
<1>1. ReadInv => AnswerAgrees
  <2> SUFFICES ASSUME ReadInv, Answered
               PROVE  LET statuses == {view.activities[a].status : a \in DOMAIN view.activities}
                      IN CASE view.workflow = "completed" -> statuses = {"completed"}
                           [] view.workflow = "failed"    -> "failed" \in statuses
                           [] view.workflow = "cancelled" -> \A a \in DOMAIN view.activities :
                                view.activities[a].attempt = 0 => view.activities[a].status = "cancelled"
                           [] OTHER -> TRUE
    BY DEF AnswerAgrees
  <2>1. DOMAIN view.activities = Of(view.id) /\ Fits(view.workflow, view.id, view.activities)
    BY AnswerInv
  <2>2. CASE view.workflow = "completed"
    BY <2>1, <2>2 DEF Fits
  <2>3. CASE view.workflow = "failed"
    BY <2>1, <2>3 DEF Fits
  <2>4. CASE view.workflow = "cancelled"
    BY <2>1, <2>4 DEF Fits
  <2>5. CASE view.workflow \notin {"completed", "failed", "cancelled"}
    BY <2>5
  <2> QED
    BY <2>2, <2>3, <2>4, <2>5
<1> QED
  BY <1>1, ReadAlways, PTL

\* What ListWorkflows called settled, Workflow read afterwards does not reopen.
THEOREM ReadDetailFollowsList == ReadSpec => []DetailFollowsList
<1>1. ReadInv => DetailFollowsList
  BY AnswerInv DEF DetailFollowsList, Follows
<1> QED
  BY <1>1, ReadAlways, PTL

=============================================================================
