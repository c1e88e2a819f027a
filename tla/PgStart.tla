------------------------------ MODULE PgStart -------------------------------
(***************************************************************************)
(* Start of the PostgreSQL store: concurrent and repeated submissions of   *)
(* workflows under an idempotency key, crashes before and after the        *)
(* commit, and lost answers.  One READ COMMITTED transaction, statement by *)
(* statement; PgStore goes on from what it commits.                        *)
(***************************************************************************)
EXTENDS Integers, Sequences

CONSTANTS Clients,
          Namespaces,
          Keys,
          Empty,         \* the empty string: no namespace, no name, no key
          Definitions,   \* a name, and a sequence of activities (name, dependsOn)
          NoCall,        \* what an idle client is asking for
          MaxCalls       \* bound: calls of Start

VARIABLES namespaces,       \* committed rows of namespaces
          definitions,      \* committed rows of workflow_definitions
          workflows,        \* committed workflow_executions with their activities
          idempotencyKeys,  \* committed rows of idempotency_keys
          tx,               \* the call each client is waiting for
          calls,            \* calls made; call n inserts workflow n
          answers           \* successful answers that reached their client

vars == <<namespaces, definitions, workflows, idempotencyKeys, tx, calls, answers>>
tables == <<namespaces, definitions, workflows, idempotencyKeys>>

ASSUME StartAssumption ==
  /\ Empty \in Keys
  /\ MaxCalls \in Nat

Names(def) == {def.activities[i].name : i \in DOMAIN def.activities}

\* What Start accepts, tested before the transaction begins.
ValidDefinition(ns, def) ==
  /\ ns # Empty /\ def.name # Empty /\ def.activities # <<>>
  /\ Empty \notin Names(def)
  /\ \A i, j \in DOMAIN def.activities :
       def.activities[i].name = def.activities[j].name => i = j
  /\ \A i \in DOMAIN def.activities : def.activities[i].dependsOn \subseteq Names(def)

Idle == [pc |-> "idle", call |-> NoCall]
Calls == [id : 1 .. MaxCalls, namespace : Namespaces, key : Keys, def : Definitions]

KeyRows(ns, key) == {k \in idempotencyKeys : k.namespace = ns /\ k.key = key}

Goto(c, pc) == tx' = [tx EXCEPT ![c].pc = pc]
Return(c) == tx' = [tx EXCEPT ![c] = Idle]
Answer(call, id, duplicate) ==
  answers' = answers \cup {[namespace |-> call.namespace, key |-> call.key,
                            workflow |-> id, duplicate |-> duplicate]}

\* Another transaction is past ensureNamespace for ns, or past the insert
\* of the key, and has not ended.
NamespaceHeld(c, ns) ==
  \E d \in Clients \ {c} : /\ tx[d].pc \in {"lookup", "workflow", "key", "rows", "commit"}
                           /\ tx[d].call.namespace = ns
KeyHeld(c, ns, key) ==
  \E d \in Clients \ {c} : /\ tx[d].pc \in {"rows", "commit"}
                           /\ tx[d].call.namespace = ns /\ tx[d].call.key = key

-----------------------------------------------------------------------------
Init ==
  /\ namespaces = {} /\ definitions = {} /\ workflows = {} /\ idempotencyKeys = {}
  /\ tx = [c \in Clients |-> Idle]
  /\ calls = 0
  /\ answers = {}

\* The call and its validation; a refused definition never reaches the
\* database.
Start(c, ns, key, def) ==
  /\ tx[c].pc = "idle"
  /\ calls < MaxCalls
  /\ ValidDefinition(ns, def)
  /\ calls' = calls + 1
  /\ tx' = [tx EXCEPT ![c] =
       [pc |-> "namespace",
        call |-> [id |-> calls + 1, namespace |-> ns, key |-> key, def |-> def]]]
  /\ UNCHANGED <<tables, answers>>

AfterNamespace(c) == IF tx[c].call.key = Empty THEN "workflow" ELSE "lookup"

\* MUTANT: ON CONFLICT DO NOTHING, which locks no row that exists.
ensureNamespaceUnlocked(c) ==
  /\ tx[c].pc = "namespace"
  /\ Goto(c, AfterNamespace(c))
  /\ UNCHANGED <<tables, calls, answers>>

\* INSERT ... ON CONFLICT DO UPDATE waits for whoever has inserted or
\* updated the row, and keeps it locked.
ensureNamespace(c) ==
  /\ tx[c].pc = "namespace"
  /\ ~NamespaceHeld(c, tx[c].call.namespace)
  /\ Goto(c, AfterNamespace(c))
  /\ UNCHANGED <<tables, calls, answers>>

\* MUTANT: the key is looked up in all namespaces.
lookupKeyAnywhere(c) ==
  LET call  == tx[c].call
      found == {k \in idempotencyKeys : k.key = call.key}
  IN /\ tx[c].pc = "lookup"
     /\ IF found = {} THEN Goto(c, "workflow") /\ UNCHANGED answers
        ELSE Return(c) /\ \E k \in found : Answer(call, k.workflow, TRUE)
     /\ UNCHANGED <<tables, calls>>

\* A key that is known ends the call with the original workflow.
lookupKey(c) ==
  LET call  == tx[c].call
      found == KeyRows(call.namespace, call.key)
  IN /\ tx[c].pc = "lookup"
     /\ IF found = {} THEN Goto(c, "workflow") /\ UNCHANGED answers
        ELSE Return(c) /\ \E k \in found : Answer(call, k.workflow, TRUE)
     /\ UNCHANGED <<tables, calls>>

\* The upsert of the definition, in a namespace nobody else can write, and
\* the insert of the workflow.
insertWorkflow(c) ==
  /\ tx[c].pc = "workflow"
  /\ Goto(c, IF tx[c].call.key = Empty THEN "rows" ELSE "key")
  /\ UNCHANGED <<tables, calls, answers>>

\* MUTANT: the key is inserted outside the transaction.
insertKeyAtOnce(c) ==
  LET call == tx[c].call
  IN /\ tx[c].pc = "key"
     /\ Goto(c, "rows")
     /\ idempotencyKeys' = idempotencyKeys \cup
          {[namespace |-> call.namespace, key |-> call.key, workflow |-> call.id]}
     /\ UNCHANGED <<namespaces, definitions, workflows, calls, answers>>

\* INSERT ... ON CONFLICT DO NOTHING waits for an insert of the same key.  If
\* that one commits, the transaction is rolled back and
\* existingIdempotentWorkflow answers with its workflow.
insertKey(c) ==
  LET call  == tx[c].call
      found == KeyRows(call.namespace, call.key)
  IN /\ tx[c].pc = "key"
     /\ ~KeyHeld(c, call.namespace, call.key)
     /\ IF found = {} THEN Goto(c, "rows") /\ UNCHANGED answers
        ELSE Return(c) /\ \E k \in found : Answer(call, k.workflow, TRUE)
     /\ UNCHANGED <<tables, calls>>

\* workflow.started, the activities, their dependencies and their events.
insertActivities(c) ==
  /\ tx[c].pc = "rows"
  /\ Goto(c, "commit")
  /\ UNCHANGED <<tables, calls, answers>>

\* The rows of activity_executions: one that has dependencies waits for them.
InitialStatus(def) ==
  [i \in DOMAIN def.activities |->
     IF def.activities[i].dependsOn = {} THEN "ready" ELSE "retry_pending"]

\* MUTANT: the namespace is looked up and not inserted.
CommitRowsOnly(call) ==
  /\ UNCHANGED namespaces
  /\ definitions' = definitions \cup {<<call.namespace, call.def.name>>}
  /\ workflows' = workflows \cup
       {[id |-> call.id, namespace |-> call.namespace, key |-> call.key,
         activities |-> InitialStatus(call.def)]}

\* The rows a committed call leaves behind, its key aside.
CommitRows(call) ==
  /\ namespaces' = namespaces \cup {call.namespace}
  /\ definitions' = definitions \cup {<<call.namespace, call.def.name>>}
  /\ workflows' = workflows \cup
       {[id |-> call.id, namespace |-> call.namespace, key |-> call.key,
         activities |-> InitialStatus(call.def)]}

\* MUTANT: the key's row is forgotten.
CommitWithoutKey(c, delivered) ==
  LET call == tx[c].call
  IN /\ tx[c].pc = "commit"
     /\ CommitRows(call)
     /\ UNCHANGED idempotencyKeys
     /\ IF delivered THEN Answer(call, call.id, FALSE) ELSE UNCHANGED answers
     /\ Return(c)
     /\ UNCHANGED calls

\* The commit.  The process may die before its answer is delivered
\* (crashAfterCommit), or the answer may be lost.
Commit(c, delivered) ==
  LET call == tx[c].call
  IN /\ tx[c].pc = "commit"
     /\ CommitRows(call)
     /\ idempotencyKeys' = IF call.key = Empty THEN idempotencyKeys ELSE idempotencyKeys \cup
          {[namespace |-> call.namespace, key |-> call.key, workflow |-> call.id]}
     /\ IF delivered THEN Answer(call, call.id, FALSE) ELSE UNCHANGED answers
     /\ Return(c)
     /\ UNCHANGED calls

\* A failed statement, crashBeforeCommit, or the death of the process: the
\* transaction leaves nothing behind.
Abort(c) ==
  /\ tx[c].pc # "idle"
  /\ Return(c)
  /\ UNCHANGED <<tables, calls, answers>>

\* The bound on calls is the only reason to stop.
Done ==
  /\ calls = MaxCalls
  /\ \A c \in Clients : tx[c].pc = "idle"
  /\ UNCHANGED vars

Next ==
  \/ \E c \in Clients :
       \/ \E ns \in Namespaces, key \in Keys, def \in Definitions : Start(c, ns, key, def)
       \/ ensureNamespace(c) \/ lookupKey(c) \/ insertWorkflow(c) \/ insertKey(c)
       \/ insertActivities(c) \/ Abort(c)
       \/ \E delivered \in BOOLEAN : Commit(c, delivered)
  \/ Done

Spec == Init /\ [][Next]_vars
-----------------------------------------------------------------------------
(* Properties.                                                             *)

\* Well-typed tables; definitions and workflows refer to a namespace that
\* was committed with or before them.
TypeOK ==
  /\ namespaces \subseteq Namespaces \ {Empty}
  /\ \A d \in definitions : d[1] \in namespaces
  /\ \A w \in workflows : w.id \in 1 .. calls /\ w.namespace \in namespaces /\ w.key \in Keys
  /\ \A k \in idempotencyKeys : k.namespace \in Namespaces /\ k.key \in Keys \ {Empty}
  /\ \A c \in Clients : tx[c] = Idle \/ tx[c].call \in Calls
  /\ \A x \in answers : x.workflow \in 1 .. calls

\* However many clients submit a key, retry it after a crash before the
\* commit or after a lost answer, it starts at most one workflow.
OneWorkflowPerKey ==
  \A v \in workflows, w \in workflows :
    v.namespace = w.namespace /\ v.key = w.key /\ v.key # Empty => v = w

\* A committed key names a committed workflow of the same namespace and key:
\* a crash between the inserts leaves no key that blocks all later attempts.
KeysNameWorkflows ==
  \A k \in idempotencyKeys :
    \E w \in workflows : w.id = k.workflow /\ w.namespace = k.namespace /\ w.key = k.key

\* An answer names a committed workflow of its namespace and key, and all who
\* ask with a key are given the same one.
AnswersAgree ==
  \A x \in answers, y \in answers :
    /\ \E w \in workflows : w.id = x.workflow /\ w.namespace = x.namespace /\ w.key = x.key
    /\ x.namespace = y.namespace /\ x.key = y.key /\ x.key # Empty
         => x.workflow = y.workflow

\* The namespace's row lock alone makes Start safe: a call that has not found
\* its key never meets it later, so ON CONFLICT DO NOTHING on the key, and the
\* error of existingIdempotentWorkflow behind it, are never needed.
NoLateConflict ==
  \A c \in Clients :
    tx[c].pc \in {"workflow", "key", "rows", "commit"} /\ tx[c].call.key # Empty =>
      /\ KeyRows(tx[c].call.namespace, tx[c].call.key) = {}
      /\ ~KeyHeld(c, tx[c].call.namespace, tx[c].call.key)
=============================================================================
