---------------------------- MODULE PgStartProofs ----------------------------
(* Theorems about Start of the PostgreSQL store, for any number of clients *)
(* and calls.                                                              *)
EXTENDS PgStart, TLAPS

\* Where a transaction can be; those from "lookup" on hold their namespace.
Holding == {"lookup", "workflow", "key", "rows", "commit"}
Busy    == {"namespace"} \cup Holding

\* A call in progress is a call of Start that passed the validation.
TransactionsTyped ==
  /\ calls \in 0 .. MaxCalls
  /\ tx \in [Clients -> {Idle} \cup [pc : Busy, call : Calls]]
  /\ \A c \in Clients : tx[c] # Idle => /\ tx[c].call.namespace # Empty
                                        /\ tx[c].call.id <= calls
                                        /\ tx[c].pc \in {"lookup", "key"} => tx[c].call.key # Empty

\* Call ids, which stand for the UUIDs, are used once.
IdsUsedOnce ==
  /\ \A v, w \in workflows : v.id = w.id => v = w
  /\ \A c \in Clients : tx[c] # Idle =>
       /\ \A w \in workflows : w.id # tx[c].call.id
       /\ \A d \in Clients : tx[d] # Idle /\ tx[d].call.id = tx[c].call.id => d = c

\* The row lock of the namespace: one transaction at a time is past it.
NamespaceLocked ==
  \A c, d \in Clients :
    tx[c].pc \in Holding /\ tx[d].pc \in Holding
      /\ tx[c].call.namespace = tx[d].call.namespace => c = d

\* Past the lookup, the key of a call is free.
KeyStillFree ==
  \A c \in Clients :
    tx[c].pc \in Holding \ {"lookup"} /\ tx[c].call.key # Empty =>
      KeyRows(tx[c].call.namespace, tx[c].call.key) = {}

\* The primary key of idempotency_keys.
KeysUnique ==
  \A k, l \in idempotencyKeys : k.namespace = l.namespace /\ k.key = l.key => k = l

\* A workflow with a key comes with the row of its key.
WorkflowsHaveKeys ==
  \A w \in workflows : w.key # Empty =>
    \E k \in idempotencyKeys : k.namespace = w.namespace /\ k.key = w.key /\ k.workflow = w.id

\* An answer names a workflow of its namespace and key.
AnswersNameWorkflows ==
  \A x \in answers :
    \E w \in workflows : w.id = x.workflow /\ w.namespace = x.namespace /\ w.key = x.key

StartInv ==
  /\ TypeOK /\ TransactionsTyped /\ IdsUsedOnce /\ NamespaceLocked /\ KeyStillFree
  /\ KeysUnique /\ WorkflowsHaveKeys /\ KeysNameWorkflows /\ AnswersNameWorkflows

-----------------------------------------------------------------------------
(* Steps.                                                                  *)

\* What a step does to the transaction of one client: it moves on or ends.
\* Going past the namespace needs its lock, and going past the lookup or the
\* insert of the key needs the key to be free.
Advances(c, pc) ==
  /\ tx[c] # Idle /\ pc \in Holding
  /\ tx' = [tx EXCEPT ![c] = [pc |-> pc, call |-> tx[c].call]]
  /\ tx[c].pc = "namespace" => ~NamespaceHeld(c, tx[c].call.namespace)
  /\ pc \in {"lookup", "key"} => tx[c].call.key # Empty
  /\ pc # "lookup" /\ tx[c].call.key # Empty =>
       \/ tx[c].pc \in Holding \ {"lookup"}
       \/ tx[c].pc = "lookup" /\ KeyRows(tx[c].call.namespace, tx[c].call.key) = {}

Ends(c) == tx[c] # Idle /\ tx' = [tx EXCEPT ![c] = Idle]

\* An idle client is recognised by its place.
LEMMA IdleByPlace ==
  ASSUME TransactionsTyped, NEW c \in Clients
  PROVE  /\ tx[c] = Idle <=> tx[c].pc = "idle"
         /\ tx[c] # Idle => tx[c] \in [pc : Busy, call : Calls]
BY DEF TransactionsTyped, Idle, Busy, Holding

\* Moving on is replacing the place.
LEMMA GotoIs ==
  ASSUME TransactionsTyped, NEW c \in Clients, tx[c] # Idle, NEW pc, Goto(c, pc)
  PROVE  tx' = [tx EXCEPT ![c] = [pc |-> pc, call |-> tx[c].call]]
<1>1. tx[c] \in [pc : Busy, call : Calls]
  BY IdleByPlace
<1>2. [tx[c] EXCEPT !.pc = pc] = [pc |-> pc, call |-> tx[c].call]
  BY <1>1
<1> QED
  BY <1>2 DEF Goto

\* A step that moves one transaction on and writes nothing.
LEMMA AdvanceStep ==
  ASSUME StartInv, NEW c \in Clients, NEW pc, Advances(c, pc),
         UNCHANGED <<tables, calls, answers>>
  PROVE  StartInv'
<1>1. /\ tx[c] \in [pc : Busy, call : Calls] /\ tx \in [Clients -> {Idle} \cup [pc : Busy, call : Calls]]
      /\ tx[c].call \in Calls
  BY IdleByPlace DEF StartInv, TransactionsTyped, Advances
<1>2. /\ tx'[c] = [pc |-> pc, call |-> tx[c].call]
      /\ \A d \in Clients : d # c => tx'[d] = tx[d]
  BY <1>1 DEF Advances
<1>3. tx'[c].pc = pc /\ tx'[c].call = tx[c].call /\ tx'[c] # Idle /\ tx'[c] \in [pc : Busy, call : Calls]
  BY <1>1, <1>2 DEF Advances, Idle, Holding, Busy
<1>4. TransactionsTyped'
  BY <1>1, <1>2, <1>3 DEF Advances, StartInv, TransactionsTyped
<1>5. IdsUsedOnce'
  BY <1>2, <1>3 DEF StartInv, IdsUsedOnce, tables, Advances
<1>6. NamespaceLocked'
  BY <1>1, <1>2, <1>3 DEF StartInv, NamespaceLocked, NamespaceHeld, Advances, Holding, Busy
<1>7. KeyStillFree'
  BY <1>2, <1>3 DEF StartInv, KeyStillFree, KeyRows, Advances, tables
<1>8. TypeOK'
  BY <1>1, <1>2, <1>3 DEF StartInv, TypeOK, tables
<1> QED
  BY <1>4, <1>5, <1>6, <1>7, <1>8
     DEF StartInv, KeysUnique, WorkflowsHaveKeys, KeysNameWorkflows, AnswersNameWorkflows, tables

\* A transaction that ends without a commit leaves the tables alone; the
\* lookup may have found its answer.
LEMMA EndStep ==
  ASSUME StartInv, NEW c \in Clients, Ends(c), UNCHANGED <<tables, calls>>,
         \/ answers' = answers
         \/ \E k \in KeyRows(tx[c].call.namespace, tx[c].call.key) :
              Answer(tx[c].call, k.workflow, TRUE)
  PROVE  StartInv'
<1>1. /\ tx'[c] = Idle /\ Idle.pc = "idle"
      /\ \A d \in Clients : d # c => tx'[d] = tx[d]
      /\ tx' \in [Clients -> {Idle} \cup [pc : Busy, call : Calls]]
  BY DEF Ends, StartInv, TransactionsTyped, Idle
<1>2. TransactionsTyped'
  BY <1>1 DEF StartInv, TransactionsTyped
<1>3. IdsUsedOnce'
  BY <1>1 DEF StartInv, IdsUsedOnce, tables
<1>4. NamespaceLocked'
  BY <1>1 DEF StartInv, NamespaceLocked, Holding
<1>5. KeyStillFree'
  BY <1>1 DEF StartInv, KeyStillFree, KeyRows, Holding, tables
<1>6. AnswersNameWorkflows' /\ \A x \in answers' : x.workflow \in 1 .. calls'
  <2>1. CASE answers' = answers
    BY <2>1 DEF StartInv, AnswersNameWorkflows, TypeOK, tables
  <2>2. ASSUME NEW k \in KeyRows(tx[c].call.namespace, tx[c].call.key),
               Answer(tx[c].call, k.workflow, TRUE)
        PROVE  AnswersNameWorkflows' /\ \A x \in answers' : x.workflow \in 1 .. calls'
    <3>1. PICK w \in workflows : /\ w.id = k.workflow /\ w.namespace = tx[c].call.namespace
                                 /\ w.key = tx[c].call.key
      BY DEF StartInv, KeysNameWorkflows, KeyRows
    <3>2. w.id \in 1 .. calls
      BY DEF StartInv, TypeOK
    <3> QED
      BY <2>2, <3>1, <3>2 DEF Answer, StartInv, AnswersNameWorkflows, TypeOK, tables
  <2> QED
    BY <2>1, <2>2
<1>7. TypeOK'
  BY <1>1, <1>6 DEF StartInv, TypeOK, tables
<1> QED
  BY <1>2, <1>3, <1>4, <1>5, <1>6, <1>7
     DEF StartInv, KeysUnique, WorkflowsHaveKeys, KeysNameWorkflows, tables

\* Start: a validated call begins under an id of its own.
LEMMA StartStep ==
  ASSUME StartInv, NEW c \in Clients, NEW ns \in Namespaces, NEW key \in Keys,
         NEW def \in Definitions, Start(c, ns, key, def)
  PROVE  StartInv'
<1> DEFINE call == [id |-> calls + 1, namespace |-> ns, key |-> key, def |-> def]
<1>1. /\ calls \in Nat /\ calls' = calls + 1 /\ calls' \in 0 .. MaxCalls
      /\ call \in Calls /\ call.id = calls + 1 /\ call.namespace = ns /\ ns # Empty
  BY StartAssumption DEF StartInv, TransactionsTyped, Start, Calls, ValidDefinition
<1>2. /\ tx[c] = Idle /\ UNCHANGED <<tables, answers>>
      /\ tx' = [tx EXCEPT ![c] = [pc |-> "namespace", call |-> call]]
  BY IdleByPlace DEF StartInv, Start
<1> HIDE DEF call
<1>3. /\ tx'[c] = [pc |-> "namespace", call |-> call]
      /\ \A d \in Clients : d # c => tx'[d] = tx[d]
      /\ tx'[c] \in [pc : Busy, call : Calls]
      /\ tx' \in [Clients -> {Idle} \cup [pc : Busy, call : Calls]]
  BY <1>1, <1>2 DEF StartInv, TransactionsTyped, Busy
<1>4. tx'[c].pc = "namespace" /\ tx'[c].call = call /\ "namespace" \notin Holding
  BY <1>3 DEF Holding
<1>5. \A d \in Clients : d # c /\ tx[d] # Idle => tx[d].call.id \in Nat /\ tx[d].call.id <= calls
  BY IdleByPlace DEF StartInv, TransactionsTyped, Calls
<1>6. TransactionsTyped'
  BY <1>1, <1>3, <1>4, <1>5 DEF StartInv, TransactionsTyped
<1>7. \A w \in workflows : w.id \in 1 .. calls
  BY DEF StartInv, TypeOK
<1>8. IdsUsedOnce'
  BY <1>1, <1>2, <1>3, <1>4, <1>5, <1>7 DEF StartInv, IdsUsedOnce, tables
<1>9. NamespaceLocked'
  BY <1>3, <1>4 DEF StartInv, NamespaceLocked
<1>10. KeyStillFree'
  BY <1>2, <1>3, <1>4 DEF StartInv, KeyStillFree, KeyRows, tables
<1>11. TypeOK'
  BY <1>1, <1>2, <1>3, <1>4 DEF StartInv, TypeOK, tables
<1> QED
  BY <1>2, <1>6, <1>8, <1>9, <1>10, <1>11
     DEF StartInv, KeysUnique, WorkflowsHaveKeys, KeysNameWorkflows, AnswersNameWorkflows, tables

\* Commit: the rows of the call appear together, under a key that was free.
LEMMA CommitStep ==
  ASSUME StartInv, NEW c \in Clients, NEW delivered \in BOOLEAN, Commit(c, delivered)
  PROVE  StartInv'
<1> DEFINE call == tx[c].call
           row  == [id |-> call.id, namespace |-> call.namespace, key |-> call.key,
                    activities |-> InitialStatus(call.def)]
           entry == [namespace |-> call.namespace, key |-> call.key, workflow |-> call.id]
<1>1. /\ tx[c] # Idle /\ tx[c].pc = "commit" /\ call \in Calls /\ call.namespace # Empty
      /\ call.id <= calls /\ calls \in Nat
  BY IdleByPlace DEF StartInv, TransactionsTyped, Commit
<1>2. /\ namespaces' = namespaces \cup {call.namespace}
      /\ definitions' = definitions \cup {<<call.namespace, call.def.name>>}
      /\ workflows' = workflows \cup {row}
      /\ idempotencyKeys' = IF call.key = Empty THEN idempotencyKeys
                            ELSE idempotencyKeys \cup {entry}
      /\ answers' = answers \/ Answer(call, call.id, FALSE)
      /\ tx' = [tx EXCEPT ![c] = Idle] /\ calls' = calls
  BY DEF Commit, CommitRows, Return
<1>3. /\ row.id = call.id /\ row.namespace = call.namespace /\ row.key = call.key
      /\ entry.namespace = call.namespace /\ entry.key = call.key /\ entry.workflow = call.id
      /\ call.namespace \in Namespaces /\ call.key \in Keys /\ call.id \in 1 .. calls
  BY <1>1 DEF Calls
<1>4. /\ tx'[c] = Idle /\ Idle.pc = "idle"
      /\ \A d \in Clients : d # c => tx'[d] = tx[d]
      /\ tx' \in [Clients -> {Idle} \cup [pc : Busy, call : Calls]]
  BY <1>2 DEF StartInv, TransactionsTyped, Idle
<1>5. \A d \in Clients : d # c /\ tx[d].pc \in Holding => tx[d].call.namespace # call.namespace
  BY <1>1 DEF StartInv, NamespaceLocked, Holding
<1> HIDE DEF call, row, entry
<1>6. TransactionsTyped'
  BY <1>2, <1>4 DEF StartInv, TransactionsTyped
<1>7. IdsUsedOnce'
  <2>1. \A w \in workflows : w.id # row.id
    BY <1>1, <1>3 DEF StartInv, IdsUsedOnce, call
  <2>2. \A d \in Clients : d # c /\ tx[d] # Idle => tx[d].call.id # row.id
    BY <1>1, <1>3 DEF StartInv, IdsUsedOnce, call
  <2> QED
    BY <1>2, <1>4, <2>1, <2>2 DEF StartInv, IdsUsedOnce
<1>8. NamespaceLocked'
  BY <1>4 DEF StartInv, NamespaceLocked, Holding
<1>9. KeyStillFree'
  BY <1>2, <1>3, <1>4, <1>5 DEF StartInv, KeyStillFree, KeyRows, Holding
<1>10. KeysUnique'
  <2>1. call.key # Empty => KeyRows(call.namespace, call.key) = {}
    BY <1>1 DEF StartInv, KeyStillFree, Holding, call
  <2> QED
    BY <1>2, <1>3, <2>1 DEF StartInv, KeysUnique, KeyRows
<1>11. WorkflowsHaveKeys' /\ KeysNameWorkflows'
  BY <1>2, <1>3 DEF StartInv, WorkflowsHaveKeys, KeysNameWorkflows
<1>12. AnswersNameWorkflows' /\ \A x \in answers' : x.workflow \in 1 .. calls'
  BY <1>2, <1>3 DEF StartInv, AnswersNameWorkflows, Answer, TypeOK
<1>13. TypeOK'
  BY <1>2, <1>3, <1>1, <1>4, <1>12 DEF StartInv, TypeOK
<1> QED
  BY <1>6, <1>7, <1>8, <1>9, <1>10, <1>11, <1>12, <1>13 DEF StartInv

\* An empty database satisfies the invariant.
LEMMA StartInvInit == Init => StartInv
BY StartAssumption
   DEF Init, StartInv, TypeOK, TransactionsTyped, IdsUsedOnce, NamespaceLocked, KeyStillFree,
       KeysUnique, WorkflowsHaveKeys, KeysNameWorkflows, AnswersNameWorkflows, Holding, Idle

\* Every statement preserves the invariant.
LEMMA StartInvStep == StartInv /\ [Next]_vars => StartInv'
<1> SUFFICES ASSUME StartInv, [Next]_vars PROVE StartInv'
  OBVIOUS
<1>1. ASSUME NEW c \in Clients, NEW ns \in Namespaces, NEW key \in Keys, NEW def \in Definitions,
             Start(c, ns, key, def)
      PROVE  StartInv'
  BY <1>1, StartStep
<1>2. ASSUME NEW c \in Clients, ensureNamespace(c) PROVE StartInv'
  <2>1. tx[c] # Idle /\ tx[c].pc = "namespace" /\ AfterNamespace(c) \in {"lookup", "workflow"}
    BY <1>2, IdleByPlace DEF StartInv, ensureNamespace, AfterNamespace
  <2>2. tx' = [tx EXCEPT ![c] = [pc |-> AfterNamespace(c), call |-> tx[c].call]]
    BY <1>2, <2>1, GotoIs DEF StartInv, ensureNamespace
  <2>3. Advances(c, AfterNamespace(c))
    BY <1>2, <2>1, <2>2 DEF Advances, AfterNamespace, ensureNamespace, Holding
  <2> QED
    BY <1>2, <2>3, AdvanceStep DEF ensureNamespace
<1>3. ASSUME NEW c \in Clients, lookupKey(c) PROVE StartInv'
  <2>1. tx[c] # Idle /\ tx[c].pc = "lookup" /\ UNCHANGED <<tables, calls>>
    BY <1>3, IdleByPlace DEF StartInv, lookupKey
  <2>2. CASE KeyRows(tx[c].call.namespace, tx[c].call.key) = {}
    <3>1. Goto(c, "workflow") /\ UNCHANGED answers
      BY <1>3, <2>2 DEF lookupKey
    <3>2. Advances(c, "workflow")
      BY <2>1, <2>2, <3>1, GotoIs DEF StartInv, Advances, Holding
    <3> QED
      BY <2>1, <3>1, <3>2, AdvanceStep
  <2>3. CASE KeyRows(tx[c].call.namespace, tx[c].call.key) # {}
    BY <1>3, <2>1, <2>3, EndStep DEF lookupKey, Ends, Return
  <2> QED
    BY <2>2, <2>3
<1>4. ASSUME NEW c \in Clients, insertWorkflow(c) PROVE StartInv'
  <2> DEFINE pc == IF tx[c].call.key = Empty THEN "rows" ELSE "key"
  <2>1. tx[c] # Idle /\ tx[c].pc = "workflow" /\ Goto(c, pc) /\ UNCHANGED <<tables, calls, answers>>
    BY <1>4, IdleByPlace DEF StartInv, insertWorkflow
  <2>2. Advances(c, pc)
    BY <2>1, GotoIs DEF StartInv, Advances, Holding
  <2> QED
    BY <2>1, <2>2, AdvanceStep
<1>5. ASSUME NEW c \in Clients, insertKey(c) PROVE StartInv'
  <2>1. tx[c] # Idle /\ tx[c].pc = "key" /\ UNCHANGED <<tables, calls>>
    BY <1>5, IdleByPlace DEF StartInv, insertKey
  <2>2. CASE KeyRows(tx[c].call.namespace, tx[c].call.key) = {}
    <3>1. Goto(c, "rows") /\ UNCHANGED answers
      BY <1>5, <2>2 DEF insertKey
    <3>2. Advances(c, "rows")
      BY <2>1, <2>2, <3>1, GotoIs DEF StartInv, Advances, Holding
    <3> QED
      BY <2>1, <3>1, <3>2, AdvanceStep
  <2>3. CASE KeyRows(tx[c].call.namespace, tx[c].call.key) # {}
    BY <1>5, <2>1, <2>3, EndStep DEF insertKey, Ends, Return
  <2> QED
    BY <2>2, <2>3
<1>6. ASSUME NEW c \in Clients, insertActivities(c) PROVE StartInv'
  <2>1. tx[c] # Idle /\ tx[c].pc = "rows" /\ Goto(c, "commit") /\ UNCHANGED <<tables, calls, answers>>
    BY <1>6, IdleByPlace DEF StartInv, insertActivities
  <2>2. Advances(c, "commit")
    BY <2>1, GotoIs DEF StartInv, Advances, Holding
  <2> QED
    BY <2>1, <2>2, AdvanceStep
<1>7. ASSUME NEW c \in Clients, NEW delivered \in BOOLEAN, Commit(c, delivered) PROVE StartInv'
  BY <1>7, CommitStep
<1>8. ASSUME NEW c \in Clients, Abort(c) PROVE StartInv'
  BY <1>8, IdleByPlace, EndStep DEF StartInv, Abort, Ends, Return
<1>9. CASE UNCHANGED vars
  BY <1>9 DEF vars, StartInv, TypeOK, TransactionsTyped, IdsUsedOnce, NamespaceLocked, KeyStillFree,
              KeysUnique, WorkflowsHaveKeys, KeysNameWorkflows, AnswersNameWorkflows, KeyRows
<1> QED
  BY <1>1, <1>2, <1>3, <1>4, <1>5, <1>6, <1>7, <1>8, <1>9 DEF Next, Done

\* The invariant holds in every reachable state.
LEMMA StartInvAlways == Spec => []StartInv
BY StartInvInit, StartInvStep, PTL DEF Spec

-----------------------------------------------------------------------------
(* Theorems.                                                               *)

\* Every reachable database is well typed, and no workflow or definition
\* lacks its namespace.
THEOREM StartTypeCorrect == Spec => []TypeOK
<1>1. StartInv => TypeOK
  BY DEF StartInv
<1> QED
  BY <1>1, StartInvAlways, PTL

\* Two workflows of one namespace and key are the same workflow.
LEMMA KeyDecides == StartInv => OneWorkflowPerKey
BY DEF StartInv, OneWorkflowPerKey, WorkflowsHaveKeys, KeysUnique, IdsUsedOnce

\* For any number of clients, retries, rollbacks and lost answers: a key
\* starts at most one workflow in its namespace.
THEOREM KeyStartsOneWorkflow == Spec => []OneWorkflowPerKey
BY KeyDecides, StartInvAlways, PTL

\* No key is ever committed without its workflow: a crash between the inserts
\* of Start blocks no later attempt.
THEOREM KeysAreNeverOrphaned == Spec => []KeysNameWorkflows
<1>1. StartInv => KeysNameWorkflows
  BY DEF StartInv
<1> QED
  BY <1>1, StartInvAlways, PTL

\* All callers that present a key are answered with the same workflow, be it
\* their own commit or somebody else's.
THEOREM CallersAgree == Spec => []AnswersAgree
<1>1. StartInv => AnswersAgree
  BY KeyDecides DEF StartInv, AnswersAgree, AnswersNameWorkflows, OneWorkflowPerKey
<1> QED
  BY <1>1, StartInvAlways, PTL

\* The lock on the namespace's row is enough: a key found free at the lookup
\* is free until the commit, so the conflict branch of the key's insert is dead.
THEOREM NamespaceLockSuffices == Spec => []NoLateConflict
<1>1. StartInv => NoLateConflict
  <2> SUFFICES ASSUME StartInv, NEW c \in Clients,
                      tx[c].pc \in {"workflow", "key", "rows", "commit"}, tx[c].call.key # Empty
               PROVE  /\ KeyRows(tx[c].call.namespace, tx[c].call.key) = {}
                      /\ ~KeyHeld(c, tx[c].call.namespace, tx[c].call.key)
    BY DEF NoLateConflict
  <2> QED
    BY DEF StartInv, KeyStillFree, NamespaceLocked, KeyHeld, Holding
<1> QED
  BY <1>1, StartInvAlways, PTL

==============================================================================
