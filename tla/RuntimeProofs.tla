---------------------------- MODULE RuntimeProofs ----------------------------
(* Theorems about worker processes on any store that keeps the contract of *)
(* Lifecycle, for any number of processes, slots, activities and faults.   *)
EXTENDS Runtime, FiniteSetTheorems, TLAPS

-----------------------------------------------------------------------------
(* The contract.  Tokens are granted once, within the attempt budget.      *)

RowStatus == {"ready", "running", "retry_pending", "completed", "failed", "cancelled"}
Row   == [status : RowStatus, token : Nat, owner : Workers \cup {NoOwner}]
Claims == [activity : DOMAIN Plan, worker : Workers, token : Nat]

StoreTyped ==
  /\ plan = Plan
  /\ rows \in [DOMAIN Plan -> Row]
  /\ claims \subseteq Claims

TokensGrantedOnce ==
  /\ \A c \in claims : 0 < c.token /\ c.token <= rows[c.activity].token
  /\ \A c, d \in claims : c.activity = d.activity /\ c.token = d.token => c = d

\* Whatever can be claimed has an attempt left.
WithinBudget ==
  \A a \in DOMAIN Plan :
    /\ rows[a].token <= Plan[a].maxAttempts
    /\ rows[a].status \in {"ready", "retry_pending"} => rows[a].token < Plan[a].maxAttempts

ContractInv == StoreTyped /\ TokensGrantedOnce /\ WithinBudget

\* What a step that grants no claim may do to the row of a: it keeps the
\* token, completed rows stay, and only what has budget left is queued again.
RowMoves(a) ==
  /\ rows'[a] \in Row /\ rows'[a].token = rows[a].token
  /\ rows[a].status = "completed" => rows'[a].status = "completed"
  /\ rows'[a].status \in {"ready", "retry_pending"} =>
       rows[a].status \in {"ready", "retry_pending"} \/ rows[a].token < Plan[a].maxAttempts

\* A step that grants no claim and completes what the claims of done hold.
StoreMoves(done) ==
  /\ plan' = plan /\ claims' = claims
  /\ rows' \in [DOMAIN Plan -> Row]
  /\ \A a \in DOMAIN Plan :
       /\ RowMoves(a)
       /\ rows'[a].status = "completed" =>
            \/ rows[a].status = "completed"
            \/ \E c \in done : c.activity = a /\ c.token = rows[a].token

\* A row given up keeps its token.
LEMMA FreedRow ==
  ASSUME ContractInv, NEW a \in DOMAIN Plan, NEW status \in RowStatus
  PROVE  /\ Freed(a, status) \in Row
         /\ Freed(a, status).status = status /\ Freed(a, status).token = rows[a].token
BY DEF ContractInv, StoreTyped, Freed, Row

\* Setting the status of some rows keeps the rest of the table.
LEMMA WithRows ==
  ASSUME plan = Plan, NEW table \in [DOMAIN Plan -> Row], NEW S, NEW status \in RowStatus
  PROVE  /\ With(table, S, status) \in [DOMAIN Plan -> Row]
         /\ \A a \in DOMAIN Plan :
              /\ With(table, S, status)[a].token = table[a].token
              /\ With(table, S, status)[a].status = IF a \in S THEN status ELSE table[a].status
BY DEF With, Activities, Row

\* Moves preserve the contract's invariant.
LEMMA MovesKeepContract ==
  ASSUME ContractInv, NEW done, StoreMoves(done)
  PROVE  ContractInv'
<1>1. \A a \in DOMAIN Plan : rows'[a].token = rows[a].token
  BY DEF StoreMoves, RowMoves
<1>2. StoreTyped'
  BY DEF StoreMoves, ContractInv, StoreTyped
<1>3. TokensGrantedOnce'
  BY <1>1 DEF StoreMoves, ContractInv, TokensGrantedOnce, StoreTyped, Claims
<1>4. WithinBudget'
  BY <1>1 DEF StoreMoves, RowMoves, ContractInv, WithinBudget
<1> QED
  BY <1>2, <1>3, <1>4 DEF ContractInv

\* Complete completes what its claim holds.
LEMMA CompleteMoves ==
  ASSUME ContractInv, NEW c \in claims, NEW released, Complete(c, released)
  PROVE  StoreMoves({c})
<1> DEFINE a     == c.activity
           freed == Freed(a, "completed")
           done  == [rows EXCEPT ![a] = freed]
<1>1. /\ Holds(c) /\ released \subseteq Releasable(done) /\ rows' = With(done, released, "ready")
      /\ plan' = plan /\ claims' = claims
  BY DEF Complete
<1>2. /\ plan' = plan /\ claims' = claims /\ plan = Plan /\ a \in DOMAIN Plan
      /\ rows \in [DOMAIN Plan -> Row]
      /\ rows[a].status = "running" /\ c.token = rows[a].token
      /\ released \subseteq Releasable(done)
      /\ rows' = With(done, released, "ready")
  <2>1. plan = Plan /\ a \in DOMAIN Plan /\ rows \in [DOMAIN Plan -> Row]
    BY DEF ContractInv, StoreTyped, Claims
  <2>2. rows[a].status = "running" /\ c = Claimed(a)
    BY <1>1 DEF Holds
  <2>3. c.token = rows[a].token
    BY <2>2 DEF Claimed
  <2> QED
    BY <1>1, <2>1, <2>2, <2>3
<1>3. freed \in Row /\ freed.status = "completed" /\ freed.token = rows[a].token
  BY <1>2, FreedRow DEF RowStatus
<1> HIDE DEF freed
<1>4. /\ done \in [DOMAIN Plan -> Row] /\ done[a] = freed
      /\ \A b \in DOMAIN Plan : b # a => done[b] = rows[b]
  BY <1>2, <1>3
<1> HIDE DEF done, a
<1>5. /\ rows' \in [DOMAIN Plan -> Row]
      /\ \A b \in DOMAIN Plan :
           /\ rows'[b].token = done[b].token
           /\ rows'[b].status = IF b \in released THEN "ready" ELSE done[b].status
  BY <1>2, <1>4, WithRows DEF RowStatus
<1>6. \A b \in released : done[b].status = "retry_pending"
  BY <1>2 DEF Releasable
<1>7. ASSUME NEW b \in DOMAIN Plan
      PROVE  /\ RowMoves(b)
             /\ rows'[b].status = "completed" =>
                  \/ rows[b].status = "completed"
                  \/ b = a
  BY <1>2, <1>3, <1>4, <1>5, <1>6 DEF RowMoves
<1> QED
  BY <1>2, <1>5, <1>7 DEF StoreMoves, a

\* Fail completes nothing.
LEMMA FailMoves ==
  ASSUME ContractInv, NEW c \in claims, NEW retryable \in BOOLEAN, Fail(c, retryable)
  PROVE  StoreMoves({})
<1> DEFINE a      == c.activity
           retry  == retryable /\ HasBudget(a)
           status == IF retry THEN "retry_pending" ELSE "failed"
           freed  == Freed(a, status)
<1>1. /\ plan' = plan /\ claims' = claims /\ plan = Plan /\ a \in DOMAIN Plan
      /\ rows \in [DOMAIN Plan -> Row] /\ rows[a].status = "running"
      /\ rows' = [rows EXCEPT ![a] = freed]
  BY DEF ContractInv, StoreTyped, Claims, Fail, Holds
<1>2. freed \in Row /\ freed.status = status /\ freed.token = rows[a].token
  BY <1>1, FreedRow DEF RowStatus
<1>3. status \in {"retry_pending", "failed"} /\ (status = "retry_pending" => rows[a].token < Plan[a].maxAttempts)
  BY <1>1 DEF HasBudget
<1> HIDE DEF freed, status, a
<1> QED
  BY <1>1, <1>2, <1>3 DEF StoreMoves, RowMoves

\* Cancel completes nothing.
LEMMA CancelMoves ==
  ASSUME ContractInv, NEW w, Cancel(w)
  PROVE  StoreMoves({})
<1> DEFINE S == {a \in OfWorkflow(w) : rows[a].status \in {"ready", "retry_pending"}}
<1>1. /\ plan' = plan /\ claims' = claims /\ plan = Plan
      /\ rows \in [DOMAIN Plan -> Row] /\ rows' = With(rows, S, "cancelled")
  BY DEF ContractInv, StoreTyped, Cancel
<1>2. \A a \in S : rows[a].status \in {"ready", "retry_pending"}
  OBVIOUS
<1> HIDE DEF S
<1>3. /\ rows' \in [DOMAIN Plan -> Row]
      /\ \A b \in DOMAIN Plan :
           /\ rows'[b].token = rows[b].token
           /\ rows'[b].status = IF b \in S THEN "cancelled" ELSE rows[b].status
  BY <1>1, WithRows DEF RowStatus
<1> QED
  BY <1>1, <1>2, <1>3 DEF StoreMoves, RowMoves

\* A scheduler pass completes nothing, and requeues only what has budget.
LEMMA SchedulerMoves ==
  ASSUME ContractInv, NEW lapsed, NEW released, RunSchedulerPass(lapsed, released)
  PROVE  StoreMoves({})
<1> DEFINE exhausted == {a \in lapsed : ~HasBudget(a)}
           swept     == [a \in Activities |->
                           IF a \in lapsed
                           THEN Freed(a, IF a \in exhausted THEN "failed" ELSE "ready")
                           ELSE rows[a]]
<1>1. /\ plan' = plan /\ claims' = claims /\ plan = Plan /\ Activities = DOMAIN Plan
      /\ rows \in [DOMAIN Plan -> Row] /\ rows' = With(swept, released, "ready")
      /\ \A a \in lapsed : a \in DOMAIN Plan /\ rows[a].status = "running"
      /\ \A a \in released : rows[a].status = "retry_pending"
  BY DEF ContractInv, StoreTyped, RunSchedulerPass, Activities, Releasable
<1>2. ASSUME NEW a \in DOMAIN Plan
      PROVE  /\ swept[a] \in Row /\ swept[a].token = rows[a].token
             /\ a \notin lapsed => swept[a] = rows[a]
             /\ a \in lapsed => \/ swept[a].status = "failed"
                                \/ swept[a].status = "ready" /\ rows[a].token < Plan[a].maxAttempts
  <2>1. CASE a \notin lapsed
    BY <1>1, <2>1
  <2>2. CASE a \in exhausted
    BY <1>1, <2>2, FreedRow DEF RowStatus
  <2>3. CASE a \in lapsed \ exhausted
    BY <1>1, <2>3, FreedRow DEF RowStatus, HasBudget
  <2> QED
    BY <2>1, <2>2, <2>3
<1>3. swept \in [DOMAIN Plan -> Row]
  BY <1>1, <1>2
<1> HIDE DEF swept
<1>4. /\ rows' \in [DOMAIN Plan -> Row]
      /\ \A b \in DOMAIN Plan :
           /\ rows'[b].token = swept[b].token
           /\ rows'[b].status = IF b \in released THEN "ready" ELSE swept[b].status
  BY <1>1, <1>3, WithRows DEF RowStatus
<1>5. ASSUME NEW a \in DOMAIN Plan
      PROVE  /\ RowMoves(a)
             /\ rows'[a].status = "completed" => rows[a].status = "completed"
  BY <1>1, <1>2, <1>4 DEF RowMoves
<1> QED
  BY <1>1, <1>4, <1>5 DEF StoreMoves

\* A store that does nothing completes nothing.
LEMMA StutterMoves ==
  ASSUME ContractInv, UNCHANGED contract
  PROVE  StoreMoves({})
BY DEF ContractInv, StoreTyped, StoreMoves, RowMoves, contract

\* A claim carries a token that no claim on the activity had, and completes
\* nothing.
LEMMA ClaimGrants ==
  ASSUME ContractInv, NEW a \in Activities, NEW worker \in Workers, Claim(a, worker)
  PROVE  LET new == [activity |-> a, worker |-> worker, token |-> rows[a].token + 1]
         IN /\ ContractInv'
            /\ claims' = claims \cup {new} /\ new \in Claims
            /\ \A c \in claims : ~(c.activity = a /\ c.token = rows[a].token + 1)
            /\ \A b \in DOMAIN Plan : rows'[b].status = "completed" =>
                 rows[b].status = "completed" /\ rows'[b].token = rows[b].token
<1> DEFINE new == [activity |-> a, worker |-> worker, token |-> rows[a].token + 1]
           row == [status |-> "running", token |-> rows[a].token + 1, owner |-> worker]
<1>1. /\ plan' = plan /\ plan = Plan /\ a \in DOMAIN Plan /\ rows \in [DOMAIN Plan -> Row]
      /\ rows[a].status = "ready" /\ rows[a].token \in Nat
      /\ rows' = [rows EXCEPT ![a] = row] /\ claims' = claims \cup {new}
  BY DEF ContractInv, StoreTyped, Activities, Claim, Row
<1>2. /\ new \in Claims /\ new.activity = a /\ new.token = rows[a].token + 1
      /\ row \in Row /\ row.status = "running" /\ row.token = rows[a].token + 1
  BY <1>1 DEF Claims, Row, RowStatus
<1> HIDE DEF new, row
<1>3. /\ rows' \in [DOMAIN Plan -> Row] /\ rows'[a] = row
      /\ \A b \in DOMAIN Plan : b # a => rows'[b] = rows[b]
  BY <1>1, <1>2
<1>4. \A c \in claims : ~(c.activity = a /\ c.token = rows[a].token + 1)
  BY <1>1 DEF ContractInv, StoreTyped, TokensGrantedOnce, Claims
<1>5. StoreTyped'
  BY <1>1, <1>2, <1>3 DEF ContractInv, StoreTyped
<1>6. TokensGrantedOnce'
  BY <1>1, <1>2, <1>3, <1>4 DEF ContractInv, StoreTyped, TokensGrantedOnce, Claims
<1>7. WithinBudget'
  BY <1>1, <1>2, <1>3, RuntimeAssumption DEF ContractInv, WithinBudget
<1>8. \A b \in DOMAIN Plan : rows'[b].status = "completed" =>
        rows[b].status = "completed" /\ rows'[b].token = rows[b].token
  BY <1>2, <1>3
<1> QED
  BY <1>1, <1>2, <1>4, <1>5, <1>6, <1>7, <1>8 DEF ContractInv, new

-----------------------------------------------------------------------------
(* The processes.                                                          *)

LoopStates == {"select", "claim", "sleep", "draining", "down"}
Task == [claim : Claims, at : {"handler", "unhandled", "success", "error"}]

ProcessesTyped ==
  /\ loop \in [Processes -> LoopStates]
  /\ sem \in [Processes -> Int]
  /\ tasks \in [Processes -> SUBSET Task]
  /\ \A p \in Processes : IsFiniteSet(tasks[p])

\* A goroutine works on a claim of the store, and no two, in whatever
\* processes, on the same one.
TasksHaveClaims ==
  /\ \A p \in Processes : \A t \in tasks[p] : t.claim \in claims
  /\ \A p, q \in Processes : \A t \in tasks[p], u \in tasks[q] :
       t.claim = u.claim => p = q /\ t = u

\* A goroutine that is about to report success has run its handler.
SuccessIsRecorded ==
  \A p \in Processes : \A t \in tasks[p] : t.at = "success" => t.claim \in succeeded

RuntimeInv ==
  /\ ContractInv /\ ProcessesTyped /\ TasksHaveClaims /\ SuccessIsRecorded
  /\ SlotsAccountedFor /\ CompletedWasExecuted

\* What is completed by claims that were executed was executed.
LEMMA ExecutedStays ==
  ASSUME ContractInv, CompletedWasExecuted, NEW done, StoreMoves(done), done \subseteq succeeded,
         succeeded \subseteq succeeded'
  PROVE  CompletedWasExecuted'
BY DEF CompletedWasExecuted, StoreMoves, RowMoves, ContractInv, StoreTyped, Activities

\* A step of one process that starts no goroutine: the tasks of p become a
\* set of tasks that had the same claims, and nothing else of others changes.
LEMMA ProcessStep ==
  ASSUME RuntimeInv, NEW p \in Processes,
         NEW done, StoreMoves(done), done \subseteq succeeded, succeeded \subseteq succeeded',
         NEW pc \in LoopStates, loop' = [loop EXCEPT ![p] = pc],
         NEW n \in Int, sem' = [sem EXCEPT ![p] = n],
         NEW ts \in SUBSET tasks[p], tasks' = [tasks EXCEPT ![p] = ts],
         n = Cardinality(ts) + (IF pc = "claim" THEN 1 ELSE 0)
  PROVE  RuntimeInv'
<1>1. ContractInv' /\ claims' = claims
  BY MovesKeepContract DEF RuntimeInv, StoreMoves
<1>2. CompletedWasExecuted'
  BY ExecutedStays DEF RuntimeInv
<1>3. /\ tasks'[p] = ts /\ \A q \in Processes : q # p => tasks'[q] = tasks[q]
      /\ sem'[p] = n /\ \A q \in Processes : q # p => sem'[q] = sem[q]
      /\ loop'[p] = pc /\ \A q \in Processes : q # p => loop'[q] = loop[q]
      /\ \A q \in Processes : tasks'[q] \subseteq tasks[q]
  BY DEF RuntimeInv, ProcessesTyped
<1>4. ProcessesTyped'
  <2>1. IsFiniteSet(ts)
    BY FS_Subset DEF RuntimeInv, ProcessesTyped
  <2>2. tasks' \in [Processes -> SUBSET Task]
    BY DEF RuntimeInv, ProcessesTyped
  <2> QED
    BY <1>3, <2>1, <2>2 DEF RuntimeInv, ProcessesTyped
<1>5. TasksHaveClaims' /\ SuccessIsRecorded'
  BY <1>1, <1>3 DEF RuntimeInv, TasksHaveClaims, SuccessIsRecorded
<1>6. SlotsAccountedFor'
  BY <1>3 DEF RuntimeInv, SlotsAccountedFor
<1> QED
  BY <1>1, <1>2, <1>4, <1>5, <1>6 DEF RuntimeInv

\* A step of the store alone.
LEMMA StoreStep ==
  ASSUME RuntimeInv, NEW done, StoreMoves(done), done \subseteq succeeded,
         UNCHANGED <<loop, sem, tasks, succeeded>>
  PROVE  RuntimeInv'
<1>1. ContractInv' /\ claims' = claims
  BY MovesKeepContract DEF RuntimeInv, StoreMoves
<1>2. CompletedWasExecuted'
  BY ExecutedStays DEF RuntimeInv
<1> QED
  BY <1>1, <1>2 DEF RuntimeInv, ProcessesTyped, TasksHaveClaims, SuccessIsRecorded,
                    SlotsAccountedFor

\* The steps of Run that leave the store and the goroutines alone.
LEMMA LoopStep ==
  ASSUME RuntimeInv, NEW p \in Processes, NEW pc \in LoopStates, Goto(p, pc),
         NEW n \in Int, sem' = [sem EXCEPT ![p] = n],
         n - sem[p] = (IF pc = "claim" THEN 1 ELSE 0) - (IF loop[p] = "claim" THEN 1 ELSE 0),
         UNCHANGED contract, UNCHANGED <<tasks, succeeded>>
  PROVE  RuntimeInv'
<1>1. StoreMoves({})
  BY StutterMoves DEF RuntimeInv
<1>2. tasks' = [tasks EXCEPT ![p] = tasks[p]] /\ tasks[p] \in SUBSET tasks[p]
  BY DEF RuntimeInv, ProcessesTyped
<1>3. sem[p] = Cardinality(tasks[p]) + (IF loop[p] = "claim" THEN 1 ELSE 0) /\ sem[p] \in Int
  BY DEF RuntimeInv, SlotsAccountedFor, ProcessesTyped
<1>4. Cardinality(tasks[p]) \in Nat
  BY FS_CardinalityType DEF RuntimeInv, ProcessesTyped
<1>5. n = Cardinality(tasks[p]) + (IF pc = "claim" THEN 1 ELSE 0)
  BY <1>3, <1>4
<1> QED
  BY <1>1, <1>2, <1>5, ProcessStep DEF Goto

\* A claim nobody works on preserves all but the count of slots, which is
\* not concerned.
LEMMA ClaimStep ==
  ASSUME RuntimeInv, NEW a \in Activities, NEW worker \in Workers, Claim(a, worker),
         UNCHANGED succeeded
  PROVE  /\ ContractInv' /\ CompletedWasExecuted'
         /\ claims' = claims \cup {[activity |-> a, worker |-> worker, token |-> rows[a].token + 1]}
         /\ [activity |-> a, worker |-> worker, token |-> rows[a].token + 1] \in Claims \ claims
<1> DEFINE new == [activity |-> a, worker |-> worker, token |-> rows[a].token + 1]
<1>1. /\ ContractInv' /\ claims' = claims \cup {new} /\ new \in Claims
      /\ \A c \in claims : ~(c.activity = a /\ c.token = rows[a].token + 1)
      /\ \A b \in DOMAIN Plan : rows'[b].status = "completed" =>
           rows[b].status = "completed" /\ rows'[b].token = rows[b].token
  BY ClaimGrants DEF RuntimeInv
<1>2. new.activity = a /\ new.token = rows[a].token + 1
  OBVIOUS
<1>3. new \notin claims
  BY <1>1, <1>2
<1>4. Activities' = DOMAIN Plan /\ Activities = DOMAIN Plan
  BY <1>1 DEF RuntimeInv, ContractInv, StoreTyped, Activities
<1> HIDE DEF new
<1>5. CompletedWasExecuted'
  BY <1>1, <1>4 DEF RuntimeInv, CompletedWasExecuted
<1> QED
  BY <1>1, <1>3, <1>5 DEF new

\* A successful poll starts a goroutine on a claim nobody else has.
LEMMA PollTaskStep ==
  ASSUME RuntimeInv, NEW p \in Processes, NEW a \in Activities, PollTask(p, a)
  PROVE  RuntimeInv'
<1> DEFINE claim == [activity |-> a, worker |-> WorkerID[p], token |-> rows[a].token + 1]
           task  == [claim |-> claim, at |-> IF a \in Handled[p] THEN "handler" ELSE "unhandled"]
<1>1. /\ loop[p] = "claim" /\ loop' = [loop EXCEPT ![p] = "select"] /\ sem' = sem
      /\ tasks' = [tasks EXCEPT ![p] = @ \cup {task}] /\ succeeded' = succeeded
      /\ Claim(a, WorkerID[p]) /\ WorkerID[p] \in Workers
  BY RuntimeAssumption DEF PollTask, Goto
<1>2. ContractInv' /\ CompletedWasExecuted' /\ claims' = claims \cup {claim} /\ claim \in Claims \ claims
  BY <1>1, ClaimStep
<1> HIDE DEF claim
<1>3. task \in Task /\ task.claim = claim /\ task.at # "success"
  BY <1>2 DEF Task
<1> HIDE DEF task
<1>4. /\ tasks'[p] = tasks[p] \cup {task} /\ \A q \in Processes : q # p => tasks'[q] = tasks[q]
      /\ loop'[p] = "select" /\ \A q \in Processes : q # p => loop'[q] = loop[q]
  BY <1>1 DEF RuntimeInv, ProcessesTyped
<1>5. task \notin tasks[p]
  BY <1>2, <1>3 DEF RuntimeInv, TasksHaveClaims
<1>6. /\ IsFiniteSet(tasks[p] \cup {task})
      /\ Cardinality(tasks[p] \cup {task}) = Cardinality(tasks[p]) + 1
      /\ Cardinality(tasks[p]) \in Nat
  BY <1>5, FS_AddElement, FS_CardinalityType DEF RuntimeInv, ProcessesTyped
<1>7. ProcessesTyped'
  BY <1>1, <1>3, <1>4, <1>6 DEF RuntimeInv, ProcessesTyped, LoopStates
<1>8. TasksHaveClaims'
  BY <1>2, <1>3, <1>4 DEF RuntimeInv, TasksHaveClaims
<1>9. SuccessIsRecorded'
  BY <1>1, <1>3, <1>4 DEF RuntimeInv, SuccessIsRecorded
<1>10. SlotsAccountedFor'
  BY <1>1, <1>4, <1>6 DEF RuntimeInv, SlotsAccountedFor
<1> QED
  BY <1>2, <1>7, <1>8, <1>9, <1>10 DEF RuntimeInv

\* A failed poll gives its slot back, whether or not its claim was granted.
LEMMA PollErrorStep ==
  ASSUME RuntimeInv, NEW p \in Processes, PollError(p)
  PROVE  RuntimeInv'
<1>1. /\ loop[p] = "claim" /\ loop' = [loop EXCEPT ![p] = "draining"]
      /\ sem' = [sem EXCEPT ![p] = sem[p] - 1] /\ UNCHANGED <<tasks, succeeded>>
      /\ sem[p] \in Int
  BY DEF PollError, Goto, Release, RuntimeInv, ProcessesTyped
<1>2. CASE UNCHANGED contract
  <2>1. /\ sem[p] - 1 \in Int /\ "draining" \in LoopStates
        /\ (sem[p] - 1) - sem[p] = (IF "draining" = "claim" THEN 1 ELSE 0)
                                     - (IF loop[p] = "claim" THEN 1 ELSE 0)
    BY <1>1 DEF LoopStates
  <2> QED
    BY <1>1, <1>2, <2>1, LoopStep DEF Goto
<1>3. ASSUME NEW a \in Activities, Claim(a, WorkerID[p]) PROVE RuntimeInv'
  <2>1. WorkerID[p] \in Workers
    BY RuntimeAssumption
  <2>2. ContractInv' /\ CompletedWasExecuted' /\ claims \subseteq claims'
    BY <1>1, <1>3, <2>1, ClaimStep
  <2>3. /\ loop'[p] = "draining" /\ \A q \in Processes : q # p => loop'[q] = loop[q]
        /\ sem'[p] = sem[p] - 1 /\ \A q \in Processes : q # p => sem'[q] = sem[q]
    BY <1>1 DEF RuntimeInv, ProcessesTyped
  <2>4. Cardinality(tasks[p]) \in Nat
    BY FS_CardinalityType DEF RuntimeInv, ProcessesTyped
  <2>5. SlotsAccountedFor'
    BY <1>1, <2>3, <2>4 DEF RuntimeInv, SlotsAccountedFor
  <2> QED
    BY <1>1, <2>2, <2>5 DEF RuntimeInv, ProcessesTyped, TasksHaveClaims, SuccessIsRecorded, LoopStates
<1> QED
  BY <1>2, <1>3 DEF PollError, StoreUnchanged

\* A handler that returns keeps its slot and its claim.
LEMMA HandlerReturnsStep ==
  ASSUME RuntimeInv, NEW p \in Processes, NEW t \in tasks[p], HandlerReturns(p, t)
  PROVE  RuntimeInv'
<1>1. PICK outcome \in {"success", "error"} :
        /\ tasks' = [tasks EXCEPT ![p] = (@ \ {t}) \cup {[t EXCEPT !.at = outcome]}]
        /\ succeeded' = IF outcome = "success" THEN succeeded \cup {t.claim} ELSE succeeded
  BY DEF HandlerReturns
<1> DEFINE u == [t EXCEPT !.at = outcome]
<1>2. t \in Task /\ t.at = "handler" /\ UNCHANGED contract /\ UNCHANGED <<loop, sem>>
  BY DEF HandlerReturns, StoreUnchanged, RuntimeInv, ProcessesTyped
<1>3. u \in Task /\ u.claim = t.claim /\ u.at = outcome /\ u # t
  BY <1>2 DEF Task
<1>4. tasks' = [tasks EXCEPT ![p] = (tasks[p] \ {t}) \cup {u}]
  BY <1>1
<1> HIDE DEF u
<1>5. tasks'[p] = (tasks[p] \ {t}) \cup {u} /\ \A q \in Processes : q # p => tasks'[q] = tasks[q]
  BY <1>4 DEF RuntimeInv, ProcessesTyped
<1>6. u \notin tasks[p]
  BY <1>3 DEF RuntimeInv, TasksHaveClaims
<1>7. IsFiniteSet(tasks'[p]) /\ Cardinality(tasks'[p]) = Cardinality(tasks[p])
  <2>1. IsFiniteSet(tasks[p]) /\ Cardinality(tasks[p]) \in Nat
    BY FS_CardinalityType DEF RuntimeInv, ProcessesTyped
  <2>2. /\ IsFiniteSet(tasks[p] \ {t})
        /\ Cardinality(tasks[p] \ {t}) = Cardinality(tasks[p]) - 1
    BY <2>1, FS_RemoveElement
  <2>3. u \notin tasks[p] \ {t}
    BY <1>6
  <2>4. Cardinality((tasks[p] \ {t}) \cup {u}) = Cardinality(tasks[p] \ {t}) + 1
    BY <2>2, <2>3, FS_AddElement
  <2> QED
    BY <1>5, <2>1, <2>2, <2>4, FS_AddElement
<1>8. StoreMoves({})
  BY <1>2, StutterMoves DEF RuntimeInv
<1>9. ContractInv' /\ claims' = claims
  BY <1>8, MovesKeepContract DEF RuntimeInv, StoreMoves
<1>10. succeeded \subseteq succeeded' /\ (outcome = "success" => t.claim \in succeeded')
  BY <1>1
<1>11. CompletedWasExecuted'
  BY <1>8, <1>10, ExecutedStays DEF RuntimeInv
<1>12. ProcessesTyped'
  BY <1>2, <1>3, <1>4, <1>5, <1>7 DEF RuntimeInv, ProcessesTyped
<1>13. TasksHaveClaims'
  BY <1>3, <1>5, <1>9 DEF RuntimeInv, TasksHaveClaims
<1>14. SuccessIsRecorded'
  BY <1>3, <1>5, <1>10 DEF RuntimeInv, SuccessIsRecorded
<1>15. SlotsAccountedFor'
  BY <1>2, <1>5, <1>7 DEF RuntimeInv, SlotsAccountedFor
<1> QED
  BY <1>9, <1>11, <1>12, <1>13, <1>14, <1>15 DEF RuntimeInv

\* A report ends its goroutine and frees its slot, taken or not.
LEMMA ReportStep ==
  ASSUME RuntimeInv, NEW p \in Processes, NEW t \in tasks[p], Report(p, t)
  PROVE  RuntimeInv'
<1>1. /\ tasks' = [tasks EXCEPT ![p] = tasks[p] \ {t}] /\ sem' = [sem EXCEPT ![p] = sem[p] - 1]
      /\ UNCHANGED <<loop, succeeded>>
  BY DEF Report, Release
<1>2. /\ loop[p] \in LoopStates /\ sem[p] \in Int /\ loop' = [loop EXCEPT ![p] = loop[p]]
      /\ t.claim \in claims
  BY <1>1 DEF RuntimeInv, ProcessesTyped, TasksHaveClaims
<1>3. Cardinality(tasks[p] \ {t}) = Cardinality(tasks[p]) - 1 /\ Cardinality(tasks[p]) \in Nat
  BY FS_RemoveElement, FS_CardinalityType DEF RuntimeInv, ProcessesTyped
<1>4. sem[p] - 1 = Cardinality(tasks[p] \ {t}) + (IF loop[p] = "claim" THEN 1 ELSE 0)
  BY <1>2, <1>3 DEF RuntimeInv, SlotsAccountedFor
<1>5. \E done \in SUBSET succeeded : StoreMoves(done)
  <2>1. CASE UNCHANGED contract
    BY <2>1, StutterMoves DEF RuntimeInv
  <2>2. ASSUME t.at = "success", NEW released \in SUBSET Activities, Complete(t.claim, released)
        PROVE  \E done \in SUBSET succeeded : StoreMoves(done)
    <3>1. StoreMoves({t.claim})
      BY <1>2, <2>2, CompleteMoves DEF RuntimeInv
    <3>2. t.claim \in succeeded
      BY <2>2 DEF RuntimeInv, SuccessIsRecorded
    <3> QED
      BY <3>1, <3>2
  <2>3. ASSUME NEW retryable \in BOOLEAN, Fail(t.claim, retryable)
        PROVE  \E done \in SUBSET succeeded : StoreMoves(done)
    <3>1. StoreMoves({})
      BY <1>2, <2>3, FailMoves DEF RuntimeInv
    <3> QED
      BY <3>1
  <2> QED
    BY <2>1, <2>2, <2>3 DEF Report, Reported, StoreUnchanged
<1>6. PICK done \in SUBSET succeeded : StoreMoves(done)
  BY <1>5
<1>7. sem[p] - 1 \in Int /\ tasks[p] \ {t} \in SUBSET tasks[p]
  BY <1>2
<1> QED
  BY <1>1, <1>2, <1>4, <1>6, <1>7, ProcessStep

\* Moves of the loop that hold the same slots before and after.
LEMMA QuietLoopStep ==
  ASSUME RuntimeInv, NEW p \in Processes, NEW pc \in LoopStates \ {"claim"}, Goto(p, pc),
         loop[p] # "claim", UNCHANGED contract, UNCHANGED <<sem, tasks, succeeded>>
  PROVE  RuntimeInv'
<1>1. sem[p] \in Int /\ sem' = [sem EXCEPT ![p] = sem[p]] /\ sem[p] - sem[p] = 0 - 0
  BY DEF RuntimeInv, ProcessesTyped
<1> QED
  BY <1>1, LoopStep

\* Every step preserves the invariant.
LEMMA RuntimeInvStep == RuntimeInv /\ [Next]_vars => RuntimeInv'
<1> SUFFICES ASSUME RuntimeInv, [Next]_vars PROVE RuntimeInv'
  OBVIOUS
<1> USE DEF StoreUnchanged
<1>1. ASSUME NEW p \in Processes, AcquireSlot(p) PROVE RuntimeInv'
  <2>1. /\ sem[p] \in Int /\ loop[p] = "select" /\ sem' = [sem EXCEPT ![p] = sem[p] + 1]
        /\ Goto(p, "claim") /\ UNCHANGED contract /\ UNCHANGED <<tasks, succeeded>>
    BY <1>1 DEF AcquireSlot, RuntimeInv, ProcessesTyped
  <2>2. /\ sem[p] + 1 \in Int /\ "claim" \in LoopStates
        /\ (sem[p] + 1) - sem[p] = (IF "claim" = "claim" THEN 1 ELSE 0)
                                     - (IF loop[p] = "claim" THEN 1 ELSE 0)
    BY <2>1 DEF LoopStates
  <2> QED
    BY <2>1, <2>2, LoopStep
<1>2. ASSUME NEW p \in Processes, ReturnOnContext(p) PROVE RuntimeInv'
  BY <1>2, QuietLoopStep DEF ReturnOnContext, LoopStates
<1>3. ASSUME NEW p \in Processes, NEW a \in Activities, PollTask(p, a) PROVE RuntimeInv'
  BY <1>3, PollTaskStep
<1>4. ASSUME NEW p \in Processes, PollNothing(p) PROVE RuntimeInv'
  <2>1. /\ sem[p] \in Int /\ loop[p] = "claim" /\ sem' = [sem EXCEPT ![p] = sem[p] - 1]
        /\ Goto(p, "sleep") /\ UNCHANGED contract /\ UNCHANGED <<tasks, succeeded>>
    BY <1>4 DEF PollNothing, Release, RuntimeInv, ProcessesTyped
  <2>2. /\ sem[p] - 1 \in Int /\ "sleep" \in LoopStates
        /\ (sem[p] - 1) - sem[p] = (IF "sleep" = "claim" THEN 1 ELSE 0)
                                     - (IF loop[p] = "claim" THEN 1 ELSE 0)
    BY <2>1 DEF LoopStates
  <2> QED
    BY <2>1, <2>2, LoopStep
<1>5. ASSUME NEW p \in Processes, PollError(p) PROVE RuntimeInv'
  BY <1>5, PollErrorStep
<1>6. ASSUME NEW p \in Processes, Wake(p) PROVE RuntimeInv'
  BY <1>6, QuietLoopStep DEF Wake, LoopStates
<1>7. ASSUME NEW p \in Processes, Return(p) PROVE RuntimeInv'
  BY <1>7, QuietLoopStep DEF Return, LoopStates
<1>8. ASSUME NEW p \in Processes, NEW t \in tasks[p], HandlerReturns(p, t) PROVE RuntimeInv'
  BY <1>8, HandlerReturnsStep
<1>9. ASSUME NEW p \in Processes, NEW t \in tasks[p], Report(p, t) PROVE RuntimeInv'
  BY <1>9, ReportStep
<1>10. ASSUME NEW p \in Processes, CancelContext(p) PROVE RuntimeInv'
  BY <1>10, StutterMoves, StoreStep DEF CancelContext, RuntimeInv
<1>11. ASSUME NEW p \in Processes, Kill(p) PROVE RuntimeInv'
  <2>1. /\ loop' = [loop EXCEPT ![p] = "down"] /\ sem' = [sem EXCEPT ![p] = 0]
        /\ tasks' = [tasks EXCEPT ![p] = {}] /\ succeeded' = succeeded
    BY <1>11 DEF Kill, Goto
  <2>2. StoreMoves({})
    BY <1>11, StutterMoves DEF Kill, RuntimeInv
  <2>3. /\ 0 = Cardinality({}) + (IF "down" = "claim" THEN 1 ELSE 0)
        /\ "down" \in LoopStates /\ 0 \in Int /\ {} \in SUBSET tasks[p]
    BY FS_EmptySet DEF LoopStates
  <2> QED
    BY <2>1, <2>2, <2>3, ProcessStep
<1>12. ASSUME NEW p \in Processes, Restart(p) PROVE RuntimeInv'
  BY <1>12, QuietLoopStep DEF Restart, LoopStates
<1>13. ASSUME NEW w \in DOMAIN workflows, ClientCancels(w) PROVE RuntimeInv'
  BY <1>13, CancelMoves, StoreStep DEF ClientCancels, RuntimeInv, process
<1>14. ASSUME NEW a \in Activities, SchedulerTick(a) PROVE RuntimeInv'
  BY <1>14, SchedulerMoves, StoreStep DEF SchedulerTick, RuntimeInv, process
<1>15. CASE UNCHANGED vars
  <2>1. StoreMoves({})
    BY <1>15, StutterMoves DEF vars, RuntimeInv
  <2> QED
    BY <1>15, <2>1, StoreStep DEF vars, process
<1> QED
  BY <1>1, <1>2, <1>3, <1>4, <1>5, <1>6, <1>7, <1>8, <1>9, <1>10, <1>11, <1>12, <1>13,
     <1>14, <1>15 DEF Next, Poll

\* Idle processes on freshly started workflows satisfy the invariant.
LEMMA RuntimeInvInit == Init => RuntimeInv
<1> SUFFICES ASSUME Init PROVE RuntimeInv
  OBVIOUS
<1>1. /\ plan = Plan /\ rows = [a \in DOMAIN Plan |-> Fresh(Plan[a])] /\ claims = {}
  BY DEF Init, LifecycleInit, Activities
<1>2. \A a \in DOMAIN Plan :
        /\ rows[a] \in Row /\ rows[a].token = 0
        /\ rows[a].status \in {"ready", "retry_pending"} /\ Plan[a].maxAttempts \in Nat \ {0}
  BY <1>1, RuntimeAssumption DEF Fresh, Row, RowStatus
<1>3. ContractInv
  BY <1>1, <1>2 DEF ContractInv, StoreTyped, TokensGrantedOnce, WithinBudget
<1>4. ProcessesTyped /\ TasksHaveClaims /\ SuccessIsRecorded
  BY FS_EmptySet DEF Init, ProcessesTyped, TasksHaveClaims, SuccessIsRecorded, LoopStates
<1>5. SlotsAccountedFor
  BY FS_EmptySet DEF Init, SlotsAccountedFor
<1>6. CompletedWasExecuted
  BY <1>1, <1>2 DEF CompletedWasExecuted, Activities
<1> QED
  BY <1>3, <1>4, <1>5, <1>6 DEF RuntimeInv

\* The invariant holds in every reachable state.
LEMMA RuntimeInvAlways == Spec => []RuntimeInv
BY RuntimeInvInit, RuntimeInvStep, PTL DEF Spec

-----------------------------------------------------------------------------
(* Theorems.                                                               *)

\* For any concurrency, any number of processes, kills and failed polls: a
\* slot is taken exactly as long as there is a poll or a goroutine for it.
THEOREM SlotsNeverLeak == Spec => []SlotsAccountedFor
<1>1. RuntimeInv => SlotsAccountedFor
  BY DEF RuntimeInv
<1> QED
  BY <1>1, RuntimeInvAlways, PTL

\* On any store that keeps the contract, with whatever worker ids: a completed
\* activity was executed to its end under the token it was completed with.
THEOREM CompletionsWereExecuted == Spec => []CompletedWasExecuted
<1>1. RuntimeInv => CompletedWasExecuted
  BY DEF RuntimeInv
<1> QED
  BY <1>1, RuntimeInvAlways, PTL

\* A set without two different elements has at most one.
LEMMA AtMostOne ==
  ASSUME NEW S, \A x, y \in S : x = y
  PROVE  Cardinality(S) <= 1
<1>1. CASE S = {}
  BY <1>1, FS_EmptySet
<1>2. CASE S # {}
  <2>1. PICK x \in S : S = {x}
    BY <1>2
  <2> QED
    BY <2>1, FS_Singleton
<1> QED
  BY <1>1, <1>2

\* The claims on an activity are as many as their different tokens allow.
LEMMA ClaimsWithinBudget ==
  ASSUME ContractInv, NEW a \in DOMAIN Plan
  PROVE  Cardinality({c \in claims : c.activity = a}) <= Plan[a].maxAttempts
<1> DEFINE S == {c \in claims : c.activity = a}
           n == Plan[a].maxAttempts
           f == [c \in S |-> c.token]
<1>1. n \in Nat
  BY RuntimeAssumption
<1>2. ASSUME NEW c \in S PROVE c.token \in 1 .. n
  BY <1>1, <1>2 DEF ContractInv, StoreTyped, TokensGrantedOnce, WithinBudget, Claims, Row
<1>3. f \in [S -> 1 .. n] /\ \A c, d \in S : f[c] = f[d] => c = d
  BY <1>2 DEF ContractInv, TokensGrantedOnce
<1>4. IsFiniteSet(1 .. n) /\ Cardinality(1 .. n) = n
  BY <1>1, FS_Interval
<1>5. Cardinality(S) <= Cardinality(1 .. n)
  <2>1. f \in Injection(S, 1 .. n)
    BY <1>3 DEF Injection, IsInjective
  <2> QED
    BY <1>4, <2>1, FS_Injection DEF ExistsInjection
<1> QED
  BY <1>4, <1>5

\* Handlers that run at the same time for one activity are fenced from each
\* other, whatever the leases, and there are never more runs than attempts.
THEOREM RerunsNeverShareAToken == Spec => []RerunsAreFenced
<1>1. RuntimeInv => RerunsAreFenced
  <2> SUFFICES ASSUME RuntimeInv, NEW a \in Activities
               PROVE  LET runs == {r \in Processes \X UNION {tasks[p] : p \in Processes} :
                                     r[2] \in tasks[r[1]] /\ r[2].claim.activity = a}
                      IN /\ \A r, s \in runs : r[2].claim.token = s[2].claim.token => r = s
                         /\ Cardinality({c \in claims : c.activity = a}) <= plan[a].maxAttempts
                         /\ Cardinality({r \in runs : Holds(r[2].claim)}) <= 1
    BY DEF RerunsAreFenced
  <2> DEFINE runs == {r \in Processes \X UNION {tasks[p] : p \in Processes} :
                        r[2] \in tasks[r[1]] /\ r[2].claim.activity = a}
  <2>1. ASSUME NEW r \in runs, NEW s \in runs, r[2].claim.token = s[2].claim.token
        PROVE  r = s
    <3>1. /\ r[1] \in Processes /\ s[1] \in Processes /\ r = <<r[1], r[2]>> /\ s = <<s[1], s[2]>>
          /\ r[2] \in tasks[r[1]] /\ s[2] \in tasks[s[1]]
          /\ r[2].claim.activity = a /\ s[2].claim.activity = a
      OBVIOUS
    <3>2. r[2].claim \in claims /\ s[2].claim \in claims
      BY <3>1 DEF RuntimeInv, TasksHaveClaims
    <3>3. r[2].claim = s[2].claim
      BY <2>1, <3>1, <3>2 DEF RuntimeInv, ContractInv, TokensGrantedOnce
    <3>4. r[1] = s[1] /\ r[2] = s[2]
      BY <3>1, <3>3 DEF RuntimeInv, TasksHaveClaims
    <3> QED
      BY <3>1, <3>4
  <2>2. plan = Plan /\ a \in DOMAIN Plan
    BY DEF RuntimeInv, ContractInv, StoreTyped, Activities
  <2>3. Cardinality({c \in claims : c.activity = a}) <= plan[a].maxAttempts
    BY <2>2, ClaimsWithinBudget DEF RuntimeInv
  <2>4. \A r, s \in {q \in runs : Holds(q[2].claim)} : r = s
    <3> SUFFICES ASSUME NEW r \in runs, NEW s \in runs, Holds(r[2].claim), Holds(s[2].claim)
                 PROVE  r = s
      OBVIOUS
    <3>1. r[2].claim = Claimed(a) /\ s[2].claim = Claimed(a)
      BY DEF Holds
    <3> HIDE DEF runs
    <3> QED
      BY <2>1, <3>1
  <2>5. Cardinality({r \in runs : Holds(r[2].claim)}) <= 1
    <3> HIDE DEF runs
    <3> QED
      BY <2>4, AtMostOne
  <2> QED
    BY <2>1, <2>3, <2>5
<1> QED
  BY <1>1, RuntimeInvAlways, PTL

==============================================================================
