------------------------------ MODULE Runtime -------------------------------
(***************************************************************************)
(* Worker processes (pkg/worker/worker.go, run by cmd/worker) and the      *)
(* scheduler loop (internal/scheduler/scheduler.go, run by cmd/scheduler)  *)
(* on a store of which they know no more than the contract of Lifecycle.   *)
(*                                                                         *)
(* A process is the loop of Run, a semaphore of Concurrency slots and one  *)
(* goroutine for each claim.  It never heartbeats, so every lease it gets  *)
(* runs out unless its report comes first.  Any call to the store may      *)
(* fail, with or without having taken effect.  Processes are killed and    *)
(* started again, and may share a worker id, as they do when               *)
(* DURABLEGO_WORKER_ID is left at its default.                             *)
(***************************************************************************)
EXTENDS Lifecycle

CONSTANTS Processes,
          WorkerID,      \* the worker id of each process
          Handled,       \* the activities each process has a handler for
          Concurrency,
          Plan,          \* the workflows started before the processes
          MaxFaults      \* bound: kills, shutdowns and failed polls

VARIABLES loop,          \* where Run is, "down" when there is no process
          sem,           \* slots taken
          tasks,         \* goroutines: a claim and how far execute has got
          ctxDone,       \* the context of Run is cancelled
          succeeded,     \* claims whose handler returned without an error
          faults

process == <<loop, sem, tasks, ctxDone, succeeded, faults>>
vars == <<contract, process>>

\* A <= 0 concurrency is replaced by 1.
Slots == IF Concurrency <= 0 THEN 1 ELSE Concurrency

ASSUME RuntimeAssumption ==
  /\ WorkerID \in [Processes -> Workers]
  /\ Handled \in [Processes -> SUBSET DOMAIN Plan]
  /\ Concurrency \in Int /\ MaxFaults \in Nat
  /\ NoOwner \notin Workers /\ MayMissClose \in BOOLEAN
  /\ \A a \in DOMAIN Plan : Plan[a].maxAttempts \in Nat \ {0}

Init ==
  /\ plan = Plan
  /\ workflows = [w \in {Plan[a].workflow : a \in DOMAIN Plan} |-> "running"]
  /\ LifecycleInit
  /\ loop = [p \in Processes |-> "select"]
  /\ sem = [p \in Processes |-> 0]
  /\ tasks = [p \in Processes |-> {}]
  /\ ctxDone = [p \in Processes |-> FALSE]
  /\ succeeded = {}
  /\ faults = 0

-----------------------------------------------------------------------------
(* Run *)

Goto(p, pc)   == loop' = [loop EXCEPT ![p] = pc]
Release(p)    == sem' = [sem EXCEPT ![p] = @ - 1]
Fault         == faults < MaxFaults /\ faults' = faults + 1
StoreUnchanged == UNCHANGED contract

\* case sem <- struct{}{}: possible in a cancelled context too, as select
\* takes any case that is ready.
AcquireSlot(p) ==
  /\ loop[p] = "select" /\ sem[p] < Slots
  /\ sem' = [sem EXCEPT ![p] = @ + 1]
  /\ Goto(p, "claim")
  /\ StoreUnchanged /\ UNCHANGED <<tasks, ctxDone, succeeded, faults>>

\* MUTANT: the context is looked at only when all slots are taken.
ReturnOnContextWhenFull(p) ==
  /\ loop[p] = "select" /\ ctxDone[p] /\ sem[p] = Slots
  /\ Goto(p, "draining")
  /\ StoreUnchanged /\ UNCHANGED <<sem, tasks, ctxDone, succeeded, faults>>

\* case <-ctx.Done()
ReturnOnContext(p) ==
  /\ loop[p] = "select" /\ ctxDone[p]
  /\ Goto(p, "draining")
  /\ StoreUnchanged /\ UNCHANGED <<sem, tasks, ctxDone, succeeded, faults>>

\* The claim is executed by a goroutine, which finds out first whether there
\* is a handler.
PollTask(p, a) ==
  LET claim == [activity |-> a, worker |-> WorkerID[p], token |-> rows[a].token + 1]
  IN /\ loop[p] = "claim"
     /\ Claim(a, WorkerID[p])
     /\ tasks' = [tasks EXCEPT ![p] = @ \cup
          {[claim |-> claim, at |-> IF a \in Handled[p] THEN "handler" ELSE "unhandled"]}]
     /\ Goto(p, "select")
     /\ UNCHANGED <<sem, ctxDone, succeeded, faults>>

\* ErrNoRunnableActivity, which the PostgreSQL store also answers when
\* everything ready is locked by others.
PollNothing(p) ==
  /\ loop[p] = "claim"
  /\ Release(p)
  /\ Goto(p, "sleep")
  /\ StoreUnchanged /\ UNCHANGED <<tasks, ctxDone, succeeded, faults>>

\* Any other error ends Run; the claim may have been committed and is then
\* nobody's.
PollError(p) ==
  /\ loop[p] = "claim"
  /\ Fault
  /\ Release(p)
  /\ Goto(p, "draining")
  /\ StoreUnchanged \/ \E a \in Activities : Claim(a, WorkerID[p])
  /\ UNCHANGED <<tasks, ctxDone, succeeded>>

Wake(p) ==
  /\ loop[p] = "sleep"
  /\ Goto(p, "select")
  /\ StoreUnchanged /\ UNCHANGED <<sem, tasks, ctxDone, succeeded, faults>>

\* The deferred wg.Wait; cmd/worker then ends the process.
Return(p) ==
  /\ loop[p] = "draining" /\ tasks[p] = {}
  /\ Goto(p, "down")
  /\ StoreUnchanged /\ UNCHANGED <<sem, tasks, ctxDone, succeeded, faults>>

-----------------------------------------------------------------------------
(* execute *)

HandlerReturns(p, t) ==
  /\ t.at = "handler"
  /\ \E outcome \in {"success", "error"} :
       /\ tasks' = [tasks EXCEPT ![p] = (@ \ {t}) \cup {[t EXCEPT !.at = outcome]}]
       /\ succeeded' = IF outcome = "success" THEN succeeded \cup {t.claim} ELSE succeeded
  /\ StoreUnchanged /\ UNCHANGED <<loop, sem, ctxDone, faults>>

\* The call execute ends with, when the store takes it.
Reported(t) ==
  \/ t.at = "success" /\ \E released \in SUBSET Activities : Complete(t.claim, released)
  \/ t.at = "error" /\ Fail(t.claim, TRUE)
  \/ t.at = "unhandled" /\ Fail(t.claim, FALSE)

\* MUTANT: the slot is given back only when the report was taken.
ReportKeepsSlot(p, t) ==
  /\ t.at # "handler"
  /\ \/ Reported(t) /\ Release(p)
     \/ StoreUnchanged /\ UNCHANGED sem
  /\ tasks' = [tasks EXCEPT ![p] = @ \ {t}]
  /\ UNCHANGED <<loop, ctxDone, succeeded, faults>>

\* The report is taken, or refused because the lease has gone, or lost; the
\* goroutine ends in any case and never tries again.
Report(p, t) ==
  /\ t.at # "handler"
  /\ Reported(t) \/ StoreUnchanged
  /\ tasks' = [tasks EXCEPT ![p] = @ \ {t}]
  /\ Release(p)
  /\ UNCHANGED <<loop, ctxDone, succeeded, faults>>

-----------------------------------------------------------------------------
(* The surroundings of the processes.                                      *)

CancelContext(p) ==
  /\ loop[p] \notin {"draining", "down"} /\ ~ctxDone[p]
  /\ Fault
  /\ ctxDone' = [ctxDone EXCEPT ![p] = TRUE]
  /\ StoreUnchanged /\ UNCHANGED <<loop, sem, tasks, succeeded>>

Kill(p) ==
  /\ loop[p] # "down"
  /\ Fault
  /\ Goto(p, "down")
  /\ sem' = [sem EXCEPT ![p] = 0]
  /\ tasks' = [tasks EXCEPT ![p] = {}]
  /\ StoreUnchanged /\ UNCHANGED <<ctxDone, succeeded>>

\* The platform starts the container again.
Restart(p) ==
  /\ loop[p] = "down"
  /\ Goto(p, "select")
  /\ ctxDone' = [ctxDone EXCEPT ![p] = FALSE]
  /\ StoreUnchanged /\ UNCHANGED <<sem, tasks, succeeded, faults>>

ClientCancels(w) == Cancel(w) /\ UNCHANGED process

Running == {a \in Activities : rows[a].status = "running"}

\* MUTANT: a lease that runs out on the last attempt is left alone.
SchedulerTickWithBudget(touched) ==
  /\ \E lapsed \in SUBSET {a \in Running : HasBudget(a)}, released \in SUBSET Releasable(rows) :
       touched \in lapsed \cup released /\ RunSchedulerPass(lapsed, released)
  /\ UNCHANGED process

\* One tick of the scheduler that does something for the activity touched;
\* a pass that fails changes nothing, and the next tick tries again.
SchedulerTick(touched) ==
  /\ \E lapsed \in SUBSET Running, released \in SUBSET Releasable(rows) :
       touched \in lapsed \cup released /\ RunSchedulerPass(lapsed, released)
  /\ UNCHANGED process

Poll(p) == (\E a \in Activities : PollTask(p, a)) \/ PollNothing(p) \/ PollError(p)

Next ==
  \/ \E p \in Processes :
       \/ AcquireSlot(p) \/ ReturnOnContext(p) \/ Poll(p) \/ Wake(p) \/ Return(p)
       \/ \E t \in tasks[p] : HandlerReturns(p, t) \/ Report(p, t)
       \/ CancelContext(p) \/ Kill(p) \/ Restart(p)
  \/ \E w \in DOMAIN workflows : ClientCancels(w)
  \/ \E a \in Activities : SchedulerTick(a)

\* Goroutines and loops go on, handlers return, and the platform restarts
\* what has ended.  Go's select does not pass over a ready case for ever, and
\* polls do not come back empty for ever while something is ready.  A lease
\* that nobody renews runs out, and a backoff ends: the scheduler gets to
\* every activity that keeps waiting for it.
Fairness ==
  /\ \A p \in Processes :
       /\ WF_vars(AcquireSlot(p)) /\ WF_vars(Poll(p)) /\ WF_vars(Wake(p))
       /\ WF_vars(\E t \in tasks[p] : HandlerReturns(p, t) \/ Report(p, t))
       /\ WF_vars(Return(p)) /\ WF_vars(Restart(p))
       /\ SF_vars(ReturnOnContext(p))
  /\ SF_vars(\E p \in Processes, a \in Activities : PollTask(p, a))
  /\ \A a \in DOMAIN Plan : WF_vars(SchedulerTick(a))

Spec == Init /\ [][Next]_vars
FairSpec == Spec /\ Fairness
-----------------------------------------------------------------------------
(* Properties.                                                             *)

\* Every slot taken belongs to a poll in progress or to a goroutine: neither
\* an empty poll, a failed one, nor a report that was refused or lost leaks
\* one, so a process is never starved of slots it does not use.
SlotsAccountedFor ==
  \A p \in Processes :
    sem[p] = Cardinality(tasks[p]) + (IF loop[p] = "claim" THEN 1 ELSE 0)

\* A completed activity was executed: the handler that ran under the very
\* token the store completed it with returned without an error.  It holds
\* although processes share worker ids, report after their lease has been
\* taken back, and run the same activity at the same time.
CompletedWasExecuted ==
  \A a \in Activities : rows[a].status = "completed" =>
    \E c \in succeeded : c.activity = a /\ c.token = rows[a].token

\* A handler that outlasts its lease runs beside its successor, in the same
\* process or another, but never under the same token, never more often than
\* the budget allows, and only the newest of them is the one the store heeds.
RerunsAreFenced ==
  \A a \in Activities :
    LET runs == {r \in Processes \X UNION {tasks[p] : p \in Processes} :
                   r[2] \in tasks[r[1]] /\ r[2].claim.activity = a}
    IN /\ \A r, s \in runs : r[2].claim.token = s[2].claim.token => r = s
       /\ Cardinality({c \in claims : c.activity = a}) <= plan[a].maxAttempts
       /\ Cardinality({r \in runs : Holds(r[2].claim)}) <= 1

Settled(a) == rows[a].status \in {"completed", "failed", "cancelled"}

\* Once everything an activity depends on is complete, the activity is
\* settled sooner or later: no kill, lost claim, dropped report or hanging
\* lease strands it, although no process ever repeats a report.
ReachableSettles ==
  \A a \in DOMAIN Plan : DependenciesComplete(a, rows) ~> Settled(a)

\* The activities S wait for one another.
Cycle(S) == S # {} /\ \A a \in S : Plan[a].dependsOn \cap S # {}

\* A workflow whose dependencies have no cycle is over one day and stays so,
\* or at least there is nothing left to do in it: if overlapping Complete calls
\* both missed the close, as PostgreSQL lets them, all its activities are
\* completed while it counts as running for ever.  Start does not look for
\* cycles: the activities on one wait for ever, and their workflow with them
\* unless it is cancelled.
AcyclicWorkIsDone ==
  \A w \in {Plan[a].workflow : a \in DOMAIN Plan} :
    LET own == {a \in DOMAIN Plan : Plan[a].workflow = w}
    IN (\A S \in SUBSET own : ~Cycle(S))
         => <>[](workflows[w] # "running" \/ \A a \in own : rows[a].status = "completed")

\* A process whose context is cancelled ends, after its goroutines have
\* reported: neither a poll, the pause after an empty one, nor a full
\* semaphore keeps Run from seeing ctx.Done.
ShutdownEnds ==
  \A p \in Processes : ctxDone[p] ~> loop[p] = "down"
=============================================================================
