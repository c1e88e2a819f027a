------------------------------- MODULE PgRead -------------------------------
(***************************************************************************)
(* Reading the PostgreSQL store while it is written: ListWorkflows, and    *)
(* Workflow, whose READ COMMITTED transaction reads the workflow, its      *)
(* activities and its events with one statement each.  What is put         *)
(* together from them need never have been true at one moment.             *)
(***************************************************************************)
EXTENDS PgStore, Sequences

VARIABLE view   \* the statements still to run, and what those before returned

\* MUTANT: the history is read first.
workflowTxEventsFirst == <<"events", "workflow", "activities">>

\* MUTANT: the workflow is read after its activities.
workflowTxWorkflowLate == <<"activities", "workflow", "events">>

\* The statements of workflowTx, in their order.
workflowTx == <<"workflow", "activities", "events">>

NoView == [todo |-> <<>>, id |-> "", listed |-> "", workflow |-> "", activities |-> <<>>,
           events |-> {}]

\* ListWorkflows is one statement; a caller then asks for one of the
\* workflows it names.
ListWorkflows(w) ==
  /\ view.todo = <<>>
  /\ view' = [NoView EXCEPT !.todo = workflowTx, !.id = w, !.listed = workflows[w]]
  /\ UNCHANGED vars

\* One statement of Workflow, on what is committed when it starts.
ReadStatement ==
  /\ view.todo # <<>>
  /\ view' = LET next == [view EXCEPT !.todo = Tail(@)]
             IN CASE Head(view.todo) = "workflow"   -> [next EXCEPT !.workflow = workflows[view.id]]
                  [] Head(view.todo) = "activities" ->
                       [next EXCEPT !.activities =
                          [a \in {b \in Activities : WorkflowOf(b) = view.id} |-> activities[a]]]
                  [] Head(view.todo) = "events"     ->
                       [next EXCEPT !.events = {e \in events : e.workflow = view.id}]
  /\ UNCHANGED vars

ReadInit == Init /\ view = NoView
ReadNext == \/ Next /\ UNCHANGED view
            \/ \E w \in Workflows : ListWorkflows(w)
            \/ ReadStatement
ReadSpec == ReadInit /\ [][ReadNext]_<<vars, view>>

-----------------------------------------------------------------------------
(* Properties of an answer, while the store has moved on.                  *)

Answered == view.todo = <<>> /\ view.id # ""

\* The history returned goes at least as far as the rows returned with it:
\* for every activity, some point of its history has the status and the
\* number of attempts of the row.  No row is shown in a state that its
\* timeline does not mention.
HistoryReachesRows ==
  Answered => \A a \in DOMAIN view.activities :
    LET moves == {e \in view.events : e.subject = a /\ e.type \in DOMAIN StatusAfter}
        row   == view.activities[a]
        ClaimsUpTo(n) == Cardinality({f \in moves : f.sequence <= n /\ f.type = "activity.claimed"})
    IN \/ row.attempt = 0 /\ row.status \in {"ready", "retry_pending"}
       \/ \E e \in moves : /\ StatusAfter[e.type] = row.status
                           /\ ClaimsUpTo(e.sequence) = row.attempt

\* A workflow returned as completed comes with completed activities only,
\* one returned as failed with a failed activity, and one returned as
\* cancelled with nothing still waiting for its first attempt.
AnswerAgrees ==
  Answered =>
    LET statuses == {view.activities[a].status : a \in DOMAIN view.activities}
    IN CASE view.workflow = "completed" -> statuses = {"completed"}
         [] view.workflow = "failed"    -> "failed" \in statuses
         [] view.workflow = "cancelled" -> \A a \in DOMAIN view.activities :
              view.activities[a].attempt = 0 => view.activities[a].status = "cancelled"
         [] OTHER -> TRUE

\* What the list called settled, the detail read afterwards does not reopen.
DetailFollowsList ==
  Answered =>
    /\ view.listed \in {"completed", "failed"} => view.workflow = view.listed
    /\ view.listed = "cancelled" => view.workflow \in {"cancelled", "failed"}
=============================================================================
