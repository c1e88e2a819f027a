----------------------------- MODULE Dashboard ------------------------------
(***************************************************************************)
(* One page load of the dashboard (web/lib/dashboard-data.ts): the list of *)
(* workflows is fetched with up to three attempts, then the details of the *)
(* newest ones concurrently, each with attempts of its own, while the      *)
(* workflows go on.  The API may be asleep when the load begins, and any   *)
(* attempt may fail, time out or return something else than expected.      *)
(* Workflows are numbered by age.                                          *)
(***************************************************************************)
EXTENDS Integers, FiniteSets

CONSTANTS Workflows,   \* numbers; Workflows \ those that exist are unknown
          Limit        \* workflows shown, 20 in the code

VARIABLES page,        \* what is loaded: mode and kind, and the id asked for
          truth,       \* the status of each workflow that exists
          begun,       \* truth when the load began
          tries,       \* failed attempts of each fetch
          got,         \* what each fetch has come to
          listed,      \* statuses in the list
          detailed,    \* statuses in the details
          result

vars == <<page, truth, begun, tries, got, listed, detailed, result>>

ASSUME DashboardAssumption ==
  Workflows \subseteq Nat \ {0} /\ Limit \in Nat \ {0}

Attempts == 3

\* The list is fetch 0, the details of w fetch w.
List    == 0
Fetches == {List} \cup Workflows

Loading == [state |-> "loading", shown |-> <<>>, failures |-> 0]

\* resolveMode: everything but ?mode=demo is live.
resolveMode(mode) == IF mode = "demo" THEN "demo" ELSE "live"

Init ==
  /\ \E mode \in {"demo", "live", "none"} :
       page \in [mode : {resolveMode(mode)}, kind : {"overview", "list"}, id : {List}]
               \cup [mode : {resolveMode(mode)}, kind : {"workflow"}, id : Workflows]
  /\ \E S \in SUBSET Workflows : truth \in [S -> {"running", "completed"}]
  /\ begun = truth
  /\ tries = [f \in Fetches |-> 0]
  /\ got = [f \in Fetches |-> "pending"]
  /\ listed = <<>> /\ detailed = <<>>
  /\ result = Loading

-----------------------------------------------------------------------------
(* fetchAPI and withColdStartRetries.                                      *)

\* MUTANT: without no-store, a response of an earlier load comes back.
StatusNowCached(w) == "running"

\* cache: "no-store"
StatusNow(w) == truth[w]

\* The fetch the load begins with.
First == IF page.kind = "workflow" THEN page.id ELSE List

\* slice: only so many of the workflows listed are shown.
Newest == {w \in DOMAIN listed : Cardinality({v \in DOMAIN listed : v > w}) < Limit}

InProgress(f) ==
  /\ result = Loading /\ page.mode = "live" /\ got[f] = "pending"
  /\ \/ f = First
     \/ got[List] = "ok" /\ page.kind = "overview" /\ f \in Newest

\* MUTANT: the attempt counter starts over.
ThrowsStartingOver(f) ==
  /\ InProgress(f)
  /\ tries' = [tries EXCEPT ![f] = 1 - @]
  /\ UNCHANGED <<page, truth, begun, got, listed, detailed, result>>

\* The attempt throws, at once or when AbortSignal.timeout fires.
Throws(f) ==
  /\ InProgress(f)
  /\ tries' = [tries EXCEPT ![f] = @ + 1]
  /\ got' = IF tries'[f] = Attempts THEN [got EXCEPT ![f] = "thrown"] ELSE got
  /\ UNCHANGED <<page, truth, begun, listed, detailed, result>>

\* A response ends the retries, whatever its status: an error of the API or
\* of the gateway in front of it ("http"), a body that is not what was
\* expected, or what was asked for.
Responds(f) ==
  LET S == DOMAIN truth
  IN /\ InProgress(f)
     /\ \/ /\ got' = [got EXCEPT ![f] = "http"]
           /\ UNCHANGED <<listed, detailed>>
        \/ /\ got' = [got EXCEPT ![f] = "malformed"]
           /\ UNCHANGED <<listed, detailed>>
        \/ /\ f = List /\ got' = [got EXCEPT ![f] = "ok"]
           /\ listed' = [w \in S |-> StatusNow(w)]
           /\ UNCHANGED detailed
        \/ /\ f \in S /\ got' = [got EXCEPT ![f] = "ok"]
           /\ detailed' = [w \in DOMAIN detailed \cup {f} |->
                             IF w = f THEN StatusNow(w) ELSE detailed[w]]
           /\ UNCHANGED listed
        \/ /\ f # List /\ f \notin S /\ got' = [got EXCEPT ![f] = "not-found"]
           /\ UNCHANGED <<listed, detailed>>
     /\ UNCHANGED <<page, truth, begun, tries, result>>

-----------------------------------------------------------------------------
(* getDashboardData and getWorkflowData, once their fetches have settled.  *)

Result(state, shown, failures) ==
  result' = [state |-> state, shown |-> shown, failures |-> failures]

Ready == result = Loading /\ \A f \in Fetches : ~InProgress(f)

Done == UNCHANGED <<page, truth, begun, tries, got, listed, detailed>>

ShowDemo ==
  /\ Ready /\ page.mode = "demo"
  /\ Result("populated", [w \in {0} |-> "fixture"], 0)
  /\ Done

\* The details where they came, the entry of the list elsewhere.
Hydrated == [w \in Newest |-> IF w \in DOMAIN detailed THEN detailed[w] ELSE listed[w]]

\* MUTANT: failed details are not counted.
ShowListPopulated ==
  /\ Ready /\ page.mode = "live" /\ page.kind # "workflow"
  /\ IF got[List] # "ok" THEN Result("unavailable", <<>>, 0)
     ELSE Result(IF Newest = {} THEN "empty" ELSE "populated", Hydrated, 0)
  /\ Done

ShowList ==
  LET failed == IF page.kind = "overview" THEN Newest \ DOMAIN detailed ELSE {}
  IN /\ Ready /\ page.mode = "live" /\ page.kind # "workflow"
     /\ IF got[List] # "ok" THEN Result("unavailable", <<>>, 0)
        ELSE Result(IF Newest = {} THEN "empty" ELSE IF failed = {} THEN "populated" ELSE "partial",
                    Hydrated, Cardinality(failed))
     /\ Done

ShowWorkflow ==
  /\ Ready /\ page.mode = "live" /\ page.kind = "workflow"
  /\ CASE got[page.id] = "ok"        -> Result("populated", detailed, 0)
       [] got[page.id] = "not-found" -> Result("empty", <<>>, 0)
       [] OTHER                      -> Result("unavailable", <<>>, 0)
  /\ Done

\* Meanwhile a workflow ends.
WorkflowEnds(w) ==
  /\ result = Loading /\ truth[w] = "running"
  /\ truth' = [truth EXCEPT ![w] = "completed"]
  /\ UNCHANGED <<page, begun, tries, got, listed, detailed, result>>

Show == ShowDemo \/ ShowList \/ ShowWorkflow

Next ==
  \/ \E f \in Fetches : Throws(f) \/ Responds(f)
  \/ Show
  \/ \E w \in DOMAIN truth : WorkflowEnds(w)

\* Every attempt ends by its timeout, so each fetch goes on.
Spec ==
  /\ Init /\ [][Next]_vars
  /\ \A f \in Fetches : WF_vars(Responds(f) \/ Throws(f))
  /\ WF_vars(Show)
-----------------------------------------------------------------------------
(* Properties.                                                             *)

\* The label of a live page says what stands behind it: populated, that every
\* detail asked for has come; partial, exactly how many have not; empty, that
\* the API knows of nothing; unavailable, that nothing is shown.  A detail
\* that fails hides no workflow, and fixtures are never among what is shown.
LabelIsHonest ==
  result # Loading /\ page.mode = "live" =>
    LET shown   == DOMAIN result.shown
        missing == IF page.kind = "list" THEN {} ELSE shown \ DOMAIN detailed
    IN /\ result.failures = Cardinality(missing)
       /\ result.state = "partial" <=> missing # {}
       /\ result.state \in {"empty", "unavailable"} <=> shown = {}
       /\ result.state = "empty" => got[First] \in {"ok", "not-found"}
       /\ page.kind # "workflow" /\ got[List] = "ok" => shown = Newest
       /\ shown \subseteq DOMAIN truth

\* Nothing older than the load is shown, although list and details come from
\* different moments: a workflow that had ended when the load began is never
\* shown running.
NotStale ==
  result # Loading /\ page.mode = "live" =>
    \A w \in DOMAIN result.shown :
      w \in DOMAIN begun /\ begun[w] = "completed" => result.shown[w] = "completed"

\* Every load ends: three attempts, each with a timeout, whatever the API does.
LoadEnds == <>(result # Loading)
=============================================================================
