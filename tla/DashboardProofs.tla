-------------------------- MODULE DashboardProofs ---------------------------
(* Theorems about Dashboard, for any workflows and any number shown.       *)
EXTENDS Dashboard, FiniteSetTheorems, TLAPS

-----------------------------------------------------------------------------
(* What has been fetched.  The label and the statuses of a page can only be *)
(* judged against what each fetch has come to, so the inductive invariant   *)
(* ties the list and the details to the fetches that brought them.          *)

Outcomes == {"pending", "thrown", "http", "malformed", "ok", "not-found"}

PageTyped ==
  /\ page.mode \in {"demo", "live"}
  /\ page.kind \in {"overview", "list", "workflow"}
  /\ page.kind = "workflow" => page.id \in Workflows
  /\ got \in [Fetches -> Outcomes]

\* No workflow comes, goes or starts again during a load.
TruthAdvances ==
  /\ DOMAIN truth = DOMAIN begun /\ DOMAIN truth \subseteq Workflows
  /\ truth = [w \in DOMAIN truth |-> truth[w]]
  /\ \A w \in DOMAIN begun : begun[w] = "completed" => truth[w] = "completed"

\* A workflow that had ended when the load began is not in table as running.
NoOlder(table) ==
  \A w \in DOMAIN table :
    w \in DOMAIN begun /\ begun[w] = "completed" => table[w] = "completed"

ListIsFetched ==
  /\ DOMAIN listed = IF got[List] = "ok" THEN DOMAIN truth ELSE {}
  /\ NoOlder(listed)

DetailsAreFetched ==
  /\ DOMAIN detailed = {f \in Workflows : got[f] = "ok"}
  /\ DOMAIN detailed \subseteq DOMAIN truth
  /\ page.kind = "workflow" => DOMAIN detailed \subseteq {page.id}
  /\ NoOlder(detailed)

FetchedInv == PageTyped /\ TruthAdvances /\ ListIsFetched /\ DetailsAreFetched

DashboardInv == FetchedInv /\ LabelIsHonest /\ NotStale

\* No workflow has the number of the list.
LEMMA ListIsNoWorkflow == List \notin Workflows /\ Workflows \subseteq Fetches
BY DashboardAssumption DEF List, Fetches

\* A load begins with nothing fetched.
LEMMA DashboardInit == Init => DashboardInv
<1> SUFFICES ASSUME Init PROVE DashboardInv
  OBVIOUS
<1>1. PageTyped
  <2>1. PICK mode \in {"demo", "live", "none"} :
          page \in [mode : {resolveMode(mode)}, kind : {"overview", "list"}, id : {List}]
                   \cup [mode : {resolveMode(mode)}, kind : {"workflow"}, id : Workflows]
    BY DEF Init
  <2>2. resolveMode(mode) \in {"demo", "live"}
    BY DEF resolveMode
  <2>3. got = [f \in Fetches |-> "pending"]
    BY DEF Init
  <2> QED
    BY <2>1, <2>2, <2>3 DEF PageTyped, Outcomes
<1>2. TruthAdvances
  BY DEF Init, TruthAdvances
<1>3. /\ DOMAIN listed = {} /\ DOMAIN detailed = {}
      /\ \A f \in Fetches : got[f] = "pending"
  BY DEF Init
<1>4. ListIsFetched /\ DetailsAreFetched
  BY <1>3, ListIsNoWorkflow DEF ListIsFetched, DetailsAreFetched, NoOlder, Fetches
<1>5. result = Loading
  BY DEF Init
<1> QED
  BY <1>1, <1>2, <1>4, <1>5 DEF DashboardInv, FetchedInv, LabelIsHonest, NotStale

-----------------------------------------------------------------------------
(* While the page is loading.                                              *)

\* An attempt that throws brings nothing.
LEMMA ThrowsFetched ==
  ASSUME FetchedInv, NEW f \in Fetches, Throws(f)
  PROVE  FetchedInv'
<1>1. /\ got[f] = "pending"
      /\ got' = got \/ got' = [got EXCEPT ![f] = "thrown"]
      /\ UNCHANGED <<page, truth, begun, listed, detailed, result>>
  BY DEF Throws, InProgress
<1>2. /\ got' \in [Fetches -> Outcomes]
      /\ \A g \in Fetches : got'[g] = "ok" <=> got[g] = "ok"
  BY <1>1 DEF FetchedInv, PageTyped, Outcomes
<1>3. List \in Fetches
  BY DEF Fetches
<1>4. PageTyped' /\ TruthAdvances'
  BY <1>1, <1>2 DEF FetchedInv, PageTyped, TruthAdvances
<1>5. ListIsFetched'
  BY <1>1, <1>2, <1>3 DEF FetchedInv, ListIsFetched, NoOlder
<1>6. DetailsAreFetched'
  BY <1>1, <1>2, ListIsNoWorkflow DEF FetchedInv, DetailsAreFetched, NoOlder
<1> QED
  BY <1>4, <1>5, <1>6 DEF FetchedInv

\* A response that is not what was asked for brings nothing either.
LEMMA RefusalFetched ==
  ASSUME FetchedInv, NEW f \in Fetches, got[f] = "pending",
         NEW outcome \in Outcomes \ {"ok"}, got' = [got EXCEPT ![f] = outcome],
         UNCHANGED <<page, truth, begun, listed, detailed>>
  PROVE  FetchedInv'
<1>2. /\ got' \in [Fetches -> Outcomes]
      /\ \A g \in Fetches : got'[g] = "ok" <=> got[g] = "ok"
  BY DEF FetchedInv, PageTyped, Outcomes
<1>3. List \in Fetches
  BY DEF Fetches
<1>4. PageTyped' /\ TruthAdvances'
  BY <1>2 DEF FetchedInv, PageTyped, TruthAdvances
<1>5. ListIsFetched'
  BY <1>2, <1>3 DEF FetchedInv, ListIsFetched, NoOlder
<1>6. DetailsAreFetched'
  BY <1>2, ListIsNoWorkflow DEF FetchedInv, DetailsAreFetched, NoOlder
<1> QED
  BY <1>4, <1>5, <1>6 DEF FetchedInv

\* The list and each detail carry the status of the moment they are fetched.
LEMMA RespondsFetched ==
  ASSUME FetchedInv, NEW f \in Fetches, Responds(f)
  PROVE  FetchedInv'
<1>1. /\ got[f] = "pending" /\ result = Loading
      /\ UNCHANGED <<page, truth, begun, result>>
      /\ f # First => page.kind = "overview"
  BY DEF Responds, InProgress
<1>2. CASE /\ UNCHANGED <<listed, detailed>>
           /\ \E outcome \in {"http", "malformed", "not-found"} : got' = [got EXCEPT ![f] = outcome]
  BY <1>1, <1>2, RefusalFetched DEF Outcomes
<1>3. CASE /\ f = List /\ got' = [got EXCEPT ![f] = "ok"]
           /\ listed' = [w \in DOMAIN truth |-> StatusNow(w)]
           /\ UNCHANGED detailed
  <2>1. /\ got' \in [Fetches -> Outcomes] /\ got'[List] = "ok"
        /\ \A g \in Workflows : got'[g] = got[g]
    BY <1>3, ListIsNoWorkflow DEF FetchedInv, PageTyped, Outcomes
  <2>2. PageTyped' /\ TruthAdvances'
    BY <1>1, <2>1 DEF FetchedInv, PageTyped, TruthAdvances
  <2>3. ListIsFetched'
    BY <1>1, <1>3, <2>1 DEF FetchedInv, ListIsFetched, NoOlder, StatusNow, TruthAdvances
  <2>4. DetailsAreFetched'
    BY <1>1, <1>3, <2>1 DEF FetchedInv, DetailsAreFetched, NoOlder
  <2> QED
    BY <2>2, <2>3, <2>4 DEF FetchedInv
<1>4. CASE /\ f \in DOMAIN truth /\ got' = [got EXCEPT ![f] = "ok"]
           /\ detailed' = [w \in DOMAIN detailed \cup {f} |->
                             IF w = f THEN StatusNow(w) ELSE detailed[w]]
           /\ UNCHANGED listed
  <2>1. f \in Workflows /\ f # List
    BY <1>4, ListIsNoWorkflow DEF FetchedInv, TruthAdvances
  <2>2. /\ got' \in [Fetches -> Outcomes] /\ got'[List] = got[List] /\ got'[f] = "ok"
        /\ \A g \in Workflows : g # f => got'[g] = got[g]
    BY <1>4, <2>1, ListIsNoWorkflow DEF FetchedInv, PageTyped, Outcomes, Fetches
  <2>3. PageTyped' /\ TruthAdvances'
    BY <1>1, <2>2 DEF FetchedInv, PageTyped, TruthAdvances
  <2>4. ListIsFetched'
    BY <1>1, <1>4, <2>2 DEF FetchedInv, ListIsFetched, NoOlder
  <2>5. DOMAIN detailed' = DOMAIN detailed \cup {f} /\ NoOlder(detailed)'
    BY <1>1, <1>4 DEF FetchedInv, DetailsAreFetched, NoOlder, StatusNow, TruthAdvances
  <2>6. DOMAIN detailed' = {g \in Workflows : got'[g] = "ok"}
    BY <2>1, <2>2, <2>5 DEF FetchedInv, DetailsAreFetched
  <2>7. page.kind = "workflow" => f = page.id
    BY <1>1 DEF First
  <2>8. DetailsAreFetched'
    BY <1>1, <1>4, <2>5, <2>6, <2>7 DEF FetchedInv, DetailsAreFetched
  <2> QED
    BY <2>3, <2>4, <2>8 DEF FetchedInv
<1> QED
  BY <1>2, <1>3, <1>4 DEF Responds

\* A workflow that ends takes back nothing of what had ended before.
LEMMA WorkflowEndsFetched ==
  ASSUME FetchedInv, NEW w \in DOMAIN truth, WorkflowEnds(w)
  PROVE  FetchedInv'
<1>1. /\ truth' = [truth EXCEPT ![w] = "completed"]
      /\ UNCHANGED <<page, begun, got, listed, detailed>>
  BY DEF WorkflowEnds
<1>2. TruthAdvances' /\ DOMAIN truth' = DOMAIN truth
  BY <1>1 DEF FetchedInv, TruthAdvances
<1> QED
  BY <1>1, <1>2 DEF FetchedInv, PageTyped, ListIsFetched, DetailsAreFetched, NoOlder

-----------------------------------------------------------------------------
(* The page that is shown.                                                 *)

\* The label of a demo page makes no claim.
LEMMA ShowDemoHonest ==
  ASSUME FetchedInv, ShowDemo
  PROVE  LabelIsHonest' /\ NotStale'
BY DEF ShowDemo, Done, LabelIsHonest, NotStale

\* What the pages with a list show.
LEMMA ShowListHonest ==
  ASSUME FetchedInv, ShowList
  PROVE  LabelIsHonest' /\ NotStale'
<1> DEFINE failed == IF page.kind = "overview" THEN Newest \ DOMAIN detailed ELSE {}
<1>1. page.mode = "live" /\ page.kind \in {"overview", "list"}
  BY DEF ShowList, FetchedInv, PageTyped
<1>2. /\ UNCHANGED <<page, truth, begun, tries, got, listed, detailed>>
      /\ UNCHANGED <<First, Newest>>
  BY DEF ShowList, Done, First, Newest
<1>3. CASE got[List] # "ok"
  <2>1. result' = [state |-> "unavailable", shown |-> <<>>, failures |-> 0]
    BY <1>3 DEF ShowList, Result
  <2>2. /\ result'.state = "unavailable" /\ DOMAIN result'.shown = {}
        /\ result'.failures = Cardinality({})
    BY <2>1, FS_EmptySet
  <2> QED
    BY <1>1, <1>2, <1>3, <2>2 DEF LabelIsHonest, NotStale
<1>4. CASE got[List] = "ok"
  <2>1. result' = [state |-> IF Newest = {} THEN "empty"
                             ELSE IF failed = {} THEN "populated" ELSE "partial",
                   shown |-> Hydrated, failures |-> Cardinality(failed)]
    BY <1>4 DEF ShowList, Result
  <2>2. /\ result'.state = IF Newest = {} THEN "empty"
                           ELSE IF failed = {} THEN "populated" ELSE "partial"
        /\ DOMAIN result'.shown = Newest
        /\ \A w \in Newest : result'.shown[w] = IF w \in DOMAIN detailed THEN detailed[w]
                                                ELSE listed[w]
        /\ result'.failures = Cardinality(failed)
    BY <2>1 DEF Hydrated
  <2>3. Newest \subseteq DOMAIN listed /\ DOMAIN listed = DOMAIN truth
    BY <1>4 DEF Newest, FetchedInv, ListIsFetched
  <2>4. failed = IF page.kind = "list" THEN {} ELSE Newest \ DOMAIN detailed
    BY <1>1
  <2>5. failed \subseteq Newest
    OBVIOUS
  <2>6. page.kind # "workflow" /\ First = List
    BY <1>1 DEF First
  <2> HIDE DEF failed
  <2>7. LabelIsHonest'
    BY <1>1, <1>2, <1>4, <2>2, <2>3, <2>4, <2>5, <2>6 DEF LabelIsHonest
  <2>8. NotStale'
    BY <1>2, <2>2, <2>3 DEF NotStale, NoOlder, FetchedInv, ListIsFetched, DetailsAreFetched
  <2> QED
    BY <2>7, <2>8
<1> QED
  BY <1>3, <1>4

\* What the page of one workflow shows.
LEMMA ShowWorkflowHonest ==
  ASSUME FetchedInv, ShowWorkflow
  PROVE  LabelIsHonest' /\ NotStale'
<1>1. page.mode = "live" /\ page.kind = "workflow" /\ page.id \in Workflows
  BY DEF ShowWorkflow, FetchedInv, PageTyped
<1>2. /\ UNCHANGED <<page, truth, begun, tries, got, listed, detailed>>
      /\ UNCHANGED First /\ First = page.id
  BY <1>1 DEF ShowWorkflow, Done, First
<1>3. CASE got[page.id] = "ok"
  <2>1. result' = [state |-> "populated", shown |-> detailed, failures |-> 0]
    BY <1>3 DEF ShowWorkflow, Result
  <2>2. DOMAIN detailed = {page.id} /\ DOMAIN detailed \subseteq DOMAIN truth
    BY <1>1, <1>3 DEF FetchedInv, DetailsAreFetched
  <2>3. /\ result'.state = "populated" /\ result'.shown = detailed
        /\ result'.failures = Cardinality({})
    BY <2>1, FS_EmptySet
  <2> QED
    BY <1>1, <1>2, <2>2, <2>3 DEF LabelIsHonest, NotStale, FetchedInv, DetailsAreFetched, NoOlder
<1>4. CASE got[page.id] # "ok"
  <2>1. \/ /\ result' = [state |-> "empty", shown |-> <<>>, failures |-> 0]
           /\ got[page.id] = "not-found"
        \/ result' = [state |-> "unavailable", shown |-> <<>>, failures |-> 0]
    BY <1>4 DEF ShowWorkflow, Result
  <2>2. /\ \/ result'.state = "empty" /\ got[page.id] = "not-found"
           \/ result'.state = "unavailable"
        /\ DOMAIN result'.shown = {} /\ result'.failures = Cardinality({})
    BY <2>1, FS_EmptySet
  <2> QED
    BY <1>1, <1>2, <2>2 DEF LabelIsHonest, NotStale
<1> QED
  BY <1>3, <1>4

\* Every step of a load keeps the invariant.
LEMMA DashboardStep == DashboardInv /\ [Next]_vars => DashboardInv'
<1> SUFFICES ASSUME DashboardInv, [Next]_vars PROVE DashboardInv'
  OBVIOUS
<1>1. FetchedInv
  BY DEF DashboardInv
<1>2. ASSUME result = Loading, UNCHANGED result PROVE LabelIsHonest' /\ NotStale'
  BY <1>2 DEF LabelIsHonest, NotStale, Loading
<1>3. ASSUME NEW f \in Fetches, Throws(f) PROVE DashboardInv'
  BY <1>1, <1>2, <1>3, ThrowsFetched DEF Throws, InProgress, DashboardInv
<1>4. ASSUME NEW f \in Fetches, Responds(f) PROVE DashboardInv'
  BY <1>1, <1>2, <1>4, RespondsFetched DEF Responds, InProgress, DashboardInv
<1>5. ASSUME NEW w \in DOMAIN truth, WorkflowEnds(w) PROVE DashboardInv'
  BY <1>1, <1>2, <1>5, WorkflowEndsFetched DEF WorkflowEnds, DashboardInv
<1>6. CASE Show
  <2>1. UNCHANGED <<page, truth, begun, got, listed, detailed>>
    BY <1>6 DEF Show, ShowDemo, ShowList, ShowWorkflow, Done
  <2>2. FetchedInv'
    BY <1>1, <2>1 DEF FetchedInv, PageTyped, TruthAdvances, ListIsFetched, DetailsAreFetched,
                      NoOlder
  <2> QED
    BY <1>1, <1>6, <2>2, ShowDemoHonest, ShowListHonest, ShowWorkflowHonest DEF Show, DashboardInv
<1>7. CASE UNCHANGED vars
  BY <1>7 DEF vars, DashboardInv, FetchedInv, PageTyped, TruthAdvances, ListIsFetched,
              DetailsAreFetched, NoOlder, LabelIsHonest, NotStale, Loading, First, Newest
<1> QED
  BY <1>3, <1>4, <1>5, <1>6, <1>7 DEF Next

\* The invariant holds throughout a load.
LEMMA DashboardAlways == Spec => []DashboardInv
BY DashboardInit, DashboardStep, PTL DEF Spec

\* For any number of workflows, whatever fetches fail and in whatever order
\* the others come in: the label of a live page says what stands behind it.
THEOREM LabelsAreHonest == Spec => []LabelIsHonest
<1>1. DashboardInv => LabelIsHonest
  BY DEF DashboardInv
<1> QED
  BY <1>1, DashboardAlways, PTL

\* No page shows a workflow running that had ended when the load began,
\* although its list and its details are of different moments.
THEOREM PagesAreNotStale == Spec => []NotStale
<1>1. DashboardInv => NotStale
  BY DEF DashboardInv
<1> QED
  BY <1>1, DashboardAlways, PTL
=============================================================================
