------------------------------- MODULE MCApi --------------------------------
(* Small instances of Api for TLC.                                         *)
EXTENDS Api, TLC

CONSTANTS t1, t2, c1, d1, test, op, w1, w2, w3

OneWorkflow  == {w1}
SomeFlows    == {w1, w2, w3}
TwoTesters   == {t1, t2}
OnlyT1       == {t1}
SharedFlag   == [t \in Testers |-> test]
OneWorker    == {test}
None         == {}
OneClient    == {c1}
TwoClients   == {c1, d1}
OneDriver    == {d1}
AllNames     == {"a", "b"}
DriverKeys   == <<"d-1", "d-2">>

\* One start, one call by hand, and what a test worker needs.
FewRequests  == [c \in Callers |-> IF c \in Testers THEN 3 ELSE 1]
StartRequests == [c \in Callers |-> IF c \in Clients THEN 2 ELSE IF c \in Testers THEN 1 ELSE 0]

Act(deps, max) == [dependsOn |-> deps, maxAttempts |-> max]
Def(namespace, fault, acts) == [namespace |-> namespace, fault |-> fault, activities |-> acts]

\* One activity, tried twice.
Single       == Def("ns", "none", [a |-> Act({}, 2)])
Orders       == {Single}
SameOrder    == [c \in Clients |-> {[def |-> Single, key |-> "k"]}]

\* Two namespaces, a cycle (which Start accepts), and definitions it refuses:
\* one without activities, one whose activities are at fault.
Refused      == {Def("ns", "incomplete", <<>>), Def("ns", "activities", <<>>)}
Catalogue    == {Single, Def("ms", "none", [a |-> Act({}, 1)]),
                 Def("ns", "none", [a |-> Act({"b"}, 1), b |-> Act({"a"}, 1)])} \cup Refused
AnyOrder     == [c \in Clients |-> {[def |-> Single, key |-> Empty]} \cup
                                   IF c \in Drivers THEN {} ELSE [def : Catalogue, key : {"k"}]]

\* Ids of workflows are taken in any order.
Interchangeable == Permutations(SomeFlows)
=============================================================================
