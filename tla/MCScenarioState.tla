-------------------------- MODULE MCScenarioState --------------------------
(* ScenarioState on small instances: two threads, in one process or in two     *)
(* (the backend and the publisher).                                           *)
EXTENDS ScenarioState

CONSTANTS t1, t2, backend, publisher

OneProcess == [t \in Threads |-> publisher]
TwoProcesses == [t \in Threads |-> IF t = t1 THEN backend ELSE publisher]

=============================================================================
