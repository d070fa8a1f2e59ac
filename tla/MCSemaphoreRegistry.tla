------------------------ MODULE MCSemaphoreRegistry ------------------------
(* Instances of SemaphoreRegistry for TLC. *)
EXTENDS SemaphoreRegistry

CONSTANTS p1, p2, t1, t2, t3, t4, k1, k2, n1, n2

MCProcesses == {p1, p2}
MCTasks == {t1, t2, t3, t4}
MCProcessOf == [t \in MCTasks |-> IF t \in {t1, t2} THEN p1 ELSE p2]

\* Every task uses k1 (the model), one of them k2 (a tool) inside it.
First == [name |-> n1, key |-> k1]
Second == [name |-> n2, key |-> k2]
MCPlan == [t \in MCTasks |-> IF t = t1 THEN <<First, Second>> ELSE <<First>>]

\* Two models, n1 and n2, of one connection, k1.
MCPlanModels == [t \in MCTasks |->
                    IF t \in {t1, t3} THEN <<First>> ELSE <<[name |-> n2, key |-> k1]>>]
=============================================================================
