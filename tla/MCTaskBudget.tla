---------------------------- MODULE MCTaskBudget ----------------------------
(***************************************************************************)
(* Two tasks with different estimates, two workers, and limits at which    *)
(* one, both or neither of the tasks can be reserved.                      *)
(***************************************************************************)
EXTENDS TaskBudget

CONSTANTS t1, t2, w1, w2

MCTasks == {t1, t2}
MCWorkers == {w1, w2}
MCEstimate == [t \in MCTasks |-> IF t = t1 THEN 2 ELSE 1]
MCCosts == {0, 3}
MCLimits == {2, 3, 6}
=============================================================================
