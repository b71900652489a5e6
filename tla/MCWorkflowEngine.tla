--------------------------- MODULE MCWorkflowEngine ---------------------------
(***************************************************************************)
(* Small workflow definitions for TLC.  A configuration gives the graph    *)
(* constants of WorkflowDefinition the values of one of them.              *)
(***************************************************************************)
EXTENDS WorkflowEngine

CONSTANT none  \* the model value that stands for NoValue

Edge(s, o, t) == [source |-> s, outcome |-> o, target |-> t, condition |-> none]
EdgeIf(s, o, v, t) == [source |-> s, outcome |-> o, target |-> t, condition |-> v]

(* Position of the node keys in alphabetical order. *)
Keys == [a |-> 1, b |-> 2, c |-> 3, done |-> 4, failed |-> 5, fork |-> 6,
         join |-> 7, ok |-> 8, ok2 |-> 9, synth |-> 10]
OrderOf(S) == [n \in S |-> Keys[n]]

(* Three parallel branches.  Branch a works and may end the workflow under *)
(* the others; branch ok approves the same task c, which the second of the *)
(* two to arrive activates again, whatever c is doing by then; branch ok2  *)
(* meets c in a join.  The task behind the join needs the artifact of c.   *)
ParallelNodes == {"fork", "a", "c", "ok", "ok2", "join", "synth", "done", "failed"}
ParallelKind == [fork |-> "fork", a |-> "task", c |-> "task", ok |-> "approval",
                 ok2 |-> "approval", join |-> "join", synth |-> "task",
                 done |-> "terminal", failed |-> "terminal"]
ParallelEdges ==
    {Edge("fork", "success", "a"), Edge("fork", "success", "ok"),
     Edge("fork", "success", "ok2"),
     Edge("a", "success", "c"), Edge("a", "failure", "failed"),
     Edge("ok", "approved", "c"),
     Edge("c", "success", "join"),
     Edge("ok2", "approved", "join"), Edge("ok2", "rejected", "failed"),
     Edge("join", "success", "synth"), Edge("synth", "success", "done")}
ParallelAttempts == [n \in ParallelNodes |-> IF n \in {"a", "c"} THEN 2 ELSE 1]
ParallelVisits == [n \in ParallelNodes |-> IF n = "c" THEN 2 ELSE 1]
ParallelNeeds == [n \in ParallelNodes |-> IF n = "synth" THEN {"c"} ELSE {}]
ParallelTerminal == [n \in ParallelNodes |-> IF n = "failed" THEN "failed" ELSE "succeeded"]
ParallelOrder == OrderOf(ParallelNodes)

(* The bounded repair loop: a builds, b reviews with a conditional edge    *)
(* back to a, then a person approves, or sends the work back once more.    *)
RepairNodes == {"a", "b", "ok", "done", "failed"}
RepairKind == [a |-> "task", b |-> "task", ok |-> "approval",
               done |-> "terminal", failed |-> "terminal"]
RepairEdges ==
    {Edge("a", "success", "b"), Edge("a", "failure", "failed"),
     EdgeIf("b", "success", "pass", "ok"), EdgeIf("b", "success", "redo", "a"),
     Edge("b", "failure", "a"),
     Edge("ok", "approved", "done"), Edge("ok", "rejected", "a")}
RepairAttempts == [n \in RepairNodes |-> IF n = "a" THEN 2 ELSE 1]
RepairVisits == [n \in RepairNodes |-> IF n \in {"a", "b"} THEN 2 ELSE 1]
RepairNeeds == [n \in RepairNodes |-> IF n = "b" THEN {"a"} ELSE {}]
RepairTerminal == [n \in RepairNodes |-> IF n = "failed" THEN "failed" ELSE "succeeded"]
RepairOrder == OrderOf(RepairNodes)

(* A fork/join whose branch a has a task-based repair loop through c. *)
BranchRepairNodes == {"fork", "a", "b", "c", "join", "done"}
BranchRepairKind == [fork |-> "fork", a |-> "task", b |-> "task", c |-> "task",
                     join |-> "join", done |-> "terminal"]
BranchRepairEdges ==
    {Edge("fork", "success", "a"), Edge("fork", "success", "b"),
     Edge("a", "success", "join"), Edge("a", "failure", "c"),
     Edge("c", "success", "a"), Edge("b", "success", "join"),
     Edge("join", "success", "done")}
BranchRepairAttempts == [n \in BranchRepairNodes |-> 1]
BranchRepairVisits == [n \in BranchRepairNodes |-> IF n = "a" THEN 2 ELSE 1]
BranchRepairNeeds == [n \in BranchRepairNodes |-> {}]
BranchRepairTerminal == [n \in BranchRepairNodes |-> "succeeded"]
BranchRepairOrder == OrderOf(BranchRepairNodes)

(* The inputs of these definitions lie on every path, and their joins      *)
(* close the branches of one fork.                                         *)
ASSUME GraphAssumption == InputsCertain /\ JoinsBalanced
=============================================================================
