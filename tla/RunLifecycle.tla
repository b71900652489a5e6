---------------------------- MODULE RunLifecycle ----------------------------
(***************************************************************************)
(* A user request, its run and the run's workflow execution, changed by    *)
(* concurrent transactions of API clients and workers.  The execution is   *)
(* the source of truth; synchronize_execution_lifecycle projects it to its *)
(* parents inside the same transaction (ADR 0020).                         *)
(*                                                                         *)
(* A transaction reads, takes its row locks one by one in the order of its *)
(* statements, and commits or rolls back.  Uncommitted writes are seen by  *)
(* nobody, so they happen at commit.  The foreign key of an inserted       *)
(* execution locks the run row like the FOR UPDATE that follows it.        *)
(*                                                                         *)
(* Run carries a version column: writing a run loaded at another version   *)
(* raises StaleDataError.  `stale` is the set of clients for which this    *)
(* would happen, so that versions need no bound.  Only start loads its run *)
(* before locking it, and keeps the loaded attributes (identity map).      *)
(***************************************************************************)
EXTENDS Sequences

CONSTANT Clients    \* API clients and workers, one transaction at a time each

VARIABLES
    request,    \* UserRequest.status
    run,        \* Run.status
    execution,  \* WorkflowExecution.status, "none" before it is inserted
    tx,         \* the open transaction of every client
    stale       \* starting clients whose loaded run version is out of date

vars == <<request, run, execution, tx, stale>>

Workflow == INSTANCE WorkflowStatus
    WITH status <- IF execution = "none" THEN "pending" ELSE execution

Open == {"running", "awaiting_approval"}
Finished == {"succeeded", "failed"}

RunStatuses ==
    {"queued", "planning", "awaiting_approval", "ready", "running",
     "verifying", "succeeded", "failed", "cancelled"}
TerminalRun == {"succeeded", "failed", "cancelled"}
RequestStatuses == {"active", "completed", "cancelled"}
Executions == Open \union Finished \union {"none", "cancelled"}

(* ALLOWED_RUN_TRANSITIONS *)
AllowedRunTransitions ==
    [queued            |-> {"planning", "running", "awaiting_approval"} \union TerminalRun,
     planning          |-> {"awaiting_approval", "ready", "running"} \union TerminalRun,
     awaiting_approval |-> {"ready", "running"} \union TerminalRun,
     ready             |-> {"running", "awaiting_approval"} \union TerminalRun,
     running           |-> {"awaiting_approval", "verifying"} \union TerminalRun,
     verifying         |-> {"running", "awaiting_approval"} \union TerminalRun,
     succeeded         |-> {},
     failed            |-> {},
     cancelled         |-> {}]

Operations == {"start", "approve_run", "cancel_run", "cancel_workflow", "advance"}
Rows == {"execution", "run", "request"}

(* The committed rows, and what a session that loaded nothing knows.       *)
Database == [execution |-> execution, run |-> run, request |-> request]
Nothing == [execution |-> "none", run |-> "none", request |-> "none"]

Loaded == [execution : Executions, run : RunStatuses \union {"none"},
           request : RequestStatuses \union {"none"}]

Transactions ==
    [op : Operations \union {"none"}, wants : Seq(Rows), holds : SUBSET Rows,
     seen : Loaded]

NoTransaction == [op |-> "none", wants |-> <<>>, holds |-> {}, seen |-> Nothing]

(* The rows hold statuses of their enumerations, in particular the run one *)
(* that synchronize_execution_lifecycle may project to it.                 *)
TypeOK ==
    /\ request \in RequestStatuses
    /\ run \in RunStatuses
    /\ execution \in Executions
    /\ tx \in [Clients -> Transactions]
    /\ stale \subseteq Clients

(* After create_request; `planning` is kept for stored runs (ADR 0020). *)
Init ==
    /\ request = "active"
    /\ run \in {"queued", "planning"}
    /\ execution = "none"
    /\ tx = [c \in Clients |-> NoTransaction]
    /\ stale = {}

-----------------------------------------------------------------------------
(* The rows an operation locks, in the order of its statements.            *)
RunFirst(op) ==  \* mutant: cancel_run locks the run before the execution
    CASE op = "start"       -> <<"run", "request">>
      [] op = "approve_run" -> <<"run">>
      [] op = "cancel_run"  -> IF execution = "none" THEN <<"run", "request">>
                               ELSE <<"run", "execution", "request">>
      [] OTHER              -> <<"execution", "run", "request">>

LockOrder(op) ==
    CASE op = "start"       -> <<"run", "request">>
      [] op = "approve_run" -> <<"run">>
      [] op = "cancel_run"  -> IF execution = "none" THEN <<"run", "request">>
                               ELSE <<"execution", "run", "request">>
      [] OTHER              -> <<"execution", "run", "request">>

(* The statements before the first lock: start finds no execution of the   *)
(* run and loads run and request; operations on a workflow find theirs.    *)
Begin(c, op) ==
    /\ tx[c] = NoTransaction
    /\ op = "start" => execution = "none"
    /\ op \in {"cancel_workflow", "advance"} => execution # "none"
    /\ tx' = [tx EXCEPT ![c] =
                [op |-> op, wants |-> LockOrder(op), holds |-> {},
                 seen |-> IF op = "start" THEN Database ELSE Nothing]]
    /\ UNCHANGED <<request, run, execution, stale>>

(* SELECT ... FOR UPDATE: a row already in the session is not refreshed.   *)
Acquire(c) ==
    /\ tx[c].wants # <<>>
    /\ LET row == Head(tx[c].wants) IN
          /\ \A d \in Clients : row \notin tx[d].holds
          /\ tx' = [tx EXCEPT ![c] =
                [op    |-> tx[c].op,
                 wants |-> Tail(tx[c].wants),
                 holds |-> tx[c].holds \union {row},
                 seen  |-> IF tx[c].op = "start" THEN tx[c].seen
                           ELSE [tx[c].seen EXCEPT ![row] = Database[row]]]]
    /\ UNCHANGED <<request, run, execution, stale>>

End(c) == tx' = [tx EXCEPT ![c] = NoTransaction]

(* An exception or a lost connection: nothing is written, locks are freed. *)
Rollback(c) ==
    /\ tx[c] # NoTransaction
    /\ End(c)
    /\ stale' = stale \ {c}
    /\ UNCHANGED <<request, run, execution>>

-----------------------------------------------------------------------------
(* Writes of a commit.                                                     *)

Starters == {d \in Clients : tx[d].op = "start"}

(* Run.transition_to and save. *)
WriteRunUnversioned(c, target) ==  \* mutant: no version column
    /\ target \in AllowedRunTransitions[tx[c].seen.run]
    /\ run' = target
    /\ stale' = Starters \ {c}

WriteRun(c, target) ==
    /\ target \in AllowedRunTransitions[tx[c].seen.run]
    /\ c \notin stale
    /\ run' = target
    /\ stale' = Starters \ {c}

(* synchronize_execution_lifecycle.  RUN_STATUS_BY_WORKFLOW is the identity *)
(* on every status a committed execution can have.                         *)
SynchronizeRunOnly(c) ==  \* mutant: the request is left open by a cancel
    /\ \/ execution' = tx[c].seen.run /\ run' = run /\ stale' = stale \ {c}
       \/ execution' # tx[c].seen.run /\ WriteRun(c, execution')
    /\ request' = IF execution' = "succeeded" /\ tx[c].seen.request = "active"
                  THEN "completed" ELSE request

SynchronizeSameName(c) ==  \* mutant: the run's status is copied to the request
    /\ \/ execution' = tx[c].seen.run /\ run' = run /\ stale' = stale \ {c}
       \/ execution' # tx[c].seen.run /\ WriteRun(c, execution')
    /\ request' = IF execution' \in {"succeeded", "cancelled"} THEN execution' ELSE request

Synchronize(c) ==
    /\ \/ execution' = tx[c].seen.run /\ run' = run /\ stale' = stale \ {c}
       \/ execution' # tx[c].seen.run /\ WriteRun(c, execution')
    /\ request' =
          CASE execution' = "succeeded" /\ tx[c].seen.request = "active" -> "completed"
            [] execution' = "cancelled" /\ tx[c].seen.request = "active" -> "cancelled"
            [] OTHER -> request

(* start: create_execution inserts the execution (its run_id is unique).   *)
CommitStart(c) ==
    /\ tx[c].op = "start"
    /\ execution = "none"
    /\ execution' \in Open \union Finished
    /\ Synchronize(c)

(* approve_run looks for an execution after it has locked the run.         *)
ApproveAnyRun(c) ==  \* mutant: the execution is not looked for
    /\ tx[c].op = "approve_run"
    /\ WriteRun(c, "ready")
    /\ UNCHANGED <<request, execution>>

CommitApproveRun(c) ==
    /\ tx[c].op = "approve_run"
    /\ execution = "none"
    /\ WriteRun(c, "ready")
    /\ UNCHANGED <<request, execution>>

(* cancel_run that found no execution: only the parents are cancelled.     *)
CommitCancelRunAlone(c) ==
    /\ tx[c].op = "cancel_run" /\ "execution" \notin tx[c].holds
    /\ tx[c].seen.request = "active"
    /\ WriteRun(c, "cancelled")
    /\ request' = "cancelled"
    /\ UNCHANGED execution

(* cancel_run that found one, and WorkflowService.cancel.                  *)
CancelEndedToo(c) ==  \* mutant: no check that the execution is open
    /\ tx[c].op \in {"cancel_run", "cancel_workflow"}
    /\ "execution" \in tx[c].holds
    /\ execution' = "cancelled"
    /\ UNCHANGED <<run, request>>
    /\ stale' = stale \ {c}

CommitCancelExecution(c) ==
    /\ tx[c].op \in {"cancel_run", "cancel_workflow"}
    /\ "execution" \in tx[c].holds
    /\ tx[c].seen.execution \in Open
    /\ execution' = "cancelled"
    /\ Synchronize(c)

(* complete, fail, recover_expired, complete_task, fail_task,              *)
(* resolve_approval: any step of WorkflowEngine, seen by its status.       *)
AdvanceUnsynchronized(c) ==  \* mutant: the parents are not synchronized
    /\ tx[c].op = "advance"
    /\ tx[c].seen.execution \in Open
    /\ execution' \in Open \union Finished
    /\ stale' = stale \ {c}
    /\ UNCHANGED <<request, run>>

CommitAdvance(c) ==
    /\ tx[c].op = "advance"
    /\ tx[c].seen.execution \in Open
    /\ execution' \in Open \union Finished
    /\ Synchronize(c)

Commit(c) ==
    /\ tx[c].wants = <<>>
    /\ \/ CommitStart(c)
       \/ CommitApproveRun(c)
       \/ CommitCancelRunAlone(c)
       \/ CommitCancelExecution(c)
       \/ CommitAdvance(c)
    /\ End(c)

Next ==
    \E c \in Clients :
        \/ \E op \in Operations : Begin(c, op)
        \/ Acquire(c)
        \/ Commit(c)
        \/ Rollback(c)

Spec == Init /\ [][Next]_vars

(* PostgreSQL queues the waiters of a row, so a lock that keeps becoming   *)
(* free is granted (strong fairness); an operation that holds its locks    *)
(* commits or raises.  Nobody has to begin anything.                       *)
FairSpec ==
    /\ Spec
    /\ \A c \in Clients :
          /\ SF_vars(Acquire(c))
          /\ WF_vars(tx[c].wants = <<>> /\ (Commit(c) \/ Rollback(c)))

-----------------------------------------------------------------------------
(* The request is completed exactly when its run succeeded and cancelled   *)
(* exactly when its run was, whatever transactions raced: the request row  *)
(* has no version column of its own (ADR 0020).                            *)
RequestFollowsRun ==
    /\ request = "completed" <=> run = "succeeded"
    /\ request = "cancelled" <=> run = "cancelled"

(* The run shows the status of its execution, or was cancelled beside it.  *)
(* In particular approve_run never overrides a workflow's own approval.    *)
ProjectionUnlessCancelled ==
    execution # "none" => run = execution \/ run = "cancelled"

(* Together: the three rows of a request agree after every commit.         *)
HierarchyAgrees == RequestFollowsRun /\ ProjectionUnlessCancelled

(* README, ORCH-023: "cancellation from either Run or Workflow closing the *)
(* complete active hierarchy".                                             *)
CancelClosesHierarchy ==
    run = "cancelled" => execution \in {"none", "cancelled"}

(* Once a run is cancelled no result of its workflow is committed: the     *)
(* execution can only be cancelled too.                                    *)
CancelledRunStops ==
    [][(run = "cancelled") => execution' \in {execution, "cancelled"}]_vars

(* A run that ended never changes again. *)
TerminalRunFinal ==
    [][(run \in TerminalRun) => run' = run /\ request' = request]_vars

(* The execution of a run keeps the promise of WorkflowStatus: it is       *)
(* started once, whoever else starts it, and ends once.                    *)
ExecutionKeepsPromise == Workflow!Spec

(* Together, what no transaction undoes: an execution keeps its lifecycle, *)
(* an ended run and its request stay, a cancelled run lets no result in.   *)
PromisesKept == ExecutionKeepsPromise /\ CancelledRunStops /\ TerminalRunFinal

(* The lock order execution, run, request (ADR 0020) leaves no transaction *)
(* waiting for ever.                                                       *)
TransactionsFinish == \A c \in Clients : tx[c] # NoTransaction ~> tx[c] = NoTransaction
=============================================================================
