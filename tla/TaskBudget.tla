----------------------------- MODULE TaskBudget -----------------------------
(***************************************************************************)
(* A project's budget account and the workers that spend it                *)
(* (application.budget_services, budgets.models and worker.runtime).       *)
(*                                                                         *)
(* Tasks are visits of task nodes of one workflow execution, each with the *)
(* stable idempotency key its reservation is stored under.  Amounts are    *)
(* whole micro-dollars.  Every service call is one transaction: the budget *)
(* calls serialise on the account row (FOR UPDATE), the dispatch calls on  *)
(* the execution row, so a call is one step and a worker's state between   *)
(* two calls is local to its process.                                      *)
(***************************************************************************)
EXTENDS Integers, FiniteSets

CONSTANTS
    Tasks,        \* task visits of the run (their idempotency keys)
    Workers,      \* worker processes
    NoTask,       \* a worker without a claim
    Estimate,     \* Estimate[t]: estimated_cost_usd of t's model selection
    Costs,        \* actual costs an executor may report
    NoUsage,      \* a result without usage, a reservation without usage record
    Limits,       \* limits an operator may configure
    MaxAttempts   \* attempts a task node has

ASSUME BudgetAssumption ==
    /\ Estimate \in [Tasks -> Nat] /\ Costs \subseteq Nat /\ Limits \subseteq Nat
    /\ NoUsage \notin Nat /\ NoTask \notin Tasks
    /\ MaxAttempts \in Nat \ {0}

VARIABLES
    limit, reserved, spent,  \* the account: limit_usd, reserved_usd, spent_usd
    reservation,             \* status of each task's reservation, "none" before it exists
    usage,                   \* cost of each task's usage record, or NoUsage
    run,                     \* "running", or how the workflow execution ended
    node,                    \* status of each task node; "waiting" is PENDING or READY
    attempt,                 \* attempt_count, which also names the lease of the attempt
    task, lease,             \* the claim each worker holds: its task and its lease
    phase,                   \* where each worker is in run_once
    cost                     \* the usage the worker's executor reported

account == <<limit, reserved, spent>>
ledger == <<reservation, usage>>
execution == <<run, node, attempt>>
worker == <<task, lease, phase, cost>>
vars == <<account, ledger, execution, worker>>

ReservationStatuses == {"none", "reserved", "settled", "forfeited", "released"}
Runs == {"running", "ended", "cancelled"}
NodeStatuses == {"waiting", "running", "succeeded", "failed", "cancelled"}
Phases == {"idle", "claimed", "executing", "settling", "completing",
           "failing", "failing_unreserved", "forfeiting"}

Init ==
    /\ limit \in Limits /\ reserved = 0 /\ spent = 0
    /\ reservation = [t \in Tasks |-> "none"] /\ usage = [t \in Tasks |-> NoUsage]
    /\ run = "running" /\ node = [t \in Tasks |-> "waiting"] /\ attempt = [t \in Tasks |-> 0]
    /\ task = [w \in Workers |-> NoTask] /\ lease = [w \in Workers |-> 0]
    /\ phase = [w \in Workers |-> "idle"] /\ cost = [w \in Workers |-> NoUsage]

-----------------------------------------------------------------------------
(* The account.                                                            *)

\* BudgetService.configure of an existing account: set_limit.
Configure(l) ==
    /\ l # limit /\ l >= reserved + spent
    /\ limit' = l
    /\ UNCHANGED <<reserved, spent, ledger, execution, worker>>

\* Mutant: only what is spent counts against the limit.
AvailableBeforeReservations == limit - spent

Available == limit - reserved - spent

\* Mutant: the amount reserved is not given back to the account.
FinalizeKeepsReserved(t, s, c) ==
    /\ spent' = spent + c
    /\ reservation' = [reservation EXCEPT ![t] = s]
    /\ usage' = [usage EXCEPT ![t] = c]
    /\ UNCHANGED <<limit, reserved>>

\* BudgetReservation._finalize with the account's settle and the usage record.
FinalizeReservation(t, s, c) ==
    /\ reserved' = reserved - Estimate[t] /\ spent' = spent + c
    /\ reservation' = [reservation EXCEPT ![t] = s]
    /\ usage' = [usage EXCEPT ![t] = c]
    /\ limit' = limit

-----------------------------------------------------------------------------
(* The worker.                                                             *)

\* Worker w goes to phase p and keeps its claim.
Goto(w, p) ==
    phase' = [phase EXCEPT ![w] = p] /\ UNCHANGED <<task, lease>>

\* run_once returned, or the process died and was started anew.
Idle(w) ==
    /\ task' = [task EXCEPT ![w] = NoTask] /\ lease' = [lease EXCEPT ![w] = 0]
    /\ phase' = [phase EXCEPT ![w] = "idle"] /\ cost' = [cost EXCEPT ![w] = NoUsage]

\* TaskDispatchService.claim_next.
ClaimNext(w, t) ==
    /\ phase[w] = "idle" /\ run = "running" /\ node[t] = "waiting"
    /\ node' = [node EXCEPT ![t] = "running"]
    /\ attempt' = [attempt EXCEPT ![t] = attempt[t] + 1]
    /\ task' = [task EXCEPT ![w] = t] /\ lease' = [lease EXCEPT ![w] = attempt[t] + 1]
    /\ phase' = [phase EXCEPT ![w] = "claimed"]
    /\ UNCHANGED <<run, account, ledger, cost>>

\* The skills cannot be materialised: the attempt fails before it reserves.
MaterializeFails(w) ==
    /\ phase[w] = "claimed" /\ Goto(w, "failing_unreserved")
    /\ UNCHANGED <<account, ledger, execution, cost>>

\* BudgetService.reserve: once per task visit, however often it is attempted.
Reserve(w) ==
    LET t == task[w] IN
    /\ phase[w] = "claimed"
    /\ \/ /\ reservation[t] # "none" /\ Goto(w, "executing")
          /\ UNCHANGED <<account, ledger>>
       \/ /\ reservation[t] = "none" /\ Estimate[t] <= Available
          /\ reserved' = reserved + Estimate[t]
          /\ reservation' = [reservation EXCEPT ![t] = "reserved"]
          /\ Goto(w, "executing")
          /\ UNCHANGED <<limit, spent, usage>>
       \/ /\ reservation[t] = "none" /\ Estimate[t] > Available
          /\ Goto(w, "failing_unreserved")
          /\ UNCHANGED <<account, ledger>>
    /\ UNCHANGED <<execution, cost>>

\* _execute_with_lease: a result, with or without usage, or an exception
\* (executor error, timeout, lost heartbeat, requested stop).
Execute(w) ==
    /\ phase[w] = "executing"
    /\ \/ /\ Goto(w, "settling")
          /\ \E c \in Costs \cup {NoUsage} : cost' = [cost EXCEPT ![w] = c]
       \/ /\ Goto(w, "failing") /\ cost' = cost
    /\ UNCHANGED <<account, ledger, execution>>

\* Mutant: a result without usage passes.
SettleWithoutUsage(w) ==
    LET t == task[w] IN
    /\ phase[w] = "settling" /\ Goto(w, "completing")
    /\ \/ cost[w] # NoUsage /\ reservation[t] = "reserved" /\ FinalizeReservation(t, "settled", cost[w])
       \/ (cost[w] = NoUsage \/ reservation[t] # "reserved") /\ UNCHANGED <<account, ledger>>
    /\ UNCHANGED <<execution, cost>>

\* BudgetService.settle: a missing usage is refused, a stored usage record is
\* returned as it is, a reservation released meanwhile raises.
Settle(w) ==
    LET t == task[w] IN
    /\ phase[w] = "settling"
    /\ \/ /\ cost[w] # NoUsage /\ reservation[t] = "reserved"
          /\ FinalizeReservation(t, "settled", cost[w])
          /\ Goto(w, "completing")
       \/ /\ cost[w] # NoUsage /\ usage[t] # NoUsage
          /\ Goto(w, "completing")
          /\ UNCHANGED <<account, ledger>>
       \/ /\ (cost[w] = NoUsage \/ reservation[t] = "released")
          /\ Goto(w, "failing")
          /\ UNCHANGED <<account, ledger>>
    /\ UNCHANGED <<execution, cost>>

\* The engine accepts a completion or a failure only under the node's lease.
OwnsLease(w) ==
    /\ run = "running" /\ node[task[w]] = "running" /\ attempt[task[w]] = lease[w]

\* Task t ends as s and the workflow with it, which cancels the active tasks
\* (a task not activated yet stays PENDING; it cannot be claimed either way).
EndWorkflow(t, s) ==
    /\ run' = "ended"
    /\ node' = [n \in Tasks |-> IF n = t THEN s
                                ELSE IF node[n] \in {"waiting", "running"} THEN "cancelled"
                                ELSE node[n]]

\* TaskDispatchService.complete: the workflow goes on, or routing ends it.
Complete(w) ==
    /\ phase[w] = "completing" /\ OwnsLease(w)
    /\ \/ node' = [node EXCEPT ![task[w]] = "succeeded"] /\ run' = run
       \/ EndWorkflow(task[w], "succeeded")
    /\ Idle(w)
    /\ UNCHANGED <<attempt, account, ledger>>

\* Mutant: one attempt too many.
FailAttemptLate(t) ==
    \/ /\ attempt[t] <= MaxAttempts
       /\ node' = [node EXCEPT ![t] = "waiting"] /\ run' = run
    \/ attempt[t] > MaxAttempts /\ EndWorkflow(t, "failed")

\* fail_task and expire_task: another attempt, or the failure of the workflow.
FailAttempt(t) ==
    \/ /\ attempt[t] < MaxAttempts
       /\ node' = [node EXCEPT ![t] = "waiting"] /\ run' = run
    \/ attempt[t] >= MaxAttempts /\ EndWorkflow(t, "failed")

\* Mutant: every failed attempt forfeits, not only the last.
FailForfeitsEveryAttempt(w) ==
    /\ phase[w] \in {"failing", "failing_unreserved"} /\ OwnsLease(w)
    /\ FailAttempt(task[w])
    /\ \/ phase[w] = "failing" /\ Goto(w, "forfeiting") /\ cost' = cost
       \/ phase[w] = "failing_unreserved" /\ Idle(w)
    /\ UNCHANGED <<attempt, account, ledger>>

\* WorkerRuntime._fail: dispatch.fail, then forfeit if that was the last attempt
\* (which is nothing for an attempt that failed before its reservation).
Fail(w) ==
    /\ phase[w] \in {"failing", "failing_unreserved"} /\ OwnsLease(w)
    /\ FailAttempt(task[w])
    /\ \/ /\ node'[task[w]] = "failed" /\ phase[w] = "failing"
          /\ Goto(w, "forfeiting") /\ cost' = cost
       \/ /\ (node'[task[w]] # "failed" \/ phase[w] = "failing_unreserved")
          /\ Idle(w)
    /\ UNCHANGED <<attempt, account, ledger>>

\* A report under a lease that expired or went to another attempt is refused,
\* and the error leaves run_once before anything is forfeited.
Rejected(w) ==
    /\ phase[w] \in {"completing", "failing", "failing_unreserved"} /\ Idle(w)
    /\ UNCHANGED <<account, ledger, execution>>

\* Mutant: the stored reservation and usage record are not looked at.
ForfeitUnchecked(w) ==
    /\ phase[w] = "forfeiting" /\ Idle(w)
    /\ FinalizeReservation(task[w], "forfeited", Estimate[task[w]])
    /\ UNCHANGED execution

\* BudgetService.forfeit.
Forfeit(w) ==
    LET t == task[w] IN
    /\ phase[w] = "forfeiting" /\ Idle(w)
    /\ \/ reservation[t] = "reserved" /\ FinalizeReservation(t, "forfeited", Estimate[t])
       \/ reservation[t] # "reserved" /\ UNCHANGED <<account, ledger>>
    /\ UNCHANGED <<execution>>

\* The worker process dies between two calls and is started anew.
Crash(w) ==
    /\ phase[w] # "idle" /\ Idle(w)
    /\ UNCHANGED <<account, ledger, execution>>

-----------------------------------------------------------------------------
(* Recovery and cancellation.                                              *)

\* TaskDispatchService.recover_expired: the lease of a crashed or stalled worker.
RecoverExpired(t) ==
    /\ run = "running" /\ node[t] = "running" /\ FailAttempt(t)
    /\ UNCHANGED <<attempt, account, ledger, worker>>

Active == {t \in Tasks : reservation[t] = "reserved"}

\* The sum of the amounts f over the tasks S, counted micro-dollar by micro-dollar.
Units(f, S) == UNION {{t} \X (1 .. f[t]) : t \in S}
Total(f, S) == Cardinality(Units(f, S))

\* cancel_run and WorkflowService.cancel with release_run_reservations.
CancelRun ==
    /\ run = "running" /\ run' = "cancelled"
    /\ node' = [t \in Tasks |-> IF node[t] \in {"waiting", "running"} THEN "cancelled" ELSE node[t]]
    /\ reserved' = reserved - Total(Estimate, Active)
    /\ reservation' = [t \in Tasks |-> IF t \in Active THEN "released" ELSE reservation[t]]
    /\ UNCHANGED <<limit, spent, usage, attempt, worker>>

-----------------------------------------------------------------------------
WorkerStep(w) ==
    \/ \E t \in Tasks : ClaimNext(w, t)
    \/ MaterializeFails(w) \/ Reserve(w) \/ Execute(w) \/ Settle(w)
    \/ Complete(w) \/ Fail(w) \/ Rejected(w) \/ Forfeit(w) \/ Crash(w)

Next ==
    \/ \E w \in Workers : WorkerStep(w)
    \/ \E t \in Tasks : RecoverExpired(t)
    \/ CancelRun
    \/ \E l \in Limits : Configure(l)

Spec == Init /\ [][Next]_vars

-----------------------------------------------------------------------------
(* Properties.                                                             *)

\* The account, the ledgers, the task nodes and the workers have their types,
\* and no task is attempted more often than its node allows.
TypeOK ==
    /\ limit \in Nat /\ reserved \in Int /\ spent \in Nat
    /\ reservation \in [Tasks -> ReservationStatuses]
    /\ usage \in [Tasks -> Nat \cup {NoUsage}]
    /\ run \in Runs /\ node \in [Tasks -> NodeStatuses]
    /\ attempt \in [Tasks -> 0 .. MaxAttempts]
    /\ task \in [Workers -> Tasks \cup {NoTask}] /\ lease \in [Workers -> 0 .. MaxAttempts]
    /\ phase \in [Workers -> Phases] /\ cost \in [Workers -> Nat \cup {NoUsage}]
    /\ \A w \in Workers : phase[w] # "idle" => task[w] \in Tasks

Used == {t \in Tasks : usage[t] # NoUsage}

\* The two balances of the account are the two ledgers: reserved_usd is what
\* the open reservations hold and spent_usd what the usage records add up to,
\* over every retry, late settlement, forfeit and cancellation.
Conservation ==
    /\ reserved = Total(Estimate, Active)
    /\ spent = Total(usage, Used)

Overrun(t) == IF usage[t] > Estimate[t] THEN usage[t] - Estimate[t] ELSE 0

Overruns == [t \in Tasks |-> IF t \in Used THEN Overrun(t) ELSE 0]

\* Concurrent workers never commit more than the limit together: what is
\* reserved and spent exceeds the limit at most by what finished executors
\* cost above their estimates.
WithinLimit ==
    reserved + spent <= limit + Total(Overruns, Used)

\* Together: the account adds up and is never overcommitted.
AccountSound == Conservation /\ WithinLimit

\* A reservation has a usage record exactly when it was settled or forfeited,
\* and only a task that failed for good is forfeited: an attempt that is still
\* to be made, or a late worker, never meets a reservation given up for lost.
UsageExplained ==
    \A t \in Tasks :
        /\ (reservation[t] \in {"settled", "forfeited"}) <=> (usage[t] # NoUsage)
        /\ reservation[t] = "forfeited" => node[t] = "failed"

\* A task completes only after its usage was charged, whichever attempt
\* charged it and however the workers of its attempts overlapped.
CompletedIsCharged ==
    \A t \in Tasks : node[t] = "succeeded" => reservation[t] = "settled"

\* Together: every charge has its reason and every completed task its charge.
ChargesExplained == UsageExplained /\ CompletedIsCharged

\* A reservation that was settled, forfeited or released stays so and its
\* usage record never changes: no retry or late worker is charged again.
LedgerFinal ==
    [][\A t \in Tasks :
        reservation[t] \in {"settled", "forfeited", "released"} =>
            reservation'[t] = reservation[t] /\ usage'[t] = usage[t]]_vars

Abandoned(t) == \A w \in Workers : task[w] # t

\* ADR 0009, decision 6: the reservation of a task that failed for good is
\* charged in full when its usage is unknown; nothing stays reserved for it
\* once no worker is on it.
FinalFailureCharged ==
    \A t \in Tasks : (node[t] = "failed" /\ Abandoned(t)) => reservation[t] # "reserved"
=============================================================================
