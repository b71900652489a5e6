------------------------- MODULE ExternalExecution -------------------------
(***************************************************************************)
(* The external run of one task visit: the row that maps the visit's       *)
(* idempotency key to a run of the OpenClaw gateway, and the attempts of   *)
(* the task that share it (external_executions,                            *)
(* application.external_execution_services, the OpenClaw executor).        *)
(*                                                                         *)
(* An attempt is a coroutine of some worker.  Attempts overlap: a worker   *)
(* that lost its lease may still be running when the next one starts.      *)
(* Every service call and every call of the gateway is a step of its own;  *)
(* a worker may crash, or interrupt the attempt, between any two.          *)
(***************************************************************************)
EXTENDS Integers

CONSTANT ExMaxAttempts   \* bound: technical attempts of the visit

ASSUME ExAssumption == ExMaxAttempts \in Nat

VARIABLES
    exRow,      \* status and external_run_id of the row
    exRun,      \* the gateway's run for the idempotency key
    exAttempt   \* exAttempt[a]: where attempt a stands, and what it reported

exVars == <<exRow, exRun, exAttempt>>

ExAttempts == 1..ExMaxAttempts
ExTerminal == {"succeeded", "failed", "cancelled"}

\* ExternalExecution, or its absence.
ExRows == [status : {"absent", "starting", "active"} \cup ExTerminal, accepted : BOOLEAN]

ExRuns == {"none", "running"} \cup ExTerminal

\* An attempt; verdict is the status it is about to record.
ExAttemptStates ==
    [phase : {"unborn", "begun", "preparing", "inserting", "starting", "accepting", "refusing",
              "waiting", "expiring", "finishing", "interrupted", "aborting", "ended"},
     verdict : ExTerminal \cup {"none"}, timedOut : BOOLEAN,
     result : {"none", "success", "failure", "error"}]

ExUnborn == [phase |-> "unborn", verdict |-> "none", timedOut |-> FALSE, result |-> "none"]

ExInit ==
    /\ exRow = [status |-> "absent", accepted |-> FALSE]
    /\ exRun = "none"
    /\ exAttempt = [a \in ExAttempts |-> ExUnborn]

\* Attempt a goes on to phase p; it ends with a result.
ExMove(a, p) == exAttempt' = [exAttempt EXCEPT ![a].phase = p]
ExEnd(a, result) ==
    exAttempt' = [exAttempt EXCEPT ![a] = [phase |-> "ended", verdict |-> "none",
                                           timedOut |-> FALSE, result |-> result]]

\* OpenClawExecutor._stored_result.
ExStoredResult == IF exRow.status = "succeeded" THEN "success" ELSE "failure"

\* How execute goes on with a row it has read: a terminal row is the result,
\* an accepted run is waited for, and otherwise the run is started.
ExGoOn(a) ==
    \/ exRow.status \in ExTerminal /\ ExEnd(a, ExStoredResult)
    \/ exRow.status \notin ExTerminal /\ exRow.accepted /\ ExMove(a, "waiting")
    \/ exRow.status \notin ExTerminal /\ ~exRow.accepted /\ ExMove(a, "starting")

-----------------------------------------------------------------------------
\* A worker claims the task: the first time, or when the lease of the attempt
\* before has run out or that attempt has failed.
ExBegin(a) ==
    /\ exAttempt[a].phase = "unborn"
    /\ \A b \in 1..(a - 1) : exAttempt[b].phase # "unborn"
    /\ \A b \in 1..(a - 1) : exAttempt[b].result \in {"none", "error"}
    /\ ExMove(a, "begun") /\ UNCHANGED <<exRow, exRun>>

\* execute: ExternalExecutionService.get.
ExGet(a) ==
    /\ exAttempt[a].phase = "begun"
    /\ \/ exRow.status = "absent" /\ ExMove(a, "preparing")
       \/ exRow.status # "absent" /\ ExGoOn(a)
    /\ UNCHANGED <<exRow, exRun>>

\* ExternalExecutionService.prepare looks again, under FOR UPDATE; there is no
\* row to lock when there is none.
ExPrepare(a) ==
    /\ exAttempt[a].phase = "preparing"
    /\ \/ exRow.status = "absent" /\ ExMove(a, "inserting")
       \/ exRow.status # "absent" /\ ExGoOn(a)
    /\ UNCHANGED <<exRow, exRun>>

\* Mutant: the table has no unique key, and the last insert wins.
ExInsertAnyway(a) ==
    /\ exAttempt[a].phase = "inserting"
    /\ exRow' = [status |-> "starting", accepted |-> FALSE] /\ ExMove(a, "starting")
    /\ UNCHANGED exRun

\* prepare commits its row; the unique idempotency key lets one attempt win and
\* ends the other with an integrity error.
ExInsert(a) ==
    /\ exAttempt[a].phase = "inserting"
    /\ IF exRow.status = "absent"
       THEN exRow' = [status |-> "starting", accepted |-> FALSE] /\ ExMove(a, "starting")
       ELSE UNCHANGED exRow /\ ExEnd(a, "error")
    /\ UNCHANGED exRun

\* The gateway starts one run per idempotency key and answers with its id.
ExGatewayStarts == exRun' = IF exRun = "none" THEN "running" ELSE exRun

\* execute: bridge.start answers, or fails before or after the gateway acted.
ExStart(a) ==
    /\ exAttempt[a].phase = "starting"
    /\ \/ ExGatewayStarts /\ ExMove(a, "accepting")
       \/ (ExGatewayStarts \/ UNCHANGED exRun) /\ ExMove(a, "refusing")
    /\ UNCHANGED exRow

\* Mutant: the outcome of the run is written over the recorded one.
ExFinishedAlways(status) == [status |-> status, accepted |-> exRow.accepted]

\* ExternalExecution.finish, when it does not raise.
ExFinished(status) ==
    [status |-> IF exRow.status \in ExTerminal THEN exRow.status ELSE status,
     accepted |-> exRow.accepted]

\* finish raises InvalidStateTransition.
ExFinishRefused(status) == exRow.status \in ExTerminal /\ exRow.status # status

\* execute: a failed start is recorded, and raised again.
ExRefuse(a) ==
    /\ exAttempt[a].phase = "refusing"
    /\ exRow' = ExFinished("failed") /\ ExEnd(a, "error") /\ UNCHANGED exRun

\* ExternalExecutionService.accept: the run id of the row never changes, and a
\* terminal row is not made active again.
ExAccept(a) ==
    /\ exAttempt[a].phase = "accepting"
    /\ IF exRow.status \in ExTerminal
       THEN ExEnd(a, "error") /\ UNCHANGED exRow
       ELSE exRow' = [status |-> "active", accepted |-> TRUE] /\ ExMove(a, "waiting")
    /\ UNCHANGED exRun

\* execute: bridge.wait reports the end of the run, its own timeout, or fails.
ExWait(a) ==
    /\ exAttempt[a].phase = "waiting"
    /\ \/ /\ exRun \in ExTerminal
          /\ exAttempt' = [exAttempt EXCEPT ![a].phase = "finishing", ![a].verdict = exRun]
       \/ ExMove(a, "expiring")
       \/ ExEnd(a, "error")
    /\ UNCHANGED <<exRow, exRun>>

\* bridge.cancel: a run that has ended is left alone.
ExGatewayCancels == exRun' = IF exRun = "running" THEN "cancelled" ELSE exRun

\* Mutant: the run is only said to be cancelled.
ExExpireQuietly(a) ==
    /\ exAttempt[a].phase = "expiring"
    /\ exAttempt' = [exAttempt EXCEPT ![a].phase = "finishing", ![a].verdict = "cancelled",
                                      ![a].timedOut = TRUE]
    /\ UNCHANGED <<exRow, exRun>>

\* execute: after a timeout the run is cancelled first, and recorded after.
ExExpire(a) ==
    /\ exAttempt[a].phase = "expiring"
    /\ \/ /\ ExGatewayCancels
          /\ exAttempt' = [exAttempt EXCEPT ![a].phase = "finishing", ![a].verdict = "cancelled",
                                            ![a].timedOut = TRUE]
       \/ UNCHANGED exRun /\ ExEnd(a, "error")
    /\ UNCHANGED exRow

\* execute: ExternalExecutionService.finish, then the result or TimeoutError.
ExFinish(a) ==
    LET verdict == exAttempt[a].verdict
    IN  /\ exAttempt[a].phase = "finishing"
        /\ exRow' = ExFinished(verdict)
        /\ ExEnd(a, IF ExFinishRefused(verdict) \/ exAttempt[a].timedOut THEN "error"
                    ELSE IF verdict = "succeeded" THEN "success" ELSE "failure")
        /\ UNCHANGED exRun

\* _cancel_executor: the worker abandons execute (timeout, lost heartbeat,
\* shutdown) and calls OpenClawExecutor.cancel.
ExInterrupt(a) ==
    /\ exAttempt[a].phase \in {"begun", "preparing", "inserting", "starting", "accepting",
                               "waiting"}
    /\ ExMove(a, "interrupted") /\ UNCHANGED <<exRow, exRun>>

\* cancel: get, and bridge.cancel of the run the row names, if any.
ExCancel(a) ==
    /\ exAttempt[a].phase = "interrupted"
    /\ IF exRow.status \notin ExTerminal /\ exRow.accepted
       THEN \/ ExGatewayCancels /\ ExMove(a, "aborting")
            \/ UNCHANGED exRun /\ ExEnd(a, "error")
       ELSE ExEnd(a, "error") /\ UNCHANGED exRun
    /\ UNCHANGED exRow

\* cancel: finish; a terminal result that won the race is left in place.
ExAbort(a) ==
    /\ exAttempt[a].phase = "aborting"
    /\ exRow' = ExFinished("cancelled") /\ ExEnd(a, "error") /\ UNCHANGED exRun

ExCrash(a) ==
    /\ exAttempt[a].phase \notin {"unborn", "ended"}
    /\ ExEnd(a, "error") /\ UNCHANGED <<exRow, exRun>>

\* The run ends by itself.
ExRunEnds ==
    /\ exRun = "running" /\ exRun' \in ExTerminal /\ UNCHANGED <<exRow, exAttempt>>

ExStep(a) ==
    \/ ExGet(a) \/ ExPrepare(a) \/ ExInsert(a) \/ ExStart(a) \/ ExRefuse(a) \/ ExAccept(a)
    \/ ExWait(a) \/ ExExpire(a) \/ ExFinish(a) \/ ExCancel(a) \/ ExAbort(a)

ExNext ==
    \/ \E a \in ExAttempts : ExBegin(a) \/ ExStep(a) \/ ExInterrupt(a) \/ ExCrash(a)
    \/ ExRunEnds

ExSpec == ExInit /\ [][ExNext]_exVars

-----------------------------------------------------------------------------
\* The row, the run and the attempts have their types.
ExTypeOK ==
    /\ exRow \in ExRows /\ exRun \in ExRuns
    /\ exAttempt \in [ExAttempts -> ExAttemptStates]

\* ADR 0011: whichever attempts overlap, time out, are interrupted or crash,
\* what one of them reports is what the row records, so no two report different
\* outcomes of the visit; a recorded success is the run's own, and a run is
\* recorded as cancelled only once it has really ended.
ExReportsAgree ==
    /\ \A a \in ExAttempts :
          /\ exAttempt[a].result = "success" => exRow.status = "succeeded"
          /\ exAttempt[a].result = "failure" => exRow.status \in {"failed", "cancelled"}
    /\ exRow.status = "succeeded" => exRun = "succeeded"
    /\ exRow.status = "cancelled" => exRun \in ExTerminal

\* ADR 0011: the identity of the external run survives every retry: a row is
\* never replaced, an accepted run id never forgotten, a terminal state final.
ExIdentityKept ==
    [][/\ exRow.accepted => exRow'.accepted
       /\ exRow.status # "absent" => exRow'.status # "absent"
       /\ exRow.status \in ExTerminal => exRow'.status = exRow.status]_exVars
=============================================================================
