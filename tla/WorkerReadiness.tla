-------------------------- MODULE WorkerReadiness --------------------------
(***************************************************************************)
(* Worker presence, the monitors that look for READY tasks no worker can   *)
(* claim, the alerts they keep per occurrence, and the notification        *)
(* subscriptions whose deliveries those alerts enqueue                     *)
(* (jb_orchestrator.worker_presence, application.worker_presence_services, *)
(* worker_readiness_services, notification_services).                      *)
(*                                                                         *)
(* The evaluation of a project is one transaction of two steps: it takes   *)
(* the project's advisory lock and inspects, then it writes and commits;   *)
(* the task, its workers and other evaluations move in between.  The       *)
(* project has one task that becomes READY, and its worker_id is served by *)
(* successive processes, each with an instance row of its own.  How the    *)
(* monitors come to evaluate it is in ReadinessMonitor.                    *)
(***************************************************************************)
EXTENDS Integers, Sequences, FiniteSets, SequencesExt

CONSTANTS
    RdEvaluators,   \* readiness monitors, and callers of the API's evaluate route
    RdStarts,       \* bound: processes started for the worker_id
    RdVisits,       \* bound: how often the task becomes READY
    RdMaxFaults     \* bound: processes killed and evaluations that raise

\* Nobody holds the advisory lock.
RdNoLock == "unlocked"

ASSUME RdAssumption ==
    /\ RdStarts \in Nat /\ RdVisits \in Nat /\ RdMaxFaults \in Nat
    /\ RdNoLock \notin RdEvaluators

VARIABLES
    rdProcess,   \* rdProcess[i]: is the process of instance i alive
    rdInstance,  \* rdInstance[i]: its row
    rdLatest,    \* the instance with the greatest last_seen_at, 0 if none
    rdTask,      \* the task: its visit (ready_since) and whether it is READY
    rdAlert,     \* rdAlert[v]: the alert of occurrence v
    rdEvents,    \* rdEvents[v]: the events of that alert
    rdSub,       \* the project's notification subscription
    rdQueue,     \* rdQueue[v]: the deliveries enqueued for it, by event type
    rdEval,      \* rdEval[m]: what evaluator m has read and holds
    rdLock,      \* the evaluator that holds the project's advisory lock, or none
    rdFaults     \* faults so far

rdPresence == <<rdProcess, rdInstance, rdLatest>>
rdAlerts == <<rdAlert, rdEvents, rdQueue>>
rdVars == <<rdPresence, rdTask, rdAlerts, rdSub, rdEval, rdLock, rdFaults>>

RdOccurrences == 1..RdVisits
RdInstances == 1..RdStarts
RdReasons == {"no_capable_worker", "capable_workers_offline"}

\* NotificationEventType: the events a subscription may ask for.  The event
\* readiness_alert_reason_changed, which none can, is left out.
RdNotified == {"alerted", "critical", "resolved"}

\* WorkerReadinessAlert, or its absence; ripe: critical_after_seconds have
\* passed since first_detected_at.
RdAlertRows ==
    [status : {"absent", "active", "resolved"}, reason : RdReasons \cup {"none"},
     critical : BOOLEAN, ripe : BOOLEAN]

\* WorkerInstance; fresh: last_seen_at is not older than stale_after_seconds.
RdInstanceRows == [status : {"absent", "running", "stopped"}, fresh : BOOLEAN]

\* NotificationSubscription.
RdSubscriptions == [exists : BOOLEAN, enabled : BOOLEAN, types : SUBSET RdNotified]

\* An evaluate_project in progress: the occurrence and issue it has read, the
\* alerts it knows as of its checked_at, and whether it was granted the lock.
RdEvaluations ==
    [phase : {"idle", "evaluating"}, issue : RdReasons \cup {"none"},
     occurrence : 0..RdVisits, locked : BOOLEAN, known : [RdOccurrences -> RdAlertRows]]

RdNoAlert == [status |-> "absent", reason |-> "none", critical |-> FALSE, ripe |-> FALSE]
RdNoAlerts == [v \in RdOccurrences |-> RdNoAlert]
RdResting ==
    [phase |-> "idle", issue |-> "none", occurrence |-> 0, locked |-> FALSE,
     known |-> RdNoAlerts]

RdInit ==
    /\ rdProcess = [i \in RdInstances |-> FALSE]
    /\ rdInstance = [i \in RdInstances |-> [status |-> "absent", fresh |-> FALSE]]
    /\ rdLatest = 0
    /\ rdTask = [visit |-> 0, ready |-> FALSE]
    /\ rdAlert = RdNoAlerts
    /\ rdEvents = [v \in RdOccurrences |-> <<>>]
    /\ rdQueue = [v \in RdOccurrences |-> <<>>]
    /\ rdSub = [exists |-> FALSE, enabled |-> FALSE, types |-> {}]
    /\ rdEval = [m \in RdEvaluators |-> RdResting]
    /\ rdLock = RdNoLock /\ rdFaults = 0

-----------------------------------------------------------------------------
\* SqlAlchemyWorkerInstanceRepository.save: last_seen_at is now, so the row
\* comes first in list.
RdSeenNow(i, status) ==
    /\ rdInstance' = [rdInstance EXCEPT ![i] =
           [status |-> status, fresh |-> status = "running"]]
    /\ rdLatest' = i

\* WorkerPresenceService.register, at the start of WorkerPresenceRuntime.run.
RdRegister(i) ==
    /\ rdInstance[i].status = "absent"
    /\ \A j \in 1..(i - 1) : rdInstance[j].status # "absent"
    /\ RdSeenNow(i, "running") /\ rdProcess' = [rdProcess EXCEPT ![i] = TRUE]
    /\ UNCHANGED <<rdTask, rdAlerts, rdSub, rdEval, rdLock, rdFaults>>

\* WorkerPresenceService.heartbeat, every heartbeat_interval_seconds.
RdHeartbeat(i) ==
    /\ rdProcess[i] /\ rdInstance[i].status = "running" /\ RdSeenNow(i, "running")
    /\ UNCHANGED <<rdProcess, rdTask, rdAlerts, rdSub, rdEval, rdLock,
                   rdFaults>>

\* WorkerPresenceRuntime.run ends: _stop, whose failure is suppressed.
RdStop(i) ==
    /\ rdProcess[i] /\ rdProcess' = [rdProcess EXCEPT ![i] = FALSE]
    /\ RdSeenNow(i, "stopped")
    /\ UNCHANGED <<rdTask, rdAlerts, rdSub, rdEval, rdLock, rdFaults>>

\* The process is killed, or its last write fails.
RdKill(i) ==
    /\ rdProcess[i] /\ rdProcess' = [rdProcess EXCEPT ![i] = FALSE]
    /\ rdFaults < RdMaxFaults /\ rdFaults' = rdFaults + 1
    /\ UNCHANGED <<rdInstance, rdLatest, rdTask, rdAlerts, rdSub, rdEval, rdLock>>

\* Time passes without a heartbeat of an instance.  A live process beats more
\* often than stale_after_seconds.
RdGrowStale(i) ==
    /\ rdInstance[i].fresh /\ ~rdProcess[i]
    /\ rdInstance' = [rdInstance EXCEPT ![i].fresh = FALSE]
    /\ UNCHANGED <<rdProcess, rdLatest, rdTask, rdAlerts, rdSub,
                   rdEval, rdLock, rdFaults>>

\* Time passes: critical_after_seconds since the alert was first detected.
RdRipen(v) ==
    /\ rdAlert[v].status = "active" /\ ~rdAlert[v].ripe
    /\ rdAlert' = [rdAlert EXCEPT ![v].ripe = TRUE]
    /\ UNCHANGED <<rdPresence, rdTask, rdEvents, rdQueue, rdSub,
                   rdEval, rdLock, rdFaults>>

-----------------------------------------------------------------------------
\* The task becomes READY: a new occurrence.
RdReady ==
    /\ ~rdTask.ready /\ rdTask.visit < RdVisits
    /\ rdTask' = [visit |-> rdTask.visit + 1, ready |-> TRUE]
    /\ UNCHANGED <<rdPresence, rdAlerts, rdSub, rdEval, rdLock, rdFaults>>

\* The task is claimed, skipped or cancelled.
RdUnready ==
    /\ rdTask.ready /\ rdTask' = [rdTask EXCEPT !.ready = FALSE]
    /\ UNCHANGED <<rdPresence, rdAlerts, rdSub, rdEval, rdLock, rdFaults>>

\* NotificationService.create_subscription: the destination is unique in its
\* project, a second one with the same event types returns the first.
RdCreateSubscription(types) ==
    /\ ~rdSub.exists /\ types # {}
    /\ rdSub' = [exists |-> TRUE, enabled |-> TRUE, types |-> types]
    /\ UNCHANGED <<rdPresence, rdTask, rdAlerts, rdEval, rdLock, rdFaults>>

\* NotificationService.configure_subscription.
RdConfigureSubscription(types, enabled) ==
    /\ rdSub.exists /\ types # {}
    /\ rdSub' = [exists |-> TRUE, enabled |-> enabled, types |-> types]
    /\ UNCHANGED <<rdPresence, rdTask, rdAlerts, rdEval, rdLock, rdFaults>>

-----------------------------------------------------------------------------
\* WorkerInstance.observed_status of the row _latest_execution_workers keeps.
RdObserved ==
    IF rdLatest = 0 THEN "none"
    ELSE CASE rdInstance[rdLatest].status = "stopped" -> "stopped"
           [] rdInstance[rdLatest].status = "running" /\ rdInstance[rdLatest].fresh -> "online"
           [] OTHER -> "stale"

\* _inspect_project: the issue of the READY task, if there is one.
RdIssue ==
    CASE ~rdTask.ready \/ RdObserved = "online" -> "none"
      [] rdTask.ready /\ RdObserved = "none" -> "no_capable_worker"
      [] OTHER -> "capable_workers_offline"

\* Mutant: the lock is not taken (as on a database without advisory locks).
RdLockFreeAnyway == TRUE

\* try_acquire_project_evaluation_lock: granted, or refused at once.
RdLockFree == rdLock = RdNoLock

\* evaluate_project up to its writes: the lock, _inspect_project, and the rows
\* of the alerts (get_occurrence and list_by_project).
RdBeginEvaluation(m) ==
    /\ rdEval[m].phase = "idle"
    /\ rdLock' = IF RdLockFree THEN m ELSE rdLock
    /\ rdEval' = [rdEval EXCEPT ![m] = [phase |-> "evaluating", issue |-> RdIssue,
                                        occurrence |-> rdTask.visit, locked |-> RdLockFree,
                                        known |-> rdAlert]]
    /\ UNCHANGED <<rdPresence, rdTask, rdAlerts, rdSub, rdFaults>>

\* WorkerReadinessAlert.escalate.
RdEscalates(alert) == alert.status = "active" /\ ~alert.critical /\ alert.ripe

\* The alert of an issue after the loop over report.issues: a new one, or the
\* known one observed and perhaps escalated.  One that was resolved stays so.
RdObservedAlert(alert, reason) ==
    IF alert.status = "absent"
    THEN [status |-> "active", reason |-> reason, critical |-> FALSE, ripe |-> FALSE]
    ELSE [alert EXCEPT !.reason = reason, !.critical = alert.critical \/ RdEscalates(alert)]

\* Mutant: a task that waits again is announced again.
RdObservedEventsAgain(alert) ==
    IF alert.status # "active" THEN <<"alerted">>
    ELSE IF RdEscalates(alert) THEN <<"critical">> ELSE <<>>

\* The events of that loop.
RdObservedEvents(alert) ==
    IF alert.status = "absent" THEN <<"alerted">>
    ELSE IF RdEscalates(alert) THEN <<"critical">> ELSE <<>>

\* Mutant: only a later occurrence of the task resolves its alert.
RdResolvesOverdue(m, v) == rdEval[m].known[v].status = "active" /\ rdEval[m].occurrence # v

\* An active alert that the loop over active_alerts resolves.
RdResolves(m, v) ==
    /\ rdEval[m].known[v].status = "active"
    /\ ~(rdEval[m].issue # "none" /\ rdEval[m].occurrence = v)

\* What the evaluation of m appends for occurrence v.
RdNewEvents(m, v) ==
    IF RdResolves(m, v) THEN <<"resolved">>
    ELSE IF rdEval[m].issue # "none" /\ rdEval[m].occurrence = v
         THEN RdObservedEvents(rdEval[m].known[v]) ELSE <<>>

\* NotificationSubscription.accepts.
RdAccepts(type) == rdSub.exists /\ rdSub.enabled /\ type \in rdSub.types

\* enqueue_notification_deliveries, for the event an evaluation has at most for
\* an occurrence.
RdDeliveries(types) == IF types # <<>> /\ RdAccepts(Head(types)) THEN types ELSE <<>>

\* _append_alert_event: the event and, in the same transaction, the deliveries
\* enqueue_notification_deliveries makes for the subscriptions that accept it.
RdAppendEvents(m) ==
    /\ rdEvents' = [v \in RdOccurrences |-> rdEvents[v] \o RdNewEvents(m, v)]
    /\ rdQueue' = [v \in RdOccurrences |-> rdQueue[v] \o RdDeliveries(RdNewEvents(m, v))]

\* The alert rows the evaluation of m saves.
RdSaveAlerts(m) ==
    rdAlert' = [v \in RdOccurrences |->
        IF RdResolves(m, v) THEN [rdAlert[v] EXCEPT !.status = "resolved"]
        ELSE IF rdEval[m].issue # "none" /\ rdEval[m].occurrence = v
             THEN [RdObservedAlert(rdEval[m].known[v], rdEval[m].issue)
                      EXCEPT !.ripe = rdAlert[v].ripe]
             ELSE rdAlert[v]]

\* evaluate_project writes and commits, which releases the lock.
RdCommitEvaluation(m) ==
    /\ rdEval[m].phase = "evaluating" /\ rdEval[m].locked
    /\ RdSaveAlerts(m) /\ RdAppendEvents(m)
    /\ rdLock' = RdNoLock
    /\ rdEval' = [rdEval EXCEPT ![m] = RdResting]
    /\ UNCHANGED <<rdPresence, rdTask, rdSub, rdFaults>>

\* Without the lock evaluate_project only reports.
RdOnlyReport(m) ==
    /\ rdEval[m].phase = "evaluating" /\ ~rdEval[m].locked
    /\ rdEval' = [rdEval EXCEPT ![m] = RdResting]
    /\ UNCHANGED <<rdPresence, rdTask, rdAlerts, rdSub, rdLock, rdFaults>>

\* An evaluation raises: its transaction is rolled back, which releases the
\* lock, and the batch keeps it as one of its failures and goes on.
RdFailEvaluation(m) ==
    /\ rdEval[m].phase = "evaluating"
    /\ rdFaults < RdMaxFaults /\ rdFaults' = rdFaults + 1
    /\ rdLock' = IF rdEval[m].locked THEN RdNoLock ELSE rdLock
    /\ rdEval' = [rdEval EXCEPT ![m] = RdResting]
    /\ UNCHANGED <<rdPresence, rdTask, rdAlerts, rdSub>>

-----------------------------------------------------------------------------
RdEvaluate(m) == RdBeginEvaluation(m) \/ RdCommitEvaluation(m) \/ RdOnlyReport(m)

RdNext ==
    \/ \E i \in RdInstances : RdRegister(i) \/ RdHeartbeat(i) \/ RdStop(i) \/ RdKill(i)
                              \/ RdGrowStale(i)
    \/ \E v \in RdOccurrences : RdRipen(v)
    \/ RdReady \/ RdUnready
    \/ RdCreateSubscription(RdNotified)
    \/ \E enabled \in BOOLEAN : RdConfigureSubscription(RdNotified, enabled)
    \/ \E m \in RdEvaluators : RdEvaluate(m) \/ RdFailEvaluation(m)

RdSpec == RdInit /\ [][RdNext]_rdVars

-----------------------------------------------------------------------------
\* The rows, the monitors and the queue of deliveries have their types.
RdTypeOK ==
    /\ rdProcess \in [RdInstances -> BOOLEAN] /\ rdInstance \in [RdInstances -> RdInstanceRows]
    /\ rdLatest \in 0..RdStarts
    /\ rdTask \in [visit : 0..RdVisits, ready : BOOLEAN]
    /\ rdAlert \in [RdOccurrences -> RdAlertRows]
    /\ rdEvents \in [RdOccurrences -> Seq(RdNotified)]
    /\ rdQueue \in [RdOccurrences -> Seq(RdNotified)]
    /\ rdSub \in RdSubscriptions /\ rdEval \in [RdEvaluators -> RdEvaluations]
    /\ rdLock \in RdEvaluators \cup {RdNoLock} /\ rdFaults \in Nat

\* The stories an occurrence may have.
RdStories ==
    {<<>>, <<"alerted">>, <<"alerted", "critical">>, <<"alerted", "resolved">>,
     <<"alerted", "critical", "resolved">>}

\* What an occurrence that was told as told must be.
RdStatusTold(told) ==
    IF told = <<>> THEN "absent" ELSE IF Last(told) = "resolved" THEN "resolved" ELSE "active"

\* Two monitors and any flapping of workers produce at most one alerted, one
\* critical and one resolved event per occurrence, in that order, and at most
\* one delivery for each: nobody is notified twice of the same thing, or of an
\* escalation after the all-clear (ADR 0060 and 0063).
RdNotifiedOnce ==
    \A v \in RdOccurrences :
        /\ rdEvents[v] \in RdStories
        /\ rdAlert[v].status = RdStatusTold(rdEvents[v])
        /\ IsInjective(rdQueue[v]) /\ ToSet(rdQueue[v]) \subseteq ToSet(rdEvents[v])

RdLive == \E i \in RdInstances : rdProcess[i]

\* The alert follows the facts: a task that stays READY while no process serves
\* it is alerted, and an active alert ends unless that goes on, even when the
\* row of a stopped process hides the live one until its next heartbeat.
RdAlertsFollow ==
    \A v \in RdOccurrences :
        /\ (rdTask = [visit |-> v, ready |-> TRUE] /\ ~RdLive) ~>
              (rdAlert[v].status # "absent" \/ rdTask.visit # v \/ ~rdTask.ready \/ RdLive)
        /\ rdAlert[v].status = "active" ~>
              (rdAlert[v].status = "resolved" \/ (rdTask.visit = v /\ rdTask.ready /\ ~RdLive))
=============================================================================
