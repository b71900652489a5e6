------------------------ MODULE NotificationDelivery ------------------------
(***************************************************************************)
(* Notification deliveries: the rows the readiness monitor enqueues, their *)
(* ledger of attempts and their events, the operators who retry and cancel *)
(* them, and the workers that claim them under a lease and call an         *)
(* installed provider (jb_orchestrator.notifications,                      *)
(* application.notification_services, the webhook adapter).                *)
(*                                                                         *)
(* Every service call is one transaction that locks the delivery row, so   *)
(* it is one step.  Time is not counted: a lease may lapse and a scheduled *)
(* retry may come due at any moment.                                       *)
(***************************************************************************)
EXTENDS Integers, Sequences, FiniteSets

CONSTANTS
    NtQueue,       \* number of deliveries; they are numbered in created_at order
    NtProvider,    \* NtProvider[d]: provider_key of delivery d, keys in sorted order
    NtWorkers,     \* worker processes
    NtNobody,      \* worker_id is None
    NtSupported,   \* NtSupported[w]: the provider keys installed at worker w
    NtLimit,       \* NtLimit[w]: automatic_retry_limit of worker w
    NtMaxManual,   \* bound on manual retries
    NtMaxFaults    \* bound on crashes, failing requests and leases lost by a slow holder

NtDeliveries == 1..NtQueue

ASSUME NtAssumption ==
    /\ NtQueue \in Nat /\ NtNobody \notin NtWorkers
    /\ NtProvider \in [NtDeliveries -> Nat]
    /\ NtSupported \in [NtWorkers -> SUBSET Nat]
    /\ NtLimit \in [NtWorkers -> 0..10]
    /\ NtMaxManual \in Nat /\ NtMaxFaults \in Nat

VARIABLES
    ntRow,      \* ntRow[d]: the delivery row
    ntLedger,   \* ntLedger[d]: its attempt rows by attempt_number
    ntEvents,   \* ntEvents[d]: the types of its domain events
    ntWorker,   \* ntWorker[w]: what the worker process is doing
    ntReached,  \* deliveries some request of which was accepted by the receiver
    ntManual,   \* manual retries so far
    ntFaults    \* faults so far

ntVars == <<ntRow, ntLedger, ntEvents, ntWorker, ntReached, ntManual, ntFaults>>

NtFailureCodes ==
    {"provider_rejected", "provider_unavailable", "timeout", "lease_expired", "unexpected"}
NtTriggers == {"initial", "manual", "automatic", "lease_recovery"}
NtEventTypes == {"claimed", "succeeded", "failed", "retry_scheduled", "retried", "retry_cancelled"}

\* NotificationDelivery: token is the attempt lease_token was drawn for (0 for
\* None), lease whether lease_expires_at has passed, next whether
\* next_attempt_at has, code is failure_code.
NtDeliveryRows ==
    [status : {"absent", "pending", "claimed", "succeeded", "failed"},
     worker : NtWorkers \cup {NtNobody}, token : Nat, count : Nat,
     lease : {"none", "live", "expired"}, code : NtFailureCodes \cup {"none"},
     retryable : {"none", "yes", "no"}, limit : 0..10,
     next : {"none", "scheduled", "due"}]

\* NotificationDeliveryAttempt.
NtAttemptRows ==
    [trigger : NtTriggers, worker : NtWorkers, token : Nat,
     status : {"claimed", "succeeded", "failed"}, code : NtFailureCodes \cup {"none"}]

\* A worker process between the calls of run_once.
NtWorkerStates ==
    [phase : {"idle", "delivering", "reporting"}, delivery : NtDeliveries \cup {0},
     token : Nat, outcome : NtFailureCodes \cup {"none", "delivered"}]

NtIdle == [phase |-> "idle", delivery |-> 0, token |-> 0, outcome |-> "none"]

NtNewRow ==
    [status |-> "pending", worker |-> NtNobody, token |-> 0, count |-> 0, lease |-> "none",
     code |-> "none", retryable |-> "none", limit |-> 0, next |-> "none"]

NtInit ==
    /\ ntRow = [d \in NtDeliveries |-> [NtNewRow EXCEPT !.status = "absent"]]
    /\ ntLedger = [d \in NtDeliveries |-> <<>>]
    /\ ntEvents = [d \in NtDeliveries |-> <<>>]
    /\ ntWorker = [w \in NtWorkers |-> NtIdle]
    /\ ntReached = {} /\ ntManual = 0 /\ ntFaults = 0

-----------------------------------------------------------------------------
\* SqlAlchemyNotificationDeliveryRepository.save and _update: every column.
NtSave(d, row) == ntRow' = [ntRow EXCEPT ![d] = row]

\* Mutant: the events of cancellations are not recorded.
NtRecordMostEvents(d, types) ==
    ntEvents' = [ntEvents EXCEPT ![d] = @ \o SelectSeq(types, LAMBDA t : t # "retry_cancelled")]

\* NotificationService._delivery_event, in the transaction of the change.
NtRecordEvents(d, types) == ntEvents' = [ntEvents EXCEPT ![d] = @ \o types]

\* enqueue_notification_deliveries: a new row; the unique key of subscription
\* and event makes a second insert a no-op.
NtEnqueue(d) ==
    /\ ntRow[d].status = "absent"
    /\ \A e \in 1..(d - 1) : ntRow[e].status # "absent"
    /\ NtSave(d, NtNewRow)
    /\ UNCHANGED <<ntLedger, ntEvents, ntWorker, ntReached, ntManual, ntFaults>>

\* NotificationDelivery.retry.
NtRetriedRow(row) == [NtNewRow EXCEPT !.count = row.count]

\* NotificationService.retry: a pending or claimed delivery is returned as it
\* is and a succeeded one is a conflict.
NtRetry(d) ==
    /\ ntRow[d].status = "failed"
    /\ NtSave(d, NtRetriedRow(ntRow[d])) /\ NtRecordEvents(d, <<"retried">>)
    /\ ntManual < NtMaxManual /\ ntManual' = ntManual + 1
    /\ UNCHANGED <<ntLedger, ntWorker, ntReached, ntFaults>>

\* NotificationDelivery.cancel_automatic_retry.
NtCancelledRow(row) == [row EXCEPT !.limit = 0, !.next = "none"]

\* NotificationService.cancel_automatic_retry: nothing scheduled, nothing done.
NtCancelAutomaticRetry(d) ==
    /\ ntRow[d].status = "failed" /\ ntRow[d].next # "none"
    /\ NtSave(d, NtCancelledRow(ntRow[d])) /\ NtRecordEvents(d, <<"retry_cancelled">>)
    /\ UNCHANGED <<ntLedger, ntWorker, ntReached, ntManual, ntFaults>>

-----------------------------------------------------------------------------
NtLeaseExpired(row) == row.status = "claimed" /\ row.lease = "expired"

\* Mutant: a failed delivery is claimed again whatever its schedule says.
NtRetryUnscheduled(row) == row.status = "failed" /\ row.retryable = "yes"

\* The scheduled_retry of NotificationDelivery.claim.
NtScheduledRetry(row) ==
    /\ row.status = "failed" /\ row.retryable = "yes"
    /\ row.next = "due" /\ row.count <= row.limit

\* Mutant: an expired lease is left to its worker.
NtClaimableUnlessLeased(row) == row.status = "pending" \/ NtScheduledRetry(row)

\* The WHERE clause of claim_next, which NotificationDelivery.claim repeats.
NtClaimable(row) == row.status = "pending" \/ NtLeaseExpired(row) \/ NtScheduledRetry(row)

\* SqlAlchemyNotificationDeliveryRepository.claim_next: the oldest claimable
\* delivery of one provider.
NtOldest(key, d) ==
    LET found == {e \in NtDeliveries : NtProvider[e] = key /\ NtClaimable(ntRow[e])}
    IN  d \in found /\ \A e \in found : d <= e

\* NotificationRuntime._claim_next: the first installed key with a delivery.
NtNextFor(w, d) ==
    \E key \in NtSupported[w] :
        /\ NtOldest(key, d)
        /\ \A k \in NtSupported[w] : k < key => ~\E e \in NtDeliveries : NtOldest(k, e)

\* NotificationDelivery.claim_trigger.
NtClaimTrigger(row) ==
    CASE NtLeaseExpired(row) -> "lease_recovery"
      [] row.status = "failed" -> "automatic"
      [] row.status = "pending" /\ row.count > 0 -> "manual"
      [] OTHER -> "initial"

\* NotificationDelivery.claim: an automatic retry forgets the failure.
NtClaimedRow(row, w) ==
    LET base == IF NtScheduledRetry(row)
                THEN [row EXCEPT !.code = "none", !.retryable = "none", !.next = "none"]
                ELSE row
    IN  [base EXCEPT !.status = "claimed", !.worker = w, !.token = row.count + 1,
                     !.count = row.count + 1, !.lease = "live"]

\* Mutant: the attempt of the lost worker stays open.
NtLeaveOpen(d) == ntLedger[d]

\* claim_next closes the attempt of a worker whose lease expired.
NtCloseExpired(d) ==
    LET last == ntRow[d].count
    IN  IF NtLeaseExpired(ntRow[d]) /\ ntLedger[d][last].status = "claimed"
        THEN [ntLedger[d] EXCEPT ![last].status = "failed", ![last].code = "lease_expired"]
        ELSE ntLedger[d]

\* NotificationService.claim_next, then run_once hands the request to the provider.
NtClaim(w, d) ==
    /\ ntWorker[w].phase = "idle" /\ NtNextFor(w, d)
    /\ NtSave(d, NtClaimedRow(ntRow[d], w))
    /\ ntLedger' = [ntLedger EXCEPT ![d] = Append(NtCloseExpired(d),
           [trigger |-> NtClaimTrigger(ntRow[d]), worker |-> w, token |-> ntRow[d].count + 1,
            status |-> "claimed", code |-> "none"])]
    /\ NtRecordEvents(d, <<"claimed">>)
    /\ ntWorker' = [ntWorker EXCEPT ![w] =
           [phase |-> "delivering", delivery |-> d, token |-> ntRow[d].count + 1,
            outcome |-> "none"]]
    /\ UNCHANGED <<ntReached, ntManual, ntFaults>>

-----------------------------------------------------------------------------
\* WebhookNotificationProvider.deliver: what the receiver did with the request,
\* and what the worker learns of it.  A lost answer or a slow receiver leaves
\* an accepted request reported as a failure.
NtAnswers ==
    {answer \in [accepted : BOOLEAN,
                 outcome : {"delivered", "provider_unavailable", "timeout", "provider_rejected",
                            "unexpected"}] :
        /\ answer.outcome = "delivered" => answer.accepted
        /\ answer.accepted => answer.outcome \in {"delivered", "provider_unavailable", "timeout"}}

\* run_once: the provider returned, raised or was cut off by wait_for.
NtDeliver(w, answer) ==
    /\ ntWorker[w].phase = "delivering"
    /\ answer.outcome # "delivered" => ntFaults < NtMaxFaults
    /\ ntFaults' = IF answer.outcome = "delivered" THEN ntFaults ELSE ntFaults + 1
    /\ ntReached' = IF answer.accepted THEN ntReached \cup {ntWorker[w].delivery} ELSE ntReached
    /\ ntWorker' = [ntWorker EXCEPT ![w].phase = "reporting", ![w].outcome = answer.outcome]
    /\ UNCHANGED <<ntRow, ntLedger, ntEvents, ntManual>>

\* Mutant: a rejected notification is worth another try.
NtEveryCodeRetryable(code) == TRUE

\* run_once: which failures are worth another try.
NtRetryable(code) == code \in {"provider_unavailable", "timeout"}

\* Mutant: the limit is compared with the retries made, not with the attempts.
NtNextAttemptByRetries(w, count) == IF NtLimit[w] = 0 \/ count - 1 > NtLimit[w]
                                    THEN "none" ELSE "scheduled"

\* NotificationRuntime._next_attempt_at: whether a retry is scheduled.
NtNextAttempt(w, count) ==
    IF NtLimit[w] = 0 \/ count > NtLimit[w] THEN "none" ELSE "scheduled"

\* NotificationDelivery.succeed.
NtSucceededRow(row) == [row EXCEPT !.status = "succeeded", !.code = "none", !.lease = "none"]

\* NotificationDelivery.fail, with what run_once passes to it.
NtFailedRow(row, w) ==
    LET code == ntWorker[w].outcome
    IN  [row EXCEPT !.status = "failed", !.code = code, !.lease = "none",
                    !.retryable = IF NtRetryable(code) THEN "yes" ELSE "no",
                    !.limit = NtLimit[w],
                    !.next = IF NtRetryable(code) THEN NtNextAttempt(w, ntWorker[w].token)
                                                  ELSE "none"]

\* Mutant: any report is taken while the delivery is claimed.
NtOwnsAnyToken(w) ==
    ntRow[ntWorker[w].delivery].status = "claimed"

\* NotificationDelivery._require_claim.
NtOwns(w) ==
    LET row == ntRow[ntWorker[w].delivery]
    IN  row.status = "claimed" /\ row.token = ntWorker[w].token

\* NotificationDeliveryAttempt.succeed and fail, on the row of attempt_count.
NtFinishAttempt(d, status, code) ==
    ntLedger' = [ntLedger EXCEPT ![d][ntRow[d].count].status = status,
                                 ![d][ntRow[d].count].code = code]

\* NotificationService.succeed.
NtSucceed(w) ==
    LET d == ntWorker[w].delivery
    IN  /\ ntWorker[w].phase = "reporting" /\ ntWorker[w].outcome = "delivered" /\ NtOwns(w)
        /\ NtSave(d, NtSucceededRow(ntRow[d])) /\ NtFinishAttempt(d, "succeeded", "none")
        /\ NtRecordEvents(d, <<"succeeded">>)
        /\ ntWorker' = [ntWorker EXCEPT ![w] = NtIdle]
        /\ UNCHANGED <<ntReached, ntManual, ntFaults>>

\* NotificationService.fail.
NtFail(w) ==
    LET d == ntWorker[w].delivery
        row == NtFailedRow(ntRow[d], w)
    IN  /\ ntWorker[w].phase = "reporting" /\ ntWorker[w].outcome # "delivered" /\ NtOwns(w)
        /\ NtSave(d, row) /\ NtFinishAttempt(d, "failed", row.code)
        /\ NtRecordEvents(d, IF row.next = "none" THEN <<"failed">>
                                                  ELSE <<"failed", "retry_scheduled">>)
        /\ ntWorker' = [ntWorker EXCEPT ![w] = NtIdle]
        /\ UNCHANGED <<ntReached, ntManual, ntFaults>>

\* The lease is another worker's: the exception leaves run and ends the
\* process, which is started anew.
NtRefused(w) ==
    /\ ntWorker[w].phase = "reporting" /\ ~NtOwns(w)
    /\ ntWorker' = [ntWorker EXCEPT ![w] = NtIdle]
    /\ UNCHANGED <<ntRow, ntLedger, ntEvents, ntReached, ntManual, ntFaults>>

NtCrash(w) ==
    /\ ntWorker[w].phase # "idle" /\ ntFaults < NtMaxFaults
    /\ ntWorker' = [ntWorker EXCEPT ![w] = NtIdle] /\ ntFaults' = ntFaults + 1
    /\ UNCHANGED <<ntRow, ntLedger, ntEvents, ntReached, ntManual>>

-----------------------------------------------------------------------------
NtHeld(d) == \E w \in NtWorkers :
    ntWorker[w].delivery = d /\ ntWorker[w].token = ntRow[d].token

\* Time passes: lease_expires_at is over, under a holder that is merely slow too.
NtLeaseLapses(d) ==
    /\ ntRow[d].lease = "live"
    /\ NtHeld(d) => ntFaults < NtMaxFaults
    /\ ntFaults' = IF NtHeld(d) THEN ntFaults + 1 ELSE ntFaults
    /\ NtSave(d, [ntRow[d] EXCEPT !.lease = "expired"])
    /\ UNCHANGED <<ntLedger, ntEvents, ntWorker, ntReached, ntManual>>

\* Time passes: next_attempt_at has come.
NtComesDue(d) ==
    /\ ntRow[d].next = "scheduled" /\ NtSave(d, [ntRow[d] EXCEPT !.next = "due"])
    /\ UNCHANGED <<ntLedger, ntEvents, ntWorker, ntReached, ntManual, ntFaults>>

NtTime == \E d \in NtDeliveries : NtLeaseLapses(d) \/ NtComesDue(d)

NtStep(w) ==
    \/ \E d \in NtDeliveries : NtClaim(w, d)
    \/ \E answer \in NtAnswers : NtDeliver(w, answer)
    \/ NtSucceed(w) \/ NtFail(w) \/ NtRefused(w)

NtNext ==
    \/ \E d \in NtDeliveries : NtEnqueue(d) \/ NtRetry(d) \/ NtCancelAutomaticRetry(d)
    \/ \E w \in NtWorkers : NtStep(w) \/ NtCrash(w)
    \/ NtTime

NtSpec == NtInit /\ [][NtNext]_ntVars

-----------------------------------------------------------------------------
\* The rows, their attempts, their events and the workers have their types.
NtTypeOK ==
    /\ ntRow \in [NtDeliveries -> NtDeliveryRows]
    /\ ntLedger \in [NtDeliveries -> Seq(NtAttemptRows)]
    /\ ntEvents \in [NtDeliveries -> Seq(NtEventTypes)]
    /\ ntWorker \in [NtWorkers -> NtWorkerStates]
    /\ ntReached \subseteq NtDeliveries /\ ntManual \in Nat /\ ntFaults \in Nat

\* What attempt i of delivery d tells.
NtAttemptFits(d, i) ==
    LET row == ntRow[d]
        ledger == ntLedger[d]
    IN  /\ ledger[i].status = "claimed" <=> (i = row.count /\ row.status = "claimed")
        /\ ledger[i].status = "succeeded" =>
              (i = row.count /\ row.status = "succeeded" /\ d \in ntReached)
        /\ ledger[i].trigger = "initial" <=> i = 1
        /\ ledger[i].code = "lease_expired" <=>
              (i < row.count /\ ledger[i + 1].trigger = "lease_recovery")
        /\ ledger[i].trigger = "automatic" =>
              /\ ledger[i - 1].code \in {"provider_unavailable", "timeout"}
              /\ i - 1 <= NtLimit[ledger[i - 1].worker]

\* What the ledger of delivery d tells.
NtExplained(d) ==
    /\ Len(ntLedger[d]) = ntRow[d].count
    /\ \A i \in 1..ntRow[d].count : NtAttemptFits(d, i)
    /\ ntRow[d].status = "succeeded" => ntLedger[d][ntRow[d].count].status = "succeeded"

\* However claims, late reports, crashes and operators are interleaved, the
\* attempt ledger tells the whole story of a delivery: one row per counted
\* attempt, open only the last and only while the delivery is claimed; an
\* attempt closed as lease_expired is exactly one that a lease recovery follows;
\* an automatic attempt follows a failure worth another try, within the limit
\* of the worker that reported it (attempts are counted over manual retries
\* too); and a delivery is marked succeeded only when its receiver accepted it.
NtLedgerExplains == \A d \in NtDeliveries : NtExplained(d)

\* The status an event leaves its delivery in.
NtStatusAfter(type) ==
    CASE type = "claimed" -> "claimed"
      [] type = "succeeded" -> "succeeded"
      [] type = "retried" -> "pending"
      [] OTHER -> "failed"

\* The claims among events.
NtClaims(events) == {i \in DOMAIN events : events[i] = "claimed"}

\* What the events of delivery d tell.
NtTold(d) ==
    LET row == ntRow[d]
        events == ntEvents[d]
        last == events[Len(events)]
    IN  IF events = <<>>
        THEN row.status \in {"absent", "pending"} /\ row.count = 0
        ELSE /\ row.status = NtStatusAfter(last)
             /\ row.next # "none" <=> last = "retry_scheduled"
             /\ row.count = Cardinality(NtClaims(events))

\* A client that follows only the events of a delivery knows its state: the
\* last event tells its status, the claims its attempt count, and a retry is
\* scheduled exactly if the last word about it was retry_scheduled (so a
\* cancellation is not lost between a late report and a manual retry).
NtEventsTellState == \A d \in NtDeliveries : NtTold(d)

\* Together: ledger and events tell one history of every delivery.
NtHistoryTold == NtLedgerExplains /\ NtEventsTellState

\* A delivery as an item of a lease queue.
NtItemStatus(row) ==
    CASE NtLeaseExpired(row) -> "lapsed"
      [] row.status = "failed" /\ row.next # "none" -> "retrying"
      [] OTHER -> row.status

NtItems == [d \in NtDeliveries |-> NtItemStatus(ntRow[d])]
NtLeaseCounts == [d \in NtDeliveries |-> ntRow[d].count]
NtHolds ==
    [w \in NtWorkers |-> [item |-> ntWorker[w].delivery, lease |-> ntWorker[w].token]]

NtLeases == INSTANCE LeaseQueue WITH
    Queue <- NtQueue, Workers <- NtWorkers, Retries <- TRUE,
    status <- NtItems, leases <- NtLeaseCounts, hold <- NtHolds

\* The deliveries keep the promises of a lease queue (module LeaseQueue): a late
\* report of a worker whose lease was taken over changes no delivery, and a
\* delivered notification is never claimed again.
NtKeepsLeaseQueue == NtLeases!Spec

\* A crash is repaired by the expiry of the lease and an unavailable receiver
\* by the scheduled retries: whatever happens, an enqueued delivery is in the
\* end delivered or has failed for good.
NtSettles ==
    \A d \in NtDeliveries :
        ntRow[d].status \in {"pending", "claimed"} ~>
            \/ ntRow[d].status = "succeeded"
            \/ ntRow[d].status = "failed" /\ ntRow[d].next = "none"
=============================================================================
