--------------------------- MODULE ScmPublication ---------------------------
(***************************************************************************)
(* One SCM publication: its row, its ledger of attempts, the operators who *)
(* request, retry and cancel it, and the workers that claim it under a     *)
(* lease and call the provider (jb_orchestrator.scm and                    *)
(* application.scm_publication_services).                                  *)
(*                                                                         *)
(* Every service call is one database transaction that locks the           *)
(* publication row first (SELECT ... FOR UPDATE, SKIP LOCKED for claims)   *)
(* and re-reads it, so a call is one step.  Between its calls a worker     *)
(* holds nothing but the lease token it was given.  A deadline d is kept   *)
(* as the time left to it, and "d <= now" is "nothing is left".            *)
(***************************************************************************)
EXTENDS Integers, Sequences

CONSTANTS
    Workers,         \* publication worker processes of the publication's scope
    NoWorker,        \* worker_id is None
    Limit,           \* Limit[w]: the automatic_retry_limit worker w runs with
    LeaseSeconds,    \* how long a claim lasts
    Timeout,         \* operation_timeout_seconds of the provider call
    BaseDelay,       \* automatic_retry_base_delay_seconds
    MaxDelay,        \* automatic_retry_max_delay_seconds
    MaxPrep,         \* bound: time between a claim and the provider call
    LegacyAttempts,  \* attempts counted before the attempt ledger existed
    MaxManual,       \* bound on manual retries
    MaxFaults,       \* bound on worker crashes and on leases that lapse under a worker
    MaxCommits       \* bound on the commits of the workspace

\* MAX_AUTOMATIC_RETRY_LIMIT
MaxAutomaticRetryLimit == 10

ASSUME WorkerAssumption ==
    /\ NoWorker \notin Workers
    /\ Limit \in [Workers -> 0..MaxAutomaticRetryLimit]

\* What the runtime's constructor checks of the intervals.  Nothing relates the
\* lease to the time a call takes to prepare: it may lapse during the call.
ASSUME TimeAssumption ==
    /\ LeaseSeconds \in Nat /\ Timeout \in Nat \ {0} /\ MaxPrep \in Nat
    /\ Timeout < LeaseSeconds
    /\ BaseDelay \in Nat \ {0} /\ MaxDelay \in Nat /\ BaseDelay <= MaxDelay

ASSUME BoundAssumption ==
    LegacyAttempts \in Nat /\ MaxManual \in Nat /\ MaxFaults \in Nat
    /\ MaxCommits \in Nat \ {0}

VARIABLES
    status,        \* of the publication; "absent" before it is requested
    owner,         \* worker_id
    token,         \* lease_token: the number of the attempt it was drawn for, 0 for None
    leaseLeft,     \* time to lease_expires_at
    attemptCount,  \* attempt_count
    retryLimit,    \* automatic_retry_limit
    failure,       \* failure_retryable: True, False or None ("none")
    nextIn,        \* time to next_attempt_at, or Unscheduled
    ledger,        \* the attempt rows, by attempt_number
    released,      \* workspace_released_at of the external execution is set
    phase,         \* what each worker process is doing
    held,          \* the lease token each worker holds
    left,          \* time left to each worker's current step
    outcome,       \* what the provider call of each worker came to
    commit,        \* the HEAD each worker's call read and pushes, 0 for none
    head,          \* the workspace's latest commit; each contains those before it
    branch,        \* the latest commit of the branch at the provider, 0 without a branch
    stray,         \* commits that git processes are pushing whose call is over
    published,     \* the commit the succeeded call had pushed, 0 before
    manual,        \* manual retries so far (for MaxManual)
    faults,        \* crashes and late reports so far (for MaxFaults)
    cancelled      \* history: attempts whose automatic retry was cancelled

publication == <<status, owner, token, leaseLeft, attemptCount, retryLimit, failure, nextIn>>
worker == <<phase, held, left, outcome, commit>>
repository == <<head, branch, stray>>
vars == <<publication, ledger, released, worker, repository, published, manual, faults, cancelled>>

Unscheduled == -1
Statuses == {"absent", "pending", "claimed", "succeeded", "failed"}
Triggers == {"initial", "manual", "automatic", "lease_recovery", "none"}
Phases == {"idle", "preparing", "pushing", "reviewing", "reporting"}
Outcomes == {"none", "published", "retryable", "fatal"}
Failures == {"none", "retryable", "fatal"}
Row == [trigger : Triggers, worker : Workers \cup {NoWorker},
        status : {"missing", "claimed", "succeeded", "failed"}, failure : Failures]

\* An attempt made before the ledger table existed has no row.
MissingRow == [trigger |-> "none", worker |-> NoWorker, status |-> "missing", failure |-> "none"]

\* Mutant: a deadline that has passed is not over.
LaterUnclamped(t) == t - 1

Later(t) == IF t > 0 THEN t - 1 ELSE t

-----------------------------------------------------------------------------
\* The worker that publishes while the ledger is being introduced.
LegacyHolder(w) == status = "claimed" /\ w = owner

\* A deployment starts with no publication, or with one made before the
\* attempt ledger was introduced.
Init ==
    /\ attemptCount \in 0..LegacyAttempts
    /\ ledger = [i \in 1..attemptCount |-> MissingRow]
    /\ status \in IF attemptCount = 0 THEN {"absent"} ELSE {"pending", "claimed", "failed"}
    /\ owner \in IF status \in {"claimed", "failed"} THEN Workers ELSE {NoWorker}
    /\ token = IF status \in {"claimed", "failed"} THEN attemptCount ELSE 0
    /\ leaseLeft = IF status = "claimed" THEN LeaseSeconds ELSE 0
    /\ retryLimit = 0 /\ failure = "none" /\ nextIn = Unscheduled
    /\ released = FALSE
    /\ phase = [w \in Workers |-> IF LegacyHolder(w) THEN "pushing" ELSE "idle"]
    /\ held = [w \in Workers |-> IF LegacyHolder(w) THEN token ELSE 0]
    /\ left = [w \in Workers |-> IF LegacyHolder(w) THEN Timeout ELSE 0]
    /\ outcome = [w \in Workers |-> "none"]
    /\ commit = [w \in Workers |-> IF LegacyHolder(w) THEN 1 ELSE 0]
    /\ head = 1 /\ branch \in IF attemptCount = 0 THEN {0} ELSE {0, 1}
    /\ stray = {} /\ published = 0
    /\ manual = 0 /\ faults = 0 /\ cancelled = {}

-----------------------------------------------------------------------------
\* ScmPublicationService.request: the external execution is terminal; a
\* repeated idempotency key returns the existing row and changes nothing.
Request ==
    /\ status = "absent" /\ ~released
    /\ status' = "pending"
    /\ UNCHANGED <<owner, token, leaseLeft, attemptCount, retryLimit, failure, nextIn,
                   ledger, released, worker, repository, published, manual, faults, cancelled>>

\* ScmPublicationService.retry and ScmPublication.retry.
Retry ==
    /\ status = "failed" /\ ~released
    /\ manual < MaxManual /\ manual' = manual + 1
    /\ status' = "pending" /\ owner' = NoWorker /\ token' = 0 /\ leaseLeft' = 0
    /\ failure' = "none" /\ retryLimit' = 0 /\ nextIn' = Unscheduled
    /\ UNCHANGED <<attemptCount, ledger, released, worker, repository, published, faults, cancelled>>

\* ScmPublicationService.cancel_automatic_retry.
CancelAutomaticRetry ==
    /\ status = "failed" /\ nextIn # Unscheduled
    /\ retryLimit' = 0 /\ nextIn' = Unscheduled
    /\ cancelled' = cancelled \cup {attemptCount}
    /\ UNCHANGED <<status, owner, token, leaseLeft, attemptCount, failure,
                   ledger, released, worker, repository, published, manual, faults>>

\* ExternalExecutionService.release_workspace, called by the workspace cleanup.
ReleaseWorkspace ==
    /\ ~released /\ released' = TRUE
    /\ UNCHANGED <<publication, ledger, worker, repository, published, manual, faults, cancelled>>

\* People commit in the managed workspace, whose agent has ended.
CommitToWorkspace ==
    /\ ~released /\ head < MaxCommits /\ head' = head + 1
    /\ UNCHANGED <<publication, ledger, released, worker, branch, stray, published,
                   manual, faults, cancelled>>

-----------------------------------------------------------------------------
\* Mutant: every retryable failure is claimed again, scheduled or not.
AnyRetryable == status = "failed" /\ failure = "retryable"

\* A failure whose automatic retry is due and within its limit.
ScheduledRetry ==
    status = "failed" /\ failure = "retryable" /\ nextIn = 0 /\ attemptCount <= retryLimit

\* Mutant: the lease of a lost worker is never taken over.
LeaseEternal == FALSE

LeaseExpired == status = "claimed" /\ leaseLeft = 0

\* The WHERE clause of claim_next, which ScmPublication.claim checks again.
Claimable == status = "pending" \/ LeaseExpired \/ ScheduledRetry

\* Mutant: a counted attempt is tested for before the expired lease.
TriggerCountFirst ==
    CASE attemptCount > 0 -> "manual" [] OTHER -> "initial"

\* ScmPublication.claim_trigger: why the attempt about to start is made.
ClaimTrigger ==
    CASE LeaseExpired -> "lease_recovery"
      [] status = "failed" -> "automatic"
      [] status = "pending" /\ attemptCount > 0 -> "manual"
      [] OTHER -> "initial"

\* ScmPublicationService.claim_next: the claim and its ledger row.
Claim(w) ==
    /\ phase[w] = "idle" /\ Claimable
    /\ status' = "claimed" /\ owner' = w
    /\ attemptCount' = attemptCount + 1 /\ token' = attemptCount + 1
    /\ leaseLeft' = LeaseSeconds
    /\ failure' = IF ScheduledRetry THEN "none" ELSE failure
    /\ nextIn' = IF ScheduledRetry THEN Unscheduled ELSE nextIn
    /\ ledger' = Append(ledger, [trigger |-> ClaimTrigger, worker |-> w,
                                 status |-> "claimed", failure |-> "none"])
    /\ phase' = [phase EXCEPT ![w] = "preparing"]
    /\ held' = [held EXCEPT ![w] = attemptCount + 1]
    /\ left' = [left EXCEPT ![w] = MaxPrep]
    /\ UNCHANGED <<retryLimit, released, outcome, commit, repository, published,
                   manual, faults, cancelled>>

-----------------------------------------------------------------------------
\* _next_attempt_at's delay: doubled for every attempt until MaxDelay caps it.
StepsToCap ==
    CHOOSE s \in 0..MaxDelay :
        /\ BaseDelay * 2^s >= MaxDelay
        /\ \A t \in 0..(s - 1) : BaseDelay * 2^t < MaxDelay

RetryDelay(attempt) ==
    LET exponent == attempt - 1
        delay == BaseDelay * 2^(IF exponent < StepsToCap THEN exponent ELSE StepsToCap)
    IN  IF delay \in 1..MaxDelay THEN delay ELSE MaxDelay

\* _next_attempt_at, with the worker's own copy of attempt_count and limit.
NextAttemptIn(w) ==
    IF Limit[w] = 0 \/ held[w] > Limit[w] THEN Unscheduled ELSE RetryDelay(held[w])

\* The provider call is over: _classify_failure, then the schedule.
Resolve(w, result) ==
    /\ phase' = [phase EXCEPT ![w] = "reporting"]
    /\ outcome' = [outcome EXCEPT ![w] = result]
    /\ left' = [left EXCEPT ![w] = IF result = "retryable" THEN NextAttemptIn(w)
                                                           ELSE Unscheduled]
    /\ commit' = [commit EXCEPT ![w] = IF result = "published" THEN @ ELSE 0]
    /\ UNCHANGED <<publication, ledger, released, held, head, published, manual, faults, cancelled>>

\* run_once reads the external execution: a released workspace is refused.
\* Otherwise publish_review starts with a timeout of its own and reads HEAD.
Prepare(w) ==
    /\ phase[w] = "preparing"
    /\ \/ released /\ Resolve(w, "fatal") /\ UNCHANGED <<branch, stray>>
       \/ /\ ~released
          /\ phase' = [phase EXCEPT ![w] = "pushing"]
          /\ left' = [left EXCEPT ![w] = Timeout]
          /\ commit' = [commit EXCEPT ![w] = head]
          /\ UNCHANGED <<publication, ledger, released, held, outcome, repository, published,
                         manual, faults, cancelled>>

\* Mutant: pushes are forced (--force, or a refspec with "+").
AcceptsForced(c) == TRUE

\* The provider takes a push that is not forced only if the branch's commits
\* stay on the branch.
Accepts(c) == branch <= c

\* git push, of the commit and not of the branch.
Push(w) ==
    /\ phase[w] = "pushing" /\ Accepts(commit[w])
    /\ branch' = commit[w]
    /\ phase' = [phase EXCEPT ![w] = "reviewing"]
    /\ UNCHANGED <<publication, ledger, released, held, left, outcome, commit, head, stray,
                   published, manual, faults, cancelled>>

\* A call is over whose git process may go on pushing: nobody kills it when
\* wait_for cancels the call, or when the worker process dies.
MayGoOnPushing(w) ==
    /\ stray' \in {stray, stray \cup (IF phase[w] = "pushing" THEN {commit[w]} ELSE {})}
    /\ UNCHANGED branch

\* A check of the workspace fails, the push is refused, or git is killed after
\* a timeout of its own, when the provider may have taken the push all the same.
PushFails(w) ==
    phase[w] = "pushing" /\ Resolve(w, "fatal") /\ MayGoOnPushing(w)

\* find_or_create_pull_request returns or raises, and _validate_result judges
\* what publish_review returned.
Publish(w) ==
    /\ phase[w] = "reviewing"
    /\ \E result \in {"published", "retryable", "fatal"} : Resolve(w, result)
    /\ UNCHANGED <<branch, stray>>

\* asyncio.wait_for cancels the call when its time is up: always retryable.
TimeOut(w) ==
    /\ phase[w] \in {"pushing", "reviewing"} /\ left[w] = 0
    /\ Resolve(w, "retryable") /\ MayGoOnPushing(w)

\* A push whose call is over arrives at the provider, if it ever does.
StrayPush ==
    \E c \in stray :
        /\ stray' = stray \ {c} /\ branch' = IF Accepts(c) THEN c ELSE branch
        /\ UNCHANGED <<publication, ledger, released, worker, head, published,
                       manual, faults, cancelled>>

\* Mutants: the token, or the whole claim, is not checked.
OwnsAnyToken(w) == status = "claimed" /\ ledger[attemptCount].status \in {"missing", "claimed"}
OwnsUnchecked(w) == TRUE

\* ScmPublication._require_claim and ScmPublicationAttempt._require_claim.
Owns(w) ==
    /\ status = "claimed" /\ token = held[w]
    /\ ledger[attemptCount].status \in {"missing", "claimed"}

\* A worker's process is idle again: its call returned, or it was restarted.
Idle(w) ==
    /\ phase' = [phase EXCEPT ![w] = "idle"]
    /\ held' = [held EXCEPT ![w] = 0]
    /\ left' = [left EXCEPT ![w] = 0]
    /\ outcome' = [outcome EXCEPT ![w] = "none"]
    /\ commit' = [commit EXCEPT ![w] = 0]

\* _finish writes the row of the current attempt, supplying one for an
\* attempt older than the ledger.
FinishedRow(row, s, f) ==
    IF row.status = "missing"
    THEN [trigger |-> "lease_recovery", worker |-> owner, status |-> s, failure |-> f]
    ELSE [trigger |-> row.trigger, worker |-> row.worker, status |-> s, failure |-> f]

\* Mutant: the attempt is not saved with the publication.
AttemptNotSaved(s, f) == UNCHANGED ledger

FinishAttempt(s, f) ==
    ledger' = [ledger EXCEPT ![attemptCount] = FinishedRow(ledger[attemptCount], s, f)]

\* ScmPublicationService.succeed.
Succeed(w) ==
    /\ phase[w] = "reporting" /\ outcome[w] = "published" /\ Owns(w)
    /\ status' = "succeeded" /\ leaseLeft' = 0
    /\ failure' = "none" /\ nextIn' = Unscheduled
    /\ FinishAttempt("succeeded", "none") /\ published' = commit[w] /\ Idle(w)
    /\ UNCHANGED <<owner, token, attemptCount, retryLimit, released, repository,
                   manual, faults, cancelled>>

\* ScmPublicationService.fail.
Fail(w) ==
    /\ phase[w] = "reporting" /\ outcome[w] \in {"retryable", "fatal"} /\ Owns(w)
    /\ status' = "failed" /\ leaseLeft' = 0
    /\ failure' = outcome[w]
    /\ retryLimit' = Limit[w] /\ nextIn' = left[w]
    /\ FinishAttempt("failed", outcome[w]) /\ Idle(w)
    /\ UNCHANGED <<owner, token, attemptCount, released, repository, published,
                   manual, faults, cancelled>>

\* A lease that was taken over: InvalidStateTransition leaves run() and ends
\* the process, which is started anew.
Rejected(w) ==
    /\ phase[w] = "reporting" /\ ~Owns(w) /\ Idle(w)
    /\ UNCHANGED <<publication, ledger, released, repository, published, manual, faults, cancelled>>

Crash(w) ==
    /\ phase[w] # "idle" /\ Idle(w) /\ MayGoOnPushing(w)
    /\ faults < MaxFaults /\ faults' = faults + 1
    /\ UNCHANGED <<publication, ledger, released, head, published, manual, cancelled>>

-----------------------------------------------------------------------------
\* The lease runs out under a worker that has not crashed.
LapsesUnderHolder ==
    status = "claimed" /\ leaseLeft = 1
    /\ \E w \in Workers : phase[w] # "idle" /\ held[w] = token

\* Time passes.  No worker prepares longer than MaxPrep or stays in its call
\* past the timeout; a report, or a stray push, may take any time.
Tick ==
    /\ leaseLeft > 0 \/ nextIn > 0 \/ \E w \in Workers : left[w] > 0
    /\ \A w \in Workers : phase[w] \in {"preparing", "pushing", "reviewing"} => left[w] > 0
    /\ LapsesUnderHolder => faults < MaxFaults
    /\ faults' = IF LapsesUnderHolder THEN faults + 1 ELSE faults
    /\ leaseLeft' = Later(leaseLeft) /\ nextIn' = Later(nextIn)
    /\ left' = [w \in Workers |-> Later(left[w])]
    /\ UNCHANGED <<status, owner, token, attemptCount, retryLimit, failure, ledger,
                   released, phase, held, outcome, commit, repository, published,
                   manual, cancelled>>

Step(w) ==
    \/ Claim(w) \/ Prepare(w) \/ Push(w) \/ PushFails(w) \/ Publish(w) \/ TimeOut(w)
    \/ Succeed(w) \/ Fail(w) \/ Rejected(w)

Next ==
    \/ Request \/ Retry \/ CancelAutomaticRetry \/ ReleaseWorkspace \/ CommitToWorkspace
    \/ \E w \in Workers : Step(w) \/ Crash(w)
    \/ StrayPush \/ Tick

Spec == Init /\ [][Next]_vars

\* Worker processes keep polling, reporting and being restarted, and time
\* passes; nobody has to request, retry, cancel, release or commit anything,
\* and no stray push has to arrive.
FairSpec == Spec /\ WF_vars(Tick) /\ \A w \in Workers : WF_vars(Step(w))
-----------------------------------------------------------------------------
\* The publication, its attempt rows and its workers have their types; no lease
\* has a negative time left.
TypeOK ==
    /\ status \in Statuses /\ owner \in Workers \cup {NoWorker}
    /\ token \in Nat /\ leaseLeft \in Nat /\ attemptCount \in Nat
    /\ retryLimit \in 0..MaxAutomaticRetryLimit /\ failure \in Failures /\ nextIn \in Int
    /\ ledger \in Seq(Row) /\ released \in BOOLEAN
    /\ phase \in [Workers -> Phases] /\ held \in [Workers -> Nat]
    /\ left \in [Workers -> Int] /\ outcome \in [Workers -> Outcomes]
    /\ commit \in [Workers -> Nat] /\ head \in Nat /\ branch \in Nat /\ stray \subseteq Nat
    /\ published \in Nat /\ manual \in Nat /\ faults \in Nat /\ cancelled \subseteq Nat

\* The publication row is the summary of its attempt ledger (ADR 0056: the
\* claim and its row are written in one transaction): one row per counted
\* attempt, the last row is open exactly while the publication is claimed and
\* otherwise carries the publication's own outcome, and only the last row of a
\* succeeded publication records a success.
LedgerAgrees ==
    /\ Len(ledger) = attemptCount
    /\ status \in {"claimed", "succeeded", "failed"} =>
          /\ attemptCount > 0 /\ token = attemptCount
          /\ ledger[attemptCount].status \in {status, "missing"}
          /\ ledger[attemptCount].status = "failed" =>
                ledger[attemptCount].failure = failure
    /\ status = "succeeded" => ledger[attemptCount].status = "succeeded"
    /\ (status \in {"absent", "pending"} /\ attemptCount > 0) =>
          ledger[attemptCount].status \in {"failed", "missing"}
    /\ \A i \in 1..attemptCount :
          ledger[i].status = "succeeded" => (i = attemptCount /\ status = "succeeded")

\* Why an attempt was made (its trigger) is what became of the one before it,
\* whoever interfered in between: only the first is "initial", a manual or an
\* automatic one follows a recorded failure (an automatic one a retryable
\* failure), and an attempt that never reported is followed by a lease
\* recovery and by nothing else.
TriggersExplain ==
    \A i \in 1..Len(ledger) :
        /\ ledger[i].trigger = "initial" => i = 1
        /\ ledger[i].trigger \in {"manual", "automatic"} => i > 1
        /\ (i > 1 /\ ledger[i - 1].status # "missing") =>
              /\ ledger[i].trigger \in {"manual", "automatic"} => ledger[i - 1].status = "failed"
              /\ ledger[i].trigger = "automatic" => ledger[i - 1].failure = "retryable"
              /\ ledger[i].trigger = "lease_recovery" => ledger[i - 1].status = "claimed"

\* ADR 0054: the limit counts every attempt after the first, so an attempt is
\* automatic only within the limit of the worker that recorded the failure
\* before it, however crashes, lease recoveries, manual retries and workers
\* with other limits are interleaved with it.
AutomaticBounded ==
    \A i \in 1..Len(ledger) :
        ledger[i].trigger = "automatic" =>
            i > 1 /\ ledger[i - 1].worker \in Workers /\ i <= Limit[ledger[i - 1].worker] + 1

\* ADR 0055: after the automatic retry of an attempt was cancelled, the next
\* attempt, if there is one, was asked for by an operator; no late report of a
\* slow worker brings the schedule back.
CancelledStaysCancelled ==
    \A i \in cancelled : i < Len(ledger) => ledger[i + 1].trigger = "manual"

\* Together: row and ledger tell one history, why each attempt was made
\* included.
LedgerTellsHistory == LedgerAgrees /\ TriggersExplain

\* Together: no attempt that nobody asked for is made beyond the limit or
\* after it was cancelled.
RetriesBounded == AutomaticBounded /\ CancelledStaysCancelled

\* ADR 0056: a recorded outcome is never rewritten, not even by the late
\* report of a worker whose lease was taken over.
OutcomesImmutable ==
    [][\A i \in 1..Len(ledger) :
          ledger[i].status \in {"succeeded", "failed"} => ledger'[i] = ledger[i]]_vars

\* An open attempt is closed only by the worker that was given its lease, and
\* only while no later attempt exists.
ClosedByHolder ==
    [][\A i \in 1..Len(ledger) :
          ledger'[i].status # ledger[i].status =>
              /\ i = Len(ledger)
              /\ \E w \in Workers : phase[w] = "reporting" /\ held[w] = i
                                    /\ ledger'[i].worker = w]_vars

\* The publication as an item of a lease queue: a failure is "retrying" while
\* its automatic retry is scheduled, a claim whose lease ran out has "lapsed".
ItemStatus ==
    CASE LeaseExpired -> "lapsed"
      [] status = "failed" /\ nextIn # Unscheduled -> "retrying"
      [] OTHER -> status

Publications == 1..1
Item == [i \in Publications |-> ItemStatus]
LeaseCount == [i \in Publications |-> attemptCount]
Holds == [w \in Workers |-> [item |-> IF held[w] = 0 THEN 0 ELSE 1, lease |-> held[w]]]

Leases == INSTANCE LeaseQueue WITH
    Queue <- 1, Retries <- TRUE,
    status <- Item, leases <- LeaseCount, hold <- Holds

\* ADR 0048: the publication keeps the promises of a lease queue (module
\* LeaseQueue), whatever its ledger, its clocks and its provider do.
KeepsLeaseQueue == Leases!Spec

\* Together: a late report changes nothing, whoever sends it.
FencedReports == OutcomesImmutable /\ ClosedByHolder /\ KeepsLeaseQueue

\* ADR 0047: publication never takes work back.  A lease may lapse under a call
\* that is still pushing, and a push may outlive its call: whatever overlapping
\* and abandoned calls do, the branch at the provider keeps the commit that the
\* succeeded publication's own call had pushed when its review was found or
\* opened, and a call looks for its review only when its commit is there.
PublishedStays ==
    /\ status = "succeeded" => published > 0 /\ published <= branch
    /\ \A w \in Workers :
          phase[w] = "reviewing" \/ outcome[w] = "published" =>
              commit[w] > 0 /\ commit[w] <= branch

\* ADR 0052: a crash is repaired by the expiry of the lease: a requested or
\* retried publication always comes to an outcome.
Settles ==
    status \in {"pending", "claimed"} ~> status \in {"succeeded", "failed"}
=============================================================================
