# Verification of the jb-orchestrator core

TLA+ models of the parts of jb-orchestrator that carry its promises (durable
execution, leases, ledgers, projections, idempotent requests, replayable
events), the TLC configurations that check them, and TLAPS proofs of their main
properties for every value of their parameters. `PROJECT.json` maps every
definition to the lines it models and lists runs, mutants, findings, hazards and
theorems.

Paths below are relative to `src/jb_orchestrator/` of the repository.

## 1. The system

A **project** receives **requests**; a request gets a **run**; starting a
workflow on the run creates a **workflow execution** on an immutable snapshot
of a workflow graph. **Workers** claim the ready tasks of the graph under a
lease, renew it by heartbeats, reserve budget, call an installed executor,
settle the cost and report; the **engine** routes to the next nodes. Tasks that
ran in an external system leave an **external execution** with a workspace, which
**publication workers** publish to an SCM provider and **workspace operations**
clean up. **Readiness monitors** look for ready tasks no live worker can claim,
and queue **notifications**. Everything that happens appends to the **event
ledger**, which clients follow over SSE. Clients (the Jarvis UI, the MCP server,
the CLI with its bundles) reach all of it through one HTTP API with bearer
credentials. All state is in PostgreSQL. An operation is one transaction of a unit
of work that locks the rows it changes; between transactions a process holds only
what is in its memory (a lease token, a claim, a cursor).

### Inventory

| Component | State | Operations | What is hard | What makes it correct |
|---|---|---|---|---|
| Workflow definition (`workflows/models.py`) | immutable graph | validate, select edges | conditional edges, fork/join, bounded loops | targets exist, every node leads to an end |
| Engine and dispatch (`workflows/engine.py`, `application/task_dispatch.py`, `application/workflow_services.py`) | status, visits, attempts, outcome and lease of every node, artifacts | start, claim, heartbeat, complete, fail, recover, begin/complete/fail by API, resolve approval, cancel | late workers, expiry racing reports, parallel branches, re-activation of active nodes, joins | fencing, one artifact per visit, limits, joins wait, ended means quiet, progress |
| Requests and runs (`application/services.py`, `application/execution_lifecycle.py`, `domain/`) | statuses of request, run, execution; run version | create, start, approve, cancel, advance with projection | reads before locks, stale writes, lock order | the three rows agree, ends are final, no deadlock |
| Budgets (`budgets/`, `application/budget_services.py`, `worker/runtime.py`) | account, reservations, usage records | configure, reserve, settle, forfeit, release | overlapping attempts on one reservation, crash between settle and report, limit | balances equal ledgers, limit kept, charged exactly once |
| External executions (`external_executions/`, `application/external_execution_services.py`, `adapters/openclaw`) | a row per task visit, a run at the gateway | prepare, start, accept, wait, finish, cancel | overlapping attempts, lost answers, cancel racing the end | one external run per visit, reports agree with the row |
| SCM publications (`scm/`, `application/scm_publication_services.py`) | publication row, attempt ledger | request, claim, succeed, fail, retry, cancel retry | lease takeover, timeouts, several retry limits, old rows without ledger | row and ledger agree, late reports refused, bounded retries |
| Workspace operations (`workspace_operations/`, `adapters/openclaw`) | queue with leases; a Git worktree and branch | request, claim, inspect, cleanup, report | cleanup run twice, commits between check and removal | no uncommitted or unmerged work is removed, every operation ends |
| Notifications (`notifications/`, `application/notification_services.py`) | subscriptions, deliveries, attempts | configure, enqueue, claim, report, retry, cancel | as publications, plus subscription changes | ledger explains every delivery, every delivery settles |
| Worker presence and readiness (`worker_presence/`, `application/worker_readiness_services.py`) | instances, alerts, the monitor's cursor | register, heartbeat, stop, evaluate, page | staleness, concurrent evaluators, raising projects | one alert and one notification per occurrence, alerts follow the fleet, no project starves |
| Request dispatch and recommendations (`application/request_dispatch_services.py`, `workflows/recommendations.py`) | receipts, bindings | dispatch, replay, bind, recommend | concurrent duplicates, lost answers, stale recommendations | one run per submission, answers are true |
| Service accounts (`security/`, `application/security_services.py`) | accounts, credentials, audit events | issue, rotate, authenticate, revoke, report | no row locks, revocation racing use, pages | audit and rows agree, the report is complete |
| Event ledger and SSE (`infrastructure/database/repositories.py`, `api/event_streams.py`) | events by sequence, a cursor per stream | append, page, stream, reconnect | commit order against sequence order, broken connections | order, no duplicates, nothing missed |
| Bundles and catalogs (`cli/bundles.py`, skill, model, phase pack and workflow services) | immutable versioned entries | plan, apply, register, bind | nothing spans two posts, concurrent operators, late posts | what is stored is what was written, re-applying converges |
| HTTP boundary and clients (`api/`, `mcp_server/`, `cli/`, `apps/jarvis`) | none of their own | route, authenticate, authorise, validate, translate errors | three clients spell paths and permissions by hand | every shipped call is served |
| Model routing, skills, phase packs | immutable catalogues | select, materialize, validate | ties, limits, I/O | deterministic choice |
| Preflight, release check, smoke tests, migrations | none | | | |

Interactions: dispatch and API call the engine inside a transaction and then
`synchronize_execution_lifecycle`; the worker runtime calls budget service and
dispatch service in turn, in separate transactions; the OpenClaw executor calls the
external execution service between calls of the gateway; cancellation releases
reservations in its own transaction; publications read external executions; alerts
enqueue their deliveries in the transaction that opens them; every service appends
events in the transaction of the change.

## 2. Modules

| Module | Models | Proofs |
|---|---|---|
| `WorkflowDefinition` | the graph constants and the validation of `workflows/models.py` (the assumption all engine proofs rest on), edge selection, two conditions on graphs that validation does not ask for | |
| `WorkflowEngine` | one execution | `WorkflowEngineProofs` |
| `WorkflowStatus` | abstract lifecycle of an execution's status | implemented by `WorkflowEngine` and `RunLifecycle` |
| `RunLifecycle` | request, run and execution rows under concurrent transactions | `RunLifecycleProofs` |
| `TaskBudget` | account, reservations, usage, and the worker runtime around them | `ControlPlaneProofs` |
| `ExternalExecution` | the external run of a task visit and the attempts that share it | `WorkerProofs` |
| `LeaseQueue` | what a queue worked off under leases promises; abstract, implemented by the three modules below | `LeaseQueueProofs` |
| `ScmPublication` | one publication, its attempt ledger and its workers | `ScmPublicationProofs` |
| `NotificationDelivery` | the outbox, its attempts, events, workers and operators | `BackgroundServicesProofs` |
| `WorkspaceOperation` | queued inspections and cleanups over a Git worktree | `BackgroundServicesProofs` |
| `WorkerReadiness` | presence, alerts, subscriptions and what they enqueue | `WorkerProofs` |
| `ReadinessMonitor` | the monitors' rounds over the projects | `BackgroundServicesProofs` |
| `RequestDispatch` | composer and MCP client, receipts, binding, recommendation, run creation | `ControlPlaneProofs` |
| `ServiceAccounts` | accounts, credentials, audit, readiness report | `ControlPlaneProofs` |
| `EventStream` | the event ledger and its SSE streams | `StreamsBundlesProofs` |
| `CatalogBundle` | bundle planning and application against the catalogs | `StreamsBundlesProofs` |
| `Ordering` | a finite set listed in an order: the sort of the recommendations and the `ORDER BY` of the accounts | |
| `Interfaces` | route table, authentication, authorisation, and every call of the three clients | `ControlPlaneProofs` |
| `MC*` | constants for TLC, and the suites of section 3 | `BackgroundServicesProofs`, `ControlPlaneProofs`, `StreamsBundlesProofs` for the suites |

Definitions marked *mutant* are plausible mistakes; each stands in front of the
definition it replaces and is used only to see that a property notices it.

**WorkflowEngine.** Every operation is one transaction on the execution row.
`_activate` and `_route` call each other recursively; the calls still to be made
are the list `todo`, worked off by `Activate` before anything else may happen,
so a state with an empty list is a committed one. `artifacts` keeps the visits in
the order they were stored, and `claims` every claim ever given out: a worker may
come back with any of them, at any time, which covers slow, duplicated and dead
workers at once. A lease is stored as its remaining time, so time is unbounded;
`lag` is the age of the clock value a call uses after waiting for the row lock.
The JSON Schema of an output is left out: `enforce_output_contract`
(`application/output_contracts.py:17-52`) turns a success that breaks it into the outcome
failure, which a worker may report here anyway. Executor keys are left out: they restrict who claims, and any
worker may claim here.

**RunLifecycle.** A transaction is begun (its reads before the first lock),
takes its locks one by one, and commits or rolls back at any point. What was
loaded is kept in `seen`, as in the session's identity map. The version column is
the set `stale`. Steps of the engine appear as "advance", which may move the
status as `WorkflowStatus` allows; that the engine moves it in no other way is
the theorem `LifecycleRefined`.

**TaskBudget.** A task is one visit of a task node with a model selection in a
project with an account (without either, `reserve` does nothing). Leases may
expire at any time. A worker's `phase` is its position in `run_once`; it may
crash at each. A second visit of a node has an idempotency key of its own and is
a task of its own. The end of the workflow (`EndWorkflow`) cancels the other
tasks, and does not touch their reservations, as in the code. An amount is a number
of units, and a sum over tasks (`Total`) the cardinality of the set of these units.

**ExternalExecution.** An attempt is a coroutine of a worker; the attempts of one
visit share an idempotency key, hence a row and a gateway run. Every service call
and every gateway call is a step; an answer may be lost after the gateway acted;
the worker may crash or interrupt the attempt between any two steps. The gateway is
external: it starts one run per key, which is what the adapter relies on.

**LeaseQueue.** Publications, deliveries and workspace operations share one protocol, which
the code repeats in three modules (`claim`, `succeed`, `fail`, `_require_claim` of
`scm/models.py`, `notifications/models.py`, `workspace_operations/models.py`): an item is
claimed under a lease, may be claimed again once the lease ran out, and only the report
with the latest token counts. `LeaseQueue` is that protocol without clocks, ledgers and
side effects: a status, the number of leases granted, and what each worker believes to
hold. `ScmPublication` (`Leases`), `NotificationDelivery` (`NtLeases`) and
`WorkspaceOperation` (`WsLeases`) instantiate it under a refinement mapping: a claim whose
lease ran out is "lapsed", a failure with a retry to come "retrying", the number of leases
is the attempt counter (for operations the token), and a worker's token is the lease it
believes in. `Init` of `LeaseQueue` is any state that keeps `Fenced`, since publications
may be older than their ledger.

**ScmPublication.** Deadlines are remaining times. Attempts from before the
attempt ledger are counted but have no row (`missing`). A worker is preparing
(database reads), pushing or reviewing (the two halves of the provider call, under one
timeout) or reporting; reports may come at any time later, also after takeover. Commits of
the workspace are numbered, each containing those before it. The push names a commit and is
not forced (`publisher.py:67-74` of the GitHub adapter), so the branch takes it only if it
contains what is there. The runtime relates the timeout to the lease, but the lease
runs from the claim: it may lapse during a call, and two workers may publish at once. The end
of a call (`TimeOut`, `Crash`) does not end its `git push`, which nobody kills
(`git_client.py:37-44`): it may arrive at any time later (`StrayPush`), or never. The lookup
and creation of the review is abstracted to what the call comes to.

**NotificationDelivery.** Like publications, but with several deliveries, providers
a worker may not have, and the events of the ledger; time is not counted, a lease
may lapse and a retry come due at any moment.

**WorkspaceOperation.** Commits on the branch are numbered and the target contains
the first of them. Inspection, removal of the worktree and deletion of the branch
are separate steps, and people commit, edit and merge in between.

**WorkerReadiness, ReadinessMonitor.** An evaluation takes the project's advisory
lock and inspects the fleet, then writes alerts and deliveries and commits; workers
start, stop, crash and grow stale in between. A worker id is served by successive
processes with rows of their own. The monitor keeps a cursor in memory, loses it in a
restart, and walks over projects that are created, archived or always raise. A page is
the set of its projects still to evaluate, taken from the newest on.

**RequestDispatch.** A dispatch claims its receipt, then selects a workflow, creates
the run and commits; its answer may be lost at any time. A prompt and a workflow's
text are sets of terms, so score, order, confidence and automatic choice of a
recommendation are computed as in the code; `Ordering` is its sort. Whether the project is
active is what the call read before it claimed its receipt. `DpLeads` is the reference for
an automatic choice: how far the best workflow must be ahead of all that were on offer.

**ServiceAccounts.** A call reads, and later writes and commits; nothing is locked,
so a revocation commits between another call's read and write. A credential is its
row's number, a time a natural number (0 for null).

**EventStream.** An event is its sequence number, given out at insertion. A
stream has a page (the set of its events, yielded from the lowest on), a cursor and the
events on the wire; a broken connection loses page and wire, and the client reconnects with the last id it received.
`overtaken` records the events still uncommitted when a later one committed.

**CatalogBundle.** An operator reads entry by entry, plans, and posts entry by entry;
posts are lost, are served after the client gave up, or lose their answer. Content is
a value and its spelling: `Project`, `ModelProfile` and the `ModelRoutingRequest` of a
workflow's nodes normalise the spelling, and the comparison of the plan sees it. The project
is looked up in a list of the newest ones (`PROJECTS_PATH`, 500 in the code), once for the
plan and once for the application, and drops out of it when enough others are registered
(`cbNewer`). The requests of a plan, and of its application, are a
set of places in the file; an operator goes from one place to the next.

**Interfaces.** The routes in the order they are declared, with the body and headers
they insist on; the permission derived from the spelling of the path; and the calls
of the Jarvis routes, the MCP tools and the CLI, one definition per file or group.
What handlers do is in the other modules.

## 3. Runs

Three *suites* (`MCBackgroundServices`, `MCConnections`, `MCControlPlane`) put
components that do not interact into one run: the first state picks a component in
`part`, which then runs against its own environment while the others stay in their
initial states. The run is the union of the components' runs, not their product; a
component's fairness holds in the behaviours it runs in.

| Run | Result | Shows |
|---|---|---|
| `workflow_parallel` | holds, 65 041 states | Fork with three branches, two approvals, a task activated by two branches while it may be running, a join and a task that needs the result behind it: quiescence, fencing, approvals, joins, inputs, and progress although workers holding claims may die |
| `workflow_repair` | holds, 11 876 states | Bounded repair loop with conditional edges, workers and lease-free API clients: one artifact per visit, limits, fresh visits, finality, implementation of `WorkflowStatus` |
| `workflow_branch_repair` | **violated** | `JoinWaitsForResults`: the join fires while a branch is being repaired |
| `run_cancel_race` | **violated** | `CancelClosesHierarchy`: a start between the lookup and the lock of `cancel_run` survives the cancellation |
| `background_services` | holds, 98 989 states | Requests, runs and executions under three clients: consistency of the rows, finality, implementation of `WorkflowStatus`, no transaction waits for ever. Notifications: the ledger explains every delivery, the events tell its state, and it settles. Deliveries and workspace operations implement `LeaseQueue`. Readiness: alerts follow the fleet. Monitor: no project starves behind broken ones. Workspaces: no work is lost and every operation ends |
| `connections` | holds, 244 720 states | Publications by two workers with different retry limits, crashes, late reports, lapsing leases, pushes that outlive their call, operators and legacy attempts: ledger, limits, fencing, implementation of `LeaseQueue`, a published branch keeps what was published, and every publication settles. Streams: order, no duplicates, nothing missed except overtaken events, everything else delivered. Bundles: what the catalog holds is what the file says, and an operator who runs a failed command again gets through unless the file itself, its spelling or the length of the list of projects stands in the way |
| `control_plane` | holds, 1 275 980 states | Budgets: conservation, limit, charging. External executions: reports agree, identity kept. Dispatch: one run per submitted form, answers are true, an automatic choice was the best one. Accounts: audit agrees with the rows, the report misses nobody. Interfaces: every shipped call is served. Readiness under two evaluators: one notification per occurrence |
| `budget_final_failure` | **violated** | `FinalFailureCharged`: recovery of the last attempt leaves the reservation open |
| `event_gap` | **violated** | `EsNoGap`: an overtaken event is never streamed |
| `bundle_reapply` | **violated** | `CbReapplyConverges`: an apply is cut off after its model was registered, and the same file conflicts with its own registration from then on |
| `unclear_dispatch` | **violated** | `DpAutomaticIsClear`: a recommendation of one candidate takes a near tie for a clear winner, which is dispatched unconfirmed |
| `mcp_approval` | **violated** | `IfToolApproves`: the MCP tool `approve_workflow_node` posts no body and is always answered 422 |

The seven violations are differences between the code and what it or its documents
say; `findings` in `PROJECT.json` quotes the lines.

Properties of one question are conjunctions of named parts, so that a counterexample
still names the part it breaks: `ClaimsFenced` (lease fencing, attempts claimed once),
`StatusTellsNodes` (terminal quiescence, approvals exist), `SourcesFirst` (joins after
sources, inputs stored), `VisitsAccounted` (one artifact per visit, limits),
`StepsLegal` (finality, fresh revisits, `WorkflowStatus`), `HierarchyAgrees` and
`PromisesKept` (rows and steps of `RunLifecycle`), `AccountSound` and `ChargesExplained`
(budget), `LedgerTellsHistory`, `RetriesBounded` and `FencedReports` (publication; the last with its
refinement of `LeaseQueue`), `NtHistoryTold` (ledger and events of a delivery),
`LeaseQueuesKept` (the refinements of deliveries and operations),
`EsReplayFaithful` (streams).

**Bounds.** Two visits and two attempts are the smallest numbers at which a
retry, an expiry of a retry and a revisit differ; one lag unit suffices to let a
call use a clock from before an expiry; three clients give a canceller, a starter
and a transaction in between, and two suffice for the race; costs 0 and 3 lie
below and above both estimates; a page of two and three events make a full page, a
partial one and an event that arrives behind a cursor. Three external attempts let one
be interrupted, one finish and one read the result; two dispatch calls are the duplicate
pair, with a change of catalog or binding between them; two calls on accounts are the
racing pair, and page size 1 puts every account on a page of its own; four projects with
a page of two put a broken project first and last on a page; one fault per bundle run
lets a post be served after its client gave up while the other operator works, or another
project push the operator's own out of a list of one; two commits are what is pushed before
and after a call that timed out; limits of one and two candidates hide and show the
runner-up of two workflows that lie three points apart. Of the publications older than the
ledger the suite takes those of the second worker whose branch is not there yet.
`MaxBeats`, `MaxManual`, `MaxFaults`, `MaxPrep`, `MaxCommits`, `EsMaxEvents`, `EsMaxDisconnects`, `NtMaxManual`,
`NtMaxFaults`, `RdStarts`, `RdVisits`, `RdMaxFaults`, `MnRestarts`, `WsMaxCommits`,
`WsMaxFaults`, `ExMaxAttempts`, `DpMaxCalls`, `DpMaxEdits`, `DpMaxRecs`, `DpMaxChanges`,
`AcMaxCredentials`, `AcMaxCalls`, `AcMaxClock` and `CbMaxFaults` bound what the code leaves
unbounded. Proofs need none of the bounds on clients, workers, tasks, attempts or
graphs. Deadlock checking is off where all work may be done; of `RunLifecycle`, whose
states of rest are such, `TransactionsFinish` says that no transaction is stuck.

**Fairness.** `WorkflowEngine`: a transaction runs to its end, time passes, and
the worker loop keeps calling `recover_expired` and `claim_next`
(`worker/runtime.py`, `run`); nothing is assumed of a worker that holds a claim,
or of people. `RunLifecycle`: PostgreSQL queues the waiters of a row, hence strong
fairness for lock acquisition; a transaction with all its locks ends.
`ScmPublication`, `NotificationDelivery`, `WorkspaceOperation`: time passes (leases lapse,
retries come due) and each worker process keeps taking steps (it is
restarted by its supervisor after an error); crashes and late reports are bounded,
since a worker that always crashes settles nothing. `WorkerReadiness`: a live process
sends its heartbeat in every interval, a dead one grows stale, the evaluator keeps
evaluating (`worker_presence/monitor.py`, `run`). `ReadinessMonitor`: the same loop.
`EventStream`: transactions end, streams poll and yield while connected, clients reconnect
(`EventSource`). `CatalogBundle`: a request that was sent is served in the end, and an
operator runs a failed command again. The safety properties assume no fairness.

## 4. Proofs

All theorems are of the form "every behaviour of the specification has the property",
for all values of the constants allowed by the named assumptions.

- **WorkflowEngineProofs** (any valid definition; `DefinitionAssumption`,
  `LeaseAssumption`): types, `TerminalQuiescent`, `LeaseFencing`,
  `AttemptClaimedOnce`, `OneArtifactPerVisit`, `LimitsRespected`,
  `JoinAfterSources`, `ApprovalExists`, `TerminalIsFinal`, `RevisitStartsAfresh`, the
  refinement `KeepsLifecycle`, and their conjunctions `ClaimsFenced`,
  `StatusTellsNodes`, `VisitsAccounted` and `StepsLegal`. The inductive invariant `IInv`
  adds to them that tokens are only those issued, that a claim is never ahead of its
  node's counters (so a new claim is new), that the artifact of the current visit exists
  only once the node succeeded (so completing it adds the first), that pending means
  unvisited and that only tasks are ready or running. `Stored` extends it for joins: a
  succeeded task has an artifact.

  `SourcesFirst` and `NotStranded` do not hold on every valid definition: validation
  asks that a needed input is connected to the node that needs it, and a join's source
  to the entry, but either may lie on a branch that was not taken. They are proved from
  a condition on the graph, which the theorem states as its hypothesis and TLC evaluates
  on the graphs of the runs (`GraphAssumption`):
  - `InputsCertain`: a needed task cannot be avoided on the way to the node that needs
    it; every set of nodes closed under the edges that can be taken before that task
    completes is a witness. The invariant `Confined` says that an execution stays
    inside each such set as long as the task has stored nothing.
  - `JoinsBalanced`: the sources of a join are the ends of the branches of one fork, and
    a branch is left only to the join or to an end. The invariant `WorkLeft` says
    that a branch and its join are entered only behind their fork, that every branch of
    an entered fork is alive (a node of it is active or listed in `todo`) or its last
    node has succeeded, and that a workflow that was started and has not ended has
    something listed or active: a join that is skipped lacks a source, whose branch is
    therefore still alive.
    Every action is first brought into one of a few shapes (`StepMoves`: nothing, a
    start, a join that is skipped, a node that waits, a node that routes).
- **RunLifecycleProofs** (any set of clients): types, `HierarchyAgrees` and
  `PromisesKept` with their parts, the refinement of `WorkflowStatus` among them.
  The invariant says that a row a transaction
  has locked still has the value it loaded, because every writer holds the lock;
  `start`, which loads before it locks, is covered by the version column.
- **ScmPublicationProofs** (any workers, limits, delays, attempts; `TimeAssumption`):
  types and all safety properties of its part of the run. `TimeAssumption` is what the
  runtime's constructor checks, `Timeout < LeaseSeconds` and the delays, and no theorem
  excludes that a lease lapses during a call. The invariant adds who holds which token, what
  a recorded failure leaves for its retry, that missing rows come first, and for
  `PublishedStays` which commit each call pushes (`HasCommit`): no push, a stray one neither,
  takes a commit off the branch (`BranchGrows`).
  Last, the publication implements the lease queue (see `LeaseQueueProofs`).
- **LeaseQueueProofs** (any queue, any workers, with or without retries): from `Fenced`
  (every lease somebody believes in was granted and to nobody else, and the latest one is
  believed in only while its item is claimed), which is inductive by itself, follow
  `OneHolder`, `ClosedByLatestLease`, `SuccessIsFinal` and `OneLeaseAtATime`. That
  publications, deliveries and operations implement the queue is proved once for each
  (`PublicationKeepsLeaseQueue`, `DeliveriesKeepLeaseQueue`, `OperationsKeepLeaseQueue`): under
  the component's own invariant and the fact that a worker at rest holds nothing, every
  action is a step of the queue or changes nothing the queue sees. The queue's theorems then
  hold of the three components (`PublicationFenced`, `DeliveriesFenced`, `OperationsFenced`)
  without being proved again.
- **WorkerProofs**: `ExternalExecution` (any number of attempts) has its types,
  `ExReportsAgree` and `ExIdentityKept`. The invariant adds what an attempt's position says
  of the run: it waits for a run that exists, the verdict it is about to record is the run's
  own end, and it records a cancellation only of a run that has ended. Each action then falls
  under one of two lemmas, for an attempt that moves and one that ends. `WorkerReadiness` (any
  instances, evaluators, subscriptions) has its types and `RdNotifiedOnce`: an evaluator that
  was granted the lock has read the alerts as they still are.
- **BackgroundServicesProofs** (any workers, deliveries, operations, monitors, page size):
  `WsNoWorkLost`, `NtHistoryTold`, the refinements above, the types, and all of them for the
  composition the run checks (`ServicesSound`, `ServicesKeepLeaseQueues`). The invariants say
  what a position of a worker means. Workspaces: once its review passed, the execution has
  ended and the reviewed commit is in the target, and the branch goes only after the
  worktree, in which nobody commits any more. Notifications: an attempt stays its worker's,
  a lease is that of the last attempt, and a scheduled retry follows a failure worth one
  within its worker's limit. Monitors: what is left of a page and the next cursor are behind
  the cursor (`MnAdvances`), the safety half of `MnNoProjectStarves`.
- **StreamsBundlesProofs** (any writers, clients, page limit; any operators, files,
  faults): `EsReplayFaithful`, `CbAppliedAsWritten`, the types, and both for the composition
  (`ClientsSound`). Streams: what was received and what is on the wire is one growing
  sequence that holds every event up to the server's cursor that was not overtaken, the
  page follows it without holes, and an uncommitted event is later than every committed
  one or overtaken. Bundles: a plan without conflict is to create what it did not find
  as written, and the writes an application has gone past were accepted; an entry that is
  registered never changes.
- **ControlPlaneProofs** has the proofs of `TaskBudget`, `ServiceAccounts`, `RequestDispatch`
  and `Interfaces`, and of the composition the run checks.

  Budgets (any tasks, workers, attempts, costs): types, `AccountSound`, `ChargesExplained`
  with its parts, `LedgerFinal`. The invariant adds what a worker's position says of the
  ledgers: it completes only charged tasks and forfeits only failed ones. For the balances it
  adds that the sums are finite (each ledger began empty and grew task by task, so the set of
  tasks need not be) and that a waiting task has an attempt left. Since a sum is a
  cardinality, a task that enters or leaves a ledger changes it by a disjoint union, which
  takes the place of an induction over the set.

  Accounts and dispatch (any callers, accounts, credentials, page size; any definitions,
  prompts, edits, recommendations, calls): `AcAuditAgrees`, `AcListingComplete`,
  `DpOneRunPerForm`, `DpAnswersTrue`, `DpAutomaticIsBest` and the types. Lemmas on `Ordering`
  show that an ordered finite set is listed completely, once and in order. Accounts: what a
  call read is still so when it commits, except for revocations and last uses; between two
  pages of a report its results are complete up to the cursor, and the page that was read
  follows the cursor without a gap. Dispatch: a transaction that holds a claim holds it alone
  and nothing is committed under its key, the calls made from one edition of a form share
  their key, and a recommendation that needs no confirmation has a winner that nothing on offer
  surpasses, and that leads by four if it has two candidates, because the rank lists all
  definitions on offer in the order of their scores. The limit may be any from 1 to 10.

  Clients (`ClientsServed`, any accounts): `IfServed` and the types. The invariant says of a
  request on its way what the boundary has already found out, so that the answer is a
  function of the call, the account and the token (`IfReason`). The rest is a fact about the
  code's tables: every call of the three clients matches a route, the first that matches takes
  its method and insists on nothing the call lacks, and the permission derived from its path
  is one its account has (`IfClientsServable`), except for the two tools that the control agent
  is denied (`IfWithheldPermissions`). The accounts are those the clients' documentation tells
  to issue: `IfDocumented` (`apps/jarvis/README.md:10`, `docs/openclaw-control-agent.md:23`) is
  the theorem's hypothesis, and TLC evaluates it on the accounts of the run (`MCDocumented`).

  All together (`ControlPlaneSound`, `ControlPlaneKeepsIdentity`): every behaviour of the suite
  is a behaviour of each component (`Embeds`), so that what is proved of the components holds
  in the suite, with `ControlPlaneTypeOK` as the conjunction of their types.

Every invariant and every action property of the passing runs is stated by a theorem. Only
model-checked is liveness (`RunningProgresses`, `TransactionsFinish`, `Settles`, `EsAllDelivered`,
`NtSettles`, `RdAlertsFollow`, `MnNoProjectStarves`, `WsSettles`, `CbConverges`): it rests on
weak and strong fairness, hence on `ENABLED`, which the proof system does not support, and most
of it would need an induction over bounded counters besides. The safety a liveness argument
would start from is proved where it says something by itself: `NotStranded` for
`RunningProgresses`, `MnAdvances` for `MnNoProjectStarves`, the lease queue for the three
`Settles`. No theorem assumes a property that
a run refutes.

## 5. What is not modelled

- Formatting, parsing, encoding, the fields of payloads and responses, logging,
  migrations, rendering of the UI and of host configurations, the starter template.
- The choice of the model router (a pure filter and sort over immutable profiles),
  files and networks behind skills and adapters, which appear as calls that succeed,
  fail, hang or are cut off; JSON Schema checks, which are a library's.
- Preflight, release check, smoke tests and probes: they read configuration or drive
  the other parts as processes.
- The claim query under READ COMMITTED: a claim is taken as atomic, and whether the
  statement gives a node to one transaction is an open hazard.

Known limits of the code that no property states:

- A reservation made after its run was cancelled stays open (`application/budget_services.py:99`);
  `TaskBudget` reaches it.
- The worker's `run` loop does not guard `run_once` (`worker/runtime.py:228`): a failing
  claim or refused report ends the process, and its supervisor restarts it.
- A workspace can be released between the check and the provider's reading it
  (`scm/runtime.py:82`); the publication then records an ordinary failure.
- A dispatch that read its project as active goes on although the project is archived
  meanwhile (`application/request_dispatch_services.py:304`, `335`).
- A registered project older than 500 others is planned as new, and every apply of a file
  that names it fails (`cli/bundles.py:34`). `CatalogBundle` reaches it (`CbHidden`).
- `docs/adr/0048-lease-bounded-scm-publication-worker.md` lets a timeout shorter than the
  lease ensure that a timed-out call is failed while its worker still owns the lease. The code
  compares the two durations, but the lease runs from the claim and the timeout from the call,
  with database reads in between; the promise holds as long as these are shorter than the
  difference. No theorem and no property assumes it.

Details the models leave out on purpose:

- `ExternalExecution`: an attempt is interrupted while it waits or calls the gateway, not
  while it records its verdict, and the preparation of its worktree before the start is left
  out; a crash may end it at every step.
- `WorkspaceOperation`: the review of a worktree is one step, although it runs several git
  commands (`workspace.py:96-132` of the OpenClaw adapter); people may commit before and
  after it, and the deletion of the branch, which git itself guards, is a step of its own.
- `WorkerReadiness`: a return to ready is always a new visit of the node; in the code the
  same occurrence may also cease to be unservable and come back
  (`application/worker_readiness_services.py:221-224`). The time an evaluation
  notes is not modelled.
- `RequestDispatch`: a term belongs to one intent at most.
- `RunLifecycle`: `start` keeps the run it loaded first, where the code reads it again under
  the lock; the model has more behaviours, and its version column does more of the work.

## 6. Plan

Done: every component of section 2 is checked, and every safety invariant and action
property of the passing runs is proved. Next:

1. `TaskClaimQuery`: the claim statements under READ COMMITTED with the session's
   identity map.
2. `ModelRouting`: the router against a reference definition.
3. Task leases as a lease queue: `WorkflowEngine` fences its claims by tokens too, but may
   activate a claimed node anew (`_activate`), which `LeaseQueue` has no step for.
4. A property for reservations made after their run was cancelled.
