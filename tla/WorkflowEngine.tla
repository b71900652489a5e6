--------------------------- MODULE WorkflowEngine ---------------------------
(***************************************************************************)
(* One workflow execution: the transitions of WorkflowEngine (engine.py)   *)
(* as the services call them - TaskDispatchService for workers,            *)
(* WorkflowService for the API - each inside one database transaction that *)
(* holds the execution's row lock.                                         *)
(*                                                                         *)
(* A transaction that routes calls _activate recursively.  Here the pending *)
(* calls are the list `todo`: an operation leaves the first targets in it, *)
(* every Activate step makes one call, pushing the targets of a fork or    *)
(* join in front, and no other operation is enabled until the list is      *)
(* empty.  A state with todo = <<>> is a committed state.                  *)
(*                                                                         *)
(* Time.  A lease stores lease_expires_at - now, so that time is unbounded. *)
(* A call reads the clock before it waits for the row lock: it sees the    *)
(* time `lag` units ago, lag \in 0 .. MaxLag.                              *)
(***************************************************************************)
EXTENDS WorkflowDefinition

CONSTANTS
    LeaseSeconds,   \* timeout_seconds + lease_grace_seconds
    MaxLag,         \* bound: clock units between reading the clock and the lock
    MaxBeats,       \* bound: heartbeats of one attempt (timeout / interval)
    ManualApi       \* whether API clients begin tasks without a lease

ASSUME LeaseAssumption ==
    /\ LeaseSeconds \in Nat \ {0, 1}
    /\ MaxLag \in Nat
    /\ MaxBeats \in Nat
    /\ ManualApi \in BOOLEAN

VARIABLES
    wfStatus,   \* WorkflowExecution.status
    nodeStatus, \* NodeExecution.status of every node
    visit,      \* NodeExecution.visit_count
    attempt,    \* NodeExecution.attempt_count
    outcome,    \* NodeExecution.outcome, "none" when unset
    lease,      \* lease_token and the time left until lease_expires_at
    artifacts,  \* node -> visit_count of the TaskArtifacts added, in commit order
    claims,     \* every TaskClaim ever handed to a worker
    issued,     \* number of lease tokens generated so far
    beats,      \* heartbeats left to the worker that holds the node
    todo        \* nodes still to be activated in the open transaction

nodeVars == <<nodeStatus, visit, attempt, outcome, lease>>
vars == <<wfStatus, nodeStatus, visit, attempt, outcome, lease,
          artifacts, claims, issued, beats, todo>>

WorkflowStatuses ==
    {"pending", "running", "awaiting_approval", "succeeded", "failed", "cancelled"}
Terminal == {"succeeded", "failed", "cancelled"}

NodeStatuses ==
    {"pending", "ready", "running", "awaiting_approval",
     "succeeded", "failed", "cancelled"}
Active == {"ready", "running", "awaiting_approval"}

NoLease == [token |-> 0, left |-> 0]
Leases == [token : Nat, left : (0 - MaxLag) .. LeaseSeconds]
Claims == [node : Nodes, token : Nat, visit : Nat, attempt : Nat]

(* The execution, its nodes and the claims have the types of models.py; a   *)
(* lease is never renewed beyond LeaseSeconds.                             *)
TypeOK ==
    /\ wfStatus \in WorkflowStatuses
    /\ nodeStatus \in [Nodes -> NodeStatuses]
    /\ visit \in [Nodes -> Nat]
    /\ attempt \in [Nodes -> Nat]
    /\ outcome \in [Nodes -> NodeOutcomes \union {"none"}]
    /\ lease \in [Nodes -> Leases]
    /\ artifacts \in [Nodes -> Seq(Nat)]
    /\ claims \subseteq Claims
    /\ issued \in Nat
    /\ beats \in [Nodes -> 0 .. MaxBeats]
    /\ todo \in Seq(Nodes)

Committed == todo = <<>>

(* WorkflowExecution.create *)
Init ==
    /\ wfStatus = "pending"
    /\ nodeStatus = [n \in Nodes |-> "pending"]
    /\ visit = [n \in Nodes |-> 0]
    /\ attempt = [n \in Nodes |-> 0]
    /\ outcome = [n \in Nodes |-> "none"]
    /\ lease = [n \in Nodes |-> NoLease]
    /\ artifacts = [n \in Nodes |-> <<>>]
    /\ claims = {}
    /\ issued = 0
    /\ beats = [n \in Nodes |-> 0]
    /\ todo = <<>>

-----------------------------------------------------------------------------
(* Parts of a transition.  ns and ls are the node statuses and leases the  *)
(* operation has already written when it reaches the call.                 *)

(* _cancel_active_nodes *)
CancelledStatuses(ns) ==
    [n \in Nodes |-> IF ns[n] \in Active THEN "cancelled" ELSE ns[n]]

CancelledLeases(ns, ls) ==
    [n \in Nodes |-> IF ns[n] \in Active THEN NoLease ELSE ls[n]]

(* The workflow ends: _fail, a terminal node, cancel.  Every enclosing     *)
(* _route returns once the workflow is terminal.                           *)
FinishLeavingSiblings(status, ns, ls) ==  \* mutant: siblings stay active
    /\ wfStatus' = status
    /\ nodeStatus' = ns
    /\ lease' = ls
    /\ todo' = <<>>

Finish(status, ns, ls) ==
    /\ wfStatus' = status
    /\ nodeStatus' = CancelledStatuses(ns)
    /\ lease' = CancelledLeases(ns, ls)
    /\ todo' = <<>>

(* _route: activate the selected targets, or fail when there is none. *)
RouteFirstOnly(n, o, output, status, ns, ls, rest) ==  \* mutant: one target
    LET targets == SelectTargets(n, o, output) IN
    \/ /\ targets = {}
       /\ Finish("failed", ns, ls)
    \/ /\ targets # {}
       /\ \E s \in SortedListings(targets) : todo' = <<s[1]>> \o rest
       /\ wfStatus' = status
       /\ nodeStatus' = ns
       /\ lease' = ls

Route(n, o, output, status, ns, ls, rest) ==
    LET targets == SelectTargets(n, o, output) IN
    \/ /\ targets = {}
       /\ Finish("failed", ns, ls)
    \/ /\ targets # {}
       /\ \E s \in SortedListings(targets) : todo' = s \o rest
       /\ wfStatus' = status
       /\ nodeStatus' = ns
       /\ lease' = ls

(* _validate_optional_lease with the clock read `lag` units ago. *)
Owns(c, lag) ==
    /\ lease[c.node].token = c.token
    /\ lease[c.node].left > 0 - lag

(* complete_task once the caller is accepted; v is the artifact's visit. *)
CompleteNode(n, v, o, output) ==
    /\ outcome' = [outcome EXCEPT ![n] = o]
    /\ artifacts' = [artifacts EXCEPT ![n] = Append(@, v)]
    /\ Route(n, o, output, wfStatus, [nodeStatus EXCEPT ![n] = "succeeded"],
             [lease EXCEPT ![n] = NoLease], <<>>)
    /\ UNCHANGED <<visit, attempt, claims, issued, beats>>

(* _handle_task_failure *)
FailNode(n) ==
    /\ \/ /\ attempt[n] < MaxAttempts[n]
          /\ nodeStatus' = [nodeStatus EXCEPT ![n] = "ready"]
          /\ lease' = [lease EXCEPT ![n] = NoLease]
          /\ UNCHANGED <<wfStatus, todo>>
       \/ /\ attempt[n] >= MaxAttempts[n]
          /\ Finish("failed", [nodeStatus EXCEPT ![n] = "failed"],
                    [lease EXCEPT ![n] = NoLease])
    /\ UNCHANGED <<visit, attempt, outcome, artifacts, claims, issued, beats>>

(* _join_is_ready *)
JoinIsReadyOnAny(n) ==  \* mutant: any source instead of all
    \E m \in IncomingSources(n) : nodeStatus[m] = "succeeded"

JoinIsReady(n) == \A m \in IncomingSources(n) : nodeStatus[m] = "succeeded"

-----------------------------------------------------------------------------
(* Operations of a worker, through TaskDispatchService.                    *)

(* begin_task, shared by claim_task and the API. *)
BeginNodeUncounted(n) ==  \* mutant: the attempt is not counted
    /\ Committed
    /\ Kind[n] = "task" /\ nodeStatus[n] = "ready"
    /\ nodeStatus' = [nodeStatus EXCEPT ![n] = "running"]
    /\ UNCHANGED <<wfStatus, visit, attempt, outcome, artifacts, todo>>

BeginNode(n) ==
    /\ Committed
    /\ Kind[n] = "task" /\ nodeStatus[n] = "ready"
    /\ attempt[n] < MaxAttempts[n]
    /\ nodeStatus' = [nodeStatus EXCEPT ![n] = "running"]
    /\ attempt' = [attempt EXCEPT ![n] = @ + 1]
    /\ UNCHANGED <<wfStatus, visit, outcome, artifacts, todo>>

(* claim_next: a READY node of a RUNNING workflow whose required inputs    *)
(* have artifacts; otherwise the claim raises and rolls back.              *)
ClaimNext(n, lag) ==
    /\ wfStatus = "running"
    /\ \A m \in Needs[n] : artifacts[m] # <<>>
    /\ BeginNode(n)
    /\ issued' = issued + 1
    /\ lease' = [lease EXCEPT ![n] = [token |-> issued', left |-> LeaseSeconds - lag]]
    /\ claims' = claims \union
          {[node |-> n, token |-> issued', visit |-> visit[n], attempt |-> attempt'[n]]}
    /\ beats' = [beats EXCEPT ![n] = MaxBeats]

HeartbeatForever(c, lag) ==  \* mutant: renews past the execution timeout
    /\ Committed
    /\ nodeStatus[c.node] = "running" /\ Owns(c, lag)
    /\ lease' = [lease EXCEPT ![c.node] = [token |-> c.token, left |-> LeaseSeconds - lag]]
    /\ beats' = [beats EXCEPT ![c.node] = @ - 1]
    /\ UNCHANGED <<wfStatus, nodeStatus, visit, attempt, outcome, artifacts,
                   claims, issued, todo>>

Heartbeat(c, lag) ==
    /\ Committed
    /\ nodeStatus[c.node] = "running" /\ Owns(c, lag)
    /\ beats[c.node] > 0
    /\ lease' = [lease EXCEPT ![c.node] = [token |-> c.token, left |-> LeaseSeconds - lag]]
    /\ beats' = [beats EXCEPT ![c.node] = @ - 1]
    /\ UNCHANGED <<wfStatus, nodeStatus, visit, attempt, outcome, artifacts,
                   claims, issued, todo>>

Complete(c, lag, o, output) ==
    /\ Committed
    /\ nodeStatus[c.node] = "running" /\ Owns(c, lag)
    /\ CompleteNode(c.node, c.visit, o, output)

Fail(c, lag) ==
    /\ Committed
    /\ nodeStatus[c.node] = "running" /\ Owns(c, lag)
    /\ FailNode(c.node)

(* recover_expired: get_expired_for_update, then expire_task. *)
RecoverUnlessLast(n) ==  \* mutant: the last attempt is not recovered
    /\ Committed
    /\ wfStatus = "running"
    /\ nodeStatus[n] = "running" /\ attempt[n] < MaxAttempts[n]
    /\ lease[n].token # 0 /\ lease[n].left <= 0
    /\ FailNode(n)

RecoverExpired(n) ==
    /\ Committed
    /\ wfStatus = "running"
    /\ nodeStatus[n] = "running"
    /\ lease[n].token # 0 /\ lease[n].left <= 0
    /\ FailNode(n)

-----------------------------------------------------------------------------
(* Operations of API clients, through WorkflowService.                     *)

Start ==
    /\ wfStatus = "pending"
    /\ wfStatus' = "running"
    /\ todo' = <<Entry>>
    /\ UNCHANGED <<nodeVars, artifacts, claims, issued, beats>>

BeginTask(n) ==
    /\ ManualApi
    /\ BeginNode(n)
    /\ UNCHANGED <<lease, claims, issued, beats>>

CompleteTask(n, o, output) ==
    /\ Committed
    /\ nodeStatus[n] = "running" /\ lease[n].token = 0
    /\ CompleteNode(n, visit[n], o, output)

FailTask(n) ==
    /\ Committed
    /\ nodeStatus[n] = "running" /\ lease[n].token = 0
    /\ FailNode(n)

(* resolve_approval looks at the node only, and always resumes the workflow. *)
ResolveWithoutResuming(n, o) ==  \* mutant: the workflow stays awaiting_approval
    /\ Committed
    /\ nodeStatus[n] = "awaiting_approval"
    /\ outcome' = [outcome EXCEPT ![n] = o]
    /\ Route(n, o, NoValue, wfStatus, [nodeStatus EXCEPT ![n] = "succeeded"],
             lease, <<>>)
    /\ UNCHANGED <<visit, attempt, artifacts, claims, issued, beats>>

ResolveApproval(n, o) ==
    /\ Committed
    /\ nodeStatus[n] = "awaiting_approval"
    /\ outcome' = [outcome EXCEPT ![n] = o]
    /\ Route(n, o, NoValue, "running", [nodeStatus EXCEPT ![n] = "succeeded"],
             lease, <<>>)
    /\ UNCHANGED <<visit, attempt, artifacts, claims, issued, beats>>

CancelAgain ==  \* mutant: an ended workflow can be cancelled
    /\ Committed
    /\ wfStatus # "pending"
    /\ Finish("cancelled", nodeStatus, lease)
    /\ UNCHANGED <<visit, attempt, outcome, artifacts, claims, issued, beats>>

Cancel ==
    /\ Committed
    /\ wfStatus \notin Terminal \union {"pending"}
    /\ Finish("cancelled", nodeStatus, lease)
    /\ UNCHANGED <<visit, attempt, outcome, artifacts, claims, issued, beats>>

-----------------------------------------------------------------------------
(* _activate, one call per step.                                           *)

SkipJoin(n) ==
    /\ Kind[n] = "join" /\ ~ JoinIsReady(n)
    /\ todo' = Tail(todo)
    /\ UNCHANGED <<wfStatus, nodeVars>>

ExceedVisits(n) ==
    /\ Kind[n] = "join" => JoinIsReady(n)
    /\ visit[n] >= MaxVisits[n]
    /\ Finish("failed", nodeStatus, lease)
    /\ UNCHANGED <<visit, attempt, outcome>>

(* The fields _activate resets before it looks at the kind. *)
EnterNodeSameVisit(n, o) ==  \* mutant: the visit is not counted
    /\ Kind[n] = "join" => JoinIsReady(n)
    /\ attempt' = [attempt EXCEPT ![n] = 0]
    /\ outcome' = [outcome EXCEPT ![n] = o]
    /\ UNCHANGED visit

EnterNodeOffByOne(n, o) ==  \* mutant: one visit too many
    /\ Kind[n] = "join" => JoinIsReady(n)
    /\ visit[n] <= MaxVisits[n]
    /\ visit' = [visit EXCEPT ![n] = @ + 1]
    /\ attempt' = [attempt EXCEPT ![n] = 0]
    /\ outcome' = [outcome EXCEPT ![n] = o]

EnterNodeKeepingAttempts(n, o) ==  \* mutant: attempt_count is not reset
    /\ Kind[n] = "join" => JoinIsReady(n)
    /\ visit[n] < MaxVisits[n]
    /\ visit' = [visit EXCEPT ![n] = @ + 1]
    /\ outcome' = [outcome EXCEPT ![n] = o]
    /\ UNCHANGED attempt

EnterNode(n, o) ==
    /\ Kind[n] = "join" => JoinIsReady(n)
    /\ visit[n] < MaxVisits[n]
    /\ visit' = [visit EXCEPT ![n] = @ + 1]
    /\ attempt' = [attempt EXCEPT ![n] = 0]
    /\ outcome' = [outcome EXCEPT ![n] = o]

EnterTaskKeepingLease(n) ==  \* mutant: the old lease is not cleared
    /\ Kind[n] = "task"
    /\ EnterNode(n, "none")
    /\ nodeStatus' = [nodeStatus EXCEPT ![n] = "ready"]
    /\ todo' = Tail(todo)
    /\ UNCHANGED <<wfStatus, lease>>

EnterTask(n) ==
    /\ Kind[n] = "task"
    /\ EnterNode(n, "none")
    /\ nodeStatus' = [nodeStatus EXCEPT ![n] = "ready"]
    /\ lease' = [lease EXCEPT ![n] = NoLease]
    /\ todo' = Tail(todo)
    /\ UNCHANGED wfStatus

EnterApproval(n) ==
    /\ Kind[n] = "approval"
    /\ EnterNode(n, "none")
    /\ nodeStatus' = [nodeStatus EXCEPT ![n] = "awaiting_approval"]
    /\ wfStatus' = "awaiting_approval"
    /\ lease' = [lease EXCEPT ![n] = NoLease]
    /\ todo' = Tail(todo)

EnterGateway(n) ==
    /\ Kind[n] \in {"fork", "join"}
    /\ EnterNode(n, "success")
    /\ Route(n, "success", NoValue, wfStatus,
             [nodeStatus EXCEPT ![n] = "succeeded"],
             [lease EXCEPT ![n] = NoLease], Tail(todo))

EnterTerminal(n) ==
    /\ Kind[n] = "terminal"
    /\ EnterNode(n, "success")
    /\ Finish(TerminalStatus[n], [nodeStatus EXCEPT ![n] = "succeeded"],
              [lease EXCEPT ![n] = NoLease])

Activate ==
    /\ todo # <<>>
    /\ LET n == Head(todo) IN
          \/ SkipJoin(n)
          \/ ExceedVisits(n)
          \/ EnterTask(n)
          \/ EnterApproval(n)
          \/ EnterGateway(n)
          \/ EnterTerminal(n)
    /\ UNCHANGED <<artifacts, claims, issued, beats>>

-----------------------------------------------------------------------------
(* One clock unit passes.  Below -MaxLag every call sees the lease expired. *)
Tick ==
    /\ Committed
    /\ \E n \in Nodes : lease[n].token # 0 /\ lease[n].left > 0 - MaxLag
    /\ lease' = [n \in Nodes |->
          IF lease[n].token # 0 /\ lease[n].left > 0 - MaxLag
          THEN [token |-> lease[n].token, left |-> lease[n].left - 1] ELSE lease[n]]
    /\ UNCHANGED <<wfStatus, nodeStatus, visit, attempt, outcome, artifacts,
                   claims, issued, beats, todo>>

ClaimSome == \E n \in Nodes, lag \in 0 .. MaxLag : ClaimNext(n, lag)

RecoverSome == \E n \in Nodes : RecoverExpired(n)

Next ==
    \/ Start
    \/ Activate
    \/ ClaimSome
    \/ RecoverSome
    \/ \E c \in claims, lag \in 0 .. MaxLag :
          \/ Heartbeat(c, lag)
          \/ Fail(c, lag)
          \/ \E o \in {"success", "failure"}, output \in Outputs :
                Complete(c, lag, o, output)
    \/ \E n \in Nodes :
          \/ BeginTask(n)
          \/ FailTask(n)
          \/ \E o \in {"success", "failure"}, output \in Outputs :
                CompleteTask(n, o, output)
          \/ \E o \in {"approved", "rejected"} : ResolveApproval(n, o)
    \/ Cancel
    \/ Tick

Spec == Init /\ [][Next]_vars

(***************************************************************************)
(* Fairness: a transaction runs to its end, time passes, and the worker    *)
(* loop keeps calling recover_expired and claim_next (runtime.py, run).    *)
(* Nothing is assumed of a worker that holds a claim (it may crash) nor of *)
(* the people who approve.                                                 *)
(***************************************************************************)
FairSpec ==
    /\ Spec
    /\ WF_vars(Activate)
    /\ WF_vars(Tick)
    /\ WF_vars(ClaimSome)
    /\ WF_vars(RecoverSome)
-----------------------------------------------------------------------------
(* Safety.                                                                 *)

(* A workflow that has ended leaves no node that a worker could claim or a *)
(* person could approve, and no lease a late worker could still use: every *)
(* path to a terminal status (engine.py _fail, the terminal branch of      *)
(* _activate, cancel) cancels the parallel siblings.                       *)
TerminalQuiescent ==
    wfStatus \in Terminal =>
        /\ Committed
        /\ \A n \in Nodes : nodeStatus[n] \notin Active /\ lease[n] = NoLease

(* Token fencing.  A lease exists only on a running task, two nodes never  *)
(* share a token, and the claim that owns a node's lease was made for the  *)
(* node's current visit and attempt: an earlier holder can no longer pass  *)
(* _validate_optional_lease, so it cannot complete, fail or renew.         *)
LeaseFencing ==
    /\ \A n \in Nodes : lease[n].token # 0 => nodeStatus[n] = "running"
    /\ \A m, n \in Nodes : lease[m].token = lease[n].token /\ lease[n].token # 0 => m = n
    /\ \A c \in claims : lease[c.node].token = c.token =>
          c.visit = visit[c.node] /\ c.attempt = attempt[c.node]

(* At-least-once delivery never hands the same attempt out twice: two      *)
(* claims for one visit and attempt of a node are the same claim.          *)
AttemptClaimedOnce ==
    \A c, d \in claims :
        c.node = d.node /\ c.visit = d.visit /\ c.attempt = d.attempt => c = d

(* Exactly one completion of each visit is accepted, whoever reports it:   *)
(* the artifacts of a node are added for strictly increasing visits, so    *)
(* the unique constraint on (execution, node, visit) never rejects one.    *)
OneArtifactPerVisit ==
    \A n \in Nodes : \A i, j \in 1 .. Len(artifacts[n]) :
        i < j => artifacts[n][i] < artifacts[n][j]

(* max_attempts and max_visits bound what is handed out, over any mix of   *)
(* retries, expiries and repair loops.                                     *)
LimitsRespected ==
    /\ \A n \in Nodes : visit[n] <= MaxVisits[n] /\ attempt[n] <= MaxAttempts[n]
    /\ \A c \in claims : /\ c.visit \in 1 .. visit[c.node]
                         /\ c.attempt \in 1 .. MaxAttempts[c.node]

(* README, ORCH-016: "join activation only after every direct predecessor  *)
(* has completed".  Once a join was entered every source has been visited, *)
(* and every source that is a task has a stored artifact.                  *)
JoinAfterSources ==
    \A n \in Nodes : Kind[n] = "join" /\ visit[n] > 0 =>
        \A m \in IncomingSources(n) :
            /\ visit[m] > 0 /\ nodeStatus[m] # "pending"
            /\ Kind[m] = "task" => artifacts[m] # <<>>

(* ADR 0018: the step behind a join runs only after every result it needs  *)
(* is ready.  When a join is entered, the latest outcome of every source   *)
(* is one that leads to the join, rather than one that sent the branch     *)
(* elsewhere (into a repair, say).                                         *)
JoinWaitsForResults ==
    [][\A n \in Nodes : Kind[n] = "join" /\ visit'[n] # visit[n] =>
          \A m \in IncomingSources(n) :
             \E e \in RouteEdges(m, outcome[m]) : e.target = n]_vars

(* A workflow that reports awaiting_approval has a node to approve, so the *)
(* approval that resumes it exists.                                        *)
ApprovalExists ==
    wfStatus = "awaiting_approval" =>
        \E n \in Nodes : nodeStatus[n] = "awaiting_approval"

(* A committed running workflow has something left to do: a task to claim, *)
(* to finish or to recover, or an approval.  A join that missed its last   *)
(* source, or a routing step that activates nothing, would strand it.      *)
NotStranded ==
    Committed /\ wfStatus = "running" =>
        \E n \in Nodes : nodeStatus[n] \in Active

(* A ready task can be claimed: the artifacts its phase pack requires were *)
(* stored before it became ready.  Otherwise claim_next raises each time.  *)
ReadyInputsStored ==
    \A n \in Nodes : nodeStatus[n] = "ready" =>
        \A m \in Needs[n] : artifacts[m] # <<>>

(* Together: of all the workers that were ever given a node only the last  *)
(* one can report, and no attempt was given out twice.                     *)
ClaimsFenced == LeaseFencing /\ AttemptClaimedOnce

(* Together: the status of the workflow tells what its nodes are: nothing  *)
(* is left open under a terminal one, and awaiting_approval has a node.    *)
StatusTellsNodes == TerminalQuiescent /\ ApprovalExists

(* Together: no node is entered ahead of what it depends on, neither a     *)
(* task ahead of its inputs nor a join ahead of its sources.               *)
SourcesFirst == ReadyInputsStored /\ JoinAfterSources

(* Together: repairs, retries and late workers stay within max_visits and  *)
(* max_attempts, and each visit stores at most one artifact.               *)
VisitsAccounted == OneArtifactPerVisit /\ LimitsRespected

(* What a step may never do. *)

(* A terminal workflow is never changed again: no late completion, expiry, *)
(* approval or cancellation reaches it.                                    *)
TerminalIsFinal ==
    [][(wfStatus \in Terminal) =>
          UNCHANGED <<wfStatus, nodeVars, artifacts, todo>>]_vars

(* A node leaves a finished state only by a new visit, and a visit starts  *)
(* without attempts, outcome or lease of the one before.                   *)
RevisitStartsAfresh ==
    [][\A n \in Nodes :
          /\ nodeStatus[n] \in {"succeeded", "failed", "cancelled"}
             /\ nodeStatus'[n] # nodeStatus[n] => visit'[n] = visit[n] + 1
          /\ visit'[n] # visit[n] =>
                visit'[n] = visit[n] + 1 /\ attempt'[n] = 0 /\ lease'[n] = NoLease]_vars

(* Refinement. *)

Lifecycle == INSTANCE WorkflowStatus WITH status <- wfStatus

(* The engine implements the abstract lifecycle the run projection relies  *)
(* on: every operation, call by call, moves the status as it allows.       *)
KeepsLifecycle == Lifecycle!Spec

(* Together, what a step of the engine promises: the status moves as the   *)
(* lifecycle allows, an ended workflow is left alone and a finished node   *)
(* is reopened only by a fresh visit.                                      *)
StepsLegal == KeepsLifecycle /\ TerminalIsFinal /\ RevisitStartsAfresh

(* Liveness. *)

(* ADR 0004: "A crashed worker does not permanently strand a workflow."    *)
(* Whatever the workers that hold claims do or fail to do, a running       *)
(* workflow ends or comes to wait for a person.  (The status may still say *)
(* running then: resolving one of two parallel approvals sets it so.)      *)
RunningProgresses ==
    wfStatus = "running" ~>
        (wfStatus \in Terminal \/ \E n \in Nodes : nodeStatus[n] = "awaiting_approval")
=============================================================================
