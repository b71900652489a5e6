------------------------- MODULE WorkspaceOperation -------------------------
(***************************************************************************)
(* Inspection and cleanup of the git worktree an external execution left   *)
(* behind: the queued operations, the workers of its filesystem scope that *)
(* claim them under a lease, and the git commands they run                 *)
(* (workspace_operations, application.workspace_operation_services,        *)
(* the OpenClaw workspace manager and its runtime).                        *)
(*                                                                         *)
(* People and agents keep working in the worktree meanwhile.  Each git     *)
(* command and each service call is a step.  Commits on the branch are     *)
(* numbered; the target contains the first wsMerged of them.               *)
(***************************************************************************)
EXTENDS Integers, FiniteSets

CONSTANTS
    WsWorkers,     \* workspace workers of the scope
    WsOperations,  \* number of operations that may be requested, in that order
    WsKind,        \* WsKind[o]: "inspect" or "cleanup"
    WsMaxCommits,  \* bound: commits on the branch
    WsMaxFaults    \* bound: crashes and leases lost by a slow worker

ASSUME WsAssumption ==
    /\ WsOperations \in Nat
    /\ WsKind \in [1..WsOperations -> {"inspect", "cleanup"}]
    /\ WsMaxCommits \in Nat /\ WsMaxFaults \in Nat

VARIABLES
    wsEnded,     \* the external execution is terminal
    wsReleased,  \* its workspace_released_at is set
    wsTree,      \* the worktree: "clean", "dirty" or "gone"
    wsHead,      \* commits made on the branch
    wsBranch,    \* does the branch exist
    wsMerged,    \* commits of the branch the target contains
    wsOp,        \* wsOp[o]: the operation row
    wsWorker,    \* wsWorker[w]: what the worker is doing
    wsFaults     \* faults so far

wsGit == <<wsTree, wsHead, wsBranch, wsMerged>>
wsVars == <<wsEnded, wsReleased, wsGit, wsOp, wsWorker, wsFaults>>

WsIds == 1..WsOperations

\* WorkspaceOperation: token counts the lease tokens drawn for it, lease is
\* lease_expires_at, which is set exactly while the operation is claimed.
WsOpRows ==
    {row \in [status : {"absent", "pending", "claimed", "succeeded", "failed"},
              token : Nat, lease : {"none", "live", "expired"}] :
        row.status = "claimed" <=> row.lease # "none"}

\* A worker inside run_once: head is the commit its review saw.
WsWorkerStates ==
    [phase : {"idle", "claimed", "removing", "deleting", "releasing", "reporting"},
     op : 0..WsOperations, token : Nat, head : 0..WsMaxCommits,
     outcome : {"none", "succeeded", "failed"}]

WsIdle == [phase |-> "idle", op |-> 0, token |-> 0, head |-> 0, outcome |-> "none"]

WsInit ==
    /\ wsEnded = FALSE /\ wsReleased = FALSE
    /\ wsTree = "clean" /\ wsHead = 0 /\ wsBranch = TRUE /\ wsMerged = 0
    /\ wsOp = [o \in WsIds |-> [status |-> "absent", token |-> 0, lease |-> "none"]]
    /\ wsWorker = [w \in WsWorkers |-> WsIdle]
    /\ wsFaults = 0

-----------------------------------------------------------------------------
\* The external execution ends.
WsEnd ==
    /\ ~wsEnded /\ wsEnded' = TRUE
    /\ UNCHANGED <<wsReleased, wsGit, wsOp, wsWorker, wsFaults>>

\* Someone edits files in the worktree, or undoes the edits.
WsEdit ==
    /\ wsTree # "gone" /\ wsTree' \in {"clean", "dirty"} /\ wsTree' # wsTree
    /\ UNCHANGED <<wsEnded, wsReleased, wsHead, wsBranch, wsMerged, wsOp, wsWorker, wsFaults>>

\* Someone commits the edits.
WsCommit ==
    /\ wsTree = "dirty" /\ wsHead < WsMaxCommits
    /\ wsTree' = "clean" /\ wsHead' = wsHead + 1
    /\ UNCHANGED <<wsEnded, wsReleased, wsBranch, wsMerged, wsOp, wsWorker, wsFaults>>

\* The branch is merged into the target.
WsMerge ==
    /\ wsBranch /\ wsMerged < wsHead /\ wsMerged' = wsHead
    /\ UNCHANGED <<wsEnded, wsReleased, wsTree, wsHead, wsBranch, wsOp, wsWorker, wsFaults>>

\* WorkspaceOperationService.request: a cleanup is confirmed and needs a
\* terminal execution; the same key returns the operation it made before.
WsRequest(o) ==
    /\ wsOp[o].status = "absent"
    /\ \A p \in 1..(o - 1) : wsOp[p].status # "absent"
    /\ WsKind[o] = "cleanup" => wsEnded
    /\ wsOp' = [wsOp EXCEPT ![o] = [status |-> "pending", token |-> 0, lease |-> "none"]]
    /\ UNCHANGED <<wsEnded, wsReleased, wsGit, wsWorker, wsFaults>>

-----------------------------------------------------------------------------
\* Mutant: only pending operations are claimed.
WsClaimablePending(o) == wsOp[o].status = "pending"

\* The WHERE clause of SqlAlchemyWorkspaceOperationRepository.claim_next.
WsClaimable(o) ==
    \/ wsOp[o].status = "pending"
    \/ wsOp[o].status = "claimed" /\ wsOp[o].lease = "expired"

\* WorkspaceOperation.claim.
WsClaimedRow(row) == [status |-> "claimed", token |-> row.token + 1, lease |-> "live"]

\* WorkspaceOperationService.claim_next: the oldest claimable operation.
WsClaim(w, o) ==
    /\ wsWorker[w].phase = "idle" /\ WsClaimable(o)
    /\ \A p \in 1..(o - 1) : ~WsClaimable(p)
    /\ wsOp' = [wsOp EXCEPT ![o] = WsClaimedRow(wsOp[o])]
    /\ wsWorker' = [wsWorker EXCEPT ![w] =
           [phase |-> "claimed", op |-> o, token |-> wsOp[o].token + 1, head |-> 0,
            outcome |-> "none"]]
    /\ UNCHANGED <<wsEnded, wsReleased, wsGit, wsFaults>>

\* Worker w goes on to phase p, or is about to report an outcome.
WsMove(w, p, head) == wsWorker' = [wsWorker EXCEPT ![w].phase = p, ![w].head = head]
WsResult(w, outcome) ==
    wsWorker' = [wsWorker EXCEPT ![w].phase = "reporting", ![w].outcome = outcome]

\* run_once, for an inspection: what was released is said to be; otherwise
\* _review_sync, which fails without a worktree.
WsInspect(w) ==
    /\ wsWorker[w].phase = "claimed" /\ WsKind[wsWorker[w].op] = "inspect"
    /\ WsResult(w, IF wsReleased \/ wsTree # "gone" THEN "succeeded" ELSE "failed")
    /\ UNCHANGED <<wsEnded, wsReleased, wsGit, wsOp, wsFaults>>

\* _review_sync as _cleanup_sync uses it: clean, and merged into the target.
WsReviewPasses == wsTree = "clean" /\ wsHead <= wsMerged

\* _cleanup_sync without a worktree: a cleanup was cut short.  The branch, or
\* the base commit if it is gone too, must be merged.
WsResumable == wsBranch => wsHead <= wsMerged

\* run_once, for a cleanup, up to the first git command that changes something.
WsReview(w) ==
    /\ wsWorker[w].phase = "claimed" /\ WsKind[wsWorker[w].op] = "cleanup"
    /\ IF wsReleased THEN WsResult(w, "succeeded")
       ELSE IF wsTree # "gone"
            THEN IF WsReviewPasses THEN WsMove(w, "removing", wsHead) ELSE WsResult(w, "failed")
            ELSE IF ~WsResumable THEN WsResult(w, "failed")
                 ELSE WsMove(w, IF wsBranch THEN "deleting" ELSE "releasing", wsHead)
    /\ UNCHANGED <<wsEnded, wsReleased, wsGit, wsOp, wsFaults>>

\* git worktree remove, which refuses a worktree with changes.
WsRemoveTree(w) ==
    /\ wsWorker[w].phase = "removing"
    /\ IF wsTree = "clean"
       THEN wsTree' = "gone" /\ WsMove(w, "deleting", wsWorker[w].head)
       ELSE UNCHANGED wsTree /\ WsResult(w, "failed")
    /\ UNCHANGED <<wsEnded, wsReleased, wsHead, wsBranch, wsMerged, wsOp, wsFaults>>

\* Mutant: git branch -D, whatever the branch points to by now.
WsDeleteBranchForced(w) ==
    /\ wsWorker[w].phase = "deleting" /\ wsBranch' = FALSE
    /\ WsMove(w, "releasing", wsWorker[w].head)
    /\ UNCHANGED <<wsEnded, wsReleased, wsTree, wsHead, wsMerged, wsOp, wsFaults>>

\* git update-ref -d with the reviewed commit as the old value: it fails when
\* the branch has moved on or is gone.
WsDeleteBranch(w) ==
    /\ wsWorker[w].phase = "deleting"
    /\ IF wsBranch /\ wsHead = wsWorker[w].head
       THEN wsBranch' = FALSE /\ WsMove(w, "releasing", wsWorker[w].head)
       ELSE UNCHANGED wsBranch /\ WsResult(w, "failed")
    /\ UNCHANGED <<wsEnded, wsReleased, wsTree, wsHead, wsMerged, wsOp, wsFaults>>

\* ExternalExecutionService.release_workspace, once for all.
WsRelease(w) ==
    /\ wsWorker[w].phase = "releasing" /\ wsReleased' = TRUE /\ WsResult(w, "succeeded")
    /\ UNCHANGED <<wsEnded, wsGit, wsOp, wsFaults>>

\* WorkspaceOperation._require_claim.
WsOwns(w) ==
    LET row == wsOp[wsWorker[w].op]
    IN  row.status = "claimed" /\ row.token = wsWorker[w].token

\* Mutant: lease_expires_at is left as it was.
WsFinishedRowLeased(row, outcome) == [row EXCEPT !.status = outcome]

\* WorkspaceOperation.succeed and fail.
WsFinishedRow(row, outcome) == [row EXCEPT !.status = outcome, !.lease = "none"]

\* WorkspaceOperationService.succeed and fail; a worker whose lease is
\* another's is refused, which ends its process.
WsReport(w) ==
    /\ wsWorker[w].phase = "reporting"
    /\ wsOp' = IF WsOwns(w)
               THEN [wsOp EXCEPT ![wsWorker[w].op] = WsFinishedRow(@, wsWorker[w].outcome)]
               ELSE wsOp
    /\ wsWorker' = [wsWorker EXCEPT ![w] = WsIdle]
    /\ UNCHANGED <<wsEnded, wsReleased, wsGit, wsFaults>>

WsCrash(w) ==
    /\ wsWorker[w].phase # "idle" /\ wsFaults < WsMaxFaults
    /\ wsWorker' = [wsWorker EXCEPT ![w] = WsIdle] /\ wsFaults' = wsFaults + 1
    /\ UNCHANGED <<wsEnded, wsReleased, wsGit, wsOp>>

WsHeld(o) == \E w \in WsWorkers : wsWorker[w].op = o /\ wsWorker[w].token = wsOp[o].token

\* lease_expires_at passes, for a crashed worker or a slow one.
WsLapse(o) ==
    /\ wsOp[o].lease = "live"
    /\ WsHeld(o) => wsFaults < WsMaxFaults
    /\ wsFaults' = IF WsHeld(o) THEN wsFaults + 1 ELSE wsFaults
    /\ wsOp' = [wsOp EXCEPT ![o].lease = "expired"]
    /\ UNCHANGED <<wsEnded, wsReleased, wsGit, wsWorker>>

WsStep(w) ==
    \/ \E o \in WsIds : WsClaim(w, o)
    \/ WsInspect(w) \/ WsReview(w) \/ WsRemoveTree(w) \/ WsDeleteBranch(w) \/ WsRelease(w)
    \/ WsReport(w)

WsNext ==
    \/ WsEnd \/ WsEdit \/ WsCommit \/ WsMerge
    \/ \E o \in WsIds : WsRequest(o) \/ WsLapse(o)
    \/ \E w \in WsWorkers : WsStep(w) \/ WsCrash(w)

WsSpec == WsInit /\ [][WsNext]_wsVars

-----------------------------------------------------------------------------
\* The repository, the operations and their workers have their types.
WsTypeOK ==
    /\ wsEnded \in BOOLEAN /\ wsReleased \in BOOLEAN
    /\ wsTree \in {"clean", "dirty", "gone"} /\ wsBranch \in BOOLEAN
    /\ wsHead \in 0..WsMaxCommits /\ wsMerged \in 0..WsMaxCommits
    /\ wsOp \in [WsIds -> WsOpRows] /\ wsWorker \in [WsWorkers -> WsWorkerStates]
    /\ wsFaults \in Nat

\* ADR 0044: cleanup loses no work.  Whoever commits between the review and the
\* removal, and however often a cleanup whose lease expired is run again beside
\* the first one, a commit is on the branch or in the target; and a workspace
\* is recorded as released only when its worktree and its branch are gone and
\* the execution that used it has ended.
WsNoWorkLost ==
    /\ wsBranch \/ wsHead <= wsMerged
    /\ wsReleased => (wsEnded /\ wsTree = "gone" /\ ~wsBranch)

\* An operation as an item of a lease queue; a failed one is not repeated.
WsItemStatus(row) == IF row.lease = "expired" THEN "lapsed" ELSE row.status

WsItems == [o \in WsIds |-> WsItemStatus(wsOp[o])]
WsLeaseCounts == [o \in WsIds |-> wsOp[o].token]
WsHolds == [w \in WsWorkers |-> [item |-> wsWorker[w].op, lease |-> wsWorker[w].token]]

WsLeases == INSTANCE LeaseQueue WITH
    Queue <- WsOperations, Workers <- WsWorkers, Retries <- FALSE,
    status <- WsItems, leases <- WsLeaseCounts, hold <- WsHolds

\* The operations keep the promises of a lease queue (module LeaseQueue) that
\* never retries: whatever a worker that lost its lease still does to the
\* worktree, it does not decide how the operation ends, and an end is final.
WsKeepsLeaseQueue == WsLeases!Spec

\* A cleanup cut short at any point is finished by the next worker: every
\* requested operation comes to an outcome.
WsSettles ==
    \A o \in WsIds : wsOp[o].status \in {"pending", "claimed"} ~>
                     wsOp[o].status \in {"succeeded", "failed"}
=============================================================================
