---------------------- MODULE BackgroundServicesProofs ----------------------
(***************************************************************************)
(* What the services behind the API promise, proved for every number of    *)
(* workers, deliveries, operations and instances: cleanup of a workspace   *)
(* loses no work, the ledger of a notification explains its row, an alert  *)
(* is told once, the sweeps of the readiness monitor go forward, and       *)
(* deliveries and operations each implement a lease queue (LeaseQueue).    *)
(***************************************************************************)
EXTENDS MCBackgroundServices, WorkerProofs, FiniteSetTheorems, SequenceTheorems, TLAPS

(***************************************************************************)
(* Workspace operations.                                                   *)
(***************************************************************************)

\* What worker w's phase tells of the operation, the worktree and the branch:
\* it works on a requested operation; once its review has passed, the execution
\* has ended and the commit it reviewed is in the target; past git worktree
\* remove the worktree is gone, and past git update-ref the branch is, too.
WsWorkerMeans(w) ==
    /\ wsWorker[w].phase # "idle" =>
           wsWorker[w].op \in WsIds /\ wsOp[wsWorker[w].op].status # "absent"
    /\ wsWorker[w].phase \in {"removing", "deleting", "releasing"} => wsEnded
    /\ wsWorker[w].phase \in {"removing", "deleting"} => wsWorker[w].head <= wsMerged
    /\ wsWorker[w].phase \in {"deleting", "releasing"} => wsTree = "gone"
    /\ wsWorker[w].phase = "releasing" => ~wsBranch
    /\ wsWorker[w].phase = "reporting" => wsWorker[w].outcome # "none"

\* A cleanup is requested only after the end of the execution.
WsConfirmed ==
    \A o \in WsIds : (wsOp[o].status # "absent" /\ WsKind[o] = "cleanup") => wsEnded

\* The inductive invariant.  The branch is deleted only after its worktree, in
\* which nobody commits any more.
WsIInv ==
    /\ WsTypeOK /\ WsConfirmed /\ WsNoWorkLost
    /\ ~wsBranch => wsTree = "gone"
    /\ \A w \in WsWorkers : WsWorkerMeans(w)

\* What every step keeps of the repository and of the requests.
WsGitKept ==
    /\ wsEnded => wsEnded'
    /\ wsMerged <= wsMerged'
    /\ wsTree = "gone" => wsTree' = "gone"
    /\ ~wsBranch => ~wsBranch'
    /\ \A o \in WsIds : wsOp[o].status # "absent" => wsOp'[o].status # "absent"

WsOthersKept(w) == \A v \in WsWorkers : v # w => wsWorker'[v] = wsWorker[v]

\* What worker v's phase tells survives the steps that leave v alone.
LEMMA WsMeansKept ==
    ASSUME WsTypeOK, WsTypeOK', NEW v \in WsWorkers, WsWorkerMeans(v), WsGitKept,
           wsWorker'[v] = wsWorker[v]
    PROVE  WsWorkerMeans(v)'
BY DEF WsTypeOK, WsWorkerMeans, WsGitKept, WsWorkerStates

\* A step of one worker keeps the invariant when that worker keeps its part.
LEMMA WsOneWorkerMoves ==
    ASSUME WsIInv, NEW w \in WsWorkers, WsTypeOK', WsConfirmed', WsNoWorkLost',
           (~wsBranch => wsTree = "gone")', WsGitKept, WsOthersKept(w), WsWorkerMeans(w)'
    PROVE  WsIInv'
<1>1. ASSUME NEW v \in WsWorkers, v # w PROVE WsWorkerMeans(v)'
    BY <1>1, WsMeansKept DEF WsIInv, WsOthersKept
<1> QED BY <1>1 DEF WsIInv

\* WsMove and WsResult change one worker, and keep the types.
LEMMA WsMoved ==
    ASSUME WsTypeOK, NEW w \in WsWorkers, NEW p \in {"removing", "deleting", "releasing"},
           NEW h \in 0..WsMaxCommits, WsMove(w, p, h)
    PROVE  /\ wsWorker' \in [WsWorkers -> WsWorkerStates] /\ WsOthersKept(w)
           /\ wsWorker'[w].phase = p /\ wsWorker'[w].head = h
           /\ wsWorker'[w].op = wsWorker[w].op
BY DEF WsTypeOK, WsMove, WsOthersKept, WsWorkerStates

(* WsResult changes one worker, and keeps the types. *)
LEMMA WsResulted ==
    ASSUME WsTypeOK, NEW w \in WsWorkers, NEW r \in {"succeeded", "failed"}, WsResult(w, r)
    PROVE  /\ wsWorker' \in [WsWorkers -> WsWorkerStates] /\ WsOthersKept(w)
           /\ wsWorker'[w].phase = "reporting" /\ wsWorker'[w].outcome = r
           /\ wsWorker'[w].op = wsWorker[w].op
BY DEF WsTypeOK, WsResult, WsOthersKept, WsWorkerStates

\* A worker that comes to a result keeps the invariant.
LEMMA WsResultKeeps ==
    ASSUME WsIInv, NEW w \in WsWorkers, NEW r \in {"succeeded", "failed"}, WsResult(w, r),
           wsWorker[w].phase # "idle", UNCHANGED <<wsEnded, wsGit, wsOp, wsFaults>>,
           wsReleased' \in BOOLEAN, wsReleased' => (wsEnded /\ wsTree = "gone" /\ ~wsBranch)
    PROVE  WsIInv'
<1>1. WsTypeOK'
    BY WsResulted DEF WsIInv, WsTypeOK, wsGit
<1>2. WsConfirmed' /\ WsNoWorkLost' /\ (~wsBranch => wsTree = "gone")' /\ WsGitKept
    BY DEF WsIInv, WsConfirmed, WsNoWorkLost, WsGitKept, WsTypeOK, wsGit
<1>3. WsWorkerMeans(w)'
    BY WsResulted DEF WsIInv, WsWorkerMeans
<1> QED BY <1>1, <1>2, <1>3, WsResulted, WsOneWorkerMoves DEF WsIInv

\* The first state satisfies the invariant.
LEMMA WsInitially == WsInit => WsIInv
<1> SUFFICES ASSUME WsInit PROVE WsIInv
    OBVIOUS
<1>1. WsIdle \in WsWorkerStates /\ WsIdle.phase = "idle"
    BY WsAssumption DEF WsIdle, WsWorkerStates
<1>2. [status |-> "absent", token |-> 0, lease |-> "none"] \in WsOpRows
    BY DEF WsOpRows
<1>3. WsTypeOK
    <2>1. wsEnded \in BOOLEAN /\ wsReleased \in BOOLEAN /\ wsBranch \in BOOLEAN
        BY Zenon DEF WsInit
    <2>2. wsOp \in [WsIds -> WsOpRows] /\ wsWorker \in [WsWorkers -> WsWorkerStates]
        BY <1>1, <1>2 DEF WsInit
    <2> QED BY <2>1, <2>2, WsAssumption DEF WsInit, WsTypeOK
<1>4. \A w \in WsWorkers : WsWorkerMeans(w)
    BY <1>1 DEF WsInit, WsWorkerMeans
<1>5. WsConfirmed /\ WsNoWorkLost /\ wsBranch
    BY DEF WsInit, WsConfirmed, WsNoWorkLost
<1> QED BY <1>3, <1>4, <1>5 DEF WsIInv

\* A step that leaves the workers alone keeps the invariant.
LEMMA WsOutsideKeeps ==
    ASSUME WsIInv, WsTypeOK', WsConfirmed', WsNoWorkLost', (~wsBranch => wsTree = "gone")',
           WsGitKept, UNCHANGED wsWorker
    PROVE  WsIInv'
BY WsMeansKept DEF WsIInv

\* The outside world ends the execution, edits, commits and merges.
LEMMA WsWorld ==
    ASSUME WsIInv, WsEnd \/ WsEdit \/ WsCommit \/ WsMerge
    PROVE  WsIInv'
<1>1. WsTypeOK'
    <2>1. CASE WsEnd
        BY <2>1 DEF WsIInv, WsTypeOK, WsEnd, wsGit
    <2>2. CASE WsEdit
        BY <2>2 DEF WsIInv, WsTypeOK, WsEdit
    <2>3. CASE WsCommit
        BY <2>3, WsAssumption DEF WsIInv, WsTypeOK, WsCommit
    <2>4. CASE WsMerge
        BY <2>4 DEF WsIInv, WsTypeOK, WsMerge
    <2> QED BY <2>1, <2>2, <2>3, <2>4
<1>2. WsConfirmed' /\ WsNoWorkLost' /\ (~wsBranch => wsTree = "gone")' /\ WsGitKept
    BY WsAssumption
    DEF WsIInv, WsTypeOK, WsConfirmed, WsNoWorkLost, WsGitKept, WsEnd, WsEdit, WsCommit, WsMerge,
        wsGit
<1> QED BY <1>1, <1>2, WsOutsideKeeps DEF WsEnd, WsEdit, WsCommit, WsMerge

\* Requests, and leases that run out.
LEMMA WsRows ==
    ASSUME WsIInv, NEW o \in WsIds, WsRequest(o) \/ WsLapse(o)
    PROVE  WsIInv'
<1>1. /\ wsOp' \in [WsIds -> WsOpRows] /\ wsFaults' \in Nat
      /\ \A p \in WsIds : wsOp[p].status # "absent" => wsOp'[p].status # "absent"
      /\ \A p \in WsIds : wsOp'[p].status # "absent" =>
             (wsOp[p].status # "absent" \/ (WsKind[p] = "cleanup" => wsEnded))
    BY DEF WsIInv, WsTypeOK, WsRequest, WsLapse, WsOpRows
<1>2. UNCHANGED <<wsEnded, wsReleased, wsGit, wsWorker>>
    BY DEF WsRequest, WsLapse
<1>3. WsTypeOK' /\ WsConfirmed' /\ WsNoWorkLost' /\ (~wsBranch => wsTree = "gone")' /\ WsGitKept
    BY <1>1, <1>2 DEF WsIInv, WsTypeOK, WsConfirmed, WsNoWorkLost, WsGitKept, wsGit
<1> QED BY <1>2, <1>3, WsOutsideKeeps

\* A worker takes an operation.
LEMMA WsClaims ==
    ASSUME WsIInv, NEW w \in WsWorkers, NEW o \in WsIds, WsClaim(w, o)
    PROVE  WsIInv'
<1>1. /\ wsOp' \in [WsIds -> WsOpRows]
      /\ \A p \in WsIds : wsOp'[p].status # "absent" <=> wsOp[p].status # "absent"
    BY DEF WsIInv, WsTypeOK, WsClaim, WsClaimable, WsClaimedRow, WsOpRows
<1>2. /\ wsWorker' \in [WsWorkers -> WsWorkerStates] /\ WsOthersKept(w)
      /\ wsWorker'[w].phase = "claimed" /\ wsWorker'[w].op = o
    BY WsAssumption
    DEF WsIInv, WsTypeOK, WsClaim, WsWorkerStates, WsOpRows, WsOthersKept, WsIds
<1>3. wsOp[o].status # "absent"
    BY DEF WsClaim, WsClaimable
<1>4. WsTypeOK' /\ WsConfirmed' /\ WsNoWorkLost' /\ (~wsBranch => wsTree = "gone")' /\ WsGitKept
    BY <1>1, <1>2
    DEF WsIInv, WsTypeOK, WsConfirmed, WsNoWorkLost, WsGitKept, WsClaim, wsGit
<1>5. WsWorkerMeans(w)'
    BY <1>1, <1>2, <1>3 DEF WsWorkerMeans
<1> QED BY <1>2, <1>4, <1>5, WsOneWorkerMoves

\* A review that passes leads to a phase whose meaning the repository bears out.
LEMMA WsMoveKeeps ==
    ASSUME WsIInv, NEW w \in WsWorkers, NEW p \in {"removing", "deleting", "releasing"},
           NEW h \in 0..WsMaxCommits, WsMove(w, p, h), wsWorker[w].phase # "idle",
           UNCHANGED <<wsEnded, wsReleased, wsHead, wsMerged, wsOp, wsFaults>>,
           wsTree' \in {wsTree, "gone"}, wsBranch' \in BOOLEAN, ~wsBranch => ~wsBranch', wsEnded,
           p \in {"removing", "deleting"} => h <= wsMerged,
           p \in {"deleting", "releasing"} => wsTree' = "gone",
           p = "releasing" => ~wsBranch',
           ~wsBranch' => (wsTree' = "gone" /\ wsHead <= wsMerged)
    PROVE  WsIInv'
<1>1. WsTypeOK' /\ wsMerged \in Int
    <2>1. WsTypeOK /\ wsWorker' \in [WsWorkers -> WsWorkerStates]
        BY WsMoved DEF WsIInv
    <2> QED BY <2>1 DEF WsTypeOK
<1>2. WsConfirmed' /\ WsNoWorkLost' /\ (~wsBranch => wsTree = "gone")' /\ WsGitKept
    BY DEF WsIInv, WsConfirmed, WsNoWorkLost, WsGitKept, WsTypeOK
<1>3. WsWorkerMeans(w)'
    BY WsMoved DEF WsIInv, WsWorkerMeans
<1> QED BY <1>1, <1>2, <1>3, WsMoved, WsOneWorkerMoves DEF WsIInv

(* The review of a claimed operation keeps the invariant. *)
LEMMA WsReviews ==
    ASSUME WsIInv, NEW w \in WsWorkers, WsReview(w)
    PROVE  WsIInv'
<1>1. wsEnded /\ wsHead \in 0..WsMaxCommits /\ wsHead \in Int /\ wsMerged \in Int
    BY DEF WsIInv, WsWorkerMeans, WsConfirmed, WsReview, WsTypeOK
<1>2. UNCHANGED <<wsEnded, wsReleased, wsGit, wsOp, wsFaults>> /\ wsWorker[w].phase = "claimed"
    BY DEF WsReview
<1>3. CASE \E r \in {"succeeded", "failed"} : WsResult(w, r)
    BY <1>2, <1>3, WsResultKeeps DEF WsIInv, WsTypeOK, WsNoWorkLost
<1>4. CASE WsReviewPasses /\ WsMove(w, "removing", wsHead)
    <2>1. wsTree # "gone" /\ wsHead <= wsMerged /\ wsBranch
        BY <1>4 DEF WsReviewPasses, WsIInv
    <2> QED BY <1>1, <1>2, <1>4, <2>1, WsMoveKeeps DEF wsGit
<1>5. CASE wsTree = "gone" /\ WsResumable /\
           WsMove(w, IF wsBranch THEN "deleting" ELSE "releasing", wsHead)
    <2>1. wsHead <= wsMerged
        BY <1>5 DEF WsResumable, WsIInv, WsNoWorkLost
    <2>2. CASE wsBranch
        BY <1>1, <1>2, <1>5, <2>1, <2>2, WsMoveKeeps DEF wsGit
    <2>3. CASE ~wsBranch
        <3>1. WsMove(w, "releasing", wsHead) /\ wsBranch' \in BOOLEAN /\ ~wsBranch'
            BY <1>2, <1>5, <2>3 DEF WsIInv, WsTypeOK, wsGit
        <3> QED BY <1>1, <1>2, <1>5, <2>1, <2>3, <3>1, WsMoveKeeps DEF wsGit
    <2> QED BY <2>2, <2>3
<1> QED BY <1>3, <1>4, <1>5 DEF WsReview

\* An inspection changes nothing but its worker.
LEMMA WsInspects ==
    ASSUME WsIInv, NEW w \in WsWorkers, WsInspect(w)
    PROVE  WsIInv'
BY WsResultKeeps DEF WsInspect, WsIInv, WsTypeOK, WsNoWorkLost

\* git worktree remove.
LEMMA WsRemoves ==
    ASSUME WsIInv, NEW w \in WsWorkers, WsRemoveTree(w)
    PROVE  WsIInv'
<1>1. wsEnded /\ wsWorker[w].head \in 0..WsMaxCommits /\ wsWorker[w].head <= wsMerged
    BY DEF WsIInv, WsWorkerMeans, WsRemoveTree, WsTypeOK, WsWorkerStates
<1>2. CASE UNCHANGED wsTree /\ WsResult(w, "failed")
    BY <1>2, WsResultKeeps DEF WsRemoveTree, WsIInv, WsTypeOK, WsNoWorkLost, wsGit
<1>3. CASE wsTree = "clean" /\ wsTree' = "gone" /\ WsMove(w, "deleting", wsWorker[w].head)
    <2>1. wsBranch
        BY <1>3 DEF WsIInv
    <2> QED BY <1>1, <1>3, <2>1, WsMoveKeeps DEF WsRemoveTree
<1> QED BY <1>2, <1>3 DEF WsRemoveTree

\* git update-ref -d with the reviewed commit.
LEMMA WsDeletes ==
    ASSUME WsIInv, NEW w \in WsWorkers, WsDeleteBranch(w)
    PROVE  WsIInv'
<1>1. wsEnded /\ wsWorker[w].head \in 0..WsMaxCommits /\ wsWorker[w].head <= wsMerged
      /\ wsTree = "gone"
    BY DEF WsIInv, WsWorkerMeans, WsDeleteBranch, WsTypeOK, WsWorkerStates
<1>2. CASE UNCHANGED wsBranch /\ WsResult(w, "failed")
    BY <1>2, WsResultKeeps DEF WsDeleteBranch, WsIInv, WsTypeOK, WsNoWorkLost, wsGit
<1>3. CASE wsHead = wsWorker[w].head /\ wsBranch' = FALSE
           /\ WsMove(w, "releasing", wsWorker[w].head)
    BY <1>1, <1>3, WsMoveKeeps DEF WsDeleteBranch
<1> QED BY <1>2, <1>3 DEF WsDeleteBranch

\* release_workspace.
LEMMA WsReleases ==
    ASSUME WsIInv, NEW w \in WsWorkers, WsRelease(w)
    PROVE  WsIInv'
<1>1. wsEnded /\ wsTree = "gone" /\ ~wsBranch
    BY DEF WsIInv, WsWorkerMeans, WsRelease
<1> QED BY <1>1, WsResultKeeps DEF WsRelease

\* A worker that reports, or whose process ends, is idle.
LEMMA WsEnds ==
    ASSUME WsIInv, NEW w \in WsWorkers, WsReport(w) \/ WsCrash(w)
    PROVE  WsIInv'
<1>1. /\ wsWorker' \in [WsWorkers -> WsWorkerStates] /\ WsOthersKept(w)
      /\ wsWorker'[w].phase = "idle" /\ wsFaults' \in Nat
    <2>1. WsIdle \in WsWorkerStates /\ WsIdle.phase = "idle"
        BY WsAssumption DEF WsIdle, WsWorkerStates
    <2> QED BY <2>1 DEF WsIInv, WsTypeOK, WsReport, WsCrash, WsOthersKept
<1>2. /\ wsOp' \in [WsIds -> WsOpRows]
      /\ \A p \in WsIds : wsOp'[p].status # "absent" <=> wsOp[p].status # "absent"
    <2>1. CASE UNCHANGED wsOp
        BY <2>1 DEF WsIInv, WsTypeOK
    <2>2. CASE /\ wsWorker[w].phase = "reporting" /\ WsOwns(w)
               /\ wsOp' = [wsOp EXCEPT ![wsWorker[w].op] =
                              WsFinishedRow(@, wsWorker[w].outcome)]
        <3>1. wsWorker[w].op \in WsIds /\ wsWorker[w].outcome \in {"succeeded", "failed"}
            BY <2>2 DEF WsIInv, WsTypeOK, WsWorkerMeans, WsWorkerStates
        <3>2. wsOp[wsWorker[w].op].status = "claimed"
            BY <2>2 DEF WsOwns
        <3> QED BY <2>2, <3>1, <3>2 DEF WsIInv, WsTypeOK, WsFinishedRow, WsOpRows
    <2> QED BY <2>1, <2>2 DEF WsReport, WsCrash
<1>3. UNCHANGED <<wsEnded, wsReleased, wsGit>>
    BY DEF WsReport, WsCrash
<1>4. WsTypeOK' /\ WsConfirmed' /\ WsNoWorkLost' /\ (~wsBranch => wsTree = "gone")' /\ WsGitKept
    BY <1>1, <1>2, <1>3
    DEF WsIInv, WsTypeOK, WsConfirmed, WsNoWorkLost, WsGitKept, wsGit
<1>5. WsWorkerMeans(w)'
    BY <1>1 DEF WsWorkerMeans
<1> QED BY <1>1, <1>4, <1>5, WsOneWorkerMoves

\* Every step keeps the invariant.
LEMMA WsInvariantStep == WsIInv /\ [WsNext]_wsVars => WsIInv'
<1> SUFFICES ASSUME WsIInv, [WsNext]_wsVars PROVE WsIInv'
    OBVIOUS
<1>1. CASE WsEnd \/ WsEdit \/ WsCommit \/ WsMerge
    BY <1>1, WsWorld
<1>2. CASE \E o \in WsIds : WsRequest(o) \/ WsLapse(o)
    BY <1>2, WsRows
<1>3. ASSUME NEW w \in WsWorkers, WsStep(w) \/ WsCrash(w) PROVE WsIInv'
    BY <1>3, WsClaims, WsInspects, WsReviews, WsRemoves, WsDeletes, WsReleases, WsEnds DEF WsStep
<1>4. CASE UNCHANGED wsVars
    BY <1>4 DEF WsIInv, WsTypeOK, WsConfirmed, WsNoWorkLost, WsWorkerMeans, wsVars, wsGit
<1> QED BY <1>1, <1>2, <1>3, <1>4 DEF WsNext

\* Cleanup loses no work, whoever commits meanwhile and however many workers run
\* it at once: a commit is on the branch or in the target, and only what is gone
\* is recorded as released (_cleanup_sync and release_workspace).
THEOREM WorkspaceCleanupSafe == WsSpec => [](WsTypeOK /\ WsNoWorkLost)
<1>1. WsIInv => WsTypeOK /\ WsNoWorkLost
    BY DEF WsIInv
<1> QED BY <1>1, WsInitially, WsInvariantStep, PTL DEF WsSpec

(***************************************************************************)
(* The operations as a lease queue.                                        *)
(***************************************************************************)

WsLeaseFacts == INSTANCE LeaseQueueProofs WITH
    Queue <- WsOperations, Workers <- WsWorkers, Retries <- FALSE,
    status <- WsItems, leases <- WsLeaseCounts, hold <- WsHolds

\* A worker at rest holds nothing, and nothing was drawn for an operation that
\* nobody requested.
WsAtRest ==
    /\ \A w \in WsWorkers : wsWorker[w].phase = "idle" => wsWorker[w] = WsIdle
    /\ \A o \in WsIds : wsOp[o].status = "absent" => wsOp[o].token = 0

\* What each step does to the rows and to what the workers hold.
LEMMA WsQueueSteps ==
    ASSUME WsTypeOK, WsAtRest, [WsNext]_wsVars
    PROVE  \/ wsOp' = wsOp /\ wsWorker' = wsWorker
           \/ \E o \in WsIds : WsRequest(o) \/ WsLapse(o)
           \/ \E w \in WsWorkers, o \in WsIds : WsClaim(w, o)
           \/ \E w \in WsWorkers :
                  /\ wsOp' = wsOp /\ \A v \in WsWorkers : v # w => wsWorker'[v] = wsWorker[v]
                  /\ wsWorker[w].phase # "idle" /\ wsWorker'[w].phase # "idle"
                  /\ wsWorker'[w].op = wsWorker[w].op /\ wsWorker'[w].token = wsWorker[w].token
           \/ \E w \in WsWorkers : WsReport(w) \/ WsCrash(w)
<1>1. CASE WsEnd \/ WsEdit \/ WsCommit \/ WsMerge \/ UNCHANGED wsVars
    BY <1>1 DEF WsEnd, WsEdit, WsCommit, WsMerge, wsVars
<1>2. ASSUME NEW w \in WsWorkers, WsInspect(w) \/ WsReview(w) \/ WsRemoveTree(w)
                                  \/ WsDeleteBranch(w) \/ WsRelease(w)
      PROVE  /\ wsOp' = wsOp /\ \A v \in WsWorkers : v # w => wsWorker'[v] = wsWorker[v]
             /\ wsWorker[w].phase # "idle" /\ wsWorker'[w].phase # "idle"
             /\ wsWorker'[w].op = wsWorker[w].op /\ wsWorker'[w].token = wsWorker[w].token
    <2>1. /\ wsOp' = wsOp /\ wsWorker[w].phase # "idle"
          /\ \/ \E outcome \in {"succeeded", "failed"} : WsResult(w, outcome)
             \/ \E p \in {"removing", "deleting", "releasing"}, head \in Nat : WsMove(w, p, head)
        <3>1. wsHead \in Nat /\ wsWorker[w].head \in Nat
            BY WsAssumption DEF WsTypeOK, WsWorkerStates
        <3> QED BY <1>2, <3>1 DEF WsInspect, WsReview, WsRemoveTree, WsDeleteBranch, WsRelease
    <2> QED BY <2>1 DEF WsResult, WsMove, WsTypeOK, WsWorkerStates
<1> QED BY <1>1, <1>2 DEF WsNext, WsStep

LEMMA WsRests == WsTypeOK /\ WsAtRest /\ [WsNext]_wsVars => WsAtRest'
<1> SUFFICES ASSUME WsTypeOK, WsAtRest, [WsNext]_wsVars PROVE WsAtRest'
    OBVIOUS
<1>1. ASSUME NEW w \in WsWorkers, WsReport(w) \/ WsCrash(w) PROVE WsAtRest'
    <2>1. wsWorker' = [wsWorker EXCEPT ![w] = WsIdle]
        BY <1>1 DEF WsReport, WsCrash
    <2>2. ASSUME NEW o \in WsIds PROVE wsOp'[o].status = "absent" => wsOp'[o] = wsOp[o]
        <3>1. wsOp[wsWorker[w].op].status = "claimed" => wsWorker[w].outcome # "absent"
            BY DEF WsTypeOK, WsWorkerStates
        <3>2. CASE wsOp' = wsOp
            BY <3>2
        <3>3. CASE WsOwns(w) /\ wsOp' = [wsOp EXCEPT ![wsWorker[w].op] =
                                             WsFinishedRow(@, wsWorker[w].outcome)]
            BY <3>1, <3>3 DEF WsOwns, WsFinishedRow, WsTypeOK, WsOpRows
        <3> QED BY <1>1, <3>2, <3>3 DEF WsReport, WsCrash
    <2> QED BY <2>1, <2>2 DEF WsAtRest, WsTypeOK
<1>2. ASSUME NEW w \in WsWorkers, NEW o \in WsIds, WsClaim(w, o) PROVE WsAtRest'
    BY <1>2 DEF WsClaim, WsClaimedRow, WsAtRest, WsTypeOK
<1>3. ASSUME NEW o \in WsIds, WsRequest(o) \/ WsLapse(o) PROVE WsAtRest'
    BY <1>3 DEF WsRequest, WsLapse, WsAtRest, WsTypeOK, WsOpRows
<1> QED BY <1>1, <1>2, <1>3, WsQueueSteps DEF WsAtRest

\* What a row is to the queue.
LEMMA WsItemFacts ==
    ASSUME NEW row \in WsOpRows
    PROVE  /\ row.status # "claimed" => WsItemStatus(row) = row.status
           /\ (row.status = "claimed" /\ row.lease = "expired") => WsItemStatus(row) = "lapsed"
           /\ (row.status = "claimed" /\ row.lease # "expired") => WsItemStatus(row) = "claimed"
           /\ row.lease = "live" => row.status = "claimed"
BY DEF WsItemStatus, WsOpRows

\* What writing the row of operation o does to the queue.
LEMMA WsQueueSaved ==
    ASSUME WsTypeOK, NEW o \in WsIds, NEW row, wsOp' = [wsOp EXCEPT ![o] = row]
    PROVE  /\ WsItems' = [WsItems EXCEPT ![o] = WsItemStatus(row)]
           /\ WsLeaseCounts' = [WsLeaseCounts EXCEPT ![o] = row.token]
           /\ WsItems[o] = WsItemStatus(wsOp[o]) /\ WsLeaseCounts[o] = wsOp[o].token
           /\ WsLeaseCounts = [WsLeaseCounts EXCEPT ![o] = wsOp[o].token]
BY DEF WsTypeOK, WsItems, WsLeaseCounts

\* What a change of worker w does to the holdings.
LEMMA WsQueueHeld ==
    ASSUME WsTypeOK, NEW w \in WsWorkers, NEW new, wsWorker' = [wsWorker EXCEPT ![w] = new]
    PROVE  /\ WsHolds' = [WsHolds EXCEPT ![w] = [item |-> new.op, lease |-> new.token]]
           /\ WsHolds[w] = [item |-> wsWorker[w].op, lease |-> wsWorker[w].token]
BY DEF WsTypeOK, WsHolds

LEMMA WsQueueRows ==
    ASSUME WsIInv, WsAtRest, NEW o \in WsIds, WsRequest(o) \/ WsLapse(o)
    PROVE  WsLeases!Next
<1>1. WsTypeOK /\ wsOp[o] \in WsOpRows /\ o \in WsLeases!Items
    BY DEF WsIInv, WsTypeOK, WsIds, WsLeases!Items
<1>2. WsHolds' = WsHolds
    BY DEF WsRequest, WsLapse, WsHolds
<1>3. CASE WsRequest(o)
    <2> DEFINE row == [status |-> "pending", token |-> 0, lease |-> "none"]
    <2>1. row \in WsOpRows /\ row.status = "pending" /\ row.token = wsOp[o].token
        BY <1>1, <1>3 DEF WsOpRows, WsRequest, WsAtRest
    <2>2. wsOp' = [wsOp EXCEPT ![o] = row] /\ wsOp[o].status = "absent"
        BY <1>3 DEF WsRequest
    <2> HIDE DEF row
    <2>3. /\ WsItems' = [WsItems EXCEPT ![o] = WsItemStatus(row)]
          /\ WsLeaseCounts' = [WsLeaseCounts EXCEPT ![o] = row.token]
          /\ WsItems[o] = WsItemStatus(wsOp[o]) /\ WsLeaseCounts[o] = wsOp[o].token
          /\ WsLeaseCounts = [WsLeaseCounts EXCEPT ![o] = wsOp[o].token]
        BY <1>1, <2>2, WsQueueSaved, Zenon
    <2>4. WsItemStatus(row) = "pending" /\ WsItemStatus(wsOp[o]) = "absent"
        BY <1>1, <2>1, <2>2, WsItemFacts
    <2>5. WsLeases!Offer(o)
        BY <1>2, <2>1, <2>3, <2>4 DEF WsLeases!Offer
    <2> QED BY <1>1, <2>5 DEF WsLeases!Next
<1>4. CASE WsLapse(o)
    <2> DEFINE row == [wsOp[o] EXCEPT !.lease = "expired"]
    <2>1. /\ row \in WsOpRows /\ row.status = "claimed" /\ row.token = wsOp[o].token
          /\ row.lease = "expired" /\ wsOp[o].status = "claimed" /\ wsOp[o].lease = "live"
        BY <1>1, <1>4 DEF WsOpRows, WsLapse
    <2>2. wsOp' = [wsOp EXCEPT ![o] = row]
        BY <1>1, <1>4 DEF WsLapse, WsTypeOK
    <2> HIDE DEF row
    <2>3. /\ WsItems' = [WsItems EXCEPT ![o] = WsItemStatus(row)]
          /\ WsLeaseCounts' = [WsLeaseCounts EXCEPT ![o] = row.token]
          /\ WsItems[o] = WsItemStatus(wsOp[o]) /\ WsLeaseCounts[o] = wsOp[o].token
          /\ WsLeaseCounts = [WsLeaseCounts EXCEPT ![o] = wsOp[o].token]
        BY <1>1, <2>2, WsQueueSaved, Zenon
    <2>4. WsItemStatus(row) = "lapsed" /\ WsItemStatus(wsOp[o]) = "claimed"
        BY <1>1, <2>1, WsItemFacts
    <2>5. WsLeases!Lapse(o)
        BY <1>2, <2>1, <2>3, <2>4 DEF WsLeases!Lapse
    <2> QED BY <1>1, <2>5 DEF WsLeases!Next
<1> QED BY <1>3, <1>4

LEMMA WsQueueClaims ==
    ASSUME WsIInv, WsAtRest, NEW w \in WsWorkers, NEW o \in WsIds, WsClaim(w, o)
    PROVE  WsLeases!Next
<1> DEFINE row == WsClaimedRow(wsOp[o])
           new == [phase |-> "claimed", op |-> o, token |-> wsOp[o].token + 1, head |-> 0,
                   outcome |-> "none"]
<1>1. WsTypeOK /\ wsOp[o] \in WsOpRows /\ o \in WsLeases!Items
    BY DEF WsIInv, WsTypeOK, WsIds, WsLeases!Items
<1>2. /\ row \in WsOpRows /\ row.status = "claimed" /\ row.lease = "live"
      /\ row.token = wsOp[o].token + 1
    BY <1>1 DEF WsClaimedRow, WsOpRows
<1>3. /\ wsOp' = [wsOp EXCEPT ![o] = row] /\ wsWorker' = [wsWorker EXCEPT ![w] = new]
      /\ wsWorker[w] = WsIdle /\ WsClaimable(o)
    BY DEF WsClaim, WsAtRest
<1>4. new.op = o /\ new.token = wsOp[o].token + 1
    OBVIOUS
<1>5. wsWorker[w].op = 0 /\ wsWorker[w].token = 0
    BY <1>3 DEF WsIdle
<1> HIDE DEF row, new
<1>6. /\ WsItems' = [WsItems EXCEPT ![o] = WsItemStatus(row)]
      /\ WsLeaseCounts' = [WsLeaseCounts EXCEPT ![o] = row.token]
      /\ WsItems[o] = WsItemStatus(wsOp[o]) /\ WsLeaseCounts[o] = wsOp[o].token
      /\ WsLeaseCounts = [WsLeaseCounts EXCEPT ![o] = wsOp[o].token]
    BY <1>1, <1>3, WsQueueSaved, Zenon
<1>7. WsItemStatus(wsOp[o]) \in {"pending", "lapsed"} /\ WsItemStatus(row) = "claimed"
    BY <1>1, <1>2, <1>3, WsItemFacts DEF WsClaimable
<1>8. /\ WsHolds' = [WsHolds EXCEPT ![w] = [item |-> new.op, lease |-> new.token]]
      /\ WsHolds[w] = [item |-> wsWorker[w].op, lease |-> wsWorker[w].token]
    BY <1>1, <1>3, WsQueueHeld, Zenon
<1>9. WsLeases!Grant(w, o)
    BY <1>1, <1>2, <1>3, <1>4, <1>5, <1>6, <1>8, <1>7 DEF WsLeases!Grant, WsLeases!Idle
<1> QED BY <1>1, <1>9 DEF WsLeases!Next

LEMMA WsQueueReports ==
    ASSUME WsIInv, NEW w \in WsWorkers, WsReport(w) \/ WsCrash(w)
    PROVE  WsLeases!Next
<1> DEFINE o == wsWorker[w].op
<1>1. /\ WsTypeOK /\ o \in WsIds /\ wsOp[o] \in WsOpRows
      /\ wsWorker' = [wsWorker EXCEPT ![w] = WsIdle]
    BY DEF WsIInv, WsTypeOK, WsWorkerMeans, WsReport, WsCrash
<1>2. WsIdle.op = 0 /\ WsIdle.token = 0
    BY DEF WsIdle
<1>3. /\ WsHolds' = [WsHolds EXCEPT ![w] = [item |-> WsIdle.op, lease |-> WsIdle.token]]
      /\ WsHolds[w] = [item |-> o, lease |-> wsWorker[w].token]
    BY <1>1, WsQueueHeld, Zenon
<1>4. WsHolds[w] # WsLeases!Idle /\ WsHolds' = [WsHolds EXCEPT ![w] = WsLeases!Idle]
    BY <1>1, <1>2, <1>3 DEF WsLeases!Idle, WsIds
<1>5. CASE wsOp' = wsOp
    <2>1. WsItems' = WsItems /\ WsLeaseCounts' = WsLeaseCounts
        BY <1>5 DEF WsItems, WsLeaseCounts
    <2>2. WsLeases!Abandon(w)
        BY <1>4, <2>1 DEF WsLeases!Abandon
    <2> QED BY <2>2 DEF WsLeases!Next
<1>6. CASE WsReport(w) /\ WsOwns(w)
    <2> DEFINE row == WsFinishedRow(wsOp[o], wsWorker[w].outcome)
    <2>1. wsWorker[w].outcome \in {"succeeded", "failed"}
        BY <1>6 DEF WsIInv, WsTypeOK, WsWorkerStates, WsWorkerMeans, WsReport
    <2>2. /\ row \in WsOpRows /\ row.status = wsWorker[w].outcome /\ row.token = wsOp[o].token
        BY <1>1, <2>1 DEF WsFinishedRow, WsOpRows
    <2>3. wsOp' = [wsOp EXCEPT ![o] = row]
        BY <1>1, <1>6 DEF WsReport, WsTypeOK
    <2>4. wsWorker[w].token = wsOp[o].token
        BY <1>6 DEF WsOwns
    <2> HIDE DEF row
    <2>5. /\ WsItems' = [WsItems EXCEPT ![o] = WsItemStatus(row)]
          /\ WsLeaseCounts' = [WsLeaseCounts EXCEPT ![o] = row.token]
          /\ WsItems[o] = WsItemStatus(wsOp[o]) /\ WsLeaseCounts[o] = wsOp[o].token
          /\ WsLeaseCounts = [WsLeaseCounts EXCEPT ![o] = wsOp[o].token]
        BY <1>1, <2>3, WsQueueSaved, Zenon
    <2>6. WsItemStatus(row) = wsWorker[w].outcome
        BY <1>1, <2>1, <2>2, WsItemFacts
    <2>7. WsLeases!Report(w, wsWorker[w].outcome)
        <3>1. WsHolds[w].item = o /\ WsHolds[w].lease = WsLeaseCounts[o]
            BY <1>3, <2>4, <2>5
        <3>2. WsLeaseCounts' = WsLeaseCounts
            BY <2>2, <2>5
        <3> QED BY <1>4, <2>5, <2>6, <3>1, <3>2 DEF WsLeases!Report
    <2> QED BY <2>1, <2>7 DEF WsLeases!Next, WsLeases!Outcomes
<1> QED BY <1>5, <1>6 DEF WsReport, WsCrash

LEMMA WsQueueStep ==
    WsIInv /\ WsAtRest /\ [WsNext]_wsVars => [WsLeases!Next]_(WsLeases!vars)
<1> SUFFICES ASSUME WsIInv, WsAtRest, [WsNext]_wsVars PROVE [WsLeases!Next]_(WsLeases!vars)
    OBVIOUS
<1>1. CASE /\ wsOp' = wsOp
           /\ \A v \in WsWorkers : /\ wsWorker'[v].op = wsWorker[v].op
                                   /\ wsWorker'[v].token = wsWorker[v].token
    <2>1. WsItems' = WsItems /\ WsLeaseCounts' = WsLeaseCounts
        BY <1>1 DEF WsItems, WsLeaseCounts
    <2>2. WsHolds' = WsHolds
        BY <1>1 DEF WsHolds
    <2> QED BY <2>1, <2>2 DEF WsLeases!vars
<1> QED BY <1>1, WsQueueSteps, WsQueueRows, WsQueueClaims, WsQueueReports DEF WsIInv

\* The first state is one of an empty queue.
LEMMA WsQueueInitially == WsInit => WsAtRest /\ WsLeases!Init
<1> SUFFICES ASSUME WsInit PROVE WsAtRest /\ WsLeases!Init
    OBVIOUS
<1>1. /\ WsItems = [o \in WsIds |-> "absent"] /\ WsLeaseCounts = [o \in WsIds |-> 0]
      /\ WsHolds = [w \in WsWorkers |-> WsLeases!Idle]
    BY DEF WsInit, WsItems, WsLeaseCounts, WsHolds, WsItemStatus, WsIdle, WsLeases!Idle
<1>2. /\ WsItems \in [WsIds -> WsLeases!Statuses] /\ WsLeaseCounts \in [WsIds -> Nat]
      /\ WsHolds \in [WsWorkers -> [item : WsIds \cup {0}, lease : Nat]]
    BY <1>1 DEF WsLeases!Statuses, WsLeases!Idle
<1>3. WsLeases!TypeOK
    BY <1>2 DEF WsLeases!TypeOK, WsLeases!Items, WsIds
<1>4. WsLeases!Fenced
    BY <1>1 DEF WsLeases!Fenced, WsLeases!Items, WsIds
<1>5. WsAtRest
    BY DEF WsInit, WsAtRest
<1> QED BY <1>3, <1>4, <1>5 DEF WsLeases!Init

\* The operations implement the lease queue without retries, for any number of
\* operations and workers (claim_next, succeed, fail).
THEOREM OperationsKeepLeaseQueue == WsSpec => WsKeepsLeaseQueue
<1>1. WsIInv /\ WsAtRest /\ [WsNext]_wsVars => WsAtRest'
    BY WsRests DEF WsIInv
<1> QED BY <1>1, WsInitially, WsInvariantStep, WsQueueInitially, WsQueueStep, PTL
        DEF WsSpec, WsKeepsLeaseQueue, WsLeases!Spec

\* What LeaseQueue promises holds of the operations: one worker has the latest
\* lease, only its report ends an operation, and an end is final.
THEOREM OperationsFenced ==
    WsSpec => /\ []WsLeaseFacts!OneHolder /\ WsLeaseFacts!ClosedByLatestLease
              /\ WsLeaseFacts!SuccessIsFinal /\ WsLeaseFacts!OneLeaseAtATime
<1>1. WsLeases!Spec => WsLeaseFacts!Spec
    <2>1. WsLeases!Init <=> WsLeaseFacts!Init
        BY DEF WsLeases!Init, WsLeaseFacts!Init, WsLeases!TypeOK, WsLeaseFacts!TypeOK,
               WsLeases!Fenced, WsLeaseFacts!Fenced, WsLeases!Items, WsLeaseFacts!Items,
               WsLeases!Statuses, WsLeaseFacts!Statuses, WsLeases!Idle, WsLeaseFacts!Idle
    <2>2. [WsLeases!Next]_(WsLeases!vars) <=> [WsLeaseFacts!Next]_(WsLeaseFacts!vars)
        BY DEF WsLeases!Next, WsLeaseFacts!Next, WsLeases!vars, WsLeaseFacts!vars,
               WsLeases!Items, WsLeaseFacts!Items, WsLeases!Idle, WsLeaseFacts!Idle,
               WsLeases!Offer, WsLeaseFacts!Offer, WsLeases!Lapse, WsLeaseFacts!Lapse,
               WsLeases!Cancel, WsLeaseFacts!Cancel, WsLeases!Reopen, WsLeaseFacts!Reopen,
               WsLeases!Grant, WsLeaseFacts!Grant, WsLeases!Report, WsLeaseFacts!Report,
               WsLeases!Abandon, WsLeaseFacts!Abandon, WsLeases!Outcomes, WsLeaseFacts!Outcomes
    <2> QED BY <2>1, <2>2, PTL DEF WsLeases!Spec, WsLeaseFacts!Spec
<1> QED BY <1>1, OperationsKeepLeaseQueue, WsLeaseFacts!QueueHasOneHolder,
           WsLeaseFacts!QueueClosesByLatestLease, WsLeaseFacts!QueueSuccessIsFinal,
           WsLeaseFacts!QueueLeasesOneAtATime, PTL DEF WsKeepsLeaseQueue

(***************************************************************************)
(* Notification delivery.                                                  *)
(***************************************************************************)

\* What an outcome in the hands of a worker may be.
NtOutcomes == {"delivered", "provider_unavailable", "timeout", "provider_rejected", "unexpected"}

\* What worker w's phase tells: it holds the token of an attempt that the ledger
\* has as its own, and reports a delivery only after the receiver accepted one.
NtWorkerMeans(w) ==
    LET d == ntWorker[w].delivery
    IN  /\ ntWorker[w].phase # "idle" =>
               /\ d \in NtDeliveries /\ ntWorker[w].token \in 1..ntRow[d].count
               /\ ntLedger[d][ntWorker[w].token].worker = w
        /\ ntWorker[w].phase = "reporting" => ntWorker[w].outcome \in NtOutcomes
        /\ (ntWorker[w].phase = "reporting" /\ ntWorker[w].outcome = "delivered") =>
               d \in ntReached

\* What the columns of delivery d tell: only a delivery that was claimed has an
\* outcome, the lease of a claimed one is that of its last attempt, and a retry is
\* scheduled only after a failure worth one, under the limit of its worker.
NtRowMeans(d) ==
    LET row == ntRow[d]
    IN  /\ row.status \in {"claimed", "succeeded", "failed"} => row.count >= 1
        /\ row.status = "absent" => row.count = 0
        /\ row.status = "claimed" => row.token = row.count
        /\ row.next # "none" =>
               /\ row.status = "failed" /\ row.count >= 1
               /\ ntLedger[d][row.count].code \in {"provider_unavailable", "timeout"}
               /\ row.limit = NtLimit[ntLedger[d][row.count].worker]

NtDeliveryMeans(d) == NtRowMeans(d) /\ NtExplained(d) /\ NtTold(d)

\* The inductive invariant.
NtIInv ==
    /\ NtTypeOK
    /\ \A d \in NtDeliveries : NtDeliveryMeans(d)
    /\ \A w \in NtWorkers : NtWorkerMeans(w)

\* What every step keeps: an attempt stays its worker's.
NtAttemptsKept ==
    /\ ntReached \subseteq ntReached'
    /\ \A d \in NtDeliveries :
           /\ ntRow[d].count <= ntRow'[d].count
           /\ \A i \in 1..ntRow[d].count : ntLedger'[d][i].worker = ntLedger[d][i].worker

NtOthersKept(w) == \A v \in NtWorkers : v # w => ntWorker'[v] = ntWorker[v]

\* Only delivery d changes.
NtOnly(d) ==
    \A e \in NtDeliveries : e # d => /\ ntRow'[e] = ntRow[e] /\ ntLedger'[e] = ntLedger[e]
                                     /\ ntEvents'[e] = ntEvents[e]

(* What a worker means survives the steps that keep the attempts. *)
LEMMA NtMeansKept ==
    ASSUME NtTypeOK, NtTypeOK', NEW v \in NtWorkers, NtWorkerMeans(v), NtAttemptsKept,
           ntWorker'[v] = ntWorker[v]
    PROVE  NtWorkerMeans(v)'
<1>1. CASE ntWorker[v].phase = "idle"
    BY <1>1 DEF NtWorkerMeans
<1>2. CASE ntWorker[v].phase # "idle"
    <2> DEFINE d == ntWorker[v].delivery
    <2>1. d \in NtDeliveries /\ ntRow[d].count \in Nat /\ ntRow'[d].count \in Nat
        BY <1>2 DEF NtWorkerMeans, NtTypeOK, NtDeliveryRows
    <2>2. /\ ntWorker[v].token \in 1..ntRow'[d].count
          /\ ntLedger'[d][ntWorker[v].token].worker = v
        BY <1>2, <2>1 DEF NtWorkerMeans, NtAttemptsKept
    <2> QED BY <1>2, <2>1, <2>2 DEF NtWorkerMeans, NtAttemptsKept
<1> QED BY <1>1, <1>2

\* What a delivery tells survives the steps that leave it alone.
LEMMA NtDeliveryKept ==
    ASSUME NEW e \in NtDeliveries, NtDeliveryMeans(e), ntReached \subseteq ntReached',
           ntRow'[e] = ntRow[e], ntLedger'[e] = ntLedger[e], ntEvents'[e] = ntEvents[e]
    PROVE  NtDeliveryMeans(e)'
<1>1. NtRowMeans(e)'
    BY DEF NtDeliveryMeans, NtRowMeans
<1>2. NtExplained(e)'
    BY DEF NtDeliveryMeans, NtExplained, NtAttemptFits
<1>3. NtTold(e)'
    BY DEF NtDeliveryMeans, NtTold
<1> QED BY <1>1, <1>2, <1>3 DEF NtDeliveryMeans

\* A step that changes delivery d keeps the invariant when d and the workers do.
LEMMA NtOneDelivery ==
    ASSUME NtIInv, NEW d \in NtDeliveries, NtTypeOK', NtOnly(d), NtAttemptsKept,
           NtDeliveryMeans(d)', \A w \in NtWorkers : NtWorkerMeans(w)'
    PROVE  NtIInv'
<1>1. ASSUME NEW e \in NtDeliveries, e # d PROVE NtDeliveryMeans(e)'
    BY <1>1, NtDeliveryKept DEF NtIInv, NtOnly, NtAttemptsKept
<1> QED BY <1>1 DEF NtIInv

\* Counting the claims among events.
LEMMA NtClaimsCounted ==
    ASSUME NEW s \in Seq(NtEventTypes), NEW t \in NtEventTypes
    PROVE  /\ s \o <<t>> \in Seq(NtEventTypes)
           /\ (s \o <<t>>)[Len(s \o <<t>>)] = t /\ s \o <<t>> # <<>>
           /\ Cardinality(NtClaims(s)) \in Nat
           /\ Cardinality(NtClaims(s \o <<t>>)) =
                  IF t = "claimed" THEN Cardinality(NtClaims(s)) + 1 ELSE Cardinality(NtClaims(s))
<1>1. /\ s \o <<t>> \in Seq(NtEventTypes) /\ Len(s \o <<t>>) = Len(s) + 1 /\ Len(s) \in Nat
      /\ DOMAIN s = 1..Len(s) /\ DOMAIN (s \o <<t>>) = 1..(Len(s) + 1)
      /\ \A i \in 1..Len(s) : (s \o <<t>>)[i] = s[i]
      /\ (s \o <<t>>)[Len(s) + 1] = t
    OBVIOUS
<1>2. IsFiniteSet(NtClaims(s))
    <2>1. IsFiniteSet(1..Len(s)) /\ NtClaims(s) \subseteq 1..Len(s)
        BY <1>1, FS_Interval DEF NtClaims
    <2> QED BY <2>1, FS_Subset
<1>3. CASE t = "claimed"
    <2>1. NtClaims(s \o <<t>>) = NtClaims(s) \cup {Len(s) + 1} /\ Len(s) + 1 \notin NtClaims(s)
        BY <1>1, <1>3 DEF NtClaims
    <2> QED BY <1>1, <1>2, <1>3, <2>1, FS_AddElement, FS_CardinalityType
<1>4. CASE t # "claimed"
    <2>1. NtClaims(s \o <<t>>) = NtClaims(s)
        BY <1>1, <1>4 DEF NtClaims
    <2> QED BY <1>1, <1>2, <1>4, <2>1, FS_CardinalityType
<1> QED BY <1>3, <1>4

\* The first state satisfies the invariant.
LEMMA NtInitially == NtInit => NtIInv
<1> SUFFICES ASSUME NtInit PROVE NtIInv
    OBVIOUS
<1>1. NtIdle \in NtWorkerStates /\ NtIdle.phase = "idle"
    BY DEF NtIdle, NtWorkerStates
<1> DEFINE none == [NtNewRow EXCEPT !.status = "absent"]
<1>2. none \in NtDeliveryRows /\ none.status = "absent" /\ none.count = 0 /\ none.next = "none"
    BY NtAssumption DEF NtNewRow, NtDeliveryRows
<1>3. NtTypeOK
    BY <1>1, <1>2 DEF NtInit, NtTypeOK
<1>4. ASSUME NEW d \in NtDeliveries PROVE NtDeliveryMeans(d)
    <2>1. ntRow[d] = none /\ ntLedger[d] = <<>> /\ ntEvents[d] = <<>>
        BY DEF NtInit
    <2>2. NtRowMeans(d)
        BY <1>2, <2>1 DEF NtRowMeans
    <2>3. NtExplained(d)
        BY <1>2, <2>1 DEF NtExplained
    <2>4. NtTold(d)
        BY <1>2, <2>1 DEF NtTold
    <2> QED BY <2>2, <2>3, <2>4 DEF NtDeliveryMeans
<1>5. \A w \in NtWorkers : NtWorkerMeans(w)
    BY <1>1 DEF NtInit, NtWorkerMeans
<1> QED BY <1>3, <1>4, <1>5 DEF NtIInv

\* Worker w's process ends.
LEMMA NtBecomesIdle ==
    ASSUME NtIInv, NEW w \in NtWorkers, ntWorker' = [ntWorker EXCEPT ![w] = NtIdle]
    PROVE  /\ ntWorker' \in [NtWorkers -> NtWorkerStates] /\ NtOthersKept(w)
           /\ NtWorkerMeans(w)'
<1>1. NtIdle \in NtWorkerStates /\ NtIdle.phase = "idle"
    BY DEF NtIdle, NtWorkerStates
<1>2. ntWorker' \in [NtWorkers -> NtWorkerStates] /\ NtOthersKept(w) /\ ntWorker'[w] = NtIdle
    BY <1>1 DEF NtIInv, NtTypeOK, NtOthersKept
<1> QED BY <1>1, <1>2 DEF NtWorkerMeans

\* Steps that change neither rows nor ledger: an answer, a refused report, a crash.
LEMMA NtWorkerOnly ==
    ASSUME NtIInv, NEW w \in NtWorkers,
           (\E answer \in NtAnswers : NtDeliver(w, answer)) \/ NtRefused(w) \/ NtCrash(w)
    PROVE  NtIInv'
<1>1. UNCHANGED <<ntRow, ntLedger, ntEvents, ntManual>> /\ ntWorker[w].phase # "idle"
    BY DEF NtDeliver, NtRefused, NtCrash
<1>2. /\ ntReached \subseteq ntReached' /\ ntReached' \subseteq NtDeliveries
      /\ ntFaults' \in Nat
    <2>1. ntWorker[w].delivery \in NtDeliveries /\ ntReached \subseteq NtDeliveries /\ ntFaults \in Nat
        BY <1>1 DEF NtIInv, NtTypeOK, NtWorkerMeans
    <2> QED BY <2>1 DEF NtDeliver, NtRefused, NtCrash
<1>3. /\ ntWorker' \in [NtWorkers -> NtWorkerStates] /\ NtOthersKept(w) /\ NtWorkerMeans(w)'
    <2>1. CASE NtRefused(w) \/ NtCrash(w)
        BY <2>1, NtBecomesIdle DEF NtRefused, NtCrash
    <2>2. ASSUME NEW answer \in NtAnswers, NtDeliver(w, answer)
          PROVE  /\ ntWorker' \in [NtWorkers -> NtWorkerStates] /\ NtOthersKept(w)
                 /\ NtWorkerMeans(w)'
        <3>1. answer.outcome \in NtOutcomes /\ (answer.outcome = "delivered" => answer.accepted)
            BY DEF NtAnswers, NtOutcomes
        <3>2. /\ ntWorker' \in [NtWorkers -> NtWorkerStates] /\ NtOthersKept(w)
              /\ ntWorker'[w].phase = "reporting" /\ ntWorker'[w].outcome = answer.outcome
              /\ ntWorker'[w].delivery = ntWorker[w].delivery
              /\ ntWorker'[w].token = ntWorker[w].token
            BY <2>2, <3>1
            DEF NtDeliver, NtIInv, NtTypeOK, NtWorkerStates, NtOthersKept, NtOutcomes,
                NtFailureCodes
        <3>3. answer.outcome = "delivered" => ntWorker[w].delivery \in ntReached'
            BY <2>2, <3>1 DEF NtDeliver
        <3> QED BY <1>1, <3>1, <3>2, <3>3 DEF NtIInv, NtWorkerMeans
    <2> QED BY <2>1, <2>2
<1>4. NtTypeOK' /\ NtAttemptsKept
    BY <1>1, <1>2, <1>3 DEF NtIInv, NtTypeOK, NtAttemptsKept, NtDeliveryRows
<1>5. \A d \in NtDeliveries : NtDeliveryMeans(d)'
    BY <1>1, <1>2, NtDeliveryKept DEF NtIInv
<1>6. \A v \in NtWorkers : NtWorkerMeans(v)'
    BY <1>3, <1>4, NtMeansKept DEF NtIInv, NtOthersKept
<1> QED BY <1>4, <1>5, <1>6 DEF NtIInv

\* A step that rewrites the row of delivery d without an attempt: it keeps the
\* invariant when the row is still claimed or delivered exactly if it was.
LEMMA NtRowChanges ==
    ASSUME NtIInv, NEW d \in NtDeliveries, NEW row \in NtDeliveryRows, NtSave(d, row),
           row.count = ntRow[d].count, row.status = "claimed" <=> ntRow[d].status = "claimed",
           row.status = "succeeded" <=> ntRow[d].status = "succeeded",
           UNCHANGED <<ntLedger, ntWorker, ntReached>>, ntManual' \in Nat, ntFaults' \in Nat,
           NEW events \in Seq(NtEventTypes), ntEvents' = [ntEvents EXCEPT ![d] = events],
           NtRowMeans(d)', NtTold(d)'
    PROVE  NtIInv'
<1>1. /\ ntRow' \in [NtDeliveries -> NtDeliveryRows] /\ ntRow'[d] = row
      /\ ntEvents' \in [NtDeliveries -> Seq(NtEventTypes)] /\ NtOnly(d)
    BY DEF NtIInv, NtTypeOK, NtSave, NtOnly
<1>2. NtTypeOK'
    BY <1>1 DEF NtIInv, NtTypeOK
<1>3. NtAttemptsKept
    <2>1. \A e \in NtDeliveries : ntRow[e].count \in Nat /\ ntRow'[e].count = ntRow[e].count
        BY <1>1 DEF NtIInv, NtTypeOK, NtDeliveryRows, NtOnly
    <2> QED BY <2>1 DEF NtAttemptsKept
<1>4. NtExplained(d)'
    <2>1. NtExplained(d)
        BY DEF NtIInv, NtDeliveryMeans
    <2>2. ASSUME NEW i \in 1..ntRow[d].count PROVE NtAttemptFits(d, i)'
        BY <1>1, <2>1, SMTT(30) DEF NtExplained, NtAttemptFits
    <2> QED BY <1>1, <2>1, <2>2 DEF NtExplained
<1>5. \A w \in NtWorkers : NtWorkerMeans(w)'
    BY <1>2, <1>3, NtMeansKept DEF NtIInv
<1> QED BY <1>1, <1>2, <1>3, <1>4, <1>5, NtOneDelivery DEF NtDeliveryMeans

\* Enqueueing, the operators' retry and cancellation, and the passing of time.
LEMMA NtOperators ==
    ASSUME NtIInv, NEW d \in NtDeliveries,
           NtEnqueue(d) \/ NtRetry(d) \/ NtCancelAutomaticRetry(d) \/ NtLeaseLapses(d)
           \/ NtComesDue(d)
    PROVE  NtIInv'
<1> DEFINE old == ntRow[d]
           s == ntEvents[d]
<1>1. /\ old \in NtDeliveryRows /\ s \in Seq(NtEventTypes) /\ ntManual \in Nat /\ ntFaults \in Nat
      /\ ntRow \in [NtDeliveries -> NtDeliveryRows]
      /\ ntEvents \in [NtDeliveries -> Seq(NtEventTypes)]
      /\ old.count \in Nat
    BY DEF NtIInv, NtTypeOK, NtDeliveryRows
<1>2. NtRowMeans(d) /\ NtTold(d)
    BY DEF NtIInv, NtDeliveryMeans
<1>3. /\ NtNewRow \in NtDeliveryRows /\ NtNewRow.status = "pending" /\ NtNewRow.count = 0
      /\ NtNewRow.next = "none"
    BY NtAssumption DEF NtNewRow, NtDeliveryRows
<1>4. CASE NtEnqueue(d)
    <2>1. ntRow'[d] = NtNewRow /\ ntEvents' = [ntEvents EXCEPT ![d] = s] /\ ntEvents'[d] = s
        BY <1>1, <1>4 DEF NtEnqueue, NtSave
    <2>2. old.status = "absent" /\ old.count = 0 /\ s = <<>>
        BY <1>2, <1>4 DEF NtEnqueue, NtRowMeans, NtTold, NtStatusAfter
    <2>3. NtRowMeans(d)' /\ NtTold(d)'
        BY <1>3, <2>1, <2>2 DEF NtRowMeans, NtTold
    <2> QED BY <1>1, <1>3, <1>4, <2>1, <2>2, <2>3, NtRowChanges DEF NtEnqueue
<1>5. CASE NtRetry(d)
    <2> DEFINE row == NtRetriedRow(old)
    <2>1. row \in NtDeliveryRows /\ row.status = "pending" /\ row.count = old.count /\ row.next = "none"
        BY <1>1, NtAssumption DEF NtRetriedRow, NtNewRow, NtDeliveryRows
    <2>2. /\ ntRow'[d] = row /\ ntEvents' = [ntEvents EXCEPT ![d] = s \o <<"retried">>]
          /\ ntEvents'[d] = s \o <<"retried">>
        BY <1>1, <1>5 DEF NtRetry, NtSave, NtRecordEvents
    <2>3. old.status = "failed" /\ NtSave(d, row) /\ UNCHANGED <<ntLedger, ntWorker, ntReached>>
          /\ ntManual' \in Nat /\ ntFaults' \in Nat
        BY <1>1, <1>5, NtAssumption DEF NtRetry
    <2>4. NtRowMeans(d)'
        BY <1>1, <2>1, <2>2 DEF NtRowMeans
    <2>5. s # <<>>
        BY <1>2, <2>3 DEF NtTold
    <2>6. "retried" \in NtEventTypes
        BY DEF NtEventTypes
    <2>7. NtTold(d)'
        BY <1>1, <1>2, <2>1, <2>2, <2>5, <2>6, NtClaimsCounted DEF NtTold, NtStatusAfter
    <2> QED BY <1>1, <2>1, <2>2, <2>3, <2>4, <2>6, <2>7, NtClaimsCounted, NtRowChanges
<1>6. CASE NtCancelAutomaticRetry(d)
    <2> DEFINE row == NtCancelledRow(old)
    <2>1. row \in NtDeliveryRows /\ row.status = old.status /\ row.count = old.count
          /\ row.next = "none" /\ row.token = old.token
        <3>1. 0 \in 0..10
            OBVIOUS
        <3> QED BY <1>1, <3>1 DEF NtCancelledRow, NtDeliveryRows
    <2>2. /\ ntRow'[d] = row /\ ntEvents' = [ntEvents EXCEPT ![d] = s \o <<"retry_cancelled">>]
          /\ ntEvents'[d] = s \o <<"retry_cancelled">>
        BY <1>1, <1>6 DEF NtCancelAutomaticRetry, NtSave, NtRecordEvents
    <2>3. old.status = "failed" /\ NtSave(d, row) /\ UNCHANGED <<ntLedger, ntWorker, ntReached>>
          /\ ntManual' \in Nat /\ ntFaults' \in Nat
        BY <1>1, <1>6 DEF NtCancelAutomaticRetry
    <2>4. NtRowMeans(d)'
        BY <1>1, <1>2, <2>1, <2>2 DEF NtRowMeans
    <2>5. s # <<>>
        BY <1>2, <2>3 DEF NtTold
    <2>6. "retry_cancelled" \in NtEventTypes
        BY DEF NtEventTypes
    <2>7. NtTold(d)'
        BY <1>1, <1>2, <2>1, <2>2, <2>3, <2>5, <2>6, NtClaimsCounted DEF NtTold, NtStatusAfter
    <2> QED BY <1>1, <2>1, <2>2, <2>3, <2>4, <2>6, <2>7, NtClaimsCounted, NtRowChanges
<1>7. CASE NtLeaseLapses(d) \/ NtComesDue(d)
    <2>1. PICK row \in NtDeliveryRows :
              /\ NtSave(d, row) /\ row.status = old.status /\ row.count = old.count
              /\ row.token = old.token /\ row.limit = old.limit
              /\ row.next # "none" <=> old.next # "none"
        <3>1. CASE NtLeaseLapses(d)
            <4> DEFINE new == [old EXCEPT !.lease = "expired"]
            <4>1. /\ new \in NtDeliveryRows /\ new.status = old.status /\ new.count = old.count
                  /\ new.token = old.token /\ new.limit = old.limit
                  /\ new.next # "none" <=> old.next # "none"
                BY <1>1, <3>1 DEF NtLeaseLapses, NtDeliveryRows
            <4>2. NtSave(d, new)
                BY <3>1 DEF NtLeaseLapses
            <4> QED BY <4>1, <4>2
        <3>2. CASE NtComesDue(d)
            <4> DEFINE new == [old EXCEPT !.next = "due"]
            <4>1. /\ new \in NtDeliveryRows /\ new.status = old.status /\ new.count = old.count
                  /\ new.token = old.token /\ new.limit = old.limit
                  /\ new.next # "none" <=> old.next # "none"
                BY <1>1, <3>2 DEF NtComesDue, NtDeliveryRows
            <4>2. NtSave(d, new)
                BY <3>2 DEF NtComesDue
            <4> QED BY <4>1, <4>2
        <3> QED BY <1>7, <3>1, <3>2
    <2>2. /\ UNCHANGED <<ntLedger, ntWorker, ntReached, ntEvents>>
          /\ ntManual' \in Nat /\ ntFaults' \in Nat /\ ntRow'[d] = row
          /\ ntEvents' = [ntEvents EXCEPT ![d] = s] /\ ntEvents'[d] = s
        BY <1>1, <1>7, <2>1 DEF NtLeaseLapses, NtComesDue, NtSave
    <2>3. NtRowMeans(d)'
        BY <1>2, <2>1, <2>2 DEF NtRowMeans
    <2>4. NtTold(d)'
        BY <1>2, <2>1, <2>2 DEF NtTold
    <2> QED BY <1>1, <2>1, <2>2, <2>3, <2>4, NtRowChanges
<1> QED BY <1>4, <1>5, <1>6, <1>7

\* NtFinishAttempt closes the last attempt of delivery d.
LEMMA NtAttemptCloses ==
    ASSUME NtIInv, NEW d \in NtDeliveries, ntRow[d].status = "claimed",
           NEW status \in {"succeeded", "failed"}, NEW code \in NtFailureCodes \cup {"none"},
           NtFinishAttempt(d, status, code)
    PROVE  LET n == ntRow[d].count
           IN  /\ n \in Nat /\ n >= 1 /\ Len(ntLedger[d]) = n
               /\ ntLedger' \in [NtDeliveries -> Seq(NtAttemptRows)] /\ Len(ntLedger'[d]) = n
               /\ \A e \in NtDeliveries : e # d => ntLedger'[e] = ntLedger[e]
               /\ \A i \in 1..n : /\ i # n => ntLedger'[d][i] = ntLedger[d][i]
                                  /\ ntLedger'[d][i].worker = ntLedger[d][i].worker
                                  /\ ntLedger'[d][i].trigger = ntLedger[d][i].trigger
               /\ ntLedger'[d][n].status = status /\ ntLedger'[d][n].code = code
<1> DEFINE n == ntRow[d].count
           s == ntLedger[d]
           t == [s EXCEPT ![n] = [s[n] EXCEPT !.status = status, !.code = code]]
<1>1. /\ n \in Nat /\ n >= 1 /\ Len(s) = n /\ s \in Seq(NtAttemptRows)
      /\ ntLedger \in [NtDeliveries -> Seq(NtAttemptRows)]
    BY DEF NtIInv, NtTypeOK, NtDeliveryRows, NtDeliveryMeans, NtRowMeans, NtExplained
<1>2. s[n] \in NtAttemptRows
    BY <1>1
<1> DEFINE row == [s[n] EXCEPT !.status = status, !.code = code]
<1>3. /\ row \in NtAttemptRows /\ row.worker = s[n].worker /\ row.trigger = s[n].trigger
      /\ row.status = status /\ row.code = code
    BY <1>2 DEF NtAttemptRows
<1>4. t \in Seq(NtAttemptRows) /\ Len(t) = n /\ \A i \in 1..n : t[i] = IF i = n THEN row ELSE s[i]
    BY <1>1, <1>3
<1>5. ntLedger' = [ntLedger EXCEPT ![d] = t]
    BY <1>1, <1>2 DEF NtFinishAttempt
<1>6. /\ ntLedger' \in [NtDeliveries -> Seq(NtAttemptRows)] /\ ntLedger'[d] = t
      /\ \A e \in NtDeliveries : e # d => ntLedger'[e] = ntLedger[e]
    BY <1>1, <1>4, <1>5
<1> HIDE DEF t, row
<1> QED BY <1>1, <1>3, <1>4, <1>6

\* The holder of the lease reports: the attempt is closed with its outcome.
LEMMA NtReportKeeps ==
    ASSUME NtIInv, NEW w \in NtWorkers, NEW d \in NtDeliveries, d = ntWorker[w].delivery,
           ntWorker[w].phase = "reporting", NtOwns(w),
           NEW status \in {"succeeded", "failed"},
           NEW code \in (NtFailureCodes \cup {"none"}) \ {"lease_expired"},
           NtFinishAttempt(d, status, code),
           NEW row \in NtDeliveryRows, NtSave(d, row), row.count = ntRow[d].count,
           row.status = status, status = "succeeded" => d \in ntReached,
           row.next # "none" => /\ status = "failed" /\ code \in {"provider_unavailable", "timeout"}
                                /\ row.limit = NtLimit[w],
           NEW events \in Seq(NtEventTypes), ntEvents' = [ntEvents EXCEPT ![d] = events],
           NtTold(d)', ntWorker' = [ntWorker EXCEPT ![w] = NtIdle],
           UNCHANGED <<ntReached, ntManual, ntFaults>>
    PROVE  NtIInv'
<1> DEFINE n == ntRow[d].count
<1>1. /\ ntRow[d].status = "claimed" /\ ntRow[d].token = ntWorker[w].token
    BY SMTT(30) DEF NtOwns
<1>2. /\ n \in Nat /\ n >= 1 /\ Len(ntLedger[d]) = n
      /\ ntLedger' \in [NtDeliveries -> Seq(NtAttemptRows)] /\ Len(ntLedger'[d]) = n
      /\ \A e \in NtDeliveries : e # d => ntLedger'[e] = ntLedger[e]
      /\ \A i \in 1..n : /\ i # n => ntLedger'[d][i] = ntLedger[d][i]
                         /\ ntLedger'[d][i].worker = ntLedger[d][i].worker
                         /\ ntLedger'[d][i].trigger = ntLedger[d][i].trigger
      /\ ntLedger'[d][n].status = status /\ ntLedger'[d][n].code = code
    BY <1>1, NtAttemptCloses, SMTT(30)
<1>3. /\ ntRow' \in [NtDeliveries -> NtDeliveryRows] /\ ntRow'[d] = row
      /\ ntEvents' \in [NtDeliveries -> Seq(NtEventTypes)] /\ NtOnly(d)
    BY <1>2, SMTT(30) DEF NtIInv, NtTypeOK, NtSave, NtOnly
<1>4. /\ ntWorker' \in [NtWorkers -> NtWorkerStates] /\ NtOthersKept(w)
      /\ NtWorkerMeans(w)'
    BY NtBecomesIdle
<1>5. NtTypeOK'
    BY <1>2, <1>3, <1>4 DEF NtIInv, NtTypeOK
<1>6. NtAttemptsKept
    <2>1. \A e \in NtDeliveries : ntRow[e].count \in Nat /\ ntRow'[e].count = ntRow[e].count
        BY <1>3, ZenonT(40) DEF NtIInv, NtTypeOK, NtDeliveryRows, NtOnly
    <2>2. ASSUME NEW e \in NtDeliveries, NEW i \in 1..ntRow[e].count
          PROVE  ntLedger'[e][i].worker = ntLedger[e][i].worker
        <3>1. CASE e = d
            BY <1>2, <3>1, ZenonT(40)
        <3>2. CASE e # d
            BY <1>2, <3>2, ZenonT(40)
        <3> QED BY <3>1, <3>2
    <2> QED BY <2>1, <2>2 DEF NtAttemptsKept
<1>7. ntLedger[d][n].worker = w
    <2>1. NtRowMeans(d) /\ NtWorkerMeans(w)
        BY Zenon DEF NtIInv, NtDeliveryMeans
    <2>2. ntRow[d].token = n
        BY <1>1, <2>1, Zenon DEF NtRowMeans
    <2>3. ntLedger[d][ntWorker[w].token].worker = w
        BY <2>1 DEF NtWorkerMeans
    <2> QED BY <1>1, <2>2, <2>3, Zenon
<1>8. NtRowMeans(d)'
    <2>1. n \in 1..n
        BY <1>2
    <2>2. ntLedger'[d][n].worker = w /\ ntLedger'[d][n].code = code
        BY <1>2, <1>7, <2>1, SMTT(30)
    <2> QED BY <1>2, <1>3, <2>2, SMTT(30) DEF NtRowMeans
<1>9. NtExplained(d)'
    <2>1. ASSUME NEW i \in 1..n PROVE NtAttemptFits(d, i)'
        <3>1. NtAttemptFits(d, i) /\ i \in Int /\ n \in Int
            BY <1>2, SMTT(30) DEF NtIInv, NtDeliveryMeans, NtExplained
        <3>2. ntLedger'[d][i].trigger = ntLedger[d][i].trigger
            BY <1>2
        <3>3. i < n => ntLedger'[d][i + 1].trigger = ntLedger[d][i + 1].trigger
            BY <1>2, SMTT(30)
        <3>4. i # 1 => ntLedger'[d][i - 1] = ntLedger[d][i - 1]
            BY <1>2, SMTT(30)
        <3>5. CASE i # n
            <4>1. ntLedger'[d][i] = ntLedger[d][i]
                BY <1>2, <3>5, SMTT(30)
            <4> QED BY <1>1, <1>3, <3>1, <3>3, <3>4, <3>5, <4>1, SMTT(30) DEF NtAttemptFits
        <3>6. CASE i = n
            <4>1. /\ ntLedger'[d][i].status = status /\ ntLedger'[d][i].code = code
                  /\ ntRow'[d].count = i /\ ntRow'[d].status = status
                BY <1>2, <1>3, <3>6
            <4>2. /\ ntLedger'[d][i].trigger = "initial" <=> i = 1
                  /\ ntLedger'[d][i].trigger = "automatic" =>
                        /\ ntLedger'[d][i - 1].code \in {"provider_unavailable", "timeout"}
                        /\ i - 1 <= NtLimit[ntLedger'[d][i - 1].worker]
                BY <3>1, <3>2, <3>4 DEF NtAttemptFits
            <4> QED BY <3>1, <4>1, <4>2, SMTT(30) DEF NtAttemptFits
        <3> QED BY <3>5, <3>6
    <2> QED BY <1>2, <1>3, <2>1, SMTT(30) DEF NtExplained
<1>10. \A v \in NtWorkers : NtWorkerMeans(v)'
    BY <1>4, <1>5, <1>6, NtMeansKept, SMTT(30) DEF NtIInv, NtOthersKept
<1> QED BY <1>3, <1>5, <1>6, <1>8, <1>9, <1>10, NtOneDelivery DEF NtDeliveryMeans

\* NotificationService.succeed and fail.
LEMMA NtReports ==
    ASSUME NtIInv, NEW w \in NtWorkers, NtSucceed(w) \/ NtFail(w)
    PROVE  NtIInv'
<1>0. PICK d \in NtDeliveries : d = ntWorker[w].delivery
    BY DEF NtSucceed, NtFail, NtIInv, NtWorkerMeans
<1> DEFINE old == ntRow[d]
           s == ntEvents[d]
           code == ntWorker[w].outcome
<1>1. ntWorker[w].phase = "reporting" /\ NtOwns(w) /\ d = ntWorker[w].delivery
    BY <1>0 DEF NtSucceed, NtFail
<1>2. old \in NtDeliveryRows /\ s \in Seq(NtEventTypes) /\ old.status = "claimed" /\ s # <<>>
      /\ ntEvents \in [NtDeliveries -> Seq(NtEventTypes)]
      /\ ntRow \in [NtDeliveries -> NtDeliveryRows]
      /\ old.count \in Nat
      /\ old.next = "none"
    BY <1>1 DEF NtIInv, NtTypeOK, NtOwns, NtDeliveryMeans, NtTold, NtRowMeans, NtDeliveryRows
<1>3. NtTold(d)
    BY <1>1 DEF NtIInv, NtDeliveryMeans
<1>4. {"succeeded", "failed", "retry_scheduled"} \subseteq NtEventTypes
    BY DEF NtEventTypes
<1>5. CASE NtSucceed(w)
    <2> DEFINE row == NtSucceededRow(old)
    <2>1. /\ row \in NtDeliveryRows /\ row.status = "succeeded" /\ row.count = old.count
          /\ row.next = "none"
        BY <1>2 DEF NtSucceededRow, NtDeliveryRows
    <2>2. /\ NtSave(d, row) /\ NtFinishAttempt(d, "succeeded", "none") /\ d \in ntReached
          /\ ntEvents' = [ntEvents EXCEPT ![d] = s \o <<"succeeded">>]
          /\ ntWorker' = [ntWorker EXCEPT ![w] = NtIdle]
          /\ UNCHANGED <<ntReached, ntManual, ntFaults>>
        BY <1>1, <1>5 DEF NtSucceed, NtRecordEvents, NtIInv, NtWorkerMeans
    <2>3. ntRow'[d] = row /\ ntEvents'[d] = s \o <<"succeeded">>
        BY <1>1, <1>2, <2>2 DEF NtSave
    <2>4. NtTold(d)'
        BY <1>2, <1>3, <1>4, <2>1, <2>3, NtClaimsCounted DEF NtTold, NtStatusAfter
    <2>5. s \o <<"succeeded">> \in Seq(NtEventTypes)
        BY <1>2, <1>4, NtClaimsCounted
    <2>6. "none" \in (NtFailureCodes \cup {"none"}) \ {"lease_expired"}
        OBVIOUS
    <2> HIDE DEF row
    <2> QED BY <1>1, <2>1, <2>2, <2>4, <2>5, <2>6, NtReportKeeps
<1>6. CASE NtFail(w)
    <2> DEFINE row == NtFailedRow(old, w)
    <2>1. /\ code \in (NtFailureCodes \cup {"none"}) \ {"lease_expired"} /\ code \in NtFailureCodes
          /\ NtLimit[w] \in 0..10
        BY <1>1, <1>6, NtAssumption DEF NtFail, NtIInv, NtWorkerMeans, NtOutcomes, NtFailureCodes
    <2>2. /\ row \in NtDeliveryRows /\ row.status = "failed" /\ row.count = old.count
          /\ row.code = code /\ row.limit = NtLimit[w]
          /\ row.next # "none" => code \in {"provider_unavailable", "timeout"}
        BY <1>2, <2>1, ZenonT(40) DEF NtFailedRow, NtDeliveryRows, NtRetryable, NtNextAttempt
    <2> DEFINE types == IF row.next = "none" THEN <<"failed">> ELSE <<"failed", "retry_scheduled">>
    <2>3. /\ NtSave(d, row) /\ NtFinishAttempt(d, "failed", row.code)
          /\ ntEvents' = [ntEvents EXCEPT ![d] = s \o types]
          /\ ntWorker' = [ntWorker EXCEPT ![w] = NtIdle]
          /\ UNCHANGED <<ntReached, ntManual, ntFaults>>
        BY <1>1, <1>6 DEF NtFail, NtRecordEvents
    <2>4. ntRow'[d] = row /\ ntEvents'[d] = s \o types
        BY <1>1, <1>2, <2>3 DEF NtSave
    <2> HIDE DEF row
    <2>5. s \o types \in Seq(NtEventTypes) /\ NtTold(d)'
        <3>1. CASE row.next = "none"
            BY <1>2, <1>3, <1>4, <2>2, <2>4, <3>1, NtClaimsCounted DEF NtTold, NtStatusAfter
        <3>2. CASE row.next # "none"
            <4> DEFINE once == s \o <<"failed">>
            <4>1. s \o types = once \o <<"retry_scheduled">>
                BY <1>2, <3>2
            <4>2. once \in Seq(NtEventTypes) /\ Cardinality(NtClaims(once)) = old.count
                BY <1>2, <1>3, <1>4, NtClaimsCounted DEF NtTold
            <4>3. /\ s \o types \in Seq(NtEventTypes) /\ s \o types # <<>>
                  /\ (s \o types)[Len(s \o types)] = "retry_scheduled"
                  /\ Cardinality(NtClaims(s \o types)) = old.count
                <5> DEFINE all == once \o <<"retry_scheduled">>
                <5> HIDE DEF once
                <5>1. /\ all \in Seq(NtEventTypes) /\ all # <<>>
                      /\ all[Len(all)] = "retry_scheduled"
                      /\ Cardinality(NtClaims(all)) = Cardinality(NtClaims(once))
                    BY <1>4, <4>2, NtClaimsCounted
                <5>2. s \o types = all
                    BY <4>1
                <5> HIDE DEF all, types
                <5> QED BY <4>2, <5>1, <5>2
            <4> HIDE DEF types
            <4> QED BY <2>2, <2>4, <3>2, <4>3 DEF NtTold, NtStatusAfter
        <3> QED BY <3>1, <3>2
    <2> HIDE DEF types
    <2> QED BY <1>1, <2>1, <2>2, <2>3, <2>5, NtReportKeeps
<1> QED BY <1>5, <1>6

\* A claim appends an attempt to the ledger, and closes the one it takes over.
LEMMA NtClaimAppends ==
    ASSUME NtIInv, NEW w \in NtWorkers, NEW d \in NtDeliveries, NtClaim(w, d)
    PROVE  LET n == ntRow[d].count
           IN  /\ n \in Nat /\ Len(ntLedger[d]) = n
               /\ ntLedger' \in [NtDeliveries -> Seq(NtAttemptRows)] /\ Len(ntLedger'[d]) = n + 1
               /\ \A e \in NtDeliveries : e # d => ntLedger'[e] = ntLedger[e]
               /\ \A i \in 1..n : /\ i # n => ntLedger'[d][i] = ntLedger[d][i]
                                  /\ ntLedger'[d][i].worker = ntLedger[d][i].worker
                                  /\ ntLedger'[d][i].trigger = ntLedger[d][i].trigger
               /\ n >= 1 => IF NtLeaseExpired(ntRow[d])
                            THEN /\ ntLedger'[d][n].status = "failed"
                                 /\ ntLedger'[d][n].code = "lease_expired"
                            ELSE ntLedger'[d][n] = ntLedger[d][n]
               /\ ntLedger'[d][n + 1].trigger = NtClaimTrigger(ntRow[d])
               /\ ntLedger'[d][n + 1].worker = w
               /\ ntLedger'[d][n + 1].status = "claimed" /\ ntLedger'[d][n + 1].code = "none"
<1> DEFINE n == ntRow[d].count
           s == ntLedger[d]
           row == [s[n] EXCEPT !.status = "failed", !.code = "lease_expired"]
           new == [trigger |-> NtClaimTrigger(ntRow[d]), worker |-> w, token |-> n + 1,
                   status |-> "claimed", code |-> "none"]
           t == NtCloseExpired(d)
<1>1. /\ n \in Nat /\ Len(s) = n /\ s \in Seq(NtAttemptRows)
      /\ ntLedger \in [NtDeliveries -> Seq(NtAttemptRows)]
    BY DEF NtIInv, NtTypeOK, NtDeliveryRows, NtDeliveryMeans, NtExplained
<1>2. new \in NtAttemptRows
    <2>1. NtClaimTrigger(ntRow[d]) \in NtTriggers
        BY DEF NtClaimTrigger, NtTriggers
    <2> QED BY <1>1, <2>1 DEF NtAttemptRows
<1>3. /\ t \in Seq(NtAttemptRows) /\ Len(t) = n
      /\ \A i \in 1..n : /\ i # n => t[i] = s[i]
                         /\ t[i].worker = s[i].worker /\ t[i].trigger = s[i].trigger
      /\ n >= 1 => IF NtLeaseExpired(ntRow[d])
                   THEN t[n].status = "failed" /\ t[n].code = "lease_expired"
                   ELSE t[n] = s[n]
    <2>1. CASE NtLeaseExpired(ntRow[d])
        <3>1. n >= 1 /\ s[n].status = "claimed" /\ s[n] \in NtAttemptRows
            <4>1. n >= 1 /\ ntRow[d].status = "claimed"
                BY <2>1 DEF NtIInv, NtDeliveryMeans, NtRowMeans, NtLeaseExpired
            <4>2. NtAttemptFits(d, n)
                BY <1>1, <4>1 DEF NtIInv, NtDeliveryMeans, NtExplained
            <4> QED BY <1>1, <4>1, <4>2 DEF NtAttemptFits
        <3>2. /\ row \in NtAttemptRows /\ row.worker = s[n].worker /\ row.trigger = s[n].trigger
              /\ row.status = "failed" /\ row.code = "lease_expired"
            BY <3>1 DEF NtAttemptRows, NtFailureCodes
        <3>3. t = [s EXCEPT ![n] = row]
            BY <1>1, <2>1, <3>1 DEF NtCloseExpired
        <3> HIDE DEF row, t
        <3> QED BY <1>1, <2>1, <3>1, <3>2, <3>3
    <2>2. CASE ~NtLeaseExpired(ntRow[d])
        BY <1>1, <2>2 DEF NtCloseExpired
    <2> QED BY <2>1, <2>2
<1>4. ntLedger' = [ntLedger EXCEPT ![d] = Append(t, new)]
    BY DEF NtClaim
<1>5. /\ ntLedger' \in [NtDeliveries -> Seq(NtAttemptRows)] /\ ntLedger'[d] = Append(t, new)
      /\ \A e \in NtDeliveries : e # d => ntLedger'[e] = ntLedger[e]
    <2> HIDE DEF t, new
    <2> QED BY <1>1, <1>2, <1>3, <1>4
<1>6. /\ Len(Append(t, new)) = n + 1 /\ Append(t, new)[n + 1] = new
      /\ \A i \in 1..n : Append(t, new)[i] = t[i]
    <2> HIDE DEF t, new
    <2> QED BY <1>1, <1>2, <1>3
<1>7. /\ new.trigger = NtClaimTrigger(ntRow[d]) /\ new.worker = w
      /\ new.status = "claimed" /\ new.code = "none"
    OBVIOUS
<1> HIDE DEF t, new
<1> QED BY <1>1, <1>3, <1>5, <1>6, <1>7

\* The claimed row: it is leased to the worker, and nothing is scheduled for it.
LEMMA NtClaimedRowFacts ==
    ASSUME NtIInv, NEW w \in NtWorkers, NEW d \in NtDeliveries, NtClaimable(ntRow[d])
    PROVE  LET row == NtClaimedRow(ntRow[d], w)
               n == ntRow[d].count
           IN  /\ row \in NtDeliveryRows /\ row.status = "claimed" /\ row.count = n + 1
               /\ row.token = n + 1 /\ row.next = "none" /\ row.lease = "live"
<1> DEFINE old == ntRow[d]
           base == IF NtScheduledRetry(old)
                   THEN [old EXCEPT !.code = "none", !.retryable = "none", !.next = "none"]
                   ELSE old
<1>1. old \in NtDeliveryRows /\ old.count \in Nat
    BY DEF NtIInv, NtTypeOK, NtDeliveryRows
<1>2. old.next # "none" => old.status = "failed"
    BY DEF NtIInv, NtDeliveryMeans, NtRowMeans
<1>3. base \in NtDeliveryRows /\ base.next = "none"
    BY <1>1, <1>2 DEF NtDeliveryRows, NtClaimable, NtLeaseExpired, NtScheduledRetry
<1>4. NtClaimedRow(old, w) = [base EXCEPT !.status = "claimed", !.worker = w,
                                  !.token = old.count + 1, !.count = old.count + 1, !.lease = "live"]
    BY DEF NtClaimedRow
<1> DEFINE row == [base EXCEPT !.status = "claimed", !.worker = w, !.token = old.count + 1,
                               !.count = old.count + 1, !.lease = "live"]
<1> HIDE DEF base
<1>5. old.count + 1 \in Nat
    BY <1>1
<1>6. /\ row \in NtDeliveryRows /\ row.status = "claimed" /\ row.count = old.count + 1
      /\ row.token = old.count + 1 /\ row.next = "none" /\ row.lease = "live"
    BY <1>3, <1>5 DEF NtDeliveryRows
<1> HIDE DEF row
<1> QED BY <1>4, <1>6 DEF row

\* NotificationService.claim_next.
LEMMA NtClaimKeeps ==
    ASSUME NtIInv, NEW w \in NtWorkers, NEW d \in NtDeliveries, NtClaim(w, d)
    PROVE  NtIInv'
<1> DEFINE n == ntRow[d].count
           s == ntEvents[d]
           old == ntRow[d]
<1>1. NtClaimable(old)
    BY DEF NtClaim, NtNextFor, NtOldest
<1>2. /\ n \in Nat /\ Len(ntLedger[d]) = n
      /\ ntLedger' \in [NtDeliveries -> Seq(NtAttemptRows)] /\ Len(ntLedger'[d]) = n + 1
      /\ \A e \in NtDeliveries : e # d => ntLedger'[e] = ntLedger[e]
      /\ \A i \in 1..n : /\ i # n => ntLedger'[d][i] = ntLedger[d][i]
                         /\ ntLedger'[d][i].worker = ntLedger[d][i].worker
                         /\ ntLedger'[d][i].trigger = ntLedger[d][i].trigger
      /\ n >= 1 => IF NtLeaseExpired(old)
                   THEN ntLedger'[d][n].status = "failed" /\ ntLedger'[d][n].code = "lease_expired"
                   ELSE ntLedger'[d][n] = ntLedger[d][n]
      /\ ntLedger'[d][n + 1].trigger = NtClaimTrigger(old)
      /\ ntLedger'[d][n + 1].worker = w
      /\ ntLedger'[d][n + 1].status = "claimed" /\ ntLedger'[d][n + 1].code = "none"
    BY NtClaimAppends
<1> DEFINE row == NtClaimedRow(old, w)
<1>3. /\ row \in NtDeliveryRows /\ row.status = "claimed" /\ row.count = n + 1
      /\ row.token = n + 1 /\ row.next = "none"
    BY <1>1, NtClaimedRowFacts
<1> HIDE DEF row
<1>4. /\ ntRow' \in [NtDeliveries -> NtDeliveryRows] /\ ntRow'[d] = row
      /\ \A e \in NtDeliveries : e # d => ntRow'[e] = ntRow[e]
    BY <1>3 DEF NtIInv, NtTypeOK, NtSave, NtClaim, row
<1>5. s \in Seq(NtEventTypes) /\ "claimed" \in NtEventTypes
    BY DEF NtIInv, NtTypeOK, NtEventTypes
<1>6. /\ ntEvents' \in [NtDeliveries -> Seq(NtEventTypes)] /\ ntEvents'[d] = s \o <<"claimed">>
      /\ \A e \in NtDeliveries : e # d => ntEvents'[e] = ntEvents[e]
    BY <1>5, NtClaimsCounted DEF NtIInv, NtTypeOK, NtClaim, NtRecordEvents
<1>7. NtOnly(d)
    BY <1>2, <1>4, <1>6 DEF NtOnly
<1>8. /\ ntWorker' \in [NtWorkers -> NtWorkerStates] /\ NtOthersKept(w)
      /\ ntWorker'[w].phase = "delivering" /\ ntWorker'[w].delivery = d
      /\ ntWorker'[w].token = n + 1
    BY <1>2 DEF NtIInv, NtTypeOK, NtClaim, NtWorkerStates, NtOthersKept
<1>9. NtTypeOK'
    BY <1>2, <1>4, <1>6, <1>8 DEF NtIInv, NtTypeOK, NtClaim
<1>10. NtAttemptsKept
    <2>1. \A e \in NtDeliveries : ntRow[e].count \in Nat /\ ntRow[e].count <= ntRow'[e].count
        <3>1. \A e \in NtDeliveries : ntRow[e].count \in Nat
            BY DEF NtIInv, NtTypeOK, NtDeliveryRows
        <3>2. ntRow'[d].count = n + 1
            BY <1>3, <1>4
        <3> QED BY <1>4, <3>1, <3>2
    <2>2. \A e \in NtDeliveries : \A i \in 1..ntRow[e].count :
              ntLedger'[e][i].worker = ntLedger[e][i].worker
        BY <1>2
    <2>3. ntReached' = ntReached
        BY DEF NtClaim
    <2> QED BY <2>1, <2>2, <2>3 DEF NtAttemptsKept
<1>11. NtWorkerMeans(w)'
    BY <1>2, <1>3, <1>4, <1>8 DEF NtWorkerMeans
<1>12. NtRowMeans(d)'
    BY <1>2, <1>3, <1>4 DEF NtRowMeans
<1>13. NtTold(d)'
    <2>1. n = Cardinality(NtClaims(s))
        <3>1. CASE s = <<>>
            <4>1. DOMAIN s = {}
                BY <3>1
            <4>2. NtClaims(s) = {}
                BY <4>1 DEF NtClaims
            <4>3. n = 0
                BY <3>1 DEF NtIInv, NtDeliveryMeans, NtTold
            <4> QED BY <4>2, <4>3, FS_EmptySet
        <3>2. CASE s # <<>>
            BY <3>2 DEF NtIInv, NtDeliveryMeans, NtTold
        <3> QED BY <3>1, <3>2
    <2> QED BY <1>3, <1>4, <1>5, <1>6, <2>1, NtClaimsCounted DEF NtTold, NtStatusAfter
<1>14. NtExplained(d)'
    <2>1. ASSUME NEW i \in 1..(n + 1) PROVE NtAttemptFits(d, i)'
        <3>1. i \in Int /\ n \in Int /\ ntRow'[d].count = n + 1 /\ ntRow'[d].status = "claimed"
            BY <1>2, <1>3, <1>4
        <3>2. CASE i = n + 1
            <4>1. NtClaimTrigger(old) = "initial" <=> n = 0
                BY <1>1, <1>2
                DEF NtClaimTrigger, NtClaimable, NtLeaseExpired, NtScheduledRetry, NtIInv,
                    NtDeliveryMeans, NtRowMeans
            <4>2. ASSUME NtClaimTrigger(old) = "automatic"
                  PROVE  /\ ntLedger'[d][n].code \in {"provider_unavailable", "timeout"}
                         /\ n <= NtLimit[ntLedger'[d][n].worker]
                <5>1. NtScheduledRetry(old) /\ ~NtLeaseExpired(old)
                    BY <1>1, <4>2 DEF NtClaimTrigger, NtClaimable, NtLeaseExpired, NtScheduledRetry
                <5>2. /\ n >= 1 /\ ntLedger[d][n].code \in {"provider_unavailable", "timeout"}
                      /\ n <= NtLimit[ntLedger[d][n].worker]
                    BY <5>1 DEF NtScheduledRetry, NtIInv, NtDeliveryMeans, NtRowMeans
                <5> QED BY <1>2, <5>1, <5>2
            <4>3. i - 1 = n
                BY <3>1, <3>2
            <4>4. /\ ntLedger'[d][i].trigger = NtClaimTrigger(old)
                  /\ ntLedger'[d][i].status = "claimed" /\ ntLedger'[d][i].code = "none"
                  /\ ~(i < ntRow'[d].count) /\ i = ntRow'[d].count /\ (n = 0 <=> i = 1)
                BY <1>2, <3>1, <3>2
            <4> QED BY <3>1, <4>1, <4>2, <4>3, <4>4 DEF NtAttemptFits
        <3>3. CASE i # n + 1
            <4>1. i \in 1..n /\ i <= n /\ i < n + 1
                BY <3>1, <3>3
            <4>2. NtAttemptFits(d, i)
                BY <4>1 DEF NtIInv, NtDeliveryMeans, NtExplained
            <4>3. ntLedger'[d][i].trigger = ntLedger[d][i].trigger
                BY <1>2, <4>1
            <4>4. i # 1 => ntLedger'[d][i - 1] = ntLedger[d][i - 1]
                <5>1. i # 1 => ((i - 1) \in 1..n /\ i - 1 # n)
                    BY <3>1, <4>1
                <5> QED BY <1>2, <5>1
            <4>5. CASE i # n
                <5>1. ntLedger'[d][i] = ntLedger[d][i] /\ i < n
                    BY <1>2, <3>1, <4>1, <4>5
                <5>2. ntLedger'[d][i + 1].trigger = ntLedger[d][i + 1].trigger
                    BY <1>2, <3>1, <5>1, <4>1
                <5> QED BY <3>1, <4>1, <4>2, <4>4, <5>1, <5>2 DEF NtAttemptFits
            <4>6. CASE i = n
                <5>1. ntLedger'[d][i + 1].trigger = "lease_recovery" <=> NtLeaseExpired(old)
                    <6>1. ntLedger'[d][i + 1].trigger = NtClaimTrigger(old)
                        BY <1>2, <4>6
                    <6>2. NtLeaseExpired(old) => NtClaimTrigger(old) = "lease_recovery"
                        BY DEF NtClaimTrigger, NtLeaseExpired
                    <6>3. ~NtLeaseExpired(old) => NtClaimTrigger(old) # "lease_recovery"
                        BY DEF NtClaimTrigger
                    <6> QED BY <6>1, <6>2, <6>3
                <5>2. ~NtLeaseExpired(old) => old.status \notin {"claimed", "succeeded"}
                    BY <1>1 DEF NtClaimable, NtScheduledRetry
                <5>3. NtLeaseExpired(old) => old.status = "claimed"
                    BY DEF NtLeaseExpired
                <5>4. /\ ntLedger'[d][i].status \notin {"claimed", "succeeded"}
                      /\ ntLedger'[d][i].code = "lease_expired" <=> NtLeaseExpired(old)
                    <6>1. CASE NtLeaseExpired(old)
                        BY <1>2, <3>1, <4>1, <4>6, <6>1
                    <6>2. CASE ~NtLeaseExpired(old)
                        <7>1. ntLedger'[d][i] = ntLedger[d][i] /\ ~(i < n)
                            BY <1>2, <3>1, <4>1, <4>6, <6>2
                        <7> QED BY <4>2, <5>2, <6>2, <7>1 DEF NtAttemptFits
                    <6> QED BY <6>1, <6>2
                <5>5. /\ ntLedger'[d][i].trigger = "initial" <=> i = 1
                      /\ ntLedger'[d][i].trigger = "automatic" =>
                            /\ ntLedger'[d][i - 1].code \in {"provider_unavailable", "timeout"}
                            /\ i - 1 <= NtLimit[ntLedger'[d][i - 1].worker]
                    BY <4>2, <4>3, <4>4 DEF NtAttemptFits
                <5> QED BY <3>1, <4>1, <5>1, <5>4, <5>5 DEF NtAttemptFits
            <4> QED BY <4>5, <4>6
        <3> QED BY <3>2, <3>3
    <2> QED BY <1>2, <1>3, <1>4, <2>1 DEF NtExplained
<1>15. \A v \in NtWorkers : NtWorkerMeans(v)'
    BY <1>8, <1>9, <1>10, <1>11, NtMeansKept DEF NtIInv, NtOthersKept
<1> QED BY <1>7, <1>9, <1>10, <1>12, <1>13, <1>14, <1>15, NtOneDelivery DEF NtDeliveryMeans

\* Every step keeps the invariant.
LEMMA NtInvariantStep == NtIInv /\ [NtNext]_ntVars => NtIInv'
<1> SUFFICES ASSUME NtIInv, [NtNext]_ntVars PROVE NtIInv'
    OBVIOUS
<1>1. CASE \E d \in NtDeliveries : NtEnqueue(d) \/ NtRetry(d) \/ NtCancelAutomaticRetry(d)
    BY <1>1, NtOperators
<1>2. CASE NtTime
    BY <1>2, NtOperators DEF NtTime
<1>3. ASSUME NEW w \in NtWorkers, NtStep(w) \/ NtCrash(w) PROVE NtIInv'
    BY <1>3, NtClaimKeeps, NtReports, NtWorkerOnly DEF NtStep
<1>4. CASE UNCHANGED ntVars
    <2>1. UNCHANGED <<ntRow, ntLedger, ntEvents, ntWorker, ntReached, ntManual, ntFaults>>
        BY <1>4 DEF ntVars
    <2>2. NtTypeOK' /\ NtAttemptsKept
        BY <2>1 DEF NtIInv, NtTypeOK, NtAttemptsKept, NtDeliveryRows
    <2>3. \A d \in NtDeliveries : NtDeliveryMeans(d)'
        BY <2>1, NtDeliveryKept DEF NtIInv
    <2>4. \A w \in NtWorkers : NtWorkerMeans(w)'
        BY <2>1, <2>2, NtMeansKept DEF NtIInv
    <2> QED BY <2>2, <2>3, <2>4 DEF NtIInv
<1> QED BY <1>1, <1>2, <1>3, <1>4 DEF NtNext

\* The attempt ledger tells the whole story of every delivery, and so do its
\* events, however claims, late reports, crashes, operators and the clock are
\* interleaved (NotificationDelivery and NotificationService).
THEOREM NotificationsExplained == NtSpec => [](NtTypeOK /\ NtHistoryTold)
<1>1. NtIInv => NtTypeOK /\ NtHistoryTold
    BY DEF NtIInv, NtDeliveryMeans, NtHistoryTold, NtLedgerExplains, NtEventsTellState
<1> QED BY <1>1, NtInitially, NtInvariantStep, PTL DEF NtSpec

\* For any number of deliveries, workers and operators, a client that follows
\* only the events of a delivery knows its state.
THEOREM DeliveryEventsTellState == NtSpec => []NtEventsTellState
BY NotificationsExplained, PTL DEF NtHistoryTold

(***************************************************************************)
(* The deliveries as a lease queue.                                        *)
(***************************************************************************)

\* A worker at rest holds nothing.
NtAtRest == \A w \in NtWorkers : ntWorker[w].phase = "idle" => ntWorker[w] = NtIdle

NtLeaseFacts == INSTANCE LeaseQueueProofs WITH
    Queue <- NtQueue, Workers <- NtWorkers, Retries <- TRUE,
    status <- NtItems, leases <- NtLeaseCounts, hold <- NtHolds

LEMMA NtRests == NtTypeOK /\ NtAtRest /\ [NtNext]_ntVars => NtAtRest'
<1> SUFFICES ASSUME NtTypeOK, NtAtRest, [NtNext]_ntVars PROVE NtAtRest'
    OBVIOUS
<1>1. CASE ntWorker' = ntWorker
    BY <1>1 DEF NtAtRest
<1>2. ASSUME NEW w \in NtWorkers, NtStep(w) \/ NtCrash(w)
      PROVE  /\ \A v \in NtWorkers : v # w => ntWorker'[v] = ntWorker[v]
             /\ ntWorker'[w].phase = "idle" => ntWorker'[w] = NtIdle
    <2>1. NtIdle.phase = "idle"
        BY DEF NtIdle
    <2>2. ASSUME NEW d \in NtDeliveries, NtClaim(w, d)
          PROVE  /\ \A v \in NtWorkers : v # w => ntWorker'[v] = ntWorker[v]
                 /\ ntWorker'[w].phase = "delivering"
        BY <2>2 DEF NtTypeOK, NtClaim
    <2>3. ASSUME NEW answer \in NtAnswers, NtDeliver(w, answer)
          PROVE  /\ \A v \in NtWorkers : v # w => ntWorker'[v] = ntWorker[v]
                 /\ ntWorker'[w].phase = "reporting"
        BY <2>3 DEF NtTypeOK, NtDeliver, NtWorkerStates
    <2>4. CASE NtSucceed(w) \/ NtFail(w) \/ NtRefused(w) \/ NtCrash(w)
        BY <2>1, <2>4 DEF NtTypeOK, NtSucceed, NtFail, NtRefused, NtCrash
    <2> QED BY <1>2, <2>2, <2>3, <2>4 DEF NtStep
<1>3. \/ ntWorker' = ntWorker
      \/ \E w \in NtWorkers : NtStep(w) \/ NtCrash(w)
    BY DEF NtNext, NtTime, ntVars, NtEnqueue, NtRetry, NtCancelAutomaticRetry, NtLeaseLapses, NtComesDue
<1> QED BY <1>1, <1>2, <1>3 DEF NtAtRest

\* What saving a row does to the queue.
LEMMA NtQueueSaved ==
    ASSUME NtTypeOK, NEW d \in NtDeliveries, NEW row, NtSave(d, row)
    PROVE  /\ NtItems' = [NtItems EXCEPT ![d] = NtItemStatus(row)]
           /\ NtLeaseCounts' = [NtLeaseCounts EXCEPT ![d] = row.count]
           /\ NtItems[d] = NtItemStatus(ntRow[d]) /\ NtLeaseCounts[d] = ntRow[d].count
           /\ NtLeaseCounts = [NtLeaseCounts EXCEPT ![d] = ntRow[d].count]
           /\ NtItems = [NtItems EXCEPT ![d] = NtItemStatus(ntRow[d])]
BY DEF NtTypeOK, NtSave, NtItems, NtLeaseCounts

\* What a row is to the queue.
LEMMA NtItemFacts ==
    ASSUME NEW row \in NtDeliveryRows
    PROVE  /\ row.status \in {"absent", "pending", "succeeded"} => NtItemStatus(row) = row.status
           /\ (row.status = "failed" /\ row.next = "none") => NtItemStatus(row) = "failed"
           /\ (row.status = "failed" /\ row.next # "none") => NtItemStatus(row) = "retrying"
           /\ (row.status = "claimed" /\ row.lease = "expired") => NtItemStatus(row) = "lapsed"
           /\ (row.status = "claimed" /\ row.lease # "expired") => NtItemStatus(row) = "claimed"
           /\ row.status \in {"absent", "pending", "claimed", "succeeded", "failed"}
           /\ row.next \in {"none", "scheduled", "due"} /\ row.count \in Nat
BY DEF NtItemStatus, NtLeaseExpired, NtDeliveryRows

\* The operators and the clock move an item.
LEMMA NtQueueOperators ==
    ASSUME NtIInv, NEW d \in NtDeliveries,
           NtEnqueue(d) \/ NtRetry(d) \/ NtCancelAutomaticRetry(d) \/ NtLeaseLapses(d)
               \/ NtComesDue(d)
    PROVE  [NtLeases!Next]_(NtLeases!vars)
<1>1. NtTypeOK /\ ntRow[d] \in NtDeliveryRows /\ NtRowMeans(d)
    BY DEF NtIInv, NtTypeOK, NtDeliveryMeans
<1>2. d \in NtLeases!Items
    BY DEF NtDeliveries, NtLeases!Items
<1>3. NtHolds' = NtHolds
    BY DEF NtEnqueue, NtRetry, NtCancelAutomaticRetry, NtLeaseLapses, NtComesDue, NtHolds
<1>4. CASE NtEnqueue(d)
    <2>1. NtNewRow \in NtDeliveryRows /\ NtNewRow.status = "pending" /\ NtNewRow.count = 0
        BY DEF NtNewRow, NtDeliveryRows
    <2>2. NtItems[d] = "absent" /\ NtItemStatus(NtNewRow) = "pending" /\ ntRow[d].count = 0
        BY <1>1, <1>4, <2>1, NtItemFacts, NtQueueSaved DEF NtEnqueue, NtRowMeans
    <2>3. NtLeases!Offer(d)
        BY <1>1, <1>3, <1>4, <2>1, <2>2, NtQueueSaved DEF NtEnqueue, NtLeases!Offer
    <2> QED BY <1>2, <2>3 DEF NtLeases!Next
<1>5. CASE NtRetry(d)
    <2> DEFINE row == NtRetriedRow(ntRow[d])
    <2>1. row \in NtDeliveryRows /\ row.status = "pending" /\ row.count = ntRow[d].count
        BY <1>1, NtItemFacts DEF NtRetriedRow, NtNewRow, NtDeliveryRows
    <2>2. NtItems[d] \in {"failed", "retrying"} /\ NtItemStatus(row) = "pending"
        BY <1>1, <1>5, <2>1, NtItemFacts, NtQueueSaved DEF NtRetry
    <2> HIDE DEF row
    <2>3. NtLeases!Reopen(d)
        BY <1>1, <1>3, <1>5, <2>1, <2>2, NtQueueSaved DEF NtRetry, NtLeases!Reopen, row
    <2> QED BY <1>2, <2>3 DEF NtLeases!Next
<1>6. CASE NtCancelAutomaticRetry(d)
    <2> DEFINE row == NtCancelledRow(ntRow[d])
    <2>1. /\ row \in NtDeliveryRows /\ row.status = "failed" /\ row.next = "none"
          /\ row.count = ntRow[d].count
        <3>1. 0 \in 0..10 /\ ntRow[d].status = "failed"
            BY <1>6 DEF NtCancelAutomaticRetry
        <3> QED BY <1>1, <3>1 DEF NtCancelledRow, NtDeliveryRows
    <2>2. NtItems[d] = "retrying" /\ NtItemStatus(row) = "failed"
        BY <1>1, <1>6, <2>1, NtItemFacts, NtQueueSaved DEF NtCancelAutomaticRetry
    <2> HIDE DEF row
    <2>3. NtLeases!Cancel(d)
        BY <1>1, <1>3, <1>6, <2>1, <2>2, NtQueueSaved
           DEF NtCancelAutomaticRetry, NtLeases!Cancel, row
    <2> QED BY <1>2, <2>3 DEF NtLeases!Next
<1>7. CASE NtLeaseLapses(d)
    <2> DEFINE row == [ntRow[d] EXCEPT !.lease = "expired"]
    <2>1. /\ row \in NtDeliveryRows /\ row.status = ntRow[d].status /\ row.next = ntRow[d].next
          /\ row.count = ntRow[d].count /\ row.lease = "expired" /\ ntRow[d].lease = "live"
        BY <1>1, <1>7 DEF NtDeliveryRows, NtLeaseLapses
    <2>2. NtSave(d, row)
        BY <1>7 DEF NtLeaseLapses
    <2> HIDE DEF row
    <2>3. CASE row.status = "claimed"
        <3>1. NtItems[d] = "claimed" /\ NtItemStatus(row) = "lapsed"
            BY <1>1, <2>1, <2>2, <2>3, NtItemFacts, NtQueueSaved
        <3>2. NtLeases!Lapse(d)
            BY <1>1, <1>3, <2>1, <2>2, <3>1, NtQueueSaved DEF NtLeases!Lapse
        <3> QED BY <1>2, <3>2 DEF NtLeases!Next
    <2>4. CASE row.status # "claimed"
        <3>1. NtItemStatus(row) = NtItemStatus(ntRow[d])
            BY <1>1, <2>1, <2>4, NtItemFacts
        <3> QED BY <1>1, <1>3, <2>1, <2>2, <3>1, NtQueueSaved DEF NtLeases!vars
    <2> QED BY <2>3, <2>4
<1>8. CASE NtComesDue(d)
    <2> DEFINE row == [ntRow[d] EXCEPT !.next = "due"]
    <2>1. /\ row \in NtDeliveryRows /\ row.status = ntRow[d].status /\ row.next = "due"
          /\ row.count = ntRow[d].count /\ row.lease = ntRow[d].lease
          /\ ntRow[d].next = "scheduled"
        BY <1>1, <1>8 DEF NtDeliveryRows, NtComesDue
    <2>2. NtSave(d, row)
        BY <1>8 DEF NtComesDue
    <2> HIDE DEF row
    <2>3. NtItemStatus(row) = NtItemStatus(ntRow[d])
        BY <1>1, <2>1, NtItemFacts
    <2> QED BY <1>1, <1>3, <2>1, <2>2, <2>3, NtQueueSaved DEF NtLeases!vars
<1> QED BY <1>4, <1>5, <1>6, <1>7, <1>8

\* What a change of worker w does to the holdings.
LEMMA NtQueueHeld ==
    ASSUME NtTypeOK, NEW w \in NtWorkers, NEW new, ntWorker' = [ntWorker EXCEPT ![w] = new]
    PROVE  /\ NtHolds' = [NtHolds EXCEPT ![w] = [item |-> new.delivery, lease |-> new.token]]
           /\ NtHolds[w] = [item |-> ntWorker[w].delivery, lease |-> ntWorker[w].token]
BY DEF NtTypeOK, NtHolds

\* A claim is a grant.
LEMMA NtQueueClaims ==
    ASSUME NtIInv, NtAtRest, NEW w \in NtWorkers, NEW d \in NtDeliveries, NtClaim(w, d)
    PROVE  NtLeases!Next
<1> DEFINE row == NtClaimedRow(ntRow[d], w)
           new == [phase |-> "delivering", delivery |-> d, token |-> ntRow[d].count + 1,
                   outcome |-> "none"]
<1>1. NtTypeOK /\ ntRow[d] \in NtDeliveryRows /\ NtClaimable(ntRow[d])
    BY DEF NtIInv, NtTypeOK, NtClaim, NtNextFor, NtOldest
<1>2. /\ row \in NtDeliveryRows /\ row.status = "claimed" /\ row.lease = "live"
      /\ row.count = ntRow[d].count + 1
    BY <1>1, NtClaimedRowFacts
<1>3. NtSave(d, row) /\ ntWorker' = [ntWorker EXCEPT ![w] = new] /\ ntWorker[w] = NtIdle
    BY DEF NtClaim, NtAtRest
<1>4. NtItemStatus(ntRow[d]) \in {"pending", "lapsed", "retrying"}
    BY <1>1, NtItemFacts DEF NtClaimable, NtLeaseExpired, NtScheduledRetry
<1>5. NtItemStatus(row) = "claimed"
    BY <1>2, NtItemFacts
<1> HIDE DEF row
<1>6. /\ NtItems' = [NtItems EXCEPT ![d] = "claimed"]
      /\ NtLeaseCounts' = [NtLeaseCounts EXCEPT ![d] = ntRow[d].count + 1]
      /\ NtItems[d] \in {"pending", "lapsed", "retrying"} /\ NtLeaseCounts[d] = ntRow[d].count
    BY <1>1, <1>2, <1>3, <1>4, <1>5, NtQueueSaved
<1>7. /\ NtHolds' = [NtHolds EXCEPT ![w] = [item |-> d, lease |-> ntRow[d].count + 1]]
      /\ NtHolds[w] = NtLeases!Idle
    <2>1. new.delivery = d /\ new.token = ntRow[d].count + 1
        OBVIOUS
    <2>2. ntWorker[w].delivery = 0 /\ ntWorker[w].token = 0
        BY <1>3 DEF NtIdle
    <2> HIDE DEF new
    <2>3. /\ NtHolds' = [NtHolds EXCEPT ![w] = [item |-> new.delivery, lease |-> new.token]]
          /\ NtHolds[w] = [item |-> ntWorker[w].delivery, lease |-> ntWorker[w].token]
        BY <1>1, <1>3, NtQueueHeld, Zenon
    <2> QED BY <2>1, <2>2, <2>3 DEF NtLeases!Idle
<1>8. NtLeases!Grant(w, d)
    BY <1>6, <1>7 DEF NtLeases!Grant
<1>9. d \in NtLeases!Items
    BY DEF NtDeliveries, NtLeases!Items
<1> QED BY <1>8, <1>9 DEF NtLeases!Next

\* The call of the provider is nothing to the queue; a report that counts is one
\* of the latest lease; a refused worker or a lost one abandons what it had.
LEMMA NtQueueReports ==
    ASSUME NtIInv, NEW w \in NtWorkers,
           \/ \E answer \in NtAnswers : NtDeliver(w, answer)
           \/ NtSucceed(w) \/ NtFail(w) \/ NtRefused(w) \/ NtCrash(w)
    PROVE  [NtLeases!Next]_(NtLeases!vars)
<1> DEFINE d == ntWorker[w].delivery
<1>1. /\ NtTypeOK /\ ntWorker[w] \in NtWorkerStates /\ ntWorker[w].phase # "idle"
      /\ d \in NtDeliveries /\ ntWorker[w].token \in 1..ntRow[d].count
      /\ ntRow[d] \in NtDeliveryRows /\ NtRowMeans(d)
    BY DEF NtIInv, NtTypeOK, NtDeliver, NtSucceed, NtFail, NtRefused, NtCrash, NtWorkerMeans,
           NtDeliveryMeans
<1>2. CASE \E answer \in NtAnswers : NtDeliver(w, answer)
    <2>1. ASSUME NEW v \in NtWorkers
          PROVE  ntWorker'[v].delivery = ntWorker[v].delivery /\ ntWorker'[v].token = ntWorker[v].token
        <3>1. PICK answer \in NtAnswers : NtDeliver(w, answer)
            BY <1>2
        <3>2. ntWorker' = [ntWorker EXCEPT ![w].phase = "reporting", ![w].outcome = answer.outcome]
            BY <3>1 DEF NtDeliver
        <3>3. ntWorker[v] \in NtWorkerStates /\ ntWorker \in [NtWorkers -> NtWorkerStates]
            BY <1>1 DEF NtTypeOK
        <3> QED BY <3>2, <3>3 DEF NtWorkerStates
    <2>2. NtHolds' = NtHolds
        BY <2>1 DEF NtHolds
    <2>3. NtItems' = NtItems /\ NtLeaseCounts' = NtLeaseCounts
        BY <1>2 DEF NtDeliver, NtItems, NtLeaseCounts
    <2> QED BY <2>2, <2>3 DEF NtLeases!vars
<1> DEFINE item == [item |-> d, lease |-> ntWorker[w].token]
<1>3. CASE ntWorker' = [ntWorker EXCEPT ![w] = NtIdle]
    <2>1. /\ NtHolds' = [NtHolds EXCEPT ![w] = NtLeases!Idle] /\ NtHolds[w] = item
          /\ item # NtLeases!Idle
        <3>1. NtIdle.delivery = 0 /\ NtIdle.token = 0
            BY DEF NtIdle
        <3>2. item # NtLeases!Idle
            BY <1>1, NtItemFacts DEF NtLeases!Idle, NtDeliveries
        <3>3. /\ NtHolds' = [NtHolds EXCEPT ![w] = [item |-> NtIdle.delivery, lease |-> NtIdle.token]]
              /\ NtHolds[w] = item
            BY <1>1, <1>3, NtQueueHeld, Zenon
        <3> QED BY <3>1, <3>2, <3>3 DEF NtLeases!Idle
    <2>2. CASE NtRefused(w) \/ NtCrash(w)
        <3>1. NtItems' = NtItems /\ NtLeaseCounts' = NtLeaseCounts
            BY <2>2 DEF NtRefused, NtCrash, NtItems, NtLeaseCounts
        <3>2. NtLeases!Abandon(w)
            BY <2>1, <3>1 DEF NtLeases!Abandon
        <3> QED BY <3>2 DEF NtLeases!Next
    <2>3. ASSUME NEW row \in NtDeliveryRows, NtOwns(w), NtSave(d, row),
                 row.count = ntRow[d].count, row.status \in {"succeeded", "failed"}
          PROVE  NtLeases!Next
        <3>1. NtItemStatus(row) \in NtLeases!Outcomes
            BY <2>3, NtItemFacts DEF NtLeases!Outcomes
        <3>2. ntWorker[w].token = ntRow[d].count
            BY <1>1, <2>3 DEF NtOwns, NtRowMeans
        <3>3. /\ NtItems' = [NtItems EXCEPT ![d] = NtItemStatus(row)]
              /\ NtLeaseCounts' = NtLeaseCounts /\ NtLeaseCounts[d] = ntRow[d].count
            BY <1>1, <2>3, NtQueueSaved
        <3>4. NtLeases!Report(w, NtItemStatus(row))
            BY <2>1, <3>2, <3>3 DEF NtLeases!Report
        <3> QED BY <3>1, <3>4 DEF NtLeases!Next
    <2>4. CASE NtSucceed(w)
        <3>1. /\ NtSucceededRow(ntRow[d]) \in NtDeliveryRows
              /\ NtSucceededRow(ntRow[d]).count = ntRow[d].count
              /\ NtSucceededRow(ntRow[d]).status = "succeeded"
            BY <1>1 DEF NtSucceededRow, NtDeliveryRows
        <3> QED BY <2>3, <2>4, <3>1 DEF NtSucceed
    <2>5. CASE NtFail(w)
        <3>1. ntWorker[w].outcome \in NtFailureCodes
            BY <1>1, <2>5 DEF NtIInv, NtWorkerMeans, NtFail, NtOutcomes, NtFailureCodes
        <3>2. NtNextAttempt(w, ntWorker[w].token) \in {"none", "scheduled"} /\ NtLimit[w] \in 0..10
            BY NtAssumption DEF NtNextAttempt
        <3>3. /\ NtFailedRow(ntRow[d], w) \in NtDeliveryRows
              /\ NtFailedRow(ntRow[d], w).count = ntRow[d].count
              /\ NtFailedRow(ntRow[d], w).status = "failed"
            BY <1>1, <3>1, <3>2 DEF NtFailedRow, NtDeliveryRows
        <3> QED BY <2>3, <2>5, <3>3 DEF NtFail
    <2> QED BY <1>2, <2>2, <2>4, <2>5
<1> QED BY <1>2, <1>3 DEF NtSucceed, NtFail, NtRefused, NtCrash

\* The first state is one of an empty queue.
LEMMA NtQueueInitially == NtInit => NtAtRest /\ NtLeases!Init
<1> SUFFICES ASSUME NtInit PROVE NtAtRest /\ NtLeases!Init
    OBVIOUS
<1>1. /\ NtItems = [d \in NtDeliveries |-> "absent"] /\ NtLeaseCounts = [d \in NtDeliveries |-> 0]
      /\ NtHolds = [w \in NtWorkers |-> NtLeases!Idle]
    BY DEF NtInit, NtItems, NtLeaseCounts, NtHolds, NtItemStatus, NtLeaseExpired, NtNewRow, NtIdle,
           NtLeases!Idle
<1>2. /\ NtItems \in [NtDeliveries -> NtLeases!Statuses] /\ NtLeaseCounts \in [NtDeliveries -> Nat]
      /\ NtHolds \in [NtWorkers -> [item : NtDeliveries \cup {0}, lease : Nat]]
    BY <1>1 DEF NtLeases!Statuses, NtLeases!Idle
<1>3. NtLeases!TypeOK
    BY <1>2 DEF NtLeases!TypeOK, NtLeases!Items, NtDeliveries
<1>4. NtLeases!Fenced
    BY <1>1 DEF NtLeases!Fenced, NtLeases!Items, NtDeliveries
<1>5. NtAtRest
    BY DEF NtInit, NtAtRest
<1> QED BY <1>3, <1>4, <1>5 DEF NtLeases!Init

LEMMA NtQueueStep ==
    NtIInv /\ NtAtRest /\ [NtNext]_ntVars => [NtLeases!Next]_(NtLeases!vars)
<1> SUFFICES ASSUME NtIInv, NtAtRest, [NtNext]_ntVars PROVE [NtLeases!Next]_(NtLeases!vars)
    OBVIOUS
<1>1. CASE UNCHANGED ntVars
    <2>1. NtItems' = NtItems /\ NtLeaseCounts' = NtLeaseCounts /\ NtHolds' = NtHolds
        BY <1>1 DEF ntVars, NtItems, NtLeaseCounts, NtHolds
    <2> QED BY <2>1 DEF NtLeases!vars
<1>2. CASE NtNext
    BY <1>2, NtQueueOperators, NtQueueClaims, NtQueueReports DEF NtNext, NtTime, NtStep
<1> QED BY <1>1, <1>2

\* The deliveries implement the lease queue, for any number of deliveries,
\* workers and providers (claim_next, succeed, fail, retry).
THEOREM DeliveriesKeepLeaseQueue == NtSpec => NtKeepsLeaseQueue
<1>1. NtIInv /\ NtAtRest /\ [NtNext]_ntVars => NtAtRest'
    BY NtRests DEF NtIInv
<1> QED BY <1>1, NtInitially, NtInvariantStep, NtQueueInitially, NtQueueStep, PTL
        DEF NtSpec, NtKeepsLeaseQueue, NtLeases!Spec

\* What LeaseQueue promises holds of the deliveries: one worker has the latest
\* lease, only its report closes a claim, and a delivered notification stays so.
THEOREM DeliveriesFenced ==
    NtSpec => /\ []NtLeaseFacts!OneHolder /\ NtLeaseFacts!ClosedByLatestLease
              /\ NtLeaseFacts!SuccessIsFinal /\ NtLeaseFacts!OneLeaseAtATime
<1>1. NtLeases!Spec => NtLeaseFacts!Spec
    <2>1. NtLeases!Init <=> NtLeaseFacts!Init
        BY DEF NtLeases!Init, NtLeaseFacts!Init, NtLeases!TypeOK, NtLeaseFacts!TypeOK,
               NtLeases!Fenced, NtLeaseFacts!Fenced, NtLeases!Items, NtLeaseFacts!Items,
               NtLeases!Statuses, NtLeaseFacts!Statuses, NtLeases!Idle, NtLeaseFacts!Idle
    <2>2. [NtLeases!Next]_(NtLeases!vars) <=> [NtLeaseFacts!Next]_(NtLeaseFacts!vars)
        BY DEF NtLeases!Next, NtLeaseFacts!Next, NtLeases!vars, NtLeaseFacts!vars,
               NtLeases!Items, NtLeaseFacts!Items, NtLeases!Idle, NtLeaseFacts!Idle,
               NtLeases!Offer, NtLeaseFacts!Offer, NtLeases!Lapse, NtLeaseFacts!Lapse,
               NtLeases!Cancel, NtLeaseFacts!Cancel, NtLeases!Reopen, NtLeaseFacts!Reopen,
               NtLeases!Grant, NtLeaseFacts!Grant, NtLeases!Report, NtLeaseFacts!Report,
               NtLeases!Abandon, NtLeaseFacts!Abandon, NtLeases!Outcomes, NtLeaseFacts!Outcomes
    <2> QED BY <2>1, <2>2, PTL DEF NtLeases!Spec, NtLeaseFacts!Spec
<1> QED BY <1>1, DeliveriesKeepLeaseQueue, NtLeaseFacts!QueueHasOneHolder,
           NtLeaseFacts!QueueClosesByLatestLease, NtLeaseFacts!QueueSuccessIsFinal,
           NtLeaseFacts!QueueLeasesOneAtATime, PTL DEF NtKeepsLeaseQueue

(***************************************************************************)
(* The readiness monitors.                                                 *)
(***************************************************************************)

\* Every page takes a sweep further: what a monitor has still to evaluate, and
\* where its next page begins, are behind its cursor.
MnAdvances ==
    \A m \in MnMonitors :
        mnMonitor[m].cursor # 0 =>
            /\ \A p \in mnMonitor[m].page : p < mnMonitor[m].cursor
            /\ mnMonitor[m].next # 0 => mnMonitor[m].next < mnMonitor[m].cursor

MnIInv == MnTypeOK /\ MnAdvances

\* A monitor that rests has its type, and nothing left to do.
LEMMA MnRests ==
    ASSUME NEW c \in 0..MnProjects
    PROVE  /\ MnResting(c) \in MnMonitorStates /\ MnResting(c).page = {} /\ MnResting(c).next = 0
           /\ MnResting(c).cursor = c
BY MnAssumption DEF MnResting, MnMonitorStates

\* A step of monitor m keeps the invariant when m's new state does.
LEMMA MnOneMonitor ==
    ASSUME MnIInv, NEW m \in MnMonitors, NEW state \in MnMonitorStates,
           mnMonitor' = [mnMonitor EXCEPT ![m] = state], UNCHANGED <<mnCreated, mnActive>>,
           mnEvaluated' \in 0..MnProjects, mnRestarted' \in Nat,
           state.cursor # 0 =>
               /\ \A p \in state.page : p < state.cursor
               /\ state.next # 0 => state.next < state.cursor
    PROVE  MnIInv'
<1>1. /\ mnMonitor' \in [MnMonitors -> MnMonitorStates] /\ mnMonitor'[m] = state
      /\ \A k \in MnMonitors : k # m => mnMonitor'[k] = mnMonitor[k]
    BY DEF MnIInv, MnTypeOK
<1>2. MnTypeOK'
    BY <1>1 DEF MnIInv, MnTypeOK
<1>3. MnAdvances'
    BY <1>1 DEF MnIInv, MnAdvances
<1> QED BY <1>2, <1>3 DEF MnIInv

(* A monitor starts with an empty sweep. *)
LEMMA MnInitially == MnInit => MnIInv
<1> SUFFICES ASSUME MnInit PROVE MnIInv
    OBVIOUS
<1>1. 0 \in 0..MnProjects
    BY MnAssumption
<1>2. MnTypeOK
    BY <1>1, MnRests, MnAssumption DEF MnInit, MnTypeOK
<1>3. MnAdvances
    BY <1>1, MnRests DEF MnInit, MnAdvances
<1> QED BY <1>2, <1>3 DEF MnIInv

(* Every step of a monitor keeps the shape of its sweep. *)
LEMMA MnInvariantStep == MnIInv /\ [MnNext]_mnVars => MnIInv'
<1> SUFFICES ASSUME MnIInv, [MnNext]_mnVars PROVE MnIInv'
    OBVIOUS
<1>1. 0 \in 0..MnProjects /\ mnCreated \in 0..MnProjects /\ mnActive \subseteq 1..mnCreated
    BY MnAssumption DEF MnIInv, MnTypeOK
<1>2. CASE MnCreate
    <2>1. MnTypeOK'
        BY <1>1, <1>2, MnAssumption DEF MnCreate, MnIInv, MnTypeOK
    <2> QED BY <1>2, <2>1 DEF MnCreate, MnIInv, MnAdvances
<1>3. CASE \E p \in mnActive : MnArchive(p)
    <2>1. MnTypeOK'
        BY <1>3 DEF MnArchive, MnIInv, MnTypeOK
    <2> QED BY <1>3, <2>1 DEF MnArchive, MnIInv, MnAdvances
<1>4. ASSUME NEW m \in MnMonitors, MnBeginPage(m) PROVE MnIInv'
    <2> DEFINE cursor == mnMonitor[m].cursor
               listed == MnListed(cursor)
    <2>1. PICK next \in 0..MnProjects :
              /\ MnNextCursor(listed, next)
              /\ mnMonitor' = [mnMonitor EXCEPT ![m] =
                     [phase |-> "sweeping", cursor |-> cursor, page |-> MnPageOf(listed),
                      next |-> next]]
        BY <1>4 DEF MnBeginPage
    <2>2. /\ MnPageOf(listed) \subseteq 1..MnProjects /\ cursor \in 0..MnProjects
          /\ \A p \in MnPageOf(listed) : cursor = 0 \/ p < cursor
        <3>1. cursor \in 0..MnProjects
            BY DEF MnIInv, MnTypeOK, MnMonitorStates
        <3>2. MnPageOf(listed) \subseteq listed
            BY DEF MnPageOf
        <3>3. listed \subseteq mnActive /\ \A p \in listed : cursor = 0 \/ p < cursor
            BY DEF MnListed
        <3>4. mnActive \subseteq 1..MnProjects
            BY <1>1, MnAssumption
        <3> QED BY <3>1, <3>2, <3>3, <3>4
    <2>3. next = 0 \/ next \in MnPageOf(listed)
        BY <2>1 DEF MnNextCursor, MnLast
    <2> DEFINE state == [phase |-> "sweeping", cursor |-> cursor, page |-> MnPageOf(listed),
                         next |-> next]
    <2>4. /\ state \in MnMonitorStates /\ state.cursor = cursor /\ state.page = MnPageOf(listed)
          /\ state.next = next
        BY <2>1, <2>2 DEF MnMonitorStates
    <2>5. /\ UNCHANGED <<mnCreated, mnActive>> /\ mnEvaluated' \in 0..MnProjects
          /\ mnRestarted' \in Nat
        BY <1>4 DEF MnBeginPage, MnIInv, MnTypeOK
    <2> QED BY <2>1, <2>2, <2>3, <2>4, <2>5, MnOneMonitor
<1>5. ASSUME NEW m \in MnMonitors, MnEvaluate(m) PROVE MnIInv'
    <2>1. PICK p \in mnMonitor[m].page :
              /\ mnMonitor' = [mnMonitor EXCEPT ![m].page = @ \ {p}]
              /\ mnEvaluated' = IF p \in MnBroken THEN 0 ELSE p
        BY <1>5 DEF MnEvaluate
    <2> DEFINE state == [mnMonitor[m] EXCEPT !.page = @ \ {p}]
    <2>2. mnMonitor[m] \in MnMonitorStates /\ p \in 1..MnProjects
        BY <2>1 DEF MnIInv, MnTypeOK, MnMonitorStates
    <2>3. /\ state \in MnMonitorStates /\ state.page = mnMonitor[m].page \ {p}
          /\ state.cursor = mnMonitor[m].cursor /\ state.next = mnMonitor[m].next
        BY <2>2 DEF MnMonitorStates
    <2>4. mnMonitor' = [mnMonitor EXCEPT ![m] = state]
        BY <2>1
    <2>5. /\ UNCHANGED <<mnCreated, mnActive>> /\ mnEvaluated' \in 0..MnProjects
          /\ mnRestarted' \in Nat
        BY <1>1, <1>5, <2>1, <2>2 DEF MnEvaluate, MnIInv, MnTypeOK
    <2> HIDE DEF state
    <2>6. state.cursor # 0 => /\ \A q \in state.page : q < state.cursor
                              /\ state.next # 0 => state.next < state.cursor
        BY <2>3 DEF MnIInv, MnAdvances
    <2> QED BY <2>3, <2>4, <2>5, <2>6, MnOneMonitor
<1>6. ASSUME NEW m \in MnMonitors, NEW c \in 0..MnProjects,
             mnMonitor' = [mnMonitor EXCEPT ![m] = MnResting(c)],
             UNCHANGED <<mnCreated, mnActive, mnEvaluated>>, mnRestarted' \in Nat
      PROVE  MnIInv'
    <2>1. mnEvaluated' \in 0..MnProjects
        BY <1>6 DEF MnIInv, MnTypeOK
    <2> QED BY <1>6, <2>1, MnRests, MnOneMonitor
<1>7. ASSUME NEW m \in MnMonitors, MnEndPage(m) PROVE MnIInv'
    <2>1. mnMonitor[m].next \in 0..MnProjects
        BY DEF MnIInv, MnTypeOK, MnMonitorStates
    <2> QED BY <1>6, <1>7, <2>1 DEF MnEndPage, MnIInv, MnTypeOK
<1>8. ASSUME NEW m \in MnMonitors, MnRestart(m) PROVE MnIInv'
    <2>1. mnRestarted' \in Nat
        BY <1>8 DEF MnRestart, MnIInv, MnTypeOK
    <2> QED BY <1>1, <1>6, <1>8, <2>1 DEF MnRestart
<1>9. CASE UNCHANGED mnVars
    BY <1>9 DEF mnVars, MnIInv, MnTypeOK, MnAdvances
<1> QED BY <1>2, <1>3, <1>4, <1>5, <1>7, <1>8, <1>9 DEF MnNext, MnStep

\* A sweep of a monitor never turns back: each page, and the cursor it leaves, lie
\* behind the cursor it started from, whatever is created or archived meanwhile
\* (evaluate_active_project_batch).
THEOREM SweepsAdvance == MnSpec => [](MnTypeOK /\ MnAdvances)
BY MnInitially, MnInvariantStep, PTL DEF MnSpec, MnIInv

(***************************************************************************)
(* The services side by side, as MCBackgroundServices runs them.           *)
(***************************************************************************)

\* The state of every service has its type in every behaviour of the suite, and
\* with it what is proved of each service above.
THEOREM ServicesSound ==
    MCSpec => [](ServicesTypeOK /\ NtHistoryTold /\ WsNoWorkLost /\ RdNotifiedOnce)
<1> DEFINE IInv == part \in parts /\ NtIInv /\ RdIInv /\ MnIInv /\ WsIInv
<1>1. MCInit => IInv
    BY NtInitially, RdInitially, MnInitially, WsInitially DEF MCInit
<1>2. IInv /\ [MCNext]_allVars => IInv'
    BY NtInvariantStep, RdInvariantStep, MnInvariantStep, WsInvariantStep DEF MCNext, allVars
<1>3. IInv => ServicesTypeOK /\ NtHistoryTold /\ WsNoWorkLost /\ RdNotifiedOnce
    BY DEF ServicesTypeOK, NtIInv, NtDeliveryMeans, NtHistoryTold, NtLedgerExplains,
           NtEventsTellState, RdIInv, RdTold, RdNotifiedOnce, MnIInv, WsIInv
<1> QED BY <1>1, <1>2, <1>3, PTL DEF MCSpec

\* In every behaviour of the suite, deliveries and operations alike are claimed
\* and reported as LeaseQueue promises.
THEOREM ServicesKeepLeaseQueues == MCSpec => LeaseQueuesKept
<1>1. MCInit => NtInit /\ WsInit
    BY DEF MCInit
<1>2. [MCNext]_allVars => [NtNext]_ntVars /\ [WsNext]_wsVars
    BY DEF MCNext, allVars
<1>3. MCSpec => NtSpec /\ WsSpec
    BY <1>1, <1>2, PTL DEF MCSpec, NtSpec, WsSpec
<1> QED BY <1>3, DeliveriesKeepLeaseQueue, OperationsKeepLeaseQueue, PTL DEF LeaseQueuesKept
=============================================================================
