---------------------------- MODULE WorkerProofs ----------------------------
(***************************************************************************)
(* What the rows that workers leave behind promise: the external execution *)
(* of a task visit, for every number of attempts, however they overlap,    *)
(* time out, are interrupted or crash; and the readiness of the worker     *)
(* processes themselves, whose alerts are told once for every number of    *)
(* evaluators.                                                             *)
(***************************************************************************)
EXTENDS ExternalExecution, WorkerReadiness, FiniteSetTheorems, SequenceTheorems, TLAPS

(***************************************************************************)
(* External executions.                                                    *)
(***************************************************************************)

\* What attempt a's phase and result tell of the run and the row: it waits for
\* a run that exists, the verdict it is about to record is true, and what it
\* has reported is recorded.
ExMeansOf(a) ==
    /\ exAttempt[a].phase \in {"accepting", "waiting", "expiring"} => exRun # "none"
    /\ exAttempt[a].phase = "aborting" => exRun \in ExTerminal
    /\ exAttempt[a].phase = "finishing" =>
           /\ exRun \in ExTerminal
           /\ exAttempt[a].verdict = IF exAttempt[a].timedOut THEN "cancelled" ELSE exRun
    /\ exAttempt[a].timedOut => exAttempt[a].phase = "finishing"
    /\ exAttempt[a].result = "success" => exRow.status = "succeeded"
    /\ exAttempt[a].result = "failure" => exRow.status \in {"failed", "cancelled"}

\* What the row says of the run: it names one only after the gateway has
\* started it, and records only an end the run has come to.
ExRowMeans ==
    /\ exRow.accepted => exRun # "none" /\ exRow.status # "absent"
    /\ exRow.status = "succeeded" => exRun = "succeeded"
    /\ exRow.status = "cancelled" => exRun \in ExTerminal

\* The inductive invariant.
ExIInv == ExTypeOK /\ ExRowMeans /\ \A a \in ExAttempts : ExMeansOf(a)

\* What every step does to the row and to the run: an end is final, and a row
\* or run that is there stays.
ExRowKept ==
    /\ exRow.accepted => exRow'.accepted
    /\ exRow.status # "absent" => exRow'.status # "absent"
    /\ exRow.status \in ExTerminal => exRow'.status = exRow.status

ExRunKept ==
    /\ exRun # "none" => exRun' # "none"
    /\ exRun \in ExTerminal => exRun' = exRun

ExOthersKept(a) == \A b \in ExAttempts : b # a => exAttempt'[b] = exAttempt[b]

\* A step of one attempt preserves the invariant when the attempt that moves
\* keeps it and recorded ends are kept.
LEMMA ExOneAttemptMoves ==
    ASSUME ExIInv, NEW a \in ExAttempts, ExTypeOK', ExRowMeans', ExOthersKept(a), ExMeansOf(a)',
           ExRowKept, ExRunKept
    PROVE  ExIInv'
<1>1. ASSUME NEW b \in ExAttempts, b # a PROVE ExMeansOf(b)'
    BY <1>1 DEF ExIInv, ExMeansOf, ExOthersKept, ExRowKept, ExRunKept, ExTerminal
<1> QED BY <1>1 DEF ExIInv

\* The first state satisfies the invariant.
LEMMA ExInitially == ExInit => ExIInv
BY DEF ExInit, ExIInv, ExTypeOK, ExMeansOf, ExRowMeans, ExRows, ExRuns, ExAttemptStates, ExUnborn,
       ExTerminal

\* ExMove puts one attempt into another phase, and keeps the types.
LEMMA ExHasMoved ==
    ASSUME ExTypeOK, NEW a \in ExAttempts,
           NEW p \in {"begun", "preparing", "inserting", "starting", "accepting", "refusing",
                      "waiting", "expiring", "interrupted", "aborting"}, ExMove(a, p)
    PROVE  /\ exAttempt' \in [ExAttempts -> ExAttemptStates] /\ ExOthersKept(a)
           /\ exAttempt'[a].phase = p /\ exAttempt'[a].result = exAttempt[a].result
           /\ exAttempt'[a].timedOut = exAttempt[a].timedOut
BY DEF ExTypeOK, ExMove, ExOthersKept, ExAttemptStates

\* ExEnd ends one attempt with a result, and keeps the types.
LEMMA ExHasEnded ==
    ASSUME ExTypeOK, NEW a \in ExAttempts, NEW r \in {"success", "failure", "error"}, ExEnd(a, r)
    PROVE  /\ exAttempt' \in [ExAttempts -> ExAttemptStates] /\ ExOthersKept(a)
           /\ exAttempt'[a].phase = "ended" /\ exAttempt'[a].result = r
           /\ ~exAttempt'[a].timedOut
BY DEF ExTypeOK, ExEnd, ExOthersKept, ExAttemptStates

\* An attempt that moves to phase p, with row and run kept, keeps the invariant
\* when the run is what p needs.
LEMMA ExMoveKeeps ==
    ASSUME ExIInv, NEW a \in ExAttempts,
           NEW p \in {"begun", "preparing", "inserting", "starting", "accepting", "refusing",
                      "waiting", "expiring", "interrupted", "aborting"}, ExMove(a, p),
           exAttempt[a].phase # "finishing", exRow' \in ExRows, exRun' \in ExRuns, ExRowMeans',
           ExRowKept, ExRunKept,
           p \in {"accepting", "waiting", "expiring"} => exRun' # "none",
           p = "aborting" => exRun' \in ExTerminal
    PROVE  ExIInv'
<1>1. ExTypeOK' /\ ExOthersKept(a)
    BY ExHasMoved DEF ExIInv, ExTypeOK
<1>2. ExMeansOf(a)'
    BY ExHasMoved DEF ExIInv, ExMeansOf, ExRowKept, ExTerminal
<1> QED BY <1>1, <1>2, ExOneAttemptMoves

\* An attempt that ends with a result the row bears out keeps the invariant.
LEMMA ExEndKeeps ==
    ASSUME ExIInv, NEW a \in ExAttempts, NEW r \in {"success", "failure", "error"}, ExEnd(a, r),
           exRow' \in ExRows, exRun' \in ExRuns, ExRowMeans', ExRowKept, ExRunKept,
           r = "success" => exRow'.status = "succeeded",
           r = "failure" => exRow'.status \in {"failed", "cancelled"}
    PROVE  ExIInv'
<1>1. ExTypeOK' /\ ExOthersKept(a)
    BY ExHasEnded DEF ExIInv, ExTypeOK
<1>2. ExMeansOf(a)'
    BY ExHasEnded DEF ExIInv, ExMeansOf
<1> QED BY <1>1, <1>2, ExOneAttemptMoves

\* Nothing happens to row and run.
LEMMA ExStandsStill ==
    ASSUME ExIInv, UNCHANGED <<exRow, exRun>>
    PROVE  exRow' \in ExRows /\ exRun' \in ExRuns /\ ExRowMeans' /\ ExRowKept /\ ExRunKept
BY DEF ExIInv, ExTypeOK, ExRowMeans, ExRowKept, ExRunKept

\* The gateway starts or cancels a run: its end is never undone.
LEMMA ExGatewayMoves ==
    ASSUME ExIInv, UNCHANGED exRow, ExGatewayStarts \/ ExGatewayCancels \/ UNCHANGED exRun
    PROVE  /\ exRow' \in ExRows /\ exRun' \in ExRuns /\ ExRowMeans' /\ ExRowKept /\ ExRunKept
           /\ ExGatewayStarts => exRun' # "none"
           /\ (ExGatewayCancels /\ exRun # "none") => exRun' \in ExTerminal
BY DEF ExIInv, ExTypeOK, ExRowMeans, ExRowKept, ExRunKept, ExGatewayStarts, ExGatewayCancels, ExRuns,
       ExTerminal

\* ExternalExecution.finish keeps a recorded end, and records a true one.
LEMMA ExFinishes ==
    ASSUME ExIInv, NEW v \in ExTerminal, exRow' = ExFinished(v), UNCHANGED exRun,
           v = "succeeded" => exRun = "succeeded", v = "cancelled" => exRun \in ExTerminal
    PROVE  /\ exRow' \in ExRows /\ exRun' \in ExRuns /\ ExRowMeans' /\ ExRowKept /\ ExRunKept
           /\ ~ExFinishRefused(v) => exRow'.status = v
BY DEF ExIInv, ExTypeOK, ExRowMeans, ExRowKept, ExRunKept, ExFinished, ExFinishRefused, ExRows, ExTerminal

\* An attempt that read the row goes on as ExGoOn says.
LEMMA ExGoesOn ==
    ASSUME ExIInv, NEW a \in ExAttempts, ExGoOn(a), exAttempt[a].phase # "finishing",
           UNCHANGED <<exRow, exRun>>
    PROVE  ExIInv'
<1>1. CASE exRow.status \in ExTerminal /\ ExEnd(a, ExStoredResult)
    BY <1>1, ExStandsStill, ExEndKeeps DEF ExStoredResult, ExTerminal
<1>2. CASE exRow.accepted /\ ExMove(a, "waiting")
    BY <1>2, ExStandsStill, ExMoveKeeps DEF ExIInv, ExRowMeans
<1>3. CASE ExMove(a, "starting")
    BY <1>3, ExStandsStill, ExMoveKeeps
<1> QED BY <1>1, <1>2, <1>3 DEF ExGoOn

\* Every step preserves the invariant and keeps row and run.
LEMMA ExInductive == ExIInv /\ [ExNext]_exVars => ExIInv' /\ ExRowKept
<1> SUFFICES ASSUME ExIInv, [ExNext]_exVars PROVE ExIInv' /\ ExRowKept
    OBVIOUS
<1>1. ASSUME NEW a \in ExAttempts, ExBegin(a) PROVE ExIInv' /\ ExRowKept
    BY <1>1, ExStandsStill, ExMoveKeeps DEF ExBegin
<1>2. ASSUME NEW a \in ExAttempts, ExGet(a) PROVE ExIInv' /\ ExRowKept
    BY <1>2, ExStandsStill, ExMoveKeeps, ExGoesOn DEF ExGet
<1>3. ASSUME NEW a \in ExAttempts, ExPrepare(a) PROVE ExIInv' /\ ExRowKept
    BY <1>3, ExStandsStill, ExMoveKeeps, ExGoesOn DEF ExPrepare
<1>4. ASSUME NEW a \in ExAttempts, ExInsert(a) PROVE ExIInv' /\ ExRowKept
    <2>1. CASE exRow.status = "absent"
        <3>1. ExMove(a, "starting") /\ exAttempt[a].phase # "finishing"
            BY <1>4, <2>1 DEF ExInsert
        <3>2. exRow' = [status |-> "starting", accepted |-> FALSE] /\ exRun' = exRun
            BY <1>4, <2>1 DEF ExInsert
        <3>3. exRow' \in ExRows /\ exRun' \in ExRuns
            BY <3>2 DEF ExIInv, ExTypeOK, ExRows
        <3>4. exRow'.status = "starting" /\ ~exRow'.accepted
            BY <3>2
        <3>5. ExRowMeans' /\ ExRunKept
            BY <3>2, <3>4 DEF ExRowMeans, ExRunKept
        <3>6. ExRowKept
            BY <1>4, <2>1 DEF ExInsert, ExIInv, ExRowMeans, ExRowKept, ExTerminal
        <3> QED BY <3>1, <3>3, <3>5, <3>6, ExMoveKeeps
    <2>2. CASE exRow.status # "absent"
        BY <1>4, <2>2, ExStandsStill, ExEndKeeps DEF ExInsert
    <2> QED BY <2>1, <2>2
<1>5. ASSUME NEW a \in ExAttempts, ExStart(a) PROVE ExIInv' /\ ExRowKept
    <2>1. CASE ExGatewayStarts /\ ExMove(a, "accepting")
        BY <1>5, <2>1, ExGatewayMoves, ExMoveKeeps DEF ExStart
    <2>2. CASE (ExGatewayStarts \/ UNCHANGED exRun) /\ ExMove(a, "refusing")
        BY <1>5, <2>2, ExGatewayMoves, ExMoveKeeps DEF ExStart
    <2> QED BY <1>5, <2>1, <2>2 DEF ExStart
<1>6. ASSUME NEW a \in ExAttempts, ExRefuse(a) PROVE ExIInv' /\ ExRowKept
    BY <1>6, ExFinishes, ExEndKeeps DEF ExRefuse, ExTerminal
<1>7. ASSUME NEW a \in ExAttempts, ExAccept(a) PROVE ExIInv' /\ ExRowKept
    <2>1. CASE exRow.status \in ExTerminal
        BY <1>7, <2>1, ExStandsStill, ExEndKeeps DEF ExAccept
    <2>2. CASE exRow.status \notin ExTerminal
        <3>1. ExMove(a, "waiting") /\ exAttempt[a].phase = "accepting"
            BY <1>7, <2>2 DEF ExAccept
        <3>2. exRun # "none"
            BY <3>1 DEF ExIInv, ExMeansOf
        <3>3. exRow' = [status |-> "active", accepted |-> TRUE] /\ exRun' = exRun
            BY <1>7, <2>2 DEF ExAccept
        <3>4. exRow' \in ExRows /\ exRun' \in ExRuns
            BY <3>3 DEF ExIInv, ExTypeOK, ExRows
        <3>5. exRow'.status = "active" /\ exRow'.accepted
            BY <3>3
        <3>6. ExRowMeans' /\ ExRowKept /\ ExRunKept
            BY <2>2, <3>3, <3>5, <3>2 DEF ExRowMeans, ExRowKept, ExRunKept
        <3> QED BY <3>1, <3>2, <3>3, <3>4, <3>6, ExMoveKeeps
    <2> QED BY <2>1, <2>2
<1>8. ASSUME NEW a \in ExAttempts, ExWait(a) PROVE ExIInv' /\ ExRowKept
    <2>1. CASE /\ exRun \in ExTerminal
               /\ exAttempt' = [exAttempt EXCEPT ![a].phase = "finishing", ![a].verdict = exRun]
        <3>1. ExTypeOK' /\ ExOthersKept(a) /\ ExMeansOf(a)'
            BY <1>8, <2>1, ZenonT(40)
            DEF ExWait, ExIInv, ExTypeOK, ExAttemptStates, ExOthersKept, ExMeansOf, ExTerminal
        <3> QED BY <1>8, <3>1, ExStandsStill, ExOneAttemptMoves DEF ExWait
    <2>2. CASE ExMove(a, "expiring")
        BY <1>8, <2>2, ExStandsStill, ExMoveKeeps DEF ExWait, ExIInv, ExMeansOf
    <2>3. CASE ExEnd(a, "error")
        BY <1>8, <2>3, ExStandsStill, ExEndKeeps DEF ExWait
    <2> QED BY <1>8, <2>1, <2>2, <2>3 DEF ExWait
<1>9. ASSUME NEW a \in ExAttempts, ExExpire(a) PROVE ExIInv' /\ ExRowKept
    <2>1. CASE /\ ExGatewayCancels
               /\ exAttempt' = [exAttempt EXCEPT ![a].phase = "finishing",
                                    ![a].verdict = "cancelled", ![a].timedOut = TRUE]
        <3>1. exRun' \in ExTerminal /\ exRun' \in ExRuns /\ ExRowMeans' /\ ExRowKept /\ ExRunKept
            BY <1>9, <2>1, ExGatewayMoves DEF ExExpire, ExIInv, ExMeansOf
        <3>2. ExTypeOK' /\ ExOthersKept(a) /\ ExMeansOf(a)'
            BY <1>9, <2>1, <3>1
            DEF ExExpire, ExIInv, ExTypeOK, ExAttemptStates, ExOthersKept, ExMeansOf, ExTerminal
        <3> QED BY <3>1, <3>2, ExOneAttemptMoves
    <2>2. CASE UNCHANGED exRun /\ ExEnd(a, "error")
        BY <1>9, <2>2, ExStandsStill, ExEndKeeps DEF ExExpire
    <2> QED BY <1>9, <2>1, <2>2 DEF ExExpire
<1>10. ASSUME NEW a \in ExAttempts, ExFinish(a) PROVE ExIInv' /\ ExRowKept
    <2> DEFINE v == exAttempt[a].verdict
               r == IF ExFinishRefused(v) \/ exAttempt[a].timedOut THEN "error"
                    ELSE IF v = "succeeded" THEN "success" ELSE "failure"
    <2>1. /\ v \in ExTerminal /\ exRow' = ExFinished(v) /\ UNCHANGED exRun /\ ExEnd(a, r)
          /\ v = "succeeded" => exRun = "succeeded"
          /\ v = "cancelled" => exRun \in ExTerminal
        BY <1>10 DEF ExFinish, ExIInv, ExMeansOf, ExTerminal
    <2> HIDE DEF v
    <2>2. /\ exRow' \in ExRows /\ exRun' \in ExRuns /\ ExRowMeans' /\ ExRowKept /\ ExRunKept
          /\ ~ExFinishRefused(v) => exRow'.status = v
        BY <2>1, ExFinishes
    <2>3. /\ r \in {"success", "failure", "error"}
          /\ r = "success" => exRow'.status = "succeeded"
          /\ r = "failure" => exRow'.status \in {"failed", "cancelled"}
        BY <2>1, <2>2 DEF ExTerminal
    <2> HIDE DEF r
    <2> QED BY <2>1, <2>2, <2>3, ExEndKeeps
<1>11. ASSUME NEW a \in ExAttempts, ExInterrupt(a) PROVE ExIInv' /\ ExRowKept
    BY <1>11, ExStandsStill, ExMoveKeeps DEF ExInterrupt
<1>12. ASSUME NEW a \in ExAttempts, ExCancel(a) PROVE ExIInv' /\ ExRowKept
    <2>1. CASE exRow.accepted /\ ExGatewayCancels /\ ExMove(a, "aborting")
        BY <1>12, <2>1, ExGatewayMoves, ExMoveKeeps DEF ExCancel, ExIInv, ExRowMeans
    <2>2. CASE UNCHANGED exRun /\ ExEnd(a, "error")
        BY <1>12, <2>2, ExStandsStill, ExEndKeeps DEF ExCancel
    <2> QED BY <1>12, <2>1, <2>2 DEF ExCancel
<1>13. ASSUME NEW a \in ExAttempts, ExAbort(a) PROVE ExIInv' /\ ExRowKept
    <2>1. exRun \in ExTerminal
        BY <1>13 DEF ExAbort, ExIInv, ExMeansOf
    <2> QED BY <1>13, <2>1, ExFinishes, ExEndKeeps DEF ExAbort, ExTerminal
<1>14. ASSUME NEW a \in ExAttempts, ExCrash(a) PROVE ExIInv' /\ ExRowKept
    BY <1>14, ExStandsStill, ExEndKeeps DEF ExCrash
<1>15. CASE ExRunEnds
    BY <1>15 DEF ExRunEnds, ExIInv, ExTypeOK, ExMeansOf, ExRowMeans, ExRowKept, ExRuns, ExTerminal
<1>16. CASE UNCHANGED exVars
    BY <1>16 DEF exVars, ExIInv, ExTypeOK, ExMeansOf, ExRowMeans, ExRowKept
<1> QED BY <1>1, <1>2, <1>3, <1>4, <1>5, <1>6, <1>7, <1>8, <1>9, <1>10, <1>11, <1>12, <1>13,
           <1>14, <1>15, <1>16 DEF ExNext, ExStep

\* The row, the run and every attempt have their types, for any number of
\* attempts.
THEOREM ExTypes == ExSpec => []ExTypeOK
<1>1. ExIInv => ExTypeOK
    BY DEF ExIInv
<1> QED BY <1>1, ExInitially, ExInductive, PTL DEF ExSpec

\* ADR 0011: for any number of attempts that share one external run, what one
\* reports is what the row records, and the row records only what the run
\* really came to.
THEOREM ExReportsTrue == ExSpec => []ExReportsAgree
<1>1. ExIInv => ExReportsAgree
    BY DEF ExIInv, ExMeansOf, ExRowMeans, ExReportsAgree
<1> QED BY <1>1, ExInitially, ExInductive, PTL DEF ExSpec

\* ADR 0011: no step of any attempt replaces the row, forgets an accepted run
\* or changes a recorded end.
THEOREM ExIdentityStays == ExSpec => ExIdentityKept
<1>1. ExIInv /\ [ExNext]_exVars =>
          [/\ exRow.accepted => exRow'.accepted
           /\ exRow.status # "absent" => exRow'.status # "absent"
           /\ exRow.status \in ExTerminal => exRow'.status = exRow.status]_exVars
    BY ExInductive DEF ExRowKept
<1> QED BY <1>1, ExInitially, ExInductive, PTL DEF ExSpec, ExIdentityKept

(***************************************************************************)
(* Readiness alerts.                                                       *)
(***************************************************************************)

\* Occurrence v was told as its alert says, and nothing was enqueued twice.
RdTold(v) ==
    /\ rdEvents[v] \in RdStories
    /\ rdAlert[v].status = RdStatusTold(rdEvents[v])
    /\ rdAlert[v].critical <=> "critical" \in ToSet(rdEvents[v])
    /\ IsInjective(rdQueue[v]) /\ ToSet(rdQueue[v]) \subseteq ToSet(rdEvents[v])

\* What evaluator m holds: the advisory lock if it was granted, and under it the
\* alerts as they still are, save for the time that has passed.
RdHolds(m) ==
    rdEval[m].locked =>
        /\ rdLock = m
        /\ \A v \in RdOccurrences : /\ rdEval[m].known[v].status = rdAlert[v].status
                                    /\ rdEval[m].known[v].critical <=> rdAlert[v].critical

\* The inductive invariant.
RdIInv ==
    /\ RdTypeOK
    /\ \A v \in RdOccurrences : RdTold(v)
    /\ \A m \in RdEvaluators : RdHolds(m)

\* The first state satisfies the invariant.
LEMMA RdInitially == RdInit => RdIInv
<1> SUFFICES ASSUME RdInit PROVE RdIInv
    OBVIOUS
<1>1. RdNoAlert \in RdAlertRows /\ RdNoAlert.status = "absent" /\ ~RdNoAlert.critical
    BY DEF RdNoAlert, RdAlertRows
<1>2. RdNoAlerts \in [RdOccurrences -> RdAlertRows] /\ \A v \in RdOccurrences : RdNoAlerts[v] = RdNoAlert
    BY <1>1 DEF RdNoAlerts
<1>3. RdResting \in RdEvaluations /\ ~RdResting.locked
    BY <1>2, RdAssumption DEF RdResting, RdEvaluations
<1>4. RdTypeOK
    <2>1. rdProcess \in [RdInstances -> BOOLEAN] /\ rdInstance \in [RdInstances -> RdInstanceRows]
        BY DEF RdInit, RdInstanceRows
    <2>2. rdLatest \in 0..RdStarts /\ rdTask \in [visit : 0..RdVisits, ready : BOOLEAN]
        BY RdAssumption DEF RdInit
    <2>3. rdSub \in RdSubscriptions
        BY DEF RdInit, RdSubscriptions
    <2>4. rdEvents \in [RdOccurrences -> Seq(RdNotified)]
          /\ rdQueue \in [RdOccurrences -> Seq(RdNotified)]
        BY DEF RdInit
    <2>5. rdAlert \in [RdOccurrences -> RdAlertRows] /\ rdEval \in [RdEvaluators -> RdEvaluations]
        BY <1>2, <1>3 DEF RdInit
    <2> QED BY <2>1, <2>2, <2>3, <2>4, <2>5 DEF RdInit, RdTypeOK
<1>5. ASSUME NEW v \in RdOccurrences PROVE RdTold(v)
    <2>1. rdEvents[v] = <<>> /\ rdQueue[v] = <<>> /\ rdAlert[v] = RdNoAlert
        BY <1>2 DEF RdInit
    <2>2. ToSet(<<>>) = {} /\ IsInjective(<<>>)
        BY DEF ToSet, IsInjective
    <2> QED BY <1>1, <2>1, <2>2 DEF RdTold, RdStories, RdStatusTold
<1>6. \A m \in RdEvaluators : RdHolds(m)
    BY <1>3 DEF RdInit, RdHolds
<1> QED BY <1>4, <1>5, <1>6 DEF RdIInv

\* The presence of the workers, the task and the subscription: nothing the
\* alerts or the evaluations say changes.
LEMMA RdOutside ==
    ASSUME RdIInv, RdTypeOK', UNCHANGED <<rdAlerts, rdEval, rdLock>>
    PROVE  RdIInv'
<1>1. \A v \in RdOccurrences : RdTold(v)'
    BY DEF RdIInv, RdTold, rdAlerts
<1>2. \A m \in RdEvaluators : RdHolds(m)'
    BY DEF RdIInv, RdHolds, rdAlerts
<1> QED BY <1>1, <1>2 DEF RdIInv

(* A presence step, of whichever worker, keeps the invariant. *)
LEMMA RdPresence ==
    ASSUME RdIInv, NEW i \in RdInstances,
           RdRegister(i) \/ RdHeartbeat(i) \/ RdStop(i) \/ RdKill(i) \/ RdGrowStale(i)
    PROVE  RdIInv'
<1>1. rdProcess' \in [RdInstances -> BOOLEAN]
    BY DEF RdIInv, RdTypeOK, RdRegister, RdHeartbeat, RdStop, RdKill, RdGrowStale
<1>2. rdInstance' \in [RdInstances -> RdInstanceRows]
    <2>1. ASSUME NEW status \in {"running", "stopped"}
          PROVE  [status |-> status, fresh |-> status = "running"] \in RdInstanceRows
        <3>1. (status = "running") \in BOOLEAN
            BY Zenon
        <3> DEFINE fresh == status = "running"
        <3>2. fresh \in BOOLEAN
            BY <3>1
        <3> HIDE DEF fresh
        <3>3. [status |-> status, fresh |-> fresh] \in RdInstanceRows
            BY <3>2 DEF RdInstanceRows
        <3> QED BY <3>3, Zenon DEF fresh
    <2>2. ASSUME NEW status \in {"running", "stopped"}, RdSeenNow(i, status)
          PROVE  rdInstance' \in [RdInstances -> RdInstanceRows]
        <3> DEFINE row == [status |-> status, fresh |-> status = "running"]
        <3>1. row \in RdInstanceRows /\ rdInstance' = [rdInstance EXCEPT ![i] = row]
              /\ rdInstance \in [RdInstances -> RdInstanceRows]
            BY <2>1, <2>2, Zenon DEF RdSeenNow, RdIInv, RdTypeOK
        <3> HIDE DEF row
        <3> QED BY <3>1
    <2>3. CASE RdRegister(i) \/ RdHeartbeat(i) \/ RdStop(i)
        BY <2>2, <2>3 DEF RdRegister, RdHeartbeat, RdStop
    <2>4. CASE RdKill(i)
        BY <2>4 DEF RdKill, RdIInv, RdTypeOK
    <2>5. CASE RdGrowStale(i)
        BY <2>5 DEF RdGrowStale, RdIInv, RdTypeOK, RdInstanceRows
    <2> QED BY <2>3, <2>4, <2>5
<1>3. rdLatest' \in 0..RdStarts /\ rdFaults' \in Nat
    BY RdAssumption
    DEF RdIInv, RdTypeOK, RdRegister, RdHeartbeat, RdStop, RdKill, RdGrowStale, RdSeenNow, RdInstances
<1>4. UNCHANGED <<rdTask, rdAlerts, rdSub, rdEval, rdLock>>
    BY DEF RdRegister, RdHeartbeat, RdStop, RdKill, RdGrowStale
<1>5. RdTypeOK'
    BY <1>1, <1>2, <1>3, <1>4 DEF RdIInv, RdTypeOK, rdAlerts
<1> QED BY <1>4, <1>5, RdOutside

(* So do new tasks and changes of a subscription. *)
LEMMA RdTaskAndSubscription ==
    ASSUME RdIInv,
           \/ RdReady \/ RdUnready \/ RdCreateSubscription(RdNotified)
           \/ \E enabled \in BOOLEAN : RdConfigureSubscription(RdNotified, enabled)
    PROVE  RdIInv'
<1>1. rdTask' \in [visit : 0..RdVisits, ready : BOOLEAN]
    <2>1. CASE RdReady
        <3>1. rdTask.visit + 1 \in 0..RdVisits
            BY <2>1, RdAssumption DEF RdReady, RdIInv, RdTypeOK
        <3> QED BY <2>1, <3>1 DEF RdReady
    <2>2. CASE RdUnready
        BY <2>2 DEF RdUnready, RdIInv, RdTypeOK
    <2>3. CASE UNCHANGED rdTask
        BY <2>3 DEF RdIInv, RdTypeOK
    <2> QED BY <2>1, <2>2, <2>3 DEF RdCreateSubscription, RdConfigureSubscription
<1>2. rdSub' \in RdSubscriptions
    <2>1. CASE RdCreateSubscription(RdNotified)
        BY <2>1 DEF RdCreateSubscription, RdSubscriptions
    <2>2. ASSUME NEW enabled \in BOOLEAN, RdConfigureSubscription(RdNotified, enabled)
          PROVE  rdSub' \in RdSubscriptions
        BY <2>2 DEF RdConfigureSubscription, RdSubscriptions
    <2>3. CASE UNCHANGED rdSub
        BY <2>3 DEF RdIInv, RdTypeOK
    <2> QED BY <2>1, <2>2, <2>3 DEF RdReady, RdUnready
<1>3. UNCHANGED <<rdPresence, rdAlerts, rdEval, rdLock, rdFaults>>
    BY DEF RdReady, RdUnready, RdCreateSubscription, RdConfigureSubscription
<1>4. RdTypeOK'
    BY <1>1, <1>2, <1>3 DEF RdIInv, RdTypeOK, rdAlerts, rdPresence
<1> QED BY <1>3, <1>4, RdOutside

\* Time passes for an alert.
LEMMA RdRipens ==
    ASSUME RdIInv, NEW v \in RdOccurrences, RdRipen(v)
    PROVE  RdIInv'
<1>1. /\ rdAlert' \in [RdOccurrences -> RdAlertRows]
      /\ \A u \in RdOccurrences : /\ rdAlert'[u].status = rdAlert[u].status
                                  /\ rdAlert'[u].critical <=> rdAlert[u].critical
    BY DEF RdIInv, RdTypeOK, RdRipen, RdAlertRows
<1>2. UNCHANGED <<rdPresence, rdTask, rdEvents, rdQueue, rdSub, rdEval, rdLock, rdFaults>>
    BY DEF RdRipen
<1>3. RdTypeOK'
    BY <1>1, <1>2 DEF RdIInv, RdTypeOK, rdPresence
<1>4. \A u \in RdOccurrences : RdTold(u)'
    BY <1>1, <1>2 DEF RdIInv, RdTold
<1>5. \A m \in RdEvaluators : RdHolds(m)'
    BY <1>1, <1>2 DEF RdIInv, RdHolds
<1> QED BY <1>3, <1>4, <1>5 DEF RdIInv

\* An evaluator takes the lock if it is free, and reads.
LEMMA RdBegins ==
    ASSUME RdIInv, NEW m \in RdEvaluators, RdBeginEvaluation(m)
    PROVE  RdIInv'
<1>1. RdIssue \in RdReasons \cup {"none"}
    BY DEF RdIssue, RdReasons
<1>2. RdLockFree \in BOOLEAN
    BY Zenon DEF RdLockFree
<1> DEFINE new == [phase |-> "evaluating", issue |-> RdIssue, occurrence |-> rdTask.visit,
                   locked |-> RdLockFree, known |-> rdAlert]
<1>3. /\ new \in RdEvaluations /\ new.known = rdAlert
      /\ new.locked = RdLockFree
    BY <1>1, <1>2 DEF RdIInv, RdTypeOK, RdEvaluations
<1>4. rdEval' = [rdEval EXCEPT ![m] = new]
    BY DEF RdBeginEvaluation
<1> HIDE DEF new
<1>5. /\ rdEval' \in [RdEvaluators -> RdEvaluations] /\ rdEval'[m] = new
      /\ \A k \in RdEvaluators : k # m => rdEval'[k] = rdEval[k]
    BY <1>3, <1>4 DEF RdIInv, RdTypeOK
<1>6. /\ RdLockFree => rdLock = RdNoLock /\ rdLock' = m
      /\ ~RdLockFree => rdLock' = rdLock
    BY DEF RdBeginEvaluation, RdLockFree
<1>7. UNCHANGED <<rdPresence, rdTask, rdAlerts, rdSub, rdFaults>>
    BY DEF RdBeginEvaluation
<1>8. RdTypeOK'
    BY <1>5, <1>6, <1>7 DEF RdIInv, RdTypeOK, rdPresence, rdAlerts
<1>9. \A v \in RdOccurrences : RdTold(v)'
    BY <1>7 DEF RdIInv, RdTold, rdAlerts
<1>10. RdHolds(m)'
    BY <1>3, <1>5, <1>6, <1>7 DEF RdHolds, rdAlerts
<1>11. ASSUME NEW k \in RdEvaluators, k # m PROVE RdHolds(k)'
    <2>1. rdEval[k].locked => ~RdLockFree
        BY RdAssumption DEF RdIInv, RdHolds, RdLockFree
    <2> QED BY <1>5, <1>6, <1>7, <1>11, <2>1 DEF RdIInv, RdHolds, rdAlerts
<1> QED BY <1>8, <1>9, <1>10, <1>11 DEF RdIInv

\* An evaluation ends without having written.
LEMMA RdEndsEmpty ==
    ASSUME RdIInv, NEW m \in RdEvaluators, RdOnlyReport(m) \/ RdFailEvaluation(m)
    PROVE  RdIInv'
<1>1. RdResting \in RdEvaluations /\ ~RdResting.locked
    BY RdAssumption
    DEF RdResting, RdEvaluations, RdNoAlerts, RdNoAlert, RdAlertRows
<1>2. /\ rdEval' \in [RdEvaluators -> RdEvaluations] /\ ~rdEval'[m].locked
      /\ \A k \in RdEvaluators : k # m => rdEval'[k] = rdEval[k]
    BY <1>1 DEF RdIInv, RdTypeOK, RdOnlyReport, RdFailEvaluation
<1>3. UNCHANGED <<rdPresence, rdTask, rdAlerts, rdSub>> /\ rdFaults' \in Nat
    BY DEF RdOnlyReport, RdFailEvaluation, RdIInv, RdTypeOK
<1>4. rdLock' \in RdEvaluators \cup {RdNoLock} /\ (~rdEval[m].locked => rdLock' = rdLock)
    BY DEF RdOnlyReport, RdFailEvaluation, RdIInv, RdTypeOK
<1>5. RdTypeOK'
    BY <1>2, <1>3, <1>4 DEF RdIInv, RdTypeOK, rdPresence, rdAlerts
<1>6. \A v \in RdOccurrences : RdTold(v)'
    BY <1>3 DEF RdIInv, RdTold, rdAlerts
<1>7. ASSUME NEW k \in RdEvaluators PROVE RdHolds(k)'
    <2>1. CASE k = m
        BY <1>2, <2>1 DEF RdHolds
    <2>2. CASE k # m /\ rdEval[k].locked
        <3>1. ~rdEval[m].locked
            BY <2>2 DEF RdIInv, RdHolds
        <3> QED BY <1>2, <1>3, <1>4, <2>2, <3>1 DEF RdIInv, RdHolds, rdAlerts
    <2>3. CASE k # m /\ ~rdEval[k].locked
        BY <1>2, <2>3 DEF RdHolds
    <2> QED BY <2>1, <2>2, <2>3
<1> QED BY <1>5, <1>6, <1>7 DEF RdIInv

\* One more event, of a type not told before, and perhaps a delivery for it.
LEMMA RdTellsOnce ==
    ASSUME NEW told \in Seq(RdNotified), NEW queue \in Seq(RdNotified), NEW type \in RdNotified,
           type \notin ToSet(told), IsInjective(queue), ToSet(queue) \subseteq ToSet(told)
    PROVE  /\ told \o <<type>> \in Seq(RdNotified) /\ ToSet(told \o <<type>>) = ToSet(told) \cup {type}
           /\ queue \o <<type>> \in Seq(RdNotified)
           /\ ToSet(queue \o <<type>>) \subseteq ToSet(told) \cup {type}
           /\ IsInjective(queue \o <<type>>)
<1>1. ASSUME NEW s \in Seq(RdNotified)
      PROVE  /\ s \o <<type>> \in Seq(RdNotified) /\ DOMAIN s = 1..Len(s) /\ Len(s) \in Nat
             /\ DOMAIN (s \o <<type>>) = 1..(Len(s) + 1)
             /\ \A i \in 1..Len(s) : (s \o <<type>>)[i] = s[i]
             /\ (s \o <<type>>)[Len(s) + 1] = type
    OBVIOUS
<1>2. ASSUME NEW s \in Seq(RdNotified) PROVE ToSet(s \o <<type>>) = ToSet(s) \cup {type}
    <2> DEFINE t == s \o <<type>>
    <2>1. /\ DOMAIN s = 1..Len(s) /\ Len(s) \in Nat /\ DOMAIN t = 1..(Len(s) + 1)
          /\ \A i \in 1..Len(s) : t[i] = s[i]
          /\ t[Len(s) + 1] = type
        BY <1>1
    <2> HIDE DEF t
    <2>2. ToSet(t) = {t[i] : i \in 1..(Len(s) + 1)} /\ ToSet(s) = {s[i] : i \in 1..Len(s)}
        BY <2>1, Zenon DEF ToSet
    <2>3. ASSUME NEW i \in 1..(Len(s) + 1) PROVE t[i] \in {s[j] : j \in 1..Len(s)} \cup {type}
        <3>1. CASE i = Len(s) + 1
            BY <2>1, <3>1
        <3>2. CASE i # Len(s) + 1
            <4>1. i \in 1..Len(s)
                BY <2>1, <3>2
            <4> QED BY <2>1, <4>1
        <3> QED BY <3>1, <3>2
    <2>4. ASSUME NEW j \in 1..Len(s) PROVE s[j] \in {t[i] : i \in 1..(Len(s) + 1)}
        <3>1. j \in 1..(Len(s) + 1) /\ t[j] = s[j]
            BY <2>1
        <3> QED BY <3>1
    <2>5. Len(s) + 1 \in 1..(Len(s) + 1)
        BY <2>1
    <2>6. type \in {t[i] : i \in 1..(Len(s) + 1)}
        BY <2>1, <2>5
    <2>7. ToSet(t) = ToSet(s) \cup {type}
        BY <2>2, <2>3, <2>4, <2>6
    <2> QED BY <2>7 DEF t
<1>3. IsInjective(queue \o <<type>>)
    <2> DEFINE t == queue \o <<type>>
               n == Len(queue)
    <2>1. /\ DOMAIN queue = 1..n /\ n \in Nat /\ DOMAIN t = 1..(n + 1)
          /\ \A i \in 1..n : t[i] = queue[i]
          /\ t[n + 1] = type
        BY <1>1
    <2>2. \A i \in 1..n : queue[i] # type
        BY <2>1 DEF ToSet
    <2> HIDE DEF t, n
    <2>3. ASSUME NEW a \in 1..(n + 1), NEW b \in 1..(n + 1), t[a] = t[b] PROVE a = b
        <3>1. a \in 1..n \/ a = n + 1
            BY <2>1
        <3>2. b \in 1..n \/ b = n + 1
            BY <2>1
        <3> QED BY <2>1, <2>2, <2>3, <3>1, <3>2 DEF IsInjective
    <2>4. IsInjective(t)
        BY <2>1, <2>3 DEF IsInjective
    <2> QED BY <2>4 DEF t
<1> QED BY <1>1, <1>2, <1>3

\* The stories, and what each adds.
LEMMA RdStoryFacts ==
    /\ RdStories \subseteq Seq(RdNotified)
    /\ ToSet(<<>>) = {} /\ ToSet(<<"alerted">>) = {"alerted"}
    /\ ToSet(<<"alerted", "critical">>) = {"alerted", "critical"}
    /\ ToSet(<<"alerted", "resolved">>) = {"alerted", "resolved"}
    /\ ToSet(<<"alerted", "critical", "resolved">>) = {"alerted", "critical", "resolved"}
<1>1. RdStories \subseteq Seq(RdNotified)
    BY DEF RdStories, RdNotified
<1>2. ToSet(<<>>) = {} /\ ToSet(<<"alerted">>) = {"alerted"}
    BY DEF ToSet
<1>3. ToSet(<<"alerted", "critical">>) = {"alerted", "critical"}
    BY DEF ToSet
<1>4. ToSet(<<"alerted", "resolved">>) = {"alerted", "resolved"}
    BY DEF ToSet
<1>5. ToSet(<<"alerted", "critical", "resolved">>) = {"alerted", "critical", "resolved"}
    BY DEF ToSet
<1> QED BY <1>1, <1>2, <1>3, <1>4, <1>5

\* A sequence that is another and one element more.
LEMMA OneMore ==
    ASSUME NEW S, NEW s \in Seq(S), NEW t \in Seq(S), NEW x \in S, Len(t) = Len(s) + 1,
           \A i \in 1..Len(s) : t[i] = s[i], t[Len(s) + 1] = x
    PROVE  s \o <<x>> = t
<1> DEFINE u == s \o <<x>>
<1>1. u \in Seq(S) /\ Len(u) = Len(s) + 1 /\ Len(s) \in Nat
      /\ (\A i \in 1..Len(s) : u[i] = s[i]) /\ u[Len(s) + 1] = x
    OBVIOUS
<1> HIDE DEF u
<1>2. \A i \in 1..Len(u) : i \in 1..Len(s) \/ i = Len(s) + 1
    BY <1>1
<1>3. u = t
    BY <1>1, <1>2, SeqEqual
<1> QED BY <1>3 DEF u

\* How the stories go on.
LEMMA RdStoriesGoOn ==
    /\ <<"alerted">> \o <<"critical">> = <<"alerted", "critical">>
    /\ <<"alerted">> \o <<"resolved">> = <<"alerted", "resolved">>
    /\ <<"alerted", "critical">> \o <<"resolved">> = <<"alerted", "critical", "resolved">>
<1>1. ASSUME NEW x \in RdNotified PROVE <<"alerted">> \o <<x>> = <<"alerted", x>>
    <2> DEFINE s == <<"alerted">>
               t == <<"alerted", x>>
    <2>1. s \in Seq(RdNotified) /\ Len(s) = 1 /\ s[1] = "alerted"
        BY DEF RdNotified
    <2>2. t \in Seq(RdNotified) /\ Len(t) = 2
        BY DEF RdNotified
    <2>3. t[1] = "alerted" /\ t[2] = x
        OBVIOUS
    <2> HIDE DEF s, t
    <2>4. Len(t) = Len(s) + 1 /\ (\A i \in 1..Len(s) : t[i] = s[i]) /\ t[Len(s) + 1] = x
        BY <2>1, <2>2, <2>3
    <2>5. s \o <<x>> = t
        BY <2>1, <2>2, <2>4, OneMore, ZenonT(40)
    <2> QED BY <2>5, Zenon DEF s, t
<1>2. <<"alerted", "critical">> \o <<"resolved">> = <<"alerted", "critical", "resolved">>
    <2> DEFINE s == <<"alerted", "critical">>
               t == <<"alerted", "critical", "resolved">>
               x == "resolved"
    <2>1. s \in Seq(RdNotified) /\ Len(s) = 2 /\ x \in RdNotified
        BY DEF RdNotified
    <2>2. t \in Seq(RdNotified) /\ Len(t) = 3
        BY DEF RdNotified
    <2>3. s[1] = "alerted" /\ s[2] = "critical"
        OBVIOUS
    <2>4. t[1] = "alerted" /\ t[2] = "critical" /\ t[3] = x
        OBVIOUS
    <2> HIDE DEF s, t, x
    <2>5. Len(t) = Len(s) + 1 /\ (\A i \in 1..Len(s) : t[i] = s[i]) /\ t[Len(s) + 1] = x
        BY <2>1, <2>2, <2>3, <2>4
    <2>6. s \o <<x>> = t
        BY <2>1, <2>2, <2>5, OneMore, ZenonT(40)
    <2> QED BY <2>6, Zenon DEF s, t, x
<1>3. "critical" \in RdNotified /\ "resolved" \in RdNotified
    BY DEF RdNotified
<1> QED BY <1>1, <1>2, <1>3

\* What the alert of an occurrence tells of its story.
LEMMA RdStoryOf ==
    ASSUME NEW v \in RdOccurrences, RdTold(v)
    PROVE  /\ rdAlert[v].status = "absent" => rdEvents[v] = <<>>
           /\ (rdAlert[v].status = "active" /\ ~rdAlert[v].critical) => rdEvents[v] = <<"alerted">>
           /\ (rdAlert[v].status = "active" /\ rdAlert[v].critical) =>
                  rdEvents[v] = <<"alerted", "critical">>
<1>1. /\ Last(<<"alerted">>) = "alerted" /\ Last(<<"alerted", "critical">>) = "critical"
      /\ Last(<<"alerted", "resolved">>) = "resolved"
      /\ Last(<<"alerted", "critical", "resolved">>) = "resolved"
    BY DEF Last
<1>2. /\ RdStatusTold(<<>>) = "absent" /\ RdStatusTold(<<"alerted">>) = "active"
      /\ RdStatusTold(<<"alerted", "critical">>) = "active"
      /\ RdStatusTold(<<"alerted", "resolved">>) = "resolved"
      /\ RdStatusTold(<<"alerted", "critical", "resolved">>) = "resolved"
    BY <1>1 DEF RdStatusTold
<1> QED BY <1>2, RdStoryFacts DEF RdTold, RdStories

\* A story that goes on by one event keeps what an occurrence must be.
LEMMA RdGoesOn ==
    ASSUME RdTypeOK, NEW v \in RdOccurrences, RdTold(v), NEW type \in RdNotified,
           type \notin ToSet(rdEvents[v]), rdEvents'[v] = rdEvents[v] \o <<type>>,
           rdQueue'[v] = rdQueue[v] \o RdDeliveries(<<type>>),
           rdEvents'[v] \in RdStories, rdAlert'[v].status = RdStatusTold(rdEvents'[v]),
           rdAlert'[v].critical <=> "critical" \in ToSet(rdEvents'[v])
    PROVE  RdTold(v)' /\ rdEvents'[v] \in Seq(RdNotified) /\ rdQueue'[v] \in Seq(RdNotified)
<1> DEFINE told == rdEvents[v]
           queue == rdQueue[v]
<1>1. told \in Seq(RdNotified) /\ queue \in Seq(RdNotified)
    BY DEF RdTypeOK
<1>2. IsInjective(queue) /\ ToSet(queue) \subseteq ToSet(told)
    BY DEF RdTold
<1>3. /\ told \o <<type>> \in Seq(RdNotified) /\ ToSet(told \o <<type>>) = ToSet(told) \cup {type}
      /\ queue \o <<type>> \in Seq(RdNotified)
      /\ ToSet(queue \o <<type>>) \subseteq ToSet(told) \cup {type}
      /\ IsInjective(queue \o <<type>>)
    BY <1>1, <1>2, RdTellsOnce
<1>4. rdQueue'[v] = queue \o <<type>> \/ rdQueue'[v] = queue
    <2>1. RdDeliveries(<<type>>) = <<type>> \/ RdDeliveries(<<type>>) = <<>>
        BY DEF RdDeliveries
    <2>2. queue \o <<>> = queue
        BY <1>1
    <2> QED BY <2>1, <2>2
<1> HIDE DEF told, queue
<1>5. /\ IsInjective(rdQueue'[v]) /\ ToSet(rdQueue'[v]) \subseteq ToSet(rdEvents'[v])
      /\ rdEvents'[v] \in Seq(RdNotified) /\ rdQueue'[v] \in Seq(RdNotified)
    BY <1>1, <1>2, <1>3, <1>4 DEF told, queue
<1> QED BY <1>5 DEF RdTold

\* evaluate_project writes: under the lock, what it knows of the alerts is what
\* they are, so each of its events is the next of the story.
LEMMA RdCommitTells ==
    ASSUME RdIInv, NEW m \in RdEvaluators, RdCommitEvaluation(m), NEW v \in RdOccurrences
    PROVE  /\ RdTold(v)' /\ rdEvents'[v] \in Seq(RdNotified) /\ rdQueue'[v] \in Seq(RdNotified)
           /\ rdAlert'[v] \in RdAlertRows
<1> DEFINE known == rdEval[m].known[v]
           alert == rdAlert[v]
           told == rdEvents[v]
           issue == rdEval[m].issue
           mine == issue # "none" /\ rdEval[m].occurrence = v
<1>1. /\ alert \in RdAlertRows /\ known \in RdAlertRows /\ issue \in RdReasons \cup {"none"}
      /\ told \in Seq(RdNotified) /\ rdQueue[v] \in Seq(RdNotified)
    BY DEF RdIInv, RdTypeOK, RdEvaluations
<1>2. known.status = alert.status /\ (known.critical <=> alert.critical)
    BY DEF RdIInv, RdHolds, RdCommitEvaluation
<1>3. RdTypeOK /\ RdTold(v)
    BY DEF RdIInv
<1>4. /\ rdEvents'[v] = told \o RdNewEvents(m, v)
      /\ rdQueue'[v] = rdQueue[v] \o RdDeliveries(RdNewEvents(m, v))
    BY DEF RdCommitEvaluation, RdAppendEvents
<1>5. rdAlert'[v] = IF RdResolves(m, v) THEN [alert EXCEPT !.status = "resolved"]
                    ELSE IF mine THEN [RdObservedAlert(known, issue) EXCEPT !.ripe = alert.ripe]
                         ELSE alert
    BY DEF RdCommitEvaluation, RdSaveAlerts
<1>6. CASE RdResolves(m, v)
    <2>1. RdNewEvents(m, v) = <<"resolved">> /\ alert.status = "active"
        BY <1>2, <1>6 DEF RdNewEvents, RdResolves
    <2>2. /\ rdAlert'[v] \in RdAlertRows /\ rdAlert'[v].status = "resolved"
          /\ rdAlert'[v].critical <=> alert.critical
        BY <1>1, <1>5, <1>6 DEF RdAlertRows
    <2>3. CASE alert.critical
        <3>1. told = <<"alerted", "critical">>
            BY <1>3, <2>1, <2>3, RdStoryOf
        <3>2. rdEvents'[v] = <<"alerted", "critical", "resolved">>
            BY <1>4, <2>1, <3>1, RdStoriesGoOn
        <3>3. RdStatusTold(rdEvents'[v]) = "resolved" /\ rdEvents'[v] \in RdStories
            BY <3>2 DEF RdStatusTold, Last, RdStories
        <3> QED BY <1>3, <1>4, <2>1, <2>2, <2>3, <3>1, <3>2, <3>3, RdStoryFacts, RdGoesOn DEF RdNotified
    <2>4. CASE ~alert.critical
        <3>1. told = <<"alerted">>
            BY <1>3, <2>1, <2>4, RdStoryOf
        <3>2. rdEvents'[v] = <<"alerted", "resolved">>
            BY <1>4, <2>1, <3>1, RdStoriesGoOn
        <3>3. RdStatusTold(rdEvents'[v]) = "resolved" /\ rdEvents'[v] \in RdStories
            BY <3>2 DEF RdStatusTold, Last, RdStories
        <3> QED BY <1>3, <1>4, <2>1, <2>2, <2>4, <3>1, <3>2, <3>3, RdStoryFacts, RdGoesOn DEF RdNotified
    <2> QED BY <2>3, <2>4
<1>7. CASE ~RdResolves(m, v) /\ mine /\ known.status = "absent"
    <2>1. RdNewEvents(m, v) = <<"alerted">>
        BY <1>7 DEF RdNewEvents, RdObservedEvents
    <2>2. rdAlert'[v] \in RdAlertRows /\ rdAlert'[v].status = "active" /\ ~rdAlert'[v].critical
        BY <1>1, <1>5, <1>7 DEF RdAlertRows, RdObservedAlert
    <2>3. told = <<>>
        BY <1>2, <1>3, <1>7, RdStoryOf
    <2>4. rdEvents'[v] = <<"alerted">>
        BY <1>4, <2>1, <2>3
    <2>5. RdStatusTold(rdEvents'[v]) = "active" /\ rdEvents'[v] \in RdStories
        BY <2>4 DEF RdStatusTold, Last, RdStories
    <2> QED BY <1>3, <1>4, <2>1, <2>2, <2>3, <2>4, <2>5, RdStoryFacts, RdGoesOn DEF RdNotified
<1>8. CASE ~RdResolves(m, v) /\ mine /\ RdEscalates(known)
    <2>1. RdNewEvents(m, v) = <<"critical">> /\ alert.status = "active" /\ ~alert.critical
        BY <1>2, <1>8 DEF RdNewEvents, RdObservedEvents, RdEscalates
    <2>2. rdAlert'[v] \in RdAlertRows /\ rdAlert'[v].status = "active" /\ rdAlert'[v].critical
        BY <1>1, <1>2, <1>5, <1>8, <2>1 DEF RdAlertRows, RdObservedAlert
    <2>3. told = <<"alerted">>
        BY <1>3, <2>1, RdStoryOf
    <2>4. rdEvents'[v] = <<"alerted", "critical">>
        BY <1>4, <2>1, <2>3, RdStoriesGoOn
    <2>5. RdStatusTold(rdEvents'[v]) = "active" /\ rdEvents'[v] \in RdStories
        BY <2>4 DEF RdStatusTold, Last, RdStories
    <2>6. "critical" \in RdNotified /\ "critical" \notin ToSet(told)
          /\ "critical" \in ToSet(rdEvents'[v])
        BY <2>3, <2>4, RdStoryFacts DEF RdNotified
    <2> QED BY <2>6, <1>3, <1>4, <2>1, <2>2, <2>3, <2>4, <2>5, RdGoesOn
<1>9. CASE ~RdResolves(m, v) /\ ~(mine /\ known.status = "absent") /\ ~(mine /\ RdEscalates(known))
    <2>1. RdNewEvents(m, v) = <<>>
        BY <1>9 DEF RdNewEvents, RdObservedEvents
    <2>2. /\ rdAlert'[v] \in RdAlertRows /\ rdAlert'[v].status = alert.status
          /\ rdAlert'[v].critical <=> alert.critical
        <3>1. CASE ~mine
            BY <1>1, <1>5, <1>9, <3>1
        <3>2. CASE mine
            BY <1>1, <1>2, <1>5, <1>9, <3>2 DEF RdAlertRows, RdObservedAlert
        <3> QED BY <3>1, <3>2
    <2>3. rdEvents'[v] = told /\ rdQueue'[v] = rdQueue[v]
        BY <1>1, <1>4, <2>1 DEF RdDeliveries
    <2> QED BY <1>1, <1>3, <2>2, <2>3 DEF RdTold
<1> QED BY <1>6, <1>7, <1>8, <1>9

(* The commit of an evaluation keeps the invariant. *)
LEMMA RdCommits ==
    ASSUME RdIInv, NEW m \in RdEvaluators, RdCommitEvaluation(m)
    PROVE  RdIInv'
<1>1. RdResting \in RdEvaluations /\ ~RdResting.locked
    BY RdAssumption
    DEF RdResting, RdEvaluations, RdNoAlerts, RdNoAlert, RdAlertRows
<1>2. /\ rdEval' \in [RdEvaluators -> RdEvaluations] /\ ~rdEval'[m].locked
      /\ \A k \in RdEvaluators : k # m => rdEval'[k] = rdEval[k]
    BY <1>1 DEF RdIInv, RdTypeOK, RdCommitEvaluation
<1>3. /\ rdAlert' \in [RdOccurrences -> RdAlertRows]
      /\ rdEvents' \in [RdOccurrences -> Seq(RdNotified)]
      /\ rdQueue' \in [RdOccurrences -> Seq(RdNotified)]
    BY RdCommitTells DEF RdCommitEvaluation, RdAppendEvents, RdSaveAlerts
<1>4. UNCHANGED <<rdPresence, rdTask, rdSub, rdFaults>> /\ rdLock' = RdNoLock
    BY DEF RdCommitEvaluation
<1>5. RdTypeOK'
    BY <1>2, <1>3, <1>4 DEF RdIInv, RdTypeOK, rdPresence
<1>6. ASSUME NEW k \in RdEvaluators PROVE RdHolds(k)'
    <2>1. ~rdEval'[k].locked
        BY <1>2 DEF RdIInv, RdHolds, RdCommitEvaluation
    <2> QED BY <2>1 DEF RdHolds
<1> QED BY <1>5, <1>6, RdCommitTells DEF RdIInv

\* Every step keeps the invariant.
LEMMA RdInvariantStep == RdIInv /\ [RdNext]_rdVars => RdIInv'
<1> SUFFICES ASSUME RdIInv, [RdNext]_rdVars PROVE RdIInv'
    OBVIOUS
<1>1. ASSUME NEW i \in RdInstances,
             RdRegister(i) \/ RdHeartbeat(i) \/ RdStop(i) \/ RdKill(i) \/ RdGrowStale(i)
      PROVE  RdIInv'
    BY <1>1, RdPresence
<1>2. CASE \E v \in RdOccurrences : RdRipen(v)
    BY <1>2, RdRipens
<1>3. CASE \/ RdReady \/ RdUnready \/ RdCreateSubscription(RdNotified)
           \/ \E enabled \in BOOLEAN : RdConfigureSubscription(RdNotified, enabled)
    BY <1>3, RdTaskAndSubscription
<1>4. ASSUME NEW m \in RdEvaluators, RdEvaluate(m) \/ RdFailEvaluation(m) PROVE RdIInv'
    BY <1>4, RdBegins, RdCommits, RdEndsEmpty DEF RdEvaluate
<1>5. CASE UNCHANGED rdVars
    BY <1>5, RdOutside DEF RdIInv, RdTypeOK, rdVars, rdPresence, rdAlerts
<1> QED BY <1>1, <1>2, <1>3, <1>4, <1>5 DEF RdNext

\* Nobody is notified twice of the same thing, or of an escalation after the
\* all-clear, however many evaluators run at once: the project's advisory lock
\* makes the events of every occurrence one story (evaluate_project).
THEOREM AlertsToldOnce == RdSpec => [](RdTypeOK /\ RdNotifiedOnce)
<1>1. RdIInv => RdTypeOK /\ RdNotifiedOnce
    BY DEF RdIInv, RdTold, RdNotifiedOnce
<1> QED BY <1>1, RdInitially, RdInvariantStep, PTL DEF RdSpec
=============================================================================
