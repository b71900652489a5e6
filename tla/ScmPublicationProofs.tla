------------------------ MODULE ScmPublicationProofs ------------------------
(***************************************************************************)
(* What holds of an SCM publication for every set of workers, every limit, *)
(* every lease and timeout and any number of crashes.                      *)
(*                                                                         *)
(* The inductive invariant adds to the properties who holds the lease: a   *)
(* worker holding the current token is the row's owner and the worker of   *)
(* the attempt's row.  Nothing in it says that a lease outlasts the call   *)
(* made under it.  From it follows as well that the publication implements *)
(* a lease queue (LeaseQueue).                                             *)
(***************************************************************************)
EXTENDS ScmPublication, TLAPS

\* Who holds which lease token.
Holding ==
    \A w \in Workers : phase[w] # "idle" =>
        /\ held[w] \in 1..attemptCount
        /\ (status = "claimed" /\ held[w] = token) =>
              /\ owner = w
              /\ ledger[attemptCount].status = "claimed" => ledger[attemptCount].worker = w

\* What a failure leaves for its retry.
Scheduling ==
    /\ status = "absent" => attemptCount = 0
    /\ status = "failed" =>
          \/ ledger[attemptCount].status = "missing" /\ failure # "retryable"
          \/ /\ ledger[attemptCount].status = "failed"
             /\ ledger[attemptCount].worker \in Workers
             /\ retryLimit \in {0, Limit[ledger[attemptCount].worker]}
    /\ status = "claimed" => owner \in Workers

\* Cancelled attempts lie in the past or wait for an operator.
Cancelling ==
    \A i \in cancelled :
        /\ i \in 1..attemptCount
        /\ i = attemptCount => status = "pending" \/ (status = "failed" /\ nextIn = Unscheduled)

\* Rows are missing only at the beginning of the ledger, and say nothing.
MissingFirst ==
    \A i \in 1..attemptCount : ledger[i].status = "missing" =>
        /\ ledger[i].trigger = "none"
        /\ i > 1 => ledger[i - 1].status = "missing"

Inv ==
    /\ MissingFirst
    /\ TypeOK /\ LedgerAgrees /\ Holding /\ Scheduling /\ Cancelling
    /\ TriggersExplain /\ AutomaticBounded /\ CancelledStaysCancelled

-----------------------------------------------------------------------------
LEMMA DelayIsInt == ASSUME NEW w \in Workers PROVE NextAttemptIn(w) \in Int
<1>1. RetryDelay(held[w]) \in 0..MaxDelay
  BY TimeAssumption DEF RetryDelay
<1> QED
  BY <1>1, TimeAssumption DEF NextAttemptIn, Unscheduled

LEMMA LaterIsInt == \A t \in Int : Later(t) \in Int /\ (t \in Nat => Later(t) \in Nat)
BY DEF Later

LEMMA TypeInit == Init => TypeOK
<1> SUFFICES ASSUME Init PROVE TypeOK
  OBVIOUS
<1>1. attemptCount \in Nat
  BY BoundAssumption DEF Init
<1>2. MissingRow \in Row
  BY DEF MissingRow, Row, Triggers, Failures
<1>3. ledger \in Seq(Row)
  BY <1>1, <1>2 DEF Init
<1>4. status \in Statuses /\ owner \in Workers \cup {NoWorker} /\ token \in Nat /\ leaseLeft \in Nat
  BY <1>1, TimeAssumption DEF Init, Statuses
<1>5. /\ phase \in [Workers -> Phases] /\ held \in [Workers -> Nat]
      /\ left \in [Workers -> Int] /\ outcome \in [Workers -> Outcomes]
      /\ commit \in [Workers -> Nat]
  BY <1>4, TimeAssumption DEF Init, Phases, Outcomes
<1>6. /\ retryLimit \in 0..MaxAutomaticRetryLimit /\ failure \in Failures /\ nextIn \in Int
      /\ released \in BOOLEAN /\ manual \in Nat /\ faults \in Nat /\ cancelled \subseteq Nat
  <2>1. /\ retryLimit = 0 /\ failure = "none" /\ nextIn = Unscheduled /\ released = FALSE
        /\ manual = 0 /\ faults = 0 /\ cancelled = {}
    BY DEF Init
  <2>2. released \in BOOLEAN
    BY <2>1, Zenon
  <2> QED
    BY <2>1, <2>2 DEF Unscheduled, MaxAutomaticRetryLimit, Failures
<1>7. head \in Nat /\ branch \in Nat /\ stray \subseteq Nat /\ published \in Nat
  BY DEF Init
<1> QED
  BY <1>1, <1>3, <1>4, <1>5, <1>6, <1>7 DEF TypeOK

LEMMA TypeNext == Inv /\ [Next]_vars => TypeOK'
<1> SUFFICES ASSUME Inv, [Next]_vars PROVE TypeOK'
  OBVIOUS
<1> USE DEF TypeOK, Statuses, Failures, Phases, Outcomes, Unscheduled, MaxAutomaticRetryLimit
<1>0. TypeOK
  BY DEF Inv
<1>13. ASSUME NEW w \in Workers, Idle(w)
       PROVE  /\ phase' \in [Workers -> Phases] /\ held' \in [Workers -> Nat]
              /\ left' \in [Workers -> Int] /\ outcome' \in [Workers -> Outcomes]
              /\ commit' \in [Workers -> Nat]
  BY <1>0, <1>13 DEF Idle
<1>14. ASSUME NEW w \in Workers, MayGoOnPushing(w)
       PROVE  branch' \in Nat /\ stray' \subseteq Nat
  BY <1>0, <1>14 DEF MayGoOnPushing
<1>1. CASE Request
  BY <1>0, <1>1 DEF Request, worker, repository
<1>2. CASE Retry
  <2>1. /\ status' = "pending" /\ owner' = NoWorker /\ token' = 0 /\ leaseLeft' = 0
        /\ failure' = "none" /\ retryLimit' = 0 /\ nextIn' = Unscheduled /\ manual' = manual + 1
        /\ UNCHANGED <<attemptCount, ledger, released, worker, repository, published, faults, cancelled>>
    BY <1>2 DEF Retry
  <2> QED
    BY <1>0, <2>1 DEF worker, repository
<1>3. CASE CancelAutomaticRetry
  <2>1. cancelled' \subseteq Nat
    BY <1>0, <1>3 DEF CancelAutomaticRetry
  <2> QED
    BY <1>0, <1>3, <2>1 DEF CancelAutomaticRetry, worker, repository
<1>4. CASE ReleaseWorkspace \/ CommitToWorkspace
  <2>1. /\ UNCHANGED <<publication, ledger, worker, branch, stray, published, manual, faults, cancelled>>
        /\ released' \in BOOLEAN /\ head' \in Nat
    <3>1. CASE ReleaseWorkspace
      BY <1>0, <3>1 DEF ReleaseWorkspace, repository
    <3>2. CASE CommitToWorkspace
      BY <1>0, <3>2 DEF CommitToWorkspace
    <3> QED
      BY <1>4, <3>1, <3>2
  <2> QED
    BY <1>0, <2>1 DEF worker, publication
<1>5. ASSUME NEW w \in Workers, Claim(w) PROVE TypeOK'
  <2>1. [trigger |-> ClaimTrigger, worker |-> w, status |-> "claimed", failure |-> "none"] \in Row
    BY DEF Row, Triggers, ClaimTrigger, Failures
  <2>2. ledger' \in Seq(Row)
    BY <1>0, <1>5, <2>1 DEF Claim
  <2> QED
    BY <1>0, <1>5, <2>2, TimeAssumption DEF Claim, repository
<1>6. ASSUME NEW w \in Workers, NEW r \in Outcomes, Resolve(w, r),
             branch' \in Nat, stray' \subseteq Nat
      PROVE  TypeOK'
  BY <1>0, <1>6, DelayIsInt DEF Resolve, publication
<1>7. ASSUME NEW w \in Workers, Prepare(w) PROVE TypeOK'
  <2>1. CASE released /\ Resolve(w, "fatal") /\ UNCHANGED <<branch, stray>>
    BY <1>0, <1>6, <2>1
  <2>2. CASE /\ phase' = [phase EXCEPT ![w] = "pushing"]
             /\ left' = [left EXCEPT ![w] = Timeout]
             /\ commit' = [commit EXCEPT ![w] = head]
             /\ UNCHANGED <<publication, ledger, released, held, outcome, repository, published,
                            manual, faults, cancelled>>
    BY <1>0, <2>2, TimeAssumption DEF publication, repository
  <2> QED
    BY <1>7, <2>1, <2>2 DEF Prepare
<1>8. ASSUME NEW w \in Workers, Publish(w) \/ TimeOut(w) \/ PushFails(w) PROVE TypeOK'
  <2>1. PICK r \in Outcomes : Resolve(w, r)
    BY <1>8 DEF Publish, TimeOut, PushFails
  <2>2. branch' \in Nat /\ stray' \subseteq Nat
    BY <1>0, <1>8, <1>14 DEF Publish, TimeOut, PushFails
  <2> QED
    BY <1>6, <2>1, <2>2
<1>15. ASSUME NEW w \in Workers, Push(w) PROVE TypeOK'
  BY <1>0, <1>15 DEF Push, publication
<1>16. CASE StrayPush
  BY <1>0, <1>16 DEF StrayPush, publication, worker
<1>9. ASSUME NEW w \in Workers, Succeed(w) \/ Fail(w) PROVE TypeOK'
  <2>1. PICK s \in {"succeeded", "failed"}, f \in Failures : FinishAttempt(s, f)
    BY <1>9 DEF Succeed, Fail
  <2>2. \A row \in Row : FinishedRow(row, s, f) \in Row
    BY <1>0 DEF FinishedRow, Row, Triggers
  <2>3. ledger' \in Seq(Row)
    <3>1. ledger \in Seq(Row) /\ DOMAIN ledger = 1..Len(ledger) /\ attemptCount \in Nat
      BY <1>0
    <3>2. \A i \in 1..Len(ledger) : ledger[i] \in Row
      BY <3>1
    <3>3. attemptCount \in 1..Len(ledger)
      BY <1>0, <1>9 DEF Inv, LedgerAgrees, Succeed, Fail, Owns
    <3> QED
      BY <2>1, <2>2, <3>1, <3>2, <3>3 DEF FinishAttempt
  <2>4. /\ Idle(w) /\ published' \in Nat
        /\ UNCHANGED <<released, owner, token, attemptCount, repository, manual, faults, cancelled>>
    BY <1>0, <1>9 DEF Succeed, Fail
  <2>5. status' \in Statuses /\ leaseLeft' \in Nat
    BY <1>9 DEF Succeed, Fail
  <2>6. failure' \in Failures
    BY <1>9 DEF Succeed, Fail
  <2>7. nextIn' \in Int /\ retryLimit' \in 0..MaxAutomaticRetryLimit
    BY <1>0, <1>9, WorkerAssumption, SMTT(30) DEF Succeed, Fail
  <2> QED
    BY <1>0, <1>13, <2>3, <2>4, <2>5, <2>6, <2>7 DEF repository
<1>10. ASSUME NEW w \in Workers, Rejected(w) \/ Crash(w) PROVE TypeOK'
  <2>1. /\ Idle(w) /\ UNCHANGED <<publication, ledger, released, head, published, manual, cancelled>>
        /\ faults' \in Nat /\ branch' \in Nat /\ stray' \subseteq Nat
    <3>1. CASE Rejected(w)
      BY <1>0, <3>1 DEF Rejected, repository
    <3>2. CASE Crash(w)
      BY <1>0, <1>14, <3>2 DEF Crash
    <3> QED
      BY <1>10, <3>1, <3>2
  <2> QED
    BY <1>0, <1>13, <2>1 DEF publication
<1>11. CASE Tick
  <2>1. left' \in [Workers -> Int]
    BY <1>0, <1>11, LaterIsInt DEF Tick
  <2>2. leaseLeft' \in Nat /\ nextIn' \in Int /\ faults' \in Nat
    BY <1>0, <1>11, LaterIsInt DEF Tick
  <2> QED
    BY <1>0, <1>11, <2>1, <2>2 DEF Tick, repository
<1>12. CASE UNCHANGED vars
  BY <1>0, <1>12 DEF vars, publication, worker, repository
<1> QED
  BY <1>1, <1>2, <1>3, <1>4, <1>5, <1>7, <1>8, <1>9, <1>10, <1>11, <1>12, <1>15, <1>16
     DEF Next, Step

-----------------------------------------------------------------------------
LEMMA InvInit == Init => Inv
<1> SUFFICES ASSUME Init PROVE Inv
  OBVIOUS
<1>1. TypeOK
  BY TypeInit
<1>2. /\ Len(ledger) = attemptCount /\ attemptCount \in Nat
      /\ \A i \in 1..attemptCount : ledger[i] = MissingRow
  BY <1>1 DEF Init, TypeOK
<1>3. MissingRow.status = "missing" /\ MissingRow.trigger = "none"
  BY DEF MissingRow
<1>4. LedgerAgrees
  BY <1>2, <1>3 DEF Init, LedgerAgrees
<1>5. Holding
  BY <1>1, <1>2, <1>3 DEF Init, Holding, LegacyHolder
<1>7. Scheduling
  BY <1>2, <1>3 DEF Init, Scheduling
<1>8. Cancelling /\ CancelledStaysCancelled
  BY DEF Init, Cancelling, CancelledStaysCancelled
<1>9. TriggersExplain /\ AutomaticBounded /\ MissingFirst
  BY <1>2, <1>3 DEF TriggersExplain, AutomaticBounded, MissingFirst
<1> QED
  BY <1>1, <1>4, <1>5, <1>7, <1>8, <1>9 DEF Inv

\* Steps that leave the publication and its ledger alone.
LEMMA RowUnchanged ==
    ASSUME Inv, TypeOK', Holding', UNCHANGED <<publication, ledger, cancelled>>
    PROVE  Inv'
<1>1. UNCHANGED <<status, owner, token, leaseLeft, attemptCount, retryLimit, failure, nextIn, ledger, cancelled>>
  BY DEF publication
<1>2. LedgerAgrees'
  BY <1>1 DEF Inv, LedgerAgrees
<1>3. Scheduling'
  BY <1>1 DEF Inv, Scheduling
<1>4. Cancelling' /\ CancelledStaysCancelled'
  BY <1>1 DEF Inv, Cancelling, CancelledStaysCancelled
<1>5. TriggersExplain' /\ AutomaticBounded' /\ MissingFirst'
  BY <1>1 DEF Inv, TriggersExplain, AutomaticBounded, MissingFirst
<1> QED
  BY <1>2, <1>3, <1>4, <1>5 DEF Inv

\* Steps of a worker that keeps its token, or drops it to be idle.
LEMMA WorkerKeeps ==
    ASSUME Inv, TypeOK', NEW w \in Workers,
           \/ phase[w] # "idle" /\ UNCHANGED held
           \/ Idle(w),
           \A v \in Workers : v # w => phase'[v] = phase[v],
           UNCHANGED <<publication, ledger, cancelled>>
    PROVE  Inv'
<1>1. UNCHANGED <<status, owner, token, attemptCount, ledger>>
  BY DEF publication
<1>2. Holding'
  BY <1>1 DEF Inv, TypeOK, Idle, Holding
<1> QED
  BY <1>2, RowUnchanged

LEMMA CallKeeps ==
    ASSUME Inv, TypeOK', NEW w \in Workers,
           \/ Prepare(w) \/ Push(w) \/ PushFails(w) \/ Publish(w) \/ TimeOut(w)
           \/ Rejected(w) \/ Crash(w)
    PROVE  Inv'
<1>1. UNCHANGED <<publication, ledger, cancelled>>
  BY DEF Prepare, Push, PushFails, Publish, TimeOut, Resolve, Rejected, Crash
<1>2. (phase[w] # "idle" /\ UNCHANGED held) \/ Idle(w)
  BY DEF Prepare, Push, PushFails, Publish, TimeOut, Resolve, Rejected, Crash
<1>3. \A v \in Workers : v # w => phase'[v] = phase[v]
  BY DEF Prepare, Push, PushFails, Publish, TimeOut, Resolve, Rejected, Crash, Idle, Inv, TypeOK
<1> QED
  BY <1>1, <1>2, <1>3, WorkerKeeps

LEMMA RequestKeeps == ASSUME Inv, TypeOK', Request PROVE Inv'
<1>1. /\ status = "absent" /\ status' = "pending"
      /\ UNCHANGED <<owner, token, leaseLeft, attemptCount, retryLimit, failure, nextIn,
                     ledger, phase, held, left, cancelled>>
  BY DEF Request, worker
<1>2. LedgerAgrees'
  BY <1>1 DEF Inv, LedgerAgrees, Scheduling
<1>3. Holding'
  BY <1>1 DEF Inv, Holding
<1>4. Scheduling' /\ Cancelling'
  BY <1>1 DEF Inv, Scheduling, Cancelling
<1>5. TriggersExplain' /\ AutomaticBounded' /\ CancelledStaysCancelled' /\ MissingFirst'
  BY <1>1 DEF Inv, TriggersExplain, AutomaticBounded, CancelledStaysCancelled, MissingFirst
<1> QED
  BY <1>2, <1>3, <1>4, <1>5 DEF Inv

LEMMA RetryKeeps == ASSUME Inv, TypeOK', Retry PROVE Inv'
<1>1. /\ status = "failed" /\ status' = "pending"
      /\ UNCHANGED <<attemptCount, ledger, phase, held, left, cancelled>>
  BY DEF Retry, worker
<1>2. LedgerAgrees'
  BY <1>1 DEF Inv, LedgerAgrees
<1>3. Holding'
  BY <1>1 DEF Inv, Holding
<1>4. Scheduling' /\ Cancelling'
  BY <1>1 DEF Inv, Scheduling, Cancelling
<1>5. TriggersExplain' /\ AutomaticBounded' /\ CancelledStaysCancelled' /\ MissingFirst'
  BY <1>1 DEF Inv, TriggersExplain, AutomaticBounded, CancelledStaysCancelled, MissingFirst
<1> QED
  BY <1>2, <1>3, <1>4, <1>5 DEF Inv

LEMMA CancelKeeps == ASSUME Inv, TypeOK', CancelAutomaticRetry PROVE Inv'
<1>1. /\ status = "failed" /\ nextIn' = Unscheduled /\ retryLimit' = 0
      /\ cancelled' = cancelled \cup {attemptCount}
      /\ UNCHANGED <<status, owner, token, leaseLeft, attemptCount, failure,
                     ledger, phase, held, left>>
  BY DEF CancelAutomaticRetry, worker
<1>2. attemptCount \in Nat /\ attemptCount > 0 /\ Len(ledger) = attemptCount
  BY <1>1 DEF Inv, LedgerAgrees, TypeOK
<1>3. LedgerAgrees'
  BY <1>1 DEF Inv, LedgerAgrees
<1>4. Holding'
  BY <1>1 DEF Inv, Holding
<1>5. Scheduling'
  BY <1>1 DEF Inv, Scheduling
<1>6. Cancelling'
  BY <1>1, <1>2 DEF Inv, Cancelling
<1>7. TriggersExplain' /\ AutomaticBounded' /\ MissingFirst'
  BY <1>1 DEF Inv, TriggersExplain, AutomaticBounded, MissingFirst
<1>8. CancelledStaysCancelled'
  BY <1>1, <1>2 DEF Inv, CancelledStaysCancelled
<1> QED
  BY <1>3, <1>4, <1>5, <1>6, <1>7, <1>8 DEF Inv

LEMMA TickKeeps == ASSUME Inv, TypeOK', Tick PROVE Inv'
<1>1. /\ leaseLeft' = Later(leaseLeft) /\ nextIn' = Later(nextIn)
      /\ left' = [w \in Workers |-> Later(left[w])]
      /\ UNCHANGED <<status, owner, token, attemptCount, retryLimit, failure, ledger,
                     phase, held, cancelled>>
  BY DEF Tick
<1>2. nextIn = Unscheduled => nextIn' = Unscheduled
  BY <1>1 DEF Later, Unscheduled
<1>3. LedgerAgrees' /\ Holding'
  BY <1>1 DEF Inv, LedgerAgrees, Holding
<1>5. Scheduling' /\ Cancelling'
  BY <1>1, <1>2 DEF Inv, Scheduling, Cancelling
<1>6. TriggersExplain' /\ AutomaticBounded' /\ CancelledStaysCancelled' /\ MissingFirst'
  BY <1>1 DEF Inv, TriggersExplain, AutomaticBounded, CancelledStaysCancelled, MissingFirst
<1> QED
  BY <1>3, <1>5, <1>6 DEF Inv

-----------------------------------------------------------------------------
\* A claim adds a row for the attempt it counts.
LEMMA ClaimRow ==
    ASSUME Inv, NEW w \in Workers, Claim(w)
    PROVE  /\ attemptCount \in Nat /\ attemptCount' = attemptCount + 1
           /\ Len(ledger) = attemptCount /\ Len(ledger') = attemptCount + 1
           /\ \A i \in 1..attemptCount : ledger'[i] = ledger[i]
           /\ ledger'[attemptCount + 1] =
                 [trigger |-> ClaimTrigger, worker |-> w, status |-> "claimed", failure |-> "none"]
<1>1. ledger \in Seq(Row) /\ attemptCount \in Nat /\ Len(ledger) = attemptCount
  BY DEF Inv, TypeOK, LedgerAgrees
<1> DEFINE row == [trigger |-> ClaimTrigger, worker |-> w, status |-> "claimed", failure |-> "none"]
<1>2. ledger' = Append(ledger, row) /\ attemptCount' = attemptCount + 1
  BY DEF Claim
<1> HIDE DEF row
<1>3. /\ Len(ledger') = attemptCount + 1 /\ ledger'[attemptCount + 1] = row
      /\ \A i \in 1..attemptCount : ledger'[i] = ledger[i]
  BY <1>1, <1>2
<1> QED
  BY <1>1, <1>2, <1>3 DEF row

\* What a claim finds, by its trigger.
LEMMA ClaimFinds ==
    ASSUME Inv, Claimable
    PROVE  /\ \/ /\ ClaimTrigger = "lease_recovery"
                 /\ status = "claimed" /\ leaseLeft = 0
              \/ /\ ClaimTrigger = "automatic" /\ ScheduledRetry
              \/ /\ ClaimTrigger = "manual" /\ status = "pending" /\ attemptCount > 0
              \/ /\ ClaimTrigger = "initial" /\ status = "pending" /\ attemptCount = 0
           /\ attemptCount \in Nat
<1>1. attemptCount \in Nat
  BY DEF Inv, TypeOK
<1>2. CASE LeaseExpired
  BY <1>1, <1>2 DEF LeaseExpired, ClaimTrigger
<1>3. CASE ScheduledRetry
  BY <1>1, <1>3 DEF LeaseExpired, ScheduledRetry, ClaimTrigger
<1>4. CASE status = "pending"
  BY <1>1, <1>4 DEF LeaseExpired, ClaimTrigger
<1> QED
  BY <1>2, <1>3, <1>4 DEF Claimable

LEMMA ClaimKeeps == ASSUME Inv, TypeOK', NEW w \in Workers, Claim(w) PROVE Inv'
<1>1. /\ attemptCount \in Nat /\ attemptCount' = attemptCount + 1
      /\ Len(ledger) = attemptCount /\ Len(ledger') = attemptCount + 1
      /\ \A i \in 1..attemptCount : ledger'[i] = ledger[i]
  BY ClaimRow
<1>2. /\ ledger'[attemptCount'].trigger = ClaimTrigger /\ ledger'[attemptCount'].worker = w
      /\ ledger'[attemptCount'].status = "claimed"
  <2>1. ledger'[attemptCount + 1] =
           [trigger |-> ClaimTrigger, worker |-> w, status |-> "claimed", failure |-> "none"]
    BY ClaimRow
  <2> QED
    BY <1>1, <2>1
<1>3. /\ Claimable /\ phase[w] = "idle"
      /\ status' = "claimed" /\ owner' = w /\ token' = attemptCount + 1
      /\ leaseLeft' = LeaseSeconds /\ cancelled' = cancelled
      /\ phase' = [phase EXCEPT ![w] = "preparing"]
      /\ held' = [held EXCEPT ![w] = attemptCount + 1]
      /\ left' = [left EXCEPT ![w] = MaxPrep]
  BY DEF Claim
<1>4. /\ ClaimTrigger = "lease_recovery" => status = "claimed" /\ leaseLeft = 0
      /\ ClaimTrigger = "automatic" => ScheduledRetry
      /\ ClaimTrigger = "manual" => status = "pending" /\ attemptCount > 0
      /\ ClaimTrigger = "initial" => status = "pending" /\ attemptCount = 0
      /\ ClaimTrigger \in {"lease_recovery", "automatic", "manual", "initial"}
  BY <1>3, ClaimFinds
<1>6. LedgerAgrees'
  <2>1. \A i \in 1..attemptCount : ledger[i].status # "succeeded"
    BY <1>3 DEF Inv, LedgerAgrees, Claimable, LeaseExpired, ScheduledRetry
  <2> QED
    BY <1>1, <1>2, <1>3, <2>1 DEF LedgerAgrees
<1>7. Holding'
  <2> SUFFICES ASSUME NEW v \in Workers, phase'[v] # "idle"
               PROVE  /\ held'[v] \in 1..(attemptCount + 1)
                      /\ held'[v] = token' => v = w
    BY <1>1, <1>2, <1>3 DEF Holding
  <2>1. CASE v = w
    BY <1>1, <1>3, <2>1 DEF Inv, TypeOK
  <2>2. CASE v # w
    <3>1. /\ phase \in [Workers -> Phases] /\ held \in [Workers -> Nat]
      BY DEF Inv, TypeOK
    <3>2. phase[v] # "idle" /\ held'[v] = held[v] /\ held[v] \in 1..attemptCount
      BY <1>3, <2>2, <3>1 DEF Inv, Holding
    <3> QED
      BY <1>1, <1>3, <3>2
  <2> QED
    BY <2>1, <2>2
<1>9. Scheduling'
  BY <1>3 DEF Scheduling
<1>10. Cancelling'
  BY <1>1, <1>3 DEF Inv, Cancelling
<1>11. TriggersExplain'
  <2> SUFFICES ASSUME NEW i \in 1..(attemptCount + 1)
               PROVE  /\ ledger'[i].trigger = "initial" => i = 1
                      /\ ledger'[i].trigger \in {"manual", "automatic"} => i > 1
                      /\ (i > 1 /\ ledger'[i - 1].status # "missing") =>
                           /\ ledger'[i].trigger \in {"manual", "automatic"} => ledger'[i - 1].status = "failed"
                           /\ ledger'[i].trigger = "automatic" => ledger'[i - 1].failure = "retryable"
                           /\ ledger'[i].trigger = "lease_recovery" => ledger'[i - 1].status = "claimed"
    BY <1>1 DEF TriggersExplain
  <2>1. CASE i \in 1..attemptCount
    <3>1. ledger'[i] = ledger[i] /\ (i > 1 => ledger'[i - 1] = ledger[i - 1])
      BY <1>1, <2>1
    <3> QED
      BY <1>1, <2>1, <3>1 DEF Inv, TriggersExplain
  <2>2. CASE i = attemptCount + 1
    <3>1. ledger'[i].trigger = ClaimTrigger /\ (i > 1 => ledger'[i - 1] = ledger[attemptCount])
      BY <1>1, <1>2, <2>2
    <3>2. i > 1 => attemptCount > 0
      BY <1>1, <2>2
    <3>3. status \in {"claimed", "pending", "failed"}
      BY <1>3 DEF Claimable, LeaseExpired, ScheduledRetry
    <3>4. i > 1 => /\ status = "claimed" => ledger[attemptCount].status \in {"claimed", "missing"}
                   /\ status = "failed" => ledger[attemptCount].status \in {"failed", "missing"}
                   /\ status = "pending" => ledger[attemptCount].status \in {"failed", "missing"}
                   /\ (status = "failed" /\ ledger[attemptCount].status = "failed") => ledger[attemptCount].failure = failure
      BY <3>2 DEF Inv, LedgerAgrees
    <3>5. ScheduledRetry => status = "failed" /\ failure = "retryable" /\ attemptCount > 0
      BY DEF ScheduledRetry, Inv, LedgerAgrees
    <3> QED
      BY <1>1, <1>4, <2>2, <3>1, <3>3, <3>4, <3>5
  <2> QED
    BY <1>1, <2>1, <2>2
<1>12. AutomaticBounded'
  <2> SUFFICES ASSUME NEW i \in 1..(attemptCount + 1), ledger'[i].trigger = "automatic"
               PROVE  /\ i > 1 /\ ledger'[i - 1].worker \in Workers
                      /\ i <= Limit[ledger'[i - 1].worker] + 1
    BY <1>1 DEF AutomaticBounded
  <2>1. CASE i \in 1..attemptCount
    <3>1. ledger'[i] = ledger[i] /\ (i > 1 => ledger'[i - 1] = ledger[i - 1])
      BY <1>1, <2>1
    <3> QED
      BY <1>1, <2>1, <3>1 DEF Inv, AutomaticBounded
  <2>2. CASE i = attemptCount + 1
    <3>1. ScheduledRetry
      BY <1>2, <1>4, <1>1, <2>2
    <3>2. attemptCount > 0 /\ attemptCount <= retryLimit
      BY <3>1 DEF ScheduledRetry, Inv, LedgerAgrees
    <3>3. /\ ledger[attemptCount].worker \in Workers
          /\ retryLimit \in {0, Limit[ledger[attemptCount].worker]}
      BY <3>1 DEF ScheduledRetry, Inv, Scheduling
    <3>4. ledger'[i - 1] = ledger[attemptCount]
      BY <1>1, <2>2, <3>2
    <3> QED
      BY <1>1, <2>2, <3>2, <3>3, <3>4
  <2> QED
    BY <1>1, <2>1, <2>2
<1>13. CancelledStaysCancelled'
  <2> SUFFICES ASSUME NEW i \in cancelled, i < attemptCount + 1
               PROVE  ledger'[i + 1].trigger = "manual"
    BY <1>1, <1>3 DEF CancelledStaysCancelled
  <2>0. i \in 1..attemptCount
    BY DEF Inv, Cancelling
  <2>1. CASE i < attemptCount
    <3>1. ledger'[i + 1] = ledger[i + 1]
      BY <1>1, <2>0, <2>1
    <3> QED
      BY <1>1, <2>0, <2>1, <3>1 DEF Inv, CancelledStaysCancelled
  <2>2. CASE i = attemptCount
    <3>1. status = "pending"
      BY <1>3, <2>2 DEF Inv, Cancelling, Claimable, LeaseExpired, ScheduledRetry, Unscheduled
    <3> QED
      BY <1>1, <1>2, <1>4, <2>0, <2>2, <3>1 DEF ScheduledRetry
  <2> QED
    BY <1>1, <2>0, <2>1, <2>2
<1>14. MissingFirst'
  BY <1>1, <1>2 DEF Inv, MissingFirst
<1> QED
  BY <1>6, <1>7, <1>9, <1>10, <1>11, <1>12, <1>13, <1>14 DEF Inv

-----------------------------------------------------------------------------
\* A report is accepted from the holder of the lease only, and closes the row
\* of the current attempt.
LEMMA FinishRow ==
    ASSUME Inv, NEW w \in Workers, phase[w] = "reporting", Owns(w), NEW s, NEW f, FinishAttempt(s, f)
    PROVE  /\ attemptCount \in Nat /\ attemptCount > 0 /\ status = "claimed"
           /\ held[w] = attemptCount /\ token = attemptCount /\ owner = w
           /\ Len(ledger) = attemptCount /\ Len(ledger') = Len(ledger)
           /\ \A i \in 1..attemptCount : i # attemptCount => ledger'[i] = ledger[i]
           /\ ledger'[attemptCount] = FinishedRow(ledger[attemptCount], s, f)
           /\ ledger'[attemptCount].status = s /\ ledger'[attemptCount].failure = f
           /\ ledger'[attemptCount].worker = w
           /\ ledger[attemptCount].status \in {"missing", "claimed"}
           /\ \/ ledger'[attemptCount].trigger = ledger[attemptCount].trigger
              \/ /\ ledger'[attemptCount].trigger = "lease_recovery"
                 /\ ledger[attemptCount].status = "missing"
<1>1. status = "claimed" /\ token = held[w] /\ ledger[attemptCount].status \in {"missing", "claimed"}
  BY DEF Owns
<1>2. /\ attemptCount \in Nat /\ attemptCount > 0 /\ token = attemptCount /\ Len(ledger) = attemptCount
      /\ ledger \in Seq(Row)
  BY <1>1 DEF Inv, TypeOK, LedgerAgrees
<1>3. owner = w /\ (ledger[attemptCount].status = "claimed" => ledger[attemptCount].worker = w)
  BY <1>1 DEF Inv, Holding
<1> DEFINE row == FinishedRow(ledger[attemptCount], s, f)
<1>4. ledger' = [ledger EXCEPT ![attemptCount] = row]
  BY DEF FinishAttempt
<1>5. /\ row.status = s /\ row.failure = f /\ row.worker = w
      /\ \/ row.trigger = ledger[attemptCount].trigger
         \/ row.trigger = "lease_recovery" /\ ledger[attemptCount].status = "missing"
  BY <1>1, <1>3 DEF FinishedRow
<1> HIDE DEF row
<1>6. /\ Len(ledger') = Len(ledger) /\ ledger'[attemptCount] = row
      /\ \A i \in 1..attemptCount : i # attemptCount => ledger'[i] = ledger[i]
  BY <1>2, <1>4
<1>7. row = FinishedRow(ledger[attemptCount], s, f)
  BY DEF row
<1> QED
  BY <1>1, <1>2, <1>3, <1>5, <1>6, <1>7

LEMMA FinishKeeps ==
    ASSUME Inv, TypeOK', NEW w \in Workers, Succeed(w) \/ Fail(w)
    PROVE  Inv'
<1>0. PICK s \in {"succeeded", "failed"}, f \in Failures :
         /\ phase[w] = "reporting" /\ Owns(w) /\ FinishAttempt(s, f)
         /\ status' = s /\ failure' = f /\ Idle(w)
         /\ s = "failed" => retryLimit' = Limit[w]
         /\ UNCHANGED <<owner, token, attemptCount, cancelled>>
  BY DEF Succeed, Fail, Failures
<1> DEFINE n == attemptCount
<1>1. /\ n \in Nat /\ n > 0 /\ status = "claimed" /\ held[w] = n /\ token = n /\ owner = w
      /\ Len(ledger) = n /\ Len(ledger') = n
      /\ \A i \in 1..n : i # n => ledger'[i] = ledger[i]
      /\ ledger'[n].status = s /\ ledger'[n].failure = f /\ ledger'[n].worker = w
      /\ ledger[n].status \in {"missing", "claimed"}
      /\ \/ ledger'[n].trigger = ledger[n].trigger
         \/ ledger'[n].trigger = "lease_recovery" /\ ledger[n].status = "missing"
  BY <1>0, FinishRow
<1> HIDE DEF n
<1>2. attemptCount = n /\ attemptCount' = n /\ token' = n
  BY <1>0, <1>1 DEF n
<1>3. LedgerAgrees'
  <2>1. \A i \in 1..n : i # n => ledger'[i].status # "succeeded"
    BY <1>1, <1>2 DEF Inv, LedgerAgrees
  <2> QED
    BY <1>0, <1>1, <1>2, <2>1 DEF LedgerAgrees
<1>4. Holding'
  BY <1>0, <1>2 DEF Inv, TypeOK, Idle, Holding
<1>6. Scheduling'
  BY <1>0, <1>1, <1>2 DEF Scheduling
<1>7. Cancelling'
  BY <1>0, <1>1, <1>2 DEF Inv, Cancelling
<1>8. TriggersExplain'
  <2> SUFFICES ASSUME NEW i \in 1..n
               PROVE  /\ ledger'[i].trigger = "initial" => i = 1
                      /\ ledger'[i].trigger \in {"manual", "automatic"} => i > 1
                      /\ (i > 1 /\ ledger'[i - 1].status # "missing") =>
                           /\ ledger'[i].trigger \in {"manual", "automatic"} => ledger'[i - 1].status = "failed"
                           /\ ledger'[i].trigger = "automatic" => ledger'[i - 1].failure = "retryable"
                           /\ ledger'[i].trigger = "lease_recovery" => ledger'[i - 1].status = "claimed"
    BY <1>1 DEF TriggersExplain
  <2>1. i > 1 => ledger'[i - 1] = ledger[i - 1]
    BY <1>1
  <2>2. \/ ledger'[i].trigger = ledger[i].trigger
        \/ /\ ledger'[i].trigger = "lease_recovery" /\ i = n
           /\ ledger[i].status = "missing"
    BY <1>1
  <2>3. (i > 1 /\ ledger[i].status = "missing") => ledger[i - 1].status = "missing"
    BY <1>1, <1>2 DEF Inv, MissingFirst
  <2> QED
    BY <1>1, <1>2, <2>1, <2>2, <2>3 DEF Inv, TriggersExplain
<1>9. AutomaticBounded'
  <2> SUFFICES ASSUME NEW i \in 1..n, ledger'[i].trigger = "automatic"
               PROVE  /\ i > 1 /\ ledger'[i - 1].worker \in Workers
                      /\ i <= Limit[ledger'[i - 1].worker] + 1
    BY <1>1 DEF AutomaticBounded
  <2>1. ledger[i].trigger = "automatic"
    BY <1>1
  <2>2. i > 1 => ledger'[i - 1] = ledger[i - 1]
    BY <1>1
  <2> QED
    BY <1>1, <1>2, <2>1, <2>2 DEF Inv, AutomaticBounded
<1>10. CancelledStaysCancelled'
  <2> SUFFICES ASSUME NEW i \in cancelled, i < n PROVE ledger'[i + 1].trigger = "manual"
    BY <1>0, <1>1 DEF CancelledStaysCancelled
  <2>1. i \in 1..n /\ i + 1 \in 1..n
    BY <1>1, <1>2 DEF Inv, Cancelling
  <2>2. ledger[i + 1].trigger = "manual"
    BY <1>1, <2>1 DEF Inv, CancelledStaysCancelled
  <2>3. CASE i + 1 # n
    BY <1>1, <2>1, <2>2, <2>3
  <2>4. CASE i + 1 = n
    <3>1. ledger[n].status # "missing"
      BY <1>1, <1>2, <2>2, <2>4 DEF Inv, MissingFirst
    <3> QED
      BY <1>1, <2>2, <2>4, <3>1
  <2> QED
    BY <2>3, <2>4
<1>11. MissingFirst'
  BY <1>1, <1>2 DEF Inv, MissingFirst
<1> QED
  BY <1>3, <1>4, <1>6, <1>7, <1>8, <1>9, <1>10, <1>11 DEF Inv

-----------------------------------------------------------------------------
LEMMA InvNext == Inv /\ [Next]_vars => Inv'
<1> SUFFICES ASSUME Inv, [Next]_vars PROVE Inv'
  OBVIOUS
<1>0. TypeOK'
  BY TypeNext
<1>1. CASE Request
  BY <1>0, <1>1, RequestKeeps
<1>2. CASE Retry
  BY <1>0, <1>2, RetryKeeps
<1>3. CASE CancelAutomaticRetry
  BY <1>0, <1>3, CancelKeeps
<1>4. CASE ReleaseWorkspace \/ CommitToWorkspace \/ StrayPush \/ UNCHANGED vars
  <2>1. UNCHANGED <<publication, ledger, phase, held, cancelled>>
    BY <1>4 DEF ReleaseWorkspace, CommitToWorkspace, StrayPush, vars, worker
  <2>2. Holding'
    BY <2>1 DEF Inv, Holding, publication
  <2> QED
    BY <1>0, <2>1, <2>2, RowUnchanged
<1>5. ASSUME NEW w \in Workers, Claim(w) PROVE Inv'
  BY <1>0, <1>5, ClaimKeeps
<1>6. ASSUME NEW w \in Workers,
             \/ Prepare(w) \/ Push(w) \/ PushFails(w) \/ Publish(w) \/ TimeOut(w)
             \/ Rejected(w) \/ Crash(w)
      PROVE  Inv'
  BY <1>0, <1>6, CallKeeps
<1>7. ASSUME NEW w \in Workers, Succeed(w) \/ Fail(w) PROVE Inv'
  BY <1>0, <1>7, FinishKeeps
<1>8. CASE Tick
  BY <1>0, <1>8, TickKeeps
<1> QED
  BY <1>1, <1>2, <1>3, <1>4, <1>5, <1>6, <1>7, <1>8 DEF Next, Step

\* The strengthened invariant holds in every reachable state.
THEOREM Invariance == Spec => []Inv
BY InvInit, InvNext, PTL DEF Spec

\* Every variable keeps its type, for all workers, limits and delays.
THEOREM TypeCorrect == Spec => []TypeOK
<1>1. Inv => TypeOK
  BY DEF Inv
<1> QED
  BY <1>1, Invariance, PTL

\* The publication row always summarises its attempt ledger.
THEOREM LedgerConsistency == Spec => []LedgerAgrees
<1>1. Inv => LedgerAgrees
  BY DEF Inv
<1> QED
  BY <1>1, Invariance, PTL

\* Every attempt's trigger is explained by the attempt before it.
THEOREM TriggerHistory == Spec => []TriggersExplain
<1>1. Inv => TriggersExplain
  BY DEF Inv
<1> QED
  BY <1>1, Invariance, PTL

\* Automatic attempts stay within the limit of the worker that failed before.
THEOREM AutomaticLimit == Spec => []AutomaticBounded
<1>1. Inv => AutomaticBounded
  BY DEF Inv
<1> QED
  BY <1>1, Invariance, PTL

\* A cancelled automatic retry never happens.
THEOREM CancelIsFinal == Spec => []CancelledStaysCancelled
<1>1. Inv => CancelledStaysCancelled
  BY DEF Inv
<1> QED
  BY <1>1, Invariance, PTL

-----------------------------------------------------------------------------
\* There is a commit to push, every call that pushes has read one, and only a
\* call that is over has a result.
HasCommit ==
    /\ head > 0
    /\ \A w \in Workers : /\ phase[w] = "pushing" => commit[w] > 0
                          /\ outcome[w] = "published" => phase[w] = "reporting"

\* No push, a stray one neither, takes a commit off the branch.
LEMMA BranchGrows == TypeOK /\ [Next]_vars => branch <= branch'
<1> SUFFICES ASSUME TypeOK, [Next]_vars PROVE branch <= branch'
  OBVIOUS
<1>1. branch \in Nat /\ stray \subseteq Nat /\ commit \in [Workers -> Nat]
  BY DEF TypeOK
<1>2. ASSUME NEW w \in Workers, Push(w) PROVE branch <= branch'
  BY <1>1, <1>2 DEF Push, Accepts
<1>3. CASE StrayPush
  BY <1>1, <1>3 DEF StrayPush, Accepts
<1>4. ASSUME NEW w \in Workers, ~Push(w), Step(w) \/ Crash(w) PROVE branch' = branch
  BY <1>4 DEF Step, Claim, Prepare, PushFails, Publish, TimeOut, MayGoOnPushing, Succeed, Fail,
              Rejected, Crash, repository
<1>5. CASE \/ Request \/ Retry \/ CancelAutomaticRetry \/ ReleaseWorkspace \/ CommitToWorkspace
           \/ Tick \/ UNCHANGED vars
  <2>1. branch' = branch
    BY <1>5 DEF Request, Retry, CancelAutomaticRetry, ReleaseWorkspace, CommitToWorkspace, Tick,
                vars, repository
  <2> QED
    BY <1>1, <2>1
<1> QED
  BY <1>1, <1>2, <1>3, <1>4, <1>5 DEF Next

LEMMA StaysInit == Init => HasCommit /\ PublishedStays
<1> SUFFICES ASSUME Init PROVE HasCommit /\ PublishedStays
  OBVIOUS
<1>1. \A w \in Workers : phase[w] = "pushing" => commit[w] = 1
  BY DEF Init
<1>2. status # "succeeded"
  BY DEF Init
<1>3. \A w \in Workers : phase[w] # "reviewing" /\ outcome[w] # "published"
  BY DEF Init
<1> QED
  BY <1>1, <1>2, <1>3 DEF Init, HasCommit, PublishedStays

\* What a worker's step leaves to its call, and to the other calls.
LEMMA StaysNext ==
    TypeOK /\ HasCommit /\ PublishedStays /\ [Next]_vars => HasCommit' /\ PublishedStays'
<1> SUFFICES ASSUME TypeOK, HasCommit, PublishedStays, [Next]_vars
             PROVE  HasCommit' /\ PublishedStays'
  OBVIOUS
<1>1. /\ branch \in Nat /\ head \in Nat /\ published \in Nat /\ branch <= branch' /\ branch' \in Nat
      /\ commit \in [Workers -> Nat] /\ phase \in [Workers -> Phases]
      /\ outcome \in [Workers -> Outcomes]
  <2>1. branch' \in Nat
    BY DEF TypeOK, Next, Step, Claim, Prepare, Push, PushFails, Publish, TimeOut, MayGoOnPushing,
           Succeed, Fail, Rejected, Crash, Request, Retry, CancelAutomaticRetry, ReleaseWorkspace,
           CommitToWorkspace, StrayPush, Tick, vars, repository
  <2> QED
    BY <2>1, BranchGrows DEF TypeOK
<1>2. CASE UNCHANGED <<worker, head, published>> /\ (status' = "succeeded" => status = "succeeded")
  BY <1>1, <1>2 DEF HasCommit, PublishedStays, worker
<1>3. ASSUME NEW w \in Workers, NEW r, Resolve(w, r), phase[w] = "reviewing" \/ r # "published"
      PROVE  HasCommit' /\ PublishedStays'
  BY <1>1, <1>3 DEF Resolve, HasCommit, PublishedStays, publication
<1>4. ASSUME NEW w \in Workers, Idle(w), UNCHANGED head,
             status' = "succeeded" =>
                \/ published' = commit[w] /\ outcome[w] = "published"
                \/ published' = published /\ status = "succeeded"
      PROVE  HasCommit' /\ PublishedStays'
  BY <1>1, <1>4 DEF Idle, HasCommit, PublishedStays
<1>5. CASE \/ Request \/ Retry \/ CancelAutomaticRetry \/ ReleaseWorkspace \/ StrayPush
           \/ UNCHANGED vars
  BY <1>2, <1>5 DEF Request, Retry, CancelAutomaticRetry, ReleaseWorkspace, StrayPush, vars,
                    publication, repository
<1>6. CASE CommitToWorkspace \/ Tick
  BY <1>1, <1>6 DEF CommitToWorkspace, Tick, HasCommit, PublishedStays, worker, publication,
                    repository
<1>7. ASSUME NEW w \in Workers, Claim(w) PROVE HasCommit' /\ PublishedStays'
  BY <1>1, <1>7 DEF Claim, HasCommit, PublishedStays, repository
<1>8. ASSUME NEW w \in Workers, Prepare(w) PROVE HasCommit' /\ PublishedStays'
  <2>1. CASE Resolve(w, "fatal")
    BY <1>3, <2>1
  <2>2. CASE ~Resolve(w, "fatal")
    <3>1. /\ phase' = [phase EXCEPT ![w] = "pushing"] /\ commit' = [commit EXCEPT ![w] = head]
          /\ phase[w] = "preparing"
          /\ UNCHANGED <<status, outcome, head, branch, published>>
      BY <1>8, <2>2 DEF Prepare, publication, repository
    <3> QED
      BY <1>1, <3>1 DEF HasCommit, PublishedStays
  <2> QED
    BY <2>1, <2>2
<1>9. ASSUME NEW w \in Workers, Push(w) PROVE HasCommit' /\ PublishedStays'
  BY <1>1, <1>9 DEF Push, HasCommit, PublishedStays, publication
<1>10. ASSUME NEW w \in Workers, PushFails(w) \/ Publish(w) \/ TimeOut(w)
       PROVE  HasCommit' /\ PublishedStays'
  BY <1>3, <1>10 DEF PushFails, Publish, TimeOut
<1>11. ASSUME NEW w \in Workers, Succeed(w) \/ Fail(w) \/ Rejected(w) \/ Crash(w)
       PROVE  HasCommit' /\ PublishedStays'
  BY <1>4, <1>11 DEF Succeed, Fail, Rejected, Crash, publication, repository
<1> QED
  BY <1>5, <1>6, <1>7, <1>8, <1>9, <1>10, <1>11 DEF Next, Step

(* For any workers, leases that may lapse in the middle of a call and any  *)
(* number of pushes that outlive their calls, a succeeded publication's    *)
(* commit stays on the branch (publish_review pushes without force).       *)
THEOREM PublicationStays == Spec => []PublishedStays
<1>1. TypeOK /\ HasCommit /\ PublishedStays /\ [Next]_vars => HasCommit' /\ PublishedStays'
  BY StaysNext
<1> QED
  BY <1>1, TypeCorrect, StaysInit, PTL DEF Spec

-----------------------------------------------------------------------------
\* How a step can change the ledger: not at all, by a claim, or by the report
\* of the worker that holds the lease.
LEMMA LedgerSteps ==
    ASSUME Inv, [Next]_vars
    PROVE  \/ ledger' = ledger
           \/ \E w \in Workers : Claim(w)
           \/ \E w \in Workers : \E s, f : /\ phase[w] = "reporting" /\ Owns(w)
                                          /\ FinishAttempt(s, f)
<1>1. CASE UNCHANGED vars
  BY <1>1 DEF vars
<1>2. CASE \/ Request \/ Retry \/ CancelAutomaticRetry \/ ReleaseWorkspace
           \/ CommitToWorkspace \/ StrayPush \/ Tick
  BY <1>2 DEF Request, Retry, CancelAutomaticRetry, ReleaseWorkspace, CommitToWorkspace,
              StrayPush, Tick
<1>3. ASSUME NEW w \in Workers,
             \/ Prepare(w) \/ Push(w) \/ PushFails(w) \/ Publish(w) \/ TimeOut(w)
             \/ Rejected(w) \/ Crash(w)
      PROVE  ledger' = ledger
  BY <1>3 DEF Prepare, Push, PushFails, Publish, TimeOut, Resolve, Rejected, Crash
<1>4. ASSUME NEW w \in Workers, Succeed(w) \/ Fail(w)
      PROVE  \E s, f : phase[w] = "reporting" /\ Owns(w) /\ FinishAttempt(s, f)
  BY <1>4 DEF Succeed, Fail
<1> QED
  BY <1>1, <1>2, <1>3, <1>4 DEF Next, Step

\* A recorded outcome is never rewritten.
THEOREM OutcomesFinal == Spec => OutcomesImmutable
<1> DEFINE A == \A i \in 1..Len(ledger) :
                   ledger[i].status \in {"succeeded", "failed"} => ledger'[i] = ledger[i]
<1>1. Inv /\ [Next]_vars => A
  <2> SUFFICES ASSUME Inv, [Next]_vars PROVE A
    OBVIOUS
  <2>1. CASE ledger' = ledger
    BY <2>1
  <2>2. ASSUME NEW w \in Workers, Claim(w) PROVE A
    <3>1. Len(ledger) = attemptCount /\ \A i \in 1..attemptCount : ledger'[i] = ledger[i]
      BY <2>2, ClaimRow
    <3> QED
      BY <3>1
  <2>3. ASSUME NEW w \in Workers, NEW s, NEW f,
               phase[w] = "reporting", Owns(w), FinishAttempt(s, f)
        PROVE  A
    <3>1. /\ Len(ledger) = attemptCount
          /\ \A i \in 1..attemptCount : i # attemptCount => ledger'[i] = ledger[i]
          /\ ledger[attemptCount].status \in {"missing", "claimed"}
      BY <2>3, FinishRow
    <3> QED
      BY <3>1
  <2> QED
    BY <2>1, <2>2, <2>3, LedgerSteps
<1> HIDE DEF A
<1>2. Spec => [][A]_vars
  BY <1>1, Invariance, PTL DEF Spec
<1> QED
  BY <1>2 DEF A, OutcomesImmutable

\* Only the holder of the lease closes an attempt, and only the latest one.
THEOREM HolderCloses == Spec => ClosedByHolder
<1> DEFINE A == \A i \in 1..Len(ledger) :
                   ledger'[i].status # ledger[i].status =>
                       /\ i = Len(ledger)
                       /\ \E w \in Workers : phase[w] = "reporting" /\ held[w] = i
                                             /\ ledger'[i].worker = w
<1>1. Inv /\ [Next]_vars => A
  <2> SUFFICES ASSUME Inv, [Next]_vars PROVE A
    OBVIOUS
  <2>1. CASE ledger' = ledger
    BY <2>1
  <2>2. ASSUME NEW w \in Workers, Claim(w) PROVE A
    <3>1. Len(ledger) = attemptCount /\ \A i \in 1..attemptCount : ledger'[i] = ledger[i]
      BY <2>2, ClaimRow
    <3> QED
      BY <3>1
  <2>3. ASSUME NEW w \in Workers, NEW s, NEW f,
               phase[w] = "reporting", Owns(w), FinishAttempt(s, f)
        PROVE  A
    <3>1. /\ Len(ledger) = attemptCount /\ held[w] = attemptCount
          /\ \A i \in 1..attemptCount : i # attemptCount => ledger'[i] = ledger[i]
          /\ ledger'[attemptCount].worker = w
      BY <2>3, FinishRow
    <3> QED
      BY <2>3, <3>1
  <2> QED
    BY <2>1, <2>2, <2>3, LedgerSteps
<1> HIDE DEF A
<1>2. Spec => [][A]_vars
  BY <1>1, Invariance, PTL DEF Spec
<1> QED
  BY <1>2 DEF A, ClosedByHolder

-----------------------------------------------------------------------------
(* The publication as a lease queue of one item.                           *)
LeaseFacts == INSTANCE LeaseQueueProofs WITH
    Queue <- 1, Retries <- TRUE,
    status <- Item, leases <- LeaseCount, hold <- Holds

\* An idle worker holds nothing.
AtRest == \A w \in Workers : phase[w] = "idle" => held[w] = 0

LEMMA Rests == TypeOK /\ AtRest /\ [Next]_vars => AtRest'
<1> SUFFICES ASSUME TypeOK, AtRest, [Next]_vars PROVE AtRest'
  OBVIOUS
<1>1. ASSUME NEW w \in Workers, Idle(w) PROVE AtRest'
  BY <1>1 DEF Idle, AtRest, TypeOK
<1>2. ASSUME NEW w \in Workers, NEW p \in {"pushing", "reviewing", "reporting"},
             phase' = [phase EXCEPT ![w] = p], held' = held
      PROVE  AtRest'
  BY <1>2 DEF AtRest, TypeOK
<1>3. ASSUME NEW w \in Workers, Claim(w) PROVE AtRest'
  BY <1>3 DEF Claim, AtRest, TypeOK
<1>4. CASE UNCHANGED <<phase, held>>
  BY <1>4 DEF AtRest
<1>5. ASSUME NEW w \in Workers,
             Prepare(w) \/ Push(w) \/ PushFails(w) \/ Publish(w) \/ TimeOut(w)
      PROVE  AtRest'
  BY <1>2, <1>5 DEF Prepare, Push, PushFails, Publish, TimeOut, Resolve
<1>6. ASSUME NEW w \in Workers, Succeed(w) \/ Fail(w) \/ Rejected(w) \/ Crash(w) PROVE AtRest'
  BY <1>1, <1>6 DEF Succeed, Fail, Rejected, Crash
<1>7. \/ UNCHANGED <<phase, held>>
      \/ \E w \in Workers : Step(w) \/ Crash(w)
  BY DEF Next, vars, worker, Request, Retry, CancelAutomaticRetry, ReleaseWorkspace,
         CommitToWorkspace, StrayPush, Tick
<1> QED
  BY <1>3, <1>4, <1>5, <1>6, <1>7 DEF Step

\* What the publication is to the queue.
LEMMA ItemFacts ==
    ASSUME TypeOK
    PROVE  /\ status \in {"absent", "pending", "succeeded"} => ItemStatus = status
           /\ (status = "failed" /\ nextIn = Unscheduled) => ItemStatus = "failed"
           /\ (status = "failed" /\ nextIn # Unscheduled) => ItemStatus = "retrying"
           /\ (status = "claimed" /\ leaseLeft = 0) => ItemStatus = "lapsed"
           /\ (status = "claimed" /\ leaseLeft # 0) => ItemStatus = "claimed"
           /\ status \in {"absent", "pending", "claimed", "succeeded", "failed"}
BY DEF ItemStatus, LeaseExpired, TypeOK, Statuses

\* A step that does this to the one item and to the count does it to the queue.
LEMMA QueueChanges ==
    /\ Item[1] = ItemStatus /\ LeaseCount[1] = attemptCount
    /\ Item' = [Item EXCEPT ![1] = ItemStatus']
    /\ LeaseCount' = [LeaseCount EXCEPT ![1] = attemptCount']
    /\ ItemStatus' = ItemStatus => Item' = Item
    /\ attemptCount' = attemptCount => LeaseCount' = LeaseCount
    /\ 1 \in Leases!Items
<1>1. Publications = {1} /\ 1 \in Leases!Items
  BY DEF Publications, Leases!Items
<1>2. /\ Item = [i \in {1} |-> ItemStatus] /\ Item' = [i \in {1} |-> ItemStatus']
      /\ LeaseCount = [i \in {1} |-> attemptCount] /\ LeaseCount' = [i \in {1} |-> attemptCount']
  BY <1>1 DEF Item, LeaseCount, Publications
<1>3. /\ Item[1] = ItemStatus /\ LeaseCount[1] = attemptCount
      /\ ItemStatus' = ItemStatus => Item' = Item
      /\ attemptCount' = attemptCount => LeaseCount' = LeaseCount
  BY <1>2
<1>4. Item' = [Item EXCEPT ![1] = ItemStatus']
  BY <1>2
<1>5. LeaseCount' = [LeaseCount EXCEPT ![1] = attemptCount']
  BY <1>2
<1> QED
  BY <1>1, <1>3, <1>4, <1>5

\* What worker w holds.
LEMMA HoldChanges ==
    ASSUME TypeOK, NEW w \in Workers, NEW n \in Nat, held' = [held EXCEPT ![w] = n]
    PROVE  /\ Holds' = [Holds EXCEPT ![w] = [item |-> IF n = 0 THEN 0 ELSE 1, lease |-> n]]
           /\ Holds[w] = [item |-> IF held[w] = 0 THEN 0 ELSE 1, lease |-> held[w]]
BY DEF TypeOK, Holds

\* Operators and time move the item.
LEMMA QueueMoves ==
    ASSUME Inv, TypeOK',
           \/ Request \/ Retry \/ CancelAutomaticRetry \/ ReleaseWorkspace
           \/ CommitToWorkspace \/ StrayPush \/ Tick
    PROVE  [Leases!Next]_(Leases!vars)
<1>1. TypeOK
  BY DEF Inv
<1>2. /\ Holds' = Holds /\ attemptCount' = attemptCount /\ LeaseCount' = LeaseCount
  <2>1. held' = held /\ attemptCount' = attemptCount
    BY DEF Request, Retry, CancelAutomaticRetry, ReleaseWorkspace, CommitToWorkspace, StrayPush,
           Tick, worker, publication
  <2> QED
    BY <2>1, QueueChanges DEF Holds
<1>3. CASE Request
  <2>1. ItemStatus = "absent" /\ ItemStatus' = "pending"
    BY <1>1, <1>3, ItemFacts DEF Request, ItemStatus, LeaseExpired
  <2>2. Leases!Offer(1)
    BY <1>2, <2>1, QueueChanges DEF Leases!Offer
  <2> QED
    BY <2>2, QueueChanges DEF Leases!Next
<1>4. CASE Retry
  <2>1. ItemStatus \in {"failed", "retrying"} /\ ItemStatus' = "pending"
    BY <1>1, <1>4, ItemFacts DEF Retry, ItemStatus, LeaseExpired
  <2>2. Leases!Reopen(1)
    BY <1>2, <2>1, QueueChanges DEF Leases!Reopen
  <2> QED
    BY <2>2, QueueChanges DEF Leases!Next
<1>5. CASE CancelAutomaticRetry
  <2>1. ItemStatus = "retrying" /\ ItemStatus' = "failed"
    BY <1>1, <1>5, ItemFacts DEF CancelAutomaticRetry, ItemStatus, LeaseExpired
  <2>2. Leases!Cancel(1)
    BY <1>2, <2>1, QueueChanges DEF Leases!Cancel
  <2> QED
    BY <2>2, QueueChanges DEF Leases!Next
<1>6. CASE ItemStatus' = ItemStatus
  BY <1>2, <1>6, QueueChanges DEF Leases!vars
<1>7. CASE ReleaseWorkspace \/ CommitToWorkspace \/ StrayPush
  BY <1>6, <1>7 DEF ReleaseWorkspace, CommitToWorkspace, StrayPush, publication, ItemStatus, LeaseExpired
<1>8. CASE Tick
  <2>1. /\ status' = status /\ leaseLeft' = Later(leaseLeft) /\ nextIn' = Later(nextIn)
        /\ leaseLeft \in Nat /\ nextIn \in Int
    BY <1>1, <1>8 DEF Tick, TypeOK
  <2>2. nextIn = Unscheduled <=> nextIn' = Unscheduled
    BY <2>1 DEF Later, Unscheduled
  <2>3. leaseLeft = 0 => leaseLeft' = 0
    BY <2>1 DEF Later
  <2>4. CASE status = "claimed" /\ leaseLeft # 0 /\ leaseLeft' = 0
    <3>1. ItemStatus = "claimed" /\ ItemStatus' = "lapsed"
      BY <1>1, <2>1, <2>4, ItemFacts DEF ItemStatus, LeaseExpired
    <3>2. Leases!Lapse(1)
      BY <1>2, <3>1, QueueChanges DEF Leases!Lapse
    <3> QED
      BY <3>2, QueueChanges DEF Leases!Next
  <2>5. CASE ~(status = "claimed" /\ leaseLeft # 0 /\ leaseLeft' = 0)
    <3>1. ItemStatus' = ItemStatus
      BY <2>1, <2>2, <2>3, <2>5 DEF ItemStatus, LeaseExpired
    <3> QED
      BY <1>6, <3>1
  <2> QED
    BY <2>4, <2>5
<1> QED
  BY <1>3, <1>4, <1>5, <1>7, <1>8

\* A claim is a grant.
LEMMA QueueClaims ==
    ASSUME Inv, AtRest, NEW w \in Workers, Claim(w)
    PROVE  Leases!Next
<1>1. TypeOK /\ attemptCount \in Nat /\ held[w] = 0
  BY DEF Inv, TypeOK, AtRest, Claim
<1>2. ItemStatus \in {"pending", "lapsed", "retrying"} /\ ItemStatus' = "claimed"
  <2>1. ItemStatus \in {"pending", "lapsed", "retrying"}
    BY <1>1, ItemFacts DEF Claim, Claimable, ScheduledRetry, LeaseExpired, Unscheduled
  <2>2. status' = "claimed" /\ leaseLeft' # 0
    BY TimeAssumption DEF Claim
  <2> QED
    BY <2>1, <2>2 DEF ItemStatus, LeaseExpired
<1>3. attemptCount' = attemptCount + 1 /\ held' = [held EXCEPT ![w] = attemptCount + 1]
  BY DEF Claim
<1>4. /\ Holds' = [Holds EXCEPT ![w] = [item |-> 1, lease |-> attemptCount + 1]]
      /\ Holds[w] = Leases!Idle
  <2>1. attemptCount + 1 \in Nat /\ attemptCount + 1 # 0
    BY <1>1
  <2> DEFINE n == attemptCount + 1
  <2> HIDE DEF n
  <2>2. n \in Nat /\ n # 0 /\ held' = [held EXCEPT ![w] = n]
    BY <1>3, <2>1 DEF n
  <2>3. /\ Holds' = [Holds EXCEPT ![w] = [item |-> IF n = 0 THEN 0 ELSE 1, lease |-> n]]
        /\ Holds[w] = [item |-> IF held[w] = 0 THEN 0 ELSE 1, lease |-> held[w]]
    BY <1>1, <2>2, HoldChanges, Zenon
  <2> QED
    BY <1>1, <2>2, <2>3 DEF n, Leases!Idle
<1>5. Leases!Grant(w, 1)
  BY <1>2, <1>3, <1>4, QueueChanges DEF Leases!Grant
<1> QED
  BY <1>5, QueueChanges DEF Leases!Next

\* Preparing and calling the provider is nothing to the queue; a report that
\* counts is one of the latest lease.
LEMMA QueueReports ==
    ASSUME Inv, NEW w \in Workers,
           \/ Prepare(w) \/ Push(w) \/ PushFails(w) \/ Publish(w) \/ TimeOut(w)
           \/ Succeed(w) \/ Fail(w) \/ Rejected(w) \/ Crash(w)
    PROVE  [Leases!Next]_(Leases!vars)
<1>1. TypeOK /\ attemptCount \in Nat
  BY DEF Inv, TypeOK
<1>2. CASE Prepare(w) \/ Push(w) \/ PushFails(w) \/ Publish(w) \/ TimeOut(w)
  <2>1. UNCHANGED publication /\ held' = held
    BY <1>2 DEF Prepare, Push, PushFails, Publish, TimeOut, Resolve
  <2>2. ItemStatus' = ItemStatus /\ attemptCount' = attemptCount /\ Holds' = Holds
    BY <2>1 DEF publication, ItemStatus, LeaseExpired, Holds
  <2> QED
    BY <2>2, QueueChanges DEF Leases!vars
<1>3. CASE phase[w] # "idle" /\ Idle(w)
  <2>1. held[w] \in 1..attemptCount /\ held' = [held EXCEPT ![w] = 0]
    BY <1>3 DEF Inv, Holding, Idle
  <2>2. /\ Holds' = [Holds EXCEPT ![w] = Leases!Idle] /\ Holds[w] # Leases!Idle
        /\ Holds[w].item = 1 /\ Holds[w].lease = held[w]
    <3>1. /\ Holds' = [Holds EXCEPT ![w] = [item |-> IF 0 = 0 THEN 0 ELSE 1, lease |-> 0]]
          /\ Holds[w] = [item |-> IF held[w] = 0 THEN 0 ELSE 1, lease |-> held[w]]
      <4>1. 0 \in Nat
        OBVIOUS
      <4> QED
        BY <1>1, <2>1, <4>1, HoldChanges, Zenon
    <3> QED
      BY <1>1, <2>1, <3>1 DEF Leases!Idle
  <2>3. CASE Rejected(w) \/ Crash(w)
    <3>1. ItemStatus' = ItemStatus /\ attemptCount' = attemptCount
      BY <2>3 DEF Rejected, Crash, publication, ItemStatus, LeaseExpired
    <3>2. Leases!Abandon(w)
      BY <2>2, <3>1, QueueChanges DEF Leases!Abandon
    <3> QED
      BY <3>2 DEF Leases!Next
  <2>4. CASE Succeed(w) \/ Fail(w)
    <3>1. attemptCount' = attemptCount /\ held[w] = attemptCount
      BY <2>4 DEF Succeed, Fail, Owns, Inv, LedgerAgrees
    <3>2. ItemStatus' \in Leases!Outcomes
      BY <2>4 DEF Succeed, Fail, ItemStatus, LeaseExpired, Leases!Outcomes
    <3>3. Leases!Report(w, ItemStatus')
      BY <2>2, <3>1, QueueChanges DEF Leases!Report
    <3> QED
      BY <3>2, <3>3 DEF Leases!Next
  <2> QED
    BY <1>2, <2>3, <2>4
<1> QED
  BY <1>2, <1>3 DEF Succeed, Fail, Rejected, Crash

\* The first state is one a lease queue may start from: a publication from
\* before the ledger may be claimed, by the one worker that has its token.
LEMMA QueueInitially == Init => AtRest /\ Leases!Init
<1> SUFFICES ASSUME Init PROVE AtRest /\ Leases!Init
  OBVIOUS
<1>1. TypeOK /\ attemptCount \in Nat /\ held \in [Workers -> Nat]
  BY TypeInit DEF TypeOK
<1>2. /\ status = "absent" => attemptCount = 0
      /\ status \in {"claimed", "failed"} => attemptCount > 0
      /\ status \in {"absent", "pending", "claimed", "failed"} /\ nextIn = Unscheduled
      /\ \A w \in Workers : IF LegacyHolder(w) THEN held[w] = attemptCount /\ attemptCount # 0
                                               ELSE held[w] = 0
  BY <1>1 DEF Init, LegacyHolder
<1>3. ItemStatus \in {"absent", "pending", "claimed", "lapsed", "failed"}
      /\ (ItemStatus \in {"claimed", "lapsed"} <=> status = "claimed")
      /\ (ItemStatus = "absent" => status = "absent")
      /\ (ItemStatus = "failed" => status = "failed")
  BY <1>1, <1>2, ItemFacts
<1>4. Leases!TypeOK
  BY <1>1, <1>3 DEF Leases!TypeOK, Leases!Items, Leases!Statuses, Item, LeaseCount, Holds,
                   Publications
<1>5. Leases!Fenced
  <2>1. \A w \in Workers : /\ Holds[w].item = (IF held[w] = 0 THEN 0 ELSE 1)
                           /\ Holds[w].lease = held[w]
    BY DEF Holds
  <2>2. \A w \in Workers : held[w] = 0 => Holds[w] = Leases!Idle
    BY DEF Holds, Leases!Idle
  <2>3. ASSUME NEW w \in Workers, Holds[w] # Leases!Idle
        PROVE  /\ Holds[w].item \in Leases!Items /\ Holds[w].lease \in 1..LeaseCount[Holds[w].item]
               /\ Item[Holds[w].item] \in {"claimed", "lapsed"}
               /\ \A v \in Workers : Holds[v] = Holds[w] => v = w
    <3>1. LegacyHolder(w) /\ held[w] = attemptCount /\ attemptCount # 0
      BY <1>2, <2>2, <2>3
    <3>2. Holds[w].item = 1 /\ Holds[w].lease = attemptCount
      BY <2>1, <3>1
    <3>3. ASSUME NEW v \in Workers, Holds[v] = Holds[w] PROVE v = w
      BY <1>2, <2>1, <3>1, <3>2, <3>3 DEF LegacyHolder
    <3> QED
      BY <1>1, <1>3, <3>1, <3>2, <3>3, QueueChanges DEF LegacyHolder
  <2>4. \A i \in Leases!Items : i = 1
    BY DEF Leases!Items
  <2> QED
    BY <1>2, <1>3, <2>3, <2>4, QueueChanges DEF Leases!Fenced
<1>6. AtRest
  BY <1>2 DEF Init, AtRest
<1> QED
  BY <1>4, <1>5, <1>6 DEF Leases!Init

LEMMA QueueStep == Inv /\ AtRest /\ TypeOK' /\ [Next]_vars => [Leases!Next]_(Leases!vars)
<1> SUFFICES ASSUME Inv, AtRest, TypeOK', [Next]_vars PROVE [Leases!Next]_(Leases!vars)
  OBVIOUS
<1>1. CASE UNCHANGED vars
  <2>1. ItemStatus' = ItemStatus /\ attemptCount' = attemptCount /\ Holds' = Holds
    BY <1>1 DEF vars, worker, publication, ItemStatus, LeaseExpired, Holds
  <2> QED
    BY <2>1, QueueChanges DEF Leases!vars
<1> QED
  BY <1>1, QueueMoves, QueueClaims, QueueReports DEF Next, Step

(* The publication implements the lease queue, for any number of workers,  *)
(* any leases and any release it was taken over from (claim_next, succeed, *)
(* fail, retry, cancel_automatic_retry).                                   *)
THEOREM PublicationKeepsLeaseQueue == Spec => KeepsLeaseQueue
<1>1. Inv /\ AtRest /\ [Next]_vars => AtRest'
  BY Rests DEF Inv
<1> QED
  BY <1>1, Invariance, TypeCorrect, QueueInitially, QueueStep, PTL
     DEF Spec, KeepsLeaseQueue, Leases!Spec

\* What LeaseQueue promises holds of the publication: one worker has the latest
\* lease, only its report ends an attempt, and a published review is final.
THEOREM PublicationFenced ==
    Spec => /\ []LeaseFacts!OneHolder /\ LeaseFacts!ClosedByLatestLease
            /\ LeaseFacts!SuccessIsFinal /\ LeaseFacts!OneLeaseAtATime
<1>1. Leases!Spec => LeaseFacts!Spec
  <2>1. Leases!Init <=> LeaseFacts!Init
    BY DEF Leases!Init, LeaseFacts!Init, Leases!TypeOK, LeaseFacts!TypeOK, Leases!Fenced,
           LeaseFacts!Fenced, Leases!Items, LeaseFacts!Items, Leases!Statuses,
           LeaseFacts!Statuses, Leases!Idle, LeaseFacts!Idle
  <2>2. [Leases!Next]_(Leases!vars) <=> [LeaseFacts!Next]_(LeaseFacts!vars)
    BY DEF Leases!Next, LeaseFacts!Next, Leases!vars, LeaseFacts!vars,
           Leases!Items, LeaseFacts!Items, Leases!Idle, LeaseFacts!Idle,
           Leases!Offer, LeaseFacts!Offer, Leases!Lapse, LeaseFacts!Lapse,
           Leases!Cancel, LeaseFacts!Cancel, Leases!Reopen, LeaseFacts!Reopen,
           Leases!Grant, LeaseFacts!Grant, Leases!Report, LeaseFacts!Report,
           Leases!Abandon, LeaseFacts!Abandon, Leases!Outcomes, LeaseFacts!Outcomes
  <2> QED
    BY <2>1, <2>2, PTL DEF Leases!Spec, LeaseFacts!Spec
<1> QED
  BY <1>1, PublicationKeepsLeaseQueue, LeaseFacts!QueueHasOneHolder,
     LeaseFacts!QueueClosesByLatestLease, LeaseFacts!QueueSuccessIsFinal,
     LeaseFacts!QueueLeasesOneAtATime, PTL DEF KeepsLeaseQueue

-----------------------------------------------------------------------------
(* For any number of attempts and workers, row and ledger tell one history *)
(* (claim_next, _finish).                                                  *)
THEOREM HistoryIsTold == Spec => []LedgerTellsHistory
  BY LedgerConsistency, TriggerHistory, PTL DEF LedgerTellsHistory

(* For any limits of the workers, automatic attempts stay within them and  *)
(* end with a cancellation (claim, cancel_automatic_retry).                *)
THEOREM RetriesAreBounded == Spec => []RetriesBounded
  BY AutomaticLimit, CancelIsFinal, PTL DEF RetriesBounded

(* For any number of workers, a late report changes no outcome             *)
(* (_require_claim).                                                       *)
THEOREM ReportsAreFenced == Spec => FencedReports
  BY OutcomesFinal, HolderCloses, PublicationKeepsLeaseQueue, PTL DEF FencedReports
=============================================================================
