------------------------- MODULE ControlPlaneProofs -------------------------
(***************************************************************************)
(* What the API's own transactions promise, proved for every number of     *)
(* tasks, workers, callers, accounts, workflows, forms and calls: the      *)
(* ledgers and the balances of a project's budget, the audit trail of the  *)
(* service accounts, the listing of their readiness, the dispatch of a     *)
(* prompt under an idempotency key, the answers the clients' calls get,    *)
(* and all of them in one run.                                             *)
(***************************************************************************)
EXTENDS MCControlPlane, WorkerProofs, FiniteSetTheorems, SequenceTheorems,
        WellFoundedInduction, TLAPS

-----------------------------------------------------------------------------
(* The budget.  A balance is a sum over the tasks of a ledger; it is       *)
(* counted as the number of its micro-dollars, so a task that enters or    *)
(* leaves a ledger changes it by a disjoint union.                         *)

\* The types of everything but the balances.
Typed ==
    /\ reservation \in [Tasks -> ReservationStatuses]
    /\ usage \in [Tasks -> Nat \cup {NoUsage}]
    /\ run \in Runs /\ node \in [Tasks -> NodeStatuses]
    /\ attempt \in [Tasks -> Nat]
    /\ task \in [Workers -> Tasks \cup {NoTask}] /\ lease \in [Workers -> Nat]
    /\ phase \in [Workers -> Phases] /\ cost \in [Workers -> Nat \cup {NoUsage}]

\* What a worker's local phase tells of the ledgers: it claimed a task, it
\* completes only a charged one and forfeits only one that failed for good.
PhaseMeans ==
    \A w \in Workers :
        /\ phase[w] # "idle" => task[w] \in Tasks
        /\ phase[w] = "completing" => usage[task[w]] # NoUsage
        /\ phase[w] = "forfeiting" => node[task[w]] = "failed"

IInv == Typed /\ PhaseMeans /\ UsageExplained /\ CompletedIsCharged

\* A step preserves what the phases mean when it changes only worker w's
\* phase and claim, takes back no usage record and no final failure, and w's
\* new phase is justified.
LEMMA OneWorkerMoves ==
    ASSUME Typed, PhaseMeans, NEW w \in Workers, NEW p \in Phases, NEW t \in Tasks \cup {NoTask},
           phase' = [phase EXCEPT ![w] = p], task' = [task EXCEPT ![w] = t],
           p # "idle" => t \in Tasks,
           p = "completing" => usage'[t] # NoUsage,
           p = "forfeiting" => node'[t] = "failed",
           \A n \in Tasks : usage[n] # NoUsage => usage'[n] # NoUsage,
           \A n \in Tasks : node[n] = "failed" => node'[n] = "failed"
    PROVE  PhaseMeans'
BY DEF Typed, PhaseMeans

\* Every call preserves the inductive invariant.
LEMMA Inductive == IInv /\ [Next]_vars => IInv'
<1> SUFFICES ASSUME IInv, [Next]_vars PROVE IInv'
    OBVIOUS
<1> USE BudgetAssumption
<1>1. ASSUME NEW w \in Workers, NEW t \in Tasks, ClaimNext(w, t) PROVE IInv'
    <2>1. Typed'
        BY <1>1 DEF IInv, Typed, ClaimNext, account, ledger, NodeStatuses, Phases
    <2>2. PhaseMeans'
        <3>1. \A n \in Tasks : usage[n] # NoUsage => usage'[n] # NoUsage
            BY <1>1 DEF ClaimNext, ledger
        <3>2. \A n \in Tasks : node[n] = "failed" => node'[n] = "failed"
            BY <1>1 DEF IInv, Typed, ClaimNext
        <3> QED BY <1>1, <3>1, <3>2, OneWorkerMoves DEF IInv, ClaimNext, Phases
    <2>3. UsageExplained' /\ CompletedIsCharged'
        BY <1>1 DEF IInv, Typed, ClaimNext, ledger, UsageExplained, CompletedIsCharged
    <2> QED BY <2>1, <2>2, <2>3 DEF IInv
<1>2. ASSUME NEW w \in Workers, MaterializeFails(w) PROVE IInv'
    BY <1>2 DEF IInv, Typed, PhaseMeans, UsageExplained, CompletedIsCharged, MaterializeFails,
        Goto, account, ledger, execution, Phases
<1>3. ASSUME NEW w \in Workers, Reserve(w) PROVE IInv'
    BY <1>3 DEF IInv, Typed, PhaseMeans, UsageExplained, CompletedIsCharged, Reserve,
        Goto, account, ledger, execution, Phases, ReservationStatuses
<1>4. ASSUME NEW w \in Workers, Execute(w) PROVE IInv'
    BY <1>4 DEF IInv, Typed, PhaseMeans, UsageExplained, CompletedIsCharged, Execute,
        Goto, account, ledger, execution, Phases
<1>5. ASSUME NEW w \in Workers, Settle(w) PROVE IInv'
    BY <1>5 DEF IInv, Typed, PhaseMeans, UsageExplained, CompletedIsCharged, Settle,
        FinalizeReservation, Goto, account, ledger, execution, Phases, ReservationStatuses
<1>6. ASSUME NEW w \in Workers, Complete(w) PROVE IInv'
    BY <1>6 DEF IInv, Typed, PhaseMeans, UsageExplained, CompletedIsCharged, Complete, OwnsLease,
        EndWorkflow, Idle, account, ledger, Phases, NodeStatuses, Runs, ReservationStatuses
<1>7. ASSUME NEW w \in Workers, Fail(w) PROVE IInv'
    BY <1>7 DEF IInv, Typed, PhaseMeans, UsageExplained, CompletedIsCharged, Fail, OwnsLease, FailAttempt,
        EndWorkflow, Idle, Goto, account, ledger, Phases, NodeStatuses, Runs
<1>8. ASSUME NEW w \in Workers, Rejected(w) \/ Crash(w) PROVE IInv'
    BY <1>8 DEF IInv, Typed, PhaseMeans, UsageExplained, CompletedIsCharged, Rejected, Crash,
        Idle, account, ledger, execution, Phases
<1>9. ASSUME NEW w \in Workers, Forfeit(w) PROVE IInv'
    BY <1>9 DEF IInv, Typed, PhaseMeans, UsageExplained, CompletedIsCharged, Forfeit,
        FinalizeReservation, Idle, account, ledger, execution, Phases, ReservationStatuses
<1>10. ASSUME NEW t \in Tasks, RecoverExpired(t) PROVE IInv'
    BY <1>10 DEF IInv, Typed, PhaseMeans, UsageExplained, CompletedIsCharged, RecoverExpired, FailAttempt,
        EndWorkflow, account, ledger, worker, NodeStatuses, Runs
<1>11. CASE CancelRun
    BY <1>11 DEF IInv, Typed, PhaseMeans, UsageExplained, CompletedIsCharged, CancelRun, Active,
        worker, NodeStatuses, Runs, ReservationStatuses
<1>12. ASSUME NEW l \in Limits, Configure(l) PROVE IInv'
    BY <1>12 DEF IInv, Typed, PhaseMeans, UsageExplained, CompletedIsCharged, Configure,
        ledger, execution, worker
<1>13. CASE UNCHANGED vars
    BY <1>13 DEF IInv, Typed, PhaseMeans, UsageExplained, CompletedIsCharged, vars,
        ledger, execution, worker
<1> QED
    BY <1>1, <1>2, <1>3, <1>4, <1>5, <1>6, <1>7, <1>8, <1>9, <1>10, <1>11, <1>12, <1>13
    DEF Next, WorkerStep

LEMMA Invariance == Spec => []IInv
<1>1. Init => IInv
    BY BudgetAssumption DEF Init, IInv, Typed, PhaseMeans, UsageExplained, CompletedIsCharged,
        ReservationStatuses, Runs, NodeStatuses, Phases
<1> QED BY <1>1, Inductive, PTL DEF Spec

\* A reservation has a usage record exactly when it is settled or forfeited,
\* and only tasks that failed for good are forfeited, however many workers,
\* attempts, crashes and late settlements there are.
THEOREM UsageAccounted == Spec => []UsageExplained
<1>1. IInv => UsageExplained
    BY DEF IInv
<1> QED BY <1>1, Invariance, PTL

\* Every completed task was charged.
THEOREM ChargedBeforeCompletion == Spec => []CompletedIsCharged
<1>1. IInv => CompletedIsCharged
    BY DEF IInv
<1> QED BY <1>1, Invariance, PTL

\* A closed reservation and its usage record never change again.
THEOREM ClosedForGood == Spec => LedgerFinal
<1>1. IInv /\ [Next]_vars =>
        [\A t \in Tasks : reservation[t] \in {"settled", "forfeited", "released"} =>
            reservation'[t] = reservation[t] /\ usage'[t] = usage[t]]_vars
    <2> SUFFICES ASSUME IInv, Next, NEW t \in Tasks,
                        reservation[t] \in {"settled", "forfeited", "released"}
                 PROVE  reservation'[t] = reservation[t] /\ usage'[t] = usage[t]
        OBVIOUS
    <2>1. CASE \E w \in Workers : Reserve(w) \/ Settle(w) \/ Forfeit(w)
        BY <2>1 DEF IInv, Typed, PhaseMeans, Reserve, Settle, Forfeit, FinalizeReservation, ledger
    <2>2. CASE CancelRun
        BY <2>2 DEF IInv, Typed, CancelRun, Active
    <2>3. CASE UNCHANGED ledger
        BY <2>3 DEF ledger
    <2> QED
        BY <2>1, <2>2, <2>3 DEF Next, WorkerStep, ClaimNext, MaterializeFails, Execute, Complete, Fail,
            Rejected, Crash, RecoverExpired, Configure
<1> QED BY <1>1, Invariance, PTL DEF Spec, LedgerFinal

(* For any tasks, workers and costs, every charge has its reason and every *)
(* completed task its charge (settle, forfeit, complete).                  *)
THEOREM ChargesAreExplained == Spec => []ChargesExplained
  BY UsageAccounted, ChargedBeforeCompletion, PTL DEF ChargesExplained

-----------------------------------------------------------------------------
(* Sums.                                                                   *)

\* The micro-dollars of one task are its amount.
LEMMA UnitsOfOne ==
    ASSUME NEW x, NEW n \in Nat
    PROVE  IsFiniteSet({x} \X (1 .. n)) /\ Cardinality({x} \X (1 .. n)) = n
<1>1. IsFiniteSet({x}) /\ Cardinality({x}) = 1
    BY FS_Singleton
<1>2. IsFiniteSet(1 .. n) /\ Cardinality(1 .. n) = n
    BY FS_Interval
<1>3. IsFiniteSet({x} \X (1 .. n)) /\ Cardinality({x} \X (1 .. n)) = Cardinality({x}) * Cardinality(1 .. n)
    BY <1>1, <1>2, FS_Product
<1>4. 1 * n = n
    OBVIOUS
<1> QED BY <1>1, <1>2, <1>3, <1>4

\* The sum over no task.
LEMMA TotalOfNone ==
    ASSUME NEW f PROVE IsFiniteSet(Units(f, {})) /\ Total(f, {}) = 0
<1>1. Units(f, {}) = {}
    BY DEF Units
<1> QED BY <1>1, FS_EmptySet DEF Total

\* A sum depends on the amounts of its own tasks only.
LEMMA SameUnits ==
    ASSUME NEW S, NEW f, NEW g, \A t \in S : f[t] = g[t]
    PROVE  Units(f, S) = Units(g, S)
<1>1. \A u : u \in Units(f, S) <=> \E t \in S : u \in {t} \X (1 .. f[t])
    BY DEF Units
<1>2. \A u : u \in Units(g, S) <=> \E t \in S : u \in {t} \X (1 .. g[t])
    BY DEF Units
<1>3. \A u : u \in Units(f, S) <=> u \in Units(g, S)
    BY <1>1, <1>2
<1> QED BY <1>3

\* A task that joins a sum adds its amount.
LEMMA TotalGrows ==
    ASSUME NEW S, NEW x, x \notin S, NEW f, NEW g, IsFiniteSet(Units(f, S)),
           \A t \in S : f[t] = g[t], g[x] \in Nat
    PROVE  /\ IsFiniteSet(Units(g, S \cup {x}))
           /\ Total(f, S) \in Nat
           /\ Total(g, S \cup {x}) = Total(f, S) + g[x]
<1>1. Units(f, S) = Units(g, S)
    BY SameUnits
<1>2. PICK X : X = {x} \X (1 .. g[x])
    OBVIOUS
<1>3. IsFiniteSet(X) /\ Cardinality(X) = g[x]
    BY <1>2, UnitsOfOne
<1>4. Units(g, S \cup {x}) = Units(g, S) \cup X
    <2>1. \A u : u \in Units(g, S) <=> \E t \in S : u \in {t} \X (1 .. g[t])
        BY DEF Units
    <2>2. \A u : u \in Units(g, S \cup {x}) <=> \E t \in S \cup {x} : u \in {t} \X (1 .. g[t])
        BY DEF Units
    <2>3. \A u : u \in Units(g, S \cup {x}) <=> (u \in Units(g, S) \/ u \in X)
        BY <1>2, <2>1, <2>2
    <2> QED BY <2>3
<1>5. Units(g, S) \cap X = {}
    <2> SUFFICES ASSUME NEW u \in Units(g, S), u \in X PROVE FALSE
        OBVIOUS
    <2>1. PICK t \in S : u \in {t} \X (1 .. g[t])
        BY DEF Units
    <2>2. u[1] = t /\ u[1] = x
        BY <1>2, <2>1
    <2> QED BY <2>2
<1>6. Cardinality(Units(g, S)) \in Nat /\ Cardinality({}) = 0
    BY <1>1, FS_CardinalityType, FS_EmptySet
<1>7. /\ IsFiniteSet(Units(g, S) \cup X)
      /\ Cardinality(Units(g, S) \cup X) =
            Cardinality(Units(g, S)) + Cardinality(X) - Cardinality(Units(g, S) \cap X)
    BY <1>1, <1>3, FS_Union
<1>8. Cardinality(Units(g, S) \cup X) = Cardinality(Units(g, S)) + g[x]
    <2>1. Cardinality(Units(g, S) \cap X) = 0
        BY <1>5, <1>6, Zenon
    <2>2. ASSUME NEW a, NEW b \in Nat, NEW c, NEW d, a = b + c - d, c = g[x], d = 0 PROVE a = b + g[x]
        BY <2>2
    <2> QED BY <1>3, <1>6, <1>7, <2>1, <2>2
<1> QED BY <1>1, <1>4, <1>6, <1>7, <1>8 DEF Total

\* A task that leaves a sum takes its amount away.
LEMMA TotalShrinks ==
    ASSUME NEW S, NEW x \in S, NEW f, IsFiniteSet(Units(f, S)), f[x] \in Nat
    PROVE  /\ IsFiniteSet(Units(f, S \ {x}))
           /\ Total(f, S \ {x}) \in Nat
           /\ Total(f, S) = Total(f, S \ {x}) + f[x]
<1>1. PICK R : R = S \ {x}
    OBVIOUS
<1>2. x \notin R /\ S = R \cup {x}
    BY <1>1
<1>3. Units(f, R) \subseteq Units(f, S)
    BY <1>1 DEF Units
<1>4. IsFiniteSet(Units(f, R))
    BY <1>3, FS_Subset
<1>5. Total(f, R) \in Nat /\ Total(f, R \cup {x}) = Total(f, R) + f[x]
    BY <1>2, <1>4, TotalGrows
<1> QED BY <1>1, <1>2, <1>4, <1>5

-----------------------------------------------------------------------------
(* The balances.                                                           *)

\* A task that waits to be claimed has an attempt left.
AttemptsLeft ==
    /\ attempt \in [Tasks -> 0 .. MaxAttempts] /\ lease \in [Workers -> 0 .. MaxAttempts]
    /\ \A t \in Tasks : node[t] = "waiting" => attempt[t] < MaxAttempts

\* The balances are amounts, and the sums they are compared with are finite:
\* every ledger began empty and grew one task at a time.
Balanced ==
    /\ limit \in Nat /\ reserved \in Nat /\ spent \in Nat
    /\ IsFiniteSet(Units(Estimate, Active))
    /\ IsFiniteSet(Units(usage, Used))
    /\ IsFiniteSet(Units(Overruns, Used))
    /\ AccountSound

\* Amounts of the tasks.
LEMMA Amounts ==
    ASSUME IInv, NEW t \in Tasks
    PROVE  /\ Estimate[t] \in Nat
           /\ t \in Used => usage[t] \in Nat
           /\ Overruns[t] = IF t \in Used THEN Overrun(t) ELSE 0
           /\ Overruns[t] \in Nat
<1>1. Estimate[t] \in Nat /\ (t \in Used => usage[t] \in Nat)
    BY BudgetAssumption DEF IInv, Typed, Used
<1>2. t \in Used => Overrun(t) \in Nat
    BY <1>1 DEF Overrun
<1>3. Overruns[t] = IF t \in Used THEN Overrun(t) ELSE 0
    BY DEF Overruns
<1> QED BY <1>1, <1>2, <1>3

\* A call that leaves the account and the ledgers alone.
LEMMA BalancedUntouched ==
    ASSUME Balanced, UNCHANGED <<account, ledger>>
    PROVE  Balanced'
<1>1. Active' = Active /\ Used' = Used /\ usage' = usage
    BY DEF ledger, Active, Used
<1>2. Overruns' = Overruns
    BY <1>1 DEF Overruns, Overrun
<1> QED BY <1>1, <1>2 DEF Balanced, AccountSound, Conservation, WithinLimit, account

\* BudgetService.configure takes no limit below what is committed.
LEMMA BalancedConfigure ==
    ASSUME Balanced, NEW l \in Limits, Configure(l)
    PROVE  Balanced'
<1>1. Active' = Active /\ Used' = Used /\ usage' = usage
    BY DEF Configure, ledger, Active, Used
<1>2. Overruns' = Overruns
    BY <1>1 DEF Overruns, Overrun
<1>3. Total(Overruns, Used) \in Nat
    BY FS_CardinalityType DEF Balanced, Total
<1>4. limit' \in Nat /\ reserved' = reserved /\ spent' = spent /\ reserved + spent <= limit'
    BY BudgetAssumption DEF Configure, Balanced
<1>5. reserved' + spent' <= limit' + Total(Overruns, Used)
    BY <1>3, <1>4 DEF Balanced
<1>6. Conservation' /\ WithinLimit'
    BY <1>1, <1>2, <1>4, <1>5 DEF Balanced, AccountSound, Conservation, WithinLimit
<1> QED BY <1>1, <1>2, <1>4, <1>6 DEF Balanced, AccountSound

\* BudgetService.reserve opens a reservation only within what is available.
LEMMA BalancedReserve ==
    ASSUME IInv, Balanced, NEW t \in Tasks, reservation[t] = "none",
           Estimate[t] <= Available, reserved' = reserved + Estimate[t],
           reservation' = [reservation EXCEPT ![t] = "reserved"],
           UNCHANGED <<limit, spent, usage>>
    PROVE  Balanced'
<1>1. t \notin Active /\ Active' = Active \cup {t}
    BY DEF IInv, Typed, Active
<1>2. Used' = Used
    BY DEF Used
<1>3. Overruns' = Overruns
    BY <1>2 DEF Overruns, Overrun
<1>4. /\ IsFiniteSet(Units(Estimate, Active \cup {t}))
      /\ Total(Estimate, Active \cup {t}) = Total(Estimate, Active) + Estimate[t]
    BY <1>1, TotalGrows, Amounts DEF Balanced
<1>5. Total(Overruns, Used) \in Nat
    BY FS_CardinalityType DEF Balanced, Total
<1>6. reserved' \in Nat /\ reserved' + spent <= limit
    BY Amounts DEF Balanced, Available
<1>7. Conservation'
    BY <1>1, <1>2, <1>4 DEF Balanced, AccountSound, Conservation
<1>8. reserved' + spent <= limit + Total(Overruns, Used)
    BY <1>5, <1>6 DEF Balanced
<1>9. WithinLimit'
    BY <1>2, <1>3, <1>8 DEF WithinLimit
<1> QED BY <1>1, <1>2, <1>3, <1>4, <1>6, <1>7, <1>9 DEF Balanced, AccountSound

\* An open reservation is closed by its usage record: settled at what the
\* executor reported or forfeited at its estimate.
LEMMA BalancedFinalize ==
    ASSUME IInv, Balanced, NEW t \in Tasks, reservation[t] = "reserved",
           NEW s \in {"settled", "forfeited"}, NEW c \in Nat, FinalizeReservation(t, s, c)
    PROVE  Balanced'
<1>1. t \in Active /\ Active' = Active \ {t}
    BY DEF IInv, Typed, Active, FinalizeReservation
<1>2. t \notin Used /\ Used' = Used \cup {t} /\ Used \subseteq Tasks
    BY BudgetAssumption DEF IInv, Typed, UsageExplained, Used, FinalizeReservation
<1>3. usage'[t] = c /\ \A n \in Used : usage'[n] = usage[n]
    BY <1>2 DEF IInv, Typed, FinalizeReservation
<1>4. \A n \in Used : Overruns[n] = Overruns'[n]
    BY <1>2, <1>3, Amounts DEF Overruns, Overrun
<1>5. PICK o \in Nat : o = Overruns'[t] /\ c <= Estimate[t] + o
    <2>1. Overruns'[t] = IF c > Estimate[t] THEN c - Estimate[t] ELSE 0
        BY <1>2, <1>3 DEF Overruns, Overrun
    <2> QED BY <2>1, Amounts
<1>6. /\ IsFiniteSet(Units(Estimate, Active \ {t}))
      /\ Total(Estimate, Active \ {t}) \in Nat
      /\ Total(Estimate, Active) = Total(Estimate, Active \ {t}) + Estimate[t]
    BY <1>1, TotalShrinks, Amounts DEF Balanced
<1>7. /\ IsFiniteSet(Units(usage', Used \cup {t}))
      /\ Total(usage', Used \cup {t}) = Total(usage, Used) + c
    <2>1. PICK u : u = usage'
        OBVIOUS
    <2>2. u[t] = c /\ u[t] \in Nat /\ \A n \in Used : usage[n] = u[n]
        BY <1>3, <2>1
    <2>3. IsFiniteSet(Units(usage, Used))
        BY DEF Balanced
    <2>4. ASSUME NEW S, NEW f, t \notin S, IsFiniteSet(Units(f, S)), \A n \in S : f[n] = u[n]
          PROVE  IsFiniteSet(Units(u, S \cup {t})) /\ Total(u, S \cup {t}) = Total(f, S) + u[t]
        BY <2>2, <2>4, TotalGrows
    <2>5. /\ IsFiniteSet(Units(u, Used \cup {t}))
          /\ Total(u, Used \cup {t}) = Total(usage, Used) + u[t]
        BY <1>2, <2>2, <2>3, <2>4
    <2> QED BY <2>1, <2>2, <2>5
<1>8. /\ IsFiniteSet(Units(Overruns', Used \cup {t}))
      /\ Total(Overruns, Used) \in Nat
      /\ Total(Overruns', Used \cup {t}) = Total(Overruns, Used) + o
    <2>1. PICK v : v = Overruns'
        OBVIOUS
    <2>2. v[t] = o /\ v[t] \in Nat /\ \A n \in Used : Overruns[n] = v[n]
        BY <1>4, <1>5, <2>1
    <2>3. IsFiniteSet(Units(Overruns, Used)) /\ Total(Overruns, Used) \in Nat
        BY FS_CardinalityType DEF Balanced, Total
    <2>4. ASSUME NEW S, NEW f, t \notin S, IsFiniteSet(Units(f, S)), \A n \in S : f[n] = v[n]
          PROVE  IsFiniteSet(Units(v, S \cup {t})) /\ Total(v, S \cup {t}) = Total(f, S) + v[t]
        BY <2>2, <2>4, TotalGrows
    <2>5. /\ IsFiniteSet(Units(v, Used \cup {t}))
          /\ Total(v, Used \cup {t}) = Total(Overruns, Used) + v[t]
        BY <1>2, <2>2, <2>3, <2>4
    <2> QED BY <2>1, <2>2, <2>3, <2>5
<1>9. limit' = limit /\ reserved' = reserved - Estimate[t] /\ spent' = spent + c
    BY DEF FinalizeReservation
<1>10. reserved' = Total(Estimate, Active') /\ reserved' \in Nat
    BY <1>1, <1>6, <1>9, Amounts DEF Balanced, AccountSound, Conservation
<1>11. spent' = Total(usage', Used') /\ spent' \in Nat
    BY <1>2, <1>7, <1>9 DEF Balanced, AccountSound, Conservation
<1>12. reserved' + spent' <= limit' + Total(Overruns', Used')
    <2>1. reserved + spent <= limit + Total(Overruns, Used)
        BY DEF Balanced, AccountSound, WithinLimit
    <2>2. Total(Overruns', Used') = Total(Overruns, Used) + o
        BY <1>2, <1>8
    <2>3. Estimate[t] \in Nat
        BY Amounts
    <2> QED BY <1>5, <1>8, <1>9, <2>1, <2>2, <2>3 DEF Balanced
<1> QED BY <1>1, <1>2, <1>6, <1>7, <1>8, <1>9, <1>10, <1>11, <1>12
        DEF Balanced, AccountSound, Conservation, WithinLimit

\* A cancelled run gives every open reservation back.
LEMMA BalancedCancel ==
    ASSUME IInv, Balanced, CancelRun
    PROVE  Balanced'
<1>1. Active' = {}
    BY DEF CancelRun, Active
<1>2. Used' = Used /\ usage' = usage /\ limit' = limit /\ spent' = spent
    BY DEF CancelRun, Used
<1>3. Overruns' = Overruns
    BY <1>2 DEF Overruns, Overrun
<1>4. reserved' = 0
    BY DEF CancelRun, Balanced, AccountSound, Conservation
<1>5. IsFiniteSet(Units(Estimate, {})) /\ Total(Estimate, {}) = 0
    BY TotalOfNone
<1>6. Total(Overruns, Used) \in Nat
    BY FS_CardinalityType DEF Balanced, Total
<1>7. reserved' + spent' <= limit' + Total(Overruns, Used)
    BY <1>2, <1>4, <1>6 DEF Balanced, AccountSound, WithinLimit
<1> QED BY <1>1, <1>2, <1>3, <1>4, <1>5, <1>7 DEF Balanced, AccountSound, Conservation, WithinLimit

\* Every call keeps the balances and the attempts within their bounds.
LEMMA BalancesInductive ==
    ASSUME IInv, Balanced, [Next]_vars
    PROVE  Balanced'
<1> USE BudgetAssumption
<1>1. CASE UNCHANGED <<account, ledger>>
    BY <1>1, BalancedUntouched
<1>2. ASSUME NEW w \in Workers, Reserve(w) PROVE Balanced'
    <2>1. task[w] \in Tasks
        BY <1>2 DEF IInv, PhaseMeans, Reserve
    <2> QED BY <1>1, <1>2, <2>1, BalancedReserve DEF Reserve
<1>3. ASSUME NEW w \in Workers, Settle(w) PROVE Balanced'
    <2>1. task[w] \in Tasks /\ (cost[w] # NoUsage => cost[w] \in Nat)
        BY <1>3 DEF IInv, Typed, PhaseMeans, Settle
    <2> QED BY <1>1, <1>3, <2>1, BalancedFinalize DEF Settle
<1>4. ASSUME NEW w \in Workers, Forfeit(w) PROVE Balanced'
    <2>1. task[w] \in Tasks /\ Estimate[task[w]] \in Nat
        BY <1>4 DEF IInv, PhaseMeans, Forfeit
    <2> QED BY <1>1, <1>4, <2>1, BalancedFinalize DEF Forfeit
<1>5. CASE CancelRun
    BY <1>5, BalancedCancel
<1>6. ASSUME NEW l \in Limits, Configure(l) PROVE Balanced'
    BY <1>6, BalancedConfigure
<1>7. CASE UNCHANGED vars
    BY <1>1, <1>7 DEF vars
<1> QED BY <1>1, <1>2, <1>3, <1>4, <1>5, <1>6, <1>7 DEF Next, WorkerStep, ClaimNext, MaterializeFails,
        Execute, Complete, Fail, Rejected, Crash, RecoverExpired

\* No task is attempted more often than its node allows.
LEMMA AttemptsInductive ==
    ASSUME IInv, AttemptsLeft, [Next]_vars
    PROVE  AttemptsLeft'
<1> USE BudgetAssumption
<1>1. ASSUME NEW w \in Workers, NEW t \in Tasks, ClaimNext(w, t) PROVE AttemptsLeft'
    <2>1. attempt[t] + 1 \in 0 .. MaxAttempts
        BY <1>1 DEF AttemptsLeft, ClaimNext
    <2> QED BY <1>1, <2>1 DEF IInv, Typed, AttemptsLeft, ClaimNext
<1>2. ASSUME NEW t \in Tasks, FailAttempt(t), UNCHANGED attempt,
             lease' \in [Workers -> 0 .. MaxAttempts]
      PROVE  AttemptsLeft'
    BY <1>2 DEF IInv, Typed, AttemptsLeft, FailAttempt, EndWorkflow
<1>3. ASSUME NEW w \in Workers, Complete(w) PROVE AttemptsLeft'
    BY <1>3 DEF IInv, Typed, PhaseMeans, AttemptsLeft, Complete, EndWorkflow, Idle
<1>4. ASSUME NEW w \in Workers, Fail(w) PROVE AttemptsLeft'
    <2>1. task[w] \in Tasks
        BY <1>4 DEF IInv, PhaseMeans, Fail
    <2>2. lease' \in [Workers -> 0 .. MaxAttempts]
        BY <1>4 DEF AttemptsLeft, Fail, Goto, Idle
    <2> QED BY <1>2, <1>4, <2>1, <2>2 DEF Fail
<1>5. ASSUME NEW w \in Workers, Rejected(w) \/ Crash(w) \/ Forfeit(w) PROVE AttemptsLeft'
    BY <1>5 DEF IInv, Typed, AttemptsLeft, Rejected, Crash, Forfeit, Idle, execution
<1>6. ASSUME NEW t \in Tasks, RecoverExpired(t) PROVE AttemptsLeft'
    BY <1>2, <1>6 DEF AttemptsLeft, RecoverExpired, worker
<1>7. CASE CancelRun
    BY <1>7 DEF IInv, Typed, AttemptsLeft, CancelRun, worker
<1>8. CASE UNCHANGED <<execution, lease>>
    BY <1>8 DEF AttemptsLeft, execution
<1> QED BY <1>1, <1>3, <1>4, <1>5, <1>6, <1>7, <1>8 DEF Next, WorkerStep, MaterializeFails, Reserve,
        Execute, Settle, Configure, Goto, vars, worker

LEMMA BalancesInvariant == Spec => [](IInv /\ Balanced /\ AttemptsLeft)
<1>1. Init => Balanced
    <2> SUFFICES ASSUME Init PROVE Balanced
        OBVIOUS
    <2>1. Active = {} /\ Used = {}
        BY DEF Init, Active, Used
    <2>2. \A f : IsFiniteSet(Units(f, {})) /\ Total(f, {}) = 0
        BY TotalOfNone
    <2>3. limit \in Nat /\ reserved = 0 /\ spent = 0
        BY BudgetAssumption DEF Init
    <2> QED BY <2>1, <2>2, <2>3 DEF Balanced, AccountSound, Conservation, WithinLimit
<1>2. Init => AttemptsLeft
    BY BudgetAssumption DEF Init, AttemptsLeft
<1> QED BY <1>1, <1>2, Invariance, BalancesInductive, AttemptsInductive, PTL DEF Spec

\* The types of the account, the ledgers, the task nodes and the workers, and
\* the bound on a node's attempts (claim_next, fail_task, expire_task).
THEOREM BudgetTypes == Spec => []TypeOK
<1>1. IInv /\ Balanced /\ AttemptsLeft => TypeOK
    BY DEF IInv, Typed, PhaseMeans, Balanced, AttemptsLeft, TypeOK
<1> QED BY <1>1, BalancesInvariant, PTL

\* The balances of the account are the sums of the two ledgers and what is
\* committed exceeds the limit at most by what executors cost above their
\* estimates, whatever the workers, the crashes and the operators do
\* (BudgetService.reserve, settle, forfeit, configure, cancel_run).
THEOREM AccountsAddUp == Spec => []AccountSound
<1>1. Balanced => AccountSound
    BY DEF Balanced
<1> QED BY <1>1, BalancesInvariant, PTL

-----------------------------------------------------------------------------
(* A set in order.                                                         *)

\* R is a strict total order of S.
StrictOrder(S, R) ==
    /\ \A x \in S : <<x, x>> \notin R
    /\ \A x, y, z \in S : <<x, y>> \in R /\ <<y, z>> \in R => <<x, z>> \in R
    /\ \A x, y \in S : x # y => <<x, y>> \in R \/ <<y, x>> \in R

\* More elements stand before a later one.
LEMMA BeforeGrows ==
    ASSUME NEW S, IsFiniteSet(S), NEW R, StrictOrder(S, R), NEW x \in S, NEW y \in S, <<x, y>> \in R
    PROVE  /\ Cardinality(Before(S, R, x)) \in Nat /\ Cardinality(Before(S, R, y)) \in Nat
           /\ Cardinality(Before(S, R, x)) < Cardinality(Before(S, R, y))
<1>1. Before(S, R, x) \subseteq Before(S, R, y)
    BY DEF Before, StrictOrder
<1>2. x \in Before(S, R, y) /\ x \notin Before(S, R, x)
    BY DEF Before, StrictOrder
<1>3. Before(S, R, y) \subseteq S
    BY DEF Before
<1>4. IsFiniteSet(Before(S, R, y))
    BY <1>3, FS_Subset
<1>5. /\ IsFiniteSet(Before(S, R, x))
      /\ Cardinality(Before(S, R, x)) <= Cardinality(Before(S, R, y))
      /\ Cardinality(Before(S, R, y)) = Cardinality(Before(S, R, x)) => Before(S, R, y) = Before(S, R, x)
    BY <1>1, <1>4, FS_Subset
<1>6. Cardinality(Before(S, R, x)) # Cardinality(Before(S, R, y))
    BY <1>2, <1>5
<1>7. Cardinality(Before(S, R, x)) \in Nat /\ Cardinality(Before(S, R, y)) \in Nat
    BY <1>4, <1>5, FS_CardinalityType
<1> QED BY <1>5, <1>6, <1>7

\* Every place of the list is somebody's.
LEMMA EveryPlaceTaken ==
    ASSUME NEW S, IsFiniteSet(S), NEW R, StrictOrder(S, R)
    PROVE  /\ Cardinality(S) \in Nat
           /\ \A x \in S : Cardinality(Before(S, R, x)) + 1 \in 1 .. Cardinality(S)
           /\ \A n \in 1 .. Cardinality(S) : \E x \in S : Cardinality(Before(S, R, x)) = n - 1
<1>1. PICK m \in Nat : m = Cardinality(S)
    BY FS_CardinalityType
<1>2. ASSUME NEW x \in S
      PROVE  Cardinality(Before(S, R, x)) \in Nat /\ Cardinality(Before(S, R, x)) + 1 \in 1 .. m
    <2>1. Before(S, R, x) \subseteq S /\ Before(S, R, x) # S
        BY DEF Before, StrictOrder
    <2>2. /\ IsFiniteSet(Before(S, R, x))
          /\ Cardinality(Before(S, R, x)) <= Cardinality(S)
          /\ Cardinality(S) = Cardinality(Before(S, R, x)) => S = Before(S, R, x)
        BY <2>1, FS_Subset
    <2>3. Cardinality(Before(S, R, x)) \in Nat
        BY <2>2, FS_CardinalityType
    <2> QED BY <1>1, <2>1, <2>2, <2>3
<1>3. PICK f : f = [x \in S |-> Cardinality(Before(S, R, x)) + 1]
    OBVIOUS
<1>4. f \in [S -> 1 .. m]
    BY <1>2, <1>3
<1>5. \A x, y \in S : f[x] = f[y] => x = y
    <2> SUFFICES ASSUME NEW x \in S, NEW y \in S, x # y PROVE f[x] # f[y]
        OBVIOUS
    <2>1. <<x, y>> \in R \/ <<y, x>> \in R
        BY DEF StrictOrder
    <2>2. Cardinality(Before(S, R, x)) # Cardinality(Before(S, R, y))
        BY <2>1, BeforeGrows
    <2> QED BY <1>2, <1>3, <2>2
<1>6. f \in Injection(S, 1 .. m)
    BY <1>4, <1>5 DEF Injection, IsInjective
<1>7. IsFiniteSet(1 .. m) /\ Cardinality(1 .. m) = m
    BY FS_Interval
<1>8. f \in Surjection(S, 1 .. m)
    BY <1>1, <1>6, <1>7, FS_Injection
<1>9. \A n \in 1 .. m : \E x \in S : f[x] = n
    BY <1>8 DEF Surjection
<1>10. \A n \in 1 .. m : \E x \in S : Cardinality(Before(S, R, x)) = n - 1
    BY <1>2, <1>3, <1>9
<1> QED BY <1>1, <1>2, <1>10

\* The ordered list of a set: it holds the set's elements, each at one place,
\* and its places follow the order.
LEMMA OrderedSound ==
    ASSUME NEW S, IsFiniteSet(S), NEW R, StrictOrder(S, R)
    PROVE  /\ Ordered(S, R) \in Seq(S)
           /\ Len(Ordered(S, R)) = Cardinality(S) /\ Cardinality(S) \in Nat
           /\ \A x \in S : \E n \in 1 .. Cardinality(S) : Ordered(S, R)[n] = x
           /\ \A i, j \in 1 .. Cardinality(S) : i < j => <<Ordered(S, R)[i], Ordered(S, R)[j]>> \in R
<1>1. PICK m \in Nat : m = Cardinality(S)
    BY FS_CardinalityType
<1>2. PICK s : s = Ordered(S, R)
    OBVIOUS
<1>3. \A n \in 1 .. m : s[n] = CHOOSE x \in S : Cardinality(Before(S, R, x)) = n - 1
    BY <1>1, <1>2 DEF Ordered
<1>4. \A n \in 1 .. m : \E x \in S : Cardinality(Before(S, R, x)) = n - 1
    BY <1>1, EveryPlaceTaken
<1>5. \A n \in 1 .. m : s[n] \in S /\ Cardinality(Before(S, R, s[n])) = n - 1
    BY <1>3, <1>4
<1>6. s = [n \in 1 .. m |-> s[n]]
    BY <1>1, <1>2 DEF Ordered
<1>7. s \in Seq(S) /\ Len(s) = m
    <2>1. s \in [1 .. m -> S]
        BY <1>5, <1>6
    <2> QED BY <2>1, SeqDef
<1>8. ASSUME NEW x \in S, NEW y \in S, Cardinality(Before(S, R, x)) = Cardinality(Before(S, R, y))
      PROVE  x = y
    <2>1. <<x, y>> \notin R /\ <<y, x>> \notin R
        BY <1>8, BeforeGrows
    <2> QED BY <2>1 DEF StrictOrder
<1>9. ASSUME NEW x \in S PROVE \E n \in 1 .. m : s[n] = x
    <2>1. PICK n \in 1 .. m : n = Cardinality(Before(S, R, x)) + 1
        BY <1>1, EveryPlaceTaken
    <2>2. Cardinality(Before(S, R, x)) \in Nat
        <3>1. Before(S, R, x) \subseteq S
            BY DEF Before
        <3> QED BY <3>1, FS_Subset, FS_CardinalityType
    <2>3. n - 1 = Cardinality(Before(S, R, x))
        BY <2>1, <2>2
    <2> QED BY <1>5, <1>8, <2>3
<1>10. ASSUME NEW i \in 1 .. m, NEW j \in 1 .. m, i < j PROVE <<s[i], s[j]>> \in R
    <2>1. s[i] \in S /\ s[j] \in S /\ Cardinality(Before(S, R, s[i])) < Cardinality(Before(S, R, s[j]))
        BY <1>5, <1>10
    <2>2. <<s[j], s[i]>> \notin R
        <3> SUFFICES ASSUME <<s[j], s[i]>> \in R PROVE FALSE
            OBVIOUS
        <3>1. Cardinality(Before(S, R, s[j])) < Cardinality(Before(S, R, s[i]))
            BY <2>1, BeforeGrows
        <3> QED BY <1>5, <2>1, <3>1
    <2>3. s[i] # s[j]
        BY <1>5, <2>1
    <2> QED BY <2>1, <2>2, <2>3 DEF StrictOrder
<1> QED BY <1>1, <1>2, <1>7, <1>9, <1>10

-----------------------------------------------------------------------------
(* The audit trail of the service accounts.                                *)

\* The types of the rows and of the calls.
AcRowsTyped ==
    /\ acClock \in AcTimes /\ acClock # 0
    /\ acAccount \in [AcAccounts -> {"absent", "enabled", "disabled"}]
    /\ acCreds \in Seq(AcCredentialRows) /\ Len(acCreds) =< AcMaxCredentials
    /\ acEvents \in Seq(AcEventRows)
AcCallsTyped ==
    /\ acCalls \in 0..AcMaxCalls
    /\ acCall \in [AcCallers -> AcCallStates]

\* What a call read is still so when it commits: an account that exists stays,
\* and so do a credential, its account and its time of creation.
AcCallFits(call) ==
    /\ call.phase # "idle" => call.account \in AcAccounts /\ call.at # 0 /\ call.at =< acClock
    /\ call.phase \in {"issue", "issue_credential"} => (call.expires = 0 \/ call.expires > call.at)
    /\ call.phase \in {"issue_credential", "revoke"} => acAccount[call.account] # "absent"
    /\ call.phase \in {"authenticate", "revoke_credential"} =>
        /\ call.cred \in 1..Len(acCreds) /\ acCreds[call.cred].account = call.account
        /\ acCreds[call.cred].created =< call.at

\* One event issued credential i.
AcIssuedOnce(i) ==
    \E n \in 1..Len(acEvents) : \A m \in 1..Len(acEvents) :
        acEvents[m] = AcEvent("issued", acCreds[i].account, i) <=> m = n

\* The trail tells row i.
AcRowTold(i) ==
    /\ AcValid(acCreds[i]) /\ acCreds[i].created =< acClock
    /\ acAccount[acCreds[i].account] # "absent"
    /\ AcIssuedOnce(i)
    /\ (acCreds[i].revoked # 0) <=> AcLogged("revoked", acCreds[i].account, i)

\* The trail tells the accounts and speaks of credentials that exist.
AcAccountsTold ==
    \A a \in AcAccounts : (acAccount[a] = "disabled") <=> AcLogged("account_revoked", a, 0)
AcEventsFit ==
    \A n \in 1..Len(acEvents) :
        acEvents[n].type \in {"issued", "revoked"} => acEvents[n].cred \in 1..Len(acCreds)

AcTrail ==
    /\ \A i \in 1..Len(acCreds) : AcRowTold(i)
    /\ AcAccountsTold /\ AcEventsFit
    /\ \A c \in AcCallers : AcCallFits(acCall[c])

AcAuditIInv == AcRowsTyped /\ AcCallsTyped /\ AcTrail

\* A credential row, read from the table.
LEMMA AcRowTyped ==
    ASSUME AcRowsTyped, NEW i \in 1..Len(acCreds)
    PROVE  /\ acCreds[i] \in AcCredentialRows
           /\ acCreds[i].account \in AcAccounts /\ acCreds[i].created \in AcTimes
           /\ acCreds[i].expires \in AcTimes /\ acCreds[i].revoked \in AcTimes
           /\ acCreds[i].used \in AcTimes
<1>1. acCreds[i] \in AcCredentialRows
    BY DEF AcRowsTyped
<1> QED BY <1>1 DEF AcCredentialRows

\* An event appended to the ledger is the one difference.
LEMMA AcAppended ==
    ASSUME AcRowsTyped, NEW e \in AcEventRows, acEvents' = Append(acEvents, e)
    PROVE  /\ acEvents' \in Seq(AcEventRows) /\ Len(acEvents) \in Nat /\ Len(acEvents') = Len(acEvents) + 1
           /\ \A n \in 1..Len(acEvents) : acEvents'[n] = acEvents[n]
           /\ acEvents'[Len(acEvents) + 1] = e
           /\ \A n \in 1..Len(acEvents') : n \in 1..Len(acEvents) \/ n = Len(acEvents) + 1
           /\ 1..Len(acEvents) \subseteq 1..Len(acEvents')
           /\ Len(acEvents) + 1 \in 1..Len(acEvents')
           /\ \A type, a, i : AcLogged(type, a, i)' <=> (AcLogged(type, a, i) \/ e = AcEvent(type, a, i))
<1>1. /\ acEvents' \in Seq(AcEventRows) /\ Len(acEvents) \in Nat /\ Len(acEvents') = Len(acEvents) + 1
      /\ \A n \in 1..Len(acEvents) : acEvents'[n] = acEvents[n]
      /\ acEvents'[Len(acEvents) + 1] = e
    BY DEF AcRowsTyped
<1>2. \A n \in 1..Len(acEvents') : n \in 1..Len(acEvents) \/ n = Len(acEvents) + 1
    BY <1>1
<1>3. 1..Len(acEvents) \subseteq 1..Len(acEvents') /\ Len(acEvents) + 1 \in 1..Len(acEvents')
    BY <1>1
<1>4. \A type, a, i : AcLogged(type, a, i)' <=> (AcLogged(type, a, i) \/ e = AcEvent(type, a, i))
    <2> TAKE type, a, i
    <2>1. PICK x : x = AcEvent(type, a, i)
        OBVIOUS
    <2>2. AcLogged(type, a, i) <=> \E n \in 1..Len(acEvents) : acEvents[n] = x
        BY <2>1 DEF AcLogged
    <2>3. AcLogged(type, a, i)' <=> \E n \in 1..Len(acEvents') : acEvents'[n] = x
        BY <2>1 DEF AcLogged, AcEvent
    <2> QED BY <1>1, <1>2, <1>3, <2>1, <2>2, <2>3
<1> QED BY <1>1, <1>2, <1>3, <1>4

\* Another event leaves the one that issued credential i alone.
LEMMA AcStillIssuedOnce ==
    ASSUME AcRowsTyped, NEW i, NEW e \in AcEventRows, acEvents' = Append(acEvents, e),
           acCreds'[i].account = acCreds[i].account, AcIssuedOnce(i),
           e # AcEvent("issued", acCreds[i].account, i)
    PROVE  AcIssuedOnce(i)'
<1>1. PICK x : x = AcEvent("issued", acCreds[i].account, i)
    OBVIOUS
<1>2. PICK n \in 1..Len(acEvents) : \A m \in 1..Len(acEvents) : acEvents[m] = x <=> m = n
    BY <1>1 DEF AcIssuedOnce
<1>3. n \in 1..Len(acEvents') /\ n # Len(acEvents) + 1
    BY AcAppended
<1>4. \A m \in 1..Len(acEvents') : acEvents'[m] = x <=> m = n
    BY <1>1, <1>2, <1>3, AcAppended
<1>5. AcEvent("issued", acCreds[i].account, i)' = x
    BY <1>1 DEF AcEvent
<1> QED BY <1>3, <1>4, <1>5 DEF AcIssuedOnce

\* Tables only grow: accounts are not unregistered, credentials keep their
\* account and their creation, and time goes on.
AcGrows ==
    /\ acClock =< acClock'
    /\ \A a \in AcAccounts : acAccount[a] # "absent" => acAccount'[a] # "absent"
    /\ 1..Len(acCreds) \subseteq 1..Len(acCreds)'
    /\ \A i \in 1..Len(acCreds) :
        acCreds'[i].account = acCreds[i].account /\ acCreds'[i].created = acCreds[i].created

(* A call under way stays in step when the tables only grow. *)
LEMMA AcFitsKept ==
    ASSUME AcRowsTyped, AcRowsTyped', AcGrows, NEW call \in AcCallStates, AcCallFits(call)
    PROVE  AcCallFits(call)'
<1>1. call.at \in Int /\ acClock \in Int /\ acClock' \in Int
    BY AcAssumption DEF AcRowsTyped, AcCallStates, AcTimes
<1>2. call.phase # "idle" => call.account \in AcAccounts /\ call.at # 0 /\ call.at =< acClock'
    BY <1>1 DEF AcCallFits, AcGrows
<1>3. call.phase \in {"issue_credential", "revoke"} => acAccount'[call.account] # "absent"
    BY DEF AcCallFits, AcGrows
<1>4. call.phase \in {"authenticate", "revoke_credential"} =>
        /\ call.cred \in 1..Len(acCreds)' /\ acCreds'[call.cred].account = call.account
        /\ acCreds'[call.cred].created =< call.at
    BY DEF AcCallFits, AcGrows
<1> QED BY <1>2, <1>3, <1>4 DEF AcCallFits

\* A new credential row and the event that issued it.
LEMMA AcInserts ==
    ASSUME AcAuditIInv, NEW call \in AcCallStates, AcCallFits(call), call.phase \in {"issue", "issue_credential"},
           AcRoom, AcInsertCredential(call), UNCHANGED acClock,
           acAccount' \in [AcAccounts -> {"absent", "enabled", "disabled"}],
           acAccount'[call.account] # "absent",
           \A a \in AcAccounts : /\ acAccount[a] # "absent" => acAccount'[a] # "absent"
                                 /\ acAccount'[a] = "disabled" <=> acAccount[a] = "disabled"
    PROVE  AcRowsTyped' /\ AcGrows /\ (\A i \in 1..Len(acCreds)' : AcRowTold(i)') /\ AcAccountsTold' /\ AcEventsFit'
<1> USE AcAssumption
<1>1. PICK r \in AcCredentialRows : r = AcNewCredential(call)
    <2>1. 0 \in AcTimes
        BY DEF AcTimes
    <2>2. call.at \in AcTimes /\ call.expires \in AcTimes
        BY DEF AcCallStates
    <2>3. call.account \in AcAccounts
        BY DEF AcCallFits
    <2>4. AcNewCredential(call) \in AcCredentialRows
        BY <2>1, <2>2, <2>3 DEF AcCredentialRows, AcNewCredential
    <2> QED BY <2>4
<1>2. PICK n \in 1..AcMaxCredentials : n = Len(acCreds) + 1
    BY DEF AcAuditIInv, AcRowsTyped, AcRoom
<1>3. call.account \in AcAccounts
    BY DEF AcCallFits
<1>4. PICK e \in AcEventRows : e = AcEvent("issued", call.account, n)
    <2>1. n \in 0..AcMaxCredentials
        BY <1>2
    <2>2. AcEvent("issued", call.account, n) \in AcEventRows
        BY <1>3, <2>1 DEF AcEventRows, AcEvent
    <2> QED BY <2>2
<1>5. acCreds' = Append(acCreds, r) /\ acEvents' = Append(acEvents, e)
    BY <1>1, <1>2, <1>4 DEF AcInsertCredential
<1>6. /\ acCreds' \in Seq(AcCredentialRows) /\ Len(acCreds') = n
      /\ acCreds'[n] = r /\ \A i \in 1..Len(acCreds) : acCreds'[i] = acCreds[i]
      /\ Len(acCreds) \in Nat
    BY <1>2, <1>5 DEF AcAuditIInv, AcRowsTyped
<1>7. \A i \in 1..Len(acCreds)' : i \in 1..Len(acCreds) \/ i = n
    BY <1>2, <1>6
<1>8. n \notin 1..Len(acCreds) /\ 1..Len(acCreds) \subseteq 1..Len(acCreds)' /\ n \in 1..Len(acCreds)'
    BY <1>2, <1>6
<1>9. AcRowsTyped'
    BY <1>5, <1>6, AcAppended DEF AcAuditIInv, AcRowsTyped
<1>10. AcGrows
    <2>1. acClock =< acClock'
        BY DEF AcAuditIInv, AcRowsTyped, AcTimes
    <2> QED BY <1>6, <1>8, <2>1 DEF AcGrows
<1>11. ASSUME NEW i \in 1..Len(acCreds) PROVE AcRowTold(i)'
    <2>1. acCreds'[i] = acCreds[i] /\ i # n /\ acCreds[i].account \in AcAccounts
        BY <1>6, <1>8, AcRowTyped DEF AcAuditIInv
    <2>2. AcRowTold(i)
        BY DEF AcAuditIInv, AcTrail
    <2>3. e # AcEvent("issued", acCreds[i].account, i)
        BY <1>4, <2>1 DEF AcEvent
    <2>4. AcIssuedOnce(i)'
        BY <1>5, <2>1, <2>2, <2>3, AcStillIssuedOnce DEF AcAuditIInv, AcRowTold
    <2>5. e # AcEvent("revoked", acCreds[i].account, i)
        BY <1>4 DEF AcEvent
    <2>6. PICK a : a = acCreds[i].account
        OBVIOUS
    <2>7. AcLogged("revoked", a, i)' <=> AcLogged("revoked", a, i)
        BY <1>5, <2>5, <2>6, AcAppended DEF AcAuditIInv
    <2>8. AcLogged("revoked", acCreds[i].account, i)' <=> AcLogged("revoked", a, i)'
        BY <2>1, <2>6 DEF AcLogged, AcEvent
    <2> QED BY <2>1, <2>2, <2>4, <2>6, <2>7, <2>8 DEF AcRowTold
<1>12. AcRowTold(n)'
    <2>1. AcValid(r) /\ r.created =< acClock
        BY <1>1 DEF AcNewCredential, AcValid, AcCallFits
    <2>2. r.account = call.account /\ r.revoked = 0
        BY <1>1 DEF AcNewCredential
    <2>3. \A m \in 1..Len(acEvents) : acEvents[m] # e
        <3> SUFFICES ASSUME NEW m \in 1..Len(acEvents), acEvents[m] = e PROVE FALSE
            OBVIOUS
        <3>1. acEvents[m].type = "issued" /\ acEvents[m].cred = n
            BY <1>4 DEF AcEvent
        <3> QED BY <1>8, <3>1 DEF AcAuditIInv, AcTrail, AcEventsFit
    <2>4. PICK k : k = Len(acEvents) + 1
        OBVIOUS
    <2>5. k \in 1..Len(acEvents') /\ k \notin 1..Len(acEvents) /\ \A m \in 1..Len(acEvents') : acEvents'[m] = e <=> m = k
        BY <1>5, <2>3, <2>4, AcAppended DEF AcAuditIInv
    <2>6. AcEvent("issued", acCreds[n].account, n)' = e
        BY <1>4, <1>6, <2>2 DEF AcEvent
    <2>7. AcIssuedOnce(n)'
        BY <2>5, <2>6 DEF AcIssuedOnce
    <2>8. ~AcLogged("revoked", call.account, n)
        <3> SUFFICES ASSUME NEW m \in 1..Len(acEvents), acEvents[m] = AcEvent("revoked", call.account, n) PROVE FALSE
            BY DEF AcLogged
        <3>1. acEvents[m].type = "revoked" /\ acEvents[m].cred = n
            BY DEF AcEvent
        <3> QED BY <1>8, <3>1 DEF AcAuditIInv, AcTrail, AcEventsFit
    <2>9. e # AcEvent("revoked", call.account, n)
        BY <1>4 DEF AcEvent
    <2>10. ~AcLogged("revoked", call.account, n)'
        BY <1>5, <2>8, <2>9, AcAppended DEF AcAuditIInv
    <2>11. ~AcLogged("revoked", acCreds[n].account, n)'
        BY <1>6, <2>2, <2>10 DEF AcLogged, AcEvent
    <2> QED BY <1>6, <2>1, <2>2, <2>7, <2>11 DEF AcRowTold
<1>13. \A i \in 1..Len(acCreds)' : AcRowTold(i)'
    BY <1>7, <1>11, <1>12
<1>14. AcAccountsTold'
    <2> SUFFICES ASSUME NEW a \in AcAccounts
                 PROVE  (acAccount'[a] = "disabled") <=> AcLogged("account_revoked", a, 0)'
        BY DEF AcAccountsTold
    <2>1. e # AcEvent("account_revoked", a, 0)
        BY <1>4 DEF AcEvent
    <2>2. AcLogged("account_revoked", a, 0)' <=> AcLogged("account_revoked", a, 0)
        BY <1>5, <2>1, AcAppended DEF AcAuditIInv
    <2> QED BY <2>2 DEF AcAuditIInv, AcTrail, AcAccountsTold
<1>15. AcEventsFit'
    <2> SUFFICES ASSUME NEW m \in 1..Len(acEvents'), acEvents'[m].type \in {"issued", "revoked"}
                 PROVE  acEvents'[m].cred \in 1..Len(acCreds)'
        BY DEF AcEventsFit
    <2>1. e.cred = n
        BY <1>4 DEF AcEvent
    <2>2. CASE m \in 1..Len(acEvents)
        BY <1>5, <1>8, <2>2, AcAppended DEF AcAuditIInv, AcTrail, AcEventsFit
    <2>3. CASE m = Len(acEvents) + 1
        BY <1>5, <1>8, <2>1, <2>3, AcAppended DEF AcAuditIInv
    <2> QED BY <1>5, <2>2, <2>3, AcAppended DEF AcAuditIInv
<1> QED BY <1>9, <1>10, <1>13, <1>14, <1>15

\* A row that is written back leaves the others alone.
LEMMA AcRewritten ==
    ASSUME AcRowsTyped, NEW i \in 1..Len(acCreds), NEW r \in AcCredentialRows,
           r.account = acCreds[i].account, r.created = acCreds[i].created,
           acCreds' = [acCreds EXCEPT ![i] = r], UNCHANGED acClock,
           \A a \in AcAccounts : acAccount[a] # "absent" => acAccount'[a] # "absent"
    PROVE  /\ acCreds' \in Seq(AcCredentialRows) /\ Len(acCreds') = Len(acCreds)
           /\ acCreds'[i] = r /\ \A j \in 1..Len(acCreds) : j # i => acCreds'[j] = acCreds[j]
           /\ AcGrows
<1>1. /\ acCreds' \in Seq(AcCredentialRows) /\ Len(acCreds') = Len(acCreds)
      /\ acCreds'[i] = r /\ \A j \in 1..Len(acCreds) : j # i => acCreds'[j] = acCreds[j]
    BY DEF AcRowsTyped
<1>2. acClock =< acClock'
    BY AcAssumption DEF AcRowsTyped, AcTimes
<1>3. \A j \in 1..Len(acCreds) : acCreds'[j].account = acCreds[j].account /\ acCreds'[j].created = acCreds[j].created
    BY <1>1
<1> QED BY <1>1, <1>2, <1>3 DEF AcGrows

\* mark_used keeps all of a row but the time of its last use.
LEMMA AcMarked ==
    ASSUME AcRowsTyped, NEW call \in AcCallStates, AcCallFits(call), call.phase = "authenticate"
    PROVE  LET r == AcMarkUsed(acCreds[call.cred], call)
           IN  /\ r \in AcCredentialRows
               /\ r.account = acCreds[call.cred].account /\ r.created = acCreds[call.cred].created
               /\ r.revoked = acCreds[call.cred].revoked
               /\ AcValid(acCreds[call.cred]) => AcValid(r)
<1>1. PICK i \in 1..Len(acCreds) : i = call.cred
    BY DEF AcCallFits
<1>2. PICK o \in AcCredentialRows : o = acCreds[i]
    BY AcRowTyped
<1>3. call.at \in AcTimes /\ o.created =< call.at
    BY <1>1, <1>2 DEF AcCallFits, AcCallStates
<1>4. PICK r \in AcCredentialRows : r = [o EXCEPT !.used = call.at]
    <2>1. [o EXCEPT !.used = call.at] \in AcCredentialRows
        BY <1>3 DEF AcCredentialRows
    <2> QED BY <2>1
<1>5. r.account = o.account /\ r.created = o.created /\ r.revoked = o.revoked /\ r.expires = o.expires /\ r.used = call.at
    BY <1>4 DEF AcCredentialRows
<1>6. AcValid(o) => AcValid(r)
    BY <1>3, <1>5 DEF AcValid
<1>7. AcMarkUsed(o, call) = r \/ AcMarkUsed(o, call) = o
    BY <1>4 DEF AcMarkUsed
<1> QED BY <1>1, <1>2, <1>5, <1>6, <1>7

(* An authentication keeps the audit invariant. *)
LEMMA AcAuthenticates ==
    ASSUME AcAuditIInv, NEW c \in AcCallers, AcCommitAuthenticate(c)
    PROVE  AcRowsTyped' /\ AcGrows /\ (\A i \in 1..Len(acCreds)' : AcRowTold(i)') /\ AcAccountsTold' /\ AcEventsFit'
<1>1. PICK call \in AcCallStates : call = acCall[c]
    BY DEF AcAuditIInv, AcCallsTyped
<1>2. AcCallFits(call) /\ call.phase = "authenticate"
    BY <1>1 DEF AcAuditIInv, AcTrail, AcCommitAuthenticate
<1>3. PICK i \in 1..Len(acCreds) : i = call.cred
    BY <1>2 DEF AcCallFits
<1>4. PICK r : r = AcMarkUsed(acCreds[i], call)
    OBVIOUS
<1>5. /\ r \in AcCredentialRows
      /\ r.account = acCreds[i].account /\ r.created = acCreds[i].created /\ r.revoked = acCreds[i].revoked
      /\ AcValid(acCreds[i]) => AcValid(r)
    BY <1>2, <1>3, <1>4, AcMarked DEF AcAuditIInv
<1>6. acCreds' = [acCreds EXCEPT ![i] = r] /\ acAccount' = acAccount /\ acEvents' = acEvents /\ acClock' = acClock
    BY <1>1, <1>3, <1>4 DEF AcCommitAuthenticate, AcEnd
<1>7. /\ acCreds' \in Seq(AcCredentialRows) /\ Len(acCreds') = Len(acCreds)
      /\ acCreds'[i] = r /\ \A j \in 1..Len(acCreds) : j # i => acCreds'[j] = acCreds[j]
      /\ AcGrows
    BY <1>5, <1>6, AcRewritten DEF AcAuditIInv
<1>8. AcRowsTyped' /\ AcEventsFit'
    BY <1>6, <1>7 DEF AcAuditIInv, AcRowsTyped, AcTrail, AcEventsFit
<1>9. \A type, a, j : AcLogged(type, a, j)' <=> AcLogged(type, a, j)
    BY <1>6 DEF AcLogged, AcEvent
<1>10. AcAccountsTold'
    BY <1>6, <1>9 DEF AcAuditIInv, AcTrail, AcAccountsTold
<1>11. ASSUME NEW j \in 1..Len(acCreds) PROVE AcRowTold(j)'
    <2>1. /\ acCreds'[j].account = acCreds[j].account /\ acCreds'[j].revoked = acCreds[j].revoked
          /\ acCreds'[j].created = acCreds[j].created
        BY <1>5, <1>7
    <2>2. AcRowTold(j)
        BY DEF AcAuditIInv, AcTrail
    <2>3. AcValid(acCreds[j])'
        BY <1>5, <1>7, <2>2 DEF AcRowTold, AcValid
    <2>4. AcIssuedOnce(j)'
        <3>1. AcIssuedOnce(j) /\ acEvents' = acEvents /\ acCreds'[j].account = acCreds[j].account
            BY <1>6, <2>1, <2>2 DEF AcRowTold
        <3> QED BY <3>1 DEF AcIssuedOnce
    <2>5. PICK a : a = acCreds[j].account
        OBVIOUS
    <2>6. AcLogged("revoked", acCreds[j].account, j)' <=> AcLogged("revoked", a, j)'
        BY <2>1, <2>5 DEF AcLogged, AcEvent
    <2>7. (acCreds'[j].revoked # 0) <=> AcLogged("revoked", acCreds[j].account, j)'
        BY <1>9, <2>1, <2>2, <2>5, <2>6 DEF AcRowTold
    <2> QED BY <1>6, <2>1, <2>2, <2>3, <2>4, <2>7 DEF AcRowTold
<1> QED BY <1>7, <1>8, <1>10, <1>11

(* Revoking a credential keeps the audit invariant. *)
LEMMA AcRevokesCredential ==
    ASSUME AcAuditIInv, NEW c \in AcCallers, AcCommitRevokeCredential(c)
    PROVE  AcRowsTyped' /\ AcGrows /\ (\A i \in 1..Len(acCreds)' : AcRowTold(i)') /\ AcAccountsTold' /\ AcEventsFit'
<1>1. PICK call \in AcCallStates : call = acCall[c]
    BY DEF AcAuditIInv, AcCallsTyped
<1>2. AcCallFits(call) /\ call.phase = "revoke_credential"
    BY <1>1 DEF AcAuditIInv, AcTrail, AcCommitRevokeCredential
<1>3. PICK i \in 1..Len(acCreds) : i = call.cred
    BY <1>2 DEF AcCallFits
<1>4. PICK o \in AcCredentialRows : o = acCreds[i]
    BY AcRowTyped DEF AcAuditIInv
<1>5. PICK r \in AcCredentialRows : r = [o EXCEPT !.revoked = call.at]
    <2>1. call.at \in AcTimes
        BY DEF AcCallStates
    <2>2. [o EXCEPT !.revoked = call.at] \in AcCredentialRows
        BY <2>1 DEF AcCredentialRows
    <2> QED BY <2>2
<1>6. /\ r.account = o.account /\ r.created = o.created /\ r.revoked = call.at /\ r.expires = o.expires
      /\ r.used = o.used /\ o.account = call.account /\ o.created =< call.at /\ call.at # 0
    BY <1>2, <1>3, <1>4, <1>5 DEF AcCredentialRows, AcCallFits
<1>7. PICK e \in AcEventRows : e = AcEvent("revoked", call.account, i)
    <2>1. call.account \in AcAccounts /\ call.cred \in 0..AcMaxCredentials
        BY <1>2 DEF AcCallFits, AcCallStates
    <2>2. AcEvent("revoked", call.account, call.cred) \in AcEventRows
        BY <2>1 DEF AcEventRows, AcEvent
    <2> QED BY <1>3, <2>2
<1>8. /\ acCreds' = [acCreds EXCEPT ![i] = r] /\ acAccount' = acAccount /\ acClock' = acClock
      /\ acEvents' = Append(acEvents, e)
    <2>1. acCreds' = [acCreds EXCEPT ![i] = [acCreds[i] EXCEPT !.revoked = call.at]]
        BY <1>1, <1>3 DEF AcCommitRevokeCredential
    <2> QED BY <1>1, <1>3, <1>4, <1>5, <1>7, <2>1 DEF AcCommitRevokeCredential, AcEnd
<1>9. /\ acCreds' \in Seq(AcCredentialRows) /\ Len(acCreds') = Len(acCreds)
      /\ acCreds'[i] = r /\ \A j \in 1..Len(acCreds) : j # i => acCreds'[j] = acCreds[j]
      /\ AcGrows
    BY <1>4, <1>6, <1>8, AcRewritten DEF AcAuditIInv
<1>10. AcRowsTyped'
    BY <1>8, <1>9, AcAppended DEF AcAuditIInv, AcRowsTyped
<1>11. ASSUME NEW j \in 1..Len(acCreds) PROVE AcRowTold(j)'
    <2>1. acCreds'[j].account = acCreds[j].account /\ acCreds'[j].created = acCreds[j].created
        BY <1>4, <1>6, <1>9
    <2>2. AcRowTold(j)
        BY DEF AcAuditIInv, AcTrail
    <2>3. AcValid(acCreds[j])'
        <3>1. CASE j = i
            <4>1. AcValid(o)
                BY <1>4, <2>2, <3>1 DEF AcRowTold
            <4>2. AcValid(r)
                BY <1>6, <4>1 DEF AcValid
            <4> QED BY <1>9, <3>1, <4>2 DEF AcValid
        <3>2. CASE j # i
            BY <1>9, <2>2, <3>2 DEF AcRowTold, AcValid
        <3> QED BY <3>1, <3>2
    <2>4. e # AcEvent("issued", acCreds[j].account, j)
        BY <1>7 DEF AcEvent
    <2>5. AcIssuedOnce(j)'
        BY <1>8, <2>1, <2>2, <2>4, AcStillIssuedOnce DEF AcAuditIInv, AcRowTold
    <2>6. PICK a : a = acCreds[j].account
        OBVIOUS
    <2>7. AcLogged("revoked", acCreds[j].account, j)' <=> AcLogged("revoked", a, j)'
        BY <2>1, <2>6 DEF AcLogged, AcEvent
    <2>8. AcLogged("revoked", a, j)' <=> (AcLogged("revoked", a, j) \/ e = AcEvent("revoked", a, j))
        BY <1>8, AcAppended DEF AcAuditIInv
    <2>9. (acCreds'[j].revoked # 0) <=> AcLogged("revoked", acCreds[j].account, j)'
        <3>1. CASE j = i
            <4>1. e = AcEvent("revoked", a, j) /\ acCreds'[j].revoked # 0
                BY <1>4, <1>6, <1>7, <1>9, <2>6, <3>1
            <4> QED BY <2>7, <2>8, <4>1
        <3>2. CASE j # i
            <4>1. e # AcEvent("revoked", a, j) /\ acCreds'[j].revoked = acCreds[j].revoked
                BY <1>7, <1>9, <3>2 DEF AcEvent
            <4> QED BY <2>2, <2>6, <2>7, <2>8, <4>1 DEF AcRowTold
        <3> QED BY <3>1, <3>2
    <2> QED BY <1>8, <2>1, <2>2, <2>3, <2>5, <2>9 DEF AcRowTold
<1>12. AcAccountsTold'
    <2> SUFFICES ASSUME NEW a \in AcAccounts
                 PROVE  (acAccount'[a] = "disabled") <=> AcLogged("account_revoked", a, 0)'
        BY DEF AcAccountsTold
    <2>1. e # AcEvent("account_revoked", a, 0)
        BY <1>7 DEF AcEvent
    <2>2. AcLogged("account_revoked", a, 0)' <=> AcLogged("account_revoked", a, 0)
        BY <1>8, <2>1, AcAppended DEF AcAuditIInv
    <2> QED BY <1>8, <2>2 DEF AcAuditIInv, AcTrail, AcAccountsTold
<1>13. AcEventsFit'
    <2> SUFFICES ASSUME NEW m \in 1..Len(acEvents'), acEvents'[m].type \in {"issued", "revoked"}
                 PROVE  acEvents'[m].cred \in 1..Len(acCreds)'
        BY DEF AcEventsFit
    <2>1. e.cred = i
        BY <1>7 DEF AcEvent
    <2>2. CASE m \in 1..Len(acEvents)
        BY <1>8, <1>9, <2>2, AcAppended DEF AcAuditIInv, AcTrail, AcEventsFit
    <2>3. CASE m = Len(acEvents) + 1
        BY <1>8, <1>9, <2>1, <2>3, AcAppended DEF AcAuditIInv
    <2> QED BY <1>8, <2>2, <2>3, AcAppended DEF AcAuditIInv
<1> QED BY <1>9, <1>10, <1>11, <1>12, <1>13

(* Disabling an account keeps the audit invariant. *)
LEMMA AcDisables ==
    ASSUME AcAuditIInv, NEW c \in AcCallers, AcCommitRevoke(c)
    PROVE  AcRowsTyped' /\ AcGrows /\ (\A i \in 1..Len(acCreds)' : AcRowTold(i)') /\ AcAccountsTold' /\ AcEventsFit'
<1> USE AcAssumption
<1>1. PICK call \in AcCallStates : call = acCall[c]
    BY DEF AcAuditIInv, AcCallsTyped
<1>2. AcCallFits(call) /\ call.phase = "revoke"
    BY <1>1 DEF AcAuditIInv, AcTrail, AcCommitRevoke
<1>3. PICK b \in AcAccounts : b = call.account
    BY <1>2 DEF AcCallFits
<1>4. PICK e \in AcEventRows : e = AcEvent("account_revoked", b, 0)
    <2>1. 0 \in 0..AcMaxCredentials
        OBVIOUS
    <2>2. AcEvent("account_revoked", b, 0) \in AcEventRows
        BY <2>1 DEF AcEventRows, AcEvent
    <2> QED BY <2>2
<1>5. /\ acAccount' = [acAccount EXCEPT ![b] = "disabled"] /\ acCreds' = acCreds /\ acClock' = acClock
      /\ acEvents' = Append(acEvents, e)
    BY <1>1, <1>3, <1>4 DEF AcCommitRevoke, AcEnd
<1>6. /\ acAccount' \in [AcAccounts -> {"absent", "enabled", "disabled"}] /\ acAccount'[b] = "disabled"
      /\ \A a \in AcAccounts : a # b => acAccount'[a] = acAccount[a]
    BY <1>5 DEF AcAuditIInv, AcRowsTyped
<1>7. \A a \in AcAccounts : acAccount[a] # "absent" => acAccount'[a] # "absent"
    BY <1>6
<1>8. AcRowsTyped'
    BY <1>5, <1>6, AcAppended DEF AcAuditIInv, AcRowsTyped
<1>9. AcGrows
    <2>1. acClock =< acClock'
        BY <1>5 DEF AcAuditIInv, AcRowsTyped, AcTimes
    <2> QED BY <1>5, <1>7, <2>1 DEF AcGrows
<1>10. ASSUME NEW j \in 1..Len(acCreds) PROVE AcRowTold(j)'
    <2>1. AcRowTold(j)
        BY DEF AcAuditIInv, AcTrail
    <2>2. e # AcEvent("issued", acCreds[j].account, j) /\ e # AcEvent("revoked", acCreds[j].account, j)
        BY <1>4 DEF AcEvent
    <2>3. AcIssuedOnce(j)'
        BY <1>5, <2>1, <2>2, AcStillIssuedOnce DEF AcAuditIInv, AcRowTold
    <2>4. PICK a : a = acCreds[j].account
        OBVIOUS
    <2>5. AcLogged("revoked", a, j)' <=> AcLogged("revoked", a, j)
        BY <1>5, <2>2, <2>4, AcAppended DEF AcAuditIInv
    <2>6. AcLogged("revoked", acCreds[j].account, j)' <=> AcLogged("revoked", a, j)'
        BY <1>5, <2>4 DEF AcLogged, AcEvent
    <2>7. acAccount'[acCreds[j].account] # "absent"
        BY <1>7, <2>1, AcRowTyped DEF AcAuditIInv, AcRowTold
    <2>8. AcValid(acCreds[j])'
        BY <1>5, <2>1 DEF AcRowTold, AcValid
    <2> QED BY <1>5, <2>1, <2>3, <2>4, <2>5, <2>6, <2>7, <2>8 DEF AcRowTold
<1>11. AcAccountsTold'
    <2> SUFFICES ASSUME NEW a \in AcAccounts
                 PROVE  (acAccount'[a] = "disabled") <=> AcLogged("account_revoked", a, 0)'
        BY DEF AcAccountsTold
    <2>1. AcLogged("account_revoked", a, 0)' <=>
            (AcLogged("account_revoked", a, 0) \/ e = AcEvent("account_revoked", a, 0))
        BY <1>5, AcAppended DEF AcAuditIInv
    <2>2. a # b => e # AcEvent("account_revoked", a, 0)
        BY <1>4 DEF AcEvent
    <2>3. (acAccount[a] = "disabled") <=> AcLogged("account_revoked", a, 0)
        BY DEF AcAuditIInv, AcTrail, AcAccountsTold
    <2> QED BY <1>4, <1>6, <2>1, <2>2, <2>3
<1>12. AcEventsFit'
    <2> SUFFICES ASSUME NEW m \in 1..Len(acEvents'), acEvents'[m].type \in {"issued", "revoked"}
                 PROVE  acEvents'[m].cred \in 1..Len(acCreds)'
        BY DEF AcEventsFit
    <2>1. e.type = "account_revoked"
        BY <1>4 DEF AcEvent
    <2>2. CASE m \in 1..Len(acEvents)
        BY <1>5, <2>2, AcAppended DEF AcAuditIInv, AcTrail, AcEventsFit
    <2>3. CASE m = Len(acEvents) + 1
        BY <1>5, <2>1, <2>3, AcAppended DEF AcAuditIInv
    <2> QED BY <1>5, <2>2, <2>3, AcAppended DEF AcAuditIInv
<1> QED BY <1>5, <1>8, <1>9, <1>10, <1>11, <1>12

\* Serving one call leaves the others with what they read.
LEMMA AcOthersFit ==
    ASSUME AcAuditIInv, AcRowsTyped', AcGrows, NEW c \in AcCallers, NEW call \in AcCallStates,
           AcCallFits(call)', acCall' = [acCall EXCEPT ![c] = call]
    PROVE  acCall' \in [AcCallers -> AcCallStates] /\ \A d \in AcCallers : AcCallFits(acCall[d])'
<1>1. acCall' \in [AcCallers -> AcCallStates] /\ acCall'[c] = call /\ \A d \in AcCallers : d # c => acCall'[d] = acCall[d]
    BY DEF AcAuditIInv, AcCallsTyped
<1>2. ASSUME NEW d \in AcCallers PROVE AcCallFits(acCall[d])'
    <2>1. PICK x \in AcCallStates : x = acCall'[d]
        BY <1>1
    <2>2. AcCallFits(x)'
        <3>1. CASE d = c
            BY <1>1, <2>1, <3>1
        <3>2. CASE d # c
            <4>1. AcCallFits(x)
                BY <1>1, <2>1, <3>2 DEF AcAuditIInv, AcTrail
            <4> QED BY <4>1, AcFitsKept DEF AcAuditIInv
        <3> QED BY <3>1, <3>2
    <2> QED BY <2>1, <2>2 DEF AcCallFits
<1> QED BY <1>1, <1>2

\* No call is being served.
LEMMA AcNoneFits == AcNone \in AcCallStates /\ AcCallFits(AcNone)'
<1>1. 0 \in AcTimes /\ 0 \in 0..AcKeys /\ 0 \in 0..AcMaxCredentials
    BY AcAssumption DEF AcTimes
<1>2. AcNone \in AcCallStates
    BY <1>1 DEF AcNone, AcCallStates
<1>3. AcNone.phase = "idle"
    BY DEF AcNone
<1>4. PICK x \in AcCallStates : x = AcNone
    BY <1>2
<1>5. x.phase = "idle"
    BY <1>3, <1>4
<1>6. AcCallFits(x)'
    BY <1>5 DEF AcCallFits
<1> QED BY <1>2, <1>4, <1>6

\* A step that leaves the rows alone, but for the clock.
LEMMA AcRowsKept ==
    ASSUME AcAuditIInv, UNCHANGED acRows, acClock' \in AcTimes, acClock =< acClock'
    PROVE  AcRowsTyped' /\ AcGrows /\ (\A i \in 1..Len(acCreds)' : AcRowTold(i)') /\ AcAccountsTold' /\ AcEventsFit'
<1> USE AcAssumption
<1>1. acAccount' = acAccount /\ acCreds' = acCreds /\ acEvents' = acEvents
    BY DEF acRows
<1>2. acClock' # 0 /\ acClock \in Int /\ acClock' \in Int
    BY DEF AcAuditIInv, AcRowsTyped, AcTimes
<1>3. AcRowsTyped' /\ AcGrows
    BY <1>1, <1>2 DEF AcAuditIInv, AcRowsTyped, AcGrows
<1>4. AcEventsFit' /\ AcAccountsTold'
    BY <1>1 DEF AcAuditIInv, AcTrail, AcEventsFit, AcAccountsTold, AcLogged, AcEvent
<1>5. ASSUME NEW i \in 1..Len(acCreds) PROVE AcRowTold(i)'
    <2>1. AcRowTold(i)
        BY DEF AcAuditIInv, AcTrail
    <2>2. AcIssuedOnce(i)' /\ (AcLogged("revoked", acCreds[i].account, i)' <=> AcLogged("revoked", acCreds[i].account, i))
        BY <1>1, <2>1 DEF AcRowTold, AcIssuedOnce, AcLogged, AcEvent
    <2>3. AcValid(acCreds[i])'
        BY <1>1, <2>1 DEF AcRowTold, AcValid
    <2>4. acCreds[i].created =< acClock'
        <3>1. acCreds[i].created \in Int
            BY AcRowTyped DEF AcAuditIInv, AcTimes
        <3> QED BY <1>2, <2>1, <3>1 DEF AcRowTold
    <2> QED BY <1>1, <2>1, <2>2, <2>3, <2>4 DEF AcRowTold
<1> QED BY <1>1, <1>3, <1>4, <1>5

\* Beginning a call: the rows stay and the call fits what it read.
LEMMA AcBegins ==
    ASSUME AcAuditIInv, NEW c \in AcCallers, NEW call \in AcCallStates, AcCallFits(call), AcBegin(c, call)
    PROVE  AcAuditIInv'
<1>1. UNCHANGED acRows /\ acClock' = acClock /\ acCalls' \in 0..AcMaxCalls
    BY AcAssumption DEF AcBegin, AcAuditIInv, AcCallsTyped
<1>2. acClock' \in AcTimes /\ acClock =< acClock'
    BY <1>1, AcAssumption DEF AcAuditIInv, AcRowsTyped, AcTimes
<1>3. AcRowsTyped' /\ AcGrows /\ (\A i \in 1..Len(acCreds)' : AcRowTold(i)') /\ AcAccountsTold' /\ AcEventsFit'
    BY <1>1, <1>2, AcRowsKept
<1>4. AcCallFits(call)'
    BY <1>3, AcFitsKept DEF AcAuditIInv
<1>5. acCall' = [acCall EXCEPT ![c] = call]
    BY DEF AcBegin
<1>6. acCall' \in [AcCallers -> AcCallStates] /\ \A d \in AcCallers : AcCallFits(acCall[d])'
    BY <1>3, <1>4, <1>5, AcOthersFit
<1> QED BY <1>1, <1>3, <1>6 DEF AcAuditIInv, AcCallsTyped, AcTrail

\* Ending a call, with its commit or without.
LEMMA AcEnds ==
    ASSUME AcAuditIInv, NEW c \in AcCallers, AcEnd(c), AcRowsTyped', AcGrows,
           \A i \in 1..Len(acCreds)' : AcRowTold(i)', AcAccountsTold', AcEventsFit'
    PROVE  AcAuditIInv'
<1>1. acCall' = [acCall EXCEPT ![c] = AcNone] /\ acCalls' = acCalls
    BY DEF AcEnd
<1>2. acCall' \in [AcCallers -> AcCallStates] /\ \A d \in AcCallers : AcCallFits(acCall[d])'
    BY <1>1, AcNoneFits, AcOthersFit
<1> QED BY <1>1, <1>2 DEF AcAuditIInv, AcCallsTyped, AcTrail

\* Whatever a call reads, it fits.
LEMMA AcReadsFit ==
    ASSUME AcAuditIInv, NEW c \in AcCallers, AcBeginCall(c)
    PROVE  AcAuditIInv'
<1> USE AcAssumption
<1>1. acClock \in AcTimes /\ acClock # 0 /\ acClock =< acClock
    BY DEF AcAuditIInv, AcRowsTyped, AcTimes
<1>2. 0 \in AcTimes /\ 0 \in 0..AcMaxCredentials /\ AcAccounts \subseteq 0..AcKeys
    BY DEF AcTimes, AcAccounts
<1>3. 1..Len(acCreds) \subseteq 0..AcMaxCredentials
    BY DEF AcAuditIInv, AcRowsTyped
<1>4. CASE AcRefuse(c)
    <2>1. PICK x \in AcCallStates : x = AcNone
        BY AcNoneFits
    <2>2. x.phase = "idle"
        BY <2>1 DEF AcNone
    <2>3. AcCallFits(x)
        BY <2>2 DEF AcCallFits
    <2> QED BY <1>4, <2>1, <2>3, AcBegins DEF AcRefuse
<1>5. ASSUME NEW a \in AcAccounts, NEW e \in AcTimes, NEW p \in {"issue", "issue_credential"},
             e = 0 \/ e > acClock, p = "issue_credential" => acAccount[a] # "absent",
             AcBegin(c, [AcNone EXCEPT !.phase = p, !.account = a, !.at = acClock, !.expires = e])
      PROVE  AcAuditIInv'
    <2>1. PICK x \in AcCallStates : x = [AcNone EXCEPT !.phase = p, !.account = a, !.at = acClock, !.expires = e]
        <3>1. [AcNone EXCEPT !.phase = p, !.account = a, !.at = acClock, !.expires = e] \in AcCallStates
            BY <1>1, <1>2 DEF AcNone, AcCallStates
        <3> QED BY <3>1
    <2>2. x.phase = p /\ x.account = a /\ x.at = acClock /\ x.expires = e
        BY <2>1 DEF AcNone
    <2>3. AcCallFits(x)
        BY <1>1, <1>5, <2>2 DEF AcCallFits
    <2> QED BY <1>5, <2>1, <2>3, AcBegins
<1>6. ASSUME NEW i \in 1..Len(acCreds), NEW x \in AcCallStates,
             x.phase \in {"authenticate", "revoke_credential"}, x.account = acCreds[i].account,
             x.cred = i, x.at = acClock, AcBegin(c, x)
      PROVE  AcAuditIInv'
    <2>1. acCreds[i].account \in AcAccounts
        BY AcRowTyped DEF AcAuditIInv
    <2>2. acCreds[i].created =< acClock
        BY DEF AcAuditIInv, AcTrail, AcRowTold
    <2>3. AcCallFits(x)
        BY <1>1, <1>6, <2>1, <2>2 DEF AcCallFits
    <2> QED BY <1>6, <2>3, AcBegins
<1>7. ASSUME NEW a \in AcAccounts, AcRevoke(c, a) PROVE AcAuditIInv'
    <2>1. CASE acAccount[a] = "enabled"
        <3>1. PICK x \in AcCallStates : x = [AcNone EXCEPT !.phase = "revoke", !.account = a, !.at = acClock]
            <4>1. [AcNone EXCEPT !.phase = "revoke", !.account = a, !.at = acClock] \in AcCallStates
                BY <1>1, <1>2 DEF AcNone, AcCallStates
            <4> QED BY <4>1
        <3>2. x.phase = "revoke" /\ x.account = a /\ x.at = acClock
            BY <3>1 DEF AcNone
        <3>3. AcCallFits(x)
            BY <1>1, <2>1, <3>2 DEF AcCallFits
        <3> QED BY <1>7, <2>1, <3>1, <3>3, AcBegins DEF AcRevoke
    <2> QED BY <1>4, <1>7, <2>1 DEF AcRevoke
<1>8. ASSUME NEW a \in AcAccounts, NEW e \in AcTimes, AcIssue(c, a, e) \/ AcIssueCredential(c, a, e)
      PROVE  AcAuditIInv'
    BY <1>4, <1>5, <1>8 DEF AcIssue, AcIssueCredential
<1>9. ASSUME NEW i \in 1..Len(acCreds), AcAuthenticate(c, i) PROVE AcAuditIInv'
    <2>1. PICK u \in AcTimes : u = acCreds[i].used
        BY AcRowTyped DEF AcAuditIInv
    <2>2. PICK a \in AcAccounts : a = acCreds[i].account
        BY AcRowTyped DEF AcAuditIInv
    <2>3. PICK x \in AcCallStates :
            x = [AcNone EXCEPT !.phase = "authenticate", !.cred = i, !.at = acClock, !.account = a, !.used = u]
        <3>1. [AcNone EXCEPT !.phase = "authenticate", !.cred = i, !.at = acClock, !.account = a, !.used = u]
                \in AcCallStates
            BY <1>1, <1>2, <1>3 DEF AcNone, AcCallStates
        <3> QED BY <3>1
    <2>4. x.phase = "authenticate" /\ x.account = a /\ x.at = acClock /\ x.cred = i
        BY <2>3 DEF AcNone
    <2> QED BY <1>4, <1>6, <1>9, <2>1, <2>2, <2>3, <2>4 DEF AcAuthenticate
<1>10. ASSUME NEW a \in AcAccounts, NEW i \in 1..Len(acCreds), AcRevokeCredential(c, a, i) PROVE AcAuditIInv'
    <2>1. PICK x \in AcCallStates :
            x = [AcNone EXCEPT !.phase = "revoke_credential", !.account = a, !.cred = i, !.at = acClock]
        <3>1. [AcNone EXCEPT !.phase = "revoke_credential", !.account = a, !.cred = i, !.at = acClock]
                \in AcCallStates
            BY <1>1, <1>2, <1>3 DEF AcNone, AcCallStates
        <3> QED BY <3>1
    <2>2. x.phase = "revoke_credential" /\ x.account = a /\ x.at = acClock /\ x.cred = i
        BY <2>1 DEF AcNone
    <2> QED BY <1>4, <1>6, <1>10, <2>1, <2>2 DEF AcRevokeCredential
<1> QED BY <1>7, <1>8, <1>9, <1>10 DEF AcBeginCall

\* Every step keeps the trail and the rows in agreement.
LEMMA AcAuditInductive == AcAuditIInv /\ [AcNext]_acVars => AcAuditIInv'
<1> SUFFICES ASSUME AcAuditIInv, [AcNext]_acVars PROVE AcAuditIInv'
    OBVIOUS
<1> USE AcAssumption
<1>1. ASSUME NEW c \in AcCallers, AcCommitIssue(c) \/ AcCommitIssueCredential(c) PROVE AcAuditIInv'
    <2>1. PICK call \in AcCallStates : call = acCall[c]
        BY DEF AcAuditIInv, AcCallsTyped
    <2>2. /\ AcCallFits(call) /\ call.phase \in {"issue", "issue_credential"} /\ AcRoom /\ AcEnd(c)
          /\ call.account \in AcAccounts /\ UNCHANGED acClock
        BY <1>1, <2>1 DEF AcAuditIInv, AcTrail, AcCommitIssue, AcCommitIssueCredential, AcCallFits, AcEnd
    <2>3. CASE AcInsertCredential(call) /\ acAccount[call.account] = "absent"
                /\ acAccount' = [acAccount EXCEPT ![call.account] = "enabled"]
        <3>1. /\ acAccount' \in [AcAccounts -> {"absent", "enabled", "disabled"}]
              /\ acAccount'[call.account] # "absent"
              /\ \A a \in AcAccounts : /\ acAccount[a] # "absent" => acAccount'[a] # "absent"
                                       /\ acAccount'[a] = "disabled" <=> acAccount[a] = "disabled"
            BY <2>2, <2>3 DEF AcAuditIInv, AcRowsTyped
        <3>2. AcRowsTyped' /\ AcGrows /\ (\A i \in 1..Len(acCreds)' : AcRowTold(i)') /\ AcAccountsTold' /\ AcEventsFit'
            BY <2>2, <2>3, <3>1, AcInserts
        <3> QED BY <2>2, <3>2, AcEnds
    <2>4. CASE AcInsertCredential(call) /\ acAccount[call.account] # "absent" /\ acAccount' = acAccount
        <3>1. AcRowsTyped' /\ AcGrows /\ (\A i \in 1..Len(acCreds)' : AcRowTold(i)') /\ AcAccountsTold' /\ AcEventsFit'
            BY <2>2, <2>4, AcInserts DEF AcAuditIInv, AcRowsTyped
        <3> QED BY <2>2, <3>1, AcEnds
    <2>5. CASE UNCHANGED acRows
        <3>1. acClock' \in AcTimes /\ acClock =< acClock'
            BY <2>2 DEF AcAuditIInv, AcRowsTyped, AcTimes
        <3> QED BY <2>2, <2>5, <3>1, AcRowsKept, AcEnds
    <2>6. call.phase = "issue_credential" => acAccount[call.account] # "absent"
        BY <2>2 DEF AcCallFits
    <2> QED BY <1>1, <2>1, <2>3, <2>4, <2>5, <2>6 DEF AcCommitIssue, AcCommitIssueCredential
<1>2. ASSUME NEW c \in AcCallers, AcCommitAuthenticate(c) PROVE AcAuditIInv'
    BY <1>2, AcAuthenticates, AcEnds DEF AcCommitAuthenticate
<1>3. ASSUME NEW c \in AcCallers, AcCommitRevokeCredential(c) PROVE AcAuditIInv'
    BY <1>3, AcRevokesCredential, AcEnds DEF AcCommitRevokeCredential
<1>4. ASSUME NEW c \in AcCallers, AcCommitRevoke(c) PROVE AcAuditIInv'
    BY <1>4, AcDisables, AcEnds DEF AcCommitRevoke
<1>5. ASSUME NEW c \in AcCallers, AcRollback(c) PROVE AcAuditIInv'
    <2>1. acClock' \in AcTimes /\ acClock =< acClock' /\ UNCHANGED acRows /\ AcEnd(c)
        BY <1>5 DEF AcRollback, AcEnd, AcAuditIInv, AcRowsTyped, AcTimes
    <2> QED BY <2>1, AcRowsKept, AcEnds
<1>6. ASSUME UNCHANGED <<acRows, acCall, acCalls>>, acClock' \in AcTimes, acClock =< acClock'
      PROVE  AcAuditIInv'
    <2>1. AcRowsTyped' /\ AcGrows /\ (\A i \in 1..Len(acCreds)' : AcRowTold(i)') /\ AcAccountsTold' /\ AcEventsFit'
        BY <1>6, AcRowsKept
    <2>2. ASSUME NEW d \in AcCallers PROVE AcCallFits(acCall[d])'
        <3>1. PICK x \in AcCallStates : x = acCall[d]
            BY DEF AcAuditIInv, AcCallsTyped
        <3>2. AcCallFits(x)
            BY <3>1 DEF AcAuditIInv, AcTrail
        <3>3. AcCallFits(x)'
            BY <2>1, <3>2, AcFitsKept DEF AcAuditIInv
        <3>4. acCall'[d] = x
            BY <1>6, <3>1
        <3> QED BY <3>3, <3>4 DEF AcCallFits
    <2> QED BY <1>6, <2>1, <2>2 DEF AcAuditIInv, AcCallsTyped, AcTrail
<1>7. CASE UNCHANGED acVars
    <2>1. acClock' \in AcTimes /\ acClock =< acClock'
        BY <1>7 DEF acVars, AcAuditIInv, AcRowsTyped, AcTimes
    <2> QED BY <1>6, <1>7, <2>1 DEF acVars
<1>8. CASE (\E most \in AcLimits : AcBeginReport(most)) \/ AcReadAccounts \/ AcReadCredentials
    <2>1. UNCHANGED <<acClock, acRows, acCall, acCalls>>
        BY <1>8 DEF AcBeginReport, AcReadAccounts, AcReadCredentials
    <2>2. acClock' \in AcTimes /\ acClock =< acClock'
        BY <2>1 DEF AcAuditIInv, AcRowsTyped, AcTimes
    <2> QED BY <1>6, <2>1, <2>2
<1>9. CASE AcTick
    <2>1. acClock' \in AcTimes /\ acClock =< acClock'
        BY <1>9 DEF AcTick, AcAuditIInv, AcRowsTyped, AcTimes
    <2> QED BY <1>6, <1>9, <2>1 DEF AcTick
<1> QED BY <1>1, <1>2, <1>3, <1>4, <1>5, <1>7, <1>8, <1>9, AcReadsFit DEF AcNext, AcStep, AcCommit

(* The audit invariant holds of empty tables. *)
LEMMA AcAuditInit == AcInit => AcAuditIInv
<1> SUFFICES ASSUME AcInit PROVE AcAuditIInv
    OBVIOUS
<1> USE AcAssumption
<1>1. AcRowsTyped
    <2>1. 0 \in AcTimes /\ 1 \in AcTimes /\ 1..AcOld \subseteq AcAccounts /\ 1..AcOld \subseteq 0..AcMaxCredentials
        BY DEF AcTimes, AcAccounts
    <2>2. acCreds \in [1..AcOld -> AcCredentialRows]
        BY <2>1 DEF AcInit, AcCredentialRows, AcTimes
    <2>3. acEvents \in [1..AcOld -> AcEventRows]
        BY <2>1 DEF AcInit, AcEventRows, AcEvent
    <2>4. acCreds \in Seq(AcCredentialRows) /\ acEvents \in Seq(AcEventRows) /\ Len(acCreds) = AcOld
        BY <2>2, <2>3, SeqDef
    <2> QED BY <2>1, <2>4 DEF AcInit, AcRowsTyped
<1>2. Len(acCreds) = AcOld /\ Len(acEvents) = AcOld
    BY DEF AcInit
<1>3. AcNone \in AcCallStates
    BY AcNoneFits
<1>4. AcCallsTyped
    BY <1>3 DEF AcInit, AcCallsTyped
<1>5. \A c \in AcCallers : AcCallFits(acCall[c])
    BY DEF AcInit, AcCallFits, AcNone
<1>6. \A n \in 1..AcOld : acEvents[n] = AcEvent("issued", n, n)
    BY DEF AcInit
<1>7. \A a, i : ~AcLogged("revoked", a, i) /\ ~AcLogged("account_revoked", a, i)
    BY <1>2, <1>6 DEF AcLogged, AcEvent
<1>8. AcAccountsTold
    BY <1>7 DEF AcInit, AcAccountsTold
<1>9. AcEventsFit
    BY <1>2, <1>6 DEF AcEventsFit, AcEvent
<1>10. ASSUME NEW i \in 1..AcOld PROVE AcRowTold(i)
    <2>1. /\ acCreds[i].account = i /\ acCreds[i].created = 1 /\ acCreds[i].revoked = 0 /\ acCreds[i].used = 0
          /\ acCreds[i].expires = AcFirst[i] /\ acClock = 1
        BY DEF AcInit
    <2>2. AcFirst[i] # 0 => AcFirst[i] > 1
        OBVIOUS
    <2>3. i \in AcAccounts /\ acAccount[i] = "enabled"
        BY DEF AcInit, AcAccounts
    <2>4. \A m \in 1..AcOld : acEvents[m] = AcEvent("issued", i, i) <=> m = i
        <3> SUFFICES ASSUME NEW m \in 1..AcOld PROVE acEvents[m] = AcEvent("issued", i, i) <=> m = i
            OBVIOUS
        <3>1. acEvents[m].cred = m /\ AcEvent("issued", i, i).cred = i
            <4>1. \A k : AcEvent("issued", k, k).cred = k
                BY DEF AcEvent
            <4>2. acEvents[m] = AcEvent("issued", m, m)
                BY <1>6
            <4> QED BY <4>1, <4>2
        <3>2. m = i => acEvents[m] = AcEvent("issued", i, i)
            BY <1>6
        <3> QED BY <3>1, <3>2
    <2>5. AcIssuedOnce(i)
        <3>1. AcEvent("issued", acCreds[i].account, i) = AcEvent("issued", i, i)
            BY <2>1
        <3>2. \A m \in 1..Len(acEvents) : acEvents[m] = AcEvent("issued", acCreds[i].account, i) <=> m = i
            BY <1>2, <2>4, <3>1
        <3>3. i \in 1..Len(acEvents)
            BY <1>2
        <3> QED BY <3>2, <3>3, Zenon DEF AcIssuedOnce
    <2> QED BY <1>7, <2>1, <2>2, <2>3, <2>5 DEF AcRowTold, AcValid
<1> QED BY <1>1, <1>2, <1>4, <1>5, <1>8, <1>9, <1>10 DEF AcAuditIInv, AcTrail

(* The audit invariant holds throughout. *)
LEMMA AcAuditInvariance == AcSpec => []AcAuditIInv
BY AcAuditInit, AcAuditInductive, PTL DEF AcSpec

\* However the calls of the service-account API overlap between their reads
\* and their commits, the rows and the audit events tell one story.
THEOREM AuditTrailAgrees == AcSpec => []AcAuditAgrees
<1>1. AcAuditIInv => AcAuditAgrees
    <2> SUFFICES ASSUME AcAuditIInv PROVE AcAuditAgrees
        OBVIOUS
    <2>1. ASSUME NEW i \in 1..Len(acCreds)
          PROVE  Cardinality({n \in 1..Len(acEvents) : acEvents[n] = AcEvent("issued", acCreds[i].account, i)}) = 1
        <3>1. PICK n \in 1..Len(acEvents) : \A m \in 1..Len(acEvents) :
                acEvents[m] = AcEvent("issued", acCreds[i].account, i) <=> m = n
            BY DEF AcAuditIInv, AcTrail, AcRowTold, AcIssuedOnce
        <3>2. {m \in 1..Len(acEvents) : acEvents[m] = AcEvent("issued", acCreds[i].account, i)} = {n}
            BY <3>1
        <3> QED BY <3>2, FS_Singleton
    <2>2. \A i \in 1..Len(acCreds) :
            /\ AcValid(acCreds[i]) /\ acAccount[acCreds[i].account] # "absent"
            /\ (acCreds[i].revoked # 0) <=> AcLogged("revoked", acCreds[i].account, i)
        BY DEF AcAuditIInv, AcTrail, AcRowTold
    <2> QED BY <2>1, <2>2 DEF AcAuditIInv, AcTrail, AcAccountsTold, AcAuditAgrees
<1> QED BY <1>1, AcAuditInvariance, PTL

-----------------------------------------------------------------------------
(* The listing of the readiness of the accounts.                           *)

\* s is a list of accounts in key order.
AcIncreasing(s) == \A i, j \in 1..Len(s) : i < j => s[i] < s[j]

(* Reading accounts in their order lists each of them once. *)
LEMMA AcInOrderSound ==
    ASSUME NEW S, S \subseteq AcAccounts
    PROVE  /\ AcInOrder(S) \in Seq(AcAccounts) /\ AcIncreasing(AcInOrder(S))
           /\ \A x : x \in ToSet(AcInOrder(S)) <=> x \in S
<1>1. PICK R : R = {x \in S \X S : x[1] < x[2]}
    OBVIOUS
<1>2. S \subseteq Int
    BY AcAssumption DEF AcAccounts
<1>3. StrictOrder(S, R)
    BY <1>1, <1>2 DEF StrictOrder
<1>4. IsFiniteSet(S)
    <2>1. IsFiniteSet(AcAccounts)
        <3>1. 1 \in Int /\ AcKeys \in Int
            BY AcAssumption
        <3> QED BY <3>1, FS_Interval DEF AcAccounts
    <2> QED BY <2>1, FS_Subset
<1>5. PICK s : s = AcInOrder(S)
    OBVIOUS
<1>6. /\ s \in Seq(S) /\ Len(s) = Cardinality(S) /\ Cardinality(S) \in Nat
      /\ \A x \in S : \E n \in 1 .. Cardinality(S) : s[n] = x
      /\ \A i, j \in 1 .. Cardinality(S) : i < j => <<s[i], s[j]>> \in R
    <2>1. s = Ordered(S, R)
        BY <1>1, <1>5 DEF AcInOrder
    <2> QED BY <1>3, <1>4, <2>1, OrderedSound
<1>7. AcIncreasing(s)
    <2> SUFFICES ASSUME NEW i \in 1..Len(s), NEW j \in 1..Len(s), i < j PROVE s[i] < s[j]
        BY DEF AcIncreasing
    <2>1. <<s[i], s[j]>> \in R
        BY <1>6
    <2> QED BY <1>1, <2>1
<1>8. \A x : x \in ToSet(s) <=> x \in S
    <2>1. DOMAIN s = 1..Len(s) /\ \A n \in 1..Len(s) : s[n] \in S
        BY <1>6
    <2>2. \A x : x \in ToSet(s) <=> \E n \in 1..Len(s) : s[n] = x
        BY <2>1 DEF ToSet
    <2> QED BY <1>6, <2>1, <2>2
<1>9. s \in Seq(AcAccounts)
    BY <1>6
<1> QED BY <1>5, <1>7, <1>8, <1>9

\* The elements of a sequence.
LEMMA AcElements ==
    ASSUME NEW s \in Seq(AcAccounts)
    PROVE  /\ Len(s) \in Nat /\ \A n \in 1..Len(s) : s[n] \in AcAccounts /\ s[n] \in ToSet(s)
           /\ \A x : x \in ToSet(s) <=> \E n \in 1..Len(s) : s[n] = x
           /\ ToSet(s) \subseteq AcAccounts
<1>1. DOMAIN s = 1..Len(s) /\ Len(s) \in Nat /\ \A n \in 1..Len(s) : s[n] \in AcAccounts
    OBVIOUS
<1>2. \A x : x \in ToSet(s) <=> \E n \in 1..Len(s) : s[n] = x
    BY <1>1 DEF ToSet
<1> QED BY <1>1, <1>2

\* The last element of a growing sequence is its greatest.
LEMMA AcLastIsGreatest ==
    ASSUME NEW s \in Seq(AcAccounts), AcIncreasing(s), NEW x \in ToSet(s)
    PROVE  x <= s[Len(s)]
<1>1. PICK i \in 1..Len(s) : s[i] = x
    BY AcElements
<1>2. Len(s) \in Nat /\ Len(s) \in 1..Len(s)
    BY <1>1, AcElements
<1>3. s[i] \in Int /\ s[Len(s)] \in Int
    BY <1>2, AcElements, AcAssumption DEF AcAccounts
<1>4. CASE i = Len(s)
    BY <1>1, <1>3, <1>4
<1>5. CASE i < Len(s)
    <2>1. s[i] < s[Len(s)]
        BY <1>2, <1>5 DEF AcIncreasing
    <2> QED BY <1>1, <1>3, <2>1
<1> QED BY <1>2, <1>4, <1>5

\* A prefix of a sequence.
LEMMA PrefixOf ==
    ASSUME NEW S, NEW s \in Seq(S), NEW m \in Nat, m <= Len(s)
    PROVE  /\ SubSeq(s, 1, m) \in Seq(S) /\ Len(SubSeq(s, 1, m)) = m
           /\ \A i \in 1..m : SubSeq(s, 1, m)[i] = s[i]
OBVIOUS

\* The first k elements of an ordered list: what is cut off comes after the
\* last of them, and something is cut off only from a full list.
LEMMA AcCut ==
    ASSUME NEW s \in Seq(AcAccounts), AcIncreasing(s), NEW k \in Nat, k # 0,
           NEW t, t = AcFirstOf(s, k)
    PROVE  /\ t \in Seq(AcAccounts) /\ AcIncreasing(t) /\ Len(t) <= k
           /\ Len(s) < k => t = s
           /\ ToSet(t) \subseteq ToSet(s)
           /\ \A x \in ToSet(s) : x \in ToSet(t) \/ (Len(t) = k /\ x > t[Len(t)])
<1>1. PICK n \in Nat : n = Len(s)
    OBVIOUS
<1>2. PICK m \in Nat : m = Min({k, n}) /\ m <= k /\ m <= n /\ (m = k \/ m = n)
    <2>1. \E x \in {k, n} : \A y \in {k, n} : x <= y
        OBVIOUS
    <2>2. Min({k, n}) \in {k, n} /\ \A y \in {k, n} : Min({k, n}) <= y
        BY <2>1 DEF Min
    <2> QED BY <2>2
<1>3. t \in Seq(AcAccounts) /\ Len(t) = m /\ \A i \in 1..m : t[i] = s[i]
    <2>1. t = SubSeq(s, 1, m)
        BY <1>1, <1>2 DEF AcFirstOf
    <2>2. m <= Len(s)
        BY <1>1, <1>2
    <2>3. SubSeq(s, 1, m) \in Seq(AcAccounts) /\ Len(SubSeq(s, 1, m)) = m /\ \A i \in 1..m : SubSeq(s, 1, m)[i] = s[i]
        BY <2>2, PrefixOf
    <2> QED BY <2>1, <2>3
<1>4. 1..m \subseteq 1..n
    BY <1>2
<1>5. AcIncreasing(t)
    BY <1>1, <1>3, <1>4 DEF AcIncreasing
<1>6. ToSet(t) \subseteq ToSet(s)
    <2> SUFFICES ASSUME NEW x \in ToSet(t) PROVE x \in ToSet(s)
        OBVIOUS
    <2>1. PICK i \in 1..m : t[i] = x
        BY <1>3, AcElements
    <2> QED BY <1>1, <1>3, <1>4, <2>1, AcElements
<1>7. ASSUME NEW x \in ToSet(s), x \notin ToSet(t) PROVE Len(t) = k /\ x > t[Len(t)]
    <2>1. PICK i \in 1..n : s[i] = x
        BY <1>1, AcElements
    <2>2. i \notin 1..m
        BY <1>3, <1>7, <2>1, AcElements
    <2>3. m = k /\ m < i /\ m \in 1..m /\ m \in 1..n
        BY <1>2, <2>2
    <2>4. s[m] < s[i]
        BY <1>1, <2>3 DEF AcIncreasing
    <2>5. s[m] \in Int /\ s[i] \in Int
        <3>1. s[m] \in AcAccounts /\ s[i] \in AcAccounts
            BY <1>1, <2>3
        <3> QED BY <3>1, AcAssumption DEF AcAccounts
    <2> QED BY <1>3, <2>1, <2>3, <2>4, <2>5
<1>8. Len(s) < k => t = s
    <2> SUFFICES ASSUME Len(s) < k PROVE t = s
        OBVIOUS
    <2>1. m = n
        BY <1>1, <1>2
    <2> QED BY <1>1, <1>3, <2>1, SeqEqual
<1> QED BY <1>2, <1>3, <1>5, <1>6, <1>7, <1>8

\* Later accounts follow earlier ones.
AcJoin(s, t) == s \o t
AcUpTo(s, k) == \A x \in ToSet(s) : x <= k
AcAfter(t, k) == \A x \in ToSet(t) : x > k

(* Two increasing listings, one behind the other, join to an increasing one. *)
LEMMA AcJoined ==
    ASSUME NEW s \in Seq(AcAccounts), NEW t \in Seq(AcAccounts), AcIncreasing(s), AcIncreasing(t),
           NEW k \in Int, AcUpTo(s, k), AcAfter(t, k)
    PROVE  /\ AcJoin(s, t) \in Seq(AcAccounts) /\ AcIncreasing(AcJoin(s, t))
           /\ \A x : x \in ToSet(AcJoin(s, t)) <=> (x \in ToSet(s) \/ x \in ToSet(t))
<1>1. PICK m \in Nat, n \in Nat : m = Len(s) /\ n = Len(t)
    OBVIOUS
<1>2. PICK u \in Seq(AcAccounts) : u = s \o t
    BY ConcatProperties
<1>3. Len(u) = m + n /\ (\A i \in 1..m : u[i] = s[i]) /\ (\A i \in (m + 1)..(m + n) : u[i] = t[i - m])
    <2>1. Len(u) = m + n /\ \A i \in 1..(m + n) : u[i] = IF i <= m THEN s[i] ELSE t[i - m]
        BY <1>1, <1>2, ConcatProperties
    <2> QED BY <2>1
<1>4. \A i \in (m + 1)..(m + n) : i - m \in 1..n
    OBVIOUS
<1>5. \A i \in 1..(m + n) : i \in 1..m \/ i \in (m + 1)..(m + n)
    OBVIOUS
<1>6. AcIncreasing(u)
    <2> SUFFICES ASSUME NEW i \in 1..(m + n), NEW j \in 1..(m + n), i < j PROVE u[i] < u[j]
        BY <1>3 DEF AcIncreasing
    <2>1. CASE i \in 1..m /\ j \in 1..m
        BY <1>1, <1>3, <2>1 DEF AcIncreasing
    <2>2. CASE i \in 1..m /\ j \in (m + 1)..(m + n)
        <3>1. s[i] <= k /\ t[j - m] > k /\ s[i] \in Int /\ t[j - m] \in Int
            <4>1. s[i] \in ToSet(s) /\ s[i] \in AcAccounts
                BY <1>1, <2>2, AcElements
            <4>2. t[j - m] \in ToSet(t) /\ t[j - m] \in AcAccounts
                BY <1>1, <1>4, <2>2, AcElements
            <4>3. AcAccounts \subseteq Int
                BY AcAssumption DEF AcAccounts
            <4> QED BY <4>1, <4>2, <4>3 DEF AcUpTo, AcAfter
        <3> QED BY <1>3, <2>2, <3>1
    <2>3. CASE i \in (m + 1)..(m + n) /\ j \in (m + 1)..(m + n)
        <3>1. i - m \in 1..n /\ j - m \in 1..n /\ i - m < j - m
            BY <2>3
        <3>2. t[i - m] < t[j - m]
            BY <1>1, <3>1 DEF AcIncreasing
        <3> QED BY <1>3, <2>3, <3>2
    <2>4. i \in (m + 1)..(m + n) => j \notin 1..m
        OBVIOUS
    <2> QED BY <1>5, <2>1, <2>2, <2>3, <2>4
<1>7. ASSUME NEW x PROVE x \in ToSet(u) <=> (x \in ToSet(s) \/ x \in ToSet(t))
    <2>1. x \in ToSet(u) => x \in ToSet(s) \/ x \in ToSet(t)
        <3> SUFFICES ASSUME x \in ToSet(u) PROVE x \in ToSet(s) \/ x \in ToSet(t)
            OBVIOUS
        <3>1. PICK i \in 1..(m + n) : u[i] = x
            BY <1>3, AcElements
        <3>2. CASE i \in 1..m
            BY <1>1, <1>3, <3>1, <3>2, AcElements
        <3>3. CASE i \in (m + 1)..(m + n)
            BY <1>1, <1>3, <1>4, <3>1, <3>3, AcElements
        <3> QED BY <1>5, <3>2, <3>3
    <2>2. ASSUME x \in ToSet(s) PROVE x \in ToSet(u)
        <3>1. PICK i \in 1..m : s[i] = x
            BY <1>1, <2>2, AcElements
        <3>2. i \in 1..(m + n)
            OBVIOUS
        <3> QED BY <1>3, <3>1, <3>2, AcElements
    <2>3. ASSUME x \in ToSet(t) PROVE x \in ToSet(u)
        <3>1. PICK i \in 1..n : t[i] = x
            BY <1>1, <2>3, AcElements
        <3>2. i + m \in 1..(m + n) /\ i + m \in (m + 1)..(m + n) /\ (i + m) - m = i
            OBVIOUS
        <3>3. u[i + m] = t[(i + m) - m]
            BY <1>3, <3>2
        <3>4. u[i + m] = x
            BY <3>1, <3>2, <3>3
        <3> QED BY <1>3, <3>2, <3>4, AcElements
    <2> QED BY <2>1, <2>2, <2>3
<1>8. AcJoin(s, t) = u
    BY <1>2 DEF AcJoin
<1> QED BY <1>6, <1>7, <1>8

\* The types of the report and of what it is measured by.
AcReportTyped ==
    /\ acReport \in AcReportStates
    /\ acSeen \in [down : SUBSET AcAccounts, short : SUBSET AcAccounts, may : SUBSET AcAccounts]

\* Since the report began: what was disabled is, what had an issue all along
\* has it, and what has an issue now may be listed.
AcSeenHolds ==
    acReport.phase # "idle" =>
        /\ acSeen.down \subseteq AcDisabled /\ acSeen.short \subseteq AcShort
        /\ AcDisabled \subseteq acSeen.may /\ AcShort \subseteq acSeen.may

\* Between two pages the results are complete up to the cursor.
AcListedSoFar ==
    acReport.phase \in {"accounts", "credentials"} =>
        /\ AcIncreasing(acReport.results) /\ Len(acReport.results) < acReport.limit
        /\ ToSet(acReport.results) \subseteq acSeen.may
        /\ \A a \in ToSet(acReport.results) : a <= acReport.cursor
        /\ \A a \in acSeen.down \cup acSeen.short :
            a <= acReport.cursor => a \in ToSet(acReport.results)

\* The page that was read follows the cursor without a gap.
AcPageHolds ==
    acReport.phase = "credentials" =>
        /\ AcIncreasing(acReport.page)
        /\ \A a \in ToSet(acReport.page) :
            /\ a > acReport.cursor /\ a \in AcRegistered
            /\ a \notin acReport.enabled => a \in acSeen.may
        /\ \A a \in acSeen.down : a \notin acReport.enabled
        /\ \A a \in acSeen.down \cup acSeen.short :
            a > acReport.cursor =>
                a \in ToSet(acReport.page) \/ (Len(acReport.page) >= AcPage /\ a > Last(acReport.page))

AcReportIInv ==
    /\ AcReportTyped /\ AcSeenHolds /\ AcListedSoFar /\ AcPageHolds /\ AcListingComplete
    /\ acReport.phase = "idle" => acReport.cursor = 0 /\ acReport.results = <<>>

\* Accounts are neither unregistered nor enabled again.
LEMMA AcAccountsStay ==
    ASSUME AcAuditIInv, [AcNext]_acVars
    PROVE  AcDisabled \subseteq AcDisabled' /\ AcRegistered \subseteq AcRegistered'
<1>1. CASE UNCHANGED acAccount
    BY <1>1 DEF AcDisabled, AcRegistered
<1>2. ASSUME NEW c \in AcCallers, AcCommitIssue(c) \/ AcCommitRevoke(c)
      PROVE  AcDisabled \subseteq AcDisabled' /\ AcRegistered \subseteq AcRegistered'
    BY <1>1, <1>2 DEF AcCommitIssue, AcCommitRevoke, AcDisabled, AcRegistered, AcAuditIInv, AcRowsTyped, acRows
<1>3. CASE UNCHANGED acVars
    BY <1>1, <1>3, Zenon DEF acVars, acRows
<1>4. CASE \E c \in AcCallers : AcBeginCall(c) \/ AcRollback(c)
    BY <1>1, <1>4, Zenon DEF AcBeginCall, AcRollback, AcIssue, AcIssueCredential, AcRevokeCredential, AcAuthenticate,
        AcRevoke, AcRefuse, AcBegin, acRows
<1>5. CASE \E c \in AcCallers : AcCommitIssueCredential(c) \/ AcCommitAuthenticate(c) \/ AcCommitRevokeCredential(c)
    BY <1>1, <1>5 DEF AcCommitIssueCredential, AcCommitAuthenticate, AcCommitRevokeCredential
<1>6. CASE (\E most \in AcLimits : AcBeginReport(most)) \/ AcReadAccounts \/ AcReadCredentials \/ AcTick
    BY <1>1, <1>6, Zenon DEF AcBeginReport, AcReadAccounts, AcReadCredentials, AcTick, acRows
<1> QED BY <1>2, <1>3, <1>4, <1>5, <1>6 DEF AcNext, AcStep, AcCommit

\* What a step of a running report adds to its measure.
LEMMA AcSeenStep ==
    ASSUME AcReportTyped, AcObserve, acReport.phase # "idle"
    PROVE  /\ acSeen' \in [down : SUBSET AcAccounts, short : SUBSET AcAccounts, may : SUBSET AcAccounts]
           /\ acSeen'.down = acSeen.down /\ acSeen'.short = acSeen.short \cap AcShort'
           /\ acSeen'.may = acSeen.may \cup AcDisabled' \cup AcShort'
<1>1. AcDisabled' \subseteq AcAccounts /\ AcShort' \subseteq AcAccounts
    BY DEF AcDisabled, AcShort, AcRegistered
<1>2. PICK S, D : S = AcShort' /\ D = AcDisabled'
    OBVIOUS
<1>3. acSeen' = [acSeen EXCEPT !.short = @ \cap S, !.may = @ \cup D \cup S]
    BY <1>2 DEF AcObserve
<1>4. /\ acSeen' \in [down : SUBSET AcAccounts, short : SUBSET AcAccounts, may : SUBSET AcAccounts]
      /\ acSeen'.down = acSeen.down /\ acSeen'.short = acSeen.short \cap S
      /\ acSeen'.may = acSeen.may \cup D \cup S
    BY <1>1, <1>2, <1>3 DEF AcReportTyped
<1> QED BY <1>2, <1>4

\* A step beside the report.
LEMMA AcReportBeside ==
    ASSUME AcAuditIInv, AcReportIInv, AcNext, UNCHANGED acReport
    PROVE  AcReportIInv'
<1>1. AcObserve /\ AcDisabled \subseteq AcDisabled' /\ AcRegistered \subseteq AcRegistered'
    BY AcAccountsStay DEF AcNext
<1>2. CASE acReport.phase = "idle"
    <2>1. AcDisabled' \subseteq AcAccounts /\ AcShort' \subseteq AcAccounts
        BY DEF AcDisabled, AcShort, AcRegistered
    <2>2. acSeen' \in [down : SUBSET AcAccounts, short : SUBSET AcAccounts, may : SUBSET AcAccounts]
        BY <1>1, <1>2, <2>1 DEF AcObserve
    <2>3. AcReportTyped'
        BY <2>2 DEF AcReportIInv, AcReportTyped
    <2> QED BY <1>2, <2>3 DEF AcReportIInv, AcSeenHolds, AcListedSoFar, AcPageHolds, AcListingComplete
<1>3. CASE acReport.phase # "idle"
    <2>1. /\ acSeen' \in [down : SUBSET AcAccounts, short : SUBSET AcAccounts, may : SUBSET AcAccounts]
          /\ acSeen'.down = acSeen.down /\ acSeen'.short \subseteq acSeen.short /\ acSeen'.short \subseteq AcShort'
          /\ acSeen.may \subseteq acSeen'.may /\ AcDisabled' \subseteq acSeen'.may /\ AcShort' \subseteq acSeen'.may
        BY <1>1, <1>3, AcSeenStep DEF AcReportIInv
    <2>2. AcReportTyped' /\ AcSeenHolds'
        BY <1>1, <1>3, <2>1 DEF AcReportIInv, AcReportTyped, AcSeenHolds
    <2>3. acSeen'.down \cup acSeen'.short \subseteq acSeen.down \cup acSeen.short
        BY <2>1
    <2>4. AcListedSoFar'
        BY <2>1, <2>3 DEF AcReportIInv, AcListedSoFar, AcIncreasing
    <2>5. AcPageHolds'
        BY <1>1, <2>1, <2>3 DEF AcReportIInv, AcPageHolds, AcIncreasing
    <2>6. AcListingComplete'
        BY <2>1, <2>3 DEF AcReportIInv, AcListingComplete
    <2> QED BY <1>3, <2>2, <2>4, <2>5, <2>6 DEF AcReportIInv
<1> QED BY <1>2, <1>3

(* The beginning of a report keeps the report invariant. *)
LEMMA AcReportBegins ==
    ASSUME AcAuditIInv, AcReportIInv, AcNext, NEW most \in AcLimits, AcBeginReport(most)
    PROVE  AcReportIInv'
<1> USE AcAssumption
<1>1. PICK r \in AcReportStates : r = acReport
    BY DEF AcReportIInv, AcReportTyped
<1>2. acReport' = [r EXCEPT !.phase = "accounts", !.at = acClock, !.limit = most]
    BY <1>1 DEF AcBeginReport
<1>3. acReport' \in AcReportStates
    BY <1>2 DEF AcReportStates, AcAuditIInv, AcRowsTyped
<1>4. /\ acReport'.phase = "accounts" /\ acReport'.limit = most /\ acReport'.cursor = r.cursor
      /\ acReport'.results = r.results
    BY <1>2 DEF AcReportStates
<1>5. acReport.phase = "idle" /\ acReport'.cursor = 0 /\ acReport'.results = <<>>
    BY <1>1, <1>4 DEF AcReportIInv, AcBeginReport
<1>6. AcDisabled' \subseteq AcAccounts /\ AcShort' \subseteq AcAccounts
    BY DEF AcDisabled, AcShort, AcRegistered
<1>7. /\ acSeen' \in [down : SUBSET AcAccounts, short : SUBSET AcAccounts, may : SUBSET AcAccounts]
      /\ acSeen'.down = AcDisabled' /\ acSeen'.short = AcShort' /\ acSeen'.may = AcDisabled' \cup AcShort'
    BY <1>5, <1>6 DEF AcNext, AcObserve
<1>8. AcReportTyped' /\ AcSeenHolds'
    BY <1>3, <1>7 DEF AcReportTyped, AcSeenHolds
<1>9. AcListedSoFar'
    <2>1. Len(acReport.results)' = 0 /\ ToSet(acReport.results)' = {} /\ 0 < most
        BY <1>5 DEF ToSet
    <2>2. AcIncreasing(acReport.results)'
        BY <2>1 DEF AcIncreasing
    <2>3. \A a \in acSeen'.down \cup acSeen'.short : ~(a <= 0)
        BY <1>6, <1>7 DEF AcAccounts
    <2> QED BY <1>4, <1>5, <2>1, <2>2, <2>3 DEF AcListedSoFar
<1> QED BY <1>4, <1>8, <1>9 DEF AcReportIInv, AcPageHolds, AcListingComplete

\* The page of accounts after the cursor.
LEMMA AcPageSound ==
    ASSUME NEW k \in 0..AcKeys
    PROVE  /\ AcPageAfter(k) \in Seq(AcAccounts) /\ AcIncreasing(AcPageAfter(k))
           /\ \A a \in ToSet(AcPageAfter(k)) : a > k /\ a \in AcRegistered
           /\ \A a \in AcRegistered : a > k =>
                a \in ToSet(AcPageAfter(k)) \/ (Len(AcPageAfter(k)) >= AcPage /\ a > Last(AcPageAfter(k)))
<1> USE AcAssumption
<1>1. PICK S : S = {a \in AcRegistered : a > k}
    OBVIOUS
<1>2. S \subseteq AcAccounts
    BY <1>1 DEF AcRegistered
<1>3. PICK s \in Seq(AcAccounts) : s = AcInOrder(S) /\ AcIncreasing(s) /\ \A x : x \in ToSet(s) <=> x \in S
    BY <1>2, AcInOrderSound
<1>4. PICK n \in Nat : n = AcPage /\ n # 0
    BY AcAssumption
<1>5. PICK t : t = AcFirstOf(s, n)
    OBVIOUS
<1>6. AcPageAfter(k) = t
    BY <1>1, <1>3, <1>4, <1>5 DEF AcPageAfter
<1>7. /\ t \in Seq(AcAccounts) /\ AcIncreasing(t) /\ ToSet(t) \subseteq ToSet(s)
      /\ \A x \in ToSet(s) : x \in ToSet(t) \/ (Len(t) = n /\ x > t[Len(t)])
    <2>1. t = AcFirstOf(s, n) /\ n # 0 /\ AcIncreasing(s)
        BY <1>3, <1>4, <1>5
    <2>2. /\ t \in Seq(AcAccounts) /\ AcIncreasing(t) /\ Len(t) <= n
          /\ Len(s) < n => t = s
          /\ ToSet(t) \subseteq ToSet(s)
          /\ \A x \in ToSet(s) : x \in ToSet(t) \/ (Len(t) = n /\ x > t[Len(t)])
        BY <2>1, AcCut
    <2> QED BY <2>2
<1>8. \A a \in ToSet(t) : a > k /\ a \in AcRegistered
    BY <1>1, <1>3, <1>7
<1>9. \A a \in AcRegistered : a > k => a \in ToSet(t) \/ (Len(t) >= AcPage /\ a > Last(t))
    <2>1. n >= n
        OBVIOUS
    <2> QED BY <1>1, <1>3, <1>4, <1>7, <2>1 DEF Last
<1> QED BY <1>6, <1>7, <1>8, <1>9

(* Reading one page of accounts keeps the report invariant. *)
LEMMA AcReportReadsAccounts ==
    ASSUME AcAuditIInv, AcReportIInv, AcNext, AcReadAccounts
    PROVE  AcReportIInv'
<1> USE AcAssumption
<1>1. PICK r \in AcReportStates : r = acReport
    BY DEF AcReportIInv, AcReportTyped
<1>2. PICK k \in 0..AcKeys : k = r.cursor
    BY DEF AcReportStates
<1>3. PICK p \in Seq(AcAccounts) :
        /\ p = AcPageAfter(k) /\ AcIncreasing(p)
        /\ \A a \in ToSet(p) : a > k /\ a \in AcRegistered
        /\ \A a \in AcRegistered : a > k => a \in ToSet(p) \/ (Len(p) >= AcPage /\ a > Last(p))
    BY AcPageSound
<1>4. PICK E \in SUBSET AcAccounts : E = {a \in AcAccounts : acAccount[a] = "enabled"}
    OBVIOUS
<1>5. acReport' = [r EXCEPT !.page = p, !.enabled = E, !.phase = "credentials"]
    BY <1>1, <1>2, <1>3, <1>4 DEF AcReadAccounts
<1>6. acReport' \in AcReportStates
    BY <1>5 DEF AcReportStates
<1>7. /\ acReport'.phase = "credentials" /\ acReport'.page = p /\ acReport'.enabled = E /\ acReport'.cursor = k
      /\ acReport'.results = r.results /\ acReport'.limit = r.limit /\ acReport'.at = r.at
    BY <1>2, <1>5 DEF AcReportStates
<1>8. acReport.phase = "accounts" /\ acAccount' = acAccount
    BY DEF AcReadAccounts, acRows
<1>9. AcObserve /\ AcDisabled' = AcDisabled /\ AcRegistered' = AcRegistered
    BY <1>8 DEF AcNext, AcDisabled, AcRegistered
<1>10. /\ acSeen' \in [down : SUBSET AcAccounts, short : SUBSET AcAccounts, may : SUBSET AcAccounts]
       /\ acSeen'.down = acSeen.down /\ acSeen'.short \subseteq acSeen.short /\ acSeen'.short \subseteq AcShort'
       /\ acSeen.may \subseteq acSeen'.may /\ AcDisabled' \subseteq acSeen'.may /\ AcShort' \subseteq acSeen'.may
    BY <1>8, <1>9, AcSeenStep DEF AcReportIInv
<1>11. AcSeenHolds /\ AcListedSoFar
    BY DEF AcReportIInv
<1>12. AcReportTyped' /\ AcSeenHolds'
    BY <1>6, <1>8, <1>9, <1>10, <1>11 DEF AcReportTyped, AcSeenHolds
<1>13. AcListedSoFar'
    BY <1>1, <1>2, <1>7, <1>8, <1>10, <1>11 DEF AcListedSoFar, AcIncreasing
<1>14. AcPageHolds'
    <2>1. AcIncreasing(acReport.page)'
        BY <1>3, <1>7 DEF AcIncreasing
    <2>2. \A a \in AcRegistered : a \notin E => a \in AcDisabled
        BY <1>4 DEF AcRegistered, AcDisabled, AcAuditIInv, AcRowsTyped
    <2>3. \A a \in AcDisabled : a \notin E /\ a \in AcRegistered
        BY <1>4 DEF AcDisabled, AcRegistered
    <2>4. \A a \in ToSet(p) : a > k /\ a \in AcRegistered' /\ (a \notin E => a \in acSeen'.may)
        BY <1>3, <1>9, <1>10, <2>2
    <2>5. \A a \in acSeen'.down : a \notin E /\ a \in AcRegistered
        BY <1>8, <1>10, <1>11, <2>3 DEF AcSeenHolds
    <2>6. \A a \in acSeen'.short : a \in AcRegistered
        BY <1>8, <1>10, <1>11 DEF AcSeenHolds, AcShort
    <2>7. \A a \in acSeen'.down \cup acSeen'.short : a > k => a \in ToSet(p) \/ (Len(p) >= AcPage /\ a > Last(p))
        BY <1>3, <2>5, <2>6
    <2> QED BY <1>7, <2>1, <2>4, <2>5, <2>7 DEF AcPageHolds
<1> QED BY <1>7, <1>12, <1>13, <1>14 DEF AcReportIInv, AcListingComplete

\* An account of the page has an issue when it was disabled or its credentials
\* are short now.
LEMMA AcIssueMeans ==
    ASSUME AcReportIInv, acReport.phase = "credentials", NEW a \in ToSet(acReport.page)
    PROVE  AcReadiness(a \in acReport.enabled, a, acReport.at) # "healthy"
             <=> (a \notin acReport.enabled \/ a \in AcShort)
<1>1. a \in AcRegistered
    BY DEF AcReportIInv, AcPageHolds
<1>2. a \in AcShort <=> AcReadiness(TRUE, a, acReport.at) # "healthy"
    BY <1>1 DEF AcShort
<1>3. CASE a \notin acReport.enabled
    <2>1. AcReadiness(a \in acReport.enabled, a, acReport.at) = "account_disabled"
        BY <1>3 DEF AcReadiness
    <2> QED BY <1>3, <2>1
<1>4. CASE a \in acReport.enabled
    <2>1. AcReadiness(a \in acReport.enabled, a, acReport.at) = AcReadiness(TRUE, a, acReport.at)
        BY <1>4 DEF AcReadiness
    <2> QED BY <1>2, <1>4, <2>1
<1> QED BY <1>3, <1>4

\* The results with a page: in order, within the limit, and complete up to the
\* end of the page unless they are full.
LEMMA AcWithPageSound ==
    ASSUME AcReportIInv, acReport.phase = "credentials"
    PROVE  /\ AcWithPage \in Seq(AcAccounts) /\ AcIncreasing(AcWithPage) /\ Len(AcWithPage) <= acReport.limit
           /\ ToSet(AcWithPage) \subseteq acSeen.may
           /\ \A a \in ToSet(AcWithPage) : a <= acReport.cursor \/ a \in ToSet(acReport.page)
           /\ \A a \in acSeen.down \cup acSeen.short :
                \/ a \in ToSet(AcWithPage)
                \/ Len(AcWithPage) = acReport.limit /\ a > Last(AcWithPage)
                \/ Len(acReport.page) >= AcPage /\ a > Last(acReport.page)
<1> USE AcAssumption
<1>1. PICK r \in Seq(AcAccounts), p \in Seq(AcAccounts), k \in 0..AcKeys, n \in Nat :
        r = acReport.results /\ p = acReport.page /\ k = acReport.cursor /\ n = acReport.limit
    BY DEF AcReportIInv, AcReportTyped, AcReportStates
<1>2. PICK F : F = {a \in ToSet(p) : a \notin acReport.enabled \/ a \in AcShort}
    OBVIOUS
<1>3. F \subseteq AcAccounts
    BY <1>2, AcElements
<1>4. PICK f \in Seq(AcAccounts) : f = AcInOrder(F) /\ AcIncreasing(f) /\ \A x : x \in ToSet(f) <=> x \in F
    BY <1>3, AcInOrderSound
<1>5. PICK w : w = AcFirstOf(r \o f, n)
    OBVIOUS
<1>6. AcWithPage = w
    <2>1. {a \in ToSet(p) : AcReadiness(a \in acReport.enabled, a, acReport.at) # "healthy"} = F
        BY <1>1, <1>2, AcIssueMeans
    <2> QED BY <1>1, <1>4, <1>5, <2>1 DEF AcWithPage
<1>7. /\ AcIncreasing(r) /\ Len(r) < n /\ (\A a \in ToSet(r) : a <= k) /\ ToSet(r) \subseteq acSeen.may
      /\ \A a \in acSeen.down \cup acSeen.short : a <= k => a \in ToSet(r)
    BY <1>1 DEF AcReportIInv, AcListedSoFar
<1>8. \A a \in ToSet(f) : a > k /\ a \in ToSet(p)
    BY <1>1, <1>2, <1>4 DEF AcReportIInv, AcPageHolds
<1>9. PICK u \in Seq(AcAccounts) : u = r \o f /\ AcIncreasing(u) /\ \A x : x \in ToSet(u) <=> (x \in ToSet(r) \/ x \in ToSet(f))
    <2>1. k \in Int
        OBVIOUS
    <2>2. AcIncreasing(r) /\ AcIncreasing(f) /\ AcUpTo(r, k) /\ AcAfter(f, k)
        BY <1>4, <1>7, <1>8 DEF AcUpTo, AcAfter
    <2>3. PICK v \in Seq(AcAccounts) :
            v = AcJoin(r, f) /\ AcIncreasing(v) /\ \A x : x \in ToSet(v) <=> (x \in ToSet(r) \/ x \in ToSet(f))
        BY <2>1, <2>2, AcJoined
    <2> QED BY <2>3 DEF AcJoin
<1>10. n # 0
    BY <1>7
<1>11. /\ w \in Seq(AcAccounts) /\ AcIncreasing(w) /\ Len(w) <= n /\ ToSet(w) \subseteq ToSet(u)
       /\ \A x \in ToSet(u) : x \in ToSet(w) \/ (Len(w) = n /\ x > w[Len(w)])
    <2>1. w = AcFirstOf(u, n)
        BY <1>5, <1>9
    <2> QED BY <1>9, <1>10, <2>1, AcCut
<1>12. F \subseteq acSeen.may
    BY <1>1, <1>2 DEF AcReportIInv, AcPageHolds, AcSeenHolds
<1>13. ToSet(w) \subseteq acSeen.may
    BY <1>4, <1>7, <1>9, <1>11, <1>12
<1>14. \A a \in ToSet(w) : a <= k \/ a \in ToSet(p)
    BY <1>7, <1>8, <1>9, <1>11
<1>15. ASSUME NEW a \in acSeen.down \cup acSeen.short
       PROVE  \/ a \in ToSet(w)
              \/ Len(w) = n /\ a > Last(w)
              \/ Len(p) >= AcPage /\ a > Last(p)
    <2>1. a \notin acReport.enabled \/ a \in AcShort
        BY DEF AcReportIInv, AcPageHolds, AcSeenHolds
    <2>2. a \in AcAccounts
        BY DEF AcReportIInv, AcReportTyped
    <2>3. a <= k \/ a > k
        BY <2>2 DEF AcAccounts
    <2>4. CASE a \in ToSet(u)
        BY <1>11, <2>4 DEF Last
    <2>5. CASE a <= k
        BY <1>7, <1>9, <2>4, <2>5
    <2>6. CASE a > k
        <3>1. a \in ToSet(p) \/ (Len(p) >= AcPage /\ a > Last(p))
            BY <1>1, <2>6 DEF AcReportIInv, AcPageHolds
        <3>2. a \in ToSet(p) => a \in ToSet(u)
            BY <1>2, <1>4, <1>9, <2>1
        <3> QED BY <2>4, <3>1, <3>2
    <2> QED BY <2>3, <2>5, <2>6
<1> QED BY <1>1, <1>6, <1>11, <1>13, <1>14, <1>15

(* Reading one page of credentials keeps the report invariant. *)
LEMMA AcReportReadsCredentials ==
    ASSUME AcAuditIInv, AcReportIInv, AcNext, AcReadCredentials
    PROVE  AcReportIInv'
<1> USE AcAssumption
<1>1. PICK r \in AcReportStates : r = acReport
    BY DEF AcReportIInv, AcReportTyped
<1>2. acReport.phase = "credentials" /\ acAccount' = acAccount /\ acCreds' = acCreds
    BY DEF AcReadCredentials, acRows
<1>3. PICK w \in Seq(AcAccounts) :
        /\ w = AcWithPage /\ AcIncreasing(w) /\ Len(w) <= r.limit
        /\ ToSet(w) \subseteq acSeen.may
        /\ \A a \in ToSet(w) : a <= r.cursor \/ a \in ToSet(r.page)
        /\ \A a \in acSeen.down \cup acSeen.short :
            \/ a \in ToSet(w)
            \/ Len(w) = r.limit /\ a > Last(w)
            \/ Len(r.page) >= AcPage /\ a > Last(r.page)
    BY <1>1, <1>2, AcWithPageSound
<1>4. PICK p \in Seq(AcAccounts), n \in Nat : p = r.page /\ n = r.limit
    BY DEF AcReportStates
<1>5. CASE (Len(w) = n \/ ~(Len(p) >= AcPage)) /\ acReport' = [r EXCEPT !.results = w, !.phase = "done"]
    <2>1. acReport' \in AcReportStates
        BY <1>5 DEF AcReportStates
    <2>2. acReport'.phase = "done" /\ acReport'.results = w /\ acReport'.limit = n /\ acReport'.at = r.at
        BY <1>4, <1>5 DEF AcReportStates
    <2>3. /\ acSeen' \in [down : SUBSET AcAccounts, short : SUBSET AcAccounts, may : SUBSET AcAccounts]
          /\ acSeen'.down = acSeen.down /\ acSeen'.short \subseteq acSeen.short /\ acSeen'.short \subseteq AcShort'
          /\ acSeen.may \subseteq acSeen'.may /\ AcDisabled' \subseteq acSeen'.may /\ AcShort' \subseteq acSeen'.may
        BY <1>2, AcSeenStep DEF AcReportIInv, AcNext
    <2>4. AcDisabled' = AcDisabled
        BY <1>2 DEF AcDisabled
    <2>5. AcReportTyped' /\ AcSeenHolds'
        BY <1>2, <2>1, <2>3, <2>4 DEF AcReportIInv, AcReportTyped, AcSeenHolds
    <2>6. \A m \in 2..Len(w) : w[m - 1] < w[m]
        <3>1. \A m \in 2..Len(w) : m - 1 \in 1..Len(w) /\ m \in 1..Len(w) /\ m - 1 < m
            OBVIOUS
        <3> QED BY <1>3, <3>1 DEF AcIncreasing
    <2>7. \A a \in acSeen'.down \cup acSeen'.short : a \in ToSet(w) \/ (Len(w) = n /\ a > Last(w))
        <3> SUFFICES ASSUME NEW a \in acSeen'.down \cup acSeen'.short, a \notin ToSet(w)
                     PROVE  Len(w) = n /\ a > Last(w)
            OBVIOUS
        <3>1. a \in acSeen.down \cup acSeen.short
            BY <2>3
        <3>2. \/ Len(w) = n /\ a > Last(w)
              \/ Len(p) >= AcPage /\ a > Last(p)
            BY <1>3, <1>4, <3>1
        <3>3. CASE Len(w) = n /\ Len(p) >= AcPage /\ a > Last(p)
            <4>1. Len(w) \in 1..Len(w) /\ w[Len(w)] \in AcAccounts /\ w[Len(w)] \in ToSet(w)
                <5>1. n # 0
                    BY <1>1, <1>2, <1>4 DEF AcReportIInv, AcListedSoFar, AcReportStates
                <5>2. Len(w) \in 1..Len(w)
                    BY <3>3, <5>1
                <5> QED BY <5>2, AcElements
            <4>2. Len(p) \in 1..Len(p) /\ p[Len(p)] \in AcAccounts /\ p[Len(p)] \in ToSet(p)
                <5>1. Len(p) \in 1..Len(p)
                    BY <3>3
                <5> QED BY <5>1, AcElements
            <4>3. p[Len(p)] > r.cursor /\ \A x \in ToSet(p) : x <= p[Len(p)]
                <5>1. AcIncreasing(p) /\ \A x \in ToSet(p) : x > r.cursor
                    BY <1>1, <1>2, <1>4 DEF AcReportIInv, AcPageHolds
                <5>2. \A x \in ToSet(p) : x <= p[Len(p)]
                    BY <5>1, AcLastIsGreatest
                <5> QED BY <4>2, <5>1, <5>2
            <4>4. w[Len(w)] <= p[Len(p)]
                <5>1. w[Len(w)] <= r.cursor \/ w[Len(w)] \in ToSet(p)
                    <6>1. ToSet(p) = ToSet(r.page)
                        BY <1>4
                    <6> QED BY <1>3, <4>1, <6>1
                <5>2. w[Len(w)] \in Int /\ p[Len(p)] \in Int
                    BY <4>1, <4>2 DEF AcAccounts
                <5>3. r.cursor \in Int
                    BY DEF AcReportStates
                <5> QED BY <4>3, <5>1, <5>2, <5>3
            <4>5. a \in Int /\ w[Len(w)] \in Int /\ p[Len(p)] \in Int
                BY <2>3, <4>1, <4>2 DEF AcAccounts
            <4> QED BY <3>3, <4>4, <4>5 DEF Last
        <3> QED BY <1>5, <3>2, <3>3
    <2>8. ToSet(w) \subseteq acSeen'.may
        BY <1>3, <2>3
    <2>9. AcListingComplete'
        BY <2>2, <2>6, <2>7, <2>8 DEF AcListingComplete
    <2> QED BY <2>2, <2>5, <2>9 DEF AcReportIInv, AcListedSoFar, AcPageHolds
<1>6. CASE Len(w) # n /\ Len(p) >= AcPage
           /\ acReport' = [r EXCEPT !.results = w, !.phase = "accounts", !.cursor = Last(p)]
    <2>1. Len(p) \in 1..Len(p) /\ p[Len(p)] \in AcAccounts /\ p[Len(p)] \in ToSet(p)
        <3>1. Len(p) \in 1..Len(p)
            BY <1>6
        <3> QED BY <3>1, AcElements
    <2>2. PICK k \in 0..AcKeys : k = Last(p) /\ k \in AcAccounts
        BY <2>1 DEF Last, AcAccounts
    <2>3. acReport' = [r EXCEPT !.results = w, !.phase = "accounts", !.cursor = k]
        BY <1>6, <2>2
    <2>4. acReport' \in AcReportStates
        BY <2>3 DEF AcReportStates
    <2>5. /\ acReport'.phase = "accounts" /\ acReport'.results = w /\ acReport'.limit = n
          /\ acReport'.cursor = k /\ acReport'.at = r.at
        BY <1>4, <2>3 DEF AcReportStates
    <2>6. /\ acSeen' \in [down : SUBSET AcAccounts, short : SUBSET AcAccounts, may : SUBSET AcAccounts]
          /\ acSeen'.down = acSeen.down /\ acSeen'.short \subseteq acSeen.short /\ acSeen'.short \subseteq AcShort'
          /\ acSeen.may \subseteq acSeen'.may /\ AcDisabled' \subseteq acSeen'.may /\ AcShort' \subseteq acSeen'.may
        BY <1>2, AcSeenStep DEF AcReportIInv, AcNext
    <2>7. AcDisabled' = AcDisabled
        BY <1>2 DEF AcDisabled
    <2>8. AcReportTyped' /\ AcSeenHolds'
        BY <1>2, <2>4, <2>6, <2>7 DEF AcReportIInv, AcReportTyped, AcSeenHolds
    <2>9. Len(w) < n
        BY <1>3, <1>4, <1>6
    <2>10. r.cursor < k /\ \A x \in ToSet(p) : x <= k
        <3>1. AcIncreasing(p) /\ \A x \in ToSet(p) : x > r.cursor
            BY <1>1, <1>2, <1>4 DEF AcReportIInv, AcPageHolds
        <3>2. \A x \in ToSet(p) : x <= k
            <4>1. p[Len(p)] = k
                BY <2>2 DEF Last
            <4> QED BY <3>1, <4>1, AcLastIsGreatest
        <3>3. r.cursor \in Int /\ k > r.cursor
            BY <2>1, <2>2, <3>1 DEF AcReportStates, Last
        <3> QED BY <3>2, <3>3
    <2>11. \A a \in ToSet(w) : a <= k
        <3> SUFFICES ASSUME NEW a \in ToSet(w) PROVE a <= k
            OBVIOUS
        <3>1. a \in Int /\ r.cursor \in Int
            BY AcElements DEF AcAccounts, AcReportStates
        <3>2. a <= r.cursor \/ a \in ToSet(p)
            BY <1>3, <1>4
        <3> QED BY <2>10, <3>1, <3>2
    <2>12. \A a \in acSeen'.down \cup acSeen'.short : a <= k => a \in ToSet(w)
        <3> SUFFICES ASSUME NEW a \in acSeen'.down \cup acSeen'.short, a <= k PROVE a \in ToSet(w)
            OBVIOUS
        <3>1. a \in acSeen.down \cup acSeen.short /\ a \in AcAccounts
            BY <2>6
        <3>2. ~(a > Last(p))
            BY <2>2, <3>1 DEF AcAccounts
        <3> QED BY <1>3, <1>4, <1>6, <3>1, <3>2
    <2>13. ToSet(w) \subseteq acSeen'.may
        BY <1>3, <2>6
    <2>14. AcIncreasing(acReport.results)'
        BY <1>3, <2>5 DEF AcIncreasing
    <2>15. AcListedSoFar'
        BY <2>5, <2>9, <2>11, <2>12, <2>13, <2>14 DEF AcListedSoFar
    <2> QED BY <2>5, <2>8, <2>15 DEF AcReportIInv, AcPageHolds, AcListingComplete
<1>7. acReport' = IF Len(w) = n \/ ~(Len(p) >= AcPage)
                  THEN [r EXCEPT !.results = w, !.phase = "done"]
                  ELSE [r EXCEPT !.results = w, !.phase = "accounts", !.cursor = Last(p)]
    BY <1>1, <1>3, <1>4 DEF AcReadCredentials, AcMorePages
<1> QED BY <1>5, <1>6, <1>7

(* Every step keeps the report invariant. *)
LEMMA AcReportInductive == AcAuditIInv /\ AcReportIInv /\ [AcNext]_acVars => AcReportIInv'
<1> SUFFICES ASSUME AcAuditIInv, AcReportIInv, [AcNext]_acVars PROVE AcReportIInv'
    OBVIOUS
<1>1. CASE UNCHANGED acVars
    <2>1. acAccount' = acAccount /\ acCreds' = acCreds /\ acReport' = acReport /\ acSeen' = acSeen /\ acClock' = acClock
        BY <1>1 DEF acVars, acRows
    <2>2. AcDisabled' = AcDisabled /\ AcRegistered' = AcRegistered
        BY <2>1 DEF AcDisabled, AcRegistered
    <2>3. AcShort' = AcShort
        BY <2>1, <2>2 DEF AcShort, AcReadiness, AcActiveCount, AcExpiredCount, AcExpiring, AcCredentialsOf, AcActive
    <2>4. AcReportTyped' /\ AcSeenHolds' /\ AcListingComplete'
        BY <2>1, <2>2, <2>3 DEF AcReportIInv, AcReportTyped, AcSeenHolds, AcListingComplete
    <2>5. AcListedSoFar' /\ AcPageHolds'
        BY <2>1, <2>2 DEF AcReportIInv, AcListedSoFar, AcPageHolds, AcIncreasing
    <2> QED BY <2>1, <2>4, <2>5 DEF AcReportIInv
<1>2. CASE AcNext /\ UNCHANGED acReport
    BY <1>2, AcReportBeside, Zenon
<1>3. ASSUME NEW c \in AcCallers, AcBeginCall(c) \/ AcCommit(c) \/ AcRollback(c) PROVE UNCHANGED acReport
    BY <1>3, Zenon DEF AcBeginCall, AcCommit, AcRollback, AcIssue, AcIssueCredential, AcRevokeCredential, AcAuthenticate,
        AcRevoke, AcRefuse, AcBegin, AcCommitIssue, AcCommitIssueCredential, AcCommitAuthenticate,
        AcCommitRevokeCredential, AcCommitRevoke, AcEnd
<1>4. AcTick => UNCHANGED acReport
    BY DEF AcTick
<1>5. ASSUME AcNext, NEW most \in AcLimits, AcBeginReport(most) PROVE AcReportIInv'
    BY <1>5, AcReportBegins
<1>6. CASE AcNext /\ AcReadAccounts
    BY <1>6, AcReportReadsAccounts
<1>7. CASE AcNext /\ AcReadCredentials
    BY <1>7, AcReportReadsCredentials
<1> QED BY <1>1, <1>2, <1>3, <1>4, <1>5, <1>6, <1>7 DEF AcNext, AcStep

(* No report is under way at first. *)
LEMMA AcReportInit == AcInit => AcReportIInv
<1> SUFFICES ASSUME AcInit PROVE AcReportIInv
    OBVIOUS
<1> USE AcAssumption
<1>1. 0 \in AcTimes /\ 0 \in 0..AcKeys /\ <<>> \in Seq(AcAccounts) /\ {} \in SUBSET AcAccounts
    BY DEF AcTimes
<1>2. AcNoReport \in AcReportStates
    BY <1>1 DEF AcNoReport, AcReportStates
<1>3. AcDisabled \subseteq AcAccounts /\ AcShort \subseteq AcAccounts
    BY DEF AcDisabled, AcShort, AcRegistered
<1>4. acSeen \in [down : SUBSET AcAccounts, short : SUBSET AcAccounts, may : SUBSET AcAccounts]
    BY <1>3 DEF AcInit
<1>5. acReport.phase = "idle" /\ acReport.cursor = 0 /\ acReport.results = <<>>
    BY DEF AcInit, AcNoReport
<1> QED BY <1>2, <1>4, <1>5 DEF AcInit, AcReportIInv, AcReportTyped, AcSeenHolds, AcListedSoFar, AcPageHolds,
        AcListingComplete

(* Both invariants hold throughout. *)
LEMMA AcReportInvariance == AcSpec => [](AcAuditIInv /\ AcReportIInv)
BY AcReportInit, AcReportInductive, AcAuditInvariance, PTL DEF AcSpec

\* Every readiness report lists what it must and nothing it may not, in key
\* order and up to its limit, for any number of accounts and any page size,
\* although its pages and credentials are read at different moments
\* (list_credential_readiness).
THEOREM ListingsComplete == AcSpec => []AcListingComplete
<1>1. AcReportIInv => AcListingComplete
    BY DEF AcReportIInv
<1> QED BY <1>1, AcReportInvariance, PTL

\* The rows, the calls and the report have their types.
THEOREM AccountTypes == AcSpec => []AcTypeOK
<1>1. AcAuditIInv /\ AcReportIInv => AcTypeOK
    BY Zenon DEF AcAuditIInv, AcRowsTyped, AcCallsTyped, AcReportIInv, AcReportTyped, AcTypeOK
<1> QED BY <1>1, AcReportInvariance, PTL

-----------------------------------------------------------------------------
(* The recommendation of a workflow.                                       *)

\* The definitions and the prompts are numbered from 1.
LEMMA DpNumbers ==
    /\ \E n \in Nat : n # 0 /\ DpDefinitions = 1..n
    /\ \E n \in Nat : n # 0 /\ DpPromptIds = 1..n
<1>1. DpText \in Seq({DpText[d] : d \in DpDefinitions}) /\ DpText # <<>>
    BY DpAssumption
<1>2. DpPrompts \in Seq({DpPrompts[p] : p \in DpPromptIds}) /\ DpPrompts # <<>>
    BY DpAssumption
<1>3. Len(DpText) \in Nat /\ Len(DpText) # 0 /\ DOMAIN DpText = 1..Len(DpText)
    BY <1>1, EmptySeq, LenProperties
<1>4. Len(DpPrompts) \in Nat /\ Len(DpPrompts) # 0 /\ DOMAIN DpPrompts = 1..Len(DpPrompts)
    BY <1>2, EmptySeq, LenProperties
<1> QED BY <1>3, <1>4, Zenon DEF DpDefinitions, DpPromptIds

\* A score counts finitely many terms and intents.
LEMMA DpScoreTyped ==
    ASSUME NEW p \in DpPromptIds, NEW d \in DpDefinitions, NEW default
    PROVE  DpScore(p, d, default) \in Nat
<1>1. PICK T, D : T = DpPrompts[p] /\ D = DpText[d]
    OBVIOUS
<1>2. IsFiniteSet(T)
    BY <1>1, DpAssumption
<1>3. Cardinality(T \cap D) \in Nat
    <2>1. T \cap D \in SUBSET T
        OBVIOUS
    <2> QED BY <1>2, <2>1, FS_Subset, FS_CardinalityType
<1>4. Cardinality(DpIntents(T) \cap DpIntents(D)) \in Nat
    <2>1. PICK I : I = {DpIntent[t] : t \in T}
        OBVIOUS
    <2>2. PICK f : f = [t \in T |-> DpIntent[t]]
        OBVIOUS
    <2>3. f \in Surjection(T, I)
        BY <2>1, <2>2 DEF Surjection
    <2>4. IsFiniteSet(I)
        BY <1>2, <2>3, FS_Surjection
    <2>5. DpIntents(T) \cap DpIntents(D) \in SUBSET I
        BY <2>1 DEF DpIntents
    <2> QED BY <2>4, <2>5, FS_Subset, FS_CardinalityType
<1>5. PICK m \in Nat, n \in Nat : m = Cardinality(T \cap D) /\ n = Cardinality(DpIntents(T) \cap DpIntents(D))
    BY <1>3, <1>4
<1>6. DpScore(p, d, default) = 4 * m + 6 * n + (IF d = default THEN 1 ELSE 0)
    BY <1>1, <1>5 DEF DpScore
<1> QED BY <1>6

\* The order in which recommend_workflows ranks.
DpRanking(p, default) == {x \in DpLatest \X DpLatest : DpBefore(p, default, x[1], x[2])}

\* It is a strict total order of the latest definitions: no two of them have
\* one key.
LEMMA DpRankingStrict ==
    ASSUME NEW p \in DpPromptIds, NEW default, dpPublished \in DpDefinitions
    PROVE  /\ StrictOrder(DpLatest, DpRanking(p, default))
           /\ IsFiniteSet(DpLatest) /\ DpLatest \subseteq DpDefinitions
<1>1. PICK n \in Nat : n # 0 /\ DpDefinitions = 1..n
    BY DpNumbers
<1>2. DpLatest \subseteq DpDefinitions /\ DpLatest \subseteq 1..dpPublished
    BY <1>1 DEF DpLatest
<1>3. IsFiniteSet(DpLatest)
    <2>1. dpPublished \in Int /\ 1 \in Int
        BY <1>1
    <2>2. IsFiniteSet(1..dpPublished)
        BY <2>1, FS_Interval
    <2> QED BY <1>2, <2>2, FS_Subset
<1>4. PICK sc : sc = [d \in DpDefinitions |-> DpScore(p, d, default)]
    OBVIOUS
<1>5. sc \in [DpDefinitions -> Nat]
    BY <1>4, DpScoreTyped
<1>6. ASSUME NEW d \in DpLatest, NEW e \in DpLatest
      PROVE  <<d, e>> \in DpRanking(p, default) <=>
                \/ sc[d] > sc[e]
                \/ sc[d] = sc[e] /\ (IF default \in {d, e} THEN d = default /\ e # default ELSE DpKey[d] < DpKey[e])
    BY <1>2, <1>4 DEF DpRanking, DpBefore
<1>7. \A d, e \in DpLatest : DpKey[d] = DpKey[e] => d = e
    <2> SUFFICES ASSUME NEW d \in DpLatest, NEW e \in DpLatest, DpKey[d] = DpKey[e] PROVE d = e
        OBVIOUS
    <2>1. d <= e /\ e <= d
        BY <1>2 DEF DpLatest
    <2>2. d \in Int /\ e \in Int
        BY <1>1, <1>2
    <2> QED BY <2>1, <2>2
<1>8. \A d \in DpLatest : sc[d] \in Nat /\ DpKey[d] \in Nat
    BY <1>2, <1>5, DpAssumption
<1>9. \A d \in DpLatest : <<d, d>> \notin DpRanking(p, default)
    BY <1>6, <1>8
<1>10. ASSUME NEW d \in DpLatest, NEW e \in DpLatest, NEW f \in DpLatest,
              <<d, e>> \in DpRanking(p, default), <<e, f>> \in DpRanking(p, default)
       PROVE  <<d, f>> \in DpRanking(p, default)
    <2>1. sc[d] >= sc[e] /\ sc[e] >= sc[f] /\ sc[d] \in Nat /\ sc[e] \in Nat /\ sc[f] \in Nat
        BY <1>6, <1>8, <1>10
    <2>2. CASE sc[d] > sc[f]
        BY <1>6, <2>2
    <2>3. CASE sc[d] = sc[f]
        <3>1. sc[d] = sc[e] /\ sc[e] = sc[f]
            BY <2>1, <2>3
        <3>2. /\ IF default \in {d, e} THEN d = default /\ e # default ELSE DpKey[d] < DpKey[e]
              /\ IF default \in {e, f} THEN e = default /\ f # default ELSE DpKey[e] < DpKey[f]
            BY <1>6, <1>8, <1>10, <3>1
        <3>3. IF default \in {d, f} THEN d = default /\ f # default ELSE DpKey[d] < DpKey[f]
            BY <1>8, <3>2
        <3> QED BY <1>6, <2>3, <3>3
    <2> QED BY <2>1, <2>2, <2>3
<1>11. ASSUME NEW d \in DpLatest, NEW e \in DpLatest, d # e
       PROVE  <<d, e>> \in DpRanking(p, default) \/ <<e, d>> \in DpRanking(p, default)
    <2>1. DpKey[d] < DpKey[e] \/ DpKey[e] < DpKey[d]
        BY <1>7, <1>8, <1>11
    <2>2. sc[d] > sc[e] \/ sc[e] > sc[d] \/ sc[d] = sc[e]
        BY <1>8
    <2> QED BY <1>6, <1>11, <2>1, <2>2
<1> QED BY <1>2, <1>3, <1>9, <1>10, <1>11 DEF StrictOrder

\* A recorded recommendation.
DpRecRows ==
    [prompt : DpPromptIds, candidates : Seq(DpDefinitions), default : DpDefinitions \cup {DpNone},
     offered : SUBSET DpDefinitions, confirm : BOOLEAN]

\* A recommendation that needs no confirmation has a winner.
DpRecSound(rec) ==
    ~rec.confirm => rec.candidates # <<>> /\ DpLeads(rec, rec.candidates[1], DpMargin(rec))

(* What recommend_workflows returns is ranked, scored and typed. *)
LEMMA DpRecommends ==
    ASSUME NEW p \in DpPromptIds, NEW default \in DpDefinitions \cup {DpNone}, NEW most \in DpLimits,
           dpPublished \in DpDefinitions
    PROVE  DpRecommend(p, default, most) \in DpRecRows /\ DpRecSound(DpRecommend(p, default, most))
<1>1. PICK s : s = DpRanked(p, default)
    OBVIOUS
<1>2. PICK L, R : L = DpLatest /\ R = DpRanking(p, default)
    OBVIOUS
<1>3. /\ s \in Seq(L) /\ Len(s) = Cardinality(L) /\ Cardinality(L) \in Nat
      /\ \A x \in L : \E n \in 1 .. Cardinality(L) : s[n] = x
      /\ \A i, j \in 1 .. Cardinality(L) : i < j => <<s[i], s[j]>> \in R
    <2>1. s = Ordered(L, R)
        BY <1>1, <1>2 DEF DpRanked, DpRanking
    <2>2. StrictOrder(L, R) /\ IsFiniteSet(L)
        BY <1>2, DpRankingStrict
    <2> QED BY <2>1, <2>2, OrderedSound
<1>4. L \subseteq DpDefinitions
    BY <1>2, DpRankingStrict
<1>5. PICK n \in Nat : n = Len(s)
    BY <1>3
<1>6. most \in Nat /\ most >= 1
    BY DpAssumption
<1>7. PICK m \in Nat : m = IF most < n THEN most ELSE n
    BY <1>6
<1>8. PICK c : c = SubSeq(s, 1, m)
    OBVIOUS
<1>9. c \in Seq(L) /\ Len(c) = m /\ \A i \in 1..m : c[i] = s[i]
    <2>1. m <= Len(s)
        BY <1>5, <1>6, <1>7
    <2> QED BY <1>3, <1>8, <2>1, PrefixOf
<1>10. c \in Seq(DpDefinitions)
    BY <1>4, <1>9
<1>11. PICK sc : sc = [d \in DpDefinitions |-> DpScore(p, d, default)]
    OBVIOUS
<1>12. sc \in [DpDefinitions -> Nat]
    BY <1>11, DpScoreTyped
<1>13. PICK top \in Nat, second \in Nat :
        /\ top = IF 1 <= m THEN DpScore(p, c[1], default) ELSE 0
        /\ second = IF 2 <= m THEN DpScore(p, c[2], default) ELSE 0
    <2>1. 1 <= m => DpScore(p, c[1], default) \in Nat
        BY <1>10, <1>9, DpScoreTyped
    <2>2. 2 <= m => DpScore(p, c[2], default) \in Nat
        BY <1>10, <1>9, DpScoreTyped
    <2>3. (IF 1 <= m THEN DpScore(p, c[1], default) ELSE 0) \in Nat
        BY <2>1
    <2>4. (IF 2 <= m THEN DpScore(p, c[2], default) ELSE 0) \in Nat
        BY <2>2
    <2> QED BY <2>3, <2>4
<1>14. PICK b \in BOOLEAN : b = DpConfirm(p, default, c)
    BY DEF DpConfirm
<1>15. PICK rec : rec = [prompt |-> p, candidates |-> c, default |-> default, offered |-> L, confirm |-> b]
    OBVIOUS
<1>16. DpRecommend(p, default, most) = rec
    <2>1. c = DpCandidates(p, default, most)
        BY <1>1, <1>5, <1>7, <1>8 DEF DpCandidates
    <2> QED BY <1>2, <1>14, <1>15, <2>1, Zenon DEF DpRecommend
<1>17. rec \in DpRecRows
    BY <1>4, <1>10, <1>15 DEF DpRecRows
<1>18. ASSUME ~b PROVE c # <<>> /\ DpLeads(rec, c[1], DpMargin(rec))
    <2>1. top >= 10 /\ top - second >= 4
        <3>1. DpScoreAt(p, default, c, 1) = top /\ DpScoreAt(p, default, c, 2) = second
            BY <1>9, <1>13 DEF DpScoreAt
        <3>2. DpConfidence(top, second) = "high"
            BY <1>14, <1>18, <3>1 DEF DpConfirm
        <3> QED BY <3>2 DEF DpConfidence
    <2>2. 1 <= m /\ top = sc[c[1]] /\ c[1] = s[1]
        BY <1>9, <1>10, <1>11, <1>13, <2>1
    <2>3. c # <<>>
        BY <1>9, <2>2
    <2>4. DpScore(rec.prompt, c[1], rec.default) >= 10
        BY <1>9, <1>13, <1>15, <2>1, <2>2
    <2>5. PICK margin \in {0, 4} : margin = IF m = 1 THEN 0 ELSE 4
        OBVIOUS
    <2>6. DpMargin(rec) = margin
        BY <1>9, <1>15, <2>5 DEF DpMargin
    <2>7. ASSUME NEW e \in L \ {c[1]}
          PROVE  DpScore(p, c[1], default) - DpScore(p, e, default) >= margin
        <3>1. PICK i \in 1..n : s[i] = e
            BY <1>3, <1>5
        <3>2. i # 1
            BY <2>2, <3>1
        <3>3. 2 <= i /\ 2 \in 1..n
            BY <3>1, <3>2
        <3>4. s[2] \in L /\ s[1] \in L
            BY <1>3, <1>5, <3>3
        <3>5. top - sc[s[2]] >= margin
            <4>1. CASE m = 1
                <5>1. <<s[1], s[2]>> \in R
                    BY <1>3, <1>5, <3>3
                <5>2. DpBefore(p, default, s[1], s[2])
                    BY <1>2, <5>1 DEF DpRanking
                <5>3. sc[s[1]] >= sc[s[2]]
                    BY <1>4, <1>11, <1>12, <3>4, <5>2 DEF DpBefore
                <5>4. sc[s[1]] \in Nat /\ sc[s[2]] \in Nat
                    BY <1>4, <1>12, <3>4
                <5> QED BY <2>2, <2>5, <4>1, <5>3, <5>4
            <4>2. CASE m # 1
                <5>1. 2 <= m
                    BY <2>2, <4>2
                <5>2. second = sc[s[2]]
                    BY <1>4, <1>9, <1>11, <1>13, <3>4, <5>1
                <5> QED BY <2>1, <2>5, <4>2, <5>2
            <4> QED BY <4>1, <4>2
        <3>6. sc[s[2]] >= sc[e]
            <4>1. CASE i = 2
                BY <1>4, <1>12, <3>1, <3>4, <4>1
            <4>2. CASE 2 < i
                <5>1. <<s[2], e>> \in R
                    BY <1>3, <1>5, <3>1, <3>3, <4>2
                <5>2. DpBefore(p, default, s[2], e)
                    BY <1>2, <5>1 DEF DpRanking
                <5> QED BY <1>4, <1>11, <1>12, <3>4, <5>2 DEF DpBefore
            <4> QED BY <3>3, <4>1, <4>2
        <3>7. sc[c[1]] = DpScore(p, c[1], default) /\ sc[e] = DpScore(p, e, default) /\ sc[e] \in Nat
            BY <1>4, <1>9, <1>10, <1>11, <1>12, <2>2
        <3>8. sc[s[2]] \in Nat
            BY <1>4, <1>12, <3>4
        <3> QED BY <2>2, <2>5, <3>5, <3>6, <3>7, <3>8
    <2>8. rec.prompt = p /\ rec.default = default /\ rec.offered = L
        BY <1>15
    <2> QED BY <2>3, <2>4, <2>6, <2>7, <2>8 DEF DpLeads
<1>19. rec.confirm = b /\ rec.candidates = c
    BY <1>15
<1>20. DpRecSound(rec)
    BY <1>18, <1>19 DEF DpRecSound
<1> QED BY <1>16, <1>17, <1>20

-----------------------------------------------------------------------------
(* The dispatch of a request.                                              *)

\* Calls that have reached the API, and those with a key of the composer.
DpSent(c) == dpCall[c].phase # "unsent"
DpComposed(c) == DpSent(c) /\ dpCall[c].key # DpMcpKey

\* The attempt the composer keeps.
DpAttempts == [key : {0}] \cup [key : 1..DpMaxCalls, input : DpInputs]
DpFormStates ==
    [prompt : DpPromptIds, workflow : DpDefinitions \cup {DpNone}, rec : 0..DpMaxRecs,
     addons : SUBSET DpNodes, attempt : DpAttempts, waiting : 0..DpMaxCalls]

DpCatalogTyped ==
    /\ dpActive \in BOOLEAN /\ dpPublished \in DpDefinitions
    /\ dpBinding \in DpDefinitions \cup {DpNone}

\* Every recommendation, recorded or about to be, is sound.
DpRecsSound ==
    /\ dpRecs \in Seq(DpRecRows) /\ dpPending \in Seq(DpRecRows)
    /\ Len(dpRecs) + Len(dpPending) <= DpMaxRecs
    /\ \A i \in 1..Len(dpRecs) : DpRecSound(dpRecs[i])
    /\ \A i \in 1..Len(dpPending) : DpRecSound(dpPending[i])

DpFormTyped ==
    /\ dpForm \in DpFormStates /\ dpDrawn \in Nat /\ dpEdits \in Nat
    /\ dpForm.rec <= Len(dpRecs) /\ dpForm.attempt.key <= dpDrawn

DpCallsTyped ==
    /\ dpCall \in [DpCalls -> DpCallStates \cup {DpUnsent}]
    /\ \A c \in DpCalls : DpSent(c) => dpCall[c].input.rec <= Len(dpRecs)

\* Calls are sent in order, and each of them draws at most one key.
DpNumbered ==
    \E n \in 0..DpMaxCalls :
        /\ dpDrawn <= n
        /\ \A c \in DpCalls : DpSent(c) <=> (c <= n)

\* A key is kept as long as the form is: the calls made from one edition of it
\* share their key, which the present edition still has.
DpKeysKept ==
    /\ \A c \in DpCalls : DpComposed(c) =>
          /\ dpCall[c].form <= dpEdits
          /\ (dpCall[c].form = dpEdits) =>
                /\ dpForm.attempt.key = dpCall[c].key
                /\ dpForm.attempt.input = DpFormInput
    /\ \A b, c \in DpCalls :
          (DpComposed(b) /\ DpComposed(c) /\ dpCall[b].form = dpCall[c].form) =>
              dpCall[b].key = dpCall[c].key

\* A transaction that holds a claim holds it alone, and nothing is committed
\* under its key.
DpClaimsHold ==
    /\ \A c \in DpCalls : dpCall[c].phase = "claimed" => dpReceipt[dpCall[c].key] = DpNoReceipt
    /\ \A b, c \in DpCalls :
          (dpCall[b].phase = "claimed" /\ dpCall[c].phase = "claimed" /\ dpCall[b].key = dpCall[c].key) =>
              b = c

DpReceiptsTyped ==
    /\ dpReceipt \in [DpReceiptKeys -> DpReceipts \cup {DpNoReceipt}]
    /\ dpRuns \in Seq(DpRunRows)

\* A receipt tells of the run of its key, and every run has one, and a call.
DpReceiptsHold ==
    /\ \A k \in DpReceiptKeys : dpReceipt[k] # DpNoReceipt =>
          /\ dpReceipt[k].run \in 1..Len(dpRuns)
          /\ dpRuns[dpReceipt[k].run].key = k
          /\ dpRuns[dpReceipt[k].run].input = dpReceipt[k].input
    /\ \A i \in 1..Len(dpRuns) :
          /\ dpReceipt[dpRuns[i].key].run = i
          /\ \E c \in DpCalls :
                DpSent(c) /\ dpCall[c].key = dpRuns[i].key /\ dpCall[c].form = dpRuns[i].form

\* Every answer is that of the run it names.
DpAnswersHold ==
    \A c \in DpCalls : dpCall[c].answer \in {"created", "replayed"} =>
        /\ dpCall[c].run \in 1..Len(dpRuns)
        /\ dpRuns[dpCall[c].run].input = dpCall[c].input
        /\ dpReceipt[dpCall[c].key].run = dpCall[c].run

\* An automatic choice was made by a recorded recommendation.
DpChosenBest ==
    \A i \in 1..Len(dpRuns) : dpRuns[i].source = "policy_recommendation" =>
        /\ dpRuns[i].input.rec \in 1..Len(dpRecs)
        /\ dpRecs[dpRuns[i].input.rec].prompt = dpRuns[i].input.prompt
        /\ DpLeads(dpRecs[dpRuns[i].input.rec], dpRuns[i].definition,
                   DpMargin(dpRecs[dpRuns[i].input.rec]))

DpIInv ==
    /\ DpCatalogTyped /\ DpRecsSound /\ DpFormTyped /\ DpCallsTyped /\ DpNumbered
    /\ DpKeysKept /\ DpClaimsHold /\ DpReceiptsTyped /\ DpReceiptsHold /\ DpAnswersHold
    /\ DpChosenBest

\* A sent call has a typed row.
LEMMA DpCallRow ==
    ASSUME DpCallsTyped, NEW c \in DpCalls, DpSent(c)
    PROVE  dpCall[c] \in DpCallStates
BY DEF DpCallsTyped, DpSent, DpUnsent

(* The invariant holds before the first call. *)
LEMMA DpInitSound == DpInit => DpIInv
<1> SUFFICES ASSUME DpInit PROVE DpIInv
    OBVIOUS
<1> USE DpAssumption
<1>1. DpCatalogTyped
    <2>1. PICK n \in Nat : n # 0 /\ DpDefinitions = 1..n
        BY DpNumbers
    <2>2. DpOld \in 1..n
        BY <2>1
    <2>3. 0..DpOld \subseteq DpDefinitions \cup {0}
        BY <2>1, <2>2
    <2> QED BY <2>3 DEF DpInit, DpCatalogTyped, DpNone
<1>2. DpRecsSound
    BY DEF DpInit, DpRecsSound
<1>3. DpFormTyped
    <2>1. PICK n \in Nat : n # 0 /\ DpPromptIds = 1..n
        BY DpNumbers
    <2>2. 1 \in DpPromptIds /\ \A q \in DpPromptIds : 1 <= q
        BY <2>1
    <2>3. Min(DpPromptIds) \in DpPromptIds
        BY <2>2 DEF Min
    <2>4. [key |-> 0] \in DpAttempts
        BY DEF DpAttempts
    <2>5. 0 \in 0..DpMaxCalls /\ 0 \in 0..DpMaxRecs /\ {} \in SUBSET DpNodes /\ 0 \in DpDefinitions \cup {DpNone}
        BY DEF DpNone
    <2>6. dpForm \in DpFormStates /\ dpForm.rec = 0 /\ dpForm.attempt.key = 0
        BY <2>3, <2>4, <2>5 DEF DpInit, DpFormStates, DpNone
    <2> QED BY <2>6 DEF DpInit, DpFormTyped
<1>4. \A c \in DpCalls : dpCall[c] = DpUnsent /\ ~DpSent(c) /\ dpCall[c].answer = "none" /\ dpCall[c].phase = "unsent"
    BY DEF DpInit, DpUnsent, DpSent
<1>5. DpCallsTyped
    BY <1>4 DEF DpInit, DpCallsTyped
<1>6. DpNumbered
    <2>1. 0 \in 0..DpMaxCalls /\ dpDrawn <= 0
        BY DEF DpInit
    <2>2. \A c \in DpCalls : ~(c <= 0)
        BY DEF DpCalls
    <2> QED BY <1>4, <2>1, <2>2 DEF DpNumbered
<1>7. DpKeysKept
    BY <1>4 DEF DpKeysKept, DpComposed
<1>8. DpClaimsHold
    BY <1>4 DEF DpClaimsHold
<1>9. DpReceiptsTyped
    BY DEF DpInit, DpReceiptsTyped
<1>10. DpReceiptsHold
    BY DEF DpInit, DpReceiptsHold
<1>11. DpAnswersHold
    BY <1>4 DEF DpAnswersHold
<1>12. DpChosenBest
    BY DEF DpInit, DpChosenBest
<1> QED BY <1>1, <1>2, <1>3, <1>5, <1>6, <1>7, <1>8, <1>9, <1>10, <1>11, <1>12 DEF DpIInv

\* What a step leaves alone keeps its part of the invariant.
LEMMA DpRecsFrame == DpRecsSound /\ UNCHANGED dpRecommended => DpRecsSound'
<1> SUFFICES ASSUME DpRecsSound, UNCHANGED dpRecommended PROVE DpRecsSound'
    OBVIOUS
<1>1. dpRecs' = dpRecs /\ dpPending' = dpPending
    BY DEF dpRecommended
<1> QED BY <1>1 DEF DpRecsSound

(* Frames: a part of the invariant survives what leaves its variables alone. *)
LEMMA DpFormFrame == DpFormTyped /\ UNCHANGED <<dpClient, dpRecs>> => DpFormTyped'
BY DEF DpFormTyped, dpClient

LEMMA DpServerFrame ==
    ASSUME DpReceiptsTyped, DpReceiptsHold, DpAnswersHold, DpClaimsHold, UNCHANGED dpServer
    PROVE  DpReceiptsTyped' /\ DpReceiptsHold' /\ DpAnswersHold' /\ DpClaimsHold'
<1>1. dpReceipt' = dpReceipt /\ dpRuns' = dpRuns /\ dpCall' = dpCall
    BY DEF dpServer
<1>2. \A c \in DpCalls : DpSent(c)' <=> DpSent(c)
    BY <1>1 DEF DpSent
<1>3. DpReceiptsTyped' /\ DpAnswersHold' /\ DpClaimsHold'
    BY <1>1 DEF DpReceiptsTyped, DpAnswersHold, DpClaimsHold
<1>4. DpReceiptsHold'
    BY <1>1, <1>2 DEF DpReceiptsHold
<1> QED BY <1>3, <1>4

LEMMA DpCallsFrame ==
    ASSUME DpCallsTyped, DpNumbered, dpCall' = dpCall, dpDrawn' = dpDrawn, dpRecs' = dpRecs
    PROVE  DpCallsTyped' /\ DpNumbered'
<1>1. \A c \in DpCalls : DpSent(c)' <=> DpSent(c)
    BY DEF DpSent
<1> QED BY <1>1 DEF DpCallsTyped, DpNumbered

LEMMA DpKeysFrame ==
    ASSUME DpKeysKept, dpCall' = dpCall, dpForm' = dpForm, dpEdits' = dpEdits
    PROVE  DpKeysKept'
<1>1. \A c \in DpCalls : DpComposed(c)' <=> DpComposed(c)
    BY DEF DpComposed, DpSent
<1>2. DpFormInput' = DpFormInput
    BY DEF DpFormInput
<1> QED BY <1>1, <1>2 DEF DpKeysKept

LEMMA DpChosenFrame ==
    ASSUME DpChosenBest, dpRuns' = dpRuns, dpRecs' = dpRecs
    PROVE  DpChosenBest'
BY DEF DpChosenBest

\* The catalog changes.
LEMMA DpCatalogSteps ==
    ASSUME DpIInv, DpPublish \/ DpArchive \/ \E d \in DpDefinitions : DpConfigureBinding(d)
    PROVE  DpIInv'
<1>1. DpCatalogTyped' /\ UNCHANGED <<dpRecommended, dpServer, dpClient>>
    BY DEF DpIInv, DpCatalogTyped, DpPublish, DpArchive, DpConfigureBinding
<1>2. dpRecs' = dpRecs /\ dpCall' = dpCall /\ dpRuns' = dpRuns /\ dpForm' = dpForm /\ dpDrawn' = dpDrawn /\ dpEdits' = dpEdits
    BY <1>1 DEF dpRecommended, dpServer, dpClient
<1> QED BY <1>1, <1>2, DpRecsFrame, DpFormFrame, DpServerFrame, DpCallsFrame, DpKeysFrame, DpChosenFrame DEF DpIInv

LEMMA DpCatalogFrame == DpCatalogTyped /\ UNCHANGED dpCatalog => DpCatalogTyped'
BY DEF DpCatalogTyped, dpCatalog

\* A recommendation is computed from what is registered now.
LEMMA DpBeginStep ==
    ASSUME DpIInv, NEW p \in DpPromptIds, NEW most \in DpLimits, DpBeginRecommendation(p, most)
    PROVE  DpIInv'
<1> USE DpAssumption
<1>1. UNCHANGED <<dpCatalog, dpRecs, dpServer, dpClient>> /\ Len(dpRecs) < DpMaxRecs
    BY DEF DpBeginRecommendation
<1>2. dpCall' = dpCall /\ dpRuns' = dpRuns /\ dpForm' = dpForm /\ dpDrawn' = dpDrawn /\ dpEdits' = dpEdits
    BY <1>1 DEF dpServer, dpClient
<1>3. DpCatalogTyped
    BY DEF DpIInv
<1>4. DpRecommend(p, dpBinding, most) \in DpRecRows /\ DpRecSound(DpRecommend(p, dpBinding, most))
    BY <1>3, DpRecommends DEF DpCatalogTyped
<1>5. PICK rec \in DpRecRows : rec = DpRecommend(p, dpBinding, most) /\ DpRecSound(rec)
    BY <1>4
<1>6. dpPending' = <<rec>> /\ dpRecs' = dpRecs
    BY <1>1, <1>5 DEF DpBeginRecommendation
<1>7. DpRecsSound'
    <2>1. dpRecs \in Seq(DpRecRows) /\ \A i \in 1..Len(dpRecs) : DpRecSound(dpRecs[i])
        BY DEF DpIInv, DpRecsSound
    <2>2. dpPending' \in Seq(DpRecRows) /\ Len(dpPending') = 1 /\ dpPending'[1] = rec
        BY <1>6
    <2>3. Len(dpRecs) + 1 <= DpMaxRecs
        BY <1>1, <2>1
    <2>4. \A i \in 1..1 : i = 1
        OBVIOUS
    <2> QED BY <1>5, <1>6, <2>1, <2>2, <2>3, <2>4 DEF DpRecsSound
<1> QED BY <1>1, <1>2, <1>6, <1>7, DpCatalogFrame, DpFormFrame, DpServerFrame, DpCallsFrame, DpKeysFrame, DpChosenFrame DEF DpIInv

\* The recommendation is recorded: earlier ones keep their places.
LEMMA DpRecordStep ==
    ASSUME DpIInv, DpRecordRecommendation
    PROVE  DpIInv'
<1> USE DpAssumption
<1>1. UNCHANGED <<dpCatalog, dpServer, dpClient>> /\ dpPending' = <<>> /\ dpRecs' = dpRecs \o dpPending
    BY DEF DpRecordRecommendation
<1>2. dpCall' = dpCall /\ dpRuns' = dpRuns /\ dpForm' = dpForm /\ dpDrawn' = dpDrawn /\ dpEdits' = dpEdits
    BY <1>1 DEF dpServer, dpClient
<1>3. DpRecsSound
    BY DEF DpIInv
<1>4. PICK s \in Seq(DpRecRows), t \in Seq(DpRecRows) : s = dpRecs /\ t = dpPending
    BY <1>3 DEF DpRecsSound
<1>5. PICK u \in Seq(DpRecRows) : u = s \o t
    <2>1. s \o t \in Seq(DpRecRows)
        BY ConcatProperties
    <2> QED BY <2>1
<1>6. /\ Len(u) = Len(s) + Len(t) /\ Len(s) \in Nat /\ Len(t) \in Nat
      /\ \A i \in 1..Len(s) : u[i] = s[i]
      /\ \A i \in 1..Len(u) : i \in 1..Len(s) \/ (i - Len(s) \in 1..Len(t) /\ u[i] = t[i - Len(s)])
    BY <1>5
<1>7. dpRecs' = u
    BY <1>1, <1>4, <1>5
<1>8. DpRecsSound'
    <2>1. \A i \in 1..Len(u) : DpRecSound(u[i])
        <3> SUFFICES ASSUME NEW i \in 1..Len(u) PROVE DpRecSound(u[i])
            OBVIOUS
        <3>1. CASE i \in 1..Len(s)
            BY <1>3, <1>4, <1>6, <3>1 DEF DpRecsSound
        <3>2. CASE i - Len(s) \in 1..Len(t) /\ u[i] = t[i - Len(s)]
            BY <1>3, <1>4, <3>2 DEF DpRecsSound
        <3> QED BY <1>6, <3>1, <3>2
    <2>2. Len(u) + 0 <= DpMaxRecs
        BY <1>3, <1>4, <1>6 DEF DpRecsSound
    <2>3. <<>> \in Seq(DpRecRows) /\ Len(<<>>) = 0
        OBVIOUS
    <2> QED BY <1>1, <1>7, <2>1, <2>2, <2>3 DEF DpRecsSound
<1>9. DpFormTyped'
    <2>1. dpForm \in DpFormStates /\ dpForm.rec <= Len(s)
        BY <1>4 DEF DpIInv, DpFormTyped
    <2>2. dpForm.rec \in Nat
        BY <2>1 DEF DpFormStates
    <2>3. dpForm.rec <= Len(u)
        BY <1>6, <2>1, <2>2
    <2> QED BY <1>2, <1>7, <2>1, <2>3 DEF DpIInv, DpFormTyped
<1>10. DpCallsTyped'
    <2>1. DpCallsTyped
        BY DEF DpIInv
    <2>2. ASSUME NEW c \in DpCalls, DpSent(c) PROVE dpCall[c].input.rec <= Len(u)
        <3>1. dpCall[c] \in DpCallStates
            BY <2>1, <2>2, DpCallRow
        <3>2. dpCall[c].input.rec \in Nat
            BY <3>1 DEF DpCallStates, DpInputs
        <3>3. dpCall[c].input.rec <= Len(s)
            BY <1>4, <2>1, <2>2 DEF DpCallsTyped
        <3> QED BY <1>6, <3>2, <3>3
    <2>3. \A c \in DpCalls : DpSent(c)' <=> DpSent(c)
        BY <1>2 DEF DpSent
    <2> QED BY <1>2, <1>7, <2>1, <2>2, <2>3 DEF DpCallsTyped
<1>11. DpNumbered'
    <2>1. \A c \in DpCalls : DpSent(c)' <=> DpSent(c)
        BY <1>2 DEF DpSent
    <2> QED BY <1>2, <2>1 DEF DpIInv, DpNumbered
<1>12. DpChosenBest'
    <2>1. DpChosenBest
        BY DEF DpIInv
    <2>2. 1..Len(s) \subseteq 1..Len(u)
        BY <1>6
    <2> QED BY <1>2, <1>4, <1>6, <1>7, <2>1, <2>2 DEF DpChosenBest
<1> QED BY <1>1, <1>2, <1>8, <1>9, <1>10, <1>11, <1>12, DpCatalogFrame, DpServerFrame, DpKeysFrame DEF DpIInv

\* The form is edited: the calls made so far come from earlier editions.
LEMMA DpNewEdition ==
    ASSUME DpIInv, dpCall' = dpCall, dpEdits' = dpEdits + 1
    PROVE  DpKeysKept'
<1>1. \A c \in DpCalls : DpComposed(c)' <=> DpComposed(c)
    BY DEF DpComposed, DpSent
<1>2. ASSUME NEW c \in DpCalls, DpComposed(c) PROVE dpCall[c].form <= dpEdits + 1 /\ dpCall[c].form # dpEdits + 1
    <2>1. dpCall[c] \in DpCallStates
        BY <1>2, DpCallRow DEF DpComposed, DpIInv
    <2>2. dpCall[c].form \in Nat
        BY <2>1 DEF DpCallStates
    <2>3. dpEdits \in Nat /\ dpCall[c].form <= dpEdits
        BY <1>2 DEF DpIInv, DpFormTyped, DpKeysKept
    <2> QED BY <2>2, <2>3
<1> QED BY <1>1, <1>2 DEF DpIInv, DpKeysKept

\* Only the form and its edition change.
LEMMA DpFormStep ==
    ASSUME DpIInv, UNCHANGED <<dpCatalog, dpRecommended, dpServer, dpDrawn>>, DpFormTyped', DpKeysKept'
    PROVE  DpIInv'
<1>1. dpRecs' = dpRecs /\ dpCall' = dpCall /\ dpRuns' = dpRuns
    BY DEF dpRecommended, dpServer
<1> QED BY <1>1, DpCatalogFrame, DpRecsFrame, DpServerFrame, DpCallsFrame, DpChosenFrame DEF DpIInv

(* Editing the form keeps the invariant. *)
LEMMA DpEditStep ==
    ASSUME DpIInv, NEW f \in DpForms, DpEdit(f.prompt, f.workflow, f.addons)
    PROVE  DpIInv'
<1>1. f \in [prompt : DpPromptIds, workflow : DpDefinitions \cup {DpNone}, addons : SUBSET DpNodes]
    BY DpAssumption
<1>2. UNCHANGED <<dpCatalog, dpRecommended, dpServer, dpDrawn>> /\ dpEdits' = dpEdits + 1 /\ dpEdits \in Nat
    BY DEF DpEdit, DpIInv, DpFormTyped
<1>3. dpCall' = dpCall /\ dpRecs' = dpRecs /\ dpDrawn' = dpDrawn
    BY <1>2 DEF dpServer, dpRecommended
<1>4. PICK s \in DpFormStates : s = dpForm /\ s.rec <= Len(dpRecs)
    BY DEF DpIInv, DpFormTyped
<1>5. PICK r \in 0..DpMaxRecs : r = (IF f.prompt = s.prompt THEN s.rec ELSE 0)
    BY <1>4, DpAssumption DEF DpFormStates
<1>6. PICK t \in DpFormStates : t = [s EXCEPT !.prompt = f.prompt, !.workflow = f.workflow, !.addons = f.addons, !.rec = r]
    BY <1>1, <1>4, <1>5 DEF DpFormStates
<1>7. t.rec = r /\ r <= Len(dpRecs) /\ t.attempt = s.attempt
    <2>1. Len(dpRecs) \in Nat
        BY DEF DpIInv, DpRecsSound
    <2> QED BY <1>4, <1>5, <1>6, <2>1 DEF DpFormStates
<1>8. dpForm' = t
    BY <1>4, <1>5, <1>6 DEF DpEdit
<1>9. DpFormTyped'
    BY <1>2, <1>3, <1>4, <1>7, <1>8 DEF DpFormTyped, DpIInv
<1> QED BY <1>2, <1>3, <1>9, DpNewEdition, DpFormStep

(* Taking up a recommendation keeps the invariant. *)
LEMMA DpTakeStep ==
    ASSUME DpIInv, NEW r \in 1..DpMaxRecs, DpTakeRecommendation(r)
    PROVE  DpIInv'
<1> USE DpAssumption
<1>1. UNCHANGED <<dpCatalog, dpRecommended, dpServer, dpDrawn>> /\ dpEdits' = dpEdits + 1 /\ dpEdits \in Nat
    BY DEF DpTakeRecommendation, DpIInv, DpFormTyped
<1>2. dpCall' = dpCall /\ dpRecs' = dpRecs /\ dpDrawn' = dpDrawn
    BY <1>1 DEF dpServer, dpRecommended
<1>3. PICK s \in DpFormStates : s = dpForm
    BY DEF DpIInv, DpFormTyped
<1>4. PICK recs \in Seq(DpRecRows) : recs = dpRecs
    BY DEF DpIInv, DpRecsSound
<1>5. r \in 1..Len(recs)
    BY <1>4 DEF DpTakeRecommendation
<1>6. PICK x \in DpRecRows : x = recs[r] /\ DpRecSound(x)
    BY <1>4, <1>5 DEF DpIInv, DpRecsSound
<1>7. PICK w \in DpDefinitions \cup {DpNone} : w = (IF x.confirm THEN s.workflow ELSE x.candidates[1])
    <2>1. s.workflow \in DpDefinitions \cup {DpNone}
        BY DEF DpFormStates
    <2>2. ~x.confirm => x.candidates[1] \in DpDefinitions
        <3> SUFFICES ASSUME ~x.confirm PROVE x.candidates[1] \in DpDefinitions
            OBVIOUS
        <3>1. x.candidates # <<>> /\ x.candidates \in Seq(DpDefinitions)
            BY <1>6 DEF DpRecSound, DpRecRows
        <3> QED BY <3>1
    <2>3. (IF x.confirm THEN s.workflow ELSE x.candidates[1]) \in DpDefinitions \cup {DpNone}
        BY <2>1, <2>2
    <2> QED BY <2>3
<1>8. r \in 0..DpMaxRecs
    OBVIOUS
<1>9. PICK t \in DpFormStates : t = [s EXCEPT !.rec = r, !.workflow = w]
    BY <1>3, <1>7, <1>8 DEF DpFormStates
<1>10. dpForm' = t
    BY <1>3, <1>4, <1>6, <1>7, <1>9 DEF DpTakeRecommendation
<1>11. t.rec = r /\ r <= Len(dpRecs) /\ t.attempt = s.attempt
    BY <1>4, <1>5, <1>9 DEF DpFormStates
<1>12. DpFormTyped'
    BY <1>1, <1>2, <1>3, <1>10, <1>11 DEF DpFormTyped, DpIInv
<1> QED BY <1>1, <1>2, <1>12, DpNewEdition, DpFormStep

\* The answer is lost, or refused: the form stays as it is.
LEMMA DpFormWaits ==
    ASSUME DpIInv, dpForm' = [dpForm EXCEPT !.waiting = 0],
           UNCHANGED <<dpCatalog, dpRecommended, dpServer, dpDrawn, dpEdits>>
    PROVE  DpIInv'
<1> USE DpAssumption
<1>1. dpCall' = dpCall /\ dpRecs' = dpRecs
    BY DEF dpServer, dpRecommended
<1>2. PICK s \in DpFormStates : s = dpForm /\ s.rec <= Len(dpRecs)
    BY DEF DpIInv, DpFormTyped
<1>3. PICK t \in DpFormStates : t = [s EXCEPT !.waiting = 0]
    <2>1. 0 \in 0..DpMaxCalls
        OBVIOUS
    <2> QED BY <2>1 DEF DpFormStates
<1>4. /\ t.prompt = s.prompt /\ t.workflow = s.workflow /\ t.rec = s.rec /\ t.addons = s.addons
      /\ t.attempt = s.attempt
    BY <1>3 DEF DpFormStates
<1>5. dpForm' = t
    BY <1>2, <1>3
<1>6. DpFormTyped'
    BY <1>1, <1>2, <1>4, <1>5 DEF DpFormTyped, DpIInv
<1>7. DpFormInput' = DpFormInput /\ dpForm'.attempt = dpForm.attempt
    BY <1>2, <1>4, <1>5 DEF DpFormInput
<1>8. \A c \in DpCalls : DpComposed(c)' <=> DpComposed(c)
    BY <1>1 DEF DpComposed, DpSent
<1>9. DpKeysKept'
    BY <1>1, <1>7, <1>8 DEF DpIInv, DpKeysKept
<1> QED BY <1>6, <1>9, DpFormStep

(* An answer that is lost keeps the invariant. *)
LEMMA DpLoseStep == DpIInv /\ DpLoseAnswer => DpIInv'
BY DpFormWaits DEF DpLoseAnswer

(* The answer reaches the form: refused, or the attempt is over. *)
LEMMA DpAnsweredStep ==
    ASSUME DpIInv, DpAnswered
    PROVE  DpIInv'
<1> USE DpAssumption
<1>1. UNCHANGED <<dpCatalog, dpRecommended, dpServer, dpDrawn>>
    BY DEF DpAnswered
<1>2. CASE dpForm' = [dpForm EXCEPT !.waiting = 0] /\ dpEdits' = dpEdits
    BY <1>1, <1>2, DpFormWaits
<1>3. CASE /\ dpForm' = [dpForm EXCEPT !.waiting = 0, !.attempt = [key |-> 0], !.rec = 0, !.addons = {}]
           /\ dpEdits' = dpEdits + 1
    <2>1. dpCall' = dpCall /\ dpRecs' = dpRecs
        BY <1>1 DEF dpServer, dpRecommended
    <2>2. PICK s \in DpFormStates : s = dpForm
        BY DEF DpIInv, DpFormTyped
    <2>3. PICK a \in DpAttempts : a = [key |-> 0]
        BY DEF DpAttempts
    <2>4. 0 \in 0..DpMaxCalls /\ 0 \in 0..DpMaxRecs /\ {} \in SUBSET DpNodes
        OBVIOUS
    <2>5. PICK t \in DpFormStates : t = [s EXCEPT !.waiting = 0, !.attempt = a, !.rec = 0, !.addons = {}]
        BY <2>3, <2>4 DEF DpFormStates
    <2>6. dpForm' = t
        BY <1>3, <2>2, <2>3, <2>5
    <2>7. t.rec = 0 /\ 0 <= Len(dpRecs) /\ t.attempt.key = 0 /\ 0 <= dpDrawn
        BY <2>3, <2>5 DEF DpFormStates, DpIInv, DpRecsSound, DpFormTyped
    <2>8. dpEdits + 1 \in Nat
        BY DEF DpIInv, DpFormTyped
    <2>9. DpFormTyped'
        BY <1>1, <1>3, <2>1, <2>6, <2>7, <2>8 DEF DpFormTyped, DpIInv
    <2> QED BY <1>1, <1>3, <2>1, <2>9, DpNewEdition, DpFormStep
<1> QED BY <1>2, <1>3 DEF DpAnswered

\* A call arrives, with a key and an input of its own.
LEMMA DpArrives ==
    ASSUME DpIInv, NEW c \in DpCalls, NEW k \in DpReceiptKeys, NEW input \in DpInputs, NEW form \in Nat,
           DpReceive(c, k, input, form), input.rec <= Len(dpRecs),
           UNCHANGED <<dpCatalog, dpRecommended, dpReceipt, dpRuns>>
    PROVE  /\ DpCatalogTyped' /\ DpRecsSound' /\ DpCallsTyped' /\ DpClaimsHold' /\ DpReceiptsTyped'
           /\ DpReceiptsHold' /\ DpAnswersHold' /\ DpChosenBest'
           /\ dpCall'[c].key = k /\ dpCall'[c].form = form /\ DpSent(c)'
           /\ ~DpSent(c) /\ \A b \in 1..(c - 1) : DpSent(b)
           /\ \A b \in DpCalls : b # c => dpCall'[b] = dpCall[b]
<1> USE DpAssumption
<1>1. PICK x \in DpCallStates :
           x = [phase |-> "received", key |-> k, input |-> input, answer |-> "none", run |-> 0, form |-> form,
                active |-> dpActive]
    BY DEF DpCallStates, DpIInv, DpCatalogTyped
<1>2. x.phase = "received" /\ x.key = k /\ x.input = input /\ x.answer = "none" /\ x.form = form
    BY <1>1
<1>3. dpCall \in [DpCalls -> DpCallStates \cup {DpUnsent}]
    BY DEF DpIInv, DpCallsTyped
<1>4. dpCall' = [dpCall EXCEPT ![c] = x]
    BY <1>1 DEF DpReceive
<1>5. dpCall'[c] = x /\ \A b \in DpCalls : b # c => dpCall'[b] = dpCall[b]
    BY <1>3, <1>4
<1>6. dpCall' \in [DpCalls -> DpCallStates \cup {DpUnsent}]
    BY <1>3, <1>4
<1>7. ~DpSent(c) /\ DpSent(c)' /\ \A b \in 1..(c - 1) : DpSent(b)
    BY <1>2, <1>5 DEF DpReceive, DpSent
<1>8. \A b \in DpCalls : b # c => (DpSent(b)' <=> DpSent(b))
    BY <1>5 DEF DpSent
<1>9. dpRecs' = dpRecs
    BY DEF dpRecommended
<1>10. DpCallsTyped'
    <2>1. ASSUME NEW b \in DpCalls, DpSent(b)' PROVE dpCall'[b].input.rec <= Len(dpRecs)
        <3>1. CASE b = c
            BY <1>2, <1>5, <3>1
        <3>2. CASE b # c
            BY <1>5, <1>8, <2>1, <3>2 DEF DpIInv, DpCallsTyped
        <3> QED BY <3>1, <3>2
    <2> QED BY <1>6, <1>9, <2>1 DEF DpCallsTyped
<1>11. DpClaimsHold'
    BY <1>2, <1>5 DEF DpIInv, DpClaimsHold
<1>12. DpReceiptsTyped'
    BY DEF DpIInv, DpReceiptsTyped
<1>13. DpReceiptsHold'
    <2>1. ASSUME NEW i \in 1..Len(dpRuns)
          PROVE  \E b \in DpCalls : DpSent(b)' /\ dpCall'[b].key = dpRuns[i].key /\ dpCall'[b].form = dpRuns[i].form
        <3>1. PICK b \in DpCalls : DpSent(b) /\ dpCall[b].key = dpRuns[i].key /\ dpCall[b].form = dpRuns[i].form
            BY DEF DpIInv, DpReceiptsHold
        <3>2. b # c
            BY <1>7, <3>1
        <3> QED BY <1>5, <1>8, <3>1, <3>2
    <2> QED BY <2>1 DEF DpIInv, DpReceiptsHold
<1>14. DpAnswersHold'
    BY <1>2, <1>5 DEF DpIInv, DpAnswersHold
<1> QED BY <1>2, <1>5, <1>7, <1>9, <1>10, <1>11, <1>12, <1>13, <1>14, DpCatalogFrame, DpRecsFrame, DpChosenFrame DEF DpIInv

\* The calls sent so far are 1 to c.
LEMMA DpNumberedStep ==
    ASSUME DpNumbered, NEW c \in DpCalls, ~DpSent(c), DpSent(c)', \A b \in 1..(c - 1) : DpSent(b),
           \A b \in DpCalls : b # c => dpCall'[b] = dpCall[b], dpDrawn \in Nat
    PROVE  dpDrawn <= c - 1 /\ (dpDrawn' <= c => DpNumbered')
<1> USE DpAssumption
<1>1. PICK n \in 0..DpMaxCalls : dpDrawn <= n /\ \A b \in DpCalls : DpSent(b) <=> (b <= n)
    BY DEF DpNumbered
<1>2. n = c - 1
    <2>1. ~(c <= n) /\ c \in 1..DpMaxCalls
        BY <1>1 DEF DpCalls
    <2>2. CASE c = 1
        BY <1>1, <2>1, <2>2
    <2>3. CASE c # 1
        <3>1. c - 1 \in 1..(c - 1) /\ c - 1 \in DpCalls
            BY <2>1, <2>3 DEF DpCalls
        <3>2. c - 1 <= n
            BY <1>1, <3>1
        <3> QED BY <1>1, <2>1, <3>2
    <2> QED BY <2>2, <2>3
<1>3. \A b \in DpCalls : b # c => (DpSent(b)' <=> DpSent(b))
    BY DEF DpSent
<1>4. \A b \in DpCalls : DpSent(b)' <=> (b <= c)
    BY <1>1, <1>2, <1>3 DEF DpCalls
<1>5. c \in 0..DpMaxCalls
    BY DEF DpCalls
<1> QED BY <1>1, <1>2, <1>4, <1>5 DEF DpNumbered

\* The MCP client calls, with its own key.
LEMMA DpMcpStep ==
    ASSUME DpIInv, NEW c \in DpCalls, NEW input \in DpInputs, input.rec <= Len(dpRecs), DpMcpDispatch(c, input)
    PROVE  DpIInv'
<1> USE DpAssumption
<1>1. /\ DpReceive(c, DpMcpKey, input, 0)
      /\ UNCHANGED <<dpCatalog, dpRecommended, dpReceipt, dpRuns>> /\ UNCHANGED dpClient
    BY DEF DpMcpDispatch
<1>2. DpMcpKey \in DpReceiptKeys /\ 0 \in Nat
    BY DEF DpMcpKey, DpReceiptKeys
<1>3. /\ DpCatalogTyped' /\ DpRecsSound' /\ DpCallsTyped' /\ DpClaimsHold' /\ DpReceiptsTyped'
      /\ DpReceiptsHold' /\ DpAnswersHold' /\ DpChosenBest'
      /\ dpCall'[c].key = DpMcpKey /\ DpSent(c)'
      /\ ~DpSent(c) /\ \A b \in 1..(c - 1) : DpSent(b)
      /\ \A b \in DpCalls : b # c => dpCall'[b] = dpCall[b]
    BY <1>1, <1>2, DpArrives
<1>4. dpForm' = dpForm /\ dpDrawn' = dpDrawn /\ dpEdits' = dpEdits /\ dpRecs' = dpRecs
    BY <1>1 DEF dpClient, dpRecommended
<1>5. DpFormTyped'
    BY <1>4 DEF DpIInv, DpFormTyped
<1>6. DpNumbered'
    <2>1. DpNumbered /\ dpDrawn \in Nat
        BY DEF DpIInv, DpFormTyped
    <2>2. dpDrawn <= c - 1 /\ (dpDrawn' <= c => DpNumbered')
        BY <1>3, <2>1, DpNumberedStep
    <2> QED BY <1>4, <2>1, <2>2 DEF DpCalls
<1>7. DpKeysKept'
    <2>1. ~DpComposed(c)'
        BY <1>3 DEF DpComposed
    <2>2. \A b \in DpCalls : b # c => (DpComposed(b)' <=> DpComposed(b))
        BY <1>3 DEF DpComposed, DpSent
    <2>3. DpFormInput' = DpFormInput
        BY <1>4 DEF DpFormInput
    <2>4. ASSUME NEW b \in DpCalls, DpComposed(b)' PROVE DpComposed(b) /\ dpCall'[b] = dpCall[b]
        BY <1>3, <2>1, <2>2, <2>4
    <2>5. DpKeysKept
        BY DEF DpIInv
    <2>6. ASSUME NEW b \in DpCalls, DpComposed(b)'
          PROVE  /\ dpCall'[b].form <= dpEdits
                 /\ (dpCall'[b].form = dpEdits) =>
                       dpForm.attempt.key = dpCall'[b].key /\ dpForm.attempt.input = DpFormInput
        BY <2>4, <2>5, <2>6 DEF DpKeysKept
    <2>7. ASSUME NEW b \in DpCalls, NEW d \in DpCalls, DpComposed(b)', DpComposed(d)', dpCall'[b].form = dpCall'[d].form
          PROVE  dpCall'[b].key = dpCall'[d].key
        BY <2>4, <2>5, <2>7 DEF DpKeysKept
    <2> QED BY <1>4, <2>3, <2>6, <2>7 DEF DpKeysKept
<1> QED BY <1>3, <1>5, <1>6, <1>7 DEF DpIInv

\* The last key drawn, after one that is drawn or kept.
LEMMA DpLaterKey ==
    ASSUME NEW k \in Nat, NEW d \in Nat, k <= d + 1, NEW e, e = IF k > d THEN k ELSE d
    PROVE  e \in Nat /\ k <= e /\ e <= d + 1
OBVIOUS

\* The composer submits: an edition that was submitted before keeps its key.
LEMMA DpSubmitStep ==
    ASSUME DpIInv, NEW c \in DpCalls, DpSubmit(c)
    PROVE  DpIInv'
<1> USE DpAssumption
<1>1. PICK s \in DpFormStates : s = dpForm /\ s.rec <= Len(dpRecs) /\ s.attempt.key <= dpDrawn
    BY DEF DpIInv, DpFormTyped
<1>2. PICK input \in DpInputs : input = DpFormInput /\ input.rec = s.rec
    <2>1. DpFormInput \in DpInputs /\ DpFormInput.rec = s.rec
        BY <1>1 DEF DpFormInput, DpInputs, DpFormStates
    <2> QED BY <2>1
<1>3. dpDrawn \in Nat /\ dpEdits \in Nat
    BY DEF DpIInv, DpFormTyped
<1>4. PICK n \in 0..DpMaxCalls : dpDrawn <= n /\ \A b \in DpCalls : DpSent(b) <=> (b <= n)
    BY DEF DpIInv, DpNumbered
<1>5. ~DpSent(c)
    BY DEF DpSubmit, DpReceive, DpSent
<1>6. dpDrawn + 1 \in 1..DpMaxCalls
    BY <1>3, <1>4, <1>5 DEF DpCalls
<1>7. s.attempt \in DpAttempts
    BY DEF DpFormStates
<1>8. PICK a \in DpAttempts : a = DpPrepareAttempt(input)
    <2>1. [key |-> dpDrawn + 1, input |-> input] \in DpAttempts
        BY <1>6 DEF DpAttempts
    <2> QED BY <1>1, <1>7, <2>1 DEF DpPrepareAttempt
<1>9. /\ a.key \in 1..DpMaxCalls /\ a.key <= dpDrawn + 1 /\ a.input = input
      /\ (s.attempt.key # 0 /\ s.attempt.input = input) => a = s.attempt
    <2>1. CASE s.attempt.key # 0 /\ s.attempt.input = input
        <3>1. a = s.attempt
            BY <1>1, <1>8, <2>1 DEF DpPrepareAttempt
        <3>2. s.attempt.key \in 1..DpMaxCalls
            BY <1>7, <2>1 DEF DpAttempts
        <3> QED BY <1>1, <1>3, <2>1, <3>1, <3>2
    <2>2. CASE ~(s.attempt.key # 0 /\ s.attempt.input = input)
        <3>1. a = [key |-> dpDrawn + 1, input |-> input]
            BY <1>1, <1>8, <2>2 DEF DpPrepareAttempt
        <3> QED BY <1>3, <1>6, <2>2, <3>1
    <2> QED BY <2>1, <2>2
<1>10. a.key \in DpReceiptKeys /\ a.key # DpMcpKey
    BY <1>9 DEF DpReceiptKeys, DpMcpKey
<1>11. /\ DpReceive(c, a.key, input, dpEdits)
       /\ dpForm' = [s EXCEPT !.attempt = a, !.waiting = c]
       /\ dpDrawn' = IF a.key > dpDrawn THEN a.key ELSE dpDrawn
       /\ UNCHANGED <<dpCatalog, dpRecommended, dpReceipt, dpRuns>> /\ dpEdits' = dpEdits
    BY <1>1, <1>2, <1>8 DEF DpSubmit
<1>12. /\ DpCatalogTyped' /\ DpRecsSound' /\ DpCallsTyped' /\ DpClaimsHold' /\ DpReceiptsTyped'
       /\ DpReceiptsHold' /\ DpAnswersHold' /\ DpChosenBest'
       /\ dpCall'[c].key = a.key /\ dpCall'[c].form = dpEdits /\ DpSent(c)'
       /\ ~DpSent(c) /\ \A b \in 1..(c - 1) : DpSent(b)
       /\ \A b \in DpCalls : b # c => dpCall'[b] = dpCall[b]
    BY <1>1, <1>2, <1>3, <1>10, <1>11, DpArrives
<1>13. PICK t \in DpFormStates : t = [s EXCEPT !.attempt = a, !.waiting = c]
    <2>1. c \in 0..DpMaxCalls
        BY DEF DpCalls
    <2> QED BY <2>1 DEF DpFormStates
<1>14. dpForm' = t /\ t.attempt = a /\ t.rec = s.rec /\ t.prompt = s.prompt /\ t.workflow = s.workflow /\ t.addons = s.addons
    BY <1>11, <1>13 DEF DpFormStates
<1>15. dpDrawn' \in Nat /\ a.key <= dpDrawn' /\ dpDrawn' <= dpDrawn + 1
    <2>1. PICK k \in Nat : k = a.key /\ k <= dpDrawn + 1
        BY <1>9
    <2>2. dpDrawn' = IF k > dpDrawn THEN k ELSE dpDrawn
        BY <1>11, <2>1
    <2> QED BY <1>3, <2>1, <2>2, DpLaterKey
<1>16. DpFormTyped'
    <2>1. dpRecs' = dpRecs
        BY <1>11 DEF dpRecommended
    <2> QED BY <1>1, <1>3, <1>11, <1>14, <1>15, <2>1 DEF DpFormTyped
<1>17. DpNumbered'
    <2>1. DpNumbered
        BY DEF DpIInv
    <2>2. dpDrawn <= c - 1 /\ (dpDrawn' <= c => DpNumbered')
        BY <1>3, <1>12, <2>1, DpNumberedStep
    <2> QED BY <1>3, <1>15, <2>2 DEF DpCalls
<1>18. DpKeysKept'
    <2>1. DpFormInput' = input /\ DpFormInput = input
        BY <1>1, <1>2, <1>14 DEF DpFormInput
    <2>2. DpComposed(c)'
        BY <1>10, <1>12 DEF DpComposed
    <2>3. \A b \in DpCalls : b # c => (DpComposed(b)' <=> DpComposed(b))
        BY <1>12 DEF DpComposed, DpSent
    <2>4. ASSUME NEW b \in DpCalls, DpComposed(b), dpCall[b].form = dpEdits PROVE dpCall[b].key = a.key
        <3>1. s.attempt.key = dpCall[b].key /\ s.attempt.input = input
            BY <1>1, <2>1, <2>4 DEF DpIInv, DpKeysKept
        <3>2. s.attempt.key # 0
            BY <2>4, <3>1 DEF DpComposed, DpMcpKey
        <3> QED BY <1>9, <3>1, <3>2
    <2>5. ASSUME NEW b \in DpCalls, DpComposed(b)'
          PROVE  /\ dpCall'[b].form <= dpEdits
                 /\ dpCall'[b].form = dpEdits => a.key = dpCall'[b].key
        <3>1. CASE b = c
            BY <1>3, <1>12, <3>1
        <3>2. CASE b # c
            BY <1>12, <2>3, <2>4, <2>5, <3>2 DEF DpIInv, DpKeysKept
        <3> QED BY <3>1, <3>2
    <2>6. ASSUME NEW b \in DpCalls, NEW d \in DpCalls, DpComposed(b)', DpComposed(d)', dpCall'[b].form = dpCall'[d].form
          PROVE  dpCall'[b].key = dpCall'[d].key
        <3>1. CASE b # c /\ d # c
            BY <1>12, <2>3, <2>6, <3>1 DEF DpIInv, DpKeysKept
        <3>2. CASE b = c
            BY <1>12, <2>5, <2>6, <3>2
        <3>3. CASE d = c
            BY <1>12, <2>5, <2>6, <3>3
        <3> QED BY <3>1, <3>2, <3>3
    <2> QED BY <1>9, <1>11, <1>14, <2>1, <2>5, <2>6 DEF DpKeysKept
<1> QED BY <1>12, <1>16, <1>17, <1>18 DEF DpIInv

\* The server moves a call on, whose key, input and form stay.
LEMMA DpMovesOn ==
    ASSUME DpIInv, NEW c \in DpCalls, NEW x \in DpCallStates, DpSent(c), dpCall' = [dpCall EXCEPT ![c] = x],
           x.key = dpCall[c].key, x.input = dpCall[c].input, x.form = dpCall[c].form,
           UNCHANGED <<dpCatalog, dpRecommended, dpClient>>
    PROVE  /\ DpCatalogTyped' /\ DpRecsSound' /\ DpFormTyped' /\ DpCallsTyped' /\ DpNumbered' /\ DpKeysKept'
           /\ dpCall'[c] = x /\ \A b \in DpCalls : b # c => dpCall'[b] = dpCall[b]
           /\ \A b \in DpCalls : DpSent(b)' <=> DpSent(b)
           /\ \A b \in DpCalls : dpCall'[b].key = dpCall[b].key /\ dpCall'[b].form = dpCall[b].form
                                 /\ dpCall'[b].input = dpCall[b].input
<1>1. dpCall \in [DpCalls -> DpCallStates \cup {DpUnsent}]
    BY DEF DpIInv, DpCallsTyped
<1>2. dpCall'[c] = x /\ \A b \in DpCalls : b # c => dpCall'[b] = dpCall[b]
    BY <1>1
<1>3. x.phase # "unsent"
    BY DEF DpCallStates
<1>4. \A b \in DpCalls : DpSent(b)' <=> DpSent(b)
    BY <1>2, <1>3 DEF DpSent
<1>5. \A b \in DpCalls : dpCall'[b].key = dpCall[b].key /\ dpCall'[b].form = dpCall[b].form
                         /\ dpCall'[b].input = dpCall[b].input
    BY <1>2
<1>6. dpRecs' = dpRecs /\ dpForm' = dpForm /\ dpDrawn' = dpDrawn /\ dpEdits' = dpEdits
    BY DEF dpRecommended, dpClient
<1>7. DpCallsTyped'
    <2>1. dpCall' \in [DpCalls -> DpCallStates \cup {DpUnsent}]
        BY <1>1
    <2> QED BY <1>4, <1>5, <1>6, <2>1 DEF DpIInv, DpCallsTyped
<1>8. DpNumbered'
    BY <1>4, <1>6 DEF DpIInv, DpNumbered
<1>9. DpKeysKept'
    <2>1. \A b \in DpCalls : DpComposed(b)' <=> DpComposed(b)
        BY <1>4, <1>5 DEF DpComposed
    <2>2. DpFormInput' = DpFormInput
        BY <1>6 DEF DpFormInput
    <2>3. DpKeysKept
        BY DEF DpIInv
    <2> QED BY <1>5, <1>6, <2>1, <2>2, <2>3 DEF DpKeysKept
<1> QED BY <1>2, <1>4, <1>5, <1>6, <1>7, <1>8, <1>9, DpCatalogFrame, DpRecsFrame, DpFormFrame DEF DpIInv

\* No run is created and no receipt written: the call gets a true answer, or
\* claims a key that is free.
LEMMA DpServed ==
    ASSUME DpIInv, NEW c \in DpCalls, NEW x \in DpCallStates, DpSent(c), dpCall' = [dpCall EXCEPT ![c] = x],
           x.key = dpCall[c].key, x.input = dpCall[c].input, x.form = dpCall[c].form,
           UNCHANGED <<dpCatalog, dpRecommended, dpReceipt, dpRuns, dpClient>>,
           x.phase = "claimed" => dpReceipt[x.key] = DpNoReceipt /\ ~DpBlocked(c),
           x.answer \in {"created", "replayed"} =>
               /\ x.run \in 1..Len(dpRuns)
               /\ dpRuns[x.run].input = x.input
               /\ dpReceipt[x.key].run = x.run
    PROVE  DpIInv'
<1>1. /\ DpCatalogTyped' /\ DpRecsSound' /\ DpFormTyped' /\ DpCallsTyped' /\ DpNumbered' /\ DpKeysKept'
      /\ dpCall'[c] = x /\ \A b \in DpCalls : b # c => dpCall'[b] = dpCall[b]
      /\ \A b \in DpCalls : DpSent(b)' <=> DpSent(b)
      /\ \A b \in DpCalls : dpCall'[b].key = dpCall[b].key /\ dpCall'[b].form = dpCall[b].form
                            /\ dpCall'[b].input = dpCall[b].input
    BY DpMovesOn
<1>2. dpRecs' = dpRecs /\ dpRuns' = dpRuns /\ dpReceipt' = dpReceipt
    BY DEF dpRecommended
<1>3. DpReceiptsTyped'
    BY <1>2 DEF DpIInv, DpReceiptsTyped
<1>4. DpReceiptsHold'
    BY <1>1, <1>2 DEF DpIInv, DpReceiptsHold
<1>5. DpAnswersHold'
    <2>1. DpAnswersHold
        BY DEF DpIInv
    <2>2. ASSUME NEW b \in DpCalls, dpCall'[b].answer \in {"created", "replayed"}
          PROVE  /\ dpCall'[b].run \in 1..Len(dpRuns)
                 /\ dpRuns[dpCall'[b].run].input = dpCall'[b].input
                 /\ dpReceipt[dpCall'[b].key].run = dpCall'[b].run
        <3>1. CASE b = c
            BY <1>1, <2>2, <3>1
        <3>2. CASE b # c
            BY <1>1, <2>1, <2>2, <3>2 DEF DpAnswersHold
        <3> QED BY <3>1, <3>2
    <2> QED BY <1>2, <2>2 DEF DpAnswersHold
<1>6. DpClaimsHold'
    <2>1. DpClaimsHold
        BY DEF DpIInv
    <2>2. ASSUME NEW b \in DpCalls, dpCall'[b].phase = "claimed" PROVE dpReceipt[dpCall'[b].key] = DpNoReceipt
        <3>1. CASE b = c
            BY <1>1, <2>2, <3>1
        <3>2. CASE b # c
            BY <1>1, <2>1, <2>2, <3>2 DEF DpClaimsHold
        <3> QED BY <3>1, <3>2
    <2>3. ASSUME NEW a \in DpCalls, NEW b \in DpCalls, dpCall'[a].phase = "claimed", dpCall'[b].phase = "claimed",
                 dpCall'[a].key = dpCall'[b].key
          PROVE  a = b
        <3>1. CASE a # c /\ b # c
            BY <1>1, <2>1, <2>3, <3>1 DEF DpClaimsHold
        <3>2. CASE a = c
            BY <1>1, <2>3, <3>2 DEF DpBlocked
        <3>3. CASE b = c
            BY <1>1, <2>3, <3>3 DEF DpBlocked
        <3> QED BY <3>1, <3>2, <3>3
    <2> QED BY <1>2, <2>2, <2>3 DEF DpClaimsHold
<1>7. DpChosenBest'
    BY <1>2, DpChosenFrame DEF DpIInv
<1> QED BY <1>1, <1>3, <1>4, <1>5, <1>6, <1>7 DEF DpIInv

\* A call that ends.
LEMMA DpEnds ==
    ASSUME DpIInv, NEW c \in DpCalls, DpSent(c), NEW answer \in {"created", "replayed", "refused"}, NEW told \in Nat,
           DpEndCall(c, answer, told)
    PROVE  \E x \in DpCallStates :
               /\ dpCall' = [dpCall EXCEPT ![c] = x] /\ x.phase = "ended" /\ x.answer = answer /\ x.run = told
               /\ x.key = dpCall[c].key /\ x.input = dpCall[c].input /\ x.form = dpCall[c].form
<1>1. PICK y \in DpCallStates : y = dpCall[c]
    BY DpCallRow DEF DpIInv
<1>2. PICK x \in DpCallStates : x = [y EXCEPT !.phase = "ended", !.answer = answer, !.run = told]
    BY DEF DpCallStates
<1>3. /\ x.phase = "ended" /\ x.answer = answer /\ x.run = told
      /\ x.key = y.key /\ x.input = y.input /\ x.form = y.form
    BY <1>2 DEF DpCallStates
<1>4. dpCall \in [DpCalls -> DpCallStates \cup {DpUnsent}]
    BY DEF DpIInv, DpCallsTyped
<1>5. dpCall' = [dpCall EXCEPT ![c] = x]
    BY <1>1, <1>2, <1>4 DEF DpEndCall
<1> QED BY <1>1, <1>3, <1>5

(* Claiming the key, or meeting the row of an earlier claim. *)
LEMMA DpTryClaimStep ==
    ASSUME DpIInv, NEW c \in DpCalls, DpTryClaim(c)
    PROVE  DpIInv'
<1>1. dpCall[c].phase = "received" /\ ~DpBlocked(c) /\ UNCHANGED <<dpCatalog, dpRecommended, dpReceipt, dpRuns, dpClient>>
    BY DEF DpTryClaim
<1>2. DpSent(c)
    BY <1>1 DEF DpSent
<1>3. PICK y \in DpCallStates : y = dpCall[c]
    BY <1>2, DpCallRow DEF DpIInv
<1>4. dpCall \in [DpCalls -> DpCallStates \cup {DpUnsent}]
    BY DEF DpIInv, DpCallsTyped
<1>5. CASE DpClaimed(c)
    <2>1. PICK x \in DpCallStates : x = [y EXCEPT !.phase = "claimed"]
        BY DEF DpCallStates
    <2>2. x.phase = "claimed" /\ x.key = y.key /\ x.input = y.input /\ x.form = y.form /\ x.answer = y.answer /\ x.run = y.run
        BY <2>1 DEF DpCallStates
    <2>3. dpCall' = [dpCall EXCEPT ![c] = x]
        BY <1>3, <1>4, <1>5, <2>1 DEF DpTryClaim
    <2>4. dpReceipt[x.key] = DpNoReceipt
        BY <1>3, <1>5, <2>2 DEF DpClaimed
    <2>5. x.answer \in {"created", "replayed"} =>
               /\ x.run \in 1..Len(dpRuns)
               /\ dpRuns[x.run].input = x.input
               /\ dpReceipt[x.key].run = x.run
        BY <1>3, <2>2 DEF DpIInv, DpAnswersHold
    <2> QED BY <1>1, <1>2, <1>3, <2>2, <2>3, <2>4, <2>5, DpServed
<1>6. CASE ~DpClaimed(c)
    <2>1. y.key \in DpReceiptKeys /\ dpReceipt[y.key] # DpNoReceipt
        BY <1>3, <1>6 DEF DpClaimed, DpCallStates
    <2>2. PICK r \in DpReceipts : r = dpReceipt[y.key]
        BY <2>1 DEF DpIInv, DpReceiptsTyped
    <2>3. /\ r.run \in 1..Len(dpRuns)
          /\ dpRuns[r.run].input = r.input
        BY <2>1, <2>2 DEF DpIInv, DpReceiptsHold
    <2>4. r.run \in Nat
        BY DEF DpReceipts
    <2>5. CASE DpReplay(c) = "replayed"
        <3>1. DpEndCall(c, "replayed", r.run)
            BY <1>3, <1>6, <2>2, <2>5 DEF DpTryClaim
        <3>2. PICK x \in DpCallStates :
               /\ dpCall' = [dpCall EXCEPT ![c] = x] /\ x.phase = "ended" /\ x.answer = "replayed" /\ x.run = r.run
               /\ x.key = dpCall[c].key /\ x.input = dpCall[c].input /\ x.form = dpCall[c].form
            BY <1>2, <2>4, <3>1, DpEnds
        <3>3. r.input = y.input
            BY <1>3, <2>2, <2>5 DEF DpReplay
        <3> QED BY <1>1, <1>2, <1>3, <2>2, <2>3, <3>2, <3>3, DpServed
    <2>6. CASE DpReplay(c) = "refused"
        <3>1. DpEndCall(c, "refused", 0)
            BY <1>6, <2>6 DEF DpTryClaim
        <3>2. PICK x \in DpCallStates :
               /\ dpCall' = [dpCall EXCEPT ![c] = x] /\ x.phase = "ended" /\ x.answer = "refused" /\ x.run = 0
               /\ x.key = dpCall[c].key /\ x.input = dpCall[c].input /\ x.form = dpCall[c].form
            BY <1>2, <3>1, DpEnds
        <3> QED BY <1>1, <1>2, <3>2, DpServed
    <2> QED BY <2>5, <2>6 DEF DpReplay
<1> QED BY <1>5, <1>6

(* A refused call, or one that dies, writes nothing. *)
LEMMA DpRefused ==
    ASSUME DpIInv, NEW c \in DpCalls, DpRefuse(c) \/ DpDie(c)
    PROVE  DpIInv'
<1>1. /\ dpCall[c].phase = "claimed" /\ DpEndCall(c, "refused", 0)
      /\ UNCHANGED <<dpCatalog, dpRecommended, dpReceipt, dpRuns, dpClient>>
    BY DEF DpRefuse, DpDie
<1>2. DpSent(c)
    BY <1>1 DEF DpSent
<1>3. PICK x \in DpCallStates :
           /\ dpCall' = [dpCall EXCEPT ![c] = x] /\ x.phase = "ended" /\ x.answer = "refused" /\ x.run = 0
           /\ x.key = dpCall[c].key /\ x.input = dpCall[c].input /\ x.form = dpCall[c].form
    BY <1>1, <1>2, DpEnds
<1> QED BY <1>1, <1>2, <1>3, DpServed

\* A workflow that nobody chose is the first candidate of the recommendation.
LEMMA DpAutomaticChoice ==
    ASSUME DpIInv, NEW input \in DpInputs, input.rec <= Len(dpRecs), DpRegistered(DpSelect(input)),
           DpSource(input) = "policy_recommendation"
    PROVE  /\ input.rec \in 1..Len(dpRecs) /\ dpRecs[input.rec].prompt = input.prompt
           /\ DpLeads(dpRecs[input.rec], DpSelect(input), DpMargin(dpRecs[input.rec]))
<1> USE DpAssumption
<1>1. input.rec # 0 /\ input.workflow = DpNone
    BY DEF DpSource
<1>2. PICK recs \in Seq(DpRecRows) : recs = dpRecs /\ \A i \in 1..Len(recs) : DpRecSound(recs[i])
    BY DEF DpIInv, DpRecsSound
<1>3. input.rec \in 1..Len(recs)
    <2>1. input.rec \in 0..DpMaxRecs
        BY DEF DpInputs
    <2> QED BY <1>1, <1>2, <2>1
<1>4. dpPublished \in Nat
    BY DpNumbers DEF DpIInv, DpCatalogTyped
<1>5. DpSelect(input) # DpNone
    BY <1>4 DEF DpRegistered, DpNone
<1>6. DpRecommendationUsable(input)
    BY <1>1, <1>5 DEF DpSelect
<1>7. recs[input.rec].prompt = input.prompt /\ ~recs[input.rec].confirm
    BY <1>1, <1>2, <1>6 DEF DpRecommendationUsable
<1>8. DpSelect(input) = recs[input.rec].candidates[1]
    BY <1>1, <1>2, <1>6 DEF DpSelect
<1>9. DpLeads(recs[input.rec], recs[input.rec].candidates[1], DpMargin(recs[input.rec]))
    BY <1>2, <1>3, <1>7 DEF DpRecSound
<1> QED BY <1>2, <1>3, <1>7, <1>8, <1>9

\* The dispatch commits: its key had no run, and now has this one.
LEMMA DpCommitStep ==
    ASSUME DpIInv, NEW c \in DpCalls, DpCommit(c)
    PROVE  DpIInv'
<1> USE DpAssumption
<1>1. dpCall[c].phase = "claimed" /\ UNCHANGED <<dpCatalog, dpRecommended, dpClient>>
    BY DEF DpCommit
<1>2. DpSent(c)
    BY <1>1 DEF DpSent
<1>3. PICK y \in DpCallStates : y = dpCall[c]
    BY <1>2, DpCallRow DEF DpIInv
<1>4. PICK runs \in Seq(DpRunRows), n \in Nat : runs = dpRuns /\ n = Len(runs)
    BY DEF DpIInv, DpReceiptsTyped
<1>5. y.key \in DpReceiptKeys /\ y.input \in DpInputs /\ y.form \in Nat
    BY DEF DpCallStates
<1>6. PICK d \in DpDefinitions : d = DpSelect(y.input)
    <2>1. DpSelect(y.input) \in 1..dpPublished
        BY <1>3 DEF DpCommit, DpRegistered
    <2>2. dpPublished \in DpDefinitions
        BY DEF DpIInv, DpCatalogTyped
    <2>3. PICK m \in Nat : DpDefinitions = 1..m
        BY DpNumbers
    <2>4. DpSelect(y.input) \in DpDefinitions
        BY <2>1, <2>2, <2>3
    <2> QED BY <2>4
<1>7. PICK src \in {"policy_recommendation", "confirmed_recommendation", "request_override", "project_binding"} :
        src = DpSource(y.input)
    BY DEF DpSource
<1>8. PICK row \in DpRunRows : row = [key |-> y.key, input |-> y.input, definition |-> d, source |-> src, form |-> y.form]
    BY <1>5 DEF DpRunRows
<1>9. row.key = y.key /\ row.input = y.input /\ row.definition = d /\ row.source = src /\ row.form = y.form
    BY <1>8
<1>10. dpRuns' = Append(runs, row)
    BY <1>3, <1>4, <1>6, <1>7, <1>8 DEF DpCommit
<1>11. n + 1 \in Nat /\ n + 1 # 0
    OBVIOUS
<1>12. PICK rc \in DpReceipts : rc = [run |-> n + 1, input |-> y.input]
    BY <1>5, <1>11 DEF DpReceipts
<1>13. rc.run = n + 1 /\ rc.input = y.input /\ rc # DpNoReceipt
    <2>1. rc.run = n + 1 /\ rc.input = y.input
        BY <1>12
    <2>2. DpNoReceipt.run = 0
        BY DEF DpNoReceipt
    <2> QED BY <1>11, <2>1, <2>2
<1>14. dpReceipt \in [DpReceiptKeys -> DpReceipts \cup {DpNoReceipt}]
    BY DEF DpIInv, DpReceiptsTyped
<1>15. dpReceipt' = [dpReceipt EXCEPT ![y.key] = rc]
    BY <1>3, <1>4, <1>12 DEF DpCommit
<1>16. dpReceipt'[y.key] = rc /\ \A k \in DpReceiptKeys : k # y.key => dpReceipt'[k] = dpReceipt[k]
    BY <1>5, <1>14, <1>15
<1>17. DpEndCall(c, "created", n + 1)
    BY <1>4 DEF DpCommit
<1>18. PICK x \in DpCallStates :
           /\ dpCall' = [dpCall EXCEPT ![c] = x] /\ x.phase = "ended" /\ x.answer = "created" /\ x.run = n + 1
           /\ x.key = dpCall[c].key /\ x.input = dpCall[c].input /\ x.form = dpCall[c].form
    BY <1>2, <1>11, <1>17, DpEnds
<1>19. /\ DpCatalogTyped' /\ DpRecsSound' /\ DpFormTyped' /\ DpCallsTyped' /\ DpNumbered' /\ DpKeysKept'
       /\ dpCall'[c] = x /\ \A b \in DpCalls : b # c => dpCall'[b] = dpCall[b]
       /\ \A b \in DpCalls : DpSent(b)' <=> DpSent(b)
       /\ \A b \in DpCalls : dpCall'[b].key = dpCall[b].key /\ dpCall'[b].form = dpCall[b].form
                             /\ dpCall'[b].input = dpCall[b].input
    BY <1>1, <1>2, <1>18, DpMovesOn
<1>20. /\ dpRuns' \in Seq(DpRunRows) /\ Len(dpRuns') = n + 1 /\ dpRuns'[n + 1] = row
       /\ \A i \in 1..n : dpRuns'[i] = runs[i]
    BY <1>4, <1>10
<1>21. dpReceipt[y.key] = DpNoReceipt /\ dpReceipt[y.key].run = 0
    BY <1>1, <1>3 DEF DpIInv, DpClaimsHold, DpNoReceipt
<1>22. ASSUME NEW i \in 1..n PROVE /\ runs[i].key \in DpReceiptKeys /\ runs[i].key # y.key /\ dpReceipt[runs[i].key].run = i
    <2>1. dpReceipt[runs[i].key].run = i
        BY <1>4 DEF DpIInv, DpReceiptsHold
    <2>2. runs[i] \in DpRunRows
        BY <1>4
    <2>3. runs[i].key \in DpReceiptKeys
        BY <2>2 DEF DpRunRows
    <2>4. i # 0
        OBVIOUS
    <2>5. runs[i].key # y.key
        BY <1>21, <2>1, <2>4
    <2> QED BY <2>1, <2>3, <2>5
<1>23. \A i \in 1..(n + 1) : i \in 1..n \/ i = n + 1
    OBVIOUS
<1>24. DpReceiptsTyped'
    <2>1. dpReceipt' \in [DpReceiptKeys -> DpReceipts \cup {DpNoReceipt}]
        BY <1>14, <1>15
    <2> QED BY <1>20, <2>1 DEF DpReceiptsTyped
<1>25. DpReceiptsHold'
    <2>1. DpReceiptsHold
        BY DEF DpIInv
    <2>2. ASSUME NEW k \in DpReceiptKeys, dpReceipt'[k] # DpNoReceipt
          PROVE  /\ dpReceipt'[k].run \in 1..Len(dpRuns')
                 /\ dpRuns'[dpReceipt'[k].run].key = k
                 /\ dpRuns'[dpReceipt'[k].run].input = dpReceipt'[k].input
        <3>1. CASE k = y.key
            <4>1. n + 1 \in 1..(n + 1)
                OBVIOUS
            <4> QED BY <1>9, <1>13, <1>16, <1>20, <3>1, <4>1
        <3>2. CASE k # y.key
            <4>1. dpReceipt'[k] = dpReceipt[k]
                BY <1>16, <3>2
            <4>2. PICK j \in 1..n : j = dpReceipt[k].run /\ runs[j].key = k /\ runs[j].input = dpReceipt[k].input
                BY <1>4, <2>1, <2>2, <4>1 DEF DpReceiptsHold
            <4>3. j \in 1..(n + 1)
                OBVIOUS
            <4> QED BY <1>20, <4>1, <4>2, <4>3
        <3> QED BY <3>1, <3>2
    <2>3. ASSUME NEW i \in 1..Len(dpRuns')
          PROVE  /\ dpReceipt'[dpRuns'[i].key].run = i
                 /\ \E b \in DpCalls :
                       DpSent(b)' /\ dpCall'[b].key = dpRuns'[i].key /\ dpCall'[b].form = dpRuns'[i].form
        <3>1. CASE i \in 1..n
            <4>1. dpRuns'[i] = runs[i] /\ dpReceipt'[runs[i].key] = dpReceipt[runs[i].key]
                BY <1>16, <1>20, <1>22, <3>1
            <4>2. PICK b \in DpCalls : DpSent(b) /\ dpCall[b].key = runs[i].key /\ dpCall[b].form = runs[i].form
                BY <1>4, <2>1, <3>1 DEF DpReceiptsHold
            <4> QED BY <1>19, <1>22, <3>1, <4>1, <4>2
        <3>2. CASE i = n + 1
            BY <1>2, <1>3, <1>9, <1>13, <1>16, <1>19, <1>20, <3>2
        <3> QED BY <1>20, <1>23, <3>1, <3>2
    <2> QED BY <2>2, <2>3 DEF DpReceiptsHold
<1>26. DpAnswersHold'
    <2>1. DpAnswersHold
        BY DEF DpIInv
    <2>2. ASSUME NEW b \in DpCalls, dpCall'[b].answer \in {"created", "replayed"}
          PROVE  /\ dpCall'[b].run \in 1..Len(dpRuns')
                 /\ dpRuns'[dpCall'[b].run].input = dpCall'[b].input
                 /\ dpReceipt'[dpCall'[b].key].run = dpCall'[b].run
        <3>1. CASE b = c
            <4>1. n + 1 \in 1..(n + 1)
                OBVIOUS
            <4> QED BY <1>3, <1>9, <1>13, <1>16, <1>18, <1>19, <1>20, <3>1, <4>1
        <3>2. CASE b # c
            <4>1. PICK j \in 1..n : /\ j = dpCall[b].run /\ runs[j].input = dpCall[b].input
                                    /\ dpReceipt[dpCall[b].key].run = j
                BY <1>4, <1>19, <2>1, <2>2, <3>2 DEF DpAnswersHold
            <4>2. dpCall[b].key \in DpReceiptKeys /\ dpCall[b].key # y.key
                <5>1. dpCall[b] \in DpCallStates \cup {DpUnsent}
                    BY DEF DpIInv, DpCallsTyped
                <5>2. dpCall[b].key \in DpReceiptKeys
                    <6>1. 0 \in DpReceiptKeys
                        BY DEF DpReceiptKeys
                    <6>2. DpUnsent.key = 0
                        BY DEF DpUnsent
                    <6> QED BY <5>1, <6>1, <6>2 DEF DpCallStates
                <5>3. j # 0
                    OBVIOUS
                <5> QED BY <1>21, <4>1, <5>2, <5>3
            <4>3. j \in 1..(n + 1)
                OBVIOUS
            <4>4. dpCall'[b] = dpCall[b]
                BY <1>19, <3>2
            <4>5. dpReceipt'[dpCall[b].key] = dpReceipt[dpCall[b].key]
                BY <1>16, <4>2
            <4>6. Len(dpRuns') = n + 1 /\ dpRuns'[j] = runs[j]
                BY <1>20
            <4> QED BY <4>1, <4>3, <4>4, <4>5, <4>6
        <3> QED BY <3>1, <3>2
    <2> QED BY <2>2 DEF DpAnswersHold
<1>27. DpClaimsHold'
    <2>1. DpClaimsHold
        BY DEF DpIInv
    <2>2. ASSUME NEW b \in DpCalls, dpCall'[b].phase = "claimed"
          PROVE  b # c /\ dpCall[b].phase = "claimed" /\ dpCall'[b] = dpCall[b] /\ dpReceipt'[dpCall'[b].key] = DpNoReceipt
        <3>1. b # c /\ dpCall'[b] = dpCall[b]
            BY <1>18, <1>19, <2>2
        <3>2. dpCall[b].key # y.key
            BY <1>1, <1>3, <2>1, <2>2, <3>1 DEF DpClaimsHold
        <3>3. dpCall[b] \in DpCallStates
            BY <2>2, <3>1, DpCallRow DEF DpIInv, DpSent
        <3>4. dpCall[b].key \in DpReceiptKeys
            BY <3>3 DEF DpCallStates
        <3>5. dpReceipt[dpCall[b].key] = DpNoReceipt
            BY <2>1, <2>2, <3>1 DEF DpClaimsHold
        <3>6. dpReceipt'[dpCall[b].key] = dpReceipt[dpCall[b].key]
            BY <1>16, <3>2, <3>4
        <3> QED BY <2>2, <3>1, <3>5, <3>6
    <2>3. ASSUME NEW b \in DpCalls, NEW e \in DpCalls, dpCall'[b].phase = "claimed",
                 dpCall'[e].phase = "claimed", dpCall'[b].key = dpCall'[e].key
          PROVE  b = e
        <3>1. /\ dpCall[b].phase = "claimed" /\ dpCall[e].phase = "claimed"
              /\ dpCall[b].key = dpCall[e].key
            BY <2>2, <2>3
        <3> QED BY <2>1, <3>1 DEF DpClaimsHold
    <2> QED BY <2>2, <2>3 DEF DpClaimsHold
<1>28. DpChosenBest'
    <2>1. DpChosenBest /\ dpRecs' = dpRecs
        BY <1>1 DEF DpIInv, dpRecommended
    <2>2. ASSUME NEW i \in 1..Len(dpRuns'), dpRuns'[i].source = "policy_recommendation"
          PROVE  /\ dpRuns'[i].input.rec \in 1..Len(dpRecs)
                 /\ dpRecs[dpRuns'[i].input.rec].prompt = dpRuns'[i].input.prompt
                 /\ DpLeads(dpRecs[dpRuns'[i].input.rec], dpRuns'[i].definition,
                            DpMargin(dpRecs[dpRuns'[i].input.rec]))
        <3>1. CASE i \in 1..n
            BY <1>4, <1>20, <2>1, <2>2, <3>1 DEF DpChosenBest
        <3>2. CASE i = n + 1
            <4>1. dpRuns'[i] = row /\ src = "policy_recommendation"
                BY <1>9, <1>20, <2>2, <3>2
            <4>2. y.input.rec <= Len(dpRecs) /\ DpRegistered(DpSelect(y.input))
                BY <1>2, <1>3 DEF DpIInv, DpCallsTyped, DpCommit
            <4>3. /\ y.input.rec \in 1..Len(dpRecs) /\ dpRecs[y.input.rec].prompt = y.input.prompt
                  /\ DpLeads(dpRecs[y.input.rec], DpSelect(y.input), DpMargin(dpRecs[y.input.rec]))
                BY <1>5, <1>7, <4>1, <4>2, DpAutomaticChoice
            <4> QED BY <1>6, <1>9, <4>1, <4>3
        <3> QED BY <1>20, <1>23, <3>1, <3>2
    <2> QED BY <2>1, <2>2 DEF DpChosenBest
<1> QED BY <1>19, <1>24, <1>25, <1>26, <1>27, <1>28 DEF DpIInv

(* A stuttering step keeps the invariant. *)
LEMMA DpStutter == DpIInv /\ UNCHANGED dpVars => DpIInv'
<1> SUFFICES ASSUME DpIInv, UNCHANGED dpVars PROVE DpIInv'
    OBVIOUS
<1>1. UNCHANGED <<dpCatalog, dpRecommended, dpServer, dpClient>>
    BY DEF dpVars
<1>2. dpRecs' = dpRecs /\ dpCall' = dpCall /\ dpRuns' = dpRuns /\ dpForm' = dpForm /\ dpDrawn' = dpDrawn /\ dpEdits' = dpEdits
    BY <1>1 DEF dpRecommended, dpServer, dpClient
<1> QED BY <1>1, <1>2, DpCatalogFrame, DpRecsFrame, DpFormFrame, DpServerFrame, DpCallsFrame, DpKeysFrame, DpChosenFrame DEF DpIInv

(* Every step keeps the invariant. *)
LEMMA DpInductive == DpIInv /\ [DpNext]_dpVars => DpIInv'
<1> SUFFICES ASSUME DpIInv, [DpNext]_dpVars PROVE DpIInv'
    OBVIOUS
<1>1. ASSUME NEW c \in DpCalls, NEW f \in DpForms, NEW r \in 0..Len(dpRecs),
             DpMcpDispatch(c, [prompt |-> f.prompt, workflow |-> f.workflow, rec |-> r, addons |-> f.addons])
      PROVE  DpIInv'
    <2>1. f \in [prompt : DpPromptIds, workflow : DpDefinitions \cup {DpNone}, addons : SUBSET DpNodes]
        BY DpAssumption
    <2>2. r \in 0..DpMaxRecs /\ r <= Len(dpRecs)
        BY DpAssumption DEF DpIInv, DpRecsSound
    <2>3. PICK input \in DpInputs : input = [prompt |-> f.prompt, workflow |-> f.workflow, rec |-> r, addons |-> f.addons]
        BY <2>1, <2>2 DEF DpInputs
    <2>4. input.rec <= Len(dpRecs)
        BY <2>2, <2>3
    <2> QED BY <1>1, <2>3, <2>4, DpMcpStep
<1>2. CASE DpPublish \/ DpArchive \/ \E d \in DpDefinitions : DpConfigureBinding(d)
    BY <1>2, DpCatalogSteps
<1>3. CASE \E p \in DpPromptIds, most \in DpLimits : DpBeginRecommendation(p, most)
    BY <1>3, DpBeginStep
<1>4. CASE DpRecordRecommendation \/ DpLoseAnswer \/ DpAnswered
    BY <1>4, DpRecordStep, DpLoseStep, DpAnsweredStep
<1>5. CASE \E f \in DpForms : DpEdit(f.prompt, f.workflow, f.addons)
    BY <1>5, DpEditStep
<1>6. CASE \E r \in 1..DpMaxRecs : DpTakeRecommendation(r)
    BY <1>6, DpTakeStep
<1>7. CASE \E c \in DpCalls : DpSubmit(c)
    BY <1>7, DpSubmitStep
<1>8. CASE \E c \in DpCalls : DpServe(c) \/ DpDie(c)
    BY <1>8, DpTryClaimStep, DpCommitStep, DpRefused DEF DpServe
<1>9. CASE UNCHANGED dpVars
    BY <1>9, DpStutter
<1> QED BY <1>1, <1>2, <1>3, <1>4, <1>5, <1>6, <1>7, <1>8, <1>9 DEF DpNext

(* The invariant holds throughout. *)
LEMMA DpInvariance == DpSpec => []DpIInv
BY DpInitSound, DpInductive, PTL DEF DpSpec

\* Calls, receipts, runs and the form have their types.
THEOREM DispatchTypes == DpSpec => []DpTypeOK
<1>1. DpIInv => DpTypeOK
    <2> SUFFICES ASSUME DpIInv PROVE DpTypeOK
        OBVIOUS
    <2>1. dpForm \in DpFormStates
        BY DEF DpIInv, DpFormTyped
    <2>2. DpFormInput \in DpInputs /\ dpForm.waiting \in 0..DpMaxCalls
        BY <2>1 DEF DpFormInput, DpInputs, DpFormStates
    <2> QED BY <2>2 DEF DpIInv, DpCatalogTyped, DpReceiptsTyped, DpCallsTyped, DpTypeOK
<1> QED BY <1>1, DpInvariance, PTL

\* However often an unchanged form is submitted, and whatever answers are lost,
\* it starts one run, and a key starts one (prepareDispatchAttempt, try_claim,
\* dispatch).
THEOREM OneRunPerForm == DpSpec => []DpOneRunPerForm
<1>1. DpIInv => DpOneRunPerForm
    <2> SUFFICES ASSUME DpIInv, NEW i \in DOMAIN dpRuns, NEW j \in DOMAIN dpRuns, i # j
                 PROVE  /\ dpRuns[i].key # dpRuns[j].key
                        /\ (dpRuns[i].key # DpMcpKey /\ dpRuns[j].key # DpMcpKey) =>
                               dpRuns[i].form # dpRuns[j].form
        BY DEF DpOneRunPerForm
    <2>1. i \in 1..Len(dpRuns) /\ j \in 1..Len(dpRuns)
        BY DEF DpIInv, DpReceiptsTyped
    <2>2. dpReceipt[dpRuns[i].key].run = i /\ dpReceipt[dpRuns[j].key].run = j
        BY <2>1 DEF DpIInv, DpReceiptsHold
    <2>3. dpRuns[i].key # dpRuns[j].key
        BY <2>2
    <2>4. ASSUME dpRuns[i].key # DpMcpKey, dpRuns[j].key # DpMcpKey PROVE dpRuns[i].form # dpRuns[j].form
        <3>1. PICK b \in DpCalls : DpSent(b) /\ dpCall[b].key = dpRuns[i].key /\ dpCall[b].form = dpRuns[i].form
            BY <2>1 DEF DpIInv, DpReceiptsHold
        <3>2. PICK c \in DpCalls : DpSent(c) /\ dpCall[c].key = dpRuns[j].key /\ dpCall[c].form = dpRuns[j].form
            BY <2>1 DEF DpIInv, DpReceiptsHold
        <3> QED BY <2>3, <2>4, <3>1, <3>2 DEF DpIInv, DpKeysKept, DpComposed
    <2> QED BY <2>3, <2>4
<1> QED BY <1>1, DpInvariance, PTL

\* An answer that tells of a run is true, now and at any later time, and a
\* receipt is complete when it is seen (dispatch).
THEOREM AnswersTrue == DpSpec => []DpAnswersTrue
<1>1. DpIInv => DpAnswersTrue
    <2> SUFFICES ASSUME DpIInv PROVE DpAnswersTrue
        OBVIOUS
    <2>1. DOMAIN dpRuns = 1..Len(dpRuns)
        BY DEF DpIInv, DpReceiptsTyped
    <2> QED BY <2>1 DEF DpIInv, DpAnswersHold, DpReceiptsHold, DpAnswersTrue
<1> QED BY <1>1, DpInvariance, PTL

\* A workflow nobody chose had ten points, no other one on offer had more and,
\* unless one candidate was asked for, none came within four of it, for any
\* catalog, prompts and limits (recommend_workflows, dispatch).
THEOREM AutomaticIsBest == DpSpec => []DpAutomaticIsBest
<1>1. DpIInv => DpAutomaticIsBest
    <2> SUFFICES ASSUME DpIInv PROVE DpAutomaticIsBest
        OBVIOUS
    <2>1. DOMAIN dpRuns = 1..Len(dpRuns)
        BY DEF DpIInv, DpReceiptsTyped
    <2> QED BY <2>1 DEF DpIInv, DpChosenBest, DpAutomaticIsBest, DpChosenBy
<1> QED BY <1>1, DpInvariance, PTL

-----------------------------------------------------------------------------
(***************************************************************************)
(* The clients' calls: what the tables of the routes and of the clients'   *)
(* requests are to each other, whatever the accounts, and what an exchange *)
(* makes of it.                                                            *)
(***************************************************************************)

\* The segment at a place of a path; "end" after the last.
IfAt(path, n) == IF n \in 1..Len(path) THEN path[n] ELSE "end"

\* A route's segment takes this one of a request.
IfSegment(pattern, segment) == pattern \in {"{id}", "{key}", segment}

IfHits(route, method, path) == route.method = method /\ IfPathMatches(route, path)

IfParameters == {"{id}", "{key}"}
IfCatalogs == {"skills", "models", "phase-packs", "workflows"}
IfPlain == {"approve", "cancel", "retry"}
IfKeyed == {"dispatches", "workspace-operations", "scm-publications"}
IfSubresources == {"credentials", "notification-subscriptions", "notification-deliveries"}

\* What the routes have in common: where their paths take parameters and of
\* which type ...
IfRegularPath(path) ==
    /\ IfAt(path, 1) \notin IfParameters /\ IfAt(path, 3) \notin IfParameters
    /\ IfAt(path, 5) \notin IfParameters /\ IfAt(path, 6) \notin IfParameters
    /\ IfAt(path, 1) \in IfCatalogs => IfAt(path, 2) \in {"end", "{key}"}
    /\ IfAt(path, 4) = "{id}" => IfAt(path, 3) \in IfSubresources
    /\ IfAt(path, 4) = "{key}" => IfAt(path, 3) = "approvals"

\* ... and which of them insist on a body or a key.
IfRegularNeeds(route) ==
    /\ route.needs \subseteq {"body", "key"}
    /\ route.method \in {"GET", "DELETE"} => route.needs = {}
    /\ "key" \in route.needs => Last(route.path) \in IfKeyed
    /\ "body" \in route.needs =>
          route.method \in {"PUT", "PATCH"} \/ Last(route.path) \notin IfPlain
    /\ "body" \in route.needs /\ route.method = "POST" =>
          Last(route.path) \notin IfParameters \/ IfAt(route.path, 3) = "approvals"

IfRegularRoute(route) ==
    Len(route.path) \in 1..6 /\ IfRegularPath(route.path) /\ IfRegularNeeds(route)

\* A list of regular routes.
IfGroup(g) == g \in Seq(ToSet(g)) /\ \A r \in ToSet(g) : IfRegularRoute(r)

\* What the clients' requests have in common: an identifier where a regular
\* route may take one, and the inputs it may insist on.
IfOrderly(method, path, has) ==
    /\ IfAt(path, 2) = "ID" \/ Len(path) = 1 \/ IfAt(path, 1) \in IfCatalogs
    /\ IfAt(path, 4) = "ID" \/ Len(path) \in 1..3 \/ IfAt(path, 3) \notin IfSubresources
    /\ \/ method \in {"GET", "DELETE"} \/ "body" \in has
       \/ method = "POST" /\ Last(path) \in IfPlain /\ IfAt(path, 3) # "approvals"
    /\ method \in {"GET", "DELETE"} \/ Last(path) \notin IfKeyed \/ "key" \in has

\* A route takes requests with this method and path.
IfReached(method, path) == \E route \in ToSet(IfRoutes) : IfHits(route, method, path)

\* What a request needs is permitted to the documented account of its client;
\* the MCP tools address the members of one project only.
IfPermitted(client, method, path) ==
    \/ client = "jarvis" /\ IfRequiredPermission(method, path) \in IfJarvisPermissions
    \/ /\ client = "mcp" /\ IfRequiredPermission(method, path) \in IfMcpPermissions
       /\ IfAddressesResource(path)
    \/ client = "cli"

\* A call that is routed to its handler and permitted to its documented account.
IfServable(call) == IfRouting(call) = 0 /\ IfPermitted(call.client, call.method, call.path)

\* Places of a path of known length.
LEMMA IfPlaces ==
    ASSUME NEW p
    PROVE  /\ Len(p) = 1 => /\ IfAt(p, 1) = p[1] /\ IfAt(p, 2) = "end" /\ IfAt(p, 3) = "end"
                            /\ IfAt(p, 4) = "end" /\ IfAt(p, 5) = "end" /\ IfAt(p, 6) = "end"
           /\ Len(p) = 2 => /\ IfAt(p, 1) = p[1] /\ IfAt(p, 2) = p[2] /\ IfAt(p, 3) = "end"
                            /\ IfAt(p, 4) = "end" /\ IfAt(p, 5) = "end" /\ IfAt(p, 6) = "end"
           /\ Len(p) = 3 => /\ IfAt(p, 1) = p[1] /\ IfAt(p, 2) = p[2] /\ IfAt(p, 3) = p[3]
                            /\ IfAt(p, 4) = "end" /\ IfAt(p, 5) = "end" /\ IfAt(p, 6) = "end"
           /\ Len(p) = 4 => /\ IfAt(p, 1) = p[1] /\ IfAt(p, 2) = p[2] /\ IfAt(p, 3) = p[3]
                            /\ IfAt(p, 4) = p[4] /\ IfAt(p, 5) = "end" /\ IfAt(p, 6) = "end"
           /\ Len(p) = 5 => /\ IfAt(p, 1) = p[1] /\ IfAt(p, 2) = p[2] /\ IfAt(p, 3) = p[3]
                            /\ IfAt(p, 4) = p[4] /\ IfAt(p, 5) = p[5] /\ IfAt(p, 6) = "end"
           /\ Len(p) = 6 => /\ IfAt(p, 1) = p[1] /\ IfAt(p, 2) = p[2] /\ IfAt(p, 3) = p[3]
                            /\ IfAt(p, 4) = p[4] /\ IfAt(p, 5) = p[5] /\ IfAt(p, 6) = p[6]
BY DEF IfAt

\* Segments that a route takes.
LEMMA IfSegments == \A x : IfSegment(x, x) /\ IfSegment("{id}", x) /\ IfSegment("{key}", x)
BY DEF IfSegment

\* A request whose segments fit a route's, one by one, is one of the route's.
LEMMA IfFitsRoute ==
    ASSUME NEW method, NEW needs, NEW pattern, NEW path, Len(pattern) = Len(path),
           \A n \in 1..Len(path) : IfSegment(pattern[n], path[n])
    PROVE  IfHits(IfRoute(method, pattern, needs), method, path)
<1>1. /\ IfRoute(method, pattern, needs).path = pattern
      /\ IfRoute(method, pattern, needs).method = method
    BY DEF IfRoute
<1> QED BY Zenon, <1>1 DEF IfHits, IfPathMatches, IfSegment

\* ... for paths of one to six segments.
LEMMA IfHits1 ==
    ASSUME NEW m, NEW needs, NEW b1,
           NEW a1,
           IfSegment(b1, a1)
    PROVE  IfHits(IfRoute(m, <<b1>>, needs), m, <<a1>>)
<1>1. PICK b, a : b = <<b1>> /\ a = <<a1>>
    OBVIOUS
<1>2. Len(b) = 1 /\ Len(a) = 1
    BY <1>1
<1>3. b[1] = b1 /\ a[1] = a1
    BY <1>1
<1>4. \A n \in 1..Len(a) : n = 1
    BY <1>2
<1>5. \A n \in 1..Len(a) : IfSegment(b[n], a[n])
    BY <1>3, <1>4
<1> QED BY <1>1, <1>2, <1>5, IfFitsRoute

LEMMA IfHits2 ==
    ASSUME NEW m, NEW needs, NEW b1, NEW b2,
           NEW a1, NEW a2,
           IfSegment(b1, a1), IfSegment(b2, a2)
    PROVE  IfHits(IfRoute(m, <<b1, b2>>, needs), m, <<a1, a2>>)
<1>1. PICK b, a : b = <<b1, b2>> /\ a = <<a1, a2>>
    OBVIOUS
<1>2. Len(b) = 2 /\ Len(a) = 2
    BY <1>1
<1>3. b[1] = b1 /\ a[1] = a1 /\ b[2] = b2 /\ a[2] = a2
    BY <1>1
<1>4. \A n \in 1..Len(a) : n = 1 \/ n = 2
    BY <1>2
<1>5. \A n \in 1..Len(a) : IfSegment(b[n], a[n])
    BY <1>3, <1>4
<1> QED BY <1>1, <1>2, <1>5, IfFitsRoute

LEMMA IfHits3 ==
    ASSUME NEW m, NEW needs, NEW b1, NEW b2, NEW b3,
           NEW a1, NEW a2, NEW a3,
           IfSegment(b1, a1), IfSegment(b2, a2), IfSegment(b3, a3)
    PROVE  IfHits(IfRoute(m, <<b1, b2, b3>>, needs), m, <<a1, a2, a3>>)
<1>1. PICK b, a : b = <<b1, b2, b3>> /\ a = <<a1, a2, a3>>
    OBVIOUS
<1>2. Len(b) = 3 /\ Len(a) = 3
    BY <1>1
<1>3. b[1] = b1 /\ a[1] = a1 /\ b[2] = b2 /\ a[2] = a2 /\ b[3] = b3 /\ a[3] = a3
    BY <1>1
<1>4. \A n \in 1..Len(a) : n = 1 \/ n = 2 \/ n = 3
    BY <1>2
<1>5. \A n \in 1..Len(a) : IfSegment(b[n], a[n])
    BY <1>3, <1>4
<1> QED BY <1>1, <1>2, <1>5, IfFitsRoute

LEMMA IfHits4 ==
    ASSUME NEW m, NEW needs, NEW b1, NEW b2, NEW b3, NEW b4,
           NEW a1, NEW a2, NEW a3, NEW a4,
           IfSegment(b1, a1), IfSegment(b2, a2), IfSegment(b3, a3),
           IfSegment(b4, a4)
    PROVE  IfHits(IfRoute(m, <<b1, b2, b3, b4>>, needs), m, <<a1, a2, a3, a4>>)
<1>1. PICK b, a : b = <<b1, b2, b3, b4>> /\ a = <<a1, a2, a3, a4>>
    OBVIOUS
<1>2. Len(b) = 4 /\ Len(a) = 4
    BY <1>1
<1>3. /\ b[1] = b1 /\ a[1] = a1 /\ b[2] = b2 /\ a[2] = a2 /\ b[3] = b3 /\ a[3] = a3
      /\ b[4] = b4 /\ a[4] = a4
    BY <1>1
<1>4. \A n \in 1..Len(a) : n = 1 \/ n = 2 \/ n = 3 \/ n = 4
    BY <1>2
<1>5. \A n \in 1..Len(a) : IfSegment(b[n], a[n])
    BY <1>3, <1>4
<1> QED BY <1>1, <1>2, <1>5, IfFitsRoute

LEMMA IfHits5 ==
    ASSUME NEW m, NEW needs, NEW b1, NEW b2, NEW b3, NEW b4, NEW b5,
           NEW a1, NEW a2, NEW a3, NEW a4, NEW a5,
           IfSegment(b1, a1), IfSegment(b2, a2), IfSegment(b3, a3),
           IfSegment(b4, a4), IfSegment(b5, a5)
    PROVE  IfHits(IfRoute(m, <<b1, b2, b3, b4, b5>>, needs), m, <<a1, a2, a3, a4, a5>>)
<1>1. PICK b, a : b = <<b1, b2, b3, b4, b5>> /\ a = <<a1, a2, a3, a4, a5>>
    OBVIOUS
<1>2. Len(b) = 5 /\ Len(a) = 5
    BY <1>1
<1>3. /\ b[1] = b1 /\ a[1] = a1 /\ b[2] = b2 /\ a[2] = a2 /\ b[3] = b3 /\ a[3] = a3
      /\ b[4] = b4 /\ a[4] = a4 /\ b[5] = b5 /\ a[5] = a5
    BY <1>1
<1>4. \A n \in 1..Len(a) : n = 1 \/ n = 2 \/ n = 3 \/ n = 4 \/ n = 5
    BY <1>2
<1>5. \A n \in 1..Len(a) : IfSegment(b[n], a[n])
    BY <1>3, <1>4
<1> QED BY <1>1, <1>2, <1>5, IfFitsRoute

LEMMA IfHits6 ==
    ASSUME NEW m, NEW needs, NEW b1, NEW b2, NEW b3, NEW b4, NEW b5, NEW b6,
           NEW a1, NEW a2, NEW a3, NEW a4, NEW a5, NEW a6,
           IfSegment(b1, a1), IfSegment(b2, a2), IfSegment(b3, a3),
           IfSegment(b4, a4), IfSegment(b5, a5), IfSegment(b6, a6)
    PROVE  IfHits(IfRoute(m, <<b1, b2, b3, b4, b5, b6>>, needs), m, <<a1, a2, a3, a4, a5, a6>>)
<1>1. PICK b, a : b = <<b1, b2, b3, b4, b5, b6>> /\ a = <<a1, a2, a3, a4, a5, a6>>
    OBVIOUS
<1>2. Len(b) = 6 /\ Len(a) = 6
    BY <1>1
<1>3. /\ b[1] = b1 /\ a[1] = a1 /\ b[2] = b2 /\ a[2] = a2 /\ b[3] = b3 /\ a[3] = a3
      /\ b[4] = b4 /\ a[4] = a4 /\ b[5] = b5 /\ a[5] = a5 /\ b[6] = b6 /\ a[6] = a6
    BY <1>1
<1>4. \A n \in 1..Len(a) : n = 1 \/ n = 2 \/ n = 3 \/ n = 4 \/ n = 5 \/ n = 6
    BY <1>2
<1>5. \A n \in 1..Len(a) : IfSegment(b[n], a[n])
    BY <1>3, <1>4
<1> QED BY <1>1, <1>2, <1>5, IfFitsRoute

\* A least place exists among any.
LEMMA IfFirstPlace ==
    ASSUME NEW S, S \subseteq Nat, S # {}
    PROVE  Min(S) \in S /\ \A n \in S : Min(S) =< n
<1>1. PICK R : R = OpToRel(<, Nat)
    BY Zenon
<1>2. PICK m \in S : \A n \in S : <<n, m>> \notin R
    BY Zenon, <1>1, NatLessThanWellFounded, WFMin
<1>3. \A n \in Nat : n < m => <<n, m>> \in R
    BY <1>1 DEF OpToRel
<1>4. \A n \in S : m =< n
    <2> SUFFICES ASSUME NEW n \in S PROVE m =< n
        OBVIOUS
    <2>1. m \in Nat /\ n \in Nat /\ ~(n < m)
        BY <1>2, <1>3
    <2> QED BY <2>1
<1> QED BY <1>2, <1>4 DEF Min

\* The route that is found for a request, of all that match it the first.
LEMMA IfFoundRoute ==
    ASSUME NEW call, IfMatches(call) # {}
    PROVE  /\ Min(IfMatches(call)) \in 1..Len(IfRoutes)
           /\ IfHits(IfRoutes[Min(IfMatches(call))], call.method, call.path)
           /\ \A n \in IfMatches(call) : Min(IfMatches(call)) =< n
<1>1. IfMatches(call) \subseteq 1..Len(IfRoutes)
    BY DEF IfMatches
<1>2. IfMatches(call) \subseteq Nat
    BY <1>1
<1>3. /\ Min(IfMatches(call)) \in IfMatches(call)
      /\ \A n \in IfMatches(call) : Min(IfMatches(call)) =< n
    BY <1>2, IfFirstPlace
<1>4. PICK m : m = Min(IfMatches(call))
    OBVIOUS
<1>5. m \in 1..Len(IfRoutes) /\ IfHits(IfRoutes[m], call.method, call.path)
    BY <1>3, <1>4 DEF IfMatches, IfHits
<1> QED BY <1>3, <1>4, <1>5

\* The places of a path of up to six segments.
LEMMA IfSixPlaces ==
    ASSUME NEW k \in 1..6
    PROVE  /\ \A n \in 1..k : n = 1 \/ n = 2 \/ n = 3 \/ n = 4 \/ n = 5 \/ n = 6
           /\ 2 \in 1..k => 1 \in 1..k /\ k # 1
           /\ 4 \in 1..k => 3 \in 1..k /\ k \notin 1..3
           /\ k \in 1..k
BY SMT

\* A regular route that takes an orderly request asks for nothing it lacks.
LEMMA IfSoundRoute ==
    ASSUME NEW route, NEW method, NEW path, NEW has, IfHits(route, method, path),
           Len(route.path) \in 1..6, IfRegularPath(route.path), IfRegularNeeds(route),
           IfOrderly(method, path, has)
    PROVE  /\ \A n \in 1..Len(path) : route.path[n] = "{id}" => path[n] = "ID"
           /\ route.needs \subseteq has
<1>1. PICK a, b : a = path /\ b = route.path
    OBVIOUS
<1>2. Len(a) = Len(b) /\ \A n \in 1..Len(a) : b[n] = "{id}" \/ b[n] = "{key}" \/ b[n] = a[n]
    BY Zenon, <1>1 DEF IfHits, IfPathMatches
<1>3. IfRegularPath(b) /\ Len(a) \in 1..6
    BY Zenon, <1>1, <1>2
<1>4. \A n \in 1..Len(a) : IfAt(a, n) = a[n] /\ IfAt(b, n) = b[n]
    BY Zenon, <1>2 DEF IfAt
<1>5. \A n \in 1..Len(a) : b[n] \notin IfParameters => a[n] = b[n]
    BY Zenon, <1>2 DEF IfParameters
<1>6. ASSUME NEW n \in 1..Len(a), b[n] = "{id}" PROVE a[n] = "ID"
    <2>1. n = 1 \/ n = 2 \/ n = 3 \/ n = 4 \/ n = 5 \/ n = 6
        BY <1>3, IfSixPlaces
    <2>2. n = 2 \/ n = 4
        BY Zenon, <1>3, <1>4, <1>6, <2>1 DEF IfRegularPath, IfParameters
    <2>3. CASE n = 2
        <3>1. 1 \in 1..Len(a) /\ 2 \in 1..Len(a) /\ Len(a) # 1
            BY <1>3, <2>3, IfSixPlaces
        <3>2. IfAt(b, 2) = "{id}" /\ IfAt(b, 1) \notin IfParameters
            BY Zenon, <1>3, <1>4, <1>6, <2>3 DEF IfRegularPath
        <3>3. IfAt(b, 1) \notin IfCatalogs
            BY Zenon, <1>3, <3>2 DEF IfRegularPath
        <3>4. IfAt(a, 1) = IfAt(b, 1)
            BY Zenon, <1>4, <1>5, <3>1, <3>2
        <3> QED BY <1>1, <1>4, <2>3, <3>1, <3>3, <3>4 DEF IfOrderly
    <2>4. CASE n = 4
        <3>1. 3 \in 1..Len(a) /\ 4 \in 1..Len(a) /\ ~(Len(a) \in 1..3)
            BY <1>3, <2>4, IfSixPlaces
        <3>2. IfAt(b, 4) = "{id}" /\ IfAt(b, 3) \notin IfParameters
            BY Zenon, <1>3, <1>4, <1>6, <2>4 DEF IfRegularPath
        <3>3. IfAt(b, 3) \in IfSubresources
            BY Zenon, <1>3, <3>2 DEF IfRegularPath
        <3>4. IfAt(a, 3) = IfAt(b, 3)
            BY Zenon, <1>4, <1>5, <3>1, <3>2
        <3> QED BY <1>1, <1>4, <2>4, <3>1, <3>3, <3>4 DEF IfOrderly
    <2> QED BY <2>2, <2>3, <2>4
<1>7. Last(b) \notin IfParameters => Last(a) = Last(b)
    BY Zenon, <1>2, <1>3, <1>5, IfSixPlaces DEF Last
<1>8. route.needs \subseteq has
    <2>1. route.method = method
        BY DEF IfHits
    <2>2. CASE method \in {"GET", "DELETE"}
        BY <2>1, <2>2 DEF IfRegularNeeds
    <2>3. CASE method \notin {"GET", "DELETE"}
        <3>1. "key" \in route.needs => "key" \in has
            BY Zenon, <1>1, <1>7, <2>3 DEF IfRegularNeeds, IfOrderly, IfKeyed, IfParameters
        <3>2. "body" \in route.needs => "body" \in has
            <4> SUFFICES ASSUME "body" \in route.needs, "body" \notin has PROVE FALSE
                OBVIOUS
            <4>1. method = "POST" /\ Last(a) \in IfPlain /\ IfAt(a, 3) # "approvals"
                BY <1>1, <2>3 DEF IfOrderly
            <4>2. Last(b) \notin IfPlain
                BY <1>1, <2>1, <4>1 DEF IfRegularNeeds
            <4>3. Last(b) \in IfParameters /\ IfAt(b, 3) = "approvals"
                BY <1>1, <1>7, <2>1, <4>1, <4>2 DEF IfRegularNeeds
            <4>4. 3 \in 1..Len(a)
                BY Zenon, <1>2, <1>3, <4>3 DEF IfAt
            <4> QED BY Zenon, <1>4, <1>5, <4>1, <4>3, <4>4 DEF IfParameters
        <3> QED BY <3>1, <3>2 DEF IfRegularNeeds
    <2> QED BY <2>2, <2>3
<1> QED BY Zenon, <1>1, <1>6, <1>8

\* A list of routes is the list of its routes.
LEMMA IfGroupOf3 ==
    ASSUME NEW g, g = <<g[1], g[2], g[3]>>,
           IfRegularRoute(g[1]), IfRegularRoute(g[2]), IfRegularRoute(g[3])
    PROVE  IfGroup(g) /\ ToSet(g) = {g[1], g[2], g[3]}
<1>1. DOMAIN g = 1..3
    OBVIOUS
<1>2. ToSet(g) = {g[1], g[2], g[3]}
    BY <1>1 DEF ToSet
<1>3. ASSUME NEW S, g[1] \in S, g[2] \in S, g[3] \in S
      PROVE  <<g[1], g[2], g[3]>> \in Seq(S)
    BY <1>3
<1>4. <<g[1], g[2], g[3]>> \in Seq(ToSet(g))
    BY <1>2, <1>3
<1> QED BY <1>2, <1>4 DEF IfGroup

LEMMA IfGroupOf5 ==
    ASSUME NEW g, g = <<g[1], g[2], g[3], g[4], g[5]>>,
           IfRegularRoute(g[1]), IfRegularRoute(g[2]), IfRegularRoute(g[3]), IfRegularRoute(g[4]),
           IfRegularRoute(g[5])
    PROVE  IfGroup(g) /\ ToSet(g) = {g[1], g[2], g[3], g[4], g[5]}
<1>1. DOMAIN g = 1..5
    OBVIOUS
<1>2. ToSet(g) = {g[1], g[2], g[3], g[4], g[5]}
    BY <1>1 DEF ToSet
<1>3. ASSUME NEW S, g[1] \in S, g[2] \in S, g[3] \in S, g[4] \in S, g[5] \in S
      PROVE  <<g[1], g[2], g[3], g[4], g[5]>> \in Seq(S)
    BY <1>3
<1>4. <<g[1], g[2], g[3], g[4], g[5]>> \in Seq(ToSet(g))
    BY <1>2, <1>3
<1> QED BY <1>2, <1>4 DEF IfGroup

LEMMA IfGroupOf6 ==
    ASSUME NEW g, g = <<g[1], g[2], g[3], g[4], g[5], g[6]>>,
           IfRegularRoute(g[1]), IfRegularRoute(g[2]), IfRegularRoute(g[3]), IfRegularRoute(g[4]),
           IfRegularRoute(g[5]), IfRegularRoute(g[6])
    PROVE  IfGroup(g) /\ ToSet(g) = {g[1], g[2], g[3], g[4], g[5], g[6]}
<1>1. DOMAIN g = 1..6
    OBVIOUS
<1>2. ToSet(g) = {g[1], g[2], g[3], g[4], g[5], g[6]}
    BY <1>1 DEF ToSet
<1>3. ASSUME NEW S, g[1] \in S, g[2] \in S, g[3] \in S, g[4] \in S, g[5] \in S, g[6] \in S
      PROVE  <<g[1], g[2], g[3], g[4], g[5], g[6]>> \in Seq(S)
    BY <1>3
<1>4. <<g[1], g[2], g[3], g[4], g[5], g[6]>> \in Seq(ToSet(g))
    BY <1>2, <1>3
<1> QED BY <1>2, <1>4 DEF IfGroup

LEMMA IfGroupOf7 ==
    ASSUME NEW g, g = <<g[1], g[2], g[3], g[4], g[5], g[6], g[7]>>,
           IfRegularRoute(g[1]), IfRegularRoute(g[2]), IfRegularRoute(g[3]), IfRegularRoute(g[4]),
           IfRegularRoute(g[5]), IfRegularRoute(g[6]), IfRegularRoute(g[7])
    PROVE  IfGroup(g) /\ ToSet(g) = {g[1], g[2], g[3], g[4], g[5], g[6], g[7]}
<1>1. DOMAIN g = 1..7
    OBVIOUS
<1>2. ToSet(g) = {g[1], g[2], g[3], g[4], g[5], g[6], g[7]}
    BY <1>1 DEF ToSet
<1>3. ASSUME NEW S, g[1] \in S, g[2] \in S, g[3] \in S, g[4] \in S, g[5] \in S, g[6] \in S,
                    g[7] \in S
      PROVE  <<g[1], g[2], g[3], g[4], g[5], g[6], g[7]>> \in Seq(S)
    BY <1>3
<1>4. <<g[1], g[2], g[3], g[4], g[5], g[6], g[7]>> \in Seq(ToSet(g))
    BY <1>2, <1>3
<1> QED BY <1>2, <1>4 DEF IfGroup

LEMMA IfGroupOf9 ==
    ASSUME NEW g, g = <<g[1], g[2], g[3], g[4], g[5], g[6], g[7], g[8], g[9]>>,
           IfRegularRoute(g[1]), IfRegularRoute(g[2]), IfRegularRoute(g[3]), IfRegularRoute(g[4]),
           IfRegularRoute(g[5]), IfRegularRoute(g[6]), IfRegularRoute(g[7]), IfRegularRoute(g[8]),
           IfRegularRoute(g[9])
    PROVE  IfGroup(g) /\ ToSet(g) = {g[1], g[2], g[3], g[4], g[5], g[6], g[7], g[8], g[9]}
<1>1. DOMAIN g = 1..9
    OBVIOUS
<1>2. ToSet(g) = {g[1], g[2], g[3], g[4], g[5], g[6], g[7], g[8], g[9]}
    BY <1>1 DEF ToSet
<1>3. ASSUME NEW S, g[1] \in S, g[2] \in S, g[3] \in S, g[4] \in S, g[5] \in S, g[6] \in S,
                    g[7] \in S, g[8] \in S, g[9] \in S
      PROVE  <<g[1], g[2], g[3], g[4], g[5], g[6], g[7], g[8], g[9]>> \in Seq(S)
    BY <1>3
<1>4. <<g[1], g[2], g[3], g[4], g[5], g[6], g[7], g[8], g[9]>> \in Seq(ToSet(g))
    BY <1>2, <1>3
<1> QED BY <1>2, <1>4 DEF IfGroup

\* The routes of the table, list by list.
LEMMA IfServiceAccountGroup ==
    /\ IfGroup(IfServiceAccountRoutes)
    /\ ToSet(IfServiceAccountRoutes) =
          {IfServiceAccountRoutes[1], IfServiceAccountRoutes[2], IfServiceAccountRoutes[3],
           IfServiceAccountRoutes[4], IfServiceAccountRoutes[5], IfServiceAccountRoutes[6],
           IfServiceAccountRoutes[7]}
<1> DEFINE r(i) == IfServiceAccountRoutes[i]
<1>1. /\ Len(r(1).path) = 1 /\ Len(r(2).path) = 2 /\ Len(r(3).path) = 2 /\ Len(r(4).path) = 3
      /\ Len(r(5).path) = 3 /\ Len(r(6).path) = 3 /\ Len(r(7).path) = 4
    BY Zenon DEF IfServiceAccountRoutes, IfGet, IfPost, IfPostBody, IfPostKeyed, IfRoute
<1>2. /\ IfRegularPath(r(1).path) /\ IfRegularPath(r(2).path) /\ IfRegularPath(r(3).path)
      /\ IfRegularPath(r(4).path) /\ IfRegularPath(r(5).path) /\ IfRegularPath(r(6).path)
      /\ IfRegularPath(r(7).path)
    BY Zenon, <1>1, IfPlaces DEF IfServiceAccountRoutes, IfGet, IfPost, IfPostBody,
        IfPostKeyed, IfRoute, IfRegularPath, IfParameters, IfCatalogs, IfSubresources
<1>3. /\ IfRegularNeeds(r(1)) /\ IfRegularNeeds(r(2)) /\ IfRegularNeeds(r(3))
      /\ IfRegularNeeds(r(4)) /\ IfRegularNeeds(r(5)) /\ IfRegularNeeds(r(6))
      /\ IfRegularNeeds(r(7))
    BY Zenon, <1>1, IfPlaces DEF IfServiceAccountRoutes, IfGet, IfPost, IfPostBody,
        IfPostKeyed, IfRoute, IfRegularNeeds, IfParameters, IfKeyed, IfPlain, Last
<1>4. /\ Len(r(1).path) \in 1..6 /\ Len(r(2).path) \in 1..6 /\ Len(r(3).path) \in 1..6
      /\ Len(r(4).path) \in 1..6 /\ Len(r(5).path) \in 1..6 /\ Len(r(6).path) \in 1..6
      /\ Len(r(7).path) \in 1..6
    BY <1>1
<1>5. /\ IfRegularRoute(r(1)) /\ IfRegularRoute(r(2)) /\ IfRegularRoute(r(3))
      /\ IfRegularRoute(r(4)) /\ IfRegularRoute(r(5)) /\ IfRegularRoute(r(6))
      /\ IfRegularRoute(r(7))
    BY <1>2, <1>3, <1>4 DEF IfRegularRoute
<1>6. IfServiceAccountRoutes = <<r(1), r(2), r(3), r(4), r(5), r(6), r(7)>>
    BY DEF IfServiceAccountRoutes
<1> QED BY <1>5, <1>6, IfGroupOf7

LEMMA IfWorkerGroup ==
    /\ IfGroup(IfWorkerRoutes)
    /\ ToSet(IfWorkerRoutes) =
          {IfWorkerRoutes[1], IfWorkerRoutes[2], IfWorkerRoutes[3]}
<1> DEFINE r(i) == IfWorkerRoutes[i]
<1>1. /\ Len(r(1).path) = 1 /\ Len(r(2).path) = 3 /\ Len(r(3).path) = 4
    BY Zenon DEF IfWorkerRoutes, IfGet, IfPost, IfPostBody, IfPostKeyed, IfRoute
<1>2. /\ IfRegularPath(r(1).path) /\ IfRegularPath(r(2).path) /\ IfRegularPath(r(3).path)
    BY Zenon, <1>1, IfPlaces DEF IfWorkerRoutes, IfGet, IfPost, IfPostBody,
        IfPostKeyed, IfRoute, IfRegularPath, IfParameters, IfCatalogs, IfSubresources
<1>3. /\ IfRegularNeeds(r(1)) /\ IfRegularNeeds(r(2)) /\ IfRegularNeeds(r(3))
    BY Zenon, <1>1, IfPlaces DEF IfWorkerRoutes, IfGet, IfPost, IfPostBody,
        IfPostKeyed, IfRoute, IfRegularNeeds, IfParameters, IfKeyed, IfPlain, Last
<1>4. /\ Len(r(1).path) \in 1..6 /\ Len(r(2).path) \in 1..6 /\ Len(r(3).path) \in 1..6
    BY <1>1
<1>5. /\ IfRegularRoute(r(1)) /\ IfRegularRoute(r(2)) /\ IfRegularRoute(r(3))
    BY <1>2, <1>3, <1>4 DEF IfRegularRoute
<1>6. IfWorkerRoutes = <<r(1), r(2), r(3)>>
    BY DEF IfWorkerRoutes
<1> QED BY <1>5, <1>6, IfGroupOf3

LEMMA IfNotificationGroup ==
    /\ IfGroup(IfNotificationRoutes)
    /\ ToSet(IfNotificationRoutes) =
          {IfNotificationRoutes[1], IfNotificationRoutes[2], IfNotificationRoutes[3],
           IfNotificationRoutes[4], IfNotificationRoutes[5], IfNotificationRoutes[6],
           IfNotificationRoutes[7]}
<1> DEFINE r(i) == IfNotificationRoutes[i]
<1>1. /\ Len(r(1).path) = 3 /\ Len(r(2).path) = 3 /\ Len(r(3).path) = 4 /\ Len(r(4).path) = 3
      /\ Len(r(5).path) = 5 /\ Len(r(6).path) = 5 /\ Len(r(7).path) = 6
    BY Zenon DEF IfNotificationRoutes, IfGet, IfPost, IfPostBody, IfPostKeyed, IfRoute
<1>2. /\ IfRegularPath(r(1).path) /\ IfRegularPath(r(2).path) /\ IfRegularPath(r(3).path)
      /\ IfRegularPath(r(4).path) /\ IfRegularPath(r(5).path) /\ IfRegularPath(r(6).path)
      /\ IfRegularPath(r(7).path)
    BY Zenon, <1>1, IfPlaces DEF IfNotificationRoutes, IfGet, IfPost, IfPostBody,
        IfPostKeyed, IfRoute, IfRegularPath, IfParameters, IfCatalogs, IfSubresources
<1>3. /\ IfRegularNeeds(r(1)) /\ IfRegularNeeds(r(2)) /\ IfRegularNeeds(r(3))
      /\ IfRegularNeeds(r(4)) /\ IfRegularNeeds(r(5)) /\ IfRegularNeeds(r(6))
      /\ IfRegularNeeds(r(7))
    BY Zenon, <1>1, IfPlaces DEF IfNotificationRoutes, IfGet, IfPost, IfPostBody,
        IfPostKeyed, IfRoute, IfRegularNeeds, IfParameters, IfKeyed, IfPlain, Last
<1>4. /\ Len(r(1).path) \in 1..6 /\ Len(r(2).path) \in 1..6 /\ Len(r(3).path) \in 1..6
      /\ Len(r(4).path) \in 1..6 /\ Len(r(5).path) \in 1..6 /\ Len(r(6).path) \in 1..6
      /\ Len(r(7).path) \in 1..6
    BY <1>1
<1>5. /\ IfRegularRoute(r(1)) /\ IfRegularRoute(r(2)) /\ IfRegularRoute(r(3))
      /\ IfRegularRoute(r(4)) /\ IfRegularRoute(r(5)) /\ IfRegularRoute(r(6))
      /\ IfRegularRoute(r(7))
    BY <1>2, <1>3, <1>4 DEF IfRegularRoute
<1>6. IfNotificationRoutes = <<r(1), r(2), r(3), r(4), r(5), r(6), r(7)>>
    BY DEF IfNotificationRoutes
<1> QED BY <1>5, <1>6, IfGroupOf7

LEMMA IfProjectGroup ==
    /\ IfGroup(IfProjectRoutes)
    /\ ToSet(IfProjectRoutes) =
          {IfProjectRoutes[1], IfProjectRoutes[2], IfProjectRoutes[3], IfProjectRoutes[4],
           IfProjectRoutes[5], IfProjectRoutes[6]}
<1> DEFINE r(i) == IfProjectRoutes[i]
<1>1. /\ Len(r(1).path) = 1 /\ Len(r(2).path) = 1 /\ Len(r(3).path) = 2 /\ Len(r(4).path) = 3
      /\ Len(r(5).path) = 3 /\ Len(r(6).path) = 4
    BY Zenon DEF IfProjectRoutes, IfGet, IfPost, IfPostBody, IfPostKeyed, IfRoute
<1>2. /\ IfRegularPath(r(1).path) /\ IfRegularPath(r(2).path) /\ IfRegularPath(r(3).path)
      /\ IfRegularPath(r(4).path) /\ IfRegularPath(r(5).path) /\ IfRegularPath(r(6).path)
    BY Zenon, <1>1, IfPlaces DEF IfProjectRoutes, IfGet, IfPost, IfPostBody,
        IfPostKeyed, IfRoute, IfRegularPath, IfParameters, IfCatalogs, IfSubresources
<1>3. /\ IfRegularNeeds(r(1)) /\ IfRegularNeeds(r(2)) /\ IfRegularNeeds(r(3))
      /\ IfRegularNeeds(r(4)) /\ IfRegularNeeds(r(5)) /\ IfRegularNeeds(r(6))
    BY Zenon, <1>1, IfPlaces DEF IfProjectRoutes, IfGet, IfPost, IfPostBody,
        IfPostKeyed, IfRoute, IfRegularNeeds, IfParameters, IfKeyed, IfPlain, Last
<1>4. /\ Len(r(1).path) \in 1..6 /\ Len(r(2).path) \in 1..6 /\ Len(r(3).path) \in 1..6
      /\ Len(r(4).path) \in 1..6 /\ Len(r(5).path) \in 1..6 /\ Len(r(6).path) \in 1..6
    BY <1>1
<1>5. /\ IfRegularRoute(r(1)) /\ IfRegularRoute(r(2)) /\ IfRegularRoute(r(3))
      /\ IfRegularRoute(r(4)) /\ IfRegularRoute(r(5)) /\ IfRegularRoute(r(6))
    BY <1>2, <1>3, <1>4 DEF IfRegularRoute
<1>6. IfProjectRoutes = <<r(1), r(2), r(3), r(4), r(5), r(6)>>
    BY DEF IfProjectRoutes
<1> QED BY <1>5, <1>6, IfGroupOf6

LEMMA IfDispatchGroup ==
    /\ IfGroup(IfDispatchRoutes)
    /\ ToSet(IfDispatchRoutes) =
          {IfDispatchRoutes[1], IfDispatchRoutes[2], IfDispatchRoutes[3], IfDispatchRoutes[4],
           IfDispatchRoutes[5]}
<1> DEFINE r(i) == IfDispatchRoutes[i]
<1>1. /\ Len(r(1).path) = 3 /\ Len(r(2).path) = 3 /\ Len(r(3).path) = 3 /\ Len(r(4).path) = 3
      /\ Len(r(5).path) = 3
    BY Zenon DEF IfDispatchRoutes, IfGet, IfPost, IfPostBody, IfPostKeyed, IfRoute
<1>2. /\ IfRegularPath(r(1).path) /\ IfRegularPath(r(2).path) /\ IfRegularPath(r(3).path)
      /\ IfRegularPath(r(4).path) /\ IfRegularPath(r(5).path)
    BY Zenon, <1>1, IfPlaces DEF IfDispatchRoutes, IfGet, IfPost, IfPostBody,
        IfPostKeyed, IfRoute, IfRegularPath, IfParameters, IfCatalogs, IfSubresources
<1>3. /\ IfRegularNeeds(r(1)) /\ IfRegularNeeds(r(2)) /\ IfRegularNeeds(r(3))
      /\ IfRegularNeeds(r(4)) /\ IfRegularNeeds(r(5))
    BY Zenon, <1>1, IfPlaces DEF IfDispatchRoutes, IfGet, IfPost, IfPostBody,
        IfPostKeyed, IfRoute, IfRegularNeeds, IfParameters, IfKeyed, IfPlain, Last
<1>4. /\ Len(r(1).path) \in 1..6 /\ Len(r(2).path) \in 1..6 /\ Len(r(3).path) \in 1..6
      /\ Len(r(4).path) \in 1..6 /\ Len(r(5).path) \in 1..6
    BY <1>1
<1>5. /\ IfRegularRoute(r(1)) /\ IfRegularRoute(r(2)) /\ IfRegularRoute(r(3))
      /\ IfRegularRoute(r(4)) /\ IfRegularRoute(r(5))
    BY <1>2, <1>3, <1>4 DEF IfRegularRoute
<1>6. IfDispatchRoutes = <<r(1), r(2), r(3), r(4), r(5)>>
    BY DEF IfDispatchRoutes
<1> QED BY <1>5, <1>6, IfGroupOf5

LEMMA IfRunGroup ==
    /\ IfGroup(IfRunRoutes)
    /\ ToSet(IfRunRoutes) =
          {IfRunRoutes[1], IfRunRoutes[2], IfRunRoutes[3], IfRunRoutes[4], IfRunRoutes[5],
           IfRunRoutes[6]}
<1> DEFINE r(i) == IfRunRoutes[i]
<1>1. /\ Len(r(1).path) = 3 /\ Len(r(2).path) = 2 /\ Len(r(3).path) = 3 /\ Len(r(4).path) = 2
      /\ Len(r(5).path) = 3 /\ Len(r(6).path) = 3
    BY Zenon DEF IfRunRoutes, IfGet, IfPost, IfPostBody, IfPostKeyed, IfRoute
<1>2. /\ IfRegularPath(r(1).path) /\ IfRegularPath(r(2).path) /\ IfRegularPath(r(3).path)
      /\ IfRegularPath(r(4).path) /\ IfRegularPath(r(5).path) /\ IfRegularPath(r(6).path)
    BY Zenon, <1>1, IfPlaces DEF IfRunRoutes, IfGet, IfPost, IfPostBody,
        IfPostKeyed, IfRoute, IfRegularPath, IfParameters, IfCatalogs, IfSubresources
<1>3. /\ IfRegularNeeds(r(1)) /\ IfRegularNeeds(r(2)) /\ IfRegularNeeds(r(3))
      /\ IfRegularNeeds(r(4)) /\ IfRegularNeeds(r(5)) /\ IfRegularNeeds(r(6))
    BY Zenon, <1>1, IfPlaces DEF IfRunRoutes, IfGet, IfPost, IfPostBody,
        IfPostKeyed, IfRoute, IfRegularNeeds, IfParameters, IfKeyed, IfPlain, Last
<1>4. /\ Len(r(1).path) \in 1..6 /\ Len(r(2).path) \in 1..6 /\ Len(r(3).path) \in 1..6
      /\ Len(r(4).path) \in 1..6 /\ Len(r(5).path) \in 1..6 /\ Len(r(6).path) \in 1..6
    BY <1>1
<1>5. /\ IfRegularRoute(r(1)) /\ IfRegularRoute(r(2)) /\ IfRegularRoute(r(3))
      /\ IfRegularRoute(r(4)) /\ IfRegularRoute(r(5)) /\ IfRegularRoute(r(6))
    BY <1>2, <1>3, <1>4 DEF IfRegularRoute
<1>6. IfRunRoutes = <<r(1), r(2), r(3), r(4), r(5), r(6)>>
    BY DEF IfRunRoutes
<1> QED BY <1>5, <1>6, IfGroupOf6

LEMMA IfWorkflowGroup ==
    /\ IfGroup(IfWorkflowRoutes)
    /\ ToSet(IfWorkflowRoutes) =
          {IfWorkflowRoutes[1], IfWorkflowRoutes[2], IfWorkflowRoutes[3], IfWorkflowRoutes[4],
           IfWorkflowRoutes[5], IfWorkflowRoutes[6], IfWorkflowRoutes[7], IfWorkflowRoutes[8],
           IfWorkflowRoutes[9]}
<1> DEFINE r(i) == IfWorkflowRoutes[i]
<1>1. /\ Len(r(1).path) = 1 /\ Len(r(2).path) = 1 /\ Len(r(3).path) = 2 /\ Len(r(4).path) = 3
      /\ Len(r(5).path) = 3 /\ Len(r(6).path) = 2 /\ Len(r(7).path) = 3 /\ Len(r(8).path) = 4
      /\ Len(r(9).path) = 3
    BY Zenon DEF IfWorkflowRoutes, IfGet, IfPost, IfPostBody, IfPostKeyed, IfRoute
<1>2. /\ IfRegularPath(r(1).path) /\ IfRegularPath(r(2).path) /\ IfRegularPath(r(3).path)
      /\ IfRegularPath(r(4).path) /\ IfRegularPath(r(5).path) /\ IfRegularPath(r(6).path)
      /\ IfRegularPath(r(7).path) /\ IfRegularPath(r(8).path) /\ IfRegularPath(r(9).path)
    BY Zenon, <1>1, IfPlaces DEF IfWorkflowRoutes, IfGet, IfPost, IfPostBody,
        IfPostKeyed, IfRoute, IfRegularPath, IfParameters, IfCatalogs, IfSubresources
<1>3. /\ IfRegularNeeds(r(1)) /\ IfRegularNeeds(r(2)) /\ IfRegularNeeds(r(3))
      /\ IfRegularNeeds(r(4)) /\ IfRegularNeeds(r(5)) /\ IfRegularNeeds(r(6))
      /\ IfRegularNeeds(r(7)) /\ IfRegularNeeds(r(8)) /\ IfRegularNeeds(r(9))
    BY Zenon, <1>1, IfPlaces DEF IfWorkflowRoutes, IfGet, IfPost, IfPostBody,
        IfPostKeyed, IfRoute, IfRegularNeeds, IfParameters, IfKeyed, IfPlain, Last
<1>4. /\ Len(r(1).path) \in 1..6 /\ Len(r(2).path) \in 1..6 /\ Len(r(3).path) \in 1..6
      /\ Len(r(4).path) \in 1..6 /\ Len(r(5).path) \in 1..6 /\ Len(r(6).path) \in 1..6
      /\ Len(r(7).path) \in 1..6 /\ Len(r(8).path) \in 1..6 /\ Len(r(9).path) \in 1..6
    BY <1>1
<1>5. /\ IfRegularRoute(r(1)) /\ IfRegularRoute(r(2)) /\ IfRegularRoute(r(3))
      /\ IfRegularRoute(r(4)) /\ IfRegularRoute(r(5)) /\ IfRegularRoute(r(6))
      /\ IfRegularRoute(r(7)) /\ IfRegularRoute(r(8)) /\ IfRegularRoute(r(9))
    BY <1>2, <1>3, <1>4 DEF IfRegularRoute
<1>6. IfWorkflowRoutes = <<r(1), r(2), r(3), r(4), r(5), r(6), r(7), r(8), r(9)>>
    BY DEF IfWorkflowRoutes
<1> QED BY <1>5, <1>6, IfGroupOf9

LEMMA IfCatalogGroup ==
    /\ IfGroup(IfCatalogRoutes)
    /\ ToSet(IfCatalogRoutes) =
          {IfCatalogRoutes[1], IfCatalogRoutes[2], IfCatalogRoutes[3], IfCatalogRoutes[4],
           IfCatalogRoutes[5], IfCatalogRoutes[6], IfCatalogRoutes[7], IfCatalogRoutes[8],
           IfCatalogRoutes[9]}
<1> DEFINE r(i) == IfCatalogRoutes[i]
<1>1. /\ Len(r(1).path) = 1 /\ Len(r(2).path) = 1 /\ Len(r(3).path) = 2 /\ Len(r(4).path) = 1
      /\ Len(r(5).path) = 1 /\ Len(r(6).path) = 2 /\ Len(r(7).path) = 1 /\ Len(r(8).path) = 1
      /\ Len(r(9).path) = 2
    BY Zenon DEF IfCatalogRoutes, IfGet, IfPost, IfPostBody, IfPostKeyed, IfRoute
<1>2. /\ IfRegularPath(r(1).path) /\ IfRegularPath(r(2).path) /\ IfRegularPath(r(3).path)
      /\ IfRegularPath(r(4).path) /\ IfRegularPath(r(5).path) /\ IfRegularPath(r(6).path)
      /\ IfRegularPath(r(7).path) /\ IfRegularPath(r(8).path) /\ IfRegularPath(r(9).path)
    BY Zenon, <1>1, IfPlaces DEF IfCatalogRoutes, IfGet, IfPost, IfPostBody,
        IfPostKeyed, IfRoute, IfRegularPath, IfParameters, IfCatalogs, IfSubresources
<1>3. /\ IfRegularNeeds(r(1)) /\ IfRegularNeeds(r(2)) /\ IfRegularNeeds(r(3))
      /\ IfRegularNeeds(r(4)) /\ IfRegularNeeds(r(5)) /\ IfRegularNeeds(r(6))
      /\ IfRegularNeeds(r(7)) /\ IfRegularNeeds(r(8)) /\ IfRegularNeeds(r(9))
    BY Zenon, <1>1, IfPlaces DEF IfCatalogRoutes, IfGet, IfPost, IfPostBody,
        IfPostKeyed, IfRoute, IfRegularNeeds, IfParameters, IfKeyed, IfPlain, Last
<1>4. /\ Len(r(1).path) \in 1..6 /\ Len(r(2).path) \in 1..6 /\ Len(r(3).path) \in 1..6
      /\ Len(r(4).path) \in 1..6 /\ Len(r(5).path) \in 1..6 /\ Len(r(6).path) \in 1..6
      /\ Len(r(7).path) \in 1..6 /\ Len(r(8).path) \in 1..6 /\ Len(r(9).path) \in 1..6
    BY <1>1
<1>5. /\ IfRegularRoute(r(1)) /\ IfRegularRoute(r(2)) /\ IfRegularRoute(r(3))
      /\ IfRegularRoute(r(4)) /\ IfRegularRoute(r(5)) /\ IfRegularRoute(r(6))
      /\ IfRegularRoute(r(7)) /\ IfRegularRoute(r(8)) /\ IfRegularRoute(r(9))
    BY <1>2, <1>3, <1>4 DEF IfRegularRoute
<1>6. IfCatalogRoutes = <<r(1), r(2), r(3), r(4), r(5), r(6), r(7), r(8), r(9)>>
    BY DEF IfCatalogRoutes
<1> QED BY <1>5, <1>6, IfGroupOf9

LEMMA IfBudgetGroup ==
    /\ IfGroup(IfBudgetRoutes)
    /\ ToSet(IfBudgetRoutes) =
          {IfBudgetRoutes[1], IfBudgetRoutes[2], IfBudgetRoutes[3]}
<1> DEFINE r(i) == IfBudgetRoutes[i]
<1>1. /\ Len(r(1).path) = 3 /\ Len(r(2).path) = 3 /\ Len(r(3).path) = 3
    BY Zenon DEF IfBudgetRoutes, IfGet, IfPost, IfPostBody, IfPostKeyed, IfRoute
<1>2. /\ IfRegularPath(r(1).path) /\ IfRegularPath(r(2).path) /\ IfRegularPath(r(3).path)
    BY Zenon, <1>1, IfPlaces DEF IfBudgetRoutes, IfGet, IfPost, IfPostBody,
        IfPostKeyed, IfRoute, IfRegularPath, IfParameters, IfCatalogs, IfSubresources
<1>3. /\ IfRegularNeeds(r(1)) /\ IfRegularNeeds(r(2)) /\ IfRegularNeeds(r(3))
    BY Zenon, <1>1, IfPlaces DEF IfBudgetRoutes, IfGet, IfPost, IfPostBody,
        IfPostKeyed, IfRoute, IfRegularNeeds, IfParameters, IfKeyed, IfPlain, Last
<1>4. /\ Len(r(1).path) \in 1..6 /\ Len(r(2).path) \in 1..6 /\ Len(r(3).path) \in 1..6
    BY <1>1
<1>5. /\ IfRegularRoute(r(1)) /\ IfRegularRoute(r(2)) /\ IfRegularRoute(r(3))
    BY <1>2, <1>3, <1>4 DEF IfRegularRoute
<1>6. IfBudgetRoutes = <<r(1), r(2), r(3)>>
    BY DEF IfBudgetRoutes
<1> QED BY <1>5, <1>6, IfGroupOf3

LEMMA IfExternalGroup ==
    /\ IfGroup(IfExternalRoutes)
    /\ ToSet(IfExternalRoutes) =
          {IfExternalRoutes[1], IfExternalRoutes[2], IfExternalRoutes[3], IfExternalRoutes[4],
           IfExternalRoutes[5]}
<1> DEFINE r(i) == IfExternalRoutes[i]
<1>1. /\ Len(r(1).path) = 1 /\ Len(r(2).path) = 3 /\ Len(r(3).path) = 2 /\ Len(r(4).path) = 3
      /\ Len(r(5).path) = 3
    BY Zenon DEF IfExternalRoutes, IfGet, IfPost, IfPostBody, IfPostKeyed, IfRoute
<1>2. /\ IfRegularPath(r(1).path) /\ IfRegularPath(r(2).path) /\ IfRegularPath(r(3).path)
      /\ IfRegularPath(r(4).path) /\ IfRegularPath(r(5).path)
    BY Zenon, <1>1, IfPlaces DEF IfExternalRoutes, IfGet, IfPost, IfPostBody,
        IfPostKeyed, IfRoute, IfRegularPath, IfParameters, IfCatalogs, IfSubresources
<1>3. /\ IfRegularNeeds(r(1)) /\ IfRegularNeeds(r(2)) /\ IfRegularNeeds(r(3))
      /\ IfRegularNeeds(r(4)) /\ IfRegularNeeds(r(5))
    BY Zenon, <1>1, IfPlaces DEF IfExternalRoutes, IfGet, IfPost, IfPostBody,
        IfPostKeyed, IfRoute, IfRegularNeeds, IfParameters, IfKeyed, IfPlain, Last
<1>4. /\ Len(r(1).path) \in 1..6 /\ Len(r(2).path) \in 1..6 /\ Len(r(3).path) \in 1..6
      /\ Len(r(4).path) \in 1..6 /\ Len(r(5).path) \in 1..6
    BY <1>1
<1>5. /\ IfRegularRoute(r(1)) /\ IfRegularRoute(r(2)) /\ IfRegularRoute(r(3))
      /\ IfRegularRoute(r(4)) /\ IfRegularRoute(r(5))
    BY <1>2, <1>3, <1>4 DEF IfRegularRoute
<1>6. IfExternalRoutes = <<r(1), r(2), r(3), r(4), r(5)>>
    BY DEF IfExternalRoutes
<1> QED BY <1>5, <1>6, IfGroupOf5

LEMMA IfScmGroup ==
    /\ IfGroup(IfScmRoutes)
    /\ ToSet(IfScmRoutes) =
          {IfScmRoutes[1], IfScmRoutes[2], IfScmRoutes[3], IfScmRoutes[4], IfScmRoutes[5]}
<1> DEFINE r(i) == IfScmRoutes[i]
<1>1. /\ Len(r(1).path) = 3 /\ Len(r(2).path) = 3 /\ Len(r(3).path) = 3 /\ Len(r(4).path) = 3
      /\ Len(r(5).path) = 4
    BY Zenon DEF IfScmRoutes, IfGet, IfPost, IfPostBody, IfPostKeyed, IfRoute
<1>2. /\ IfRegularPath(r(1).path) /\ IfRegularPath(r(2).path) /\ IfRegularPath(r(3).path)
      /\ IfRegularPath(r(4).path) /\ IfRegularPath(r(5).path)
    BY Zenon, <1>1, IfPlaces DEF IfScmRoutes, IfGet, IfPost, IfPostBody,
        IfPostKeyed, IfRoute, IfRegularPath, IfParameters, IfCatalogs, IfSubresources
<1>3. /\ IfRegularNeeds(r(1)) /\ IfRegularNeeds(r(2)) /\ IfRegularNeeds(r(3))
      /\ IfRegularNeeds(r(4)) /\ IfRegularNeeds(r(5))
    BY Zenon, <1>1, IfPlaces DEF IfScmRoutes, IfGet, IfPost, IfPostBody,
        IfPostKeyed, IfRoute, IfRegularNeeds, IfParameters, IfKeyed, IfPlain, Last
<1>4. /\ Len(r(1).path) \in 1..6 /\ Len(r(2).path) \in 1..6 /\ Len(r(3).path) \in 1..6
      /\ Len(r(4).path) \in 1..6 /\ Len(r(5).path) \in 1..6
    BY <1>1
<1>5. /\ IfRegularRoute(r(1)) /\ IfRegularRoute(r(2)) /\ IfRegularRoute(r(3))
      /\ IfRegularRoute(r(4)) /\ IfRegularRoute(r(5))
    BY <1>2, <1>3, <1>4 DEF IfRegularRoute
<1>6. IfScmRoutes = <<r(1), r(2), r(3), r(4), r(5)>>
    BY DEF IfScmRoutes
<1> QED BY <1>5, <1>6, IfGroupOf5

\* Two lists, one after the other.
LEMMA IfJoined ==
    ASSUME NEW s, NEW t, IfGroup(s), IfGroup(t)
    PROVE  IfGroup(s \o t) /\ ToSet(s \o t) = ToSet(s) \cup ToSet(t)
<1>1. PICK A : A = ToSet(s) \cup ToSet(t)
    OBVIOUS
<1>2. s \in Seq(A) /\ t \in Seq(A)
    BY <1>1, SeqMonotonic DEF IfGroup
<1>3. /\ s \o t \in Seq(A)
      /\ Len(s \o t) = Len(s) + Len(t) /\ Len(s) \in Nat /\ Len(t) \in Nat
      /\ \A i \in 1 .. Len(s) + Len(t) : (s \o t)[i] = IF i <= Len(s) THEN s[i] ELSE t[i - Len(s)]
    BY <1>2, ConcatProperties
<1>4. /\ DOMAIN (s \o t) = 1 .. Len(s) + Len(t)
      /\ DOMAIN s = 1 .. Len(s) /\ DOMAIN t = 1 .. Len(t)
    BY <1>2, <1>3
<1>5. ASSUME NEW r \in ToSet(s \o t) PROVE r \in ToSet(s) \cup ToSet(t)
    <2>1. PICK i \in 1 .. Len(s) + Len(t) : r = (s \o t)[i]
        BY <1>4 DEF ToSet
    <2>2. CASE i <= Len(s)
        BY <1>3, <1>4, <2>1, <2>2 DEF ToSet
    <2>3. CASE i > Len(s)
        <3>1. i - Len(s) \in 1 .. Len(t) /\ r = t[i - Len(s)]
            BY <1>3, <2>1, <2>3
        <3> QED BY <1>4, <3>1 DEF ToSet
    <2> QED BY <1>3, <2>2, <2>3
<1>6. ASSUME NEW r \in ToSet(s) PROVE r \in ToSet(s \o t)
    <2>1. PICK i \in 1 .. Len(s) : r = s[i]
        BY <1>4 DEF ToSet
    <2>2. i \in 1 .. Len(s) + Len(t) /\ r = (s \o t)[i]
        BY <1>3, <2>1
    <2> QED BY <1>4, <2>2 DEF ToSet
<1>7. ASSUME NEW r \in ToSet(t) PROVE r \in ToSet(s \o t)
    <2>1. PICK i \in 1 .. Len(t) : r = t[i]
        BY <1>4 DEF ToSet
    <2>2. /\ Len(s) + i \in 1 .. Len(s) + Len(t) /\ ~(Len(s) + i <= Len(s))
          /\ (Len(s) + i) - Len(s) = i
        BY <1>3, <2>1
    <2>3. r = (s \o t)[Len(s) + i]
        BY <1>3, <2>1, <2>2
    <2> QED BY <1>4, <2>2, <2>3 DEF ToSet
<1>8. ToSet(s \o t) = ToSet(s) \cup ToSet(t)
    BY <1>5, <1>6, <1>7
<1> QED BY <1>1, <1>3, <1>8 DEF IfGroup

\* A table that opens with the list of accounts and their readiness.
IfOpens(g) ==
    /\ Len(g) \in Nat /\ Len(g) >= 2
    /\ g[1] = IfServiceAccountRoutes[1] /\ g[2] = IfServiceAccountRoutes[2]

LEMMA IfOpensStill ==
    ASSUME NEW s, NEW t, IfGroup(s), IfGroup(t), IfOpens(s)
    PROVE  IfOpens(s \o t)
<1>1. PICK A : A = ToSet(s) \cup ToSet(t)
    OBVIOUS
<1>2. s \in Seq(A) /\ t \in Seq(A)
    BY <1>1, SeqMonotonic DEF IfGroup
<1>3. /\ Len(s \o t) = Len(s) + Len(t) /\ Len(s) \in Nat /\ Len(t) \in Nat
      /\ \A i \in 1 .. Len(s) + Len(t) : (s \o t)[i] = IF i <= Len(s) THEN s[i] ELSE t[i - Len(s)]
    BY <1>2, ConcatProperties
<1>4. Len(s) >= 2
    BY DEF IfOpens
<1>5. (s \o t)[1] = s[1] /\ (s \o t)[2] = s[2]
    BY <1>3, <1>4
<1> QED BY <1>3, <1>4, <1>5 DEF IfOpens

\* Every route of the table is regular.
LEMMA IfTable ==
    /\ IfGroup(IfRoutes) /\ IfOpens(IfRoutes)
    /\ ToSet(IfRoutes) =
           ToSet(IfServiceAccountRoutes) \cup ToSet(IfWorkerRoutes) \cup ToSet(IfNotificationRoutes)
             \cup ToSet(IfProjectRoutes) \cup ToSet(IfDispatchRoutes) \cup ToSet(IfRunRoutes)
             \cup ToSet(IfWorkflowRoutes) \cup ToSet(IfCatalogRoutes) \cup ToSet(IfBudgetRoutes)
             \cup ToSet(IfExternalRoutes) \cup ToSet(IfScmRoutes)
<1> DEFINE a == IfServiceAccountRoutes \o IfWorkerRoutes
           b == a \o IfNotificationRoutes
           c == b \o IfProjectRoutes
           d == c \o IfDispatchRoutes
           e == d \o IfRunRoutes
           f == e \o IfWorkflowRoutes
           g == f \o IfCatalogRoutes
           h == g \o IfBudgetRoutes
           i == h \o IfExternalRoutes
           j == i \o IfScmRoutes
<1>0. IfOpens(IfServiceAccountRoutes)
    BY DEF IfOpens, IfServiceAccountRoutes
<1>1. /\ IfOpens(a) /\ IfGroup(a)
      /\ ToSet(a) = ToSet(IfServiceAccountRoutes) \cup ToSet(IfWorkerRoutes)
    BY <1>0, IfServiceAccountGroup, IfWorkerGroup, IfJoined, IfOpensStill
<1> HIDE DEF a
<1>2. IfOpens(b) /\ IfGroup(b) /\ ToSet(b) = ToSet(a) \cup ToSet(IfNotificationRoutes)
    BY <1>1, IfNotificationGroup, IfJoined, IfOpensStill
<1> HIDE DEF b
<1>3. IfOpens(c) /\ IfGroup(c) /\ ToSet(c) = ToSet(b) \cup ToSet(IfProjectRoutes)
    BY <1>2, IfProjectGroup, IfJoined, IfOpensStill
<1> HIDE DEF c
<1>4. IfOpens(d) /\ IfGroup(d) /\ ToSet(d) = ToSet(c) \cup ToSet(IfDispatchRoutes)
    BY <1>3, IfDispatchGroup, IfJoined, IfOpensStill
<1> HIDE DEF d
<1>5. IfOpens(e) /\ IfGroup(e) /\ ToSet(e) = ToSet(d) \cup ToSet(IfRunRoutes)
    BY <1>4, IfRunGroup, IfJoined, IfOpensStill
<1> HIDE DEF e
<1>6. IfOpens(f) /\ IfGroup(f) /\ ToSet(f) = ToSet(e) \cup ToSet(IfWorkflowRoutes)
    BY <1>5, IfWorkflowGroup, IfJoined, IfOpensStill
<1> HIDE DEF f
<1>7. IfOpens(g) /\ IfGroup(g) /\ ToSet(g) = ToSet(f) \cup ToSet(IfCatalogRoutes)
    BY <1>6, IfCatalogGroup, IfJoined, IfOpensStill
<1> HIDE DEF g
<1>8. IfOpens(h) /\ IfGroup(h) /\ ToSet(h) = ToSet(g) \cup ToSet(IfBudgetRoutes)
    BY <1>7, IfBudgetGroup, IfJoined, IfOpensStill
<1> HIDE DEF h
<1>9. IfOpens(i) /\ IfGroup(i) /\ ToSet(i) = ToSet(h) \cup ToSet(IfExternalRoutes)
    BY <1>8, IfExternalGroup, IfJoined, IfOpensStill
<1> HIDE DEF i
<1>10. IfOpens(j) /\ IfGroup(j) /\ ToSet(j) = ToSet(i) \cup ToSet(IfScmRoutes)
    BY <1>9, IfScmGroup, IfJoined, IfOpensStill
<1> HIDE DEF j
<1>11. j = IfRoutes
    BY DEF j, i, h, g, f, e, d, c, b, a, IfRoutes
<1> QED BY <1>1, <1>2, <1>3, <1>4, <1>5, <1>6, <1>7, <1>8, <1>9, <1>10, <1>11

\* An orderly request that a route takes is routed to a handler.
LEMMA IfRouted ==
    ASSUME NEW call, IfReached(call.method, call.path), IfOrderly(call.method, call.path, call.has)
    PROVE  IfRouting(call) = 0
<1>1. DOMAIN IfRoutes = 1..Len(IfRoutes)
    BY IfTable DEF IfGroup
<1>2. IfMatches(call) # {}
    BY <1>1 DEF IfReached, ToSet, IfMatches, IfHits
<1>3. PICK route : route = IfRoutes[Min(IfMatches(call))]
    OBVIOUS
<1>4. IfHits(route, call.method, call.path) /\ route \in ToSet(IfRoutes)
    BY <1>1, <1>2, <1>3, IfFoundRoute DEF ToSet
<1>5. IfRegularRoute(route)
    BY <1>4, IfTable DEF IfGroup
<1>6. /\ \A n \in 1..Len(call.path) : route.path[n] = "{id}" => call.path[n] = "ID"
      /\ route.needs \subseteq call.has
    BY Zenon, <1>4, <1>5, IfSoundRoute DEF IfRegularRoute
<1> QED BY Zenon, <1>2, <1>3, <1>6 DEF IfRouting

\* The requests of the clients reach routes of the table.
LEMMA IfServiceAccountReached ==
    /\ IfReached("GET", <<"service-accounts">>)
    /\ IfReached("GET", <<"service-accounts", "ID">>)
    /\ IfReached("GET", <<"service-accounts", "ID", "credentials">>)
    /\ IfReached("GET", <<"service-accounts", "ID", "credential-events">>)
    /\ IfReached("POST", <<"service-accounts", "ID", "credentials">>)
    /\ IfReached("DELETE", <<"service-accounts", "ID", "credentials", "ID">>)
<1>1. /\ IfHits(IfServiceAccountRoutes[1], "GET", <<"service-accounts">>)
      /\ IfHits(IfServiceAccountRoutes[3], "GET", <<"service-accounts", "ID">>)
      /\ IfHits(IfServiceAccountRoutes[5], "GET", <<"service-accounts", "ID", "credentials">>)
      /\ IfHits(IfServiceAccountRoutes[6], "GET", <<"service-accounts", "ID", "credential-events">>)
      /\ IfHits(IfServiceAccountRoutes[4], "POST", <<"service-accounts", "ID", "credentials">>)
      /\ IfHits(IfServiceAccountRoutes[7], "DELETE",
             <<"service-accounts", "ID", "credentials", "ID">>)
    BY Zenon, IfSegments, IfHits1, IfHits2, IfHits3, IfHits4
        DEF IfServiceAccountRoutes, IfGet, IfPostBody
<1>2. {IfServiceAccountRoutes[1], IfServiceAccountRoutes[3], IfServiceAccountRoutes[4],
       IfServiceAccountRoutes[5], IfServiceAccountRoutes[6], IfServiceAccountRoutes[7]}
         \subseteq ToSet(IfRoutes)
    BY IfTable, IfServiceAccountGroup
<1> QED BY <1>1, <1>2 DEF IfReached

LEMMA IfWorkerReached ==
    /\ IfReached("GET", <<"projects", "ID", "worker-readiness">>)
    /\ IfReached("GET", <<"workers">>)
<1>1. /\ IfHits(IfWorkerRoutes[2], "GET", <<"projects", "ID", "worker-readiness">>)
      /\ IfHits(IfWorkerRoutes[1], "GET", <<"workers">>)
    BY Zenon, IfSegments, IfHits1, IfHits3
        DEF IfWorkerRoutes, IfGet
<1>2. {IfWorkerRoutes[1], IfWorkerRoutes[2]}
         \subseteq ToSet(IfRoutes)
    BY IfTable, IfWorkerGroup
<1> QED BY <1>1, <1>2 DEF IfReached

LEMMA IfNotificationReached ==
    /\ IfReached("GET", <<"projects", "ID", "notification-subscriptions">>)
    /\ IfReached("POST", <<"projects", "ID", "notification-subscriptions">>)
    /\ IfReached("PATCH", <<"projects", "ID", "notification-subscriptions", "ID">>)
    /\ IfReached("GET", <<"projects", "ID", "notification-deliveries">>)
    /\ IfReached("GET", <<"projects", "ID", "notification-deliveries", "ID", "attempts">>)
    /\ IfReached("POST", <<"projects", "ID", "notification-deliveries", "ID", "retry">>)
    /\ IfReached("POST",
           <<"projects", "ID", "notification-deliveries", "ID", "automatic-retry", "cancel">>)
<1>1. /\ IfHits(IfNotificationRoutes[2], "GET", <<"projects", "ID", "notification-subscriptions">>)
      /\ IfHits(IfNotificationRoutes[1], "POST", <<"projects", "ID", "notification-subscriptions">>)
      /\ IfHits(IfNotificationRoutes[3], "PATCH",
             <<"projects", "ID", "notification-subscriptions", "ID">>)
      /\ IfHits(IfNotificationRoutes[4], "GET", <<"projects", "ID", "notification-deliveries">>)
      /\ IfHits(IfNotificationRoutes[5], "GET",
             <<"projects", "ID", "notification-deliveries", "ID", "attempts">>)
      /\ IfHits(IfNotificationRoutes[6], "POST",
             <<"projects", "ID", "notification-deliveries", "ID", "retry">>)
      /\ IfHits(IfNotificationRoutes[7], "POST",
             <<"projects", "ID", "notification-deliveries", "ID", "automatic-retry", "cancel">>)
    BY Zenon, IfSegments, IfHits3, IfHits4, IfHits5, IfHits6
        DEF IfNotificationRoutes, IfGet, IfPostBody, IfPost
<1>2. {IfNotificationRoutes[1], IfNotificationRoutes[2], IfNotificationRoutes[3],
       IfNotificationRoutes[4], IfNotificationRoutes[5], IfNotificationRoutes[6],
       IfNotificationRoutes[7]}
         \subseteq ToSet(IfRoutes)
    BY IfTable, IfNotificationGroup
<1> QED BY <1>1, <1>2 DEF IfReached

LEMMA IfProjectReached ==
    /\ IfReached("GET", <<"projects">>)
    /\ IfReached("GET", <<"projects", "ID">>)
    /\ IfReached("GET", <<"projects", "ID", "requests">>)
    /\ IfReached("GET", <<"projects", "ID", "workflow-executions">>)
    /\ IfReached("GET", <<"projects", "ID", "events", "stream">>)
    /\ IfReached("POST", <<"projects">>)
<1>1. /\ IfHits(IfProjectRoutes[2], "GET", <<"projects">>)
      /\ IfHits(IfProjectRoutes[3], "GET", <<"projects", "ID">>)
      /\ IfHits(IfProjectRoutes[4], "GET", <<"projects", "ID", "requests">>)
      /\ IfHits(IfProjectRoutes[5], "GET", <<"projects", "ID", "workflow-executions">>)
      /\ IfHits(IfProjectRoutes[6], "GET", <<"projects", "ID", "events", "stream">>)
      /\ IfHits(IfProjectRoutes[1], "POST", <<"projects">>)
    BY Zenon, IfSegments, IfHits1, IfHits2, IfHits3, IfHits4
        DEF IfProjectRoutes, IfGet, IfPostBody
<1>2. {IfProjectRoutes[1], IfProjectRoutes[2], IfProjectRoutes[3], IfProjectRoutes[4],
       IfProjectRoutes[5], IfProjectRoutes[6]}
         \subseteq ToSet(IfRoutes)
    BY IfTable, IfProjectGroup
<1> QED BY <1>1, <1>2 DEF IfReached

LEMMA IfDispatchReached ==
    /\ IfReached("GET", <<"projects", "ID", "workflow-options">>)
    /\ IfReached("POST", <<"projects", "ID", "workflow-recommendations">>)
    /\ IfReached("POST", <<"projects", "ID", "dispatches">>)
    /\ IfReached("GET", <<"projects", "ID", "workflow-binding">>)
    /\ IfReached("PUT", <<"projects", "ID", "workflow-binding">>)
<1>1. /\ IfHits(IfDispatchRoutes[3], "GET", <<"projects", "ID", "workflow-options">>)
      /\ IfHits(IfDispatchRoutes[4], "POST", <<"projects", "ID", "workflow-recommendations">>)
      /\ IfHits(IfDispatchRoutes[5], "POST", <<"projects", "ID", "dispatches">>)
      /\ IfHits(IfDispatchRoutes[2], "GET", <<"projects", "ID", "workflow-binding">>)
      /\ IfHits(IfDispatchRoutes[1], "PUT", <<"projects", "ID", "workflow-binding">>)
    BY Zenon, IfSegments, IfHits3
        DEF IfDispatchRoutes, IfGet, IfPostBody, IfPostKeyed
<1>2. {IfDispatchRoutes[1], IfDispatchRoutes[2], IfDispatchRoutes[3], IfDispatchRoutes[4],
       IfDispatchRoutes[5]}
         \subseteq ToSet(IfRoutes)
    BY IfTable, IfDispatchGroup
<1> QED BY <1>1, <1>2 DEF IfReached

LEMMA IfRunReached ==
    /\ IfReached("GET", <<"requests", "ID">>)
    /\ IfReached("GET", <<"runs", "ID">>)
    /\ IfReached("POST", <<"projects", "ID", "requests">>)
    /\ IfReached("POST", <<"runs", "ID", "approve">>)
    /\ IfReached("POST", <<"runs", "ID", "cancel">>)
<1>1. /\ IfHits(IfRunRoutes[2], "GET", <<"requests", "ID">>)
      /\ IfHits(IfRunRoutes[4], "GET", <<"runs", "ID">>)
      /\ IfHits(IfRunRoutes[1], "POST", <<"projects", "ID", "requests">>)
      /\ IfHits(IfRunRoutes[5], "POST", <<"runs", "ID", "approve">>)
      /\ IfHits(IfRunRoutes[6], "POST", <<"runs", "ID", "cancel">>)
    BY Zenon, IfSegments, IfHits2, IfHits3
        DEF IfRunRoutes, IfGet, IfPostBody, IfPost
<1>2. {IfRunRoutes[1], IfRunRoutes[2], IfRunRoutes[4], IfRunRoutes[5], IfRunRoutes[6]}
         \subseteq ToSet(IfRoutes)
    BY IfTable, IfRunGroup
<1> QED BY <1>1, <1>2 DEF IfReached

LEMMA IfWorkflowReached ==
    /\ IfReached("GET", <<"workflow-executions", "ID">>)
    /\ IfReached("GET", <<"workflow-executions", "ID", "artifacts">>)
    /\ IfReached("POST", <<"workflow-executions", "ID", "approvals", "KEY">>)
    /\ IfReached("POST", <<"workflow-executions", "ID", "cancel">>)
    /\ IfReached("GET", <<"workflows", "KEY">>)
    /\ IfReached("POST", <<"workflows">>)
<1>1. /\ IfHits(IfWorkflowRoutes[6], "GET", <<"workflow-executions", "ID">>)
      /\ IfHits(IfWorkflowRoutes[7], "GET", <<"workflow-executions", "ID", "artifacts">>)
      /\ IfHits(IfWorkflowRoutes[8], "POST", <<"workflow-executions", "ID", "approvals", "KEY">>)
      /\ IfHits(IfWorkflowRoutes[9], "POST", <<"workflow-executions", "ID", "cancel">>)
      /\ IfHits(IfWorkflowRoutes[3], "GET", <<"workflows", "KEY">>)
      /\ IfHits(IfWorkflowRoutes[1], "POST", <<"workflows">>)
    BY Zenon, IfSegments, IfHits1, IfHits2, IfHits3, IfHits4
        DEF IfWorkflowRoutes, IfGet, IfPostBody, IfPost
<1>2. {IfWorkflowRoutes[1], IfWorkflowRoutes[3], IfWorkflowRoutes[6], IfWorkflowRoutes[7],
       IfWorkflowRoutes[8], IfWorkflowRoutes[9]}
         \subseteq ToSet(IfRoutes)
    BY IfTable, IfWorkflowGroup
<1> QED BY <1>1, <1>2 DEF IfReached

LEMMA IfCatalogReached ==
    /\ IfReached("GET", <<"skills", "KEY">>)
    /\ IfReached("GET", <<"models", "KEY">>)
    /\ IfReached("GET", <<"phase-packs", "KEY">>)
    /\ IfReached("POST", <<"skills">>)
    /\ IfReached("POST", <<"models">>)
    /\ IfReached("POST", <<"phase-packs">>)
<1>1. /\ IfHits(IfCatalogRoutes[3], "GET", <<"skills", "KEY">>)
      /\ IfHits(IfCatalogRoutes[9], "GET", <<"models", "KEY">>)
      /\ IfHits(IfCatalogRoutes[6], "GET", <<"phase-packs", "KEY">>)
      /\ IfHits(IfCatalogRoutes[1], "POST", <<"skills">>)
      /\ IfHits(IfCatalogRoutes[7], "POST", <<"models">>)
      /\ IfHits(IfCatalogRoutes[4], "POST", <<"phase-packs">>)
    BY Zenon, IfSegments, IfHits1, IfHits2
        DEF IfCatalogRoutes, IfGet, IfPostBody
<1>2. {IfCatalogRoutes[1], IfCatalogRoutes[3], IfCatalogRoutes[4], IfCatalogRoutes[6],
       IfCatalogRoutes[7], IfCatalogRoutes[9]}
         \subseteq ToSet(IfRoutes)
    BY IfTable, IfCatalogGroup
<1> QED BY <1>1, <1>2 DEF IfReached

LEMMA IfExternalReached ==
    /\ IfReached("GET", <<"external-executions">>)
    /\ IfReached("GET", <<"external-executions", "ID", "workspace-operations">>)
    /\ IfReached("POST", <<"external-executions", "ID", "workspace-operations">>)
<1>1. /\ IfHits(IfExternalRoutes[1], "GET", <<"external-executions">>)
      /\ IfHits(IfExternalRoutes[5], "GET", <<"external-executions", "ID", "workspace-operations">>)
      /\ IfHits(IfExternalRoutes[4], "POST",
             <<"external-executions", "ID", "workspace-operations">>)
    BY Zenon, IfSegments, IfHits1, IfHits3
        DEF IfExternalRoutes, IfGet, IfPostKeyed
<1>2. {IfExternalRoutes[1], IfExternalRoutes[4], IfExternalRoutes[5]}
         \subseteq ToSet(IfRoutes)
    BY IfTable, IfExternalGroup
<1> QED BY <1>1, <1>2 DEF IfReached

LEMMA IfScmReached ==
    /\ IfReached("GET", <<"external-executions", "ID", "scm-publications">>)
    /\ IfReached("POST", <<"external-executions", "ID", "scm-publications">>)
    /\ IfReached("GET", <<"scm-publications", "ID", "attempts">>)
    /\ IfReached("POST", <<"scm-publications", "ID", "retry">>)
    /\ IfReached("POST", <<"scm-publications", "ID", "automatic-retry", "cancel">>)
<1>1. /\ IfHits(IfScmRoutes[2], "GET", <<"external-executions", "ID", "scm-publications">>)
      /\ IfHits(IfScmRoutes[1], "POST", <<"external-executions", "ID", "scm-publications">>)
      /\ IfHits(IfScmRoutes[3], "GET", <<"scm-publications", "ID", "attempts">>)
      /\ IfHits(IfScmRoutes[4], "POST", <<"scm-publications", "ID", "retry">>)
      /\ IfHits(IfScmRoutes[5], "POST", <<"scm-publications", "ID", "automatic-retry", "cancel">>)
    BY Zenon, IfSegments, IfHits3, IfHits4
        DEF IfScmRoutes, IfGet, IfPostKeyed, IfPost
<1>2. {IfScmRoutes[1], IfScmRoutes[2], IfScmRoutes[3], IfScmRoutes[4], IfScmRoutes[5]}
         \subseteq ToSet(IfRoutes)
    BY IfTable, IfScmGroup
<1> QED BY <1>1, <1>2 DEF IfReached

\* The requests of the clients are orderly: those that read, those that send a
\* body and those that do not.
LEMMA IfReadsOrderly ==
    /\ IfOrderly("GET", <<"projects">>, {})
    /\ IfOrderly("GET", <<"projects", "ID">>, {})
    /\ IfOrderly("GET", <<"projects", "ID", "requests">>, {})
    /\ IfOrderly("GET", <<"projects", "ID", "workflow-executions">>, {})
    /\ IfOrderly("GET", <<"projects", "ID", "events", "stream">>, {})
    /\ IfOrderly("GET", <<"projects", "ID", "workflow-options">>, {})
    /\ IfOrderly("GET", <<"projects", "ID", "worker-readiness">>, {})
    /\ IfOrderly("GET", <<"workers">>, {})
    /\ IfOrderly("GET", <<"workflow-executions", "ID">>, {})
    /\ IfOrderly("GET", <<"workflow-executions", "ID", "artifacts">>, {})
    /\ IfOrderly("GET", <<"external-executions">>, {})
    /\ IfOrderly("GET", <<"external-executions", "ID", "workspace-operations">>, {})
    /\ IfOrderly("GET", <<"external-executions", "ID", "scm-publications">>, {})
    /\ IfOrderly("GET", <<"scm-publications", "ID", "attempts">>, {})
    /\ IfOrderly("GET", <<"projects", "ID", "notification-subscriptions">>, {})
    /\ IfOrderly("GET", <<"projects", "ID", "notification-deliveries">>, {})
    /\ IfOrderly("GET", <<"projects", "ID", "notification-deliveries", "ID", "attempts">>, {})
    /\ IfOrderly("GET", <<"requests", "ID">>, {})
    /\ IfOrderly("GET", <<"runs", "ID">>, {})
    /\ IfOrderly("GET", <<"service-accounts">>, {})
    /\ IfOrderly("GET", <<"service-accounts", "ID">>, {})
    /\ IfOrderly("GET", <<"service-accounts", "ID", "credentials">>, {})
    /\ IfOrderly("GET", <<"service-accounts", "ID", "credential-events">>, {})
    /\ IfOrderly("GET", <<"projects", "ID", "workflow-binding">>, {})
    /\ IfOrderly("GET", <<"skills", "KEY">>, {})
    /\ IfOrderly("GET", <<"models", "KEY">>, {})
    /\ IfOrderly("GET", <<"phase-packs", "KEY">>, {})
    /\ IfOrderly("GET", <<"workflows", "KEY">>, {})
BY IfPlaces DEF IfOrderly, IfCatalogs, IfSubresources, Last, IfKeyed, IfPlain

LEMMA IfWritesOrderly ==
    /\ IfOrderly("POST", <<"projects", "ID", "workflow-recommendations">>, {"body"})
    /\ IfOrderly("POST", <<"projects", "ID", "dispatches">>, {"body", "key"})
    /\ IfOrderly("POST", <<"workflow-executions", "ID", "approvals", "KEY">>, {"body"})
    /\ IfOrderly("POST", <<"external-executions", "ID", "workspace-operations">>, {"body", "key"})
    /\ IfOrderly("POST", <<"external-executions", "ID", "scm-publications">>, {"body", "key"})
    /\ IfOrderly("POST", <<"projects", "ID", "notification-subscriptions">>, {"body"})
    /\ IfOrderly("PATCH", <<"projects", "ID", "notification-subscriptions", "ID">>, {"body"})
    /\ IfOrderly("POST", <<"service-accounts", "ID", "credentials">>, {"body"})
    /\ IfOrderly("POST", <<"projects">>, {"body"})
    /\ IfOrderly("POST", <<"projects", "ID", "requests">>, {"body"})
    /\ IfOrderly("POST", <<"skills">>, {"body"})
    /\ IfOrderly("POST", <<"models">>, {"body"})
    /\ IfOrderly("POST", <<"phase-packs">>, {"body"})
    /\ IfOrderly("POST", <<"workflows">>, {"body"})
    /\ IfOrderly("PUT", <<"projects", "ID", "workflow-binding">>, {"body"})
BY IfPlaces DEF IfOrderly, IfCatalogs, IfSubresources, Last, IfKeyed, IfPlain

LEMMA IfCommandsOrderly ==
    /\ IfOrderly("POST", <<"workflow-executions", "ID", "cancel">>, {})
    /\ IfOrderly("POST", <<"scm-publications", "ID", "retry">>, {})
    /\ IfOrderly("POST", <<"scm-publications", "ID", "automatic-retry", "cancel">>, {})
    /\ IfOrderly("POST", <<"projects", "ID", "notification-deliveries", "ID", "retry">>, {})
    /\ IfOrderly("POST",
           <<"projects", "ID", "notification-deliveries", "ID", "automatic-retry", "cancel">>, {})
    /\ IfOrderly("DELETE", <<"service-accounts", "ID", "credentials", "ID">>, {})
    /\ IfOrderly("POST", <<"runs", "ID", "approve">>, {})
    /\ IfOrderly("POST", <<"runs", "ID", "cancel">>, {})
BY IfPlaces DEF IfOrderly, IfCatalogs, IfSubresources, Last, IfKeyed, IfPlain

\* What a request needs when it manages what belongs to a project.
LEMMA IfManaged ==
    ASSUME NEW path, path[1] # "service-accounts",
           \/ Last(path) \in
                {"dispatches", "workflow-recommendations", "cancel", "workspace-operations"}
           \/ \E n \in 1..Len(path) :
                 path[n] \in {"scm-publications", "notification-subscriptions",
                              "notification-deliveries"}
    PROVE  IfPermitted("jarvis", "POST", path) /\ IfPermitted("jarvis", "PATCH", path)
BY DEF IfPermitted, IfRequiredPermission, IfJarvisPermissions, IfHolds

\* The documented accounts permit what their clients send.
LEMMA IfJarvisReadsPermitted ==
    /\ IfPermitted("jarvis", "GET", <<"projects">>)
    /\ IfPermitted("jarvis", "GET", <<"projects", "ID">>)
    /\ IfPermitted("jarvis", "GET", <<"projects", "ID", "requests">>)
    /\ IfPermitted("jarvis", "GET", <<"projects", "ID", "workflow-executions">>)
    /\ IfPermitted("jarvis", "GET", <<"projects", "ID", "events", "stream">>)
    /\ IfPermitted("jarvis", "GET", <<"projects", "ID", "workflow-options">>)
    /\ IfPermitted("jarvis", "GET", <<"projects", "ID", "worker-readiness">>)
    /\ IfPermitted("jarvis", "GET", <<"workers">>)
    /\ IfPermitted("jarvis", "GET", <<"workflow-executions", "ID">>)
    /\ IfPermitted("jarvis", "GET", <<"workflow-executions", "ID", "artifacts">>)
    /\ IfPermitted("jarvis", "GET", <<"external-executions">>)
    /\ IfPermitted("jarvis", "GET", <<"external-executions", "ID", "workspace-operations">>)
    /\ IfPermitted("jarvis", "GET", <<"external-executions", "ID", "scm-publications">>)
    /\ IfPermitted("jarvis", "GET", <<"scm-publications", "ID", "attempts">>)
    /\ IfPermitted("jarvis", "GET", <<"projects", "ID", "notification-subscriptions">>)
    /\ IfPermitted("jarvis", "GET", <<"projects", "ID", "notification-deliveries">>)
    /\ IfPermitted("jarvis", "GET",
           <<"projects", "ID", "notification-deliveries", "ID", "attempts">>)
BY DEF IfPermitted, IfRequiredPermission, IfJarvisPermissions, IfMcpPermissions,
    IfAddressesResource, IfResourceTypes, IfHolds, Last, Front

LEMMA IfMcpPermitted ==
    /\ IfPermitted("mcp", "GET", <<"projects", "ID">>)
    /\ IfPermitted("mcp", "GET", <<"projects", "ID", "requests">>)
    /\ IfPermitted("mcp", "GET", <<"projects", "ID", "workflow-executions">>)
    /\ IfPermitted("mcp", "GET", <<"projects", "ID", "workflow-options">>)
    /\ IfPermitted("mcp", "GET", <<"projects", "ID", "worker-readiness">>)
    /\ IfPermitted("mcp", "GET", <<"requests", "ID">>)
    /\ IfPermitted("mcp", "GET", <<"runs", "ID">>)
    /\ IfPermitted("mcp", "GET", <<"workflow-executions", "ID">>)
    /\ IfPermitted("mcp", "GET", <<"workflow-executions", "ID", "artifacts">>)
    /\ IfPermitted("mcp", "POST", <<"projects", "ID", "workflow-recommendations">>)
    /\ IfPermitted("mcp", "POST", <<"projects", "ID", "dispatches">>)
BY DEF IfPermitted, IfRequiredPermission, IfJarvisPermissions, IfMcpPermissions,
    IfAddressesResource, IfResourceTypes, IfHolds, Last, Front

LEMMA IfJarvisWritesPermitted ==
    /\ IfPermitted("jarvis", "POST", <<"projects", "ID", "workflow-recommendations">>)
    /\ IfPermitted("jarvis", "POST", <<"projects", "ID", "dispatches">>)
    /\ IfPermitted("jarvis", "POST", <<"workflow-executions", "ID", "approvals", "KEY">>)
    /\ IfPermitted("jarvis", "POST", <<"workflow-executions", "ID", "cancel">>)
    /\ IfPermitted("jarvis", "POST", <<"external-executions", "ID", "workspace-operations">>)
    /\ IfPermitted("jarvis", "POST", <<"external-executions", "ID", "scm-publications">>)
    /\ IfPermitted("jarvis", "POST", <<"scm-publications", "ID", "retry">>)
    /\ IfPermitted("jarvis", "POST", <<"scm-publications", "ID", "automatic-retry", "cancel">>)
    /\ IfPermitted("jarvis", "POST", <<"projects", "ID", "notification-subscriptions">>)
    /\ IfPermitted("jarvis", "PATCH", <<"projects", "ID", "notification-subscriptions", "ID">>)
    /\ IfPermitted("jarvis", "POST", <<"projects", "ID", "notification-deliveries", "ID", "retry">>)
    /\ IfPermitted("jarvis", "POST",
           <<"projects", "ID", "notification-deliveries", "ID", "automatic-retry", "cancel">>)
<1>1. IfPermitted("jarvis", "POST", <<"projects", "ID", "workflow-recommendations">>)
    BY IfManaged DEF Last
<1>2. IfPermitted("jarvis", "POST", <<"projects", "ID", "dispatches">>)
    BY IfManaged DEF Last
<1>3. IfPermitted("jarvis", "POST", <<"workflow-executions", "ID", "approvals", "KEY">>)
    BY DEF IfPermitted, IfRequiredPermission, IfJarvisPermissions, IfHolds, Last, Front
<1>4. IfPermitted("jarvis", "POST", <<"workflow-executions", "ID", "cancel">>)
    BY IfManaged DEF Last
<1>5. IfPermitted("jarvis", "POST", <<"external-executions", "ID", "workspace-operations">>)
    BY IfManaged DEF Last
<1>6. IfPermitted("jarvis", "POST", <<"external-executions", "ID", "scm-publications">>)
    BY IfManaged DEF Last
<1>7. IfPermitted("jarvis", "POST", <<"scm-publications", "ID", "retry">>)
    BY IfManaged DEF Last
<1>8. IfPermitted("jarvis", "POST", <<"scm-publications", "ID", "automatic-retry", "cancel">>)
    BY IfManaged DEF Last
<1>9. IfPermitted("jarvis", "POST", <<"projects", "ID", "notification-subscriptions">>)
    <2>1. PICK path : path = <<"projects", "ID", "notification-subscriptions">>
        OBVIOUS
    <2>2. path[1] = "projects" /\ path[3] = "notification-subscriptions" /\ 3 \in 1..Len(path)
        BY <2>1
    <2> QED BY <2>1, <2>2, IfManaged
<1>10. IfPermitted("jarvis", "PATCH", <<"projects", "ID", "notification-subscriptions", "ID">>)
    BY IfManaged DEF Last
<1>11. IfPermitted("jarvis", "POST", <<"projects", "ID", "notification-deliveries", "ID", "retry">>)
    BY IfManaged DEF Last
<1>12. IfPermitted("jarvis", "POST",
           <<"projects", "ID", "notification-deliveries", "ID", "automatic-retry", "cancel">>)
    BY IfManaged DEF Last
<1> QED BY <1>1, <1>2, <1>3, <1>4, <1>5, <1>6, <1>7, <1>8, <1>9, <1>10, <1>11, <1>12

\* The commands run under an administrator's account.
LEMMA IfCliPermitted == \A method, path : IfPermitted("cli", method, path)
BY DEF IfPermitted

\* What makes a call servable.
LEMMA IfServableWhen ==
    ASSUME NEW client, NEW method, NEW path, NEW has, IfReached(method, path),
           IfOrderly(method, path, has), IfPermitted(client, method, path)
    PROVE  IfServable(IfCallOf(client, method, path, has))
<1>1. PICK call : call = IfCallOf(client, method, path, has)
    OBVIOUS
<1>2. call.client = client /\ call.method = method /\ call.path = path /\ call.has = has
    BY <1>1 DEF IfCallOf
<1> QED BY <1>1, <1>2, IfRouted DEF IfServable

\* The command that lists the readiness of all accounts matches the account
\* route too, which is declared after its own.
LEMMA IfReadinessServable ==
    IfServable(IfCallOf("cli", "GET", <<"service-accounts", "readiness">>, {}))
<1>1. PICK path : path = <<"service-accounts", "readiness">>
    OBVIOUS
<1>2. PICK call : call = IfCallOf("cli", "GET", path, {})
    OBVIOUS
<1>3. call.client = "cli" /\ call.method = "GET" /\ call.path = path /\ call.has = {}
    BY <1>2 DEF IfCallOf
<1>4. Len(path) = 2 /\ path[1] = "service-accounts" /\ path[2] = "readiness"
    BY <1>1
<1> DEFINE accounts == IfServiceAccountRoutes[1]
           readiness == IfServiceAccountRoutes[2]
<1>5. /\ IfRoutes[1] = accounts /\ IfRoutes[2] = readiness
      /\ Len(IfRoutes) \in Nat /\ Len(IfRoutes) >= 2
    BY IfTable DEF IfOpens
<1>6. IfHits(readiness, "GET", path)
    BY Zenon, <1>1, IfSegments, IfHits2 DEF IfServiceAccountRoutes, IfGet
<1>7. Len(accounts.path) = 1
    BY DEF IfServiceAccountRoutes, IfGet, IfRoute
<1>8. /\ readiness.path[1] = "service-accounts" /\ readiness.path[2] = "readiness"
      /\ readiness.needs = {}
    BY DEF IfServiceAccountRoutes, IfGet, IfRoute
<1> HIDE DEF accounts, readiness
<1>9. 2 \in IfMatches(call) /\ 1 \notin IfMatches(call)
    <2>1. 2 \in 1..Len(IfRoutes)
        BY <1>5
    <2>2. ~IfHits(accounts, "GET", path)
        BY <1>4, <1>7 DEF IfHits, IfPathMatches
    <2> QED BY <1>3, <1>5, <1>6, <2>1, <2>2 DEF IfMatches, IfHits
<1>10. PICK m : m = Min(IfMatches(call))
    OBVIOUS
<1>11. m \in 1..Len(IfRoutes) /\ m =< 2 /\ m \in IfMatches(call)
    BY <1>9, <1>10, IfFoundRoute DEF IfMatches, IfHits
<1>12. m = 2
    BY <1>9, <1>11
<1>13. /\ \A n \in 1..Len(call.path) : IfRoutes[m].path[n] # "{id}"
       /\ IfRoutes[m].needs \subseteq call.has
    <2>1. \A n \in 1..Len(path) : n = 1 \/ n = 2
        BY <1>4
    <2> QED BY Zenon, <1>3, <1>5, <1>8, <1>12, <2>1
<1>14. IfRouting(call) = 0
    BY Zenon, <1>9, <1>10, <1>13 DEF IfRouting
<1> QED BY <1>1, <1>2, <1>3, <1>14 DEF IfServable, IfPermitted

\* Every call of the clients is, but those withheld.
LEMMA IfClientsServable == \A call \in IfCalls : IfServable(call) \/ IfWithheld(call)
<1>1. \A call \in IfJarvisProjects : IfServable(call)
    <2>1. IfServable(IfCallOf("jarvis", "GET", <<"projects">>, {}))
        BY IfServableWhen, IfProjectReached, IfReadsOrderly, IfJarvisReadsPermitted
    <2> QED BY <2>1 DEF IfJarvisProjects, IfReads, IfPosts
<1>2. \A call \in IfJarvisOverview : IfServable(call)
    <2>1. /\ IfServable(IfCallOf("jarvis", "GET", <<"projects", "ID">>, {}))
          /\ IfServable(IfCallOf("jarvis", "GET", <<"projects", "ID", "requests">>, {}))
          /\ IfServable(IfCallOf("jarvis", "GET", <<"projects", "ID", "workflow-executions">>, {}))
        BY IfServableWhen, IfProjectReached, IfReadsOrderly, IfJarvisReadsPermitted
    <2> QED BY <2>1 DEF IfJarvisOverview, IfReads, IfPosts
<1>3. \A call \in IfJarvisEvents : IfServable(call)
    <2>1. IfServable(IfCallOf("jarvis", "GET", <<"projects", "ID", "events", "stream">>, {}))
        BY IfServableWhen, IfProjectReached, IfReadsOrderly, IfJarvisReadsPermitted
    <2> QED BY <2>1 DEF IfJarvisEvents, IfReads, IfPosts
<1>4. \A call \in IfJarvisWorkflows : IfServable(call)
    <2>1. IfServable(IfCallOf("jarvis", "GET", <<"projects", "ID", "workflow-options">>, {}))
        BY IfServableWhen, IfDispatchReached, IfReadsOrderly, IfJarvisReadsPermitted
    <2> QED BY <2>1 DEF IfJarvisWorkflows, IfReads, IfPosts
<1>5. \A call \in IfJarvisReadiness : IfServable(call)
    <2>1. IfServable(IfCallOf("jarvis", "GET", <<"projects", "ID", "worker-readiness">>, {}))
        BY IfServableWhen, IfWorkerReached, IfReadsOrderly, IfJarvisReadsPermitted
    <2> QED BY <2>1 DEF IfJarvisReadiness, IfReads, IfPosts
<1>6. \A call \in IfJarvisWorkers : IfServable(call)
    <2>1. IfServable(IfCallOf("jarvis", "GET", <<"workers">>, {}))
        BY IfServableWhen, IfWorkerReached, IfReadsOrderly, IfJarvisReadsPermitted
    <2> QED BY <2>1 DEF IfJarvisWorkers, IfReads, IfPosts
<1>7. \A call \in IfJarvisExecution : IfServable(call)
    <2>1. /\ IfServable(IfCallOf("jarvis", "GET", <<"workflow-executions", "ID">>, {}))
          /\ IfServable(IfCallOf("jarvis", "GET", <<"workflow-executions", "ID", "artifacts">>, {}))
          /\ IfServable(IfCallOf("jarvis", "GET", <<"external-executions">>, {}))
        BY IfServableWhen, IfWorkflowReached, IfExternalReached, IfReadsOrderly,
           IfJarvisReadsPermitted
    <2> QED BY <2>1 DEF IfJarvisExecution, IfReads, IfPosts
<1>8. \A call \in IfJarvisRecommendation : IfServable(call)
    <2>1. IfServable(IfCallOf("jarvis", "POST",
              <<"projects", "ID", "workflow-recommendations">>, {"body"}))
        BY IfServableWhen, IfDispatchReached, IfWritesOrderly, IfJarvisWritesPermitted
    <2> QED BY <2>1 DEF IfJarvisRecommendation, IfReads, IfPosts
<1>9. \A call \in IfJarvisDispatch : IfServable(call)
    <2>1. IfServable(
              IfCallOf("jarvis", "POST", <<"projects", "ID", "dispatches">>, {"body", "key"}))
        BY IfServableWhen, IfDispatchReached, IfWritesOrderly, IfJarvisWritesPermitted
    <2> QED BY <2>1 DEF IfJarvisDispatch, IfReads, IfPosts
<1>10. \A call \in IfJarvisApproval : IfServable(call)
    <2>1. IfServable(IfCallOf("jarvis", "POST",
              <<"workflow-executions", "ID", "approvals", "KEY">>, {"body"}))
        BY IfServableWhen, IfWorkflowReached, IfWritesOrderly, IfJarvisWritesPermitted
    <2> QED BY <2>1 DEF IfJarvisApproval, IfReads, IfPosts
<1>11. \A call \in IfJarvisCancellation : IfServable(call)
    <2>1. IfServable(IfCallOf("jarvis", "POST", <<"workflow-executions", "ID", "cancel">>, {}))
        BY IfServableWhen, IfWorkflowReached, IfCommandsOrderly, IfJarvisWritesPermitted
    <2> QED BY <2>1 DEF IfJarvisCancellation, IfReads, IfPosts
<1>12. \A call \in IfJarvisWorkspace : IfServable(call)
    <2>1. /\ IfServable(IfCallOf("jarvis", "GET",
                 <<"external-executions", "ID", "workspace-operations">>, {}))
          /\ IfServable(IfCallOf("jarvis", "POST",
                 <<"external-executions", "ID", "workspace-operations">>, {"body", "key"}))
        BY IfServableWhen, IfExternalReached, IfReadsOrderly, IfWritesOrderly,
           IfJarvisReadsPermitted, IfJarvisWritesPermitted
    <2> QED BY <2>1 DEF IfJarvisWorkspace, IfReads, IfPosts
<1>13. \A call \in IfJarvisScm : IfServable(call)
    <2>1. /\ IfServable(
                 IfCallOf("jarvis", "GET", <<"external-executions", "ID", "scm-publications">>, {}))
          /\ IfServable(IfCallOf("jarvis", "POST",
                 <<"external-executions", "ID", "scm-publications">>, {"body", "key"}))
        BY IfServableWhen, IfScmReached, IfReadsOrderly, IfWritesOrderly, IfJarvisReadsPermitted,
           IfJarvisWritesPermitted
    <2> QED BY <2>1 DEF IfJarvisScm, IfReads, IfPosts
<1>14. \A call \in IfJarvisScmAttempts : IfServable(call)
    <2>1. IfServable(IfCallOf("jarvis", "GET", <<"scm-publications", "ID", "attempts">>, {}))
        BY IfServableWhen, IfScmReached, IfReadsOrderly, IfJarvisReadsPermitted
    <2> QED BY <2>1 DEF IfJarvisScmAttempts, IfReads, IfPosts
<1>15. \A call \in IfJarvisScmRetry : IfServable(call)
    <2>1. IfServable(IfCallOf("jarvis", "POST", <<"scm-publications", "ID", "retry">>, {}))
        BY IfServableWhen, IfScmReached, IfCommandsOrderly, IfJarvisWritesPermitted
    <2> QED BY <2>1 DEF IfJarvisScmRetry, IfReads, IfPosts
<1>16. \A call \in IfJarvisScmCancel : IfServable(call)
    <2>1. IfServable(IfCallOf("jarvis", "POST",
              <<"scm-publications", "ID", "automatic-retry", "cancel">>, {}))
        BY IfServableWhen, IfScmReached, IfCommandsOrderly, IfJarvisWritesPermitted
    <2> QED BY <2>1 DEF IfJarvisScmCancel, IfReads, IfPosts
<1>17. \A call \in IfJarvisSubscriptions : IfServable(call)
    <2>1. /\ IfServable(
                 IfCallOf("jarvis", "GET", <<"projects", "ID", "notification-subscriptions">>, {}))
          /\ IfServable(IfCallOf("jarvis", "POST",
                 <<"projects", "ID", "notification-subscriptions">>, {"body"}))
        BY IfServableWhen, IfNotificationReached, IfReadsOrderly, IfWritesOrderly,
           IfJarvisReadsPermitted, IfJarvisWritesPermitted
    <2> QED BY <2>1 DEF IfJarvisSubscriptions, IfReads, IfPosts
<1>18. \A call \in IfJarvisConfigure : IfServable(call)
    <2>1. IfServable(IfCallOf("jarvis", "PATCH",
              <<"projects", "ID", "notification-subscriptions", "ID">>, {"body"}))
        BY IfServableWhen, IfNotificationReached, IfWritesOrderly, IfJarvisWritesPermitted
    <2> QED BY <2>1 DEF IfJarvisConfigure, IfReads, IfPosts
<1>19. \A call \in IfJarvisDeliveries : IfServable(call)
    <2>1. IfServable(IfCallOf("jarvis", "GET", <<"projects", "ID", "notification-deliveries">>, {}))
        BY IfServableWhen, IfNotificationReached, IfReadsOrderly, IfJarvisReadsPermitted
    <2> QED BY <2>1 DEF IfJarvisDeliveries, IfReads, IfPosts
<1>20. \A call \in IfJarvisDeliveryAttempts : IfServable(call)
    <2>1. IfServable(IfCallOf("jarvis", "GET",
              <<"projects", "ID", "notification-deliveries", "ID", "attempts">>, {}))
        BY IfServableWhen, IfNotificationReached, IfReadsOrderly, IfJarvisReadsPermitted
    <2> QED BY <2>1 DEF IfJarvisDeliveryAttempts, IfReads, IfPosts
<1>21. \A call \in IfJarvisDeliveryRetry : IfServable(call)
    <2>1. IfServable(IfCallOf("jarvis", "POST",
              <<"projects", "ID", "notification-deliveries", "ID", "retry">>, {}))
        BY IfServableWhen, IfNotificationReached, IfCommandsOrderly, IfJarvisWritesPermitted
    <2> QED BY <2>1 DEF IfJarvisDeliveryRetry, IfReads, IfPosts
<1>22. \A call \in IfJarvisDeliveryCancel : IfServable(call)
    <2>1. IfServable(IfCallOf("jarvis", "POST",
              <<"projects", "ID", "notification-deliveries", "ID", "automatic-retry", "cancel">>,
                  {}))
        BY IfServableWhen, IfNotificationReached, IfCommandsOrderly, IfJarvisWritesPermitted
    <2> QED BY <2>1 DEF IfJarvisDeliveryCancel, IfReads, IfPosts
<1>23. \A call \in IfMcpProjectReads : IfServable(call)
    <2>1. /\ IfServable(IfCallOf("mcp", "GET", <<"projects", "ID">>, {}))
          /\ IfServable(IfCallOf("mcp", "GET", <<"projects", "ID", "requests">>, {}))
          /\ IfServable(IfCallOf("mcp", "GET", <<"projects", "ID", "workflow-executions">>, {}))
          /\ IfServable(IfCallOf("mcp", "GET", <<"projects", "ID", "workflow-options">>, {}))
          /\ IfServable(IfCallOf("mcp", "GET", <<"projects", "ID", "worker-readiness">>, {}))
        BY IfServableWhen, IfProjectReached, IfDispatchReached, IfWorkerReached, IfReadsOrderly,
           IfMcpPermitted
    <2> QED BY <2>1 DEF IfMcpProjectReads, IfReads, IfPosts
<1>24. \A call \in IfMcpRunReads : IfServable(call)
    <2>1. /\ IfServable(IfCallOf("mcp", "GET", <<"requests", "ID">>, {}))
          /\ IfServable(IfCallOf("mcp", "GET", <<"runs", "ID">>, {}))
          /\ IfServable(IfCallOf("mcp", "GET", <<"workflow-executions", "ID">>, {}))
          /\ IfServable(IfCallOf("mcp", "GET", <<"workflow-executions", "ID", "artifacts">>, {}))
        BY IfServableWhen, IfRunReached, IfWorkflowReached, IfReadsOrderly, IfMcpPermitted
    <2> QED BY <2>1 DEF IfMcpRunReads, IfReads, IfPosts
<1>25. \A call \in IfMcpRecommend : IfServable(call)
    <2>1. IfServable(
              IfCallOf("mcp", "POST", <<"projects", "ID", "workflow-recommendations">>, {"body"}))
        BY IfServableWhen, IfDispatchReached, IfWritesOrderly, IfMcpPermitted
    <2> QED BY <2>1 DEF IfMcpRecommend, IfReads, IfPosts
<1>26. \A call \in IfMcpDispatch : IfServable(call)
    <2>1. IfServable(IfCallOf("mcp", "POST", <<"projects", "ID", "dispatches">>, {"body", "key"}))
        BY IfServableWhen, IfDispatchReached, IfWritesOrderly, IfMcpPermitted
    <2> QED BY <2>1 DEF IfMcpDispatch, IfReads, IfPosts
<1>27. \A call \in IfCliAccounts : IfServable(call)
    <2>1. /\ IfServable(IfCallOf("cli", "GET", <<"service-accounts">>, {}))
          /\ IfServable(IfCallOf("cli", "GET", <<"service-accounts", "ID">>, {}))
          /\ IfServable(IfCallOf("cli", "GET", <<"service-accounts", "ID", "credentials">>, {}))
          /\ IfServable(
                 IfCallOf("cli", "GET", <<"service-accounts", "ID", "credential-events">>, {}))
          /\ IfServable(
                 IfCallOf("cli", "POST", <<"service-accounts", "ID", "credentials">>, {"body"}))
          /\ IfServable(
                 IfCallOf("cli", "DELETE", <<"service-accounts", "ID", "credentials", "ID">>, {}))
        BY IfServableWhen, IfServiceAccountReached, IfReadsOrderly, IfWritesOrderly,
           IfCommandsOrderly, IfCliPermitted
    <2> QED BY <2>1, IfReadinessServable DEF IfCliAccounts, IfReads, IfPosts
<1>28. \A call \in IfCliRuns : IfServable(call)
    <2>1. /\ IfServable(IfCallOf("cli", "GET", <<"requests", "ID">>, {}))
          /\ IfServable(IfCallOf("cli", "GET", <<"runs", "ID">>, {}))
          /\ IfServable(IfCallOf("cli", "POST", <<"projects">>, {"body"}))
          /\ IfServable(IfCallOf("cli", "POST", <<"projects", "ID", "requests">>, {"body"}))
          /\ IfServable(IfCallOf("cli", "POST", <<"runs", "ID", "approve">>, {}))
          /\ IfServable(IfCallOf("cli", "POST", <<"runs", "ID", "cancel">>, {}))
        BY IfServableWhen, IfRunReached, IfProjectReached, IfReadsOrderly, IfWritesOrderly,
           IfCommandsOrderly, IfCliPermitted
    <2> QED BY <2>1 DEF IfCliRuns, IfReads, IfPosts
<1>29. \A call \in IfCliBundles : IfServable(call)
    <2>1. /\ IfServable(IfCallOf("cli", "GET", <<"projects">>, {}))
          /\ IfServable(IfCallOf("cli", "GET", <<"projects", "ID", "workflow-binding">>, {}))
          /\ IfServable(IfCallOf("cli", "GET", <<"skills", "KEY">>, {}))
          /\ IfServable(IfCallOf("cli", "GET", <<"models", "KEY">>, {}))
          /\ IfServable(IfCallOf("cli", "GET", <<"phase-packs", "KEY">>, {}))
          /\ IfServable(IfCallOf("cli", "GET", <<"workflows", "KEY">>, {}))
          /\ IfServable(IfCallOf("cli", "POST", <<"skills">>, {"body"}))
          /\ IfServable(IfCallOf("cli", "POST", <<"models">>, {"body"}))
          /\ IfServable(IfCallOf("cli", "POST", <<"phase-packs">>, {"body"}))
          /\ IfServable(IfCallOf("cli", "POST", <<"workflows">>, {"body"}))
          /\ IfServable(IfCallOf("cli", "PUT", <<"projects", "ID", "workflow-binding">>, {"body"}))
        BY IfServableWhen, IfProjectReached, IfDispatchReached, IfCatalogReached,
           IfWorkflowReached, IfReadsOrderly, IfWritesOrderly, IfCliPermitted
    <2> QED BY <2>1 DEF IfCliBundles, IfReads, IfPosts
<1> QED BY <1>1, <1>2, <1>3, <1>4, <1>5, <1>6, <1>7, <1>8, <1>9, <1>10, <1>11, <1>12, <1>13,
           <1>14, <1>15, <1>16, <1>17, <1>18, <1>19, <1>20, <1>21, <1>22, <1>23, <1>24, <1>25,
           <1>26, <1>27, <1>28, <1>29
    DEF IfCalls, IfJarvisCalls, IfMcpCalls, IfWithheld

\* What is withheld from the MCP account.
LEMMA IfWithheldPermissions ==
    ASSUME NEW call, IfWithheld(call)
    PROVE  /\ call.client = "mcp" /\ IfAddressesResource(call.path)
           /\ IfRequiredPermission(call.method, call.path) \in {"workflow.approve", "run.cancel"}
<1>1. CASE call = IfMcpApprove
    <2>1. call.client = "mcp" /\ call.method = "POST"
          /\ call.path = <<"workflow-executions", "ID", "approvals", "KEY">>
        BY <1>1 DEF IfMcpApprove, IfCallOf
    <2>2. IfRequiredPermission("POST", <<"workflow-executions", "ID", "approvals", "KEY">>) =
              "workflow.approve"
        BY DEF IfRequiredPermission, Last, Front, IfHolds
    <2>3. IfAddressesResource(<<"workflow-executions", "ID", "approvals", "KEY">>)
        BY DEF IfAddressesResource, IfResourceTypes
    <2> QED BY <2>1, <2>2, <2>3
<1>2. CASE call = IfMcpCancel
    <2>1. call.client = "mcp" /\ call.method = "POST" /\ call.path = <<"runs", "ID", "cancel">>
        BY <1>2 DEF IfMcpCancel, IfCallOf
    <2>2. IfRequiredPermission("POST", <<"runs", "ID", "cancel">>) \in
              {"workflow.approve", "run.cancel"}
        BY DEF IfRequiredPermission, Last, Front, IfHolds
    <2>3. IfAddressesResource(<<"runs", "ID", "cancel">>)
        BY DEF IfAddressesResource, IfResourceTypes
    <2> QED BY <2>1, <2>2, <2>3
<1> QED BY <1>1, <1>2 DEF IfWithheld

\* What the call is refused for before its handler runs: first the account,
\* then the route; then the answer is the handler's own.
IfAllowed == IfAuthorized(IfAccount[ifCall.client], ifCall)
IfReason ==
    \/ ~IfAllowed /\ ifStatus = 403
    \/ IfAllowed /\ IfRouting(ifCall) # 0 /\ ifStatus = IfRouting(ifCall)
    \/ IfAllowed /\ IfRouting(ifCall) = 0 /\ ifStatus = IfProblem(ifRaised)

\* How far the exchange got: it is answered once, the handler runs only for a
\* permitted call of a route, and the answer has its reason.
IfProgress ==
    /\ ifPhase # "idle" => ifCall \in IfCalls
    /\ ifPhase \in {"idle", "sent", "authenticated", "authorized", "routed"} => ifStatus = 0
    /\ ifPhase \in {"authorized", "routed"} => IfAllowed
    /\ ifPhase = "routed" => IfRouting(ifCall) = 0
    /\ ifToken = "valid" /\ ifStatus # 0 => IfReason

IfIInv == IfTypeOK /\ IfProgress

\* An answer is a status.
LEMMA IfCodes ==
    /\ \A call : IfRouting(call) \in Nat
    /\ \A raised \in IfRaises \cup {"nothing"} : IfProblem(raised) \in Nat /\ IfProblem(raised) # 0
    /\ \A client : \A code \in Nat : IfShows(client, code) \in Nat
<1>1. \A call : IfRouting(call) \in Nat
    BY DEF IfRouting
<1>2. \A raised \in IfRaises \cup {"nothing"} : IfProblem(raised) \in Nat /\ IfProblem(raised) # 0
    BY DEF IfRaises, IfProblem
<1>3. \A client : \A code \in Nat : IfShows(client, code) \in Nat
    BY DEF IfShows, IfJarvisShows
<1> QED BY <1>1, <1>2, <1>3

LEMMA IfInitially == IfInit => IfIInv
BY DEF IfInit, IfIInv, IfTypeOK, IfProgress

\* The call, the token and the addressed project stay while it is answered.
LEMMA IfSameReason ==
    ASSUME ifCall' = ifCall, ifOwner' = ifOwner
    PROVE  IfAllowed' = IfAllowed
BY DEF IfAllowed, IfAuthorized, IfResolve

\* Every step of the exchange keeps it.
LEMMA IfInductive == IfIInv /\ [IfNext]_ifVars => IfIInv'
<1> SUFFICES ASSUME IfIInv, [IfNext]_ifVars PROVE IfIInv'
    OBVIOUS
<1> USE DEF IfIInv, IfTypeOK, IfProgress
<1>1. ASSUME NEW call \in IfCalls, IfSend(call) PROVE IfIInv'
    <2>1. ifShown' \in Nat
        BY <1>1 DEF IfSend
    <2> QED BY <1>1, <2>1 DEF IfSend
<1>2. ASSUME NEW call \in IfCalls, IfRefuseForm(call) PROVE IfIInv'
    BY <1>2 DEF IfRefuseForm
<1>3. CASE IfUnreachable
    BY <1>3, IfCodes, IfSameReason DEF IfUnreachable, IfReason
<1>4. CASE IfAuthenticate
    BY <1>4, IfSameReason DEF IfAuthenticate, IfAnswer, IfReason
<1>5. CASE IfAuthorize
    BY <1>5, IfSameReason DEF IfAuthorize, IfAnswer, IfAllowed, IfReason
<1>6. CASE IfDispatchRoute
    BY <1>6, IfCodes, IfSameReason DEF IfDispatchRoute, IfAnswer, IfReason
<1>7. ASSUME NEW raised \in IfRaises \cup {"nothing"}, IfHandle(raised) PROVE IfIInv'
    BY <1>7, IfCodes, IfSameReason DEF IfHandle, IfAnswer, IfReason
<1>8. CASE IfShow
    BY <1>8, IfCodes, IfSameReason DEF IfShow, IfReason
<1>9. CASE UNCHANGED ifVars
    BY <1>9, IfSameReason DEF ifVars, IfReason
<1> QED BY <1>1, <1>2, <1>3, <1>4, <1>5, <1>6, <1>7, <1>8, <1>9 DEF IfNext

\* The invariant of an exchange.
LEMMA IfInvariance == IfSpec => []IfIInv
BY IfInitially, IfInductive, PTL DEF IfSpec

\* A client's account is served or refused as its call and the addressed
\* resource demand.
LEMMA IfAccountsServe ==
    ASSUME IfDocumented, NEW call \in IfCalls, ifOwner \in {"own", "other", "absent"}
    PROVE  LET missing == IfAddressesResource(call.path) /\ ifOwner = "absent"
               allowed == IfAuthorized(IfAccount[call.client], call)
           IN  /\ IfForeign(call) \/ (IfWithheld(call) /\ ~missing) => ~allowed
               /\ ~IfForeign(call) /\ ~IfWithheld(call) => allowed /\ IfRouting(call) = 0
<1> DEFINE missing == IfAddressesResource(call.path) /\ ifOwner = "absent"
           allowed == IfAuthorized(IfAccount[call.client], call)
           permission == IfRequiredPermission(call.method, call.path)
           granted == IfAccount[call.client]
<1>1. call.client \in {"jarvis", "mcp", "cli"} /\ "own" \in granted.projects
    BY IfClientsServable, IfWithheldPermissions, IfAssumption DEF IfServable, IfPermitted
<1>2. ASSUME IfForeign(call) PROVE ~allowed
    <2>1. call.client = "mcp"
        BY <1>1, <1>2 DEF IfForeign, IfDocumented
    <2>2. ~granted.all /\ "other" \notin granted.projects
        BY <1>2, <2>1 DEF IfForeign, IfDocumented
    <2> QED BY <1>2, <2>2 DEF IfForeign, IfAuthorized, IfResolve, IfAllows
<1>3. ASSUME IfWithheld(call), ~missing PROVE ~allowed
    <2>1. /\ call.client = "mcp" /\ IfAddressesResource(call.path)
          /\ permission \in {"workflow.approve", "run.cancel"}
        BY <1>3, IfWithheldPermissions
    <2>2. permission \notin granted.permissions /\ "project.admin" \notin granted.permissions
        BY <2>1 DEF IfDocumented
    <2> QED BY <1>3, <2>1, <2>2 DEF IfAuthorized, IfResolve, IfAllows
<1>4. ASSUME ~IfForeign(call), ~IfWithheld(call) PROVE allowed /\ IfRouting(call) = 0
    <2>1. IfRouting(call) = 0 /\ IfPermitted(call.client, call.method, call.path)
        BY <1>4, IfClientsServable DEF IfServable
    <2>2. permission \in granted.permissions \/ "project.admin" \in granted.permissions
        BY <2>1 DEF IfPermitted, IfDocumented
    <2>3. IfAddressesResource(call.path) /\ ifOwner = "other" => granted.all
        BY <1>4 DEF IfForeign
    <2>4. IfAddressesResource(call.path) \/ granted.all
        BY <2>1 DEF IfPermitted, IfDocumented
    <2> QED BY <1>1, <2>1, <2>2, <2>3, <2>4 DEF IfAuthorized, IfResolve, IfAllows
<1> QED BY <1>2, <1>3, <1>4

\* Whatever the accounts are, if they are as documented: every request of the
\* shipped clients with a valid token is answered by its handler, or refused
\* for what the account may not do (bearer_security, the routes, the clients).
THEOREM ClientsServed ==
    ASSUME IfDocumented
    PROVE  IfSpec => [](IfTypeOK /\ IfServed)
<1>1. IfIInv => IfTypeOK /\ IfServed
    <2> SUFFICES ASSUME IfIInv, ifPhase = "shown", ifToken = "valid", ifStatus # 0
                 PROVE  IfServed
        BY DEF IfIInv, IfServed
    <2>1. ifCall \in IfCalls /\ ifOwner \in {"own", "other", "absent"} /\ IfReason
        BY DEF IfIInv, IfTypeOK, IfProgress
    <2> QED BY <2>1, IfAccountsServe DEF IfServed, IfReason, IfAllowed
<1> QED BY <1>1, IfInvariance, PTL

-----------------------------------------------------------------------------
(***************************************************************************)
(* All of them in one run: each component, and the workers' components     *)
(* beside them, keeps its promises while the others run or stand still.    *)
(***************************************************************************)

\* Every behaviour of the run is one of each of its components.
LEMMA Embeds ==
    MCSpec => /\ Spec /\ ExSpec /\ DpSpec /\ AcSpec /\ IfSpec /\ RdSpec
              /\ [](part \in parts)
<1>1. MCInit => /\ Init /\ ExInit /\ DpInit /\ AcInit /\ IfInit /\ RdInit
                /\ part \in parts
    BY DEF MCInit
<1>2. [MCNext]_allVars => [Next]_vars
    BY DEF MCNext, allVars
<1>3. [MCNext]_allVars => [ExNext]_exVars
    BY DEF MCNext, allVars
<1>4. [MCNext]_allVars => [DpNext]_dpVars
    BY DEF MCNext, allVars
<1>5. [MCNext]_allVars => [AcNext]_acVars
    BY DEF MCNext, allVars
<1>6. [MCNext]_allVars => [IfNext]_ifVars
    BY DEF MCNext, allVars
<1>7. [MCNext]_allVars => [RdNext]_rdVars
    BY DEF MCNext, allVars
<1>8. part \in parts /\ [MCNext]_allVars => (part \in parts)'
    BY DEF MCNext, allVars
<1> QED BY <1>1, <1>2, <1>3, <1>4, <1>5, <1>6, <1>7, <1>8, PTL
        DEF MCSpec, Spec, ExSpec, DpSpec, AcSpec, IfSpec, RdSpec

\* The rows, callers and receipts of all components have their types, and the
\* components keep their promises: the balances and ledgers of a budget, the
\* reports of an external execution, a run and true answers for a form, the
\* audit trail and the listing of accounts, the clients' calls and the alerts.
THEOREM ControlPlaneSound ==
    MCSpec => [](/\ ControlPlaneTypeOK /\ AccountSound /\ ChargesExplained /\ ExReportsAgree
                 /\ DpOneRunPerForm /\ DpAnswersTrue /\ DpAutomaticIsBest
                 /\ AcAuditAgrees /\ AcListingComplete /\ IfServed /\ RdNotifiedOnce)
<1>1. IfSpec => [](IfTypeOK /\ IfServed)
    BY ClientsServed, MCDocumented
<1>2. ControlPlaneTypeOK <=> /\ part \in parts /\ TypeOK /\ ExTypeOK /\ DpTypeOK
                             /\ AcTypeOK /\ IfTypeOK /\ RdTypeOK
    BY DEF ControlPlaneTypeOK
<1> QED BY <1>1, <1>2, Embeds, BudgetTypes, AccountsAddUp, ChargesAreExplained, ExTypes,
           ExReportsTrue, DispatchTypes, OneRunPerForm, AnswersTrue, AutomaticIsBest,
           AccountTypes, AuditTrailAgrees, ListingsComplete, AlertsToldOnce, PTL

\* An execution's identity and outcome stay, whatever else happens.
THEOREM ControlPlaneKeepsIdentity == MCSpec => ExIdentityKept
BY Embeds, ExIdentityStays, PTL
=============================================================================
