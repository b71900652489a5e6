-------------------------- MODULE LeaseQueueProofs --------------------------
(***************************************************************************)
(* What every queue that implements LeaseQueue promises, for any number of *)
(* items and workers.  Fenced is inductive as it stands: a grant makes the *)
(* number of leases larger than every lease anybody has, so that the new   *)
(* holder is the only one of the latest lease, and that lease is given up  *)
(* in the step that takes the item out of "claimed" and "lapsed".          *)
(***************************************************************************)
EXTENDS LeaseQueue, TLAPS

\* Types are kept.
LEMMA TypeStep == TypeOK /\ [Next]_vars => TypeOK'
<1> SUFFICES ASSUME TypeOK, [Next]_vars PROVE TypeOK'
    OBVIOUS
<1> USE DEF TypeOK, Statuses
<1>1. Idle \in [item : Items \cup {0}, lease : Nat]
    BY DEF Idle
<1>2. ASSUME NEW i \in Items, Offer(i) \/ Lapse(i) \/ Cancel(i) \/ Reopen(i) PROVE TypeOK'
    BY <1>2 DEF Offer, Lapse, Cancel, Reopen
<1>3. ASSUME NEW w \in Workers, NEW i \in Items, Grant(w, i) PROVE TypeOK'
    <2>1. [item |-> i, lease |-> leases[i] + 1] \in [item : Items \cup {0}, lease : Nat]
        OBVIOUS
    <2> QED BY <1>3, <2>1 DEF Grant
<1>4. ASSUME NEW w \in Workers, NEW outcome \in Outcomes, Report(w, outcome) PROVE TypeOK'
    <2>1. outcome \in Statuses
        BY DEF Outcomes
    <2> QED BY <1>1, <1>4, <2>1 DEF Report
<1>5. ASSUME NEW w \in Workers, Abandon(w) PROVE TypeOK'
    BY <1>1, <1>5 DEF Abandon
<1>6. CASE UNCHANGED vars
    BY <1>6 DEF vars
<1> QED BY <1>2, <1>3, <1>4, <1>5, <1>6 DEF Next

\* What Fenced says of one item and of one worker.
ItemCounted(i) ==
    /\ status[i] = "absent" => leases[i] = 0
    /\ status[i] \in {"claimed", "lapsed", "retrying", "failed", "succeeded"} => leases[i] > 0

WorkerFenced(w) ==
    hold[w] # Idle =>
        /\ hold[w].item \in Items /\ hold[w].lease \in 1..leases[hold[w].item]
        /\ hold[w].lease = leases[hold[w].item] => status[hold[w].item] \in {"claimed", "lapsed"}
        /\ \A v \in Workers : hold[v] = hold[w] => v = w

LEMMA FencedParts ==
    Fenced <=> (\A i \in Items : ItemCounted(i)) /\ (\A w \in Workers : WorkerFenced(w))
BY DEF Fenced, ItemCounted, WorkerFenced

\* A step of an item alone that takes it neither into nor out of a claim.
LEMMA ItemMoves ==
    ASSUME TypeOK, Fenced, NEW i \in Items,
           Offer(i) \/ Lapse(i) \/ Cancel(i) \/ Reopen(i)
    PROVE  Fenced'
<1>1. /\ leases' = leases /\ hold' = hold
      /\ \A j \in Items : j # i => status'[j] = status[j]
      /\ (status[i] \in {"claimed", "lapsed"} => status'[i] \in {"claimed", "lapsed"})
      /\ status'[i] # "absent"
      /\ status'[i] = "pending" \/ status[i] \in {"claimed", "retrying"}
    BY DEF TypeOK, Offer, Lapse, Cancel, Reopen
<1>2. \A j \in Items : ItemCounted(j)'
    BY <1>1, FencedParts DEF ItemCounted
<1>3. \A w \in Workers : WorkerFenced(w)'
    BY <1>1, FencedParts DEF WorkerFenced
<1> QED BY <1>2, <1>3 DEF Fenced, ItemCounted, WorkerFenced

\* A grant is the only holding of the number it draws.
LEMMA GrantKeeps ==
    ASSUME TypeOK, Fenced, NEW w \in Workers, NEW i \in Items, Grant(w, i)
    PROVE  Fenced'
<1>1. /\ leases[i] \in Nat /\ leases'[i] = leases[i] + 1 /\ status'[i] = "claimed"
      /\ \A j \in Items : j # i => leases'[j] = leases[j] /\ status'[j] = status[j]
      /\ hold'[w] = [item |-> i, lease |-> leases[i] + 1]
      /\ \A v \in Workers : v # w => hold'[v] = hold[v]
    BY DEF TypeOK, Grant
<1>2. status[i] \notin {"claimed"}
    BY DEF Grant
<1>3. \A j \in Items : ItemCounted(j)'
    BY <1>1, FencedParts DEF ItemCounted
<1>4. ASSUME NEW v \in Workers, v # w, hold[v] # Idle
      PROVE  /\ hold[v].item \in Items /\ hold[v].lease \in 1..leases[hold[v].item]
             /\ leases[hold[v].item] \in Nat
             /\ hold[v].item = i => hold[v].lease < leases[i] + 1
             /\ hold[v].lease = leases[hold[v].item] => status[hold[v].item] \in {"claimed", "lapsed"}
             /\ \A u \in Workers : hold[u] = hold[v] => u = v
    BY <1>4, FencedParts DEF WorkerFenced, TypeOK
<1>5. WorkerFenced(w)'
    <2>1. ASSUME NEW v \in Workers, hold'[v] = hold'[w], v # w PROVE FALSE
        <3>1. hold[v] = [item |-> i, lease |-> leases[i] + 1]
            BY <1>1, <2>1
        <3>2. hold[v] # Idle
            BY <1>1, <3>1 DEF Idle
        <3> QED BY <1>1, <1>4, <2>1, <3>1, <3>2
    <2> QED BY <1>1, <2>1 DEF WorkerFenced
<1>6. ASSUME NEW v \in Workers, v # w, hold[v] # Idle PROVE WorkerFenced(v)'
    <2>1. hold'[v] = hold[v] /\ hold[v].lease \in 1..leases'[hold[v].item]
        BY <1>1, <1>4, <1>6
    <2>2. hold[v].lease = leases'[hold[v].item] =>
              status'[hold[v].item] \in {"claimed", "lapsed"}
        BY <1>1, <1>4, <1>6
    <2>3. ASSUME NEW u \in Workers, hold'[u] = hold'[v] PROVE u = v
        <3>1. u # w
            BY <1>1, <1>4, <1>6, <2>1, <2>3
        <3> QED BY <1>1, <1>4, <1>6, <2>1, <2>3, <3>1
    <2> QED BY <1>4, <1>6, <2>1, <2>2, <2>3 DEF WorkerFenced
<1>7. ASSUME NEW v \in Workers PROVE WorkerFenced(v)'
    <2>1. CASE v # w /\ hold[v] = Idle
        BY <1>1, <2>1 DEF WorkerFenced, Idle
    <2> QED BY <1>5, <1>6, <2>1
<1> QED BY <1>3, <1>7 DEF Fenced, ItemCounted, WorkerFenced

\* A worker that reports or gives up has nothing; if its report counted, nobody
\* else has the lease it was about.
LEMMA ReportKeeps ==
    ASSUME TypeOK, Fenced, NEW w \in Workers,
           Abandon(w) \/ \E outcome \in Outcomes : Report(w, outcome)
    PROVE  Fenced'
<1>1. /\ leases' = leases /\ hold[w] # Idle /\ hold'[w] = Idle
      /\ \A v \in Workers : v # w => hold'[v] = hold[v]
    BY DEF TypeOK, Abandon, Report
<1>2. hold[w].item \in Items /\ hold[w].lease \in 1..leases[hold[w].item]
    BY <1>1, FencedParts DEF WorkerFenced
<1>3. \/ status' = status
      \/ /\ hold[w].lease = leases[hold[w].item]
         /\ status[hold[w].item] \in {"claimed", "lapsed"}
         /\ status'[hold[w].item] \in {"succeeded", "failed", "retrying"}
         /\ \A j \in Items : j # hold[w].item => status'[j] = status[j]
    BY <1>1, <1>2, FencedParts DEF TypeOK, Abandon, Report, Outcomes, WorkerFenced
<1>4. \A j \in Items : ItemCounted(j)'
    BY <1>1, <1>2, <1>3, FencedParts DEF ItemCounted
<1>5. ASSUME NEW v \in Workers, v # w, hold[v] # Idle PROVE WorkerFenced(v)'
    <2>1. /\ hold[v].item \in Items /\ hold[v].lease \in 1..leases[hold[v].item]
          /\ hold[v].lease = leases[hold[v].item] =>
                 status[hold[v].item] \in {"claimed", "lapsed"}
          /\ \A u \in Workers : hold[u] = hold[v] => u = v
        BY <1>5, FencedParts DEF WorkerFenced
    <2>2. \/ status'[hold[v].item] = status[hold[v].item]
          \/ hold[v].lease # leases[hold[v].item]
        <3>1. (hold[v].item = hold[w].item /\ hold[v].lease = hold[w].lease) => hold[v] = hold[w]
            BY DEF TypeOK
        <3> QED BY <1>2, <1>3, <1>5, <2>1, <3>1
    <2>3. ASSUME NEW u \in Workers, hold'[u] = hold'[v] PROVE u = v
        BY <1>1, <1>5, <2>1, <2>3
    <2> QED BY <1>1, <1>5, <2>1, <2>2, <2>3 DEF WorkerFenced
<1>6. ASSUME NEW v \in Workers PROVE WorkerFenced(v)'
    <2>1. CASE v = w \/ hold[v] = Idle
        BY <1>1, <2>1 DEF WorkerFenced, Idle
    <2> QED BY <1>5, <2>1
<1> QED BY <1>4, <1>6 DEF Fenced, ItemCounted, WorkerFenced

LEMMA FencedStep == TypeOK /\ Fenced /\ [Next]_vars => Fenced'
<1> SUFFICES ASSUME TypeOK, Fenced, [Next]_vars PROVE Fenced'
    OBVIOUS
<1>1. CASE UNCHANGED vars
    BY <1>1 DEF vars, Fenced
<1> QED BY <1>1, ItemMoves, GrantKeeps, ReportKeeps DEF Next

\* In every queue, whoever crashes, is slow or has lost its lease, only granted
\* leases are held, each by one worker (claim, _require_claim).
THEOREM QueueFenced == Spec => [](TypeOK /\ Fenced)
BY TypeStep, FencedStep, PTL DEF Spec, Init

\* At any moment at most one worker holds the latest lease of an item, however
\* many believe they hold one.
THEOREM QueueHasOneHolder == Spec => []OneHolder
<1>1. TypeOK /\ Fenced => OneHolder
    <2> SUFFICES ASSUME TypeOK, Fenced, NEW i \in Items, NEW v \in Workers, NEW w \in Workers,
                        hold[v].item = i, hold[v].lease = leases[i],
                        hold[w].item = i, hold[w].lease = leases[i]
                 PROVE  v = w
        BY DEF OneHolder
    <2>1. hold[v] = hold[w]
        BY DEF TypeOK
    <2>2. hold[w] # Idle
        BY DEF Idle, Items
    <2> QED BY <2>1, <2>2 DEF Fenced
<1> QED BY <1>1, QueueFenced, PTL

\* What a step does to item i, by action.
LEMMA ItemSteps ==
    ASSUME TypeOK, Fenced, [Next]_vars, NEW i \in Items
    PROVE  \/ leases'[i] = leases[i] /\ status'[i] = status[i]
           \/ leases'[i] = leases[i] /\ status[i] = "absent" /\ status'[i] = "pending"
           \/ leases'[i] = leases[i] /\ status[i] = "claimed" /\ status'[i] = "lapsed"
           \/ leases'[i] = leases[i] /\ status[i] = "retrying" /\ status'[i] = "failed"
           \/ /\ leases'[i] = leases[i]
              /\ status[i] \in {"failed", "retrying"} /\ status'[i] = "pending"
           \/ /\ leases'[i] = leases[i] + 1
              /\ status[i] \in {"pending", "lapsed", "retrying"} /\ status'[i] = "claimed"
           \/ /\ leases'[i] = leases[i] /\ status'[i] \in {"succeeded", "failed", "retrying"}
              /\ status[i] \in {"claimed", "lapsed"}
              /\ \E w \in Workers, outcome \in Outcomes : Report(w, outcome) /\ hold[w].item = i
<1>1. ASSUME NEW j \in Items, Offer(j) \/ Lapse(j) \/ Cancel(j) \/ Reopen(j)
      PROVE  \/ leases' = leases /\ status'[i] = status[i]
             \/ leases' = leases /\ status[i] = "absent" /\ status'[i] = "pending"
             \/ leases' = leases /\ status[i] = "claimed" /\ status'[i] = "lapsed"
             \/ leases' = leases /\ status[i] = "retrying" /\ status'[i] = "failed"
             \/ leases' = leases /\ status[i] \in {"failed", "retrying"} /\ status'[i] = "pending"
    BY <1>1 DEF TypeOK, Offer, Lapse, Cancel, Reopen
<1>2. ASSUME NEW w \in Workers, NEW j \in Items, Grant(w, j)
      PROVE  \/ leases'[i] = leases[i] /\ status'[i] = status[i]
             \/ /\ leases'[i] = leases[i] + 1
                /\ status[i] \in {"pending", "lapsed", "retrying"} /\ status'[i] = "claimed"
    BY <1>2 DEF TypeOK, Grant
<1>3. ASSUME NEW w \in Workers, NEW outcome \in Outcomes, Report(w, outcome)
      PROVE  \/ leases'[i] = leases[i] /\ status'[i] = status[i]
             \/ /\ leases'[i] = leases[i] /\ status'[i] \in {"succeeded", "failed", "retrying"}
                /\ status[i] \in {"claimed", "lapsed"} /\ hold[w].item = i
    <2>1. /\ hold[w].item \in Items /\ status[hold[w].item] \in {"claimed", "lapsed"}
          /\ leases' = leases /\ status' = [status EXCEPT ![hold[w].item] = outcome]
        BY <1>3 DEF Fenced, Report
    <2>2. outcome \in {"succeeded", "failed", "retrying"}
        BY DEF Outcomes
    <2> QED BY <2>1, <2>2 DEF TypeOK
<1>4. CASE UNCHANGED vars
    BY <1>4 DEF vars
<1>5. ASSUME NEW w \in Workers, Abandon(w) PROVE leases' = leases /\ status' = status
    BY <1>5 DEF Abandon
<1> QED BY <1>1, <1>2, <1>3, <1>4, <1>5 DEF Next

\* A claimed item comes to an outcome only by the report of the one worker that
\* has its latest lease (_require_claim).
THEOREM QueueClosesByLatestLease == Spec => ClosedByLatestLease
<1> DEFINE Closed == \A i \in Items :
          (status[i] \in {"claimed", "lapsed"} /\ status'[i] \notin {"claimed", "lapsed"}) =>
              \E w \in Workers :
                  /\ hold[w] = [item |-> i, lease |-> leases[i]] /\ hold'[w] = Idle
                  /\ \A v \in Workers \ {w} : hold'[v] = hold[v] /\ hold[v] # hold[w]
<1>1. TypeOK /\ Fenced /\ [Next]_vars => Closed
    <2> SUFFICES ASSUME TypeOK, Fenced, [Next]_vars, NEW i \in Items,
                        status[i] \in {"claimed", "lapsed"},
                        status'[i] \notin {"claimed", "lapsed"}
                 PROVE  \E w \in Workers :
                            /\ hold[w] = [item |-> i, lease |-> leases[i]] /\ hold'[w] = Idle
                            /\ \A v \in Workers \ {w} : hold'[v] = hold[v] /\ hold[v] # hold[w]
        OBVIOUS
    <2>1. PICK w \in Workers, outcome \in Outcomes : Report(w, outcome) /\ hold[w].item = i
        BY ItemSteps
    <2>2. hold[w] = [item |-> i, lease |-> leases[i]] /\ hold'[w] = Idle
        BY <2>1 DEF TypeOK, Report
    <2>3. \A v \in Workers \ {w} : hold'[v] = hold[v] /\ hold[v] # hold[w]
        BY <2>1 DEF TypeOK, Fenced, Report
    <2> QED BY <2>2, <2>3
<1> HIDE DEF Closed
<1>2. Spec => [][Closed]_vars
    BY <1>1, QueueFenced, PTL DEF Spec
<1> QED BY <1>2 DEF Closed, ClosedByLatestLease

\* A succeeded item is left alone, and what failed for good is attempted again
\* only after it was reopened (claim, retry).
THEOREM QueueSuccessIsFinal == Spec => SuccessIsFinal
<1> DEFINE Final == \A i \in Items :
          /\ status[i] = "succeeded" => status'[i] = "succeeded" /\ leases'[i] = leases[i]
          /\ status[i] = "failed" =>
                leases'[i] = leases[i] /\ status'[i] \in {"failed", "pending"}
<1>1. TypeOK /\ Fenced /\ [Next]_vars => Final
    BY ItemSteps
<1> HIDE DEF Final
<1>2. Spec => [][Final]_vars
    BY <1>1, QueueFenced, PTL DEF Spec
<1> QED BY <1>2 DEF Final, SuccessIsFinal

\* Leases are granted one at a time, and none over a lease that is live (the
\* WHERE clause of claim_next).
THEOREM QueueLeasesOneAtATime == Spec => OneLeaseAtATime
<1> DEFINE OneByOne == \A i \in Items : leases'[i] # leases[i] =>
          /\ leases'[i] = leases[i] + 1
          /\ status[i] \in {"pending", "lapsed", "retrying"} /\ status'[i] = "claimed"
<1>1. TypeOK /\ Fenced /\ [Next]_vars => OneByOne
    BY ItemSteps
<1> HIDE DEF OneByOne
<1>2. Spec => [][OneByOne]_vars
    BY <1>1, QueueFenced, PTL DEF Spec
<1> QED BY <1>2 DEF OneByOne, OneLeaseAtATime
=============================================================================
