----------------------------- MODULE LeaseQueue -----------------------------
(***************************************************************************)
(* What the orchestrator's queues promise, whoever their workers are: an   *)
(* item is worked on under a lease, a lease may lapse and be granted anew, *)
(* and only the report of the latest lease counts.  The SCM publications,  *)
(* the notification deliveries and the workspace operations each implement *)
(* it (ScmPublication, NotificationDelivery and WorkspaceOperation say     *)
(* how); here there are no clocks, ledgers, providers or git commands.     *)
(***************************************************************************)
EXTENDS Integers

CONSTANTS
    Queue,    \* number of items
    Workers,  \* those who claim them
    Retries   \* may a failed item be attempted again?

VARIABLES
    status,   \* status[i]: where item i is
    leases,   \* leases[i]: how many leases of it were granted; the last one counts
    hold      \* hold[w]: the item and the lease worker w believes it has

vars == <<status, leases, hold>>

Items == 1..Queue

\* "retrying" is a failure that is due to be attempted again.
Statuses ==
    {"absent", "pending", "claimed", "lapsed", "retrying", "failed", "succeeded"}

Idle == [item |-> 0, lease |-> 0]

TypeOK ==
    /\ status \in [Items -> Statuses]
    /\ leases \in [Items -> Nat]
    /\ hold \in [Workers -> [item : Items \cup {0}, lease : Nat]]

\* Every lease somebody believes to have was granted, and to nobody else; the
\* latest one is believed in only while the item is claimed, lapsed or not.
Fenced ==
    /\ \A i \in Items :
          /\ status[i] = "absent" => leases[i] = 0
          /\ status[i] \in {"claimed", "lapsed", "retrying", "failed", "succeeded"} =>
                leases[i] > 0
    /\ \A w \in Workers : hold[w] # Idle =>
          /\ hold[w].item \in Items /\ hold[w].lease \in 1..leases[hold[w].item]
          /\ hold[w].lease = leases[hold[w].item] =>
                status[hold[w].item] \in {"claimed", "lapsed"}
          /\ \A v \in Workers : hold[v] = hold[w] => v = w

\* A queue may be taken over from a release that kept fewer records of it.
Init == TypeOK /\ Fenced

-----------------------------------------------------------------------------
Offer(i) ==
    /\ status[i] = "absent" /\ status' = [status EXCEPT ![i] = "pending"]
    /\ UNCHANGED <<leases, hold>>

Lapse(i) ==
    /\ status[i] = "claimed" /\ status' = [status EXCEPT ![i] = "lapsed"]
    /\ UNCHANGED <<leases, hold>>

\* Nobody's lease is live; the new one makes every earlier one worthless.
Grant(w, i) ==
    /\ hold[w] = Idle /\ status[i] \in {"pending", "lapsed", "retrying"}
    /\ status' = [status EXCEPT ![i] = "claimed"]
    /\ leases' = [leases EXCEPT ![i] = @ + 1]
    /\ hold' = [hold EXCEPT ![w] = [item |-> i, lease |-> leases[i] + 1]]

Outcomes == {"succeeded", "failed"} \cup (IF Retries THEN {"retrying"} ELSE {})

\* The report of the latest lease counts, even if that lease has lapsed.
Report(w, outcome) ==
    LET i == hold[w].item
    IN  /\ hold[w] # Idle /\ hold[w].lease = leases[i]
        /\ status' = [status EXCEPT ![i] = outcome]
        /\ hold' = [hold EXCEPT ![w] = Idle]
        /\ UNCHANGED leases

\* A worker is lost, or told that its lease is another's.
Abandon(w) ==
    /\ hold[w] # Idle /\ hold' = [hold EXCEPT ![w] = Idle]
    /\ UNCHANGED <<status, leases>>

Cancel(i) ==
    /\ status[i] = "retrying" /\ status' = [status EXCEPT ![i] = "failed"]
    /\ UNCHANGED <<leases, hold>>

Reopen(i) ==
    /\ Retries /\ status[i] \in {"failed", "retrying"}
    /\ status' = [status EXCEPT ![i] = "pending"]
    /\ UNCHANGED <<leases, hold>>

Next ==
    \/ \E i \in Items : Offer(i) \/ Lapse(i) \/ Cancel(i) \/ Reopen(i)
    \/ \E w \in Workers :
          \/ \E i \in Items : Grant(w, i)
          \/ \E outcome \in Outcomes : Report(w, outcome)
          \/ Abandon(w)

Spec == Init /\ [][Next]_vars

-----------------------------------------------------------------------------
\* At most one worker has the latest lease of an item.
OneHolder ==
    \A i \in Items : \A v, w \in Workers :
        (/\ hold[v].item = i /\ hold[v].lease = leases[i]
         /\ hold[w].item = i /\ hold[w].lease = leases[i]) => v = w

\* A claimed item is brought to an outcome by the one worker that has its
\* latest lease, in the step in which that worker gives the lease up; a worker
\* whose lease was granted anew never brings anything to an outcome.
ClosedByLatestLease ==
    [][\A i \in Items :
          (status[i] \in {"claimed", "lapsed"} /\ status'[i] \notin {"claimed", "lapsed"}) =>
              \E w \in Workers :
                  /\ hold[w] = [item |-> i, lease |-> leases[i]] /\ hold'[w] = Idle
                  /\ \A v \in Workers \ {w} : hold'[v] = hold[v] /\ hold[v] # hold[w]]_vars

\* Success is the end: a succeeded item is never claimed again, and what failed
\* for good is attempted again only after somebody reopened it.
SuccessIsFinal ==
    [][\A i \in Items :
          /\ status[i] = "succeeded" => status'[i] = "succeeded" /\ leases'[i] = leases[i]
          /\ status[i] = "failed" =>
                leases'[i] = leases[i] /\ status'[i] \in {"failed", "pending"}]_vars

\* A lease is granted only when the one before it has been reported, or has
\* lapsed, or the item was reopened; leases are never taken back.
OneLeaseAtATime ==
    [][\A i \in Items : leases'[i] # leases[i] =>
          /\ leases'[i] = leases[i] + 1
          /\ status[i] \in {"pending", "lapsed", "retrying"} /\ status'[i] = "claimed"]_vars
=============================================================================
