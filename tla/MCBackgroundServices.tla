------------------------ MODULE MCBackgroundServices ------------------------
(***************************************************************************)
(* The transactions on a request's rows, notification delivery, readiness  *)
(* alerts, the readiness monitor and workspace operations: what runs       *)
(* behind the API, checked in one run for what each must eventually do.    *)
(* The first state picks one of the components, which then runs against    *)
(* its own environment while the others stay in their initial states: the  *)
(* run is the union of the components' runs, not their product.            *)
(***************************************************************************)
EXTENDS RunLifecycle, NotificationDelivery, WorkerReadiness, ReadinessMonitor,
        WorkspaceOperation

CONSTANTS w1, w2

\* The component that runs.
VARIABLE part

parts == {"lifecycle", "notifications", "readiness", "monitor", "workspaces"}
allVars == <<part, vars, ntVars, rdVars, mnVars, wsVars>>

\* Two deliveries to two providers, of which one worker has one and no
\* automatic retries, and the other both and two attempts.
MCProvider == <<2, 1>>
MCSupported == [w \in NtWorkers |-> IF w = w1 THEN {1} ELSE {1, 2}]
MCLimit == [w \in NtWorkers |-> IF w = w1 THEN 1 ELSE 2]

\* A cleanup and an inspection of one workspace.
MCKinds == <<"cleanup", "inspect">>

MCInit ==
    /\ part \in parts
    /\ Init /\ NtInit /\ RdInit /\ MnInit /\ WsInit
    /\ part # "lifecycle" => run = "queued"

MCNext ==
    \/ part = "lifecycle" /\ Next /\ UNCHANGED <<part, ntVars, rdVars, mnVars, wsVars>>
    \/ part = "notifications" /\ NtNext /\ UNCHANGED <<part, vars, rdVars, mnVars, wsVars>>
    \/ part = "readiness" /\ RdNext /\ UNCHANGED <<part, vars, ntVars, mnVars, wsVars>>
    \/ part = "monitor" /\ MnNext /\ UNCHANGED <<part, vars, ntVars, rdVars, wsVars>>
    \/ part = "workspaces" /\ WsNext /\ UNCHANGED <<part, vars, ntVars, rdVars, mnVars>>

\* Each component's fairness, for the behaviours in which it runs.
MCFairness ==
    /\ \A c \in Clients :
          /\ SF_vars(part = "lifecycle" /\ Acquire(c))
          /\ WF_vars(part = "lifecycle" /\ tx[c].wants = <<>> /\ (Commit(c) \/ Rollback(c)))
    /\ WF_ntVars(part = "notifications" /\ NtTime)
    /\ \A w \in NtWorkers : WF_ntVars(part = "notifications" /\ NtStep(w))
    /\ \A m \in RdEvaluators : WF_rdVars(part = "readiness" /\ RdEvaluate(m))
    /\ \A i \in RdInstances : /\ WF_rdVars(part = "readiness" /\ RdHeartbeat(i))
                              /\ WF_rdVars(part = "readiness" /\ RdGrowStale(i))
    /\ \A m \in MnMonitors : WF_mnVars(part = "monitor" /\ MnStep(m))
    /\ \A w \in WsWorkers : WF_wsVars(part = "workspaces" /\ WsStep(w))
    /\ WF_wsVars(part = "workspaces" /\ \E o \in WsIds : WsLapse(o))

MCSpec == MCInit /\ [][MCNext]_allVars /\ MCFairness

\* Deliveries and workspace operations are claimed and reported by one protocol.
LeaseQueuesKept == NtKeepsLeaseQueue /\ WsKeepsLeaseQueue

\* Every component's rows, processes and queues have their types.
ServicesTypeOK == part \in parts /\ NtTypeOK /\ RdTypeOK /\ MnTypeOK /\ WsTypeOK
=============================================================================
