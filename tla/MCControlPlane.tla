--------------------------- MODULE MCControlPlane ---------------------------
(***************************************************************************)
(* Budgets, external executions, request dispatch, service accounts, the   *)
(* clients' calls and the readiness alerts under two evaluators: what      *)
(* concurrent calls of the API and concurrent workers may never leave      *)
(* behind, checked in one run.  The first state picks one of the           *)
(* components, which then runs against its own environment while the       *)
(* others stay in their initial states: the run is the union of the        *)
(* components' runs, not their product.                                    *)
(***************************************************************************)
EXTENDS TaskBudget, ExternalExecution, MCRequestDispatch, ServiceAccounts, Interfaces,
        WorkerReadiness

CONSTANTS t1

\* The component that runs.
VARIABLE part

parts == {"budgets", "executions", "dispatch", "accounts", "interfaces", "readiness"}
allVars == <<part, vars, exVars, dpVars, acVars, ifVars, rdVars>>

-----------------------------------------------------------------------------
(* Instances.                                                              *)

\* Limits at which one, both or neither of the tasks can be reserved.
MCEstimate == [t \in Tasks |-> IF t = t1 THEN 2 ELSE 1]

\* An account whose first credential never expires and one whose does.
MCFirst == <<0, 2>>

\* The accounts of the three clients, as the README sets them up.
MCAccounts ==
    [jarvis |-> [permissions |-> {"project.read", "request.dispatch", "workflow.approve",
                                  "run.cancel", "workspace.manage", "scm.publish",
                                  "notification.manage"},
                 all |-> TRUE, projects |-> {"own"}],
     mcp |-> [permissions |-> {"project.read", "request.dispatch"},
              all |-> FALSE, projects |-> {"own"}],
     cli |-> [permissions |-> {"project.admin"}, all |-> TRUE, projects |-> {"own"}]]

\* The run is about accounts as the clients' documentation has them.
ASSUME MCDocumented == IfDocumented

-----------------------------------------------------------------------------
MCInit ==
    /\ part \in parts
    /\ Init /\ ExInit /\ DpInit /\ AcInit /\ IfInit /\ RdInit
    /\ part # "budgets" => \A l \in Limits : limit =< l
    /\ part # "dispatch" => dpBinding = 0
    /\ part # "interfaces" => ifToken = "none" /\ ifOwner = "own"

MCNext ==
    \/ part = "budgets" /\ Next /\ UNCHANGED <<part, exVars, dpVars, acVars, ifVars, rdVars>>
    \/ part = "executions" /\ ExNext /\ UNCHANGED <<part, vars, dpVars, acVars, ifVars, rdVars>>
    \/ part = "dispatch" /\ DpNext /\ UNCHANGED <<part, vars, exVars, acVars, ifVars, rdVars>>
    \/ part = "accounts" /\ AcNext /\ UNCHANGED <<part, vars, exVars, dpVars, ifVars, rdVars>>
    \/ part = "interfaces" /\ IfNext /\ UNCHANGED <<part, vars, exVars, dpVars, acVars, rdVars>>
    \/ part = "readiness" /\ RdNext /\ UNCHANGED <<part, vars, exVars, dpVars, acVars, ifVars>>

MCSpec == MCInit /\ [][MCNext]_allVars

\* Every component's rows, callers and receipts have their types.
ControlPlaneTypeOK ==
    /\ part \in parts
    /\ TypeOK /\ ExTypeOK /\ DpTypeOK /\ AcTypeOK /\ IfTypeOK /\ RdTypeOK
=============================================================================
