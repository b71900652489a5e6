--------------------------- MODULE MCConnections ----------------------------
(***************************************************************************)
(* What is sent over connections that break: publications to the code      *)
(* host, event streams to their clients, and catalog bundles to the        *)
(* control plane, checked in one run.  The first state picks one of the    *)
(* components, which then runs against its own environment while the       *)
(* others stay in their initial state: the run is the union of the         *)
(* components' runs, not their product.                                    *)
(***************************************************************************)
EXTENDS ScmPublication, EventStream, MCCatalogBundle, TLC

CONSTANTS w1, w2

\* The component that runs.
VARIABLE part

parts == {"publications", "events", "bundles"}
allVars == <<part, vars, esVars, cbVars>>

\* Two publishers of one scope that retry automatically with different limits.
MCLimits == (w1 :> 0) @@ (w2 :> 1)

-----------------------------------------------------------------------------
MCInit ==
    /\ part \in parts
    /\ Init /\ EsInit /\ CbInit
    /\ IF part = "publications" THEN status # "pending" /\ branch = 0 /\ owner # w1
                                ELSE status = "absent"
    /\ part # "bundles" => cbFile = [o \in CbOperators |-> CHOOSE f \in CbFiles[o] : TRUE]

MCNext ==
    \/ part = "publications" /\ Next /\ UNCHANGED <<part, esVars, cbVars>>
    \/ part = "events" /\ EsNext /\ UNCHANGED <<part, vars, cbVars>>
    \/ part = "bundles" /\ CbNext /\ UNCHANGED <<part, vars, esVars>>

\* Each component's fairness, for the behaviours in which it runs.
MCFairness ==
    /\ WF_vars(part = "publications" /\ Tick)
    /\ \A w \in Workers : WF_vars(part = "publications" /\ Step(w))
    /\ \A x \in EsWriters :
          WF_esVars(part = "events" /\ (EsCommitTransaction(x) \/ EsRollbackTransaction(x)))
    /\ \A c \in EsClients : /\ WF_esVars(part = "events" /\ EsConnect(c))
                            /\ WF_esVars(part = "events" /\ EsYield(c))
                            /\ WF_esVars(part = "events" /\ EsPoll(c))
                            /\ WF_esVars(part = "events" /\ EsReceive(c))
    /\ \A o \in CbOperators : /\ WF_cbVars(part = "bundles" /\ (CbCommand(o) \/ CbRetry(o)))
                              /\ WF_cbVars(part = "bundles" /\ CbDeliver(o))

MCSpec == MCInit /\ [][MCNext]_allVars /\ MCFairness

\* The ledger, the catalog, the clients and the messages have their types.
ClientsTypeOK == part \in parts /\ EsTypeOK /\ CbTypeOK
=============================================================================
