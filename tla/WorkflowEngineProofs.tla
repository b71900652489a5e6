------------------------ MODULE WorkflowEngineProofs ------------------------
(***************************************************************************)
(* Machine-checked proofs about WorkflowEngine, for every valid workflow   *)
(* definition, lease duration and clock lag.                               *)
(***************************************************************************)
EXTENDS WorkflowEngine, FiniteSetTheorems, SequenceTheorems, TLAPS

(* Routing selects nodes of the definition (engine.py, _select_targets). *)
LEMMA TargetsAreNodes ==
    ASSUME NEW n, NEW o, NEW output
    PROVE  SelectTargets(n, o, output) \subseteq Nodes
<1>1. Edges \subseteq [source : Nodes, outcome : NodeOutcomes,
                       target : Nodes, condition : Outputs]
  BY DefinitionAssumption DEF ValidDefinition, ValidEdges
<1>2. \A e \in Edges : e.target \in Nodes
  BY <1>1
<1> QED
  BY <1>2 DEF SelectTargets, RouteEdges

(* A sorted listing of selected nodes is a list of nodes. *)
LEMMA ListingIsSeq ==
    ASSUME NEW S \in SUBSET Nodes, NEW s \in SortedListings(S)
    PROVE  s \in Seq(Nodes)
<1>1. IsFiniteSet(S)
  BY FS_Subset, DefinitionAssumption DEF ValidDefinition, ValidNodes
<1>2. Cardinality(S) \in Nat
  BY <1>1, FS_CardinalityType
<1>3. s \in [1 .. Cardinality(S) -> Nodes]
  BY DEF SortedListings
<1> QED
  BY <1>2, <1>3

(* Ending a workflow keeps the types. *)
LEMMA FinishType ==
    ASSUME NEW status \in Terminal,
           NEW ns \in [Nodes -> NodeStatuses],
           NEW ls \in [Nodes -> Leases],
           Finish(status, ns, ls)
    PROVE  /\ wfStatus' \in WorkflowStatuses
           /\ nodeStatus' \in [Nodes -> NodeStatuses]
           /\ lease' \in [Nodes -> Leases]
           /\ todo' \in Seq(Nodes)
<1>1. NoLease \in Leases
  BY LeaseAssumption DEF NoLease, Leases
<1> QED
  BY <1>1 DEF Finish, CancelledStatuses, CancelledLeases, Terminal, WorkflowStatuses, NodeStatuses

(* So does routing (engine.py, _route). *)
LEMMA RouteType ==
    ASSUME NEW n \in Nodes, NEW o, NEW output,
           NEW status \in WorkflowStatuses,
           NEW ns \in [Nodes -> NodeStatuses],
           NEW ls \in [Nodes -> Leases],
           NEW rest \in Seq(Nodes),
           Route(n, o, output, status, ns, ls, rest)
    PROVE  /\ wfStatus' \in WorkflowStatuses
           /\ nodeStatus' \in [Nodes -> NodeStatuses]
           /\ lease' \in [Nodes -> Leases]
           /\ todo' \in Seq(Nodes)
<1> DEFINE targets == SelectTargets(n, o, output)
<1>1. CASE Finish("failed", ns, ls)
  BY <1>1, FinishType DEF Terminal
<1>2. CASE /\ targets # {}
           /\ \E s \in SortedListings(targets) : todo' = s \o rest
           /\ wfStatus' = status
           /\ nodeStatus' = ns
           /\ lease' = ls
  <2>1. PICK s \in SortedListings(targets) : todo' = s \o rest
    BY <1>2
  <2>2. s \in Seq(Nodes)
    BY ListingIsSeq, TargetsAreNodes
  <2>3. todo' \in Seq(Nodes)
    BY <2>1, <2>2
  <2> QED
    BY <1>2, <2>3
<1> QED
  BY <1>1, <1>2 DEF Route

(* The typing of the constants that the proofs below use. *)
LEMMA ConstantTypes ==
    /\ Entry \in Nodes
    /\ Kind \in [Nodes -> NodeKinds]
    /\ MaxAttempts \in [Nodes -> Nat \ {0}]
    /\ MaxVisits \in [Nodes -> Nat \ {0}]
    /\ TerminalStatus \in [Nodes -> {"succeeded", "failed"}]
    /\ NoLease \in Leases
<1>1. ValidNodes /\ ValidShape
  BY DefinitionAssumption DEF ValidDefinition
<1>2. Entry \in Nodes
  BY <1>1, Zenon DEF ValidShape
<1>3. NoLease \in Leases
  BY LeaseAssumption DEF NoLease, Leases
<1> QED
  BY <1>1, <1>2, <1>3 DEF ValidNodes

(* complete_task and _handle_task_failure keep the types. *)
LEMMA CompleteNodeType ==
    ASSUME TypeOK, NEW n \in Nodes, NEW v \in Nat, NEW o \in NodeOutcomes, NEW output,
           CompleteNode(n, v, o, output)
    PROVE  TypeOK'
<1> DEFINE ns == [nodeStatus EXCEPT ![n] = "succeeded"]
           ls == [lease EXCEPT ![n] = NoLease]
<1>1. /\ ns \in [Nodes -> NodeStatuses]
      /\ ls \in [Nodes -> Leases]
      /\ wfStatus \in WorkflowStatuses
      /\ <<>> \in Seq(Nodes)
  BY ConstantTypes DEF TypeOK, NodeStatuses
<1>2. Route(n, o, output, wfStatus, ns, ls, <<>>)
  BY DEF CompleteNode
<1>3. /\ wfStatus' \in WorkflowStatuses
      /\ nodeStatus' \in [Nodes -> NodeStatuses]
      /\ lease' \in [Nodes -> Leases]
      /\ todo' \in Seq(Nodes)
  BY <1>1, <1>2, RouteType
<1>4. artifacts' \in [Nodes -> Seq(Nat)] /\ outcome' \in [Nodes -> NodeOutcomes \union {"none"}]
  BY DEF CompleteNode, TypeOK
<1> QED
  BY <1>3, <1>4 DEF CompleteNode, TypeOK

LEMMA FailNodeType ==
    ASSUME TypeOK, NEW n \in Nodes, FailNode(n)
    PROVE  TypeOK'
<1> DEFINE ns == [nodeStatus EXCEPT ![n] = "failed"]
           ls == [lease EXCEPT ![n] = NoLease]
<1>1. /\ ns \in [Nodes -> NodeStatuses]
      /\ ls \in [Nodes -> Leases]
      /\ [nodeStatus EXCEPT ![n] = "ready"] \in [Nodes -> NodeStatuses]
  BY ConstantTypes DEF TypeOK, NodeStatuses
<1>2. CASE Finish("failed", ns, ls)
  <2>1. /\ wfStatus' \in WorkflowStatuses
        /\ nodeStatus' \in [Nodes -> NodeStatuses]
        /\ lease' \in [Nodes -> Leases]
        /\ todo' \in Seq(Nodes)
    BY <1>1, <1>2, FinishType DEF Terminal
  <2> QED
    BY <2>1 DEF FailNode, TypeOK
<1>3. CASE /\ nodeStatus' = [nodeStatus EXCEPT ![n] = "ready"]
           /\ lease' = [lease EXCEPT ![n] = NoLease]
           /\ UNCHANGED <<wfStatus, todo>>
  BY <1>1, <1>3 DEF FailNode, TypeOK
<1> QED
  BY <1>2, <1>3 DEF FailNode

(* _activate keeps the types, whatever the node's kind. *)
LEMMA ActivateType ==
    ASSUME TypeOK, Activate
    PROVE  TypeOK'
<1> DEFINE n == Head(todo)
<1>1. n \in Nodes /\ Tail(todo) \in Seq(Nodes)
  BY DEF Activate, TypeOK
<1> HIDE DEF n
<1> DEFINE ns == [nodeStatus EXCEPT ![n] = "succeeded"]
           ls == [lease EXCEPT ![n] = NoLease]
<1>2. /\ ns \in [Nodes -> NodeStatuses]
      /\ ls \in [Nodes -> Leases]
      /\ [nodeStatus EXCEPT ![n] = "ready"] \in [Nodes -> NodeStatuses]
      /\ [nodeStatus EXCEPT ![n] = "awaiting_approval"] \in [Nodes -> NodeStatuses]
  BY <1>1, ConstantTypes DEF TypeOK, NodeStatuses
<1>3. ASSUME NEW o \in {"none", "success"}, EnterNode(n, o)
      PROVE  /\ visit' \in [Nodes -> Nat]
             /\ attempt' \in [Nodes -> Nat]
             /\ outcome' \in [Nodes -> NodeOutcomes \union {"none"}]
  <2>1. visit' = [visit EXCEPT ![n] = visit[n] + 1] /\ visit \in [Nodes -> Nat]
    BY <1>3 DEF EnterNode, TypeOK
  <2>2. attempt' = [attempt EXCEPT ![n] = 0] /\ attempt \in [Nodes -> Nat]
    BY <1>3 DEF EnterNode, TypeOK
  <2>3. /\ outcome' = [outcome EXCEPT ![n] = o]
        /\ outcome \in [Nodes -> NodeOutcomes \union {"none"}]
    BY <1>3 DEF EnterNode, TypeOK
  <2>4. o \in NodeOutcomes \union {"none"}
    BY DEF NodeOutcomes
  <2> QED
    BY <1>1, <2>1, <2>2, <2>3, <2>4
<1>4. UNCHANGED <<artifacts, claims, issued, beats>>
  BY DEF Activate
<1>5. CASE SkipJoin(n)
  BY <1>1, <1>4, <1>5 DEF SkipJoin, TypeOK, nodeVars
<1>6. CASE ExceedVisits(n)
  <2>1. /\ wfStatus' \in WorkflowStatuses
        /\ nodeStatus' \in [Nodes -> NodeStatuses]
        /\ lease' \in [Nodes -> Leases]
        /\ todo' \in Seq(Nodes)
    BY <1>6, FinishType DEF ExceedVisits, TypeOK, Terminal
  <2> QED
    BY <2>1, <1>4, <1>6 DEF ExceedVisits, TypeOK
<1>7. CASE EnterTask(n)
  BY <1>1, <1>2, <1>3, <1>4, <1>7 DEF EnterTask, TypeOK
<1>8. CASE EnterApproval(n)
  BY <1>1, <1>2, <1>3, <1>4, <1>8 DEF EnterApproval, TypeOK, WorkflowStatuses
<1>9. CASE EnterGateway(n)
  <2>1. /\ wfStatus' \in WorkflowStatuses
        /\ nodeStatus' \in [Nodes -> NodeStatuses]
        /\ lease' \in [Nodes -> Leases]
        /\ todo' \in Seq(Nodes)
    BY <1>1, <1>2, <1>9, RouteType DEF EnterGateway, TypeOK
  <2> QED
    BY <1>3, <1>4, <1>9, <2>1 DEF EnterGateway, TypeOK
<1>10. CASE EnterTerminal(n)
  <2>1. TerminalStatus[n] \in Terminal
    BY <1>1, ConstantTypes DEF Terminal
  <2>2. /\ wfStatus' \in WorkflowStatuses
        /\ nodeStatus' \in [Nodes -> NodeStatuses]
        /\ lease' \in [Nodes -> Leases]
        /\ todo' \in Seq(Nodes)
    BY <1>2, <1>10, <2>1, FinishType DEF EnterTerminal
  <2> QED
    BY <1>3, <1>4, <1>10, <2>2 DEF EnterTerminal, TypeOK
<1> QED
  BY <1>5, <1>6, <1>7, <1>8, <1>9, <1>10 DEF Activate, n

LEMMA TypeInit == Init => TypeOK
BY ConstantTypes, LeaseAssumption DEF Init, TypeOK, WorkflowStatuses, NodeStatuses

LEMMA TypeNext == TypeOK /\ [Next]_vars => TypeOK'
<1> SUFFICES ASSUME TypeOK, [Next]_vars PROVE TypeOK'
  OBVIOUS
<1> USE LeaseAssumption
<1>1. CASE Start
  <2>1. <<Entry>> \in Seq(Nodes)
    BY ConstantTypes
  <2> QED
    BY <1>1, <2>1 DEF Start, TypeOK, nodeVars, WorkflowStatuses
<1>2. CASE Activate
  BY <1>2, ActivateType
<1>3. ASSUME NEW n \in Nodes, NEW lag \in 0 .. MaxLag, ClaimNext(n, lag)
      PROVE  TypeOK'
  <2>1. issued' \in Nat /\ visit[n] \in Nat /\ attempt'[n] \in Nat
    BY <1>3 DEF ClaimNext, BeginNode, TypeOK
  <2>2. lease' \in [Nodes -> Leases]
    BY <1>3, <2>1, SMTT(30) DEF ClaimNext, TypeOK, Leases
  <2>3. claims' \subseteq Claims
    <3>1. [node |-> n, token |-> issued', visit |-> visit[n], attempt |-> attempt'[n]] \in Claims
      BY <2>1 DEF Claims
    <3> QED
      BY <1>3, <3>1, Zenon DEF ClaimNext, TypeOK
  <2>4. beats' \in [Nodes -> 0 .. MaxBeats]
    BY <1>3 DEF ClaimNext, TypeOK
  <2> QED
    BY <1>3, <2>1, <2>2, <2>3, <2>4 DEF ClaimNext, BeginNode, TypeOK, NodeStatuses
<1>4. ASSUME NEW n \in Nodes, RecoverExpired(n)
      PROVE  TypeOK'
  BY <1>4, FailNodeType DEF RecoverExpired
<1>5. ASSUME NEW c \in claims, NEW lag \in 0 .. MaxLag, Heartbeat(c, lag)
      PROVE  TypeOK'
  <2>1. c.node \in Nodes
    BY DEF TypeOK, Claims
  <2>2. lease' \in [Nodes -> Leases]
    <3>1. [token |-> c.token, left |-> LeaseSeconds - lag] \in Leases
      BY DEF TypeOK, Leases, Claims
    <3> QED
      BY <1>5, <2>1, <3>1 DEF Heartbeat, TypeOK
  <2>3. beats' \in [Nodes -> 0 .. MaxBeats]
    <3>1. beats[c.node] - 1 \in 0 .. MaxBeats
      BY <1>5, <2>1 DEF Heartbeat, TypeOK
    <3> QED
      BY <1>5, <2>1, <3>1 DEF Heartbeat, TypeOK
  <2> QED
    BY <1>5, <2>2, <2>3 DEF Heartbeat, TypeOK
<1>6. ASSUME NEW c \in claims, NEW lag \in 0 .. MaxLag, Fail(c, lag)
      PROVE  TypeOK'
  <2>1. c.node \in Nodes
    BY DEF TypeOK, Claims
  <2> QED
    BY <1>6, <2>1, FailNodeType DEF Fail
<1>7. ASSUME NEW c \in claims, NEW lag \in 0 .. MaxLag,
             NEW o \in {"success", "failure"}, NEW output \in Outputs,
             Complete(c, lag, o, output)
      PROVE  TypeOK'
  <2>1. c.node \in Nodes /\ c.visit \in Nat /\ o \in NodeOutcomes
    BY DEF TypeOK, Claims, NodeOutcomes
  <2> QED
    BY <1>7, <2>1, CompleteNodeType DEF Complete
<1>8. ASSUME NEW n \in Nodes, BeginTask(n)
      PROVE  TypeOK'
  BY <1>8 DEF BeginTask, BeginNode, TypeOK, NodeStatuses
<1>9. ASSUME NEW n \in Nodes, FailTask(n)
      PROVE  TypeOK'
  BY <1>9, FailNodeType DEF FailTask
<1>10. ASSUME NEW n \in Nodes, NEW o \in {"success", "failure"}, NEW output \in Outputs,
              CompleteTask(n, o, output)
       PROVE  TypeOK'
  <2>1. visit[n] \in Nat /\ o \in NodeOutcomes
    BY DEF TypeOK, NodeOutcomes
  <2> QED
    BY <1>10, <2>1, CompleteNodeType DEF CompleteTask
<1>11. ASSUME NEW n \in Nodes, NEW o \in {"approved", "rejected"}, ResolveApproval(n, o)
       PROVE  TypeOK'
  <2> DEFINE ns == [nodeStatus EXCEPT ![n] = "succeeded"]
  <2>1. /\ ns \in [Nodes -> NodeStatuses]
        /\ lease \in [Nodes -> Leases]
        /\ "running" \in WorkflowStatuses
        /\ <<>> \in Seq(Nodes)
    BY DEF TypeOK, NodeStatuses, WorkflowStatuses
  <2>2. Route(n, o, NoValue, "running", ns, lease, <<>>)
    BY <1>11 DEF ResolveApproval
  <2>3. /\ wfStatus' \in WorkflowStatuses
        /\ nodeStatus' \in [Nodes -> NodeStatuses]
        /\ lease' \in [Nodes -> Leases]
        /\ todo' \in Seq(Nodes)
    BY <2>1, <2>2, RouteType
  <2> QED
    BY <1>11, <2>3 DEF ResolveApproval, TypeOK, NodeOutcomes
<1>12. CASE Cancel
  <2>1. /\ wfStatus' \in WorkflowStatuses
        /\ nodeStatus' \in [Nodes -> NodeStatuses]
        /\ lease' \in [Nodes -> Leases]
        /\ todo' \in Seq(Nodes)
    BY <1>12, FinishType DEF Cancel, Terminal, TypeOK
  <2> QED
    BY <1>12, <2>1 DEF Cancel, TypeOK
<1>13. CASE Tick
  <2>1. ASSUME NEW n \in Nodes PROVE lease'[n] \in Leases
    <3>1. PICK l \in Leases : l = lease[n]
      BY DEF TypeOK
    <3>2. l.left > 0 - MaxLag => [token |-> l.token, left |-> l.left - 1] \in Leases
      BY DEF Leases
    <3> QED
      BY <1>13, <3>1, <3>2 DEF Tick
  <2>2. lease' \in [Nodes -> Leases]
    BY <1>13, <2>1 DEF Tick
  <2> QED
    BY <1>13, <2>2 DEF Tick, TypeOK
<1>14. CASE UNCHANGED vars
  BY <1>14 DEF vars, TypeOK
<1> QED
  BY <1>1, <1>2, <1>3, <1>4, <1>5, <1>6, <1>7, <1>8, <1>9, <1>10, <1>11, <1>12,
     <1>13, <1>14 DEF Next, ClaimSome, RecoverSome

(* Type correctness of the execution aggregate, the claims and the routing *)
(* list, for every valid definition.                                       *)
THEOREM TypeCorrect == Spec => []TypeOK
BY TypeInit, TypeNext, PTL DEF Spec

-----------------------------------------------------------------------------
(***************************************************************************)
(* The inductive invariant.  Its first five parts speak of node statuses,  *)
(* leases and counters as arguments, because a routing operation writes    *)
(* them and may then cancel the active nodes: each operation shows the     *)
(* parts for what it wrote, and CancelKeeps adds the cancellation.         *)
(***************************************************************************)

(* A lease is on a running node, its token was issued, and the one claim   *)
(* with that token is for the current visit and attempt.                   *)
LeasePart(ns, ls, vs, at, cl, is) ==
    /\ \A n \in Nodes : ns[n] # "running" => ls[n] = NoLease
    /\ \A n \in Nodes : ls[n].token <= is
    /\ \A m, n \in Nodes : ls[m].token = ls[n].token /\ ls[n].token # 0 => m = n
    /\ \A c \in cl : c.token \in 1 .. is
    /\ \A c \in cl : ls[c.node].token = c.token =>
          c.visit = vs[c.node] /\ c.attempt = at[c.node]

(* Claims are behind the counters of their node, and distinct. *)
ClaimPart(vs, at, cl) ==
    /\ \A c \in cl :
          /\ c.visit >= 1
          /\ c.attempt \in 1 .. MaxAttempts[c.node]
          /\ \/ c.visit < vs[c.node]
             \/ c.visit = vs[c.node] /\ c.attempt <= at[c.node]
    /\ \A c, d \in cl :
          c.node = d.node /\ c.visit = d.visit /\ c.attempt = d.attempt => c = d

(* The artifact of the current visit exists only once the node succeeded.  *)
ArtifactPart(ns, vs, ar) ==
    \A n \in Nodes :
        /\ \A i \in 1 .. Len(ar[n]) :
              ar[n][i] <= vs[n] /\ (ar[n][i] = vs[n] => ns[n] = "succeeded")
        /\ \A i, j \in 1 .. Len(ar[n]) : i < j => ar[n][i] < ar[n][j]

LimitPart(vs, at) ==
    \A n \in Nodes : vs[n] <= MaxVisits[n] /\ at[n] <= MaxAttempts[n]

(* Pending means never visited, only approvals await approval, only tasks  *)
(* run, and a join is visited after its sources.                           *)
VisitPart(ns, vs) ==
    /\ \A n \in Nodes : ns[n] = "pending" <=> vs[n] = 0
    /\ \A n \in Nodes : ns[n] = "awaiting_approval" => Kind[n] = "approval"
    /\ \A n \in Nodes : ns[n] \in {"ready", "running"} => Kind[n] = "task"
    /\ \A n \in Nodes : Kind[n] = "join" /\ vs[n] > 0 =>
          \A m \in IncomingSources(n) : vs[m] > 0

Core(ns, ls, vs, at, ar, cl, is) ==
    /\ LeasePart(ns, ls, vs, at, cl, is)
    /\ ClaimPart(vs, at, cl)
    /\ ArtifactPart(ns, vs, ar)
    /\ LimitPart(vs, at)
    /\ VisitPart(ns, vs)

IInv ==
    /\ TypeOK
    /\ Core(nodeStatus, lease, visit, attempt, artifacts, claims, issued)
    /\ TerminalQuiescent
    /\ ApprovalExists

(* Cancelling the active nodes keeps every part (_cancel_active_nodes). *)
LEMMA CancelKeeps ==
    ASSUME NEW ns \in [Nodes -> NodeStatuses], NEW ls \in [Nodes -> Leases],
           NEW vs \in [Nodes -> Nat], NEW at \in [Nodes -> Nat],
           NEW ar \in [Nodes -> Seq(Nat)], NEW cl \in SUBSET Claims, NEW is \in Nat,
           Core(ns, ls, vs, at, ar, cl, is)
    PROVE  Core(CancelledStatuses(ns), CancelledLeases(ns, ls), vs, at, ar, cl, is)
<1> DEFINE cs == CancelledStatuses(ns)
           cls == CancelledLeases(ns, ls)
<1>1. \A n \in Nodes : /\ cs[n] = IF ns[n] \in Active THEN "cancelled" ELSE ns[n]
                       /\ cls[n] = IF ns[n] \in Active THEN NoLease ELSE ls[n]
  BY DEF CancelledStatuses, CancelledLeases
<1>2. \A n \in Nodes : cls[n] = NoLease
  BY <1>1 DEF Core, LeasePart, Active
<1>3. NoLease.token = 0
  BY DEF NoLease
<1> HIDE DEF cs, cls
<1>4. \A c \in cl : c.node \in Nodes
  BY DEF Claims
<1>5. LeasePart(cs, cls, vs, at, cl, is)
  BY <1>2, <1>3, <1>4 DEF Core, LeasePart
<1>6. ArtifactPart(cs, vs, ar)
  BY <1>1 DEF Core, ArtifactPart, Active
<1>7. VisitPart(cs, vs)
  BY <1>1 DEF Core, VisitPart, Active
<1> QED
  BY <1>5, <1>6, <1>7 DEF Core, cs, cls

(* Ending or routing from a state that has the parts gives one that has    *)
(* them; in the first case the workflow is quiescent.                      *)
LEMMA FinishKeeps ==
    ASSUME NEW ns \in [Nodes -> NodeStatuses], NEW ls \in [Nodes -> Leases],
           NEW status \in Terminal, TypeOK',
           Core(ns, ls, visit', attempt', artifacts', claims', issued'),
           Finish(status, ns, ls)
    PROVE  IInv'
<1>1. Core(CancelledStatuses(ns), CancelledLeases(ns, ls),
           visit', attempt', artifacts', claims', issued')
  BY CancelKeeps DEF TypeOK
<1>2. Core(nodeStatus, lease, visit, attempt, artifacts, claims, issued)'
  BY <1>1 DEF Finish
<1>3. \A n \in Nodes : nodeStatus'[n] \notin Active /\ lease'[n] = NoLease
  <2>1. \A n \in Nodes : nodeStatus'[n] \notin Active
    BY DEF Finish, CancelledStatuses, Active
  <2>2. \A n \in Nodes : lease'[n] = NoLease
    BY <2>1, <1>2 DEF Core, LeasePart, Active
  <2> QED
    BY <2>1, <2>2
<1>4. TerminalQuiescent'
  BY <1>3 DEF TerminalQuiescent, Finish, Committed
<1>5. ApprovalExists'
  BY DEF ApprovalExists, Finish, Terminal
<1> QED
  BY <1>2, <1>4, <1>5 DEF IInv

LEMMA RouteKeeps ==
    ASSUME NEW n, NEW o, NEW output, NEW rest,
           NEW ns \in [Nodes -> NodeStatuses], NEW ls \in [Nodes -> Leases],
           NEW status \in WorkflowStatuses \ Terminal, TypeOK',
           Core(ns, ls, visit', attempt', artifacts', claims', issued'),
           status = "awaiting_approval" => \E m \in Nodes : ns[m] = "awaiting_approval",
           Route(n, o, output, status, ns, ls, rest)
    PROVE  IInv'
<1>1. CASE Finish("failed", ns, ls)
  BY <1>1, FinishKeeps DEF Terminal
<1>2. CASE wfStatus' = status /\ nodeStatus' = ns /\ lease' = ls
  BY <1>2 DEF IInv, TerminalQuiescent, ApprovalExists
<1> QED
  BY <1>1, <1>2 DEF Route

(* Taking the lease off a node that stops running (_clear_lease). *)
LEMMA ClearLeaseKeeps ==
    ASSUME IInv, NEW n \in Nodes, NEW x, x # "running"
    PROVE  LeasePart([nodeStatus EXCEPT ![n] = x], [lease EXCEPT ![n] = NoLease],
                     visit, attempt, claims, issued)
<1> DEFINE ns == [nodeStatus EXCEPT ![n] = x]
           ls == [lease EXCEPT ![n] = NoLease]
<1>1. LeasePart(nodeStatus, lease, visit, attempt, claims, issued)
  BY DEF IInv, Core
<1>2. \A m \in Nodes : /\ ls[m] = IF m = n THEN NoLease ELSE lease[m]
                       /\ ns[m] = IF m = n THEN x ELSE nodeStatus[m]
  BY DEF IInv, TypeOK
<1>3. NoLease.token = 0 /\ issued \in Nat
  BY DEF NoLease, IInv, TypeOK
<1>4. \A c \in claims : c.node \in Nodes
  BY DEF IInv, TypeOK, Claims
<1> HIDE DEF ns, ls
<1>5. \A m \in Nodes : ns[m] # "running" => ls[m] = NoLease
  BY <1>1, <1>2 DEF LeasePart
<1>6. \A m \in Nodes : ls[m].token <= issued
  BY <1>1, <1>2, <1>3 DEF LeasePart
<1>7. \A k, m \in Nodes : ls[k].token = ls[m].token /\ ls[m].token # 0 => k = m
  BY <1>1, <1>2, <1>3 DEF LeasePart
<1>8. \A c \in claims : c.token \in 1 .. issued
  BY <1>1 DEF LeasePart
<1>9. \A c \in claims : ls[c.node].token = c.token =>
         c.visit = visit[c.node] /\ c.attempt = attempt[c.node]
  BY <1>1, <1>2, <1>3, <1>4, <1>8 DEF LeasePart
<1> QED
  BY <1>5, <1>6, <1>7, <1>8, <1>9 DEF LeasePart, ns, ls

(* An accepted completion, from a worker or the API, for the current visit. *)
LEMMA CompleteKeeps ==
    ASSUME IInv, TypeOK', NEW n \in Nodes, NEW o, NEW output,
           nodeStatus[n] = "running",
           CompleteNode(n, visit[n], o, output)
    PROVE  IInv'
<1> DEFINE ns == [nodeStatus EXCEPT ![n] = "succeeded"]
           ls == [lease EXCEPT ![n] = NoLease]
<1>1. UNCHANGED <<visit, attempt, claims, issued>>
  BY DEF CompleteNode
<1>2. ns \in [Nodes -> NodeStatuses] /\ ls \in [Nodes -> Leases]
  BY ConstantTypes DEF IInv, TypeOK, NodeStatuses
<1>3. wfStatus \in WorkflowStatuses \ Terminal
  BY DEF IInv, TypeOK, TerminalQuiescent, Active
<1>4. LeasePart(ns, ls, visit, attempt, claims, issued)
  BY ClearLeaseKeeps
<1>5. ArtifactPart(ns, visit, artifacts')
  <2> DEFINE new == Append(artifacts[n], visit[n])
  <2>1. artifacts' = [artifacts EXCEPT ![n] = new]
    BY DEF CompleteNode
  <2>2. artifacts[n] \in Seq(Nat) /\ visit[n] \in Nat
    BY DEF IInv, TypeOK
  <2>3. /\ Len(new) = Len(artifacts[n]) + 1
        /\ Len(artifacts[n]) \in Nat
        /\ \A i \in 1 .. Len(artifacts[n]) : new[i] = artifacts[n][i]
        /\ new[Len(artifacts[n]) + 1] = visit[n]
    BY <2>2
  <2>4. \A i \in 1 .. Len(artifacts[n]) :
           artifacts[n][i] \in Nat /\ artifacts[n][i] < visit[n]
    BY <2>2 DEF IInv, Core, ArtifactPart
  <2>5. \A i, j \in 1 .. Len(artifacts[n]) : i < j => artifacts[n][i] < artifacts[n][j]
    BY DEF IInv, Core, ArtifactPart
  <2> HIDE DEF new
  <2>6. \A i \in 1 .. Len(new) : i \in 1 .. Len(artifacts[n]) \/ i = Len(artifacts[n]) + 1
    BY <2>3
  <2>7. ASSUME NEW i \in 1 .. Len(new)
        PROVE  new[i] <= visit[n]
    <3>1. CASE i \in 1 .. Len(artifacts[n])
      BY <2>2, <2>3, <2>4, <3>1
    <3>2. CASE i = Len(artifacts[n]) + 1
      BY <2>2, <2>3, <3>2
    <3> QED
      BY <2>6, <3>1, <3>2
  <2>8. ASSUME NEW i \in 1 .. Len(new), NEW j \in 1 .. Len(new), i < j
        PROVE  new[i] < new[j]
    <3>1. i \in 1 .. Len(artifacts[n])
      BY <2>3, <2>8
    <3>2. CASE j \in 1 .. Len(artifacts[n])
      BY <2>3, <2>5, <2>8, <3>1, <3>2
    <3>3. CASE j = Len(artifacts[n]) + 1
      BY <2>3, <2>4, <3>1, <3>3
    <3> QED
      BY <2>6, <3>2, <3>3
  <2> QED
    BY <2>1, <2>7, <2>8 DEF IInv, TypeOK, Core, ArtifactPart
<1>6. VisitPart(ns, visit)
  BY DEF IInv, TypeOK, Core, VisitPart
<1>7. Core(ns, ls, visit', attempt', artifacts', claims', issued')
  BY <1>1, <1>4, <1>5, <1>6 DEF IInv, Core
<1>8. wfStatus = "awaiting_approval" => \E m \in Nodes : ns[m] = "awaiting_approval"
  BY DEF IInv, TypeOK, ApprovalExists
<1>9. Route(n, o, output, wfStatus, ns, ls, <<>>)
  BY DEF CompleteNode
<1> QED
  BY <1>2, <1>3, <1>7, <1>8, <1>9, RouteKeeps

(* A reported failure or an expired lease (_handle_task_failure). *)
LEMMA FailKeeps ==
    ASSUME IInv, TypeOK', NEW n \in Nodes,
           nodeStatus[n] = "running", Committed,
           FailNode(n)
    PROVE  IInv'
<1>1. UNCHANGED <<visit, attempt, artifacts, claims, issued>>
  BY DEF FailNode
<1>2. ASSUME NEW x \in {"ready", "failed"}
      PROVE  Core([nodeStatus EXCEPT ![n] = x], [lease EXCEPT ![n] = NoLease],
                  visit', attempt', artifacts', claims', issued')
  <2> DEFINE ns == [nodeStatus EXCEPT ![n] = x]
             ls == [lease EXCEPT ![n] = NoLease]
  <2>2. LeasePart(ns, ls, visit, attempt, claims, issued)
    BY ClearLeaseKeeps
  <2>3. ArtifactPart(ns, visit, artifacts)
    BY DEF IInv, TypeOK, Core, ArtifactPart
  <2>4. VisitPart(ns, visit)
    BY DEF IInv, TypeOK, Core, VisitPart
  <2> QED
    BY <1>1, <2>2, <2>3, <2>4 DEF IInv, Core
<1>3. CASE /\ nodeStatus' = [nodeStatus EXCEPT ![n] = "ready"]
           /\ lease' = [lease EXCEPT ![n] = NoLease]
           /\ UNCHANGED <<wfStatus, todo>>
  <2>1. Core(nodeStatus, lease, visit, attempt, artifacts, claims, issued)'
    BY <1>2, <1>3
  <2>2. TerminalQuiescent'
    BY <1>3 DEF IInv, TerminalQuiescent, Active
  <2>3. ApprovalExists'
    BY <1>3 DEF IInv, TypeOK, ApprovalExists
  <2> QED
    BY <2>1, <2>2, <2>3 DEF IInv
<1>4. CASE Finish("failed", [nodeStatus EXCEPT ![n] = "failed"],
                  [lease EXCEPT ![n] = NoLease])
  <2>1. /\ [nodeStatus EXCEPT ![n] = "failed"] \in [Nodes -> NodeStatuses]
        /\ [lease EXCEPT ![n] = NoLease] \in [Nodes -> Leases]
    BY ConstantTypes DEF IInv, TypeOK, NodeStatuses
  <2> QED
    BY <1>2, <1>4, <2>1, FinishKeeps DEF Terminal
<1> QED
  BY <1>3, <1>4 DEF FailNode

(* claim_next: the new claim is the only one with its token and attempt. *)
LEMMA ClaimKeeps ==
    ASSUME IInv, TypeOK', NEW n \in Nodes, NEW lag \in 0 .. MaxLag, ClaimNext(n, lag)
    PROVE  IInv'
<1> DEFINE new == [node |-> n, token |-> issued + 1, visit |-> visit[n],
                   attempt |-> attempt[n] + 1]
<1>1. /\ nodeStatus' = [nodeStatus EXCEPT ![n] = "running"]
      /\ attempt' = [attempt EXCEPT ![n] = attempt[n] + 1]
      /\ lease' = [lease EXCEPT ![n] = [token |-> issued + 1, left |-> LeaseSeconds - lag]]
      /\ claims' = claims \union {new}
      /\ issued' = issued + 1
      /\ UNCHANGED <<wfStatus, visit, outcome, artifacts, todo>>
  BY DEF ClaimNext, BeginNode, IInv, TypeOK
<1>2. /\ Kind[n] = "task" /\ nodeStatus[n] = "ready" /\ attempt[n] < MaxAttempts[n]
      /\ wfStatus = "running"
  BY DEF ClaimNext, BeginNode
<1>3. \A c \in claims : c.node \in Nodes /\ c.token \in Nat /\ c.visit \in Nat /\ c.attempt \in Nat
  BY DEF IInv, TypeOK, Claims
<1>4. /\ issued \in Nat /\ visit \in [Nodes -> Nat] /\ attempt \in [Nodes -> Nat]
      /\ MaxAttempts \in [Nodes -> Nat \ {0}]
      /\ lease \in [Nodes -> Leases] /\ nodeStatus \in [Nodes -> NodeStatuses]
  BY ConstantTypes DEF IInv, TypeOK
<1>5. LeasePart(nodeStatus, lease, visit, attempt, claims, issued) /\ ClaimPart(visit, attempt, claims)
  BY DEF IInv, Core
<1>6. LeasePart(nodeStatus', lease', visit', attempt', claims', issued')
  <2>1. \A m \in Nodes : nodeStatus'[m] # "running" => lease'[m] = NoLease
    BY <1>1, <1>4, <1>5 DEF LeasePart
  <2>2. \A m \in Nodes : lease'[m].token = IF m = n THEN issued + 1 ELSE lease[m].token
    BY <1>1, <1>4
  <2>3. \A m \in Nodes : lease[m].token <= issued /\ lease[m].token \in Nat
    BY <1>4, <1>5 DEF LeasePart, Leases
  <2>4. \A m \in Nodes : lease'[m].token <= issued'
    BY <1>1, <1>4, <2>2, <2>3
  <2>5. \A k, m \in Nodes : lease'[k].token = lease'[m].token /\ lease'[m].token # 0 => k = m
    BY <1>4, <1>5, <2>2, <2>3 DEF LeasePart
  <2>6. \A c \in claims : c.token \in 1 .. issued
    BY <1>5 DEF LeasePart
  <2>7. \A c \in claims' : c.token \in 1 .. issued'
    BY <1>1, <1>4, <2>6
  <2>8. ASSUME NEW c \in claims', lease'[c.node].token = c.token
        PROVE  c.visit = visit'[c.node] /\ c.attempt = attempt'[c.node]
    <3>1. CASE c = new
      BY <1>1, <1>4, <3>1
    <3>2. CASE c \in claims
      <4>1. c.node # n
        BY <1>3, <1>4, <2>2, <2>6, <2>8, <3>2
      <4> QED
        BY <1>1, <1>3, <1>4, <1>5, <2>2, <2>8, <3>2, <4>1 DEF LeasePart
    <3> QED
      BY <1>1, <3>1, <3>2
  <2> QED
    BY <2>1, <2>4, <2>5, <2>7, <2>8 DEF LeasePart
<1>7. ClaimPart(visit', attempt', claims')
  <2>1. visit[n] >= 1
    BY <1>2, <1>4 DEF IInv, Core, VisitPart
  <2>2. ASSUME NEW c \in claims'
        PROVE  /\ c.visit >= 1
               /\ c.attempt \in 1 .. MaxAttempts[c.node]
               /\ \/ c.visit < visit'[c.node]
                  \/ c.visit = visit'[c.node] /\ c.attempt <= attempt'[c.node]
    <3>1. CASE c = new
      BY <1>1, <1>2, <1>4, <2>1, <3>1
    <3>2. CASE c \in claims
      BY <1>1, <1>3, <1>4, <1>5, <3>2 DEF ClaimPart
    <3> QED
      BY <1>1, <3>1, <3>2
  <2>3. \A c \in claims : c.node = n /\ c.visit = visit[n] => c.attempt < attempt[n] + 1
    BY <1>3, <1>4, <1>5 DEF ClaimPart
  <2>4. ASSUME NEW c \in claims', NEW d \in claims',
               c.node = d.node, c.visit = d.visit, c.attempt = d.attempt
        PROVE  c = d
    <3>1. CASE c \in claims /\ d \in claims
      BY <1>5, <2>4, <3>1 DEF ClaimPart
    <3>2. CASE c = new /\ d \in claims
      BY <1>3, <1>4, <2>3, <2>4, <3>2
    <3>3. CASE c \in claims /\ d = new
      BY <1>3, <1>4, <2>3, <2>4, <3>3
    <3> QED
      BY <1>1, <3>1, <3>2, <3>3
  <2> QED
    BY <2>2, <2>4 DEF ClaimPart
<1>8. ArtifactPart(nodeStatus', visit', artifacts')
  BY <1>1, <1>2, <1>4 DEF IInv, Core, ArtifactPart
<1>9. LimitPart(visit', attempt')
  BY <1>1, <1>2, <1>4 DEF IInv, Core, LimitPart
<1>10. VisitPart(nodeStatus', visit')
  BY <1>1, <1>2, <1>4 DEF IInv, Core, VisitPart
<1>11. TerminalQuiescent' /\ ApprovalExists'
  BY <1>1, <1>2 DEF TerminalQuiescent, ApprovalExists, Terminal
<1> QED
  BY <1>6, <1>7, <1>8, <1>9, <1>10, <1>11 DEF IInv, Core

(* begin_task through the API: no lease, no claim. *)
LEMMA BeginTaskKeeps ==
    ASSUME IInv, TypeOK', NEW n \in Nodes, BeginTask(n)
    PROVE  IInv'
<1>1. /\ nodeStatus' = [nodeStatus EXCEPT ![n] = "running"]
      /\ attempt' = [attempt EXCEPT ![n] = attempt[n] + 1]
      /\ UNCHANGED <<wfStatus, visit, outcome, lease, artifacts, claims, issued, todo>>
  BY DEF BeginTask, BeginNode
<1>2. /\ nodeStatus[n] = "ready" /\ attempt[n] < MaxAttempts[n]
      /\ lease[n] = NoLease
  BY DEF BeginTask, BeginNode, IInv, Core, LeasePart
<1>3. /\ attempt \in [Nodes -> Nat] /\ nodeStatus \in [Nodes -> NodeStatuses]
      /\ MaxAttempts \in [Nodes -> Nat \ {0}]
      /\ visit \in [Nodes -> Nat] /\ claims \subseteq Claims
  BY ConstantTypes DEF IInv, TypeOK
<1>4. \A c \in claims : c.node \in Nodes /\ c.attempt \in Nat
  BY <1>3 DEF Claims
<1>5. LeasePart(nodeStatus', lease', visit', attempt', claims', issued')
  <2>1. \A c \in claims : c.node = n => lease[c.node].token # c.token
    BY <1>2 DEF IInv, Core, LeasePart, NoLease
  <2> QED
    BY <1>1, <1>3, <1>4, <2>1 DEF IInv, Core, LeasePart
<1>6. ClaimPart(visit', attempt', claims')
  BY <1>1, <1>3, <1>4 DEF IInv, Core, ClaimPart
<1>7. ArtifactPart(nodeStatus', visit', artifacts')
  BY <1>1, <1>2, <1>3 DEF IInv, Core, ArtifactPart
<1>8. LimitPart(visit', attempt')
  BY <1>1, <1>2, <1>3 DEF IInv, Core, LimitPart
<1>9. VisitPart(nodeStatus', visit')
  BY <1>1, <1>2, <1>3 DEF IInv, Core, VisitPart
<1>10. TerminalQuiescent'
  BY <1>1, <1>2 DEF IInv, TerminalQuiescent, Active
<1>11. ApprovalExists'
  BY <1>1, <1>2, <1>3 DEF IInv, ApprovalExists
<1> QED
  BY <1>5, <1>6, <1>7, <1>8, <1>9, <1>10, <1>11 DEF IInv, Core

(* A step that changes leases only in their time left (heartbeat, Tick). *)
LEMMA LeaseTimeKeeps ==
    ASSUME IInv, TypeOK',
           \A n \in Nodes : /\ lease'[n].token = lease[n].token
                            /\ lease[n] = NoLease => lease'[n] = NoLease,
           UNCHANGED <<wfStatus, nodeStatus, visit, attempt, artifacts, claims, issued, todo>>
    PROVE  IInv'
<1>1. \A c \in claims : c.node \in Nodes
  BY DEF IInv, TypeOK, Claims
<1>2. LeasePart(nodeStatus', lease', visit', attempt', claims', issued')
  BY <1>1 DEF IInv, Core, LeasePart
<1>3. TerminalQuiescent' /\ ApprovalExists'
  BY DEF IInv, TerminalQuiescent, ApprovalExists, Committed
<1>4. /\ ClaimPart(visit', attempt', claims')
      /\ ArtifactPart(nodeStatus', visit', artifacts')
      /\ LimitPart(visit', attempt')
      /\ VisitPart(nodeStatus', visit')
  BY DEF IInv, Core
<1> QED
  BY <1>2, <1>3, <1>4 DEF IInv, Core

(* A new visit of a node: every claim and artifact of the node now belongs *)
(* to an earlier visit, and a join's sources have been visited.            *)
LEMMA EnterKeeps ==
    ASSUME IInv, NEW n \in Nodes, NEW o, EnterNode(n, o),
           UNCHANGED <<artifacts, claims, issued>>,
           NEW x \in {"ready", "awaiting_approval", "succeeded"},
           x = "awaiting_approval" => Kind[n] = "approval",
           x = "ready" => Kind[n] = "task"
    PROVE  Core([nodeStatus EXCEPT ![n] = x], [lease EXCEPT ![n] = NoLease],
                visit', attempt', artifacts', claims', issued')
<1> DEFINE ns == [nodeStatus EXCEPT ![n] = x]
           ls == [lease EXCEPT ![n] = NoLease]
<1>1. /\ visit' = [visit EXCEPT ![n] = visit[n] + 1]
      /\ attempt' = [attempt EXCEPT ![n] = 0]
      /\ visit[n] < MaxVisits[n]
  BY DEF EnterNode
<1>2. /\ visit \in [Nodes -> Nat] /\ attempt \in [Nodes -> Nat]
      /\ nodeStatus \in [Nodes -> NodeStatuses] /\ lease \in [Nodes -> Leases]
      /\ MaxAttempts \in [Nodes -> Nat \ {0}] /\ MaxVisits \in [Nodes -> Nat \ {0}]
      /\ artifacts \in [Nodes -> Seq(Nat)] /\ issued \in Nat
  BY ConstantTypes DEF IInv, TypeOK
<1>3. \A c \in claims : c.node \in Nodes /\ c.visit \in Nat /\ c.attempt \in Nat
  BY DEF IInv, TypeOK, Claims
<1>4. LeasePart(ns, ls, visit', attempt', claims', issued')
  <2>1. LeasePart(ns, ls, visit, attempt, claims, issued)
    BY ClearLeaseKeeps
  <2>2. \A c \in claims : ls[c.node].token = c.token => c.node # n
    BY <1>2, <2>1 DEF LeasePart, NoLease
  <2> QED
    BY <1>1, <1>2, <1>3, <2>1, <2>2 DEF LeasePart
<1>5. ClaimPart(visit', attempt', claims')
  <2>1. claims' = claims /\ ClaimPart(visit, attempt, claims)
    BY DEF IInv, Core
  <2>2. ASSUME NEW c \in claims, c.node = n
        PROVE  c.visit < visit'[c.node]
    <3>1. c.visit < visit[n] \/ c.visit = visit[n]
      BY <2>1, <2>2 DEF ClaimPart
    <3>2. visit'[n] = visit[n] + 1 /\ visit[n] \in Nat /\ c.visit \in Nat
      BY <1>1, <1>2, <1>3
    <3> QED
      BY <2>2, <3>1, <3>2
  <2>3. \A c \in claims : c.node # n =>
           visit'[c.node] = visit[c.node] /\ attempt'[c.node] = attempt[c.node]
    BY <1>1, <1>2, <1>3
  <2> QED
    BY <1>3, <2>1, <2>2, <2>3 DEF ClaimPart
<1>6. ArtifactPart(ns, visit', artifacts')
  <2>1. \A m \in Nodes : \A i \in 1 .. Len(artifacts[m]) : artifacts[m][i] \in Nat
    BY <1>2, SMTT(30)
  <2>2. \A i \in 1 .. Len(artifacts[n]) : artifacts[n][i] < visit'[n]
    BY <1>1, <1>2, <2>1 DEF IInv, Core, ArtifactPart
  <2>3. \A m \in Nodes : m # n => visit'[m] = visit[m] /\ ns[m] = nodeStatus[m]
    BY <1>1, <1>2
  <2>4. artifacts' = artifacts /\ ArtifactPart(nodeStatus, visit, artifacts)
    BY DEF IInv, Core
  <2>5. visit'[n] \in Nat
    BY <1>1, <1>2
  <2> HIDE DEF ns
  <2>6. ASSUME NEW m \in Nodes, NEW i \in 1 .. Len(artifacts[m])
        PROVE  artifacts[m][i] <= visit'[m] /\ (artifacts[m][i] = visit'[m] => ns[m] = "succeeded")
    <3>1. CASE m = n
      BY <2>1, <2>2, <2>5, <3>1
    <3>2. CASE m # n
      BY <2>3, <2>4, <3>2 DEF ArtifactPart
    <3> QED
      BY <3>1, <3>2
  <2>7. \A m \in Nodes : \A i, j \in 1 .. Len(artifacts[m]) :
           i < j => artifacts[m][i] < artifacts[m][j]
    BY <2>4 DEF ArtifactPart
  <2> QED
    BY <2>4, <2>6, <2>7 DEF ArtifactPart
<1>7. LimitPart(visit', attempt')
  BY <1>1, <1>2 DEF IInv, Core, LimitPart
<1>8. VisitPart(ns, visit')
  <2>1. \A m \in Nodes : visit'[m] >= visit[m] /\ visit'[m] \in Nat
    BY <1>1, <1>2
  <2>2. \A m \in Nodes : IncomingSources(m) \subseteq Nodes
    <3>1. Edges \subseteq [source : Nodes, outcome : NodeOutcomes,
                           target : Nodes, condition : Outputs]
      BY DefinitionAssumption DEF ValidDefinition, ValidEdges
    <3> QED
      BY <3>1 DEF IncomingSources
  <2>3. Kind[n] = "join" => \A m \in IncomingSources(n) : nodeStatus[m] = "succeeded"
    BY DEF EnterNode, JoinIsReady
  <2>4. Kind[n] = "join" => \A m \in IncomingSources(n) : visit[m] > 0
    BY <1>2, <2>2, <2>3 DEF IInv, Core, VisitPart
  <2>5. \A m \in Nodes : Kind[m] = "join" /\ visit'[m] > 0 =>
           \A k \in IncomingSources(m) : visit'[k] > 0
    <3> SUFFICES ASSUME NEW m \in Nodes, Kind[m] = "join", visit'[m] > 0,
                        NEW k \in IncomingSources(m)
                 PROVE  visit'[k] > 0
      OBVIOUS
    <3>1. k \in Nodes
      BY <2>2
    <3>2. visit[k] > 0
      <4>1. CASE m = n
        BY <2>4, <4>1
      <4>2. CASE m # n
        <5>1. visit'[m] = visit[m]
          BY <1>1, <1>2, <4>2
        <5> QED
          BY <5>1 DEF IInv, Core, VisitPart
      <4> QED
        BY <4>1, <4>2
    <3>3. visit[k] \in Nat /\ visit'[k] \in Nat /\ visit'[k] >= visit[k]
      BY <1>2, <2>1, <3>1
    <3> QED
      BY <3>2, <3>3
  <2>6. \A m \in Nodes : ns[m] = "pending" <=> visit'[m] = 0
    BY <1>1, <1>2 DEF IInv, Core, VisitPart
  <2>7. \A m \in Nodes : ns[m] = "awaiting_approval" => Kind[m] = "approval"
    BY <1>2 DEF IInv, Core, VisitPart
  <2>8. \A m \in Nodes : ns[m] \in {"ready", "running"} => Kind[m] = "task"
    BY <1>2 DEF IInv, Core, VisitPart
  <2> QED
    BY <2>5, <2>6, <2>7, <2>8 DEF VisitPart
<1> QED
  BY <1>4, <1>5, <1>6, <1>7, <1>8 DEF Core

LEMMA ActivateKeeps ==
    ASSUME IInv, TypeOK', Activate
    PROVE  IInv'
<1> DEFINE n == Head(todo)
<1>1. n \in Nodes
  BY DEF Activate, IInv, TypeOK
<1> HIDE DEF n
<1>2. /\ UNCHANGED <<artifacts, claims, issued>>
      /\ wfStatus \in WorkflowStatuses \ Terminal
  BY DEF Activate, IInv, TypeOK, TerminalQuiescent, Committed
<1>3. /\ nodeStatus \in [Nodes -> NodeStatuses] /\ lease \in [Nodes -> Leases]
      /\ [nodeStatus EXCEPT ![n] = "succeeded"] \in [Nodes -> NodeStatuses]
      /\ [lease EXCEPT ![n] = NoLease] \in [Nodes -> Leases]
  BY <1>1, ConstantTypes DEF IInv, TypeOK, NodeStatuses
<1>4. nodeStatus[n] = "awaiting_approval" => Kind[n] = "approval"
  BY <1>1 DEF IInv, Core, VisitPart
<1>5. CASE SkipJoin(n)
  <2>1. UNCHANGED <<wfStatus, nodeStatus, visit, attempt, lease>>
    BY <1>5 DEF SkipJoin, nodeVars
  <2> QED
    BY <1>2, <2>1 DEF IInv, Core, TerminalQuiescent, ApprovalExists
<1>6. CASE ExceedVisits(n)
  <2>1. Core(nodeStatus, lease, visit', attempt', artifacts', claims', issued')
    BY <1>2, <1>6 DEF ExceedVisits, IInv
  <2> QED
    BY <1>3, <1>6, <2>1, FinishKeeps DEF ExceedVisits, Terminal
<1>7. CASE EnterTask(n)
  <2>1. Core(nodeStatus, lease, visit, attempt, artifacts, claims, issued)'
    BY <1>1, <1>2, <1>7, EnterKeeps DEF EnterTask
  <2>2. TerminalQuiescent'
    BY <1>2, <1>7 DEF EnterTask, TerminalQuiescent
  <2>3. ApprovalExists'
    BY <1>3, <1>4, <1>7 DEF EnterTask, IInv, ApprovalExists
  <2> QED
    BY <2>1, <2>2, <2>3 DEF IInv
<1>8. CASE EnterApproval(n)
  <2>1. Core(nodeStatus, lease, visit, attempt, artifacts, claims, issued)'
    BY <1>1, <1>2, <1>8, EnterKeeps DEF EnterApproval
  <2>2. TerminalQuiescent'
    BY <1>8 DEF EnterApproval, TerminalQuiescent, Terminal
  <2>3. ApprovalExists'
    BY <1>1, <1>3, <1>8 DEF EnterApproval, ApprovalExists
  <2> QED
    BY <2>1, <2>2, <2>3 DEF IInv
<1> DEFINE ns == [nodeStatus EXCEPT ![n] = "succeeded"]
           ls == [lease EXCEPT ![n] = NoLease]
<1>9. CASE EnterGateway(n)
  <2>1. Core(ns, ls, visit', attempt', artifacts', claims', issued')
    BY <1>1, <1>2, <1>9, EnterKeeps DEF EnterGateway
  <2>2. wfStatus = "awaiting_approval" => \E m \in Nodes : ns[m] = "awaiting_approval"
    BY <1>3, <1>4, <1>9 DEF EnterGateway, IInv, ApprovalExists
  <2>3. Route(n, "success", NoValue, wfStatus, ns, ls, Tail(todo))
    BY <1>9 DEF EnterGateway
  <2> QED
    BY <1>2, <1>3, <2>1, <2>2, <2>3, RouteKeeps
<1>10. CASE EnterTerminal(n)
  <2>1. Core(ns, ls, visit', attempt', artifacts', claims', issued')
    BY <1>1, <1>2, <1>10, EnterKeeps DEF EnterTerminal
  <2>2. TerminalStatus[n] \in Terminal
    BY <1>1, ConstantTypes DEF Terminal
  <2> QED
    BY <1>3, <1>10, <2>1, <2>2, FinishKeeps DEF EnterTerminal
<1> QED
  BY <1>5, <1>6, <1>7, <1>8, <1>9, <1>10 DEF Activate, n

(* An approval is resolved (resolve_approval): the workflow runs again. *)
LEMMA ResolveKeeps ==
    ASSUME IInv, TypeOK', NEW n \in Nodes, NEW o, ResolveApproval(n, o)
    PROVE  IInv'
<1> DEFINE ns == [nodeStatus EXCEPT ![n] = "succeeded"]
<1>1. /\ UNCHANGED <<visit, attempt, artifacts, claims, issued>>
      /\ nodeStatus[n] = "awaiting_approval"
      /\ Route(n, o, NoValue, "running", ns, lease, <<>>)
  BY DEF ResolveApproval
<1>2. /\ ns \in [Nodes -> NodeStatuses] /\ lease \in [Nodes -> Leases]
      /\ nodeStatus \in [Nodes -> NodeStatuses]
      /\ "running" \in WorkflowStatuses \ Terminal
  BY DEF IInv, TypeOK, NodeStatuses, WorkflowStatuses, Terminal
<1>3. LeasePart(ns, lease, visit, attempt, claims, issued)
  BY <1>1, <1>2 DEF IInv, Core, LeasePart
<1>4. ArtifactPart(ns, visit, artifacts)
  BY <1>1, <1>2 DEF IInv, Core, ArtifactPart
<1>5. VisitPart(ns, visit)
  BY <1>1, <1>2 DEF IInv, Core, VisitPart
<1>6. Core(ns, lease, visit', attempt', artifacts', claims', issued')
  BY <1>1, <1>3, <1>4, <1>5 DEF IInv, Core
<1> QED
  BY <1>1, <1>2, <1>6, RouteKeeps

LEMMA InvariantInit == Init => IInv
<1> SUFFICES ASSUME Init PROVE IInv
  OBVIOUS
<1>1. TypeOK
  BY TypeInit
<1>2. LeasePart(nodeStatus, lease, visit, attempt, claims, issued) /\ ClaimPart(visit, attempt, claims)
  BY DEF Init, LeasePart, ClaimPart, NoLease
<1>3. ArtifactPart(nodeStatus, visit, artifacts)
  BY DEF Init, ArtifactPart
<1>4. LimitPart(visit, attempt) /\ VisitPart(nodeStatus, visit)
  BY ConstantTypes DEF Init, LimitPart, VisitPart
<1>5. TerminalQuiescent /\ ApprovalExists
  BY DEF Init, TerminalQuiescent, ApprovalExists, Terminal
<1> QED
  BY <1>1, <1>2, <1>3, <1>4, <1>5 DEF IInv, Core

LEMMA InvariantNext == IInv /\ [Next]_vars => IInv'
<1> SUFFICES ASSUME IInv, [Next]_vars PROVE IInv'
  OBVIOUS
<1>0. TypeOK'
  BY TypeNext DEF IInv
<1>1. CASE Start
  <2>1. wfStatus' = "running" /\ UNCHANGED <<nodeStatus, visit, attempt, lease, artifacts, claims, issued>>
    BY <1>1 DEF Start, nodeVars
  <2> QED
    BY <1>0, <2>1 DEF IInv, Core, TerminalQuiescent, ApprovalExists, Terminal
<1>2. CASE Activate
  BY <1>0, <1>2, ActivateKeeps
<1>3. ASSUME NEW n \in Nodes, NEW lag \in 0 .. MaxLag, ClaimNext(n, lag)
      PROVE  IInv'
  BY <1>0, <1>3, ClaimKeeps
<1>4. ASSUME NEW n \in Nodes, RecoverExpired(n)
      PROVE  IInv'
  BY <1>0, <1>4, FailKeeps DEF RecoverExpired
<1>5. ASSUME NEW c \in claims, NEW lag \in 0 .. MaxLag, Heartbeat(c, lag)
      PROVE  IInv'
  <2>1. c.node \in Nodes /\ c.token # 0 /\ lease \in [Nodes -> Leases]
    BY DEF IInv, TypeOK, Claims, Core, LeasePart
  <2>2. /\ lease' = [lease EXCEPT ![c.node] = [token |-> c.token, left |-> LeaseSeconds - lag]]
        /\ lease[c.node].token = c.token
    BY <1>5 DEF Heartbeat, Owns
  <2>3. \A n \in Nodes : /\ lease'[n].token = lease[n].token
                         /\ lease[n] = NoLease => lease'[n] = NoLease
    BY <2>1, <2>2 DEF NoLease
  <2> QED
    BY <1>0, <1>5, <2>3, LeaseTimeKeeps DEF Heartbeat
<1>6. ASSUME NEW c \in claims, NEW lag \in 0 .. MaxLag, Fail(c, lag)
      PROVE  IInv'
  <2>1. c.node \in Nodes
    BY DEF IInv, TypeOK, Claims
  <2> QED
    BY <1>0, <1>6, <2>1, FailKeeps DEF Fail
<1>7. ASSUME NEW c \in claims, NEW lag \in 0 .. MaxLag,
             NEW o \in {"success", "failure"}, NEW output \in Outputs,
             Complete(c, lag, o, output)
      PROVE  IInv'
  <2>1. c.node \in Nodes
    BY DEF IInv, TypeOK, Claims
  <2>2. c.visit = visit[c.node]
    BY <1>7 DEF Complete, Owns, IInv, Core, LeasePart
  <2> QED
    BY <1>0, <1>7, <2>1, <2>2, CompleteKeeps DEF Complete
<1>8. ASSUME NEW n \in Nodes, BeginTask(n)
      PROVE  IInv'
  BY <1>0, <1>8, BeginTaskKeeps
<1>9. ASSUME NEW n \in Nodes, FailTask(n)
      PROVE  IInv'
  BY <1>0, <1>9, FailKeeps DEF FailTask
<1>10. ASSUME NEW n \in Nodes, NEW o \in {"success", "failure"}, NEW output \in Outputs,
              CompleteTask(n, o, output)
       PROVE  IInv'
  BY <1>0, <1>10, CompleteKeeps DEF CompleteTask
<1>11. ASSUME NEW n \in Nodes, NEW o \in {"approved", "rejected"}, ResolveApproval(n, o)
       PROVE  IInv'
  BY <1>0, <1>11, ResolveKeeps
<1>12. CASE Cancel
  <2>1. Core(nodeStatus, lease, visit', attempt', artifacts', claims', issued')
    BY <1>12 DEF Cancel, IInv
  <2>2. nodeStatus \in [Nodes -> NodeStatuses] /\ lease \in [Nodes -> Leases]
    BY DEF IInv, TypeOK
  <2> QED
    BY <1>0, <1>12, <2>1, <2>2, FinishKeeps DEF Cancel, Terminal
<1>13. CASE Tick
  <2>1. \A n \in Nodes : /\ lease'[n].token = lease[n].token
                         /\ lease[n] = NoLease => lease'[n] = NoLease
    BY <1>13 DEF Tick, NoLease
  <2> QED
    BY <1>0, <1>13, <2>1, LeaseTimeKeeps DEF Tick
<1>14. CASE UNCHANGED vars
  BY <1>14, <1>0 DEF vars, IInv, Core, TerminalQuiescent, ApprovalExists, Committed
<1> QED
  BY <1>1, <1>2, <1>3, <1>4, <1>5, <1>6, <1>7, <1>8, <1>9, <1>10, <1>11, <1>12,
     <1>13, <1>14 DEF Next, ClaimSome, RecoverSome

(* The inductive invariant holds throughout. *)
THEOREM Invariance == Spec => []IInv
BY InvariantInit, InvariantNext, PTL DEF Spec

(* engine.py _fail, the terminal branch of _activate and cancel: whatever  *)
(* ends a workflow leaves no claimable, approvable or leased node.         *)
THEOREM Quiescence == Spec => []TerminalQuiescent
<1>1. IInv => TerminalQuiescent
  BY DEF IInv
<1> QED
  BY <1>1, Invariance, PTL

(* Token fencing of renew_lease, complete_task and fail_task. *)
THEOREM Fencing == Spec => []LeaseFencing
<1>1. IInv => LeaseFencing
  BY DEF IInv, Core, LeasePart, LeaseFencing, NoLease
<1> QED
  BY <1>1, Invariance, PTL

(* claim_next never hands out one attempt twice. *)
THEOREM ClaimedOnce == Spec => []AttemptClaimedOnce
<1>1. IInv => AttemptClaimedOnce
  BY DEF IInv, Core, ClaimPart, AttemptClaimedOnce
<1> QED
  BY <1>1, Invariance, PTL

(* complete is accepted at most once per visit, so the unique constraint   *)
(* on task artifacts never fails a completion.                             *)
THEOREM ArtifactOnce == Spec => []OneArtifactPerVisit
<1>1. IInv => OneArtifactPerVisit
  BY DEF IInv, Core, ArtifactPart, OneArtifactPerVisit
<1> QED
  BY <1>1, Invariance, PTL

(* max_visits and max_attempts bound every claim. *)
THEOREM Limits == Spec => []LimitsRespected
<1>1. IInv => LimitsRespected
  <2> SUFFICES ASSUME IInv PROVE LimitsRespected
    OBVIOUS
  <2>1. \A c \in claims : c.node \in Nodes /\ c.visit \in Nat
    BY DEF IInv, TypeOK, Claims
  <2>2. visit \in [Nodes -> Nat]
    BY DEF IInv, TypeOK
  <2>3. \A c \in claims : c.visit \in 1 .. visit[c.node]
    BY <2>1, <2>2 DEF IInv, Core, ClaimPart
  <2> QED
    BY <2>3 DEF IInv, Core, ClaimPart, LimitPart, LimitsRespected
<1> QED
  BY <1>1, Invariance, PTL

-----------------------------------------------------------------------------
(* Joins wait for stored results.  On top of IInv: a task that succeeded   *)
(* has an artifact, and so have the tasks before every join entered.       *)

Stored ==
    /\ \A n \in Nodes : Kind[n] = "task" /\ nodeStatus[n] = "succeeded" =>
          artifacts[n] # <<>>
    /\ \A n \in Nodes : Kind[n] = "join" /\ visit[n] > 0 =>
          \A m \in IncomingSources(n) : Kind[m] = "task" => artifacts[m] # <<>>

(* Artifacts are never removed, a task succeeds only with one, and a join  *)
(* is entered only when it is ready.                                       *)
Grows == \A m \in Nodes : artifacts[m] # <<>> => artifacts'[m] # <<>>

Earned ==
    \A m \in Nodes : Kind[m] = "task" /\ nodeStatus'[m] = "succeeded" =>
        nodeStatus[m] = "succeeded" \/ artifacts'[m] # <<>>

Entered ==
    \A m \in Nodes : visit'[m] # visit[m] /\ Kind[m] = "join" => JoinIsReady(m)

LEMMA SourcesAreNodes == \A n \in Nodes : IncomingSources(n) \subseteq Nodes
<1>1. Edges \subseteq [source : Nodes, outcome : NodeOutcomes,
                       target : Nodes, condition : Outputs]
  BY DefinitionAssumption DEF ValidDefinition, ValidEdges
<1> QED
  BY <1>1 DEF IncomingSources

LEMMA FinishSucceeded ==
    ASSUME NEW ns, NEW ls, NEW status, Finish(status, ns, ls)
    PROVE  \A m \in Nodes : nodeStatus'[m] = "succeeded" => ns[m] = "succeeded"
BY DEF Finish, CancelledStatuses

LEMMA RouteSucceeded ==
    ASSUME NEW n, NEW o, NEW output, NEW status, NEW ns, NEW ls, NEW rest,
           Route(n, o, output, status, ns, ls, rest)
    PROVE  \A m \in Nodes : nodeStatus'[m] = "succeeded" => ns[m] = "succeeded"
BY FinishSucceeded DEF Route

LEMMA LongerThanEmpty == ASSUME NEW s, Len(s) # 0 PROVE s # <<>>
<1>1. Len(<<>>) = 0
  OBVIOUS
<1> QED
  BY <1>1

LEMMA CompleteEarned ==
    ASSUME TypeOK, NEW n \in Nodes, NEW v \in Nat, NEW o, NEW output,
           CompleteNode(n, v, o, output)
    PROVE  Grows /\ Earned /\ Entered
<1>1. artifacts' = [artifacts EXCEPT ![n] = Append(artifacts[n], v)] /\ visit' = visit
  BY DEF CompleteNode
<1>2. artifacts[n] \in Seq(Nat) /\ artifacts \in [Nodes -> Seq(Nat)]
      /\ nodeStatus \in [Nodes -> NodeStatuses]
  BY DEF TypeOK
<1>3. Append(artifacts[n], v) # <<>>
  <2>1. Len(Append(artifacts[n], v)) = Len(artifacts[n]) + 1 /\ Len(artifacts[n]) \in Nat
    BY <1>2
  <2> QED
    BY <2>1, LongerThanEmpty
<1>4. artifacts'[n] # <<>> /\ \A m \in Nodes : m # n => artifacts'[m] = artifacts[m]
  BY <1>1, <1>2, <1>3
<1>5. \A m \in Nodes : nodeStatus'[m] = "succeeded" => m = n \/ nodeStatus[m] = "succeeded"
  <2> DEFINE ns == [nodeStatus EXCEPT ![n] = "succeeded"]
  <2>1. \A m \in Nodes : ns[m] = "succeeded" => m = n \/ nodeStatus[m] = "succeeded"
    BY <1>2
  <2>2. Route(n, o, output, wfStatus, ns, [lease EXCEPT ![n] = NoLease], <<>>)
    BY DEF CompleteNode
  <2> HIDE DEF ns
  <2> QED
    BY <2>1, <2>2, RouteSucceeded
<1> QED
  BY <1>1, <1>4, <1>5 DEF Grows, Earned, Entered

LEMMA FailEarned ==
    ASSUME TypeOK, NEW n \in Nodes, FailNode(n)
    PROVE  Grows /\ Earned /\ Entered
<1>1. artifacts' = artifacts /\ visit' = visit
  BY DEF FailNode
<1>2. \A m \in Nodes : nodeStatus'[m] = "succeeded" => nodeStatus[m] = "succeeded"
  <2> DEFINE ns == [nodeStatus EXCEPT ![n] = "failed"]
  <2>1. \A m \in Nodes : ns[m] = "succeeded" => nodeStatus[m] = "succeeded"
    BY DEF TypeOK
  <2>2. CASE nodeStatus' = [nodeStatus EXCEPT ![n] = "ready"]
    BY <2>2 DEF TypeOK
  <2>3. CASE Finish("failed", ns, [lease EXCEPT ![n] = NoLease])
    <3> HIDE DEF ns
    <3> QED
      BY <2>1, <2>3, FinishSucceeded
  <2> QED
    BY <2>2, <2>3 DEF FailNode
<1> QED
  BY <1>1, <1>2 DEF Grows, Earned, Entered

LEMMA ActivateEarned ==
    ASSUME TypeOK, Activate
    PROVE  Grows /\ Earned /\ Entered
<1> DEFINE n == Head(todo)
<1>1. n \in Nodes /\ artifacts' = artifacts
  BY DEF TypeOK, Activate
<1>2. nodeStatus \in [Nodes -> NodeStatuses] /\ visit \in [Nodes -> Nat]
  BY DEF TypeOK
<1> HIDE DEF n
<1>3. ASSUME NEW o, EnterNode(n, o)
      PROVE  Entered
  BY <1>1, <1>2, <1>3 DEF EnterNode, Entered
<1>4. CASE SkipJoin(n)
  BY <1>1, <1>4 DEF SkipJoin, nodeVars, Grows, Earned, Entered
<1>5. CASE ExceedVisits(n)
  BY <1>1, <1>5, FinishSucceeded DEF ExceedVisits, Grows, Earned, Entered
<1>6. CASE EnterTask(n) \/ EnterApproval(n)
  BY <1>1, <1>2, <1>3, <1>6 DEF EnterTask, EnterApproval, Grows, Earned
<1>7. CASE EnterGateway(n)
  <2>1. \A m \in Nodes : nodeStatus'[m] = "succeeded" => m = n \/ nodeStatus[m] = "succeeded"
    <3> DEFINE ns == [nodeStatus EXCEPT ![n] = "succeeded"]
    <3>1. \A m \in Nodes : ns[m] = "succeeded" => m = n \/ nodeStatus[m] = "succeeded"
      BY <1>2
    <3>2. Route(n, "success", NoValue, wfStatus, ns, [lease EXCEPT ![n] = NoLease], Tail(todo))
      BY <1>7 DEF EnterGateway
    <3> HIDE DEF ns
    <3> QED
      BY <3>1, <3>2, RouteSucceeded
  <2>2. Kind[n] # "task" /\ Entered
    BY <1>3, <1>7 DEF EnterGateway
  <2> QED
    BY <1>1, <2>1, <2>2 DEF Grows, Earned
<1>8. CASE EnterTerminal(n)
  <2>1. \A m \in Nodes : nodeStatus'[m] = "succeeded" => m = n \/ nodeStatus[m] = "succeeded"
    <3> DEFINE ns == [nodeStatus EXCEPT ![n] = "succeeded"]
    <3>1. \A m \in Nodes : ns[m] = "succeeded" => m = n \/ nodeStatus[m] = "succeeded"
      BY <1>2
    <3>2. Finish(TerminalStatus[n], ns, [lease EXCEPT ![n] = NoLease])
      BY <1>8 DEF EnterTerminal
    <3> HIDE DEF ns
    <3> QED
      BY <3>1, <3>2, FinishSucceeded
  <2>2. Kind[n] # "task" /\ Entered
    BY <1>3, <1>8 DEF EnterTerminal
  <2> QED
    BY <1>1, <2>1, <2>2 DEF Grows, Earned
<1> QED
  BY <1>4, <1>5, <1>6, <1>7, <1>8 DEF Activate, n

LEMMA StepEarned ==
    ASSUME IInv, Next
    PROVE  Grows /\ Earned /\ Entered
<1>1. TypeOK
  BY DEF IInv
<1>2. \A c \in claims : c.node \in Nodes /\ c.visit \in Nat
  BY DEF IInv, TypeOK, Claims
<1>3. \A n \in Nodes : visit[n] \in Nat
  BY <1>1 DEF TypeOK
<1>4. ASSUME NEW n \in Nodes, BeginNode(n)
      PROVE  Grows /\ Earned /\ Entered
  BY <1>1, <1>4 DEF BeginNode, TypeOK, Grows, Earned, Entered
<1>5. CASE Start \/ Tick
  BY <1>5 DEF Start, Tick, nodeVars, Grows, Earned, Entered
<1>6. CASE Activate
  BY <1>1, <1>6, ActivateEarned
<1>7. CASE ClaimSome \/ RecoverSome
  BY <1>1, <1>4, <1>7, FailEarned DEF ClaimSome, RecoverSome, ClaimNext, RecoverExpired
<1>8. ASSUME NEW c \in claims, NEW lag \in 0 .. MaxLag, Heartbeat(c, lag)
      PROVE  Grows /\ Earned /\ Entered
  BY <1>8 DEF Heartbeat, Grows, Earned, Entered
<1>9. ASSUME NEW c \in claims, NEW lag \in 0 .. MaxLag,
             \/ Fail(c, lag)
             \/ \E o \in {"success", "failure"}, output \in Outputs :
                   Complete(c, lag, o, output)
      PROVE  Grows /\ Earned /\ Entered
  BY <1>1, <1>2, <1>9, FailEarned, CompleteEarned DEF Fail, Complete
<1>10. ASSUME NEW n \in Nodes,
              \/ BeginTask(n) \/ FailTask(n)
              \/ \E o \in {"success", "failure"}, output \in Outputs :
                    CompleteTask(n, o, output)
       PROVE  Grows /\ Earned /\ Entered
  BY <1>1, <1>3, <1>4, <1>10, FailEarned, CompleteEarned
     DEF BeginTask, FailTask, CompleteTask
<1>11. ASSUME NEW n \in Nodes, NEW o \in {"approved", "rejected"}, ResolveApproval(n, o)
       PROVE  Grows /\ Earned /\ Entered
  <2>1. \A m \in Nodes : nodeStatus'[m] = "succeeded" => m = n \/ nodeStatus[m] = "succeeded"
    <3> DEFINE ns == [nodeStatus EXCEPT ![n] = "succeeded"]
    <3>1. \A m \in Nodes : ns[m] = "succeeded" => m = n \/ nodeStatus[m] = "succeeded"
      BY <1>1 DEF TypeOK
    <3>2. Route(n, o, NoValue, "running", ns, lease, <<>>)
      BY <1>11 DEF ResolveApproval
    <3> HIDE DEF ns
    <3> QED
      BY <3>1, <3>2, RouteSucceeded
  <2>2. Kind[n] = "approval"
    BY <1>11 DEF ResolveApproval, IInv, Core, VisitPart
  <2> QED
    BY <1>11, <2>1, <2>2 DEF ResolveApproval, Grows, Earned, Entered
<1>12. CASE Cancel
  BY <1>12, FinishSucceeded DEF Cancel, Grows, Earned, Entered
<1> QED
  BY <1>5, <1>6, <1>7, <1>8, <1>9, <1>10, <1>11, <1>12 DEF Next

LEMMA StoredNext == IInv /\ Stored /\ [Next]_vars => Stored'
<1> SUFFICES ASSUME IInv, Stored, [Next]_vars PROVE Stored'
  OBVIOUS
<1>1. CASE UNCHANGED vars
  BY <1>1 DEF vars, Stored
<1>2. CASE Next
  <2>1. Grows /\ Earned /\ Entered
    BY <1>2, StepEarned
  <2>2. \A n \in Nodes : Kind[n] = "task" /\ nodeStatus'[n] = "succeeded" =>
           artifacts'[n] # <<>>
    BY <2>1 DEF Stored, Grows, Earned
  <2>3. ASSUME NEW n \in Nodes, Kind[n] = "join", visit'[n] > 0,
               NEW m \in IncomingSources(n), Kind[m] = "task"
        PROVE  artifacts'[m] # <<>>
    <3>1. m \in Nodes
      BY SourcesAreNodes
    <3>2. CASE visit'[n] = visit[n]
      BY <2>1, <2>3, <3>1, <3>2 DEF Stored, Grows
    <3>3. CASE visit'[n] # visit[n]
      BY <2>1, <2>3, <3>1, <3>3 DEF Stored, Grows, Entered, JoinIsReady
    <3> QED
      BY <3>2, <3>3
  <2> QED
    BY <2>2, <2>3 DEF Stored
<1> QED
  BY <1>1, <1>2

(* A join is entered only after each of its sources was visited and each   *)
(* source task has stored its artifact, on every valid definition.         *)
THEOREM JoinOrder == Spec => []JoinAfterSources
<1>1. Init => Stored
  <2> SUFFICES ASSUME Init PROVE Stored
    OBVIOUS
  <2>1. \A n \in Nodes : nodeStatus[n] = "pending" /\ visit[n] = 0
    BY DEF Init
  <2> QED
    BY <2>1 DEF Stored
<1>2. IInv /\ Stored => JoinAfterSources
  BY SourcesAreNodes DEF IInv, TypeOK, Core, VisitPart, JoinAfterSources, Stored
<1> QED
  BY <1>1, <1>2, StoredNext, Invariance, PTL DEF Spec

(* awaiting_approval always has a node that can be approved. *)
THEOREM Approvable == Spec => []ApprovalExists
<1>1. IInv => ApprovalExists
  BY DEF IInv
<1> QED
  BY <1>1, Invariance, PTL

-----------------------------------------------------------------------------
(* In a terminal workflow every operation is refused. *)
LEMMA TerminalStep ==
    ASSUME IInv, [Next]_vars, wfStatus \in Terminal
    PROVE  UNCHANGED <<wfStatus, nodeVars, artifacts, todo>>
<1>1. /\ Committed
      /\ \A n \in Nodes : nodeStatus[n] \notin Active /\ lease[n] = NoLease
  BY DEF IInv, TerminalQuiescent
<1>2. /\ \A c \in claims : c.node \in Nodes
      /\ \A n \in Nodes : lease[n].token = 0
  BY <1>1 DEF IInv, TypeOK, Claims, NoLease
<1>3. ~ Start /\ ~ Activate /\ ~ Cancel /\ ~ Tick
  BY <1>1, <1>2 DEF Start, Activate, Cancel, Tick, Committed, Terminal
<1>4. ~ ClaimSome /\ ~ RecoverSome
  BY <1>1, <1>2 DEF ClaimSome, RecoverSome, ClaimNext, RecoverExpired, Terminal
<1>5. \A c \in claims : nodeStatus[c.node] # "running"
  BY <1>1, <1>2 DEF Active
<1>6. \A n \in Nodes : nodeStatus[n] \notin {"ready", "running", "awaiting_approval"}
  BY <1>1 DEF Active
<1>7. UNCHANGED vars
  BY <1>3, <1>4, <1>5, <1>6 DEF Next, Heartbeat, Fail, Complete, BeginTask, BeginNode,
     FailTask, CompleteTask, ResolveApproval
<1> QED
  BY <1>7 DEF vars, nodeVars

(* No late completion, failure, expiry, approval or cancellation changes a *)
(* workflow that has ended.                                                *)
THEOREM Finality == Spec => TerminalIsFinal
<1>1. IInv /\ [Next]_vars =>
        [(wfStatus \in Terminal) =>
            UNCHANGED <<wfStatus, nodeVars, artifacts, todo>>]_vars
  BY TerminalStep
<1> QED
  BY <1>1, Invariance, PTL DEF Spec, TerminalIsFinal

-----------------------------------------------------------------------------
(* What one step may do to the status of a workflow that has not ended.    *)

Reachable == {wfStatus, "running", "awaiting_approval", "succeeded", "failed"}

LEMMA RouteStatus ==
    ASSUME NEW n, NEW o, NEW output, NEW status \in Reachable, NEW ns, NEW ls, NEW rest,
           Route(n, o, output, status, ns, ls, rest)
    PROVE  wfStatus' \in Reachable
BY DEF Route, Finish, Reachable

LEMMA ActivateStatus ==
    ASSUME TypeOK, Activate
    PROVE  wfStatus' \in Reachable
<1> DEFINE n == Head(todo)
<1>1. n \in Nodes
  BY DEF TypeOK, Activate
<1>2. wfStatus \in Reachable
  BY DEF Reachable
<1> HIDE DEF n
<1>3. CASE SkipJoin(n) \/ EnterTask(n) \/ EnterApproval(n)
  BY <1>3 DEF SkipJoin, EnterTask, EnterApproval, Reachable
<1>4. CASE ExceedVisits(n)
  BY <1>4 DEF ExceedVisits, Finish, Reachable
<1>5. CASE EnterGateway(n)
  BY <1>5, <1>2, RouteStatus DEF EnterGateway
<1>6. CASE EnterTerminal(n)
  BY <1>6, <1>1, ConstantTypes DEF EnterTerminal, Finish, Reachable
<1> QED
  BY <1>3, <1>4, <1>5, <1>6 DEF Activate, n

LEMMA StatusStep ==
    ASSUME TypeOK, Next
    PROVE  wfStatus' \in Reachable \/ Cancel
<1>1. wfStatus \in Reachable /\ "running" \in Reachable
  BY DEF Reachable
<1>2. \A n : FailNode(n) => wfStatus' \in Reachable
  BY DEF FailNode, Finish, Reachable
<1>3. \A n, v, o, output : CompleteNode(n, v, o, output) => wfStatus' \in Reachable
  BY <1>1, RouteStatus DEF CompleteNode
<1>4. \A n : BeginNode(n) => wfStatus' \in Reachable
  BY <1>1 DEF BeginNode
<1>5. CASE Start
  BY <1>5, <1>1 DEF Start
<1>6. CASE Activate
  BY <1>6, ActivateStatus
<1>7. CASE ClaimSome \/ RecoverSome
  BY <1>7, <1>2, <1>4 DEF ClaimSome, RecoverSome, ClaimNext, RecoverExpired
<1>8. ASSUME NEW c \in claims, NEW lag \in 0 .. MaxLag,
             \/ Heartbeat(c, lag) \/ Fail(c, lag)
             \/ \E o \in {"success", "failure"}, output \in Outputs :
                   Complete(c, lag, o, output)
      PROVE  wfStatus' \in Reachable
  BY <1>8, <1>1, <1>2, <1>3 DEF Heartbeat, Fail, Complete
<1>9. ASSUME NEW n \in Nodes,
             \/ BeginTask(n) \/ FailTask(n)
             \/ \E o \in {"success", "failure"}, output \in Outputs :
                   CompleteTask(n, o, output)
      PROVE  wfStatus' \in Reachable
  BY <1>9, <1>2, <1>3, <1>4 DEF BeginTask, FailTask, CompleteTask
<1>10. ASSUME NEW n \in Nodes, NEW o \in {"approved", "rejected"}, ResolveApproval(n, o)
       PROVE  wfStatus' \in Reachable
  BY <1>10, <1>1, RouteStatus DEF ResolveApproval
<1>11. CASE Tick
  BY <1>11, <1>1 DEF Tick
<1> QED
  BY <1>5, <1>6, <1>7, <1>8, <1>9, <1>10, <1>11 DEF Next

(* The engine refines WorkflowStatus: whatever graph it runs on, callers   *)
(* see a status that starts once, stays open, and ends once.               *)
THEOREM LifecycleRefined == Spec => KeepsLifecycle
<1>1. Init => Lifecycle!Init
  BY DEF Init, Lifecycle!Init
<1>2. IInv /\ [Next]_vars => [Lifecycle!Next]_wfStatus
  <2> SUFFICES ASSUME IInv, Next, wfStatus' # wfStatus
               PROVE  Lifecycle!Next
    BY DEF vars
  <2>1. TypeOK /\ wfStatus \in WorkflowStatuses
    BY DEF IInv, TypeOK
  <2>2. wfStatus \notin Terminal
    BY TerminalStep
  <2>3. wfStatus \in {"pending", "running", "awaiting_approval"}
    BY <2>1, <2>2 DEF WorkflowStatuses, Terminal
  <2>4. CASE wfStatus' \in Reachable
    BY <2>3, <2>4 DEF Reachable, Lifecycle!Next, Lifecycle!Start, Lifecycle!Advance,
       Lifecycle!Open, Lifecycle!Finished
  <2>5. CASE Cancel
    BY <2>3, <2>5 DEF Cancel, Finish, Lifecycle!Next, Lifecycle!Cancel, Lifecycle!Open
  <2> QED
    BY <2>1, <2>4, <2>5, StatusStep
<1> QED
  BY <1>1, <1>2, Invariance, PTL DEF Spec, KeepsLifecycle, Lifecycle!Spec

(* On every valid definition, only the last worker that was given a node   *)
(* can report, and no attempt of a visit is given out twice (claim_next).  *)
THEOREM ClaimsAreFenced == Spec => []ClaimsFenced
  BY Fencing, ClaimedOnce, PTL DEF ClaimsFenced

(* On every valid definition the workflow's status tells what its nodes    *)
(* are (_fail, _cancel_active_nodes, resolve_approval).                    *)
THEOREM StatusIsTelling == Spec => []StatusTellsNodes
  BY Quiescence, Approvable, PTL DEF StatusTellsNodes

(* On every valid definition visits and attempts are bounded and a visit   *)
(* stores at most one artifact (_activate, complete_task).                 *)
THEOREM VisitsAreAccounted == Spec => []VisitsAccounted
  BY ArtifactOnce, Limits, PTL DEF VisitsAccounted

-----------------------------------------------------------------------------
(* A finished node is reopened only by a fresh visit.                      *)

Afresh ==
    \A m \in Nodes :
        /\ (nodeStatus[m] \in {"succeeded", "failed", "cancelled"} /\ nodeStatus'[m] # nodeStatus[m]) =>
              visit'[m] = visit[m] + 1
        /\ visit'[m] # visit[m] =>
              visit'[m] = visit[m] + 1 /\ attempt'[m] = 0 /\ lease'[m] = NoLease

(* Ending a workflow and routing change no node that was not active, and   *)
(* give out no lease.                                                      *)
LEMMA FinishKeepsFinished ==
    ASSUME NEW ns, NEW ls, NEW status, Finish(status, ns, ls)
    PROVE  \A m \in Nodes : /\ ns[m] \notin Active => nodeStatus'[m] = ns[m]
                            /\ ls[m] = NoLease => lease'[m] = NoLease
BY DEF Finish, CancelledStatuses, CancelledLeases

(* So does routing. *)
LEMMA RouteKeepsFinished ==
    ASSUME NEW n, NEW o, NEW output, NEW status, NEW ns, NEW ls, NEW rest,
           Route(n, o, output, status, ns, ls, rest)
    PROVE  \A m \in Nodes : /\ ns[m] \notin Active => nodeStatus'[m] = ns[m]
                            /\ ls[m] = NoLease => lease'[m] = NoLease
BY FinishKeepsFinished DEF Route

(* Setting the status of an active node, and nothing else, is no revisit. *)
LEMMA ActiveChanges ==
    ASSUME TypeOK, NEW n \in Nodes, nodeStatus[n] \in Active, visit' = visit,
           \A m \in Nodes : m # n /\ nodeStatus[m] \notin Active => nodeStatus'[m] = nodeStatus[m]
    PROVE  Afresh
BY DEF Afresh, Active

(* An accepted completion reopens nothing. *)
LEMMA CompleteAfresh ==
    ASSUME TypeOK, NEW n \in Nodes, NEW v, NEW o, NEW output, nodeStatus[n] \in Active,
           CompleteNode(n, v, o, output)
    PROVE  Afresh
<1>1. PICK ns \in [Nodes -> NodeStatuses] : ns = [nodeStatus EXCEPT ![n] = "succeeded"]
  BY DEF TypeOK, NodeStatuses
<1>2. \A m \in Nodes : m # n => ns[m] = nodeStatus[m]
  BY <1>1 DEF TypeOK
<1>3. Route(n, o, output, wfStatus, ns, [lease EXCEPT ![n] = NoLease], <<>>) /\ visit' = visit
  BY <1>1 DEF CompleteNode
<1>4. \A m \in Nodes : ns[m] \notin Active => nodeStatus'[m] = ns[m]
  BY <1>3, RouteKeepsFinished
<1> QED
  BY <1>2, <1>3, <1>4, ActiveChanges

(* Nor does a failure, reported or by expiry. *)
LEMMA FailAfresh ==
    ASSUME TypeOK, NEW n \in Nodes, nodeStatus[n] \in Active, FailNode(n)
    PROVE  Afresh
<1>1. PICK ns \in [Nodes -> NodeStatuses] : ns = [nodeStatus EXCEPT ![n] = "failed"]
  BY DEF TypeOK, NodeStatuses
<1>2. \A m \in Nodes : m # n => ns[m] = nodeStatus[m]
  BY <1>1 DEF TypeOK
<1>3. visit' = visit
  BY DEF FailNode
<1>4. CASE nodeStatus' = [nodeStatus EXCEPT ![n] = "ready"]
  BY <1>3, <1>4, ActiveChanges DEF TypeOK
<1>5. CASE Finish("failed", ns, [lease EXCEPT ![n] = NoLease])
  <2>1. \A m \in Nodes : ns[m] \notin Active => nodeStatus'[m] = ns[m]
    BY <1>5, FinishKeepsFinished
  <2> QED
    BY <1>2, <1>3, <2>1, ActiveChanges
<1> QED
  BY <1>1, <1>4, <1>5 DEF FailNode

(* _activate reopens a node by a new visit only. *)
LEMMA ActivateAfresh ==
    ASSUME TypeOK, Activate
    PROVE  Afresh
<1>1. PICK n \in Nodes : n = Head(todo)
  BY DEF TypeOK, Activate
<1>2. /\ nodeStatus \in [Nodes -> NodeStatuses] /\ visit \in [Nodes -> Nat]
      /\ attempt \in [Nodes -> Nat] /\ lease \in [Nodes -> Leases]
  BY DEF TypeOK
<1>3. ASSUME NEW o, EnterNode(n, o), lease'[n] = NoLease,
             \A m \in Nodes : m # n /\ nodeStatus[m] \notin Active => nodeStatus'[m] = nodeStatus[m]
      PROVE  Afresh
  <2>1. visit'[n] = visit[n] + 1 /\ attempt'[n] = 0 /\ \A m \in Nodes : m # n => visit'[m] = visit[m]
    BY <1>2, <1>3 DEF EnterNode
  <2> QED
    BY <1>3, <2>1 DEF Afresh, Active
<1>4. CASE SkipJoin(n)
  BY <1>4 DEF SkipJoin, nodeVars, Afresh
<1>5. CASE ExceedVisits(n)
  <2>1. \A m \in Nodes : nodeStatus[m] \notin Active => nodeStatus'[m] = nodeStatus[m]
    BY <1>5, FinishKeepsFinished DEF ExceedVisits
  <2> QED
    BY <1>5, <2>1 DEF ExceedVisits, Afresh, Active
<1>6. CASE EnterTask(n) \/ EnterApproval(n)
  BY <1>2, <1>3, <1>6 DEF EnterTask, EnterApproval
<1>7. PICK ns \in [Nodes -> NodeStatuses] : ns = [nodeStatus EXCEPT ![n] = "succeeded"]
  BY <1>2 DEF NodeStatuses
<1>8. PICK ls : ls = [lease EXCEPT ![n] = NoLease]
  OBVIOUS
<1>9. ls[n] = NoLease /\ \A m \in Nodes : m # n => ns[m] = nodeStatus[m]
  BY <1>2, <1>7, <1>8
<1>10. CASE EnterGateway(n)
  <2>1. Route(n, "success", NoValue, wfStatus, ns, ls, Tail(todo)) /\ EnterNode(n, "success")
    BY <1>7, <1>8, <1>10 DEF EnterGateway
  <2>2. \A m \in Nodes : /\ ns[m] \notin Active => nodeStatus'[m] = ns[m]
                         /\ ls[m] = NoLease => lease'[m] = NoLease
    BY <2>1, RouteKeepsFinished
  <2> QED
    BY <1>3, <1>9, <2>1, <2>2
<1>11. CASE EnterTerminal(n)
  <2>1. Finish(TerminalStatus[n], ns, ls) /\ EnterNode(n, "success")
    BY <1>7, <1>8, <1>11 DEF EnterTerminal
  <2>2. \A m \in Nodes : /\ ns[m] \notin Active => nodeStatus'[m] = ns[m]
                         /\ ls[m] = NoLease => lease'[m] = NoLease
    BY <2>1, FinishKeepsFinished
  <2> QED
    BY <1>3, <1>9, <2>1, <2>2
<1> QED
  BY <1>1, <1>4, <1>5, <1>6, <1>10, <1>11 DEF Activate

(* No step reopens a node in another way. *)
LEMMA StepAfresh ==
    ASSUME IInv, Next
    PROVE  Afresh
<1>1. TypeOK
  BY DEF IInv
<1>2. \A c \in claims : c.node \in Nodes
  BY <1>1 DEF TypeOK, Claims
<1>3. ASSUME NEW n \in Nodes, BeginNode(n)
      PROVE  Afresh
  BY <1>1, <1>3, ActiveChanges DEF BeginNode, TypeOK, Active
<1>4. CASE Start \/ Tick
  BY <1>4 DEF Start, Tick, nodeVars, Afresh
<1>5. CASE Activate
  BY <1>1, <1>5, ActivateAfresh
<1>6. CASE ClaimSome \/ RecoverSome
  BY <1>1, <1>3, <1>6, FailAfresh DEF ClaimSome, RecoverSome, ClaimNext, RecoverExpired, Active
<1>7. ASSUME NEW c \in claims, NEW lag \in 0 .. MaxLag, Heartbeat(c, lag)
      PROVE  Afresh
  BY <1>7 DEF Heartbeat, Afresh
<1>8. ASSUME NEW c \in claims, NEW lag \in 0 .. MaxLag,
             \/ Fail(c, lag)
             \/ \E o \in {"success", "failure"}, output \in Outputs :
                   Complete(c, lag, o, output)
      PROVE  Afresh
  BY <1>1, <1>2, <1>8, FailAfresh, CompleteAfresh DEF Fail, Complete, Active
<1>9. ASSUME NEW n \in Nodes,
             \/ BeginTask(n) \/ FailTask(n)
             \/ \E o \in {"success", "failure"}, output \in Outputs :
                   CompleteTask(n, o, output)
      PROVE  Afresh
  BY <1>1, <1>3, <1>9, FailAfresh, CompleteAfresh DEF BeginTask, FailTask, CompleteTask, Active
<1>10. ASSUME NEW n \in Nodes, NEW o \in {"approved", "rejected"}, ResolveApproval(n, o)
       PROVE  Afresh
  <2>1. PICK ns \in [Nodes -> NodeStatuses] : ns = [nodeStatus EXCEPT ![n] = "succeeded"]
    BY <1>1 DEF TypeOK, NodeStatuses
  <2>2. \A m \in Nodes : m # n => ns[m] = nodeStatus[m]
    BY <1>1, <2>1 DEF TypeOK
  <2>3. Route(n, o, NoValue, "running", ns, lease, <<>>) /\ visit' = visit /\ nodeStatus[n] \in Active
    BY <1>10, <2>1 DEF ResolveApproval, Active
  <2>4. \A m \in Nodes : ns[m] \notin Active => nodeStatus'[m] = ns[m]
    BY <2>3, RouteKeepsFinished
  <2> QED
    BY <1>1, <2>2, <2>3, <2>4, ActiveChanges
<1>11. CASE Cancel
  <2>1. \A m \in Nodes : nodeStatus[m] \notin Active => nodeStatus'[m] = nodeStatus[m]
    BY <1>11, FinishKeepsFinished DEF Cancel
  <2> QED
    BY <1>11, <2>1 DEF Cancel, Afresh, Active
<1> QED
  BY <1>4, <1>5, <1>6, <1>7, <1>8, <1>9, <1>10, <1>11 DEF Next

(* On every valid definition a finished node changes only by a new visit,  *)
(* which starts without attempts and without lease (_activate).            *)
THEOREM RevisitsAfresh == Spec => RevisitStartsAfresh
<1>1. IInv /\ [Next]_vars =>
        [\A n \in Nodes :
          /\ nodeStatus[n] \in {"succeeded", "failed", "cancelled"}
             /\ nodeStatus'[n] # nodeStatus[n] => visit'[n] = visit[n] + 1
          /\ visit'[n] # visit[n] =>
                visit'[n] = visit[n] + 1 /\ attempt'[n] = 0 /\ lease'[n] = NoLease]_vars
  BY StepAfresh DEF Afresh
<1> QED
  BY <1>1, Invariance, PTL DEF Spec, RevisitStartsAfresh

(* On every valid definition each step moves the status as the lifecycle   *)
(* allows, leaves an ended workflow alone and reopens a node only by a     *)
(* fresh visit.                                                            *)
THEOREM StepsAreLegal == Spec => StepsLegal
  BY LifecycleRefined, Finality, RevisitsAfresh, PTL DEF StepsLegal

-----------------------------------------------------------------------------
(***************************************************************************)
(* How a step moves an open workflow over its graph.  The two theorems     *)
(* below this part rest on it: what a node needs is there when the node is *)
(* ready, and a workflow that runs has something to do.                    *)
(***************************************************************************)

Listed(s) == {s[i] : i \in 1 .. Len(s)}

(* T are targets that routing can select at n; a fork selects all of them. *)
Selects(n, T) ==
    /\ T # {}
    /\ \A t \in T : Adjacent(n, t)
    /\ Kind[n] = "fork" => \A t \in Nodes : Adjacent(n, t) => t \in T

(* The members of an empty list, of a concatenation and of a tail. *)
LEMMA ListedEmpty == ASSUME NEW s, s = <<>> PROVE Listed(s) = {}
<1>1. Len(s) = 0
  OBVIOUS
<1> QED
  BY <1>1 DEF Listed

LEMMA ListedConcat ==
    ASSUME NEW s \in Seq(Nodes), NEW t \in Seq(Nodes)
    PROVE  Listed(s \o t) = Listed(s) \union Listed(t)
<1>1. /\ Len(s \o t) = Len(s) + Len(t)
      /\ \A i \in 1 .. Len(s) + Len(t) : (s \o t)[i] = IF i <= Len(s) THEN s[i] ELSE t[i - Len(s)]
  BY ConcatProperties
<1>2. Len(s) \in Nat /\ Len(t) \in Nat
  OBVIOUS
<1>3. PICK u : u = s \o t
  OBVIOUS
<1>4. ASSUME NEW i \in 1 .. Len(u) PROVE u[i] \in Listed(s) \union Listed(t)
  <2>1. i \in 1 .. Len(s) + Len(t)
    BY <1>1, <1>3
  <2>2. CASE i <= Len(s)
    BY <1>1, <1>2, <1>3, <2>1, <2>2 DEF Listed
  <2>3. CASE ~ (i <= Len(s))
    <3>1. i - Len(s) \in 1 .. Len(t)
      BY <1>2, <2>1, <2>3
    <3> QED
      BY <1>1, <1>3, <2>1, <2>3, <3>1 DEF Listed
  <2> QED
    BY <2>2, <2>3
<1>5. ASSUME NEW i \in 1 .. Len(s) PROVE s[i] \in Listed(u)
  <2>1. i \in 1 .. Len(u) /\ u[i] = s[i]
    BY <1>1, <1>2, <1>3
  <2> QED
    BY <2>1 DEF Listed
<1>6. ASSUME NEW i \in 1 .. Len(t) PROVE t[i] \in Listed(u)
  <2>1. i + Len(s) \in 1 .. Len(s) + Len(t) /\ ~ (i + Len(s) <= Len(s))
        /\ (i + Len(s)) - Len(s) = i
    BY <1>2
  <2>2. u[i + Len(s)] = t[i]
    BY <1>1, <1>3, <2>1
  <2> QED
    BY <1>1, <1>3, <2>1, <2>2 DEF Listed
<1>7. Listed(u) \subseteq Listed(s) \union Listed(t)
  BY <1>4 DEF Listed
<1>8. Listed(s) \subseteq Listed(u) /\ Listed(t) \subseteq Listed(u)
  <2>1. \A x \in Listed(s) : x \in Listed(u)
    <3>1. ASSUME NEW x \in Listed(s) PROVE \E i \in 1 .. Len(s) : x = s[i]
      BY DEF Listed
    <3> QED
      BY <1>5, <3>1
  <2>2. \A x \in Listed(t) : x \in Listed(u)
    <3>1. ASSUME NEW x \in Listed(t) PROVE \E i \in 1 .. Len(t) : x = t[i]
      BY DEF Listed
    <3> QED
      BY <1>6, <3>1
  <2> QED
    BY <2>1, <2>2
<1> QED
  BY <1>3, <1>7, <1>8

LEMMA ListedTail ==
    ASSUME NEW s \in Seq(Nodes), s # <<>>
    PROVE  Listed(s) = {Head(s)} \union Listed(Tail(s))
<1>1. /\ Len(s) \in Nat \ {0} /\ Head(s) = s[1]
      /\ Len(Tail(s)) = Len(s) - 1
      /\ \A i \in 1 .. Len(Tail(s)) : Tail(s)[i] = s[i + 1]
  BY HeadTailProperties
<1>2. PICK u : u = Tail(s)
  OBVIOUS
<1>3. ASSUME NEW i \in 1 .. Len(s) PROVE s[i] \in {Head(s)} \union Listed(u)
  <2>1. CASE i = 1
    BY <1>1, <2>1
  <2>2. CASE i # 1
    <3>1. i - 1 \in 1 .. Len(u) /\ (i - 1) + 1 = i
      BY <1>1, <1>2, <2>2
    <3> QED
      BY <1>1, <1>2, <3>1 DEF Listed
  <2> QED
    BY <2>1, <2>2
<1>4. ASSUME NEW i \in 1 .. Len(u) PROVE u[i] \in Listed(s)
  <2>1. i + 1 \in 1 .. Len(s) /\ u[i] = s[i + 1]
    BY <1>1, <1>2
  <2> QED
    BY <2>1 DEF Listed
<1>5. Head(s) \in Listed(s)
  BY <1>1 DEF Listed
<1> QED
  BY <1>2, <1>3, <1>4, <1>5 DEF Listed

(* `sorted` lists every member: a listing is one-to-one, and as long as    *)
(* the set is large.                                                       *)
LEMMA ListingListsAll ==
    ASSUME NEW S \in SUBSET Nodes, NEW s \in SortedListings(S)
    PROVE  Listed(s) = S
<1>1. IsFiniteSet(S)
  BY FS_Subset, DefinitionAssumption DEF ValidDefinition, ValidNodes
<1>2. PICK c \in Nat : c = Cardinality(S)
  BY <1>1, FS_CardinalityType
<1>3. /\ s \in [1 .. c -> S]
      /\ \A i, j \in 1 .. c : i < j => KeyOrder[s[i]] < KeyOrder[s[j]]
  BY <1>2 DEF SortedListings
<1>4. KeyOrder \in [Nodes -> Nat]
  BY DefinitionAssumption DEF ValidDefinition, ValidNodes
<1>5. ASSUME NEW i \in 1 .. c, NEW j \in 1 .. c, s[i] = s[j] PROVE i = j
  <2>1. KeyOrder[s[i]] \in Nat /\ KeyOrder[s[i]] = KeyOrder[s[j]]
    BY <1>3, <1>4, <1>5
  <2> QED
    BY <1>3, <2>1
<1>6. Len(s) = c
  BY <1>2, <1>3
<1>7. ASSUME NEW x \in S, \A i \in 1 .. c : s[i] # x PROVE FALSE
  <2>1. s \in [1 .. c -> S \ {x}]
    BY <1>3, <1>7
  <2>2. IsFiniteSet(1 .. c) /\ Cardinality(1 .. c) = c
    BY FS_Interval
  <2>3. IsFiniteSet(S \ {x}) /\ Cardinality(S \ {x}) = c - 1
    BY <1>1, <1>2, FS_RemoveElement
  <2>4. Cardinality(S \ {x}) < Cardinality(1 .. c)
    BY <2>2, <2>3
  <2>5. \E i, j \in 1 .. c : i # j /\ s[i] = s[j]
    BY <2>1, <2>2, <2>3, <2>4, FS_PigeonHole
  <2> QED
    BY <1>5, <2>5
<1>8. Listed(s) \subseteq S
  BY <1>3, <1>6 DEF Listed
<1> QED
  BY <1>6, <1>7, <1>8 DEF Listed

(* What is selected has an edge; a fork, whose edges are unconditional and *)
(* have the one outcome, selects every neighbour.                          *)
LEMMA SelectedTargets ==
    ASSUME NEW n \in Nodes, NEW o, NEW output, SelectTargets(n, o, output) # {},
           Kind[n] = "fork" => o = "success"
    PROVE  Selects(n, SelectTargets(n, o, output))
<1>1. /\ Edges \subseteq [source : Nodes, outcome : NodeOutcomes,
                          target : Nodes, condition : Outputs]
      /\ \A e \in Edges : /\ e.outcome \in AllowedOutcomes[Kind[e.source]]
                          /\ e.condition # NoValue => Kind[e.source] = "task"
  BY DefinitionAssumption DEF ValidDefinition, ValidEdges
<1>2. \A t \in SelectTargets(n, o, output) : Adjacent(n, t)
  BY DEF SelectTargets, RouteEdges, Adjacent
<1>3. ASSUME Kind[n] = "fork", NEW t \in Nodes, Adjacent(n, t)
      PROVE  t \in SelectTargets(n, o, output)
  <2>1. PICK e \in Edges : e.source = n /\ e.target = t
    BY <1>3 DEF Adjacent
  <2>2. e.outcome = o
    BY <1>1, <1>3, <2>1 DEF AllowedOutcomes
  <2>3. e \in RouteEdges(n, o)
    BY <2>1, <2>2 DEF RouteEdges
  <2>4. {d \in RouteEdges(n, o) : d.condition # NoValue} = {}
    BY <1>1, <1>3 DEF RouteEdges
  <2> QED
    BY <2>1, <2>3, <2>4 DEF SelectTargets
<1> QED
  BY <1>2, <1>3 DEF Selects

(* _route, when it does not end the workflow. *)
LEMMA RouteMoves ==
    ASSUME NEW n \in Nodes, NEW o, NEW output, NEW status, NEW ns, NEW ls,
           NEW rest \in Seq(Nodes), Kind[n] = "fork" => o = "success",
           Route(n, o, output, status, ns, ls, rest), wfStatus' \notin Terminal
    PROVE  /\ nodeStatus' = ns /\ wfStatus' = status
           /\ \E T \in SUBSET Nodes : Selects(n, T) /\ Listed(todo') = T \union Listed(rest)
<1>1. PICK T \in SUBSET Nodes : T = SelectTargets(n, o, output)
  BY TargetsAreNodes
<1>2. /\ T # {} /\ nodeStatus' = ns /\ wfStatus' = status
      /\ \E s \in SortedListings(T) : todo' = s \o rest
  BY <1>1 DEF Route, Finish, Terminal
<1>3. PICK s \in SortedListings(T) : todo' = s \o rest
  BY <1>2
<1>4. s \in Seq(Nodes) /\ Listed(s) = T
  BY ListingIsSeq, ListingListsAll
<1>5. Listed(todo') = T \union Listed(rest)
  BY <1>3, <1>4, ListedConcat
<1> QED
  BY <1>1, <1>2, <1>5, SelectedTargets

(* The moves.  Nothing is routed; *)
Quiet ==
    /\ Listed(todo') = Listed(todo) /\ UNCHANGED <<wfStatus, visit>>
    /\ \A m \in Nodes : /\ nodeStatus[m] \in Active => nodeStatus'[m] \in Active
                        /\ nodeStatus'[m] = "succeeded" <=> nodeStatus[m] = "succeeded"

(* the workflow starts; *)
Starts ==
    /\ wfStatus = "pending" /\ wfStatus' = "running"
    /\ Listed(todo') = {Entry} /\ UNCHANGED <<nodeStatus, visit>>

(* a join is passed over because a source is missing; *)
Skips(n) ==
    /\ Kind[n] = "join" /\ ~ JoinIsReady(n)
    /\ Listed(todo) = {n} \union Listed(todo')
    /\ UNCHANGED <<nodeStatus, visit>>

(* a task or an approval is entered and waits; *)
Waits(n) ==
    /\ Kind[n] \in {"task", "approval"}
    /\ Listed(todo) = {n} \union Listed(todo')
    /\ nodeStatus'[n] \in Active
    /\ \A m \in Nodes : m # n => nodeStatus'[m] = nodeStatus[m] /\ visit'[m] = visit[m]

(* a node succeeds, having waited or at once, and its targets are listed.  *)
Routes(n) ==
    /\ nodeStatus[n] \in Active \/ n \in Listed(todo)
    /\ nodeStatus'[n] = "succeeded"
    /\ Kind[n] = "join" => JoinIsReady(n)
    /\ visit'[n] = visit[n] \/ n \in Listed(todo)
    /\ \A m \in Nodes : m # n => nodeStatus'[m] = nodeStatus[m] /\ visit'[m] = visit[m]
    /\ \E T \in SUBSET Nodes :
          /\ Selects(n, T)
          /\ T \subseteq Listed(todo')
          /\ Listed(todo') \subseteq T \union Listed(todo)
          /\ Listed(todo) \subseteq {n} \union Listed(todo')

Moves == \/ Quiet \/ Starts
         \/ \E n \in Nodes : Skips(n) \/ Waits(n) \/ Routes(n)

(* A task or an approval that was waiting succeeds. *)
LEMMA WaitedRoutes ==
    ASSUME TypeOK, Committed, NEW n \in Nodes, NEW o, NEW output, NEW status, NEW ls,
           Kind[n] \in {"task", "approval"}, nodeStatus[n] \in Active, visit' = visit,
           Route(n, o, output, status, [nodeStatus EXCEPT ![n] = "succeeded"], ls, <<>>),
           wfStatus' \notin Terminal
    PROVE  Routes(n)
<1>1. PICK ns \in [Nodes -> NodeStatuses] : ns = [nodeStatus EXCEPT ![n] = "succeeded"]
  BY DEF TypeOK, NodeStatuses
<1>2. ns[n] = "succeeded" /\ \A m \in Nodes : m # n => ns[m] = nodeStatus[m]
  BY <1>1 DEF TypeOK
<1>3. PICK e \in Seq(Nodes) : e = <<>>
  <2>1. <<>> \in Seq(Nodes)
    OBVIOUS
  <2> QED
    BY <2>1
<1>4. Route(n, o, output, status, ns, ls, e)
  BY <1>1, <1>3
<1>5. /\ nodeStatus' = ns
      /\ \E T \in SUBSET Nodes : Selects(n, T) /\ Listed(todo') = T \union Listed(e)
  BY <1>4, RouteMoves
<1>6. Listed(e) = {} /\ Listed(todo) = {}
  BY <1>3, ListedEmpty DEF Committed
<1>7. \E T \in SUBSET Nodes :
         /\ Selects(n, T)
         /\ T \subseteq Listed(todo')
         /\ Listed(todo') \subseteq T \union Listed(todo)
         /\ Listed(todo) \subseteq {n} \union Listed(todo')
  BY <1>5, <1>6
<1> QED
  BY <1>2, <1>5, <1>7 DEF Routes

(* _activate, when it does not end the workflow. *)
LEMMA ActivateMoves ==
    ASSUME IInv, Activate, wfStatus' \notin Terminal
    PROVE  Moves
<1>1. todo # <<>> /\ todo \in Seq(Nodes)
  BY DEF Activate, IInv, TypeOK
<1>2. PICK n \in Nodes : n = Head(todo)
  BY <1>1
<1>3. PICK rest \in Seq(Nodes) : rest = Tail(todo)
  <2>1. Tail(todo) \in Seq(Nodes)
    BY <1>1
  <2> QED
    BY <2>1
<1>4. Listed(todo) = {n} \union Listed(rest)
  BY <1>1, <1>2, <1>3, ListedTail
<1>5. nodeStatus \in [Nodes -> NodeStatuses] /\ visit \in [Nodes -> Nat]
  BY DEF IInv, TypeOK
<1>6. ASSUME NEW o, EnterNode(n, o)
      PROVE  /\ \A m \in Nodes : m # n => visit'[m] = visit[m]
             /\ Kind[n] = "join" => JoinIsReady(n)
  BY <1>5, <1>6 DEF EnterNode
<1>7. CASE SkipJoin(n)
  BY <1>3, <1>4, <1>7 DEF SkipJoin, nodeVars, Skips, Moves
<1>8. ~ ExceedVisits(n)
  BY DEF ExceedVisits, Finish, Terminal
<1>9. CASE EnterTask(n) \/ EnterApproval(n)
  <2>1. nodeStatus'[n] \in Active /\ \A m \in Nodes : m # n => nodeStatus'[m] = nodeStatus[m]
    BY <1>5, <1>9 DEF EnterTask, EnterApproval, Active
  <2>2. \A m \in Nodes : m # n => visit'[m] = visit[m]
    BY <1>6, <1>9 DEF EnterTask, EnterApproval
  <2>3. Kind[n] \in {"task", "approval"} /\ todo' = rest
    BY <1>3, <1>9 DEF EnterTask, EnterApproval
  <2> QED
    BY <1>4, <2>1, <2>2, <2>3 DEF Waits, Moves
<1>10. CASE EnterGateway(n)
  <2>1. PICK ns \in [Nodes -> NodeStatuses] : ns = [nodeStatus EXCEPT ![n] = "succeeded"]
    BY <1>5 DEF NodeStatuses
  <2>2. ns[n] = "succeeded" /\ \A m \in Nodes : m # n => ns[m] = nodeStatus[m]
    BY <1>5, <2>1
  <2>3. /\ Route(n, "success", NoValue, wfStatus, ns, [lease EXCEPT ![n] = NoLease], rest)
        /\ EnterNode(n, "success")
    BY <1>3, <1>10, <2>1 DEF EnterGateway
  <2>4. /\ nodeStatus' = ns
        /\ \E T \in SUBSET Nodes : Selects(n, T) /\ Listed(todo') = T \union Listed(rest)
    BY <2>3, RouteMoves
  <2>5. \E T \in SUBSET Nodes :
           /\ Selects(n, T)
           /\ T \subseteq Listed(todo')
           /\ Listed(todo') \subseteq T \union Listed(todo)
           /\ Listed(todo) \subseteq {n} \union Listed(todo')
    BY <1>4, <2>4
  <2> QED
    BY <1>4, <1>6, <2>2, <2>3, <2>4, <2>5 DEF Routes, Moves
<1>11. ~ EnterTerminal(n)
  BY ConstantTypes DEF EnterTerminal, Finish, Terminal
<1> QED
  BY <1>2, <1>7, <1>8, <1>9, <1>10, <1>11 DEF Activate

(* Every step that leaves a workflow open is one of the moves. *)
LEMMA StepMoves ==
    ASSUME IInv, [Next]_vars, wfStatus' \notin Terminal
    PROVE  Moves
<1>1. TypeOK
  BY DEF IInv
<1>2. \A c \in claims : c.node \in Nodes
  BY <1>1 DEF TypeOK, Claims
<1>3. /\ nodeStatus \in [Nodes -> NodeStatuses]
      /\ \A m \in Nodes : nodeStatus[m] = "awaiting_approval" => Kind[m] = "approval"
      /\ \A m \in Nodes : nodeStatus[m] = "running" => Kind[m] = "task"
  BY <1>1 DEF TypeOK, IInv, Core, VisitPart
<1>4. ASSUME UNCHANGED <<wfStatus, nodeStatus, visit, todo>> PROVE Moves
  BY <1>4 DEF Quiet, Moves
<1>5. ASSUME NEW n \in Nodes, NEW x \in Active, nodeStatus[n] \in Active, UNCHANGED <<wfStatus, visit, todo>>,
             nodeStatus' = [nodeStatus EXCEPT ![n] = x]
      PROVE  Moves
  BY <1>3, <1>5 DEF Quiet, Moves, Active
<1>6. ASSUME NEW n \in Nodes, BeginNode(n) PROVE Moves
  BY <1>5, <1>6 DEF BeginNode, Active
<1>7. ASSUME NEW n \in Nodes, nodeStatus[n] = "running", FailNode(n) PROVE Moves
  BY <1>5, <1>7 DEF FailNode, Finish, Terminal, Active
<1>8. ASSUME NEW n \in Nodes, NEW v, NEW o, NEW output, nodeStatus[n] = "running", Committed,
             CompleteNode(n, v, o, output)
      PROVE  Moves
  <2>1. /\ Kind[n] \in {"task", "approval"} /\ nodeStatus[n] \in Active
        /\ visit' = visit
        /\ Route(n, o, output, wfStatus, [nodeStatus EXCEPT ![n] = "succeeded"],
                 [lease EXCEPT ![n] = NoLease], <<>>)
    BY <1>3, <1>8 DEF CompleteNode, Active
  <2>2. Routes(n)
    BY <1>1, <1>8, <2>1, WaitedRoutes
  <2> QED
    BY <2>2 DEF Moves
<1>9. CASE Start
  <2>1. todo' = <<Entry>> /\ wfStatus = "pending" /\ wfStatus' = "running" /\ UNCHANGED <<nodeStatus, visit>>
    BY <1>9 DEF Start, nodeVars
  <2>2. Listed(<<Entry>>) = {Entry}
    BY DEF Listed
  <2> QED
    BY <2>1, <2>2 DEF Starts, Moves
<1>10. CASE Activate
  BY <1>10, ActivateMoves
<1>11. CASE ClaimSome \/ RecoverSome
  BY <1>6, <1>7, <1>11 DEF ClaimSome, RecoverSome, ClaimNext, RecoverExpired
<1>12. ASSUME NEW n \in Nodes, NEW o \in {"approved", "rejected"}, ResolveApproval(n, o)
       PROVE  Moves
  <2>1. Kind[n] = "approval"
    BY <1>3, <1>12 DEF ResolveApproval
  <2>2. Routes(n)
    BY <1>1, <1>12, <2>1, WaitedRoutes DEF ResolveApproval, Active
  <2> QED
    BY <2>2 DEF Moves
<1>13. CASE Tick
  BY <1>4, <1>13 DEF Tick
<1>14. ~ Cancel
  BY DEF Cancel, Finish, Terminal
<1>15. CASE UNCHANGED vars
  BY <1>4, <1>15 DEF vars
<1>16. ASSUME NEW c \in claims, NEW lag \in 0 .. MaxLag,
              \/ Heartbeat(c, lag) \/ Fail(c, lag)
              \/ \E o \in {"success", "failure"}, output \in Outputs :
                    Complete(c, lag, o, output)
       PROVE  Moves
  BY <1>2, <1>4, <1>7, <1>8, <1>16 DEF Heartbeat, Fail, Complete
<1>17. ASSUME NEW n \in Nodes,
              \/ BeginTask(n) \/ FailTask(n)
              \/ \E o \in {"success", "failure"}, output \in Outputs :
                    CompleteTask(n, o, output)
       PROVE  Moves
  BY <1>6, <1>7, <1>8, <1>17 DEF BeginTask, FailTask, CompleteTask
<1> QED
  BY <1>9, <1>10, <1>11, <1>12, <1>13, <1>14, <1>15, <1>16, <1>17 DEF Next

(* A node is entered from the list, a join only when it is ready, and what *)
(* comes into the list is the entry or follows a node that has succeeded.  *)
EntersListed ==
    \A k \in Nodes : visit'[k] # visit[k] =>
        k \in Listed(todo) /\ (Kind[k] = "join" => JoinIsReady(k))

ListsFollowers ==
    \A k \in Listed(todo') :
        \/ k \in Listed(todo) \/ k = Entry
        \/ \E n \in Nodes : Adjacent(n, k) /\ nodeStatus'[n] = "succeeded"

(* Both hold of every move. *)
LEMMA MovesFlow ==
    ASSUME Moves
    PROVE  EntersListed /\ ListsFollowers
<1>1. CASE Quiet
  BY <1>1 DEF Quiet, EntersListed, ListsFollowers
<1>2. CASE Starts
  BY <1>2 DEF Starts, EntersListed, ListsFollowers
<1>3. ASSUME NEW n \in Nodes, Skips(n) \/ Waits(n)
      PROVE  EntersListed /\ ListsFollowers
  BY <1>3 DEF Skips, Waits, EntersListed, ListsFollowers
<1>4. ASSUME NEW n \in Nodes, Routes(n)
      PROVE  EntersListed /\ ListsFollowers
  <2>1. EntersListed
    BY <1>4 DEF Routes, EntersListed
  <2>2. PICK T \in SUBSET Nodes : Selects(n, T) /\ Listed(todo') \subseteq T \union Listed(todo)
    BY <1>4 DEF Routes
  <2>3. nodeStatus'[n] = "succeeded" /\ \A t \in T : Adjacent(n, t)
    BY <1>4, <2>2 DEF Routes, Selects
  <2> QED
    BY <2>1, <2>2, <2>3 DEF ListsFollowers
<1> QED
  BY <1>1, <1>2, <1>3, <1>4 DEF Moves

(* A workflow that is open after a step was open before it. *)
LEMMA OpenBefore ==
    ASSUME IInv, [Next]_vars, wfStatus' \notin Terminal
    PROVE  wfStatus \notin Terminal
BY TerminalStep

(* A join is not the entry, and has sources. *)
LEMMA JoinHasSources ==
    \A n \in Nodes : Kind[n] = "join" => n # Entry /\ IncomingSources(n) # {}
<1> SUFFICES ASSUME NEW n \in Nodes, Kind[n] = "join"
             PROVE  n # Entry /\ IncomingSources(n) # {}
  OBVIOUS
<1>1. ValidShape
  BY DefinitionAssumption DEF ValidDefinition
<1>2. n # Entry /\ Cardinality(IncomingSources(n)) >= 2
  BY <1>1, Zenon DEF ValidShape
<1>3. Cardinality({}) = 0
  BY FS_EmptySet
<1> QED
  BY <1>2, <1>3

-----------------------------------------------------------------------------
(* Required inputs.  As long as task m has stored nothing, an execution is *)
(* confined to any set of nodes it can reach before m.                     *)
Confined ==
    wfStatus \notin Terminal =>
        \A m \in Nodes, R \in SUBSET Nodes :
            Kind[m] = "task" /\ artifacts[m] = <<>> /\ ReachedBefore(m, R) =>
                \A k \in Nodes : /\ visit[k] > 0 => k \in R
                                 /\ k \in Listed(todo) /\ Kind[k] # "join" => k \in R

(* A step goes beyond such a set only once m has stored its artifact. *)
LEMMA ConfinedNext ==
    ASSUME IInv, IInv', Stored, Stored', Confined, [Next]_vars
    PROVE  Confined'
<1> SUFFICES ASSUME wfStatus' \notin Terminal, NEW m \in Nodes, NEW R \in SUBSET Nodes,
                    Kind[m] = "task", artifacts'[m] = <<>>, ReachedBefore(m, R)
             PROVE  \A k \in Nodes : /\ visit'[k] > 0 => k \in R
                                     /\ k \in Listed(todo') /\ Kind[k] # "join" => k \in R
  BY DEF Confined
<1>1. EntersListed /\ ListsFollowers
  BY StepMoves, MovesFlow
<1>2. artifacts[m] = <<>>
  <2>1. CASE UNCHANGED vars
    BY <2>1 DEF vars
  <2>2. CASE Next
    BY <2>2, StepEarned DEF Grows
  <2> QED
    BY <2>1, <2>2
<1>3. \A k \in Nodes : /\ visit[k] > 0 => k \in R
                       /\ k \in Listed(todo) /\ Kind[k] # "join" => k \in R
  BY <1>2, OpenBefore DEF Confined
<1>4. /\ visit \in [Nodes -> Nat] /\ visit' \in [Nodes -> Nat]
      /\ \A k \in Nodes : nodeStatus[k] = "succeeded" => visit[k] > 0
      /\ \A k \in Nodes : nodeStatus'[k] = "succeeded" => visit'[k] > 0
  <2>1. visit \in [Nodes -> Nat] /\ visit' \in [Nodes -> Nat]
    BY DEF IInv, TypeOK
  <2>2. \A k \in Nodes : nodeStatus[k] = "pending" <=> visit[k] = 0
    BY DEF IInv, Core, VisitPart
  <2>3. \A k \in Nodes : nodeStatus'[k] = "pending" <=> visit'[k] = 0
    BY DEF IInv, Core, VisitPart
  <2> QED
    BY <2>1, <2>2, <2>3
<1>5. nodeStatus[m] # "succeeded" /\ nodeStatus'[m] # "succeeded"
  BY <1>2 DEF Stored
<1>6. ASSUME NEW k \in Nodes, visit'[k] > 0
      PROVE  k \in R
  <2>1. CASE visit'[k] = visit[k]
    BY <1>3, <1>6, <2>1
  <2>2. CASE visit'[k] # visit[k] /\ Kind[k] # "join"
    BY <1>1, <1>3, <2>2 DEF EntersListed
  <2>3. CASE visit'[k] # visit[k] /\ Kind[k] = "join"
    <3>1. \A s \in IncomingSources(k) : s \in Nodes /\ nodeStatus[s] = "succeeded"
      BY <1>1, <2>3, SourcesAreNodes DEF EntersListed, JoinIsReady
    <3>2. IncomingSources(k) \subseteq R \ {m}
      BY <1>3, <1>4, <1>5, <3>1
    <3>3. PICK e \in Edges : e.target = k
      BY <2>3, JoinHasSources DEF IncomingSources
    <3>4. e.source \in IncomingSources(k)
      BY <3>3 DEF IncomingSources
    <3> QED
      BY <3>2, <3>3, <3>4 DEF ReachedBefore
  <2> QED
    BY <2>1, <2>2, <2>3
<1>7. ASSUME NEW k \in Nodes, k \in Listed(todo'), Kind[k] # "join"
      PROVE  k \in R
  <2>1. CASE k \in Listed(todo)
    BY <1>3, <1>7, <2>1
  <2>2. CASE k = Entry
    BY <2>2 DEF ReachedBefore
  <2>3. ASSUME NEW n \in Nodes, Adjacent(n, k), nodeStatus'[n] = "succeeded"
        PROVE  k \in R
    <3>1. n \in R \ {m}
      BY <1>4, <1>5, <1>6, <2>3
    <3>2. PICK e \in Edges : e.source = n /\ e.target = k
      BY <2>3 DEF Adjacent
    <3> QED
      BY <1>7, <3>1, <3>2 DEF ReachedBefore
  <2> QED
    BY <1>1, <1>7, <2>1, <2>2, <2>3 DEF ListsFollowers
<1> QED
  BY <1>6, <1>7

(* Validation asks that a required input is connected to the task that     *)
(* needs it.  Where the graph makes the input certain, not just possible,  *)
(* no task becomes ready and no join is entered before what it depends on  *)
(* has been stored (claim_next, _join_is_ready).                           *)
THEOREM SourcesComeFirst == ASSUME InputsCertain PROVE Spec => []SourcesFirst
<1>1. Init => Stored /\ Confined
  <2> SUFFICES ASSUME Init PROVE Stored /\ Confined
    OBVIOUS
  <2>1. \A n \in Nodes : nodeStatus[n] = "pending" /\ visit[n] = 0
    BY DEF Init
  <2>2. Listed(todo) = {}
    BY ListedEmpty DEF Init
  <2> QED
    BY <2>1, <2>2 DEF Stored, Confined
<1>2. IInv /\ IInv' /\ Stored /\ Confined /\ [Next]_vars => Stored' /\ Confined'
  BY StoredNext, ConfinedNext
<1>3. IInv /\ Confined => ReadyInputsStored
  <2> SUFFICES ASSUME IInv, Confined, NEW n \in Nodes, nodeStatus[n] = "ready",
                      NEW m \in Needs[n], artifacts[m] = <<>>
               PROVE  FALSE
    BY DEF ReadyInputsStored
  <2>1. m \in Nodes /\ Kind[m] = "task"
    <3>1. ValidInputs
      BY DefinitionAssumption DEF ValidDefinition
    <3>2. Needs \in [Nodes -> SUBSET Nodes]
      BY <3>1, Zenon DEF ValidInputs
    <3> QED
      BY <3>1, <3>2, Zenon DEF ValidInputs
  <2>2. PICK R \in SUBSET Nodes : ReachedBefore(m, R) /\ n \notin R
    BY InputsCertain DEF InputsCertain, CertainBefore
  <2>3. wfStatus \notin Terminal /\ visit[n] > 0
    BY DEF IInv, TypeOK, TerminalQuiescent, Active, Core, VisitPart
  <2> QED
    BY <2>1, <2>2, <2>3 DEF Confined
<1>4. Spec => []ReadyInputsStored
  BY <1>1, <1>2, <1>3, Invariance, PTL DEF Spec
<1> QED
  BY <1>4, JoinOrder, PTL DEF SourcesFirst

-----------------------------------------------------------------------------
(***************************************************************************)
(* Work left.  While a workflow is open, a branch or a balanced join is    *)
(* reached only through its fork; once the fork was entered each branch    *)
(* has a node that waits or is listed, a terminal that is listed, or has   *)
(* completed; and a started workflow has a node that waits or is listed.   *)
(***************************************************************************)
Balanced(f, j) ==
    /\ Kind[f] = "fork" /\ Kind[j] = "join"
    /\ \A s \in IncomingSources(j) : \E B \in SUBSET Nodes : BranchOf(f, j, s, B)

Terminals == {n \in Nodes : Kind[n] = "terminal"}

Alive(s, B) ==
    \/ \E k \in B : nodeStatus[k] \in Active
    \/ \E k \in B \union Terminals : k \in Listed(todo)
    \/ nodeStatus[s] = "succeeded"

BranchesEntered ==
    \A f, j, s \in Nodes, B \in SUBSET Nodes : BranchOf(f, j, s, B) =>
        \A k \in B : visit[k] > 0 \/ k \in Listed(todo) => visit[f] > 0

JoinsEntered ==
    \A f, j \in Nodes : Balanced(f, j) /\ j \in Listed(todo) => visit[f] > 0

BranchesAlive ==
    \A f, j, s \in Nodes, B \in SUBSET Nodes :
        BranchOf(f, j, s, B) /\ Kind[f] = "fork" /\ visit[f] > 0 => Alive(s, B)

Busy ==
    wfStatus # "pending" => Listed(todo) # {} \/ \E n \in Nodes : nodeStatus[n] \in Active

Unstarted == wfStatus = "pending" => Listed(todo) = {} /\ \A n \in Nodes : visit[n] = 0

WorkLeft ==
    wfStatus \notin Terminal =>
        BranchesEntered /\ JoinsEntered /\ BranchesAlive /\ Busy /\ Unstarted

(* A node stays visited, and one that waits or has succeeded was visited.  *)
LEMMA VisitedStays ==
    ASSUME IInv, IInv', [Next]_vars
    PROVE  \A k \in Nodes : /\ visit[k] > 0 => visit'[k] > 0
                            /\ nodeStatus'[k] = "succeeded" => visit'[k] > 0
                            /\ nodeStatus[k] \in Active => visit[k] > 0
<1>1. visit \in [Nodes -> Nat] /\ visit' \in [Nodes -> Nat]
  BY DEF IInv, TypeOK
<1>2. \A k \in Nodes : nodeStatus[k] = "pending" <=> visit[k] = 0
  BY DEF IInv, Core, VisitPart
<1>3. \A k \in Nodes : nodeStatus'[k] = "pending" <=> visit'[k] = 0
  BY DEF IInv, Core, VisitPart
<1>4. \A k \in Nodes : visit'[k] = visit[k] \/ visit'[k] = visit[k] + 1
  <2>1. CASE UNCHANGED vars
    BY <2>1 DEF vars
  <2>2. CASE Next
    BY <2>2, StepAfresh DEF Afresh
  <2> QED
    BY <2>1, <2>2
<1> QED
  BY <1>1, <1>2, <1>3, <1>4 DEF Active

(* Nothing is routed from a terminal. *)
LEMMA TerminalHasNoEdge == \A n \in Nodes, k \in Nodes : Kind[n] = "terminal" => ~ Adjacent(n, k)
<1>1. \A e \in Edges : e.outcome \in AllowedOutcomes[Kind[e.source]]
  BY DefinitionAssumption DEF ValidDefinition, ValidEdges
<1> QED
  BY <1>1 DEF Adjacent, AllowedOutcomes

(* A branch is entered from its fork or from itself. *)
LEMMA BranchesEnteredNext ==
    ASSUME IInv, IInv', BranchesEntered, [Next]_vars, EntersListed, ListsFollowers
    PROVE  BranchesEntered'
<1> SUFFICES ASSUME NEW f \in Nodes, NEW j \in Nodes, NEW s \in Nodes, NEW B \in SUBSET Nodes,
                    BranchOf(f, j, s, B), NEW k \in B, visit'[k] > 0 \/ k \in Listed(todo')
             PROVE  visit'[f] > 0
  BY DEF BranchesEntered
<1>1. \A n \in B : visit[n] > 0 \/ n \in Listed(todo) => visit'[f] > 0
  BY VisitedStays DEF BranchesEntered
<1>2. \A n \in B : visit'[n] > 0 => visit'[f] > 0
  BY <1>1 DEF EntersListed
<1>3. ASSUME k \in Listed(todo') PROVE visit'[f] > 0
  <2>1. k # Entry
    BY DEF BranchOf
  <2>2. ASSUME NEW n \in Nodes, Adjacent(n, k), nodeStatus'[n] = "succeeded"
        PROVE  visit'[f] > 0
    <3>1. n \in B \union {f}
      BY <2>2 DEF BranchOf, Adjacent
    <3>2. visit'[n] > 0
      BY <2>2, VisitedStays
    <3> QED
      BY <1>2, <3>1, <3>2
  <2> QED
    BY <1>1, <1>3, <2>1, <2>2 DEF ListsFollowers
<1> QED
  BY <1>2, <1>3

(* A balanced join is listed by a source, which lies on a branch. *)
LEMMA JoinsEnteredNext ==
    ASSUME IInv, IInv', BranchesEntered', JoinsEntered, [Next]_vars, ListsFollowers
    PROVE  JoinsEntered'
<1> SUFFICES ASSUME NEW f \in Nodes, NEW j \in Nodes, Balanced(f, j), j \in Listed(todo')
             PROVE  visit'[f] > 0
  BY DEF JoinsEntered
<1>1. CASE j \in Listed(todo)
  BY <1>1, VisitedStays DEF JoinsEntered
<1>2. j # Entry
  BY JoinHasSources DEF Balanced
<1>3. ASSUME NEW n \in Nodes, Adjacent(n, j), nodeStatus'[n] = "succeeded"
      PROVE  visit'[f] > 0
  <2>1. n \in IncomingSources(j)
    BY <1>3 DEF Adjacent, IncomingSources
  <2>2. PICK B \in SUBSET Nodes : BranchOf(f, j, n, B)
    BY <2>1 DEF Balanced
  <2>3. n \in B /\ visit'[n] > 0
    BY <1>3, <2>2, VisitedStays DEF BranchOf
  <2> QED
    BY <2>2, <2>3 DEF BranchesEntered
<1> QED
  BY <1>1, <1>2, <1>3 DEF ListsFollowers

(* A node of the branch that routes hands the branch on, ends the workflow *)
(* next, or completes the branch.                                          *)
LEMMA BranchesAliveNext ==
    ASSUME IInv, IInv', BranchesAlive, Unstarted, Moves
    PROVE  BranchesAlive'
<1> SUFFICES ASSUME NEW f \in Nodes, NEW j \in Nodes, NEW s \in Nodes, NEW B \in SUBSET Nodes,
                    BranchOf(f, j, s, B), Kind[f] = "fork", visit'[f] > 0
             PROVE  Alive(s, B)'
  BY DEF BranchesAlive
<1>1. s \in B
  BY DEF BranchOf
<1>2. visit[f] > 0 => Alive(s, B)
  BY DEF BranchesAlive
<1>3. CASE Quiet
  BY <1>2, <1>3 DEF Quiet, Alive
<1>4. CASE Starts
  BY <1>4 DEF Starts, Unstarted
<1>5. ASSUME NEW n \in Nodes, Skips(n) PROVE Alive(s, B)'
  <2>1. \A k \in B \union Terminals : k # n
    BY <1>5 DEF Skips, BranchOf, Terminals
  <2> QED
    BY <1>2, <1>5, <2>1 DEF Skips, Alive
<1>6. ASSUME NEW n \in Nodes, Waits(n) PROVE Alive(s, B)'
  <2>1. visit[f] > 0 /\ n \notin Terminals
    BY <1>6 DEF Waits, Terminals
  <2> QED
    BY <1>1, <1>2, <1>6, <2>1 DEF Waits, Alive
<1>7. ASSUME NEW n \in Nodes, Routes(n) PROVE Alive(s, B)'
  <2>1. PICK T \in SUBSET Nodes : /\ Selects(n, T) /\ T \subseteq Listed(todo')
                                  /\ Listed(todo) \subseteq {n} \union Listed(todo')
    BY <1>7 DEF Routes
  <2>2. \A m \in Nodes : m # n => nodeStatus'[m] = nodeStatus[m] /\ visit'[m] = visit[m]
    BY <1>7 DEF Routes
  <2>3. CASE visit[f] = 0
    <3>1. f = n
      BY <2>2, <2>3
    <3>2. PICK e \in Edges : e.source = f /\ e.target \in B
      BY DEF BranchOf
    <3>3. e.target \in T
      BY <2>1, <3>1, <3>2 DEF Selects, Adjacent
    <3> QED
      BY <2>1, <3>2, <3>3 DEF Alive
  <2>4. CASE n \in B
    <3>1. PICK t \in T : Adjacent(n, t)
      BY <2>1 DEF Selects
    <3>2. PICK e \in Edges : e.source = n /\ e.target = t
      BY <3>1 DEF Adjacent
    <3>3. t \in B \/ t \in Terminals \/ n = s
      BY <2>4, <3>2 DEF BranchOf, Terminals
    <3>4. CASE n = s
      BY <1>7, <3>4 DEF Routes, Alive
    <3> QED
      BY <2>1, <3>3, <3>4 DEF Alive
  <2>5. CASE visit[f] > 0 /\ n \notin B
    <3>1. n \notin Terminals
      BY <2>1, TerminalHasNoEdge DEF Selects, Terminals
    <3> QED
      BY <1>1, <1>2, <2>1, <2>2, <2>5, <3>1 DEF Alive
  <2>6. visit[f] \in Nat
    BY DEF IInv, TypeOK
  <2> QED
    BY <2>3, <2>4, <2>5, <2>6
<1> QED
  BY <1>3, <1>4, <1>5, <1>6, <1>7 DEF Moves

(* Passing over a join leaves work: the branch of a missing source is      *)
(* alive.                                                                  *)
LEMMA BusyNext ==
    ASSUME IInv, JoinsBalanced, JoinsEntered, BranchesAlive, Busy, Moves
    PROVE  Busy'
<1>1. CASE Quiet
  BY <1>1 DEF Quiet, Busy
<1>2. CASE Starts
  BY <1>2 DEF Starts, Busy
<1>3. ASSUME NEW n \in Nodes, Waits(n) PROVE Busy'
  BY <1>3 DEF Waits, Busy
<1>4. ASSUME NEW n \in Nodes, Routes(n) PROVE Busy'
  BY <1>4 DEF Routes, Selects, Busy
<1>5. ASSUME NEW n \in Nodes, Skips(n) PROVE Busy'
  <2>1. PICK f \in Nodes : Balanced(f, n)
    BY <1>5 DEF Skips, JoinsBalanced, Balanced
  <2>2. visit[f] > 0
    BY <1>5, <2>1 DEF Skips, JoinsEntered
  <2>3. PICK s \in IncomingSources(n) : nodeStatus[s] # "succeeded"
    BY <1>5 DEF Skips, JoinIsReady
  <2>4. PICK B \in SUBSET Nodes : BranchOf(f, n, s, B)
    BY <2>1 DEF Balanced
  <2>5. s \in Nodes
    BY SourcesAreNodes
  <2>6. Alive(s, B)
    BY <2>1, <2>2, <2>4, <2>5 DEF BranchesAlive, Balanced
  <2>7. \A k \in B \union Terminals : k # n
    BY <1>5, <2>4 DEF Skips, BranchOf, Terminals
  <2> QED
    BY <1>5, <2>3, <2>6, <2>7 DEF Skips, Alive, Busy
<1> QED
  BY <1>1, <1>2, <1>3, <1>4, <1>5 DEF Moves

(* Nothing moves before the start. *)
LEMMA UnstartedNext ==
    ASSUME IInv, IInv', Unstarted, Moves, [Next]_vars
    PROVE  Unstarted'
<1> SUFFICES ASSUME wfStatus' = "pending" PROVE Listed(todo') = {} /\ \A n \in Nodes : visit'[n] = 0
  BY DEF Unstarted
<1>1. wfStatus = "pending"
  <2>1. CASE UNCHANGED vars
    BY <2>1 DEF vars
  <2>2. CASE Next
    BY <2>2, StatusStep DEF IInv, Reachable, Cancel, Finish
  <2> QED
    BY <2>1, <2>2
<1>2. Listed(todo) = {} /\ \A n \in Nodes : visit[n] = 0
  BY <1>1 DEF Unstarted
<1>3. \A n \in Nodes : nodeStatus[n] \notin Active
  BY <1>2, VisitedStays
<1> QED
  BY <1>2, <1>3 DEF Moves, Quiet, Starts, Skips, Waits, Routes

(* Validation does not ask that a join is balanced.  Where every join is,  *)
(* an open workflow never runs out of work: one that is running has a task *)
(* to claim, to finish or to recover, or an approval (_join_is_ready,      *)
(* _route).                                                                *)
THEOREM NeverStranded == ASSUME JoinsBalanced PROVE Spec => []NotStranded
<1>1. Init => WorkLeft
  <2> SUFFICES ASSUME Init PROVE WorkLeft
    OBVIOUS
  <2>1. \A n \in Nodes : visit[n] = 0
    BY DEF Init
  <2>2. Listed(todo) = {} /\ wfStatus = "pending"
    BY ListedEmpty DEF Init
  <2> QED
    BY <2>1, <2>2 DEF WorkLeft, BranchesEntered, JoinsEntered, BranchesAlive, Busy, Unstarted
<1>2. IInv /\ IInv' /\ WorkLeft /\ [Next]_vars => WorkLeft'
  <2> SUFFICES ASSUME IInv, IInv', WorkLeft, [Next]_vars, wfStatus' \notin Terminal
               PROVE  /\ BranchesEntered' /\ JoinsEntered' /\ BranchesAlive'
                      /\ Busy' /\ Unstarted'
    BY DEF WorkLeft
  <2>1. BranchesEntered /\ JoinsEntered /\ BranchesAlive /\ Busy /\ Unstarted
    BY OpenBefore DEF WorkLeft
  <2>2. Moves
    BY StepMoves
  <2>3. EntersListed /\ ListsFollowers
    BY <2>2, MovesFlow
  <2>4. BranchesEntered'
    BY <2>1, <2>3, BranchesEnteredNext
  <2>5. JoinsEntered'
    BY <2>1, <2>3, <2>4, JoinsEnteredNext
  <2>6. BranchesAlive'
    BY <2>1, <2>2, BranchesAliveNext
  <2>7. Busy'
    BY <2>1, <2>2, BusyNext
  <2>8. Unstarted'
    BY <2>1, <2>2, UnstartedNext
  <2> QED
    BY <2>4, <2>5, <2>6, <2>7, <2>8
<1>3. WorkLeft => NotStranded
  BY ListedEmpty DEF WorkLeft, Busy, NotStranded, Committed, Terminal
<1> QED
  BY <1>1, <1>2, <1>3, Invariance, PTL DEF Spec
=============================================================================
