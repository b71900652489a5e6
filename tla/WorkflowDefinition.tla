------------------------- MODULE WorkflowDefinition -------------------------
(***************************************************************************)
(* The immutable workflow graph an execution runs on: WorkflowDefinition   *)
(* and its pinned WorkflowSnapshot (workflows/models.py), with the pure    *)
(* part of routing (engine.py, _select_targets).                           *)
(*                                                                         *)
(* Abstractions.  A node key is a model value; `sorted` on keys is the     *)
(* order KeyOrder.  All conditional edges of one route share one JSON      *)
(* pointer, so a task output is abstracted to the scalar found at that     *)
(* pointer, or NoValue when the pointer finds nothing; an edge without     *)
(* condition carries NoValue as its condition.                             *)
(***************************************************************************)
EXTENDS Integers, FiniteSets, Sequences

LOCAL INSTANCE Graphs

CONSTANTS
    Nodes,          \* node keys of the definition
    Entry,          \* entry_node
    Kind,           \* node key -> NodeKind
    Edges,          \* set of [source, outcome, target, condition]
    MaxAttempts,    \* node key -> max_attempts
    MaxVisits,      \* node key -> max_visits
    TerminalStatus, \* node key -> terminal_status (used for terminal nodes)
    Needs,          \* node key -> source nodes of its required phase inputs
    KeyOrder,       \* node key -> its position in the order of keys
    Values,         \* scalars a task output can hold at the condition path
    NoValue         \* "no condition" / "pointer finds nothing"

NodeKinds == {"task", "approval", "fork", "join", "terminal"}

AllowedOutcomes ==
    [task     |-> {"success", "failure"},
     approval |-> {"approved", "rejected"},
     fork     |-> {"success"},
     join     |-> {"success"},
     terminal |-> {}]

NodeOutcomes == {"success", "failure", "approved", "rejected"}

Outputs == Values \union {NoValue}

Gateways == {n \in Nodes : Kind[n] \in {"fork", "join"}}

(* snapshot.route_edges and snapshot.incoming_sources *)
RouteEdges(n, outcome) == {e \in Edges : e.source = n /\ e.outcome = outcome}

IncomingSources(n) == {e.source : e \in {f \in Edges : f.target = n}}

Adjacent(m, n) == \E e \in Edges : e.source = m /\ e.target = n

(* The searches over `adjacency`: paths of any length, and _can_reach with *)
(* skip_initial, which asks for a path of at least one edge.               *)
Connected ==
    ConnectionsIn([node |-> Nodes, edge |-> {<<e.source, e.target>> : e \in Edges}])

CanReach(m, n) == \E k \in Nodes : Adjacent(m, k) /\ Connected[k, n]

(***************************************************************************)
(* What WorkflowDefinition and NodeDefinition accept in __post_init__.     *)
(***************************************************************************)
ValidNodes ==
    /\ IsFiniteSet(Nodes)
    /\ Kind \in [Nodes -> NodeKinds]
    /\ MaxAttempts \in [Nodes -> Nat \ {0}]
    /\ MaxVisits \in [Nodes -> Nat \ {0}]
    /\ \A n \in Gateways : MaxVisits[n] = 1
    /\ TerminalStatus \in [Nodes -> {"succeeded", "failed"}]
    /\ KeyOrder \in [Nodes -> Nat]
    /\ \A m, n \in Nodes : KeyOrder[m] = KeyOrder[n] => m = n

ValidEdges ==
    /\ Edges \subseteq [source : Nodes, outcome : NodeOutcomes,
                        target : Nodes, condition : Outputs]
    /\ \A e \in Edges : /\ e.outcome \in AllowedOutcomes[Kind[e.source]]
                        /\ e.condition # NoValue => Kind[e.source] = "task"
    /\ \A e, f \in Edges :
          /\ Kind[e.source] # "fork"
          /\ e.source = f.source /\ e.outcome = f.outcome
          /\ e.condition = f.condition
          => e = f

ValidShape ==
    /\ Entry \in Nodes
    /\ \A n \in Nodes :
          /\ Kind[n] = "terminal" <=> \A m \in Nodes : ~ Adjacent(n, m)
          /\ Kind[n] = "fork" => Cardinality({m \in Nodes : Adjacent(n, m)}) >= 2
          /\ Kind[n] = "join" => /\ n # Entry
                                 /\ Cardinality(IncomingSources(n)) >= 2
    /\ \A n \in Nodes : Connected[Entry, n]
    /\ \A n \in Gateways : ~ CanReach(n, n)

ValidInputs ==
    /\ Needs \in [Nodes -> SUBSET Nodes]
    /\ \A n \in Nodes : \A m \in Needs[n] :
          /\ Kind[n] = "task" /\ Kind[m] = "task" /\ m # n
          /\ Connected[m, n]

ValidDefinition == ValidNodes /\ ValidEdges /\ ValidShape /\ ValidInputs

ASSUME DefinitionAssumption == NoValue \notin Values /\ ValidDefinition

(***************************************************************************)
(* What validation does not ask for.  A needed input is connected to the   *)
(* node that needs it, but may lie on a branch that was not taken, and a   *)
(* join may wait for one.  Here are conditions on the graph that exclude   *)
(* both: R holds all nodes that can be entered before task m has           *)
(* completed, and B the nodes of one branch from the fork f to the source  *)
(* s of the join j.                                                        *)
(***************************************************************************)
ReachedBefore(m, R) ==
    /\ Entry \in R
    /\ \A e \in Edges :
          (/\ e.source \in R \ {m}
           /\ Kind[e.target] = "join" => IncomingSources(e.target) \subseteq R \ {m})
          => e.target \in R

CertainBefore(m, n) == \E R \in SUBSET Nodes : ReachedBefore(m, R) /\ n \notin R

InputsCertain == \A n \in Nodes : \A m \in Needs[n] : CertainBefore(m, n)

BranchOf(f, j, s, B) ==
    /\ s \in B /\ Entry \notin B /\ f \notin B
    /\ \A k \in B : Kind[k] # "join"
    /\ \E e \in Edges : e.source = f /\ e.target \in B
    /\ \A e \in Edges :
          /\ e.target \in B => e.source \in B \union {f}
          /\ e.source \in B =>
                \/ e.target \in B
                \/ Kind[e.target] = "terminal"
                \/ e.source = s /\ e.target = j

JoinsBalanced ==
    \A j \in Nodes : Kind[j] = "join" =>
        \E f \in Nodes :
            /\ Kind[f] = "fork"
            /\ \A s \in IncomingSources(j) : \E B \in SUBSET Nodes : BranchOf(f, j, s, B)

(***************************************************************************)
(* engine._select_targets.  Distinct condition values on one route make at *)
(* most one conditional edge match, so their order is immaterial.          *)
(***************************************************************************)
SelectTargets(n, outcome, output) ==
    LET edges       == RouteEdges(n, outcome)
        conditional == {e \in edges : e.condition # NoValue}
        matching    == {e \in conditional : e.condition = output}
        chosen      == IF conditional = {} THEN edges
                       ELSE IF matching # {} THEN matching
                       ELSE edges \ conditional
    IN  {e.target : e \in chosen}

(* `sorted(targets)`: the one strictly increasing listing of a set of keys. *)
SortedListings(S) ==
    {s \in [1 .. Cardinality(S) -> S] :
        \A i, j \in 1 .. Cardinality(S) : i < j => KeyOrder[s[i]] < KeyOrder[s[j]]}
=============================================================================
