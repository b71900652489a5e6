----------------------------- MODULE Interfaces -----------------------------
(***************************************************************************)
(* The HTTP boundary of the control plane and the clients shipped with it: *)
(* the Jarvis server routes, the MCP tools and the CLI build requests;     *)
(* the API authenticates the bearer token, authorises the path for the     *)
(* account (api.security), finds the route and checks its inputs           *)
(* (api.routes), runs the handler and turns its exceptions into problems   *)
(* (api.main); the client passes the answer on.                            *)
(*                                                                         *)
(* A path is the sequence of its segments after /v1.  In a request "ID" is *)
(* a UUID and "KEY" any other text; in a route "{id}" is a parameter of    *)
(* type UUID and "{key}" one of type str.  What the handlers do is the     *)
(* subject of the other modules; here they succeed or raise.               *)
(***************************************************************************)
EXTENDS Integers, Sequences, SequencesExt, FiniteSetsExt

CONSTANT
    IfAccount  \* IfAccount[client]: permissions and projects of its account

ASSUME IfAssumption ==
    \A client \in {"jarvis", "mcp", "cli"} :
        IfAccount[client].all \in BOOLEAN /\ "own" \in IfAccount[client].projects

VARIABLES
    ifPhase,  \* where the exchange is
    ifCall,   \* the request
    ifToken,  \* the client's token: "none", "valid" or "revoked"
    ifOwner,  \* project of the addressed resource: "own", "other", or "absent"
    ifRaised, \* what the handler did
    ifStatus, \* status of the control plane's answer, 0 before it
    ifShown   \* status the client's caller sees

ifVars == <<ifPhase, ifCall, ifToken, ifOwner, ifRaised, ifStatus, ifShown>>

(***************************************************************************)
(* The routes, in the order of their declaration: method, path and the     *)
(* inputs they insist on (a JSON body, an Idempotency-Key header).         *)
(***************************************************************************)
IfRoute(method, path, needs) == [method |-> method, path |-> path, needs |-> needs]
IfGet(path) == IfRoute("GET", path, {})
IfPost(path) == IfRoute("POST", path, {})
IfPostBody(path) == IfRoute("POST", path, {"body"})
IfPostKeyed(path) == IfRoute("POST", path, {"body", "key"})

\* Mutant: the account route is declared first.
IfServiceAccountRoutesSwapped ==
    << IfGet(<<"service-accounts">>),
       IfGet(<<"service-accounts", "{id}">>),
       IfGet(<<"service-accounts", "readiness">>),
       IfPostBody(<<"service-accounts", "{id}", "credentials">>),
       IfGet(<<"service-accounts", "{id}", "credentials">>),
       IfGet(<<"service-accounts", "{id}", "credential-events">>),
       IfRoute("DELETE", <<"service-accounts", "{id}", "credentials", "{id}">>, {}) >>

IfServiceAccountRoutes ==
    << IfGet(<<"service-accounts">>),
       IfGet(<<"service-accounts", "readiness">>),
       IfGet(<<"service-accounts", "{id}">>),
       IfPostBody(<<"service-accounts", "{id}", "credentials">>),
       IfGet(<<"service-accounts", "{id}", "credentials">>),
       IfGet(<<"service-accounts", "{id}", "credential-events">>),
       IfRoute("DELETE", <<"service-accounts", "{id}", "credentials", "{id}">>, {}) >>

IfWorkerRoutes ==
    << IfGet(<<"workers">>),
       IfGet(<<"projects", "{id}", "worker-readiness">>),
       IfPost(<<"projects", "{id}", "worker-readiness", "evaluate">>) >>

IfNotificationRoutes ==
    << IfPostBody(<<"projects", "{id}", "notification-subscriptions">>),
       IfGet(<<"projects", "{id}", "notification-subscriptions">>),
       IfRoute("PATCH", <<"projects", "{id}", "notification-subscriptions", "{id}">>, {"body"}),
       IfGet(<<"projects", "{id}", "notification-deliveries">>),
       IfGet(<<"projects", "{id}", "notification-deliveries", "{id}", "attempts">>),
       IfPost(<<"projects", "{id}", "notification-deliveries", "{id}", "retry">>),
       IfPost(<<"projects", "{id}", "notification-deliveries", "{id}", "automatic-retry",
                "cancel">>) >>

IfProjectRoutes ==
    << IfPostBody(<<"projects">>), IfGet(<<"projects">>), IfGet(<<"projects", "{id}">>),
       IfGet(<<"projects", "{id}", "requests">>),
       IfGet(<<"projects", "{id}", "workflow-executions">>),
       IfGet(<<"projects", "{id}", "events", "stream">>) >>

IfDispatchRoutes ==
    << IfRoute("PUT", <<"projects", "{id}", "workflow-binding">>, {"body"}),
       IfGet(<<"projects", "{id}", "workflow-binding">>),
       IfGet(<<"projects", "{id}", "workflow-options">>),
       IfPostBody(<<"projects", "{id}", "workflow-recommendations">>),
       IfPostKeyed(<<"projects", "{id}", "dispatches">>) >>

IfRunRoutes ==
    << IfPostBody(<<"projects", "{id}", "requests">>),
       IfGet(<<"requests", "{id}">>), IfGet(<<"requests", "{id}", "runs">>),
       IfGet(<<"runs", "{id}">>), IfPost(<<"runs", "{id}", "approve">>),
       IfPost(<<"runs", "{id}", "cancel">>) >>

IfWorkflowRoutes ==
    << IfPostBody(<<"workflows">>), IfGet(<<"workflows">>), IfGet(<<"workflows", "{key}">>),
       IfPostBody(<<"runs", "{id}", "workflow">>), IfGet(<<"runs", "{id}", "workflow">>),
       IfGet(<<"workflow-executions", "{id}">>),
       IfGet(<<"workflow-executions", "{id}", "artifacts">>),
       IfPostBody(<<"workflow-executions", "{id}", "approvals", "{key}">>),
       IfPost(<<"workflow-executions", "{id}", "cancel">>) >>

IfCatalogRoutes ==
    << IfPostBody(<<"skills">>), IfGet(<<"skills">>), IfGet(<<"skills", "{key}">>),
       IfPostBody(<<"phase-packs">>), IfGet(<<"phase-packs">>), IfGet(<<"phase-packs", "{key}">>),
       IfPostBody(<<"models">>), IfGet(<<"models">>), IfGet(<<"models", "{key}">>) >>

IfBudgetRoutes ==
    << IfRoute("PUT", <<"projects", "{id}", "budget">>, {"body"}),
       IfGet(<<"projects", "{id}", "budget">>), IfGet(<<"projects", "{id}", "usage">>) >>

IfExternalRoutes ==
    << IfGet(<<"external-executions">>), IfGet(<<"external-executions", "events", "stream">>),
       IfGet(<<"external-executions", "{id}">>),
       IfPostKeyed(<<"external-executions", "{id}", "workspace-operations">>),
       IfGet(<<"external-executions", "{id}", "workspace-operations">>) >>

IfScmRoutes ==
    << IfPostKeyed(<<"external-executions", "{id}", "scm-publications">>),
       IfGet(<<"external-executions", "{id}", "scm-publications">>),
       IfGet(<<"scm-publications", "{id}", "attempts">>),
       IfPost(<<"scm-publications", "{id}", "retry">>),
       IfPost(<<"scm-publications", "{id}", "automatic-retry", "cancel">>) >>

IfRoutes ==
    IfServiceAccountRoutes \o IfWorkerRoutes \o IfNotificationRoutes \o IfProjectRoutes
        \o IfDispatchRoutes \o IfRunRoutes \o IfWorkflowRoutes \o IfCatalogRoutes
        \o IfBudgetRoutes \o IfExternalRoutes \o IfScmRoutes

\* A route's path takes any segment for a parameter; its type is checked later.
IfPathMatches(route, path) ==
    /\ Len(route.path) = Len(path)
    /\ \A n \in 1..Len(path) : route.path[n] \in {"{id}", "{key}", path[n]}

IfMatches(call) ==
    {n \in 1..Len(IfRoutes) :
        IfRoutes[n].method = call.method /\ IfPathMatches(IfRoutes[n], call.path)}

\* The status routing gives up with, or 0: no such path or method, a parameter
\* that is no UUID, a missing body or header.
IfRouting(call) ==
    IF IfMatches(call) = {}
    THEN IF \E n \in 1..Len(IfRoutes) : IfPathMatches(IfRoutes[n], call.path) THEN 405 ELSE 404
    ELSE LET route == IfRoutes[Min(IfMatches(call))]
         IN  IF \/ \E n \in 1..Len(call.path) : route.path[n] = "{id}" /\ call.path[n] # "ID"
                \/ ~(route.needs \subseteq call.has)
             THEN 422 ELSE 0

(***************************************************************************)
(* Authorisation                                                           *)
(***************************************************************************)

IfHolds(path, segments) == \E n \in 1..Len(path) : path[n] \in segments

\* required_permission
IfRequiredPermission(method, path) ==
    CASE path[1] = "service-accounts" /\ Len(path) > 1 -> "project.admin"
      [] OTHER -> CASE method = "GET" \/ Last(path) = "evaluate" -> "project.read"
      [] OTHER -> CASE Last(path) \in {"dispatches", "workflow-recommendations"}
                       \/ path = <<"projects", "ID", "requests">> -> "request.dispatch"
      [] OTHER -> CASE IfHolds(Front(path), {"approvals"}) \/ Last(path) = "approve" ->
                            "workflow.approve"
      [] OTHER -> CASE IfHolds(path, {"scm-publications"}) -> "scm.publish"
      [] OTHER -> CASE IfHolds(path, {"notification-subscriptions", "notification-deliveries"}) ->
                            "notification.manage"
      [] OTHER -> CASE Last(path) = "cancel" -> "run.cancel"
      [] OTHER -> CASE Last(path) = "workspace-operations" -> "workspace.manage"
      [] OTHER -> "project.admin"

\* Mutant: executions are not resolved to their project.
IfResourceTypesWithoutExecutions ==
    {"projects", "requests", "runs", "external-executions", "scm-publications"}

\* RESOURCE_TYPES: the collections whose members belong to a project
IfResourceTypes ==
    {"projects", "requests", "runs", "workflow-executions", "external-executions",
     "scm-publications"}

IfAddressesResource(path) ==
    Len(path) > 1 /\ path[1] \in IfResourceTypes /\ path[2] = "ID"

\* resolve_project_id follows a publication to its execution, that to its run,
\* the run to its request and the request to its project.
IfResolve == ifOwner

\* ApiPrincipal.allows
IfAllows(account, permission, project) ==
    /\ permission \in account.permissions \/ "project.admin" \in account.permissions
    /\ account.all \/ project \in account.projects

\* authorize_request: an unknown resource is left to the handler.
IfAuthorized(account, call) ==
    LET permission == IfRequiredPermission(call.method, call.path)
    IN  IF ~IfAddressesResource(call.path) THEN IfAllows(account, permission, "any")
        ELSE IfResolve = "absent" \/ IfAllows(account, permission, IfResolve)

(***************************************************************************)
(* The clients.  A definition is what one route of Jarvis, one group of    *)
(* MCP tools or of CLI commands sends.                                     *)
(***************************************************************************)
IfCallOf(client, method, path, has) ==
    [client |-> client, method |-> method, path |-> path, has |-> has]
IfReads(client, paths) == {IfCallOf(client, "GET", p, {}) : p \in paths}
IfPosts(client, path, has) == {IfCallOf(client, "POST", path, has)}

IfJarvisProjects == IfReads("jarvis", {<<"projects">>})
IfJarvisOverview ==
    IfReads("jarvis", {<<"projects", "ID">>, <<"projects", "ID", "requests">>,
                       <<"projects", "ID", "workflow-executions">>})
IfJarvisEvents == IfReads("jarvis", {<<"projects", "ID", "events", "stream">>})
IfJarvisWorkflows == IfReads("jarvis", {<<"projects", "ID", "workflow-options">>})
IfJarvisReadiness == IfReads("jarvis", {<<"projects", "ID", "worker-readiness">>})
IfJarvisWorkers == IfReads("jarvis", {<<"workers">>})
IfJarvisExecution ==
    IfReads("jarvis", {<<"workflow-executions", "ID">>,
                       <<"workflow-executions", "ID", "artifacts">>, <<"external-executions">>})

IfJarvisRecommendation ==
    IfPosts("jarvis", <<"projects", "ID", "workflow-recommendations">>, {"body"})
IfJarvisDispatch == IfPosts("jarvis", <<"projects", "ID", "dispatches">>, {"body", "key"})
IfJarvisApproval ==
    IfPosts("jarvis", <<"workflow-executions", "ID", "approvals", "KEY">>, {"body"})
IfJarvisCancellation == IfPosts("jarvis", <<"workflow-executions", "ID", "cancel">>, {})

IfJarvisWorkspace ==
    LET path == <<"external-executions", "ID", "workspace-operations">>
    IN  IfReads("jarvis", {path}) \cup IfPosts("jarvis", path, {"body", "key"})

IfJarvisScm ==
    LET path == <<"external-executions", "ID", "scm-publications">>
    IN  IfReads("jarvis", {path}) \cup IfPosts("jarvis", path, {"body", "key"})
IfJarvisScmAttempts == IfReads("jarvis", {<<"scm-publications", "ID", "attempts">>})
IfJarvisScmRetry == IfPosts("jarvis", <<"scm-publications", "ID", "retry">>, {})
IfJarvisScmCancel ==
    IfPosts("jarvis", <<"scm-publications", "ID", "automatic-retry", "cancel">>, {})

IfJarvisSubscriptions ==
    LET path == <<"projects", "ID", "notification-subscriptions">>
    IN  IfReads("jarvis", {path}) \cup IfPosts("jarvis", path, {"body"})
IfJarvisConfigure ==
    LET path == <<"projects", "ID", "notification-subscriptions", "ID">>
    IN  {IfCallOf("jarvis", "PATCH", path, {"body"})}

IfJarvisDeliveries == IfReads("jarvis", {<<"projects", "ID", "notification-deliveries">>})
IfJarvisDeliveryAttempts ==
    IfReads("jarvis", {<<"projects", "ID", "notification-deliveries", "ID", "attempts">>})
IfJarvisDeliveryRetry ==
    IfPosts("jarvis", <<"projects", "ID", "notification-deliveries", "ID", "retry">>, {})
IfJarvisDeliveryCancel ==
    LET path == <<"projects", "ID", "notification-deliveries", "ID", "automatic-retry", "cancel">>
    IN  IfPosts("jarvis", path, {})

IfJarvisCalls ==
    UNION {IfJarvisProjects, IfJarvisOverview, IfJarvisEvents, IfJarvisWorkflows,
           IfJarvisReadiness, IfJarvisWorkers, IfJarvisExecution, IfJarvisRecommendation,
           IfJarvisDispatch, IfJarvisApproval, IfJarvisCancellation, IfJarvisWorkspace,
           IfJarvisScm, IfJarvisScmAttempts, IfJarvisScmRetry, IfJarvisScmCancel,
           IfJarvisSubscriptions, IfJarvisConfigure, IfJarvisDeliveries,
           IfJarvisDeliveryAttempts, IfJarvisDeliveryRetry, IfJarvisDeliveryCancel}

\* The MCP tools.
IfMcpProjectReads ==
    IfReads("mcp",
      { <<"projects", "ID">>, <<"projects", "ID", "requests">>,
        <<"projects", "ID", "workflow-executions">>, <<"projects", "ID", "workflow-options">>,
        <<"projects", "ID", "worker-readiness">> })
IfMcpRunReads ==
    IfReads("mcp", {<<"requests", "ID">>, <<"runs", "ID">>, <<"workflow-executions", "ID">>,
                    <<"workflow-executions", "ID", "artifacts">>})
IfMcpRecommend == IfPosts("mcp", <<"projects", "ID", "workflow-recommendations">>, {"body"})
IfMcpDispatch == IfPosts("mcp", <<"projects", "ID", "dispatches">>, {"body", "key"})

\* approve_workflow_node posts no body; cancel_run needs none.
IfMcpApprove ==
    IfCallOf("mcp", "POST", <<"workflow-executions", "ID", "approvals", "KEY">>, {})
IfMcpCancel == IfCallOf("mcp", "POST", <<"runs", "ID", "cancel">>, {})

IfMcpCalls ==
    IfMcpProjectReads \cup IfMcpRunReads \cup IfMcpRecommend \cup IfMcpDispatch
        \cup {IfMcpApprove, IfMcpCancel}

\* The commands of the CLI that call the API, bundles included.
IfCliAccounts ==
    IfReads("cli", {<<"service-accounts">>, <<"service-accounts", "readiness">>,
                    <<"service-accounts", "ID">>, <<"service-accounts", "ID", "credentials">>,
                    <<"service-accounts", "ID", "credential-events">>})
      \cup { IfCallOf("cli", "POST", <<"service-accounts", "ID", "credentials">>, {"body"}),
             IfCallOf("cli", "DELETE", <<"service-accounts", "ID", "credentials", "ID">>, {}) }
IfCliRuns ==
    IfReads("cli", {<<"requests", "ID">>, <<"runs", "ID">>})
      \cup { IfCallOf("cli", "POST", <<"projects">>, {"body"}),
             IfCallOf("cli", "POST", <<"projects", "ID", "requests">>, {"body"}),
             IfCallOf("cli", "POST", <<"runs", "ID", "approve">>, {}),
             IfCallOf("cli", "POST", <<"runs", "ID", "cancel">>, {}) }
IfCliBundles ==
    LET catalogs == {"skills", "models", "phase-packs", "workflows"}
    IN  IfReads("cli", {<<"projects">>, <<"projects", "ID", "workflow-binding">>}
                           \cup {<<c, "KEY">> : c \in catalogs})
          \cup {IfCallOf("cli", "POST", <<c>>, {"body"}) : c \in catalogs}
          \cup {IfCallOf("cli", "PUT", <<"projects", "ID", "workflow-binding">>, {"body"})}

IfCalls == IfJarvisCalls \cup IfMcpCalls \cup IfCliAccounts \cup IfCliRuns \cup IfCliBundles

(***************************************************************************)
(* An exchange                                                             *)
(***************************************************************************)
IfNoCall == [client |-> "none", method |-> "none", path |-> <<>>, has |-> {}]

\* What a handler does: answer, or raise one of the mapped exceptions.
IfRaises ==
    {"ResourceNotFound", "ResourceConflict", "InvalidStateTransition", "DomainValidationError",
     "WorkflowDefinitionError"}

\* The exception handlers of create_app.
IfProblem(raised) ==
    CASE raised = "nothing" -> 200
      [] raised = "ResourceNotFound" -> 404
      [] raised \in {"ResourceConflict", "InvalidStateTransition"} -> 409
      [] raised \in {"DomainValidationError", "WorkflowDefinitionError"} -> 422

IfAnswer(code) == ifStatus' = code /\ ifPhase' = "answered"

\* What the client's caller sees of the answer, 0 being no answer: Jarvis keeps
\* the status and has one of its own for an unreachable control plane; an MCP
\* tool and a command fail, quoting the status.
IfJarvisShows(code) == IF code = 0 THEN 502 ELSE code
IfShows(client, code) ==
    IF client = "jarvis" THEN IfJarvisShows(code) ELSE code

\* Without a token Jarvis (503) and the MCP tools do not send; the CLI does.
IfSend(call) ==
    /\ ifPhase = "idle" /\ ifCall' = call
    /\ IF ifToken = "none" /\ call.client # "cli"
       THEN /\ ifPhase' = "shown"
            /\ ifShown' = (IF call.client = "jarvis" THEN 503 ELSE 0)
       ELSE ifPhase' = "sent" /\ UNCHANGED ifShown
    /\ UNCHANGED <<ifToken, ifOwner, ifRaised, ifStatus>>

\* A route of Jarvis refuses an incomplete form before it looks for the token.
IfRefuseForm(call) ==
    /\ ifPhase = "idle" /\ call.client = "jarvis" /\ IfHolds(call.path, {"ID"})
    /\ ifCall' = call /\ ifPhase' = "shown" /\ ifShown' = 400
    /\ UNCHANGED <<ifToken, ifOwner, ifRaised, ifStatus>>

\* The request or its answer is lost.
IfUnreachable ==
    /\ ifPhase \in {"sent", "answered"}
    /\ ifPhase' = "shown" /\ ifShown' = IfShows(ifCall.client, 0)
    /\ UNCHANGED <<ifCall, ifToken, ifOwner, ifRaised, ifStatus>>

\* authenticate_request
IfAuthenticate ==
    /\ ifPhase = "sent"
    /\ IF ifToken = "valid" THEN ifPhase' = "authenticated" /\ UNCHANGED ifStatus
       ELSE IfAnswer(401)
    /\ UNCHANGED <<ifCall, ifToken, ifOwner, ifRaised, ifShown>>

\* The second half of bearer_security
IfAuthorize ==
    /\ ifPhase = "authenticated"
    /\ IF IfAuthorized(IfAccount[ifCall.client], ifCall)
       THEN ifPhase' = "authorized" /\ UNCHANGED ifStatus
       ELSE IfAnswer(403)
    /\ UNCHANGED <<ifCall, ifToken, ifOwner, ifRaised, ifShown>>

IfDispatchRoute ==
    /\ ifPhase = "authorized"
    /\ IF IfRouting(ifCall) = 0 THEN ifPhase' = "routed" /\ UNCHANGED ifStatus
       ELSE IfAnswer(IfRouting(ifCall))
    /\ UNCHANGED <<ifCall, ifToken, ifOwner, ifRaised, ifShown>>

\* The handler: it finds nothing when the addressed resource does not exist.
IfHandle(raised) ==
    /\ ifPhase = "routed"
    /\ (IfAddressesResource(ifCall.path) /\ ifOwner = "absent") => raised = "ResourceNotFound"
    /\ ifRaised' = raised
    /\ IfAnswer(IfProblem(raised))
    /\ UNCHANGED <<ifCall, ifToken, ifOwner, ifShown>>

IfShow ==
    /\ ifPhase = "answered"
    /\ ifPhase' = "shown" /\ ifShown' = IfShows(ifCall.client, ifStatus)
    /\ UNCHANGED <<ifCall, ifToken, ifOwner, ifRaised, ifStatus>>

IfInit ==
    /\ ifPhase = "idle" /\ ifCall = IfNoCall /\ ifRaised = "nothing"
    /\ ifToken \in {"none", "valid", "revoked"} /\ ifOwner \in {"own", "other", "absent"}
    /\ ifStatus = 0 /\ ifShown = 0

IfNext ==
    \/ \E call \in IfCalls : IfSend(call) \/ IfRefuseForm(call)
    \/ IfUnreachable \/ IfAuthenticate \/ IfAuthorize \/ IfDispatchRoute
    \/ \E raised \in IfRaises \cup {"nothing"} : IfHandle(raised)
    \/ IfShow

IfSpec == IfInit /\ [][IfNext]_ifVars

(***************************************************************************)
(* Properties                                                              *)
(***************************************************************************)

\* Every variable is in its domain.
IfTypeOK ==
    /\ ifPhase \in {"idle", "sent", "authenticated", "authorized", "routed", "answered", "shown"}
    /\ ifCall \in IfCalls \cup {IfNoCall}
    /\ ifToken \in {"none", "valid", "revoked"} /\ ifOwner \in {"own", "other", "absent"}
    /\ ifRaised \in IfRaises \cup {"nothing"}
    /\ ifStatus \in Nat /\ ifShown \in Nat

\* The control agent of docs/openclaw-control-agent.md may not approve or cancel.
IfWithheld(call) == call \in {IfMcpApprove, IfMcpCancel}

\* The resource belongs to a project the client's account does not cover.
IfForeign(call) ==
    /\ IfAddressesResource(call.path) /\ ifOwner = "other"
    /\ ~IfAccount[call.client].all

\* The accounts that the clients' documentation tells to issue: all that Jarvis
\* asks for, reading and dispatching for MCP, administration for the CLI.
IfJarvisPermissions ==
    {"project.read", "request.dispatch", "workflow.approve", "run.cancel", "workspace.manage",
     "scm.publish", "notification.manage"}
IfMcpPermissions == {"project.read", "request.dispatch"}
IfDocumented ==
    /\ IfAccount["jarvis"].all /\ IfJarvisPermissions \subseteq IfAccount["jarvis"].permissions
    /\ IfMcpPermissions \subseteq IfAccount["mcp"].permissions
    /\ {"workflow.approve", "run.cancel", "project.admin"} \cap IfAccount["mcp"].permissions = {}
    /\ IfAccount["mcp"].all \/ "other" \notin IfAccount["mcp"].projects
    /\ IfAccount["cli"].all /\ "project.admin" \in IfAccount["cli"].permissions

\* Every request that the shipped clients build reaches a route with the
\* method, parameters, body and headers it insists on and is permitted to the
\* account their documentation tells to issue: with a valid token the caller
\* sees the handler's own outcome, a refusal only for what the account is not
\* meant to do or whose project it does not cover, and a failed exchange.
IfServed ==
    (ifPhase = "shown" /\ ifToken = "valid" /\ ifStatus # 0) =>
        LET missing == IfAddressesResource(ifCall.path) /\ ifOwner = "absent"
        IN  /\ IfForeign(ifCall) \/ (IfWithheld(ifCall) /\ ~missing) => ifStatus = 403
            /\ ~IfForeign(ifCall) /\ ~IfWithheld(ifCall) => ifStatus = IfProblem(ifRaised)

\* The tool approve_workflow_node approves a node that waits at a human gate
\* when its account has the permission: the answer is what the handler came to.
IfToolApproves ==
    (ifPhase = "answered" /\ ifCall = IfMcpApprove /\ ifToken = "valid" /\ ifOwner = "own"
       /\ "workflow.approve" \in IfAccount["mcp"].permissions) =>
        ifStatus = IfProblem(ifRaised)
=============================================================================
