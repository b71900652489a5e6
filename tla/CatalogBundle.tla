--------------------------- MODULE CatalogBundle ---------------------------
(***************************************************************************)
(* Declarative bundles: an operator's `jb bundle apply` reads the control  *)
(* plane entry by entry, plans what to create, and then posts the entries  *)
(* in order (cli.bundles), each post a transaction of a catalog service    *)
(* (skill_services, model_services, phase_pack_services,                   *)
(* workflow_services.register_definition, services.register_project,       *)
(* request_dispatch_services.configure_binding).                           *)
(*                                                                         *)
(* Several operators apply overlapping files.  A post can be lost, can be  *)
(* served after its client gave up, and its answer can be lost; nothing    *)
(* spans two posts.  An entry is a project key or a key@version.  What it  *)
(* says is a value and its spelling: two spellings of a value are the same *)
(* content to the catalog when the domain object normalises them (blanks,  *)
(* the order of capabilities, trailing zeros of a price).                  *)
(*                                                                         *)
(* A project is looked up in the list of projects, newest first and cut at *)
(* a limit: one with that many newer projects is not found.                *)
(***************************************************************************)
EXTENDS Integers, FiniteSets, Sequences, SequencesExt

CONSTANTS
    CbOperators,   \* the operators
    CbKind,        \* CbKind[e]: the resource the entry e identifies
    CbRefs,        \* CbRefs[e]: the entries e refers to
    CbProject,     \* the entry of the project the files bind
    CbFiles,       \* CbFiles[o]: the files operator o may apply
    CbMisfit,      \* <<v, w>>: a workflow v that does not map the inputs of phase w
    CbListLimit,   \* limit of the list of projects (PROJECTS_PATH)
    CbMaxFaults    \* bound: failed, lost and late exchanges, and other projects

CbEntries == DOMAIN CbKind
CbKinds == {"project", "skill", "model", "phase_pack", "workflow"}

\* What an entry says, as a file writes it or the catalog keeps it.
CbContents == [value : Nat \ {0}, spelling : {"normal", "other"}]

ASSUME CbAssumption ==
    /\ CbKind \in Seq(CbKinds) /\ CbProject \in CbEntries /\ CbKind[CbProject] = "project"
    /\ CbRefs \in [CbEntries -> SUBSET CbEntries]
    /\ CbMaxFaults \in Nat /\ CbListLimit \in Nat \ {0}
    /\ \A e \in CbEntries : CbKind[e] \notin {"phase_pack", "workflow"} => CbRefs[e] = {}
    /\ \A o \in CbOperators : \A f \in CbFiles[o] :
        /\ f.entries \in Seq(CbEntries) /\ f.binding \in CbEntries \cup {0}
        /\ \A e \in ToSet(f.entries) :
              /\ CbKind[e] = "project" => e = CbProject
              /\ f.content[e] \in CbContents

VARIABLES
    cbCatalog,  \* cbCatalog[e]: the registered content, or none
    cbBinding,  \* the workflow the project is bound to, or 0
    cbNewer,    \* projects registered after the project, counted to CbListLimit
    cbFile,     \* cbFile[o]: the file of operator o
    cbRun,      \* cbRun[o]: the command o is running
    cbApplied,  \* history: the operators whose command succeeded once
    cbWire,     \* requests on their way to the control plane
    cbFaults    \* faults so far

cbVars == <<cbCatalog, cbBinding, cbNewer, cbFile, cbRun, cbApplied, cbWire, cbFaults>>

\* The absence of an entry.
CbNothing == [value |-> 0, spelling |-> "none"]
CbIsRegistered(e) == cbCatalog[e] # CbNothing

\* SqlAlchemyProjectRepository.list: newest first, at most CbListLimit rows.
CbListed == CbIsRegistered(CbProject) /\ cbNewer < CbListLimit

\* What the command can read: a project by the list, all else by its identity.
CbSeen(e) == IF e = CbProject THEN CbListed ELSE CbIsRegistered(e)

(***************************************************************************)
(* The file                                                                *)
(***************************************************************************)

CbIncluded(f) == ToSet(f.entries)

\* _project_key: the file brings the project or binds it.
CbNamesProject(f) == f.binding # 0 \/ CbProject \in CbIncluded(f)

\* validate_bundle: the references the file does not include.
CbExternal(f) ==
    {e \in CbEntries \ CbIncluded(f) :
        e = f.binding \/ \E d \in CbIncluded(f) : e \in CbRefs[d]}

\* validate_bundle: included workflows map the inputs of included phases.
CbValid(f) ==
    \A e \in CbIncluded(f) : CbKind[e] = "workflow" =>
        \A p \in CbRefs[e] \cap CbIncluded(f) :
            CbKind[p] = "phase_pack" =>
                <<f.content[e].value, f.content[p].value>> \notin CbMisfit

(***************************************************************************)
(* The control plane                                                       *)
(***************************************************************************)

\* Project strips its fields; ModelProfile sorts its lists and normalises its
\* prices, and so does the ModelRoutingRequest of a workflow's node with its
\* capabilities and its budget; skills and phase packs keep what was written.
CbNormalizing == {"project", "model", "workflow"}
CbStoredForm(e, v) ==
    IF CbKind[e] \in CbNormalizing THEN [v EXCEPT !.spelling = "normal"] ELSE v

\* The rows of a kind that were registered: what get answers from.
CbRegistered(kind) == {e \in CbEntries : CbKind[e] = kind /\ CbIsRegistered(e)}

CbInsert(e, v) == cbCatalog' = [cbCatalog EXCEPT ![e] = CbStoredForm(e, v)]

\* register_project; SkillCatalogService.register; ModelCatalogService.register
CbRegisterProject(r) == CbKind[r.entry] = "project" /\ ~CbIsRegistered(r.entry)
CbRegisterSkill(r) == CbKind[r.entry] = "skill" /\ ~CbIsRegistered(r.entry)
CbRegisterModel(r) == CbKind[r.entry] = "model" /\ ~CbIsRegistered(r.entry)

\* PhasePackCatalogService.register resolves its skills.
CbRegisterPhasePack(r) ==
    /\ CbKind[r.entry] = "phase_pack" /\ ~CbIsRegistered(r.entry)
    /\ CbRefs[r.entry] \subseteq CbRegistered("skill")

\* _resolve_phase_packs and _resolve_skills, those of the phases included
CbResolved(e) ==
    LET phases == {p \in CbRefs[e] : CbKind[p] = "phase_pack"}
        skills == (CbRefs[e] \ phases) \cup UNION {CbRefs[p] : p \in phases}
    IN  phases \subseteq CbRegistered("phase_pack") /\ skills \subseteq CbRegistered("skill")

\* _validate_phase_inputs
CbInputsMapped(e, v) ==
    \A p \in CbRefs[e] : CbKind[p] = "phase_pack" => <<v.value, cbCatalog[p].value>> \notin CbMisfit

\* register_definition
CbRegisterWorkflow(r) ==
    /\ CbKind[r.entry] = "workflow" /\ ~CbIsRegistered(r.entry)
    /\ CbResolved(r.entry) /\ CbInputsMapped(r.entry, r.content)

\* The services accept the post; otherwise they answer 404, 409 or 422.
CbAccepted(r) ==
    \/ CbRegisterProject(r) \/ CbRegisterSkill(r) \/ CbRegisterModel(r)
    \/ CbRegisterPhasePack(r) \/ CbRegisterWorkflow(r)

\* configure_binding
CbBind(r) == CbIsRegistered(CbProject) /\ r.entry \in CbRegistered("workflow")

(***************************************************************************)
(* The command                                                             *)
(***************************************************************************)

\* A command between two exchanges: next is the position in its work list,
\* create the entries it planned to create, update whether it is to bind, found
\* whether the project was listed when the command last asked;
\* attempt tells its requests from those of a command that was given up.
CbRuns ==
    [phase : {"idle", "planning", "applying", "waiting", "conflict", "applied", "failed"},
     next : Nat, create : SUBSET CbEntries, update : BOOLEAN, found : BOOLEAN,
     conflict : BOOLEAN, attempt : 0..CbMaxFaults]

CbIdle ==
    [phase |-> "idle", next |-> 0, create |-> {}, update |-> FALSE, found |-> FALSE,
     conflict |-> FALSE, attempt |-> 0]

CbFail(o) == cbRun' = [cbRun EXCEPT ![o] = [CbIdle EXCEPT !.phase = "failed"]]

\* The requests of plan_bundle by their places in it: the projects if the file
\* names one (0), the other entries, the dependencies, the binding.
CbBindingRead(f) == Len(f.entries) + Len(CbKind) + 1
CbReads(f) ==
    (IF CbNamesProject(f) THEN {0} ELSE {})
    \cup {n \in 1..Len(f.entries) : CbKind[f.entries[n]] # "project"}
    \cup {Len(f.entries) + e : e \in CbExternal(f)}
    \cup (IF f.binding = 0 THEN {} ELSE {CbBindingRead(f)})

\* The next of these places, if there is one.
CbNextOf(places, next) ==
    {n \in places : next =< n /\ \A m \in places : next =< m => n =< m}

\* Mutant: an identity that exists is taken for unchanged.
CbCompareIdentity(e, v) == IF CbSeen(e) THEN "unchanged" ELSE "create"

\* Mutant: what exists with the same content is created again.
CbCompareAlways(e, v) ==
    IF ~CbSeen(e) \/ cbCatalog[e] = v THEN "create" ELSE "conflict"

\* _compare_action on what the control plane answered
CbCompare(e, v) ==
    IF ~CbSeen(e) THEN "create"
    ELSE IF cbCatalog[e] = v THEN "unchanged" ELSE "conflict"

\* The action of one entry.
CbPlanEntry(run, e, f) ==
    LET action == CbCompare(e, f.content[e])
    IN  [run EXCEPT !.create = IF action = "create" THEN @ \cup {e} ELSE @,
                    !.conflict = @ \/ action = "conflict"]

\* The binding: for a project that was not listed only if the file brings it.
CbPlanBinding(run, f) ==
    IF run.found
    THEN [run EXCEPT !.update = cbBinding # f.binding]
    ELSE [run EXCEPT !.update = TRUE, !.conflict = @ \/ CbProject \notin CbIncluded(f)]

\* The answer to the list of projects.
CbPlanProject(run, f) ==
    LET compared == IF CbProject \in CbIncluded(f) THEN CbPlanEntry(run, CbProject, f) ELSE run
    IN  [compared EXCEPT !.found = CbListed]

\* A dependency that is not registered is a conflict.
CbPlanDependency(run, e) == [run EXCEPT !.conflict = @ \/ ~CbIsRegistered(e)]

\* The plan after the answer to the request at a place.
CbPlanned(run, place, f) ==
    IF place = 0 THEN CbPlanProject(run, f)
    ELSE IF place \in 1..Len(f.entries) THEN CbPlanEntry(run, f.entries[place], f)
    ELSE IF place = CbBindingRead(f) THEN CbPlanBinding(run, f)
    ELSE CbPlanDependency(run, place - Len(f.entries))

\* load_bundle and validate_bundle; a command that failed or found a conflict
\* is run again, and so may one that succeeded.
CbStart(o) ==
    /\ cbRun[o].phase \in {"idle", "failed", "conflict", "applied"} /\ CbValid(cbFile[o])
    /\ cbRun' = [cbRun EXCEPT ![o] = [CbIdle EXCEPT !.phase = "planning",
                                                       !.attempt = cbFaults]]
    /\ UNCHANGED <<cbCatalog, cbBinding, cbNewer, cbFile, cbApplied, cbWire, cbFaults>>

\* plan_bundle reads once more.
CbPlan(o) ==
    /\ cbRun[o].phase = "planning"
    /\ \E n \in CbNextOf(CbReads(cbFile[o]), cbRun[o].next) :
          cbRun' = [cbRun EXCEPT ![o] = [CbPlanned(cbRun[o], n, cbFile[o]) EXCEPT !.next = n + 1]]
    /\ UNCHANGED <<cbCatalog, cbBinding, cbNewer, cbFile, cbApplied, cbWire, cbFaults>>

\* apply_bundle stops before the first write at any conflict.
CbDecide(o) ==
    /\ cbRun[o].phase = "planning" /\ CbNextOf(CbReads(cbFile[o]), cbRun[o].next) = {}
    /\ cbRun' = [cbRun EXCEPT ![o].phase = IF cbRun[o].conflict THEN "conflict" ELSE "applying",
                              ![o].next = 0]
    /\ UNCHANGED <<cbCatalog, cbBinding, cbNewer, cbFile, cbApplied, cbWire, cbFaults>>

\* apply_bundle asks for the list again unless it is to create the project.
CbRelists(o) ==
    /\ cbRun[o].phase = "applying" /\ cbRun[o].next = 0
    /\ CbNamesProject(cbFile[o]) /\ CbProject \notin cbRun[o].create

CbRelist(o) ==
    /\ CbRelists(o)
    /\ cbRun' = [cbRun EXCEPT ![o].found = CbListed, ![o].next = 1]
    /\ UNCHANGED <<cbCatalog, cbBinding, cbNewer, cbFile, cbApplied, cbWire, cbFaults>>

\* The command knows the project it is to bind.
CbTargetKnown(run) == run.found \/ CbProject \in run.create

\* The writes of apply_bundle by their places: the planned entries in order,
\* then the binding, at which a command that does not know the project ends.
CbWrites(f, run) ==
    {n \in 1..Len(f.entries) : f.entries[n] \in run.create}
    \cup (IF f.binding # 0 /\ (run.update \/ ~CbTargetKnown(run)) THEN {Len(f.entries) + 1} ELSE {})

\* The place of the next write, if there is one.
CbNextWrite(o) ==
    IF cbRun[o].phase # "applying" \/ CbRelists(o) THEN {}
    ELSE CbNextOf(CbWrites(cbFile[o], cbRun[o]), cbRun[o].next)

CbRequest(o, n) ==
    LET f == cbFile[o]
    IN  IF n \in 1..Len(f.entries)
        THEN [op |-> o, attempt |-> cbRun[o].attempt, method |-> "POST", entry |-> f.entries[n],
              content |-> f.content[f.entries[n]]]
        ELSE [op |-> o, attempt |-> cbRun[o].attempt, method |-> "PUT", entry |-> f.binding,
              content |-> CbNothing]

CbSend(o) ==
    /\ \E n \in CbNextWrite(o) :
          /\ n \in 1..Len(cbFile[o].entries) \/ CbTargetKnown(cbRun[o])
          /\ cbWire' = cbWire \cup {CbRequest(o, n)}
          /\ cbRun' = [cbRun EXCEPT ![o].phase = "waiting", ![o].next = n]
    /\ UNCHANGED <<cbCatalog, cbBinding, cbNewer, cbFile, cbApplied, cbFaults>>

\* "bundle project does not exist"
CbAbandon(o) ==
    /\ Len(cbFile[o].entries) + 1 \in CbNextWrite(o) /\ ~CbTargetKnown(cbRun[o])
    /\ CbFail(o)
    /\ UNCHANGED <<cbCatalog, cbBinding, cbNewer, cbFile, cbApplied, cbWire, cbFaults>>

CbFinish(o) ==
    /\ cbRun[o].phase = "applying" /\ ~CbRelists(o) /\ CbNextWrite(o) = {}
    /\ cbRun' = [cbRun EXCEPT ![o] = [CbIdle EXCEPT !.phase = "applied"]]
    /\ cbApplied' = cbApplied \cup {o}
    /\ UNCHANGED <<cbCatalog, cbBinding, cbNewer, cbFile, cbWire, cbFaults>>

\* The command waits for the answer to this request.
CbAwaits(r) == cbRun[r.op].phase = "waiting" /\ CbRequest(r.op, cbRun[r.op].next) = r

\* The answer reaches the client: a success moves it on, an error ends it.
CbAnswer(r, ok) ==
    IF ~CbAwaits(r) THEN UNCHANGED cbRun
    ELSE IF ok THEN cbRun' = [cbRun EXCEPT ![r.op].phase = "applying", ![r.op].next = @ + 1]
    ELSE CbFail(r.op)

CbServe(r) ==
    /\ cbWire' = cbWire \ {r}
    /\ \/ /\ r.method = "POST" /\ CbAccepted(r) /\ CbInsert(r.entry, r.content)
          /\ CbAnswer(r, TRUE) /\ UNCHANGED cbBinding
       \/ /\ r.method = "PUT" /\ CbBind(r) /\ cbBinding' = r.entry
          /\ CbAnswer(r, TRUE) /\ UNCHANGED cbCatalog
       \/ /\ (r.method = "POST" /\ ~CbAccepted(r)) \/ (r.method = "PUT" /\ ~CbBind(r))
          /\ CbAnswer(r, FALSE) /\ UNCHANGED <<cbCatalog, cbBinding>>
    /\ UNCHANGED <<cbNewer, cbFile, cbApplied, cbFaults>>

\* The client gives up after 15 seconds or is interrupted: the request may
\* still be served, now or later, or may have been served already.
CbGiveUp(o) ==
    /\ cbRun[o].phase \in {"planning", "applying", "waiting"} /\ cbFaults < CbMaxFaults
    /\ CbFail(o) /\ cbFaults' = cbFaults + 1
    /\ UNCHANGED <<cbCatalog, cbBinding, cbNewer, cbFile, cbApplied, cbWire>>

\* The request is lost, or its transaction is rolled back with a server error.
CbLose(r) ==
    /\ cbFaults < CbMaxFaults /\ cbFaults' = cbFaults + 1
    /\ cbWire' = cbWire \ {r}
    /\ CbAnswer(r, FALSE)
    /\ UNCHANGED <<cbCatalog, cbBinding, cbNewer, cbFile, cbApplied>>

\* Another project is registered.
CbRegisterOther ==
    /\ CbIsRegistered(CbProject) /\ cbNewer < CbListLimit
    /\ cbNewer' = cbNewer + 1
    /\ cbFaults < CbMaxFaults /\ cbFaults' = cbFaults + 1
    /\ UNCHANGED <<cbCatalog, cbBinding, cbFile, cbRun, cbApplied, cbWire>>

(***************************************************************************)
(* The specification                                                       *)
(***************************************************************************)
CbInit ==
    /\ cbCatalog = [e \in CbEntries |-> CbNothing] /\ cbBinding = 0 /\ cbNewer = 0
    /\ \E f \in [CbOperators -> UNION {CbFiles[o] : o \in CbOperators}] :
        (\A o \in CbOperators : f[o] \in CbFiles[o]) /\ cbFile = f
    /\ cbRun = [o \in CbOperators |-> CbIdle] /\ cbApplied = {}
    /\ cbWire = {} /\ cbFaults = 0

CbCommand(o) ==
    CbPlan(o) \/ CbDecide(o) \/ CbRelist(o) \/ CbSend(o) \/ CbAbandon(o) \/ CbFinish(o)

CbNext ==
    \/ \E o \in CbOperators : CbStart(o) \/ CbCommand(o) \/ CbGiveUp(o)
    \/ \E r \in cbWire : CbServe(r) \/ CbLose(r)
    \/ CbRegisterOther

\* A command that runs proceeds, a request is served in the end, and an
\* operator runs a command that failed or found a conflict again.
CbRetry(o) == cbRun[o].phase \in {"failed", "conflict"} /\ CbStart(o)
CbDeliver(o) == \E r \in cbWire : r.op = o /\ CbServe(r)

CbFairness ==
    \A o \in CbOperators :
        WF_cbVars(CbCommand(o) \/ CbRetry(o)) /\ WF_cbVars(CbDeliver(o))

CbSpec == CbInit /\ [][CbNext]_cbVars /\ CbFairness

(***************************************************************************)
(* Properties                                                              *)
(***************************************************************************)

\* Every variable is in its domain.
CbTypeOK ==
    /\ cbCatalog \in [CbEntries -> CbContents \cup {CbNothing}] /\ cbBinding \in CbEntries \cup {0}
    /\ cbNewer \in 0..CbListLimit
    /\ cbRun \in [CbOperators -> CbRuns] /\ \A o \in CbOperators : cbFile[o] \in CbFiles[o]
    /\ cbApplied \subseteq CbOperators /\ cbFaults \in 0..CbMaxFaults

\* Once apply_bundle reported success to an operator, every entry of the file
\* is registered with the content the file gives it, whatever other files were
\* applied meanwhile and however often the command was cut off; and at every
\* moment the references of what is registered are registered too, so that a
\* half-applied bundle leaves no dangling workflow or binding.
CbAppliedAsWritten ==
    /\ \A o \in cbApplied : \A e \in CbIncluded(cbFile[o]) :
        cbCatalog[e] = CbStoredForm(e, cbFile[o].content[e])
    /\ \A e \in CbEntries : CbIsRegistered(e) => \A d \in CbRefs[e] : CbIsRegistered(d)
    /\ cbBinding # 0 => CbIsRegistered(cbBinding) /\ CbIsRegistered(CbProject)

\* A workflow of the file does not map the inputs of a phase that is in the
\* catalog: register_definition refuses it every time.
CbRefused(o) ==
    \E e \in CbIncluded(cbFile[o]) :
        CbKind[e] = "workflow" /\ ~CbInputsMapped(e, cbFile[o].content[e])

\* The catalog keeps something else under an identity of the file.
CbTaken(o) ==
    \E e \in CbIncluded(cbFile[o]) :
        CbIsRegistered(e) /\ cbCatalog[e] # CbStoredForm(e, cbFile[o].content[e])

\* A version or the project the file takes for registered is not.
CbAbsent(o) ==
    \/ \E e \in CbExternal(cbFile[o]) : ~CbIsRegistered(e)
    \/ cbFile[o].binding # 0 /\ CbProject \notin CbIncluded(cbFile[o]) /\ ~CbIsRegistered(CbProject)

\* The file itself is why its command does not succeed.
CbHindered(o) == CbTaken(o) \/ CbRefused(o) \/ (cbRun[o].phase = "conflict" /\ CbAbsent(o))

\* The file writes an entry in another form than the catalog keeps.
CbUnnormalized(o) ==
    \E e \in CbIncluded(cbFile[o]) :
        CbStoredForm(e, cbFile[o].content[e]) # cbFile[o].content[e]

\* The project is registered and too old to be listed.
CbHidden(o) == CbNamesProject(cbFile[o]) /\ CbIsRegistered(CbProject) /\ ~CbListed

\* An operator who runs a failed command again gets the bundle applied, whatever
\* the interrupted apply left behind, late requests included: unless the catalog
\* holds other content under one of its identities, refuses a workflow or lacks
\* a reference, an entry is not written in the form the catalog keeps, or the
\* project is no longer listed.
CbConverges ==
    \A o \in CbOperators :
        cbRun[o].phase = "failed" ~>
            \/ cbRun[o].phase = "applied" \/ CbHindered(o)
            \/ CbUnnormalized(o) \/ CbHidden(o)

\* README and ADR 0034: after an apply that was cut off by the network, plan and
\* apply of the same file converge; the same content is "unchanged".  No word of
\* the form the file is written in.
CbReapplyConverges ==
    \A o \in CbOperators :
        cbRun[o].phase = "failed" ~>
            (cbRun[o].phase = "applied" \/ CbHindered(o) \/ CbHidden(o))
=============================================================================
