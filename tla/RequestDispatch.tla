-------------------------- MODULE RequestDispatch --------------------------
(***************************************************************************)
(* One-call dispatch of a prompt: the project's workflow binding, the      *)
(* keyword recommendation of a workflow, the idempotency receipt of a      *)
(* dispatch, and the two clients that retry one: the Jarvis composer, which*)
(* draws a key per form, and the MCP client, whose caller chooses the key  *)
(* (application.request_dispatch_services, workflow_compatibility,         *)
(* workflows.recommendations, apps/jarvis, mcp_server).                    *)
(*                                                                         *)
(* A dispatch is one transaction of two steps: it claims the receipt, then *)
(* selects a workflow, creates the run and commits.  Its answer may be     *)
(* lost at any moment while the transaction goes on.  A prompt and the     *)
(* text of a workflow are sets of terms.                                   *)
(***************************************************************************)
EXTENDS Integers, Sequences, FiniteSets, FiniteSetsExt, SequencesExt, Ordering

CONSTANTS
    DpPrompts,     \* DpPrompts[p]: tokenize(prompt) of prompt p
    DpText,        \* DpText[d]: tokenize(searchable_text) of definition d
    DpIntent,      \* DpIntent[t]: the intent a term is an alias of, or "none"
    DpKey,         \* DpKey[d]: the key of definition d; later versions have higher numbers
    DpIncompatible,\* the definitions assess_workflow_compatibility objects to
    DpTaskNodes,   \* DpTaskNodes[d]: the keys of its task nodes
    DpNodes,       \* the node keys a request may add a skill to
    DpForms,       \* the prompts, workflows and add-ons users enter
    DpLimits,      \* the limits of a recommendation that are asked for
    DpOld,         \* definitions registered at the start
    DpMaxCalls,    \* bound: dispatch calls
    DpMaxEdits,    \* bound: changes of the composer's form
    DpMaxChanges,  \* bound: changes of the project, its binding and the catalog
    DpMaxRecs      \* bound: recommendations asked for

DpDefinitions == DOMAIN DpText
DpPromptIds == DOMAIN DpPrompts
DpCalls == 1..DpMaxCalls
DpNone == 0

ASSUME DpAssumption ==
    /\ DpText # <<>> /\ DpText \in Seq({DpText[d] : d \in DpDefinitions})
    /\ DpPrompts # <<>> /\ DpPrompts \in Seq({DpPrompts[p] : p \in DpPromptIds})
    /\ \A d \in DpDefinitions : IsFiniteSet(DpText[d])
    /\ \A p \in DpPromptIds : IsFiniteSet(DpPrompts[p])
    /\ DpKey \in [DpDefinitions -> Nat] /\ DOMAIN DpTaskNodes = DpDefinitions
    /\ DpIncompatible \subseteq DpDefinitions /\ DpOld \in DpDefinitions
    /\ DpForms \subseteq [prompt : DpPromptIds, workflow : DpDefinitions \cup {DpNone},
                          addons : SUBSET DpNodes]
    /\ DpLimits \subseteq 1..10
    /\ DpMaxCalls \in Nat /\ DpMaxEdits \in Nat /\ DpMaxChanges \in Nat /\ DpMaxRecs \in Nat

VARIABLES
    dpActive,     \* the project is ACTIVE
    dpPublished,  \* definitions registered so far: 1..dpPublished
    dpBinding,    \* the definition the project is bound to, or none
    dpChanges,    \* changes of these so far
    dpRecs,       \* the recorded recommendation events
    dpPending,    \* a recommendation computed and not yet recorded, if any
    dpReceipt,    \* dpReceipt[k]: the committed receipt of key k
    dpRuns,       \* the runs created by dispatches
    dpCall,       \* dpCall[c]: dispatch call c at the server
    dpForm,       \* the composer: its form, its attempt and the call it waits for
    dpDrawn,      \* keys the composer has drawn
    dpEdits       \* changes of the form so far

dpCatalog == <<dpActive, dpPublished, dpBinding, dpChanges>>
dpRecommended == <<dpRecs, dpPending>>
dpServer == <<dpReceipt, dpRuns, dpCall>>
dpClient == <<dpForm, dpDrawn, dpEdits>>
dpVars == <<dpCatalog, dpRecommended, dpServer, dpClient>>

\* DispatchProjectRequest: workflow is the override and rec the
\* recommendation, if any; addons are the nodes that get a further skill.
DpInputs ==
    [prompt : DpPromptIds, workflow : DpDefinitions \cup {DpNone}, rec : 0..DpMaxRecs,
     addons : SUBSET DpNodes]

\* Receipt keys: the composer draws 1, 2, ..., the MCP client has one of its own.
DpMcpKey == 0
DpReceiptKeys == 0..DpMaxCalls

\* RequestDispatchReceipt: run stands for its three result ids and input for
\* the payload digest; a call also has the answer it gets.
DpNoInput == [prompt |-> 0]
DpNoReceipt == [run |-> 0, input |-> DpNoInput]
DpReceipts == [run : Nat, input : DpInputs]
DpCallStates ==
    [phase : {"received", "claimed", "ended"}, key : DpReceiptKeys, input : DpInputs,
     answer : {"none", "created", "replayed", "refused"}, run : Nat, form : Nat,
     active : BOOLEAN]
DpRunRows ==
    [key : DpReceiptKeys, input : DpInputs, definition : DpDefinitions, form : Nat,
     source : {"policy_recommendation", "confirmed_recommendation", "request_override",
               "project_binding"}]

DpUnsent == [phase |-> "unsent", key |-> 0, input |-> DpNoInput, answer |-> "none", run |-> 0,
             form |-> 0, active |-> FALSE]

DpInit ==
    /\ dpActive = TRUE /\ dpPublished = DpOld /\ dpBinding \in 0..DpOld /\ dpChanges = 0
    /\ dpRecs = <<>> /\ dpPending = <<>>
    /\ dpReceipt = [k \in DpReceiptKeys |-> DpNoReceipt]
    /\ dpRuns = <<>>
    /\ dpCall = [c \in DpCalls |-> DpUnsent]
    /\ dpForm = [prompt |-> Min(DpPromptIds), workflow |-> DpNone, rec |-> 0, addons |-> {},
                 attempt |-> [key |-> 0], waiting |-> 0]
    /\ dpDrawn = 0 /\ dpEdits = 0

-----------------------------------------------------------------------------
DpChange == dpChanges < DpMaxChanges /\ dpChanges' = dpChanges + 1

\* A workflow definition is registered.
DpPublish ==
    /\ dpPublished + 1 \in DpDefinitions /\ dpPublished' = dpPublished + 1 /\ DpChange
    /\ UNCHANGED <<dpActive, dpBinding, dpRecommended, dpServer, dpClient>>

\* The project is archived.
DpArchive ==
    /\ dpActive /\ dpActive' = FALSE /\ DpChange
    /\ UNCHANGED <<dpPublished, dpBinding, dpRecommended, dpServer, dpClient>>

\* configure_binding, for a definition that exists.
DpConfigureBinding(d) ==
    /\ d <= dpPublished /\ d # dpBinding /\ dpBinding' = d /\ DpChange
    /\ UNCHANGED <<dpActive, dpPublished, dpRecommended, dpServer, dpClient>>

-----------------------------------------------------------------------------
\* The definitions list_workflow_options offers: the latest of each key.
DpLatest ==
    {d \in 1..dpPublished : \A e \in 1..dpPublished : (DpKey[e] = DpKey[d]) => (e <= d)}

\* _intents.
DpIntents(terms) == {DpIntent[t] : t \in terms} \ {"none"}

\* The score of a workflow in recommend_workflows.
DpScore(p, d, default) ==
    LET matchedTerms == DpPrompts[p] \cap DpText[d]
        matchedIntents == DpIntents(DpPrompts[p]) \cap DpIntents(DpText[d])
    IN  4 * Cardinality(matchedTerms) + 6 * Cardinality(matchedIntents)
            + (IF d = default THEN 1 ELSE 0)

\* The sort key of ranked; definitions are numbered by key, and only one
\* version of a key is offered.
DpBefore(p, default, d, e) ==
    \/ DpScore(p, d, default) > DpScore(p, e, default)
    \/ /\ DpScore(p, d, default) = DpScore(p, e, default)
       /\ IF default \in {d, e} THEN d = default /\ e # default ELSE DpKey[d] < DpKey[e]

DpRanked(p, default) ==
    Ordered(DpLatest, {x \in DpLatest \X DpLatest : DpBefore(p, default, x[1], x[2])})

\* Mutant: a tie of the best two is good enough.
DpConfidenceOfTop(top, runnerUp) ==
    IF top >= 10 THEN "high" ELSE IF top >= 6 THEN "medium" ELSE "low"

\* RecommendationConfidence.
DpConfidence(top, runnerUp) ==
    IF top >= 10 /\ top - runnerUp >= 4 THEN "high"
    ELSE IF top >= 6 /\ top > runnerUp THEN "medium" ELSE "low"

\* recommend_workflows: the candidates are cut to the limit ...
DpCandidates(p, default, limit) ==
    LET ranked == DpRanked(p, default)
    IN  SubSeq(ranked, 1, IF limit < Len(ranked) THEN limit ELSE Len(ranked))

DpScoreAt(p, default, candidates, i) ==
    IF i <= Len(candidates) THEN DpScore(p, candidates[i], default) ELSE 0

\* ... before the confidence is taken from the first two of them.
DpConfirm(p, default, candidates) ==
    DpConfidence(DpScoreAt(p, default, candidates, 1), DpScoreAt(p, default, candidates, 2)) # "high"

\* What is recorded; what was offered is history.
DpRecommend(p, default, limit) ==
    LET candidates == DpCandidates(p, default, limit)
    IN  [prompt |-> p, candidates |-> candidates, default |-> default, offered |-> DpLatest,
         confirm |-> DpConfirm(p, default, candidates)]

\* RequestDispatchService.recommend_workflows reads the options in one
\* transaction and records the event in another.
DpBeginRecommendation(p, limit) ==
    /\ dpPending = <<>> /\ Len(dpRecs) < DpMaxRecs
    /\ dpPending' = <<DpRecommend(p, dpBinding, limit)>>
    /\ UNCHANGED <<dpCatalog, dpRecs, dpServer, dpClient>>

\* The second transaction: the project.workflow_recommended event.
DpRecordRecommendation ==
    /\ dpPending # <<>>
    /\ dpRecs' = dpRecs \o dpPending /\ dpPending' = <<>>
    /\ UNCHANGED <<dpCatalog, dpServer, dpClient>>

-----------------------------------------------------------------------------
\* The composer: the user edits the prompt, selects a workflow or skills, or
\* takes over a recommendation, which is used while the prompt is the same, also
\* while an earlier submission is being served.
DpEdit(prompt, workflow, addons) ==
    /\ dpEdits < DpMaxEdits
    /\ workflow <= dpPublished
    /\ <<prompt, workflow, addons>> # <<dpForm.prompt, dpForm.workflow, dpForm.addons>>
    /\ dpForm' = [dpForm EXCEPT !.prompt = prompt, !.workflow = workflow, !.addons = addons,
                                !.rec = IF prompt = dpForm.prompt THEN dpForm.rec ELSE 0]
    /\ dpEdits' = dpEdits + 1
    /\ UNCHANGED <<dpCatalog, dpRecommended, dpServer, dpDrawn>>

\* requestRecommendation: a clear recommendation is selected at once.
DpTakeRecommendation(r) ==
    /\ dpEdits < DpMaxEdits /\ r \in DOMAIN dpRecs
    /\ dpRecs[r].prompt = dpForm.prompt /\ dpForm.rec # r
    /\ dpForm' = [dpForm EXCEPT !.rec = r,
                     !.workflow = IF dpRecs[r].confirm THEN @ ELSE dpRecs[r].candidates[1]]
    /\ dpEdits' = dpEdits + 1
    /\ UNCHANGED <<dpCatalog, dpRecommended, dpServer, dpDrawn>>

\* What submit sends: the route passes it on, with the ingress key "jarvis".
DpFormInput ==
    [prompt |-> dpForm.prompt, workflow |-> dpForm.workflow, rec |-> dpForm.rec,
     addons |-> dpForm.addons]

\* Mutant: every submission has a key of its own.
DpPrepareNewAttempt(input) == [key |-> dpDrawn + 1, input |-> input]

\* prepareDispatchAttempt: the key is kept while the fingerprint is the same.
DpPrepareAttempt(input) ==
    IF dpForm.attempt.key # 0 /\ dpForm.attempt.input = input
    THEN dpForm.attempt ELSE [key |-> dpDrawn + 1, input |-> input]

\* Call c reaches the API, as the next one, and loads the project; form is
\* history, the edition of the composer's form.
DpReceive(c, key, input, form) ==
    /\ dpCall[c].phase = "unsent" /\ \A b \in 1..(c - 1) : dpCall[b].phase # "unsent"
    /\ dpCall' = [dpCall EXCEPT ![c] = [phase |-> "received", key |-> key, input |-> input,
                                        answer |-> "none", run |-> 0, form |-> form,
                                        active |-> dpActive]]

\* submit, which does nothing while submitting.
DpSubmit(c) ==
    LET attempt == DpPrepareAttempt(DpFormInput)
    IN  /\ dpForm.waiting = 0
        /\ DpReceive(c, attempt.key, DpFormInput, dpEdits)
        /\ dpForm' = [dpForm EXCEPT !.attempt = attempt, !.waiting = c]
        /\ dpDrawn' = IF attempt.key > dpDrawn THEN attempt.key ELSE dpDrawn
        /\ UNCHANGED <<dpCatalog, dpRecommended, dpReceipt, dpRuns, dpEdits>>

\* The MCP client's dispatch_request, with a key its caller reuses.
DpMcpDispatch(c, input) ==
    /\ DpReceive(c, DpMcpKey, input, 0)
    /\ UNCHANGED <<dpCatalog, dpRecommended, dpReceipt, dpRuns, dpClient>>

\* The composer's call fails on the way back or is cut off: the transaction
\* goes on, the form and its attempt stay.
DpLoseAnswer ==
    /\ dpForm.waiting # 0 /\ dpForm' = [dpForm EXCEPT !.waiting = 0]
    /\ UNCHANGED <<dpCatalog, dpRecommended, dpServer, dpDrawn, dpEdits>>

\* readDispatch: a refusal leaves the form as it is, a success clears it.
DpAnswered ==
    LET c == dpForm.waiting
    IN  /\ c # 0 /\ dpCall[c].phase = "ended"
        /\ dpForm' = IF dpCall[c].answer = "refused"
                     THEN [dpForm EXCEPT !.waiting = 0]
                     ELSE [dpForm EXCEPT !.waiting = 0, !.attempt = [key |-> 0], !.rec = 0,
                                         !.addons = {}]
        /\ dpEdits' = IF dpCall[c].answer = "refused" THEN dpEdits ELSE dpEdits + 1
        /\ UNCHANGED <<dpCatalog, dpRecommended, dpServer, dpDrawn>>

-----------------------------------------------------------------------------
DpEndCall(c, answer, run) ==
    dpCall' = [dpCall EXCEPT ![c].phase = "ended", ![c].answer = answer, ![c].run = run]

\* Mutant: the receipt is looked up, not claimed.
DpBlockedNever(c) == FALSE

\* INSERT ... ON CONFLICT DO NOTHING waits for the transaction that has
\* inserted the same key and not yet ended.
DpBlocked(c) ==
    \E b \in DpCalls : b # c /\ dpCall[b].phase = "claimed" /\ dpCall[b].key = dpCall[c].key

\* try_claim.
DpClaimed(c) == dpReceipt[dpCall[c].key] = DpNoReceipt

\* dispatch with a receipt that exists: another payload is a conflict, an
\* unfinished one too, and the same one is answered with the stored result.
DpReplay(c) ==
    LET receipt == dpReceipt[dpCall[c].key]
    IN  IF receipt.input # dpCall[c].input \/ receipt.run = 0 THEN "refused" ELSE "replayed"

\* dispatch, up to try_claim; a refused replay ends the call.
DpTryClaim(c) ==
    /\ dpCall[c].phase = "received" /\ ~DpBlocked(c)
    /\ IF DpClaimed(c)
       THEN dpCall' = [dpCall EXCEPT ![c].phase = "claimed"]
       ELSE DpEndCall(c, DpReplay(c),
                      IF DpReplay(c) = "replayed" THEN dpReceipt[dpCall[c].key].run ELSE 0)
    /\ UNCHANGED <<dpCatalog, dpRecommended, dpReceipt, dpRuns, dpClient>>

\* dispatch: the recommendation the request names is usable for it.
DpRecommendationUsable(input) ==
    LET rec == dpRecs[input.rec]
    IN  /\ rec.prompt = input.prompt
        /\ IF input.workflow = DpNone THEN ~rec.confirm /\ rec.candidates # <<>>
           ELSE input.workflow \in ToSet(rec.candidates)

\* dispatch: the definition selected for a request, or none.
DpSelect(input) ==
    IF input.rec # 0 /\ ~DpRecommendationUsable(input) THEN DpNone
    ELSE IF input.workflow # DpNone THEN input.workflow
    ELSE IF input.rec # 0 THEN dpRecs[input.rec].candidates[1] ELSE dpBinding

\* workflow_definitions.get finds the selected definition.
DpRegistered(d) == d \in 1..dpPublished

\* selection_source.
DpSource(input) ==
    IF input.rec # 0
    THEN IF input.workflow = DpNone THEN "policy_recommendation" ELSE "confirmed_recommendation"
    ELSE IF input.workflow # DpNone THEN "request_override" ELSE "project_binding"

\* _apply_skill_addons: every node must be a task of the definition.
DpAddonsApply(d, addons) == addons \subseteq DpTaskNodes[d]

\* assess_workflow_compatibility(...).compatible.
DpCompatible(d) == d \notin DpIncompatible

\* dispatch goes on to its commit: the request, its run, its workflow execution
\* and the completed receipt at once.
DpCommit(c) ==
    LET input == dpCall[c].input
        d == DpSelect(input)
        run == Len(dpRuns) + 1
    IN  /\ dpCall[c].phase = "claimed"
        /\ dpCall[c].active /\ DpRegistered(d) /\ DpAddonsApply(d, input.addons) /\ DpCompatible(d)
        /\ dpRuns' = Append(dpRuns, [key |-> dpCall[c].key, input |-> input, definition |-> d,
                                     source |-> DpSource(input), form |-> dpCall[c].form])
        /\ dpReceipt' = [dpReceipt EXCEPT ![dpCall[c].key] = [run |-> run, input |-> input]]
        /\ DpEndCall(c, "created", run)
        /\ UNCHANGED <<dpCatalog, dpRecommended, dpClient>>

\* dispatch raises: the claim is rolled back.
DpRefuse(c) ==
    LET d == DpSelect(dpCall[c].input)
    IN  /\ dpCall[c].phase = "claimed"
        /\ ~(dpCall[c].active /\ DpRegistered(d)
             /\ DpAddonsApply(d, dpCall[c].input.addons) /\ DpCompatible(d))
        /\ DpEndCall(c, "refused", 0)
        /\ UNCHANGED <<dpCatalog, dpRecommended, dpReceipt, dpRuns, dpClient>>

\* The connection or the process dies inside the transaction, as good as raising.
DpDie(c) ==
    /\ dpCall[c].phase = "claimed" /\ DpEndCall(c, "refused", 0)
    /\ UNCHANGED <<dpCatalog, dpRecommended, dpReceipt, dpRuns, dpClient>>

DpServe(c) == DpTryClaim(c) \/ DpCommit(c) \/ DpRefuse(c)

DpNext ==
    \/ DpPublish \/ DpArchive \/ \E d \in DpDefinitions : DpConfigureBinding(d)
    \/ \E p \in DpPromptIds, limit \in DpLimits : DpBeginRecommendation(p, limit)
    \/ DpRecordRecommendation
    \/ \E f \in DpForms : DpEdit(f.prompt, f.workflow, f.addons)
    \/ \E r \in 1..DpMaxRecs : DpTakeRecommendation(r)
    \/ DpLoseAnswer \/ DpAnswered
    \/ \E c \in DpCalls : DpSubmit(c)
    \/ \E c \in DpCalls, f \in DpForms, r \in 0..Len(dpRecs) :
          DpMcpDispatch(c, [prompt |-> f.prompt, workflow |-> f.workflow, rec |-> r,
                            addons |-> f.addons])
    \/ \E c \in DpCalls : DpServe(c) \/ DpDie(c)

DpSpec == DpInit /\ [][DpNext]_dpVars

-----------------------------------------------------------------------------
\* Calls, receipts, runs and the form have their types.
DpTypeOK ==
    /\ dpActive \in BOOLEAN /\ dpPublished \in DpDefinitions
    /\ dpBinding \in DpDefinitions \cup {DpNone}
    /\ dpReceipt \in [DpReceiptKeys -> DpReceipts \cup {DpNoReceipt}]
    /\ dpRuns \in Seq(DpRunRows)
    /\ dpCall \in [DpCalls -> DpCallStates \cup {DpUnsent}]
    /\ DpFormInput \in DpInputs /\ dpForm.waiting \in 0..DpMaxCalls

\* ADR 0021: a user who submits an unchanged form again and again, after lost
\* answers, refusals and while an earlier submission is still being served,
\* starts one run, and so does a client that reuses its key.
DpOneRunPerForm ==
    \A i, j \in DOMAIN dpRuns :
        i # j => /\ dpRuns[i].key # dpRuns[j].key
                 /\ (dpRuns[i].key # DpMcpKey /\ dpRuns[j].key # DpMcpKey) =>
                        dpRuns[i].form # dpRuns[j].form

\* ADR 0021: an answer is true.  A call that succeeds names a run made for just
\* what it asked for, the same for all calls of its key; a receipt is seen
\* complete or not at all, and every run has one.
DpAnswersTrue ==
    /\ \A c \in DpCalls : dpCall[c].answer \in {"created", "replayed"} =>
          /\ dpCall[c].run \in DOMAIN dpRuns
          /\ dpRuns[dpCall[c].run].input = dpCall[c].input
          /\ dpReceipt[dpCall[c].key].run = dpCall[c].run
    /\ \A k \in DpReceiptKeys : dpReceipt[k] # DpNoReceipt =>
          dpReceipt[k].run \in DOMAIN dpRuns /\ dpRuns[dpReceipt[k].run].key = k
    /\ \A i \in DOMAIN dpRuns : dpReceipt[dpRuns[i].key].run = i

\* What a recommendation that needs no confirmation must be: ten points, and a
\* lead of margin over every other workflow that was on offer.
DpLeads(rec, d, margin) ==
    /\ DpScore(rec.prompt, d, rec.default) >= 10
    /\ \A e \in rec.offered \ {d} :
          DpScore(rec.prompt, d, rec.default) - DpScore(rec.prompt, e, rec.default) >= margin

\* A list of one candidate has no runner-up to be compared with.
DpMargin(rec) == IF Len(rec.candidates) = 1 THEN 0 ELSE 4

\* The runs nobody chose a workflow for, and what the recommendation owes them.
DpChosenBy(i, margin) ==
    LET rec == dpRecs[dpRuns[i].input.rec]
    IN  rec.prompt = dpRuns[i].input.prompt /\ DpLeads(rec, dpRuns[i].definition, margin)

\* ADR 0059: a workflow nobody chose is started only if it was the best for just
\* that prompt among all that were on offer, whatever is registered or bound
\* between the recommendation and the dispatch: nothing on offer had more points
\* and, if more than one candidate was asked for, nothing came within four of it.
DpAutomaticIsBest ==
    \A i \in DOMAIN dpRuns : dpRuns[i].source = "policy_recommendation" =>
        DpChosenBy(i, DpMargin(dpRecs[dpRuns[i].input.rec]))

\* ADR 0059 as it is written: a medium or low confidence has to be confirmed, so
\* whatever is started without confirmation had a clear lead.  A recommendation of
\* one candidate breaks it: its runner-up counts as 0, and a tie is "high".
DpAutomaticIsClear ==
    \A i \in DOMAIN dpRuns : dpRuns[i].source = "policy_recommendation" => DpChosenBy(i, 4)
=============================================================================
