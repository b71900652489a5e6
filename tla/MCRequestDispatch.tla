------------------------- MODULE MCRequestDispatch -------------------------
(***************************************************************************)
(* A small catalog, two prompts and the forms users enter, for             *)
(* MCControlPlane and for the recommendation of a single candidate.        *)
(***************************************************************************)
EXTENDS RequestDispatch

\* A prompt that two workflows fit about equally and one with a clear choice;
\* versions 1 and 3 of one workflow, and a workflow no worker can run.
MCPrompts == << {"plan", "parser"}, {"fix"} >>
MCText == << {"parser"}, {"plan", "fix"}, {"plan", "design", "parser"} >>
MCIntent ==
    [plan |-> "planning", design |-> "planning", fix |-> "repair", parser |-> "none"]
MCKey == <<1, 2, 1>>
MCNodes == << {"n"}, {}, {"n"} >>
MCForm(prompt, workflow, addons) ==
    [prompt |-> prompt, workflow |-> workflow, addons |-> addons]
MCForms == {MCForm(1, 0, {}), MCForm(1, 1, {"n"}), MCForm(2, 2, {})}
=============================================================================
