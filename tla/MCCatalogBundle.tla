--------------------------- MODULE MCCatalogBundle ---------------------------
(***************************************************************************)
(* Bundles of a project, a skill, a model, a phase pack and two workflows. *)
(***************************************************************************)
EXTENDS CatalogBundle

CONSTANTS oa, ob

MCKind == <<"project", "skill", "model", "phase_pack", "workflow", "workflow">>
MCRefs == <<{}, {}, {}, {2}, {4}, {2, 4}>>

\* A file that changes one entry and writes some in another form.
MCFile(entries, changed, value, other, binding) ==
    [entries |-> entries, binding |-> binding,
     content |-> [e \in ToSet(entries) |->
                    [value |-> IF e = changed THEN value ELSE 1,
                     spelling |-> IF e \in other THEN "other" ELSE "normal"]]]

\* The second operator's file agrees with the first one's, changes the phase
\* pack, or brings a model and a workflow that are not in their normal form,
\* the workflow without the inputs of the phase pack.
MCFiles ==
    [o \in CbOperators |->
        IF o = oa THEN {MCFile(<<1, 2, 4, 5>>, 0, 1, {}, 5)}
        ELSE {MCFile(<<2, 6>>, 0, 1, {}, 6), MCFile(<<4, 6>>, 4, 2, {}, 6),
              MCFile(<<3, 6>>, 6, 3, {3, 6}, 0)}]
MCMisfit == {<<3, 1>>}

\* One operator whose file lists the capabilities of a model in another order.
MCReordered == [o \in CbOperators |-> {MCFile(<<2, 3>>, 0, 1, {3}, 0)}]
=============================================================================
