SPECIFICATION DpSpec
CONSTANTS
    DpPrompts <- MCPrompts
    DpText <- MCText
    DpIntent <- MCIntent
    DpKey <- MCKey
    DpIncompatible = {2}
    DpTaskNodes <- MCNodes
    DpNodes = {"n"}
    DpOld = 2
    DpMaxCalls = 2
    DpMaxEdits = 1
    DpMaxRecs = 1
    DpMaxChanges = 1
    DpForms <- MCForms
    DpLimits = {1, 2}
INVARIANT
    DpAutomaticIsClear
CHECK_DEADLOCK FALSE
