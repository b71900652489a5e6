SPECIFICATION CbSpec
CONSTANTS
    oa = oa
    ob = ob
    CbOperators = {oa}
    CbKind <- MCKind
    CbRefs <- MCRefs
    CbProject = 1
    CbFiles <- MCReordered
    CbMisfit <- MCMisfit
    CbListLimit = 1
    CbMaxFaults = 1
PROPERTIES
    CbReapplyConverges
CHECK_DEADLOCK FALSE
