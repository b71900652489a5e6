SPECIFICATION MCSpec
CONSTANTS
    w1 = w1
    w2 = w2
    Workers = {w1, w2}
    NoWorker = NoWorker
    Limit <- MCLimits
    LeaseSeconds = 2
    Timeout = 1
    BaseDelay = 1
    MaxDelay = 2
    MaxPrep = 1
    LegacyAttempts = 1
    MaxManual = 1
    MaxFaults = 1
    MaxCommits = 2
    oa = oa
    ob = ob
    EsWriters = {x1, x2}
    EsClients = {c1}
    EsPageLimit = 2
    EsMaxEvents = 3
    EsMaxDisconnects = 2
    CbOperators = {oa, ob}
    CbKind <- MCKind
    CbRefs <- MCRefs
    CbProject = 1
    CbFiles <- MCFiles
    CbMisfit <- MCMisfit
    CbListLimit = 1
    CbMaxFaults = 1
INVARIANTS
    LedgerTellsHistory
    RetriesBounded
    PublishedStays
    ClientsTypeOK
    EsReplayFaithful
    CbAppliedAsWritten
PROPERTIES
    FencedReports
    Settles
    EsAllDelivered
    CbConverges
CHECK_DEADLOCK FALSE
