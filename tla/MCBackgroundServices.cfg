SPECIFICATION MCSpec
CONSTANTS
    w1 = w1
    w2 = w2
    Clients = {c1, c2, c3}
    NtQueue = 2
    NtProvider <- MCProvider
    NtWorkers = {w1, w2}
    NtNobody = nobody
    NtSupported <- MCSupported
    NtLimit <- MCLimit
    NtMaxManual = 1
    NtMaxFaults = 2
    RdEvaluators = {m1}
    RdStarts = 2
    RdVisits = 1
    RdMaxFaults = 1
    MnMonitors = {m1}
    MnProjects = 4
    MnOld = 0
    MnBroken = {2, 4}
    MnPage = 2
    MnRestarts = 1
    WsWorkers = {v1, v2}
    WsOperations = 2
    WsKind <- MCKinds
    WsMaxCommits = 2
    WsMaxFaults = 1
INVARIANTS
    HierarchyAgrees
    ServicesTypeOK
    NtHistoryTold
    WsNoWorkLost
PROPERTIES
    PromisesKept
    TransactionsFinish
    LeaseQueuesKept
    NtSettles
    RdAlertsFollow
    MnNoProjectStarves
    WsSettles
CHECK_DEADLOCK FALSE
