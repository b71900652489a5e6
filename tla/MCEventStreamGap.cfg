SPECIFICATION EsSpec
CONSTANTS
    x1 = x1
    x2 = x2
    c1 = c1
    EsWriters <- TwoWriters
    EsClients <- OneClient
    EsPageLimit = 2
    EsMaxEvents = 3
    EsMaxDisconnects = 0
INVARIANT EsNoGap
