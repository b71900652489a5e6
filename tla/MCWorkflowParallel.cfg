CONSTANTS
    none = none
    NoValue = none
    Nodes <- ParallelNodes
    Entry = "fork"
    Kind <- ParallelKind
    Edges <- ParallelEdges
    MaxAttempts <- ParallelAttempts
    MaxVisits <- ParallelVisits
    TerminalStatus <- ParallelTerminal
    Needs <- ParallelNeeds
    KeyOrder <- ParallelOrder
    Values = {"x"}
    LeaseSeconds = 3
    MaxLag = 1
    MaxBeats = 1
    ManualApi = FALSE
SPECIFICATION FairSpec
CHECK_DEADLOCK FALSE
INVARIANTS
    NotStranded
    ClaimsFenced
    StatusTellsNodes
    SourcesFirst
PROPERTIES
    RunningProgresses
