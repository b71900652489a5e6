CONSTANTS
    none = none
    NoValue = none
    Nodes <- BranchRepairNodes
    Entry = "fork"
    Kind <- BranchRepairKind
    Edges <- BranchRepairEdges
    MaxAttempts <- BranchRepairAttempts
    MaxVisits <- BranchRepairVisits
    TerminalStatus <- BranchRepairTerminal
    Needs <- BranchRepairNeeds
    KeyOrder <- BranchRepairOrder
    Values = {"x"}
    LeaseSeconds = 2
    MaxLag = 1
    MaxBeats = 0
    ManualApi = FALSE
SPECIFICATION Spec
CHECK_DEADLOCK FALSE
PROPERTIES
    JoinWaitsForResults
