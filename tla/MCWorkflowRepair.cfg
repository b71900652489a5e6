CONSTANTS
    none = none
    NoValue = none
    Nodes <- RepairNodes
    Entry = "a"
    Kind <- RepairKind
    Edges <- RepairEdges
    MaxAttempts <- RepairAttempts
    MaxVisits <- RepairVisits
    TerminalStatus <- RepairTerminal
    Needs <- RepairNeeds
    KeyOrder <- RepairOrder
    Values = {"pass", "redo"}
    LeaseSeconds = 2
    MaxLag = 1
    MaxBeats = 1
    ManualApi = TRUE
SPECIFICATION Spec
CHECK_DEADLOCK FALSE
INVARIANTS
    VisitsAccounted
PROPERTIES
    StepsLegal
