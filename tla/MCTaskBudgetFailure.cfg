SPECIFICATION Spec
CONSTANTS
    t1 = t1
    t2 = t2
    w1 = w1
    w2 = w2
    NoTask = NoTask
    NoUsage = NoUsage
    Tasks <- MCTasks
    Workers <- MCWorkers
    Estimate <- MCEstimate
    Costs <- MCCosts
    Limits <- MCLimits
    MaxAttempts = 2
INVARIANT
    FinalFailureCharged
CHECK_DEADLOCK FALSE
