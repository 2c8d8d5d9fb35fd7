CONSTANTS
    a1 = a1
    a2 = a2
    Accounts <- MCAccounts
    Activity <- MCActivity
    MaxLedger = 3
    MaxRuns = 2
    QueueLimit = 2
    MaxResends = 1
    MaxEdits = 1
SPECIFICATION Spec
CHECK_DEADLOCK FALSE
INVARIANTS
    TypeOK
    SteadyAreReported
    OnlyFlaggedArePublished
    TopicInOrder
    RepeatsExplained
    RunsAreContiguous
PROPERTIES
    LedgersAreInspected
    SteadyAreSettled
