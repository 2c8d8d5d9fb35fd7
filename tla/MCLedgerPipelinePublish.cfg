CONSTANTS
    a1 = a1
    a2 = a2
    Accounts <- MCAccounts
    Activity <- MCActivity
    MaxLedger = 3
    MaxRuns = 2
    QueueLimit = 1
    MaxResends = 0
    MaxEdits = 0
SPECIFICATION Spec
CHECK_DEADLOCK FALSE
PROPERTY DetectedIsPublished
