CONSTANTS
    a1 = a1
    a2 = a2
    a3 = a3
    Sentinel = Sentinel
    Addresses <- MCAddresses
    Directory <- MCDirectory
    Inserted <- MCInserted
    Updated <- MCUpdated
    Deleted <- MCDeleted
    MaxJobs = 4
    MaxWriteFails = 2
    MaxDeaths = 1
SPECIFICATION Spec
CHECK_DEADLOCK FALSE
PROPERTY InjectedAreStored
