CONSTANTS
    u1 = u1
    u2 = u2
    a1 = a1
    a2 = a2
    m1 = m1
    m2 = m2
    Malformed = Malformed
    Users <- MCUsers
    Accounts <- MCAccounts
    Messages <- MCMessages
    AccountOf <- MCAccountOf
    MaxCopies = 2
    MaxDeliveries = 2
SPECIFICATION Spec
INVARIANT WatchedIsIndexed
