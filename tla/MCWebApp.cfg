CONSTANTS
    u1 = u1
    a1 = a1
    Malformed = Malformed
    Users <- MCUsers
    Accounts <- MCAccounts
    AccountOf <- MCAccountOf
    MaxCopies = 1
    MaxLog = 3
    MaxBoots = 3
    MaxSetbacks = 2
SPECIFICATION Spec
CHECK_DEADLOCK FALSE
INVARIANTS
    TypeOK
    DeliveriesExplained
PROPERTIES
    ImplementsRegistry
    RegisteredGetsAlerts
