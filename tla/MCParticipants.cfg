CONSTANTS
    Accounts = {1, 2, 3}
    NoAccount = 0
    NoType = 9
    Transactions <- MCTransactions
SPECIFICATION Spec
CHECK_DEADLOCK FALSE
INVARIANTS
    EachOnce
    ReadsUnwritten
    OperationNamesItsParties
    ReturnsTheParties
