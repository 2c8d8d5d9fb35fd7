CONSTANTS
    Calls = {c1, c2}
    EmailTexts <- MCEmails
    LowerCase <- MCLowerCase
    PasswordTexts <- MCPasswords
    Trim <- MCTrim
    Empty = ""
    Valid = {"p ", "  "}
    OldUsers <- MCOldUsers
    Production = FALSE
    MaxCalls = 4
SYMMETRY MCSymmetry
SPECIFICATION Spec
CHECK_DEADLOCK FALSE
INVARIANTS
    TypeOK
    LinkWorksOnce
    LinksBounded
    ResetCanLogIn
    StaleSessionsRaced
PROPERTIES
    ImplementsPromise
