CONSTANTS
    Calls = {c1, c2}
    EmailTexts <- MCEmails
    LowerCase <- MCLowerCase
    PasswordTexts <- MCPasswords
    Trim <- MCTrim
    Empty = ""
    Valid = {"p ", "  "}
    OldUsers <- MCOldUsers
    Production = FALSE
    MaxCalls = 3
SPECIFICATION Spec
CHECK_DEADLOCK FALSE
INVARIANTS
    RehashOnlyUpgrades
