CONSTANTS
    Calls = {c1, c2}
    EmailTexts <- MCEmails
    LowerCase <- MCLowerCase
    PasswordTexts <- MCPasswords
    Trim <- MCTrim
    Empty = ""
    Valid = {"p"}
    OldUsers <- MCOldUsers
    Production = FALSE
    MaxCalls = 2
    t1 = t1
    t2 = t2
    Tabs = {t1, t2}
    Browsers = {b1}
    BrowserOf <- MCBrowserOf
    Visited <- MCVisited
    Nobody = nobody
SPECIFICATION PagesSpec
INVARIANTS
    PagesTypeOK
    SuccessIsReal
    OrphansAreStale
    HomeIsCurrent
PROPERTIES
    AnswersArrive
