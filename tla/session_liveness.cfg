\* Wakeups: two members, one caller beside HTTP turns, one waiter.
SPECIFICATION FairSpec
CONSTANTS
    Sessions = {s1, s2}
    Tasks = {t1}
    Waiters = {w1}
    MaxSessions = 2
    MaxItems = 4
    Limit = 5
    MaxTurns = 2
    UserKinds = {"user"}
    Compactions = {FALSE}
    Discoveries = {TRUE, FALSE}
    HttpTurns = TRUE
    None = None
PROPERTIES
    WaiterReturns
