\* Interleavings: two members, two callers, three responses, with compaction.
\* A turn adds two items, so the limit admits one full chain and a sibling.
SPECIFICATION Spec
CONSTANTS
    Sessions = {s1, s2}
    Tasks = {t1, t2}
    Waiters = {}
    MaxSessions = 2
    MaxItems = 6
    Limit = 7
    MaxTurns = 3
    UserKinds = {"user"}
    Compactions = {TRUE, FALSE}
    Discoveries = {FALSE}
    HttpTurns = FALSE
    None = None
SYMMETRY Symmetry
INVARIANTS
    BudgetExact
    ClosedStaysEmpty
    CacheCoherent
    WriteHasParent
PROPERTIES
    EndOfTurn
