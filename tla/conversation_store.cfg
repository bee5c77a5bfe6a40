\* Three turns, at most one inherited item, batches of one.
SPECIFICATION Spec
CONSTANTS
    Convs = {c1}
    Turns = {t1, t2, t3}
    MaxNew = 2
    Batch = 1
    MaxLegacy = 1
    None = None
SYMMETRY Symmetry
INVARIANTS
    TurnFollowsWhatItSaw
    ConflictHasCause
PROPERTIES
    LinearHistory
