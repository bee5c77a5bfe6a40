SPECIFICATION FairSpec
CONSTANTS
    Outputs <- MCOutputs
    Modes = {"lease", "store", "none"}
    Discovered = 1
    MaxRounds = 2
    EventBuffer = 1
INVARIANTS
    EventsMatchOutput
    NothingLost
    HistoryFaithful
    TerminalAfterPersist
PROPERTY
    StreamEnds
