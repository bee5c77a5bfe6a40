\* Automatic compaction drops the outputs the turn sent: the code refuses the
\* next turn for a call the client answered.
CONSTANTS
    Menus <- MCMenus
SPECIFICATION TurnsSpec
INVARIANTS
    MissingOutputIsOwed
CHECK_DEADLOCK FALSE
