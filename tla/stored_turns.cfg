\* Stored turns, in process and split: tool search, naming, listings, compaction.
CONSTANTS
    Menus <- MCMenus
SPECIFICATION TurnsSpec
INVARIANTS
    CallsFollowDefinitions
    ViewsAgree
    CompactionTransparent
    ListingsAnnouncedOnce
PROPERTIES
    SealedStoresOnce
CHECK_DEADLOCK FALSE
