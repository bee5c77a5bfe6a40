\* Two items; six questions, one for each menu.
SPECIFICATION Spec
CONSTANTS
    Indexes = {0, 1}
    Generated <- MCGenerated
    ToolTypes <- MCToolTypes
    Withheld = {"hidden"}
    SearchActive = TRUE
    MaxPending = 3
    Menus <- MCMenus
    Bodies <- MCBodies
INVARIANTS
    IdentityCoherent
    ShownMatchesOutput
PROPERTIES
    DoneIsFinal
CHECK_DEADLOCK FALSE
