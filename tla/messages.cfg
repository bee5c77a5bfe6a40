\* A Messages request, blocking and streamed: rounds, budget and the one message.
SPECIFICATION FairSpec
CONSTANTS
    MaxRounds = 3
    MaxBlocks = 2
    ToolLists <- MCToolLists
INVARIANTS
    SearchesWithinBudget
    OneMessage
    TurnReplayed
PROPERTIES
    RequestEnds
CHECK_DEADLOCK FALSE
