\* A call under each strategy.
SPECIFICATION Spec
CONSTANTS
    Strategies = {"off", "rolling", "token_budget"}
    MaxItems = 2
    Budget = 4
    Tokens = {3, 6}
    MaxCreated = 8
    MaxTurns = 2
INVARIANTS
    CompactionTypeOK
    OldestFirst
    RecentKept
    ListMatchesConversation
