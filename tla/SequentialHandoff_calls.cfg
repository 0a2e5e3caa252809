\* Up to four calls; Azure may make up a tool or repeat an agent that it left.
SPECIFICATION FairSpec
CONSTANTS
    MaxCalls = 4
    MadeUp = {"unknown", "summary"}
INVARIANTS
    HandoffTypeOK
    ViewsAgree
    HistoryIsWalk
PROPERTIES
    AnswersInOrder
    CallsAnswered
