\* Two calls, each ended or overtaken in every way.
SPECIFICATION Spec
CONSTANTS
    MaxCalls = 2
    MaxEnds = 2
    Devices = {"capture"}
    Choices <- MCChoices
INVARIANTS
    ClientTypeOK
    BadgeTruthful
    SocketsFollowSession
    NothingForgotten
    RunsAsShown
    LogOfShownPattern
    MicOnlyInCall
CONSTRAINT FewSlips
CHECK_DEADLOCK FALSE
