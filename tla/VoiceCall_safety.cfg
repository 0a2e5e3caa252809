\* One server event and one browser frame, of every kind.
SPECIFICATION Spec
CONSTANTS
    MaxAzure = 1
    MaxClient = 1
    ServerEvents = {"plain", "silent", "response.done", "tool"}
    Frames = {"audio", "text", "switch", "ignored"}
INVARIANTS
    TypeOK
    NoLossOnSelfEnd
    FailureReported
PROPERTY
    RefinesEventStream
CHECK_DEADLOCK FALSE
