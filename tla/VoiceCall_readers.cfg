\* Azure closes, or a send of a tool call fails, while the browser is silent.
SPECIFICATION FairSpec
CONSTANTS
    MaxAzure = 1
    MaxClient = 0
    ServerEvents = {"tool"}
    Frames = {"audio"}
PROPERTY
    ReadersEndTogether
CHECK_DEADLOCK FALSE
