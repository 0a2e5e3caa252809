\* Every schedule of a call in which Azure sends an event and the browser a frame.
SPECIFICATION FairSpec
CONSTANTS
    MaxAzure = 1
    MaxClient = 1
    ServerEvents = {"plain"}
    Frames = {"audio", "text"}
PROPERTIES
    BrowserGoneHandlerReturns
    SelfEndAnnounced
    WatcherReleased
    LateSessionCloses
CHECK_DEADLOCK FALSE
