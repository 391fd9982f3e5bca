\* What must happen in the end, when the server answers and timers fire.
SPECIFICATION FairSpec
CONSTANTS
    Capabilities = {}
    WhileSyncing = {"EXISTS"}
    WhileArriving = {"EXISTS", "EXPUNGE"}
    InitialMessages = {1}
    MaxUid = 3
    MaxModSeq = 3
    MaxUidValidity = 1
    MaxMistakes = 0
    throttlingThreshold = 0
    maxDelayedResponses = 1
    MaxLosses = 1
PROPERTIES
    FollowsMailbox
    EventuallySaved
