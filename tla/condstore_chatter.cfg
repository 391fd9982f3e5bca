\* CONDSTORE; everything is announced at any time. The loops over lists are compared
\* with what the model says of them, for every list of the given size.
SPECIFICATION Spec
CONSTANTS
    Capabilities = {"CONDSTORE"}
    WhileSyncing = {"EXISTS", "EXPUNGE", "FLAGS"}
    WhileArriving = {"EXISTS", "EXPUNGE", "FLAGS"}
    InitialMessages = {2}
    MaxUid = 3
    MaxModSeq = 3
    MaxUidValidity = 1
    MaxMistakes = 0
    throttlingThreshold = 0
    maxDelayedResponses = 1
    MaxLosses = 1
    MaxLen = 4
    MaxListed = 5
INVARIANTS
    ExistsMatchesList
    LoopsMeetDefinitions
PROPERTIES
    SavedUidNextGrows
