\* Four servers, two connections to each.
SPECIFICATION Spec
CONSTANTS
    MaxUid = 3
    maxDelayedResponses = 1
    MaxLosses = 1
INVARIANTS
    SyncedUids
    SyncedFlags
    CacheIsSound
    NothingFails
