\* Patient ones: nobody asks below what is being listed. The connection is lost once, or a
\* command refused.
SPECIFICATION MannerSpec
CONSTANTS
    Names <- TwoLevels
    Children = TRUE
    Mishaps = {}
    MaxPending = 3
    Changes = 2
    Troubles = 1
CHECK_DEADLOCK FALSE
INVARIANTS
    TreeBecomesServers
    NothingIsLeftBehind
    LoadingIsAwaited
