\* A list of messages under every wish of the user; messages arrive and vanish
\* while commands are out.
SPECIFICATION Spec
CONSTANTS
    MaxUid = 3
    InitialMessages = {2}
    Searches = {"odd", "late"}
    Found <- MatchesOf
    Criteria = {"NONE", "SIZE"}
    Hurry = {"mail", "expunge"}
    MaxTurns = 2
CHECK_DEADLOCK FALSE
INVARIANTS
    TreeIsSound
    ShowsWhatIsWanted
