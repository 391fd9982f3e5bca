\* MODSEQ saves EXISTS beside a UID map of another length, while flags are synchronized or
\* while saving is put off: the next session does not trust the map, and trusts the messages.
SPECIFICATION Spec
CONSTANTS
    MaxUid = 2
    MaxUidValidity = 2
    delayedCommit = 1
    tooMuchTimeWithoutCommit = 2
    MaxCrashes = 0
CHECK_DEADLOCK FALSE
INVARIANTS
    ShownIsOfThisMailbox
