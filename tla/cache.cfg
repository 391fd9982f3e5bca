\* Two UIDs, three lives of the mailbox, one crash; what comes when the properties claim
\* nothing any more is not explored.
SPECIFICATION Spec
CONSTANTS
    MaxUid = 2
    MaxUidValidity = 3
    delayedCommit = 1
    tooMuchTimeWithoutCommit = 1
    MaxCrashes = 1
CHECK_DEADLOCK FALSE
CONSTRAINT
    StillClaimed
INVARIANTS
    StoredIsOfThisMailbox
    CommittedIsOneMailbox
    LossIsBounded
