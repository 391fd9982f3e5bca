\* One message through every kind of account; and attempts at sending with the same
\* settings, a server which tells the UID of what it has saved, and agents which
\* complain once.
SPECIFICATION SendingSpec
CONSTANTS
    Recipients = 2
    Early421 = FALSE
    MaxAttempts = 3
    Settings <- SavingSettings
    SettingsChange = FALSE
    UidPlus = {TRUE}
    LateErrors = FALSE
CHECK_DEADLOCK FALSE
INVARIANTS
    LinesFindCommand
    EncryptsBeforeMail
    SendsWhatWasWritten
    OneAttemptAtATime
    SuccessIsDelivered
PROPERTIES
    ImplementsMsa
    EveryAttemptEnds
