\* Two connections, one after the other or side by side, of every kind of account.
SPECIFICATION Spec
CONSTANTS
    MaxConnections = 2
    MaxRefusals = 1
    MaxChoices = 2
    MaxOutages = 1
CHECK_DEADLOCK FALSE
INVARIANTS
    CapabilitiesAreCurrent
    OnePrompt
    LoginWhenAllowed
PROPERTIES
    AttemptsEnd
    NetworkComesBack
