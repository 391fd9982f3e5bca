\* A synchronized mailbox until another one is opened or it is deleted; all that
\* IDLE can meet.
SPECIFICATION Spec
CONSTANTS
    append = append
    part = part
    arrival = arrival
    Tasks = {append, part}
    AnyTasks = {append}
    LiteralTasks = {append}
    PartTasks = {part}
    Arrivals = {arrival}
    RefusesIdle = TRUE
    EndsIdle = TRUE
    SaysClosed = FALSE
    limitActiveTasks = 2
    limitParallelFetchTasks = 1
    Endings = {"switch", "delete"}
INVARIANTS
    IdleGivesWay
    NoLostWakeup
    OneCommandEach
    AssertionsHold
    SelectComesAlone
