\* What must happen in the end: tasks behind limits, a literal and IDLE, then the
\* switch to another mailbox with [CLOSED], or LOGOUT.
SPECIFICATION FairSpec
CONSTANTS
    flags = flags
    part1 = part1
    part2 = part2
    Tasks = {flags, part1, part2}
    AnyTasks = {}
    LiteralTasks = {flags}
    PartTasks = {part1, part2}
    Arrivals = {}
    RefusesIdle = TRUE
    EndsIdle = FALSE
    SaysClosed = TRUE
    limitActiveTasks = 2
    limitParallelFetchTasks = 1
    Endings = {"switch", "offline"}
PROPERTIES
    EveryTaskAnswered
    SwitchHappens
    LogoutHappens
