CONSTANTS
    p1 = p1
    p2 = p2
    k1 = k1
    k2 = k2
    None = None
    Projects = {p1, p2}
    Cmds = {k1}
    Slots = {1}
    HistoryLimit = 1
    CrashMidCall = FALSE
    MaxCalls = 3
    MaxFails = 1
    MaxStarts = 1
    MaxNotes = 1
SPECIFICATION Spec
INVARIANTS
    TypeOK
    SwitchTakesEffect
    MessageHasConversation
    ChannelRecalled
CHECK_DEADLOCK FALSE
