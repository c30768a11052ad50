CONSTANTS
    m1 = m1
    m2 = m2
    None = None
    Msgs = {m1, m2}
    Held = {m2}
    Responses <- AllResponses
    MaxToolLoops = 2
    HistoryLimit = 1
    MaxDrops = 2
SPECIFICATION Spec
INVARIANTS
    TypeOK
    OwnMessageStored
    RepliesRemembered
CHECK_DEADLOCK FALSE
