CONSTANTS
    a = a
    b = b
    c = c
    Requests = {a, b, c}
    Prio <- LeadsAndBackground
    Capacity <- OneSlot
    NoReq = NoReq
SPECIFICATION FairSpec
INVARIANTS
    TypeOK
    NoLostRequest
    ReplyHonest
    WaitingExact
PROPERTIES
    BoundedInversion
    ImplementsCogService
    EveryRequestAnswered
CHECK_DEADLOCK FALSE
