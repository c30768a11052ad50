CONSTANTS
    lead = lead
    d1 = d1
    d2 = d2
    c1 = c1
    Agents = {lead}
    Channel = Channel
    Msgs = {d1, d2, c1}
    Target <- TwoDirectOneChannel
    None = None
SPECIFICATION Spec
INVARIANTS
    TypeOK
    EveryMessageAccounted
    NoStrandedBatch
    CancelSlotFresh
PROPERTIES
    ImplementsMailbox
CHECK_DEADLOCK FALSE
