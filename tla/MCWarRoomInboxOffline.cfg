CONSTANTS
    lead = lead
    d1 = d1
    d2 = d2
    c1 = c1
    Agents = {lead}
    Channel = Channel
    Msgs = {d1, c1}
    Target <- DirectAndChannel
    None = None
SPECIFICATION FairSpec
PROPERTIES
    HeldDeliveredOnceOnline
CHECK_DEADLOCK FALSE
