CONSTANTS
    lead = lead
    d1 = d1
    d2 = d2
    c1 = c1
    Agents = {lead}
    Channel = Channel
    Msgs = {d1, d2}
    Target <- TwoDirect
    None = None
SPECIFICATION FairSpec
PROPERTIES
    BatchedHandled
    HeldHandledOnReturn
CHECK_DEADLOCK FALSE
