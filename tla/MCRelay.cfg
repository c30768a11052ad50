CONSTANTS
    s1 = s1
    w1 = w1
    NumUpdates = 2
    Plain = {2}
    SlackEvents = {s1}
    WhatsApp = {w1}
    Tries = 1
    MaxFails = 1
    MaxStarts = 1
SPECIFICATION FairSpec
INVARIANTS
    TypeOK
    NoUpdateLost
PROPERTIES
    CommandsRun
    ShutdownEnds
CHECK_DEADLOCK FALSE
