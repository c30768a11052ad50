CONSTANTS
    None = None
    Agents <- MCAgents
    BrainFiles <- MCBrainFiles
    HouseFiles <- MCHouseFiles
    Slots = {1, 2}
    MaxCalls = 3
SPECIFICATION FairSpec
INVARIANTS
    TypeOK
    SaveReachesWorkers
    HouseReachesLead
PROPERTIES
    CallEnds
CHECK_DEADLOCK FALSE
