CONSTANTS
    None = None
    Agents <- MCAgents
    BrainFiles <- MCBrainFiles
    HouseFiles <- MCHouseFiles
    Slots = {1, 2}
    MaxCalls = 3
SPECIFICATION Spec
INVARIANTS
    SaveReachesLead
CHECK_DEADLOCK FALSE
