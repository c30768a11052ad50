CONSTANTS
    c1 = c1
    c2 = c2
    k1 = k1
    k2 = k2
    None = None
    Calls = {c1, c2}
    Cmds = {k1, k2}
    SudoCmds = {k1}
    Clearance <- Specialists
    MaxAttempts = 2
    Deciders = {1, 2}
SPECIFICATION Spec
INVARIANTS
    TypeOK
    RunNeedsOwnYes
    ResolverNeverBlocks
    FirstRequestDecidable
PROPERTIES
    DecisionStands
CHECK_DEADLOCK FALSE
