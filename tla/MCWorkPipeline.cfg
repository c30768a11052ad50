CONSTANTS
    t1 = t1
    t2 = t2
    TaskIDs = {t1, t2}
    Plans <- MixedPlans
    MaxCommands = 2
    MaxRetries = 1
    Swap = TRUE
    OptimizerThreshold = 2
    CuriosityThreshold = 2
SPECIFICATION FairSpec
INVARIANTS
    TypeOK
    SlotBalance
    OutcomesTold
    ToldAgrees
    OneReview
PROPERTIES
    CommandEnds
CHECK_DEADLOCK FALSE
