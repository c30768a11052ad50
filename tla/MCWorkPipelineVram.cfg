CONSTANTS
    t1 = t1
    t2 = t2
    TaskIDs = {t1, t2}
    Plans <- SinglePlan
    MaxCommands = 2
    MaxRetries = 1
    Swap = TRUE
    OptimizerThreshold = 2
    CuriosityThreshold = 2
SPECIFICATION Spec
PROPERTIES
    LeadParkedBeforeWorker
CHECK_DEADLOCK FALSE
