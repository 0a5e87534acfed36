SPECIFICATION FairSpec
CONSTANTS
    Promise = {1, 2, 3, 4}
    Value = {Null}
    Null = Null
    None = None
    Scheduler = TRUE
    Chaining = FALSE
    Forms = {"finally"}
    Modes = {"All", "Race"}
    MaxTracked = 2
    MaxSubs = 2
CONSTRAINT LivenessScope
PROPERTIES
    TrackingSettles
    JobsEnd
CHECK_DEADLOCK FALSE
