SPECIFICATION Spec
CONSTANTS
    Promise = {p, q, r, s, t}
    Value = {Null}
    Null = Null
    None = None
    Scheduler = TRUE
    Chaining = TRUE
    Forms = {"then2", "finally"}
    Modes = {"All"}
    MaxTracked = 2
    MaxSubs = 2
SYMMETRY PromiseSymmetry
CONSTRAINT SafetyScope
INVARIANTS
    DeliveredOnce
    NoPanic
    AllOutcome
CHECK_DEADLOCK FALSE
