SPECIFICATION Spec
CONSTANTS
    r1 = r1
    r2 = r2
    None = None
    Roles = {r1, r2}
    Pairs = 1
    BatchEvents = 5
    SlotsPerAnchor = 1
    Cooldown = 2
    EndTime = 2
    MaxGroups = 2
    MaxCrashes = 2
SYMMETRY Symmetry
INVARIANTS
    BatchesWhole
    ExactlyOnce
    DurableResultsRecoverable
PROPERTIES
    PromiseKept
CHECK_DEADLOCK FALSE
