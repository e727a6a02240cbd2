SPECIFICATION FairSpec
CONSTANTS
    r1 = r1
    r2 = r2
    None = None
    Roles = {r1, r2}
    Order <- TwoRoles
    Pairs = 1
    BatchEvents = 3
    SlotsPerAnchor = 2
    Cooldown = 3
    EndTime = 5
    MaxGroups = 4
    MaxCrashes = 2
INVARIANTS
    NeverRefused
    GroupsKept
    RecoveryAccepts
PROPERTIES
    RunEnds
CHECK_DEADLOCK FALSE
