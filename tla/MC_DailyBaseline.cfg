SPECIFICATION Spec
CONSTANTS
    Procs = {p1, p2}
    Equities = {8, 10}
    MaximumLoss = 2
    MaxDay = 3
    MaxLosses = 1
    None = None
SYMMETRY Symmetric
INVARIANTS OneBaselinePerDay LossLimitHolds
PROPERTY BaselineMovesForward
