SPECIFICATION Spec
CONSTANTS
    Procs = {p1, p2}
    Equities = {0, 90, 95, 100}
    MaximumDrawdown = 10
    MaxTime = 3
    MaxMarks = 4
    None = None
SYMMETRY Symmetric
INVARIANTS DrawdownExact ObservationsInOrder
