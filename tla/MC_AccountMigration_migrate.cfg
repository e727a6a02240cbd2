SPECIFICATION MigrationSpec
CONSTANTS
    p1 = p1
    p2 = p2
    k1 = k1
    k2 = k2
    j1 = j1
    j2 = j2
    None = None
    Procs = {p1, p2}
    Creds = {k1, k2}
    Journals = {j1}
    Legacy <- OldJournal
    MaxRows = 3
    MaxFaults = 1
    Proofs = {1, 2}
    MaxPlans = 2
INVARIANTS
    BackedUp
    OneLedgerPerAccount
    RepetitionAccepted
SYMMETRY Symmetry
