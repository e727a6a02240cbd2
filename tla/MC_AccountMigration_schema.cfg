SPECIFICATION MigrationSpec
CONSTANTS
    p1 = p1
    p2 = p2
    k1 = k1
    k2 = k2
    j1 = j1
    j2 = j2
    None = None
    Procs = {p1}
    Creds = {k1}
    Journals = {j1}
    Legacy <- NoLegacy
    MaxRows = 2
    MaxFaults = 0
    Proofs = {1, 2}
    MaxPlans = 1
INVARIANTS
    ExecutorJournalsMigrate
