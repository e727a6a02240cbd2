SPECIFICATION Spec
CONSTANTS
    p1 = p1
    p2 = p2
    k1 = k1
    k2 = k2
    j1 = j1
    j2 = j2
    None = None
    Procs = {p1, p2}
    Creds = {k1, k2}
    Journals = {j1, j2}
    Legacy <- NoLegacy
    MaxRows = 2
    MaxFaults = 1
SYMMETRY Symmetry
INVARIANTS
    OneHolder
    OneJournalPerCredential
    OneLedgerPerAccount
    CompleteBeforeSend
PROPERTIES
    OwnersNeverReplaced
