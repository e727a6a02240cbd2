SPECIFICATION Spec
CONSTANTS
    a = a
    b = b
    sa = sa
    n1 = n1
    r1 = r1
    r2 = r2
    A = A
    B = B
    none = none
    NoLink = none
    NoContext = none
    NoRecord = none
    Links <- ExitLinks
    Buys <- ExitBuys
    Symbols <- OneSymbol
    SymbolOf <- ExitSymbolOf
    Keys <- ExitKeys
    Notes <- OneNote
    Reasons <- OneReason
    RecordReasons <- OneReason
    Controls <- AllControls
    MaxQty = 1
    Cap = 1
INVARIANTS KillSwitchHolds
