SPECIFICATION LibrarySpec
CONSTANTS
    f1 = f1
    f2 = f2
    Files = {f1, f2}
    DealOf <- MCDealOf
    Types = {t1}
    NoRecord = NoRecord
    NoCall = NoCall
    NoRow = NoRow
    Live = Live
    Labels = {approved, rejected}
    Rows = {r1}
    Callers = {c}
    MinSample = 1
    Enough = 2
    MaxRecords = 2
    MaxRereads = 1
    MaxCrashes = 1
INVARIANTS
    KeptStaysOnRecord
    LinkedMeansTold
    StaleProposalsAreUntold
SYMMETRY MCSymmetry
