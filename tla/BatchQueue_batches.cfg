SPECIFICATION FairSpec
CONSTANTS
    f1 = f1
    f2 = f2
    Files = {f1, f2}
    DealOf <- MCDealOf
    Types = {t1}
    NoRecord = NoRecord
    NoCall = NoCall
    NoRow = NoRow
    Live = Live
    Labels = {approved}
    Rows = {}
    Callers = {w, c}
    Worker = w
    Batches <- MCBatches
    MinSample = 2
    Enough = 2
    MaxAttempts = 2
    NoType = NoType
    MaxRecords = 2
    MaxJobs = 2
    MaxRereads = 0
    MaxCrashes = 1
INVARIANTS
    JobsInOrder
    DuplicatesAreOverlaps
PROPERTY EveryBatchCompletes
