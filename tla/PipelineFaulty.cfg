SPECIFICATION Spec
CONSTANTS
    o1 = o1
    o2 = o2
    o3 = o3
    Orders <- TwoOrders
    InitialBalance = 41
    Sizes = {2}
    EntryPrice = 10
    StopLoss = 8
    TakeProfit = 13
    FillPrices = {10, 12, 13}
    MaxPositions = 2
    MaxRestarts = 1
    OperatorActs = {"halt", "resume"}
    QueryMayFail = TRUE
    SubmitMayOutlast = TRUE
SYMMETRY Symmetric
INVARIANTS
    TypeOK
    WriteAhead
    RecordsTruthful
    OcoBacked
    LedgerSound
    AllocationBacked
CHECK_DEADLOCK FALSE
