SPECIFICATION FairSpec
CONSTANTS
    a1 = a1
    a2 = a2
    r1 = r1
    Orders <- TwoOrders
    Approvers = {a1, a2}
    Rejecters = {r1}
    InitialBalance = 45
    Quantity = 2
    EntryPrice = 10
    StopLoss = 8
    TakeProfit = 13
    FillPrices = {12}
    BatchLimit = 2
    MaxRestarts = 1
    OperatorActs = {}
    SerialDecisions = FALSE
    QueryMayFail = TRUE
    LateExecution = TRUE
    ErrorsEscape = TRUE
    MayBuyNothing = TRUE
INVARIANTS
    ApprovedFirst
    RecordsTruthful
    LedgerSound
PROPERTIES
    ApprovedSettles
CHECK_DEADLOCK FALSE
