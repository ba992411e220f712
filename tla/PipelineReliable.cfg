SPECIFICATION FairSpec
CONSTANTS
    o1 = o1
    o2 = o2
    o3 = o3
    Orders <- TwoOrders
    InitialBalance = 41
    Sizes = {1, 2}
    EntryPrice = 10
    StopLoss = 8
    TakeProfit = 13
    FillPrices = {9, 10, 13}
    MaxPositions = 2
    MaxRestarts = 1
    OperatorActs = {"halt"}
    QueryMayFail = FALSE
    SubmitMayOutlast = FALSE
INVARIANTS
    FillNeverForgotten
    PositionsFunded
PROPERTIES
    LegalTransitions
    ImplementsLifecycle
    StuckResolved
    UnbookedFillHalts
CHECK_DEADLOCK FALSE
