SPECIFICATION Spec
CONSTANTS
    a1 = a1
    a2 = a2
    r1 = r1
    Orders <- TwoOrders
    Approvers = {a1}
    Rejecters = {r1}
    InitialBalance = 41
    Quantity = 2
    EntryPrice = 10
    StopLoss = 8
    TakeProfit = 13
    FillPrices = {9, 10}
    BatchLimit = 2
    MaxRestarts = 0
    OperatorActs = {"halt", "resume"}
    SerialDecisions = TRUE
    QueryMayFail = FALSE
    LateExecution = FALSE
    ErrorsEscape = FALSE
    MayBuyNothing = FALSE
INVARIANTS
    PositionsFunded
PROPERTIES
    ImplementsLifecycle
CHECK_DEADLOCK FALSE
