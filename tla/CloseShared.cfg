SPECIFICATION Spec
CONSTANTS
    p1 = p1
    p2 = p2
    m1 = m1
    m2 = m2
    r1 = r1
    r2 = r2
    Positions = {p1, p2}
    Monitors = {m1}
    Requests = {r1}
    Available = 3
    EntryPrice = 10
    Quantity = 2
    StopLoss = 8
    TakeProfit = 13
    Prices = {8, 10, 14}
    StaleLimit = 3
    MaxFailures = 1
    MaxTicks = 2
    OperatorActs = {"resume"}
SYMMETRY Symmetric
INVARIANTS
    TradedIffClosed
    LedgerExplained
CHECK_DEADLOCK FALSE
