SPECIFICATION Spec
CONSTANTS
    r1 = r1
    r2 = r2
    r3 = r3
    r4 = r4
    Runs = {r1, r2, r3, r4}
    Overlap = 2
    Intents <- MCIntents
    Markets <- MCMarkets
    CachedPrices = {200}
    ExitPrices = {160, 260}
    Slippage = 50
    Balance = 10000
    WorstRisk = 164
    MaxDays = 1
    MaxRestarts = 1
    MaxDailyLoss = 2
    MaxDrawdown = 400
    MinConfidence = 5
    MaxPositions = 1
    MaxExposure = 7
    RiskPerTrade = 2
    MinNotional = 500
    MaxDrift = 1
    MaxSpread = 1
    MinVolume = 5
SYMMETRY Symmetric
INVARIANTS
    PositionsBounded
    DayLossBounded
PROPERTIES
    DrawdownLatches
    OrdersInBounds
CHECK_DEADLOCK FALSE
