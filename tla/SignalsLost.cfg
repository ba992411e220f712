SPECIFICATION FairScanSpec
CONSTANTS
    Symbols = {"BTC", "ETH"}
    Series <- MCSeries
    Predictions <- MCPredictions
    MaxFailures = 3
    RsiPeriod = 2
    FastPeriod = 2
    SlowPeriod = 3
    MlBars = 3
    Threshold = 5500
    MinCombined = 6000
PROPERTY OffersSaved
