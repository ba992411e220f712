SPECIFICATION FairSpec
CONSTANTS
    b1 = b1
    b2 = b2
    Browsers = {b1, b2}
    SocketsEach = 2
    MaxMessages = 2
    MaxFaults = 1
    MaxRestarts = 1
INVARIANTS
    SilenceExplained
    ShownOnce
PROPERTIES
    BrowsersReturn
CHECK_DEADLOCK FALSE
