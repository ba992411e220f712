SPECIFICATION FairSpec
CONSTANTS
    r1 = r1
    r2 = r2
    r3 = r3
    Runs = {r1, r2, r3}
    PersistTrip = FALSE
    Faults = {"crash", "shutdown", "redis", "database"}
    MaxFaults = 3
    OperatorActs = {"halt", "resume"}
INVARIANTS
    BreakerAgrees
PROPERTIES
    TrippedBlocks
    RunsEnd
CHECK_DEADLOCK FALSE
