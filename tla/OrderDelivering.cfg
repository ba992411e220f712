SPECIFICATION Spec
CONSTANTS
    o1 = o1
    o2 = o2
    Orders = {o1, o2}
    MaxRequests = 1
    Window = 2
    MaxRetries = 1
    Executions <- MCExecutions
    MaxFaults = 2
SYMMETRY Symmetric
INVARIANTS
    RepeatsUnanswered
    AnswersTruthful
    LimiterReopens
