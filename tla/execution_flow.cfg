CONSTANTS
    w1 = w1
    c1 = c1
    x = x
    Workflows <- OneWorkflow
    Clients <- OneClient
    Callers <- OneAndOne
    Requests <- OneRequest
    External = x
    ClientRoutes <- AllRoutes
    MayRaise = TRUE
    MaxStrays = 1
    MaxRestarts = 1
    FirstJob = 1
    LastJob = 3
    NoJob = NoJob
    NoRequest = NoRequest
SPECIFICATION FlowSpec
INVARIANTS FlowTypeOK QueuedIsDriven RecordedNumbersAreFresh OneJobPerWorkflow
PROPERTIES FlowKeepsContract AttemptEnds
