CONSTANTS
    w1 = w1
    c1 = c1
    x = x
    Workflows <- OneWorkflow
    Clients <- OneClient
    Callers <- OneAndOne
    Requests <- OneRequest
    External = x
    ClientRoutes <- CancelOnly
    MayRaise = FALSE
    MaxStrays = 0
    MaxRestarts = 0
    FirstJob = 1
    LastJob = 1
    NoJob = NoJob
    NoRequest = NoRequest
SPECIFICATION FlowSpec
INVARIANT EndpointAgreesWithExecution
