CONSTANTS
    c1 = c1
    c2 = c2
    k1 = k1
    q1 = q1
    Clients <- TwoClients
    Keys <- OneKey
    Queries <- OneQuery
    NoKey = NoKey
    EmptyKey = EmptyKey
    MaxWorkflows = 2
    MaxRequests = 2
    MaxFaults = 0
SPECIFICATION Spec
CHECK_DEADLOCK FALSE
INVARIANT FailureIsNeverSuccess
