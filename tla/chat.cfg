CONSTANTS
    s1 = s1
    s2 = s2
    q1 = q1
    Clients <- TwoSubmissions
    Keys = {}
    Queries <- OneQuery
    NoKey = NoKey
    EmptyKey = EmptyKey
    MaxWorkflows = 2
    MaxRequests = 4
    MaxFaults = 1
SPECIFICATION ChatSpec
CHECK_DEADLOCK FALSE
INVARIANTS ChatTypeOK PageTellsNoLies EveryWorkflowIsAccountedFor
PROPERTIES SubmissionsEnd
