CONSTANTS
    c1 = c1
    c2 = c2
    k1 = k1
    q1 = q1
    Clients <- TwoClients
    Keys <- BothKeys
    Queries <- OneQuery
    NoKey = NoKey
    EmptyKey = EmptyKey
    MaxWorkflows = 3
    MaxRequests = 3
    MaxFaults = 1
SPECIFICATION Spec
CHECK_DEADLOCK FALSE
INVARIANTS ApiTypeOK NumbersAreDense OneWorkflowPerKey SuccessNamesTheRequest SnapshotIsBacked
SYMMETRY ClientSymmetry
