CONSTANTS
    w1 = w1
    w2 = w2
    Workflows <- TwoWorkflows
SPECIFICATION Spec
CHECK_DEADLOCK FALSE
INVARIANTS TypeOK NoIllegalAdvance ExecutionOnlyWhenCleared TimelineTracksStatus CompletedIsBacked
PROPERTIES WorkflowEnds
