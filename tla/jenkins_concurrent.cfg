CONSTANTS
    c1 = c1
    c2 = c2
    r1 = r1
    Callers <- TwoCallers
    Requests <- OneRequest
    FirstJob = 1
    LastJob = 2
    NoJob = NoJob
    NoRequest = NoRequest
SPECIFICATION JenkinsSpec
INVARIANT JenkinsTypeOK
INVARIANT NumbersNeverCollide
INVARIANT CompletedHasResults
PROPERTY RunToCompletionReturns
