CONSTANTS
    t1 = t1
    t2 = t2
    d1 = d1
    d2 = d2
    d3 = d3
    Raw <- MCRaw
    Null = "null"
    NotText = "7"
    Candidate <- MCCandidate
    Blank = ""
    Members <- MCMembers
    Synonyms <- MCSynonyms
    Confidences <- MCConfidences
    Threshold = 50
    Tests <- MCTests
    Docs <- MCDocs
    Score <- MCScore
    Length <- MCLength
    MaxEvidence = 2
    MaxChars = 8
    MaxRows = 2
SPECIFICATION Spec
CHECK_DEADLOCK FALSE
INVARIANTS AgentsTypeOK NothingIsGuessed ClarificationNamesTheGap GatesAgree ReportIsTruthful AuditMatchesReport
PROPERTIES AnalysisAlwaysReports
