CONSTANTS
    Catalogs <- SmallCatalogs
    Documents <- SmallBase
    Intents <- OneIntent
    TopK = 2
    MaxContextChars = 4
    NoDate = NoDate
    NoRequest = NoRequest
SPECIFICATION PlanningSpec
INVARIANT PlanningTypeOK
INVARIANT PlannerMeetsPolicy
INVARIANT EvidenceMatchesIntent
INVARIANT EvidenceIsBounded
INVARIANT OrderIsByRisk
INVARIANT MoreHistoryNeverLowersRisk
INVARIANT RuleIsLostOnlyByALimit
