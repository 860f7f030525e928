CONSTANTS
    Catalogs <- SmallCatalogs
    Documents <- RuleBase
    Intents <- OneIntent
    TopK = 1
    MaxContextChars = 4
    NoDate = NoDate
    NoRequest = NoRequest
SPECIFICATION PlanningSpec
INVARIANT CompatibleRulesAreRanked
