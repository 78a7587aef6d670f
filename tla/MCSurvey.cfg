\* The table is loaded, a domain is looked up, and its hosts are named.
SPECIFICATION SpecSurvey
CONSTANTS
    Names <- MCNames
    Domain <- D
    Literals <- MCLiterals
    Rank <- MCRank
    Zones <- MCZones
    Resolvers = {"publicres", "cache"}
    Labels <- MCLabels
    Lower <- MCLower
    VendorIDs = {"A", "B"}
    Tables <- MCTables
INVARIANTS OwnTroubleIsOwn CompleteIsExact Canonical LoadedIfClean EveryClaimAnswers Attributed
CHECK_DEADLOCK FALSE
