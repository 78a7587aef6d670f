\* A domain without MX records has IPv6 addresses only, and is looked up through
\* the cache.
SPECIFICATION SpecSurvey
CONSTANTS
    Names <- MCNames
    Domain <- D
    Literals <- MCLiterals
    Rank <- MCRank
    Zones <- MCZones
    Resolvers = {"cache"}
    Labels <- MCLabels
    Lower <- MCLower
    VendorIDs = {"A", "B"}
    Tables <- NoTables
INVARIANTS MissingMeansNeither
CHECK_DEADLOCK FALSE
