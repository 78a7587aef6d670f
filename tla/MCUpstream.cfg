\* Two goroutines contend for slots, and their queries for the rotation.
SPECIFICATION SpecBoth
CONSTANTS
    Procs = {p1, p2}
    Interval = 2
    BurstSlots = 0
    MaxTime = 3
    MaxCalls = 2
    Config <- MCConfig
    Questions <- MCQuestions
    Zone <- MCZone
    IPv6Of <- MCIPv6Of
    NoHosts <- MCNoHosts
    Partial = "partial"
    None = "none"
INVARIANTS TypeOK SlotsApart RateCeiling HorizonBounded AttemptCeiling Balanced TimeBounded
PROPERTIES RetryMoves KeepsPromise Returns
CHECK_DEADLOCK FALSE
