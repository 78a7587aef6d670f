\* Two goroutines, one question, saves, crashes and loads at any moment.
SPECIFICATION FileSpec
CONSTANTS
    Procs = {p1, p2}
    Keys = {k1}
    TTLs = {0, 5}
    MinTTL = 1
    MaxTTL = 2
    NegativeTTL = 1
    MaxEntries = 1
    MaxTime = 3
    MaxCalls = 2
    None = None
    Closed = Closed
    Torn = Torn
SYMMETRY Symmetry
INVARIANTS FileSound EntriesSound
PROPERTIES ServedWithinLife
