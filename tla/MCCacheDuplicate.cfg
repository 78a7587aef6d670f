\* Two goroutines and one question: the second queries although the first,
\* which it waited for, has the answer.
SPECIFICATION Spec
CONSTANTS
    Procs = {p1, p2}
    Keys = {k1}
    TTLs = {0}
    MinTTL = 1
    MaxTTL = 1
    NegativeTTL = 1
    MaxEntries = 1
    MaxTime = 0
    MaxCalls = 1
    None = None
    Closed = Closed
INVARIANTS NoDuplicateQuery
CHECK_DEADLOCK FALSE
