\* Two goroutines, three questions and room for two entries: expiry, eviction and
\* overwriting, and the cache behaves as its abstract specification says.
SPECIFICATION Spec
CONSTANTS
    Procs = {p1, p2}
    Keys = {k1, k2, k3}
    TTLs = {0}
    MinTTL = 1
    MaxTTL = 1
    NegativeTTL = 1
    MaxEntries = 2
    MaxTime = 2
    MaxCalls = 2
    None = None
    Closed = Closed
SYMMETRY Symmetry
INVARIANTS Bounded
PROPERTIES MemoSpec
CHECK_DEADLOCK FALSE
