\* Three goroutines, one question: who leads, who waits, who is woken, with
\* failures and cancellations at any time.
SPECIFICATION FairSpec
CONSTANTS
    Procs = {p1, p2, p3}
    Keys = {k1}
    TTLs = {0}
    MinTTL = 1
    MaxTTL = 1
    NegativeTTL = 1
    MaxEntries = 1
    MaxTime = 0
    MaxCalls = 1
    None = None
    Closed = Closed
INVARIANTS TypeOK SingleFlight NoLostWakeup
PROPERTIES OwnErrorOnly EveryCallReturns
CHECK_DEADLOCK FALSE
