\* Responses of up to two records, some of which are not to be kept.
SPECIFICATION Spec
CONSTANTS
    TTLs = {0, 5}
    Targets = {t}
    MaxRecords = 2
    NoName = NoName
INVARIANTS TTLIsMinimum
CHECK_DEADLOCK FALSE
