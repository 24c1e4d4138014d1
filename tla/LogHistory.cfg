SPECIFICATION Spec
CONSTANTS
    Capacity = 2
    PageSize = 2
    Ahead = 1
    MaxRecords = 3
    MaxLoads = 2
    MaxCrashes = 1
INVARIANTS
    JournalAgrees
    OnceOnly
    NothingSwallowed
CHECK_DEADLOCK FALSE
