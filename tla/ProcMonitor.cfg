SPECIFICATION FairSpec
CONSTANTS
    MaxPid = 2
    MaxUses = 2
    MaxDrops = 1
    Chunk = 1
INVARIANTS TypeOK ReportedOnce WholeEvent
PROPERTIES FreshIsReported
CHECK_DEADLOCK FALSE
