SPECIFICATION FairSpec
CONSTANTS
    None = None
    Runs = {n1, n2}
    Starters = {scheduler, staff1}
    Scheduler = scheduler
    Workers = {w1, w2}
    LastItem = 2
    MaxCrashes = 1
INVARIANTS
    TypeOK
    NothingSkipped
PROPERTY
    EveryItemArrives
CHECK_DEADLOCK FALSE
