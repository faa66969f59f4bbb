SPECIFICATION Spec
CONSTANTS
    None = None
    Runs = {n1, n2}
    Starters = {scheduler, staff1}
    Scheduler = scheduler
    Workers = {w1, w2}
    LastItem = 2
    MaxCrashes = 0
INVARIANT
    OneUnderWay
CHECK_DEADLOCK FALSE
