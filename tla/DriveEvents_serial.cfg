SPECIFICATION FairSpec
CONSTANTS
    Files = {f1, f2}
    Channels = {c1}
    Workers = {w1}
    Runners = {r1}
    Unconfigured = {}
    None = None
    Quiet = 1
    MaxDelay = 2
    MaxEdits = 2
    MaxDuplicates = 0
    MaxPushFaults = 1
    MaxRunFaults = 1
CHECK_DEADLOCK FALSE
INVARIANTS TypeOK NoEditLost
PROPERTIES EditIngested SightedIngested RecoveredIngested
