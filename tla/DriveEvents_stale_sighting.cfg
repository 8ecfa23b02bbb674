SPECIFICATION Spec
CONSTANTS
    Files = {f1}
    Channels = {c1}
    Workers = {w1, w2}
    Runners = {r1}
    Unconfigured = {}
    None = None
    Quiet = 1
    MaxDelay = 2
    MaxEdits = 2
    MaxDuplicates = 1
    MaxPushFaults = 0
    MaxRunFaults = 0
CHECK_DEADLOCK FALSE
INVARIANT NoEditLost
