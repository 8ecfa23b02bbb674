SPECIFICATION FairSpec
CONSTANTS
    FieldNames = {m}
    NoBase = NoBase
    Cards = {c1, c2}
    Ingesters = {k1}
    Handlers = {h1}
    Absent = Absent
    Mine = Mine
    Limit = 1
    Policy = "prefer-remote"
    Faults = {"request", "timeout", "server", "agent", "acking", "apply"}
    MaxVersion = 2
    MaxIngests = 3
    MaxFaults = 1
    MaxEdits = 1
CHECK_DEADLOCK FALSE
INVARIANTS TypeOK SyncedHasNote AppliedWhileOpen NoCardSkipped OneOpenBatch
PROPERTY Delivered
