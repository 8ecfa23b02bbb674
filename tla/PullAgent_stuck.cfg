SPECIFICATION FairSpec
CONSTANTS
    FieldNames = {m}
    NoBase = NoBase
    Cards = {c1}
    Ingesters = {k1}
    Handlers = {h1, h2}
    Absent = Absent
    Mine = Mine
    Limit = 1
    Policy = "prefer-remote"
    Faults = {"timeout"}
    MaxVersion = 1
    MaxIngests = 1
    MaxFaults = 1
    MaxEdits = 0
CHECK_DEADLOCK FALSE
PROPERTY InflightCleared
