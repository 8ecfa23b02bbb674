\* One week and a half: the first channel is replaced, one fault at any step.
CONSTANTS
    Life = 4
    Ahead = 2
    Absent = Absent
    MaxChannels = 5
    MaxDays = 5
    MaxEdits = 1
    MaxOrders = 2
    MaxFaults = 1
SPECIFICATION Spec
CHECK_DEADLOCK FALSE
INVARIANTS TypeOK Covered OrphansAreFaults
PROPERTIES ChangeSeen
