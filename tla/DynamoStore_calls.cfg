\* Two clients whose calls about the same thing do not overlap.
CONSTANTS
    Files = {f1}
    Keys = {k1, k2}
    Contents = {x, y}
    Batches = {b1}
    Clients = {p1, p2}
    Quiet = 1
    MaxDelay = 2
    Absent = Absent
    Exclusive = TRUE
    MaxTime = 2
    MaxCards = 2
    MaxToken = 1
    MaxFaults = 1
SPECIFICATION Spec
CHECK_DEADLOCK FALSE
INVARIANTS TypeOK OneWinner OneCardPerKey
PROPERTIES ImplementsPendingEdits ImplementsCardTable
