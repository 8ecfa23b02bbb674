\* Two exporters at once, every fault.
CONSTANTS
    FieldNames = {m, p}
    NoBase = NoBase
    Cards = {c1}
    Exporters = {e1, e2}
    Absent = Absent
    Mine = Mine
    Policy = "prefer-remote"
    Edits = {"edit", "delete"}
    Faults = {"call", "answer", "crash"}
    MaxVersion = 2
    MaxIngests = 2
    MaxEdits = 1
    MaxFaults = 1
SPECIFICATION Spec
INVARIANTS TypeOK OneNotePerCard BaseWasHeld
PROPERTIES OwnNotesKept Delivered
