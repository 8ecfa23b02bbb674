\* One exporter, no fault, and a user who edits a note once.
CONSTANTS
    FieldNames = {m}
    NoBase = NoBase
    Cards = {c1}
    Exporters = {e1}
    Absent = Absent
    Mine = Mine
    Policy = "prefer-remote"
    Edits = {"edit"}
    Faults = {}
    MaxVersion = 1
    MaxIngests = 1
    MaxEdits = 1
    MaxFaults = 0
SPECIFICATION Spec
PROPERTIES UserEditKept
