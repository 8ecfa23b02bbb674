\* One scheduler and one uploader, every fault once.
CONSTANTS
    Runs = {r1}
    Uploads = {u1}
    Local = {l1}
    Drive = {d1}
    Docs = {}
    a = a
    b = b
    x = x
    y = y
    Units = {a, b}
    Terms = {x, y}
    Vocabulary <- MCVocabulary
    Documents <- MCDocuments
    Absent = Absent
    MaxUnits = 2
    MaxEdits = 1
    MaxFaults = 1
    MaxUploads = 1
SPECIFICATION Spec
INVARIANTS TypeOK NoTermLost CacheSound
PROPERTIES Exported
