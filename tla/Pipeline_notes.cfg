SPECIFICATION Spec
CONSTANTS
    ChunkSize = 3
    Overlap = 1
    MaxSegments = 2
    MaxAttempts = 2
    SentencesPerTerm = 1
    Inputs <- MCInputs
CHECK_DEADLOCK FALSE
INVARIANTS TypeOK UnitIsOwn NothingCut RowsAsExpected SentencesFit SpeakersHeard
