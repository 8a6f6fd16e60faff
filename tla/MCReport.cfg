SPECIFICATION Spec
CONSTANTS
    NoVersion = NoVersion
    NullValue = NullValue
    Keys <- MCKeys
    Versions <- MCVersions
    MaxCommits = 2
    MaxParts = 2
    MaxRowsPerCommit = 2
    MaxRows = 3
    MaxDeletes = 1
    CommandLines <- MCCommandLines
CHECK_DEADLOCK FALSE
INVARIANTS
    CleanIsFaithful
    ContextOnlySettles
    ScreenIsSound
    ScriptsAsExpected
    StaleOnlyByHint
